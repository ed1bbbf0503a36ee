CONSTANTS
  Tokens <- MCTokensGhost
  MaxLen = 3
  Users <- MCUsers
SPECIFICATION ParserSpec
CHECK_DEADLOCK FALSE
INVARIANT ParsedAsSpecified
