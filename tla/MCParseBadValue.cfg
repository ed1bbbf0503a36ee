CONSTANTS
  Tokens <- MCTokensBadValue
  MaxLen = 4
  Users <- MCUsers
SPECIFICATION ParserSpec
CHECK_DEADLOCK FALSE
INVARIANT ParsedAsSpecified
