CONSTANTS
  Tokens <- MCTokensLong
  MaxLen = 10
  Users <- MCUsers
SPECIFICATION ParserSpec
CHECK_DEADLOCK FALSE
INVARIANT FieldCountsBounded
