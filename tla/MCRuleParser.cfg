CONSTANTS
  Tokens <- MCTokens
  MaxLen = 4
  Users <- MCUsers
SPECIFICATION ParserSpec
\* One behaviour is one nv_split call: it stops when nv_split returns or
\* when exit(1) ends the daemon.
CHECK_DEADLOCK FALSE
INVARIANT TypeOK
INVARIANT AcceptedRuleUsable
