CONSTANTS
  Tokens <- MCStoreTokens
  MaxLen = 3
  Users <- MCUsers
  Addrs = {a1, a2}
  NULL = NULL
SPECIFICATION Spec
INVARIANT StoreTypeOK
INVARIANT WalkFollowsStore
PROPERTY StoreRefinesRuleSeq
