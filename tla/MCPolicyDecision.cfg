CONSTANTS
  Procs = {p1}
  Files <- MCFiles
  LdSo <- MCLdSo
  NoPath = NoPath
  Absent = Absent
  Rules <- MCRules
  SubjAttrs <- MCSubjAttrs
  FTypes <- MCFTypes
  DefaultDecision = "DENY"
SPECIFICATION Spec
INVARIANT TypeOK
INVARIANT PathsHeldOnlyWhileCollecting
INVARIANT ClassificationMatchesFirstPath
PROPERTY ClassificationStable
PROPERTY EveryEventDecided
