CONSTANTS
  Procs = {p1}
  Files <- MCFiles
  LdSo <- MCLdSo
  NoPath = NoPath
  Absent = Absent
  Rules <- MCRulesTwoPatterns
  SubjAttrs <- MCSubjAttrs
  FTypes <- MCFTypes
  DefaultDecision = "ALLOW"
SPECIFICATION SnapSpec
PROPERTY DecisionIndependentOfEarlierRules
