CONSTANTS
  Procs = {p1}
  Files <- MCFiles
  LdSo <- MCLdSo
  NoPath = NoPath
  Absent = Absent
  Rules <- MCRulesUntrustedDir
  SubjAttrs <- MCSubjAttrs
  FTypes <- MCFTypes
  DefaultDecision = "DENY"
SPECIFICATION Spec
PROPERTY UntrustedOpensDenied
