SPECIFICATION Spec
CONSTANTS
  Handsets = {h1}
  Jobs = {j1, j2}
  Domains <- OneDomain
  CollectAnalytics = TRUE
  MaxRefusals = 2
INVARIANTS TypeOK GapsAreNamed
PROPERTIES VerdictOutlivesUpload EveryRequestEnds
CHECK_DEADLOCK FALSE
