SPECIFICATION Spec
CONSTANTS
  Handsets = {h1}
  Jobs = {j1}
  Domains <- OneDomain
  CollectAnalytics = FALSE
  MaxRefusals = 2
INVARIANT EveryGapIsNamed
CHECK_DEADLOCK FALSE
