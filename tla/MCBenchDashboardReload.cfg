CONSTANTS
  Handsets = {d1}
  MaxFaults = 0
  MaxFeed = 2
  Fetches = {f1, f2}
  None = None
SPECIFICATION DashboardSpec
PROPERTY NeverHasToReload
CHECK_DEADLOCK FALSE
