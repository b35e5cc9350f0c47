CONSTANTS
  Handsets = {d1, d2}
  MaxFaults = 1
  MaxFeed = 3
SPECIFICATION Spec
INVARIANTS
  TypeOK
  FeedTellsTheList
PROPERTY ListCatchesUp
