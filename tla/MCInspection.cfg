SPECIFICATION Spec
CONSTANTS
  Batches <- MCBatches
  Failing <- MCFailing
  Catalogue <- MCCatalogue
  Specified = {"iPhone15"}
  Newer = {"iPhone17"}
INVARIANTS
  TypeOK
  EveryClaimIsCited
  AdverseFactsCap
  VerdictNeedsThePicture
  ListedPartIsDisclosed
  OriginalIsEarned
  CitesTheMostReliable
CHECK_DEADLOCK FALSE
