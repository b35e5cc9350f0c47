SPECIFICATION Spec
CONSTANTS
  Batches <- LockedBatches
  Failing <- MCFailing
  Catalogue <- MCCatalogue
  Specified = {"iPhone15"}
  Newer = {"iPhone17"}
INVARIANTS CleanIsSupported
CHECK_DEADLOCK FALSE
