SPECIFICATION Spec
CONSTANTS
  Pictures <- MCPictures
  Sightings <- MCSightings
  MaxSightings = 2
  Benchmarks <- MCBenchmarks
INVARIANTS
  TypeOK
  JudgedWasSeen
  PricedOnce
  DestroyedSurfaceDecides
PROPERTIES
  NothingSeenIsLost
  TopGradeNeedsMeasurement
  DamageOutlivesTheTable
