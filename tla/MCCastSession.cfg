SPECIFICATION FairSpec
CONSTANTS
  MAX_RETRIES = 3
INVARIANTS
  TypeOK
  HealthyCastPlays
PROPERTIES
  KeepsPromise
  CastEnds
CHECK_DEADLOCK FALSE
