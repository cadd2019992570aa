SPECIFICATION Spec
CONSTANTS
  Names = {living, kitchen}
  Addrs = {a1, a2}
  Casts <- MCCasts
  ATTEMPTS = 2
  Roaming = TRUE
  Blackouts = TRUE
  WriteFails = TRUE
INVARIANTS
  TypeOK
  RightDevice
  CacheFollowsConfig
PROPERTIES
  ErasedStaysErased
