SPECIFICATION Spec
CONSTANTS
  N = 2
  Code <- MCCode
  MainFile = 1
  UpdaterFile = 2
  ATTEMPTS = 2
  MaxReleases = 3
  ErrorPages = TRUE
  Truncating = TRUE
  WriteFails = TRUE
  Blackouts = TRUE
INVARIANTS
  TypeOK
  FileVersionsHonest
  VersionHonest
  JunkIsRetried
PROPERTIES
  RebootsOnce
