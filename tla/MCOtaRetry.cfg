SPECIFICATION Spec
CONSTANTS
  N = 3
  Code <- MCCode
  MainFile = 1
  UpdaterFile = 2
  ATTEMPTS = 2
  MaxReleases = 1
  ErrorPages = FALSE
  Truncating = FALSE
  WriteFails = FALSE
  Blackouts = FALSE
PROPERTY
  RetriesInstall
