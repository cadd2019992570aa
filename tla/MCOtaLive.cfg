SPECIFICATION SettlingSpec
CONSTANTS
  N = 2
  Code <- MCCode
  MainFile = 1
  UpdaterFile = 2
  ATTEMPTS = 2
  MaxReleases = 2
  ErrorPages = FALSE
  Truncating = TRUE
  WriteFails = TRUE
  Blackouts = TRUE
PROPERTIES
  AppStarts
  KeepsUp
CHECK_DEADLOCK FALSE
