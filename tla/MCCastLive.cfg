SPECIFICATION FairSpec
CONSTANTS
  Names = {living}
  Addrs = {a1}
  Casts <- MCCasts
  ATTEMPTS = 2
  Roaming = FALSE
  Blackouts = TRUE
  WriteFails = TRUE
PROPERTIES
  FoundInTheEnd
