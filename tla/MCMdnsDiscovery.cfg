SPECIFICATION FairSpec
CONSTANTS
  Devices = {living, kitchen}
  Wanted = living
  Lowercase = {kitchen}
  Others = {printer}
  ROUNDS = 2
  BUFFER_SIZE = 2
INVARIANTS
  TypeOK
  MissingIsAskedFor
PROPERTIES
  KeepsPromise
  LoopsEnd
CHECK_DEADLOCK FALSE
