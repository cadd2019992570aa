SPECIFICATION FairSpec
CONSTANTS
  Clients = {c1, c2}
  NonAscii <- MCNonAscii
  Forms <- MCForms
  NewNames <- MCNewNames
  Wifi <- MCWifi
  Speakers = {living, kitchen}
  PAGE = 2
  SCANS = 2
INVARIANTS
  TypeOK
  SavedAsTyped
  ListedOnce

  
