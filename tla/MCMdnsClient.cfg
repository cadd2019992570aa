SPECIFICATION FairSpec
CONSTANTS
  Messages <- MCMessages
  Questions <- MCQuestions
  Searches = {s1, s2}
  HostName <- MCHostName
  HostAddress <- MCHostAddress
  QUEUE = 2
INVARIANTS
  TypeOK
  Understood
PROPERTIES
  EveryoneServed
CHECK_DEADLOCK FALSE
