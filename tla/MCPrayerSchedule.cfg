SPECIFICATION Spec
CONSTANTS
  PRE_ATHAN_MINS = 5
  Timetables <- MCTimetables
  Horizon = 1
  BootTimes <- MCBootTimes
  Lateness = {0, 90}
  CastTimes = {84}
  FetchTimes = {7}
  Outages = {1, 50000}
  MaxResets = 1
  MaxLate = 90
  MaxCast = 84
  MaxFetch = 7
  OffsetBefore <- MCOffset
  OffsetAfter <- MCOffset
  DstAt = 0
INVARIANTS
  TypeOK
  NoneMissed
  NoStrayCall
  IInv
  ShownIsNext
PROPERTIES
  KeepsPromise
