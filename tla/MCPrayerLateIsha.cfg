SPECIFICATION Spec
CONSTANTS
  PRE_ATHAN_MINS = 10
  Timetables <- LateIsha
  Horizon = 2
  BootTimes <- MCBootTimes
  Lateness = {0, 5}
  CastTimes = {6}
  FetchTimes = {3}
  Outages = {}
  MaxResets = 0
  MaxLate = 5
  MaxCast = 6
  MaxFetch = 3
  OffsetBefore <- MCOffset
  OffsetAfter <- MCOffset
  DstAt = 0
INVARIANT
  CorrectTimes
