---------------------------- MODULE PrayerSchedule ----------------------------
(***************************************************************************)
(* The prayer scheduler: run_schedule() of bilalcast/main.py, with the      *)
(* clock synchronisation (set_rtc, get_location, adjust_rtc) and the fetch  *)
(* of the day's timetable that surround it at boot and after midnight.      *)
(*                                                                         *)
(* The scheduler is one coroutine of a cooperative event loop.  What it     *)
(* runs between two awaits is one action.  Time moves from event to event:  *)
(* a sleep ends at its deadline plus the time other tasks keep the event    *)
(* loop busy (Lateness), a cast takes some of CastTimes, and a network      *)
(* exchange with its retries some of FetchTimes.                            *)
(***************************************************************************)
EXTENDS PrayerTimes, FiniteSets

CONSTANTS
  PRE_ATHAN_MINS,     \* minutes between reminder and prayer, 0 = no reminder
  Timetables,         \* the timetables the prayer service may answer with
  Horizon,            \* bound: the last date the model has a timetable for
  BootTimes,          \* UTC instants at which main() may reach the clock sync
  Lateness,           \* seconds by which a sleep may overrun its deadline
  CastTimes,          \* seconds do_cast may take
  FetchTimes,         \* seconds a network exchange may take, retries included
  Outages,            \* seconds from the last event to the next boot's main()
  MaxResets,          \* bound: how often the device loses power or resets
  MaxLate, MaxCast, MaxFetch,        \* bounds of the three sets above
  OffsetBefore, OffsetAfter, DstAt   \* UTC offset before and from instant DstAt

Days == 0 .. Horizon
NotReady == -1
None == 0             \* state["next_prayer"] is None

SETTLE == 200         \* asyncio.sleep(200) after an athan

ASSUME ConstantsAssumption ==
  /\ PRE_ATHAN_MINS \in Nat
  /\ Timetables \subseteq [Prayers -> Minutes \cup {NoTime}]
  /\ \A tt \in Timetables : \E p \in Prayers : tt[p] # NoTime
  /\ Horizon \in Nat
  /\ MaxLate \in Nat /\ MaxCast \in Nat /\ MaxFetch \in Nat
  /\ Lateness \subseteq 0 .. MaxLate
  /\ CastTimes \subseteq 0 .. MaxCast
  /\ FetchTimes \subseteq 0 .. MaxFetch
  /\ Outages \subseteq Nat
  /\ MaxResets \in Nat
  /\ OffsetBefore \in Int /\ OffsetAfter \in Int /\ DstAt \in Int
  /\ BootTimes \subseteq Nat
  /\ \A b \in BootTimes : b + OffsetBefore >= 0 /\ b + OffsetAfter >= 0

VARIABLES
  now,         \* true time, UTC seconds
  rtcOffset,   \* what the device's clock shows is now + rtcOffset
  pc,          \* where the coroutine is
  pos,         \* position of the for loop over ATHANS_ORDER, 6 when it is over
  date,        \* date the timetable in use was requested for
  times,       \* state["prayer_times"]
  nextPrayer,  \* state["next_prayer"]
  wake,        \* deadline of the sleep in progress
  (* The environment and the history the properties are about. *)
  resets,      \* power losses and machine.reset() calls so far
  almanac,     \* the service's timetable of every date
  ready,       \* instant of the first timetable since the last boot that
               \* arrived on the day it was requested for
  reminded,    \* (date, prayer) whose reminder was started
  called,      \* (date, prayer) whose athan was started when it was due
  strays       \* (ready, prayer) of the athans started when none was due

history == <<resets, almanac, ready, reminded, called, strays>>

vars == <<now, rtcOffset, pc, pos, date, times, nextPrayer, wake, history>>
-----------------------------------------------------------------------------
(* The zone's UTC offset, as the geolocation service reports it. *)
ZoneOffset(t) == IF t < DstAt THEN OffsetBefore ELSE OffsetAfter

(* What time.localtime() reads off at instant t. *)
Rtc(t) == t + rtcOffset

(* The UTC instant at which prayer p of date d really falls: the instant at
   which the zone's clock shows the timetable's time on that date. *)
Due(d, p) ==
  LET local == d * DAY + almanac[d][p] * 60
  IN  IF local - OffsetBefore < DstAt THEN local - OffsetBefore
                                      ELSE local - OffsetAfter

(* Calling p at t answers the prayer p of date d. *)
OnTime(d, p, t) ==
  /\ almanac[d][p] # NoTime
  /\ Due(d, p) <= t
  /\ t <= Due(d, p) + MaxLate

(* asyncio.sleep until wake; no await, hence no delay, when nothing is left. *)
Awake == IF wake > now THEN {wake + late : late \in Lateness} ELSE {now}
-----------------------------------------------------------------------------
Init ==
  /\ almanac \in [Days -> Timetables]
  /\ now \in BootTimes
  /\ rtcOffset = 0
  /\ pc = "sync"
  /\ pos = 1
  /\ date = 0
  /\ times = [p \in Prayers |-> NoTime]
  /\ nextPrayer = None
  /\ wake = now
  /\ resets = 0
  /\ ready = NotReady
  /\ reminded = {}
  /\ called = {}
  /\ strays = {}

(* Mutant: the clock is set to UTC and not adjusted. *)
SyncClockUtc ==
  /\ pc = "sync"
  /\ \E d \in FetchTimes : now' = now + d
  /\ rtcOffset' = 0
  /\ pc' = "fetch"
  /\ UNCHANGED <<pos, date, times, nextPrayer, wake, history>>

(* set_rtc() puts UTC into the clock, get_location() retries until it has the
   zone's offset and adjust_rtc() adds it. *)
SyncClock ==
  /\ pc = "sync"
  /\ \E d \in FetchTimes :
       /\ now' = now + d
       /\ rtcOffset' = ZoneOffset(now + d)
  /\ pc' = "fetch"
  /\ UNCHANGED <<pos, date, times, nextPrayer, wake, history>>

(* Mutant: the timetable of the day after is requested. *)
FetchTomorrow ==
  /\ pc = "fetch"
  /\ \E before, during \in FetchTimes :
       LET today == DateOf(Rtc(now + before))
       IN  /\ today \in Days
           /\ now' = now + before + during
           /\ date' = today + 1
           /\ times' = almanac[today]
           /\ ready' = IF ready = NotReady /\ DateOf(Rtc(now')) = today THEN now' ELSE ready
  /\ pos' = 1
  /\ pc' = "scan"
  /\ UNCHANGED <<rtcOffset, nextPrayer, wake, resets, almanac, reminded, called, strays>>

(* get_all_prayers() reads the date off the clock, then asks; a failure makes it
   read and ask again.  What happens before the request that succeeds takes
   `before` (at boot the search for the Chromecast too), the request `during`:
   one that is under way at midnight brings the timetable of the day that has
   just ended.  The for loop starts over with what it brought. *)
FetchTimings ==
  /\ pc = "fetch"
  /\ \E before, during \in FetchTimes :
       LET today == DateOf(Rtc(now + before))
       IN  /\ today \in Days
           /\ now' = now + before + during
           /\ date' = today
           /\ times' = almanac[today]
           /\ ready' = IF ready = NotReady /\ DateOf(Rtc(now')) = today THEN now' ELSE ready
  /\ pos' = 1
  /\ pc' = "scan"
  /\ UNCHANGED <<rtcOffset, nextPrayer, wake, resets, almanac, reminded, called, strays>>

(* The end of the almanac: the model follows the device no further. *)
AlmanacEnds ==
  /\ pc = "fetch"
  /\ \A before \in FetchTimes : DateOf(Rtc(now + before)) \notin Days
  /\ UNCHANGED vars
-----------------------------------------------------------------------------
Upcoming(p) == times[p] # NoTime /\ ~TimePassed(times[p], Rtc(now))

(* `if not t or _time_passed(t): continue` *)
SkipPrayer ==
  /\ pc = "scan" /\ pos \in Prayers
  /\ ~Upcoming(pos)
  /\ pos' = pos + 1
  /\ UNCHANGED <<now, rtcOffset, pc, date, times, nextPrayer, wake, history>>

(* Mutant: a reminder of the coming minute counts as passed. *)
RemindFirstEarly(p) ==
  /\ PRE_ATHAN_MINS > 0
  /\ ~TimePassed(PreAthanTime(times[p], PRE_ATHAN_MINS) - 1, Rtc(now))

(* A reminder is due first when its own time has not passed either. *)
RemindFirst(p) ==
  /\ PRE_ATHAN_MINS > 0
  /\ ~TimePassed(PreAthanTime(times[p], PRE_ATHAN_MINS), Rtc(now))

(* Mutant: state["next_prayer"] is set only with a reminder. *)
TakePrayerUnshown ==
  /\ pc = "scan" /\ pos \in Prayers
  /\ Upcoming(pos)
  /\ \/ /\ RemindFirst(pos)
        /\ nextPrayer' = pos
        /\ pc' = "pre"
        /\ wake' = now + SecondsUntil(PreAthanTime(times[pos], PRE_ATHAN_MINS), Rtc(now))
     \/ /\ ~RemindFirst(pos)
        /\ UNCHANGED nextPrayer
        /\ pc' = "wait"
        /\ wake' = now + SecondsUntil(times[pos], Rtc(now))
  /\ UNCHANGED <<now, rtcOffset, pos, date, times, history>>

(* The loop body up to its first await: sleep until the reminder or, when it
   is switched off or too late, until the prayer. *)
TakePrayer ==
  /\ pc = "scan" /\ pos \in Prayers
  /\ Upcoming(pos)
  /\ nextPrayer' = pos
  /\ \/ /\ RemindFirst(pos)
        /\ pc' = "pre"
        /\ wake' = now + SecondsUntil(PreAthanTime(times[pos], PRE_ATHAN_MINS), Rtc(now))
     \/ /\ ~RemindFirst(pos)
        /\ pc' = "wait"
        /\ wake' = now + SecondsUntil(times[pos], Rtc(now))
  /\ UNCHANGED <<now, rtcOffset, pos, date, times, history>>

(* asyncio.create_task(do_cast(PRE_ATHAN, ...)), then sleep until the prayer. *)
Remind ==
  /\ pc = "pre"
  /\ \E t \in Awake :
       /\ now' = t
       /\ wake' = t + SecondsUntil(times[pos], Rtc(t))
  /\ reminded' = reminded \cup {<<date, pos>>}
  /\ pc' = "wait"
  /\ UNCHANGED <<rtcOffset, pos, date, times, nextPrayer, resets, almanac, ready, called, strays>>

(* await do_cast(ATHANS[prayer], ...) *)
CallAthan ==
  /\ pc = "wait"
  /\ \E t \in Awake :
       LET fresh == {d \in Days : OnTime(d, pos, t) /\ <<d, pos>> \notin called}
       IN  /\ now' = t
           /\ called' = called \cup {<<d, pos>> : d \in fresh}
           /\ strays' = IF fresh = {} THEN strays \cup {<<ready, pos>>} ELSE strays
  /\ pc' = "cast"
  /\ UNCHANGED <<rtcOffset, pos, date, times, nextPrayer, wake, resets, almanac, ready, reminded>>

CastReturns ==
  /\ pc = "cast"
  /\ \E d \in CastTimes :
       /\ now' = now + d
       /\ wake' = now + d + SETTLE
  /\ pc' = "settle"
  /\ UNCHANGED <<rtcOffset, pos, date, times, nextPrayer, history>>

Settled ==
  /\ pc = "settle"
  /\ now' \in Awake
  /\ pos' = pos + 1
  /\ pc' = "scan"
  /\ UNCHANGED <<rtcOffset, date, times, nextPrayer, wake, history>>

(* Mutant: the night's sleep ends at midnight. *)
DayOverAtMidnight ==
  /\ pc = "scan" /\ pos \notin Prayers
  /\ nextPrayer' = None
  /\ LET secs == SecondsUntil(0, Rtc(now))
     IN  wake' = now + (IF secs < 60 THEN 60 ELSE secs)
  /\ pc' = "midnight"
  /\ UNCHANGED <<now, rtcOffset, pos, date, times, history>>

(* asyncio.sleep(max(60, seconds_until("00:01"))) *)
DayOver ==
  /\ pc = "scan" /\ pos \notin Prayers
  /\ nextPrayer' = None
  /\ LET secs == SecondsUntil(1, Rtc(now))
     IN  wake' = now + (IF secs < 60 THEN 60 ELSE secs)
  /\ pc' = "midnight"
  /\ UNCHANGED <<now, rtcOffset, pos, date, times, history>>

NewDay ==
  /\ pc = "midnight"
  /\ now' \in Awake
  /\ pc' = "sync"
  /\ UNCHANGED <<rtcOffset, pos, date, times, nextPrayer, wake, history>>

(* A power loss, or machine.reset() after NTP or Wi-Fi gave up: the clock and
   everything in memory are gone and main() starts again. *)
Reset ==
  /\ resets < MaxResets
  /\ resets' = resets + 1
  /\ \E d \in Outages : now' = now + d
  /\ rtcOffset' = 0
  /\ pc' = "sync"
  /\ pos' = 1
  /\ date' = 0
  /\ times' = [p \in Prayers |-> NoTime]
  /\ nextPrayer' = None
  /\ wake' = now'
  /\ ready' = NotReady
  /\ UNCHANGED <<almanac, reminded, called, strays>>

Next ==
  \/ SyncClock
  \/ FetchTimings
  \/ SkipPrayer
  \/ TakePrayer
  \/ Remind
  \/ CallAthan
  \/ CastReturns
  \/ Settled
  \/ DayOver
  \/ NewDay
  \/ Reset
  \/ AlmanacEnds

Spec == Init /\ [][Next]_vars
-----------------------------------------------------------------------------
PCs == {"sync", "fetch", "scan", "pre", "wait", "cast", "settle", "midnight"}

(* Every variable has its type (the ranges the code's values can take). *)
TypeOK ==
  /\ now \in Nat
  /\ rtcOffset \in Int
  /\ pc \in PCs
  /\ pos \in 1 .. 6
  /\ (pc \in {"pre", "wait", "cast", "settle"}) => pos \in Prayers
  /\ date \in Days
  /\ times \in [Prayers -> Minutes \cup {NoTime}]
  /\ nextPrayer \in Prayers \cup {None}
  /\ wake \in Nat
  /\ almanac \in [Days -> Timetables]
  /\ resets \in 0 .. MaxResets
  /\ ready \in Nat \cup {NotReady}
  /\ reminded \subseteq Days \X Prayers
  /\ called \subseteq Days \X Prayers
  /\ strays \subseteq (Nat \cup {NotReady}) \X Prayers

(* No prayer is missed: once a timetable has come in on the day it is for, every
   prayer of every date whose instant comes later has been called within
   MaxLate of it, across the loop, the settling sleep, midnight, the clock sync
   and the fetch of the next day. *)
NoneMissed ==
  ready # NotReady =>
    \A d \in Days, p \in Prayers :
      /\ almanac[d][p] # NoTime
      /\ Due(d, p) > ready
      /\ Due(d, p) + MaxLate < now
      => <<d, p>> \in called

(* From the same timetable on no athan sounds at a time that is no prayer's, and
   none sounds twice. *)
NoStrayCall == \A s \in strays : s[1] = NotReady

(* README.md:3, "plays the athan (call to prayer) at the correct times". *)
CorrectTimes == NoneMissed /\ strays = {}

(* The instants at which the prayers of the almanac fall. *)
Falls == [e \in {f \in Days \X Prayers : almanac[f[1]][f[2]] # NoTime} |-> Due(e[1], e[2])]

Promise == INSTANCE AthanPromise WITH
  LEAD <- PRE_ATHAN_MINS * 60,
  since <- ready,
  due <- Falls,
  announced <- reminded,
  answered <- called

(* The scheduler keeps its promise: whatever the hour of the boot, the delays
   and the resets, each prayer after the first timetable that came on its own
   day is announced in time and called on time, each once, in the order of the
   day, and no athan is called that is no prayer's (main.py:308-343). *)
KeepsPromise == Promise!Spec

(* What the status page's "next" row shows whenever the scheduler lets it be
   read: while the scheduler sleeps towards a prayer, that one, and with a
   timetable of the day none that is still to come is earlier; from the call
   until the pause after it is over, still the one called; nothing from the
   last of the day until the next day's loop has begun (main.py:316, 339). *)
ShownIsNext ==
  /\ pc \in {"sync", "fetch", "midnight"} => nextPrayer = None
  /\ pc \in {"pre", "wait", "cast", "settle"} => nextPrayer = pos
  /\ pc \in {"pre", "wait"} /\ ready # NotReady =>
       \A q \in Prayers : Upcoming(q) => times[pos] <= times[q]
=============================================================================
