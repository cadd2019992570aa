------------------------ MODULE RegularPrayerSchedule ------------------------
(***************************************************************************)
(* The prayer scheduler at a location, and with delays, for which its       *)
(* arithmetic is right; and the inductive invariant of its safety.          *)
(***************************************************************************)
EXTENDS PrayerSchedule

(* What the timetables and the delays must satisfy for the scheduler to keep
   its promise.  Slack is the longest time from a prayer's minute to the scan
   for the next one. *)
Slack == MaxLate + MaxCast + SETTLE + MaxLate

WellSpaced(tt) ==
  /\ \A p, q \in Prayers :
       p < q /\ tt[p] # NoTime /\ tt[q] # NoTime
         => tt[p] * 60 + Slack < (tt[q] - PRE_ATHAN_MINS) * 60
  /\ \A p \in Prayers :
       tt[p] # NoTime =>
         /\ 120 + MaxLate + 3 * MaxFetch < (tt[p] - PRE_ATHAN_MINS) * 60
         /\ tt[p] * 60 + Slack <= DAY + 60

Regular ==
  /\ \A tt \in Timetables : WellSpaced(tt)
  /\ PRE_ATHAN_MINS > 0 => MaxLate <= PRE_ATHAN_MINS * 60
  /\ OffsetBefore = OffsetAfter

ASSUME RegularAssumption == Regular
-----------------------------------------------------------------------------
(* The strengthening of NoneMissed and NoStrayCall that every step preserves
   when the constants are Regular, part by part. *)

Present(d, p) == almanac[d][p] # NoTime

(* No account is open for prayer p of date d. *)
Kept(d, p) ==
  \/ ~Present(d, p)
  \/ Due(d, p) <= ready
  \/ <<d, p>> \in called

(* The instant at which the zone's clock begins date d. *)
Midnight(d) == d * DAY - OffsetBefore

Planned == pc \in PCs \ {"sync", "fetch"}

(* The timetable in use came on the day it is for, or follows one that did. *)
Fresh == ready # NotReady

(* Between midnight's wake-up and the new timetable. *)
TurningDay == pc \in {"sync", "fetch"} /\ Fresh

ClockSet == pc # "sync" => rtcOffset = OffsetBefore

TableKnown == Planned => times = almanac[date]

(* A timetable in use that is not is that of a day that is over. *)
StaleDay == Planned /\ ~Fresh => Midnight(date + 1) <= now

ReadyPast == ready <= now

(* What lies behind the loop's position is settled. *)
PastKept ==
  /\ Planned /\ Fresh =>
       /\ \A d \in Days, p \in Prayers : d < date => Kept(d, p)
       /\ \A p \in Prayers : p < pos => Kept(date, p)
  /\ pc \in {"cast", "settle"} /\ Fresh => Kept(date, pos)
  /\ TurningDay => \A d \in Days, p \in Prayers : d <= date => Kept(d, p)

(* What lies ahead of the loop's position is still to come. *)
ScanWindow ==
  pc = "scan" /\ Fresh =>
    /\ Midnight(date) <= now /\ now <= Midnight(date + 1) + 60
    /\ now = ready => now < Midnight(date + 1)
    /\ \A p \in Prayers : Present(date, p) =>
         /\ p < pos => Due(date, p) <= now
         /\ p >= pos => now = ready \/ now < Due(date, p) - PRE_ATHAN_MINS * 60

SleepWindow ==
  /\ pc \in {"pre", "wait"} => Present(date, pos)
  /\ pc \in {"pre", "wait"} /\ Fresh => <<date, pos>> \notin called
  /\ pc = "pre" /\ Fresh =>
       /\ PRE_ATHAN_MINS > 0
       /\ wake = Due(date, pos) - PRE_ATHAN_MINS * 60
       /\ now < wake
  /\ pc = "wait" /\ Fresh => wake = Due(date, pos) /\ now <= wake

CastWindow ==
  /\ pc \in {"cast", "settle"} /\ Fresh => Present(date, pos) /\ Due(date, pos) <= now
  /\ pc = "cast" /\ Fresh => now <= Due(date, pos) + MaxLate
  /\ pc = "settle" /\ Fresh => now <= Due(date, pos) + MaxLate + MaxCast /\ wake = now + SETTLE

MidnightWindow ==
  /\ pc = "midnight" /\ Fresh =>
       /\ pos = 6
       /\ now < wake
       /\ Midnight(date + 1) + 60 <= wake /\ wake <= Midnight(date + 1) + 120
  /\ TurningDay => Midnight(date + 1) <= now
  /\ TurningDay /\ pc = "sync" => now <= Midnight(date + 1) + 120 + MaxLate
  /\ TurningDay /\ pc = "fetch" => now <= Midnight(date + 1) + 120 + MaxLate + MaxFetch

CalledDue ==
  \A d \in Days, p \in Prayers : <<d, p>> \in called => Present(d, p) /\ Due(d, p) <= now

IInv ==
  /\ TypeOK
  /\ ClockSet
  /\ TableKnown
  /\ StaleDay
  /\ ReadyPast
  /\ PastKept
  /\ ScanWindow
  /\ SleepWindow
  /\ CastWindow
  /\ MidnightWindow
  /\ CalledDue
  /\ NoStrayCall
=============================================================================
