------------------------ MODULE PrayerScheduleProofs ------------------------
(***************************************************************************)
(* The prayer scheduler at a Regular location keeps its promise: proofs     *)
(* that IInv is inductive and implies TypeOK, NoneMissed and NoStrayCall;   *)
(* that SleepInv relates the reminders and the status page to it; and that  *)
(* the scheduler implements AthanPromise.                                   *)
(***************************************************************************)
EXTENDS RegularPrayerSchedule, TLAPS

(* DateOf and TimeOfDay split a clock reading. *)
LEMMA ClockSplit ==
  ASSUME NEW r \in Int
  PROVE  /\ r = DateOf(r) * DAY + TimeOfDay(r)
         /\ 0 <= TimeOfDay(r) /\ TimeOfDay(r) < DAY
         /\ DateOf(r) \in Int /\ TimeOfDay(r) \in Int
BY DEF DAY, DateOf, TimeOfDay

(* The split is the only one. *)
LEMMA SplitUnique ==
  ASSUME NEW r \in Int, NEW d \in Int, d * DAY <= r, r < (d + 1) * DAY
  PROVE  DateOf(r) = d /\ TimeOfDay(r) = r - d * DAY
BY DEF DAY, DateOf, TimeOfDay

(* Within a date, a minute has begun exactly when its instant has come. *)
LEMMA PassedOnDate ==
  ASSUME NEW r \in Int, NEW d \in Int, NEW t \in Int,
         d * DAY <= r, r < (d + 1) * DAY
  PROVE  TimePassed(t, r) <=> d * DAY + t * 60 <= r
<1>1. TimeOfDay(r) = r - d * DAY
  BY SplitUnique
<1> QED
  BY <1>1 DEF TimePassed, DAY

(* Within a date, the seconds until a time still to come lead to its instant. *)
LEMMA SecondsOnDate ==
  ASSUME NEW r \in Int, NEW d \in Int, NEW t \in Int,
         d * DAY <= r, r <= d * DAY + t * 60, t < 1440
  PROVE  /\ SecondsUntil(t, r) = d * DAY + t * 60 - r
         /\ SecondsUntil(t, r) \in Nat
<1>1. r < (d + 1) * DAY
  BY DEF DAY
<1>2. TimeOfDay(r) = r - d * DAY
  BY <1>1, SplitUnique
<1> QED
  BY <1>2 DEF SecondsUntil, DAY

(* The seconds until a time of day are never negative and never a whole day. *)
LEMMA SecondsRange ==
  ASSUME NEW r \in Int, NEW t \in Minutes
  PROVE  SecondsUntil(t, r) \in Nat /\ SecondsUntil(t, r) < DAY
<1>1. /\ 0 <= TimeOfDay(r) /\ TimeOfDay(r) < DAY /\ TimeOfDay(r) \in Int
  BY ClockSplit
<1> QED
  BY <1>1 DEF SecondsUntil, Minutes, DAY

(* A reminder on the same date lies the plain number of minutes earlier. *)
LEMMA ReminderTime ==
  ASSUME NEW t \in Minutes, NEW m \in Nat, m <= t
  PROVE  PreAthanTime(t, m) = t - m /\ PreAthanTime(t, m) \in Minutes
BY DEF PreAthanTime, Minutes

(* A timetable's entry is a number. *)
LEMMA MinuteRange ==
  \A t \in Minutes \cup {NoTime} :
    t \in Int /\ (t # NoTime => t \in Minutes /\ 0 <= t /\ t < 1440)
<1>1. ASSUME NEW t \in Minutes PROVE t \in Int /\ 0 <= t /\ t < 1440
  BY DEF Minutes
<1>2. NoTime \in Int
  BY DEF NoTime
<1> QED
  BY <1>1, <1>2

(* The constants are numbers. *)
LEMMA Numbers ==
  /\ PRE_ATHAN_MINS \in Nat /\ MaxLate \in Nat /\ MaxCast \in Nat /\ MaxFetch \in Nat
  /\ OffsetBefore \in Int
  /\ PRE_ATHAN_MINS > 0 => MaxLate <= PRE_ATHAN_MINS * 60
BY ConstantsAssumption, RegularAssumption DEF ConstantsAssumption, Regular

(* Dates are numbers. *)
LEMMA DaysNat == \A d \in Days : d \in Nat /\ d \in Int
BY ConstantsAssumption DEF ConstantsAssumption, Days

(* What Regular says of the timetable of one date. *)
LEMMA TableFacts ==
  ASSUME TypeOK, NEW d \in Days, NEW p \in Prayers
  PROVE  /\ almanac[d] \in [Prayers -> Minutes \cup {NoTime}]
         /\ Due(d, p) = d * DAY + almanac[d][p] * 60 - OffsetBefore
         /\ Present(d, p) =>
              /\ almanac[d][p] \in Minutes
              /\ almanac[d][p] \in Int /\ 0 <= almanac[d][p] /\ almanac[d][p] < 1440
              /\ 120 + MaxLate + 3 * MaxFetch < (almanac[d][p] - PRE_ATHAN_MINS) * 60
              /\ almanac[d][p] * 60 + Slack <= DAY + 60
              /\ \A q \in Prayers : p < q /\ Present(d, q) =>
                   almanac[d][p] * 60 + Slack < (almanac[d][q] - PRE_ATHAN_MINS) * 60
<1>1. almanac[d] \in Timetables
  BY DEF TypeOK
<1>2. almanac[d] \in [Prayers -> Minutes \cup {NoTime}]
  BY <1>1, ConstantsAssumption DEF ConstantsAssumption
<1>3. WellSpaced(almanac[d])
  BY <1>1, RegularAssumption DEF Regular
<1>4. almanac[d][p] \in Minutes \cup {NoTime}
  BY <1>2
<1>5. /\ almanac[d][p] \in Int
      /\ Present(d, p) => /\ almanac[d][p] \in Minutes
                          /\ 0 <= almanac[d][p] /\ almanac[d][p] < 1440
  BY <1>4, MinuteRange DEF Present
<1>6. Due(d, p) = d * DAY + almanac[d][p] * 60 - OffsetBefore
  <2>1. OffsetAfter = OffsetBefore
    BY RegularAssumption DEF Regular
  <2> QED
    BY <1>5, <2>1, Numbers, DaysNat DEF Due, DAY
<1> QED
  BY <1>2, <1>3, <1>5, <1>6 DEF WellSpaced, Present

(* Both offsets are one, so an instant on the zone's clock is plain. *)
LEMMA OneZone ==
  OffsetAfter = OffsetBefore /\ \A t : ZoneOffset(t) = OffsetBefore
BY RegularAssumption DEF Regular, ZoneOffset
-----------------------------------------------------------------------------
(* The device boots with nothing called and no timetable. *)
LEMMA InitEstablishes == Init => IInv
<1> SUFFICES ASSUME Init PROVE IInv
  OBVIOUS
<1>1. TypeOK
  BY Numbers, ConstantsAssumption
  DEF Init, TypeOK, PCs, ConstantsAssumption, Days, Prayers, None, NotReady, Minutes
<1>2. /\ ClockSet /\ TableKnown /\ StaleDay /\ PastKept /\ ScanWindow /\ SleepWindow
      /\ CastWindow /\ MidnightWindow
  BY DEF Init, Fresh, PCs, Planned, TurningDay, ClockSet, TableKnown, StaleDay, PastKept,
         ScanWindow, SleepWindow, CastWindow, MidnightWindow
<1>3. ReadyPast /\ CalledDue /\ NoStrayCall
  BY <1>1 DEF Init, TypeOK, ReadyPast, CalledDue, NoStrayCall, NotReady
<1> QED
  BY <1>1, <1>2, <1>3 DEF IInv

(* A prayer that is skipped has passed and is settled, or is not listed. *)
LEMMA SkipPrayerKeeps ==
  ASSUME IInv, Fresh, SkipPrayer
  PROVE  IInv'
<1> USE DEF IInv, Fresh
<1>1. /\ pc = "scan" /\ pos \in Prayers /\ pos' = pos + 1
      /\ UNCHANGED <<now, rtcOffset, pc, date, times, nextPrayer, wake, resets,
                     almanac, ready, reminded, called, strays>>
  BY DEF SkipPrayer, history
<1>2. /\ rtcOffset = OffsetBefore /\ times = almanac[date]
      /\ date \in Days /\ date \in Int /\ now \in Nat /\ ready \in Int
  BY <1>1, DaysNat DEF ClockSet, TableKnown, StaleDay, Planned, PCs, TypeOK, NotReady
<1>3. Present(date, pos) => Due(date, pos) <= now /\ Due(date, pos) <= ready
  <2> SUFFICES ASSUME Present(date, pos)
               PROVE  Due(date, pos) <= now /\ Due(date, pos) <= ready
    OBVIOUS
  <2>1. TimePassed(almanac[date][pos], now + OffsetBefore)
    BY <1>1, <1>2 DEF SkipPrayer, Upcoming, Present, Rtc
  <2>2. /\ almanac[date][pos] \in Int /\ 0 <= almanac[date][pos] /\ almanac[date][pos] < 1440
        /\ Due(date, pos) = date * DAY + almanac[date][pos] * 60 - OffsetBefore
    BY <1>1, <1>2, TableFacts
  <2>3. /\ Midnight(date) <= now
        /\ now = ready => now < Midnight(date + 1)
        /\ now = ready \/ now < Due(date, pos) - PRE_ATHAN_MINS * 60
    BY <1>1 DEF ScanWindow, TypeOK, Prayers
  <2>4. now < Midnight(date + 1)
    BY <1>2, <2>2, <2>3, Numbers DEF Midnight, DAY
  <2>5. Due(date, pos) <= now
    BY <1>2, <2>1, <2>2, <2>3, <2>4, PassedOnDate, Numbers DEF Midnight, DAY
  <2> QED
    BY <1>2, <2>2, <2>3, <2>5, Numbers DEF DAY
<1>4. TypeOK'
  BY <1>1 DEF TypeOK, Prayers
<1>5. ClockSet' /\ TableKnown' /\ StaleDay' /\ ReadyPast' /\ SleepWindow' /\ CastWindow' /\ MidnightWindow'
  BY <1>1 DEF ClockSet, TableKnown, StaleDay, ReadyPast, SleepWindow, CastWindow, MidnightWindow,
              Planned, TurningDay
<1>6. PastKept'
  <2>1. Planned /\ ~TurningDay' /\ ~(pc' \in {"cast", "settle"})
    BY <1>1 DEF Planned, TurningDay, PCs
  <2>2. \A p \in Prayers : p < pos + 1 => Kept(date, p)
    <3>1. Kept(date, pos)
      BY <1>3 DEF Kept
    <3>2. \A p \in Prayers : p < pos + 1 => p < pos \/ p = pos
      BY <1>1 DEF Prayers
    <3> QED
      BY <2>1, <3>1, <3>2 DEF PastKept
  <2> QED
    BY <1>1, <2>1, <2>2 DEF PastKept, Kept, Present, Due
<1>7. ScanWindow'
  BY <1>1, <1>3 DEF ScanWindow, Present, Due, Midnight, Prayers
<1>8. CalledDue' /\ NoStrayCall'
  BY <1>1 DEF CalledDue, NoStrayCall, Present, Due
<1> QED
  BY <1>4, <1>5, <1>6, <1>7, <1>8

(* The deadline taken is the instant of the reminder or of the prayer. *)
LEMMA TakePrayerKeeps ==
  ASSUME IInv, Fresh, TakePrayer
  PROVE  IInv'
<1> USE DEF IInv, Fresh
<1>1. /\ pc = "scan" /\ pos \in Prayers /\ Upcoming(pos) /\ nextPrayer' = pos
      /\ UNCHANGED <<now, rtcOffset, pos, date, times, resets,
                     almanac, ready, reminded, called, strays>>
  BY DEF TakePrayer, history
<1>2. /\ rtcOffset = OffsetBefore /\ times = almanac[date]
      /\ date \in Days /\ date \in Int /\ now \in Nat /\ ready \in Int
  BY <1>1, DaysNat DEF ClockSet, TableKnown, StaleDay, Planned, PCs, TypeOK, NotReady
<1> DEFINE t == almanac[date][pos]
           r == now + OffsetBefore
<1>3. /\ Present(date, pos) /\ times[pos] = t /\ Rtc(now) = r
      /\ ~TimePassed(t, r)
  BY <1>1, <1>2 DEF Upcoming, Present, Rtc
<1>4. /\ t \in Minutes /\ t \in Int /\ 0 <= t /\ t < 1440
      /\ 0 < (t - PRE_ATHAN_MINS) * 60
      /\ Due(date, pos) = date * DAY + t * 60 - OffsetBefore
  BY <1>2, <1>1, <1>3, TableFacts, Numbers
<1>5. /\ Midnight(date) <= now
      /\ now = ready => now < Midnight(date + 1)
      /\ now = ready \/ now < Due(date, pos) - PRE_ATHAN_MINS * 60
  BY <1>1, <1>3 DEF ScanWindow, Prayers
<1>6. /\ date * DAY <= r /\ r < (date + 1) * DAY
      /\ r \in Int
  BY <1>2, <1>4, <1>5, Numbers DEF Midnight, DAY
<1>7. r < date * DAY + t * 60
  <2>1. ~(date * DAY + t * 60 <= r)
    BY <1>2, <1>3, <1>4, <1>6, PassedOnDate
  <2> HIDE DEF t, r
  <2> QED
    BY <1>2, <1>4, <1>6, <2>1 DEF DAY
<1>8. now < Due(date, pos) /\ <<date, pos>> \notin called
  <2>1. now < Due(date, pos) /\ Due(date, pos) \in Int
    BY <1>2, <1>4, <1>7, Numbers DEF DAY
  <2> QED
    BY <1>1, <1>2, <2>1 DEF CalledDue
<1>9. /\ SecondsUntil(t, r) = date * DAY + t * 60 - r
      /\ SecondsUntil(t, r) \in Nat
  <2>1. r <= date * DAY + t * 60
    BY <1>2, <1>4, <1>6, <1>7 DEF DAY
  <2> QED
    BY <1>2, <1>4, <1>6, <2>1, SecondsOnDate
<1>10. PastKept' /\ MidnightWindow' /\ ScanWindow' /\ ClockSet' /\ TableKnown' /\ StaleDay' /\ ReadyPast'
       /\ CalledDue' /\ NoStrayCall'
  <2>1. pc' \in {"pre", "wait"}
    BY DEF TakePrayer
  <2> QED
    BY <1>1, <2>1 DEF PastKept, MidnightWindow, ScanWindow, ClockSet, TableKnown, StaleDay,
       ReadyPast, CalledDue, NoStrayCall, Planned, TurningDay, Kept, Present, Due, PCs
<1>11. CASE RemindFirst(pos)
  <2> DEFINE u == PreAthanTime(t, PRE_ATHAN_MINS)
  <2>1. PRE_ATHAN_MINS > 0 /\ ~TimePassed(u, r) /\ pc' = "pre"
        /\ wake' = now + SecondsUntil(u, r)
    BY <1>3, <1>11 DEF TakePrayer, RemindFirst
  <2>2. u = t - PRE_ATHAN_MINS /\ u \in Minutes
    <3>1. PRE_ATHAN_MINS <= t
      BY <1>4, Numbers
    <3> QED
      BY <1>4, <3>1, Numbers, ReminderTime
  <2>3. u \in Int /\ 0 <= u /\ u < 1440
    BY <1>4, <2>2, Numbers
  <2>4. r < date * DAY + u * 60
    BY <1>2, <1>6, <2>1, <2>3, PassedOnDate DEF DAY
  <2>5. /\ SecondsUntil(u, r) = date * DAY + u * 60 - r
        /\ SecondsUntil(u, r) \in Nat
    <3>1. r <= date * DAY + u * 60
      BY <1>2, <1>6, <2>3, <2>4 DEF DAY
    <3> QED
      BY <1>2, <1>6, <2>3, <3>1, SecondsOnDate
  <2>6. wake' \in Nat /\ wake' = Due(date, pos) - PRE_ATHAN_MINS * 60 /\ now < wake'
    BY <1>2, <1>4, <2>1, <2>2, <2>3, <2>4, <2>5, Numbers DEF DAY
  <2>7. TypeOK'
    BY <1>1, <2>1, <2>6 DEF TypeOK, PCs
  <2>8. SleepWindow' /\ CastWindow'
    BY <1>1, <1>3, <1>8, <2>1, <2>6 DEF SleepWindow, CastWindow, Present, Due
  <2> QED
    BY <1>10, <2>7, <2>8
<1>12. CASE ~RemindFirst(pos)
  <2>1. pc' = "wait" /\ wake' = now + SecondsUntil(t, r)
    BY <1>3, <1>12 DEF TakePrayer
  <2>2. wake' \in Nat /\ wake' = Due(date, pos) /\ now < wake'
    BY <1>2, <1>4, <1>8, <1>9, <2>1, Numbers DEF DAY
  <2>3. TypeOK'
    BY <1>1, <2>1, <2>2 DEF TypeOK, PCs
  <2>4. SleepWindow' /\ CastWindow'
    BY <1>1, <1>2, <1>3, <1>8, <2>1, <2>2 DEF SleepWindow, CastWindow, Present, Due
  <2> QED
    BY <1>10, <2>3, <2>4
<1> QED
  BY <1>11, <1>12

(* A sleep ends no earlier than its deadline and at most MaxLate after it. *)
LEMMA AwakeRange ==
  ASSUME now \in Nat, wake \in Nat, NEW t \in Awake
  PROVE  /\ t \in Nat /\ now <= t
         /\ wake > now => wake <= t /\ t <= wake + MaxLate
         /\ wake <= now => t = now
BY Numbers, ConstantsAssumption DEF Awake, ConstantsAssumption

(* The parts of IInv that only ask some instant to lie in the past. *)
LEMMA TimeMovesOn ==
  ASSUME IInv, now' \in Nat, now <= now', UNCHANGED <<almanac, ready, called>>
  PROVE  ReadyPast' /\ CalledDue'
<1>1. ReadyPast'
  BY DEF IInv, TypeOK, ReadyPast, NotReady
<1>2. ASSUME NEW d \in Days, NEW p \in Prayers, <<d, p>> \in called'
      PROVE  Present(d, p)' /\ Due(d, p)' <= now'
  <2>1. Present(d, p) /\ Due(d, p) <= now
    BY <1>2 DEF IInv, CalledDue
  <2>2. Due(d, p)' = Due(d, p) /\ (Present(d, p) => Present(d, p)')
    BY DEF Due, Present
  <2>3. Due(d, p) \in Int /\ now \in Nat
    BY <2>1, TableFacts, Numbers, DaysNat DEF IInv, TypeOK, DAY
  <2> QED
    BY <2>1, <2>2, <2>3
<1> QED
  BY <1>1, <1>2 DEF CalledDue

(* After the reminder the prayer still lies ahead. *)
LEMMA RemindKeeps ==
  ASSUME IInv, Fresh, Remind
  PROVE  IInv'
<1> USE DEF IInv, Fresh
<1>1. /\ pc = "pre" /\ pc' = "wait" /\ pos \in Prayers
      /\ reminded' = reminded \cup {<<date, pos>>}
      /\ UNCHANGED <<rtcOffset, pos, date, times, nextPrayer, resets, almanac, ready,
                     called, strays>>
  BY DEF Remind, TypeOK
<1>2. /\ now' \in Awake /\ wake' = now' + SecondsUntil(times[pos], Rtc(now'))
  BY DEF Remind
<1>3. /\ rtcOffset = OffsetBefore /\ times = almanac[date]
      /\ date \in Days /\ date \in Int /\ now \in Nat /\ wake \in Nat
      /\ ready \in Int /\ ready <= now
  BY <1>1, DaysNat DEF ClockSet, TableKnown, StaleDay, Planned, PCs, TypeOK, NotReady, ReadyPast
<1> DEFINE t == almanac[date][pos]
           r == now' + OffsetBefore
<1>4. /\ Present(date, pos) /\ <<date, pos>> \notin called
      /\ PRE_ATHAN_MINS > 0 /\ wake = Due(date, pos) - PRE_ATHAN_MINS * 60 /\ now < wake
  BY <1>1 DEF SleepWindow
<1>5. /\ t \in Minutes /\ t \in Int /\ 0 <= t /\ t < 1440
      /\ 0 < (t - PRE_ATHAN_MINS) * 60
      /\ Due(date, pos) = date * DAY + t * 60 - OffsetBefore
  BY <1>1, <1>3, <1>4, TableFacts, Numbers
<1>6. now' \in Nat /\ now <= now' /\ wake <= now' /\ now' <= wake + MaxLate
  BY <1>2, <1>3, <1>4, AwakeRange
<1>7. /\ date * DAY <= r /\ r <= date * DAY + t * 60 /\ r \in Int
  BY <1>3, <1>4, <1>5, <1>6, Numbers DEF DAY
<1>8. /\ SecondsUntil(t, r) = date * DAY + t * 60 - r
      /\ SecondsUntil(t, r) \in Nat
  BY <1>3, <1>5, <1>7, SecondsOnDate
<1>9. wake' = now' + SecondsUntil(t, r)
  BY <1>1, <1>2, <1>3 DEF Rtc
<1>10. wake' \in Nat /\ wake' = Due(date, pos) /\ now' <= wake'
  BY <1>3, <1>5, <1>6, <1>7, <1>8, <1>9, Numbers DEF DAY
<1>11. TypeOK'
  BY <1>1, <1>3, <1>6, <1>10 DEF TypeOK, PCs
<1>12. ReadyPast' /\ CalledDue'
  BY <1>1, <1>3, <1>6, TimeMovesOn
<1>13. SleepWindow'
  BY <1>1, <1>4, <1>10 DEF SleepWindow, Present, Due
<1>14. ClockSet' /\ TableKnown' /\ StaleDay' /\ PastKept' /\ ScanWindow' /\ CastWindow'
       /\ MidnightWindow' /\ NoStrayCall'
  BY <1>1 DEF ClockSet, TableKnown, StaleDay, PastKept, ScanWindow, CastWindow, MidnightWindow,
     NoStrayCall, Planned, TurningDay, Kept, Present, Due, PCs
<1> QED
  BY <1>11, <1>12, <1>13, <1>14

(* The athan starts when its prayer is due, and no other call answers it. *)
LEMMA CallAthanKeeps ==
  ASSUME IInv, Fresh, CallAthan
  PROVE  IInv'
<1> USE DEF IInv, Fresh
<1>1. /\ pc = "wait" /\ pc' = "cast" /\ pos \in Prayers /\ now' \in Awake
      /\ UNCHANGED <<rtcOffset, pos, date, times, nextPrayer, wake, resets, almanac,
                     ready, reminded>>
  BY DEF CallAthan, TypeOK
<1> DEFINE fresh == {d \in Days : OnTime(d, pos, now') /\ <<d, pos>> \notin called}
<1>2. /\ called' = called \cup {<<d, pos>> : d \in fresh}
      /\ strays' = IF fresh = {} THEN strays \cup {<<ready, pos>>} ELSE strays
  BY DEF CallAthan
<1>3. /\ date \in Days /\ date \in Int /\ now \in Nat /\ wake \in Nat /\ ready \in Int
  BY DaysNat DEF TypeOK, NotReady
<1>4. /\ Present(date, pos) /\ <<date, pos>> \notin called
      /\ wake = Due(date, pos) /\ now <= wake
  BY <1>1 DEF SleepWindow
<1>5. now' \in Nat /\ now <= now' /\ wake <= now' /\ now' <= wake + MaxLate
  <2>1. now' \in Nat /\ now <= now' /\ (wake > now => wake <= now' /\ now' <= wake + MaxLate)
        /\ (wake <= now => now' = now)
    BY <1>1, <1>3, AwakeRange
  <2> QED
    BY <1>3, <1>4, <2>1, Numbers
<1>6. date \in fresh
  BY <1>3, <1>4, <1>5 DEF OnTime, Present
<1>7. <<date, pos>> \in called' /\ called \subseteq called' /\ strays' = strays
  BY <1>2, <1>6
<1>8. called' \subseteq Days \X Prayers
  <2>1. \A d \in fresh : <<d, pos>> \in Days \X Prayers
    BY <1>1
  <2>2. called \subseteq Days \X Prayers
    BY DEF TypeOK
  <2> HIDE DEF fresh
  <2> QED
    BY <1>2, <2>1, <2>2
<1>9. TypeOK'
  BY <1>1, <1>5, <1>7, <1>8 DEF TypeOK, PCs
<1>10. ReadyPast'
  BY <1>1, <1>3, <1>5 DEF ReadyPast
<1>11. PastKept'
  <2>1. \A d \in Days, p \in Prayers : Kept(d, p) => Kept(d, p)'
    BY <1>1, <1>7 DEF Kept, Present, Due
  <2>2. Planned /\ Planned' /\ ~TurningDay'
    BY <1>1 DEF Planned, TurningDay, PCs
  <2>3. /\ \A d \in Days, p \in Prayers : d < date => Kept(d, p)
        /\ \A p \in Prayers : p < pos => Kept(date, p)
    BY <2>2 DEF PastKept
  <2>4. \A p \in Prayers : p < pos => Kept(date, p)'
    BY <1>1, <1>7, <2>3 DEF Kept, Present, Due
  <2>5. Kept(date, pos)'
    BY <1>1, <1>7 DEF Kept
  <2> QED
    BY <1>1, <2>1, <2>2, <2>3, <2>4, <2>5 DEF PastKept
<1>12. CastWindow'
  BY <1>1, <1>3, <1>4, <1>5 DEF CastWindow, Present, Due
<1>13. CalledDue'
  <2>1. ASSUME NEW d \in Days, NEW p \in Prayers, <<d, p>> \in called'
        PROVE  Present(d, p)' /\ Due(d, p)' <= now'
    <3>1. Due(d, p)' = Due(d, p) /\ (Present(d, p)' <=> Present(d, p))
      BY <1>1 DEF Due, Present
    <3>2. CASE <<d, p>> \in called
      <4>1. Present(d, p) /\ Due(d, p) <= now
        BY <3>2 DEF CalledDue
      <4>2. Due(d, p) \in Int
        BY <4>1, TableFacts, Numbers, DaysNat DEF DAY
      <4> QED
        BY <1>3, <1>5, <3>1, <4>1, <4>2
    <3>3. CASE <<d, p>> \notin called
      <4>1. d \in fresh /\ p = pos
        BY <1>2, <2>1, <3>3
      <4> QED
        BY <3>1, <4>1 DEF OnTime, Present
    <3> QED
      BY <3>2, <3>3
  <2> QED
    BY <2>1 DEF CalledDue
<1>14. /\ ClockSet' /\ TableKnown' /\ StaleDay' /\ ScanWindow' /\ SleepWindow' /\ MidnightWindow'
       /\ NoStrayCall'
  BY <1>1, <1>7 DEF ClockSet, TableKnown, StaleDay, ScanWindow, SleepWindow, MidnightWindow,
     NoStrayCall, Planned, TurningDay, PCs
<1> QED
  BY <1>9, <1>10, <1>11, <1>12, <1>13, <1>14

(* A cast takes at most MaxCast. *)
LEMMA CastReturnsKeeps ==
  ASSUME IInv, Fresh, CastReturns
  PROVE  IInv'
<1> USE DEF IInv, Fresh
<1>1. /\ pc = "cast" /\ pc' = "settle" /\ pos \in Prayers
      /\ UNCHANGED <<rtcOffset, pos, date, times, nextPrayer, resets, almanac,
                     ready, reminded, called, strays>>
  BY DEF CastReturns, TypeOK, history
<1>2. PICK c \in CastTimes : now' = now + c /\ wake' = now + c + SETTLE
  BY DEF CastReturns
<1>3. /\ date \in Days /\ date \in Int /\ now \in Nat /\ c \in Nat /\ c <= MaxCast
  BY DaysNat, ConstantsAssumption DEF TypeOK, ConstantsAssumption
<1>4. /\ Present(date, pos) /\ Due(date, pos) <= now /\ now <= Due(date, pos) + MaxLate
  BY <1>1 DEF CastWindow
<1>5. Due(date, pos) \in Int
  BY <1>1, <1>3, <1>4, TableFacts, Numbers DEF DAY
<1>6. /\ now' \in Nat /\ now <= now' /\ wake' \in Nat /\ wake' = now' + SETTLE
      /\ Due(date, pos) <= now' /\ now' <= Due(date, pos) + MaxLate + MaxCast
  BY <1>2, <1>3, <1>4, <1>5, Numbers DEF SETTLE
<1>7. TypeOK'
  BY <1>1, <1>6 DEF TypeOK, PCs
<1>8. ReadyPast' /\ CalledDue'
  BY <1>1, <1>6, TimeMovesOn
<1>9. CastWindow'
  BY <1>1, <1>4, <1>6 DEF CastWindow, Present, Due
<1>10. /\ ClockSet' /\ TableKnown' /\ StaleDay' /\ PastKept' /\ ScanWindow' /\ SleepWindow'
       /\ MidnightWindow' /\ NoStrayCall'
  BY <1>1 DEF ClockSet, TableKnown, StaleDay, PastKept, ScanWindow, SleepWindow, MidnightWindow,
     NoStrayCall, Planned, TurningDay, PCs, Kept, Present, Due
<1> QED
  BY <1>7, <1>8, <1>9, <1>10

(* After the pause the next prayer still lies ahead: WellSpaced. *)
LEMMA SettledKeeps ==
  ASSUME IInv, Fresh, Settled
  PROVE  IInv'
<1> USE DEF IInv, Fresh
<1>1. /\ pc = "settle" /\ pc' = "scan" /\ pos \in Prayers /\ pos' = pos + 1
      /\ now' \in Awake
      /\ UNCHANGED <<rtcOffset, date, times, nextPrayer, wake, resets, almanac,
                     ready, reminded, called, strays>>
  BY DEF Settled, TypeOK, history
<1>2. /\ date \in Days /\ date \in Int /\ now \in Nat /\ wake \in Nat /\ ready \in Int
      /\ ready <= now
  BY DaysNat DEF TypeOK, NotReady, ReadyPast
<1>3. /\ Present(date, pos) /\ Due(date, pos) <= now
      /\ now <= Due(date, pos) + MaxLate + MaxCast /\ wake = now + SETTLE
  BY <1>1 DEF CastWindow
<1>4. now' \in Nat /\ now + SETTLE <= now' /\ now' <= now + SETTLE + MaxLate
  BY <1>1, <1>2, <1>3, AwakeRange DEF SETTLE
<1> DEFINE t == almanac[date][pos]
<1>5. /\ t \in Int /\ 0 <= t /\ t < 1440
      /\ Due(date, pos) = date * DAY + t * 60 - OffsetBefore
      /\ 0 < t * 60
      /\ t * 60 + Slack <= DAY + 60
      /\ \A q \in Prayers : pos < q /\ Present(date, q) =>
           t * 60 + Slack < (almanac[date][q] - PRE_ATHAN_MINS) * 60
  BY <1>1, <1>2, <1>3, TableFacts, Numbers
<1>6. now' <= date * DAY + t * 60 - OffsetBefore + Slack
  BY <1>2, <1>3, <1>4, <1>5, Numbers DEF Slack, DAY, SETTLE
<1>7. TypeOK'
  BY <1>1, <1>4 DEF TypeOK, PCs, Prayers
<1>8. ReadyPast' /\ CalledDue'
  BY <1>1, <1>2, <1>4, TimeMovesOn DEF SETTLE
<1>9. PastKept'
  <2>1. Planned /\ ~TurningDay' /\ ~(pc' \in {"cast", "settle"})
    BY <1>1 DEF Planned, TurningDay, PCs
  <2>2. \A p \in Prayers : p < pos + 1 => Kept(date, p)
    <3>1. Kept(date, pos)
      BY <1>1 DEF PastKept
    <3>2. \A p \in Prayers : p < pos + 1 => p < pos \/ p = pos
      BY <1>1 DEF Prayers
    <3> QED
      BY <2>1, <3>1, <3>2 DEF PastKept
  <2> QED
    BY <1>1, <2>1, <2>2 DEF PastKept, Kept, Present, Due
<1>10. ScanWindow'
  <2>1. Midnight(date) <= now' /\ now' <= Midnight(date + 1) + 60
    BY <1>2, <1>3, <1>4, <1>5, <1>6, Numbers DEF Midnight, DAY, SETTLE, Slack
  <2>2. now' # ready
    BY <1>2, <1>4 DEF SETTLE
  <2>3. ASSUME NEW p \in Prayers, Present(date, p), p <= pos
        PROVE  Due(date, p) <= now'
    <3>1. CASE p = pos
      BY <1>2, <1>3, <1>4, <1>5, <3>1, Numbers DEF SETTLE, DAY
    <3>2. CASE p < pos
      <4>1. /\ almanac[date][p] \in Int
            /\ Due(date, p) = date * DAY + almanac[date][p] * 60 - OffsetBefore
            /\ almanac[date][p] * 60 + Slack < (t - PRE_ATHAN_MINS) * 60
        BY <1>1, <1>2, <1>3, <2>3, <3>2, TableFacts
      <4> QED
        BY <1>2, <1>3, <1>4, <1>5, <4>1, Numbers DEF SETTLE, DAY, Slack
    <3> QED
      BY <1>1, <2>3, <3>1, <3>2 DEF Prayers
  <2>4. ASSUME NEW p \in Prayers, Present(date, p), p > pos
        PROVE  now' < Due(date, p) - PRE_ATHAN_MINS * 60
    <3>1. /\ almanac[date][p] \in Int
          /\ Due(date, p) = date * DAY + almanac[date][p] * 60 - OffsetBefore
          /\ t * 60 + Slack < (almanac[date][p] - PRE_ATHAN_MINS) * 60
      BY <1>1, <1>2, <1>5, <2>4, TableFacts DEF Prayers
    <3> QED
      BY <1>2, <1>4, <1>5, <1>6, <3>1, Numbers DEF DAY, Slack, SETTLE
  <2>5. \A p \in Prayers : (p < pos + 1 => p <= pos) /\ (p >= pos + 1 => p > pos)
    BY <1>1 DEF Prayers
  <2> QED
    BY <1>1, <2>1, <2>2, <2>3, <2>4, <2>5 DEF ScanWindow, Midnight, Present, Due
<1>11. /\ ClockSet' /\ TableKnown' /\ StaleDay' /\ SleepWindow' /\ CastWindow'
       /\ MidnightWindow' /\ NoStrayCall'
  BY <1>1 DEF ClockSet, TableKnown, StaleDay, SleepWindow, CastWindow, MidnightWindow,
     NoStrayCall, Planned, TurningDay, PCs
<1> QED
  BY <1>7, <1>8, <1>9, <1>10, <1>11

(* Every timetable has a prayer, and none begins before 00:03. *)
LEMMA SomePrayer ==
  ASSUME TypeOK, NEW d \in Days
  PROVE  \E p \in Prayers : /\ Present(d, p)
                            /\ Due(d, p) \in Int
                            /\ Midnight(d) + 120 < Due(d, p)
                            /\ Due(d, p) < Midnight(d + 1)
<1>1. almanac[d] \in Timetables
  BY DEF TypeOK
<1>2. PICK p \in Prayers : Present(d, p)
  BY <1>1, ConstantsAssumption DEF ConstantsAssumption, Present
<1>3. /\ almanac[d][p] \in Int /\ almanac[d][p] < 1440
      /\ Due(d, p) = d * DAY + almanac[d][p] * 60 - OffsetBefore
      /\ 120 < almanac[d][p] * 60
  BY <1>2, TableFacts, Numbers
<1>4. d \in Int
  BY DaysNat
<1>5. /\ Due(d, p) \in Int /\ Midnight(d) + 120 < Due(d, p) /\ Due(d, p) < Midnight(d + 1)
  BY <1>3, <1>4, Numbers DEF Midnight, DAY
<1> QED
  BY <1>2, <1>5

(* The last prayer of a date is over before 00:01, so that 00:01 is the next
   date's. *)
LEMMA DayOverKeeps ==
  ASSUME IInv, Fresh, DayOver
  PROVE  IInv'
<1> USE DEF IInv, Fresh
<1>1. /\ pc = "scan" /\ pc' = "midnight" /\ pos = 6 /\ nextPrayer' = None
      /\ UNCHANGED <<now, rtcOffset, pos, date, times, resets, almanac,
                     ready, reminded, called, strays>>
  BY DEF DayOver, TypeOK, history, Prayers
<1>2. /\ rtcOffset = OffsetBefore
      /\ date \in Days /\ date \in Int /\ now \in Nat
  BY <1>1, DaysNat DEF TypeOK, ClockSet
<1> DEFINE r == now + OffsetBefore
           secs == SecondsUntil(1, r)
<1>3. wake' = now + (IF secs < 60 THEN 60 ELSE secs)
  BY <1>1, <1>2 DEF DayOver, Rtc
<1>4. /\ Midnight(date) + 120 < now /\ now <= Midnight(date + 1) + 60
  <2>1. now <= Midnight(date + 1) + 60 /\ \A p \in Prayers : Present(date, p) => Due(date, p) <= now
    BY <1>1 DEF ScanWindow, Prayers
  <2>2. PICK p \in Prayers : /\ Present(date, p) /\ Due(date, p) \in Int
                             /\ Midnight(date) + 120 < Due(date, p)
    BY <1>2, SomePrayer
  <2>3. Midnight(date) \in Int
    BY <1>2, Numbers DEF Midnight, DAY
  <2> QED
    BY <1>2, <2>1, <2>2, <2>3
<1>5. /\ now < wake' /\ wake' \in Nat
      /\ Midnight(date + 1) + 60 <= wake' /\ wake' <= Midnight(date + 1) + 120
  <2>1. CASE now < Midnight(date + 1)
    <3>1. r \in Int /\ date * DAY <= r /\ r < (date + 1) * DAY
      BY <1>2, <1>4, <2>1, Numbers DEF Midnight, DAY
    <3>2. TimeOfDay(r) = r - date * DAY
      BY <1>2, <3>1, SplitUnique
    <3>3. secs = (date + 1) * DAY + 60 - r
      BY <1>2, <1>4, <3>1, <3>2, Numbers DEF SecondsUntil, Midnight, DAY
    <3> HIDE DEF secs
    <3> QED
      BY <1>2, <1>3, <1>4, <2>1, <3>3, Numbers DEF Midnight, DAY
  <2>2. CASE Midnight(date + 1) <= now
    <3>1. r \in Int /\ (date + 1) * DAY <= r /\ r < ((date + 1) + 1) * DAY /\ date + 1 \in Int
      BY <1>2, <1>4, <2>2, Numbers DEF Midnight, DAY
    <3>2. TimeOfDay(r) = r - (date + 1) * DAY
      BY <3>1, SplitUnique
    <3>3. secs = (date + 1) * DAY + 60 - r
      BY <1>2, <1>4, <3>1, <3>2, Numbers DEF SecondsUntil, Midnight, DAY
    <3> HIDE DEF secs
    <3> QED
      BY <1>2, <1>3, <1>4, <2>2, <3>3, Numbers DEF Midnight, DAY
  <2>3. Midnight(date + 1) \in Int
    BY <1>2, Numbers DEF Midnight, DAY
  <2> QED
    BY <1>2, <2>1, <2>2, <2>3
<1>6. TypeOK'
  BY <1>1, <1>5 DEF TypeOK, PCs
<1>7. ReadyPast' /\ CalledDue'
  BY <1>1, <1>2, TimeMovesOn
<1>8. MidnightWindow'
  BY <1>1, <1>5 DEF MidnightWindow, TurningDay, Midnight
<1>9. /\ ClockSet' /\ TableKnown' /\ StaleDay' /\ PastKept' /\ ScanWindow' /\ SleepWindow'
      /\ CastWindow' /\ NoStrayCall'
  BY <1>1 DEF ClockSet, TableKnown, StaleDay, PastKept, ScanWindow, SleepWindow, CastWindow,
     NoStrayCall, Planned, TurningDay, PCs, Kept, Present, Due
<1> QED
  BY <1>6, <1>7, <1>8, <1>9

(* At 00:01 every prayer of the date is settled. *)
LEMMA NewDayKeeps ==
  ASSUME IInv, Fresh, NewDay
  PROVE  IInv'
<1> USE DEF IInv, Fresh
<1>1. /\ pc = "midnight" /\ pc' = "sync" /\ now' \in Awake
      /\ UNCHANGED <<rtcOffset, pos, date, times, nextPrayer, wake, resets, almanac,
                     ready, reminded, called, strays>>
  BY DEF NewDay, history
<1>2. /\ date \in Days /\ date \in Int /\ now \in Nat /\ wake \in Nat
      /\ Midnight(date + 1) \in Int
  BY DaysNat, Numbers DEF TypeOK, Midnight, DAY
<1>3. /\ pos = 6 /\ now < wake /\ Midnight(date + 1) + 60 <= wake
      /\ wake <= Midnight(date + 1) + 120
  BY <1>1 DEF MidnightWindow
<1>4. now' \in Nat /\ wake <= now' /\ now' <= wake + MaxLate
  BY <1>1, <1>2, <1>3, AwakeRange
<1>5. TypeOK'
  BY <1>1, <1>4 DEF TypeOK, PCs
<1>6. ReadyPast' /\ CalledDue'
  BY <1>1, <1>2, <1>3, <1>4, TimeMovesOn
<1>7. Midnight(date + 1) <= now' /\ now' <= Midnight(date + 1) + 120 + MaxLate
  BY <1>2, <1>3, <1>4, Numbers
<1>8. MidnightWindow'
  BY <1>1, <1>7 DEF MidnightWindow, TurningDay, Midnight
<1>9. PastKept'
  <2>1. Planned /\ ~Planned' /\ ~(pc' \in {"cast", "settle"})
    BY <1>1 DEF Planned, PCs
  <2>2. \A p \in Prayers : Kept(date, p)
    BY <1>3, <2>1 DEF PastKept, Prayers
  <2>3. \A d \in Days : d <= date => d < date \/ d = date
    BY <1>2, DaysNat
  <2>4. \A d \in Days, p \in Prayers : d <= date => Kept(d, p)
    BY <2>1, <2>2, <2>3 DEF PastKept
  <2> QED
    BY <1>1, <2>1, <2>4 DEF PastKept, Kept, Present, Due
<1>10. /\ ClockSet' /\ TableKnown' /\ StaleDay' /\ ScanWindow' /\ SleepWindow' /\ CastWindow'
       /\ NoStrayCall'
  BY <1>1 DEF ClockSet, TableKnown, StaleDay, ScanWindow, SleepWindow, CastWindow,
     NoStrayCall, Planned
<1> QED
  BY <1>5, <1>6, <1>8, <1>9, <1>10

(* The offset read is the one the timetables are meant for. *)
LEMMA SyncClockKeeps ==
  ASSUME IInv, SyncClock
  PROVE  IInv'
<1> USE DEF IInv, Fresh
<1>1. /\ pc = "sync" /\ pc' = "fetch"
      /\ UNCHANGED <<pos, date, times, nextPrayer, wake, resets, almanac,
                     ready, reminded, called, strays>>
  BY DEF SyncClock, history
<1>2. PICK d \in FetchTimes : now' = now + d /\ rtcOffset' = ZoneOffset(now + d)
  BY DEF SyncClock
<1>3. rtcOffset' = OffsetBefore /\ rtcOffset' \in Int
  BY <1>2, OneZone, Numbers
<1>4. /\ date \in Days /\ date \in Int /\ now \in Nat /\ d \in Nat /\ d <= MaxFetch
      /\ Midnight(date + 1) \in Int
  BY DaysNat, Numbers, ConstantsAssumption DEF TypeOK, Midnight, DAY, ConstantsAssumption
<1>5. now' \in Nat /\ now <= now' /\ now' <= now + MaxFetch
  BY <1>2, <1>4, Numbers
<1>6. TypeOK'
  BY <1>1, <1>3, <1>5 DEF TypeOK, PCs
<1>7. ReadyPast' /\ CalledDue'
  BY <1>1, <1>5, TimeMovesOn
<1>8. MidnightWindow'
  <2>1. ASSUME ready # NotReady
        PROVE  Midnight(date + 1) <= now' /\ now' <= Midnight(date + 1) + 120 + MaxLate + MaxFetch
    <3>1. Midnight(date + 1) <= now /\ now <= Midnight(date + 1) + 120 + MaxLate
      BY <1>1, <2>1 DEF MidnightWindow, TurningDay
    <3> QED
      BY <1>4, <1>5, <3>1, Numbers
  <2> QED
    BY <1>1, <2>1 DEF MidnightWindow, TurningDay, Midnight
<1>9. /\ ClockSet' /\ TableKnown' /\ StaleDay' /\ PastKept' /\ ScanWindow' /\ SleepWindow' /\ CastWindow'
      /\ NoStrayCall'
  BY <1>1, <1>3 DEF ClockSet, TableKnown, StaleDay, PastKept, ScanWindow, SleepWindow, CastWindow,
     NoStrayCall, Planned, TurningDay, Kept, Present, Due
<1> QED
  BY <1>6, <1>7, <1>8, <1>9

(* The timetable fetched is the next date's, or the first after a boot that came
   on its own day, and comes before the date's first reminder; or it is that of
   the day on which the device was booted and which is over. *)
LEMMA FetchTimingsKeeps ==
  ASSUME IInv, FetchTimings
  PROVE  IInv'
<1> USE DEF IInv, Fresh
<1>1. PICK before \in FetchTimes, during \in FetchTimes :
        LET today == DateOf(Rtc(now + before))
        IN  /\ today \in Days
            /\ now' = now + before + during
            /\ date' = today
            /\ times' = almanac[today]
            /\ ready' = IF ready = NotReady /\ DateOf(Rtc(now')) = today THEN now' ELSE ready
  BY DEF FetchTimings
<1> DEFINE today == DateOf(Rtc(now + before))
           asked == now + before
<1>2. /\ pc = "fetch" /\ pc' = "scan" /\ pos' = 1 /\ rtcOffset = OffsetBefore
      /\ UNCHANGED <<rtcOffset, nextPrayer, wake, resets, almanac, reminded, called, strays>>
  BY DEF FetchTimings, ClockSet
<1>3. /\ date \in Days /\ date \in Int /\ now \in Nat
      /\ before \in Nat /\ before <= MaxFetch /\ during \in Nat /\ during <= MaxFetch
      /\ today \in Days /\ today \in Int /\ ready \in Int
      /\ ready = NotReady \/ ready <= now
  BY <1>1, DaysNat, ConstantsAssumption DEF TypeOK, ConstantsAssumption, ReadyPast, NotReady
<1>4. /\ asked \in Nat /\ now <= asked /\ asked <= now + MaxFetch
      /\ now' \in Nat /\ asked <= now' /\ now' <= now + 2 * MaxFetch /\ now <= now'
  BY <1>1, <1>3, Numbers
<1>5. \A t \in Nat, d \in Int :
        d = DateOf(Rtc(t)) <=> Midnight(d) <= t /\ t < Midnight(d + 1)
  <2> SUFFICES ASSUME NEW t \in Nat, NEW d \in Int
               PROVE  d = DateOf(Rtc(t)) <=> Midnight(d) <= t /\ t < Midnight(d + 1)
    OBVIOUS
  <2> DEFINE r == t + OffsetBefore
  <2>1. Rtc(t) = r /\ r \in Int
    BY <1>2, Numbers DEF Rtc
  <2>2. /\ r = DateOf(r) * DAY + TimeOfDay(r) /\ DateOf(r) \in Int
        /\ 0 <= TimeOfDay(r) /\ TimeOfDay(r) < DAY /\ TimeOfDay(r) \in Int
    BY <2>1, ClockSplit
  <2>3. d * DAY <= r /\ r < (d + 1) * DAY <=> Midnight(d) <= t /\ t < Midnight(d + 1)
    BY Numbers DEF Midnight, DAY
  <2>4. d * DAY <= r /\ r < (d + 1) * DAY => DateOf(r) = d
    BY <2>1, SplitUnique
  <2>5. d = DateOf(r) => d * DAY <= r /\ r < (d + 1) * DAY
    <3> HIDE DEF r
    <3> QED
      BY <2>1, <2>2 DEF DAY
  <2> HIDE DEF r
  <2> QED
    BY <2>1, <2>3, <2>4, <2>5
<1>6. /\ date' = today /\ times' = almanac[today]
      /\ ready' = IF ready = NotReady /\ DateOf(Rtc(now')) = today THEN now' ELSE ready
      /\ Midnight(today) \in Int /\ Midnight(today + 1) \in Int
      /\ Midnight(today) <= now'
  <2>1. Midnight(today) <= asked
    BY <1>3, <1>4, <1>5
  <2> HIDE DEF today, asked
  <2>2. Midnight(today) \in Int /\ Midnight(today + 1) \in Int
    BY <1>3, Numbers DEF Midnight, DAY
  <2> QED
    BY <1>1, <1>3, <1>4, <2>1, <2>2 DEF today
<1> HIDE DEF today, asked
<1>7. /\ ready' \in Nat \cup {NotReady} /\ ready' <= now' /\ ready <= ready'
      /\ ready # NotReady => ready' = ready
  BY <1>3, <1>4, <1>6 DEF TypeOK, NotReady
<1>8. TypeOK'
  <2>1. times' \in [Prayers -> Minutes \cup {NoTime}]
    BY <1>3, <1>6, TableFacts, 1 \in Prayers DEF Prayers
  <2> QED
    BY <1>2, <1>3, <1>4, <1>6, <1>7, <2>1 DEF TypeOK, PCs, Prayers
<1>9. ClockSet' /\ TableKnown' /\ ReadyPast'
  BY <1>2, <1>6, <1>7 DEF ClockSet, TableKnown, ReadyPast
<1>10. ASSUME ready = NotReady, ready' # NotReady PROVE PastKept' /\ ScanWindow' /\ StaleDay'
  <2>0. now' = ready' /\ now' < Midnight(today + 1)
    <3>1. now' = ready' /\ DateOf(Rtc(now')) = today
      BY <1>6, <1>10
    <3> QED
      BY <1>3, <1>4, <1>5, <3>1
  <2>1. ASSUME NEW d \in Days, NEW p \in Prayers, d < today
        PROVE  Kept(d, p)'
    <3>1. CASE ~Present(d, p)
      BY <1>2, <3>1 DEF Kept, Present
    <3>2. CASE Present(d, p)
      <4>1. d \in Int /\ d + 1 <= today
        BY <1>3, <2>1, DaysNat
      <4>2. /\ almanac[d][p] \in Int /\ almanac[d][p] < 1440
            /\ Due(d, p) = d * DAY + almanac[d][p] * 60 - OffsetBefore
        BY <3>2, TableFacts
      <4>3. Due(d, p) <= ready'
        BY <1>3, <1>4, <1>6, <2>0, <4>1, <4>2, Numbers DEF Midnight, DAY
      <4> QED
        BY <1>2, <4>3 DEF Kept, Due
    <3> QED
      BY <3>1, <3>2
  <2>2. PastKept'
    BY <1>2, <1>6, <2>1 DEF PastKept, TurningDay, Prayers
  <2>3. now' <= Midnight(today + 1) + 60
    BY <1>4, <1>6, <2>0
  <2>4. ScanWindow'
    BY <1>2, <1>6, <2>0, <2>3 DEF ScanWindow, Midnight, Prayers
  <2> QED
    BY <1>10, <2>2, <2>4 DEF StaleDay
<1>11. ASSUME ready # NotReady PROVE PastKept' /\ ScanWindow' /\ StaleDay'
  <2>1. /\ Midnight(date + 1) <= now /\ now <= Midnight(date + 1) + 120 + MaxLate + MaxFetch
        /\ Midnight(date + 1) \in Int
    BY <1>2, <1>3, <1>11, Numbers DEF MidnightWindow, TurningDay, Midnight, DAY
  <2>2. today = date + 1 /\ now' < Midnight(today + 1)
    <3>1. PICK p \in Prayers : Present(date, p)
      BY <1>3, SomePrayer
    <3>2. /\ almanac[date][p] \in Int /\ almanac[date][p] < 1440
          /\ 120 + MaxLate + 3 * MaxFetch < (almanac[date][p] - PRE_ATHAN_MINS) * 60
      BY <1>3, <3>1, TableFacts
    <3>3. 120 + MaxLate + 3 * MaxFetch < DAY
      BY <3>2, Numbers DEF DAY
    <3>4. /\ now' < Midnight(date + 1) + DAY /\ Midnight(date + 1) <= asked
          /\ asked < Midnight(date + 1) + DAY
      BY <1>3, <1>4, <2>1, <3>3, Numbers DEF DAY
    <3>5. Midnight((date + 1) + 1) = Midnight(date + 1) + DAY
      BY <1>3, Numbers DEF Midnight, DAY
    <3>6. date + 1 = DateOf(Rtc(asked))
      BY <1>3, <1>4, <1>5, <3>4, <3>5
    <3> QED
      BY <3>4, <3>5, <3>6 DEF today, asked
  <2>3. PastKept'
    <3>1. \A d \in Days, p \in Prayers : d <= date => Kept(d, p)
      BY <1>2, <1>11 DEF PastKept, TurningDay
    <3>2. \A d \in Days : d < today => d <= date
      BY <1>3, <2>2, DaysNat
    <3>3. ready' = ready
      BY <1>6, <1>11
    <3>4. \A d \in Days, p \in Prayers : d < today => Kept(d, p)'
      BY <1>2, <3>1, <3>2, <3>3 DEF Kept, Present, Due
    <3> QED
      BY <1>2, <1>6, <3>4 DEF PastKept, TurningDay, Prayers
  <2>4. ASSUME NEW p \in Prayers, Present(today, p)
        PROVE  now' < Due(today, p) - PRE_ATHAN_MINS * 60
    <3>1. /\ almanac[today][p] \in Int
          /\ 120 + MaxLate + 3 * MaxFetch < (almanac[today][p] - PRE_ATHAN_MINS) * 60
          /\ Due(today, p) = today * DAY + almanac[today][p] * 60 - OffsetBefore
      BY <1>3, <2>4, TableFacts
    <3> QED
      BY <1>3, <1>4, <2>1, <2>2, <3>1, Numbers DEF Midnight, DAY
  <2>5. now' <= Midnight(today + 1) + 60
    BY <1>4, <1>6, <2>2
  <2>6. ScanWindow'
    BY <1>2, <1>6, <2>2, <2>4, <2>5 DEF ScanWindow, Midnight, Prayers, Present, Due
  <2> QED
    BY <1>7, <1>11, <2>3, <2>6 DEF StaleDay
<1>12. ASSUME ready' = NotReady PROVE PastKept' /\ ScanWindow' /\ StaleDay'
  <2>1. ready = NotReady /\ DateOf(Rtc(now')) # today
    BY <1>4, <1>6, <1>7, <1>12 DEF NotReady
  <2>2. Midnight(today + 1) <= now'
    BY <1>3, <1>4, <1>5, <1>6, <2>1
  <2> QED
    BY <1>2, <1>6, <1>12, <2>2 DEF PastKept, ScanWindow, StaleDay, TurningDay, Midnight
<1>13. CalledDue'
  <2>1. ASSUME NEW d \in Days, NEW p \in Prayers, <<d, p>> \in called'
        PROVE  Present(d, p)' /\ Due(d, p)' <= now'
    <3>1. Due(d, p)' = Due(d, p) /\ (Present(d, p)' <=> Present(d, p))
      BY <1>2 DEF Due, Present
    <3>2. Present(d, p) /\ Due(d, p) <= now
      BY <1>2, <2>1 DEF CalledDue
    <3>3. Due(d, p) \in Int
      BY <3>2, TableFacts, Numbers, DaysNat DEF DAY
    <3> QED
      BY <1>3, <1>4, <3>1, <3>2, <3>3
  <2> QED
    BY <2>1 DEF CalledDue
<1>14. SleepWindow' /\ CastWindow' /\ MidnightWindow' /\ NoStrayCall'
  BY <1>2 DEF SleepWindow, CastWindow, MidnightWindow, TurningDay, NoStrayCall
<1> QED
  BY <1>8, <1>9, <1>10, <1>11, <1>12, <1>13, <1>14

(* A reset closes all accounts: they open again with the next timetable. *)
LEMMA ResetKeeps ==
  ASSUME IInv, Reset
  PROVE  IInv'
<1> USE DEF IInv, Fresh
<1>1. /\ resets < MaxResets /\ resets' = resets + 1 /\ rtcOffset' = 0 /\ pc' = "sync"
      /\ pos' = 1 /\ date' = 0 /\ times' = [p \in Prayers |-> NoTime]
      /\ nextPrayer' = None /\ wake' = now' /\ ready' = NotReady
      /\ UNCHANGED <<almanac, reminded, called, strays>>
  BY DEF Reset
<1>2. PICK o \in Outages : now' = now + o
  BY DEF Reset
<1>3. now \in Nat /\ now' \in Nat /\ now <= now'
  BY <1>2, ConstantsAssumption DEF TypeOK, ConstantsAssumption
<1>4. TypeOK'
  <2>1. 0 \in Days /\ resets' \in 0 .. MaxResets
    BY <1>1, ConstantsAssumption DEF TypeOK, ConstantsAssumption, Days
  <2>2. times' \in [Prayers -> Minutes \cup {NoTime}]
    BY <1>1
  <2> QED
    BY <1>1, <1>3, <2>1, <2>2 DEF TypeOK, PCs, None, NotReady
<1>5. ReadyPast'
  BY <1>1, <1>3 DEF ReadyPast, NotReady
<1>6. CalledDue'
  <2>1. ASSUME NEW d \in Days, NEW p \in Prayers, <<d, p>> \in called'
        PROVE  Present(d, p)' /\ Due(d, p)' <= now'
    <3>1. Due(d, p)' = Due(d, p) /\ (Present(d, p)' <=> Present(d, p))
      BY <1>1 DEF Due, Present
    <3>2. Present(d, p) /\ Due(d, p) <= now
      BY <1>1, <2>1 DEF CalledDue
    <3>3. Due(d, p) \in Int
      BY <3>2, TableFacts, Numbers, DaysNat DEF DAY
    <3> QED
      BY <1>3, <3>1, <3>2, <3>3
  <2> QED
    BY <2>1 DEF CalledDue
<1>7. /\ ClockSet' /\ TableKnown' /\ StaleDay' /\ PastKept' /\ ScanWindow' /\ SleepWindow'
      /\ CastWindow' /\ MidnightWindow' /\ NoStrayCall'
  BY <1>1 DEF ClockSet, TableKnown, StaleDay, PastKept, ScanWindow, SleepWindow, CastWindow,
     MidnightWindow, NoStrayCall, Planned, TurningDay
<1> QED
  BY <1>4, <1>5, <1>6, <1>7

(* Seconds until a reminder or a prayer that is in the timetable. *)
LEMMA SleepsAreNat ==
  ASSUME NEW r \in Int, NEW t \in Minutes
  PROVE  SecondsUntil(t, r) \in Nat /\ SecondsUntil(PreAthanTime(t, PRE_ATHAN_MINS), r) \in Nat
<1>1. PreAthanTime(t, PRE_ATHAN_MINS) \in Minutes
  BY Numbers DEF PreAthanTime, Minutes
<1> QED
  BY <1>1, SecondsRange

(* Whatever the loop does with the timetable of a day that is over, nothing is
   asked of it but its types. *)
LEMMA StaleKeeps ==
  ASSUME IInv, ~Fresh,
         \/ SkipPrayer \/ TakePrayer \/ Remind \/ CallAthan \/ CastReturns \/ Settled
         \/ DayOver \/ NewDay
  PROVE  IInv'
<1> USE DEF IInv, Fresh
<1>1. /\ ready = NotReady /\ ready' = NotReady /\ pc \in PCs \ {"sync", "fetch"} /\ pc' # "fetch"
      /\ UNCHANGED <<rtcOffset, date, times, resets, almanac>>
  BY DEF SkipPrayer, TakePrayer, Remind, CallAthan, CastReturns, Settled, DayOver, NewDay, history, PCs
<1>2. /\ now \in Nat /\ wake \in Nat /\ date \in Days /\ date \in Int /\ rtcOffset \in Int
      /\ rtcOffset = OffsetBefore /\ times = almanac[date] /\ Midnight(date + 1) \in Int
      /\ Midnight(date + 1) <= now
      /\ times \in [Prayers -> Minutes \cup {NoTime}] /\ pos \in 1 .. 6
  BY <1>1, DaysNat, Numbers
  DEF TypeOK, ClockSet, TableKnown, StaleDay, Planned, PCs, Midnight, DAY
<1>3. ASSUME NEW t \in Int, NEW p \in Prayers, times[p] # NoTime
      PROVE  /\ SecondsUntil(times[p], Rtc(t)) \in Nat
             /\ SecondsUntil(PreAthanTime(times[p], PRE_ATHAN_MINS), Rtc(t)) \in Nat
  <2>1. times[p] \in Minutes /\ Rtc(t) \in Int
    BY <1>2, <1>3 DEF Rtc
  <2> QED
    BY <2>1, SleepsAreNat
<1>4. now' \in Nat /\ now <= now'
  <2>1. CASE SkipPrayer \/ TakePrayer \/ DayOver
    BY <1>2, <2>1 DEF SkipPrayer, TakePrayer, DayOver
  <2>2. CASE Remind \/ CallAthan \/ Settled \/ NewDay
    <3>1. now' \in Awake
      BY <2>2 DEF Remind, CallAthan, Settled, NewDay
    <3> QED
      BY <1>2, <3>1, AwakeRange
  <2>3. CASE CastReturns
    BY <1>2, <2>3, ConstantsAssumption DEF CastReturns, ConstantsAssumption
  <2> QED
    BY <2>1, <2>2, <2>3
<1>5. wake' \in Nat
  <2>1. CASE TakePrayer
    <3>1. pos \in Prayers /\ times[pos] # NoTime
      BY <2>1 DEF TakePrayer, Upcoming
    <3>2. \/ wake' = now + SecondsUntil(PreAthanTime(times[pos], PRE_ATHAN_MINS), Rtc(now))
          \/ wake' = now + SecondsUntil(times[pos], Rtc(now))
      BY <2>1 DEF TakePrayer
    <3> QED
      BY <1>2, <1>3, <3>1, <3>2
  <2>2. CASE Remind
    <3>1. pos \in Prayers /\ times[pos] # NoTime
      BY <1>2, <2>2 DEF Remind, SleepWindow, Present, TypeOK
    <3>2. wake' = now' + SecondsUntil(times[pos], Rtc(now'))
      BY <2>2 DEF Remind
    <3> QED
      BY <1>3, <1>4, <3>1, <3>2
  <2>3. CASE CastReturns
    BY <1>2, <2>3, ConstantsAssumption DEF CastReturns, ConstantsAssumption, SETTLE
  <2>4. CASE DayOver
    <3>1. 1 \in Minutes /\ Rtc(now) \in Int
      BY <1>2 DEF Minutes, Rtc
    <3>2. SecondsUntil(1, Rtc(now)) \in Nat
      BY <3>1, SecondsRange
    <3>3. wake' = now + (IF SecondsUntil(1, Rtc(now)) < 60 THEN 60 ELSE SecondsUntil(1, Rtc(now)))
      BY <2>4 DEF DayOver
    <3> QED
      BY <1>2, <3>2, <3>3
  <2>5. CASE SkipPrayer \/ CallAthan \/ Settled \/ NewDay
    BY <1>2, <2>5 DEF SkipPrayer, CallAthan, Settled, NewDay
  <2> QED
    BY <2>1, <2>2, <2>3, <2>4, <2>5
<1>6. /\ pc' \in PCs /\ pos' \in 1 .. 6 /\ nextPrayer' \in Prayers \cup {None}
      /\ pc' \in {"pre", "wait", "cast", "settle"} => pos' \in Prayers
      /\ pc' \in {"pre", "wait"} => Present(date, pos')
  <2>1. CASE SkipPrayer \/ Settled
    BY <2>1 DEF SkipPrayer, Settled, TypeOK, PCs, Prayers, history
  <2>2. CASE TakePrayer
    BY <1>2, <2>2 DEF TakePrayer, Upcoming, TypeOK, PCs, Present
  <2>3. CASE Remind \/ CallAthan \/ CastReturns \/ DayOver \/ NewDay
    BY <2>3 DEF Remind, CallAthan, CastReturns, DayOver, NewDay, TypeOK, PCs, SleepWindow
  <2> QED
    BY <2>1, <2>2, <2>3
<1>7. /\ called' \subseteq Days \X Prayers /\ CalledDue'
      /\ strays' \subseteq (Nat \cup {NotReady}) \X Prayers /\ NoStrayCall'
  <2>1. CASE CallAthan
    <3> DEFINE late == {d \in Days : OnTime(d, pos, now') /\ <<d, pos>> \notin called}
    <3>1. /\ called' = called \cup {<<d, pos>> : d \in late} /\ pos \in Prayers
          /\ strays' = IF late = {} THEN strays \cup {<<ready, pos>>} ELSE strays
      BY <2>1 DEF CallAthan, TypeOK
    <3>2. \A d \in late : d \in Days /\ Present(d, pos) /\ Due(d, pos) <= now'
      BY DEF OnTime, Present
    <3>3. \A d \in Days, p \in Prayers : <<d, p>> \in called =>
             Present(d, p) /\ Due(d, p) <= now'
      <4>1. ASSUME NEW d \in Days, NEW p \in Prayers, <<d, p>> \in called
            PROVE  Present(d, p) /\ Due(d, p) <= now'
        <5>1. Present(d, p) /\ Due(d, p) <= now
          BY <4>1 DEF CalledDue
        <5>2. Due(d, p) \in Int
          BY <5>1, TableFacts, Numbers, DaysNat DEF DAY
        <5> QED
          BY <1>2, <1>4, <5>1, <5>2
      <4> QED
        BY <4>1
    <3> HIDE DEF late
    <3>4. called' \subseteq Days \X Prayers
      BY <3>1, <3>2 DEF TypeOK
    <3>5. CalledDue'
      <4>1. \A d \in Days, p \in Prayers : <<d, p>> \in called' =>
               Present(d, p) /\ Due(d, p) <= now'
        BY <3>1, <3>2, <3>3
      <4> QED
        BY <1>1, <4>1 DEF CalledDue, Present, Due
    <3>6. /\ strays' \subseteq (Nat \cup {NotReady}) \X Prayers /\ NoStrayCall'
      BY <1>1, <3>1 DEF TypeOK, NoStrayCall
    <3> QED
      BY <3>4, <3>5, <3>6
  <2>2. CASE ~CallAthan
    <3>1. UNCHANGED <<called, strays>>
      BY <2>2 DEF SkipPrayer, TakePrayer, Remind, CastReturns, Settled, DayOver, NewDay, history
    <3> QED
      BY <1>1, <1>4, <3>1, TimeMovesOn DEF TypeOK, NoStrayCall
  <2> QED
    BY <2>1, <2>2
<1>8. reminded' \subseteq Days \X Prayers
  BY <1>2 DEF SkipPrayer, TakePrayer, Remind, CallAthan, CastReturns, Settled, DayOver, NewDay, TypeOK, history
<1>9. TypeOK'
  BY <1>1, <1>4, <1>5, <1>6, <1>7, <1>8 DEF TypeOK
<1>10. ClockSet' /\ TableKnown' /\ StaleDay' /\ ReadyPast'
  BY <1>1, <1>2, <1>4 DEF ClockSet, TableKnown, StaleDay, ReadyPast, Planned, Midnight, NotReady
<1>11. PastKept' /\ ScanWindow' /\ SleepWindow' /\ CastWindow' /\ MidnightWindow'
  BY <1>1, <1>6 DEF PastKept, ScanWindow, SleepWindow, CastWindow, MidnightWindow, TurningDay, Present
<1> QED
  BY <1>7, <1>9, <1>10, <1>11

(* A step that changes nothing keeps the invariant. *)
LEMMA StutterKeeps ==
  ASSUME IInv, UNCHANGED vars
  PROVE  IInv'
BY DEF IInv, Fresh, vars, history, TypeOK, ClockSet, TableKnown, StaleDay, ReadyPast, PastKept, ScanWindow,
   SleepWindow, CastWindow, MidnightWindow, CalledDue, NoStrayCall, Planned, TurningDay,
   Kept, Present, Due, Midnight

(* IInv holds in every reachable state. *)
THEOREM Invariance == Spec => []IInv
<1>1. IInv /\ [Next]_vars => IInv'
  <2> SUFFICES ASSUME IInv, [Next]_vars PROVE IInv'
    OBVIOUS
  <2>1. CASE SyncClock     BY <2>1, SyncClockKeeps
  <2>2. CASE FetchTimings  BY <2>2, FetchTimingsKeeps
  <2>3. CASE SkipPrayer    BY <2>3, SkipPrayerKeeps, StaleKeeps
  <2>4. CASE TakePrayer    BY <2>4, TakePrayerKeeps, StaleKeeps
  <2>5. CASE Remind        BY <2>5, RemindKeeps, StaleKeeps
  <2>6. CASE CallAthan     BY <2>6, CallAthanKeeps, StaleKeeps
  <2>7. CASE CastReturns   BY <2>7, CastReturnsKeeps, StaleKeeps
  <2>8. CASE Settled       BY <2>8, SettledKeeps, StaleKeeps
  <2>9. CASE DayOver       BY <2>9, DayOverKeeps, StaleKeeps
  <2>10. CASE NewDay       BY <2>10, NewDayKeeps, StaleKeeps
  <2>11. CASE Reset        BY <2>11, ResetKeeps
  <2>12. CASE AlmanacEnds \/ UNCHANGED vars
    BY <2>12, StutterKeeps DEF AlmanacEnds
  <2> QED
    BY <2>1, <2>2, <2>3, <2>4, <2>5, <2>6, <2>7, <2>8, <2>9, <2>10, <2>11, <2>12 DEF Next
<1> QED
  BY InitEstablishes, <1>1, PTL DEF Spec

(* Every variable keeps its type. *)
THEOREM TypeCorrect == Spec => []TypeOK
BY Invariance, PTL DEF IInv

(* From such a timetable on no athan is called at a time that is no prayer's and
   none is called twice, whatever the timetables, the delays and the resets. *)
THEOREM NoStrayCallHolds == Spec => []NoStrayCall
BY Invariance, PTL DEF IInv

(* In every state of the invariant a prayer whose time is over by MaxLate was
   called. *)
LEMMA NoneMissedFollows == IInv => NoneMissed
<1> SUFFICES ASSUME IInv, ready # NotReady,
                    NEW d \in Days, NEW p \in Prayers,
                    almanac[d][p] # NoTime, Due(d, p) > ready,
                    Due(d, p) + MaxLate < now
             PROVE  <<d, p>> \in called
  BY DEF NoneMissed
<1> USE DEF IInv, Fresh
<1>1. /\ date \in Int /\ d \in Int /\ now \in Nat /\ ready \in Int /\ date \in Days
      /\ pc \in PCs /\ pos \in 1 .. 6 /\ wake \in Nat
      /\ Midnight(date) \in Int /\ Midnight(date + 1) \in Int
  BY DaysNat, Numbers DEF TypeOK, NotReady, Midnight, DAY
<1>2. /\ Present(d, p) /\ ~(Due(d, p) <= ready)
      /\ almanac[d][p] \in Int /\ almanac[d][p] < 1440
      /\ 120 + MaxLate + 3 * MaxFetch < (almanac[d][p] - PRE_ATHAN_MINS) * 60
      /\ Due(d, p) = d * DAY + almanac[d][p] * 60 - OffsetBefore
      /\ Due(d, p) \in Int
  <2>1. Present(d, p)
    BY DEF Present
  <2>2. /\ almanac[d][p] \in Int /\ almanac[d][p] < 1440
        /\ 120 + MaxLate + 3 * MaxFetch < (almanac[d][p] - PRE_ATHAN_MINS) * 60
        /\ Due(d, p) = d * DAY + almanac[d][p] * 60 - OffsetBefore
    BY <2>1, TableFacts
  <2>3. Due(d, p) \in Int
    BY <1>1, <2>2, Numbers DEF DAY
  <2> QED
    BY <1>1, <2>1, <2>2, <2>3
<1>3. Kept(d, p) => <<d, p>> \in called
  BY <1>2 DEF Kept
(* The loop has not got as far as the day after date. *)
<1>4. ASSUME d > date PROVE now <= Due(d, p)
  <2>1. now <= Midnight(date + 1) + 120 + MaxLate + MaxFetch
    <3>1. CASE pc \in {"pre", "wait", "cast", "settle"}
      <4>1. Present(date, pos) /\ pos \in Prayers
        BY <3>1 DEF SleepWindow, CastWindow, TypeOK
      <4>2. /\ almanac[date][pos] \in Int /\ almanac[date][pos] < 1440
            /\ Due(date, pos) = date * DAY + almanac[date][pos] * 60 - OffsetBefore
            /\ almanac[date][pos] * 60 + Slack <= DAY + 60
        BY <1>1, <4>1, TableFacts
      <4>3. Due(date, pos) \in Int
        BY <1>1, <4>2, Numbers DEF DAY
      <4>4. now <= Due(date, pos) + MaxLate + MaxCast
        BY <1>1, <3>1, <4>3, Numbers DEF SleepWindow, CastWindow
      <4> QED
        BY <1>1, <4>2, <4>3, <4>4, Numbers DEF Midnight, DAY, Slack, SETTLE
    <3>2. CASE pc = "scan"
      BY <1>1, <3>2, Numbers DEF ScanWindow
    <3>3. CASE pc = "midnight"
      BY <1>1, <3>3, Numbers DEF MidnightWindow
    <3>4. CASE pc \in {"sync", "fetch"}
      BY <1>1, <3>4, Numbers DEF MidnightWindow, TurningDay
    <3> QED
      BY <1>1, <3>1, <3>2, <3>3, <3>4 DEF PCs
  <2>2. date + 1 <= d
    BY <1>1, <1>4
  <2> QED
    BY <1>1, <1>2, <2>1, <2>2, Numbers DEF Midnight, DAY
<1>5. ASSUME d <= date, pc \in {"sync", "fetch"} PROVE Kept(d, p)
  BY <1>5 DEF PastKept, TurningDay
<1>6. ASSUME d < date, pc \notin {"sync", "fetch"} PROVE Kept(d, p)
  BY <1>1, <1>6 DEF PastKept, Planned
<1>7. ASSUME d = date, pc \notin {"sync", "fetch"}, p < pos PROVE Kept(d, p)
  BY <1>1, <1>7 DEF PastKept, Planned
<1>8. ASSUME d = date, pc \in {"cast", "settle"}, p = pos PROVE Kept(d, p)
  BY <1>8 DEF PastKept
<1>9. ASSUME d = date, pc = "scan", p >= pos PROVE FALSE
  BY <1>1, <1>2, <1>9, Numbers DEF ScanWindow
<1>10. ASSUME d = date, pc \in {"pre", "wait", "cast", "settle"}, p > pos PROVE FALSE
  <2>1. Present(date, pos) /\ pos \in Prayers
    BY <1>10 DEF SleepWindow, CastWindow, TypeOK
  <2>2. /\ almanac[date][pos] \in Int
        /\ Due(date, pos) = date * DAY + almanac[date][pos] * 60 - OffsetBefore
        /\ almanac[date][pos] * 60 + Slack < (almanac[date][p] - PRE_ATHAN_MINS) * 60
    BY <1>1, <1>2, <1>10, <2>1, TableFacts
  <2>3. Due(date, pos) \in Int
    BY <1>1, <2>2, Numbers DEF DAY
  <2>4. now <= Due(date, pos) + MaxLate + MaxCast
    BY <1>1, <1>10, <2>3, Numbers DEF SleepWindow, CastWindow
  <2> QED
    BY <1>1, <1>2, <1>10, <2>2, <2>4, Numbers DEF Slack, SETTLE, DAY
<1>11. ASSUME d = date, pc \in {"pre", "wait"}, p = pos PROVE FALSE
  BY <1>1, <1>2, <1>11, Numbers DEF SleepWindow
<1>12. ASSUME pc = "midnight" PROVE p < pos
  BY <1>12 DEF MidnightWindow, Prayers
<1>13. d <= date
  BY <1>1, <1>2, <1>4, Numbers
<1>14. CASE pc \in {"sync", "fetch"} \/ d < date
  BY <1>3, <1>5, <1>6, <1>13, <1>14
<1>15. CASE pc \notin {"sync", "fetch"} /\ d = date
  <2>1. p < pos \/ p = pos \/ p > pos
    BY <1>1 DEF Prayers
  <2>2. pc \in {"scan", "pre", "wait", "cast", "settle", "midnight"}
    BY <1>1, <1>15 DEF PCs
  <2>3. p >= pos <=> p = pos \/ p > pos
    BY <1>1 DEF Prayers
  <2> QED
    BY <1>3, <1>7, <1>8, <1>9, <1>10, <1>11, <1>12, <1>15, <2>1, <2>2, <2>3
<1> QED
  BY <1>1, <1>13, <1>14, <1>15

(* Every prayer whose instant comes after the first timetable of a boot that came
   on its own day has been called by MaxLate after that instant, day after day. *)
THEOREM NoneMissedHolds == Spec => []NoneMissed
BY Invariance, NoneMissedFollows, PTL
-----------------------------------------------------------------------------
(* The reminders, the status page and the promise, from the invariant. *)

(* From the moment the loop takes a prayer until the pause after it the page
   shows it, and those before it lie in the past; outside of the loop it shows
   none. *)
Shown ==
  /\ pc \in {"sync", "fetch", "midnight"} => nextPrayer = None
  /\ pc \in {"pre", "wait", "cast", "settle"} => nextPrayer = pos
  /\ pc \in {"pre", "wait"} /\ Fresh =>
       \A p \in Prayers : p < pos /\ Present(date, p) => Due(date, p) <= now

(* Whoever waits for the prayer itself has announced it, or came too late. *)
Announced ==
  pc = "wait" /\ Fresh /\ PRE_ATHAN_MINS > 0 /\ Due(date, pos) - PRE_ATHAN_MINS * 60 > ready
    => <<date, pos>> \in reminded

(* The prayer slept for is one of those promised. *)
StillAhead == pc \in {"pre", "wait"} /\ Fresh => Due(date, pos) > ready

(* No reminder comes before its time. *)
RemindedDue ==
  \A d \in Days, p \in Prayers : <<d, p>> \in reminded => Due(d, p) - PRE_ATHAN_MINS * 60 <= now

SleepInv == IInv /\ Shown /\ Announced /\ StillAhead /\ RemindedDue
-----------------------------------------------------------------------------
LEMMA DueInt ==
  ASSUME TypeOK
  PROVE  /\ date \in Days /\ date \in Int /\ now \in Nat /\ wake \in Nat /\ ready \in Int
         /\ pos \in Int
         /\ \A d \in Days, p \in Prayers : d \in Int /\ p \in Int /\ Due(d, p) \in Int
<1>1. /\ date \in Days /\ date \in Int /\ now \in Nat /\ wake \in Nat /\ ready \in Int
      /\ pos \in Int
  BY DaysNat DEF TypeOK, NotReady
<1>2. ASSUME NEW d \in Days, NEW p \in Prayers
      PROVE  d \in Int /\ p \in Int /\ Due(d, p) \in Int
  <2>1. almanac[d][p] \in Int /\ Due(d, p) = d * DAY + almanac[d][p] * 60 - OffsetBefore
    BY TableFacts, MinuteRange
  <2>. QED
    BY <2>1, DaysNat, Numbers DEF DAY, Prayers
<1>. QED
  BY <1>1, <1>2

(* Time runs on, whatever happens. *)
LEMMA TimeRuns ==
  ASSUME IInv, [Next]_vars
  PROVE  now' \in Nat /\ now <= now' /\ UNCHANGED almanac
<1>1. now \in Nat /\ wake \in Nat
  BY DEF IInv, TypeOK
<1>2. /\ FetchTimes \subseteq Nat /\ CastTimes \subseteq Nat /\ Outages \subseteq Nat
  BY ConstantsAssumption DEF ConstantsAssumption
<1>3. CASE SyncClock \/ FetchTimings \/ CastReturns \/ Reset
  BY <1>1, <1>2, <1>3 DEF SyncClock, FetchTimings, CastReturns, Reset, history
<1>4. CASE Remind \/ CallAthan \/ Settled \/ NewDay
  <2>1. now' \in Awake /\ UNCHANGED almanac
    BY <1>4 DEF Remind, CallAthan, Settled, NewDay, history
  <2>. QED
    BY <1>1, <2>1, AwakeRange
<1>5. CASE SkipPrayer \/ TakePrayer \/ DayOver \/ AlmanacEnds \/ UNCHANGED vars
  BY <1>1, <1>5 DEF SkipPrayer, TakePrayer, DayOver, AlmanacEnds, vars, history
<1>. QED
  BY <1>3, <1>4, <1>5 DEF Next

(* The loop takes a prayer whose reminder has passed only right after the first
   timetable. *)
LEMMA TakePrayerAnnounces ==
  ASSUME SleepInv, TakePrayer
  PROVE  Shown' /\ Announced'
<1>. USE DEF Fresh
<1>a. /\ nextPrayer' = pos' /\ pc' \in {"pre", "wait"} /\ ready' = ready
  BY DEF TakePrayer, history
<1>b. CASE ~Fresh
  BY <1>a, <1>b DEF Shown, Announced
<1>c. CASE Fresh
  <2>. USE <1>c
  <2>1. /\ pc = "scan" /\ pos \in Prayers /\ Upcoming(pos) /\ nextPrayer' = pos
        /\ UNCHANGED <<now, rtcOffset, pos, date, times, almanac, ready, reminded>>
    BY DEF TakePrayer, history
  <2>2. /\ rtcOffset = OffsetBefore /\ times = almanac[date]
        /\ date \in Days /\ date \in Int /\ now \in Nat /\ ready \in Int
    BY <2>1, DaysNat DEF SleepInv, IInv, ClockSet, TableKnown, StaleDay, Planned, PCs, TypeOK, NotReady
  <2>. DEFINE t == almanac[date][pos]
              r == now + OffsetBefore
  <2>3. Present(date, pos) /\ times[pos] = t /\ Rtc(now) = r
    BY <2>1, <2>2 DEF Upcoming, Present, Rtc
  <2>4. /\ t \in Minutes /\ t \in Int /\ 0 <= t /\ t < 1440
        /\ 0 < (t - PRE_ATHAN_MINS) * 60
        /\ Due(date, pos) = date * DAY + t * 60 - OffsetBefore
    BY <2>1, <2>2, <2>3, TableFacts, Numbers DEF SleepInv, IInv
  <2>5. /\ Midnight(date) <= now
        /\ \A p \in Prayers : p < pos /\ Present(date, p) => Due(date, p) <= now
        /\ now = ready \/ now < Due(date, pos) - PRE_ATHAN_MINS * 60
    BY <2>1, <2>3 DEF SleepInv, IInv, ScanWindow, Prayers
  <2>6. Shown'
    BY <1>a, <2>1, <2>5 DEF Shown, Present, Due
  <2>7. ASSUME pc' = "wait", PRE_ATHAN_MINS > 0, now < Due(date, pos) - PRE_ATHAN_MINS * 60
        PROVE  FALSE
    <3>. DEFINE u == PreAthanTime(t, PRE_ATHAN_MINS)
    <3>1. TimePassed(u, r)
      BY <2>3, <2>7 DEF TakePrayer, RemindFirst
    <3>2. PRE_ATHAN_MINS <= t
      BY <2>4, Numbers
    <3>3. u = t - PRE_ATHAN_MINS /\ u \in Int
      BY <2>4, <3>2, Numbers, ReminderTime
    <3>4. /\ date * DAY <= r /\ r < (date + 1) * DAY /\ r \in Int
          /\ r < date * DAY + (t - PRE_ATHAN_MINS) * 60
      BY <2>2, <2>4, <2>5, <2>7, Numbers DEF Midnight, DAY
    <3>5. date * DAY + u * 60 <= r
      BY <2>2, <3>1, <3>3, <3>4, PassedOnDate
    <3>. HIDE DEF u, r
    <3>. QED
      BY <2>2, <2>4, <3>3, <3>4, <3>5, Numbers DEF DAY
  <2>8. Announced'
    <3>1. ASSUME pc' = "wait", PRE_ATHAN_MINS > 0, Due(date, pos)' - PRE_ATHAN_MINS * 60 > ready'
          PROVE  FALSE
      <4>1. Due(date, pos) - PRE_ATHAN_MINS * 60 > ready
        BY <2>1, <3>1 DEF Due
      <4>2. now < Due(date, pos) - PRE_ATHAN_MINS * 60
        BY <2>2, <2>4, <2>5, <4>1, Numbers DEF DAY
      <4>. QED
        BY <2>7, <3>1, <4>2
    <3>. QED
      BY <3>1 DEF Announced
  <2>. QED
    BY <2>6, <2>8
<1>. QED
  BY <1>b, <1>c

LEMMA RemindAnnounces ==
  ASSUME SleepInv, Remind
  PROVE  Shown' /\ Announced'
<1>. USE DEF Fresh
<1>1. /\ pc = "pre" /\ now' \in Awake /\ reminded' = reminded \cup {<<date, pos>>}
      /\ UNCHANGED <<pos, date, nextPrayer, almanac, ready>>
  BY DEF Remind
<1>2. now \in Nat /\ wake \in Nat /\ date \in Days /\ date \in Int
  BY DaysNat DEF SleepInv, IInv, TypeOK
<1>3. now' \in Nat /\ now <= now'
  BY <1>1, <1>2, AwakeRange
<1>4. ASSUME Fresh, NEW p \in Prayers, p < pos, Present(date, p)
      PROVE  Due(date, p) <= now'
  <2>1. Due(date, p) <= now
    BY <1>1, <1>4 DEF SleepInv, Shown
  <2>2. Due(date, p) \in Int
    BY <1>2, <1>4, TableFacts, Numbers DEF SleepInv, IInv, DAY
  <2>. QED
    BY <1>2, <1>3, <2>1, <2>2
<1>5. Shown'
  <2>1. pc' = "wait" /\ nextPrayer' = pos'
    BY <1>1 DEF SleepInv, Shown, Remind
  <2>. QED
    BY <1>1, <1>4, <2>1 DEF Shown, Present, Due
<1>. QED
  BY <1>1, <1>5 DEF Announced

(* No other step begins or prolongs a sleep towards a prayer. *)
LEMMA OthersAnnounce ==
  ASSUME SleepInv,
         \/ SyncClock \/ FetchTimings \/ SkipPrayer \/ CallAthan \/ CastReturns \/ Settled
         \/ DayOver \/ NewDay \/ Reset \/ AlmanacEnds \/ UNCHANGED vars
  PROVE  Shown' /\ Announced'
<1>. USE DEF SleepInv, Shown, Announced, Fresh
<1>1. CASE SyncClock \/ NewDay
  BY <1>1 DEF SyncClock, NewDay, history
<1>2. CASE FetchTimings \/ SkipPrayer \/ Settled
  BY <1>2 DEF FetchTimings, SkipPrayer, Settled, history
<1>3. CASE CallAthan \/ CastReturns
  BY <1>3 DEF CallAthan, CastReturns, history
<1>4. CASE DayOver \/ Reset
  BY <1>4 DEF DayOver, Reset
<1>5. CASE AlmanacEnds \/ UNCHANGED vars
  <2>1. UNCHANGED vars
    BY <1>5 DEF AlmanacEnds
  <2>. QED
    BY <2>1 DEF vars, history, Present, Due
<1>. QED
  BY <1>1, <1>2, <1>3, <1>4, <1>5

LEMMA AheadKept ==
  ASSUME SleepInv, [Next]_vars, IInv'
  PROVE  StillAhead'
<1>. USE DEF Fresh
<1>0. CASE ready' = NotReady
  BY <1>0 DEF StillAhead
<1>1. CASE TakePrayer /\ ready' # NotReady
  <2>1. /\ pc = "scan" /\ pos \in Prayers /\ Upcoming(pos)
        /\ UNCHANGED <<now, rtcOffset, pos, date, times, almanac, ready>>
    BY <1>1 DEF TakePrayer, history
  <2>0. ready # NotReady
    BY <1>1, <2>1
  <2>2. /\ rtcOffset = OffsetBefore /\ times = almanac[date] /\ date \in Days
        /\ date \in Int /\ now \in Nat /\ ready \in Int /\ ready <= now
    BY <2>1, DaysNat DEF SleepInv, IInv, ClockSet, TableKnown, StaleDay, Planned, PCs, TypeOK, NotReady, ReadyPast
  <2>. DEFINE t == almanac[date][pos]
              r == now + OffsetBefore
  <2>3. Present(date, pos) /\ ~TimePassed(t, r)
    BY <2>1, <2>2 DEF Upcoming, Present, Rtc
  <2>4. /\ t \in Int /\ 0 <= t /\ t < 1440
        /\ Due(date, pos) = date * DAY + t * 60 - OffsetBefore
    BY <2>1, <2>2, <2>3, TableFacts DEF SleepInv, IInv
  <2>5. /\ Midnight(date) <= now
        /\ now = ready => now < Midnight(date + 1)
        /\ now = ready \/ now < Due(date, pos) - PRE_ATHAN_MINS * 60
    BY <2>0, <2>1, <2>3 DEF SleepInv, IInv, ScanWindow, Prayers
  <2>6. Due(date, pos) > ready
    <3>1. CASE now = ready
      <4>1. r \in Int /\ date * DAY <= r /\ r < (date + 1) * DAY
        BY <2>2, <2>5, <3>1, Numbers DEF Midnight, DAY
      <4>2. ~(date * DAY + t * 60 <= r)
        BY <2>2, <2>3, <2>4, <4>1, PassedOnDate
      <4>. QED
        BY <2>2, <2>4, <3>1, <4>2, Numbers DEF DAY
    <3>2. CASE now < Due(date, pos) - PRE_ATHAN_MINS * 60
      BY <2>2, <2>4, <3>2, Numbers DEF DAY
    <3>. QED
      BY <2>5, <3>1, <3>2
  <2>. QED
    BY <2>1, <2>6 DEF StillAhead, Due
<1>2. CASE Remind
  BY <1>2 DEF Remind, SleepInv, StillAhead, Due
<1>3. CASE pc' \notin {"pre", "wait"}
  BY <1>3 DEF StillAhead
<1>4. CASE UNCHANGED <<pc, pos, date, almanac, ready>>
  BY <1>4 DEF SleepInv, StillAhead, Due
<1>. QED
  BY <1>0, <1>1, <1>2, <1>3, <1>4
  DEF Next, SyncClock, FetchTimings, SkipPrayer, CallAthan, CastReturns, Settled, DayOver, NewDay,
      Reset, AlmanacEnds, vars, history

LEMMA RemindedKept ==
  ASSUME SleepInv, [Next]_vars
  PROVE  RemindedDue'
<1>1. now' \in Nat /\ now <= now' /\ UNCHANGED almanac /\ now \in Nat /\ wake \in Nat
  BY TimeRuns, DueInt DEF SleepInv, IInv
<1>2. ASSUME NEW d \in Days, NEW p \in Prayers, <<d, p>> \in reminded'
      PROVE  Due(d, p) - PRE_ATHAN_MINS * 60 <= now'
  <2>1. Due(d, p) \in Int
    BY DueInt DEF SleepInv, IInv
  <2>2. CASE <<d, p>> \in reminded
    BY <1>1, <2>1, <2>2, Numbers DEF SleepInv, RemindedDue
  <2>3. CASE <<d, p>> \notin reminded
    <3>1. Remind
      BY <1>2, <2>3
      DEF Next, SyncClock, FetchTimings, SkipPrayer, TakePrayer, CallAthan, CastReturns, Settled,
          DayOver, NewDay, Reset, AlmanacEnds, vars, history
    <3>2. pc = "pre" /\ now' \in Awake /\ d = date /\ p = pos
      BY <1>2, <2>3, <3>1 DEF Remind
    <3>3. CASE Fresh
      <4>1. wake = Due(d, p) - PRE_ATHAN_MINS * 60 /\ now < wake
        BY <3>2, <3>3 DEF SleepInv, IInv, SleepWindow
      <4>. QED
        BY <1>1, <3>2, <4>1, AwakeRange
    <3>4. CASE ~Fresh
      <4>1. Present(d, p) /\ Midnight(d + 1) <= now /\ d \in Int
        BY <3>2, <3>4, DaysNat DEF SleepInv, IInv, SleepWindow, StaleDay, Planned, PCs
      <4>2. /\ almanac[d][p] \in Int /\ almanac[d][p] < 1440
            /\ Due(d, p) = d * DAY + almanac[d][p] * 60 - OffsetBefore
        BY <4>1, TableFacts DEF SleepInv, IInv
      <4>. QED
        BY <1>1, <4>1, <4>2, Numbers DEF Midnight, DAY
    <3>. QED
      BY <3>3, <3>4
  <2>. QED
    BY <2>2, <2>3
<1>3. \A d \in Days, p \in Prayers : Due(d, p)' = Due(d, p)
  BY <1>1 DEF Due
<1>. QED
  BY <1>2, <1>3 DEF RemindedDue

LEMMA InitAnnounces == Init => Shown /\ Announced /\ StillAhead /\ RemindedDue
BY DEF Init, Shown, Announced, StillAhead, RemindedDue, Fresh

(* The invariant behind the theorems that follow. *)
THEOREM SleepInvariant == Spec => []SleepInv
<1>1. SleepInv /\ [Next]_vars /\ IInv' => SleepInv'
  <2>. SUFFICES ASSUME SleepInv, [Next]_vars, IInv' PROVE SleepInv'
    OBVIOUS
  <2>1. Shown' /\ Announced'
    BY TakePrayerAnnounces, RemindAnnounces, OthersAnnounce DEF Next
  <2>. QED
    BY <2>1, AheadKept, RemindedKept DEF SleepInv
<1>2. Init /\ IInv => SleepInv
  BY InitAnnounces DEF SleepInv
<1>. QED
  BY <1>1, <1>2, Invariance, PTL DEF Spec

(* What the status page shows as the next prayer: the one the loop sleeps for,
   which is the earliest whose minute has not begun when the timetable is that
   of the day, or has called, and none outside of the loop (main.py:311-340,
   status.py:68). *)
THEOREM ShownIsNextHolds == Spec => []ShownIsNext
<1>1. SleepInv => ShownIsNext
  <2>. USE DEF Fresh
  <2>. SUFFICES ASSUME SleepInv, pc \in {"pre", "wait"}, Fresh
                PROVE  \A q \in Prayers : Upcoming(q) => times[pos] <= times[q]
    BY DEF ShownIsNext, SleepInv, Shown
  <2>1. /\ rtcOffset = OffsetBefore /\ times = almanac[date] /\ pos \in Prayers
        /\ date \in Days /\ date \in Int /\ now \in Nat /\ wake \in Nat
    BY DaysNat DEF SleepInv, IInv, ClockSet, TableKnown, StaleDay, Planned, PCs, TypeOK
  <2>. DEFINE t == almanac[date][pos]
              r == now + OffsetBefore
  <2>2. Present(date, pos)
    BY DEF SleepInv, IInv, SleepWindow
  <2>3. /\ t \in Int /\ 0 <= t /\ t < 1440
        /\ Due(date, pos) = date * DAY + t * 60 - OffsetBefore
        /\ \A q \in Prayers : pos < q /\ Present(date, q) =>
             t * 60 + Slack < (almanac[date][q] - PRE_ATHAN_MINS) * 60
    BY <2>1, <2>2, TableFacts DEF SleepInv, IInv
  <2>4. now <= Due(date, pos)
    BY <2>1, <2>3, Numbers DEF SleepInv, IInv, SleepWindow, DAY
  <2>5. ASSUME NEW q \in Prayers, Upcoming(q)
        PROVE  t <= almanac[date][q]
    <3>1. Present(date, q) /\ ~TimePassed(almanac[date][q], r)
      BY <2>1, <2>5 DEF Upcoming, Present, Rtc
    <3>2. almanac[date][q] \in Int /\ 0 <= almanac[date][q]
          /\ Due(date, q) = date * DAY + almanac[date][q] * 60 - OffsetBefore
      BY <2>1, <3>1, TableFacts DEF SleepInv, IInv
    <3>3. CASE q < pos
      <4>1. Due(date, q) <= now
        BY <3>1, <3>3 DEF SleepInv, Shown
      <4>2. /\ r \in Int /\ date * DAY <= r /\ r < (date + 1) * DAY
            /\ date * DAY + almanac[date][q] * 60 <= r
        BY <2>1, <2>3, <2>4, <3>2, <4>1, Numbers DEF DAY
      <4>3. TimePassed(almanac[date][q], r)
        BY <2>1, <3>2, <4>2, PassedOnDate
      <4>. QED
        BY <3>1, <4>3
    <3>4. CASE pos < q
      <4>1. t * 60 + Slack < (almanac[date][q] - PRE_ATHAN_MINS) * 60
        BY <2>3, <3>1, <3>4
      <4>2. Slack \in Nat
        BY Numbers DEF Slack, SETTLE
      <4>. QED
        BY <2>3, <3>2, <4>1, <4>2, Numbers
    <3>5. CASE q = pos
      BY <2>3, <3>5
    <3>. QED
      BY <2>1, <3>3, <3>4, <3>5 DEF Prayers
  <2>. QED
    BY <2>1, <2>2, <2>5
<1>. QED
  BY <1>1, SleepInvariant, PTL

(* A call answers the prayer of the loop's date and no other. *)
LEMMA CallIsOfDate ==
  ASSUME IInv, Fresh, CallAthan, NEW d \in Days, NEW p \in Prayers, <<d, p>> \in called' \ called
  PROVE  d = date /\ p = pos
<1>1. pc = "wait" /\ pos \in Prayers /\ now' \in Awake
  BY DEF CallAthan, IInv, TypeOK
<1>2. p = pos /\ OnTime(d, pos, now')
  BY DEF CallAthan
<1>3. /\ date \in Days /\ date \in Int /\ d \in Int /\ now \in Nat /\ wake \in Nat
  BY DaysNat DEF IInv, TypeOK
<1>4. Present(date, pos) /\ wake = Due(date, pos) /\ now <= wake
  BY <1>1 DEF IInv, SleepWindow
<1>5. now' \in Nat /\ wake <= now' /\ now' <= wake + MaxLate
  BY <1>1, <1>3, <1>4, AwakeRange, Numbers
<1>6. Present(d, pos) /\ Due(d, pos) <= now' /\ now' <= Due(d, pos) + MaxLate
  BY <1>2 DEF OnTime, Present
<1>7. ASSUME NEW e \in Days, Present(e, pos)
      PROVE  /\ almanac[e][pos] \in Int
             /\ Due(e, pos) = e * DAY + almanac[e][pos] * 60 - OffsetBefore
             /\ 60 < almanac[e][pos] * 60
             /\ almanac[e][pos] * 60 + MaxLate <= DAY + 60
  <2>1. /\ almanac[e][pos] \in Int
        /\ Due(e, pos) = e * DAY + almanac[e][pos] * 60 - OffsetBefore
        /\ 120 + MaxLate + 3 * MaxFetch < (almanac[e][pos] - PRE_ATHAN_MINS) * 60
        /\ almanac[e][pos] * 60 + Slack <= DAY + 60
    BY <1>1, <1>7, TableFacts DEF IInv
  <2>2. MaxLate <= Slack /\ Slack \in Nat
    BY Numbers DEF Slack, SETTLE
  <2>. QED
    BY <2>1, <2>2, Numbers DEF DAY
<1>8. /\ almanac[d][pos] \in Int /\ Due(d, pos) = d * DAY + almanac[d][pos] * 60 - OffsetBefore
      /\ 60 < almanac[d][pos] * 60 /\ almanac[d][pos] * 60 + MaxLate <= DAY + 60
  BY <1>6, <1>7
<1>9. /\ almanac[date][pos] \in Int
      /\ Due(date, pos) = date * DAY + almanac[date][pos] * 60 - OffsetBefore
      /\ 60 < almanac[date][pos] * 60 /\ almanac[date][pos] * 60 + MaxLate <= DAY + 60
  BY <1>3, <1>4, <1>7
<1>10. ~(d < date) /\ ~(date < d)
  BY <1>3, <1>4, <1>5, <1>6, <1>8, <1>9, Numbers DEF DAY
<1>. QED
  BY <1>2, <1>3, <1>10

(* settings.html:82, "Play reminder before each prayer": an athan that is
   called was announced, unless the reminder's time lay before the first
   timetable of this boot that came on its own day. *)
ReminderFirst ==
  [][ \A d \in Days, p \in Prayers :
        /\ <<d, p>> \in called' \ called
        /\ ready # NotReady
        /\ PRE_ATHAN_MINS > 0
        /\ Due(d, p) - PRE_ATHAN_MINS * 60 > ready
        => <<d, p>> \in reminded ]_vars

(* An athan that is called was announced, unless the time of its reminder lay
   before the first timetable of this boot that came on its own day
   (main.py:321-330). *)
THEOREM ReminderFirstHolds == Spec => ReminderFirst
<1>. DEFINE Step ==
       \A d \in Days, p \in Prayers :
         /\ <<d, p>> \in called' \ called
         /\ ready # NotReady
         /\ PRE_ATHAN_MINS > 0
         /\ Due(d, p) - PRE_ATHAN_MINS * 60 > ready
         => <<d, p>> \in reminded
<1>1. SleepInv /\ [Next]_vars => [Step]_vars
  <2>. SUFFICES ASSUME SleepInv, Next, NEW d \in Days, NEW p \in Prayers,
                       <<d, p>> \in called' \ called, ready # NotReady, PRE_ATHAN_MINS > 0,
                       Due(d, p) - PRE_ATHAN_MINS * 60 > ready
                PROVE  <<d, p>> \in reminded
    OBVIOUS
  <2>1. CallAthan
    BY DEF Next, SyncClock, FetchTimings, SkipPrayer, TakePrayer, Remind, CastReturns, Settled,
           DayOver, NewDay, Reset, AlmanacEnds, vars, history
  <2>2. d = date /\ p = pos
    BY <2>1, CallIsOfDate DEF SleepInv, Fresh
  <2>. QED
    BY <2>1, <2>2 DEF SleepInv, Announced, CallAthan, Fresh
<1>2. [][Next]_vars /\ []SleepInv => [][Step]_vars
  BY <1>1, PTL
<1>. QED
  BY <1>2, SleepInvariant, PTL DEF Spec, ReminderFirst
-----------------------------------------------------------------------------
(* The scheduler implements AthanPromise, step by step. *)

LEMMA FallsAre ==
  /\ \A d \in Days, p \in Prayers :
       Present(d, p) => <<d, p>> \in DOMAIN Falls /\ Falls[<<d, p>>] = Due(d, p)
  /\ \A e \in DOMAIN Falls :
       \E d \in Days, p \in Prayers : e = <<d, p>> /\ Present(d, p) /\ Falls[e] = Due(d, p)
BY DEF Falls, Present

LEMMA FallsStay ==
  ASSUME UNCHANGED almanac
  PROVE  UNCHANGED Falls
BY DEF Falls, Due

(* No step but a reset lets a prayer lapse. *)
LEMMA NothingLapses ==
  ASSUME SleepInv, [Next]_vars, NoneMissed'
  PROVE  Promise!Elapse
<1>1. now <= now' /\ now \in Nat /\ now' \in Nat /\ UNCHANGED almanac /\ UNCHANGED Falls
  BY TimeRuns, FallsStay, DueInt DEF SleepInv, IInv
<1>2. ASSUME NEW e \in DOMAIN Falls,
             ready' # NotReady, Falls[e] > ready', Falls[e] + MaxLate < now'
      PROVE  e \in called'
  <2>1. PICK d \in Days, p \in Prayers : e = <<d, p>> /\ Present(d, p) /\ Falls[e] = Due(d, p)
    BY FallsAre
  <2>2. almanac'[d][p] # NoTime /\ Due(d, p)' = Due(d, p)
    BY <1>1, <2>1 DEF Present, Due
  <2>. QED
    BY <1>2, <2>1, <2>2 DEF NoneMissed
<1>. QED
  BY <1>1, <1>2 DEF Promise!Elapse, Promise!Promised, Promise!NotReady, NotReady

(* Of two prayers that are promised, the one that falls earlier is behind the
   loop. *)
LEMMA EarlierAreBehind ==
  ASSUME SleepInv, Fresh, pc = "wait", NEW d \in Days, NEW p \in Prayers,
         Present(d, p), Due(d, p) > ready, Due(d, p) < Due(date, pos)
  PROVE  <<d, p>> \in called
<1>1. /\ date \in Days /\ date \in Int /\ d \in Int /\ p \in Int /\ pos \in Prayers /\ pos \in Int
      /\ ready \in Int /\ Due(d, p) \in Int /\ Due(date, pos) \in Int
  BY DueInt DEF SleepInv, IInv, TypeOK
<1>2. Present(date, pos)
  BY DEF SleepInv, IInv, SleepWindow
<1>3. Slack \in Nat /\ 60 <= Slack
  BY Numbers DEF Slack, SETTLE
<1>4. CASE d < date \/ (d = date /\ p < pos)
  <2>1. Kept(d, p)
    BY <1>4 DEF SleepInv, IInv, PastKept, Planned, PCs
  <2>. QED
    BY <1>1, <2>1 DEF Kept
<1>5. CASE d = date /\ pos < p
  <2>1. /\ almanac[date][pos] \in Int /\ almanac[date][p] \in Int
        /\ Due(date, pos) = date * DAY + almanac[date][pos] * 60 - OffsetBefore
        /\ Due(date, p) = date * DAY + almanac[date][p] * 60 - OffsetBefore
        /\ almanac[date][pos] * 60 + Slack < (almanac[date][p] - PRE_ATHAN_MINS) * 60
    BY <1>1, <1>2, <1>5, TableFacts DEF SleepInv, IInv
  <2>. QED
    BY <1>1, <1>3, <1>5, <2>1, Numbers DEF DAY
<1>6. CASE date < d
  <2>1. /\ almanac[date][pos] \in Int /\ almanac[d][p] \in Int
        /\ Due(date, pos) = date * DAY + almanac[date][pos] * 60 - OffsetBefore
        /\ Due(d, p) = d * DAY + almanac[d][p] * 60 - OffsetBefore
        /\ almanac[date][pos] * 60 + Slack <= DAY + 60
        /\ 120 + MaxLate + 3 * MaxFetch < (almanac[d][p] - PRE_ATHAN_MINS) * 60
    BY <1>1, <1>2, TableFacts DEF SleepInv, IInv
  <2>. QED
    BY <1>1, <1>3, <1>6, <2>1, Numbers DEF DAY
<1>7. CASE d = date /\ p = pos
  BY <1>1, <1>7
<1>. QED
  BY <1>1, <1>4, <1>5, <1>6, <1>7

LEMMA CallAnswers ==
  ASSUME SleepInv, Fresh, CallAthan, NoStrayCall', Promise!Elapse
  PROVE  Promise!Next
<1>. USE DEF Fresh
<1>1. /\ pc = "wait" /\ now' \in Awake /\ UNCHANGED <<almanac, ready, reminded>> /\ UNCHANGED Falls
  BY FallsStay DEF CallAthan
<1>2. /\ now \in Nat /\ wake \in Nat /\ now' \in Nat /\ date \in Days /\ pos \in Prayers
      /\ ready \in Int /\ Due(date, pos) \in Int
  BY <1>1, DueInt, AwakeRange DEF SleepInv, IInv, TypeOK
<1>3. /\ Present(date, pos) /\ <<date, pos>> \notin called /\ ready # NotReady
      /\ wake = Due(date, pos) /\ now <= wake /\ Due(date, pos) > ready
  BY <1>1 DEF SleepInv, IInv, SleepWindow, StillAhead, TableKnown, StaleDay, Planned, PCs
<1>4. wake <= now' /\ now' <= wake + MaxLate
  BY <1>1, <1>2, <1>3, AwakeRange, Numbers
<1>. DEFINE fresh == {d \in Days : OnTime(d, pos, now') /\ <<d, pos>> \notin called}
<1>5. /\ called' = called \cup {<<d, pos>> : d \in fresh}
      /\ strays' = IF fresh = {} THEN strays \cup {<<ready, pos>>} ELSE strays
  BY DEF CallAthan
<1>6. fresh # {} /\ UNCHANGED strays
  BY <1>5 DEF NoStrayCall
<1>7. ASSUME NEW d \in fresh PROVE d = date
  <2>1. d \in Days /\ <<d, pos>> \in called' \ called
    BY <1>5
  <2>. HIDE DEF fresh
  <2>. QED
    BY <1>2, <2>1, CallIsOfDate DEF SleepInv
<1>8. called' = called \cup {<<date, pos>>}
  BY <1>5, <1>6, <1>7
<1>. DEFINE e == <<date, pos>>
<1>9. e \in DOMAIN Falls /\ Falls[e] = Due(date, pos)
  BY <1>2, <1>3, FallsAre
<1>10. ASSUME NEW f \in DOMAIN Falls, Falls[f] > ready, Falls[f] < Falls[e]
       PROVE  f \in called
  <2>1. PICK d \in Days, p \in Prayers : f = <<d, p>> /\ Present(d, p) /\ Falls[f] = Due(d, p)
    BY FallsAre
  <2>. QED
    BY <1>1, <1>9, <1>10, <2>1, EarlierAreBehind
<1>11. PRE_ATHAN_MINS * 60 > 0 /\ Falls[e] - PRE_ATHAN_MINS * 60 > ready => e \in reminded
  BY <1>1, <1>9, Numbers DEF SleepInv, Announced
<1>12. Promise!Promised(e) /\ \A f \in DOMAIN Falls : Promise!Promised(f) => Falls[f] > ready
  BY <1>3, <1>9 DEF Promise!Promised, Promise!NotReady, NotReady
<1>. HIDE DEF e, fresh
<1>13. Promise!Answer(e)
  BY <1>1, <1>3, <1>4, <1>8, <1>9, <1>10, <1>11, <1>12, <1>6 DEF Promise!Answer, e
<1>. QED
  BY <1>9, <1>13 DEF Promise!Next

LEMMA RemindKeepsPromise ==
  ASSUME SleepInv, Fresh, Remind, Promise!Elapse
  PROVE  Promise!Next
<1>. USE DEF Fresh
<1>1. /\ pc = "pre" /\ now' \in Awake /\ reminded' = reminded \cup {<<date, pos>>}
      /\ UNCHANGED <<almanac, ready, called, strays>> /\ UNCHANGED Falls
  BY FallsStay DEF Remind
<1>2. /\ now \in Nat /\ wake \in Nat /\ now' \in Nat /\ date \in Days /\ pos \in Prayers
      /\ ready \in Int /\ Due(date, pos) \in Int
  BY <1>1, DueInt, AwakeRange DEF SleepInv, IInv, TypeOK
<1>3. /\ Present(date, pos) /\ <<date, pos>> \notin called /\ ready # NotReady
      /\ PRE_ATHAN_MINS > 0 /\ wake = Due(date, pos) - PRE_ATHAN_MINS * 60 /\ now < wake
      /\ Due(date, pos) > ready
  BY <1>1 DEF SleepInv, IInv, SleepWindow, StillAhead, TableKnown, StaleDay, Planned, PCs
<1>4. wake <= now' /\ now' <= wake + MaxLate
  BY <1>1, <1>2, <1>3, AwakeRange
<1>5. <<date, pos>> \notin reminded
  BY <1>2, <1>3, Numbers DEF SleepInv, RemindedDue
<1>6. <<date, pos>> \in DOMAIN Falls /\ Falls[<<date, pos>>] = Due(date, pos)
  BY <1>2, <1>3, FallsAre
<1>7. Promise!Announce(<<date, pos>>)
  <2>1. PRE_ATHAN_MINS * 60 > 0
    BY <1>3, Numbers
  <2>. QED
    BY <1>1, <1>3, <1>4, <1>5, <1>6, <2>1
    DEF Promise!Announce, Promise!Promised, Promise!NotReady, NotReady
<1>. QED
  BY <1>6, <1>7 DEF Promise!Next

(* With the timetable of a day that is over the device improvises. *)
LEMMA StaleImprovises ==
  ASSUME SleepInv, ~Fresh, CallAthan \/ Remind
  PROVE  Promise!Next
<1>1. /\ now <= now' /\ UNCHANGED almanac /\ UNCHANGED Falls
      /\ ready = NotReady /\ ready' = ready
  BY TimeRuns, FallsStay DEF SleepInv, Fresh, CallAthan, Remind, Next
<1>2. reminded \subseteq reminded' /\ called \subseteq called'
  BY DEF CallAthan, Remind
<1>3. ASSUME NEW e \in called' \ called
      PROVE  e \in DOMAIN Falls /\ Falls[e] <= now'
  <2>1. CallAthan /\ pos \in Prayers
    BY <1>3 DEF Remind, CallAthan, SleepInv, IInv, TypeOK
  <2>. DEFINE late == {d \in Days : OnTime(d, pos, now') /\ <<d, pos>> \notin called}
  <2>2. PICK d \in Days : e = <<d, pos>> /\ OnTime(d, pos, now')
    <3>1. called' = called \cup {<<d, pos>> : d \in late}
      BY <2>1 DEF CallAthan
    <3>2. PICK d \in late : e = <<d, pos>>
      BY <1>3, <3>1
    <3>. QED
      BY <3>2
  <2>. QED
    BY <2>1, <2>2, FallsAre DEF OnTime, Present
<1>. QED
  BY <1>1, <1>2, <1>3 DEF Promise!Next, Promise!Improvise, Promise!NotReady, NotReady

(* Every other step lets time pass, begins the promise or takes it back. *)
LEMMA OthersKeepPromise ==
  ASSUME SleepInv, [Next]_vars, ~CallAthan, ~Remind, Promise!Elapse
  PROVE  Promise!Next \/ UNCHANGED Promise!vars
<1>1. /\ now <= now' /\ now \in Nat /\ now' \in Nat /\ UNCHANGED almanac /\ UNCHANGED Falls
  BY TimeRuns, FallsStay, DueInt DEF SleepInv, IInv
<1>2. CASE FetchTimings
  <2>1. /\ UNCHANGED <<reminded, called, strays>>
        /\ ready' = ready \/ (ready = NotReady /\ ready' = now')
    BY <1>2 DEF FetchTimings
  <2>. QED
    BY <1>1, <2>1 DEF Promise!Next, Promise!Begin, Promise!Wait, Promise!NotReady, NotReady
<1>3. CASE Reset
  <2>1. ready' = NotReady /\ UNCHANGED <<reminded, called, strays>>
    BY <1>3 DEF Reset
  <2>. QED
    BY <1>1, <2>1 DEF Promise!Next, Promise!Restart, Promise!NotReady, NotReady
<1>4. CASE UNCHANGED <<ready, reminded, called, strays>>
  BY <1>1, <1>4 DEF Promise!Next, Promise!Wait
<1>. QED
  BY <1>2, <1>3, <1>4
  DEF Next, SyncClock, SkipPrayer, TakePrayer, CastReturns, Settled, DayOver, NewDay, AlmanacEnds,
      vars, history

(* run_schedule keeps its promise for all regular timetables, all delays within
   their bounds and resets at any point: every prayer after the first timetable
   that came on its own day is announced in time and called on time, each once, in order, and nothing
   else is called. *)
THEOREM SchedulePromiseKept == Spec => KeepsPromise
<1>1. Init => Promise!Init
  BY DEF Init, Promise!Init, Promise!NotReady, NotReady
<1>2. SleepInv /\ [Next]_vars /\ IInv' /\ NoneMissed' => [Promise!Next]_(Promise!vars)
  <2>. SUFFICES ASSUME SleepInv, [Next]_vars, IInv', NoneMissed'
                PROVE  [Promise!Next]_(Promise!vars)
    OBVIOUS
  <2>1. Promise!Elapse
    BY NothingLapses
  <2>. QED
    BY <2>1, CallAnswers, RemindKeepsPromise, StaleImprovises, OthersKeepPromise DEF IInv
<1>3. Spec => []NoneMissed /\ []IInv
  BY NoneMissedHolds, Invariance, PTL
<1>. QED
  BY <1>1, <1>2, <1>3, SleepInvariant, PTL DEF Spec, KeepsPromise, Promise!Spec
=============================================================================
