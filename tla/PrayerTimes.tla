----------------------------- MODULE PrayerTimes -----------------------------
(***************************************************************************)
(* The clock arithmetic of bilalcast/prayer.py and bilalcast/main.py.       *)
(*                                                                         *)
(* An "HH:MM" string is the number of minutes since midnight it denotes,    *)
(* and NoTime stands for a prayer that the timetable leaves out.  A clock   *)
(* reading (rtc) is the number of seconds since the midnight that began     *)
(* local day 0, so its date is rtc \div DAY and its time of day is          *)
(* rtc % DAY.                                                               *)
(***************************************************************************)
EXTENDS Integers

DAY == 86400              \* seconds in a day

ATHANS_ORDER == <<"Fajr", "Dhuhr", "Asr", "Maghrib", "Isha">>
Prayers == 1 .. 5         \* positions in ATHANS_ORDER

NoTime == -1
Minutes == 0 .. 1439        \* the minutes of a day

DateOf(rtc) == rtc \div DAY
TimeOfDay(rtc) == rtc % DAY

(* Mutant: only the hours are compared. *)
TimePassedByHour(t, rtc) == t \div 60 <= TimeOfDay(rtc) \div 3600

(* _time_passed(hhmm): the minute hhmm has begun. *)
TimePassed(t, rtc) == t <= TimeOfDay(rtc) \div 60

(* seconds_until(hhmm): a time that lies behind means that time tomorrow. *)
SecondsUntil(t, rtc) ==
  LET diff == t * 60 - TimeOfDay(rtc)
  IN  IF diff < 0 THEN diff + DAY ELSE diff

(* pre_athan_time(hhmm, mins): hours and minutes wrap separately. *)
PreAthanTime(t, mins) ==
  LET total == t - mins
  IN  ((total \div 60) % 24) * 60 + (total % 60)
=============================================================================
