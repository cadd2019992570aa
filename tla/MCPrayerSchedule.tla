-------------------------- MODULE MCPrayerSchedule --------------------------
(* A location whose timetables are regular: two days, boots at all hours. *)
EXTENDS RegularPrayerSchedule

MCOffset == -18000      \* US Eastern, in seconds

(* Winter and summer timetables, and one without Asr. *)
MCTimetables ==
  { <<335, 738, 890, 1030, 1110>>,
    <<245, 790, 1040, 1250, 1430>>,
    <<300, 750, NoTime, 1100, 1200>> }

(* Local day 0 is 86400 s into the model's time because the offset is -5 h:
   before Fajr, in the minute before a reminder, just before a prayer and in its
   own minute, just before and after midnight, and so that the request for the
   timetable is under way at midnight. *)
MCBootTimes == { b + 18000 : b \in {0, 30, 59, 14380, 14690, 43215, 47399, 47400, 85700, 86380, 86399} }
=============================================================================
