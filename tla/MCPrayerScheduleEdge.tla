------------------------ MODULE MCPrayerScheduleEdge ------------------------
(***************************************************************************)
(* Days that occur and are not regular, each with the configuration that    *)
(* shows what the scheduler makes of it.  Times are those of Madrid.        *)
(***************************************************************************)
EXTENDS PrayerSchedule

MCOffset == 7200          \* summer time
MCWinterOffset == 3600

(* Isha at 23:58, around the end of June. *)
LateIsha == { <<300, 860, 1110, 1310, 1438>> }
MCBootTimes == { 50000 }

(* Two days of which the second begins a minute earlier and ends a minute later,
   and a boot whose request is under way at midnight. *)
SpringDays == { <<350, 860, 1070, 1240, 1310>>, <<349, 860, 1070, 1241, 1311>> }
NightBoot == { 86400 - 7200 - 8 }

(* The clocks go forward in the night that follows day 0. *)
WinterDay == { <<420, 800, 970, 1100, 1180>> }
DstNight == 86400 + 3600
WinterBoot == { 50000 }
=============================================================================
