----------------------------- MODULE AthanPromise -----------------------------
(***************************************************************************)
(* What run_schedule() of bilalcast/main.py promises the house, whatever    *)
(* the hour of the boot, the delays and the resets: from the first          *)
(* timetable on that came on the day it is for, every prayer is announced   *)
(* in time and called when it is due, in order, once, and nothing else is.  *)
(***************************************************************************)
EXTENDS Integers

CONSTANTS
  LEAD,      \* seconds between reminder and prayer, 0 = no reminder
  MaxLate    \* seconds by which either may come late

NotReady == -1

VARIABLES
  now,        \* true time
  since,      \* instant from which the device keeps its promise, or NotReady
  due,        \* the instant of each prayer of each date
  announced,  \* prayers whose reminder was started
  answered,   \* prayers that were called
  strays      \* athans that belong to no prayer

vars == <<now, since, due, announced, answered, strays>>

Promised(e) == since # NotReady /\ due[e] > since

Init == since = NotReady /\ announced = {} /\ answered = {} /\ strays = {}

(* Nothing is allowed to lapse. *)
Elapse == now' >= now /\ \A e \in DOMAIN due : Promised(e)' /\ due[e] + MaxLate < now' => e \in answered'

Wait ==
  /\ Elapse
  /\ UNCHANGED <<since, due, announced, answered, strays>>

Begin ==
  /\ since = NotReady
  /\ Elapse
  /\ since' = now'
  /\ UNCHANGED <<due, announced, answered, strays>>

Restart ==
  /\ now' >= now
  /\ since' = NotReady
  /\ UNCHANGED <<due, announced, answered, strays>>

(* Before the promise begins the device may follow the timetable of a day that
   is over, and remind and call at its times; none of the prayers that are
   promised later is taken for answered. *)
Improvise ==
  /\ since = NotReady
  /\ now' >= now
  /\ announced \subseteq announced'
  /\ answered \subseteq answered'
  /\ \A e \in answered' \ answered : e \in DOMAIN due /\ due[e] <= now'
  /\ UNCHANGED <<since, due>>

(* A reminder comes when it should, once, and before its prayer is called. *)
Announce(e) ==
  /\ LEAD > 0
  /\ Promised(e) /\ e \notin announced \cup answered
  /\ due[e] - LEAD <= now' /\ now' <= due[e] - LEAD + MaxLate
  /\ announced' = announced \cup {e}
  /\ Elapse
  /\ UNCHANGED <<since, due, answered, strays>>

(* A prayer is called on time, once, after those that fell due before it and,
   unless its reminder's time was over when the device began, after that. *)
Answer(e) ==
  /\ Promised(e) /\ e \notin answered
  /\ due[e] <= now' /\ now' <= due[e] + MaxLate
  /\ \A f \in DOMAIN due : Promised(f) /\ due[f] < due[e] => f \in answered
  /\ LEAD > 0 /\ due[e] - LEAD > since => e \in announced
  /\ answered' = answered \cup {e}
  /\ Elapse
  /\ UNCHANGED <<since, due, announced, strays>>

Next ==
  \/ Wait \/ Begin \/ Restart \/ Improvise
  \/ \E e \in DOMAIN due : Announce(e) \/ Answer(e)

Spec == Init /\ [][Next]_vars
=============================================================================
