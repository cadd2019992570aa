----------------------------- MODULE CastPromise -----------------------------
(***************************************************************************)
(* What cast_url of bilalcast/discovery.py promises do_cast, whatever the   *)
(* Chromecast and the network do: one verdict, success only when a player   *)
(* can have confirmed, failure only when every attempt was made.            *)
(***************************************************************************)
EXTENDS Naturals

CONSTANT MAX_RETRIES   \* attempts before cast_url gives up

VARIABLES
  verdict,   \* "none", or what cast_url returned: "ok" or "failed"
  lost,      \* attempts that failed
  starts,    \* how often a Chromecast started the file
  misled     \* in this attempt it spoke of the file that played before

vars == <<verdict, lost, starts, misled>>

Init == verdict = "none" /\ lost = 0 /\ starts = 0 /\ misled = FALSE

Succeed ==
  /\ verdict = "none"
  /\ starts > 0 \/ misled
  /\ verdict' = "ok"
  /\ UNCHANGED <<lost, starts, misled>>

AttemptLost ==
  /\ verdict = "none" /\ lost < MAX_RETRIES
  /\ lost' = lost + 1
  /\ verdict' = IF lost' = MAX_RETRIES THEN "failed" ELSE "none"
  /\ misled' = FALSE
  /\ UNCHANGED starts

(* The file starts, in an attempt or after it was given up for lost. *)
FileStarts ==
  /\ starts' = starts + 1
  /\ UNCHANGED <<verdict, lost, misled>>

OldFileSpeaks ==
  /\ verdict = "none"
  /\ misled' = TRUE
  /\ UNCHANGED <<verdict, lost, starts>>

Next == Succeed \/ AttemptLost \/ FileStarts \/ OldFileSpeaks

Spec == Init /\ [][Next]_vars
=============================================================================
