---------------------------- MODULE SearchPromise ----------------------------
(***************************************************************************)
(* What a search of the network promises its caller, _mdns_find or          *)
(* list_cast_devices of bilalcast/discovery.py: who describes itself is     *)
(* reported, and nobody is reported from what was heard in an earlier       *)
(* query, or of somebody else.                                              *)
(***************************************************************************)
EXTENDS Naturals

CONSTANTS
  Names,     \* Chromecasts that may answer
  QUERIES    \* how often the search asks before it gives up

Whole == {"SRV", "TXT", "A"}

VARIABLES
  sought,     \* who is searched for
  phase,      \* "waiting", "asking" or "over"
  queries,    \* queries so far
  parts,      \* what was heard of each device since the last query ended
  described,  \* devices that a packet described completely during a query
  reported,   \* devices that the caller was given
  located     \* those of them with an address

vars == <<sought, phase, queries, parts, described, reported, located>>

Init ==
  /\ sought \subseteq Names
  /\ phase = "waiting" /\ queries = 0
  /\ parts = [d \in Names |-> {}]
  /\ described = {} /\ reported = {} /\ located = {}

Ask ==
  /\ phase = "waiting" /\ queries < QUERIES
  /\ phase' = "asking" /\ queries' = queries + 1
  /\ UNCHANGED <<sought, parts, described, reported, located>>

(* While nobody asks, an address is remembered and the rest is not. *)
Hear(d, kinds) ==
  /\ phase # "over"
  /\ phase # "asking" => kinds \subseteq {"A"}
  /\ parts' = [parts EXCEPT ![d] = @ \cup kinds]
  /\ described' = IF Whole \subseteq kinds THEN described \cup {d} ELSE described
  /\ UNCHANGED <<sought, phase, queries, reported, located>>

(* A query ends.  The search goes on until it has asked often enough, or has
   found what it sought. *)
Report ==
  /\ phase = "asking"
  /\ reported \subseteq reported' /\ located \subseteq located' /\ located' \subseteq reported'
  /\ \A d \in reported' \ reported : d \in sought /\ {"SRV", "TXT"} \subseteq parts[d]
  /\ \A d \in located' \ located : Whole \subseteq parts[d]
  /\ described \cap sought \subseteq reported'
  /\ \/ phase' = "over" /\ (queries = QUERIES \/ sought \subseteq located')
     \/ phase' = "waiting" /\ queries # QUERIES
  /\ parts' = [d \in Names |-> {}]
  /\ UNCHANGED <<sought, queries, described>>

Next ==
  \/ Ask
  \/ \E d \in Names, kinds \in SUBSET {"PTR", "SRV", "A", "TXT"} : Hear(d, kinds)
  \/ Report

Spec == Init /\ [][Next]_vars
=============================================================================
