---------------------------- MODULE MdnsDiscovery ----------------------------
(***************************************************************************)
(* One search of the network: _mdns_find or list_cast_devices of            *)
(* bilalcast/discovery.py, which put up to ROUNDS queries to one            *)
(* TXTServiceDiscovery of bilalcast/mdns_client.                            *)
(*                                                                         *)
(* A Chromecast is announced by four records: PTR (there is an instance),   *)
(* SRV (its port and host), A (the host's address) and TXT (its friendly    *)
(* name).  They arrive in packets of any of them, in any order, whether     *)
(* this search or somebody else's asked.  The time to live of every record  *)
(* outlasts a query, so that nothing expires within one.                    *)
(***************************************************************************)
EXTENDS Naturals, FiniteSets, SequencesExt

CONSTANTS
  Devices,      \* Chromecasts on the network
  Wanted,       \* the one whose friendly name is configured
  Lowercase,    \* those whose instance name has no capital letters
  Others,       \* hosts whose addresses are heard and concern nobody here
  ROUNDS,       \* queries of one search
  BUFFER_SIZE   \* a_records_buffer_size

Hosts == Devices \cup Others

ASSUME ConstantsAssumption ==
  /\ Wanted \in Devices /\ Lowercase \subseteq Devices
  /\ Devices \cap Others = {}
  /\ ROUNDS \in Nat \ {0} /\ BUFFER_SIZE \in Nat \ {0}

VARIABLES
  pc,        \* "idle", "querying", "pause" or "over"
  finding,   \* the search is _mdns_find, not list_cast_devices
  round,     \* queries so far
  services,  \* monitored_services, and by name and target _records_by_target
  ips,       \* those whose ips are filled
  txt,       \* those whose txt_records are filled
  buffer,    \* _a_records_by_target_buffer, oldest first
  askSrv,    \* _enqueued_service_records
  askA,      \* _enqueued_target_records
  loops,     \* change loops that run
  found,     \* what _mdns_find returns is the wanted device
  listed,    \* devices of list_cast_devices, and those of them with a host
  (* History. *)
  heard,     \* devices that one packet described completely during a query
  parts      \* what was heard of each device since the last query ended

discovery == <<services, ips, txt, buffer, askSrv, askA>>
result == <<found, listed>>
history == <<heard, parts>>
vars == <<pc, finding, round, discovery, loops, result, history>>
-----------------------------------------------------------------------------
Init ==
  /\ pc = "idle" /\ finding \in BOOLEAN /\ round = 0
  /\ services = {} /\ ips = {} /\ txt = {} /\ buffer = <<>>
  /\ askSrv = {} /\ askA = {}
  /\ loops = 0
  /\ found = FALSE /\ listed = [all |-> {}, hosts |-> {}]
  /\ heard = {} /\ parts = [d \in Devices |-> {}]

(* The part of query_once before its sleep: start() and the first question. *)
StartQuery ==
  /\ pc \in {"idle", "pause"}
  /\ round < ROUNDS
  /\ pc' = "querying"
  /\ round' = round + 1
  /\ loops' = loops + 1
  /\ UNCHANGED <<finding, discovery, result, history>>
-----------------------------------------------------------------------------
Monitored == pc = "querying"

(* The entries of s that are not of host d, in their order: the k-th is the
   one of which k entries, itself among them, are at its place or before. *)
Without(s, d) ==
  LET kept == {i \in DOMAIN s : s[i] # d}
      Upto(i) == {j \in kept : j <= i}
  IN  [k \in 1 .. Cardinality(kept) |-> s[CHOOSE i \in kept : Cardinality(Upto(i)) = k]]

(* The effects of a packet's records, in the order in which they are handled. *)

(* _on_ptr_record *)
SrvAsked(d, kinds) == IF Monitored /\ "PTR" \in kinds THEN askSrv \cup {d} ELSE askSrv

(* Mutant: the host is not asked for. *)
OnSrvNoHost(d, kinds) ==
  LET asked == SrvAsked(d, kinds)
      waiting == d \in ToSet(buffer)
  IN  /\ askSrv' = IF d \in Lowercase THEN asked \ {d} ELSE asked
      /\ services' = services \cup {d}
      /\ IF waiting \/ "A" \in kinds
         THEN ips' = ips \cup {d} /\ askA' = askA \ {d}
         ELSE UNCHANGED <<ips, askA>>
      /\ buffer' = Without(buffer, d)

(* _on_srv_record, and _on_a_record for the addresses that waited for it or
   come with it.  A name with capital letters is not found among the names
   in small letters that are asked for. *)
OnSrv(d, kinds) ==
  LET asked == SrvAsked(d, kinds)
      waiting == d \in ToSet(buffer)
  IN  /\ askSrv' = IF d \in Lowercase THEN asked \ {d} ELSE asked
      /\ services' = services \cup {d}
      /\ IF waiting \/ "A" \in kinds
         THEN ips' = ips \cup {d} /\ askA' = askA \ {d}
         ELSE askA' = askA \cup {d} /\ UNCHANGED ips
      /\ buffer' = Without(buffer, d)

(* Mutant: a full buffer takes one more. *)
BufferedBeyond(h) == IF Len(buffer) <= BUFFER_SIZE THEN Append(buffer, h) ELSE buffer

(* _add_to_a_record_buffer: when it is full, the youngest is dropped. *)
Buffered(h) == IF Len(buffer) < BUFFER_SIZE THEN Append(buffer, h) ELSE buffer

(* _on_a_record *)
OnAddress(h) ==
  IF h \in services
  THEN ips' = ips \cup {h} /\ askA' = askA \ {h} /\ UNCHANGED buffer
  ELSE buffer' = Buffered(h) /\ askA' = askA \ {h} /\ UNCHANGED ips

NoSrv(d, kinds) ==
  /\ askSrv' = SrvAsked(d, kinds)
  /\ UNCHANGED services
  /\ IF "A" \in kinds THEN OnAddress(d) ELSE UNCHANGED <<ips, askA, buffer>>

(* _on_txt_record: dropped, unless the SRV record came before. *)
OnTxt(d, kinds) == txt' = IF "TXT" \in kinds /\ d \in services' THEN txt \cup {d} ELSE txt

(* _on_response; a response that was received just before stop() is handled
   after it, on a discovery that monitors nothing. *)
Response(d, kinds) ==
  /\ pc \in {"querying", "pause"}
  /\ IF Monitored /\ "SRV" \in kinds THEN OnSrv(d, kinds) ELSE NoSrv(d, kinds)
  /\ OnTxt(d, kinds)
  /\ heard' = IF Monitored /\ {"SRV", "A", "TXT"} \subseteq kinds THEN heard \cup {d} ELSE heard
  /\ parts' = [parts EXCEPT ![d] = @ \cup (IF Monitored THEN kinds ELSE kinds \cap {"A"})]
  /\ UNCHANGED <<pc, finding, round, loops, result>>

(* An address of some other host. *)
OtherAddress(h) ==
  /\ pc \in {"querying", "pause"}
  /\ OnAddress(h)
  /\ UNCHANGED <<pc, finding, round, services, txt, askSrv, loops, result, history>>

(* Mutant: a change loop never notices the end. *)
WakeChangeLoopAlways ==
  /\ loops > 0
  /\ \E kept \in 0 .. Len(buffer) : buffer' = SubSeq(buffer, Len(buffer) - kept + 1, Len(buffer))
  /\ UNCHANGED <<pc, finding, round, services, ips, txt, askSrv, askA, loops, result, history>>

(* _change_loop after its sleep: while a query is on it cleans the buffer of
   the records that were in it for too long, and otherwise it ends.  A loop of
   an earlier query that slept through the pause goes on. *)
WakeChangeLoop ==
  /\ loops > 0
  /\ IF Monitored
     THEN /\ \E kept \in 0 .. Len(buffer) :
               buffer' = SubSeq(buffer, Len(buffer) - kept + 1, Len(buffer))
          /\ UNCHANGED loops
     ELSE loops' = loops - 1 /\ UNCHANGED buffer
  /\ UNCHANGED <<pc, finding, round, services, ips, txt, askSrv, askA, result, history>>
-----------------------------------------------------------------------------
(* Mutant: addresses that wait stay for the next query. *)
StopKeepsBuffer ==
  /\ services' = {} /\ ips' = {} /\ txt' = {} /\ UNCHANGED buffer
  /\ askSrv' = {} /\ askA' = {}
  /\ parts' = [d \in Devices |-> {}]

(* stop() *)
Stop ==
  /\ services' = {} /\ ips' = {} /\ txt' = {} /\ buffer' = <<>>
  /\ askSrv' = {} /\ askA' = {}
  /\ parts' = [d \in Devices |-> {}]

(* _mdns_find with the result of a query. *)
Find ==
  /\ found' = (Wanted \in txt \cap ips)
  /\ pc' = IF found' \/ round = ROUNDS THEN "over" ELSE "pause"
  /\ UNCHANGED listed

(* list_cast_devices: a device is listed as it was when it was first seen. *)
List ==
  /\ listed' = [all |-> listed.all \cup txt,
                hosts |-> listed.hosts \cup ((txt \ listed.all) \cap ips)]
  /\ pc' = IF round = ROUNDS THEN "over" ELSE "pause"
  /\ UNCHANGED found

(* The part of query_once after its sleep, and what its caller does. *)
EndQuery ==
  /\ pc = "querying"
  /\ IF finding THEN Find ELSE List
  /\ Stop
  /\ UNCHANGED <<finding, round, loops, heard>>

Kinds == SUBSET {"PTR", "SRV", "A", "TXT"} \ {{}}

Next ==
  \/ StartQuery
  \/ \E d \in Devices, kinds \in Kinds : Response(d, kinds)
  \/ \E h \in Others : OtherAddress(h)
  \/ WakeChangeLoop
  \/ EndQuery

Spec == Init /\ [][Next]_vars

(* Every sleep ends. *)
FairSpec == Spec /\ WF_vars(StartQuery) /\ WF_vars(EndQuery) /\ WF_vars(WakeChangeLoop)
-----------------------------------------------------------------------------
(* Every variable has its type; what is filled is a service that is known. *)
TypeOK ==
  /\ pc \in {"idle", "querying", "pause", "over"}
  /\ finding \in BOOLEAN /\ found \in BOOLEAN
  /\ round \in 0 .. ROUNDS /\ loops \in 0 .. ROUNDS
  /\ services \subseteq Devices /\ ips \subseteq services /\ txt \subseteq services
  /\ buffer \in Seq(Hosts) /\ Len(buffer) <= BUFFER_SIZE
  /\ askSrv \subseteq Devices /\ askA \subseteq services
  /\ listed.all \subseteq Devices /\ listed.hosts \subseteq listed.all
  /\ heard \subseteq Devices /\ parts \in [Devices -> SUBSET {"PTR", "SRV", "A", "TXT"}]

(* A search implements SearchPromise: a Chromecast that describes itself
   completely in one packet, in whichever query, is found or listed, and none
   is that did not tell its port and its name, to be found also its address,
   since the query before ended (discovery.py:59-118, txt_discovery.py:15-38). *)
Promise == INSTANCE SearchPromise WITH
  Names <- Devices,
  QUERIES <- ROUNDS,
  sought <- IF finding THEN {Wanted} ELSE Devices,
  phase <- CASE pc = "querying" -> "asking" [] pc = "over" -> "over" [] OTHER -> "waiting",
  queries <- round,
  described <- heard,
  reported <- IF finding THEN {d \in {Wanted} : found} ELSE listed.all,
  located <- IF finding THEN {d \in {Wanted} : found} ELSE listed.hosts

KeepsPromise == Promise!Spec

(* What is missing is asked for again with every response, until the query
   ends: the service of a device that was only announced, and the address of a
   host whose service is known (mdns_client's discovery.py:234-246). *)
MissingIsAskedFor ==
  /\ {d \in Devices \ services : "PTR" \in parts[d]} \subseteq askSrv
  /\ services \ ips \subseteq askA

(* No change loop outlives the search for long, although each query starts one
   and those of earlier queries go on (mdns_client's discovery.py:79-88). *)
LoopsEnd == pc = "over" ~> loops = 0
=============================================================================
