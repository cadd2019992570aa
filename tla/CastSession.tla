----------------------------- MODULE CastSession -----------------------------
(***************************************************************************)
(* One call of cast_url: up to MAX_RETRIES connections to the Chromecast,   *)
(* on each the conversation of bilalcast/cast.py, which sends SET_VOLUME,   *)
(* STOP and LAUNCH, waits for a transport id, sends CONNECT and LOAD to it  *)
(* and waits for a media status.                                            *)
(*                                                                         *)
(* The Chromecast is modelled from what the messages ask of it.  Whether it *)
(* obeys a STOP that names no session is left open, as is what ran on it    *)
(* before.  A connection is a queue in each direction; what is under way to *)
(* the Chromecast when the device disconnects is still obeyed.              *)
(***************************************************************************)
EXTENDS Naturals, Sequences

CONSTANT MAX_RETRIES        \* connections cast_url makes before it gives up

ASSUME RetriesAssumption == MAX_RETRIES \in Nat \ {0}

NoApp == 0
NoTransport == 0
Apps == 0 .. MAX_RETRIES + 2   \* sessions on the Chromecast in order of launch

VARIABLES
  pc,        \* where cast_url is
  attempt,   \* 1 .. MAX_RETRIES
  tid,       \* transport_id
  open,      \* the connection is open
  toCast,    \* commands on their way to the Chromecast
  toDevice,  \* messages on their way back
  (* The Chromecast. *)
  app,       \* the session that runs, which is also its transport's id
  media,     \* whether it is the Default Media Receiver
  plays,     \* what that plays: "nothing", "old" or "ours"
  joined,    \* the transport that the open connection has joined
  launched,  \* the youngest session so far
  (* Chosen once, and history. *)
  stopEnds,  \* STOP without a session ends the running one
  healthy,   \* no fault or delay, nobody else's app or status
  busy,      \* a session ran when the cast began
  starts,    \* how often our file was started
  misled     \* the old file's status was sent to this connection

sender == <<pc, attempt, tid, open>>
receiver == <<app, media, plays, joined, launched>>
chosen == <<stopEnds, healthy, busy>>
history == <<starts, misled>>
vars == <<sender, toCast, toDevice, receiver, chosen, history>>
-----------------------------------------------------------------------------
Status == [says : {"status"}, transport : Apps]
Says(what) == [says |-> what, transport |-> NoTransport]
Messages == Status \cup {Says("playing"), Says("load failed"), Says("other")}

Command(what, transport) == [asks |-> what, transport |-> transport]
Commands == [asks : {"volume", "stop", "launch", "connect", "load"}, transport : Apps]

Init ==
  /\ pc = "connect" /\ attempt = 1 /\ tid = NoTransport /\ open = FALSE
  /\ toCast = <<>> /\ toDevice = <<>>
  /\ app \in {NoApp, 1} /\ launched = app
  /\ media \in BOOLEAN /\ (media => app # NoApp)
  /\ plays \in {"nothing", "old"} /\ (plays = "old" => media)
  /\ joined = NoTransport
  /\ stopEnds \in BOOLEAN /\ healthy \in BOOLEAN /\ busy = (app # NoApp)
  /\ starts = 0 /\ misled = FALSE
-----------------------------------------------------------------------------
(* Mutant: an attempt too many. *)
AttemptFailsOnceMore ==
  /\ open' = FALSE
  /\ toDevice' = <<>>
  /\ joined' = NoTransport
  /\ pc' = IF attempt <= MAX_RETRIES THEN "pause" ELSE "failed"
  /\ misled' = FALSE
  /\ UNCHANGED <<attempt, tid, app, media, plays, launched, chosen, starts>>

(* Mutant: no further attempt. *)
AttemptFailsForGood ==
  /\ open' = FALSE
  /\ toDevice' = <<>>
  /\ joined' = NoTransport
  /\ pc' = "failed"
  /\ misled' = FALSE
  /\ UNCHANGED <<attempt, tid, app, media, plays, launched, chosen, starts>>

(* disconnect(), whatever went wrong, and three seconds until the next. *)
AttemptFails ==
  /\ open' = FALSE
  /\ toDevice' = <<>>
  /\ joined' = NoTransport
  /\ pc' = IF attempt < MAX_RETRIES THEN "pause" ELSE "failed"
  /\ misled' = FALSE
  /\ UNCHANGED <<attempt, tid, app, media, plays, launched, chosen, starts>>

(* Nothing more will arrive; faults let time run out before that. *)
WaitedInVain == healthy => toDevice = <<>> /\ toCast = <<>>

Connect ==
  /\ pc = "connect"
  /\ open' = TRUE
  /\ pc' = "command"
  /\ UNCHANGED <<attempt, tid, toCast, toDevice, receiver, chosen, history>>

ConnectFails ==
  /\ pc = "connect" /\ ~healthy
  /\ AttemptFails
  /\ UNCHANGED toCast

Opening == <<Command("volume", NoTransport), Command("stop", NoTransport),
             Command("launch", NoTransport)>>

(* set_volume() and the start of play_url(): nothing is read in between. *)
SendCommands ==
  /\ pc = "command"
  /\ toCast' = toCast \o Opening
  /\ pc' = "transport"
  /\ UNCHANGED <<attempt, tid, open, toDevice, receiver, chosen, history>>

(* A write fails: the commands before it have been sent. *)
SendFails ==
  /\ pc = "command" /\ ~healthy
  /\ \E n \in 0 .. 2 : toCast' = toCast \o SubSeq(Opening, 1, n)
  /\ AttemptFails

(* _wait_for_transport_id: the first message that has one. *)
ReadTransport ==
  /\ pc = "transport" /\ toDevice # <<>>
  /\ toDevice' = Tail(toDevice)
  /\ IF Head(toDevice).transport # NoTransport
     THEN tid' = Head(toDevice).transport /\ pc' = "load"
     ELSE UNCHANGED <<tid, pc>>
  /\ UNCHANGED <<attempt, open, toCast, receiver, chosen, history>>

NoTransportId ==
  /\ pc = "transport"
  /\ WaitedInVain
  /\ AttemptFails
  /\ UNCHANGED toCast

SendLoad ==
  /\ pc = "load"
  /\ toCast' = toCast \o <<Command("connect", tid), Command("load", tid)>>
  /\ pc' = "confirm"
  /\ UNCHANGED <<attempt, tid, open, toDevice, receiver, chosen, history>>

LoadNotSent ==
  /\ pc = "load" /\ ~healthy
  /\ toCast' \in {toCast, Append(toCast, Command("connect", tid))}
  /\ AttemptFails

(* Mutant: any answer confirms. *)
ReadConfirmationAny ==
  /\ pc = "confirm" /\ toDevice # <<>>
  /\ IF Head(toDevice).says = "load failed" THEN AttemptFails
     ELSE /\ pc' = "ok"
          /\ open' = FALSE /\ toDevice' = <<>> /\ joined' = NoTransport
          /\ UNCHANGED <<attempt, tid, app, media, plays, launched, chosen, history>>
  /\ UNCHANGED toCast

(* _wait_for_load_confirmation: the first message that has one of the words. *)
ReadConfirmation ==
  /\ pc = "confirm" /\ toDevice # <<>>
  /\ \/ /\ Head(toDevice).says = "playing"
        /\ pc' = "ok"
        /\ open' = FALSE /\ toDevice' = <<>> /\ joined' = NoTransport
        /\ UNCHANGED <<attempt, tid, app, media, plays, launched, chosen, history>>
     \/ /\ Head(toDevice).says = "load failed"
        /\ AttemptFails
     \/ /\ Head(toDevice).says \in {"status", "other"}
        /\ toDevice' = Tail(toDevice)
        /\ UNCHANGED <<sender, receiver, chosen, history>>
  /\ UNCHANGED toCast

NotConfirmed ==
  /\ pc = "confirm"
  /\ WaitedInVain
  /\ AttemptFails
  /\ UNCHANGED toCast

(* Mutant: the attempts are not counted. *)
TryAgainUncounted ==
  /\ pc = "pause"
  /\ pc' = "connect"
  /\ UNCHANGED <<attempt, tid, open, toCast, toDevice, receiver, chosen, history>>

TryAgain ==
  /\ pc = "pause"
  /\ healthy => toCast = <<>>
  /\ attempt' = attempt + 1
  /\ pc' = "connect"
  /\ UNCHANGED <<tid, open, toCast, toDevice, receiver, chosen, history>>
-----------------------------------------------------------------------------
(* The Chromecast tells whoever is connected. *)
Tell(message) == toDevice' = IF open THEN Append(toDevice, message) ELSE toDevice

StatusOf(a) == [says |-> "status", transport |-> a]

EndsApp == app' = NoApp /\ media' = FALSE /\ plays' = "nothing"

Volume == Tell(StatusOf(app)) /\ UNCHANGED <<receiver, history>>

Stop ==
  /\ IF stopEnds THEN EndsApp /\ Tell(StatusOf(NoApp))
                 ELSE Tell(Says("other")) /\ UNCHANGED <<app, media, plays>>
  /\ UNCHANGED <<joined, launched, history>>

(* A running Default Media Receiver is not launched twice. *)
Launch ==
  /\ IF media THEN Tell(StatusOf(app)) /\ UNCHANGED <<app, media, plays, launched>>
     ELSE /\ launched' = launched + 1
          /\ app' = launched + 1 /\ media' = TRUE /\ plays' = "nothing"
          /\ Tell(StatusOf(launched + 1))
  /\ UNCHANGED <<joined, history>>

Join(transport) ==
  /\ joined' = IF open /\ transport = app THEN transport ELSE joined
  /\ UNCHANGED <<toDevice, app, media, plays, launched, history>>

(* A LOAD reaches the session it names, if it still runs. *)
Load(transport) ==
  \/ /\ transport = app /\ media
     /\ plays' = "ours" /\ starts' = starts + 1
     /\ IF joined = app THEN Tell(Says("playing")) ELSE UNCHANGED toDevice
     /\ UNCHANGED <<app, media, joined, launched, misled>>
  \/ /\ transport = app /\ media /\ ~healthy
     /\ plays' = "nothing"
     /\ IF joined = app THEN Tell(Says("load failed")) ELSE UNCHANGED toDevice
     /\ UNCHANGED <<app, media, joined, launched, history>>
  \/ /\ ~(transport = app /\ media)
     /\ Tell(Says("other"))
     /\ UNCHANGED <<receiver, history>>

Obey ==
  /\ toCast # <<>>
  /\ toCast' = Tail(toCast)
  /\ LET c == Head(toCast)
     IN  \/ c.asks = "volume" /\ Volume
         \/ c.asks = "stop" /\ Stop
         \/ c.asks = "launch" /\ Launch
         \/ c.asks = "connect" /\ Join(c.transport)
         \/ c.asks = "load" /\ Load(c.transport)
  /\ UNCHANGED <<sender, chosen>>

(* The file that played before goes on after a gap in the stream. *)
OldFileBuffers ==
  /\ ~healthy
  /\ plays = "old" /\ joined = app /\ ~misled
  /\ Tell(Says("playing"))
  /\ misled' = TRUE
  /\ UNCHANGED <<sender, toCast, receiver, chosen, starts>>

(* Somebody starts another app, at most once in a cast. *)
AnotherSender ==
  /\ ~healthy
  /\ launched <= 1
  /\ launched' = launched + 1
  /\ app' = launched + 1 /\ media' = FALSE /\ plays' = "nothing"
  /\ Tell(StatusOf(launched + 1))
  /\ UNCHANGED <<sender, toCast, joined, chosen, history>>

SenderStep ==
  \/ Connect \/ ConnectFails
  \/ SendCommands \/ SendFails
  \/ ReadTransport \/ NoTransportId
  \/ SendLoad \/ LoadNotSent
  \/ ReadConfirmation \/ NotConfirmed
  \/ TryAgain

Concluded == pc \in {"ok", "failed"}

Next == SenderStep \/ Obey \/ OldFileBuffers \/ AnotherSender

Spec == Init /\ [][Next]_vars

(* Each wait of the device is bounded by a timeout, and a Chromecast that is
   healthy obeys what it is sent. *)
FairSpec == Spec /\ WF_vars(SenderStep) /\ WF_vars(Obey)
-----------------------------------------------------------------------------
(* Every variable has its type, and sound comes from a running session. *)
TypeOK ==
  /\ pc \in {"connect", "command", "transport", "load", "confirm", "pause", "ok", "failed"}
  /\ attempt \in 1 .. MAX_RETRIES
  /\ tid \in Apps /\ app \in Apps /\ joined \in Apps /\ launched \in Apps
  /\ open \in BOOLEAN /\ media \in BOOLEAN
  /\ toCast \in Seq(Commands) /\ toDevice \in Seq(Messages)
  /\ plays \in {"nothing", "old", "ours"} /\ (plays # "nothing" => media)
  /\ {stopEnds, healthy, busy, misled} \subseteq BOOLEAN
  /\ starts \in 0 .. MAX_RETRIES

(* cast_url keeps its promise: it returns one verdict, success only for a file
   that was started, whatever messages of which session come in what order, and
   failure only after all the attempts.  The exception is a status of the file
   that played before, sent between CONNECT and the answer to LOAD
   (cast.py:154-178, discovery.py:141-161). *)
Promise == INSTANCE CastPromise WITH
  verdict <- IF Concluded THEN pc ELSE "none",
  lost <- IF pc \in {"pause", "failed"} THEN attempt ELSE attempt - 1

KeepsPromise == Promise!Spec

(* With a Chromecast in order the cast succeeds within the attempts, whichever
   session ran before, and starts the file once; the exception is a Chromecast
   that was busy and whose STOP ends the session whose id the device then takes
   for its own (cast.py:131-140, 166-180). *)
HealthyCastPlays ==
  healthy =>
    /\ pc = "ok" => starts = 1
    /\ pc = "failed" => busy /\ stopEnds

(* A cast comes to an end whatever the Chromecast does (discovery.py:141-161). *)
CastEnds == <>Concluded
=============================================================================
