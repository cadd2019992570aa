-------------------------- MODULE CastSessionProofs --------------------------
(* cast_url keeps CastPromise, for any number of attempts. *)
EXTENDS CastSession, FiniteSetTheorems, TLAPS

AnyMessage == [says : {"status", "playing", "load failed", "other"}, transport : Nat]

(* What a step that leaves the verdict open relies on: the device listens only
   while an attempt runs, sound comes from a session, and a player that speaks
   plays our file or, if the cast is misled, the old one. *)
SessionInv ==
  /\ pc \in {"connect", "command", "transport", "load", "confirm", "pause", "ok", "failed"}
  /\ attempt \in 1 .. MAX_RETRIES
  /\ pc = "pause" => attempt < MAX_RETRIES
  /\ app \in Nat /\ launched \in Nat
  /\ media => app # NoApp
  /\ plays # "nothing" => media
  /\ open => pc \in {"command", "transport", "load", "confirm"}
  /\ ~open => joined = NoTransport
  /\ starts \in Nat
  /\ toDevice \in Seq(AnyMessage)
  /\ \A i \in 1 .. Len(toDevice) : toDevice[i].says = "playing" => starts > 0 \/ misled
-----------------------------------------------------------------------------
LEMMA InitSessionInv == Init => SessionInv
BY RetriesAssumption DEF Init, SessionInv, NoApp, NoTransport

(* What the device has not read yet stays plausible when it reads a message ... *)
LEMMA TailPlausible ==
  ASSUME toDevice \in Seq(AnyMessage), toDevice # <<>>, toDevice' = Tail(toDevice),
         UNCHANGED <<starts, misled>>,
         \A i \in 1 .. Len(toDevice) : toDevice[i].says = "playing" => starts > 0 \/ misled
  PROVE  /\ toDevice' \in Seq(AnyMessage)
         /\ \A i \in 1 .. Len(toDevice') :
              toDevice'[i].says = "playing" => starts' > 0 \/ misled'
<1>1. toDevice' \in Seq(AnyMessage) /\ Len(toDevice') = Len(toDevice) - 1
  OBVIOUS
<1>2. \A i \in 1 .. Len(toDevice') : toDevice'[i] = toDevice[i + 1] /\ i + 1 \in 1 .. Len(toDevice)
  BY <1>1
<1>. QED
  BY <1>1, <1>2

(* ... and when the Chromecast sends one. *)
LEMMA TellPlausible ==
  ASSUME NEW m \in AnyMessage, Tell(m),
         toDevice \in Seq(AnyMessage),
         \A i \in 1 .. Len(toDevice) : toDevice[i].says = "playing" => starts > 0 \/ misled,
         starts > 0 \/ misled => starts' > 0 \/ misled',
         m.says = "playing" => starts' > 0 \/ misled'
  PROVE  /\ toDevice' \in Seq(AnyMessage)
         /\ \A i \in 1 .. Len(toDevice') :
              toDevice'[i].says = "playing" => starts' > 0 \/ misled'
<1>1. CASE ~open
  BY <1>1 DEF Tell
<1>2. CASE open
  <2>1. toDevice' \in Seq(AnyMessage) /\ Len(toDevice') = Len(toDevice) + 1
    BY <1>2 DEF Tell
  <2>2. \A i \in 1 .. Len(toDevice') :
          toDevice'[i] = IF i = Len(toDevice) + 1 THEN m ELSE toDevice[i]
    BY <1>2, <2>1 DEF Tell
  <2>. QED
    BY <2>1, <2>2
<1>. QED
  BY <1>1, <1>2

LEMMA MessageTypes ==
  /\ \A a \in Nat : StatusOf(a) \in AnyMessage /\ StatusOf(a).says # "playing"
  /\ Says("playing") \in AnyMessage
  /\ Says("load failed") \in AnyMessage /\ Says("load failed").says # "playing"
  /\ Says("other") \in AnyMessage /\ Says("other").says # "playing"
BY DEF StatusOf, Says, AnyMessage, NoTransport

(* An attempt that fails leaves nothing to read, however far it came. *)
LEMMA AttemptFailsKeeps ==
  SessionInv /\ AttemptFails => SessionInv'
<1>. SUFFICES ASSUME SessionInv, AttemptFails PROVE SessionInv'
  OBVIOUS
<1>1. toDevice' \in Seq(AnyMessage) /\ Len(toDevice') = 0
  BY DEF AttemptFails
<1>. QED
  BY <1>1, RetriesAssumption DEF SessionInv, AttemptFails

(* cast_url keeps the invariant ... *)
LEMMA SenderKeeps ==
  SessionInv /\ SenderStep => SessionInv'
<1>. SUFFICES ASSUME SessionInv, SenderStep PROVE SessionInv'
  OBVIOUS
<1>. USE RetriesAssumption
<1>1. CASE Connect
  BY <1>1 DEF Connect, SessionInv, receiver, chosen, history
<1>2. CASE ConnectFails
  BY <1>2, AttemptFailsKeeps DEF ConnectFails
<1>3. CASE SendCommands
  BY <1>3 DEF SendCommands, SessionInv, receiver, chosen, history
<1>4. CASE SendFails
  BY <1>4, AttemptFailsKeeps DEF SendFails
<1>5. CASE ReadTransport
  <2>1. UNCHANGED <<starts, misled>> /\ toDevice' = Tail(toDevice) /\ toDevice # <<>>
    BY <1>5 DEF ReadTransport, history
  <2>2. /\ toDevice' \in Seq(AnyMessage)
        /\ \A i \in 1 .. Len(toDevice') :
             toDevice'[i].says = "playing" => starts' > 0 \/ misled'
    BY <2>1, TailPlausible DEF SessionInv
  <2>. QED
    BY <1>5, <2>2 DEF ReadTransport, SessionInv, receiver, chosen, history
<1>6. CASE NoTransportId
  BY <1>6, AttemptFailsKeeps DEF NoTransportId
<1>7. CASE SendLoad
  BY <1>7 DEF SendLoad, SessionInv, receiver, chosen, history
<1>8. CASE LoadNotSent
  BY <1>8, AttemptFailsKeeps DEF LoadNotSent
<1>9. CASE ReadConfirmation
  <2>1. CASE pc' = "ok" /\ open' = FALSE /\ toDevice' = <<>> /\ joined' = NoTransport
             /\ UNCHANGED <<attempt, tid, app, media, plays, launched, chosen, history>>
    <3>1. toDevice' \in Seq(AnyMessage) /\ Len(toDevice') = 0
      BY <2>1
    <3>. QED
      BY <2>1, <3>1 DEF SessionInv, history
  <2>2. CASE AttemptFails
    BY <2>2, AttemptFailsKeeps
  <2>3. CASE toDevice' = Tail(toDevice) /\ UNCHANGED <<sender, receiver, chosen, history>>
    <3>1. /\ toDevice' \in Seq(AnyMessage)
          /\ \A i \in 1 .. Len(toDevice') :
               toDevice'[i].says = "playing" => starts' > 0 \/ misled'
      <4>1. UNCHANGED <<starts, misled>> /\ toDevice # <<>>
        BY <1>9, <2>3 DEF ReadConfirmation, history
      <4>. QED
        BY <2>3, <4>1, TailPlausible DEF SessionInv
    <3>. QED
      BY <2>3, <3>1 DEF SessionInv, sender, receiver, chosen, history
  <2>. QED
    BY <1>9, <2>1, <2>2, <2>3 DEF ReadConfirmation
<1>10. CASE NotConfirmed
  BY <1>10, AttemptFailsKeeps DEF NotConfirmed
<1>11. CASE TryAgain
  BY <1>11 DEF TryAgain, SessionInv, receiver, chosen, history
<1>. QED
  BY <1>1, <1>2, <1>3, <1>4, <1>5, <1>6, <1>7, <1>8, <1>9, <1>10, <1>11 DEF SenderStep

(* ... and so does the Chromecast, whatever it is told. *)
LEMMA ObeyKeeps ==
  SessionInv /\ Obey => SessionInv'
<1>. SUFFICES ASSUME SessionInv, Obey PROVE SessionInv'
  OBVIOUS
<1>. USE DEF SessionInv
<1>0. /\ UNCHANGED <<pc, attempt, open>>
      /\ app \in Nat /\ launched + 1 \in Nat /\ launched + 1 # NoApp
  BY DEF Obey, sender, NoApp
<1>1. CASE Volume
  <2>1. Tell(StatusOf(app)) /\ UNCHANGED <<app, media, plays, joined, launched, starts, misled>>
    BY <1>1 DEF Volume, receiver, history
  <2>. QED
    BY <1>0, <2>1, TellPlausible, MessageTypes
<1>2. CASE Stop
  <2>1. UNCHANGED <<joined, launched, starts, misled>>
    BY <1>2 DEF Stop, history
  <2>2. /\ toDevice' \in Seq(AnyMessage)
        /\ \A i \in 1 .. Len(toDevice') : toDevice'[i].says = "playing" => starts' > 0 \/ misled'
    <3>1. Tell(StatusOf(NoApp)) \/ Tell(Says("other"))
      BY <1>2 DEF Stop
    <3>2. StatusOf(NoApp) \in AnyMessage /\ StatusOf(NoApp).says # "playing"
      BY MessageTypes DEF NoApp
    <3>. QED
      BY <2>1, <3>1, <3>2, TellPlausible, MessageTypes
  <2>3. /\ app' \in Nat
        /\ media' => app' # NoApp
        /\ plays' # "nothing" => media'
    BY <1>2 DEF Stop, EndsApp, NoApp
  <2>. QED
    BY <1>0, <2>1, <2>2, <2>3
<1>3. CASE Launch
  <2>1. UNCHANGED <<joined, starts, misled>>
    BY <1>3 DEF Launch, history
  <2>2. /\ toDevice' \in Seq(AnyMessage)
        /\ \A i \in 1 .. Len(toDevice') : toDevice'[i].says = "playing" => starts' > 0 \/ misled'
    <3>1. Tell(StatusOf(app)) \/ Tell(StatusOf(launched + 1))
      BY <1>3 DEF Launch
    <3>. QED
      BY <1>0, <2>1, <3>1, TellPlausible, MessageTypes
  <2>3. /\ app' \in Nat /\ launched' \in Nat
        /\ media' => app' # NoApp
        /\ plays' # "nothing" => media'
    BY <1>0, <1>3 DEF Launch
  <2>. QED
    BY <1>0, <2>1, <2>2, <2>3
<1>4. ASSUME NEW transport, Join(transport) PROVE SessionInv'
  BY <1>0, <1>4 DEF Join, history
<1>5. ASSUME NEW transport, Load(transport) PROVE SessionInv'
  <2>1. CASE /\ media /\ plays' = "ours" /\ starts' = starts + 1
             /\ Tell(Says("playing")) \/ UNCHANGED toDevice
             /\ UNCHANGED <<app, media, joined, launched, misled>>
    <3>1. starts' \in Nat /\ starts' > 0 /\ plays' # "nothing" /\ media'
      BY <2>1
    <3>2. CASE Tell(Says("playing"))
      BY <1>0, <2>1, <3>1, <3>2, TellPlausible, MessageTypes
    <3>3. CASE UNCHANGED toDevice
      BY <1>0, <2>1, <3>1, <3>3
    <3>. QED
      BY <2>1, <3>2, <3>3
  <2>2. CASE /\ plays' = "nothing"
             /\ Tell(Says("load failed")) \/ UNCHANGED toDevice
             /\ UNCHANGED <<app, media, joined, launched, starts, misled>>
    BY <1>0, <2>2, TellPlausible, MessageTypes
  <2>3. CASE /\ Tell(Says("other"))
             /\ UNCHANGED <<app, media, plays, joined, launched, starts, misled>>
    BY <1>0, <2>3, TellPlausible, MessageTypes
  <2>. QED
    BY <1>5, <2>1, <2>2, <2>3 DEF Load, receiver, history
<1>. QED
  BY <1>1, <1>2, <1>3, <1>4, <1>5 DEF Obey

LEMMA OthersKeep ==
  SessionInv /\ (OldFileBuffers \/ AnotherSender) => SessionInv'
<1>. SUFFICES ASSUME SessionInv, OldFileBuffers \/ AnotherSender PROVE SessionInv'
  OBVIOUS
<1>. USE DEF SessionInv
<1>1. CASE OldFileBuffers
  <2>1. Tell(Says("playing")) /\ misled'
        /\ UNCHANGED <<pc, attempt, open, app, media, plays, joined, launched, starts>>
    BY <1>1 DEF OldFileBuffers, sender, receiver
  <2>. QED
    BY <2>1, TellPlausible, MessageTypes
<1>2. CASE AnotherSender
  <2>1. Tell(StatusOf(launched + 1)) /\ launched + 1 \in Nat /\ launched + 1 # NoApp
        /\ UNCHANGED <<pc, attempt, open, joined, starts, misled>>
        /\ launched' = launched + 1 /\ app' = launched + 1
        /\ media' = FALSE /\ plays' = "nothing"
    BY <1>2 DEF AnotherSender, sender, history, NoApp
  <2>. QED
    BY <2>1, TellPlausible, MessageTypes
<1>. QED
  BY <1>1, <1>2

(* The invariant holds in every state of a cast. *)
THEOREM SessionInvariant == Spec => []SessionInv
<1>1. SessionInv /\ [Next]_vars => SessionInv'
  <2>1. SessionInv /\ UNCHANGED vars => SessionInv'
    BY DEF SessionInv, vars, sender, receiver, chosen, history
  <2>. QED
    BY <2>1, SenderKeeps, ObeyKeeps, OthersKeep DEF Next
<1>. QED
  BY InitSessionInv, <1>1, PTL DEF Spec
-----------------------------------------------------------------------------
LEMMA PromiseStarts == Init => Promise!Init
BY DEF Init, Promise!Init, Concluded

(* A failed attempt is one for the promise, too. *)
LEMMA AttemptFailsPromised ==
  ASSUME SessionInv, AttemptFails, pc \notin {"pause", "ok", "failed"}
  PROVE  Promise!AttemptLost
BY RetriesAssumption DEF SessionInv, AttemptFails, Promise!AttemptLost, Concluded

LEMMA SenderPromised ==
  ASSUME SessionInv, SenderStep
  PROVE  Promise!Next \/ UNCHANGED Promise!vars
<1>1. CASE ConnectFails \/ SendFails \/ NoTransportId \/ LoadNotSent \/ NotConfirmed
  <2>1. AttemptFails /\ pc \notin {"pause", "ok", "failed"}
    BY <1>1 DEF ConnectFails, SendFails, NoTransportId, LoadNotSent, NotConfirmed
  <2>. QED
    BY <2>1, AttemptFailsPromised DEF Promise!Next
<1>2. CASE ReadConfirmation
  <2>1. CASE AttemptFails
    BY <1>2, <2>1, AttemptFailsPromised DEF ReadConfirmation, Promise!Next
  <2>2. CASE Head(toDevice).says = "playing" /\ pc' = "ok"
             /\ UNCHANGED <<attempt, tid, app, media, plays, launched, chosen, history>>
    <3>1. toDevice \in Seq(AnyMessage) /\ toDevice # <<>>
      BY <1>2 DEF ReadConfirmation, SessionInv
    <3>2. Head(toDevice) = toDevice[1] /\ 1 \in 1 .. Len(toDevice)
      BY <3>1
    <3>3. starts > 0 \/ misled
      BY <2>2, <3>2 DEF SessionInv
    <3>. QED
      BY <1>2, <2>2, <3>3
      DEF ReadConfirmation, Promise!Next, Promise!Succeed, Concluded, history
  <2>3. CASE UNCHANGED <<sender, receiver, chosen, history>>
    BY <2>3 DEF sender, history, Promise!vars, Concluded
  <2>. QED
    BY <1>2, <2>1, <2>2, <2>3 DEF ReadConfirmation
<1>3. CASE TryAgain
  BY <1>3 DEF TryAgain, SessionInv, Promise!vars, Concluded, history
<1>4. CASE Connect \/ SendCommands \/ ReadTransport \/ SendLoad
  BY <1>4 DEF Connect, SendCommands, ReadTransport, SendLoad, Promise!vars, Concluded, history
<1>. QED
  BY <1>1, <1>2, <1>3, <1>4 DEF SenderStep

LEMMA ChromecastPromised ==
  ASSUME SessionInv, Obey \/ OldFileBuffers \/ AnotherSender
  PROVE  Promise!Next \/ UNCHANGED Promise!vars
<1>1. CASE Obey
  <2>1. UNCHANGED <<pc, attempt>>
    BY <1>1 DEF Obey, sender
  <2>2. UNCHANGED misled /\ (starts' = starts + 1 \/ UNCHANGED starts)
    BY <1>1 DEF Obey, Volume, Stop, Launch, Join, Load, history
  <2>. QED
    BY <2>1, <2>2 DEF Promise!Next, Promise!FileStarts, Promise!vars, Concluded
<1>2. CASE OldFileBuffers
  <2>1. pc \in {"command", "transport", "load", "confirm"}
    BY <1>2 DEF OldFileBuffers, SessionInv, NoApp, NoTransport
  <2>. QED
    BY <1>2, <2>1 DEF OldFileBuffers, Promise!Next, Promise!OldFileSpeaks, Concluded, sender
<1>3. CASE AnotherSender
  BY <1>3 DEF AnotherSender, Promise!vars, Concluded, sender, history
<1>. QED
  BY <1>1, <1>2, <1>3

(* cast_url keeps its promise for any number of attempts, any Chromecast and
   any order of messages: one verdict, success only for a file that was started
   or that the old one was taken for, failure only after the last attempt. *)
THEOREM PromiseKept == Spec => KeepsPromise
<1>1. SessionInv /\ [Next]_vars => [Promise!Next]_(Promise!vars)
  <2>1. UNCHANGED vars => UNCHANGED Promise!vars
    BY DEF vars, sender, history, Promise!vars, Concluded
  <2>. QED
    BY <2>1, SenderPromised, ChromecastPromised DEF Next
<1>. QED
  BY PromiseStarts, SessionInvariant, <1>1, PTL DEF Spec, KeepsPromise, Promise!Spec
-----------------------------------------------------------------------------
(* Type correctness: a queue of commands holds at most one LAUNCH and one LOAD
   of each attempt. *)

(* How many commands of a kind are in a queue, and on their way. *)
Places(queue, what) == {i \in 1 .. Len(queue) : queue[i].asks = what}
Count(queue, what) == Cardinality(Places(queue, what))
Underway(what) == Count(toCast, what)

LaunchesSent == IF pc \in {"connect", "command"} THEN attempt - 1 ELSE attempt
LoadsSent == IF pc \in {"connect", "command", "transport", "load"} THEN attempt - 1 ELSE attempt

CommandsCounted ==
  /\ toCast \in Seq(Commands) /\ toDevice \in Seq(Messages)
  /\ tid \in Apps /\ app \in 0 .. launched /\ joined \in Apps
  /\ Underway("launch") <= LaunchesSent
  /\ launched + Underway("launch") <= 2 + LaunchesSent
  /\ starts + Underway("load") <= LoadsSent
-----------------------------------------------------------------------------
LEMMA CountType ==
  ASSUME NEW S, NEW queue \in Seq(S), NEW what
  PROVE  /\ IsFiniteSet(Places(queue, what)) /\ Count(queue, what) \in Nat
         /\ queue = <<>> => Count(queue, what) = 0
<1>1. IsFiniteSet(1 .. Len(queue)) /\ Places(queue, what) \in SUBSET (1 .. Len(queue))
  BY FS_Interval DEF Places
<1>2. IsFiniteSet(Places(queue, what))
  BY <1>1, FS_Subset
<1>3. queue = <<>> => Places(queue, what) = {}
  BY DEF Places
<1>. QED
  BY <1>2, <1>3, FS_CardinalityType, FS_EmptySet DEF Count

LEMMA CountAppend ==
  ASSUME NEW S, NEW queue \in Seq(S), NEW c \in S, NEW what
  PROVE  Count(Append(queue, c), what) = Count(queue, what) + (IF c.asks = what THEN 1 ELSE 0)
<1>. DEFINE n == Len(queue) + 1
<1>1. n \in Nat /\ n \notin Places(queue, what)
  BY DEF Places
<1>2. Len(Append(queue, c)) = n /\ Append(queue, c)[n] = c
      /\ \A i \in 1 .. Len(queue) : Append(queue, c)[i] = queue[i]
  OBVIOUS
<1>3. Places(Append(queue, c), what) =
        IF c.asks = what THEN Places(queue, what) \cup {n} ELSE Places(queue, what)
  BY <1>2 DEF Places
<1>4. Count(queue, what) \in Nat /\ IsFiniteSet(Places(queue, what))
  BY CountType
<1>5. Cardinality(Places(queue, what) \cup {n}) = Count(queue, what) + 1
  BY <1>1, <1>4, FS_AddElement DEF Count
<1>. QED
  BY <1>3, <1>4, <1>5 DEF Count

LEMMA CountOneMore ==
  ASSUME NEW S, NEW queue \in Seq(S), NEW c \in S, NEW what
  PROVE  /\ c.asks = what => Count(Append(queue, c), what) = Count(queue, what) + 1
         /\ c.asks # what => Count(Append(queue, c), what) = Count(queue, what)
<1>1. Count(queue, what) \in Nat
  BY CountType
<1>. QED
  BY <1>1, CountAppend

LEMMA CountConcat ==
  ASSUME NEW S, NEW queue \in Seq(S), NEW more \in Seq(S), NEW what,
         \A i \in 1 .. Len(more) : more[i].asks # what
  PROVE  queue \o more \in Seq(S) /\ Count(queue \o more, what) = Count(queue, what)
<1>1. /\ queue \o more \in Seq(S) /\ Len(queue \o more) = Len(queue) + Len(more)
      /\ \A i \in 1 .. Len(queue) : (queue \o more)[i] = queue[i]
      /\ \A i \in Len(queue) + 1 .. Len(queue \o more) :
           (queue \o more)[i] = more[i - Len(queue)] /\ i - Len(queue) \in 1 .. Len(more)
  OBVIOUS
<1>2. Places(queue \o more, what) = Places(queue, what)
  BY <1>1 DEF Places
<1>. QED
  BY <1>1, <1>2 DEF Count

LEMMA CountTail ==
  ASSUME NEW S, NEW queue \in Seq(S), queue # <<>>, NEW what
  PROVE  Count(queue, what) =
           Count(Tail(queue), what) + (IF Head(queue).asks = what THEN 1 ELSE 0)
<1>. DEFINE after == Places(queue, what) \ {1}
            shift == [i \in Places(Tail(queue), what) |-> i + 1]
<1>1. /\ Len(queue) \in Nat /\ Len(Tail(queue)) = Len(queue) - 1 /\ Len(queue) > 0
      /\ Tail(queue) \in Seq(S) /\ Head(queue) = queue[1]
      /\ \A i \in 1 .. Len(Tail(queue)) : Tail(queue)[i] = queue[i + 1]
  OBVIOUS
<1>2. shift \in Bijection(Places(Tail(queue), what), after)
  <2>1. shift \in [Places(Tail(queue), what) -> after]
    BY <1>1 DEF Places
  <2>2. \A i, j \in Places(Tail(queue), what) : shift[i] = shift[j] => i = j
    BY DEF Places
  <2>3. ASSUME NEW k \in after
        PROVE  \E i \in Places(Tail(queue), what) : shift[i] = k
    <3>1. k \in 2 .. Len(queue) /\ queue[k].asks = what
      BY DEF Places
    <3>2. k - 1 \in 1 .. Len(Tail(queue)) /\ Tail(queue)[k - 1] = queue[k]
      BY <1>1, <3>1
    <3>3. k - 1 \in Places(Tail(queue), what)
      BY <3>1, <3>2 DEF Places
    <3>. QED
      BY <3>1, <3>3
  <2>. QED
    BY <2>1, <2>2, <2>3 DEF Bijection, Injection, Surjection, IsInjective
<1>3. IsFiniteSet(Places(Tail(queue), what)) /\ IsFiniteSet(Places(queue, what))
  BY <1>1, CountType
<1>4. Cardinality(after) = Count(Tail(queue), what)
  BY <1>2, <1>3, FS_Bijection DEF ExistsBijection, Count
<1>5. Cardinality(after) =
        IF 1 \in Places(queue, what) THEN Count(queue, what) - 1 ELSE Count(queue, what)
  BY <1>3, FS_RemoveElement DEF Count
<1>6. 1 \in Places(queue, what) <=> Head(queue).asks = what
  BY <1>1 DEF Places
<1>7. Count(queue, what) \in Nat /\ Count(Tail(queue), what) \in Nat
  BY <1>1, CountType
<1>. QED
  BY <1>4, <1>5, <1>6, <1>7

(* The sessions and messages that the types speak of. *)
LEMMA CountedTypes ==
  ASSUME SessionInv, CommandsCounted
  PROVE  /\ Underway("launch") \in Nat /\ Underway("load") \in Nat
         /\ LaunchesSent \in 0 .. attempt /\ LoadsSent \in 0 .. attempt
         /\ app \in Apps /\ launched \in Apps /\ NoTransport \in Apps /\ tid \in Nat
         /\ Underway("launch") > 0 => launched + 1 \in Apps
         /\ attempt \in Nat /\ MAX_RETRIES \in Nat /\ launched \in Nat /\ starts \in Nat
<1>1. Underway("launch") \in Nat /\ Underway("load") \in Nat
  BY CountType DEF CommandsCounted, Underway
<1>. QED
  BY <1>1, RetriesAssumption
  DEF SessionInv, CommandsCounted, LaunchesSent, LoadsSent, Apps, NoTransport

LEMMA CommandTypes ==
  \A t \in Apps :
    /\ Command("volume", t) \in Commands /\ Command("stop", t) \in Commands
    /\ Command("launch", t) \in Commands /\ Command("connect", t) \in Commands
    /\ Command("load", t) \in Commands
BY DEF Command, Commands

LEMMA InitCounted == Init => CommandsCounted
<1>. SUFFICES ASSUME Init PROVE CommandsCounted
  OBVIOUS
<1>1. toCast \in Seq(Commands) /\ toCast = <<>> /\ toDevice \in Seq(Messages)
  BY DEF Init
<1>2. Underway("launch") = 0 /\ Underway("load") = 0
  BY <1>1, CountType DEF Underway
<1>3. LaunchesSent = 0 /\ LoadsSent = 0
  BY DEF Init, LaunchesSent, LoadsSent
<1>. QED
  BY <1>1, <1>2, <1>3, RetriesAssumption DEF Init, CommandsCounted, Apps, NoApp, NoTransport

(* A failed attempt has sent at most one LAUNCH and one LOAD. *)
LEMMA FailCounted ==
  ASSUME SessionInv, CommandsCounted, AttemptFails,
         toCast' \in Seq(Commands), Underway("launch")' <= attempt,
         launched + Underway("launch")' <= 2 + attempt,
         starts + Underway("load")' <= attempt
  PROVE  CommandsCounted'
<1>1. toDevice' \in Seq(Messages)
  BY DEF AttemptFails
<1>2. LaunchesSent' = attempt /\ LoadsSent' = attempt
  BY DEF AttemptFails, LaunchesSent, LoadsSent
<1>. QED
  BY <1>1, <1>2, RetriesAssumption DEF AttemptFails, CommandsCounted, Apps, NoTransport

LEMMA Concats ==
  ASSUME NEW S, NEW s \in Seq(S), NEW a \in S, NEW b \in S, NEW c \in S
  PROVE  /\ s \o <<a, b>> = Append(Append(s, a), b)
         /\ s \o <<a, b, c>> = Append(Append(Append(s, a), b), c)
  OBVIOUS

(* SET_VOLUME, STOP and LAUNCH; of these, what is sent before a write fails;
   CONNECT and LOAD. *)
LEMMA OpeningCounts ==
  ASSUME NEW queue \in Seq(Commands)
  PROVE  /\ queue \o Opening \in Seq(Commands)
         /\ Count(queue \o Opening, "launch") = Count(queue, "launch") + 1
         /\ Count(queue \o Opening, "load") = Count(queue, "load")
<1>1. PICK c1 \in Commands, c2 \in Commands, c3 \in Commands :
        /\ Opening = <<c1, c2, c3>>
        /\ c1.asks = "volume" /\ c2.asks = "stop" /\ c3.asks = "launch"
  <2>1. NoTransport \in Apps
    BY RetriesAssumption DEF NoTransport, Apps
  <2>. QED
    BY <2>1, CommandTypes DEF Opening, Command
<1>2. queue \o Opening = Append(Append(Append(queue, c1), c2), c3)
  BY <1>1, Concats
<1>3. PICK q1 \in Seq(Commands) : q1 = Append(queue, c1)
  <2>1. Append(queue, c1) \in Seq(Commands)
    OBVIOUS
  <2>. QED
    BY <2>1
<1>4. PICK q2 \in Seq(Commands) : q2 = Append(q1, c2)
  <2>1. Append(q1, c2) \in Seq(Commands)
    OBVIOUS
  <2>. QED
    BY <2>1
<1>5. Count(q1, "launch") = Count(queue, "launch") /\ Count(q1, "load") = Count(queue, "load")
  BY <1>1, <1>3, CountOneMore
<1>6. Count(q2, "launch") = Count(q1, "launch") /\ Count(q2, "load") = Count(q1, "load")
  BY <1>1, <1>4, CountOneMore
<1>7. /\ Append(q2, c3) \in Seq(Commands)
      /\ Count(Append(q2, c3), "launch") = Count(q2, "launch") + 1
      /\ Count(Append(q2, c3), "load") = Count(q2, "load")
  BY <1>1, CountOneMore
<1>. QED
  BY <1>2, <1>3, <1>4, <1>5, <1>6, <1>7

LEMMA FirstOnes ==
  ASSUME NEW S, NEW s \in Seq(S), NEW n \in 0 .. Len(s)
  PROVE  /\ SubSeq(s, 1, n) \in Seq(S) /\ Len(SubSeq(s, 1, n)) = n
         /\ \A i \in 1 .. n : SubSeq(s, 1, n)[i] = s[i]
  OBVIOUS

LEMMA PartOfOpeningCounts ==
  ASSUME NEW queue \in Seq(Commands), NEW n \in 0 .. 2
  PROVE  /\ queue \o SubSeq(Opening, 1, n) \in Seq(Commands)
         /\ Count(queue \o SubSeq(Opening, 1, n), "launch") = Count(queue, "launch")
         /\ Count(queue \o SubSeq(Opening, 1, n), "load") = Count(queue, "load")
<1>1. PICK opening \in Seq(Commands) :
        /\ opening = Opening /\ Len(opening) = 3
        /\ opening[1].asks = "volume" /\ opening[2].asks = "stop"
  <2>1. NoTransport \in Apps
    BY RetriesAssumption DEF NoTransport, Apps
  <2>2. Opening \in Seq(Commands)
    BY <2>1, CommandTypes DEF Opening
  <2>. QED
    BY <2>2 DEF Opening, Command
<1>2. /\ SubSeq(opening, 1, n) \in Seq(Commands) /\ Len(SubSeq(opening, 1, n)) = n
      /\ \A i \in 1 .. n : SubSeq(opening, 1, n)[i] = opening[i]
  <2>1. n \in 0 .. Len(opening)
    BY <1>1
  <2>. QED
    BY <2>1, FirstOnes
<1>3. \A i \in 1 .. n : i = 1 \/ i = 2
  OBVIOUS
<1>4. \A i \in 1 .. Len(SubSeq(opening, 1, n)) :
        SubSeq(opening, 1, n)[i].asks # "launch" /\ SubSeq(opening, 1, n)[i].asks # "load"
  BY <1>1, <1>2, <1>3
<1>5. PICK part \in Seq(Commands) : part = SubSeq(opening, 1, n)
  BY <1>2
<1>6. \A i \in 1 .. Len(part) : part[i].asks # "launch"
  BY <1>4, <1>5
<1>7. \A i \in 1 .. Len(part) : part[i].asks # "load"
  BY <1>4, <1>5
<1>8. queue \o part \in Seq(Commands) /\ Count(queue \o part, "launch") = Count(queue, "launch")
  BY <1>6, CountConcat
<1>9. Count(queue \o part, "load") = Count(queue, "load")
  BY <1>7, CountConcat
<1>. QED
  BY <1>1, <1>5, <1>8, <1>9

LEMMA ConnectCounts ==
  ASSUME NEW queue \in Seq(Commands), NEW t \in Apps
  PROVE  /\ Append(queue, Command("connect", t)) \in Seq(Commands)
         /\ Count(Append(queue, Command("connect", t)), "launch") = Count(queue, "launch")
         /\ Count(Append(queue, Command("connect", t)), "load") = Count(queue, "load")
<1>1. Command("connect", t) \in Commands /\ Command("connect", t).asks = "connect"
  BY CommandTypes DEF Command
<1>. QED
  BY <1>1, CountOneMore

LEMMA LoadCounts ==
  ASSUME NEW queue \in Seq(Commands), NEW t \in Apps
  PROVE  LET sent == queue \o <<Command("connect", t), Command("load", t)>>
         IN  /\ sent \in Seq(Commands)
             /\ Count(sent, "launch") = Count(queue, "launch")
             /\ Count(sent, "load") = Count(queue, "load") + 1
<1>1. PICK c1 \in Commands, c2 \in Commands :
        c1 = Command("connect", t) /\ c2 = Command("load", t) /\ c2.asks = "load"
  BY CommandTypes DEF Command
<1>2. PICK q1 \in Seq(Commands) :
        /\ q1 = Append(queue, c1)
        /\ Count(q1, "launch") = Count(queue, "launch")
        /\ Count(q1, "load") = Count(queue, "load")
  BY <1>1, ConnectCounts
<1>3. queue \o <<c1, c2>> = Append(q1, c2)
  BY <1>2, Concats
<1>4. /\ Append(q1, c2) \in Seq(Commands)
      /\ Count(Append(q1, c2), "launch") = Count(q1, "launch")
      /\ Count(Append(q1, c2), "load") = Count(q1, "load") + 1
  BY <1>1, CountOneMore
<1>. QED
  BY <1>1, <1>2, <1>3, <1>4

LEMMA MessageTransports == \A m \in Messages : m.transport \in Apps
<1>1. \A m \in Status : m.transport \in Apps
  BY DEF Status
<1>2. \A what : Says(what).transport = NoTransport
  BY DEF Says
<1>3. NoTransport \in Apps
  BY RetriesAssumption DEF NoTransport, Apps
<1>. QED
  BY <1>1, <1>2, <1>3 DEF Messages

(* The bounds of an attempt that fails with these commands sent. *)
LEMMA AttemptFailsCounted ==
  ASSUME SessionInv, CommandsCounted, AttemptFails, toCast' \in Seq(Commands),
         UNCHANGED <<Underway("launch"), Underway("load")>>
  PROVE  CommandsCounted'
<1>1. /\ launched \in Nat /\ starts \in Nat /\ attempt \in Nat
      /\ Underway("launch") \in Nat /\ Underway("load") \in Nat
      /\ LaunchesSent \in 0 .. attempt /\ LoadsSent \in 0 .. attempt
  BY CountedTypes
<1>2. /\ Underway("launch") <= LaunchesSent /\ starts + Underway("load") <= LoadsSent
      /\ launched + Underway("launch") <= 2 + LaunchesSent
  BY DEF CommandsCounted
<1>3. /\ Underway("launch") <= attempt /\ starts + Underway("load") <= attempt
      /\ launched + Underway("launch") <= 2 + attempt
  BY <1>1, <1>2
<1>4. /\ Underway("launch")' <= attempt /\ starts + Underway("load")' <= attempt
      /\ launched + Underway("launch")' <= 2 + attempt
  BY <1>3
<1>. QED
  BY <1>4, FailCounted

(* A step of cast_url that leaves the commands on their way and the attempts'
   balance alone. *)
LEMMA OnlyReads ==
  ASSUME SessionInv, CommandsCounted,
         UNCHANGED <<toCast, app, launched, starts>>,
         toDevice' \in Seq(Messages), tid' \in Apps, joined' \in Apps,
         LaunchesSent' = LaunchesSent, LoadsSent' = LoadsSent
  PROVE  CommandsCounted'
<1>1. UNCHANGED <<Underway("launch"), Underway("load")>>
  BY DEF Underway
<1>. QED
  BY <1>1 DEF CommandsCounted

(* The bounds survive the steps of cast_url ... *)
LEMMA SenderCounted ==
  ASSUME SessionInv, CommandsCounted, SenderStep
  PROVE  CommandsCounted'
<1>1. /\ toCast \in Seq(Commands) /\ toDevice \in Seq(Messages)
      /\ tid \in Apps /\ joined \in Apps /\ NoTransport \in Apps
      /\ Underway("launch") <= LaunchesSent
      /\ launched + Underway("launch") <= 2 + LaunchesSent
      /\ starts + Underway("load") <= LoadsSent
  BY RetriesAssumption DEF CommandsCounted, NoTransport, Apps
<1>2. /\ launched \in Nat /\ starts \in Nat /\ attempt \in Nat
      /\ Underway("launch") \in Nat /\ Underway("load") \in Nat
  BY CountedTypes
<1>3. CASE AttemptFails /\ toCast' = toCast
  <2>1. UNCHANGED <<Underway("launch"), Underway("load")>>
    BY <1>3 DEF Underway
  <2>. QED
    BY <1>1, <1>3, <2>1, AttemptFailsCounted
<1>4. CASE SendFails
  <2>1. PICK n \in 0 .. 2 : toCast' = toCast \o SubSeq(Opening, 1, n)
    BY <1>4 DEF SendFails
  <2>2. toCast' \in Seq(Commands) /\ UNCHANGED <<Underway("launch"), Underway("load")>>
    BY <1>1, <2>1, PartOfOpeningCounts DEF Underway
  <2>. QED
    BY <1>4, <2>2, AttemptFailsCounted DEF SendFails
<1>5. CASE LoadNotSent
  <2>1. toCast' = toCast \/ toCast' = Append(toCast, Command("connect", tid))
    BY <1>5 DEF LoadNotSent
  <2>2. toCast' \in Seq(Commands) /\ UNCHANGED <<Underway("launch"), Underway("load")>>
    BY <1>1, <2>1, ConnectCounts DEF Underway
  <2>. QED
    BY <1>5, <2>2, AttemptFailsCounted DEF LoadNotSent
<1>6. CASE SendCommands
  <2>1. /\ LaunchesSent = attempt - 1 /\ LaunchesSent' = attempt
        /\ LoadsSent = attempt - 1 /\ LoadsSent' = attempt - 1
        /\ UNCHANGED <<tid, toDevice, app, joined, launched, starts>>
        /\ toCast' = toCast \o Opening
    BY <1>6 DEF SendCommands, LaunchesSent, LoadsSent, receiver, history
  <2>2. /\ toCast' \in Seq(Commands) /\ Underway("launch")' = Underway("launch") + 1
        /\ Underway("load")' = Underway("load")
    BY <1>1, <2>1, OpeningCounts DEF Underway
  <2>3. /\ Underway("launch")' <= LaunchesSent' /\ starts + Underway("load")' <= LoadsSent'
        /\ launched + Underway("launch")' <= 2 + LaunchesSent'
    BY <1>1, <1>2, <2>1, <2>2
  <2>. QED
    BY <2>1, <2>2, <2>3 DEF CommandsCounted
<1>7. CASE SendLoad
  <2>1. /\ LaunchesSent = attempt /\ LaunchesSent' = attempt
        /\ LoadsSent = attempt - 1 /\ LoadsSent' = attempt
        /\ UNCHANGED <<tid, toDevice, app, joined, launched, starts>>
        /\ toCast' = toCast \o <<Command("connect", tid), Command("load", tid)>>
    BY <1>7 DEF SendLoad, LaunchesSent, LoadsSent, receiver, history
  <2>2. /\ toCast' \in Seq(Commands) /\ Underway("load")' = Underway("load") + 1
        /\ Underway("launch")' = Underway("launch")
    BY <1>1, <2>1, LoadCounts DEF Underway
  <2>3. /\ Underway("launch")' <= LaunchesSent' /\ starts + Underway("load")' <= LoadsSent'
        /\ launched + Underway("launch")' <= 2 + LaunchesSent'
    BY <1>1, <1>2, <2>1, <2>2
  <2>. QED
    BY <2>1, <2>2, <2>3 DEF CommandsCounted
<1>8. CASE Connect
  BY <1>1, <1>8, OnlyReads DEF Connect, LaunchesSent, LoadsSent, receiver, history
<1>9. CASE ReadTransport
  <2>1. Head(toDevice).transport \in Apps /\ toDevice' \in Seq(Messages)
    BY <1>1, <1>9, MessageTransports DEF ReadTransport
  <2>2. tid' \in Apps /\ UNCHANGED <<toCast, app, joined, launched, starts>>
    BY <1>1, <1>9, <2>1 DEF ReadTransport, receiver, history
  <2>3. LaunchesSent' = LaunchesSent /\ LoadsSent' = LoadsSent
    BY <1>9 DEF ReadTransport, LaunchesSent, LoadsSent
  <2>. QED
    BY <1>1, <2>1, <2>2, <2>3, OnlyReads
<1>10. CASE ReadConfirmation /\ ~AttemptFails
  <2>1. /\ UNCHANGED <<tid, toCast, app, launched, starts>>
        /\ toDevice' \in Seq(Messages) /\ joined' \in Apps
    <3>1. CASE UNCHANGED <<sender, receiver, chosen, history>> /\ toDevice' = Tail(toDevice)
      <4>1. toDevice # <<>> /\ UNCHANGED toCast
        BY <1>10 DEF ReadConfirmation
      <4>2. toDevice' \in Seq(Messages)
        BY <1>1, <3>1, <4>1
      <4>. QED
        BY <1>1, <3>1, <4>1, <4>2 DEF sender, receiver, history
    <3>2. CASE /\ toDevice' = <<>> /\ joined' = NoTransport
               /\ UNCHANGED <<attempt, tid, app, media, plays, launched, chosen, history>>
      <4>1. UNCHANGED toCast
        BY <1>10 DEF ReadConfirmation
      <4>2. toDevice' \in Seq(Messages)
        BY <3>2
      <4>. QED
        BY <1>1, <3>2, <4>1, <4>2 DEF history
    <3>. QED
      BY <1>10, <3>1, <3>2 DEF ReadConfirmation
  <2>2. pc = "confirm" /\ pc' \in {"confirm", "ok"} /\ UNCHANGED attempt
    BY <1>10 DEF ReadConfirmation, sender
  <2>3. LaunchesSent' = LaunchesSent /\ LoadsSent' = LoadsSent
    BY <2>2 DEF LaunchesSent, LoadsSent
  <2>. QED
    BY <1>1, <2>1, <2>3, OnlyReads
<1>11. CASE TryAgain
  <2>1. LaunchesSent' = LaunchesSent /\ LoadsSent' = LoadsSent
    BY <1>2, <1>11 DEF TryAgain, LaunchesSent, LoadsSent
  <2>. QED
    BY <1>1, <1>11, <2>1, OnlyReads DEF TryAgain, receiver, history
<1>. QED
  BY <1>3, <1>4, <1>5, <1>6, <1>7, <1>8, <1>9, <1>10, <1>11
  DEF SenderStep, ConnectFails, NoTransportId, NotConfirmed, ReadConfirmation

(* ... those of the Chromecast, which obeys one command fewer than before ... *)
LEMMA TellTypes ==
  ASSUME toDevice \in Seq(Messages), NEW m \in Messages, Tell(m)
  PROVE  toDevice' \in Seq(Messages)
BY DEF Tell

LEMMA TellsMessages ==
  /\ \A a \in Apps : StatusOf(a) \in Messages
  /\ Says("playing") \in Messages /\ Says("load failed") \in Messages
  /\ Says("other") \in Messages
BY DEF Messages, Status, StatusOf

(* A command obeyed is one fewer under way. *)
LEMMA ObeyedOne ==
  \A n, under, after, bound \in Nat :
    under = after + 1 /\ n + under <= bound =>
      /\ n + after <= bound /\ (n + 1) + after <= bound
      /\ under <= bound => after <= bound
OBVIOUS

LEMMA ObeyCounted ==
  ASSUME SessionInv, CommandsCounted, Obey
  PROVE  CommandsCounted'
<1>1. /\ toCast \in Seq(Commands) /\ toDevice \in Seq(Messages)
      /\ tid \in Apps /\ joined \in Apps /\ NoTransport \in Apps
      /\ app \in 0 .. launched
  BY RetriesAssumption DEF CommandsCounted, NoTransport, Apps
<1>2. /\ launched \in Nat /\ starts \in Nat /\ app \in Apps
      /\ Underway("launch") \in Nat /\ Underway("load") \in Nat
      /\ LaunchesSent \in Nat /\ LoadsSent \in Nat
      /\ Underway("launch") > 0 => launched + 1 \in Apps
  BY CountedTypes, RetriesAssumption DEF SessionInv
<1>3. PICK c \in Commands :
        /\ c = Head(toCast) /\ c.transport \in Apps
        /\ \/ c.asks = "volume" /\ Volume
           \/ c.asks = "stop" /\ Stop
           \/ c.asks = "launch" /\ Launch
           \/ c.asks = "connect" /\ Join(c.transport)
           \/ c.asks = "load" /\ Load(c.transport)
  <2>1. Head(toCast) \in Commands
    BY <1>1 DEF Obey
  <2>2. Head(toCast).transport \in Apps
    BY <2>1 DEF Commands
  <2>. QED
    BY <2>1, <2>2 DEF Obey
<1>4. /\ toCast' \in Seq(Commands)
      /\ Underway("launch") = Underway("launch")' + (IF c.asks = "launch" THEN 1 ELSE 0)
      /\ Underway("load") = Underway("load")' + (IF c.asks = "load" THEN 1 ELSE 0)
  <2>1. toCast # <<>> /\ toCast' = Tail(toCast)
    BY DEF Obey
  <2>. QED
    BY <1>1, <1>3, <2>1, CountTail DEF Underway
<1>5. Underway("launch")' \in Nat /\ Underway("load")' \in Nat
  BY <1>4, CountType DEF Underway
<1>6. UNCHANGED <<tid, LaunchesSent, LoadsSent>>
  BY DEF Obey, sender, LaunchesSent, LoadsSent
<1>7. SUFFICES /\ toDevice' \in Seq(Messages)
               /\ app' \in 0 .. launched' /\ joined' \in Apps
               /\ launched' = launched \/ (c.asks = "launch" /\ launched' = launched + 1)
               /\ starts' = starts \/ (c.asks = "load" /\ starts' = starts + 1)
  <2>1. /\ Underway("launch") <= LaunchesSent
        /\ launched + Underway("launch") <= 2 + LaunchesSent
        /\ starts + Underway("load") <= LoadsSent
    BY DEF CommandsCounted
  <2>2. /\ launched' + Underway("launch")' <= 2 + LaunchesSent
        /\ starts' + Underway("load")' <= LoadsSent
        /\ Underway("launch")' <= LaunchesSent
    <3>1. CASE c.asks = "launch"
      <4>1. /\ Underway("launch") = Underway("launch")' + 1 /\ launched' \in {launched, launched + 1}
            /\ Underway("load")' = Underway("load") /\ starts' = starts
        BY <1>2, <1>4, <1>5, <1>7, <3>1
      <4>2. LaunchesSent \in Nat /\ 2 + LaunchesSent \in Nat
        BY <1>2
      <4>. QED
        BY <1>2, <1>5, <2>1, <4>1, <4>2, ObeyedOne
    <3>2. CASE c.asks = "load"
      <4>1. /\ Underway("launch")' = Underway("launch") /\ launched' = launched
            /\ Underway("load") = Underway("load")' + 1 /\ starts' \in {starts, starts + 1}
        BY <1>2, <1>4, <1>5, <1>7, <3>2
      <4>2. starts' + Underway("load")' <= LoadsSent
        BY <1>2, <1>5, <2>1, <4>1, ObeyedOne
      <4>. QED
        BY <2>1, <4>1, <4>2
    <3>3. CASE c.asks \notin {"launch", "load"}
      <4>1. /\ Underway("launch")' = Underway("launch") /\ launched' = launched
            /\ Underway("load")' = Underway("load") /\ starts' = starts
        BY <1>2, <1>4, <1>5, <1>7, <3>3
      <4>. QED
        BY <2>1, <4>1
    <3>. QED
      BY <3>1, <3>2, <3>3
  <2>. QED
    BY <1>1, <1>4, <1>6, <1>7, <2>2 DEF CommandsCounted
<1>8. CASE c.asks = "volume" /\ Volume
  BY <1>1, <1>2, <1>8, TellTypes, TellsMessages DEF Volume, receiver, history
<1>9. CASE c.asks = "stop" /\ Stop
  <2>1. Tell(StatusOf(NoApp)) \/ Tell(Says("other"))
    BY <1>9 DEF Stop
  <2>2. NoApp \in Apps
    BY <1>1 DEF NoApp, NoTransport
  <2>3. toDevice' \in Seq(Messages)
    BY <1>1, <2>1, <2>2, TellTypes, TellsMessages
  <2>4. app' \in {NoApp, app} /\ UNCHANGED <<joined, launched, starts>>
    BY <1>9 DEF Stop, EndsApp, history
  <2>. QED
    BY <1>1, <1>2, <2>3, <2>4 DEF NoApp
<1>10. CASE c.asks = "launch" /\ Launch
  <2>1. launched + 1 \in Apps
    BY <1>2, <1>4, <1>5, <1>10
  <2>. QED
    <3>1. Tell(StatusOf(app)) \/ Tell(StatusOf(launched + 1))
      BY <1>10 DEF Launch
    <3>2. toDevice' \in Seq(Messages)
      BY <1>1, <1>2, <2>1, <3>1, TellTypes, TellsMessages
    <3>3. /\ UNCHANGED <<joined, starts>>
          /\ \/ UNCHANGED <<app, launched>>
             \/ app' = launched + 1 /\ launched' = launched + 1
      BY <1>10 DEF Launch, history
    <3>4. app' \in 0 .. launched' /\ joined' \in Apps
      BY <1>1, <1>2, <3>3
    <3>5. launched' = launched \/ launched' = launched + 1
      BY <3>3
    <3>. QED
      BY <1>10, <3>2, <3>3, <3>4, <3>5
<1>11. CASE c.asks = "connect" /\ Join(c.transport)
  BY <1>1, <1>3, <1>11 DEF Join, history
<1>12. CASE c.asks = "load" /\ Load(c.transport)
  BY <1>1, <1>12, TellTypes, TellsMessages DEF Load, receiver, history
<1>. QED
  BY <1>3, <1>8, <1>9, <1>10, <1>11, <1>12

(* ... and those of everybody else. *)
LEMMA OthersCounted ==
  ASSUME SessionInv, CommandsCounted, OldFileBuffers \/ AnotherSender
  PROVE  CommandsCounted'
<1>1. /\ toCast \in Seq(Commands) /\ toDevice \in Seq(Messages)
      /\ tid \in Apps /\ joined \in Apps /\ app \in 0 .. launched
      /\ Underway("launch") <= LaunchesSent
      /\ launched + Underway("launch") <= 2 + LaunchesSent
      /\ starts + Underway("load") <= LoadsSent
  BY DEF CommandsCounted
<1>2. UNCHANGED <<tid, toCast, joined, starts, LaunchesSent, LoadsSent,
                  Underway("launch"), Underway("load")>>
  BY DEF OldFileBuffers, AnotherSender, sender, receiver, history, LaunchesSent, LoadsSent, Underway
<1>3. /\ launched \in Nat /\ Underway("launch") \in Nat /\ NoApp \in Apps
      /\ LaunchesSent \in 0 .. attempt /\ attempt \in Nat
  BY CountedTypes DEF NoApp, NoTransport
<1>4. CASE OldFileBuffers
  <2>1. toDevice' \in Seq(Messages) /\ UNCHANGED <<app, launched>>
    BY <1>1, <1>4, TellTypes, TellsMessages DEF OldFileBuffers, receiver
  <2>. QED
    BY <1>1, <1>2, <2>1 DEF CommandsCounted
<1>5. CASE AnotherSender
  <2>1. launched <= 1 /\ launched' = launched + 1 /\ app' = launched + 1
    BY <1>5 DEF AnotherSender
  <2>2. launched + 1 \in Apps
    BY <1>3, <2>1, RetriesAssumption DEF Apps
  <2>3. toDevice' \in Seq(Messages)
    BY <1>1, <1>5, <2>2, TellTypes, TellsMessages DEF AnotherSender
  <2>4. app' \in 0 .. launched' /\ launched' + Underway("launch") <= 2 + LaunchesSent
    BY <1>1, <1>3, <2>1
  <2>. QED
    BY <1>1, <1>2, <2>3, <2>4 DEF CommandsCounted
<1>. QED
  BY <1>4, <1>5

(* The bounds hold in every state of a cast. *)
THEOREM CountedInvariant == Spec => []CommandsCounted
<1>1. SessionInv /\ CommandsCounted /\ [Next]_vars => CommandsCounted'
  <2>1. CommandsCounted /\ UNCHANGED vars => CommandsCounted'
    BY DEF CommandsCounted, Underway, LaunchesSent, LoadsSent, vars, sender, receiver, history
  <2>. QED
    BY <2>1, SenderCounted, ObeyCounted, OthersCounted DEF Next
<1>. QED
  BY InitCounted, SessionInvariant, <1>1, PTL DEF Spec

Flags ==
  /\ open \in BOOLEAN /\ media \in BOOLEAN
  /\ stopEnds \in BOOLEAN /\ healthy \in BOOLEAN /\ busy \in BOOLEAN /\ misled \in BOOLEAN
  /\ plays \in {"nothing", "old", "ours"}

LEMMA FlagsKeep == Flags /\ [Next]_vars => Flags'
<1>. SUFFICES ASSUME Flags, [Next]_vars PROVE Flags'
  OBVIOUS
<1>. USE DEF Flags
<1>1. ASSUME AttemptFails PROVE Flags'
  BY <1>1 DEF AttemptFails, chosen
<1>2. CASE ConnectFails \/ SendFails \/ NoTransportId \/ LoadNotSent \/ NotConfirmed
  BY <1>1, <1>2 DEF ConnectFails, SendFails, NoTransportId, LoadNotSent, NotConfirmed
<1>3. CASE Connect \/ SendCommands \/ ReadTransport \/ SendLoad \/ TryAgain
  BY <1>3 DEF Connect, SendCommands, ReadTransport, SendLoad, TryAgain, receiver, chosen, history
<1>4. CASE ReadConfirmation
  BY <1>1, <1>4 DEF ReadConfirmation, sender, receiver, chosen, history
<1>5. CASE Obey
  <2>1. UNCHANGED <<sender, chosen, misled>>
    BY <1>5 DEF Obey, Volume, Stop, Launch, Join, Load, history
  <2>2. media' \in BOOLEAN /\ plays' \in {"nothing", "old", "ours"}
    BY <1>5 DEF Obey, Volume, Stop, EndsApp, Launch, Join, Load, receiver
  <2>. QED
    BY <2>1, <2>2 DEF sender, chosen
<1>6. CASE OldFileBuffers \/ AnotherSender
  BY <1>6 DEF OldFileBuffers, AnotherSender, sender, receiver, chosen, history
<1>7. CASE UNCHANGED vars
  BY <1>7 DEF vars, sender, receiver, chosen, history
<1>. QED
  BY <1>2, <1>3, <1>4, <1>5, <1>6, <1>7 DEF Next, SenderStep

LEMMA Types == SessionInv /\ CommandsCounted /\ Flags => TypeOK
<1>. SUFFICES ASSUME SessionInv, CommandsCounted, Flags PROVE TypeOK
  OBVIOUS
<1>1. /\ app \in Apps /\ launched \in Apps /\ starts \in Nat /\ attempt \in Nat
      /\ Underway("load") \in Nat /\ LoadsSent \in 0 .. attempt /\ MAX_RETRIES \in Nat
  BY CountedTypes
<1>2. starts + Underway("load") <= LoadsSent /\ attempt <= MAX_RETRIES
  BY DEF CommandsCounted, SessionInv
<1>3. starts \in 0 .. MAX_RETRIES
  BY <1>1, <1>2
<1>. QED
  BY <1>1, <1>3 DEF SessionInv, CommandsCounted, Flags, TypeOK

(* Every variable has its type for any number of attempts: no more sessions
   than one for each attempt and two besides, no more starts of our file than
   attempts (cast.py:126-155, discovery.py:141-161). *)
THEOREM SessionTypes == Spec => []TypeOK
<1>1. Init => Flags
  BY DEF Init, Flags
<1>2. Spec => []Flags
  BY <1>1, FlagsKeep, PTL DEF Spec
<1>. QED
  BY <1>2, SessionInvariant, CountedInvariant, Types, PTL
-----------------------------------------------------------------------------
(* A Chromecast in order. *)

InAttempt == pc \in {"transport", "load", "confirm"}

(* What this attempt has sent so far, and how much of it was obeyed. *)
Due ==
  IF pc = "confirm"
  THEN <<Command("volume", NoTransport), Command("stop", NoTransport),
         Command("launch", NoTransport), Command("connect", tid), Command("load", tid)>>
  ELSE IF InAttempt THEN Opening ELSE <<>>
Obeyed == Len(Due) - Len(toCast)

(* The attempts that cannot fail: nothing runs that a status could name in
   vain, or it is the receiver which an attempt before has launched. *)
Sure == ~busy \/ (~stopEnds /\ attempt > 1)

Confirmed == \E i \in 1 .. Len(toDevice) : toDevice[i].says = "playing"

QueueInOrder ==
  /\ Len(toCast) <= Len(Due)
  /\ \A i \in 1 .. Len(toCast) : toCast[i] = Due[Obeyed + i]

Quiet ==
  /\ InAttempt \/ pc = "command" => open
  /\ pc \in {"connect", "command", "pause", "failed"} => toDevice = <<>>
  /\ \A i \in 1 .. Len(toDevice) : toDevice[i].says # "load failed"

PlayedOnce ==
  /\ starts = 0 \/ (starts = 1 /\ toCast = <<>> /\ (pc = "ok" \/ (pc = "confirm" /\ Confirmed)))
  /\ Confirmed \/ pc = "ok" => starts = 1

ReceiverReady ==
  /\ InAttempt /\ Obeyed >= 3 => app # NoApp /\ media
  /\ pc = "pause" => app # NoApp /\ media
  /\ pc = "confirm" /\ Obeyed = 4 /\ tid = app => joined = app
  /\ pc = "failed" => attempt = MAX_RETRIES

(* In a sure attempt all that names a session names the one that will play. *)
SureAttempt ==
  Sure =>
    /\ pc \notin {"pause", "failed"}
    /\ busy => app # NoApp /\ media
    /\ ~busy /\ (pc \in {"connect", "command"} \/ (InAttempt /\ Obeyed < 3))
         => app = NoApp /\ ~media
    /\ \A i \in 1 .. Len(toDevice) : toDevice[i].transport # NoTransport =>
         toDevice[i].transport = app /\ (busy \/ pc = "ok" \/ Obeyed >= 3)
    /\ pc \in {"load", "confirm"} => tid = app /\ (busy \/ Obeyed >= 3)
    /\ pc = "transport" /\ toCast = <<>> =>
         \E i \in 1 .. Len(toDevice) : toDevice[i].transport # NoTransport
    /\ pc = "confirm" /\ toCast = <<>> => starts = 1

HealthyInv ==
  healthy => QueueInOrder /\ Quiet /\ PlayedOnce /\ ReceiverReady /\ SureAttempt
-----------------------------------------------------------------------------
LEMMA DueForms ==
  /\ pc = "confirm" =>
       /\ Len(Due) = 5
       /\ Due[1].asks = "volume" /\ Due[2].asks = "stop" /\ Due[3].asks = "launch"
       /\ Due[4] = Command("connect", tid) /\ Due[5] = Command("load", tid)
  /\ pc \in {"transport", "load"} =>
       /\ Len(Due) = 3
       /\ Due[1].asks = "volume" /\ Due[2].asks = "stop" /\ Due[3].asks = "launch"
  /\ ~InAttempt => Len(Due) = 0
  /\ pc \in {"transport", "load"} => Due = Opening
<1>1. CASE pc = "confirm"
  BY <1>1 DEF Due, Command, InAttempt
<1>2. CASE pc \in {"transport", "load"}
  BY <1>2 DEF Due, Opening, Command, InAttempt
<1>3. CASE ~InAttempt
  BY <1>3 DEF Due, InAttempt
<1>. QED
  BY <1>1, <1>2, <1>3 DEF InAttempt

LEMMA InitHealthyInv == Init => HealthyInv
<1>. SUFFICES ASSUME Init, healthy PROVE QueueInOrder /\ Quiet /\ PlayedOnce /\ ReceiverReady /\ SureAttempt
  BY DEF HealthyInv
<1>1. /\ pc = "connect" /\ attempt = 1 /\ open = FALSE /\ Len(toCast) = 0 /\ toDevice = <<>>
      /\ Len(toDevice) = 0 /\ starts = 0 /\ (busy <=> app # NoApp) /\ (media => app # NoApp)
  BY DEF Init
<1>2. Len(Due) = 0 /\ ~InAttempt
  BY <1>1, DueForms DEF InAttempt
<1>3. QueueInOrder /\ Quiet
  BY <1>1, <1>2 DEF QueueInOrder, Quiet
<1>4. PlayedOnce /\ ReceiverReady
  BY <1>1, <1>2 DEF PlayedOnce, ReceiverReady, Confirmed
<1>5. SureAttempt
  <2>1. ~(attempt > 1)
    BY <1>1
  <2>. QED
    BY <1>1, <1>2, <2>1 DEF SureAttempt, Sure
<1>. QED
  BY <1>3, <1>4, <1>5

(* An attempt of a healthy cast fails only for want of anything to read, and
   no sure attempt does. *)
LEMMA VainAttempt ==
  ASSUME SessionInv, HealthyInv, healthy, AttemptFails, UNCHANGED toCast,
         pc \in {"transport", "confirm"}, toDevice = <<>>, toCast = <<>>
  PROVE  HealthyInv'
<1>. USE DEF InAttempt
<1>1. Len(toCast) = 0 /\ Len(toDevice) = 0 /\ Obeyed >= 3
  BY DueForms DEF Obeyed
<1>2. ~Confirmed /\ starts = 0
  BY <1>1 DEF Confirmed, HealthyInv, PlayedOnce
<1>3. ~Sure
  BY <1>1, <1>2 DEF HealthyInv, SureAttempt
<1>4. app # NoApp /\ media
  BY <1>1 DEF HealthyInv, ReceiverReady
<1>5. /\ pc' \in {"pause", "failed"} /\ (pc' = "failed" => attempt' = MAX_RETRIES)
      /\ open' = FALSE /\ toDevice' = <<>> /\ Len(toDevice') = 0 /\ Len(toCast') = 0
      /\ UNCHANGED <<attempt, app, media, starts, healthy, busy, stopEnds>>
  BY <1>1, RetriesAssumption DEF AttemptFails, SessionInv, chosen
<1>6. Len(Due)' = 0
  BY <1>5, DueForms DEF Due
<1>7. ~Sure'
  BY <1>3, <1>5 DEF Sure
<1>. QED
  BY <1>2, <1>4, <1>5, <1>6, <1>7
  DEF HealthyInv, QueueInOrder, Quiet, PlayedOnce, ReceiverReady, SureAttempt, Confirmed
(* What the device has yet to read, after it read a message. *)
LEMMA AfterReading ==
  ASSUME toDevice \in Seq(Messages), toDevice # <<>>, toDevice' = Tail(toDevice)
  PROVE  /\ Len(toDevice) \in Nat /\ Len(toDevice) > 0 /\ Len(toDevice') = Len(toDevice) - 1
         /\ Head(toDevice) = toDevice[1]
         /\ \A i \in 1 .. Len(toDevice') : i + 1 \in 1 .. Len(toDevice) /\ toDevice'[i] = toDevice[i + 1]
         /\ \A i \in 1 .. Len(toDevice) :
              i = 1 \/ (i - 1 \in 1 .. Len(toDevice') /\ toDevice'[i - 1] = toDevice[i])
<1>1. /\ Len(toDevice) \in Nat /\ Len(toDevice) > 0 /\ Len(Tail(toDevice)) = Len(toDevice) - 1
      /\ Head(toDevice) = toDevice[1]
  OBVIOUS
<1>2. \A i \in 1 .. Len(Tail(toDevice)) :
        i + 1 \in 1 .. Len(toDevice) /\ Tail(toDevice)[i] = toDevice[i + 1]
  OBVIOUS
<1>3. ASSUME NEW i \in 1 .. Len(toDevice), i # 1
      PROVE  i - 1 \in 1 .. Len(Tail(toDevice)) /\ Tail(toDevice)[i - 1] = toDevice[i]
  <2>1. i - 1 \in 1 .. Len(Tail(toDevice)) /\ (i - 1) + 1 = i
    BY <1>1, <1>3
  <2>. QED
    BY <1>2, <2>1
<1>. QED
  BY <1>1, <1>2, <1>3

(* Nothing is under way before the first command and after the last word. *)
LEMMA NothingSent ==
  ASSUME CommandsCounted, QueueInOrder, ~InAttempt
  PROVE  toCast = <<>> /\ Len(toCast) = 0
<1>1. Len(Due) = 0 /\ toCast \in Seq(Commands)
  BY DueForms DEF CommandsCounted
<1>. QED
  BY <1>1 DEF QueueInOrder

LEMMA ConnectHealthy ==
  ASSUME CommandsCounted, HealthyInv, healthy, Connect
  PROVE  HealthyInv'
<1>1. /\ pc = "connect" /\ pc' = "command" /\ open' = TRUE
      /\ UNCHANGED <<attempt, tid, toCast, toDevice, app, media, joined, starts,
                     healthy, busy, stopEnds>>
  BY DEF Connect, receiver, chosen, history
<1>2. ~InAttempt /\ ~InAttempt' /\ (Sure' <=> Sure) /\ (Confirmed' <=> Confirmed)
  BY <1>1 DEF InAttempt, Sure, Confirmed
<1>3. Len(toCast) = 0
  BY <1>2, NothingSent DEF HealthyInv
<1>4. QueueInOrder'
  <2>1. Len(Due)' = 0 /\ Len(toCast)' = 0
    BY <1>1, <1>3 DEF Due, InAttempt
  <2>. QED
    BY <2>1 DEF QueueInOrder
<1>5. Quiet' /\ PlayedOnce' /\ ReceiverReady'
  <2>1. Quiet'
    BY <1>1, <1>2 DEF HealthyInv, Quiet
  <2>2. PlayedOnce'
    BY <1>1, <1>2 DEF HealthyInv, PlayedOnce
  <2>3. ReceiverReady'
    BY <1>1, <1>2 DEF ReceiverReady
  <2>. QED
    BY <2>1, <2>2, <2>3
<1>6. SureAttempt'
  <2>0. Quiet
    BY DEF HealthyInv
  <2>1. toDevice = <<>>
    BY <1>1, <2>0 DEF Quiet
  <2>. QED
    BY <1>1, <1>2, <2>1 DEF HealthyInv, SureAttempt
<1>. QED
  BY <1>4, <1>5, <1>6 DEF HealthyInv

LEMMA SendCommandsHealthy ==
  ASSUME SessionInv, CommandsCounted, HealthyInv, healthy, SendCommands
  PROVE  HealthyInv'
<1>1. /\ pc = "command" /\ pc' = "transport" /\ toCast' = toCast \o Opening
      /\ UNCHANGED <<attempt, tid, open, toDevice, app, media, joined, starts,
                     healthy, busy, stopEnds>>
  BY DEF SendCommands, receiver, chosen, history
<1>2. ~InAttempt /\ InAttempt' /\ (Sure' <=> Sure) /\ (Confirmed' <=> Confirmed)
  BY <1>1 DEF InAttempt, Sure, Confirmed
<1>3. toCast' = Opening /\ Len(Opening) = 3 /\ Len(toCast') = 3
  <2>1. toCast = <<>>
    BY <1>2, NothingSent DEF HealthyInv
  <2>. QED
    BY <1>1, <2>1 DEF Opening
<1>4. Due' = Opening /\ Obeyed' = 0
  BY <1>1, <1>2, <1>3 DEF Due, Obeyed
<1>5. QueueInOrder'
  BY <1>3, <1>4 DEF QueueInOrder
<1>6. toDevice = <<>> /\ Len(toDevice) = 0
  <2>0. Quiet
    BY DEF HealthyInv
  <2>1. toDevice = <<>>
    BY <1>1, <2>0 DEF Quiet
  <2>. QED
    BY <2>1
<1>7. Quiet' /\ PlayedOnce' /\ ReceiverReady'
  <2>1. starts = 0 /\ ~Confirmed
    BY <1>1, <1>6 DEF HealthyInv, PlayedOnce, Confirmed
  <2>. QED
    BY <1>1, <1>2, <1>4, <1>6, <2>1 DEF HealthyInv, Quiet, PlayedOnce, ReceiverReady
<1>8. SureAttempt'
  <2>1. toCast' # <<>>
    BY <1>3
  <2>. QED
    BY <1>1, <1>2, <1>4, <1>6, <2>1 DEF HealthyInv, SureAttempt
<1>. QED
  BY <1>5, <1>7, <1>8 DEF HealthyInv

LEMMA ReadTransportHealthy ==
  ASSUME SessionInv, CommandsCounted, HealthyInv, healthy, ReadTransport
  PROVE  HealthyInv'
<1>1. /\ pc = "transport" /\ pc' \in {"transport", "load"}
      /\ toDevice # <<>> /\ toDevice' = Tail(toDevice)
      /\ UNCHANGED <<attempt, open, toCast, app, media, joined, starts, healthy, busy, stopEnds>>
  BY DEF ReadTransport, receiver, chosen, history
<1>2. InAttempt /\ InAttempt' /\ (Sure' <=> Sure)
  BY <1>1 DEF InAttempt, Sure
<1>3. Due' = Due /\ Obeyed' = Obeyed
  BY <1>1, <1>2 DEF Due, Obeyed
<1>4. QueueInOrder'
  BY <1>1, <1>3 DEF HealthyInv, QueueInOrder
<1>5. /\ Len(toDevice) \in Nat /\ Len(toDevice) > 0 /\ Head(toDevice) = toDevice[1]
      /\ \A i \in 1 .. Len(toDevice') : i + 1 \in 1 .. Len(toDevice) /\ toDevice'[i] = toDevice[i + 1]
      /\ \A i \in 1 .. Len(toDevice) :
           i = 1 \/ (i - 1 \in 1 .. Len(toDevice') /\ toDevice'[i - 1] = toDevice[i])
  BY <1>1, AfterReading DEF CommandsCounted
<1>6. starts = 0 /\ ~Confirmed /\ ~Confirmed'
  <2>1. starts = 0 /\ ~Confirmed
    BY <1>1 DEF HealthyInv, PlayedOnce
  <2>. QED
    BY <1>5, <2>1 DEF Confirmed
<1>7. Quiet' /\ PlayedOnce' /\ ReceiverReady'
  <2>1. Quiet'
    <3>1. InAttempt' \/ pc' = "command" => open'
      BY <1>1, <1>2 DEF HealthyInv, Quiet
    <3>2. \A i \in 1 .. Len(toDevice') : toDevice'[i].says # "load failed"
      BY <1>5 DEF HealthyInv, Quiet
    <3>. QED
      BY <1>1, <3>1, <3>2 DEF Quiet
  <2>2. PlayedOnce'
    BY <1>1, <1>6 DEF PlayedOnce
  <2>3. ReceiverReady'
    BY <1>1, <1>2, <1>3 DEF HealthyInv, ReceiverReady
  <2>. QED
    BY <2>1, <2>2, <2>3
<1>8. SureAttempt'
  <2>. SUFFICES ASSUME Sure PROVE SureAttempt'
    BY <1>2 DEF SureAttempt
  <2>1. /\ busy => app # NoApp /\ media
        /\ ~busy /\ Obeyed < 3 => app = NoApp /\ ~media
        /\ \A i \in 1 .. Len(toDevice) : toDevice[i].transport # NoTransport =>
             toDevice[i].transport = app /\ (busy \/ Obeyed >= 3)
        /\ toCast = <<>> => \E i \in 1 .. Len(toDevice) : toDevice[i].transport # NoTransport
    BY <1>1, <1>2 DEF HealthyInv, SureAttempt
  <2>2. 1 \in 1 .. Len(toDevice)
    BY <1>5
  <2>3. pc' = "load" => tid' = app' /\ (busy' \/ Obeyed' >= 3)
    <3>1. pc' = "load" => toDevice[1].transport # NoTransport /\ tid' = toDevice[1].transport
      BY <1>1, <1>5 DEF ReadTransport
    <3>. QED
      BY <1>1, <1>3, <2>1, <2>2, <3>1
  <2>4. \A i \in 1 .. Len(toDevice') : toDevice'[i].transport # NoTransport =>
          toDevice'[i].transport = app' /\ (busy' \/ Obeyed' >= 3)
    BY <1>1, <1>3, <1>5, <2>1
  <2>5. pc' = "transport" /\ toCast' = <<>> =>
          \E i \in 1 .. Len(toDevice') : toDevice'[i].transport # NoTransport
    <3>1. pc' = "transport" => toDevice[1].transport = NoTransport
      BY <1>1, <1>5 DEF ReadTransport
    <3>. QED
      BY <1>1, <1>5, <2>1, <3>1
  <2>. QED
    BY <1>1, <1>3, <2>1, <2>3, <2>4, <2>5 DEF SureAttempt
<1>. QED
  BY <1>4, <1>7, <1>8 DEF HealthyInv

LEMMA TwoMore ==
  ASSUME NEW S, NEW s \in Seq(S), NEW a \in S, NEW b \in S
  PROVE  /\ Len(Append(Append(s, a), b)) = Len(s) + 2
         /\ \A i \in 1 .. Len(s) : Append(Append(s, a), b)[i] = s[i]
         /\ Append(Append(s, a), b)[Len(s) + 1] = a
         /\ Append(Append(s, a), b)[Len(s) + 2] = b
<1>1. PICK t \in Seq(S) : t = Append(s, a) /\ Len(t) = Len(s) + 1
                         /\ t[Len(s) + 1] = a /\ \A i \in 1 .. Len(s) : t[i] = s[i]
  <2>1. /\ Append(s, a) \in Seq(S) /\ Len(Append(s, a)) = Len(s) + 1
        /\ Append(s, a)[Len(s) + 1] = a
        /\ \A i \in 1 .. Len(s) : Append(s, a)[i] = s[i]
    OBVIOUS
  <2>. QED
    BY <2>1
<1>2. /\ Len(Append(t, b)) = Len(t) + 1 /\ Append(t, b)[Len(t) + 1] = b
      /\ \A i \in 1 .. Len(t) : Append(t, b)[i] = t[i]
  OBVIOUS
<1>3. Len(s) \in Nat /\ (Len(s) + 1) + 1 = Len(s) + 2 /\ Len(s) + 1 \in 1 .. Len(t)
      /\ \A i \in 1 .. Len(s) : i \in 1 .. Len(t)
  BY <1>1
<1>. QED
  BY <1>1, <1>2, <1>3

LEMMA SendLoadHealthy ==
  ASSUME SessionInv, CommandsCounted, HealthyInv, healthy, SendLoad
  PROVE  HealthyInv'
<1>1. /\ pc = "load" /\ pc' = "confirm"
      /\ toCast' = toCast \o <<Command("connect", tid), Command("load", tid)>>
      /\ UNCHANGED <<attempt, tid, open, toDevice, app, media, joined, starts,
                     healthy, busy, stopEnds>>
  BY DEF SendLoad, receiver, chosen, history
<1>2. InAttempt /\ InAttempt' /\ (Sure' <=> Sure) /\ (Confirmed' <=> Confirmed)
  BY <1>1 DEF InAttempt, Sure, Confirmed
<1>3. /\ Len(Due) = 3 /\ Len(Due)' = 5
      /\ Due'[1] = Due[1] /\ Due'[2] = Due[2] /\ Due'[3] = Due[3]
      /\ Due'[4] = Command("connect", tid) /\ Due'[5] = Command("load", tid)
  BY <1>1, <1>2 DEF Due, Opening
<1>4. /\ Len(toCast) \in 0 .. 3 /\ Len(toCast') = Len(toCast) + 2
      /\ \A i \in 1 .. Len(toCast) : toCast'[i] = toCast[i]
      /\ toCast'[Len(toCast) + 1] = Command("connect", tid)
      /\ toCast'[Len(toCast) + 2] = Command("load", tid)
  <2>1. /\ toCast \in Seq(Commands) /\ Len(toCast) <= 3
        /\ Command("connect", tid) \in Commands /\ Command("load", tid) \in Commands
    BY <1>3, CommandTypes DEF HealthyInv, QueueInOrder, CommandsCounted
  <2>2. toCast' = Append(Append(toCast, Command("connect", tid)), Command("load", tid))
    BY <1>1, <2>1, Concats
  <2>3. Len(toCast) \in 0 .. 3
    <3>1. PICK n \in Nat : n = Len(toCast)
      BY <2>1
    <3>2. n <= 3
      BY <2>1, <3>1
    <3>3. n \in 0 .. 3
      BY <3>2
    <3>. QED
      BY <3>1, <3>3
  <2>. QED
    BY <2>1, <2>2, <2>3, TwoMore
<1>5. Obeyed = 3 - Len(toCast) /\ Obeyed' = 3 - Len(toCast)
  BY <1>3, <1>4 DEF Obeyed
<1>6. QueueInOrder'
  <2>1. \A i \in 1 .. Len(toCast) : toCast[i] = Due[Obeyed + i]
    BY DEF HealthyInv, QueueInOrder
  <2>2. ASSUME NEW i \in 1 .. Len(toCast') PROVE toCast'[i] = Due'[Obeyed' + i]
    <3>1. CASE i \in 1 .. Len(toCast)
      <4>1. Obeyed' + i \in {1, 2, 3} /\ Obeyed' = Obeyed
        BY <1>4, <1>5, <3>1
      <4>. QED
        BY <1>3, <1>4, <2>1, <3>1, <4>1
    <3>2. CASE i = Len(toCast) + 1
      <4>1. Obeyed' + i = 4
        BY <1>4, <1>5, <3>2
      <4>. QED
        BY <1>3, <1>4, <3>2, <4>1
    <3>3. CASE i = Len(toCast) + 2
      <4>1. Obeyed' + i = 5
        BY <1>4, <1>5, <3>3
      <4>. QED
        BY <1>3, <1>4, <3>3, <4>1
    <3>. QED
      BY <1>4, <3>1, <3>2, <3>3
  <2>3. Len(toCast') <= Len(Due)'
    BY <1>3, <1>4
  <2>. QED
    BY <2>2, <2>3 DEF QueueInOrder
<1>7. Obeyed' = Obeyed /\ Obeyed' <= 3 /\ Obeyed \in Nat /\ toCast' # <<>>
  BY <1>4, <1>5
<1>8. Quiet' /\ PlayedOnce' /\ ReceiverReady'
  <2>1. Quiet'
    BY <1>1, <1>2 DEF HealthyInv, Quiet
  <2>2. PlayedOnce'
    BY <1>1, <1>2 DEF HealthyInv, PlayedOnce
  <2>3. ReceiverReady'
    <3>1. Obeyed' # 4
      BY <1>7
    <3>. QED
      BY <1>1, <1>2, <1>7, <3>1 DEF HealthyInv, ReceiverReady
  <2>. QED
    BY <2>1, <2>2, <2>3
<1>9. SureAttempt'
  BY <1>1, <1>2, <1>7 DEF HealthyInv, SureAttempt
<1>. QED
  BY <1>6, <1>8, <1>9 DEF HealthyInv

LEMMA ReadConfirmationHealthy ==
  ASSUME SessionInv, CommandsCounted, HealthyInv, healthy, ReadConfirmation
  PROVE  HealthyInv'
<1>. USE DEF InAttempt
<1>1. /\ pc = "confirm" /\ toDevice # <<>> /\ toDevice \in Seq(Messages)
      /\ UNCHANGED <<attempt, tid, toCast, app, media, starts, healthy, busy, stopEnds>>
  BY DEF ReadConfirmation, AttemptFails, CommandsCounted, sender, receiver, chosen, history
<1>2. Len(toDevice) \in Nat /\ 1 \in 1 .. Len(toDevice) /\ Head(toDevice) = toDevice[1]
  BY <1>1
<1>3. Sure' <=> Sure
  BY <1>1 DEF Sure
<1>4. CASE Head(toDevice).says = "playing"
  <2>1. pc' = "ok" /\ open' = FALSE /\ toDevice' = <<>>
    BY <1>4 DEF ReadConfirmation
  <2>2. starts = 1 /\ toCast = <<>>
    BY <1>1, <1>2, <1>4 DEF HealthyInv, PlayedOnce, Confirmed
  <2>3. Len(Due)' = 0 /\ Len(toCast)' = 0 /\ Len(toDevice') = 0
    BY <1>1, <2>1, <2>2 DEF Due
  <2>4. QueueInOrder'
    BY <2>3 DEF QueueInOrder
  <2>5. Quiet' /\ PlayedOnce' /\ ReceiverReady'
    BY <1>1, <2>1, <2>2, <2>3 DEF Quiet, PlayedOnce, ReceiverReady
  <2>6. SureAttempt'
    BY <1>1, <1>3, <2>1, <2>3 DEF HealthyInv, SureAttempt
  <2>. QED
    BY <2>4, <2>5, <2>6 DEF HealthyInv
<1>5. CASE Head(toDevice).says = "load failed"
  BY <1>1, <1>2, <1>5 DEF HealthyInv, Quiet
<1>6. CASE /\ Head(toDevice).says # "playing" /\ toDevice' = Tail(toDevice)
           /\ UNCHANGED <<sender, receiver, chosen, history>>
  <2>1. UNCHANGED <<pc, open, joined>>
    BY <1>6 DEF sender, receiver
  <2>2. /\ \A i \in 1 .. Len(toDevice') : i + 1 \in 1 .. Len(toDevice) /\ toDevice'[i] = toDevice[i + 1]
        /\ \A i \in 1 .. Len(toDevice) :
             i = 1 \/ (i - 1 \in 1 .. Len(toDevice') /\ toDevice'[i - 1] = toDevice[i])
    BY <1>1, <1>6, AfterReading
  <2>3. Due' = Due /\ Obeyed' = Obeyed
    BY <1>1, <2>1 DEF Due, Obeyed
  <2>4. QueueInOrder'
    BY <1>1, <2>3 DEF HealthyInv, QueueInOrder
  <2>5. Confirmed' <=> Confirmed
    <3>1. Confirmed' => Confirmed
      BY <2>2 DEF Confirmed
    <3>2. Confirmed => Confirmed'
      BY <1>2, <1>6, <2>2 DEF Confirmed
    <3>. QED
      BY <3>1, <3>2
  <2>6. Quiet'
    <3>1. \A i \in 1 .. Len(toDevice') : toDevice'[i].says # "load failed"
      BY <2>2 DEF HealthyInv, Quiet
    <3>. QED
      BY <1>1, <2>1, <3>1 DEF HealthyInv, Quiet
  <2>7. PlayedOnce' /\ ReceiverReady'
    BY <1>1, <2>1, <2>3, <2>5 DEF HealthyInv, PlayedOnce, ReceiverReady
  <2>8. SureAttempt'
    <3>. SUFFICES ASSUME Sure PROVE SureAttempt'
      BY <1>3 DEF SureAttempt
    <3>1. \A i \in 1 .. Len(toDevice') : toDevice'[i].transport # NoTransport =>
            toDevice'[i].transport = app /\ (busy \/ Obeyed >= 3)
      BY <1>1, <2>2 DEF HealthyInv, SureAttempt
    <3>. QED
      BY <1>1, <2>1, <2>3, <3>1 DEF HealthyInv, SureAttempt
  <2>. QED
    BY <2>4, <2>6, <2>7, <2>8 DEF HealthyInv
<1>. QED
  BY <1>4, <1>5, <1>6 DEF ReadConfirmation

LEMMA TryAgainHealthy ==
  ASSUME SessionInv, CommandsCounted, HealthyInv, healthy, TryAgain
  PROVE  HealthyInv'
<1>1. /\ pc = "pause" /\ pc' = "connect" /\ attempt' = attempt + 1
      /\ UNCHANGED <<tid, open, toCast, toDevice, app, media, joined, starts,
                     healthy, busy, stopEnds>>
  BY DEF TryAgain, receiver, chosen, history
<1>2. ~InAttempt /\ ~InAttempt' /\ (Confirmed' <=> Confirmed)
  BY <1>1 DEF InAttempt, Confirmed
<1>3. QueueInOrder'
  <2>1. Len(toCast) = 0
    BY <1>2, NothingSent DEF HealthyInv
  <2>2. Len(Due)' = 0 /\ Len(toCast)' = 0
    BY <1>1, <2>1 DEF Due, InAttempt
  <2>. QED
    BY <2>2 DEF QueueInOrder
<1>4. toDevice = <<>> /\ Len(toDevice) = 0
  <2>1. toDevice = <<>>
    BY <1>1 DEF HealthyInv, Quiet
  <2>. QED
    BY <2>1
<1>5. Quiet' /\ PlayedOnce' /\ ReceiverReady'
  <2>1. Quiet'
    BY <1>1, <1>2, <1>4 DEF Quiet
  <2>2. PlayedOnce'
    BY <1>1, <1>2 DEF HealthyInv, PlayedOnce
  <2>3. ReceiverReady'
    BY <1>1, <1>2 DEF ReceiverReady
  <2>. QED
    BY <2>1, <2>2, <2>3
<1>6. SureAttempt'
  <2>1. app # NoApp /\ media
    BY <1>1 DEF HealthyInv, ReceiverReady
  <2>2. busy
    BY <1>1 DEF HealthyInv, SureAttempt, Sure
  <2>. QED
    BY <1>1, <1>2, <1>4, <2>1, <2>2 DEF SureAttempt
<1>. QED
  BY <1>3, <1>5, <1>6 DEF HealthyInv

(* cast_url keeps the order of a cast to a Chromecast in order. *)
LEMMA SenderHealthy ==
  ASSUME SessionInv, CommandsCounted, HealthyInv, healthy, SenderStep
  PROVE  HealthyInv'
<1>1. CASE NoTransportId \/ NotConfirmed
  <2>1. /\ pc \in {"transport", "confirm"} /\ toDevice = <<>> /\ toCast = <<>>
        /\ AttemptFails /\ UNCHANGED toCast
    BY <1>1 DEF NoTransportId, NotConfirmed, WaitedInVain
  <2>. QED
    BY <2>1, VainAttempt
<1>. QED
  BY <1>1, ConnectHealthy, SendCommandsHealthy, ReadTransportHealthy, SendLoadHealthy,
     ReadConfirmationHealthy, TryAgainHealthy
  DEF SenderStep, ConnectFails, SendFails, LoadNotSent

(* What the Chromecast obeys is the next of the commands in order. *)
LEMMA NextCommand ==
  ASSUME SessionInv, CommandsCounted, HealthyInv, healthy, Obey
  PROVE  /\ InAttempt /\ open /\ Due' = Due /\ Obeyed' = Obeyed + 1 /\ QueueInOrder'
         /\ Obeyed \in 0 .. 4 /\ (Obeyed >= 3 => pc = "confirm")
         /\ Head(toCast) = Due[Obeyed + 1] /\ Len(toCast') = Len(Due) - Obeyed - 1
         /\ starts = 0 /\ ~Confirmed /\ (Sure' <=> Sure)
         /\ UNCHANGED <<pc, attempt, tid, open, healthy, busy, stopEnds>>
<1>1. /\ toCast # <<>> /\ toCast' = Tail(toCast) /\ toCast \in Seq(Commands)
      /\ UNCHANGED <<pc, attempt, tid, open, healthy, busy, stopEnds>>
  BY DEF Obey, CommandsCounted, sender, chosen
<1>2. /\ Len(toCast) \in Nat /\ Len(toCast) > 0 /\ Head(toCast) = toCast[1]
      /\ Len(Tail(toCast)) = Len(toCast) - 1
      /\ \A i \in 1 .. Len(Tail(toCast)) : Tail(toCast)[i] = toCast[i + 1]
  BY <1>1
<1>3. Len(toCast) <= Len(Due) /\ \A i \in 1 .. Len(toCast) : toCast[i] = Due[Obeyed + i]
  BY DEF HealthyInv, QueueInOrder
<1>4. InAttempt /\ (Len(Due) = 3 \/ (Len(Due) = 5 /\ pc = "confirm"))
  BY <1>2, <1>3, DueForms DEF InAttempt
<1>5. Obeyed \in 0 .. 4 /\ (Obeyed >= 3 => pc = "confirm") /\ Obeyed = Len(Due) - Len(toCast)
  <2>1. PICK n \in Nat, d \in {3, 5} : n = Len(toCast) /\ d = Len(Due) /\ (d = 5 => pc = "confirm")
    BY <1>2, <1>4
  <2>2. n > 0 /\ n <= d
    BY <1>2, <1>3, <2>1
  <2>3. d - n \in 0 .. 4 /\ (d - n >= 3 => d = 5)
    BY <2>2
  <2>. QED
    BY <2>1, <2>3 DEF Obeyed
<1>6. Due' = Due
  BY <1>1 DEF Due, InAttempt
<1>7. Obeyed' = Obeyed + 1 /\ Len(toCast') = Len(Due) - Obeyed - 1
  BY <1>1, <1>2, <1>4, <1>5, <1>6 DEF Obeyed
<1>8. QueueInOrder'
  <2>1. Len(toCast') <= Len(Due)'
    BY <1>1, <1>2, <1>3, <1>4, <1>6
  <2>2. ASSUME NEW i \in 1 .. Len(toCast') PROVE toCast'[i] = Due'[Obeyed' + i]
    <3>1. i + 1 \in 1 .. Len(toCast) /\ Obeyed' + i = Obeyed + (i + 1)
      <4>1. /\ Len(toCast') = Len(toCast) - 1 /\ Len(toCast) \in Nat
            /\ Obeyed \in Nat /\ Obeyed' = Obeyed + 1
        <5>1. Obeyed \in Nat /\ Obeyed' = Obeyed + 1
          BY <1>5, <1>7
        <5>2. Len(toCast') = Len(toCast) - 1 /\ Len(toCast) \in Nat
          BY <1>1, <1>2
        <5>. QED
          BY <5>1, <5>2
      <4>. QED
        BY <4>1
    <3>. QED
      BY <1>1, <1>2, <1>3, <1>6, <3>1
  <2>. QED
    BY <2>1, <2>2 DEF QueueInOrder
<1>9. Head(toCast) = Due[Obeyed + 1]
  <2>1. 1 \in 1 .. Len(toCast)
    BY <1>2
  <2>. QED
    BY <1>2, <1>3, <2>1
<1>10. open
  BY <1>4 DEF HealthyInv, Quiet
<1>11. starts = 0 /\ ~Confirmed
  BY <1>1, <1>4 DEF HealthyInv, PlayedOnce, InAttempt
<1>12. Sure' <=> Sure
  BY <1>1 DEF Sure
<1>. QED
  BY <1>1, <1>4, <1>5, <1>6, <1>7, <1>8, <1>9, <1>10, <1>11, <1>12

LEMMA Told ==
  ASSUME toDevice \in Seq(Messages), open, NEW m \in Messages, Tell(m)
  PROVE  /\ Len(toDevice) \in Nat /\ Len(toDevice') = Len(toDevice) + 1
         /\ toDevice'[Len(toDevice) + 1] = m
         /\ \A i \in 1 .. Len(toDevice) : toDevice'[i] = toDevice[i]
BY DEF Tell

(* A Chromecast in order that answers with a status, or with anything else that
   is no word on the LOAD. *)
LEMMA AnswerHealthy ==
  ASSUME SessionInv, CommandsCounted, HealthyInv, healthy, Obey,
         NEW m \in Messages, Tell(m), m.says \in {"status", "other"},
         UNCHANGED starts, ReceiverReady',
         Sure => /\ busy => app' # NoApp /\ media' /\ app' = app
                 /\ ~busy /\ Obeyed + 1 < 3 => app' = NoApp /\ ~media'
                 /\ ~busy => Obeyed < 3
                 /\ m.transport # NoTransport => m.transport = app' /\ (busy \/ Obeyed + 1 >= 3)
                 /\ Obeyed = 2 => m.transport # NoTransport
                 /\ Obeyed # 4
  PROVE  HealthyInv'
<1>1. /\ InAttempt /\ open /\ Due' = Due /\ Obeyed' = Obeyed + 1 /\ QueueInOrder'
      /\ Obeyed \in 0 .. 4 /\ (Obeyed >= 3 => pc = "confirm")
      /\ Len(toCast') = Len(Due) - Obeyed - 1
      /\ starts = 0 /\ ~Confirmed /\ (Sure' <=> Sure)
      /\ UNCHANGED <<pc, attempt, tid, open, healthy, busy, stopEnds>>
  BY NextCommand
<1>2. /\ Len(toDevice) \in Nat /\ Len(toDevice') = Len(toDevice) + 1
      /\ toDevice'[Len(toDevice) + 1] = m
      /\ \A i \in 1 .. Len(toDevice) : toDevice'[i] = toDevice[i]
  BY <1>1, Told DEF CommandsCounted
<1>3. \A i \in 1 .. Len(toDevice') : i \in 1 .. Len(toDevice) \/ toDevice'[i] = m
  BY <1>2
<1>4. InAttempt' /\ pc \notin {"connect", "command", "pause", "ok", "failed"}
  BY <1>1 DEF InAttempt
<1>5. Quiet'
  <2>1. \A i \in 1 .. Len(toDevice') : toDevice'[i].says # "load failed"
    BY <1>2, <1>3 DEF HealthyInv, Quiet
  <2>. QED
    BY <1>1, <1>4, <2>1 DEF Quiet
<1>6. PlayedOnce'
  <2>1. ~Confirmed'
    BY <1>1, <1>2, <1>3 DEF Confirmed
  <2>. QED
    BY <1>1, <1>4, <2>1 DEF PlayedOnce
<1>7. SureAttempt'
  <2>. SUFFICES ASSUME Sure PROVE SureAttempt'
    BY <1>1 DEF SureAttempt
  <2>1. \A i \in 1 .. Len(toDevice) : toDevice[i].transport # NoTransport =>
          toDevice[i].transport = app /\ (busy \/ Obeyed >= 3)
    BY <1>4 DEF HealthyInv, SureAttempt
  <2>2. \A i \in 1 .. Len(toDevice') : toDevice'[i].transport # NoTransport =>
          toDevice'[i].transport = app' /\ (busy \/ Obeyed + 1 >= 3)
    <3>1. \A i \in 1 .. Len(toDevice) : toDevice[i].transport # NoTransport =>
            toDevice[i].transport = app' /\ busy
      BY <1>1, <2>1
    <3>. QED
      BY <1>2, <1>3, <3>1
  <2>3. pc \in {"load", "confirm"} => tid = app' /\ (busy \/ Obeyed + 1 >= 3)
    BY <1>1 DEF HealthyInv, SureAttempt
  <2>4. pc = "transport" /\ toCast' = <<>> =>
          \E i \in 1 .. Len(toDevice') : toDevice'[i].transport # NoTransport
    <3>1. pc = "transport" /\ toCast' = <<>> => Obeyed = 2
      <4>1. pc = "transport" => Len(Due) = 3
        BY DueForms
      <4>2. toCast' = <<>> => Len(toCast') = 0
        OBVIOUS
      <4>3. Len(toCast') = Len(Due) - Obeyed - 1 /\ Obeyed \in 0 .. 4
        BY <1>1
      <4>4. ASSUME pc = "transport", toCast' = <<>> PROVE 0 = 3 - Obeyed - 1
        BY <4>1, <4>2, <4>3, <4>4
      <4>. QED
        BY <4>3, <4>4
    <3>2. Len(toDevice) + 1 \in 1 .. Len(toDevice')
      BY <1>2
    <3>. QED
      BY <1>2, <3>1, <3>2
  <2>5. pc = "confirm" => toCast' # <<>>
    <3>1. pc = "confirm" => Len(Due) = 5
      BY DueForms
    <3>2. toCast' = <<>> => Len(toCast') = 0
      OBVIOUS
    <3>. QED
      BY <1>1, <3>1, <3>2
  <2>. QED
    BY <1>1, <1>4, <2>2, <2>3, <2>4, <2>5 DEF SureAttempt
<1>. QED
  BY <1>1, <1>5, <1>6, <1>7 DEF HealthyInv

LEMMA CommandInTurn ==
  ASSUME SessionInv, CommandsCounted, HealthyInv, healthy, Obey
  PROVE  \/ Obeyed = 0 /\ Volume
         \/ Obeyed = 1 /\ Stop
         \/ Obeyed = 2 /\ Launch
         \/ Obeyed = 3 /\ pc = "confirm" /\ Join(tid)
         \/ Obeyed = 4 /\ pc = "confirm" /\ Load(tid)
<1>1. /\ InAttempt /\ Obeyed \in 0 .. 4 /\ (Obeyed >= 3 => pc = "confirm")
      /\ Head(toCast) = Due[Obeyed + 1]
  BY NextCommand
<1>2. PICK c : /\ c = Head(toCast)
               /\ \/ c.asks = "volume" /\ Volume
                  \/ c.asks = "stop" /\ Stop
                  \/ c.asks = "launch" /\ Launch
                  \/ c.asks = "connect" /\ Join(c.transport)
                  \/ c.asks = "load" /\ Load(c.transport)
  BY DEF Obey
<1>3. /\ Due[1].asks = "volume" /\ Due[2].asks = "stop" /\ Due[3].asks = "launch"
      /\ pc = "confirm" => Due[4] = Command("connect", tid) /\ Due[5] = Command("load", tid)
  BY <1>1, DueForms DEF InAttempt
<1>4. CASE Obeyed = 0
  BY <1>1, <1>2, <1>3, <1>4
<1>5. CASE Obeyed = 1
  BY <1>1, <1>2, <1>3, <1>5
<1>6. CASE Obeyed = 2
  BY <1>1, <1>2, <1>3, <1>6
<1>7. CASE Obeyed = 3
  <2>1. pc = "confirm" /\ c = Command("connect", tid)
    BY <1>1, <1>2, <1>3, <1>7
  <2>2. c.asks = "connect" /\ c.transport = tid
    BY <2>1 DEF Command
  <2>. QED
    BY <1>2, <1>7, <2>1, <2>2
<1>8. CASE Obeyed = 4
  <2>1. pc = "confirm" /\ c = Command("load", tid)
    BY <1>1, <1>2, <1>3, <1>8
  <2>2. c.asks = "load" /\ c.transport = tid
    BY <2>1 DEF Command
  <2>. QED
    BY <1>2, <1>8, <2>1, <2>2
<1>9. Obeyed = 0 \/ Obeyed = 1 \/ Obeyed = 2 \/ Obeyed = 3 \/ Obeyed = 4
  BY <1>1
<1>. QED
  BY <1>4, <1>5, <1>6, <1>7, <1>8, <1>9

LEMMA Answers ==
  /\ \A a \in Nat : StatusOf(a).transport = a /\ StatusOf(a).says = "status"
  /\ Says("other").transport = NoTransport /\ Says("other").says = "other"
  /\ Says("playing").transport = NoTransport /\ Says("playing").says = "playing"
BY DEF StatusOf, Says

(* A Chromecast in order obeys the commands of a cast as cast_url expects. *)
LEMMA ObeyHealthy ==
  ASSUME SessionInv, CommandsCounted, HealthyInv, healthy, Obey
  PROVE  HealthyInv'
<1>1. /\ InAttempt /\ open /\ Due' = Due /\ Obeyed' = Obeyed + 1 /\ QueueInOrder'
      /\ Obeyed \in 0 .. 4
      /\ Len(toCast') = Len(Due) - Obeyed - 1
      /\ starts = 0 /\ ~Confirmed /\ (Sure' <=> Sure)
      /\ UNCHANGED <<pc, attempt, tid, open, healthy, busy, stopEnds>>
  BY NextCommand
<1>2. InAttempt' /\ pc \notin {"connect", "command", "pause", "ok", "failed"}
  BY <1>1 DEF InAttempt
<1>3. /\ toDevice \in Seq(Messages) /\ app \in Apps /\ app \in Nat /\ launched \in Nat
      /\ NoApp \in Apps /\ NoApp \in Nat /\ NoApp = NoTransport
      /\ media => app # NoApp
  BY CountedTypes DEF CommandsCounted, SessionInv, NoApp, NoTransport
<1>4. Sure => /\ busy => app # NoApp /\ media
              /\ ~busy /\ Obeyed < 3 => app = NoApp /\ ~media
              /\ stopEnds => ~busy
              /\ pc = "confirm" => tid = app /\ (busy \/ Obeyed >= 3)
  BY <1>1, <1>2 DEF HealthyInv, SureAttempt, Sure
<1>5. Obeyed >= 3 => app # NoApp /\ media
  BY <1>1 DEF HealthyInv, ReceiverReady
<1>6. CASE Obeyed = 0 /\ Volume
  <2>1. Tell(StatusOf(app)) /\ UNCHANGED <<app, media, starts>>
    BY <1>6 DEF Volume, receiver, history
  <2>2. StatusOf(app) \in Messages /\ StatusOf(app).transport = app /\ StatusOf(app).says = "status"
    BY <1>3, TellsMessages, Answers
  <2>3. ReceiverReady'
    BY <1>1, <1>2, <1>6 DEF ReceiverReady
  <2>. QED
    BY <1>3, <1>4, <1>6, <2>1, <2>2, <2>3, AnswerHealthy
<1>7. CASE Obeyed = 1 /\ Stop
  <2>1. UNCHANGED starts
    BY <1>7 DEF Stop, history
  <2>2. ReceiverReady'
    BY <1>1, <1>2, <1>7 DEF ReceiverReady
  <2>3. CASE stopEnds
    <3>1. Tell(StatusOf(NoApp)) /\ app' = NoApp /\ media' = FALSE
      BY <1>7, <2>3 DEF Stop, EndsApp
    <3>2. /\ StatusOf(NoApp) \in Messages /\ StatusOf(NoApp).transport = NoTransport
          /\ StatusOf(NoApp).says = "status"
      BY <1>3, TellsMessages, Answers
    <3>. QED
      <4>1. Sure => ~busy
        BY <1>4, <2>3
      <4>2. app' = NoApp /\ ~media'
        BY <3>1
      <4>. QED
        BY <1>7, <2>1, <2>2, <3>1, <3>2, <4>1, <4>2, AnswerHealthy
  <2>4. CASE ~stopEnds
    <3>1. Tell(Says("other")) /\ app' = app /\ (media' <=> media)
      BY <1>7, <2>4 DEF Stop
    <3>2. PICK m \in Messages : Tell(m) /\ m.says = "other" /\ m.transport = NoTransport
      BY <3>1, TellsMessages, Answers
    <3>3. Sure => /\ busy => app' # NoApp /\ media' /\ app' = app
                  /\ ~busy /\ Obeyed + 1 < 3 => app' = NoApp /\ ~media'
                  /\ ~busy => Obeyed < 3
                  /\ m.transport # NoTransport => m.transport = app' /\ (busy \/ Obeyed + 1 >= 3)
                  /\ Obeyed = 2 => m.transport # NoTransport
                  /\ Obeyed # 4
      BY <1>4, <1>7, <3>1, <3>2
    <3>. QED
      BY <2>1, <2>2, <3>2, <3>3, AnswerHealthy
  <2>. QED
    BY <2>3, <2>4
<1>8. CASE Obeyed = 2 /\ Launch
  <2>1. UNCHANGED starts
    BY <1>8 DEF Launch, history
  <2>2. PICK a \in Apps : /\ Tell(StatusOf(a)) /\ app' = a /\ media' /\ a # NoApp
                          /\ (media => a = app)
    <3>1. CASE media
      <4>1. Tell(StatusOf(app)) /\ app' = app /\ media' = media
        BY <1>8, <3>1 DEF Launch
      <4>. QED
        BY <1>3, <3>1, <4>1
    <3>2. CASE ~media
      <4>1. Tell(StatusOf(launched + 1)) /\ app' = launched + 1 /\ media' = TRUE
        BY <1>8, <3>2 DEF Launch
      <4>2. launched + 1 \in Apps
        <5>1. /\ toCast # <<>> /\ toCast \in Seq(Commands) /\ Head(toCast) = Due[3]
          <6>1. Head(toCast) = Due[Obeyed + 1]
            BY NextCommand
          <6>. QED
            BY <1>8, <6>1 DEF Obey, CommandsCounted
        <5>2. Due[3].asks = "launch"
          BY <1>1, DueForms DEF InAttempt
        <5>3. Underway("launch") = Count(Tail(toCast), "launch") + 1
          BY <5>1, <5>2, CountTail DEF Underway
        <5>4. Count(Tail(toCast), "launch") \in Nat
          <6>1. Tail(toCast) \in Seq(Commands)
            BY <5>1
          <6>. QED
            BY <6>1, CountType
        <5>. QED
          BY <5>3, <5>4, CountedTypes
      <4>3. launched + 1 # NoApp
        BY <1>3 DEF NoApp
      <4>. QED
        BY <3>2, <4>1, <4>2, <4>3
    <3>. QED
      BY <3>1, <3>2
  <2>3. ReceiverReady'
    <3>1. Obeyed' # 4
      BY <1>1, <1>8
    <3>. QED
      BY <1>1, <1>2, <2>2, <3>1 DEF ReceiverReady
  <2>4. a \in Nat /\ StatusOf(a) \in Messages /\ StatusOf(a).transport = a /\ StatusOf(a).says = "status"
    <3>1. a \in Nat
      BY RetriesAssumption DEF Apps
    <3>. QED
      BY <3>1, TellsMessages, Answers
  <2>. QED
    BY <1>3, <1>4, <1>8, <2>1, <2>2, <2>3, <2>4, AnswerHealthy
<1>9. CASE Obeyed = 3 /\ pc = "confirm" /\ Join(tid)
  <2>1. /\ UNCHANGED <<toDevice, app, media, starts>>
        /\ tid = app => joined' = app
    BY <1>1, <1>9 DEF Join, history
  <2>2. toCast' # <<>> /\ Obeyed' = 4
    <3>1. Len(Due) = 5
      BY <1>9, DueForms
    <3>2. Len(toCast') = 1
      BY <1>1, <1>9, <3>1
    <3>. QED
      BY <1>1, <1>9, <3>2
  <2>3. Confirmed' <=> Confirmed
    BY <2>1 DEF Confirmed
  <2>4. Quiet'
    BY <1>1, <2>1 DEF HealthyInv, Quiet, InAttempt
  <2>5. PlayedOnce'
    BY <1>1, <1>2, <2>1, <2>3 DEF PlayedOnce
  <2>6. ReceiverReady'
    BY <1>1, <1>2, <1>5, <1>9, <2>1, <2>2 DEF ReceiverReady
  <2>7. SureAttempt'
    BY <1>1, <1>2, <1>9, <2>1, <2>2 DEF HealthyInv, SureAttempt
  <2>. QED
    BY <1>1, <2>4, <2>5, <2>6, <2>7 DEF HealthyInv
<1>10. CASE Obeyed = 4 /\ pc = "confirm" /\ Load(tid)
  <2>1. app # NoApp /\ media /\ (tid = app => joined = app)
    BY <1>1, <1>5, <1>10 DEF HealthyInv, ReceiverReady
  <2>2. CASE tid = app
    <3>1. Tell(Says("playing")) /\ starts' = 1 /\ UNCHANGED <<app, media, joined>>
      BY <1>1, <1>10, <2>1, <2>2 DEF Load
    <3>2. /\ Len(toDevice) \in Nat /\ Len(toDevice') = Len(toDevice) + 1
          /\ toDevice'[Len(toDevice) + 1] = Says("playing")
          /\ \A i \in 1 .. Len(toDevice) : toDevice'[i] = toDevice[i]
      BY <1>1, <1>3, <3>1, Told, TellsMessages
    <3>3. /\ \A i \in 1 .. Len(toDevice') : i \in 1 .. Len(toDevice) \/ toDevice'[i] = Says("playing")
          /\ Len(toDevice) + 1 \in 1 .. Len(toDevice')
      BY <3>2
    <3>4. Confirmed'
      BY <3>2, <3>3, Answers DEF Confirmed
    <3>5. toCast' = <<>> /\ Obeyed' = 5
      <4>1. Len(Due) = 5
        BY <1>10, DueForms
      <4>2. Len(toCast') = 0 /\ toCast' \in Seq(Commands)
        <5>1. toCast' \in Seq(Commands)
          BY DEF Obey, CommandsCounted
        <5>. QED
          BY <1>1, <1>10, <4>1, <5>1
      <4>. QED
        BY <1>1, <1>10, <4>2
    <3>6. Quiet'
      <4>1. \A i \in 1 .. Len(toDevice') : toDevice'[i].says # "load failed"
        BY <3>2, <3>3, Answers DEF HealthyInv, Quiet
      <4>. QED
        BY <1>1, <1>2, <4>1 DEF Quiet
    <3>7. PlayedOnce'
      BY <1>1, <1>10, <3>1, <3>4, <3>5 DEF PlayedOnce
    <3>8. ReceiverReady'
      BY <1>1, <1>2, <2>1, <3>1, <3>5 DEF ReceiverReady
    <3>9. SureAttempt'
      <4>. SUFFICES ASSUME Sure PROVE SureAttempt'
        BY <1>1 DEF SureAttempt
      <4>1. \A i \in 1 .. Len(toDevice') : toDevice'[i].transport # NoTransport =>
              toDevice'[i].transport = app
        <5>1. \A i \in 1 .. Len(toDevice) : toDevice[i].transport # NoTransport =>
                toDevice[i].transport = app
          BY DEF HealthyInv, SureAttempt
        <5>. QED
          BY <3>2, <3>3, <5>1, Answers
      <4>. QED
        BY <1>1, <1>2, <1>4, <1>10, <2>1, <2>2, <3>1, <3>5, <4>1 DEF SureAttempt
    <3>. QED
      BY <1>1, <3>6, <3>7, <3>8, <3>9 DEF HealthyInv
  <2>3. CASE tid # app
    <3>1. Tell(Says("other")) /\ UNCHANGED <<app, media, joined, starts>>
      BY <1>10, <2>3 DEF Load, receiver, history
    <3>2. ReceiverReady'
      <4>1. Obeyed' # 4
        BY <1>1, <1>10
      <4>. QED
        BY <1>1, <1>2, <2>1, <3>1, <4>1 DEF ReceiverReady
    <3>3. ~Sure
      BY <1>4, <1>10, <2>3
    <3>. QED
      BY <3>1, <3>2, <3>3, TellsMessages, Answers, AnswerHealthy
  <2>. QED
    BY <2>2, <2>3
<1>. QED
  BY <1>6, <1>7, <1>8, <1>9, <1>10, CommandInTurn

LEMMA HealthyStep == SessionInv /\ CommandsCounted /\ HealthyInv /\ [Next]_vars => HealthyInv'
<1>. SUFFICES ASSUME SessionInv, CommandsCounted, HealthyInv, [Next]_vars PROVE HealthyInv'
  OBVIOUS
<1>1. UNCHANGED healthy
  BY DEF Next, SenderStep, Connect, ConnectFails, SendCommands, SendFails, ReadTransport,
         NoTransportId, SendLoad, LoadNotSent, ReadConfirmation, NotConfirmed, TryAgain,
         AttemptFails, Obey, OldFileBuffers, AnotherSender, vars, chosen
<1>2. CASE ~healthy
  BY <1>1, <1>2 DEF HealthyInv
<1>3. CASE healthy /\ UNCHANGED vars
  BY <1>3 DEF HealthyInv, QueueInOrder, Obeyed, Due, Quiet, PlayedOnce, ReceiverReady, SureAttempt,
              Sure, Confirmed, InAttempt, vars, sender, receiver, chosen, history
<1>. QED
  BY <1>2, <1>3, SenderHealthy, ObeyHealthy DEF Next, OldFileBuffers, AnotherSender

LEMMA SureEnough ==
  ASSUME MAX_RETRIES > 1, SessionInv, HealthyInv
  PROVE  HealthyCastPlays
<1>. SUFFICES ASSUME healthy PROVE (pc = "ok" => starts = 1) /\ (pc = "failed" => busy /\ stopEnds)
  BY DEF HealthyCastPlays
<1>1. pc = "ok" => starts = 1
  BY DEF HealthyInv, PlayedOnce
<1>2. ASSUME pc = "failed" PROVE busy /\ stopEnds
  <2>1. attempt = MAX_RETRIES
    BY <1>2 DEF HealthyInv, ReceiverReady
  <2>2. ~Sure
    BY <1>2 DEF HealthyInv, SureAttempt
  <2>. QED
    BY <2>1, <2>2 DEF Sure
<1>. QED
  BY <1>1, <1>2

(* With a Chromecast in order a cast of more than one attempt succeeds, whichever
   session ran before, and starts the file once; the exception is a Chromecast that
   was busy and whose STOP ends the session whose id the device then takes for its
   own (cast.py:131-140, 166-180; discovery.py:141 makes three attempts). *)
THEOREM HealthyCastPlaysHolds ==
  ASSUME MAX_RETRIES > 1
  PROVE  Spec => []HealthyCastPlays
<1>1. Spec => []HealthyInv
  BY InitHealthyInv, HealthyStep, SessionInvariant, CountedInvariant, PTL DEF Spec
<1>2. SessionInv /\ HealthyInv => HealthyCastPlays
  BY SureEnough
<1>. QED
  BY <1>1, <1>2, SessionInvariant, PTL
=============================================================================
