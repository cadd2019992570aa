-------------------------- MODULE MdnsClientProofs --------------------------
(***************************************************************************)
(* The mDNS client hands on what it reads: no interleaving of packets,      *)
(* searches and sockets mixes up two messages, and a socket that is not     *)
(* bound holds nothing.  Whether the bytes of a message say what its sender *)
(* means is the codec's part, which TLC checks (Understood).                *)
(***************************************************************************)
EXTENDS MdnsClient, TLAPS

(* What a search was told is what the device read in one message. *)
Telling(m) == [of |-> m, got |-> Packet[m].records]

ToldAsRead ==
  /\ DOMAIN told = Searches
  /\ \A s \in Searches :
       told[s] = Nothing \/ \E m \in Messages : Packet[m].parses /\ told[s] = Telling(m)

(* What was sent asks one search's questions or answers one message. *)
Asking(questions) == [of |-> Query(questions), got |-> QuestionBytes(questions)]
Answering(m) == [of |-> AnswerTo(m), got |-> ResponseBytes(Packet[m].id, OwnRecord)]

SentAsMeant ==
  \/ sent = Nothing
  \/ \E questions \in Questions : sent = Asking(questions)
  \/ \E m \in Messages : Packet[m].parses /\ Ours(Packet[m]) /\ sent = Answering(m)

(* Only a bound socket holds datagrams, and never more than fit. *)
Held ==
  /\ inbox \in Seq(Messages) /\ Len(inbox) <= QUEUE
  /\ inbox # <<>> => socket = "bound"

ClientInv ==
  /\ Held
  /\ socket \in {"none", "unbound", "bound"}
  /\ loop \in {"starting", "reading", "dead"}
  /\ callbacks \subseteq Searches
  /\ lost \subseteq Messages /\ refused \in BOOLEAN
  /\ ToldAsRead
  /\ SentAsMeant
-----------------------------------------------------------------------------
LEMMA QueueNat == QUEUE \in Nat /\ QUEUE > 0
BY ConstantsAssumption DEF ConstantsAssumption

LEMMA HeldAre ==
  ASSUME NEW held \in Seq(Messages)
  PROVE  ToSet(held) \subseteq Messages
BY DEF ToSet

LEMMA TailHeld ==
  ASSUME inbox \in Seq(Messages), Len(inbox) <= QUEUE, inbox # <<>>
  PROVE  /\ Tail(inbox) \in Seq(Messages) /\ Len(Tail(inbox)) <= QUEUE
         /\ Head(inbox) \in Messages
<1>1. PICK n \in Nat : n = Len(inbox)
  OBVIOUS
<1>2. Tail(inbox) \in Seq(Messages) /\ Len(Tail(inbox)) = Len(inbox) - 1 /\ Head(inbox) \in Messages
  OBVIOUS
<1>. QED
  BY <1>1, <1>2, QueueNat

LEMMA InitClient == Init => ClientInv
<1>. SUFFICES ASSUME Init PROVE ClientInv
  OBVIOUS
<1>1. inbox = <<>> /\ inbox \in Seq(Messages) /\ Len(inbox) = 0
  BY DEF Init
<1>2. Held
  BY <1>1, QueueNat DEF Held
<1>3. ToldAsRead /\ SentAsMeant
  BY DEF Init, ToldAsRead, SentAsMeant
<1>. QED
  BY <1>2, <1>3 DEF Init, ClientInv

(* A new socket is empty. *)
LEMMA RemakeKeeps ==
  ASSUME NEW held \in Seq(Messages), Remake(held)
  PROVE  /\ Held' /\ lost' \subseteq Messages
         /\ socket' \in {"none", "unbound", "bound"}
<1>1. <<>> \in Seq(Messages) /\ Len(<<>>) = 0
  OBVIOUS
<1>. QED
  BY <1>1, HeldAre, QueueNat DEF Remake, Held

LEMMA TransmitKeeps ==
  ASSUME ClientInv, NEW datagram, NEW rest \in Seq(Messages), Len(rest) <= QUEUE,
         rest # <<>> => socket = "bound", NEW ok \in BOOLEAN, Transmit(datagram, rest, ok)
  PROVE  /\ Held' /\ lost' \subseteq Messages /\ refused' \in BOOLEAN
         /\ socket' \in {"none", "unbound", "bound"}
         /\ sent' = datagram \/ UNCHANGED sent
<1>1. CASE ok /\ sent' = datagram /\ inbox' = rest /\ UNCHANGED <<socket, lost, refused>>
  BY <1>1 DEF ClientInv, Held
<1>2. CASE /\ Remake(rest) /\ sent' = IF ok THEN datagram ELSE sent
           /\ refused' = (refused \/ ~ok)
  <2>1. Held' /\ lost' \subseteq Messages /\ socket' \in {"none", "unbound", "bound"}
    BY <1>2, RemakeKeeps
  <2>2. sent' = datagram \/ UNCHANGED sent
    BY <1>2
  <2>3. refused' \in BOOLEAN
    BY <1>2
  <2>. QED
    BY <2>1, <2>2, <2>3
<1>. QED
  BY <1>1, <1>2 DEF Transmit

LEMMA ArriveKeeps ==
  ASSUME ClientInv, NEW m \in Messages, Arrive(m)
  PROVE  ClientInv'
<1>1. /\ socket = "bound" /\ Len(inbox) < QUEUE /\ inbox' = Append(inbox, m)
      /\ told' = [s \in Searches |-> IF told[s].of = m THEN Nothing ELSE told[s]]
      /\ sent' = IF AsksForUs(m) THEN Nothing ELSE sent
      /\ lost' = {} /\ UNCHANGED <<socket, loop, callbacks, refused>>
  BY DEF Arrive
<1>2. Held'
  <2>1. inbox \in Seq(Messages)
    BY DEF ClientInv, Held
  <2>2. Append(inbox, m) \in Seq(Messages) /\ Len(Append(inbox, m)) = Len(inbox) + 1
    BY <2>1
  <2>3. PICK n \in Nat : n = Len(inbox)
    BY <2>1
  <2>. QED
    BY <1>1, <2>2, <2>3, QueueNat DEF Held
<1>3. ToldAsRead'
  <2>1. DOMAIN told' = Searches /\ \A s \in Searches : told'[s] \in {Nothing, told[s]}
    BY <1>1
  <2>. QED
    BY <2>1 DEF ClientInv, ToldAsRead
<1>4. SentAsMeant'
  BY <1>1 DEF ClientInv, SentAsMeant
<1>. QED
  BY <1>1, <1>2, <1>3, <1>4 DEF ClientInv

LEMMA RemakeInLoopKeeps ==
  ASSUME ClientInv, RemakeInLoop
  PROVE  ClientInv'
<1>1. Held' /\ lost' \subseteq Messages /\ socket' \in {"none", "unbound", "bound"}
  BY RemakeKeeps DEF RemakeInLoop, ClientInv, Held
<1>2. loop' \in {"starting", "reading", "dead"}
  BY DEF RemakeInLoop
<1>3. refused' \in BOOLEAN
  BY DEF RemakeInLoop
<1>4. UNCHANGED <<callbacks, told, sent>>
  BY DEF RemakeInLoop
<1>5. ToldAsRead' /\ SentAsMeant' /\ callbacks' \subseteq Searches
  BY <1>4 DEF ClientInv, ToldAsRead, SentAsMeant
<1>. QED
  BY <1>1, <1>2, <1>3, <1>5 DEF ClientInv

LEMMA SendQuestionKeeps ==
  ASSUME ClientInv, NEW questions \in Questions, SendQuestion(questions)
  PROVE  ClientInv'
<1>1. PICK ok \in BOOLEAN : Transmit(Asking(questions), inbox, ok)
  BY DEF SendQuestion, Asking
<1>2. UNCHANGED <<loop, callbacks, told>>
  BY DEF SendQuestion
<1>3. /\ Held' /\ lost' \subseteq Messages /\ refused' \in BOOLEAN
      /\ socket' \in {"none", "unbound", "bound"}
      /\ sent' = Asking(questions) \/ UNCHANGED sent
  BY <1>1, TransmitKeeps DEF ClientInv, Held
<1>4. SentAsMeant'
  BY <1>3 DEF ClientInv, SentAsMeant
<1>5. ToldAsRead'
  BY <1>2 DEF ClientInv, ToldAsRead
<1>. QED
  BY <1>2, <1>3, <1>4, <1>5 DEF ClientInv

LEMMA CallbacksKeep ==
  ASSUME ClientInv, NEW s \in Searches, AddCallback(s) \/ RemoveId(s)
  PROVE  ClientInv'
<1>1. /\ UNCHANGED <<inbox, socket, loop, sent, lost, refused>>
      /\ callbacks' \subseteq Searches
      /\ told' = told \/ told' = [told EXCEPT ![s] = Nothing]
  BY DEF AddCallback, RemoveId, ClientInv
<1>2. ToldAsRead'
  BY <1>1 DEF ClientInv, ToldAsRead
<1>. QED
  BY <1>1, <1>2 DEF ClientInv, Held, SentAsMeant

(* A packet that is processed reaches those it is for as it was read. *)
LEMMA ConsumeKeeps ==
  ASSUME ClientInv, Consume
  PROVE  ClientInv'
<1>. DEFINE m == Head(inbox)
            packet == Packet[m]
<1>1. /\ inbox # <<>> /\ m \in Messages /\ Tail(inbox) \in Seq(Messages)
      /\ Len(Tail(inbox)) <= QUEUE /\ socket = "bound"
      /\ UNCHANGED <<loop, callbacks>>
  BY TailHeld DEF Consume, Waiting, ClientInv, Held
<1>2. Process(m, packet)
  BY DEF Consume
<1>3. ASSUME packet.parses, Tell(m, packet) PROVE ToldAsRead'
  <2>1. /\ DOMAIN told' = Searches
        /\ \A s \in Searches : told'[s] = told[s] \/ told'[s] = Telling(m)
    BY <1>3 DEF Tell, Telling
  <2>. QED
    BY <1>1, <1>3, <2>1 DEF ClientInv, ToldAsRead
<1>4. ASSUME UNCHANGED told PROVE ToldAsRead'
  BY <1>4 DEF ClientInv, ToldAsRead
<1>5. ASSUME UNCHANGED sent PROVE SentAsMeant'
  BY <1>5 DEF ClientInv, SentAsMeant
<1>6. ASSUME inbox' = Tail(inbox), UNCHANGED socket PROVE Held'
  BY <1>1, <1>6 DEF Held
<1>7. CASE ~packet.parses /\ inbox' = Tail(inbox) /\ UNCHANGED <<socket, told, sent, lost, refused>>
  BY <1>1, <1>4, <1>5, <1>6, <1>7 DEF ClientInv
<1>8. CASE /\ packet.parses /\ Ours(packet)
           /\ \E ok \in BOOLEAN :
                /\ Respond(m, packet, ok)
                /\ IF ok THEN Tell(m, packet) ELSE UNCHANGED told
  <2>1. PICK ok \in BOOLEAN : /\ Respond(m, packet, ok)
                              /\ IF ok THEN Tell(m, packet) ELSE UNCHANGED told
    BY <1>8
  <2>2. Transmit(Answering(m), Tail(inbox), ok)
    BY <2>1 DEF Respond, Answering
  <2>3. /\ Held' /\ lost' \subseteq Messages /\ refused' \in BOOLEAN
        /\ socket' \in {"none", "unbound", "bound"}
        /\ sent' = Answering(m) \/ UNCHANGED sent
    BY <1>1, <2>2, TransmitKeeps
  <2>4. SentAsMeant'
    BY <1>1, <1>5, <1>8, <2>3 DEF SentAsMeant
  <2>5. ToldAsRead'
    BY <1>3, <1>4, <1>8, <2>1
  <2>. QED
    BY <1>1, <2>3, <2>4, <2>5 DEF ClientInv
<1>9. CASE /\ packet.parses /\ Tell(m, packet) /\ inbox' = Tail(inbox)
           /\ UNCHANGED <<socket, sent, lost, refused>>
  BY <1>1, <1>3, <1>5, <1>6, <1>9 DEF ClientInv
<1>. QED
  BY <1>2, <1>7, <1>8, <1>9 DEF Process

LEMMA RestKeeps ==
  ASSUME ClientInv, ReadFails \/ UNCHANGED vars
  PROVE  ClientInv'
<1>1. /\ UNCHANGED <<inbox, socket, callbacks, told, sent, lost>>
      /\ loop' \in {"starting", "reading", "dead"} /\ refused' \in BOOLEAN
  BY DEF ReadFails, vars, ClientInv
<1>. QED
  BY <1>1 DEF ClientInv, Held, ToldAsRead, SentAsMeant

(* The invariant: what a search was last told is what the device read in one
   message, what was last sent belongs to one message or one search, and only
   a bound socket holds datagrams (client.py:103-169, 199-209). *)
THEOREM ClientInvariant == Spec => []ClientInv
<1>1. ClientInv /\ [Next]_vars => ClientInv'
  BY ArriveKeeps, RemakeInLoopKeeps, SendQuestionKeeps, CallbacksKeep, ConsumeKeeps, RestKeeps
  DEF Next, Loop, Start, OutOfMemory
<1>. QED
  BY InitClient, <1>1, PTL DEF Spec

(* Type correctness, for all messages, questions and searches. *)
THEOREM ClientTypes == Spec => []TypeOK
<1>1. ClientInv => TypeOK
  <2>. SUFFICES ASSUME ClientInv PROVE TypeOK
    OBVIOUS
  <2>1. \A s \in Searches : told[s] = Nothing \/ told[s].of \in Messages
    BY DEF ClientInv, ToldAsRead, Telling
  <2>2. sent = Nothing
          \/ sent.of \in {AnswerTo(m) : m \in Messages} \cup {Query(q) : q \in Questions}
    BY DEF ClientInv, SentAsMeant, Asking, Answering
  <2>. QED
    BY <2>1, <2>2 DEF ClientInv, Held, TypeOK
<1>. QED
  BY <1>1, ClientInvariant, PTL
=============================================================================
