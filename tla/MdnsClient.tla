------------------------------ MODULE MdnsClient ------------------------------
(***************************************************************************)
(* The mDNS client of bilalcast/mdns_client/client.py: one socket, one loop *)
(* that reads it, the callbacks of the searches under way and the responder *)
(* that answers for bilalcast.local.                                        *)
(*                                                                         *)
(* A message is what its sender means: an id, questions or records with     *)
(* names, which are lists of labels, and values.  On the network it is bytes, with names compressed if  *)
(* its sender compresses them; DnsMessage reads and writes them as the code *)
(* does.  Datagrams of the device itself come back and are skipped: they    *)
(* are left out.  The responder is enabled for good, so that the loop is    *)
(* never stopped.                                                           *)
(***************************************************************************)
EXTENDS DnsMessage

CONSTANTS
  Messages,     \* messages of others: [id, response, questions, records, compress]
  Questions,    \* what a search may ask; its names are strings
  Searches,     \* searches that may be under way
  HostName,     \* responder_hostname, a string
  HostAddress,  \* responder_ip, four bytes
  QUEUE         \* bound: datagrams that the socket holds

ASSUME ConstantsAssumption ==
  /\ \A m \in Messages : {"id", "response", "questions", "records", "compress"} = DOMAIN m
  /\ HostName = Lower(HostName) /\ HostAddress \in Seq(0 .. 255)
  /\ QUEUE \in Nat \ {0}

VARIABLES
  inbox,      \* datagrams received by the socket and not yet read
  socket,     \* "none", "bound", or "unbound" (bind failed)
  loop,       \* the task of start(): "starting", "reading" or "dead"
  callbacks,  \* searches whose callback is registered
  told,       \* what each of them was last given, and the message it stands for
  (* History. *)
  sent,       \* the last datagram sent, and the message it stands for
  lost,       \* messages that the socket held when it was last made again
  refused     \* the system refused a read, a socket or the second sending

vars == <<inbox, socket, loop, callbacks, told, sent, lost, refused>>

Nothing == [of |-> <<>>, got |-> <<>>]
-----------------------------------------------------------------------------
(* The bytes of a message. *)

Put(acc, bytes) == [acc EXCEPT !.bytes = @ \o bytes]

(* The longest ending of the name that is already in the message is replaced
   by a pointer to it. *)
PutName(acc, name, compress) ==
  LET Ending(k) == SubSeq(name, k, Len(name))
      known == {k \in DOMAIN name : compress /\ Ending(k) \in DOMAIN acc.at}
      first == IF known = {} THEN Len(name) + 1 ELSE CHOOSE k \in known : \A l \in known : k <= l
      Begin(k) == Front(PackName(SubSeq(name, 1, k - 1)))
      fresh == {Ending(k) : k \in 1 .. first - 1}
  IN  [bytes |-> acc.bytes \o (IF known = {} THEN PackName(name)
                               ELSE Begin(first) \o TwoBytes(POINTER + acc.at[Ending(first)])),
       at |-> [e \in DOMAIN acc.at \cup fresh |->
                 IF e \in fresh THEN Len(acc.bytes) + Len(Begin(1 + Len(name) - Len(e))) ELSE acc.at[e]]]

PutQuestion(acc, q) ==
  Put(PutName(acc, q.name, FALSE), TwoBytes(q.type) \o TwoBytes(CLASS_IN))

PutValue(acc, r, compress) ==
  CASE r.type \in {TYPE_PTR, TYPE_NS, TYPE_CNAME} -> PutName(acc, r.value, compress)
    [] r.type = TYPE_SRV ->
         PutName(Put(acc, TwoBytes(0) \o TwoBytes(0) \o TwoBytes(r.value[1])), r.value[2], compress)
    [] r.type = TYPE_TXT -> Put(acc, Front(PackName(r.value)))
    [] r.type = TYPE_SOA ->
         Put(PutName(PutName(acc, r.value[1], compress), r.value[2], compress),
             [i \in 1 .. 20 |-> 0])
    [] OTHER -> Put(acc, r.value)

PutRecord(acc, r, compress) ==
  LET head == Put(PutName(acc, r.name, compress),
                  TwoBytes(r.type) \o TwoBytes(CLASS_IN) \o <<0, 0>> \o TwoBytes(DEFAULT_TTL)
                    \o TwoBytes(0))
      whole == PutValue(head, r, compress)
      length == TwoBytes(Len(whole.bytes) - Len(head.bytes))
  IN  [whole EXCEPT !.bytes = [@ EXCEPT ![Len(head.bytes) - 1] = length[1],
                                        ![Len(head.bytes)] = length[2]]]

(* RFC 1035, section 4. *)
Wire(m) ==
  LET header == TwoBytes(m.id)
                  \o TwoBytes(IF m.response THEN QR_RESPONSE + AUTHORITATIVE ELSE 0)
                  \o TwoBytes(Len(m.questions)) \o TwoBytes(Len(m.records)) \o <<0, 0, 0, 0>>
      asked == FoldLeft(PutQuestion, [bytes |-> header, at |-> << >>], m.questions)
  IN  FoldLeft(LAMBDA acc, r : PutRecord(acc, r, m.compress), asked, m.records).bytes

(* What the device reads in the bytes of each message. *)
Parsed == [m \in Messages |-> ParsePacket(Wire(m))]

Packet ==
  LET Read(packet) ==
        [id |-> packet.id, response |-> packet.response, questions |-> packet.questions,
         parses |-> Parses(packet),
         records |-> IF ~Parses(packet) THEN <<>>
                     ELSE [i \in DOMAIN packet.records |->
                             [name |-> packet.records[i].name, type |-> packet.records[i].type,
                              value |-> Reading(packet.records[i])]]]
      read == [packet \in {Parsed[m] : m \in Messages} |-> Read(packet)]
  IN  [m \in Messages |-> read[Parsed[m]]]

DotFree(name) == \A i \in DOMAIN name : DOT \notin ToSet(name[i])

(* The string stands for the name, and for no other name without dots. *)
SameName(string, name) ==
  string = Joined(name) /\ (DotFree(name) => CheckName(string) = name)

(* What was read of a record is what its sender means. *)
SameRecord(read, record) ==
  /\ SameName(read.name, record.name) /\ read.type = record.type
  /\ CASE record.type \in {TYPE_PTR, TYPE_NS, TYPE_CNAME} -> SameName(read.value, record.value)
       [] record.type = TYPE_SRV ->
            /\ read.value[1] = record.value[1]
            /\ SameName(read.value[2], [i \in DOMAIN record.value[2] |-> Lower(record.value[2][i])])
       [] OTHER -> read.value = record.value

Query(questions) ==
  [id |-> 0, response |-> FALSE, records |-> <<>>, compress |-> FALSE,
   questions |-> [i \in DOMAIN questions |-> [questions[i] EXCEPT !.name = CheckName(@)]]]

AnswerTo(m) ==
  [id |-> m.id, response |-> TRUE, questions |-> <<>>, compress |-> FALSE,
   records |-> <<[name |-> CheckName(HostName), type |-> TYPE_A, value |-> HostAddress]>>]

AsksForUs(m) ==
  ~m.response /\ \E i \in DOMAIN m.questions :
                   /\ m.questions[i].type = TYPE_A
                   /\ [l \in DOMAIN m.questions[i].name |-> Lower(m.questions[i].name[l])]
                        = CheckName(HostName)

HasSoa(m) == \E i \in DOMAIN m.records : m.records[i].type = TYPE_SOA
-----------------------------------------------------------------------------
Init ==
  /\ inbox = <<>> /\ socket = "none" /\ loop = "starting"
  /\ callbacks = {} /\ told = [s \in Searches |-> Nothing]
  /\ sent = Nothing /\ lost = {} /\ refused = FALSE

(* A datagram reaches the socket.  One that finds it full is lost. *)
Arrive(m) ==
  /\ socket = "bound" /\ Len(inbox) < QUEUE
  /\ inbox' = Append(inbox, m)
  /\ told' = [s \in Searches |-> IF told[s].of = m THEN Nothing ELSE told[s]]
  /\ sent' = IF AsksForUs(m) THEN Nothing ELSE sent
  /\ lost' = {}
  /\ UNCHANGED <<socket, loop, callbacks, refused>>

(* Mutant: the old socket is not closed. *)
RemakeUnclosed(held) ==
  /\ socket' \in {"none", "unbound", "bound"}
  /\ inbox' = held
  /\ lost' = {}

(* _close_socket and _init_socket: what the old socket held is gone.  Creating
   the new one fails, or binding it, or neither. *)
Remake(held) ==
  /\ socket' \in {"none", "unbound", "bound"}
  /\ inbox' = <<>>
  /\ lost' = ToSet(held)

(* _init_socket in the task of start(), which ends if it raises; nobody starts
   it again, because "stopped" stays False. *)
RemakeInLoop ==
  /\ Remake(inbox)
  /\ loop' = IF socket' = "bound" THEN "reading" ELSE "dead"
  /\ refused' = (refused \/ socket' # "bound")
  /\ UNCHANGED <<callbacks, told, sent>>

Start == loop = "starting" /\ RemakeInLoop

(* _send_bytes while the socket holds "rest": the datagram is sent at once, or
   on a new socket, or (~ok) that cannot be made or refuses it again. *)
Transmit(datagram, rest, ok) ==
  \/ /\ ok /\ socket # "none"
     /\ sent' = datagram
     /\ inbox' = rest
     /\ UNCHANGED <<socket, lost, refused>>
  \/ /\ Remake(rest)
     /\ ok => socket' = "bound"
     /\ sent' = IF ok THEN datagram ELSE sent
     /\ refused' = (refused \/ ~ok)

(* send_question of a search; what it raises ends the search. *)
SendQuestion(questions) ==
  /\ callbacks # {}
  /\ \E ok \in BOOLEAN :
       Transmit([of |-> Query(questions), got |-> QuestionBytes(questions)], inbox, ok)
  /\ UNCHANGED <<loop, callbacks, told>>

(* add_callback; the client is not stopped, so that it starts nothing. *)
AddCallback(s) ==
  /\ s \notin callbacks
  /\ callbacks' = callbacks \cup {s}
  /\ told' = [told EXCEPT ![s] = Nothing]
  /\ UNCHANGED <<inbox, socket, loop, sent, lost, refused>>

(* remove_id; with a responder the client goes on without callbacks. *)
RemoveId(s) ==
  /\ s \in callbacks
  /\ callbacks' = callbacks \ {s}
  /\ UNCHANGED <<inbox, socket, loop, told, sent, lost, refused>>
-----------------------------------------------------------------------------
(* Mutant: only the first question of a message is looked at. *)
OursFirst(packet) ==
  /\ ~packet.response /\ packet.questions # <<>>
  /\ packet.questions[1].type = TYPE_A /\ Lower(packet.questions[1].name) = HostName

(* The condition of _handle_responder_query. *)
Ours(packet) ==
  /\ ~packet.response
  /\ \E i \in DOMAIN packet.questions :
       packet.questions[i].type = TYPE_A /\ Lower(packet.questions[i].name) = HostName

OwnRecord == RecordBytes(HostName, TYPE_A, HostAddress)

(* _handle_responder_query: two such questions in one message are answered
   twice, with the same bytes. *)
Respond(m, packet, ok) ==
  Transmit([of |-> AnswerTo(m), got |-> ResponseBytes(packet.id, OwnRecord)], Tail(inbox), ok)

(* The callbacks of process_packet. *)
Tell(m, packet) ==
  told' = [s \in Searches |->
             IF s \in callbacks THEN [of |-> m, got |-> packet.records] ELSE told[s]]

(* process_packet.  What it raises drops the message: it cannot be parsed, or
   the answer cannot be sent. *)
Process(m, packet) ==
  \/ /\ ~packet.parses
     /\ inbox' = Tail(inbox)
     /\ UNCHANGED <<socket, told, sent, lost, refused>>
  \/ /\ packet.parses /\ Ours(packet)
     /\ \E ok \in BOOLEAN :
          /\ Respond(m, packet, ok)
          /\ IF ok THEN Tell(m, packet) ELSE UNCHANGED told
  \/ /\ packet.parses /\ ~Ours(packet)
     /\ Tell(m, packet)
     /\ inbox' = Tail(inbox)
     /\ UNCHANGED <<socket, sent, lost, refused>>

Waiting == loop = "reading" /\ socket # "none" /\ inbox # <<>>

(* The loop of consume(): process_waiting_data with one datagram. *)
Consume ==
  /\ Waiting
  /\ Process(Head(inbox), Packet[Head(inbox)])
  /\ UNCHANGED <<loop, callbacks>>

(* recvfrom raises MemoryError: the socket is made again. *)
OutOfMemory == Waiting /\ RemakeInLoop

(* recvfrom raises anything else, or select meets the socket that a sender
   closed and could not make again: the loop ends. *)
ReadFails ==
  /\ Waiting \/ (loop = "reading" /\ socket = "none")
  /\ loop' = "dead"
  /\ refused' = TRUE
  /\ UNCHANGED <<inbox, socket, callbacks, told, sent, lost>>

Loop == Start \/ Consume \/ OutOfMemory \/ ReadFails

Next ==
  \/ Loop
  \/ \E m \in Messages : Arrive(m)
  \/ \E questions \in Questions : SendQuestion(questions)
  \/ \E s \in Searches : AddCallback(s) \/ RemoveId(s)

Spec == Init /\ [][Next]_vars

(* The loop is a task that sleeps 100 ms when there is nothing to read. *)
FairSpec == Spec /\ WF_vars(Loop)
-----------------------------------------------------------------------------
(* Every variable has its type; only a socket that is bound holds datagrams. *)
TypeOK ==
  /\ inbox \in Seq(Messages) /\ Len(inbox) <= QUEUE
  /\ socket \in {"none", "unbound", "bound"} /\ (inbox # <<>> => socket = "bound")
  /\ loop \in {"starting", "reading", "dead"}
  /\ callbacks \subseteq Searches
  /\ \A s \in Searches : told[s] = Nothing \/ told[s].of \in Messages
  /\ sent = Nothing \/ sent.of \in {AnswerTo(m) : m \in Messages} \cup {Query(q) : q \in Questions}
  /\ lost \subseteq Messages /\ refused \in BOOLEAN

(* Nothing is lost in translation: a search is given the names, ports, strings
   and addresses that the sender of the message meant, wherever the sender
   used a pointer, and what the device sends is the message it means
   (parser.py:51-140, structs.py:22-161).  Only a dot within a label is lost:
   the string of such a name is that of another name too. *)
Understood ==
  /\ \A s \in Searches : told[s] # Nothing =>
       /\ DOMAIN told[s].got = DOMAIN told[s].of.records
       /\ \A i \in DOMAIN told[s].got : SameRecord(told[s].got[i], told[s].of.records[i])
  /\ sent # Nothing => sent.got = Wire(sent.of)

(* Who asks for bilalcast.local gets an answer to that question, and every
   search under way is given every message that arrives, also when the first
   sending fails or a read ran out of memory; only what a socket held when it
   was made again is lost (client.py:103-169, 199-209).  Messages with an SOA
   record are dropped unread. *)
EveryoneServed ==
  \A m \in Messages : ~HasSoa(m) =>
    /\ AsksForUs(m) =>
         (m \in ToSet(inbox)) ~> (sent.of = AnswerTo(m) \/ m \in lost \/ refused)
    /\ \A s \in Searches :
         (m \in ToSet(inbox) /\ s \in callbacks)
           ~> (told[s].of = m \/ s \notin callbacks \/ m \in lost \/ refused)
=============================================================================
