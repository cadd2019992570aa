------------------------------ MODULE DnsMessage ------------------------------
(***************************************************************************)
(* DNS messages as bilalcast/mdns_client reads and writes them: parser.py,  *)
(* the to_bytes methods of structs.py and the helpers of util.py.           *)
(*                                                                         *)
(* A message, a label and a string are sequences of bytes.  On the network  *)
(* a name is a list of labels; in memory it is one string, its labels       *)
(* joined by dots, so that a dot within a label is lost on the way out.     *)
(* Offsets count from 0, as in the code.  A message that is cut short, or   *)
(* has a label that is not UTF-8, makes the code raise: it is left out.     *)
(***************************************************************************)
EXTENDS Integers, SequencesExt

TYPE_A == 1
TYPE_NS == 2
TYPE_CNAME == 5
TYPE_SOA == 6
TYPE_PTR == 12
TYPE_TXT == 16
TYPE_SRV == 33
CLASS_IN == 1
DEFAULT_TTL == 120
QR_RESPONSE == 32768
AUTHORITATIVE == 1024
POINTER == 49152       \* REPEAT_TYPE_FLAG << 8
DOT == 46

At(bytes, offset) == bytes[offset + 1]
Slice(bytes, from, to) == SubSeq(bytes, from + 1, to)
Word(bytes, offset) == At(bytes, offset) * 256 + At(bytes, offset + 1)
TwoBytes(n) == <<n \div 256, n % 256>>

(* size & REPEAT_TYPE_FLAG == REPEAT_TYPE_FLAG *)
IsPointer(byte) == byte >= 192

Lower(string) ==
  [i \in DOMAIN string |-> IF string[i] \in 65 .. 90 THEN string[i] + 32 ELSE string[i]]

(* ".".join *)
Joined(labels) ==
  IF labels = <<>> THEN <<>>
  ELSE Tail(FlattenSeq([i \in DOMAIN labels |-> <<DOT>> \o labels[i]]))

(* check_name: the string is split at its dots; one at its end is dropped. *)
CheckName(string) ==
  LET Split(parts, byte) == IF byte = DOT THEN Append(parts, <<>>)
                            ELSE [parts EXCEPT ![Len(parts)] = Append(@, byte)]
      parts == FoldLeft(Split, << <<>> >>, string)
  IN  IF Last(parts) = <<>> THEN Front(parts) ELSE parts
-----------------------------------------------------------------------------
(* Reading. *)

(* Mutant: parsing goes on after the name that a pointer leads to. *)
ParseNameNoReturn(buffer, offset) ==
  LET name[i \in Nat] ==
        LET size == At(buffer, i)
            rest == name[IF IsPointer(size) THEN Word(buffer, i) - POINTER ELSE i + 1 + size]
        IN  IF size = 0 THEN [bytes |-> <<0>>, next |-> i + 1]
            ELSE IF IsPointer(size) THEN rest
            ELSE [rest EXCEPT !.bytes = Slice(buffer, i, i + 1 + size) \o @]
  IN  name[offset]

(* _parse_name: the name's bytes with all pointers followed, and where
   parsing goes on. *)
ParseName(buffer, offset) ==
  LET name[i \in Nat] ==
        LET size == At(buffer, i)
            rest == name[IF IsPointer(size) THEN Word(buffer, i) - POINTER ELSE i + 1 + size]
        IN  IF size = 0 THEN [bytes |-> <<0>>, next |-> i + 1]
            ELSE IF IsPointer(size) THEN [rest EXCEPT !.next = i + 2]
            ELSE [rest EXCEPT !.bytes = Slice(buffer, i, i + 1 + size) \o @]
  IN  name[offset]

(* bytes_to_name_list, and the loop of _parse_record_name. *)
NameList(data) ==
  LET labels[i \in Nat] ==
        IF i >= Len(data) \/ At(data, i) = 0 THEN <<>>
        ELSE <<Slice(data, i + 1, i + 1 + At(data, i))>> \o labels[i + 1 + At(data, i)]
  IN  labels[0]

(* _expand_name: the same for a name in a record's data. *)
ExpandName(buffer, entry) ==
  LET expanded[i \in Nat] ==
        IF i >= Len(entry) THEN <<>>
        ELSE IF IsPointer(At(entry, i))
          THEN ParseName(buffer, Word(entry, i) - POINTER).bytes \o expanded[i + 2]
        ELSE LET end == i + 1 + At(entry, i) IN Slice(entry, i, end) \o expanded[end]
  IN  expanded[0]

NoEnd == -1      \* raises IndexError

(* end_index_of_name, which does not count a label's length byte. *)
EndOfName(entry, offset) ==
  LET end[i \in Nat] ==
        IF i >= Len(entry) THEN NoEnd
        ELSE IF IsPointer(At(entry, i)) THEN i + 2
        ELSE IF At(entry, i) = 0 THEN i + 1
        ELSE end[i + At(entry, i)]
  IN  end[offset]

Unreadable == <<"IndexError">>

ParseSoa(buffer, entry) ==
  LET m == EndOfName(entry, 0)
      r == IF m = NoEnd THEN NoEnd ELSE EndOfName(entry, m)
  IN  IF r = NoEnd THEN Unreadable
      ELSE ExpandName(buffer, Slice(entry, 0, m)) \o ExpandName(buffer, Slice(entry, m, r))
             \o Slice(entry, r, Len(entry))

(* parse_record: the data of records that may hold compressed names is
   expanded.  Class and time to live are skipped here. *)
ParseRecord(buffer, offset) ==
  LET name == ParseName(buffer, offset)
      type == Word(buffer, name.next)
      start == name.next + 10
      end == start + Word(buffer, start - 2)
      entry == Slice(buffer, start, end)
  IN  [next |-> end,
       item |-> [name |-> Joined(NameList(name.bytes)), type |-> type, rdata |->
                   CASE type \in {TYPE_PTR, TYPE_NS, TYPE_CNAME} -> ExpandName(buffer, entry)
                     [] type = TYPE_SRV ->
                          Slice(entry, 0, 6) \o ExpandName(buffer, Slice(entry, 6, Len(entry)))
                     [] type = TYPE_SOA -> ParseSoa(buffer, entry)
                     [] OTHER -> entry]]

(* parse_question: names in small letters. *)
ParseQuestion(buffer, offset) ==
  LET name == ParseName(buffer, offset)
  IN  [next |-> name.next + 4,
       item |-> [name |-> Lower(Joined(NameList(name.bytes))), type |-> Word(buffer, name.next)]]

(* parse_questions with question set, parse_answers without. *)
ParseList(question, buffer, offset, count) ==
  LET parsed[n \in Nat] ==
        IF n = 0 THEN [next |-> offset, items |-> <<>>]
        ELSE LET from == parsed[n - 1].next
                 one == IF question THEN ParseQuestion(buffer, from) ELSE ParseRecord(buffer, from)
             IN  [next |-> one.next, items |-> Append(parsed[n - 1].items, one.item)]
  IN  parsed[count]

(* parse_packet; the three sections of records are one list here. *)
ParsePacket(buffer) ==
  LET questions == ParseList(TRUE, buffer, 12, Word(buffer, 4))
      records == ParseList(FALSE, buffer, questions.next,
                           Word(buffer, 6) + Word(buffer, 8) + Word(buffer, 10))
  IN  [id |-> Word(buffer, 0), response |-> Word(buffer, 2) >= QR_RESPONSE,
       questions |-> questions.items, records |-> records.items]

Parses(packet) == \A i \in DOMAIN packet.records : packet.records[i].rdata # Unreadable

(* What the discovery gathers from a record: the name of a PTR, port and
   target of an SRV, the strings of a TXT, the address of an A. *)
Reading(record) ==
  CASE record.type \in {TYPE_PTR, TYPE_NS, TYPE_CNAME} -> Joined(NameList(record.rdata))
    [] record.type = TYPE_SRV ->
         <<Word(record.rdata, 4), Lower(Joined(NameList(Slice(record.rdata, 6, Len(record.rdata)))))>>
    [] record.type = TYPE_TXT -> NameList(record.rdata)
    [] OTHER -> record.rdata
-----------------------------------------------------------------------------
(* Writing. *)

(* pack_name: no compression. *)
PackName(labels) == FlattenSeq([i \in DOMAIN labels |-> <<Len(labels[i])>> \o labels[i]]) \o <<0>>

(* DNSRecord.to_bytes *)
RecordBytes(name, type, rdata) ==
  PackName(CheckName(name)) \o TwoBytes(type) \o TwoBytes(CLASS_IN)
    \o <<0, 0>> \o TwoBytes(DEFAULT_TTL) \o TwoBytes(Len(rdata)) \o rdata

(* DNSResponse.to_bytes with one answer. *)
ResponseBytes(id, answer) ==
  TwoBytes(id) \o TwoBytes(QR_RESPONSE + AUTHORITATIVE)
    \o TwoBytes(0) \o TwoBytes(1) \o TwoBytes(0) \o TwoBytes(0) \o answer

(* DNSQuestionWrapper.to_bytes *)
QuestionBytes(questions) ==
  LET One(q) == PackName(CheckName(q.name)) \o TwoBytes(q.type) \o TwoBytes(CLASS_IN)
  IN  [i \in 1 .. 12 |-> IF i = 6 THEN Len(questions) ELSE 0]
        \o FlattenSeq([i \in DOMAIN questions |-> One(questions[i])])
=============================================================================
