------------------------- MODULE MdnsDiscoveryProofs -------------------------
(* A search of the network finds what describes itself, nothing that does not,
   and asks for what is missing, for any number of devices, queries and waiting
   addresses. *)
EXTENDS MdnsDiscovery, FiniteSetTheorems, TLAPS

(* Devices whose PTR record came during the present query. *)
Announced == {d \in Devices : "PTR" \in parts[d]}

(* Outside of a query nothing is known: stop() has emptied it all, and what a
   late response adds waits in the buffer. *)
QuietKnowsNothing == pc # "querying" => services = {} /\ Announced = {}

(* A device that described itself completely stays complete until the query
   ends, and its caller keeps it from then on. *)
HeardKept ==
  /\ pc = "idle" => heard = {}
  /\ finding /\ Wanted \in heard =>
       \/ pc = "querying" /\ Wanted \in txt \cap ips
       \/ pc = "over" /\ found
  /\ ~finding => \A d \in heard : d \in listed.all \/ (pc = "querying" /\ d \in txt)

(* What is known of a device was heard since the last query ended. *)
HeardHosts == {h \in Hosts : h \in Devices => "A" \in parts[h]}

KnownIsHeard ==
  /\ \A d \in services : "SRV" \in parts[d]
  /\ \A d \in txt : "TXT" \in parts[d]
  /\ \A d \in ips : "A" \in parts[d]
  /\ buffer \in Seq(HeardHosts)

SearchInv ==
  /\ TypeOK
  /\ loops <= round
  /\ QuietKnowsNothing
  /\ HeardKept
  /\ finding /\ found => pc = "over"
  /\ KnownIsHeard
  /\ MissingIsAskedFor
-----------------------------------------------------------------------------
(* The buffer. *)

(* Each of the places in T is the k-th of them for one k. *)
LEMMA EveryRankIsTaken ==
  ASSUME NEW n \in Nat, NEW T \in SUBSET (1 .. n)
  PROVE  /\ IsFiniteSet(T) /\ Cardinality(T) \in 0 .. n
         /\ \A k \in 1 .. Cardinality(T) :
              \E i \in T : Cardinality({j \in T : j <= i}) = k
<1>. DEFINE Upto(i) == {j \in T : j <= i}
            Rank == [i \in T |-> Cardinality(Upto(i))]
            Ranks == 1 .. Cardinality(T)
<1>1. IsFiniteSet(T) /\ Cardinality(T) \in 0 .. n
  <2>1. IsFiniteSet(1 .. n) /\ Cardinality(1 .. n) = n
    BY FS_Interval
  <2>2. IsFiniteSet(T) /\ Cardinality(T) <= n
    BY <2>1, FS_Subset
  <2>. QED
    BY <2>2, FS_CardinalityType
<1>2. ASSUME NEW i \in T
      PROVE  IsFiniteSet(Upto(i)) /\ Cardinality(Upto(i)) \in Ranks
  <2>1. IsFiniteSet(Upto(i)) /\ Cardinality(Upto(i)) <= Cardinality(T)
    BY <1>1, FS_Subset
  <2>2. Cardinality(Upto(i)) \in Nat /\ Cardinality(Upto(i)) # 0
    <3>1. i \in Upto(i)
      OBVIOUS
    <3>. QED
      BY <2>1, <3>1, FS_CardinalityType, FS_EmptySet
  <2>. QED
    BY <1>1, <2>1, <2>2
<1>3. ASSUME NEW i \in T, NEW j \in T, i < j
      PROVE  Rank[i] # Rank[j]
  <2>1. Upto(i) \in SUBSET Upto(j) /\ j \notin Upto(i) /\ j \in Upto(j)
    <3>1. i \in Int /\ j \in Int /\ \A k \in T : k \in Int
      OBVIOUS
    <3>2. ASSUME NEW k \in Upto(i) PROVE k \in Upto(j)
      BY <1>3, <3>1
    <3>3. j \notin Upto(i)
      BY <1>3, <3>1
    <3>4. j \in Upto(j)
      BY <3>1
    <3>. QED
      BY <3>2, <3>3, <3>4
  <2>2. IsFiniteSet(Upto(j))
    BY <1>2
  <2>3. Cardinality(Upto(i)) # Cardinality(Upto(j))
    BY <2>1, <2>2, FS_Subset
  <2>. QED
    BY <2>3
<1>4. Rank \in Injection(T, Ranks)
  <2>1. Rank \in [T -> Ranks]
    BY <1>2
  <2>2. \A i, j \in T : Rank[i] = Rank[j] => i = j
    <3>1. \A i, j \in T : i < j \/ j < i \/ i = j
      OBVIOUS
    <3>. QED
      BY <1>3, <3>1
  <2>. QED
    BY <2>1, <2>2 DEF Injection, IsInjective
<1>5. Rank \in Surjection(T, Ranks)
  <2>1. IsFiniteSet(Ranks) /\ Cardinality(Ranks) = Cardinality(T)
    BY <1>1, FS_Interval
  <2>. QED
    BY <1>4, <2>1, FS_Injection
<1>. QED
  BY <1>1, <1>5 DEF Surjection

(* What is left of a sequence without the entries of one host. *)
LEMMA WithoutProperties ==
  ASSUME NEW S, NEW s \in Seq(S), NEW d
  PROVE  /\ Without(s, d) \in Seq(S)
         /\ Len(Without(s, d)) <= Len(s)
         /\ \A k \in 1 .. Len(Without(s, d)) : Without(s, d)[k] # d
<1>. DEFINE kept == {i \in DOMAIN s : s[i] # d}
            Upto(i) == {j \in kept : j <= i}
            place(k) == CHOOSE i \in kept : Cardinality(Upto(i)) = k
<1>1. kept \in SUBSET (1 .. Len(s)) /\ Len(s) \in Nat
  OBVIOUS
<1>2. Cardinality(kept) \in 0 .. Len(s)
  BY <1>1, EveryRankIsTaken
<1>3. ASSUME NEW k \in 1 .. Cardinality(kept)
      PROVE  s[place(k)] \in S /\ s[place(k)] # d
  <2>1. \E i \in kept : Cardinality(Upto(i)) = k
    BY <1>1, EveryRankIsTaken
  <2>2. place(k) \in kept
    BY <2>1
  <2>. QED
    BY <1>1, <2>2
<1>. HIDE DEF place
<1>4. DEFINE m == Cardinality(kept)
             r == [k \in 1 .. m |-> s[place(k)]]
<1>5. Without(s, d) = r
  BY DEF Without, place
<1>6. m \in Nat /\ m <= Len(s)
  BY <1>1, <1>2
<1>. HIDE DEF m
<1>7. r \in Seq(S) /\ Len(r) = m
  BY <1>3, <1>6 DEF m
<1>. QED
  BY <1>3, <1>5, <1>6, <1>7 DEF m
-----------------------------------------------------------------------------
(* The actions. *)

LEMMA InitSearchInv == Init => SearchInv
<1>. SUFFICES ASSUME Init PROVE SearchInv
  OBVIOUS
<1>1. buffer \in Seq(Hosts) /\ Len(buffer) <= BUFFER_SIZE
  BY ConstantsAssumption DEF Init
<1>2. listed.all = {} /\ listed.hosts = {}
  BY DEF Init
<1>3. /\ pc = "idle" /\ finding \in BOOLEAN /\ round = 0 /\ loops = 0 /\ found = FALSE
      /\ services = {} /\ ips = {} /\ txt = {} /\ askSrv = {} /\ askA = {}
      /\ heard = {} /\ parts = [d \in Devices |-> {}] /\ Announced = {}
  BY DEF Init, Announced
<1>4. TypeOK
  <2>1. round \in 0 .. ROUNDS /\ loops \in 0 .. ROUNDS
    BY <1>3, ConstantsAssumption
  <2>2. listed.all \subseteq Devices /\ listed.hosts \subseteq listed.all
    BY <1>2
  <2>. QED
    BY <1>1, <1>3, <2>1, <2>2 DEF TypeOK
<1>5. MissingIsAskedFor
  BY <1>3 DEF MissingIsAskedFor
<1>6. KnownIsHeard
  <2>1. buffer \in Seq(HeardHosts)
    BY DEF Init
  <2>. QED
    BY <1>3, <2>1 DEF KnownIsHeard
<1>. QED
  BY <1>3, <1>4, <1>5, <1>6 DEF SearchInv, QuietKnowsNothing, HeardKept

(* An address is used, or waits if there is room. *)
LEMMA AddressKeeps ==
  ASSUME TypeOK, NEW h \in Hosts, OnAddress(h)
  PROVE  /\ buffer' \in Seq(Hosts) /\ Len(buffer') <= BUFFER_SIZE
         /\ \A S : buffer \in Seq(S) /\ h \in S => buffer' \in Seq(S)
         /\ ips \subseteq ips' /\ ips' \subseteq ips \cup {h} /\ ips' \subseteq services
         /\ askA' \subseteq askA
         /\ services \ ips \subseteq askA => services \ ips' \subseteq askA'
         /\ h \in services => h \in ips'
BY ConstantsAssumption DEF TypeOK, OnAddress, Buffered

(* The hosts that were heard become more until the query ends. *)
LEMMA HeardGrows ==
  ASSUME \A e \in Devices : parts[e] \subseteq parts'[e]
  PROVE  HeardHosts \subseteq HeardHosts' /\ Seq(HeardHosts) \subseteq Seq(HeardHosts')
<1>1. HeardHosts \subseteq HeardHosts'
  BY DEF HeardHosts
<1>. QED
  BY <1>1

LEMMA ResponseHeard ==
  ASSUME TypeOK, NEW d \in Devices, NEW kinds \in Kinds, Response(d, kinds)
  PROVE  /\ parts' \in [Devices -> SUBSET {"PTR", "SRV", "A", "TXT"}]
         /\ \A e \in Devices : parts[e] \subseteq parts'[e]
         /\ \A e \in Devices : e # d => parts'[e] = parts[e]
         /\ Monitored => parts'[d] = parts[d] \cup kinds
         /\ "A" \in kinds => "A" \in parts'[d]
         /\ Announced' \subseteq Announced \cup {d} /\ Announced \subseteq Announced'
         /\ d \in Announced' => d \in Announced \/ (Monitored /\ "PTR" \in kinds)
<1>1. /\ parts \in [Devices -> SUBSET {"PTR", "SRV", "A", "TXT"}]
      /\ kinds \in SUBSET {"PTR", "SRV", "A", "TXT"}
      /\ parts' = [parts EXCEPT ![d] = @ \cup (IF Monitored THEN kinds ELSE kinds \cap {"A"})]
  BY DEF TypeOK, Kinds, Response
<1>2. /\ parts' \in [Devices -> SUBSET {"PTR", "SRV", "A", "TXT"}]
      /\ \A e \in Devices : parts[e] \subseteq parts'[e]
      /\ \A e \in Devices : e # d => parts'[e] = parts[e]
      /\ Monitored => parts'[d] = parts[d] \cup kinds
      /\ ~Monitored => parts'[d] = parts[d] \cup (kinds \cap {"A"})
  BY <1>1
<1>. QED
  BY <1>2 DEF Announced

LEMMA ResponseKeeps ==
  ASSUME SearchInv, NEW d \in Devices, NEW kinds \in Kinds, Response(d, kinds)
  PROVE  SearchInv'
<1>. d \in Hosts
  BY DEF Hosts
<1>. UNCHANGED <<pc, finding, round, loops, found, listed>>
  BY DEF Response, result
<1>0. /\ parts' \in [Devices -> SUBSET {"PTR", "SRV", "A", "TXT"}]
      /\ \A e \in Devices : parts[e] \subseteq parts'[e]
      /\ Monitored => kinds \subseteq parts'[d]
      /\ "A" \in kinds => "A" \in parts'[d]
      /\ Announced' \subseteq Announced \cup {d}
      /\ d \in Announced' => d \in Announced \/ (Monitored /\ "PTR" \in kinds)
      /\ services \subseteq Devices /\ txt \subseteq Devices /\ ips \subseteq Devices
  BY ResponseHeard DEF SearchInv, TypeOK
<1>00. Seq(HeardHosts) \subseteq Seq(HeardHosts') /\ HeardHosts \subseteq HeardHosts'
  BY <1>0, HeardGrows
<1>1. CASE Monitored /\ "SRV" \in kinds
  <2>1. OnSrv(d, kinds)
    BY <1>1 DEF Response
  <2>2. buffer' \in Seq(Hosts) /\ Len(buffer') <= BUFFER_SIZE
    <3>1. buffer \in Seq(Hosts) /\ Len(buffer) <= BUFFER_SIZE /\ BUFFER_SIZE \in Nat
      BY ConstantsAssumption DEF SearchInv, TypeOK
    <3>2. buffer' = Without(buffer, d)
      BY <2>1 DEF OnSrv
    <3>3. Without(buffer, d) \in Seq(Hosts) /\ Len(Without(buffer, d)) <= Len(buffer)
      BY <3>1, WithoutProperties
    <3>. QED
      BY <3>1, <3>2, <3>3
  <2>3. /\ services' = services \cup {d}
        /\ ips \subseteq ips' /\ ips' \subseteq ips \cup {d}
        /\ "A" \in kinds => d \in ips'
        /\ askA' \subseteq askA \cup {d}
        /\ askSrv' \subseteq askSrv \cup {d} /\ askSrv \subseteq askSrv' \cup {d}
        /\ services' \ ips' \subseteq askA'
    BY <2>1 DEF OnSrv, SrvAsked, SearchInv, MissingIsAskedFor
  <2>3a. d \in ips' => d \in ips \/ d \in ToSet(buffer) \/ "A" \in kinds
    BY <2>1 DEF OnSrv
  <2>4. txt' = IF "TXT" \in kinds THEN txt \cup {d} ELSE txt
    BY <2>3 DEF Response, OnTxt
  <2>5. /\ heard' \subseteq heard \cup {d} /\ heard \subseteq heard'
        /\ d \in heard' => d \in heard \/ {"A", "TXT"} \subseteq kinds
    BY DEF Response
  <2>6. TypeOK'
    BY <1>0, <2>2, <2>3, <2>4, <2>5 DEF SearchInv, TypeOK
  <2>7. HeardKept'
    BY <1>1, <2>3, <2>4, <2>5 DEF SearchInv, HeardKept, Monitored
  <2>8. MissingIsAskedFor'
    BY <1>0, <2>3 DEF SearchInv, MissingIsAskedFor, Announced
  <2>9. KnownIsHeard'
    <3>1. "SRV" \in parts'[d] /\ kinds \subseteq parts'[d]
      BY <1>0, <1>1
    <3>2. d \in ToSet(buffer) => "A" \in parts[d]
      BY DEF ToSet, SearchInv, KnownIsHeard, HeardHosts
    <3>3. buffer' \in Seq(HeardHosts)
      <4>1. buffer' = Without(buffer, d) /\ buffer \in Seq(HeardHosts)
        BY <2>1 DEF OnSrv, SearchInv, KnownIsHeard
      <4>. QED
        BY <4>1, WithoutProperties
    <3>4. buffer' \in Seq(HeardHosts')
      BY <1>00, <3>3
    <3>5. \A e \in services' : "SRV" \in parts'[e]
      BY <1>0, <2>3, <3>1 DEF SearchInv, KnownIsHeard
    <3>6. \A e \in txt' : "TXT" \in parts'[e]
      BY <1>0, <2>4, <3>1 DEF SearchInv, KnownIsHeard
    <3>7. \A e \in ips' : "A" \in parts'[e]
      BY <1>0, <2>3, <2>3a, <3>2 DEF SearchInv, KnownIsHeard
    <3>. QED
      BY <3>4, <3>5, <3>6, <3>7 DEF KnownIsHeard
  <2>. QED
    BY <1>1, <2>6, <2>7, <2>8, <2>9 DEF SearchInv, QuietKnowsNothing, Monitored
<1>2. CASE ~(Monitored /\ "SRV" \in kinds)
  <2>1. NoSrv(d, kinds) /\ UNCHANGED <<services, heard>>
    BY <1>2 DEF Response, NoSrv
  <2>2. /\ buffer' \in Seq(Hosts) /\ Len(buffer') <= BUFFER_SIZE
        /\ ips \subseteq ips' /\ ips' \subseteq services
        /\ askA' \subseteq askA /\ services \ ips' \subseteq askA'
    <3>1. CASE OnAddress(d)
      BY <3>1, AddressKeeps DEF SearchInv, MissingIsAskedFor
    <3>2. CASE UNCHANGED <<ips, askA, buffer>>
      BY <3>2 DEF SearchInv, TypeOK, MissingIsAskedFor
    <3>. QED
      BY <2>1, <3>1, <3>2 DEF NoSrv
  <2>3. txt \subseteq txt' /\ txt' \subseteq services
    BY <2>1 DEF Response, OnTxt, SearchInv, TypeOK
  <2>4. /\ askSrv \subseteq askSrv' /\ askSrv' \subseteq askSrv \cup {d}
        /\ Monitored /\ "PTR" \in kinds => d \in askSrv'
    BY <2>1 DEF NoSrv, SrvAsked
  <2>5. TypeOK'
    BY <1>0, <2>1, <2>2, <2>3, <2>4 DEF SearchInv, TypeOK
  <2>6. HeardKept'
    BY <2>1, <2>2, <2>3 DEF SearchInv, HeardKept
  <2>7. MissingIsAskedFor'
    BY <1>0, <2>1, <2>2, <2>4 DEF SearchInv, MissingIsAskedFor, Announced
  <2>8. KnownIsHeard'
    <3>1. \A e \in services' : "SRV" \in parts'[e]
      BY <1>0, <2>1 DEF SearchInv, KnownIsHeard
    <3>2. \A e \in txt' : "TXT" \in parts'[e]
      <4>1. txt' = txt \/ (txt' = txt \cup {d} /\ "TXT" \in kinds /\ d \in services')
        BY DEF Response, OnTxt
      <4>2. d \in services' => Monitored
        BY <2>1 DEF SearchInv, QuietKnowsNothing, Monitored
      <4>. QED
        BY <1>0, <4>1, <4>2 DEF SearchInv, KnownIsHeard
    <3>3. buffer \in Seq(HeardHosts') /\ \A e \in ips : "A" \in parts'[e]
      BY <1>0, <1>00 DEF SearchInv, KnownIsHeard
    <3>4. CASE OnAddress(d) /\ "A" \in kinds
      <4>1. d \in HeardHosts'
        BY <1>0, <3>4 DEF HeardHosts, Hosts
      <4>2. buffer' \in Seq(HeardHosts') /\ ips' \subseteq ips \cup {d}
        BY <3>3, <3>4, <4>1, AddressKeeps DEF SearchInv
      <4>. QED
        BY <1>0, <3>1, <3>2, <3>3, <3>4, <4>2 DEF KnownIsHeard
    <3>5. CASE UNCHANGED <<ips, askA, buffer>>
      BY <3>1, <3>2, <3>3, <3>5 DEF KnownIsHeard
    <3>. QED
      BY <2>1, <3>4, <3>5 DEF NoSrv
  <2>9. QuietKnowsNothing'
    BY <1>0, <2>1 DEF SearchInv, QuietKnowsNothing, Monitored
  <2>. QED
    BY <2>5, <2>6, <2>7, <2>8, <2>9 DEF SearchInv
<1>. QED
  BY <1>1, <1>2

LEMMA OtherAddressKeeps ==
  ASSUME SearchInv, NEW h \in Others, OtherAddress(h)
  PROVE  SearchInv'
<1>1. OnAddress(h) /\ h \in Hosts
      /\ UNCHANGED <<pc, finding, round, services, txt, askSrv, loops, found, listed, heard, parts>>
  BY DEF OtherAddress, Hosts, result, history
<1>2. /\ buffer' \in Seq(Hosts) /\ Len(buffer') <= BUFFER_SIZE
      /\ ips \subseteq ips' /\ ips' \subseteq services
      /\ askA' \subseteq askA /\ services \ ips' \subseteq askA'
  BY <1>1, AddressKeeps DEF SearchInv, MissingIsAskedFor
<1>3. TypeOK'
  BY <1>1, <1>2 DEF SearchInv, TypeOK
<1>4. KnownIsHeard'
  <2>1. h \notin Devices /\ h \in HeardHosts /\ h \notin services
    BY <1>1, ConstantsAssumption DEF HeardHosts, ConstantsAssumption, SearchInv, TypeOK
  <2>2. buffer' \in Seq(HeardHosts) /\ UNCHANGED ips
    BY <1>1, <2>1, AddressKeeps DEF OnAddress, SearchInv, KnownIsHeard
  <2>3. HeardHosts' = HeardHosts
    BY <1>1 DEF HeardHosts
  <2>. QED
    BY <1>1, <2>2, <2>3 DEF SearchInv, KnownIsHeard
<1>5. QuietKnowsNothing' /\ HeardKept' /\ MissingIsAskedFor'
  BY <1>1, <1>2 DEF SearchInv, QuietKnowsNothing, HeardKept, MissingIsAskedFor, Announced
<1>. QED
  BY <1>1, <1>3, <1>4, <1>5 DEF SearchInv

(* A query begins with nothing known. *)
LEMMA StartKeeps ==
  ASSUME SearchInv, StartQuery
  PROVE  SearchInv'
<1>1. /\ pc \in {"idle", "pause"} /\ pc' = "querying"
      /\ round < ROUNDS /\ round' = round + 1 /\ loops' = loops + 1
      /\ UNCHANGED <<finding, services, ips, txt, buffer, askSrv, askA, found, listed, heard, parts>>
  BY DEF StartQuery, discovery, result, history
<1>2. TypeOK'
  BY <1>1, ConstantsAssumption DEF SearchInv, TypeOK
<1>3. loops' <= round'
  BY <1>1 DEF SearchInv, TypeOK
<1>4. KnownIsHeard' /\ MissingIsAskedFor'
  BY <1>1 DEF SearchInv, KnownIsHeard, HeardHosts, MissingIsAskedFor
<1>5. HeardKept'
  BY <1>1 DEF SearchInv, QuietKnowsNothing, HeardKept
<1>. QED
  BY <1>1, <1>2, <1>3, <1>4, <1>5 DEF SearchInv, QuietKnowsNothing

LEMMA ChangeLoopKeeps ==
  ASSUME SearchInv, WakeChangeLoop
  PROVE  SearchInv'
<1>1. UNCHANGED <<pc, finding, round, services, ips, txt, askSrv, askA, found, listed, heard, parts>>
  BY DEF WakeChangeLoop, result, history
<1>2. /\ loops' \in 0 .. loops
      /\ buffer' \in Seq(Hosts) /\ Len(buffer') <= BUFFER_SIZE
      /\ \A S : buffer \in Seq(S) => buffer' \in Seq(S)
  <2>. USE ConstantsAssumption DEF SearchInv, TypeOK
  <2>1. CASE loops' = loops - 1 /\ UNCHANGED buffer
    BY <2>1 DEF WakeChangeLoop
  <2>2. CASE UNCHANGED loops /\ \E kept \in 0 .. Len(buffer) :
               buffer' = SubSeq(buffer, Len(buffer) - kept + 1, Len(buffer))
    <3>1. PICK kept \in 0 .. Len(buffer) :
            buffer' = SubSeq(buffer, Len(buffer) - kept + 1, Len(buffer))
      BY <2>2
    <3>2. buffer \in Seq(Hosts) /\ Len(buffer) \in Nat
      OBVIOUS
    <3>3. \A m \in 1 .. Len(buffer) + 1 :
            /\ \A S : buffer \in Seq(S) => SubSeq(buffer, m, Len(buffer)) \in Seq(S)
            /\ Len(SubSeq(buffer, m, Len(buffer))) = Len(buffer) - m + 1
      BY <3>2
    <3>. QED
      BY <2>2, <3>1, <3>2, <3>3
  <2>. QED
    BY <2>1, <2>2 DEF WakeChangeLoop
<1>3. TypeOK' /\ loops' <= round'
  BY <1>1, <1>2, ConstantsAssumption DEF SearchInv, TypeOK
<1>4. KnownIsHeard'
  BY <1>1, <1>2 DEF SearchInv, KnownIsHeard, HeardHosts
<1>. QED
  BY <1>1, <1>3, <1>4 DEF SearchInv, QuietKnowsNothing, HeardKept, MissingIsAskedFor, Announced

(* What was complete when the query ends is found or listed. *)
LEMMA EndKeeps ==
  ASSUME SearchInv, EndQuery
  PROVE  SearchInv'
<1>1. /\ pc = "querying"
      /\ services' = {} /\ ips' = {} /\ txt' = {} /\ buffer' = <<>>
      /\ askSrv' = {} /\ askA' = {} /\ parts' = [d \in Devices |-> {}]
      /\ UNCHANGED <<finding, round, loops, heard>>
  BY DEF EndQuery, Stop
<1>2. buffer' \in Seq(Hosts) /\ Len(buffer') <= BUFFER_SIZE /\ buffer' \in Seq(HeardHosts')
  BY <1>1, ConstantsAssumption
<1>2a. QuietKnowsNothing' /\ MissingIsAskedFor' /\ KnownIsHeard'
  BY <1>1, <1>2 DEF QuietKnowsNothing, MissingIsAskedFor, KnownIsHeard, Announced
<1>3. CASE finding
  <2>1. Find
    BY <1>3 DEF EndQuery
  <2>2. TypeOK'
    BY <1>1, <1>2, <2>1 DEF Find, SearchInv, TypeOK
  <2>3. HeardKept'
    BY <1>1, <1>3, <2>1 DEF Find, SearchInv, HeardKept
  <2>. QED
    BY <1>1, <1>2a, <2>1, <2>2, <2>3 DEF Find, SearchInv
<1>4. CASE ~finding
  <2>1. List
    BY <1>4 DEF EndQuery
  <2>2. /\ listed'.all = listed.all \cup txt
        /\ listed'.hosts = listed.hosts \cup ((txt \ listed.all) \cap ips)
    BY <2>1 DEF List
  <2>3. TypeOK'
    BY <1>1, <1>2, <2>1, <2>2 DEF List, SearchInv, TypeOK
  <2>4. HeardKept'
    BY <1>1, <1>4, <2>1, <2>2 DEF List, SearchInv, HeardKept
  <2>. QED
    BY <1>1, <1>2a, <1>4, <2>1, <2>2, <2>3, <2>4 DEF List, SearchInv
<1>. QED
  BY <1>3, <1>4
-----------------------------------------------------------------------------
(* The invariant holds in every state of a search. *)
THEOREM SearchInvariant == Spec => []SearchInv
<1>1. SearchInv /\ [Next]_vars => SearchInv'
  <2>1. SearchInv /\ UNCHANGED vars => SearchInv'
    BY DEF SearchInv, TypeOK, QuietKnowsNothing, HeardKept, MissingIsAskedFor,
           KnownIsHeard, HeardHosts, Announced, vars, discovery, result, history
  <2>. QED
    BY <2>1, ResponseKeeps, OtherAddressKeeps, StartKeeps, ChangeLoopKeeps, EndKeeps DEF Next
<1>. QED
  BY InitSearchInv, <1>1, PTL DEF Spec

(* Type correctness, the bound of the buffer among it, for any network. *)
THEOREM SearchTypes == Spec => []TypeOK
BY SearchInvariant, PTL DEF SearchInv

(* A Chromecast that describes itself completely in one packet is found or
   listed, in whichever query and whatever else arrives (discovery.py:59-118). *)
HeardIsFound ==
  /\ pc = "over" /\ finding /\ Wanted \in heard => found
  /\ pc \in {"pause", "over"} /\ ~finding => heard \subseteq listed.all

THEOREM HeardIsFoundHolds == Spec => []HeardIsFound
<1>1. SearchInv => HeardIsFound
  BY DEF SearchInv, HeardKept, HeardIsFound
<1>. QED
  BY SearchInvariant, <1>1, PTL

(* What is missing stays in the questions of the next response
   (mdns_client's discovery.py:234-246). *)
THEOREM MissingIsAskedForHolds == Spec => []MissingIsAskedFor
BY SearchInvariant, PTL DEF SearchInv
-----------------------------------------------------------------------------
(* A search implements SearchPromise, step by step. *)

LEMMA PromiseVars ==
  UNCHANGED <<pc, finding, round, found, listed, heard, parts>> => UNCHANGED Promise!vars
BY DEF Promise!vars

LEMMA PromiseBegins == Init => Promise!Init
<1>. SUFFICES ASSUME Init PROVE Promise!Init
  OBVIOUS
<1>1. /\ pc = "idle" /\ round = 0 /\ heard = {} /\ parts = [d \in Devices |-> {}]
      /\ found = FALSE /\ listed.all = {} /\ listed.hosts = {}
  BY DEF Init
<1>. QED
  BY <1>1, ConstantsAssumption DEF Promise!Init, ConstantsAssumption

LEMMA StartPromised ==
  ASSUME SearchInv, StartQuery
  PROVE  Promise!Next
<1>1. /\ pc \in {"idle", "pause"} /\ pc' = "querying" /\ round < ROUNDS /\ round' = round + 1
      /\ UNCHANGED <<finding, found, listed, heard, parts>>
  BY DEF StartQuery, result, history
<1>. QED
  BY <1>1 DEF Promise!Next, Promise!Ask

LEMMA ResponsePromised ==
  ASSUME SearchInv, NEW d \in Devices, NEW kinds \in Kinds, Response(d, kinds)
  PROVE  Promise!Next
<1>1. /\ pc \in {"querying", "pause"} /\ UNCHANGED <<pc, finding, round, found, listed>>
      /\ parts' = [parts EXCEPT ![d] = @ \cup (IF Monitored THEN kinds ELSE kinds \cap {"A"})]
      /\ heard' = IF Monitored /\ {"SRV", "A", "TXT"} \subseteq kinds THEN heard \cup {d} ELSE heard
  BY DEF Response, result
<1>. DEFINE got == IF Monitored THEN kinds ELSE kinds \cap {"A"}
<1>2. got \in SUBSET {"PTR", "SRV", "A", "TXT"} /\ (~Monitored => got \subseteq {"A"})
  BY DEF Kinds
<1>3. parts' = [parts EXCEPT ![d] = @ \cup got]
  BY <1>1
<1>4. heard' = IF {"SRV", "TXT", "A"} \subseteq got THEN heard \cup {d} ELSE heard
  BY <1>1
<1>. HIDE DEF got
<1>5. Promise!Hear(d, got)
  BY <1>1, <1>2, <1>3, <1>4 DEF Promise!Hear, Promise!Whole, Monitored
<1>. QED
  BY <1>2, <1>5 DEF Promise!Next

LEMMA EndPromised ==
  ASSUME SearchInv, EndQuery
  PROVE  Promise!Next
<1>1. /\ pc = "querying" /\ parts' = [d \in Devices |-> {}]
      /\ UNCHANGED <<finding, round, heard>>
  BY DEF EndQuery, Stop
<1>2. /\ \A d \in txt : d \in Devices /\ {"SRV", "TXT"} \subseteq parts[d]
      /\ \A d \in ips : "A" \in parts[d]
  BY DEF SearchInv, TypeOK, KnownIsHeard
<1>3. CASE finding
  <2>1. /\ found' = (Wanted \in txt \cap ips) /\ ~found
        /\ pc' = IF found' \/ round = ROUNDS THEN "over" ELSE "pause"
    BY <1>1, <1>3 DEF EndQuery, Find, SearchInv
  <2>2. Wanted \in heard => found'
    BY <1>1, <1>3, <2>1 DEF SearchInv, HeardKept
  <2>3. found' => {"SRV", "TXT", "A"} \subseteq parts[Wanted]
    BY <1>2, <2>1
  <2>4. \/ pc' = "over" /\ (round = ROUNDS \/ found')
        \/ pc' = "pause" /\ round # ROUNDS
    BY <2>1
  <2>. QED
    BY <1>1, <1>3, <2>1, <2>2, <2>3, <2>4 DEF Promise!Next, Promise!Report, Promise!Whole
<1>4. CASE ~finding
  <2>1. /\ listed'.all = listed.all \cup txt
        /\ listed'.hosts = listed.hosts \cup ((txt \ listed.all) \cap ips)
        /\ pc' = IF round = ROUNDS THEN "over" ELSE "pause"
    BY <1>4 DEF EndQuery, List
  <2>2. heard \subseteq listed'.all
    BY <1>1, <1>4, <2>1 DEF SearchInv, HeardKept
  <2>3. listed.hosts \subseteq listed.all /\ listed'.hosts \subseteq listed'.all
    BY <2>1 DEF SearchInv, TypeOK
  <2>4. \/ pc' = "over" /\ round = ROUNDS
        \/ pc' = "pause" /\ round # ROUNDS
    BY <2>1
  <2>. QED
    BY <1>1, <1>2, <1>4, <2>1, <2>2, <2>3, <2>4 DEF Promise!Next, Promise!Report, Promise!Whole
<1>. QED
  BY <1>3, <1>4

(* A search keeps its promise on any network, with any number of queries and
   any order of packets: who describes itself is reported, and nobody is from
   what was heard before the last query ended, or of another device. *)
THEOREM SearchPromiseKept == Spec => KeepsPromise
<1>1. SearchInv /\ [Next]_vars => [Promise!Next]_(Promise!vars)
  <2>1. ASSUME WakeChangeLoop \/ (\E h \in Others : OtherAddress(h)) \/ UNCHANGED vars
        PROVE  UNCHANGED Promise!vars
    BY <2>1, PromiseVars DEF WakeChangeLoop, OtherAddress, vars, result, history
  <2>. QED
    BY <2>1, StartPromised, ResponsePromised, EndPromised DEF Next
<1>. QED
  BY PromiseBegins, SearchInvariant, <1>1, PTL DEF Spec, KeepsPromise, Promise!Spec
=============================================================================
