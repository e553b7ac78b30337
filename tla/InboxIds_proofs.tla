---------------------------- MODULE InboxIds_proofs ----------------------------
(***************************************************************************)
(* Theorems about the identifiers and the waterlines of the inbox, for     *)
(* every set of messages and of processes and every bound: its state keeps *)
(* its type, no id is a seen one without a message that was recorded, and  *)
(* no waterline passes a message that was neither recorded nor excused.    *)
(***************************************************************************)
EXTENDS Inbox, SeenIds_proofs, FiniteSetTheorems, SequenceTheorems, TLAPS

------------------------------------------------------------------------------
(***************************************************************************)
(* Messages in order of time.                                              *)
(***************************************************************************)
(* Any set of messages is finite. *)
LEMMA FiniteRecords ==
  ASSUME NEW S, S \subseteq Records
  PROVE  IsFiniteSet(S)
<1>1. IsFiniteSet(Records)
  BY ProcessesAssumption, FS_Union DEF Records
<1> QED BY <1>1, FS_Subset

(* The newest of some records. *)
LEMMA NewestExists ==
  ASSUME ServerOK, NEW S, S \subseteq Records, S # {}
  PROVE  \E m \in S : \A n \in S : stamp[n] <= stamp[m]
<1> DEFINE T == {stamp[m] : m \in S}
<1>1. MaxTime \in Nat /\ T \in SUBSET (0 .. MaxTime) /\ T # {}
  BY BoundsAssumption DEF ServerOK
<1> HIDE DEF T
<1>2. Max(T) \in T /\ \A t \in T : t <= Max(T)
  BY <1>1, MaxOfNumbers
<1>3. PICK m \in S : stamp[m] = Max(T)
  BY <1>2 DEF T
<1>4. \A n \in S : stamp[n] \in T
  BY DEF T
<1> QED BY <1>2, <1>3, <1>4

(* What InOrder chooses. *)
Sorts(s, S) ==
  /\ s \in [1 .. Cardinality(S) -> S]
  /\ IsInjective(s)
  /\ \A i, j \in DOMAIN s : i < j => stamp[s[i]] <= stamp[s[j]]

(* Any set of messages can be put in order: the newest one goes behind the others. *)
LEMMA SortExists ==
  ASSUME ServerOK, NEW S, S \subseteq Records
  PROVE  \E s : Sorts(s, S)
<1> DEFINE T == {k \in Nat : \E R \in SUBSET Records :
                               Cardinality(R) = k /\ ~\E s : Sorts(s, R)}
<1>1. ASSUME T # {} PROVE FALSE
  <2>1. T \subseteq Nat
    OBVIOUS
  <2> HIDE DEF T
  <2>2. PICK k \in T : \A j \in T : k <= j
    BY <1>1, <2>1, LeastElement
  <2>3. PICK R \in SUBSET Records : Cardinality(R) = k /\ ~\E s : Sorts(s, R)
    BY <2>2 DEF T
  <2>4. IsFiniteSet(R) /\ k \in Nat
    BY <2>1, FiniteRecords
  <2>5. CASE R = {}
    <3> DEFINE s == [i \in 1 .. 0 |-> 0]
    <3>1. Cardinality(R) = 0
      BY <2>5, FS_EmptySet
    <3>2. DOMAIN s = {} /\ s \in [1 .. 0 -> R]
      BY <2>5
    <3> HIDE DEF s
    <3>3. Sorts(s, R)
      BY <3>1, <3>2 DEF Sorts, IsInjective
    <3> QED BY <2>3, <3>3
  <2>6. CASE R # {}
    <3>1. PICK m \in R : \A n \in R : stamp[n] <= stamp[m]
      BY <2>6, NewestExists
    <3> DEFINE Q == R \ {m}
    <3>2. Cardinality(Q) = k - 1 /\ Cardinality(Q) \in Nat
      BY <2>3, <2>4, FS_RemoveElement, FS_CardinalityType
    <3>3. k - 1 \notin T
      BY <2>2, <2>4
    <3>4. PICK q : Sorts(q, Q)
      BY <3>2, <3>3 DEF T
    <3>5. /\ q \in [1 .. k - 1 -> Q]
          /\ \A i, j \in 1 .. k - 1 : q[i] = q[j] => i = j
          /\ \A i, j \in 1 .. k - 1 : i < j => stamp[q[i]] <= stamp[q[j]]
      BY <3>2, <3>4 DEF Sorts, IsInjective
    <3> DEFINE s == [i \in 1 .. k |-> IF i = k THEN m ELSE q[i]]
    <3>6. /\ s \in [1 .. k -> R] /\ DOMAIN s = 1 .. k
          /\ s[k] = m
          /\ \A i \in 1 .. k - 1 : s[i] = q[i] /\ s[i] \in R /\ s[i] # m
      BY <2>4, <3>2, <3>5
    <3>7. \A i \in 1 .. k : i = k \/ i \in 1 .. k - 1
      BY <2>4
    <3> HIDE DEF s, Q
    <3>8. \A i, j \in 1 .. k : s[i] = s[j] => i = j
      BY <3>5, <3>6, <3>7
    <3>9. \A i, j \in 1 .. k : i < j => stamp[s[i]] <= stamp[s[j]]
      <4> SUFFICES ASSUME NEW i \in 1 .. k, NEW j \in 1 .. k, i < j
                   PROVE  stamp[s[i]] <= stamp[s[j]]
        OBVIOUS
      <4>1. i \in 1 .. k - 1
        BY <2>4
      <4>2. CASE j = k
        BY <3>1, <3>6, <4>1, <4>2
      <4>3. CASE j # k
        BY <3>5, <3>6, <3>7, <4>1, <4>3
      <4> QED BY <4>2, <4>3
    <3>10. Sorts(s, R)
      BY <2>3, <3>6, <3>8, <3>9 DEF Sorts, IsInjective
    <3> QED BY <2>3, <3>10
  <2> QED BY <2>5, <2>6
<1>2. Cardinality(S) \in Nat
  BY FiniteRecords, FS_CardinalityType
<1> QED BY <1>1, <1>2

(* InOrder puts each message of a set into the sequence once, the oldest first. *)
LEMMA InOrderSorts ==
  ASSUME ServerOK, NEW S, S \subseteq Records
  PROVE  /\ InOrder(S) \in Seq(S)
         /\ ToSet(InOrder(S)) = S
         /\ \A i, j \in 1 .. Len(InOrder(S)) :
              i < j => stamp[InOrder(S)[i]] <= stamp[InOrder(S)[j]]
<1> DEFINE s == InOrder(S)
           k == Cardinality(S)
<1>1. Sorts(s, S)
  BY SortExists DEF InOrder, Sorts
<1>2. k \in Nat /\ IsFiniteSet(S)
  BY FiniteRecords, FS_CardinalityType
<1> HIDE DEF s
<1>3. s \in [1 .. k -> S] /\ DOMAIN s = 1 .. k
  BY <1>1 DEF Sorts
<1>4. s \in Seq(S) /\ Len(s) = k
  BY <1>2, <1>3
<1>5. s \in Injection(1 .. k, S)
  BY <1>1, <1>3 DEF Sorts, Injection, IsInjective
<1>6. IsFiniteSet(1 .. k) /\ Cardinality(1 .. k) = k
  BY <1>2, FS_Interval
<1>7. s \in Surjection(1 .. k, S)
  BY <1>2, <1>5, <1>6, FS_Injection
<1>8. ToSet(s) = S
  BY <1>3, <1>7 DEF Surjection, ToSet
<1>9. \A i, j \in 1 .. Len(s) : i < j => stamp[s[i]] <= stamp[s[j]]
  BY <1>1, <1>3, <1>4 DEF Sorts
<1> QED BY <1>4, <1>8, <1>9 DEF s
------------------------------------------------------------------------------
(***************************************************************************)
(* Type correctness.                                                       *)
(***************************************************************************)
(* TypeOK, and the domains that it leaves open. *)
TypeInv ==
  /\ TypeOK
  /\ file = [messages |-> file.messages, seen |-> file.seen]
  /\ ring = [p \in Processes |-> ring[p]]

Labels == {"new", "idle", "pull", "load", "save", "saveIds", "labels", "banner"}

(* The ids of a set of messages can be remembered by a ring of a set that has them. *)
LEMMA SortedKeepsRing ==
  ASSUME ServerOK, NEW S, NEW order \in RingOf(S), NEW M, M \subseteq Records,
         \A m \in M : IdsOf(m) \subseteq S
  PROVE  RememberAll(order, InOrder(M)) \in RingOf(S)
<1> DEFINE batch == InOrder(M)
<1>1. batch \in Seq(M)
  BY InOrderSorts
<1> HIDE DEF batch
<1>2. \A i \in 1 .. Len(batch) : batch[i] \in M /\ i \in DOMAIN batch
  BY <1>1
<1>3. \A m \in Accepted(order, batch) : m \in M
  BY <1>1 DEF Accepted
<1>4. RememberAll(order, batch) \in RingOf(S)
  BY <1>1, <1>2, <1>3, BatchKeepsRing
<1> QED BY <1>4 DEF batch

LEMMA EmptyRing == ASSUME NEW S PROVE <<>> \in RingOf(S)
BY CapacityAssumption DEF RingOf, IsInjective

LEMMA IdsAreIds == \A m \in Records : IdsOf(m) \subseteq Ids
BY DEF Ids

(* What a transaction finds. *)
LEMMA ReadableOK ==
  ASSUME TypeInv, NEW r \in Readable
  PROVE  /\ r.messages \subseteq Records
         /\ Cardinality(r.messages) <= MaxMessages
         /\ r.seen \in RingOf(Ids)
         /\ r = [messages |-> r.messages, seen |-> r.seen]
         /\ Seeded(r) \in RingOf(Ids)
<1>3. /\ r.messages \subseteq Records
      /\ Cardinality(r.messages) <= MaxMessages
      /\ r.seen \in RingOf(Ids)
      /\ r = [messages |-> r.messages, seen |-> r.seen]
  <2>1. CASE r = file
    BY <2>1 DEF TypeInv, TypeOK, FileOK
  <2>2. CASE r = Empty
    <3>1. Cardinality({}) = 0 /\ 0 <= MaxMessages
      BY FS_EmptySet, BoundsAssumption
    <3>2. r.messages = {} /\ r.seen = <<>>
      BY <2>2 DEF Empty
    <3> QED BY <2>2, <3>1, <3>2, EmptyRing DEF Empty
  <2> QED BY <2>1, <2>2 DEF Readable
<1>4. Seeded(r) \in RingOf(Ids)
  BY <1>3, IdsAreIds, SortedKeepsRing DEF Seeded, TypeInv, TypeOK
<1> QED BY <1>3, <1>4

(* The answer of the server is a sequence of its messages. *)
LEMMA AnswerOK ==
  ASSUME ServerOK, NEW since
  PROVE  /\ Answer(since) \in Seq(Messages)
         /\ ToSet(Answer(since)) = {list[i] : i \in Sent(since)}
         /\ LeftOut(since) \subseteq Messages
<1>1. \A i \in DOMAIN list : list[i] \in Messages
  BY DEF ServerOK
<1>2. {list[i] : i \in Sent(since)} \subseteq Messages
  BY <1>1 DEF Sent, Pullable
<1>3. Messages \subseteq Records
  BY DEF Records
<1>4. Answer(since) \in Seq({list[i] : i \in Sent(since)})
  BY <1>2, <1>3, InOrderSorts DEF Answer
<1>5. ToSet(Answer(since)) = {list[i] : i \in Sent(since)}
  BY <1>2, <1>3, InOrderSorts DEF Answer
<1>6. Answer(since) \in Seq(Messages)
  BY <1>2, <1>4
<1> QED BY <1>1, <1>5, <1>6 DEF LeftOut, Pullable

(* What may still come are messages, and what is noted of forgotten ids is their ids. *)
LEMMA MayComeOK == ASSUME TypeInv PROVE MayCome \subseteq Records
<1>1. \A i \in DOMAIN list : list[i] \in Records
  BY DEF TypeInv, TypeOK, ServerOK, Records
<1>2. \A p \in Receivers : ToSet(got[p]) \subseteq Records
  BY DEF TypeInv, TypeOK, ProcessOK, Records, ToSet
<1> QED BY <1>1, <1>2 DEF MayCome, Records

LEMMA DropTypes ==
  ASSUME TypeInv, dropped' = dropped \/ \E ids : Drop(ids)
  PROVE  dropped' \subseteq Ids
<1>1. UNION {IdsOf(m) : m \in MayCome} \subseteq Ids
  BY MayComeOK, IdsAreIds
<1> QED BY <1>1 DEF Drop, TypeInv, TypeOK, HistoryOK

LEMMA NewestOK ==
  ASSUME ServerOK, NEW S, S \subseteq Records
  PROVE  /\ Newest(S) \in 0 .. MaxTime
         /\ \A m \in S : stamp[m] <= Newest(S)
         /\ Newest(S) > 0 => \E m \in S : stamp[m] = Newest(S)
<1> DEFINE T == {stamp[m] : m \in S}
<1>1. MaxTime \in Nat /\ T \in SUBSET (0 .. MaxTime)
  BY BoundsAssumption DEF ServerOK
<1>2. CASE S = {}
  BY <1>1, <1>2 DEF Newest
<1>3. CASE S # {}
  <2>1. Newest(S) = Max(T) /\ T # {}
    BY <1>3 DEF Newest
  <2>2. Max(T) \in T /\ \A t \in T : t <= Max(T)
    <3> HIDE DEF T
    <3> QED BY <1>1, <2>1, MaxOfNumbers
  <2>3. \A m \in S : stamp[m] \in T
    OBVIOUS
  <2>4. \E m \in S : stamp[m] = Max(T)
    BY <2>2
  <2> HIDE DEF T
  <2> QED BY <1>1, <2>1, <2>2, <2>3, <2>4
<1> QED BY <1>2, <1>3
LEMMA TypeInit == Init => TypeInv
<1> SUFFICES ASSUME Init PROVE TypeInv
  OBVIOUS
<1>1. ServerOK
  BY BoundsAssumption DEF Init, ServerOK
<1>2. Cardinality({}) = 0 /\ 0 <= MaxMessages
  BY FS_EmptySet, BoundsAssumption
<1>3. FileOK /\ file = [messages |-> file.messages, seen |-> file.seen]
  BY <1>2, EmptyRing DEF Init, FileOK, Empty
<1>4. ProcessOK /\ ring = [p \in Processes |-> ring[p]]
  BY EmptyRing, BoundsAssumption DEF Init, ProcessOK
<1>5. HistoryOK
  <2>1. clears \in 0 .. MaxClears /\ failures \in 0 .. MaxFailures /\ stops \in 0 .. MaxStops
    BY BoundsAssumption DEF Init
  <2>2. overlap \in BOOLEAN /\ banners \in [Messages -> Nat]
    BY DEF Init
  <2> QED BY <2>1, <2>2 DEF Init, HistoryOK
<1> QED BY <1>1, <1>3, <1>4, <1>5 DEF TypeInv, TypeOK

(* What a process does to its own variables keeps their types. *)
LEMMA ProcessStep ==
  ASSUME TypeInv, NEW p \in Processes,
         NEW l \in Labels, pc' = [pc EXCEPT ![p] = l],
         NEW s \in SUBSET Records, snap' = snap \/ snap' = [snap EXCEPT ![p] = s],
         NEW o \in RingOf(Ids), ring' = ring \/ ring' = [ring EXCEPT ![p] = o],
         NEW a \in SUBSET Records, accepted' = accepted \/ accepted' = [accepted EXCEPT ![p] = a],
         waterline' \in [Receivers -> 0 .. MaxTime], got' \in [Receivers -> Seq(Messages)]
  PROVE  ProcessOK' /\ ring' = [q \in Processes |-> ring'[q]]
<1>1. ProcessOK /\ ring = [q \in Processes |-> ring[q]]
  BY DEF TypeInv, TypeOK
<1>2. pc' \in [Processes -> Labels]
  BY <1>1 DEF ProcessOK, Labels
<1>3. snap' \in [Processes -> SUBSET Records] /\ accepted' \in [Processes -> SUBSET Records]
  BY <1>1 DEF ProcessOK
<1>4. \A q \in Processes : ring'[q] \in RingOf(Ids)
  BY <1>1 DEF ProcessOK
<1>6. ring' = [q \in Processes |-> ring'[q]]
  BY <1>1
<1> QED BY <1>2, <1>3, <1>4, <1>6 DEF ProcessOK, Labels

LEMMA RestTypes ==
  ASSUME TypeInv, NEW p \in Processes, NEW l \in Labels, Rest(p, l), UNCHANGED receiver
  PROVE  ProcessOK' /\ ring' = [q \in Processes |-> ring'[q]]
<1>1. pc' = [pc EXCEPT ![p] = l] /\ snap' = [snap EXCEPT ![p] = {}]
  BY DEF Rest, Goto
<1>2. ring' = [ring EXCEPT ![p] = <<>>] /\ accepted' = [accepted EXCEPT ![p] = {}]
  BY DEF Rest
<1>3. {} \in SUBSET Records /\ <<>> \in RingOf(Ids)
  BY EmptyRing
<1>4. waterline' \in [Receivers -> 0 .. MaxTime] /\ got' \in [Receivers -> Seq(Messages)]
  BY DEF TypeInv, TypeOK, ProcessOK, receiver
<1> QED BY <1>1, <1>2, <1>3, <1>4, ProcessStep
LEMMA ServerFrame == TypeInv /\ UNCHANGED server => ServerOK'
BY DEF TypeInv, TypeOK, ServerOK, server

LEMMA ProcessFrame ==
  TypeInv /\ UNCHANGED <<process, receiver>>
    => ProcessOK' /\ ring' = [q \in Processes |-> ring'[q]]
BY DEF TypeInv, TypeOK, ProcessOK, process, receiver

LEMMA ReadTypes ==
  ASSUME TypeInv, NEW r, Read(r)
  PROVE  failures' \in 0 .. MaxFailures /\ r \in Readable
<1>1. failures \in 0 .. MaxFailures /\ MaxFailures \in Nat
  BY BoundsAssumption DEF TypeInv, TypeOK, HistoryOK
<1> QED BY <1>1 DEF Read, Readable

LEMMA FileStep ==
  ASSUME TypeInv, file' = file \/ \E r \in Readable : file' = r
  PROVE  FileOK' /\ file' = [messages |-> file'.messages, seen |-> file'.seen]
<1>1. file' \in Readable
  BY DEF Readable
<1> QED BY <1>1, ReadableOK DEF FileOK

(* A step that leaves the messages of the history variables alone. *)
LEMMA HistoryStep ==
  ASSUME TypeInv, failures' = failures \/ \E r : Read(r),
         clears' \in 0 .. MaxClears, stops' \in 0 .. MaxStops,
         overlap' \in BOOLEAN, cut' \subseteq Messages, late' \subseteq Messages,
         dropped' = dropped \/ \E ids : Drop(ids),
         UNCHANGED <<recorded, trimmed, cleared, raced, banners>>
  PROVE  HistoryOK'
<1>1. failures' \in 0 .. MaxFailures
  BY ReadTypes DEF TypeInv, TypeOK, HistoryOK
<1> QED BY <1>1, DropTypes DEF TypeInv, TypeOK, HistoryOK

LEMMA TypeSaveMessages ==
  ASSUME TypeInv, NEW p \in Processes, SaveMessages(p)
  PROVE  TypeInv'
<1>1. PICK r \in Readable, kept \in Trims(Merge(p)) :
        /\ Read(r)
        /\ file' = [messages |-> kept, seen |-> RememberAll(r.seen, InOrder(kept))]
        /\ recorded' = recorded \cup kept
        /\ trimmed' = trimmed \cup (Merge(p) \ kept)
  BY DEF SaveMessages
<1>2. /\ pc' = [pc EXCEPT ![p] = "saveIds"]
      /\ UNCHANGED <<server, snap, ring, accepted, receiver, clears, stops, cleared, raced,
                     overlap, cut, late, banners>>
  BY DEF SaveMessages, Goto
<1>3. Merge(p) \subseteq Records
  BY DEF Merge, TypeInv, TypeOK, ProcessOK
<1>4. ServerOK'
  BY <1>2, ServerFrame
<1>5. FileOK' /\ file' = [messages |-> file'.messages, seen |-> file'.seen]
  <2>1. kept \subseteq Records /\ kept \subseteq Merge(p)
    BY <1>3 DEF Trims
  <2>2. Cardinality(Merge(p)) \in Nat
    BY <1>3, FiniteRecords, FS_CardinalityType
  <2>3. Cardinality(kept) <= MaxMessages
    BY <2>2, BoundsAssumption DEF Trims
  <2>4. RememberAll(r.seen, InOrder(kept)) \in RingOf(Ids)
    BY <2>1, ReadableOK, IdsAreIds, SortedKeepsRing DEF TypeInv, TypeOK
  <2>5. file'.messages = kept /\ file'.seen = RememberAll(r.seen, InOrder(kept))
    BY <1>1
  <2> QED BY <1>1, <2>1, <2>3, <2>4, <2>5 DEF FileOK
<1>6. ProcessOK' /\ ring' = [q \in Processes |-> ring'[q]]
  BY <1>2 DEF TypeInv, TypeOK, ProcessOK, receiver
<1>7. HistoryOK'
  <2>1. recorded' \subseteq Records /\ trimmed' \subseteq Records
    BY <1>1, <1>3 DEF Trims, TypeInv, TypeOK, HistoryOK
  <2>2. dropped' \subseteq Ids
    BY DropTypes DEF SaveMessages
  <2> QED BY <1>1, <1>2, <2>1, <2>2, ReadTypes DEF TypeInv, TypeOK, HistoryOK
<1> QED BY <1>4, <1>5, <1>6, <1>7 DEF TypeInv, TypeOK

LEMMA TypeSave ==
  ASSUME TypeInv, NEW p \in Processes, Save(p)
  PROVE  TypeInv'
<1>1. CASE SaveMessages(p)
  BY <1>1, TypeSaveMessages
<1>2. CASE SaveSeenMessageIds(p)
  <2>1. PICK r \in Readable : Read(r) /\ file' = [r EXCEPT !.seen = ring[p]]
    BY <1>2 DEF SaveSeenMessageIds
  <2>2. /\ pc' = [pc EXCEPT ![p] = "labels"]
        /\ UNCHANGED <<server, snap, ring, accepted, receiver, clears, stops, history>>
    BY <1>2 DEF SaveSeenMessageIds, Goto
  <2>3. /\ r.messages \subseteq Records
        /\ Cardinality(r.messages) <= MaxMessages
        /\ r = [messages |-> r.messages, seen |-> r.seen]
    BY ReadableOK
  <2>4. file' = [messages |-> r.messages, seen |-> ring[p]]
    BY <2>1, <2>3
  <2>5. ring[p] \in RingOf(Ids)
    BY DEF TypeInv, TypeOK, ProcessOK
  <2>6. FileOK' /\ file' = [messages |-> file'.messages, seen |-> file'.seen]
    BY <2>3, <2>4, <2>5 DEF FileOK
  <2>7. ProcessOK' /\ ring' = [q \in Processes |-> ring'[q]]
    BY <2>2 DEF TypeInv, TypeOK, ProcessOK, receiver
  <2>8. HistoryOK'
    BY <2>1, <2>2, ReadTypes DEF TypeInv, TypeOK, HistoryOK, history
  <2> QED BY <2>2, <2>6, <2>7, <2>8, ServerFrame DEF TypeInv, TypeOK
<1>3. CASE SaveKnownLabels(p)
  <2>1. PICK r \in Readable : Read(r) /\ file' = r
    BY <1>3 DEF SaveKnownLabels
  <2>2. UNCHANGED <<server, receiver, clears, stops, history>>
    BY <1>3 DEF SaveKnownLabels
  <2>3. FileOK' /\ file' = [messages |-> file'.messages, seen |-> file'.seen]
    BY <2>1, FileStep
  <2>4. ProcessOK' /\ ring' = [q \in Processes |-> ring'[q]]
    <3>1. CASE Rest(p, "idle")
      BY <2>2, <3>1, RestTypes DEF Labels
    <3>2. CASE Goto(p, "banner") /\ UNCHANGED <<snap, ring, accepted>>
      BY <2>2, <3>2 DEF Goto, TypeInv, TypeOK, ProcessOK, receiver
    <3> QED BY <1>3, <3>1, <3>2 DEF SaveKnownLabels
  <2>5. HistoryOK'
    BY <2>1, <2>2, ReadTypes DEF TypeInv, TypeOK, HistoryOK, history
  <2> QED BY <2>2, <2>3, <2>4, <2>5, ServerFrame DEF TypeInv, TypeOK
<1> QED BY <1>1, <1>2, <1>3 DEF Save
(* A batch is offered to a ring: with what it held, the ring keeps its type. *)
LEMMA TypeTake ==
  ASSUME TypeInv, NEW p \in Processes,
         NEW M \in SUBSET Records, NEW o \in RingOf(Ids), NEW batch \in Seq(Records),
         pc' = [pc EXCEPT ![p] = "save"],
         snap' = [snap EXCEPT ![p] = M],
         ring' = [ring EXCEPT ![p] = RememberAll(o, batch)],
         accepted' = [accepted EXCEPT ![p] = Accepted(o, batch)],
         waterline' \in [Receivers -> 0 .. MaxTime], got' \in [Receivers -> Seq(Messages)]
  PROVE  ProcessOK' /\ ring' = [q \in Processes |-> ring'[q]]
<1>1. \A i \in 1 .. Len(batch) : batch[i] \in Records /\ i \in DOMAIN batch
  OBVIOUS
<1>2. Accepted(o, batch) \in SUBSET Records
  BY DEF Accepted
<1>3. RememberAll(o, batch) \in RingOf(Ids)
  BY <1>1, <1>2, IdsAreIds, BatchKeepsRing
<1>4. "save" \in Labels
  BY DEF Labels
<1> QED BY <1>2, <1>3, <1>4, ProcessStep

LEMMA TypeCycle ==
  ASSUME TypeInv, NEW p \in Workers, Load(p) \/ Pull(p) \/ Show(p)
  PROVE  TypeInv'
<1>1. p \in Processes
  BY DEF Processes
<1>2. CASE Load(p)
  <2>1. PICK r \in Readable :
          /\ Read(r)
          /\ snap' = [snap EXCEPT ![p] = r.messages]
          /\ ring' = [ring EXCEPT ![p] = Seeded(r)]
    BY <1>2 DEF Load
  <2>2. /\ pc' = [pc EXCEPT ![p] = "pull"]
        /\ UNCHANGED <<server, file, accepted, receiver, clears, stops, recorded, trimmed,
                       cleared, raced, cut, late, banners>>
        /\ overlap' \in BOOLEAN
    BY <1>2 DEF Load, Goto, NoteOverlap
  <2>3. /\ "pull" \in Labels /\ r.messages \in SUBSET Records /\ Seeded(r) \in RingOf(Ids)
        /\ waterline' \in [Receivers -> 0 .. MaxTime] /\ got' \in [Receivers -> Seq(Messages)]
    BY <2>2, ReadableOK DEF Labels, receiver, TypeInv, TypeOK, ProcessOK
  <2>4. ProcessOK' /\ ring' = [q \in Processes |-> ring'[q]]
    BY <1>1, <2>1, <2>2, <2>3, ProcessStep
  <2>5. HistoryOK'
    BY <1>2, <2>1, <2>2, HistoryStep DEF Load, TypeInv, TypeOK, HistoryOK
  <2> QED BY <2>2, <2>4, <2>5, ServerFrame, FileStep DEF TypeInv, TypeOK
<1>3. CASE Pull(p)
  <2>0. PICK M, o, batch : M = snap[p] /\ o = ring[p] /\ batch = Answer(Since(p))
    OBVIOUS
  <2>1. /\ M \in SUBSET Records /\ o \in RingOf(Ids) /\ batch \in Seq(Messages)
        /\ LeftOut(Since(p)) \subseteq Messages
    BY <1>1, <2>0, AnswerOK DEF TypeInv, TypeOK, ProcessOK
  <2>2. UNCHANGED <<server, file, receiver, bounds, recorded, trimmed, cleared, raced, overlap,
                   late, banners>>
    BY <1>3 DEF Pull
  <2>3. \/ Accepted(o, batch) = {} /\ Rest(p, "idle")
        \/ /\ pc' = [pc EXCEPT ![p] = "save"]
           /\ snap' = [snap EXCEPT ![p] = M]
           /\ ring' = [ring EXCEPT ![p] = RememberAll(o, batch)]
           /\ accepted' = [accepted EXCEPT ![p] = Accepted(o, batch)]
    BY <1>3, <2>0 DEF Pull, Take, Goto
  <2>4. cut' = cut \cup LeftOut(Since(p))
    BY <1>3 DEF Pull
  <2>5. batch \in Seq(Records)
    BY <2>1 DEF Records
  <2>8. waterline' \in [Receivers -> 0 .. MaxTime] /\ got' \in [Receivers -> Seq(Messages)]
    BY <2>2 DEF receiver, TypeInv, TypeOK, ProcessOK
  <2>6. ProcessOK' /\ ring' = [q \in Processes |-> ring'[q]]
    <3>1. CASE Rest(p, "idle")
      BY <1>1, <2>2, <3>1, RestTypes DEF Labels
    <3>2. CASE ~Rest(p, "idle")
      BY <1>1, <2>1, <2>3, <2>5, <2>8, <3>2, TypeTake
    <3> QED BY <3>1, <3>2
  <2>7. HistoryOK'
    BY <1>3, <2>1, <2>2, <2>4, HistoryStep DEF Pull, TypeInv, TypeOK, HistoryOK, bounds
  <2> QED BY <2>2, <2>6, <2>7, ServerFrame, FileStep DEF TypeInv, TypeOK
<1>4. CASE Show(p)
  <2>1. PICK m \in accepted[p] :
          /\ banners' = [banners EXCEPT ![m] = @ + 1]
          /\ \/ Rest(p, "idle")
             \/ accepted' = [accepted EXCEPT ![p] = @ \ {m}] /\ UNCHANGED <<pc, snap, ring>>
    BY <1>4 DEF Show
  <2>2. UNCHANGED <<server, file, receiver, bounds, recorded, trimmed, cleared, raced, overlap,
                   cut, late, dropped>>
    BY <1>4 DEF Show
  <2>3. ProcessOK' /\ ring' = [q \in Processes |-> ring'[q]]
    <3>1. CASE Rest(p, "idle")
      BY <1>1, <2>2, <3>1, RestTypes DEF Labels
    <3>2. CASE accepted' = [accepted EXCEPT ![p] = @ \ {m}] /\ UNCHANGED <<pc, snap, ring>>
      BY <1>1, <2>2, <3>2 DEF TypeInv, TypeOK, ProcessOK, receiver
    <3> QED BY <2>1, <3>1, <3>2
  <2>4. banners' \in [Messages -> Nat]
    <3>1. banners \in [Messages -> Nat]
      BY DEF TypeInv, TypeOK, HistoryOK
    <3>2. m \in Messages => banners[m] + 1 \in Nat
      BY <3>1
    <3>3. banners' = [banners EXCEPT ![m] = banners[m] + 1]
      BY <2>1
    <3> QED BY <3>1, <3>2, <3>3
  <2>5. HistoryOK'
    BY <2>2, <2>4 DEF TypeInv, TypeOK, HistoryOK, bounds
  <2> QED BY <2>2, <2>3, <2>5, ServerFrame, FileStep DEF TypeInv, TypeOK
<1> QED BY <1>2, <1>3, <1>4
LEMMA TypeInject ==
  ASSUME TypeInv, NEW p \in Workers, NEW i \in Injects, Inject(p, i)
  PROVE  TypeInv'
<1>1. PICK r \in Readable : Read(r) /\ Take(p, r.messages, Seeded(r), <<i>>)
  BY DEF Inject
<1>2. PICK M, o, batch : M = r.messages /\ o = Seeded(r) /\ batch = <<i>>
  OBVIOUS
<1>3. /\ p \in Processes
      /\ M \in SUBSET Records /\ o \in RingOf(Ids) /\ batch \in Seq(Records)
  BY <1>2, ReadableOK DEF Records, Processes
<1>4. /\ stamp' = [stamp EXCEPT ![i] = now]
      /\ UNCHANGED <<now, list, file, receiver, clears, stops, recorded, trimmed, cleared,
                     raced, cut, late, banners>>
      /\ overlap' \in BOOLEAN
  BY DEF Inject, NoteOverlap
<1>5. ServerOK'
  <2>1. now \in 0 .. MaxTime /\ stamp \in [Records -> 0 .. MaxTime]
    BY BoundsAssumption DEF TypeInv, TypeOK, ServerOK
  <2>2. stamp' \in [Records -> 0 .. MaxTime]
    BY <1>4, <2>1
  <2> QED BY <1>4, <2>2 DEF TypeInv, TypeOK, ServerOK
<1>6. ProcessOK' /\ ring' = [q \in Processes |-> ring'[q]]
  <2>1. waterline' \in [Receivers -> 0 .. MaxTime] /\ got' \in [Receivers -> Seq(Messages)]
    BY <1>4 DEF receiver, TypeInv, TypeOK, ProcessOK
  <2>2. CASE Rest(p, "idle")
    BY <1>3, <1>4, <2>2, RestTypes DEF Labels
  <2>3. CASE ~Rest(p, "idle")
    <3>1. /\ pc' = [pc EXCEPT ![p] = "save"]
          /\ snap' = [snap EXCEPT ![p] = M]
          /\ ring' = [ring EXCEPT ![p] = RememberAll(o, batch)]
          /\ accepted' = [accepted EXCEPT ![p] = Accepted(o, batch)]
      BY <1>1, <1>2, <2>3 DEF Take, Goto
    <3> QED BY <1>3, <2>1, <3>1, TypeTake
  <2> QED BY <2>2, <2>3
<1>7. HistoryOK'
  BY <1>1, <1>4, HistoryStep DEF Inject, TypeInv, TypeOK, HistoryOK
<1> QED BY <1>4, <1>5, <1>6, <1>7, FileStep DEF TypeInv, TypeOK

LEMMA TypeReceiver ==
  ASSUME TypeInv, NEW p \in Receivers, Construct(p) \/ ReceiverPull(p) \/ ReceiverLoad(p)
  PROVE  TypeInv'
<1>1. p \in Processes /\ {} \in SUBSET Records /\ <<>> \in RingOf(Ids)
  BY EmptyRing DEF Processes
<1>2. CASE Construct(p)
  <2>1. PICK r \in Readable :
          Read(r) /\ waterline' = [waterline EXCEPT ![p] = Newest(r.messages)]
    BY <1>2 DEF Construct
  <2>2. /\ pc' = [pc EXCEPT ![p] = "idle"]
        /\ UNCHANGED <<server, file, snap, ring, accepted, got, clears, stops, history>>
    BY <1>2 DEF Construct, Goto
  <2>3. Newest(r.messages) \in 0 .. MaxTime
    BY ReadableOK, NewestOK DEF TypeInv, TypeOK
  <2>4. waterline' \in [Receivers -> 0 .. MaxTime] /\ got' \in [Receivers -> Seq(Messages)]
    BY <2>1, <2>2, <2>3 DEF TypeInv, TypeOK, ProcessOK
  <2>5. "idle" \in Labels
    BY DEF Labels
  <2>6. ProcessOK' /\ ring' = [q \in Processes |-> ring'[q]]
    BY <1>1, <2>2, <2>4, <2>5, ProcessStep
  <2>7. HistoryOK'
    BY <2>1, <2>2, HistoryStep DEF TypeInv, TypeOK, HistoryOK, history
  <2> QED BY <2>2, <2>6, <2>7, ServerFrame, FileStep DEF TypeInv, TypeOK
<1>3. CASE ReceiverPull(p)
  <2>1. PICK answer : answer = Answer(waterline[p])
    OBVIOUS
  <2>2. /\ pc' = [pc EXCEPT ![p] = "load"]
        /\ got' = [got EXCEPT ![p] = answer]
        /\ waterline' = [waterline EXCEPT ![p] = Newest(ToSet(answer))]
        /\ cut' = cut \cup LeftOut(waterline[p])
        /\ UNCHANGED <<server, file, snap, ring, accepted, bounds, recorded, trimmed, cleared,
                       raced, overlap, late, dropped, banners>>
    BY <1>3, <2>1 DEF ReceiverPull, Goto
  <2>3. answer \in Seq(Messages) /\ LeftOut(waterline[p]) \subseteq Messages
    BY <2>1, AnswerOK DEF TypeInv, TypeOK
  <2>4. ToSet(answer) \subseteq Records
    BY <2>3 DEF ToSet, Records
  <2>5. Newest(ToSet(answer)) \in 0 .. MaxTime
    BY <2>4, NewestOK DEF TypeInv, TypeOK
  <2>6. waterline' \in [Receivers -> 0 .. MaxTime] /\ got' \in [Receivers -> Seq(Messages)]
    BY <2>2, <2>3, <2>5 DEF TypeInv, TypeOK, ProcessOK
  <2>7. "load" \in Labels
    BY DEF Labels
  <2>8. ProcessOK' /\ ring' = [q \in Processes |-> ring'[q]]
    BY <1>1, <2>2, <2>6, <2>7, ProcessStep
  <2>9. HistoryOK'
    BY <2>2, <2>3, HistoryStep DEF TypeInv, TypeOK, HistoryOK, bounds
  <2> QED BY <2>2, <2>8, <2>9, ServerFrame, FileStep DEF TypeInv, TypeOK
<1>4. CASE ReceiverLoad(p)
  <2>1. PICK r \in Readable : Read(r) /\ Take(p, r.messages, Seeded(r), got[p])
    BY <1>4 DEF ReceiverLoad
  <2>2. PICK M, o, batch : M = r.messages /\ o = Seeded(r) /\ batch = got[p]
    OBVIOUS
  <2>3. M \in SUBSET Records /\ o \in RingOf(Ids) /\ batch \in Seq(Records)
    BY <2>2, ReadableOK DEF Records, TypeInv, TypeOK, ProcessOK
  <2>4. /\ got' = [got EXCEPT ![p] = <<>>]
        /\ UNCHANGED <<server, file, waterline, clears, stops, recorded, trimmed, cleared,
                       raced, cut, late, banners>>
        /\ overlap' \in BOOLEAN
    BY <1>4 DEF ReceiverLoad, NoteOverlap
  <2>5. waterline' \in [Receivers -> 0 .. MaxTime] /\ got' \in [Receivers -> Seq(Messages)]
    BY <2>4 DEF TypeInv, TypeOK, ProcessOK
  <2>6. ProcessOK' /\ ring' = [q \in Processes |-> ring'[q]]
    <3>1. CASE Rest(p, "idle")
      <4>1. /\ pc' = [pc EXCEPT ![p] = "idle"]
            /\ snap' = [snap EXCEPT ![p] = {}]
            /\ ring' = [ring EXCEPT ![p] = <<>>]
            /\ accepted' = [accepted EXCEPT ![p] = {}]
            /\ "idle" \in Labels
        BY <3>1 DEF Rest, Goto, Labels
      <4> QED BY <1>1, <2>5, <4>1, ProcessStep
    <3>2. CASE ~Rest(p, "idle")
      <4>1. /\ pc' = [pc EXCEPT ![p] = "save"]
            /\ snap' = [snap EXCEPT ![p] = M]
            /\ ring' = [ring EXCEPT ![p] = RememberAll(o, batch)]
            /\ accepted' = [accepted EXCEPT ![p] = Accepted(o, batch)]
        BY <2>1, <2>2, <3>2 DEF Take, Goto
      <4> QED BY <1>1, <2>3, <2>5, <4>1, TypeTake
    <3> QED BY <3>1, <3>2
  <2>7. HistoryOK'
    BY <1>4, <2>1, <2>4, HistoryStep DEF ReceiverLoad, TypeInv, TypeOK, HistoryOK
  <2> QED BY <2>4, <2>6, <2>7, ServerFrame, FileStep DEF TypeInv, TypeOK
<1> QED BY <1>2, <1>3, <1>4

LEMMA TypeStop ==
  ASSUME TypeInv, NEW p \in Processes, Stop(p)
  PROVE  TypeInv'
<1>1. PICK l \in {"idle", "new"} : Rest(p, l)
  BY DEF Stop
<1>2. /\ stops < MaxStops /\ stops' = stops + 1
      /\ waterline' = [q \in Receivers |-> IF q = p THEN 0 ELSE waterline[q]]
      /\ got' = [q \in Receivers |-> IF q = p THEN <<>> ELSE got[q]]
      /\ UNCHANGED <<server, file, clears, failures, history>>
  BY DEF Stop
<1>3. waterline' \in [Receivers -> 0 .. MaxTime] /\ got' \in [Receivers -> Seq(Messages)]
  <2>1. 0 \in 0 .. MaxTime
    BY BoundsAssumption
  <2> QED BY <1>2, <2>1 DEF TypeInv, TypeOK, ProcessOK
<1>4. /\ pc' = [pc EXCEPT ![p] = l]
      /\ snap' = [snap EXCEPT ![p] = {}]
      /\ ring' = [ring EXCEPT ![p] = <<>>]
      /\ accepted' = [accepted EXCEPT ![p] = {}]
      /\ l \in Labels /\ {} \in SUBSET Records /\ <<>> \in RingOf(Ids)
  BY <1>1, EmptyRing DEF Rest, Goto, Labels
<1>5. ProcessOK' /\ ring' = [q \in Processes |-> ring'[q]]
  BY <1>3, <1>4, ProcessStep
<1>6. stops' \in 0 .. MaxStops
  BY <1>2, BoundsAssumption DEF TypeInv, TypeOK, HistoryOK
<1>7. HistoryOK'
  BY <1>2, <1>6, HistoryStep DEF TypeInv, TypeOK, HistoryOK, history
<1> QED BY <1>2, <1>5, <1>7, ServerFrame, FileStep DEF TypeInv, TypeOK

LEMMA TypeShell ==
  ASSUME TypeInv, ClearMessages \/ SaveFilter
  PROVE  TypeInv'
<1>1. clears' \in 0 .. MaxClears
  BY BoundsAssumption DEF ClearMessages, SaveFilter, TypeInv, TypeOK, HistoryOK
<1>2. UNCHANGED <<server, process, receiver, stops, recorded, trimmed, overlap, cut, late,
                 dropped, banners>>
  BY DEF ClearMessages, SaveFilter, history
<1>3. CASE ClearMessages
  <2>1. PICK r \in Readable : Read(r) /\ file' = [r EXCEPT !.messages = {}]
    BY <1>3 DEF ClearMessages
  <2>2. r.seen \in RingOf(Ids) /\ r = [messages |-> r.messages, seen |-> r.seen]
    BY ReadableOK
  <2>3. file' = [messages |-> {}, seen |-> r.seen]
    BY <2>1, <2>2
  <2>4. Cardinality({}) = 0 /\ 0 <= MaxMessages
    BY FS_EmptySet, BoundsAssumption
  <2>5. FileOK' /\ file' = [messages |-> file'.messages, seen |-> file'.seen]
    BY <2>2, <2>3, <2>4 DEF FileOK
  <2>6. cleared' \subseteq Records /\ raced' \subseteq cleared'
    BY <1>3 DEF ClearMessages, TypeInv, TypeOK, FileOK, HistoryOK
  <2>7. HistoryOK'
    BY <1>1, <1>2, <2>1, <2>6, ReadTypes DEF TypeInv, TypeOK, HistoryOK
  <2> QED BY <1>2, <2>5, <2>7, ServerFrame, ProcessFrame DEF TypeInv, TypeOK
<1>4. CASE SaveFilter
  <2>1. PICK r \in Readable : Read(r) /\ file' = r
    BY <1>4 DEF SaveFilter
  <2>2. UNCHANGED <<cleared, raced>>
    BY <1>4 DEF SaveFilter, history
  <2>3. HistoryOK'
    BY <1>1, <1>2, <2>1, <2>2, HistoryStep DEF TypeInv, TypeOK, HistoryOK
  <2> QED BY <1>2, <2>1, <2>3, FileStep, ServerFrame, ProcessFrame DEF TypeInv, TypeOK
<1> QED BY <1>3, <1>4

LEMMA TypeServer ==
  ASSUME TypeInv, Tick \/ \E m \in Messages : Stamp(m) \/ Push(m)
  PROVE  TypeInv'
<1>1. UNCHANGED <<file, process, receiver, bounds, recorded, trimmed, cleared, raced, overlap,
                  cut, dropped, banners>>
  BY DEF Tick, Stamp, Push, history
<1>2. ServerOK'
  <2>1. CASE Tick
    BY <2>1, BoundsAssumption DEF Tick, TypeInv, TypeOK, ServerOK
  <2>2. ASSUME NEW m \in Messages, Stamp(m)
        PROVE  ServerOK'
    <3>1. now \in 0 .. MaxTime /\ stamp \in [Records -> 0 .. MaxTime]
      BY BoundsAssumption DEF TypeInv, TypeOK, ServerOK
    <3>2. stamp' \in [Records -> 0 .. MaxTime]
      BY <2>2, <3>1 DEF Stamp
    <3> QED BY <2>2, <3>2 DEF Stamp, TypeInv, TypeOK, ServerOK
  <2>3. ASSUME NEW m \in Messages, Push(m)
        PROVE  ServerOK'
    <3>1. list' = <<m>> \o list /\ UNCHANGED <<now, stamp>>
      BY <2>3 DEF Push
    <3>2. list' \in Seq(Messages)
      BY <3>1 DEF TypeInv, TypeOK, ServerOK
    <3> QED BY <3>1, <3>2 DEF TypeInv, TypeOK, ServerOK
  <2> QED BY <2>1, <2>2, <2>3
<1>3. late' \subseteq Messages
  BY DEF Tick, Stamp, Push, history, TypeInv, TypeOK, HistoryOK
<1>4. HistoryOK'
  BY <1>1, <1>3, HistoryStep DEF bounds, TypeInv, TypeOK, HistoryOK
<1> QED BY <1>1, <1>2, <1>4, FileStep, ProcessFrame DEF TypeInv, TypeOK

LEMMA TypeNext == TypeInv /\ [Next]_vars => TypeInv'
<1> SUFFICES ASSUME TypeInv, [Next]_vars PROVE TypeInv'
  OBVIOUS
<1>1. CASE UNCHANGED vars
  BY <1>1 DEF vars, server, process, receiver, bounds, history, TypeInv, TypeOK, ServerOK,
              FileOK, ProcessOK, HistoryOK
<1>2. CASE Next
  <2>1. ASSUME NEW p \in Workers, Cycle(p) \/ \E i \in Injects : Inject(p, i)
        PROVE  TypeInv'
    <3>1. p \in Processes
      BY DEF Processes
    <3> QED BY <2>1, <3>1, TypeCycle, TypeSave, TypeInject DEF Cycle
  <2>2. ASSUME NEW p \in Receivers,
               Construct(p) \/ ReceiverPull(p) \/ ReceiverLoad(p) \/ Save(p)
        PROVE  TypeInv'
    <3>1. p \in Processes
      BY DEF Processes
    <3> QED BY <2>2, <3>1, TypeReceiver, TypeSave
  <2> QED BY <1>2, <2>1, <2>2, TypeServer, TypeStop, TypeShell DEF Next
<1> QED BY <1>1, <1>2

(* The inbox keeps its types: the history and the rings keep their bounds, and no ring
   has an id twice, whatever a cycle, a dead process or a failed read leaves behind.   *)
THEOREM InboxTypeCorrect == Spec => []TypeOK
<1>1. TypeInv => TypeOK
  BY DEF TypeInv
<1> QED BY <1>1, TypeInit, TypeNext, PTL DEF Spec

------------------------------------------------------------------------------
(***************************************************************************)
(* Messages that are linked by their ids.                                  *)
(***************************************************************************)
LEMMA LinkedSelf == \A m \in Records : m \in Links[m]
BY DEF Links

LEMMA LinkedStep ==
  ASSUME NEW k \in Records, NEW l \in Records, SameIds(k, l), NEW n \in Links[l]
  PROVE  n \in Links[k]
BY DEF Links

LEMMA LinkedTransitive ==
  ASSUME NEW k \in Records, NEW l \in Links[k], NEW n \in Links[l]
  PROVE  n \in Links[k]
BY DEF Links

LEMMA LinksAreRecords == ASSUME NEW m \in Records PROVE Links[m] \subseteq Records
BY DEF Links

(* The ids of all that is linked to a message of R. *)
Known(R) ==
  {id \in Ids : \E m \in Records, n \in R : id \in IdsOf(m) /\ Linked(m, n)}

LEMMA KnownGrows ==
  ASSUME NEW R, NEW Q, R \subseteq Q
  PROVE  Known(R) \subseteq Known(Q)
BY DEF Known

LEMMA KnownBase ==
  ASSUME NEW R, R \subseteq Records, NEW m \in R
  PROVE  IdsOf(m) \subseteq Known(R)
BY LinkedSelf, IdsAreIds DEF Known, Linked

(* With one id of a message, Known has all of them, and the message is linked. *)
LEMMA KnownClosed ==
  ASSUME NEW R, NEW m \in Records, IdsOf(m) \cap Known(R) # {}
  PROVE  IdsOf(m) \subseteq Known(R) /\ Links[m] \cap R # {}
<1>1. PICK id \in IdsOf(m), k \in Records, n \in R : id \in IdsOf(k) /\ Linked(k, n)
  BY DEF Known
<1>2. SameIds(m, k)
  BY <1>1 DEF SameIds
<1>3. n \in Links[m]
  BY <1>1, <1>2, LinkedStep DEF Linked
<1> QED BY <1>3, IdsAreIds DEF Known, Linked

LEMMA RingWithin ==
  ASSUME NEW S, NEW Q, NEW order \in RingOf(S)
  PROVE  /\ ToSet(order) \subseteq S
         /\ ToSet(order) \subseteq Q => order \in RingOf(Q)
<1>1. order \in Seq(S)
  BY DEF RingOf
<1>2. ToSet(order) \subseteq S
  BY <1>1 DEF ToSet
<1>3. ASSUME ToSet(order) \subseteq Q PROVE order \in Seq(Q)
  <2>1. \A i \in 1 .. Len(order) : order[i] \in Q
    BY <1>1, <1>3 DEF ToSet
  <2> QED BY <1>1, <2>1
<1> QED BY <1>2, <1>3 DEF RingOf

(* What a ring refuses is linked to what it accepts or to what it knew before. *)
LEMMA BatchIsKnown ==
  ASSUME NEW order \in RingOf(Ids), NEW batch \in Seq(Records), NEW R \in SUBSET Records,
         ToSet(order) \subseteq Known(R),
         NEW Q \in SUBSET Records, R \subseteq Q, Accepted(order, batch) \subseteq Q
  PROVE  /\ ToSet(RememberAll(order, batch)) \subseteq Known(Q)
         /\ \A m \in ToSet(batch) : Links[m] \cap Q # {}
<1>1. ToSet(order) \subseteq Known(Q)
  BY KnownGrows
<1>2. order \in RingOf(Known(Q))
  BY <1>1, RingWithin
<1>3. \A m \in Accepted(order, batch) : IdsOf(m) \subseteq Known(Q)
  BY KnownBase
<1>4. \A i \in 1 .. Len(batch) : batch[i] \in Records
  OBVIOUS
<1>5. \A i \in 1 .. Len(batch) :
        IdsOf(batch[i]) \cap Known(Q) # {} => IdsOf(batch[i]) \subseteq Known(Q)
  BY <1>4, KnownClosed
<1>6. /\ RememberAll(order, batch) \in RingOf(Known(Q))
      /\ \A i \in 1 .. Len(batch) : IdsOf(batch[i]) \subseteq Known(Q)
  BY <1>2, <1>3, <1>5, BatchKeepsRing
<1>7. ToSet(RememberAll(order, batch)) \subseteq Known(Q)
  BY <1>6, RingWithin
<1>8. \A i \in 1 .. Len(batch) : Links[batch[i]] \cap Q # {}
  BY <1>4, <1>6, KnownClosed DEF IdsOf
<1>9. \A m \in ToSet(batch) : \E i \in 1 .. Len(batch) : m = batch[i]
  BY DEF ToSet
<1> QED BY <1>7, <1>8, <1>9
------------------------------------------------------------------------------
(***************************************************************************)
(* A seen id was recorded.                                                 *)
(***************************************************************************)
Rec == recorded \cup trimmed

(* What a process holds and has not saved yet. *)
Carried(p) ==
  IF pc[p] = "save" THEN accepted[p]
  ELSE IF pc[p] = "load" /\ p \in Receivers THEN ToSet(got[p]) ELSE {}

RingKnown(p) == ToSet(ring[p]) \subseteq Known(Rec \cup Carried(p))

FileKnown ==
  /\ file.messages \subseteq Rec
  /\ ToSet(file.seen) \subseteq Known(Rec)

SeenInv == FileKnown /\ \A p \in Processes : RingKnown(p)

LEMMA SeenInit == Init => SeenInv
<1>1. ToSet(<<>>) = {}
  BY DEF ToSet
<1> QED BY <1>1 DEF Init, SeenInv, FileKnown, RingKnown, Empty

(* A process that a step does not concern. *)
SameProcess(q) ==
  /\ pc'[q] = pc[q] /\ ring'[q] = ring[q] /\ accepted'[q] = accepted[q] /\ snap'[q] = snap[q]
  /\ q \in Receivers => got'[q] = got[q] /\ waterline'[q] = waterline[q]

LEMMA SeenStep ==
  ASSUME SeenInv, Rec \subseteq Rec', FileKnown', NEW p \in Processes,
         \A q \in Processes \ {p} : SameProcess(q),
         RingKnown(p)'
  PROVE  SeenInv'
<1>1. ASSUME NEW q \in Processes, q # p
      PROVE  RingKnown(q)'
  <2>1. SameProcess(q)
    BY <1>1
  <2>2. ring'[q] = ring[q] /\ Carried(q)' = Carried(q)
    BY <2>1 DEF SameProcess, Carried
  <2>3. ToSet(ring[q]) \subseteq Known(Rec \cup Carried(q))
    BY DEF SeenInv, RingKnown
  <2>4. Rec \cup Carried(q) \subseteq Rec' \cup Carried(q)'
    BY <2>2
  <2>5. Known(Rec \cup Carried(q)) \subseteq Known(Rec' \cup Carried(q)')
    BY <2>4, KnownGrows
  <2> QED BY <2>2, <2>3, <2>5 DEF RingKnown
<1> QED BY <1>1 DEF SeenInv

LEMMA ReadKnown ==
  ASSUME TypeInv, SeenInv, NEW r \in Readable
  PROVE  /\ r.messages \subseteq Rec
         /\ ToSet(r.seen) \subseteq Known(Rec)
         /\ ToSet(Seeded(r)) \subseteq Known(Rec)
<1>1. r.messages \subseteq Rec /\ ToSet(r.seen) \subseteq Known(Rec)
  BY DEF Readable, Empty, ToSet, SeenInv, FileKnown
<1>2. r.messages \subseteq Records /\ r.seen \in RingOf(Ids) /\ Rec \subseteq Records
  BY ReadableOK DEF Rec, TypeInv, TypeOK, HistoryOK
<1>3. \A m \in r.messages : IdsOf(m) \subseteq Known(Rec)
  BY <1>1, <1>2, KnownBase
<1>4. r.seen \in RingOf(Known(Rec))
  BY <1>1, <1>2, RingWithin
<1>5. Seeded(r) \in RingOf(Known(Rec))
  BY <1>2, <1>3, <1>4, SortedKeepsRing DEF Seeded, TypeInv, TypeOK
<1> QED BY <1>1, <1>5, RingWithin
Domains ==
  /\ DOMAIN pc = Processes /\ DOMAIN snap = Processes /\ DOMAIN ring = Processes
  /\ DOMAIN accepted = Processes /\ DOMAIN waterline = Receivers /\ DOMAIN got = Receivers

LEMMA DomainsHold == TypeInv => Domains
<1> SUFFICES ASSUME TypeInv PROVE Domains
  OBVIOUS
<1>1. DOMAIN ring = Processes
  BY DEF TypeInv
<1> QED BY <1>1 DEF Domains, TypeInv, TypeOK, ProcessOK

(* A step of a process leaves the others alone. *)
LEMMA OthersSame ==
  ASSUME TypeInv, NEW p \in Processes,
         \/ Load(p) \/ Pull(p) \/ Show(p) \/ \E i \in Injects : Inject(p, i)
         \/ Construct(p) \/ ReceiverPull(p) \/ ReceiverLoad(p) \/ Save(p) \/ Stop(p)
  PROVE  \A q \in Processes \ {p} : SameProcess(q)
<1> USE DomainsHold DEF Domains, SameProcess
<1>1. ASSUME Rest(p, "idle") \/ Rest(p, "new"),
             \A q \in Receivers \ {p} : waterline'[q] = waterline[q] /\ got'[q] = got[q]
      PROVE  \A q \in Processes \ {p} : SameProcess(q)
  BY <1>1 DEF Rest, Goto
<1>2. CASE Load(p)
  <2>1. PICK r \in Readable :
          snap' = [snap EXCEPT ![p] = r.messages] /\ ring' = [ring EXCEPT ![p] = Seeded(r)]
    BY <1>2 DEF Load
  <2> QED BY <1>2, <2>1 DEF Load, Goto, receiver
<1>3. CASE Pull(p)
  <2>1. UNCHANGED <<waterline, got>>
    BY <1>3 DEF Pull, receiver
  <2>2. CASE Rest(p, "idle")
    BY <1>1, <2>1, <2>2
  <2>3. CASE ~Rest(p, "idle")
    BY <1>3, <2>1, <2>3 DEF Pull, Take, Goto
  <2> QED BY <2>2, <2>3
<1>4. CASE Show(p)
  <2>1. UNCHANGED <<waterline, got>>
    BY <1>4 DEF Show, receiver
  <2>2. CASE Rest(p, "idle")
    BY <1>1, <2>1, <2>2
  <2>3. CASE ~Rest(p, "idle")
    BY <1>4, <2>1, <2>3 DEF Show
  <2> QED BY <2>2, <2>3
<1>5. ASSUME NEW i \in Injects, Inject(p, i)
      PROVE  \A q \in Processes \ {p} : SameProcess(q)
  <2>1. PICK r \in Readable : Take(p, r.messages, Seeded(r), <<i>>)
    BY <1>5 DEF Inject
  <2>2. UNCHANGED <<waterline, got>>
    BY <1>5 DEF Inject, receiver
  <2>3. CASE Rest(p, "idle")
    BY <1>1, <2>2, <2>3
  <2>4. CASE ~Rest(p, "idle")
    BY <2>1, <2>2, <2>4 DEF Take, Goto
  <2> QED BY <2>3, <2>4
<1>6. CASE Construct(p)
  <2>1. PICK r \in Readable : waterline' = [waterline EXCEPT ![p] = Newest(r.messages)]
    BY <1>6 DEF Construct
  <2> QED BY <1>6, <2>1 DEF Construct, Goto
<1>7. CASE ReceiverPull(p)
  BY <1>7 DEF ReceiverPull, Goto
<1>8. CASE ReceiverLoad(p)
  <2>1. PICK r \in Readable : Take(p, r.messages, Seeded(r), got[p])
    BY <1>8 DEF ReceiverLoad
  <2>2. UNCHANGED waterline /\ got' = [got EXCEPT ![p] = <<>>]
    BY <1>8 DEF ReceiverLoad
  <2>3. CASE Rest(p, "idle")
    BY <1>1, <2>2, <2>3
  <2>4. CASE ~Rest(p, "idle")
    BY <2>1, <2>2, <2>4 DEF Take, Goto
  <2> QED BY <2>3, <2>4
<1>9. CASE SaveMessages(p) \/ SaveSeenMessageIds(p)
  BY <1>9 DEF SaveMessages, SaveSeenMessageIds, Goto, receiver
<1>10. CASE SaveKnownLabels(p)
  <2>1. UNCHANGED <<waterline, got>>
    BY <1>10 DEF SaveKnownLabels, receiver
  <2>2. CASE Rest(p, "idle")
    BY <1>1, <2>1, <2>2
  <2>3. CASE ~Rest(p, "idle")
    BY <1>10, <2>1, <2>3 DEF SaveKnownLabels, Goto
  <2> QED BY <2>2, <2>3
<1>11. CASE Stop(p)
  <2>1. \A q \in Receivers \ {p} : waterline'[q] = waterline[q] /\ got'[q] = got[q]
    BY <1>11 DEF Stop
  <2>2. Rest(p, "idle") \/ Rest(p, "new")
    BY <1>11 DEF Stop
  <2> QED BY <2>1, <2>2 DEF Rest, Goto
<1> QED BY <1>2, <1>3, <1>4, <1>5, <1>6, <1>7, <1>8, <1>9, <1>10, <1>11 DEF Save

(* A process that rests has no ids in its ring. *)
LEMMA RestKnown ==
  ASSUME TypeInv, NEW p \in Processes, NEW l, Rest(p, l)
  PROVE  RingKnown(p)'
<1>1. ring'[p] = <<>>
  BY DomainsHold DEF Rest, Domains
<1>2. ToSet(<<>>) = {}
  BY DEF ToSet
<1> QED BY <1>1, <1>2 DEF RingKnown

(* What a process takes of a batch, it carries. *)
LEMMA TakeKnown ==
  ASSUME TypeInv, SeenInv, NEW p \in Processes,
         NEW o \in RingOf(Ids), ToSet(o) \subseteq Known(Rec), NEW batch \in Seq(Records),
         pc' = [pc EXCEPT ![p] = "save"],
         ring' = [ring EXCEPT ![p] = RememberAll(o, batch)],
         accepted' = [accepted EXCEPT ![p] = Accepted(o, batch)],
         UNCHANGED <<recorded, trimmed>>
  PROVE  RingKnown(p)'
<1>1. Carried(p)' = Accepted(o, batch) /\ ring'[p] = RememberAll(o, batch) /\ Rec' = Rec
  BY DomainsHold DEF Carried, Domains, Rec
<1>2. Rec \in SUBSET Records
  BY DEF Rec, TypeInv, TypeOK, HistoryOK
<1>3. PICK Q : Q = Rec \cup Accepted(o, batch)
  OBVIOUS
<1>4. Q \in SUBSET Records /\ Rec \subseteq Q /\ Accepted(o, batch) \subseteq Q
  BY <1>2, <1>3 DEF Accepted
<1>5. ToSet(RememberAll(o, batch)) \subseteq Known(Q)
  BY <1>2, <1>4, BatchIsKnown
<1> QED BY <1>1, <1>3, <1>5 DEF RingKnown
LEMMA FileKnownStep ==
  ASSUME TypeInv, SeenInv, UNCHANGED <<recorded, trimmed>>,
         UNCHANGED file \/ \E r \in Readable : file' = r
  PROVE  FileKnown' /\ Rec' = Rec
<1>1. Rec' = Rec
  BY DEF Rec
<1>2. file' \in Readable
  BY DEF Readable
<1> QED BY <1>1, <1>2, ReadKnown DEF FileKnown

LEMMA SeenCycle ==
  ASSUME TypeInv, SeenInv, NEW p \in Processes,
         \/ Load(p) \/ Pull(p) \/ \E i \in Injects : Inject(p, i)
         \/ p \in Receivers /\ ReceiverLoad(p)
  PROVE  SeenInv'
<1>1. UNCHANGED <<file, recorded, trimmed>>
  BY DEF Load, Pull, Inject, ReceiverLoad
<1>2. FileKnown' /\ Rec' = Rec
  BY <1>1, FileKnownStep
<1>3. \A q \in Processes \ {p} : SameProcess(q)
  BY OthersSame
<1>4. RingKnown(p)'
  <2>1. CASE Load(p)
    <3>1. PICK r \in Readable : ring' = [ring EXCEPT ![p] = Seeded(r)]
      BY <2>1 DEF Load
    <3>2. ToSet(ring'[p]) \subseteq Known(Rec)
      BY <3>1, ReadKnown, DomainsHold DEF Domains
    <3>3. Known(Rec) \subseteq Known(Rec' \cup Carried(p)')
      BY <1>2, KnownGrows
    <3> QED BY <3>2, <3>3 DEF RingKnown
  <2>2. CASE Pull(p)
    <3>1. CASE Rest(p, "idle")
      BY <3>1, RestKnown
    <3>2. CASE ~Rest(p, "idle")
      <4>1. PICK o, batch : o = ring[p] /\ batch = Answer(Since(p))
        OBVIOUS
      <4>2. o \in RingOf(Ids) /\ batch \in Seq(Records)
        BY <4>1, AnswerOK DEF Records, TypeInv, TypeOK, ProcessOK
      <4>3. pc[p] = "pull" /\ Rec \cup Carried(p) = Rec
        BY <2>2 DEF Pull, Carried
      <4>4. ToSet(o) \subseteq Known(Rec)
        BY <4>1, <4>3 DEF SeenInv, RingKnown
      <4>5. /\ pc' = [pc EXCEPT ![p] = "save"]
            /\ ring' = [ring EXCEPT ![p] = RememberAll(o, batch)]
            /\ accepted' = [accepted EXCEPT ![p] = Accepted(o, batch)]
        BY <2>2, <3>2, <4>1 DEF Pull, Take, Goto
      <4> QED BY <1>1, <4>2, <4>4, <4>5, TakeKnown
    <3> QED BY <3>1, <3>2
  <2>3. ASSUME NEW r \in Readable, NEW offered \in Seq(Records),
               Take(p, r.messages, Seeded(r), offered)
        PROVE  RingKnown(p)'
    <3>1. CASE Rest(p, "idle")
      BY <3>1, RestKnown
    <3>2. CASE ~Rest(p, "idle")
      <4>1. PICK o : o = Seeded(r)
        OBVIOUS
      <4>2. o \in RingOf(Ids) /\ ToSet(o) \subseteq Known(Rec)
        BY <4>1, ReadableOK, ReadKnown
      <4>3. /\ pc' = [pc EXCEPT ![p] = "save"]
            /\ ring' = [ring EXCEPT ![p] = RememberAll(o, offered)]
            /\ accepted' = [accepted EXCEPT ![p] = Accepted(o, offered)]
        BY <2>3, <3>2, <4>1 DEF Take, Goto
      <4> QED BY <1>1, <4>2, <4>3, TakeKnown
    <3> QED BY <3>1, <3>2
  <2>4. ASSUME NEW i \in Injects, Inject(p, i)
        PROVE  RingKnown(p)'
    <3>1. <<i>> \in Seq(Records)
      BY DEF Records
    <3>2. PICK r \in Readable : Take(p, r.messages, Seeded(r), <<i>>)
      BY <2>4 DEF Inject
    <3>3. PICK offered : offered = <<i>>
      OBVIOUS
    <3>4. Take(p, r.messages, Seeded(r), offered)
      BY <3>2, <3>3 DEF Take
    <3> QED BY <2>3, <3>1, <3>3, <3>4
  <2>5. CASE p \in Receivers /\ ReceiverLoad(p)
    <3>1. got[p] \in Seq(Records)
      BY <2>5 DEF Records, TypeInv, TypeOK, ProcessOK
    <3>2. PICK r \in Readable : Take(p, r.messages, Seeded(r), got[p])
      BY <2>5 DEF ReceiverLoad
    <3>3. PICK offered : offered = got[p]
      OBVIOUS
    <3>4. Take(p, r.messages, Seeded(r), offered)
      BY <3>2, <3>3 DEF Take
    <3> QED BY <2>3, <3>1, <3>3, <3>4
  <2> QED BY <2>1, <2>2, <2>4, <2>5
<1> QED BY <1>2, <1>3, <1>4, SeenStep

LEMMA SeenSave ==
  ASSUME TypeInv, SeenInv, NEW p \in Processes, Save(p)
  PROVE  SeenInv'
<1>1. \A q \in Processes \ {p} : SameProcess(q)
  BY OthersSame
<1>2. CASE SaveMessages(p)
  <2>1. PICK r \in Readable, kept \in Trims(Merge(p)) :
          /\ Read(r)
          /\ file' = [messages |-> kept, seen |-> RememberAll(r.seen, InOrder(kept))]
          /\ recorded' = recorded \cup kept
          /\ trimmed' = trimmed \cup (Merge(p) \ kept)
    BY <1>2 DEF SaveMessages
  <2>2. /\ pc[p] = "save" /\ pc' = [pc EXCEPT ![p] = "saveIds"]
        /\ UNCHANGED ring
    BY <1>2 DEF SaveMessages, Goto
  <2>3. Rec' = Rec \cup Merge(p) /\ kept \subseteq Rec'
    BY <2>1 DEF Rec, Trims
  <2>4. accepted[p] \subseteq Rec' /\ Merge(p) \subseteq Records /\ Rec' \subseteq Records
    BY <2>3 DEF Merge, Rec, TypeInv, TypeOK, ProcessOK, HistoryOK
  <2>5. FileKnown'
    <3>1. kept \subseteq Records
      BY <2>3, <2>4
    <3>2. \A m \in kept : IdsOf(m) \subseteq Known(Rec')
      BY <2>3, <2>4, KnownBase
    <3>3. ToSet(r.seen) \subseteq Known(Rec') /\ r.seen \in RingOf(Ids)
      BY <2>3, ReadKnown, ReadableOK, KnownGrows
    <3>4. r.seen \in RingOf(Known(Rec'))
      BY <3>3, RingWithin
    <3>5. RememberAll(r.seen, InOrder(kept)) \in RingOf(Known(Rec'))
      BY <3>1, <3>2, <3>4, SortedKeepsRing DEF TypeInv, TypeOK
    <3>6. ToSet(RememberAll(r.seen, InOrder(kept))) \subseteq Known(Rec')
      BY <3>5, RingWithin
    <3> QED BY <2>1, <2>3, <3>6 DEF FileKnown
  <2>6. RingKnown(p)'
    <3>1. ToSet(ring[p]) \subseteq Known(Rec \cup accepted[p])
      BY <2>2 DEF SeenInv, RingKnown, Carried
    <3>2. Rec \cup accepted[p] \subseteq Rec' \cup Carried(p)'
      BY <2>3, <2>4
    <3>3. Known(Rec \cup accepted[p]) \subseteq Known(Rec' \cup Carried(p)')
      BY <3>2, KnownGrows
    <3> QED BY <2>2, <3>1, <3>3 DEF RingKnown
  <2> QED BY <1>1, <2>3, <2>5, <2>6, SeenStep
<1>3. CASE SaveSeenMessageIds(p)
  <2>1. PICK r \in Readable : file' = [r EXCEPT !.seen = ring[p]]
    BY <1>3 DEF SaveSeenMessageIds
  <2>2. /\ pc[p] = "saveIds" /\ pc' = [pc EXCEPT ![p] = "labels"]
        /\ UNCHANGED <<ring, recorded, trimmed>>
    BY <1>3 DEF SaveSeenMessageIds, Goto, history
  <2>3. ToSet(ring[p]) \subseteq Known(Rec) /\ Rec' = Rec /\ Carried(p)' = {}
    BY <2>2, DomainsHold DEF SeenInv, RingKnown, Carried, Rec, Domains
  <2>4. r = [messages |-> r.messages, seen |-> r.seen]
    BY ReadableOK
  <2>5. file' = [messages |-> r.messages, seen |-> ring[p]]
    BY <2>1, <2>4
  <2>6. FileKnown'
    BY <2>3, <2>5, ReadKnown DEF FileKnown
  <2>7. RingKnown(p)'
    BY <2>2, <2>3 DEF RingKnown
  <2> QED BY <1>1, <2>3, <2>6, <2>7, SeenStep
<1>4. CASE SaveKnownLabels(p)
  <2>1. PICK r \in Readable : file' = r
    BY <1>4 DEF SaveKnownLabels
  <2>2. pc[p] = "labels" /\ UNCHANGED <<recorded, trimmed>>
    BY <1>4 DEF SaveKnownLabels, history
  <2>3. FileKnown' /\ Rec' = Rec
    BY <2>1, <2>2, FileKnownStep
  <2>4. RingKnown(p)'
    <3>1. CASE Rest(p, "idle")
      BY <3>1, RestKnown
    <3>2. CASE ~Rest(p, "idle")
      BY <1>4, <2>2, <2>3, <3>2, DomainsHold
      DEF SaveKnownLabels, Goto, Domains, SeenInv, RingKnown, Carried
    <3> QED BY <3>1, <3>2
  <2> QED BY <1>1, <2>3, <2>4, SeenStep
<1> QED BY <1>2, <1>3, <1>4 DEF Save

LEMMA SeenNext == TypeInv /\ SeenInv /\ [Next]_vars => SeenInv'
<1> SUFFICES ASSUME TypeInv, SeenInv, [Next]_vars PROVE SeenInv'
  OBVIOUS
<1>1. ASSUME UNCHANGED <<process, receiver, recorded, trimmed>>, FileKnown'
      PROVE  SeenInv'
  BY <1>1 DEF SeenInv, RingKnown, Carried, Rec, process, receiver
<1>2. CASE UNCHANGED vars \/ Tick \/ \E m \in Messages : Stamp(m) \/ Push(m)
  <2>1. UNCHANGED <<file, process, receiver, recorded, trimmed>>
    BY <1>2 DEF vars, Tick, Stamp, Push, history
  <2> QED BY <1>1, <2>1, FileKnownStep
<1>3. CASE ClearMessages \/ SaveFilter
  <2>1. UNCHANGED <<process, receiver, recorded, trimmed>>
    BY <1>3 DEF ClearMessages, SaveFilter, history
  <2>2. PICK r \in Readable : file' = r \/ file' = [r EXCEPT !.messages = {}]
    BY <1>3 DEF ClearMessages, SaveFilter
  <2>3. r = [messages |-> r.messages, seen |-> r.seen]
    BY ReadableOK
  <2>4. file'.messages \subseteq r.messages /\ file'.seen = r.seen
    BY <2>2, <2>3
  <2>5. FileKnown'
    BY <2>1, <2>4, ReadKnown DEF FileKnown, Rec
  <2> QED BY <1>1, <2>1, <2>5
<1>4. ASSUME NEW p \in Processes, Construct(p) \/ (p \in Receivers /\ ReceiverPull(p))
      PROVE  SeenInv'
  <2>1. UNCHANGED <<file, ring, recorded, trimmed>> /\ pc[p] \in {"new", "idle"}
    BY <1>4 DEF Construct, ReceiverPull, history
  <2>2. FileKnown' /\ Rec' = Rec
    BY <2>1, FileKnownStep
  <2>3. Rec \cup Carried(p) \subseteq Rec' \cup Carried(p)'
    BY <2>1, <2>2 DEF Carried
  <2>4. Known(Rec \cup Carried(p)) \subseteq Known(Rec' \cup Carried(p)')
    BY <2>3, KnownGrows
  <2>5. RingKnown(p)'
    BY <2>1, <2>4 DEF SeenInv, RingKnown
  <2> QED BY <1>4, <2>2, <2>5, OthersSame, SeenStep
<1>5. ASSUME NEW p \in Processes, Show(p) \/ Stop(p)
      PROVE  SeenInv'
  <2>1. UNCHANGED <<file, recorded, trimmed>>
    BY <1>5 DEF Show, Stop, history
  <2>2. FileKnown' /\ Rec' = Rec
    BY <2>1, FileKnownStep
  <2>3. RingKnown(p)'
    <3>1. CASE Rest(p, "idle") \/ Rest(p, "new")
      BY <3>1, RestKnown
    <3>2. CASE ~(Rest(p, "idle") \/ Rest(p, "new"))
      <4>1. pc[p] = "banner" /\ UNCHANGED <<pc, ring>>
        BY <1>5, <3>2 DEF Show, Stop
      <4> QED BY <2>2, <4>1 DEF SeenInv, RingKnown, Carried
    <3> QED BY <3>1, <3>2
  <2> QED BY <1>5, <2>2, <2>3, OthersSame, SeenStep
<1> QED
  BY <1>2, <1>3, <1>4, <1>5, SeenCycle, SeenSave DEF Next, Cycle, Processes

(* No id is a seen one unless its message, or one that it is linked to, was recorded:
   whatever two processes save over one another, which process dies between saving the
   messages and their ids, and whichever read fails.                                  *)
THEOREM SeenWasRecordedHolds == Spec => []SeenWasRecorded
<1>1. SeenInv => SeenWasRecorded
  BY DEF SeenInv, FileKnown, Known, Rec, SeenWasRecorded
<1>2. Init => TypeInv /\ SeenInv
  BY TypeInit, SeenInit
<1>3. TypeInv /\ SeenInv /\ [Next]_vars => TypeInv' /\ SeenInv'
  BY TypeNext, SeenNext
<1> QED BY <1>1, <1>2, <1>3, PTL DEF Spec

------------------------------------------------------------------------------
(***************************************************************************)
(* Nothing is passed by.                                                   *)
(***************************************************************************)
There == Pushed \cup Injects

ExcusedOnes == {m \in Messages : Excused(m)}

(* Of the messages P with stamps st, those not newer than t are linked to one of R or
   among the excused ones E.                                                          *)
Behind(P, st, E, t, R) ==
  \A m \in P : st[m] <= t => Links[m] \cap R # {} \/ m \in E

NoGap(t, R) == Behind(Pushed, stamp, ExcusedOnes, t, R)

Reached(t) == t = 0 \/ \E x \in There : stamp[x] >= t

PushedStamped == \A m \in Pushed : stamp[m] > 0

(* What the newest message of a process, which it may save next, has left behind. *)
Base(p) ==
  IF pc[p] = "pull" THEN snap[p]
  ELSE IF pc[p] = "save" THEN snap[p] \cup accepted[p] ELSE {}

FilePass ==
  /\ Rec \subseteq There
  /\ \A x \in file.messages : NoGap(stamp[x], Rec)

WorkerPass(p) ==
  /\ snap[p] \cup accepted[p] \subseteq There
  /\ \A x \in Base(p) : NoGap(stamp[x], Rec \cup Carried(p))

ReceiverPass(p) ==
  /\ NoGap(waterline[p], Rec \cup Carried(p))
  /\ Reached(waterline[p])
  /\ pc[p] = "load" => \A x \in ToSet(got[p]) : x \in Pushed /\ stamp[x] <= waterline[p]

PassInv ==
  /\ PushedStamped
  /\ FilePass
  /\ \A p \in Processes : WorkerPass(p)
  /\ \A p \in Receivers : ReceiverPass(p)

LEMMA BehindGrows ==
  ASSUME NEW P, NEW st, NEW E, NEW t, NEW R, Behind(P, st, E, t, R),
         NEW F, E \subseteq F, NEW Q, R \subseteq Q
  PROVE  Behind(P, st, F, t, Q)
BY DEF Behind

(* It is enough that what a message is linked to is in turn linked to one of Q. *)
LEMMA BehindLinked ==
  ASSUME NEW P, P \subseteq Records, NEW st, NEW E, NEW t, NEW R,
         Behind(P, st, E, t, R), NEW Q, \A n \in R : Links[n] \cap Q # {}
  PROVE  Behind(P, st, E, t, Q)
<1> SUFFICES ASSUME NEW m \in P, st[m] <= t, m \notin E
             PROVE  Links[m] \cap Q # {}
  BY DEF Behind
<1>1. PICK n \in Links[m] : n \in R
  BY DEF Behind
<1>2. PICK k \in Links[n] : k \in Q
  BY <1>1
<1>3. k \in Links[m]
  BY <1>1, <1>2, LinkedTransitive
<1> QED BY <1>2, <1>3

(* How a step changes the server: a message that is new to it, or a stamp that was
   given, leaves none behind that is not excused.                                  *)
World ==
  /\ Pushed \subseteq Pushed'
  /\ \A m \in Pushed : stamp'[m] = stamp[m]
  /\ ExcusedOnes \cap Pushed \subseteq ExcusedOnes'
  /\ \A x \in There : stamp'[x] >= stamp[x]
  /\ \A m \in Pushed', x \in There :
       /\ m \notin Pushed \/ stamp'[x] # stamp[x]
       /\ stamp'[m] <= stamp'[x]
       => m \in ExcusedOnes'
  /\ PushedStamped'

(* E and F may excuse more than the server does. *)
LEMMA WorldLeaves ==
  ASSUME TypeInv, TypeInv', World, NEW t \in Int, Reached(t),
         NEW E, NEW F, E \cap Pushed \subseteq F, ExcusedOnes' \subseteq F,
         NEW R, Behind(Pushed, stamp, E, t, R), NEW Q, R \subseteq Q
  PROVE  Behind(Pushed', stamp', F, t, Q)
<1> SUFFICES ASSUME NEW m \in Pushed', stamp'[m] <= t, m \notin F
             PROVE  Links[m] \cap Q # {}
  BY DEF Behind
<1>1. /\ stamp \in [Records -> Int] /\ stamp' \in [Records -> Int]
      /\ There \subseteq Records /\ m \in Records
  <2>1. Pushed \subseteq Messages /\ Pushed' \subseteq Messages
    BY DEF Pushed, ToSet, TypeInv, TypeOK, ServerOK
  <2> QED BY <2>1 DEF There, Records, TypeInv, TypeOK, ServerOK
<1>2. CASE m \in Pushed
  <2>1. stamp[m] <= t /\ m \notin E
    BY <1>2 DEF World
  <2> QED BY <1>2, <2>1 DEF Behind
<1>3. CASE m \notin Pushed
  <2>1. stamp'[m] > 0
    BY DEF World, PushedStamped
  <2>2. PICK x \in There : stamp[x] >= t
    BY <1>1, <2>1 DEF Reached
  <2>3. stamp'[x] >= stamp[x]
    BY DEF World
  <2>4. stamp'[m] <= stamp'[x]
    BY <1>1, <2>2, <2>3
  <2> QED BY <1>3, <2>4 DEF World
<1> QED BY <1>2, <1>3

LEMMA WorldBehind ==
  ASSUME TypeInv, TypeInv', World, NEW t \in Int, Reached(t),
         NEW R, NoGap(t, R), NEW Q, R \subseteq Q
  PROVE  Behind(Pushed', stamp', ExcusedOnes', t, Q)
BY WorldLeaves DEF NoGap, World

LEMMA WorldAt ==
  ASSUME TypeInv, TypeInv', World, NEW x \in There,
         NEW R, NoGap(stamp[x], R), NEW Q, R \subseteq Q
  PROVE  Behind(Pushed', stamp', ExcusedOnes', stamp'[x], Q)
<1>1. CASE stamp'[x] = stamp[x]
  <2>1. stamp[x] \in Int
    BY DEF There, Pushed, ToSet, Records, TypeInv, TypeOK, ServerOK
  <2>2. Reached(stamp[x])
    BY <2>1 DEF Reached
  <2> QED BY <1>1, <2>1, <2>2, WorldBehind
<1>2. CASE stamp'[x] # stamp[x]
  BY <1>2 DEF World, Behind
<1> QED BY <1>1, <1>2

LEMMA ReachedStays ==
  ASSUME TypeInv, TypeInv', World, NEW t \in Int, Reached(t)
  PROVE  Reached(t)'
<1>1. CASE t = 0
  BY <1>1 DEF Reached
<1>2. ASSUME NEW x \in There, stamp[x] >= t PROVE Reached(t)'
  <2>1. x \in There'
    BY DEF There, World
  <2>2. stamp[x] \in Int /\ stamp'[x] \in Int
    BY DEF There, Pushed, ToSet, Records, TypeInv, TypeOK, ServerOK
  <2>3. stamp'[x] >= t
    BY <1>2, <2>2 DEF World
  <2> QED BY <2>1, <2>3 DEF Reached
<1> QED BY <1>1, <1>2 DEF Reached
LEMMA ThereOK ==
  ASSUME TypeInv
  PROVE  /\ Pushed \subseteq Messages /\ There \subseteq Records
         /\ stamp \in [Records -> Int]
         /\ Messages \cap Injects = {}
         /\ Messages \subseteq Records /\ Injects \subseteq Records
BY ProcessesAssumption DEF There, Pushed, ToSet, Records, TypeInv, TypeOK, ServerOK

LEMMA QuietWorld ==
  ASSUME TypeInv, PushedStamped, UNCHANGED <<stamp, list, late>>, cut \subseteq cut'
  PROVE  World
<1>1. Pushed' = Pushed /\ PushedStamped'
  BY DEF Pushed, PushedStamped
<1>2. ExcusedOnes \subseteq ExcusedOnes'
  BY DEF ExcusedOnes, Excused
<1>3. \A x \in There : stamp'[x] >= stamp[x]
  BY ThereOK
<1> QED BY <1>1, <1>2, <1>3 DEF World

LEMMA StampWorld ==
  ASSUME TypeInv, PushedStamped, NEW m \in Messages, Stamp(m)
  PROVE  World
<1>1. /\ stamp[m] = 0 /\ stamp' = [stamp EXCEPT ![m] = now]
      /\ UNCHANGED <<list, late, cut>>
  BY DEF Stamp, history
<1>2. Pushed' = Pushed /\ m \notin Pushed /\ m \notin Injects
  BY <1>1, ThereOK DEF Pushed, PushedStamped
<1>3. \A x \in There : stamp'[x] = stamp[x]
  BY <1>1, <1>2, ThereOK DEF There
<1>4. \A x \in There : stamp'[x] >= stamp[x]
  BY <1>3, ThereOK
<1>5. ExcusedOnes \cap Pushed \subseteq ExcusedOnes'
  BY <1>1, <1>3 DEF ExcusedOnes, Excused, There
<1>6. PushedStamped'
  BY <1>2, <1>3 DEF PushedStamped, There
<1> QED BY <1>2, <1>3, <1>4, <1>5, <1>6 DEF World, There

(* A message that is pushed behind one that is not older is late. *)
LEMMA PushWorld ==
  ASSUME TypeInv, PushedStamped, NEW m \in Messages, Push(m)
  PROVE  World
<1>1. /\ stamp[m] # 0 /\ list' = <<m>> \o list
      /\ late' = IF \E n \in ToSet(list) : stamp[n] >= stamp[m] THEN late \cup {m} ELSE late
      /\ UNCHANGED <<stamp, cut>>
  BY DEF Push
<1>2. Pushed' = Pushed \cup {m}
  <2>1. list \in Seq(Messages) /\ <<m>> \in Seq(Messages)
    BY DEF TypeInv, TypeOK, ServerOK
  <2>2. /\ DOMAIN list' = 1 .. Len(list) + 1
        /\ list'[1] = m
        /\ \A i \in 1 .. Len(list) : list'[i + 1] = list[i]
    BY <1>1, <2>1
  <2>3. \A i \in 1 .. Len(list) + 1 : i = 1 \/ (i - 1 \in 1 .. Len(list) /\ (i - 1) + 1 = i)
    BY <2>1
  <2>4. \A i \in 1 .. Len(list) : i + 1 \in 1 .. Len(list) + 1
    BY <2>1
  <2>5. 1 \in 1 .. Len(list) + 1
    BY <2>1
  <2>6. \A x : x \in Pushed' => x \in Pushed \cup {m}
    <3> SUFFICES ASSUME NEW k \in 1 .. Len(list) + 1 PROVE list'[k] \in Pushed \cup {m}
      BY <2>2 DEF Pushed, ToSet
    <3>1. CASE k = 1
      BY <2>2, <3>1
    <3>2. CASE k # 1
      <4>1. k - 1 \in 1 .. Len(list) /\ (k - 1) + 1 = k
        BY <2>3, <3>2
      <4>2. list'[k] = list[k - 1]
        BY <2>2, <4>1
      <4> QED BY <2>1, <4>1, <4>2 DEF Pushed, ToSet
    <3> QED BY <3>1, <3>2
  <2>7. \A x : x \in Pushed \cup {m} => x \in Pushed'
    BY <2>1, <2>2, <2>4, <2>5 DEF Pushed, ToSet
  <2> QED BY <2>6, <2>7
<1>3. stamp[m] > 0
  BY <1>1 DEF Records, TypeInv, TypeOK, ServerOK
<1>4. ExcusedOnes \subseteq ExcusedOnes'
  BY <1>1 DEF ExcusedOnes, Excused
<1>5. ASSUME NEW x \in There, stamp[m] <= stamp[x] PROVE m \in ExcusedOnes'
  <2>1. stamp[x] >= stamp[m]
    BY <1>5, ThereOK
  <2>2. CASE x \in Pushed
    BY <1>1, <2>1, <2>2 DEF Pushed, ExcusedOnes, Excused
  <2>3. CASE x \in Injects
    BY <1>1, <2>1, <2>3 DEF ExcusedOnes, Excused
  <2> QED BY <2>2, <2>3 DEF There
<1>6. \A x \in There : stamp'[x] >= stamp[x]
  BY <1>1, ThereOK
<1>7. PushedStamped'
  BY <1>1, <1>2, <1>3 DEF PushedStamped
<1> QED BY <1>1, <1>2, <1>4, <1>5, <1>6, <1>7 DEF World

(* A test message excuses what is not newer. *)
LEMMA InjectWorld ==
  ASSUME TypeInv, PushedStamped, NEW p \in Workers, NEW i \in Injects, Inject(p, i)
  PROVE  World /\ stamp'[i] # stamp[i]
<1>1. /\ stamp[i] = 0 /\ stamp' = [stamp EXCEPT ![i] = now]
      /\ UNCHANGED <<list, late, cut>>
  BY DEF Inject
<1>2. Pushed' = Pushed /\ i \notin Pushed
  BY <1>1, ThereOK DEF Pushed
<1>3. now \in Int /\ now > 0 /\ stamp'[i] = now
  BY <1>1, ThereOK, BoundsAssumption DEF TypeInv, TypeOK, ServerOK
<1>4. \A x \in Records \ {i} : stamp'[x] = stamp[x]
  BY <1>1, ThereOK
<1>5. \A x \in Pushed : x \in Records \ {i}
  BY <1>2, ThereOK
<1>6. \A x \in There : stamp'[x] >= stamp[x]
  <2>1. stamp'[i] >= stamp[i]
    BY <1>1, <1>3
  <2>2. \A x \in Records : stamp[x] >= stamp[x]
    BY ThereOK
  <2> QED BY <1>4, <2>1, <2>2, ThereOK
<1>7. ExcusedOnes \cap Pushed \subseteq ExcusedOnes'
  <2> SUFFICES ASSUME NEW m \in Pushed, Excused(m) PROVE m \in ExcusedOnes'
    BY DEF ExcusedOnes
  <2>1. stamp'[m] = stamp[m] /\ m \in Messages /\ stamp[m] \in Int
    BY <1>4, <1>5, ThereOK
  <2>2. CASE m \in late \cup cut
    BY <1>1, <2>1, <2>2 DEF ExcusedOnes, Excused
  <2>3. ASSUME NEW j \in Injects, stamp[j] >= stamp[m] PROVE m \in ExcusedOnes'
    <3>1. stamp'[j] >= stamp[j] /\ stamp[j] \in Int /\ stamp'[j] \in Int
      BY <1>3, <1>4, <1>6, ThereOK DEF There
    <3>2. stamp'[j] >= stamp'[m]
      BY <2>1, <2>3, <3>1
    <3> QED BY <2>1, <3>2 DEF ExcusedOnes, Excused
  <2> QED BY <2>2, <2>3 DEF Excused
<1>8. \A x \in There : stamp'[x] # stamp[x] => x = i
  BY <1>4, ThereOK
<1>9. \A m \in Pushed' : stamp'[m] <= stamp'[i] => m \in ExcusedOnes'
  <2> SUFFICES ASSUME NEW m \in Pushed', stamp'[m] <= stamp'[i] PROVE m \in ExcusedOnes'
    OBVIOUS
  <2>1. stamp'[m] \in Int /\ m \in Messages
    BY <1>2, <1>4, <1>5, ThereOK
  <2>2. stamp'[i] >= stamp'[m]
    BY <1>3, <2>1
  <2> QED BY <2>1, <2>2 DEF ExcusedOnes, Excused
<1>10. PushedStamped'
  BY <1>2, <1>4, <1>5 DEF PushedStamped
<1>11. \A m \in Pushed : stamp'[m] = stamp[m]
  BY <1>4, <1>5
<1>12. World
  BY <1>2, <1>6, <1>7, <1>8, <1>9, <1>10, <1>11 DEF World
<1> QED BY <1>1, <1>3, <1>12

LEMMA WorldHolds ==
  ASSUME TypeInv, PushedStamped, Next
  PROVE  World
<1>1. ASSUME NEW p \in Processes,
             Load(p) \/ Pull(p) \/ Show(p) \/ Construct(p) \/ ReceiverPull(p)
               \/ ReceiverLoad(p) \/ Save(p) \/ Stop(p)
      PROVE  World
  <2>1. UNCHANGED <<stamp, list, late>> /\ cut \subseteq cut'
    BY <1>1 DEF Load, Pull, Show, Construct, ReceiverPull, ReceiverLoad, Save, SaveMessages,
                SaveSeenMessageIds, SaveKnownLabels, Stop, server, history
  <2> QED BY <2>1, QuietWorld
<1>2. CASE Tick \/ ClearMessages \/ SaveFilter
  BY <1>2, QuietWorld DEF Tick, ClearMessages, SaveFilter, server, history
<1> QED
  BY <1>1, <1>2, StampWorld, PushWorld, InjectWorld DEF Next, Cycle, Processes
(* What a process that a step does not concern has left behind stays as it was. *)
LEMMA PassKept ==
  ASSUME TypeInv, TypeInv', PassInv, World, Rec \subseteq Rec',
         NEW q \in Processes, SameProcess(q)
  PROVE  WorkerPass(q)' /\ (q \in Receivers => ReceiverPass(q)')
<1>1. Base(q)' = Base(q) /\ Carried(q)' = Carried(q) /\ There \subseteq There'
  BY DEF SameProcess, Base, Carried, There, World
<1>2. Rec \cup Carried(q) \subseteq Rec' \cup Carried(q)'
  BY <1>1
<1>3. WorkerPass(q)'
  <2>1. snap'[q] \cup accepted'[q] \subseteq There'
    BY <1>1 DEF PassInv, WorkerPass, SameProcess
  <2>2. ASSUME NEW x \in Base(q)
        PROVE  Behind(Pushed', stamp', ExcusedOnes', stamp'[x], Rec' \cup Carried(q)')
    <3>1. x \in There
      BY <2>2 DEF PassInv, WorkerPass, Base
    <3>2. NoGap(stamp[x], Rec \cup Carried(q))
      BY <2>2 DEF PassInv, WorkerPass
    <3> QED BY <1>2, <3>1, <3>2, WorldAt
  <2> QED BY <1>1, <2>1, <2>2 DEF WorkerPass, NoGap
<1>4. ASSUME q \in Receivers PROVE ReceiverPass(q)'
  <2>1. waterline'[q] = waterline[q] /\ got'[q] = got[q] /\ pc'[q] = pc[q]
    BY <1>4 DEF SameProcess
  <2>2. waterline[q] \in Int /\ Reached(waterline[q]) /\ NoGap(waterline[q], Rec \cup Carried(q))
    BY <1>4 DEF PassInv, ReceiverPass, TypeInv, TypeOK, ProcessOK
  <2>3. PICK t \in Int : t = waterline[q]
    BY <2>2
  <2>4. Reached(t)'
    BY <2>2, <2>3, ReachedStays
  <2>5. Behind(Pushed', stamp', ExcusedOnes', t, Rec' \cup Carried(q)')
    BY <1>2, <2>2, <2>3, WorldBehind
  <2>6. pc[q] = "load" => \A x \in ToSet(got[q]) : x \in Pushed' /\ stamp'[x] <= t
    BY <1>4, <2>3 DEF PassInv, ReceiverPass, World
  <2> QED BY <2>1, <2>3, <2>4, <2>5, <2>6 DEF ReceiverPass, NoGap, Reached
<1> QED BY <1>3, <1>4

LEMMA PassStep ==
  ASSUME TypeInv, TypeInv', PassInv, World, Rec \subseteq Rec', FilePass',
         NEW p \in Processes, \A q \in Processes \ {p} : SameProcess(q),
         WorkerPass(p)', p \in Receivers => ReceiverPass(p)'
  PROVE  PassInv'
<1>1. ASSUME NEW q \in Processes, q # p
      PROVE  WorkerPass(q)' /\ (q \in Receivers => ReceiverPass(q)')
  BY <1>1, PassKept
<1>2. PushedStamped'
  BY DEF World
<1>3. \A q \in Processes : WorkerPass(q)'
  BY <1>1
<1>4. \A q \in Receivers : ReceiverPass(q)'
  BY <1>1 DEF Processes
<1> QED BY <1>2, <1>3, <1>4 DEF PassInv

LEMMA FilePassStep ==
  ASSUME TypeInv, TypeInv', SeenInv, PassInv, World, UNCHANGED <<recorded, trimmed>>,
         file'.messages \subseteq file.messages
  PROVE  FilePass' /\ Rec' = Rec
<1>1. Rec' = Rec /\ There \subseteq There' /\ Rec \subseteq There
  BY DEF Rec, There, World, PassInv, FilePass
<1>2. ASSUME NEW x \in file'.messages
      PROVE  Behind(Pushed', stamp', ExcusedOnes', stamp'[x], Rec')
  <2>1. x \in There /\ NoGap(stamp[x], Rec)
    BY <1>1 DEF SeenInv, FileKnown, PassInv, FilePass
  <2> QED BY <1>1, <2>1, WorldAt
<1> QED BY <1>1, <1>2 DEF FilePass, NoGap

(* The messages of the server are linked to what was asked for or are newer than the
   waterline, and then they are in the answer or were cut from it.                  *)
LEMMA AnswerCovers ==
  ASSUME TypeInv, UNCHANGED <<stamp, list, late>>,
         NEW since \in Int, NEW R, NoGap(since, R), cut' = cut \cup LeftOut(since), NEW t
  PROVE  Behind(Pushed', stamp', ExcusedOnes', t, R \cup ToSet(Answer(since)))
<1> SUFFICES ASSUME NEW m \in Pushed, m \notin ExcusedOnes'
             PROVE  Links[m] \cap (R \cup ToSet(Answer(since))) # {}
  BY DEF Behind, Pushed
<1>1. m \in Messages /\ m \in Records /\ stamp[m] \in Int
  BY ThereOK
<1>2. m \notin ExcusedOnes
  BY DEF ExcusedOnes, Excused
<1>3. CASE stamp[m] <= since
  BY <1>2, <1>3 DEF NoGap, Behind
<1>4. CASE stamp[m] > since
  <2>1. PICK i \in DOMAIN list : list[i] = m
    BY DEF Pushed, ToSet
  <2>2. i \in Pullable(since)
    BY <1>4, <2>1 DEF Pullable
  <2>3. m \notin LeftOut(since)
    BY <1>1 DEF ExcusedOnes, Excused
  <2>4. i \in Sent(since)
    BY <2>1, <2>2, <2>3 DEF LeftOut
  <2>5. m \in ToSet(Answer(since))
    BY <2>1, <2>4, AnswerOK DEF TypeInv, TypeOK
  <2> QED BY <1>1, <2>5, LinkedSelf
<1> QED BY <1>1, <1>3, <1>4

(* The newest message of what a process has in hand is a waterline like any other. *)
LEMMA NewestNoGap ==
  ASSUME TypeInv, PassInv, NEW S, S \subseteq There,
         NEW R, \A x \in S : NoGap(stamp[x], R)
  PROVE  NoGap(Newest(S), R) /\ Reached(Newest(S)) /\ Newest(S) \in 0 .. MaxTime
<1>1. S \subseteq Records
  BY ThereOK
<1>2. /\ Newest(S) \in 0 .. MaxTime
      /\ Newest(S) > 0 => \E m \in S : stamp[m] = Newest(S)
  BY <1>1, NewestOK DEF TypeInv, TypeOK
<1>3. MaxTime \in Int
  BY BoundsAssumption
<1>4. CASE Newest(S) = 0
  <2>1. \A m \in Pushed : ~(stamp[m] <= 0)
    BY ThereOK DEF PassInv, PushedStamped
  <2> QED BY <1>2, <1>4, <2>1 DEF NoGap, Behind, Reached
<1>5. CASE Newest(S) > 0
  <2>1. PICK x \in S : stamp[x] = Newest(S)
    BY <1>2, <1>5
  <2>2. NoGap(Newest(S), R)
    <3>1. NoGap(stamp[x], R)
      OBVIOUS
    <3> QED BY <2>1, <3>1 DEF NoGap
  <2>3. Reached(Newest(S))
    <3>1. stamp[x] >= Newest(S)
      BY <1>2, <1>3, <2>1
    <3> QED BY <3>1 DEF Reached
  <2> QED BY <1>2, <2>2, <2>3
<1> QED BY <1>2, <1>3, <1>4, <1>5
LEMMA RestPass ==
  ASSUME TypeInv, NEW p \in Processes, NEW l \in {"idle", "new"}, Rest(p, l)
  PROVE  WorkerPass(p)' /\ Carried(p)' = {}
<1>1. pc'[p] = l /\ snap'[p] = {} /\ accepted'[p] = {}
  BY DomainsHold DEF Rest, Goto, Domains
<1>2. Base(p)' = {} /\ Carried(p)' = {}
  BY <1>1 DEF Base, Carried
<1> QED BY <1>1, <1>2 DEF WorkerPass

LEMMA TakePass ==
  ASSUME TypeInv, NEW p \in Processes, NEW M, NEW new,
         pc' = [pc EXCEPT ![p] = "save"],
         snap' = [snap EXCEPT ![p] = M],
         accepted' = [accepted EXCEPT ![p] = new],
         M \cup new \subseteq There',
         \A x \in M \cup new : Behind(Pushed', stamp', ExcusedOnes', stamp'[x], Rec' \cup new)
  PROVE  WorkerPass(p)' /\ Carried(p)' = new
<1>1. pc'[p] = "save" /\ snap'[p] = M /\ accepted'[p] = new
  BY DomainsHold DEF Domains
<1>2. Base(p)' = M \cup new /\ Carried(p)' = new
  BY <1>1 DEF Base, Carried
<1> QED BY <1>1, <1>2 DEF WorkerPass, NoGap

(* What a transaction finds has left nothing behind. *)
LEMMA ReadPass ==
  ASSUME TypeInv, TypeInv', SeenInv, PassInv, World, Rec' = Rec, NEW r \in Readable
  PROVE  /\ r.messages \subseteq There /\ r.messages \subseteq There'
         /\ \A x \in r.messages : NoGap(stamp[x], Rec)
         /\ \A x \in r.messages : \A Q :
              Rec \subseteq Q => Behind(Pushed', stamp', ExcusedOnes', stamp'[x], Q)
<1>1. r.messages \subseteq file.messages
  BY DEF Readable, Empty
<1>2. file.messages \subseteq There /\ There \subseteq There'
  BY DEF SeenInv, FileKnown, PassInv, FilePass, There, World
<1>3. \A x \in r.messages : x \in There /\ NoGap(stamp[x], Rec)
  BY <1>1, <1>2 DEF PassInv, FilePass
<1> QED BY <1>2, <1>3, WorldAt

LEMMA PassLoad ==
  ASSUME TypeInv, TypeInv', SeenInv, PassInv, World, NEW p \in Workers, Load(p)
  PROVE  PassInv'
<1>1. /\ UNCHANGED <<file, accepted, recorded, trimmed>>
      /\ pc' = [pc EXCEPT ![p] = "pull"]
  BY DEF Load, Goto
<1>2. PICK r \in Readable : snap' = [snap EXCEPT ![p] = r.messages]
  BY DEF Load
<1>3. p \in Processes /\ p \notin Receivers
  BY ProcessesAssumption DEF Processes
<1>4. FilePass' /\ Rec' = Rec /\ There \subseteq There'
  BY <1>1, FilePassStep DEF There, World
<1>5. pc'[p] = "pull" /\ snap'[p] = r.messages /\ Base(p)' = r.messages
  BY <1>1, <1>2, <1>3, DomainsHold DEF Domains, Base
<1>6. WorkerPass(p)'
  <2>1. snap'[p] \cup accepted'[p] \subseteq There'
    BY <1>1, <1>3, <1>4, <1>5, ReadPass DEF PassInv, WorkerPass
  <2>2. Rec \subseteq Rec' \cup Carried(p)'
    BY <1>4
  <2>3. \A x \in r.messages :
          Behind(Pushed', stamp', ExcusedOnes', stamp'[x], Rec' \cup Carried(p)')
    BY <1>4, <2>2, ReadPass
  <2> QED BY <1>5, <2>1, <2>3 DEF WorkerPass, NoGap
<1> QED BY <1>3, <1>4, <1>6, OthersSame, PassStep

(* After a pull every message on the server is linked to what was recorded or is accepted
   now, or it is excused.                                                               *)
LEMMA PullFinds ==
  ASSUME TypeInv, SeenInv, PassInv, NEW p \in Workers, Pull(p), NEW t
  PROVE  /\ Behind(Pushed', stamp', ExcusedOnes', t, Rec \cup Accepted(ring[p], Answer(Since(p))))
         /\ Accepted(ring[p], Answer(Since(p))) \subseteq Pushed
<1>1. /\ UNCHANGED <<stamp, list, late>> /\ pc[p] = "pull" /\ p \in Processes /\ p \notin Receivers
      /\ cut' = cut \cup LeftOut(Since(p))
  BY ProcessesAssumption DEF Pull, server, Processes
<1>2. PICK since, batch, new :
        since = Since(p) /\ batch = Answer(since) /\ new = Accepted(ring[p], batch)
  OBVIOUS
<1>3. Rec \cup Carried(p) = Rec /\ Base(p) = snap[p]
  BY <1>1 DEF Carried, Base
<1>4. snap[p] \subseteq There /\ \A x \in snap[p] : NoGap(stamp[x], Rec)
  BY <1>1, <1>3 DEF PassInv, WorkerPass
<1>5. NoGap(since, Rec) /\ since \in Int
  BY <1>2, <1>4, NewestNoGap DEF Since
<1>6. /\ batch \in Seq(Records) /\ ring[p] \in RingOf(Ids) /\ Rec \in SUBSET Records
      /\ ToSet(batch) = {list[i] : i \in Sent(since)}
  BY <1>1, <1>2, AnswerOK DEF Records, Rec, TypeInv, TypeOK, ProcessOK, HistoryOK
<1>7. new \subseteq ToSet(batch) /\ new \subseteq Records /\ ToSet(batch) \subseteq Pushed
  <2>1. new \subseteq ToSet(batch)
    BY <1>2 DEF Accepted, ToSet
  <2>2. \A i \in Sent(since) : list[i] \in Pushed
    BY DEF Sent, Pullable, Pushed, ToSet
  <2>3. ToSet(batch) \subseteq Pushed
    BY <1>6, <2>2
  <2> QED BY <2>1, <2>3, ThereOK
<1>8. PICK Q : Q = Rec \cup new
  OBVIOUS
<1>9. \A m \in ToSet(batch) : Links[m] \cap Q # {}
  <2>1. ToSet(ring[p]) \subseteq Known(Rec)
    BY <1>1, <1>3 DEF SeenInv, RingKnown
  <2>2. Q \in SUBSET Records /\ Rec \subseteq Q /\ Accepted(ring[p], batch) \subseteq Q
    BY <1>2, <1>6, <1>7, <1>8
  <2> QED BY <1>6, <2>1, <2>2, BatchIsKnown
<1>10. \A n \in Rec \cup ToSet(batch) : Links[n] \cap Q # {}
  BY <1>6, <1>8, <1>9, LinkedSelf
<1>11. Behind(Pushed', stamp', ExcusedOnes', t, Rec \cup ToSet(batch))
  BY <1>1, <1>2, <1>5, AnswerCovers
<1>12. Pushed' \subseteq Records
  BY <1>1, ThereOK DEF Pushed
<1> QED BY <1>2, <1>7, <1>8, <1>10, <1>11, <1>12, BehindLinked

LEMMA PassPull ==
  ASSUME TypeInv, TypeInv', SeenInv, PassInv, World, NEW p \in Workers, Pull(p)
  PROVE  PassInv'
<1>1. /\ UNCHANGED <<file, stamp, list, late, recorded, trimmed>>
      /\ pc[p] = "pull" /\ cut' = cut \cup LeftOut(Since(p))
  BY DEF Pull, server
<1>2. p \in Processes /\ p \notin Receivers
  BY ProcessesAssumption DEF Processes
<1>3. FilePass' /\ Rec' = Rec /\ There' = There
  BY <1>1, FilePassStep DEF There, Pushed
<1>4. WorkerPass(p)'
  <2>1. CASE Rest(p, "idle")
    BY <1>2, <2>1, RestPass
  <2>2. CASE ~Rest(p, "idle")
    <3>1. PICK M, new : M = snap[p] /\ new = Accepted(ring[p], Answer(Since(p)))
      OBVIOUS
    <3>2. /\ pc' = [pc EXCEPT ![p] = "save"]
          /\ snap' = [snap EXCEPT ![p] = M]
          /\ accepted' = [accepted EXCEPT ![p] = new]
      BY <2>2, <3>1 DEF Pull, Take, Goto
    <3>3. M \cup new \subseteq There'
      BY <1>2, <1>3, <3>1, PullFinds DEF PassInv, WorkerPass, There
    <3>4. ASSUME NEW x \in M \cup new
          PROVE  Behind(Pushed', stamp', ExcusedOnes', stamp'[x], Rec' \cup new)
      <4>1. PICK t : t = stamp'[x]
        OBVIOUS
      <4> QED BY <1>3, <3>1, <4>1, PullFinds
    <3> QED BY <1>2, <3>2, <3>3, <3>4, TakePass
  <2> QED BY <2>1, <2>2
<1> QED BY <1>2, <1>3, <1>4, OthersSame, PassStep
LEMMA PassInject ==
  ASSUME TypeInv, TypeInv', SeenInv, PassInv, NEW p \in Workers, NEW i \in Injects, Inject(p, i)
  PROVE  PassInv'
<1>1. World /\ stamp'[i] # stamp[i]
  BY InjectWorld DEF PassInv
<1>2. UNCHANGED <<file, recorded, trimmed>>
  BY DEF Inject
<1>3. p \in Processes /\ p \notin Receivers
  BY ProcessesAssumption DEF Processes
<1>4. FilePass' /\ Rec' = Rec /\ i \in There /\ There \subseteq There'
  BY <1>1, <1>2, FilePassStep DEF There, World
<1>5. WorkerPass(p)'
  <2>1. PICK r \in Readable : Take(p, r.messages, Seeded(r), <<i>>)
    BY DEF Inject
  <2>2. CASE Rest(p, "idle")
    BY <1>3, <2>2, RestPass
  <2>3. CASE ~Rest(p, "idle")
    <3>1. PICK M, new : M = r.messages /\ new = Accepted(Seeded(r), <<i>>)
      OBVIOUS
    <3>2. /\ pc' = [pc EXCEPT ![p] = "save"]
          /\ snap' = [snap EXCEPT ![p] = M]
          /\ accepted' = [accepted EXCEPT ![p] = new]
      BY <2>1, <2>3, <3>1 DEF Take, Goto
    <3>3. new \subseteq {i}
      BY <3>1 DEF Accepted
    <3>4. M \cup new \subseteq There'
      BY <1>1, <1>4, <3>1, <3>3, ReadPass
    <3>5. Rec \subseteq Rec' \cup new
      BY <1>4
    <3>6. \A x \in M : Behind(Pushed', stamp', ExcusedOnes', stamp'[x], Rec' \cup new)
      BY <1>1, <1>4, <3>1, <3>5, ReadPass
    <3>7. Behind(Pushed', stamp', ExcusedOnes', stamp'[i], Rec' \cup new)
      BY <1>1, <1>4 DEF World, Behind
    <3>8. \A x \in M \cup new : Behind(Pushed', stamp', ExcusedOnes', stamp'[x], Rec' \cup new)
      BY <3>3, <3>6, <3>7
    <3> QED BY <1>3, <3>2, <3>4, <3>8, TakePass
  <2> QED BY <2>2, <2>3
<1> QED BY <1>1, <1>3, <1>4, <1>5, OthersSame, PassStep

LEMMA PassConstruct ==
  ASSUME TypeInv, TypeInv', SeenInv, PassInv, World, NEW p \in Receivers, Construct(p)
  PROVE  PassInv'
<1>1. /\ UNCHANGED <<file, stamp, list, late, cut, snap, accepted, recorded, trimmed>>
      /\ pc[p] = "new" /\ pc' = [pc EXCEPT ![p] = "idle"]
  BY DEF Construct, Goto, server, history
<1>2. PICK r \in Readable : waterline' = [waterline EXCEPT ![p] = Newest(r.messages)]
  BY DEF Construct
<1>3. p \in Processes
  BY DEF Processes
<1>4. FilePass' /\ Rec' = Rec /\ There' = There
  BY <1>1, FilePassStep DEF There, Pushed
<1>5. pc'[p] = "idle" /\ Base(p)' = {} /\ Carried(p)' = {}
  BY <1>1, <1>3, DomainsHold DEF Domains, Base, Carried
<1>6. WorkerPass(p)'
  BY <1>1, <1>3, <1>4, <1>5 DEF PassInv, WorkerPass
<1>7. ReceiverPass(p)'
  <2>1. PICK t : t = Newest(r.messages)
    OBVIOUS
  <2>2. NoGap(t, Rec) /\ Reached(t)
    BY <1>4, <2>1, NewestNoGap, ReadPass
  <2>3. Behind(Pushed', stamp', ExcusedOnes', t, Rec' \cup Carried(p)')
    BY <1>1, <1>4, <1>5, <2>2 DEF NoGap, Pushed, ExcusedOnes, Excused
  <2>4. waterline'[p] = t
    BY <1>2, <2>1, DomainsHold DEF Domains
  <2>5. Reached(t)'
    BY <1>1, <1>4, <2>2 DEF Reached
  <2> QED BY <1>5, <2>3, <2>4, <2>5 DEF ReceiverPass, NoGap, Reached
<1> QED BY <1>3, <1>4, <1>6, <1>7, OthersSame, PassStep

LEMMA PassReceiverPull ==
  ASSUME TypeInv, TypeInv', SeenInv, PassInv, World, NEW p \in Receivers, ReceiverPull(p)
  PROVE  PassInv'
<1>1. /\ UNCHANGED <<file, stamp, list, late, snap, accepted, recorded, trimmed>>
      /\ pc[p] = "idle" /\ pc' = [pc EXCEPT ![p] = "load"]
  BY DEF ReceiverPull, Goto, server
<1>2. PICK since, batch : since = waterline[p] /\ batch = Answer(since)
  OBVIOUS
<1>3. /\ cut' = cut \cup LeftOut(since)
      /\ got' = [got EXCEPT ![p] = batch]
      /\ waterline' = [waterline EXCEPT ![p] = Newest(ToSet(batch))]
  BY <1>2 DEF ReceiverPull
<1>4. p \in Processes
  BY DEF Processes
<1>5. FilePass' /\ Rec' = Rec /\ There' = There /\ Pushed' = Pushed
  BY <1>1, FilePassStep DEF There, Pushed
<1>6. pc'[p] = "load" /\ got'[p] = batch /\ waterline'[p] = Newest(ToSet(batch))
  BY <1>1, <1>3, <1>4, DomainsHold DEF Domains
<1>7. Base(p)' = {} /\ Carried(p)' = ToSet(batch)
  BY <1>6 DEF Base, Carried
<1>8. WorkerPass(p)'
  BY <1>1, <1>4, <1>5, <1>7 DEF PassInv, WorkerPass
<1>9. ReceiverPass(p)'
  <2>1. NoGap(since, Rec) /\ since \in Int
    <3>1. Rec \cup Carried(p) = Rec
      BY <1>1 DEF Carried
    <3>2. NoGap(waterline[p], Rec \cup Carried(p))
      BY DEF PassInv, ReceiverPass
    <3>3. NoGap(since, Rec)
      BY <1>2, <3>1, <3>2 DEF NoGap
    <3>4. since \in Int
      BY <1>2 DEF TypeInv, TypeOK, ProcessOK
    <3> QED BY <3>3, <3>4
  <2>2. PICK t : t = Newest(ToSet(batch))
    OBVIOUS
  <2>3. Behind(Pushed', stamp', ExcusedOnes', t, Rec' \cup Carried(p)')
    BY <1>1, <1>2, <1>3, <1>5, <1>7, <2>1, AnswerCovers
  <2>4. ToSet(batch) \subseteq Pushed
    <3>1. \A i \in Sent(since) : list[i] \in Pushed
      BY DEF Sent, Pullable, Pushed, ToSet
    <3>2. ToSet(batch) = {list[i] : i \in Sent(since)}
      BY <1>2, AnswerOK DEF TypeInv, TypeOK
    <3> QED BY <3>1, <3>2
  <2>5. /\ t \in 0 .. MaxTime
        /\ \A m \in ToSet(batch) : stamp[m] <= t
        /\ t > 0 => \E m \in ToSet(batch) : stamp[m] = t
    <3>1. ToSet(batch) \subseteq Records
      BY <2>4, ThereOK
    <3> QED BY <2>2, <3>1, NewestOK DEF TypeInv, TypeOK
  <2>6. Reached(t)'
    <3>1. t \in Int /\ (t = 0 \/ t > 0)
      BY <2>5, BoundsAssumption
    <3>2. ASSUME NEW m \in ToSet(batch), stamp[m] = t PROVE Reached(t)'
      <4>1. m \in There' /\ stamp'[m] >= t
        BY <1>1, <1>5, <2>4, <3>1, <3>2 DEF There
      <4> QED BY <4>1 DEF Reached
    <3>3. CASE t = 0
      BY <3>3 DEF Reached
    <3> QED BY <2>5, <3>1, <3>2, <3>3
  <2>7. \A x \in ToSet(batch) : x \in Pushed' /\ stamp'[x] <= t
    BY <1>1, <1>5, <2>4, <2>5
  <2> QED BY <1>6, <2>2, <2>3, <2>6, <2>7 DEF ReceiverPass, NoGap, Reached
<1> QED BY <1>4, <1>5, <1>8, <1>9, OthersSame, PassStep
LEMMA PassReceiverLoad ==
  ASSUME TypeInv, TypeInv', SeenInv, PassInv, World, NEW p \in Receivers, ReceiverLoad(p)
  PROVE  PassInv'
<1>1. /\ UNCHANGED <<file, stamp, list, late, cut, waterline, recorded, trimmed>>
      /\ pc[p] = "load" /\ got' = [got EXCEPT ![p] = <<>>]
  BY DEF ReceiverLoad, server
<1>2. PICK r \in Readable : Take(p, r.messages, Seeded(r), got[p])
  BY DEF ReceiverLoad
<1>3. p \in Processes
  BY DEF Processes
<1>4. FilePass' /\ Rec' = Rec /\ There' = There /\ Pushed' = Pushed /\ ExcusedOnes' = ExcusedOnes
  BY <1>1, FilePassStep DEF There, Pushed, ExcusedOnes, Excused
<1>5. PICK t, batch, o, new :
        t = waterline[p] /\ batch = got[p] /\ o = Seeded(r) /\ new = Accepted(o, batch)
  OBVIOUS
<1>6. /\ Reached(t) /\ t \in Int
      /\ \A x \in ToSet(batch) : x \in Pushed /\ stamp[x] <= t
      /\ batch \in Seq(Records)
  <2>1. /\ Reached(waterline[p])
        /\ \A x \in ToSet(got[p]) : x \in Pushed /\ stamp[x] <= waterline[p]
    BY <1>1 DEF PassInv, ReceiverPass
  <2>2. waterline[p] \in Int /\ got[p] \in Seq(Messages)
    BY DEF TypeInv, TypeOK, ProcessOK
  <2>3. batch \in Seq(Records)
    BY <1>5, <2>2 DEF Records
  <2> QED BY <1>5, <2>1, <2>2, <2>3
<1>7. Behind(Pushed, stamp, ExcusedOnes, t, Rec \cup ToSet(batch))
  <2>1. NoGap(waterline[p], Rec \cup Carried(p)) /\ Carried(p) = ToSet(batch)
    BY <1>1, <1>5 DEF PassInv, ReceiverPass, Carried
  <2> QED BY <1>5, <2>1 DEF NoGap
<1>8. new \subseteq ToSet(batch)
  BY <1>5 DEF Accepted, ToSet
<1>9. PICK Q : Q = Rec \cup new
  OBVIOUS
<1>10. Behind(Pushed, stamp, ExcusedOnes, t, Q)
  <2>1. o \in RingOf(Ids) /\ ToSet(o) \subseteq Known(Rec)
    BY <1>5, ReadableOK, ReadKnown
  <2>2. Rec \in SUBSET Records
    BY DEF Rec, TypeInv, TypeOK, HistoryOK
  <2>3. Q \in SUBSET Records /\ Rec \subseteq Q /\ Accepted(o, batch) \subseteq Q
    BY <1>5, <1>6, <1>8, <1>9, <2>2, ThereOK
  <2>4. \A m \in ToSet(batch) : Links[m] \cap Q # {}
    BY <1>6, <2>1, <2>2, <2>3, BatchIsKnown
  <2>5. \A m \in Rec : Links[m] \cap Q # {}
    BY <1>9, <2>2, LinkedSelf
  <2>6. Pushed \subseteq Records
    BY ThereOK
  <2>7. \A m \in Rec \cup ToSet(batch) : Links[m] \cap Q # {}
    BY <2>4, <2>5
  <2> QED BY <1>7, <2>6, <2>7, BehindLinked
<1>11. WorkerPass(p)' /\ Carried(p)' = new
  <2>1. CASE new = {}
    <3>1. Rest(p, "idle")
      BY <1>2, <1>5, <2>1 DEF Take
    <3> QED BY <1>3, <2>1, <3>1, RestPass
  <2>2. CASE new # {}
    <3>1. PICK M : M = r.messages
      OBVIOUS
    <3>2. /\ pc' = [pc EXCEPT ![p] = "save"]
          /\ snap' = [snap EXCEPT ![p] = M]
          /\ accepted' = [accepted EXCEPT ![p] = new]
      BY <1>2, <1>5, <2>2, <3>1 DEF Take, Goto
    <3>3. M \cup new \subseteq There'
      BY <1>4, <1>6, <1>8, <3>1, ReadPass DEF There
    <3>4. Rec \subseteq Rec' \cup new
      BY <1>4
    <3>5. \A x \in M : Behind(Pushed', stamp', ExcusedOnes', stamp'[x], Rec' \cup new)
      BY <1>4, <3>1, <3>4, ReadPass
    <3>6. ASSUME NEW x \in new
          PROVE  Behind(Pushed', stamp', ExcusedOnes', stamp'[x], Rec' \cup new)
      <4>1. stamp[x] <= t /\ stamp'[x] = stamp[x] /\ stamp[x] \in Int
        BY <1>1, <1>6, <1>8, ThereOK
      <4>2. \A m \in Pushed : stamp[m] \in Int
        BY ThereOK
      <4>3. Behind(Pushed, stamp, ExcusedOnes, stamp[x], Q)
        BY <1>6, <1>10, <4>1, <4>2 DEF Behind
      <4> QED BY <1>1, <1>4, <1>9, <4>1, <4>3
    <3>7. \A x \in M \cup new : Behind(Pushed', stamp', ExcusedOnes', stamp'[x], Rec' \cup new)
      BY <3>5, <3>6
    <3> QED BY <1>3, <3>2, <3>3, <3>7, TakePass
  <2> QED BY <2>1, <2>2
<1>12. ReceiverPass(p)'
  <2>1. Behind(Pushed', stamp', ExcusedOnes', t, Rec' \cup Carried(p)')
    BY <1>1, <1>4, <1>9, <1>10, <1>11
  <2>2. waterline'[p] = t /\ Reached(t)'
    BY <1>1, <1>4, <1>5, <1>6 DEF Reached
  <2>3. pc'[p] # "load"
    BY <1>2, <1>3, DomainsHold DEF Take, Rest, Goto, Domains
  <2> QED BY <2>1, <2>2, <2>3 DEF ReceiverPass, NoGap, Reached
<1> QED BY <1>3, <1>4, <1>11, <1>12, OthersSame, PassStep

(* What is saved has left nothing behind that is not saved with it. *)
LEMMA PassSaveMessages ==
  ASSUME TypeInv, TypeInv', SeenInv, PassInv, World, NEW p \in Processes, SaveMessages(p)
  PROVE  PassInv'
<1>1. PICK kept \in Trims(Merge(p)) :
        /\ file'.messages = kept
        /\ recorded' = recorded \cup kept
        /\ trimmed' = trimmed \cup (Merge(p) \ kept)
  BY DEF SaveMessages
<1>2. /\ UNCHANGED <<stamp, list, late, cut, snap, accepted, waterline, got>>
      /\ pc[p] = "save" /\ pc' = [pc EXCEPT ![p] = "saveIds"]
  BY DEF SaveMessages, Goto, server, receiver
<1>3. /\ Rec' = Rec \cup Merge(p) /\ kept \subseteq Base(p)
      /\ Merge(p) \subseteq Base(p) /\ accepted[p] \subseteq Merge(p)
  BY <1>1, <1>2 DEF Rec, Trims, Merge, Base
<1>4. Base(p) \subseteq There /\ There' = There /\ Pushed' = Pushed /\ ExcusedOnes' = ExcusedOnes
  BY <1>2 DEF PassInv, WorkerPass, Base, There, Pushed, ExcusedOnes, Excused
<1>5. Rec \cup Carried(p) \subseteq Rec'
  BY <1>2, <1>3 DEF Carried
<1>6. FilePass'
  <2>1. Rec' \subseteq There'
    BY <1>3, <1>4 DEF PassInv, FilePass
  <2>2. ASSUME NEW x \in kept
        PROVE  Behind(Pushed', stamp', ExcusedOnes', stamp'[x], Rec')
    <3>1. x \in There /\ NoGap(stamp[x], Rec \cup Carried(p))
      BY <1>3, <1>4 DEF PassInv, WorkerPass
    <3> QED BY <1>5, <3>1, WorldAt
  <2> QED BY <1>1, <2>1, <2>2 DEF FilePass, NoGap
<1>7. pc'[p] = "saveIds" /\ Base(p)' = {} /\ Carried(p)' = {}
  BY <1>2, DomainsHold DEF Domains, Base, Carried
<1>8. WorkerPass(p)'
  BY <1>2, <1>4, <1>7 DEF PassInv, WorkerPass
<1>9. ASSUME p \in Receivers PROVE ReceiverPass(p)'
  <2>1. PICK t : t = waterline[p]
    OBVIOUS
  <2>2. Behind(Pushed, stamp, ExcusedOnes, t, Rec \cup Carried(p)) /\ Reached(t)
    BY <1>9, <2>1 DEF PassInv, ReceiverPass, NoGap
  <2>3. Rec \cup Carried(p) \subseteq Rec' \cup Carried(p)'
    BY <1>5
  <2>4. Behind(Pushed', stamp', ExcusedOnes', t, Rec' \cup Carried(p)')
    BY <1>2, <1>4, <2>2, <2>3, BehindGrows
  <2>5. waterline'[p] = t /\ Reached(t)'
    BY <1>2, <1>4, <2>1, <2>2 DEF Reached
  <2> QED BY <1>7, <2>4, <2>5 DEF ReceiverPass, NoGap, Reached
<1> QED BY <1>3, <1>6, <1>8, <1>9, OthersSame, PassStep DEF Save
(* The other steps at the end of a cycle. *)
LEMMA PassEnd ==
  ASSUME TypeInv, TypeInv', SeenInv, PassInv, World, NEW p \in Processes,
         SaveSeenMessageIds(p) \/ SaveKnownLabels(p) \/ Show(p)
  PROVE  PassInv'
<1>1. /\ UNCHANGED <<stamp, list, late, cut, waterline, got, recorded, trimmed>>
      /\ pc[p] \in {"saveIds", "labels", "banner"}
  BY DEF SaveSeenMessageIds, SaveKnownLabels, Show, server, receiver, history
<1>2. file'.messages \subseteq file.messages
  <2>1. CASE SaveSeenMessageIds(p)
    <3>1. PICK r \in Readable : file' = [r EXCEPT !.seen = ring[p]]
      BY <2>1 DEF SaveSeenMessageIds
    <3>2. r = [messages |-> r.messages, seen |-> r.seen]
      BY ReadableOK
    <3>3. file'.messages = r.messages
      BY <3>1, <3>2
    <3> QED BY <3>3 DEF Readable, Empty
  <2>2. CASE SaveKnownLabels(p)
    <3>1. PICK r \in Readable : file' = r
      BY <2>2 DEF SaveKnownLabels
    <3> QED BY <3>1 DEF Readable, Empty
  <2>3. CASE Show(p)
    BY <2>3 DEF Show
  <2> QED BY <2>1, <2>2, <2>3
<1>3. /\ FilePass' /\ Rec' = Rec
      /\ There' = There /\ Pushed' = Pushed /\ ExcusedOnes' = ExcusedOnes
  BY <1>1, <1>2, FilePassStep DEF There, Pushed, ExcusedOnes, Excused
<1>4. /\ pc'[p] \in {"labels", "banner", "idle"}
      /\ snap'[p] \subseteq snap[p] /\ accepted'[p] \subseteq accepted[p]
  <2>1. CASE Rest(p, "idle")
    BY <2>1, DomainsHold DEF Rest, Goto, Domains
  <2>2. CASE ~Rest(p, "idle")
    BY <1>1, <2>2, DomainsHold DEF SaveSeenMessageIds, SaveKnownLabels, Show, Goto, Domains
  <2> QED BY <2>1, <2>2
<1>5. Carried(p) = {} /\ Carried(p)' = {} /\ Base(p)' = {}
  BY <1>1, <1>4 DEF Carried, Base
<1>6. WorkerPass(p)'
  BY <1>3, <1>4, <1>5 DEF PassInv, WorkerPass
<1>7. ASSUME p \in Receivers PROVE ReceiverPass(p)'
  <2>1. PICK t : t = waterline[p]
    OBVIOUS
  <2>2. Behind(Pushed, stamp, ExcusedOnes, t, Rec \cup Carried(p)) /\ Reached(t)
    BY <1>7, <2>1 DEF PassInv, ReceiverPass, NoGap
  <2>3. Behind(Pushed', stamp', ExcusedOnes', t, Rec' \cup Carried(p)')
    BY <1>1, <1>3, <1>5, <2>2
  <2>4. waterline'[p] = t /\ Reached(t)'
    BY <1>1, <1>3, <2>1, <2>2 DEF Reached
  <2> QED BY <1>4, <2>3, <2>4 DEF ReceiverPass, NoGap, Reached
<1> QED BY <1>3, <1>6, <1>7, OthersSame, PassStep DEF Save

(* A receiver that is built anew starts without a waterline. *)
LEMMA PassStop ==
  ASSUME TypeInv, TypeInv', SeenInv, PassInv, World, NEW p \in Processes, Stop(p)
  PROVE  PassInv'
<1>1. UNCHANGED <<file, recorded, trimmed>>
  BY DEF Stop, history
<1>2. FilePass' /\ Rec' = Rec
  BY <1>1, FilePassStep
<1>3. PICK l \in {"idle", "new"} : Rest(p, l)
  BY DEF Stop
<1>4. WorkerPass(p)' /\ pc'[p] = l
  BY <1>3, RestPass, DomainsHold DEF Rest, Goto, Domains
<1>5. ASSUME p \in Receivers PROVE ReceiverPass(p)'
  <2>1. waterline'[p] = 0
    BY <1>5 DEF Stop
  <2>2. \A m \in Pushed' : stamp'[m] \in Int /\ stamp'[m] > 0
    BY ThereOK DEF World, PushedStamped, Pushed, ToSet, Records, TypeInv, TypeOK, ServerOK
  <2>3. \A m \in Pushed' : ~(stamp'[m] <= 0)
    BY <2>2
  <2>4. Behind(Pushed', stamp', ExcusedOnes', 0, Rec' \cup Carried(p)')
    BY <2>3 DEF Behind
  <2> QED BY <1>4, <2>1, <2>4 DEF ReceiverPass, NoGap, Reached
<1> QED BY <1>2, <1>4, <1>5, OthersSame, PassStep

(* The server and the Shell leave the processes alone. *)
LEMMA PassOthers ==
  ASSUME TypeInv, TypeInv', SeenInv, PassInv, World,
         Tick \/ (\E m \in Messages : Stamp(m) \/ Push(m)) \/ ClearMessages \/ SaveFilter
  PROVE  PassInv'
<1>1. UNCHANGED <<process, receiver, recorded, trimmed>>
  BY DEF Tick, Stamp, Push, ClearMessages, SaveFilter, history
<1>2. file'.messages \subseteq file.messages
  <2>1. CASE ClearMessages \/ SaveFilter
    <3>1. PICK r \in Readable : file' = r \/ file' = [r EXCEPT !.messages = {}]
      BY <2>1 DEF ClearMessages, SaveFilter
    <3>2. r = [messages |-> r.messages, seen |-> r.seen]
      BY ReadableOK
    <3>3. file'.messages \subseteq r.messages
      BY <3>1, <3>2
    <3> QED BY <3>3 DEF Readable, Empty
  <2>2. CASE ~(ClearMessages \/ SaveFilter)
    BY <2>2 DEF Tick, Stamp, Push
  <2> QED BY <2>1, <2>2
<1>3. FilePass' /\ Rec' = Rec
  BY <1>1, <1>2, FilePassStep
<1>4. \A q \in Processes : SameProcess(q)
  BY <1>1 DEF SameProcess, process, receiver
<1>5. \A q \in Processes : WorkerPass(q)' /\ (q \in Receivers => ReceiverPass(q)')
  BY <1>3, <1>4, PassKept
<1>6. PushedStamped'
  BY DEF World
<1>7. \A q \in Receivers : ReceiverPass(q)'
  BY <1>5 DEF Processes
<1> QED BY <1>3, <1>5, <1>6, <1>7 DEF PassInv

LEMMA PassNext ==
  ASSUME TypeInv, TypeInv', SeenInv, PassInv, [Next]_vars
  PROVE  PassInv'
<1>1. CASE UNCHANGED vars
  BY <1>1 DEF vars, server, process, receiver, bounds, history, PassInv, PushedStamped, FilePass,
              WorkerPass, ReceiverPass, NoGap, Reached, There, Pushed, ExcusedOnes, Excused, Rec,
              Base, Carried
<1>2. CASE Next
  <2>1. World
    BY <1>2, WorldHolds DEF PassInv
  <2>2. ASSUME NEW p \in Workers, Cycle(p) \/ \E i \in Injects : Inject(p, i)
        PROVE  PassInv'
    <3>1. p \in Processes
      BY DEF Processes
    <3> QED
      BY <2>1, <2>2, <3>1, PassLoad, PassPull, PassInject, PassSaveMessages, PassEnd
      DEF Cycle, Save
  <2>3. ASSUME NEW p \in Receivers,
               Construct(p) \/ ReceiverPull(p) \/ ReceiverLoad(p) \/ Save(p)
        PROVE  PassInv'
    <3>1. p \in Processes
      BY DEF Processes
    <3> QED
      BY <2>1, <2>3, <3>1, PassConstruct, PassReceiverPull, PassReceiverLoad,
         PassSaveMessages, PassEnd
      DEF Save
  <2> QED BY <1>2, <2>1, <2>2, <2>3, PassOthers, PassStop DEF Next
<1> QED BY <1>1, <1>2

LEMMA PassInit == Init => PassInv
<1> SUFFICES ASSUME Init PROVE PassInv
  OBVIOUS
<1>1. ToSet(<<>>) = {}
  BY DEF ToSet
<1>2. Pushed = {}
  BY <1>1 DEF Init, Pushed
<1>3. PushedStamped /\ FilePass
  BY <1>2 DEF PushedStamped, FilePass, Rec, Init, Empty
<1>4. \A p \in Processes : WorkerPass(p)
  BY DEF Init, WorkerPass, Base
<1>5. \A p \in Receivers : ReceiverPass(p)
  <2> SUFFICES ASSUME NEW p \in Receivers PROVE ReceiverPass(p)
    OBVIOUS
  <2>1. p \in Processes /\ p \notin Workers
    BY ProcessesAssumption DEF Processes
  <2>2. waterline[p] = 0 /\ pc[p] = "new"
    BY <2>1 DEF Init
  <2> QED BY <1>2, <2>2 DEF ReceiverPass, NoGap, Behind, Reached
<1> QED BY <1>3, <1>4, <1>5 DEF PassInv

(* So the newest message of the history has left nothing behind. *)
LEMMA PassedIsRecorded ==
  ASSUME TypeInv, SeenInv, PassInv
  PROVE  NothingPassed
<1> SUFFICES ASSUME NEW m \in Pushed, ~(stamp[m] > Newest(file.messages))
             PROVE  Recorded(m) \/ Excused(m)
  BY DEF NothingPassed
<1>1. file.messages \subseteq There
  BY DEF SeenInv, FileKnown, PassInv, FilePass
<1>2. PICK t : t = Newest(file.messages)
  OBVIOUS
<1>3. NoGap(t, Rec) /\ t \in 0 .. MaxTime
  BY <1>1, <1>2, NewestNoGap DEF PassInv, FilePass
<1>4. stamp[m] <= t
  <2>1. stamp[m] \in Int /\ MaxTime \in Int
    BY ThereOK, BoundsAssumption
  <2> QED BY <1>2, <1>3, <2>1
<1> QED BY <1>3, <1>4 DEF NoGap, Behind, Recorded, Rec, ExcusedOnes

(* No waterline passes a message: what the server has is linked to what was recorded,
   or is excused, or is newer than all of the history, so that the next cycle asks for
   it; whatever the workers and receivers save over one another, whichever of them dies,
   fails to read or is cut short, and whatever the user clears.                         *)
THEOREM NothingPassedHolds == Spec => []NothingPassed
<1>1. Init => TypeInv /\ SeenInv /\ PassInv
  BY TypeInit, SeenInit, PassInit
<1>2. TypeInv /\ SeenInv /\ PassInv /\ [Next]_vars => TypeInv' /\ SeenInv' /\ PassInv'
  BY TypeNext, SeenNext, PassNext
<1> QED BY <1>1, <1>2, PassedIsRecorded, PTL DEF Spec
==============================================================================
