---------------------------- MODULE SeenIds_proofs ----------------------------
(***************************************************************************)
(* What one step of the ring of seen ids guarantees, and what offering a   *)
(* whole batch to it does, for every capacity.                             *)
(***************************************************************************)
EXTENDS SeenIds, WellFoundedInduction, FiniteSetTheorems, TLAPS

(* The list of the history store and the ring of the pollers remember alike. *)
THEOREM StoreRemembersAlike ==
  ASSUME NEW S, NEW order \in Seq(S), NEW id \in S, Len(order) <= Capacity
  PROVE  StoreRemember(order, id) = Remember(order, id)
<1>1. CASE id \in ToSet(order)
  BY <1>1 DEF StoreRemember, Remember
<1>2. CASE id \notin ToSet(order) /\ Len(order) < Capacity
  <2>1. Len(Append(order, id)) = Len(order) + 1
    OBVIOUS
  <2>2. ~(Len(Append(order, id)) > Capacity) /\ Len(order) # Capacity
    BY <1>2, <2>1, CapacityAssumption
  <2> QED BY <1>2, <2>2 DEF StoreRemember, Remember
<1>3. CASE id \notin ToSet(order) /\ Len(order) = Capacity
  <2> DEFINE longer == Append(order, id)
             cut == SubSeq(longer, 2, Len(longer))
             shifted == Append(Tail(order), id)
  <2>1. /\ Len(longer) = Capacity + 1
        /\ longer \in Seq(S)
    BY <1>3, CapacityAssumption
  <2>2. cut \in Seq(S) /\ Len(cut) = Capacity /\ \A i \in 1 .. Capacity : cut[i] = longer[i + 1]
    BY <2>1, CapacityAssumption
  <2>3. Tail(order) \in Seq(S) /\ Len(Tail(order)) = Capacity - 1
    BY <1>3, CapacityAssumption
  <2>4. shifted \in Seq(S) /\ Len(shifted) = Capacity
    BY <2>3, CapacityAssumption
  <2>5. ASSUME NEW i \in 1 .. Capacity
        PROVE  shifted[i] = longer[i + 1]
    <3>1. CASE i = Capacity
      BY <3>1, <1>3, <2>3, CapacityAssumption
    <3>2. CASE i < Capacity
      <4>1. shifted[i] = Tail(order)[i]
        BY <3>2, <2>3, CapacityAssumption
      <4>2. Tail(order)[i] = order[i + 1]
        BY <3>2, <1>3, CapacityAssumption
      <4>3. longer[i + 1] = order[i + 1]
        BY <3>2, <1>3, CapacityAssumption
      <4> QED BY <4>1, <4>2, <4>3
    <3>3. i = Capacity \/ i < Capacity
      BY CapacityAssumption
    <3> QED BY <3>1, <3>2, <3>3
  <2>6. cut = shifted
    BY <2>2, <2>4, <2>5
  <2>7. Remember(order, id) = shifted
    BY <1>3 DEF Remember
  <2>8. StoreRemember(order, id) = cut
    BY <1>3, <2>1, CapacityAssumption DEF StoreRemember
  <2> QED BY <2>6, <2>7, <2>8
<1> QED BY <1>1, <1>2, <1>3, CapacityAssumption

(* An id that is remembered is known afterwards, and only the oldest one may be
   forgotten for it.                                                            *)
THEOREM RememberForgetsOldest ==
  ASSUME NEW S, NEW order \in Seq(S), NEW id \in S
  PROVE  /\ id \in ToSet(Remember(order, id))
         /\ \A i \in 2 .. Len(order) : order[i] \in ToSet(Remember(order, id))
         /\ ToSet(Remember(order, id)) \subseteq ToSet(order) \cup {id}
<1>1. CASE id \in ToSet(order)
  BY <1>1 DEF Remember, ToSet
<1>2. CASE id \notin ToSet(order) /\ Len(order) # Capacity
  <2>1. Remember(order, id) = Append(order, id)
    BY <1>2 DEF Remember
  <2>2. /\ Len(Append(order, id)) = Len(order) + 1
        /\ DOMAIN Append(order, id) = 1 .. Len(order) + 1
        /\ Append(order, id)[Len(order) + 1] = id
        /\ \A i \in 1 .. Len(order) : Append(order, id)[i] = order[i]
    OBVIOUS
  <2> QED BY <2>1, <2>2 DEF ToSet
<1>3. CASE id \notin ToSet(order) /\ Len(order) = Capacity
  <2> DEFINE rest == Tail(order)
  <2>1. Remember(order, id) = Append(rest, id)
    BY <1>3 DEF Remember
  <2>2. order # <<>>
    BY <1>3, CapacityAssumption
  <2>3. /\ rest \in Seq(S)
        /\ Len(rest) = Len(order) - 1
        /\ \A i \in 1 .. Len(rest) : rest[i] = order[i + 1]
    BY <2>2
  <2>4. /\ DOMAIN Append(rest, id) = 1 .. Len(order)
        /\ Append(rest, id)[Len(order)] = id
        /\ \A i \in 1 .. Len(order) - 1 : Append(rest, id)[i] = order[i + 1]
    BY <2>2, <2>3
  <2>5. id \in ToSet(Append(rest, id))
    BY <2>2, <2>4 DEF ToSet
  <2>6. ASSUME NEW i \in 2 .. Len(order)
        PROVE  order[i] \in ToSet(Append(rest, id))
    <3>1. i - 1 \in 1 .. Len(order) - 1 /\ i - 1 \in 1 .. Len(order) /\ (i - 1) + 1 = i
      OBVIOUS
    <3>2. Append(rest, id)[i - 1] = order[i] /\ i - 1 \in DOMAIN Append(rest, id)
      BY <3>1, <2>4
    <3> QED BY <3>2 DEF ToSet
  <2>7. ToSet(Append(rest, id)) \subseteq ToSet(order) \cup {id}
    BY <2>2, <2>4 DEF ToSet
  <2> QED BY <2>1, <2>5, <2>6, <2>7
<1> QED BY <1>1, <1>2, <1>3

(* The ring keeps its bound and has no id twice. *)
THEOREM RememberKeepsRing ==
  ASSUME NEW S, NEW order \in RingOf(S), NEW id \in S
  PROVE  Remember(order, id) \in RingOf(S)
<1>1. /\ order \in Seq(S) /\ Len(order) <= Capacity
      /\ \A i, j \in 1 .. Len(order) : order[i] = order[j] => i = j
  BY DEF RingOf, IsInjective
<1>2. CASE id \in ToSet(order)
  BY <1>2 DEF Remember
<1>3. CASE id \notin ToSet(order)
  <2> DEFINE kept == IF Len(order) = Capacity THEN Tail(order) ELSE order
  <2>1. Remember(order, id) = Append(kept, id)
    BY <1>3 DEF Remember
  <2>2. \A i \in 1 .. Len(order) : order[i] # id
    BY <1>1, <1>3 DEF ToSet
  <2>3. /\ kept \in Seq(S)
        /\ Len(kept) < Capacity
        /\ \A i \in 1 .. Len(kept) : kept[i] # id
        /\ \A i, j \in 1 .. Len(kept) : kept[i] = kept[j] => i = j
    <3>1. CASE Len(order) = Capacity
      <4>1. /\ kept = Tail(order)
            /\ kept \in Seq(S)
            /\ Len(kept) = Len(order) - 1
            /\ \A i \in 1 .. Len(kept) : kept[i] = order[i + 1]
        BY <3>1, <1>1, CapacityAssumption
      <4> QED BY <4>1, <3>1, <1>1, <2>2, CapacityAssumption
    <3>2. CASE Len(order) # Capacity
      BY <3>2, <1>1, <2>2, CapacityAssumption
    <3> QED BY <3>1, <3>2
  <2>4. /\ Append(kept, id) \in Seq(S)
        /\ Len(Append(kept, id)) = Len(kept) + 1
        /\ Append(kept, id)[Len(kept) + 1] = id
        /\ \A i \in 1 .. Len(kept) : Append(kept, id)[i] = kept[i]
    BY <2>3
  <2>5. IsInjective(Append(kept, id))
    BY <2>3, <2>4 DEF IsInjective
  <2>6. Len(Append(kept, id)) <= Capacity
    BY <2>3, <2>4, CapacityAssumption
  <2> QED BY <2>1, <2>4, <2>5, <2>6 DEF RingOf
<1> QED BY <1>2, <1>3

(* A message that was offered once is a duplicate when it is offered again at once,
   even to a ring of one id.                                                       *)
THEOREM OfferedIsRefused ==
  ASSUME NEW S, NEW order \in RingOf(S), NEW m, IdsOf(m) \subseteq S
  PROVE  Duplicate(RememberIds(order, m), m)
<1>1. StableId(m) \in S /\ FallbackId(m) \in S
  BY DEF IdsOf
<1>2. Remember(order, StableId(m)) \in RingOf(S)
  BY <1>1, RememberKeepsRing
<1>3. FallbackId(m) \in ToSet(RememberIds(order, m))
  BY <1>1, <1>2, RememberForgetsOldest DEF RememberIds, RingOf
<1> QED BY <1>3 DEF Duplicate, IdsOf
------------------------------------------------------------------------------
(***************************************************************************)
(* Remembering a whole sequence.  RememberAll is a fold, and a fold is a   *)
(* recursive function on sets of positions: that there is one, and what it *)
(* is at each prefix, is shown by the least counterexample.                *)
(***************************************************************************)
(* Every set of natural numbers but the empty one has a least element: with the set
   of the counterexamples to a statement, this is induction.                        *)
LEMMA LeastElement ==
  ASSUME NEW T, T \subseteq Nat, T # {}
  PROVE  \E n \in T : \A k \in T : n <= k
<1> DEFINE R == OpToRel(<, Nat)
<1>1. IsWellFoundedOn(R, Nat)
  BY NatLessThanWellFounded
<1>2. \A a, b \in Nat : a < b => <<a, b>> \in R
  BY DEF OpToRel
<1> HIDE DEF R
<1>3. PICK n \in T : \A k \in T : ~ (<<k, n>> \in R)
  BY <1>1, WFMin
<1>4. \A k \in T : k \in Nat /\ n \in Nat /\ ~(k < n)
  BY <1>2, <1>3
<1>5. \A k \in T : n <= k
  BY <1>4
<1> QED BY <1>5

LEMMA MaxOfNumbers ==
  ASSUME NEW k \in Nat, NEW s \in SUBSET (0 .. k), s # {}
  PROVE  Max(s) \in s /\ \A y \in s : y <= Max(s)
<1> DEFINE T == {u \in Nat : \A y \in s : y <= u}
<1>1. k \in T
  OBVIOUS
<1>2. PICK u \in T : \A v \in T : u <= v
  BY <1>1, LeastElement
<1>3. u \in s
  <2> SUFFICES ASSUME u \notin s PROVE FALSE
    OBVIOUS
  <2>1. u \in Nat /\ \A y \in s : y \in Nat /\ y # 0 /\ y <= u /\ y # u
    BY <1>2
  <2>2. u # 0
    <3>1. PICK y \in s : TRUE
      OBVIOUS
    <3> QED BY <2>1, <3>1
  <2>4. u - 1 \in Nat /\ \A y \in s : y <= u - 1
    BY <2>1, <2>2
  <2>3. u - 1 \in T /\ ~(u <= u - 1)
    BY <2>1, <2>4
  <2> QED BY <2>1, <2>3, <1>2
<1>4. \A y \in s : u >= y
  BY <1>2
<1>5. Max(s) \in s /\ \A y \in s : Max(s) >= y
  BY <1>3, <1>4 DEF Max
<1> QED BY <1>5

Upon(order, ms, g, s) ==
  IF s = {} THEN order ELSE RememberIds(g[s \ {Max(s)}], ms[Max(s)])

LEMMA FoldOfSets ==
  ASSUME NEW order, NEW ms, NEW n \in Nat
  PROVE  \E g : g = [s \in SUBSET (1 .. n) |-> Upon(order, ms, g, s)]
<1> DEFINE Fold(g, k) == g = [s \in SUBSET (1 .. k) |-> Upon(order, ms, g, s)]
           T == {k \in Nat : ~\E g : Fold(g, k)}
<1> SUFFICES ASSUME T # {} PROVE FALSE
  OBVIOUS
<1>1. PICK k \in T : \A j \in T : k <= j
  BY LeastElement
<1>2. CASE k = 0
  <2> DEFINE g == [s \in SUBSET (1 .. 0) |-> order]
  <2>1. \A s \in SUBSET (1 .. 0) : Upon(order, ms, g, s) = order
    BY DEF Upon
  <2> HIDE DEF Upon
  <2>2. Fold(g, 0)
    BY <2>1
  <2> QED BY <2>2, <1>1, <1>2
<1>3. CASE k # 0
  <2>1. k - 1 \in Nat /\ k \in Nat /\ ~(k <= k - 1)
    BY <1>3
  <2> HIDE DEF T
  <2>5. k - 1 \notin T
    BY <1>1, <2>1
  <2> USE DEF T
  <2>2. PICK h : h = [s \in SUBSET (1 .. k - 1) |-> Upon(order, ms, h, s)]
    BY <2>1, <2>5
  <2> DEFINE g == [s \in SUBSET (1 .. k) |->
                     IF k \in s THEN RememberIds(h[s \ {k}], ms[k]) ELSE h[s]]
  <2>3. ASSUME NEW s \in SUBSET (1 .. k)
        PROVE  g[s] = Upon(order, ms, g, s)
    <3>1. CASE k \in s
      <4>1. Max(s) = k
        <5>1. Max(s) \in s /\ \A y \in s : y <= Max(s)
          BY <3>1, <2>1, MaxOfNumbers
        <5>2. Max(s) \in 1 .. k /\ k <= Max(s)
          BY <3>1, <5>1
        <5> QED BY <5>2, <2>1
      <4>2. s \ {k} \in SUBSET (1 .. k) /\ k \notin s \ {k}
        OBVIOUS
      <4>3. g[s \ {k}] = h[s \ {k}]
        BY <4>2
      <4>4. g[s] = RememberIds(h[s \ {k}], ms[k])
        BY <3>1
      <4> HIDE DEF g
      <4> QED BY <3>1, <4>1, <4>3, <4>4 DEF Upon
    <3>2. CASE k \notin s
      <4>1. s \in SUBSET (1 .. k - 1)
        BY <3>2, <2>1
      <4>2. g[s] = Upon(order, ms, h, s)
        BY <3>2, <4>1, <2>2
      <4>3. CASE s = {}
        BY <4>2, <4>3 DEF Upon
      <4>4. CASE s # {}
        <5>1. Max(s) \in s
          <6>1. s \in SUBSET (0 .. k - 1) /\ k - 1 \in Nat
            BY <4>1, <2>1
          <6> QED BY <6>1, <4>4, MaxOfNumbers
        <5>2. k \notin s \ {Max(s)} /\ s \ {Max(s)} \in SUBSET (1 .. k)
          BY <3>2
        <5>3. g[s \ {Max(s)}] = h[s \ {Max(s)}]
          BY <5>2
        <5> HIDE DEF g
        <5> QED BY <4>2, <4>4, <5>3 DEF Upon
      <4> QED BY <4>3, <4>4
    <3> QED BY <3>1, <3>2
  <2>4. Fold(g, k)
    <3>1. g = [s \in SUBSET (1 .. k) |-> g[s]]
      OBVIOUS
    <3> HIDE DEF g
    <3> QED BY <2>3, <3>1
  <2> QED BY <2>4, <1>1
<1> QED BY <1>2, <1>3


(* f has the rings after each of the first n messages of ms. *)
Rings(f, order, ms, n) ==
  /\ f[1 .. 0] = order
  /\ \A k \in 1 .. n : f[1 .. k] = RememberIds(f[1 .. k - 1], ms[k])

LEMMA FoldOfPrefixes ==
  ASSUME NEW order, NEW n \in Nat, NEW ms, DOMAIN ms = 1 .. n
  PROVE  \E f : Rings(f, order, ms, n) /\ RememberAll(order, ms) = f[1 .. n]
<1> DEFINE f == CHOOSE g : g = [s \in SUBSET (1 .. n) |-> Upon(order, ms, g, s)]
<1>1. f = [s \in SUBSET (1 .. n) |-> Upon(order, ms, f, s)]
  BY FoldOfSets
<1>2. RememberAll(order, ms) = f[1 .. n]
  BY DEF RememberAll, FoldLeft, MapThenFoldSet, Upon
<1> HIDE DEF f
<1>3. f[1 .. 0] = order
  BY <1>1 DEF Upon
<1>4. ASSUME NEW k \in 1 .. n
      PROVE  f[1 .. k] = RememberIds(f[1 .. k - 1], ms[k])
  <2>1. f[1 .. k] = Upon(order, ms, f, 1 .. k)
    BY <1>1
  <2>2. Max(1 .. k) = k
    <3>1. k \in Nat /\ k \in 1 .. k /\ 1 .. k \in SUBSET (0 .. k)
      OBVIOUS
    <3>2. Max(1 .. k) \in 1 .. k /\ k <= Max(1 .. k)
      BY <3>1, MaxOfNumbers
    <3> QED BY <3>1, <3>2
  <2>3. (1 .. k) \ {k} = 1 .. k - 1 /\ 1 .. k # {}
    OBVIOUS
  <2> QED BY <2>1, <2>2, <2>3 DEF Upon
<1>5. Rings(f, order, ms, n)
  BY <1>3, <1>4 DEF Rings
<1> QED BY <1>2, <1>5

(* Remembering a sequence is remembering its messages one after the other. *)
LEMMA RememberAllSteps ==
  ASSUME NEW M, NEW ms \in Seq(M), NEW order
  PROVE  /\ RememberAll(order, SubSeq(ms, 1, 0)) = order
         /\ \A k \in 1 .. Len(ms) :
              RememberAll(order, SubSeq(ms, 1, k))
                = RememberIds(RememberAll(order, SubSeq(ms, 1, k - 1)), ms[k])
         /\ RememberAll(order, ms) = RememberAll(order, SubSeq(ms, 1, Len(ms)))
<1>1. PICK f : Rings(f, order, ms, Len(ms))
  <2>1. Len(ms) \in Nat /\ DOMAIN ms = 1 .. Len(ms)
    OBVIOUS
  <2> QED BY <2>1, FoldOfPrefixes
<1>7. /\ f[1 .. 0] = order
      /\ \A k \in 1 .. Len(ms) : f[1 .. k] = RememberIds(f[1 .. k - 1], ms[k])
  BY <1>1 DEF Rings
<1>2. ASSUME NEW k \in 0 .. Len(ms)
      PROVE  RememberAll(order, SubSeq(ms, 1, k)) = f[1 .. k]
  <2> DEFINE pre == SubSeq(ms, 1, k)
  <2>1. DOMAIN pre = 1 .. k /\ k \in Nat /\ \A i \in 1 .. k : pre[i] = ms[i]
    OBVIOUS
  <2> HIDE DEF pre
  <2>5. PICK g : Rings(g, order, pre, k) /\ RememberAll(order, pre) = g[1 .. k]
    BY <2>1, FoldOfPrefixes
  <2>2. /\ g[1 .. 0] = order
        /\ \A i \in 1 .. k : g[1 .. i] = RememberIds(g[1 .. i - 1], pre[i])
        /\ RememberAll(order, pre) = g[1 .. k]
    BY <2>5 DEF Rings
  <2> DEFINE T == {i \in 0 .. k : g[1 .. i] # f[1 .. i]}
  <2>3. ASSUME T # {} PROVE FALSE
    <3>1. T \subseteq Nat
      OBVIOUS
    <3>2. PICK i \in T : \A j \in T : i <= j
      BY <3>1, <2>3, LeastElement
    <3>3. i # 0
      BY <1>7, <2>2, <3>2
    <3>4. i \in 1 .. k /\ i \in 1 .. Len(ms) /\ i - 1 \in 0 .. k /\ ~(i <= i - 1)
      BY <3>2, <3>3
    <3>5. i - 1 \notin T
      BY <3>2, <3>4
    <3>6. g[1 .. i - 1] = f[1 .. i - 1]
      BY <3>4, <3>5
    <3>7. g[1 .. i] = f[1 .. i]
      BY <1>7, <2>1, <2>2, <3>4, <3>6
    <3> QED BY <3>2, <3>7
  <2>4. g[1 .. k] = f[1 .. k]
    BY <2>1, <2>3
  <2> QED BY <2>2, <2>4 DEF pre
<1>3. SubSeq(ms, 1, Len(ms)) = ms
  OBVIOUS
<1>4. \A k \in 1 .. Len(ms) : k \in 0 .. Len(ms) /\ k - 1 \in 0 .. Len(ms)
  OBVIOUS
<1>5. \A k \in 1 .. Len(ms) :
        RememberAll(order, SubSeq(ms, 1, k))
          = RememberIds(RememberAll(order, SubSeq(ms, 1, k - 1)), ms[k])
  BY <1>7, <1>2, <1>4
<1>6. RememberAll(order, SubSeq(ms, 1, 0)) = order
  BY <1>7, <1>2
<1> QED BY <1>3, <1>5, <1>6

(* A batch offered to a ring of ids of S leaves a ring of ids of S, if S has the ids of
   what is accepted and, with one id of a message, all of them.                        *)
THEOREM BatchKeepsRing ==
  ASSUME NEW S, NEW order \in RingOf(S), NEW M, NEW batch \in Seq(M),
         \A m \in Accepted(order, batch) : IdsOf(m) \subseteq S,
         \A i \in 1 .. Len(batch) :
           IdsOf(batch[i]) \cap S # {} => IdsOf(batch[i]) \subseteq S
  PROVE  /\ RememberAll(order, batch) \in RingOf(S)
         /\ \A i \in 1 .. Len(batch) : IdsOf(batch[i]) \subseteq S
<1> DEFINE after(k) == RememberAll(order, SubSeq(batch, 1, k))
           T == {k \in 0 .. Len(batch) : after(k) \notin RingOf(S)}
<1>1. /\ after(0) = order
      /\ \A k \in 1 .. Len(batch) : after(k) = RememberIds(after(k - 1), batch[k])
      /\ RememberAll(order, batch) = after(Len(batch))
  BY RememberAllSteps
<1>2. ASSUME NEW k \in 1 .. Len(batch), after(k - 1) \in RingOf(S)
      PROVE  IdsOf(batch[k]) \subseteq S
  <2>1. ToSet(after(k - 1)) \subseteq S
    <3>1. after(k - 1) \in Seq(S)
      BY <1>2 DEF RingOf
    <3> HIDE DEF after
    <3> QED BY <3>1 DEF ToSet
  <2>2. CASE Duplicate(after(k - 1), batch[k])
    BY <2>1, <2>2 DEF Duplicate
  <2>3. CASE ~Duplicate(after(k - 1), batch[k])
    <3>1. k \in DOMAIN batch
      OBVIOUS
    <3>2. batch[k] \in Accepted(order, batch)
      BY <2>3, <3>1 DEF Accepted
    <3> QED BY <3>2
  <2> QED BY <2>2, <2>3
<1> HIDE DEF after
<1>3. ASSUME NEW k \in 1 .. Len(batch), after(k - 1) \in RingOf(S)
      PROVE  after(k) \in RingOf(S)
  <2>1. StableId(batch[k]) \in S /\ FallbackId(batch[k]) \in S
    BY <1>2, <1>3 DEF IdsOf
  <2>2. RememberIds(after(k - 1), batch[k]) \in RingOf(S)
    BY <1>3, <2>1, RememberKeepsRing DEF RememberIds
  <2> QED BY <1>1, <2>2
<1>4. ASSUME T # {} PROVE FALSE
  <2>1. T \subseteq Nat
    OBVIOUS
  <2>2. PICK k \in T : \A j \in T : k <= j
    BY <1>4, <2>1, LeastElement
  <2>3. k # 0
    BY <1>1, <2>2
  <2>4. k \in 1 .. Len(batch) /\ k - 1 \in 0 .. Len(batch) /\ ~(k <= k - 1)
    BY <2>2, <2>3
  <2>5. k - 1 \notin T
    BY <2>2, <2>4
  <2>6. after(k - 1) \in RingOf(S)
    BY <2>4, <2>5
  <2> QED BY <1>3, <2>2, <2>4, <2>6
<1>5. \A k \in 0 .. Len(batch) : after(k) \in RingOf(S)
  BY <1>4
<1>6. \A k \in 1 .. Len(batch) : k - 1 \in 0 .. Len(batch)
  OBVIOUS
<1>7. Len(batch) \in 0 .. Len(batch)
  OBVIOUS
<1> QED BY <1>1, <1>2, <1>5, <1>6, <1>7
------------------------------------------------------------------------------
(***************************************************************************)
(* A ring of any capacity knows what it was offered, or has forgotten it.  *)
(***************************************************************************)
LEMMA RememberIdsBounds ==
  ASSUME NEW S, NEW order \in RingOf(S), NEW m, IdsOf(m) \subseteq S
  PROVE  /\ RememberIds(order, m) \in RingOf(S)
         /\ ToSet(RememberIds(order, m)) \subseteq ToSet(order) \cup IdsOf(m)
<1>1. StableId(m) \in S /\ FallbackId(m) \in S
  BY DEF IdsOf
<1>2. Remember(order, StableId(m)) \in RingOf(S)
  BY <1>1, RememberKeepsRing
<1>3. ToSet(Remember(order, StableId(m))) \subseteq ToSet(order) \cup {StableId(m)}
  BY <1>1, RememberForgetsOldest DEF RingOf
<1>4. RememberIds(order, m) \in RingOf(S)
  BY <1>1, <1>2, RememberKeepsRing DEF RememberIds
<1>5. ToSet(RememberIds(order, m))
        \subseteq ToSet(Remember(order, StableId(m))) \cup {FallbackId(m)}
  BY <1>1, <1>2, RememberForgetsOldest DEF RememberIds, RingOf
<1> QED BY <1>3, <1>4, <1>5 DEF IdsOf

(* After a batch every id that a ring had or was offered is in it, or was forgotten over
   the batch; the ring has no other.  What is accepted of the batch was new to the ring,
   and new against what else is accepted, but for ids that were forgotten meanwhile.    *)
THEOREM BatchIsKeptOrForgotten ==
  ASSUME NEW S, NEW order \in RingOf(S), NEW M, NEW batch \in Seq(M),
         \A i \in 1 .. Len(batch) : IdsOf(batch[i]) \subseteq S
  PROVE  /\ RememberAll(order, batch) \in RingOf(S)
         /\ ToSet(order) \subseteq ToSet(RememberAll(order, batch)) \cup Forgets(order, batch)
         /\ \A i \in 1 .. Len(batch) :
              IdsOf(batch[i]) \subseteq ToSet(RememberAll(order, batch)) \cup Forgets(order, batch)
         /\ \A id \in ToSet(RememberAll(order, batch)) \cup Forgets(order, batch) :
              id \in ToSet(order) \/ \E i \in 1 .. Len(batch) : id \in IdsOf(batch[i])
         /\ \A m \in Accepted(order, batch) :
              IdsOf(m) \cap ToSet(order) \subseteq Forgets(order, batch)
         /\ \A m, n \in Accepted(order, batch) :
              m # n => IdsOf(m) \cap IdsOf(n) \subseteq Forgets(order, batch)
<1> DEFINE after(k) == RememberAll(order, SubSeq(batch, 1, k))
           L == Len(batch)
           F == Forgets(order, batch)
           Good(k) == /\ after(k) \in RingOf(S)
                      /\ ToSet(order) \subseteq ToSet(after(k)) \cup F
                      /\ \A i \in 1 .. k : IdsOf(batch[i]) \subseteq ToSet(after(k)) \cup F
                      /\ \A id \in ToSet(after(k)) :
                           id \in ToSet(order) \/ \E i \in 1 .. k : id \in IdsOf(batch[i])
           T == {k \in 0 .. L : ~Good(k)}
<1>1. /\ after(0) = order
      /\ \A k \in 1 .. L : after(k) = RememberIds(after(k - 1), batch[k])
      /\ RememberAll(order, batch) = after(L)
  BY RememberAllSteps
<1>2. L \in Nat /\ DOMAIN batch = 1 .. L
  OBVIOUS
<1>3. Accepted(order, batch) = {batch[i] : i \in {j \in 1 .. L : ~Duplicate(after(j - 1), batch[j])}}
  BY <1>2 DEF Accepted
<1>14. F = UNION {(ToSet(after(i - 1)) \cup IdsOf(batch[i])) \ ToSet(after(i)) : i \in 1 .. L}
  BY <1>2 DEF Forgets
<1> HIDE DEF after, L, F
<1>15. \A k \in 1 .. L : ToSet(after(k - 1)) \cup IdsOf(batch[k]) \subseteq ToSet(after(k)) \cup F
  BY <1>14
<1>4. ASSUME NEW k \in 1 .. L, Good(k - 1)
      PROVE  Good(k)
  <2>1. IdsOf(batch[k]) \subseteq S
    BY DEF L
  <2>2. /\ after(k) \in RingOf(S)
        /\ ToSet(after(k)) \subseteq ToSet(after(k - 1)) \cup IdsOf(batch[k])
    BY <1>1, <1>4, <2>1, RememberIdsBounds
  <2>3. \A i \in 1 .. k : i = k \/ i \in 1 .. k - 1
    BY <1>2
  <2>4. k \in 1 .. k /\ 1 .. k - 1 \subseteq 1 .. k
    BY <1>2
  <2>5. ToSet(after(k - 1)) \cup IdsOf(batch[k]) \subseteq ToSet(after(k)) \cup F
    BY <1>15
  <2> QED BY <1>4, <2>2, <2>3, <2>4, <2>5
<1>5. Good(0)
  BY <1>1
<1>6. ASSUME T # {} PROVE FALSE
  <2>1. T \subseteq Nat
    OBVIOUS
  <2>2. PICK k \in T : \A j \in T : k <= j
    BY <1>6, <2>1, LeastElement
  <2>3. k # 0
    BY <1>5, <2>2
  <2>4. k \in 1 .. L /\ k - 1 \in 0 .. L /\ ~(k <= k - 1)
    BY <1>2, <2>2, <2>3
  <2>5. Good(k - 1)
    BY <2>2, <2>4
  <2>6. Good(k)
    BY <1>4, <2>4, <2>5
  <2> QED BY <2>2, <2>6
<1>7. \A k \in 0 .. L : Good(k)
  BY <1>6
<1>8. Good(L)
  BY <1>2, <1>7
<1>9. \A k \in 1 .. L : Good(k - 1)
  BY <1>2, <1>7
<1>10. \A m \in Accepted(order, batch) : IdsOf(m) \cap ToSet(order) \subseteq F
  <2> SUFFICES ASSUME NEW k \in 1 .. L, ~Duplicate(after(k - 1), batch[k])
               PROVE  IdsOf(batch[k]) \cap ToSet(order) \subseteq F
    BY <1>3
  <2>1. ToSet(order) \subseteq ToSet(after(k - 1)) \cup F
    BY <1>9
  <2> QED BY <2>1 DEF Duplicate
<1>11. ASSUME NEW i \in 1 .. L, NEW k \in 1 .. L, i < k, ~Duplicate(after(k - 1), batch[k])
       PROVE  IdsOf(batch[i]) \cap IdsOf(batch[k]) \subseteq F
  <2>1. i \in 1 .. k - 1
    BY <1>2, <1>11
  <2>2. IdsOf(batch[i]) \subseteq ToSet(after(k - 1)) \cup F
    BY <1>9, <2>1
  <2> QED BY <1>11, <2>2 DEF Duplicate
<1>12. \A m, n \in Accepted(order, batch) : m # n => IdsOf(m) \cap IdsOf(n) \subseteq F
  <2> SUFFICES ASSUME NEW i \in 1 .. L, ~Duplicate(after(i - 1), batch[i]),
                      NEW k \in 1 .. L, ~Duplicate(after(k - 1), batch[k]),
                      batch[i] # batch[k]
               PROVE  IdsOf(batch[i]) \cap IdsOf(batch[k]) \subseteq F
    BY <1>3
  <2>1. i < k \/ k < i
    BY <1>2
  <2> QED BY <1>11, <2>1
<1>16. ASSUME NEW id \in F
       PROVE  id \in ToSet(order) \/ \E i \in 1 .. L : id \in IdsOf(batch[i])
  <2>1. PICK k \in 1 .. L : id \in ToSet(after(k - 1)) \/ id \in IdsOf(batch[k])
    BY <1>14
  <2>2. 1 .. k - 1 \subseteq 1 .. L
    BY <1>2
  <2> QED BY <1>9, <2>1, <2>2
<1>13. /\ RememberAll(order, batch) \in RingOf(S)
       /\ ToSet(order) \subseteq ToSet(RememberAll(order, batch)) \cup F
       /\ \A i \in 1 .. L : IdsOf(batch[i]) \subseteq ToSet(RememberAll(order, batch)) \cup F
       /\ \A id \in ToSet(RememberAll(order, batch)) :
            id \in ToSet(order) \/ \E i \in 1 .. L : id \in IdsOf(batch[i])
  BY <1>1, <1>8
<1> QED BY <1>10, <1>12, <1>13, <1>16 DEF L, F
==============================================================================
