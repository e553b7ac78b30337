---------------------------- MODULE Surface_proofs ----------------------------
(***************************************************************************)
(* Theorems about the notification page beside the inbox, for every set of *)
(* messages and of processes, every deployment and every bound.  InboxStep *)
(* tells what a step of the page is to the inbox, PageInv is the type      *)
(* invariant, and each deployment has invariants of its own: Own...,       *)
(* Events... (with FarInv for the ids its receiver saves), Service...      *)
(* A ring may forget ids: Past and Lost(forgotten) say which may still     *)
(* matter, SurfaceOnward that what a pull can return only gets less.  The  *)
(* one hypothesis, OneWorker (one service owns the control pipe), stands   *)
(* where it is needed, at RefreshIsFreshHolds.                             *)
(***************************************************************************)
EXTENDS Surface, Inbox_proofs

------------------------------------------------------------------------------
(***************************************************************************)
(* What a step of the page does to the inbox.                              *)
(***************************************************************************)
(* Where the page can stand in a deployment. *)
Stands ==
  [own     |-> {"off", "idle", "pull", "accept", "ids", "messages", "publish"},
   events  |-> {"off", "idle", "present", "show"},
   service |-> {"off", "idle", "asked"},
   writers |-> {"off"}]

ModeOK ==
  /\ mode \in Deployments /\ posted \in Posted[mode]
  /\ ui \in Stands[mode]

LEMMA ModesOK == ModeOK => mode \in {"service", "own", "events", "writers"} /\ posted \subseteq Records
BY DeploymentsAssumption DEF ModeOK

LEMMA ModeInit == SurfaceInit => ModeOK
BY DeploymentsAssumption DEF SurfaceInit, ModeOK, Stands

LEMMA ModeSame == [SurfaceNext]_allVars => UNCHANGED <<mode, posted>>
BY DEF SurfaceNext, allVars, surface, ServerStep, HandlePoll, Work, ReceiverStep, Report,
       WriterStep, Open, Clear, ClearFails, Filter, Fail, Close, Halt, Loop, StartPoll, Pulled,
       Refuse, Accept, SaveIds, PersistMessages, Publish, EndPoll, Present, ShowNext, EndPresent,
       Observe, AskPoll, PollAnswered, PollTimesOut, Reload, deployment

LEMMA ModeNext == ModeOK /\ [SurfaceNext]_allVars => ModeOK'
<1> SUFFICES ASSUME ModeOK, [SurfaceNext]_allVars PROVE ModeOK'
  OBVIOUS
<1> USE ModesOK DEF ModeOK
<1>1. UNCHANGED deployment
  BY ModeSame DEF deployment
<1>2. CASE UNCHANGED ui
  BY <1>1, <1>2 DEF deployment
<1>3. CASE Open \/ Fail \/ Close \/ Loop \/ AskPoll \/ PollAnswered \/ PollTimesOut
  <2>1. CASE Open
    BY <1>1, <2>1 DEF Open, At, Stands, deployment
  <2>2. CASE Fail \/ Close
    BY <1>1, <2>2 DEF Fail, Close, Halt, Stands, deployment
  <2>3. CASE AskPoll \/ PollAnswered \/ PollTimesOut
    BY <1>1, <2>3 DEF AskPoll, PollAnswered, PollTimesOut, At, Stands, deployment
  <2>4. CASE Loop
    BY <1>1, <2>4 DEF Loop, StartPoll, Pulled, Refuse, Accept, SaveIds, PersistMessages,
         Publish, EndPoll, Present, ShowNext, EndPresent, At, Stands, deployment
  <2> QED BY <1>3, <2>1, <2>2, <2>3, <2>4
<1>4. ASSUME ~(Open \/ Fail \/ Close \/ Loop \/ AskPoll \/ PollAnswered \/ PollTimesOut)
      PROVE  UNCHANGED ui
  BY <1>4 DEF SurfaceNext, allVars, surface, page, ServerStep, HandlePoll, Work, ReceiverStep,
         Report, WriterStep, Clear, ClearFails, Filter, Observe
<1> QED BY <1>2, <1>3, <1>4

(* What an end of the poll or of the Shell does. *)
LEMMA Halted ==
  ASSUME Fail \/ Close
  PROVE  /\ ui' \in {"idle", "off"} /\ todo' = <<>>
         /\ halts < MaxHalts /\ halts' = halts + 1
         /\ UNCHANGED <<inbox, deployment, saved, shown, inHand, hidden, forgotten>>
         /\ ui' = "off" =>
              /\ events' = <<>> /\ uiRing' = <<>> /\ uiWater' = 0 /\ target' = 0 /\ view' = <<>>
              /\ unsaved' = {}
              /\ skipped' = skipped \cup unsaved \cup (IF ui = "messages" THEN {Head(todo)} ELSE {})
         /\ ui' = "idle" =>
              /\ UNCHANGED <<events, uiRing, uiWater, target, view, skipped>>
              /\ unsaved' = unsaved \cup (IF ui \in {"ids", "messages"} THEN {Head(todo)} ELSE {})
<1>1. PICK to \in {"idle", "off"} : Halt(to)
  BY DEF Fail, Close
<1>2. CASE to = "off"
  BY <1>1, <1>2 DEF Halt
<1>3. CASE to = "idle"
  BY <1>1, <1>3 DEF Halt
<1> QED BY <1>2, <1>3

(* The page reads the file at most. *)
Glance ==
  /\ UNCHANGED <<server, file, process, receiver, clears, stops, history>>
  /\ UNCHANGED failures \/ \E r \in Readable : Read(r)

(* It saves a label, or its ring. *)
Rewrite ==
  /\ UNCHANGED <<server, process, receiver, clears, stops, history>>
  /\ \E r \in Readable :
       /\ Read(r)
       /\ file' = r \/ file' = [r EXCEPT !.seen = uiRing]

(* What a step of the whole is to the inbox: one of its own, or one of the page. *)
LEMMA InboxStep ==
  ASSUME ModeOK, [SurfaceNext]_allVars
  PROVE  \/ [Next]_vars
         \/ Glance
         \/ mode \in {"own", "events"} /\ Rewrite
         \/ mode = "own" /\ (Pulled \/ PersistMessages \/ EndPoll)
<1> USE ModesOK
<1>1. CASE ServerStep
  BY <1>1 DEF ServerStep, Next, Records
<1>2. CASE mode = "service" /\ \E p \in Workers : HandlePoll(p) \/ Work(p)
  BY <1>2 DEF HandlePoll, Work, Next, Processes, Cycle
<1>3. CASE mode = "events" /\ \E p \in Receivers : ReceiverStep(p)
  BY <1>3 DEF ReceiverStep, Receiver, Report, Next, Processes, Save
<1>4. CASE mode = "writers" /\ WriterStep
  BY <1>4 DEF WriterStep, Receiver, Next, Save
<1>5. CASE Clear \/ Filter
  BY <1>5 DEF Clear, Filter, Next
<1>6. CASE ClearFails \/ Fail \/ Close \/ StartPoll \/ Refuse \/ Publish \/ AskPoll \/ PollTimesOut
  BY <1>6 DEF ClearFails, Fail, Close, Halt, StartPoll, Refuse, Publish, AskPoll, PollTimesOut,
              inbox
<1>7. CASE Open \/ Present \/ Observe \/ PollAnswered
  BY <1>7 DEF Open, Present, Observe, PollAnswered, Reload, Transaction, Glance, history
<1>8. CASE Accept \/ SaveIds \/ ShowNext \/ EndPresent
  <2>1. mode \in {"own", "events"}
    BY <1>8 DEF Accept, SaveIds, ShowNext, EndPresent, At, ModeOK, Stands
  <2>2. Rewrite \/ Glance
    BY <1>8 DEF Accept, SaveIds, ShowNext, EndPresent, Transaction, Rewrite, Glance, history
  <2> QED BY <2>1, <2>2
<1>9. CASE Pulled \/ PersistMessages \/ EndPoll
  BY <1>9 DEF Pulled, PersistMessages, EndPoll, At, ModeOK, Stands
<1>10. CASE UNCHANGED allVars
  BY <1>10 DEF allVars, inbox
<1> QED BY <1>1, <1>2, <1>3, <1>4, <1>5, <1>6, <1>7, <1>8, <1>9, <1>10 DEF SurfaceNext, Loop
------------------------------------------------------------------------------
(***************************************************************************)
(* Type correctness.                                                       *)
(***************************************************************************)
PageTypes ==
  /\ view \in Seq(Records) /\ saved \in Seq(Records)
  /\ Len(saved) <= MaxMessages
  /\ uiRing \in RingOf(Ids)
  /\ {uiWater, target} \subseteq 0 .. MaxTime
  /\ todo \in Seq(Messages)
  /\ ui \in {"ids", "messages", "publish", "show"} => todo # <<>>

CallTypes ==
  /\ call \in {"none", "sent", "served", "answered", "failed"}
  /\ asked \subseteq Messages
  /\ shown \in [Messages -> Nat]
  /\ unsaved \cup skipped \cup inHand \subseteq Records
  /\ halts \in 0 .. MaxHalts

(* Beside a receiver alone there are no test messages. *)
OnlyMessages ==
  mode = "events" =>
    /\ events \in Seq(SUBSET Messages)
    /\ file.messages \subseteq Messages
    /\ \A p \in Processes : snap[p] \cup accepted[p] \subseteq Messages

PageInv == ModeOK /\ TypeInv /\ PageTypes /\ CallTypes /\ OnlyMessages

LEMMA ShortenOK ==
  ASSUME NEW S, NEW s \in Seq(S)
  PROVE  /\ Shorten(s) \in Seq(S)
         /\ Len(Shorten(s)) = IF Len(s) < MaxMessages THEN Len(s) ELSE MaxMessages
         /\ \A i \in 1 .. Len(Shorten(s)) : i \in 1 .. Len(s) /\ Shorten(s)[i] = s[i]
         /\ ToSet(Shorten(s)) \subseteq ToSet(s)
         /\ Len(s) <= MaxMessages => Shorten(s) = s
<1> DEFINE k == IF Len(s) < MaxMessages THEN Len(s) ELSE MaxMessages
<1>1. MaxMessages \in Nat /\ MaxMessages # 0 /\ Len(s) \in Nat
  BY BoundsAssumption
<1>2. k \in 0 .. Len(s)
  BY <1>1
<1>3. Shorten(s) = SubSeq(s, 1, k)
  BY DEF Shorten
<1> HIDE DEF k
<1>4. /\ SubSeq(s, 1, k) \in Seq(S) /\ Len(SubSeq(s, 1, k)) = k
      /\ \A i \in 1 .. k : SubSeq(s, 1, k)[i] = s[i]
  BY <1>1, <1>2
<1>5. ToSet(Shorten(s)) \subseteq ToSet(s)
  BY <1>1, <1>2, <1>3, <1>4 DEF ToSet
<1>6. Len(s) <= MaxMessages => k = Len(s)
  BY <1>1 DEF k
<1>7. k = Len(s) => SubSeq(s, 1, k) = s
  BY <1>1, <1>4
<1> QED BY <1>1, <1>2, <1>3, <1>4, <1>5, <1>6, <1>7 DEF k

LEMMA FewInSequence ==
  ASSUME NEW S, NEW s \in Seq(S), Len(s) <= MaxMessages
  PROVE  Cardinality(ToSet(s)) <= MaxMessages /\ ToSet(s) \subseteq S
<1>1. s \in Surjection(1 .. Len(s), ToSet(s))
  BY DEF Surjection, ToSet
<1>2. IsFiniteSet(1 .. Len(s)) /\ Cardinality(1 .. Len(s)) = Len(s)
  BY FS_Interval
<1>3. IsFiniteSet(ToSet(s)) /\ Cardinality(ToSet(s)) <= Len(s)
  BY <1>1, <1>2, FS_Surjection
<1>4. Cardinality(ToSet(s)) \in Nat
  BY <1>3, FS_CardinalityType
<1> QED BY <1>3, <1>4, BoundsAssumption DEF ToSet

LEMMA ReverseOK ==
  ASSUME NEW S, NEW s \in Seq(S)
  PROVE  /\ Reverse(s) \in Seq(S) /\ Len(Reverse(s)) = Len(s)
         /\ \A i \in 1 .. Len(s) : Reverse(s)[i] = s[Len(s) - i + 1]
         /\ ToSet(Reverse(s)) = ToSet(s)
<1>1. Reverse(s) \in Seq(S) /\ Len(Reverse(s)) = Len(s)
  BY DEF Reverse
<1>2. \A i \in 1 .. Len(s) : Reverse(s)[i] = s[Len(s) - i + 1]
  BY DEF Reverse
<1>3. \A i \in 1 .. Len(s) : Len(s) - i + 1 \in 1 .. Len(s) /\ Reverse(s)[Len(s) - i + 1] = s[i]
  BY <1>2
<1>4. PICK r \in Seq(S) : r = Reverse(s)
  BY <1>1
<1>5. \A i \in 1 .. Len(s) : \E j \in 1 .. Len(s) : r[i] = s[j] /\ s[i] = r[j]
  BY <1>2, <1>3, <1>4
<1>6. DOMAIN r = 1 .. Len(s) /\ DOMAIN s = 1 .. Len(s)
  BY <1>1, <1>4
<1>7. ToSet(r) = ToSet(s)
  BY <1>5, <1>6, Zenon DEF ToSet
<1> QED BY <1>1, <1>2, <1>4, <1>7

(* What is remembered of a view. *)
LEMMA ViewKeepsRing ==
  ASSUME NEW order \in RingOf(Ids), NEW s \in Seq(Records)
  PROVE  RememberAll(order, s) \in RingOf(Ids)
<1>1. \A m \in Accepted(order, s) : IdsOf(m) \subseteq Ids
  BY IdsAreIds DEF Accepted
<1>2. \A i \in 1 .. Len(s) : IdsOf(s[i]) \subseteq Ids
  BY IdsAreIds
<1> QED BY <1>1, <1>2, BatchKeepsRing

(* The history as the page shows it. *)
LEMMA RestoredOK ==
  ASSUME TypeInv, saved \in Seq(Records), Len(saved) <= MaxMessages, NEW r \in Readable
  PROVE  /\ Restored(r) \in Seq(Records)
         /\ mode # "own" => ToSet(Restored(r)) = r.messages
         /\ Len(Restored(r)) <= MaxMessages
<1>1. r.messages \subseteq Records /\ ServerOK /\ Cardinality(r.messages) <= MaxMessages
  BY ReadableOK DEF TypeInv, TypeOK
<1>2. PICK s : s = InOrder(r.messages)
  OBVIOUS
<1>3. s \in Seq(r.messages) /\ ToSet(s) = r.messages
  BY <1>1, <1>2, InOrderSorts
<1>4. Len(s) = Cardinality(r.messages)
  <2>1. Sorts(s, r.messages)
    BY <1>1, <1>2, SortExists DEF InOrder, Sorts
  <2>2. Cardinality(r.messages) \in Nat
    BY <1>1, FiniteRecords, FS_CardinalityType
  <2> QED BY <1>3, <2>1, <2>2 DEF Sorts
<1>5. /\ Reverse(s) \in Seq(r.messages) /\ ToSet(Reverse(s)) = r.messages
      /\ Len(Reverse(s)) = Len(s)
  BY <1>3, ReverseOK
<1>6. Reverse(s) \in Seq(Records)
  BY <1>1, <1>5
<1>7. CASE mode # "own"
  BY <1>1, <1>2, <1>4, <1>5, <1>6, <1>7 DEF Restored
<1>8. CASE mode = "own"
  <2>1. <<>> \in Seq(Records) /\ Len(<<>>) <= MaxMessages
    BY BoundsAssumption
  <2> QED BY <1>8, <2>1 DEF Restored
<1> QED BY <1>7, <1>8

LEMMA PageInit == SurfaceInit => PageInv
<1> SUFFICES ASSUME SurfaceInit PROVE PageInv
  OBVIOUS
<1>1. TypeInv
  BY TypeInit DEF SurfaceInit
<1>2. /\ <<>> \in Seq(Records) /\ <<>> \in Seq(Messages) /\ <<>> \in Seq(SUBSET Messages)
      /\ Len(<<>>) = 0 /\ 0 <= MaxMessages /\ 0 \in 0 .. MaxTime
  BY BoundsAssumption
<1>3. PageTypes
  BY <1>2, EmptyRing DEF SurfaceInit, PageTypes
<1>4. CallTypes
  BY HaltsAssumption DEF SurfaceInit, CallTypes
<1>5. OnlyMessages
  BY <1>2 DEF SurfaceInit, Init, Empty, OnlyMessages
<1> QED BY <1>1, <1>3, <1>4, <1>5, ModeInit DEF PageInv

(* The transactions of the page keep the types of the inbox. *)
LEMMA TypeGlance == TypeInv /\ Glance => TypeInv'
<1> SUFFICES ASSUME TypeInv, Glance PROVE TypeInv'
  OBVIOUS
<1>1. HistoryOK'
  BY HistoryStep DEF Glance, history, TypeInv, TypeOK, HistoryOK
<1>2. FileOK' /\ file' = [messages |-> file'.messages, seen |-> file'.seen]
  BY FileStep DEF Glance
<1> QED BY <1>1, <1>2, ServerFrame, ProcessFrame DEF Glance, TypeInv, TypeOK

LEMMA TypeRewrite ==
  ASSUME TypeInv, uiRing \in RingOf(Ids), Rewrite
  PROVE  TypeInv'
<1>1. PICK r \in Readable : Read(r) /\ (file' = r \/ file' = [r EXCEPT !.seen = uiRing])
  BY DEF Rewrite
<1>2. HistoryOK'
  BY <1>1, HistoryStep DEF Rewrite, history, TypeInv, TypeOK, HistoryOK
<1>3. FileOK' /\ file' = [messages |-> file'.messages, seen |-> file'.seen]
  BY <1>1, ReadableOK DEF FileOK
<1> QED BY <1>2, <1>3, ServerFrame, ProcessFrame DEF Rewrite, TypeInv, TypeOK

LEMMA TypePersist ==
  ASSUME TypeInv, view \in Seq(Records), PersistMessages
  PROVE  TypeInv'
<1>1. PICK r \in Readable, kept \in {Shorten(view)} :
        /\ kept = Shorten(view)
        /\ Read(r)
        /\ file' = [messages |-> ToSet(kept), seen |-> RememberAll(r.seen, Reverse(kept))]
        /\ recorded' = recorded \cup ToSet(kept)
        /\ trimmed' = trimmed \cup (ToSet(view) \ ToSet(kept))
  BY DEF PersistMessages
<1>2. /\ kept \in Seq(Records) /\ Len(kept) <= MaxMessages
      /\ ToSet(view) \subseteq Records
  BY <1>1, ShortenOK, BoundsAssumption DEF ToSet
<1>3. ToSet(kept) \subseteq Records /\ Cardinality(ToSet(kept)) <= MaxMessages
  BY <1>2, FewInSequence
<1>4. PICK o : o = RememberAll(r.seen, Reverse(kept))
  OBVIOUS
<1>5. o \in RingOf(Ids)
  BY <1>2, <1>4, ReadableOK, ReverseOK, ViewKeepsRing
<1>6. FileOK' /\ file' = [messages |-> file'.messages, seen |-> file'.seen]
  BY <1>1, <1>3, <1>4, <1>5 DEF FileOK
<1>7. HistoryOK'
  BY <1>1, <1>2, <1>3, ReadTypes DEF PersistMessages, Transaction, TypeInv, TypeOK, HistoryOK
<1> QED BY <1>6, <1>7, ServerFrame, ProcessFrame DEF PersistMessages, Transaction, TypeInv, TypeOK

LEMMA TypePulled == TypeInv /\ Pulled => TypeInv'
<1> SUFFICES ASSUME TypeInv, Pulled PROVE TypeInv'
  OBVIOUS
<1>1. HistoryOK'
  BY AnswerOK DEF Pulled, bounds, TypeInv, TypeOK, HistoryOK
<1> QED BY <1>1, ServerFrame, ProcessFrame DEF Pulled, TypeInv, TypeOK, FileOK

LEMMA TypeEndPoll ==
  ASSUME TypeInv, view \in Seq(Records), EndPoll
  PROVE  TypeInv'
<1>1. HistoryOK'
  BY DEF EndPoll, bounds, ToSet, TypeInv, TypeOK, HistoryOK
<1> QED BY <1>1, ServerFrame, ProcessFrame DEF EndPoll, TypeInv, TypeOK, FileOK

LEMMA InboxTypes ==
  ASSUME ModeOK, TypeInv, PageTypes, [SurfaceNext]_allVars
  PROVE  TypeInv'
BY InboxStep, TypeNext, TypeGlance, TypeRewrite, TypePulled, TypePersist, TypeEndPoll
   DEF PageTypes

(* What the page shows next is a message of the history. *)
LEMMA PresentTypes ==
  ASSUME PageInv, Present
  PROVE  /\ todo' \in Seq(Messages) /\ events' \in Seq(SUBSET Messages)
         /\ \E r \in Readable : Read(r) /\ ToSet(todo') \subseteq r.messages
<1>1. mode = "events" /\ events \in Seq(SUBSET Messages) /\ events # <<>>
  BY DEF Present, PageInv, OnlyMessages
<1>2. events' \in Seq(SUBSET Messages) /\ Head(events) \in SUBSET Messages
  BY <1>1 DEF Present
<1> DEFINE requested == InOrder(Head(events))
           persisted(r) == InOrder(r.messages)
           matched(r) == {i \in DOMAIN requested : Places(persisted(r), requested[i]) # {}}
           found(r, s) == [i \in DOMAIN s |-> persisted(r)[Max(Places(persisted(r), requested[s[i]]))]]
<1>a. PICK r \in Readable :
        Read(r) /\ \E s \in [1 .. Cardinality(matched(r)) -> matched(r)] : todo' = found(r, s)
  BY DEF Present
<1>b. PICK s \in [1 .. Cardinality(matched(r)) -> matched(r)] : todo' = found(r, s)
  BY <1>a
<1>3. ServerOK /\ Head(events) \subseteq Records /\ r.messages \subseteq Messages /\ r.messages \subseteq Records
  BY <1>1, <1>2, ReadableOK DEF Readable, Empty, PageInv, OnlyMessages, TypeInv, TypeOK, Records
<1>4. requested \in Seq(Head(events)) /\ persisted(r) \in Seq(r.messages)
  BY <1>3, InOrderSorts
<1> HIDE DEF requested, persisted
<1>5. Cardinality(matched(r)) \in Nat
  <2>1. PICK k \in Nat : DOMAIN requested = 1 .. k
    BY <1>4
  <2>2. IsFiniteSet(1 .. k) /\ matched(r) \subseteq 1 .. k
    BY <2>1, FS_Interval
  <2> QED BY <2>2, FS_Subset, FS_CardinalityType
<1>6. ASSUME NEW i \in 1 .. Cardinality(matched(r))
      PROVE  persisted(r)[Max(Places(persisted(r), requested[s[i]]))] \in r.messages
  <2>1. Places(persisted(r), requested[s[i]]) # {}
    BY <1>b
  <2>2. Places(persisted(r), requested[s[i]]) \subseteq 1 .. Len(persisted(r))
    BY <1>4 DEF Places
  <2>3. PICK k \in Nat : k = Len(persisted(r))
    BY <1>4
  <2>4. Places(persisted(r), requested[s[i]]) \in SUBSET (0 .. k)
    BY <2>2, <2>3
  <2>5. Max(Places(persisted(r), requested[s[i]])) \in 1 .. Len(persisted(r))
    BY <2>1, <2>2, <2>4, MaxOfNumbers
  <2> QED BY <1>4, <2>5
<1>7. PICK k \in Nat : k = Cardinality(matched(r))
  BY <1>5
<1>8. DOMAIN s = 1 .. k
  BY <1>b, <1>7
<1>9. todo' = [i \in 1 .. k |-> todo'[i]] /\ \A i \in 1 .. k : todo'[i] \in r.messages
  BY <1>b, <1>6, <1>7, <1>8
<1>10. todo' \in Seq(Messages)
  BY <1>3, <1>9
<1>11. ToSet(todo') \subseteq r.messages
  BY <1>9 DEF ToSet
<1> QED BY <1>a, <1>2, <1>10, <1>11

LEMMA HeadOK ==
  ASSUME PageTypes, todo # <<>>
  PROVE  /\ Head(todo) \in Messages /\ Head(todo) \in Records
         /\ Tail(todo) \in Seq(Messages)
         /\ <<Head(todo)>> \o view \in Seq(Records)
         /\ RememberIds(uiRing, Head(todo)) \in RingOf(Ids)
<1>1. Head(todo) \in Messages /\ Tail(todo) \in Seq(Messages) /\ Head(todo) \in Records
  BY DEF PageTypes, Records
<1>2. StableId(Head(todo)) \in Ids /\ FallbackId(Head(todo)) \in Ids
  BY <1>1, IdsAreIds DEF IdsOf
<1>3. RememberIds(uiRing, Head(todo)) \in RingOf(Ids)
  BY <1>2, RememberKeepsRing DEF RememberIds, PageTypes
<1>4. <<Head(todo)>> \o view \in Seq(Records)
  BY <1>1 DEF PageTypes
<1> QED BY <1>1, <1>3, <1>4

LEMMA PageTypesNext ==
  ASSUME PageInv, TypeInv', [SurfaceNext]_allVars
  PROVE  PageTypes'
<1> USE DEF PageInv
<1>1. CASE UNCHANGED page
  BY <1>1 DEF page, PageTypes
<1>2. CASE Open
  <2>1. PICK r \in Readable :
          view' = Restored(r) /\ uiRing' = Seeded(r) /\ uiWater' = Newest(r.messages)
    BY <1>2 DEF Open
  <2>2. Restored(r) \in Seq(Records) /\ Seeded(r) \in RingOf(Ids)
    BY RestoredOK, ReadableOK DEF PageTypes
  <2>3. Newest(r.messages) \in 0 .. MaxTime
    BY ReadableOK, NewestOK DEF TypeInv, TypeOK
  <2> QED BY <1>2, <2>1, <2>2, <2>3 DEF Open, At, PageTypes
<1>3. CASE Clear \/ ClearFails
  <2>1. /\ view' = <<>> /\ saved' \in {saved, <<>>}
        /\ UNCHANGED <<ui, uiRing, uiWater, target, todo>>
    BY <1>3 DEF Clear, ClearFails
  <2>2. <<>> \in Seq(Records) /\ Len(<<>>) <= MaxMessages
    BY BoundsAssumption
  <2> QED BY <2>1, <2>2 DEF PageTypes
<1>4. CASE Fail \/ Close
  <2>1. PICK to \in {"idle", "off"} : Halt(to)
    BY <1>4 DEF Fail, Close
  <2>2. /\ ui' = to /\ todo' = <<>> /\ saved' = saved
        /\ view' = view \/ view' = <<>>
        /\ uiRing' = uiRing \/ uiRing' = <<>>
        /\ uiWater' = uiWater \/ uiWater' = 0
        /\ target' = target \/ target' = 0
    BY <2>1 DEF Halt
  <2>3. <<>> \in Seq(Records) /\ <<>> \in Seq(Messages) /\ 0 \in 0 .. MaxTime
    BY BoundsAssumption
  <2> QED BY <2>2, <2>3, EmptyRing DEF PageTypes
<1>5. CASE StartPoll \/ Pulled
  <2>1. CASE StartPoll
    BY <2>1 DEF StartPoll, At, PageTypes
  <2>2. CASE Pulled
    <3>1. todo' \in Seq(Messages) /\ ToSet(todo') \subseteq Records
      BY <2>2, AnswerOK DEF Pulled, TypeInv, TypeOK, ToSet, Records
    <3>2. target' \in 0 .. MaxTime
      BY <2>2, <3>1, NewestOK DEF Pulled, PageTypes, TypeInv, TypeOK
    <3> QED BY <2>2, <3>1, <3>2 DEF Pulled, At, PageTypes
  <2> QED BY <1>5, <2>1, <2>2
<1>6. CASE Refuse
  BY <1>6, HeadOK DEF Refuse, PageTypes
<1>7. CASE Accept
  BY <1>7, HeadOK DEF Accept, At, PageTypes
<1>8. CASE SaveIds
  BY <1>8 DEF SaveIds, At, PageTypes
<1>9. CASE PersistMessages
  <2>1. Shorten(view) \in Seq(Records) /\ Len(Shorten(view)) <= MaxMessages
    BY ShortenOK, BoundsAssumption DEF PageTypes
  <2> QED BY <1>9, <2>1 DEF PersistMessages, At, PageTypes
<1>10. CASE Publish
  BY <1>10, HeadOK DEF Publish, At, PageTypes
<1>11. CASE EndPoll \/ EndPresent
  BY <1>11, ShortenOK DEF EndPoll, EndPresent, At, PageTypes
<1>12. CASE Present
  BY <1>12, PresentTypes DEF Present, At, PageTypes
<1>13. CASE ShowNext
  BY <1>13, HeadOK DEF ShowNext, At, PageTypes
<1>14. CASE Observe \/ AskPoll \/ PollAnswered \/ PollTimesOut
  <2>1. CASE Observe \/ PollAnswered
    <3>1. PICK r \in Readable : view' = Restored(r) /\ uiRing' = Seeded(r)
      BY <2>1 DEF Observe, PollAnswered, Reload
    <3>2. Restored(r) \in Seq(Records) /\ Seeded(r) \in RingOf(Ids)
      BY RestoredOK, ReadableOK DEF PageTypes
    <3> QED BY <2>1, <3>1, <3>2 DEF Observe, PollAnswered, Reload, At, PageTypes
  <2>2. CASE AskPoll \/ PollTimesOut
    BY <2>2 DEF AskPoll, PollTimesOut, At, PageTypes
  <2> QED BY <1>14, <2>1, <2>2
<1> QED
  BY <1>1, <1>2, <1>3, <1>4, <1>5, <1>6, <1>7, <1>8, <1>9, <1>10, <1>11, <1>12, <1>13, <1>14
  DEF SurfaceNext, Loop, allVars, surface, ServerStep, HandlePoll, Work, ReceiverStep, Report,
      WriterStep, Filter

LEMMA CallTypesNext ==
  ASSUME PageInv, [SurfaceNext]_allVars
  PROVE  CallTypes'
<1> USE DEF PageInv
<1>1. CASE UNCHANGED <<call, asked, shown, unsaved, skipped, inHand, halts>>
  BY <1>1 DEF CallTypes
<1>2. CASE \E p \in Workers : HandlePoll(p) \/ Work(p)
  BY <1>2 DEF HandlePoll, Work, CallTypes, tracked
<1>3. CASE Clear
  BY <1>3 DEF Clear, CallTypes, PageTypes, ToSet, Records
<1>4. CASE Fail \/ Close \/ ClearFails
  BY <1>4, HeadOK, HaltsAssumption DEF Fail, Close, Halt, ClearFails, CallTypes, PageTypes
<1>5. CASE Publish
  <2>1. todo # <<>>
    BY <1>5 DEF Publish, At, PageTypes
  <2>2. shown' = [shown EXCEPT ![Head(todo)] = shown[Head(todo)] + 1]
    BY <1>5 DEF Publish
  <2>3. shown' \in [Messages -> Nat]
    BY <2>1, <2>2, HeadOK DEF CallTypes
  <2> QED BY <1>5, <2>3 DEF Publish, CallTypes
<1>6. CASE PersistMessages
  BY <1>6 DEF PersistMessages, CallTypes
<1>7. CASE AskPoll
  BY <1>7 DEF AskPoll, CallTypes, tracked, ToSet, TypeInv, TypeOK, ServerOK
<1>8. CASE PollAnswered \/ PollTimesOut
  BY <1>8 DEF PollAnswered, PollTimesOut, Reload, CallTypes, tracked
<1> QED
  BY <1>1, <1>2, <1>3, <1>4, <1>5, <1>6, <1>7, <1>8
  DEF SurfaceNext, Loop, allVars, surface, ServerStep, ReceiverStep, Report, WriterStep, Filter,
      Open, StartPoll, Pulled, Refuse, Accept, SaveIds, EndPoll, Present, ShowNext, EndPresent,
      Observe, Reload, page, tracked

(* A step of an inbox beside a page that waits for events. *)
LEMMA EventsSteps ==
  ASSUME ModeOK, mode = "events", [SurfaceNext]_allVars
  PROVE  \/ \E p \in Receivers : Receiver(p) \/ Stop(p) \/ SaveKnownLabels(p)
         \/ ClearMessages \/ SaveFilter
         \/ Rewrite \/ Glance
         \/ UNCHANGED <<file, process, failures, cleared, raced, overlap, trimmed, receiver>>
<1>1. CASE ServerStep
  BY <1>1 DEF ServerStep, Tick, Stamp, Push, bounds, history
<1>2. CASE \E p \in Receivers : ReceiverStep(p)
  BY <1>2 DEF ReceiverStep, Report
<1>3. CASE Clear \/ Filter
  BY <1>3 DEF Clear, Filter
<1>4. CASE ClearFails \/ Fail \/ Close \/ Refuse \/ Publish \/ UNCHANGED allVars
  BY <1>4 DEF ClearFails, Fail, Close, Halt, Refuse, Publish, allVars, inbox, vars, bounds, history
<1>5. CASE Open \/ Present
  BY <1>5 DEF Open, Present, Transaction, Glance, history
<1>6. CASE ShowNext \/ EndPresent
  BY <1>6 DEF ShowNext, EndPresent, Transaction, Rewrite, Glance, history
<1> QED
  BY <1>1, <1>2, <1>3, <1>4, <1>5, <1>6
  DEF SurfaceNext, Loop, StartPoll, Pulled, Accept, SaveIds, PersistMessages, EndPoll, Observe,
      AskPoll, PollAnswered, PollTimesOut, At, ModeOK, Stands

LEMMA OnlyMessagesNext ==
  ASSUME PageInv, [SurfaceNext]_allVars
  PROVE  OnlyMessages'
<1> SUFFICES ASSUME mode = "events" PROVE OnlyMessages'
  BY ModeSame DEF OnlyMessages
<1>1. /\ events \in Seq(SUBSET Messages) /\ file.messages \subseteq Messages
      /\ \A p \in Processes : snap[p] \cup accepted[p] \subseteq Messages
      /\ TypeInv /\ Domains
  BY DomainsHold DEF PageInv, OnlyMessages
<1>2. events' \in Seq(SUBSET Messages)
  <2>1. CASE \E p \in Receivers : Report(p)
    BY <1>1, <2>1 DEF Report, Processes
  <2>2. CASE Present
    BY <2>2, PresentTypes
  <2>3. CASE Fail \/ Close
    <3>1. events' = events \/ events' = <<>>
      BY <2>3, Halted
    <3>2. <<>> \in Seq(SUBSET Messages)
      OBVIOUS
    <3> QED BY <1>1, <3>1, <3>2
  <2>4. ASSUME ~(Present \/ Fail \/ Close \/ \E p \in Receivers : Report(p))
        PROVE  UNCHANGED events
    BY <2>4 DEF SurfaceNext, allVars, surface, ServerStep, HandlePoll, Work, ReceiverStep,
         WriterStep, Open, Clear, ClearFails, Filter, Loop, StartPoll, Pulled, Refuse, Accept,
         SaveIds, PersistMessages, Publish, EndPoll, ShowNext, EndPresent, Observe, AskPoll,
         PollAnswered, PollTimesOut, Reload
  <2> QED BY <1>1, <2>1, <2>2, <2>3, <2>4
<1>3. CASE ClearMessages \/ SaveFilter \/ Rewrite \/ Glance
           \/ UNCHANGED <<file, process, failures, cleared, raced, overlap, trimmed, receiver>>
  <2>1. UNCHANGED process
    BY <1>3 DEF ClearMessages, SaveFilter, Rewrite, Glance
  <2>2. file'.messages \subseteq file.messages
    <3>1. CASE ClearMessages \/ SaveFilter \/ Rewrite
      <4>1. PICK r \in Readable : \/ file' = r \/ file' = [r EXCEPT !.seen = uiRing]
                                  \/ file' = [r EXCEPT !.messages = {}]
        BY <3>1 DEF ClearMessages, SaveFilter, Rewrite
      <4>2. file'.messages \subseteq r.messages
        BY <1>1, <4>1, ReadableOK, OtherField
      <4> QED BY <4>2 DEF Readable, Empty
    <3>2. CASE file' = file
      BY <3>2
    <3> QED BY <1>3, <3>1, <3>2 DEF Glance
  <2> QED BY <1>1, <1>2, <2>1, <2>2 DEF OnlyMessages, process
<1>4. ASSUME NEW p \in Receivers, Receiver(p) \/ Stop(p) \/ SaveKnownLabels(p)
      PROVE  OnlyMessages'
  <2>1. p \in Processes
    BY DEF Processes
  <2>2. \A q \in Processes \ {p} : snap'[q] = snap[q] /\ accepted'[q] = accepted[q]
    BY <1>1, <1>4, <2>1, OthersSame DEF Receiver, Save, SameProcess
  <2>3. CASE Construct(p) \/ ReceiverPull(p) \/ SaveSeenMessageIds(p) \/ SaveKnownLabels(p)
             \/ Stop(p)
    <3>1. snap'[p] \subseteq snap[p] /\ accepted'[p] \subseteq accepted[p]
      BY <1>1, <2>1, <2>3 DEF Construct, ReceiverPull, SaveSeenMessageIds, SaveKnownLabels, Stop,
                              Rest, Domains
    <3>2. file'.messages \subseteq file.messages
      <4>1. CASE SaveSeenMessageIds(p) \/ SaveKnownLabels(p)
        <5>1. PICK r \in Readable : file' = r \/ file' = [r EXCEPT !.seen = ring[p]]
          BY <4>1 DEF SaveSeenMessageIds, SaveKnownLabels
        <5>2. file'.messages \subseteq r.messages
          BY <1>1, <5>1, ReadableOK, OtherField
        <5> QED BY <5>2 DEF Readable, Empty
      <4>2. CASE ~(SaveSeenMessageIds(p) \/ SaveKnownLabels(p))
        BY <2>3, <4>2 DEF Construct, ReceiverPull, Stop
      <4> QED BY <4>1, <4>2
    <3> QED BY <1>1, <1>2, <2>2, <3>1, <3>2 DEF OnlyMessages
  <2>4. CASE ReceiverLoad(p)
    <3>1. PICK r \in Readable : Take(p, r.messages, Seeded(r), got[p])
      BY <2>4 DEF ReceiverLoad
    <3>2. PICK o : o = Seeded(r)
      OBVIOUS
    <3>3. r.messages \subseteq Messages
      BY <1>1 DEF Readable, Empty
    <3>4. Accepted(o, got[p]) \subseteq Messages
      BY <1>1 DEF Accepted, TypeInv, TypeOK, ProcessOK
    <3>5. snap'[p] \subseteq Messages /\ accepted'[p] \subseteq Messages
      BY <1>1, <2>1, <3>1, <3>2, <3>3, <3>4 DEF Take, Rest, Domains
    <3>6. UNCHANGED file
      BY <2>4 DEF ReceiverLoad
    <3> QED BY <1>1, <1>2, <2>2, <3>5, <3>6 DEF OnlyMessages
  <2>5. CASE SaveMessages(p)
    <3>1. PICK r \in Readable, kept \in Trims(Merge(p)) :
            file' = [messages |-> kept, seen |-> RememberAll(r.seen, InOrder(kept))]
      BY <2>5 DEF SaveMessages
    <3>2. file'.messages \subseteq Messages
      BY <1>1, <2>1, <3>1 DEF Trims, Merge
    <3> QED BY <1>1, <1>2, <2>5, <3>2 DEF OnlyMessages, SaveMessages
  <2> QED BY <1>4, <2>3, <2>4, <2>5 DEF Receiver
<1> QED BY <1>3, <1>4, EventsSteps DEF PageInv

LEMMA PageNext == PageInv /\ [SurfaceNext]_allVars => PageInv'
BY ModeNext, InboxTypes, PageTypesNext, CallTypesNext, OnlyMessagesNext DEF PageInv
------------------------------------------------------------------------------
(***************************************************************************)
(* A worker misses nothing.                                                *)
(***************************************************************************)
LEMMA GlancePass ==
  ASSUME SeenInv, PassInv, Glance
  PROVE  SeenInv' /\ PassInv'
<1>1. UNCHANGED <<file, pc, snap, ring, accepted, waterline, got, stamp, list, recorded, trimmed,
                  late, cut>>
  BY DEF Glance, server, process, receiver, history
<1>2. SeenInv'
  BY <1>1 DEF SeenInv, FileKnown, RingKnown, Rec, Carried
<1>3. PassInv'
  BY <1>1 DEF PassInv, PushedStamped, FilePass, WorkerPass, ReceiverPass, NoGap, Reached, There,
              Pushed, ExcusedOnes, Excused, Rec, Base, Carried
<1> QED BY <1>2, <1>3

(* A worker whose page only reads, beside a receiver or not, asks for every message on
   the server that is neither recorded nor excused; whatever the page, the receiver and
   the user do to the history between its transactions.                                *)
THEOREM WorkerMissesNothingHolds == SurfaceSpec => []WorkerMissesNothing
<1> DEFINE Inv == PageInv /\ (mode \in {"service", "writers"} => SeenInv /\ PassInv)
<1>1. Inv => WorkerMissesNothing
  BY PassedIsRecorded DEF PageInv, WorkerMissesNothing
<1>2. SurfaceInit => Inv
  BY PageInit, SeenInit, PassInit DEF SurfaceInit
<1>3. Inv /\ [SurfaceNext]_allVars => Inv'
  <2> SUFFICES ASSUME Inv, [SurfaceNext]_allVars PROVE Inv'
    OBVIOUS
  <2>1. PageInv' /\ mode' = mode
    BY PageNext, ModeSame
  <2>2. ASSUME mode \in {"service", "writers"} PROVE SeenInv' /\ PassInv'
    <3>1. [Next]_vars \/ Glance
      BY <2>2, InboxStep DEF PageInv
    <3> QED BY <2>1, <2>2, <3>1, SeenNext, PassNext, GlancePass DEF PageInv
  <2> QED BY <2>1, <2>2
<1> QED BY <1>1, <1>2, <1>3, PTL DEF SurfaceSpec
------------------------------------------------------------------------------
(***************************************************************************)
(* A page by itself: its view, its ring and the file it has saved.         *)
(***************************************************************************)
LEMMA OwnSteps ==
  ASSUME ModeOK, mode = "own", [SurfaceNext]_allVars
  PROVE  \/ ServerStep \/ Open \/ Clear \/ ClearFails \/ Filter \/ Fail \/ Close
         \/ StartPoll \/ Pulled \/ Refuse \/ Accept \/ SaveIds \/ PersistMessages \/ Publish
         \/ EndPoll \/ UNCHANGED allVars
BY DEF SurfaceNext, Loop, Present, ShowNext, EndPresent, Observe, AskPoll, PollAnswered,
       PollTimesOut, At, ModeOK, Stands

LEMMA EventsActions ==
  ASSUME ModeOK, mode = "events", [SurfaceNext]_allVars
  PROVE  \/ ServerStep \/ (\E p \in Receivers : ReceiverStep(p))
         \/ Open \/ Clear \/ ClearFails \/ Filter \/ Fail \/ Close
         \/ Present \/ Refuse \/ ShowNext \/ Publish \/ EndPresent \/ UNCHANGED allVars
BY DEF SurfaceNext, Loop, StartPoll, Pulled, Accept, SaveIds, PersistMessages, EndPoll, Observe,
       AskPoll, PollAnswered, PollTimesOut, At, ModeOK, Stands

LEMMA OnTop ==
  ASSUME NEW S, NEW s \in Seq(S), NEW m \in S
  PROVE  /\ <<m>> \o s \in Seq(S) /\ Len(<<m>> \o s) = Len(s) + 1
         /\ (<<m>> \o s)[1] = m
         /\ \A i \in 2 .. Len(s) + 1 : (<<m>> \o s)[i] = s[i - 1] /\ i - 1 \in 1 .. Len(s)
         /\ ToSet(<<m>> \o s) = {m} \cup ToSet(s)
<1>a. <<m>> \o s \in Seq(S)
  OBVIOUS
<1>1. PICK t \in Seq(S) : t = <<m>> \o s
  BY <1>a
<1>2. /\ Len(t) = Len(s) + 1 /\ t[1] = m
      /\ \A i \in 2 .. Len(s) + 1 : t[i] = s[i - 1] /\ i - 1 \in 1 .. Len(s)
      /\ \A i \in 1 .. Len(s) : i + 1 \in 2 .. Len(s) + 1 /\ t[i + 1] = s[i]
  BY <1>1
<1>3. DOMAIN t = 1 .. Len(s) + 1 /\ DOMAIN s = 1 .. Len(s) /\ 1 \in DOMAIN t
  BY <1>1, <1>2
<1>4. \A x \in ToSet(t) : x = m \/ x \in ToSet(s)
  <2> SUFFICES ASSUME NEW k \in DOMAIN t PROVE t[k] = m \/ t[k] \in ToSet(s)
    BY DEF ToSet
  <2>1. k = 1 \/ k \in 2 .. Len(s) + 1
    BY <1>3
  <2> QED BY <1>2, <1>3, <2>1 DEF ToSet
<1>5. \A i \in DOMAIN s : s[i] \in ToSet(t)
  <2> TAKE i \in DOMAIN s
  <2>1. t[i + 1] = s[i] /\ i + 1 \in DOMAIN t
    BY <1>2, <1>3
  <2> QED BY <2>1 DEF ToSet
<1>6. ToSet(t) = {m} \cup ToSet(s)
  <2>1. m \in ToSet(t)
    BY <1>2, <1>3 DEF ToSet
  <2>2. ToSet(s) \subseteq ToSet(t)
    BY <1>5 DEF ToSet
  <2> QED BY <1>4, <2>1, <2>2
<1> QED BY <1>1, <1>2, <1>6

LEMMA HeadAndTail ==
  ASSUME NEW S, NEW s \in Seq(S), s # <<>>
  PROVE  /\ Head(s) \in S /\ Tail(s) \in Seq(S)
         /\ Head(s) \in ToSet(s) /\ ToSet(Tail(s)) \subseteq ToSet(s)
         /\ ToSet(s) = {Head(s)} \cup ToSet(Tail(s))
<1>1. Head(s) \in S /\ Tail(s) \in Seq(S)
  OBVIOUS
<1>2. <<Head(s)>> \o Tail(s) = s
  OBVIOUS
<1>3. ToSet(s) = {Head(s)} \cup ToSet(Tail(s))
  BY <1>1, <1>2, OnTop
<1> QED BY <1>1, <1>3

LEMMA RingRemembers ==
  ASSUME PageTypes, NEW m \in Records
  PROVE  /\ ToSet(uiRing) \cup IdsOf(m)
              \subseteq ToSet(RememberIds(uiRing, m)) \cup Forgets(uiRing, <<m>>)
         /\ ToSet(RememberIds(uiRing, m)) \subseteq ToSet(uiRing) \cup IdsOf(m)
         /\ Forgets(uiRing, <<m>>) \subseteq Ids
<1>a. <<m>> \in Seq(Records)
  OBVIOUS
<1>1. PICK ms \in Seq(Records) : ms = <<m>>
  BY <1>a
<1>2. Len(ms) = 1 /\ ms[1] = m /\ DOMAIN ms = {1}
  BY <1>1
<1>3. ToSet(ms) = {m}
  BY <1>2 DEF ToSet
<1>4. IdsIn(ToSet(ms)) = IdsOf(m)
  BY <1>3 DEF IdsIn
<1>5. RememberAll(uiRing, ms) = RememberIds(uiRing, m)
  <2>1. /\ RememberAll(uiRing, SubSeq(ms, 1, 0)) = uiRing
        /\ \A k \in 1 .. Len(ms) :
             RememberAll(uiRing, SubSeq(ms, 1, k))
               = RememberIds(RememberAll(uiRing, SubSeq(ms, 1, k - 1)), ms[k])
        /\ RememberAll(uiRing, ms) = RememberAll(uiRing, SubSeq(ms, 1, Len(ms)))
    BY RememberAllSteps
  <2>2. 1 \in 1 .. Len(ms) /\ 1 - 1 = 0
    BY <1>2
  <2>3. RememberAll(uiRing, SubSeq(ms, 1, 1))
          = RememberIds(RememberAll(uiRing, SubSeq(ms, 1, 1 - 1)), ms[1])
    BY <2>1, <2>2
  <2> QED BY <1>2, <2>1, <2>2, <2>3
<1>6. /\ ToSet(uiRing) \cup IdsIn(ToSet(ms))
           \subseteq ToSet(RememberAll(uiRing, ms)) \cup Forgets(uiRing, ms)
      /\ ToSet(RememberAll(uiRing, ms)) \subseteq ToSet(uiRing) \cup IdsIn(ToSet(ms))
      /\ Forgets(uiRing, ms) \subseteq Ids
  BY BatchIsRemembered DEF PageTypes
<1> QED BY <1>1, <1>4, <1>5, <1>6

LEMMA FieldsHold == TypeInv => Fields
BY BoundsAssumption DEF TypeInv, TypeOK, FileOK, ProcessOK, HistoryOK, Fields

(* Nothing that could not come before may come after a step of the whole. *)
LEMMA SurfaceOnward ==
  ASSUME PageInv, PushedStamped, [SurfaceNext]_allVars
  PROVE  Onward /\ PushedStamped'
<1> USE DEF PageInv
<1>1. CASE [Next]_vars
  BY <1>1, NextOnward, StampedNext
<1>2. CASE Glance \/ Rewrite \/ Pulled \/ PersistMessages \/ EndPoll
  <2>1. UNCHANGED <<server, receiver, dropped>>
    BY <1>2 DEF Glance, Rewrite, Pulled, PersistMessages, EndPoll, Transaction, history
  <2> QED BY <2>1, MayComeFrame DEF Onward, PushedStamped, Pushed, server
<1> QED BY <1>1, <1>2, InboxStep

(* What may still come to a page that polls by itself, or be accepted by it. *)
Coming == MayCome \cup ToSet(todo)

(* The ids that it forgot of that, and those of which no message comes any more. *)
Past == forgotten \cup (Ids \ IdsIn(Coming))

LEMMA OwnOnward ==
  ASSUME PageInv, PushedStamped, mode = "own", [SurfaceNext]_allVars
  PROVE  Coming' \subseteq Coming /\ forgotten \subseteq forgotten' /\ Past \subseteq Past'
<1> USE DEF PageInv
<1>1. MayCome' \subseteq MayCome
  BY SurfaceOnward DEF Onward
<1>2. ToSet(todo') \subseteq ToSet(todo) \cup MayCome
  <2>1. CASE Pulled
    <3>1. uiWater \in Int
      BY BoundsAssumption DEF PageTypes
    <3>2. ToSet(Answer(uiWater)) \subseteq MayCome
      BY <3>1, AnswerInReach, ReachMayCome
    <3> QED BY <2>1, <3>2 DEF Pulled
  <2>2. CASE Refuse \/ Publish
    <3>1. todo # <<>> /\ todo' = Tail(todo)
      BY <2>2 DEF Refuse, Publish, At, PageTypes
    <3> QED BY <3>1, HeadAndTail DEF PageTypes
  <2>3. CASE Fail \/ Close
    <3>1. todo' = <<>>
      BY <2>3, Halted
    <3> QED BY <3>1 DEF ToSet
  <2>4. CASE UNCHANGED todo
    BY <2>4
  <2>5. ASSUME ServerStep \/ Open \/ Clear \/ ClearFails \/ Filter \/ StartPoll \/ Accept \/ SaveIds
                 \/ PersistMessages \/ EndPoll \/ UNCHANGED allVars
        PROVE  UNCHANGED todo
    BY <2>5 DEF ServerStep, Open, Clear, ClearFails, Filter, StartPoll, Accept, SaveIds,
                PersistMessages, EndPoll, allVars, surface, page
  <2> QED BY <2>1, <2>2, <2>3, <2>4, <2>5, OwnSteps
<1>3. forgotten \subseteq forgotten'
  <2>1. CASE Open \/ Refuse \/ Accept \/ PersistMessages
    BY <2>1 DEF Open, Refuse, Accept, PersistMessages, PageDrops
  <2>2. CASE Fail \/ Close
    BY <2>2, Halted
  <2>3. CASE ServerStep \/ Clear \/ ClearFails \/ Filter \/ StartPoll \/ Pulled \/ SaveIds
               \/ Publish \/ EndPoll \/ UNCHANGED allVars
    BY <2>3 DEF ServerStep, Clear, ClearFails, Filter, StartPoll, Pulled, SaveIds, Publish, EndPoll,
                allVars, surface, tracked
  <2> QED BY <2>1, <2>2, <2>3, OwnSteps
<1>4. Coming' \subseteq Coming
  BY <1>1, <1>2 DEF Coming
<1> QED BY <1>3, <1>4 DEF Past, IdsIn

(* What it forgets is past, and noted if its message may come. *)
LEMMA PageDropped ==
  ASSUME mode = "own", NEW ids, ids \subseteq Ids, PageDrops(ids), Coming' \subseteq Coming
  PROVE  Past \cup ids \subseteq Past'
<1>1. forgotten' = forgotten \cup (ids \cap IdsIn(Coming))
  BY DEF PageDrops, IdsIn, Coming
<1>2. IdsIn(Coming') \subseteq IdsIn(Coming)
  BY DEF IdsIn
<1> QED BY <1>1, <1>2 DEF Past

LEMMA ComingPast == ASSUME NEW m \in Coming PROVE IdsOf(m) \cap Past \subseteq forgotten
BY DEF Past, IdsIn

(* What a page by itself has saved is what its view had. *)
OwnFile ==
  /\ file.messages \in {{}, ToSet(saved)}
  /\ ui \in {"ids", "messages"} => Head(todo) \in ToSet(view)
  /\ ui = "off" => view = <<>> /\ unsaved = {}

(* Its ring has the ids of its view, and of the message it has in hand, but for past ones. *)
OwnRing ==
  /\ IdsIn(ToSet(view)) \subseteq ToSet(uiRing) \cup Past
  /\ ui \in {"ids", "messages", "publish"} => IdsOf(Head(todo)) \subseteq ToSet(uiRing) \cup Past

(* Before the first failure. *)
OwnFirst ==
  halts = 0 =>
    /\ unsaved = {}
    /\ ui = "off" => file.messages = {}
    /\ ui \in {"idle", "pull"} => Len(view) <= MaxMessages

(* What a page by itself opens with. *)
LEMMA OwnRestored ==
  ASSUME OwnFile, mode = "own", NEW r \in Readable
  PROVE  /\ Restored(r) \in {<<>>, saved} /\ ToSet(Restored(r)) = r.messages
<1>1. r.messages = {} \/ r.messages = ToSet(saved)
  BY DEF Readable, Empty, OwnFile
<1>2. Restored(r) = IF r.messages = {} THEN <<>> ELSE saved
  BY DEF Restored
<1>3. ToSet(<<>>) = {}
  BY DEF ToSet
<1> QED BY <1>1, <1>2, <1>3

(* The file that the page rewrites keeps the messages that were read. *)
LEMMA RewriteMessages ==
  ASSUME TypeInv, NEW r \in Readable, NEW x, file' = r \/ file' = [r EXCEPT !.seen = x]
  PROVE  file'.messages = r.messages /\ file'.messages \in {{}, file.messages}
<1>1. file'.messages = r.messages
  BY ReadableOK, OtherField
<1> QED BY <1>1 DEF Readable, Empty

LEMMA OwnFileNext ==
  ASSUME PageInv, OwnFile, mode = "own", [SurfaceNext]_allVars
  PROVE  OwnFile'
<1> USE DEF PageInv
<1>1. CASE ServerStep \/ UNCHANGED allVars
  BY <1>1 DEF ServerStep, Tick, Stamp, Push, allVars, inbox, vars, surface, page, tracked, OwnFile
<1>2. CASE Filter \/ Accept \/ SaveIds
  <2>1. PICK r \in Readable : file' = r \/ file' = [r EXCEPT !.seen = uiRing]
    BY <1>2 DEF Filter, SaveFilter, Accept, SaveIds
  <2>2. file'.messages \in {{}, file.messages} /\ UNCHANGED <<saved, todo, unsaved>>
    BY <1>2, <2>1, RewriteMessages DEF Filter, Accept, SaveIds, surface, page, tracked
  <2>3. CASE Accept
    <3>1. Head(todo) \in Records /\ view' = <<Head(todo)>> \o view /\ ui' = "ids"
      BY <2>3, HeadOK DEF Accept, At
    <3>2. ToSet(view') = {Head(todo)} \cup ToSet(view)
      BY <3>1, OnTop DEF PageTypes
    <3> QED BY <2>2, <3>1, <3>2 DEF OwnFile
  <2> QED BY <1>2, <2>2, <2>3 DEF Filter, SaveIds, At, surface, page, OwnFile
<1>3. CASE Open
  BY <1>3 DEF Open, At, tracked, OwnFile
<1>4. CASE Clear
  <2>1. PICK r \in Readable : file' = [r EXCEPT !.messages = {}]
    BY <1>4 DEF Clear, ClearMessages
  <2>2. file'.messages = {}
    BY <2>1, ReadableOK, OtherField
  <2> QED BY <1>4, <2>2 DEF Clear, Suspended, OwnFile
<1>5. CASE Fail \/ Close
  BY <1>5, Halted DEF inbox, vars, OwnFile
<1>6. CASE StartPoll \/ Pulled \/ Refuse \/ Publish \/ EndPoll
  BY <1>6 DEF StartPoll, Pulled, Refuse, Publish, EndPoll, At, ModeOK, Stands, inbox, vars, tracked,
              OwnFile
<1>7. CASE PersistMessages
  BY <1>7 DEF PersistMessages, At, OwnFile
<1>8. CASE ClearFails
  BY <1>8 DEF ClearFails, Suspended, inbox, vars, OwnFile
<1> QED BY <1>1, <1>2, <1>3, <1>4, <1>5, <1>6, <1>7, <1>8, OwnSteps

(* The ring after a message was offered to it. *)
LEMMA OwnOffered ==
  ASSUME PageTypes, mode = "own", Coming' \subseteq Coming, todo # <<>>,
         uiRing' = RememberIds(uiRing, Head(todo)), PageDrops(Forgets(uiRing, <<Head(todo)>>))
  PROVE  ToSet(uiRing) \cup IdsOf(Head(todo)) \cup Past \subseteq ToSet(uiRing') \cup Past'
<1>1. Head(todo) \in Records
  BY HeadOK
<1>2. PICK ids : ids = Forgets(uiRing, <<Head(todo)>>)
  OBVIOUS
<1>3. /\ ToSet(uiRing) \cup IdsOf(Head(todo)) \subseteq ToSet(uiRing') \cup ids
      /\ ids \subseteq Ids
  BY <1>1, <1>2, RingRemembers
<1>4. Past \cup ids \subseteq Past'
  BY <1>2, <1>3, PageDropped
<1> QED BY <1>3, <1>4

(* The ring of a page that has just been opened. *)
LEMMA OwnOpened ==
  ASSUME PageInv, mode = "own", Coming' \subseteq Coming, Open
  PROVE  \E r \in Readable :
           /\ Read(r) /\ view' = Restored(r)
           /\ ToSet(r.seen) \cup IdsIn(r.messages) \cup Past \subseteq ToSet(uiRing') \cup Past'
<1>1. PICK r \in Readable :
        Read(r) /\ view' = Restored(r) /\ uiRing' = Seeded(r) /\ PageDrops(SeedingForgets(r))
  BY DEF Open
<1>2. PICK o : o = Seeded(r)
  OBVIOUS
<1>3. PICK ids : ids = SeedingForgets(r)
  OBVIOUS
<1>4. /\ ToSet(r.seen) \cup IdsIn(r.messages) \subseteq ToSet(o) \cup ids
      /\ ids \subseteq Ids
  BY <1>1, <1>2, <1>3, SeededIsRemembered DEF PageInv
<1>5. Past \cup ids \subseteq Past'
  BY <1>1, <1>3, <1>4, PageDropped
<1> QED BY <1>1, <1>2, <1>4, <1>5

LEMMA OwnRingNext ==
  ASSUME PageInv, PushedStamped, OwnFile, OwnRing, mode = "own", [SurfaceNext]_allVars
  PROVE  OwnRing'
<1> USE DEF PageInv
<1>0. ToSet(<<>>) = {} /\ IdsIn({}) = {}
  BY DEF ToSet, IdsIn
<1>a. Coming' \subseteq Coming /\ Past \subseteq Past'
  BY OwnOnward
<1>b. ASSUME ToSet(view') \subseteq ToSet(view), UNCHANGED uiRing,
             \/ UNCHANGED <<ui, todo>>
             \/ ui' \notin {"ids", "messages", "publish"}
             \/ ui \in {"ids", "messages", "publish"} /\ UNCHANGED todo
      PROVE  OwnRing'
  BY <1>a, <1>b DEF OwnRing, IdsIn
<1>1. CASE ServerStep \/ Filter \/ UNCHANGED allVars
  BY <1>b, <1>1 DEF ServerStep, Filter, allVars, surface, page
<1>2. CASE Open
  <2>1. PICK r \in Readable :
          /\ view' = Restored(r)
          /\ IdsIn(r.messages) \subseteq ToSet(uiRing') \cup Past'
    BY <1>a, <1>2, OwnOpened
  <2>2. ToSet(view') = r.messages
    BY <2>1, OwnRestored
  <2> QED BY <1>2, <2>1, <2>2 DEF Open, At, OwnRing
<1>3. CASE Clear \/ ClearFails
  <2>1. view' = <<>> /\ UNCHANGED <<ui, uiRing, todo>>
    BY <1>3 DEF Clear, ClearFails
  <2> QED BY <1>0, <1>b, <2>1
<1>4. CASE Fail \/ Close
  <2>1. ui' \in {"idle", "off"} /\ (view' = <<>> \/ UNCHANGED <<view, uiRing>>)
    BY <1>4, Halted
  <2> QED BY <1>0, <1>a, <2>1 DEF OwnRing
<1>5. CASE StartPoll \/ Pulled \/ SaveIds \/ PersistMessages
  BY <1>b, <1>5 DEF StartPoll, Pulled, SaveIds, PersistMessages, At
<1>6. CASE Refuse
  <2>1. /\ ui' = ui /\ ui \in {"accept", "present"} /\ view' = view /\ todo # <<>>
        /\ uiRing' = RememberIds(uiRing, Head(todo)) /\ PageDrops(Forgets(uiRing, <<Head(todo)>>))
    BY <1>6 DEF Refuse
  <2>2. ToSet(uiRing) \cup Past \subseteq ToSet(uiRing') \cup Past'
    BY <1>a, <2>1, OwnOffered
  <2> QED BY <2>1, <2>2 DEF OwnRing
<1>7. CASE Accept
  <2>1. /\ todo' = todo /\ todo # <<>> /\ view' = <<Head(todo)>> \o view
        /\ uiRing' = RememberIds(uiRing, Head(todo)) /\ PageDrops(Forgets(uiRing, <<Head(todo)>>))
    BY <1>7 DEF Accept
  <2>2. ToSet(uiRing) \cup IdsOf(Head(todo)) \cup Past \subseteq ToSet(uiRing') \cup Past'
    BY <1>a, <2>1, OwnOffered
  <2>3. ToSet(view') = {Head(todo)} \cup ToSet(view)
    BY <2>1, HeadOK, OnTop DEF PageTypes
  <2>4. IdsIn(ToSet(view')) \subseteq ToSet(uiRing') \cup Past'
    BY <2>2, <2>3 DEF OwnRing, IdsIn
  <2> QED BY <2>1, <2>2, <2>4 DEF OwnRing
<1>8. CASE Publish
  BY <1>b, <1>8 DEF Publish, At
<1>9. CASE EndPoll
  <2>1. ToSet(view') \subseteq ToSet(view)
    BY <1>9, ShortenOK DEF EndPoll, PageTypes
  <2> QED BY <1>b, <1>9, <2>1 DEF EndPoll, At
<1> QED BY <1>1, <1>2, <1>3, <1>4, <1>5, <1>6, <1>7, <1>8, <1>9, OwnSteps

LEMMA OwnFirstNext ==
  ASSUME PageInv, OwnFirst, mode = "own", [SurfaceNext]_allVars
  PROVE  OwnFirst'
<1> USE DEF PageInv
<1>1. CASE ServerStep \/ UNCHANGED allVars
  BY <1>1 DEF ServerStep, Tick, Stamp, Push, allVars, inbox, vars, surface, tracked, page, OwnFirst
<1>2. CASE Filter
  <2>1. PICK r \in Readable : file' = r
    BY <1>2 DEF Filter, SaveFilter
  <2>2. file'.messages \in {{}, file.messages}
    BY <2>1, RewriteMessages
  <2> QED BY <1>2, <2>2 DEF Filter, surface, tracked, page, OwnFirst
<1>3. CASE Open
  <2>1. PICK r \in Readable : view' = Restored(r)
    BY <1>3 DEF Open
  <2>2. Len(view') <= MaxMessages
    BY <2>1, RestoredOK DEF PageTypes
  <2> QED BY <1>3, <2>2 DEF Open, At, tracked, OwnFirst
<1>4. CASE Clear
  <2>1. Len(<<>>) <= MaxMessages
    BY BoundsAssumption
  <2> QED BY <1>4, <2>1 DEF Clear, Suspended, OwnFirst
<1>5. CASE Fail \/ Close
  <2>1. halts' = halts + 1 /\ halts \in Nat
    BY <1>5, Halted DEF CallTypes
  <2> QED BY <2>1 DEF OwnFirst
<1>6. CASE StartPoll \/ Pulled \/ Refuse \/ Publish
  BY <1>6 DEF StartPoll, Pulled, Refuse, Publish, At, inbox, vars, tracked, OwnFirst
<1>7. CASE Accept \/ SaveIds \/ PersistMessages
  BY <1>7 DEF Accept, SaveIds, PersistMessages, At, tracked, OwnFirst
<1>8. CASE EndPoll
  <2>1. Len(view') <= MaxMessages
    BY <1>8, ShortenOK, BoundsAssumption DEF EndPoll, PageTypes
  <2> QED BY <1>8, <2>1 DEF EndPoll, At, tracked, OwnFirst
<1>9. CASE ClearFails
  BY <1>9 DEF ClearFails, CallTypes, OwnFirst
<1> QED BY <1>1, <1>2, <1>3, <1>4, <1>5, <1>6, <1>7, <1>8, <1>9, OwnSteps

(* A transaction of the page in a run without a failed read. *)
LEMMA PageRead ==
  ASSUME TypeInv, NEW r \in Readable, Read(r), failures' = 0
  PROVE  failures = 0 /\ r = file
BY FieldsHold, ReadIsFile

LEMMA SeenAfter ==
  ASSUME TypeInv, NEW r \in Readable, NEW x
  PROVE  /\ file' = r => Seen' = ToSet(r.seen) /\ file'.messages = r.messages
         /\ file' = [r EXCEPT !.seen = x] => Seen' = ToSet(x) /\ file'.messages = r.messages
         /\ file' = [r EXCEPT !.messages = x] => Seen' = ToSet(r.seen) /\ file'.messages = x
BY ReadableOK, OtherField DEF Seen

(* What the page saves... *)
LEMMA Persisted ==
  ASSUME PageInv, PersistMessages
  PROVE  /\ file'.messages = ToSet(Shorten(view))
         /\ file'.messages \subseteq ToSet(view)
         /\ recorded' = recorded \cup file'.messages
         /\ trimmed' = trimmed \cup (ToSet(view) \ file'.messages)
         /\ failures' = 0 => failures = 0
<1>1. PICK r \in Readable, kept \in {Shorten(view)} :
        /\ kept = Shorten(view) /\ Read(r)
        /\ file' = [messages |-> ToSet(kept), seen |-> RememberAll(r.seen, Reverse(kept))]
        /\ recorded' = recorded \cup ToSet(kept)
        /\ trimmed' = trimmed \cup (ToSet(view) \ ToSet(kept))
  BY DEF PersistMessages
<1>2. file'.messages = ToSet(kept) /\ ToSet(kept) \subseteq ToSet(view)
  BY <1>1, ShortenOK DEF PageInv, PageTypes
<1>3. failures' = 0 => failures = 0
  BY <1>1, PageRead DEF PageInv
<1> QED BY <1>1, <1>2, <1>3

(* What is in the view is in the file, or the poll failed before it was saved, or it has
   been left out; what is in the file is in the view, or has been left out since, or hidden by
   a clear that failed.                                                                 *)
InHandNow == IF ui \in {"ids", "messages"} THEN {Head(todo)} ELSE {}

OwnView ==
  failures = 0 =>
    /\ ui \notin {"off", "ids", "messages"} /\ unsaved = {} =>
         /\ ToSet(Shorten(view)) \subseteq file.messages
         /\ file.messages \subseteq ToSet(Shorten(view)) \cup hidden
    /\ ToSet(view) \subseteq file.messages \cup unsaved \cup trimmed \cup InHandNow
    /\ ui # "off" => file.messages \subseteq ToSet(view) \cup trimmed \cup hidden

LEMMA OwnViewNext ==
  ASSUME PageInv, OwnFile, OwnView, mode = "own", [SurfaceNext]_allVars
  PROVE  OwnView'
<1> SUFFICES ASSUME failures' = 0 PROVE OwnView'
  BY DEF OwnView
<1> USE DEF PageInv
<1>0. ToSet(<<>>) = {}
  BY DEF ToSet
<1>1. CASE ServerStep \/ UNCHANGED allVars
  BY <1>1 DEF ServerStep, Tick, Stamp, Push, allVars, inbox, vars, bounds, history, surface, page,
              tracked, OwnView, InHandNow, Shorten
<1>2. CASE Filter
  <2>1. PICK r \in Readable : Read(r) /\ file' = r
    BY <1>2 DEF Filter, SaveFilter
  <2>2. failures = 0 /\ file' = file /\ UNCHANGED <<ui, view, todo, unsaved, trimmed, hidden>>
    BY <1>2, <2>1, PageRead DEF Filter, SaveFilter, surface, page, tracked, history
  <2> QED BY <2>2 DEF OwnView, InHandNow, Shorten
<1>3. CASE Open
  <2>1. PICK r \in Readable : Read(r) /\ view' = Restored(r)
    BY <1>3 DEF Open
  <2>2. failures = 0 /\ r = file /\ UNCHANGED <<file, trimmed>> /\ ui' = "idle"
    BY <1>3, <2>1, PageRead DEF Open, At
  <2>3. ToSet(view') = file.messages
    BY <2>1, <2>2, OwnRestored
  <2>4. view' \in Seq(Records) /\ Len(view') <= MaxMessages
    BY <2>1, RestoredOK DEF PageTypes
  <2>5. PICK s \in Seq(Records) : s = view'
    BY <2>4
  <2>6. Shorten(s) = s
    BY <2>4, <2>5, ShortenOK
  <2>7. Shorten(view') = view'
    BY <2>5, <2>6
  <2>8. (Shorten(view))' = view'
    BY <2>7 DEF Shorten
  <2> QED BY <2>2, <2>3, <2>8 DEF OwnView
<1>4. CASE Clear
  <2>1. PICK r \in Readable : Read(r) /\ file' = [r EXCEPT !.messages = {}]
    BY <1>4 DEF Clear, ClearMessages
  <2>2. view' = <<>> /\ file'.messages = {}
    BY <1>4, <2>1, SeenAfter DEF Clear
  <2>3. <<>> \in Seq(Records) /\ Len(<<>>) <= MaxMessages
    BY BoundsAssumption
  <2>4. Shorten(<<>>) = <<>>
    BY <2>3, ShortenOK
  <2>5. (Shorten(view))' = <<>>
    BY <2>2, <2>4 DEF Shorten
  <2> QED BY <1>0, <2>2, <2>5 DEF OwnView
<1>5. CASE Fail \/ Close
  <2>1. UNCHANGED <<file, failures, trimmed, hidden>> /\ ui # "off"
    BY <1>5, Halted DEF inbox, vars, bounds, history, Fail, Close
  <2>2. CASE ui' = "off"
    BY <1>0, <1>5, <2>1, <2>2, Halted DEF OwnView
  <2>3. CASE ui' = "idle"
    BY <1>5, <2>1, <2>3, Halted DEF OwnView, InHandNow, Shorten
  <2> QED BY <1>5, <2>2, <2>3, Halted
<1>6. CASE StartPoll \/ Pulled \/ Refuse \/ Publish
  BY <1>6 DEF StartPoll, Pulled, Refuse, Publish, At, ModeOK, Stands, inbox, vars, bounds, history,
              tracked, OwnView, InHandNow, Shorten
<1>7. CASE Accept
  <2>1. PICK r \in Readable : Read(r) /\ file' = r
    BY <1>7 DEF Accept
  <2>2. /\ failures = 0 /\ file' = file /\ UNCHANGED <<trimmed, unsaved, todo, hidden>>
        /\ ui = "accept" /\ ui' = "ids"
    BY <1>7, <2>1, PageRead DEF Accept, At, tracked
  <2>3. Head(todo) \in Records /\ view' = <<Head(todo)>> \o view
    BY <1>7, HeadOK DEF Accept
  <2>4. ToSet(view') = {Head(todo)} \cup ToSet(view)
    BY <2>3, OnTop DEF PageTypes
  <2> QED BY <2>2, <2>4 DEF OwnView, InHandNow
<1>8. CASE SaveIds
  <2>1. PICK r \in Readable : Read(r) /\ file' = [r EXCEPT !.seen = uiRing]
    BY <1>8 DEF SaveIds
  <2>2. failures = 0 /\ r = file
    BY <2>1, PageRead
  <2>3. file'.messages = file.messages
    BY <2>1, <2>2, SeenAfter
  <2> QED BY <1>8, <2>2, <2>3 DEF SaveIds, At, tracked, OwnView, InHandNow
<1>9. CASE PersistMessages
  <2>1. /\ failures = 0 /\ file'.messages = ToSet(Shorten(view))
        /\ file'.messages \subseteq ToSet(view)
        /\ trimmed' = trimmed \cup (ToSet(view) \ file'.messages)
    BY <1>9, Persisted
  <2>2. view' = view /\ (Shorten(view))' = Shorten(view)
    BY <1>9 DEF PersistMessages, Shorten
  <2> QED BY <2>1, <2>2 DEF OwnView
<1>10. CASE EndPoll
  <2>1. /\ failures = 0 /\ UNCHANGED <<file, unsaved, hidden>> /\ ui = "accept" /\ ui' = "idle"
        /\ view' = Shorten(view) /\ trimmed' = trimmed \cup (ToSet(view) \ ToSet(view'))
    BY <1>10 DEF EndPoll, At, bounds, tracked
  <2>2. ToSet(view') \subseteq ToSet(view) /\ view' \in Seq(Records) /\ Len(view') <= MaxMessages
    BY <2>1, ShortenOK, BoundsAssumption DEF PageTypes
  <2>3. PICK s \in Seq(Records) : s = view'
    BY <2>2
  <2>4. Shorten(s) = s
    BY <2>2, <2>3, ShortenOK
  <2>5. (Shorten(view))' = view'
    BY <2>3, <2>4 DEF Shorten
  <2> QED BY <2>1, <2>2, <2>5 DEF OwnView, InHandNow
<1>11. CASE ClearFails
  <2>1. /\ view' = <<>> /\ UNCHANGED <<ui, file, failures, trimmed>>
        /\ hidden' = hidden \cup file.messages
    BY <1>11 DEF ClearFails, inbox, vars, bounds, history
  <2>2. <<>> \in Seq(Records) /\ Len(<<>>) <= MaxMessages
    BY BoundsAssumption
  <2>3. Shorten(<<>>) = <<>>
    BY <2>2, ShortenOK
  <2>4. (Shorten(view))' = <<>>
    BY <2>1, <2>3 DEF Shorten
  <2> QED BY <1>0, <2>1, <2>4 DEF OwnView
<1> QED BY <1>1, <1>2, <1>3, <1>4, <1>5, <1>6, <1>7, <1>8, <1>9, <1>10, <1>11, OwnSteps

(* Between its polls a page that polls by itself shows the history and nothing else, but
   for what a failed poll leaves in its view and what a failed clear hides from it.     *)
THEOREM InStepHolds == SurfaceSpec => []InStep
<1> DEFINE Inv == PageInv /\ (mode = "own" => OwnFile /\ OwnFirst /\ OwnView)
<1>1. Inv => InStep
  <2> SUFFICES ASSUME Inv, mode = "own", ui = "idle", failures = 0
               PROVE  /\ unsaved = {} => file.messages \subseteq ToSet(view) \cup hidden
                      /\ ToSet(view) \subseteq
                           file.messages \cup unsaved \cup (IF halts = 0 THEN {} ELSE trimmed)
    BY DEF InStep
  <2>1. view \in Seq(Records)
    BY DEF PageInv, PageTypes
  <2>2. /\ unsaved = {} => /\ ToSet(Shorten(view)) \subseteq file.messages
                           /\ file.messages \subseteq ToSet(Shorten(view)) \cup hidden
        /\ ToSet(view) \subseteq file.messages \cup unsaved \cup trimmed
        /\ halts = 0 => unsaved = {} /\ Len(view) <= MaxMessages
    BY DEF OwnView, InHandNow, OwnFirst
  <2>3. ToSet(Shorten(view)) \subseteq ToSet(view) /\ (Len(view) <= MaxMessages => Shorten(view) = view)
    BY <2>1, ShortenOK
  <2> QED BY <2>2, <2>3
<1>2. SurfaceInit => Inv
  <2> SUFFICES ASSUME SurfaceInit PROVE OwnFile /\ OwnFirst /\ OwnView
    BY PageInit
  <2>1. ToSet(<<>>) = {}
    BY DEF ToSet
  <2> QED BY <2>1 DEF SurfaceInit, Init, Empty, OwnFile, OwnFirst, OwnView
<1>3. Inv /\ [SurfaceNext]_allVars => Inv'
  BY PageNext, ModeSame, OwnFileNext, OwnFirstNext, OwnViewNext
<1> QED BY <1>1, <1>2, <1>3, PTL DEF SurfaceSpec

(***************************************************************************)
(* What such a page publishes.                                             *)
(***************************************************************************)
(* What it remembers of what it saves. *)
LEMMA PersistedSeen ==
  ASSUME PageInv, mode = "own", Coming' \subseteq Coming, PersistMessages, failures' = 0
  PROVE  /\ Seen \cup IdsIn(file'.messages) \subseteq Seen' \cup Past'
         /\ Seen' \subseteq Seen \cup IdsIn(file'.messages)
<1>1. PICK r \in Readable, kept \in {Shorten(view)} :
        /\ kept = Shorten(view) /\ Read(r)
        /\ file' = [messages |-> ToSet(kept), seen |-> RememberAll(r.seen, Reverse(kept))]
        /\ PageDrops(Forgets(r.seen, Reverse(kept)))
  BY DEF PersistMessages
<1>2. PICK o : o = RememberAll(r.seen, Reverse(kept))
  OBVIOUS
<1>3. PICK ids : ids = Forgets(r.seen, Reverse(kept))
  OBVIOUS
<1>4. file'.messages = ToSet(kept) /\ Seen' = ToSet(o)
  BY <1>1, <1>2 DEF Seen
<1>5. kept \in Seq(Records)
  BY <1>1, ShortenOK DEF PageInv, PageTypes
<1>6. Reverse(kept) \in Seq(Records) /\ ToSet(Reverse(kept)) = ToSet(kept)
  BY <1>5, ReverseOK
<1>7. r.seen \in RingOf(Ids)
  BY ReadableOK DEF PageInv
<1>8. /\ ToSet(r.seen) \cup IdsIn(ToSet(kept)) \subseteq ToSet(o) \cup ids
      /\ ToSet(o) \subseteq ToSet(r.seen) \cup IdsIn(ToSet(kept))
      /\ ids \subseteq Ids
  BY <1>2, <1>3, <1>6, <1>7, BatchIsRemembered
<1>9. r = file
  BY <1>1, PageRead DEF PageInv
<1>10. ids \subseteq Past'
  BY <1>1, <1>3, <1>8, PageDropped
<1> QED BY <1>4, <1>8, <1>9, <1>10 DEF Seen

(* Its ring has the seen ids, these have those of the history and of what was cleared, but
   for past ones; a message that came back after a clear had its ids forgotten.           *)
OwnSeen ==
  failures = 0 =>
    /\ ui # "off" => Seen \subseteq ToSet(uiRing) \cup Past
    /\ IdsIn(file.messages \cup cleared) \subseteq Seen \cup Past
    /\ \A m \in cleared \cap (file.messages \cup ToSet(view)) : IdsOf(m) \subseteq forgotten

LEMMA OwnSeenNext ==
  ASSUME PageInv, PushedStamped, OwnFile, OwnRing, OwnSeen, mode = "own", [SurfaceNext]_allVars,
         failures' = 0
  PROVE  /\ failures = 0 /\ Seen \subseteq Seen' \cup Past'
         /\ OwnSeen'
<1> USE DEF PageInv
<1>a. Coming' \subseteq Coming /\ forgotten \subseteq forgotten' /\ Past \subseteq Past'
  BY OwnOnward
<1>b. ToSet(<<>>) = {}
  BY DEF ToSet
<1>c. ASSUME UNCHANGED <<file, failures, cleared>>, ToSet(view') \subseteq ToSet(view),
             \/ ui' = "off"
             \/ ui # "off" /\ ToSet(uiRing) \cup Past \subseteq ToSet(uiRing') \cup Past'
             \/ UNCHANGED <<ui, uiRing>>
      PROVE  failures = 0 /\ Seen \subseteq Seen' \cup Past' /\ OwnSeen'
  <2>1. Seen' = Seen /\ failures = 0
    BY <1>c DEF Seen
  <2>2. ui' # "off" => Seen' \subseteq ToSet(uiRing') \cup Past'
    BY <1>a, <1>c, <2>1 DEF OwnSeen
  <2>3. IdsIn(file'.messages \cup cleared') \subseteq Seen' \cup Past'
    BY <1>a, <1>c, <2>1 DEF OwnSeen
  <2>4. \A m \in cleared' \cap (file'.messages \cup ToSet(view')) : IdsOf(m) \subseteq forgotten'
    BY <1>a, <1>c, <2>1 DEF OwnSeen
  <2> QED BY <2>1, <2>2, <2>3, <2>4 DEF OwnSeen
<1>1. CASE ServerStep \/ UNCHANGED allVars
  BY <1>1, <1>c DEF ServerStep, Tick, Stamp, Push, allVars, inbox, vars, bounds, history, surface,
              page
<1>2. CASE Filter
  <2>1. PICK r \in Readable : Read(r) /\ file' = r
    BY <1>2 DEF Filter, SaveFilter
  <2>2. failures = 0 /\ file' = file /\ UNCHANGED <<ui, view, uiRing, cleared>>
    BY <1>2, <2>1, PageRead DEF Filter, SaveFilter, surface, page, history
  <2> QED BY <1>c, <2>2
<1>3. CASE Open
  <2>1. PICK r \in Readable :
          /\ Read(r) /\ view' = Restored(r)
          /\ ToSet(r.seen) \cup IdsIn(r.messages) \cup Past \subseteq ToSet(uiRing') \cup Past'
    BY <1>a, <1>3, OwnOpened
  <2>2. failures = 0 /\ r = file /\ UNCHANGED <<file, cleared>>
    BY <1>3, <2>1, PageRead DEF Open, Transaction
  <2>3. ToSet(view') = file.messages
    BY <2>1, <2>2, OwnRestored
  <2> QED BY <1>a, <2>1, <2>2, <2>3 DEF OwnSeen, Seen
<1>4. CASE Clear
  <2>1. PICK r \in Readable : Read(r) /\ file' = [r EXCEPT !.messages = {}]
    BY <1>4 DEF Clear, ClearMessages
  <2>2. /\ failures = 0 /\ r = file /\ cleared' = cleared \cup file.messages
        /\ view' = <<>> /\ UNCHANGED <<ui, uiRing>>
    BY <1>4, <2>1, PageRead DEF Clear, ClearMessages
  <2>3. Seen' = Seen /\ file'.messages = {}
    BY <2>1, <2>2, SeenAfter DEF Seen
  <2>4. IdsIn(file'.messages \cup cleared') = IdsIn(file.messages \cup cleared)
    BY <2>2, <2>3 DEF IdsIn
  <2>5. (file'.messages \cup ToSet(view')) \cap cleared' = {}
    BY <1>b, <2>2, <2>3
  <2>6. /\ ui # "off" => Seen \subseteq ToSet(uiRing) \cup Past
        /\ IdsIn(file.messages \cup cleared) \subseteq Seen \cup Past
    BY <2>2 DEF OwnSeen
  <2> QED BY <1>a, <2>2, <2>3, <2>4, <2>5, <2>6 DEF OwnSeen
<1>5. CASE ClearFails
  <2>1. view' = <<>> /\ UNCHANGED <<ui, uiRing, file, failures, cleared>>
    BY <1>5 DEF ClearFails, inbox, vars, bounds, history
  <2> QED BY <1>b, <1>c, <2>1
<1>6. CASE Fail \/ Close
  <2>1. /\ UNCHANGED <<file, failures, cleared>>
        /\ ui' = "off" \/ UNCHANGED uiRing
        /\ view' = view \/ view' = <<>>
        /\ ui # "off"
    BY <1>6, Halted DEF inbox, vars, bounds, history, Fail, Close
  <2> QED BY <1>a, <1>b, <1>c, <2>1
<1>7. CASE StartPoll \/ Pulled \/ Publish
  <2>1. UNCHANGED <<file, failures, cleared, view, uiRing>> /\ ui # "off"
    BY <1>7 DEF StartPoll, Pulled, Publish, At, inbox, vars, bounds, history
  <2> QED BY <1>a, <1>c, <2>1
<1>8. CASE Refuse
  <2>1. /\ todo # <<>> /\ UNCHANGED <<file, failures, cleared, view>> /\ ui # "off"
        /\ uiRing' = RememberIds(uiRing, Head(todo)) /\ PageDrops(Forgets(uiRing, <<Head(todo)>>))
    BY <1>8 DEF Refuse, inbox, vars, bounds, history
  <2>2. ToSet(uiRing) \cup Past \subseteq ToSet(uiRing') \cup Past'
    BY <1>a, <2>1, OwnOffered
  <2> QED BY <1>c, <2>1, <2>2
<1>9. CASE Accept
  <2>1. PICK r \in Readable : Read(r) /\ file' = r
    BY <1>9 DEF Accept
  <2>2. failures = 0 /\ file' = file /\ UNCHANGED cleared
    BY <1>9, <2>1, PageRead DEF Accept, Transaction
  <2>3. /\ todo # <<>> /\ view' = <<Head(todo)>> \o view /\ ui # "off"
        /\ IdsOf(Head(todo)) \cap ToSet(uiRing) = {}
        /\ uiRing' = RememberIds(uiRing, Head(todo)) /\ PageDrops(Forgets(uiRing, <<Head(todo)>>))
    BY <1>9 DEF Accept, Duplicate, At
  <2>4. ToSet(uiRing) \cup Past \subseteq ToSet(uiRing') \cup Past'
    BY <1>a, <2>3, OwnOffered
  <2>5. ToSet(view') = {Head(todo)} \cup ToSet(view) /\ Head(todo) \in ToSet(todo)
    BY <2>3, HeadOK, HeadAndTail, OnTop DEF PageTypes
  <2>6. Head(todo) \in cleared => IdsOf(Head(todo)) \subseteq forgotten
    <3>1. Head(todo) \in Coming
      BY <2>5 DEF Coming
    <3>2. IdsOf(Head(todo)) \cap Past \subseteq forgotten
      BY <3>1, ComingPast
    <3>3. Head(todo) \in cleared => IdsOf(Head(todo)) \subseteq ToSet(uiRing) \cup Past
      BY <2>2, <2>3 DEF OwnSeen, IdsIn
    <3> QED BY <2>3, <3>2, <3>3
  <2>7. \A m \in cleared' \cap (file'.messages \cup ToSet(view')) : IdsOf(m) \subseteq forgotten'
    BY <1>a, <2>2, <2>5, <2>6 DEF OwnSeen
  <2>8. /\ Seen' = Seen /\ Seen \subseteq ToSet(uiRing) \cup Past
        /\ IdsIn(file'.messages \cup cleared') \subseteq Seen \cup Past
    BY <2>2, <2>3 DEF OwnSeen, Seen
  <2> QED BY <1>a, <2>2, <2>4, <2>7, <2>8 DEF OwnSeen
<1>10. CASE SaveIds
  <2>1. PICK r \in Readable : Read(r) /\ file' = [r EXCEPT !.seen = uiRing]
    BY <1>10 DEF SaveIds
  <2>2. failures = 0 /\ r = file /\ UNCHANGED <<cleared, view, uiRing>> /\ ui # "off"
    BY <1>10, <2>1, PageRead DEF SaveIds, Transaction, At
  <2>3. Seen' = ToSet(uiRing) /\ file'.messages = file.messages
    BY <2>1, <2>2, SeenAfter
  <2>4. Seen \subseteq ToSet(uiRing) \cup Past
    BY <2>2 DEF OwnSeen
  <2>5. \A m \in cleared' \cap (file'.messages \cup ToSet(view')) : IdsOf(m) \subseteq forgotten'
    BY <1>a, <2>2, <2>3 DEF OwnSeen
  <2>6. IdsIn(file'.messages \cup cleared') \subseteq Seen \cup Past
    BY <2>2, <2>3 DEF OwnSeen
  <2> QED BY <1>a, <2>2, <2>3, <2>4, <2>5, <2>6 DEF OwnSeen
<1>11. CASE PersistMessages
  <2>1. /\ failures = 0 /\ file'.messages \subseteq ToSet(view)
        /\ Seen \cup IdsIn(file'.messages) \subseteq Seen' \cup Past'
        /\ Seen' \subseteq Seen \cup IdsIn(file'.messages)
    BY <1>a, <1>11, Persisted, PersistedSeen
  <2>2. UNCHANGED <<cleared, view, uiRing>> /\ ui # "off"
    BY <1>11 DEF PersistMessages, Transaction, At
  <2>3. IdsIn(file'.messages) \subseteq ToSet(uiRing) \cup Past
    BY <2>1 DEF OwnRing, IdsIn
  <2>4. /\ Seen \subseteq ToSet(uiRing) \cup Past /\ IdsIn(cleared) \subseteq Seen \cup Past
        /\ \A m \in cleared \cap ToSet(view) : IdsOf(m) \subseteq forgotten
    BY <2>1, <2>2 DEF OwnSeen, IdsIn
  <2>5. IdsIn(file'.messages \cup cleared') \subseteq Seen' \cup Past'
    BY <1>a, <2>1, <2>2, <2>4 DEF IdsIn
  <2>6. Seen' \subseteq ToSet(uiRing) \cup Past
    BY <2>1, <2>3, <2>4
  <2>7. \A m \in cleared' \cap (file'.messages \cup ToSet(view')) : IdsOf(m) \subseteq forgotten'
    BY <1>a, <2>1, <2>2, <2>4
  <2> QED BY <1>a, <2>1, <2>2, <2>5, <2>6, <2>7 DEF OwnSeen
<1>12. CASE EndPoll
  <2>1. ToSet(view') \subseteq ToSet(view)
    BY <1>12, ShortenOK DEF EndPoll, PageTypes
  <2>2. UNCHANGED <<file, failures, cleared, uiRing>> /\ ui # "off"
    BY <1>12 DEF EndPoll, At, bounds
  <2> QED BY <1>a, <1>c, <2>1, <2>2
<1> QED BY <1>1, <1>2, <1>3, <1>4, <1>5, <1>6, <1>7, <1>8, <1>9, <1>10, <1>11, <1>12, OwnSteps

(* Where a message is, or was, that the page has published. *)
Kept == file.messages \cup cleared \cup trimmed \cup hidden

LEMMA OwnKeeps ==
  ASSUME PageInv, PushedStamped, OwnFile, OwnRing, OwnSeen, OwnView, mode = "own",
         [SurfaceNext]_allVars, failures' = 0
  PROVE  /\ failures = 0 /\ Seen \subseteq Seen' \cup Past' /\ Past \subseteq Past'
         /\ forgotten \subseteq forgotten' /\ Kept \subseteq Kept'
<1> USE DEF PageInv
<1>a. /\ failures = 0 /\ Seen \subseteq Seen' \cup Past' /\ Past \subseteq Past'
      /\ forgotten \subseteq forgotten'
  BY OwnSeenNext, OwnOnward
<1> SUFFICES Kept \subseteq Kept'
  BY <1>a
<1>1. CASE ServerStep \/ UNCHANGED allVars
  BY <1>1 DEF ServerStep, Tick, Stamp, Push, allVars, inbox, vars, history, surface, tracked, Kept
<1>2. CASE Filter \/ Accept
  <2>1. PICK r \in Readable : Read(r) /\ file' = r
    BY <1>2 DEF Filter, SaveFilter, Accept
  <2>2. file' = file /\ UNCHANGED <<cleared, trimmed, hidden>>
    BY <1>2, <2>1, PageRead DEF Filter, SaveFilter, Accept, Transaction, history, surface, tracked
  <2> QED BY <2>2 DEF Kept
<1>3. CASE Open
  <2>1. PICK r \in Readable : Read(r) /\ hidden' = hidden \ r.messages
    BY <1>3 DEF Open
  <2>2. r = file /\ UNCHANGED <<file, cleared, trimmed>>
    BY <1>3, <2>1, PageRead DEF Open, Transaction
  <2> QED BY <2>1, <2>2 DEF Kept
<1>4. CASE Clear
  <2>1. PICK r \in Readable : Read(r) /\ file' = [r EXCEPT !.messages = {}]
    BY <1>4 DEF Clear, ClearMessages
  <2>2. cleared' = cleared \cup file.messages /\ UNCHANGED <<trimmed, hidden>>
    BY <1>4 DEF Clear, ClearMessages
  <2> QED BY <2>2 DEF Kept
<1>5. CASE ClearFails \/ Fail \/ Close
  BY <1>5, Halted DEF ClearFails, inbox, vars, history, Kept
<1>6. CASE StartPoll \/ Pulled \/ Refuse \/ Publish \/ EndPoll
  BY <1>6 DEF StartPoll, Pulled, Refuse, Publish, EndPoll, inbox, vars, history, tracked, Kept
<1>7. CASE SaveIds
  <2>1. PICK r \in Readable : Read(r) /\ file' = [r EXCEPT !.seen = uiRing]
    BY <1>7 DEF SaveIds
  <2>2. r = file /\ UNCHANGED <<cleared, trimmed, hidden>>
    BY <1>7, <2>1, PageRead DEF SaveIds, Transaction, tracked
  <2>3. file'.messages = file.messages
    BY <2>1, <2>2, SeenAfter
  <2> QED BY <2>2, <2>3 DEF Kept
<1>8. CASE PersistMessages
  <2>1. trimmed' = trimmed \cup (ToSet(view) \ file'.messages)
    BY <1>8, Persisted
  <2>2. UNCHANGED <<cleared, hidden>> /\ ui # "off"
    BY <1>8 DEF PersistMessages, Transaction, At
  <2>3. file.messages \subseteq ToSet(view) \cup trimmed \cup hidden
    BY <1>a, <2>2 DEF OwnView
  <2> QED BY <2>1, <2>2, <2>3 DEF Kept
<1> QED BY <1>a, <1>1, <1>2, <1>3, <1>4, <1>5, <1>6, <1>7, <1>8, OwnSteps

(* An id of both has been forgotten. *)
Common(m, n) == IdsOf(m) \cap IdsOf(n) \cap forgotten # {}

(* What was published is among the seen ids and in the history, or has been taken out of
   it; and what is to be published shares no id with it that was not forgotten.         *)
OwnShown ==
  failures = 0 =>
    /\ \A m \in Messages : shown[m] > 0 => IdsOf(m) \subseteq Seen \cup Past /\ m \in Kept
    /\ ui \in {"ids", "messages", "publish"} =>
         \A n \in Messages : SameIds(Head(todo), n) => shown[n] = 0 \/ Common(Head(todo), n)
    /\ ui \in {"messages", "publish"} => IdsOf(Head(todo)) \subseteq Seen \cup Past
    /\ ui = "publish" => Head(todo) \in Kept
    /\ \A m \in Messages : shown[m] <= 1 \/ Common(m, m)
    /\ \A m, n \in Messages :
         m # n /\ SameIds(m, n) => shown[m] = 0 \/ shown[n] = 0 \/ Common(m, n)

LEMMA OwnShownNext ==
  ASSUME PageInv, PushedStamped, OwnFile, OwnRing, OwnSeen, OwnView, OwnShown, mode = "own",
         [SurfaceNext]_allVars
  PROVE  OwnShown'
<1> SUFFICES ASSUME failures' = 0 PROVE OwnShown'
  BY DEF OwnShown
<1> USE DEF PageInv
<1>0. /\ failures = 0 /\ Seen \subseteq Seen' \cup Past' /\ Past \subseteq Past'
      /\ forgotten \subseteq forgotten' /\ Kept \subseteq Kept'
  BY OwnKeeps
<1>a. \A m, n : Common(m, n) => Common(m, n)'
  BY <1>0 DEF Common
<1>b. ASSUME shown' = shown
      PROVE  /\ \A m \in Messages : shown'[m] > 0 => IdsOf(m) \subseteq Seen' \cup Past' /\ m \in Kept'
             /\ \A m \in Messages : shown'[m] <= 1 \/ Common(m, m)'
             /\ \A m, n \in Messages :
                  m # n /\ SameIds(m, n) => shown'[m] = 0 \/ shown'[n] = 0 \/ Common(m, n)'
  BY <1>0, <1>a, <1>b DEF OwnShown
<1>1. CASE /\ shown' = shown
           /\ UNCHANGED <<ui, todo>> \/ ui' \notin {"ids", "messages", "publish"}
  BY <1>0, <1>1, <1>a, <1>b DEF OwnShown
<1>2. CASE ServerStep \/ UNCHANGED allVars \/ Filter
  BY <1>1, <1>2 DEF ServerStep, Filter, allVars, surface, page, tracked
<1>3. CASE Open \/ Clear \/ ClearFails \/ StartPoll \/ Pulled \/ Refuse \/ EndPoll
  BY <1>1, <1>3 DEF Open, Clear, ClearFails, StartPoll, Pulled, Refuse, EndPoll, At, tracked, ModeOK,
                    Stands
<1>4. CASE Fail \/ Close
  BY <1>1, <1>4, Halted
<1>5. CASE Accept
  <2>1. /\ shown' = shown /\ todo' = todo /\ ui' = "ids" /\ ui # "off" /\ todo # <<>>
        /\ IdsOf(Head(todo)) \cap ToSet(uiRing) = {}
    BY <1>5 DEF Accept, Duplicate, At, tracked
  <2>2. ASSUME NEW n \in Messages, SameIds(Head(todo), n) PROVE shown[n] = 0 \/ Common(Head(todo), n)
    <3>1. SUFFICES ASSUME shown[n] > 0 PROVE Common(Head(todo), n)
      BY <3>1 DEF CallTypes
    <3>2. IdsOf(n) \subseteq ToSet(uiRing) \cup Past
      BY <1>0, <2>1, <3>1 DEF OwnShown, OwnSeen
    <3>3. Head(todo) \in Coming
      BY <2>1, HeadAndTail DEF PageTypes, Coming
    <3>4. IdsOf(Head(todo)) \cap Past \subseteq forgotten
      BY <3>3, ComingPast
    <3> QED BY <2>1, <2>2, <3>2, <3>4 DEF SameIds, Common
  <2> QED BY <1>b, <2>1, <2>2, <1>a DEF OwnShown
<1>6. CASE SaveIds
  <2>1. shown' = shown /\ todo' = todo /\ ui = "ids" /\ ui' = "messages"
    BY <1>6 DEF SaveIds, At, tracked
  <2>2. PICK r \in Readable : Read(r) /\ file' = [r EXCEPT !.seen = uiRing]
    BY <1>6 DEF SaveIds
  <2>3. Seen' = ToSet(uiRing)
    BY <2>2, SeenAfter
  <2>4. IdsOf(Head(todo)) \subseteq Seen' \cup Past'
    BY <1>0, <2>1, <2>3 DEF OwnRing
  <2>5. \A n \in Messages : SameIds(Head(todo), n) => shown[n] = 0 \/ Common(Head(todo), n)'
    BY <1>0, <1>a, <2>1 DEF OwnShown
  <2> QED BY <1>b, <2>1, <2>4, <2>5 DEF OwnShown
<1>7. CASE PersistMessages
  <2>1. shown' = shown /\ todo' = todo /\ ui = "messages" /\ ui' = "publish"
    BY <1>7 DEF PersistMessages, At
  <2>2. Head(todo) \in Kept'
    BY <1>7, <2>1, Persisted DEF OwnFile, Kept
  <2>3. IdsOf(Head(todo)) \subseteq Seen' \cup Past'
    BY <1>0, <2>1 DEF OwnShown
  <2>4. \A n \in Messages : SameIds(Head(todo), n) => shown[n] = 0 \/ Common(Head(todo), n)'
    BY <1>0, <1>a, <2>1 DEF OwnShown
  <2> QED BY <1>b, <2>1, <2>2, <2>3, <2>4 DEF OwnShown
<1>8. CASE Publish
  <2>1. /\ ui = "publish" /\ ui' = "accept"
        /\ shown' = [shown EXCEPT ![Head(todo)] = @ + 1]
        /\ shown \in [Messages -> Nat]
    BY <1>8 DEF Publish, At, ModeOK, Stands, CallTypes
  <2>2. Head(todo) \in Messages
    BY <2>1, HeadOK DEF PageTypes
  <2>3. SameIds(Head(todo), Head(todo))
    BY DEF SameIds, IdsOf
  <2>4. PICK h \in Messages : h = Head(todo)
    BY <2>2
  <2>5. /\ \A n \in Messages : SameIds(h, n) => shown[n] = 0 \/ Common(h, n)
        /\ IdsOf(h) \subseteq Seen' \cup Past' /\ h \in Kept'
    BY <1>0, <2>1, <2>4 DEF OwnShown
  <2>6. shown'[h] = shown[h] + 1 /\ \A m \in Messages \ {h} : shown'[m] = shown[m]
    BY <2>1, <2>4
  <2>7. \A m, n \in Messages :
          m # n /\ SameIds(m, n) => shown'[m] = 0 \/ shown'[n] = 0 \/ Common(m, n)'
    <3> SUFFICES ASSUME NEW m \in Messages, NEW n \in Messages, m # n, SameIds(m, n)
                 PROVE  shown'[m] = 0 \/ shown'[n] = 0 \/ Common(m, n)'
      OBVIOUS
    <3>1. SameIds(n, m) /\ (Common(n, m) <=> Common(m, n))
      BY DEF SameIds, Common
    <3>2. CASE m = h
      BY <1>a, <2>5, <2>6, <3>2
    <3>3. CASE n = h
      BY <1>a, <2>5, <2>6, <3>1, <3>3
    <3>4. CASE m # h /\ n # h
      BY <1>0, <1>a, <2>6, <3>4 DEF OwnShown
    <3> QED BY <3>2, <3>3, <3>4
  <2>8. \A m \in Messages : shown'[m] <= 1 \/ Common(m, m)'
    <3> SUFFICES ASSUME NEW m \in Messages PROVE shown'[m] <= 1 \/ Common(m, m)'
      OBVIOUS
    <3>1. CASE m = h
      BY <1>a, <2>3, <2>4, <2>5, <2>6, <3>1
    <3>2. CASE m # h
      BY <1>0, <1>a, <2>6, <3>2 DEF OwnShown
    <3> QED BY <3>1, <3>2
  <2>9. \A m \in Messages : shown'[m] > 0 => IdsOf(m) \subseteq Seen' \cup Past' /\ m \in Kept'
    BY <1>0, <2>5, <2>6 DEF OwnShown
  <2> QED BY <2>1, <2>7, <2>8, <2>9 DEF OwnShown
<1> QED BY <1>2, <1>3, <1>4, <1>5, <1>6, <1>7, <1>8, OwnSteps

(* All of it. *)
OwnInv == OwnFile /\ OwnRing /\ OwnFirst /\ OwnSeen /\ OwnView /\ OwnShown

LEMMA OwnInit == SurfaceInit => OwnInv
<1> SUFFICES ASSUME SurfaceInit PROVE OwnInv
  OBVIOUS
<1>1. ToSet(<<>>) = {} /\ IdsIn({}) = {} /\ Seen = {}
  BY DEF ToSet, IdsIn, SurfaceInit, Init, Empty, Seen
<1>2. OwnFile /\ OwnFirst /\ OwnView
  BY <1>1 DEF SurfaceInit, Init, Empty, OwnFile, OwnFirst, OwnView
<1>3. OwnRing /\ OwnSeen
  BY <1>1 DEF SurfaceInit, Init, Empty, OwnRing, OwnSeen
<1>4. OwnShown
  BY DEF SurfaceInit, OwnShown
<1> QED BY <1>2, <1>3, <1>4 DEF OwnInv

LEMMA OwnNext ==
  ASSUME PageInv, PushedStamped, OwnInv, mode = "own", [SurfaceNext]_allVars
  PROVE  OwnInv'
<1>1. failures' = 0 => OwnSeen'
  BY OwnSeenNext DEF OwnInv
<1>2. OwnSeen'
  BY <1>1 DEF OwnSeen
<1> QED BY <1>2, OwnFileNext, OwnRingNext, OwnFirstNext, OwnViewNext, OwnShownNext DEF OwnInv
------------------------------------------------------------------------------

(***************************************************************************)
(* A page beside a worker or a receiver, or none: what the inbox keeps.    *)
(***************************************************************************)
(* A step after which the file has no message that it did not have. *)
LEMMA NoneAdded ==
  ASSUME TypeInv,
         \/ UNCHANGED file
         \/ \E r \in Readable :
              \/ file' = r \/ file' = [r EXCEPT !.messages = {}]
              \/ \E x : file' = [r EXCEPT !.seen = x]
  PROVE  file'.messages \subseteq file.messages
<1>1. CASE file' = file
  BY <1>1
<1>2. ASSUME NEW r \in Readable,
             \/ file' = r \/ file' = [r EXCEPT !.messages = {}]
             \/ \E x : file' = [r EXCEPT !.seen = x]
      PROVE  file'.messages \subseteq file.messages
  <2>1. file'.messages \subseteq r.messages
    BY <1>2, ReadableOK, OtherField
  <2> QED BY <2>1 DEF Readable, Empty
<1> QED BY <1>1, <1>2

(* What was seen stays so, or is gone. *)
LEMMA SeenGrows ==
  ASSUME TypeInv, Onward, Fields, NEW X, KnownInv(X), [Next]_vars, Undisturbed'
  PROVE  Undisturbed /\ Seen \subseteq Seen' \cup Gone(X)'
<1>1. CASE UNCHANGED vars \/ Tick \/ \E m \in Messages : Stamp(m) \/ Push(m)
  <2>1. UNCHANGED <<file, failures, overlap>>
    BY <1>1 DEF Tick, Stamp, Push, vars, bounds, history
  <2> QED BY <2>1 DEF Undisturbed, Seen
<1>2. CASE ClearMessages \/ SaveFilter
  <2>1. PICK r \in Readable : Read(r) /\ (file' = r \/ file' = [r EXCEPT !.messages = {}])
    BY <1>2 DEF ClearMessages, SaveFilter
  <2>2. overlap' = overlap
    BY <1>2 DEF ClearMessages, SaveFilter, history
  <2>3. Undisturbed /\ r = file
    BY <2>1, <2>2, ReadIsFile DEF Undisturbed
  <2>4. Seen' = Seen
    BY <2>1, <2>3, SeenAfter DEF Seen
  <2> QED BY <2>3, <2>4
<1>3. ASSUME NEW p \in Processes, SaveMessages(p)
      PROVE  Undisturbed /\ Seen \subseteq Seen' \cup Gone(X)'
  <2>1. PICK r \in Readable, kept \in Trims(Merge(p)) :
          /\ Read(r) /\ Drop(Forgets(r.seen, InOrder(kept)))
          /\ file' = [messages |-> kept, seen |-> RememberAll(r.seen, InOrder(kept))]
    BY <1>3 DEF SaveMessages
  <2>2. Undisturbed /\ r = file
    BY <1>3, <2>1, ReadIsFile DEF SaveMessages, Undisturbed
  <2>3. kept \subseteq Records
    BY DEF Trims, Merge, TypeInv, TypeOK, ProcessOK
  <2>4. PICK o, F : o = RememberAll(r.seen, InOrder(kept)) /\ F = Forgets(r.seen, InOrder(kept))
    OBVIOUS
  <2>5. ToSet(r.seen) \subseteq ToSet(o) \cup F /\ F \subseteq Ids
    BY <2>3, <2>4, ReadableOK, SortedIsRemembered DEF TypeInv, TypeOK
  <2>6. F \subseteq Gone(X)'
    BY <2>1, <2>4, <2>5, DroppedIsGone
  <2>7. Seen' = ToSet(o)
    BY <2>1, <2>4 DEF Seen
  <2> QED BY <2>2, <2>5, <2>6, <2>7 DEF Seen
<1>4. ASSUME NEW p \in Processes, SaveSeenMessageIds(p)
      PROVE  Undisturbed /\ Seen \subseteq Seen' \cup Gone(X)'
  <2>1. PICK r \in Readable : Read(r) /\ file' = [r EXCEPT !.seen = ring[p]]
    BY <1>4 DEF SaveSeenMessageIds
  <2>2. Undisturbed
    BY <1>4, <2>1, ReadIsFile DEF SaveSeenMessageIds, history, Undisturbed
  <2>3. Seen' = ToSet(ring[p])
    BY <2>1, SeenAfter
  <2>4. HandSeen(p, X) /\ Saving(p)
    BY <1>4, <2>2 DEF KnownInv, SaveSeenMessageIds, Saving
  <2> QED BY <2>2, <2>3, <2>4, GoneGrows DEF HandSeen
<1>5. ASSUME NEW p \in Processes, SaveKnownLabels(p)
      PROVE  Undisturbed /\ Seen \subseteq Seen'
  <2>1. PICK r \in Readable : Read(r) /\ file' = r
    BY <1>5 DEF SaveKnownLabels
  <2>2. Undisturbed /\ file' = file
    BY <1>5, <2>1, ReadIsFile DEF SaveKnownLabels, history, Undisturbed
  <2> QED BY <2>2 DEF Seen
<1>6. ASSUME NEW p \in Processes,
             \/ Load(p) \/ Pull(p) \/ Show(p) \/ Stop(p)
             \/ \E i \in Injects : Inject(p, i)
             \/ p \in Receivers /\ (Construct(p) \/ ReceiverPull(p) \/ ReceiverLoad(p))
      PROVE  Undisturbed /\ Seen \subseteq Seen'
  <2>1. UNCHANGED file
    BY <1>6 DEF Load, Pull, Show, Stop, Inject, Construct, ReceiverPull, ReceiverLoad
  <2>2. UNCHANGED failures \/ \E r : Read(r)
    BY <1>6 DEF Load, Pull, Show, Stop, Inject, Construct, ReceiverPull, ReceiverLoad, bounds
  <2>3. ~overlap' => ~overlap
    BY <1>6 DEF Load, Pull, Show, Stop, Inject, Construct, ReceiverPull, ReceiverLoad, NoteOverlap,
                history
  <2>4. Undisturbed
    BY <2>2, <2>3, ReadIsFile DEF Undisturbed
  <2> QED BY <2>1, <2>4 DEF Seen
<1> QED BY <1>1, <1>2, <1>3, <1>4, <1>5, <1>6 DEF Next, Cycle, Save, Processes

(* A step of the page that leaves the file as it was read. *)
Look ==
  /\ UNCHANGED <<server, process, receiver, clears, stops, history>>
  /\ \/ UNCHANGED <<file, failures>>
     \/ \E r \in Readable : Read(r) /\ (file' = file \/ file' = r)

LEMMA FarSteps ==
  ASSUME ModeOK, mode # "own", [SurfaceNext]_allVars
  PROVE  \/ ([Next]_vars \/ Look) /\ UNCHANGED forgotten
         \/ EndPresent
<1> USE ModesOK
<1>1. CASE ServerStep
  BY <1>1 DEF ServerStep, Next, Records, surface, tracked
<1>2. CASE mode = "service" /\ \E p \in Workers : HandlePoll(p) \/ Work(p)
  BY <1>2 DEF HandlePoll, Work, Next, Processes, Cycle, tracked
<1>3. CASE mode = "events" /\ \E p \in Receivers : ReceiverStep(p)
  BY <1>3 DEF ReceiverStep, Receiver, Report, Next, Processes, Save, surface, tracked
<1>4. CASE mode = "writers" /\ WriterStep
  BY <1>4 DEF WriterStep, Receiver, Next, Save, surface, tracked
<1>5. CASE Clear \/ Filter
  BY <1>5 DEF Clear, Filter, Next, surface, tracked
<1>6. CASE ClearFails \/ Fail \/ Close
  BY <1>6, Halted DEF ClearFails, inbox
<1>7. CASE Refuse \/ Publish \/ AskPoll \/ PollTimesOut
  BY <1>7 DEF Refuse, Publish, AskPoll, PollTimesOut, inbox, tracked, PageDrops
<1>8. CASE Open \/ Present \/ Observe \/ PollAnswered \/ ShowNext
  BY <1>8 DEF Open, Present, Observe, PollAnswered, ShowNext, Reload, Transaction, Look, history,
              tracked, PageDrops
<1>9. CASE UNCHANGED allVars
  BY <1>9 DEF allVars, inbox, surface, tracked
<1> QED
  BY <1>1, <1>2, <1>3, <1>4, <1>5, <1>6, <1>7, <1>8, <1>9
  DEF SurfaceNext, Loop, StartPoll, Pulled, Accept, SaveIds, PersistMessages, EndPoll, At,
      ModeOK, Stands

FarInv == StaysInv /\ KnownInv(forgotten)

LEMMA LookIsFile ==
  ASSUME TypeInv, Look
  PROVE  /\ file'.messages \subseteq file.messages
         /\ Undisturbed' => Undisturbed /\ UNCHANGED file
         /\ UNCHANGED <<pc, snap, ring, accepted, overlap, recorded, trimmed, cleared, raced>>
<1>1. failures' = 0 => failures = 0 /\ UNCHANGED file
  BY FieldsHold, ReadIsFile DEF Look
<1>2. UNCHANGED <<pc, snap, ring, accepted, overlap, recorded, trimmed, cleared, raced>>
  BY DEF Look, process, history
<1> QED BY <1>1, <1>2, NoneAdded DEF Look, Undisturbed

(* What is seen when the ids of the page replace those of the file. *)
LEMMA EndPresented ==
  ASSUME PageInv, EndPresent
  PROVE  /\ Seen' = ToSet(uiRing) /\ file'.messages \subseteq file.messages
         /\ forgotten \subseteq forgotten' /\ dropped' = dropped /\ MayCome' = MayCome
         /\ Seen \subseteq Seen' \cup Gone(forgotten)'
         /\ Undisturbed' => Undisturbed /\ file'.messages = file.messages
         /\ UNCHANGED <<pc, snap, ring, accepted, overlap, recorded, trimmed, cleared, raced>>
         /\ ui = "present" /\ ui' = "idle" /\ mode = "events"
<1>1. PICK r \in Readable : Read(r) /\ file' = [r EXCEPT !.seen = uiRing]
  BY DEF EndPresent
<1>2. /\ UNCHANGED <<pc, snap, ring, accepted, overlap, recorded, trimmed, cleared, raced, dropped>>
      /\ UNCHANGED <<server, receiver>>
  BY DEF EndPresent, Transaction, process
<1>3. Seen' = ToSet(uiRing) /\ file'.messages = r.messages
  BY <1>1, SeenAfter DEF PageInv
<1>4. failures' = 0 => failures = 0 /\ r = file
  BY <1>1, PageRead DEF PageInv
<1>5. r.messages \subseteq file.messages
  BY DEF Readable, Empty
<1>6. ui = "present" /\ ui' = "idle" /\ mode = "events"
  BY ModesOK DEF EndPresent, At, PageInv, ModeOK, Stands
<1>7. forgotten' = forgotten \cup ((Seen \ ToSet(uiRing)) \cap IdsIn(MayCome))
  BY DEF EndPresent, Seen, IdsIn
<1>8. MayCome' = MayCome
  BY <1>2, MayComeFrame
<1>9. Seen \subseteq Ids
  BY DEF Seen, PageInv, TypeInv, TypeOK, FileOK, RingOf, ToSet
<1>10. Gone(forgotten)' = dropped' \cup forgotten' \cup (Ids \ IdsIn(MayCome'))
  BY DEF Gone, Lost, IdsIn, Ids, Records
<1>11. Seen \subseteq Seen' \cup Gone(forgotten)'
  BY <1>3, <1>7, <1>8, <1>9, <1>10
<1> QED BY <1>1, <1>2, <1>3, <1>4, <1>5, <1>6, <1>7, <1>8, <1>11 DEF Undisturbed

(* The ring of a page that waits for events has what was seen and no more. *)
RingSeen ==
  mode = "events" /\ Undisturbed /\ ui # "off" => ToSet(uiRing) \subseteq Seen \cup Gone(forgotten)

LEMMA FarInit == SurfaceInit => FarInv /\ RingSeen
<1> SUFFICES ASSUME SurfaceInit PROVE FarInv /\ RingSeen
  OBVIOUS
<1>1. Init /\ ui = "off"
  BY DEF SurfaceInit
<1> QED BY <1>1, StaysInit, KnownInit DEF FarInv, RingSeen

(* What a step means for the ids that the page forgot before it... *)
LEMMA RigidAfter ==
  ASSUME NEW X, X = forgotten'
  PROVE  /\ KnownInv(X)' => KnownInv(forgotten)'
         /\ Gone(X)' = Gone(forgotten)' /\ Lost(X)' = Lost(forgotten)'
BY DEF KnownInv, RingCovers, FileSeen, HandSeen, Uncleared, Seen, Saving, Gone, Lost, IdsIn, Ids,
       Records, Processes

(* ... and for all of them. *)
LEMMA FarGrows ==
  ASSUME PageInv, PushedStamped, FarInv, mode # "own", [SurfaceNext]_allVars
  PROVE  /\ Onward /\ forgotten \subseteq forgotten'
         /\ Lost(forgotten) \subseteq Lost(forgotten)' /\ Gone(forgotten) \subseteq Gone(forgotten)'
         /\ Undisturbed' => Undisturbed /\ Seen \subseteq Seen' \cup Gone(forgotten)'
<1>1. ModeOK /\ TypeInv /\ StaysInv /\ KnownInv(forgotten) /\ Fields
  BY DEF PageInv, FarInv, StaysInv
<1>2. Onward
  BY SurfaceOnward
<1>3. PICK X : X = forgotten
  OBVIOUS
<1>4. Lost(X) \subseteq Lost(X)' /\ Gone(X) \subseteq Gone(X)'
  BY <1>2, GoneGrows
<1>5. CASE UNCHANGED forgotten
  <2>1. /\ Gone(X)' = Gone(forgotten)' /\ Lost(X)' = Lost(forgotten)'
        /\ Gone(X) = Gone(forgotten) /\ Lost(X) = Lost(forgotten) /\ KnownInv(X)
    BY <1>1, <1>3, <1>5, RigidAfter
  <2>2. CASE [Next]_vars
    BY <1>1, <1>2, <1>4, <1>5, <2>1, <2>2, SeenGrows
  <2>3. CASE Look
    BY <1>1, <1>2, <1>4, <1>5, <2>1, <2>3, LookIsFile DEF Seen
  <2>4. CASE EndPresent
    BY <1>2, <1>4, <1>5, <2>1, <2>4, EndPresented
  <2> QED BY <1>1, <2>2, <2>3, <2>4, FarSteps
<1>6. CASE EndPresent
  <2>1. Gone(forgotten)' = dropped' \cup forgotten' \cup (Ids \ IdsIn(MayCome'))
    BY DEF Gone, Lost, IdsIn, Ids, Records
  <2> QED BY <1>2, <1>6, <2>1, EndPresented DEF Lost, Gone
<1> QED BY <1>1, <1>5, <1>6, FarSteps

LEMMA FarNext ==
  ASSUME PageInv, PushedStamped, FarInv, RingSeen, mode # "own", [SurfaceNext]_allVars
  PROVE  FarInv'
<1>1. ModeOK /\ TypeInv /\ StaysInv /\ KnownInv(forgotten) /\ OneSaver /\ Fields
  BY DEF PageInv, FarInv, StaysInv
<1>2. PageInv' /\ mode' = mode
  BY PageNext, ModeSame
<1>3. Fields'
  BY <1>2, BoundsAssumption DEF PageInv, TypeInv, TypeOK, FileOK, ProcessOK, HistoryOK, Fields
<1>a. /\ Onward /\ Lost(forgotten) \subseteq Lost(forgotten)'
      /\ Gone(forgotten) \subseteq Gone(forgotten)'
      /\ Undisturbed' => Undisturbed /\ Seen \subseteq Seen' \cup Gone(forgotten)'
  BY FarGrows
<1>4. PICK X : X = forgotten
  OBVIOUS
<1>5. KnownInv(X)
  BY <1>1, <1>4
<1>6. CASE [Next]_vars /\ UNCHANGED forgotten
  <2>1. StaysInv' /\ KnownInv(X)'
    BY <1>1, <1>5, <1>6, StaysNext, KnownNext
  <2> QED BY <1>4, <1>6, <2>1, RigidAfter DEF FarInv
<1>7. CASE Look /\ UNCHANGED forgotten
  <2>1. /\ Undisturbed' => Undisturbed /\ UNCHANGED file
        /\ UNCHANGED <<pc, snap, ring, accepted, overlap, recorded, trimmed, cleared, raced>>
    BY <1>1, <1>7, LookIsFile
  <2>2. KnownInv(X)'
    BY <1>5, <1>a, <2>1, KnownFrame
  <2>3. failures' = 0 => failures = 0
    BY <1>1, <1>7, ReadIsFile DEF Look
  <2>4. StaysInv'
    BY <1>1, <1>3, <2>1, <2>3, StaysFrame DEF Saving
  <2> QED BY <1>4, <1>7, <2>2, <2>4, RigidAfter DEF FarInv
<1>8. CASE EndPresent
  <2>1. /\ Seen' = ToSet(uiRing)
        /\ Undisturbed' => Undisturbed /\ file'.messages = file.messages
        /\ UNCHANGED <<pc, snap, ring, accepted, overlap, recorded, trimmed, cleared, raced>>
        /\ ui = "present" /\ mode = "events"
    BY <1>8, EndPresented
  <2>2. failures' = 0 => failures = 0
    BY <1>1, <1>8, ReadIsFile DEF EndPresent
  <2>3. StaysInv'
    BY <1>1, <1>3, <2>1, <2>2, StaysFrame DEF Saving
  <2>4. \A p \in Processes : RingCovers(p, forgotten)'
    BY <1>1, <1>a, <2>1 DEF KnownInv, RingCovers, IdsIn
  <2>5. ASSUME Undisturbed'
        PROVE  FileSeen(forgotten)' /\ \A p \in Processes : HandSeen(p, forgotten)'
    <3>1. /\ FileSeen(forgotten) /\ (\A p \in Processes : HandSeen(p, forgotten))
          /\ ToSet(uiRing) \subseteq Seen \cup Gone(forgotten)
      BY <1>1, <2>1, <2>5 DEF KnownInv, RingSeen
    <3>2. FileSeen(forgotten)'
      BY <1>a, <2>1, <2>5, <3>1 DEF FileSeen, Uncleared, IdsIn
    <3>3. ASSUME NEW p \in Processes PROVE HandSeen(p, forgotten)'
      <4>1. Saving(p)' => Seen' \subseteq ToSet(ring'[p]) \cup Gone(forgotten)'
        BY <1>a, <2>1, <3>1, <3>3 DEF HandSeen, Saving
      <4>2. pc'[p] = "save" =>
              IdsIn(accepted'[p]) \cap IdsIn(file'.messages \cup cleared') \subseteq Lost(forgotten)'
        BY <1>a, <2>1, <2>5, <3>1, <3>3 DEF HandSeen, IdsIn
      <4>3. pc'[p] \in {"pull", "save"} => (Uncleared(snap[p], forgotten))'
        BY <1>a, <2>1, <3>1, <3>3 DEF HandSeen, Uncleared
      <4> QED BY <4>1, <4>2, <4>3 DEF HandSeen, IdsIn
    <3> QED BY <3>2, <3>3
  <2> QED BY <2>3, <2>4, <2>5 DEF FarInv, KnownInv
<1> QED BY <1>1, <1>6, <1>7, <1>8, FarSteps
------------------------------------------------------------------------------

(***************************************************************************)
(* A page that waits for the events of a receiver.                         *)
(***************************************************************************)
(* Of S nothing is from before a clear but what somebody had in hand, and that whose ids
   were forgotten while it could still come.                                            *)
Away(S) ==
  \A m \in S \cap (cleared \ (raced \cup inHand)) : IdsOf(m) \subseteq Lost(forgotten)

(* What it presents was seen, and nothing it shows is from before a clear. *)
EventsView ==
  /\ ui \notin {"present", "show"} => todo = <<>>
  /\ ui = "off" => view = <<>>
  /\ Undisturbed =>
       /\ IdsIn(ToSet(todo)) \subseteq Seen \cup Gone(forgotten)
       /\ Away(ToSet(todo)) /\ Away(ToSet(view))

(* What a receiver, the server and the user do beside the page. *)
LEMMA EventsOthers ==
  ASSUME ServerStep \/ (\E p \in Receivers : ReceiverStep(p)) \/ Filter \/ UNCHANGED allVars
  PROVE  UNCHANGED <<ui, view, todo, uiRing, shown, cleared, raced, inHand, forgotten>>
<1>1. CASE ServerStep \/ UNCHANGED allVars
  BY <1>1 DEF ServerStep, Tick, Stamp, Push, allVars, inbox, vars, history, surface, page, tracked
<1>2. ASSUME NEW p \in Receivers, ReceiverStep(p)
      PROVE  UNCHANGED <<ui, view, todo, uiRing, shown, cleared, raced, inHand, forgotten>>
  <2>1. UNCHANGED <<page, tracked>>
    BY <1>2 DEF ReceiverStep, Report, surface
  <2>2. UNCHANGED <<cleared, raced>>
    BY <1>2 DEF ReceiverStep, Report, Receiver, Construct, ReceiverPull, ReceiverLoad, SaveMessages,
                SaveSeenMessageIds, SaveKnownLabels, Stop, history
  <2> QED BY <2>1, <2>2 DEF page, tracked
<1>3. CASE Filter
  BY <1>3 DEF Filter, SaveFilter, history, surface, page, tracked
<1> QED BY <1>1, <1>2, <1>3

LEMMA RingSeenNext ==
  ASSUME PageInv, PushedStamped, FarInv, RingSeen, EventsView, [SurfaceNext]_allVars
  PROVE  RingSeen'
<1> SUFFICES ASSUME mode = "events", Undisturbed', ui' # "off"
             PROVE  ToSet(uiRing') \subseteq Seen' \cup Gone(forgotten)'
  BY ModeSame DEF RingSeen
<1> USE DEF PageInv
<1>1. Undisturbed /\ Seen \cup Gone(forgotten) \subseteq Seen' \cup Gone(forgotten)'
  BY FarGrows
<1>2. CASE ui # "off" /\ UNCHANGED uiRing
  BY <1>1, <1>2 DEF RingSeen
<1>3. CASE Refuse \/ ShowNext
  <2>1. /\ Head(todo) \in Records /\ Head(todo) \in ToSet(todo) /\ ui # "off"
        /\ uiRing' = RememberIds(uiRing, Head(todo))
    BY <1>3, HeadOK, HeadAndTail DEF Refuse, ShowNext, At, PageTypes
  <2>2. ToSet(uiRing') \subseteq ToSet(uiRing) \cup IdsOf(Head(todo))
    BY <2>1, RingRemembers
  <2>3. IdsOf(Head(todo)) \subseteq Seen \cup Gone(forgotten)
    BY <1>1, <2>1 DEF EventsView, IdsIn
  <2> QED BY <1>1, <2>1, <2>2, <2>3 DEF RingSeen
<1>4. CASE Open
  <2>1. PICK r \in Readable : Read(r) /\ uiRing' = Seeded(r)
    BY <1>4 DEF Open
  <2>2. r = file
    BY <1>4, <2>1, PageRead DEF Undisturbed
  <2>3. ToSet(uiRing') \subseteq Seen \cup IdsIn(file.messages)
    BY <2>1, <2>2, SeededIsRemembered DEF Seen
  <2>4. IdsIn(file.messages) \subseteq Seen \cup Gone(forgotten)
    BY <1>1 DEF FarInv, KnownInv, FileSeen, IdsIn
  <2> QED BY <1>1, <2>3, <2>4
<1>5. CASE ServerStep \/ (\E p \in Receivers : ReceiverStep(p)) \/ Filter \/ UNCHANGED allVars
  BY <1>2, <1>5, EventsOthers
<1>6. CASE Fail \/ Close
  BY <1>2, <1>6, Halted DEF Fail, Close
<1>7. CASE Clear \/ ClearFails \/ Present \/ Publish \/ EndPresent
  BY <1>2, <1>7 DEF Clear, ClearFails, Suspended, Present, Publish, EndPresent, At
<1> QED BY <1>3, <1>4, <1>5, <1>6, <1>7, EventsActions

LEMMA EventsViewNext ==
  ASSUME PageInv, PushedStamped, FarInv, EventsView, mode = "events", [SurfaceNext]_allVars
  PROVE  EventsView'
<1> USE DEF PageInv
<1> DEFINE Clean ==
      /\ IdsIn(ToSet(todo)) \subseteq Seen \cup Gone(forgotten)
      /\ Away(ToSet(todo)) /\ Away(ToSet(view))
<1>0. ToSet(<<>>) = {} /\ IdsIn({}) = {}
  BY DEF ToSet, IdsIn
<1>1. /\ Lost(forgotten) \subseteq Lost(forgotten)'
      /\ Undisturbed' => /\ Undisturbed
                         /\ Seen \cup Gone(forgotten) \subseteq Seen' \cup Gone(forgotten)'
  BY FarGrows
<1>2. Undisturbed => Clean
  BY DEF EventsView
<1>3. ASSUME UNCHANGED <<cleared, raced, inHand>>,
             ToSet(todo') \subseteq ToSet(todo), ToSet(view') \subseteq ToSet(view) \cup ToSet(todo),
             Undisturbed'
      PROVE  Clean'
  <2>1. IdsIn(ToSet(todo)) \subseteq Seen' \cup Gone(forgotten)' /\ Away(ToSet(todo)) /\ Away(ToSet(view))
    BY <1>1, <1>2, <1>3
  <2>2. IdsIn(ToSet(todo')) \subseteq IdsIn(ToSet(todo))
    BY <1>3 DEF IdsIn
  <2>3. Away(ToSet(todo))' /\ Away(ToSet(view))'
    BY <1>1, <1>3, <2>1 DEF Away
  <2> QED BY <2>1, <2>2, <2>3 DEF IdsIn
<1>4. CASE ServerStep \/ (\E p \in Receivers : ReceiverStep(p)) \/ Filter \/ UNCHANGED allVars
  <2>1. UNCHANGED <<ui, view, todo, cleared, raced, inHand>>
    BY <1>4, EventsOthers
  <2> QED BY <1>3, <2>1 DEF EventsView
<1>5. CASE Refuse \/ ShowNext \/ Publish \/ EndPresent
  <2>1. UNCHANGED <<cleared, raced, inHand>>
    BY <1>5 DEF Refuse, ShowNext, Publish, EndPresent, Transaction, inbox, vars, history, tracked
  <2>2. ToSet(todo') \subseteq ToSet(todo)
    BY <1>5, HeadAndTail DEF Refuse, ShowNext, Publish, EndPresent, At, PageTypes
  <2>3. ToSet(view') \subseteq ToSet(view) \cup ToSet(todo)
    <3>1. CASE ShowNext /\ view' # view
      <4>1. /\ Head(todo) \in Records /\ Head(todo) \in ToSet(todo)
            /\ view' = <<Head(todo)>> \o view
        BY <3>1, HeadOK, HeadAndTail DEF ShowNext, PageTypes
      <4>2. ToSet(view') = {Head(todo)} \cup ToSet(view)
        BY <4>1, OnTop DEF PageTypes
      <4> QED BY <4>1, <4>2
    <3>2. CASE EndPresent
      BY <3>2, ShortenOK DEF EndPresent, PageTypes
    <3> QED BY <1>5, <3>1, <3>2 DEF Refuse, Publish
  <2>4. ui' # "off" /\ (ui' \notin {"present", "show"} => todo' = <<>>)
    BY <1>5 DEF Refuse, ShowNext, Publish, EndPresent, At, ModeOK, Stands
  <2> QED BY <1>3, <2>1, <2>2, <2>3, <2>4 DEF EventsView
<1>6. CASE Fail \/ Close
  <2>1. /\ todo' = <<>> /\ UNCHANGED <<cleared, raced, inHand>>
        /\ view' = <<>> \/ (view' = view /\ ui' # "off")
    BY <1>6, Halted DEF inbox, vars, history
  <2> QED BY <1>0, <1>3, <2>1 DEF EventsView
<1>7. ASSUME UNCHANGED <<cleared, raced, inHand, file>>, NEW r \in Readable, Read(r),
             \/ ToSet(todo') \subseteq r.messages /\ view' = view
             \/ ToSet(view') = r.messages /\ todo' = todo,
             Undisturbed'
      PROVE  Clean'
  <2>1. Undisturbed /\ r = file
    BY <1>1, <1>7, PageRead DEF Undisturbed
  <2>2. /\ IdsIn(file.messages) \subseteq Seen \cup Gone(forgotten)
        /\ Uncleared(file.messages, forgotten)
    BY <2>1 DEF FarInv, KnownInv, FileSeen, IdsIn
  <2>3. Clean
    BY <1>2, <2>1
  <2>4. CASE ToSet(todo') \subseteq file.messages /\ view' = view
    <3>1. IdsIn(ToSet(todo')) \subseteq Seen' \cup Gone(forgotten)'
      BY <1>1, <1>7, <2>2, <2>4 DEF IdsIn
    <3>2. Away(ToSet(todo))' /\ Away(ToSet(view))'
      BY <1>1, <1>7, <2>2, <2>3, <2>4 DEF Away, Uncleared
    <3> QED BY <3>1, <3>2 DEF IdsIn
  <2>5. CASE ToSet(view') = file.messages /\ todo' = todo
    <3>1. IdsIn(ToSet(todo')) \subseteq Seen' \cup Gone(forgotten)'
      BY <1>1, <1>7, <2>3, <2>5
    <3>2. Away(ToSet(todo))' /\ Away(ToSet(view))'
      BY <1>1, <1>7, <2>2, <2>3, <2>5 DEF Away, Uncleared
    <3> QED BY <3>1, <3>2 DEF IdsIn
  <2> QED BY <1>7, <2>1, <2>4, <2>5
<1>8. CASE Open
  <2>1. PICK r \in Readable : Read(r) /\ view' = Restored(r)
    BY <1>8 DEF Open
  <2>2. ToSet(view') = r.messages
    BY <2>1, RestoredOK DEF PageTypes
  <2>3. /\ UNCHANGED <<cleared, raced, inHand, file, todo>>
        /\ ui = "off" /\ ui' = "idle"
    BY <1>8 DEF Open, Transaction, At
  <2> QED BY <1>7, <2>1, <2>2, <2>3 DEF EventsView
<1>9. CASE Present
  <2>1. PICK r \in Readable : Read(r) /\ ToSet(todo') \subseteq r.messages
    BY <1>9, PresentTypes
  <2>2. UNCHANGED <<cleared, raced, inHand, file, view>> /\ ui' = "present"
    BY <1>9 DEF Present, Transaction, tracked, At
  <2> QED BY <1>7, <2>1, <2>2 DEF EventsView
<1>10. CASE Clear
  <2>1. /\ view' = <<>> /\ todo' = todo /\ ui' = ui /\ ui \in {"idle", "show"}
        /\ inHand' = IF ui = "show" THEN inHand \cup ToSet(todo) ELSE inHand
    BY <1>10, ModesOK DEF Clear, Suspended, ModeOK, Stands
  <2>2. todo = <<>> \/ ToSet(todo) \subseteq inHand'
    BY <2>1 DEF EventsView
  <2>3. Away(ToSet(todo))' /\ Away(ToSet(view))'
    BY <1>0, <2>1, <2>2 DEF Away
  <2>4. Undisturbed' => IdsIn(ToSet(todo')) \subseteq Seen' \cup Gone(forgotten)'
    BY <1>1, <1>2, <2>1
  <2> QED BY <2>1, <2>3, <2>4 DEF EventsView, IdsIn
<1>11. CASE ClearFails
  <2>1. view' = <<>> /\ UNCHANGED <<ui, todo, cleared, raced, inHand>> /\ ui # "off"
    BY <1>11 DEF ClearFails, Suspended, inbox, vars, history
  <2> QED BY <1>0, <1>3, <2>1 DEF EventsView
<1> QED BY <1>4, <1>5, <1>6, <1>8, <1>9, <1>10, <1>11, EventsActions

------------------------------------------------------------------------------
(***************************************************************************)
(* A page beside a worker, and none.                                       *)
(***************************************************************************)
LEMMA ServiceActions ==
  ASSUME ModeOK, mode \in {"service", "writers"}, [SurfaceNext]_allVars
  PROVE  \/ mode = "service" /\ \E p \in Workers : HandlePoll(p) \/ Work(p)
         \/ mode = "writers" /\ WriterStep
         \/ ServerStep \/ Filter \/ UNCHANGED allVars
         \/ mode = "service" /\ \/ Open \/ Clear \/ ClearFails \/ Fail \/ Close
                                \/ Observe \/ AskPoll \/ PollAnswered \/ PollTimesOut
BY DEF SurfaceNext, Loop, StartPoll, Pulled, Refuse, Accept, SaveIds, PersistMessages, Publish,
       EndPoll, Present, ShowNext, EndPresent, Open, Clear, ClearFails, Suspended, Fail, Close,
       Observe, AskPoll, PollAnswered, PollTimesOut, At, ModeOK, Stands

(* It publishes nothing, and shows nothing that was cleared and nobody had in hand. *)
ServiceView ==
  mode \in {"service", "writers"} =>
    /\ \A m \in Messages : shown[m] = 0
    /\ ui = "off" => view = <<>>
    /\ mode = "service" /\ Undisturbed => Away(ToSet(view))

LEMMA ServiceViewNext ==
  ASSUME PageInv, PushedStamped, FarInv, ServiceView, [SurfaceNext]_allVars
  PROVE  ServiceView'
<1> SUFFICES ASSUME mode \in {"service", "writers"} PROVE ServiceView'
  BY ModeSame DEF ServiceView
<1> USE DEF PageInv
<1>0. ToSet(<<>>) = {} /\ mode' = mode
  BY ModeSame DEF ToSet
<1>1. Lost(forgotten) \subseteq Lost(forgotten)' /\ (Undisturbed' => Undisturbed)
  BY FarGrows
<1>2. ASSUME UNCHANGED <<shown, view, inHand>>, ui' = "off" => ui = "off",
             mode = "service" => UNCHANGED <<cleared, raced>>
      PROVE  ServiceView'
  BY <1>0, <1>1, <1>2 DEF ServiceView, Away
<1>3. ASSUME NEW p \in Workers, HandlePoll(p) \/ Work(p)
      PROVE  ServiceView'
  <2>1. UNCHANGED <<page, tracked>>
    BY <1>3 DEF HandlePoll, Work
  <2>2. UNCHANGED <<cleared, raced>>
    BY <1>3 DEF HandlePoll, Work, Cycle, Load, Pull, Save, SaveMessages, SaveSeenMessageIds,
                SaveKnownLabels, Show, Stop, Inject, history
  <2> QED BY <1>2, <2>1, <2>2 DEF page, tracked
<1>4. CASE mode = "writers" /\ WriterStep
  BY <1>2, <1>4 DEF WriterStep, surface, page, tracked
<1>5. CASE ServerStep \/ Filter \/ UNCHANGED allVars
  BY <1>2, <1>5 DEF ServerStep, Tick, Stamp, Push, Filter, SaveFilter, history, surface, page,
              tracked, allVars, inbox, vars
<1>6. CASE Clear \/ ClearFails
  <2>1. view' = <<>> /\ shown' = shown
    BY <1>6 DEF Clear, ClearFails
  <2> QED BY <1>0, <2>1 DEF ServiceView, Away
<1>7. CASE Fail \/ Close
  <2>1. /\ UNCHANGED <<shown, inHand, cleared, raced>>
        /\ view' = <<>> \/ (view' = view /\ ui' # "off")
    BY <1>7, Halted DEF inbox, vars, history
  <2> QED BY <1>0, <1>1, <2>1 DEF ServiceView, Away
<1>8. CASE AskPoll \/ PollTimesOut
  BY <1>2, <1>8 DEF AskPoll, PollTimesOut, At, inbox, vars, history, tracked
<1>9. CASE Open \/ Observe \/ PollAnswered
  <2>1. PICK r \in Readable : Read(r) /\ view' = Restored(r)
    BY <1>9 DEF Open, Observe, PollAnswered, Reload
  <2>2. UNCHANGED <<file, cleared, raced, shown, inHand>> /\ ui' # "off"
    BY <1>9 DEF Open, Observe, PollAnswered, Reload, Transaction, tracked, At
  <2>3. ToSet(view') = r.messages
    BY <2>1, RestoredOK DEF PageTypes
  <2>4. ASSUME Undisturbed' PROVE Away(ToSet(view))'
    <3>1. r = file /\ Undisturbed
      BY <1>1, <2>1, <2>4, PageRead DEF Undisturbed
    <3>2. Uncleared(file.messages, forgotten)
      BY <3>1 DEF FarInv, KnownInv, FileSeen
    <3> QED BY <1>1, <2>2, <2>3, <3>1, <3>2 DEF Away, Uncleared
  <2> QED BY <2>2, <2>4 DEF ServiceView
<1> QED BY <1>3, <1>4, <1>5, <1>6, <1>7, <1>8, <1>9, ServiceActions

------------------------------------------------------------------------------
(***************************************************************************)
(* What a page publishes that waits for the events of a receiver.          *)
(***************************************************************************)
(* What is in the history, in a snapshot, to be presented or published was recorded; and a
   process holds something only from its load to its report.                              *)
Shelf ==
  /\ file.messages \subseteq recorded
  /\ \A p \in Processes :
       /\ snap[p] \subseteq recorded
       /\ pc[p] \in {"new", "idle", "pull", "load"} => accepted[p] = {}
  /\ ToSet(todo) \subseteq recorded
  /\ \A m \in Messages : shown[m] > 0 => m \in recorded

(* What a step of a receiver does to what it holds and to the history. *)
LEMMA ReceiverMoves ==
  ASSUME PageInv, NEW p \in Receivers, ReceiverStep(p)
  PROVE  /\ p \in Processes /\ \A q \in Processes \ {p} : SameProcess(q)
         /\ UNCHANGED <<page, tracked>>
         /\ Report(p) \/ UNCHANGED events
         /\ \/ /\ Construct(p) \/ ReceiverPull(p)
               /\ UNCHANGED <<file, recorded, trimmed>>
               /\ accepted'[p] = accepted[p] /\ snap'[p] = snap[p] /\ pc'[p] \in {"idle", "load"}
               /\ pc[p] \in {"new", "idle"}
            \/ /\ Stop(p) /\ UNCHANGED <<file, recorded, trimmed, events>>
               /\ accepted'[p] = {} /\ snap'[p] = {} /\ pc'[p] \in {"new", "idle"}
            \/ /\ Report(p) /\ UNCHANGED <<recorded, trimmed>>
               /\ pc[p] = "labels" /\ events' \in {events, Append(events, accepted[p])}
               /\ accepted'[p] = {} /\ snap'[p] = {} /\ pc'[p] \in {"new", "idle"}
               /\ file'.messages \subseteq file.messages
            \/ ReceiverLoad(p) /\ UNCHANGED <<file, recorded, trimmed>> /\ pc[p] = "load"
            \/ /\ SaveMessages(p) /\ accepted'[p] = accepted[p] /\ snap'[p] = snap[p]
               /\ pc[p] = "save" /\ pc'[p] = "saveIds"
            \/ /\ SaveSeenMessageIds(p) /\ UNCHANGED <<recorded, trimmed>>
               /\ accepted'[p] = accepted[p] /\ snap'[p] = snap[p]
               /\ pc[p] = "saveIds" /\ pc'[p] = "labels" /\ file'.messages \subseteq file.messages
<1>0. p \in Processes /\ TypeInv
  BY DEF Processes, PageInv
<1>1. \A q \in Processes \ {p} : SameProcess(q)
  BY <1>0, OthersSame DEF ReceiverStep, Report, Receiver, Save
<1>2. UNCHANGED <<page, tracked>> /\ (Report(p) \/ UNCHANGED events)
  BY DEF ReceiverStep, Report, surface
<1> USE <1>0, DomainsHold DEF Domains, Goto, Rest
<1>3. CASE Construct(p) \/ ReceiverPull(p)
  BY <1>1, <1>2, <1>3 DEF Construct, ReceiverPull, history
<1>4. CASE Stop(p) /\ UNCHANGED surface
  <2>1. accepted'[p] = {} /\ snap'[p] = {} /\ pc'[p] \in {"new", "idle"} /\ UNCHANGED file
    BY <1>4 DEF Stop
  <2>2. UNCHANGED <<recorded, trimmed, events>>
    BY <1>4 DEF Stop, history, surface
  <2> QED BY <1>1, <1>2, <1>4, <2>1, <2>2
<1>5. CASE Report(p)
  <2>1. PICK r \in Readable : file' = r
    BY <1>5 DEF Report, SaveKnownLabels
  <2>2. file'.messages \subseteq file.messages
    BY <2>1 DEF Readable, Empty
  <2>3. p \notin Workers
    BY ProcessesAssumption
  <2>4. /\ accepted'[p] = {} /\ snap'[p] = {} /\ pc'[p] = "idle"
        /\ pc[p] = "labels" /\ UNCHANGED <<recorded, trimmed>>
    BY <1>5, <2>3 DEF Report, SaveKnownLabels, history
  <2>5. events' \in {events, Append(events, accepted[p])}
    BY <1>5 DEF Report
  <2> QED BY <1>1, <1>2, <1>5, <2>2, <2>4, <2>5
<1>6. CASE ReceiverLoad(p)
  BY <1>1, <1>2, <1>6 DEF ReceiverLoad
<1>7. CASE SaveMessages(p)
  BY <1>1, <1>2, <1>7 DEF SaveMessages
<1>8. CASE SaveSeenMessageIds(p)
  <2>1. PICK r \in Readable : file' = [r EXCEPT !.seen = ring[p]]
    BY <1>8 DEF SaveSeenMessageIds
  <2>2. file'.messages \subseteq file.messages
    BY <2>1, ReadableOK, OtherField DEF Readable, Empty
  <2> QED BY <1>1, <1>2, <1>8, <2>2 DEF SaveSeenMessageIds, history
<1> QED BY <1>3, <1>4, <1>5, <1>6, <1>7, <1>8 DEF ReceiverStep, Receiver

LEMMA ShelfReceiver ==
  ASSUME PageInv, Shelf, NEW p \in Receivers, ReceiverStep(p)
  PROVE  Shelf'
<1>1. /\ p \in Processes /\ \A q \in Processes \ {p} : SameProcess(q)
      /\ UNCHANGED <<todo, shown>>
  BY ReceiverMoves DEF page, tracked
<1>2. CASE ~ReceiverLoad(p) /\ ~SaveMessages(p)
  BY <1>1, <1>2, ReceiverMoves DEF Shelf, SameProcess
<1>3. CASE ReceiverLoad(p)
  <2>1. PICK r \in Readable : Take(p, r.messages, Seeded(r), got[p])
    BY <1>3 DEF ReceiverLoad
  <2>2. UNCHANGED <<file, recorded>> /\ pc[p] = "load" /\ r.messages \subseteq file.messages
    BY <1>3 DEF ReceiverLoad, Readable, Empty
  <2>3. \/ snap'[p] = {} /\ accepted'[p] = {}
        \/ snap'[p] = r.messages /\ pc'[p] = "save"
    BY <1>1, <2>1, DomainsHold DEF Take, Rest, Goto, Domains, PageInv
  <2> QED BY <1>1, <2>2, <2>3 DEF Shelf, SameProcess
<1>4. CASE SaveMessages(p)
  <2>1. PICK r \in Readable, kept \in Trims(Merge(p)) :
          /\ file' = [messages |-> kept, seen |-> RememberAll(r.seen, InOrder(kept))]
          /\ recorded' = recorded \cup kept
    BY <1>4 DEF SaveMessages
  <2>2. pc'[p] = "saveIds" /\ snap'[p] = snap[p] /\ accepted'[p] = accepted[p]
    BY <1>1, <1>4, DomainsHold DEF SaveMessages, Goto, Domains, PageInv
  <2> QED BY <1>1, <2>1, <2>2 DEF Shelf, SameProcess
<1> QED BY <1>2, <1>3, <1>4

LEMMA ShelfNext ==
  ASSUME PageInv, Shelf, mode = "events", [SurfaceNext]_allVars
  PROVE  Shelf'
<1> USE DEF PageInv
<1>1. ASSUME file'.messages \subseteq file.messages, UNCHANGED <<recorded, pc, snap, accepted>>,
             ToSet(todo') \subseteq recorded, \A m \in Messages : shown'[m] > 0 => m \in recorded
      PROVE  Shelf'
  BY <1>1 DEF Shelf
<1>2. CASE ServerStep \/ UNCHANGED allVars \/ Filter \/ Clear \/ ClearFails
  <2>1. UNCHANGED <<recorded, pc, snap, accepted, todo, shown>>
    BY <1>2 DEF ServerStep, Tick, Stamp, Push, Filter, SaveFilter, Clear, ClearMessages, ClearFails,
                history, process, inbox, vars, allVars, surface, page, tracked
  <2>2. UNCHANGED file \/ \E r \in Readable : file' = r \/ file' = [r EXCEPT !.messages = {}]
    BY <1>2 DEF ServerStep, Tick, Stamp, Push, Filter, SaveFilter, Clear, ClearMessages, ClearFails,
                inbox, vars, allVars
  <2>3. file'.messages \subseteq file.messages
    BY <2>2, NoneAdded
  <2> QED BY <1>1, <2>1, <2>3 DEF Shelf
<1>3. CASE Fail \/ Close
  <2>1. todo' = <<>> /\ UNCHANGED <<file, recorded, pc, snap, accepted, shown>>
    BY <1>3, Halted DEF inbox, vars, process, history
  <2> QED BY <1>1, <2>1 DEF Shelf, ToSet
<1>4. CASE Open \/ Refuse \/ ShowNext \/ EndPresent \/ Present
  <2>1. UNCHANGED <<recorded, pc, snap, accepted, shown>>
    BY <1>4 DEF Open, Refuse, ShowNext, EndPresent, Present, Transaction, process, tracked, inbox,
                vars, history
  <2>2. \/ UNCHANGED file
        \/ \E r \in Readable : file' = r \/ \E x : file' = [r EXCEPT !.seen = x]
    BY <1>4 DEF Open, Refuse, ShowNext, EndPresent, Present, inbox, vars
  <2>3. file'.messages \subseteq file.messages
    BY <2>2, NoneAdded
  <2>4. ToSet(todo') \subseteq ToSet(todo) \cup file.messages
    <3>1. CASE Present
      BY <3>1, PresentTypes DEF Readable, Empty
    <3>2. CASE ~Present
      BY <1>4, <3>2, HeadAndTail DEF Open, Refuse, ShowNext, EndPresent, PageTypes
    <3> QED BY <3>1, <3>2
  <2> QED BY <1>1, <2>1, <2>3, <2>4 DEF Shelf
<1>5. CASE Publish
  <2>1. todo # <<>>
    BY <1>5 DEF Publish, At, PageTypes
  <2>2. /\ UNCHANGED <<file, recorded, pc, snap, accepted>>
        /\ shown' = [shown EXCEPT ![Head(todo)] = @ + 1] /\ todo' = Tail(todo)
    BY <1>5 DEF Publish, inbox, vars, process, history
  <2>3. Head(todo) \in recorded /\ ToSet(todo') \subseteq recorded
    BY <2>1, <2>2, HeadAndTail DEF Shelf, PageTypes
  <2>4. \A m \in Messages : m # Head(todo) => shown'[m] = shown[m]
    BY <2>2 DEF CallTypes
  <2> QED BY <1>1, <2>2, <2>3, <2>4 DEF Shelf
<1> QED BY <1>2, <1>3, <1>4, <1>5, ShelfReceiver, EventsActions

(* What was presented is kept. *)
LEMMA ShelfKept ==
  ASSUME FarInv, Shelf, Undisturbed, NEW m \in Messages, shown[m] > 0
  PROVE  \E n \in file.messages \cup cleared \cup trimmed \cup hidden : StableId(n) = StableId(m)
BY DEF FarInv, StaysInv, RecordedStays, Undisturbed, Shelf

------------------------------------------------------------------------------
(***************************************************************************)
(* It publishes a message once.                                            *)
(***************************************************************************)
InEvents == UNION {events[i] : i \in DOMAIN events}
Met      == recorded \cup InEvents
UnderWay     == UNION {accepted[p] : p \in Processes}

Noticed == Seen \cup Gone(forgotten)

(* Two messages share no id but such as were forgotten while they could come. *)
Parted(m, n) == IdsOf(m) \cap IdsOf(n) \subseteq Lost(forgotten)

Fresh(m) == IdsOf(m) \cap Lost(forgotten) = {}

(* Where a message is that has not been published: with one process, in one event, at one
   place of what is to be presented.                                                     *)
WithOne(m, p) ==
  /\ \A q \in Processes \ {p} : m \notin accepted[q]
  /\ m \notin InEvents \cup ToSet(todo) /\ shown[m] = 0
InOne(m, i) ==
  /\ \A j \in DOMAIN events \ {i} : m \notin events[j]
  /\ m \notin ToSet(todo) /\ shown[m] = 0
AtOne(m, k) ==
  /\ \A l \in DOMAIN todo \ {k} : todo[l] # m
  /\ shown[m] = 0

OnePlace ==
  \A m \in Messages : Fresh(m) =>
    /\ \A p \in Processes : m \in accepted[p] => WithOne(m, p)
    /\ \A i \in DOMAIN events : m \in events[i] => InOne(m, i)
    /\ \A k \in DOMAIN todo : todo[k] = m => AtOne(m, k)
    /\ shown[m] <= 1

MetSeen ==
  /\ IdsIn(Met) \subseteq Noticed
  /\ \A p \in Processes : pc[p] \in {"labels", "banner"} => IdsIn(accepted[p]) \subseteq Noticed

AllParted == \A m, n \in Met \cup UnderWay : m # n => Parted(m, n)

EventsOnce == Undisturbed => MetSeen /\ AllParted /\ OnePlace

LEMMA FreshBefore ==
  ASSUME Lost(forgotten) \subseteq Lost(forgotten)'
  PROVE  /\ \A m : Fresh(m)' => Fresh(m)
         /\ \A m, n : Parted(m, n) => Parted(m, n)'
BY DEF Fresh, Parted

(* What a step leaves to be presented: a part of it, in the same order. *)
Shorter == \/ UNCHANGED todo
           \/ todo' = <<>>
           \/ todo # <<>> /\ todo' = Tail(todo)

(* A step that adds nothing to what is under way. *)
LEMMA OnceFewer ==
  ASSUME todo \in Seq(Messages), events \in Seq(SUBSET Messages),
         MetSeen', AllParted, OnePlace, Lost(forgotten) \subseteq Lost(forgotten)',
         \A q \in Processes : accepted'[q] \subseteq accepted[q],
         recorded' \subseteq recorded \cup UnderWay,
         UNCHANGED events \/ events' = <<>>, Shorter, UNCHANGED shown
  PROVE  AllParted' /\ OnePlace'
<1>1. InEvents' \subseteq InEvents /\ UnderWay' \subseteq UnderWay
  BY DEF InEvents, UnderWay
<1>2. Met' \cup UnderWay' \subseteq Met \cup UnderWay
  BY <1>1 DEF Met
<1>3. AllParted'
  BY <1>2, FreshBefore DEF AllParted
<1>4. /\ \A k \in DOMAIN todo' : \E h \in DOMAIN todo : todo'[k] = todo[h]
      /\ \A k, l \in DOMAIN todo' : k # l =>
           \E h, i \in DOMAIN todo : h # i /\ todo'[k] = todo[h] /\ todo'[l] = todo[i]
  <2>1. CASE todo # <<>> /\ todo' = Tail(todo)
    <3>1. \A k \in DOMAIN todo' : k + 1 \in DOMAIN todo /\ todo'[k] = todo[k + 1]
      BY <2>1
    <3>2. \A k, l \in DOMAIN todo' : k # l => k + 1 # l + 1
      BY <2>1
    <3> QED BY <3>1, <3>2
  <2> QED BY <2>1 DEF Shorter
<1>5. ToSet(todo') \subseteq ToSet(todo)
  BY <1>4 DEF ToSet
<1>6. OnePlace'
  <2> SUFFICES ASSUME NEW m \in Messages, Fresh(m)'
               PROVE  /\ \A p \in Processes : m \in accepted'[p] => WithOne(m, p)'
                      /\ \A i \in DOMAIN events' : m \in events'[i] => InOne(m, i)'
                      /\ \A k \in DOMAIN todo' : todo'[k] = m => AtOne(m, k)'
                      /\ shown'[m] <= 1
    BY DEF OnePlace
  <2>1. Fresh(m)
    BY FreshBefore
  <2>2. \A p \in Processes : m \in accepted'[p] => WithOne(m, p)'
    BY <1>1, <1>5, <2>1 DEF OnePlace, WithOne
  <2>3. \A i \in DOMAIN events' : m \in events'[i] => InOne(m, i)'
    BY <1>5, <2>1 DEF OnePlace, InOne
  <2>4. \A k \in DOMAIN todo' : todo'[k] = m => AtOne(m, k)'
    BY <1>4, <2>1 DEF OnePlace, AtOne
  <2> QED BY <2>1, <2>2, <2>3, <2>4 DEF OnePlace
<1> QED BY <1>3, <1>6

(* What was met stays noticed. *)
LEMMA MetSeenKept ==
  ASSUME MetSeen, Noticed \subseteq Noticed', Met' \subseteq Met,
         \A q \in Processes :
            pc'[q] \in {"labels", "banner"} =>
              accepted'[q] = {} \/ (accepted'[q] = accepted[q] /\ pc'[q] = pc[q])
  PROVE  MetSeen'
<1>1. IdsIn(Met') \subseteq Noticed'
  BY DEF MetSeen, IdsIn
<1>2. ASSUME NEW q \in Processes, pc'[q] \in {"labels", "banner"}
      PROVE  IdsIn(accepted'[q]) \subseteq Noticed'
  BY <1>2 DEF MetSeen, IdsIn
<1> QED BY <1>1, <1>2 DEF MetSeen, IdsIn

LEMMA NoticedGrows ==
  ASSUME Undisturbed', Gone(forgotten) \subseteq Gone(forgotten)',
         Undisturbed' => Undisturbed /\ Seen \subseteq Seen' \cup Gone(forgotten)'
  PROVE  Noticed \subseteq Noticed'
BY DEF Noticed

(* A receiver does something else than to take up a batch or to report. *)
LEMMA OnceSave ==
  ASSUME PageInv, PushedStamped, FarInv, FarInv', Shelf, EventsOnce, mode = "events",
         [SurfaceNext]_allVars, NEW p \in Receivers, ReceiverStep(p),
         ~Report(p), ~ReceiverLoad(p), Undisturbed'
  PROVE  MetSeen' /\ AllParted' /\ OnePlace'
<1>1. /\ p \in Processes /\ \A q \in Processes \ {p} : SameProcess(q)
      /\ UNCHANGED <<todo, shown, forgotten, events>>
  BY ReceiverMoves DEF page, tracked
<1>2. /\ Undisturbed /\ MetSeen /\ AllParted /\ OnePlace
      /\ Lost(forgotten) \subseteq Lost(forgotten)' /\ Noticed \subseteq Noticed'
      /\ Gone(forgotten) \subseteq Gone(forgotten)'
  BY FarGrows, NoticedGrows DEF EventsOnce
<1>3. /\ \A q \in Processes : accepted'[q] \subseteq accepted[q]
      /\ recorded' \subseteq recorded \cup UnderWay
  <2>1. CASE SaveMessages(p)
    <3>1. PICK kept \in Trims(Merge(p)) : recorded' = recorded \cup kept
      BY <2>1 DEF SaveMessages
    <3>2. kept \subseteq snap[p] \cup accepted[p]
      BY DEF Trims, Merge
    <3>3. accepted'[p] = accepted[p]
      BY <2>1 DEF SaveMessages, process
    <3> QED BY <1>1, <3>1, <3>2, <3>3 DEF Shelf, UnderWay, SameProcess
  <2>2. CASE ~SaveMessages(p)
    BY <1>1, <2>2, ReceiverMoves DEF SameProcess
  <2> QED BY <2>1, <2>2
<1>4. MetSeen'
  <2>1. CASE Construct(p) \/ ReceiverPull(p) \/ Stop(p)
    <3>1. /\ recorded' = recorded
          /\ accepted'[p] = {} \/ pc'[p] \notin {"labels", "banner"}
      <4>1. CASE Stop(p)
        BY <1>1, <4>1, DomainsHold DEF Stop, Rest, history, Domains, PageInv
      <4>2. CASE Construct(p) \/ ReceiverPull(p)
        BY <1>1, <4>2, DomainsHold DEF Construct, ReceiverPull, Goto, history, Domains, PageInv
      <4> QED BY <2>1, <4>1, <4>2
    <3>2. Met' \subseteq Met
      BY <1>1, <3>1 DEF Met, InEvents
    <3>3. \A q \in Processes :
            pc'[q] \in {"labels", "banner"} =>
              accepted'[q] = {} \/ (accepted'[q] = accepted[q] /\ pc'[q] = pc[q])
      BY <1>1, <3>1 DEF SameProcess
    <3> QED BY <1>2, <3>2, <3>3, MetSeenKept
  <2>2. CASE SaveMessages(p)
    <3>1. PICK r \in Readable, kept \in Trims(Merge(p)) :
            /\ file' = [messages |-> kept, seen |-> RememberAll(r.seen, InOrder(kept))]
            /\ recorded' = recorded \cup kept
      BY <2>2 DEF SaveMessages
    <3>2. IdsIn(file'.messages) \subseteq Noticed'
      BY <1>2 DEF FarInv, KnownInv, FileSeen, IdsIn, Noticed
    <3>3. Met' = Met \cup file'.messages
      BY <1>1, <3>1 DEF Met, InEvents
    <3>4. IdsIn(Met') \subseteq Noticed'
      BY <1>2, <3>2, <3>3 DEF MetSeen, IdsIn
    <3>5. pc'[p] = "saveIds" /\ accepted' = accepted
      BY <1>1, <2>2, DomainsHold DEF SaveMessages, Goto, Domains, PageInv
    <3>6. ASSUME NEW q \in Processes, pc'[q] \in {"labels", "banner"}
          PROVE  IdsIn(accepted'[q]) \subseteq Noticed'
      BY <1>1, <1>2, <3>5, <3>6 DEF MetSeen, IdsIn, SameProcess
    <3> QED BY <3>4, <3>6 DEF MetSeen, IdsIn
  <2>3. CASE SaveSeenMessageIds(p)
    <3>1. PICK r \in Readable : file' = [r EXCEPT !.seen = ring[p]]
      BY <2>3 DEF SaveSeenMessageIds
    <3>2. /\ Seen' = ToSet(ring[p]) /\ accepted' = accepted /\ recorded' = recorded
          /\ pc[p] = "saveIds"
      BY <2>3, <3>1, SeenAfter DEF SaveSeenMessageIds, history, PageInv
    <3>3. IdsIn(accepted[p]) \subseteq Noticed'
      BY <1>1, <1>2, <3>2 DEF FarInv, KnownInv, RingCovers, Noticed
    <3>4. IdsIn(Met') \subseteq Noticed'
      BY <1>1, <1>2, <3>2 DEF MetSeen, IdsIn, Met, InEvents
    <3>5. ASSUME NEW q \in Processes, pc'[q] \in {"labels", "banner"}
          PROVE  IdsIn(accepted'[q]) \subseteq Noticed'
      BY <1>1, <1>2, <3>2, <3>3, <3>5 DEF MetSeen, IdsIn, SameProcess
    <3> QED BY <3>4, <3>5 DEF MetSeen, IdsIn
  <2> QED BY <2>1, <2>2, <2>3 DEF ReceiverStep, Receiver
<1> QED
  BY <1>1, <1>2, <1>3, <1>4, OnceFewer DEF Shorter, PageInv, PageTypes, OnlyMessages

(* Its report goes from what it holds to the events. *)
LEMMA OnceReport ==
  ASSUME PageInv, PushedStamped, FarInv, Shelf, EventsOnce, mode = "events",
         [SurfaceNext]_allVars, NEW p \in Receivers, ReceiverStep(p), Report(p), Undisturbed'
  PROVE  MetSeen' /\ AllParted' /\ OnePlace'
<1>1. /\ p \in Processes /\ \A q \in Processes \ {p} : SameProcess(q)
      /\ UNCHANGED <<todo, shown, forgotten, recorded>>
      /\ accepted'[p] = {} /\ pc'[p] \in {"new", "idle"} /\ pc[p] = "labels"
  <2>1. UNCHANGED recorded
    BY DEF Report, SaveKnownLabels, history
  <2>2. pc[p] = "labels" /\ p \notin Workers /\ p \in Processes
    BY ProcessesAssumption DEF Report, SaveKnownLabels, Processes
  <2>3. accepted'[p] = {} /\ pc'[p] = "idle"
    BY <2>2, DomainsHold DEF Report, SaveKnownLabels, Rest, Goto, Domains, PageInv
  <2> QED BY <2>1, <2>2, <2>3, ReceiverMoves DEF page, tracked
<1>2. /\ Undisturbed /\ MetSeen /\ AllParted /\ OnePlace
      /\ Lost(forgotten) \subseteq Lost(forgotten)' /\ Noticed \subseteq Noticed'
  BY FarGrows, NoticedGrows DEF EventsOnce
<1>3. events' = events \/ events' = Append(events, accepted[p])
  BY DEF Report
<1>4. events \in Seq(SUBSET Messages) /\ accepted[p] \in SUBSET Messages /\ todo \in Seq(Messages)
  BY <1>1 DEF PageInv, PageTypes, OnlyMessages
<1>5. CASE events' = events
  <2>1. Met' \subseteq Met
    BY <1>1, <1>5 DEF Met, InEvents
  <2>2. MetSeen'
    BY <1>1, <1>2, <2>1, MetSeenKept DEF SameProcess
  <2>3. \A q \in Processes : accepted'[q] \subseteq accepted[q]
    BY <1>1 DEF SameProcess
  <2> QED BY <1>1, <1>2, <1>4, <1>5, <2>2, <2>3, OnceFewer DEF Shorter
<1>6. CASE events' = Append(events, accepted[p])
  <2>1. /\ DOMAIN events' = DOMAIN events \cup {Len(events) + 1} /\ Len(events) + 1 \notin DOMAIN events
        /\ events'[Len(events) + 1] = accepted[p] /\ \A i \in DOMAIN events : events'[i] = events[i]
    BY <1>4, <1>6
  <2>2. InEvents' = InEvents \cup accepted[p]
    BY <2>1 DEF InEvents
  <2>3. Met' = Met \cup accepted[p]
    BY <1>1, <2>2 DEF Met
  <2>4. UnderWay' \subseteq UnderWay /\ accepted[p] \subseteq UnderWay
    BY <1>1 DEF UnderWay, SameProcess
  <2>5. AllParted'
    BY <1>2, <2>3, <2>4, FreshBefore DEF AllParted
  <2>6. MetSeen'
    <3>1. IdsIn(Met') \subseteq Noticed'
      BY <1>1, <1>2, <2>3 DEF MetSeen, IdsIn
    <3>2. ASSUME NEW q \in Processes, pc'[q] \in {"labels", "banner"}
          PROVE  IdsIn(accepted'[q]) \subseteq Noticed'
      BY <1>1, <1>2, <3>2 DEF MetSeen, IdsIn, SameProcess
    <3> QED BY <3>1, <3>2 DEF MetSeen, IdsIn
  <2>7. OnePlace'
    <3> SUFFICES ASSUME NEW m \in Messages, Fresh(m)'
                 PROVE  /\ \A q \in Processes : m \in accepted'[q] => WithOne(m, q)'
                        /\ \A i \in DOMAIN events' : m \in events'[i] => InOne(m, i)'
                        /\ \A k \in DOMAIN todo' : todo'[k] = m => AtOne(m, k)'
                        /\ shown'[m] <= 1
      BY DEF OnePlace
    <3>1. /\ \A q \in Processes : m \in accepted[q] => WithOne(m, q)
          /\ \A i \in DOMAIN events : m \in events[i] => InOne(m, i)
          /\ \A k \in DOMAIN todo : todo[k] = m => AtOne(m, k)
          /\ shown[m] <= 1
      BY <1>2, FreshBefore DEF OnePlace
    <3>2. ASSUME NEW q \in Processes, m \in accepted'[q] PROVE WithOne(m, q)'
      <4>1. q # p /\ m \in accepted[q] /\ m \notin accepted[p]
        BY <1>1, <3>1, <3>2 DEF SameProcess, WithOne
      <4> QED BY <1>1, <2>2, <3>1, <4>1 DEF SameProcess, WithOne
    <3>3. ASSUME NEW i \in DOMAIN events', m \in events'[i] PROVE InOne(m, i)'
      <4>1. CASE i = Len(events) + 1
        <5>1. WithOne(m, p)
          BY <1>1, <2>1, <3>1, <3>3, <4>1
        <5>2. \A j \in DOMAIN events : m \notin events[j]
          BY <5>1 DEF WithOne, InEvents
        <5> QED BY <1>1, <2>1, <4>1, <5>1, <5>2 DEF WithOne, InOne
      <4>2. CASE i \in DOMAIN events
        <5>1. InOne(m, i) /\ m \in InEvents
          BY <2>1, <3>1, <3>3, <4>2 DEF InEvents
        <5>2. m \notin accepted[p]
          BY <1>1, <3>1, <5>1 DEF WithOne
        <5> QED BY <1>1, <2>1, <5>1, <5>2 DEF InOne
      <4> QED BY <2>1, <4>1, <4>2
    <3>4. \A k \in DOMAIN todo' : todo'[k] = m => AtOne(m, k)'
      BY <1>1, <3>1 DEF AtOne
    <3> QED BY <1>1, <3>1, <3>2, <3>3, <3>4
  <2> QED BY <2>5, <2>6, <2>7
<1> QED BY <1>3, <1>5, <1>6

(* What it accepts is new to a ring that knows what was met, but for what was forgotten. *)
LEMMA OnceLoad ==
  ASSUME PageInv, PushedStamped, FarInv, FarInv', Shelf, EventsOnce, mode = "events",
         [SurfaceNext]_allVars, NEW p \in Receivers, ReceiverStep(p), ReceiverLoad(p), Undisturbed'
  PROVE  MetSeen' /\ AllParted' /\ OnePlace'
<1>1. /\ p \in Processes /\ \A q \in Processes \ {p} : SameProcess(q)
      /\ UNCHANGED <<todo, shown, forgotten, events>>
  <2>1. ~Report(p)
    BY DEF Report, ReceiverLoad, SaveKnownLabels
  <2> QED BY <2>1, ReceiverMoves DEF page, tracked
<1>2. /\ Undisturbed /\ MetSeen /\ AllParted /\ OnePlace /\ Onward
      /\ Lost(forgotten) \subseteq Lost(forgotten)' /\ Noticed \subseteq Noticed'
  BY FarGrows, NoticedGrows DEF EventsOnce
<1>3. UNCHANGED <<file, recorded>> /\ pc[p] = "load" /\ NoteOverlap(p)
  BY DEF ReceiverLoad
<1>4. Met' = Met
  BY <1>1, <1>3 DEF Met, InEvents
<1>5. PICK batch \in Seq(Records), r \in Readable :
        /\ Read(r) /\ Take(p, r.messages, Seeded(r), batch)
        /\ ToSet(batch) \subseteq MayCome
        /\ Drop(SeedingForgets(r) \cup Forgets(Seeded(r), batch))
  BY <1>1, OfferedMayCome DEF PageInv
<1>6. PICK o, F, ids : /\ o = Seeded(r) /\ F = Forgets(o, batch)
                       /\ ids = SeedingForgets(r) \cup F
  OBVIOUS
<1>7. PICK new : new = Accepted(o, batch)
  OBVIOUS
<1>8. o \in RingOf(Ids) /\ r = file
  BY <1>2, <1>5, <1>6, ReadableOK, PageRead DEF PageInv, Undisturbed
<1>9. /\ F \subseteq Ids /\ new \subseteq ToSet(batch) /\ IdsIn(new) \cap ToSet(o) \subseteq F
      /\ \A m, n \in new : m # n => IdsOf(m) \cap IdsOf(n) \subseteq F
  BY <1>6, <1>7, <1>8, BatchIsRemembered
<1>10. SeedingForgets(r) \subseteq Ids /\ Seen \subseteq ToSet(o) \cup SeedingForgets(r)
  BY <1>5, <1>6, <1>8, SeededIsRemembered DEF Seen, PageInv
<1>11. Drop(ids) /\ ids \subseteq Ids
  BY <1>5, <1>6, <1>9, <1>10
<1>12. \A m \in new : IdsOf(m) \cap (Gone(forgotten) \cup ids) \subseteq Lost(forgotten)'
  <2>1. PICK X : X = forgotten
    OBVIOUS
  <2>2. \A m \in MayCome : IdsOf(m) \cap (Gone(X) \cup ids) \subseteq Lost(X)'
    BY <1>2, <1>11, DroppedIsGone
  <2>3. Lost(X)' = Lost(forgotten)' /\ Gone(X) = Gone(forgotten)
    BY <1>1, <2>1, RigidAfter
  <2> QED BY <1>5, <1>9, <2>2, <2>3
<1>13. \A m, n \in new : m # n => Parted(m, n)'
  BY <1>6, <1>9, <1>12 DEF Parted
<1>14. \A m \in new : IdsOf(m) \cap Noticed \subseteq Lost(forgotten)'
  <2> SUFFICES ASSUME NEW m \in new PROVE IdsOf(m) \cap Noticed \subseteq Lost(forgotten)'
    OBVIOUS
  <2>1. IdsOf(m) \cap ToSet(o) \subseteq ids
    BY <1>6, <1>9 DEF IdsIn
  <2>2. Noticed \subseteq ToSet(o) \cup ids \cup Gone(forgotten)
    BY <1>6, <1>10 DEF Noticed
  <2> QED BY <1>12, <2>1, <2>2
<1>15. CASE accepted'[p] = {}
  <2>1. MetSeen'
    BY <1>1, <1>2, <1>4, <1>15, MetSeenKept DEF SameProcess
  <2>2. \A q \in Processes : accepted'[q] \subseteq accepted[q]
    BY <1>1, <1>15 DEF SameProcess
  <2> QED BY <1>1, <1>2, <1>3, <2>1, <2>2, OnceFewer DEF Shorter, PageInv, PageTypes, OnlyMessages
<1>16. CASE accepted'[p] # {}
  <2>1. accepted'[p] = new /\ pc'[p] = "save"
    BY <1>1, <1>5, <1>6, <1>7, <1>16, DomainsHold DEF Take, Rest, Goto, Domains, PageInv
  <2>2. MetSeen'
    BY <1>1, <1>2, <1>4, <2>1, MetSeenKept DEF SameProcess
  <2>3. ASSUME NEW q \in Processes \ {p}, accepted[q] # {}
        PROVE  IdsIn(accepted[q]) \subseteq Noticed
    <3>1. ~Saving(q)
      BY <1>1, <2>1 DEF FarInv, StaysInv, OneSaver, Saving, SameProcess
    <3>2. pc[q] \in {"labels", "banner"}
      BY <2>3, <3>1 DEF Shelf, Saving, PageInv, TypeInv, TypeOK, ProcessOK
    <3> QED BY <1>2, <3>2 DEF MetSeen
  <2>4. ASSUME NEW m \in new, NEW n, n \in Met \/ \E q \in Processes \ {p} : n \in accepted[q]
        PROVE  IdsOf(n) \subseteq Noticed /\ Parted(m, n)' /\ Parted(n, m)'
    <3>1. IdsOf(n) \subseteq Noticed
      BY <1>2, <2>3, <2>4 DEF MetSeen, IdsIn
    <3> QED BY <1>14, <3>1 DEF Parted
  <2>5. UnderWay' \subseteq new \cup UNION {accepted[q] : q \in Processes \ {p}}
    BY <1>1, <2>1 DEF UnderWay, SameProcess
  <2>6. AllParted'
    <3> SUFFICES ASSUME NEW m \in Met' \cup UnderWay', NEW n \in Met' \cup UnderWay', m # n
                 PROVE  Parted(m, n)'
      BY DEF AllParted
    <3>1. CASE m \in new /\ n \in new
      BY <1>13, <3>1
    <3>2. CASE m \in new /\ n \notin new
      BY <1>4, <2>4, <2>5, <3>2
    <3>3. CASE m \notin new /\ n \in new
      BY <1>4, <2>4, <2>5, <3>3
    <3>4. CASE m \notin new /\ n \notin new
      <4>1. m \in Met \cup UnderWay /\ n \in Met \cup UnderWay
        BY <1>4, <2>5, <3>4 DEF UnderWay
      <4> QED BY <1>2, <4>1, FreshBefore DEF AllParted
    <3> QED BY <3>1, <3>2, <3>3, <3>4
  <2>7. ASSUME NEW m \in Messages, Fresh(m)', m \in new
        PROVE  /\ m \notin Met /\ \A q \in Processes \ {p} : m \notin accepted[q]
               /\ m \notin ToSet(todo) /\ shown[m] = 0
    <3>1. StableId(m) \in IdsOf(m)
      BY DEF IdsOf
    <3>2. ~(IdsOf(m) \subseteq Noticed)
      BY <1>14, <2>7, <3>1 DEF Fresh
    <3>3. m \notin Met /\ \A q \in Processes \ {p} : m \notin accepted[q]
      BY <2>4, <2>7, <3>2
    <3>4. shown[m] \in Nat
      BY DEF PageInv, CallTypes
    <3> QED BY <3>3, <3>4 DEF Met, Shelf
  <2>8. OnePlace'
    <3> SUFFICES ASSUME NEW m \in Messages, Fresh(m)'
                 PROVE  /\ \A q \in Processes : m \in accepted'[q] => WithOne(m, q)'
                        /\ \A i \in DOMAIN events' : m \in events'[i] => InOne(m, i)'
                        /\ \A k \in DOMAIN todo' : todo'[k] = m => AtOne(m, k)'
                        /\ shown'[m] <= 1
      BY DEF OnePlace
    <3>1. /\ \A q \in Processes : m \in accepted[q] => WithOne(m, q)
          /\ \A i \in DOMAIN events : m \in events[i] => InOne(m, i)
          /\ \A k \in DOMAIN todo : todo[k] = m => AtOne(m, k)
          /\ shown[m] <= 1
      BY <1>2, FreshBefore DEF OnePlace
    <3>2. InEvents' = InEvents
      BY <1>1 DEF InEvents
    <3>3. ASSUME NEW q \in Processes, m \in accepted'[q] PROVE WithOne(m, q)'
      <4>1. CASE q = p
        <5>1. m \in new
          BY <2>1, <3>3, <4>1
        <5> QED BY <1>1, <2>7, <3>2, <4>1, <5>1 DEF WithOne, Met, SameProcess
      <4>2. CASE q # p
        <5>1. WithOne(m, q) /\ m \in accepted[q]
          BY <1>1, <3>1, <3>3, <4>2 DEF SameProcess
        <5>2. m \notin new
          BY <2>7, <4>2, <5>1
        <5> QED BY <1>1, <2>1, <3>2, <5>1, <5>2 DEF WithOne, SameProcess
      <4> QED BY <4>1, <4>2
    <3>4. \A i \in DOMAIN events' : m \in events'[i] => InOne(m, i)'
      BY <1>1, <3>1 DEF InOne
    <3>5. \A k \in DOMAIN todo' : todo'[k] = m => AtOne(m, k)'
      BY <1>1, <3>1 DEF AtOne
    <3> QED BY <1>1, <3>1, <3>3, <3>4, <3>5
  <2> QED BY <2>2, <2>6, <2>8
<1> QED BY <1>15, <1>16

(* Each message to be presented has an id of another one of the event. *)
LEMMA PresentedAsked ==
  ASSUME PageInv, Present
  PROVE  /\ events \in Seq(SUBSET Messages) /\ events # <<>> /\ events' = Tail(events)
         /\ todo' \in Seq(Messages) /\ ui = "idle"
         /\ \E r \in Readable : Read(r) /\ ToSet(todo') \subseteq r.messages
         /\ \E f : /\ \A k \in DOMAIN todo' :
                        f[k] \in Head(events) /\ StableId(f[k]) \in IdsOf(todo'[k])
                   /\ \A k, l \in DOMAIN todo' : k # l => f[k] # f[l]
<1>1. mode = "events" /\ events \in Seq(SUBSET Messages) /\ events # <<>> /\ events' = Tail(events)
  BY DEF Present, PageInv, OnlyMessages
<1> DEFINE requested == InOrder(Head(events))
           persisted(r) == InOrder(r.messages)
           matched(r) == {i \in DOMAIN requested : Places(persisted(r), requested[i]) # {}}
           found(r, s) == [i \in DOMAIN s |-> persisted(r)[Max(Places(persisted(r), requested[s[i]]))]]
<1>2. PICK r \in Readable :
        \E s \in [1 .. Cardinality(matched(r)) -> matched(r)] :
          (\A i, j \in DOMAIN s : i < j => s[i] < s[j]) /\ todo' = found(r, s)
  BY DEF Present
<1>3. PICK s \in [1 .. Cardinality(matched(r)) -> matched(r)] :
        (\A i, j \in DOMAIN s : i < j => s[i] < s[j]) /\ todo' = found(r, s)
  BY <1>2
<1>4. /\ ServerOK /\ Head(events) \in SUBSET Messages /\ Head(events) \subseteq Records
      /\ r.messages \subseteq Records
  BY <1>1, ReadableOK DEF PageInv, TypeInv, TypeOK, Records
<1>5. requested \in Seq(Head(events)) /\ persisted(r) \in Seq(r.messages) /\ IsInjective(requested)
  <2>1. PICK S : S = Head(events)
    OBVIOUS
  <2>2. IsInjective(InOrder(S))
    BY <1>4, <2>1, SortExists DEF InOrder, Sorts
  <2> QED BY <1>4, <2>1, <2>2, InOrderSorts
<1> HIDE DEF requested, persisted
<1>6. DOMAIN todo' = DOMAIN s /\ \A k \in DOMAIN s : s[k] \in matched(r)
  BY <1>3
<1> DEFINE f == [k \in DOMAIN s |-> requested[s[k]]]
<1>7. ASSUME NEW k \in DOMAIN s
      PROVE  f[k] \in Head(events) /\ StableId(f[k]) \in IdsOf(todo'[k])
  <2>1. /\ s[k] \in DOMAIN requested
        /\ Places(persisted(r), requested[s[k]]) # {}
    BY <1>6, <1>7
  <2>2. Places(persisted(r), requested[s[k]]) \subseteq 1 .. Len(persisted(r))
    BY <1>5 DEF Places
  <2>3. PICK n \in Nat : n = Len(persisted(r))
    BY <1>5
  <2>4. Places(persisted(r), requested[s[k]]) \in SUBSET (0 .. n)
    BY <2>2, <2>3
  <2>5. Max(Places(persisted(r), requested[s[k]])) \in Places(persisted(r), requested[s[k]])
    BY <2>1, <2>4, MaxOfNumbers
  <2>6. StableId(requested[s[k]]) \in IdsOf(persisted(r)[Max(Places(persisted(r), requested[s[k]]))])
    BY <2>5 DEF Places
  <2>7. requested[s[k]] \in Head(events)
    BY <1>5, <2>1
  <2> QED BY <1>3, <2>6, <2>7
<1>8. ASSUME NEW k \in DOMAIN s, NEW l \in DOMAIN s, k # l
      PROVE  f[k] # f[l]
  <2>1. s[k] \in DOMAIN requested /\ s[l] \in DOMAIN requested
    BY <1>6
  <2>2. PICK n \in Nat : DOMAIN requested = 1 .. n
    BY <1>5
  <2>3. PICK c : c = Cardinality(matched(r))
    OBVIOUS
  <2>4. matched(r) \subseteq 1 .. n /\ DOMAIN s = 1 .. c
    BY <1>3, <2>2, <2>3
  <2>5. c \in Nat
    <3>1. IsFiniteSet(1 .. n)
      BY FS_Interval
    <3> QED BY <2>3, <2>4, <3>1, FS_Subset, FS_CardinalityType
  <2>6. k \in Nat /\ l \in Nat /\ s[k] \in Nat /\ s[l] \in Nat
    BY <2>1, <2>2, <2>4, <2>5
  <2>7. s[k] # s[l]
    <3>1. (k < l => s[k] < s[l]) /\ (l < k => s[l] < s[k])
      BY <1>3
    <3> QED BY <1>8, <2>6, <3>1
  <2> QED BY <1>5, <2>1, <2>7 DEF IsInjective
<1>9. \E g : /\ \A k \in DOMAIN todo' :
                  g[k] \in Head(events) /\ StableId(g[k]) \in IdsOf(todo'[k])
             /\ \A k, l \in DOMAIN todo' : k # l => g[k] # g[l]
  BY <1>6, <1>7, <1>8
<1>10. ui = "idle"
  BY DEF Present, At
<1> QED BY <1>1, <1>9, <1>10, PresentTypes

LEMMA OncePresent ==
  ASSUME PageInv, PushedStamped, FarInv, Shelf, EventsView, EventsOnce, mode = "events",
         [SurfaceNext]_allVars, Present, Undisturbed'
  PROVE  MetSeen' /\ AllParted' /\ OnePlace'
<1>1. /\ Undisturbed /\ MetSeen /\ AllParted /\ OnePlace
      /\ Lost(forgotten) \subseteq Lost(forgotten)' /\ Noticed \subseteq Noticed'
  BY FarGrows, NoticedGrows DEF EventsOnce
<1>2. UNCHANGED <<recorded, accepted, pc, shown, forgotten>>
  BY DEF Present, Transaction, process, tracked
<1>a. PICK r \in Readable : Read(r) /\ ToSet(todo') \subseteq r.messages
  BY PresentedAsked
<1>3. PICK f :
        /\ \A k \in DOMAIN todo' : f[k] \in Head(events) /\ StableId(f[k]) \in IdsOf(todo'[k])
        /\ \A k, l \in DOMAIN todo' : k # l => f[k] # f[l]
  BY PresentedAsked
<1>4. /\ events \in Seq(SUBSET Messages) /\ events # <<>> /\ events' = Tail(events)
      /\ todo' \in Seq(Messages)
  BY PresentedAsked
<1>5. ToSet(todo') \subseteq recorded
  BY <1>a DEF Shelf, Readable, Empty
<1>6. /\ \A i \in DOMAIN events' : i + 1 \in DOMAIN events /\ events'[i] = events[i + 1]
      /\ 1 \in DOMAIN events /\ events[1] = Head(events)
      /\ \A i \in DOMAIN events' : i + 1 # 1 /\ \A j \in DOMAIN events' : i # j => i + 1 # j + 1
  BY <1>4
<1>7. InEvents' \subseteq InEvents /\ Head(events) \subseteq InEvents
  BY <1>6 DEF InEvents
<1>8. Met' \subseteq Met /\ UnderWay' = UnderWay
  BY <1>2, <1>7 DEF Met, UnderWay
<1>9. MetSeen'
  BY <1>1, <1>2, <1>8, MetSeenKept
<1>10. AllParted'
  BY <1>1, <1>8, FreshBefore DEF AllParted
<1>11. OnePlace'
  <2> SUFFICES ASSUME NEW m \in Messages, Fresh(m)'
               PROVE  /\ \A q \in Processes : m \in accepted'[q] => WithOne(m, q)'
                      /\ \A i \in DOMAIN events' : m \in events'[i] => InOne(m, i)'
                      /\ \A k \in DOMAIN todo' : todo'[k] = m => AtOne(m, k)'
                      /\ shown'[m] <= 1
    BY DEF OnePlace
  <2>1. /\ \A q \in Processes : m \in accepted[q] => WithOne(m, q)
        /\ \A i \in DOMAIN events : m \in events[i] => InOne(m, i)
        /\ shown[m] <= 1 /\ Fresh(m)
    BY <1>1, FreshBefore DEF OnePlace
  <2>2. ASSUME NEW k \in DOMAIN todo', todo'[k] = m
        PROVE  f[k] = m /\ m \in Head(events)
    <3>1. f[k] \in Met /\ m \in Met
      BY <1>3, <1>5, <1>7, <2>2 DEF Met, ToSet
    <3>2. f[k] # m => StableId(f[k]) \in IdsOf(m) \cap Lost(forgotten)
      BY <1>1, <1>3, <2>2, <3>1 DEF AllParted, Parted, IdsOf
    <3> QED BY <1>3, <2>1, <2>2, <3>2 DEF Fresh
  <2>3. m \in ToSet(todo') => m \in Head(events)
    BY <2>2 DEF ToSet
  <2>4. ASSUME NEW q \in Processes, m \in accepted'[q] PROVE WithOne(m, q)'
    <3>1. WithOne(m, q)
      BY <1>2, <2>1, <2>4
    <3> QED BY <1>2, <1>7, <2>3, <3>1 DEF WithOne
  <2>5. ASSUME NEW i \in DOMAIN events', m \in events'[i] PROVE InOne(m, i)'
    <3>1. InOne(m, i + 1)
      BY <1>6, <2>1, <2>5
    <3>2. m \notin Head(events)
      BY <1>6, <2>5, <3>1 DEF InOne
    <3> QED BY <1>2, <1>6, <2>3, <2>5, <3>1, <3>2 DEF InOne
  <2>6. ASSUME NEW k \in DOMAIN todo', todo'[k] = m PROVE AtOne(m, k)'
    <3>1. InOne(m, 1)
      BY <1>6, <2>1, <2>2, <2>6
    <3>2. \A l \in DOMAIN todo' \ {k} : todo'[l] # m
      BY <1>3, <2>2, <2>6
    <3> QED BY <1>2, <3>1, <3>2 DEF AtOne, InOne
  <2> QED BY <1>2, <2>1, <2>4, <2>5, <2>6
<1> QED BY <1>9, <1>10, <1>11

LEMMA OncePublish ==
  ASSUME PageInv, PushedStamped, FarInv, Shelf, EventsOnce, mode = "events",
         [SurfaceNext]_allVars, Publish, Undisturbed'
  PROVE  MetSeen' /\ AllParted' /\ OnePlace'
<1>1. /\ Undisturbed /\ MetSeen /\ AllParted /\ OnePlace
      /\ Lost(forgotten) \subseteq Lost(forgotten)' /\ Noticed \subseteq Noticed'
  BY FarGrows, NoticedGrows DEF EventsOnce
<1>2. /\ UNCHANGED <<recorded, accepted, pc, events, forgotten>>
      /\ todo # <<>> /\ todo \in Seq(Messages) /\ todo' = Tail(todo)
      /\ shown' = [shown EXCEPT ![Head(todo)] = @ + 1] /\ shown \in [Messages -> Nat]
  BY DEF Publish, At, inbox, vars, process, history, PageInv, PageTypes, CallTypes
<1>3. Met' = Met /\ UnderWay' = UnderWay /\ InEvents' = InEvents
  BY <1>2 DEF Met, UnderWay, InEvents
<1>4. MetSeen'
  BY <1>1, <1>2, <1>3, MetSeenKept
<1>5. AllParted'
  BY <1>1, <1>3, FreshBefore DEF AllParted
<1>6. /\ \A k \in DOMAIN todo' : k + 1 \in DOMAIN todo /\ todo'[k] = todo[k + 1] /\ k + 1 # 1
      /\ \A k, l \in DOMAIN todo' : k # l => k + 1 # l + 1
      /\ 1 \in DOMAIN todo /\ todo[1] = Head(todo)
  BY <1>2
<1>7. ToSet(todo') \subseteq ToSet(todo) /\ Head(todo) \in ToSet(todo)
  BY <1>2, HeadAndTail
<1>8. \A m \in Messages : shown'[m] = IF m = Head(todo) THEN shown[m] + 1 ELSE shown[m]
  BY <1>2
<1>9. OnePlace'
  <2> SUFFICES ASSUME NEW m \in Messages, Fresh(m)'
               PROVE  /\ \A q \in Processes : m \in accepted'[q] => WithOne(m, q)'
                      /\ \A i \in DOMAIN events' : m \in events'[i] => InOne(m, i)'
                      /\ \A k \in DOMAIN todo' : todo'[k] = m => AtOne(m, k)'
                      /\ shown'[m] <= 1
    BY DEF OnePlace
  <2>1. /\ \A q \in Processes : m \in accepted[q] => WithOne(m, q)
        /\ \A i \in DOMAIN events : m \in events[i] => InOne(m, i)
        /\ \A k \in DOMAIN todo : todo[k] = m => AtOne(m, k)
        /\ shown[m] <= 1
    BY <1>1, FreshBefore DEF OnePlace
  <2>2. CASE m = Head(todo)
    <3>1. AtOne(m, 1) /\ m \in ToSet(todo)
      BY <1>6, <1>7, <2>1, <2>2
    <3>2. shown'[m] = 1
      BY <1>8, <2>2, <3>1 DEF AtOne
    <3>3. /\ \A q \in Processes : m \notin accepted[q]
          /\ \A i \in DOMAIN events : m \notin events[i]
      BY <2>1, <3>1 DEF WithOne, InOne
    <3>4. \A k \in DOMAIN todo' : todo'[k] # m
      BY <1>6, <3>1 DEF AtOne
    <3> QED BY <1>2, <3>2, <3>3, <3>4
  <2>3. CASE m # Head(todo)
    <3>1. shown'[m] = shown[m]
      BY <1>8, <2>3
    <3>2. \A q \in Processes : m \in accepted'[q] => WithOne(m, q)'
      BY <1>2, <1>3, <1>7, <2>1, <3>1 DEF WithOne
    <3>3. \A i \in DOMAIN events' : m \in events'[i] => InOne(m, i)'
      BY <1>2, <1>7, <2>1, <3>1 DEF InOne
    <3>4. \A k \in DOMAIN todo' : todo'[k] = m => AtOne(m, k)'
      BY <1>6, <2>1, <3>1 DEF AtOne
    <3> QED BY <2>1, <3>1, <3>2, <3>3, <3>4
  <2> QED BY <2>2, <2>3
<1> QED BY <1>4, <1>5, <1>9

LEMMA OnceNext ==
  ASSUME PageInv, PushedStamped, FarInv, FarInv', Shelf, EventsView, EventsOnce, mode = "events",
         [SurfaceNext]_allVars
  PROVE  EventsOnce'
<1> SUFFICES ASSUME Undisturbed' PROVE MetSeen' /\ AllParted' /\ OnePlace'
  BY DEF EventsOnce
<1>1. /\ Undisturbed /\ MetSeen /\ AllParted /\ OnePlace
      /\ Lost(forgotten) \subseteq Lost(forgotten)' /\ Noticed \subseteq Noticed'
  BY FarGrows, NoticedGrows DEF EventsOnce
<1>2. ASSUME UNCHANGED <<recorded, accepted, pc, shown>>, UNCHANGED events \/ events' = <<>>, Shorter
      PROVE  MetSeen' /\ AllParted' /\ OnePlace'
  <2>1. Met' \subseteq Met
    BY <1>2 DEF Met, InEvents
  <2>2. MetSeen'
    BY <1>1, <1>2, <2>1, MetSeenKept
  <2> QED BY <1>1, <1>2, <2>2, OnceFewer DEF PageInv, PageTypes, OnlyMessages
<1>3. CASE ServerStep \/ UNCHANGED allVars \/ Filter \/ Clear \/ ClearFails
  BY <1>2, <1>3 DEF ServerStep, Tick, Stamp, Push, Filter, SaveFilter, Clear, ClearMessages,
       ClearFails, history, process, inbox, vars, allVars, surface, page, tracked, Shorter
<1>4. CASE Fail \/ Close
  BY <1>2, <1>4, Halted DEF inbox, vars, process, history, Shorter
<1>5. CASE Open \/ EndPresent
  BY <1>2, <1>5 DEF Open, EndPresent, Transaction, process, Shorter
<1>6. CASE Refuse \/ ShowNext
  BY <1>2, <1>6 DEF Refuse, ShowNext, Transaction, process, inbox, vars, history, tracked, Shorter
<1> QED
  BY <1>3, <1>4, <1>5, <1>6, OnceSave, OnceReport, OnceLoad, OncePresent, OncePublish, EventsActions
  DEF PageInv

------------------------------------------------------------------------------
(***************************************************************************)
(* What holds in every deployment.                                         *)
(***************************************************************************)
EventsInv == EventsView /\ Shelf /\ EventsOnce

SurfaceInv ==
  /\ PageInv /\ PushedStamped
  /\ mode = "own" => OwnInv
  /\ mode # "own" => FarInv /\ RingSeen /\ ServiceView
  /\ mode = "events" => EventsInv

LEMMA SurfaceInvInit == SurfaceInit => SurfaceInv
<1> SUFFICES ASSUME SurfaceInit PROVE SurfaceInv
  OBVIOUS
<1>1. /\ view = <<>> /\ todo = <<>> /\ ui = "off" /\ ToSet(<<>>) = {} /\ IdsIn({}) = {}
      /\ shown = [m \in Messages |-> 0] /\ events = <<>> /\ Init
  BY DEF SurfaceInit, ToSet, IdsIn
<1>2. EventsView /\ ServiceView
  BY <1>1 DEF EventsView, ServiceView, Away
<1>3. /\ recorded = {} /\ file.messages = {}
      /\ \A p \in Processes : accepted[p] = {} /\ snap[p] = {}
  BY <1>1 DEF Init, Empty
<1>4. Shelf
  BY <1>1, <1>3 DEF Shelf
<1>5. EventsOnce
  <2>1. Met = {} /\ UnderWay = {}
    BY <1>1, <1>3 DEF Met, UnderWay, InEvents
  <2>2. MetSeen /\ AllParted
    BY <1>1, <1>3, <2>1 DEF MetSeen, AllParted
  <2>3. OnePlace
    BY <1>1, <1>3 DEF OnePlace
  <2> QED BY <2>2, <2>3 DEF EventsOnce
<1> QED BY <1>1, <1>2, <1>4, <1>5, PageInit, PassInit, OwnInit, FarInit DEF SurfaceInv, EventsInv, PassInv

LEMMA SurfaceInvNext == SurfaceInv /\ [SurfaceNext]_allVars => SurfaceInv'
<1> SUFFICES ASSUME SurfaceInv, [SurfaceNext]_allVars PROVE SurfaceInv'
  OBVIOUS
<1>1. PageInv' /\ PushedStamped' /\ mode' = mode
  BY PageNext, ModeSame, SurfaceOnward DEF SurfaceInv
<1>2. CASE mode = "own"
  BY <1>1, <1>2, OwnNext DEF SurfaceInv
<1>3. CASE mode = "events"
  <2>1. PageInv /\ PushedStamped /\ FarInv /\ RingSeen /\ EventsView /\ Shelf /\ EventsOnce /\ ServiceView
    BY <1>3 DEF SurfaceInv, EventsInv
  <2>2. FarInv' /\ RingSeen' /\ ServiceView' /\ EventsView' /\ Shelf'
    BY <1>3, <2>1, FarNext, RingSeenNext, ServiceViewNext, EventsViewNext, ShelfNext
  <2> QED BY <1>1, <1>3, <2>1, <2>2, OnceNext DEF SurfaceInv, EventsInv
<1>4. CASE mode \notin {"own", "events"}
  <2>1. PageInv /\ PushedStamped /\ FarInv /\ RingSeen /\ ServiceView
    BY <1>4 DEF SurfaceInv
  <2>2. RingSeen'
    BY <1>1, <1>4 DEF RingSeen
  <2> QED BY <1>1, <1>4, <2>1, <2>2, FarNext, ServiceViewNext DEF SurfaceInv
<1> QED BY <1>2, <1>3, <1>4

(* The page publishes one of the messages that share an id, and that once: whatever ends its
   poll or the Shell, whatever the user clears and the receiver saves meanwhile, and however
   small a ring is; but for those of which an id was forgotten while a pull could still
   return them.                                                                            *)
THEOREM PublishedOnceHolds == SurfaceSpec => []PublishedOnce
<1>1. SurfaceInv => PublishedOnce
  <2> SUFFICES ASSUME SurfaceInv, Undisturbed, NEW m \in Messages, NEW n \in Messages,
                      IdsOf(m) \cap Lost(forgotten) = {}
               PROVE  shown[m] <= 1 /\ (m # n /\ SameIds(m, n) => shown[m] = 0 \/ shown[n] = 0)
    BY DEF PublishedOnce, Undisturbed, Lapsed, Lost
  <2>0. shown[m] \in Nat /\ shown[n] \in Nat
    BY DEF SurfaceInv, PageInv, CallTypes
  <2>1. CASE mode = "own"
    BY <2>1 DEF SurfaceInv, OwnInv, OwnShown, Undisturbed, Common, Lost
  <2>2. CASE mode = "events"
    <3>1. Shelf /\ AllParted /\ OnePlace
      BY <2>2 DEF SurfaceInv, EventsInv, EventsOnce
    <3>2. shown[m] <= 1
      BY <3>1 DEF OnePlace, Fresh
    <3>3. shown[m] > 0 /\ shown[n] > 0 /\ m # n => IdsOf(m) \cap IdsOf(n) \subseteq Lost(forgotten)
      BY <3>1 DEF Shelf, AllParted, Parted, Met
    <3> QED BY <2>0, <3>2, <3>3 DEF SameIds
  <2>3. CASE mode \in {"service", "writers"}
    BY <2>3 DEF SurfaceInv, ServiceView
  <2> QED BY <2>1, <2>2, <2>3, ModesOK DEF SurfaceInv, PageInv
<1> QED BY <1>1, SurfaceInvInit, SurfaceInvNext, PTL DEF SurfaceSpec

(* A click on what the page has published finds a message with its id in the history, unless
   it has been cleared or trimmed, or a clear failed.                                      *)
THEOREM ClickFindsHolds == SurfaceSpec => []ClickFinds
<1>1. SurfaceInv => ClickFinds
  <2> SUFFICES ASSUME SurfaceInv, Undisturbed, NEW m \in Messages, shown[m] > 0
               PROVE  \E n \in file.messages \cup cleared \cup trimmed \cup hidden :
                        StableId(n) = StableId(m)
    BY DEF ClickFinds, Undisturbed
  <2>1. CASE mode = "own"
    BY <2>1 DEF SurfaceInv, OwnInv, OwnShown, Undisturbed, Kept
  <2>2. CASE mode = "events"
    BY <2>2, ShelfKept DEF SurfaceInv, EventsInv
  <2>3. CASE mode \in {"service", "writers"}
    BY <2>3 DEF SurfaceInv, ServiceView
  <2> QED BY <2>1, <2>2, <2>3, ModesOK DEF SurfaceInv, PageInv
<1> QED BY <1>1, SurfaceInvInit, SurfaceInvNext, PTL DEF SurfaceSpec

(* What the user has cleared comes back neither to the page nor to the history, unless it was
   in hand somewhere or all its ids were forgotten while a pull could still return it.       *)
THEOREM ClearedStaysAwayHolds == SurfaceSpec => []ClearedStaysAway
<1>1. SurfaceInv => ClearedStaysAway
  <2> SUFFICES ASSUME SurfaceInv, Undisturbed, NEW m \in cleared \ (raced \cup inHand),
                      ~(IdsOf(m) \subseteq Lost(forgotten))
               PROVE  m \notin file.messages /\ (ui = "off" \/ m \notin ToSet(view))
    BY DEF ClearedStaysAway, Undisturbed, Lapsed, Lost
  <2>1. CASE mode = "own"
    BY <2>1 DEF SurfaceInv, OwnInv, OwnSeen, Undisturbed, Lost
  <2>2. CASE mode # "own"
    <3>1. m \notin file.messages
      BY <2>2 DEF SurfaceInv, FarInv, KnownInv, FileSeen, Uncleared
    <3>2. mode = "writers" => ui = "off"
      BY DEF SurfaceInv, PageInv, ModeOK, Stands
    <3>3. mode \in {"events", "service"} => Away(ToSet(view))
      BY <2>2 DEF SurfaceInv, EventsInv, EventsView, ServiceView
    <3> QED BY <2>2, <3>1, <3>2, <3>3, ModesOK DEF SurfaceInv, PageInv, Away
  <2> QED BY <2>1, <2>2
<1> QED BY <1>1, SurfaceInvInit, SurfaceInvNext, PTL DEF SurfaceSpec

------------------------------------------------------------------------------
(***************************************************************************)
(* The type of the whole.                                                  *)
(***************************************************************************)
(* What a page that does not poll by itself shows. *)
FarView ==
  mode # "own" /\ halts = 0 /\ ui \notin {"present", "show"} => Len(view) <= MaxMessages

LEMMA FarViewNext ==
  ASSUME PageInv, FarView, [SurfaceNext]_allVars
  PROVE  FarView'
<1> SUFFICES ASSUME mode # "own" PROVE FarView'
  BY ModeSame DEF FarView
<1> USE DEF PageInv
<1>0. Len(<<>>) <= MaxMessages
  BY BoundsAssumption
<1>1. CASE \/ UNCHANGED <<view, ui, halts>>
           \/ ui' \in {"present", "show"}
           \/ view' = view /\ halts' = halts /\ ui \notin {"present", "show"}
  BY <1>1 DEF FarView
<1>2. CASE \/ mode = "service" /\ \E p \in Workers : HandlePoll(p) \/ Work(p)
           \/ \E p \in Receivers : ReceiverStep(p)
           \/ mode = "writers" /\ WriterStep
           \/ ServerStep \/ Filter \/ UNCHANGED allVars
  BY <1>1, <1>2 DEF HandlePoll, Work, ReceiverStep, Report, WriterStep, ServerStep, Filter, allVars,
                    surface, page
<1>3. CASE Present \/ Refuse \/ Publish \/ AskPoll \/ PollTimesOut \/ ShowNext
  BY <1>1, <1>3 DEF Present, Refuse, Publish, AskPoll, PollTimesOut, ShowNext, At, ModeOK, Stands
<1>4. CASE Open \/ Observe \/ PollAnswered
  <2>1. PICK r \in Readable : view' = Restored(r)
    BY <1>4 DEF Open, Observe, PollAnswered, Reload
  <2> QED BY <2>1, RestoredOK DEF FarView, PageTypes
<1>5. CASE Clear
  BY <1>0, <1>5 DEF Clear, FarView
<1>6. CASE ClearFails \/ Fail \/ Close
  <2>1. halts' = halts + 1 /\ halts \in Nat
    BY <1>6, Halted, HaltsAssumption DEF ClearFails, CallTypes
  <2> QED BY <2>1 DEF FarView
<1>7. CASE EndPresent
  BY <1>7, ShortenOK, BoundsAssumption DEF EndPresent, FarView, PageTypes
<1> QED
  BY <1>2, <1>3, <1>4, <1>5, <1>6, <1>7, ModesOK, EventsActions, ServiceActions

(* Only a receiver reports events to the page. *)
NoEvents == mode # "events" => events = <<>>

LEMMA NoEventsNext == ModeOK /\ NoEvents /\ [SurfaceNext]_allVars => NoEvents'
<1> SUFFICES ASSUME ModeOK, NoEvents, [SurfaceNext]_allVars, mode # "events" PROVE events' = <<>>
  BY ModeSame DEF NoEvents
<1>1. CASE Fail \/ Close
  BY <1>1, Halted DEF NoEvents
<1>2. CASE ~(Fail \/ Close)
  BY <1>2 DEF NoEvents, SurfaceNext, allVars, surface, ServerStep, HandlePoll, Work,
       WriterStep, Open, Clear, ClearFails, Filter, Loop, StartPoll, Pulled, Refuse, Accept,
       SaveIds, PersistMessages, Publish, EndPoll, Present, ShowNext, EndPresent, Observe, AskPoll,
       PollAnswered, PollTimesOut, Reload
<1> QED BY <1>1, <1>2

(* The whole keeps its types: in particular, before its first failure, the page shows no more
   messages than the history keeps, but while it is at work.                                 *)
THEOREM SurfaceTypeCorrect == SurfaceSpec => []SurfaceTypeOK
<1> DEFINE Inv == SurfaceInv /\ FarView /\ NoEvents
<1>1. Inv => SurfaceTypeOK
  <2> SUFFICES ASSUME Inv PROVE SurfaceTypeOK
    OBVIOUS
  <2>1. PageInv /\ ModeOK /\ PageTypes /\ CallTypes /\ TypeOK
    BY DEF SurfaceInv, PageInv, TypeInv
  <2>2. ui = "idle" /\ halts = 0 => Len(view) <= MaxMessages
    BY DEF SurfaceInv, OwnInv, OwnFirst, FarView
  <2>3. ui \in {"off", "accept", "ids", "messages", "present"} \cup Suspended
    BY <2>1, ModesOK DEF ModeOK, Stands, Suspended
  <2>4. events \in Seq(SUBSET Messages)
    <3>1. <<>> \in Seq(SUBSET Messages)
      OBVIOUS
    <3> QED BY <2>1, <3>1 DEF PageInv, OnlyMessages, NoEvents
  <2> QED BY <2>1, <2>2, <2>3, <2>4 DEF SurfaceTypeOK, ModeOK, PageTypes, CallTypes
<1>2. SurfaceInit => Inv
  <2>1. SurfaceInit => FarView /\ NoEvents
    BY BoundsAssumption DEF SurfaceInit, FarView, NoEvents
  <2> QED BY <2>1, SurfaceInvInit
<1>3. Inv /\ [SurfaceNext]_allVars => Inv'
  <2> SUFFICES ASSUME Inv, [SurfaceNext]_allVars PROVE Inv'
    OBVIOUS
  <2>1. PageInv /\ ModeOK
    BY DEF SurfaceInv, PageInv
  <2> QED BY <2>1, SurfaceInvNext, FarViewNext, NoEventsNext
<1> QED BY <1>1, <1>2, <1>3, PTL DEF SurfaceSpec

------------------------------------------------------------------------------
(***************************************************************************)
(* A page by itself misses nothing.                                        *)
(***************************************************************************)
(* What was saved, or never will be: saved as seen and lost, or left in the view by a
   failed poll.                                                                        *)
Held == Rec \cup skipped \cup unsaved

(* What the page knows as seen is linked to what is held or to what it has in hand. *)
OwnKnown ==
  failures = 0 =>
    /\ file.messages \subseteq Rec
    /\ unsaved \subseteq ToSet(view) \cup trimmed
    /\ ui = "publish" => Head(todo) \in Held
    /\ ToSet(uiRing) \subseteq Known(Held \cup InHandNow)
    /\ Seen \subseteq Known(Held \cup (IF ui = "messages" THEN {Head(todo)} ELSE {}))

LEMMA HeldGrows ==
  ASSUME PageInv, OwnFile, OwnKnown, mode = "own", [SurfaceNext]_allVars, failures' = 0
  PROVE  /\ failures = 0 /\ Held \subseteq Held'
         /\ PersistMessages => ToSet(view) \subseteq Rec'
<1> USE DEF PageInv
<1>1. CASE ServerStep \/ UNCHANGED allVars
  BY <1>1 DEF ServerStep, Tick, Stamp, Push, allVars, inbox, vars, bounds, history, surface, tracked,
              Held, Rec, PersistMessages, At, page
<1>2. CASE Filter \/ Open \/ Accept \/ SaveIds
  <2>1. PICK r \in Readable : Read(r)
    BY <1>2 DEF Filter, SaveFilter, Open, Accept, SaveIds
  <2>2. UNCHANGED <<recorded, trimmed, unsaved, skipped>> /\ ~PersistMessages
    BY <1>2 DEF Filter, SaveFilter, Open, Accept, SaveIds, At, tracked, history, surface, page,
                PersistMessages
  <2> QED BY <2>1, <2>2, PageRead DEF Held, Rec
<1>3. CASE Clear \/ ClearFails
  <2>1. failures = 0
    <3>1. CASE Clear
      BY <3>1, PageRead DEF Clear, ClearMessages
    <3>2. CASE ClearFails
      BY <3>2 DEF ClearFails, inbox, vars, bounds
    <3> QED BY <1>3, <3>1, <3>2
  <2>2. /\ UNCHANGED <<recorded, trimmed>> /\ unsaved' = {} /\ skipped' = skipped \cup unsaved
        /\ ~PersistMessages
    BY <1>3 DEF Clear, ClearFails, ClearMessages, PersistMessages, At, inbox, vars, history
  <2> QED BY <2>1, <2>2 DEF Held, Rec
<1>4. CASE Fail \/ Close
  <2>1. UNCHANGED <<recorded, trimmed, failures>> /\ ~PersistMessages
    BY <1>4, Halted DEF inbox, vars, bounds, history, PersistMessages, At
  <2> QED BY <1>4, <2>1, Halted DEF Held, Rec
<1>5. CASE StartPoll \/ Pulled \/ Refuse \/ Publish \/ EndPoll
  BY <1>5 DEF StartPoll, Pulled, Refuse, Publish, EndPoll, inbox, vars, bounds, history, tracked,
              Held, Rec, PersistMessages, At, ModeOK, Stands
<1>6. CASE PersistMessages
  <2>1. /\ failures = 0 /\ recorded' = recorded \cup file'.messages
        /\ trimmed' = trimmed \cup (ToSet(view) \ file'.messages)
    BY <1>6, Persisted
  <2>2. unsaved \subseteq ToSet(view) \cup trimmed /\ skipped' = skipped
    BY <1>6, <2>1 DEF OwnKnown, PersistMessages
  <2> QED BY <2>1, <2>2 DEF Held, Rec
<1> QED BY <1>1, <1>2, <1>3, <1>4, <1>5, <1>6, OwnSteps

(* What of a file, or of a view, is known is known behind it, too. *)
LEMMA KnownSeeded ==
  ASSUME TypeInv, NEW R \in SUBSET Records, file.messages \subseteq R, Seen \subseteq Known(R)
  PROVE  ToSet(Seeded(file)) \subseteq Known(R)
<1>1. file.messages \subseteq Records /\ file.seen \in RingOf(Ids)
  BY DEF TypeInv, TypeOK, FileOK
<1>2. \A m \in file.messages : IdsOf(m) \subseteq Known(R)
  BY KnownBase
<1>3. file.seen \in RingOf(Known(R))
  BY <1>1, RingWithin DEF Seen
<1>4. Seeded(file) \in RingOf(Known(R))
  BY <1>1, <1>2, <1>3, SortedKeepsRing DEF Seeded, TypeInv, TypeOK
<1> QED BY <1>4, RingWithin

LEMMA KnownMessage ==
  ASSUME PageTypes, todo # <<>>, NEW R \in SUBSET Records, ToSet(uiRing) \subseteq Known(R),
         Head(todo) \in R \/ Duplicate(uiRing, Head(todo))
  PROVE  /\ ToSet(RememberIds(uiRing, Head(todo))) \subseteq Known(R)
         /\ Links[Head(todo)] \cap R # {}
<1>1. Head(todo) \in Records /\ uiRing \in RingOf(Known(R))
  BY HeadOK, RingWithin DEF PageTypes
<1>2. IdsOf(Head(todo)) \subseteq Known(R) /\ Links[Head(todo)] \cap R # {}
  <2>1. CASE Head(todo) \in R
    BY <1>1, <2>1, KnownBase, LinkedSelf
  <2>2. CASE Duplicate(uiRing, Head(todo))
    BY <1>1, <2>2, KnownClosed DEF Duplicate
  <2> QED BY <2>1, <2>2
<1>3. RememberIds(uiRing, Head(todo)) \in RingOf(Known(R))
  BY <1>1, <1>2, RememberKeepsRing DEF RememberIds, IdsOf
<1> QED BY <1>2, <1>3, RingWithin

LEMMA OwnKnownNext ==
  ASSUME PageInv, PageInv', OwnFile, OwnKnown, mode = "own", [SurfaceNext]_allVars
  PROVE  OwnKnown'
<1> SUFFICES ASSUME failures' = 0 PROVE OwnKnown'
  BY DEF OwnKnown
<1> USE DEF PageInv
<1>a. /\ failures = 0 /\ Held \subseteq Held' /\ Held \subseteq Records /\ Held' \subseteq Records
      /\ Rec \subseteq Held /\ ToSet(<<>>) = {} /\ Rec' \subseteq Held'
  <2>1. failures = 0 /\ Held \subseteq Held'
    BY HeldGrows
  <2>2. Held \subseteq Records /\ Held' \subseteq Records
    BY DEF Held, Rec, TypeInv, TypeOK, HistoryOK, CallTypes
  <2>3. Rec \subseteq Held /\ Rec' \subseteq Held' /\ ToSet(<<>>) = {}
    BY DEF Held, ToSet
  <2> QED BY <2>1, <2>2, <2>3
<1>b. ASSUME NEW X, NEW Y, X \subseteq Y PROVE Known(Held \cup X) \subseteq Known(Held' \cup Y)
  BY <1>a, <1>b, KnownGrows
<1>1. CASE ServerStep \/ UNCHANGED allVars
  BY <1>1 DEF ServerStep, Tick, Stamp, Push, allVars, inbox, vars, bounds, history, surface, page,
              tracked, OwnKnown, InHandNow, Held, Rec, Seen, Known
<1>2. CASE Filter
  <2>1. PICK r \in Readable : Read(r) /\ file' = r
    BY <1>2 DEF Filter, SaveFilter
  <2>2. file' = file /\ UNCHANGED <<surface, history>>
    BY <1>2, <2>1, PageRead DEF Filter, SaveFilter
  <2> QED BY <1>a, <2>2 DEF OwnKnown, surface, page, tracked, history, InHandNow, Held, Rec, Seen, Known
<1>3. CASE Open
  <2>1. PICK r \in Readable : Read(r) /\ view' = Restored(r) /\ uiRing' = Seeded(r)
    BY <1>3 DEF Open
  <2>2. /\ r = file /\ UNCHANGED <<file, recorded, trimmed, unsaved, skipped>>
        /\ ui = "off" /\ ui' = "idle" /\ unsaved = {}
    BY <1>3, <2>1, PageRead DEF Open, At, tracked, OwnFile
  <2>3. Seen \subseteq Known(Held) /\ file.messages \subseteq Rec
    BY <1>a, <2>2 DEF OwnKnown
  <2>4. ToSet(uiRing') \subseteq Known(Held)
    BY <1>a, <2>1, <2>2, <2>3, KnownSeeded
  <2> QED BY <1>b, <2>2, <2>3, <2>4 DEF OwnKnown, InHandNow, Held, Rec, Seen
<1>4. CASE Clear
  <2>1. PICK r \in Readable : Read(r) /\ file' = [r EXCEPT !.messages = {}]
    BY <1>4 DEF Clear, ClearMessages
  <2>2. /\ r = file /\ unsaved' = {} /\ UNCHANGED <<ui, uiRing, todo>>
    BY <1>4, <2>1, PageRead DEF Clear
  <2>3. Seen' = Seen /\ file'.messages = {}
    BY <2>1, <2>2, SeenAfter DEF Seen
  <2>4. Known(Held \cup InHandNow) \subseteq Known(Held' \cup InHandNow')
    BY <1>b, <2>2 DEF InHandNow
  <2>5. PICK X : X = IF ui = "messages" THEN {Head(todo)} ELSE {}
    OBVIOUS
  <2>6. Known(Held \cup X) \subseteq Known(Held' \cup X)
    BY <1>b
  <2> QED BY <1>a, <2>2, <2>3, <2>4, <2>5, <2>6 DEF OwnKnown
<1>5. CASE Fail \/ Close
  <2>1. /\ UNCHANGED <<file, recorded, trimmed>> /\ ui' \in {"idle", "off"} /\ Seen' = Seen
    BY <1>5, Halted DEF inbox, vars, history, Seen
  <2>2. CASE ui' = "off"
    <3>1. /\ uiRing' = <<>> /\ unsaved' = {}
          /\ skipped' = skipped \cup unsaved \cup (IF ui = "messages" THEN {Head(todo)} ELSE {})
      BY <1>5, <2>2, Halted
    <3>2. Held' = Held \cup (IF ui = "messages" THEN {Head(todo)} ELSE {})
      BY <2>1, <3>1 DEF Held, Rec
    <3>3. Seen \subseteq Known(Held')
      BY <1>a, <3>2 DEF OwnKnown
    <3> QED BY <1>a, <2>1, <2>2, <3>1, <3>3 DEF OwnKnown, Rec
  <2>3. CASE ui' = "idle"
    <3>1. UNCHANGED <<uiRing, view, skipped>> /\ unsaved' = unsaved \cup InHandNow
      BY <1>5, <2>3, Halted DEF InHandNow
    <3>2. Held' = Held \cup InHandNow /\ Held' \cup InHandNow' = Held'
      BY <2>1, <2>3, <3>1 DEF Held, Rec, InHandNow
    <3>3. Known(Held \cup (IF ui = "messages" THEN {Head(todo)} ELSE {})) \subseteq Known(Held')
      BY <3>2, KnownGrows DEF InHandNow
    <3>4. unsaved' \subseteq ToSet(view') \cup trimmed'
      BY <1>a, <2>1, <3>1 DEF OwnKnown, OwnFile, InHandNow
    <3> QED BY <1>a, <2>1, <2>3, <3>1, <3>2, <3>3, <3>4 DEF OwnKnown, Rec
  <2> QED BY <2>1, <2>2, <2>3
<1>6. CASE StartPoll \/ Pulled
  BY <1>6 DEF StartPoll, Pulled, At, inbox, vars, bounds, history, tracked, OwnKnown, InHandNow,
              Held, Rec, Seen, Known
<1>7. CASE Refuse
  <2>1. /\ ui = "accept" /\ ui' = ui /\ todo # <<>> /\ Duplicate(uiRing, Head(todo))
        /\ uiRing' = RememberIds(uiRing, Head(todo))
        /\ UNCHANGED <<file, recorded, trimmed, view, unsaved, skipped>>
    BY <1>7 DEF Refuse, ModeOK, Stands, inbox, vars, history, tracked
  <2>2. ToSet(uiRing) \subseteq Known(Held) /\ Seen \subseteq Known(Held)
    BY <1>a, <2>1 DEF OwnKnown, InHandNow
  <2>3. ToSet(uiRing') \subseteq Known(Held)
    BY <1>a, <2>1, <2>2, KnownMessage
  <2>4. Held' = Held /\ Rec' = Rec /\ Seen' = Seen /\ InHandNow' = {} /\ Held \cup {} = Held
    BY <2>1 DEF Held, Rec, Seen, InHandNow
  <2> QED BY <1>a, <2>1, <2>2, <2>3, <2>4 DEF OwnKnown
<1>8. CASE Accept
  <2>1. PICK r \in Readable : Read(r) /\ file' = r
    BY <1>8 DEF Accept
  <2>2. /\ file' = file /\ UNCHANGED <<recorded, trimmed, unsaved, skipped, todo>>
        /\ ui = "accept" /\ ui' = "ids" /\ todo # <<>>
        /\ view' = <<Head(todo)>> \o view /\ uiRing' = RememberIds(uiRing, Head(todo))
    BY <1>8, <2>1, PageRead DEF Accept, At, tracked
  <2>3. Head(todo) \in Records /\ ToSet(view') = {Head(todo)} \cup ToSet(view)
    BY <2>2, HeadOK, OnTop DEF PageTypes
  <2>4. PICK R : R = Held \cup {Head(todo)}
    OBVIOUS
  <2>5. ToSet(uiRing) \subseteq Known(R) /\ R \in SUBSET Records /\ Seen \subseteq Known(Held)
    <3>1. Known(Held) \subseteq Known(R)
      BY <2>4, KnownGrows
    <3> QED BY <1>a, <2>2, <2>3, <2>4, <3>1 DEF OwnKnown, InHandNow
  <2>6. ToSet(uiRing') \subseteq Known(R)
    BY <2>2, <2>4, <2>5, KnownMessage
  <2>7. Held' \cup InHandNow' = R /\ Held' = Held
    BY <2>2, <2>4 DEF Held, Rec, InHandNow
  <2> QED BY <1>a, <2>2, <2>3, <2>5, <2>6, <2>7 DEF OwnKnown, Rec, Seen
<1>9. CASE SaveIds
  <2>1. PICK r \in Readable : Read(r) /\ file' = [r EXCEPT !.seen = uiRing]
    BY <1>9 DEF SaveIds
  <2>2. /\ r = file /\ UNCHANGED <<recorded, trimmed, unsaved, skipped, todo, view, uiRing>>
        /\ ui = "ids" /\ ui' = "messages"
    BY <1>9, <2>1, PageRead DEF SaveIds, At, tracked
  <2>3. Seen' = ToSet(uiRing) /\ file'.messages = file.messages
    BY <2>1, <2>2, SeenAfter
  <2>4. Held' = Held /\ InHandNow' = InHandNow /\ InHandNow = {Head(todo)}
    BY <2>2 DEF Held, Rec, InHandNow
  <2> QED BY <1>a, <2>2, <2>3, <2>4 DEF OwnKnown, Rec
<1>10. CASE PersistMessages
  <2>1. PICK r \in Readable, kept \in {Shorten(view)} :
          /\ kept = Shorten(view) /\ Read(r)
          /\ file' = [messages |-> ToSet(kept), seen |-> RememberAll(r.seen, Reverse(kept))]
    BY <1>10 DEF PersistMessages
  <2>2. /\ r = file /\ unsaved' = {} /\ skipped' = skipped /\ UNCHANGED <<todo, view, uiRing>>
        /\ ui = "messages" /\ ui' = "publish" /\ ToSet(view) \subseteq Rec'
        /\ Head(todo) \in Rec'
    BY <1>10, <2>1, PageRead, HeldGrows DEF PersistMessages, At, OwnFile
  <2>3. InHandNow = {Head(todo)} /\ Held \cup InHandNow \subseteq Held' /\ InHandNow' = {}
    BY <1>a, <2>2 DEF InHandNow
  <2>4. ToSet(uiRing) \cup Seen \subseteq Known(Held')
    <3>1. Known(Held \cup InHandNow) \subseteq Known(Held')
      BY <2>3, KnownGrows
    <3> QED BY <1>a, <2>2, <2>3, <3>1 DEF OwnKnown
  <2>5. PICK batch : batch = Reverse(kept)
    OBVIOUS
  <2>6. /\ batch \in Seq(Records) /\ ToSet(batch) \subseteq Rec' /\ file'.messages \subseteq Rec'
    <3>1. kept \in Seq(Records) /\ ToSet(kept) \subseteq ToSet(view)
      BY <2>1, ShortenOK DEF PageTypes
    <3> QED BY <2>1, <2>2, <2>5, <3>1, ReverseOK
  <2>7. Accepted(r.seen, batch) \subseteq ToSet(batch)
    BY DEF Accepted, ToSet
  <2>8. ToSet(RememberAll(r.seen, batch)) \subseteq Known(Held')
    <3>1. r.seen \in RingOf(Ids) /\ ToSet(r.seen) \subseteq Known(Held')
      BY <2>2, <2>4, ReadableOK DEF Seen
    <3> QED BY <1>a, <2>6, <2>7, <3>1, BatchIsKnown
  <2>9. Seen' = ToSet(RememberAll(r.seen, batch))
    BY <2>1, <2>5 DEF Seen
  <2> QED BY <1>a, <2>2, <2>3, <2>4, <2>6, <2>8, <2>9 DEF OwnKnown
<1>11. CASE Publish
  BY <1>11 DEF Publish, At, ModeOK, Stands, inbox, vars, bounds, history, OwnKnown, InHandNow,
               Held, Rec, Seen, Known
<1>12. CASE EndPoll
  <2>1. /\ UNCHANGED <<file, recorded, unsaved, skipped, uiRing, todo>>
        /\ ui = "accept" /\ ui' = "idle" /\ view' = Shorten(view)
        /\ trimmed' = trimmed \cup (ToSet(view) \ ToSet(view'))
    BY <1>12 DEF EndPoll, At, tracked
  <2>2. ToSet(uiRing) \cup Seen \subseteq Known(Held)
    BY <1>a, <2>1 DEF OwnKnown, InHandNow
  <2>3. Known(Held) \subseteq Known(Held')
    BY <1>a, KnownGrows
  <2>4. Seen' = Seen /\ Held' \cup {} = Held' /\ InHandNow' = {}
    BY <2>1 DEF Seen, InHandNow
  <2> QED BY <1>a, <2>1, <2>2, <2>3, <2>4 DEF OwnKnown, Rec
<1>13. CASE ClearFails
  <2>1. /\ UNCHANGED <<file, recorded, trimmed, ui, uiRing, todo>> /\ unsaved' = {}
        /\ Seen' = Seen
    BY <1>13 DEF ClearFails, inbox, vars, history, Seen
  <2>2. Known(Held \cup InHandNow) \subseteq Known(Held' \cup InHandNow')
    BY <1>b, <2>1 DEF InHandNow
  <2>3. PICK X : X = IF ui = "messages" THEN {Head(todo)} ELSE {}
    OBVIOUS
  <2>4. Known(Held \cup X) \subseteq Known(Held' \cup X)
    BY <1>b
  <2> QED BY <1>a, <2>1, <2>2, <2>3, <2>4 DEF OwnKnown, Rec
<1> QED BY <1>1, <1>2, <1>3, <1>4, <1>5, <1>6, <1>7, <1>8, <1>9, <1>10, <1>11, <1>12, <1>13, OwnSteps

(* What the waterline may pass: what is excused, and ties once the Shell has ended or a
   poll has failed.                                                                     *)
Tied ==
  {m \in Messages : halts > 0 /\ \E n \in Messages \ {m} : stamp[n] = stamp[m]}

Waived == ExcusedOnes \cup Tied

Covered(t, E) == Behind(Pushed, stamp, E, t, Held)

InTime(s) == \A i, j \in 1 .. Len(s) : i < j => stamp[s[i]] <= stamp[s[j]]

(* Of a message that the page has, everything older was looked at. *)
NonePast(S) == \A x \in S : x \in Pushed /\ Covered(stamp[x] - 1, Waived)

(* In the loop: what is not newer than the waterline that will be set was looked at, or
   will be.                                                                            *)
LoopPast ==
  /\ Reached(target)
  /\ Covered(target, Waived \cup ToSet(todo))
  /\ \A m \in ToSet(todo) : stamp[m] <= target
  /\ InTime(todo)

OwnPassed ==
  /\ PushedStamped
  /\ failures = 0 =>
       /\ ToSet(todo) \subseteq Pushed
       /\ NonePast(file.messages \cup ToSet(view))
       /\ Reached(uiWater) /\ Covered(uiWater, Waived)
       /\ ui \in {"accept", "ids", "messages", "publish"} => LoopPast

LEMMA OwnWorld ==
  ASSUME PageInv, PushedStamped, mode = "own", [SurfaceNext]_allVars
  PROVE  World /\ Waived \cap Pushed \subseteq Waived'
<1> USE DEF PageInv
<1>1. World /\ \A x \in Records : stamp[x] > 0 => stamp'[x] = stamp[x]
  <2>1. ASSUME NEW m \in Messages, Stamp(m)
        PROVE  World /\ \A x \in Records : stamp[x] > 0 => stamp'[x] = stamp[x]
    <3>1. World
      BY <2>1, StampWorld
    <3>2. stamp[m] = 0 /\ stamp' = [stamp EXCEPT ![m] = now] /\ stamp \in [Records -> Int]
      BY <2>1, ThereOK DEF Stamp
    <3> QED BY <3>1, <3>2
  <2>2. ASSUME NEW m \in Messages, Push(m)
        PROVE  World /\ \A x \in Records : stamp[x] > 0 => stamp'[x] = stamp[x]
    BY <2>2, PushWorld DEF Push
  <2>3. ASSUME UNCHANGED <<stamp, list, late>>, cut \subseteq cut'
        PROVE  World /\ \A x \in Records : stamp[x] > 0 => stamp'[x] = stamp[x]
    BY <2>3, QuietWorld
  <2>4. CASE ServerStep
    <3>1. Tick \/ \E m \in Messages : Stamp(m) \/ Push(m)
      BY <2>4, ModesOK DEF ServerStep, Records
    <3>2. CASE Tick
      BY <2>3, <3>2 DEF Tick, history
    <3> QED BY <2>1, <2>2, <3>1, <3>2
  <2>5. CASE UNCHANGED allVars \/ Filter \/ Clear \/ Open \/ Accept \/ SaveIds \/ PersistMessages
    BY <2>3, <2>5 DEF allVars, inbox, vars, server, history, Filter, SaveFilter, Clear, ClearMessages,
                      Open, Accept, SaveIds, PersistMessages, Transaction
  <2>6. CASE ClearFails \/ Fail \/ Close
    BY <2>3, <2>6, Halted DEF ClearFails, inbox, vars, server, history
  <2>7. CASE StartPoll \/ Pulled \/ Refuse \/ Publish \/ EndPoll
    BY <2>3, <2>7 DEF inbox, vars, server, history, StartPoll, Pulled, Refuse, Publish, EndPoll
  <2> QED BY <2>4, <2>5, <2>6, <2>7, OwnSteps
<1>2. halts' \in {halts, halts + 1}
  <2>1. Fail \/ Close \/ ClearFails \/ UNCHANGED halts
    BY OwnSteps DEF ServerStep, Open, Clear, Filter, StartPoll, Pulled, Refuse, Accept, SaveIds,
                    PersistMessages, Publish, EndPoll, allVars, surface
  <2> QED BY <2>1, Halted DEF ClearFails, CallTypes
<1>3. ASSUME NEW m \in Tied \cap Pushed PROVE m \in Tied'
  <2>1. PICK n \in Messages \ {m} : stamp[n] = stamp[m] /\ halts > 0
    BY DEF Tied
  <2>2. stamp[m] > 0 /\ stamp[n] > 0 /\ m \in Records /\ n \in Records /\ m \in Messages
    BY <2>1, ThereOK DEF PushedStamped
  <2>3. stamp'[n] = stamp'[m]
    BY <1>1, <2>1, <2>2
  <2>4. halts' > 0
    BY <1>2, <2>1, HaltsAssumption DEF CallTypes
  <2> QED BY <2>1, <2>2, <2>3, <2>4 DEF Tied
<1> QED BY <1>1, <1>3 DEF Waived, World

LEMMA TailInTime ==
  ASSUME NEW s \in Seq(Messages), s # <<>>, InTime(s)
  PROVE  InTime(Tail(s)) /\ \A m \in ToSet(s) : m = Head(s) \/ stamp[Head(s)] <= stamp[m]
<1>a. Tail(s) \in Seq(Messages)
  OBVIOUS
<1>1. PICK t \in Seq(Messages) : t = Tail(s)
  BY <1>a
<1>2. /\ Len(t) = Len(s) - 1 /\ Len(s) \in Nat /\ Len(s) > 0 /\ Head(s) = s[1]
      /\ \A i \in 1 .. Len(t) : t[i] = s[i + 1] /\ i + 1 \in 1 .. Len(s)
  BY <1>1
<1>3. \A i, j \in 1 .. Len(t) : i < j => stamp[t[i]] <= stamp[t[j]]
  BY <1>2 DEF InTime
<1>4. \A i \in 1 .. Len(s) : i = 1 \/ stamp[s[1]] <= stamp[s[i]]
  BY <1>2 DEF InTime
<1> QED BY <1>1, <1>2, <1>3, <1>4 DEF InTime, ToSet

LEMMA OwnPassedNext ==
  ASSUME PageInv, PageInv', OwnFile, OwnFirst, OwnKnown, OwnKnown', OwnPassed, mode = "own",
         [SurfaceNext]_allVars
  PROVE  OwnPassed'
<1> USE DEF PageInv
<1>a. World /\ Waived \cap Pushed \subseteq Waived' /\ ExcusedOnes' \subseteq Waived'
  BY OwnWorld DEF OwnPassed, Waived
<1> SUFFICES ASSUME failures' = 0 PROVE OwnPassed'
  BY <1>a DEF OwnPassed, World
<1>b. failures = 0 /\ Held \subseteq Held' /\ ToSet(<<>>) = {}
  BY HeldGrows DEF ToSet
<1>c. /\ ToSet(todo) \subseteq Pushed
      /\ NonePast(file.messages \cup ToSet(view))
      /\ Reached(uiWater) /\ Covered(uiWater, Waived)
      /\ ui \in {"accept", "ids", "messages", "publish"} => LoopPast
  BY <1>b DEF OwnPassed
<1>d. /\ Pushed \subseteq Pushed' /\ Pushed \subseteq There /\ Pushed \subseteq Records
      /\ \A x \in Pushed : stamp'[x] = stamp[x] /\ stamp[x] \in Int
      /\ uiWater \in Int /\ target \in Int
  BY <1>a, ThereOK, BoundsAssumption DEF World, There, PageTypes
<1>e. ASSUME NEW t \in Int, Reached(t), NEW E, Covered(t, Waived \cup E), E \subseteq Pushed
      PROVE  Reached(t)' /\ Behind(Pushed', stamp', Waived' \cup E, t, Held')
  <2>1. Reached(t)'
    BY <1>a, <1>e, ReachedStays
  <2>2. (Waived \cup E) \cap Pushed \subseteq Waived' \cup E /\ ExcusedOnes' \subseteq Waived' \cup E
    BY <1>a
  <2>3. Behind(Pushed', stamp', Waived' \cup E, t, Held')
    BY <1>a, <1>b, <1>e, <2>2, WorldLeaves DEF Covered
  <2> QED BY <2>1, <2>3
<1>f. /\ uiWater' = uiWater => Reached(uiWater)' /\ Covered(uiWater, Waived)'
      /\ uiWater' = 0 => Reached(uiWater)' /\ Covered(uiWater, Waived)'
  <2>1. ASSUME uiWater' = uiWater PROVE Reached(uiWater)' /\ Covered(uiWater, Waived)'
    <3>1. /\ Waived \cup {} = Waived /\ Waived' \cup {} = Waived' /\ {} \subseteq Pushed
          /\ Covered(uiWater, Waived \cup {})
      BY <1>c
    <3>2. PICK t \in Int : t = uiWater
      BY <1>d
    <3>3. Reached(t) /\ Covered(t, Waived \cup {})
      BY <1>c, <3>1, <3>2
    <3>4. Reached(t)' /\ Behind(Pushed', stamp', Waived' \cup {}, t, Held')
      BY <1>e, <3>1, <3>3
    <3>5. uiWater' = t
      BY <2>1, <3>2
    <3> QED BY <3>1, <3>4, <3>5 DEF Covered, Reached
  <2>2. ASSUME uiWater' = 0 PROVE Reached(uiWater)' /\ Covered(uiWater, Waived)'
    <3>1. \A m \in Pushed' : stamp'[m] > 0 /\ stamp'[m] \in Int
      BY <1>a DEF World, PushedStamped, Pushed, ToSet, Records, TypeInv, TypeOK, ServerOK
    <3>2. \A m \in Pushed' : ~(stamp'[m] <= 0)
      BY <3>1
    <3> QED BY <2>2, <3>2 DEF Reached, Covered, Behind
  <2> QED BY <2>1, <2>2
<1>g. ASSUME NEW x \in file.messages \cup ToSet(view)
      PROVE  x \in Pushed' /\ Behind(Pushed', stamp', Waived', stamp'[x] - 1, Held')
  <2>1. x \in Pushed /\ Covered(stamp[x] - 1, Waived) /\ x \in There
    BY <1>c, <1>d DEF NonePast
  <2>2. stamp[x] - 1 \in Int /\ stamp[x] >= stamp[x] - 1 /\ stamp'[x] = stamp[x]
    BY <1>d, <2>1
  <2>3. Reached(stamp[x] - 1)
    BY <2>1, <2>2 DEF Reached
  <2>4. Waived \cup {} = Waived /\ Waived' \cup {} = Waived' /\ {} \subseteq Pushed
    OBVIOUS
  <2>5. Behind(Pushed', stamp', Waived' \cup {}, stamp[x] - 1, Held')
    BY <1>e, <2>1, <2>2, <2>3, <2>4
  <2> QED BY <1>d, <2>1, <2>2, <2>4, <2>5
<1>h. ASSUME file'.messages \cup ToSet(view') \subseteq file.messages \cup ToSet(view)
      PROVE  NonePast(file.messages \cup ToSet(view))'
  BY <1>g, <1>h DEF NonePast, Covered
<1>i. ASSUME NEW s \in Seq(Messages), ToSet(s) \subseteq Pushed, InTime(s),
             Reached(target), Covered(target, Waived \cup ToSet(s)),
             \A m \in ToSet(s) : stamp[m] <= target,
             todo' = s, target' = target
      PROVE  LoopPast' /\ ToSet(todo') \subseteq Pushed'
  <2>1. /\ \A i \in 1 .. Len(s) : s[i] \in ToSet(s)
        /\ \A m \in ToSet(s) : stamp'[m] = stamp[m]
    BY <1>d, <1>i DEF ToSet
  <2>2. \A i, j \in 1 .. Len(s) : i < j => stamp'[s[i]] <= stamp'[s[j]]
    BY <1>i, <2>1 DEF InTime
  <2>3. Behind(Pushed', stamp', Waived' \cup ToSet(s), target, Held')
    BY <1>d, <1>e, <1>i
  <2>4. target = 0 \/ \E x \in There' : stamp'[x] >= target
    BY <1>d, <1>e, <1>i DEF Reached
  <2> QED BY <1>d, <1>i, <2>1, <2>2, <2>3, <2>4 DEF LoopPast, InTime, Covered, Reached
<1>j. ASSUME UNCHANGED <<todo, target>>, ui \in {"accept", "ids", "messages", "publish"}
      PROVE  LoopPast'
  <2>1. todo \in Seq(Messages) /\ ToSet(todo) \subseteq Pushed /\ LoopPast
    BY <1>c, <1>j DEF PageTypes
  <2> QED BY <1>i, <1>j, <2>1 DEF LoopPast
<1>k. todo' = todo => ToSet(todo') \subseteq Pushed'
  BY <1>c, <1>d
<1>l. ASSUME ui \in {"accept", "publish"}, todo # <<>>, Links[Head(todo)] \cap Held # {},
             todo' = Tail(todo), target' = target
      PROVE  LoopPast' /\ ToSet(todo') \subseteq Pushed'
  <2>1. todo \in Seq(Messages) /\ LoopPast
    BY <1>c, <1>l DEF PageTypes
  <2>2. PICK s : s = Tail(todo)
    OBVIOUS
  <2>3. /\ s \in Seq(Messages) /\ ToSet(s) \subseteq ToSet(todo) /\ InTime(s)
        /\ ToSet(todo) = {Head(todo)} \cup ToSet(s)
    BY <1>l, <2>1, <2>2, HeadAndTail, TailInTime DEF LoopPast
  <2>4. Covered(target, Waived \cup ToSet(s))
    BY <1>l, <2>1, <2>3 DEF LoopPast, Covered, Behind
  <2> QED BY <1>c, <1>i, <1>l, <2>1, <2>2, <2>3, <2>4 DEF LoopPast
<1>m. PushedStamped'
  BY <1>a DEF World
<1>1. CASE ServerStep \/ UNCHANGED allVars \/ Filter
  <2>1. UNCHANGED <<ui, view, uiWater, todo, target>>
    BY <1>1 DEF ServerStep, Filter, allVars, surface, page
  <2>2. file' = file
    <3>1. CASE Filter
      <4>1. PICK r \in Readable : Read(r) /\ file' = r
        BY <3>1 DEF Filter, SaveFilter
      <4> QED BY <4>1, PageRead
    <3> QED BY <1>1, <3>1 DEF ServerStep, Tick, Stamp, Push, allVars, inbox, vars
  <2> QED BY <1>f, <1>h, <1>j, <1>k, <1>m, <2>1, <2>2 DEF OwnPassed
<1>2. CASE Open
  <2>1. PICK r \in Readable : Read(r) /\ view' = Restored(r) /\ uiWater' = Newest(r.messages)
    BY <1>2 DEF Open
  <2>2. r = file /\ UNCHANGED <<file, todo, server>> /\ ui = "off" /\ ui' = "idle"
    BY <1>2, <2>1, PageRead DEF Open, At, Transaction
  <2>3. ToSet(view') = file.messages
    BY <2>1, <2>2, OwnRestored
  <2>4. NonePast(file.messages \cup ToSet(view))'
    BY <1>h, <2>2, <2>3
  <2>5. Reached(uiWater)' /\ Covered(uiWater, Waived)'
    <3>1. /\ uiWater' \in Int /\ stamp' = stamp /\ Pushed' = Pushed
          /\ uiWater' > 0 => \E x \in file.messages : stamp[x] = uiWater'
          /\ uiWater' >= 0
      <4>1. file.messages \subseteq Records /\ MaxTime \in Nat
        BY BoundsAssumption DEF TypeInv, TypeOK, FileOK
      <4>2. PICK w : w = Newest(file.messages)
        OBVIOUS
      <4>3. w \in 0 .. MaxTime /\ (w > 0 => \E x \in file.messages : stamp[x] = w)
        BY <4>1, <4>2, NewestOK DEF TypeInv, TypeOK
      <4>4. w \in Int /\ w >= 0
        BY <4>1, <4>3
      <4> QED BY <2>1, <2>2, <4>2, <4>3, <4>4 DEF server, Pushed
    <3>2. CASE uiWater' = 0
      BY <1>f, <3>2
    <3>3. CASE uiWater' > 0
      <4>1. PICK x \in file.messages : stamp[x] = uiWater'
        BY <3>1, <3>3
      <4>2. x \in Pushed /\ x \in Pushed' /\ x \in Rec' /\ x \in Held' /\ x \in Records
        BY <1>b, <1>c, <1>d, <2>2 DEF NonePast, OwnKnown, Held
      <4>3. halts' > 0
        <5>1. halts # 0 /\ halts' = halts
          BY <1>2, <2>2 DEF OwnFirst, Open
        <5> QED BY <5>1, HaltsAssumption DEF CallTypes
      <4>4. ASSUME NEW m \in Pushed', stamp'[m] <= uiWater', m \notin Waived'
            PROVE  Links[m] \cap Held' # {}
        <5>1. m \in Messages /\ x \in Messages /\ stamp[m] \in Int /\ stamp[x] \in Int
          BY <3>1, <4>2, <4>4, ThereOK
        <5>2. CASE m = x
          BY <4>2, <5>2, LinkedSelf
        <5>3. CASE m # x
          <6>1. stamp[m] # stamp[x]
            BY <3>1, <4>3, <4>4, <5>1, <5>3 DEF Waived, Tied
          <6>2. stamp'[m] <= stamp'[x] - 1
            BY <3>1, <4>1, <4>4, <5>1, <6>1
          <6>3. Behind(Pushed', stamp', Waived', stamp'[x] - 1, Held')
            BY <1>g
          <6> QED BY <4>4, <6>2, <6>3 DEF Behind
        <5> QED BY <5>2, <5>3
      <4>5. x \in There' /\ stamp'[x] >= uiWater'
        BY <3>1, <4>1, <4>2 DEF There
      <4> QED BY <4>4, <4>5 DEF Covered, Behind, Reached
    <3> QED BY <3>1, <3>2, <3>3
  <2> QED BY <1>k, <1>m, <2>2, <2>4, <2>5 DEF OwnPassed
<1>3. CASE Clear
  <2>1. PICK r \in Readable : Read(r) /\ file' = [r EXCEPT !.messages = {}]
    BY <1>3 DEF Clear, ClearMessages
  <2>2. file'.messages = {} /\ view' = <<>> /\ UNCHANGED <<ui, uiWater, target, todo>>
    BY <1>3, <2>1, SeenAfter DEF Clear
  <2> QED BY <1>b, <1>f, <1>h, <1>j, <1>k, <1>m, <2>2 DEF OwnPassed
<1>4. CASE Fail \/ Close
  <2>1. /\ UNCHANGED file /\ ui' \in {"idle", "off"} /\ todo' = <<>>
        /\ view' \in {view, <<>>} /\ uiWater' \in {uiWater, 0}
    BY <1>4, Halted DEF inbox, vars
  <2> QED BY <1>b, <1>f, <1>h, <1>m, <2>1 DEF OwnPassed
<1>5. CASE StartPoll
  BY <1>5, <1>f, <1>h, <1>k, <1>m DEF StartPoll, At, inbox, vars, OwnPassed
<1>6. CASE Pulled
  <2>1. /\ ui' = "accept" /\ UNCHANGED <<file, view, uiWater, stamp, list, late>>
        /\ todo' = Answer(uiWater) /\ cut' = cut \cup LeftOut(uiWater)
        /\ target' = IF todo' = <<>> THEN uiWater ELSE Newest(ToSet(todo'))
    BY <1>6 DEF Pulled, At, server
  <2>2. PICK S, s : S = {list[i] : i \in Sent(uiWater)} /\ s = Answer(uiWater)
    OBVIOUS
  <2>3. S \subseteq Pushed
    BY <2>2 DEF Sent, Pullable, Pushed, ToSet
  <2>4. ToSet(s) = S /\ InTime(s)
    BY <1>d, <2>2, <2>3, InOrderSorts DEF Answer, InTime, TypeInv, TypeOK
  <2>5. Pushed' = Pushed /\ stamp' = stamp /\ S \subseteq Records /\ There' = There
    BY <1>d, <2>1, <2>3 DEF Pushed, There
  <2>6. /\ target' \in Int /\ \A m \in S : stamp[m] <= target'
        /\ target' = uiWater \/ target' = 0 \/ \E m \in S : stamp[m] = target'
    <3>1. CASE todo' = <<>>
      BY <1>b, <1>d, <2>1, <2>2, <2>4, <3>1
    <3>2. CASE todo' # <<>>
      <4>1. PICK w : w = Newest(S)
        OBVIOUS
      <4>2. target' = w
        BY <2>1, <2>2, <2>4, <3>2, <4>1
      <4>3. /\ w \in 0 .. MaxTime /\ \A m \in S : stamp[m] <= w
            /\ w > 0 => \E m \in S : stamp[m] = w
        BY <2>5, <4>1, NewestOK DEF TypeInv, TypeOK
      <4> QED BY <4>2, <4>3, BoundsAssumption
    <3> QED BY <3>1, <3>2
  <2>7. Reached(target)'
    <3>1. CASE target' = uiWater
      BY <1>c, <2>5, <3>1 DEF Reached
    <3>2. ASSUME NEW m \in S, stamp[m] = target' PROVE Reached(target)'
      BY <1>d, <2>3, <2>5, <2>6, <3>2 DEF Reached
    <3> QED BY <2>6, <3>1, <3>2 DEF Reached
  <2>8. ASSUME NEW m \in Pushed', m \notin Waived' \cup S
        PROVE  Links[m] \cap Held' # {}
    <3>1. CASE stamp[m] <= uiWater
      <4>1. Behind(Pushed', stamp', Waived', uiWater, Held')
        BY <1>f, <2>1 DEF Covered
      <4> QED BY <2>5, <2>8, <3>1, <4>1 DEF Behind
    <3>2. CASE ~(stamp[m] <= uiWater)
      <4>1. PICK i \in DOMAIN list : list[i] = m
        BY <2>5 DEF Pushed, ToSet
      <4>2. i \in Pullable(uiWater)
        BY <1>d, <2>5, <3>2, <4>1 DEF Pullable
      <4>3. m \notin cut' /\ m \in Messages
        BY <1>a, <2>5, <2>8, ThereOK DEF ExcusedOnes, Excused
      <4>4. i \in Sent(uiWater)
        BY <2>1, <4>1, <4>2, <4>3 DEF LeftOut
      <4> QED BY <2>2, <2>8, <4>1, <4>4
    <3> QED BY <3>1, <3>2
  <2>9. LoopPast'
    <3>1. InTime(s)'
      BY <2>4, <2>5 DEF InTime
    <3>2. Covered(target, Waived \cup ToSet(todo))'
      BY <2>1, <2>2, <2>4, <2>8 DEF Covered, Behind
    <3>3. InTime(todo)'
      BY <2>1, <2>2, <3>1 DEF InTime
    <3> QED BY <2>1, <2>2, <2>4, <2>5, <2>6, <2>7, <3>2, <3>3 DEF LoopPast
  <2>10. ToSet(todo') \subseteq Pushed'
    BY <2>1, <2>2, <2>3, <2>4, <2>5
  <2> QED BY <1>f, <1>h, <1>m, <2>1, <2>9, <2>10 DEF OwnPassed
<1>7. CASE Refuse
  <2>1. /\ ui = "accept" /\ ui' = ui /\ todo # <<>> /\ Duplicate(uiRing, Head(todo))
        /\ UNCHANGED <<file, view, uiWater, target>> /\ todo' = Tail(todo)
    BY <1>7 DEF Refuse, ModeOK, Stands, inbox, vars
  <2>2. ToSet(uiRing) \subseteq Known(Held) /\ Held \in SUBSET Records
    <3>1. Held \subseteq Records
      BY DEF Held, Rec, TypeInv, TypeOK, HistoryOK, CallTypes
    <3>2. Held \cup InHandNow = Held
      BY <2>1 DEF InHandNow
    <3> QED BY <1>b, <3>1, <3>2 DEF OwnKnown
  <2>3. Links[Head(todo)] \cap Held # {}
    BY <2>1, <2>2, KnownMessage
  <2> QED BY <1>f, <1>h, <1>l, <1>m, <2>1, <2>3 DEF OwnPassed
<1>8. CASE Accept
  <2>1. PICK r \in Readable : Read(r) /\ file' = r
    BY <1>8 DEF Accept
  <2>2. /\ file' = file /\ UNCHANGED <<todo, uiWater, target>> /\ ui = "accept" /\ todo # <<>>
        /\ view' = <<Head(todo)>> \o view
    BY <1>8, <2>1, PageRead DEF Accept, At
  <2>3. PICK h \in Records : h = Head(todo)
    BY <2>2, HeadOK
  <2>4. h \in ToSet(todo) /\ ToSet(view') = {h} \cup ToSet(view)
    BY <2>2, <2>3, OnTop, HeadAndTail DEF PageTypes
  <2>5. h \in Pushed /\ h \in There /\ stamp[h] \in Int /\ stamp[h] <= target /\ LoopPast
    BY <1>c, <1>d, <2>2, <2>4 DEF LoopPast
  <2>6. Covered(stamp[h] - 1, Waived)
    <3> SUFFICES ASSUME NEW m \in Pushed, stamp[m] <= stamp[h] - 1, m \notin Waived
                 PROVE  Links[m] \cap Held # {}
      BY DEF Covered, Behind
    <3>1. stamp[m] <= target /\ ~(stamp[h] <= stamp[m]) /\ m # h
      BY <1>d, <2>5
    <3>2. m \notin ToSet(todo)
      BY <2>2, <2>3, <2>5, <3>1, TailInTime DEF PageTypes, LoopPast
    <3> QED BY <2>5, <3>1, <3>2 DEF LoopPast, Covered, Behind
  <2>7. h \in Pushed' /\ Behind(Pushed', stamp', Waived', stamp'[h] - 1, Held')
    <3>1. stamp[h] - 1 \in Int /\ stamp[h] >= stamp[h] - 1 /\ stamp'[h] = stamp[h]
      BY <1>d, <2>5
    <3>2. Reached(stamp[h] - 1)
      BY <2>5, <3>1 DEF Reached
    <3>3. Waived \cup {} = Waived /\ Waived' \cup {} = Waived' /\ {} \subseteq Pushed
      OBVIOUS
    <3>4. Behind(Pushed', stamp', Waived' \cup {}, stamp[h] - 1, Held')
      BY <1>e, <2>6, <3>1, <3>2, <3>3
    <3> QED BY <1>d, <2>5, <3>1, <3>3, <3>4
  <2>8. NonePast(file.messages \cup ToSet(view))'
    BY <1>g, <2>2, <2>4, <2>7 DEF NonePast, Covered
  <2> QED BY <1>f, <1>j, <1>k, <1>m, <2>2, <2>8 DEF OwnPassed
<1>9. CASE SaveIds
  <2>1. PICK r \in Readable : Read(r) /\ file' = [r EXCEPT !.seen = uiRing]
    BY <1>9 DEF SaveIds
  <2>2. r = file /\ UNCHANGED <<todo, uiWater, target, view>> /\ ui = "ids"
    BY <1>9, <2>1, PageRead DEF SaveIds, At
  <2>3. file'.messages = file.messages
    BY <2>1, <2>2, SeenAfter
  <2> QED BY <1>f, <1>h, <1>j, <1>k, <1>m, <2>2, <2>3 DEF OwnPassed
<1>10. CASE PersistMessages
  <2>1. UNCHANGED <<todo, uiWater, target, view>> /\ ui = "messages"
    BY <1>10 DEF PersistMessages, At
  <2>2. file'.messages \subseteq ToSet(view)
    BY <1>10, Persisted
  <2> QED BY <1>f, <1>h, <1>j, <1>k, <1>m, <2>1, <2>2 DEF OwnPassed
<1>11. CASE Publish
  <2>1. /\ ui = "publish" /\ ui' = "accept" /\ todo # <<>> /\ todo' = Tail(todo)
        /\ UNCHANGED <<file, view, uiWater, target>>
    BY <1>11 DEF Publish, At, ModeOK, Stands, inbox, vars, PageTypes
  <2>2. Links[Head(todo)] \cap Held # {}
    BY <1>b, <2>1, HeadOK, LinkedSelf DEF OwnKnown
  <2> QED BY <1>f, <1>h, <1>l, <1>m, <2>1, <2>2 DEF OwnPassed
<1>12. CASE EndPoll
  <2>1. /\ ui = "accept" /\ ui' = "idle" /\ todo = <<>> /\ UNCHANGED <<file, todo, target>>
        /\ uiWater' = target /\ view' = Shorten(view)
    BY <1>12 DEF EndPoll, At
  <2>2. ToSet(view') \subseteq ToSet(view)
    BY <2>1, ShortenOK DEF PageTypes
  <2>3. LoopPast' /\ Waived' \cup {} = Waived'
    BY <1>j, <2>1
  <2>4. Reached(uiWater)' /\ Covered(uiWater, Waived)'
    BY <1>b, <2>1, <2>3 DEF LoopPast, Reached, Covered
  <2> QED BY <1>h, <1>k, <1>m, <2>1, <2>2, <2>4 DEF OwnPassed
<1>13. CASE ClearFails
  <2>1. view' = <<>> /\ UNCHANGED <<file, ui, uiWater, target, todo>>
    BY <1>13 DEF ClearFails, inbox, vars
  <2> QED BY <1>b, <1>f, <1>h, <1>j, <1>k, <1>m, <2>1 DEF OwnPassed
<1> QED BY <1>1, <1>2, <1>3, <1>4, <1>5, <1>6, <1>7, <1>8, <1>9, <1>10, <1>11, <1>12, <1>13, OwnSteps

(* A page that polls by itself asks for every message on the server that is not saved, but
   for those the ring refuses for what a failed poll or the end of the Shell has lost, and,
   once a poll has failed or the Shell has ended, those with the stamp of another message:
   whatever the user clears, and however few ids the ring has room for.                   *)
THEOREM PageMissesNothingHolds == SurfaceSpec => []PageMissesNothing
<1> DEFINE Inv ==
      PageInv /\ (mode = "own" => OwnFile /\ OwnFirst /\ OwnKnown /\ OwnPassed)
<1>1. Inv => PageMissesNothing
  <2> SUFFICES ASSUME Inv, mode = "own", ui # "off", failures = 0, NEW m \in Pushed,
                      ~(stamp[m] > uiWater), m \notin Waived
               PROVE  Recorded(m) \/ \E n \in skipped \cup unsaved : Linked(m, n)
    BY ThereOK DEF PageMissesNothing, Pushed, Waived, ExcusedOnes, Tied, PageInv
  <2>1. stamp[m] <= uiWater
    BY ThereOK, BoundsAssumption DEF PageInv, PageTypes
  <2>2. PICK n \in Links[m] : n \in Held
    BY <2>1 DEF OwnPassed, Covered, Behind
  <2> QED BY <2>2 DEF Held, Rec, Recorded, Linked
<1>2. SurfaceInit => Inv
  <2> SUFFICES ASSUME SurfaceInit PROVE OwnFile /\ OwnFirst /\ OwnKnown /\ OwnPassed
    BY PageInit
  <2>1. /\ ToSet(<<>>) = {} /\ Seen = {} /\ file.messages = {} /\ Pushed = {} /\ ui = "off"
        /\ uiRing = <<>> /\ view = <<>> /\ todo = <<>> /\ uiWater = 0 /\ unsaved = {}
    BY DEF ToSet, SurfaceInit, Init, Empty, Seen, Pushed
  <2>2. OwnFile /\ OwnFirst
    BY <2>1 DEF OwnFile, OwnFirst
  <2>3. OwnKnown
    BY <2>1 DEF OwnKnown
  <2>4. OwnPassed
    BY <2>1 DEF OwnPassed, PushedStamped, NonePast, Reached, Covered, Behind
  <2> QED BY <2>2, <2>3, <2>4
<1>3. Inv /\ [SurfaceNext]_allVars => Inv'
  BY PageNext, ModeSame, OwnFileNext, OwnFirstNext, OwnKnownNext, OwnPassedNext
<1> QED BY <1>1, <1>2, <1>3, PTL DEF SurfaceSpec

------------------------------------------------------------------------------
(***************************************************************************)
(* A refresh is fresh.                                                     *)
(***************************************************************************)
(* The worker that the page asks is the only one. *)
OneWorker == \A p, q \in Workers : p = q

Found(R) == \A m \in asked : m \in ExcusedOnes \/ Links[m] \cap R # {}

(* Beside a page with a service no receiver was ever built. *)
ServiceAlone ==
  mode = "service" =>
    /\ ~overlap /\ \A p \in Receivers : pc[p] = "new"
    /\ StaysInv /\ SeenInv /\ PassInv

(* Once the worker has pulled for the page, what was asked for is recorded or in hand. *)
ServiceFresh ==
  mode = "service" =>
    /\ asked \subseteq Pushed
    /\ \A p \in Workers : call = "served" =>
         pc[p] # "idle" /\ (pc[p] = "pull" \/ Found(Rec \cup Carried(p)))
    /\ call = "answered" => Found(Rec)

LEMMA ServiceInboxStep ==
  ASSUME OneWorker, PageInv, ServiceAlone, mode = "service", [SurfaceNext]_allVars
  PROVE  /\ [Next]_vars \/ Glance
         /\ ~overlap' /\ \A p \in Receivers : pc'[p] = "new"
<1> USE DEF PageInv
<1>0. [Next]_vars \/ Glance
  BY InboxStep
<1>1. ~overlap /\ \A p \in Receivers : pc[p] = "new" /\ p \notin Workers
  BY ProcessesAssumption DEF ServiceAlone
<1>2. CASE UNCHANGED <<overlap, pc>>
  BY <1>0, <1>1, <1>2
<1>3. ASSUME NEW p \in Workers, HandlePoll(p) \/ Work(p)
      PROVE  ~overlap' /\ \A q \in Receivers : pc'[q] = "new"
  <2>1. \A q \in Processes \ {p} : ~Saving(q)
    BY <1>1 DEF OneWorker, Processes, Saving
  <2>2. overlap' = overlap \/ NoteOverlap(p)
    BY <1>3 DEF HandlePoll, Work, Cycle, Load, Pull, Save, SaveMessages, SaveSeenMessageIds,
                SaveKnownLabels, Show, Stop, Inject, history
  <2>3. pc' = pc \/ \E l \in Labels : pc' = [pc EXCEPT ![p] = l]
    BY <1>3 DEF HandlePoll, Work, Cycle, Load, Pull, Save, SaveMessages, SaveSeenMessageIds,
                SaveKnownLabels, Show, Stop, Inject, Take, Rest, Goto, Labels
  <2>4. \A q \in Receivers : pc'[q] = pc[q]
    <3>1. pc = [q \in Processes |-> pc[q]] /\ Receivers \subseteq Processes
      BY FieldsHold DEF Fields, Processes
    <3> QED BY <1>1, <2>3, <3>1
  <2>5. overlap' = FALSE
    <3>1. overlap = FALSE
      BY <1>1 DEF TypeInv, TypeOK, HistoryOK
    <3>2. CASE overlap' = overlap
      BY <3>1, <3>2
    <3>3. CASE NoteOverlap(p)
      BY <2>1, <3>1, <3>3, Zenon DEF NoteOverlap
    <3> QED BY <2>2, <3>2, <3>3
  <2> QED BY <1>1, <2>4, <2>5
<1>4. (\E p \in Workers : HandlePoll(p) \/ Work(p)) \/ UNCHANGED <<overlap, pc>>
  <2>1. CASE Fail \/ Close
    BY <2>1, Halted DEF inbox, vars, process, history
  <2>2. CASE ServerStep \/ Filter \/ Clear \/ ClearFails
    BY <2>2 DEF ServerStep, Tick, Stamp, Push, Filter, SaveFilter, Clear, ClearMessages, ClearFails,
                inbox, vars, process, history
  <2>3. CASE Open \/ Observe \/ AskPoll \/ PollAnswered \/ PollTimesOut \/ UNCHANGED allVars
    BY <2>3 DEF Open, Observe, AskPoll, PollAnswered, PollTimesOut, Reload, Transaction, allVars,
                inbox, vars, process, history
  <2> QED BY <2>1, <2>2, <2>3, ServiceActions
<1> QED BY <1>0, <1>2, <1>3, <1>4

LEMMA ServiceAloneNext ==
  ASSUME OneWorker, PageInv, PageInv', ServiceAlone, [SurfaceNext]_allVars
  PROVE  ServiceAlone'
<1> SUFFICES ASSUME mode = "service" PROVE ServiceAlone'
  BY ModeSame DEF ServiceAlone
<1>1. /\ [Next]_vars \/ Glance
      /\ ~overlap' /\ \A p \in Receivers : pc'[p] = "new"
  BY ServiceInboxStep
<1>2. TypeInv /\ TypeInv' /\ StaysInv /\ SeenInv /\ PassInv /\ Fields
  BY DEF PageInv, ServiceAlone, StaysInv
<1>3. Fields'
  BY <1>2, BoundsAssumption DEF TypeInv, TypeOK, FileOK, ProcessOK, HistoryOK, Fields
<1>4. CASE [Next]_vars
  BY <1>1, <1>2, <1>4, StaysNext, SeenNext, PassNext DEF ServiceAlone
<1>5. CASE Glance
  <2>1. SeenInv' /\ PassInv'
    BY <1>2, <1>5, GlancePass
  <2>2. UNCHANGED <<file, pc, snap, overlap, recorded, trimmed, cleared>>
    BY <1>5 DEF Glance, process, history
  <2>3. failures' = 0 => failures = 0
    BY <1>2, <1>5, ReadIsFile DEF Glance
  <2>4. StaysInv'
    BY <1>2, <1>3, <2>2, <2>3, StaysFrame DEF Saving
  <2> QED BY <1>1, <2>1, <2>4 DEF ServiceAlone
<1> QED BY <1>1, <1>4, <1>5

LEMMA FoundStays ==
  ASSUME World, asked \subseteq Pushed, asked' \subseteq asked, NEW R, Found(R), NEW Q, R \subseteq Q
  PROVE  asked' \subseteq Pushed' /\ \A m \in asked' : m \in ExcusedOnes' \/ Links[m] \cap Q # {}
BY DEF World, Found

(* The steps of a worker while the page waits for it. *)
LEMMA WorkFinds ==
  ASSUME PageInv, ServiceAlone, ServiceFresh, World, mode = "service", NEW p \in Workers,
         HandlePoll(p) \/ Work(p)
  PROVE  /\ Rec \subseteq Rec' /\ asked' = asked
         /\ call' = "served" =>
              pc'[p] # "idle" /\ (pc'[p] = "pull" \/ Found(Rec \cup Carried(p))')
         /\ call' = "answered" => call = "answered" \/ Found(Rec)'
<1> USE DEF PageInv
<1>0. /\ p \in Processes /\ p \notin Receivers /\ asked \subseteq Pushed
      /\ call \in {"none", "sent", "served", "answered", "failed"}
      /\ pc = [q \in Processes |-> pc[q]]
      /\ accepted = [q \in Processes |-> accepted[q]]
  BY ProcessesAssumption, FieldsHold
  DEF Processes, ServiceFresh, CallTypes, Fields, TypeInv, TypeOK, ProcessOK
<1>1. asked' = asked /\ (call' = "served" => call \in {"served", "sent"})
  BY DEF HandlePoll, Work
<1>2. CASE HandlePoll(p)
  <2>1. /\ pc'[p] = "pull" /\ UNCHANGED <<recorded, trimmed>> /\ call' = "served"
    BY <1>0, <1>2 DEF HandlePoll, Load, Goto
  <2> QED BY <1>1, <2>1 DEF Rec
<1>3. ASSUME Work(p), UNCHANGED <<recorded, trimmed>>, call # "served"
      PROVE  Rec \subseteq Rec' /\ call' = call
  BY <1>3 DEF Work, Rec
<1>4. ASSUME call = "served", Work(p),
             stops' = stops /\ pc'[p] = "idle" => Found(Rec)',
             pc'[p] # "idle" => Found(Rec \cup Carried(p))'
      PROVE  /\ call' = "served" => pc'[p] # "idle" /\ Found(Rec \cup Carried(p))'
             /\ call' = "answered" => Found(Rec)'
  BY <1>4 DEF Work
<1>5. CASE Work(p) /\ Pull(p)
  <2>1. /\ UNCHANGED <<recorded, trimmed, stops>> /\ Rec' = Rec
        /\ asked \subseteq Pushed' /\ stamp' = stamp /\ Pushed' = Pushed
    BY <1>0, <1>5 DEF Pull, bounds, server, Rec, Pushed
  <2>2. PICK new : new = Accepted(ring[p], Answer(Since(p)))
    OBVIOUS
  <2>3. \A m \in asked : m \in ExcusedOnes' \/ Links[m] \cap (Rec \cup new) # {}
    <3> TAKE m \in asked
    <3>1. PICK t \in Int : stamp'[m] <= t
      <4>1. stamp'[m] \in Int /\ stamp'[m] <= stamp'[m]
        BY <1>0, <2>1, ThereOK
      <4> QED BY <4>1
    <3>2. Behind(Pushed', stamp', ExcusedOnes', t, Rec \cup new)
      BY <1>5, <2>2, PullFinds DEF ServiceAlone
    <3> QED BY <2>1, <3>1, <3>2 DEF Behind
  <2>4. CASE new = {}
    <3>1. pc'[p] = "idle"
      BY <1>0, <1>5, <2>2, <2>4 DEF Pull, Take, Rest, Goto
    <3>2. Found(Rec)'
      BY <1>1, <2>1, <2>3, <2>4 DEF Found
    <3> QED BY <1>1, <1>3, <1>4, <1>5, <2>1, <3>1, <3>2
  <2>5. CASE new # {}
    <3>1. pc'[p] = "save" /\ accepted'[p] = new
      BY <1>0, <1>5, <2>2, <2>5 DEF Pull, Take, Goto
    <3>2. Found(Rec \cup Carried(p))'
      BY <1>1, <2>1, <2>3, <3>1 DEF Found, Carried
    <3> QED BY <1>1, <1>3, <1>4, <1>5, <2>1, <3>1, <3>2
  <2> QED BY <2>4, <2>5
<1>6. CASE Work(p) /\ (Load(p) \/ \E i \in Injects : Inject(p, i))
  <2>1. pc[p] = "idle" /\ UNCHANGED <<recorded, trimmed>>
    BY <1>6 DEF Load, Inject
  <2>2. call # "served"
    BY <2>1 DEF ServiceFresh
  <2> QED BY <1>1, <1>3, <1>6, <2>1, <2>2
<1>7. CASE Work(p) /\ Stop(p)
  <2>1. pc'[p] = "idle" /\ stops' = stops + 1 /\ UNCHANGED <<recorded, trimmed>> /\ stops \in Int
    BY <1>0, <1>7, BoundsAssumption DEF Stop, Rest, Goto, history, TypeInv, TypeOK, HistoryOK
  <2>2. CASE call = "served"
    BY <1>1, <1>4, <1>7, <2>1, <2>2 DEF Rec
  <2>3. CASE call # "served"
    BY <1>1, <1>3, <1>7, <2>1, <2>3
  <2> QED BY <2>2, <2>3
<1>8. CASE Work(p) /\ (Save(p) \/ Show(p))
  <2>1. /\ Rec \cup Carried(p) \subseteq Rec'
        /\ pc[p] \notin {"idle", "pull"}
    <3>1. CASE SaveMessages(p)
      <4>1. PICK kept \in Trims(Merge(p)) :
              recorded' = recorded \cup kept /\ trimmed' = trimmed \cup (Merge(p) \ kept)
        BY <3>1 DEF SaveMessages
      <4>2. pc[p] = "save" /\ accepted[p] \subseteq Merge(p)
        BY <3>1 DEF SaveMessages, Merge
      <4> QED BY <4>1, <4>2 DEF Rec, Carried
    <3>2. CASE SaveSeenMessageIds(p) \/ SaveKnownLabels(p) \/ Show(p)
      BY <3>2 DEF SaveSeenMessageIds, SaveKnownLabels, Show, history, Rec, Carried
    <3> QED BY <1>8, <3>1, <3>2 DEF Save
  <2>2. Rec \subseteq Rec' /\ Rec' \subseteq Rec' \cup Carried(p)'
    BY <2>1
  <2>3. CASE call = "served"
    <3>1. Found(Rec \cup Carried(p))
      BY <2>1, <2>3 DEF ServiceFresh
    <3>2. \A m \in asked' : m \in ExcusedOnes' \/ Links[m] \cap Rec' # {}
      BY <1>0, <1>1, <2>1, <3>1, FoundStays
    <3>3. Found(Rec)' /\ Found(Rec \cup Carried(p))'
      BY <3>2 DEF Found
    <3> QED BY <1>1, <1>4, <1>8, <2>2, <2>3, <3>3
  <2>4. CASE call # "served"
    <3>1. call' = call
      BY <1>8, <2>4 DEF Work
    <3> QED BY <1>1, <2>2, <2>4, <3>1
  <2> QED BY <2>3, <2>4
<1> QED BY <1>2, <1>5, <1>6, <1>7, <1>8 DEF Work, Cycle

LEMMA ServiceFreshNext ==
  ASSUME OneWorker, PageInv, PageInv', ServiceAlone, ServiceFresh, [SurfaceNext]_allVars
  PROVE  ServiceFresh'
<1> SUFFICES ASSUME mode = "service" PROVE ServiceFresh'
  BY ModeSame DEF ServiceFresh
<1> USE DEF PageInv
<1>1. World
  <2>1. CASE Glance
    BY <2>1, QuietWorld DEF Glance, server, history, ServiceAlone, PassInv
  <2>2. CASE UNCHANGED vars
    BY <2>2, QuietWorld DEF vars, server, history, ServiceAlone, PassInv
  <2> QED BY <2>1, <2>2, InboxStep, WorldHolds DEF ServiceAlone, PassInv
<1>2. ASSUME asked' \subseteq asked, UNCHANGED <<recorded, trimmed, pc, accepted>>,
             call' = call \/ call' \notin {"served", "answered"}
      PROVE  ServiceFresh'
  <2>1. Rec' = Rec /\ \A p \in Workers : Carried(p) = {} \/ pc[p] = "save"
    BY <1>2, ProcessesAssumption DEF Rec, Carried
  <2>2. \A p \in Workers : Rec' \cup Carried(p)' = Rec \cup Carried(p)
    BY <1>2, <2>1, ProcessesAssumption DEF Carried
  <2>3. asked' \subseteq Pushed'
    BY <1>1, <1>2 DEF World, ServiceFresh
  <2>4. ASSUME NEW R, Found(R) PROVE \A m \in asked' : m \in ExcusedOnes' \/ Links[m] \cap R # {}
    BY <1>1, <1>2, <2>4, FoundStays DEF ServiceFresh
  <2>5. call' = "answered" => Found(Rec)'
    BY <1>2, <2>1, <2>4 DEF ServiceFresh, Found
  <2>6. ASSUME NEW p \in Workers, call' = "served", pc[p] # "pull"
        PROVE  Found(Rec \cup Carried(p))'
    <3>1. Found(Rec \cup Carried(p))
      BY <1>2, <2>6 DEF ServiceFresh
    <3> QED BY <2>2, <2>4, <3>1 DEF Found
  <2> QED BY <1>2, <2>3, <2>5, <2>6 DEF ServiceFresh
<1>3. ASSUME NEW p \in Workers, HandlePoll(p) \/ Work(p)
      PROVE  ServiceFresh'
  <2>1. /\ Rec \subseteq Rec' /\ asked' = asked
        /\ call' = "served" =>
              pc'[p] # "idle" /\ (pc'[p] = "pull" \/ Found(Rec \cup Carried(p))')
        /\ call' = "answered" => call = "answered" \/ Found(Rec)'
    BY <1>1, <1>3, WorkFinds
  <2>2. \A q \in Workers : q = p
    BY DEF OneWorker
  <2>3. asked \subseteq Pushed /\ (call = "answered" => Found(Rec))
    BY DEF ServiceFresh
  <2>4. call = "answered" => Found(Rec)'
    BY <1>1, <2>1, <2>3, FoundStays DEF Found
  <2>5. asked' \subseteq Pushed'
    BY <1>1, <2>1, <2>3 DEF World
  <2> QED BY <2>1, <2>2, <2>4, <2>5 DEF ServiceFresh
<1>4. CASE AskPoll
  <2>1. call' = "sent" /\ asked' = Pushed /\ Pushed' = Pushed
    BY <1>4 DEF AskPoll, inbox, vars, server, Pushed
  <2> QED BY <2>1 DEF ServiceFresh
<1>5. CASE Fail \/ Close
  <2>1. UNCHANGED <<recorded, trimmed, pc, accepted>>
    BY <1>5, Halted DEF inbox, vars, process, history
  <2>2. \/ call' = "none" /\ asked' = {}
        \/ call' = call /\ asked' = asked
    BY <1>5 DEF Fail, Close, Halt
  <2> QED BY <1>2, <2>1, <2>2
<1>6. CASE PollAnswered \/ PollTimesOut
  BY <1>2, <1>6 DEF PollAnswered, PollTimesOut, Reload, Transaction, inbox, vars, process, history
<1>7. CASE ServerStep \/ Filter \/ Clear \/ ClearFails
  BY <1>2, <1>7 DEF ServerStep, Tick, Stamp, Push, Filter, SaveFilter, Clear, ClearMessages, ClearFails,
                    inbox, vars, process, history, surface
<1>8. CASE Open \/ Observe \/ UNCHANGED allVars
  BY <1>2, <1>8 DEF Open, Observe, Reload, Transaction, allVars, surface, inbox, vars, process, history
<1> QED BY <1>3, <1>4, <1>5, <1>6, <1>7, <1>8, ServiceActions

(* A refresh that the worker has answered shows what the server had when it was asked, or
   what that is linked to; what the user has cleared and what was trimmed is left out.  One
   worker owns the control pipe (ServeControlPipe), and it is the one that polls.        *)
THEOREM RefreshIsFreshHolds ==
  ASSUME OneWorker
  PROVE  SurfaceSpec => RefreshIsFresh
<1> DEFINE Inv == PageInv /\ ServiceAlone /\ ServiceFresh
           ShowsAll == PollAnswered /\ call = "answered" /\ failures' = 0 =>
                         \A m \in asked :
                           \/ Excused(m)
                           \/ \E n \in ToSet(view') \cup cleared \cup trimmed : Linked(m, n)
<1>1. SurfaceInit => Inv
  <2> SUFFICES ASSUME SurfaceInit PROVE ServiceAlone /\ ServiceFresh
    BY PageInit
  <2>1. /\ asked = {} /\ call = "none" /\ overlap = FALSE /\ \A p \in Receivers : pc[p] = "new"
    BY ProcessesAssumption DEF SurfaceInit, Init, Processes
  <2>2. StaysInv /\ SeenInv /\ PassInv
    BY StaysInit, SeenInit, PassInit DEF SurfaceInit
  <2> QED BY <2>1, <2>2 DEF ServiceAlone, ServiceFresh
<1>2. Inv /\ [SurfaceNext]_allVars => Inv'
  BY PageNext, ServiceAloneNext, ServiceFreshNext
<1>3. Inv => ShowsAll
  <2> SUFFICES ASSUME Inv, PollAnswered, call = "answered", failures' = 0,
                      NEW m \in asked, ~Excused(m)
               PROVE  \E n \in ToSet(view') \cup cleared \cup trimmed : Linked(m, n)
    OBVIOUS
  <2> USE DEF PageInv
  <2>1. mode = "service"
    BY ModesOK DEF PollAnswered, At, ModeOK, Stands
  <2>2. PICK r \in Readable : Read(r) /\ view' = Restored(r)
    BY DEF PollAnswered, Reload
  <2>3. failures = 0 /\ r = file
    BY <2>2, PageRead
  <2>4. ToSet(view') = file.messages
    BY <2>1, <2>2, <2>3, RestoredOK DEF PageTypes
  <2>5. m \in Records
    BY DEF CallTypes, Records
  <2>6. PICK n \in Links[m] : n \in Rec
    BY <2>1 DEF ServiceFresh, Found, ExcusedOnes, CallTypes
  <2>7. n \in Records /\ file.messages \cup cleared \subseteq Records /\ trimmed \subseteq Records
    BY <2>5, <2>6, LinksAreRecords, FieldsHold DEF TypeInv, TypeOK, HistoryOK, FileOK, Fields
  <2>8. CASE n \in trimmed
    BY <2>6, <2>8 DEF Linked
  <2>9. CASE n \in recorded
    <3>1. PICK k \in file.messages \cup cleared \cup trimmed : StableId(k) = StableId(n)
      BY <2>1, <2>3, <2>9 DEF ServiceAlone, StaysInv, RecordedStays
    <3>2. k \in Records /\ SameIds(n, k)
      BY <2>7, <3>1 DEF SameIds, IdsOf
    <3>3. k \in Links[n]
      BY <2>7, <3>2, LinkedSelf, LinkedStep
    <3>4. Linked(m, k)
      BY <2>5, <2>6, <3>3, LinkedTransitive DEF Linked
    <3> QED BY <2>4, <3>1, <3>4
  <2> QED BY <2>6, <2>8, <2>9 DEF Rec
<1>4. RefreshIsFresh <=> [][ShowsAll]_allVars
  BY DEF RefreshIsFresh
<1>5. Inv => [ShowsAll]_allVars
  BY <1>3
<1> HIDE DEF Inv, ShowsAll
<1> QED BY <1>1, <1>2, <1>4, <1>5, PTL DEF SurfaceSpec

=============================================================================
