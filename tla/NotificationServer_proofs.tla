------------------------ MODULE NotificationServer_proofs ------------------------
(***************************************************************************)
(* Theorems about NotificationServer, for every set of requests, clients   *)
(* and ids, any limit and any number of failures and wipes: what the store *)
(* keeps, what a pull may miss of the list it walks without a lock, and    *)
(* what the marks of the long polls say of the messages they returned.     *)
(***************************************************************************)
EXTENDS NotificationServer, TLAPS, SequenceTheorems, FiniteSetTheorems

(* The actions that touch the variables of StoreOK. *)
LEMMA StoreFrame ==
  ASSUME [Next]_vars
  PROVE  \/ UNCHANGED <<now, dedupe, list, rlock, flushing, bounds, forgotten,
              shifted, lockLost>>
         \/ \E p \in Posts : Reserve(p) \/ Push(p) \/ PostFails(p)
         \/ \E q \in Polls : AcquireLock(q) \/ Mark(q) \/ MarkFails(q) \/ Unlock(q)
              \/ PollDies(q)
         \/ \E m \in MsgIds : FlushKey(m) \/ KeyExpires(m)
         \/ Clear \/ StartFlush \/ FlushList \/ FlushLock \/ LockExpires \/ Tick
<1> USE DEF posting, pulling, polling, walk, bounds, history, PostStep, PollStep, DeleteList
<1>1. ASSUME NEW p \in Posts, Post(p) \/ PostFails(p), ~Reserve(p), ~Push(p),
             ~PostFails(p)
      PROVE  UNCHANGED <<now, dedupe, list, rlock, flushing, bounds, forgotten, shifted, lockLost>>
  BY <1>1 DEF Post, Receive, AnswerDuplicate
<1>2. ASSUME NEW g \in Pulls, StartPull(g) \/ Pull(g)
      PROVE  UNCHANGED <<now, dedupe, list, rlock, flushing, bounds, forgotten, shifted, lockLost>>
  BY <1>2 DEF Pull, StartPull, PullNext, AnswerPull
<1>3. ASSUME NEW q \in Polls, StartPoll(q) \/ Poll(q) \/ PollDies(q), ~AcquireLock(q),
             ~Mark(q), ~MarkFails(q), ~Unlock(q), ~PollDies(q)
      PROVE  UNCHANGED <<now, dedupe, list, rlock, flushing, bounds, forgotten, shifted, lockLost>>
  BY <1>3 DEF Poll, StartPoll, PollLen, PollNext, PollFinds, PollEmpty,
    UnlockFails
<1>4. CASE UNCHANGED vars
  BY <1>4 DEF vars
<1> QED
  BY <1>1, <1>2, <1>3, <1>4 DEF Next, Flush

(* Redis keeps its types. *)
LEMMA StoreStep == TypeOK /\ [Next]_vars => StoreOK'
<1> SUFFICES ASSUME TypeOK, [Next]_vars PROVE StoreOK'
  OBVIOUS
<1> USE BoundsAssumption DEF TypeOK, StoreOK, PostStep, PollStep, bounds, history
<1>1. ASSUME NEW p \in Posts, Reserve(p) PROVE StoreOK'
  BY <1>1 DEF Reserve
<1>2. ASSUME NEW p \in Posts, Push(p) PROVE StoreOK'
  <2>1. [post |-> p, stamp |-> stamp[p], sent |-> {}] \in Record
    BY DEF Record, PostsOK
  <2>2. list' \in Seq(Record)
    BY <1>2, <2>1 DEF Push
  <2> QED
    BY <1>2, <2>2 DEF Push
<1>3. ASSUME NEW p \in Posts, PostFails(p) PROVE StoreOK'
  BY <1>3 DEF PostFails
<1>4. ASSUME NEW q \in Polls, AcquireLock(q) PROVE StoreOK'
  BY <1>4 DEF AcquireLock
<1>5. ASSUME NEW q \in Polls, Mark(q) PROVE StoreOK'
  <2> DEFINE marked == [found[q] EXCEPT !.sent = @ \cup {client[q]}]
  <2>1. found[q] \in Record /\ client[q] \in Clients
    BY <1>5 DEF Mark, PollsOK
  <2>2. marked \in Record
    BY <2>1 DEF Record
  <2>3. list' = [list EXCEPT ![at[q]] = marked]
    BY <1>5 DEF Mark
  <2> HIDE DEF marked
  <2>4. at[q] \in 1 .. Len(list)
    BY <1>5 DEF Mark, WalkOK, Readers
  <2>5. [list EXCEPT ![at[q]] = marked] \in Seq(Record)
    BY <2>2, <2>4, ExceptSeq
  <2> QED
    BY <1>5, <2>3, <2>5 DEF Mark
<1>6. ASSUME NEW q \in Polls, MarkFails(q) PROVE StoreOK'
  BY <1>6 DEF MarkFails
<1>7. ASSUME NEW q \in Polls, Unlock(q) PROVE StoreOK'
  BY <1>7 DEF Unlock
<1>8. ASSUME NEW q \in Polls, PollDies(q) PROVE StoreOK'
  BY <1>8 DEF PollDies
<1>9. ASSUME NEW m \in MsgIds, FlushKey(m) PROVE StoreOK'
  BY <1>9 DEF FlushKey
<1>10. ASSUME NEW m \in MsgIds, KeyExpires(m) PROVE StoreOK'
  BY <1>10 DEF KeyExpires
<1>11. CASE Clear
  BY <1>11 DEF Clear, DeleteList
<1>12. CASE StartFlush
  BY <1>12 DEF StartFlush
<1>13. CASE FlushList
  BY <1>13 DEF FlushList, DeleteList
<1>14. CASE FlushLock
  BY <1>14 DEF FlushLock
<1>15. CASE LockExpires
  BY <1>15 DEF LockExpires
<1>16. CASE Tick
  BY <1>16 DEF Tick
<1>17. CASE UNCHANGED <<now, dedupe, list, rlock, flushing, bounds, forgotten, shifted, lockLost>>
  BY <1>17
<1> QED
  BY StoreFrame, <1>1, <1>2, <1>3, <1>4, <1>5, <1>6, <1>7, <1>8, <1>9, <1>10, <1>11, <1>12, <1>13, <1>14, <1>15, <1>16, <1>17

(* The actions that touch the variables of PostsOK. *)
LEMMA PostsFrame ==
  ASSUME [Next]_vars
  PROVE  \/ UNCHANGED <<posting>>
         \/ \E p \in Posts : Receive(p) \/ Reserve(p) \/ AnswerDuplicate(p) \/
              Push(p) \/ PostFails(p)
<1> USE DEF posting, pulling, polling, walk, bounds, history, PostStep, PollStep, DeleteList
<1>1. ASSUME NEW g \in Pulls, StartPull(g) \/ Pull(g)
      PROVE  UNCHANGED <<posting>>
  BY <1>1 DEF Pull, StartPull, PullNext, AnswerPull
<1>2. ASSUME NEW q \in Polls, StartPoll(q) \/ Poll(q) \/ PollDies(q)
      PROVE  UNCHANGED <<posting>>
  BY <1>2 DEF Poll, StartPoll, AcquireLock, PollLen, PollNext, PollFinds,
    PollEmpty, Mark, MarkFails, Unlock, UnlockFails, PollDies
<1>3. ASSUME NEW m \in MsgIds, FlushKey(m) \/ KeyExpires(m)
      PROVE  UNCHANGED <<posting>>
  BY <1>3 DEF FlushKey, KeyExpires
<1>4. CASE UNCHANGED vars \/ Clear \/ StartFlush \/ FlushList \/ FlushLock \/
          LockExpires \/ Tick
  BY <1>4 DEF vars, Clear, StartFlush, FlushList, FlushLock, LockExpires, Tick
<1> QED
  BY <1>1, <1>2, <1>3, <1>4 DEF Next, Flush, Post

(* The posts keep their types. *)
LEMMA PostsStep == TypeOK /\ [Next]_vars => PostsOK'
<1> SUFFICES ASSUME TypeOK, [Next]_vars PROVE PostsOK'
  OBVIOUS
<1> USE BoundsAssumption DEF TypeOK, PostsOK, PostStep, PollStep, posting
<1>1. ASSUME NEW p \in Posts, Receive(p) PROVE PostsOK'
  <2>1. now \in 0 .. MaxTime
    BY DEF StoreOK
  <2> QED
    BY <1>1, <2>1 DEF Receive
<1>2. ASSUME NEW p \in Posts, Reserve(p) PROVE PostsOK'
  BY <1>2 DEF Reserve
<1>3. ASSUME NEW p \in Posts, AnswerDuplicate(p) PROVE PostsOK'
  BY <1>3 DEF AnswerDuplicate
<1>4. ASSUME NEW p \in Posts, Push(p) PROVE PostsOK'
  BY <1>4 DEF Push
<1>5. ASSUME NEW p \in Posts, PostFails(p) PROVE PostsOK'
  BY <1>5 DEF PostFails
<1>6. CASE UNCHANGED <<posting>>
  BY <1>6
<1> QED
  BY PostsFrame, <1>1, <1>2, <1>3, <1>4, <1>5, <1>6

(* The actions that touch the variables of PullsOK. *)
LEMMA PullsFrame ==
  ASSUME [Next]_vars
  PROVE  \/ UNCHANGED <<pulling, owed, pushes, wiped>>
         \/ \E p \in Posts : Push(p)
         \/ \E g \in Pulls : StartPull(g) \/ PullNext(g) \/ AnswerPull(g)
         \/ Clear \/ FlushList
<1> USE DEF posting, pulling, polling, walk, bounds, history, PostStep, PollStep, DeleteList
<1>1. ASSUME NEW p \in Posts, Post(p) \/ PostFails(p), ~Push(p)
      PROVE  UNCHANGED <<pulling, owed, pushes, wiped>>
  BY <1>1 DEF Post, Receive, Reserve, AnswerDuplicate, PostFails
<1>2. ASSUME NEW q \in Polls, StartPoll(q) \/ Poll(q) \/ PollDies(q)
      PROVE  UNCHANGED <<pulling, owed, pushes, wiped>>
  BY <1>2 DEF Poll, StartPoll, AcquireLock, PollLen, PollNext, PollFinds,
    PollEmpty, Mark, MarkFails, Unlock, UnlockFails, PollDies
<1>3. ASSUME NEW m \in MsgIds, FlushKey(m) \/ KeyExpires(m)
      PROVE  UNCHANGED <<pulling, owed, pushes, wiped>>
  BY <1>3 DEF FlushKey, KeyExpires
<1>4. CASE UNCHANGED vars \/ StartFlush \/ FlushLock \/ LockExpires \/ Tick
  BY <1>4 DEF vars, StartFlush, FlushLock, LockExpires, Tick
<1> QED
  BY <1>1, <1>2, <1>3, <1>4 DEF Next, Flush, Pull

(* The pulls keep their types, and no answer exceeds its limit. *)
LEMMA PullsStep == TypeOK /\ [Next]_vars => PullsOK'
<1> SUFFICES ASSUME TypeOK, [Next]_vars PROVE PullsOK'
  OBVIOUS
<1> USE BoundsAssumption DEF TypeOK, PullsOK, PostStep, PollStep, pulling, history
<1>1. ASSUME NEW p \in Posts, Push(p) PROVE PullsOK'
  BY <1>1 DEF Push
<1>2. ASSUME NEW g \in Pulls, StartPull(g) PROVE PullsOK'
  <2>1. ASSUME NEW i \in 1 .. Len(list) PROVE list[i].post \in Posts
    <3>1. list[i] \in Record
      BY DEF StoreOK
    <3> QED
      BY <3>1 DEF Record
  <2>2. owed' \in [Pulls -> SUBSET Posts]
    BY <1>2, <2>1 DEF StartPull
  <2>3. now \in 0 .. MaxTime
    BY DEF StoreOK
  <2>4. since' \in [Pulls -> -1 .. MaxTime]
    BY <1>2, <2>3 DEF StartPull
  <2> QED
    BY <1>2, <2>2, <2>4 DEF StartPull
<1>3. ASSUME NEW g \in Pulls, PullNext(g) PROVE PullsOK'
  <2>1. at[g] \in Nat \ {0} /\ Len(reply[g]) < Limit
    BY <1>3 DEF PullNext, Walked, WalkOK, Readers
  <2>2. CASE at[g] <= Len(list) /\ list[at[g]].stamp > since[g]
    <3> DEFINE longer == Append(reply[g], list[at[g]].post)
    <3>1. list[at[g]].post \in Posts
      <4>1. list[at[g]] \in Record
        BY <2>1, <2>2 DEF StoreOK
      <4> QED
        BY <4>1 DEF Record
    <3>2. longer \in Seq(Posts) /\ Len(longer) <= Limit
      BY <2>1, <3>1
    <3>3. reply' = [reply EXCEPT ![g] = longer]
      BY <1>3, <2>2 DEF PullNext
    <3> HIDE DEF longer
    <3> QED
      BY <1>3, <3>2, <3>3 DEF PullNext
  <2>3. CASE ~(at[g] <= Len(list) /\ list[at[g]].stamp > since[g])
    BY <1>3, <2>3 DEF PullNext
  <2> QED
    BY <2>2, <2>3
<1>4. ASSUME NEW g \in Pulls, AnswerPull(g) PROVE PullsOK'
  BY <1>4 DEF AnswerPull
<1>5. CASE Clear
  BY <1>5 DEF Clear, DeleteList
<1>6. CASE FlushList
  BY <1>6 DEF FlushList, DeleteList
<1>7. CASE UNCHANGED <<pulling, owed, pushes, wiped>>
  BY <1>7
<1> QED
  BY PullsFrame, <1>1, <1>2, <1>3, <1>4, <1>5, <1>6, <1>7

(* The actions that touch the variables of PollsOK. *)
LEMMA PollsFrame ==
  ASSUME [Next]_vars
  PROVE  \/ UNCHANGED <<polling>>
         \/ \E q \in Polls : StartPoll(q) \/ AcquireLock(q) \/ PollLen(q) \/
              PollNext(q) \/ PollFinds(q) \/ PollEmpty(q) \/ Mark(q) \/ MarkFails(q)
              \/ Unlock(q) \/ UnlockFails(q) \/ PollDies(q)
<1> USE DEF posting, pulling, polling, walk, bounds, history, PostStep, PollStep, DeleteList
<1>1. ASSUME NEW p \in Posts, Post(p) \/ PostFails(p)
      PROVE  UNCHANGED <<polling>>
  BY <1>1 DEF Post, Receive, Reserve, AnswerDuplicate, Push, PostFails
<1>2. ASSUME NEW g \in Pulls, StartPull(g) \/ Pull(g)
      PROVE  UNCHANGED <<polling>>
  BY <1>2 DEF Pull, StartPull, PullNext, AnswerPull
<1>3. ASSUME NEW m \in MsgIds, FlushKey(m) \/ KeyExpires(m)
      PROVE  UNCHANGED <<polling>>
  BY <1>3 DEF FlushKey, KeyExpires
<1>4. CASE UNCHANGED vars \/ Clear \/ StartFlush \/ FlushList \/ FlushLock \/
          LockExpires \/ Tick
  BY <1>4 DEF vars, Clear, StartFlush, FlushList, FlushLock, LockExpires, Tick
<1> QED
  BY <1>1, <1>2, <1>3, <1>4 DEF Next, Flush, Poll

(* The long polls keep their types. *)
LEMMA PollsStep == TypeOK /\ [Next]_vars => PollsOK'
<1> SUFFICES ASSUME TypeOK, [Next]_vars PROVE PollsOK'
  OBVIOUS
<1> USE BoundsAssumption DEF TypeOK, PollsOK, PostStep, PollStep, polling
<1>1. ASSUME NEW q \in Polls, StartPoll(q) PROVE PollsOK'
  BY <1>1 DEF StartPoll
<1>2. ASSUME NEW q \in Polls, AcquireLock(q) PROVE PollsOK'
  BY <1>2 DEF AcquireLock
<1>3. ASSUME NEW q \in Polls, PollLen(q) PROVE PollsOK'
  BY <1>3 DEF PollLen
<1>4. ASSUME NEW q \in Polls, PollNext(q) PROVE PollsOK'
  BY <1>4 DEF PollNext
<1>5. ASSUME NEW q \in Polls, PollFinds(q) PROVE PollsOK'
  <2>1. list[at[q]] \in Record
    BY <1>5 DEF PollFinds, StoreOK, WalkOK, Readers
  <2> QED
    BY <1>5, <2>1 DEF PollFinds
<1>6. ASSUME NEW q \in Polls, PollEmpty(q) PROVE PollsOK'
  BY <1>6 DEF PollEmpty
<1>7. ASSUME NEW q \in Polls, Mark(q) PROVE PollsOK'
  BY <1>7 DEF Mark
<1>8. ASSUME NEW q \in Polls, MarkFails(q) PROVE PollsOK'
  BY <1>8 DEF MarkFails
<1>9. ASSUME NEW q \in Polls, Unlock(q) PROVE PollsOK'
  <2>1. round' \in [Polls -> 1 .. MaxWait]
    BY <1>9 DEF Unlock
  <2>2. lpc'[q] # "mark" /\ UNCHANGED <<client, found>>
    BY <1>9 DEF Unlock
  <2>3. lpc' \in [Polls -> {"idle", "lock", "len", "walk", "mark", "unlock", "answered",
                            "empty", "error"}]
    BY <1>9 DEF Unlock
  <2>4. \A r \in Polls : lpc'[r] = "mark" => lpc[r] = "mark"
    BY <1>9 DEF Unlock
  <2> QED
    BY <2>1, <2>2, <2>3, <2>4
<1>10. ASSUME NEW q \in Polls, UnlockFails(q) PROVE PollsOK'
  BY <1>10 DEF UnlockFails
<1>11. ASSUME NEW q \in Polls, PollDies(q) PROVE PollsOK'
  BY <1>11 DEF PollDies
<1>12. CASE UNCHANGED <<polling>>
  BY <1>12
<1> QED
  BY PollsFrame, <1>1, <1>2, <1>3, <1>4, <1>5, <1>6, <1>7, <1>8, <1>9, <1>10, <1>11, <1>12

(* The actions that touch the variables of WalkOK. *)
LEMMA WalkFrame ==
  ASSUME [Next]_vars
  PROVE  \/ UNCHANGED <<walk>>
         \/ \E g \in Pulls : StartPull(g) \/ PullNext(g)
         \/ \E q \in Polls : PollLen(q) \/ PollNext(q)
<1> USE DEF posting, pulling, polling, walk, bounds, history, PostStep, PollStep, DeleteList
<1>1. ASSUME NEW p \in Posts, Post(p) \/ PostFails(p)
      PROVE  UNCHANGED <<walk>>
  BY <1>1 DEF Post, Receive, Reserve, AnswerDuplicate, Push, PostFails
<1>2. ASSUME NEW g \in Pulls, StartPull(g) \/ Pull(g), ~StartPull(g), ~PullNext(g)
      PROVE  UNCHANGED <<walk>>
  BY <1>2 DEF Pull, AnswerPull
<1>3. ASSUME NEW q \in Polls, StartPoll(q) \/ Poll(q) \/ PollDies(q), ~PollLen(q),
             ~PollNext(q)
      PROVE  UNCHANGED <<walk>>
  BY <1>3 DEF Poll, StartPoll, AcquireLock, PollFinds, PollEmpty, Mark,
    MarkFails, Unlock, UnlockFails, PollDies
<1>4. ASSUME NEW m \in MsgIds, FlushKey(m) \/ KeyExpires(m)
      PROVE  UNCHANGED <<walk>>
  BY <1>4 DEF FlushKey, KeyExpires
<1>5. CASE UNCHANGED vars \/ Clear \/ StartFlush \/ FlushList \/ FlushLock \/
          LockExpires \/ Tick
  BY <1>5 DEF vars, Clear, StartFlush, FlushList, FlushLock, LockExpires, Tick
<1> QED
  BY <1>1, <1>2, <1>3, <1>4, <1>5 DEF Next, Flush

(* The walks keep their types. *)
LEMMA WalkStep == TypeOK /\ [Next]_vars => WalkOK'
<1> SUFFICES ASSUME TypeOK, [Next]_vars PROVE WalkOK'
  OBVIOUS
<1> USE DEF TypeOK, WalkOK, PostStep, PollStep, walk
<1>1. ASSUME NEW g \in Pulls, StartPull(g) PROVE WalkOK'
  <2>1. Len(list) \in Nat
    BY DEF StoreOK
  <2> QED
    BY <1>1, <2>1 DEF StartPull
<1>2. ASSUME NEW g \in Pulls, PullNext(g) PROVE WalkOK'
  <2>1. at[g] + 1 \in Nat \ {0}
    BY DEF Readers
  <2> QED
    BY <1>2, <2>1 DEF PullNext
<1>3. ASSUME NEW q \in Polls, PollLen(q) PROVE WalkOK'
  <2>1. Len(list) \in Nat
    BY DEF StoreOK
  <2>2. len' = [len EXCEPT ![q] = Len(list)] /\ at' = [at EXCEPT ![q] = 1]
    BY <1>3 DEF PollLen
  <2> QED
    BY <2>1, <2>2 DEF Readers
<1>4. ASSUME NEW q \in Polls, PollNext(q) PROVE WalkOK'
  <2>1. at[q] + 1 \in Nat \ {0}
    BY DEF Readers
  <2> QED
    BY <1>4, <2>1 DEF PollNext
<1>5. CASE UNCHANGED <<walk>>
  BY <1>5
<1> QED
  BY WalkFrame, <1>1, <1>2, <1>3, <1>4, <1>5

(* Every variable stays in its type, and no answer exceeds its limit. *)
LEMMA TypeStep == TypeOK /\ [Next]_vars => TypeOK'
BY StoreStep, PostsStep, PullsStep, PollsStep, WalkStep DEF TypeOK

(* No step breaks the link between a dedupe key and the post that reserved it. *)
LEMMA DedupeStep == TypeOK /\ DedupeInv /\ [Next]_vars => DedupeInv'
<1> SUFFICES ASSUME TypeOK, DedupeInv, [Next]_vars PROVE DedupeInv'
  OBVIOUS
<1> USE RequestsAssumption, BoundsAssumption
    DEF TypeOK, StoreOK, PostsOK, DedupeInv, DuplicateHasOriginal, posting, bounds, history, PostStep
<1>1. ASSUME NEW p \in Posts, Post(p) \/ PostFails(p)
      PROVE  DedupeInv'
  <2>1. CASE Receive(p)
    <3>1. ppc[p] = "idle" /\ msgId' = msgId /\ dedupe' = dedupe /\ failures' = failures
          /\ forgotten' = forgotten
      BY <2>1 DEF Receive
    <3>2. CASE msgId[p] = NoId
      BY <3>1, <3>2, <2>1 DEF Receive
    <3>3. CASE msgId[p] # NoId
      <4>1. ppc' = [ppc EXCEPT ![p] = "reserve"]
        BY <3>3, <2>1 DEF Receive
      <4>2. DuplicateHasOriginal'
        <5> SUFFICES ASSUME NEW x \in Posts, ppc'[x] = "duplicate"
                     PROVE  \E y \in Posts : y # x /\ msgId[y] = msgId[x]
                                             /\ ppc'[y] \in {"push", "ok", "failed"}
          BY <3>1
        <5>1. x # p /\ ppc[x] = "duplicate"
          BY <4>1
        <5>2. PICK y \in Posts : y # x /\ msgId[y] = msgId[x]
                                /\ ppc[y] \in {"push", "ok", "failed"}
          BY <5>1
        <5>3. ppc'[y] = ppc[y]
          BY <3>1, <4>1, <5>2
        <5> QED
          BY <5>2, <5>3
      <4> QED
        BY <3>1, <3>3, <4>1, <4>2
    <3> QED
      BY <3>2, <3>3
  <2>2. CASE Reserve(p)
    BY <2>2 DEF Reserve
  <2>3. CASE AnswerDuplicate(p)
    <3>1. dedupe[msgId[p]] \in Posts /\ msgId[dedupe[msgId[p]]] = msgId[p]
      BY <2>3 DEF AnswerDuplicate
    <3>2. ppc[dedupe[msgId[p]]] \in {"push", "ok", "failed"}
      BY <2>3 DEF AnswerDuplicate
    <3>3. DuplicateHasOriginal'
      BY <2>3, <3>1, <3>2 DEF AnswerDuplicate
    <3> QED
      BY <2>3, <3>3 DEF AnswerDuplicate
  <2>4. CASE Push(p)
    BY <2>4 DEF Push
  <2>5. CASE PostFails(p)
    BY <2>5 DEF PostFails
  <2> QED
    BY <1>1, <2>1, <2>2, <2>3, <2>4, <2>5 DEF Post
<1>2. ASSUME NEW g \in Pulls, StartPull(g) \/ Pull(g)
      PROVE  DedupeInv'
  <2>1. CASE StartPull(g)
    BY <2>1 DEF StartPull
  <2>2. CASE PullNext(g)
    BY <2>2 DEF PullNext
  <2>3. CASE AnswerPull(g)
    BY <2>3 DEF AnswerPull
  <2> QED
    BY <1>2, <2>1, <2>2, <2>3 DEF Pull
<1>3. ASSUME NEW q \in Polls, StartPoll(q) \/ Poll(q) \/ PollDies(q)
      PROVE  DedupeInv'
  <2>1. CASE StartPoll(q)
    BY <2>1 DEF StartPoll
  <2>2. CASE AcquireLock(q)
    BY <2>2 DEF AcquireLock
  <2>3. CASE PollLen(q)
    BY <2>3 DEF PollLen
  <2>4. CASE PollNext(q)
    BY <2>4 DEF PollNext
  <2>5. CASE PollFinds(q)
    BY <2>5 DEF PollFinds
  <2>6. CASE PollEmpty(q)
    BY <2>6 DEF PollEmpty
  <2>7. CASE Mark(q)
    BY <2>7 DEF Mark
  <2>8. CASE MarkFails(q)
    BY <2>8 DEF MarkFails
  <2>9. CASE Unlock(q)
    BY <2>9 DEF Unlock
  <2>10. CASE UnlockFails(q)
    BY <2>10 DEF UnlockFails
  <2>11. CASE PollDies(q)
    BY <2>11 DEF PollDies
  <2> QED
    BY <1>3, <2>1, <2>2, <2>3, <2>4, <2>5, <2>6, <2>7, <2>8, <2>9, <2>10, <2>11 DEF Poll
<1>4. ASSUME NEW m \in MsgIds, FlushKey(m) \/ KeyExpires(m)
      PROVE  DedupeInv'
  <2>1. CASE FlushKey(m)
    BY <2>1 DEF FlushKey
  <2>2. CASE KeyExpires(m)
    BY <2>2 DEF KeyExpires
  <2> QED
    BY <1>4, <2>1, <2>2
<1>5. CASE Clear
  BY <1>5 DEF Clear
<1>6. CASE StartFlush
  BY <1>6 DEF StartFlush
<1>7. CASE FlushList
  BY <1>7 DEF FlushList
<1>8. CASE FlushLock
  BY <1>8 DEF FlushLock
<1>9. CASE LockExpires
  BY <1>9 DEF LockExpires
<1>10. CASE Tick
  BY <1>10 DEF Tick
<1>11. CASE UNCHANGED vars
  BY <1>11 DEF vars
<1> QED
  BY <1>1, <1>2, <1>3, <1>4, <1>5, <1>6, <1>7, <1>8, <1>9, <1>10, <1>11 DEF Next, Flush

LEMMA InitInv == Init => SInv
<1> SUFFICES ASSUME Init PROVE SInv
  OBVIOUS
<1>1. TypeOK
  <2>1. StoreOK
    <3>1. list = <<>> /\ <<>> \in Seq(Record)
      BY DEF Init
    <3>2. now \in 0 .. MaxTime /\ wipes \in 0 .. MaxWipes /\ failures \in 0 .. MaxFailures
      BY BoundsAssumption DEF Init
    <3>3. dedupe \in [MsgIds -> Posts \cup {Nobody}] /\ rlock \in Polls \cup {Nobody}
      BY DEF Init
    <3>4. shifted \in BOOLEAN /\ lockLost \in BOOLEAN
      BY DEF Init
    <3>5. flushing = {} /\ forgotten = {}
      BY DEF Init
    <3> QED
      BY <3>1, <3>2, <3>3, <3>4, <3>5 DEF StoreOK
  <2>2. PostsOK
    BY BoundsAssumption DEF Init, PostsOK
  <2>3. PullsOK
    BY BoundsAssumption DEF Init, PullsOK
  <2>4. PollsOK
    BY BoundsAssumption DEF Init, PollsOK
  <2>5. WalkOK
    BY DEF Init, WalkOK, Readers
  <2> QED
    BY <2>1, <2>2, <2>3, <2>4, <2>5 DEF TypeOK
<1>2. DedupeInv
  BY DEF Init, DedupeInv, DuplicateHasOriginal
<1> QED
  BY <1>1, <1>2 DEF SInv

(* The strengthening holds in every reachable state of the server. *)
THEOREM ServerInductive == Spec => []SInv
<1>1. SInv /\ [Next]_vars => SInv'
  BY TypeStep, DedupeStep DEF SInv
<1> QED
  BY InitInv, <1>1, PTL DEF Spec

(* Every variable of the server keeps its type. *)
THEOREM ServerTypeCorrect == Spec => []TypeOK
<1>1. SInv => TypeOK
  BY DEF SInv
<1> QED
  BY ServerInductive, <1>1, PTL

(* However many posts of one client_msg_id are served at once, one is accepted until
   the dedupe key is forgotten.                                                      *)
THEOREM AcceptsOnce == Spec => []AcceptedOnce
<1>1. SInv => AcceptedOnce
  BY DEF SInv, TypeOK, PostsOK, DedupeInv, AcceptedOnce
<1> QED
  BY ServerInductive, <1>1, PTL

(* A post answered "duplicate" has another one that stores it or failed on the way to. *)
THEOREM DuplicatesAreStored == Spec => []DuplicateHasOriginal
<1>1. SInv => DuplicateHasOriginal
  BY DEF SInv, DedupeInv
<1> QED
  BY ServerInductive, <1>1, PTL
------------------------------------------------------------------------------
(***************************************************************************)
(* The readers: the inductive invariant.                                   *)
(***************************************************************************)
Indices == 1 .. Len(list)

Returned(q) == lpc[q] \in {"unlock", "answered"} /\ found[q] # Nobody

(* Until a lock is lost, the poll that holds it is alone. *)
LockInv == ~lockLost => \A q \in Holders : rlock = q

(* A poll has found something only from the mark on. *)
FoundInv ==
  \A q \in Polls :
    /\ lpc[q] \in {"idle", "lock", "len", "walk"} => found[q] = Nobody
    /\ lpc[q] \in {"mark", "answered"} => found[q] # Nobody

Stored(n) == ppc[n.post] = "ok" /\ n.stamp = stamp[n.post]

(* What is in the list, or was read from it, is a post that was stored, and is
   there once unless a mark hit another message.                              *)
ListInv ==
  /\ \A i \in Indices : Stored(list[i])
  /\ \A q \in Polls : found[q] # Nobody => Stored(found[q])
  /\ ~shifted => \A i, j \in Indices : list[i].post = list[j].post => i = j

(* A poll about to mark has the marks of the list, its own missing; once it has
   marked, its own is there.                                                   *)
MarkInv ==
  ~shifted /\ ~lockLost =>
    /\ \A q \in Polls : lpc[q] = "mark" =>
         /\ client[q] \notin found[q].sent
         /\ \A i \in Indices :
              list[i].post = found[q].post => list[i].sent = found[q].sent
    /\ \A q \in Polls : Returned(q) =>
         \A i \in Indices : list[i].post = found[q].post => client[q] \in list[i].sent
    /\ \A q, r \in Polls : q # r /\ Returned(q) /\ Returned(r) /\ client[q] = client[r]
         => found[q].post # found[r].post

(* Each mark of a message is that of a poll that returns it. *)
Accounted(n) ==
  \A c \in n.sent : \E q \in Polls :
    client[q] = c /\ Returned(q) /\ found[q].post = n.post

ReturnInv ==
  failures = 0 /\ ~lockLost =>
    /\ \A i \in Indices : Accounted(list[i])
    /\ \A q \in Polls : lpc[q] = "mark" => Accounted(found[q])

(* Where the messages are that were in the list when pull g began. *)
Old(g) == {i \in Indices : i > pushes[g] /\ list[i].stamp > since[g]}

(* The walk of pull g has read what it has behind it: each push since it began moves
   the messages on by one index, towards those still to be read.                    *)
PullInv ==
  \A g \in Pulls :
    /\ gpc[g] = "idle" => pushes[g] = 0 /\ at[g] = 1
    /\ gpc[g] = "walk" /\ ~wiped[g] => Len(list) = len[g] + pushes[g]
    /\ gpc[g] = "walk" /\ ~wiped[g] /\ ~shifted =>
         /\ owed[g] \subseteq {list[i].post : i \in Old(g)}
         /\ \A i \in Old(g) : i < at[g] => list[i].post \in Answer(g)

ReadInv ==
  LockInv /\ FoundInv /\ ListInv /\ MarkInv /\ ReturnInv /\ PullInv /\ PullMissesFew

------------------------------------------------------------------------------
(***************************************************************************)
(* The long polls.                                                         *)
(***************************************************************************)
LEMMA ReadInit == Init => ReadInv
<1> SUFFICES ASSUME Init PROVE ReadInv
  OBVIOUS
<1>1. Len(list) = 0 /\ Indices = {}
  BY DEF Init, Indices
<1>2. \A q \in Polls : lpc[q] = "idle" /\ found[q] = Nobody
  BY DEF Init
<1>3. \A g \in Pulls : gpc[g] = "idle" /\ pushes[g] = 0 /\ at[g] = 1
  BY DEF Init, Readers
<1>4. LockInv /\ FoundInv
  BY <1>2 DEF LockInv, FoundInv, Holders
<1>5. ListInv /\ MarkInv /\ ReturnInv
  BY <1>1, <1>2 DEF ListInv, MarkInv, ReturnInv, Returned
<1>6. PullInv /\ PullMissesFew
  BY <1>3 DEF PullInv, PullMissesFew
<1> QED
  BY <1>4, <1>5, <1>6 DEF ReadInv

(* The steps that touch the long polls, the lock or the list. *)
LEMMA ReadersFrame ==
  ASSUME [Next]_vars
  PROVE  \/ UNCHANGED <<list, rlock, polling, shifted, lockLost>>
         \/ \E p \in Posts : Push(p)
         \/ \E q \in Polls : StartPoll(q) \/ Poll(q) \/ PollDies(q)
         \/ LockExpires \/ FlushLock \/ Clear \/ FlushList
<1> USE DEF posting, pulling, walk, bounds, history
<1>1. ASSUME NEW p \in Posts, Post(p) \/ PostFails(p), ~Push(p)
      PROVE  UNCHANGED <<list, rlock, polling, shifted, lockLost>>
  BY <1>1 DEF Post, Receive, Reserve, AnswerDuplicate, PostFails
<1>2. ASSUME NEW g \in Pulls, StartPull(g) \/ Pull(g)
      PROVE  UNCHANGED <<list, rlock, polling, shifted, lockLost>>
  BY <1>2 DEF Pull, StartPull, PullNext, AnswerPull
<1>3. ASSUME NEW m \in MsgIds, FlushKey(m) \/ KeyExpires(m)
      PROVE  UNCHANGED <<list, rlock, polling, shifted, lockLost>>
  BY <1>3 DEF FlushKey, KeyExpires
<1>4. CASE UNCHANGED vars \/ StartFlush \/ Tick
  BY <1>4 DEF vars, StartFlush, Tick
<1> QED
  BY <1>1, <1>2, <1>3, <1>4 DEF Next, Flush

(* What a step of the posts or of Redis leaves the polls. *)
LEMMA PollsUntouched ==
  ASSUME TypeOK, [Next]_vars
  PROVE  \/ UNCHANGED polling
         \/ \E q \in Polls : StartPoll(q) \/ Poll(q) \/ PollDies(q)
<1> QED
  BY PollsFrame DEF Poll

LEMMA LockStep == TypeOK /\ LockInv /\ [Next]_vars => LockInv'
<1> SUFFICES ASSUME TypeOK, LockInv, [Next]_vars PROVE LockInv'
  OBVIOUS
<1> USE DEF LockInv, Holders
<1>0. lpc = [q \in Polls |-> lpc[q]] /\ Nobody \notin Polls /\ lockLost \in BOOLEAN
  BY RequestsAssumption DEF TypeOK, PollsOK, StoreOK
<1>1. ASSUME NEW q \in Polls, StartPoll(q) \/ Poll(q) \/ PollDies(q)
      PROVE  LockInv'
  <2> USE <1>0 DEF PollStep, history
  <2>1. CASE StartPoll(q)
    BY <2>1 DEF StartPoll
  <2>2. CASE AcquireLock(q)
    BY <2>2 DEF AcquireLock
  <2>3. CASE PollLen(q)
    BY <2>3 DEF PollLen
  <2>4. CASE PollNext(q)
    BY <2>4 DEF PollNext
  <2>5. CASE PollFinds(q)
    BY <2>5 DEF PollFinds
  <2>6. CASE PollEmpty(q)
    BY <2>6 DEF PollEmpty
  <2>7. CASE Mark(q)
    BY <2>7 DEF Mark
  <2>8. CASE MarkFails(q)
    BY <2>8 DEF MarkFails
  <2>9. CASE Unlock(q)
    BY <2>9 DEF Unlock
  <2>10. CASE UnlockFails(q)
    BY <2>10 DEF UnlockFails
  <2>11. CASE PollDies(q)
    BY <2>11 DEF PollDies
  <2> QED
    BY <1>1, <2>1, <2>2, <2>3, <2>4, <2>5, <2>6, <2>7, <2>8, <2>9, <2>10, <2>11 DEF Poll
<1>2. CASE LockExpires
  BY <1>0, <1>2 DEF LockExpires, polling
<1>3. CASE FlushLock
  BY <1>0, <1>3 DEF FlushLock, polling
<1>4. CASE UNCHANGED <<rlock, polling, lockLost>>
  BY <1>4 DEF polling
<1>5. ASSUME NEW p \in Posts, Push(p)
      PROVE  UNCHANGED <<rlock, polling, lockLost>>
  BY <1>5 DEF Push
<1>6. ASSUME Clear \/ FlushList
      PROVE  UNCHANGED <<rlock, polling, lockLost>>
  BY <1>6 DEF Clear, FlushList, DeleteList
<1> QED
  BY ReadersFrame, <1>1, <1>2, <1>3, <1>4, <1>5, <1>6

LEMMA FoundStep == TypeOK /\ FoundInv /\ [Next]_vars => FoundInv'
<1> SUFFICES ASSUME TypeOK, FoundInv, [Next]_vars PROVE FoundInv'
  OBVIOUS
<1> USE DEF FoundInv
<1>0. lpc = [q \in Polls |-> lpc[q]] /\ found \in [Polls -> Record \cup {Nobody}]
  BY DEF TypeOK, PollsOK
<1>1. ASSUME NEW q \in Polls, StartPoll(q) \/ Poll(q) \/ PollDies(q)
      PROVE  FoundInv'
  <2> USE <1>0 DEF PollStep
  <2>1. CASE StartPoll(q)
    BY <2>1 DEF StartPoll
  <2>2. CASE AcquireLock(q)
    BY <2>2 DEF AcquireLock
  <2>3. CASE PollLen(q)
    BY <2>3 DEF PollLen
  <2>4. CASE PollNext(q)
    BY <2>4 DEF PollNext
  <2>5. CASE PollFinds(q)
    <3>1. list[at[q]] \in Record
      BY <2>5 DEF PollFinds, TypeOK, StoreOK, WalkOK, Readers
    <3> QED
      BY <2>5, <3>1, NothingAssumption DEF PollFinds
  <2>6. CASE PollEmpty(q)
    BY <2>6 DEF PollEmpty
  <2>7. CASE Mark(q)
    BY <2>7 DEF Mark
  <2>8. CASE MarkFails(q)
    BY <2>8 DEF MarkFails
  <2>9. CASE Unlock(q)
    BY <2>9 DEF Unlock
  <2>10. CASE UnlockFails(q)
    BY <2>10 DEF UnlockFails
  <2>11. CASE PollDies(q)
    BY <2>11 DEF PollDies
  <2> QED
    BY <1>1, <2>1, <2>2, <2>3, <2>4, <2>5, <2>6, <2>7, <2>8, <2>9, <2>10, <2>11 DEF Poll
<1>2. CASE UNCHANGED polling
  BY <1>2 DEF polling
<1> QED
  BY PollsUntouched, <1>1, <1>2

------------------------------------------------------------------------------
(***************************************************************************)
(* What a step does to the list and to the polls.                          *)
(***************************************************************************)
(* Losses, shifts and failures are remembered. *)
LEMMA FlagsStay ==
  ASSUME TypeOK, [Next]_vars
  PROVE  /\ shifted => shifted'
         /\ lockLost => lockLost'
         /\ failures' = 0 => failures = 0
<1>1. shifted => shifted'
  <2>1. ASSUME NEW q \in Polls, Mark(q) PROVE shifted => shifted'
    BY <2>1 DEF Mark
  <2>2. UNCHANGED shifted \/ \E q \in Polls : Mark(q)
    BY StoreFrame DEF Reserve, Push, PostFails, AcquireLock, MarkFails, Unlock,
      PollDies, FlushKey, KeyExpires, Clear, StartFlush, FlushList, FlushLock, LockExpires,
      Tick, history
  <2> QED
    BY <2>1, <2>2
<1>2. lockLost => lockLost'
  <2>1. UNCHANGED lockLost \/ LockExpires \/ FlushLock
    BY StoreFrame DEF Reserve, Push, PostFails, AcquireLock, Mark, MarkFails, Unlock,
      PollDies, FlushKey, KeyExpires, Clear, StartFlush, FlushList, Tick, history
  <2> QED
    BY <2>1 DEF LockExpires, FlushLock
<1>3. failures' = 0 => failures = 0
  <2>1. UNCHANGED failures \/ failures' = failures + 1
    BY StoreFrame DEF Reserve, Push, PostFails, AcquireLock, Mark, MarkFails, Unlock,
      PollDies, FlushKey, KeyExpires, Clear, StartFlush, FlushList, FlushLock, LockExpires,
      Tick, bounds
  <2>2. failures \in Nat
    BY BoundsAssumption DEF TypeOK, StoreOK
  <2> QED
    BY <2>1, <2>2
<1> QED
  BY <1>1, <1>2, <1>3

(* A push moves every message on by one index. *)
LEMMA PushMoves ==
  ASSUME TypeOK, NEW p \in Posts, Push(p)
  PROVE  /\ Len(list) \in Nat /\ Len(list') = Len(list) + 1
         /\ list'[1].post = p /\ list'[1].stamp = stamp[p] /\ list'[1].sent = {}
         /\ \A i \in Indices' : i # 1 => i - 1 \in Indices /\ list'[i] = list[i - 1]
         /\ \A i \in Indices : i + 1 \in Indices' /\ list'[i + 1] = list[i]
<1> DEFINE new == [post |-> p, stamp |-> stamp[p], sent |-> {}]
<1>1. list \in Seq(Record) /\ new \in Record
  BY DEF TypeOK, StoreOK, PostsOK, Record
<1>2. list' = <<new>> \o list
  BY DEF Push
<1> HIDE DEF new
<1>3. Len(list) \in Nat /\ Len(list') = Len(list) + 1
  BY <1>1, <1>2
<1>4. list'[1] = new
  BY <1>1, <1>2
<1>5. ASSUME NEW i \in Nat, 1 < i, i <= Len(list) + 1 PROVE list'[i] = list[i - 1]
  BY <1>1, <1>2, <1>5
<1>6. \A i \in Indices : i + 1 \in Nat /\ 1 < i + 1 /\ i + 1 <= Len(list) + 1 /\ (i + 1) - 1 = i
  BY <1>3 DEF Indices
<1>7. \A i \in Indices' : i # 1 => i \in Nat /\ 1 < i /\ i <= Len(list) + 1 /\ i - 1 \in Indices
  BY <1>3 DEF Indices
<1>8. \A i \in Indices : i + 1 \in Indices' /\ list'[i + 1] = list[i]
  <2> TAKE i \in Indices
  <2>1. list'[i + 1] = list[(i + 1) - 1]
    BY <1>5, <1>6
  <2>2. i + 1 \in Indices'
    BY <1>3 DEF Indices
  <2> QED
    BY <1>6, <2>1, <2>2
<1>9. new.post = p /\ new.stamp = stamp[p] /\ new.sent = {}
  BY DEF new
<1> QED
  BY <1>3, <1>4, <1>5, <1>7, <1>8, <1>9

(* A mark overwrites the message at its index with the one that was read. *)
LEMMA MarkWrites ==
  ASSUME TypeOK, NEW q \in Polls, Mark(q)
  PROVE  /\ Len(list') = Len(list) /\ Indices' = Indices /\ at[q] \in Indices
         /\ found[q] \in Record /\ client[q] \in Clients
         /\ list'[at[q]].post = found[q].post
         /\ list'[at[q]].stamp = found[q].stamp
         /\ list'[at[q]].sent = found[q].sent \cup {client[q]}
         /\ \A i \in Indices : i # at[q] => list'[i] = list[i]
         /\ ~shifted' => list[at[q]].post = found[q].post
<1> DEFINE marked == [found[q] EXCEPT !.sent = @ \cup {client[q]}]
<1>1. found[q] \in Record /\ client[q] \in Clients
  BY DEF Mark, PollStep, TypeOK, PollsOK
<1>2. /\ marked.post = found[q].post /\ marked.stamp = found[q].stamp
      /\ marked.sent = found[q].sent \cup {client[q]}
  BY <1>1 DEF Record
<1>3. list' = [list EXCEPT ![at[q]] = marked] /\ at[q] <= Len(list)
      /\ (~shifted' => list[at[q]].post = found[q].post)
  BY DEF Mark
<1> HIDE DEF marked
<1>4. list \in Seq(Record) /\ at[q] \in Nat \ {0}
  BY DEF TypeOK, StoreOK, WalkOK, Readers
<1>5. Len(list') = Len(list) /\ list'[at[q]] = marked
      /\ \A i \in Indices : i # at[q] => list'[i] = list[i]
  BY <1>3, <1>4 DEF Indices
<1> QED
  BY <1>1, <1>2, <1>3, <1>4, <1>5 DEF Indices

LEMMA WipeEmpties ==
  ASSUME Clear \/ FlushList
  PROVE  list' = <<>> /\ Len(list') = 0 /\ Indices' = {}
         /\ UNCHANGED <<polling, shifted, lockLost, failures, posting>>
BY DEF Clear, FlushList, DeleteList, Indices, bounds, polling

(* A step that neither writes the list nor finds anything. *)
Quiet ==
  /\ UNCHANGED <<list, client, found, shifted>>
  /\ \A q \in Polls :
       /\ lpc'[q] = "mark" => lpc[q] = "mark"
       /\ Returned(q)' => Returned(q)
       /\ failures' = 0 /\ ~lockLost' /\ Returned(q) => Returned(q)'

LEMMA QuietFrame ==
  ASSUME TypeOK, LockInv, FoundInv, [Next]_vars
  PROVE  \/ Quiet
         \/ \E p \in Posts : Push(p)
         \/ \E q \in Polls : PollFinds(q) \/ Mark(q)
         \/ Clear \/ FlushList
<1>0. lpc = [q \in Polls |-> lpc[q]] /\ failures \in Nat
  BY BoundsAssumption DEF TypeOK, PollsOK, StoreOK
<1>1. ASSUME NEW q \in Polls, StartPoll(q) \/ Poll(q) \/ PollDies(q), ~PollFinds(q), ~Mark(q)
      PROVE  Quiet
  <2> USE <1>0 DEF PollStep, Quiet, Returned
  <2>1. CASE StartPoll(q)
    BY <2>1 DEF StartPoll, history
  <2>2. CASE AcquireLock(q)
    BY <2>2 DEF AcquireLock, history
  <2>3. CASE PollLen(q)
    BY <2>3 DEF PollLen, history
  <2>4. CASE PollNext(q)
    BY <2>4 DEF PollNext, history
  <2>5. CASE PollEmpty(q)
    BY <2>5 DEF PollEmpty, FoundInv, history
  <2>6. CASE MarkFails(q)
    BY <2>6 DEF MarkFails, history
  <2>7. CASE Unlock(q)
    BY <2>7 DEF Unlock, history
  <2>8. CASE UnlockFails(q)
    <3>1. lockLost
      BY <2>8 DEF UnlockFails, LockInv, Holders
    <3> QED
      BY <2>8, <3>1 DEF UnlockFails, history
  <2>9. CASE PollDies(q)
    BY <2>9 DEF PollDies, history
  <2> QED
    BY <1>1, <2>1, <2>2, <2>3, <2>4, <2>5, <2>6, <2>7, <2>8, <2>9 DEF Poll
<1>2. ASSUME LockExpires \/ FlushLock
      PROVE  Quiet
  BY <1>2 DEF LockExpires, FlushLock, polling, Quiet, Returned
<1>3. CASE UNCHANGED <<list, rlock, polling, shifted, lockLost>>
  BY <1>3 DEF polling, Quiet, Returned
<1> QED
  BY ReadersFrame, <1>1, <1>2, <1>3

------------------------------------------------------------------------------
(***************************************************************************)
(* The list and its marks.                                                 *)
(***************************************************************************)
(* A post keeps the time it was stored with. *)
LEMMA StoredStays ==
  ASSUME TypeOK, [Next]_vars, NEW n \in Record, Stored(n)
  PROVE  ppc'[n.post] = "ok" /\ n.stamp = stamp'[n.post]
<1>1. /\ n.post \in Posts /\ ppc[n.post] = "ok" /\ n.stamp = stamp[n.post]
      /\ ppc = [p \in Posts |-> ppc[p]] /\ stamp = [p \in Posts |-> stamp[p]]
  BY DEF Record, Stored, TypeOK, PostsOK
<1> QED
  BY <1>1, PostsFrame DEF Receive, Reserve, AnswerDuplicate, Push, PostFails, PostStep, posting

LEMMA ListIsTyped ==
  TypeOK => /\ \A i \in Indices : list[i] \in Record
            /\ \A q \in Polls : found[q] # Nobody => found[q] \in Record
            /\ found = [q \in Polls |-> found[q]] /\ lpc = [q \in Polls |-> lpc[q]]
            /\ Len(list) \in Nat
BY DEF TypeOK, StoreOK, PollsOK, Indices

LEMMA ListStep == TypeOK /\ LockInv /\ FoundInv /\ ListInv /\ [Next]_vars => ListInv'
<1> SUFFICES ASSUME TypeOK, LockInv, FoundInv, ListInv, [Next]_vars PROVE ListInv'
  OBVIOUS
<1>1. /\ \A i \in Indices : ppc'[list[i].post] = "ok" /\ list[i].stamp = stamp'[list[i].post]
      /\ \A q \in Polls : found[q] # Nobody =>
           ppc'[found[q].post] = "ok" /\ found[q].stamp = stamp'[found[q].post]
  BY ListIsTyped, StoredStays DEF ListInv
<1>2. ~shifted' => ~shifted
  BY FlagsStay
<1>3. CASE Quiet
  <2>1. list' = list /\ found' = found /\ Indices' = Indices
    BY <1>3 DEF Quiet, Indices
  <2> QED
    BY <1>1, <1>2, <2>1 DEF ListInv, Stored
<1>4. ASSUME NEW p \in Posts, Push(p)
      PROVE  ListInv'
  <2>1. found' = found /\ stamp' = stamp /\ ppc[p] = "push" /\ ppc'[p] = "ok"
    BY <1>4 DEF Push, PostStep, polling, TypeOK, PostsOK
  <2>2. \A i \in Indices' : \/ i = 1 /\ list'[i].post = p /\ list'[i].stamp = stamp[p]
                            \/ i - 1 \in Indices /\ list'[i] = list[i - 1]
    BY <1>4, PushMoves
  <2>3. \A i \in Indices : list[i].post # p
    BY <2>1 DEF ListInv, Stored
  <2>4. \A i, j \in Indices' : i - 1 = j - 1 => i = j
    BY DEF Indices
  <2>5. ~shifted' => \A i, j \in Indices' : list'[i].post = list'[j].post => i = j
    BY <1>2, <2>2, <2>3, <2>4 DEF ListInv
  <2>6. \A i \in Indices' : Stored(list[i])'
    BY <1>1, <2>1, <2>2 DEF Stored
  <2> QED
    BY <1>1, <2>1, <2>5, <2>6 DEF ListInv, Stored
<1>5. ASSUME NEW q \in Polls, PollFinds(q)
      PROVE  ListInv'
  <2>1. list' = list /\ Indices' = Indices
    BY <1>5 DEF PollFinds, Indices
  <2>2. at[q] \in Indices /\ found' = [found EXCEPT ![q] = list[at[q]]]
    BY <1>5 DEF PollFinds, Indices, TypeOK, WalkOK, Readers
  <2>3. \A r \in Polls : found'[r] # Nobody =>
          ppc'[found'[r].post] = "ok" /\ found'[r].stamp = stamp'[found'[r].post]
    BY <1>1, <2>2, ListIsTyped
  <2> QED
    BY <1>1, <1>2, <2>1, <2>3 DEF ListInv, Stored
<1>6. ASSUME NEW q \in Polls, Mark(q)
      PROVE  ListInv'
  <2>1. found' = found /\ found[q] # Nobody
    BY <1>6, MarkWrites, NothingAssumption DEF Mark
  <2>2. /\ Indices' = Indices /\ at[q] \in Indices
        /\ list'[at[q]].post = found[q].post /\ list'[at[q]].stamp = found[q].stamp
        /\ \A i \in Indices : i # at[q] => list'[i] = list[i]
        /\ ~shifted' => list[at[q]].post = found[q].post
    BY <1>6, MarkWrites
  <2>3. ~shifted' => \A i \in Indices : list'[i].post = list[i].post
    BY <2>2
  <2>4. ~shifted' => \A i, j \in Indices' : list'[i].post = list'[j].post => i = j
    BY <1>2, <2>2, <2>3 DEF ListInv
  <2>5. \A i \in Indices' : Stored(list[i])'
    BY <1>1, <2>1, <2>2 DEF Stored
  <2> QED
    BY <1>1, <2>1, <2>4, <2>5 DEF ListInv, Stored
<1>7. CASE Clear \/ FlushList
  <2>1. found' = found /\ Indices' = {}
    BY <1>7, WipeEmpties DEF polling
  <2> QED
    BY <1>1, <2>1 DEF ListInv, Stored
<1> QED
  BY QuietFrame, <1>3, <1>4, <1>5, <1>6, <1>7

LEMMA MarkStep ==
  TypeOK /\ LockInv /\ FoundInv /\ ListInv /\ MarkInv /\ [Next]_vars => MarkInv'
<1> SUFFICES ASSUME TypeOK, LockInv, FoundInv, ListInv, MarkInv, [Next]_vars,
                    ~shifted', ~lockLost'
             PROVE  MarkInv'
  BY DEF MarkInv
<1>1. ~shifted /\ ~lockLost
  BY FlagsStay
<1> DEFINE Fresh(q) ==
      /\ client[q] \notin found[q].sent
      /\ \A i \in Indices : list[i].post = found[q].post => list[i].sent = found[q].sent
    Marked(q) == \A i \in Indices : list[i].post = found[q].post => client[q] \in list[i].sent
<1>2. /\ \A q \in Polls : lpc[q] = "mark" => Fresh(q)
      /\ \A q \in Polls : Returned(q) => Marked(q)
      /\ \A q, r \in Polls : q # r /\ Returned(q) /\ Returned(r) /\ client[q] = client[r]
           => found[q].post # found[r].post
  BY <1>1 DEF MarkInv
<1>3. CASE Quiet
  <2>1. list' = list /\ client' = client /\ found' = found /\ Indices' = Indices
    BY <1>3 DEF Quiet, Indices
  <2> QED
    BY <1>2, <1>3, <2>1 DEF MarkInv, Quiet
<1>4. ASSUME NEW p \in Posts, Push(p)
      PROVE  MarkInv'
  <2>1. found' = found /\ client' = client /\ lpc' = lpc /\ ppc[p] = "push"
    BY <1>4 DEF Push, PostStep, polling
  <2>2. \A i \in Indices' : \/ list'[i].post = p
                            \/ i - 1 \in Indices /\ list'[i] = list[i - 1]
    BY <1>4, PushMoves
  <2>3. \A q \in Polls : found[q] # Nobody => found[q].post # p
    BY <2>1 DEF ListInv, Stored
  <2>4. \A q \in Polls : lpc[q] = "mark" => Fresh(q)'
    BY <1>2, <2>1, <2>2, <2>3 DEF FoundInv
  <2>5. \A q \in Polls : Returned(q) => Marked(q)'
    BY <1>2, <2>1, <2>2, <2>3 DEF Returned
  <2>6. \A q \in Polls : Returned(q)' = Returned(q)
    BY <2>1 DEF Returned
  <2> QED
    BY <1>2, <2>1, <2>4, <2>5, <2>6 DEF MarkInv
<1>5. ASSUME NEW q \in Polls, PollFinds(q)
      PROVE  MarkInv'
  <2>1. list' = list /\ Indices' = Indices /\ client' = client
    BY <1>5 DEF PollFinds, Indices
  <2>2. /\ at[q] \in Indices /\ client[q] \notin list[at[q]].sent
        /\ found'[q] = list[at[q]] /\ \A r \in Polls : r # q => found'[r] = found[r]
        /\ lpc'[q] = "mark" /\ \A r \in Polls : r # q => lpc'[r] = lpc[r]
    BY <1>5, ListIsTyped DEF PollFinds, PollStep, Wanted, Indices, TypeOK, WalkOK, Readers
  <2>3. Fresh(q)'
    BY <1>1, <2>1, <2>2 DEF ListInv
  <2>4. \A r \in Polls : r # q => (Fresh(r)' <=> Fresh(r)) /\ (Marked(r)' <=> Marked(r))
                                  /\ (Returned(r)' <=> Returned(r))
    BY <2>1, <2>2 DEF Returned
  <2>5. ~Returned(q)'
    BY <2>2 DEF Returned
  <2> QED
    BY <1>2, <2>1, <2>2, <2>3, <2>4, <2>5 DEF MarkInv
<1>6. ASSUME NEW q \in Polls, Mark(q)
      PROVE  MarkInv'
  <2>1. /\ found' = found /\ client' = client /\ found[q] # Nobody /\ lpc[q] = "mark"
        /\ lpc'[q] = "unlock" /\ \A r \in Polls : r # q => lpc'[r] = lpc[r]
    BY <1>6, MarkWrites, NothingAssumption, ListIsTyped DEF Mark, PollStep
  <2>2. /\ Indices' = Indices /\ at[q] \in Indices
        /\ list'[at[q]].sent = found[q].sent \cup {client[q]}
        /\ list[at[q]].post = found[q].post /\ list'[at[q]].post = found[q].post
        /\ \A i \in Indices : i # at[q] => list'[i] = list[i]
    BY <1>6, MarkWrites
  <2>3. list[at[q]].sent = found[q].sent /\ client[q] \notin found[q].sent
    BY <1>2, <2>1, <2>2
  <2>4. \A i \in Indices : list'[i].post = list[i].post /\ list[i].sent \subseteq list'[i].sent
    BY <2>2, <2>3
  <2>5. \A r \in Polls : lpc[r] = "mark" => r = q
    BY <1>1, <2>1 DEF LockInv, Holders
  <2>6. \A r \in Polls : Marked(r) => Marked(r)'
    BY <2>1, <2>2, <2>4
  <2>7. Marked(q)'
    BY <1>1, <2>1, <2>2, <2>4 DEF ListInv
  <2>8. \A r \in Polls : r # q => (Returned(r)' <=> Returned(r)) /\ lpc'[r] # "mark"
    BY <2>1, <2>5 DEF Returned
  <2>9. \A r \in Polls : r # q /\ Returned(r) /\ client[r] = client[q]
          => found[r].post # found[q].post
    BY <1>2, <2>2, <2>3
  <2> QED
    BY <1>2, <2>1, <2>6, <2>7, <2>8, <2>9 DEF MarkInv
<1>7. CASE Clear \/ FlushList
  <2>1. UNCHANGED <<lpc, client, found>> /\ Indices' = {}
    BY <1>7, WipeEmpties DEF polling
  <2>2. \A q \in Polls : (Returned(q)' <=> Returned(q)) /\ (Fresh(q) => Fresh(q)') /\ Marked(q)'
    BY <2>1 DEF Returned
  <2> QED
    BY <1>2, <2>1, <2>2 DEF MarkInv
<1> QED
  BY QuietFrame, <1>3, <1>4, <1>5, <1>6, <1>7

LEMMA ReturnStep ==
  TypeOK /\ LockInv /\ FoundInv /\ ReturnInv /\ [Next]_vars => ReturnInv'
<1> SUFFICES ASSUME TypeOK, LockInv, FoundInv, ReturnInv, [Next]_vars,
                    failures' = 0, ~lockLost'
             PROVE  ReturnInv'
  BY DEF ReturnInv
<1>1. /\ \A i \in Indices : Accounted(list[i])
      /\ \A q \in Polls : lpc[q] = "mark" => Accounted(found[q])
  BY FlagsStay DEF ReturnInv
<1> DEFINE Counted(n) == \A c \in n.sent : \E q \in Polls :
             client'[q] = c /\ Returned(q)' /\ found'[q].post = n.post
<1>2. ASSUME NEW n, Accounted(n), client' = client,
             \A q \in Polls : Returned(q) => Returned(q)' /\ found'[q] = found[q]
      PROVE  Counted(n)
  BY <1>2 DEF Accounted
<1> HIDE DEF Counted
<1>3. ASSUME \A i \in Indices' : Counted(list'[i]),
             \A q \in Polls : lpc'[q] = "mark" => Counted(found'[q])
      PROVE  ReturnInv'
  BY <1>3 DEF ReturnInv, Accounted, Counted
<1>4. CASE Quiet
  <2>1. list' = list /\ client' = client /\ found' = found /\ Indices' = Indices
    BY <1>4 DEF Quiet, Indices
  <2>2. \A q \in Polls : /\ Returned(q) => Returned(q)' /\ found'[q] = found[q]
                         /\ lpc'[q] = "mark" => lpc[q] = "mark"
    BY <1>4, <2>1 DEF Quiet
  <2> QED
    BY <1>1, <1>2, <1>3, <2>1, <2>2
<1>5. ASSUME NEW p \in Posts, Push(p)
      PROVE  ReturnInv'
  <2>1. found' = found /\ client' = client /\ lpc' = lpc
    BY <1>5 DEF Push, polling
  <2>2. \A q \in Polls : Returned(q) => Returned(q)'
    BY <2>1 DEF Returned
  <2>3. \A i \in Indices' : \/ list'[i].sent = {}
                            \/ i - 1 \in Indices /\ list'[i] = list[i - 1]
    BY <1>5, PushMoves
  <2>4. \A n : n.sent = {} => Counted(n)
    BY DEF Counted
  <2> QED
    BY <1>1, <1>2, <1>3, <2>1, <2>2, <2>3, <2>4
<1>6. ASSUME NEW q \in Polls, PollFinds(q)
      PROVE  ReturnInv'
  <2>1. list' = list /\ Indices' = Indices /\ client' = client
    BY <1>6 DEF PollFinds, Indices
  <2>2. /\ at[q] \in Indices /\ lpc[q] = "walk"
        /\ found'[q] = list[at[q]] /\ \A r \in Polls : r # q => found'[r] = found[r]
        /\ \A r \in Polls : r # q => lpc'[r] = lpc[r]
    BY <1>6, ListIsTyped DEF PollFinds, PollStep, Indices, TypeOK, WalkOK, Readers
  <2>3. \A r \in Polls : Returned(r) => Returned(r)' /\ found'[r] = found[r]
    BY <2>2 DEF Returned
  <2>4. \A i \in Indices' : Counted(list'[i])
    BY <1>1, <1>2, <2>1, <2>3
  <2>5. \A r \in Polls : lpc'[r] = "mark" => Counted(found'[r])
    BY <1>1, <1>2, <2>1, <2>2, <2>3, <2>4
  <2> QED
    BY <1>3, <2>4, <2>5
<1>7. ASSUME NEW q \in Polls, Mark(q)
      PROVE  ReturnInv'
  <2>1. /\ found' = found /\ client' = client /\ found[q] # Nobody /\ lpc[q] = "mark"
        /\ lpc'[q] = "unlock" /\ \A r \in Polls : r # q => lpc'[r] = lpc[r]
    BY <1>7, MarkWrites, NothingAssumption, ListIsTyped DEF Mark, PollStep
  <2>2. Returned(q)' /\ \A r \in Polls : Returned(r) => Returned(r)'
    BY <2>1 DEF Returned
  <2>3. Counted(found[q])
    BY <1>1, <1>2, <2>1, <2>2
  <2>4. /\ Indices' = Indices
        /\ list'[at[q]].sent = found[q].sent \cup {client[q]}
        /\ list'[at[q]].post = found[q].post
        /\ \A i \in Indices : i # at[q] => list'[i] = list[i]
    BY <1>7, MarkWrites
  <2>5. Counted(list'[at[q]])
    BY <2>1, <2>2, <2>3, <2>4 DEF Counted
  <2>6. \A i \in Indices' : Counted(list'[i])
    BY <1>1, <1>2, <2>1, <2>2, <2>4, <2>5
  <2>7. \A r \in Polls : lpc'[r] = "mark" => Counted(found'[r])
    BY <1>1, <1>2, <2>1, <2>2
  <2> QED
    BY <1>3, <2>6, <2>7
<1>8. CASE Clear \/ FlushList
  <2>1. UNCHANGED <<lpc, client, found>> /\ Indices' = {}
    BY <1>8, WipeEmpties DEF polling
  <2>2. \A q \in Polls : Returned(q) => Returned(q)'
    BY <2>1 DEF Returned
  <2> QED
    BY <1>1, <1>2, <1>3, <2>1, <2>2
<1> QED
  BY QuietFrame, <1>4, <1>5, <1>6, <1>7, <1>8

------------------------------------------------------------------------------
(***************************************************************************)
(* The pulls.                                                              *)
(***************************************************************************)
(* A step that no pull sees: the list keeps its messages where they are. *)
Unseen ==
  /\ UNCHANGED <<pulling, owed, pushes, wiped>>
  /\ Len(list') = Len(list) /\ Indices' = Indices
  /\ ~shifted' => \A i \in Indices :
       list'[i].post = list[i].post /\ list'[i].stamp = list[i].stamp
  /\ \A g \in Pulls : at'[g] = at[g] /\ len'[g] = len[g]

LEMMA UnseenFrame ==
  ASSUME TypeOK, LockInv, FoundInv, ListInv, [Next]_vars
  PROVE  \/ Unseen
         \/ \E p \in Posts : Push(p)
         \/ \E g \in Pulls : StartPull(g) \/ PullNext(g) \/ AnswerPull(g)
         \/ Clear \/ FlushList
<1> SUFFICES ASSUME \A p \in Posts : ~Push(p),
                    \A g \in Pulls : ~StartPull(g) /\ ~PullNext(g) /\ ~AnswerPull(g),
                    ~Clear, ~FlushList
             PROVE  Unseen
  OBVIOUS
<1>1. UNCHANGED <<pulling, owed, pushes, wiped>>
  BY PullsFrame
<1>2. \A g \in Pulls : at'[g] = at[g] /\ len'[g] = len[g]
  <2>1. CASE UNCHANGED walk
    BY <2>1 DEF walk
  <2>2. ASSUME NEW q \in Polls, PollLen(q) \/ PollNext(q)
        PROVE  \A g \in Pulls : at'[g] = at[g] /\ len'[g] = len[g]
    BY <2>2, RequestsAssumption DEF PollLen, PollNext, TypeOK, WalkOK, Readers
  <2> QED
    BY WalkFrame, <2>1, <2>2
<1>3. /\ Len(list') = Len(list) /\ Indices' = Indices
      /\ ~shifted' => \A i \in Indices :
           list'[i].post = list[i].post /\ list'[i].stamp = list[i].stamp
  <2>1. CASE list' = list
    BY <2>1 DEF Indices
  <2>2. ASSUME NEW q \in Polls, Mark(q)
        PROVE  /\ Len(list') = Len(list) /\ Indices' = Indices
               /\ ~shifted' => \A i \in Indices :
                    list'[i].post = list[i].post /\ list'[i].stamp = list[i].stamp
    <3>1. /\ Len(list') = Len(list) /\ Indices' = Indices /\ at[q] \in Indices
          /\ list'[at[q]].post = found[q].post /\ list'[at[q]].stamp = found[q].stamp
          /\ \A i \in Indices : i # at[q] => list'[i] = list[i]
          /\ ~shifted' => list[at[q]].post = found[q].post
      BY <2>2, MarkWrites
    <3>2. Stored(found[q]) /\ Stored(list[at[q]])
      BY <2>2, <3>1, MarkWrites, NothingAssumption DEF ListInv
    <3>3. ~shifted' => list[at[q]].stamp = found[q].stamp
      BY <3>1, <3>2 DEF Stored
    <3> QED
      BY <3>1, <3>3
  <2> QED
    BY QuietFrame, <2>1, <2>2 DEF Quiet, PollFinds
<1> QED
  BY <1>1, <1>2, <1>3 DEF Unseen

LEMMA PullsAreTyped ==
  TypeOK => /\ \A g \in Pulls : /\ pushes[g] \in Nat /\ at[g] \in Nat /\ len[g] \in Nat
                                /\ reply[g] \in Seq(Posts) /\ Len(reply[g]) \in Nat
            /\ gpc = [g \in Pulls |-> gpc[g]] /\ since = [g \in Pulls |-> since[g]]
            /\ reply = [g \in Pulls |-> reply[g]] /\ owed = [g \in Pulls |-> owed[g]]
            /\ pushes = [g \in Pulls |-> pushes[g]] /\ wiped = [g \in Pulls |-> wiped[g]]
            /\ at = [r \in Readers |-> at[r]] /\ len = [r \in Readers |-> len[r]]
            /\ Limit \in Nat /\ Pulls \subseteq Readers
BY BoundsAssumption DEF TypeOK, PullsOK, WalkOK, Readers

(* What PullInv says of one pull. *)
OnePull(g) ==
  /\ gpc[g] = "idle" => pushes[g] = 0 /\ at[g] = 1
  /\ gpc[g] = "walk" /\ ~wiped[g] => Len(list) = len[g] + pushes[g]
  /\ gpc[g] = "walk" /\ ~wiped[g] /\ ~shifted =>
       /\ owed[g] \subseteq {list[i].post : i \in Old(g)}
       /\ \A i \in Old(g) : i < at[g] => list[i].post \in Answer(g)

(* A step that leaves the list alone and another pull too. *)
LEMMA OtherPull ==
  ASSUME NEW g, OnePull(g), list' = list, shifted' = shifted,
         gpc'[g] = gpc[g], since'[g] = since[g], reply'[g] = reply[g], owed'[g] = owed[g],
         pushes'[g] = pushes[g], wiped'[g] = wiped[g], at'[g] = at[g], len'[g] = len[g]
  PROVE  OnePull(g)'
<1>1. Old(g)' = Old(g) /\ Answer(g)' = Answer(g)
  BY DEF Old, Answer, Indices
<1> QED
  BY <1>1 DEF OnePull

LEMMA UnseenPull ==
  ASSUME TypeOK, [Next]_vars, Unseen, NEW g \in Pulls, OnePull(g)
  PROVE  OnePull(g)'
<1>1. /\ UNCHANGED <<gpc, since, reply, owed, pushes, wiped>>
      /\ at'[g] = at[g] /\ len'[g] = len[g] /\ Len(list') = Len(list)
  BY DEF Unseen, pulling
<1>2. Answer(g)' = Answer(g)
  BY <1>1 DEF Answer
<1>3. ASSUME ~shifted', gpc[g] = "walk", ~wiped[g]
      PROVE  /\ owed[g] \subseteq {list'[i].post : i \in Old(g)'}
             /\ \A i \in Old(g)' : i < at[g] => list'[i].post \in Answer(g)
  <2>1. ~shifted
    BY <1>3, FlagsStay
  <2>2. Old(g)' = Old(g) /\ \A i \in Old(g) : list'[i].post = list[i].post
    BY <1>1, <1>3 DEF Old, Unseen
  <2> QED
    BY <1>3, <2>1, <2>2 DEF OnePull
<1> QED
  BY <1>1, <1>2, <1>3 DEF OnePull

LEMMA PushPull ==
  ASSUME TypeOK, NEW p \in Posts, Push(p), NEW g \in Pulls, OnePull(g)
  PROVE  OnePull(g)'
<1>1. /\ gpc' = gpc /\ since' = since /\ reply' = reply /\ owed' = owed /\ wiped' = wiped
      /\ at' = at /\ len' = len /\ shifted' = shifted
  BY DEF Push, pulling, walk
<1>2. pushes'[g] = IF gpc[g] = "walk" THEN pushes[g] + 1 ELSE pushes[g]
  BY DEF Push
<1>3. pushes[g] \in Nat /\ at[g] \in Nat /\ len[g] \in Nat
  BY PullsAreTyped
<1>4. /\ Len(list) \in Nat /\ Len(list') = Len(list) + 1
      /\ \A i \in Indices' : i # 1 => i - 1 \in Indices /\ list'[i] = list[i - 1]
      /\ \A i \in Indices : i + 1 \in Indices' /\ list'[i + 1] = list[i]
  BY PushMoves
<1>5. Answer(g)' = Answer(g)
  BY <1>1 DEF Answer
<1>6. ASSUME gpc[g] = "walk", ~wiped[g], ~shifted
      PROVE  /\ owed[g] \subseteq {list'[i].post : i \in Old(g)'}
             /\ \A i \in Old(g)' : i < at[g] => list'[i].post \in Answer(g)
  <2>1. ASSUME NEW i \in Old(g) PROVE i + 1 \in Old(g)' /\ list'[i + 1].post = list[i].post
    <3>1. i \in Indices /\ i > pushes[g] /\ list[i].stamp > since[g] /\ i \in Nat
      BY DEF Old, Indices
    <3>2. i + 1 > pushes'[g]
      BY <1>2, <1>3, <1>6, <3>1
    <3> QED
      BY <1>1, <1>4, <3>1, <3>2 DEF Old
  <2>2. ASSUME NEW i \in Old(g)'
        PROVE  i - 1 \in Old(g) /\ list'[i].post = list[i - 1].post /\ i - 1 < i /\ i \in Nat
    <3>1. i \in Indices' /\ i > pushes'[g] /\ list'[i].stamp > since[g]
      BY <1>1 DEF Old
    <3>2. i \in Nat /\ i # 1 /\ i - 1 > pushes[g]
      BY <1>2, <1>3, <1>4, <1>6, <3>1 DEF Indices
    <3> QED
      BY <1>4, <3>1, <3>2 DEF Old
  <2>3. owed[g] \subseteq {list'[i].post : i \in Old(g)'}
    BY <1>6, <2>1 DEF OnePull
  <2>4. ASSUME NEW i \in Old(g)', i < at[g] PROVE list'[i].post \in Answer(g)
    <3>1. i - 1 < at[g]
      BY <1>3, <2>2, <2>4
    <3> QED
      BY <1>6, <2>2, <3>1 DEF OnePull
  <2> QED
    BY <2>3, <2>4
<1>7. gpc[g] = "walk" /\ ~wiped[g] => Len(list') = len[g] + pushes'[g]
  BY <1>2, <1>3, <1>4 DEF OnePull
<1> QED
  BY <1>1, <1>2, <1>5, <1>6, <1>7 DEF OnePull

LEMMA StartPullPull ==
  ASSUME TypeOK, NEW g \in Pulls, StartPull(g), OnePull(g)
  PROVE  OnePull(g)'
<1>1. /\ gpc'[g] = "walk" /\ len'[g] = Len(list) /\ at' = at /\ pushes' = pushes /\ list' = list
      /\ at[g] = 1 /\ pushes[g] = 0 /\ Len(list) \in Nat
      /\ owed'[g] = {list[i].post : i \in {j \in Indices : list[j].stamp > since'[g]}}
  BY PullsAreTyped, ListIsTyped DEF StartPull, OnePull, Indices
<1>2. Old(g)' = {j \in Indices : list[j].stamp > since'[g]}
  BY <1>1 DEF Old, Indices
<1>3. \A i \in Old(g)' : ~(i < at[g])
  BY <1>1, <1>2 DEF Indices
<1> QED
  BY <1>1, <1>2, <1>3 DEF OnePull

LEMMA PullNextPull ==
  ASSUME TypeOK, NEW g \in Pulls, PullNext(g), OnePull(g)
  PROVE  OnePull(g)'
<1>1. /\ UNCHANGED <<list, shifted, gpc, since, owed, pushes, wiped, len>>
      /\ gpc[g] = "walk" /\ at'[g] = at[g] + 1 /\ at[g] \in Nat
      /\ reply[g] \in Seq(Posts)
  BY PullsAreTyped DEF PullNext, history
<1>2. Old(g)' = Old(g) /\ \A i \in Old(g) : i \in Nat /\ i <= Len(list) /\ list[i].stamp > since[g]
  BY <1>1 DEF Old, Indices
<1>3. Answer(g) \subseteq Answer(g)' /\ (at[g] \in Old(g) => list[at[g]].post \in Answer(g)')
  <2>1. CASE at[g] <= Len(list) /\ list[at[g]].stamp > since[g]
    <3> DEFINE new == list[at[g]].post
    <3>1. reply'[g] = Append(reply[g], new)
      BY <2>1, PullsAreTyped DEF PullNext
    <3> HIDE DEF new
    <3>2. /\ Len(reply'[g]) = Len(reply[g]) + 1 /\ reply'[g][Len(reply[g]) + 1] = new
          /\ \A i \in 1 .. Len(reply[g]) : reply'[g][i] = reply[g][i]
          /\ Len(reply[g]) \in Nat
      BY <1>1, <3>1
    <3>3. new \in Answer(g)'
      BY <3>2 DEF Answer
    <3>4. Answer(g) \subseteq Answer(g)'
      BY <3>2 DEF Answer
    <3> QED
      BY <3>3, <3>4 DEF new
  <2>2. CASE ~(at[g] <= Len(list) /\ list[at[g]].stamp > since[g])
    <3>1. reply' = reply
      BY <2>2 DEF PullNext
    <3> QED
      BY <1>2, <2>2, <3>1 DEF Answer
  <2> QED
    BY <2>1, <2>2
<1>4. \A i \in Old(g) : i < at[g] + 1 => i < at[g] \/ i = at[g]
  BY <1>1, <1>2
<1> QED
  BY <1>1, <1>2, <1>3, <1>4 DEF OnePull

LEMMA PullsStepOn ==
  TypeOK /\ LockInv /\ FoundInv /\ ListInv /\ PullInv /\ [Next]_vars => PullInv'
<1> SUFFICES ASSUME TypeOK, LockInv, FoundInv, ListInv, PullInv, [Next]_vars, NEW g \in Pulls
             PROVE  OnePull(g)'
  BY DEF PullInv, OnePull
<1>1. OnePull(g)
  BY DEF PullInv, OnePull
<1>2. CASE Unseen
  BY <1>1, <1>2, UnseenPull
<1>3. ASSUME NEW p \in Posts, Push(p) PROVE OnePull(g)'
  BY <1>1, <1>3, PushPull
<1>4. ASSUME NEW h \in Pulls, StartPull(h) \/ PullNext(h) \/ AnswerPull(h)
      PROVE  OnePull(g)'
  <2>1. CASE h # g
    <3>1. /\ list' = list /\ shifted' = shifted
          /\ gpc'[g] = gpc[g] /\ since'[g] = since[g] /\ reply'[g] = reply[g]
          /\ owed'[g] = owed[g] /\ pushes'[g] = pushes[g] /\ wiped'[g] = wiped[g]
          /\ at'[g] = at[g] /\ len'[g] = len[g]
      BY <1>4, <2>1, PullsAreTyped DEF StartPull, PullNext, AnswerPull, history, walk
    <3> QED
      BY <1>1, <3>1, OtherPull
  <2>2. CASE h = g /\ AnswerPull(g)
    BY <2>2, PullsAreTyped DEF AnswerPull, OnePull
  <2> QED
    BY <1>1, <1>4, <2>1, <2>2, StartPullPull, PullNextPull
<1>5. CASE Clear \/ FlushList
  <2>1. /\ UNCHANGED <<gpc, pushes, at>>
        /\ wiped'[g] = (wiped[g] \/ gpc[g] = "walk")
    BY <1>5 DEF Clear, FlushList, DeleteList, pulling, walk
  <2> QED
    BY <1>1, <2>1 DEF OnePull
<1> QED
  BY <1>2, <1>3, <1>4, <1>5, UnseenFrame

(* What a pull that has walked the list has missed is beyond the length it began with. *)
LEMMA WalkedMissesFew ==
  ASSUME TypeOK, NEW g \in Pulls, OnePull(g), AnswerPull(g), Len(reply[g]) < Limit,
         ~wiped[g], ~shifted
  PROVE  Cardinality(owed[g] \ Answer(g)) <= pushes[g]
<1> DEFINE Beyond == (len[g] + 1) .. (len[g] + pushes[g])
           Unread == {list[i].post : i \in Beyond}
           f == [i \in Beyond |-> list[i].post]
<1>1. /\ pushes[g] \in Nat /\ at[g] \in Nat /\ len[g] \in Nat
      /\ Len(reply[g]) \in Nat /\ Limit \in Nat
  BY PullsAreTyped
<1>2. gpc[g] = "walk" /\ at[g] > len[g]
  BY <1>1 DEF AnswerPull, Walked
<1>3. owed[g] \ Answer(g) \subseteq Unread
  <2> SUFFICES ASSUME NEW x \in owed[g], x \notin Answer(g) PROVE x \in Unread
    OBVIOUS
  <2>1. PICK i \in Old(g) : x = list[i].post
    BY <1>2 DEF OnePull
  <2>2. i \in 1 .. Len(list) /\ ~(i < at[g]) /\ Len(list) = len[g] + pushes[g]
    BY <1>2, <2>1 DEF OnePull, Old, Indices
  <2>3. i \in Beyond
    BY <1>1, <1>2, <2>2
  <2> QED
    BY <2>1, <2>3
<1>4. IsFiniteSet(Beyond) /\ Cardinality(Beyond) = pushes[g]
  <2>1. len[g] + 1 \in Int /\ len[g] + pushes[g] \in Int
    BY <1>1
  <2>2. IsFiniteSet(Beyond) /\ Cardinality(Beyond) =
          IF len[g] + 1 > len[g] + pushes[g] THEN 0
          ELSE (len[g] + pushes[g]) - (len[g] + 1) + 1
    BY <2>1, FS_Interval
  <2> QED
    BY <1>1, <2>2
<1>5. f \in Surjection(Beyond, Unread)
  BY DEF Surjection
<1> HIDE DEF Beyond, Unread, f
<1>6. IsFiniteSet(Unread) /\ Cardinality(Unread) <= Cardinality(Beyond)
  BY <1>4, <1>5, FS_Surjection
<1>7. Cardinality(owed[g] \ Answer(g)) <= Cardinality(Unread)
      /\ Cardinality(owed[g] \ Answer(g)) \in Nat /\ Cardinality(Unread) \in Nat
  BY <1>3, <1>6, FS_Subset, FS_CardinalityType
<1> QED
  BY <1>1, <1>4, <1>6, <1>7

LEMMA MissesStep ==
  TypeOK /\ PullInv /\ PullMissesFew /\ [Next]_vars => PullMissesFew'
<1> SUFFICES ASSUME TypeOK, PullInv, PullMissesFew, [Next]_vars, NEW g \in Pulls,
                    gpc'[g] = "answered", Len(reply'[g]) < Limit, ~wiped'[g], ~shifted'
             PROVE  Cardinality(owed'[g] \ Answer(g)') <= pushes'[g]
  BY DEF PullMissesFew
<1>1. ~shifted
  BY FlagsStay
<1>2. CASE AnswerPull(g)
  <2>1. UNCHANGED <<reply, owed, pushes, wiped>> /\ Answer(g)' = Answer(g)
    BY <1>2 DEF AnswerPull, history, Answer
  <2>2. OnePull(g)
    BY DEF PullInv, OnePull
  <2> QED
    BY <1>1, <1>2, <2>1, <2>2, WalkedMissesFew
<1>3. CASE ~AnswerPull(g)
  <2>1. /\ gpc[g] = "answered" /\ reply'[g] = reply[g] /\ owed'[g] = owed[g]
        /\ pushes'[g] = pushes[g] /\ ~wiped[g]
    <3>1. CASE UNCHANGED <<pulling, owed, pushes, wiped>>
      BY <3>1 DEF pulling
    <3>2. ASSUME NEW p \in Posts, Push(p)
          PROVE  /\ gpc[g] = "answered" /\ reply'[g] = reply[g] /\ owed'[g] = owed[g]
                 /\ pushes'[g] = pushes[g] /\ ~wiped[g]
      BY <3>2 DEF Push, pulling
    <3>3. ASSUME NEW h \in Pulls, StartPull(h) \/ PullNext(h) \/ AnswerPull(h)
          PROVE  /\ gpc[g] = "answered" /\ reply'[g] = reply[g] /\ owed'[g] = owed[g]
                 /\ pushes'[g] = pushes[g] /\ ~wiped[g]
      BY <1>3, <3>3, PullsAreTyped DEF StartPull, PullNext, AnswerPull, history
    <3>4. CASE Clear \/ FlushList
      BY <3>4 DEF Clear, FlushList, DeleteList, pulling
    <3> QED
      BY <3>1, <3>2, <3>3, <3>4, PullsFrame
  <2>2. Answer(g)' = Answer(g)
    BY <2>1 DEF Answer
  <2> QED
    BY <1>1, <2>1, <2>2 DEF PullMissesFew
<1> QED
  BY <1>2, <1>3

------------------------------------------------------------------------------
(***************************************************************************)
(* The theorems.                                                           *)
(***************************************************************************)
(* The strengthening holds in every reachable state of the server. *)
THEOREM ReadersInductive == Spec => [](SInv /\ ReadInv)
<1>1. SInv /\ ReadInv /\ [Next]_vars => ReadInv'
  BY LockStep, FoundStep, ListStep, MarkStep, ReturnStep, PullsStepOn, MissesStep
    DEF ReadInv, SInv
<1>2. SInv /\ [Next]_vars => SInv'
  BY TypeStep, DedupeStep DEF SInv
<1> QED
  BY InitInv, ReadInit, <1>1, <1>2, PTL DEF Spec

(* A pull that walks the list without a lock misses at most as many of the messages
   it owes as were pushed meanwhile.                                               *)
THEOREM PullsMissFew == Spec => []PullMissesFew
<1>1. ReadInv => PullMissesFew
  BY DEF ReadInv
<1> QED
  BY ReadersInductive, <1>1, PTL

(* However many long polls of a client run at once, a message is returned to one. *)
THEOREM ReturnsOnce == Spec => []OncePerClient
<1>1. ReadInv => OncePerClient
  <2> SUFFICES ASSUME FoundInv, MarkInv PROVE OncePerClient
    BY DEF ReadInv
  <2>1. \A q \in Polls : lpc[q] = "answered" => Returned(q)
    BY DEF FoundInv, Returned
  <2> QED
    BY <2>1 DEF MarkInv, OncePerClient
<1> QED
  BY ReadersInductive, <1>1, PTL

(* A mark is never left behind for a message that no poll returns, as long as no
   request dies and no lock is lost.                                             *)
THEOREM MarksAreReturned == Spec => []MarkedIsReturned
<1>1. ReadInv => MarkedIsReturned
  BY DEF ReadInv, ReturnInv, Accounted, Returned, Indices, MarkedIsReturned
<1> QED
  BY ReadersInductive, <1>1, PTL
==============================================================================
