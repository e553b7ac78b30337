----------------------- MODULE NotificationQueue_proofs -----------------------
(***************************************************************************)
(* Proofs about NotificationQueue, for every set of processes and contents,*)
(* every timing constant and any number of deaths.                         *)
(***************************************************************************)
EXTENDS NotificationQueue, TLAPS, FiniteSetTheorems

(* _backoff_delay never exceeds BACKOFF_MAX_SECONDS. *)
LEMMA BackoffBounded ==
  ASSUME NEW k \in Nat
  PROVE  Backoff(k) \in Int /\ Backoff(k) <= BackoffMax
<1>1. Max2(0, k - 1) \in Nat
  BY DEF Max2
<1>2. 2 ^ Max2(0, k - 1) \in Int
  BY <1>1, SMT
<1>3. BackoffBase * 2 ^ Max2(0, k - 1) \in Int /\ BackoffMax \in Int
  BY <1>2, TimeAssumption
<1> QED
  BY <1>3 DEF Backoff, Min2

(* What a worker writes back for a retry is an item file, due no later than the
   longest backoff from now.                                                    *)
LEMMA RetryIsItem ==
  ASSUME TypeOK, WorkerInv, NEW w \in Procs, WriteRetry(w)
  PROVE  \E retry \in Item :
           /\ retry.next <= MaxTime + BackoffMax
           /\ pending' = [pending EXCEPT ![held[w]] = retry]
<1> DEFINE tried == inflight[held[w]].attempts + 1
           retry == [attempts |-> tried, next |-> batchNow[w] + Backoff(tried)]
<1>1. inflight[held[w]] \in Item
  BY NoFileAssumption DEF TypeOK, WorkerInv, WriteRetry, WorkerStep, Holding, Active
<1>2. tried \in Nat
  BY <1>1 DEF Item
<1>3. retry \in Item /\ retry.next <= MaxTime + BackoffMax
  BY <1>2, BackoffBounded, TimeAssumption DEF Item, TypeOK, Time
<1>4. pending' = [pending EXCEPT ![held[w]] = retry]
  BY DEF WriteRetry
<1> QED
  BY <1>3, <1>4

(* Type correctness is preserved: every file, marker, clock and program counter
   stays in its type, and no retry is scheduled beyond the longest backoff.    *)
LEMMA TypeStep == TypeOK /\ WorkerInv /\ [Next]_vars => TypeOK'
<1> SUFFICES ASSUME TypeOK, WorkerInv, [Next]_vars PROVE TypeOK'
  OBVIOUS
<1> USE TimeAssumption, ProcsAssumption, NoFileAssumption
    DEF TypeOK, files, hookVars, workerVars, history, Time, Active, HookStep,
        WorkerStep, Files
<1>1. TypeOK'
  <2>1. CASE Tick
    BY <2>1 DEF Tick
  <2>2. ASSUME NEW p \in Procs, Begin(p) \/ Enqueue(p) \/ HookDies(p)
        PROVE  TypeOK'
    <3>1. CASE Begin(p)
      BY <3>1 DEF Begin
    <3>2. CASE ListMarkers(p)
      BY <3>2 DEF ListMarkers
    <3>3. CASE KeepMarker(p)
      BY <3>3 DEF KeepMarker
    <3>4. CASE ReadStaleMarker(p)
      BY <3>4 DEF ReadStaleMarker
    <3>5. CASE UnlinkMarker(p)
      BY <3>5 DEF UnlinkMarker, Absent, Unwritten, InForce
    <3>6. CASE Reserve(p)
      BY <3>6 DEF Reserve, Unwritten
    <3>7. CASE SkipDuplicate(p)
      BY <3>7 DEF SkipDuplicate
    <3>8. CASE WriteMarker(p)
      BY <3>8 DEF WriteMarker
    <3>9. CASE StoreItem(p)
      BY <3>9 DEF StoreItem, Item
    <3>10. CASE StartWorker(p)
      BY <3>10 DEF StartWorker
    <3>11. CASE HookDies(p)
      BY <3>11 DEF HookDies
    <3> QED
      BY <2>2, <3>1, <3>2, <3>3, <3>4, <3>5, <3>6, <3>7, <3>8, <3>9, <3>10,
         <3>11
         DEF Enqueue
  <2>3. ASSUME NEW w \in Procs, Work(w) \/ WorkerDies(w)
        PROVE  TypeOK'
    <3>1. CASE TakeLock(w)
      BY <3>1 DEF TakeLock
    <3>2. CASE LockBusy(w)
      BY <3>2 DEF LockBusy
    <3>3. CASE RestoreItem(w)
      BY <3>3 DEF RestoreItem
    <3>4. CASE Restored(w)
      BY <3>4 DEF Restored
    <3>5. CASE ReadClock(w)
      BY <3>5 DEF ReadClock
    <3>6. CASE ListPending(w)
      BY <3>6 DEF ListPending
    <3>7. CASE SkipItem(w)
      BY <3>7 DEF SkipItem
    <3>8. CASE Claim(w)
      BY <3>8 DEF Claim, First
    <3>9. CASE SendOk(w)
      BY <3>9 DEF SendOk
    <3>10. CASE SendFails(w)
      BY <3>10 DEF SendFails
    <3>11. CASE GiveUp(w)
      BY <3>11 DEF GiveUp
    <3>12. CASE WriteRetry(w)
      <4>1. PICK retry \in Item :
              /\ retry.next <= MaxTime + BackoffMax
              /\ pending' = [pending EXCEPT ![held[w]] = retry]
        BY <3>12, RetryIsItem
      <4> QED
        BY <3>12, <4>1 DEF WriteRetry
    <3>13. CASE UnlinkInflight(w)
      BY <3>13 DEF UnlinkInflight
    <3>14. CASE EndBatch(w)
      BY <3>14 DEF EndBatch
    <3>15. CASE Sleep(w)
      <4>1. PICK due \in DueTimes :
              wake' = [wake EXCEPT ![w] =
                Min2(MaxTime, now + Max2(0, Min2(PollMax, due - batchNow[w])))]
        BY <3>15 DEF Sleep
      <4>2. due \in Int
        BY DEF DueTimes, Item
      <4>3. Max2(0, Min2(PollMax, due - batchNow[w])) \in Nat
        BY <4>2 DEF Max2, Min2
      <4>4. Min2(MaxTime, now + Max2(0, Min2(PollMax, due - batchNow[w]))) \in 0 .. MaxTime
        BY <4>3 DEF Min2
      <4> QED
        BY <3>15, <4>1, <4>4 DEF Sleep
    <3>16. CASE WakeUp(w)
      BY <3>16 DEF WakeUp
    <3>17. CASE IdleExit(w)
      BY <3>17 DEF IdleExit
    <3>18. CASE ReleaseLock(w)
      BY <3>18 DEF ReleaseLock
    <3>19. CASE WorkerDies(w)
      BY <3>19 DEF WorkerDies
    <3> QED
      BY <2>3, <3>1, <3>2, <3>3, <3>4, <3>5, <3>6, <3>7, <3>8, <3>9, <3>10,
         <3>11, <3>12, <3>13, <3>14, <3>15, <3>16, <3>17, <3>18, <3>19
         DEF Work
  <2>4. CASE UNCHANGED vars
    BY <2>4 DEF vars
  <2> QED
    BY <2>1, <2>2, <2>3, <2>4 DEF Next
<1> QED
  BY <1>1

(* The lock discipline is preserved by every step, deaths included. *)
LEMMA WorkerStepInv == TypeOK /\ WorkerInv /\ [Next]_vars => WorkerInv'
<1> SUFFICES ASSUME TypeOK, WorkerInv, [Next]_vars PROVE WorkerInv'
  OBVIOUS
<1> USE ProcsAssumption, NoFileAssumption
    DEF TypeOK, WorkerInv, Settled, Holding, files, hookVars, workerVars, history,
        Active, HookStep, WorkerStep
<1>1. WorkerInv'
  <2>1. CASE Tick
    BY <2>1 DEF Tick
  <2>2. ASSUME NEW p \in Procs, Begin(p) \/ Enqueue(p) \/ HookDies(p)
        PROVE  WorkerInv'
    <3>1. CASE Begin(p)
      BY <3>1 DEF Begin
    <3>2. CASE ListMarkers(p)
      BY <3>2 DEF ListMarkers
    <3>3. CASE KeepMarker(p)
      BY <3>3 DEF KeepMarker
    <3>4. CASE ReadStaleMarker(p)
      BY <3>4 DEF ReadStaleMarker
    <3>5. CASE UnlinkMarker(p)
      BY <3>5 DEF UnlinkMarker
    <3>6. CASE Reserve(p)
      BY <3>6 DEF Reserve
    <3>7. CASE SkipDuplicate(p)
      BY <3>7 DEF SkipDuplicate
    <3>8. CASE WriteMarker(p)
      BY <3>8 DEF WriteMarker
    <3>9. CASE StoreItem(p)
      BY <3>9 DEF StoreItem, Item
    <3>10. CASE StartWorker(p)
      BY <3>10 DEF StartWorker
    <3>11. CASE HookDies(p)
      BY <3>11 DEF HookDies
    <3> QED
      BY <2>2, <3>1, <3>2, <3>3, <3>4, <3>5, <3>6, <3>7, <3>8, <3>9, <3>10,
         <3>11
         DEF Enqueue
  <2>3. ASSUME NEW w \in Procs, Work(w) \/ WorkerDies(w)
        PROVE  WorkerInv'
    <3>1. CASE TakeLock(w)
      BY <3>1 DEF TakeLock
    <3>2. CASE LockBusy(w)
      BY <3>2 DEF LockBusy
    <3>3. CASE RestoreItem(w)
      BY <3>3 DEF RestoreItem
    <3>4. CASE Restored(w)
      BY <3>4 DEF Restored
    <3>5. CASE ReadClock(w)
      BY <3>5 DEF ReadClock
    <3>6. CASE ListPending(w)
      BY <3>6 DEF ListPending
    <3>7. CASE SkipItem(w)
      BY <3>7 DEF SkipItem
    <3>8. CASE Claim(w)
      <4>1. PICK n \in First(w) :
              /\ pending' = [pending EXCEPT ![n] = NoFile]
              /\ inflight' = [inflight EXCEPT ![n] = pending[n]]
              /\ listing' = [listing EXCEPT ![w] = @ \ {n}]
              /\ held' = [held EXCEPT ![w] = n]
        BY <3>8 DEF Claim
      <4>2. n \in listing[w] /\ n \in Procs /\ pending[n] # NoFile
        BY <3>8 DEF Claim, First
      <4>3. /\ \A m \in Procs : inflight'[m] # NoFile => m = n
            /\ inflight'[n] # NoFile
        <5>1. \A m \in Procs : inflight[m] = NoFile
          BY <3>8 DEF Claim
        <5> QED
          BY <4>1, <4>2, <5>1
      <4>4. \A v \in Procs : v # w => wpc[v] \notin Active /\ wpc'[v] = wpc[v]
        BY <3>8 DEF Claim
      <4>5. wpc'[w] = "send" /\ held'[w] = n /\ listing'[w] = listing[w] \ {n}
        BY <3>8, <4>1 DEF Claim
      <4> QED
        BY <3>8, <4>1, <4>2, <4>3, <4>4, <4>5 DEF Claim
    <3>9. CASE SendOk(w)
      BY <3>9 DEF SendOk
    <3>10. CASE SendFails(w)
      BY <3>10 DEF SendFails
    <3>11. CASE GiveUp(w)
      BY <3>11 DEF GiveUp
    <3>12. CASE WriteRetry(w)
      <4>1. PICK retry \in Item : pending' = [pending EXCEPT ![held[w]] = retry]
        BY <3>12, RetryIsItem
      <4> QED
        BY <3>12, <4>1 DEF WriteRetry
    <3>13. CASE UnlinkInflight(w)
      BY <3>13 DEF UnlinkInflight
    <3>14. CASE EndBatch(w)
      BY <3>14 DEF EndBatch
    <3>15. CASE Sleep(w)
      BY <3>15 DEF Sleep
    <3>16. CASE WakeUp(w)
      BY <3>16 DEF WakeUp
    <3>17. CASE IdleExit(w)
      BY <3>17 DEF IdleExit
    <3>18. CASE ReleaseLock(w)
      BY <3>18 DEF ReleaseLock
    <3>19. CASE WorkerDies(w)
      BY <3>19 DEF WorkerDies
    <3> QED
      BY <2>3, <3>1, <3>2, <3>3, <3>4, <3>5, <3>6, <3>7, <3>8, <3>9, <3>10,
         <3>11, <3>12, <3>13, <3>14, <3>15, <3>16, <3>17, <3>18, <3>19
         DEF Work
  <2>4. CASE UNCHANGED vars
    BY <2>4 DEF vars
  <2> QED
    BY <2>1, <2>2, <2>3, <2>4 DEF Next
<1> QED
  BY <1>1

(* No step loses an item, and extra sends are paid for by deaths. *)
LEMMA ItemStep == TypeOK /\ WorkerInv /\ ItemInv /\ [Next]_vars => ItemInv'
<1> SUFFICES ASSUME TypeOK, WorkerInv, ItemInv, [Next]_vars PROVE ItemInv'
  OBVIOUS
<1> USE ProcsAssumption, NoFileAssumption
    DEF TypeOK, WorkerInv, ItemInv, NothingLost, Unlinking, Settled, Holding, files, hookVars, workerVars, history,
        Active, HookStep, WorkerStep
<1>1. ItemInv'
  <2>1. CASE Tick
    BY <2>1 DEF Tick
  <2>2. ASSUME NEW p \in Procs, Begin(p) \/ Enqueue(p) \/ HookDies(p)
        PROVE  ItemInv'
    <3>1. CASE Begin(p)
      BY <3>1 DEF Begin
    <3>2. CASE ListMarkers(p)
      BY <3>2 DEF ListMarkers
    <3>3. CASE KeepMarker(p)
      BY <3>3 DEF KeepMarker
    <3>4. CASE ReadStaleMarker(p)
      BY <3>4 DEF ReadStaleMarker
    <3>5. CASE UnlinkMarker(p)
      BY <3>5 DEF UnlinkMarker
    <3>6. CASE Reserve(p)
      BY <3>6 DEF Reserve
    <3>7. CASE SkipDuplicate(p)
      BY <3>7 DEF SkipDuplicate
    <3>8. CASE WriteMarker(p)
      BY <3>8 DEF WriteMarker
    <3>9. CASE StoreItem(p)
      BY <3>9 DEF StoreItem, Item
    <3>10. CASE StartWorker(p)
      BY <3>10 DEF StartWorker
    <3>11. CASE HookDies(p)
      BY <3>11 DEF HookDies
    <3> QED
      BY <2>2, <3>1, <3>2, <3>3, <3>4, <3>5, <3>6, <3>7, <3>8, <3>9, <3>10,
         <3>11
         DEF Enqueue
  <2>3. ASSUME NEW w \in Procs, Work(w) \/ WorkerDies(w)
        PROVE  ItemInv'
    <3>1. CASE TakeLock(w)
      BY <3>1 DEF TakeLock
    <3>2. CASE LockBusy(w)
      BY <3>2 DEF LockBusy
    <3>3. CASE RestoreItem(w)
      BY <3>3 DEF RestoreItem
    <3>4. CASE Restored(w)
      BY <3>4 DEF Restored
    <3>5. CASE ReadClock(w)
      BY <3>5 DEF ReadClock
    <3>6. CASE ListPending(w)
      BY <3>6 DEF ListPending
    <3>7. CASE SkipItem(w)
      BY <3>7 DEF SkipItem
    <3>8. CASE Claim(w)
      BY <3>8 DEF Claim, First, Item
    <3>9. CASE SendOk(w)
      <4>1. Unlinking(held[w])'
        BY <3>9 DEF SendOk
      <4>2. \A n \in Procs : inflight'[n] # NoFile => n = held[w]
        BY <3>9 DEF SendOk
      <4>3. \A v \in Procs : wpc[v] # "unlink"
        BY <3>9 DEF SendOk
      <4> QED
        BY <3>9, <4>1, <4>2, <4>3 DEF SendOk
    <3>10. CASE SendFails(w)
      BY <3>10 DEF SendFails
    <3>11. CASE GiveUp(w)
      <4>1. Unlinking(held[w])'
        BY <3>11 DEF GiveUp
      <4>2. \A n \in Procs : inflight'[n] # NoFile => n = held[w]
        BY <3>11 DEF GiveUp
      <4>3. \A v \in Procs : wpc[v] # "unlink"
        BY <3>11 DEF GiveUp
      <4> QED
        BY <3>11, <4>1, <4>2, <4>3 DEF GiveUp
    <3>12. CASE WriteRetry(w)
      <4>1. PICK retry \in Item : pending' = [pending EXCEPT ![held[w]] = retry]
        BY <3>12, RetryIsItem
      <4> QED
        BY <3>12, <4>1 DEF WriteRetry
    <3>13. CASE UnlinkInflight(w)
      BY <3>13 DEF UnlinkInflight
    <3>14. CASE EndBatch(w)
      BY <3>14 DEF EndBatch
    <3>15. CASE Sleep(w)
      BY <3>15 DEF Sleep
    <3>16. CASE WakeUp(w)
      BY <3>16 DEF WakeUp
    <3>17. CASE IdleExit(w)
      BY <3>17 DEF IdleExit
    <3>18. CASE ReleaseLock(w)
      BY <3>18 DEF ReleaseLock
    <3>19. CASE WorkerDies(w)
      BY <3>19 DEF WorkerDies
    <3> QED
      BY <2>3, <3>1, <3>2, <3>3, <3>4, <3>5, <3>6, <3>7, <3>8, <3>9, <3>10,
         <3>11, <3>12, <3>13, <3>14, <3>15, <3>16, <3>17, <3>18, <3>19
         DEF Work
  <2>4. CASE UNCHANGED vars
    BY <2>4 DEF vars
  <2> QED
    BY <2>1, <2>2, <2>3, <2>4 DEF Next
<1> QED
  BY <1>1

(* No step breaks the link between a marker and the run that created it. *)
LEMMA MarkerStep == TypeOK /\ MarkerInv /\ [Next]_vars => MarkerInv'
<1> SUFFICES ASSUME TypeOK, MarkerInv, [Next]_vars PROVE MarkerInv'
  OBVIOUS
<1> USE ProcsAssumption, TimeAssumption
    DEF TypeOK, MarkerInv, SkippedIsQueued, Absent, Unwritten, Time, files, hookVars, workerVars, history,
        Active, HookStep, WorkerStep
<1>1. MarkerInv'
  <2>1. CASE Tick
    BY <2>1 DEF Tick
  <2>2. ASSUME NEW p \in Procs, Begin(p) \/ Enqueue(p) \/ HookDies(p)
        PROVE  MarkerInv'
    <3>1. CASE Begin(p)
      BY <3>1 DEF Begin
    <3>2. CASE ListMarkers(p)
      BY <3>2 DEF ListMarkers
    <3>3. CASE KeepMarker(p)
      BY <3>3 DEF KeepMarker
    <3>4. CASE ReadStaleMarker(p)
      BY <3>4 DEF ReadStaleMarker
    <3>5. CASE UnlinkMarker(p)
      <4>1. (stolen \/ \A q \in won :
               \/ now >= created[q] + DedupTTL
               \/ /\ marker[content[q]].owner = q
                  /\ marker[content[q]].expires \in {Unwritten, created[q] + DedupTTL})'
        <5> SUFFICES ASSUME ~stolen', NEW q \in won, ~(now >= created[q] + DedupTTL)
                     PROVE  /\ marker'[content[q]].owner = q
                            /\ marker'[content[q]].expires
                                 \in {Unwritten, created[q] + DedupTTL}
          BY <3>5 DEF UnlinkMarker
        <5>1. /\ marker[content[q]].owner = q
              /\ marker[content[q]].expires \in {Unwritten, created[q] + DedupTTL}
              /\ ~InForce(marker[cleaning[p]], now)
          BY <3>5 DEF UnlinkMarker
        <5>2. q \in Procs /\ content[q] \in Contents /\ created[q] + DedupTTL \in Int
          OBVIOUS
        <5>3. marker[content[q]] # [owner |-> Nobody, expires |-> -1]
          BY <5>1, <5>2
        <5>4. InForce(marker[content[q]], now)
          BY <5>1, <5>2, <5>3 DEF InForce
        <5>5. cleaning[p] # content[q]
          BY <5>1, <5>4
        <5> QED
          BY <3>5, <5>1, <5>2, <5>5 DEF UnlinkMarker
      <4>2. (\A c \in Contents : marker[c] # Absent =>
               marker[c].owner \in won /\ content[marker[c].owner] = c)'
        BY <3>5 DEF UnlinkMarker, InForce
      <4> QED
        BY <3>5, <4>1, <4>2 DEF UnlinkMarker
    <3>6. CASE Reserve(p)
      BY <3>6 DEF Reserve
    <3>7. CASE SkipDuplicate(p)
      <4>1. (\A q \in won : q \in queued \/ hpc[q] \in {"mark", "store", "dead"})'
        BY <3>7 DEF SkipDuplicate
      <4>2. SkippedIsQueued'
        <5> SUFFICES ASSUME NEW r \in Procs, r \notin won',
                            hpc'[r] \in {"spawn", "done"}
                     PROVE  \E q \in won' :
                              /\ content'[q] = content'[r]
                              /\ q \in queued' \/ hpc'[q] \in {"mark", "store", "dead"}
          OBVIOUS
        <5>1. \E q \in won : content[q] = content[r]
          <6>1. CASE r = p
            <7>1. marker[content[p]].owner \in won
                  /\ content[marker[content[p]].owner] = content[p]
              BY <3>7 DEF SkipDuplicate
            <7> QED
              BY <6>1, <7>1
          <6>2. CASE r # p
            BY <3>7, <6>2 DEF SkipDuplicate
          <6> QED
            BY <6>1, <6>2
        <5> QED
          BY <3>7, <4>1, <5>1 DEF SkipDuplicate
      <4> QED
        BY <3>7, <4>1, <4>2 DEF SkipDuplicate
    <3>8. CASE WriteMarker(p)
      BY <3>8 DEF WriteMarker
    <3>9. CASE StoreItem(p)
      <4>1. (\A q \in won : q \in queued \/ hpc[q] \in {"mark", "store", "dead"})'
        BY <3>9 DEF StoreItem
      <4>2. SkippedIsQueued'
        <5> SUFFICES ASSUME NEW r \in Procs, r \notin won',
                            hpc'[r] \in {"spawn", "done"}
                     PROVE  \E q \in won' :
                              /\ content'[q] = content'[r]
                              /\ q \in queued' \/ hpc'[q] \in {"mark", "store", "dead"}
          OBVIOUS
        <5>1. \E q \in won : content[q] = content[r]
          BY <3>9 DEF StoreItem
        <5> QED
          BY <3>9, <4>1, <5>1 DEF StoreItem
      <4> QED
        BY <3>9, <4>1, <4>2 DEF StoreItem
    <3>10. CASE StartWorker(p)
      <4>1. (\A q \in won : q \in queued \/ hpc[q] \in {"mark", "store", "dead"})'
        BY <3>10 DEF StartWorker
      <4>2. SkippedIsQueued'
        <5> SUFFICES ASSUME NEW r \in Procs, r \notin won',
                            hpc'[r] \in {"spawn", "done"}
                     PROVE  \E q \in won' :
                              /\ content'[q] = content'[r]
                              /\ q \in queued' \/ hpc'[q] \in {"mark", "store", "dead"}
          OBVIOUS
        <5>1. \E q \in won : content[q] = content[r]
          BY <3>10 DEF StartWorker
        <5> QED
          BY <3>10, <4>1, <5>1 DEF StartWorker
      <4> QED
        BY <3>10, <4>1, <4>2 DEF StartWorker
    <3>11. CASE HookDies(p)
      BY <3>11 DEF HookDies
    <3> QED
      BY <2>2, <3>1, <3>2, <3>3, <3>4, <3>5, <3>6, <3>7, <3>8, <3>9, <3>10,
         <3>11
         DEF Enqueue
  <2>3. ASSUME NEW w \in Procs, Work(w) \/ WorkerDies(w)
        PROVE  MarkerInv'
    <3>1. CASE TakeLock(w)
      BY <3>1 DEF TakeLock
    <3>2. CASE LockBusy(w)
      BY <3>2 DEF LockBusy
    <3>3. CASE RestoreItem(w)
      BY <3>3 DEF RestoreItem
    <3>4. CASE Restored(w)
      BY <3>4 DEF Restored
    <3>5. CASE ReadClock(w)
      BY <3>5 DEF ReadClock
    <3>6. CASE ListPending(w)
      BY <3>6 DEF ListPending
    <3>7. CASE SkipItem(w)
      BY <3>7 DEF SkipItem
    <3>8. CASE Claim(w)
      BY <3>8 DEF Claim, First, Item
    <3>9. CASE SendOk(w)
      BY <3>9 DEF SendOk
    <3>10. CASE SendFails(w)
      BY <3>10 DEF SendFails
    <3>11. CASE GiveUp(w)
      BY <3>11 DEF GiveUp
    <3>12. CASE WriteRetry(w)
      BY <3>12 DEF WriteRetry
    <3>13. CASE UnlinkInflight(w)
      BY <3>13 DEF UnlinkInflight
    <3>14. CASE EndBatch(w)
      BY <3>14 DEF EndBatch
    <3>15. CASE Sleep(w)
      BY <3>15 DEF Sleep
    <3>16. CASE WakeUp(w)
      BY <3>16 DEF WakeUp
    <3>17. CASE IdleExit(w)
      BY <3>17 DEF IdleExit
    <3>18. CASE ReleaseLock(w)
      BY <3>18 DEF ReleaseLock
    <3>19. CASE WorkerDies(w)
      BY <3>19 DEF WorkerDies
    <3> QED
      BY <2>3, <3>1, <3>2, <3>3, <3>4, <3>5, <3>6, <3>7, <3>8, <3>9, <3>10,
         <3>11, <3>12, <3>13, <3>14, <3>15, <3>16, <3>17, <3>18, <3>19
         DEF Work
  <2>4. CASE UNCHANGED vars
    BY <2>4 DEF vars
  <2> QED
    BY <2>1, <2>2, <2>3, <2>4 DEF Next
<1> QED
  BY <1>1

LEMMA InitInv == Init => IInv
<1> SUFFICES ASSUME Init PROVE IInv
  OBVIOUS
<1> USE ProcsAssumption, TimeAssumption DEF Init
<1>1. Files(pending) = {} /\ Files(inflight) = {}
  BY DEF Files
<1>2. TypeOK
  <2>1. Absent \in [owner : Procs \cup {Nobody}, expires : Int] /\ 0 \in Time
    BY DEF Absent, Unwritten, Time
  <2>2. \A dir \in {pending, inflight} : dir \in [Procs -> Item \cup {NoFile}]
    OBVIOUS
  <2>3. marker \in [Contents -> [owner : Procs \cup {Nobody}, expires : Int]]
    BY <2>1
  <2>4. /\ created \in [Procs -> Time] /\ batchNow \in [Procs -> Time]
        /\ wake \in [Procs -> Time] /\ lastFail \in [Procs -> Time] /\ now \in Time
    BY <2>1
  <2>5. \A dir \in {pending, inflight} : Files(dir) = {}
    BY <1>1
  <2>6. /\ wpc \in [Procs -> Active \cup {"off", "start", "gone", "dead"}]
        /\ listing \in [Procs -> SUBSET Procs] /\ held \in [Procs -> Procs]
        /\ toClean \in [Procs -> SUBSET Contents] /\ crashes \in 0 .. MaxCrashes
        /\ acks \in [Procs -> Nat] /\ processed \in [Procs -> BOOLEAN]
    OBVIOUS
  <2> QED
    BY <2>2, <2>3, <2>4, <2>5, <2>6 DEF TypeOK
<1>3. WorkerInv
  BY DEF WorkerInv, Holding, Active
<1>4. ItemInv
  BY DEF ItemInv, NothingLost, Settled, Unlinking
<1>5. MarkerInv
  BY DEF MarkerInv, SkippedIsQueued
<1> QED
  BY <1>2, <1>3, <1>4, <1>5 DEF IInv

(* The strengthening holds in every reachable state of the queue. *)
THEOREM Inductive == Spec => []IInv
<1>1. IInv /\ [Next]_vars => IInv'
  BY TypeStep, WorkerStepInv, ItemStep, MarkerStep DEF IInv
<1> QED
  BY InitInv, <1>1, PTL DEF Spec

(* Every variable of the queue keeps its type in every reachable state. *)
THEOREM TypeCorrect == Spec => []TypeOK
BY Inductive, PTL DEF IInv

(* worker_lock excludes: two workers are never at work at once, however many
   were spawned and whoever died.                                            *)
THEOREM Exclusion == Spec => []SingleWorker
<1>1. IInv => SingleWorker
  BY DEF IInv, WorkerInv, SingleWorker
<1> QED
  BY Inductive, <1>1, PTL

(* A stored item always has a file, or was sent, or was filed as failed. *)
THEOREM NoLoss == Spec => []NothingLost
<1>1. IInv => NothingLost
  BY DEF IInv, ItemInv
<1> QED
  BY Inductive, <1>1, PTL

(* inflight/ holds one file at most. *)
THEOREM AtMostOneInflight == Spec => []OneInflight
<1>1. ASSUME IInv PROVE OneInflight
  <2>1. CASE Files(inflight) = {}
    BY <2>1, FS_EmptySet DEF OneInflight
  <2>2. ASSUME NEW n \in Files(inflight) PROVE OneInflight
    <3>1. Files(inflight) = {n}
      BY <1>1, <2>2 DEF IInv, WorkerInv, Files
    <3> QED
      BY <3>1, FS_Singleton DEF OneInflight
  <2> QED
    BY <2>1, <2>2
<1> QED
  BY Inductive, <1>1, PTL

(* Every extra send of an item is paid for by the death of a process. *)
THEOREM ExtraSendsNeedDeaths == Spec => []ResentOnlyAfterDeath
<1>1. IInv => ResentOnlyAfterDeath
  BY DEF IInv, ItemInv, ResentOnlyAfterDeath
<1> QED
  BY Inductive, <1>1, PTL

(* Without deaths a settled item never becomes pending again. *)
THEOREM SettledStaysSettled == Spec => []NeverRevived
<1>1. ASSUME IInv PROVE NeverRevived
  BY <1>1 DEF IInv, TypeOK, ItemInv, NeverRevived, Settled, Files
<1> QED
  BY Inductive, <1>1, PTL

(* A run that skips a duplicate has a twin that queues it or died on the way to. *)
THEOREM DuplicatesHaveATwin == Spec => []SkippedIsQueued
<1>1. IInv => SkippedIsQueued
  BY DEF IInv, MarkerInv
<1> QED
  BY Inductive, <1>1, PTL

(* While no marker in force is unlinked, a content is accepted once per
   DEDUP_TTL_SECONDS.                                                    *)
THEOREM OncePerWindow == Spec => DedupWindow
<1>1. ASSUME IInv, [Next]_vars, NEW p \in won' \ won, NEW q \in won,
             content[p] = content[q], ~stolen
      PROVE  now >= created[q] + DedupTTL
  <2>1. p \in Procs /\ Reserve(p)
    <3>1. ASSUME NEW r \in Procs, Begin(r) \/ Enqueue(r) \/ HookDies(r), ~Reserve(r)
          PROVE  won' = won
      BY <3>1 DEF Begin, Enqueue, ListMarkers, KeepMarker, ReadStaleMarker, UnlinkMarker,
        SkipDuplicate, WriteMarker, StoreItem, StartWorker, HookDies, history
    <3>2. ASSUME NEW r \in Procs, Work(r) \/ WorkerDies(r)
          PROVE  won' = won
      BY <3>2 DEF Work, TakeLock, LockBusy, RestoreItem, Restored, ReadClock, ListPending,
        SkipItem, Claim, SendOk, SendFails, GiveUp, WriteRetry, UnlinkInflight, EndBatch,
        Sleep, WakeUp, IdleExit, ReleaseLock, WorkerDies, history
    <3>3. Tick \/ UNCHANGED vars => won' = won
      BY DEF Tick, vars, history
    <3>4. PICK r \in Procs : Reserve(r)
      BY <1>1, <3>1, <3>2, <3>3 DEF Next
    <3>5. won' \subseteq won \cup {r}
      BY <3>4 DEF Reserve
    <3> QED
      BY <1>1, <3>4, <3>5
  <2>2. marker[content[p]].owner = Nobody
    BY <2>1 DEF Reserve, Absent
  <2>3. q \in Procs
    BY <1>1 DEF IInv, TypeOK
  <2> QED
    BY <1>1, <2>2, <2>3, ProcsAssumption DEF IInv, MarkerInv
<1>2. IInv /\ [Next]_vars =>
        [\A p \in won' \ won, q \in won :
           content[p] = content[q] => stolen \/ now >= created[q] + DedupTTL]_vars
  BY <1>1
<1> QED
  BY Inductive, <1>2, PTL DEF Spec, DedupWindow

(* Only seven actions touch an item's files or its fate. *)
LEMMA ItemSteps ==
  ASSUME [Next]_vars
  PROVE  \/ UNCHANGED <<pending, inflight, failed, acks, queued>>
         \/ \E p \in Procs : StoreItem(p)
         \/ \E w \in Procs : RestoreItem(w) \/ Claim(w) \/ WriteRetry(w)
         \/ \E w \in Procs : SendOk(w) \/ GiveUp(w) \/ UnlinkInflight(w)
<1> USE DEF files, history
<1>1. CASE Tick \/ UNCHANGED vars
  BY <1>1 DEF Tick, vars
<1>2. ASSUME NEW p \in Procs, Begin(p) \/ Enqueue(p) \/ HookDies(p), ~StoreItem(p)
      PROVE  UNCHANGED <<pending, inflight, failed, acks, queued>>
  BY <1>2 DEF Begin, Enqueue, ListMarkers, KeepMarker, ReadStaleMarker, UnlinkMarker,
    Reserve, SkipDuplicate, WriteMarker, StartWorker, HookDies
<1>3. ASSUME NEW w \in Procs, Work(w) \/ WorkerDies(w),
             ~RestoreItem(w), ~Claim(w), ~WriteRetry(w), ~SendOk(w), ~GiveUp(w),
             ~UnlinkInflight(w)
      PROVE  UNCHANGED <<pending, inflight, failed, acks, queued>>
  BY <1>3 DEF Work, TakeLock, LockBusy, Restored, ReadClock, ListPending, SkipItem,
    SendFails, EndBatch, Sleep, WakeUp, IdleExit, ReleaseLock, WorkerDies
<1> QED
  BY <1>1, <1>2, <1>3 DEF Next

(* Seen through the refinement mapping, storing an item accepts it, a send that
   succeeds delivers it, giving up expires it, the unlink of its last file retires
   it, and every other step, deaths and restores included, stutters.              *)
LEMMA StepRefines == IInv /\ [Next]_vars => [Abstract!Next]_(Abstract!vars)
<1> SUFFICES ASSUME IInv, [Next]_vars PROVE [Abstract!Next]_(Abstract!vars)
  OBVIOUS
<1> USE NoFileAssumption
    DEF IInv, TypeOK, WorkerInv, ItemInv, Holding, Settled, Files, Active,
        Abstract!Next, Abstract!vars, files, hookVars, workerVars, history,
        HookStep, WorkerStep
<1>1. CASE UNCHANGED <<pending, inflight, failed, acks, queued>>
  BY <1>1
<1>2. ASSUME NEW p \in Procs, StoreItem(p) PROVE Abstract!Accept(p)
  <2>1. /\ p \notin queued
        /\ queued' = queued \cup {p}
        /\ Files(pending)' = Files(pending) \cup {p}
        /\ UNCHANGED <<inflight, failed, acks>>
    BY <1>2 DEF StoreItem, Item
  <2> QED
    BY <2>1 DEF Abstract!Accept
<1>3. ASSUME NEW w \in Procs, RestoreItem(w) PROVE UNCHANGED Abstract!vars
  <2>1. PICK n \in Procs :
          /\ inflight[n] # NoFile
          /\ pending' = [pending EXCEPT ![n] = inflight[n]]
          /\ inflight' = [inflight EXCEPT ![n] = NoFile]
    BY <1>3 DEF RestoreItem
  <2>2. (Files(pending) \cup Files(inflight))' = Files(pending) \cup Files(inflight)
    BY <2>1
  <2> QED
    BY <1>3, <2>2 DEF RestoreItem
<1>4. ASSUME NEW w \in Procs, Claim(w) PROVE UNCHANGED Abstract!vars
  <2>1. PICK n \in First(w) :
          /\ pending' = [pending EXCEPT ![n] = NoFile]
          /\ inflight' = [inflight EXCEPT ![n] = pending[n]]
    BY <1>4 DEF Claim
  <2>2. n \in Procs /\ pending[n] # NoFile
    BY <1>4 DEF Claim, First
  <2>3. (Files(pending) \cup Files(inflight))' = Files(pending) \cup Files(inflight)
    BY <2>1, <2>2
  <2> QED
    BY <1>4, <2>3 DEF Claim
<1>5. ASSUME NEW w \in Procs, SendOk(w), NEW n \in Procs, n = held[w]
      PROVE  Abstract!Deliver(n)
  <2>1. held[w] \in Files(inflight)
    BY <1>5 DEF SendOk
  <2>2. {m \in Procs : acks[m] > 0}' = {m \in Procs : acks[m] > 0} \cup {held[w]}
    BY <1>5 DEF SendOk
  <2> QED
    BY <1>5, <2>1, <2>2 DEF SendOk, Abstract!Deliver
<1>6. ASSUME NEW w \in Procs, GiveUp(w), NEW n \in Procs, n = held[w]
      PROVE  Abstract!Expire(n)
  BY <1>6 DEF GiveUp, Abstract!Expire
<1>7. ASSUME NEW w \in Procs, WriteRetry(w) PROVE UNCHANGED Abstract!vars
  <2>1. PICK retry \in Item : pending' = [pending EXCEPT ![held[w]] = retry]
    BY <1>7, RetryIsItem
  <2>2. held[w] \in Files(inflight) /\ retry # NoFile
    BY <1>7 DEF WriteRetry
  <2>3. (Files(pending) \cup Files(inflight))' = Files(pending) \cup Files(inflight)
    BY <1>7, <2>1, <2>2 DEF WriteRetry
  <2> QED
    BY <1>7, <2>3 DEF WriteRetry
<1>8. ASSUME NEW w \in Procs, UnlinkInflight(w), NEW n \in Procs, n = held[w]
      PROVE  Abstract!Retire(n) \/ UNCHANGED Abstract!vars
  <2>1. /\ n \in Files(inflight)
        /\ Files(inflight)' = Files(inflight) \ {n}
        /\ Files(pending)' = Files(pending)
        /\ UNCHANGED <<failed, acks, queued>>
    BY <1>8 DEF UnlinkInflight
  <2>2. CASE pending[n] # NoFile
    BY <2>1, <2>2
  <2>3. CASE pending[n] = NoFile
    <3>1. n \in {m \in Procs : acks[m] > 0} \cup failed
      BY <1>8, <2>3 DEF UnlinkInflight
    <3>2. n \notin Files(pending)
      BY <2>3
    <3> HIDE DEF Files
    <3> QED
      BY <2>1, <3>1, <3>2 DEF Abstract!Retire
  <2> QED
    BY <2>2, <2>3
<1>9. CASE \E p \in Procs : StoreItem(p)
  BY <1>2, <1>9
<1>10. CASE \E w \in Procs : RestoreItem(w) \/ Claim(w) \/ WriteRetry(w)
  BY <1>3, <1>4, <1>7, <1>10
<1>11. CASE \E w \in Procs : SendOk(w) \/ GiveUp(w) \/ UnlinkInflight(w)
  <2>1. PICK w \in Procs : SendOk(w) \/ GiveUp(w) \/ UnlinkInflight(w)
    BY <1>11
  <2>2. PICK n \in Procs : n = held[w]
    OBVIOUS
  <2> QED
    BY <1>5, <1>6, <1>8, <2>1, <2>2
<1> QED
  BY ItemSteps, <1>1, <1>9, <1>10, <1>11

(* The queue implements the outbox: an accepted item is retired only after it was
   delivered or given up on, whatever the interleaving and whoever dies.         *)
THEOREM Refinement == Spec => ImplementsOutbox
<1>1. Init => Abstract!Init
  BY DEF Init, Abstract!Init, Files
<1>2. QED
  BY Inductive, StepRefines, <1>1, PTL DEF Spec, ImplementsOutbox, Abstract!Spec
===============================================================================
