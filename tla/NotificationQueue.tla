-------------------------- MODULE NotificationQueue --------------------------
(***************************************************************************)
(* The persistent queue between the hook scripts and the notification      *)
(* server (py_modules/notification_queue.py).                              *)
(*                                                                         *)
(* Every process p of Procs is one run of `enqueue`: it reserves a dedupe  *)
(* marker for its content, stores one item file in pending/ and starts one *)
(* detached `worker` process, which carries the same name p.  An item file *)
(* is named after its creation instant and content, so the process that    *)
(* stored it names it: pending[p] and inflight[p] are the files of p's     *)
(* item in the two directories.  Workers exclude each other with           *)
(* worker.lock.  Every file operation is a step of its own, and a process  *)
(* may die between any two of them.                                        *)
(***************************************************************************)
EXTENDS Integers, FiniteSets

CONSTANTS
  Procs,        (* runs of `enqueue`, and the workers they start           *)
  NoStart,      (* the runs given --no-start-worker                        *)
  Contents,     (* payloads; the client_msg_id is a hash of the payload    *)
  Nobody,       (* no process: a free lock, an absent marker               *)
  NoFile,       (* no file of that name in the directory                   *)
  HasFcntl,     (* flock(2) is there; otherwise an O_EXCL lock file        *)
  BackoffBase,  (* BACKOFF_BASE_SECONDS                                    *)
  BackoffMax,   (* BACKOFF_MAX_SECONDS                                     *)
  MaxAge,       (* MAX_ITEM_AGE_SECONDS                                    *)
  PollMax,      (* WORKER_POLL_MAX_SECONDS                                 *)
  DedupTTL,     (* DEDUP_TTL_SECONDS                                       *)
  LastEnqueue,  (* bound: no hook starts after this instant                *)
  MaxTime,      (* bound: the last instant of the clock                    *)
  MaxCrashes    (* bound: processes that die                               *)

ASSUME ProcsAssumption ==
  /\ NoStart \subseteq Procs
  /\ Nobody \notin Procs
  /\ HasFcntl \in BOOLEAN

ASSUME TimeAssumption ==
  /\ {BackoffBase, BackoffMax, MaxAge, PollMax} \subseteq Nat
  /\ DedupTTL \in Nat \ {0}
  /\ {LastEnqueue, MaxTime, MaxCrashes} \subseteq Nat

Unwritten == -1  (* the expiry of a marker created but not yet written *)

(* What the worker reads of an item; its content and creation instant are
   the hook's and never change.                                           *)
Item == [attempts : Nat, next : Int]

ASSUME NoFileAssumption == NoFile \notin Item

VARIABLES
  now,        (* the clock                                                 *)
  marker,     (* dedupe/: per content, who created the marker, its expiry  *)
  pending,    (* pending/: per item, the file or NoFile                    *)
  inflight,   (* inflight/: likewise                                       *)
  failed,     (* failed/: the items given up on                            *)
  lock,       (* the holder of worker.lock                                 *)
  hpc, content, created, toClean, cleaning,          (* the enqueue runs   *)
  wpc, batchNow, listing, processed, held, wake,     (* the workers        *)
  crashes,    (* how many processes died                                   *)
  queued,     (* history: the items ever stored                            *)
  won,        (* history: the runs that created their marker               *)
  stolen,     (* history: a marker still in force was unlinked             *)
  acks,       (* history: successful sends of each item                    *)
  lastFail    (* history: when the last send of each item failed           *)

files      == <<pending, inflight, failed>>
hookVars   == <<hpc, content, created, toClean, cleaning>>
workerVars == <<wpc, batchNow, listing, processed, held, wake>>
history    == <<queued, won, stolen, acks, lastFail>>
vars       == <<now, marker, files, lock, hookVars, workerVars, crashes, history>>

Absent == [owner |-> Nobody, expires |-> Unwritten]

Min2(a, b) == IF a < b THEN a ELSE b
Max2(a, b) == IF a < b THEN b ELSE a

(* Variant: the cap of the backoff is forgotten. *)
BackoffUncapped(attempts) == BackoffBase * 2 ^ Max2(0, attempts - 1)

Backoff(attempts) == Min2(BackoffMax, BackoffBase * 2 ^ Max2(0, attempts - 1))

Init ==
  /\ now = 0
  /\ marker = [c \in Contents |-> Absent]
  /\ pending = [p \in Procs |-> NoFile]
  /\ inflight = [p \in Procs |-> NoFile]
  /\ failed = {}
  /\ lock = Nobody
  /\ hpc = [p \in Procs |-> "idle"]
  /\ content \in [Procs -> Contents]
  /\ created = [p \in Procs |-> 0]
  /\ toClean = [p \in Procs |-> {}]
  /\ cleaning = content
  /\ wpc = [p \in Procs |-> "off"]
  /\ batchNow = [p \in Procs |-> 0]
  /\ listing = [p \in Procs |-> {}]
  /\ processed = [p \in Procs |-> FALSE]
  /\ held = [p \in Procs |-> p]
  /\ wake = [p \in Procs |-> 0]
  /\ crashes = 0
  /\ queued = {}
  /\ won = {}
  /\ stolen = FALSE
  /\ acks = [p \in Procs |-> 0]
  /\ lastFail = [p \in Procs |-> 0]
------------------------------------------------------------------------------
(***************************************************************************)
(* enqueue: what a hook script runs.                                       *)
(***************************************************************************)
HookStep(p, from, to) ==
  /\ hpc[p] = from
  /\ hpc' = [hpc EXCEPT ![p] = to]

(* created_at = _now() *)
Begin(p) ==
  /\ now <= LastEnqueue
  /\ HookStep(p, "idle", "list")
  /\ created' = [created EXCEPT ![p] = now]
  /\ UNCHANGED <<now, marker, files, lock, content, toClean, cleaning, workerVars,
                 crashes, history>>

(* _cleanup_dedupe_markers lists the directory first... *)
ListMarkers(p) ==
  /\ HookStep(p, "list", "clean")
  /\ toClean' = [toClean EXCEPT ![p] = {c \in Contents : marker[c] # Absent}]
  /\ UNCHANGED <<now, marker, files, lock, content, created, cleaning, workerVars,
                 crashes, history>>

(* ... then reads each marker: one that has expired, and one that cannot be
   read (gone, or created and not written yet), is to be unlinked.         *)
Removable(m, t) == m = Absent \/ m.expires = Unwritten \/ m.expires <= t

KeepMarker(p) ==
  \E c \in toClean[p] :
    /\ ~Removable(marker[c], created[p])
    /\ HookStep(p, "clean", "clean")
    /\ toClean' = [toClean EXCEPT ![p] = @ \ {c}]
    /\ UNCHANGED <<now, marker, files, lock, content, created, cleaning, workerVars,
                   crashes, history>>

ReadStaleMarker(p) ==
  \E c \in toClean[p] :
    /\ Removable(marker[c], created[p])
    /\ HookStep(p, "clean", "unlink")
    /\ toClean' = [toClean EXCEPT ![p] = @ \ {c}]
    /\ cleaning' = [cleaning EXCEPT ![p] = c]
    /\ UNCHANGED <<now, marker, files, lock, content, created, workerVars, crashes,
                   history>>

(* The unlink is by name: it removes whatever marker is there by then. *)
InForce(m, t) == m # Absent /\ (m.expires = Unwritten \/ m.expires > t)

UnlinkMarker(p) ==
  /\ HookStep(p, "unlink", "clean")
  /\ marker' = [marker EXCEPT ![cleaning[p]] = Absent]
  /\ stolen' = (stolen \/ InForce(marker[cleaning[p]], now))
  /\ UNCHANGED <<now, files, lock, content, created, toClean, cleaning, workerVars,
                 crashes, queued, won, acks, lastFail>>

(* Variant: the marker is opened without O_EXCL. *)
ReserveUnchecked(p) ==
  /\ toClean[p] = {}
  /\ HookStep(p, "clean", "mark")
  /\ marker' = [marker EXCEPT ![content[p]] = [owner |-> p, expires |-> Unwritten]]
  /\ won' = won \cup {p}
  /\ UNCHANGED <<now, files, lock, content, created, toClean, cleaning, workerVars,
                 crashes, queued, stolen, acks, lastFail>>

(* open(O_CREAT | O_EXCL) succeeds for one process only. *)
Reserve(p) ==
  /\ toClean[p] = {}
  /\ marker[content[p]] = Absent
  /\ HookStep(p, "clean", "mark")
  /\ marker' = [marker EXCEPT ![content[p]] = [owner |-> p, expires |-> Unwritten]]
  /\ won' = won \cup {p}
  /\ UNCHANGED <<now, files, lock, content, created, toClean, cleaning, workerVars,
                 crashes, queued, stolen, acks, lastFail>>

(* Variant: the identity hash leaves the payload out. *)
SkipOnAnyMarker(p) ==
  /\ toClean[p] = {}
  /\ \E c \in Contents : marker[c] # Absent
  /\ HookStep(p, "clean", "spawn")
  /\ UNCHANGED <<now, marker, files, lock, content, created, toClean, cleaning,
                 workerVars, crashes, history>>

(* Otherwise the content counts as queued already; main goes on all the same. *)
SkipDuplicate(p) ==
  /\ toClean[p] = {}
  /\ marker[content[p]] # Absent
  /\ HookStep(p, "clean", "spawn")
  /\ UNCHANGED <<now, marker, files, lock, content, created, toClean, cleaning,
                 workerVars, crashes, history>>

(* The payload goes to the file p created, which may be unlinked by now. *)
WriteMarker(p) ==
  /\ HookStep(p, "mark", "store")
  /\ marker' = IF marker[content[p]].owner = p
               THEN [marker EXCEPT ![content[p]] =
                       [owner |-> p, expires |-> created[p] + DedupTTL]]
               ELSE marker
  /\ UNCHANGED <<now, files, lock, content, created, toClean, cleaning, workerVars,
                 crashes, history>>

StoreItem(p) ==
  /\ HookStep(p, "store", "spawn")
  /\ pending' = [pending EXCEPT ![p] = [attempts |-> 0, next |-> 0]]
  /\ queued' = queued \cup {p}
  /\ UNCHANGED <<now, marker, inflight, failed, lock, content, created, toClean,
                 cleaning, workerVars, crashes, won, stolen, acks, lastFail>>

(* start_worker, unless --no-start-worker *)
StartWorker(p) ==
  /\ HookStep(p, "spawn", "done")
  /\ wpc' = IF p \in NoStart THEN wpc ELSE [wpc EXCEPT ![p] = "start"]
  /\ UNCHANGED <<now, marker, files, lock, content, created, toClean, cleaning,
                 batchNow, listing, processed, held, wake, crashes, history>>
------------------------------------------------------------------------------
(***************************************************************************)
(* worker_loop: the background worker.                                     *)
(***************************************************************************)
WorkerStep(w, from, to) ==
  /\ wpc[w] = from
  /\ wpc' = [wpc EXCEPT ![w] = to]

(* Variant: the lock is not waited for. *)
TakeLockUnchecked(w) ==
  /\ WorkerStep(w, "start", "restore")
  /\ lock' = w
  /\ UNCHANGED <<now, marker, files, hookVars, batchNow, listing, processed, held,
                 wake, crashes, history>>

(* Variant: what a dead worker left in flight is not restored. *)
TakeLockNoRestore(w) ==
  /\ lock = Nobody
  /\ WorkerStep(w, "start", "batch")
  /\ lock' = w
  /\ UNCHANGED <<now, marker, files, hookVars, batchNow, listing, processed, held,
                 wake, crashes, history>>

TakeLock(w) ==
  /\ lock = Nobody
  /\ WorkerStep(w, "start", "restore")
  /\ lock' = w
  /\ UNCHANGED <<now, marker, files, hookVars, batchNow, listing, processed, held,
                 wake, crashes, history>>

LockBusy(w) ==
  /\ lock # Nobody
  /\ WorkerStep(w, "start", "gone")
  /\ UNCHANGED <<now, marker, files, lock, hookVars, batchNow, listing, processed,
                 held, wake, crashes, history>>

(* _restore_inflight: each file a dead worker left is moved back, over a
   pending file of the same name if there is one.                        *)
RestoreItem(w) ==
  \E n \in Procs :
    /\ inflight[n] # NoFile
    /\ WorkerStep(w, "restore", "restore")
    /\ pending' = [pending EXCEPT ![n] = inflight[n]]
    /\ inflight' = [inflight EXCEPT ![n] = NoFile]
    /\ UNCHANGED <<now, marker, failed, lock, hookVars, batchNow, listing, processed,
                   held, wake, crashes, history>>

Restored(w) ==
  /\ \A n \in Procs : inflight[n] = NoFile
  /\ WorkerStep(w, "restore", "batch")
  /\ UNCHANGED <<now, marker, files, lock, hookVars, batchNow, listing, processed,
                 held, wake, crashes, history>>

(* One clock reading serves the whole batch. *)
ReadClock(w) ==
  /\ WorkerStep(w, "batch", "glob")
  /\ batchNow' = [batchNow EXCEPT ![w] = now]
  /\ UNCHANGED <<now, marker, files, lock, hookVars, listing, processed, held, wake,
                 crashes, history>>

ListPending(w) ==
  /\ WorkerStep(w, "glob", "scan")
  /\ listing' = [listing EXCEPT ![w] = {n \in Procs : pending[n] # NoFile}]
  /\ processed' = [processed EXCEPT ![w] = FALSE]
  /\ UNCHANGED <<now, marker, files, lock, hookVars, batchNow, held, wake, crashes,
                 history>>

(* The listing is sorted by name, which starts with the creation instant. *)
First(w) == {n \in listing[w] : \A m \in listing[w] : created[n] <= created[m]}

Due(w, n) == pending[n].next <= batchNow[w]

SkipItem(w) ==
  \E n \in First(w) :
    /\ WorkerStep(w, "scan", "scan")
    /\ ~Due(w, n)
    /\ listing' = [listing EXCEPT ![w] = @ \ {n}]
    /\ UNCHANGED <<now, marker, files, lock, hookVars, batchNow, processed, held, wake,
                   crashes, history>>

Claim(w) ==
  \E n \in First(w) :
    /\ WorkerStep(w, "scan", "send")
    /\ Due(w, n)
    /\ pending' = [pending EXCEPT ![n] = NoFile]
    /\ inflight' = [inflight EXCEPT ![n] = pending[n]]
    /\ listing' = [listing EXCEPT ![w] = @ \ {n}]
    /\ processed' = [processed EXCEPT ![w] = TRUE]
    /\ held' = [held EXCEPT ![w] = n]
    /\ UNCHANGED <<now, marker, failed, lock, hookVars, batchNow, wake, crashes,
                   history>>

(* Variant: the file of an item that was sent is not unlinked. *)
SendOkKeepsFile(w) ==
  /\ WorkerStep(w, "send", "scan")
  /\ acks' = [acks EXCEPT ![held[w]] = @ + 1]
  /\ UNCHANGED <<now, marker, files, lock, hookVars, batchNow, listing, processed,
                 held, wake, crashes, queued, won, stolen, lastFail>>

SendOk(w) ==
  /\ WorkerStep(w, "send", "unlink")
  /\ acks' = [acks EXCEPT ![held[w]] = @ + 1]
  /\ UNCHANGED <<now, marker, files, lock, hookVars, batchNow, listing, processed,
                 held, wake, crashes, queued, won, stolen, lastFail>>

(* Variant: the in-flight file is unlinked before its retry is written. *)
SendFailsUnlinking(w) ==
  /\ WorkerStep(w, "send", "settle")
  /\ lastFail' = [lastFail EXCEPT ![held[w]] = now]
  /\ inflight' = [inflight EXCEPT ![held[w]] = NoFile]
  /\ UNCHANGED <<now, marker, pending, failed, lock, hookVars, batchNow, listing,
                 processed, held, wake, crashes, queued, won, stolen, acks>>

(* A non-zero exit, a timeout or any other exception. *)
SendFails(w) ==
  /\ WorkerStep(w, "send", "settle")
  /\ lastFail' = [lastFail EXCEPT ![held[w]] = now]
  /\ UNCHANGED <<now, marker, files, lock, hookVars, batchNow, listing, processed,
                 held, wake, crashes, queued, won, stolen, acks>>

TooOld(w) == batchNow[w] - created[held[w]] >= MaxAge

(* Variant: an item that is too old is both given up on and retried. *)
GiveUpAndRetry(w) ==
  /\ WorkerStep(w, "settle", "unlink")
  /\ TooOld(w)
  /\ failed' = failed \cup {held[w]}
  /\ pending' = [pending EXCEPT ![held[w]] = inflight[held[w]]]
  /\ UNCHANGED <<now, marker, inflight, lock, hookVars, batchNow, listing, processed,
                 held, wake, crashes, history>>

(* Variant: an item that is too old is dropped without a trace. *)
GiveUpSilently(w) ==
  /\ WorkerStep(w, "settle", "unlink")
  /\ TooOld(w)
  /\ UNCHANGED <<now, marker, files, lock, hookVars, batchNow, listing, processed,
                 held, wake, crashes, history>>

GiveUp(w) ==
  /\ WorkerStep(w, "settle", "unlink")
  /\ TooOld(w)
  /\ failed' = failed \cup {held[w]}
  /\ UNCHANGED <<now, marker, pending, inflight, lock, hookVars, batchNow, listing,
                 processed, held, wake, crashes, history>>

WriteRetry(w) ==
  /\ WorkerStep(w, "settle", "unlink")
  /\ ~TooOld(w)
  /\ LET tried == inflight[held[w]].attempts + 1
     IN  pending' = [pending EXCEPT ![held[w]] =
                       [attempts |-> tried, next |-> batchNow[w] + Backoff(tried)]]
  /\ UNCHANGED <<now, marker, inflight, failed, lock, hookVars, batchNow, listing,
                 processed, held, wake, crashes, history>>

UnlinkInflight(w) ==
  /\ WorkerStep(w, "unlink", "scan")
  /\ inflight' = [inflight EXCEPT ![held[w]] = NoFile]
  /\ UNCHANGED <<now, marker, pending, failed, lock, hookVars, batchNow, listing,
                 processed, held, wake, crashes, history>>

(* Variant: a batch in which nothing was due ends the worker. *)
EndBatchForGood(w) ==
  /\ listing[w] = {}
  /\ WorkerStep(w, "scan", IF processed[w] THEN "batch" ELSE "release")
  /\ UNCHANGED <<now, marker, files, lock, hookVars, batchNow, listing, processed,
                 held, wake, crashes, history>>

(* A batch that processed something is followed by another at once. *)
EndBatch(w) ==
  /\ listing[w] = {}
  /\ WorkerStep(w, "scan", IF processed[w] THEN "batch" ELSE "due")
  /\ UNCHANGED <<now, marker, files, lock, hookVars, batchNow, listing, processed,
                 held, wake, crashes, history>>

(* next_due_at reads the directory; without a file there is no due time.  No
   sleep outlasts the bound on the clock.                                    *)
DueTimes == {pending[n].next : n \in {m \in Procs : pending[m] # NoFile}}

Sleep(w) ==
  \E due \in DueTimes :
    /\ \A d \in DueTimes : due <= d
    /\ WorkerStep(w, "due", "sleep")
    /\ wake' = [wake EXCEPT ![w] =
                   Min2(MaxTime, now + Max2(0, Min2(PollMax, due - batchNow[w])))]
    /\ UNCHANGED <<now, marker, files, lock, hookVars, batchNow, listing, processed,
                   held, crashes, history>>

WakeUp(w) ==
  /\ now >= wake[w]
  /\ WorkerStep(w, "sleep", "batch")
  /\ UNCHANGED <<now, marker, files, lock, hookVars, batchNow, listing, processed,
                 held, wake, crashes, history>>

IdleExit(w) ==
  /\ DueTimes = {}
  /\ WorkerStep(w, "due", "release")
  /\ UNCHANGED <<now, marker, files, lock, hookVars, batchNow, listing, processed,
                 held, wake, crashes, history>>

ReleaseLock(w) ==
  /\ WorkerStep(w, "release", "gone")
  /\ lock' = Nobody
  /\ UNCHANGED <<now, marker, files, hookVars, batchNow, listing, processed, held,
                 wake, crashes, history>>
------------------------------------------------------------------------------
(* A hook script is killed. *)
HookDies(p) ==
  /\ crashes < MaxCrashes
  /\ hpc[p] \notin {"idle", "done", "dead"}
  /\ hpc' = [hpc EXCEPT ![p] = "dead"]
  /\ crashes' = crashes + 1
  /\ UNCHANGED <<now, marker, files, lock, content, created, toClean, cleaning,
                 workerVars, history>>

(* A worker is killed: the kernel drops its flock, but a lock file stays. *)
WorkerDies(w) ==
  /\ crashes < MaxCrashes
  /\ wpc[w] \notin {"off", "gone", "dead"}
  /\ wpc' = [wpc EXCEPT ![w] = "dead"]
  /\ lock' = IF HasFcntl /\ lock = w THEN Nobody ELSE lock
  /\ crashes' = crashes + 1
  /\ UNCHANGED <<now, marker, files, hookVars, batchNow, listing, processed, held,
                 wake, history>>

Tick ==
  /\ now < MaxTime
  /\ now' = now + 1
  /\ UNCHANGED <<marker, files, lock, hookVars, workerVars, crashes, history>>

Enqueue(p) ==
  \/ ListMarkers(p) \/ KeepMarker(p) \/ ReadStaleMarker(p) \/ UnlinkMarker(p)
  \/ Reserve(p) \/ SkipDuplicate(p) \/ WriteMarker(p) \/ StoreItem(p) \/ StartWorker(p)

Work(w) ==
  \/ TakeLock(w) \/ LockBusy(w) \/ RestoreItem(w) \/ Restored(w) \/ ReadClock(w)
  \/ ListPending(w) \/ SkipItem(w) \/ Claim(w) \/ SendOk(w) \/ SendFails(w)
  \/ GiveUp(w) \/ WriteRetry(w) \/ UnlinkInflight(w) \/ EndBatch(w) \/ Sleep(w)
  \/ WakeUp(w) \/ IdleExit(w) \/ ReleaseLock(w)

Next ==
  \/ Tick
  \/ \E p \in Procs : Begin(p) \/ Enqueue(p) \/ HookDies(p)
  \/ \E w \in Procs : Work(w) \/ WorkerDies(w)

Spec == Init /\ [][Next]_vars

(* Processes run until they end or die, and time passes.  No hook is obliged
   to start and no send is obliged to succeed.                              *)
Fairness ==
  /\ WF_vars(Tick)
  /\ \A p \in Procs : WF_vars(Enqueue(p)) /\ WF_vars(Work(p))

FairSpec == Spec /\ Fairness
------------------------------------------------------------------------------
(***************************************************************************)
(* Correctness.                                                            *)
(***************************************************************************)
Time == 0 .. MaxTime

(* The states of a worker that runs with the lock held. *)
Active == {"restore", "batch", "glob", "scan", "send", "settle", "unlink", "due",
           "sleep", "release"}

Files(dir) == {n \in Procs : dir[n] # NoFile}

Settled(n) == n \in failed \/ acks[n] > 0

(* Type correctness: in particular no recorded retry lies further ahead than
   the longest backoff.                                                       *)
TypeOK ==
  /\ now \in Time
  /\ marker \in [Contents -> [owner : Procs \cup {Nobody},
                              expires : Int]]
  /\ \A dir \in {pending, inflight} :
       /\ dir \in [Procs -> Item \cup {NoFile}]
       /\ \A n \in Files(dir) : dir[n].next <= MaxTime + BackoffMax
  /\ failed \subseteq Procs
  /\ lock \in Procs \cup {Nobody}
  /\ hpc \in [Procs -> {"idle", "list", "clean", "unlink", "mark", "store", "spawn",
                        "done", "dead"}]
  /\ content \in [Procs -> Contents]
  /\ created \in [Procs -> Time]
  /\ toClean \in [Procs -> SUBSET Contents]
  /\ cleaning \in [Procs -> Contents]
  /\ wpc \in [Procs -> Active \cup {"off", "start", "gone", "dead"}]
  /\ batchNow \in [Procs -> Time]
  /\ listing \in [Procs -> SUBSET Procs]
  /\ processed \in [Procs -> BOOLEAN]
  /\ held \in [Procs -> Procs]
  /\ wake \in [Procs -> Time]
  /\ crashes \in 0 .. MaxCrashes
  /\ queued \subseteq Procs
  /\ won \subseteq Procs
  /\ stolen \in BOOLEAN
  /\ acks \in [Procs -> Nat]
  /\ lastFail \in [Procs -> Time]

(* One background worker at a time touches the queue, whatever was spawned and
   whoever died (worker_lock).                                                *)
SingleWorker ==
  \A v, w \in Procs : wpc[v] \in Active /\ wpc[w] \in Active => v = w

(* An item once stored is never lost: its file is in pending/ or inflight/, or
   it was sent or filed under failed/, even between the writes and unlinks of
   process_due_items and after any process died there.                        *)
NothingLost ==
  \A n \in queued :
    pending[n] # NoFile \/ inflight[n] # NoFile \/ n \in failed \/ acks[n] > 0

(* inflight/ never holds two items: a worker moves one at a time, and what a
   dead worker left there is restored before the next item is claimed.        *)
OneInflight == Cardinality(Files(inflight)) <= 1

(* Sending an item a second time after it was sent takes the death of a worker
   between the send and the unlink: one death, one duplicate.                 *)
ResentOnlyAfterDeath == \A n \in Procs : acks[n] <= 1 + crashes

(* While nobody dies, an item that was sent or given up on does not turn up in
   pending/ again.                                                            *)
NeverRevived ==
  crashes = 0 => \A n \in Files(pending) : ~Settled(n)

(* A run that is told its content is a duplicate ("queued notification") can
   rely on another run of the same content having stored it or being about to:
   only if that run itself died is nothing queued.  Deaths of others, cleanups
   and expiries never leave a content turned away by a marker of nobody.      *)
SkippedIsQueued ==
  \A p \in Procs : hpc[p] \in {"spawn", "done"} /\ p \notin won =>
    \E q \in won : /\ content[q] = content[p]
                   /\ q \in queued \/ hpc[q] \in {"mark", "store", "dead"}

(* The same content is accepted again only DEDUP_TTL_SECONDS after a run that
   was accepted, unless some cleanup unlinked a marker still in force (it read
   it half-written, or it read its expired predecessor).                      *)
DedupWindow ==
  [][\A p \in won' \ won, q \in won :
       content[p] = content[q] => stolen \/ now >= created[q] + DedupTTL]_vars

(* While a worker is at work and has not decided to exit yet, an item that is
   in pending/ gets sent or given up on (unless the worker dies, after which
   nothing starts another one until the next enqueue).                        *)
WorkerDrains ==
  \A w, n \in Procs :
    wpc[w] \in Active \ {"release"} /\ pending[n] # NoFile
      ~> Settled(n) \/ wpc[w] = "dead"

(* "A single background worker drains the queue": every item stored by a run
   that starts a worker is sent or given up on.                               *)
QueueDrains ==
  \A n \in Procs \ NoStart : n \in queued ~> Settled(n)

(* "retries failed deliveries with bounded exponential backoff": when an item
   is claimed again, the backoff for its number of attempts has passed since
   its last send failed.                                                      *)
RetryBacksOff ==
  [][\A n \in Procs :
       pending[n] # NoFile /\ pending'[n] = NoFile /\ pending[n].attempts > 0
         => now >= lastFail[n] + Backoff(pending[n].attempts)]_vars

(***************************************************************************)
(* The queue implements an outbox: an item leaves only once it was         *)
(* delivered or given up on.  Claims, retries, restores and deaths are     *)
(* invisible there.                                                        *)
(***************************************************************************)
Abstract == INSTANCE Outbox WITH
  Items <- Procs,
  accepted <- queued,
  outstanding <- Files(pending) \cup Files(inflight),
  delivered <- {n \in Procs : acks[n] > 0},
  expired <- failed

(* Every step of the queue is a step of the outbox or leaves it unchanged. *)
ImplementsOutbox == Abstract!Spec
------------------------------------------------------------------------------
(***************************************************************************)
(* The inductive strengthening of the invariants above.                    *)
(***************************************************************************)
Holding == {"send", "settle", "unlink"}

(* A worker was started by its run, which has ended then; the lock belongs to
   the worker at work; what is in flight is
   what it holds, or what a dead worker left and is still to be restored; the
   items it has listed are still pending; it unlinks a file only when there is
   another trace of the item.                                                 *)
WorkerInv ==
  /\ \A p \in Procs : wpc[p] # "off" => hpc[p] = "done"
  /\ \A w \in Procs : wpc[w] \in Active => lock = w
  /\ \A m, n \in Procs : inflight[m] # NoFile /\ inflight[n] # NoFile => m = n
  /\ \A w \in Procs :
       /\ wpc[w] \in Holding => inflight[held[w]] # NoFile
       /\ wpc[w] \in Active \ (Holding \cup {"restore"}) =>
            \A n \in Procs : inflight[n] = NoFile
       /\ wpc[w] \in Holding \cup {"scan"} =>
            \A n \in listing[w] : pending[n] # NoFile
       /\ wpc[w] = "unlink" => pending[held[w]] # NoFile \/ Settled(held[w])

(* Some worker is about to unlink n's in-flight file. *)
Unlinking(n) == \E w \in Procs : wpc[w] = "unlink" /\ held[w] = n

(* Only stored items have traces.  A file whose item is settled already is about
   to be unlinked, or a worker died: as many died as there were extra sends.    *)
ItemInv ==
  /\ NothingLost
  /\ \A n \in Procs : pending[n] # NoFile \/ inflight[n] # NoFile \/ Settled(n)
       => n \in queued
  /\ \A n \in Procs :
       /\ acks[n] <= 1 + crashes
       /\ pending[n] # NoFile =>
            acks[n] <= crashes /\ (n \in failed => crashes > 0)
       /\ inflight[n] # NoFile =>
            \/ Unlinking(n)
            \/ acks[n] <= crashes /\ (n \in failed => crashes > 0)
  /\ \A p \in Procs : hpc[p] \in {"idle", "list", "clean", "unlink", "mark", "store"}
       => p \notin queued
  /\ \A w \in Procs : wpc[w] \in {"send", "settle"} => pending[held[w]] = NoFile

(* A marker was created by a run of that content, which is still on its way to
   storing the item if it lives; while no marker in force was unlinked, the
   marker of a run is there until the run's window is over.                    *)
MarkerInv ==
  /\ \A p \in Procs : /\ hpc[p] \in {"idle", "list", "clean", "unlink"} => p \notin won
                      /\ hpc[p] \in {"mark", "store"} => p \in won
  /\ stolen \/ \A q \in won :
       \/ now >= created[q] + DedupTTL
       \/ /\ marker[content[q]].owner = q
          /\ marker[content[q]].expires \in {Unwritten, created[q] + DedupTTL}
  /\ \A c \in Contents : marker[c] # Absent =>
       marker[c].owner \in won /\ content[marker[c].owner] = c
  /\ \A q \in won : q \in queued \/ hpc[q] \in {"mark", "store", "dead"}
  /\ SkippedIsQueued

IInv == TypeOK /\ WorkerInv /\ ItemInv /\ MarkerInv
==============================================================================
