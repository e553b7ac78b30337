-------------------------- MODULE NotificationServer --------------------------
(***************************************************************************)
(* The HTTP notification server (py_modules/simple_http_notification_server*)
(* .py), for one channel.  Its whole state is in Redis: the list of the    *)
(* channel's notifications, one dedupe key per client_msg_id and the lock  *)
(* of the long-polling readers.  Requests are served concurrently and each *)
(* Redis command is a step, so that between two commands of one request    *)
(* those of others may come:                                               *)
(*   Posts  POST /notification and /sms: reserve the id, push the message; *)
(*   Pulls  GET /pull: walk the list by index, without a lock;             *)
(*   Polls  GET /notification: walk the list under the lock and mark the   *)
(*          first fresh message as sent to the client;                     *)
(* and, besides, GET /clear and the daily flush.                           *)
(***************************************************************************)
EXTENDS Integers, Sequences, FiniteSets

CONSTANTS
  Posts, Pulls, Polls,  (* the requests                                    *)
  MsgIds,               (* client_msg_ids                                  *)
  NoId,                 (* of MsgIds: the post has none, as all of /sms    *)
  Clients,              (* client_ids of the long polls                    *)
  Nobody,               (* no request: a free key or lock, nothing found   *)
  Limit,                (* the `limit` of a pull                           *)
  MaxWait,              (* rounds of a long poll: max_wait                 *)
  FreshFor,             (* a long poll returns no message older than that  *)
  MaxTime,              (* bound: the last instant of the server's clock   *)
  MaxWipes,             (* bound: clears and flushes                       *)
  MaxFailures           (* bound: requests that fail or die half-way       *)

ASSUME RequestsAssumption ==
  /\ Nobody \notin Posts \cup Polls
  /\ Pulls \cap Polls = {}

ASSUME BoundsAssumption ==
  /\ {Limit, MaxWait} \subseteq Nat \ {0}
  /\ {FreshFor, MaxTime, MaxWipes, MaxFailures} \subseteq Nat

VARIABLES
  now,          (* the server's clock                                      *)
  dedupe,       (* per client_msg_id: the post that reserved it, or Nobody *)
  list,         (* the notifications, newest push first                    *)
  rlock,        (* the long poll that holds the Redis lock                 *)
  flushing,     (* the keys the running flush still has to delete          *)
  ppc, msgId, stamp,         (* the posts                                  *)
  gpc, since, reply,         (* the pulls                                  *)
  lpc, client, round, found, (* the long polls                             *)
  len, at,      (* the length and the index of a walk over the list        *)
  wipes, failures,
  forgotten,    (* history: ids whose dedupe key expired or was flushed    *)
  owed,         (* history: what was in the list when a pull began, newer
                   than its `since`                                        *)
  pushes,       (* history: pushes since a pull began                      *)
  wiped,        (* history: the list was deleted since a pull began        *)
  shifted,      (* history: a long poll has marked another message than
                   the one it had read                                     *)
  lockLost      (* history: a long poll lost the lock while it held it     *)

posting == <<ppc, msgId, stamp>>
pulling == <<gpc, since, reply>>
polling == <<lpc, client, round, found>>
walk    == <<len, at>>
bounds  == <<wipes, failures>>
history == <<forgotten, owed, pushes, wiped, shifted, lockLost>>
vars    == <<now, dedupe, list, rlock, flushing, posting, pulling, polling, walk,
             bounds, history>>

Readers == Pulls \cup Polls

Init ==
  /\ now = 0
  /\ dedupe = [m \in MsgIds |-> Nobody]
  /\ list = <<>>
  /\ rlock = Nobody
  /\ flushing = {}
  /\ ppc = [p \in Posts |-> "idle"]
  /\ msgId \in [Posts -> MsgIds]
  /\ stamp = [p \in Posts |-> 0]
  /\ gpc = [g \in Pulls |-> "idle"]
  /\ since = [g \in Pulls |-> -1]
  /\ reply = [g \in Pulls |-> <<>>]
  /\ lpc = [q \in Polls |-> "idle"]
  /\ client \in [Polls -> Clients]
  /\ round = [q \in Polls |-> 1]
  /\ found = [q \in Polls |-> Nobody]
  /\ len = [r \in Readers |-> 0]
  /\ at = [r \in Readers |-> 1]
  /\ wipes = 0
  /\ failures = 0
  /\ forgotten = {}
  /\ owed = [g \in Pulls |-> {}]
  /\ pushes = [g \in Pulls |-> 0]
  /\ wiped = [g \in Pulls |-> FALSE]
  /\ shifted = FALSE
  /\ lockLost = FALSE
------------------------------------------------------------------------------
(***************************************************************************)
(* add_notification                                                        *)
(***************************************************************************)
PostStep(p, from, to) ==
  /\ ppc[p] = from
  /\ ppc' = [ppc EXCEPT ![p] = to]

(* The server timestamp is taken before anything is stored; a post without a
   client_msg_id reserves nothing.                                          *)
Receive(p) ==
  /\ PostStep(p, "idle", IF msgId[p] = NoId THEN "push" ELSE "reserve")
  /\ stamp' = [stamp EXCEPT ![p] = now]
  /\ UNCHANGED <<now, dedupe, list, rlock, flushing, msgId, pulling, polling, walk,
                 bounds, history>>

(* Variant: the dedupe key is set without NX. *)
ReserveAlways(p) ==
  /\ PostStep(p, "reserve", "push")
  /\ dedupe' = [dedupe EXCEPT ![msgId[p]] = p]
  /\ UNCHANGED <<now, list, rlock, flushing, msgId, stamp, pulling, polling, walk,
                 bounds, history>>

(* SET key NX *)
Reserve(p) ==
  /\ PostStep(p, "reserve", "push")
  /\ dedupe[msgId[p]] = Nobody
  /\ dedupe' = [dedupe EXCEPT ![msgId[p]] = p]
  /\ UNCHANGED <<now, list, rlock, flushing, msgId, stamp, pulling, polling, walk,
                 bounds, history>>

(* Variant: the dedupe key names the channel only. *)
AnswerDuplicateOfAny(p) ==
  /\ PostStep(p, "reserve", "duplicate")
  /\ \E m \in MsgIds : dedupe[m] # Nobody
  /\ UNCHANGED <<now, dedupe, list, rlock, flushing, msgId, stamp, pulling, polling,
                 walk, bounds, history>>

AnswerDuplicate(p) ==
  /\ PostStep(p, "reserve", "duplicate")
  /\ dedupe[msgId[p]] # Nobody
  /\ UNCHANGED <<now, dedupe, list, rlock, flushing, msgId, stamp, pulling, polling,
                 walk, bounds, history>>

Push(p) ==
  /\ PostStep(p, "push", "ok")
  /\ list' = <<[post |-> p, stamp |-> stamp[p], sent |-> {}]>> \o list
  /\ pushes' = [g \in Pulls |-> IF gpc[g] = "walk" THEN pushes[g] + 1 ELSE pushes[g]]
  /\ UNCHANGED <<now, dedupe, rlock, flushing, msgId, stamp, pulling, polling, walk,
                 bounds, forgotten, owed, wiped, shifted, lockLost>>

(* Redis refuses the push, or the server goes down: the sender gets no answer
   or an error; a retry of the same message is another post.                  *)
PostFails(p) ==
  /\ failures < MaxFailures
  /\ ppc[p] \in {"reserve", "push"}
  /\ ppc' = [ppc EXCEPT ![p] = "failed"]
  /\ failures' = failures + 1
  /\ UNCHANGED <<now, dedupe, list, rlock, flushing, msgId, stamp, pulling, polling,
                 walk, wipes, history>>
------------------------------------------------------------------------------
(***************************************************************************)
(* pull_notifications: LLEN once, then LINDEX by LINDEX.                   *)
(***************************************************************************)
StartPull(g) ==
  /\ gpc[g] = "idle"
  /\ gpc' = [gpc EXCEPT ![g] = "walk"]
  /\ \E t \in -1 .. now : since' = [since EXCEPT ![g] = t]
  /\ len' = [len EXCEPT ![g] = Len(list)]
  /\ owed' = [owed EXCEPT ![g] =
                {list[i].post : i \in {j \in 1 .. Len(list) : list[j].stamp > since'[g]}}]
  /\ UNCHANGED <<now, dedupe, list, rlock, flushing, posting, reply, polling, at,
                 bounds, forgotten, pushes, wiped, shifted, lockLost>>

(* Variant: `limit` is ignored. *)
WalkedToTheEnd(g) == at[g] > len[g]

(* The walk is over: every index was read, or the answer is full. *)
Walked(g) == at[g] > len[g] \/ Len(reply[g]) >= Limit

(* Variant: the first message that is not newer than `since` ends the walk. *)
PullNextSorted(g) ==
  /\ gpc[g] = "walk"
  /\ ~Walked(g)
  /\ IF at[g] > Len(list) \/ list[at[g]].stamp > since[g]
     THEN at' = [at EXCEPT ![g] = @ + 1]
     ELSE at' = [at EXCEPT ![g] = len[g] + 1]
  /\ reply' = IF at[g] <= Len(list) /\ list[at[g]].stamp > since[g]
              THEN [reply EXCEPT ![g] = Append(@, list[at[g]].post)]
              ELSE reply
  /\ UNCHANGED <<now, dedupe, list, rlock, flushing, posting, gpc, since, polling, len,
                 bounds, history>>

(* An index beyond the end of the list gives nothing. *)
PullNext(g) ==
  /\ gpc[g] = "walk"
  /\ ~Walked(g)
  /\ at' = [at EXCEPT ![g] = @ + 1]
  /\ reply' = IF at[g] <= Len(list) /\ list[at[g]].stamp > since[g]
              THEN [reply EXCEPT ![g] = Append(@, list[at[g]].post)]
              ELSE reply
  /\ UNCHANGED <<now, dedupe, list, rlock, flushing, posting, gpc, since, polling, len,
                 bounds, history>>

AnswerPull(g) ==
  /\ gpc[g] = "walk"
  /\ Walked(g)
  /\ gpc' = [gpc EXCEPT ![g] = "answered"]
  /\ UNCHANGED <<now, dedupe, list, rlock, flushing, posting, since, reply, polling,
                 walk, bounds, history>>
------------------------------------------------------------------------------
(***************************************************************************)
(* get_notifications: up to MaxWait rounds of get_notification.            *)
(***************************************************************************)
PollStep(q, from, to) ==
  /\ lpc[q] = from
  /\ lpc' = [lpc EXCEPT ![q] = to]

StartPoll(q) ==
  /\ PollStep(q, "idle", "lock")
  /\ UNCHANGED <<now, dedupe, list, rlock, flushing, posting, pulling, client, round,
                 found, walk, bounds, history>>

AcquireLock(q) ==
  /\ rlock = Nobody
  /\ PollStep(q, "lock", "len")
  /\ rlock' = q
  /\ UNCHANGED <<now, dedupe, list, flushing, posting, pulling, client, round, found,
                 walk, bounds, history>>

PollLen(q) ==
  /\ PollStep(q, "len", "walk")
  /\ len' = [len EXCEPT ![q] = Len(list)]
  /\ at' = [at EXCEPT ![q] = 1]
  /\ UNCHANGED <<now, dedupe, list, rlock, flushing, posting, pulling, client, round,
                 found, bounds, history>>

(* What a long poll of q may return. *)
Wanted(q, n) == now - n.stamp <= FreshFor /\ client[q] \notin n.sent

PollNext(q) ==
  /\ at[q] <= len[q]
  /\ at[q] <= Len(list) => ~Wanted(q, list[at[q]])
  /\ PollStep(q, "walk", "walk")
  /\ at' = [at EXCEPT ![q] = @ + 1]
  /\ UNCHANGED <<now, dedupe, list, rlock, flushing, posting, pulling, client, round,
                 found, len, bounds, history>>

PollFinds(q) ==
  /\ at[q] <= len[q]
  /\ at[q] <= Len(list)
  /\ Wanted(q, list[at[q]])
  /\ PollStep(q, "walk", "mark")
  /\ found' = [found EXCEPT ![q] = list[at[q]]]
  /\ UNCHANGED <<now, dedupe, list, rlock, flushing, posting, pulling, client, round,
                 walk, bounds, history>>

PollEmpty(q) ==
  /\ at[q] > len[q]
  /\ PollStep(q, "walk", "unlock")
  /\ UNCHANGED <<now, dedupe, list, rlock, flushing, posting, pulling, client, round,
                 found, walk, bounds, history>>

(* Variant: the client is not added to the list of those it was sent to. *)
MarkNothing(q) ==
  /\ at[q] <= Len(list)
  /\ PollStep(q, "mark", "unlock")
  /\ list' = [list EXCEPT ![at[q]] = found[q]]
  /\ shifted' = (shifted \/ list[at[q]].post # found[q].post)
  /\ UNCHANGED <<now, dedupe, rlock, flushing, posting, pulling, client, round, found,
                 walk, bounds, forgotten, owed, pushes, wiped, lockLost>>

(* LSET by index: whatever is there by now is overwritten with the message read
   before, marked as sent to the client.                                         *)
Mark(q) ==
  /\ at[q] <= Len(list)
  /\ PollStep(q, "mark", "unlock")
  /\ list' = [list EXCEPT ![at[q]] =
                [found[q] EXCEPT !.sent = @ \cup {client[q]}]]
  /\ shifted' = (shifted \/ list[at[q]].post # found[q].post)
  /\ UNCHANGED <<now, dedupe, rlock, flushing, posting, pulling, client, round, found,
                 walk, bounds, forgotten, owed, pushes, wiped, lockLost>>

(* The list was deleted meanwhile: LSET raises, and the lock is released. *)
MarkFails(q) ==
  /\ at[q] > Len(list)
  /\ PollStep(q, "mark", "error")
  /\ rlock' = IF rlock = q THEN Nobody ELSE rlock
  /\ UNCHANGED <<now, dedupe, list, flushing, posting, pulling, client, round, found,
                 walk, bounds, history>>

(* Variant: a message found is not returned, the next round goes on. *)
UnlockAndGoOn(q) ==
  /\ rlock = q
  /\ rlock' = Nobody
  /\ PollStep(q, "unlock", IF round[q] < MaxWait THEN "lock" ELSE "empty")
  /\ round' = [round EXCEPT ![q] = IF @ < MaxWait THEN @ + 1 ELSE @]
  /\ UNCHANGED <<now, dedupe, list, flushing, posting, pulling, client, found, walk,
                 bounds, history>>

(* A message found is returned; otherwise the next round begins, if any. *)
Unlock(q) ==
  /\ rlock = q
  /\ rlock' = Nobody
  /\ IF found[q] # Nobody
     THEN PollStep(q, "unlock", "answered") /\ UNCHANGED round
     ELSE /\ PollStep(q, "unlock", IF round[q] < MaxWait THEN "lock" ELSE "empty")
          /\ round' = [round EXCEPT ![q] = IF @ < MaxWait THEN @ + 1 ELSE @]
  /\ UNCHANGED <<now, dedupe, list, flushing, posting, pulling, client, found, walk,
                 bounds, history>>

(* The lock is another's or nobody's: its release raises and the request fails. *)
UnlockFails(q) ==
  /\ rlock # q
  /\ PollStep(q, "unlock", "error")
  /\ UNCHANGED <<now, dedupe, list, rlock, flushing, posting, pulling, client, round,
                 found, walk, bounds, history>>

(* A long poll dies and leaves the lock behind. *)
PollDies(q) ==
  /\ failures < MaxFailures
  /\ lpc[q] \in {"len", "walk", "mark", "unlock"}
  /\ lpc' = [lpc EXCEPT ![q] = "error"]
  /\ failures' = failures + 1
  /\ UNCHANGED <<now, dedupe, list, rlock, flushing, posting, pulling, client, round,
                 found, walk, wipes, history>>
------------------------------------------------------------------------------
(***************************************************************************)
(* What Redis, the clock and the operator do.                              *)
(***************************************************************************)
Holders == {q \in Polls : lpc[q] \in {"len", "walk", "mark", "unlock"}}

(* Variant: the lock has no timeout. *)
LockStays ==
  /\ rlock = Nobody
  /\ UNCHANGED vars

(* The lock's timeout runs out, 5 seconds after it was taken. *)
LockExpires ==
  /\ rlock # Nobody
  /\ rlock' = Nobody
  /\ lockLost' = (lockLost \/ rlock \in Holders)
  /\ UNCHANGED <<now, dedupe, list, flushing, posting, pulling, polling, walk, bounds,
                 forgotten, owed, pushes, wiped, shifted>>

(* A dedupe key expires a day after it was set. *)
KeyExpires(m) ==
  /\ dedupe[m] # Nobody
  /\ dedupe' = [dedupe EXCEPT ![m] = Nobody]
  /\ forgotten' = forgotten \cup {m}
  /\ UNCHANGED <<now, list, rlock, flushing, posting, pulling, polling, walk, bounds,
                 owed, pushes, wiped, shifted, lockLost>>

DeleteList ==
  /\ list' = <<>>
  /\ wiped' = [g \in Pulls |-> wiped[g] \/ gpc[g] = "walk"]

(* GET /clear *)
Clear ==
  /\ wipes < MaxWipes
  /\ wipes' = wipes + 1
  /\ DeleteList
  /\ UNCHANGED <<now, dedupe, rlock, flushing, posting, pulling, polling, walk,
                 failures, forgotten, owed, pushes, shifted, lockLost>>

(* backup_and_flush_redis lists the keys... *)
StartFlush ==
  /\ flushing = {}
  /\ wipes < MaxWipes
  /\ wipes' = wipes + 1
  /\ flushing' = {m \in MsgIds : dedupe[m] # Nobody}
                   \cup (IF list = <<>> THEN {} ELSE {"list"})
                   \cup (IF rlock = Nobody THEN {} ELSE {"lock"})
  /\ UNCHANGED <<now, dedupe, list, rlock, posting, pulling, polling, walk, failures,
                 history>>

(* ... and deletes them one by one. *)
FlushKey(m) ==
  /\ m \in flushing
  /\ flushing' = flushing \ {m}
  /\ dedupe' = [dedupe EXCEPT ![m] = Nobody]
  /\ forgotten' = forgotten \cup {m}
  /\ UNCHANGED <<now, list, rlock, posting, pulling, polling, walk, bounds, owed,
                 pushes, wiped, shifted, lockLost>>

FlushList ==
  /\ "list" \in flushing
  /\ flushing' = flushing \ {"list"}
  /\ DeleteList
  /\ UNCHANGED <<now, dedupe, rlock, posting, pulling, polling, walk, bounds, forgotten,
                 owed, pushes, shifted, lockLost>>

FlushLock ==
  /\ "lock" \in flushing
  /\ flushing' = flushing \ {"lock"}
  /\ rlock' = Nobody
  /\ lockLost' = (lockLost \/ rlock \in Holders)
  /\ UNCHANGED <<now, dedupe, list, posting, pulling, polling, walk, bounds, forgotten,
                 owed, pushes, wiped, shifted>>

Tick ==
  /\ now < MaxTime
  /\ now' = now + 1
  /\ UNCHANGED <<dedupe, list, rlock, flushing, posting, pulling, polling, walk, bounds,
                 history>>

Post(p) == Receive(p) \/ Reserve(p) \/ AnswerDuplicate(p) \/ Push(p)
Pull(g) == PullNext(g) \/ AnswerPull(g)
Poll(q) ==
  \/ AcquireLock(q) \/ PollLen(q) \/ PollNext(q) \/ PollFinds(q) \/ PollEmpty(q)
  \/ Mark(q) \/ MarkFails(q) \/ Unlock(q) \/ UnlockFails(q)
Flush == FlushList \/ FlushLock \/ \E m \in MsgIds : FlushKey(m)

Next ==
  \/ \E p \in Posts : Post(p) \/ PostFails(p)
  \/ \E g \in Pulls : StartPull(g) \/ Pull(g)
  \/ \E q \in Polls : StartPoll(q) \/ Poll(q) \/ PollDies(q)
  \/ Clear \/ StartFlush \/ Flush
  \/ LockExpires \/ (\E m \in MsgIds : KeyExpires(m)) \/ Tick

Spec == Init /\ [][Next]_vars

(* A request that was received is served on, and a lock's timeout runs out. *)
Fairness ==
  /\ \A p \in Posts : WF_vars(Post(p))
  /\ \A g \in Pulls : WF_vars(Pull(g))
  /\ \A q \in Polls : WF_vars(Poll(q))
  /\ WF_vars(LockExpires)

FairSpec == Spec /\ Fairness
------------------------------------------------------------------------------
(***************************************************************************)
(* Correctness.                                                            *)
(***************************************************************************)
Record == [post : Posts, stamp : 0 .. MaxTime, sent : SUBSET Clients]

(* A poll that found nothing has no record of it. *)
ASSUME NothingAssumption == Nobody \notin Record

StoreOK ==
  /\ now \in 0 .. MaxTime
  /\ dedupe \in [MsgIds -> Posts \cup {Nobody}]
  /\ list \in Seq(Record)
  /\ rlock \in Polls \cup {Nobody}
  /\ flushing \subseteq MsgIds \cup {"list", "lock"}
  /\ wipes \in 0 .. MaxWipes
  /\ failures \in 0 .. MaxFailures
  /\ forgotten \subseteq MsgIds
  /\ shifted \in BOOLEAN
  /\ lockLost \in BOOLEAN

PostsOK ==
  /\ ppc \in [Posts -> {"idle", "reserve", "push", "ok", "duplicate", "failed"}]
  /\ msgId \in [Posts -> MsgIds]
  /\ stamp \in [Posts -> 0 .. MaxTime]

PullsOK ==
  /\ gpc \in [Pulls -> {"idle", "walk", "answered"}]
  /\ since \in [Pulls -> -1 .. MaxTime]
  /\ reply \in [Pulls -> Seq(Posts)]
  /\ \A g \in Pulls : Len(reply[g]) <= Limit
  /\ owed \in [Pulls -> SUBSET Posts]
  /\ pushes \in [Pulls -> Nat]
  /\ wiped \in [Pulls -> BOOLEAN]

PollsOK ==
  /\ lpc \in [Polls -> {"idle", "lock", "len", "walk", "mark", "unlock", "answered",
                        "empty", "error"}]
  /\ client \in [Polls -> Clients]
  /\ round \in [Polls -> 1 .. MaxWait]
  /\ found \in [Polls -> Record \cup {Nobody}]
  /\ \A q \in Polls : lpc[q] = "mark" => found[q] \in Record

WalkOK ==
  /\ len \in [Readers -> Nat]
  /\ at \in [Readers -> Nat \ {0}]

(* Type correctness; in particular no answer to a pull exceeds its limit. *)
TypeOK == StoreOK /\ PostsOK /\ PullsOK /\ PollsOK /\ WalkOK

(* A client_msg_id is accepted once, however often and however concurrently it is
   posted, until its dedupe key expires or is flushed.                           *)
AcceptedOnce ==
  \A p, q \in {r \in Posts : msgId[r] # NoId /\ ppc[r] \in {"push", "ok"}} :
    p # q /\ msgId[p] = msgId[q] => msgId[p] \in forgotten

(* A sender that is told "duplicate" may drop its message: another post of it was
   stored or is being stored, unless that post itself failed between the two steps.
   Other posts' failures, expired keys and the flush never make a duplicate of nothing. *)
DuplicateHasOriginal ==
  \A p \in Posts : ppc[p] = "duplicate" =>
    \E q \in Posts : /\ q # p /\ msgId[q] = msgId[p]
                     /\ ppc[q] \in {"push", "ok", "failed"}

Answer(g) == {reply[g][i] : i \in 1 .. Len(reply[g])}

(* A pull whose answer is not full misses at most as many of the messages it owes
   as were pushed while it walked the list.                                       *)
PullMissesFew ==
  \A g \in Pulls :
    gpc[g] = "answered" /\ Len(reply[g]) < Limit /\ ~wiped[g] /\ ~shifted
      => Cardinality(owed[g] \ Answer(g)) <= pushes[g]

(* A long-polling client gets a message once, as long as no lock was lost and no
   mark hit another message.                                                     *)
OncePerClient ==
  ~shifted /\ ~lockLost =>
    \A q, r \in {s \in Polls : lpc[s] = "answered"} :
      q # r /\ client[q] = client[r] => found[q].post # found[r].post

(* A message marked as sent to a client was returned to a poll of that client or
   is about to be, unless that poll died or lost the lock.                       *)
MarkedIsReturned ==
  failures = 0 /\ ~lockLost =>
    \A i \in 1 .. Len(list) : \A c \in list[i].sent :
      \E q \in Polls : /\ client[q] = c
                       /\ lpc[q] \in {"unlock", "answered"}
                       /\ found[q] # Nobody /\ found[q].post = list[i].post

(* A long poll that was received is answered, even when another one died with the
   lock held.                                                                     *)
PollsAnswered ==
  \A q \in Polls : lpc[q] = "lock" ~> lpc[q] \in {"answered", "empty", "error"}

(* "Pull all recent notifications for a channel, optionally only those newer than
   `since`": an answer that is not full has every message that was in the list
   when the pull began, is newer than `since` and was not deleted meanwhile.      *)
PullReturnsAll ==
  \A g \in Pulls :
    gpc[g] = "answered" /\ Len(reply[g]) < Limit /\ ~wiped[g] => owed[g] \subseteq Answer(g)
------------------------------------------------------------------------------
(* The inductive strengthening of AcceptedOnce and DuplicateHasOriginal: an
   accepted post holds the dedupe key of its id unless the key was forgotten, and
   a key is held by a post of that id which was accepted if none failed.         *)
DedupeInv ==
  /\ \A p \in Posts :
       msgId[p] # NoId /\ ppc[p] \in {"push", "ok"}
         => dedupe[msgId[p]] = p \/ msgId[p] \in forgotten
  /\ \A p \in Posts : ppc[p] = "reserve" => msgId[p] # NoId
  /\ \A m \in MsgIds : dedupe[m] # Nobody => msgId[dedupe[m]] = m
  /\ \A m \in MsgIds :
       dedupe[m] # Nobody => ppc[dedupe[m]] \in {"push", "ok", "failed"}
  /\ DuplicateHasOriginal

SInv == TypeOK /\ DedupeInv
==============================================================================
