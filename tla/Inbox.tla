-------------------------------- MODULE Inbox --------------------------------
(***************************************************************************)
(* The inbox of a desktop: history.json and the processes that write it.   *)
(*   Workers    RemoteNotifications.Service: load the history, pull what   *)
(*              is newer than its newest message, accept what was not seen,*)
(*              save, show banners; or inject a test message;              *)
(*   Receivers  the Runner's RemoteNotificationBackgroundReceiver: pull    *)
(*              first, by a waterline kept in memory, then load and save;  *)
(*   the Shell  clears the history and saves its filter.                   *)
(* Every access to the file is one transaction under a named mutex, hence  *)
(* one step; between the transactions of one process those of others come. *)
(* A transaction that cannot read the file takes it for empty.  Labels and *)
(* the filter are not represented, the transactions that save them are:    *)
(* they write the rest of the file back.                                   *)
(* The server is its list of messages: NotificationServer says how a list  *)
(* comes about; a pull is one step here.                                   *)
(***************************************************************************)
EXTENDS SeenIds, FiniteSets

CONSTANTS
  Messages,       (* what is posted to the server, see SeenIds            *)
  Injects,        (* test messages: drawn by the worker, ids never reused *)
  Workers, Receivers,
  MaxMessages,    (* the history keeps so many messages: MaximumMessages  *)
  Limit,          (* a pull asks for so many: PullLimit                   *)
  MaxTime,        (* bound: the last instant                              *)
  MaxClears,      (* bound: clears and filter changes by the user         *)
  MaxFailures,    (* bound: reads that fail                               *)
  MaxStops        (* bound: exceptions, failed pulls and dead processes   *)

ASSUME ProcessesAssumption ==
  /\ Workers \cap Receivers = {}
  /\ Messages \cap Injects = {}
  /\ IsFiniteSet(Messages) /\ IsFiniteSet(Injects)

ASSUME BoundsAssumption ==
  /\ {MaxMessages, Limit, MaxTime} \subseteq Nat \ {0}
  /\ {MaxClears, MaxFailures, MaxStops} \subseteq Nat

VARIABLES
  now,            (* the clock, from 1                                    *)
  stamp,          (* server timestamp of a record, 0 if it has none yet   *)
  list,           (* the server's list, newest push first                 *)
  file,           (* history.json: the messages and the seen ids          *)
  pc,
  snap,           (* the messages of the snapshot a process has loaded    *)
  ring,           (* its seen-id ring                                     *)
  accepted,       (* what it has accepted and still has to save or show   *)
  waterline, got, (* a receiver's waterline and its unprocessed answer    *)
  clears, failures, stops,
  recorded,       (* history: what was ever in the file                   *)
  trimmed,        (* history: what was cut to keep MaxMessages            *)
  cleared,        (* history: what the user has cleared                   *)
  raced,          (* history: of these, what a process had in a snapshot
                     it had not saved yet                                 *)
  overlap,        (* history: two processes had a snapshot at a time      *)
  cut,            (* history: what a pull left out for its limit          *)
  late,           (* history: pushed when a message not older was there   *)
  dropped,        (* history: ids a ring forgot of what may still come    *)
  banners         (* history: how often a message was shown               *)

Processes == Workers \cup Receivers
Records == Messages \cup Injects

server   == <<now, stamp, list>>
process  == <<pc, snap, ring, accepted>>
receiver == <<waterline, got>>
bounds   == <<clears, failures, stops>>
history  == <<recorded, trimmed, cleared, raced, overlap, cut, late, dropped,
              banners>>
vars     == <<server, file, process, receiver, bounds, history>>

Empty == [messages |-> {}, seen |-> <<>>]

Init ==
  /\ now = 1
  /\ stamp = [m \in Records |-> 0]
  /\ list = <<>>
  /\ file = Empty
  /\ pc = [p \in Processes |-> IF p \in Workers THEN "idle" ELSE "new"]
  /\ snap = [p \in Processes |-> {}]
  /\ ring = [p \in Processes |-> <<>>]
  /\ accepted = [p \in Processes |-> {}]
  /\ waterline = [p \in Receivers |-> 0]
  /\ got = [p \in Receivers |-> <<>>]
  /\ clears = 0 /\ failures = 0 /\ stops = 0
  /\ recorded = {} /\ trimmed = {} /\ cleared = {} /\ raced = {}
  /\ overlap = FALSE
  /\ cut = {} /\ late = {} /\ dropped = {}
  /\ banners = [m \in Messages |-> 0]
------------------------------------------------------------------------------
(***************************************************************************)
(* The server.                                                             *)
(***************************************************************************)
Tick ==
  /\ now < MaxTime
  /\ now' = now + 1
  /\ UNCHANGED <<stamp, list, file, process, receiver, bounds, history>>

(* add_notification stamps a message when the request comes in... *)
Stamp(m) ==
  /\ stamp[m] = 0
  /\ stamp' = [stamp EXCEPT ![m] = now]
  /\ UNCHANGED <<now, list, file, process, receiver, bounds, history>>

(* ... and pushes it later, perhaps behind one with a later stamp. *)
Push(m) ==
  /\ stamp[m] # 0
  /\ m \notin ToSet(list)
  /\ list' = <<m>> \o list
  /\ late' = IF \E n \in ToSet(list) : stamp[n] >= stamp[m] THEN late \cup {m} ELSE late
  /\ UNCHANGED <<now, stamp, file, process, receiver, bounds, recorded, trimmed,
                 cleared, raced, overlap, cut, dropped, banners>>

(* The messages of a set, oldest first; ties in any order. *)
InOrder(S) ==
  CHOOSE s \in [1 .. Cardinality(S) -> S] :
    /\ IsInjective(s)
    /\ \A i, j \in DOMAIN s : i < j => stamp[s[i]] <= stamp[s[j]]

Newest(S) == IF S = {} THEN 0 ELSE Max({stamp[m] : m \in S})

Pullable(since) == {i \in DOMAIN list : stamp[list[i]] > since}

(* GET /pull: the Limit messages pushed last of those newer than `since`. *)
Sent(since) ==
  {i \in Pullable(since) : Cardinality({j \in Pullable(since) : j < i}) < Limit}

(* The client puts them in order of time. *)
Answer(since) == InOrder({list[i] : i \in Sent(since)})

LeftOut(since) == {list[i] : i \in Pullable(since) \ Sent(since)}

(* What some pull may still return, or a receiver has still to look at. *)
InReach(i) == Cardinality({j \in Pullable(stamp[list[i]] - 1) : j < i}) < Limit

MayCome ==
  (Messages \ ToSet(list)) \cup {list[i] : i \in {j \in DOMAIN list : InReach(j)}}
    \cup {i \in Injects : stamp[i] = 0} \cup UNION {ToSet(got[p]) : p \in Receivers}

(* A ring has forgotten ids: noted if their message may still come. *)
Drop(ids) == dropped' = dropped \cup (ids \cap UNION {IdsOf(m) : m \in MayCome})
------------------------------------------------------------------------------
(***************************************************************************)
(* The store: transactions read the file and write it back.                *)
(***************************************************************************)
Read(r) ==
  \/ r = file /\ UNCHANGED failures
  \/ r = Empty /\ failures < MaxFailures /\ failures' = failures + 1

Readable == {file, Empty}

(* Variant: the saved ids are ignored. *)
SeededFromHistory(r) == RememberAll(<<>>, InOrder(r.messages))

(* ToSnapshot, then the constructor of the ring and the seeding by its user:
   the ids of the history are remembered behind the saved ones.              *)
Seeded(r) ==
  RememberAll(RememberAll(r.seen, InOrder(r.messages)), InOrder(r.messages))

SeedingForgets(r) ==
  Forgets(r.seen, InOrder(r.messages))
    \cup Forgets(RememberAll(r.seen, InOrder(r.messages)), InOrder(r.messages))

(* Variant: what was accepted is saved alone. *)
MergeOver(p) == accepted[p]

(* What p saves: its snapshot, with the accepted messages in the place of those
   with their stable id.                                                        *)
Merge(p) ==
  accepted[p] \cup {m \in snap[p] : \A n \in accepted[p] : StableId(m) # StableId(n)}

(* TakeLast(MaximumMessages) in order of time. *)
Trims(S) ==
  {K \in SUBSET S :
     /\ Cardinality(K) = IF Cardinality(S) < MaxMessages THEN Cardinality(S) ELSE MaxMessages
     /\ \A m \in K, n \in S \ K : stamp[m] >= stamp[n]}

Goto(p, label) == pc' = [pc EXCEPT ![p] = label]

(* A process at the end of its cycle. *)
Rest(p, label) ==
  /\ Goto(p, label)
  /\ snap' = [snap EXCEPT ![p] = {}]
  /\ ring' = [ring EXCEPT ![p] = <<>>]
  /\ accepted' = [accepted EXCEPT ![p] = {}]

(* Variant: the banners come first. *)
ShowFirst(p, messages, order, batch) ==
  LET new == Accepted(order, batch)
  IN  IF new = {}
      THEN Rest(p, "idle")
      ELSE /\ Goto(p, "banner")
           /\ accepted' = [accepted EXCEPT ![p] = new]
           /\ UNCHANGED <<snap, ring>>

(* What of a batch is new to the ring is accepted and goes on to be saved; if
   there is nothing, the cycle is over.                                       *)
Take(p, messages, order, batch) ==
  LET new == Accepted(order, batch)
  IN  IF new = {}
      THEN Rest(p, "idle")
      ELSE /\ Goto(p, "save")
           /\ snap' = [snap EXCEPT ![p] = messages]
           /\ ring' = [ring EXCEPT ![p] = RememberAll(order, batch)]
           /\ accepted' = [accepted EXCEPT ![p] = new]

(* Processes that have a snapshot and still have to save what they made of it. *)
Saving(p) == pc[p] \in {"pull", "save", "saveIds"}

NoteOverlap(p) ==
  overlap' = (overlap \/ \E q \in Processes \ {p} : Saving(q))
------------------------------------------------------------------------------
(***************************************************************************)
(* A worker's cycle.                                                       *)
(***************************************************************************)
Load(p) ==
  /\ pc[p] = "idle"
  /\ Goto(p, "pull")
  /\ \E r \in Readable :
       /\ Read(r)
       /\ snap' = [snap EXCEPT ![p] = r.messages]
       /\ ring' = [ring EXCEPT ![p] = Seeded(r)]
       /\ Drop(SeedingForgets(r))
  /\ NoteOverlap(p)
  /\ UNCHANGED <<server, file, accepted, receiver, clears, stops, recorded, trimmed,
                 cleared, raced, cut, late, banners>>

(* Variant: the waterline is the time of the last cycle. *)
SinceLastPoll(p) == now - 1

(* ResolveWaterline *)
Since(p) == Newest(snap[p])

Pull(p) ==
  /\ pc[p] = "pull"
  /\ Take(p, snap[p], ring[p], Answer(Since(p)))
  /\ cut' = cut \cup LeftOut(Since(p))
  /\ Drop(Forgets(ring[p], Answer(Since(p))))
  /\ UNCHANGED <<server, file, receiver, bounds, recorded, trimmed, cleared, raced,
                 overlap, late, banners>>

(* HandleInject takes the gate of the cycles.  Its message carries the desktop's
   clock as server timestamp.                                                   *)
Inject(p, i) ==
  /\ pc[p] = "idle"
  /\ stamp[i] = 0
  /\ stamp' = [stamp EXCEPT ![i] = now]
  /\ \E r \in Readable :
       /\ Read(r)
       /\ Take(p, r.messages, Seeded(r), <<i>>)
       /\ Drop(SeedingForgets(r) \cup Forgets(Seeded(r), <<i>>))
  /\ NoteOverlap(p)
  /\ UNCHANGED <<now, list, file, receiver, clears, stops, recorded, trimmed, cleared,
                 raced, cut, late, banners>>
------------------------------------------------------------------------------
(***************************************************************************)
(* A receiver's cycle: the waterline moves before the history is loaded.   *)
(***************************************************************************)
Construct(p) ==
  /\ pc[p] = "new"
  /\ Goto(p, "idle")
  /\ \E r \in Readable :
       Read(r) /\ waterline' = [waterline EXCEPT ![p] = Newest(r.messages)]
  /\ UNCHANGED <<server, file, snap, ring, accepted, got, clears, stops, history>>

ReceiverPull(p) ==
  /\ pc[p] = "idle"
  /\ Answer(waterline[p]) # <<>>
  /\ Goto(p, "load")
  /\ got' = [got EXCEPT ![p] = Answer(waterline[p])]
  /\ waterline' = [waterline EXCEPT ![p] = Newest(ToSet(Answer(@)))]
  /\ cut' = cut \cup LeftOut(waterline[p])
  /\ UNCHANGED <<server, file, snap, ring, accepted, bounds, recorded, trimmed, cleared,
                 raced, overlap, late, dropped, banners>>

ReceiverLoad(p) ==
  /\ pc[p] = "load"
  /\ \E r \in Readable :
       /\ Read(r)
       /\ Take(p, r.messages, Seeded(r), got[p])
       /\ Drop(SeedingForgets(r) \cup Forgets(Seeded(r), got[p]))
  /\ got' = [got EXCEPT ![p] = <<>>]
  /\ NoteOverlap(p)
  /\ UNCHANGED <<server, file, waterline, clears, stops, recorded, trimmed, cleared,
                 raced, cut, late, banners>>
------------------------------------------------------------------------------
(***************************************************************************)
(* The end of both cycles: three transactions, then the worker's banners.  *)
(***************************************************************************)
(* Variant: the ids are saved before the messages, as the view model does. *)
SaveIdsFirst(p) ==
  /\ pc[p] = "save"
  /\ Goto(p, "saveIds")
  /\ file' = [file EXCEPT !.seen = ring[p]]
  /\ UNCHANGED <<server, snap, ring, accepted, receiver, bounds, history>>

(* The ids of the saved messages are remembered in the same transaction. *)
SaveMessages(p) ==
  /\ pc[p] = "save"
  /\ Goto(p, "saveIds")
  /\ \E r \in Readable, kept \in Trims(Merge(p)) :
       /\ Read(r)
       /\ file' = [messages |-> kept, seen |-> RememberAll(r.seen, InOrder(kept))]
       /\ recorded' = recorded \cup kept
       /\ trimmed' = trimmed \cup (Merge(p) \ kept)
       /\ Drop(Forgets(r.seen, InOrder(kept)))
  /\ UNCHANGED <<server, snap, ring, accepted, receiver, clears, stops, cleared, raced,
                 overlap, cut, late, banners>>

(* The list of seen ids is replaced by the ring. *)
SaveSeenMessageIds(p) ==
  /\ pc[p] = "saveIds"
  /\ Goto(p, "labels")
  /\ \E r \in Readable : Read(r) /\ file' = [r EXCEPT !.seen = ring[p]]
  /\ UNCHANGED <<server, snap, ring, accepted, receiver, clears, stops, history>>

(* A worker goes on to show what it pulled, a receiver reports it as an event. *)
SaveKnownLabels(p) ==
  /\ pc[p] = "labels"
  /\ \E r \in Readable : Read(r) /\ file' = r
  /\ IF p \in Workers /\ accepted[p] \cap Injects = {}
     THEN Goto(p, "banner") /\ UNCHANGED <<snap, ring, accepted>>
     ELSE Rest(p, "idle")
  /\ UNCHANGED <<server, receiver, clears, stops, history>>

(* DispatchBanners, one by one; in which order is of no consequence here. *)
Show(p) ==
  /\ pc[p] = "banner"
  /\ \E m \in accepted[p] :
       /\ banners' = [banners EXCEPT ![m] = @ + 1]
       /\ IF accepted[p] = {m}
          THEN Rest(p, "idle")
          ELSE /\ accepted' = [accepted EXCEPT ![p] = @ \ {m}]
               /\ UNCHANGED <<pc, snap, ring>>
  /\ UNCHANGED <<server, file, receiver, bounds, recorded, trimmed, cleared, raced,
                 overlap, cut, late, dropped>>

(* The pull fails, the mutex is not had within its 10 seconds, an exception ends
   the cycle or the process dies.  A receiver is built anew, as it is when the
   settings change.                                                            *)
Stop(p) ==
  /\ stops < MaxStops
  /\ pc[p] # IF p \in Workers THEN "idle" ELSE "new"
  /\ stops' = stops + 1
  /\ Rest(p, IF p \in Workers THEN "idle" ELSE "new")
  /\ waterline' = [q \in Receivers |-> IF q = p THEN 0 ELSE waterline[q]]
  /\ got' = [q \in Receivers |-> IF q = p THEN <<>> ELSE got[q]]
  /\ UNCHANGED <<server, file, clears, failures, history>>
------------------------------------------------------------------------------
(***************************************************************************)
(* The Shell.                                                              *)
(***************************************************************************)
(* Variant: the seen ids are cleared, too. *)
ClearAll ==
  /\ clears < MaxClears
  /\ clears' = clears + 1
  /\ file' = Empty
  /\ cleared' = cleared \cup file.messages
  /\ UNCHANGED <<server, process, receiver, failures, stops, recorded, trimmed, raced,
                 overlap, cut, late, dropped, banners>>

ClearMessages ==
  /\ clears < MaxClears
  /\ clears' = clears + 1
  /\ \E r \in Readable : Read(r) /\ file' = [r EXCEPT !.messages = {}]
  /\ cleared' = cleared \cup file.messages
  /\ raced' = raced \cup {m \in file.messages :
                            \E p \in Processes : pc[p] \in {"pull", "save"} /\ m \in snap[p]}
  /\ UNCHANGED <<server, process, receiver, stops, recorded, trimmed, overlap, cut, late,
                 dropped, banners>>

SaveFilter ==
  /\ clears < MaxClears
  /\ clears' = clears + 1
  /\ \E r \in Readable : Read(r) /\ file' = r
  /\ UNCHANGED <<server, process, receiver, stops, history>>

Save(p) == SaveMessages(p) \/ SaveSeenMessageIds(p) \/ SaveKnownLabels(p)
Cycle(p) == Load(p) \/ Pull(p) \/ Save(p) \/ Show(p)

Next ==
  \/ Tick
  \/ \E m \in Messages : Stamp(m) \/ Push(m)
  \/ \E p \in Workers : Cycle(p) \/ \E i \in Injects : Inject(p, i)
  \/ \E p \in Receivers : Construct(p) \/ ReceiverPull(p) \/ ReceiverLoad(p) \/ Save(p)
  \/ \E p \in Processes : Stop(p)
  \/ ClearMessages \/ SaveFilter

Spec == Init /\ [][Next]_vars

(* The service polls on, whatever happened to a cycle.  A step of Cycle is possible
   in every state, so that this is its weak fairness, written without ENABLED, which
   TLC evaluates slowly here.                                                       *)
Fairness == \A p \in Workers : []<><<Cycle(p)>>_vars

FairSpec == Spec /\ Fairness
------------------------------------------------------------------------------
(***************************************************************************)
(* Correctness.                                                            *)
(***************************************************************************)
Ids == UNION {IdsOf(m) : m \in Records}

ServerOK ==
  /\ now \in 1 .. MaxTime
  /\ stamp \in [Records -> 0 .. MaxTime]
  /\ list \in Seq(Messages)

FileOK ==
  /\ file.messages \subseteq Records
  /\ Cardinality(file.messages) <= MaxMessages
  /\ file.seen \in RingOf(Ids)

ProcessOK ==
  /\ pc \in [Processes -> {"new", "idle", "pull", "load", "save", "saveIds", "labels",
                           "banner"}]
  /\ snap \in [Processes -> SUBSET Records]
  /\ \A p \in Processes : ring[p] \in RingOf(Ids)
  /\ accepted \in [Processes -> SUBSET Records]
  /\ waterline \in [Receivers -> 0 .. MaxTime]
  /\ got \in [Receivers -> Seq(Messages)]

HistoryOK ==
  /\ clears \in 0 .. MaxClears
  /\ failures \in 0 .. MaxFailures
  /\ stops \in 0 .. MaxStops
  /\ recorded \subseteq Records
  /\ trimmed \subseteq Records
  /\ raced \subseteq cleared
  /\ cleared \subseteq Records
  /\ overlap \in BOOLEAN
  /\ cut \subseteq Messages
  /\ late \subseteq Messages
  /\ dropped \subseteq Ids
  /\ banners \in [Messages -> Nat]

(* Type correctness; in particular the history and the rings keep their bounds and
   a ring has no id twice.                                                         *)
TypeOK == ServerOK /\ FileOK /\ ProcessOK /\ HistoryOK

(* The click on a banner looks its message up in the history: none is shown before
   its message was saved.                                                          *)
ShownIsRecorded == \A m \in Messages : banners[m] > 0 => m \in recorded \cup trimmed

SameIds(m, n) == IdsOf(m) \cap IdsOf(n) # {}

(* A ring that refuses a message remembers its ids, and then refuses what shares the
   other one: so far its refusals reach from one message.                           *)
Links ==
  [m \in Records |->
     {n \in Records : \A S \in SUBSET Records :
        m \in S /\ (\A k \in S, l \in Records : SameIds(k, l) => l \in S) => n \in S}]

Linked(m, n) == n \in Links[m]

(* However often a cycle is cut short or the history is cleared, and whatever the
   rings forget of what is out of the reach of a pull, two banners share only ids
   that were forgotten within it, unless a read failed or two processes were at work
   on the history.                                                                  *)
BannerOnce ==
  failures = 0 /\ ~overlap =>
    \A m, n \in Messages :
      (IF m = n THEN banners[m] > 1 ELSE banners[m] > 0 /\ banners[n] > 0) =>
        IdsOf(m) \cap IdsOf(n) \subseteq dropped

(* What the user has cleared does not come back, unless a process had it in a
   snapshot at that moment, its ids were forgotten while a pull could still return
   it, a read failed or two processes were at work.                                *)
ClearedStaysCleared ==
  failures = 0 /\ ~overlap =>
    \A m \in (cleared \ raced) \cap file.messages : IdsOf(m) \subseteq dropped

(* What was recorded stays recorded, itself or a message with its stable id, until
   it is cleared or trimmed, unless a read failed or two processes were at work.   *)
RecordedStays ==
  failures = 0 /\ ~overlap =>
    \A m \in recorded : \E n \in file.messages \cup cleared \cup trimmed :
      StableId(n) = StableId(m)

(* An id is a seen one only when its message, or one that it is linked to, was
   recorded: otherwise the message would be refused, and never be in the history. *)
SeenWasRecorded ==
  \A id \in ToSet(file.seen) :
    \E m \in Records, n \in recorded \cup trimmed : id \in IdsOf(m) /\ Linked(m, n)

Pushed == ToSet(list)

(* A message, or one that it is linked to, was recorded. *)
Recorded(m) == Links[m] \cap (recorded \cup trimmed) # {}

(* What a waterline may pass: a message pushed behind one that is not older, one
   that a pull had no room for, one stamped before a test message was injected.  *)
Excused(m) ==
  m \in late \cup cut \/ \E i \in Injects : stamp[i] >= stamp[m]

(* Every other message on the server is recorded or newer than all of the history:
   the next cycle asks for it.                                                     *)
NothingPassed ==
  \A m \in Pushed : Recorded(m) \/ Excused(m) \/ stamp[m] > Newest(file.messages)

(* ... and, as the service polls on, recorded in the end. *)
Delivered == \A m \in Messages : m \in Pushed ~> Recorded(m) \/ Excused(m)

(* "Remove all ... stored notifications? This action cannot be undone.": as above,
   whatever the worker was doing at that moment.                               *)
ClearIsFinal == failures = 0 => cleared \cap file.messages = {}
==============================================================================
