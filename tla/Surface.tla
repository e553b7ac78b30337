------------------------------- MODULE Surface -------------------------------
(***************************************************************************)
(* The notification page of the Shell: RemoteNotificationsViewModel, in    *)
(* three deployments, and a fourth without it.                             *)
(*   "service"  a worker service polls; the page asks it to over its       *)
(*              control pipe and reloads the history;                      *)
(*   "own"      the page polls by itself, nobody else writes the history;  *)
(*   "events"   the receiver of the Runner polls; the page presents what   *)
(*              its events name;                                           *)
(*   "writers"  worker and receiver poll, each for itself, and the user    *)
(*              clears the history at times.                               *)
(* The page runs on the UI thread: between two awaits nothing else does    *)
(* there, while other processes go on.  `ui` is where its poll or          *)
(* presentation stands; at the labels Suspended the thread is free for     *)
(* reloads and clears.  The gate of the two is held unless ui is "idle".   *)
(***************************************************************************)
EXTENDS Inbox

CONSTANTS
  Deployments,    (* of these four                                        *)
  Posted,         (* bound: sets of what is posted or injected in them    *)
  MaxHalts        (* bound: ends of the Shell, failures of the page       *)

ASSUME DeploymentsAssumption ==
  /\ Deployments \subseteq {"service", "own", "events", "writers"}
  /\ \A d \in Deployments : Posted[d] \subseteq SUBSET Records

ASSUME HaltsAssumption == MaxHalts \in Nat

VARIABLES
  mode, posted,   (* the deployment; what is posted or injected in it     *)
  ui,
  view,           (* Messages, newest first                               *)
  saved,          (* the history in the order the page has saved it       *)
  uiRing,         (* _seenIds                                             *)
  uiWater, target,  (* _waterline, and what the poll will set it to       *)
  todo,           (* what the loop has still to look at; at its awaits,
                     the head is the message being saved or published     *)
  events,         (* events of the receiver that wait for the gate        *)
  call,           (* the poll asked of the worker                         *)
  asked,          (* history: what the server had when it was asked       *)
  shown,          (* history: how often the page has published a message  *)
  unsaved,        (* history: in the view, not saved as the poll failed   *)
  skipped,        (* history: in a ring or among the saved ids,
                     the message nowhere any more           *)
  inHand,         (* history: cleared with the message still to present   *)
  hidden,         (* history: not in the view, as a clear has failed      *)
  forgotten,      (* history: ids the page forgot of what may still come  *)
  halts

page    == <<ui, view, saved, uiRing, uiWater, target, todo>>
tracked == <<shown, unsaved, skipped, inHand, hidden, forgotten>>
deployment == <<mode, posted>>
surface == <<deployment, page, events, call, asked, tracked, halts>>
inbox   == vars
allVars == <<inbox, surface>>

Suspended   == {"idle", "asked", "pull", "publish", "show"}

SurfaceInit ==
  /\ Init
  /\ mode \in Deployments /\ posted \in Posted[mode]
  /\ ui = "off"
  /\ view = <<>> /\ saved = <<>> /\ uiRing = <<>> /\ todo = <<>> /\ events = <<>>
  /\ uiWater = 0 /\ target = 0
  /\ call = "none" /\ asked = {}
  /\ shown = [m \in Messages |-> 0]
  /\ unsaved = {} /\ skipped = {} /\ inHand = {} /\ hidden = {} /\ forgotten = {}
  /\ halts = 0
------------------------------------------------------------------------------
(***************************************************************************)
(* The page and the file.                                                  *)
(***************************************************************************)
At(from, to) == ui = from /\ ui' = to

Shorten(s) == SubSeq(s, 1, IF Len(s) < MaxMessages THEN Len(s) ELSE MaxMessages)

(* A file that the page alone writes has the order it was saved in. *)
Restored(r) ==
  IF mode # "own" THEN Reverse(InOrder(r.messages))
  ELSE IF r.messages = {} THEN <<>> ELSE saved

(* A transaction of the page: what it leaves alone of the inbox. *)
Transaction ==
  UNCHANGED <<server, process, receiver, clears, stops, cleared, raced, overlap, cut, late,
              dropped, banners>>

(* Its ring, or the list in the file, has forgotten ids: of consequence where the
   page decides what is new, and may meet their message again (see Drop).         *)
PageDrops(ids) ==
  forgotten' = IF mode = "own"
               THEN forgotten \cup (ids \cap UNION {IdsOf(m) : m \in MayCome \cup ToSet(todo)})
               ELSE forgotten

(* The factory loads the history for a new page; after a failure it starts with
   none (Read with an empty result).                                           *)
Open ==
  /\ mode # "writers"
  /\ At("off", "idle")
  /\ \E r \in Readable :
       /\ Read(r)
       /\ view' = Restored(r)
       /\ uiRing' = Seeded(r)
       /\ uiWater' = Newest(r.messages)
       /\ hidden' = hidden \ r.messages
       /\ PageDrops(SeedingForgets(r))
  /\ Transaction
  /\ UNCHANGED <<file, recorded, trimmed, deployment, saved, target, todo, events, call, asked,
                 shown, unsaved, skipped, inHand, halts>>

(* Variant: the page goes on with what it had. *)
ClearFileOnly ==
  /\ ui \in Suspended
  /\ ClearMessages
  /\ unsaved' = {} /\ skipped' = skipped \cup unsaved
  /\ UNCHANGED <<deployment, page, events, call, asked, shown, inHand, hidden, forgotten, halts>>

(* ClearMessages, from a command of the user.  What the page has in hand comes
   from a history loaded before.                                               *)
Clear ==
  /\ ui \in Suspended
  /\ ClearMessages
  /\ view' = <<>> /\ saved' = <<>>
  /\ inHand' = IF ui = "show" THEN inHand \cup ToSet(todo) ELSE inHand
  /\ unsaved' = {} /\ skipped' = skipped \cup unsaved
  /\ UNCHANGED <<deployment, ui, uiRing, uiWater, target, todo, events, call, asked, shown,
                 hidden, forgotten, halts>>

(* The view is emptied before the store is asked, which may be busy or not write:
   the user is told, the page goes on.  One that polls by itself will save what it
   has from then on.                                                               *)
ClearFails ==
  /\ ui \in Suspended
  /\ halts < MaxHalts
  /\ halts' = halts + 1
  /\ view' = <<>>
  /\ hidden' = IF mode = "own" THEN hidden \cup file.messages ELSE hidden
  /\ unsaved' = {} /\ skipped' = skipped \cup unsaved
  /\ UNCHANGED <<inbox, deployment, ui, saved, uiRing, uiWater, target, todo, events, call,
                 asked, shown, inHand, forgotten>>

Filter ==
  /\ ui \in Suspended
  /\ SaveFilter
  /\ UNCHANGED surface

(* The poll or the presentation fails: a request or a transaction throws, or the
   token is cancelled.  Or the Shell ends.  The rest of the loop is not done; what
   the failure kept from the file is noted.                                       *)
Halt(to) ==
  /\ halts < MaxHalts
  /\ halts' = halts + 1
  /\ ui' = to
  /\ todo' = <<>>
  /\ call' = IF ui = "asked" \/ to = "off" THEN "none" ELSE call
  /\ asked' = IF ui = "asked" \/ to = "off" THEN {} ELSE asked
  /\ IF to = "off"
     THEN /\ events' = <<>> /\ uiRing' = <<>> /\ uiWater' = 0 /\ target' = 0
          /\ view' = <<>>
          /\ unsaved' = {}
          /\ skipped' = skipped \cup unsaved \cup (IF ui = "messages" THEN {Head(todo)} ELSE {})
     ELSE /\ UNCHANGED <<events, uiRing, uiWater, target, view, skipped>>
          /\ unsaved' = unsaved \cup (IF ui \in {"ids", "messages"} THEN {Head(todo)} ELSE {})
  /\ UNCHANGED <<inbox, deployment, saved, shown, inHand, hidden, forgotten>>

Fail == ui \notin {"off", "idle"} /\ Halt("idle")
Close == ui # "off" /\ Halt("off")
------------------------------------------------------------------------------
(***************************************************************************)
(* Deployment "own": PollAsync without a service.                          *)
(***************************************************************************)
StartPoll ==
  /\ mode = "own"
  /\ At("idle", "pull")
  /\ UNCHANGED <<inbox, deployment, saved, view, uiRing, uiWater, target, todo, events, call, asked,
                 tracked, halts>>

(* Variant: the waterline moves with the answer. *)
PulledAndMoved ==
  /\ At("pull", "accept")
  /\ todo' = Answer(uiWater)
  /\ cut' = cut \cup LeftOut(uiWater)
  /\ target' = IF todo' = <<>> THEN uiWater ELSE Newest(ToSet(todo'))
  /\ uiWater' = target'
  /\ UNCHANGED <<server, file, process, receiver, bounds, recorded, trimmed, cleared, raced,
                 overlap, late, dropped, banners, deployment, saved, view, uiRing, events, call, asked,
                 tracked, halts>>

Pulled ==
  /\ At("pull", "accept")
  /\ todo' = Answer(uiWater)
  /\ cut' = cut \cup LeftOut(uiWater)
  /\ target' = IF todo' = <<>> THEN uiWater ELSE Newest(ToSet(todo'))
  /\ UNCHANGED <<server, file, process, receiver, bounds, recorded, trimmed, cleared, raced,
                 overlap, late, dropped, banners, deployment, saved, view, uiRing, uiWater, events, call,
                 asked, tracked, halts>>

(* TryAccept refuses a message: on to the next. *)
Refuse ==
  /\ ui \in {"accept", "present"}
  /\ todo # <<>> /\ Duplicate(uiRing, Head(todo))
  /\ uiRing' = RememberIds(uiRing, Head(todo))
  /\ todo' = Tail(todo)
  /\ PageDrops(Forgets(uiRing, <<Head(todo)>>))
  /\ UNCHANGED <<inbox, deployment, saved, ui, view, uiWater, target, events, call, asked, shown,
                 unsaved, skipped, inHand, hidden, halts>>

(* Variant: an accepted message is not remembered. *)
AcceptUnremembered ==
  /\ At("accept", "ids")
  /\ todo # <<>> /\ ~Duplicate(uiRing, Head(todo))
  /\ view' = <<Head(todo)>> \o view
  /\ \E r \in Readable : Read(r) /\ file' = r
  /\ Transaction
  /\ UNCHANGED <<recorded, trimmed, deployment, saved, uiRing, uiWater, target, todo, events, call,
                 asked, tracked, halts>>

(* It is accepted, put on top of the view, and its label saved. *)
Accept ==
  /\ At("accept", "ids")
  /\ todo # <<>> /\ ~Duplicate(uiRing, Head(todo))
  /\ uiRing' = RememberIds(uiRing, Head(todo))
  /\ view' = <<Head(todo)>> \o view
  /\ \E r \in Readable : Read(r) /\ file' = r
  /\ PageDrops(Forgets(uiRing, <<Head(todo)>>))
  /\ Transaction
  /\ UNCHANGED <<recorded, trimmed, deployment, saved, uiWater, target, todo, events, call, asked,
                 shown, unsaved, skipped, inHand, hidden, halts>>

(* Variant: the ids are saved, the message is not. *)
SaveIdsOnly ==
  /\ At("ids", "publish")
  /\ \E r \in Readable : Read(r) /\ file' = [r EXCEPT !.seen = uiRing]
  /\ Transaction
  /\ UNCHANGED <<recorded, trimmed, deployment, saved, view, uiRing, uiWater, target, todo, events,
                 call, asked, tracked, halts>>

(* SaveSeenMessageIds before PersistMessages *)
SaveIds ==
  /\ At("ids", "messages")
  /\ \E r \in Readable : Read(r) /\ file' = [r EXCEPT !.seen = uiRing]
  /\ Transaction
  /\ UNCHANGED <<recorded, trimmed, deployment, saved, view, uiRing, uiWater, target, todo, events,
                 call, asked, tracked, halts>>

(* Variant: the new message alone is saved. *)
PersistNew ==
  /\ At("messages", "publish")
  /\ \E r \in Readable :
       LET kept == <<Head(todo)>>
       IN  /\ Read(r)
           /\ file' = [messages |-> ToSet(kept), seen |-> RememberAll(r.seen, Reverse(kept))]
           /\ recorded' = recorded \cup ToSet(kept)
           /\ trimmed' = trimmed \cup (ToSet(view) \ ToSet(kept))
           /\ saved' = kept
           /\ PageDrops(Forgets(r.seen, Reverse(kept)))
  /\ unsaved' = {}
  /\ Transaction
  /\ UNCHANGED <<deployment, view, uiRing, uiWater, target, todo, events, call, asked, shown,
                 skipped, inHand, hidden, halts>>

(* The view is saved, its oldest messages left out. *)
PersistMessages ==
  /\ At("messages", "publish")
  /\ \E r \in Readable :
       LET kept == Shorten(view)
       IN  /\ Read(r)
           /\ file' = [messages |-> ToSet(kept), seen |-> RememberAll(r.seen, Reverse(kept))]
           /\ recorded' = recorded \cup ToSet(kept)
           /\ trimmed' = trimmed \cup (ToSet(view) \ ToSet(kept))
           /\ saved' = kept
           /\ PageDrops(Forgets(r.seen, Reverse(kept)))
  /\ unsaved' = {}
  /\ Transaction
  /\ UNCHANGED <<deployment, view, uiRing, uiWater, target, todo, events, call, asked, shown,
                 skipped, inHand, hidden, halts>>

(* PublishAsync, awaited. *)
Publish ==
  /\ At("publish", "accept") \/ At("show", "present")
  /\ shown' = [shown EXCEPT ![Head(todo)] = @ + 1]
  /\ todo' = Tail(todo)
  /\ UNCHANGED <<inbox, deployment, saved, view, uiRing, uiWater, target, events, call, asked,
                 unsaved, skipped, inHand, hidden, forgotten, halts>>

(* The view is shortened, too: what falls off it will not be saved again.  The
   waterline moves.                                                             *)
EndPoll ==
  /\ At("accept", "idle")
  /\ todo = <<>>
  /\ view' = Shorten(view)
  /\ uiWater' = target
  /\ trimmed' = trimmed \cup (ToSet(view) \ ToSet(view'))
  /\ UNCHANGED <<server, file, process, receiver, bounds, recorded, cleared, raced, overlap, cut,
                 late, dropped, banners, deployment, saved, uiRing, target, todo, events, call, asked,
                 tracked, halts>>
------------------------------------------------------------------------------
(***************************************************************************)
(* Deployment "events": PresentPersistedAsync.                             *)
(***************************************************************************)
Receiver(p) ==
  \/ Construct(p) \/ ReceiverPull(p) \/ ReceiverLoad(p)
  \/ SaveMessages(p) \/ SaveSeenMessageIds(p)

(* The event that ends a receiver's cycle names what it has accepted. *)
Report(p) ==
  /\ SaveKnownLabels(p)
  /\ events' = IF ui = "off" THEN events ELSE Append(events, accepted[p])
  /\ UNCHANGED <<deployment, page, call, asked, tracked, halts>>

(* Where in the history the messages with an id are that is asked for. *)
Places(order, m) == {i \in DOMAIN order : StableId(m) \in IdsOf(order[i])}

(* Of each message asked for the newest of these, if there is one. *)
Present ==
  /\ mode = "events" /\ events # <<>>
  /\ At("idle", "present")
  /\ \E r \in Readable :
       LET requested == InOrder(Head(events))
           persisted == InOrder(r.messages)
           matched   == {i \in DOMAIN requested : Places(persisted, requested[i]) # {}}
       IN  /\ Read(r)
           /\ \E s \in [1 .. Cardinality(matched) -> matched] :
                /\ \A i, j \in DOMAIN s : i < j => s[i] < s[j]
                /\ todo' = [i \in DOMAIN s |-> persisted[Max(Places(persisted, requested[s[i]]))]]
  /\ events' = Tail(events)
  /\ Transaction
  /\ UNCHANGED <<file, recorded, trimmed, deployment, saved, view, uiRing, uiWater, target, call,
                 asked, tracked, halts>>

(* FindMessageById finds it in the view, or it is put on top of it and its label
   saved.                                                                        *)
ShowNext ==
  /\ At("present", "show")
  /\ todo # <<>> /\ ~Duplicate(uiRing, Head(todo))
  /\ uiRing' = RememberIds(uiRing, Head(todo))
  /\ IF \E n \in ToSet(view) : StableId(Head(todo)) \in IdsOf(n)
     THEN UNCHANGED <<view, file, failures>>
     ELSE /\ view' = <<Head(todo)>> \o view
          /\ \E r \in Readable : Read(r) /\ file' = r
  /\ Transaction
  /\ UNCHANGED <<recorded, trimmed, deployment, saved, uiWater, target, todo, events, call, asked,
                 tracked, halts>>

(* The ids the receiver has saved since the page was opened are not in its ring. *)
EndPresent ==
  /\ At("present", "idle")
  /\ todo = <<>>
  /\ view' = Shorten(view)
  /\ \E r \in Readable : Read(r) /\ file' = [r EXCEPT !.seen = uiRing]
  /\ forgotten' = forgotten \cup ((ToSet(file.seen) \ ToSet(uiRing))
                                   \cap UNION {IdsOf(m) : m \in MayCome})
  /\ Transaction
  /\ UNCHANGED <<recorded, trimmed, deployment, saved, uiRing, uiWater, target, todo, events, call,
                 asked, shown, unsaved, skipped, inHand, hidden, halts>>
------------------------------------------------------------------------------
(***************************************************************************)
(* Deployment "service": PollAsync with the client, and the observer.      *)
(***************************************************************************)
(* Variant: the history is put on top of what is shown. *)
ReloadOnTop ==
  /\ \E r \in Readable : Read(r) /\ view' = Restored(r) \o view /\ uiRing' = Seeded(r)
  /\ Transaction
  /\ UNCHANGED <<file, recorded, trimmed, deployment, saved, uiWater, target, todo, events, tracked,
                 halts>>

(* ReloadPersistedSnapshot *)
Reload ==
  /\ \E r \in Readable : Read(r) /\ view' = Restored(r) /\ uiRing' = Seeded(r)
  /\ Transaction
  /\ UNCHANGED <<file, recorded, trimmed, deployment, saved, uiWater, target, todo, events, tracked,
                 halts>>

(* ObserveServiceAsync, once a second. *)
Observe ==
  /\ mode = "service" /\ ui \in {"idle", "asked"}
  /\ Reload
  /\ UNCHANGED <<ui, call, asked>>

(* The client connects and sends its command; only one client is served at a time,
   so a cycle it has given up on is over before.                                    *)
AskPoll ==
  /\ mode = "service"
  /\ At("idle", "asked")
  /\ call' = "sent"
  /\ asked' = ToSet(list)
  /\ UNCHANGED <<inbox, deployment, saved, view, uiRing, uiWater, target, todo, events, tracked,
                 halts>>

(* Variant: the answer comes with the end of whatever cycle is under way. *)
JoinPoll(p) ==
  /\ call = "sent"
  /\ \/ Load(p)
     \/ pc[p] # "idle" /\ UNCHANGED inbox
  /\ call' = "served"
  /\ UNCHANGED <<deployment, page, events, asked, tracked, halts>>

(* HandlePoll: with the gate of the cycles, a cycle for the caller. *)
HandlePoll(p) ==
  /\ call = "sent"
  /\ Load(p)
  /\ call' = "served"
  /\ UNCHANGED <<deployment, page, events, asked, tracked, halts>>

(* The other steps of the worker; the end of a cycle is the answer to who has asked
   for it.  A pull that fails is an answer, too; an exception closes the pipe.       *)
Work(p) ==
  /\ Cycle(p) \/ Stop(p) \/ \E i \in posted \cap Injects : Inject(p, i)
  /\ call' = IF call = "served" /\ pc'[p] = "idle"
             THEN IF stops' = stops THEN "answered" ELSE "failed"
             ELSE call
  /\ UNCHANGED <<deployment, page, events, asked, tracked, halts>>

PollAnswered ==
  /\ At("asked", "idle")
  /\ call \in {"answered", "failed"}
  /\ call' = "none" /\ asked' = {}
  /\ Reload

(* The client's fifteen seconds are over: the page shows an error, the worker goes on. *)
PollTimesOut ==
  /\ At("asked", "idle")
  /\ call' = "none" /\ asked' = {}
  /\ UNCHANGED <<inbox, deployment, saved, view, uiRing, uiWater, target, todo, events, tracked,
                 halts>>
------------------------------------------------------------------------------
ServerStep ==
  /\ Tick \/ \E m \in posted \ Injects : Stamp(m) \/ Push(m)
  /\ UNCHANGED surface

ReceiverStep(p) ==
  \/ (Receiver(p) \/ Stop(p)) /\ UNCHANGED surface
  \/ Report(p)

WriterStep ==
  /\ \/ \E p \in Workers : Cycle(p) \/ \E i \in posted \cap Injects : Inject(p, i)
     \/ \E p \in Receivers : Receiver(p) \/ SaveKnownLabels(p)
     \/ \E p \in Processes : Stop(p)
     \/ ClearMessages
  /\ UNCHANGED surface

Loop ==
  \/ StartPoll \/ Pulled \/ Refuse \/ Accept \/ SaveIds \/ PersistMessages \/ Publish
  \/ EndPoll \/ Present \/ ShowNext \/ EndPresent

SurfaceNext ==
  \/ ServerStep
  \/ mode = "service" /\ \E p \in Workers : HandlePoll(p) \/ Work(p)
  \/ mode = "events" /\ \E p \in Receivers : ReceiverStep(p)
  \/ mode = "writers" /\ WriterStep
  \/ Open \/ Clear \/ ClearFails \/ Filter \/ Fail \/ Close
  \/ Loop
  \/ Observe \/ AskPoll \/ PollAnswered \/ PollTimesOut

SurfaceSpec == SurfaceInit /\ [][SurfaceNext]_allVars
------------------------------------------------------------------------------
(***************************************************************************)
(* Correctness.                                                            *)
(***************************************************************************)
SurfaceTypeOK ==
  /\ TypeOK
  /\ mode \in Deployments /\ posted \in Posted[mode]
  /\ ui \in {"off", "accept", "ids", "messages", "present"} \cup Suspended
  /\ view \in Seq(Records)
  /\ ui = "idle" /\ halts = 0 => Len(view) <= MaxMessages
  /\ uiRing \in RingOf(Ids)
  /\ {uiWater, target} \subseteq 0 .. MaxTime
  /\ todo \in Seq(Messages)
  /\ events \in Seq(SUBSET Messages)
  /\ call \in {"none", "sent", "served", "answered", "failed"}
  /\ asked \subseteq Messages
  /\ shown \in [Messages -> Nat]
  /\ halts \in 0 .. MaxHalts

(* Ids forgotten, by the receiver or the page, while their message could still come. *)
Lapsed == dropped \cup forgotten

(* However often the Shell ends, a poll fails or the history is cleared, the page
   publishes a message once, and one of those that share an id, unless a read failed
   or two processes were at work; but for those of which an id was forgotten, in a
   full ring or because the page has overwritten the list of the seen ones, while a
   pull could still return them.                                                     *)
PublishedOnce ==
  failures = 0 /\ ~overlap =>
    \A m, n \in Messages :
      \/ IdsOf(m) \cap Lapsed # {}
      \/ /\ shown[m] <= 1
         /\ m # n /\ SameIds(m, n) => shown[m] = 0 \/ shown[n] = 0

(* A click on what was published finds a message with its id in the history, unless it
   has been cleared or trimmed, under the same conditions: the page saves before it
   publishes (PollAsync), or publishes what it has loaded (PresentPersistedAsync).  After
   a clear that failed, the page saves its empty view over what it was to remove.         *)
ClickFinds ==
  failures = 0 /\ ~overlap =>
    \A m \in Messages : shown[m] > 0 =>
      \E n \in file.messages \cup cleared \cup trimmed \cup hidden : StableId(n) = StableId(m)

(* Between its polls, a page that polls by itself shows the history and nothing else.
   A failed poll may leave something in the view that is not saved, or that should be
   trimmed; until the next message is saved, it may take the place of one that is.  A
   failed clear leaves the view empty beside the history it was to remove.             *)
InStep ==
  mode = "own" /\ ui = "idle" /\ failures = 0 =>
    /\ unsaved = {} => file.messages \subseteq ToSet(view) \cup hidden
    /\ ToSet(view) \subseteq file.messages \cup unsaved \cup (IF halts = 0 THEN {} ELSE trimmed)

(* Such a page will ask for every message on the server that it has not recorded, but
   for those its ring refuses: saved as seen and lost, or never saved by a failed poll;
   and for one with the stamp of another, if the Shell ends between the two.            *)
PageMissesNothing ==
  mode = "own" /\ ui # "off" /\ failures = 0 =>
    \A m \in ToSet(list) :
      \/ Recorded(m) \/ Excused(m)
      \/ stamp[m] > uiWater
      \/ halts > 0 /\ \E n \in Messages \ {m} : stamp[n] = stamp[m]
      \/ \E n \in skipped \cup unsaved : Linked(m, n)

(* So will a worker, beside a page or a receiver with a waterline of its own. *)
WorkerMissesNothing == mode \in {"service", "writers"} => NothingPassed

(* A refresh the worker has answered shows all the server had when it was asked for:
   whatever cycle was under way, the answer is that of a later one.                  *)
RefreshIsFresh ==
  [][PollAnswered /\ call = "answered" /\ failures' = 0 =>
       \A m \in asked :
         \/ Excused(m)
         \/ \E n \in ToSet(view') \cup cleared \cup trimmed : Linked(m, n)]_allVars

(* What the user has cleared comes back neither to the page nor to the history,
   unless a snapshot or a presentation had it in hand, or all its ids were forgotten
   while a pull could still return it.                                              *)
ClearedStaysAway ==
  failures = 0 /\ ~overlap =>
    \A m \in cleared \ (raced \cup inHand) :
      \/ m \notin file.messages /\ (ui = "off" \/ m \notin ToSet(view))
      \/ IdsOf(m) \subseteq Lapsed
==============================================================================
