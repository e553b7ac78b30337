# Remote Notifications: a TLA+ development

The repository carries notifications from a development machine to a desktop: hook
scripts put a message into a persistent queue, a background worker sends it to an HTTP
server, and pollers on the desktop pull it, record it and show it. The same product hosts
modules whose commands it streams to its clients. This directory holds
TLA+ specifications of these, the TLC runs that check them on small instances and
the TLAPS proofs of their safety properties.

## 1. The system

    hook script -> notification_queue -> send_notification -> HTTP server (Flask + Redis)
                                                                 |  GET /pull, GET /notification
               toast <- history store <- worker service / Shell / receiver / PyQt page

| Component | State it keeps | Operations | What is hard |
|---|---|---|---|
| Hook queue, `py_modules/notification_queue.py` | directories `pending/ inflight/ failed/ dedupe/`, `worker.lock` | `enqueue`, `worker_loop` | several hook processes and spawned workers on one directory tree; every file operation may be the last one of a process; retries and backoff |
| Sender, `send_notification.py`, `simple_http_notification_sender.py` | none | format and `POST /notification` | times out in the queue while the server still serves the request |
| HTTP server, `simple_http_notification_server.py` | in Redis: the list of a channel, a dedupe key per `client_msg_id`, the lock of the long polls | `POST /notification`, `/sms`, `GET /pull`, `GET /notification`, `GET /clear`, nightly flush | concurrent requests, one Redis command at a time; walking a list by index while it is pushed to; lock timeouts |
| Worker service, `RemoteNotifications.Service/Program.cs` | settings, poll state; the history file | poll cycle, `inject`, control pipe | load, pull for seconds, save; crash between save and banner |
| History store, `RemoteNotificationsLegacyStore.cs` | `history.json`: messages (500), seen ids (5000), labels, filter | read-modify-write under a named mutex | two processes with snapshots; unreadable file; mutex timeout |
| Seen-id ring, `RemoteNotificationSeenIdRing.cs` | bounded FIFO and set | `TryAccept`, `Remember` | eviction |
| Surface view model, `RemoteNotificationsViewModels.cs` | messages, seen ring, waterline | poll, present, reload, clear | interleavings at awaits |
| Activation forwarding, `RemoteNotificationActivationService.cs` | one pipe instance, pending launches | forward, serve, coordinate | success reported before the receiver has read |
| Runner receiver, `RemoteNotificationBackgroundReceiver.cs` | waterline in memory | poll | waterline moved before the save |
| Command host, `AndroidTools.Powertoold/Program.cs`, `AndroidToolsModules.cs` | cancellation sources by invocation id, output buffers | stream, cancel | lookup, dispose, overwrite races |
| PyQt page, `powertool/page1.py` | the predecessor of the worker | poll thread, signals | waterline and queued signals |
| Not part of the product's core | Android performance and trace tooling, views, toast COM calls, build scripts, earlier Shell copies of the surface | | |

What makes each correct, in short. Queue: one worker, no item lost, one send per item but
for crashes, one item per content and window, every item eventually settled. Server: an id is accepted once,
an answer "duplicate" is true, a pull returns what is there, a long poll returns a message
once and is always answered. Worker, store, ring and view model: each message reaches the
history once and its banner once; no save undoes another's; the page shows what the history has. Activation: a
click is met once. Commands: a cancellation reaches the stream it names and ends its process, every stream ends, and what it
says of truncation is so.

## 2. Modules

| Module | Models |
|---|---|
| `NotificationQueue` | the hook queue, all of `enqueue` and `worker_loop` |
| `Outbox` | what the queue promises: an accepted item stays outstanding until it was delivered or given up on |
| `NotificationServer` | the server's posts, pulls, long polls, clear and flush, for one channel |
| `SeenIds` | the ids of a message and the bounded ring of seen ids, as operators |
| `Inbox` | `history.json` and everything that writes it: the worker service, the receiver of the Runner, the Shell; extends `SeenIds` |
| `Surface` | the Shell's notification page, composed with `Inbox` in four deployments |
| `Activation` | launches of the Shell's executable: mutex, forwarding through the pipe, detail windows |
| `CommandStream` | streamed commands of the module host and their cancellation |
| `MC...` | messages, launches, line counts and symmetry sets for TLC |
| `NotificationQueue_proofs`, `NotificationServer_proofs`, `SeenIds_proofs`, `InboxIds_proofs`, `Inbox_proofs`, `Surface_proofs`, `Activation_proofs`, `CommandStream_proofs` | theorems |

### NotificationQueue

A process `p` is one run of `enqueue` (`hpc[p]`) and, after `start_worker`, one worker
(`wpc[p]`). The item it stores is called `p` too: its file name is the creation instant
in nanoseconds and the content's hash, so that `pending[p]` and `inflight[p]` are the two files
it may have. A file is its `attempts` and `next_attempt_at`, or `NoFile`; the content and
`created_at` never change after the store and are functions of the run. `marker[c]` is the
dedupe file of a content: who created it and its expiry, `Unwritten` between `os.open` and the write.

Each file operation, clock reading and send is an action. `TakeLock` is `flock(LOCK_NB)`, or
`O_EXCL` when `HasFcntl` is false; `WorkerDies` frees the lock only in the first case.
`SendOk` and `SendFails` are the outcomes of `send_item`: an exit status, a timeout, an exception.
A hook or a worker may die before any of its steps (`MaxCrashes`).

Abstractions. A process reads a file's content and replaces it atomically (`_atomic_write_json`
writes a temporary file and renames it), so files with invalid JSON and `_move_bad_item` do not
arise, nor does a listed file vanish, as only the worker with the lock moves files (`WorkerInv`
proves it). A restore refused by the file system is left out. A read of a marker counts one
that is not written yet as unreadable, as the JSON parser does. Markers, the logs and `_log` have no
other effect. `wake` is capped by the clock's bound.

### NotificationServer

Every Redis command is an action: `Reserve`/`AnswerDuplicate` are `SET NX`, `Push` is
`LPUSH`, `StartPull` is `LLEN`, `PullNext` one `LINDEX` with the comparison of its stamp,
`AcquireLock`/`Unlock` the Redis lock, `Mark` is `LSET`, `Clear` is `DEL`, `StartFlush` is
`KEYS` and the `Flush...` actions the deletions that follow. `stamp` is the server timestamp, taken on
arrival. A list entry is the post it came from, its stamp and the clients it was sent to.
A post without `client_msg_id` has `NoId`. `PostFails` and `PollDies` end a request between
two commands: a Redis error, or the end of the process.

Abstractions. One channel (no operation touches two). Authorisation is decided before any
command. An expiry (a day for a key, five seconds for the lock) may come at any time:
every order of events that some speeds of the processes allow is included. A long poll's
wait between rounds is no step. FCM and UnifiedPush forwards run in threads of their own after
the push and touch nothing here. Legacy tuple records are converted on reading and have the same
fields as far as these operations tell them apart.

### SeenIds and Inbox

A message is what tells it apart: the id it was given (or `Blank`) and the hash of its channel, text, icon and
time. `StableId` and `FallbackId` are the two ids the code derives; either of them in the ring makes the message
a duplicate. `Remember` is the ring of the pollers, `StoreRemember` the list of the history store, proved
to be the same. `Forgets` are the ids that drop out of a ring while a batch goes through it.

In `Inbox`, `file` is `history.json`: the messages and the seen ids. Each transaction (`Load`, `SaveMessages`,
`SaveSeenMessageIds`, `SaveKnownLabels`, `SaveFilter`, `ClearMessages`) runs under the named mutex and is one step.
The cycle of a process runs through the labels of `pc`:

    worker    idle --Load--> pull --Pull--> save -> saveIds -> labels --> banner (Show, one by one) -> idle
              idle --Inject--------------> save -> saveIds -> labels --> idle
    receiver  new --Construct--> idle --ReceiverPull--> load --ReceiverLoad--> save -> saveIds -> labels -> idle

`snap`, `ring` and `accepted` are the local variables `snapshot`, `seen` and `accepted` of
`RunOnePollCycle` and `PollAsync`; `waterline` and `got` are the receiver's field and its unprocessed answer. The
lock `pollGate` makes the cycles and the injections of one worker exclude each other, hence one `pc` for both. `Read` gives
the file or, when `ReadFileStateUnsafe` catches an exception, an empty state. `Stop` stands for every way a
cycle ends early: a failed pull, a mutex not had in ten seconds, an exception, the end of the process (an abandoned
mutex is taken over by the next one, as the code does). A receiver that stops is built anew with a
waterline from the store.

The server is its list here, with stamps taken before the push (`Stamp`, `Push`), and a pull is
one step: what interleaves inside a pull is in `NotificationServer`. `Sent` is what the server answers, the `Limit`
messages pushed last of those newer than the asker's waterline; `Answer` is what the poller keeps of it, `InOrder` the order of time in which it
goes through it.

A ring that refuses a message remembers both of its ids all the same. So the next message may be refused for an id that only a refused one has
brought, and the properties cannot say that a seen id is that of a recorded message: it is that of a message `Linked` to a recorded one by a chain of
shared ids. Three messages in a chain (the first two share an id of the server, the last two a content) are enough for the difference.

A ring holds 5000 ids, two for each message, and the server's list is not trimmed. So an id may be forgotten while a pull can still return its message: after a clear
the waterline is back at zero, and the newest `Limit` messages of the list come again. `MayCome` are the messages of which that can be said - not yet on the server, among the `Limit`
pushed last of those as new as they are (`InReach`), a test message still to be injected, or in a receiver's unprocessed answer - and `dropped` are the ids that a ring forgot of such a message (`Drop`). What else is
forgotten has no effect, which `BannerOnce` and `ClearedStaysCleared` say by naming `dropped` as their only exception of this kind.

Abstractions. The history's messages are a set, since the code sorts them by time before every use; messages of one time are ordered arbitrarily (`InOrder`).
Labels and the filter are left out, their transactions kept, since they write back what they have read. Not modelled:
the first import from the registry and messages dated more than two minutes ahead (`IsSane`).

### Surface

`Surface` extends `Inbox`: its steps are those of the processes of `Inbox`, some with an effect on the page, and those of
the page, each a transaction of the store or a stretch of the UI thread between two awaits. `mode` is the deployment, fixed by the initial
state with `posted`, what the server will get:

- `service`: a worker service runs; the page asks it for a poll over the control pipe (`AskPoll`, `HandlePoll`, then the cycle in `Work`, then
  `PollAnswered` or, after fifteen seconds, `PollTimesOut`), and `Observe` reloads the history once a second;
- `own`: no service client; `PollAsync` pulls by itself (`StartPoll` ... `EndPoll`), as the tests and the earlier copies under the Shell do (the production factory
  always passes a client);
- `events`: the Runner's receiver polls, and the page presents what its events name (`Present`, `ShowNext`, `Publish`, `EndPresent`);
- `writers`: no page, a worker and a receiver on one history.

`ui` is where the poll or presentation stands; the gate of the two is held unless it is `idle`. `view`, `uiRing` and `uiWater` are `Messages`, `_seenIds` and
`_waterline`. Between awaits nothing else runs on the UI thread, but other processes do, so the transactions of one stretch are
steps of their own (`Accept` saves the label, `SaveIds`, `PersistMessages`). At the awaits, `Suspended`, reloads and clears come in. `Fail` is an exception of any request or transaction of a poll or a presentation, or a cancelled token; `ClearFails` a clear whose
store call throws - the view is empty by then, and `MptCommandFaultBoundary` lets the page go on beside a full history; `Close` the
end of the Shell. `MaxHalts` bounds the three together. After a close, `Open` loads the history for a new page.

What the code does here, and the properties name: the seen ids are saved before the message, so that an end between the two leaves a message refused
and never recorded (`skipped`); a poll that fails leaves messages in the view that are not saved, or not trimmed, until the next one is saved
(`unsaved`, and the last conjunct of `InStep`); a clear that fails hides what is still in the history, until the page's next save replaces it (`hidden`); the ring of a page that polls by itself
forgets ids as that of the worker does; a presentation ends by replacing the file's seen ids with the ring of the page, without those the receiver has saved since. After
a clear and a restart of the receiver, such a message may be accepted and shown again. `forgotten` has the ids lost in these two ways while their message could still come, `Lapsed` those of the inbox (`dropped`) as well.

Abstractions. Labels, the filter's contents and commands of the view are left out. The order of the file matters to a page that polls by itself, and `saved` keeps it from the last save to the next `Open`. What `EndPoll` drops from the view is counted as `trimmed`: it will not be saved again.
Not modelled: a page's own poll beside a receiver, presentations beside the observer.

### Activation

A launch `l` is one process of the executable, started by a click (`Wants[l]` is a message) or plainly (`Nothing`). `Acquire` is the mutex; the loser runs `ForwardAsync`: `Connect`, `Write`, `Flush` (the client is disposed: `told` is what is
returned), `Broken` for an `IOException` and the next attempt, `GiveUp` when the two seconds are over. The winner's `Start` opens its own window or leaves that to
`OpenInitial`; the loop of the pipe is `Create`, `Receive`, `Handle`. A request is met (`Meet`) when its message is found (`Find`: a window, or `missed`
when the history has no such message), or its load of the history fails (`LoadFails`): the history is busy and the exception ends in the loop's `catch`, or the file cannot be read and counts as empty. The launch is then
in `failed`, though it may have been told of success. `Flush` does not need the Shell's end: a client that is disposed does not notice that it is gone. `End` is the end of the Shell, with mutex, pipe and windows in one
step, `Killed` that of a forwarder, `Forget` a clear or trim of the history.

The executable's `Main` is not in the repository; a test
(`RemoteNotificationsProduct.Tests.cs`, 530-540) names its calls. Left out: the parsing of the launch URI, failures of `CreateServer`.

### CommandStream

A call `c` is one `ExecuteCommandStream`: `rpc[c]` is its handler, `main[c]` the task of `RunShellCommandStreamAsync`, `proc[c]` the process, `pump[c]` the two readers
of its pipes, `queue[c]` the bounded channel between them and the handler (entries past `Capacity` belong to writers that wait for room). `registry` is
`_commandCancellations`; a cancel request is `LookUp`, then `Cancel`. `Leave` is the handler's `finally`; `KillProcessTree` with the terminal event is what an
interruption leads to; `lineEvents` and `told` are the shared `ShellStreamEventLimiter`.

What the code does here: a cancelled stream's terminal event `cancelled` is written but seldom reaches the client, as `ReadAllAsync` throws first; when
the command has run out of time, a line may follow its terminal event; a producer whose handler is gone and whose channel is full waits for ever to write
its terminal event (the named exception of `ProducerEnds`); a second stream with the same id takes over the first one's registration, and the first to end
removes it (the exception of `RegistryTracks`).

Abstractions. Of an event only its writer and kind, of a line only that it was read; the line and output limits of `BoundedShellOutput` are the number of lines a pipe
keeps (`Kept`). Linked sources are cancelled in the step of the source. A command that does not run in a shell is its registration and one event that is not represented. Not
modelled: faults of a pump's read, and the unary `RunShellCommandAsync`.

## 3. Runs

| Run | Instance | Checks |
|---|---|---|
| `queue_safety` | 2 hook runs with their workers, equal or different contents, clock 0..2, one crash anywhere, symmetric | all safety properties of the queue and `ImplementsOutbox` |
| `queue_live` | 2 runs of one content, clock 0..1, one crash, fairness | `WorkerDrains` |
| `queue_stranded` | 2 runs, no crash, fairness | `QueueDrains`: violated |
| `queue_backoff` | 1 run, clock 0..4 | `RetryBacksOff`: violated |
| `server` | 3 posts (two ids or none) and 1 pull, limit 2; or 2 posts and 3 long polls of one round, 2 clients; clock 0..1, one wipe, one failure | the types, `AcceptedOnce`, `DuplicateHasOriginal`, `PullMissesFew`, `OncePerClient`, `MarkedIsReturned` |
| `server_live` | 1 post, 2 long polls of one client, fairness | `PollsAnswered` |
| `server_pull_race` | 2 posts, 1 pull, nothing else | `PullReturnsAll`: violated |
| `inbox_worker` | 3 messages, two of one content; 1 worker; ring of 4, history of 2, pull limit 2, clock 1..3; one clear or filter change, one failed read, one stop; fairness | `BannerOnce`, `ClearedStaysCleared`, `RecordedStays`, `SeenWasRecorded` and `Delivered` |
| `surface` | the four deployments, 2 or 3 of 5 messages in each (one without an id, two of one content, a test message); ring of 4, history of 2, pull limit 2, clock 1..2; one clear or filter change, one stop, two halts | the types, and what holds of page and history together |
| `inbox_clear_undone` | 2 messages, 1 worker, one clear | `ClearIsFinal`: violated |
| `activation` | 4 launches: a plain start, two for one message, one for another; two deaths, one load that fails; fairness | `MetOnce`, `ReportedIsMet` |
| `commands` | 1 shell command with a line too long on stdout, two lines on stderr, line limit 2, channel of 1; 1 call of the same id, 1 cancel request, a client that leaves, a failed write; fairness | the types, the three safety properties of streams, `CancelStops`, `StreamEnds`, `ProducerEnds` |

Bounds. Every interaction of the queue is between a hook and a worker, two hooks or two
workers, which two runs give; two items are enough for a worker to hold one and list the
other. The clock has room for a marker to expire (`DedupTTL` 1), a retry to become due
(`BackoffMax` 1, with a base above it so that the first retry is capped already) and an item to
become too old (`MaxAge` 2). With `MaxTime` 2 and one crash the state space takes TLC about a minute. For
the server, three posts are needed for one to be pushed while a pull walks over two others, and two
of them may share an id. Three long polls are needed for one that lost the lock to overwrite the mark of
a second, so that a third gets the message again; the rounds of a poll and messages that
become stale (`FreshFor` 0 makes one stale after a tick) are in `server_live`.
`CHECK_DEADLOCK` is off: hooks, requests and the bounded clock do come to an end.

For the inbox, three messages have five ids, one more than the ring of `inbox_worker` holds, and one more than the
history keeps, so that both overflow; one pull may leave one out. The clock has an instant for each message. The rings of
`inbox_worker` and `surface` forget, too: they have 4 places for five ids and more. Four are the ids of one whole answer of the server (`Capacity = 2 * Limit`; the code has 5000 for a limit of 20). With the ring of 4 the exception `dropped` is not
needed: `inbox_worker` and `surface` hold without it, `surface` not without `forgotten`. With rings of 3 and 2 the properties of both runs hold as well, and without `dropped`
TLC finds a message shown or published again (`BannerOnce`, `PublishedOnce`) and a cleared one back (`ClearedStaysCleared`, `ClearedStaysAway`); with the ring of 4 it takes two test messages, injected before the clear, that push the ids of a message out.

In `surface`, each deployment has the messages its cases need (`PostedIn`): the page alone gets one more than the history keeps, or two that share an id; the receiver's events
get both at once; the worker beside a page or a receiver gets one with and one without an id, or a test message. One clear and one stop
are enough for a clear and the restart of the receiver in one behaviour, which every exception named in the properties needs; with two halts a poll or a clear may fail
and the Shell end after it, or a page be opened on what an earlier end has left. The run has 2.7 million states and takes two to three minutes.

In `activation`, four launches make one Shell with a forwarder connected and another waiting, and a Shell after it; two deaths make three
Shells, or a Shell and a forwarder that dies. One load of the history fails (`MaxFaults`). In `commands`, one line more than `MaxLineEvents` between the two pipes, a pipe that is
truncated and one that is not, and a channel smaller than the number of writers give all the waiting there is. The constraint `FewDisturbances` allows fewer
disturbances the more lines are written: it cuts only steps of the environment that are under no fairness (a client that leaves, a
failed write, a request, a second call), so that every state keeps the steps the liveness properties rely on.

Conditions in the properties name what the code does not protect against, and history
variables record it. For the inbox: `overlap` (two processes had an unsaved snapshot at a time; nothing in the code
excludes it, and the later save then drops what the earlier one has recorded), `failures` (a transaction read an
unreadable file as an empty one and wrote that back), `raced` (a clear while a snapshot was unsaved), `trimmed`, `late` (pushed behind a message that is not older,
so that the waterline may be past it), `cut` (left out by a pull's limit) and the stamps of test messages, which move the waterline by the
desktop's clock, and `dropped` (above). For the page: `forgotten`, `skipped`, `unsaved`, `hidden` (above), `inHand` (cleared while a presentation had it in hand) and `halts`. For the queue and the server: `stolen` (a cleanup unlinked a marker in force), `forgotten` (a dedupe
key expired or was flushed), `wiped`, `shifted` (an `LSET` hit another message than the one
read), `lockLost`, `crashes`, `failures`. For `Activation`: `missed`, `lost` (the Shell ended with the request in hand), `failed`. Each is needed: without it TLC finds the property violated
on an instance of this size (`overlap` of `RecordedStays` with two writers, `dropped` with a ring of 3), but for `shifted` in `PullMissesFew`, which takes a long poll beside the pull (2 posts,
1 pull with limit 3, 1 poll, one wipe: the property holds there, and fails without the condition).

Fairness. In the queue, every started process runs on (`WF(Enqueue(p))`, `WF(Work(p))`:
operating system processes) and time passes (`WF(Tick)`); no hook need start, and a send need never
succeed, as `SendFails` satisfies the worker's fairness as well. In the server, a request
received is served on, and the lock's timeout runs out, which Redis sees to. No fairness is
assumed of clients, crashes, wipes or key expiry. In the inbox, the worker's loop goes on after whatever ended a
cycle (an exception is caught, a dead service is started again): `Fairness` says that it always takes another step. A step of
its cycle is possible in every state, so this is its weak fairness; it is written without ENABLED, which TLC
evaluates slowly on these actions. Stops are bounded, as a service that dies in every cycle delivers nothing. In `Activation`, the loop of the pipe, the
Shell's start and a forwarder's attempts go on (`WF` of `Serve`, `OpenInitial`, `Start` and `Client`); nobody need start, die or close a window. In `CommandStream`, the tasks of the host go on and its timer
runs out (`WF` of `Handle`, `Produce`, `Pump`, `TimeOut`); neither need the process end, nor its pipes, nor does anyone cancel. `Surface` has safety properties only.

### Findings

1. `QueueDrains`. The worker reads the directory, finds nothing and leaves; the lock is released
   a moment later. An item stored in between has a worker started for it that finds the lock held
   and quits. The item stays in `pending/` until another hook runs. `WorkerDrains` states what does
   hold: a worker that has not decided to leave settles every pending item.
2. `RetryBacksOff`. The retry time counts from the start of the batch, so after a send longer than
   the backoff the retry is immediate.
3. `PullReturnsAll`. A push during a pull shifts the list under its index, and the pull misses its
   oldest message. `PullMissesFew` states what does hold: no more are missed than were
   pushed meanwhile. A poller whose waterline passes the missed message never gets it.

4. `ClearIsFinal`. A poll cycle loads the history, pulls for up to three requests of fifteen seconds, and saves
   its snapshot with what is new. A clear in between is undone, after the dialog has said that it cannot
   be. `ClearedStaysCleared` states what does hold: what no process had in an unsaved snapshot does not come back.

Each run's `about` in PROJECT.json, and the finding's quotation there, give the lines.

## 4. Proofs

`NotificationQueue_proofs` proves, for every set of processes and contents, every number of
crashes and every value of the time parameters, the invariants of `queue_safety`, its action
property `DedupWindow` and the refinement of `Outbox`. The argument is one inductive
invariant `IInv`, the conjunction of

- `TypeOK`;
- `WorkerInv`: a worker at work holds the lock; what is in flight is what it holds, or is still
  to be restored; what it has listed is still pending; it unlinks a file only when the item has
  another trace. `SingleWorker` and `OneInflight` alone are not inductive, since without the lock
  a second worker could be anywhere;
- `ItemInv`: `NothingLost`, and an account of sends against deaths per file: a file whose item is
  settled is about to be unlinked unless a process died;
- `MarkerInv`: whoever created a marker is on its way to the store, and the marker stands until its
  window is over unless it was stolen.

`BackoffBounded` and `RetryIsItem` are the facts about data; `WorkerStepInv`, `ItemStep` and `MarkerStep` carry the
three parts over a step, one case per action. `StepRefines` maps each step to one of `Outbox` or to
a stutter: `StoreItem` is `Accept`, `SendOk` is `Deliver`, `GiveUp` is `Expire` and `UnlinkInflight`
is `Retire`, unless the retry record keeps the item outstanding. The assumptions are those
named in the module (`ProcsAssumption`, `TimeAssumption`, `NoFileAssumption`); TLC evaluates
them in every run.

`NotificationServer_proofs` proves `SInv`, that is `TypeOK` (cut into five parts, each with a frame
lemma) and `DedupeInv`: an accepted post holds the dedupe key of its id unless the key was
forgotten, and a key is held by a post that was accepted, or that failed after reserving it. From it follow `AcceptedOnce` and
`DuplicateHasOriginal`.

The same module proves what the readers get, from `ReadInv`. For the long polls it says that the holder of the lock is alone until a lock is lost (`LockInv`),
that what is in the list or was read from it is a stored post, there once unless a mark hit another message (`ListInv`), that a poll about to mark has the marks
of the list and lacks its own, which the list has once it was made (`MarkInv`: hence `OncePerClient`), and that each mark, in the list or in the record a poll is about to
write back, is that of a poll that returns the message (`ReturnInv`: hence `MarkedIsReturned`, also after a mark hit another message). For the pulls, `PullInv` follows the messages
that were there at the start: each push moves them on by one index, towards those the walk has still to read, so that it has read what lies behind its index, and what it
misses is beyond the length it began with (`WalkedMissesFew`): one message for each push at most. The polls' part needs `NothingAssumption` (no record is the absence of one).

`SeenIds_proofs` proves what one step of the ring guarantees, for every capacity: the two implementations are the
same function, only the oldest id is forgotten, the ring keeps its bound without repetitions. `BatchKeepsRing` says the same of a whole batch, `BatchIsKeptOrForgotten` that each id of the ring or the batch is in the ring afterwards or in `Forgets`. A batch is
a fold, which the community modules define by recursion; the library's induction theorems cannot be used, so the induction is by the least number for which the claim
fails (`LeastElement`, from the well-foundedness of the naturals), over the prefixes of the batch (`FoldOfSets`, `FoldOfPrefixes`, `RememberAllSteps`).

`Inbox_proofs` proves two invariants for every set of processes and messages and every bound. `ShownIsRecorded` needs
`HeldIsRecorded`: what a process still holds after its first transaction was recorded or cut. `RecordedStays` needs
`OneSaver` (without overlap, at most one process is between load and save) and `SnapCovers` (its snapshot is
not behind the file), since a save replaces the file by the snapshot.

It also proves `BannerOnce` and `ClearedStaysCleared`, for a ring of any capacity. The argument is that what can still come only gets less: `NextOnward` shows that no step adds to `MayCome` (a push brings a message that
had not been pushed, and moves others out of reach; a clear lowers the waterline, but `InReach` does not depend on it) or takes from `dropped`. An id is `Gone` when it is in `dropped` or no message that may come has it, and so it stays. `KnownInv` says that of whatever is in the history,
was cleared or is held, each id is in the ring or the seen ids of the file, or `Gone`: a ring that forgets an id makes it so (`DroppedIsGone`), and a pull brings only messages that may come, of which an id that is not seen is then in `dropped`. `KnownInv` takes the set of ids that a page has
overwritten as a parameter, empty here. `BannerInv` says that each id of what was shown is seen or `Gone`, and that what a process has still to show shares with it only ids in `dropped`. `BatchIsKeptOrForgotten` is the fact about the ring they need.

`InboxIds_proofs` proves the rest of what holds of `Inbox` for messages, processes and bounds of any number; in particular the chains of linked messages may
be longer than any that the runs have.

- `TypeInv` gives the types of `Inbox`: the rings and the history keep their bounds. `InOrderSorts` is the fact it needs of an answer: the sequence chosen
  runs through the set, each message once.
- `SeenInv` gives `SeenWasRecorded`: whatever ring a process holds, in memory or on file, knows only ids of messages linked to one that was recorded or that
  the process carries and has still to save (`Known`, `Carried`).
- `PassInv` gives `NothingPassed`, which `surface` checks as `WorkerMissesNothing`. A waterline moves to the newest message of an answer, of a snapshot or of the file, so
  the invariant says of each of these, and of each receiver's waterline, that nothing pushed is left behind it (`NoGap`): it was recorded, is
  excused, or is in the process's hands. `World` says how a step may change the server and what was recorded; the `...World` lemmas show that every step does no more,
  and `WorldLeaves` that this opens no gap.

`Surface_proofs` proves the properties of `surface`, for every set of messages and processes, every deployment and every bound. `PageInv` gives the types; `InboxStep` says what a step
of the page is to the inbox: a step of `Inbox`, a look at the history (`Glance`), a transaction that saves a label or the page's ring (`Rewrite`), or, of a page that polls by itself, a pull, a save of its messages or the end of its poll. So the invariants of the inbox hold on beside a
page that only reads, and each deployment adds its own:

- `own`: `OwnFile` and `OwnView` (file and view differ by what a failed poll left) give `InStep`; `OwnRing`, `OwnSeen` and `OwnShown` (its ring knows what was seen and is not `Past`; what was published is seen and kept) give the page's part of
  `PublishedOnce`, `ClickFinds` and `ClearedStaysAway`; `OwnKnown` and `OwnPassed` (the waterline, the message in hand and the rest of the answer leave nothing behind but what is `Held` or `Waived`) give `PageMissesNothing`;
- `events`: `FarInv` is `StaysInv` and `KnownInv` with the overwritten ids `forgotten` as its parameter; `EventsView` says of the page's ring and view what `OwnSeen` says of a page by itself, `Shelf` that
  what was published, or is to be, was recorded and has not been lost. `EventsOnce` follows a message from the receiver's save through the event and the presentation to the publication: what was met at any of these is seen (`MetSeen`), two of them share only ids
  that were forgotten in reach (`AllParted`), and each is in one place only (`OnePlace`);
- `service`: `ServiceView` for what a reload shows; `SeenInv` and `PassInv` of the inbox give `WorkerMissesNothing`, and with `ServiceFresh` they give the action property `RefreshIsFresh`: once the worker has
  pulled for the page, each message asked for is recorded, excused or among what the worker carries, until the answer. `PullFinds` is the step that needs the waterline.

`SurfaceOnward` carries the argument about forgotten ids over to the page: its steps, too, leave what may come no larger; `Past` has the ids that the page itself forgot in reach, and those of which nothing comes any more. `SurfaceTypeCorrect` comes after these, as its bound on the view is a consequence of `OwnView`, `FarView` and `ServiceView`. One hypothesis is left, `OneWorker`,
for `RefreshIsFresh`: the service that owns the control pipe is the only one.

`Activation_proofs` proves `MetOnce` for every number of launches and deaths. `MetOnce` says nothing of a request that is still to be met; `IInv` adds
that whoever may still meet one has not: a launch is met in the Shell it became or when it has ended (`MetLate`), the Shell's own request waits unmet (`Waits`), a request
in the pipe is unmet and its launch has not gone back to another attempt (`InPipe`), whether a load fails or not, and who reports failure has left nothing in the pipe (`Failed`). The lemmas carry it over the steps of a launch, of the
Shell and of its pipe.

`CommandStream_proofs` proves, for every set of calls, ids and requests and every capacity and limit, type correctness (in six parts, each with its frame),
`RegistryTracks` (`RegistryInv` adds that what is registered under an id has that id and has not ended), `FinalTellsTruth` and `StreamIsWhole`. The last two follow from
`StreamInv`, which says of one stream:

- `BeginInv`, `StopInv`: no pump runs before the process was started; none stops, and the producer does not give up, unless the call was cancelled or ran out of time;
- `WaitInv`: who waits for room in the channel is a pump that has written one event, so that taking its entry out takes one event;
- `LimitInv`: the limiter has counted every line or is at its limit, and whatever a sink left out is told, or the pump that will tell it is still behind its own line;
- `LastInv`: a terminal event is written once the producer is done; the result of a process that ended comes after both pumps have read to the end and is the last entry, so no line
  can follow it, and a `late` event has a cause;
- `EndCount`, `EventCount`: the accounts. A number that was drawn is an event delivered, in the handler's hand, in the channel or with a pump about to write it, as long as no pump was
  stopped; for lines and truncation events the same account gives what the limiter has counted;
- `ToldTruth`, `CloseInv`: the two properties, for the stream.

The accounts need how many entries of a kind a sequence holds (`Number`, a cardinality: `OfAppend`, `OfTail`, `NumberWithout`). `Still` and `QuietStep` carry the invariant over the
steps of others and over those that write nothing; `TryReadStep`, `DeliverStep`, `TerminalStep`, `CompleteStep` and `PumpStep` over the rest. TLC has checked `StreamInv` as an
invariant on three small instances before it was proved.

Every invariant and action property of the passing runs is proved, `RefreshIsFresh` under the hypothesis named above. Model-checked only: the seven liveness properties (`WorkerDrains`, `PollsAnswered`, `Delivered`, `CancelStops`, `StreamEnds`,
`ProducerEnds`, `ReportedIsMet`), as fairness and ENABLED are outside the prover. No module with a theorem uses a RECURSIVE operator.

## 5. Not modelled, and the plan

What could follow, in this order:

1. An abstract specification of the path from an accepted item to a recorded message, implemented by
   `Inbox` under the conditions above; the composition with the server's pull, command by command.
2. The settings store and the worker's state object: saves from two processes under one name.
3. The page `page1.py`, the predecessor of the worker, and the earlier copies of the surface under the Shell, where they differ from it.
4. The unary shell command, the other calls of the module host.

Left out for good: sending and formatting (stateless), views and toast COM calls (no protocol
state), and the Android performance tooling that shares the repository: most of the repository's lines are batch computations over
trace files, without state between two calls, so that the mapped share of all lines stays small whatever is modelled of the rest. The hazards in
PROJECT.json, with the lines where they bite, name the properties that watch over them. Where the code really does what the hazard says, the properties name it as an exception and the hazard's note
says so; some have no property for that reason: the lock file a killed worker leaves, what the flush forgets, a message that a
waterline passes because of a pull's limit or of stamps out of order, and a worker that stops between the
save of a message and its banner, which the code accepts rather than a second banner.
