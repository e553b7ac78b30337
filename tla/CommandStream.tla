---------------------------- MODULE CommandStream ----------------------------
(***************************************************************************)
(* Streamed commands of the module host (AndroidTools.Powertoold).         *)
(*   the handler   of a call ExecuteCommandStream registers a cancellation *)
(*                 source under the invocation id, hands what the module   *)
(*                 yields to the client and removes the registration;      *)
(*   the producer  of a shell command starts the process, waits for it and *)
(*                 ends the stream with one terminal event;                *)
(*   two pumps     read the lines of stdout and stderr;                    *)
(*   requests      CancelCommand look an id up and cancel what they found. *)
(* Producer and pumps write to a bounded channel the handler reads.        *)
(* Cancelling a source cancels what is linked to it in the same step; what *)
(* waits for a token notices it in a step of its own.  Of an event only its *)
(* writer and kind are represented, of a line only that it was read.       *)
(***************************************************************************)
EXTENDS Integers, Sequences, FiniteSets

CONSTANTS
  Calls,          (* calls of ExecuteCommandStream                        *)
  Shell,          (* of these, the ones that run a shell command          *)
  Ids, None,      (* invocation ids, chosen by the clients                *)
  Requests,       (* calls of CancelCommand                               *)
  Capacity,       (* of the channel: ShellStreamChannelCapacity           *)
  MaxLineEvents,  (* MaxShellStreamLineEvents                             *)
  Kept,           (* so many lines of a pipe are kept in full, for the
                     line and output limits of BoundedShellOutput         *)
  MaxLines,       (* bound: lines a process writes to a pipe              *)
  MaxFaults       (* bound: writes to the client that fail                *)

ASSUME CallsAssumption == Shell \subseteq Calls /\ {None, "idle", "over"} \cap Calls = {}
ASSUME LimitsAssumption ==
  /\ {Capacity, MaxLineEvents} \subseteq Nat \ {0}
  /\ {MaxLines["stdout"], MaxLines["stderr"], Kept["stdout"], Kept["stderr"], MaxFaults}
       \subseteq Nat

VARIABLES
  id, registry,   (* _commandCancellations: the call found under an id    *)
  gone,           (* the client has left: context.CancellationToken       *)
  cancelled,      (* the call's linkedCancellation                        *)
  rpc, out,       (* the handler, and the kind of event it writes         *)
  delivered, late,     (* history: how many of a kind; one after the last *)
  faults,
  queue, numbers, (* the channel; how many sequence numbers are drawn     *)
  main, timedOut, (* the producer and its timer                           *)
  proc,           (* its process                                          *)
  pump, lines,    (* the pumps and how many lines each has read           *)
  lineEvents, told,    (* ShellStreamEventLimiter                         *)
  request         (* cancel requests: not made, the call found, or over   *)

service  == <<id, registry, gone, cancelled>>
history  == <<delivered, late>>
channel  == <<queue, numbers>>
producer == <<main, timedOut, proc>>
pumps    == <<pump, lines, lineEvents, told>>
task     == <<channel, producer, pumps>>
handler  == <<rpc, out, history, faults>>
vars     == <<service, handler, task, request>>

Pumps     == {"stdout", "stderr"}
Terminals == {"exit", "exitTruncated", "failed", "cancelled", "timeout"}
Kinds     == {"start", "line", "truncated"} \cup Terminals

Streaming == {"open", "wait", "drain", "write"}
Over      == {"ended", "failed"}

Init ==
  /\ id \in [Calls -> Ids]
  /\ registry = [i \in Ids |-> None]
  /\ gone = [c \in Shell |-> FALSE]
  /\ cancelled = [c \in Shell |-> FALSE]
  /\ rpc = [c \in Calls |-> "idle"]
  /\ out = [c \in Shell |-> "start"]
  /\ delivered = [c \in Shell |-> [k \in Kinds |-> 0]]
  /\ late = [c \in Shell |-> FALSE]
  /\ faults = 0
  /\ queue = [c \in Shell |-> <<>>]
  /\ numbers = [c \in Shell |-> 0]
  /\ main = [c \in Shell |-> "off"]
  /\ timedOut = [c \in Shell |-> FALSE]
  /\ proc = [c \in Shell |-> "none"]
  /\ pump = [c \in Shell |-> [p \in Pumps |-> "off"]]
  /\ lines = [c \in Shell |-> [p \in Pumps |-> 0]]
  /\ lineEvents = [c \in Shell |-> 0]
  /\ told = [c \in Shell |-> FALSE]
  /\ request = [k \in Requests |-> "idle"]
------------------------------------------------------------------------------
(***************************************************************************)
(* The channel.  The entries of `queue` beyond the capacity are those of   *)
(* the writers that wait for room, in their order: the first of them moves *)
(* up as an event is taken.  It is completed when the producer is done.    *)
(***************************************************************************)
Put(c, w, kind) == queue' = [queue EXCEPT ![c] = Append(@, [by |-> w, kind |-> kind])]

DrawNumber(c) == numbers' = [numbers EXCEPT ![c] = @ + 1]

Blocked(c, w) == \E i \in Capacity + 1 .. Len(queue[c]) : queue[c][i].by = w

Without(s, w) ==
  LET gap == CHOOSE i \in Capacity + 1 .. Len(s) : s[i].by = w
  IN SubSeq(s, 1, gap - 1) \o SubSeq(s, gap + 1, Len(s))

Completed(c) == main[c] = "done"

(* AppendLine has left something out. *)
SinkTruncated(c, p) == lines[c][p] > Kept[p]

(* Variant: the timer is not linked. *)
CallerCancelled(c) == cancelled[c]

(* The producer's own source: linked to the caller's token, with a timer. *)
Linked(c) == cancelled[c] \/ timedOut[c]
------------------------------------------------------------------------------
(***************************************************************************)
(* The handler: ExecuteCommandStream.                                      *)
(***************************************************************************)
HandlerGoes(c, from, to) ==
  /\ rpc[c] = from
  /\ rpc' = [rpc EXCEPT ![c] = to]

(* The source is linked to the client's token and registered, over whatever
   is registered under the id.                                              *)
Register(c) ==
  /\ HandlerGoes(c, "idle", "open")
  /\ registry' = [registry EXCEPT ![id[c]] = c]
  /\ cancelled' = [d \in Shell |-> IF d = c THEN gone[c] ELSE cancelled[d]]
  /\ UNCHANGED <<id, gone, out, history, faults, task, request>>

(* The lookup of a module that was never initialised throws.  A shell command
   starts its producer.                                                       *)
Open(c) ==
  /\ \/ HandlerGoes(c, "open", "throw") /\ UNCHANGED main
     \/ HandlerGoes(c, "open", "wait") /\ main' = [main EXCEPT ![c] = "start"]
  /\ UNCHANGED <<service, out, history, faults, channel, timedOut, proc, pumps, request>>

(* ReadAllAsync looks at the token before it waits, not between items. *)
WaitToRead(c) ==
  /\ \/ ~cancelled[c] /\ queue[c] # <<>> /\ HandlerGoes(c, "wait", "drain")
     \/ ~cancelled[c] /\ queue[c] = <<>> /\ Completed(c) /\ HandlerGoes(c, "wait", "close")
     \/ cancelled[c] /\ HandlerGoes(c, "wait", "throw")
  /\ UNCHANGED <<service, out, history, faults, task, request>>

TryRead(c) ==
  /\ IF queue[c] = <<>>
     THEN HandlerGoes(c, "drain", "wait") /\ UNCHANGED <<out, queue>>
     ELSE /\ HandlerGoes(c, "drain", "write")
          /\ out' = [out EXCEPT ![c] = Head(queue[c]).kind]
          /\ queue' = [queue EXCEPT ![c] = Tail(@)]
  /\ UNCHANGED <<service, history, faults, numbers, producer, pumps, request>>

(* responseStream.WriteAsync takes the client's token, not the linked one. *)
Deliver(c) ==
  /\ ~gone[c]
  /\ HandlerGoes(c, "write", "drain")
  /\ delivered' = [delivered EXCEPT ![c][out[c]] = @ + 1]
  /\ late' = [late EXCEPT ![c] = @ \/ \E k \in Terminals : delivered[c][k] > 0]
  /\ out' = [out EXCEPT ![c] = "start"]
  /\ UNCHANGED <<service, faults, task, request>>

DeliverFails(c) ==
  /\ \/ gone[c] /\ faults' = faults
     \/ faults < MaxFaults /\ faults' = faults + 1
  /\ HandlerGoes(c, "write", "throw")
  /\ out' = [out EXCEPT ![c] = "start"]
  /\ UNCHANGED <<service, history, task, request>>

(* Variant: the registration stays when the handler throws. *)
LeaveRegistered(c) ==
  /\ \/ HandlerGoes(c, "close", "ended")
     \/ HandlerGoes(c, "throw", "failed")
     \/ c \notin Shell /\ HandlerGoes(c, "open", "ended")
  /\ registry' = IF rpc[c] = "close" THEN [registry EXCEPT ![id[c]] = None] ELSE registry
  /\ UNCHANGED <<id, gone, cancelled, out, history, faults, task, request>>

(* finally: whatever is registered under the id is removed.  The source is
   disposed: from now on the client's token does not reach it.  A command that
   does not run in a shell yields one event, which is not represented.         *)
Leave(c) ==
  /\ \/ HandlerGoes(c, "close", "ended")
     \/ HandlerGoes(c, "throw", "failed")
     \/ c \notin Shell /\ HandlerGoes(c, "open", "ended")
  /\ registry' = [registry EXCEPT ![id[c]] = None]
  /\ UNCHANGED <<id, gone, cancelled, out, history, faults, task, request>>

ClientLeaves(c) ==
  /\ rpc[c] \notin Over /\ ~gone[c]
  /\ gone' = [gone EXCEPT ![c] = TRUE]
  /\ cancelled' = [cancelled EXCEPT ![c] = rpc[c] # "idle"]
  /\ UNCHANGED <<id, registry, handler, task, request>>
------------------------------------------------------------------------------
(***************************************************************************)
(* CancelCommand                                                           *)
(***************************************************************************)
LookUp(k) ==
  /\ request[k] = "idle"
  /\ \E i \in Ids :
       request' = [request EXCEPT ![k] = IF registry[i] = None THEN "over" ELSE registry[i]]
  /\ UNCHANGED <<service, handler, task>>

(* The source may have been disposed since it was looked up: then Cancel throws
   and nothing is cancelled.                                                   *)
Cancel(k) ==
  LET c == request[k]
  IN /\ c \in Calls
     /\ cancelled' = [d \in Shell |-> cancelled[d] \/ (d = c /\ rpc[c] \notin Over)]
     /\ request' = [request EXCEPT ![k] = "over"]
     /\ UNCHANGED <<id, registry, gone, handler, task>>
------------------------------------------------------------------------------
(***************************************************************************)
(* The producer: the task of RunShellCommandStreamAsync.                   *)
(***************************************************************************)
ProducerGoes(c, from, to) ==
  /\ main[c] = from
  /\ main' = [main EXCEPT ![c] = to]

(* The start event needs no room.  The process may fail to start. *)
Start(c) ==
  /\ ~cancelled[c]
  /\ DrawNumber(c) /\ Put(c, "main", "start")
  /\ \/ /\ ProducerGoes(c, "start", "run")
        /\ proc' = [proc EXCEPT ![c] = "running"]
        /\ pump' = [pump EXCEPT ![c] = [p \in Pumps |-> "read"]]
     \/ ProducerGoes(c, "start", "failed") /\ UNCHANGED <<proc, pump>>
  /\ UNCHANGED <<service, handler, timedOut, lines, lineEvents, told, request>>

(* WaitForExitAsync *)
WaitForExit(c) ==
  /\ proc[c] = "exited"
  /\ ProducerGoes(c, "run", "join")
  /\ UNCHANGED <<service, handler, channel, timedOut, proc, pumps, request>>

Ended(c, S) == \A p \in Pumps : pump[c][p] \in S

Truncated(c) == (\E p \in Pumps : SinkTruncated(c, p)) \/ lineEvents[c] >= MaxLineEvents

(* Variant: the final result does not wait for the pumps. *)
WriteFinalAtOnce(c) ==
  /\ \/ /\ ProducerGoes(c, "join", "sent")
        /\ Put(c, "main", IF Truncated(c) THEN "exitTruncated" ELSE "exit")
     \/ ProducerGoes(c, "failed", "sent") /\ Put(c, "main", "failed")
  /\ DrawNumber(c)
  /\ UNCHANGED <<service, handler, timedOut, proc, pumps, request>>

(* Task.WhenAll of the pumps, then WriteFinalAsync.  This write, like that of
   the other terminal event, has no token: it waits for room.                *)
WriteFinal(c) ==
  /\ \/ /\ Ended(c, {"eof"})
        /\ ProducerGoes(c, "join", "sent")
        /\ Put(c, "main", IF Truncated(c) THEN "exitTruncated" ELSE "exit")
     \/ ProducerGoes(c, "failed", "sent") /\ Put(c, "main", "failed")
  /\ DrawNumber(c)
  /\ UNCHANGED <<service, handler, timedOut, proc, pumps, request>>

(* Waiting ends with an OperationCanceledException. *)
Interrupted(c) ==
  \/ cancelled[c] /\ ProducerGoes(c, "start", "sent")
  \/ Linked(c) /\ ProducerGoes(c, "run", "sent")
  \/ Ended(c, {"eof", "stopped"}) /\ ~Ended(c, {"eof"}) /\ ProducerGoes(c, "join", "sent")

WriteInterrupted(c) ==
  /\ DrawNumber(c)
  /\ Put(c, "main", IF cancelled[c] THEN "cancelled" ELSE "timeout")

(* Variant: the process is left to itself. *)
LetRun(c) ==
  /\ Interrupted(c) /\ WriteInterrupted(c)
  /\ UNCHANGED <<service, handler, timedOut, proc, pumps, request>>

(* The process is killed with its descendants, unless it has ended itself:
   then these are left alone.                                             *)
KillProcessTree(c) ==
  /\ Interrupted(c) /\ WriteInterrupted(c)
  /\ proc' = [proc EXCEPT ![c] = IF @ = "running" THEN "killed" ELSE @]
  /\ UNCHANGED <<service, handler, timedOut, pumps, request>>

(* finally: TryComplete; pumps that still wait for room fail. *)
Complete(c) ==
  /\ ~Blocked(c, "main")
  /\ ProducerGoes(c, "sent", "done")
  /\ queue' = [queue EXCEPT ![c] = SubSeq(@, 1, IF Len(@) < Capacity THEN Len(@) ELSE Capacity)]
  /\ pump' = [pump EXCEPT ![c] = [p \in Pumps |-> IF Blocked(c, p) THEN "stopped" ELSE @[p]]]
  /\ UNCHANGED <<service, handler, numbers, timedOut, proc, lines, lineEvents, told,
                 request>>

(* CancelAfter(timeout) *)
TimeOut(c) ==
  /\ main[c] \notin {"off", "done"} /\ ~timedOut[c]
  /\ timedOut' = [timedOut EXCEPT ![c] = TRUE]
  /\ UNCHANGED <<service, handler, channel, main, proc, pumps, request>>

(* The process ends; a descendant may still hold its pipes. *)
ProcessExits(c) ==
  /\ proc[c] = "running"
  /\ proc' = [proc EXCEPT ![c] = "exited"]
  /\ UNCHANGED <<service, handler, channel, main, timedOut, pumps, request>>
------------------------------------------------------------------------------
(***************************************************************************)
(* A pump: PumpLinesAsync.                                                 *)
(***************************************************************************)
PumpGoes(c, p, from, to) ==
  /\ pump[c][p] = from
  /\ pump' = [pump EXCEPT ![c][p] = to]

(* Between two lines: after a truncation event, once it has found room. *)
Reading(c, p, to) ==
  PumpGoes(c, p, "read", to) \/ (~Blocked(c, p) /\ PumpGoes(c, p, "noteSent", to))

(* Variant: one event too many. *)
ReadLineOneMore(c, p) ==
  /\ ~Linked(c)
  /\ lines[c][p] < MaxLines[p]
  /\ lines' = [lines EXCEPT ![c][p] = @ + 1]
  /\ IF lineEvents[c] <= MaxLineEvents
     THEN /\ lineEvents' = [lineEvents EXCEPT ![c] = @ + 1]
          /\ DrawNumber(c)
          /\ Reading(c, p, "line")
     ELSE Reading(c, p, "lineSent") /\ UNCHANGED <<lineEvents, numbers>>
  /\ UNCHANGED <<service, handler, queue, producer, told, request>>

(* A line goes to the sink, which may leave some of it out (AppendLine).  If the
   limiter has an event left for it, a number is drawn and its write begins.    *)
ReadLine(c, p) ==
  /\ ~Linked(c)
  /\ lines[c][p] < MaxLines[p]
  /\ lines' = [lines EXCEPT ![c][p] = @ + 1]
  /\ IF lineEvents[c] < MaxLineEvents
     THEN /\ lineEvents' = [lineEvents EXCEPT ![c] = @ + 1]
          /\ DrawNumber(c)
          /\ Reading(c, p, "line")
     ELSE Reading(c, p, "lineSent") /\ UNCHANGED <<lineEvents, numbers>>
  /\ UNCHANGED <<service, handler, queue, producer, told, request>>

(* Variant: only the limiter is asked whether something was left out. *)
CheckLimiter(c, p) ==
  /\ ~Blocked(c, p)
  /\ IF lineEvents[c] >= MaxLineEvents /\ ~told[c]
     THEN /\ told' = [told EXCEPT ![c] = TRUE]
          /\ DrawNumber(c)
          /\ PumpGoes(c, p, "lineSent", "note")
     ELSE PumpGoes(c, p, "lineSent", "read") /\ UNCHANGED <<told, numbers>>
  /\ UNCHANGED <<service, handler, queue, producer, lines, lineEvents, request>>

(* After the line, once its event has found room: the first pump to find
   something left out says so, for both.                                 *)
Check(c, p) ==
  /\ ~Blocked(c, p)
  /\ IF (SinkTruncated(c, p) \/ lineEvents[c] >= MaxLineEvents) /\ ~told[c]
     THEN /\ told' = [told EXCEPT ![c] = TRUE]
          /\ DrawNumber(c)
          /\ PumpGoes(c, p, "lineSent", "note")
     ELSE PumpGoes(c, p, "lineSent", "read") /\ UNCHANGED <<told, numbers>>
  /\ UNCHANGED <<service, handler, queue, producer, lines, lineEvents, request>>

(* The token was looked at when the write began: the event is appended even
   if it has been cancelled since, perhaps after the terminal event.        *)
Write(c, p) ==
  /\ ~Completed(c)
  /\ \/ PumpGoes(c, p, "line", "lineSent") /\ Put(c, p, "line")
     \/ PumpGoes(c, p, "note", "noteSent") /\ Put(c, p, "truncated")
  /\ UNCHANGED <<service, handler, numbers, producer, lines, lineEvents, told, request>>

EndOfFile(c, p) ==
  /\ proc[c] # "running"
  /\ Reading(c, p, "eof")
  /\ UNCHANGED <<service, handler, channel, producer, lines, lineEvents, told, request>>

(* Variant: a pump that waits for room is not cancelled. *)
StopUnlessBlocked(c, p) ==
  /\ Linked(c) /\ pump[c][p] \in {"read", "line", "note"}
  /\ pump' = [pump EXCEPT ![c][p] = "stopped"]
  /\ UNCHANGED <<service, handler, channel, producer, lines, lineEvents, told, request>>

(* A read, and a write that has not begun or waits for room, is cancelled;
   a write to a completed channel fails.                                   *)
Stop(c, p) ==
  /\ \/ Linked(c) /\ pump[c][p] \in {"read", "line", "note"} /\ queue' = queue
     \/ Linked(c) /\ pump[c][p] = "noteSent" /\ ~Blocked(c, p) /\ queue' = queue
     \/ Linked(c) /\ Blocked(c, p) /\ queue' = [queue EXCEPT ![c] = Without(@, p)]
     \/ Completed(c) /\ pump[c][p] \in {"line", "note"} /\ queue' = queue
  /\ pump' = [pump EXCEPT ![c][p] = "stopped"]
  /\ UNCHANGED <<service, handler, numbers, producer, lines, lineEvents, told, request>>
------------------------------------------------------------------------------
Handle(c) ==
  \/ Leave(c)
  \/ c \in Shell /\ (Open(c) \/ WaitToRead(c) \/ TryRead(c) \/ Deliver(c) \/ DeliverFails(c))

Produce(c) ==
  \/ Start(c) \/ WaitForExit(c) \/ WriteFinal(c) \/ KillProcessTree(c) \/ Complete(c)

Pump(c, p) ==
  ReadLine(c, p) \/ Check(c, p) \/ Write(c, p) \/ Stop(c, p)

Next ==
  \/ \E c \in Calls : Register(c) \/ Handle(c)
  \/ \E k \in Requests : LookUp(k) \/ Cancel(k)
  \/ \E c \in Shell : ClientLeaves(c) \/ Produce(c) \/ TimeOut(c) \/ ProcessExits(c)
  \/ \E c \in Shell, p \in Pumps : Pump(c, p) \/ EndOfFile(c, p)

Spec == Init /\ [][Next]_vars

(* Tasks go on and the timer fires; a client reads on or leaves.  A process
   need not end, nor a pipe when it has.                                    *)
Fairness ==
  /\ \A c \in Calls : WF_vars(Handle(c))
  /\ \A c \in Shell : WF_vars(Produce(c)) /\ WF_vars(TimeOut(c))
  /\ \A c \in Shell, p \in Pumps : WF_vars(Pump(c, p))

FairSpec == Spec /\ Fairness
------------------------------------------------------------------------------
TypeOK ==
  /\ id \in [Calls -> Ids] /\ registry \in [Ids -> Calls \cup {None}]
  /\ gone \in [Shell -> BOOLEAN] /\ cancelled \in [Shell -> BOOLEAN]
  /\ rpc \in [Calls -> {"idle", "throw", "close"} \cup Streaming \cup Over]
  /\ out \in [Shell -> Kinds] /\ late \in [Shell -> BOOLEAN]
  /\ delivered \in [Shell -> [Kinds -> Nat]]
  /\ faults \in 0 .. MaxFaults
  /\ queue \in [Shell -> Seq([by : Pumps \cup {"main"}, kind : Kinds])]
  /\ numbers \in [Shell -> Nat]
  /\ main \in [Shell -> {"off", "start", "run", "join", "failed", "sent", "done"}]
  /\ timedOut \in [Shell -> BOOLEAN]
  /\ proc \in [Shell -> {"none", "running", "exited", "killed"}]
  /\ pump \in [Shell -> [Pumps -> {"off", "read", "line", "note", "lineSent", "noteSent",
                                   "eof", "stopped"}]]
  /\ lines \in [Shell -> [Pumps -> Nat]]
  /\ \A c \in Shell, p \in Pumps : lines[c][p] <= MaxLines[p]
  /\ lineEvents \in [Shell -> 0 .. MaxLineEvents] /\ told \in [Shell -> BOOLEAN]
  /\ request \in [Requests -> {"idle", "over"} \cup Calls]

(* How many terminal events a client has had, and how many events. *)
Ends(c) ==
  delivered[c]["exit"] + delivered[c]["exitTruncated"] + delivered[c]["failed"]
    + delivered[c]["cancelled"] + delivered[c]["timeout"]
Events(c) ==
  delivered[c]["start"] + delivered[c]["line"] + delivered[c]["truncated"] + Ends(c)

(* What a client is told of truncation is so.  With a final result that does
   not say truncated it has had every line of both pipes; with one that does,
   exactly one truncation event.  (PumpLinesAsync, ShellStreamEventLimiter,
   WriteFinalAsync: two pumps count against one limit, and a third task puts
   the result together.)                                                     *)
FinalTellsTruth ==
  \A c \in Shell :
    /\ delivered[c]["exitTruncated"] > 0 => delivered[c]["truncated"] = 1
    /\ delivered[c]["exit"] > 0 =>
         /\ delivered[c]["truncated"] = 0
         /\ delivered[c]["line"] = lines[c]["stdout"] + lines[c]["stderr"]
         /\ \A p \in Pumps : ~SinkTruncated(c, p)

(* A stream that ends without an error has had exactly one terminal event.
   Unless the command ran out of time it was the last, and an event came for
   every number drawn: none was written beside it, or dropped.              *)
StreamIsWhole ==
  \A c \in Shell : rpc[c] = "ended" =>
    /\ Ends(c) = 1
    /\ ~timedOut[c] => ~late[c] /\ Events(c) = numbers[c]

(* The registry leads to streams in progress only, and to each of them unless
   another call came with the same id: CancelCommand finds what it can stop.  *)
RegistryTracks ==
  /\ \A i \in Ids : registry[i] # None => rpc[registry[i]] \notin Over
  /\ \A c \in Calls : rpc[c] \in Streaming =>
       \/ registry[id[c]] = c
       \/ \E d \in Calls \ {c} : id[d] = id[c] /\ rpc[d] # "idle"

(* Cancelling a stream, by request or by leaving, ends its process for good,
   whatever the process does.                                               *)
CancelStops == \A c \in Shell : cancelled[c] ~> [](proc[c] # "running")

(* Every stream comes to an end, even that of a process that runs for ever. *)
StreamEnds == \A c \in Calls : rpc[c] # "idle" ~> rpc[c] \in Over

(* The producer completes its channel, unless its handler is gone and the
   terminal event waits for room: then it waits for ever.                  *)
ProducerEnds ==
  \A c \in Shell : main[c] # "off" ~>
    main[c] = "done" \/ (rpc[c] = "failed" /\ Blocked(c, "main"))
==============================================================================
