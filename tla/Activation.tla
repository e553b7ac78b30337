------------------------------ MODULE Activation ------------------------------
(***************************************************************************)
(* A click on a notification starts the Shell's executable with the id of  *)
(* its message.  The first process to get the mutex is the Shell; every    *)
(* other one forwards its request through a pipe with a single instance,   *)
(* tries again for two seconds when that fails, and ends                   *)
(* (RemoteNotificationActivationService.cs, ...DetailWindowService.cs).    *)
(* The executable's Main is not in the repository: a test names its calls. *)
(* The Shell may end at any time, and with it the pipe and its windows; so *)
(* may a process that forwards, with its request half written.             *)
(***************************************************************************)
EXTENDS Integers, FiniteSets

CONSTANTS
  Launches,       (* processes of the executable                          *)
  Messages,
  Wants,          (* the message of a launch, or Nothing: a plain start   *)
  Nothing, Nobody,
  MaxDeaths,      (* bound: processes that are killed, Shells that end    *)
  MaxFaults       (* bound: loads of the history that fail                *)

ASSUME ActivationAssumption ==
  /\ Wants \in [Launches -> Messages \cup {Nothing}]
  /\ Nothing \notin Messages /\ Nobody \notin Launches
  /\ {MaxDeaths, MaxFaults} \subseteq Nat

VARIABLES
  pc, told,       (* a launch, and what its forwarding has returned       *)
  owner,          (* of the mutex                                         *)
  pipe,           (* the loop of the Shell's end of the pipe              *)
  peer, sent,     (* who is or was connected, has it written its request  *)
  initial,        (* the Shell's own request, until its window is opened  *)
  windows,        (* the detail windows of the Shell                      *)
  stored,         (* what is in the history                               *)
  opened,         (* history: how often the request of a launch was met   *)
  missed,         (* history: whose message was not in the history        *)
  failed,         (* history: for whom the history was not to be had      *)
  lost,           (* history: whose request went with the Shell           *)
  deaths, faults

server == <<pipe, peer, sent>>
past   == <<opened, missed, failed, lost>>
bounds == <<deaths, faults>>
vars   == <<pc, told, owner, server, initial, windows, stored, past, bounds>>

Init ==
  /\ pc = [l \in Launches |-> "idle"]
  /\ told = [l \in Launches |-> "nothing"]
  /\ owner = Nobody
  /\ pipe = "off" /\ peer = Nobody /\ sent = FALSE
  /\ initial = Nobody /\ windows = {}
  /\ stored = Messages
  /\ opened = [l \in Launches |-> 0] /\ missed = {} /\ failed = {} /\ lost = {}
  /\ deaths = 0 /\ faults = 0

Become(l, label) == pc' = [pc EXCEPT ![l] = label]
------------------------------------------------------------------------------
(***************************************************************************)
(* A launch.                                                               *)
(***************************************************************************)
(* Acquire: WaitOne(0); a mutex its owner has abandoned is had, too. *)
Acquire(l) ==
  /\ pc[l] = "idle"
  /\ IF owner = Nobody
     THEN owner' = l /\ Become(l, "starting")
     ELSE owner' = owner /\ Become(l, "connect")
  /\ UNCHANGED <<told, server, initial, windows, stored, past, bounds>>

Connect(l) ==
  /\ pc[l] = "connect" /\ pipe = "listen"
  /\ Become(l, "write")
  /\ pipe' = "read" /\ peer' = l /\ sent' = FALSE
  /\ UNCHANGED <<told, owner, initial, windows, stored, past, bounds>>

Write(l) ==
  /\ pc[l] = "write" /\ peer = l
  /\ Become(l, "flush")
  /\ sent' = TRUE
  /\ UNCHANGED <<told, owner, pipe, peer, initial, windows, stored, past, bounds>>

(* FlushAsync, then the client is disposed: the end of the stream for the reader.
   That the Shell's end is gone it need not notice.                              *)
Flush(l) ==
  /\ pc[l] = "flush"
  /\ Become(l, "over")
  /\ told' = [told EXCEPT ![l] = "true"]
  /\ UNCHANGED <<owner, server, initial, windows, stored, past, bounds>>

(* The Shell's end is gone: IOException, and another attempt. *)
Broken(l) ==
  /\ pc[l] \in {"write", "flush"} /\ peer # l
  /\ Become(l, "connect")
  /\ UNCHANGED <<told, owner, server, initial, windows, stored, past, bounds>>

(* The two seconds are over between two attempts. *)
GiveUp(l) ==
  /\ pc[l] = "connect"
  /\ Become(l, "over")
  /\ told' = [told EXCEPT ![l] = "false"]
  /\ UNCHANGED <<owner, server, initial, windows, stored, past, bounds>>

Killed(l) ==
  /\ pc[l] \in {"connect", "write", "flush"}
  /\ deaths < MaxDeaths /\ deaths' = deaths + 1
  /\ Become(l, "over")
  /\ UNCHANGED <<told, owner, server, initial, windows, stored, past, faults>>
------------------------------------------------------------------------------
(***************************************************************************)
(* The Shell.                                                              *)
(***************************************************************************)
(* OpenOnUiThreadAsync: TryOpen shows the one window of a message of the history;
   a plain start shows the Shell.                                              *)
Find(l) ==
  /\ IF Wants[l] \in stored \cup {Nothing}
     THEN /\ windows' = windows \cup ({Wants[l]} \ {Nothing})
          /\ opened' = [opened EXCEPT ![l] = @ + 1]
          /\ UNCHANGED missed
     ELSE missed' = missed \cup {l} /\ UNCHANGED <<windows, opened>>
  /\ UNCHANGED <<failed, faults>>

(* The history is busy, and the exception goes nowhere; or it cannot be read, and is
   taken for empty.                                                                *)
LoadFails(l) ==
  /\ Wants[l] # Nothing
  /\ faults < MaxFaults /\ faults' = faults + 1
  /\ failed' = failed \cup {l}
  /\ UNCHANGED <<windows, opened, missed>>

Meet(l) == Find(l) \/ LoadFails(l)

(* RemoteNotificationActivationCoordinator.Start: a plain start waits for the
   window to open.                                                          *)
Start(l) ==
  /\ pc[l] = "starting"
  /\ Become(l, "shell")
  /\ pipe' = "create"
  /\ IF Wants[l] = Nothing
     THEN initial' = l /\ UNCHANGED <<windows, opened, missed, failed, faults>>
     ELSE Meet(l) /\ UNCHANGED initial
  /\ UNCHANGED <<told, owner, peer, sent, stored, lost, deaths>>

OpenInitial ==
  /\ initial # Nobody
  /\ Meet(initial)
  /\ initial' = Nobody
  /\ UNCHANGED <<pc, told, owner, server, stored, lost, deaths>>

Create ==
  /\ pipe = "create"
  /\ pipe' = "listen" /\ peer' = Nobody /\ sent' = FALSE
  /\ UNCHANGED <<pc, told, owner, initial, windows, stored, past, bounds>>

(* Variant: the request is taken as soon as it is there. *)
ReceiveEarly ==
  /\ pipe = "read" /\ sent
  /\ pipe' = "handle"
  /\ UNCHANGED <<pc, told, owner, peer, sent, initial, windows, stored, past, bounds>>

(* Variant: a request without a message is taken for a broken one. *)
ReceiveMessages ==
  /\ pipe = "read" /\ pc[peer] = "over"
  /\ pipe' = IF sent /\ Wants[peer] # Nothing THEN "handle" ELSE "create"
  /\ UNCHANGED <<pc, told, owner, peer, sent, initial, windows, stored, past, bounds>>

(* CopyToAsync ends with the client; half a request is a JsonException, and the
   loop goes on.                                                              *)
Receive ==
  /\ pipe = "read" /\ pc[peer] = "over"
  /\ pipe' = IF sent THEN "handle" ELSE "create"
  /\ UNCHANGED <<pc, told, owner, peer, sent, initial, windows, stored, past, bounds>>

(* The handler on the UI thread, awaited. *)
Handle ==
  /\ pipe = "handle"
  /\ pipe' = "create"
  /\ Meet(peer)
  /\ UNCHANGED <<pc, told, owner, peer, sent, initial, stored, lost, deaths>>

CloseWindow ==
  /\ \E m \in windows : windows' = windows \ {m}
  /\ UNCHANGED <<pc, told, owner, server, initial, stored, past, bounds>>

(* The history is cleared or trimmed. *)
Forget ==
  /\ \E m \in stored : stored' = stored \ {m}
  /\ UNCHANGED <<pc, told, owner, server, initial, windows, past, bounds>>

(* The Shell ends, or dies: mutex, pipe and windows go with it. *)
End(l) ==
  /\ pc[l] \in {"starting", "shell"}
  /\ deaths < MaxDeaths /\ deaths' = deaths + 1
  /\ Become(l, "over")
  /\ owner' = Nobody
  /\ lost' = lost \cup ({initial} \ {Nobody})
                  \cup (IF pc[l] = "starting" THEN {l} ELSE {})
                  \cup (IF pipe \in {"read", "handle"} /\ sent THEN {peer} ELSE {})
  /\ pipe' = "off" /\ peer' = Nobody /\ sent' = FALSE
  /\ initial' = Nobody /\ windows' = {}
  /\ UNCHANGED <<told, stored, opened, missed, failed, faults>>

Client(l) ==
  Connect(l) \/ Write(l) \/ Flush(l) \/ Broken(l) \/ GiveUp(l)

Serve == Create \/ Receive \/ Handle

Next ==
  \/ \E l \in Launches : Acquire(l) \/ Client(l) \/ Killed(l) \/ Start(l) \/ End(l)
  \/ OpenInitial \/ Serve \/ CloseWindow \/ Forget

Spec == Init /\ [][Next]_vars

(* Processes go on; a Shell starts and its window opens. *)
Fairness ==
  /\ WF_vars(Serve) /\ WF_vars(OpenInitial)
  /\ \A l \in Launches : WF_vars(Client(l)) /\ WF_vars(Start(l))

FairSpec == Spec /\ Fairness
------------------------------------------------------------------------------
(***************************************************************************)
(* Correctness.                                                            *)
(***************************************************************************)
(* However often a launch tries, and whichever Shells come and go meanwhile, its
   request is met once; and not at all when its forwarding reports failure, so
   that the caller may do something else for it.                                *)
MetOnce ==
  \A l \in Launches :
    /\ opened[l] <= 1
    /\ told[l] = "false" => opened[l] = 0

(* A launch that reports success, or is the Shell, is met in the end, unless the
   Shell ends with its request in hand, its message is gone from the history or the
   history cannot be loaded: whoever waits in the pipe, and however often it broke.  *)
ReportedIsMet ==
  \A l \in Launches :
    told[l] = "true" \/ pc[l] = "starting" ~> opened[l] > 0 \/ l \in missed \cup failed \cup lost
==============================================================================
