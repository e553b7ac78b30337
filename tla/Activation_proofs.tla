--------------------------- MODULE Activation_proofs ---------------------------
(* MetOnce holds of every set of launches and messages: a request that can still be
   met has not been, whoever has it in hand.                                       *)
EXTENDS Activation, TLAPS

Busy == pipe \in {"read", "handle"}

Types ==
  /\ pc \in [Launches -> {"idle", "starting", "shell", "connect", "write", "flush", "over"}]
  /\ told \in [Launches -> {"nothing", "true", "false"}]
  /\ opened \in [Launches -> Nat]
  /\ peer \in Launches \cup {Nobody} /\ initial \in Launches \cup {Nobody}
  /\ Busy => peer \in Launches

(* A launch is met in the Shell it has become, or when it has ended. *)
MetLate(l) == opened[l] <= 1 /\ (opened[l] # 0 => pc[l] \in {"shell", "over"})

(* The Shell's own request is kept until it is met. *)
Waits(l) == initial = l => pc[l] = "shell" /\ opened[l] = 0

(* A request in the pipe is one that was not met; its launch has written it and not
   gone on to another attempt.                                                    *)
InPipe(l) ==
  Busy /\ peer = l =>
    /\ pc[l] \in {"write", "flush", "over"}
    /\ pipe = "handle" => pc[l] = "over"
    /\ opened[l] = 0

(* Who reports failure has ended, and no Shell has or had the request. *)
Failed(l) ==
  /\ told[l] # "nothing" => pc[l] = "over"
  /\ told[l] = "false" => opened[l] = 0 /\ ~(Busy /\ peer = l)

Good(l) == MetLate(l) /\ Waits(l) /\ InPipe(l) /\ Failed(l)

IInv == Types /\ \A l \in Launches : Good(l)

(* Nothing is met, waiting or in the pipe at the start. *)
LEMMA Initially == ActivationAssumption /\ Init => IInv
  BY DEF ActivationAssumption, Init, IInv, Types, Good, MetLate, Waits, InPipe, Failed, Busy

(* What meeting the request of k does to the count of requests met. *)
LEMMA Meets ==
  ASSUME Types, NEW k \in Launches, Meet(k)
  PROVE  /\ opened' \in [Launches -> Nat]
         /\ \A l \in Launches : l # k => opened'[l] = opened[l]
         /\ opened'[k] \in {opened[k], opened[k] + 1}
  BY DEF Types, Meet, Find, LoadFails

(* A launch that takes a step of its own, up to its end. *)
LEMMA LaunchSteps ==
  ASSUME ActivationAssumption, IInv, NEW k \in Launches,
         Acquire(k) \/ Client(k) \/ Killed(k) \/ End(k)
  PROVE  IInv'
<1>a. ASSUME Acquire(k) PROVE IInv'
  BY <1>a DEF ActivationAssumption, IInv, Types, Good, MetLate, Waits, InPipe, Failed, Busy,
              Acquire, Become, server, past
<1>b. ASSUME Connect(k) PROVE IInv'
  BY <1>b DEF ActivationAssumption, IInv, Types, Good, MetLate, Waits, InPipe, Failed, Busy,
              Connect, Become, past
<1>c. ASSUME Write(k) PROVE IInv'
  BY <1>c DEF ActivationAssumption, IInv, Types, Good, MetLate, Waits, InPipe, Failed, Busy,
              Write, Become, past
<1>d. ASSUME Flush(k) PROVE IInv'
  BY <1>d DEF ActivationAssumption, IInv, Types, Good, MetLate, Waits, InPipe, Failed, Busy,
              Flush, Become, server, past
<1>e. ASSUME Broken(k) PROVE IInv'
  BY <1>e DEF ActivationAssumption, IInv, Types, Good, MetLate, Waits, InPipe, Failed, Busy,
              Broken, Become, server, past
<1>f. ASSUME GiveUp(k) PROVE IInv'
  BY <1>f DEF ActivationAssumption, IInv, Types, Good, MetLate, Waits, InPipe, Failed, Busy,
              GiveUp, Become, server, past
<1>g. ASSUME Killed(k) PROVE IInv'
  BY <1>g DEF ActivationAssumption, IInv, Types, Good, MetLate, Waits, InPipe, Failed, Busy,
              Killed, Become, server, past
<1>h. ASSUME End(k) PROVE IInv'
  BY <1>h DEF ActivationAssumption, IInv, Types, Good, MetLate, Waits, InPipe, Failed, Busy,
              End, Become
<1> QED
  BY <1>a, <1>b, <1>c, <1>d, <1>e, <1>f, <1>g, <1>h DEF Client

(* The Shell meets its own request. *)
LEMMA OwnSteps ==
  ASSUME ActivationAssumption, IInv,
         OpenInitial \/ \E k \in Launches : Start(k)
  PROVE  IInv'
<1>a. ASSUME OpenInitial PROVE IInv'
  <2>1. initial \in Launches /\ Meet(initial)
    BY <1>a DEF OpenInitial, IInv, Types
  <2> DEFINE k == initial
  <2>2. opened' \in [Launches -> Nat] /\ opened'[k] \in {opened[k], opened[k] + 1}
        /\ \A l \in Launches : l # k => opened'[l] = opened[l]
    BY <2>1, Meets DEF IInv
  <2>3. pc[k] = "shell" /\ opened[k] = 0 /\ ~(Busy /\ peer = k) /\ told[k] = "nothing"
    BY <2>1 DEF IInv, Types, Good, Waits, InPipe, Failed
  <2> QED
    BY <1>a, <2>1, <2>2, <2>3 DEF ActivationAssumption, IInv, Types, Good, MetLate, Waits,
       InPipe, Failed, Busy, OpenInitial, server
<1>b. ASSUME NEW k \in Launches, Start(k) PROVE IInv'
  <2>1. opened' \in [Launches -> Nat] /\ opened'[k] \in {opened[k], opened[k] + 1}
        /\ \A l \in Launches : l # k => opened'[l] = opened[l]
    <3>1. CASE Wants[k] = Nothing
      BY <1>b, <3>1 DEF Start, IInv, Types
    <3>2. CASE Wants[k] # Nothing
      BY <1>b, <3>2, Meets DEF Start, IInv
    <3> QED BY <3>1, <3>2
  <2>2. opened[k] = 0 /\ told[k] = "nothing"
    BY <1>b DEF Start, IInv, Types, Good, MetLate, Failed
  <2>3. initial' = initial \/ (initial' = k /\ opened' = opened)
    BY <1>b DEF Start
  <2>4. initial # k
    BY <1>b DEF Start, IInv, Good, Waits
  <2>5. pc[k] = "starting" /\ pc' = [pc EXCEPT ![k] = "shell"]
        /\ pipe' = "create" /\ peer' = peer /\ told' = told
    BY <1>b DEF Start, Become
  <2>6. Types'
    BY <2>1, <2>3, <2>5 DEF IInv, Types, Busy
  <2>7. ASSUME NEW l \in Launches PROVE Good(l)'
    <3>1. MetLate(l)'
      BY <2>1, <2>2, <2>5 DEF IInv, Types, Good, MetLate
    <3>2. Waits(l)'
      BY <2>1, <2>2, <2>3, <2>4, <2>5 DEF IInv, Types, Good, Waits
    <3>3. InPipe(l)' /\ Failed(l)'
      BY <2>1, <2>2, <2>5 DEF IInv, Types, Good, InPipe, Failed, Busy
    <3> QED BY <3>1, <3>2, <3>3 DEF Good
  <2> QED
    BY <2>6, <2>7 DEF IInv
<1> QED
  BY <1>a, <1>b

(* The loop of the pipe meets what it has read. *)
LEMMA PipeSteps ==
  ASSUME ActivationAssumption, IInv, Serve
  PROVE  IInv'
<1>a. ASSUME Create PROVE IInv'
  BY <1>a DEF ActivationAssumption, IInv, Types, Good, MetLate, Waits, InPipe, Failed, Busy,
              Create, past
<1>b. ASSUME Receive PROVE IInv'
  BY <1>b DEF ActivationAssumption, IInv, Types, Good, MetLate, Waits, InPipe, Failed, Busy,
              Receive, past
<1>c. ASSUME Handle PROVE IInv'
  <2>1. peer \in Launches /\ Meet(peer)
    BY <1>c DEF Handle, IInv, Types, Busy
  <2> DEFINE k == peer
  <2>2. opened' \in [Launches -> Nat] /\ opened'[k] \in {opened[k], opened[k] + 1}
        /\ \A l \in Launches : l # k => opened'[l] = opened[l]
    BY <2>1, Meets DEF IInv
  <2>3. pc[k] = "over" /\ opened[k] = 0 /\ initial # k /\ told[k] # "false"
    BY <1>c, <2>1 DEF IInv, Types, Good, Waits, InPipe, Failed, Busy, Handle
  <2> QED
    BY <1>c, <2>1, <2>2, <2>3 DEF ActivationAssumption, IInv, Types, Good, MetLate, Waits,
       InPipe, Failed, Busy, Handle
<1> QED
  BY <1>a, <1>b, <1>c DEF Serve

(* Every step keeps the invariant. *)
LEMMA Onward == ActivationAssumption /\ IInv /\ [Next]_vars => IInv'
<1> SUFFICES ASSUME ActivationAssumption, IInv, [Next]_vars PROVE IInv'
  OBVIOUS
<1>1. CASE \E l \in Launches : Acquire(l) \/ Client(l) \/ Killed(l) \/ End(l)
  BY <1>1, LaunchSteps
<1>2. CASE OpenInitial \/ \E l \in Launches : Start(l)
  BY <1>2, OwnSteps
<1>3. CASE Serve
  BY <1>3, PipeSteps
<1>4. CASE CloseWindow \/ Forget \/ UNCHANGED vars
  BY <1>4 DEF IInv, Types, Good, MetLate, Waits, InPipe, Failed, Busy, CloseWindow, Forget,
              vars, server, past, bounds
<1> QED
  BY <1>1, <1>2, <1>3, <1>4 DEF Next

(* However many launches, deaths and Shells there are, the request of a launch is met
   at most once, and not at all when its forwarding reports failure.               *)
THEOREM RequestsAreMetOnce == Spec => []MetOnce
<1>1. IInv => MetOnce
  BY DEF IInv, Good, MetLate, Failed, MetOnce
<1> QED
  BY <1>1, Initially, Onward, ActivationAssumption, PTL DEF Spec
==============================================================================
