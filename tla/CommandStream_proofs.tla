------------------------- MODULE CommandStream_proofs -------------------------
(***************************************************************************)
(* Safety of CommandStream for every set of calls, ids and requests, every *)
(* capacity and limit: type correctness, the registry, and what becomes of *)
(* the events of a stream.                                                 *)
(***************************************************************************)
EXTENDS CommandStream, FiniteSetTheorems, SequenceTheorems, TLAPS

Labels == {"idle", "throw", "close"} \cup Streaming \cup Over
Steps  == {"off", "start", "run", "join", "failed", "sent", "done"}
Places == {"off", "read", "line", "note", "lineSent", "noteSent", "eof", "stopped"}
Entry  == [by : Pumps \cup {"main"}, kind : Kinds]

(* TypeOK, in the parts that different actions change. *)
ServiceTypes ==
  /\ id \in [Calls -> Ids] /\ registry \in [Ids -> Calls \cup {None}]
  /\ gone \in [Shell -> BOOLEAN] /\ cancelled \in [Shell -> BOOLEAN]
HandlerTypes ==
  /\ rpc \in [Calls -> Labels] /\ out \in [Shell -> Kinds]
  /\ late \in [Shell -> BOOLEAN] /\ delivered \in [Shell -> [Kinds -> Nat]]
  /\ faults \in 0 .. MaxFaults
ChannelTypes == queue \in [Shell -> Seq(Entry)] /\ numbers \in [Shell -> Nat]
ProducerTypes ==
  /\ main \in [Shell -> Steps] /\ timedOut \in [Shell -> BOOLEAN]
  /\ proc \in [Shell -> {"none", "running", "exited", "killed"}]
PumpTypes ==
  /\ pump \in [Shell -> [Pumps -> Places]]
  /\ lines \in [Shell -> [Pumps -> Nat]]
  /\ \A c \in Shell, p \in Pumps : lines[c][p] <= MaxLines[p]
  /\ lineEvents \in [Shell -> 0 .. MaxLineEvents] /\ told \in [Shell -> BOOLEAN]
RequestTypes == request \in [Requests -> {"idle", "over"} \cup Calls]

TypesByPart ==
  /\ ServiceTypes /\ HandlerTypes /\ ChannelTypes
  /\ ProducerTypes /\ PumpTypes /\ RequestTypes

LEMMA TypeParts == (TypeOK <=> TypesByPart) /\ (TypeOK' <=> TypesByPart')
  BY DEF TypeOK, TypesByPart, ServiceTypes, HandlerTypes, ChannelTypes, ProducerTypes, PumpTypes,
         RequestTypes, Labels, Steps, Places, Entry

(* A part of TypeOK holds after a step that leaves its variables alone. *)
LEMMA Frames ==
  /\ ServiceTypes /\ UNCHANGED service => ServiceTypes'
  /\ HandlerTypes /\ UNCHANGED handler => HandlerTypes'
  /\ ChannelTypes /\ UNCHANGED channel => ChannelTypes'
  /\ ProducerTypes /\ UNCHANGED producer => ProducerTypes'
  /\ PumpTypes /\ UNCHANGED pumps => PumpTypes'
  /\ RequestTypes /\ UNCHANGED request => RequestTypes'
  BY DEF ServiceTypes, HandlerTypes, ChannelTypes, ProducerTypes, PumpTypes, RequestTypes,
         service, handler, history, channel, producer, pumps

LEMMA TypeInit == Init => TypeOK
  <1> SUFFICES ASSUME Init PROVE TypeOK
    OBVIOUS
  <1>1. ServiceTypes
    BY DEF Init, ServiceTypes
  <1>2. HandlerTypes
    BY LimitsAssumption DEF Init, HandlerTypes, Labels, Kinds
  <1>3. ChannelTypes
    BY DEF Init, ChannelTypes
  <1>4. ProducerTypes
    BY DEF Init, ProducerTypes, Steps
  <1>5. PumpTypes
    BY LimitsAssumption DEF Init, PumpTypes, Places, Pumps
  <1>6. RequestTypes
    BY DEF Init, RequestTypes
  <1> QED
    BY <1>1, <1>2, <1>3, <1>4, <1>5, <1>6, TypeParts DEF TypesByPart

(* What the steps of the channel keep. *)
LEMMA PutTypes ==
  ASSUME NEW c \in Shell, NEW w \in Pumps \cup {"main"}, NEW kind \in Kinds,
         queue \in [Shell -> Seq(Entry)], Put(c, w, kind)
  PROVE  queue' \in [Shell -> Seq(Entry)]
  <1>1. [by |-> w, kind |-> kind] \in Entry
    BY DEF Entry
  <1>2. Append(queue[c], [by |-> w, kind |-> kind]) \in Seq(Entry)
    BY <1>1
  <1> QED
    BY <1>2 DEF Put

LEMMA WithoutTypes ==
  ASSUME NEW c \in Shell, NEW w, queue \in [Shell -> Seq(Entry)], Blocked(c, w)
  PROVE  Without(queue[c], w) \in Seq(Entry)
  <1> DEFINE s == queue[c]
             gap == CHOOSE i \in Capacity + 1 .. Len(s) : s[i].by = w
  <1>1. s \in Seq(Entry) /\ Len(s) \in Nat
    OBVIOUS
  <1>2. gap \in Capacity + 1 .. Len(s)
    BY DEF Blocked
  <1> HIDE DEF gap
  <1>3. gap \in Int /\ 1 <= gap /\ gap <= Len(s)
    BY <1>1, <1>2, LimitsAssumption
  <1>4. \A i \in 1 .. Len(s) : s[i] \in Entry
    BY <1>1
  <1>5. gap - 1 \in Int /\ gap + 1 \in Int /\ Len(s) \in Int
    BY <1>1, <1>3
  <1>6. (\A i \in 1 .. gap - 1 : s[i] \in Entry) /\ (\A i \in gap + 1 .. Len(s) : s[i] \in Entry)
    BY <1>1, <1>3, <1>4
  <1>7. SubSeq(s, 1, gap - 1) \in Seq(Entry) /\ SubSeq(s, gap + 1, Len(s)) \in Seq(Entry)
    BY <1>5, <1>6, SubSeqProperties
  <1> QED
    BY <1>7 DEF Without, gap

LEMMA CutTypes ==
  ASSUME NEW s \in Seq(Entry), NEW n \in Nat, n <= Len(s)
  PROVE  SubSeq(s, 1, n) \in Seq(Entry)
  <1>1. \A i \in 1 .. n : s[i] \in Entry
    OBVIOUS
  <1> QED
    BY <1>1, SubSeqProperties
------------------------------------------------------------------------------
(* The types after a step of the handler. *)
LEMMA GoesTypes ==
  ASSUME NEW c \in Calls, NEW from, NEW to \in Labels, HandlerTypes, HandlerGoes(c, from, to)
  PROVE  rpc' \in [Calls -> Labels]
  BY DEF HandlerTypes, HandlerGoes

LEMMA HandleTypes ==
  ASSUME TypeOK, NEW c \in Calls, Register(c) \/ Handle(c)
  PROVE  TypeOK'
  <1> USE TypeParts, Frames, CallsAssumption DEF TypesByPart
  <1> DEFINE Elsewhere == UNCHANGED <<out, history, faults>>
  <1>1. rpc' \in [Calls -> Labels] /\ c \in Calls
    BY GoesTypes DEF Register, Handle, Leave, Open, WaitToRead, TryRead, Deliver, DeliverFails,
                     Labels, Streaming, Over
  <1>2. CASE Register(c)
    <2>1. ServiceTypes'
      BY <1>2 DEF ServiceTypes, Register
    <2>2. HandlerTypes'
      BY <1>1, <1>2 DEF HandlerTypes, Register, history
    <2> QED
      BY <1>2, <2>1, <2>2 DEF Register, task
  <1>3. CASE Leave(c)
    <2>1. ServiceTypes'
      BY <1>3 DEF ServiceTypes, Leave
    <2>2. HandlerTypes'
      BY <1>1, <1>3 DEF HandlerTypes, Leave, history
    <2> QED
      BY <1>3, <2>1, <2>2 DEF Leave, task
  <1>4. CASE c \in Shell /\ Open(c)
    <2>1. ProducerTypes'
      BY <1>4 DEF ProducerTypes, Open, Steps
    <2>2. HandlerTypes'
      BY <1>1, <1>4 DEF HandlerTypes, Open, history
    <2> QED
      BY <1>4, <2>1, <2>2 DEF Open
  <1>5. CASE c \in Shell /\ WaitToRead(c)
    <2>1. HandlerTypes'
      BY <1>1, <1>5 DEF HandlerTypes, WaitToRead, history
    <2> QED
      BY <1>5, <2>1 DEF WaitToRead, task
  <1>6. CASE c \in Shell /\ TryRead(c)
    <2>1. CASE queue[c] = <<>>
      <3>1. HandlerTypes'
        BY <1>1, <1>6, <2>1 DEF HandlerTypes, TryRead, history
      <3> QED
        BY <1>6, <2>1, <3>1 DEF TryRead, channel
    <2>2. CASE queue[c] # <<>>
      <3>1. queue[c] \in Seq(Entry)
        BY <1>6 DEF ChannelTypes
      <3>2. Head(queue[c]) \in Entry /\ Tail(queue[c]) \in Seq(Entry)
        BY <2>2, <3>1, HeadTailProperties
      <3>3. HandlerTypes'
        BY <1>1, <1>6, <2>2, <3>2 DEF HandlerTypes, TryRead, history, Entry
      <3>4. ChannelTypes'
        BY <1>6, <2>2, <3>2 DEF ChannelTypes, TryRead
      <3> QED
        BY <1>6, <3>3, <3>4 DEF TryRead
    <2> QED
      BY <2>1, <2>2
  <1>7. CASE c \in Shell /\ Deliver(c)
    <2>1. out[c] \in Kinds /\ "start" \in Kinds
      BY <1>7 DEF HandlerTypes, Kinds
    <2>2. delivered' \in [Shell -> [Kinds -> Nat]]
      BY <1>7, <2>1 DEF HandlerTypes, Deliver
    <2>3. late' \in [Shell -> BOOLEAN] /\ out' \in [Shell -> Kinds]
      BY <1>7, <2>1, Zenon DEF HandlerTypes, Deliver
    <2>4. faults' \in 0 .. MaxFaults
      BY <1>7 DEF HandlerTypes, Deliver
    <2>5. HandlerTypes'
      BY <1>1, <2>2, <2>3, <2>4 DEF HandlerTypes
    <2> QED
      BY <1>7, <2>5 DEF Deliver, task
  <1>8. CASE c \in Shell /\ DeliverFails(c)
    <2>1. "start" \in Kinds
      BY DEF Kinds
    <2>2. faults' \in 0 .. MaxFaults
      BY <1>8, LimitsAssumption DEF HandlerTypes, DeliverFails
    <2>3. HandlerTypes'
      BY <1>1, <1>8, <2>1, <2>2 DEF HandlerTypes, DeliverFails, history
    <2> QED
      BY <1>8, <2>3 DEF DeliverFails, task
  <1> QED
    BY <1>2, <1>3, <1>4, <1>5, <1>6, <1>7, <1>8 DEF Handle

LEMMA ClientTypes ==
  ASSUME TypeOK, NEW c \in Shell, ClientLeaves(c)
  PROVE  TypeOK'
  <1>1. ServiceTypes'
    BY TypeParts, CallsAssumption, Zenon DEF TypesByPart, ServiceTypes, ClientLeaves
  <1> QED
    BY <1>1, TypeParts, Frames DEF TypesByPart, ClientLeaves, task

LEMMA RequestsTypes ==
  ASSUME TypeOK, NEW k \in Requests, LookUp(k) \/ Cancel(k)
  PROVE  TypeOK'
  <1>1. CASE LookUp(k)
    <2>1. RequestTypes'
      BY <1>1, TypeParts DEF TypesByPart, RequestTypes, ServiceTypes, LookUp
    <2> QED
      BY <1>1, <2>1, TypeParts, Frames DEF TypesByPart, LookUp, task
  <1>2. CASE Cancel(k)
    <2>1. RequestTypes'
      BY <1>2, TypeParts DEF TypesByPart, RequestTypes, Cancel
    <2>2. cancelled' \in [Shell -> BOOLEAN]
      BY <1>2, TypeParts, Zenon DEF TypesByPart, ServiceTypes, Cancel
    <2>3. ServiceTypes'
      BY <1>2, <2>2, TypeParts DEF TypesByPart, ServiceTypes, Cancel
    <2> QED
      BY <1>2, <2>1, <2>3, TypeParts, Frames DEF TypesByPart, Cancel, task
  <1> QED
    BY <1>1, <1>2
------------------------------------------------------------------------------
(* The types after a step of the producer, its timer or its process. *)
LEMMA ProduceTypes ==
  ASSUME TypeOK, NEW c \in Shell, Produce(c) \/ TimeOut(c) \/ ProcessExits(c)
  PROVE  TypeOK'
  <1> USE TypeParts, Frames DEF TypesByPart
  <1>1. main' \in [Shell -> Steps]
    BY DEF ProducerTypes, Produce, Start, WaitForExit, WriteFinal, KillProcessTree, Interrupted,
           Complete, TimeOut, ProcessExits, ProducerGoes, producer, Steps
  <1>2. Terminals \subseteq Kinds /\ "start" \in Kinds
    BY DEF Kinds
  <1>3. numbers' \in [Shell -> Nat] \/ ~(Produce(c))
    <2>1. Produce(c) => DrawNumber(c) \/ UNCHANGED numbers
      BY Zenon DEF Produce, Start, WaitForExit, WriteFinal, KillProcessTree, WriteInterrupted,
                   Complete, channel
    <2> QED
      BY <2>1 DEF ChannelTypes, DrawNumber
  <1>4. ASSUME NEW kind \in Kinds, Put(c, "main", kind)
        PROVE  queue' \in [Shell -> Seq(Entry)]
    BY <1>4, PutTypes DEF ChannelTypes
  <1>5. CASE Start(c)
    <2>1. ChannelTypes'
      BY <1>2, <1>3, <1>4, <1>5 DEF ChannelTypes, Start, Produce
    <2>2. ProducerTypes'
      BY <1>1, <1>5 DEF ProducerTypes, Start
    <2>3. pump' \in [Shell -> [Pumps -> Places]]
      <3>1. \/ pump' = [pump EXCEPT ![c] = [p \in Pumps |-> "read"]]
            \/ pump' = pump
        BY <1>5, Zenon DEF Start
      <3> QED
        BY <3>1 DEF PumpTypes, Places
    <2>4. UNCHANGED <<lines, lineEvents, told>>
      BY <1>5 DEF Start
    <2>5. PumpTypes'
      BY <2>3, <2>4 DEF PumpTypes
    <2> QED
      BY <1>5, <2>1, <2>2, <2>5 DEF Start
  <1>6. CASE WaitForExit(c)
    <2>1. ProducerTypes'
      BY <1>1, <1>6 DEF ProducerTypes, WaitForExit
    <2> QED
      BY <1>6, <2>1 DEF WaitForExit
  <1>7. CASE WriteFinal(c)
    <2>1. queue' \in [Shell -> Seq(Entry)]
      BY <1>2, <1>4, <1>7 DEF WriteFinal, Terminals
    <2>2. ChannelTypes'
      BY <1>3, <1>7, <2>1 DEF ChannelTypes, Produce
    <2>3. ProducerTypes'
      BY <1>1, <1>7 DEF ProducerTypes, WriteFinal
    <2> QED
      BY <1>7, <2>2, <2>3 DEF WriteFinal
  <1>8. CASE KillProcessTree(c)
    <2>1. queue' \in [Shell -> Seq(Entry)]
      BY <1>2, <1>4, <1>8 DEF KillProcessTree, WriteInterrupted, Terminals
    <2>2. ChannelTypes'
      BY <1>3, <1>8, <2>1 DEF ChannelTypes, Produce
    <2>3. ProducerTypes'
      BY <1>1, <1>8 DEF ProducerTypes, KillProcessTree
    <2> QED
      BY <1>8, <2>2, <2>3 DEF KillProcessTree
  <1>9. CASE Complete(c)
    <2>1. queue[c] \in Seq(Entry) /\ Capacity \in Nat
      BY LimitsAssumption DEF ChannelTypes
    <2>2. SubSeq(queue[c], 1, IF Len(queue[c]) < Capacity THEN Len(queue[c]) ELSE Capacity)
            \in Seq(Entry)
      BY <2>1, CutTypes
    <2>3. ChannelTypes'
      BY <1>9, <2>2 DEF ChannelTypes, Complete
    <2>4. ProducerTypes'
      BY <1>1, <1>9 DEF ProducerTypes, Complete
    <2>5. PumpTypes'
      BY <1>9 DEF PumpTypes, Complete, Places
    <2> QED
      BY <1>9, <2>3, <2>4, <2>5 DEF Complete
  <1>10. CASE TimeOut(c)
    <2>1. ProducerTypes'
      BY <1>10 DEF ProducerTypes, TimeOut
    <2> QED
      BY <1>10, <2>1 DEF TimeOut
  <1>11. CASE ProcessExits(c)
    <2>1. ProducerTypes'
      BY <1>11 DEF ProducerTypes, ProcessExits
    <2> QED
      BY <1>11, <2>1 DEF ProcessExits
  <1> QED
    BY <1>5, <1>6, <1>7, <1>8, <1>9, <1>10, <1>11 DEF Produce

(* The types after a step of a pump. *)
LEMMA PumpStepTypes ==
  ASSUME TypeOK, NEW c \in Shell, NEW p \in Pumps, Pump(c, p) \/ EndOfFile(c, p)
  PROVE  TypeOK'
  <1> USE TypeParts, Frames DEF TypesByPart
  <1>1. pump' \in [Shell -> [Pumps -> Places]]
    <2>1. \E to \in Places : pump' = [pump EXCEPT ![c][p] = to]
      BY DEF Pump, ReadLine, Check, Write, Stop, EndOfFile, Reading, PumpGoes, Places
    <2> QED
      BY <2>1 DEF PumpTypes
  <1>2. numbers' \in [Shell -> Nat]
    <2>1. DrawNumber(c) \/ UNCHANGED numbers
      BY Zenon DEF Pump, ReadLine, Check, Write, Stop, EndOfFile, channel
    <2> QED
      BY <2>1 DEF ChannelTypes, DrawNumber
  <1>3. CASE ReadLine(c, p)
    <2>1. queue' \in [Shell -> Seq(Entry)]
      BY <1>3 DEF ChannelTypes, ReadLine
    <2>2. lines[c][p] \in Nat /\ MaxLines[p] \in Nat /\ lines[c][p] < MaxLines[p]
      <3>1. MaxLines["stdout"] \in Nat /\ MaxLines["stderr"] \in Nat
        BY LimitsAssumption
      <3>2. MaxLines[p] \in Nat
        BY <3>1 DEF Pumps
      <3>3. lines[c][p] \in Nat
        BY DEF PumpTypes
      <3>4. lines[c][p] < MaxLines[p]
        BY <1>3 DEF ReadLine
      <3> QED
        BY <3>2, <3>3, <3>4
    <2>3. lines' = [lines EXCEPT ![c][p] = @ + 1]
      BY <1>3 DEF ReadLine
    <2>4. lines' \in [Shell -> [Pumps -> Nat]]
      BY <2>2, <2>3 DEF PumpTypes
    <2>5. \A d \in Shell, q \in Pumps : lines'[d][q] <= MaxLines[q]
      BY <2>2, <2>3 DEF PumpTypes
    <2>6. lineEvents' \in [Shell -> 0 .. MaxLineEvents]
      <3>1. MaxLineEvents \in Nat
        BY LimitsAssumption
      <3>2. \/ lineEvents[c] < MaxLineEvents /\ lineEvents' = [lineEvents EXCEPT ![c] = @ + 1]
            \/ lineEvents' = lineEvents
        BY <1>3, Zenon DEF ReadLine
      <3> QED
        BY <3>1, <3>2 DEF PumpTypes
    <2>7. told' \in [Shell -> BOOLEAN]
      BY <1>3 DEF PumpTypes, ReadLine
    <2>8. ChannelTypes' /\ PumpTypes'
      BY <1>1, <1>2, <2>1, <2>4, <2>5, <2>6, <2>7 DEF ChannelTypes, PumpTypes
    <2> QED
      BY <1>3, <2>8 DEF ReadLine
  <1>4. CASE Check(c, p)
    <2>1. ChannelTypes'
      BY <1>2, <1>4 DEF ChannelTypes, Check
    <2>2. PumpTypes'
      BY <1>1, <1>4 DEF PumpTypes, Check
    <2> QED
      BY <1>4, <2>1, <2>2 DEF Check
  <1>5. CASE Write(c, p)
    <2>1. "line" \in Kinds /\ "truncated" \in Kinds /\ p \in Pumps \cup {"main"}
      BY DEF Kinds
    <2>2. queue' \in [Shell -> Seq(Entry)]
      BY <1>5, <2>1, PutTypes DEF ChannelTypes, Write
    <2>3. ChannelTypes' /\ PumpTypes'
      BY <1>1, <1>2, <1>5, <2>2 DEF ChannelTypes, PumpTypes, Write
    <2> QED
      BY <1>5, <2>3 DEF Write
  <1>6. CASE Stop(c, p)
    <2>1. CASE queue' = queue
      <3>1. ChannelTypes' /\ PumpTypes'
        BY <1>1, <1>2, <1>6, <2>1 DEF ChannelTypes, PumpTypes, Stop
      <3> QED
        BY <1>6, <3>1 DEF Stop
    <2>2. CASE Blocked(c, p) /\ queue' = [queue EXCEPT ![c] = Without(@, p)]
      <3>1. Without(queue[c], p) \in Seq(Entry)
        BY <2>2, WithoutTypes DEF ChannelTypes
      <3>2. ChannelTypes' /\ PumpTypes'
        BY <1>1, <1>2, <1>6, <2>2, <3>1 DEF ChannelTypes, PumpTypes, Stop
      <3> QED
        BY <1>6, <3>2 DEF Stop
    <2> QED
      BY <1>6, <2>1, <2>2 DEF Stop
  <1>7. CASE EndOfFile(c, p)
    <2>1. PumpTypes'
      BY <1>1, <1>7 DEF PumpTypes, EndOfFile
    <2> QED
      BY <1>7, <2>1 DEF EndOfFile
  <1> QED
    BY <1>3, <1>4, <1>5, <1>6, <1>7 DEF Pump

LEMMA TypeStep == TypeOK /\ [Next]_vars => TypeOK'
  <1> SUFFICES ASSUME TypeOK, [Next]_vars PROVE TypeOK'
    OBVIOUS
  <1>1. CASE Next
    BY <1>1, HandleTypes, RequestsTypes, ClientTypes, ProduceTypes, PumpStepTypes DEF Next
  <1>2. CASE UNCHANGED vars
    BY <1>2, TypeParts, Frames DEF TypesByPart, vars, task
  <1> QED
    BY <1>1, <1>2

(* Every variable keeps its type: no more lines than a pipe has, no more events
   than the limiter allows, entries of the channel only from its writers.      *)
THEOREM TypeCorrect == Spec => []TypeOK
  <1> QED
    BY TypeInit, TypeStep, PTL DEF Spec
------------------------------------------------------------------------------
(***************************************************************************)
(* The registry.  That an entry belongs to a call of its id, and that only *)
(* a call that has begun is registered, make RegistryTracks inductive.     *)
(***************************************************************************)
Begun(c) == rpc[c] \in Streaming \cup {"throw", "close"}

RegistryInv ==
  /\ ServiceTypes /\ rpc \in [Calls -> Labels]
  /\ \A i \in Ids : registry[i] # None => id[registry[i]] = i /\ Begun(registry[i])
  /\ \A c \in Calls : Begun(c) =>
       \/ registry[id[c]] = c
       \/ \E d \in Calls \ {c} : id[d] = id[c] /\ rpc[d] # "idle"

LEMMA RegistryInit == Init => RegistryInv
  BY TypeInit, TypeParts DEF Init, RegistryInv, TypesByPart, HandlerTypes, Begun, Streaming

LEMMA RegistryInvImplies == RegistryInv => RegistryTracks
  BY DEF RegistryInv, RegistryTracks, ServiceTypes, Begun, Streaming, Over

(* A step of a handler that has begun and goes on. *)
LEMMA RegistryGoesOn ==
  ASSUME RegistryInv, ServiceTypes', NEW c \in Calls, NEW from, NEW to,
         Begun(c), HandlerGoes(c, from, to),
         to \in Streaming \cup {"throw", "close"}, UNCHANGED <<id, registry>>
  PROVE  RegistryInv'
  <1>1. rpc' \in [Calls -> Labels]
    BY DEF RegistryInv, HandlerGoes, Labels, Streaming
  <1>2. \A d \in Calls : (Begun(d)' <=> Begun(d)) /\ (rpc'[d] = "idle" <=> rpc[d] = "idle")
    BY DEF RegistryInv, HandlerGoes, Begun, Streaming
  <1> QED
    BY <1>1, <1>2 DEF RegistryInv, ServiceTypes

LEMMA RegistryStep == RegistryInv /\ TypeOK /\ TypeOK' /\ [Next]_vars => RegistryInv'
  <1> SUFFICES ASSUME RegistryInv, TypeOK, TypeOK', [Next]_vars PROVE RegistryInv'
    OBVIOUS
  <1>1. ServiceTypes' /\ rpc' \in [Calls -> Labels]
    BY TypeParts DEF TypesByPart, HandlerTypes
  <1>2. ASSUME UNCHANGED <<id, registry, rpc>> PROVE RegistryInv'
    BY <1>1, <1>2 DEF RegistryInv, Begun
  <1>3. ASSUME NEW c \in Calls, Register(c) PROVE RegistryInv'
    <2>1. Begun(c)' /\ rpc[c] = "idle"
      BY <1>1, <1>3 DEF Register, HandlerGoes, Begun, Streaming, RegistryInv
    <2>2. \A d \in Calls \ {c} : Begun(d)' <=> Begun(d)
      BY <1>3 DEF Register, HandlerGoes, Begun, RegistryInv
    <2>3. /\ id' = id /\ registry' = [registry EXCEPT ![id[c]] = c]
      BY <1>3 DEF Register
    <2>4. rpc'[c] # "idle" /\ \A d \in Calls : rpc[d] # "idle" => rpc'[d] # "idle"
      BY <1>1, <1>3 DEF Register, HandlerGoes, RegistryInv
    <2>5. \A i \in Ids : (registry[i] # None => id[registry[i]] = i /\ Begun(registry[i]))'
      <3> TAKE i \in Ids
      <3>1. CASE i = id[c]
        BY <2>1, <2>3, <3>1 DEF RegistryInv, ServiceTypes, Begun
      <3>2. CASE i # id[c]
        <4>1. registry'[i] = registry[i]
          BY <2>3, <3>2 DEF RegistryInv, ServiceTypes
        <4>2. registry[i] # None => registry[i] \in Calls \ {c} /\ id[registry[i]] = i
          BY <3>2 DEF RegistryInv, ServiceTypes
        <4> QED
          BY <2>2, <2>3, <4>1, <4>2 DEF RegistryInv, Begun
      <3> QED
        BY <3>1, <3>2
    <2>6. \A d \in Calls : Begun(d)' =>
            \/ registry'[id'[d]] = d
            \/ \E e \in Calls \ {d} : id'[e] = id'[d] /\ rpc'[e] # "idle"
      <3> TAKE d \in Calls
      <3>1. CASE id[d] = id[c]
        BY <2>3, <2>4, <3>1 DEF RegistryInv, ServiceTypes
      <3>2. CASE id[d] # id[c]
        <4>1. registry'[id[d]] = registry[id[d]]
          BY <2>3, <3>2 DEF RegistryInv, ServiceTypes
        <4> QED
          BY <2>2, <2>3, <2>4, <3>2, <4>1 DEF RegistryInv
      <3> QED
        BY <3>1, <3>2
    <2> QED
      BY <1>1, <2>5, <2>6 DEF RegistryInv
  <1>4. ASSUME NEW c \in Calls, Leave(c) PROVE RegistryInv'
    <2>1. rpc'[c] \in Over /\ ~Begun(c)' /\ rpc'[c] # "idle"
      BY <1>1, <1>4 DEF Leave, HandlerGoes, Begun, Streaming, Over, RegistryInv
    <2>2. \A d \in Calls \ {c} : (Begun(d)' <=> Begun(d)) /\ rpc'[d] = rpc[d]
      BY <1>4 DEF Leave, HandlerGoes, Begun, RegistryInv
    <2>3. id' = id /\ registry' = [registry EXCEPT ![id[c]] = None]
      BY <1>4 DEF Leave
    <2>4. \A i \in Ids : (registry[i] # None => id[registry[i]] = i /\ Begun(registry[i]))'
      <3> TAKE i \in Ids
      <3> SUFFICES ASSUME registry'[i] # None
                   PROVE  (id[registry[i]] = i /\ Begun(registry[i]))'
        OBVIOUS
      <3>1. i # id[c] /\ registry'[i] = registry[i]
        BY <2>3 DEF RegistryInv, ServiceTypes
      <3>2. registry[i] \in Calls \ {c} /\ id[registry[i]] = i
        BY <3>1 DEF RegistryInv, ServiceTypes
      <3> QED
        BY <2>2, <2>3, <3>1, <3>2 DEF RegistryInv, Begun
    <2>5. \A d \in Calls : Begun(d)' =>
            \/ registry'[id'[d]] = d
            \/ \E e \in Calls \ {d} : id'[e] = id'[d] /\ rpc'[e] # "idle"
      <3> TAKE d \in Calls
      <3> SUFFICES ASSUME Begun(d)'
                   PROVE  \/ registry'[id'[d]] = d
                          \/ \E e \in Calls \ {d} : id'[e] = id'[d] /\ rpc'[e] # "idle"
        OBVIOUS
      <3>1. d # c /\ Begun(d)
        BY <2>1, <2>2
      <3>2. CASE id[d] = id[c]
        BY <2>1, <2>3, <3>1, <3>2
      <3>3. CASE id[d] # id[c]
        <4>1. registry'[id[d]] = registry[id[d]]
          BY <2>3, <3>3 DEF RegistryInv, ServiceTypes
        <4>2. \A e \in Calls : rpc[e] # "idle" => rpc'[e] # "idle"
          BY <2>1, <2>2
        <4> QED
          BY <2>3, <3>1, <4>1, <4>2 DEF RegistryInv
      <3> QED
        BY <3>2, <3>3
    <2> QED
      BY <1>1, <2>4, <2>5 DEF RegistryInv
  <1>5. ASSUME NEW c \in Shell,
               Open(c) \/ WaitToRead(c) \/ TryRead(c) \/ Deliver(c) \/ DeliverFails(c)
        PROVE  RegistryInv'
    <2>1. c \in Calls
      BY CallsAssumption
    <2>2. UNCHANGED <<id, registry>>
      BY <1>5 DEF Open, WaitToRead, TryRead, Deliver, DeliverFails, service
    <2>3. \E from \in Streaming, to \in Streaming \cup {"throw", "close"} :
            HandlerGoes(c, from, to)
      BY <1>5 DEF Open, WaitToRead, TryRead, Deliver, DeliverFails, Streaming
    <2>4. PICK from \in Streaming, to \in Streaming \cup {"throw", "close"} :
            HandlerGoes(c, from, to)
      BY <2>3
    <2>5. Begun(c)
      BY <2>4 DEF HandlerGoes, Begun
    <2> QED
      BY <1>1, <2>1, <2>2, <2>4, <2>5, RegistryGoesOn
  <1>6. ASSUME NEW k \in Requests, LookUp(k) \/ Cancel(k) PROVE UNCHANGED <<id, registry, rpc>>
    BY <1>6 DEF LookUp, Cancel, service, handler
  <1>7. ASSUME NEW c \in Shell, ClientLeaves(c) \/ Produce(c) \/ TimeOut(c) \/ ProcessExits(c)
        PROVE  UNCHANGED <<id, registry, rpc>>
    BY <1>7 DEF ClientLeaves, Produce, TimeOut, ProcessExits, Start, WaitForExit, WriteFinal,
                KillProcessTree, Complete, service, handler
  <1>8. ASSUME NEW c \in Shell, NEW p \in Pumps, Pump(c, p) \/ EndOfFile(c, p)
        PROVE  UNCHANGED <<id, registry, rpc>>
    BY <1>8 DEF Pump, EndOfFile, ReadLine, Check, Write, Stop, service, handler
  <1>9. CASE UNCHANGED vars
    BY <1>2, <1>9 DEF vars, service, handler
  <1>10. CASE Next
    BY <1>2, <1>3, <1>4, <1>5, <1>6, <1>7, <1>8, <1>10, CallsAssumption DEF Next, Handle
  <1> QED
    BY <1>9, <1>10

(* What CancelCommand looks up is a stream in progress, and each stream in progress
   can be looked up unless another call came with its id (ExecuteCommandStream
   writes and removes the entry without a look at it).                             *)
THEOREM RegistryIsTracked == Spec => []RegistryTracks
  <1>1. Init => TypeOK /\ RegistryInv
    BY TypeInit, RegistryInit
  <1>2. TypeOK /\ RegistryInv /\ [Next]_vars => (TypeOK /\ RegistryInv)'
    BY TypeStep, RegistryStep
  <1> QED
    BY <1>1, <1>2, RegistryInvImplies, PTL DEF Spec
------------------------------------------------------------------------------
(***************************************************************************)
(* What becomes of the events.  The invariants speak of one stream c.      *)
(***************************************************************************)
Exits  == {"exit", "exitTruncated"}
Finals == Exits \cup {"failed"}

(* The pumps once the process's output was read to its end, or if none started. *)
AllRead(c)  == Ended(c, {"eof"})
NonePump(c) == Ended(c, {"off"})

(* No pump runs, and nothing is written, before the producer has started the process. *)
BeginInv(c) ==
  /\ rpc[c] \in {"idle", "open"} => main[c] = "off"
  /\ main[c] = "off" => queue[c] = <<>>
  /\ main[c] \in {"off", "start", "failed"} => NonePump(c) /\ \A p \in Pumps : lines[c][p] = 0

(* Only a pump that has written waits for room, with one event. *)
WaitInv(c) ==
  \A p \in Pumps :
    /\ Blocked(c, p) => pump[c][p] \in {"lineSent", "noteSent"}
    /\ \A i, j \in Capacity + 1 .. Len(queue[c]) :
         queue[c][i].by = p /\ queue[c][j].by = p => i = j

(* No pump stops, and the producer does not give up, unless the call was cancelled
   or ran out of time.                                                             *)
StopInv(c) ==
  /\ \A p \in Pumps : pump[c][p] = "stopped" => Linked(c) \/ main[c] = "done"
  /\ main[c] \in {"sent", "done"} => Linked(c) \/ AllRead(c) \/ NonePump(c)

(* Two pumps share one limiter, and each looks at it after its own line. *)
LimitInv(c) ==
  /\ lineEvents[c] = lines[c]["stdout"] + lines[c]["stderr"]
       \/ lineEvents[c] = MaxLineEvents
  /\ told[c] => Truncated(c)
  /\ \A p \in Pumps :
       pump[c][p] \in {"read", "note", "noteSent", "eof"} /\ SinkTruncated(c, p) => told[c]
  /\ lineEvents[c] >= MaxLineEvents =>
       told[c] \/ \E p \in Pumps : pump[c][p] \in {"line", "lineSent", "stopped"}

Of(s, kinds) == {j \in 1 .. Len(s) : s[j].kind \in kinds}

Number(s, kinds) == Cardinality(Of(s, kinds))

Queued(c, kinds)  == Of(queue[c], kinds)
Writing(c, kinds) == rpc[c] = "write" /\ out[c] \in kinds

(* An event of the kind was written. *)
Written(c, k) == Queued(c, {k}) # {} \/ Writing(c, {k}) \/ delivered[c][k] > 0

(* After the result of a process that ended, or did not start, nothing is written;
   an interruption has a cause.                                                  *)
LastInv(c) ==
  /\ \A j \in 1 .. Len(queue[c]) : queue[c][j].kind \in Terminals => queue[c][j].by = "main"
  /\ \A k \in Terminals : Written(c, k) => main[c] \in {"sent", "done"}
  /\ \A k \in {"cancelled", "timeout"} : Written(c, k) => Linked(c)
  /\ Written(c, "failed") => NonePump(c)
  /\ \A k \in Exits : Written(c, k) => AllRead(c) /\ (Truncated(c) <=> k = "exitTruncated")
  /\ Queued(c, Finals) \subseteq {Len(queue[c])}
  /\ Writing(c, Finals) => queue[c] = <<>>
  /\ \A k \in Finals : delivered[c][k] > 0 => queue[c] = <<>> /\ rpc[c] # "write"
  /\ late[c] => Linked(c) /\ main[c] \in {"sent", "done"}

One(condition) == IF condition THEN 1 ELSE 0

(* How many events of the kinds the handler writes, how many pumps are about to
   write an event they have drawn a number for.                                 *)
InHand(c, kinds)  == One(Writing(c, kinds))
AtWork(c, places) ==
  One(pump[c]["stdout"] \in places) + One(pump[c]["stderr"] \in places)

Lost(c)  == rpc[c] \in {"throw", "failed"}
Whole(c) == ~Lost(c) /\ \A p \in Pumps : pump[c][p] # "stopped"

(* The events are somewhere, as long as no pump was stopped. *)
EndCount(c) ==
  ~Lost(c) => One(main[c] \in {"sent", "done"}) =
                Ends(c) + InHand(c, Terminals) + Number(queue[c], Terminals)
EventCount(c) ==
  Whole(c) =>
    /\ lineEvents[c] = delivered[c]["line"] + InHand(c, {"line"})
                         + Number(queue[c], {"line"}) + AtWork(c, {"line"})
    /\ One(told[c]) = delivered[c]["truncated"] + InHand(c, {"truncated"})
                         + Number(queue[c], {"truncated"}) + AtWork(c, {"note"})
    /\ numbers[c] = Events(c) + InHand(c, Kinds) + Len(queue[c]) + AtWork(c, {"line", "note"})

ToldTruth(c) ==
  /\ delivered[c]["exitTruncated"] > 0 => delivered[c]["truncated"] = 1
  /\ delivered[c]["exit"] > 0 =>
       /\ delivered[c]["truncated"] = 0
       /\ delivered[c]["line"] = lines[c]["stdout"] + lines[c]["stderr"]
       /\ \A p \in Pumps : ~SinkTruncated(c, p)

(* A stream is closed when its producer is done and all was handed on. *)
CloseInv(c) ==
  rpc[c] \in {"close", "ended"} =>
    /\ main[c] = "done" /\ Ends(c) = 1
    /\ ~timedOut[c] => /\ AllRead(c) \/ NonePump(c)
                       /\ ~late[c] /\ Events(c) = numbers[c]

StreamInv(c) ==
  /\ BeginInv(c) /\ WaitInv(c) /\ StopInv(c) /\ LimitInv(c) /\ LastInv(c)
  /\ EndCount(c) /\ EventCount(c) /\ ToldTruth(c) /\ CloseInv(c)
------------------------------------------------------------------------------
(***************************************************************************)
(* Sequences of events.                                                    *)
(***************************************************************************)
LEMMA OfFinite ==
  ASSUME NEW s \in Seq(Entry), NEW K
  PROVE  IsFiniteSet(Of(s, K)) /\ Cardinality(Of(s, K)) \in Nat
  <1>1. IsFiniteSet(1 .. Len(s))
    BY FS_Interval
  <1>2. Of(s, K) \subseteq 1 .. Len(s)
    BY DEF Of
  <1> QED
    BY <1>1, <1>2, FS_Subset, FS_CardinalityType

LEMMA OfAppend ==
  ASSUME NEW s \in Seq(Entry), NEW e \in Entry, NEW K
  PROVE  /\ Of(Append(s, e), K) = Of(s, K) \cup (IF e.kind \in K THEN {Len(s) + 1} ELSE {})
         /\ Cardinality(Of(Append(s, e), K)) = Cardinality(Of(s, K)) + One(e.kind \in K)
  <1> DEFINE t == Append(s, e)
  <1>1. Len(t) = Len(s) + 1 /\ Len(s) \in Nat /\ t[Len(s) + 1] = e
        /\ \A j \in 1 .. Len(s) : t[j] = s[j]
    OBVIOUS
  <1>2. 1 .. Len(t) = (1 .. Len(s)) \cup {Len(s) + 1}
    BY <1>1
  <1> HIDE DEF t
  <1>3. Of(t, K) = Of(s, K) \cup (IF e.kind \in K THEN {Len(s) + 1} ELSE {})
    BY <1>1, <1>2 DEF Of
  <1>4. Len(s) + 1 \notin Of(s, K)
    BY <1>1 DEF Of
  <1>5. Cardinality(Of(t, K)) = Cardinality(Of(s, K)) + One(e.kind \in K)
    <2>1. CASE e.kind \in K
      BY <1>3, <1>4, <2>1, OfFinite, FS_AddElement DEF One
    <2>2. CASE e.kind \notin K
      BY <1>3, <2>2, OfFinite DEF One
    <2> QED
      BY <2>1, <2>2
  <1> QED
    BY <1>3, <1>5 DEF t

(* A one-to-one map between indices. *)
LEMMA SameNumber ==
  ASSUME NEW S, NEW T, IsFiniteSet(S), NEW f \in Bijection(S, T)
  PROVE  Cardinality(T) = Cardinality(S)
  <1>1. ExistsBijection(S, T)
    BY DEF ExistsBijection
  <1> QED
    BY <1>1, FS_Bijection

LEMMA OfTail ==
  ASSUME NEW s \in Seq(Entry), s # <<>>, NEW K
  PROVE  /\ Len(Tail(s)) = Len(s) - 1 /\ Len(s) \in Nat \ {0} /\ Head(s) = s[1]
         /\ \A j \in 1 .. Len(s) - 1 : Tail(s)[j] = s[j + 1]
         /\ Cardinality(Of(s, K)) = Cardinality(Of(Tail(s), K)) + One(s[1].kind \in K)
  <1> DEFINE t == Tail(s)
  <1>1. Len(t) = Len(s) - 1 /\ Len(s) \in Nat \ {0} /\ Head(s) = s[1] /\ t \in Seq(Entry)
        /\ \A j \in 1 .. Len(s) - 1 : t[j] = s[j + 1]
    OBVIOUS
  <1> HIDE DEF t
  <1> DEFINE Rest == Of(s, K) \ {1}
             f == [j \in Of(t, K) |-> j + 1]
  <1>2. f \in Bijection(Of(t, K), Rest)
    <2>1. \A j \in Of(t, K) : j + 1 \in Rest /\ j \in Nat
      BY <1>1 DEF Of
    <2>2. \A i \in Rest : i - 1 \in Of(t, K) /\ (i - 1) + 1 = i
      BY <1>1 DEF Of
    <2>3. \A i, j \in Of(t, K) : i + 1 = j + 1 => i = j
      BY <2>1
    <2>4. f \in [Of(t, K) -> Rest] /\ \A i, j \in Of(t, K) : f[i] = f[j] => i = j
      BY <2>1, <2>3
    <2>5. \A i \in Rest : \E j \in Of(t, K) : f[j] = i
      BY <2>2
    <2> QED
      BY <2>4, <2>5 DEF Bijection, Injection, Surjection, IsInjective
  <1>3. Cardinality(Rest) = Cardinality(Of(t, K))
    BY <1>1, <1>2, OfFinite, SameNumber
  <1>4. 1 \in Of(s, K) <=> s[1].kind \in K
    BY <1>1 DEF Of
  <1>5. Cardinality(Of(s, K)) = Cardinality(Rest) + One(s[1].kind \in K)
    <2> DEFINE S == Of(s, K)
    <2>0. IsFiniteSet(S) /\ Cardinality(S) \in Nat
      BY OfFinite
    <2>3. Cardinality(S \ {1}) = IF 1 \in S THEN Cardinality(S) - 1 ELSE Cardinality(S)
      BY <2>0, FS_RemoveElement
    <2>4. One(s[1].kind \in K) = IF 1 \in S THEN 1 ELSE 0
      BY <1>4 DEF One
    <2> HIDE DEF S
    <2>1. CASE 1 \in S
      BY <2>0, <2>1, <2>3, <2>4 DEF S
    <2>2. CASE 1 \notin S
      BY <2>0, <2>2, <2>3, <2>4 DEF S
    <2> QED
      BY <2>1, <2>2
  <1> QED
    BY <1>1, <1>3, <1>5 DEF t

(* A waiting entry is taken out. *)
LEMMA OfWithout ==
  ASSUME NEW s \in Seq(Entry), NEW w,
         \E i \in Capacity + 1 .. Len(s) : s[i].by = w
  PROVE  \E g \in Capacity + 1 .. Len(s) :
           /\ s[g].by = w /\ Len(Without(s, w)) = Len(s) - 1
           /\ \A j \in 1 .. Len(s) - 1 : Without(s, w)[j] = IF j < g THEN s[j] ELSE s[j + 1]
  <1> DEFINE g == CHOOSE i \in Capacity + 1 .. Len(s) : s[i].by = w
             a == SubSeq(s, 1, g - 1)
             b == SubSeq(s, g + 1, Len(s))
  <1>1. g \in Capacity + 1 .. Len(s) /\ s[g].by = w
    OBVIOUS
  <1>2. Without(s, w) = a \o b
    BY DEF Without
  <1> HIDE DEF g
  <1>3. Capacity \in Nat /\ Len(s) \in Nat /\ g \in Nat /\ 1 <= g /\ g <= Len(s)
    BY <1>1, LimitsAssumption
  <1>4. /\ a \in Seq(Entry) /\ Len(a) = g - 1 /\ \A j \in 1 .. g - 1 : a[j] = s[j]
    BY <1>3
  <1>5. /\ b \in Seq(Entry) /\ Len(b) = Len(s) - g
        /\ \A j \in 1 .. Len(s) - g : b[j] = s[g + j]
    BY <1>3
  <1> HIDE DEF a, b
  <1>6. /\ Len(a \o b) = Len(s) - 1
        /\ \A j \in 1 .. Len(s) - 1 : (a \o b)[j] = IF j < g THEN a[j] ELSE b[j - (g - 1)]
    <2>1. /\ Len(a \o b) = Len(a) + Len(b)
          /\ \A j \in 1 .. Len(a) + Len(b) :
               (a \o b)[j] = IF j <= Len(a) THEN a[j] ELSE b[j - Len(a)]
      BY <1>4, <1>5, ConcatProperties
    <2>2. Len(a) + Len(b) = Len(s) - 1
      BY <1>3, <1>4, <1>5
    <2>3. \A j \in 1 .. Len(s) - 1 : j <= Len(a) <=> j < g
      BY <1>3, <1>4
    <2> QED
      BY <1>4, <2>1, <2>2, <2>3
  <1>7. ASSUME NEW j \in 1 .. Len(s) - 1
        PROVE  (a \o b)[j] = IF j < g THEN s[j] ELSE s[j + 1]
    <2>1. CASE j < g
      BY <1>3, <1>4, <1>6, <2>1
    <2>2. CASE ~(j < g)
      <3>1. j - (g - 1) \in 1 .. Len(s) - g /\ g + (j - (g - 1)) = j + 1
        BY <1>3, <2>2
      <3> QED
        BY <1>5, <1>6, <2>2, <3>1
    <2> QED
      BY <2>1, <2>2
  <1> QED
    BY <1>1, <1>2, <1>6, <1>7

(* What others have written stays. *)
LEMMA NumberWithout ==
  ASSUME NEW s \in Seq(Entry), NEW w, NEW K,
         \E i \in Capacity + 1 .. Len(s) : s[i].by = w,
         \A j \in 1 .. Len(s) : s[j].kind \in K => s[j].by # w
  PROVE  Cardinality(Of(Without(s, w), K)) = Cardinality(Of(s, K))
  <1> DEFINE t == Without(s, w)
  <1>1. PICK g \in Capacity + 1 .. Len(s) :
          /\ s[g].by = w /\ Len(t) = Len(s) - 1
          /\ \A j \in 1 .. Len(s) - 1 : t[j] = IF j < g THEN s[j] ELSE s[j + 1]
    BY OfWithout
  <1>2. Len(s) \in Nat /\ g \in Nat /\ 1 <= g /\ g <= Len(s)
    BY LimitsAssumption
  <1> HIDE DEF t
  <1> DEFINE f == [j \in Of(s, K) |-> IF j < g THEN j ELSE j - 1]
  <1>3. \A j \in Of(s, K) : j \in 1 .. Len(s) /\ j # g /\ s[j].kind \in K
    BY <1>1 DEF Of
  <1>4. ASSUME NEW j \in Of(s, K)
        PROVE  (IF j < g THEN j ELSE j - 1) \in Of(t, K)
    <2>1. CASE j < g
      <3>1. j \in 1 .. Len(s) - 1 /\ t[j] = s[j]
        BY <1>1, <1>2, <1>3, <2>1
      <3> QED
        BY <1>1, <1>3, <2>1, <3>1 DEF Of
    <2>2. CASE ~(j < g)
      <3>1. j - 1 \in 1 .. Len(s) - 1 /\ ~(j - 1 < g) /\ (j - 1) + 1 = j
        BY <1>2, <1>3, <2>2
      <3>2. t[j - 1] = s[j]
        BY <1>1, <3>1
      <3> QED
        BY <1>1, <1>3, <2>2, <3>1, <3>2 DEF Of
    <2> QED
      BY <2>1, <2>2
  <1>5. ASSUME NEW i \in Of(s, K), NEW j \in Of(s, K), f[i] = f[j]
        PROVE  i = j
    BY <1>2, <1>3, <1>5
  <1>6. ASSUME NEW i \in Of(t, K)
        PROVE  \E j \in Of(s, K) : f[j] = i
    <2>1. i \in 1 .. Len(s) - 1 /\ t[i].kind \in K
      BY <1>1 DEF Of
    <2>2. CASE i < g
      <3>1. i \in Of(s, K)
        BY <1>1, <1>2, <2>1, <2>2 DEF Of
      <3> QED
        BY <2>2, <3>1
    <2>3. CASE ~(i < g)
      <3>1. i + 1 \in Of(s, K)
        BY <1>1, <1>2, <2>1, <2>3 DEF Of
      <3>2. ~(i + 1 < g) /\ (i + 1) - 1 = i
        BY <1>2, <2>1, <2>3
      <3> QED
        BY <3>1, <3>2
    <2> QED
      BY <2>2, <2>3
  <1>7. f \in Bijection(Of(s, K), Of(t, K))
    BY <1>4, <1>5, <1>6 DEF Bijection, Injection, Surjection, IsInjective
  <1> HIDE DEF f
  <1> QED
    BY <1>7, OfFinite, SameNumber DEF t

LEMMA Numbers == ASSUME NEW s \in Seq(Entry), NEW K PROVE Number(s, K) \in Nat
  BY OfFinite DEF Number

LEMMA NoneInEmpty == ASSUME NEW K PROVE Number(<<>>, K) = 0 /\ Of(<<>>, K) = {}
  <1>1. Of(<<>>, K) = {}
    BY DEF Of
  <1> QED
    BY <1>1, FS_EmptySet DEF Number

LEMMA Appending ==
  ASSUME NEW s \in Seq(Entry), NEW e \in Entry, NEW t, t = Append(s, e)
  PROVE  /\ Len(s) \in Nat /\ Len(t) = Len(s) + 1 /\ t[Len(s) + 1] = e
         /\ \A j \in 1 .. Len(s) : t[j] = s[j]
         /\ \A K : Number(t, K) = Number(s, K) + One(e.kind \in K)
  BY OfAppend DEF Number

LEMMA Taking ==
  ASSUME NEW s \in Seq(Entry), s # <<>>, NEW t, t = Tail(s)
  PROVE  /\ Len(s) \in Nat \ {0} /\ Len(t) = Len(s) - 1 /\ Head(s) = s[1]
         /\ \A j \in 1 .. Len(s) - 1 : t[j] = s[j + 1]
         /\ \A K : Number(s, K) = Number(t, K) + One(s[1].kind \in K)
  BY OfTail DEF Number
------------------------------------------------------------------------------
(***************************************************************************)
(* Steps, seen from one stream.                                            *)
(***************************************************************************)
TypesAt(c) ==
  /\ rpc[c] \in Labels /\ out[c] \in Kinds /\ late[c] \in BOOLEAN
  /\ delivered[c] \in [Kinds -> Nat]
  /\ queue[c] \in Seq(Entry) /\ numbers[c] \in Nat
  /\ main[c] \in Steps /\ timedOut[c] \in BOOLEAN /\ cancelled[c] \in BOOLEAN
  /\ pump[c] \in [Pumps -> Places] /\ lines[c] \in [Pumps -> Nat]
  /\ lineEvents[c] \in 0 .. MaxLineEvents /\ told[c] \in BOOLEAN

LEMMA TypesHere ==
  ASSUME NEW c \in Shell
  PROVE  (TypeOK => TypesAt(c)) /\ (TypeOK' => TypesAt(c)')
  <1>1. c \in Calls
    BY CallsAssumption
  <1>2. ASSUME TypeOK PROVE TypesAt(c)
    <2>1. rpc[c] \in Labels /\ out[c] \in Kinds /\ late[c] \in BOOLEAN
          /\ delivered[c] \in [Kinds -> Nat]
      BY <1>1, <1>2, TypeParts DEF TypesByPart, HandlerTypes
    <2>2. queue[c] \in Seq(Entry) /\ numbers[c] \in Nat /\ cancelled[c] \in BOOLEAN
      BY <1>2, TypeParts DEF TypesByPart, ChannelTypes, ServiceTypes
    <2>3. main[c] \in Steps /\ timedOut[c] \in BOOLEAN
      BY <1>2, TypeParts DEF TypesByPart, ProducerTypes
    <2>4. pump[c] \in [Pumps -> Places] /\ lines[c] \in [Pumps -> Nat]
          /\ lineEvents[c] \in 0 .. MaxLineEvents /\ told[c] \in BOOLEAN
      BY <1>2, TypeParts DEF TypesByPart, PumpTypes
    <2> QED
      BY <2>1, <2>2, <2>3, <2>4 DEF TypesAt
  <1>3. ASSUME TypeOK' PROVE TypesAt(c)'
    <2>1. rpc'[c] \in Labels /\ out'[c] \in Kinds /\ late'[c] \in BOOLEAN
          /\ delivered'[c] \in [Kinds -> Nat]
      BY <1>1, <1>3, TypeParts DEF TypesByPart, HandlerTypes
    <2>2. queue'[c] \in Seq(Entry) /\ numbers'[c] \in Nat /\ cancelled'[c] \in BOOLEAN
      BY <1>3, TypeParts DEF TypesByPart, ChannelTypes, ServiceTypes
    <2>3. main'[c] \in Steps /\ timedOut'[c] \in BOOLEAN
      BY <1>3, TypeParts DEF TypesByPart, ProducerTypes
    <2>4. pump'[c] \in [Pumps -> Places] /\ lines'[c] \in [Pumps -> Nat]
          /\ lineEvents'[c] \in 0 .. MaxLineEvents /\ told'[c] \in BOOLEAN
      BY <1>3, TypeParts DEF TypesByPart, PumpTypes
    <2> QED
      BY <2>1, <2>2, <2>3, <2>4 DEF TypesAt
  <1> QED
    BY <1>2, <1>3

SameFlow(c)  == queue'[c] = queue[c] /\ numbers'[c] = numbers[c]
SameTold(c)  == delivered'[c] = delivered[c] /\ late'[c] = late[c]
SamePumps(c) ==
  /\ pump'[c] = pump[c] /\ lines'[c] = lines[c]
  /\ lineEvents'[c] = lineEvents[c] /\ told'[c] = told[c]

Settled(c) == main[c] \in {"sent", "done"}
SameSettled(c) ==
  main'[c] = main[c] \/ (main[c] # "done" /\ (Settled(c) <=> Settled(c)'))

(* The causes of an interruption stay.  Before the producer begins there is none. *)
KeepsCauses(c) ==
  /\ timedOut[c] => timedOut'[c]
  /\ Linked(c) => Linked(c)' \/ main[c] = "off"

(* The handler writes what it wrote, or nothing: then it has written nothing, or fails. *)
SameWriting(c) ==
  /\ Lost(c) => Lost(c)'
  /\ \/ rpc'[c] = rpc[c] /\ out'[c] = out[c]
     \/ rpc'[c] # "write" /\ (rpc[c] # "write" \/ Lost(c)')

(* What one part of the invariant does not speak of may change. *)
LEMMA WaitFrame ==
  ASSUME NEW c \in Shell, WaitInv(c), queue'[c] = queue[c], pump'[c] = pump[c]
  PROVE  WaitInv(c)'
  BY DEF WaitInv, Blocked

LEMMA StopFrame ==
  ASSUME NEW c \in Shell, BeginInv(c), StopInv(c), KeepsCauses(c), pump'[c] = pump[c],
         SameSettled(c)
  PROVE  StopInv(c)'
  <1>1. (AllRead(c) <=> AllRead(c)') /\ (NonePump(c) <=> NonePump(c)')
    BY DEF AllRead, NonePump, Ended
  <1>2. \A p \in Pumps : pump[c][p] = "stopped" => main[c] # "off"
    BY DEF BeginInv, NonePump, Ended
  <1>3. \A p \in Pumps : pump'[c][p] = "stopped" => Linked(c)' \/ main'[c] = "done"
    BY <1>2 DEF StopInv, KeepsCauses, SameSettled, Settled
  <1>4. Settled(c)' => Linked(c)' \/ AllRead(c)' \/ NonePump(c)'
    BY <1>1 DEF StopInv, KeepsCauses, SameSettled, Settled
  <1> QED
    BY <1>3, <1>4 DEF StopInv, Settled

LEMMA LimitFrame ==
  ASSUME NEW c \in Shell, LimitInv(c), SamePumps(c)
  PROVE  LimitInv(c)'
  BY DEF LimitInv, SamePumps, Truncated, SinkTruncated

LEMMA ToldFrame ==
  ASSUME NEW c \in Shell, ToldTruth(c), delivered'[c] = delivered[c], lines'[c] = lines[c]
  PROVE  ToldTruth(c)'
  BY DEF ToldTruth, SinkTruncated

LEMMA EndFrame ==
  ASSUME NEW c \in Shell, EndCount(c), Lost(c) => Lost(c)', SameTold(c), SameSettled(c),
         Lost(c)' \/ InHand(c, Terminals)' = InHand(c, Terminals),
         Number(queue'[c], Terminals) = Number(queue[c], Terminals)
  PROVE  EndCount(c)'
  <1>1. Settled(c)' <=> Settled(c)
    BY DEF SameSettled, Settled
  <1>2. One(main'[c] \in {"sent", "done"}) = One(main[c] \in {"sent", "done"})
    BY <1>1 DEF One, Settled
  <1>3. Ends(c)' = Ends(c)
    BY DEF Ends, SameTold
  <1> QED
    BY <1>2, <1>3 DEF EndCount

(* Nothing is written, read or taken; the handler or the producer may go on. *)
LEMMA QuietStep ==
  ASSUME NEW c \in Shell, StreamInv(c), SameTold(c), SameFlow(c), SamePumps(c),
         SameSettled(c), KeepsCauses(c), SameWriting(c), BeginInv(c)', CloseInv(c)'
  PROVE  StreamInv(c)'
  <1>1. /\ \A K : Queued(c, K)' = Queued(c, K) /\ (Writing(c, K)' => Writing(c, K))
        /\ \A k : Written(c, k)' => Written(c, k)
    BY DEF Queued, Writing, Written, SameFlow, SameTold, SameWriting
  <1>2. \A K : Lost(c)' \/ InHand(c, K)' = InHand(c, K)
    BY DEF InHand, Writing, One, SameWriting
  <1>3. WaitInv(c)' /\ StopInv(c)' /\ LimitInv(c)' /\ ToldTruth(c)'
    BY WaitFrame, StopFrame, LimitFrame, ToldFrame DEF StreamInv, SameFlow, SamePumps, SameTold
  <1>4. LastInv(c)'
    <2>1. /\ (AllRead(c) <=> AllRead(c)') /\ (NonePump(c) <=> NonePump(c)')
          /\ (Truncated(c) <=> Truncated(c)') /\ queue'[c] = queue[c]
      BY DEF AllRead, NonePump, Ended, Truncated, SinkTruncated, SamePumps, SameFlow
    <2>2. (Settled(c) => Settled(c)') /\ (Settled(c) /\ Linked(c) => Linked(c)')
      BY DEF SameSettled, KeepsCauses, Settled
    <2>3. \A k \in Terminals : Written(c, k)' => Settled(c)'
      BY <1>1, <2>2 DEF StreamInv, LastInv, Settled
    <2>4. \A k \in {"cancelled", "timeout"} : Written(c, k)' => Linked(c)'
      BY <1>1, <2>2 DEF StreamInv, LastInv, Terminals, Settled
    <2>5. /\ Written(c, "failed")' => NonePump(c)'
          /\ \A k \in Exits : Written(c, k)' =>
               AllRead(c)' /\ (Truncated(c)' <=> k = "exitTruncated")
      BY <1>1, <2>1 DEF StreamInv, LastInv
    <2>6. /\ Queued(c, Finals)' \subseteq {Len(queue'[c])}
          /\ Writing(c, Finals)' => queue'[c] = <<>>
      BY <1>1, <2>1 DEF StreamInv, LastInv
    <2>7. \A k \in Finals : delivered'[c][k] > 0 => queue'[c] = <<>> /\ rpc'[c] # "write"
      BY <2>1 DEF StreamInv, LastInv, SameTold, SameWriting
    <2>8. late'[c] => Linked(c)' /\ Settled(c)'
      BY <2>2 DEF StreamInv, LastInv, SameTold, Settled
    <2>9. \A j \in 1 .. Len(queue'[c]) :
            queue'[c][j].kind \in Terminals => queue'[c][j].by = "main"
      BY <2>1 DEF StreamInv, LastInv
    <2> QED
      BY <2>3, <2>4, <2>5, <2>6, <2>7, <2>8, <2>9 DEF LastInv, Settled
  <1>5. EndCount(c)'
    BY <1>2, EndFrame DEF StreamInv, SameFlow, SameWriting
  <1>6. EventCount(c)'
    <2> SUFFICES ASSUME Whole(c)' PROVE EventCount(c)'
      BY DEF EventCount
    <2>1. Whole(c) /\ ~Lost(c)'
      BY DEF Whole, SameWriting, SamePumps
    <2>2. /\ \A places : AtWork(c, places)' = AtWork(c, places)
          /\ Events(c)' = Events(c) /\ One(told[c])' = One(told[c])
          /\ lineEvents'[c] = lineEvents[c] /\ delivered'[c] = delivered[c]
      BY DEF AtWork, Events, Ends, SamePumps, SameTold, One
    <2> QED
      BY <1>2, <2>1, <2>2 DEF StreamInv, EventCount, SameFlow
  <1> QED
    BY <1>3, <1>4, <1>5, <1>6 DEF StreamInv

LEMMA EventNumbers ==
  ASSUME NEW c \in Shell, TypesAt(c)
  PROVE  /\ Ends(c) \in Nat /\ Events(c) \in Nat
         /\ \A k \in Kinds : delivered[c][k] \in Nat
  <1>1. \A k \in Kinds : delivered[c][k] \in Nat
    BY DEF TypesAt
  <1>2. /\ delivered[c]["exit"] \in Nat /\ delivered[c]["exitTruncated"] \in Nat
        /\ delivered[c]["failed"] \in Nat /\ delivered[c]["cancelled"] \in Nat
        /\ delivered[c]["timeout"] \in Nat
    BY <1>1 DEF Kinds, Terminals
  <1>3. /\ delivered[c]["start"] \in Nat /\ delivered[c]["line"] \in Nat
        /\ delivered[c]["truncated"] \in Nat
    BY <1>1 DEF Kinds
  <1>4. Ends(c) \in Nat
    BY <1>2 DEF Ends
  <1> QED
    BY <1>1, <1>3, <1>4 DEF Events

(* What belongs to the stream stays as it is. *)
Still(c) ==
  /\ SameTold(c) /\ SameFlow(c) /\ SamePumps(c)
  /\ rpc'[c] = rpc[c] /\ out'[c] = out[c] /\ main'[c] = main[c] /\ timedOut'[c] = timedOut[c]
  /\ cancelled[c] => cancelled'[c]

LEMMA StillStream ==
  ASSUME NEW c \in Shell, StreamInv(c), Still(c)
  PROVE  StreamInv(c)'
  <1>1. SameSettled(c) /\ SameWriting(c) /\ KeepsCauses(c)
    BY DEF Still, SameSettled, SameWriting, KeepsCauses, Linked, Lost
  <1>2. BeginInv(c)'
    BY DEF StreamInv, BeginInv, Still, SameFlow, SamePumps, NonePump, Ended
  <1>3. CloseInv(c)'
    <2>1. /\ Ends(c)' = Ends(c) /\ Events(c)' = Events(c) /\ numbers'[c] = numbers[c]
          /\ (AllRead(c) <=> AllRead(c)') /\ (NonePump(c) <=> NonePump(c)') /\ late'[c] = late[c]
      BY DEF Ends, Events, AllRead, NonePump, Ended, Still, SameTold, SameFlow, SamePumps
    <2> QED
      BY <2>1 DEF StreamInv, CloseInv, Still
  <1> QED
    BY <1>1, <1>2, <1>3, QuietStep DEF Still

(* A step of another call, or of a request. *)
LEMMA OtherHandler ==
  ASSUME TypeOK, NEW c \in Shell, NEW d \in Calls, d # c, Register(d) \/ Handle(d)
  PROVE  Still(c)
  <1>0. c \in Calls
    BY CallsAssumption
  <1>1. HandlerTypes /\ ChannelTypes /\ ServiceTypes /\ ProducerTypes
    BY TypeParts DEF TypesByPart
  <1>2. rpc'[c] = rpc[c]
    BY <1>0, <1>1 DEF Register, Handle, Leave, Open, WaitToRead, TryRead, Deliver, DeliverFails,
                      HandlerGoes, HandlerTypes
  <1>3. UNCHANGED <<pumps, timedOut, numbers>>
    BY DEF Register, Handle, Leave, Open, WaitToRead, TryRead, Deliver, DeliverFails, task, channel,
           producer
  <1>4. SamePumps(c) /\ timedOut'[c] = timedOut[c] /\ numbers'[c] = numbers[c]
    BY <1>3 DEF SamePumps, pumps
  <1>5. main'[c] = main[c] /\ queue'[c] = queue[c] /\ out'[c] = out[c]
    BY <1>1 DEF Register, Handle, Leave, Open, WaitToRead, TryRead, Deliver, DeliverFails, task,
                channel, producer, HandlerTypes, ChannelTypes, ProducerTypes
  <1>6. cancelled'[c] = cancelled[c]
    BY <1>1 DEF Register, Handle, Leave, Open, WaitToRead, TryRead, Deliver, DeliverFails, service,
                ServiceTypes
  <1>7. SameTold(c)
    BY <1>1 DEF Register, Handle, Leave, Open, WaitToRead, TryRead, Deliver, DeliverFails, history,
                HandlerTypes, SameTold
  <1> QED
    BY <1>2, <1>4, <1>5, <1>6, <1>7 DEF Still, SameFlow

LEMMA OtherShell ==
  ASSUME TypeOK, NEW c \in Shell, NEW d \in Shell, d # c, NEW p \in Pumps,
         \/ ClientLeaves(d) \/ Produce(d) \/ TimeOut(d) \/ ProcessExits(d)
         \/ Pump(d, p) \/ EndOfFile(d, p)
  PROVE  Still(c)
  <1>1. ChannelTypes /\ ServiceTypes /\ ProducerTypes /\ PumpTypes
    BY TypeParts DEF TypesByPart
  <1>2. UNCHANGED handler
    BY DEF ClientLeaves, Produce, TimeOut, ProcessExits, Start, WaitForExit, WriteFinal,
           KillProcessTree, Complete, Pump, EndOfFile, ReadLine, Check, Write, Stop
  <1>3. SameTold(c) /\ rpc'[c] = rpc[c] /\ out'[c] = out[c]
    BY <1>2 DEF SameTold, handler, history
  <1>4. CASE ClientLeaves(d) \/ TimeOut(d) \/ ProcessExits(d)
    <2>1. UNCHANGED <<channel, main, pumps>>
      BY <1>4 DEF ClientLeaves, TimeOut, ProcessExits, task, producer
    <2>2. timedOut'[c] = timedOut[c] /\ cancelled'[c] = cancelled[c]
      BY <1>1, <1>4 DEF ClientLeaves, TimeOut, ProcessExits, task, producer, service,
                        ServiceTypes, ProducerTypes
    <2> QED
      BY <1>3, <2>1, <2>2 DEF Still, SameFlow, SamePumps, channel, pumps
  <1>5. CASE Produce(d)
    <2>1. UNCHANGED <<service, timedOut, lines, lineEvents, told>>
      BY <1>5 DEF Produce, Start, WaitForExit, WriteFinal, KillProcessTree, Complete, pumps
    <2>2. main'[c] = main[c]
      BY <1>1, <1>5 DEF Produce, Start, WaitForExit, WriteFinal, KillProcessTree, Interrupted,
                        Complete, ProducerGoes, ProducerTypes
    <2>3. queue'[c] = queue[c] /\ numbers'[c] = numbers[c]
      BY <1>1, <1>5 DEF Produce, Start, WaitForExit, WriteFinal, KillProcessTree, WriteInterrupted,
                        Complete, Put, DrawNumber, channel, ChannelTypes
    <2>4. pump'[c] = pump[c]
      BY <1>1, <1>5 DEF Produce, Start, WaitForExit, WriteFinal, KillProcessTree, Complete, pumps,
                        PumpTypes
    <2> QED
      BY <1>3, <2>1, <2>2, <2>3, <2>4 DEF Still, SameFlow, SamePumps, service
  <1>6. CASE Pump(d, p) \/ EndOfFile(d, p)
    <2>1. UNCHANGED <<service, producer>>
      BY <1>6 DEF Pump, EndOfFile, ReadLine, Check, Write, Stop
    <2>2. queue'[c] = queue[c] /\ numbers'[c] = numbers[c]
      BY <1>1, <1>6 DEF Pump, EndOfFile, ReadLine, Check, Write, Stop, Put, DrawNumber, channel,
                        ChannelTypes
    <2>3. pump'[c] = pump[c]
      BY <1>1, <1>6 DEF Pump, EndOfFile, ReadLine, Check, Write, Stop, Reading, PumpGoes, PumpTypes
    <2>4. lines'[c] = lines[c] /\ lineEvents'[c] = lineEvents[c] /\ told'[c] = told[c]
      BY <1>1, <1>6 DEF Pump, EndOfFile, ReadLine, Check, Write, Stop, PumpTypes
    <2> QED
      BY <1>3, <2>1, <2>2, <2>3, <2>4 DEF Still, SameFlow, SamePumps, service, producer
  <1> QED
    BY <1>4, <1>5, <1>6

LEMMA OtherRequest ==
  ASSUME TypeOK, NEW c \in Shell, NEW k \in Requests, LookUp(k) \/ Cancel(k)
  PROVE  Still(c)
  <1>1. UNCHANGED <<handler, task>>
    BY DEF LookUp, Cancel
  <1>2. cancelled[c] => cancelled'[c]
    <2>1. CASE LookUp(k)
      BY <2>1 DEF LookUp, service
    <2>2. CASE Cancel(k)
      <3>1. cancelled' = [d \in Shell |-> cancelled[d]
                                            \/ (d = request[k] /\ rpc[request[k]] \notin Over)]
        BY <2>2, Zenon DEF Cancel
      <3> QED
        BY <3>1
    <2> QED
      BY <2>1, <2>2
  <1> QED
    BY <1>1, <1>2 DEF Still, SameTold, SameFlow, SamePumps, handler, history, task, channel,
                      producer, pumps

LEMMA Stutter ==
  ASSUME NEW c \in Shell, UNCHANGED vars
  PROVE  Still(c)
  BY DEF Still, SameTold, SameFlow, SamePumps, vars, service, handler, history, task, channel,
         producer, pumps

(* The stream's own steps that neither write nor read. *)
LEMMA OwnQuietSteps ==
  ASSUME TypeOK, NEW c \in Shell, StreamInv(c),
         \/ Register(c) \/ Leave(c) \/ Open(c) \/ WaitToRead(c) \/ DeliverFails(c)
         \/ ClientLeaves(c) \/ WaitForExit(c) \/ TimeOut(c) \/ ProcessExits(c)
  PROVE  StreamInv(c)'
  <1>0. c \in Calls
    BY CallsAssumption
  <1>1. HandlerTypes /\ ServiceTypes /\ ProducerTypes
    BY TypeParts DEF TypesByPart
  <1>2. UNCHANGED <<history, channel, pumps>>
    BY DEF Register, Leave, Open, WaitToRead, DeliverFails, ClientLeaves, WaitForExit, TimeOut,
           ProcessExits, handler, task
  <1>3. SameTold(c) /\ SameFlow(c) /\ SamePumps(c)
    BY <1>2 DEF SameTold, SameFlow, SamePumps, history, channel, pumps
  <1>4. \/ /\ main'[c] = main[c] /\ main' = main
        \/ main[c] = "off" /\ main'[c] = "start" /\ Open(c) /\ rpc'[c] = "wait"
        \/ main[c] = "run" /\ main'[c] = "join" /\ WaitForExit(c)
    <2>1. CASE Open(c)
      <3>1. rpc[c] = "open" /\ (main' = main \/ (main'[c] = "start" /\ rpc'[c] = "wait"))
        <4>1. \/ HandlerGoes(c, "open", "throw") /\ main' = main
              \/ HandlerGoes(c, "open", "wait") /\ main' = [main EXCEPT ![c] = "start"]
          BY <2>1 DEF Open
        <4>2. rpc \in [Calls -> Labels] /\ main \in [Shell -> Steps]
          BY <1>1 DEF HandlerTypes, ProducerTypes
        <4>3. CASE HandlerGoes(c, "open", "throw") /\ main' = main
          BY <4>3 DEF HandlerGoes
        <4>4. CASE HandlerGoes(c, "open", "wait") /\ main' = [main EXCEPT ![c] = "start"]
          BY <1>0, <4>2, <4>4 DEF HandlerGoes
        <4> QED
          BY <4>1, <4>3, <4>4
      <3> QED
        BY <2>1, <3>1 DEF StreamInv, BeginInv
    <2>2. CASE WaitForExit(c)
      BY <1>1, <2>2 DEF WaitForExit, ProducerGoes, ProducerTypes
    <2>3. CASE Register(c) \/ Leave(c) \/ WaitToRead(c) \/ DeliverFails(c) \/ ClientLeaves(c)
               \/ TimeOut(c) \/ ProcessExits(c)
      BY <2>3 DEF Register, Leave, WaitToRead, DeliverFails, ClientLeaves, TimeOut, ProcessExits,
                  task, producer
    <2> QED
      BY <2>1, <2>2, <2>3
  <1>5. \/ rpc'[c] = rpc[c] /\ out'[c] = out[c]
        \/ Register(c) /\ rpc[c] = "idle" /\ rpc'[c] = "open"
        \/ Open(c) /\ rpc[c] = "open" /\ rpc'[c] \in {"throw", "wait"}
        \/ WaitToRead(c) /\ rpc[c] = "wait" /\ rpc'[c] \in {"drain", "close", "throw"}
        \/ DeliverFails(c) /\ rpc[c] = "write" /\ rpc'[c] = "throw"
        \/ Leave(c) /\ rpc[c] = "close" /\ rpc'[c] = "ended"
        \/ Leave(c) /\ rpc[c] = "throw" /\ rpc'[c] = "failed"
    <2>1. ASSUME NEW from, NEW to, HandlerGoes(c, from, to)
          PROVE  rpc[c] = from /\ rpc'[c] = to
      BY <1>0, <1>1, <2>1 DEF HandlerGoes, HandlerTypes
    <2>2. CASE ClientLeaves(c) \/ WaitForExit(c) \/ TimeOut(c) \/ ProcessExits(c)
      BY <2>2 DEF ClientLeaves, WaitForExit, TimeOut, ProcessExits, handler
    <2>3. CASE Register(c) \/ Open(c)
      BY <2>1, <2>3 DEF Register, Open
    <2>4. CASE WaitToRead(c) \/ DeliverFails(c)
      BY <2>1, <2>4 DEF WaitToRead, DeliverFails
    <2>5. CASE Leave(c)
      BY <2>1, <2>5 DEF Leave
    <2> QED
      BY <2>2, <2>3, <2>4, <2>5
  <1>6. SameSettled(c) /\ SameWriting(c)
    BY <1>4, <1>5 DEF SameSettled, Settled, SameWriting, Lost
  <1>7. KeepsCauses(c)
    <2>1. timedOut[c] => timedOut'[c]
      BY <1>1 DEF Register, Leave, Open, WaitToRead, DeliverFails, ClientLeaves, WaitForExit,
           TimeOut, ProcessExits, task, producer, ProducerTypes
    <2>2. cancelled[c] => cancelled'[c] \/ rpc[c] = "idle"
      BY <1>1, <1>0 DEF Register, Leave, Open, WaitToRead, DeliverFails, ClientLeaves, WaitForExit,
           TimeOut, ProcessExits, HandlerGoes, service, ServiceTypes
    <2> QED
      BY <2>1, <2>2 DEF KeepsCauses, Linked, StreamInv, BeginInv
  <1>8. BeginInv(c)'
    BY <1>3, <1>4, <1>5 DEF StreamInv, BeginInv, SameFlow, SamePumps, NonePump, Ended
  <1>9. CloseInv(c)'
    <2>1. /\ Ends(c)' = Ends(c) /\ Events(c)' = Events(c) /\ numbers'[c] = numbers[c]
          /\ (AllRead(c) <=> AllRead(c)') /\ (NonePump(c) <=> NonePump(c)') /\ late'[c] = late[c]
      BY <1>3 DEF Ends, Events, AllRead, NonePump, Ended, SameTold, SameFlow, SamePumps
    <2>2. CASE rpc[c] \in {"close", "ended"}
      BY <1>4, <1>7, <2>1, <2>2 DEF StreamInv, CloseInv, KeepsCauses
    <2>3. CASE WaitToRead(c) /\ rpc[c] = "wait" /\ rpc'[c] = "close"
      <3>1. /\ ~cancelled[c] /\ queue[c] = <<>> /\ main[c] = "done" /\ main'[c] = "done"
            /\ timedOut'[c] = timedOut[c]
        BY <1>0, <1>1, <2>3 DEF WaitToRead, HandlerGoes, HandlerTypes, Completed, task, producer
      <3>2. ~Lost(c) /\ InHand(c, Terminals) = 0 /\ InHand(c, Kinds) = 0
        BY <2>3 DEF Lost, InHand, Writing, One
      <3>3. Number(queue[c], Terminals) = 0 /\ Len(queue[c]) = 0
        BY <3>1, NoneInEmpty
      <3>4. TypesAt(c)
        BY TypesHere
      <3>5. Ends(c) \in Nat /\ Events(c) \in Nat
        BY <3>4, EventNumbers
      <3>6. Ends(c) = 1
        BY <3>1, <3>2, <3>3, <3>5 DEF StreamInv, EndCount, One
      <3>7. ASSUME ~timedOut[c]
            PROVE  (AllRead(c) \/ NonePump(c)) /\ ~late[c] /\ Events(c) = numbers[c]
        <4>1. ~Linked(c)
          BY <3>1, <3>7 DEF Linked
        <4>2. AllRead(c) \/ NonePump(c)
          BY <3>1, <4>1 DEF StreamInv, StopInv
        <4>3. ~late[c]
          BY <4>1 DEF StreamInv, LastInv
        <4>4. AtWork(c, {"line", "note"}) = 0 /\ Whole(c)
          BY <3>2, <4>2 DEF AtWork, AllRead, NonePump, Ended, One, Pumps, Whole
        <4>5. Events(c) = numbers[c]
          BY <3>2, <3>3, <3>5, <4>4 DEF StreamInv, EventCount
        <4> QED
          BY <4>2, <4>3, <4>5
      <3> QED
        BY <2>1, <3>1, <3>6, <3>7 DEF CloseInv
    <2>4. CASE rpc'[c] \notin {"close", "ended"}
      BY <2>4 DEF CloseInv
    <2> QED
      BY <1>5, <2>2, <2>3, <2>4
  <1> QED
    BY <1>3, <1>6, <1>7, <1>8, <1>9, QuietStep
------------------------------------------------------------------------------
(***************************************************************************)
(* The handler takes an event from the channel and hands it on.            *)
(***************************************************************************)
LEMMA TryReadStep ==
  ASSUME TypeOK, NEW c \in Shell, StreamInv(c), TryRead(c)
  PROVE  StreamInv(c)'
  <1>0. c \in Calls /\ TypesAt(c)
    BY CallsAssumption, TypesHere
  <1>1. HandlerTypes /\ ChannelTypes
    BY TypeParts DEF TypesByPart
  <1>2. UNCHANGED <<service, history, numbers, producer, pumps>>
    BY DEF TryRead
  <1>3. /\ SameTold(c) /\ SamePumps(c) /\ numbers'[c] = numbers[c] /\ main'[c] = main[c]
        /\ KeepsCauses(c) /\ SameSettled(c)
    BY <1>2 DEF SameTold, SamePumps, KeepsCauses, Linked, SameSettled, service, history, producer,
                pumps
  <1>4. rpc[c] = "drain"
    BY DEF TryRead, HandlerGoes
  <1>5. CASE queue[c] = <<>>
    <2>1. rpc'[c] = "wait" /\ queue' = queue
      BY <1>0, <1>1, <1>5 DEF TryRead, HandlerGoes, HandlerTypes
    <2>2. SameFlow(c) /\ SameWriting(c) /\ CloseInv(c)'
      BY <1>3, <1>4, <2>1 DEF SameFlow, SameWriting, Lost, CloseInv
    <2>3. BeginInv(c)'
      BY <1>3, <1>4, <2>1 DEF StreamInv, BeginInv, SamePumps, NonePump, Ended
    <2> QED
      BY <1>3, <2>2, <2>3, QuietStep
  <1>6. CASE queue[c] # <<>>
    <2> DEFINE s == queue[c]
               t == queue'[c]
    <2>1. rpc'[c] = "write" /\ out'[c] = Head(s).kind /\ t = Tail(s)
      BY <1>0, <1>1, <1>6 DEF TryRead, HandlerGoes, HandlerTypes, ChannelTypes
    <2>2. /\ Len(s) \in Nat \ {0} /\ Len(t) = Len(s) - 1 /\ out'[c] = s[1].kind
          /\ \A j \in 1 .. Len(s) - 1 : t[j] = s[j + 1]
      BY <1>0, <1>6, <2>1, Taking DEF TypesAt
    <2>3. \A K : Number(s, K) = Number(t, K) + One(s[1].kind \in K)
      BY <1>0, <1>6, <2>1, Taking DEF TypesAt
    <2>4. t \in Seq(Entry) /\ s \in Seq(Entry)
      BY <1>0, <1>6, <2>1 DEF TypesAt
    <2> HIDE DEF s, t
    <2>5. \A j \in 1 .. Len(t) : j \in Nat /\ j + 1 \in 1 .. Len(s) /\ t[j] = s[j + 1]
      BY <2>2
    <2>6. BeginInv(c)'
      BY <1>3, <1>6, <2>1 DEF StreamInv, BeginInv, SamePumps, NonePump, Ended
    <2>7. WaitInv(c)'
      <3>1. Capacity \in Nat
        BY LimitsAssumption
      <3>2. \A i \in Capacity + 1 .. Len(t) :
              i \in Int /\ i + 1 \in Capacity + 1 .. Len(s) /\ t[i] = s[i + 1]
        BY <2>2, <3>1
      <3>3. \A p \in Pumps : Blocked(c, p)' => Blocked(c, p)
        BY <3>2 DEF Blocked, s, t
      <3>4. ASSUME NEW p \in Pumps, NEW i \in Capacity + 1 .. Len(t),
                   NEW j \in Capacity + 1 .. Len(t), t[i].by = p, t[j].by = p
            PROVE  i = j
        <4>1. i + 1 = j + 1
          BY <3>2, <3>4 DEF StreamInv, WaitInv, s
        <4> QED
          BY <3>2, <4>1
      <3> QED
        BY <1>3, <3>3, <3>4 DEF StreamInv, WaitInv, SamePumps, t
    <2>8. StopInv(c)' /\ LimitInv(c)' /\ ToldTruth(c)'
      BY <1>3, StopFrame, LimitFrame, ToldFrame DEF StreamInv, SamePumps, SameTold
    <2>9. LastInv(c)'
      <3>1. \A K : \A j \in Queued(c, K)' : j + 1 \in Queued(c, K) /\ j \in 1 .. Len(t)
        BY <2>5 DEF Queued, Of, s, t
      <3>2. \A K : Writing(c, K)' => 1 \in Queued(c, K)
        BY <2>2 DEF Queued, Of, Writing, s
      <3>3. \A k : Written(c, k)' => Written(c, k)
        BY <1>3, <3>1, <3>2 DEF Written, SameTold
      <3>4. \A k \in Terminals : Written(c, k)' => Settled(c)'
        BY <1>3, <3>3 DEF StreamInv, LastInv, Settled
      <3>5. \A k \in {"cancelled", "timeout"} : Written(c, k)' => Linked(c)'
        BY <1>3, <3>3, <3>4 DEF StreamInv, LastInv, KeepsCauses, Terminals, Settled
      <3>6. /\ (AllRead(c) <=> AllRead(c)') /\ (NonePump(c) <=> NonePump(c)')
            /\ (Truncated(c) <=> Truncated(c)')
        BY <1>3 DEF AllRead, NonePump, Ended, Truncated, SinkTruncated, SamePumps
      <3>7. /\ Written(c, "failed")' => NonePump(c)'
            /\ \A k \in Exits : Written(c, k)' =>
                 AllRead(c)' /\ (Truncated(c)' <=> k = "exitTruncated")
        BY <3>3, <3>6 DEF StreamInv, LastInv
      <3>8. Queued(c, Finals)' \subseteq {Len(t)}
        <4>1. \A j \in Queued(c, Finals)' : j + 1 = Len(s) /\ j \in 1 .. Len(t)
          BY <3>1 DEF StreamInv, LastInv, s
        <4> QED
          BY <2>2, <4>1
      <3>9. Writing(c, Finals)' => t = <<>>
        <4>1. Writing(c, Finals)' => 1 = Len(s)
          BY <3>2 DEF StreamInv, LastInv, s
        <4> QED
          BY <2>2, <2>4, <4>1, EmptySeq
      <3>10. \A k \in Finals : ~(delivered'[c][k] > 0)
        BY <1>3, <1>6 DEF StreamInv, LastInv, SameTold
      <3>11. late'[c] => Linked(c)' /\ Settled(c)'
        BY <1>3 DEF StreamInv, LastInv, SameTold, KeepsCauses, Settled
      <3>12. \A j \in 1 .. Len(t) : t[j].kind \in Terminals => t[j].by = "main"
        BY <2>5 DEF StreamInv, LastInv, s
      <3> QED
        BY <3>4, <3>5, <3>7, <3>8, <3>9, <3>10, <3>11, <3>12 DEF LastInv, Settled, t
    <2>10. \A K : InHand(c, K) = 0 /\ InHand(c, K)' = One(s[1].kind \in K)
      BY <1>4, <2>1, <2>2 DEF InHand, Writing, One
    <2>11. \A K : InHand(c, K)' + Number(t, K) = InHand(c, K) + Number(s, K)
      <3>1. \A K : Number(t, K) \in Nat /\ One(s[1].kind \in K) \in Nat
        BY <2>4, Numbers DEF One
      <3> QED
        BY <2>3, <2>10, <3>1
    <2>12. /\ Ends(c)' = Ends(c) /\ Events(c)' = Events(c) /\ Ends(c) \in Nat /\ Events(c) \in Nat
           /\ \A k \in Kinds : delivered[c][k] \in Nat
      BY <1>0, <1>3, EventNumbers DEF Ends, Events, SameTold
    <2>13. \A K : /\ InHand(c, K) \in Nat /\ InHand(c, K)' \in Nat
                  /\ Number(s, K) \in Nat /\ Number(t, K) \in Nat
      BY <2>4, <2>10, Numbers DEF One
    <2>14. ~Lost(c) /\ ~Lost(c)'
      BY <1>4, <2>1 DEF Lost
    <2>15. EndCount(c)'
      BY <1>3, <2>11, <2>12, <2>13, <2>14 DEF StreamInv, EndCount, s, t
    <2>16. EventCount(c)'
      <3> SUFFICES ASSUME Whole(c)' PROVE EventCount(c)'
        BY DEF EventCount
      <3>1. Whole(c)
        BY <1>3, <2>14 DEF Whole, SamePumps
      <3>2. \A places : AtWork(c, places)' = AtWork(c, places) /\ AtWork(c, places) \in Nat
        BY <1>3 DEF AtWork, SamePumps, One
      <3>3. lineEvents'[c] = lineEvents[c] /\ One(told'[c]) = One(told[c])
            /\ delivered'[c] = delivered[c] /\ numbers'[c] = numbers[c]
        BY <1>3 DEF SamePumps, SameTold
      <3>4. InHand(c, Kinds)' = 1 /\ InHand(c, Kinds) = 0
        <4>2. s[1] \in Entry
          BY <2>2, <2>4
        <4>1. s[1].kind \in Kinds
          BY <4>2 DEF Entry
        <4> QED
          BY <2>10, <4>1 DEF One
      <3>5. delivered[c]["line"] \in Nat /\ delivered[c]["truncated"] \in Nat
        BY <2>12 DEF Kinds
      <3>9. ASSUME NEW k
            PROVE  /\ InHand(c, {k})' + Number(t, {k}) = InHand(c, {k}) + Number(s, {k})
                   /\ InHand(c, {k}) \in Nat /\ InHand(c, {k})' \in Nat
                   /\ Number(s, {k}) \in Nat /\ Number(t, {k}) \in Nat
        BY <2>11, <2>13
      <3>10. /\ lineEvents[c] = delivered[c]["line"] + InHand(c, {"line"})
                                  + Number(s, {"line"}) + AtWork(c, {"line"})
             /\ One(told[c]) = delivered[c]["truncated"] + InHand(c, {"truncated"})
                                  + Number(s, {"truncated"}) + AtWork(c, {"note"})
        BY <3>1 DEF StreamInv, EventCount, s
      <3>6. lineEvents'[c] = delivered'[c]["line"] + InHand(c, {"line"})'
                               + Number(t, {"line"}) + AtWork(c, {"line"})'
        <4>1. /\ InHand(c, {"line"})' + Number(t, {"line"}) = InHand(c, {"line"}) + Number(s, {"line"})
              /\ InHand(c, {"line"}) \in Nat /\ InHand(c, {"line"})' \in Nat
              /\ Number(s, {"line"}) \in Nat /\ Number(t, {"line"}) \in Nat
          BY <3>9
        <4>2. AtWork(c, {"line"})' = AtWork(c, {"line"}) /\ AtWork(c, {"line"}) \in Nat
          BY <3>2
        <4> QED
          BY <3>3, <3>5, <3>10, <4>1, <4>2
      <3>7. One(told'[c]) = delivered'[c]["truncated"] + InHand(c, {"truncated"})'
                               + Number(t, {"truncated"}) + AtWork(c, {"note"})'
        <4>1. /\ InHand(c, {"truncated"})' + Number(t, {"truncated"}) = InHand(c, {"truncated"}) + Number(s, {"truncated"})
              /\ InHand(c, {"truncated"}) \in Nat /\ InHand(c, {"truncated"})' \in Nat
              /\ Number(s, {"truncated"}) \in Nat /\ Number(t, {"truncated"}) \in Nat
          BY <3>9
        <4>2. AtWork(c, {"note"})' = AtWork(c, {"note"}) /\ AtWork(c, {"note"}) \in Nat
          BY <3>2
        <4> QED
          BY <3>3, <3>5, <3>10, <4>1, <4>2
      <3>8. numbers'[c] = Events(c)' + InHand(c, Kinds)' + Len(t) + AtWork(c, {"line", "note"})'
        BY <2>2, <2>12, <3>1, <3>2, <3>3, <3>4 DEF StreamInv, EventCount, s
      <3> QED
        BY <3>6, <3>7, <3>8 DEF EventCount, t
    <2>17. CloseInv(c)'
      BY <2>1 DEF CloseInv
    <2> QED
      BY <2>6, <2>7, <2>8, <2>9, <2>15, <2>16, <2>17 DEF StreamInv
  <1> QED
    BY <1>5, <1>6

(* What one more event of a kind makes of the numbers. *)
LEMMA OneMore ==
  ASSUME NEW c \in Shell, TypesAt(c), NEW o \in Kinds,
         delivered'[c] = [delivered[c] EXCEPT ![o] = @ + 1]
  PROVE  /\ \A k \in Kinds : delivered'[c][k] = delivered[c][k] + One(k = o)
         /\ Ends(c)' = Ends(c) + One(o \in Terminals)
         /\ Events(c)' = Events(c) + 1
  <1>1. \A k \in Kinds : delivered[c][k] \in Nat
    BY EventNumbers
  <1>2. \A k \in Kinds : delivered'[c][k] = delivered[c][k] + One(k = o)
    BY <1>1 DEF TypesAt, One
  <1> DEFINE old(k)  == delivered[c][k]
             new(k)  == delivered'[c][k]
             more(k) == One(k = o)
  <1>3. /\ Ends(c) = old("exit") + old("exitTruncated") + old("failed") + old("cancelled")
                       + old("timeout")
        /\ Ends(c)' = new("exit") + new("exitTruncated") + new("failed") + new("cancelled")
                        + new("timeout")
        /\ Events(c) = old("start") + old("line") + old("truncated") + Ends(c)
        /\ Events(c)' = new("start") + new("line") + new("truncated") + Ends(c)'
    BY DEF Ends, Events
  <1>4. \A k \in Kinds : old(k) \in Nat /\ more(k) \in Nat /\ new(k) = old(k) + more(k)
    BY <1>1, <1>2 DEF One
  <1>5. more("exit") + more("exitTruncated") + more("failed") + more("cancelled")
          + more("timeout") = One(o \in Terminals)
    BY DEF One, Terminals
  <1>6. more("start") + more("line") + more("truncated") + One(o \in Terminals) = 1
        /\ One(o \in Terminals) \in Nat
    BY DEF One, Kinds, Terminals
  <1> HIDE DEF old, new, more
  <1>7. Ends(c)' = Ends(c) + One(o \in Terminals)
    <2>1. /\ "exit" \in Kinds /\ "exitTruncated" \in Kinds /\ "failed" \in Kinds
          /\ "cancelled" \in Kinds /\ "timeout" \in Kinds
      BY DEF Kinds, Terminals
    <2> QED
      BY <1>3, <1>4, <1>5, <2>1
  <1>8. Events(c)' = Events(c) + 1
    <2>1. "start" \in Kinds /\ "line" \in Kinds /\ "truncated" \in Kinds /\ Ends(c) \in Nat
      BY EventNumbers DEF Kinds
    <2> QED
      BY <1>3, <1>4, <1>6, <1>7, <2>1
  <1> QED
    BY <1>2, <1>7, <1>8

LEMMA DeliverStep ==
  ASSUME TypeOK, NEW c \in Shell, StreamInv(c), Deliver(c)
  PROVE  StreamInv(c)'
  <1>0. c \in Calls /\ TypesAt(c)
    BY CallsAssumption, TypesHere
  <1>1. HandlerTypes
    BY TypeParts DEF TypesByPart
  <1> DEFINE o == out[c]
  <1>2. UNCHANGED <<service, task>>
    BY DEF Deliver
  <1>3. /\ SameFlow(c) /\ SamePumps(c) /\ main'[c] = main[c] /\ timedOut'[c] = timedOut[c]
        /\ KeepsCauses(c) /\ SameSettled(c)
    BY <1>2 DEF SameFlow, SamePumps, KeepsCauses, Linked, SameSettled, service, task, channel,
                producer, pumps
  <1>4. rpc[c] = "write" /\ rpc'[c] = "drain" /\ o \in Kinds
    BY <1>0, <1>1 DEF Deliver, HandlerGoes, HandlerTypes
  <1>5. /\ delivered'[c] = [delivered[c] EXCEPT ![o] = @ + 1]
        /\ late'[c] => late[c] \/ \E k \in Terminals : delivered[c][k] > 0
    BY <1>1 DEF Deliver, HandlerTypes
  <1>6. /\ \A k \in Kinds : delivered'[c][k] = delivered[c][k] + One(k = o)
        /\ Ends(c)' = Ends(c) + One(o \in Terminals)
        /\ Events(c)' = Events(c) + 1
    BY <1>0, <1>4, <1>5, OneMore
  <1>7. /\ Ends(c) \in Nat /\ Events(c) \in Nat
        /\ \A k \in Kinds : delivered[c][k] \in Nat
    BY <1>0, EventNumbers
  <1>8. \A k \in Kinds : delivered'[c][k] > 0 => delivered[c][k] > 0 \/ k = o
    BY <1>6, <1>7 DEF One
  <1> HIDE DEF o
  <1>9. \A K : /\ Writing(c, K) <=> o \in K
               /\ ~Writing(c, K)' /\ Queued(c, K)' = Queued(c, K)
    BY <1>3, <1>4 DEF Writing, Queued, SameFlow, o
  <1>10. \A K : InHand(c, K) = One(o \in K) /\ InHand(c, K)' = 0
    BY <1>9 DEF InHand, One
  <1>11. ~Lost(c) /\ ~Lost(c)'
    BY <1>4 DEF Lost
  <1>12. \A k \in Kinds : Written(c, k)' => Written(c, k)
    BY <1>8, <1>9 DEF Written
  <1>13. Terminals \subseteq Kinds /\ Finals \subseteq Terminals
    BY DEF Kinds, Finals, Exits, Terminals
  <1>14. BeginInv(c)' /\ CloseInv(c)'
    BY <1>3, <1>4 DEF StreamInv, BeginInv, CloseInv, SameFlow, SamePumps, NonePump, Ended
  <1>15. WaitInv(c)' /\ StopInv(c)' /\ LimitInv(c)'
    BY <1>3, WaitFrame, StopFrame, LimitFrame DEF StreamInv, SameFlow, SamePumps
  <1>16. /\ (AllRead(c) <=> AllRead(c)') /\ (NonePump(c) <=> NonePump(c)')
         /\ (Truncated(c) <=> Truncated(c)')
    BY <1>3 DEF AllRead, NonePump, Ended, Truncated, SinkTruncated, SamePumps
  <1>17. LastInv(c)'
    <2>1. \A k \in Terminals : Written(c, k)' => Settled(c)'
      BY <1>3, <1>12, <1>13 DEF StreamInv, LastInv, Settled
    <2>2. \A k \in {"cancelled", "timeout"} : Written(c, k) => Linked(c) /\ Linked(c)'
      BY <1>3 DEF StreamInv, LastInv, KeepsCauses, Terminals
    <2>3. \A k \in {"cancelled", "timeout"} : Written(c, k)' => Linked(c)'
      BY <1>12, <2>2 DEF Kinds, Terminals
    <2>4. "failed" \in Kinds /\ Exits \subseteq Kinds
      BY DEF Kinds, Terminals, Exits
    <2>5. /\ Written(c, "failed")' => NonePump(c)'
          /\ \A k \in Exits : Written(c, k)' =>
               AllRead(c)' /\ (Truncated(c)' <=> k = "exitTruncated")
      BY <1>12, <1>16, <2>4 DEF StreamInv, LastInv
    <2>6. Queued(c, Finals)' \subseteq {Len(queue'[c])}
      BY <1>3, <1>9 DEF StreamInv, LastInv, SameFlow
    <2>7. \A k \in Finals : delivered'[c][k] > 0 => queue'[c] = <<>> /\ rpc'[c] # "write"
      <3>1. o \in Finals => queue[c] = <<>>
        BY <1>9 DEF StreamInv, LastInv
      <3>2. \A k \in Finals : ~(delivered[c][k] > 0)
        BY <1>4 DEF StreamInv, LastInv
      <3> QED
        BY <1>3, <1>4, <1>8, <1>13, <3>1, <3>2 DEF SameFlow
    <2>8. late'[c] => Linked(c)' /\ Settled(c)'
      <3>1. CASE late[c]
        BY <1>3, <3>1 DEF StreamInv, LastInv, KeepsCauses, Settled
      <3>2. ASSUME NEW k \in Terminals, delivered[c][k] > 0
            PROVE  Linked(c)' /\ Settled(c)'
        <4>1. Written(c, k) /\ Settled(c) /\ Settled(c)'
          BY <1>3, <3>2 DEF StreamInv, LastInv, Written, Settled
        <4>2. k \notin Finals
          BY <1>4, <3>2 DEF StreamInv, LastInv
        <4>3. k \in {"cancelled", "timeout"}
          BY <4>2 DEF Terminals, Finals, Exits
        <4> QED
          BY <2>2, <4>1, <4>3
      <3> QED
        BY <1>5, <3>1, <3>2
    <2>9. \A j \in 1 .. Len(queue'[c]) :
            queue'[c][j].kind \in Terminals => queue'[c][j].by = "main"
      BY <1>3 DEF StreamInv, LastInv, SameFlow
    <2> QED
      BY <1>9, <2>1, <2>3, <2>5, <2>6, <2>7, <2>8, <2>9 DEF LastInv, Settled
  <1>18. EndCount(c)'
    <2>1. Number(queue[c], Terminals) \in Nat /\ queue'[c] = queue[c] /\ One(o \in Terminals) \in Nat
      BY <1>0, <1>3, Numbers DEF SameFlow, TypesAt, One
    <2>2. InHand(c, Terminals) = One(o \in Terminals) /\ InHand(c, Terminals)' = 0
      BY <1>10
    <2> QED
      BY <1>3, <1>6, <1>7, <1>11, <2>1, <2>2 DEF StreamInv, EndCount
  <1>19. Whole(c)' => Whole(c)
    BY <1>3, <1>11 DEF Whole, SamePumps
  <1>20. ASSUME Whole(c)
         PROVE  /\ lineEvents[c] = delivered[c]["line"] + One(o \in {"line"})
                                     + Number(queue[c], {"line"}) + AtWork(c, {"line"})
                /\ One(told[c]) = delivered[c]["truncated"] + One(o \in {"truncated"})
                                     + Number(queue[c], {"truncated"}) + AtWork(c, {"note"})
                /\ numbers[c] = Events(c) + 1 + Len(queue[c]) + AtWork(c, {"line", "note"})
    <2>1. One(o \in Kinds) = 1
      BY <1>4 DEF One
    <2> QED
      BY <1>10, <1>20, <2>1 DEF StreamInv, EventCount
  <1>21. EventCount(c)'
    <2> SUFFICES ASSUME Whole(c) PROVE EventCount(c)'
      BY <1>19 DEF EventCount
    <2>1. \A places : AtWork(c, places)' = AtWork(c, places) /\ AtWork(c, places) \in Nat
      BY <1>3 DEF AtWork, SamePumps, One
    <2>2. \A K : Number(queue'[c], K) = Number(queue[c], K) /\ Number(queue[c], K) \in Nat
      BY <1>0, <1>3, Numbers DEF SameFlow, TypesAt
    <2>3. /\ delivered'[c]["line"] = delivered[c]["line"] + One("line" = o)
          /\ delivered'[c]["truncated"] = delivered[c]["truncated"] + One("truncated" = o)
          /\ delivered[c]["line"] \in Nat /\ delivered[c]["truncated"] \in Nat
      BY <1>6, <1>7 DEF Kinds
    <2>4. One("line" = o) = One(o \in {"line"}) /\ One("truncated" = o) = One(o \in {"truncated"})
          /\ One(o \in {"line"}) \in Nat /\ One(o \in {"truncated"}) \in Nat
      BY DEF One
    <2>5. lineEvents'[c] = delivered'[c]["line"] + InHand(c, {"line"})'
                             + Number(queue'[c], {"line"}) + AtWork(c, {"line"})'
      <3>1. /\ AtWork(c, {"line"})' = AtWork(c, {"line"}) /\ AtWork(c, {"line"}) \in Nat
            /\ Number(queue'[c], {"line"}) = Number(queue[c], {"line"})
            /\ Number(queue[c], {"line"}) \in Nat
            /\ InHand(c, {"line"})' = 0 /\ lineEvents'[c] = lineEvents[c]
        BY <1>3, <1>10, <2>1, <2>2 DEF SamePumps
      <3> QED
        BY <1>20, <2>3, <2>4, <3>1
    <2>6. One(told'[c]) = delivered'[c]["truncated"] + InHand(c, {"truncated"})'
                             + Number(queue'[c], {"truncated"}) + AtWork(c, {"note"})'
      <3>1. /\ AtWork(c, {"note"})' = AtWork(c, {"note"}) /\ AtWork(c, {"note"}) \in Nat
            /\ Number(queue'[c], {"truncated"}) = Number(queue[c], {"truncated"})
            /\ Number(queue[c], {"truncated"}) \in Nat
            /\ InHand(c, {"truncated"})' = 0 /\ One(told'[c]) = One(told[c])
        BY <1>3, <1>10, <2>1, <2>2 DEF SamePumps
      <3> QED
        BY <1>20, <2>3, <2>4, <3>1
    <2>7. numbers'[c] = Events(c)' + InHand(c, Kinds)' + Len(queue'[c])
                          + AtWork(c, {"line", "note"})'
      <3>1. /\ AtWork(c, {"line", "note"})' = AtWork(c, {"line", "note"})
            /\ AtWork(c, {"line", "note"}) \in Nat
            /\ Len(queue'[c]) = Len(queue[c]) /\ Len(queue[c]) \in Nat
            /\ InHand(c, Kinds)' = 0 /\ numbers'[c] = numbers[c]
        BY <1>0, <1>3, <1>10, <2>1 DEF SameFlow, TypesAt
      <3> QED
        BY <1>6, <1>7, <1>20, <3>1
    <2> QED
      BY <2>5, <2>6, <2>7 DEF EventCount
  <1>22. ToldTruth(c)'
    <2>1. delivered[c]["exit"] \in Nat /\ delivered[c]["exitTruncated"] \in Nat
          /\ delivered[c]["truncated"] \in Nat /\ delivered[c]["line"] \in Nat
      BY <1>7 DEF Kinds, Terminals
    <2>2. ~(delivered[c]["exit"] > 0) /\ ~(delivered[c]["exitTruncated"] > 0)
      BY <1>4 DEF StreamInv, LastInv, Finals, Exits
    <2>3. CASE o \notin Exits
      <3>1. ~(delivered'[c]["exit"] > 0) /\ ~(delivered'[c]["exitTruncated"] > 0)
        BY <1>8, <2>2, <2>3 DEF Exits, Kinds, Terminals
      <3> QED
        BY <3>1 DEF ToldTruth
    <2>4. CASE o \in Exits
      <3>1. /\ Written(c, o) /\ queue[c] = <<>>
        BY <1>9, <2>4 DEF StreamInv, LastInv, Written, Finals
      <3>2. AllRead(c) /\ (Truncated(c) <=> o = "exitTruncated")
        BY <2>4, <3>1 DEF StreamInv, LastInv
      <3>3. Whole(c) /\ \A places : "eof" \notin places => AtWork(c, places) = 0
        BY <1>11, <3>2 DEF Whole, AllRead, Ended, AtWork, One, Pumps
      <3>4. o \notin {"line"} /\ o \notin {"truncated"}
        BY <2>4 DEF Exits
      <3>5. Number(queue[c], {"line"}) = 0 /\ Number(queue[c], {"truncated"}) = 0
        BY <3>1, NoneInEmpty
      <3>6. AtWork(c, {"line"}) = 0 /\ AtWork(c, {"note"}) = 0
        BY <3>3
      <3>7. One(o \in {"line"}) = 0 /\ One(o \in {"truncated"}) = 0
        BY <3>4 DEF One
      <3>8. lineEvents[c] = delivered[c]["line"] /\ One(told[c]) = delivered[c]["truncated"]
        BY <1>20, <2>1, <3>3, <3>5, <3>6, <3>7
      <3>9. /\ delivered'[c]["line"] = delivered[c]["line"]
            /\ delivered'[c]["truncated"] = delivered[c]["truncated"]
        <4>1. /\ delivered'[c]["line"] = delivered[c]["line"] + One("line" = o)
              /\ delivered'[c]["truncated"] = delivered[c]["truncated"] + One("truncated" = o)
          BY <1>6 DEF Kinds
        <4>2. One("line" = o) = 0 /\ One("truncated" = o) = 0
          BY <3>4 DEF One
        <4> QED
          BY <2>1, <4>1, <4>2
      <3>10. \A p \in Pumps : (SinkTruncated(c, p) <=> SinkTruncated(c, p)') /\ lines'[c] = lines[c]
        BY <1>3 DEF SinkTruncated, SamePumps
      <3>11. CASE o = "exit"
        <4>1. ~Truncated(c) /\ ~told[c]
          BY <3>2, <3>11 DEF StreamInv, LimitInv
        <4>2. delivered[c]["truncated"] = 0
          BY <3>8, <4>1 DEF One
        <4>3. lineEvents[c] # MaxLineEvents /\ \A p \in Pumps : ~SinkTruncated(c, p)
          BY <4>1, LimitsAssumption DEF Truncated
        <4>4. lineEvents[c] = lines[c]["stdout"] + lines[c]["stderr"]
          BY <4>3 DEF StreamInv, LimitInv
        <4>5. ~(delivered'[c]["exitTruncated"] > 0)
          BY <1>8, <2>2, <3>11 DEF Kinds, Terminals
        <4> QED
          BY <3>8, <3>9, <3>10, <4>2, <4>3, <4>4, <4>5 DEF ToldTruth, Pumps
      <3>12. CASE o = "exitTruncated"
        <4>1. Truncated(c)
          BY <3>2, <3>12
        <4>2. told[c]
          <5>1. CASE \E p \in Pumps : SinkTruncated(c, p)
            BY <3>2, <5>1 DEF StreamInv, LimitInv, AllRead, Ended
          <5>2. CASE lineEvents[c] >= MaxLineEvents
            BY <3>2, <5>2 DEF StreamInv, LimitInv, AllRead, Ended
          <5> QED
            BY <4>1, <5>1, <5>2 DEF Truncated
        <4>3. delivered'[c]["truncated"] = 1
          BY <3>8, <3>9, <4>2 DEF One
        <4>4. ~(delivered'[c]["exit"] > 0)
          BY <1>8, <2>2, <3>12 DEF Kinds, Terminals
        <4> QED
          BY <4>3, <4>4 DEF ToldTruth
      <3> QED
        BY <2>4, <3>11, <3>12 DEF Exits
    <2> QED
      BY <2>3, <2>4
  <1> QED
    BY <1>14, <1>15, <1>17, <1>18, <1>21, <1>22 DEF StreamInv
------------------------------------------------------------------------------
(***************************************************************************)
(* What is written to the channel.                                         *)
(***************************************************************************)
LEMMA AfterPut ==
  ASSUME TypeOK, NEW c \in Shell, NEW w \in Pumps \cup {"main"}, NEW kind \in Kinds, Put(c, w, kind)
  PROVE  /\ Len(queue[c]) \in Nat /\ Len(queue'[c]) = Len(queue[c]) + 1
         /\ \A j \in 1 .. Len(queue[c]) : queue'[c][j] = queue[c][j]
         /\ queue'[c][Len(queue[c]) + 1] = [by |-> w, kind |-> kind]
         /\ \A K : Number(queue'[c], K) = Number(queue[c], K) + One(kind \in K)
         /\ \A K : Queued(c, K)' = Queued(c, K)
                                     \cup (IF kind \in K THEN {Len(queue[c]) + 1} ELSE {})
  <1> DEFINE e == [by |-> w, kind |-> kind]
  <1>1. e \in Entry /\ e.kind = kind
    BY DEF Entry
  <1>2. queue \in [Shell -> Seq(Entry)]
    BY TypeParts DEF TypesByPart, ChannelTypes
  <1>3. queue[c] \in Seq(Entry) /\ queue'[c] = Append(queue[c], e)
    BY <1>2 DEF Put
  <1> HIDE DEF e
  <1>4. /\ Len(queue[c]) \in Nat /\ Len(queue'[c]) = Len(queue[c]) + 1
        /\ \A j \in 1 .. Len(queue[c]) : queue'[c][j] = queue[c][j]
        /\ queue'[c][Len(queue[c]) + 1] = e
    BY <1>1, <1>3, Appending
  <1>5. \A K : Number(queue'[c], K) = Number(queue[c], K) + One(kind \in K)
    BY <1>1, <1>3, OfAppend DEF Number
  <1>6. \A K : Queued(c, K)' = Queued(c, K) \cup (IF kind \in K THEN {Len(queue[c]) + 1} ELSE {})
    BY <1>1, <1>3, OfAppend DEF Queued
  <1> QED
    BY <1>4, <1>5, <1>6 DEF e

(* Who waits for room afterwards. *)
LEMMA WaitAfterPut ==
  ASSUME TypeOK, NEW c \in Shell, NEW w \in Pumps \cup {"main"}, NEW kind \in Kinds, Put(c, w, kind)
  PROVE  /\ \A p \in Pumps \ {w} : Blocked(c, p)' => Blocked(c, p)
         /\ WaitInv(c) => \A p \in Pumps : p # w \/ ~Blocked(c, p) =>
              \A i, j \in Capacity + 1 .. Len(queue'[c]) :
                queue'[c][i].by = p /\ queue'[c][j].by = p => i = j
  <1> DEFINE s == queue[c]
             t == queue'[c]
  <1>1. /\ Len(s) \in Nat /\ Len(t) = Len(s) + 1 /\ Capacity \in Nat
        /\ \A j \in 1 .. Len(s) : t[j] = s[j]
        /\ t[Len(s) + 1].by = w
    <2>1. /\ Len(s) \in Nat /\ Len(t) = Len(s) + 1
          /\ \A j \in 1 .. Len(s) : t[j] = s[j]
          /\ t[Len(s) + 1] = [by |-> w, kind |-> kind]
      BY AfterPut
    <2> QED
      BY <2>1, LimitsAssumption
  <1>2. (\A p : Blocked(c, p) <=> \E i \in Capacity + 1 .. Len(s) : s[i].by = p)
        /\ (\A p : Blocked(c, p)' <=> \E i \in Capacity + 1 .. Len(t) : t[i].by = p)
    BY DEF Blocked
  <1>3. WaitInv(c) => \A p \in Pumps : \A i, j \in Capacity + 1 .. Len(s) :
                        s[i].by = p /\ s[j].by = p => i = j
    BY DEF WaitInv
  <1> HIDE DEF s, t
  <1>4. \A i \in Capacity + 1 .. Len(t) :
          \/ i \in Capacity + 1 .. Len(s) /\ t[i] = s[i]
          \/ i = Len(s) + 1 /\ t[i].by = w
    BY <1>1
  <1>5. \A p \in Pumps \ {w} : Blocked(c, p)' => Blocked(c, p)
    BY <1>2, <1>4
  <1>6. ASSUME WaitInv(c), NEW p \in Pumps, p # w \/ ~Blocked(c, p),
               NEW i \in Capacity + 1 .. Len(t), NEW j \in Capacity + 1 .. Len(t),
               t[i].by = p, t[j].by = p
        PROVE  i = j
    <2>1. CASE p # w
      BY <1>3, <1>4, <1>6, <2>1
    <2>2. CASE ~Blocked(c, p)
      BY <1>2, <1>4, <1>6, <2>2
    <2> QED
      BY <1>6, <2>1, <2>2
  <1> QED
    BY <1>5, <1>6 DEF t

(* The events that have a number and are not yet handed on. *)
Pending(c, k, w) == InHand(c, {k}) + Number(queue[c], {k}) + AtWork(c, {w})
AllPending(c)    == InHand(c, Kinds) + Len(queue[c]) + AtWork(c, {"line", "note"})

LEMMA PendingNumbers ==
  ASSUME NEW c \in Shell, TypesAt(c)
  PROVE  /\ \A K : InHand(c, K) \in Nat /\ Number(queue[c], K) \in Nat /\ AtWork(c, K) \in Nat
         /\ \A k, w : Pending(c, k, w) \in Nat
         /\ AllPending(c) \in Nat /\ Len(queue[c]) \in Nat
  <1>1. \A K : InHand(c, K) \in Nat /\ Number(queue[c], K) \in Nat /\ AtWork(c, K) \in Nat
    BY Numbers DEF TypesAt, InHand, AtWork, One
  <1>2. Len(queue[c]) \in Nat
    BY DEF TypesAt
  <1>3. ASSUME NEW k, NEW w PROVE Pending(c, k, w) \in Nat
    <2>1. InHand(c, {k}) \in Nat /\ Number(queue[c], {k}) \in Nat /\ AtWork(c, {w}) \in Nat
      BY <1>1
    <2> QED
      BY <2>1 DEF Pending
  <1>4. AllPending(c) \in Nat
    <2>1. InHand(c, Kinds) \in Nat /\ AtWork(c, {"line", "note"}) \in Nat
      BY <1>1
    <2> QED
      BY <1>2, <2>1 DEF AllPending
  <1> QED
    BY <1>1, <1>2, <1>3, <1>4

LEMMA EventBalance ==
  ASSUME NEW c \in Shell, TypesAt(c), TypesAt(c)', EventCount(c), SameTold(c),
         Whole(c)' => Whole(c),
         Whole(c)' => lineEvents'[c] + Pending(c, "line", "line")
                        = lineEvents[c] + Pending(c, "line", "line")',
         Whole(c)' => One(told'[c]) + Pending(c, "truncated", "note")
                        = One(told[c]) + Pending(c, "truncated", "note")',
         Whole(c)' => numbers'[c] + AllPending(c) = numbers[c] + AllPending(c)'
  PROVE  EventCount(c)'
  <1> SUFFICES ASSUME Whole(c)' PROVE EventCount(c)'
    BY DEF EventCount
  <1>1. /\ Events(c) \in Nat /\ Events(c)' = Events(c) /\ delivered'[c] = delivered[c]
        /\ delivered[c]["line"] \in Nat /\ delivered[c]["truncated"] \in Nat
    BY EventNumbers DEF Kinds, Events, Ends, SameTold
  <1>2. \A K : InHand(c, K) \in Nat /\ Number(queue[c], K) \in Nat /\ AtWork(c, K) \in Nat
    BY PendingNumbers
  <1>3. \A K : InHand(c, K)' \in Nat /\ Number(queue[c], K)' \in Nat /\ AtWork(c, K)' \in Nat
    BY Numbers DEF TypesAt, InHand, AtWork, One
  <1>4. /\ Len(queue[c]) \in Nat /\ Len(queue'[c]) \in Nat /\ numbers[c] \in Nat /\ numbers'[c] \in Nat
        /\ lineEvents[c] \in Nat /\ lineEvents'[c] \in Nat
        /\ One(told[c]) \in Nat /\ One(told'[c]) \in Nat
    <2>1. One(told[c]) \in Nat /\ One(told'[c]) \in Nat
      BY DEF One
    <2>2. MaxLineEvents \in Nat
      BY LimitsAssumption
    <2> QED
      BY <2>1, <2>2, SMTT(30) DEF TypesAt
  <1>5. lineEvents'[c] = delivered'[c]["line"] + InHand(c, {"line"})'
          + Number(queue'[c], {"line"}) + AtWork(c, {"line"})'
    <2> DEFINE d == delivered[c]["line"]
               x == lineEvents[c]
               y == lineEvents'[c]
               a == InHand(c, {"line"})
               b == Number(queue[c], {"line"})
               e == AtWork(c, {"line"})
               f == InHand(c, {"line"})'
               g == Number(queue'[c], {"line"})
               h == AtWork(c, {"line"})'
    <2>1. x = d + a + b + e
      BY DEF EventCount
    <2>2. y + (a + b + e) = x + (f + g + h)
      BY DEF Pending
    <2>3. /\ d \in Nat /\ x \in Nat /\ y \in Nat /\ a \in Nat /\ b \in Nat /\ e \in Nat
          /\ f \in Nat /\ g \in Nat /\ h \in Nat
      BY <1>1, <1>2, <1>3, <1>4
    <2>4. delivered'[c]["line"] = d
      BY <1>1
    <2> HIDE DEF d, x, y, a, b, e, f, g, h
    <2>5. y = d + f + g + h
      BY <2>1, <2>2, <2>3
    <2> QED
      BY <2>4, <2>5 DEF y, f, g, h
  <1>6. One(told'[c]) = delivered'[c]["truncated"] + InHand(c, {"truncated"})'
          + Number(queue'[c], {"truncated"}) + AtWork(c, {"note"})'
    <2> DEFINE d == delivered[c]["truncated"]
               x == One(told[c])
               y == One(told'[c])
               a == InHand(c, {"truncated"})
               b == Number(queue[c], {"truncated"})
               e == AtWork(c, {"note"})
               f == InHand(c, {"truncated"})'
               g == Number(queue'[c], {"truncated"})
               h == AtWork(c, {"note"})'
    <2>1. x = d + a + b + e
      BY DEF EventCount
    <2>2. y + (a + b + e) = x + (f + g + h)
      BY DEF Pending
    <2>3. /\ d \in Nat /\ x \in Nat /\ y \in Nat /\ a \in Nat /\ b \in Nat /\ e \in Nat
          /\ f \in Nat /\ g \in Nat /\ h \in Nat
      BY <1>1, <1>2, <1>3, <1>4
    <2>4. delivered'[c]["truncated"] = d
      BY <1>1
    <2> HIDE DEF d, x, y, a, b, e, f, g, h
    <2>5. y = d + f + g + h
      BY <2>1, <2>2, <2>3
    <2> QED
      BY <2>4, <2>5 DEF y, f, g, h
  <1>7. numbers'[c] = Events(c)' + InHand(c, Kinds)' + Len(queue'[c]) + AtWork(c, {"line", "note"})'
    <2> DEFINE d == Events(c)
               x == numbers[c]
               y == numbers'[c]
               a == InHand(c, Kinds)
               b == Len(queue[c])
               e == AtWork(c, {"line", "note"})
               f == InHand(c, Kinds)'
               g == Len(queue'[c])
               h == AtWork(c, {"line", "note"})'
    <2>1. x = d + a + b + e
      BY DEF EventCount
    <2>2. y + (a + b + e) = x + (f + g + h)
      BY DEF AllPending
    <2>3. /\ d \in Nat /\ x \in Nat /\ y \in Nat /\ a \in Nat /\ b \in Nat /\ e \in Nat
          /\ f \in Nat /\ g \in Nat /\ h \in Nat
      BY <1>1, <1>2, <1>3, <1>4
    <2>4. Events(c)' = d
      BY <1>1
    <2> HIDE DEF d, x, y, a, b, e, f, g, h
    <2>5. y = d + f + g + h
      BY <2>1, <2>2, <2>3
    <2> QED
      BY <2>4, <2>5 DEF y, f, g, h
  <1> QED
    BY <1>5, <1>6, <1>7 DEF EventCount
------------------------------------------------------------------------------
(***************************************************************************)
(* The producer.                                                           *)
(***************************************************************************)
(* A terminal event is written, for which there is a reason. *)
LEMMA TerminalStep ==
  ASSUME TypeOK, TypeOK', NEW c \in Shell, StreamInv(c), NEW kind \in Terminals,
         Put(c, "main", kind), DrawNumber(c), ProducerGoes(c, main[c], "sent"),
         main[c] \in {"start", "run", "join", "failed"},
         UNCHANGED <<service, handler, timedOut, pumps>>,
         kind = "failed" => NonePump(c),
         kind \in Exits => AllRead(c) /\ (Truncated(c) <=> kind = "exitTruncated"),
         kind \in {"cancelled", "timeout"} => Linked(c)
  PROVE  StreamInv(c)'
  <1>0. TypesAt(c) /\ TypesAt(c)'
    BY TypesHere
  <1>1. ProducerTypes /\ ChannelTypes
    BY TypeParts DEF TypesByPart
  <1>2. main'[c] = "sent" /\ numbers'[c] = numbers[c] + 1
    BY <1>1 DEF ProducerGoes, DrawNumber, ProducerTypes, ChannelTypes
  <1>3. /\ SameTold(c) /\ SamePumps(c) /\ rpc'[c] = rpc[c] /\ out'[c] = out[c]
        /\ (Linked(c) <=> Linked(c)') /\ timedOut'[c] = timedOut[c]
    BY DEF SameTold, SamePumps, Linked, service, handler, history, pumps
  <1>4. kind \in Kinds
    BY DEF Kinds
  <1>5. /\ Len(queue[c]) \in Nat /\ Len(queue'[c]) = Len(queue[c]) + 1
        /\ \A j \in 1 .. Len(queue[c]) : queue'[c][j] = queue[c][j]
        /\ queue'[c][Len(queue[c]) + 1] = [by |-> "main", kind |-> kind]
        /\ \A K : Number(queue'[c], K) = Number(queue[c], K) + One(kind \in K)
        /\ \A K : Queued(c, K)' = Queued(c, K)
                                    \cup (IF kind \in K THEN {Len(queue[c]) + 1} ELSE {})
    BY <1>4, AfterPut
  <1>6. \A k \in Terminals : ~Written(c, k)
    BY DEF StreamInv, LastInv
  <1>7. \A K : /\ Writing(c, K)' <=> Writing(c, K)
               /\ InHand(c, K)' = InHand(c, K) /\ AtWork(c, K)' = AtWork(c, K)
    BY <1>3 DEF Writing, InHand, One, AtWork, SamePumps
  <1>8. /\ (AllRead(c) <=> AllRead(c)') /\ (NonePump(c) <=> NonePump(c)')
        /\ (Truncated(c) <=> Truncated(c)')
    BY <1>3 DEF AllRead, NonePump, Ended, Truncated, SinkTruncated, SamePumps
  <1>9. Terminals = Finals \cup {"cancelled", "timeout"}
    BY DEF Terminals, Finals, Exits
  <1>10. BeginInv(c)' /\ CloseInv(c)'
    BY <1>2, <1>3 DEF StreamInv, BeginInv, CloseInv
  <1>11. WaitInv(c)'
    <2>1. "main" \notin Pumps
      BY DEF Pumps
    <2>2. \A p \in Pumps : Blocked(c, p)' => Blocked(c, p)
      BY <1>4, <2>1, WaitAfterPut
    <2>3. \A p \in Pumps : \A i, j \in Capacity + 1 .. Len(queue'[c]) :
            queue'[c][i].by = p /\ queue'[c][j].by = p => i = j
      BY <1>4, <2>1, WaitAfterPut DEF StreamInv
    <2> QED
      BY <1>3, <2>2, <2>3 DEF StreamInv, WaitInv, SamePumps
  <1>12. StopInv(c)'
    <2>1. AllRead(c)' \/ NonePump(c)' \/ Linked(c)'
      BY <1>3, <1>8, <1>9 DEF Finals
    <2>2. \A p \in Pumps : pump'[c][p] = "stopped" => Linked(c)'
      BY <1>3 DEF StreamInv, StopInv, SamePumps
    <2> QED
      BY <2>1, <2>2 DEF StopInv
  <1>13. LimitInv(c)' /\ ToldTruth(c)'
    BY <1>3, LimitFrame, ToldFrame DEF StreamInv, SamePumps, SameTold
  <1>14. LastInv(c)'
    <2>1. \A k \in Terminals : Written(c, k)' => k = kind
      <3> SUFFICES ASSUME NEW k \in Terminals, k # kind PROVE ~Written(c, k)'
        OBVIOUS
      <3>1. Queued(c, {k})' = Queued(c, {k})
        <4>1. Queued(c, {k})' = Queued(c, {k})
                                  \cup (IF kind \in {k} THEN {Len(queue[c]) + 1} ELSE {})
          BY <1>5
        <4> QED
          BY <4>1
      <3>2. Written(c, k)' <=> Written(c, k)
        BY <1>3, <1>7, <3>1 DEF Written, SameTold
      <3> QED
        BY <1>6, <3>2
    <2>2. \A k \in {"cancelled", "timeout"} : Written(c, k)' => Linked(c)'
      BY <1>3, <2>1 DEF Terminals
    <2>3. /\ Written(c, "failed")' => NonePump(c)'
          /\ \A k \in Exits : Written(c, k)' =>
               AllRead(c)' /\ (Truncated(c)' <=> k = "exitTruncated")
      BY <1>8, <2>1 DEF Terminals, Exits
    <2>4. Queued(c, Finals) = {}
      <3>1. ASSUME NEW j \in Queued(c, Finals) PROVE FALSE
        <4>1. queue[c][j].kind \in Finals /\ j \in Queued(c, {queue[c][j].kind})
          BY <3>1 DEF Queued, Of
        <4> QED
          BY <1>6, <1>9, <4>1 DEF Written
      <3> QED
        BY <3>1
    <2>5. Queued(c, Finals)' \subseteq {Len(queue'[c])}
      BY <1>5, <2>4
    <2>6. ~Writing(c, Finals)'
      <3>1. \A k \in Finals : ~Writing(c, {k})
        BY <1>6, <1>9 DEF Written
      <3> QED
        BY <1>7, <3>1 DEF Writing
    <2>7. \A k \in Finals : ~(delivered'[c][k] > 0)
      BY <1>3, <1>6, <1>9 DEF Written, SameTold
    <2>8. ~late'[c]
      BY <1>3 DEF StreamInv, LastInv, SameTold
    <2>9. \A j \in 1 .. Len(queue'[c]) :
            queue'[c][j].kind \in Terminals => queue'[c][j].by = "main"
      <3> SUFFICES ASSUME NEW j \in 1 .. Len(queue'[c]), queue'[c][j].kind \in Terminals
                   PROVE  queue'[c][j].by = "main"
        OBVIOUS
      <3>1. CASE j \in 1 .. Len(queue[c])
        BY <1>5, <3>1 DEF StreamInv, LastInv
      <3>2. CASE j = Len(queue[c]) + 1
        <4>1. queue'[c][j] = [by |-> "main", kind |-> kind]
          BY <1>5, <3>2
        <4> QED
          BY <4>1
      <3> QED
        BY <1>5, <3>1, <3>2
    <2> QED
      BY <1>2, <2>2, <2>3, <2>5, <2>6, <2>7, <2>8, <2>9 DEF LastInv
  <1>15. EndCount(c)'
    <2>1. One(main[c] \in {"sent", "done"}) = 0 /\ One(main'[c] \in {"sent", "done"}) = 1
      BY <1>2 DEF One
    <2>2. /\ Number(queue'[c], Terminals) = Number(queue[c], Terminals) + 1
          /\ InHand(c, Terminals)' = InHand(c, Terminals)
      BY <1>5, <1>7 DEF One
    <2>3. /\ Ends(c)' = Ends(c) /\ Ends(c) \in Nat
          /\ Number(queue[c], Terminals) \in Nat /\ InHand(c, Terminals) \in Nat
      BY <1>0, <1>3, EventNumbers, PendingNumbers DEF Ends, SameTold
    <2>4. Lost(c)' <=> Lost(c)
      BY <1>3 DEF Lost
    <2> QED
      BY <2>1, <2>2, <2>3, <2>4 DEF StreamInv, EndCount
  <1>16. EventCount(c)'
    <2>1. Whole(c)' => Whole(c)
      BY <1>3 DEF Whole, Lost, SamePumps
    <2>2. One(kind \in {"line"}) = 0 /\ One(kind \in {"truncated"}) = 0
      BY DEF One, Terminals
    <2>3. /\ Number(queue[c], {"line"}) \in Nat /\ Number(queue[c], {"truncated"}) \in Nat
          /\ InHand(c, Kinds) \in Nat /\ AtWork(c, {"line", "note"}) \in Nat /\ numbers[c] \in Nat
      BY <1>0, PendingNumbers DEF TypesAt
    <2>4. /\ Number(queue'[c], {"line"}) = Number(queue[c], {"line"})
          /\ Number(queue'[c], {"truncated"}) = Number(queue[c], {"truncated"})
      BY <1>5, <2>2, <2>3
    <2>5. /\ Pending(c, "line", "line")' = Pending(c, "line", "line")
          /\ Pending(c, "truncated", "note")' = Pending(c, "truncated", "note")
      BY <1>7, <2>4 DEF Pending
    <2>6. AllPending(c)' = AllPending(c) + 1 /\ AllPending(c) \in Nat
      <3>1. InHand(c, Kinds)' = InHand(c, Kinds)
            /\ AtWork(c, {"line", "note"})' = AtWork(c, {"line", "note"})
        BY <1>7
      <3>2. Len(queue'[c]) = Len(queue[c]) + 1 /\ Len(queue[c]) \in Nat
        BY <1>5
      <3> QED
        BY <2>3, <3>1, <3>2, SMTT(30) DEF AllPending
    <2>7. numbers'[c] + AllPending(c) = numbers[c] + AllPending(c)'
      BY <1>2, <2>3, <2>6
    <2>8. lineEvents'[c] = lineEvents[c] /\ One(told'[c]) = One(told[c])
      BY <1>3 DEF SamePumps
    <2> QED
      BY <1>0, <1>3, <2>1, <2>5, <2>7, <2>8, EventBalance DEF StreamInv
  <1> QED
    BY <1>10, <1>11, <1>12, <1>13, <1>14, <1>15, <1>16 DEF StreamInv

LEMMA WriteFinalStep ==
  ASSUME TypeOK, TypeOK', NEW c \in Shell, StreamInv(c), WriteFinal(c)
  PROVE  StreamInv(c)'
  <1>1. DrawNumber(c) /\ UNCHANGED <<service, handler, timedOut, pumps>>
    BY DEF WriteFinal
  <1>2. CASE /\ Ended(c, {"eof"}) /\ ProducerGoes(c, "join", "sent")
             /\ Put(c, "main", IF Truncated(c) THEN "exitTruncated" ELSE "exit")
    <2>1. AllRead(c) /\ main[c] = "join" /\ ProducerGoes(c, main[c], "sent")
      BY <1>2 DEF AllRead, ProducerGoes
    <2>2. CASE Truncated(c)
      BY <1>1, <1>2, <2>1, <2>2, TerminalStep DEF Terminals, Exits
    <2>3. CASE ~Truncated(c)
      BY <1>1, <1>2, <2>1, <2>3, TerminalStep DEF Terminals, Exits
    <2> QED
      BY <2>2, <2>3
  <1>3. CASE ProducerGoes(c, "failed", "sent") /\ Put(c, "main", "failed")
    <2>1. main[c] = "failed" /\ ProducerGoes(c, main[c], "sent")
      BY <1>3 DEF ProducerGoes
    <2>2. NonePump(c)
      BY <2>1 DEF StreamInv, BeginInv
    <2> QED
      BY <1>1, <1>3, <2>1, <2>2, TerminalStep DEF Terminals, Exits
  <1> QED
    BY <1>2, <1>3 DEF WriteFinal

LEMMA KillStep ==
  ASSUME TypeOK, TypeOK', NEW c \in Shell, StreamInv(c), KillProcessTree(c)
  PROVE  StreamInv(c)'
  <1>1. DrawNumber(c) /\ UNCHANGED <<service, handler, timedOut, pumps>>
    BY DEF KillProcessTree, WriteInterrupted
  <1>2. /\ main[c] \in {"start", "run", "join"} /\ ProducerGoes(c, main[c], "sent")
        /\ \/ Linked(c)
           \/ main[c] = "join" /\ \E p \in Pumps : pump[c][p] = "stopped"
    BY DEF KillProcessTree, Interrupted, ProducerGoes, Linked, Ended
  <1>3. Linked(c)
    BY <1>2 DEF StreamInv, StopInv
  <1>4. Put(c, "main", "cancelled") \/ Put(c, "main", "timeout")
    BY DEF KillProcessTree, WriteInterrupted
  <1>5. "cancelled" \in Terminals \ (Exits \cup {"failed"})
        /\ "timeout" \in Terminals \ (Exits \cup {"failed"})
    BY DEF Terminals, Exits
  <1>6. ASSUME NEW kind \in {"cancelled", "timeout"}, Put(c, "main", kind) PROVE StreamInv(c)'
    BY <1>1, <1>2, <1>3, <1>5, <1>6, TerminalStep
  <1> QED
    BY <1>4, <1>6

(* A kind of event that is not terminal is written as long as no terminal event is:
   nothing changes for these.                                                       *)
LEMMA NoTerminalPut ==
  ASSUME TypeOK, NEW c \in Shell, NEW w \in Pumps \cup {"main"}, NEW kind \in Kinds \ Terminals,
         Put(c, w, kind), LastInv(c), SameTold(c), rpc'[c] = rpc[c], out'[c] = out[c]
  PROVE  /\ \A k \in Terminals : Written(c, k)' <=> Written(c, k)
         /\ Queued(c, Finals)' = Queued(c, Finals)
         /\ \A K : (Writing(c, K)' <=> Writing(c, K)) /\ InHand(c, K)' = InHand(c, K)
         /\ Number(queue'[c], Terminals) = Number(queue[c], Terminals)
         /\ \A j \in 1 .. Len(queue'[c]) :
              queue'[c][j].kind \in Terminals => queue'[c][j].by = "main"
  <1>1. /\ Len(queue[c]) \in Nat /\ Len(queue'[c]) = Len(queue[c]) + 1
        /\ \A j \in 1 .. Len(queue[c]) : queue'[c][j] = queue[c][j]
        /\ queue'[c][Len(queue[c]) + 1] = [by |-> w, kind |-> kind]
        /\ \A K : Number(queue'[c], K) = Number(queue[c], K) + One(kind \in K)
        /\ \A K : Queued(c, K)' = Queued(c, K)
                                    \cup (IF kind \in K THEN {Len(queue[c]) + 1} ELSE {})
    BY AfterPut
  <1>2. \A K : (Writing(c, K)' <=> Writing(c, K)) /\ InHand(c, K)' = InHand(c, K)
    BY DEF Writing, InHand, One
  <1>3. ASSUME NEW K, kind \notin K PROVE Queued(c, K)' = Queued(c, K)
    <2>1. Queued(c, K)' = Queued(c, K) \cup (IF kind \in K THEN {Len(queue[c]) + 1} ELSE {})
      BY <1>1
    <2> QED
      BY <1>3, <2>1
  <1>4. ASSUME NEW k \in Terminals PROVE Written(c, k)' <=> Written(c, k)
    <2>1. Queued(c, {k})' = Queued(c, {k})
      BY <1>3
    <2> QED
      BY <1>2, <2>1 DEF Written, SameTold
  <1>5. Queued(c, Finals)' = Queued(c, Finals)
    <2>1. kind \notin Finals
      BY DEF Finals, Exits, Terminals
    <2> QED
      BY <1>3, <2>1
  <1>6. Number(queue'[c], Terminals) = Number(queue[c], Terminals)
    <2>1. One(kind \in Terminals) = 0 /\ Number(queue[c], Terminals) \in Nat
      BY TypesHere, Numbers DEF One, TypesAt
    <2> QED
      BY <1>1, <2>1
  <1>7. ASSUME NEW j \in 1 .. Len(queue'[c]), queue'[c][j].kind \in Terminals
        PROVE  queue'[c][j].by = "main"
    <2>1. CASE j \in 1 .. Len(queue[c])
      BY <1>1, <1>7, <2>1 DEF LastInv
    <2>2. CASE j = Len(queue[c]) + 1
      <3>1. queue'[c][j] = [by |-> w, kind |-> kind]
        BY <1>1, <2>2
      <3> QED
        BY <1>7, <3>1
    <2> QED
      BY <1>1, <2>1, <2>2
  <1> QED
    BY <1>2, <1>4, <1>5, <1>6, <1>7

(* As long as no final result is written. *)
LEMMA NoFinal ==
  ASSUME NEW c \in Shell, LastInv(c), ~AllRead(c), ~NonePump(c) \/ ~Settled(c)
  PROVE  /\ \A k \in Finals : ~Written(c, k)
         /\ Queued(c, Finals) = {} /\ ~Writing(c, Finals)
  <1>1. \A k \in Finals : ~Written(c, k)
    BY DEF LastInv, Finals, Exits, Terminals, Settled
  <1>2. Queued(c, Finals) = {}
    <2>1. ASSUME NEW j \in Queued(c, Finals) PROVE FALSE
      <3>1. queue[c][j].kind \in Finals /\ j \in Queued(c, {queue[c][j].kind})
        BY <2>1 DEF Queued, Of
      <3> QED
        BY <1>1, <3>1 DEF Written
    <2> QED
      BY <2>1
  <1>3. ~Writing(c, Finals)
    <2>1. \A k \in Finals : ~Writing(c, {k})
      BY <1>1 DEF Written
    <2> QED
      BY <2>1 DEF Writing
  <1> QED
    BY <1>1, <1>2, <1>3

LEMMA StartStep ==
  ASSUME TypeOK, TypeOK', NEW c \in Shell, StreamInv(c), Start(c)
  PROVE  StreamInv(c)'
  <1>0. TypesAt(c) /\ TypesAt(c)'
    BY TypesHere
  <1>1. ProducerTypes /\ ChannelTypes /\ PumpTypes
    BY TypeParts DEF TypesByPart
  <1>2. UNCHANGED <<service, handler, timedOut, lines, lineEvents, told>>
    BY DEF Start
  <1>3. /\ SameTold(c) /\ rpc'[c] = rpc[c] /\ out'[c] = out[c] /\ lines'[c] = lines[c]
        /\ lineEvents'[c] = lineEvents[c] /\ told'[c] = told[c]
        /\ (Linked(c) <=> Linked(c)')
    BY <1>2 DEF SameTold, Linked, service, handler, history
  <1>4. main[c] = "start" /\ main'[c] \in {"run", "failed"} /\ numbers'[c] = numbers[c] + 1
    BY <1>1 DEF Start, ProducerGoes, DrawNumber, ProducerTypes, ChannelTypes
  <1>5. \/ main'[c] = "failed" /\ pump'[c] = pump[c]
        \/ main'[c] = "run" /\ \A p \in Pumps : pump'[c][p] = "read"
    <2>1. CASE ProducerGoes(c, "start", "failed") /\ pump' = pump
      BY <1>1, <2>1 DEF ProducerGoes, ProducerTypes
    <2>2. CASE ProducerGoes(c, "start", "run") /\ pump' = [pump EXCEPT ![c] = [p \in Pumps |-> "read"]]
      BY <1>1, <2>2 DEF ProducerGoes, ProducerTypes, PumpTypes
    <2> QED
      BY <2>1, <2>2 DEF Start
  <1>6. NonePump(c) /\ (\A p \in Pumps : lines[c][p] = 0) /\ ~Settled(c) /\ ~Settled(c)'
    BY <1>4 DEF StreamInv, BeginInv, Settled
  <1>7. \A p \in Pumps : pump[c][p] = "off" /\ pump'[c][p] \in {"off", "read"}
    BY <1>5, <1>6 DEF NonePump, Ended
  <1>8. "main" \notin Pumps /\ "start" \in Kinds \ Terminals /\ Put(c, "main", "start")
    BY DEF Pumps, Kinds, Terminals, Start
  <1>9. \A k \in Terminals : ~Written(c, k)
    BY <1>6 DEF StreamInv, LastInv, Settled
  <1>10. BeginInv(c)' /\ CloseInv(c)'
    BY <1>3, <1>4, <1>5, <1>6 DEF StreamInv, BeginInv, CloseInv, NonePump, Ended
  <1>11. WaitInv(c)'
    <2>1. \A p \in Pumps : ~Blocked(c, p)
      BY <1>7 DEF StreamInv, WaitInv
    <2>2. \A p \in Pumps : ~Blocked(c, p)'
      BY <1>8, <2>1, WaitAfterPut
    <2>3. \A p \in Pumps : \A i, j \in Capacity + 1 .. Len(queue'[c]) :
            queue'[c][i].by = p /\ queue'[c][j].by = p => i = j
      BY <1>8, WaitAfterPut DEF StreamInv
    <2> QED
      BY <2>2, <2>3 DEF WaitInv
  <1>12. StopInv(c)'
    BY <1>6, <1>7 DEF StopInv, Settled
  <1>13. LimitInv(c)'
    <2>1. \A p \in Pumps : ~SinkTruncated(c, p)'
      <3>1. \A p \in Pumps : Kept[p] \in Nat
        BY LimitsAssumption DEF Pumps
      <3> QED
        BY <1>3, <1>6, <3>1 DEF SinkTruncated
    <2>2. told[c] => Truncated(c)'
      <3>1. \A p \in Pumps : SinkTruncated(c, p) <=> SinkTruncated(c, p)'
        BY <1>3 DEF SinkTruncated
      <3> QED
        BY <1>3, <3>1 DEF StreamInv, LimitInv, Truncated
    <2>3. lineEvents[c] >= MaxLineEvents => told[c]
      BY <1>7 DEF StreamInv, LimitInv
    <2> QED
      BY <1>3, <2>1, <2>2, <2>3 DEF StreamInv, LimitInv
  <1>14. ToldTruth(c)'
    BY <1>3, ToldFrame DEF StreamInv, SameTold
  <1>15. LastInv(c)'
    <2>1. /\ \A k \in Terminals : ~Written(c, k)'
          /\ Queued(c, Finals)' = Queued(c, Finals)
          /\ \A K : Writing(c, K)' <=> Writing(c, K)
          /\ \A j \in 1 .. Len(queue'[c]) :
              queue'[c][j].kind \in Terminals => queue'[c][j].by = "main"
      BY <1>3, <1>8, <1>9, NoTerminalPut DEF StreamInv
    <2>2. Queued(c, Finals) = {} /\ ~Writing(c, Finals)
      <3>1. ~AllRead(c)
        BY <1>7 DEF AllRead, Ended, Pumps
      <3> QED
        BY <1>6, <3>1, NoFinal DEF StreamInv
    <2>3. ~late'[c]
      BY <1>3, <1>6 DEF StreamInv, LastInv, SameTold, Settled
    <2>4. Finals \subseteq Terminals /\ Exits \subseteq Terminals
          /\ {"failed", "cancelled", "timeout"} \subseteq Terminals
      BY DEF Finals, Exits, Terminals
    <2>5. \A k \in Finals : ~(delivered'[c][k] > 0)
      BY <2>1, <2>4 DEF Written
    <2> QED
      BY <2>1, <2>2, <2>3, <2>4, <2>5 DEF LastInv
  <1>16. EndCount(c)'
    <2>1. /\ Number(queue'[c], Terminals) = Number(queue[c], Terminals)
          /\ InHand(c, Terminals)' = InHand(c, Terminals)
      BY <1>3, <1>8, NoTerminalPut DEF StreamInv
    <2>2. SameSettled(c) /\ (Lost(c) => Lost(c)')
      BY <1>3, <1>4, <1>6 DEF SameSettled, Lost
    <2> QED
      BY <1>3, <2>1, <2>2, EndFrame DEF StreamInv
  <1>17. EventCount(c)'
    <2>1. Whole(c)' => Whole(c)
      BY <1>3, <1>7 DEF Whole, Lost
    <2>2. \A K : "off" \notin K /\ "read" \notin K => AtWork(c, K) = 0 /\ AtWork(c, K)' = 0
      BY <1>7 DEF AtWork, One, Pumps
    <2>3. /\ AtWork(c, {"line"}) = 0 /\ AtWork(c, {"line"})' = 0
          /\ AtWork(c, {"note"}) = 0 /\ AtWork(c, {"note"})' = 0
          /\ AtWork(c, {"line", "note"}) = 0 /\ AtWork(c, {"line", "note"})' = 0
      BY <2>2
    <2>4. \A K : InHand(c, K)' = InHand(c, K)
      BY <1>3, <1>8, NoTerminalPut DEF StreamInv
    <2>5. /\ Number(queue'[c], {"line"}) = Number(queue[c], {"line"}) + One("start" \in {"line"})
          /\ Number(queue'[c], {"truncated"})
               = Number(queue[c], {"truncated"}) + One("start" \in {"truncated"})
          /\ Len(queue'[c]) = Len(queue[c]) + 1 /\ Len(queue[c]) \in Nat
      <3>1. /\ Len(queue'[c]) = Len(queue[c]) + 1 /\ Len(queue[c]) \in Nat
            /\ \A K : Number(queue'[c], K) = Number(queue[c], K) + One("start" \in K)
        BY <1>8, AfterPut
      <3> QED
        BY <3>1
    <2>6. One("start" \in {"line"}) = 0 /\ One("start" \in {"truncated"}) = 0
      BY DEF One
    <2>7. /\ Number(queue[c], {"line"}) \in Nat /\ Number(queue[c], {"truncated"}) \in Nat
          /\ InHand(c, Kinds) \in Nat /\ numbers[c] \in Nat
      BY <1>0, PendingNumbers DEF TypesAt
    <2>8. /\ Pending(c, "line", "line")' = Pending(c, "line", "line")
          /\ Pending(c, "truncated", "note")' = Pending(c, "truncated", "note")
      BY <2>3, <2>4, <2>5, <2>6, <2>7 DEF Pending
    <2>9. numbers'[c] + AllPending(c) = numbers[c] + AllPending(c)'
      <3>1. AllPending(c)' = AllPending(c) + 1 /\ AllPending(c) \in Nat
        BY <2>3, <2>4, <2>5, <2>7, SMTT(30) DEF AllPending
      <3> QED
        BY <1>4, <2>7, <3>1
    <2>10. lineEvents'[c] = lineEvents[c] /\ One(told'[c]) = One(told[c])
      BY <1>3
    <2> QED
      BY <1>0, <1>3, <2>1, <2>8, <2>9, <2>10, EventBalance DEF StreamInv
  <1> QED
    BY <1>10, <1>11, <1>12, <1>13, <1>14, <1>15, <1>16, <1>17 DEF StreamInv

LEMMA CompleteStep ==
  ASSUME TypeOK, TypeOK', NEW c \in Shell, StreamInv(c), Complete(c)
  PROVE  StreamInv(c)'
  <1>0. TypesAt(c) /\ TypesAt(c)' /\ Capacity \in Nat \ {0}
    BY TypesHere, LimitsAssumption
  <1>1. ProducerTypes /\ ChannelTypes /\ PumpTypes
    BY TypeParts DEF TypesByPart
  <1>2. UNCHANGED <<service, handler, numbers, timedOut, lines, lineEvents, told>>
    BY DEF Complete
  <1>3. /\ SameTold(c) /\ rpc'[c] = rpc[c] /\ out'[c] = out[c] /\ numbers'[c] = numbers[c]
        /\ lines'[c] = lines[c] /\ lineEvents'[c] = lineEvents[c] /\ told'[c] = told[c]
        /\ KeepsCauses(c) /\ (Linked(c) => Linked(c)')
    BY <1>2 DEF SameTold, KeepsCauses, Linked, service, handler, history
  <1>4. main[c] = "sent" /\ main'[c] = "done" /\ ~Blocked(c, "main")
    BY <1>1 DEF Complete, ProducerGoes, ProducerTypes
  <1>5. \A p \in Pumps : pump'[c][p] = IF Blocked(c, p) THEN "stopped" ELSE pump[c][p]
    BY <1>1 DEF Complete, PumpTypes
  <1>6. SameSettled(c) /\ SameWriting(c) /\ (Lost(c)' <=> Lost(c))
    BY <1>3, <1>4 DEF SameSettled, Settled, SameWriting, Lost
  <1>7. BeginInv(c)' /\ CloseInv(c)'
    BY <1>3, <1>4 DEF StreamInv, BeginInv, CloseInv
  <1> DEFINE s == queue[c]
             t == queue'[c]
  <1>8. /\ s \in Seq(Entry) /\ t \in Seq(Entry) /\ Len(s) \in Nat
        /\ t = SubSeq(s, 1, IF Len(s) < Capacity THEN Len(s) ELSE Capacity)
    BY <1>0, <1>1 DEF Complete, ChannelTypes, TypesAt
  <1>9. CASE Len(s) <= Capacity
    <2>1. t = s
      <3>1. (IF Len(s) < Capacity THEN Len(s) ELSE Capacity) = Len(s)
        BY <1>0, <1>8, <1>9
      <3> HIDE DEF s, t
      <3> QED
        BY <1>8, <3>1
    <2>2. \A p \in Pumps : ~Blocked(c, p)
      BY <1>0, <1>8, <1>9 DEF Blocked
    <2>3. pump'[c] = pump[c]
      <3>1. \A p \in Pumps : pump'[c][p] = pump[c][p]
        BY <1>5, <2>2
      <3> QED
        BY <1>0, <3>1 DEF TypesAt
    <2> QED
      BY <1>3, <1>6, <1>7, <2>1, <2>3, QuietStep DEF SameFlow, SamePumps
  <1>10. CASE Capacity < Len(s)
    <2>1. Len(t) = Capacity /\ \A j \in 1 .. Capacity : t[j] = s[j] /\ j \in 1 .. Len(s)
      <3>1. t = SubSeq(s, 1, Capacity)
        BY <1>0, <1>8, <1>10
      <3> HIDE DEF s, t
      <3> QED
        BY <1>0, <1>8, <1>10, <3>1
    <2>2. \A K : Queued(c, K)' \subseteq Queued(c, K) /\ Queued(c, K)' \subseteq 1 .. Capacity
      BY <2>1 DEF Queued, Of
    <2>3. \A k : Written(c, k)' => Written(c, k)
      BY <1>3, <2>2 DEF Written, Writing, SameTold
    <2>4. \A j \in Capacity + 1 .. Len(s) : s[j].by \in Pumps /\ s[j].kind \notin Terminals
      <3>1. \A j \in Capacity + 1 .. Len(s) : j \in 1 .. Len(s) /\ s[j] \in Entry
        BY <1>0, <1>8
      <3>2. \A j \in Capacity + 1 .. Len(s) : s[j].by # "main"
        BY <1>4 DEF Blocked
      <3> QED
        BY <3>1, <3>2 DEF Entry, StreamInv, LastInv
    <2>5. \E p \in Pumps : Blocked(c, p)
      <3>1. Capacity + 1 \in Capacity + 1 .. Len(s)
        BY <1>0, <1>8, <1>10
      <3> QED
        BY <2>4, <3>1 DEF Blocked
    <2>6. \A p \in Pumps : ~Blocked(c, p)'
      BY <1>0, <2>1 DEF Blocked
    <2>7. WaitInv(c)'
      <3>1. \A p \in Pumps : \A i \in Capacity + 1 .. Len(t) : FALSE
        BY <1>0, <2>1
      <3> QED
        BY <2>6, <3>1 DEF WaitInv
    <2>8. \A p \in Pumps : /\ pump[c][p] \in {"off", "eof"} => pump'[c][p] = pump[c][p]
                           /\ \/ pump'[c][p] = pump[c][p]
                              \/ pump[c][p] \in {"lineSent", "noteSent"} /\ pump'[c][p] = "stopped"
      BY <1>5 DEF StreamInv, WaitInv
    <2>9. (AllRead(c) => AllRead(c)') /\ (NonePump(c) => NonePump(c)')
          /\ (Truncated(c)' <=> Truncated(c)) /\ \A p \in Pumps : SinkTruncated(c, p)' <=> SinkTruncated(c, p)
      BY <1>3, <2>8 DEF AllRead, NonePump, Ended, Truncated, SinkTruncated
    <2>10. StopInv(c)'
      BY <1>3, <1>4, <2>9 DEF StreamInv, StopInv
    <2>11. LimitInv(c)'
      <3>1. \A p \in Pumps :
              pump'[c][p] \in {"read", "note", "noteSent", "eof"} /\ SinkTruncated(c, p)' => told'[c]
        BY <1>3, <2>8, <2>9 DEF StreamInv, LimitInv
      <3>2. lineEvents'[c] >= MaxLineEvents =>
              told'[c] \/ \E p \in Pumps : pump'[c][p] \in {"line", "lineSent", "stopped"}
        BY <1>3, <2>8 DEF StreamInv, LimitInv
      <3> QED
        BY <1>3, <2>9, <3>1, <3>2 DEF StreamInv, LimitInv
    <2>12. ToldTruth(c)'
      BY <1>3, ToldFrame DEF StreamInv, SameTold
    <2>13. LastInv(c)'
      <3>1. \A k \in {"cancelled", "timeout"} : Written(c, k)' => Linked(c)'
        BY <1>3, <2>3 DEF StreamInv, LastInv
      <3>2. /\ Written(c, "failed")' => NonePump(c)'
            /\ \A k \in Exits : Written(c, k)' =>
                 AllRead(c)' /\ (Truncated(c)' <=> k = "exitTruncated")
        BY <2>3, <2>9 DEF StreamInv, LastInv
      <3>3. Queued(c, Finals)' = {}
        <4>1. \A j \in Queued(c, Finals)' : j = Len(s) /\ j \in 1 .. Capacity
          BY <2>2 DEF StreamInv, LastInv
        <4> QED
          BY <1>0, <1>10, <4>1
      <3>4. s # <<>>
        BY <1>0, <1>10
      <3>5. ~Writing(c, Finals)' /\ \A k \in Finals : ~(delivered'[c][k] > 0)
        BY <1>3, <3>4 DEF StreamInv, LastInv, Writing, SameTold
      <3>6. late'[c] => Linked(c)'
        BY <1>3 DEF StreamInv, LastInv, SameTold
      <3>7. \A j \in 1 .. Len(t) : t[j].kind \in Terminals => t[j].by = "main"
        BY <2>1 DEF StreamInv, LastInv
      <3> QED
        BY <1>4, <3>1, <3>2, <3>3, <3>5, <3>6, <3>7 DEF LastInv
    <2>14. EndCount(c)'
      <3>1. Of(t, Terminals) = Of(s, Terminals)
        <4>1. \A j \in Of(s, Terminals) : j \in 1 .. Capacity
          BY <1>0, <1>8, <2>4 DEF Of
        <4>2. \A j \in 1 .. Capacity : j \in 1 .. Len(s) /\ j \in 1 .. Len(t) /\ t[j] = s[j]
          BY <2>1
        <4>3. \A j \in Of(t, Terminals) : j \in 1 .. Capacity
          BY <2>1 DEF Of
        <4> QED
          BY <4>1, <4>2, <4>3 DEF Of
      <3>2. Number(t, Terminals) = Number(s, Terminals)
        BY <3>1 DEF Number
      <3>3. InHand(c, Terminals)' = InHand(c, Terminals)
        BY <1>3 DEF InHand, Writing, One
      <3> QED
        BY <1>3, <1>6, <3>2, <3>3, EndFrame DEF StreamInv
    <2>15. EventCount(c)'
      <3>1. ~Whole(c)'
        BY <1>5, <2>5 DEF Whole
      <3> QED
        BY <3>1 DEF EventCount
    <2> QED
      BY <1>7, <2>7, <2>10, <2>11, <2>12, <2>13, <2>14, <2>15 DEF StreamInv
  <1> QED
    BY <1>0, <1>8, <1>9, <1>10
------------------------------------------------------------------------------
(***************************************************************************)
(* The pumps.  One that goes on shows that no final result is written yet. *)
(***************************************************************************)
Going == {"read", "line", "note", "lineSent", "noteSent"}

(* What is said of terminal events stays. *)
SameTerminals(c) ==
  /\ \A k \in Terminals : Written(c, k)' => Written(c, k)
  /\ Queued(c, Finals) = {} => Queued(c, Finals)' = {}
  /\ Number(queue'[c], Terminals) = Number(queue[c], Terminals)
  /\ \A j \in 1 .. Len(queue'[c]) : queue'[c][j].kind \in Terminals => queue'[c][j].by = "main"

PumpMoves(c, p, to) ==
  /\ UNCHANGED <<service, handler, producer>>
  /\ pump' = [pump EXCEPT ![c][p] = to]

LEMMA PumpEffect ==
  ASSUME TypeOK, NEW c \in Shell, NEW p \in Pumps, NEW to, PumpMoves(c, p, to)
  PROVE  /\ SameTold(c) /\ rpc'[c] = rpc[c] /\ out'[c] = out[c]
         /\ main'[c] = main[c] /\ timedOut'[c] = timedOut[c] /\ (Linked(c) <=> Linked(c)')
         /\ pump'[c][p] = to /\ \A q \in Pumps \ {p} : pump'[c][q] = pump[c][q]
  <1>1. /\ SameTold(c) /\ rpc'[c] = rpc[c] /\ out'[c] = out[c]
        /\ main'[c] = main[c] /\ timedOut'[c] = timedOut[c] /\ (Linked(c) <=> Linked(c)')
    BY DEF PumpMoves, SameTold, Linked, service, handler, history, producer
  <1>2. pump \in [Shell -> [Pumps -> Places]]
    BY TypeParts DEF TypesByPart, PumpTypes
  <1>3. pump'[c][p] = to /\ \A q \in Pumps \ {p} : pump'[c][q] = pump[c][q]
    BY <1>2 DEF PumpMoves
  <1> QED
    BY <1>1, <1>3

(* The pumps at work after a move. *)
LEMMA WorkMoves ==
  ASSUME NEW c \in Shell, NEW p \in Pumps, NEW to,
         pump'[c][p] = to, \A q \in Pumps \ {p} : pump'[c][q] = pump[c][q]
  PROVE  \A K : AtWork(c, K)' + One(pump[c][p] \in K) = AtWork(c, K) + One(to \in K)
  <1> SUFFICES ASSUME NEW K
               PROVE  AtWork(c, K)' + One(pump[c][p] \in K) = AtWork(c, K) + One(to \in K)
    OBVIOUS
  <1>1. CASE p = "stdout"
    <2>1. pump'[c]["stdout"] = to /\ pump'[c]["stderr"] = pump[c]["stderr"]
      BY <1>1 DEF Pumps
    <2> QED
      BY <1>1, <2>1 DEF AtWork, One
  <1>2. CASE p = "stderr"
    <2>1. pump'[c]["stderr"] = to /\ pump'[c]["stdout"] = pump[c]["stdout"]
      BY <1>2 DEF Pumps
    <2> QED
      BY <1>2, <2>1 DEF AtWork, One
  <1> QED
    BY <1>1, <1>2 DEF Pumps

LEMMA TerminalsStay ==
  ASSUME NEW c \in Shell, LastInv(c), SameTold(c), rpc'[c] = rpc[c], out'[c] = out[c],
         queue'[c] = queue[c]
  PROVE  SameTerminals(c)
  BY DEF SameTerminals, LastInv, Written, Queued, Writing, SameTold

LEMMA Unblocked ==
  ASSUME TypeOK, NEW c \in Shell, NEW p \in Pumps, NEW to, PumpMoves(c, p, to), WaitInv(c),
         ~Blocked(c, p), queue'[c] = queue[c]
  PROVE  WaitInv(c)'
  <1>1. \A q \in Pumps \ {p} : pump'[c][q] = pump[c][q]
    BY PumpEffect
  <1>2. \A q : Blocked(c, q)' <=> Blocked(c, q)
    BY DEF Blocked
  <1> QED
    BY <1>1, <1>2 DEF WaitInv

LEMMA PumpStep ==
  ASSUME TypeOK, TypeOK', NEW c \in Shell, NEW p \in Pumps, NEW to, StreamInv(c),
         PumpMoves(c, p, to), pump[c][p] \in Going,
         to = "stopped" => Linked(c) \/ main[c] = "done",
         SameTerminals(c), WaitInv(c)', LimitInv(c)', EventCount(c)'
  PROVE  StreamInv(c)'
  <1>1. /\ SameTold(c) /\ rpc'[c] = rpc[c] /\ out'[c] = out[c]
        /\ main'[c] = main[c] /\ timedOut'[c] = timedOut[c] /\ (Linked(c) <=> Linked(c)')
        /\ pump'[c][p] = to /\ \A q \in Pumps \ {p} : pump'[c][q] = pump[c][q]
    BY PumpEffect
  <1>2. ~AllRead(c) /\ ~NonePump(c)
    BY DEF AllRead, NonePump, Ended, Going
  <1>3. main[c] \notin {"off", "start", "failed"} /\ rpc[c] \notin {"idle", "open"}
    BY <1>2 DEF StreamInv, BeginInv
  <1>4. BeginInv(c)'
    BY <1>1, <1>3 DEF BeginInv
  <1>5. StopInv(c)'
    BY <1>1, <1>2 DEF StreamInv, StopInv
  <1>6. /\ \A k \in Finals : ~Written(c, k)
        /\ Queued(c, Finals) = {} /\ ~Writing(c, Finals)
    BY <1>2, NoFinal DEF StreamInv
  <1>7. Finals \subseteq Terminals /\ Exits \subseteq Finals /\ "failed" \in Finals
        /\ {"cancelled", "timeout"} \subseteq Terminals
    BY DEF Finals, Exits, Terminals
  <1>8. LastInv(c)'
    <2>1. \A k \in Finals : ~Written(c, k)'
      BY <1>6, <1>7 DEF SameTerminals
    <2>2. \A k \in Terminals : Written(c, k)' => main'[c] \in {"sent", "done"}
      BY <1>1 DEF StreamInv, LastInv, SameTerminals
    <2>3. \A k \in {"cancelled", "timeout"} : Written(c, k)' => Linked(c)'
      BY <1>1, <1>7 DEF StreamInv, LastInv, SameTerminals
    <2>4. Queued(c, Finals)' = {}
      BY <1>6 DEF SameTerminals
    <2>5. ~Writing(c, Finals)' /\ \A k \in Finals : ~(delivered'[c][k] > 0)
      BY <1>1, <1>6, <2>1 DEF Writing, Written
    <2>6. late'[c] => Linked(c)' /\ main'[c] \in {"sent", "done"}
      BY <1>1 DEF StreamInv, LastInv, SameTold
    <2> QED
      BY <1>7, <2>1, <2>2, <2>3, <2>4, <2>5, <2>6 DEF LastInv, SameTerminals
  <1>9. ToldTruth(c)'
    BY <1>1, <1>6 DEF ToldTruth, Written, Finals, Exits, SameTold
  <1>10. EndCount(c)'
    <2>1. InHand(c, Terminals)' = InHand(c, Terminals) /\ SameSettled(c) /\ (Lost(c) => Lost(c)')
      BY <1>1 DEF InHand, Writing, One, SameSettled, Lost
    <2> QED
      BY <1>1, <2>1, EndFrame DEF StreamInv, SameTerminals
  <1>11. CloseInv(c)'
    <2>1. Ends(c)' = Ends(c)
      BY <1>1 DEF Ends, SameTold
    <2> QED
      BY <1>1, <1>2, <2>1 DEF StreamInv, CloseInv
  <1> QED
    BY <1>4, <1>5, <1>8, <1>9, <1>10, <1>11 DEF StreamInv

(* The events keep their number, or one more is drawn and about to be written. *)
LEMMA BalanceAfterMove ==
  ASSUME TypeOK, TypeOK', NEW c \in Shell, NEW p \in Pumps, NEW to, PumpMoves(c, p, to),
         EventCount(c), pump[c][p] \in Going \ {"line", "note"}, queue'[c] = queue[c],
         \/ /\ to \notin {"line", "note"}
            /\ lineEvents'[c] = lineEvents[c] /\ told'[c] = told[c] /\ numbers'[c] = numbers[c]
         \/ /\ to = "line" /\ told'[c] = told[c]
            /\ lineEvents'[c] = lineEvents[c] + 1 /\ numbers'[c] = numbers[c] + 1
         \/ /\ to = "note" /\ lineEvents'[c] = lineEvents[c]
            /\ ~told[c] /\ told'[c] /\ numbers'[c] = numbers[c] + 1
  PROVE  EventCount(c)'
  <1>0. TypesAt(c) /\ TypesAt(c)'
    BY TypesHere
  <1>1. /\ SameTold(c) /\ rpc'[c] = rpc[c] /\ out'[c] = out[c]
        /\ pump'[c][p] = to /\ \A q \in Pumps \ {p} : pump'[c][q] = pump[c][q]
    BY PumpEffect
  <1>2. Whole(c)' => Whole(c)
    <2>1. \A q \in Pumps : pump[c][q] = "stopped" => pump'[c][q] = "stopped"
      BY <1>1 DEF Going
    <2> QED
      BY <1>1, <2>1 DEF Whole, Lost
  <1>3. \A K : InHand(c, K)' = InHand(c, K)
    BY <1>1 DEF InHand, Writing, One
  <1>4. \A K : AtWork(c, K)' + One(pump[c][p] \in K) = AtWork(c, K) + One(to \in K)
    BY <1>1, WorkMoves
  <1>5. \A K : /\ InHand(c, K) \in Nat /\ Number(queue[c], K) \in Nat /\ AtWork(c, K) \in Nat
               /\ AtWork(c, K)' \in Nat
    BY <1>0, PendingNumbers DEF AtWork, One
  <1>6. ASSUME NEW K, pump[c][p] \notin K
        PROVE  AtWork(c, K)' = AtWork(c, K) + One(to \in K)
    <2>1. One(pump[c][p] \in K) = 0
      BY <1>6 DEF One
    <2>2. AtWork(c, K)' + 0 = AtWork(c, K) + One(to \in K) /\ AtWork(c, K)' \in Nat
      BY <1>4, <1>5, <2>1
    <2> QED
      BY <2>2
  <1>7. /\ AtWork(c, {"line"})' = AtWork(c, {"line"}) + One(to \in {"line"})
        /\ AtWork(c, {"note"})' = AtWork(c, {"note"}) + One(to \in {"note"})
        /\ AtWork(c, {"line", "note"})' = AtWork(c, {"line", "note"}) + One(to \in {"line", "note"})
    BY <1>6
  <1>8. /\ Pending(c, "line", "line")' = Pending(c, "line", "line") + One(to \in {"line"})
        /\ Pending(c, "line", "line") \in Nat
    <2> DEFINE h == InHand(c, {"line"})
               n == Number(queue[c], {"line"})
               a == AtWork(c, {"line"})
               x == One(to \in {"line"})
    <2>1. h \in Nat /\ n \in Nat /\ a \in Nat /\ x \in Nat
      BY <1>0, <1>3, <1>5 DEF One, TypesAt
    <2>2. InHand(c, {"line"})' = h /\ AtWork(c, {"line"})' = a + x
      BY <1>3, <1>7
    <2>3. Pending(c, "line", "line") = h + n + a /\ Pending(c, "line", "line")' = h + n + (a + x)
      BY <2>2 DEF Pending
    <2> HIDE DEF h, n, a, x
    <2>4. h + n + (a + x) = h + n + a + x /\ h + n + a \in Nat
      BY <2>1
    <2> QED
      BY <2>3, <2>4 DEF x
  <1>9. /\ Pending(c, "truncated", "note")' = Pending(c, "truncated", "note") + One(to \in {"note"})
        /\ Pending(c, "truncated", "note") \in Nat
    <2> DEFINE h == InHand(c, {"truncated"})
               n == Number(queue[c], {"truncated"})
               a == AtWork(c, {"note"})
               x == One(to \in {"note"})
    <2>1. h \in Nat /\ n \in Nat /\ a \in Nat /\ x \in Nat
      BY <1>0, <1>3, <1>5 DEF One, TypesAt
    <2>2. InHand(c, {"truncated"})' = h /\ AtWork(c, {"note"})' = a + x
      BY <1>3, <1>7
    <2>3. Pending(c, "truncated", "note") = h + n + a /\ Pending(c, "truncated", "note")' = h + n + (a + x)
      BY <2>2 DEF Pending
    <2> HIDE DEF h, n, a, x
    <2>4. h + n + (a + x) = h + n + a + x /\ h + n + a \in Nat
      BY <2>1
    <2> QED
      BY <2>3, <2>4 DEF x
  <1>10. AllPending(c)' = AllPending(c) + One(to \in {"line", "note"}) /\ AllPending(c) \in Nat
    <2> DEFINE h == InHand(c, Kinds)
               n == Len(queue[c])
               a == AtWork(c, {"line", "note"})
               x == One(to \in {"line", "note"})
    <2>1. h \in Nat /\ n \in Nat /\ a \in Nat /\ x \in Nat
      BY <1>0, <1>3, <1>5 DEF One, TypesAt
    <2>2. InHand(c, Kinds)' = h /\ AtWork(c, {"line", "note"})' = a + x
      BY <1>3, <1>7
    <2>3. AllPending(c) = h + n + a /\ AllPending(c)' = h + n + (a + x)
      BY <2>2 DEF AllPending
    <2> HIDE DEF h, n, a, x
    <2>4. h + n + (a + x) = h + n + a + x /\ h + n + a \in Nat
      BY <2>1
    <2> QED
      BY <2>3, <2>4 DEF x
  <1>11. numbers[c] \in Nat /\ lineEvents[c] \in Nat
    BY <1>0, LimitsAssumption DEF TypesAt
  <1>12. /\ lineEvents'[c] = lineEvents[c] + One(to \in {"line"})
         /\ One(told'[c]) = One(told[c]) + One(to \in {"note"})
         /\ numbers'[c] = numbers[c] + One(to \in {"line", "note"})
    BY <1>11 DEF One
  <1>13. /\ lineEvents'[c] + Pending(c, "line", "line") = lineEvents[c] + Pending(c, "line", "line")'
         /\ One(told'[c]) + Pending(c, "truncated", "note")
              = One(told[c]) + Pending(c, "truncated", "note")'
         /\ numbers'[c] + AllPending(c) = numbers[c] + AllPending(c)'
    <2>1. /\ One(to \in {"line"}) \in Nat /\ One(to \in {"note"}) \in Nat
          /\ One(to \in {"line", "note"}) \in Nat /\ One(told[c]) \in Nat
      BY DEF One
    <2>2. lineEvents'[c] + Pending(c, "line", "line") = lineEvents[c] + Pending(c, "line", "line")'
      BY <1>8, <1>11, <1>12, <2>1
    <2>3. One(told'[c]) + Pending(c, "truncated", "note")
            = One(told[c]) + Pending(c, "truncated", "note")'
      BY <1>9, <1>12, <2>1
    <2>4. numbers'[c] + AllPending(c) = numbers[c] + AllPending(c)'
      BY <1>10, <1>11, <1>12, <2>1
    <2> QED
      BY <2>2, <2>3, <2>4
  <1> QED
    BY <1>0, <1>1, <1>2, <1>13, EventBalance

(* Where a pump reads from. *)
LEMMA ReadingFrom ==
  ASSUME NEW c \in Shell, NEW p \in Pumps, NEW to, WaitInv(c), Reading(c, p, to)
  PROVE  /\ pump[c][p] \in {"read", "noteSent"} /\ ~Blocked(c, p)
         /\ pump' = [pump EXCEPT ![c][p] = to]
  BY DEF Reading, PumpGoes, WaitInv

LEMMA ReadLineStep ==
  ASSUME TypeOK, TypeOK', NEW c \in Shell, NEW p \in Pumps, StreamInv(c), ReadLine(c, p)
  PROVE  StreamInv(c)'
  <1>0. TypesAt(c) /\ ChannelTypes /\ PumpTypes /\ MaxLineEvents \in Nat
    BY TypesHere, TypeParts, LimitsAssumption DEF TypesByPart
  <1>1. UNCHANGED <<service, handler, queue, producer, told>>
    BY DEF ReadLine
  <1>2. lines'[c][p] = lines[c][p] + 1 /\ \A q \in Pumps \ {p} : lines'[c][q] = lines[c][q]
    BY <1>0 DEF ReadLine, PumpTypes
  <1>3. PICK to \in {"line", "lineSent"} :
          /\ Reading(c, p, to)
          /\ \/ /\ to = "line" /\ lineEvents[c] < MaxLineEvents
                /\ lineEvents' = [lineEvents EXCEPT ![c] = @ + 1] /\ DrawNumber(c)
             \/ /\ to = "lineSent" /\ ~(lineEvents[c] < MaxLineEvents)
                /\ UNCHANGED <<lineEvents, numbers>>
    <2>1. CASE lineEvents[c] < MaxLineEvents
      BY <2>1, Zenon DEF ReadLine
    <2>2. CASE ~(lineEvents[c] < MaxLineEvents)
      BY <2>2, Zenon DEF ReadLine
    <2> QED
      BY <2>1, <2>2
  <1>4. /\ pump[c][p] \in {"read", "noteSent"} /\ ~Blocked(c, p)
        /\ PumpMoves(c, p, to)
    BY <1>1, <1>3, ReadingFrom DEF StreamInv, PumpMoves
  <1>5. /\ SameTold(c) /\ rpc'[c] = rpc[c] /\ out'[c] = out[c]
        /\ pump'[c][p] = to /\ \A q \in Pumps \ {p} : pump'[c][q] = pump[c][q]
    BY <1>4, PumpEffect
  <1>6. SameTerminals(c) /\ WaitInv(c)'
    BY <1>1, <1>4, <1>5, TerminalsStay, Unblocked DEF StreamInv
  <1>7. \/ /\ to = "line" /\ lineEvents[c] < MaxLineEvents
           /\ lineEvents'[c] = lineEvents[c] + 1 /\ numbers'[c] = numbers[c] + 1
        \/ /\ to = "lineSent" /\ lineEvents[c] = MaxLineEvents
           /\ lineEvents'[c] = lineEvents[c] /\ numbers'[c] = numbers[c]
    BY <1>0, <1>3 DEF ChannelTypes, PumpTypes, DrawNumber
  <1>8. EventCount(c)'
    BY <1>1, <1>4, <1>7, BalanceAfterMove DEF StreamInv, Going
  <1>9. LimitInv(c)'
    <2>1. lineEvents[c] \in Nat /\ \A q \in Pumps : lines[c][q] \in Nat /\ Kept[q] \in Nat
      BY <1>0, LimitsAssumption DEF TypesAt, Pumps
    <2>2. lines'[c]["stdout"] + lines'[c]["stderr"] = lines[c]["stdout"] + lines[c]["stderr"] + 1
      <3>1. lines[c]["stdout"] \in Nat /\ lines[c]["stderr"] \in Nat
        BY <2>1 DEF Pumps
      <3>2. CASE p = "stdout"
        BY <1>2, <3>1, <3>2 DEF Pumps
      <3>3. CASE p = "stderr"
        BY <1>2, <3>1, <3>3 DEF Pumps
      <3> QED
        BY <3>2, <3>3 DEF Pumps
    <2>3. \/ lineEvents'[c] = lines'[c]["stdout"] + lines'[c]["stderr"]
          \/ lineEvents'[c] = MaxLineEvents
      BY <1>0, <1>7, <2>1, <2>2 DEF StreamInv, LimitInv
    <2>4. \A q \in Pumps : SinkTruncated(c, q) => SinkTruncated(c, q)'
      BY <1>2, <2>1 DEF SinkTruncated
    <2>5. told'[c] = told[c] /\ (told[c] => Truncated(c)')
      <3>1. lineEvents[c] >= MaxLineEvents => lineEvents'[c] >= MaxLineEvents
        BY <1>0, <1>7, <2>1
      <3> QED
        BY <1>1, <2>4, <3>1 DEF StreamInv, LimitInv, Truncated
    <2>6. \A q \in Pumps : pump'[c][q] \in {"read", "note", "noteSent", "eof"} /\ SinkTruncated(c, q)'
                             => told[c]
      <3>1. \A q \in Pumps \ {p} : SinkTruncated(c, q)' => SinkTruncated(c, q)
        BY <1>2 DEF SinkTruncated
      <3> QED
        BY <1>3, <1>5, <3>1 DEF StreamInv, LimitInv
    <2> QED
      BY <1>3, <1>5, <2>3, <2>5, <2>6 DEF LimitInv
  <1> QED
    BY <1>3, <1>4, <1>6, <1>8, <1>9, PumpStep DEF Going

LEMMA CheckStep ==
  ASSUME TypeOK, TypeOK', NEW c \in Shell, NEW p \in Pumps, StreamInv(c), Check(c, p)
  PROVE  StreamInv(c)'
  <1>0. TypesAt(c) /\ ChannelTypes /\ PumpTypes
    BY TypesHere, TypeParts DEF TypesByPart
  <1>1. UNCHANGED <<service, handler, queue, producer, lines, lineEvents>> /\ ~Blocked(c, p)
    BY DEF Check
  <1>2. PICK to \in {"note", "read"} :
          /\ PumpGoes(c, p, "lineSent", to)
          /\ \/ /\ to = "note" /\ Truncated(c) /\ ~told[c]
                /\ told' = [told EXCEPT ![c] = TRUE] /\ DrawNumber(c)
             \/ /\ to = "read"
                /\ (SinkTruncated(c, p) \/ lineEvents[c] >= MaxLineEvents) => told[c]
                /\ UNCHANGED <<told, numbers>>
    <2>1. CASE (SinkTruncated(c, p) \/ lineEvents[c] >= MaxLineEvents) /\ ~told[c]
      BY <2>1, Zenon DEF Check, Truncated
    <2>2. CASE ~((SinkTruncated(c, p) \/ lineEvents[c] >= MaxLineEvents) /\ ~told[c])
      BY <2>2, Zenon DEF Check
    <2> QED
      BY <2>1, <2>2
  <1>3. pump[c][p] = "lineSent" /\ PumpMoves(c, p, to)
    BY <1>1, <1>2 DEF PumpMoves, PumpGoes
  <1>4. /\ SameTold(c) /\ rpc'[c] = rpc[c] /\ out'[c] = out[c]
        /\ pump'[c][p] = to /\ \A q \in Pumps \ {p} : pump'[c][q] = pump[c][q]
    BY <1>3, PumpEffect
  <1>5. SameTerminals(c) /\ WaitInv(c)'
    BY <1>1, <1>3, <1>4, TerminalsStay, Unblocked DEF StreamInv
  <1>6. \/ to = "note" /\ Truncated(c) /\ ~told[c] /\ told'[c] /\ numbers'[c] = numbers[c] + 1
        \/ /\ to = "read" /\ told'[c] = told[c] /\ numbers'[c] = numbers[c]
           /\ (SinkTruncated(c, p) \/ lineEvents[c] >= MaxLineEvents) => told[c]
    BY <1>0, <1>2 DEF ChannelTypes, PumpTypes, DrawNumber
  <1>7. EventCount(c)'
    BY <1>1, <1>3, <1>6, BalanceAfterMove DEF StreamInv, Going
  <1>8. LimitInv(c)'
    <2>1. lines' = lines /\ lineEvents' = lineEvents
      BY <1>1
    <2>2. (Truncated(c) <=> Truncated(c)')
          /\ \A q \in Pumps : SinkTruncated(c, q) <=> SinkTruncated(c, q)'
      BY <2>1 DEF Truncated, SinkTruncated
    <2>3. told[c] => told'[c]
      BY <1>6
    <2>4. told'[c] => Truncated(c)'
      BY <1>6, <2>2 DEF StreamInv, LimitInv
    <2>5. \A q \in Pumps : pump'[c][q] \in {"read", "note", "noteSent", "eof"} /\ SinkTruncated(c, q)'
                             => told'[c]
      BY <1>4, <1>6, <2>2, <2>3 DEF StreamInv, LimitInv
    <2>6. lineEvents'[c] >= MaxLineEvents =>
            told'[c] \/ \E q \in Pumps : pump'[c][q] \in {"line", "lineSent", "stopped"}
      BY <1>4, <1>6, <2>1, <2>3 DEF StreamInv, LimitInv
    <2> QED
      BY <2>1, <2>4, <2>5, <2>6 DEF StreamInv, LimitInv
  <1> QED
    BY <1>2, <1>3, <1>5, <1>7, <1>8, PumpStep DEF Going

LEMMA EndOfFileStep ==
  ASSUME TypeOK, TypeOK', NEW c \in Shell, NEW p \in Pumps, StreamInv(c), EndOfFile(c, p)
  PROVE  StreamInv(c)'
  <1>1. UNCHANGED <<service, handler, queue, numbers, producer, lines, lineEvents, told>>
    BY DEF EndOfFile, channel
  <1>2. /\ pump[c][p] \in {"read", "noteSent"} /\ ~Blocked(c, p)
        /\ PumpMoves(c, p, "eof")
    BY <1>1, ReadingFrom DEF StreamInv, PumpMoves, EndOfFile
  <1>3. /\ SameTold(c) /\ rpc'[c] = rpc[c] /\ out'[c] = out[c]
        /\ pump'[c][p] = "eof" /\ \A q \in Pumps \ {p} : pump'[c][q] = pump[c][q]
    BY <1>2, PumpEffect
  <1>4. SameTerminals(c) /\ WaitInv(c)'
    BY <1>1, <1>2, <1>3, TerminalsStay, Unblocked DEF StreamInv
  <1>5. EventCount(c)'
    BY <1>1, <1>2, BalanceAfterMove DEF StreamInv, Going
  <1>6. LimitInv(c)'
    BY <1>1, <1>2, <1>3 DEF StreamInv, LimitInv, Truncated, SinkTruncated
  <1> QED
    BY <1>2, <1>4, <1>5, <1>6, PumpStep DEF Going

LEMMA StopStep ==
  ASSUME TypeOK, TypeOK', NEW c \in Shell, NEW p \in Pumps, StreamInv(c), Stop(c, p)
  PROVE  StreamInv(c)'
  <1>0. TypesAt(c) /\ ChannelTypes /\ Capacity \in Nat
    BY TypesHere, TypeParts, LimitsAssumption DEF TypesByPart
  <1>1. PumpMoves(c, p, "stopped") /\ UNCHANGED <<lines, lineEvents, told>>
    BY DEF Stop, PumpMoves
  <1>2. /\ SameTold(c) /\ rpc'[c] = rpc[c] /\ out'[c] = out[c]
        /\ pump'[c][p] = "stopped" /\ \A q \in Pumps \ {p} : pump'[c][q] = pump[c][q]
    BY <1>1, PumpEffect
  <1>3. /\ pump[c][p] \in Going /\ (Linked(c) \/ main[c] = "done")
        /\ \/ queue' = queue /\ ~Blocked(c, p)
           \/ Blocked(c, p) /\ queue' = [queue EXCEPT ![c] = Without(@, p)]
    BY DEF Stop, StreamInv, WaitInv, Going, Completed
  <1>4. EventCount(c)'
    BY <1>2 DEF EventCount, Whole
  <1>5. LimitInv(c)'
    <2>1. /\ lines' = lines /\ lineEvents' = lineEvents /\ told' = told
          /\ (Truncated(c) <=> Truncated(c)')
          /\ \A q \in Pumps : SinkTruncated(c, q) <=> SinkTruncated(c, q)'
      BY <1>1 DEF Truncated, SinkTruncated
    <2> QED
      BY <1>2, <2>1 DEF StreamInv, LimitInv
  <1>6. CASE queue' = queue /\ ~Blocked(c, p)
    <2>1. SameTerminals(c) /\ WaitInv(c)'
      BY <1>1, <1>2, <1>6, TerminalsStay, Unblocked DEF StreamInv
    <2> QED
      BY <1>1, <1>3, <1>4, <1>5, <2>1, PumpStep
  <1>7. CASE Blocked(c, p) /\ queue' = [queue EXCEPT ![c] = Without(@, p)]
    <2> DEFINE s == queue[c]
               t == queue'[c]
    <2>1. t = Without(s, p) /\ s \in Seq(Entry) /\ \E i \in Capacity + 1 .. Len(s) : s[i].by = p
      BY <1>0, <1>7 DEF ChannelTypes, Blocked
    <2>2. PICK g \in Capacity + 1 .. Len(s) :
            /\ s[g].by = p /\ Len(t) = Len(s) - 1
            /\ \A j \in 1 .. Len(s) - 1 : t[j] = IF j < g THEN s[j] ELSE s[j + 1]
      <3> HIDE DEF s, t
      <3>1. \E g \in Capacity + 1 .. Len(s) :
              /\ s[g].by = p /\ Len(Without(s, p)) = Len(s) - 1
              /\ \A j \in 1 .. Len(s) - 1 : Without(s, p)[j] = IF j < g THEN s[j] ELSE s[j + 1]
        BY <2>1, OfWithout
      <3> QED
        BY <2>1, <3>1
    <2>3. Len(s) \in Nat /\ g \in Nat /\ Capacity < g /\ g <= Len(s)
      BY <1>0, <2>1
    <2>4. \A j \in 1 .. Len(s) : s[j].kind \in Terminals => s[j].by # p
      BY DEF StreamInv, LastInv, Pumps
    <2>5. (\A q : Blocked(c, q) <=> \E i \in Capacity + 1 .. Len(s) : s[i].by = q)
          /\ (\A q : Blocked(c, q)' <=> \E i \in Capacity + 1 .. Len(t) : t[i].by = q)
      BY DEF Blocked
    <2>6. Number(t, Terminals) = Number(s, Terminals)
      BY <2>1, <2>4, NumberWithout DEF Number
    <2>7. \A K : /\ Queued(c, K) = {j \in 1 .. Len(s) : s[j].kind \in K}
                 /\ Queued(c, K)' = {j \in 1 .. Len(t) : t[j].kind \in K}
      BY DEF Queued, Of
    <2>8. /\ \A j \in 1 .. Len(s) : s[j].kind \in Terminals => s[j].by = "main"
          /\ \A q \in Pumps : \A i, j \in Capacity + 1 .. Len(s) : s[i].by = q /\ s[j].by = q => i = j
      BY DEF StreamInv, LastInv, WaitInv
    <2> HIDE DEF s, t
    <2>9. \A j \in 1 .. Len(t) :
            \/ j < g /\ j \in 1 .. Len(s) /\ t[j] = s[j]
            \/ ~(j < g) /\ j + 1 \in 1 .. Len(s) /\ t[j] = s[j + 1]
      BY <2>2, <2>3
    <2>10. \A j \in Capacity + 1 .. Len(t) : j \in 1 .. Len(t) /\ j \in Int
      BY <1>0
    <2>11. \A j \in Capacity + 1 .. Len(t) :
             \/ j < g /\ j \in Capacity + 1 .. Len(s) /\ t[j] = s[j]
             \/ ~(j < g) /\ j + 1 \in Capacity + 1 .. Len(s) /\ t[j] = s[j + 1]
      BY <1>0, <2>2, <2>3, <2>9, <2>10
    <2>12. \A q : Blocked(c, q)' => Blocked(c, q)
      BY <2>5, <2>11
    <2>13. ASSUME NEW q \in Pumps, NEW i \in Capacity + 1 .. Len(t),
                  NEW j \in Capacity + 1 .. Len(t), t[i].by = q, t[j].by = q
           PROVE  i = j
      <3>1. i \in Int /\ j \in Int
        BY <2>10
      <3>2. CASE i < g /\ j < g
        BY <2>8, <2>11, <2>13, <3>2
      <3>3. CASE ~(i < g) /\ ~(j < g)
        <4>1. i + 1 = j + 1
          BY <2>8, <2>11, <2>13, <3>3
        <4> QED
          BY <3>1, <4>1
      <3>4. CASE i < g /\ ~(j < g)
        <4>1. i = j + 1
          BY <2>8, <2>11, <2>13, <3>4
        <4> QED
          BY <2>3, <3>1, <3>4, <4>1
      <3>5. CASE ~(i < g) /\ j < g
        <4>1. i + 1 = j
          BY <2>8, <2>11, <2>13, <3>5
        <4> QED
          BY <2>3, <3>1, <3>5, <4>1
      <3> QED
        BY <3>2, <3>3, <3>4, <3>5
    <2>14. ~Blocked(c, p)'
      <3>1. ASSUME NEW j \in Capacity + 1 .. Len(t), t[j].by = p PROVE FALSE
        <4>1. j \in Int
          BY <2>10
        <4>2. CASE j < g
          BY <2>2, <2>8, <2>11, <3>1, <4>1, <4>2
        <4>3. CASE ~(j < g)
          <5>1. j + 1 = g
            BY <2>2, <2>8, <2>11, <3>1, <4>3
          <5> QED
            BY <2>3, <4>1, <4>3, <5>1
        <4> QED
          BY <4>2, <4>3
      <3> QED
        BY <2>5, <3>1
    <2>15. WaitInv(c)'
      <3>1. \A q \in Pumps : Blocked(c, q)' => pump'[c][q] \in {"lineSent", "noteSent"}
        BY <1>2, <2>12, <2>14 DEF StreamInv, WaitInv
      <3> QED
        BY <2>13, <3>1 DEF WaitInv, t
    <2>16. SameTerminals(c)
      <3>1. \A K : Queued(c, K) = {} => Queued(c, K)' = {}
        BY <2>7, <2>9
      <3>2. \A k \in Terminals : Written(c, k)' => Written(c, k)
        BY <1>2, <3>1 DEF Written, Writing, SameTold
      <3>3. \A j \in 1 .. Len(t) : t[j].kind \in Terminals => t[j].by = "main"
        BY <2>8, <2>9
      <3> QED
        BY <2>6, <3>1, <3>2, <3>3 DEF SameTerminals, s, t
    <2> QED
      BY <1>1, <1>3, <1>4, <1>5, <2>15, <2>16, PumpStep
  <1> QED
    BY <1>3, <1>6, <1>7

(* A line or the truncation event is written. *)
LEMMA PutStep ==
  ASSUME TypeOK, TypeOK', NEW c \in Shell, NEW p \in Pumps, NEW from, NEW to, NEW kind,
         StreamInv(c), Put(c, p, kind), PumpMoves(c, p, to), pump[c][p] = from,
         \/ from = "line" /\ to = "lineSent" /\ kind = "line"
         \/ from = "note" /\ to = "noteSent" /\ kind = "truncated",
         UNCHANGED <<numbers, lines, lineEvents, told>>
  PROVE  StreamInv(c)'
  <1>0. TypesAt(c) /\ TypesAt(c)' /\ kind \in Kinds \ Terminals
    BY TypesHere DEF Kinds, Terminals
  <1>1. /\ SameTold(c) /\ rpc'[c] = rpc[c] /\ out'[c] = out[c] /\ (Lost(c) <=> Lost(c)')
        /\ pump'[c][p] = to /\ \A q \in Pumps \ {p} : pump'[c][q] = pump[c][q]
    BY PumpEffect DEF Lost
  <1>2. /\ \A k \in Terminals : Written(c, k)' <=> Written(c, k)
        /\ Queued(c, Finals)' = Queued(c, Finals)
        /\ \A K : InHand(c, K)' = InHand(c, K)
        /\ Number(queue'[c], Terminals) = Number(queue[c], Terminals)
        /\ \A j \in 1 .. Len(queue'[c]) :
             queue'[c][j].kind \in Terminals => queue'[c][j].by = "main"
    BY <1>0, <1>1, NoTerminalPut DEF StreamInv
  <1>3. SameTerminals(c)
    BY <1>2 DEF SameTerminals
  <1>4. WaitInv(c)'
    <2>1. ~Blocked(c, p)
      BY DEF StreamInv, WaitInv
    <2>2. /\ \A q \in Pumps \ {p} : Blocked(c, q)' => Blocked(c, q)
          /\ WaitInv(c) => \A q \in Pumps : q # p \/ ~Blocked(c, q) =>
               \A i, j \in Capacity + 1 .. Len(queue'[c]) :
                 queue'[c][i].by = q /\ queue'[c][j].by = q => i = j
      BY <1>0, WaitAfterPut
    <2>3. \A q \in Pumps : \A i, j \in Capacity + 1 .. Len(queue'[c]) :
            queue'[c][i].by = q /\ queue'[c][j].by = q => i = j
      BY <2>1, <2>2 DEF StreamInv
    <2>4. \A q \in Pumps : Blocked(c, q)' => pump'[c][q] \in {"lineSent", "noteSent"}
      BY <1>1, <2>2 DEF StreamInv, WaitInv
    <2> QED
      BY <2>3, <2>4 DEF WaitInv
  <1>5. LimitInv(c)'
    <2>1. /\ lines' = lines /\ lineEvents' = lineEvents /\ told' = told
          /\ (Truncated(c) <=> Truncated(c)')
          /\ \A q \in Pumps : SinkTruncated(c, q) <=> SinkTruncated(c, q)'
      BY DEF Truncated, SinkTruncated
    <2>2. \A q \in Pumps : pump'[c][q] \in {"read", "note", "noteSent", "eof"} =>
                             pump[c][q] \in {"read", "note", "noteSent", "eof"}
      BY <1>1
    <2>3. \A q \in Pumps : pump[c][q] \in {"line", "lineSent", "stopped"} =>
                             pump'[c][q] \in {"line", "lineSent", "stopped"}
      BY <1>1
    <2> QED
      BY <2>1, <2>2, <2>3 DEF StreamInv, LimitInv
  <1>6. EventCount(c)'
    <2>1. \A K : /\ Number(queue'[c], K) = Number(queue[c], K) + One(kind \in K)
                 /\ AtWork(c, K)' + One(from \in K) = AtWork(c, K) + One(to \in K)
                 /\ InHand(c, K)' = InHand(c, K)
      <3>1. \A K : Number(queue'[c], K) = Number(queue[c], K) + One(kind \in K)
        BY <1>0, AfterPut
      <3>2. \A K : AtWork(c, K)' + One(pump[c][p] \in K) = AtWork(c, K) + One(to \in K)
        BY <1>1, WorkMoves
      <3> QED
        BY <1>2, <3>1, <3>2
    <2>2. \A K : InHand(c, K) \in Nat /\ Number(queue[c], K) \in Nat /\ AtWork(c, K) \in Nat
      BY <1>0, PendingNumbers
    <2>3. \A K : AtWork(c, K)' \in Nat
      BY DEF AtWork, One
    <2>4. lineEvents'[c] = lineEvents[c] /\ told'[c] = told[c] /\ numbers'[c] = numbers[c]
      OBVIOUS
    <2>5. Pending(c, "line", "line")' = Pending(c, "line", "line")
      <3> DEFINE n == Number(queue[c], {"line"})
                 m == Number(queue'[c], {"line"})
                 a == AtWork(c, {"line"})
                 b == AtWork(c, {"line"})'
                 h == InHand(c, {"line"})
                 x == One(from \in {"line"})
      <3>1. One(kind \in {"line"}) = x /\ One(to \in {"line"}) = 0 /\ x \in Nat
        BY DEF One
      <3>2. n \in Nat /\ a \in Nat /\ b \in Nat /\ h \in Nat
        BY <2>2, <2>3
      <3>3. m = n + x /\ b + x = a
        <4>1. m = n + One(kind \in {"line"}) /\ b + x = a + One(to \in {"line"})
          BY <2>1
        <4>2. a + 0 = a
          BY <3>2
        <4> HIDE DEF n, m, a, b, h, x
        <4> QED
          BY <3>1, <4>1, <4>2
      <3>4. InHand(c, {"line"})' = h
        BY <2>1
      <3> HIDE DEF n, m, a, b, h, x
      <3>5. h + m + b = h + n + a
        BY <3>1, <3>2, <3>3
      <3> QED
        BY <3>4, <3>5 DEF Pending, n, m, a, b, h
    <2>6. Pending(c, "truncated", "note")' = Pending(c, "truncated", "note")
      <3> DEFINE n == Number(queue[c], {"truncated"})
                 m == Number(queue'[c], {"truncated"})
                 a == AtWork(c, {"note"})
                 b == AtWork(c, {"note"})'
                 h == InHand(c, {"truncated"})
                 x == One(from \in {"note"})
      <3>1. One(kind \in {"truncated"}) = x /\ One(to \in {"note"}) = 0 /\ x \in Nat
        BY DEF One
      <3>2. n \in Nat /\ a \in Nat /\ b \in Nat /\ h \in Nat
        BY <2>2, <2>3
      <3>3. m = n + x /\ b + x = a
        <4>1. m = n + One(kind \in {"truncated"}) /\ b + x = a + One(to \in {"note"})
          BY <2>1
        <4>2. a + 0 = a
          BY <3>2
        <4> HIDE DEF n, m, a, b, h, x
        <4> QED
          BY <3>1, <4>1, <4>2
      <3>4. InHand(c, {"truncated"})' = h
        BY <2>1
      <3> HIDE DEF n, m, a, b, h, x
      <3>5. h + m + b = h + n + a
        BY <3>1, <3>2, <3>3
      <3> QED
        BY <3>4, <3>5 DEF Pending, n, m, a, b, h
    <2>7. AllPending(c)' = AllPending(c)
      <3> DEFINE n == Len(queue[c])
                 m == Len(queue'[c])
                 a == AtWork(c, {"line", "note"})
                 b == AtWork(c, {"line", "note"})'
                 h == InHand(c, Kinds)
      <3>1. One(from \in {"line", "note"}) = 1 /\ One(to \in {"line", "note"}) = 0
        BY DEF One
      <3>2. b + One(from \in {"line", "note"}) = a + One(to \in {"line", "note"})
        BY <2>1
      <3>3. n \in Nat /\ m = n + 1
        BY <1>0, AfterPut
      <3>4. a \in Nat /\ b \in Nat /\ h \in Nat
        BY <2>2, <2>3
      <3>5. InHand(c, Kinds)' = h
        BY <2>1
      <3> HIDE DEF n, m, a, b, h
      <3>6. h + m + b = h + n + a
        BY <3>1, <3>2, <3>3, <3>4
      <3> QED
        BY <3>5, <3>6 DEF AllPending, n, m, a, b, h
    <2>8. /\ Pending(c, "line", "line") \in Nat /\ Pending(c, "truncated", "note") \in Nat
          /\ AllPending(c) \in Nat
      BY <1>0, PendingNumbers
    <2>9. Whole(c)' => Whole(c)
      BY <1>1 DEF Whole
    <2> QED
      BY <1>0, <1>1, <2>4, <2>5, <2>6, <2>7, <2>9, EventBalance DEF StreamInv
  <1> QED
    BY <1>3, <1>4, <1>5, <1>6, PumpStep DEF Going

LEMMA WriteStep ==
  ASSUME TypeOK, TypeOK', NEW c \in Shell, NEW p \in Pumps, StreamInv(c), Write(c, p)
  PROVE  StreamInv(c)'
  <1>1. UNCHANGED <<service, handler, producer>> /\ UNCHANGED <<numbers, lines, lineEvents, told>>
    BY DEF Write
  <1>2. CASE PumpGoes(c, p, "line", "lineSent") /\ Put(c, p, "line")
    <2>1. pump[c][p] = "line" /\ PumpMoves(c, p, "lineSent")
      BY <1>1, <1>2 DEF PumpGoes, PumpMoves
    <2> QED
      BY <1>1, <1>2, <2>1, PutStep
  <1>3. CASE PumpGoes(c, p, "note", "noteSent") /\ Put(c, p, "truncated")
    <2>1. pump[c][p] = "note" /\ PumpMoves(c, p, "noteSent")
      BY <1>1, <1>3 DEF PumpGoes, PumpMoves
    <2> QED
      BY <1>1, <1>3, <2>1, PutStep
  <1> QED
    BY <1>2, <1>3 DEF Write
------------------------------------------------------------------------------
(***************************************************************************)
(* Every step keeps what is said of every stream.                          *)
(***************************************************************************)
Streams == \A c \in Shell : StreamInv(c)

LEMMA StreamsInit == Init => Streams
  <1> SUFFICES ASSUME Init, NEW c \in Shell PROVE StreamInv(c)
    BY DEF Streams
  <1>0. c \in Calls /\ TypeOK
    BY CallsAssumption, TypeInit
  <1>1. /\ rpc[c] = "idle" /\ main[c] = "off" /\ queue[c] = <<>> /\ numbers[c] = 0
        /\ late[c] = FALSE /\ lineEvents[c] = 0 /\ told[c] = FALSE
        /\ \A k \in Kinds : delivered[c][k] = 0
        /\ \A p \in Pumps : pump[c][p] = "off" /\ lines[c][p] = 0
    BY <1>0 DEF Init
  <1>2. \A p \in Pumps : ~Blocked(c, p)
    BY <1>1, LimitsAssumption DEF Blocked
  <1>3. \A K : /\ Number(queue[c], K) = 0 /\ Queued(c, K) = {} /\ ~Writing(c, K)
               /\ InHand(c, K) = 0
    BY <1>1, NoneInEmpty DEF Queued, Writing, InHand, One
  <1>4. \A p \in Pumps : ~SinkTruncated(c, p)
    BY <1>1, LimitsAssumption DEF SinkTruncated, Pumps
  <1>5. \A k \in Kinds : ~Written(c, k)
    BY <1>1, <1>3 DEF Written
  <1>6. Ends(c) = 0 /\ Events(c) = 0
    <2>1. /\ delivered[c]["exit"] = 0 /\ delivered[c]["exitTruncated"] = 0
          /\ delivered[c]["failed"] = 0 /\ delivered[c]["cancelled"] = 0
          /\ delivered[c]["timeout"] = 0 /\ delivered[c]["start"] = 0
          /\ delivered[c]["line"] = 0 /\ delivered[c]["truncated"] = 0
      BY <1>1 DEF Kinds, Terminals
    <2> QED
      BY <2>1 DEF Ends, Events
  <1>7. BeginInv(c) /\ StopInv(c)
    BY <1>1 DEF BeginInv, StopInv, NonePump, Ended
  <1>8. WaitInv(c)
    BY <1>1, <1>2, LimitsAssumption DEF WaitInv
  <1>9. LimitInv(c)
    BY <1>1, <1>4, LimitsAssumption DEF LimitInv, Pumps
  <1>10. LastInv(c)
    BY <1>1, <1>3, <1>5 DEF LastInv, Kinds, Terminals, Finals, Exits
  <1>11. EndCount(c)
    BY <1>1, <1>3, <1>6 DEF EndCount, One
  <1>12. EventCount(c)
    <2>1. AtWork(c, {"line"}) = 0 /\ AtWork(c, {"note"}) = 0 /\ AtWork(c, {"line", "note"}) = 0
      BY <1>1 DEF AtWork, One, Pumps
    <2>2. Len(queue[c]) = 0 /\ delivered[c]["line"] = 0 /\ delivered[c]["truncated"] = 0
      BY <1>1 DEF Kinds
    <2> QED
      BY <1>1, <1>3, <1>6, <2>1, <2>2 DEF EventCount, One
  <1>13. ToldTruth(c) /\ CloseInv(c)
    BY <1>1 DEF ToldTruth, CloseInv, Kinds, Terminals
  <1> QED
    BY <1>7, <1>8, <1>9, <1>10, <1>11, <1>12, <1>13 DEF StreamInv

(* Whose step it is. *)
LEMMA HandlerKeeps ==
  ASSUME TypeOK, NEW c \in Shell, NEW d \in Calls, StreamInv(c), Register(d) \/ Handle(d)
  PROVE  StreamInv(c)'
  <1>1. CASE d = c
    BY <1>1, OwnQuietSteps, TryReadStep, DeliverStep DEF Handle
  <1>2. CASE d # c
    BY <1>2, OtherHandler, StillStream
  <1> QED
    BY <1>1, <1>2

LEMMA ProducerKeeps ==
  ASSUME TypeOK, TypeOK', NEW c \in Shell, NEW d \in Shell, StreamInv(c),
         ClientLeaves(d) \/ Produce(d) \/ TimeOut(d) \/ ProcessExits(d)
  PROVE  StreamInv(c)'
  <1>1. CASE d = c
    <2>1. CASE ClientLeaves(c) \/ WaitForExit(c) \/ TimeOut(c) \/ ProcessExits(c)
      BY <2>1, OwnQuietSteps
    <2>2. CASE Start(c) \/ WriteFinal(c)
      BY <2>2, StartStep, WriteFinalStep
    <2>3. CASE KillProcessTree(c) \/ Complete(c)
      BY <2>3, KillStep, CompleteStep
    <2> QED
      BY <1>1, <2>1, <2>2, <2>3 DEF Produce
  <1>2. CASE d # c
    <2>1. "stdout" \in Pumps
      BY DEF Pumps
    <2>2. Still(c)
      BY <1>2, <2>1, OtherShell
    <2> QED
      BY <2>2, StillStream
  <1> QED
    BY <1>1, <1>2

LEMMA PumpKeeps ==
  ASSUME TypeOK, TypeOK', NEW c \in Shell, NEW d \in Shell, NEW p \in Pumps, StreamInv(c),
         Pump(d, p) \/ EndOfFile(d, p)
  PROVE  StreamInv(c)'
  <1>1. CASE d = c
    <2>1. CASE ReadLine(c, p) \/ Check(c, p)
      BY <2>1, ReadLineStep, CheckStep
    <2>2. CASE Write(c, p) \/ Stop(c, p)
      BY <2>2, WriteStep, StopStep
    <2>3. CASE EndOfFile(c, p)
      BY <2>3, EndOfFileStep
    <2> QED
      BY <1>1, <2>1, <2>2, <2>3 DEF Pump
  <1>2. CASE d # c
    BY <1>2, OtherShell, StillStream
  <1> QED
    BY <1>1, <1>2

LEMMA StreamsStep == TypeOK /\ TypeOK' /\ Streams /\ [Next]_vars => Streams'
  <1> SUFFICES ASSUME TypeOK, TypeOK', Streams, [Next]_vars, NEW c \in Shell
               PROVE  StreamInv(c)'
    BY DEF Streams
  <1>1. StreamInv(c)
    BY DEF Streams
  <1>2. ASSUME NEW d \in Calls, Register(d) \/ Handle(d) PROVE StreamInv(c)'
    BY <1>1, <1>2, HandlerKeeps
  <1>3. ASSUME NEW k \in Requests, LookUp(k) \/ Cancel(k) PROVE StreamInv(c)'
    BY <1>1, <1>3, OtherRequest, StillStream
  <1>4. ASSUME NEW d \in Shell, ClientLeaves(d) \/ Produce(d) \/ TimeOut(d) \/ ProcessExits(d)
        PROVE  StreamInv(c)'
    BY <1>1, <1>4, ProducerKeeps
  <1>5. ASSUME NEW d \in Shell, NEW p \in Pumps, Pump(d, p) \/ EndOfFile(d, p)
        PROVE  StreamInv(c)'
    BY <1>1, <1>5, PumpKeeps
  <1>6. CASE UNCHANGED vars
    BY <1>1, <1>6, Stutter, StillStream
  <1> QED
    BY <1>2, <1>3, <1>4, <1>5, <1>6 DEF Next

LEMMA StreamsImply == Streams => FinalTellsTruth /\ StreamIsWhole
  BY DEF Streams, StreamInv, ToldTruth, CloseInv, FinalTellsTruth, StreamIsWhole

(* Types and streams together hold in every reachable state. *)
LEMMA StreamsHold == Spec => [](TypeOK /\ Streams)
  <1>1. Init => TypeOK /\ Streams
    BY TypeInit, StreamsInit
  <1>2. TypeOK /\ Streams /\ [Next]_vars => (TypeOK /\ Streams)'
    BY TypeStep, StreamsStep
  <1> QED
    BY <1>1, <1>2, PTL DEF Spec

(* What a client is told of truncation is so, however the two pumps, the producer and
   the handler of a call interleave: the limiter counts a line before its event is
   written, and the final result waits for both pumps (ShellStreamEventLimiter,
   PumpLinesAsync, WriteFinalAsync).                                                   *)
THEOREM FinalIsTrue == Spec => []FinalTellsTruth
  BY StreamsHold, StreamsImply, PTL

(* A stream that ends without an error has had one terminal event, and unless time ran
   out every event that drew a number, the terminal one last
   (RunShellCommandStreamAsync, ExecuteCommandStream).                                 *)
THEOREM EndedIsWhole == Spec => []StreamIsWhole
  BY StreamsHold, StreamsImply, PTL
===============================================================================
