----------------------------- MODULE Inbox_proofs -----------------------------
(***************************************************************************)
(* Theorems about the inbox, for every set of messages and of processes    *)
(* and every bound: what a banner shows was recorded, and what was         *)
(* recorded is lost to no interleaving that the conditions of              *)
(* RecordedStays leave in.  They rest on the invariants HeldIsRecorded,    *)
(* OneSaver and SnapCovers of this module.  A banner is shown once and     *)
(* what was cleared stays so, but for ids that a ring has forgotten while  *)
(* their message could still be pulled (dropped): KnownInv and BannerInv.  *)
(* Gone has those and the ids of which no message comes any more.          *)
(***************************************************************************)
EXTENDS InboxIds_proofs

(* The variables a step of one process changes are functions on the processes. *)
ByProcess ==
  /\ pc = [p \in Processes |-> pc[p]]
  /\ accepted = [p \in Processes |-> accepted[p]]
  /\ banners \in [Messages -> Nat]

(* What a process holds behind its first transaction is in the file, was there or
   was cut from it.                                                               *)
HeldIsRecorded ==
  \A p \in Processes :
    pc[p] \in {"saveIds", "labels", "banner"} => accepted[p] \subseteq recorded \cup trimmed

ShownInv == ByProcess /\ HeldIsRecorded /\ ShownIsRecorded
------------------------------------------------------------------------------
(***************************************************************************)
(* Shown is recorded.                                                      *)
(***************************************************************************)
LEMMA ShownInit == Init => ShownInv
BY DEF Init, ShownInv, ByProcess, HeldIsRecorded, ShownIsRecorded

(* A step that takes a process to a label before its first transaction. *)
LEMMA ShownAtLabel ==
  ASSUME ShownInv, NEW p \in Processes,
         NEW l, l \notin {"saveIds", "labels", "banner"},
         pc' = [pc EXCEPT ![p] = l],
         NEW held, accepted' = accepted \/ accepted' = [accepted EXCEPT ![p] = held],
         UNCHANGED <<recorded, trimmed, banners>>
  PROVE  ShownInv'
BY DEF ShownInv, ByProcess, HeldIsRecorded, ShownIsRecorded

LEMMA ShownFrame ==
  ShownInv /\ UNCHANGED <<pc, accepted, recorded, trimmed, banners>> => ShownInv'
BY DEF ShownInv, ByProcess, HeldIsRecorded, ShownIsRecorded

LEMMA ShownSaveMessages ==
  ASSUME ShownInv, NEW p \in Processes, SaveMessages(p)
  PROVE  ShownInv'
<1>1. PICK kept \in Trims(Merge(p)) :
        /\ recorded' = recorded \cup kept
        /\ trimmed' = trimmed \cup (Merge(p) \ kept)
  BY DEF SaveMessages
<1>2. accepted[p] \subseteq recorded' \cup trimmed'
  BY <1>1 DEF Merge
<1>3. recorded \cup trimmed \subseteq recorded' \cup trimmed'
  BY <1>1
<1>4. /\ pc' = [pc EXCEPT ![p] = "saveIds"]
      /\ UNCHANGED <<accepted, banners>>
  BY DEF SaveMessages, Goto, history, process
<1> QED BY <1>2, <1>3, <1>4 DEF ShownInv, ByProcess, HeldIsRecorded, ShownIsRecorded

LEMMA ShownSave ==
  ASSUME ShownInv, NEW p \in Processes, Save(p)
  PROVE  ShownInv'
<1>1. CASE SaveMessages(p)
  BY <1>1, ShownSaveMessages
<1>2. CASE SaveSeenMessageIds(p)
  BY <1>2 DEF SaveSeenMessageIds, Goto, history, ShownInv, ByProcess, HeldIsRecorded,
              ShownIsRecorded
<1>3. CASE SaveKnownLabels(p)
  <2>1. UNCHANGED <<recorded, trimmed, banners>>
    BY <1>3 DEF SaveKnownLabels, history
  <2>2. CASE Goto(p, "banner") /\ UNCHANGED accepted
    BY <1>3, <2>1, <2>2 DEF SaveKnownLabels, Goto, ShownInv, ByProcess, HeldIsRecorded,
                            ShownIsRecorded
  <2>3. CASE Rest(p, "idle")
    BY <2>1, <2>3, ShownAtLabel DEF Rest, Goto
  <2> QED BY <1>3, <2>2, <2>3 DEF SaveKnownLabels
<1> QED BY <1>1, <1>2, <1>3 DEF Save

LEMMA ShownShow ==
  ASSUME ShownInv, NEW p \in Processes, Show(p)
  PROVE  ShownInv'
<1>1. PICK m \in accepted[p] :
        /\ banners' = [banners EXCEPT ![m] = @ + 1]
        /\ IF accepted[p] = {m}
           THEN Rest(p, "idle")
           ELSE /\ accepted' = [accepted EXCEPT ![p] = @ \ {m}]
                /\ UNCHANGED <<pc, snap, ring>>
  BY DEF Show
<1>2. pc[p] = "banner" /\ UNCHANGED <<recorded, trimmed>>
  BY DEF Show
<1>3. m \in recorded \cup trimmed
  BY <1>2 DEF ShownInv, HeldIsRecorded
<1>4. banners' \in [Messages -> Nat] /\ ShownIsRecorded'
  <2>1. banners \in [Messages -> Nat] /\ ShownIsRecorded
    BY DEF ShownInv, ByProcess
  <2>2. banners' \in [Messages -> Nat]
    <3>1. m \in Messages => banners[m] + 1 \in Nat
      BY <2>1
    <3>2. banners' = [banners EXCEPT ![m] = banners[m] + 1]
      BY <1>1
    <3> QED BY <2>1, <3>1, <3>2
  <2>3. \A n \in Messages : n # m => banners'[n] = banners[n]
    BY <1>1, <2>1
  <2> QED BY <1>2, <1>3, <2>1, <2>2, <2>3 DEF ShownIsRecorded
<1>5. CASE accepted[p] = {m}
  BY <1>1, <1>2, <1>4, <1>5 DEF Rest, Goto, ShownInv, ByProcess, HeldIsRecorded
<1>6. CASE accepted[p] # {m}
  BY <1>1, <1>2, <1>4, <1>6 DEF ShownInv, ByProcess, HeldIsRecorded
<1> QED BY <1>5, <1>6

LEMMA ShownNext == ShownInv /\ [Next]_vars => ShownInv'
<1> SUFFICES ASSUME ShownInv, [Next]_vars PROVE ShownInv'
  OBVIOUS
<1>1. CASE Tick \/ ClearMessages \/ SaveFilter \/ UNCHANGED vars
  BY <1>1, ShownFrame DEF Tick, ClearMessages, SaveFilter, vars, process, history
<1>2. ASSUME NEW m \in Messages, Stamp(m) \/ Push(m)
      PROVE  ShownInv'
  BY <1>2, ShownFrame DEF Stamp, Push, process, history
<1>3. ASSUME NEW p \in Workers, Load(p)
      PROVE  ShownInv'
  BY <1>3, ShownAtLabel DEF Load, Goto, Processes
<1>4. ASSUME NEW p \in Workers, Pull(p)
      PROVE  ShownInv'
  <2> DEFINE new == Accepted(ring[p], Answer(Since(p)))
  <2>1. UNCHANGED <<recorded, trimmed, banners>> /\ p \in Processes
    BY <1>4 DEF Pull, Processes
  <2>2. CASE new = {}
    BY <1>4, <2>1, <2>2, ShownAtLabel DEF Pull, Take, Rest, Goto
  <2>3. CASE new # {}
    BY <1>4, <2>1, <2>3, ShownAtLabel DEF Pull, Take, Goto
  <2> QED BY <2>2, <2>3
<1>5. ASSUME NEW p \in Workers, NEW i \in Injects, Inject(p, i)
      PROVE  ShownInv'
  <2>1. UNCHANGED <<recorded, trimmed, banners>> /\ p \in Processes
    BY <1>5 DEF Inject, Processes
  <2>2. PICK r \in Readable : Take(p, r.messages, Seeded(r), <<i>>)
    BY <1>5 DEF Inject
  <2>3. CASE Accepted(Seeded(r), <<i>>) = {}
    BY <2>1, <2>2, <2>3, ShownAtLabel DEF Take, Rest, Goto
  <2>4. CASE Accepted(Seeded(r), <<i>>) # {}
    BY <2>1, <2>2, <2>4, ShownAtLabel DEF Take, Goto
  <2> QED BY <2>3, <2>4
<1>6. ASSUME NEW p \in Receivers, Construct(p) \/ ReceiverPull(p)
      PROVE  ShownInv'
  BY <1>6, ShownAtLabel DEF Construct, ReceiverPull, Goto, Processes, history
<1>7. ASSUME NEW p \in Receivers, ReceiverLoad(p)
      PROVE  ShownInv'
  <2>1. UNCHANGED <<recorded, trimmed, banners>> /\ p \in Processes
    BY <1>7 DEF ReceiverLoad, Processes
  <2>2. PICK r \in Readable : Take(p, r.messages, Seeded(r), got[p])
    BY <1>7 DEF ReceiverLoad
  <2>3. CASE Accepted(Seeded(r), got[p]) = {}
    BY <2>1, <2>2, <2>3, ShownAtLabel DEF Take, Rest, Goto
  <2>4. CASE Accepted(Seeded(r), got[p]) # {}
    BY <2>1, <2>2, <2>4, ShownAtLabel DEF Take, Goto
  <2> QED BY <2>3, <2>4
<1>8. ASSUME NEW p \in Processes, Save(p)
      PROVE  ShownInv'
  BY <1>8, ShownSave
<1>9. ASSUME NEW p \in Workers, Show(p)
      PROVE  ShownInv'
  BY <1>9, ShownShow DEF Processes
<1>10. ASSUME NEW p \in Processes, Stop(p)
       PROVE  ShownInv'
  BY <1>10, ShownAtLabel DEF Stop, Rest, Goto, history
<1> QED
  BY <1>1, <1>2, <1>3, <1>4, <1>5, <1>6, <1>7, <1>8, <1>9, <1>10
  DEF Next, Cycle, Processes

(* No banner is shown of a message that was not saved before. *)
THEOREM ShownIsRecordedHolds == Spec => []ShownIsRecorded
<1>1. ShownInv => ShownIsRecorded
  BY DEF ShownInv
<1> QED BY <1>1, ShownInit, ShownNext, PTL DEF Spec
------------------------------------------------------------------------------
(***************************************************************************)
(* Recorded stays recorded.                                                *)
(***************************************************************************)
Fields ==
  /\ failures \in Nat
  /\ overlap \in BOOLEAN
  /\ file = [messages |-> file.messages, seen |-> file.seen]
  /\ pc = [p \in Processes |-> pc[p]]
  /\ snap = [p \in Processes |-> snap[p]]

Undisturbed == failures = 0 /\ ~overlap

(* One process at a time is between its load and its save. *)
OneSaver ==
  Undisturbed => \A p, q \in Processes : Saving(p) /\ Saving(q) => p = q

(* Its snapshot is not behind the file. *)
SnapCovers ==
  Undisturbed =>
    \A p \in Processes : pc[p] \in {"pull", "save"} => file.messages \subseteq snap[p]

StaysInv == Fields /\ OneSaver /\ SnapCovers /\ RecordedStays

LEMMA StaysInit == Init => StaysInv
<1> SUFFICES ASSUME Init PROVE StaysInv
  OBVIOUS
<1>1. file = [messages |-> file.messages, seen |-> file.seen]
  BY DEF Init, Empty
<1>2. Fields
  BY <1>1 DEF Init, Fields
<1>3. OneSaver /\ SnapCovers
  BY DEF Init, OneSaver, SnapCovers, Saving
<1>4. RecordedStays
  BY DEF Init, RecordedStays
<1> QED BY <1>2, <1>3, <1>4 DEF StaysInv

(* What a transaction reads is the file, or the run is no longer undisturbed. *)
LEMMA ReadIsFile ==
  ASSUME NEW r, Read(r), Fields
  PROVE  /\ failures' \in Nat
         /\ failures' = 0 => failures = 0 /\ r = file
         /\ r = [messages |-> r.messages, seen |-> r.seen]
BY DEF Read, Fields, Empty

(* A step that leaves the file and the messages of the history alone and takes no
   process to a label at which it saves.                                          *)
LEMMA StaysFrame ==
  ASSUME StaysInv, Fields', failures' = 0 => failures = 0, UNCHANGED overlap,
         Undisturbed' => file'.messages = file.messages,
         UNCHANGED <<recorded, trimmed, cleared>>,
         \A q \in Processes :
           /\ pc'[q] \in {"pull", "save"} => pc[q] \in {"pull", "save"} /\ snap'[q] = snap[q]
           /\ Saving(q)' => Saving(q)
  PROVE  StaysInv'
<1>1. Undisturbed' => Undisturbed
  BY DEF Undisturbed
<1>2. OneSaver'
  BY <1>1 DEF StaysInv, OneSaver
<1>3. SnapCovers'
  BY <1>1 DEF StaysInv, SnapCovers
<1>4. RecordedStays'
  BY <1>1 DEF StaysInv, RecordedStays, Undisturbed
<1> QED BY <1>2, <1>3, <1>4 DEF StaysInv

(* A process loads a snapshot: it is the file, and no other process has one. *)
LEMMA StaysLoad ==
  ASSUME StaysInv, NEW p \in Processes, NEW r, Read(r), NoteOverlap(p),
         UNCHANGED <<file, recorded, trimmed, cleared>>,
         \/ /\ pc' = [pc EXCEPT ![p] = "pull"] \/ pc' = [pc EXCEPT ![p] = "save"]
            /\ snap' = [snap EXCEPT ![p] = r.messages]
         \/ pc' = [pc EXCEPT ![p] = "idle"] /\ snap' = [snap EXCEPT ![p] = {}]
  PROVE  StaysInv'
<1>1. Fields /\ Fields'
  BY ReadIsFile DEF StaysInv, Fields, NoteOverlap
<1>2. Undisturbed' => /\ Undisturbed
                      /\ r = file
                      /\ \A q \in Processes \ {p} : ~Saving(q)
  BY <1>1, ReadIsFile DEF Undisturbed, NoteOverlap
<1>3. \A q \in Processes \ {p} : pc'[q] = pc[q] /\ snap'[q] = snap[q]
  BY <1>1 DEF Fields
<1>4. pc'[p] = "idle" \/ snap'[p] = r.messages
  BY <1>1 DEF Fields
<1>5. OneSaver'
  BY <1>2, <1>3 DEF OneSaver, Saving
<1>6. SnapCovers'
  BY <1>2, <1>3, <1>4 DEF SnapCovers, Saving
<1>7. RecordedStays'
  BY <1>2 DEF StaysInv, RecordedStays, Undisturbed
<1> QED BY <1>1, <1>5, <1>6, <1>7 DEF StaysInv

(* What is saved is the snapshot, and the snapshot covers the file. *)
LEMMA StaysSaveMessages ==
  ASSUME StaysInv, NEW p \in Processes, SaveMessages(p)
  PROVE  StaysInv'
<1>1. PICK r \in Readable, kept \in Trims(Merge(p)) :
        /\ Read(r)
        /\ file' = [messages |-> kept, seen |-> RememberAll(r.seen, InOrder(kept))]
        /\ recorded' = recorded \cup kept
        /\ trimmed' = trimmed \cup (Merge(p) \ kept)
  BY DEF SaveMessages
<1>2. /\ pc[p] = "save"
      /\ pc' = [pc EXCEPT ![p] = "saveIds"]
      /\ UNCHANGED <<snap, overlap, cleared>>
  BY DEF SaveMessages, Goto
<1>3. Fields /\ Fields'
  BY <1>1, <1>2, ReadIsFile DEF StaysInv, Fields
<1>4. Undisturbed' => Undisturbed
  BY <1>1, <1>2, <1>3, ReadIsFile DEF Undisturbed
<1>5. pc'[p] = "saveIds" /\ \A q \in Processes \ {p} : pc'[q] = pc[q]
  BY <1>2, <1>3 DEF Fields
<1>6. OneSaver'
  BY <1>2, <1>4, <1>5 DEF StaysInv, OneSaver, Saving
<1>7. Undisturbed' => \A q \in Processes : pc'[q] \notin {"pull", "save"}
  BY <1>2, <1>4, <1>5 DEF StaysInv, OneSaver, Saving
<1>8. SnapCovers'
  BY <1>7 DEF SnapCovers
<1>9. RecordedStays'
  <2> SUFFICES ASSUME Undisturbed', NEW m \in recorded'
               PROVE  \E n \in file'.messages \cup cleared' \cup trimmed' :
                        StableId(n) = StableId(m)
    BY DEF RecordedStays, Undisturbed
  <2>1. file.messages \subseteq snap[p]
    BY <1>2, <1>4 DEF StaysInv, SnapCovers
  <2>2. Merge(p) \subseteq file'.messages \cup trimmed' /\ trimmed \subseteq trimmed'
    BY <1>1
  <2>3. \A n \in snap[p] : \E k \in Merge(p) : StableId(k) = StableId(n)
    BY DEF Merge
  <2>4. CASE m \in file'.messages
    BY <2>4
  <2>5. CASE m \notin file'.messages
    <3>1. m \in recorded
      BY <1>1, <2>5
    <3>2. PICK n \in file.messages \cup cleared \cup trimmed : StableId(n) = StableId(m)
      BY <1>4, <3>1 DEF StaysInv, RecordedStays, Undisturbed
    <3>3. CASE n \in cleared \cup trimmed
      BY <1>2, <2>2, <3>2, <3>3
    <3>4. CASE n \in file.messages
      BY <2>1, <2>2, <2>3, <3>2, <3>4
    <3> QED BY <3>3, <3>4
  <2> QED BY <2>4, <2>5
<1> QED BY <1>3, <1>6, <1>8, <1>9 DEF StaysInv

LEMMA OtherField ==
  ASSUME NEW r, r = [messages |-> r.messages, seen |-> r.seen], NEW x
  PROVE  /\ [r EXCEPT !.seen = x] = [messages |-> r.messages, seen |-> x]
         /\ [r EXCEPT !.messages = x] = [messages |-> x, seen |-> r.seen]
OBVIOUS

(* The other transactions of a process write the messages they have read. *)
LEMMA StaysSave ==
  ASSUME StaysInv, NEW p \in Processes, Save(p)
  PROVE  StaysInv'
<1> USE DEF StaysInv
<1>1. CASE SaveMessages(p)
  BY <1>1, StaysSaveMessages
<1>2. CASE SaveSeenMessageIds(p)
  <2>1. PICK r \in Readable : Read(r) /\ file' = [r EXCEPT !.seen = ring[p]]
    BY <1>2 DEF SaveSeenMessageIds
  <2>2. /\ pc' = [pc EXCEPT ![p] = "labels"]
        /\ UNCHANGED <<snap, overlap, recorded, trimmed, cleared>>
    BY <1>2 DEF SaveSeenMessageIds, Goto, history
  <2>3. file' = [messages |-> r.messages, seen |-> ring[p]]
    BY <2>1, ReadIsFile, OtherField
  <2>4. Fields'
    BY <2>1, <2>2, <2>3, ReadIsFile DEF Fields
  <2>5. failures' = 0 => failures = 0 /\ file'.messages = file.messages
    BY <2>1, <2>3, ReadIsFile
  <2> QED BY <2>2, <2>4, <2>5, StaysFrame DEF Fields, Saving, Undisturbed
<1>3. CASE SaveKnownLabels(p)
  <2>1. PICK r \in Readable : Read(r) /\ file' = r
    BY <1>3 DEF SaveKnownLabels
  <2>2. UNCHANGED <<overlap, recorded, trimmed, cleared>>
    BY <1>3 DEF SaveKnownLabels, history
  <2>3. /\ pc' = [pc EXCEPT ![p] = "banner"] \/ pc' = [pc EXCEPT ![p] = "idle"]
        /\ snap' = snap \/ snap' = [snap EXCEPT ![p] = {}]
    BY <1>3 DEF SaveKnownLabels, Goto, Rest
  <2>4. Fields'
    BY <2>1, <2>2, <2>3, ReadIsFile DEF Fields
  <2>5. failures' = 0 => failures = 0 /\ file'.messages = file.messages
    BY <2>1, ReadIsFile
  <2> QED BY <2>2, <2>3, <2>4, <2>5, StaysFrame DEF Fields, Saving, Undisturbed
<1> QED BY <1>1, <1>2, <1>3 DEF Save

(* What the user clears is counted as cleared. *)
LEMMA StaysClear == StaysInv /\ ClearMessages => StaysInv'
<1> SUFFICES ASSUME StaysInv, ClearMessages PROVE StaysInv'
  OBVIOUS
<1> USE DEF StaysInv
<1>1. PICK r \in Readable : Read(r) /\ file' = [r EXCEPT !.messages = {}]
  BY DEF ClearMessages
<1>2. /\ cleared' = cleared \cup file.messages
      /\ UNCHANGED <<pc, snap, overlap, recorded, trimmed>>
  BY DEF ClearMessages, process
<1>3. file' = [messages |-> {}, seen |-> r.seen]
  BY <1>1, ReadIsFile, OtherField
<1>4. Fields'
  BY <1>1, <1>2, <1>3, ReadIsFile DEF Fields
<1>5. Undisturbed' => Undisturbed
  BY <1>1, <1>2, ReadIsFile DEF Undisturbed
<1>6. OneSaver'
  BY <1>2, <1>5 DEF OneSaver, Saving
<1>7. SnapCovers'
  BY <1>3 DEF SnapCovers
<1>8. RecordedStays'
  BY <1>2, <1>5 DEF RecordedStays, Undisturbed
<1> QED BY <1>4, <1>6, <1>7, <1>8

LEMMA StaysNext == StaysInv /\ [Next]_vars => StaysInv'
<1> SUFFICES ASSUME StaysInv, [Next]_vars PROVE StaysInv'
  OBVIOUS
<1> USE DEF StaysInv
<1>1. CASE Tick \/ UNCHANGED vars
  BY <1>1, StaysFrame DEF Tick, vars, process, bounds, history, Fields, Saving
<1>2. ASSUME NEW m \in Messages, Stamp(m) \/ Push(m)
      PROVE  StaysInv'
  BY <1>2, StaysFrame DEF Stamp, Push, process, bounds, history, Fields, Saving
<1>3. ASSUME NEW p \in Workers, Load(p)
      PROVE  StaysInv'
  <2>1. PICK r \in Readable : Read(r) /\ snap' = [snap EXCEPT ![p] = r.messages]
    BY <1>3 DEF Load
  <2> QED BY <1>3, <2>1, StaysLoad DEF Load, Goto, Processes
<1>4. ASSUME NEW p \in Workers, Pull(p)
      PROVE  StaysInv'
  <2> DEFINE new == Accepted(ring[p], Answer(Since(p)))
  <2>1. /\ p \in Processes
        /\ pc[p] = "pull"
        /\ UNCHANGED <<file, failures, overlap, recorded, trimmed, cleared>>
    BY <1>4 DEF Pull, Processes, bounds
  <2>2. CASE new = {}
    <3>1. pc' = [pc EXCEPT ![p] = "idle"] /\ snap' = [snap EXCEPT ![p] = {}]
      BY <1>4, <2>2 DEF Pull, Take, Rest, Goto
    <3>2. Fields'
      BY <2>1, <3>1 DEF Fields
    <3> QED BY <2>1, <3>1, <3>2, StaysFrame DEF Fields, Saving
  <2>3. CASE new # {}
    <3>1. pc' = [pc EXCEPT ![p] = "save"] /\ snap' = [snap EXCEPT ![p] = snap[p]]
      BY <1>4, <2>3 DEF Pull, Take, Goto
    <3>2. Fields'
      BY <2>1, <3>1 DEF Fields
    <3> QED BY <2>1, <3>1, <3>2, StaysFrame DEF Fields, Saving
  <2> QED BY <2>2, <2>3
<1>5. ASSUME NEW p \in Workers, NEW i \in Injects, Inject(p, i)
      PROVE  StaysInv'
  <2>1. /\ p \in Processes
        /\ NoteOverlap(p)
        /\ UNCHANGED <<file, recorded, trimmed, cleared>>
    BY <1>5 DEF Inject, Processes
  <2>2. PICK r \in Readable : Read(r) /\ Take(p, r.messages, Seeded(r), <<i>>)
    BY <1>5 DEF Inject
  <2>3. CASE Accepted(Seeded(r), <<i>>) = {}
    <3>1. pc' = [pc EXCEPT ![p] = "idle"] /\ snap' = [snap EXCEPT ![p] = {}]
      BY <2>2, <2>3 DEF Take, Rest, Goto
    <3> QED BY <2>1, <2>2, <3>1, StaysLoad
  <2>4. CASE Accepted(Seeded(r), <<i>>) # {}
    BY <2>1, <2>2, <2>4, StaysLoad DEF Take, Goto
  <2> QED BY <2>3, <2>4
<1>6. ASSUME NEW p \in Receivers, Construct(p)
      PROVE  StaysInv'
  <2>1. PICK r \in Readable : Read(r)
    BY <1>6 DEF Construct
  <2>2. /\ p \in Processes
        /\ pc' = [pc EXCEPT ![p] = "idle"]
        /\ UNCHANGED <<file, snap, overlap, recorded, trimmed, cleared>>
    BY <1>6 DEF Construct, Goto, Processes, history
  <2>3. Fields'
    BY <2>1, <2>2, ReadIsFile DEF Fields
  <2> QED BY <2>1, <2>2, <2>3, ReadIsFile, StaysFrame DEF Fields, Saving
<1>7. ASSUME NEW p \in Receivers, ReceiverPull(p)
      PROVE  StaysInv'
  <2>1. /\ p \in Processes
        /\ pc' = [pc EXCEPT ![p] = "load"]
        /\ UNCHANGED <<file, failures, snap, overlap, recorded, trimmed, cleared>>
    BY <1>7 DEF ReceiverPull, Goto, Processes, bounds
  <2>2. Fields'
    BY <2>1 DEF Fields
  <2> QED BY <2>1, <2>2, StaysFrame DEF Fields, Saving
<1>8. ASSUME NEW p \in Receivers, ReceiverLoad(p)
      PROVE  StaysInv'
  <2>1. /\ p \in Processes
        /\ NoteOverlap(p)
        /\ UNCHANGED <<file, recorded, trimmed, cleared>>
    BY <1>8 DEF ReceiverLoad, Processes
  <2>2. PICK r \in Readable : Read(r) /\ Take(p, r.messages, Seeded(r), got[p])
    BY <1>8 DEF ReceiverLoad
  <2>3. CASE Accepted(Seeded(r), got[p]) = {}
    <3>1. pc' = [pc EXCEPT ![p] = "idle"] /\ snap' = [snap EXCEPT ![p] = {}]
      BY <2>2, <2>3 DEF Take, Rest, Goto
    <3> QED BY <2>1, <2>2, <3>1, StaysLoad
  <2>4. CASE Accepted(Seeded(r), got[p]) # {}
    BY <2>1, <2>2, <2>4, StaysLoad DEF Take, Goto
  <2> QED BY <2>3, <2>4
<1>9. ASSUME NEW p \in Processes, Save(p)
      PROVE  StaysInv'
  BY <1>9, StaysSave
<1>10. ASSUME NEW p \in Workers, Show(p)
       PROVE  StaysInv'
  <2>1. /\ p \in Processes
        /\ UNCHANGED <<file, failures, overlap, recorded, trimmed, cleared>>
    BY <1>10 DEF Show, Processes, bounds
  <2>2. \/ UNCHANGED <<pc, snap>>
        \/ pc' = [pc EXCEPT ![p] = "idle"] /\ snap' = [snap EXCEPT ![p] = {}]
    BY <1>10 DEF Show, Rest, Goto
  <2>3. Fields'
    BY <2>1, <2>2 DEF Fields
  <2> QED BY <2>1, <2>2, <2>3, StaysFrame DEF Fields, Saving
<1>11. ASSUME NEW p \in Processes, Stop(p)
       PROVE  StaysInv'
  <2>1. /\ UNCHANGED <<file, failures, overlap, recorded, trimmed, cleared>>
        /\ snap' = [snap EXCEPT ![p] = {}]
        /\ pc' = [pc EXCEPT ![p] = "idle"] \/ pc' = [pc EXCEPT ![p] = "new"]
    BY <1>11 DEF Stop, Rest, Goto, history
  <2>2. Fields'
    BY <2>1 DEF Fields
  <2> QED BY <2>1, <2>2, StaysFrame DEF Fields, Saving
<1>12. CASE ClearMessages
  BY <1>12, StaysClear
<1>13. CASE SaveFilter
  <2>1. PICK r \in Readable : Read(r) /\ file' = r
    BY <1>13 DEF SaveFilter
  <2>2. UNCHANGED <<pc, snap, overlap, recorded, trimmed, cleared>>
    BY <1>13 DEF SaveFilter, process, history
  <2>3. Fields'
    BY <2>1, <2>2, ReadIsFile DEF Fields
  <2> QED BY <2>1, <2>2, <2>3, ReadIsFile, StaysFrame DEF Fields, Saving, Undisturbed
<1> QED
  BY <1>1, <1>2, <1>3, <1>4, <1>5, <1>6, <1>7, <1>8, <1>9, <1>10, <1>11, <1>12, <1>13
  DEF Next, Cycle, Processes

(* What was recorded stays recorded, until it is cleared or trimmed, as long as every
   read succeeds and no two processes are at work on the history.                    *)
THEOREM RecordedStaysHolds == Spec => []RecordedStays
<1>1. StaysInv => RecordedStays
  BY DEF StaysInv
<1> QED BY <1>1, StaysInit, StaysNext, PTL DEF Spec
------------------------------------------------------------------------------
(***************************************************************************)
(* What may still come, and what a ring has forgotten of it.               *)
(***************************************************************************)
(* The ids of a set of messages. *)
IdsIn(S) == UNION {IdsOf(m) : m \in S}

Seen == ToSet(file.seen)

(* What is on the server within the reach of a pull. *)
Reach == {list[i] : i \in {j \in DOMAIN list : InReach(j)}}

LEMMA AnswerInReach ==
  ASSUME TypeInv, NEW since \in Int
  PROVE  ToSet(Answer(since)) \subseteq Reach
<1>1. list \in Seq(Messages) /\ DOMAIN list = 1 .. Len(list) /\ Len(list) \in Nat
  BY DEF TypeInv, TypeOK, ServerOK
<1>2. \A i \in DOMAIN list : stamp[list[i]] \in Int
  BY <1>1 DEF TypeInv, TypeOK, ServerOK, Records
<1>3. ASSUME NEW i \in Sent(since) PROVE i \in DOMAIN list /\ InReach(i)
  <2> DEFINE A == {j \in Pullable(since) : j < i}
             B == {j \in Pullable(stamp[list[i]] - 1) : j < i}
  <2>1. i \in DOMAIN list /\ stamp[list[i]] > since /\ Cardinality(A) < Limit
    BY <1>3 DEF Sent, Pullable
  <2>2. A \subseteq 1 .. Len(list)
    BY <1>1 DEF Pullable
  <2>3. B \subseteq A
    BY <1>2, <2>1 DEF Pullable
  <2> HIDE DEF A, B
  <2>4. IsFiniteSet(A)
    <3>1. IsFiniteSet(1 .. Len(list))
      BY <1>1, FS_Interval
    <3> QED BY <2>2, <3>1, FS_Subset
  <2>5. Cardinality(B) <= Cardinality(A) /\ Cardinality(A) \in Int /\ Cardinality(B) \in Int
    BY <2>3, <2>4, FS_Subset, FS_CardinalityType
  <2>6. Cardinality(B) < Limit
    BY <2>1, <2>5, BoundsAssumption
  <2> QED BY <2>1, <2>6 DEF InReach, B
<1>4. ToSet(Answer(since)) = {list[i] : i \in Sent(since)}
  BY AnswerOK DEF TypeInv, TypeOK
<1> QED BY <1>3, <1>4 DEF Reach

LEMMA ReachMayCome == Reach \subseteq MayCome
BY DEF Reach, MayCome

(* The list as it was, and the stamps of what is on it. *)
LEMMA ReachSame ==
  ASSUME UNCHANGED list, \A m \in Pushed : stamp'[m] = stamp[m]
  PROVE  Reach' = Reach
<1>1. \A i \in DOMAIN list : stamp'[list[i]] = stamp[list[i]]
  BY DEF Pushed, ToSet
<1>2. \A i \in DOMAIN list : InReach(i)' <=> InReach(i)
  <2> TAKE i \in DOMAIN list
  <2>1. {j \in DOMAIN list : stamp'[list[j]] > stamp'[list[i]] - 1}
          = {j \in DOMAIN list : stamp[list[j]] > stamp[list[i]] - 1}
    BY <1>1
  <2> QED BY <2>1 DEF InReach, Pullable
<1> QED BY <1>2 DEF Reach

(* A push moves the others further from the reach of a pull. *)
LEMMA ReachPush ==
  ASSUME TypeInv, NEW m \in Messages, Push(m)
  PROVE  Reach' \subseteq Reach \cup {m}
<1>1. list' = <<m>> \o list /\ stamp' = stamp
  BY DEF Push
<1>2. list \in Seq(Messages) /\ Len(list) \in Nat /\ DOMAIN list = 1 .. Len(list)
  BY DEF TypeInv, TypeOK, ServerOK
<1>3. /\ DOMAIN list' = 1 .. Len(list) + 1
      /\ list'[1] = m
      /\ \A i \in 1 .. Len(list) : list'[i + 1] = list[i]
  BY <1>1, <1>2
<1>4. ASSUME NEW i \in DOMAIN list', InReach(i)', i # 1
      PROVE  list'[i] \in Reach
  <2>1. i - 1 \in 1 .. Len(list) /\ (i - 1) + 1 = i
    BY <1>2, <1>3, <1>4
  <2>2. PICK k : k = i - 1
    OBVIOUS
  <2>3. k \in DOMAIN list /\ list'[i] = list[k] /\ k + 1 = i
    BY <1>2, <1>3, <2>1, <2>2
  <2>4. PICK s : s = stamp[list[k]] - 1
    OBVIOUS
  <2> DEFINE A == {j \in Pullable(s) : j < k}
             B == {j \in (DOMAIN list') : stamp[list'[j]] > s /\ j < i}
             f == [j \in A |-> j + 1]
  <2>5. Cardinality(B) < Limit
    <3>1. B = {j \in {l \in DOMAIN list' : stamp'[list'[l]] > stamp'[list'[i]] - 1} : j < i}
      BY <1>1, <2>3, <2>4
    <3> HIDE DEF B
    <3> QED BY <1>4, <3>1 DEF InReach, Pullable
  <2>6. A \subseteq 1 .. Len(list) /\ B \subseteq 1 .. Len(list) + 1
    BY <1>2, <1>3 DEF Pullable
  <2>7. \A j \in A : j + 1 \in B
    BY <1>2, <1>3, <2>3 DEF Pullable
  <2> HIDE DEF A, B
  <2>8. f \in [A -> B]
    BY <2>7
  <2>9. \A a, b \in A : f[a] = f[b] => a = b
    BY <2>6
  <2>10. f \in Injection(A, B)
    BY <2>8, <2>9 DEF Injection, IsInjective
  <2>11. IsFiniteSet(B)
    <3>1. Len(list) + 1 \in Int
      BY <1>2
    <3>2. IsFiniteSet(1 .. Len(list) + 1)
      BY <3>1, FS_Interval
    <3> QED BY <2>6, <3>2, FS_Subset
  <2>12. Cardinality(A) <= Cardinality(B) /\ IsFiniteSet(A)
    BY <2>10, <2>11, FS_Injection
  <2>13. Cardinality(A) < Limit
    BY <2>5, <2>11, <2>12, FS_CardinalityType, BoundsAssumption
  <2> QED BY <2>3, <2>4, <2>13 DEF Reach, InReach, A
<1> QED BY <1>3, <1>4 DEF Reach

(* Nothing that could not come before may come after a step, and what a ring has
   forgotten stays noted.                                                       *)
Onward == dropped \subseteq dropped' /\ MayCome' \subseteq MayCome

LEMMA MayComeShrinks ==
  ASSUME Reach' \subseteq Reach \cup (Messages \ ToSet(list)),
         ToSet(list) \subseteq ToSet(list'),
         \A i \in Injects : stamp'[i] = 0 => stamp[i] = 0,
         \A p \in Receivers : ToSet(got'[p]) \subseteq ToSet(got[p]) \cup Reach
  PROVE  MayCome' \subseteq MayCome
<1>1. MayCome = (Messages \ ToSet(list)) \cup Reach \cup {i \in Injects : stamp[i] = 0}
                  \cup UNION {ToSet(got[p]) : p \in Receivers}
  BY DEF MayCome, Reach
<1>2. MayCome' = (Messages \ ToSet(list')) \cup Reach' \cup {i \in Injects : stamp'[i] = 0}
                  \cup UNION {ToSet(got'[p]) : p \in Receivers}
  BY DEF MayCome, Reach
<1> QED BY <1>1, <1>2

LEMMA MayComeFrame == UNCHANGED <<server, receiver>> => MayCome' = MayCome
BY DEF server, receiver, MayCome, InReach, Pullable

LEMMA StampedNext == TypeInv /\ PushedStamped /\ [Next]_vars => PushedStamped'
BY WorldHolds DEF World, vars, server, PushedStamped, Pushed

LEMMA DropGrows == ASSUME NEW ids, Drop(ids) PROVE dropped \subseteq dropped'
BY DEF Drop

LEMMA NextOnward ==
  ASSUME TypeInv, PushedStamped, [Next]_vars
  PROVE  Onward
<1>1. CASE UNCHANGED <<server, receiver>> /\ dropped \subseteq dropped'
  BY <1>1, MayComeFrame DEF Onward
<1>2. CASE UNCHANGED vars \/ Tick \/ ClearMessages \/ SaveFilter
  <2>1. UNCHANGED <<stamp, list, receiver, dropped>>
    BY <1>2 DEF vars, history, Tick, ClearMessages, SaveFilter, server
  <2>2. MayCome' = MayCome
    BY <2>1 DEF receiver, MayCome, InReach, Pullable
  <2> QED BY <2>1, <2>2 DEF Onward
<1>3. ASSUME NEW p \in Processes, Save(p) \/ Show(p)
      PROVE  Onward
  <2>1. UNCHANGED <<server, receiver>>
    BY <1>3 DEF Save, SaveMessages, SaveSeenMessageIds, SaveKnownLabels, Show
  <2>2. dropped \subseteq dropped'
    BY <1>3, DropGrows DEF Save, SaveMessages, SaveSeenMessageIds, SaveKnownLabels, Show, history
  <2> QED BY <1>1, <2>1, <2>2
<1>4. ASSUME NEW p \in Workers, Load(p) \/ Pull(p)
      PROVE  Onward
  <2>1. UNCHANGED <<server, receiver>>
    BY <1>4 DEF Load, Pull
  <2>2. dropped \subseteq dropped'
    BY <1>4, DropGrows DEF Load, Pull
  <2> QED BY <1>1, <2>1, <2>2
<1>5. ASSUME NEW m \in Messages, Stamp(m)
      PROVE  Onward
  <2>1. /\ stamp[m] = 0 /\ stamp' = [stamp EXCEPT ![m] = now]
        /\ UNCHANGED <<list, got, dropped>>
    BY <1>5 DEF Stamp, receiver, history
  <2>2. m \notin Pushed /\ Messages \cap Injects = {} /\ stamp \in [Records -> Int]
    BY <2>1, ThereOK DEF PushedStamped
  <2>3. \A i \in Injects : stamp'[i] = stamp[i]
    BY <2>1, <2>2, ThereOK
  <2>4. \A n \in Pushed : stamp'[n] = stamp[n]
    BY <2>1, <2>2, ThereOK
  <2>5. Reach' = Reach
    BY <2>1, <2>4, ReachSame
  <2>6. MayCome' \subseteq MayCome
    BY <2>1, <2>3, <2>5, MayComeShrinks
  <2> QED BY <2>1, <2>6 DEF Onward
<1>6. ASSUME NEW m \in Messages, Push(m)
      PROVE  Onward
  <2>1. m \notin ToSet(list) /\ list' = <<m>> \o list /\ UNCHANGED <<stamp, got, dropped>>
    BY <1>6 DEF Push, receiver
  <2>2. ToSet(list) \subseteq ToSet(list')
    <3>1. Pushed \subseteq Pushed'
      BY <1>6, PushWorld DEF World
    <3> QED BY <3>1 DEF Pushed
  <2>3. Reach' \subseteq Reach \cup {m}
    BY <1>6, ReachPush
  <2>4. MayCome' \subseteq MayCome
    BY <2>1, <2>2, <2>3, MayComeShrinks
  <2> QED BY <2>1, <2>4 DEF Onward
<1>7. ASSUME NEW p \in Workers, NEW i \in Injects, Inject(p, i)
      PROVE  Onward
  <2>1. /\ stamp[i] = 0 /\ stamp' = [stamp EXCEPT ![i] = now] /\ now > 0
        /\ UNCHANGED <<list, got>>
    BY <1>7, BoundsAssumption DEF Inject, receiver, TypeInv, TypeOK, ServerOK
  <2>2. dropped \subseteq dropped'
    BY <1>7, DropGrows DEF Inject
  <2>3. /\ \A n \in Pushed : stamp'[n] = stamp[n]
        /\ \A n \in Injects : stamp'[n] = 0 => stamp[n] = 0
    BY <2>1, ThereOK
  <2>4. Reach' = Reach
    BY <2>1, <2>3, ReachSame
  <2>5. MayCome' \subseteq MayCome
    BY <2>1, <2>3, <2>4, MayComeShrinks
  <2> QED BY <2>2, <2>5 DEF Onward
<1>8. ASSUME UNCHANGED <<stamp, list>>, dropped \subseteq dropped',
             \A p \in Receivers : ToSet(got'[p]) \subseteq ToSet(got[p]) \cup Reach
      PROVE  Onward
  <2>1. Reach' = Reach
    BY <1>8, ReachSame
  <2>2. MayCome' \subseteq MayCome
    BY <1>8, <2>1, MayComeShrinks
  <2> QED BY <1>8, <2>2 DEF Onward
<1>9. ASSUME NEW p \in Receivers, Construct(p)
      PROVE  Onward
  BY <1>8, <1>9 DEF Construct, server, history
<1>10. ASSUME NEW p \in Receivers, ReceiverPull(p)
       PROVE  Onward
  <2>1. PICK answer : answer = Answer(waterline[p])
    OBVIOUS
  <2>2. got' = [got EXCEPT ![p] = answer] /\ UNCHANGED <<stamp, list, dropped>>
    BY <1>10, <2>1 DEF ReceiverPull, server
  <2>3. ToSet(answer) \subseteq Reach
    <3>1. waterline[p] \in Int
      BY BoundsAssumption DEF TypeInv, TypeOK, ProcessOK
    <3> QED BY <2>1, <3>1, AnswerInReach
  <2>4. got \in [Receivers -> Seq(Messages)]
    BY DEF TypeInv, TypeOK, ProcessOK
  <2>5. \A q \in Receivers : got'[q] = IF q = p THEN answer ELSE got[q]
    BY <2>2, <2>4
  <2>6. \A q \in Receivers : ToSet(got'[q]) \subseteq ToSet(got[q]) \cup Reach
    BY <2>3, <2>5
  <2> QED BY <1>8, <2>2, <2>6
<1>11. ASSUME NEW p \in Processes, Stop(p) \/ (p \in Receivers /\ ReceiverLoad(p))
       PROVE  Onward
  <2>1. dropped \subseteq dropped' /\ UNCHANGED <<stamp, list>>
    BY <1>11, DropGrows DEF Stop, ReceiverLoad, server, history
  <2>2. \A q \in Receivers : got'[q] = <<>> \/ got'[q] = got[q]
    BY <1>11 DEF Stop, ReceiverLoad, TypeInv, TypeOK, ProcessOK
  <2>3. \A q \in Receivers : ToSet(got'[q]) \subseteq ToSet(got[q]) \cup Reach
    BY <2>2 DEF ToSet
  <2> QED BY <1>8, <2>1, <2>3
<1> QED
  BY <1>2, <1>3, <1>4, <1>5, <1>6, <1>7, <1>9, <1>10, <1>11 DEF Next, Cycle, Processes
------------------------------------------------------------------------------
(***************************************************************************)
(* What was seen once.  A full ring forgets its oldest ids: of consequence *)
(* only where their message may still come.  X are ids that somebody else  *)
(* took out of the file: none in this module.                              *)
(***************************************************************************)
(* Ids that were forgotten while their message could come... *)
Lost(X) == dropped \cup X

(* ... and those no message of which can come any more. *)
Gone(X) == Lost(X) \cup (Ids \ IdsIn(MayCome))

LEMMA GoneGrows ==
  ASSUME Onward, NEW X
  PROVE  Lost(X) \subseteq Lost(X)' /\ Gone(X) \subseteq Gone(X)'
<1>1. IdsIn(MayCome') \subseteq IdsIn(MayCome)
  BY DEF Onward, IdsIn
<1>2. Gone(X)' = Lost(X)' \cup (Ids \ IdsIn(MayCome'))
  BY DEF Gone, IdsIn, Ids, Records
<1> QED BY <1>1, <1>2 DEF Onward, Lost, Gone

(* What a ring forgets is gone, and lost if its message may come. *)
LEMMA DroppedIsGone ==
  ASSUME Onward, NEW X, NEW ids, ids \subseteq Ids, Drop(ids)
  PROVE  /\ Gone(X) \cup ids \subseteq Gone(X)'
         /\ \A m \in MayCome : IdsOf(m) \cap (Gone(X) \cup ids) \subseteq Lost(X)'
<1>1. ids \cap IdsIn(MayCome) \subseteq dropped'
  BY DEF Drop, IdsIn
<1>2. IdsIn(MayCome') \subseteq IdsIn(MayCome)
  BY DEF Onward, IdsIn
<1>3. Gone(X)' = Lost(X)' \cup (Ids \ IdsIn(MayCome'))
  BY DEF Gone, IdsIn, Ids, Records
<1>4. ids \subseteq Gone(X)'
  BY <1>1, <1>2, <1>3 DEF Lost
<1>5. \A m \in MayCome : IdsOf(m) \subseteq IdsIn(MayCome)
  BY DEF IdsIn
<1>6. Lost(X) \subseteq Lost(X)' /\ Gone(X) \subseteq Gone(X)'
  BY GoneGrows
<1> QED BY <1>1, <1>4, <1>5, <1>6 DEF Gone, Lost

(* What a ring remembers of a batch, and accepts of it. *)
LEMMA BatchIsRemembered ==
  ASSUME NEW order \in RingOf(Ids), NEW batch \in Seq(Records)
  PROVE  /\ RememberAll(order, batch) \in RingOf(Ids)
         /\ ToSet(order) \cup IdsIn(ToSet(batch))
              \subseteq ToSet(RememberAll(order, batch)) \cup Forgets(order, batch)
         /\ ToSet(RememberAll(order, batch)) \subseteq ToSet(order) \cup IdsIn(ToSet(batch))
         /\ Forgets(order, batch) \subseteq Ids
         /\ Accepted(order, batch) \subseteq ToSet(batch)
         /\ IdsIn(Accepted(order, batch)) \cap ToSet(order) \subseteq Forgets(order, batch)
         /\ \A m, n \in Accepted(order, batch) :
              m # n => IdsOf(m) \cap IdsOf(n) \subseteq Forgets(order, batch)
<1> DEFINE o == RememberAll(order, batch)
           A == Accepted(order, batch)
           F == Forgets(order, batch)
<1>1. \A i \in 1 .. Len(batch) : IdsOf(batch[i]) \subseteq Ids
  BY IdsAreIds
<1>2. /\ o \in RingOf(Ids)
      /\ ToSet(order) \subseteq ToSet(o) \cup F
      /\ \A i \in 1 .. Len(batch) : IdsOf(batch[i]) \subseteq ToSet(o) \cup F
      /\ \A id \in ToSet(o) \cup F :
           id \in ToSet(order) \/ \E i \in 1 .. Len(batch) : id \in IdsOf(batch[i])
      /\ \A m \in A : IdsOf(m) \cap ToSet(order) \subseteq F
      /\ \A m, n \in A : m # n => IdsOf(m) \cap IdsOf(n) \subseteq F
  BY <1>1, BatchIsKeptOrForgotten
<1>3. A \subseteq ToSet(batch)
  BY DEF Accepted, ToSet
<1>4. ToSet(order) \subseteq Ids
  BY DEF RingOf, ToSet
<1> HIDE DEF o, A, F
<1>5. ToSet(batch) = {batch[i] : i \in 1 .. Len(batch)}
  BY DEF ToSet
<1>6. ToSet(order) \cup IdsIn(ToSet(batch)) \subseteq ToSet(o) \cup F
  BY <1>2, <1>5 DEF IdsIn
<1>7. ToSet(o) \subseteq ToSet(order) \cup IdsIn(ToSet(batch))
  BY <1>2, <1>5 DEF IdsIn
<1>8. F \subseteq Ids
  BY <1>1, <1>2, <1>4
<1>9. IdsIn(A) \cap ToSet(order) \subseteq F
  BY <1>2 DEF IdsIn
<1> QED BY <1>2, <1>3, <1>6, <1>7, <1>8, <1>9 DEF o, A, F

LEMMA SortedIsRemembered ==
  ASSUME ServerOK, NEW order \in RingOf(Ids), NEW M, M \subseteq Records
  PROVE  /\ RememberAll(order, InOrder(M)) \in RingOf(Ids)
         /\ ToSet(order) \cup IdsIn(M)
              \subseteq ToSet(RememberAll(order, InOrder(M))) \cup Forgets(order, InOrder(M))
         /\ ToSet(RememberAll(order, InOrder(M))) \subseteq ToSet(order) \cup IdsIn(M)
         /\ Forgets(order, InOrder(M)) \subseteq Ids
<1>1. InOrder(M) \in Seq(M) /\ ToSet(InOrder(M)) = M
  BY InOrderSorts
<1>2. InOrder(M) \in Seq(Records)
  BY <1>1
<1> QED BY <1>1, <1>2, BatchIsRemembered

(* The ring of a snapshot has the ids of the snapshot and no others, but for those that
   it forgets.                                                                          *)
LEMMA SeededIsRemembered ==
  ASSUME TypeInv, NEW r \in Readable
  PROVE  /\ ToSet(r.seen) \cup IdsIn(r.messages) \subseteq ToSet(Seeded(r)) \cup SeedingForgets(r)
         /\ ToSet(Seeded(r)) \subseteq ToSet(r.seen) \cup IdsIn(r.messages)
         /\ SeedingForgets(r) \subseteq Ids
<1>1. ServerOK /\ r.messages \subseteq Records /\ r.seen \in RingOf(Ids)
  BY ReadableOK DEF TypeInv, TypeOK
<1>2. PICK o, F : o = RememberAll(r.seen, InOrder(r.messages)) /\ F = Forgets(r.seen, InOrder(r.messages))
  OBVIOUS
<1>3. PICK q, G : q = RememberAll(o, InOrder(r.messages)) /\ G = Forgets(o, InOrder(r.messages))
  OBVIOUS
<1>4. /\ o \in RingOf(Ids) /\ ToSet(r.seen) \cup IdsIn(r.messages) \subseteq ToSet(o) \cup F
      /\ ToSet(o) \subseteq ToSet(r.seen) \cup IdsIn(r.messages) /\ F \subseteq Ids
  BY <1>1, <1>2, SortedIsRemembered
<1>5. /\ ToSet(o) \cup IdsIn(r.messages) \subseteq ToSet(q) \cup G
      /\ ToSet(q) \subseteq ToSet(o) \cup IdsIn(r.messages) /\ G \subseteq Ids
  BY <1>1, <1>3, <1>4, SortedIsRemembered
<1>6. Seeded(r) = q /\ SeedingForgets(r) = F \cup G
  BY <1>2, <1>3 DEF Seeded, SeedingForgets
<1> QED BY <1>4, <1>5, <1>6
------------------------------------------------------------------------------
(***************************************************************************)
(* What the user has cleared stays cleared.                                *)
(***************************************************************************)
(* The ring of a process has the ids of what it will save. *)
RingCovers(p, X) ==
  /\ pc[p] \in {"pull", "save"} => IdsIn(snap[p]) \subseteq ToSet(ring[p]) \cup Gone(X)
  /\ pc[p] \in {"save", "saveIds"} => IdsIn(accepted[p]) \subseteq ToSet(ring[p]) \cup Gone(X)

Uncleared(S, X) == \A m \in S \cap (cleared \ raced) : IdsOf(m) \subseteq Lost(X)

FileSeen(X) ==
  /\ IdsIn(file.messages \cup cleared) \subseteq Seen \cup Gone(X)
  /\ Uncleared(file.messages, X)

(* A process with a snapshot knows all that was seen, accepts nothing of the history
   and has nothing in hand that was cleared.                                         *)
HandSeen(p, X) ==
  /\ Saving(p) => Seen \subseteq ToSet(ring[p]) \cup Gone(X)
  /\ pc[p] = "save" => IdsIn(accepted[p]) \cap IdsIn(file.messages \cup cleared) \subseteq Lost(X)
  /\ pc[p] \in {"pull", "save"} => Uncleared(snap[p], X)

KnownInv(X) ==
  /\ \A p \in Processes : RingCovers(p, X)
  /\ Undisturbed => FileSeen(X) /\ \A p \in Processes : HandSeen(p, X)

LEMMA KnownInit == ASSUME NEW X PROVE Init => KnownInv(X)
<1> SUFFICES ASSUME Init PROVE KnownInv(X)
  OBVIOUS
<1>1. file.messages = {} /\ cleared = {}
  BY DEF Init, Empty
<1>2. FileSeen(X)
  BY <1>1 DEF FileSeen, IdsIn, Uncleared
<1>3. \A p \in Processes : RingCovers(p, X) /\ HandSeen(p, X)
  BY DEF Init, RingCovers, HandSeen, Saving
<1> QED BY <1>2, <1>3 DEF KnownInv

(* A process that a step leaves alone, in a file that it leaves alone. *)
LEMMA CoversKept ==
  ASSUME Onward, NEW X, NEW q, RingCovers(q, X), pc'[q] = pc[q], snap'[q] = snap[q],
         ring'[q] = ring[q], accepted'[q] = accepted[q]
  PROVE  RingCovers(q, X)'
BY GoneGrows DEF RingCovers, IdsIn

LEMMA FileSeenKept ==
  ASSUME Onward, NEW X, FileSeen(X), file' = file, UNCHANGED <<cleared, raced>>
  PROVE  FileSeen(X)'
BY GoneGrows DEF FileSeen, Uncleared, Seen, IdsIn

LEMMA HandKept ==
  ASSUME Onward, NEW X, NEW q, HandSeen(q, X), file' = file, UNCHANGED <<cleared, raced>>,
         pc'[q] = pc[q], snap'[q] = snap[q], ring'[q] = ring[q], accepted'[q] = accepted[q]
  PROVE  HandSeen(q, X)'
BY GoneGrows DEF HandSeen, Saving, Uncleared, Seen, IdsIn

(* A step of one process that leaves the file alone. *)
LEMMA KnownStep ==
  ASSUME Onward, NEW X, KnownInv(X), NEW p \in Processes,
         Undisturbed' => Undisturbed /\ file' = file,
         UNCHANGED <<cleared, raced>>,
         \A q \in Processes \ {p} : SameProcess(q),
         RingCovers(p, X)', Undisturbed' => HandSeen(p, X)'
  PROVE  KnownInv(X)'
<1>1. \A q \in Processes : RingCovers(q, X)'
  BY CoversKept DEF KnownInv, SameProcess
<1>2. ASSUME Undisturbed' PROVE FileSeen(X)'
  BY <1>2, FileSeenKept DEF KnownInv
<1>3. ASSUME Undisturbed', NEW q \in Processes PROVE HandSeen(q, X)'
  <2>1. CASE q = p
    BY <1>3, <2>1
  <2>2. CASE q # p
    BY <1>3, <2>2, HandKept DEF KnownInv, SameProcess
  <2> QED BY <2>1, <2>2
<1> QED BY <1>1, <1>2, <1>3 DEF KnownInv

(* A process that has no snapshot any more. *)
LEMMA KnownAtLabel ==
  ASSUME NEW X, NEW p, pc'[p] \notin {"pull", "save", "saveIds"}
  PROVE  RingCovers(p, X)' /\ HandSeen(p, X)'
BY DEF RingCovers, HandSeen, Saving

(* A batch is offered to a ring that knows what was seen, but for the ids it has
   forgotten over it or before.                                                  *)
LEMMA KnownTake ==
  ASSUME TypeInv, Onward, NEW X, NEW p \in Processes,
         NEW M \in SUBSET Records, NEW o \in RingOf(Ids), NEW batch \in Seq(Records),
         Take(p, M, o, batch), ToSet(batch) \subseteq MayCome,
         NEW ids, ids \subseteq Ids, Forgets(o, batch) \subseteq ids, Drop(ids),
         IdsIn(M) \subseteq ToSet(o) \cup Gone(X) \cup ids,
         Undisturbed' => /\ file' = file /\ UNCHANGED <<cleared, raced>>
                         /\ FileSeen(X)
                         /\ Seen \subseteq ToSet(o) \cup Gone(X) \cup ids
                         /\ Uncleared(M, X)
  PROVE  RingCovers(p, X)' /\ (Undisturbed' => HandSeen(p, X)')
<1> DEFINE new == Accepted(o, batch)
           after == RememberAll(o, batch)
<1>1. /\ new \subseteq ToSet(batch)
      /\ ToSet(o) \cup IdsIn(ToSet(batch)) \subseteq ToSet(after) \cup ids
      /\ IdsIn(new) \cap ToSet(o) \subseteq ids
  BY BatchIsRemembered
<1>2. CASE Rest(p, "idle")
  <2>1. pc'[p] = "idle"
    BY <1>2, DomainsHold DEF Rest, Goto, Domains
  <2> QED BY <2>1, KnownAtLabel
<1>3. CASE ~Rest(p, "idle")
  <2>1. /\ pc'[p] = "save" /\ snap'[p] = M
        /\ ring'[p] = after /\ accepted'[p] = new
    BY <1>3, DomainsHold DEF Take, Goto, Domains
  <2> HIDE DEF new, after
  <2>2. IdsIn(new) \subseteq IdsIn(ToSet(batch))
    BY <1>1 DEF IdsIn
  <2>3. /\ Gone(X) \cup ids \subseteq Gone(X)'
        /\ \A m \in new : IdsOf(m) \cap (Gone(X) \cup ids) \subseteq Lost(X)'
    BY <1>1, DroppedIsGone
  <2>4. /\ IdsIn(M) \subseteq ToSet(after) \cup Gone(X)'
        /\ IdsIn(new) \subseteq ToSet(after) \cup Gone(X)'
    BY <1>1, <2>2, <2>3
  <2>5. RingCovers(p, X)'
    BY <2>1, <2>4 DEF RingCovers, IdsIn
  <2>6. ASSUME Undisturbed' PROVE HandSeen(p, X)'
    <3>1. Seen' = Seen /\ Seen \subseteq ToSet(after) \cup Gone(X)'
      BY <1>1, <2>3, <2>6 DEF Seen
    <3>2. IdsIn(new) \cap IdsIn(file.messages \cup cleared) \subseteq Lost(X)'
      <4> SUFFICES ASSUME NEW m \in new, NEW id \in IdsOf(m),
                          id \in IdsIn(file.messages \cup cleared)
                   PROVE  id \in Lost(X)'
        BY DEF IdsIn
      <4>1. id \in ToSet(o) \cup Gone(X) \cup ids
        BY <2>6 DEF FileSeen
      <4>2. id \in ToSet(o) => id \in ids
        BY <1>1 DEF IdsIn
      <4> QED BY <2>3, <4>1, <4>2
    <3>3. IdsIn(new) \cap IdsIn(file'.messages \cup cleared') \subseteq Lost(X)'
      BY <2>6, <3>2
    <3>4. (Uncleared(snap[p], X))'
      BY <2>1, <2>6, GoneGrows DEF Uncleared
    <3> QED BY <2>1, <3>1, <3>3, <3>4 DEF HandSeen, IdsIn
  <2> QED BY <2>5, <2>6
<1> QED BY <1>2, <1>3

(* What a snapshot knows. *)
LEMMA ReadSeen ==
  ASSUME TypeInv, Fields, NEW X, KnownInv(X), NEW r \in Readable, Read(r),
         UNCHANGED overlap \/ \E q \in Processes : NoteOverlap(q)
  PROVE  /\ IdsIn(r.messages) \subseteq ToSet(Seeded(r)) \cup SeedingForgets(r)
         /\ SeedingForgets(r) \subseteq Ids
         /\ Undisturbed' => /\ Undisturbed /\ r = file /\ FileSeen(X)
                            /\ Seen \subseteq ToSet(Seeded(r)) \cup SeedingForgets(r)
                            /\ Uncleared(r.messages, X)
<1>1. /\ ToSet(r.seen) \cup IdsIn(r.messages) \subseteq ToSet(Seeded(r)) \cup SeedingForgets(r)
      /\ SeedingForgets(r) \subseteq Ids
  BY SeededIsRemembered
<1>2. Undisturbed' => Undisturbed /\ r = file
  BY ReadIsFile DEF Undisturbed, NoteOverlap
<1>3. Undisturbed => FileSeen(X) /\ Uncleared(file.messages, X)
  BY DEF KnownInv, FileSeen
<1> QED BY <1>1, <1>2, <1>3 DEF Seen

LEMMA KnownLoad ==
  ASSUME TypeInv, Onward, Fields, NEW X, KnownInv(X), NEW p \in Processes, Load(p)
  PROVE  KnownInv(X)'
<1>1. PICK r \in Readable :
        /\ Read(r)
        /\ snap' = [snap EXCEPT ![p] = r.messages]
        /\ ring' = [ring EXCEPT ![p] = Seeded(r)]
        /\ Drop(SeedingForgets(r))
  BY DEF Load
<1>2. /\ pc' = [pc EXCEPT ![p] = "pull"] /\ NoteOverlap(p)
      /\ UNCHANGED <<file, cleared, raced>>
  BY DEF Load, Goto
<1>3. PICK o, ids : o = Seeded(r) /\ ids = SeedingForgets(r)
  OBVIOUS
<1>4. pc'[p] = "pull" /\ snap'[p] = r.messages /\ ring'[p] = o
  BY <1>1, <1>2, <1>3, DomainsHold DEF Domains
<1>5. /\ IdsIn(r.messages) \subseteq ToSet(o) \cup ids /\ ids \subseteq Ids
      /\ Undisturbed' => /\ Undisturbed
                         /\ Seen \subseteq ToSet(o) \cup ids
                         /\ Uncleared(r.messages, X)
  BY <1>1, <1>2, <1>3, ReadSeen
<1>6. ids \subseteq Gone(X)' /\ Lost(X) \subseteq Lost(X)'
  BY <1>1, <1>3, <1>5, DroppedIsGone, GoneGrows
<1>7. RingCovers(p, X)'
  BY <1>4, <1>5, <1>6 DEF RingCovers
<1>8. Undisturbed' => HandSeen(p, X)'
  BY <1>2, <1>4, <1>5, <1>6 DEF HandSeen, Uncleared, Seen
<1> QED BY <1>2, <1>5, <1>7, <1>8, OthersSame, KnownStep

(* What a worker pulls, or a process is offered otherwise, could come. *)
LEMMA PulledMayCome ==
  ASSUME TypeInv, NEW p \in Processes
  PROVE  ToSet(Answer(Since(p))) \subseteq MayCome
<1>1. Since(p) \in Int
  BY NewestOK, BoundsAssumption DEF Since, TypeInv, TypeOK, ProcessOK
<1> QED BY <1>1, AnswerInReach, ReachMayCome

LEMMA OfferedMayCome ==
  ASSUME TypeInv, NEW p \in Processes,
         \/ p \in Receivers /\ ReceiverLoad(p)
         \/ \E i \in Injects : Inject(p, i)
  PROVE  \E batch \in Seq(Records), r \in Readable :
           /\ Read(r) /\ Take(p, r.messages, Seeded(r), batch)
           /\ ToSet(batch) \subseteq MayCome
           /\ Drop(SeedingForgets(r) \cup Forgets(Seeded(r), batch))
<1>1. CASE p \in Receivers /\ ReceiverLoad(p)
  <2>1. got[p] \in Seq(Records) /\ ToSet(got[p]) \subseteq MayCome
    BY <1>1 DEF Records, TypeInv, TypeOK, ProcessOK, MayCome
  <2>2. PICK batch : batch = got[p]
    OBVIOUS
  <2> QED BY <1>1, <2>1, <2>2 DEF ReceiverLoad
<1>2. ASSUME NEW i \in Injects, Inject(p, i)
      PROVE  \E batch \in Seq(Records), r \in Readable :
               /\ Read(r) /\ Take(p, r.messages, Seeded(r), batch)
               /\ ToSet(batch) \subseteq MayCome
               /\ Drop(SeedingForgets(r) \cup Forgets(Seeded(r), batch))
  <2>1. PICK batch : batch = <<i>>
    OBVIOUS
  <2>2. batch \in Seq(Records) /\ ToSet(batch) = {i}
    BY <2>1 DEF Records, ToSet
  <2>3. i \in MayCome
    BY <1>2 DEF Inject, MayCome
  <2> QED BY <1>2, <2>1, <2>2, <2>3 DEF Inject
<1> QED BY <1>1, <1>2

LEMMA KnownPull ==
  ASSUME TypeInv, Onward, NEW X, KnownInv(X), NEW p \in Processes, Pull(p)
  PROVE  KnownInv(X)'
<1>1. PICK M, o, batch : M = snap[p] /\ o = ring[p] /\ batch = Answer(Since(p))
  OBVIOUS
<1>2. /\ Take(p, M, o, batch) /\ pc[p] = "pull" /\ Drop(Forgets(o, batch))
      /\ UNCHANGED <<file, failures, overlap, cleared, raced>>
  BY <1>1 DEF Pull, bounds
<1>3. M \in SUBSET Records /\ o \in RingOf(Ids) /\ batch \in Seq(Records)
  BY <1>1, AnswerOK DEF Records, TypeInv, TypeOK, ProcessOK
<1>4. ToSet(batch) \subseteq MayCome
  BY <1>1, PulledMayCome
<1>5. IdsIn(M) \subseteq ToSet(o) \cup Gone(X)
  BY <1>1, <1>2 DEF KnownInv, RingCovers
<1>6. Undisturbed' => Undisturbed
  BY <1>2 DEF Undisturbed
<1>7. Undisturbed' => FileSeen(X) /\ Seen \subseteq ToSet(o) \cup Gone(X) /\ Uncleared(M, X)
  BY <1>1, <1>2, <1>6 DEF KnownInv, HandSeen, Saving
<1>8. Forgets(o, batch) \subseteq Ids
  BY <1>3, BatchIsRemembered
<1>9. RingCovers(p, X)' /\ (Undisturbed' => HandSeen(p, X)')
  BY <1>2, <1>3, <1>4, <1>5, <1>7, <1>8, KnownTake
<1> QED BY <1>2, <1>6, <1>9, OthersSame, KnownStep

(* A test message, or what a receiver has pulled, is offered to a new snapshot. *)
LEMMA KnownOffer ==
  ASSUME TypeInv, Onward, Fields, NEW X, KnownInv(X), NEW p \in Processes,
         \/ p \in Receivers /\ ReceiverLoad(p)
         \/ \E i \in Injects : Inject(p, i)
  PROVE  KnownInv(X)'
<1>1. PICK batch \in Seq(Records), r \in Readable :
        /\ Read(r) /\ Take(p, r.messages, Seeded(r), batch)
        /\ ToSet(batch) \subseteq MayCome
        /\ Drop(SeedingForgets(r) \cup Forgets(Seeded(r), batch))
  BY OfferedMayCome
<1>2. NoteOverlap(p) /\ UNCHANGED <<file, cleared, raced>>
  BY DEF ReceiverLoad, Inject
<1>3. PICK M, o, ids : /\ M = r.messages /\ o = Seeded(r)
                       /\ ids = SeedingForgets(r) \cup Forgets(Seeded(r), batch)
  OBVIOUS
<1>4. M \in SUBSET Records /\ o \in RingOf(Ids)
  BY <1>3, ReadableOK
<1>5. Forgets(o, batch) \subseteq Ids
  BY <1>4, BatchIsRemembered
<1>6. /\ IdsIn(M) \subseteq ToSet(o) \cup ids /\ ids \subseteq Ids
      /\ Undisturbed' => /\ Undisturbed /\ FileSeen(X)
                         /\ Seen \subseteq ToSet(o) \cup ids /\ Uncleared(M, X)
  BY <1>1, <1>2, <1>3, <1>5, ReadSeen
<1>7. Take(p, M, o, batch) /\ Forgets(o, batch) \subseteq ids /\ Drop(ids)
  BY <1>1, <1>3
<1>8. /\ IdsIn(M) \subseteq ToSet(o) \cup Gone(X) \cup ids
      /\ Undisturbed' => /\ file' = file /\ UNCHANGED <<cleared, raced>> /\ FileSeen(X)
                         /\ Seen \subseteq ToSet(o) \cup Gone(X) \cup ids /\ Uncleared(M, X)
  BY <1>2, <1>6
<1>9. RingCovers(p, X)' /\ (Undisturbed' => HandSeen(p, X)')
  BY <1>1, <1>4, <1>6, <1>7, <1>8, KnownTake
<1> QED BY <1>2, <1>6, <1>9, OthersSame, KnownStep

(* Two transactions change the ids or the messages of the file. *)
LEMMA KnownFile ==
  ASSUME Onward, NEW X, KnownInv(X), OneSaver, NEW p \in Processes, Saving(p),
         Undisturbed' => Undisturbed, UNCHANGED <<cleared, raced, snap, accepted, ring>>,
         \A q \in Processes \ {p} : pc'[q] = pc[q],
         Undisturbed' => /\ Seen \subseteq Seen' \cup Gone(X)'
                         /\ Seen' \subseteq ToSet(ring[p]) \cup Gone(X)'
                         /\ IdsIn(file'.messages) \subseteq Seen' \cup Gone(X)'
                         /\ Uncleared(file'.messages, X),
         \/ pc'[p] = "labels"
         \/ pc[p] = "save" /\ pc'[p] = "saveIds"
  PROVE  KnownInv(X)'
<1>1. \A q \in Processes : RingCovers(q, X)'
  BY GoneGrows DEF KnownInv, RingCovers, IdsIn
<1>2. ASSUME Undisturbed' PROVE FileSeen(X)'
  <2>1. IdsIn(cleared) \subseteq Seen' \cup Gone(X)'
    BY <1>2, GoneGrows DEF KnownInv, FileSeen, IdsIn
  <2>2. (Uncleared(file.messages, X))'
    BY <1>2, GoneGrows DEF Uncleared
  <2> QED BY <1>2, <2>1, <2>2 DEF FileSeen, IdsIn
<1>3. ASSUME Undisturbed', NEW q \in Processes PROVE HandSeen(q, X)'
  <2>1. CASE q = p
    BY <1>3, <2>1 DEF HandSeen, Saving
  <2>2. CASE q # p
    BY <1>3, <2>2 DEF OneSaver, HandSeen, Saving
  <2> QED BY <2>1, <2>2
<1> QED BY <1>1, <1>2, <1>3 DEF KnownInv

LEMMA KnownSaveMessages ==
  ASSUME TypeInv, Onward, Fields, OneSaver, NEW X, KnownInv(X), NEW p \in Processes,
         SaveMessages(p)
  PROVE  KnownInv(X)'
<1>1. PICK r \in Readable, kept \in Trims(Merge(p)) :
        /\ Read(r) /\ Drop(Forgets(r.seen, InOrder(kept)))
        /\ file' = [messages |-> kept, seen |-> RememberAll(r.seen, InOrder(kept))]
  BY DEF SaveMessages
<1>2. /\ pc[p] = "save" /\ pc' = [pc EXCEPT ![p] = "saveIds"]
      /\ UNCHANGED <<cleared, raced, snap, accepted, ring, overlap>>
  BY DEF SaveMessages, Goto
<1>3. Undisturbed' => Undisturbed /\ r = file
  BY <1>1, <1>2, ReadIsFile DEF Undisturbed
<1>4. kept \subseteq snap[p] \cup accepted[p] /\ kept \subseteq Records
  BY DEF Trims, Merge, TypeInv, TypeOK, ProcessOK
<1>5. PICK o, F : o = RememberAll(r.seen, InOrder(kept)) /\ F = Forgets(r.seen, InOrder(kept))
  OBVIOUS
<1>6. /\ ToSet(r.seen) \cup IdsIn(kept) \subseteq ToSet(o) \cup F /\ F \subseteq Ids
      /\ ToSet(o) \subseteq ToSet(r.seen) \cup IdsIn(kept)
  BY <1>4, <1>5, ReadableOK, SortedIsRemembered DEF TypeInv, TypeOK
<1>7. file'.messages = kept /\ Seen' = ToSet(o)
  BY <1>1, <1>5 DEF Seen
<1>8. F \subseteq Gone(X)' /\ Gone(X) \subseteq Gone(X)'
  BY <1>1, <1>5, <1>6, DroppedIsGone
<1>9. IdsIn(kept) \subseteq ToSet(ring[p]) \cup Gone(X)
  BY <1>2, <1>4 DEF KnownInv, RingCovers, IdsIn
<1>10. ASSUME Undisturbed' PROVE Uncleared(kept, X) /\ Seen \subseteq ToSet(ring[p]) \cup Gone(X)
  <2>1. FileSeen(X) /\ HandSeen(p, X) /\ Saving(p)
    BY <1>2, <1>3, <1>10 DEF KnownInv, Saving
  <2>2. ASSUME NEW m \in accepted[p] \cap (cleared \ raced)
        PROVE  IdsOf(m) \subseteq Lost(X)
    BY <1>2, <2>1, <2>2 DEF HandSeen, IdsIn
  <2> QED BY <1>2, <1>4, <2>1, <2>2 DEF HandSeen, Uncleared
<1>11. Undisturbed' => Uncleared(file'.messages, X)
  BY <1>7, <1>10
<1>12. Undisturbed' => /\ Seen \subseteq Seen' \cup Gone(X)'
                       /\ Seen' \subseteq ToSet(ring[p]) \cup Gone(X)'
                       /\ IdsIn(file'.messages) \subseteq Seen' \cup Gone(X)'
  BY <1>3, <1>6, <1>7, <1>8, <1>9, <1>10 DEF Seen
<1>13. Saving(p) /\ pc'[p] = "saveIds" /\ \A q \in Processes \ {p} : pc'[q] = pc[q]
  BY <1>2, DomainsHold DEF Saving, Domains
<1> QED BY <1>2, <1>3, <1>11, <1>12, <1>13, KnownFile

LEMMA KnownSaveSeen ==
  ASSUME TypeInv, Onward, Fields, OneSaver, NEW X, KnownInv(X), NEW p \in Processes,
         SaveSeenMessageIds(p)
  PROVE  KnownInv(X)'
<1>1. PICK r \in Readable : Read(r) /\ file' = [r EXCEPT !.seen = ring[p]]
  BY DEF SaveSeenMessageIds
<1>2. /\ pc[p] = "saveIds" /\ pc' = [pc EXCEPT ![p] = "labels"]
      /\ UNCHANGED <<cleared, raced, snap, accepted, ring, overlap>>
  BY DEF SaveSeenMessageIds, Goto, history
<1>3. Undisturbed' => Undisturbed /\ r = file
  BY <1>1, <1>2, ReadIsFile DEF Undisturbed
<1>4. file'.messages = r.messages /\ Seen' = ToSet(ring[p])
  BY <1>1, ReadIsFile, OtherField DEF Seen
<1>5. Undisturbed' => FileSeen(X) /\ Seen \subseteq ToSet(ring[p]) \cup Gone(X)
  BY <1>2, <1>3 DEF KnownInv, HandSeen, Saving
<1>6. Undisturbed' => /\ Seen \subseteq Seen' \cup Gone(X)'
                      /\ Seen' \subseteq ToSet(ring[p]) \cup Gone(X)'
                      /\ IdsIn(file'.messages) \subseteq Seen' \cup Gone(X)'
                      /\ Uncleared(file'.messages, X)
  BY <1>3, <1>4, <1>5, GoneGrows DEF FileSeen, IdsIn
<1>7. Saving(p) /\ pc'[p] = "labels" /\ \A q \in Processes \ {p} : pc'[q] = pc[q]
  BY <1>2, DomainsHold DEF Saving, Domains
<1> QED BY <1>2, <1>3, <1>6, <1>7, KnownFile

(* What is cleared was seen; what a process has in a snapshot then is raced. *)
LEMMA KnownClear ==
  ASSUME TypeInv, Onward, Fields, NEW X, KnownInv(X), ClearMessages
  PROVE  KnownInv(X)'
<1>1. PICK r \in Readable : Read(r) /\ file' = [r EXCEPT !.messages = {}]
  BY DEF ClearMessages
<1>2. /\ cleared' = cleared \cup file.messages
      /\ raced' = raced \cup {m \in file.messages :
                                \E p \in Processes : pc[p] \in {"pull", "save"} /\ m \in snap[p]}
      /\ UNCHANGED <<pc, snap, ring, accepted, overlap>>
  BY DEF ClearMessages, process
<1>3. Undisturbed' => Undisturbed /\ r = file
  BY <1>1, <1>2, ReadIsFile DEF Undisturbed
<1>4. file'.messages = {} /\ Seen' = ToSet(r.seen)
  BY <1>1, ReadIsFile, OtherField DEF Seen
<1>5. \A q \in Processes : RingCovers(q, X)'
  BY <1>2, CoversKept DEF KnownInv
<1>6. ASSUME Undisturbed' PROVE FileSeen(X)'
  BY <1>2, <1>3, <1>4, <1>6, GoneGrows DEF KnownInv, FileSeen, IdsIn, Uncleared, Seen
<1>7. ASSUME Undisturbed', NEW q \in Processes PROVE HandSeen(q, X)'
  <2>1. HandSeen(q, X) /\ Seen' = Seen /\ Lost(X) \subseteq Lost(X)' /\ Gone(X) \subseteq Gone(X)'
    BY <1>3, <1>4, <1>7, GoneGrows DEF KnownInv, Seen
  <2>2. ASSUME pc[q] \in {"pull", "save"} PROVE (Uncleared(snap[q], X))'
    BY <1>2, <2>1, <2>2 DEF HandSeen, Uncleared
  <2>3. file'.messages \cup cleared' = file.messages \cup cleared
    BY <1>2, <1>4
  <2>4. pc'[q] = "save" =>
          IdsIn(accepted'[q]) \cap IdsIn(file'.messages \cup cleared') \subseteq Lost(X)'
    BY <1>2, <2>1, <2>3 DEF HandSeen
  <2>5. Saving(q)' => Seen' \subseteq ToSet(ring'[q]) \cup Gone(X)'
    BY <1>2, <2>1 DEF HandSeen, Saving
  <2> QED BY <1>2, <2>2, <2>4, <2>5 DEF HandSeen, IdsIn
<1> QED BY <1>5, <1>6, <1>7 DEF KnownInv

(* A step that changes neither the file nor a snapshot. *)
LEMMA KnownFrame ==
  ASSUME Onward, NEW X, KnownInv(X), Undisturbed' => Undisturbed /\ file' = file,
         UNCHANGED <<pc, snap, ring, accepted, cleared, raced>>
  PROVE  KnownInv(X)'
BY CoversKept, FileSeenKept, HandKept DEF KnownInv

LEMMA KnownNext ==
  ASSUME TypeInv, PushedStamped, Fields, OneSaver, NEW X, KnownInv(X), [Next]_vars
  PROVE  KnownInv(X)'
<1>0. Onward
  BY NextOnward
<1>1. CASE UNCHANGED vars \/ Tick \/ \E m \in Messages : Stamp(m) \/ Push(m)
  <2>1. UNCHANGED <<pc, snap, ring, accepted, cleared, raced, overlap, failures, file>>
    BY <1>1 DEF Tick, Stamp, Push, vars, process, bounds, history
  <2>2. Undisturbed' => Undisturbed
    BY <2>1 DEF Undisturbed
  <2> QED BY <1>0, <2>1, <2>2, KnownFrame
<1>2. CASE SaveFilter
  <2>1. PICK r \in Readable : Read(r) /\ file' = r
    BY <1>2 DEF SaveFilter
  <2>2. UNCHANGED <<pc, snap, ring, accepted, cleared, raced, overlap>>
    BY <1>2 DEF SaveFilter, process, history
  <2>3. Undisturbed' => Undisturbed /\ file' = file
    BY <2>1, <2>2, ReadIsFile DEF Undisturbed
  <2> QED BY <1>0, <2>2, <2>3, KnownFrame
<1>3. ASSUME NEW p \in Processes, SaveKnownLabels(p)
      PROVE  KnownInv(X)'
  <2>1. PICK r \in Readable : Read(r) /\ file' = r
    BY <1>3 DEF SaveKnownLabels
  <2>2. UNCHANGED <<cleared, raced, overlap>>
    BY <1>3 DEF SaveKnownLabels, history
  <2>3. Undisturbed' => Undisturbed /\ file' = file
    BY <2>1, <2>2, ReadIsFile DEF Undisturbed
  <2>4. pc'[p] \in {"banner", "idle"}
    BY <1>3, DomainsHold DEF SaveKnownLabels, Rest, Goto, Domains
  <2> QED BY <1>0, <1>3, <2>2, <2>3, <2>4, OthersSame, KnownAtLabel, KnownStep DEF Save
<1>4. ASSUME NEW p \in Processes, Show(p) \/ Stop(p)
      PROVE  KnownInv(X)'
  <2>1. UNCHANGED <<file, failures, cleared, raced, overlap>>
    BY <1>4 DEF Show, Stop, bounds, history
  <2>2. pc'[p] \in {"banner", "idle", "new"}
    BY <1>4, DomainsHold DEF Show, Stop, Rest, Goto, Domains
  <2>3. Undisturbed' => Undisturbed /\ file' = file
    BY <2>1 DEF Undisturbed
  <2> QED BY <1>0, <1>4, <2>1, <2>2, <2>3, OthersSame, KnownAtLabel, KnownStep
<1>5. ASSUME NEW p \in Receivers, Construct(p) \/ ReceiverPull(p)
      PROVE  KnownInv(X)'
  <2>1. p \in Processes
    BY DEF Processes
  <2>2. UNCHANGED <<file, cleared, raced, overlap>>
    BY <1>5 DEF Construct, ReceiverPull, history
  <2>3. failures' = 0 => failures = 0
    BY <1>5, ReadIsFile DEF Construct, ReceiverPull, bounds
  <2>4. Undisturbed' => Undisturbed /\ file' = file
    BY <2>2, <2>3 DEF Undisturbed
  <2>5. pc'[p] \in {"idle", "load"}
    BY <1>5, <2>1, DomainsHold DEF Construct, ReceiverPull, Goto, Domains
  <2> QED BY <1>0, <1>5, <2>1, <2>2, <2>4, <2>5, OthersSame, KnownAtLabel, KnownStep
<1> QED
  BY <1>0, <1>1, <1>2, <1>3, <1>4, <1>5, KnownLoad, KnownPull, KnownOffer, KnownSaveMessages,
     KnownSaveSeen, KnownClear
  DEF Next, Cycle, Save, Processes

(* What the user has cleared does not come back, unless its ids were forgotten while a
   pull could still return it, a process had it in a snapshot, a read failed or two
   processes were at work; however often the worker is stopped, and although everything
   is pulled again after a clear.                                                       *)
THEOREM ClearedStaysClearedHolds == Spec => []ClearedStaysCleared
<1>1. KnownInv({}) => ClearedStaysCleared
  BY DEF KnownInv, FileSeen, Uncleared, Lost, ClearedStaysCleared, Undisturbed
<1>2. Init => TypeInv /\ PushedStamped /\ StaysInv /\ KnownInv({})
  BY TypeInit, PassInit, StaysInit, KnownInit DEF PassInv
<1>3. TypeInv /\ PushedStamped /\ StaysInv /\ KnownInv({}) /\ [Next]_vars
        => TypeInv' /\ PushedStamped' /\ StaysInv' /\ KnownInv({})'
  BY TypeNext, StampedNext, StaysNext, KnownNext DEF StaysInv
<1> QED BY <1>1, <1>2, <1>3, PTL DEF Spec
------------------------------------------------------------------------------
(***************************************************************************)
(* What was shown once is not shown again.                                 *)
(***************************************************************************)
(* Two messages have no id in common but forgotten ones. *)
Apart(m, n) == IdsOf(m) \cap IdsOf(n) \subseteq dropped

(* What is known of an id: it is a seen one, or gone. *)
Noted == Seen \cup Gone({})

(* What a process holds is of one cycle, in which no id was accepted twice. *)
HeldOnce(p) ==
  /\ pc[p] \in {"new", "idle", "pull", "load"} => accepted[p] = {}
  /\ \A m, n \in accepted[p] : m # n => Apart(m, n)

(* It is apart from what was shown and from what another process holds. *)
Unshown(p) ==
  /\ pc[p] \in {"labels", "banner"} => IdsIn(accepted[p]) \subseteq Noted
  /\ \A m \in accepted[p], n \in Messages : banners[n] > 0 => Apart(m, n)
  /\ \A q \in Processes \ {p} : \A m \in accepted[p], n \in accepted[q] : Apart(m, n)

(* What was shown is noted: it will be accepted no more. *)
ShownSeen == \A m \in Messages : banners[m] > 0 => IdsOf(m) \subseteq Noted

BannerInv ==
  /\ \A p \in Processes : HeldOnce(p)
  /\ Undisturbed => ShownSeen /\ BannerOnce /\ \A p \in Processes : Unshown(p)

LEMMA BannerInit == Init => BannerInv
<1> SUFFICES ASSUME Init PROVE BannerInv
  OBVIOUS
<1>1. \A p \in Processes : accepted[p] = {}
  BY DEF Init
<1>2. \A m \in Messages : banners[m] = 0
  BY DEF Init
<1>3. ShownSeen /\ BannerOnce
  BY <1>2 DEF ShownSeen, BannerOnce
<1>4. \A p \in Processes : HeldOnce(p)
  BY <1>1 DEF HeldOnce
<1>5. \A p \in Processes : Unshown(p)
  BY <1>1, <1>2 DEF Unshown, IdsIn
<1> QED BY <1>3, <1>4, <1>5 DEF BannerInv

LEMMA ApartGrows ==
  ASSUME Onward, NEW m, NEW n, Apart(m, n)
  PROVE  Apart(m, n)'
BY DEF Onward, Apart

LEMMA BannerOnceGrows ==
  ASSUME Onward, BannerOnce, Undisturbed, UNCHANGED banners
  PROVE  BannerOnce'
BY DEF Onward, BannerOnce, Undisturbed

LEMMA NotedGrows == ASSUME Onward, Seen \subseteq Seen' \cup Gone({})' PROVE Noted \subseteq Noted'
BY GoneGrows DEF Noted

(* A step that accepts and shows nothing, and forgets no seen id that counts. *)
LEMMA BannerKept ==
  ASSUME Onward, BannerInv, NEW p \in Processes,
         Undisturbed' => Undisturbed /\ Noted \subseteq Noted', UNCHANGED banners,
         \A q \in Processes \ {p} : pc'[q] = pc[q] /\ accepted'[q] = accepted[q],
         accepted'[p] \subseteq accepted[p], HeldOnce(p)',
         Undisturbed' /\ pc'[p] \in {"labels", "banner"} => IdsIn(accepted'[p]) \subseteq Noted'
  PROVE  BannerInv'
<1>1. \A q \in Processes : accepted'[q] \subseteq accepted[q]
  OBVIOUS
<1>2. \A q \in Processes : HeldOnce(q)'
  BY ApartGrows DEF BannerInv, HeldOnce
<1>3. ASSUME Undisturbed' PROVE ShownSeen' /\ BannerOnce'
  <2>1. BannerOnce'
    BY <1>3, BannerOnceGrows DEF BannerInv
  <2> QED BY <1>3, <2>1 DEF BannerInv, ShownSeen
<1>4. ASSUME Undisturbed', NEW q \in Processes PROVE Unshown(q)'
  <2>1. Unshown(q) /\ Noted \subseteq Noted'
    BY <1>4 DEF BannerInv
  <2>2. \A m \in accepted'[q], n \in Messages : banners'[n] > 0 => Apart(m, n)'
    BY <1>1, <2>1, ApartGrows DEF Unshown
  <2>3. \A k \in Processes \ {q} : \A m \in accepted'[q], n \in accepted'[k] : Apart(m, n)'
    BY <1>1, <2>1, ApartGrows DEF Unshown
  <2>4. pc'[q] \in {"labels", "banner"} => IdsIn(accepted'[q]) \subseteq Noted'
    BY <1>4, <2>1 DEF Unshown
  <2>5. IdsIn(accepted[q])' = IdsIn(accepted'[q])
    BY DEF IdsIn
  <2> QED BY <2>2, <2>3, <2>4, <2>5 DEF Unshown
<1> QED BY <1>2, <1>3, <1>4 DEF BannerInv

(* A process that rests holds nothing. *)
LEMMA BannerRest ==
  ASSUME TypeInv, Onward, BannerInv, NEW p \in Processes, NEW l \in {"new", "idle"}, Rest(p, l),
         Undisturbed' => Undisturbed /\ Noted \subseteq Noted', UNCHANGED banners,
         \A q \in Processes \ {p} : SameProcess(q)
  PROVE  BannerInv'
<1>1. pc'[p] = l /\ accepted'[p] = {}
  BY DomainsHold DEF Rest, Goto, Domains
<1>2. HeldOnce(p)'
  BY <1>1 DEF HeldOnce
<1> QED BY <1>1, <1>2, BannerKept DEF SameProcess

(* What is accepted is new to a ring that knows what was seen. *)
LEMMA BannerTake ==
  ASSUME TypeInv, Onward, BannerInv, OneSaver', NEW p \in Processes,
         NEW M \in SUBSET Records, NEW o \in RingOf(Ids), NEW batch \in Seq(Records),
         Take(p, M, o, batch), ToSet(batch) \subseteq MayCome,
         NEW ids, ids \subseteq Ids, Forgets(o, batch) \subseteq ids, Drop(ids),
         UNCHANGED banners, pc[p] \in {"idle", "pull", "load"},
         Undisturbed' => /\ Undisturbed /\ Seen' = Seen
                         /\ Seen \subseteq ToSet(o) \cup Gone({}) \cup ids,
         \A q \in Processes \ {p} : SameProcess(q)
  PROVE  BannerInv'
<1> DEFINE new == Accepted(o, batch)
<1>1. CASE Rest(p, "idle")
  BY <1>1, BannerRest, NotedGrows
<1>2. CASE ~Rest(p, "idle")
  <2>1. pc'[p] = "save" /\ accepted'[p] = new
    BY <1>2, DomainsHold DEF Take, Goto, Domains
  <2>2. /\ new \subseteq ToSet(batch)
        /\ IdsIn(new) \cap ToSet(o) \subseteq ids
        /\ \A m, n \in new : m # n => IdsOf(m) \cap IdsOf(n) \subseteq ids
    BY BatchIsRemembered
  <2> HIDE DEF new
  <2>3. \A m \in new : IdsOf(m) \cap (Gone({}) \cup ids) \subseteq dropped'
    <3>1. Lost({})' = dropped'
      BY DEF Lost
    <3> QED BY <2>2, <3>1, DroppedIsGone
  <2>4. \A m, n \in new : m # n => Apart(m, n)'
    BY <2>2, <2>3 DEF Apart
  <2>5. \A q \in Processes : HeldOnce(q)'
    BY <2>1, <2>4, ApartGrows DEF BannerInv, HeldOnce, SameProcess
  <2>6. ASSUME Undisturbed' PROVE ShownSeen' /\ BannerOnce' /\ Noted \subseteq Noted'
    <3>1. BannerOnce' /\ Noted \subseteq Noted'
      BY <2>6, BannerOnceGrows, NotedGrows DEF BannerInv
    <3> QED BY <2>6, <3>1 DEF BannerInv, ShownSeen
  <2>7. ASSUME Undisturbed', NEW m \in new, NEW n, IdsOf(n) \subseteq Noted
        PROVE  Apart(m, n)' /\ Apart(n, m)'
    <3>1. IdsOf(m) \cap ToSet(o) \subseteq ids
      BY <2>2 DEF IdsIn
    <3>2. IdsOf(m) \cap Noted \subseteq dropped'
      BY <2>3, <2>7, <3>1 DEF Noted
    <3> QED BY <2>7, <3>2 DEF Apart
  <2>8. ASSUME Undisturbed', NEW q \in Processes \ {p},
               NEW m \in new, NEW n \in accepted[q]
        PROVE  Apart(m, n)' /\ Apart(n, m)'
    <3>1. ~Saving(q) /\ pc[q] \in Labels
      BY <2>1, <2>8 DEF OneSaver, Saving, SameProcess, TypeInv, TypeOK, ProcessOK, Labels
    <3>2. pc[q] \in {"labels", "banner"}
      BY <2>8, <3>1 DEF BannerInv, HeldOnce, Saving, Labels
    <3>3. IdsOf(n) \subseteq Noted
      BY <2>8, <3>2 DEF BannerInv, Unshown, IdsIn
    <3> QED BY <2>7, <2>8, <3>3
  <2>9. ASSUME Undisturbed' PROVE Unshown(p)'
    <3>1. ASSUME NEW m \in new, NEW n \in Messages, banners'[n] > 0
          PROVE  Apart(m, n)'
      <4>1. IdsOf(n) \subseteq Noted
        BY <2>9, <3>1 DEF BannerInv, ShownSeen
      <4> QED BY <2>7, <2>9, <4>1
    <3> QED BY <2>1, <2>8, <2>9, <3>1 DEF Unshown, SameProcess
  <2>10. ASSUME Undisturbed', NEW q \in Processes \ {p} PROVE Unshown(q)'
    <3>1. Unshown(q) /\ SameProcess(q) /\ Noted \subseteq Noted'
      BY <2>6, <2>10 DEF BannerInv
    <3>2. ASSUME NEW k \in Processes \ {q}, NEW m \in accepted[q], NEW n \in accepted'[k]
          PROVE  Apart(m, n)'
      <4>1. CASE k = p
        BY <2>1, <2>8, <2>10, <3>2, <4>1
      <4>2. CASE k # p
        BY <3>1, <3>2, <4>2, ApartGrows DEF Unshown, SameProcess
      <4> QED BY <4>1, <4>2
    <3>3. pc'[q] = pc[q] /\ accepted'[q] = accepted[q]
      BY <3>1 DEF SameProcess
    <3>4. \A m \in accepted'[q], n \in Messages : banners'[n] > 0 => Apart(m, n)'
      BY <3>1, <3>3, ApartGrows DEF Unshown
    <3>5. pc'[q] \in {"labels", "banner"} => IdsIn(accepted'[q]) \subseteq Noted'
      BY <3>1, <3>3 DEF Unshown
    <3>6. IdsIn(accepted[q])' = IdsIn(accepted'[q])
      BY DEF IdsIn
    <3> QED BY <3>2, <3>3, <3>4, <3>5, <3>6 DEF Unshown
  <2> QED BY <2>5, <2>6, <2>9, <2>10 DEF BannerInv
<1> QED BY <1>1, <1>2

LEMMA BannerShow ==
  ASSUME TypeInv, Onward, BannerInv, NEW p \in Processes, Show(p)
  PROVE  BannerInv'
<1>1. PICK m \in accepted[p] :
        /\ banners' = [banners EXCEPT ![m] = @ + 1]
        /\ IF accepted[p] = {m}
           THEN Rest(p, "idle")
           ELSE /\ accepted' = [accepted EXCEPT ![p] = @ \ {m}]
                /\ UNCHANGED <<pc, snap, ring>>
  BY DEF Show
<1>2. pc[p] = "banner" /\ UNCHANGED <<file, failures, overlap>>
  BY DEF Show, bounds
<1>3. /\ accepted'[p] = accepted[p] \ {m}
      /\ pc'[p] = "banner" \/ accepted'[p] = {}
  BY <1>1, <1>2, DomainsHold DEF Rest, Goto, Domains
<1>4. \A q \in Processes \ {p} : pc'[q] = pc[q] /\ accepted'[q] = accepted[q]
  BY OthersSame DEF SameProcess
<1>5. banners \in [Messages -> Nat]
  BY DEF TypeInv, TypeOK, HistoryOK
<1>6. \A n \in Messages : n # m => banners'[n] = banners[n]
  BY <1>1, <1>5
<1>7. \A k, n : Apart(k, n)' <=> Apart(n, k)'
  BY DEF Apart
<1>8. \A q \in Processes : HeldOnce(q)'
  <2>1. HeldOnce(p)'
    BY <1>2, <1>3, ApartGrows DEF BannerInv, HeldOnce
  <2>2. \A q \in Processes \ {p} : HeldOnce(q)'
    BY <1>4, ApartGrows DEF BannerInv, HeldOnce
  <2> QED BY <2>1, <2>2
<1>9. ASSUME Undisturbed' PROVE ShownSeen' /\ BannerOnce' /\ \A q \in Processes : Unshown(q)'
  <2>1. /\ ShownSeen /\ BannerOnce /\ \A q \in Processes : Unshown(q)
        /\ Undisturbed /\ Noted \subseteq Noted'
    BY <1>2, <1>9, NotedGrows DEF BannerInv, Undisturbed, Seen
  <2>2. IdsOf(m) \subseteq Noted'
    BY <1>2, <2>1 DEF Unshown, IdsIn
  <2>3. ShownSeen'
    BY <1>6, <2>1, <2>2 DEF ShownSeen
  <2>4. \A n \in Messages : banners[n] > 0 => Apart(m, n)' /\ Apart(n, m)'
    BY <1>7, <2>1, ApartGrows DEF Unshown
  <2>5. \A n \in Messages : banners[n] \in Nat /\ (banners'[n] = banners[n] + 1 \/ n # m)
    BY <1>1, <1>5
  <2>6. ASSUME NEW k \in Messages, NEW n \in Messages,
               IF k = n THEN banners'[k] > 1 ELSE banners'[k] > 0 /\ banners'[n] > 0
        PROVE  Apart(k, n)'
    <3>1. CASE k = m
      <4>1. banners[n] > 0
        BY <1>6, <2>5, <2>6, <3>1
      <4> QED BY <2>4, <3>1, <4>1
    <3>2. CASE k # m /\ n = m
      <4>1. banners[k] > 0
        BY <1>6, <2>6, <3>2
      <4> QED BY <2>4, <3>2, <4>1
    <3>3. CASE k # m /\ n # m
      <4>1. Apart(k, n)
        BY <1>6, <2>1, <2>6, <3>3 DEF BannerOnce, Apart, Undisturbed
      <4> QED BY <4>1, ApartGrows
    <3> QED BY <3>1, <3>2, <3>3
  <2>7. BannerOnce'
    BY <2>6 DEF BannerOnce, Apart
  <2>8. ASSUME NEW q \in Processes, NEW k \in accepted'[q]
        PROVE  /\ k \in accepted[q]
               /\ Apart(k, m)'
    <3>1. CASE q = p
      BY <1>3, <2>8, <3>1, ApartGrows DEF BannerInv, HeldOnce
    <3>2. CASE q # p
      BY <1>4, <2>1, <2>8, <3>2, ApartGrows DEF Unshown
    <3> QED BY <3>1, <3>2
  <2>9. ASSUME NEW q \in Processes PROVE Unshown(q)'
    <3>1. \A k \in accepted'[q], n \in Messages : banners'[n] > 0 => Apart(k, n)'
      BY <1>6, <2>1, <2>8, ApartGrows DEF Unshown
    <3>2. \A j \in Processes \ {q} : \A k \in accepted'[q], n \in accepted'[j] : Apart(k, n)'
      BY <2>1, <2>8, ApartGrows DEF Unshown
    <3>3. IdsIn(accepted'[q]) \subseteq IdsIn(accepted[q])
      BY <2>8 DEF IdsIn
    <3>4. pc'[q] \in {"labels", "banner"} => IdsIn(accepted'[q]) \subseteq Noted'
      <4>1. CASE q = p
        BY <1>2, <2>1, <3>3, <4>1 DEF Unshown
      <4>2. CASE q # p
        BY <1>4, <2>1, <3>3, <4>2 DEF Unshown
      <4> QED BY <4>1, <4>2
    <3>5. IdsIn(accepted[q])' = IdsIn(accepted'[q])
      BY DEF IdsIn
    <3> QED BY <3>1, <3>2, <3>4, <3>5 DEF Unshown
  <2> QED BY <2>3, <2>7, <2>9
<1> QED BY <1>8, <1>9 DEF BannerInv

(* A process takes up a batch, pulled just now or before. *)
LEMMA BannerOffer ==
  ASSUME TypeInv, Onward, Fields, KnownInv({}), BannerInv, OneSaver', NEW p \in Processes,
         \/ p \in Workers /\ (Pull(p) \/ \E i \in Injects : Inject(p, i))
         \/ p \in Receivers /\ ReceiverLoad(p)
  PROVE  BannerInv'
<1>1. UNCHANGED <<file, banners>> /\ pc[p] \in {"idle", "pull", "load"}
  BY DEF Pull, Inject, ReceiverLoad
<1>2. \A q \in Processes \ {p} : SameProcess(q)
  BY OthersSame
<1>3. CASE Pull(p)
  <2>1. PICK M, o, batch : M = snap[p] /\ o = ring[p] /\ batch = Answer(Since(p))
    OBVIOUS
  <2>2. /\ Take(p, M, o, batch) /\ pc[p] = "pull" /\ Drop(Forgets(o, batch))
        /\ UNCHANGED <<failures, overlap>>
    BY <1>3, <2>1 DEF Pull, bounds
  <2>3. M \in SUBSET Records /\ o \in RingOf(Ids) /\ batch \in Seq(Records)
    BY <2>1, AnswerOK DEF Records, TypeInv, TypeOK, ProcessOK
  <2>4. Undisturbed' => Undisturbed /\ Seen' = Seen /\ Seen \subseteq ToSet(o) \cup Gone({})
    BY <1>1, <2>1, <2>2 DEF Undisturbed, KnownInv, HandSeen, Saving, Seen
  <2>5. ToSet(batch) \subseteq MayCome
    BY <2>1, PulledMayCome
  <2>6. Forgets(o, batch) \subseteq Ids
    BY <2>3, BatchIsRemembered
  <2> QED BY <1>1, <1>2, <2>2, <2>3, <2>4, <2>5, <2>6, BannerTake
<1>4. CASE ~Pull(p)
  <2>1. PICK batch \in Seq(Records), r \in Readable :
          /\ Read(r) /\ Take(p, r.messages, Seeded(r), batch)
          /\ ToSet(batch) \subseteq MayCome
          /\ Drop(SeedingForgets(r) \cup Forgets(Seeded(r), batch))
    BY <1>4, OfferedMayCome
  <2>2. NoteOverlap(p)
    BY <1>4 DEF ReceiverLoad, Inject
  <2>3. PICK M, o, ids : /\ M = r.messages /\ o = Seeded(r)
                         /\ ids = SeedingForgets(r) \cup Forgets(Seeded(r), batch)
    OBVIOUS
  <2>4. M \in SUBSET Records /\ o \in RingOf(Ids)
    BY <2>3, ReadableOK
  <2>5. Forgets(o, batch) \subseteq Ids
    BY <2>4, BatchIsRemembered
  <2>6. ids \subseteq Ids /\ (Undisturbed' => Undisturbed /\ Seen \subseteq ToSet(o) \cup ids)
    <3>1. /\ SeedingForgets(r) \subseteq Ids
          /\ Undisturbed' => Undisturbed /\ Seen \subseteq ToSet(Seeded(r)) \cup SeedingForgets(r)
      BY <2>1, <2>2, ReadSeen
    <3> QED BY <2>3, <2>5, <3>1
  <2>7. Undisturbed' => /\ Undisturbed /\ Seen' = Seen
                        /\ Seen \subseteq ToSet(o) \cup Gone({}) \cup ids
    BY <1>1, <2>6 DEF Seen
  <2>8. Take(p, M, o, batch) /\ Forgets(o, batch) \subseteq ids /\ Drop(ids)
    BY <2>1, <2>3
  <2> QED BY <1>1, <1>2, <2>1, <2>4, <2>6, <2>7, <2>8, BannerTake
<1> QED BY <1>3, <1>4

(* The transactions at the end of a cycle keep what was noted. *)
LEMMA BannerSave ==
  ASSUME TypeInv, Onward, Fields, KnownInv({}), BannerInv, NEW p \in Processes, Save(p)
  PROVE  BannerInv'
<1>1. \A q \in Processes \ {p} : SameProcess(q)
  BY OthersSame
<1>2. UNCHANGED <<banners, overlap>>
  BY DEF Save, SaveMessages, SaveSeenMessageIds, SaveKnownLabels, history
<1>3. CASE SaveMessages(p)
  <2>1. PICK r \in Readable, kept \in Trims(Merge(p)) :
          /\ Read(r) /\ Drop(Forgets(r.seen, InOrder(kept)))
          /\ file' = [messages |-> kept, seen |-> RememberAll(r.seen, InOrder(kept))]
    BY <1>3 DEF SaveMessages
  <2>2. kept \subseteq Records
    BY DEF Trims, Merge, TypeInv, TypeOK, ProcessOK
  <2>3. PICK o, F : o = RememberAll(r.seen, InOrder(kept)) /\ F = Forgets(r.seen, InOrder(kept))
    OBVIOUS
  <2>4. ToSet(r.seen) \subseteq ToSet(o) \cup F /\ F \subseteq Ids
    BY <2>2, <2>3, ReadableOK, SortedIsRemembered DEF TypeInv, TypeOK
  <2>5. F \subseteq Gone({})'
    BY <2>1, <2>3, <2>4, DroppedIsGone
  <2>6. Undisturbed' => Undisturbed /\ Noted \subseteq Noted'
    <3>1. Seen' = ToSet(o)
      BY <2>1, <2>3 DEF Seen
    <3>2. Undisturbed' => Undisturbed /\ r = file
      BY <1>2, <2>1, ReadIsFile DEF Undisturbed
    <3>3. Undisturbed' => Seen \subseteq Seen' \cup Gone({})'
      BY <2>4, <2>5, <3>1, <3>2 DEF Seen
    <3> QED BY <3>2, <3>3, NotedGrows
  <2>7. pc[p] = "save" /\ pc'[p] = "saveIds" /\ accepted'[p] = accepted[p]
    BY <1>3, DomainsHold DEF SaveMessages, Goto, Domains
  <2>8. HeldOnce(p)'
    BY <2>7, ApartGrows DEF BannerInv, HeldOnce
  <2> QED BY <1>1, <1>2, <2>6, <2>7, <2>8, BannerKept DEF SameProcess
<1>4. CASE SaveSeenMessageIds(p)
  <2>1. PICK r \in Readable : Read(r) /\ file' = [r EXCEPT !.seen = ring[p]]
    BY <1>4 DEF SaveSeenMessageIds
  <2>2. Undisturbed' => Undisturbed
    BY <1>2, <2>1, ReadIsFile DEF Undisturbed
  <2>3. Seen' = ToSet(ring[p])
    BY <2>1, ReadIsFile, OtherField DEF Seen
  <2>4. pc[p] = "saveIds" /\ pc'[p] = "labels" /\ accepted'[p] = accepted[p]
    BY <1>4, DomainsHold DEF SaveSeenMessageIds, Goto, Domains
  <2>5. Gone({}) \subseteq Gone({})'
    BY GoneGrows
  <2>6. /\ Undisturbed' => Seen \subseteq Seen' \cup Gone({})'
        /\ IdsIn(accepted'[p]) \subseteq Noted'
    BY <2>2, <2>3, <2>4, <2>5 DEF KnownInv, HandSeen, RingCovers, Saving, Noted
  <2>7. Undisturbed' => Undisturbed /\ Noted \subseteq Noted'
    BY <2>2, <2>6, NotedGrows
  <2>8. HeldOnce(p)'
    BY <2>4, ApartGrows DEF BannerInv, HeldOnce
  <2> QED BY <1>1, <1>2, <2>4, <2>6, <2>7, <2>8, BannerKept DEF SameProcess
<1>5. CASE SaveKnownLabels(p)
  <2>1. PICK r \in Readable : Read(r) /\ file' = r
    BY <1>5 DEF SaveKnownLabels
  <2>2. Undisturbed' => Undisturbed /\ Noted \subseteq Noted'
    BY <1>2, <2>1, ReadIsFile, NotedGrows DEF Undisturbed, Seen
  <2>3. CASE Rest(p, "idle")
    BY <1>1, <1>2, <2>2, <2>3, BannerRest
  <2>4. CASE ~Rest(p, "idle")
    <3>1. pc[p] = "labels" /\ pc'[p] = "banner" /\ accepted'[p] = accepted[p]
      BY <1>5, <2>4, DomainsHold DEF SaveKnownLabels, Goto, Domains
    <3>2. HeldOnce(p)'
      BY <3>1, ApartGrows DEF BannerInv, HeldOnce
    <3>3. Undisturbed' => IdsIn(accepted'[p]) \subseteq Noted'
      BY <2>2, <3>1 DEF BannerInv, Unshown
    <3> QED BY <1>1, <1>2, <2>2, <3>1, <3>2, <3>3, BannerKept DEF SameProcess
  <2> QED BY <2>3, <2>4
<1> QED BY <1>3, <1>4, <1>5 DEF Save

(* A step that leaves alone what the processes hold and the seen ids. *)
LEMMA BannerFrame ==
  ASSUME Onward, BannerInv, Undisturbed' => Undisturbed /\ Seen' = Seen,
         UNCHANGED <<pc, accepted, banners>>
  PROVE  BannerInv'
<1>1. \A q \in Processes : HeldOnce(q)'
  BY ApartGrows DEF BannerInv, HeldOnce
<1>2. ASSUME Undisturbed' PROVE ShownSeen' /\ BannerOnce' /\ \A q \in Processes : Unshown(q)'
  <2>1. /\ ShownSeen /\ BannerOnce /\ \A q \in Processes : Unshown(q)
        /\ Noted \subseteq Noted' /\ Undisturbed
    BY <1>2, NotedGrows DEF BannerInv
  <2>2. ShownSeen' /\ BannerOnce'
    BY <1>2, <2>1, BannerOnceGrows DEF ShownSeen
  <2>3. ASSUME NEW q \in Processes PROVE Unshown(q)'
    <3>1. /\ \A m \in accepted'[q], n \in Messages : banners'[n] > 0 => Apart(m, n)'
          /\ \A k \in Processes \ {q} : \A m \in accepted'[q], n \in accepted'[k] : Apart(m, n)'
      BY <2>1, ApartGrows DEF Unshown
    <3>2. pc'[q] \in {"labels", "banner"} => IdsIn(accepted[q])' \subseteq Noted'
      BY <2>1 DEF Unshown, IdsIn
    <3> QED BY <3>1, <3>2 DEF Unshown
  <2> QED BY <2>2, <2>3
<1> QED BY <1>1, <1>2 DEF BannerInv

LEMMA BannerNext ==
  ASSUME TypeInv, PushedStamped, Fields, KnownInv({}), BannerInv, OneSaver', [Next]_vars
  PROVE  BannerInv'
<1>0. Onward
  BY NextOnward
<1>1. CASE UNCHANGED vars \/ Tick \/ \E m \in Messages : Stamp(m) \/ Push(m)
  <2>1. UNCHANGED <<pc, accepted, banners, overlap, failures, file>>
    BY <1>1 DEF Tick, Stamp, Push, vars, process, bounds, history
  <2> QED BY <1>0, <2>1, BannerFrame DEF Undisturbed, Seen
<1>2. CASE ClearMessages \/ SaveFilter
  <2>1. PICK r \in Readable : Read(r) /\ (file' = r \/ file' = [r EXCEPT !.messages = {}])
    BY <1>2 DEF ClearMessages, SaveFilter
  <2>2. UNCHANGED <<pc, accepted, banners, overlap>>
    BY <1>2 DEF ClearMessages, SaveFilter, process, history
  <2>3. Seen' = ToSet(r.seen)
    BY <2>1, ReadIsFile, OtherField DEF Seen
  <2>4. Undisturbed' => Undisturbed /\ Seen' = Seen
    BY <2>1, <2>2, <2>3, ReadIsFile DEF Undisturbed, Seen
  <2> QED BY <1>0, <2>2, <2>4, BannerFrame
<1>3. ASSUME NEW p \in Processes, Stop(p)
      PROVE  BannerInv'
  <2>1. UNCHANGED <<file, failures, overlap, banners>>
    BY <1>3 DEF Stop, history
  <2>2. PICK l \in {"new", "idle"} : Rest(p, l)
    BY <1>3 DEF Stop
  <2>3. Undisturbed' => Undisturbed /\ Noted \subseteq Noted'
    BY <1>0, <2>1, NotedGrows DEF Undisturbed, Seen
  <2>4. \A q \in Processes \ {p} : SameProcess(q)
    BY <1>3, OthersSame
  <2> QED BY <1>0, <2>1, <2>2, <2>3, <2>4, BannerRest
<1>4. ASSUME NEW p \in Processes,
             \/ p \in Workers /\ Load(p)
             \/ p \in Receivers /\ (Construct(p) \/ ReceiverPull(p))
      PROVE  BannerInv'
  <2>1. UNCHANGED <<file, banners>> /\ pc[p] \in {"idle", "new"}
    BY <1>4 DEF Load, Construct, ReceiverPull, history
  <2>2. failures' = 0 => failures = 0
    BY <1>4, ReadIsFile DEF Load, Construct, ReceiverPull, bounds
  <2>3. ~overlap' => ~overlap
    BY <1>4 DEF Load, Construct, ReceiverPull, NoteOverlap, history
  <2>4. Undisturbed' => Undisturbed /\ Noted \subseteq Noted'
    BY <1>0, <2>1, <2>2, <2>3, NotedGrows DEF Undisturbed, Seen
  <2>5. \A q \in Processes \ {p} : SameProcess(q)
    BY <1>4, OthersSame
  <2>6. pc'[p] \in {"pull", "idle", "load"} /\ accepted'[p] = accepted[p]
    BY <1>4, DomainsHold DEF Load, Construct, ReceiverPull, Goto, Domains
  <2>7. accepted[p] = {}
    BY <2>1 DEF BannerInv, HeldOnce
  <2>8. HeldOnce(p)'
    BY <2>6, <2>7 DEF HeldOnce
  <2> QED BY <1>0, <2>1, <2>4, <2>5, <2>6, <2>8, BannerKept DEF SameProcess
<1> QED
  BY <1>0, <1>1, <1>2, <1>3, <1>4, BannerOffer, BannerSave, BannerShow
  DEF Next, Cycle, Processes

(* However often a cycle is cut short or the history is cleared, and whatever the rings
   forget of what is out of the reach of a pull, two banners share only ids that were
   forgotten within it, as long as every read succeeds and no two processes are at work
   on the history.                                                                      *)
THEOREM BannerOnceHolds == Spec => []BannerOnce
<1> DEFINE Inv == TypeInv /\ PushedStamped /\ StaysInv /\ KnownInv({}) /\ BannerInv
<1>1. Inv => BannerOnce
  BY DEF BannerInv, BannerOnce, Undisturbed
<1>2. Init => Inv
  BY TypeInit, PassInit, StaysInit, KnownInit, BannerInit DEF PassInv
<1>3. Inv /\ [Next]_vars => Inv'
  BY TypeNext, StampedNext, StaysNext, KnownNext, BannerNext DEF StaysInv
<1> QED BY <1>1, <1>2, <1>3, PTL DEF Spec
==============================================================================
