------------------------------- MODULE SeenIds -------------------------------
(***************************************************************************)
(* Which messages were seen before: the identifiers of a message and the   *)
(* ring that remembers the last Capacity of them, oldest first             *)
(* (RemoteNotificationSeenIdRing.cs; the history store keeps the same ring *)
(* as a list, StoreRemember).  A message is told apart by its identifiers  *)
(* alone: [id |-> ..., hash |-> ...], the id given by the sender or the    *)
(* server, or Blank, and the SHA-1 of its channel, text, icon and time.    *)
(***************************************************************************)
EXTENDS Integers, Sequences, SequencesExt

CONSTANTS
  Capacity,   (* how many ids are remembered: MaximumSeenMessageIds       *)
  Blank       (* no id                                                    *)

ASSUME CapacityAssumption == Capacity \in Nat \ {0}

FallbackId(m) == m.hash
StableId(m) == IF m.id = Blank THEN FallbackId(m) ELSE m.id
IdsOf(m) == {StableId(m), FallbackId(m)}

(* Variant: the oldest id goes one too late. *)
RememberOneMore(order, id) ==
  IF id \in ToSet(order)
  THEN order
  ELSE Append(IF Len(order) > Capacity THEN Tail(order) ELSE order, id)

(* RemoteNotificationSeenIdRing.Remember: a known id keeps its place. *)
Remember(order, id) ==
  IF id \in ToSet(order)
  THEN order
  ELSE Append(IF Len(order) = Capacity THEN Tail(order) ELSE order, id)

(* RemoteNotificationsLegacyStore.Remember: append, then cut at the front. *)
StoreRemember(order, id) ==
  IF id \in ToSet(order)
  THEN order
  ELSE LET longer == Append(order, id)
       IN  IF Len(longer) > Capacity
           THEN SubSeq(longer, Len(longer) - Capacity + 1, Len(longer))
           ELSE longer

RememberIds(order, m) == Remember(Remember(order, StableId(m)), FallbackId(m))

(* The ids of the messages of a sequence, remembered in its order. *)
RememberAll(order, ms) == FoldLeft(RememberIds, order, ms)

Duplicate(order, m) == IdsOf(m) \cap ToSet(order) # {}

(* The ids a ring forgets over a batch, if only until a later message brings them. *)
Forgets(order, ms) ==
  UNION {(ToSet(RememberAll(order, SubSeq(ms, 1, i - 1))) \cup IdsOf(ms[i]))
           \ ToSet(RememberAll(order, SubSeq(ms, 1, i))) : i \in DOMAIN ms}

(* What TryAccept accepts of a batch: it refuses a message that has an id of the
   ring or of a message before it, and remembers the ids of all, refused or not.  *)
Accepted(order, batch) ==
  {batch[i] : i \in {j \in DOMAIN batch :
     ~Duplicate(RememberAll(order, SubSeq(batch, 1, j - 1)), batch[j])}}

(* The ring: bounded, and no id twice. *)
RingOf(S) == {order \in Seq(S) : Len(order) <= Capacity /\ IsInjective(order)}
==============================================================================
