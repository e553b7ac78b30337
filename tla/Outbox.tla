-------------------------------- MODULE Outbox --------------------------------
(***************************************************************************)
(* What the notification queue promises to a hook script: an item it       *)
(* accepted stays outstanding until it was delivered at least once or was  *)
(* given up on.                                                            *)
(***************************************************************************)
CONSTANT Items

VARIABLES
  accepted,     (* every item ever accepted                                *)
  outstanding,  (* the items still to be delivered                         *)
  delivered,    (* the items the sender has acknowledged                   *)
  expired       (* the items given up on                                   *)

vars == <<accepted, outstanding, delivered, expired>>

Init ==
  /\ accepted = {}
  /\ outstanding = {}
  /\ delivered = {}
  /\ expired = {}

Accept(i) ==
  /\ i \notin accepted
  /\ accepted' = accepted \cup {i}
  /\ outstanding' = outstanding \cup {i}
  /\ UNCHANGED <<delivered, expired>>

Deliver(i) ==
  /\ i \in outstanding
  /\ delivered' = delivered \cup {i}
  /\ UNCHANGED <<accepted, outstanding, expired>>

Expire(i) ==
  /\ i \in outstanding
  /\ expired' = expired \cup {i}
  /\ UNCHANGED <<accepted, outstanding, delivered>>

Retire(i) ==
  /\ i \in outstanding
  /\ i \in delivered \cup expired
  /\ outstanding' = outstanding \ {i}
  /\ UNCHANGED <<accepted, delivered, expired>>

Next == \E i \in Items : Accept(i) \/ Deliver(i) \/ Expire(i) \/ Retire(i)

Spec == Init /\ [][Next]_vars
===============================================================================
