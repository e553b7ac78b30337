------------------------- MODULE MCNotificationQueue -------------------------
(* Small instances of NotificationQueue for TLC. *)
EXTENDS NotificationQueue, TLC

Symmetry == Permutations(Procs) \cup Permutations(Contents)
==============================================================================
