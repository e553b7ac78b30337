---------------------------- MODULE MCActivation ----------------------------
(* A small instance of Activation for TLC: a plain start, and clicks on the banners
   of two messages, one of them twice.                                             *)
EXTENDS Activation, TLC

CONSTANTS l1, l2, l3, l4, m1, m2

Requested == (l1 :> Nothing) @@ (l2 :> m1) @@ (l3 :> m1) @@ (l4 :> m2)
==============================================================================
