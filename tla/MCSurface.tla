------------------------------ MODULE MCSurface ------------------------------
(* A small instance of Surface for TLC. *)
EXTENDS Surface

CONSTANT NoId

First    == [id |-> "id1", hash |-> "hash1"]
Plain    == [id |-> NoId,  hash |-> "hash2"]
Repeated == [id |-> "id3", hash |-> "hash1"]
Other    == [id |-> "id4", hash |-> "hash4"]
Test     == [id |-> "test1", hash |-> "hash5"]

AllMessages == {First, Plain, Repeated, Other}
Tests       == {Test}

(* The page alone fills the history, or meets an id again; an event may name messages
   that share one; worker and receiver have a message each, or a test message.        *)
PostedIn ==
  [service |-> {{First, Plain}, {First, Test}}, writers |-> {{First, Plain}, {First, Test}},
   own |-> {{First, Plain, Other}, {First, Repeated}}, events |-> {{First, Plain, Repeated}}]
==============================================================================
