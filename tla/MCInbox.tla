------------------------------- MODULE MCInbox -------------------------------
(* Small instances of Inbox for TLC: messages with an id and without, and one whose
   sender repeated the content of the first.                                       *)
EXTENDS Inbox

CONSTANT NoId

First    == [id |-> "id1", hash |-> "hash1"]
Plain    == [id |-> NoId,  hash |-> "hash2"]
Repeated == [id |-> "id3", hash |-> "hash1"]
Other    == [id |-> "id4", hash |-> "hash4"]
Test     == [id |-> "test1", hash |-> "hash5"]

TwoMessages   == {First, Plain}
WithRepeat    == {First, Repeated, Other}
Tests         == {Test}
==============================================================================
