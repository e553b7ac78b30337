------------------------- MODULE MCNotificationServer -------------------------
(* Small instances of NotificationServer for TLC. *)
EXTENDS NotificationServer, TLC

Symmetry == UNION {Permutations(S) : S \in {Posts, Pulls, Polls}}

(* Of two states that differ in the names of ids or clients one is enough. *)
OneNaming ==
  LET mostly(f, S) ==
        \A v \in S : Cardinality({x \in DOMAIN f : f[x] = v})
                       <= Cardinality({x \in DOMAIN f : f[x] = CHOOSE w \in S : TRUE})
  IN mostly(client, Clients) /\ mostly(msgId, MsgIds \ {NoId})

(* Ids come twice or not at all. *)
Repeated == \/ \A p \in Posts : msgId[p] = NoId
            \/ \E m \in MsgIds \ {NoId} : Cardinality({p \in Posts : msgId[p] = m}) = 2

(* Either posts and a pull without polls, or two posts of no id and polls
   without a pull at one instant, with one fault: all together is too much. *)
PullsOrPolls ==
  /\ OneNaming
  /\ wipes + failures <= 1
  /\ \/ /\ Repeated
        /\ \A q \in Polls : lpc[q] = "idle"
        /\ \A q, r \in Polls : client[q] = client[r]
     \/ /\ now = 0
        /\ \A g \in Pulls : gpc[g] = "idle"
        /\ \A p \in Posts : msgId[p] = NoId
        /\ \E p \in Posts : ppc[p] = "idle"
==============================================================================
