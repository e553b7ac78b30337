--------------------------- MODULE MCCommandStream ---------------------------
(* A small instance of CommandStream for TLC. *)
EXTENDS CommandStream

(* Any line of stdout is too long, none of stderr is. *)
KeptLines == [p \in Pumps |-> IF p = "stdout" THEN 0 ELSE 9]
Lines     == [p \in Pumps |-> IF p = "stdout" THEN 1 ELSE 2]

(* How much comes between: clients that leave, writes to them that fail, cancel
   requests, calls with the same id.  None of it is under fairness.            *)
Disturbances ==
  Cardinality({c \in Shell : gone[c]}) + faults
  + Cardinality({k \in Requests : request[k] # "idle"})
  + Cardinality({c \in Calls \ Shell : rpc[c] # "idle"})

(* The more a command writes the less of it. *)
FewDisturbances ==
  \A c \in Shell : LET written == lines[c]["stdout"] + lines[c]["stderr"]
                   IN Disturbances <= CASE written = 0 -> 2 [] written \in {1, 2} -> 1 [] OTHER -> 0
==============================================================================
