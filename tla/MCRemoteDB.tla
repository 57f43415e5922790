----------------------------- MODULE MCRemoteDB -----------------------------
(* Model-checking instances of RemoteDB. *)
EXTENDS RemoteDB

CONSTANTS c1

(* c1 writes batches while another client reads and writes. *)
BatchAgainstOthers ==
  [c \in Client |-> IF c = c1 THEN {"init", "batch", "badvalue", "lossy"}
                    ELSE {"get", "has", "write", "badkey"}]

(* Values of every kind but the empty one. *)
ValuesAndNil == Value \cup {nil}
=============================================================================
