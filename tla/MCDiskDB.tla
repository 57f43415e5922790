------------------------------ MODULE MCDiskDB ------------------------------
(* Model-checking instances of DiskDB. *)
EXTENDS DiskDB

CONSTANTS c1

(* c1 writes batches, or reads, while another client writes; or it iterates  *)
(* and writes.                                                               *)
Batches == [c \in Client |-> IF c = c1 THEN {"batch", "invalid"} ELSE {"write"}]
Reads == [c \in Client |-> IF c = c1 THEN {"read", "invalid"} ELSE {"write"}]
Iterators == [c \in Client |-> IF c = c1 THEN {"iterate", "write"} ELSE {}]
AllPrograms == {Batches, Reads, Iterators}

(* A new database; it is opened with any content after a crash. *)
Empty == {NoContent}

(* End points below, on and above stored keys, and one that is refused. *)
SomeQueries ==
  [start: {nil, 2}, end: {nil, 1, 2}, reverse: BOOLEAN]
    \cup {[start |-> EmptyKey, end |-> nil, reverse |-> FALSE]}
=============================================================================
