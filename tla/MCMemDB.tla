------------------------------ MODULE MCMemDB ------------------------------
(* Model-checking instances of MemDB. *)
EXTENDS MemDB, TLC

FullForward == {[start |-> nil, end |-> nil, reverse |-> FALSE, useMtx |-> TRUE]}

(* A domain that leaves out the last key. *)
Partial == {[start |-> nil, end |-> 4, reverse |-> FALSE, useMtx |-> TRUE]}

(* Full traversals without the lock and with it, and a reverse one that starts *)
(* next to the key at its end.                                                 *)
WithUnlocked ==
  {[start |-> nil, end |-> nil, reverse |-> FALSE, useMtx |-> m] : m \in BOOLEAN}
    \cup {[start |-> nil, end |-> 2, reverse |-> TRUE, useMtx |-> TRUE]}

(* Who calls what.  The first client is c1. *)
CONSTANTS c1

Writes == {"set", "delete"}

BatchAgainstReads ==
  [c \in Client |-> IF c = c1 THEN {"batch", "invalid"} ELSE {"get", "iterate"}]

WriteAgainstItems ==
  [c \in Client |-> IF c = c1 THEN Writes ELSE {"iterate", "item"}]

WriteAgainstHas ==
  [c \in Client |-> IF c = c1 THEN Writes ELSE {"has", "iterate"}]

SetAgainstGet ==
  [c \in Client |-> IF c = c1 THEN {"set"} ELSE {"get", "iterate"}]
=============================================================================
