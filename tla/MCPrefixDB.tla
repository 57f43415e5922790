----------------------------- MODULE MCPrefixDB -----------------------------
(* Model-checking instances of PrefixDB, with three byte values. *)
EXTENDS PrefixDB, TLC

CONSTANTS c1, c2

ASSUME NamespacesAreSeparated == Separated

(* Batches against reads and writes; iterators; and one after the other. *)
BatchAgainstOthers == c1 :> {"batch"} @@ c2 :> {"read", "write"}
OnlyIterators == c1 :> {"iterate"} @@ c2 :> {"iterate"}
CallsOrIterators == {BatchAgainstOthers, OnlyIterators}
JustIterators == {OnlyIterators}

TwoKeys == {<<0>>, <<2>>}

(* Two prefixes that do not extend each other, next to each other.           *)
(* c1: 1 FF, where cpIncr gives 2 0, and the key 2 lies in between.          *)
(* c2: 1 1, where cpIncr increments the last byte, and gives 1 FF.           *)
(* The parent also holds the first prefix itself, and the key 2.             *)
CarryAndPlain == c1 :> <<1, 2>> @@ c2 :> <<1, 1>>
AroundBoth == {<<1, 2>>, <<2>>}

(* Both kinds of end points, and an empty one, which is refused. *)
Ends == {nil, <<2>>}
AllQueries ==
  [start: Ends, end: Ends, reverse: BOOLEAN]
    \cup {[start |-> EmptyKey, end |-> nil, reverse |-> FALSE]}
Anything == [c \in Client |-> AllQueries]

(* All but the reverse iterators from the end of the prefix with the carry. *)
WithoutCarryFromNil ==
  [c \in Client |-> {q \in AllQueries : c = c1 => ~(q.reverse /\ q.end = nil)}]
=============================================================================
