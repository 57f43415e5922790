-------------------------- MODULE MCRemoteStreams --------------------------
(* Model-checking instances of RemoteStreams. *)
EXTENDS RemoteStreams

(* Unbounded in both directions, and with an end point that is stored. *)
SomeQueries ==
  {[start |-> nil, end |-> nil, reverse |-> FALSE],
   [start |-> nil, end |-> nil, reverse |-> TRUE],
   [start |-> 2, end |-> nil, reverse |-> FALSE],
   [start |-> nil, end |-> 2, reverse |-> TRUE]}

Full == {NoQuery}
=============================================================================
