-------------------------------- MODULE Ops --------------------------------
(* The operations of a batch. *)
EXTENDS Naturals, Sequences

(* What a sequence of operations makes of content s: the last one on a key   *)
(* decides, and a delete is the value Absent.                                *)
AfterOps(s, ops) ==
  [k \in DOMAIN s |->
     LET hits == {n \in DOMAIN ops : ops[n].key = k}
     IN  IF hits = {} THEN s[k]
         ELSE ops[CHOOSE n \in hits : \A m \in hits : m <= n].value]
=============================================================================
