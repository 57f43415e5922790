------------------------------ MODULE KVStore ------------------------------
(***************************************************************************)
(* What the interfaces of types.go promise to callers of a DB: an ordered  *)
(* map whose reads and writes are atomic, batches that take effect at once *)
(* or not at all, and iterators over the content of a domain as it was     *)
(* when the iterator was created.                                          *)
(*                                                                         *)
(* Every action is the visible effect of one call; there are no locks,     *)
(* goroutines or channels.  Backends are shown to implement this module.   *)
(* Over a network a write whose answer is lost is in doubt: it takes       *)
(* effect at most once, possibly after its call has failed.                *)
(***************************************************************************)
EXTENDS Ops

CONSTANTS
  Client, Iter, Key, Value, nil, Absent, NoOne, EmptyKey,
  BatchOp,            \* the operations that a batch accepts; what is invalid is found by Write
  Query, NoQuery,     \* arguments of an iterator; those of one not yet created
  Less(_, _)          \* the order of keys

VARIABLES
  store,     \* key -> value or Absent
  batch,     \* per client: operations of its batch, nil when closed
  owner,     \* per iterator: the client it belongs to, or NoOne
  query,     \* per iterator: its arguments
  view,      \* per iterator: the store when it was created; before, anything
  rest,      \* per iterator: keys not yet left behind; the current one is first
  failed,    \* per iterator: Error() returns an error
  closed,    \* per iterator: Close was called
  doubtful,  \* the writes whose answers are lost, and which may still take effect
  ret        \* per client: the last call that returned data or an error, and its result

iterVars == <<owner, query, view, rest, failed, closed>>
dbVars == <<store, batch, iterVars, doubtful, ret>>

Result(s, k, v) == [status |-> s, key |-> k, value |-> v]
Status(s) == Result(s, EmptyKey, nil)

Reply(c, result) == ret' = [ret EXCEPT ![c] = result]

(* Domain of an iterator: start inclusive, end exclusive, nil unbounded. *)
InRange(q, k) ==
  /\ q.start = nil \/ ~Less(k, q.start)
  /\ q.end = nil \/ Less(k, q.end)

(* The first key of a set of keys in the direction of q. *)
First(q, keys) ==
  CHOOSE k \in keys : \A j \in keys : IF q.reverse THEN ~Less(k, j) ELSE ~Less(j, k)

AreValid(ops) ==
  \A n \in DOMAIN ops : ops[n].key \in Key /\ ops[n].value \in Value \cup {Absent}

DBInit ==
  /\ store \in [Key \cup {EmptyKey} -> Value \cup {Absent}]
  /\ store[EmptyKey] = Absent
  /\ batch = [c \in Client |-> nil]
  /\ owner = [i \in Iter |-> NoOne]
  /\ query = [i \in Iter |-> NoQuery]
  /\ view \in [Iter -> [Key \cup {EmptyKey} -> Value \cup {Absent}]]
  /\ rest = [i \in Iter |-> {}]
  /\ failed = [i \in Iter |-> FALSE]
  /\ closed = [i \in Iter |-> FALSE]
  /\ doubtful = <<>>
  /\ ret = [c \in Client |-> Status("none")]

-----------------------------------------------------------------------------
(* A call starts: the caller has done with the result of the last one. *)
Begin(c) ==
  /\ Reply(c, Status("none"))
  /\ UNCHANGED <<store, batch, iterVars, doubtful>>

(* An empty key or a nil value is refused without any effect, and nothing    *)
(* else is: the result shows the argument.                                   *)
Refuse(c) ==
  /\ \/ Reply(c, Result("errKeyEmpty", EmptyKey, nil))
     \/ Reply(c, Result("errValueNil", EmptyKey, nil))
  /\ UNCHANGED <<store, batch, iterVars, doubtful>>

Lookup(c, k) ==
  /\ \/ Reply(c, Result("get", k, IF store[k] = Absent THEN nil ELSE store[k]))
     \/ Reply(c, Result(IF store[k] = Absent THEN "false" ELSE "true", k, nil))
  /\ UNCHANGED <<store, batch, iterVars, doubtful>>

(* Print, Stats. *)
NoEffect(c) ==
  /\ Reply(c, Status("inspect"))
  /\ UNCHANGED <<store, batch, iterVars, doubtful>>

(* Set, and Delete with v = Absent. *)
Put(c, k, v) ==
  /\ store' = [store EXCEPT ![k] = v]
  /\ Reply(c, Result("set", k, v))
  /\ UNCHANGED <<batch, iterVars, doubtful>>

(* The whole batch in one step; afterwards it can not be used again. *)
WriteBatch(c) ==
  /\ batch[c] # nil
  /\ AreValid(batch[c])
  /\ store' = AfterOps(store, batch[c])
  /\ batch' = [batch EXCEPT ![c] = nil]
  /\ Reply(c, Status("write"))
  /\ UNCHANGED <<iterVars, doubtful>>

(* NewBatch, Set, Delete, Close of a batch: invisible until it is written. *)
EditBatch(c) ==
  /\ \/ batch' = [batch EXCEPT ![c] = <<>>] /\ Reply(c, Status("new"))
     \/ batch' = [batch EXCEPT ![c] = nil] /\ Reply(c, Status("close"))
     \/ /\ batch[c] # nil
        /\ \E op \in BatchOp :
             /\ batch' = [batch EXCEPT ![c] = Append(@, op)]
             /\ Reply(c, Result("append", op.key, op.value))
  /\ UNCHANGED <<store, iterVars, doubtful>>

BatchIsClosed(c) ==
  /\ batch[c] = nil
  /\ Reply(c, Status("errBatchClosed"))
  /\ UNCHANGED <<store, batch, iterVars, doubtful>>

(* A call that returns an error has had no effect, but the batch it was to   *)
(* write may be lost.                                                        *)
CallFails(c) ==
  /\ Reply(c, Status("error"))
  /\ batch' \in {batch, [batch EXCEPT ![c] = nil]}
  /\ UNCHANGED <<store, iterVars, doubtful>>

(* The call fails, and what it asked for, nothing, one operation or the      *)
(* batch, is in doubt: it is applied as a whole later, or never.  Stats does *)
(* not tell.                                                                 *)
CallIsLost(c) ==
  /\ \/ /\ \E ops \in {<<>>} \cup {<<op>> : op \in BatchOp} \cup ({batch[c]} \ {nil}) :
            doubtful' = Append(doubtful, ops)
        /\ Reply(c, Status("error"))
     \/ doubtful' = Append(doubtful, <<>>) /\ Reply(c, Status("inspect"))
  /\ UNCHANGED <<store, batch, iterVars>>

LateEffect ==
  /\ \E n \in DOMAIN doubtful :
       /\ doubtful' = SubSeq(doubtful, 1, n - 1) \o SubSeq(doubtful, n + 1, Len(doubtful))
       /\ store' \in {store} \cup
            IF AreValid(doubtful[n]) THEN {AfterOps(store, doubtful[n])} ELSE {}
  /\ UNCHANGED <<batch, iterVars, ret>>

(* The writes in doubt are lost together. *)
Forget ==
  /\ doubtful' = <<>>
  /\ UNCHANGED <<store, batch, iterVars, ret>>

-----------------------------------------------------------------------------
(* An iterator becomes invalid early, and says why. *)
Fail(i) ==
  /\ rest' = [rest EXCEPT ![i] = {}]
  /\ failed' = [failed EXCEPT ![i] = TRUE]

OpenIterator(c, i, q) ==
  /\ owner[i] = NoOne
  /\ EmptyKey \notin {q.start, q.end}
  /\ owner' = [owner EXCEPT ![i] = c]
  /\ query' = [query EXCEPT ![i] = q]
  /\ view' = [view EXCEPT ![i] = store]
  /\ \/ /\ rest' = [rest EXCEPT ![i] = {k \in Key : InRange(q, k) /\ store[k] # Absent}]
        /\ UNCHANGED failed
     \/ Fail(i)
  /\ UNCHANGED <<store, batch, closed, doubtful, ret>>

Advance(c, i) ==
  /\ owner[i] = c
  /\ rest[i] # {}
  /\ rest' = [rest EXCEPT ![i] = @ \ {First(query[i], @)}]
  /\ UNCHANGED <<store, batch, owner, query, view, failed, closed, doubtful, ret>>

(* Next fails, or the connection behind the iterator breaks. *)
IteratorFails(c, i) ==
  /\ owner[i] = c
  /\ Fail(i)
  /\ UNCHANGED <<store, batch, owner, query, view, closed, doubtful, ret>>

Current(c, i) ==
  /\ owner[i] = c
  /\ rest[i] # {}
  /\ LET k == First(query[i], rest[i])
     IN  Reply(c, Result("item", k, view[i][k]))
  /\ UNCHANGED <<store, batch, iterVars, doubtful>>

(* A value that can not be read; the iterator can go on, and keeps the error. *)
CurrentFails(c, i) ==
  /\ owner[i] = c
  /\ rest[i] # {}
  /\ failed' = [failed EXCEPT ![i] = TRUE]
  /\ Reply(c, Status("error"))
  /\ UNCHANGED <<store, batch, owner, query, view, rest, closed, doubtful>>

(* Next, Key or Value on an iterator that is exhausted or closed. *)
IteratorPanics(c, i) ==
  /\ owner[i] = c
  /\ rest[i] = {}
  /\ Reply(c, Status("panic"))
  /\ UNCHANGED <<store, batch, iterVars, doubtful>>

(* Only Close makes an iterator invalid before its end without an error. *)
CloseIterator(c, i) ==
  /\ owner[i] = c
  /\ closed' = [closed EXCEPT ![i] = TRUE]
  /\ rest' = [rest EXCEPT ![i] = {}]
  /\ UNCHANGED <<store, batch, owner, query, view, failed, doubtful, ret>>

DBNext ==
  \/ LateEffect \/ Forget
  \/ \E c \in Client :
    \/ Begin(c) \/ Refuse(c) \/ NoEffect(c) \/ WriteBatch(c) \/ EditBatch(c) \/ BatchIsClosed(c)
    \/ CallFails(c) \/ CallIsLost(c)
    \/ \E k \in Key : Lookup(c, k)
    \/ \E k \in Key, v \in Value \cup {Absent} : Put(c, k, v)
    \/ \E i \in Iter :
         \/ \E q \in Query : OpenIterator(c, i, q)
         \/ Advance(c, i) \/ IteratorFails(c, i) \/ Current(c, i) \/ CurrentFails(c, i)
         \/ IteratorPanics(c, i) \/ CloseIterator(c, i)

DBSpec == DBInit /\ [][DBNext]_dbVars
=============================================================================
