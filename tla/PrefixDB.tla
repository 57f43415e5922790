------------------------------ MODULE PrefixDB ------------------------------
(***************************************************************************)
(* Several PrefixDBs over one parent database: prefixdb.go,                *)
(* prefixdb_iterator.go and prefixdb_batch.go.                             *)
(*                                                                         *)
(* The parent is a DB that keeps the promise of KVStore: each of its calls *)
(* is atomic, and its iterators show a snapshot.  A wrapper has no state   *)
(* of its own but its prefix, so each of its calls is one step; Close and  *)
(* the Sync variants only pass the call on.                                *)
(***************************************************************************)
EXTENDS ByteKeys, Ops, FiniteSets

CONSTANTS
  Client, Iter,
  PrefixOf,       \* per client, the prefix of the PrefixDB it uses
  Key,            \* nonempty keys used with the PrefixDBs
  ParentKey,      \* keys that others write to the parent directly
  Value, Absent, NoOne,
  Programs,       \* bound: what to consider of [Client -> groups of calls], see Call
  Query,          \* per client, the iterators that it may ask for
  MaxBatch        \* bound: operations in one batch

EmptyKey == <<>>
Prefixes == {PrefixOf[c] : c \in Client}
KeyArg == Key \cup {EmptyKey}
ValueArg == Value \cup {nil}
Stored == ParentKey \cup {p \o k : p \in Prefixes, k \in Key}
Queries == [start: KeyArg \cup {nil}, end: KeyArg \cup {nil}, reverse: BOOLEAN]
Op == [key: Stored, value: Value \cup {Absent}]

(* cpIncr requires a nonempty prefix (its CONTRACT).  What is stored under a *)
(* prefix is a key of its namespace, as in the code, where keys are any      *)
(* nonempty byte strings.                                                    *)
ASSUME PrefixAssumption ==
  /\ PrefixOf \in [Client -> Bytes \ {EmptyKey}]
  /\ Key \cup ParentKey \subseteq Bytes \ {EmptyKey}
  /\ \A p \in Prefixes, s \in Stored : HasPrefix(s, p) => Strip(s, p) \in KeyArg
  /\ NoOne \notin Client /\ Absent \notin ValueArg
  /\ nil \notin Value \cup Seq([key: Bytes, value: Value \cup {Absent}])
  /\ Query \in [Client -> SUBSET Queries] /\ MaxBatch \in Nat

VARIABLES
  calls,          \* the one of Programs that is run
  store,          \* the parent: key -> value or Absent
  batch,          \* per client: operations of the parent's batch, nil when closed
  ret,            \* per client: result of the last call that returned data or an error
  owner, query,   \* per iterator: who created it, with which arguments
  source,         \* per iterator: what the parent's iterator has still to show
  closed,         \* per iterator: the parent's iterator was closed
  valid, err,     \* per iterator: the fields of prefixDBIterator
  view            \* history, per iterator: the parent when it was created

iterVars == <<owner, query, source, closed, valid, err, view>>
vars == <<calls, store, batch, ret, iterVars>>

NoQuery == [start |-> nil, end |-> nil, reverse |-> FALSE]

(* A completed call: what it was or how it failed, and its arguments or data. *)
Result(s, k, v) == [status |-> s, key |-> k, value |-> v]
Status(s) == Result(s, EmptyKey, nil)

(* A database holds finitely many keys. *)
Init ==
  /\ calls \in Programs
  /\ store \in [Stored -> Value \cup {Absent}]
  /\ IsFiniteSet({k \in Stored : store[k] # Absent})
  /\ batch = [c \in Client |-> nil]
  /\ ret = [c \in Client |-> Status("none")]
  /\ owner = [i \in Iter |-> NoOne]
  /\ query = [i \in Iter |-> NoQuery]
  /\ source = [i \in Iter |-> {}]
  /\ closed = [i \in Iter |-> FALSE]
  /\ valid = [i \in Iter |-> FALSE]
  /\ err = [i \in Iter |-> FALSE]
  /\ view = [i \in Iter |-> [k \in Stored |-> Absent]]

Reply(c, result) == ret' = [ret EXCEPT ![c] = result]

(* A call that changes nothing. *)
Answer(c, result) == Reply(c, result) /\ UNCHANGED <<store, batch, iterVars>>

prefixed(c, key) == PrefixOf[c] \o key

-----------------------------------------------------------------------------
(* The database. *)

Get(c, k) ==
  \/ k = EmptyKey /\ Answer(c, Result("errKeyEmpty", k, nil))
  \/ /\ k # EmptyKey
     /\ LET v == store[prefixed(c, k)]
        IN  Answer(c, Result("get", k, IF v = Absent THEN nil ELSE v))

Has(c, k) ==
  \/ k = EmptyKey /\ Answer(c, Result("errKeyEmpty", k, nil))
  \/ /\ k # EmptyKey
     /\ Answer(c, Result(IF store[prefixed(c, k)] = Absent THEN "false" ELSE "true", k, nil))

PutUnprefixed(c, k, v) ==                 \* mutant: the prefix is forgotten
  /\ store' = [store EXCEPT ![k] = v]
  /\ Reply(c, Result("set", k, v))
  /\ UNCHANGED <<batch, iterVars>>

Put(c, k, v) ==
  /\ store' = [store EXCEPT ![prefixed(c, k)] = v]
  /\ Reply(c, Result("set", k, v))
  /\ UNCHANGED <<batch, iterVars>>

Set(c, k, v) ==
  \/ k = EmptyKey /\ Answer(c, Result("errKeyEmpty", k, nil))
  \/ k # EmptyKey /\ v = nil /\ Answer(c, Result("errValueNil", EmptyKey, v))
  \/ k # EmptyKey /\ v # nil /\ Put(c, k, v)

Delete(c, k) ==
  \/ k = EmptyKey /\ Answer(c, Result("errKeyEmpty", k, nil))
  \/ k # EmptyKey /\ Put(c, k, Absent)

(* Print and Stats. *)
Inspect(c) == Answer(c, Status("inspect"))

-----------------------------------------------------------------------------
(* The batch wraps one of the parent, which refuses to be used when closed. *)

ChangeBatch(c, ops, result) ==
  /\ batch' = [batch EXCEPT ![c] = ops]
  /\ Reply(c, result)
  /\ UNCHANGED <<store, iterVars>>

NewBatch(c) == ChangeBatch(c, <<>>, Status("new"))
BatchClose(c) == ChangeBatch(c, nil, Status("close"))

AppendOp(c, k, v) ==
  \/ batch[c] = nil /\ Answer(c, Status("errBatchClosed"))
  \/ /\ batch[c] # nil
     /\ Len(batch[c]) < MaxBatch
     /\ ChangeBatch(c, Append(batch[c], [key |-> prefixed(c, k), value |-> v]),
                    Result("append", k, v))

BatchSetNil(c, k, v) ==                   \* mutant: a nil value is accepted
  k # EmptyKey /\ AppendOp(c, k, v)

BatchSet(c, k, v) ==
  \/ k = EmptyKey /\ Answer(c, Result("errKeyEmpty", k, nil))
  \/ k # EmptyKey /\ v = nil /\ Answer(c, Result("errValueNil", EmptyKey, v))
  \/ k # EmptyKey /\ v # nil /\ AppendOp(c, k, v)

BatchDelete(c, k) ==
  \/ k = EmptyKey /\ Answer(c, Result("errKeyEmpty", k, nil))
  \/ k # EmptyKey /\ AppendOp(c, k, Absent)

BatchWrite(c) ==
  \/ batch[c] = nil /\ Answer(c, Status("errBatchClosed"))
  \/ /\ batch[c] # nil
     /\ store' = AfterOps(store, batch[c])
     /\ batch' = [batch EXCEPT ![c] = nil]
     /\ Reply(c, Status("write"))
     /\ UNCHANGED iterVars

-----------------------------------------------------------------------------
(* The iterator. *)

Before(q, j, k) == IF q.reverse THEN BytesLess(k, j) ELSE BytesLess(j, k)

(* source.Key(), when source.Valid(). *)
SourceKey(q, src) == CHOOSE k \in src : \A j \in src \ {k} : Before(q, k, j)

StandsOnPrefixed(q, src, p) == src # {} /\ HasPrefix(SourceKey(q, src), p)

SkipRest(q, src, p) ==                    \* mutant: that key ends the iteration
  IF src # {} /\ SourceKey(q, src) = p THEN {} ELSE src

(* A key that equals the prefix would be the empty key: it is skipped. *)
SkipPrefix(q, src, p) ==
  IF src # {} /\ SourceKey(q, src) = p THEN src \ {p} ELSE src

SettleUnchecked(i, q, src, p) ==          \* mutant: no check of the prefix
  LET s == SkipPrefix(q, src, p) IN
  source' = [source EXCEPT ![i] = s] /\ valid' = [valid EXCEPT ![i] = s # {}]

(* The end of newPrefixIterator, and of Next. *)
Settle(i, q, src, p) ==
  LET s == SkipPrefix(q, src, p) IN
  /\ source' = [source EXCEPT ![i] = s]
  /\ valid' = [valid EXCEPT ![i] = StandsOnPrefixed(q, s, p)]

(* The parent's content from start to end. *)
Domain(start, end) == {k \in Stored : store[k] # Absent /\ IsKeyInDomain(k, start, end)}

(* The end of the parent's domain. *)
PrefixEnd(p, end) == IF end = nil THEN cpIncr(p) ELSE p \o end

Open(c, i, q) ==
  LET p == PrefixOf[c]
      pstart == IF q.start = nil THEN p ELSE p \o q.start
  IN
  /\ owner[i] = NoOne
  /\ owner' = [owner EXCEPT ![i] = c]
  /\ query' = [query EXCEPT ![i] = q]
  /\ view' = [view EXCEPT ![i] = store]
  /\ Settle(i, q, Domain(pstart, PrefixEnd(p, q.end)), p)
  /\ UNCHANGED <<store, batch, ret, closed, err>>

NewIterator(c, i, q) ==
  \/ \E k \in {q.start, q.end} : k = EmptyKey /\ Answer(c, Result("errKeyEmpty", k, nil))
  \/ EmptyKey \notin {q.start, q.end} /\ Open(c, i, q)

Prefix(i) == PrefixOf[owner[i]]

(* Valid reports a key without the prefix as an error of the backend. *)
HasBadKey(i) ==
  valid[i] /\ ~err[i] /\ source[i] # {} /\ ~StandsOnPrefixed(query[i], source[i], Prefix(i))

Valid(i) == valid[i] /\ ~err[i] /\ StandsOnPrefixed(query[i], source[i], Prefix(i))

NoteError(i) == err' = [err EXCEPT ![i] = @ \/ HasBadKey(i)]

CallValid(c, i) ==
  /\ owner[i] = c
  /\ NoteError(i)
  /\ UNCHANGED <<store, batch, ret, owner, query, source, closed, valid, view>>

Panic(c, i) ==
  /\ ~Valid(i)
  /\ NoteError(i)
  /\ Reply(c, Status("panic"))
  /\ UNCHANGED <<store, batch, owner, query, source, closed, valid, view>>

IteratorNext(c, i) ==
  /\ owner[i] = c
  /\ \/ Panic(c, i)
     \/ /\ Valid(i)
        /\ Settle(i, query[i], source[i] \ {SourceKey(query[i], source[i])}, Prefix(i))
        /\ UNCHANGED <<store, batch, ret, owner, query, closed, err, view>>

(* Key and Value. *)
ReadItem(c, i) ==
  /\ owner[i] = c
  /\ \/ Panic(c, i)
     \/ /\ Valid(i)
        /\ LET k == SourceKey(query[i], source[i])
           IN  Answer(c, Result("item", Strip(k, Prefix(i)), view[i][k]))

Close(c, i) ==
  /\ owner[i] = c
  /\ source' = [source EXCEPT ![i] = {}]
  /\ closed' = [closed EXCEPT ![i] = TRUE]
  /\ UNCHANGED <<store, batch, ret, owner, query, valid, err, view>>

IteratePrefixOpen(p) == Domain(p, nil)    \* mutant: no end

(* IteratePrefix(parent, prefix): what its iterator shows. *)
IteratePrefix(p) == IF p = EmptyKey THEN Domain(nil, nil) ELSE Domain(p, cpIncr(p))

-----------------------------------------------------------------------------
(* Someone else uses the parent. *)
ParentSet(k, v) ==
  /\ store' = [store EXCEPT ![k] = v]
  /\ UNCHANGED <<batch, ret, iterVars>>

Call(c) ==
  \/ /\ "read" \in calls[c]
     /\ Inspect(c) \/ \E k \in KeyArg : Get(c, k) \/ Has(c, k)
  \/ /\ "write" \in calls[c]
     /\ \E k \in KeyArg : Delete(c, k) \/ \E v \in ValueArg : Set(c, k, v)
  \/ /\ "batch" \in calls[c]
     /\ \/ NewBatch(c) \/ BatchWrite(c) \/ BatchClose(c)
        \/ \E k \in KeyArg : BatchDelete(c, k) \/ \E v \in ValueArg : BatchSet(c, k, v)
  \/ /\ "iterate" \in calls[c]
     /\ \E i \in Iter : \/ \E q \in Query[c] : NewIterator(c, i, q)
                        \/ CallValid(c, i) \/ IteratorNext(c, i) \/ ReadItem(c, i) \/ Close(c, i)

Next ==
  /\ \/ \E c \in Client : Call(c)
     \/ \E k \in ParentKey, v \in Value \cup {Absent} : ParentSet(k, v)
  /\ UNCHANGED calls

Spec == Init /\ [][Next]_vars

-----------------------------------------------------------------------------
(* Types.  Neither an empty key nor a nil value reaches the parent.          *)
TypeOK ==
  /\ calls \in Programs
  /\ store \in [Stored -> Value \cup {Absent}]
  /\ batch \in [Client -> Seq(Op) \cup {nil}]
  /\ ret \in [Client -> [status: {"none", "get", "true", "false", "inspect", "set", "write",
                                  "new", "append", "close", "item", "panic",
                                  "errKeyEmpty", "errValueNil", "errBatchClosed"},
                         key: KeyArg, value: ValueArg \cup {Absent}]]
  /\ owner \in [Iter -> Client \cup {NoOne}]
  /\ query \in [Iter -> Queries]
  /\ source \in [Iter -> SUBSET Stored]
  /\ closed \in [Iter -> BOOLEAN]
  /\ valid \in [Iter -> BOOLEAN]
  /\ err \in [Iter -> BOOLEAN]
  /\ view \in [Iter -> [Stored -> Value \cup {Absent}]]

(***************************************************************************)
(* Refinement: the namespace of prefix p as a database of its own, for the *)
(* clients that use it.  Its iterators have yet to show the keys in front  *)
(* of the first one without the prefix.                                    *)
(***************************************************************************)
Users(p) == {c \in Client : PrefixOf[c] = p}

Namespace(s, p) == [k \in KeyArg |-> IF k = EmptyKey THEN Absent ELSE s[p \o k]]

ToShow(i, p) ==
  {k \in source[i] : /\ k # p
                     /\ \A j \in source[i] :
                          j = k \/ Before(query[i], j, k) => HasPrefix(j, p)}

Uses(i, p) == owner[i] \in Users(p)

StripOps(ops, p) == [n \in DOMAIN ops |-> [ops[n] EXCEPT !.key = Strip(@, p)]]

Batches(p) == [c \in Users(p) |-> IF batch[c] = nil THEN nil ELSE StripOps(batch[c], p)]
Replies(p) == [c \in Users(p) |-> ret[c]]
Owners(p) == [i \in Iter |-> IF Uses(i, p) THEN owner[i] ELSE NoOne]
Asked(p) == [i \in Iter |-> IF Uses(i, p) THEN query[i] ELSE NoQuery]
Views(p) == [i \in Iter |-> IF Uses(i, p) THEN Namespace(view[i], p)
                            ELSE [k \in KeyArg |-> Absent]]
Rests(p) == [i \in Iter |-> IF Uses(i, p) /\ valid[i]
                            THEN {Strip(k, p) : k \in ToShow(i, p)} ELSE {}]
Failures(p) == [i \in Iter |-> Uses(i, p) /\ err[i]]
Closings(p) == [i \in Iter |-> Uses(i, p) /\ closed[i]]

KV(p) == INSTANCE KVStore WITH
  BatchOp <- [key: Key, value: Value \cup {Absent}], doubtful <- <<>>,
  Client <- Users(p), Query <- UNION {Query[c] : c \in Users(p)},
  Less <- BytesLess,
  store <- Namespace(store, p), batch <- Batches(p), ret <- Replies(p),
  owner <- Owners(p), query <- Asked(p), view <- Views(p),
  rest <- Rests(p), failed <- Failures(p), closed <- Closings(p)

(* cpIncr changes more than the last byte, and does not overflow. *)
Carries(p) == p # EmptyKey /\ p[Len(p)] = MaxByte /\ NoCarry(p) # {}

(* How the PrefixDBs are used: no prefix extends another one, and no one     *)
(* writes into a namespace past its PrefixDB (but to the prefix itself).     *)
Separated ==
  /\ \A p1, p2 \in Prefixes : HasPrefix(p1, p2) => p1 = p2
  /\ \A k \in ParentKey, p \in Prefixes : HasPrefix(k, p) => k = p

(* No reverse iterator from a nil end over a prefix for which cpIncr carries. *)
NoReverseCarry ==
  \A c \in Client : \A q \in Query[c] : q.reverse /\ q.end = nil => ~Carries(PrefixOf[c])

(* Each PrefixDB implements KVStore for its users, whatever the users of the *)
(* other prefixes and of the parent do: the namespaces do not mix if they    *)
(* are Separated, and the translation of a domain by prefix and cpIncr loses *)
(* no key and adds none with NoReverseCarry.  Without it,                    *)
(* ReverseStartsAtLastKey is violated.                                       *)
ImplementsKVStore ==
  /\ \A p \in Prefixes : KV(p)!DBInit
  /\ [][\A p \in Prefixes : KV(p)!DBNext \/ UNCHANGED KV(p)!dbVars]_vars

(* Valid never has to report "received invalid key from backend": the checks *)
(* in newPrefixIterator and Next stop in time, also where the parent's       *)
(* domain reaches beyond the prefix.                                         *)
BackendKeysHavePrefix == \A i \in Iter : ~err[i] /\ ~HasBadKey(i)

(* types.go: ReverseIterator with "a nil end iterates from the last key      *)
(* (inclusive)".  A new one stands on the last key of its namespace from     *)
(* start on, and is invalid only if there is none.                           *)
ReverseStartsAtLastKey ==
  [][\A i \in Iter :
       /\ owner[i] = NoOne /\ owner'[i] # NoOne
       /\ query'[i].reverse /\ query'[i].end = nil
       => LET p == PrefixOf[owner'[i]]
              keys == {k \in Key : /\ store[p \o k] # Absent
                                   /\ IsKeyInDomain(k, query'[i].start, nil)}
          IN  IF keys = {} THEN ~Valid(i)'
              ELSE Valid(i)' /\ Strip(SourceKey(query[i], source[i])', p)
                               = SourceKey(query'[i], keys)]_vars

(* IteratePrefix shows exactly the keys that have the prefix, if cpIncr does *)
(* not carry.  (From 01 FF it carries to 02 00, and the key 02 is shown.)    *)
(* Any key may be used as a prefix.                                          *)
IteratePrefixIsExact ==
  \A p \in Stored \cup Prefixes \cup {EmptyKey} :
    ~Carries(p) => IteratePrefix(p) = {k \in Stored : store[k] # Absent /\ HasPrefix(k, p)}
=============================================================================
