------------------------------- MODULE DiskDB -------------------------------
(***************************************************************************)
(* The on-disk backends: GoLevelDB, CLevelDB, RocksDB, BoltDB and          *)
(* BadgerDB, with their batches and iterators.                             *)
(*                                                                         *)
(* A backend wraps a library.  The libraries are modelled by what the      *)
(* wrappers use of them: a read or write is atomic, a write reaches the    *)
(* disk at once or with a later sync, an iterator is a cursor over a       *)
(* snapshot, and any call may fail.  A crash keeps what was synced and     *)
(* any number of the writes behind it, in their order.                     *)
(*                                                                         *)
(* Keys are ranks in the order of bytes.Compare, 0 for the empty string.   *)
(***************************************************************************)
EXTENDS Ops, FiniteSetsExt

CONSTANTS
  Client, Iter,
  Key, Value,     \* nonempty keys (as ranks), non-nil values
  nil, Absent, NoOne,
  Backends,       \* the backends to consider, a subset of AllBackends
  Opened,         \* the contents a database may have when it is opened
  Programs,       \* bound: what to consider of [Client -> groups of calls], see Call
  Query,          \* the iterators that clients may ask for
  Fallible,       \* whether calls of the library may fail
  MaxBatch,       \* bound: operations in one batch
  MaxWrites,      \* bound: writes in a behaviour
  MaxCrashes      \* bound: crashes in a behaviour

LevelLike == {"goleveldb", "cleveldb", "rocksdb"}
AllBackends == LevelLike \cup {"boltdb", "badgerdb"}

EmptyKey == 0
KeyArg == Key \cup {EmptyKey}
ValueArg == Value \cup {nil}
EndPoint == KeyArg \cup {nil}
Queries == [start: EndPoint, end: EndPoint, reverse: BOOLEAN]
Op == [key: Key, value: Value \cup {Absent}]      \* Absent: a delete
Contents == [KeyArg -> Value \cup {Absent}]
NoContent == [k \in KeyArg |-> Absent]

(* A completed call: what it was or how it failed, and its arguments or data. *)
Results ==
  [status: {"none", "get", "true", "false", "inspect", "set", "write", "new", "append", "close",
            "item", "panic", "error", "errKeyEmpty", "errValueNil", "errBatchClosed"},
   key: KeyArg, value: ValueArg \cup {Absent}]

ASSUME DiskAssumption ==
  /\ Key \subseteq Nat \ {EmptyKey} /\ IsFiniteSet(Key)
  /\ nil \notin KeyArg \cup Value \cup Results /\ Absent \notin ValueArg /\ NoOne \notin Client
  /\ Backends \subseteq AllBackends /\ Query \subseteq Queries
  /\ Opened \subseteq {content \in Contents : content[EmptyKey] = Absent}
  /\ Fallible \in BOOLEAN /\ MaxBatch \in Nat /\ MaxWrites \in Nat /\ MaxCrashes \in Nat

VARIABLES
  calls,          \* the one of Programs that is run
  backend,        \* the backend that NewDB was asked for
  versions,       \* the content on disk, then after each write not yet synced
  batch,          \* per client: operations of its batch, nil when closed
  pend,           \* per client: the result of a write that is still to be synced, or nil
  ret,            \* per client: the last call that returned data or an error, and its result
  (* Per iterator. *)
  owner, query,
  view,           \* the library's snapshot
  cursor,         \* the key the library's cursor stands on, nil outside
  isInvalid,      \* the field of that name
  failed,         \* the library's cursor has an error
  closed,
  (* History, for the properties. *)
  written,        \* number of writes so far
  mine,           \* per client: the number of its last write
  acked,          \* the last write whose Sync call has returned
  crashes         \* number of crashes so far

iterVars == <<owner, query, view, cursor, isInvalid, failed, closed>>
history == <<written, mine, acked>>
vars == <<calls, backend, versions, batch, pend, ret, iterVars, history, crashes>>

NoQuery == [start |-> nil, end |-> nil, reverse |-> FALSE]

Result(s, k, v) == [status |-> s, key |-> k, value |-> v]
Status(s) == Result(s, EmptyKey, nil)

Store == versions[Len(versions)].content

(* A database is created, or opened with the content of an earlier run. *)
Init ==
  /\ calls \in Programs
  /\ backend \in Backends
  /\ \E content \in Opened : versions = <<[number |-> 0, content |-> content]>>
  /\ batch = [c \in Client |-> nil]
  /\ pend = [c \in Client |-> nil]
  /\ owner = [i \in Iter |-> NoOne]
  /\ query = [i \in Iter |-> NoQuery]
  /\ view = [i \in Iter |-> NoContent]
  /\ cursor = [i \in Iter |-> nil]
  /\ isInvalid = [i \in Iter |-> FALSE]
  /\ failed = [i \in Iter |-> FALSE]
  /\ closed = [i \in Iter |-> FALSE]
  /\ ret = [c \in Client |-> Status("none")]
  /\ written = 0 /\ acked = 0 /\ crashes = 0
  /\ mine = [c \in Client |-> 0]

Idle(c) == pend[c] = nil
Reply(c, result) == ret' = [ret EXCEPT ![c] = result]

(* A call that changes nothing. *)
Answer(c, result) ==
  /\ Idle(c)
  /\ Reply(c, result)
  /\ UNCHANGED <<backend, versions, batch, pend, iterVars, history, crashes>>

(* The library returns an error, which is passed on. *)
Fails(c) == Fallible /\ Answer(c, Status("error"))

-----------------------------------------------------------------------------
(* Get, Has, Print, Stats. *)

Get(c, k) ==
  \/ k = EmptyKey /\ Answer(c, Result("errKeyEmpty", k, nil))
  \/ /\ k # EmptyKey
     /\ \/ Answer(c, Result("get", k, IF Store[k] = Absent THEN nil ELSE Store[k]))
        \/ Fails(c)

Has(c, k) ==
  \/ k = EmptyKey /\ Answer(c, Result("errKeyEmpty", k, nil))
  \/ /\ k # EmptyKey
     /\ \/ Answer(c, Result(IF Store[k] = Absent THEN "false" ELSE "true", k, nil))
        \/ Fails(c)

(* Print reports errors of two of the libraries, Stats of none. *)
Inspect(c) ==
  \/ Answer(c, Status("inspect"))
  \/ backend \in {"goleveldb", "boltdb"} /\ Fails(c)

-----------------------------------------------------------------------------
(***************************************************************************)
(* Writes.  The level-like backends pass an option with a write that is to *)
(* be synced; BoltDB syncs every write; BadgerDB never does, and a Sync    *)
(* call of it is followed by a sync of its own (withSync).                 *)
(***************************************************************************)
IsSynced(sync) == backend = "boltdb" \/ (sync /\ backend \in LevelLike)
IsToSync(sync) == sync /\ backend = "badgerdb"

(* BoltDB promises durability for every write, the others for Sync calls. *)
IsPromised(sync) == sync \/ backend = "boltdb"

Commit(c, ops, sync, result) ==
  LET new == [number |-> written + 1, content |-> AfterOps(Store, ops)] IN
  /\ Idle(c)
  /\ written < MaxWrites
  /\ versions' = IF IsSynced(sync) THEN <<new>> ELSE Append(versions, new)
  /\ written' = new.number
  /\ mine' = [mine EXCEPT ![c] = new.number]
  /\ IF IsToSync(sync)
       THEN /\ pend' = [pend EXCEPT ![c] = result]
            /\ UNCHANGED <<ret, acked>>
       ELSE /\ Reply(c, result)
            /\ acked' = IF IsPromised(sync) THEN new.number ELSE acked
            /\ UNCHANGED pend
  /\ UNCHANGED <<backend, iterVars, crashes>>

Put(c, op, sync) ==
  \/ /\ Commit(c, <<op>>, sync, Result("set", op.key, op.value))
     /\ UNCHANGED batch
  \/ Fails(c)

Set(c, k, v, sync) ==
  \/ k = EmptyKey /\ Answer(c, Result("errKeyEmpty", k, nil))
  \/ k # EmptyKey /\ v = nil /\ Answer(c, Result("errValueNil", EmptyKey, v))
  \/ k # EmptyKey /\ v # nil /\ Put(c, [key |-> k, value |-> v], sync)

Delete(c, k, sync) ==
  \/ k = EmptyKey /\ Answer(c, Result("errKeyEmpty", k, nil))
  \/ k # EmptyKey /\ Put(c, [key |-> k, value |-> Absent], sync)

EndSync(c, result) ==
  /\ pend[c] # nil
  /\ pend' = [pend EXCEPT ![c] = nil]
  /\ Reply(c, result)
  /\ UNCHANGED <<backend, batch, iterVars, written, mine, crashes>>

Acknowledge(c) ==
  EndSync(c, pend[c]) /\ acked' = Max({acked, mine[c]})

withSyncNever(c) == Acknowledge(c) /\ UNCHANGED versions    \* mutant: no db.Sync()

(* The end of withSync: db.Sync(). *)
withSync(c) ==
  \/ Acknowledge(c) /\ versions' = <<versions[Len(versions)]>>
  \/ Fallible /\ EndSync(c, Status("error")) /\ UNCHANGED <<versions, acked>>

-----------------------------------------------------------------------------
(* Batches.  A closed batch answers with an error, which differs by backend. *)

ChangeBatch(c, ops, result) ==
  /\ Idle(c)
  /\ batch' = [batch EXCEPT ![c] = ops]
  /\ Reply(c, result)
  /\ UNCHANGED <<backend, versions, pend, iterVars, history, crashes>>

NewBatch(c) == ChangeBatch(c, <<>>, Status("new"))
BatchClose(c) == ChangeBatch(c, nil, Status("close"))

AppendOp(c, op) ==
  \/ batch[c] = nil /\ Answer(c, Status("errBatchClosed"))
  \/ /\ batch[c] # nil
     /\ Len(batch[c]) < MaxBatch
     /\ ChangeBatch(c, Append(batch[c], op), Result("append", op.key, op.value))
  \/ batch[c] # nil /\ backend = "badgerdb" /\ Fails(c)

BatchSetNil(c, k, v) ==                   \* mutant: a nil value is accepted
  k # EmptyKey /\ AppendOp(c, [key |-> k, value |-> v])

BatchSet(c, k, v) ==
  \/ k = EmptyKey /\ Answer(c, Result("errKeyEmpty", k, nil))
  \/ k # EmptyKey /\ v = nil /\ Answer(c, Result("errValueNil", EmptyKey, v))
  \/ k # EmptyKey /\ v # nil /\ AppendOp(c, [key |-> k, value |-> v])

BatchDelete(c, k) ==
  \/ k = EmptyKey /\ Answer(c, Result("errKeyEmpty", k, nil))
  \/ k # EmptyKey /\ AppendOp(c, [key |-> k, value |-> Absent])

(* A batch that could not be written stays open, except for BadgerDB, where  *)
(* firstFlush is used up before the attempt.                                 *)
BatchFails(c) ==
  \/ backend # "badgerdb" /\ Fails(c)
  \/ backend = "badgerdb" /\ Fallible /\ ChangeBatch(c, nil, Status("error"))

BatchWriteAgain(c, sync) ==               \* mutant: the batch stays open
  /\ batch[c] # nil
  /\ Commit(c, batch[c], sync, Status("write"))
  /\ UNCHANGED batch

BatchWrite(c, sync) ==
  \/ batch[c] = nil /\ Answer(c, Status("errBatchClosed"))
  \/ /\ batch[c] # nil
     /\ \/ /\ Commit(c, batch[c], sync, Status("write"))
           /\ batch' = [batch EXCEPT ![c] = nil]
        \/ BatchFails(c)

-----------------------------------------------------------------------------
(* The libraries' cursors over a set of keys; nil is a place behind them. *)

MinOrNil(ks) == IF ks = {} THEN nil ELSE Min(ks)
MaxOrNil(ks) == IF ks = {} THEN nil ELSE Max(ks)

CursorSeek(ks, k) == MinOrNil({j \in ks : k <= j})
CursorNext(ks, k) == MinOrNil({j \in ks : k < j})
CursorPrev(ks, k) == MaxOrNil({j \in ks : k = nil \/ j < k})

(* Badger's reverse iterator seeks the largest key that is not above k. *)
CursorSeekBack(ks, k) == MaxOrNil({j \in ks : k = nil \/ j <= k})

Stored(content) == {k \in Key : content[k] # Absent}

InRange(q, k) ==
  /\ q.start = nil \/ q.start <= k
  /\ q.end = nil \/ k < q.end

(* The keys a cursor moves over; only goleveldb's gets the range. *)
CursorKeys(q, content) ==
  IF backend = "goleveldb" THEN {k \in Stored(content) : InRange(q, k)} ELSE Stored(content)

-----------------------------------------------------------------------------
(* Iterators: where a new one stands. *)

ForwardStart(ks, q) == IF q.start = nil THEN MinOrNil(ks) ELSE CursorSeek(ks, q.start)

LevelStart(ks, q) ==
  IF ~q.reverse THEN ForwardStart(ks, q)
  ELSE IF q.end = nil THEN MaxOrNil(ks)
  ELSE LET eoakey == CursorSeek(ks, q.end)     \* end or after key
       IN  IF eoakey = nil THEN MaxOrNil(ks)
           ELSE IF q.end <= eoakey THEN CursorPrev(ks, eoakey) ELSE eoakey

BoltStart(ks, q) ==
  IF ~q.reverse THEN ForwardStart(ks, q)
  ELSE IF q.end = nil THEN MaxOrNil(ks)
  ELSE CursorPrev(ks, CursorSeek(ks, q.end))

BadgerStartAtEnd(ks, q) ==                \* mutant: end is not skipped
  IF ~q.reverse THEN ForwardStart(ks, q) ELSE CursorSeekBack(ks, q.end)

BadgerStart(ks, q) ==
  IF ~q.reverse THEN ForwardStart(ks, q)
  ELSE LET k == CursorSeekBack(ks, q.end)
       IN  IF k # nil /\ k = q.end THEN CursorPrev(ks, k) ELSE k

StartOf(ks, q) ==
  CASE backend \in LevelLike -> LevelStart(ks, q)
    [] backend = "boltdb" -> BoltStart(ks, q)
    [] backend = "badgerdb" -> BadgerStart(ks, q)

MoveToSilently(i, k) ==                   \* mutant: Error() drops the library's error
  /\ \/ cursor' = [cursor EXCEPT ![i] = k]
     \/ Fallible /\ backend \in LevelLike /\ cursor' = [cursor EXCEPT ![i] = nil]
  /\ UNCHANGED failed

(* The cursor of iterator i moves to k, or fails where it reports errors. *)
MoveTo(i, k) ==
  \/ cursor' = [cursor EXCEPT ![i] = k] /\ UNCHANGED failed
  \/ /\ Fallible /\ backend \in LevelLike
     /\ cursor' = [cursor EXCEPT ![i] = nil]
     /\ failed' = [failed EXCEPT ![i] = TRUE]

Open(c, i, q) ==
  /\ Idle(c)
  /\ owner[i] = NoOne
  /\ owner' = [owner EXCEPT ![i] = c]
  /\ query' = [query EXCEPT ![i] = q]
  /\ view' = [view EXCEPT ![i] = Store]
  /\ MoveTo(i, StartOf(CursorKeys(q, Store), q))
  /\ UNCHANGED <<backend, versions, batch, pend, ret, isInvalid, closed, history, crashes>>

NewIterator(c, i, q) ==
  \/ \E k \in {q.start, q.end} : k = EmptyKey /\ Answer(c, Result("errKeyEmpty", k, nil))
  \/ EmptyKey \notin {q.start, q.end} /\ Open(c, i, q)
  \/ EmptyKey \notin {q.start, q.end} /\ backend = "boltdb" /\ Fails(c)

-----------------------------------------------------------------------------
(* Iterators: their methods.  None is called on a closed iterator. *)

PastEnd(q, k) ==
  IF q.reverse THEN q.start # nil /\ k < q.start ELSE q.end # nil /\ q.end <= k

(* BadgerDB's Valid does not look at its error. *)
Valid(i) ==
  /\ ~isInvalid[i]
  /\ failed[i] => backend = "badgerdb"
  /\ cursor[i] # nil /\ ~PastEnd(query[i], cursor[i])

Uses(c, i) == Idle(c) /\ owner[i] = c /\ ~closed[i]

(* Whether the method keeps in isInvalid what it saw depends on its receiver. *)
NoteInvalid(i, who) == isInvalid' = [isInvalid EXCEPT ![i] = @ \/ (~Valid(i) /\ backend \in who)]

CallValid(c, i) ==
  /\ Uses(c, i)
  /\ NoteInvalid(i, {"goleveldb", "rocksdb", "boltdb"})
  /\ UNCHANGED <<backend, versions, batch, pend, ret, owner, query, view, cursor, failed, closed,
                 history, crashes>>

Panic(c, i, who) ==
  /\ ~Valid(i)
  /\ NoteInvalid(i, who)
  /\ Reply(c, Status("panic"))
  /\ UNCHANGED <<backend, versions, batch, pend, owner, query, view, cursor, failed, closed,
                 history, crashes>>

Step(i) ==
  LET ks == CursorKeys(query[i], view[i])
  IN  IF query[i].reverse THEN CursorPrev(ks, cursor[i]) ELSE CursorNext(ks, cursor[i])

IteratorNext(c, i) ==
  /\ Uses(c, i)
  /\ \/ Panic(c, i, {"boltdb"})
     \/ /\ Valid(i)
        /\ MoveTo(i, Step(i))
        /\ UNCHANGED <<backend, versions, batch, pend, ret, owner, query, view, isInvalid, closed,
                       history, crashes>>

(* Badger's Value can fail; the iterator keeps the error and stays valid. *)
ValueFails(c, i) ==
  /\ Fallible /\ backend = "badgerdb"
  /\ failed' = [failed EXCEPT ![i] = TRUE]
  /\ Reply(c, Status("error"))
  /\ UNCHANGED <<backend, versions, batch, pend, owner, query, view, cursor, isInvalid, closed,
                 history, crashes>>

(* Key and Value. *)
ReadItem(c, i) ==
  /\ Uses(c, i)
  /\ \/ Panic(c, i, {"boltdb", "rocksdb"})
     \/ Valid(i) /\ Answer(c, Result("item", cursor[i], view[i][cursor[i]]))
     \/ Valid(i) /\ ValueFails(c, i)

Close(c, i) ==
  /\ Uses(c, i)
  /\ closed' = [closed EXCEPT ![i] = TRUE]
  /\ UNCHANGED <<backend, versions, batch, pend, ret, owner, query, view, cursor, isInvalid,
                 failed, history, crashes>>

-----------------------------------------------------------------------------
(* The program stops, is started again and opens the database. *)
Crash ==
  /\ crashes < MaxCrashes
  /\ crashes' = crashes + 1
  /\ versions' \in {<<versions[n]>> : n \in DOMAIN versions}
  /\ batch' = [c \in Client |-> nil]
  /\ pend' = [c \in Client |-> nil]
  /\ owner' = [i \in Iter |-> NoOne]
  /\ query' = [i \in Iter |-> NoQuery]
  /\ view' = [i \in Iter |-> NoContent]
  /\ cursor' = [i \in Iter |-> nil]
  /\ isInvalid' = [i \in Iter |-> FALSE]
  /\ failed' = [i \in Iter |-> FALSE]
  /\ closed' = [i \in Iter |-> FALSE]
  /\ ret' = [c \in Client |-> Status("none")]
  /\ UNCHANGED <<backend, history>>

(* The arguments a client uses: with "invalid", the ones that are refused too. *)
KeysOf(c) == IF "invalid" \in calls[c] THEN KeyArg ELSE Key
ValuesOf(c) == IF "invalid" \in calls[c] THEN ValueArg ELSE Value

Call(c) ==
  \/ /\ "read" \in calls[c]
     /\ Inspect(c) \/ \E k \in KeysOf(c) : Get(c, k) \/ Has(c, k)
  \/ /\ "write" \in calls[c]
     /\ \E k \in KeysOf(c), sync \in BOOLEAN :
          Delete(c, k, sync) \/ \E v \in ValuesOf(c) : Set(c, k, v, sync)
  \/ /\ "batch" \in calls[c]
     /\ \/ NewBatch(c) \/ BatchClose(c) \/ \E sync \in BOOLEAN : BatchWrite(c, sync)
        \/ \E k \in KeysOf(c) : BatchDelete(c, k) \/ \E v \in ValuesOf(c) : BatchSet(c, k, v)
  \/ /\ "iterate" \in calls[c]
     /\ \E i \in Iter : \/ \E q \in Query : NewIterator(c, i, q)
                        \/ CallValid(c, i) \/ IteratorNext(c, i) \/ ReadItem(c, i) \/ Close(c, i)

Next ==
  /\ Crash \/ \E c \in Client : Call(c) \/ withSync(c)
  /\ UNCHANGED calls

Spec == Init /\ [][Next]_vars

-----------------------------------------------------------------------------
(* Types.  Neither an empty key nor a nil value reaches a library.           *)
TypeOK ==
  /\ calls \in Programs
  /\ backend \in Backends
  /\ versions \in Seq([number: 0 .. written, content: Contents]) /\ versions # <<>>
  /\ Store[EmptyKey] = Absent
  /\ batch \in [Client -> Seq(Op) \cup {nil}]
  /\ pend \in [Client -> Results \cup {nil}]
  /\ ret \in [Client -> Results]
  /\ owner \in [Iter -> Client \cup {NoOne}]
  /\ query \in [Iter -> Queries]
  /\ view \in [Iter -> Contents]
  /\ cursor \in [Iter -> Key \cup {nil}]
  /\ isInvalid \in [Iter -> BOOLEAN]
  /\ failed \in [Iter -> BOOLEAN]
  /\ closed \in [Iter -> BOOLEAN]
  /\ written \in 0 .. MaxWrites /\ acked \in 0 .. written /\ crashes \in 0 .. MaxCrashes
  /\ mine \in [Client -> 0 .. written]

(* A crash loses no write whose SetSync, DeleteSync or WriteSync (for BoltDB *)
(* any write) has returned, whatever other clients did between the write and *)
(* its sync.                                                                 *)
SyncedSurvives == [][crashes' # crashes => acked <= versions'[1].number]_vars

(***************************************************************************)
(* Refinement.  A write of BadgerDB takes effect, and has its result, when *)
(* the library has applied it, before the sync that it waits for.          *)
(***************************************************************************)
Rest(i) ==
  IF closed[i] \/ ~Valid(i) THEN {}
  ELSE {k \in Stored(view[i]) :
          /\ ~PastEnd(query[i], k)
          /\ IF query[i].reverse THEN k <= cursor[i] ELSE cursor[i] <= k}

KV == INSTANCE KVStore WITH
  BatchOp <- Op, doubtful <- <<>>,
  store <- Store,
  ret <- [c \in Client |-> IF pend[c] = nil THEN ret[c] ELSE pend[c]],
  rest <- [i \in Iter |-> Rest(i)],
  Less <- LAMBDA j, k : j < k

(* Between crashes every backend implements KVStore: reads, writes and       *)
(* batches are atomic, a new iterator stands on the first key of its domain  *)
(* (each backend seeks it in its own way, and in reverse has to step off the *)
(* exclusive end), shows every key of the domain and no other, and where it  *)
(* stops early Error() says so.                                              *)
ImplementsKVStore ==
  KV!DBInit /\ [][KV!DBNext \/ crashes' # crashes]_(KV!dbVars)
=============================================================================
