------------------------------- MODULE MemDB -------------------------------
(***************************************************************************)
(* MemDB, its batches and its iterators: memdb.go, memdb_batch.go and      *)
(* memdb_iterator.go.                                                      *)
(*                                                                         *)
(* Clients are goroutines that call the DB.  An iterator is served by a    *)
(* goroutine of its own, which walks the B-tree and feeds a bounded        *)
(* channel while it holds a read lock taken for it by the client.          *)
(*                                                                         *)
(* Keys are byte strings; only their order matters here, so a key is its   *)
(* rank in that order, and 0 is the rank of the empty string.  A nil slice *)
(* is nil.  The B-tree is the function from keys to what is stored.        *)
(***************************************************************************)
EXTENDS Naturals, Sequences, RWMutex

CONSTANTS
  Client,         \* goroutines that call the DB
  Iter,           \* iterators that can be created; each is used once
  Key, Value,     \* nonempty keys (as ranks), non-nil values
  nil, Absent,    \* a nil slice; no item in the tree
  Calls,          \* bound: per client, the groups of calls it makes, see StartCall
  Query,          \* the iterators that clients may ask for, a subset of Queries
  chBufferSize,   \* capacity of an iterator's channel (64 in the code)
  MaxBatch,       \* bound: operations in one batch
  MaxRaced,       \* bound: items a racing traversal has sent when it ends
  Discipline      \* what callers promise, see MayRead, MayWrite and MayOpen

EmptyKey == 0
KeyArg == Key \cup {EmptyKey}
ValueArg == Value \cup {nil}
EndPoint == KeyArg \cup {nil}

Queries == [start: EndPoint, end: EndPoint, reverse: BOOLEAN, useMtx: BOOLEAN]
Item == [key: Key, value: Value]
Op == [key: Key, value: Value \cup {Absent}]      \* Absent: a delete

ASSUME KeyAssumption == Key \subseteq Nat \ {EmptyKey}

ASSUME SentinelAssumption ==
  /\ nil \notin KeyArg /\ nil \notin Value
  /\ Absent \notin ValueArg
  /\ NoOne \notin Client \cup Iter
  /\ Client \cap Iter = {}

ASSUME BoundAssumption ==
  /\ Query \subseteq Queries
  /\ chBufferSize \in Nat \ {0}
  /\ MaxBatch \in Nat /\ MaxRaced \in Nat
  /\ Discipline \in {"free", "contract", "strict"}

VARIABLES
  btree,          \* key -> value or Absent
  (* Per client. *)
  pc,             \* where the client is in its call, "idle" outside one
  arg,            \* arguments of a running call on a key
  on,             \* iterator of a running iterator method
  work,           \* operations that a running write has still to apply
  batch,          \* operations of the client's batch; nil when closed
  ret,            \* the last call that returned data or an error, and its result
  (* Per iterator: the memDBIterator and its traversal goroutine. *)
  owner,          \* the client that created it
  query,          \* its arguments
  scan,           \* the goroutine: "none", "visit", "closed" (ch), "done"
  pos,            \* last key the B-tree passed to the visitor, or nil
  skipEqual,      \* the visitor's variable of that name
  cancelled,      \* cancel() was called
  sent,           \* all items put on the channel so far
  recvd,          \* how many of them were received
  cur,            \* index in sent of the field item, 0 when it is nil
  (* History, for the properties. *)
  committed,      \* the tree without the changes of a write in progress
  snap,           \* the tree when the iterator got its lock
  raced           \* a write hit the tree during an unlocked traversal

treeVars == <<btree, committed>>
callVars == <<pc, arg, on, ret>>
scanVars == <<scan, pos, skipEqual, sent>>
iterVars == <<owner, query, cancelled, recvd, cur, snap>>
vars == <<treeVars, callVars, work, batch, scanVars, iterVars, raced, mtxVars>>

NoQuery == [start |-> nil, end |-> nil, reverse |-> FALSE, useMtx |-> TRUE]

NoArg == [key |-> EmptyKey, value |-> Absent]

(* A completed call: what it was or how it failed, and its arguments or data. *)
Result(s, k, v) == [status |-> s, key |-> k, value |-> v]
Status(s) == Result(s, EmptyKey, nil)

(* The keys of a sequence of items or operations. *)
KeysIn(items) == {items[n].key : n \in DOMAIN items}

(* NewMemDB.  A client starts as one whose previous batch is closed. *)
Init ==
  /\ btree = [k \in KeyArg |-> Absent]
  /\ committed = btree
  /\ pc = [c \in Client |-> "idle"]
  /\ arg = [c \in Client |-> NoArg]
  /\ on = [c \in Client |-> NoOne]
  /\ work = [c \in Client |-> <<>>]
  /\ batch = [c \in Client |-> nil]
  /\ ret = [c \in Client |-> Status("none")]
  /\ owner = [i \in Iter |-> NoOne]
  /\ query = [i \in Iter |-> NoQuery]
  /\ scan = [i \in Iter |-> "none"]
  /\ pos = [i \in Iter |-> nil]
  /\ skipEqual = [i \in Iter |-> nil]
  /\ cancelled = [i \in Iter |-> FALSE]
  /\ sent = [i \in Iter |-> <<>>]
  /\ recvd = [i \in Iter |-> 0]
  /\ cur = [i \in Iter |-> 0]
  /\ snap = [i \in Iter |-> btree]
  /\ raced = [i \in Iter |-> FALSE]
  /\ MtxInit

-----------------------------------------------------------------------------
(* Entering and leaving a call. *)

Enter(c, where, a, i) ==
  /\ pc[c] = "idle"
  /\ pc' = [pc EXCEPT ![c] = where]
  /\ arg' = [arg EXCEPT ![c] = a]
  /\ on' = [on EXCEPT ![c] = i]
  /\ UNCHANGED ret

Return(c, result) ==
  /\ pc' = [pc EXCEPT ![c] = "idle"]
  /\ arg' = [arg EXCEPT ![c] = NoArg]
  /\ on' = [on EXCEPT ![c] = NoOne]
  /\ ret' = [ret EXCEPT ![c] = result]

(* A call that returns at once, without having touched the DB. *)
ReturnAtOnce(c, result) ==
  /\ pc[c] = "idle"
  /\ Return(c, result)
  /\ UNCHANGED <<treeVars, work, batch, scanVars, iterVars, raced, mtxVars>>

-----------------------------------------------------------------------------
(***************************************************************************)
(* What callers promise.  "free": nothing.  "contract": the CONTRACT of    *)
(* DB.Iterator, no write within a domain while an iterator exists over it, *)
(* and a goroutine does not write while it has an iterator open itself.    *)
(* "strict": a goroutine with an open iterator calls only its methods.     *)
(***************************************************************************)
IsKeyInDomain(k, start, end) ==
  /\ start = nil \/ start <= k
  /\ end = nil \/ k < end

InDomain(q, k) == IsKeyInDomain(k, q.start, q.end)

IsOpen(i) == owner[i] # NoOne /\ ~cancelled[i]
HasOpenIterator(c) == \E i \in Iter : IsOpen(i) /\ owner[i] = c

MayRead(c) == Discipline = "strict" => ~HasOpenIterator(c)

MayWrite(c, ops) ==
  /\ Discipline # "free" => ~HasOpenIterator(c)
  /\ Discipline = "contract" =>
       \A i \in Iter, n \in DOMAIN ops :
         IsOpen(i) => ~InDomain(query[i], ops[n].key)

MayOpen(c, q) ==
  /\ Discipline = "strict" => ~HasOpenIterator(c)
  /\ Discipline = "contract" =>
       \A d \in Client : \A k \in KeysIn(work[d]) : ~InDomain(q, k)

-----------------------------------------------------------------------------
(* Get, Has, Print, Stats. *)

ReadCall(c, where, k) ==
  /\ MayRead(c)
  /\ Enter(c, where, [key |-> k, value |-> Absent], NoOne)
  /\ RLock(c)
  /\ UNCHANGED <<treeVars, work, batch, scanVars, iterVars, raced>>

Get(c, k) ==
  \/ k = EmptyKey /\ ReturnAtOnce(c, Result("errKeyEmpty", k, nil))
  \/ k # EmptyKey /\ ReadCall(c, "get", k)

Has(c, k) ==
  \/ k = EmptyKey /\ ReturnAtOnce(c, Result("errKeyEmpty", k, nil))
  \/ k # EmptyKey /\ ReadCall(c, "has", k)

(* Print and Stats: both read the whole tree under the read lock. *)
Inspect(c) == ReadCall(c, "inspect", EmptyKey)

(* What a read finds in tree t; a missing key is a nil value. *)
ReadResult(where, t, k) ==
  CASE where = "get" -> Result("get", k, IF t[k] = Absent THEN nil ELSE t[k])
    [] where = "has" -> Result(IF t[k] = Absent THEN "false" ELSE "true", k, nil)
    [] where = "inspect" -> Status("inspect")

(* The body of a read, and its deferred RUnlock. *)
FinishRead(c) ==
  /\ pc[c] \in {"get", "has", "inspect"}
  /\ Return(c, ReadResult(pc[c], btree, arg[c].key))
  /\ RUnlock(c)
  /\ UNCHANGED <<treeVars, work, batch, scanVars, iterVars, raced>>

ReadReturnUnlocked(c) == FinishRead(c)    \* mutant: a read without the lock
ReadReturn(c) == c \in readers /\ FinishRead(c)

-----------------------------------------------------------------------------
(* Set, Delete and the batch's Write; the Sync variants are the same calls. *)

LockCall(c, where, a, ops) ==
  /\ MayWrite(c, ops)
  /\ Enter(c, where, a, NoOne)
  /\ work' = [work EXCEPT ![c] = ops]
  /\ UNCHANGED <<treeVars, batch, scanVars, iterVars, raced, mtxVars>>

SetCall(c, op) == LockCall(c, "set", op, <<op>>)

Set(c, k, v) ==
  \/ k = EmptyKey /\ ReturnAtOnce(c, Result("errKeyEmpty", k, nil))
  \/ k # EmptyKey /\ v = nil /\ ReturnAtOnce(c, Result("errValueNil", EmptyKey, v))
  \/ k # EmptyKey /\ v # nil /\ SetCall(c, [key |-> k, value |-> v])

Delete(c, k) ==
  \/ k = EmptyKey /\ ReturnAtOnce(c, Result("errKeyEmpty", k, nil))
  \/ k # EmptyKey /\ SetCall(c, [key |-> k, value |-> Absent])

Write(c) ==
  \/ batch[c] = nil /\ ReturnAtOnce(c, Status("errBatchClosed"))
  \/ batch[c] # nil /\ LockCall(c, "write", NoArg, batch[c])

(* db.mtx.Lock(), in the two stages of RWMutex. *)
Lock(c) ==
  /\ pc[c] \in {"set", "write"}
  /\ \/ LockPending(c)
     \/ LockAcquired(c)
  /\ UNCHANGED <<treeVars, callVars, work, batch, scanVars, iterVars, raced>>

(* One call of set or delete.  A traversal that holds no lock races with it. *)
Apply(c) ==
  /\ writer = c /\ locked
  /\ work[c] # <<>>
  /\ LET op == Head(work[c]) IN
       btree' = [btree EXCEPT ![op.key] = op.value]
  /\ work' = [work EXCEPT ![c] = Tail(@)]
  /\ raced' = [i \in Iter |-> raced[i] \/ (scan[i] = "visit" /\ ~query[i].useMtx)]
  /\ UNCHANGED <<committed, callVars, batch, scanVars, iterVars, mtxVars>>

(* The end of a write; a batch is closed before the deferred Unlock. *)
FinishWrite(c) ==
  /\ work[c] = <<>>
  /\ batch' = [batch EXCEPT ![c] = IF pc[c] = "write" THEN nil ELSE @]
  /\ committed' = btree
  /\ Return(c, IF pc[c] = "write" THEN Status("write")
               ELSE Result("set", arg[c].key, arg[c].value))
  /\ UNCHANGED <<btree, work, scanVars, iterVars, raced>>

WriteReturnLocked(c) ==                   \* mutant: the Unlock is forgotten
  pc[c] = "set" /\ writer = c /\ locked /\ FinishWrite(c) /\ UNCHANGED mtxVars

WriteReturn(c) == Unlock(c) /\ FinishWrite(c)

-----------------------------------------------------------------------------
(* The batch: a list of operations that only its client uses. *)

ChangeBatch(c, ops, result) ==
  /\ pc[c] = "idle"
  /\ batch' = [batch EXCEPT ![c] = ops]
  /\ Return(c, result)
  /\ UNCHANGED <<treeVars, work, scanVars, iterVars, raced, mtxVars>>

AppendOp(c, op) ==
  \/ batch[c] = nil /\ ReturnAtOnce(c, Status("errBatchClosed"))
  \/ /\ batch[c] # nil
     /\ Len(batch[c]) < MaxBatch
     /\ ChangeBatch(c, Append(batch[c], op), Result("append", op.key, op.value))

NewBatch(c) == ChangeBatch(c, <<>>, Status("new"))

BatchSetNil(c, k, v) ==                   \* mutant: a batch accepts a nil value
  k # EmptyKey /\ AppendOp(c, [key |-> k, value |-> v])

BatchSet(c, k, v) ==
  \/ k = EmptyKey /\ ReturnAtOnce(c, Result("errKeyEmpty", k, nil))
  \/ k # EmptyKey /\ v = nil /\ ReturnAtOnce(c, Result("errValueNil", EmptyKey, v))
  \/ k # EmptyKey /\ v # nil /\ AppendOp(c, [key |-> k, value |-> v])

BatchDelete(c, k) ==
  \/ k = EmptyKey /\ ReturnAtOnce(c, Result("errKeyEmpty", k, nil))
  \/ k # EmptyKey /\ AppendOp(c, [key |-> k, value |-> Absent])

BatchClose(c) == ChangeBatch(c, nil, Status("close"))

-----------------------------------------------------------------------------
(* The traversal that newMemDBIteratorMtxChoice selects for its arguments.   *)

Rank(bytes) == IF bytes = nil THEN EmptyKey ELSE bytes

(* The keys its B-tree method covers (github.com/google/btree). *)
Covered(q) ==
  CASE q.start = nil /\ q.end = nil -> KeyArg
    [] q.start # nil /\ q.end = nil /\ ~q.reverse -> {k \in KeyArg : q.start <= k}
    [] q.end # nil /\ ~q.reverse -> {k \in KeyArg : Rank(q.start) <= k /\ k < q.end}
    [] q.start # nil /\ q.end = nil /\ q.reverse -> KeyArg
    [] q.end # nil /\ q.reverse -> {k \in KeyArg : k <= q.end}

(* Its settings of the variables skipEqual and abortLessThan. *)
SkipEqual(q) == IF q.reverse /\ q.end # nil THEN q.end ELSE nil
AbortLessThan(q) == IF q.reverse /\ ~(q.start = nil /\ q.end = nil) THEN q.start ELSE nil

(* j comes before k in the direction of q. *)
Before(q, j, k) == IF q.reverse THEN k < j ELSE j < k

(* The items the B-tree has still to pass to the visitor, and the next one. *)
Unvisited(i) ==
  {k \in Covered(query[i]) : /\ btree[k] # Absent
                             /\ pos[i] = nil \/ Before(query[i], pos[i], k)}

IsNextKey(i, k) ==
  /\ k \in Unvisited(i)
  /\ \A j \in Unvisited(i) \ {k} : Before(query[i], k, j)

-----------------------------------------------------------------------------
(* The traversal goroutine.  The channel holds sent[i] beyond recvd[i]. *)

Full(i) == Len(sent[i]) - recvd[i] >= chBufferSize
Drained(i) == recvd[i] = Len(sent[i])
ChClosed(i) == scan[i] \in {"closed", "done"}

(* The B-tree method returns, and the goroutine closes the channel. *)
EndScan(i) ==
  /\ scan' = [scan EXCEPT ![i] = "closed"]
  /\ UNCHANGED <<pos, skipEqual, sent>>

Send(i, item) ==
  /\ ~Full(i)
  /\ sent' = [sent EXCEPT ![i] = Append(@, item)]
  /\ pos' = [pos EXCEPT ![i] = item.key]
  /\ UNCHANGED <<scan, skipEqual>>

IsAborted(i, k) ==
  LET abortLessThan == AbortLessThan(query[i])
  IN  abortLessThan # nil /\ k < abortLessThan

(* One call of the visitor; select takes any of its cases that is ready. *)
Visitor(i, item) ==
  IF item.key = skipEqual[i]
    THEN /\ skipEqual' = [skipEqual EXCEPT ![i] = nil]
         /\ pos' = [pos EXCEPT ![i] = item.key]
         /\ UNCHANGED <<scan, sent>>
    ELSE \/ IsAborted(i, item.key) /\ EndScan(i)
         \/ ~IsAborted(i, item.key) /\ cancelled[i] /\ EndScan(i)
         \/ ~IsAborted(i, item.key) /\ Send(i, item)

(* The B-tree calls the visitor with the next item, or is through.  What it  *)
(* does after a write has raced with it is undefined: any item, or the end.  *)
Visit(i) ==
  /\ scan[i] = "visit"
  /\ \/ ~raced[i] /\ Unvisited(i) = {} /\ EndScan(i)
     \/ /\ ~raced[i]
        /\ \E k \in Unvisited(i) :
             IsNextKey(i, k) /\ Visitor(i, [key |-> k, value |-> btree[k]])
     \/ raced[i] /\ EndScan(i)
     \/ /\ raced[i]
        /\ Len(sent[i]) < MaxRaced
        /\ \E item \in Item : Visitor(i, item)
  /\ UNCHANGED <<treeVars, callVars, work, batch, iterVars, raced, mtxVars>>

(* The deferred RUnlock runs after close(ch). *)
EndGoroutine(i) ==
  /\ scan[i] = "closed"
  /\ scan' = [scan EXCEPT ![i] = "done"]
  /\ UNCHANGED <<treeVars, callVars, work, batch, pos, skipEqual, sent, iterVars, raced>>

ExitScanLocked(i) == EndGoroutine(i) /\ UNCHANGED mtxVars    \* mutant: no RUnlock

ExitScan(i) ==
  /\ EndGoroutine(i)
  /\ IF query[i].useMtx THEN RUnlock(i) ELSE UNCHANGED mtxVars

-----------------------------------------------------------------------------
(***************************************************************************)
(* Iterator, ReverseIterator and their NoMtx variants: the lock, then the  *)
(* goroutine, then the first receive.  The calls on the iterator follow.   *)
(* A panic is a result.  Next, Close and a successful Iterator return no   *)
(* data and leave ret alone.                                               *)
(***************************************************************************)
OpenCall(c, i, q) ==
  /\ owner[i] = NoOne
  /\ MayOpen(c, q)
  /\ Enter(c, "open", NoArg, i)
  /\ owner' = [owner EXCEPT ![i] = c]
  /\ query' = [query EXCEPT ![i] = q]
  /\ IF q.useMtx THEN RLock(i) ELSE UNCHANGED mtxVars
  /\ UNCHANGED <<treeVars, work, batch, scanVars, cancelled, recvd, cur, snap, raced>>

NewIterator(c, i, q) ==
  \/ \E k \in {q.start, q.end} : k = EmptyKey /\ ReturnAtOnce(c, Result("errKeyEmpty", k, nil))
  \/ EmptyKey \notin {q.start, q.end} /\ OpenCall(c, i, q)

GoScan(c) ==
  LET i == on[c] IN
  /\ pc[c] = "open"
  /\ scan' = [scan EXCEPT ![i] = "visit"]
  /\ skipEqual' = [skipEqual EXCEPT ![i] = SkipEqual(query[i])]
  /\ snap' = [snap EXCEPT ![i] = btree]
  /\ pc' = [pc EXCEPT ![c] = "receive"]
  /\ UNCHANGED <<treeVars, arg, on, ret, work, batch, pos, sent,
                 owner, query, cancelled, recvd, cur, raced>>

HasLock(c) == query[on[c]].useMtx => on[c] \in readers

SpawnUnlocked(c) == GoScan(c) /\ UNCHANGED mtxVars           \* mutant: no RLock
SpawnAndUnlock(c) == GoScan(c) /\ HasLock(c) /\ RUnlock(on[c]) \* mutant: RUnlock too early
Spawn(c) == GoScan(c) /\ HasLock(c) /\ UNCHANGED mtxVars

(* item, ok := <-ch, in the constructor and in Next. *)
Receive(c) ==
  LET i == on[c] IN
  /\ pc[c] = "receive"
  /\ \/ /\ ~Drained(i)
        /\ recvd' = [recvd EXCEPT ![i] = @ + 1]
        /\ cur' = [cur EXCEPT ![i] = recvd[i] + 1]
     \/ /\ Drained(i) /\ ChClosed(i)
        /\ cur' = [cur EXCEPT ![i] = 0]
        /\ UNCHANGED recvd
  /\ Return(c, ret[c])
  /\ UNCHANGED <<treeVars, work, batch, scanVars, owner, query, cancelled, snap, raced, mtxVars>>

Valid(i) == cur[i] # 0

NextCall(c, i) ==
  /\ Enter(c, "receive", NoArg, i)
  /\ UNCHANGED <<treeVars, work, batch, scanVars, iterVars, raced, mtxVars>>

IteratorNext(c, i) ==
  /\ owner[i] = c
  /\ \/ ~Valid(i) /\ ReturnAtOnce(c, Status("panic"))
     \/ Valid(i) /\ NextCall(c, i)

(* Key and Value. *)
ReadItem(c, i) ==
  /\ owner[i] = c
  /\ \/ ~Valid(i) /\ ReturnAtOnce(c, Status("panic"))
     \/ /\ Valid(i)
        /\ LET item == sent[i][cur[i]]
           IN  ReturnAtOnce(c, Result("item", item.key, item.value))

Close(c, i) ==
  /\ owner[i] = c
  /\ Enter(c, "drain", NoArg, i)
  /\ cancelled' = [cancelled EXCEPT ![i] = TRUE]
  /\ UNCHANGED <<treeVars, work, batch, scanVars, owner, query, recvd, cur, snap, raced, mtxVars>>

(* for range i.ch { }; i.item = nil *)
Drain(c) ==
  LET i == on[c] IN
  /\ pc[c] = "drain"
  /\ \/ /\ ~Drained(i)
        /\ recvd' = [recvd EXCEPT ![i] = @ + 1]
        /\ UNCHANGED <<callVars, cur>>
     \/ /\ Drained(i) /\ ChClosed(i)
        /\ cur' = [cur EXCEPT ![i] = 0]
        /\ Return(c, ret[c])
        /\ UNCHANGED recvd
  /\ UNCHANGED <<treeVars, work, batch, scanVars, owner, query, cancelled, snap, raced, mtxVars>>

-----------------------------------------------------------------------------
(* A step that a running call takes, and a step that starts a call. *)
Step(c) ==
  \/ ReadReturn(c) \/ Lock(c) \/ Apply(c) \/ WriteReturn(c)
  \/ Spawn(c) \/ Receive(c) \/ Drain(c)

(* A call with an empty key or a nil value. *)
InvalidCall(c) ==
  \/ Get(c, EmptyKey) \/ Has(c, EmptyKey) \/ Delete(c, EmptyKey) \/ BatchDelete(c, EmptyKey)
  \/ \E k \in KeyArg, v \in ValueArg :
       /\ k = EmptyKey \/ v = nil
       /\ Set(c, k, v) \/ BatchSet(c, k, v)

StartCall(c) ==
  \/ "get" \in Calls[c] /\ \E k \in Key : Get(c, k)
  \/ "has" \in Calls[c] /\ (Inspect(c) \/ \E k \in Key : Has(c, k))
  \/ "set" \in Calls[c] /\ \E k \in Key, v \in Value : Set(c, k, v)
  \/ "delete" \in Calls[c] /\ \E k \in Key : Delete(c, k)
  \/ "invalid" \in Calls[c] /\ InvalidCall(c)
  \/ /\ "batch" \in Calls[c]
     /\ \/ NewBatch(c) \/ Write(c) \/ BatchClose(c)
        \/ \E k \in Key, v \in Value : BatchSet(c, k, v)
        \/ \E k \in Key : BatchDelete(c, k)
  \/ /\ "iterate" \in Calls[c]
     /\ \E i \in Iter : \/ \E q \in Query : NewIterator(c, i, q)
                        \/ IteratorNext(c, i) \/ Close(c, i)
  \/ /\ "item" \in Calls[c]
     /\ \E i \in Iter : ReadItem(c, i)

Goroutine(i) == Visit(i) \/ ExitScan(i)

Next ==
  \/ \E c \in Client : Step(c) \/ StartCall(c)
  \/ \E i \in Iter : Goroutine(i)

Spec == Init /\ [][Next]_vars

(***************************************************************************)
(* Fairness.  The scheduler runs every goroutine that can run; sync.Mutex  *)
(* hands itself over in FIFO order once a waiter starves, so a writer gets *)
(* its turn (strong fairness of Lock); a caller closes its iterators.      *)
(***************************************************************************)
CloseOpen(c) == \E i \in Iter : ~cancelled[i] /\ Close(c, i)

Fairness ==
  /\ \A c \in Client : /\ WF_vars(Step(c))
                        /\ SF_vars(Lock(c))
                        /\ WF_vars(CloseOpen(c))
  /\ \A i \in Iter : WF_vars(Goroutine(i))

FairSpec == Spec /\ Fairness

-----------------------------------------------------------------------------
Args == [key: KeyArg, value: Value \cup {Absent}]

Statuses ==
  {"none", "get", "true", "false", "inspect", "set", "write", "new", "append", "close",
   "item", "panic", "errKeyEmpty", "errValueNil", "errBatchClosed"}

Results == [status: Statuses, key: KeyArg, value: ValueArg \cup {Absent}]

Tree == [KeyArg -> Value \cup {Absent}]

TreeTypes ==
  /\ btree \in Tree /\ btree[EmptyKey] = Absent
  /\ committed \in Tree

CallTypes ==
  /\ pc \in [Client -> {"idle", "get", "has", "inspect", "set", "write",
                        "open", "receive", "drain"}]
  /\ arg \in [Client -> Args]
  /\ on \in [Client -> Iter \cup {NoOne}]
  /\ ret \in [Client -> Results]

WriteTypes ==
  /\ work \in [Client -> Seq(Op)]
  /\ batch \in [Client -> Seq(Op) \cup {nil}]

ScanTypes ==
  /\ scan \in [Iter -> {"none", "visit", "closed", "done"}]
  /\ pos \in [Iter -> Key \cup {nil}]
  /\ skipEqual \in [Iter -> EndPoint]
  /\ sent \in [Iter -> Seq(Item)]

IterTypes ==
  /\ owner \in [Iter -> Client \cup {NoOne}]
  /\ query \in [Iter -> Queries]
  /\ cancelled \in [Iter -> BOOLEAN]
  /\ recvd \in [Iter -> Nat]
  /\ cur \in [Iter -> Nat]
  /\ snap \in [Iter -> Tree]
  /\ raced \in [Iter -> BOOLEAN]

MtxTypes ==
  /\ readers \subseteq Client \cup Iter
  /\ queue \subseteq Client \cup Iter
  /\ writer \in Client \cup {NoOne}
  /\ locked \in BOOLEAN

(* Types.  Neither an empty key nor a nil value is ever stored, nor kept in  *)
(* a batch or a pending write: the checks at the head of Set, Delete and the *)
(* batch methods are on every path to set() and delete().                    *)
TypeOK ==
  TreeTypes /\ CallTypes /\ WriteTypes /\ ScanTypes /\ IterTypes /\ MtxTypes

(* While a Set, a Delete or a batch changes the tree, no other client is in  *)
(* the middle of a read and no locking iterator's goroutine is traversing.   *)
WriterIsAlone ==
  locked =>
    /\ \A c \in Client : pc[c] \in {"get", "has", "inspect"} => c \in queue
    /\ \A i \in Iter : query[i].useMtx => scan[i] \in {"none", "done"}

(* The items in tree t that an iterator with arguments q must deliver. *)
Content(t, q) == {k \in KeyArg : InDomain(q, k) /\ t[k] # Absent}

(* An iterator that no write races with delivers the content of its domain   *)
(* as it was when the iterator was created: in order, each item once, with   *)
(* its value then; and when it becomes invalid without having been closed it *)
(* has delivered all of it.  This covers the six-way switch on the arguments *)
(* and writes that get the lock once the last item is in the channel.        *)
IteratorIsSnapshot ==
  \A i \in Iter : scan[i] # "none" /\ ~raced[i] =>
    /\ \A n \in DOMAIN sent[i] :
         /\ sent[i][n].key \in Content(snap[i], query[i])
         /\ sent[i][n].value = snap[i][sent[i][n].key]
    /\ \A m, n \in DOMAIN sent[i] :
         m < n => Before(query[i], sent[i][m].key, sent[i][n].key)
    /\ ~cancelled[i] /\ ChClosed(i) => KeysIn(sent[i]) = Content(snap[i], query[i])

(***************************************************************************)
(* Refinement.  The store is the committed tree.  An iterator exists from  *)
(* the moment its goroutine is started, and it has yet to leave behind the *)
(* current item, the items in the channel, and those that the visitor will *)
(* put there.                                                              *)
(***************************************************************************)
IsStarted(i) == scan[i] # "none"

FutureKeys(i) ==
  IF scan[i] = "visit"
    THEN {k \in Unvisited(i) : k # skipEqual[i] /\ ~IsAborted(i, k)}
    ELSE {}

HeldKeys(i) ==
  {sent[i][n].key : n \in {m \in DOMAIN sent[i] : m > recvd[i] \/ m = cur[i]}}

Rest(i) == IF cancelled[i] THEN {} ELSE HeldKeys(i) \cup FutureKeys(i)

Owners == [i \in Iter |-> IF IsStarted(i) THEN owner[i] ELSE NoOne]
Asked == [i \in Iter |-> IF IsStarted(i) THEN query[i] ELSE NoQuery]
Rests == [i \in Iter |-> Rest(i)]
NeverFails == [i \in Iter |-> FALSE]

KV == INSTANCE KVStore WITH
  BatchOp <- Op, doubtful <- <<>>,
  store <- committed, view <- snap,
  owner <- Owners, query <- Asked, rest <- Rests, failed <- NeverFails,
  closed <- cancelled,
  Less <- LAMBDA j, k : j < k

(* MemDB implements KVStore for clients that use the locking iterators:      *)
(* reads and writes are atomic, no reader and no iterator ever sees part of  *)
(* a batch, and an iterator shows exactly the items of its snapshot.         *)
ImplementsKVStore == KV!DBSpec

(* Every call returns, also with writers and readers waiting for each other, *)
(* if goroutines call nothing else while they have an iterator open.         *)
CallsReturn == \A c \in Client : pc[c] # "idle" ~> pc[c] = "idle"

(* types.go: "DBs are concurrency-safe."  A Get returns, whatever other       *)
(* goroutines do that the documented contracts allow.                        *)
GetReturns == \A c \in Client : pc[c] = "get" ~> pc[c] = "idle"

(* Close ends the traversal goroutine wherever it is (also when it is        *)
(* blocked on a full channel), and with it the read lock is given back.      *)
CloseFreesLock == \A i \in Iter : cancelled[i] ~> scan[i] = "done" /\ i \notin readers
=============================================================================
