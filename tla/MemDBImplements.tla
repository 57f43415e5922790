-------------------------- MODULE MemDBImplements --------------------------
(***************************************************************************)
(* MemDB implements KVStore for clients that use the locking iterators:    *)
(* the proof, for any number of clients, iterators and keys, any channel   *)
(* capacity, and callers of any discipline.                                *)
(***************************************************************************)
EXTENDS MemDBProofs

(* Leaves are tried with Zenon, and with SMT where they say so. *)
USE Zenon

-----------------------------------------------------------------------------
(***************************************************************************)
(* Each step is a step of KVStore or changes nothing of it.                *)
(***************************************************************************)
abstractVars == <<committed, batch, Owners, Asked, snap, cancelled, Rests, ret>>

Simulated == KV!DBNext \/ UNCHANGED abstractVars

SafeInv == BasicInv /\ LockInv /\ ScanInv /\ RaceInv /\ WriteInv /\ IterInv

(* The statuses and results of the two modules are the same records. *)
LEMMA SameResults ==
  /\ \A st : KV!Status(st) = Status(st)
  /\ \A st, k, v : KV!Result(st, k, v) = Result(st, k, v)
BY DEF KV!Status, KV!Result, Status, Result

LEMMA NeverFailsStays == NeverFails' = NeverFails
BY DEF NeverFails

(* What is shown of iterator j stays the same. *)
SameShown(j) ==
  scan'[j] = scan[j] /\ owner'[j] = owner[j] /\ query'[j] = query[j] /\ Rest(j)' = Rest(j)

LEMMA ShownFrame ==
  ASSUME NEW j \in Iter, SameIter(j), pos'[j] = pos[j], skipEqual'[j] = skipEqual[j],
         scan[j] = "visit" => btree' = btree
  PROVE  SameShown(j)
<1>1. HeldKeys(j)' = HeldKeys(j)
  BY DEF HeldKeys, SameIter
<1>2. FutureKeys(j)' = FutureKeys(j)
  <2>1. CASE scan[j] = "visit"
    BY <2>1 DEF FutureKeys, Unvisited, IsAborted, SameIter
  <2>2. CASE scan[j] # "visit"
    BY <2>2 DEF FutureKeys, SameIter
  <2>. QED
    BY <2>1, <2>2
<1>. QED
  BY <1>1, <1>2 DEF SameShown, SameIter, Rest

LEMMA OneIterator ==
  ASSUME NEW i \in Iter, \A j \in Iter : j # i => SameShown(j)
  PROVE  /\ Rests' = [Rests EXCEPT ![i] = Rest(i)']
         /\ Owners' = [Owners EXCEPT ![i] = IF IsStarted(i)' THEN owner'[i] ELSE NoOne]
         /\ Asked' = [Asked EXCEPT ![i] = IF IsStarted(i)' THEN query'[i] ELSE NoQuery]
<1>1. \A j \in Iter : Rests'[j] = IF j = i THEN Rest(i)' ELSE Rests[j]
  BY DEF Rests, SameShown
<1>2. \A j \in Iter : Owners'[j] = IF j = i THEN IF IsStarted(i)' THEN owner'[i] ELSE NoOne
                                   ELSE Owners[j]
  BY DEF Owners, IsStarted, SameShown
<1>3. \A j \in Iter : Asked'[j] = IF j = i THEN IF IsStarted(i)' THEN query'[i] ELSE NoQuery
                                  ELSE Asked[j]
  BY DEF Asked, IsStarted, SameShown
<1>. QED
  BY <1>1, <1>2, <1>3 DEF Rests, Owners, Asked

LEMMA AllShown ==
  ASSUME \A j \in Iter : SameShown(j)
  PROVE  UNCHANGED <<Rests, Owners, Asked>>
BY DEF SameShown, Rests, Owners, Asked, IsStarted

(* A step that leaves all iterators alone. *)
LEMMA ItersUnchanged ==
  ASSUME UNCHANGED <<scanVars, owner, query, cancelled, recvd, cur>>,
         \A j \in Iter : scan[j] = "visit" => btree' = btree
  PROVE  UNCHANGED <<Rests, Owners, Asked>>
<1>1. \A j \in Iter : SameShown(j)
  BY ShownFrame DEF SameIter, scanVars
<1>. QED
  BY <1>1, AllShown

LEMMA AnswerMaps ==
  ASSUME NEW c \in Client, NEW r, ReturnAtOnce(c, r)
  PROVE  /\ KV!Reply(c, r) /\ pc[c] = "idle"
         /\ UNCHANGED <<committed, batch, Owners, Asked, snap, cancelled, Rests, NeverFails>>
<1>1. /\ pc[c] = "idle" /\ ret' = [ret EXCEPT ![c] = r]
      /\ UNCHANGED <<btree, committed, batch, scanVars, iterVars>>
  BY DEF ReturnAtOnce, Return, treeVars
<1>2. UNCHANGED <<Rests, Owners, Asked>>
  BY <1>1, ItersUnchanged DEF iterVars
<1>. QED
  BY <1>1, <1>2, NeverFailsStays DEF KV!Reply, iterVars

LEMMA AnsweredSimulated ==
  ASSUME SafeInv, NEW c \in Client, Answered(c)
  PROVE  Simulated
<1>. USE DEF KV!iterVars
<1>1. ASSUME NEW e \in {"errKeyEmpty", "errValueNil"}, ReturnAtOnce(c, Status(e))
      PROVE  Simulated
  <2>1. KV!Refuse(c)
    BY <1>1, AnswerMaps, SameResults DEF KV!Refuse, Status
  <2>. QED
    BY <2>1 DEF Simulated, KV!DBNext
<1>2. CASE batch[c] = nil /\ ReturnAtOnce(c, Status("errBatchClosed"))
  <2>1. KV!BatchIsClosed(c)
    BY <1>2, AnswerMaps, SameResults DEF KV!BatchIsClosed
  <2>. QED
    BY <2>1 DEF Simulated, KV!DBNext
<1>3. ASSUME NEW i \in Iter, owner[i] = c, ~Valid(i), ReturnAtOnce(c, Status("panic"))
      PROVE  Simulated
  <2>1. /\ KV!Reply(c, KV!Status("panic")) /\ pc[c] = "idle"
        /\ UNCHANGED <<committed, batch, Owners, Asked, snap, cancelled, Rests, NeverFails>>
    BY <1>3, AnswerMaps, SameResults
  <2>2. scan[i] # "none" /\ (~cancelled[i] => Drained(i) /\ ChClosed(i)) /\ cur[i] = 0
    BY <1>3, <2>1, OwnedIsStarted DEF SafeInv, Valid
  <2>3. Rest(i) = {}
    BY <2>2, NothingLeft DEF SafeInv, Rest
  <2>4. Owners[i] = c /\ Rests[i] = {}
    BY <1>3, <2>2, <2>3 DEF Owners, Rests, IsStarted
  <2>5. KV!IteratorPanics(c, i)
    BY <2>1, <2>4 DEF KV!IteratorPanics
  <2>. QED
    BY <2>5 DEF Simulated, KV!DBNext
<1>4. ASSUME NEW i \in Iter, owner[i] = c, Valid(i),
             ReturnAtOnce(c, Result("item", sent[i][cur[i]].key, sent[i][cur[i]].value))
      PROVE  Simulated
  <2>1. PICK k, v : k = sent[i][cur[i]].key /\ v = sent[i][cur[i]].value
    OBVIOUS
  <2>2. /\ KV!Reply(c, KV!Result("item", k, v)) /\ pc[c] = "idle"
        /\ UNCHANGED <<committed, batch, Owners, Asked, snap, cancelled, Rests, NeverFails>>
    BY <1>4, <2>1, AnswerMaps, SameResults
  <2>3. scan[i] # "none" /\ ~cancelled[i] /\ cur[i] = recvd[i] /\ cur[i] # 0
    BY <1>4, <2>2, OwnedIsStarted DEF SafeInv, Valid
  <2>4. TraversalInv(i)
    BY <2>3 DEF SafeInv, ScanInv, RaceInv
  <2>5. k \in Rest(i) /\ KV!First(query[i], Rest(i)) = k /\ v = snap[i][k]
    BY <2>1, <2>3, <2>4, CurrentIsFirst DEF SafeInv
  <2>6. Owners[i] = c /\ Rests[i] = Rest(i) /\ Asked[i] = query[i]
    BY <1>4, <2>3 DEF Owners, Rests, Asked, IsStarted
  <2>7. KV!First(Asked[i], Rests[i]) = k /\ Rests[i] # {}
    BY <2>5, <2>6
  <2>8. KV!Current(c, i)
    BY <2>2, <2>5, <2>6, <2>7 DEF KV!Current, KV!Reply
  <2>. QED
    BY <2>8 DEF Simulated, KV!DBNext
<1>. QED
  BY <1>1, <1>2, <1>3, <1>4 DEF Answered

LEMMA BatchSimulated ==
  ASSUME NEW c \in Client, BatchChanged(c)
  PROVE  Simulated
<1>1. ASSUME NEW ops, NEW r, ChangeBatch(c, ops, r)
      PROVE  /\ batch' = [batch EXCEPT ![c] = ops] /\ KV!Reply(c, r)
             /\ UNCHANGED <<committed, Owners, Asked, snap, cancelled, Rests, NeverFails>>
  <2>1. /\ batch' = [batch EXCEPT ![c] = ops] /\ ret' = [ret EXCEPT ![c] = r]
        /\ UNCHANGED <<btree, committed, scanVars, iterVars>>
    BY <1>1 DEF ChangeBatch, Return, treeVars
  <2>2. UNCHANGED <<Rests, Owners, Asked>>
    BY <2>1, ItersUnchanged DEF iterVars
  <2>. QED
    BY <2>1, <2>2, NeverFailsStays DEF KV!Reply, iterVars
<1>2. KV!EditBatch(c)
  <2>1. CASE ChangeBatch(c, <<>>, Status("new"))
    BY <1>1, <2>1, SameResults DEF KV!EditBatch, KV!iterVars
  <2>2. CASE ChangeBatch(c, nil, Status("close"))
    BY <1>1, <2>2, SameResults DEF KV!EditBatch, KV!iterVars
  <2>3. ASSUME NEW op \in Op, batch[c] # nil,
               ChangeBatch(c, Append(batch[c], op), Result("append", op.key, op.value))
        PROVE  KV!EditBatch(c)
    <3>1. PICK ops : ops = Append(batch[c], op)
      OBVIOUS
    <3>2. /\ batch' = [batch EXCEPT ![c] = ops]
          /\ KV!Reply(c, KV!Result("append", op.key, op.value))
          /\ UNCHANGED <<committed, Owners, Asked, snap, cancelled, Rests, NeverFails>>
      BY <1>1, <2>3, <3>1, SameResults
    <3>. QED
      BY <2>3, <3>1, <3>2 DEF KV!EditBatch, KV!iterVars
  <2>. QED
    BY <2>1, <2>2, <2>3 DEF BatchChanged
<1>. QED
  BY <1>2 DEF Simulated, KV!DBNext

(* Entering a call shows nothing; closing an iterator does. *)
LEMMA BeginSimulated ==
  ASSUME SafeInv, NEW c \in Client, Begins(c)
  PROVE  Simulated
<1>1. ASSUME UNCHANGED <<btree, committed, batch, ret, scanVars, iterVars>>
      PROVE  Simulated
  <2>1. UNCHANGED <<Rests, Owners, Asked>>
    BY <1>1, ItersUnchanged DEF iterVars
  <2>. QED
    BY <1>1, <2>1 DEF Simulated, abstractVars, iterVars
<1>2. CASE \/ \E where \in {"get", "has"}, k \in Key : ReadCall(c, where, k)
           \/ Inspect(c) \/ \E op \in Op : SetCall(c, op)
           \/ LockCall(c, "write", NoArg, batch[c])
           \/ \E i \in Iter : NextCall(c, i)
  BY <1>1, <1>2 DEF ReadCall, Inspect, SetCall, LockCall, NextCall, Enter, treeVars
<1>3. ASSUME NEW i \in Iter, NEW q, OpenCall(c, i, q)
      PROVE  Simulated
  <2>1. /\ owner[i] = NoOne /\ ret' = ret
        /\ owner' = [owner EXCEPT ![i] = c] /\ query' = [query EXCEPT ![i] = q]
        /\ UNCHANGED <<btree, committed, batch, scanVars, cancelled, recvd, cur, snap>>
    BY <1>3 DEF OpenCall, Enter, treeVars
  <2>2. scan[i] = "none" /\ scan'[i] = "none"
    BY <2>1 DEF SafeInv, BasicInv, OwnerInv, scanVars
  <2>3. \A j \in Iter : j # i => SameIter(j)
    BY <2>1 DEF SafeInv, BasicInv, TypeOK, IterTypes, SameIter, scanVars
  <2>4. \A j \in Iter : j # i => SameShown(j)
    BY <2>1, <2>3, ShownFrame DEF scanVars
  <2>5. Rest(i)' = Rest(i)
    BY <2>1, <2>2 DEF Rest, HeldKeys, FutureKeys, scanVars
  <2>6. /\ Rests' = [Rests EXCEPT ![i] = Rests[i]]
        /\ Owners' = [Owners EXCEPT ![i] = Owners[i]]
        /\ Asked' = [Asked EXCEPT ![i] = Asked[i]]
    BY <2>2, <2>4, <2>5, OneIterator DEF Rests, Owners, Asked, IsStarted
  <2>7. UNCHANGED <<Rests, Owners, Asked>>
    BY <2>6 DEF Rests, Owners, Asked
  <2>. QED
    BY <2>1, <2>7 DEF Simulated, abstractVars
<1>4. ASSUME NEW i \in Iter, Close(c, i)
      PROVE  Simulated
  <2>1. /\ owner[i] = c /\ pc[c] = "idle" /\ cancelled' = [cancelled EXCEPT ![i] = TRUE] /\ ret' = ret
        /\ UNCHANGED <<btree, committed, batch, scanVars, owner, query, recvd, cur, snap>>
    BY <1>4 DEF Close, Enter, treeVars
  <2>2. cancelled'[i] /\ \A j \in Iter : j # i => SameIter(j)
    BY <2>1 DEF SafeInv, BasicInv, TypeOK, IterTypes, SameIter, scanVars
  <2>3. \A j \in Iter : j # i => SameShown(j)
    BY <2>1, <2>2, ShownFrame DEF scanVars
  <2>4. Rest(i)' = {}
    BY <2>2 DEF Rest
  <2>5. Rests' = [Rests EXCEPT ![i] = {}]
    BY <2>3, <2>4, OneIterator
  <2>6. UNCHANGED <<Owners, Asked>>
    BY <2>1 DEF Owners, Asked, IsStarted, scanVars
  <2>7. Owners[i] = c
    BY <2>1, OwnedIsStarted DEF SafeInv, Owners, IsStarted
  <2>8. KV!CloseIterator(c, i)
    BY <2>1, <2>5, <2>6, <2>7, NeverFailsStays DEF KV!CloseIterator
  <2>. QED
    BY <2>8 DEF Simulated, KV!DBNext
<1>. QED
  BY <1>2, <1>3, <1>4, AnsweredSimulated, BatchSimulated DEF Begins

-----------------------------------------------------------------------------
(* A read returns.  Its lock keeps writers out, so it reads what is committed. *)
LEMMA ReadSimulated ==
  ASSUME SafeInv, NEW c \in Client, ReadReturn(c)
  PROVE  Simulated
<1>. USE DEF KV!iterVars
<1>1. PICK k : k = arg[c].key
  OBVIOUS
<1>2. /\ pc[c] \in {"get", "has", "inspect"} /\ c \in readers
      /\ ret' = [ret EXCEPT ![c] = ReadResult(pc[c], btree, k)]
      /\ UNCHANGED <<btree, committed, batch, scanVars, iterVars>>
  BY <1>1 DEF ReadReturn, FinishRead, Return, treeVars
<1>3. btree = committed
  BY <1>2 DEF SafeInv, LockInv, WriteInv
<1>4. UNCHANGED <<committed, batch, Owners, Asked, snap, cancelled, Rests, NeverFails>>
  BY <1>2, ItersUnchanged, NeverFailsStays DEF iterVars
<1>5. CASE pc[c] = "inspect"
  <2>1. ReadResult("inspect", btree, k) = Status("inspect")
    BY SMT DEF ReadResult
  <2>2. KV!NoEffect(c)
    BY <1>2, <1>4, <1>5, <2>1, SameResults DEF KV!NoEffect, KV!Reply
  <2>. QED
    BY <2>2 DEF Simulated, KV!DBNext
<1>6. CASE pc[c] \in {"get", "has"}
  <2>1. k \in Key
    BY <1>1, <1>6 DEF SafeInv, WriteInv, WriteOK
  <2>2. /\ ReadResult("get", btree, k) = Result("get", k, IF btree[k] = Absent THEN nil ELSE btree[k])
        /\ ReadResult("has", btree, k) =
             Result(IF btree[k] = Absent THEN "false" ELSE "true", k, nil)
    BY SMT DEF ReadResult
  <2>3. KV!Lookup(c, k)
    <3>1. CASE pc[c] = "get"
      BY <1>2, <1>3, <1>4, <2>2, <3>1, SameResults DEF KV!Lookup, KV!Reply
    <3>2. CASE pc[c] = "has"
      BY <1>2, <1>3, <1>4, <2>2, <3>2, SameResults DEF KV!Lookup, KV!Reply
    <3>. QED
      BY <1>6, <3>1, <3>2
  <2>. QED
    BY <2>1, <2>3 DEF Simulated, KV!DBNext
<1>. QED
  BY <1>2, <1>5, <1>6

(* A writer changes the tree alone: no locking traversal is running. *)
LEMMA ApplySimulated ==
  ASSUME SafeInv, NEW c \in Client, Lock(c) \/ Apply(c)
  PROVE  Simulated
<1>1. /\ \A j \in Iter : scan[j] = "visit" => btree' = btree
      /\ UNCHANGED <<committed, batch, ret, scanVars, iterVars>>
  <2>1. CASE Lock(c)
    BY <2>1 DEF Lock, treeVars, callVars
  <2>2. CASE Apply(c)
    <3>1. locked /\ UNCHANGED <<committed, batch, ret, scanVars, iterVars>>
      BY <2>2 DEF Apply, callVars
    <3>2. \A j \in Iter : scan[j] # "visit"
      BY <3>1 DEF SafeInv, LockInv, RaceInv
    <3>. QED
      BY <3>1, <3>2
  <2>. QED
    BY <2>1, <2>2
<1>2. UNCHANGED <<Rests, Owners, Asked>>
  BY <1>1, ItersUnchanged DEF iterVars
<1>. QED
  BY <1>1, <1>2 DEF Simulated, abstractVars, iterVars

(* A write returns: all its operations take effect on the store at once. *)
LEMMA WriteSimulated ==
  ASSUME SafeInv, NEW c \in Client, WriteReturn(c)
  PROVE  Simulated
<1>. USE DEF KV!iterVars
<1>1. /\ locked /\ writer = c /\ work[c] = <<>> /\ committed' = btree
      /\ batch' = [batch EXCEPT ![c] = IF pc[c] = "write" THEN nil ELSE batch[c]]
      /\ ret' = [ret EXCEPT ![c] = IF pc[c] = "write" THEN Status("write")
                                   ELSE Result("set", arg[c].key, arg[c].value)]
      /\ UNCHANGED <<btree, scanVars, iterVars>>
  BY DEF WriteReturn, FinishWrite, Unlock, Return
<1>2. pc[c] \in {"set", "write"} /\ WriteOK(c)
  BY <1>1, SentinelAssumption DEF SafeInv, WriteInv
<1>3. btree = AfterOps(committed, OpsOf(c))
  <2>1. AfterOps(btree, <<>>) = AfterOps(committed, OpsOf(c))
    BY <1>1, <1>2 DEF WriteOK
  <2>2. btree \in [KeyArg -> Value \cup {Absent}]
    BY DEF SafeInv, BasicInv, TypeOK, TreeTypes, Tree
  <2>3. AfterOps(btree, <<>>) = btree
    BY <2>2, AfterNone
  <2>. QED
    BY <2>1, <2>3
<1>4. UNCHANGED <<Owners, Asked, snap, cancelled, Rests, NeverFails>>
  BY <1>1, ItersUnchanged, NeverFailsStays DEF iterVars
<1>5. CASE pc[c] = "set"
  <2>1. PICK op \in Op : op = arg[c]
    BY <1>2, <1>5 DEF WriteOK
  <2>2. PICK k \in Key, v \in Value \cup {Absent} : k = op.key /\ v = op.value
    BY OpType
  <2>3. committed' = [committed EXCEPT ![k] = v]
    BY <1>1, <1>3, <1>5, <2>1, <2>2, AfterOneOp DEF OpsOf
  <2>4. batch' = batch
    BY <1>1, <1>5 DEF SafeInv, BasicInv, TypeOK, WriteTypes
  <2>5. KV!Put(c, k, v)
    BY <1>1, <1>4, <1>5, <2>1, <2>2, <2>3, <2>4, SameResults DEF KV!Put, KV!Reply
  <2>. QED
    BY <2>5 DEF Simulated, KV!DBNext
<1>6. CASE pc[c] = "write"
  <2>1. batch[c] # nil /\ batch[c] \in Seq(Op)
    BY <1>2, <1>6 DEF WriteOK, SafeInv, BasicInv, TypeOK, WriteTypes
  <2>2. KV!AreValid(batch[c])
    <3>1. \A n \in DOMAIN batch[c] : batch[c][n] \in Op
      BY <2>1, SMT
    <3>. QED
      BY <3>1, OpType DEF KV!AreValid
  <2>3. committed' = KV!AfterOps(committed, batch[c])
    <3>1. committed' = AfterOps(committed, batch[c])
      BY <1>1, <1>3, <1>6 DEF OpsOf
    <3>. QED
      BY <3>1 DEF AfterOps, KV!AfterOps
  <2>4. KV!WriteBatch(c)
    BY <1>1, <1>4, <1>6, <2>1, <2>2, <2>3, SameResults DEF KV!WriteBatch, KV!Reply
  <2>. QED
    BY <2>4 DEF Simulated, KV!DBNext
<1>. QED
  BY <1>2, <1>5, <1>6

-----------------------------------------------------------------------------
(* The goroutine starts, under the lock: from here on the iterator exists. *)
LEMMA SpawnSimulated ==
  ASSUME SafeInv, NEW c \in Client, Spawn(c)
  PROVE  Simulated
<1>1. PICK i \in Iter : i = on[c] /\ owner[i] = c
  BY DEF Spawn, GoScan, SafeInv, BasicInv, OwnerInv
<1>2. PICK q : q = query[i]
  OBVIOUS
<1>3. /\ pc[c] = "open" /\ HasLock(c)
      /\ scan' = [scan EXCEPT ![i] = "visit"]
      /\ skipEqual' = [skipEqual EXCEPT ![i] = SkipEqual(q)]
      /\ snap' = [snap EXCEPT ![i] = btree]
      /\ UNCHANGED <<btree, committed, ret, batch, pos, sent, owner, query, cancelled, recvd, cur>>
  BY <1>1, <1>2 DEF Spawn, GoScan, treeVars
<1>4. /\ scan'[i] = "visit" /\ skipEqual'[i] = SkipEqual(q)
      /\ \A j \in Iter : j # i => SameIter(j) /\ pos'[j] = pos[j] /\ skipEqual'[j] = skipEqual[j]
  BY <1>3 DEF SafeInv, BasicInv, TypeOK, ScanTypes, SameIter
<1>5. /\ scan[i] = "none" /\ pos[i] = nil /\ sent[i] = <<>>
  BY <1>1, <1>3 DEF SafeInv, ScanInv
<1>6. /\ ~cancelled[i] /\ q \in Query /\ EmptyKey \notin {q.start, q.end}
  BY <1>1, <1>2, <1>5, SentinelAssumption DEF SafeInv, IterInv, IterOK
<1>7. btree = committed
  <2>1. i \in readers
    BY <1>1, <1>3 DEF HasLock, SafeInv, RaceInv
  <2>. QED
    BY <2>1 DEF SafeInv, LockInv, WriteInv
<1>8. Rest(i)' = {k \in Key : KV!InRange(q, k) /\ committed[k] # Absent}
  <2>1. FutureKeys(i)' = Coming(q, btree, nil, SkipEqual(q))
    BY <1>2, <1>3, <1>4, <1>5 DEF FutureKeys, Unvisited, IsAborted, Coming, Aborts
  <2>2. q \in Queries /\ btree[EmptyKey] = Absent
    BY <1>6, BoundAssumption DEF SafeInv, BasicInv, TypeOK, TreeTypes
  <2>3. FutureKeys(i)' = {k \in Key : KV!InRange(q, k) /\ committed[k] # Absent}
    BY <1>7, <2>1, <2>2, ComingAtFirst
  <2>4. HeldKeys(i)' = {}
    <3>1. DOMAIN sent'[i] = {}
      BY <1>3, <1>5, SMT
    <3>. QED
      BY <3>1 DEF HeldKeys
  <2>. QED
    BY <1>3, <1>6, <2>3, <2>4 DEF Rest
<1>9. \A j \in Iter : j # i => SameShown(j)
  BY <1>3, <1>4, ShownFrame
<1>10. /\ Rests' = [Rests EXCEPT ![i] = Rest(i)']
       /\ Owners' = [Owners EXCEPT ![i] = c] /\ Asked' = [Asked EXCEPT ![i] = q]
  <2>1. IsStarted(i)' /\ owner'[i] = c /\ query'[i] = q
    BY <1>1, <1>2, <1>3, <1>4 DEF IsStarted
  <2>. QED
    BY <1>9, <2>1, OneIterator
<1>11. Owners[i] = NoOne
  BY <1>5 DEF Owners, IsStarted
<1>12. KV!OpenIterator(c, i, q)
  BY <1>3, <1>6, <1>7, <1>8, <1>10, <1>11, NeverFailsStays DEF KV!OpenIterator
<1>. QED
  BY <1>6, <1>12 DEF Simulated, KV!DBNext

(* A receive, in the constructor or in Next, leaves the current item behind. *)
LEMMA ReceiveSimulated ==
  ASSUME SafeInv, NEW c \in Client, Receive(c)
  PROVE  Simulated
<1>1. PICK i \in Iter : i = on[c] /\ owner[i] = c
  BY DEF Receive, SafeInv, BasicInv, OwnerInv
<1>. DEFINE later == {sent[i][n].key : n \in {m \in DOMAIN sent[i] : m > recvd[i]}}
<1>2. /\ pc[c] = "receive"
      /\ \/ ~Drained(i) /\ recvd' = [recvd EXCEPT ![i] = recvd[i] + 1]
                        /\ cur' = [cur EXCEPT ![i] = recvd[i] + 1]
         \/ Drained(i) /\ ChClosed(i) /\ cur' = [cur EXCEPT ![i] = 0] /\ recvd' = recvd
      /\ ret' = [ret EXCEPT ![c] = ret[c]]
      /\ UNCHANGED <<btree, committed, batch, scanVars, owner, query, cancelled, snap>>
  BY <1>1 DEF Receive, Return, treeVars
<1>3. ret' = ret
  BY <1>2 DEF SafeInv, BasicInv, TypeOK, CallTypes
<1>4. /\ sent[i] \in Seq(Item) /\ recvd[i] \in Nat /\ cur[i] \in Nat
      /\ recvd \in [Iter -> Nat] /\ cur \in [Iter -> Nat]
  BY DEF SafeInv, BasicInv, TypeOK, ScanTypes, IterTypes
<1>5. /\ ~cancelled[i] /\ scan[i] # "none" /\ cur[i] \in {0, recvd[i]}
  <2>1. At(i, "receive") /\ ~At(i, "open") /\ owner[i] # NoOne
    BY <1>1, <1>2, SentinelAssumption DEF At
  <2>. HIDE DEF At
  <2>. QED
    BY <2>1 DEF SafeInv, IterInv, IterOK
<1>6. \A j \in Iter : j # i => SameShown(j)
  <2>1. \A j \in Iter : j # i => recvd'[j] = recvd[j] /\ cur'[j] = cur[j]
    BY <1>2, <1>4
  <2>2. \A j \in Iter : j # i => SameIter(j)
    BY <1>2, <2>1 DEF SameIter, scanVars
  <2>. QED
    BY <1>2, <2>2, ShownFrame DEF scanVars
<1>7. FutureKeys(i)' = FutureKeys(i)
  BY <1>2 DEF FutureKeys, Unvisited, IsAborted, scanVars
<1>8. Rest(i)' = later \cup FutureKeys(i)
  <2>1. \A m \in DOMAIN sent[i] : (m > recvd'[i] \/ m = cur'[i]) <=> m > recvd[i]
    <3>1. \/ recvd'[i] = recvd[i] + 1 /\ cur'[i] = recvd[i] + 1
          \/ recvd'[i] = recvd[i] /\ cur'[i] = 0
      BY <1>2, <1>4
    <3>2. \A m \in DOMAIN sent[i] : m \in Nat /\ m # 0
      BY <1>4, SMT
    <3>. QED
      BY <1>4, <3>1, <3>2, SMT
  <2>2. HeldKeys(i)' = later
    BY <1>2, <2>1 DEF HeldKeys, scanVars
  <2>. QED
    BY <1>2, <1>5, <1>7, <2>2 DEF Rest
<1>9. /\ Rests' = [Rests EXCEPT ![i] = later \cup FutureKeys(i)]
      /\ UNCHANGED <<Owners, Asked>>
  BY <1>2, <1>6, <1>8, OneIterator DEF Owners, Asked, IsStarted, scanVars
<1>10. CASE cur[i] = 0
  <2>1. \A m \in DOMAIN sent[i] : m # cur[i]
    BY <1>4, <1>10, SMT
  <2>2. Rest(i) = later \cup FutureKeys(i)
    BY <1>5, <2>1 DEF Rest, HeldKeys
  <2>3. Rests[i] = later \cup FutureKeys(i)
    BY <2>2 DEF Rests
  <2>. HIDE DEF later
  <2>4. Rests' = Rests
    BY <1>9, <2>3 DEF Rests
  <2>. QED
    BY <1>2, <1>3, <1>9, <2>4 DEF Simulated, abstractVars
<1>11. CASE cur[i] # 0
  <2>1. PICK k : k = sent[i][cur[i]].key
    OBVIOUS
  <2>2. TraversalInv(i)
    BY <1>5 DEF SafeInv, ScanInv, RaceInv
  <2>3. /\ k \in Rest(i) /\ KV!First(query[i], Rest(i)) = k /\ cur[i] \in DOMAIN sent[i]
        /\ \A n \in DOMAIN sent[i] : n > recvd[i] => sent[i][n].key # k
        /\ k \notin FutureKeys(i)
    BY <1>5, <1>11, <2>1, <2>2, CurrentIsFirst DEF SafeInv
  <2>4. HeldKeys(i) = later \cup {k}
    BY <2>1, <2>3 DEF HeldKeys
  <2>5. k \notin later
    BY <2>3
  <2>. HIDE DEF later
  <2>6. later \cup FutureKeys(i) = Rest(i) \ {k}
    BY <1>5, <2>3, <2>4, <2>5 DEF Rest
  <2>7. Owners[i] = c /\ Rests[i] = Rest(i) /\ Asked[i] = query[i]
    BY <1>1, <1>5 DEF Owners, Rests, Asked, IsStarted
  <2>8. Rests[i] # {} /\ Rests' = [Rests EXCEPT ![i] = Rests[i] \ {KV!First(Asked[i], Rests[i])}]
    BY <1>9, <2>3, <2>6, <2>7
  <2>9. KV!Advance(c, i)
    BY <1>2, <1>3, <1>9, <2>7, <2>8, NeverFailsStays DEF KV!Advance
  <2>. QED
    BY <2>9 DEF Simulated, KV!DBNext
<1>. QED
  BY <1>10, <1>11

(* A closed iterator shows nothing, whatever is drained from its channel. *)
LEMMA DrainSimulated ==
  ASSUME SafeInv, NEW c \in Client, Drain(c)
  PROVE  Simulated
<1>1. PICK i \in Iter : i = on[c] /\ owner[i] = c
  BY DEF Drain, SafeInv, BasicInv, OwnerInv
<1>2. /\ pc[c] = "drain"
      /\ ret' = ret \/ ret' = [ret EXCEPT ![c] = ret[c]]
      /\ recvd' = recvd \/ recvd' = [recvd EXCEPT ![i] = recvd[i] + 1]
      /\ cur' = cur \/ cur' = [cur EXCEPT ![i] = 0]
      /\ UNCHANGED <<btree, committed, batch, scanVars, owner, query, cancelled, snap>>
  BY <1>1 DEF Drain, Return, treeVars, callVars
<1>3. ret' = ret
  BY <1>2 DEF SafeInv, BasicInv, TypeOK, CallTypes
<1>4. cancelled[i]
  <2>1. At(i, "drain")
    BY <1>1, <1>2, SentinelAssumption DEF At
  <2>. HIDE DEF At
  <2>. QED
    BY <2>1 DEF SafeInv, IterInv, IterOK
<1>5. ASSUME NEW j \in Iter, j # i
      PROVE  SameShown(j)
  <2>1. recvd'[j] = recvd[j] /\ cur'[j] = cur[j]
    BY <1>2, <1>5 DEF SafeInv, BasicInv, TypeOK, IterTypes
  <2>2. SameIter(j)
    BY <1>2, <2>1 DEF SameIter, scanVars
  <2>. QED
    BY <1>2, <2>2, ShownFrame DEF scanVars
<1>6. SameShown(i)
  BY <1>2, <1>4 DEF SameShown, Rest, scanVars
<1>7. UNCHANGED <<Rests, Owners, Asked>>
  BY <1>5, <1>6, AllShown
<1>. QED
  BY <1>2, <1>3, <1>7 DEF Simulated, abstractVars

-----------------------------------------------------------------------------
(* A step of the goroutine of i shows nothing if it keeps what is left of i. *)
LEMMA GoroutineFrame ==
  ASSUME BasicInv, NEW i \in Iter, Rest(i)' = Rest(i), scan[i] # "none", scan'[i] # "none",
         \A j \in Iter : j # i => /\ scan'[j] = scan[j] /\ pos'[j] = pos[j]
                                  /\ skipEqual'[j] = skipEqual[j] /\ sent'[j] = sent[j],
         UNCHANGED <<btree, committed, batch, ret, iterVars>>
  PROVE  Simulated
<1>1. \A j \in Iter : j # i => SameShown(j)
  BY ShownFrame DEF SameIter, iterVars
<1>2. Rests' = Rests
  BY <1>1 DEF SameShown, Rests
<1>3. UNCHANGED <<Owners, Asked>>
  <2>1. UNCHANGED <<owner, query>>
    BY DEF iterVars
  <2>2. \A j \in Iter : IsStarted(j)' <=> IsStarted(j)
    BY DEF IsStarted
  <2>. QED
    BY <2>1, <2>2 DEF Owners, Asked
<1>. QED
  BY <1>2, <1>3 DEF Simulated, abstractVars, iterVars

(* A call of the visitor moves an item to the channel, or drops one that     *)
(* was not to be shown.                                                      *)
LEMMA VisitKeepsRest ==
  ASSUME SafeInv, NEW i \in Iter, Visit(i), ~cancelled[i]
  PROVE  Rest(i)' = Rest(i)
<1>1. PICK q \in Queries : q = query[i]
  BY DEF SafeInv, BasicInv, TypeOK, IterTypes
<1>2. PICK p \in Key \cup {nil} : p = pos[i]
  BY DEF SafeInv, BasicInv, TypeOK, ScanTypes
<1>3. PICK skip : skip = skipEqual[i]
  OBVIOUS
<1>4. /\ scan[i] = "visit" /\ ~raced[i] /\ UNCHANGED <<btree, query, cancelled, recvd, cur>>
      /\ \/ Unvisited(i) = {} /\ EndScan(i)
         \/ \E k \in Unvisited(i) : IsNextKey(i, k) /\ Visitor(i, [key |-> k, value |-> btree[k]])
  BY DEF Visit, SafeInv, RaceInv, treeVars, iterVars
<1>5. FutureKeys(i) = Coming(q, btree, p, skip)
  BY <1>1, <1>2, <1>3, <1>4, FutureIsComing
<1>6. sent' = sent => HeldKeys(i)' = HeldKeys(i)
  BY <1>4 DEF HeldKeys
<1>7. EndScan(i) => FutureKeys(i)' = {} /\ sent' = sent
  <2>. SUFFICES ASSUME EndScan(i) PROVE FutureKeys(i)' = {} /\ sent' = sent
    OBVIOUS
  <2>1. scan'[i] = "closed" /\ sent' = sent
    BY DEF EndScan, SafeInv, BasicInv, TypeOK, ScanTypes
  <2>. QED
    BY <2>1 DEF FutureKeys
<1>8. CASE Unvisited(i) = {} /\ EndScan(i)
  <2>1. FutureKeys(i) = {}
    BY <1>8 DEF FutureKeys
  <2>. QED
    BY <1>4, <1>6, <1>7, <1>8, <2>1 DEF Rest
<1>9. ASSUME NEW k \in Unvisited(i), IsNextKey(i, k), Visitor(i, [key |-> k, value |-> btree[k]])
      PROVE  Rest(i)' = Rest(i)
  <2>1. PICK item : item = [key |-> k, value |-> btree[k]] /\ item.key = k
    <3>1. [key |-> k, value |-> btree[k]].key = k
      BY SMT
    <3>. QED
      BY <3>1
  <2>2. Visitor(i, item)
    BY <1>9, <2>1
  <2>3. /\ k = skip => Coming(q, btree, k, nil) = Coming(q, btree, p, skip)
        /\ Aborts(q, k) => Coming(q, btree, p, skip) = {}
        /\ k # skip /\ ~Aborts(q, k) =>
             Coming(q, btree, p, skip) = Coming(q, btree, k, skip) \cup {k}
    <3>1. p = nil \/ p \in Nat
      BY KeyArgNat
    <3>2. k \in Covered(q) /\ btree[k] # Absent /\ (p = nil \/ Before(q, p, k))
      BY <1>1, <1>2 DEF Unvisited
    <3>3. \A j \in Covered(q) :
            btree[j] # Absent /\ (p = nil \/ Before(q, p, j)) /\ j # k => Before(q, k, j)
      BY <1>1, <1>2, <1>9 DEF Unvisited, IsNextKey
    <3>4. ComesNext(q, btree, p, k)
      BY <3>2, <3>3 DEF ComesNext
    <3>5. TakesFromComing(q, btree, p, skip, k)
      BY <3>1, <3>4, ComingAfter
    <3>. QED
      BY <3>5 DEF TakesFromComing
  <2>4. IsAborted(i, k) <=> Aborts(q, k)
    BY <1>1 DEF IsAborted, Aborts
  <2>5. CASE k = skip
    <3>1. /\ skipEqual' = [skipEqual EXCEPT ![i] = nil] /\ pos' = [pos EXCEPT ![i] = k]
          /\ UNCHANGED <<scan, sent>>
      BY <1>3, <2>1, <2>2, <2>5 DEF Visitor
    <3>2. skipEqual'[i] = nil /\ pos'[i] = k
      BY <3>1 DEF SafeInv, BasicInv, TypeOK, ScanTypes
    <3>3. FutureKeys(i)' = Coming(q, btree, k, nil)
      <4>1. k # nil
        BY <1>1, <1>9, QueryFacts, KeyArgNat DEF Unvisited
      <4>. QED
        BY <1>1, <1>4, <3>1, <3>2, <4>1 DEF FutureKeys, Unvisited, IsAborted, Coming, Aborts
    <3>. QED
      BY <1>4, <1>5, <1>6, <2>3, <2>5, <3>1, <3>3 DEF Rest
  <2>6. CASE k # skip /\ Aborts(q, k)
    <3>1. EndScan(i)
      BY <1>3, <2>1, <2>2, <2>4, <2>6 DEF Visitor
    <3>. QED
      BY <1>4, <1>5, <1>6, <1>7, <2>3, <2>6, <3>1 DEF Rest
  <2>7. CASE k # skip /\ ~Aborts(q, k)
    <3>1. /\ sent' = [sent EXCEPT ![i] = Append(sent[i], item)] /\ pos' = [pos EXCEPT ![i] = k]
          /\ UNCHANGED <<scan, skipEqual>>
      BY <1>3, <2>1, <2>2, <2>4, <2>7 DEF Visitor, Send
    <3>2. sent'[i] = Append(sent[i], item) /\ pos'[i] = k
      BY <3>1 DEF SafeInv, BasicInv, TypeOK, ScanTypes
    <3>3. FutureKeys(i)' = Coming(q, btree, k, skip)
      <4>1. k # nil
        BY <1>1, <1>9, QueryFacts, KeyArgNat DEF Unvisited
      <4>. QED
        BY <1>1, <1>3, <1>4, <3>1, <3>2, <4>1 DEF FutureKeys, Unvisited, IsAborted, Coming, Aborts
    <3>4. HeldKeys(i)' = HeldKeys(i) \cup {k}
      <4>1. PICK s, t, n : s = sent[i] /\ t = sent'[i] /\ n = Len(s) + 1
        OBVIOUS
      <4>2. /\ s \in Seq(Item) /\ recvd[i] \in Nat /\ cur[i] \in Nat
            /\ recvd[i] <= Len(s) /\ cur[i] <= recvd[i]
        BY <4>1 DEF SafeInv, BasicInv, TypeOK, ScanTypes, IterTypes, ChannelInv
      <4>3. t = Append(s, item)
        BY <3>2, <4>1
      <4>4. /\ DOMAIN t = DOMAIN s \cup {n} /\ n \notin DOMAIN s /\ t[n] = item
            /\ \A m \in DOMAIN s : t[m] = s[m]
            /\ n > recvd[i]
        BY <4>1, <4>2, <4>3, SMT
      <4>5. HeldKeys(i) = {s[m].key : m \in {l \in DOMAIN s : l > recvd[i] \/ l = cur[i]}}
        BY <4>1 DEF HeldKeys
      <4>6. HeldKeys(i)' = {t[m].key : m \in {l \in DOMAIN t : l > recvd[i] \/ l = cur[i]}}
        BY <1>4, <4>1 DEF HeldKeys
      <4>7. ASSUME NEW l \in DOMAIN s, l > recvd[i] \/ l = cur[i]
            PROVE  s[l].key \in HeldKeys(i)'
        BY <4>4, <4>6, <4>7
      <4>8. k \in HeldKeys(i)'
        BY <2>1, <4>4, <4>6
      <4>9. ASSUME NEW l \in DOMAIN t, l > recvd[i] \/ l = cur[i]
            PROVE  t[l].key \in HeldKeys(i) \cup {k}
        BY <2>1, <4>4, <4>5, <4>9
      <4>10. HeldKeys(i) \cup {k} \subseteq HeldKeys(i)'
        BY <4>5, <4>7, <4>8
      <4>11. HeldKeys(i)' \subseteq HeldKeys(i) \cup {k}
        BY <4>6, <4>9
      <4>. QED
        BY <4>10, <4>11
    <3>. QED
      BY <1>4, <1>5, <2>3, <2>7, <3>3, <3>4 DEF Rest
  <2>. QED
    BY <2>5, <2>6, <2>7
<1>. QED
  BY <1>4, <1>8, <1>9

LEMMA GoroutineSimulated ==
  ASSUME SafeInv, NEW i \in Iter, Goroutine(i)
  PROVE  Simulated
<1>1. CASE Visit(i)
  <2>1. /\ scan[i] = "visit" /\ UNCHANGED <<btree, committed, batch, ret, iterVars>>
        /\ EndScan(i) \/ \E item : Visitor(i, item)
    BY <1>1 DEF Visit, treeVars, callVars
  <2>2. /\ scan'[i] \in {"visit", "closed"}
        /\ \A j \in Iter : j # i => /\ scan'[j] = scan[j] /\ pos'[j] = pos[j]
                                    /\ skipEqual'[j] = skipEqual[j] /\ sent'[j] = sent[j]
    BY <2>1 DEF EndScan, Visitor, Send, SafeInv, BasicInv, TypeOK, ScanTypes
  <2>3. Rest(i)' = Rest(i)
    <3>1. CASE cancelled[i]
      BY <2>1, <3>1 DEF Rest, iterVars
    <3>. QED
      BY <1>1, <3>1, VisitKeepsRest
  <2>. QED
    BY <2>1, <2>2, <2>3, GoroutineFrame DEF SafeInv
<1>2. CASE ExitScan(i)
  <2>1. /\ scan[i] = "closed" /\ scan' = [scan EXCEPT ![i] = "done"]
        /\ UNCHANGED <<btree, committed, batch, ret, pos, skipEqual, sent, iterVars>>
    BY <1>2 DEF ExitScan, EndGoroutine, treeVars, callVars
  <2>2. scan'[i] = "done" /\ \A j \in Iter : j # i => scan'[j] = scan[j]
    BY <2>1 DEF SafeInv, BasicInv, TypeOK, ScanTypes
  <2>3. Rest(i)' = Rest(i)
    BY <2>1, <2>2 DEF Rest, HeldKeys, FutureKeys, iterVars
  <2>. QED
    BY <2>1, <2>2, <2>3, GoroutineFrame DEF SafeInv
<1>. QED
  BY <1>1, <1>2 DEF Goroutine

-----------------------------------------------------------------------------
LEMMA StepImplements ==
  ASSUME SafeInv, [Next]_vars
  PROVE  [KV!DBNext]_(KV!dbVars)
<1>1. Simulated
  <2>1. CASE UNCHANGED vars
    <3>1. UNCHANGED <<btree, committed, batch, ret, scanVars, iterVars>>
      BY <2>1 DEF vars, treeVars, callVars
    <3>2. UNCHANGED <<Rests, Owners, Asked>>
      BY <3>1, ItersUnchanged DEF iterVars
    <3>. QED
      BY <3>1, <3>2 DEF Simulated, abstractVars, iterVars
  <2>2. ASSUME NEW c \in Client, Step(c)
        PROVE  Simulated
    BY <2>2, ReadSimulated, ApplySimulated, WriteSimulated, SpawnSimulated,
       ReceiveSimulated, DrainSimulated DEF Step
  <2>3. ASSUME NEW c \in Client, StartCall(c)
        PROVE  Simulated
    BY <2>3, HowCallsBegin, BeginSimulated
  <2>. QED
    BY <2>1, <2>2, <2>3, GoroutineSimulated DEF Next
<1>2. CASE UNCHANGED abstractVars
  BY <1>2, NeverFailsStays DEF abstractVars, KV!dbVars, KV!iterVars
<1>. QED
  BY <1>1, <1>2 DEF Simulated

LEMMA InitImplements ==
  ASSUME Init
  PROVE  RaceInv /\ WriteInv /\ IterInv /\ KV!DBInit
<1>1. RaceInv
  BY DEF Init, RaceInv, NoQuery
<1>2. WriteInv
  BY DEF Init, WriteInv, WriteOK, MtxInit
<1>3. IterInv
  BY DEF Init, IterInv, IterOK, At
<1>4. Owners = [i \in Iter |-> NoOne] /\ Asked = [i \in Iter |-> NoQuery]
  BY DEF Init, Owners, Asked, IsStarted
<1>5. Rests = [i \in Iter |-> {}]
  <2>1. ASSUME NEW i \in Iter
        PROVE  Rest(i) = {}
    <3>1. sent[i] = <<>> /\ scan[i] = "none"
      BY DEF Init
    <3>2. DOMAIN sent[i] = {}
      BY <3>1, SMT
    <3>. QED
      BY <3>1, <3>2 DEF Rest, HeldKeys, FutureKeys
  <2>. QED
    BY <2>1 DEF Rests
<1>6. KV!DBInit
  BY <1>4, <1>5, SameResults DEF Init, KV!DBInit, KeyArg, NeverFails
<1>. QED
  BY <1>1, <1>2, <1>3, <1>6

(* MemDB implements KVStore for clients that use the locking iterators: Get, *)
(* Has, Set, Delete and a batch's Write are atomic, nobody sees part of a    *)
(* batch, and an iterator shows exactly the items that its domain held when  *)
(* its goroutine started, in order; for any number of clients, iterators and *)
(* keys, any channel capacity, and callers that keep no contract at all.     *)
THEOREM Implements == ASSUME OnlyLocking PROVE Spec => ImplementsKVStore
<1>1. Init => ScanInv /\ RaceInv /\ WriteInv /\ IterInv /\ KV!DBInit
  <2>1. Init => ScanInv
    BY DEF Init, ScanInv
  <2>. QED
    BY <2>1, InitImplements
<1>2. BasicInv /\ LockInv /\ ScanInv /\ RaceInv /\ WriteInv /\ IterInv /\ [Next]_vars =>
        ScanInv' /\ RaceInv' /\ WriteInv' /\ IterInv' /\ [KV!DBNext]_(KV!dbVars)
  <2>. SUFFICES ASSUME BasicInv, LockInv, ScanInv, RaceInv, WriteInv, IterInv, [Next]_vars
                PROVE  ScanInv' /\ RaceInv' /\ WriteInv' /\ IterInv' /\ [KV!DBNext]_(KV!dbVars)
    OBVIOUS
  <2>. QED
    BY ScanStep, RaceStep, WriteStep, IterStep, StepImplements DEF SafeInv
<1>. QED
  BY <1>1, <1>2, BasicInvariant, LockInvariant, PTL DEF Spec, ImplementsKVStore, KV!DBSpec

=============================================================================
