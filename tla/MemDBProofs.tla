---------------------------- MODULE MemDBProofs ----------------------------
(***************************************************************************)
(* Proofs about MemDB for any number of clients, iterators and keys, any   *)
(* channel capacity, and callers of any discipline.                        *)
(***************************************************************************)
EXTENDS MemDB, OpsProofs, TLAPS

(* Leaves are tried with Zenon, and with SMT where they say so. *)
USE Zenon

(* The receiver is never ahead of the sender, and the current item is one    *)
(* that was received.                                                        *)
ChannelInv ==
  \A i \in Iter : cur[i] <= recvd[i] /\ recvd[i] <= Len(sent[i])

(* A running iterator method works on an iterator of its client, and only an *)
(* iterator that was asked for has a goroutine.                              *)
OwnerInv ==
  /\ \A c \in Client : pc[c] \in {"open", "receive", "drain"} =>
       on[c] \in Iter /\ owner[on[c]] = c
  /\ \A i \in Iter : owner[i] = NoOne => scan[i] = "none"

BasicInv == TypeOK /\ ChannelInv /\ OwnerInv

-----------------------------------------------------------------------------
LEMMA InitBasic == Init => BasicInv
<1> SUFFICES ASSUME Init PROVE BasicInv
  OBVIOUS
<1>1. TypeOK
  <2>1. TreeTypes /\ MtxTypes
    BY DEF Init, MtxInit, TreeTypes, MtxTypes, Tree, KeyArg
  <2>2. CallTypes /\ WriteTypes
    BY SMT DEF Init, CallTypes, WriteTypes, KeyArg, ValueArg, Results, Statuses, Status,
               Result, Args, NoArg
  <2>3. ScanTypes
    BY SMT DEF Init, ScanTypes, EndPoint
  <2>4. IterTypes
    BY DEF Init, IterTypes, NoQuery, Queries, EndPoint, Tree
  <2>. QED
    BY <2>1, <2>2, <2>3, <2>4 DEF TypeOK
<1>2. ChannelInv
  BY SMT DEF Init, ChannelInv
<1>3. OwnerInv
  BY DEF Init, OwnerInv
<1>. QED
  BY <1>1, <1>2, <1>3 DEF BasicInv

-----------------------------------------------------------------------------
(***************************************************************************)
(* The kinds of step that begin a call.  Most calls differ in what they    *)
(* return, or in the operations they have applied, and not in what they do *)
(* to the state.                                                           *)
(***************************************************************************)
BeginCall(c) ==
  \/ \E r \in Results : ReturnAtOnce(c, r)
  \/ \E where \in {"get", "has", "inspect"}, k \in KeyArg : ReadCall(c, where, k)
  \/ \E where \in {"set", "write"}, a \in Args, ops \in Seq(Op) : LockCall(c, where, a, ops)
  \/ \E ops \in Seq(Op) \cup {nil}, r \in Results : ChangeBatch(c, ops, r)
  \/ \E i \in Iter, q \in Queries : OpenCall(c, i, q)
  \/ \E i \in Iter : owner[i] = c /\ NextCall(c, i)
  \/ \E i \in Iter : Close(c, i)

LEMMA ResultType ==
  ASSUME NEW s \in Statuses, NEW k \in KeyArg, NEW v \in ValueArg \cup {Absent}
  PROVE  Result(s, k, v) \in Results
BY DEF Result, Results

LEMMA StatusType ==
  ASSUME NEW s \in Statuses
  PROVE  Status(s) \in Results
BY ResultType DEF Status, KeyArg, ValueArg

(* A refusal shows the argument that is refused. *)
LEMMA Refusals ==
  /\ \A k : k = EmptyKey => Result("errKeyEmpty", k, nil) = Status("errKeyEmpty")
  /\ \A v : v = nil => Result("errValueNil", EmptyKey, v) = Status("errValueNil")
BY DEF Status

LEMMA ArgType ==
  /\ NoArg \in Args
  /\ \A k \in KeyArg : [key |-> k, value |-> Absent] \in Args
  /\ Op \subseteq Args
BY DEF NoArg, Args, KeyArg, Op

LEMMA OpType ==
  /\ \A k \in Key, v \in Value \cup {Absent} : [key |-> k, value |-> v] \in Op
  /\ \A op \in Op : op.key \in Key /\ op.value \in Value \cup {Absent}
BY DEF Op

LEMMA OneOp ==
  ASSUME NEW op \in Op
  PROVE  op \in Args /\ <<op>> \in Seq(Op)
BY ArgType, SMT

(* Every call begins with one of these kinds of step, with arguments that    *)
(* have passed the checks for an empty key and a nil value.                  *)
LEMMA CallKinds ==
  ASSUME BasicInv, NEW c \in Client, StartCall(c)
  PROVE  BeginCall(c)
<1>. USE StatusType, OpType, Refusals DEF Statuses
<1>1. ASSUME NEW k \in KeyArg, Get(c, k) \/ Has(c, k)
      PROVE  BeginCall(c)
  BY <1>1 DEF Get, Has, BeginCall
<1>2. ASSUME Inspect(c)
      PROVE  BeginCall(c)
  BY <1>2 DEF Inspect, BeginCall, KeyArg
<1>3. ASSUME NEW k \in KeyArg, NEW v \in ValueArg, Set(c, k, v)
      PROVE  BeginCall(c)
  <2>1. CASE k = EmptyKey \/ v = nil
    BY <1>3, <2>1 DEF Set, BeginCall
  <2>2. CASE k # EmptyKey /\ v # nil
    <3>. DEFINE op == [key |-> k, value |-> v]
    <3>1. op \in Op
      BY <2>2 DEF KeyArg, ValueArg
    <3>2. LockCall(c, "set", op, <<op>>)
      BY <1>3, <2>2 DEF Set, SetCall
    <3>. HIDE DEF op
    <3>3. op \in Args /\ <<op>> \in Seq(Op)
      BY <3>1, OneOp
    <3>. QED
      BY <3>2, <3>3 DEF BeginCall
  <2>. QED
    BY <2>1, <2>2
<1>4. ASSUME NEW k \in KeyArg, Delete(c, k)
      PROVE  BeginCall(c)
  <2>1. CASE k = EmptyKey
    BY <1>4, <2>1 DEF Delete, BeginCall
  <2>2. CASE k # EmptyKey
    <3>. DEFINE op == [key |-> k, value |-> Absent]
    <3>1. op \in Op
      BY <2>2 DEF KeyArg
    <3>2. LockCall(c, "set", op, <<op>>)
      BY <1>4, <2>2 DEF Delete, SetCall
    <3>. HIDE DEF op
    <3>3. op \in Args /\ <<op>> \in Seq(Op)
      BY <3>1, OneOp
    <3>. QED
      BY <3>2, <3>3 DEF BeginCall
  <2>. QED
    BY <2>1, <2>2
<1>5. ASSUME NewBatch(c) \/ Write(c) \/ BatchClose(c)
      PROVE  BeginCall(c)
  <2>1. <<>> \in Seq(Op) /\ nil \in Seq(Op) \cup {nil}
    BY SMT
  <2>2. CASE NewBatch(c) \/ BatchClose(c)
    <3>1. Status("new") \in Results /\ Status("close") \in Results
      OBVIOUS
    <3>. QED
      BY <2>1, <2>2, <3>1 DEF NewBatch, BatchClose, BeginCall
  <2>3. CASE Write(c)
    <3>1. batch[c] # nil => batch[c] \in Seq(Op)
      BY DEF BasicInv, TypeOK, WriteTypes
    <3>2. Status("errBatchClosed") \in Results
      OBVIOUS
    <3>. QED
      BY <2>3, <3>1, <3>2, ArgType DEF Write, BeginCall
  <2>. QED
    BY <1>5, <2>2, <2>3
<1>6. ASSUME NEW op \in Op, AppendOp(c, op)
      PROVE  BeginCall(c)
  <2>1. batch[c] # nil => Append(batch[c], op) \in Seq(Op)
    BY SMT DEF BasicInv, TypeOK, WriteTypes
  <2>2. Result("append", op.key, op.value) \in Results
    BY ResultType DEF KeyArg, ValueArg
  <2>3. Status("errBatchClosed") \in Results
    OBVIOUS
  <2>4. CASE batch[c] = nil
    BY <1>6, <2>3, <2>4 DEF AppendOp, BeginCall
  <2>5. CASE batch[c] # nil
    <3>1. Append(batch[c], op) \in Seq(Op) \cup {nil}
      BY <2>1, <2>5
    <3>. QED
      BY <1>6, <2>2, <2>5, <3>1 DEF AppendOp, BeginCall
  <2>. QED
    BY <2>4, <2>5
<1>7. ASSUME NEW k \in KeyArg, NEW v \in ValueArg, BatchSet(c, k, v)
      PROVE  BeginCall(c)
  <2>1. CASE k = EmptyKey \/ v = nil
    BY <1>7, <2>1 DEF BatchSet, BeginCall
  <2>2. CASE k # EmptyKey /\ v # nil
    <3>1. [key |-> k, value |-> v] \in Op
      BY <2>2 DEF KeyArg, ValueArg
    <3>. QED
      BY <1>6, <1>7, <2>2, <3>1 DEF BatchSet
  <2>. QED
    BY <2>1, <2>2
<1>8. ASSUME NEW k \in KeyArg, BatchDelete(c, k)
      PROVE  BeginCall(c)
  <2>1. CASE k = EmptyKey
    BY <1>8, <2>1 DEF BatchDelete, BeginCall
  <2>2. CASE k # EmptyKey
    <3>1. [key |-> k, value |-> Absent] \in Op
      BY <2>2 DEF KeyArg
    <3>. QED
      BY <1>6, <1>8, <2>2, <3>1 DEF BatchDelete
  <2>. QED
    BY <2>1, <2>2
<1>9. ASSUME NEW i \in Iter, NEW q \in Query, NewIterator(c, i, q)
      PROVE  BeginCall(c)
  BY <1>9, BoundAssumption DEF NewIterator, BeginCall
<1>10. ASSUME NEW i \in Iter, IteratorNext(c, i) \/ Close(c, i)
       PROVE  BeginCall(c)
  BY <1>10 DEF IteratorNext, BeginCall
<1>11. ASSUME NEW i \in Iter, ReadItem(c, i)
       PROVE  BeginCall(c)
  <2>1. CASE Valid(i)
    <3>1. sent[i][cur[i]] \in Item
      BY <2>1, SMT DEF Valid, BasicInv, TypeOK, ScanTypes, IterTypes, ChannelInv
    <3>2. Result("item", sent[i][cur[i]].key, sent[i][cur[i]].value) \in Results
      BY <3>1, ResultType DEF Item, KeyArg, ValueArg
    <3>. QED
      BY <1>11, <2>1, <3>2 DEF ReadItem, BeginCall
  <2>2. CASE ~Valid(i)
    BY <1>11, <2>2 DEF ReadItem, BeginCall
  <2>. QED
    BY <2>1, <2>2
<1>12. Key \subseteq KeyArg /\ EmptyKey \in KeyArg /\ Value \subseteq ValueArg
  BY DEF KeyArg, ValueArg
<1>13. CASE InvalidCall(c)
  BY <1>1, <1>2, <1>3, <1>4, <1>5, <1>7, <1>8, <1>12, <1>13 DEF InvalidCall
<1>. QED
  BY <1>1, <1>2, <1>3, <1>4, <1>5, <1>7, <1>8, <1>9, <1>10, <1>11, <1>12, <1>13 DEF StartCall

-----------------------------------------------------------------------------
(* What a step leaves alone keeps its type. *)
LEMMA UnchangedTypes ==
  ASSUME TypeOK
  PROVE  /\ UNCHANGED treeVars => TreeTypes'
         /\ UNCHANGED callVars => CallTypes'
         /\ UNCHANGED <<work, batch>> => WriteTypes'
         /\ UNCHANGED scanVars => ScanTypes'
         /\ UNCHANGED <<iterVars, raced>> => IterTypes'
         /\ UNCHANGED mtxVars => MtxTypes'
<1>1. UNCHANGED treeVars => TreeTypes'
  BY DEF TypeOK, TreeTypes, treeVars
<1>2. UNCHANGED callVars => CallTypes'
  BY DEF TypeOK, CallTypes, callVars
<1>3. UNCHANGED <<work, batch>> => WriteTypes'
  BY DEF TypeOK, WriteTypes
<1>4. UNCHANGED scanVars => ScanTypes'
  BY DEF TypeOK, ScanTypes, scanVars
<1>5. UNCHANGED <<iterVars, raced>> => IterTypes'
  BY DEF TypeOK, IterTypes, iterVars
<1>6. UNCHANGED mtxVars => MtxTypes'
  BY DEF TypeOK, MtxTypes, mtxVars
<1>. QED
  BY <1>1, <1>2, <1>3, <1>4, <1>5, <1>6

LEMMA CallTypesStep ==
  ASSUME TypeOK, NEW c \in Client
  PROVE  /\ \A where \in {"get", "has", "inspect", "set", "write", "open", "receive", "drain"},
               a \in Args, i \in Iter \cup {NoOne} : Enter(c, where, a, i) => CallTypes'
         /\ \A r \in Results : Return(c, r) => CallTypes'
BY ArgType, SMT DEF TypeOK, CallTypes, Enter, Return

LEMMA MtxTypesStep ==
  ASSUME TypeOK
  PROVE  /\ \A p \in Client \cup Iter : RLock(p) \/ RUnlock(p) => MtxTypes'
         /\ \A c \in Client : LockPending(c) \/ LockAcquired(c) \/ Unlock(c) => MtxTypes'
BY DEF TypeOK, MtxTypes, RLock, RUnlock, LockPending, LockAcquired, Unlock

(* ChannelInv and OwnerInv depend on these variables only. *)
LEMMA UnchangedBasic ==
  ASSUME BasicInv
  PROVE  /\ UNCHANGED <<scanVars, iterVars>> => ChannelInv'
         /\ UNCHANGED <<callVars, scanVars, iterVars>> => OwnerInv'
BY DEF BasicInv, ChannelInv, OwnerInv, scanVars, iterVars, callVars

(* A client that leaves a call, or enters one that is not about an iterator. *)
LEMMA OwnerStep ==
  ASSUME BasicInv, NEW c \in Client, UNCHANGED <<scan, owner>>,
         \/ \E r : Return(c, r)
         \/ \E where \in {"get", "has", "inspect", "set", "write"} : \E a, i : Enter(c, where, a, i)
         \/ \E where, a : \E i \in Iter : owner[i] = c /\ Enter(c, where, a, i)
  PROVE  OwnerInv'
BY SMT DEF BasicInv, OwnerInv, TypeOK, CallTypes, Return, Enter

-----------------------------------------------------------------------------
LEMMA BasicBegin ==
  ASSUME BasicInv, NEW c \in Client, BeginCall(c)
  PROVE  BasicInv'
<1>. TypeOK
  BY DEF BasicInv
<1>. USE UnchangedTypes, CallTypesStep, MtxTypesStep, UnchangedBasic
<1>1. ASSUME NEW r \in Results, ReturnAtOnce(c, r)
      PROVE  BasicInv'
  <2>1. TypeOK'
    BY <1>1 DEF ReturnAtOnce, TypeOK
  <2>2. ChannelInv'
    BY <1>1 DEF ReturnAtOnce
  <2>3. OwnerInv'
    BY <1>1, OwnerStep DEF ReturnAtOnce, scanVars, iterVars
  <2>. QED
    BY <2>1, <2>2, <2>3 DEF BasicInv
<1>2. ASSUME NEW where \in {"get", "has", "inspect"}, NEW k \in KeyArg, ReadCall(c, where, k)
      PROVE  BasicInv'
  <2>1. TypeOK'
    <3>1. [key |-> k, value |-> Absent] \in Args
      BY ArgType
    <3>2. CallTypes'
      BY <1>2, <3>1 DEF ReadCall
    <3>3. MtxTypes'
      BY <1>2 DEF ReadCall
    <3>. QED
      BY <1>2, <3>2, <3>3 DEF ReadCall, TypeOK
  <2>2. ChannelInv'
    BY <1>2 DEF ReadCall
  <2>3. OwnerInv'
    BY <1>2, OwnerStep DEF ReadCall, scanVars, iterVars
  <2>. QED
    BY <2>1, <2>2, <2>3 DEF BasicInv
<1>3. ASSUME NEW where \in {"set", "write"}, NEW a \in Args, NEW ops \in Seq(Op),
             LockCall(c, where, a, ops)
      PROVE  BasicInv'
  <2>1. WriteTypes'
    BY <1>3 DEF LockCall, TypeOK, WriteTypes
  <2>2. TypeOK'
    BY <1>3, <2>1 DEF LockCall, TypeOK, KeyArg
  <2>3. ChannelInv'
    BY <1>3 DEF LockCall
  <2>4. OwnerInv'
    BY <1>3, OwnerStep DEF LockCall, scanVars, iterVars
  <2>. QED
    BY <2>2, <2>3, <2>4 DEF BasicInv
<1>4. ASSUME NEW ops \in Seq(Op) \cup {nil}, NEW r \in Results, ChangeBatch(c, ops, r)
      PROVE  BasicInv'
  <2>1. WriteTypes'
    BY <1>4 DEF ChangeBatch, TypeOK, WriteTypes
  <2>2. TypeOK'
    BY <1>4, <2>1, StatusType DEF ChangeBatch, TypeOK
  <2>3. ChannelInv'
    BY <1>4 DEF ChangeBatch
  <2>4. OwnerInv'
    BY <1>4, OwnerStep DEF ChangeBatch, scanVars, iterVars
  <2>. QED
    BY <2>2, <2>3, <2>4 DEF BasicInv
<1>5. ASSUME NEW i \in Iter, NEW q \in Queries, OpenCall(c, i, q)
      PROVE  BasicInv'
  <2>1. IterTypes'
    BY <1>5 DEF OpenCall, TypeOK, IterTypes
  <2>2. MtxTypes'
    BY <1>5 DEF OpenCall
  <2>3. TypeOK'
    <3>1. CallTypes'
      BY <1>5, ArgType DEF OpenCall
    <3>. QED
      BY <1>5, <2>1, <2>2, <3>1 DEF OpenCall, TypeOK
  <2>4. ChannelInv'
    BY <1>5 DEF OpenCall, BasicInv, ChannelInv, scanVars
  <2>5. OwnerInv'
    <3>. /\ pc' = [pc EXCEPT ![c] = "open"]
         /\ on' = [on EXCEPT ![c] = i]
         /\ owner' = [owner EXCEPT ![i] = c]
         /\ scan' = scan
         /\ owner[i] = NoOne
      BY <1>5 DEF OpenCall, Enter, scanVars
    <3>1. ASSUME NEW d \in Client, pc'[d] \in {"open", "receive", "drain"}
          PROVE  on'[d] \in Iter /\ owner'[on'[d]] = d
      <4>1. CASE d = c
        BY <4>1 DEF TypeOK, CallTypes, IterTypes
      <4>2. CASE d # c
        <5>1. on[d] \in Iter /\ owner[on[d]] = d /\ on'[d] = on[d]
          BY <3>1, <4>2 DEF BasicInv, OwnerInv, TypeOK, CallTypes
        <5>2. on[d] # i
          BY <5>1, SentinelAssumption
        <5>. QED
          BY <5>1, <5>2 DEF TypeOK, IterTypes
      <4>. QED
        BY <4>1, <4>2
    <3>2. ASSUME NEW j \in Iter, owner'[j] = NoOne
          PROVE  scan'[j] = "none"
      BY <3>2, SentinelAssumption DEF BasicInv, OwnerInv, TypeOK, IterTypes
    <3>. QED
      BY <3>1, <3>2 DEF OwnerInv
  <2>. QED
    BY <2>3, <2>4, <2>5 DEF BasicInv
<1>6. ASSUME NEW i \in Iter, owner[i] = c, NextCall(c, i)
      PROVE  BasicInv'
  <2>1. TypeOK'
    <3>1. CallTypes'
      BY <1>6, ArgType DEF NextCall
    <3>. QED
      BY <1>6, <3>1 DEF NextCall, TypeOK
  <2>2. ChannelInv'
    BY <1>6 DEF NextCall
  <2>3. OwnerInv'
    BY <1>6, OwnerStep DEF NextCall, scanVars, iterVars
  <2>. QED
    BY <2>1, <2>2, <2>3 DEF BasicInv
<1>7. ASSUME NEW i \in Iter, Close(c, i)
      PROVE  BasicInv'
  <2>1. IterTypes'
    BY <1>7 DEF Close, TypeOK, IterTypes
  <2>2. TypeOK'
    <3>1. CallTypes'
      BY <1>7, ArgType DEF Close
    <3>. QED
      BY <1>7, <2>1, <3>1 DEF Close, TypeOK
  <2>3. ChannelInv'
    BY <1>7 DEF Close, BasicInv, ChannelInv, scanVars
  <2>4. OwnerInv'
    BY <1>7, OwnerStep DEF Close, scanVars
  <2>. QED
    BY <2>2, <2>3, <2>4 DEF BasicInv
<1>. QED
  BY <1>1, <1>2, <1>3, <1>4, <1>5, <1>6, <1>7 DEF BeginCall

(* One receive from the channel, which may change the current item. *)
LEMMA TakeOne ==
  ASSUME BasicInv, NEW i \in Iter,
         UNCHANGED <<sent, owner, query, cancelled, snap, raced>>,
         \/ /\ ~Drained(i)
            /\ recvd' = [recvd EXCEPT ![i] = @ + 1]
            /\ cur' = [cur EXCEPT ![i] = recvd[i] + 1] \/ UNCHANGED cur
         \/ cur' = [cur EXCEPT ![i] = 0] /\ UNCHANGED recvd
  PROVE  IterTypes' /\ ChannelInv'
<1>. /\ recvd \in [Iter -> Nat] /\ cur \in [Iter -> Nat]
     /\ \A j \in Iter : Len(sent[j]) \in Nat
     /\ \A j \in Iter : cur[j] <= recvd[j] /\ recvd[j] <= Len(sent[j])
  BY SMT DEF BasicInv, TypeOK, IterTypes, ScanTypes, ChannelInv
<1>1. /\ recvd' \in [Iter -> Nat] /\ cur' \in [Iter -> Nat]
      /\ \A j \in Iter : cur'[j] <= recvd'[j] /\ recvd'[j] <= Len(sent[j])
  <2>1. CASE /\ ~Drained(i)
             /\ recvd' = [recvd EXCEPT ![i] = @ + 1]
             /\ cur' = [cur EXCEPT ![i] = recvd[i] + 1] \/ UNCHANGED cur
    <3>1. recvd[i] + 1 \in Nat /\ recvd[i] + 1 <= Len(sent[i]) /\ cur[i] <= recvd[i] + 1
      BY <2>1, SMT DEF Drained
    <3>2. recvd' \in [Iter -> Nat] /\ recvd'[i] = recvd[i] + 1
      BY <2>1, <3>1
    <3>3. \A j \in Iter : j # i => recvd'[j] = recvd[j] /\ cur'[j] = cur[j]
      BY <2>1
    <3>4. cur' \in [Iter -> Nat] /\ cur'[i] <= recvd'[i]
      <4>1. recvd[i] + 1 <= recvd[i] + 1
        BY <3>1, SMT
      <4>2. cur' \in [Iter -> Nat] /\ cur'[i] \in {cur[i], recvd[i] + 1}
        BY <2>1, <3>1
      <4>. QED
        BY <3>1, <3>2, <4>1, <4>2
    <3>. QED
      BY <3>1, <3>2, <3>3, <3>4
  <2>2. CASE cur' = [cur EXCEPT ![i] = 0] /\ UNCHANGED recvd
    BY <2>2, SMT
  <2>. QED
    BY <2>1, <2>2
<1>. QED
  BY <1>1 DEF BasicInv, TypeOK, IterTypes, ChannelInv

LEMMA BasicContinue ==
  ASSUME BasicInv, NEW c \in Client, Step(c)
  PROVE  BasicInv'
<1>. TypeOK
  BY DEF BasicInv
<1>. USE UnchangedTypes, CallTypesStep, MtxTypesStep, UnchangedBasic
<1>1. CASE ReadReturn(c)
  <2>1. ReadResult(pc[c], btree, arg[c].key) \in Results
    <3>1. arg[c].key \in KeyArg
      BY DEF TypeOK, CallTypes, Args
    <3>2. btree[arg[c].key] \in Value \cup {Absent}
      BY <3>1 DEF TypeOK, TreeTypes, Tree
    <3>. QED
      BY <1>1, <3>1, <3>2, ResultType, StatusType
         DEF ReadReturn, FinishRead, ReadResult, Statuses, ValueArg
  <2>2. TypeOK'
    BY <1>1, <2>1 DEF ReadReturn, FinishRead, TypeOK
  <2>3. ChannelInv'
    BY <1>1 DEF ReadReturn, FinishRead
  <2>4. OwnerInv'
    BY <1>1, OwnerStep DEF ReadReturn, FinishRead, scanVars, iterVars
  <2>. QED
    BY <2>2, <2>3, <2>4 DEF BasicInv
<1>2. CASE Lock(c)
  <2>1. TypeOK'
    BY <1>2 DEF Lock, TypeOK
  <2>2. ChannelInv' /\ OwnerInv'
    BY <1>2 DEF Lock
  <2>. QED
    BY <2>1, <2>2 DEF BasicInv
<1>3. CASE Apply(c)
  <2>1. /\ Head(work[c]) \in Op
        /\ Tail(work[c]) \in Seq(Op)
    BY <1>3, SMT DEF Apply, TypeOK, WriteTypes
  <2>2. TreeTypes'
    <3>1. /\ Head(work[c]).key \in Key
          /\ Head(work[c]).value \in Value \cup {Absent}
      BY <2>1, OpType
    <3>2. Head(work[c]).key # EmptyKey
      BY <3>1, KeyAssumption
    <3>. QED
      BY <1>3, <3>1, <3>2 DEF Apply, TypeOK, TreeTypes, Tree, KeyArg
  <2>3. WriteTypes'
    BY <1>3, <2>1 DEF Apply, TypeOK, WriteTypes
  <2>4. IterTypes'
    <3>1. raced' \in [Iter -> BOOLEAN]
      BY <1>3 DEF Apply, TypeOK, IterTypes
    <3>. QED
      BY <1>3, <3>1 DEF Apply, TypeOK, IterTypes, iterVars
  <2>5. TypeOK'
    BY <1>3, <2>2, <2>3, <2>4 DEF Apply, TypeOK
  <2>6. ChannelInv' /\ OwnerInv'
    BY <1>3 DEF Apply
  <2>. QED
    BY <2>5, <2>6 DEF BasicInv
<1>4. CASE WriteReturn(c)
  <2>1. TreeTypes'
    BY <1>4 DEF WriteReturn, FinishWrite, TypeOK, TreeTypes
  <2>2. WriteTypes'
    BY <1>4 DEF WriteReturn, FinishWrite, TypeOK, WriteTypes
  <2>3. TypeOK'
    <3>1. Status("write") \in Results /\ Result("set", arg[c].key, arg[c].value) \in Results
      BY StatusType, ResultType DEF TypeOK, CallTypes, Args, Statuses, ValueArg
    <3>. QED
      BY <1>4, <2>1, <2>2, <3>1 DEF WriteReturn, FinishWrite, TypeOK
  <2>4. ChannelInv'
    BY <1>4 DEF WriteReturn, FinishWrite
  <2>5. OwnerInv'
    BY <1>4, OwnerStep DEF WriteReturn, FinishWrite, scanVars, iterVars
  <2>. QED
    BY <2>3, <2>4, <2>5 DEF BasicInv
<1>5. CASE Spawn(c)
  <2>1. on[c] \in Iter /\ owner[on[c]] = c
    BY <1>5 DEF Spawn, GoScan, HasLock, BasicInv, OwnerInv
  <2>2. SkipEqual(query[on[c]]) \in EndPoint
    BY <2>1 DEF SkipEqual, TypeOK, IterTypes, Queries, EndPoint
  <2>3. ScanTypes'
    BY <1>5, <2>2 DEF Spawn, GoScan, HasLock, TypeOK, ScanTypes
  <2>4. IterTypes'
    BY <1>5 DEF Spawn, GoScan, HasLock, TypeOK, IterTypes, TreeTypes
  <2>5. CallTypes'
    BY <1>5 DEF Spawn, GoScan, HasLock, TypeOK, CallTypes
  <2>6. TypeOK'
    BY <1>5, <2>3, <2>4, <2>5 DEF Spawn, GoScan, HasLock, TypeOK
  <2>7. ChannelInv'
    BY <1>5 DEF Spawn, GoScan, HasLock, BasicInv, ChannelInv
  <2>8. OwnerInv'
    <3>. /\ scan' = [scan EXCEPT ![on[c]] = "visit"]
         /\ pc' = [pc EXCEPT ![c] = "receive"]
         /\ UNCHANGED <<on, owner>>
      BY <1>5 DEF Spawn, GoScan, HasLock
    <3>1. owner[on[c]] # NoOne
      BY <2>1, SentinelAssumption
    <3>2. \A j \in Iter : owner[j] = NoOne => scan'[j] = "none"
      BY <2>1, <3>1 DEF BasicInv, OwnerInv, TypeOK, ScanTypes
    <3>3. \A d \in Client : pc'[d] \in {"open", "receive", "drain"} =>
                              on[d] \in Iter /\ owner[on[d]] = d
      BY <2>1 DEF BasicInv, OwnerInv, TypeOK, CallTypes
    <3>. QED
      BY <3>2, <3>3 DEF OwnerInv
  <2>. QED
    BY <2>6, <2>7, <2>8 DEF BasicInv
<1>6. CASE Receive(c)
  <2>1. on[c] \in Iter
    BY <1>6 DEF Receive, BasicInv, OwnerInv
  <2>2. IterTypes' /\ ChannelInv'
    BY <1>6, <2>1, TakeOne DEF Receive, TypeOK, IterTypes, scanVars
  <2>3. ret[c] \in Results
    BY DEF TypeOK, CallTypes
  <2>4. TypeOK'
    BY <1>6, <2>2, <2>3 DEF Receive, TypeOK
  <2>5. OwnerInv'
    BY <1>6, OwnerStep DEF Receive, scanVars
  <2>. QED
    BY <2>2, <2>4, <2>5 DEF BasicInv
<1>7. CASE Drain(c)
  <2>1. on[c] \in Iter
    BY <1>7 DEF Drain, BasicInv, OwnerInv
  <2>2. IterTypes' /\ ChannelInv'
    BY <1>7, <2>1, TakeOne DEF Drain, TypeOK, IterTypes, scanVars
  <2>3. ret[c] \in Results
    BY DEF TypeOK, CallTypes
  <2>4. TypeOK'
    BY <1>7, <2>2, <2>3 DEF Drain, TypeOK
  <2>5. OwnerInv'
    <3>1. UNCHANGED <<scan, owner>>
      BY <1>7 DEF Drain, scanVars
    <3>2. CASE UNCHANGED callVars
      BY <3>1, <3>2 DEF BasicInv, OwnerInv, callVars
    <3>3. CASE Return(c, ret[c])
      BY <3>1, <3>3, OwnerStep
    <3>. QED
      BY <1>7, <3>2, <3>3 DEF Drain
  <2>. QED
    BY <2>2, <2>4, <2>5 DEF BasicInv
<1>. QED
  BY <1>1, <1>2, <1>3, <1>4, <1>5, <1>6, <1>7 DEF Step

LEMMA BasicGoroutine ==
  ASSUME BasicInv, NEW i \in Iter, Goroutine(i)
  PROVE  BasicInv'
<1>. TypeOK
  BY DEF BasicInv
<1>. USE UnchangedTypes, MtxTypesStep
<1>1. CASE Visit(i)
  <2>1. ASSUME EndScan(i)
        PROVE  ScanTypes' /\ scan' = [scan EXCEPT ![i] = "closed"] /\ sent' = sent
    BY <2>1 DEF EndScan, TypeOK, ScanTypes
  <2>2. ASSUME NEW item \in Item, Visitor(i, item)
        PROVE  /\ ScanTypes'
               /\ scan' = scan \/ scan' = [scan EXCEPT ![i] = "closed"]
               /\ \A j \in Iter : Len(sent[j]) <= Len(sent'[j])
    <3>1. item.key \in Key
      BY DEF Item
    <3>2. CASE item.key = skipEqual[i]
      <4>1. ScanTypes' /\ UNCHANGED <<scan, sent>>
        BY <2>2, <3>1, <3>2 DEF Visitor, TypeOK, ScanTypes, EndPoint
      <4>2. \A j \in Iter : Len(sent[j]) \in Nat
        BY SMT DEF TypeOK, ScanTypes
      <4>. QED
        BY <4>1, <4>2, SMT
    <3>3. CASE EndScan(i)
      BY <2>1, <3>3, SMT DEF TypeOK, ScanTypes
    <3>4. CASE Send(i, item)
      <4>1. Append(sent[i], item) \in Seq(Item) /\ Len(Append(sent[i], item)) = Len(sent[i]) + 1
        BY SMT DEF TypeOK, ScanTypes
      <4>2. ScanTypes' /\ scan' = scan
        BY <3>1, <3>4, <4>1 DEF Send, TypeOK, ScanTypes
      <4>3. \A j \in Iter : Len(sent[j]) \in Nat
        BY SMT DEF TypeOK, ScanTypes
      <4>4. \A j \in Iter : Len(sent[j]) <= Len(sent'[j])
        BY <3>4, <4>1, <4>3, SMT DEF Send, TypeOK, ScanTypes
      <4>. QED
        BY <4>2, <4>4
    <3>. QED
      BY <2>2, <3>2, <3>3, <3>4 DEF Visitor
  <2>3. ASSUME NEW k \in Unvisited(i)
        PROVE  [key |-> k, value |-> btree[k]] \in Item
    BY DEF Unvisited, Covered, Item, TypeOK, TreeTypes, Tree, KeyArg
  <2>4. /\ ScanTypes'
        /\ scan' = scan \/ scan' = [scan EXCEPT ![i] = "closed"]
        /\ \A j \in Iter : Len(sent[j]) <= Len(sent'[j])
    <3>1. CASE EndScan(i)
      BY <2>1, <3>1, SMT DEF TypeOK, ScanTypes
    <3>2. CASE \E item \in Item : Visitor(i, item)
      BY <2>2, <3>2
    <3>. QED
      BY <1>1, <2>3, <3>1, <3>2 DEF Visit
  <2>5. TypeOK'
    BY <1>1, <2>4 DEF Visit, TypeOK
  <2>6. ChannelInv'
    <3>1. UNCHANGED <<recvd, cur>>
      BY <1>1 DEF Visit, iterVars
    <3>2. \A j \in Iter : Len(sent[j]) \in Nat /\ Len(sent'[j]) \in Nat
      BY <2>4, SMT DEF TypeOK, ScanTypes
    <3>3. \A j \in Iter : recvd[j] \in Nat /\ cur[j] <= recvd[j] /\ recvd[j] <= Len(sent[j])
      BY DEF BasicInv, ChannelInv, TypeOK, IterTypes
    <3>4. ASSUME NEW j \in Iter
          PROVE  recvd[j] <= Len(sent'[j])
      BY <2>4, <3>2, <3>3, SMT
    <3>. QED
      BY <3>1, <3>3, <3>4 DEF ChannelInv
  <2>7. OwnerInv'
    <3>1. owner[i] # NoOne
      BY <1>1 DEF Visit, BasicInv, OwnerInv
    <3>. QED
      BY <1>1, <2>4, <3>1 DEF Visit, BasicInv, OwnerInv, iterVars, callVars, TypeOK, ScanTypes
  <2>. QED
    BY <2>5, <2>6, <2>7 DEF BasicInv
<1>2. CASE ExitScan(i)
  <2>1. ScanTypes'
    BY <1>2 DEF ExitScan, EndGoroutine, TypeOK, ScanTypes
  <2>2. MtxTypes'
    BY <1>2 DEF ExitScan, EndGoroutine
  <2>3. TypeOK'
    BY <1>2, <2>1, <2>2 DEF ExitScan, EndGoroutine, TypeOK
  <2>4. ChannelInv'
    BY <1>2 DEF ExitScan, EndGoroutine, BasicInv, ChannelInv, iterVars
  <2>5. OwnerInv'
    <3>1. owner[i] # NoOne
      BY <1>2 DEF ExitScan, EndGoroutine, BasicInv, OwnerInv
    <3>. QED
      BY <1>2, <3>1 DEF ExitScan, EndGoroutine, BasicInv, OwnerInv, iterVars, callVars, TypeOK, ScanTypes
  <2>. QED
    BY <2>3, <2>4, <2>5 DEF BasicInv
<1>. QED
  BY <1>1, <1>2 DEF Goroutine

(* BasicInv is inductive. *)
LEMMA BasicStep == BasicInv /\ [Next]_vars => BasicInv'
<1>. SUFFICES ASSUME BasicInv, [Next]_vars PROVE BasicInv'
  OBVIOUS
<1>1. CASE UNCHANGED vars
  <2>1. TypeOK'
    BY <1>1, UnchangedTypes DEF vars, BasicInv, TypeOK
  <2>. QED
    BY <1>1, <2>1, UnchangedBasic DEF vars, BasicInv
<1>2. CASE Next
  BY <1>2, CallKinds, BasicBegin, BasicContinue, BasicGoroutine DEF Next
<1>. QED
  BY <1>1, <1>2

LEMMA BasicInvariant == Spec => []BasicInv
BY InitBasic, BasicStep, PTL DEF Spec

(* Types hold for every instance: no empty key and no nil value gets into    *)
(* the tree, a batch or a pending write, whatever calls are made.            *)
THEOREM TypeCorrect == Spec => []TypeOK
<1>1. BasicInv => TypeOK
  BY DEF BasicInv
<1>. QED
  BY <1>1, BasicInvariant, PTL

-----------------------------------------------------------------------------
(* The mutex and the goroutines that rely on it: an active writer has no     *)
(* readers, a running read has the lock or waits for it, and a locking       *)
(* traversal has it until its deferred RUnlock.                              *)
LockInv ==
  /\ locked => readers = {} /\ writer # NoOne
  /\ \A c \in Client : pc[c] \in {"get", "has", "inspect"} => c \in readers \cup queue
  /\ \A i \in Iter : query[i].useMtx /\ scan[i] \in {"visit", "closed"} => i \in readers

(* What was sent is content of the snapshot, in order. *)
Delivered(view, q, items) ==
  /\ \A n \in DOMAIN items : /\ items[n].key \in Content(view, q)
                              /\ items[n].value = view[items[n].key]
  /\ \A m, n \in DOMAIN items : m < n => Before(q, items[m].key, items[n].key)

(* Nothing was sent beyond the position p, and all content not sent yet is   *)
(* beyond it.                                                                *)
Passed(q, p, items) ==
  \A n \in DOMAIN items : p # nil /\ (items[n].key = p \/ Before(q, items[n].key, p))

Ahead(view, q, p, items) ==
  \A k \in Content(view, q) : k \in KeysIn(items) \/ p = nil \/ Before(q, p, k)

(* Once skipEqual was reset, the traversal is past it. *)
SkipInv(q, p, skip) ==
  /\ skip \in {nil, SkipEqual(q)}
  /\ SkipEqual(q) # nil /\ skip = nil => p # nil /\ p <= q.end

(* The traversal of iterator i so far, compared with its snapshot.           *)
TraversalInv(i) ==
  /\ Delivered(snap[i], query[i], sent[i])
  /\ Passed(query[i], pos[i], sent[i])
  /\ scan[i] = "visit" => /\ btree = snap[i]
                          /\ Ahead(snap[i], query[i], pos[i], sent[i])
                          /\ SkipInv(query[i], pos[i], skipEqual[i])
  /\ ~cancelled[i] /\ ChClosed(i) => KeysIn(sent[i]) = Content(snap[i], query[i])

ScanInv ==
  /\ \A c \in Client : pc[c] = "open" => scan[on[c]] = "none"
  /\ \A i \in Iter :
       /\ scan[i] = "none" => pos[i] = nil /\ sent[i] = <<>>
       /\ scan[i] # "none" /\ ~raced[i] => TraversalInv(i)

(* A step that leaves the mutex and the traversals alone, and after which    *)
(* its client is not reading.                                                *)
LEMMA LockFrame ==
  ASSUME BasicInv, LockInv, NEW c \in Client,
         UNCHANGED <<mtxVars, query, scan>>,
         \/ UNCHANGED pc
         \/ \E where \in {"idle", "set", "write", "open", "receive", "drain"} :
              pc' = [pc EXCEPT ![c] = where]
  PROVE  LockInv'
<1>1. \A d \in Client : pc'[d] \in {"get", "has", "inspect"} => pc[d] = pc'[d]
  BY DEF BasicInv, TypeOK, CallTypes
<1>. QED
  BY <1>1 DEF LockInv, mtxVars

LEMMA LockBegin ==
  ASSUME BasicInv, LockInv, NEW c \in Client, BeginCall(c)
  PROVE  LockInv'
<1>1. ASSUME NEW r \in Results, ReturnAtOnce(c, r)
      PROVE  LockInv'
  BY <1>1, LockFrame DEF ReturnAtOnce, Return, scanVars, iterVars
<1>2. ASSUME NEW where \in {"get", "has", "inspect"}, NEW k \in KeyArg, ReadCall(c, where, k)
      PROVE  LockInv'
  <2>1. /\ pc' = [pc EXCEPT ![c] = where]
        /\ UNCHANGED <<query, scan, writer, locked>>
        /\ IF writer = NoOne
             THEN readers' = readers \cup {c} /\ queue' = queue
             ELSE queue' = queue \cup {c} /\ readers' = readers
    BY <1>2 DEF ReadCall, Enter, RLock, scanVars, iterVars
  <2>2. /\ readers \subseteq readers' /\ queue \subseteq queue'
        /\ c \in readers' \cup queue'
    BY <2>1
  <2>3. locked' => readers' = {} /\ writer' # NoOne
    BY <2>1 DEF LockInv
  <2>4. \A d \in Client : pc'[d] \in {"get", "has", "inspect"} => d \in readers' \cup queue'
    BY <2>1, <2>2 DEF LockInv, BasicInv, TypeOK, CallTypes
  <2>5. \A i \in Iter : query'[i].useMtx /\ scan'[i] \in {"visit", "closed"} => i \in readers'
    BY <2>1, <2>2 DEF LockInv
  <2>. QED
    BY <2>3, <2>4, <2>5 DEF LockInv
<1>3. ASSUME NEW where \in {"set", "write"}, NEW a \in Args, NEW ops \in Seq(Op),
             LockCall(c, where, a, ops)
      PROVE  LockInv'
  BY <1>3, LockFrame DEF LockCall, Enter, scanVars, iterVars
<1>4. ASSUME NEW ops \in Seq(Op) \cup {nil}, NEW r \in Results, ChangeBatch(c, ops, r)
      PROVE  LockInv'
  BY <1>4, LockFrame DEF ChangeBatch, Return, scanVars, iterVars
<1>5. ASSUME NEW i \in Iter, NEW q \in Queries, OpenCall(c, i, q)
      PROVE  LockInv'
  <2>1. /\ pc' = [pc EXCEPT ![c] = "open"]
        /\ query' = [query EXCEPT ![i] = q]
        /\ UNCHANGED <<scan, writer, locked>>
    BY <1>5 DEF OpenCall, Enter, scanVars, RLock, mtxVars
  <2>2. /\ readers \subseteq readers' /\ queue \subseteq queue'
        /\ writer # NoOne => readers' = readers
    BY <1>5 DEF OpenCall, RLock, mtxVars
  <2>3. locked' => readers' = {} /\ writer' # NoOne
    BY <2>1, <2>2 DEF LockInv
  <2>4. \A d \in Client : pc'[d] \in {"get", "has", "inspect"} => d \in readers' \cup queue'
    BY <2>1, <2>2 DEF LockInv, BasicInv, TypeOK, CallTypes
  <2>5. scan[i] = "none"
    BY <1>5 DEF OpenCall, BasicInv, OwnerInv
  <2>6. \A j \in Iter : query'[j].useMtx /\ scan'[j] \in {"visit", "closed"} => j \in readers'
    BY <2>1, <2>2, <2>5 DEF LockInv, BasicInv, TypeOK, IterTypes
  <2>. QED
    BY <2>3, <2>4, <2>6 DEF LockInv
<1>6. ASSUME NEW i \in Iter, NextCall(c, i)
      PROVE  LockInv'
  BY <1>6, LockFrame DEF NextCall, Enter, scanVars, iterVars
<1>7. ASSUME NEW i \in Iter, Close(c, i)
      PROVE  LockInv'
  BY <1>7, LockFrame DEF Close, Enter, scanVars
<1>. QED
  BY <1>1, <1>2, <1>3, <1>4, <1>5, <1>6, <1>7 DEF BeginCall

LEMMA LockContinue ==
  ASSUME BasicInv, LockInv, NEW c \in Client, Step(c)
  PROVE  LockInv'
<1>1. CASE ReadReturn(c)
  <2>1. /\ pc' = [pc EXCEPT ![c] = "idle"]
        /\ readers' = readers \ {c}
        /\ UNCHANGED <<query, scan, queue, writer, locked>>
    BY <1>1 DEF ReadReturn, FinishRead, Return, RUnlock, scanVars, iterVars
  <2>. QED
    BY <2>1, SentinelAssumption DEF LockInv, BasicInv, TypeOK, CallTypes
<1>2. CASE Lock(c)
  <2>1. UNCHANGED <<pc, query, scan, readers, queue>>
    BY <1>2 DEF Lock, LockPending, LockAcquired, callVars, scanVars, iterVars
  <2>2. locked' => readers' = {} /\ writer' # NoOne
    BY <1>2, SentinelAssumption DEF Lock, LockPending, LockAcquired, LockInv
  <2>. QED
    BY <2>1, <2>2 DEF LockInv
<1>3. CASE Apply(c)
  BY <1>3, LockFrame DEF Apply, callVars, scanVars, iterVars
<1>4. CASE WriteReturn(c)
  <2>1. /\ pc' = [pc EXCEPT ![c] = "idle"]
        /\ locked /\ ~locked' /\ readers' = queue
        /\ UNCHANGED <<query, scan>>
    BY <1>4 DEF WriteReturn, FinishWrite, Return, Unlock, scanVars, iterVars
  <2>. QED
    BY <2>1 DEF LockInv, BasicInv, TypeOK, CallTypes
<1>5. CASE Spawn(c)
  <2>1. on[c] \in Iter
    BY <1>5 DEF Spawn, GoScan, HasLock, BasicInv, OwnerInv
  <2>2. /\ pc' = [pc EXCEPT ![c] = "receive"]
        /\ scan' = [scan EXCEPT ![on[c]] = "visit"]
        /\ query[on[c]].useMtx => on[c] \in readers
        /\ UNCHANGED <<query, readers, queue, writer, locked>>
    BY <1>5 DEF Spawn, GoScan, HasLock, mtxVars
  <2>. QED
    BY <2>1, <2>2 DEF LockInv, BasicInv, TypeOK, CallTypes, ScanTypes
<1>6. CASE Receive(c)
  BY <1>6, LockFrame DEF Receive, Return, scanVars
<1>7. CASE Drain(c)
  BY <1>7, LockFrame DEF Drain, Return, scanVars, callVars
<1>. QED
  BY <1>1, <1>2, <1>3, <1>4, <1>5, <1>6, <1>7 DEF Step

LEMMA LockGoroutine ==
  ASSUME BasicInv, LockInv, NEW i \in Iter, Goroutine(i)
  PROVE  LockInv'
<1>1. CASE Visit(i)
  <2>1. UNCHANGED <<pc, query, mtxVars>>
    BY <1>1 DEF Visit, callVars, iterVars
  <2>2. scan' = scan \/ scan' = [scan EXCEPT ![i] = "closed"]
    BY <1>1 DEF Visit, Visitor, EndScan, Send
  <2>3. scan[i] = "visit"
    BY <1>1 DEF Visit
  <2>. QED
    BY <2>1, <2>2, <2>3 DEF LockInv, BasicInv, TypeOK, ScanTypes, mtxVars
<1>2. CASE ExitScan(i)
  <2>1. /\ UNCHANGED <<pc, query, queue, writer, locked>>
        /\ readers' = readers \ {i} \/ readers' = readers
        /\ scan' = [scan EXCEPT ![i] = "done"]
    BY <1>2 DEF ExitScan, EndGoroutine, RUnlock, callVars, iterVars, mtxVars
  <2>. QED
    BY <2>1, SentinelAssumption DEF LockInv, BasicInv, TypeOK, ScanTypes
<1>. QED
  BY <1>1, <1>2 DEF Goroutine

LEMMA LockStep == BasicInv /\ LockInv /\ [Next]_vars => LockInv'
<1>. SUFFICES ASSUME BasicInv, LockInv, [Next]_vars PROVE LockInv'
  OBVIOUS
<1>1. CASE UNCHANGED vars
  BY <1>1 DEF vars, LockInv, callVars, scanVars, iterVars, mtxVars
<1>2. CASE Next
  BY <1>2, CallKinds, LockBegin, LockContinue, LockGoroutine DEF Next
<1>. QED
  BY <1>1, <1>2

LEMMA LockInvariant == Spec => []LockInv
<1>1. Init => LockInv
  BY DEF Init, MtxInit, LockInv
<1>. QED
  BY <1>1, BasicInvariant, LockStep, PTL DEF Spec

(* A write is alone in the tree: while a Set, a Delete or a batch is being   *)
(* applied, no read and no locking traversal is under way, for any number of *)
(* clients and iterators.                                                    *)
THEOREM Exclusion == Spec => []WriterIsAlone
<1>1. BasicInv /\ LockInv => WriterIsAlone
  BY DEF LockInv, WriterIsAlone, BasicInv, TypeOK, ScanTypes
<1>. QED
  BY <1>1, BasicInvariant, LockInvariant, PTL

-----------------------------------------------------------------------------
(***************************************************************************)
(* The switch of newMemDBIteratorMtxChoice: what the B-tree method covers, *)
(* corrected by skipEqual and abortLessThan, is the domain [start, end).   *)
(***************************************************************************)
LEMMA KeyArgNat == KeyArg \subseteq Nat /\ Key \subseteq KeyArg /\ nil \notin KeyArg
BY KeyAssumption, SentinelAssumption, SMT DEF KeyArg, EmptyKey

LEMMA CoveredKeys ==
  ASSUME NEW q \in Queries, NEW k \in KeyArg
  PROVE  /\ InDomain(q, k) => k \in Covered(q)
         /\ SkipEqual(q) # nil => /\ SkipEqual(q) = q.end
                                  /\ ~InDomain(q, q.end)
                                  /\ k \in Covered(q) => k <= q.end
         /\ AbortLessThan(q) # nil /\ k < AbortLessThan(q) =>
              q.reverse /\ \A j \in KeyArg : j <= k => ~InDomain(q, j)
         /\ /\ k \in Covered(q)
            /\ SkipEqual(q) # nil => k # q.end
            /\ AbortLessThan(q) # nil => ~(k < AbortLessThan(q))
            => InDomain(q, k)
<1>. q.start \in KeyArg \cup {nil} /\ q.end \in KeyArg \cup {nil} /\ q.reverse \in BOOLEAN
  BY DEF Queries, EndPoint
<1>. USE KeyArgNat DEF InDomain, IsKeyInDomain, SkipEqual, AbortLessThan, Rank, EmptyKey
<1>1. CASE ~q.reverse
  <2>1. CASE q.start = nil /\ q.end = nil
    BY <1>1, <2>1 DEF Covered
  <2>2. CASE q.start # nil /\ q.end = nil
    <3>1. Covered(q) = {j \in KeyArg : q.start <= j}
      BY <1>1, <2>2 DEF Covered
    <3>2. SkipEqual(q) = nil /\ AbortLessThan(q) = nil
      BY <1>1
    <3>. QED
      BY <2>2, <3>1, <3>2
  <2>3. CASE q.end # nil
    <3>1. Covered(q) = {j \in KeyArg : Rank(q.start) <= j /\ j < q.end}
      BY <1>1, <2>3 DEF Covered
    <3>2. SkipEqual(q) = nil /\ AbortLessThan(q) = nil
      BY <1>1
    <3>. QED
      BY <2>3, <3>1, <3>2, SMT
  <2>. QED
    BY <2>1, <2>2, <2>3
<1>2. CASE q.reverse
  <2>1. CASE q.start = nil /\ q.end = nil
    BY <1>2, <2>1 DEF Covered
  <2>2. CASE q.start # nil /\ q.end = nil
    BY <1>2, <2>2, SMT DEF Covered
  <2>3. CASE q.end # nil
    <3>1. Covered(q) = {j \in KeyArg : j <= q.end}
      BY <1>2, <2>3 DEF Covered
    <3>2. SkipEqual(q) = q.end /\ AbortLessThan(q) = q.start
      BY <1>2, <2>3
    <3>3. q.end \in Nat /\ k \in Nat
      BY <2>3
    <3>4. CASE q.start = nil
      BY <1>2, <2>3, <3>1, <3>2, <3>3, <3>4, SMT
    <3>5. CASE q.start # nil
      <4>1. q.start \in Nat
        BY <3>5
      <4>2. k < AbortLessThan(q) => \A j \in KeyArg : j <= k => ~InDomain(q, j)
        BY <3>2, <3>3, <3>5, <4>1, SMT
      <4>. QED
        BY <1>2, <2>3, <3>1, <3>2, <3>3, <3>5, <4>1, <4>2, SMT
    <3>. QED
      BY <3>4, <3>5
  <2>. QED
    BY <2>1, <2>2, <2>3
<1>. QED
  BY <1>1, <1>2

LEMMA BeforeTransitive ==
  ASSUME NEW q, NEW j \in Nat, NEW k \in Nat, NEW l \in Nat,
         Before(q, j, k), Before(q, k, l)
  PROVE  Before(q, j, l)
BY SMT DEF Before

-----------------------------------------------------------------------------
(* A step that touches neither the tree nor a traversal, and opens nothing. *)
LEMMA ScanFrame ==
  ASSUME ScanInv,
         UNCHANGED <<btree, scanVars, query, snap, raced>>,
         \A i \in Iter : cancelled[i] => cancelled'[i],
         \A c \in Client : pc'[c] = "open" => pc[c] = "open" /\ on'[c] = on[c]
  PROVE  ScanInv'
<1>1. ASSUME NEW i \in Iter, TraversalInv(i)
      PROVE  TraversalInv(i)'
  BY <1>1 DEF TraversalInv, scanVars, ChClosed
<1>. QED
  BY <1>1 DEF ScanInv, scanVars

LEMMA ScanBegin ==
  ASSUME BasicInv, ScanInv, NEW c \in Client, BeginCall(c)
  PROVE  ScanInv'
<1>0. ASSUME NEW where \in {"idle", "get", "has", "inspect", "set", "write", "receive", "drain"},
             pc' = [pc EXCEPT ![c] = where], \E j : on' = [on EXCEPT ![c] = j]
      PROVE  \A d \in Client : pc'[d] = "open" => pc[d] = "open" /\ on'[d] = on[d]
  BY <1>0 DEF BasicInv, TypeOK, CallTypes
<1>1. ASSUME NEW r \in Results, ReturnAtOnce(c, r)
      PROVE  ScanInv'
  BY <1>0, <1>1, ScanFrame DEF ReturnAtOnce, Return, treeVars, iterVars
<1>2. ASSUME NEW where \in {"get", "has", "inspect"}, NEW k \in KeyArg, ReadCall(c, where, k)
      PROVE  ScanInv'
  BY <1>0, <1>2, ScanFrame DEF ReadCall, Enter, treeVars, iterVars
<1>3. ASSUME NEW where \in {"set", "write"}, NEW a \in Args, NEW ops \in Seq(Op),
             LockCall(c, where, a, ops)
      PROVE  ScanInv'
  BY <1>0, <1>3, ScanFrame DEF LockCall, Enter, treeVars, iterVars
<1>4. ASSUME NEW ops \in Seq(Op) \cup {nil}, NEW r \in Results, ChangeBatch(c, ops, r)
      PROVE  ScanInv'
  BY <1>0, <1>4, ScanFrame DEF ChangeBatch, Return, treeVars, iterVars
<1>5. ASSUME NEW i \in Iter, NEW q \in Queries, OpenCall(c, i, q)
      PROVE  ScanInv'
  <2>1. /\ pc' = [pc EXCEPT ![c] = "open"] /\ on' = [on EXCEPT ![c] = i]
        /\ query' = [query EXCEPT ![i] = q]
        /\ UNCHANGED <<btree, scanVars, cancelled, snap, raced>>
    BY <1>5 DEF OpenCall, Enter, treeVars
  <2>2. scan[i] = "none"
    BY <1>5 DEF OpenCall, BasicInv, OwnerInv
  <2>3. \A d \in Client : pc'[d] = "open" => scan'[on'[d]] = "none"
    BY <2>1, <2>2 DEF ScanInv, scanVars, BasicInv, TypeOK, CallTypes
  <2>4. ASSUME NEW j \in Iter, scan'[j] # "none", ~raced'[j]
        PROVE  TraversalInv(j)'
    <3>1. j # i /\ query'[j] = query[j] /\ TraversalInv(j)
      BY <2>1, <2>2, <2>4 DEF ScanInv, scanVars, BasicInv, TypeOK, IterTypes
    <3>. QED
      BY <2>1, <3>1 DEF TraversalInv, scanVars, ChClosed
  <2>. QED
    BY <2>1, <2>3, <2>4 DEF ScanInv, scanVars
<1>6. ASSUME NEW i \in Iter, NextCall(c, i)
      PROVE  ScanInv'
  BY <1>0, <1>6, ScanFrame DEF NextCall, Enter, treeVars, iterVars
<1>7. ASSUME NEW i \in Iter, Close(c, i)
      PROVE  ScanInv'
  <2>1. \A j \in Iter : cancelled[j] => cancelled'[j]
    BY <1>7 DEF Close, BasicInv, TypeOK, IterTypes
  <2>. QED
    BY <1>0, <1>7, <2>1, ScanFrame DEF Close, Enter, treeVars
<1>. QED
  BY <1>1, <1>2, <1>3, <1>4, <1>5, <1>6, <1>7 DEF BeginCall

LEMMA ScanContinue ==
  ASSUME BasicInv, LockInv, ScanInv, NEW c \in Client, Step(c)
  PROVE  ScanInv'
<1>0. ASSUME pc' = [pc EXCEPT ![c] = "idle"], on' = [on EXCEPT ![c] = NoOne]
      PROVE  \A d \in Client : pc'[d] = "open" => pc[d] = "open" /\ on'[d] = on[d]
  BY <1>0 DEF BasicInv, TypeOK, CallTypes
<1>1. CASE ReadReturn(c)
  BY <1>0, <1>1, ScanFrame DEF ReadReturn, FinishRead, Return, treeVars, iterVars
<1>2. CASE Lock(c)
  BY <1>2, ScanFrame DEF Lock, treeVars, callVars, iterVars
<1>3. CASE Apply(c)
  (* No locking traversal is under way, and the others are marked as raced. *)
  <2>1. /\ locked
        /\ raced' = [j \in Iter |-> raced[j] \/ (scan[j] = "visit" /\ ~query[j].useMtx)]
        /\ UNCHANGED <<pc, on, scanVars, query, snap, cancelled>>
    BY <1>3 DEF Apply, callVars, iterVars
  <2>2. ASSUME NEW j \in Iter, scan'[j] # "none", ~raced'[j]
        PROVE  TraversalInv(j)'
    <3>1. ~raced[j] /\ ~(scan[j] = "visit" /\ ~query[j].useMtx)
      BY <2>1, <2>2
    <3>2. scan[j] # "visit"
      BY <2>1, <3>1 DEF LockInv
    <3>3. TraversalInv(j)
      BY <2>1, <2>2, <3>1 DEF ScanInv, scanVars
    <3>. QED
      BY <2>1, <3>2, <3>3 DEF TraversalInv, scanVars, ChClosed
  <2>. QED
    BY <2>1, <2>2 DEF ScanInv, scanVars
<1>4. CASE WriteReturn(c)
  BY <1>0, <1>4, ScanFrame DEF WriteReturn, FinishWrite, Return, iterVars
<1>5. CASE Spawn(c)
  <2>1. PICK i \in Iter : i = on[c] /\ owner[i] = c
    BY <1>5 DEF Spawn, GoScan, HasLock, BasicInv, OwnerInv
  <2>2. /\ pc' = [pc EXCEPT ![c] = "receive"]
        /\ scan' = [scan EXCEPT ![i] = "visit"]
        /\ skipEqual' = [skipEqual EXCEPT ![i] = SkipEqual(query[i])]
        /\ snap' = [snap EXCEPT ![i] = btree]
        /\ UNCHANGED <<btree, on, pos, sent, query, cancelled, raced>>
    BY <1>5, <2>1 DEF Spawn, GoScan, HasLock, treeVars
  <2>3. scan[i] = "none" /\ pos[i] = nil /\ sent[i] = <<>>
    BY <1>5, <2>1 DEF Spawn, GoScan, HasLock, ScanInv
  <2>4. TraversalInv(i)'
    <3>1. /\ scan'[i] = "visit" /\ snap'[i] = btree' /\ skipEqual'[i] = SkipEqual(query'[i])
          /\ pos'[i] = nil /\ DOMAIN sent'[i] = {}
      BY <2>1, <2>2, <2>3, SMT DEF BasicInv, TypeOK, ScanTypes, IterTypes
    <3>. QED
      BY <3>1 DEF TraversalInv, Delivered, Passed, Ahead, SkipInv, ChClosed
  <2>5. ASSUME NEW j \in Iter, j # i, TraversalInv(j)
        PROVE  TraversalInv(j)'
    <3>1. /\ scan'[j] = scan[j] /\ snap'[j] = snap[j] /\ skipEqual'[j] = skipEqual[j]
          /\ UNCHANGED <<btree, pos, sent, query, cancelled>>
      BY <2>1, <2>2, <2>5 DEF BasicInv, TypeOK, ScanTypes, IterTypes
    <3>. QED
      BY <2>5, <3>1 DEF TraversalInv, ChClosed
  <2>6. \A d \in Client : pc'[d] = "open" => scan'[on'[d]] = "none"
    BY <2>1, <2>2 DEF ScanInv, BasicInv, OwnerInv, TypeOK, CallTypes, ScanTypes
  <2>7. \A j \in Iter : j # i => scan'[j] = scan[j]
    BY <2>2 DEF BasicInv, TypeOK, ScanTypes
  <2>8. scan'[i] = "visit"
    BY <2>1, <2>2 DEF BasicInv, TypeOK, ScanTypes
  <2>. QED
    BY <2>2, <2>4, <2>5, <2>6, <2>7, <2>8 DEF ScanInv
<1>6. CASE Receive(c)
  BY <1>0, <1>6, ScanFrame DEF Receive, Return, treeVars
<1>7. CASE Drain(c)
  BY <1>0, <1>7, ScanFrame DEF Drain, Return, treeVars, callVars
<1>. QED
  BY <1>1, <1>2, <1>3, <1>4, <1>5, <1>6, <1>7 DEF Step

(* The traversal may end when nothing of the domain is left to visit. *)
LEMMA ScanEnds ==
  ASSUME BasicInv, NEW i \in Iter, TraversalInv(i), scan[i] = "visit",
         EndScan(i), UNCHANGED <<query, snap, cancelled>>,
         cancelled[i] \/ \A k \in Unvisited(i) : ~InDomain(query[i], k)
  PROVE  TraversalInv(i)'
<1>1. scan'[i] = "closed" /\ UNCHANGED <<pos, skipEqual, sent>>
  BY DEF EndScan, BasicInv, TypeOK, ScanTypes
<1>2. KeysIn(sent[i]) \subseteq Content(snap[i], query[i])
  BY DEF TraversalInv, Delivered, KeysIn
<1>3. ASSUME ~cancelled[i], NEW k \in Content(snap[i], query[i])
      PROVE  k \in KeysIn(sent[i])
  <2>1. btree = snap[i] /\ Ahead(snap[i], query[i], pos[i], sent[i])
    BY DEF TraversalInv
  <2>2. k \in KeyArg /\ InDomain(query[i], k) /\ btree[k] # Absent
    BY <2>1 DEF Content
  <2>3. k \in Covered(query[i])
    BY <2>2, CoveredKeys DEF BasicInv, TypeOK, IterTypes
  <2>4. k \notin Unvisited(i)
    BY <1>3, <2>2
  <2>5. pos[i] # nil /\ ~Before(query[i], pos[i], k)
    BY <2>2, <2>3, <2>4 DEF Unvisited
  <2>. QED
    BY <2>1, <2>5 DEF Ahead
<1>4. ~cancelled[i] => KeysIn(sent[i]) = Content(snap[i], query[i])
  BY <1>2, <1>3
<1>. QED
  BY <1>1, <1>4 DEF TraversalInv, ChClosed

(* The item is one of view, and comes after all the items sent so far. *)
CanSend(view, q, items, item) ==
  /\ Delivered(view, q, items)
  /\ item.key \in Content(view, q) /\ item.value = view[item.key] /\ item.key # nil
  /\ \A n \in DOMAIN items : Before(q, items[n].key, item.key)

(* What holds of the items once it is sent. *)
Sends(view, q, items, item) ==
  /\ Delivered(view, q, Append(items, item))
  /\ Passed(q, item.key, Append(items, item))
  /\ KeysIn(Append(items, item)) = KeysIn(items) \cup {item.key}

(* One more item, which comes after all others. *)
LEMMA SendOne ==
  ASSUME NEW view, NEW q, NEW items \in Seq(Item), NEW item \in Item,
         CanSend(view, q, items, item)
  PROVE  Sends(view, q, items, item)
<1>. DEFINE more == Append(items, item)
            last == Len(items) + 1
<1>0. /\ Delivered(view, q, items)
      /\ item.key \in Content(view, q) /\ item.value = view[item.key] /\ item.key # nil
      /\ \A n \in DOMAIN items : Before(q, items[n].key, item.key)
  BY DEF CanSend
<1>1. /\ DOMAIN more = (DOMAIN items) \cup {last} /\ more[last] = item
      /\ \A n \in DOMAIN items : more[n] = items[n] /\ n \in Nat /\ n < last
      /\ last \in Nat
  BY SMT
<1>. HIDE DEF more, last
<1>2. \A n \in DOMAIN more : /\ more[n].key \in Content(view, q)
                             /\ more[n].value = view[more[n].key]
  BY <1>0, <1>1 DEF Delivered
<1>3. ASSUME NEW m \in DOMAIN more, NEW n \in DOMAIN more, m < n
      PROVE  Before(q, more[m].key, more[n].key)
  <2>1. m \in DOMAIN items
    BY <1>1, <1>3, SMT
  <2>2. CASE n \in DOMAIN items
    BY <1>0, <1>1, <1>3, <2>1, <2>2 DEF Delivered
  <2>3. CASE n = last
    BY <1>0, <1>1, <2>1, <2>3
  <2>. QED
    BY <1>1, <2>2, <2>3
<1>4. Passed(q, item.key, more)
  BY <1>0, <1>1 DEF Passed
<1>5. KeysIn(more) = KeysIn(items) \cup {item.key}
  <2>1. KeysIn(more) \subseteq KeysIn(items) \cup {item.key}
    BY <1>1 DEF KeysIn
  <2>2. \A n \in DOMAIN items : items[n].key \in KeysIn(more)
    BY <1>1 DEF KeysIn
  <2>3. item.key \in KeysIn(more)
    BY <1>1 DEF KeysIn
  <2>. QED
    BY <2>1, <2>2, <2>3 DEF KeysIn
<1>. QED
  BY <1>2, <1>3, <1>4, <1>5 DEF Delivered, Sends, more

(* The B-tree passes the next item to the visitor. *)
LEMMA VisitorStep ==
  ASSUME BasicInv, NEW i \in Iter, TraversalInv(i), scan[i] = "visit",
         NEW k \in Unvisited(i), IsNextKey(i, k),
         Visitor(i, [key |-> k, value |-> btree[k]]),
         UNCHANGED <<btree, query, snap, cancelled>>
  PROVE  TraversalInv(i)'
<1>. DEFINE q == query[i]
            item == [key |-> k, value |-> btree[k]]
<1>0. /\ Delivered(snap[i], q, sent[i])
      /\ Passed(q, pos[i], sent[i])
      /\ btree = snap[i]
      /\ Ahead(snap[i], q, pos[i], sent[i])
      /\ SkipInv(q, pos[i], skipEqual[i])
  BY DEF TraversalInv
<1>1. /\ q \in Queries
      /\ k \in KeyArg /\ k \in Covered(q) /\ btree[k] # Absent
      /\ pos[i] = nil \/ Before(q, pos[i], k)
      /\ \A j \in Unvisited(i) : j = k \/ Before(q, k, j)
  <2>1. q \in Queries
    BY DEF BasicInv, TypeOK, IterTypes
  <2>2. Covered(q) \subseteq KeyArg
    BY <2>1 DEF Covered, Queries
  <2>. QED
    BY <2>1, <2>2 DEF Unvisited, IsNextKey
<1>2. k \in Nat /\ k # nil /\ item.key = k /\ item.value = btree[k]
  BY <1>1, KeyArgNat
<1>3. /\ pos[i] # nil => pos[i] \in Nat
      /\ sent[i] \in Seq(Item)
      /\ \A n \in DOMAIN sent[i] : sent[i][n].key \in Nat
  <2>1. pos[i] \in Key \cup {nil} /\ sent[i] \in Seq(Item)
    BY DEF BasicInv, TypeOK, ScanTypes
  <2>2. \A n \in DOMAIN sent[i] : sent[i][n] \in Item
    BY <2>1, SMT
  <2>3. \A x \in Item : x.key \in Key
    BY DEF Item
  <2>. QED
    BY <2>1, <2>2, <2>3, KeyArgNat
(* Content that was not sent yet is this item or comes after it. *)
<1>4. ASSUME NEW j \in Content(snap[i], q), j \notin KeysIn(sent[i])
      PROVE  j = k \/ Before(q, k, j)
  <2>1. j \in KeyArg /\ InDomain(q, j) /\ btree[j] # Absent
    BY <1>0 DEF Content
  <2>2. j \in Covered(q)
    BY <1>1, <2>1, CoveredKeys
  <2>3. pos[i] = nil \/ Before(q, pos[i], j)
    BY <1>0, <1>4 DEF Ahead
  <2>. QED
    BY <1>1, <2>1, <2>2, <2>3 DEF Unvisited
(* Items that were sent come before this one. *)
<1>5. ASSUME NEW n \in DOMAIN sent[i]
      PROVE  Before(q, sent[i][n].key, k)
  <2>1. pos[i] # nil /\ (sent[i][n].key = pos[i] \/ Before(q, sent[i][n].key, pos[i]))
    BY <1>0 DEF Passed
  <2>. QED
    BY <1>1, <1>2, <1>3, <2>1, BeforeTransitive
<1>6. CASE k = skipEqual[i]
  <2>1. /\ skipEqual'[i] = nil /\ pos'[i] = k /\ UNCHANGED <<scan, sent>>
    BY <1>2, <1>6 DEF Visitor, BasicInv, TypeOK, ScanTypes
  <2>2. SkipEqual(q) = k /\ q.end = k /\ ~InDomain(q, k)
    BY <1>0, <1>1, <1>2, <1>6, CoveredKeys DEF SkipInv
  <2>3. Ahead(snap[i], q, k, sent[i])
    BY <1>4, <2>2 DEF Ahead, Content
  <2>4. Passed(q, k, sent[i])
    BY <1>2, <1>5 DEF Passed
  <2>5. SkipInv(q, k, nil)
    BY <1>2, <2>2, SMT DEF SkipInv
  <2>. QED
    BY <1>0, <2>1, <2>3, <2>4, <2>5 DEF TraversalInv, ChClosed
<1>7. CASE k # skipEqual[i] /\ IsAborted(i, k) /\ EndScan(i)
  <2>1. q.reverse /\ \A j \in KeyArg : j <= k => ~InDomain(q, j)
    BY <1>1, <1>7, CoveredKeys DEF IsAborted
  <2>2. \A j \in Unvisited(i) : j \in KeyArg /\ j <= k
    <3>1. Unvisited(i) \subseteq KeyArg
      BY <1>1 DEF Unvisited, Covered, Queries
    <3>2. \A j \in Unvisited(i) : j \in Nat /\ (j = k \/ j < k)
      BY <1>1, <2>1, <3>1, KeyArgNat DEF Before
    <3>. QED
      BY <1>2, <3>1, <3>2, SMT
  <2>. QED
    BY <1>7, <2>1, <2>2, ScanEnds
<1>8. CASE cancelled[i] /\ EndScan(i)
  BY <1>8, ScanEnds
<1>9. CASE k # skipEqual[i] /\ ~IsAborted(i, k) /\ Send(i, item)
  <2>1. /\ sent'[i] = Append(sent[i], item) /\ pos'[i] = k
        /\ UNCHANGED <<scan, skipEqual>>
    BY <1>2, <1>9 DEF Send, BasicInv, TypeOK, ScanTypes
  <2>2. item \in Item
    <3>1. k # EmptyKey /\ btree[k] \in Value
      BY <1>1 DEF BasicInv, TypeOK, TreeTypes, Tree
    <3>. QED
      BY <1>1, <3>1 DEF Item, KeyArg
  <2>3. SkipEqual(q) # nil => k # q.end /\ k <= q.end
    <3>. SUFFICES ASSUME SkipEqual(q) # nil PROVE k # q.end /\ k <= q.end
      OBVIOUS
    <3>1. k <= q.end /\ SkipEqual(q) = q.end
      BY <1>1, CoveredKeys
    <3>2. CASE skipEqual[i] = q.end
      BY <1>9, <3>1, <3>2
    <3>3. CASE skipEqual[i] = nil
      <4>1. pos[i] # nil /\ pos[i] <= q.end
        BY <1>0, <3>3 DEF SkipInv
      <4>2. q.reverse
        BY <3>1 DEF SkipEqual
      <4>3. k < pos[i] /\ pos[i] \in Nat
        BY <1>1, <1>3, <4>1, <4>2 DEF Before
      <4>4. q.end \in Nat
        BY <1>1, <3>1, KeyArgNat DEF Queries, EndPoint
      <4>. QED
        BY <1>2, <3>1, <4>1, <4>3, <4>4, SMT
    <3>4. skipEqual[i] \in {nil, q.end}
      BY <1>0, <3>1 DEF SkipInv
    <3>. QED
      BY <3>2, <3>3, <3>4
  <2>4. InDomain(q, k)
    BY <1>1, <1>9, <2>3, CoveredKeys DEF IsAborted
  <2>5. k \in Content(snap[i], q)
    BY <1>0, <1>1, <2>4 DEF Content
  <2>6. /\ Delivered(snap[i], q, sent'[i])
        /\ Passed(q, k, sent'[i])
        /\ KeysIn(sent'[i]) = KeysIn(sent[i]) \cup {k}
    <3>1. PICK items \in Seq(Item) : items = sent[i]
      BY <1>3
    <3>2. PICK one \in Item : one = item /\ one.key = k /\ one.value = btree[k]
      BY <1>2, <2>2
    <3>3. /\ Delivered(snap[i], q, items)
          /\ one.key \in Content(snap[i], q) /\ one.value = snap[i][one.key] /\ one.key # nil
          /\ \A n \in DOMAIN items : Before(q, items[n].key, one.key)
      BY <1>0, <1>2, <1>5, <2>5, <3>1, <3>2
    <3>4. /\ Delivered(snap[i], q, Append(items, one))
          /\ Passed(q, one.key, Append(items, one))
          /\ KeysIn(Append(items, one)) = KeysIn(items) \cup {one.key}
      <4>1. CanSend(snap[i], q, items, one)
        BY <3>3 DEF CanSend
      <4>2. Sends(snap[i], q, items, one)
        BY <4>1, SendOne
      <4>. QED
        BY <4>2 DEF Sends
    <3>. QED
      BY <2>1, <3>1, <3>2, <3>4
  <2>7. Ahead(snap[i], q, k, sent'[i])
    BY <1>4, <2>6 DEF Ahead
  <2>8. SkipInv(q, k, skipEqual[i])
    BY <1>0, <1>2, <2>3 DEF SkipInv
  <2>. QED
    BY <1>0, <2>1, <2>6, <2>7, <2>8 DEF TraversalInv, ChClosed
<1>. QED
  BY <1>2, <1>6, <1>7, <1>8, <1>9 DEF Visitor

LEMMA ScanGoroutine ==
  ASSUME BasicInv, ScanInv, NEW i \in Iter, Goroutine(i)
  PROVE  ScanInv'
<1>1. CASE Visit(i)
  <2>1. /\ scan[i] = "visit"
        /\ UNCHANGED <<btree, pc, on, query, snap, cancelled, raced>>
    BY <1>1 DEF Visit, treeVars, callVars, iterVars
  <2>2. \/ EndScan(i)
        \/ \E item : Visitor(i, item)
    BY <1>1 DEF Visit
  <2>3. /\ scan' = scan \/ scan' = [scan EXCEPT ![i] = "closed"]
        /\ \A j \in Iter : j # i =>
             /\ pos'[j] = pos[j] /\ skipEqual'[j] = skipEqual[j]
             /\ sent'[j] = sent[j] /\ scan'[j] = scan[j]
    BY <2>2 DEF EndScan, Visitor, Send, BasicInv, TypeOK, ScanTypes
  <2>4. ASSUME ~raced[i]
        PROVE  TraversalInv(i)'
    <3>1. TraversalInv(i)
      BY <2>1, <2>4 DEF ScanInv
    <3>2. CASE Unvisited(i) = {} /\ EndScan(i)
      BY <2>1, <3>1, <3>2, ScanEnds
    <3>3. CASE \E k \in Unvisited(i) :
                 IsNextKey(i, k) /\ Visitor(i, [key |-> k, value |-> btree[k]])
      BY <2>1, <3>1, <3>3, VisitorStep
    <3>. QED
      BY <1>1, <2>4, <3>2, <3>3 DEF Visit
  <2>5. ASSUME NEW j \in Iter, j # i, TraversalInv(j)
        PROVE  TraversalInv(j)'
    BY <2>1, <2>3, <2>5 DEF TraversalInv, ChClosed
  <2>6. scan'[i] # "none" /\ \A j \in Iter : scan'[j] = "none" <=> scan[j] = "none"
    BY <2>1, <2>3 DEF BasicInv, TypeOK, ScanTypes
  <2>7. \A c \in Client : pc'[c] = "open" => scan'[on'[c]] = "none"
    BY <2>1, <2>6 DEF ScanInv, BasicInv, OwnerInv
  <2>. QED
    BY <2>1, <2>3, <2>4, <2>5, <2>6, <2>7 DEF ScanInv
<1>2. CASE ExitScan(i)
  <2>1. /\ scan[i] = "closed" /\ scan' = [scan EXCEPT ![i] = "done"]
        /\ UNCHANGED <<btree, pc, on, pos, skipEqual, sent, query, snap, cancelled, raced>>
    BY <1>2 DEF ExitScan, EndGoroutine, treeVars, callVars, iterVars
  <2>2. /\ scan'[i] = "done"
        /\ \A j \in Iter : j # i => scan'[j] = scan[j]
    BY <2>1 DEF BasicInv, TypeOK, ScanTypes
  <2>3. ASSUME NEW j \in Iter, TraversalInv(j)
        PROVE  TraversalInv(j)'
    BY <2>1, <2>2, <2>3 DEF TraversalInv, ChClosed
  <2>4. \A c \in Client : pc'[c] = "open" => scan'[on'[c]] = "none"
    BY <2>1, <2>2 DEF ScanInv, BasicInv, OwnerInv
  <2>. QED
    BY <2>1, <2>2, <2>3, <2>4 DEF ScanInv
<1>. QED
  BY <1>1, <1>2 DEF Goroutine

LEMMA ScanStep == BasicInv /\ LockInv /\ ScanInv /\ [Next]_vars => ScanInv'
<1>. SUFFICES ASSUME BasicInv, LockInv, ScanInv, [Next]_vars PROVE ScanInv'
  OBVIOUS
<1>1. CASE UNCHANGED vars
  BY <1>1, ScanFrame DEF vars, treeVars, callVars, iterVars
<1>2. CASE Next
  BY <1>2, CallKinds, ScanBegin, ScanContinue, ScanGoroutine DEF Next
<1>. QED
  BY <1>1, <1>2

(* An iterator that no write races with delivers, in order and completely,   *)
(* the content of its domain at the moment it was created; for every number  *)
(* of clients, iterators and keys, every channel capacity, and whatever      *)
(* writes happen after the traversal gave its lock back.                     *)
THEOREM SnapshotIteration == Spec => []IteratorIsSnapshot
<1>1. Init => ScanInv
  BY DEF Init, ScanInv
<1>2. BasicInv /\ ScanInv => IteratorIsSnapshot
  BY DEF ScanInv, TraversalInv, Delivered, IteratorIsSnapshot
<1>. QED
  BY <1>1, <1>2, BasicInvariant, LockInvariant, ScanStep, PTL DEF Spec

-----------------------------------------------------------------------------
(***************************************************************************)
(* What holds of MemDB's writes and iterators between the steps of a call, *)
(* and what an iterator has yet to show: the invariants from which         *)
(* MemDBImplements shows that MemDB implements KVStore.                    *)
(***************************************************************************)

(* No client asks for an iterator without the lock. *)
OnlyLocking == \A q \in Query : q.useMtx

(* So every traversal holds the lock, and no write races with one. *)
RaceInv == \A i \in Iter : query[i].useMtx /\ ~raced[i]

-----------------------------------------------------------------------------
(***************************************************************************)
(* Writes.  The tree without the changes of a write in progress is the     *)
(* committed one; the operations applied so far and those still to be      *)
(* applied are together those of the call.                                 *)
(***************************************************************************)
OpsOf(c) == IF pc[c] = "set" THEN <<arg[c]>> ELSE batch[c]

WriteOK(c) ==
  /\ pc[c] \in {"get", "has"} => arg[c].key \in Key
  /\ pc[c] = "set" => arg[c] \in Op
  /\ pc[c] = "write" => batch[c] # nil
  /\ pc[c] \in {"set", "write"} =>
       IF locked /\ writer = c
         THEN AfterOps(btree, work[c]) = AfterOps(committed, OpsOf(c))
         ELSE work[c] = OpsOf(c)

WriteInv ==
  /\ ~locked => btree = committed
  /\ writer # NoOne => pc[writer] \in {"set", "write"}
  /\ \A c \in Client : WriteOK(c)

-----------------------------------------------------------------------------
(***************************************************************************)
(* Iterators.  The owner of i is in the call "where" on it.                *)
(***************************************************************************)
At(i, where) == owner[i] # NoOne /\ pc[owner[i]] = where /\ on[owner[i]] = i

(* The current item is the one last received.  There is none while the       *)
(* client waits for the first one, and when the channel is closed and empty. *)
IterOK(i) ==
  /\ owner[i] # NoOne => query[i] \in Query /\ EmptyKey \notin {query[i].start, query[i].end}
  /\ scan[i] = "none" => ~cancelled[i] /\ (owner[i] = NoOne \/ At(i, "open"))
  /\ ~cancelled[i] => cur[i] \in {0, recvd[i]}
  /\ ~cancelled[i] /\ scan[i] # "none" /\ cur[i] = 0 =>
       At(i, "receive") \/ (Drained(i) /\ ChClosed(i))
  /\ cancelled[i] /\ cur[i] # 0 => At(i, "drain")
  /\ At(i, "receive") => ~cancelled[i]
  /\ At(i, "drain") => cancelled[i]

IterInv == \A i \in Iter : IterOK(i)

-----------------------------------------------------------------------------
(* The ways a call begins, with arguments that have passed the checks. *)
Answered(c) ==
  \/ \E e \in {"errKeyEmpty", "errValueNil"} : ReturnAtOnce(c, Status(e))
  \/ batch[c] = nil /\ ReturnAtOnce(c, Status("errBatchClosed"))
  \/ \E i \in Iter : owner[i] = c /\ ~Valid(i) /\ ReturnAtOnce(c, Status("panic"))
  \/ \E i \in Iter : /\ owner[i] = c /\ Valid(i)
                     /\ ReturnAtOnce(c, Result("item", sent[i][cur[i]].key, sent[i][cur[i]].value))

BatchChanged(c) ==
  \/ ChangeBatch(c, <<>>, Status("new"))
  \/ ChangeBatch(c, nil, Status("close"))
  \/ \E op \in Op : /\ batch[c] # nil
                    /\ ChangeBatch(c, Append(batch[c], op), Result("append", op.key, op.value))

Begins(c) ==
  \/ Answered(c) \/ BatchChanged(c)
  \/ \E where \in {"get", "has"}, k \in Key : ReadCall(c, where, k)
  \/ Inspect(c)
  \/ \E op \in Op : SetCall(c, op)
  \/ batch[c] # nil /\ LockCall(c, "write", NoArg, batch[c])
  \/ \E i \in Iter, q \in Query : EmptyKey \notin {q.start, q.end} /\ OpenCall(c, i, q)
  \/ \E i \in Iter : owner[i] = c /\ Valid(i) /\ NextCall(c, i)
  \/ \E i \in Iter : Close(c, i)

LEMMA HowCallsBegin ==
  ASSUME NEW c \in Client, StartCall(c)
  PROVE  Begins(c)
<1>1. Key \subseteq KeyArg /\ EmptyKey \in KeyArg /\ Value \subseteq ValueArg
  BY DEF KeyArg, ValueArg
<1>2. ASSUME NEW k \in KeyArg, NEW v \in ValueArg,
             \/ Set(c, k, v) \/ Delete(c, k) \/ BatchSet(c, k, v) \/ BatchDelete(c, k)
             \/ Get(c, k) \/ Has(c, k)
      PROVE  Begins(c)
  <2>1. CASE ReturnAtOnce(c, Status("errKeyEmpty")) \/ ReturnAtOnce(c, Status("errValueNil"))
    BY <2>1 DEF Begins, Answered
  <2>2. /\ k # EmptyKey => k \in Key /\ [key |-> k, value |-> Absent] \in Op
        /\ k # EmptyKey /\ v # nil => [key |-> k, value |-> v] \in Op
    BY DEF KeyArg, ValueArg, Op
  <2>3. CASE \E op \in Op : SetCall(c, op)
    BY <2>3 DEF Begins
  <2>4. CASE \E op \in Op : AppendOp(c, op)
    BY <2>4 DEF Begins, Answered, BatchChanged, AppendOp
  <2>5. CASE \E where \in {"get", "has"}, j \in Key : ReadCall(c, where, j)
    BY <2>5 DEF Begins
  <2>6. CASE Set(c, k, v) \/ Delete(c, k)
    BY <2>1, <2>2, <2>3, <2>6, Refusals DEF Set, Delete
  <2>7. CASE BatchSet(c, k, v) \/ BatchDelete(c, k)
    BY <2>1, <2>2, <2>4, <2>7, Refusals DEF BatchSet, BatchDelete
  <2>8. CASE Get(c, k) \/ Has(c, k)
    BY <2>1, <2>2, <2>5, <2>8, Refusals DEF Get, Has
  <2>. QED
    BY <1>2, <2>6, <2>7, <2>8
<1>3. CASE Inspect(c) \/ NewBatch(c) \/ Write(c) \/ BatchClose(c)
  BY <1>3 DEF Begins, Answered, BatchChanged, NewBatch, Write, BatchClose
<1>4. ASSUME NEW i \in Iter, \/ \E q \in Query : NewIterator(c, i, q)
                            \/ IteratorNext(c, i) \/ Close(c, i) \/ ReadItem(c, i)
      PROVE  Begins(c)
  <2>1. CASE \E q \in Query : NewIterator(c, i, q)
    BY <2>1, Refusals DEF Begins, Answered, NewIterator
  <2>2. CASE IteratorNext(c, i) \/ Close(c, i)
    BY <2>2 DEF Begins, Answered, IteratorNext
  <2>3. CASE ReadItem(c, i)
    BY <2>3 DEF Begins, Answered, ReadItem
  <2>. QED
    BY <1>4, <2>1, <2>2, <2>3
<1>5. nil \in ValueArg
  BY DEF ValueArg
<1>6. CASE \E k \in KeyArg : Get(c, k) \/ Has(c, k) \/ Delete(c, k) \/ BatchDelete(c, k)
  BY <1>2, <1>5, <1>6
<1>7. CASE \E k \in KeyArg, v \in ValueArg : Set(c, k, v) \/ BatchSet(c, k, v)
  BY <1>2, <1>7
<1>. QED
  BY <1>1, <1>3, <1>4, <1>6, <1>7 DEF StartCall, InvalidCall

-----------------------------------------------------------------------------
LEMMA RaceStep ==
  ASSUME OnlyLocking, BasicInv, RaceInv, [Next]_vars
  PROVE  RaceInv'
<1>1. CASE UNCHANGED <<query, raced>>
  BY <1>1 DEF RaceInv
<1>2. CASE UNCHANGED vars
  BY <1>1, <1>2 DEF vars, iterVars
<1>3. ASSUME NEW c \in Client, Begins(c)
      PROVE  RaceInv'
  <2>1. ASSUME NEW i \in Iter, NEW q \in Query, OpenCall(c, i, q)
        PROVE  RaceInv'
    <3>1. query' = [query EXCEPT ![i] = q] /\ UNCHANGED raced
      BY <2>1 DEF OpenCall
    <3>. QED
      BY <3>1 DEF OnlyLocking, RaceInv, BasicInv, TypeOK, IterTypes
  <2>2. CASE UNCHANGED <<query, raced>>
    BY <2>2, <1>1
  <2>3. CASE Answered(c)
    BY <2>2, <2>3 DEF Answered, ReturnAtOnce, iterVars
  <2>4. CASE BatchChanged(c)
    BY <2>2, <2>4 DEF BatchChanged, ChangeBatch, iterVars
  <2>. QED
    BY <1>3, <2>1, <2>2, <2>3, <2>4
       DEF Begins, ReadCall, Inspect, SetCall, LockCall, NextCall, Close, iterVars
<1>4. ASSUME NEW c \in Client, Step(c)
      PROVE  RaceInv'
  <2>1. CASE Apply(c)
    BY <2>1 DEF Apply, iterVars, RaceInv
  <2>. QED
    BY <1>1, <1>4, <2>1 DEF Step, ReadReturn, FinishRead, Lock, WriteReturn, FinishWrite,
       Spawn, GoScan, Receive, Drain, iterVars
<1>5. ASSUME NEW i \in Iter, Goroutine(i)
      PROVE  RaceInv'
  BY <1>1, <1>5 DEF Goroutine, Visit, ExitScan, EndGoroutine, iterVars
<1>. QED
  BY <1>2, <1>3, <1>4, <1>5, HowCallsBegin DEF Next

-----------------------------------------------------------------------------
(* A client that enters or leaves a call; the others stay where they are. *)
SameCall(d) == pc'[d] = pc[d] /\ arg'[d] = arg[d] /\ on'[d] = on[d]

LEMMA EnterMoves ==
  ASSUME BasicInv, NEW c \in Client, NEW where, NEW a, NEW i, Enter(c, where, a, i)
  PROVE  /\ pc[c] = "idle" /\ pc'[c] = where /\ arg'[c] = a /\ on'[c] = i /\ ret' = ret
         /\ \A d \in Client : d # c => SameCall(d)
BY DEF Enter, BasicInv, TypeOK, CallTypes, SameCall

LEMMA ReturnMoves ==
  ASSUME BasicInv, NEW c \in Client, NEW r, Return(c, r)
  PROVE  /\ pc'[c] = "idle" /\ on'[c] = NoOne /\ ret' = [ret EXCEPT ![c] = r]
         /\ \A d \in Client : d # c => SameCall(d)
BY DEF Return, BasicInv, TypeOK, CallTypes, SameCall

LEMMA WriteFrame ==
  ASSUME WriteInv, NEW c \in Client, UNCHANGED <<btree, committed, writer, locked>>,
         \A d \in Client : d # c => /\ SameCall(d)
                                    /\ work'[d] = work[d] /\ batch'[d] = batch[d],
         WriteOK(c)', writer = c => pc'[c] \in {"set", "write"}, writer \in Client \cup {NoOne}
  PROVE  WriteInv'
<1>1. ASSUME NEW d \in Client, d # c
      PROVE  WriteOK(d)'
  <2>1. WriteOK(d) /\ SameCall(d) /\ work'[d] = work[d] /\ batch'[d] = batch[d]
    BY <1>1 DEF WriteInv
  <2>. QED
    BY <2>1 DEF WriteOK, OpsOf, SameCall
<1>2. writer # NoOne => pc'[writer] \in {"set", "write"}
  BY DEF WriteInv, SameCall
<1>. QED
  BY <1>1, <1>2 DEF WriteInv

(* A client that is not in a read or a write has nothing to promise. *)
LEMMA WriteElsewhere ==
  ASSUME BasicInv, WriteInv, NEW c \in Client, pc[c] \notin {"set", "write"},
         pc'[c] \in {"idle", "inspect", "open", "receive", "drain"},
         UNCHANGED <<btree, committed, writer, locked, work>>,
         \A d \in Client : d # c => SameCall(d) /\ batch'[d] = batch[d]
  PROVE  WriteInv'
<1>1. WriteOK(c)'
  BY DEF WriteOK
<1>2. writer \in Client \cup {NoOne} /\ writer # c
  BY SentinelAssumption DEF BasicInv, TypeOK, MtxTypes, WriteInv
<1>. QED
  BY <1>1, <1>2, WriteFrame

LEMMA WriteBegin ==
  ASSUME BasicInv, WriteInv, NEW c \in Client, Begins(c)
  PROVE  WriteInv'
<1>0. writer \in Client \cup {NoOne} /\ (pc[c] = "idle" => writer # c)
  BY SentinelAssumption DEF BasicInv, TypeOK, MtxTypes, WriteInv
<1>1. ASSUME NEW r, ReturnAtOnce(c, r)
      PROVE  WriteInv'
  <2>1. pc[c] = "idle" /\ Return(c, r) /\ UNCHANGED <<btree, committed, writer, locked, work, batch>>
    BY <1>1 DEF ReturnAtOnce, treeVars, mtxVars
  <2>. QED
    BY <2>1, ReturnMoves, WriteElsewhere
<1>2. ASSUME NEW ops, NEW r, ChangeBatch(c, ops, r)
      PROVE  WriteInv'
  <2>1. /\ pc[c] = "idle" /\ Return(c, r) /\ UNCHANGED <<btree, committed, writer, locked, work>>
        /\ batch' = [batch EXCEPT ![c] = ops]
    BY <1>2 DEF ChangeBatch, treeVars, mtxVars
  <2>2. \A d \in Client : d # c => batch'[d] = batch[d]
    BY <2>1 DEF BasicInv, TypeOK, WriteTypes
  <2>. QED
    BY <2>1, <2>2, ReturnMoves, WriteElsewhere
<1>3. ASSUME NEW where \in {"inspect", "open", "receive", "drain"}, NEW a, NEW i, Enter(c, where, a, i),
             UNCHANGED <<btree, committed, writer, locked, work, batch>>
      PROVE  WriteInv'
  BY <1>3, EnterMoves, WriteElsewhere
<1>4. ASSUME NEW where \in {"get", "has"}, NEW k \in Key, ReadCall(c, where, k)
      PROVE  WriteInv'
  <2>1. /\ Enter(c, where, [key |-> k, value |-> Absent], NoOne)
        /\ UNCHANGED <<btree, committed, writer, locked, work, batch>>
    BY <1>4 DEF ReadCall, RLock, treeVars
  <2>2. WriteOK(c)'
    <3>1. pc'[c] = where /\ arg'[c] = [key |-> k, value |-> Absent]
      BY <2>1, EnterMoves
    <3>2. arg'[c].key = k
      BY <3>1, SMT
    <3>. QED
      BY <3>1, <3>2 DEF WriteOK
  <2>. QED
    BY <1>0, <2>1, <2>2, EnterMoves, WriteFrame
<1>5. ASSUME NEW where \in {"set", "write"}, NEW a, NEW ops, LockCall(c, where, a, ops),
             \/ where = "set" /\ a \in Op /\ ops = <<a>>
             \/ where = "write" /\ batch[c] # nil /\ ops = batch[c]
      PROVE  WriteInv'
  <2>1. /\ Enter(c, where, a, NoOne) /\ work' = [work EXCEPT ![c] = ops]
        /\ UNCHANGED <<btree, committed, writer, locked, batch>>
    BY <1>5 DEF LockCall, treeVars, mtxVars
  <2>2. /\ pc[c] = "idle" /\ pc'[c] = where /\ arg'[c] = a
        /\ \A d \in Client : d # c => SameCall(d)
    BY <2>1, EnterMoves
  <2>3. work'[c] = ops /\ \A d \in Client : d # c => work'[d] = work[d]
    BY <2>1 DEF BasicInv, TypeOK, WriteTypes
  <2>4. WriteOK(c)'
    BY <1>0, <1>5, <2>1, <2>2, <2>3 DEF WriteOK, OpsOf
  <2>. QED
    BY <1>0, <2>1, <2>2, <2>3, <2>4, WriteFrame
<1>6. CASE Answered(c)
  BY <1>1, <1>6 DEF Answered
<1>7. CASE BatchChanged(c)
  BY <1>2, <1>7 DEF BatchChanged
<1>8. CASE Inspect(c)
  BY <1>3, <1>8 DEF Inspect, ReadCall, RLock, treeVars
<1>9. CASE \E op \in Op : SetCall(c, op)
  BY <1>5, <1>9 DEF SetCall
<1>10. CASE batch[c] # nil /\ LockCall(c, "write", NoArg, batch[c])
  BY <1>5, <1>10
<1>11. ASSUME NEW i \in Iter, NEW q, OpenCall(c, i, q)
       PROVE  WriteInv'
  BY <1>3, <1>11 DEF OpenCall, RLock, treeVars, mtxVars
<1>12. ASSUME NEW i \in Iter, NextCall(c, i) \/ Close(c, i)
       PROVE  WriteInv'
  BY <1>3, <1>12 DEF NextCall, Close, treeVars, mtxVars
<1>. QED
  BY <1>4, <1>6, <1>7, <1>8, <1>9, <1>10, <1>11, <1>12 DEF Begins

LEMMA WriteContinue ==
  ASSUME BasicInv, LockInv, WriteInv, NEW c \in Client, Step(c)
  PROVE  WriteInv'
<1>0. writer \in Client \cup {NoOne} /\ c # NoOne
  BY SentinelAssumption DEF BasicInv, TypeOK, MtxTypes
<1>1. CASE ReadReturn(c)
  <2>1. PICK r : Return(c, r)
    BY <1>1 DEF ReadReturn, FinishRead
  <2>2. pc[c] \notin {"set", "write"} /\ UNCHANGED <<btree, committed, writer, locked, work, batch>>
    BY <1>1 DEF ReadReturn, FinishRead, RUnlock, treeVars
  <2>. QED
    BY <2>1, <2>2, ReturnMoves, WriteElsewhere
<1>2. CASE Lock(c)
  <2>1. pc[c] \in {"set", "write"} /\ UNCHANGED <<btree, committed, pc, arg, work, batch>>
    BY <1>2 DEF Lock, treeVars, callVars
  <2>2. CASE LockPending(c)
    <3>1. writer = NoOne /\ writer' = c /\ locked' = locked /\ ~locked
      BY <2>2 DEF LockPending, LockInv
    <3>. QED
      BY <2>1, <3>1 DEF WriteInv, WriteOK, OpsOf
  <2>3. CASE LockAcquired(c)
    <3>1. writer = c /\ writer' = c /\ locked' /\ ~locked
      BY <2>3 DEF LockAcquired
    <3>. QED
      BY <2>1, <3>1 DEF WriteInv, WriteOK, OpsOf
  <2>. QED
    BY <1>2, <2>2, <2>3 DEF Lock
<1>3. CASE Apply(c)
  <2>1. /\ writer = c /\ locked /\ work[c] # <<>>
        /\ btree' = [btree EXCEPT ![Head(work[c]).key] = Head(work[c]).value]
        /\ work' = [work EXCEPT ![c] = Tail(work[c])]
        /\ UNCHANGED <<committed, pc, arg, batch, writer, locked>>
    BY <1>3 DEF Apply, callVars, mtxVars
  <2>2. work[c] \in Seq(Op) /\ work'[c] = Tail(work[c]) /\ \A d \in Client : d # c => work'[d] = work[d]
    BY <2>1 DEF BasicInv, TypeOK, WriteTypes
  <2>3. AfterOps(btree', work'[c]) = AfterOps(btree, work[c])
    <3>1. PICK t, ops : t = btree /\ ops = work[c] /\ ops \in Seq(Op) /\ ops # <<>>
      BY <2>1, <2>2
    <3>2. AfterOps([t EXCEPT ![Head(ops).key] = Head(ops).value], Tail(ops)) = AfterOps(t, ops)
      BY <3>1, AfterHead
    <3>. QED
      BY <2>1, <2>2, <3>1, <3>2
  <2>4. WriteOK(c)'
    BY <2>1, <2>3 DEF WriteInv, WriteOK, OpsOf
  <2>5. ASSUME NEW d \in Client, d # c
        PROVE  WriteOK(d)'
    <3>1. WriteOK(d) /\ work'[d] = work[d]
      BY <2>2, <2>5 DEF WriteInv
    <3>. QED
      BY <2>1, <2>5, <3>1 DEF WriteOK, OpsOf
  <2>. QED
    BY <2>1, <2>4, <2>5 DEF WriteInv
<1>4. CASE WriteReturn(c)
  <2>1. PICK r : Return(c, r)
    BY <1>4 DEF WriteReturn, FinishWrite
  <2>2. /\ writer = c /\ writer' = NoOne /\ ~locked' /\ committed' = btree /\ btree' = btree
        /\ work' = work
        /\ \A d \in Client : d # c => batch'[d] = batch[d]
    BY <1>4 DEF WriteReturn, Unlock, FinishWrite, BasicInv, TypeOK, WriteTypes
  <2>3. pc'[c] = "idle" /\ \A d \in Client : d # c => SameCall(d)
    BY <2>1, ReturnMoves
  <2>4. WriteOK(c)'
    BY <2>3 DEF WriteOK
  <2>5. ASSUME NEW d \in Client, d # c
        PROVE  WriteOK(d)'
    <3>1. WriteOK(d) /\ SameCall(d) /\ batch'[d] = batch[d]
      BY <2>2, <2>3, <2>5 DEF WriteInv
    <3>. QED
      BY <2>2, <2>5, <3>1 DEF WriteOK, OpsOf, SameCall
  <2>. QED
    BY <2>2, <2>4, <2>5 DEF WriteInv
<1>5. CASE Spawn(c)
  <2>1. /\ pc[c] = "open" /\ pc' = [pc EXCEPT ![c] = "receive"]
        /\ UNCHANGED <<btree, committed, arg, on, work, batch, writer, locked>>
    BY <1>5 DEF Spawn, GoScan, treeVars, mtxVars
  <2>2. pc'[c] = "receive" /\ \A d \in Client : d # c => SameCall(d)
    BY <2>1 DEF SameCall, BasicInv, TypeOK, CallTypes
  <2>. QED
    BY <2>1, <2>2, WriteElsewhere
<1>6. CASE Receive(c)
  <2>1. PICK r : Return(c, r)
    BY <1>6 DEF Receive
  <2>2. pc[c] = "receive" /\ UNCHANGED <<btree, committed, writer, locked, work, batch>>
    BY <1>6 DEF Receive, treeVars, mtxVars
  <2>. QED
    BY <2>1, <2>2, ReturnMoves, WriteElsewhere
<1>7. CASE Drain(c)
  <2>1. pc[c] = "drain" /\ UNCHANGED <<btree, committed, writer, locked, work, batch>>
    BY <1>7 DEF Drain, treeVars, mtxVars
  <2>2. CASE UNCHANGED callVars
    BY <2>1, <2>2, WriteElsewhere DEF callVars, SameCall
  <2>3. CASE \E r : Return(c, r)
    BY <2>1, <2>3, ReturnMoves, WriteElsewhere
  <2>. QED
    BY <1>7, <2>2, <2>3 DEF Drain
<1>. QED
  BY <1>1, <1>2, <1>3, <1>4, <1>5, <1>6, <1>7 DEF Step

LEMMA WriteStep ==
  ASSUME BasicInv, LockInv, WriteInv, [Next]_vars
  PROVE  WriteInv'
<1>1. CASE UNCHANGED <<btree, committed, pc, arg, work, batch, writer, locked>>
  BY <1>1 DEF WriteInv, WriteOK, OpsOf
<1>2. CASE UNCHANGED vars
  BY <1>1, <1>2 DEF vars, treeVars, callVars, mtxVars
<1>3. ASSUME NEW i \in Iter, Goroutine(i)
      PROVE  WriteInv'
  BY <1>1, <1>3 DEF Goroutine, Visit, ExitScan, EndGoroutine, RUnlock, treeVars, callVars, mtxVars
<1>. QED
  BY <1>2, <1>3, HowCallsBegin, WriteBegin, WriteContinue DEF Next

-----------------------------------------------------------------------------
(* What an iterator holds, and where its owner is, stays the same. *)
SameIter(i) ==
  /\ owner'[i] = owner[i] /\ query'[i] = query[i] /\ scan'[i] = scan[i]
  /\ cancelled'[i] = cancelled[i] /\ sent'[i] = sent[i]
  /\ recvd'[i] = recvd[i] /\ cur'[i] = cur[i]

IterCalls == {"open", "receive", "drain"}

LEMMA AtElsewhere ==
  ASSUME BasicInv, NEW c \in Client, NEW i \in Iter, owner'[i] = owner[i],
         \A d \in Client : d # c => SameCall(d),
         pc[c] \in IterCalls => on[c] # i,
         pc'[c] \in IterCalls => on'[c] # i
  PROVE  \A where \in IterCalls : At(i, where)' <=> At(i, where)
<1>1. owner[i] \in Client \cup {NoOne} /\ c # NoOne
  BY SentinelAssumption DEF BasicInv, TypeOK, IterTypes
<1>2. CASE owner[i] = c
  BY <1>1, <1>2 DEF At
<1>3. CASE owner[i] # c
  BY <1>1, <1>3 DEF At, SameCall
<1>. QED
  BY <1>2, <1>3

LEMMA IterFrame ==
  ASSUME BasicInv, NEW c \in Client, NEW i \in Iter, IterOK(i), SameIter(i),
         \A d \in Client : d # c => SameCall(d),
         pc[c] \in IterCalls => on[c] # i,
         pc'[c] \in IterCalls => on'[c] # i
  PROVE  IterOK(i)'
<1>1. \A where \in IterCalls : At(i, where)' <=> At(i, where)
  BY AtElsewhere DEF SameIter
<1>2. /\ At(i, "open")' <=> At(i, "open")
      /\ At(i, "receive")' <=> At(i, "receive")
      /\ At(i, "drain")' <=> At(i, "drain")
  BY <1>1 DEF IterCalls
<1>. HIDE DEF At
<1>3. (Drained(i)' <=> Drained(i)) /\ (ChClosed(i)' <=> ChClosed(i))
  BY DEF SameIter, Drained, ChClosed
<1>. HIDE DEF Drained, ChClosed
<1>. QED
  BY <1>2, <1>3 DEF IterOK, SameIter

(* An idle client's iterators are started; a closed one has no item. *)
LEMMA OwnedIsStarted ==
  ASSUME BasicInv, IterInv, NEW c \in Client, NEW i \in Iter, owner[i] = c, pc[c] = "idle"
  PROVE  /\ scan[i] # "none"
         /\ cur[i] # 0 => ~cancelled[i] /\ cur[i] = recvd[i]
         /\ cur[i] = 0 /\ ~cancelled[i] => Drained(i) /\ ChClosed(i)
<1>1. IterOK(i) /\ owner[i] # NoOne
  BY SentinelAssumption DEF IterInv
<1>2. \A where \in IterCalls : ~At(i, where)
  BY DEF At, IterCalls
<1>3. ~At(i, "open") /\ ~At(i, "receive") /\ ~At(i, "drain")
  BY <1>2 DEF IterCalls
<1>. HIDE DEF At
<1>. QED
  BY <1>1, <1>3 DEF IterOK

(* A client enters a call on i. *)
LEMMA AtEntered ==
  ASSUME BasicInv, NEW c \in Client, NEW i \in Iter, NEW where \in IterCalls,
         owner'[i] = c, pc'[c] = where, on'[c] = i
  PROVE  \A w \in IterCalls : At(i, w)' <=> w = where
BY SentinelAssumption DEF At

LEMMA IterBegin ==
  ASSUME BasicInv, IterInv, NEW c \in Client, Begins(c)
  PROVE  IterInv'
<1>1. ASSUME pc[c] = "idle", pc'[c] \notin IterCalls, \A d \in Client : d # c => SameCall(d),
             UNCHANGED <<scanVars, iterVars>>
      PROVE  IterInv'
  <2>1. \A i \in Iter : SameIter(i)
    BY <1>1 DEF SameIter, scanVars, iterVars
  <2>2. pc[c] \notin IterCalls
    BY <1>1 DEF IterCalls
  <2>. QED
    BY <1>1, <2>1, <2>2, IterFrame DEF IterInv
<1>2. ASSUME NEW r, Return(c, r), pc[c] = "idle", UNCHANGED <<scanVars, iterVars>>
      PROVE  IterInv'
  BY <1>1, <1>2, ReturnMoves DEF IterCalls
<1>3. ASSUME NEW where \in {"get", "has", "inspect", "set", "write"}, NEW a, NEW i,
             Enter(c, where, a, i), UNCHANGED <<scanVars, iterVars>>
      PROVE  IterInv'
  BY <1>1, <1>3, EnterMoves DEF IterCalls
<1>4. CASE Answered(c) \/ BatchChanged(c)
  BY <1>2, <1>4 DEF Answered, BatchChanged, ReturnAtOnce, ChangeBatch
<1>5. CASE \/ \E where \in {"get", "has"}, k \in Key : ReadCall(c, where, k)
           \/ Inspect(c) \/ \E op \in Op : SetCall(c, op)
           \/ LockCall(c, "write", NoArg, batch[c])
  BY <1>3, <1>5 DEF ReadCall, Inspect, SetCall, LockCall
<1>6. ASSUME NEW i \in Iter, NEW where \in IterCalls, Enter(c, where, NoArg, i), IterOK(i)',
             \A j \in Iter : j # i => SameIter(j)
      PROVE  IterInv'
  <2>1. /\ pc[c] = "idle" /\ pc'[c] = where /\ on'[c] = i
        /\ \A d \in Client : d # c => SameCall(d)
    BY <1>6, EnterMoves
  <2>2. pc[c] \notin IterCalls
    BY <2>1 DEF IterCalls
  <2>3. ASSUME NEW j \in Iter, j # i
        PROVE  IterOK(j)'
    BY <1>6, <2>1, <2>2, <2>3, IterFrame DEF IterInv
  <2>. QED
    BY <1>6, <2>3 DEF IterInv
<1>7. ASSUME NEW i \in Iter, NEW q \in Query, EmptyKey \notin {q.start, q.end}, OpenCall(c, i, q)
      PROVE  IterInv'
  <2>1. /\ owner[i] = NoOne /\ Enter(c, "open", NoArg, i)
        /\ owner' = [owner EXCEPT ![i] = c] /\ query' = [query EXCEPT ![i] = q]
        /\ UNCHANGED <<scan, sent, cancelled, recvd, cur>>
    BY <1>7 DEF OpenCall, scanVars
  <2>2. \A j \in Iter : j # i => SameIter(j)
    BY <2>1 DEF SameIter, BasicInv, TypeOK, IterTypes
  <2>3. owner'[i] = c /\ query'[i] = q /\ scan'[i] = "none" /\ cancelled'[i] = cancelled[i]
    BY <2>1 DEF BasicInv, TypeOK, IterTypes, OwnerInv
  <2>4. "open" \in IterCalls /\ pc'[c] = "open" /\ on'[c] = i
    BY <2>1, EnterMoves DEF IterCalls
  <2>5. At(i, "open")' /\ ~At(i, "receive")' /\ ~At(i, "drain")'
    BY <2>3, <2>4, AtEntered DEF IterCalls
  <2>6. ~cancelled[i] /\ cur[i] \in {0, recvd[i]}
    BY <2>1, <2>3 DEF IterInv, IterOK
  <2>. HIDE DEF At
  <2>7. IterOK(i)'
    BY <1>7, <2>1, <2>3, <2>5, <2>6 DEF IterOK
  <2>. QED
    BY <1>6, <2>1, <2>2, <2>4, <2>7
<1>8. ASSUME NEW i \in Iter, owner[i] = c, Valid(i), NextCall(c, i)
      PROVE  IterInv'
  <2>1. /\ Enter(c, "receive", NoArg, i) /\ pc[c] = "idle"
        /\ UNCHANGED <<owner, query, scan, sent, cancelled, recvd, cur>>
    BY <1>8 DEF NextCall, Enter, scanVars, iterVars
  <2>2. \A j \in Iter : SameIter(j)
    BY <2>1 DEF SameIter
  <2>3. "receive" \in IterCalls /\ pc'[c] = "receive" /\ on'[c] = i
    BY <2>1, EnterMoves DEF IterCalls
  <2>4. At(i, "receive")' /\ ~At(i, "open")' /\ ~At(i, "drain")'
    BY <1>8, <2>1, <2>3, AtEntered DEF IterCalls
  <2>5. scan[i] # "none" /\ ~cancelled[i]
    BY <1>8, <2>1, OwnedIsStarted DEF Valid
  <2>6. IterOK(i)
    BY DEF IterInv
  <2>. HIDE DEF At
  <2>7. IterOK(i)'
    BY <2>1, <2>4, <2>5, <2>6 DEF IterOK
  <2>. QED
    BY <1>6, <2>1, <2>2, <2>3, <2>7
<1>9. ASSUME NEW i \in Iter, Close(c, i)
      PROVE  IterInv'
  <2>1. /\ owner[i] = c /\ Enter(c, "drain", NoArg, i) /\ pc[c] = "idle"
        /\ cancelled' = [cancelled EXCEPT ![i] = TRUE]
        /\ UNCHANGED <<owner, query, scan, sent, recvd, cur>>
    BY <1>9 DEF Close, Enter, scanVars
  <2>2. /\ cancelled'[i]
        /\ \A j \in Iter : j # i => SameIter(j)
    BY <2>1 DEF SameIter, BasicInv, TypeOK, IterTypes
  <2>3. "drain" \in IterCalls /\ pc'[c] = "drain" /\ on'[c] = i
    BY <2>1, EnterMoves DEF IterCalls
  <2>4. At(i, "drain")' /\ ~At(i, "open")' /\ ~At(i, "receive")'
    BY <2>1, <2>3, AtEntered DEF IterCalls
  <2>5. scan[i] # "none"
    BY <2>1, OwnedIsStarted
  <2>6. IterOK(i)
    BY DEF IterInv
  <2>. HIDE DEF At
  <2>7. IterOK(i)'
    BY <2>1, <2>2, <2>4, <2>5, <2>6 DEF IterOK
  <2>. QED
    BY <1>6, <2>1, <2>2, <2>3, <2>7
<1>. QED
  BY <1>4, <1>5, <1>7, <1>8, <1>9 DEF Begins

(* The iterator that client c is using, and what is known of it. *)
LEMMA InUse ==
  ASSUME BasicInv, IterInv, NEW c \in Client, pc[c] \in IterCalls
  PROVE  /\ on[c] \in Iter /\ owner[on[c]] = c /\ IterOK(on[c])
         /\ \A where \in IterCalls : At(on[c], where) <=> pc[c] = where
<1>1. on[c] \in Iter /\ owner[on[c]] = c
  BY DEF BasicInv, OwnerInv, IterCalls
<1>. QED
  BY <1>1, SentinelAssumption DEF At, IterInv

LEMMA IterUnchanged ==
  ASSUME IterInv, UNCHANGED <<scanVars, iterVars, pc, on>>
  PROVE  IterInv'
BY DEF IterInv, IterOK, At, Drained, ChClosed, scanVars, iterVars

(* A client in a call on i leaves it, or stays. *)
LEMMA IterContinue ==
  ASSUME BasicInv, WriteInv, ScanInv, IterInv, NEW c \in Client, Step(c)
  PROVE  IterInv'
<1>1. ASSUME pc[c] \notin IterCalls, pc'[c] \notin IterCalls,
             \A d \in Client : d # c => SameCall(d), UNCHANGED <<scanVars, iterVars>>
      PROVE  IterInv'
  <2>1. \A i \in Iter : SameIter(i)
    BY <1>1 DEF SameIter, scanVars, iterVars
  <2>. QED
    BY <1>1, <2>1, IterFrame DEF IterInv
<1>2. ASSUME NEW i \in Iter, pc[c] \in IterCalls, on[c] = i, pc'[c] \in IterCalls => on'[c] = i,
             \A d \in Client : d # c => SameCall(d), \A j \in Iter : j # i => SameIter(j),
             IterOK(i)'
      PROVE  IterInv'
  <2>1. ASSUME NEW j \in Iter, j # i
        PROVE  IterOK(j)'
    BY <1>2, <2>1, IterFrame DEF IterInv
  <2>. QED
    BY <1>2, <2>1 DEF IterInv
<1>3. CASE ReadReturn(c)
  <2>1. PICK r : Return(c, r)
    BY <1>3 DEF ReadReturn, FinishRead
  <2>2. pc[c] \notin IterCalls /\ UNCHANGED <<scanVars, iterVars>>
    BY <1>3 DEF ReadReturn, FinishRead, IterCalls
  <2>. QED
    BY <1>1, <2>1, <2>2, ReturnMoves DEF IterCalls
<1>4. CASE Lock(c) \/ Apply(c)
  BY <1>4, IterUnchanged DEF Lock, Apply, callVars
<1>5. CASE WriteReturn(c)
  <2>1. PICK r : Return(c, r)
    BY <1>5 DEF WriteReturn, FinishWrite
  <2>2. pc[c] \notin IterCalls /\ UNCHANGED <<scanVars, iterVars>>
    BY <1>5, SentinelAssumption DEF WriteReturn, FinishWrite, Unlock, IterCalls, WriteInv
  <2>. QED
    BY <1>1, <2>1, <2>2, ReturnMoves DEF IterCalls
<1>6. CASE Spawn(c)
  <2>1. PICK i \in Iter : i = on[c] /\ owner[i] = c
    BY <1>6 DEF Spawn, GoScan, BasicInv, OwnerInv
  <2>2. /\ pc[c] = "open" /\ pc' = [pc EXCEPT ![c] = "receive"]
        /\ scan' = [scan EXCEPT ![i] = "visit"]
        /\ UNCHANGED <<arg, on, sent, owner, query, cancelled, recvd, cur>>
    BY <1>6, <2>1 DEF Spawn, GoScan
  <2>3. pc[c] \in IterCalls /\ "receive" \in IterCalls /\ pc'[c] = "receive" /\ on'[c] = i
        /\ \A d \in Client : d # c => SameCall(d)
    BY <2>1, <2>2 DEF IterCalls, SameCall, BasicInv, TypeOK, CallTypes
  <2>4. scan'[i] = "visit" /\ \A j \in Iter : j # i => SameIter(j)
    BY <2>2 DEF SameIter, BasicInv, TypeOK, ScanTypes
  <2>5. scan[i] = "none" /\ IterOK(i)
    BY <2>1, <2>2 DEF ScanInv, IterInv
  <2>6. At(i, "receive")' /\ ~At(i, "open")' /\ ~At(i, "drain")'
    BY <2>1, <2>2, <2>3, AtEntered DEF IterCalls
  <2>. HIDE DEF At
  <2>7. IterOK(i)'
    BY <2>2, <2>4, <2>5, <2>6 DEF IterOK
  <2>. QED
    BY <1>2, <2>1, <2>3, <2>4, <2>7
<1>7. ASSUME NEW i \in Iter, owner[i] = c, owner' = owner, pc'[c] = "idle"
      PROVE  ~At(i, "open")' /\ ~At(i, "receive")' /\ ~At(i, "drain")'
  BY <1>7 DEF At
<1>8. CASE Receive(c)
  <2>1. pc[c] \in IterCalls
    BY <1>8 DEF Receive, IterCalls
  <2>2. PICK i \in Iter : /\ i = on[c] /\ owner[i] = c /\ IterOK(i)
                         /\ At(i, "receive") /\ ~At(i, "open")
    BY <1>8, <2>1, InUse DEF Receive, IterCalls
  <2>3. /\ \/ ~Drained(i) /\ recvd' = [recvd EXCEPT ![i] = @ + 1]
              /\ cur' = [cur EXCEPT ![i] = recvd[i] + 1]
           \/ Drained(i) /\ ChClosed(i) /\ cur' = [cur EXCEPT ![i] = 0] /\ recvd' = recvd
        /\ UNCHANGED <<scan, sent, owner, query, cancelled>>
    BY <1>8, <2>2 DEF Receive, scanVars
  <2>4. \A j \in Iter : j # i => SameIter(j)
    BY <2>3 DEF SameIter, BasicInv, TypeOK, IterTypes
  <2>5. PICK r : Return(c, r)
    BY <1>8 DEF Receive
  <2>6. pc'[c] = "idle" /\ \A d \in Client : d # c => SameCall(d)
    BY <2>5, ReturnMoves
  <2>7. ~At(i, "open")' /\ ~At(i, "receive")' /\ ~At(i, "drain")'
    BY <1>7, <2>2, <2>3, <2>6
  <2>8. ~cancelled[i] /\ scan[i] # "none"
    BY <2>2, SentinelAssumption DEF IterOK
  <2>9. \/ cur'[i] = recvd'[i] /\ cur'[i] # 0
        \/ cur'[i] = 0 /\ Drained(i)' /\ ChClosed(i)'
    <3>1. recvd[i] \in Nat /\ cur \in [Iter -> Nat] /\ recvd \in [Iter -> Nat]
      BY DEF BasicInv, TypeOK, IterTypes
    <3>2. recvd[i] + 1 # 0
      BY <3>1, SMT
    <3>. QED
      BY <2>3, <3>1, <3>2 DEF Drained, ChClosed
  <2>. HIDE DEF At, Drained, ChClosed
  <2>10. IterOK(i)'
    BY <2>2, <2>3, <2>7, <2>8, <2>9 DEF IterOK
  <2>11. pc'[c] \notin IterCalls
    BY <2>6 DEF IterCalls
  <2>. QED
    BY <1>2, <2>1, <2>2, <2>4, <2>6, <2>10, <2>11
<1>9. CASE Drain(c)
  <2>1. pc[c] \in IterCalls
    BY <1>9 DEF Drain, IterCalls
  <2>2. PICK i \in Iter : /\ i = on[c] /\ owner[i] = c /\ IterOK(i)
                         /\ At(i, "drain") /\ ~At(i, "open") /\ ~At(i, "receive")
    BY <1>9, <2>1, InUse DEF Drain, IterCalls
  <2>3. /\ \/ recvd' = [recvd EXCEPT ![i] = @ + 1] /\ UNCHANGED <<callVars, cur>>
           \/ /\ cur' = [cur EXCEPT ![i] = 0] /\ recvd' = recvd
              /\ \E r : Return(c, r)
        /\ UNCHANGED <<scan, sent, owner, query, cancelled>>
    BY <1>9, <2>2 DEF Drain, scanVars
  <2>4. \A j \in Iter : j # i => SameIter(j)
    BY <2>3 DEF SameIter, BasicInv, TypeOK, IterTypes
  <2>5. cancelled[i] /\ scan[i] # "none"
    BY <2>2 DEF IterOK
  <2>6. CASE UNCHANGED <<callVars, cur>>
    <3>1. /\ At(i, "drain")' /\ ~At(i, "open")' /\ ~At(i, "receive")'
          /\ \A d \in Client : d # c => SameCall(d)
          /\ on'[c] = i
      BY <2>2, <2>3, <2>6 DEF At, callVars, SameCall
    <3>. HIDE DEF At
    <3>2. IterOK(i)'
      BY <2>2, <2>3, <2>5, <2>6, <3>1 DEF IterOK
    <3>. QED
      BY <1>2, <2>1, <2>2, <2>4, <3>1, <3>2
  <2>7. ASSUME NEW r, Return(c, r), cur' = [cur EXCEPT ![i] = 0]
        PROVE  IterInv'
    <3>1. pc'[c] = "idle" /\ \A d \in Client : d # c => SameCall(d)
      BY <2>7, ReturnMoves
    <3>2. ~At(i, "open")' /\ ~At(i, "receive")' /\ ~At(i, "drain")'
      BY <1>7, <2>2, <2>3, <3>1
    <3>3. cur'[i] = 0
      BY <2>7 DEF BasicInv, TypeOK, IterTypes
    <3>. HIDE DEF At
    <3>4. IterOK(i)'
      BY <2>2, <2>3, <2>5, <3>2, <3>3 DEF IterOK
    <3>5. pc'[c] \notin IterCalls
      BY <3>1 DEF IterCalls
    <3>. QED
      BY <1>2, <2>1, <2>2, <2>4, <3>1, <3>4, <3>5
  <2>. QED
    BY <2>3, <2>6, <2>7
<1>. QED
  BY <1>3, <1>4, <1>5, <1>6, <1>8, <1>9 DEF Step

LEMMA IterGoroutine ==
  ASSUME BasicInv, IterInv, NEW i \in Iter, Goroutine(i)
  PROVE  IterInv'
<1>1. /\ scan[i] = "visit" \/ ChClosed(i)
      /\ scan[i] = "visit" => scan'[i] \in {"visit", "closed"}
      /\ ChClosed(i) => ChClosed(i)' /\ sent' = sent
      /\ \A j \in Iter : j # i => scan'[j] = scan[j] /\ sent'[j] = sent[j]
      /\ UNCHANGED <<pc, on, owner, query, cancelled, recvd, cur>>
  <2>1. CASE Visit(i)
    <3>1. /\ scan[i] = "visit" /\ UNCHANGED <<pc, on, owner, query, cancelled, recvd, cur>>
          /\ EndScan(i) \/ \E item : Visitor(i, item)
      BY <2>1 DEF Visit, callVars, iterVars
    <3>2. /\ scan'[i] \in {"visit", "closed"}
          /\ \A j \in Iter : j # i => scan'[j] = scan[j] /\ sent'[j] = sent[j]
      BY <3>1 DEF EndScan, Visitor, Send, BasicInv, TypeOK, ScanTypes
    <3>. QED
      BY <3>1, <3>2 DEF ChClosed
  <2>2. CASE ExitScan(i)
    <3>1. /\ scan[i] = "closed" /\ scan' = [scan EXCEPT ![i] = "done"] /\ sent' = sent
          /\ UNCHANGED <<pc, on, owner, query, cancelled, recvd, cur>>
      BY <2>2 DEF ExitScan, EndGoroutine, callVars, iterVars
    <3>. QED
      BY <3>1 DEF ChClosed, BasicInv, TypeOK, ScanTypes
  <2>. QED
    BY <2>1, <2>2 DEF Goroutine
<1>2. ASSUME NEW j \in Iter
      PROVE  \A where : At(j, where)' <=> At(j, where)
  BY <1>1 DEF At
<1>3. ASSUME NEW j \in Iter, j # i
      PROVE  IterOK(j)'
  <2>1. IterOK(j) /\ (Drained(j)' <=> Drained(j)) /\ (ChClosed(j)' <=> ChClosed(j))
    BY <1>1, <1>3 DEF IterInv, Drained, ChClosed
  <2>. HIDE DEF At, Drained, ChClosed
  <2>. QED
    BY <1>1, <1>2, <1>3, <2>1 DEF IterOK
<1>4. IterOK(i)'
  <2>1. IterOK(i)
    BY DEF IterInv
  <2>2. scan[i] # "none" /\ scan'[i] # "none"
    BY <1>1 DEF ChClosed
  <2>3. scan[i] = "visit" => ~ChClosed(i)
    BY DEF ChClosed
  <2>4. ChClosed(i) => (Drained(i)' <=> Drained(i))
    BY <1>1 DEF Drained
  <2>. HIDE DEF At, Drained, ChClosed
  <2>. QED
    BY <1>1, <1>2, <2>1, <2>2, <2>3, <2>4 DEF IterOK
<1>. QED
  BY <1>3, <1>4 DEF IterInv

LEMMA IterStep ==
  ASSUME BasicInv, WriteInv, ScanInv, IterInv, [Next]_vars
  PROVE  IterInv'
<1>1. CASE UNCHANGED vars
  BY <1>1, IterUnchanged DEF vars, callVars
<1>. QED
  BY <1>1, HowCallsBegin, IterBegin, IterContinue, IterGoroutine DEF Next

-----------------------------------------------------------------------------
(***************************************************************************)
(* What an iterator has yet to show.                                       *)
(***************************************************************************)
LEMMA QueryFacts ==
  ASSUME NEW q \in Queries
  PROVE  /\ q.start = nil \/ q.start \in KeyArg
         /\ q.end = nil \/ q.end \in KeyArg
         /\ q.reverse \in BOOLEAN
         /\ Covered(q) \subseteq KeyArg
<1>1. q.start \in EndPoint /\ q.end \in EndPoint /\ q.reverse \in BOOLEAN
  BY DEF Queries
<1>2. Covered(q) \subseteq KeyArg
  BY <1>1 DEF Covered
<1>. QED
  BY <1>1, <1>2 DEF EndPoint

(* What a traversal of tree t sends from position p on. *)
Aborts(q, k) == AbortLessThan(q) # nil /\ k < AbortLessThan(q)

Coming(q, t, p, skip) ==
  {k \in Covered(q) : /\ t[k] # Absent
                      /\ p = nil \/ Before(q, p, k)
                      /\ k # skip /\ ~Aborts(q, k)}

LEMMA FutureIsComing ==
  ASSUME NEW i \in Iter, scan[i] = "visit"
  PROVE  FutureKeys(i) = Coming(query[i], btree, pos[i], skipEqual[i])
BY DEF FutureKeys, Unvisited, IsAborted, Coming, Aborts

LEMMA DomainIsRange ==
  ASSUME NEW q \in Queries, NEW k \in KeyArg
  PROVE  InDomain(q, k) <=> KV!InRange(q, k)
<1>1. k \in Nat
  BY KeyArgNat
<1>2. \A n \in Nat : n <= k <=> ~(k < n)
  BY <1>1, SMT
<1>. QED
  BY <1>2, QueryFacts, KeyArgNat DEF InDomain, IsKeyInDomain, KV!InRange

(* At first, the content of the domain. *)
LEMMA ComingAtFirst ==
  ASSUME NEW q \in Queries, NEW t, t[EmptyKey] = Absent
  PROVE  Coming(q, t, nil, SkipEqual(q)) = {k \in Key : KV!InRange(q, k) /\ t[k] # Absent}
<1>1. ASSUME NEW k \in Coming(q, t, nil, SkipEqual(q))
      PROVE  k \in Key /\ KV!InRange(q, k) /\ t[k] # Absent
  <2>1. k \in KeyArg /\ k \in Covered(q) /\ t[k] # Absent /\ k # SkipEqual(q) /\ ~Aborts(q, k)
    BY QueryFacts DEF Coming
  <2>2. SkipEqual(q) # nil => k # q.end
    BY <2>1, CoveredKeys
  <2>3. InDomain(q, k)
    BY <2>1, <2>2, CoveredKeys DEF Aborts
  <2>4. k \in Key
    BY <2>1 DEF KeyArg
  <2>. QED
    BY <2>1, <2>3, <2>4, DomainIsRange
<1>2. ASSUME NEW k \in Key, KV!InRange(q, k), t[k] # Absent
      PROVE  k \in Coming(q, t, nil, SkipEqual(q))
  <2>1. k \in KeyArg /\ k \in Nat /\ k # nil
    BY KeyArgNat
  <2>2. InDomain(q, k)
    BY <1>2, <2>1, DomainIsRange
  <2>3. k \in Covered(q)
    BY <2>1, <2>2, CoveredKeys
  <2>4. k # SkipEqual(q)
    BY <2>1, <2>2, CoveredKeys
  <2>5. k <= k
    BY <2>1, SMT
  <2>6. ~Aborts(q, k)
    BY <2>1, <2>2, <2>5, CoveredKeys DEF Aborts
  <2>. QED
    BY <1>2, <2>3, <2>4, <2>6 DEF Coming
<1>. QED
  BY <1>1, <1>2

(* k is the next key of a traversal of tree t from position p on. *)
ComesNext(q, t, p, k) ==
  /\ k \in Covered(q) /\ t[k] # Absent /\ (p = nil \/ Before(q, p, k))
  /\ \A j \in Covered(q) :
       t[j] # Absent /\ (p = nil \/ Before(q, p, j)) /\ j # k => Before(q, k, j)

(* What key k, the next of the traversal, takes from the keys to come. *)
TakesFromComing(q, t, p, skip, k) ==
  /\ k = skip => Coming(q, t, k, nil) = Coming(q, t, p, skip)
  /\ Aborts(q, k) => Coming(q, t, p, skip) = {}
  /\ k # skip /\ ~Aborts(q, k) => Coming(q, t, p, skip) = Coming(q, t, k, skip) \cup {k}

(* The next item that the B-tree passes to the visitor is skipped, ends the  *)
(* traversal, or is sent.                                                    *)
LEMMA ComingAfter ==
  ASSUME NEW q \in Queries, NEW t, NEW p, p = nil \/ p \in Nat, NEW skip, NEW k,
         ComesNext(q, t, p, k)
  PROVE  TakesFromComing(q, t, p, skip, k)
<1>0. /\ k \in Covered(q) /\ t[k] # Absent /\ (p = nil \/ Before(q, p, k))
      /\ \A j \in Covered(q) :
           t[j] # Absent /\ (p = nil \/ Before(q, p, j)) /\ j # k => Before(q, k, j)
  BY DEF ComesNext
<1>1. /\ Covered(q) \subseteq Nat /\ nil \notin Covered(q)
  BY QueryFacts, KeyArgNat
<1>2. k \in Nat /\ k # nil
  BY <1>0, <1>1
<1>3. ~Before(q, k, k)
  BY <1>2, SMT DEF Before
<1>4. \A j \in Covered(q) : Before(q, k, j) => p = nil \/ Before(q, p, j)
  BY <1>0, <1>1, <1>2, BeforeTransitive
<1>5. \A j \in Covered(q) : Aborts(q, k) /\ (j = k \/ Before(q, k, j)) => Aborts(q, j)
  <2>. SUFFICES ASSUME NEW j \in Covered(q), Aborts(q, k), Before(q, k, j)
                PROVE  Aborts(q, j)
    OBVIOUS
  <2>1. AbortLessThan(q) # nil /\ k < AbortLessThan(q) /\ q.reverse
    BY DEF Aborts, AbortLessThan
  <2>2. AbortLessThan(q) \in Nat
    BY <2>1, QueryFacts, KeyArgNat DEF AbortLessThan
  <2>3. j < k /\ j \in Nat
    BY <1>1, <2>1 DEF Before
  <2>4. j < AbortLessThan(q)
    BY <1>2, <2>1, <2>2, <2>3, SMT
  <2>. QED
    BY <2>1, <2>4 DEF Aborts
<1>6. k = skip => Coming(q, t, k, nil) = Coming(q, t, p, skip)
  BY <1>0, <1>1, <1>2, <1>3, <1>4 DEF Coming
<1>7. Aborts(q, k) => Coming(q, t, p, skip) = {}
  BY <1>0, <1>5 DEF Coming
<1>8. k # skip /\ ~Aborts(q, k) => Coming(q, t, p, skip) = Coming(q, t, k, skip) \cup {k}
  BY <1>0, <1>1, <1>2, <1>3, <1>4 DEF Coming
<1>. QED
  BY <1>6, <1>7, <1>8 DEF TakesFromComing

(* The current item is the first that is left. *)
LEMMA CurrentIsFirst ==
  ASSUME BasicInv, NEW i \in Iter, TraversalInv(i), ~cancelled[i], cur[i] # 0, cur[i] = recvd[i]
  PROVE  LET k == sent[i][cur[i]].key
         IN  /\ k \in Rest(i) /\ KV!First(query[i], Rest(i)) = k
             /\ sent[i][cur[i]].value = snap[i][k]
             /\ cur[i] \in DOMAIN sent[i]
             /\ \A n \in DOMAIN sent[i] : n > recvd[i] => sent[i][n].key # k
             /\ k \notin FutureKeys(i)
<1>. DEFINE q == query[i]
            k == sent[i][cur[i]].key
<1>1. /\ sent[i] \in Seq(Item) /\ cur[i] \in Nat /\ cur[i] <= Len(sent[i]) /\ q \in Queries
      /\ pos[i] \in Key \cup {nil}
  BY DEF BasicInv, TypeOK, ScanTypes, IterTypes, ChannelInv
<1>2. cur[i] \in DOMAIN sent[i] /\ \A n \in DOMAIN sent[i] : n \in Nat /\ sent[i][n] \in Item
  BY <1>1, SMT
<1>3. \A n \in DOMAIN sent[i] : sent[i][n].key \in Nat
  <2>1. \A x \in Item : x.key \in Key
    BY DEF Item
  <2>. QED
    BY <1>2, <2>1, KeyArgNat
<1>4. /\ Delivered(snap[i], q, sent[i]) /\ Passed(q, pos[i], sent[i])
  BY DEF TraversalInv
<1>5. \A x, y \in Nat : Before(q, x, y) => x # y /\ ~Before(q, y, x)
  BY SMT DEF Before
<1>6. ASSUME NEW n \in DOMAIN sent[i], n > recvd[i]
      PROVE  Before(q, k, sent[i][n].key) /\ sent[i][n].key # k /\ sent[i][n].key \in Nat
  <2>1. cur[i] < n
    BY <1>1, <1>2, <1>6, SMT
  <2>2. Before(q, k, sent[i][n].key)
    BY <1>2, <1>4, <2>1 DEF Delivered
  <2>. QED
    BY <1>2, <1>3, <1>5, <2>2
<1>7. ASSUME NEW j \in FutureKeys(i)
      PROVE  Before(q, k, j) /\ j # k /\ j \in Nat
  <2>1. j \in Covered(q) /\ (pos[i] = nil \/ Before(q, pos[i], j))
    BY DEF FutureKeys, Unvisited
  <2>2. j \in Nat
    BY <1>1, <2>1, QueryFacts, KeyArgNat
  <2>3. pos[i] # nil /\ (k = pos[i] \/ Before(q, k, pos[i]))
    BY <1>2, <1>4 DEF Passed
  <2>4. pos[i] \in Nat
    BY <1>1, <2>3, KeyArgNat
  <2>5. Before(q, k, j)
    BY <1>2, <1>3, <2>1, <2>2, <2>3, <2>4, BeforeTransitive
  <2>. QED
    BY <1>2, <1>3, <1>5, <2>2, <2>5
<1>8. k \in Rest(i) /\ \A j \in Rest(i) : j \in Nat /\ (j = k \/ Before(q, k, j))
  <2>1. k \in HeldKeys(i)
    BY <1>2 DEF HeldKeys
  <2>2. \A j \in HeldKeys(i) : j \in Nat /\ (j = k \/ Before(q, k, j))
    BY <1>2, <1>3, <1>6 DEF HeldKeys
  <2>. QED
    BY <1>7, <2>1, <2>2 DEF Rest
<1>9. KV!First(q, Rest(i)) = k
  <2>1. KV!First(q, Rest(i)) = CHOOSE x \in Rest(i) : \A j \in Rest(i) : ~Before(q, j, x)
    BY DEF KV!First, Before
  <2>2. \A j \in Rest(i) : ~Before(q, j, k)
    BY <1>2, <1>3, <1>5, <1>8
  <2>3. ASSUME NEW x \in Rest(i), \A j \in Rest(i) : ~Before(q, j, x)
        PROVE  x = k
    BY <1>8, <2>3
  <2>. QED
    BY <1>8, <2>1, <2>2, <2>3
<1>10. sent[i][cur[i]].value = snap[i][k]
  BY <1>2, <1>4 DEF Delivered
<1>. QED
  BY <1>2, <1>6, <1>7, <1>8, <1>9, <1>10

(* Without a current item, once the channel is closed and empty: nothing. *)
LEMMA NothingLeft ==
  ASSUME BasicInv, NEW i \in Iter, Drained(i), ChClosed(i), cur[i] = 0
  PROVE  Rest(i) = {}
<1>1. sent[i] \in Seq(Item) /\ recvd[i] = Len(sent[i])
  BY DEF BasicInv, TypeOK, ScanTypes, Drained
<1>2. \A m \in DOMAIN sent[i] : ~(m > recvd[i] \/ m = cur[i])
  BY <1>1, SMT
<1>3. FutureKeys(i) = {}
  BY DEF FutureKeys, ChClosed
<1>. QED
  BY <1>2, <1>3 DEF Rest, HeldKeys
=============================================================================
