---------------------------- MODULE DiskDBProofs ----------------------------
(***************************************************************************)
(* Proofs about DiskDB for each backend and any number of clients,         *)
(* iterators, keys, writes and crashes.                                    *)
(***************************************************************************)
EXTENDS DiskDB, OpsProofs

(* Leaves are tried with Zenon, and with SMT where they say so. *)
USE Zenon

-----------------------------------------------------------------------------
(***************************************************************************)
(* The libraries' cursors.  IsFirst(ks, back, k): k is the first of the    *)
(* keys ks in the direction back, or nil if there is none.                 *)
(***************************************************************************)
IsFirst(ks, back, k) ==
  \/ k = nil /\ ks = {}
  \/ k \in ks /\ \A j \in ks : IF back THEN j <= k ELSE k <= j

LEMMA KeyFacts ==
  /\ Key \subseteq Nat /\ IsFiniteSet(Key)
  /\ nil \notin Key /\ EmptyKey \notin Key /\ nil # EmptyKey
  /\ EmptyKey \in Nat
<1>1. EmptyKey \in Nat
  BY SMT DEF EmptyKey
<1>. QED
  BY <1>1, DiskAssumption DEF KeyArg

LEMMA MinIsFirst ==
  ASSUME NEW ks \in SUBSET Key
  PROVE  IsFirst(ks, FALSE, MinOrNil(ks))
<1>1. CASE ks = {}
  BY <1>1 DEF MinOrNil, IsFirst
<1>2. CASE ks # {}
  <2>1. \E k \in ks : \A j \in ks : k <= j
    BY <1>2, KeyFacts, LeastNat
  <2>. QED
    BY <1>2, <2>1 DEF MinOrNil, Min, IsFirst
<1>. QED
  BY <1>1, <1>2

LEMMA MaxIsFirst ==
  ASSUME NEW ks \in SUBSET Key
  PROVE  IsFirst(ks, TRUE, MaxOrNil(ks))
<1>1. CASE ks = {}
  BY <1>1 DEF MaxOrNil, IsFirst
<1>2. CASE ks # {}
  <2>1. IsFiniteSet(ks) /\ ks \subseteq Nat
    BY KeyFacts, FS_Subset
  <2>2. PICK k \in ks : \A j \in ks : j <= k
    BY <1>2, <2>1, GreatestNat
  <2>3. \A j \in ks : k >= j
    BY <2>1, <2>2, SMT
  <2>4. MaxOrNil(ks) \in ks /\ \A j \in ks : MaxOrNil(ks) >= j
    BY <1>2, <2>3 DEF MaxOrNil, Max
  <2>5. \A j \in ks : j <= MaxOrNil(ks)
    BY <2>1, <2>4, SMT
  <2>. QED
    BY <2>4, <2>5 DEF IsFirst
<1>. QED
  BY <1>1, <1>2

(* Key k is not before the end of q's domain at which the iteration begins. *)
Entered(q, k) ==
  IF q.reverse THEN q.end = nil \/ k < q.end ELSE q.start = nil \/ q.start <= k

(* Where a reverse iterator arrives that seeks end and steps back: the key   *)
(* before the first one that is not below end.                               *)
LEMMA StepOffEnd ==
  ASSUME NEW ks \in SUBSET Key, NEW end \in Nat
  PROVE  LET eoakey == CursorSeek(ks, end)
         IN  /\ IsFirst({k \in ks : k < end}, TRUE, CursorPrev(ks, eoakey))
             /\ eoakey = nil => {k \in ks : k < end} = ks
             /\ eoakey # nil => end <= eoakey
<1>. DEFINE eoakey == CursorSeek(ks, end)
            below == {k \in ks : k < end}
<1>1. IsFirst({j \in ks : end <= j}, FALSE, eoakey)
  BY MinIsFirst DEF CursorSeek
<1>. HIDE DEF eoakey
<1>2. ks \subseteq Nat
  BY KeyFacts
<1>3. {j \in ks : eoakey = nil \/ j < eoakey} = below
  <2>1. CASE eoakey = nil
    <3>1. \A j \in ks : ~(end <= j)
      BY <1>1, <2>1, KeyFacts DEF IsFirst
    <3>2. \A j \in ks : j < end
      BY <1>2, <3>1, SMT
    <3>. QED
      BY <2>1, <3>2
  <2>2. CASE eoakey # nil
    <3>1. /\ eoakey \in ks /\ end <= eoakey
          /\ \A j \in ks : end <= j => eoakey <= j
      BY <1>1, <2>2 DEF IsFirst
    <3>2. \A j \in ks : j < eoakey <=> j < end
      BY <1>2, <3>1, SMT
    <3>. QED
      BY <2>2, <3>2
  <2>. QED
    BY <2>1, <2>2
<1>4. IsFirst(below, TRUE, CursorPrev(ks, eoakey))
  BY <1>3, MaxIsFirst DEF CursorPrev
<1>5. eoakey # nil => end <= eoakey
  BY <1>1 DEF IsFirst
<1>6. eoakey = nil => below = ks
  BY <1>3
<1>. QED
  BY <1>4, <1>5, <1>6 DEF eoakey

(* Each backend's way to position a new iterator leads to the first key of   *)
(* its domain, whatever keys there are and wherever the end points lie.      *)
LEMMA StartIsFirst ==
  ASSUME NEW ks \in SUBSET Key, NEW q \in Queries, backend \in AllBackends
  PROVE  IsFirst({k \in ks : Entered(q, k)}, q.reverse, StartOf(ks, q))
<1>. DEFINE entered == {k \in ks : Entered(q, k)}
<1>1. /\ q.start = nil \/ q.start \in Nat
      /\ q.end = nil \/ q.end \in Nat
      /\ q.reverse \in BOOLEAN
  BY KeyFacts DEF Queries, EndPoint, KeyArg
<1>2. StartOf(ks, q) \in {LevelStart(ks, q), BoltStart(ks, q), BadgerStart(ks, q)}
  BY DEF StartOf, AllBackends, LevelLike
<1>3. CASE ~q.reverse
  <2>1. StartOf(ks, q) = ForwardStart(ks, q) /\ q.reverse = FALSE
    BY <1>1, <1>2, <1>3 DEF LevelStart, BoltStart, BadgerStart
  <2>2. CASE q.start = nil
    <3>1. entered = ks
      BY <1>3, <2>2 DEF Entered
    <3>. QED
      BY <1>3, <2>1, <2>2, <3>1, MinIsFirst DEF ForwardStart
  <2>3. CASE q.start # nil
    <3>1. entered = {k \in ks : q.start <= k}
      BY <1>3, <2>3 DEF Entered
    <3>. QED
      BY <1>3, <2>1, <2>3, <3>1, MinIsFirst DEF ForwardStart, CursorSeek
  <2>. QED
    BY <2>2, <2>3
<1>4. CASE q.reverse /\ q.end = nil
  <2>1. entered = ks
    BY <1>4 DEF Entered
  <2>2. CursorSeekBack(ks, nil) = MaxOrNil(ks)
    BY DEF CursorSeekBack
  <2>3. StartOf(ks, q) = MaxOrNil(ks)
    BY <1>2, <1>4, <2>2 DEF LevelStart, BoltStart, BadgerStart
  <2>. QED
    BY <1>4, <2>1, <2>3, MaxIsFirst
<1>5. CASE q.reverse /\ q.end # nil
  <2>1. entered = {k \in ks : k < q.end}
    BY <1>5 DEF Entered
  <2>2. q.end \in Nat /\ ks \subseteq Nat
    BY <1>1, <1>5, KeyFacts
  <2>3. IsFirst(entered, TRUE, BoltStart(ks, q))
    BY <1>5, <2>1, <2>2, StepOffEnd DEF BoltStart
  <2>4. IsFirst(entered, TRUE, LevelStart(ks, q))
    BY <1>5, <2>1, <2>2, StepOffEnd, MaxIsFirst DEF LevelStart
  <2>5. IsFirst(entered, TRUE, BadgerStart(ks, q))
    <3>. DEFINE k == CursorSeekBack(ks, q.end)
                upto == {j \in ks : j <= q.end}
    <3>1. IsFirst(upto, TRUE, k)
      <4>1. {j \in ks : q.end = nil \/ j <= q.end} = upto
        BY <1>5
      <4>. QED
        BY <4>1, MaxIsFirst DEF CursorSeekBack
    <3>start. BadgerStart(ks, q) = IF k # nil /\ k = q.end THEN CursorPrev(ks, k) ELSE k
      BY <1>5 DEF BadgerStart
    <3>. HIDE DEF k
    <3>2. CASE k = q.end
      <4>1. {j \in ks : q.end = nil \/ j < q.end} = entered
        BY <1>5, <2>1
      <4>2. BadgerStart(ks, q) = CursorPrev(ks, q.end)
        BY <1>5, <3>2, <3>start
      <4>. QED
        BY <4>1, <4>2, MaxIsFirst DEF CursorPrev
    <3>3. CASE k # q.end
      <4>1. BadgerStart(ks, q) = k
        BY <3>3, <3>start
      <4>2. CASE k = nil
        <5>1. upto = {}
          BY <3>1, <4>2, KeyFacts DEF IsFirst
        <5>2. \A j \in ks : ~(j < q.end)
          BY <2>2, <5>1, SMT
        <5>. QED
          BY <2>1, <4>1, <4>2, <5>2 DEF IsFirst
      <4>3. CASE k # nil
        <5>1. k \in ks /\ k <= q.end /\ \A j \in ks : j <= q.end => j <= k
          BY <3>1, <4>3 DEF IsFirst
        <5>2. k < q.end /\ \A j \in ks : j < q.end => j <= k
          BY <2>2, <3>3, <5>1, SMT
        <5>. QED
          BY <2>1, <4>1, <5>1, <5>2 DEF IsFirst
      <4>. QED
        BY <4>2, <4>3
    <3>. QED
      BY <3>2, <3>3
  <2>. QED
    BY <1>2, <1>5, <2>3, <2>4, <2>5
<1>. QED
  BY <1>1, <1>3, <1>4, <1>5

-----------------------------------------------------------------------------
(* Contents in which nothing is stored under the empty key. *)
Clean == {content \in Contents : content[EmptyKey] = Absent}

LEMMA AfterOpsClean ==
  ASSUME NEW s \in Clean, NEW ops \in Seq(Op)
  PROVE  AfterOps(s, ops) \in Clean
<1>1. s \in [KeyArg -> Value \cup {Absent}] /\ s[EmptyKey] = Absent
  BY DEF Clean, Contents
<1>2. \A n \in DOMAIN ops : ops[n] \in Op
  BY SMT
<1>3. \A op \in Op : op.key \in Key /\ op.value \in Value \cup {Absent}
  BY DEF Op
<1>4. ASSUME NEW k \in KeyArg
      PROVE  /\ AfterOps(s, ops)[k] \in Value \cup {Absent}
             /\ k = EmptyKey => AfterOps(s, ops)[k] = Absent
  <2>1. CASE \A n \in DOMAIN ops : ops[n].key # k
    <3>1. k \in DOMAIN s /\ s[k] \in Value \cup {Absent}
      BY <1>1
    <3>2. AfterOps(s, ops)[k] = s[k]
      BY <2>1, <3>1, AfterMisses, SMT
    <3>. QED
      BY <1>1, <3>1, <3>2
  <2>2. CASE \E n \in DOMAIN ops : ops[n].key = k
    <3>1. PICK n : IsLastHit(ops, k, n)
      BY <2>2, LastHit
    <3>2. n \in DOMAIN ops /\ ops[n].key = k
      BY <3>1 DEF IsLastHit
    <3>3. DOMAIN ops \subseteq Nat
      BY SMT
    <3>4. AfterOps(s, ops)[k] = ops[n].value
      BY <1>1, <3>1, <3>3, AfterHits, SMT
    <3>. QED
      BY <1>2, <1>3, <3>2, <3>4, KeyFacts
  <2>. QED
    BY <2>1, <2>2
<1>5. EmptyKey \in KeyArg
  BY DEF KeyArg
<1>6. AfterOps(s, ops) = [k \in KeyArg |-> AfterOps(s, ops)[k]]
  BY <1>1, AfterOpsIsFunction
<1>7. AfterOps(s, ops) \in [KeyArg -> Value \cup {Absent}]
  BY <1>4, <1>6
<1>. QED
  BY <1>4, <1>5, <1>7 DEF Clean, Contents

-----------------------------------------------------------------------------
Version == [number: Nat, content: Clean]

DiskTypes ==
  /\ backend \in Backends /\ backend \in AllBackends
  /\ versions \in Seq(Version) /\ versions # <<>>
  /\ written \in Nat /\ acked \in Nat /\ crashes \in Nat

CallTypes ==
  /\ batch \in [Client -> Seq(Op) \cup {nil}]
  /\ pend \in [Client -> Results \cup {nil}]
  /\ ret \in [Client -> Results]
  /\ mine \in [Client -> Nat]

IterTypes ==
  /\ owner \in [Iter -> Client \cup {NoOne}]
  /\ query \in [Iter -> Queries]
  /\ view \in [Iter -> Clean]
  /\ cursor \in [Iter -> Key \cup {nil}]
  /\ isInvalid \in [Iter -> BOOLEAN]
  /\ failed \in [Iter -> BOOLEAN]
  /\ closed \in [Iter -> BOOLEAN]

Types == DiskTypes /\ CallTypes /\ IterTypes

LEMMA VersionFacts ==
  ASSUME DiskTypes
  PROVE  /\ Len(versions) \in Nat /\ 1 <= Len(versions)
         /\ DOMAIN versions = 1 .. Len(versions)
         /\ 1 \in DOMAIN versions /\ Len(versions) \in DOMAIN versions
         /\ \A n \in DOMAIN versions : /\ versions[n] \in Version
                                       /\ versions[n].number \in Nat
                                       /\ versions[n].content \in Clean
         /\ Store \in Clean
<1>1. versions \in Seq(Version) /\ versions # <<>>
  BY DEF DiskTypes
<1>2. /\ Len(versions) \in Nat /\ 1 <= Len(versions)
      /\ DOMAIN versions = 1 .. Len(versions)
      /\ 1 \in DOMAIN versions /\ Len(versions) \in DOMAIN versions
      /\ \A n \in DOMAIN versions : versions[n] \in Version
  BY <1>1, SMT
<1>3. \A version \in Version : version.number \in Nat /\ version.content \in Clean
  BY DEF Version
<1>. QED
  BY <1>2, <1>3 DEF Store

LEMMA ResultType ==
  ASSUME NEW k \in KeyArg, NEW v \in ValueArg \cup {Absent}
  PROVE  /\ \A st \in {"get", "true", "false", "set", "append", "item"} : Result(st, k, v) \in Results
         /\ \A st \in {"none", "inspect", "write", "new", "close", "panic", "error",
                       "errKeyEmpty", "errValueNil", "errBatchClosed"} : Status(st) \in Results
<1>1. EmptyKey \in KeyArg /\ nil \in ValueArg \cup {Absent}
  BY DEF KeyArg, ValueArg
<1>. QED
  BY <1>1 DEF Results, Result, Status

(* A refusal shows the argument that is refused. *)
LEMMA Refusals ==
  /\ \A k : k = EmptyKey => Result("errKeyEmpty", k, nil) = Status("errKeyEmpty")
  /\ \A v : v = nil => Result("errValueNil", EmptyKey, v) = Status("errValueNil")
BY DEF Status

LEMMA NoContentIsClean == NoContent \in Clean
BY DEF NoContent, Clean, Contents, KeyArg

(***************************************************************************)
(* The kinds of step: many calls differ only in what they return.          *)
(***************************************************************************)
CallKind(c) ==
  \/ \E r \in Results : Answer(c, r)
  \/ \E ops \in Seq(Op), sync \in BOOLEAN, r \in Results :
       Commit(c, ops, sync, r) /\ batch' \in {batch, [batch EXCEPT ![c] = nil]}
  \/ \E ops \in Seq(Op) \cup {nil}, r \in Results : ChangeBatch(c, ops, r)
  \/ \E i \in Iter, q \in Query : EmptyKey \notin {q.start, q.end} /\ Open(c, i, q)
  \/ \E i \in Iter : \/ CallValid(c, i) \/ IteratorNext(c, i) \/ Close(c, i)
                     \/ Uses(c, i) /\ \E who \in SUBSET AllBackends : Panic(c, i, who)
                     \/ Uses(c, i) /\ ValueFails(c, i)

LEMMA CallKinds ==
  ASSUME Types, NEW c \in Client, Call(c)
  PROVE  CallKind(c)
<1>1. \A st \in {"errKeyEmpty", "errValueNil", "errBatchClosed", "error", "inspect", "new",
                 "close", "write", "panic"} : Status(st) \in Results
  <2>1. EmptyKey \in KeyArg /\ nil \in ValueArg \cup {Absent}
    BY DEF KeyArg, ValueArg
  <2>. QED
    BY <2>1, ResultType
<1>2. Fails(c) => CallKind(c)
  BY <1>1 DEF Fails, CallKind
<1>3. KeysOf(c) \subseteq KeyArg /\ ValuesOf(c) \subseteq ValueArg
  BY DEF KeysOf, ValuesOf, KeyArg, ValueArg
<1>4. \A k \in KeyArg : k # EmptyKey => k \in Key
  BY DEF KeyArg
<1>5. CASE Inspect(c)
  BY <1>1, <1>2, <1>5 DEF Inspect, CallKind
<1>6. ASSUME NEW k \in KeyArg, Get(c, k) \/ Has(c, k)
      PROVE  CallKind(c)
  <2>1. Store[k] \in Value \cup {Absent}
    BY VersionFacts DEF Types, Clean, Contents
  <2>2. (IF Store[k] = Absent THEN nil ELSE Store[k]) \in ValueArg \cup {Absent}
    BY <2>1 DEF ValueArg
  <2>3. nil \in ValueArg \cup {Absent}
    BY DEF ValueArg
  <2>4. /\ Result("get", k, IF Store[k] = Absent THEN nil ELSE Store[k]) \in Results
        /\ Result(IF Store[k] = Absent THEN "false" ELSE "true", k, nil) \in Results
    BY <2>2, <2>3, ResultType
  <2>. QED
    BY <1>1, <1>2, <1>6, <2>4, Refusals DEF Get, Has, CallKind
<1>7. ASSUME NEW op \in Op, NEW sync \in BOOLEAN, Put(c, op, sync)
      PROVE  CallKind(c)
  <2>1. <<op>> \in Seq(Op)
    BY SMT
  <2>2. op.key \in KeyArg /\ op.value \in ValueArg \cup {Absent}
    BY DEF Op, KeyArg, ValueArg
  <2>3. Result("set", op.key, op.value) \in Results
    BY <2>2, ResultType
  <2>. QED
    BY <1>2, <1>7, <2>1, <2>3 DEF Put, CallKind
<1>8. ASSUME NEW op \in Op, AppendOp(c, op)
      PROVE  CallKind(c)
  <2>1. op.key \in KeyArg /\ op.value \in ValueArg \cup {Absent}
    BY DEF Op, KeyArg, ValueArg
  <2>2. Result("append", op.key, op.value) \in Results
    BY <2>1, ResultType
  <2>3. batch[c] # nil => batch[c] \in Seq(Op)
    BY DEF Types, CallTypes
  <2>4. batch[c] # nil => Append(batch[c], op) \in Seq(Op)
    BY <2>3, SMT
  <2>. QED
    BY <1>1, <1>2, <1>8, <2>2, <2>4 DEF AppendOp, CallKind
<1>9. ASSUME NEW k \in KeyArg, NEW v \in ValueArg, k # EmptyKey, v # nil
      PROVE  [key |-> k, value |-> v] \in Op
  BY <1>4, <1>9 DEF Op, ValueArg
<1>10. ASSUME NEW k \in KeyArg, k # EmptyKey
       PROVE  [key |-> k, value |-> Absent] \in Op
  BY <1>4, <1>10 DEF Op
<1>11. ASSUME NEW k \in KeyArg, NEW v \in ValueArg, NEW sync \in BOOLEAN,
              Set(c, k, v, sync) \/ Delete(c, k, sync) \/ BatchSet(c, k, v) \/ BatchDelete(c, k)
       PROVE  CallKind(c)
  <2>1. CASE \E r \in Results : Answer(c, r)
    BY <2>1 DEF CallKind
  <2>2. CASE k # EmptyKey /\ v # nil /\ (\/ Put(c, [key |-> k, value |-> v], sync)
                                         \/ AppendOp(c, [key |-> k, value |-> v]))
    BY <1>7, <1>8, <1>9, <2>2
  <2>3. CASE k # EmptyKey /\ (\/ Put(c, [key |-> k, value |-> Absent], sync)
                              \/ AppendOp(c, [key |-> k, value |-> Absent]))
    BY <1>7, <1>8, <1>10, <2>3
  <2>. QED
    BY <1>1, <1>11, <2>1, <2>2, <2>3, Refusals DEF Set, Delete, BatchSet, BatchDelete
<1>12. CASE NewBatch(c) \/ BatchClose(c)
  <2>1. <<>> \in Seq(Op)
    BY SMT
  <2>. QED
    BY <1>1, <1>12, <2>1 DEF NewBatch, BatchClose, CallKind
<1>13. ASSUME NEW sync \in BOOLEAN, BatchWrite(c, sync)
       PROVE  CallKind(c)
  <2>1. batch[c] # nil => batch[c] \in Seq(Op)
    BY DEF Types, CallTypes
  <2>. QED
    BY <1>1, <1>2, <1>13, <2>1 DEF BatchWrite, BatchFails, CallKind
<1>14. ASSUME NEW i \in Iter, NEW q \in Query, NewIterator(c, i, q)
       PROVE  CallKind(c)
  BY <1>1, <1>2, <1>14, Refusals DEF NewIterator, CallKind
<1>15. ASSUME NEW i \in Iter, ReadItem(c, i)
       PROVE  CallKind(c)
  <2>1. {"boltdb", "rocksdb"} \subseteq AllBackends
    BY DEF AllBackends, LevelLike
  <2>2. Valid(i) => cursor[i] \in KeyArg /\ view[i][cursor[i]] \in ValueArg \cup {Absent}
    <3>1. Valid(i) => cursor[i] \in KeyArg
      BY DEF Valid, Types, IterTypes, KeyArg
    <3>2. view[i] \in [KeyArg -> Value \cup {Absent}]
      BY DEF Types, IterTypes, Clean, Contents
    <3>. QED
      BY <3>1, <3>2 DEF ValueArg
  <2>3. Valid(i) => Result("item", cursor[i], view[i][cursor[i]]) \in Results
    BY <2>2, ResultType
  <2>. QED
    BY <1>15, <2>1, <2>3 DEF ReadItem, CallKind
<1>16. ASSUME NEW i \in Iter, CallValid(c, i) \/ IteratorNext(c, i) \/ Close(c, i)
       PROVE  CallKind(c)
  BY <1>16 DEF CallKind
<1>17. CASE \E k \in KeysOf(c), sync \in BOOLEAN :
              Delete(c, k, sync) \/ \E v \in ValuesOf(c) : Set(c, k, v, sync)
  <2>1. nil \in ValueArg
    BY DEF ValueArg
  <2>. QED
    BY <1>3, <1>11, <1>17, <2>1
<1>18. CASE \E k \in KeysOf(c) : BatchDelete(c, k) \/ \E v \in ValuesOf(c) : BatchSet(c, k, v)
  <2>1. nil \in ValueArg /\ TRUE \in BOOLEAN
    BY DEF ValueArg
  <2>. QED
    BY <1>3, <1>11, <1>18, <2>1
<1>. QED
  BY <1>3, <1>5, <1>6, <1>12, <1>13, <1>14, <1>15, <1>16, <1>17, <1>18 DEF Call

-----------------------------------------------------------------------------
LEMMA InitTypes == Init => Types
<1>. SUFFICES ASSUME Init PROVE Types
  OBVIOUS
<1>1. PICK content \in Opened : versions = <<[number |-> 0, content |-> content]>>
  BY DEF Init
<1>2. content \in Clean
  BY DiskAssumption DEF Clean
<1>3. DiskTypes
  <2>1. [number |-> 0, content |-> content] \in Version
    BY <1>2, SMT DEF Version
  <2>2. versions \in Seq(Version) /\ versions # <<>>
    BY <1>1, <2>1, SMT
  <2>3. written \in Nat /\ acked \in Nat /\ crashes \in Nat
    BY SMT DEF Init
  <2>4. backend \in Backends /\ backend \in AllBackends
    BY DiskAssumption DEF Init
  <2>. QED
    BY <2>2, <2>3, <2>4 DEF DiskTypes
<1>4. CallTypes
  <2>1. EmptyKey \in KeyArg /\ nil \in ValueArg \cup {Absent} /\ 0 \in Nat
    BY SMT DEF KeyArg, ValueArg
  <2>2. Status("none") \in Results
    BY <2>1, ResultType
  <2>. QED
    BY <2>1, <2>2 DEF Init, CallTypes
<1>5. IterTypes
  <2>1. NoQuery \in Queries
    BY DEF NoQuery, Queries, EndPoint
  <2>. QED
    BY <2>1, NoContentIsClean DEF Init, IterTypes
<1>. QED
  BY <1>3, <1>4, <1>5 DEF Types

LEMMA MaxOfTwo ==
  ASSUME NEW m \in Nat, NEW n \in Nat
  PROVE  Max({m, n}) \in {m, n} /\ m <= Max({m, n}) /\ n <= Max({m, n})
<1>1. \E x \in {m, n} : \A y \in {m, n} : x >= y
  BY SMT
<1>2. Max({m, n}) \in {m, n} /\ Max({m, n}) >= m /\ Max({m, n}) >= n
  BY <1>1 DEF Max
<1>. QED
  BY <1>2, SMT

(* The cursor moves to a key, or outside. *)
LEMMA MoveTypes ==
  ASSUME IterTypes, NEW i \in Iter, NEW k \in Key \cup {nil}, MoveTo(i, k)
  PROVE  /\ cursor' \in [Iter -> Key \cup {nil}]
         /\ failed' \in [Iter -> BOOLEAN]
BY DEF MoveTo, IterTypes

LEMMA StepIsFirst ==
  ASSUME IterTypes, NEW i \in Iter, cursor[i] # nil
  PROVE  LET ks == CursorKeys(query[i], view[i])
         IN  IsFirst({k \in ks : IF query[i].reverse THEN k < cursor[i] ELSE cursor[i] < k},
                     query[i].reverse, Step(i))
<1>. DEFINE ks == CursorKeys(query[i], view[i])
<1>1. ks \in SUBSET Key
  BY DEF CursorKeys, Stored
<1>2. query[i].reverse \in BOOLEAN
  BY DEF IterTypes, Queries
<1>. HIDE DEF ks
<1>3. CASE query[i].reverse = TRUE
  <2>1. {k \in ks : IF query[i].reverse THEN k < cursor[i] ELSE cursor[i] < k} =
          {k \in ks : cursor[i] = nil \/ k < cursor[i]}
    BY <1>3
  <2>2. Step(i) = MaxOrNil({k \in ks : cursor[i] = nil \/ k < cursor[i]})
    BY <1>3 DEF Step, CursorPrev, ks
  <2>. QED
    BY <1>1, <1>3, <2>1, <2>2, MaxIsFirst DEF ks
<1>4. CASE query[i].reverse = FALSE
  <2>1. {k \in ks : IF query[i].reverse THEN k < cursor[i] ELSE cursor[i] < k} =
          {k \in ks : cursor[i] < k}
    BY <1>4
  <2>2. Step(i) = MinOrNil({k \in ks : cursor[i] < k})
    BY <1>4 DEF Step, CursorNext, ks
  <2>. QED
    BY <1>1, <1>4, <2>1, <2>2, MinIsFirst DEF ks
<1>. QED
  BY <1>2, <1>3, <1>4

(* What a commit makes of the versions. *)
LEMMA CommitVersions ==
  ASSUME DiskTypes, NEW c \in Client, NEW ops \in Seq(Op), NEW sync, NEW r,
         Commit(c, ops, sync, r)
  PROVE  LET new == [number |-> written + 1, content |-> AfterOps(Store, ops)]
         IN  /\ new \in Version
             /\ versions' \in {<<new>>, Append(versions, new)}
             /\ versions' \in Seq(Version) /\ versions' # <<>>
             /\ versions'[Len(versions')] = new
             /\ written' = written + 1 /\ written' \in Nat
<1>. DEFINE new == [number |-> written + 1, content |-> AfterOps(Store, ops)]
<1>1. written \in Nat /\ written + 1 \in Nat /\ AfterOps(Store, ops) \in Clean
  <2>1. written \in Nat
    BY DEF DiskTypes
  <2>2. written + 1 \in Nat
    BY <2>1, SMT
  <2>. QED
    BY <2>1, <2>2, VersionFacts, AfterOpsClean
<1>2. new \in Version
  BY <1>1 DEF Version
<1>3. versions' \in {<<new>>, Append(versions, new)} /\ written' = new.number
  BY DEF Commit
<1>4. written' = written + 1
  BY <1>3
<1>. HIDE DEF new
<1>5. versions \in Seq(Version)
  BY DEF DiskTypes
<1>6. /\ <<new>> \in Seq(Version) /\ <<new>> # <<>> /\ <<new>>[Len(<<new>>)] = new
      /\ Append(versions, new) \in Seq(Version) /\ Append(versions, new) # <<>>
      /\ Append(versions, new)[Len(Append(versions, new))] = new
  BY <1>2, <1>5, SMT
<1>. QED
  BY <1>1, <1>2, <1>3, <1>4, <1>6 DEF new

LEMMA TypesCall ==
  ASSUME Types, NEW c \in Client, CallKind(c)
  PROVE  Types'
<1>. USE DEF Types
<1>1. CASE \E r \in Results : Answer(c, r)
  BY <1>1 DEF Answer, Reply, iterVars, history, DiskTypes, CallTypes, IterTypes
<1>2. ASSUME NEW ops \in Seq(Op), NEW sync \in BOOLEAN, NEW r \in Results,
             Commit(c, ops, sync, r), batch' \in {batch, [batch EXCEPT ![c] = nil]}
      PROVE  Types'
  <2>1. /\ versions' \in Seq(Version) /\ versions' # <<>>
        /\ written' = written + 1 /\ written' \in Nat
    BY <1>2, CommitVersions
  <2>2. acked' \in {acked, written'} /\ UNCHANGED <<backend, crashes>>
    BY <1>2 DEF Commit
  <2>3. DiskTypes'
    BY <2>1, <2>2 DEF DiskTypes
  <2>4. mine' = [mine EXCEPT ![c] = written'] /\ UNCHANGED iterVars
    BY <1>2 DEF Commit
  <2>5. /\ pend' \in [Client -> Results \cup {nil}] /\ ret' \in [Client -> Results]
    BY <1>2 DEF Commit, Reply, CallTypes
  <2>6. CallTypes'
    BY <1>2, <2>1, <2>4, <2>5 DEF CallTypes
  <2>. QED
    BY <2>3, <2>4, <2>6 DEF iterVars, IterTypes
<1>3. ASSUME NEW ops \in Seq(Op) \cup {nil}, NEW r \in Results, ChangeBatch(c, ops, r)
      PROVE  Types'
  <2>1. /\ batch' = [batch EXCEPT ![c] = ops] /\ ret' = [ret EXCEPT ![c] = r]
        /\ UNCHANGED <<backend, versions, pend, iterVars, history, crashes>>
    BY <1>3 DEF ChangeBatch, Reply
  <2>2. batch' \in [Client -> Seq(Op) \cup {nil}] /\ ret' \in [Client -> Results]
    BY <2>1 DEF CallTypes
  <2>. QED
    BY <2>1, <2>2 DEF iterVars, history, DiskTypes, CallTypes, IterTypes
<1>4. ASSUME NEW i \in Iter, NEW q \in Query, Open(c, i, q)
      PROVE  Types'
  <2>. DEFINE ks == CursorKeys(q, Store)
  <2>1. UNCHANGED <<backend, versions, batch, pend, ret, isInvalid, closed, written, mine, acked,
                    crashes>>
    BY <1>4 DEF Open, history
  <2>2. q \in Queries /\ ks \in SUBSET Key /\ backend \in AllBackends /\ Store \in Clean
    BY DiskAssumption, VersionFacts DEF CursorKeys, Stored, DiskTypes
  <2>. HIDE DEF ks
  <2>3. StartOf(ks, q) \in Key \cup {nil}
    BY <2>2, StartIsFirst DEF IsFirst
  <2>4. cursor' \in [Iter -> Key \cup {nil}] /\ failed' \in [Iter -> BOOLEAN]
    BY <1>4, <2>3, MoveTypes DEF Open, ks
  <2>5. /\ owner' = [owner EXCEPT ![i] = c] /\ query' = [query EXCEPT ![i] = q]
        /\ view' = [view EXCEPT ![i] = Store]
    BY <1>4 DEF Open
  <2>6. IterTypes'
    BY <2>1, <2>2, <2>4, <2>5 DEF IterTypes
  <2>. QED
    BY <2>1, <2>6 DEF DiskTypes, CallTypes
<1>5. ASSUME NEW i \in Iter, IteratorNext(c, i), ~\E who \in SUBSET AllBackends : Panic(c, i, who)
      PROVE  Types'
  <2>0. {"boltdb"} \in SUBSET AllBackends
    BY DEF AllBackends
  <2>1. /\ Valid(i) /\ MoveTo(i, Step(i))
        /\ UNCHANGED <<backend, versions, batch, pend, ret, owner, query, view, isInvalid, closed,
                       written, mine, acked, crashes>>
    BY <1>5, <2>0 DEF IteratorNext, history
  <2>2. Step(i) \in Key \cup {nil}
    <3>1. cursor[i] # nil
      BY <2>1 DEF Valid
    <3>2. CursorKeys(query[i], view[i]) \subseteq Key
      BY DEF CursorKeys, Stored
    <3>. QED
      BY <3>1, <3>2, StepIsFirst DEF IsFirst
  <2>3. cursor' \in [Iter -> Key \cup {nil}] /\ failed' \in [Iter -> BOOLEAN]
    BY <2>1, <2>2, MoveTypes
  <2>. QED
    BY <2>1, <2>3 DEF IterTypes, DiskTypes, CallTypes
<1>6. ASSUME NEW i \in Iter, NEW who, CallValid(c, i) \/ Panic(c, i, who)
      PROVE  Types'
  <2>1. /\ isInvalid' \in [Iter -> BOOLEAN]
        /\ UNCHANGED <<backend, versions, batch, pend, owner, query, view, cursor, failed, closed,
                       written, mine, acked, crashes>>
    BY <1>6 DEF CallValid, Panic, NoteInvalid, history, IterTypes
  <2>2. Status("panic") \in Results
    <3>1. EmptyKey \in KeyArg /\ nil \in ValueArg \cup {Absent}
      BY DEF KeyArg, ValueArg
    <3>. QED
      BY <3>1, ResultType
  <2>3. ret' \in [Client -> Results]
    BY <1>6, <2>2 DEF CallValid, Panic, Reply, CallTypes
  <2>. QED
    BY <2>1, <2>3 DEF IterTypes, DiskTypes, CallTypes
<1>7. ASSUME NEW i \in Iter, Close(c, i)
      PROVE  Types'
  BY <1>7 DEF Close, history, IterTypes, DiskTypes, CallTypes
<1>8. ASSUME NEW i \in Iter, ValueFails(c, i)
      PROVE  Types'
  <2>1. Status("error") \in Results
    <3>1. EmptyKey \in KeyArg /\ nil \in ValueArg \cup {Absent}
      BY DEF KeyArg, ValueArg
    <3>. QED
      BY <3>1, ResultType
  <2>. QED
    BY <1>8, <2>1 DEF ValueFails, Reply, history, IterTypes, DiskTypes, CallTypes
<1>. QED
  BY <1>1, <1>2, <1>3, <1>4, <1>5, <1>6, <1>7, <1>8 DEF CallKind

LEMMA TypesSync ==
  ASSUME Types, NEW c \in Client, withSync(c)
  PROVE  Types'
<1>. USE DEF Types
<1>1. /\ UNCHANGED <<backend, batch, iterVars, written, mine, crashes>>
      /\ pend[c] # nil /\ pend' = [pend EXCEPT ![c] = nil]
      /\ ret' \in {[ret EXCEPT ![c] = pend[c]], [ret EXCEPT ![c] = Status("error")]}
      /\ acked' \in {acked, Max({acked, mine[c]})}
      /\ versions' \in {versions, <<versions[Len(versions)]>>}
  BY DEF withSync, Acknowledge, EndSync, Reply
<1>2. versions' \in Seq(Version) /\ versions' # <<>>
  <2>1. versions[Len(versions)] \in Version
    BY VersionFacts
  <2>2. <<versions[Len(versions)]>> \in Seq(Version) /\ <<versions[Len(versions)]>> # <<>>
    BY <2>1, SMT
  <2>. QED
    BY <1>1, <2>2 DEF DiskTypes
<1>3. acked' \in Nat
  <2>1. acked \in Nat /\ mine[c] \in Nat
    BY DEF DiskTypes, CallTypes
  <2>. QED
    BY <1>1, <2>1, MaxOfTwo
<1>4. Status("error") \in Results
  <2>1. EmptyKey \in KeyArg /\ nil \in ValueArg \cup {Absent}
    BY DEF KeyArg, ValueArg
  <2>. QED
    BY <2>1, ResultType
<1>5. pend[c] \in Results
  BY <1>1 DEF CallTypes
<1>6. CallTypes'
  BY <1>1, <1>4, <1>5 DEF CallTypes
<1>. QED
  BY <1>1, <1>2, <1>3, <1>6 DEF iterVars, DiskTypes, IterTypes

LEMMA TypesCrash ==
  ASSUME Types, Crash
  PROVE  Types'
<1>. USE DEF Types
<1>1. PICK kept \in {versions[n] : n \in DOMAIN versions} :
        versions' = <<kept>>
  BY DEF Crash
<1>2. kept \in Version
  BY VersionFacts
<1>3. versions' \in Seq(Version) /\ versions' # <<>>
  BY <1>1, <1>2, SMT
<1>4. crashes' \in Nat
  BY SMT DEF Crash, DiskTypes
<1>5. DiskTypes'
  BY <1>3, <1>4 DEF Crash, DiskTypes, history
<1>6. CallTypes'
  <2>1. EmptyKey \in KeyArg /\ nil \in ValueArg \cup {Absent}
    BY DEF KeyArg, ValueArg
  <2>2. Status("none") \in Results
    BY <2>1, ResultType
  <2>. QED
    BY <2>2 DEF Crash, CallTypes, history
<1>7. IterTypes'
  <2>1. NoQuery \in Queries
    BY DEF NoQuery, Queries, EndPoint
  <2>. QED
    BY <2>1, NoContentIsClean DEF Crash, IterTypes
<1>. QED
  BY <1>5, <1>6, <1>7

LEMMA TypesStep == Types /\ [Next]_vars => Types'
<1>. SUFFICES ASSUME Types, [Next]_vars PROVE Types'
  OBVIOUS
<1>1. CASE UNCHANGED vars
  BY <1>1 DEF vars, iterVars, history, Types, DiskTypes, CallTypes, IterTypes
<1>2. CASE Next
  BY <1>2, CallKinds, TypesCall, TypesSync, TypesCrash DEF Next
<1>. QED
  BY <1>1, <1>2

-----------------------------------------------------------------------------
(***************************************************************************)
(* Durability.  Versions are numbered in order, none beyond the number of  *)
(* writes; the version on disk is at least as new as every write that was  *)
(* promised to last; and a write that waits for its sync is in the store.  *)
(***************************************************************************)
LastNumber == versions[Len(versions)].number

DurableInv ==
  /\ \A m, n \in DOMAIN versions : m <= n => versions[m].number <= versions[n].number
  /\ acked <= versions[1].number
  /\ LastNumber <= written
  /\ written <= MaxWrites /\ crashes <= MaxCrashes
  /\ \A c \in Client : /\ mine[c] <= written
                       /\ pend[c] # nil => mine[c] <= LastNumber

(* One version is left, as new as the last one that was acknowledged. *)
LEMMA OneVersion ==
  ASSUME NEW version, versions' = <<version>>
  PROVE  /\ DOMAIN versions' = {1} /\ versions'[1] = version
         /\ Len(versions') = 1 /\ LastNumber' = version.number
<1>1. DOMAIN <<version>> = {1} /\ <<version>>[1] = version /\ Len(<<version>>) = 1
  BY SMT
<1>. QED
  BY <1>1 DEF LastNumber

LEMMA DurableFacts ==
  ASSUME Types, DurableInv
  PROVE  /\ versions[1].number \in Nat /\ LastNumber \in Nat /\ written \in Nat /\ acked \in Nat
         /\ acked <= versions[1].number /\ versions[1].number <= LastNumber /\ LastNumber <= written
         /\ \A c \in Client : mine[c] \in Nat
<1>1. DiskTypes /\ CallTypes
  BY DEF Types
<1>2. /\ 1 \in DOMAIN versions /\ Len(versions) \in DOMAIN versions /\ 1 <= Len(versions)
      /\ versions[1].number \in Nat /\ LastNumber \in Nat
  BY <1>1, VersionFacts DEF LastNumber
<1>. QED
  BY <1>1, <1>2 DEF DurableInv, DiskTypes, CallTypes, LastNumber

LEMMA DurableCommit ==
  ASSUME Types, DurableInv, NEW c \in Client, NEW ops \in Seq(Op), NEW sync \in BOOLEAN, NEW r,
         Commit(c, ops, sync, r)
  PROVE  DurableInv'
<1>. DEFINE new == [number |-> written + 1, content |-> AfterOps(Store, ops)]
<1>1. /\ written' = written + 1 /\ crashes' = crashes /\ written < MaxWrites
      /\ versions' = IF IsSynced(sync) THEN <<new>> ELSE Append(versions, new)
      /\ mine' = [mine EXCEPT ![c] = written + 1]
      /\ \A d \in Client : d # c => pend'[d] = pend[d]
  BY DEF Commit, Types, CallTypes
<1>2. /\ versions' \in Seq(Version)
      /\ versions'[Len(versions')] = new /\ new.number = written + 1
  BY CommitVersions DEF Types
<1>3. LastNumber' = written + 1
  BY <1>2 DEF LastNumber
<1>. HIDE DEF new
<1>4. versions \in Seq(Version) /\ MaxWrites \in Nat /\ 1 \in DOMAIN versions
  BY DiskAssumption, VersionFacts DEF Types, DiskTypes
<1>5. \A n \in DOMAIN versions : /\ versions[n].number \in Nat /\ versions[n].number <= LastNumber
  <2>1. \A n \in DOMAIN versions : /\ versions[n].number \in Nat
                                   /\ n \in Nat /\ n <= Len(versions)
    <3>1. DOMAIN versions = 1 .. Len(versions) /\ Len(versions) \in Nat
      BY VersionFacts DEF Types
    <3>2. \A n \in DOMAIN versions : n \in Nat /\ n <= Len(versions)
      BY <3>1, SMT
    <3>. QED
      BY <3>2, VersionFacts DEF Types
  <2>2. Len(versions) \in DOMAIN versions
    BY VersionFacts DEF Types
  <2>. QED
    BY <2>1, <2>2 DEF DurableInv, LastNumber
<1>6. \A m, n \in DOMAIN versions' : m <= n => versions'[m].number <= versions'[n].number
  <2>1. CASE versions' = <<new>>
    <3>1. \A m, n \in DOMAIN versions' : versions'[m] = new /\ versions'[n] = new
      BY <2>1, OneVersion
    <3>. QED
      BY <1>2, <3>1, DurableFacts, SMT
  <2>2. CASE versions' = Append(versions, new)
    <3>1. /\ DOMAIN versions' = (DOMAIN versions) \cup {Len(versions) + 1}
          /\ \A n \in DOMAIN versions : /\ versions'[n] = versions[n] /\ n \in Nat
                                        /\ n < Len(versions) + 1
          /\ versions'[Len(versions) + 1] = new /\ Len(versions) \in Nat
      BY <1>4, <2>2, SMT
    <3>. SUFFICES ASSUME NEW m \in DOMAIN versions', NEW n \in DOMAIN versions', m <= n
                  PROVE  versions'[m].number <= versions'[n].number
      OBVIOUS
    <3>2. CASE n \in DOMAIN versions
      <4>1. m \in DOMAIN versions
        BY <3>1, <3>2, SMT
      <4>. QED
        BY <3>1, <3>2, <4>1 DEF DurableInv
    <3>3. CASE n = Len(versions) + 1
      <4>1. versions'[n].number = written + 1
        BY <1>2, <3>1, <3>3
      <4>2. versions'[m].number \in Nat /\ versions'[m].number <= written + 1
        <5>1. CASE m \in DOMAIN versions
          <6>1. /\ versions'[m].number \in Nat /\ versions'[m].number <= LastNumber
                /\ LastNumber \in Nat /\ LastNumber <= written /\ written \in Nat
            BY <1>5, <3>1, <5>1, DurableFacts
          <6>. QED
            BY <6>1, SMT
        <5>2. CASE m = Len(versions) + 1
          <6>1. versions'[m].number = written + 1 /\ written \in Nat
            BY <1>2, <3>1, <5>2, DurableFacts
          <6>. QED
            BY <6>1, SMT
        <5>. QED
          BY <3>1, <5>1, <5>2
      <4>. QED
        BY <4>1, <4>2
    <3>. QED
      BY <3>1, <3>2, <3>3
  <2>. QED
    BY <1>1, <2>1, <2>2
<1>7. acked' <= versions'[1].number
  <2>1. CASE IsSynced(sync)
    <3>1. versions'[1].number = written + 1
      BY <1>1, <1>2, <2>1, OneVersion
    <3>2. acked' = acked \/ acked' = written + 1
      BY DEF Commit
    <3>. QED
      BY <3>1, <3>2, DurableFacts, SMT
  <2>2. CASE ~IsSynced(sync)
    <3>1. versions'[1] = versions[1]
      BY <1>1, <1>4, <2>2, SMT
    <3>2. backend # "boltdb" /\ ~(sync /\ backend \in LevelLike)
      BY <2>2 DEF IsSynced
    <3>3. IsToSync(sync) \/ ~IsPromised(sync)
      BY <3>2 DEF Types, DiskTypes, AllBackends, IsToSync, IsPromised
    <3>4. acked' = acked
      BY <3>3 DEF Commit
    <3>. QED
      BY <3>1, <3>4, DurableFacts
  <2>. QED
    BY <2>1, <2>2
<1>8. LastNumber' <= written' /\ written' <= MaxWrites /\ crashes' <= MaxCrashes
  <2>1. written \in Nat
    BY DurableFacts
  <2>2. written + 1 <= written + 1 /\ written + 1 <= MaxWrites
    BY <1>1, <1>4, <2>1, SMT
  <2>. QED
    BY <1>1, <1>3, <2>2 DEF DurableInv
<1>9. ASSUME NEW d \in Client
      PROVE  mine'[d] <= written' /\ mine'[d] <= LastNumber'
  <2>1. CASE d = c
    <3>1. mine'[d] = written + 1 /\ written \in Nat
      BY <1>1, <2>1, DurableFacts DEF Types, CallTypes
    <3>. QED
      BY <1>1, <1>3, <3>1, SMT
  <2>2. CASE d # c
    <3>1. mine'[d] = mine[d] /\ mine[d] \in Nat /\ mine[d] <= written /\ written \in Nat
      BY <1>1, <2>2, DurableFacts DEF Types, CallTypes, DurableInv
    <3>. QED
      BY <1>1, <1>3, <3>1, SMT
  <2>. QED
    BY <2>1, <2>2
<1>. QED
  BY <1>6, <1>7, <1>8, <1>9 DEF DurableInv

LEMMA DurableFrame ==
  ASSUME DurableInv, UNCHANGED <<versions, written, mine, acked, crashes>>,
         \A c \in Client : pend'[c] # nil => pend[c] # nil
  PROVE  DurableInv'
BY DEF DurableInv, LastNumber

LEMMA DurableSync ==
  ASSUME Types, DurableInv, NEW c \in Client, withSync(c)
  PROVE  DurableInv'
<1>1. /\ UNCHANGED <<written, mine, crashes>> /\ pend[c] # nil
      /\ \A d \in Client : pend'[d] # nil => pend[d] # nil
  BY DEF withSync, Acknowledge, EndSync, Types, CallTypes
<1>2. CASE UNCHANGED <<versions, acked>>
  BY <1>1, <1>2, DurableFrame
<1>3. CASE acked' = Max({acked, mine[c]}) /\ versions' = <<versions[Len(versions)]>>
  <2>1. /\ DOMAIN versions' = {1} /\ versions'[1].number = LastNumber /\ LastNumber' = LastNumber
    BY <1>3, OneVersion DEF LastNumber
  <2>2. acked <= LastNumber /\ mine[c] <= LastNumber
    <3>1. mine[c] <= LastNumber
      BY <1>1 DEF DurableInv
    <3>2. acked <= LastNumber
      BY DurableFacts, SMT
    <3>. QED
      BY <3>1, <3>2
  <2>3. Max({acked, mine[c]}) <= LastNumber
    BY <2>2, MaxOfTwo, DurableFacts
  <2>4. LastNumber <= LastNumber
    BY DurableFacts, SMT
  <2>. QED
    BY <1>1, <1>3, <2>1, <2>3, <2>4 DEF DurableInv
<1>. QED
  BY <1>2, <1>3 DEF withSync, Acknowledge

(* A crash keeps a version that is not older than the last write promised. *)
LEMMA CrashKeeps ==
  ASSUME Types, DurableInv, Crash
  PROVE  \E n \in DOMAIN versions :
           /\ versions' = <<versions[n]>> /\ versions[n].number \in Nat
           /\ versions'[1].number = versions[n].number
           /\ acked <= versions[n].number /\ versions[n].number <= LastNumber
<1>1. PICK n \in DOMAIN versions : versions' = <<versions[n]>>
  BY DEF Crash
<1>2. versions'[1].number = versions[n].number /\ versions[n].number \in Nat
  BY <1>1, OneVersion, VersionFacts DEF Types
<1>3. versions[1].number <= versions[n].number /\ versions[n].number <= LastNumber
  <2>1. DOMAIN versions = 1 .. Len(versions) /\ Len(versions) \in Nat
    BY VersionFacts DEF Types
  <2>2. 1 <= n /\ n <= Len(versions)
    BY <2>1, SMT
  <2>3. 1 \in DOMAIN versions /\ Len(versions) \in DOMAIN versions
    BY VersionFacts DEF Types
  <2>. QED
    BY <2>2, <2>3 DEF DurableInv, LastNumber
<1>4. acked <= versions[n].number
  BY <1>2, <1>3, DurableFacts, SMT
<1>. QED
  BY <1>1, <1>2, <1>3, <1>4

LEMMA DurableCrash ==
  ASSUME Types, DurableInv, Crash
  PROVE  DurableInv'
<1>1. PICK n \in DOMAIN versions :
        /\ versions' = <<versions[n]>> /\ versions[n].number \in Nat
        /\ acked <= versions[n].number /\ versions[n].number <= LastNumber
  BY CrashKeeps
<1>2. /\ DOMAIN versions' = {1} /\ versions'[1] = versions[n]
      /\ LastNumber' = versions[n].number
  BY <1>1, OneVersion
<1>3. /\ UNCHANGED <<written, mine, acked>> /\ crashes' = crashes + 1 /\ crashes < MaxCrashes
      /\ \A c \in Client : pend'[c] = nil
  BY DEF Crash, history
<1>4. crashes' <= MaxCrashes
  <2>1. crashes \in Nat /\ MaxCrashes \in Nat
    BY DiskAssumption DEF Types, DiskTypes
  <2>. QED
    BY <1>3, <2>1, SMT
<1>5. versions[n].number <= versions[n].number
  BY <1>1, SMT
<1>6. versions[n].number <= written
  BY <1>1, DurableFacts, SMT
<1>. QED
  BY <1>1, <1>2, <1>3, <1>4, <1>5, <1>6 DEF DurableInv

LEMMA DurableStep == Types /\ DurableInv /\ [Next]_vars => DurableInv'
<1>. SUFFICES ASSUME Types, DurableInv, [Next]_vars PROVE DurableInv'
  OBVIOUS
<1>1. CASE UNCHANGED vars
  BY <1>1, DurableFrame DEF vars, history
<1>2. ASSUME NEW c \in Client, CallKind(c)
      PROVE  DurableInv'
  <2>1. CASE \E ops \in Seq(Op), sync \in BOOLEAN, r \in Results : Commit(c, ops, sync, r)
    BY <2>1, DurableCommit
  <2>2. CASE UNCHANGED <<versions, pend, history, crashes>>
    BY <2>2, DurableFrame DEF history
  <2>. QED
    BY <1>2, <2>1, <2>2 DEF CallKind, Answer, ChangeBatch, Open, CallValid, IteratorNext, Close,
                            Panic, ValueFails
<1>. QED
  BY <1>1, <1>2, CallKinds, DurableSync, DurableCrash DEF Next

LEMMA InitDurable == Init => DurableInv
<1>. SUFFICES ASSUME Init PROVE DurableInv
  OBVIOUS
<1>1. PICK content \in Opened : versions = <<[number |-> 0, content |-> content]>>
  BY DEF Init
<1>2. /\ DOMAIN versions = {1} /\ versions[1].number = 0 /\ Len(versions) = 1
  BY <1>1, SMT
<1>3. MaxWrites \in Nat /\ MaxCrashes \in Nat
  BY DiskAssumption
<1>4. 0 <= 0 /\ 0 <= MaxWrites /\ 0 <= MaxCrashes
  BY <1>3, SMT
<1>. QED
  BY <1>2, <1>4 DEF Init, DurableInv, LastNumber

LEMMA BasicInvariant == Spec => [](Types /\ DurableInv)
BY InitTypes, InitDurable, TypesStep, DurableStep, PTL DEF Spec

(* Types hold for every instance: no empty key and no nil value reaches a    *)
(* library, and every cursor that a wrapper positions stands on a key.       *)
THEOREM TypeCorrect == Spec => []TypeOK
<1>1. ASSUME Types, DurableInv, calls \in Programs
      PROVE  TypeOK
  <2>. DEFINE Numbered == [number: 0 .. written, content: Contents]
  <2>1. \A n \in DOMAIN versions : versions[n] \in Numbered
    <3>. TAKE n \in DOMAIN versions
    <3>1. /\ versions[n] \in Version /\ versions[n].number \in Nat
      BY <1>1, VersionFacts DEF Types
    <3>2. versions[n].number <= LastNumber
      <4>1. DOMAIN versions = 1 .. Len(versions) /\ Len(versions) \in Nat
        BY <1>1, VersionFacts DEF Types
      <4>2. n <= Len(versions)
        BY <4>1, SMT
      <4>3. Len(versions) \in DOMAIN versions
        BY <1>1, VersionFacts DEF Types
      <4>. QED
        BY <1>1, <4>2, <4>3 DEF DurableInv, LastNumber
    <3>3. versions[n].number \in 0 .. written
      BY <1>1, <3>1, <3>2, DurableFacts, SMT
    <3>. QED
      BY <3>1, <3>3 DEF Version, Clean
  <2>2. versions \in Seq(Version) /\ versions # <<>>
    BY <1>1 DEF Types, DiskTypes
  <2>. HIDE DEF Numbered
  <2>3. versions \in Seq(Numbered)
    BY <2>1, <2>2, SMT
  <2>4. Store[EmptyKey] = Absent
    BY <1>1, VersionFacts DEF Types, Clean
  <2>5. written \in 0 .. MaxWrites /\ acked \in 0 .. written /\ crashes \in 0 .. MaxCrashes
    <3>1. /\ MaxWrites \in Nat /\ MaxCrashes \in Nat /\ crashes \in Nat
          /\ written <= MaxWrites /\ crashes <= MaxCrashes
      BY <1>1, DiskAssumption DEF Types, DiskTypes, DurableInv
    <3>. QED
      BY <1>1, <3>1, DurableFacts, SMT
  <2>6. mine \in [Client -> 0 .. written]
    <3>1. \A c \in Client : mine[c] \in Nat /\ mine[c] <= written
      BY <1>1, DurableFacts DEF DurableInv
    <3>2. written \in Nat
      BY <1>1, DurableFacts
    <3>3. \A c \in Client : mine[c] \in 0 .. written
      BY <3>1, <3>2, SMT
    <3>. QED
      BY <1>1, <3>3 DEF Types, CallTypes
  <2>7. view \in [Iter -> Contents]
    BY <1>1 DEF Types, IterTypes, Clean
  <2>8. backend \in Backends
    BY <1>1 DEF Types, DiskTypes
  <2>. QED
    BY <1>1, <2>2, <2>3, <2>4, <2>5, <2>6, <2>7, <2>8
       DEF Types, CallTypes, IterTypes, TypeOK, Numbered
<1>2. Init => calls \in Programs
  BY DEF Init
<1>3. calls \in Programs /\ [Next]_vars => (calls \in Programs)'
  BY DEF Next, vars
<1>. QED
  BY <1>1, <1>2, <1>3, BasicInvariant, PTL DEF Spec

(* A crash loses no write whose Sync call has returned: for every backend,   *)
(* any number of clients with writes and syncs interleaved in any way, and   *)
(* any number of crashes.                                                    *)
THEOREM Durability == Spec => SyncedSurvives
<1>1. Types /\ DurableInv /\ [Next]_vars =>
        [crashes' # crashes => acked <= versions'[1].number]_vars
  <2>. SUFFICES ASSUME Types, DurableInv, Next, crashes' # crashes
                PROVE  acked <= versions'[1].number
    OBVIOUS
  <2>1. CASE Crash
    BY <2>1, CrashKeeps
  <2>2. ASSUME NEW c \in Client, CallKind(c) \/ withSync(c)
        PROVE  crashes' = crashes
    BY <2>2 DEF CallKind, Answer, Commit, ChangeBatch, Open, CallValid, IteratorNext, Close,
                Panic, ValueFails, withSync, Acknowledge, EndSync
  <2>. QED
    BY <2>1, <2>2, CallKinds DEF Next
<1>. QED
  BY <1>1, BasicInvariant, PTL DEF Spec, SyncedSurvives
=============================================================================
