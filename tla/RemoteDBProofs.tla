--------------------------- MODULE RemoteDBProofs ---------------------------
(***************************************************************************)
(* Proofs about RemoteDB for any number of clients, keys, batches of any   *)
(* size, lost calls and restarts.                                          *)
(***************************************************************************)
EXTENDS RemoteDB, OpsProofs

(* Leaves are tried with Zenon, and with SMT where they say so. *)
USE Zenon

LEMMA Sentinels ==
  /\ Key \subseteq Nat /\ EmptyKey \notin Key /\ EmptyKey \in KeyArg
  /\ EmptyValue \notin Value /\ EmptyValue \notin Key /\ EmptyValue # Absent
  /\ EmptyKey \notin ValueArg /\ EmptyKey # Absent /\ Absent \notin ValueArg
  /\ nil \notin KeyArg /\ nil \notin Value /\ nil # Absent /\ nil # EmptyValue
BY ServerAssumption DEF KeyArg, ValueArg

LEMMA ResultType ==
  ASSUME NEW k \in KeyArg, NEW v \in ValueArg \cup {nil, Absent}
  PROVE  /\ \A st \in {"get", "true", "false", "set", "append", "errValueNil"} :
              Result(st, k, v) \in Results
         /\ \A st \in {"none", "inspect", "write", "new", "close", "error",
                       "errKeyEmpty", "errBatchClosed"} : Status(st) \in Results
<1>1. EmptyKey \in KeyArg /\ nil \in ValueArg \cup {nil, Absent}
  BY DEF KeyArg
<1>. QED
  BY <1>1 DEF Results, Result, Status

(* Contents in which nothing is stored under the empty key. *)
Clean == {content \in Contents : content[EmptyKey] = Absent}

(* Operations that the server does not refuse. *)
AreAccepted(ops) == \A n \in DOMAIN ops : ~IsRefused(ops[n])

LEMMA Accepted ==
  ASSUME NEW op \in RawOp
  PROVE  ~IsRefused(op) <=> op.key \in Key /\ op.value \in Value \cup {Absent}
<1>1. op.key \in Key \cup {EmptyKey} /\ op.value \in Value \cup {EmptyValue, nil, Absent}
  BY RemoteAssumption DEF RawOp, KeyArg, ValueArg
<1>2. Wire(op.key) = nil <=> op.key \in {EmptyKey, EmptyValue}
  BY <1>1, Sentinels DEF Wire, KeyArg
<1>3. Wire(op.value) = nil <=> op.value \in {EmptyKey, EmptyValue, nil}
  BY <1>1, Sentinels DEF Wire, ValueArg
<1>. QED
  BY <1>1, <1>2, <1>3, Sentinels DEF IsRefused, ValueArg

-----------------------------------------------------------------------------
(* What a request looks like. *)
IsRequest(h) ==
  /\ h \in Handlers
  /\ h.method \in {"get", "has", "set", "delete"} => Len(h.ops) = 1
  /\ h.stage = "running" => h.method # "init"

LEMMA FirstOp ==
  ASSUME NEW ops \in Seq(RawOp), Len(ops) = 1
  PROVE  /\ ops[1] \in RawOp /\ ops = <<ops[1]>>
         /\ ops[1].key \in KeyArg /\ ops[1].value \in ValueArg \cup {Absent}
<1>1. ops[1] \in RawOp /\ ops = <<ops[1]>>
  BY SMT
<1>. QED
  BY <1>1, RemoteAssumption DEF RawOp

(***************************************************************************)
(* What the handler of request h has done: nothing, looked up a key, set   *)
(* or deleted one, or written a batch.                                     *)
(***************************************************************************)
ValueRefused(r) ==
  \E v \in ValuesPassed \cap {nil, EmptyValue} : r = Result("errValueNil", EmptyKey, v)

DidNothing(o) ==
  /\ o.files = files
  /\ \/ \E st \in {"errKeyEmpty", "error", "inspect"} : o.result = Status(st)
     \/ ValueRefused(o.result)

DidLookup(o) ==
  \E k \in Key :
    /\ o.files = files
    /\ \/ o.result = Result("get", k, IF files[k] = Absent THEN nil ELSE files[k])
       \/ o.result = Result(IF files[k] = Absent THEN "false" ELSE "true", k, nil)

DidSet(h, o) ==
  \E k \in Key, v \in Value \cup {Absent} :
    /\ h.method \in {"set", "delete"} /\ h.ops = <<[key |-> k, value |-> v]>>
    /\ o.files = AfterOps(files, h.ops) /\ o.result = Result("set", k, v)

DidWrite(h, o) ==
  /\ h.method = "batchWrite" /\ AreAccepted(h.ops)
  /\ o.files = AfterOps(files, h.ops) /\ o.result = Status("write")

LEMMA FailsDoNothing ==
  ASSUME NEW o \in Fails
  PROVE  DidNothing(o)
<1>1. o = Does(files, Status("error"))
  BY DEF Fails
<1>. QED
  BY <1>1 DEF Does, DidNothing

LEMMA RefusalDoesNothing ==
  ASSUME NEW op \in RawOp, IsRefused(op)
  PROVE  DidNothing(Refusal(op))
<1>1. op.key \in Key \cup {EmptyKey} /\ op.value \in ValuesPassed \cup {Absent}
  BY DEF RawOp, KeyArg
<1>2. CASE Wire(op.key) = nil
  <2>1. op.key = EmptyKey
    BY <1>1, <1>2, Sentinels DEF Wire, KeyArg
  <2>2. Refusal(op) = Does(files, Status("errKeyEmpty"))
    BY <1>2, <2>1 DEF Refusal, Status
  <2>3. DidNothing(Does(files, Status("errKeyEmpty")))
    BY DEF Does, DidNothing
  <2>. QED
    BY <2>2, <2>3
<1>3. CASE Wire(op.key) # nil
  <2>1. Wire(op.value) = nil
    BY <1>3 DEF IsRefused
  <2>2. op.value \in ValuesPassed \cap {nil, EmptyValue}
    BY <1>1, <2>1, Sentinels, RemoteAssumption DEF Wire, ValueArg
  <2>3. PICK r : r = Result("errValueNil", EmptyKey, op.value)
    OBVIOUS
  <2>4. ValueRefused(r)
    BY <2>2, <2>3 DEF ValueRefused
  <2>5. Refusal(op) = Does(files, r)
    BY <1>3, <2>3 DEF Refusal
  <2>6. DidNothing(Does(files, r))
    BY <2>4 DEF Does, DidNothing
  <2>. QED
    BY <2>5, <2>6
<1>. QED
  BY <1>2, <1>3

(* The first operation that is refused is one of the batch. *)
LEMMA FirstRefused ==
  ASSUME NEW ops \in Seq(RawOp), NEW refused, refused = {n \in DOMAIN ops : IsRefused(ops[n])},
         refused # {}
  PROVE  ops[Min(refused)] \in RawOp /\ IsRefused(ops[Min(refused)])
<1>1. refused \subseteq Nat
  BY SMT
<1>2. \E n \in refused : \A m \in refused : n <= m
  BY <1>1, LeastNat
<1>3. Min(refused) \in refused
  BY <1>2 DEF Min
<1>4. \A n \in DOMAIN ops : ops[n] \in RawOp
  BY SMT
<1>. QED
  BY <1>3, <1>4

LEMMA HandleCases ==
  ASSUME NEW ops
  PROVE  /\ Handle("get", ops) = serverGet(ops[1]) /\ Handle("has", ops) = serverHas(ops[1])
         /\ Handle("stats", ops) = serverStats
         /\ Handle("set", ops) = serverSet(ops[1]) /\ Handle("delete", ops) = serverSet(ops[1])
         /\ Handle("batchWrite", ops) = batchWrite(ops)
BY SMT DEF Handle

LEMMA Handled ==
  ASSUME files \in Clean, NEW h, IsRequest(h), h.method # "init",
         NEW o \in Handle(h.method, h.ops)
  PROVE  DidNothing(o) \/ DidLookup(o) \/ DidSet(h, o) \/ DidWrite(h, o)
<1>0. /\ h.method \in {"get", "has", "stats", "set", "delete", "batchWrite"}
      /\ h.ops \in Seq(RawOp)
  BY DEF IsRequest, Handlers, Methods
<1>1. PICK op : op = h.ops[1]
  OBVIOUS
<1>2. h.method \in {"get", "has", "set", "delete"} =>
        /\ op \in RawOp /\ h.ops = <<op>>
        /\ op.key \in KeyArg /\ op.value \in ValueArg \cup {Absent}
  BY <1>0, <1>1, FirstOp DEF IsRequest
<1>3. h.method \in {"get", "has", "set", "delete"} /\ IsRefused(op) => DidNothing(Refusal(op))
  BY <1>2, RefusalDoesNothing
<1>4. h.method \in {"get", "has", "set", "delete"} /\ ~IsRefused(op) =>
        op.key \in Key /\ op.value \in Value \cup {Absent}
  BY <1>2, Accepted
<1>5. CASE h.method = "get"
  <2>1. o \in serverGet(op)
    BY <1>1, <1>5, HandleCases
  <2>2. CASE IsRefused(op)
    BY <1>3, <1>5, <2>1, <2>2 DEF serverGet
  <2>3. CASE ~IsRefused(op)
    <3>1. files[op.key] \in Value \cup {Absent}
      BY <1>4, <1>5, <2>3 DEF Clean, Contents, KeyArg
    <3>2. PICK v : v = IF files[op.key] = Absent THEN nil ELSE files[op.key]
      OBVIOUS
    <3>3. v = IF files[op.key] = Absent THEN nil ELSE Wire(files[op.key])
      BY <3>1, <3>2, Sentinels DEF Wire, ValueArg
    <3>4. o = Does(files, Result("get", op.key, v)) \/ o \in Fails
      BY <2>1, <2>3, <3>3 DEF serverGet
    <3>5. CASE o = Does(files, Result("get", op.key, v))
      <4>1. o.files = files /\ o.result = Result("get", op.key, v)
        BY <3>5 DEF Does
      <4>. QED
        BY <1>4, <1>5, <2>3, <3>2, <4>1 DEF DidLookup
    <3>. QED
      BY <3>4, <3>5, FailsDoNothing
  <2>. QED
    BY <2>2, <2>3
<1>6. CASE h.method = "has"
  <2>1. o \in serverHas(op)
    BY <1>1, <1>6, HandleCases
  <2>2. CASE IsRefused(op)
    BY <1>3, <1>6, <2>1, <2>2 DEF serverHas
  <2>3. CASE ~IsRefused(op)
    <3>1. PICK st : st = IF files[op.key] = Absent THEN "false" ELSE "true"
      OBVIOUS
    <3>2. o = Does(files, Result(st, op.key, nil)) \/ o \in Fails
      BY <2>1, <2>3, <3>1 DEF serverHas
    <3>3. CASE o = Does(files, Result(st, op.key, nil))
      <4>1. o.files = files /\ o.result = Result(st, op.key, nil)
        BY <3>3 DEF Does
      <4>. QED
        BY <1>4, <1>6, <2>3, <3>1, <4>1 DEF DidLookup
    <3>. QED
      BY <3>2, <3>3, FailsDoNothing
  <2>. QED
    BY <2>2, <2>3
<1>7. CASE h.method = "stats"
  <2>1. o = Does(files, Status("inspect"))
    BY <1>7, HandleCases DEF serverStats
  <2>2. o.files = files /\ o.result = Status("inspect")
    BY <2>1 DEF Does
  <2>. QED
    BY <2>2 DEF DidNothing
<1>8. CASE h.method \in {"set", "delete"}
  <2>1. o \in serverSet(op)
    BY <1>1, <1>8, HandleCases
  <2>2. CASE IsRefused(op)
    BY <1>3, <1>8, <2>1, <2>2 DEF serverSet
  <2>3. CASE ~IsRefused(op)
    <3>1. o = Does(AfterOps(files, h.ops), Result("set", op.key, op.value)) \/ o \in Fails
      BY <1>2, <1>8, <2>1, <2>3 DEF serverSet
    <3>2. op = [key |-> op.key, value |-> op.value]
      BY <1>2, <1>8 DEF RawOp
    <3>3. CASE o = Does(AfterOps(files, h.ops), Result("set", op.key, op.value))
      <4>1. o.files = AfterOps(files, h.ops) /\ o.result = Result("set", op.key, op.value)
        BY <3>3 DEF Does
      <4>2. h.ops = <<[key |-> op.key, value |-> op.value]>>
        BY <1>2, <1>8, <3>2
      <4>. QED
        BY <1>4, <1>8, <2>3, <4>1, <4>2 DEF DidSet
    <3>. QED
      BY <3>1, <3>3, FailsDoNothing
  <2>. QED
    BY <2>2, <2>3
<1>9. CASE h.method = "batchWrite"
  <2>1. PICK refused : refused = {n \in DOMAIN h.ops : IsRefused(h.ops[n])}
    OBVIOUS
  <2>2. o \in IF refused # {} THEN {Refusal(h.ops[Min(refused)])}
              ELSE {Does(AfterOps(files, h.ops), Status("write"))} \cup Fails
    BY <1>9, <2>1, HandleCases DEF batchWrite
  <2>3. CASE refused # {}
    <3>1. PICK op1 : op1 = h.ops[Min(refused)]
      OBVIOUS
    <3>2. op1 \in RawOp /\ IsRefused(op1)
      BY <1>0, <2>1, <2>3, <3>1, FirstRefused
    <3>3. o = Refusal(op1)
      BY <2>2, <2>3, <3>1
    <3>. QED
      BY <3>2, <3>3, RefusalDoesNothing
  <2>4. CASE refused = {}
    <3>1. AreAccepted(h.ops)
      BY <2>1, <2>4 DEF AreAccepted
    <3>2. CASE o = Does(AfterOps(files, h.ops), Status("write"))
      <4>1. o.files = AfterOps(files, h.ops) /\ o.result = Status("write")
        BY <3>2 DEF Does
      <4>. QED
        BY <1>9, <3>1, <4>1 DEF DidWrite
    <3>. QED
      BY <2>2, <2>4, <3>2, FailsDoNothing
  <2>. QED
    BY <2>3, <2>4
<1>. QED
  BY <1>0, <1>5, <1>6, <1>7, <1>8, <1>9

-----------------------------------------------------------------------------
(***************************************************************************)
(* The inductive invariant.  Requests are well formed, and while the Write *)
(* of a batch is running the batch still is what the request carries.      *)
(***************************************************************************)
CallInv(c) ==
  call[c] # nil =>
    /\ IsRequest(call[c])
    /\ call[c].method = "batchWrite" => batch[c] # nil /\ batch[c] = call[c].ops

Inv ==
  /\ TypeOK
  /\ \A c \in Client : CallInv(c)
  /\ \A n \in DOMAIN orphans : IsRequest(orphans[n])

LEMMA SameResults ==
  \A st, k, v : KV!Result(st, k, v) = Result(st, k, v) /\ KV!Status(st) = Status(st)
BY DEF KV!Result, KV!Status, Result, Status

LEMMA DistinctStatus ==
  ASSUME NEW st, NEW tt, st # tt, NEW k, NEW v
  PROVE  Status(st) # Status(tt) /\ Result(st, k, v) # Status(tt)
<1>1. Status(st).status = st /\ Status(tt).status = tt /\ Result(st, k, v).status = st
  BY DEF Status, Result
<1>. QED
  BY <1>1

LEMMA InitImplements == Init => Inv /\ KV!DBInit
<1>. SUFFICES ASSUME Init PROVE Inv /\ KV!DBInit
  OBVIOUS
<1>1. Inv
  <2>1. ServerTypes
    <3>1. 0 \in 0 .. MaxRestarts
      BY ServerAssumption, SMT
    <3>. QED
      BY <3>1 DEF Init, ServerInit, ServerTypes
  <2>2. batch \in [Client -> Seq(RawOp) \cup {nil}] /\ call \in [Client -> Handlers \cup {nil}]
    BY DEF Init
  <2>3. orphans \in Seq(Handlers) /\ lost \in 0 .. MaxLost /\ DOMAIN orphans = {}
    BY RemoteAssumption, SMT DEF Init
  <2>4. ret \in [Client -> Results]
    <3>1. EmptyKey \in KeyArg /\ nil \in ValueArg \cup {nil, Absent}
      BY DEF KeyArg
    <3>2. Status("none") \in Results
      BY <3>1, ResultType
    <3>. QED
      BY <3>2 DEF Init
  <2>5. \A c \in Client : CallInv(c)
    BY DEF Init, CallInv
  <2>. QED
    BY <2>1, <2>2, <2>3, <2>4, <2>5 DEF Inv, TypeOK
<1>2. Doubtful = <<>>
  BY SMT DEF Init, Doubtful
<1>3. \A x : [i \in {} |-> x] = <<>>
  BY SMT
<1>4. \A S : <<>> \in [{} -> S]
  BY SMT
<1>5. files \in [Key \cup {EmptyKey} -> Value \cup {Absent}] /\ files[EmptyKey] = Absent
  BY DEF Init, ServerInit, Contents, KeyArg
<1>6. batch = [c \in Client |-> nil] /\ ret = [c \in Client |-> KV!Status("none")]
  BY SameResults DEF Init
<1>7. KV!DBInit
  BY <1>2, <1>3, <1>4, <1>5, <1>6 DEF KV!DBInit
<1>. QED
  BY <1>1, <1>7

-----------------------------------------------------------------------------
(* The steps of KVStore that a call ends with, and those nobody waits for. *)

(* Clients pass no empty value, which the server would take for nil. *)
NoEmptyValues == EmptyValue \notin ValuesPassed

Same == UNCHANGED <<files, batch>> /\ Doubtful' = Doubtful

LEMMA KVReplies ==
  ASSUME NEW c \in Client, Same,
         NEW st \in {"none", "errKeyEmpty", "errValueNil", "inspect", "error"},
         Reply(c, Status(st))
  PROVE  KV!DBNext
<1>1. KV!Reply(c, KV!Status(st)) /\ KV!Reply(c, KV!Result(st, EmptyKey, nil))
  BY SameResults DEF Reply, KV!Reply, Status
<1>2. KV!Begin(c) \/ KV!Refuse(c) \/ KV!NoEffect(c) \/ KV!CallFails(c)
  BY <1>1 DEF Same, KV!Begin, KV!Refuse, KV!NoEffect, KV!CallFails, KV!iterVars
<1>. QED
  BY <1>2 DEF KV!DBNext

LEMMA KVLookup ==
  ASSUME NEW c \in Client, Same, NEW o, DidLookup(o), Reply(c, o.result)
  PROVE  KV!DBNext
<1>1. PICK k \in Key :
        \/ o.result = Result("get", k, IF files[k] = Absent THEN nil ELSE files[k])
        \/ o.result = Result(IF files[k] = Absent THEN "false" ELSE "true", k, nil)
  BY DEF DidLookup
<1>2. KV!Lookup(c, k)
  BY <1>1, SameResults DEF Same, Reply, KV!Lookup, KV!Reply, KV!iterVars
<1>. QED
  BY <1>2 DEF KV!DBNext

LEMMA KVPut ==
  ASSUME NEW c \in Client, UNCHANGED batch, Doubtful' = Doubtful,
         NEW k \in Key, NEW v \in Value \cup {Absent},
         files' = [files EXCEPT ![k] = v], Reply(c, Result("set", k, v))
  PROVE  KV!DBNext
<1>1. KV!Put(c, k, v)
  BY SameResults DEF Reply, KV!Put, KV!Reply, KV!iterVars
<1>. QED
  BY <1>1 DEF KV!DBNext

LEMMA KVAfterOps == \A s, ops : KV!AfterOps(s, ops) = AfterOps(s, ops)
BY DEF KV!AfterOps, AfterOps

LEMMA AcceptedAreValid ==
  ASSUME NEW ops \in Seq(RawOp), AreAccepted(ops)
  PROVE  KV!AreValid(ops)
<1>1. ASSUME NEW n \in DOMAIN ops
      PROVE  ops[n].key \in Key /\ ops[n].value \in Value \cup {Absent}
  <2>1. ops[n] \in RawOp
    BY SMT
  <2>2. ~IsRefused(ops[n])
    BY DEF AreAccepted
  <2>. QED
    BY <2>1, <2>2, Accepted
<1>. QED
  BY <1>1 DEF KV!AreValid

LEMMA KVWriteBatch ==
  ASSUME NEW c \in Client, batch[c] # nil, batch[c] \in Seq(RawOp), AreAccepted(batch[c]),
         files' = AfterOps(files, batch[c]), batch' = [batch EXCEPT ![c] = nil],
         Doubtful' = Doubtful, Reply(c, Status("write"))
  PROVE  KV!DBNext
<1>1. KV!AreValid(batch[c])
  BY AcceptedAreValid
<1>2. KV!WriteBatch(c)
  BY <1>1, SameResults, KVAfterOps DEF Reply, KV!WriteBatch, KV!Reply, KV!iterVars
<1>. QED
  BY <1>2 DEF KV!DBNext

(* What a handler has done is a step of KVStore for the client that waits. *)
LEMMA AnswerIsAStep ==
  ASSUME NoEmptyValues,
         files \in Clean, NEW c \in Client, NEW h, IsRequest(h), h.method # "init",
         h.method = "batchWrite" => batch[c] # nil /\ batch[c] = h.ops,
         batch \in [Client -> Seq(RawOp) \cup {nil}],
         NEW o \in Handle(h.method, h.ops),
         files' = o.files, Reply(c, o.result), Doubtful' = Doubtful,
         batch' = [batch EXCEPT ![c] = BatchAfter(c, o.result)]
  PROVE  KV!DBNext
<1>1. CASE DidNothing(o)
  <2>1. PICK st \in {"errKeyEmpty", "errValueNil", "error", "inspect"} :
          o.files = files /\ o.result = Status(st)
    BY <1>1 DEF DidNothing, ValueRefused, NoEmptyValues, Status
  <2>2. BatchAfter(c, o.result) = batch[c]
    BY <2>1, DistinctStatus DEF BatchAfter
  <2>3. Same
    BY <2>1, <2>2 DEF Same
  <2>. QED
    BY <2>1, <2>3, KVReplies
<1>2. CASE DidLookup(o)
  <2>1. o.result # Status("write")
    <3>1. \A k, v : \A st \in {"get", "true", "false"} : Result(st, k, v) # Status("write")
      BY DistinctStatus
    <3>. QED
      BY <1>2, <3>1 DEF DidLookup
  <2>2. BatchAfter(c, o.result) = batch[c]
    BY <2>1 DEF BatchAfter
  <2>3. o.files = files
    BY <1>2 DEF DidLookup
  <2>4. Same
    BY <2>2, <2>3 DEF Same
  <2>. QED
    BY <1>2, <2>4, KVLookup
<1>3. CASE DidSet(h, o)
  <2>1. PICK k \in Key, v \in Value \cup {Absent} :
          /\ h.ops = <<[key |-> k, value |-> v]>>
          /\ o.files = AfterOps(files, h.ops) /\ o.result = Result("set", k, v)
    BY <1>3 DEF DidSet
  <2>2. o.result # Status("write")
    BY <2>1, DistinctStatus
  <2>3. batch' = batch
    BY <2>2 DEF BatchAfter
  <2>4. files' = [files EXCEPT ![k] = v]
    <3>1. PICK op : op = [key |-> k, value |-> v]
      OBVIOUS
    <3>2. op.key = k /\ op.value = v
      BY <3>1
    <3>3. files' = AfterOps(files, <<op>>)
      BY <2>1, <3>1
    <3>. QED
      BY <3>2, <3>3, AfterOneOp
  <2>5. Reply(c, Result("set", k, v))
    BY <2>1
  <2>. QED
    BY <2>3, <2>4, <2>5, KVPut
<1>4. CASE DidWrite(h, o)
  <2>1. batch[c] # nil /\ batch[c] = h.ops /\ o.result = Status("write")
    BY <1>4 DEF DidWrite
  <2>2. batch' = [batch EXCEPT ![c] = nil]
    BY <2>1 DEF BatchAfter
  <2>3. batch[c] \in Seq(RawOp)
    BY <2>1
  <2>4. AreAccepted(batch[c]) /\ files' = AfterOps(files, batch[c])
    BY <1>4, <2>1 DEF DidWrite
  <2>. QED
    BY <2>1, <2>2, <2>3, <2>4, KVWriteBatch
<1>. QED
  BY <1>1, <1>2, <1>3, <1>4, Handled

-----------------------------------------------------------------------------
(* Every step keeps the invariant, and without empty values is one of        *)
(* KVStore or changes nothing.                                               *)
Simulated == Inv' /\ (NoEmptyValues => KV!DBNext \/ UNCHANGED KV!dbVars)

(* What a client other than c is doing is left alone. *)
OthersKeep(c) ==
  \A d \in Client \ {c} : call'[d] = call[d] /\ batch'[d] = batch[d]

LEMMA OthersCallInv ==
  ASSUME NEW c, \A d \in Client : CallInv(d), OthersKeep(c)
  PROVE  \A d \in Client \ {c} : CallInv(d)'
BY DEF CallInv, OthersKeep

LEMMA SameOrphans ==
  ASSUME UNCHANGED orphans
  PROVE  Doubtful' = Doubtful
BY DEF Doubtful

LEMMA EmptyArgs == EmptyKey \in KeyArg /\ nil \in ValueArg \cup {nil, Absent}
BY DEF KeyArg

LEMMA ErrorOfType ==
  ASSUME NEW method
  PROVE  /\ ErrorOf(method) \in Results
         /\ \E st \in {"inspect", "error"} : ErrorOf(method) = Status(st)
         /\ method # "stats" => ErrorOf(method) = Status("error")
         /\ method = "stats" => ErrorOf(method) = Status("inspect")
BY EmptyArgs, ResultType DEF ErrorOf

(* The arguments of Invoke. *)
IsCall(c, method, ops) ==
  /\ method \in Methods /\ ops \in Seq(RawOp)
  /\ method \in {"get", "has", "set", "delete"} => Len(ops) = 1
  /\ method = "batchWrite" => batch[c] # nil /\ ops = batch[c]

LEMMA SentIsRequest ==
  ASSUME NEW c, NEW method, NEW ops, IsCall(c, method, ops)
  PROVE  IsRequest(Handler("sent", method, ops))
<1>1. PICK h : h = Handler("sent", method, ops)
  OBVIOUS
<1>2. h \in Handlers
  BY <1>1 DEF IsCall, Handler, Handlers
<1>3. h.stage = "sent" /\ h.method = method /\ h.ops = ops
  BY <1>1 DEF Handler
<1>4. IsRequest(h)
  BY <1>2, <1>3 DEF IsCall, IsRequest
<1>. QED
  BY <1>1, <1>4

LEMMA AppendType ==
  ASSUME NEW S, NEW s \in Seq(S), NEW x \in S
  PROVE  /\ Append(s, x) \in Seq(S)
         /\ \A n \in DOMAIN Append(s, x) : \/ n \in DOMAIN s /\ Append(s, x)[n] = s[n]
                                           \/ Append(s, x)[n] = x
BY SMT

LEMMA DoubtfulAppend ==
  ASSUME orphans \in Seq(Handlers), NEW h \in Handlers, orphans' = Append(orphans, h)
  PROVE  Doubtful' = Append(Doubtful, Writes(h))
<1>1. Len(orphans) \in Nat /\ DOMAIN orphans = 1 .. Len(orphans)
  BY SMT
<1>2. /\ DOMAIN orphans' = 1 .. (Len(orphans) + 1)
      /\ \A n \in DOMAIN orphans : orphans'[n] = orphans[n]
      /\ orphans'[Len(orphans) + 1] = h
  BY SMT
<1>3. PICK D : D = Doubtful
  OBVIOUS
<1>4. DOMAIN D = 1 .. Len(orphans) /\ \A n \in 1 .. Len(orphans) : D[n] = Writes(orphans[n])
  BY <1>1, <1>3 DEF Doubtful
<1>5. D = [n \in 1 .. Len(orphans) |-> Writes(orphans[n])]
  BY <1>1, <1>3 DEF Doubtful
<1>6. Len(D) = Len(orphans)
  BY <1>1, <1>5, SMT
<1>7. PICK E : E = Doubtful'
  OBVIOUS
<1>8. E = [n \in 1 .. (Len(orphans) + 1) |-> IF n \in 1 .. Len(orphans) THEN D[n] ELSE Writes(h)]
  <2>1. ASSUME NEW n \in 1 .. (Len(orphans) + 1), n \notin 1 .. Len(orphans)
        PROVE  n = Len(orphans) + 1
    BY <1>1, <2>1, SMT
  <2>2. \A n \in 1 .. (Len(orphans) + 1) :
          Writes(orphans'[n]) = IF n \in 1 .. Len(orphans) THEN D[n] ELSE Writes(h)
    BY <1>1, <1>2, <1>4, <2>1
  <2>3. E = [n \in DOMAIN orphans' |-> Writes(orphans'[n])]
    BY <1>7 DEF Doubtful
  <2>. QED
    BY <1>2, <2>2, <2>3
<1>9. E = Append(D, Writes(h))
  BY <1>1, <1>5, <1>6, <1>8, SMT
<1>. QED
  BY <1>3, <1>7, <1>9

LEMMA WritesOfCall ==
  ASSUME NEW c, NEW method, NEW ops, IsCall(c, method, ops)
  PROVE  /\ Writes(Handler("sent", method, ops)) \in
              {<<>>} \cup {<<op>> : op \in RawOp} \cup ({batch[c]} \ {nil})
         /\ method = "stats" => Writes(Handler("sent", method, ops)) = <<>>
<1>1. PICK h : h = Handler("sent", method, ops)
  OBVIOUS
<1>2. h.method = method /\ h.ops = ops
  BY <1>1 DEF Handler
<1>3. method \in {"set", "delete"} => \E op \in RawOp : ops = <<op>>
  BY FirstOp DEF IsCall
<1>4. Writes(h) = IF method \in {"set", "delete", "batchWrite"} THEN ops ELSE <<>>
  BY <1>2 DEF Writes
<1>5. Writes(h) \in {<<>>} \cup {<<op>> : op \in RawOp} \cup ({batch[c]} \ {nil})
  BY <1>3, <1>4 DEF IsCall
<1>. QED
  BY <1>1, <1>4, <1>5

LEMMA KVCallIsLost ==
  ASSUME Inv, NEW c \in Client, NEW method, NEW ops, IsCall(c, method, ops),
         orphans' = Append(orphans, Handler("sent", method, ops)),
         Reply(c, ErrorOf(method)), UNCHANGED <<files, batch>>
  PROVE  KV!DBNext
<1>1. PICK h : h = Handler("sent", method, ops)
  OBVIOUS
<1>2. h \in Handlers
  BY <1>1, SentIsRequest DEF IsRequest
<1>3. Doubtful' = Append(Doubtful, Writes(h))
  BY <1>1, <1>2, DoubtfulAppend DEF Inv, TypeOK
<1>4. /\ Writes(h) \in {<<>>} \cup {<<op>> : op \in RawOp} \cup ({batch[c]} \ {nil})
      /\ method = "stats" => Writes(h) = <<>>
  BY <1>1, WritesOfCall
<1>5. /\ method = "stats" => KV!Reply(c, KV!Status("inspect"))
      /\ method # "stats" => KV!Reply(c, KV!Status("error"))
  BY SameResults, ErrorOfType DEF Reply, KV!Reply
<1>6. KV!CallIsLost(c)
  <2>1. CASE method = "stats"
    BY <1>3, <1>4, <1>5, <2>1 DEF KV!CallIsLost, KV!iterVars
  <2>2. CASE method # "stats"
    BY <1>3, <1>4, <1>5, <2>2 DEF KV!CallIsLost, KV!iterVars
  <2>. QED
    BY <2>1, <2>2
<1>. QED
  BY <1>6 DEF KV!DBNext

LEMMA InvokeStep ==
  ASSUME Inv, NEW c \in Client, NEW method, NEW ops, IsCall(c, method, ops),
         Invoke(c, method, ops)
  PROVE  Simulated
<1>1. PICK h : h = Handler("sent", method, ops)
  OBVIOUS
<1>2. IsRequest(h) /\ h \in Handlers
  BY <1>1, SentIsRequest DEF IsRequest
<1>3. UNCHANGED <<serverVars, batch>> /\ call[c] = nil
  BY DEF Invoke, Idle
<1>4. ServerTypes' /\ (batch \in [Client -> Seq(RawOp) \cup {nil}])'
  BY <1>3 DEF Inv, TypeOK, ServerTypes, serverVars
<1>5. CASE /\ call' = [call EXCEPT ![c] = h] /\ Reply(c, Status("none"))
           /\ UNCHANGED <<orphans, lost>>
  <2>1. CallInv(c)'
    <3>1. call'[c] = h /\ batch'[c] = batch[c]
      BY <1>3, <1>5 DEF Inv, TypeOK
    <3>2. h.method = method /\ h.ops = ops
      BY <1>1 DEF Handler
    <3>. QED
      BY <1>2, <3>1, <3>2 DEF IsCall, CallInv
  <2>2. OthersKeep(c)
    BY <1>3, <1>5 DEF Inv, TypeOK, OthersKeep
  <2>3. \A d \in Client : CallInv(d)'
    BY <2>1, <2>2, OthersCallInv DEF Inv
  <2>4. call' \in [Client -> Handlers \cup {nil}]
    BY <1>2, <1>5 DEF Inv, TypeOK
  <2>5. ret' \in [Client -> Results]
    BY <1>5, EmptyArgs, ResultType DEF Inv, TypeOK, Reply
  <2>6. Inv'
    BY <1>4, <1>5, <2>3, <2>4, <2>5 DEF Inv, TypeOK
  <2>7. Same
    BY <1>3, <1>5, SameOrphans DEF Same, serverVars
  <2>. QED
    BY <1>5, <2>6, <2>7, KVReplies DEF Simulated
<1>6. ASSUME UNCHANGED call, Reply(c, ErrorOf(method))
      PROVE  /\ (\A d \in Client : CallInv(d))' /\ (call \in [Client -> Handlers \cup {nil}])'
             /\ ret' \in [Client -> Results]
  BY <1>3, <1>6, ErrorOfType DEF Inv, TypeOK, CallInv, Reply
<1>7. CASE /\ lost < MaxLost /\ orphans' = Append(orphans, h) /\ lost' = lost + 1
           /\ Reply(c, ErrorOf(method)) /\ UNCHANGED call
  <2>1. orphans' \in Seq(Handlers) /\ \A n \in DOMAIN orphans' : IsRequest(orphans'[n])
    <3>1. orphans \in Seq(Handlers)
      BY DEF Inv, TypeOK
    <3>2. /\ Append(orphans, h) \in Seq(Handlers)
          /\ \A n \in DOMAIN Append(orphans, h) :
               \/ n \in DOMAIN orphans /\ Append(orphans, h)[n] = orphans[n]
               \/ Append(orphans, h)[n] = h
      BY <1>2, <3>1, AppendType
    <3>. QED
      BY <1>2, <1>7, <3>2 DEF Inv
  <2>2. lost' \in 0 .. MaxLost
    BY <1>7, RemoteAssumption, SMT DEF Inv, TypeOK
  <2>3. Inv'
    BY <1>4, <1>6, <1>7, <2>1, <2>2 DEF Inv, TypeOK
  <2>4. KV!DBNext
    BY <1>1, <1>3, <1>7, KVCallIsLost DEF serverVars
  <2>. QED
    BY <2>3, <2>4 DEF Simulated
<1>8. CASE Reply(c, ErrorOf(method)) /\ UNCHANGED <<call, orphans, lost>>
  <2>1. Inv'
    BY <1>4, <1>6, <1>8 DEF Inv, TypeOK
  <2>2. Same
    BY <1>3, <1>8, SameOrphans DEF Same, serverVars
  <2>3. PICK st \in {"inspect", "error"} : ErrorOf(method) = Status(st)
    BY ErrorOfType
  <2>4. KV!DBNext
    BY <1>8, <2>2, <2>3, KVReplies
  <2>. QED
    BY <2>1, <2>4 DEF Simulated
<1>. QED
  BY <1>1, <1>5, <1>7, <1>8 DEF Invoke

LEMMA ChangeBatchInv ==
  ASSUME Inv, NEW c \in Client, NEW ops \in Seq(RawOp) \cup {nil}, NEW result \in Results,
         ChangeBatch(c, ops, result)
  PROVE  Inv' /\ UNCHANGED files /\ Doubtful' = Doubtful
<1>1. /\ UNCHANGED <<serverVars, call, orphans, lost>> /\ call[c] = nil
      /\ batch' = [batch EXCEPT ![c] = ops] /\ ret' = [ret EXCEPT ![c] = result]
  BY DEF ChangeBatch, Idle, Reply
<1>2. ServerTypes'
  BY <1>1 DEF Inv, TypeOK, ServerTypes, serverVars
<1>3. batch' \in [Client -> Seq(RawOp) \cup {nil}] /\ ret' \in [Client -> Results]
  BY <1>1 DEF Inv, TypeOK
<1>4. OthersKeep(c) /\ CallInv(c)'
  BY <1>1 DEF Inv, TypeOK, OthersKeep, CallInv
<1>5. \A d \in Client : CallInv(d)'
  BY <1>4, OthersCallInv DEF Inv
<1>6. Inv'
  BY <1>1, <1>2, <1>3, <1>5 DEF Inv, TypeOK
<1>. QED
  BY <1>1, <1>6, SameOrphans DEF serverVars

LEMMA BatchClosedStep ==
  ASSUME Inv, NEW c \in Client, batch[c] = nil, ChangeBatch(c, nil, Status("errBatchClosed"))
  PROVE  Simulated
<1>1. Inv' /\ UNCHANGED files /\ Doubtful' = Doubtful
  BY ChangeBatchInv, EmptyArgs, ResultType
<1>2. batch' = batch
  BY DEF Inv, TypeOK, ChangeBatch
<1>3. KV!BatchIsClosed(c)
  BY <1>1, <1>2, SameResults DEF ChangeBatch, Reply, KV!BatchIsClosed, KV!Reply, KV!iterVars
<1>. QED
  BY <1>1, <1>3 DEF Simulated, KV!DBNext

LEMMA UnimplementedStep ==
  ASSUME Inv, NEW c \in Client, Unimplemented(c)
  PROVE  Simulated
<1>1. ChangeBatch(c, batch[c], Status("error")) /\ batch[c] \in Seq(RawOp) \cup {nil}
  BY DEF Unimplemented, Inv, TypeOK
<1>2. Inv' /\ UNCHANGED files /\ Doubtful' = Doubtful
  BY <1>1, ChangeBatchInv, EmptyArgs, ResultType
<1>3. batch' = batch /\ Reply(c, Status("error"))
  BY <1>1 DEF Inv, TypeOK, ChangeBatch
<1>4. Same
  BY <1>2, <1>3 DEF Same
<1>. QED
  BY <1>2, <1>3, <1>4, KVReplies DEF Simulated

LEMMA NewBatchStep ==
  ASSUME Inv, NEW c \in Client, NewBatch(c) \/ BatchClose(c)
  PROVE  Simulated
<1>0. <<>> \in Seq(RawOp)
  BY SMT
<1>1. <<>> \in Seq(RawOp) /\ Status("new") \in Results /\ Status("close") \in Results
  BY <1>0, EmptyArgs, ResultType
<1>2. Inv' /\ UNCHANGED files /\ Doubtful' = Doubtful
  BY <1>1, ChangeBatchInv DEF NewBatch, BatchClose
<1>3. KV!EditBatch(c)
  BY <1>2, SameResults
     DEF NewBatch, BatchClose, ChangeBatch, Reply, KV!EditBatch, KV!Reply, KV!iterVars
<1>. QED
  BY <1>2, <1>3 DEF Simulated, KV!DBNext

LEMMA AppendOpStep ==
  ASSUME Inv, NEW c \in Client, NEW op \in RawOp, AppendOp(c, op)
  PROVE  Simulated
<1>1. CASE batch[c] = nil /\ ChangeBatch(c, nil, Status("errBatchClosed"))
  BY <1>1, BatchClosedStep
<1>2. CASE /\ batch[c] # nil
           /\ ChangeBatch(c, Append(batch[c], op), Result("append", op.key, op.value))
  <2>1. batch[c] \in Seq(RawOp)
    BY <1>2 DEF Inv, TypeOK
  <2>2. Append(batch[c], op) \in Seq(RawOp)
    BY <2>1, AppendType
  <2>3. op.key \in KeyArg /\ op.value \in ValueArg \cup {nil, Absent}
    BY RemoteAssumption DEF RawOp
  <2>4. Result("append", op.key, op.value) \in Results
    BY <2>3, ResultType
  <2>5. Inv' /\ UNCHANGED files /\ Doubtful' = Doubtful
    BY <1>2, <2>2, <2>4, ChangeBatchInv
  <2>6. KV!EditBatch(c)
    BY <1>2, <2>5, SameResults DEF ChangeBatch, Reply, KV!EditBatch, KV!Reply, KV!iterVars
  <2>. QED
    BY <2>5, <2>6 DEF Simulated, KV!DBNext
<1>. QED
  BY <1>1, <1>2 DEF AppendOp

LEMMA CallStep ==
  ASSUME Inv, NEW c \in Client, Call(c)
  PROVE  Simulated
<1>1. KeysOf(c) \subseteq KeyArg /\ ValuesOf(c) \subseteq ValuesPassed
  BY DEF KeysOf, ValuesOf, KeyArg
<1>2. \A k \in KeysOf(c), v \in ValuesOf(c) \cup {Absent} : [key |-> k, value |-> v] \in RawOp
  BY <1>1 DEF RawOp
<1>3. <<>> \in Seq(RawOp) /\ \A op \in RawOp : <<op>> \in Seq(RawOp) /\ Len(<<op>>) = 1
  BY SMT
<1>4. CASE InitRemote(c) \/ Stats(c)
  <2>1. IsCall(c, "init", <<>>) /\ IsCall(c, "stats", <<>>)
    BY <1>3 DEF IsCall, Methods
  <2>. QED
    BY <1>4, <2>1, InvokeStep DEF InitRemote, Stats
<1>5. ASSUME NEW k \in KeysOf(c), Get(c, k) \/ Has(c, k) \/ Delete(c, k)
      PROVE  Simulated
  <2>1. [key |-> k, value |-> Absent] \in RawOp
    BY <1>2
  <2>2. \A method \in {"get", "has", "delete"} : IsCall(c, method, <<[key |-> k, value |-> Absent]>>)
    BY <1>3, <2>1 DEF IsCall, Methods
  <2>. QED
    BY <1>5, <2>2, InvokeStep DEF Get, Has, Delete
<1>6. ASSUME NEW k \in KeysOf(c), NEW v \in ValuesOf(c), Set(c, k, v)
      PROVE  Simulated
  <2>1. [key |-> k, value |-> v] \in RawOp
    BY <1>2
  <2>2. IsCall(c, "set", <<[key |-> k, value |-> v]>>)
    BY <1>3, <2>1 DEF IsCall, Methods
  <2>. QED
    BY <1>6, <2>2, InvokeStep DEF Set
<1>7. CASE BatchWrite(c)
  <2>1. CASE batch[c] = nil /\ ChangeBatch(c, nil, Status("errBatchClosed"))
    BY <2>1, BatchClosedStep
  <2>2. CASE batch[c] # nil /\ Invoke(c, "batchWrite", batch[c])
    <3>1. IsCall(c, "batchWrite", batch[c])
      BY <2>2 DEF Inv, TypeOK, IsCall, Methods
    <3>. QED
      BY <2>2, <3>1, InvokeStep
  <2>. QED
    BY <1>7, <2>1, <2>2 DEF BatchWrite
<1>8. ASSUME NEW k \in KeysOf(c), BatchDelete(c, k) \/ \E v \in ValuesOf(c) : BatchSet(c, k, v)
      PROVE  Simulated
  BY <1>2, <1>8, AppendOpStep DEF BatchDelete, BatchSet
<1>. QED
  BY <1>4, <1>5, <1>6, <1>7, <1>8, UnimplementedStep, NewBatchStep DEF Call

-----------------------------------------------------------------------------
(* Accepted operations store values only, and none under the empty key. *)
LEMMA AcceptedKeepClean ==
  ASSUME files \in Clean, NEW ops \in Seq(RawOp), AreAccepted(ops)
  PROVE  AfterOps(files, ops) \in Clean
<1>1. ASSUME NEW n \in DOMAIN ops
      PROVE  ops[n].key # EmptyKey /\ ops[n].value \in Value \cup {Absent}
  <2>1. ops[n] \in RawOp
    BY SMT
  <2>2. ~IsRefused(ops[n])
    BY DEF AreAccepted
  <2>. QED
    BY <2>1, <2>2, Accepted, Sentinels
<1>2. files \in [KeyArg -> Value \cup {Absent}] /\ files[EmptyKey] = Absent
  BY DEF Clean, Contents
<1>3. AfterOps(files, ops) \in [KeyArg -> Value \cup {Absent}]
  BY <1>1, <1>2, AfterOpsType
<1>4. AfterOps(files, ops)[EmptyKey] = files[EmptyKey]
  <2>1. EmptyKey \in DOMAIN files
    BY <1>2, EmptyArgs
  <2>. QED
    BY <1>1, <2>1, AfterMisses, SMT
<1>. QED
  BY <1>2, <1>3, <1>4 DEF Clean, Contents

LEMMA SetIsAccepted ==
  ASSUME NEW h, IsRequest(h), NEW o, DidSet(h, o)
  PROVE  h.ops \in Seq(RawOp) /\ AreAccepted(h.ops)
<1>1. PICK k \in Key, v \in Value \cup {Absent} : h.ops = <<[key |-> k, value |-> v]>>
  BY DEF DidSet
<1>2. h.ops \in Seq(RawOp)
  BY DEF IsRequest, Handlers
<1>3. PICK op : op = [key |-> k, value |-> v]
  OBVIOUS
<1>4. op.key = k /\ op.value = v
  BY <1>3
<1>5. DOMAIN <<op>> = {1} /\ <<op>>[1] = op
  BY SMT
<1>6. h.ops = <<op>>
  BY <1>1, <1>3
<1>7. op \in RawOp
  BY <1>2, <1>6, SMT
<1>8. ~IsRefused(op)
  BY <1>4, <1>7, Accepted
<1>. QED
  BY <1>2, <1>5, <1>6, <1>8 DEF AreAccepted

LEMMA HandledType ==
  ASSUME files \in Clean, NEW h, IsRequest(h), h.method # "init",
         NEW o \in Handle(h.method, h.ops)
  PROVE  /\ o.files \in Clean /\ o.result \in Results
         /\ \/ o.files = files
            \/ Writes(h) = h.ops /\ AreAccepted(h.ops) /\ o.files = AfterOps(files, h.ops)
<1>1. CASE DidNothing(o)
  <2>1. ASSUME ValueRefused(o.result)
        PROVE  o.result \in Results
    <3>1. PICK v \in ValuesPassed : o.result = Result("errValueNil", EmptyKey, v)
      BY <2>1 DEF ValueRefused
    <3>2. v \in ValueArg \cup {nil, Absent}
      BY RemoteAssumption
    <3>. QED
      BY <3>1, <3>2, EmptyArgs, ResultType
  <2>. QED
    BY <1>1, <2>1, EmptyArgs, ResultType DEF DidNothing
<1>2. CASE DidLookup(o)
  <2>1. PICK k \in Key :
          /\ o.files = files
          /\ \/ o.result = Result("get", k, IF files[k] = Absent THEN nil ELSE files[k])
             \/ o.result = Result(IF files[k] = Absent THEN "false" ELSE "true", k, nil)
    BY <1>2 DEF DidLookup
  <2>2. k \in KeyArg /\ files[k] \in Value \cup {Absent}
    BY DEF KeyArg, Clean, Contents
  <2>3. \E v \in ValueArg \cup {nil, Absent}, st \in {"get", "true", "false"} : o.result = Result(st, k, v)
    BY <2>1, <2>2 DEF ValueArg
  <2>. QED
    BY <2>1, <2>2, <2>3, ResultType
<1>3. CASE DidSet(h, o)
  <2>1. PICK k \in Key, v \in Value \cup {Absent} :
          /\ h.method \in {"set", "delete"}
          /\ o.files = AfterOps(files, h.ops) /\ o.result = Result("set", k, v)
    BY <1>3 DEF DidSet
  <2>2. k \in KeyArg /\ v \in ValueArg \cup {nil, Absent}
    BY DEF KeyArg, ValueArg
  <2>. QED
    BY <1>3, <2>1, <2>2, SetIsAccepted, AcceptedKeepClean, ResultType DEF Writes
<1>4. CASE DidWrite(h, o)
  <2>1. h.ops \in Seq(RawOp)
    BY DEF IsRequest, Handlers
  <2>2. Status("write") \in Results
    BY EmptyArgs, ResultType
  <2>. QED
    BY <1>4, <2>1, <2>2, AcceptedKeepClean DEF DidWrite, Writes
<1>. QED
  BY <1>1, <1>2, <1>3, <1>4, Handled

-----------------------------------------------------------------------------
(* The steps of a goroutine of the server. *)
Ran(h, o) ==
  \E w \in Handle(h.method, h.ops) :
    /\ h.stage = "running" /\ o.stage = "done"
    /\ o.files = w.files /\ o.db = db /\ o.result = w.result

DidInit(h, o) ==
  \E ok \in BOOLEAN :
    /\ h.stage = "sent" /\ h.method = "init" /\ o.stage = "done"
    /\ o.files = files /\ o.db = ok /\ o.result = Status(IF ok THEN "inspect" ELSE "error")

ReadDB(h, o) ==
  /\ h.stage = "sent" /\ h.method # "init" /\ o.stage = "running"
  /\ o.files = files /\ o.db = db

LEMMA OutcomeCases ==
  ASSUME NEW h, NEW o \in Outcomes(h)
  PROVE  Ran(h, o) \/ DidInit(h, o) \/ ReadDB(h, o)
<1>1. CASE h.stage = "running"
  <2>1. Outcomes(h) = {Outcome("done", w.files, db, w.result) : w \in Handle(h.method, h.ops)}
    BY <1>1, SMT DEF Outcomes
  <2>2. PICK w \in Handle(h.method, h.ops) : o = Outcome("done", w.files, db, w.result)
    BY <2>1
  <2>. QED
    BY <1>1, <2>2 DEF Outcome, Ran
<1>2. CASE h.stage = "sent" /\ h.method = "init"
  <2>1. Outcomes(h) =
          {Outcome("done", files, ok, Status(IF ok THEN "inspect" ELSE "error")) : ok \in NewDB}
    BY <1>2, SMT DEF Outcomes
  <2>2. PICK ok \in NewDB :
          o = Outcome("done", files, ok, Status(IF ok THEN "inspect" ELSE "error"))
    BY <2>1
  <2>3. ok \in BOOLEAN
    BY DEF NewDB
  <2>. QED
    BY <1>2, <2>2, <2>3 DEF Outcome, DidInit
<1>3. CASE h.stage = "sent" /\ h.method # "init" /\ db
  <2>1. Outcomes(h) = {Outcome("running", files, db, nil)}
    BY <1>3, SMT DEF Outcomes
  <2>2. o = Outcome("running", files, db, nil)
    BY <2>1
  <2>. QED
    BY <1>3, <2>2 DEF Outcome, ReadDB
<1>4. CASE /\ h.stage # "running" /\ ~(h.stage = "sent" /\ h.method = "init")
           /\ ~(h.stage = "sent" /\ h.method # "init" /\ db)
  <2>1. Outcomes(h) = {}
    BY <1>4, SMT DEF Outcomes
  <2>. QED
    BY <2>1
<1>. QED
  BY <1>1, <1>2, <1>3, <1>4

LEMMA EffectType ==
  ASSUME Inv, NEW o, Effect(o), o.files \in Clean, o.db \in BOOLEAN
  PROVE  ServerTypes'
BY DEF Inv, TypeOK, ServerTypes, Effect, Clean

LEMMA FilesAreClean ==
  ASSUME Inv
  PROVE  files \in Clean
BY DEF Inv, TypeOK, ServerTypes, Clean

LEMMA ReturnInv ==
  ASSUME Inv, NEW c \in Client, NEW result \in Results, Return(c, result),
         UNCHANGED <<orphans, lost>>, ServerTypes'
  PROVE  Inv' /\ Doubtful' = Doubtful
<1>1. /\ call' = [call EXCEPT ![c] = nil] /\ ret' = [ret EXCEPT ![c] = result]
      /\ batch' = [batch EXCEPT ![c] = BatchAfter(c, result)]
  BY DEF Return, Reply
<1>2. BatchAfter(c, result) \in Seq(RawOp) \cup {nil}
  BY DEF BatchAfter, Inv, TypeOK
<1>3. /\ batch' \in [Client -> Seq(RawOp) \cup {nil}] /\ call' \in [Client -> Handlers \cup {nil}]
      /\ ret' \in [Client -> Results]
  BY <1>1, <1>2 DEF Inv, TypeOK
<1>4. OthersKeep(c) /\ CallInv(c)'
  BY <1>1 DEF Inv, TypeOK, OthersKeep, CallInv
<1>5. \A d \in Client : CallInv(d)'
  BY <1>4, OthersCallInv DEF Inv
<1>6. Inv'
  BY <1>3, <1>5 DEF Inv, TypeOK
<1>. QED
  BY <1>6, SameOrphans

LEMMA BatchIsKept ==
  ASSUME Inv, NEW c \in Client, NEW st, st # "write", Return(c, Status(st))
  PROVE  batch' = batch
<1>1. BatchAfter(c, Status(st)) = batch[c]
  BY DistinctStatus DEF BatchAfter
<1>. QED
  BY <1>1 DEF Return, Inv, TypeOK

LEMMA DisconnectedStep ==
  ASSUME Inv, NEW c \in Client, Disconnected(c)
  PROVE  Simulated
<1>1. PICK result : result = ErrorOf(call[c].method)
  OBVIOUS
<1>2. PICK st \in {"inspect", "error"} : result = Status(st)
  BY <1>1, ErrorOfType
<1>3. result \in Results
  BY <1>1, ErrorOfType
<1>4. Return(c, result) /\ UNCHANGED <<serverVars, orphans, lost>>
  BY <1>1 DEF Disconnected
<1>5. ServerTypes'
  BY <1>4 DEF Inv, TypeOK, ServerTypes, serverVars
<1>6. Inv' /\ Doubtful' = Doubtful
  BY <1>3, <1>4, <1>5, ReturnInv
<1>7. batch' = batch
  BY <1>2, <1>4, BatchIsKept
<1>8. Same /\ Reply(c, Status(st))
  BY <1>2, <1>4, <1>6, <1>7 DEF Same, serverVars, Return
<1>. QED
  BY <1>6, <1>8, KVReplies DEF Simulated

LEMMA ServeStep ==
  ASSUME Inv, NEW c \in Client, Serve(c)
  PROVE  Simulated
<1>1. PICK h : h = call[c]
  OBVIOUS
<1>2. h # nil /\ CallInv(c)
  BY <1>1 DEF Serve, Idle, Inv
<1>3. IsRequest(h) /\ (h.method = "batchWrite" => batch[c] # nil /\ batch[c] = h.ops)
  BY <1>1, <1>2 DEF CallInv
<1>4. UNCHANGED <<orphans, lost>>
  BY DEF Serve
<1>5. PICK o \in Outcomes(h) :
        /\ Effect(o)
        /\ \/ o.stage = "done" /\ Return(c, o.result)
           \/ /\ o.stage = "running"
              /\ call' = [call EXCEPT ![c].stage = "running"]
              /\ UNCHANGED <<batch, ret>>
  BY <1>1 DEF Serve
<1>6. files' = o.files /\ db \in BOOLEAN
  BY <1>5 DEF Effect, Inv, TypeOK, ServerTypes
<1>7. files \in Clean
  BY FilesAreClean
<1>8. CASE Ran(h, o)
  <2>1. PICK w \in Handle(h.method, h.ops) :
          /\ h.stage = "running" /\ o.stage = "done"
          /\ o.files = w.files /\ o.db = db /\ o.result = w.result
    BY <1>8 DEF Ran
  <2>2. h.method # "init"
    BY <1>3, <2>1 DEF IsRequest
  <2>3. w.files \in Clean /\ w.result \in Results
    BY <1>3, <1>7, <2>2, HandledType
  <2>4. Return(c, w.result)
    BY <1>5, <2>1
  <2>5. ServerTypes'
    BY <1>5, <1>6, <2>1, <2>3, EffectType
  <2>6. Inv' /\ Doubtful' = Doubtful
    BY <1>4, <2>3, <2>4, <2>5, ReturnInv
  <2>7. /\ files' = w.files /\ Reply(c, w.result)
        /\ batch' = [batch EXCEPT ![c] = BatchAfter(c, w.result)]
    BY <1>6, <2>1, <2>4 DEF Return
  <2>8. batch \in [Client -> Seq(RawOp) \cup {nil}]
    BY DEF Inv, TypeOK
  <2>9. NoEmptyValues => KV!DBNext
    BY <1>3, <1>7, <2>2, <2>6, <2>7, <2>8, AnswerIsAStep
  <2>. QED
    BY <2>6, <2>9 DEF Simulated
<1>9. CASE DidInit(h, o)
  <2>1. PICK ok \in BOOLEAN :
          /\ o.stage = "done" /\ o.files = files /\ o.db = ok
          /\ o.result = Status(IF ok THEN "inspect" ELSE "error")
    BY <1>9 DEF DidInit
  <2>2. PICK st \in {"inspect", "error"} : o.result = Status(st)
    BY <2>1
  <2>3. Return(c, Status(st)) /\ Status(st) \in Results
    BY <1>5, <2>1, <2>2, EmptyArgs, ResultType
  <2>4. ServerTypes'
    BY <1>5, <1>7, <2>1, EffectType
  <2>5. Inv' /\ Doubtful' = Doubtful
    BY <1>4, <2>3, <2>4, ReturnInv
  <2>6. batch' = batch
    BY <2>2, <2>3, BatchIsKept
  <2>7. Same /\ Reply(c, Status(st))
    BY <1>6, <2>1, <2>3, <2>5, <2>6 DEF Same, Return
  <2>. QED
    BY <2>5, <2>7, KVReplies DEF Simulated
<1>10. CASE ReadDB(h, o)
  <2>1. /\ h.method # "init" /\ o.stage = "running" /\ o.files = files /\ o.db = db
        /\ call' = [call EXCEPT ![c].stage = "running"] /\ UNCHANGED <<batch, ret>>
    BY <1>5, <1>10 DEF ReadDB
  <2>2. PICK g : g = [h EXCEPT !.stage = "running"]
    OBVIOUS
  <2>3. call' = [call EXCEPT ![c] = g]
    BY <1>1, <2>1, <2>2 DEF Inv, TypeOK
  <2>4. g.stage = "running" /\ g.method = h.method /\ g.ops = h.ops /\ g \in Handlers
    BY <1>3, <2>2 DEF IsRequest, Handlers
  <2>5. IsRequest(g)
    BY <1>3, <2>1, <2>4 DEF IsRequest
  <2>6. OthersKeep(c) /\ CallInv(c)' /\ call' \in [Client -> Handlers \cup {nil}]
    BY <1>3, <2>1, <2>3, <2>4, <2>5 DEF Inv, TypeOK, OthersKeep, CallInv
  <2>7. \A d \in Client : CallInv(d)'
    BY <2>6, OthersCallInv DEF Inv
  <2>8. ServerTypes'
    BY <1>5, <1>6, <1>7, <2>1, EffectType
  <2>9. Inv'
    BY <1>4, <2>1, <2>6, <2>7, <2>8 DEF Inv, TypeOK
  <2>10. UNCHANGED KV!dbVars
    BY <1>4, <1>6, <2>1, SameOrphans DEF KV!dbVars, KV!iterVars
  <2>. QED
    BY <2>9, <2>10 DEF Simulated
<1>. QED
  BY <1>5, <1>8, <1>9, <1>10, OutcomeCases

-----------------------------------------------------------------------------
(* Requests that nobody waits for. *)

Without(s, n) == SubSeq(s, 1, n - 1) \o SubSeq(s, n + 1, Len(s))

LEMMA WithoutType ==
  ASSUME NEW S, NEW s \in Seq(S), NEW n \in 1 .. Len(s)
  PROVE  /\ Without(s, n) \in Seq(S) /\ Len(Without(s, n)) = Len(s) - 1
         /\ \A m \in 1 .. (Len(s) - 1) : Without(s, n)[m] = s[IF m < n THEN m ELSE m + 1]
<1>1. PICK a : a = SubSeq(s, 1, n - 1)
  OBVIOUS
<1>2. a \in Seq(S) /\ Len(a) = n - 1 /\ \A m \in 1 .. (n - 1) : a[m] = s[m]
  BY <1>1, SMT
<1>3. PICK b : b = SubSeq(s, n + 1, Len(s))
  OBVIOUS
<1>4. b \in Seq(S) /\ Len(b) = Len(s) - n /\ \A m \in 1 .. (Len(s) - n) : b[m] = s[m + n]
  BY <1>3, SMT
<1>5. PICK r : r = a \o b
  OBVIOUS
<1>6. r \in Seq(S) /\ Len(r) = Len(s) - 1
  BY <1>2, <1>4, <1>5, SMT
<1>7. \A m \in 1 .. (Len(s) - 1) : r[m] = IF m < n THEN a[m] ELSE b[m - (n - 1)]
  BY <1>2, <1>4, <1>5, SMT
<1>8. ASSUME NEW m \in 1 .. (Len(s) - 1)
      PROVE  r[m] = s[IF m < n THEN m ELSE m + 1]
  <2>1. CASE m < n
    <3>1. m \in 1 .. (n - 1)
      BY <2>1, SMT
    <3>. QED
      BY <1>2, <1>7, <2>1, <3>1
  <2>2. CASE ~(m < n)
    <3>1. m - (n - 1) \in 1 .. (Len(s) - n) /\ m - (n - 1) + n = m + 1
      BY <2>2, SMT
    <3>. QED
      BY <1>4, <1>7, <2>2, <3>1
  <2>. QED
    BY <2>1, <2>2
<1>. QED
  BY <1>1, <1>3, <1>5, <1>6, <1>8 DEF Without

LEMMA DoubtfulType ==
  ASSUME Inv
  PROVE  /\ Doubtful \in Seq(Seq(RawOp)) /\ Len(Doubtful) = Len(orphans)
         /\ DOMAIN Doubtful = DOMAIN orphans
         /\ \A n \in DOMAIN orphans : Doubtful[n] = Writes(orphans[n])
<1>1. orphans \in Seq(Handlers)
  BY DEF Inv, TypeOK
<1>2. Len(orphans) \in Nat /\ DOMAIN orphans = 1 .. Len(orphans)
  BY <1>1, SMT
<1>3. <<>> \in Seq(RawOp)
  BY SMT
<1>4. \A n \in DOMAIN orphans : Writes(orphans[n]) \in Seq(RawOp)
  BY <1>3 DEF Inv, IsRequest, Handlers, Writes
<1>5. PICK D : D = Doubtful
  OBVIOUS
<1>6. D \in [1 .. Len(orphans) -> Seq(RawOp)]
  BY <1>2, <1>4, <1>5 DEF Doubtful
<1>7. D \in Seq(Seq(RawOp)) /\ Len(D) = Len(orphans)
  BY <1>2, <1>6, SMT
<1>. QED
  BY <1>5, <1>7 DEF Doubtful

LEMMA DoubtfulWithout ==
  ASSUME Inv, NEW n \in DOMAIN orphans, orphans' = Without(orphans, n)
  PROVE  /\ Doubtful' = Without(Doubtful, n)
         /\ orphans' \in Seq(Handlers) /\ \A m \in DOMAIN orphans' : IsRequest(orphans'[m])
<1>1. orphans \in Seq(Handlers)
  BY DEF Inv, TypeOK
<1>2. Len(orphans) \in Nat /\ DOMAIN orphans = 1 .. Len(orphans)
  BY <1>1, SMT
<1>3. PICK D, w, l : D = Doubtful /\ w = orphans' /\ l = Len(orphans)
  OBVIOUS
<1>4. /\ D \in Seq(Seq(RawOp)) /\ Len(D) = l
      /\ \A m \in 1 .. l : D[m] = Writes(orphans[m])
  BY <1>2, <1>3, DoubtfulType
<1>5. /\ w \in Seq(Handlers) /\ Len(w) = l - 1
      /\ \A m \in 1 .. (l - 1) : w[m] = orphans[IF m < n THEN m ELSE m + 1]
  BY <1>1, <1>2, <1>3, WithoutType
<1>6. /\ Without(D, n) \in Seq(Seq(RawOp)) /\ Len(Without(D, n)) = l - 1
      /\ \A m \in 1 .. (l - 1) : Without(D, n)[m] = D[IF m < n THEN m ELSE m + 1]
  <2>1. n \in 1 .. Len(D)
    BY <1>2, <1>3, <1>4
  <2>2. /\ Without(D, n) \in Seq(Seq(RawOp)) /\ Len(Without(D, n)) = Len(D) - 1
        /\ \A m \in 1 .. (Len(D) - 1) : Without(D, n)[m] = D[IF m < n THEN m ELSE m + 1]
    BY <1>4, <2>1, WithoutType
  <2>. QED
    BY <1>4, <2>2
<1>7. \A m \in 1 .. (l - 1) : (IF m < n THEN m ELSE m + 1) \in 1 .. l
  BY <1>2, <1>3, SMT
<1>8. DOMAIN w = 1 .. (l - 1)
  BY <1>2, <1>3, <1>5, SMT
<1>9. Doubtful' = [m \in 1 .. (l - 1) |-> Writes(w[m])]
  BY <1>3, <1>8 DEF Doubtful
<1>10. \A m \in 1 .. (l - 1) : Without(D, n)[m] = Writes(w[m])
  BY <1>4, <1>5, <1>6, <1>7
<1>11. Without(D, n) = [m \in 1 .. (l - 1) |-> Without(D, n)[m]]
  BY <1>2, <1>3, <1>6, SMT
<1>12. \A m \in DOMAIN w : IsRequest(w[m])
  BY <1>2, <1>3, <1>5, <1>7, <1>8 DEF Inv
<1>. QED
  BY <1>3, <1>5, <1>9, <1>10, <1>11, <1>12

LEMMA ServeOrphanStep ==
  ASSUME Inv, NEW n \in DOMAIN orphans, ServeOrphan(n)
  PROVE  Simulated
<1>1. PICK h : h = orphans[n]
  OBVIOUS
<1>2. IsRequest(h)
  BY <1>1 DEF Inv
<1>3. UNCHANGED <<batch, call, lost, ret>>
  BY DEF ServeOrphan
<1>4. PICK o \in Outcomes(h) :
        /\ Effect(o)
        /\ orphans' = IF o.stage = "done" THEN Without(orphans, n)
                      ELSE [orphans EXCEPT ![n].stage = o.stage]
  BY <1>1 DEF ServeOrphan, Without
<1>5. files' = o.files /\ db \in BOOLEAN
  BY <1>4 DEF Effect, Inv, TypeOK, ServerTypes
<1>6. files \in Clean
  BY FilesAreClean
<1>7. \A c \in Client : CallInv(c)'
  BY <1>3 DEF Inv, CallInv
<1>8. ASSUME o.stage = "done", o.db \in BOOLEAN, o.files \in Clean,
             \/ o.files = files
             \/ Writes(h) = h.ops /\ AreAccepted(h.ops) /\ o.files = AfterOps(files, h.ops)
      PROVE  Simulated
  <2>1. orphans' = Without(orphans, n)
    BY <1>4, <1>8
  <2>2. /\ Doubtful' = Without(Doubtful, n)
        /\ orphans' \in Seq(Handlers) /\ \A m \in DOMAIN orphans' : IsRequest(orphans'[m])
    BY <2>1, DoubtfulWithout
  <2>3. ServerTypes'
    BY <1>4, <1>8, EffectType
  <2>4. Inv'
    BY <1>3, <1>7, <2>2, <2>3 DEF Inv, TypeOK
  <2>5. n \in DOMAIN Doubtful /\ Doubtful[n] = Writes(h)
    BY <1>1, DoubtfulType
  <2>6. h.ops \in Seq(RawOp)
    BY <1>2 DEF IsRequest, Handlers
  <2>7. files' \in {files} \cup
          IF KV!AreValid(Doubtful[n]) THEN {KV!AfterOps(files, Doubtful[n])} ELSE {}
    BY <1>5, <1>8, <2>5, <2>6, AcceptedAreValid, KVAfterOps
  <2>8. KV!LateEffect
    BY <1>3, <2>2, <2>5, <2>7 DEF KV!LateEffect, KV!iterVars, Without
  <2>. QED
    BY <2>4, <2>8 DEF Simulated, KV!DBNext
<1>9. CASE Ran(h, o)
  <2>1. PICK w \in Handle(h.method, h.ops) :
          /\ h.stage = "running" /\ o.stage = "done"
          /\ o.files = w.files /\ o.db = db /\ o.result = w.result
    BY <1>9 DEF Ran
  <2>2. h.method # "init"
    BY <1>2, <2>1 DEF IsRequest
  <2>3. /\ w.files \in Clean
        /\ \/ w.files = files
           \/ Writes(h) = h.ops /\ AreAccepted(h.ops) /\ w.files = AfterOps(files, h.ops)
    BY <1>2, <1>6, <2>2, HandledType
  <2>. QED
    BY <1>5, <1>8, <2>1, <2>3
<1>10. CASE DidInit(h, o)
  BY <1>6, <1>8, <1>10 DEF DidInit
<1>11. CASE ReadDB(h, o)
  <2>1. /\ h.method # "init" /\ o.files = files /\ o.db = db
        /\ orphans' = [orphans EXCEPT ![n].stage = "running"]
    BY <1>4, <1>11 DEF ReadDB
  <2>2. PICK g : g = [h EXCEPT !.stage = "running"]
    OBVIOUS
  <2>3. orphans' = [orphans EXCEPT ![n] = g]
    BY <1>1, <2>1, <2>2
  <2>4. g.stage = "running" /\ g.method = h.method /\ g.ops = h.ops /\ g \in Handlers
    BY <1>2, <2>2 DEF IsRequest, Handlers
  <2>5. IsRequest(g)
    BY <1>2, <2>1, <2>4 DEF IsRequest
  <2>6. orphans \in Seq(Handlers)
    BY DEF Inv, TypeOK
  <2>7. orphans' \in Seq(Handlers) /\ DOMAIN orphans' = DOMAIN orphans
    BY <2>3, <2>4, <2>6, SMT
  <2>8. \A m \in DOMAIN orphans' : IsRequest(orphans'[m]) /\ Writes(orphans'[m]) = Writes(orphans[m])
    BY <1>1, <2>3, <2>4, <2>5, <2>7 DEF Inv, Writes
  <2>9. Doubtful' = Doubtful
    BY <2>7, <2>8 DEF Doubtful
  <2>10. ServerTypes'
    BY <1>4, <1>5, <1>6, <2>1, EffectType
  <2>11. Inv'
    BY <1>3, <1>7, <2>7, <2>8, <2>10 DEF Inv, TypeOK
  <2>12. UNCHANGED KV!dbVars
    BY <1>3, <1>5, <2>1, <2>9 DEF KV!dbVars, KV!iterVars
  <2>. QED
    BY <2>11, <2>12 DEF Simulated
<1>. QED
  BY <1>9, <1>10, <1>11, OutcomeCases

-----------------------------------------------------------------------------
(* The process of the server ends, or is started again. *)

LEMMA PanicStep ==
  ASSUME Inv, Panic
  PROVE  Simulated
<1>1. /\ UNCHANGED <<files, restarts, batch, lost, ret>>
      /\ up' = FALSE /\ db' = FALSE /\ isOpen' = FALSE /\ orphans' = <<>>
      /\ call' = [c \in Client |->
                    IF call[c] = nil THEN nil ELSE [call[c] EXCEPT !.stage = "lost"]]
  BY DEF Panic, Die, Idle
<1>2. ServerTypes'
  BY <1>1 DEF Inv, TypeOK, ServerTypes
<1>3. ASSUME NEW c \in Client
      PROVE  CallInv(c)' /\ call'[c] \in Handlers \cup {nil}
  <2>1. CASE call[c] = nil
    BY <1>1, <2>1 DEF CallInv
  <2>2. CASE call[c] # nil
    <3>1. PICK h : h = call[c]
      OBVIOUS
    <3>2. CallInv(c)
      BY DEF Inv
    <3>3. IsRequest(h) /\ (h.method = "batchWrite" => batch[c] # nil /\ batch[c] = h.ops)
      BY <2>2, <3>1, <3>2 DEF CallInv
    <3>4. PICK g : g = [h EXCEPT !.stage = "lost"]
      OBVIOUS
    <3>5. call'[c] = g
      BY <1>1, <2>2, <3>1, <3>4
    <3>6. g.stage = "lost" /\ g.method = h.method /\ g.ops = h.ops /\ g \in Handlers
      BY <3>3, <3>4 DEF IsRequest, Handlers
    <3>7. IsRequest(g)
      BY <3>3, <3>6 DEF IsRequest
    <3>. QED
      BY <1>1, <3>3, <3>5, <3>6, <3>7 DEF CallInv
  <2>. QED
    BY <2>1, <2>2
<1>4. call' \in [Client -> Handlers \cup {nil}]
  BY <1>1, <1>3
<1>5. orphans' \in Seq(Handlers) /\ DOMAIN orphans' = {}
  BY <1>1, SMT
<1>6. Inv'
  BY <1>1, <1>2, <1>3, <1>4, <1>5 DEF Inv, TypeOK
<1>7. Doubtful' = <<>>
  BY <1>1, SMT DEF Doubtful
<1>8. KV!Forget
  BY <1>1, <1>7 DEF KV!Forget, KV!iterVars
<1>. QED
  BY <1>6, <1>8 DEF Simulated, KV!DBNext

LEMMA RestartStep ==
  ASSUME Inv, Restart
  PROVE  Simulated
<1>1. /\ UNCHANGED <<files, isOpen, db, batch, call, orphans, lost, ret>>
      /\ up' = TRUE /\ restarts < MaxRestarts /\ restarts' = restarts + 1
  BY DEF Restart, ListenAndServe
<1>2. restarts' \in 0 .. MaxRestarts
  BY <1>1, ServerAssumption, SMT DEF Inv, TypeOK, ServerTypes
<1>3. ServerTypes'
  BY <1>1, <1>2 DEF Inv, TypeOK, ServerTypes
<1>4. Inv'
  BY <1>1, <1>3 DEF Inv, TypeOK, CallInv
<1>5. UNCHANGED KV!dbVars
  BY <1>1, SameOrphans DEF KV!dbVars, KV!iterVars
<1>. QED
  BY <1>4, <1>5 DEF Simulated

LEMMA StutterStep ==
  ASSUME Inv, UNCHANGED vars
  PROVE  Simulated
<1>1. /\ UNCHANGED <<files, isOpen, db, up, restarts>>
      /\ UNCHANGED <<batch, call, orphans, lost, ret>>
  BY DEF vars, serverVars
<1>2. Inv'
  BY <1>1 DEF Inv, TypeOK, ServerTypes, CallInv
<1>3. UNCHANGED KV!dbVars
  BY <1>1, SameOrphans DEF KV!dbVars, KV!iterVars
<1>. QED
  BY <1>2, <1>3 DEF Simulated

LEMMA NextStep ==
  ASSUME Inv, [Next]_vars
  PROVE  Simulated
BY PanicStep, RestartStep, CallStep, ServeStep, DisconnectedStep, ServeOrphanStep, StutterStep
   DEF Next

(* The inductive invariant holds in every state. *)
THEOREM Invariant == Spec => []Inv
<1>1. Init => Inv
  BY InitImplements
<1>2. Inv /\ [Next]_vars => Inv'
  BY NextStep DEF Simulated
<1>. QED
  BY <1>1, <1>2, PTL DEF Spec

(* Types, for any number of clients, keys, calls that are cut off and        *)
(* restarts: what a batch accepts unchecked, an empty key or a nil value,    *)
(* never gets into the files, also when the batch is written by a request    *)
(* whose client has long got an error.                                       *)
THEOREM TypeCorrect == Spec => []TypeOK
<1>1. Inv => TypeOK
  BY DEF Inv
<1>. QED
  BY <1>1, Invariant, PTL

(* For clients that pass no empty value the remote database implements       *)
(* KVStore, however its goroutines, calls that are cut off, panics and       *)
(* restarts are interleaved.                                                 *)
THEOREM Implements ==
  ASSUME NoEmptyValues
  PROVE  Spec => ImplementsKVStore
<1>1. Init => KV!DBInit
  BY InitImplements
<1>2. Inv /\ [Next]_vars => [KV!DBNext]_KV!dbVars
  BY NextStep DEF Simulated
<1>. QED
  BY <1>1, <1>2, Invariant, PTL DEF Spec, ImplementsKVStore, KV!DBSpec
=============================================================================
