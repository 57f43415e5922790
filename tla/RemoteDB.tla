------------------------------ MODULE RemoteDB ------------------------------
(***************************************************************************)
(* The remote client's calls and batches (remotedb.go, batch.go) and the   *)
(* handlers that serve them (grpcdb/server.go).                            *)
(*                                                                         *)
(* A call is a request, which a goroutine of the server handles: it reads  *)
(* s.db, and then calls the database.  When the connection breaks the call *)
(* returns an error, but a goroutine of the server may still handle the    *)
(* request, then or later; such a request is an orphan.                    *)
(*                                                                         *)
(* Whether a call will be cut off is decided when it is made.  Nobody else *)
(* can tell when a call returns, so the error of one that is cut off comes *)
(* at once, and the answer of another when its handler ends.  So a call    *)
(* that takes effect just before the server dies is an orphan as well.     *)
(***************************************************************************)
EXTENDS RemoteServer, FiniteSetsExt

CONSTANTS
  Client,
  Calls,          \* bound: per client, the groups of calls it makes, see Call, and
                  \* "lossy" if they may be cut off
  ValuesPassed,   \* the values that clients pass to Set
  MaxBatch,       \* bound: operations in one batch
  MaxLost         \* bound: calls that are cut off

ASSUME RemoteAssumption ==
  ValuesPassed \subseteq ValueArg /\ MaxBatch \in Nat /\ MaxLost \in Nat

VARIABLES
  batch,          \* per client: ops of its batch, nil when closed
  call,           \* per client: its running call, or nil
  orphans,        \* requests that are or may be handled, whose clients got an error
  lost,           \* number of calls cut off so far
  ret             \* per client: the result of its last call, none while one is running

vars == <<serverVars, batch, call, orphans, lost, ret>>

RawOp == [key: KeyArg, value: ValuesPassed \cup {Absent}]     \* Absent: a delete
Methods == {"init", "get", "has", "stats", "set", "delete", "batchWrite"}

Result(s, k, v) == [status |-> s, key |-> k, value |-> v]
Status(s) == Result(s, EmptyKey, nil)

(* A call or an orphan: where it is, and its request. *)
Handler(stage, method, ops) ==
  [stage |-> stage, method |-> method, ops |-> ops]

Init ==
  /\ ServerInit
  /\ batch = [c \in Client |-> nil]
  /\ call = [c \in Client |-> nil]
  /\ orphans = <<>> /\ lost = 0
  /\ ret = [c \in Client |-> Status("none")]

-----------------------------------------------------------------------------
(* The client. *)

Idle(c) == call[c] = nil
Reply(c, result) == ret' = [ret EXCEPT ![c] = result]

(* Stats hides an error. *)
ErrorOf(method) == Status(IF method = "stats" THEN "inspect" ELSE "error")

Invoke(c, method, ops) ==
  LET h == Handler("sent", method, ops) IN
  /\ Idle(c)
  /\ \/ /\ up
        /\ call' = [call EXCEPT ![c] = h]
        /\ Reply(c, Status("none"))
        /\ UNCHANGED <<orphans, lost>>
     \/ /\ up /\ lost < MaxLost /\ "lossy" \in Calls[c]
        /\ orphans' = Append(orphans, h) /\ lost' = lost + 1
        /\ Reply(c, ErrorOf(method))
        /\ UNCHANGED call
     \/ ~up /\ Reply(c, ErrorOf(method)) /\ UNCHANGED <<call, orphans, lost>>
  /\ UNCHANGED <<serverVars, batch>>

InitRemote(c) == Invoke(c, "init", <<>>)
Get(c, k) == Invoke(c, "get", <<[key |-> k, value |-> Absent]>>)
Has(c, k) == Invoke(c, "has", <<[key |-> k, value |-> Absent]>>)
Stats(c) == Invoke(c, "stats", <<>>)
Set(c, k, v) == Invoke(c, "set", <<[key |-> k, value |-> v]>>)
Delete(c, k) == Invoke(c, "delete", <<[key |-> k, value |-> Absent]>>)

(* A call that the client answers itself. *)
ChangeBatch(c, ops, result) ==
  /\ Idle(c)
  /\ batch' = [batch EXCEPT ![c] = ops]
  /\ Reply(c, result)
  /\ UNCHANGED <<serverVars, call, orphans, lost>>

(* Print. *)
Unimplemented(c) == ChangeBatch(c, batch[c], Status("error"))

NewBatch(c) == ChangeBatch(c, <<>>, Status("new"))
BatchClose(c) == ChangeBatch(c, nil, Status("close"))

(* Set and Delete of a batch do not look at their arguments. *)
AppendOp(c, op) ==
  \/ batch[c] = nil /\ ChangeBatch(c, nil, Status("errBatchClosed"))
  \/ /\ batch[c] # nil
     /\ Len(batch[c]) < MaxBatch
     /\ ChangeBatch(c, Append(batch[c], op), Result("append", op.key, op.value))

BatchSet(c, k, v) == AppendOp(c, [key |-> k, value |-> v])
BatchDelete(c, k) == AppendOp(c, [key |-> k, value |-> Absent])

BatchWrite(c) ==
  \/ batch[c] = nil /\ ChangeBatch(c, nil, Status("errBatchClosed"))
  \/ batch[c] # nil /\ Invoke(c, "batchWrite", batch[c])

BatchAfterAlways(c, result) ==            \* mutant: closed also when Write fails
  IF call[c].method = "batchWrite" THEN nil ELSE batch[c]

(* A batch is closed only if its Write has succeeded. *)
BatchAfter(c, result) == IF result = Status("write") THEN nil ELSE batch[c]

(* The answer arrives. *)
Return(c, result) ==
  /\ call' = [call EXCEPT ![c] = nil]
  /\ Reply(c, result)
  /\ batch' = [batch EXCEPT ![c] = BatchAfter(c, result)]

(* The server has died. *)
Disconnected(c) ==
  /\ ~Idle(c) /\ call[c].stage = "lost"
  /\ Return(c, ErrorOf(call[c].method))
  /\ UNCHANGED <<serverVars, orphans, lost>>

-----------------------------------------------------------------------------
(* The handlers: what each may do, as pairs of files and result. *)

Does(content, result) == [files |-> content, result |-> result]
Fails == IF Fallible THEN {Does(files, Status("error"))} ELSE {}

IsRefusedByKey(op) == Wire(op.key) = nil      \* mutant: the value is not looked at

IsRefused(op) == Wire(op.key) = nil \/ Wire(op.value) = nil
Refusal(op) ==
  Does(files, IF Wire(op.key) = nil THEN Result("errKeyEmpty", op.key, nil)
              ELSE Result("errValueNil", EmptyKey, op.value))

serverGet(op) ==
  IF IsRefused(op) THEN {Refusal(op)}
  ELSE LET v == files[op.key]
       IN  {Does(files, Result("get", op.key, IF v = Absent THEN nil ELSE Wire(v)))} \cup Fails

serverHas(op) ==
  IF IsRefused(op) THEN {Refusal(op)}
  ELSE LET found == IF files[op.key] = Absent THEN "false" ELSE "true"
       IN  {Does(files, Result(found, op.key, nil))} \cup Fails

serverStats == {Does(files, Status("inspect"))}

(* Set, SetSync, Delete and DeleteSync. *)
serverSet(op) ==
  IF IsRefused(op) THEN {Refusal(op)}
  ELSE {Does(AfterOps(files, <<op>>), Result("set", op.key, op.value))} \cup Fails

(* The database's own batch is filled, up to the first operation that it     *)
(* refuses, and written.                                                     *)
batchWrite(ops) ==
  LET refused == {n \in DOMAIN ops : IsRefused(ops[n])}
  IN  IF refused # {} THEN {Refusal(ops[Min(refused)])}
      ELSE {Does(AfterOps(files, ops), Status("write"))} \cup Fails

Handle(method, ops) ==
  CASE method = "get" -> serverGet(ops[1])
    [] method = "has" -> serverHas(ops[1])
    [] method = "stats" -> serverStats
    [] method \in {"set", "delete"} -> serverSet(ops[1])
    [] method = "batchWrite" -> batchWrite(ops)

(***************************************************************************)
(* A step of the goroutine that handles h: Init as a whole, as it holds    *)
(* the mutex; the read of s.db, which takes no mutex; or the call of the   *)
(* database that was read.                                                 *)
(***************************************************************************)
Outcome(stage, content, isSet, result) ==
  [stage |-> stage, files |-> content, db |-> isSet, result |-> result]

Outcomes(h) ==
  CASE h.stage = "running" ->
         {Outcome("done", o.files, db, o.result) : o \in Handle(h.method, h.ops)}
    [] h.stage = "sent" /\ h.method = "init" ->
         {Outcome("done", files, ok, Status(IF ok THEN "inspect" ELSE "error")) : ok \in NewDB}
    [] h.stage = "sent" /\ h.method # "init" /\ db ->
         {Outcome("running", files, db, nil)}
    [] OTHER -> {}

Effect(o) ==
  /\ files' = o.files
  /\ db' = o.db
  /\ isOpen' = (isOpen \/ o.db)
  /\ UNCHANGED <<up, restarts>>

Serve(c) ==
  /\ ~Idle(c)
  /\ \E o \in Outcomes(call[c]) :
       /\ Effect(o)
       /\ \/ o.stage = "done" /\ Return(c, o.result)
          \/ /\ o.stage = "running"
             /\ call' = [call EXCEPT ![c].stage = "running"]
             /\ UNCHANGED <<batch, ret>>
  /\ UNCHANGED <<orphans, lost>>

ServeOrphan(n) ==
  /\ \E o \in Outcomes(orphans[n]) :
       /\ Effect(o)
       /\ orphans' = IF o.stage = "done"
                     THEN SubSeq(orphans, 1, n - 1) \o SubSeq(orphans, n + 1, Len(orphans))
                     ELSE [orphans EXCEPT ![n].stage = o.stage]
  /\ UNCHANGED <<batch, call, lost, ret>>

(* A goroutine finds s.db nil. *)
Panic ==
  /\ ~db
  /\ \E h \in ({call[c] : c \in Client} \ {nil}) \cup {orphans[n] : n \in DOMAIN orphans} :
       h.stage = "sent" /\ h.method # "init"
  /\ Die
  /\ orphans' = <<>>
  /\ call' = [c \in Client |->
                IF Idle(c) THEN nil ELSE [call[c] EXCEPT !.stage = "lost"]]
  /\ UNCHANGED <<batch, lost, ret>>

Restart == ListenAndServe /\ UNCHANGED <<batch, call, orphans, lost, ret>>

(* The arguments a client uses; with "badkey" or "badvalue", ones that are   *)
(* refused too.                                                              *)
KeysOf(c) == IF "badkey" \in Calls[c] THEN KeyArg ELSE Key
ValuesOf(c) == IF "badvalue" \in Calls[c] THEN ValuesPassed ELSE ValuesPassed \cap Value

Call(c) ==
  \/ "init" \in Calls[c] /\ InitRemote(c)
  \/ "get" \in Calls[c] /\ \E k \in KeysOf(c) : Get(c, k)
  \/ /\ "has" \in Calls[c]
     /\ Stats(c) \/ Unimplemented(c) \/ \E k \in KeysOf(c) : Has(c, k)
  \/ /\ "write" \in Calls[c]
     /\ \E k \in KeysOf(c) : Delete(c, k) \/ \E v \in ValuesOf(c) : Set(c, k, v)
  \/ /\ "batch" \in Calls[c]
     /\ \/ NewBatch(c) \/ BatchWrite(c) \/ BatchClose(c)
        \/ \E k \in KeysOf(c) : BatchDelete(c, k) \/ \E v \in ValuesOf(c) : BatchSet(c, k, v)

Next ==
  \/ Panic \/ Restart
  \/ \E c \in Client : Call(c) \/ Serve(c) \/ Disconnected(c)
  \/ \E n \in DOMAIN orphans : ServeOrphan(n)

Spec == Init /\ [][Next]_vars

-----------------------------------------------------------------------------
Results ==
  [status: {"none", "get", "true", "false", "inspect", "set", "write", "new", "append",
            "close", "error", "errKeyEmpty", "errValueNil", "errBatchClosed"},
   key: KeyArg, value: ValueArg \cup {nil, Absent}]

Handlers ==
  [stage: {"sent", "running", "lost"}, method: Methods, ops: Seq(RawOp)]

(* Types.  What batches accept unchecked, an empty key or a nil value, is    *)
(* refused by the server and is never in the files.                          *)
TypeOK ==
  /\ ServerTypes
  /\ batch \in [Client -> Seq(RawOp) \cup {nil}]
  /\ call \in [Client -> Handlers \cup {nil}]
  /\ orphans \in Seq(Handlers) /\ lost \in 0 .. MaxLost
  /\ ret \in [Client -> Results]

(***************************************************************************)
(* Refinement.  A call takes effect when its handler has called the        *)
(* database.  What the orphans would write is in doubt.                    *)
(***************************************************************************)
Writes(h) == IF h.method \in {"set", "delete", "batchWrite"} THEN h.ops ELSE <<>>

Doubtful == [n \in DOMAIN orphans |-> Writes(orphans[n])]

KV == INSTANCE KVStore WITH
  Iter <- {}, NoOne <- nil, Query <- {}, NoQuery <- nil, Less <- LAMBDA j, k : j < k,
  owner <- <<>>, query <- <<>>, view <- <<>>, rest <- <<>>, failed <- <<>>, closed <- <<>>,
  Value <- Value \cup {EmptyValue}, BatchOp <- RawOp,
  store <- files,
  doubtful <- Doubtful

(* For clients that pass no empty value the remote database implements       *)
(* KVStore, where such a value is a value: a call that succeeds has taken    *)
(* effect once and as a whole; one that fails has no effect, or one that is  *)
(* in doubt; a batch whose Write failed is still there to be written again.  *)
(* Init calls while others use the database, panics of the server and new    *)
(* starts lose no write that was acknowledged.                               *)
ImplementsKVStore == KV!DBSpec

(* types.go: "Keys cannot be nil or empty, while values cannot be nil", and  *)
(* backend_test.go sets an empty value and a nil one, and expects an error   *)
(* of the second only.  A value that is refused is nil.                      *)
OnlyNilIsRefused ==
  \A c \in Client : ret[c].status = "errValueNil" => ret[c].value = nil
=============================================================================
