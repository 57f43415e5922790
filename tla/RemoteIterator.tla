--------------------------- MODULE RemoteIterator ---------------------------
(***************************************************************************)
(* The iterators of the remote database: remotedb/iterator.go, and         *)
(* Iterator, ReverseIterator and handleIterator of grpcdb/server.go.       *)
(*                                                                         *)
(* The database is one whose iterators can fail when they are created and  *)
(* in Next (all but badgerdb, whose Value can).  That a handler reads s.db *)
(* before it uses it is modelled in RemoteDB; here this is one step.       *)
(***************************************************************************)
EXTENDS Streams

CONSTANTS
  Query,          \* the iterators that clients may ask for
  MaxWrites       \* bound: writes in a behaviour

End == KeyArg \cup {nil}
Queries == [start: End, end: End, reverse: BOOLEAN]
NoQuery == [start |-> nil, end |-> nil, reverse |-> FALSE]

ASSUME IteratorAssumption == Query \subseteq Queries /\ MaxWrites \in Nat

VARIABLES
  query,          \* the arguments of the iterator
  waits,          \* its owner is in Recv
  cur, err,       \* its fields: the last message or nil; nil, "EOF" or "error"
  it, itErr,      \* the server's iterator: keys it has still to show, Error() # nil
  view,           \* history: the files when the server's iterator was created, or
                  \* when the client got an error instead
  ret,            \* per client: the result of its last call
  writes          \* number of writes so far

iteratorVars == <<query, waits, cur, err, it, itErr, view, ret, writes>>

Result(s, k, v) == [status |-> s, key |-> k, value |-> v]
Status(s) == Result(s, EmptyKey, nil)
Reply(c, result) == ret' = [ret EXCEPT ![c] = result]

IteratorsInit ==
  /\ query = For(NoQuery) /\ waits = For(FALSE)
  /\ cur = For(nil) /\ err = For(nil)
  /\ it = For({}) /\ itErr = For(FALSE) /\ view = For(nil)
  /\ ret = [c \in Client |-> Status("none")] /\ writes = 0

-----------------------------------------------------------------------------
(* The client. *)

Idle(c) == \A i \in Stream : owner[i] = c => ~waits[i]

(* Iterator and ReverseIterator open a stream; makeIterator and              *)
(* makeReverseIterator call Next.                                            *)
Iterator(c, i, q) ==
  /\ Idle(c)
  /\ \/ /\ NewStream(c, i, "Iterator")
        /\ query' = [query EXCEPT ![i] = q]
        /\ waits' = [waits EXCEPT ![i] = TRUE]
        /\ UNCHANGED ret
     \/ /\ ~up /\ owner[i] = NoOne
        /\ Reply(c, Status("error"))
        /\ UNCHANGED <<streamVars, query, waits>>
  /\ UNCHANGED <<serverVars, cur, err, it, itErr, view, writes>>

IsIterator(c, i) == owner[i] = c /\ Idle(c) /\ (cur[i] # nil \/ err[i] # nil)

IteratorNext(c, i) ==
  /\ IsIterator(c, i)
  /\ waits' = [waits EXCEPT ![i] = TRUE]
  /\ UNCHANGED <<serverVars, streamVars, query, cur, err, it, itErr, view, ret, writes>>

(* The rest of Next, when Recv returns. *)
NextReturns(i) ==
  /\ waits[i]
  /\ Recv(i)
  /\ waits' = [waits EXCEPT ![i] = FALSE]
  /\ \/ /\ pipe[i] # <<>>
        /\ cur' = [cur EXCEPT ![i] = Head(pipe[i])]
        /\ UNCHANGED err
     \/ /\ pipe[i] = <<>>
        /\ cur' = [cur EXCEPT ![i] = nil]
        /\ err' = [err EXCEPT ![i] = end[i]]
  /\ view' = [view EXCEPT ![i] = IF @ = nil THEN files ELSE @]
  /\ UNCHANGED <<serverVars, query, it, itErr, ret, writes>>

Valid(i) == cur[i] # nil /\ err[i] = nil

(* Key and Value. *)
ReadItem(c, i) ==
  /\ IsIterator(c, i)
  /\ Reply(c, IF Valid(i) THEN Result("item", cur[i].key, cur[i].value) ELSE Status("panic"))
  /\ UNCHANGED <<serverVars, streamVars, query, waits, cur, err, it, itErr, view, writes>>

IteratorClose(c, i) ==
  /\ IsIterator(c, i)
  /\ CloseSend(i)
  /\ UNCHANGED <<serverVars, iteratorVars>>

(* A client writes: see RemoteDB. *)
Write(c, k, v) ==
  /\ Idle(c) /\ up /\ db
  /\ writes < MaxWrites /\ writes' = writes + 1
  /\ files' = [files EXCEPT ![k] = v]
  /\ Reply(c, Result("set", k, v))
  /\ UNCHANGED <<isOpen, db, up, restarts, streamVars, query, waits, cur, err, it, itErr, view>>

-----------------------------------------------------------------------------
(* The server. *)

Wired(q) == [start |-> Wire(q.start), end |-> Wire(q.end), reverse |-> q.reverse]

InDomain(q, k) == (q.start = nil \/ q.start <= k) /\ (q.end = nil \/ k < q.end)

DomainWithDeleted(q, content) ==          \* mutant: deleted keys are shown
  {k \in Key : InDomain(Wired(q), k)}

(* What an iterator of the database shows. *)
Domain(q, content) == {k \in Key : content[k] # Absent /\ InDomain(Wired(q), k)}

FirstForward(q, keys) ==                  \* mutant: the direction is ignored
  CHOOSE k \in keys : \A j \in keys : k <= j

First(q, keys) == CHOOSE k \in keys : \A j \in keys : IF q.reverse THEN j <= k ELSE k <= j

(* The database's iterator.  When its first seek fails it is invalid, but    *)
(* not an error: the handler goes on with it.                                *)
NewIterator(i) ==
  /\ handler' = [handler EXCEPT ![i] = "handleIterator"]
  /\ \/ it' = [it EXCEPT ![i] = Domain(query[i], files)] /\ UNCHANGED itErr
     \/ Fallible /\ itErr' = [itErr EXCEPT ![i] = TRUE] /\ UNCHANGED it
  /\ view' = [view EXCEPT ![i] = IF @ = nil THEN files ELSE @]
  /\ UNCHANGED <<owner, closed, pipe, end, breaks>>

NewIteratorEmpty(i) ==                    \* mutant: an error is taken for an empty domain
  Finish(i, "EOF") /\ UNCHANGED <<it, itErr, view>>

NewIteratorFails(i) == Finish(i, "error") /\ UNCHANGED <<it, itErr, view>>

(* Iterator and ReverseIterator. *)
serverIterator(i) ==
  /\ handler[i] = "Iterator" /\ db
  /\ NewIterator(i) \/ (Fallible /\ NewIteratorFails(i))
  /\ UNCHANGED <<serverVars, query, waits, cur, err, ret, writes>>

(* Send, then it.Next(), which may fail.  Nobody looks at it.Error(). *)
SendItem(i) ==
  LET k == First(query[i], it[i]) IN
  /\ it[i] # {}
  /\ Send(i, Message(k, view[i][k], FALSE), "handleIterator")
  /\ \/ it' = [it EXCEPT ![i] = @ \ {k}] /\ UNCHANGED itErr
     \/ /\ Fallible
        /\ it' = [it EXCEPT ![i] = {}] /\ itErr' = [itErr EXCEPT ![i] = TRUE]

SendItemRetries(i) ==                     \* mutant: Send is tried again
  it[i] # {} /\ SendFails(i) /\ UNCHANGED <<streamVars, it, itErr>>

SendItemFails(i) ==
  it[i] # {} /\ SendFails(i) /\ Finish(i, "error") /\ UNCHANGED <<it, itErr>>

handleIteratorSpins(i) ==                 \* mutant: the loop goes on after the last item
  /\ handler[i] = "handleIterator"
  /\ SendItem(i) \/ SendItemFails(i)
  /\ UNCHANGED <<serverVars, query, waits, cur, err, view, ret, writes>>

(* One turn of the loop, or its end. *)
handleIterator(i) ==
  /\ handler[i] = "handleIterator"
  /\ \/ SendItem(i) \/ SendItemFails(i)
     \/ it[i] = {} /\ Finish(i, "EOF") /\ UNCHANGED <<it, itErr>>
  /\ UNCHANGED <<serverVars, query, waits, cur, err, view, ret, writes>>
=============================================================================
