------------------------------ MODULE Streams ------------------------------
(***************************************************************************)
(* The streams of the remote server, as its handlers and their clients use *)
(* them.  RemoteIterator and GetStream extend this module.                 *)
(*                                                                         *)
(* A stream has a handler, which is a goroutine of the server, and a pipe  *)
(* of messages to the client.  Flow control makes Send wait while the pipe *)
(* is full.  When the handler returns, the stream's end follows the        *)
(* messages; when the connection breaks, some of them are lost and the end *)
(* is an error.                                                            *)
(***************************************************************************)
EXTENDS RemoteServer

CONSTANTS
  Client, NoOne,
  Stream,         \* each is used once
  Window,         \* messages that fit into a pipe
  MaxBreaks       \* bound: streams that break in a behaviour

Messages == [key: KeyArg, value: Value \cup {nil}, failed: BOOLEAN]

ASSUME StreamAssumption ==
  /\ NoOne \notin Client /\ nil \notin {"EOF", "error"} \cup Messages \cup Contents
  /\ Window \in Nat \ {0} /\ MaxBreaks \in Nat

VARIABLES
  owner,          \* the client that opened the stream, or NoOne
  closed,         \* it has called Close or CloseSend
  pipe,           \* messages under way
  end,            \* what follows them: nil (not known yet), "EOF" or "error"
  handler,        \* where the handler is
  breaks          \* number of streams that broke so far

streamVars == <<owner, closed, pipe, end, handler, breaks>>

Stages == {"none", "Iterator", "handleIterator", "range", "Send", "done"}

For(x) == [i \in Stream |-> x]

StreamsInit ==
  /\ owner = For(NoOne) /\ closed = For(FALSE)
  /\ pipe = For(<<>>) /\ end = For(nil)
  /\ handler = For("none") /\ breaks = 0

(* protodb.Iterator or protodb.Entity: Err is not empty if failed. *)
Message(k, v, failed) == [key |-> k, value |-> v, failed |-> failed]

NewStream(c, i, stage) ==
  /\ up
  /\ owner[i] = NoOne
  /\ owner' = [owner EXCEPT ![i] = c]
  /\ handler' = [handler EXCEPT ![i] = stage]
  /\ UNCHANGED <<closed, pipe, end, breaks>>

(* CloseSend: the stream goes on. *)
CloseSend(i) ==
  /\ closed' = [closed EXCEPT ![i] = TRUE]
  /\ UNCHANGED <<owner, pipe, end, handler, breaks>>

(* RecvMsg of the client returns a message, or end when there is none left. *)
Recv(i) ==
  /\ pipe[i] # <<>> \/ end[i] # nil
  /\ pipe' = [pipe EXCEPT ![i] = IF @ = <<>> THEN @ ELSE Tail(@)]
  /\ UNCHANGED <<owner, closed, end, handler, breaks>>

(* SendMsg of the server fails when the stream is broken. *)
SendFails(i) == end[i] # nil

Send(i, message, stage) ==
  /\ ~SendFails(i) /\ Len(pipe[i]) < Window
  /\ pipe' = [pipe EXCEPT ![i] = Append(@, message)]
  /\ handler' = [handler EXCEPT ![i] = stage]
  /\ UNCHANGED <<owner, closed, end, breaks>>

(* The handler returns. *)
Finish(i, status) ==
  /\ handler' = [handler EXCEPT ![i] = "done"]
  /\ end' = [end EXCEPT ![i] = IF @ = nil THEN status ELSE @]
  /\ UNCHANGED <<owner, closed, pipe, breaks>>

(* What may arrive of the messages under way when the connection breaks. *)
Arriving(i) == {SubSeq(pipe[i], 1, n) : n \in 0 .. Len(pipe[i])}

(* The connection breaks.  A request on its way may be lost, too. *)
Break(i) ==
  /\ breaks < MaxBreaks /\ breaks' = breaks + 1
  /\ owner[i] # NoOne
  /\ \E p \in Arriving(i) : pipe' = [pipe EXCEPT ![i] = p]
  /\ end' = [end EXCEPT ![i] = "error"]
  /\ handler' \in {handler} \cup
       IF handler[i] = "Iterator" THEN {[handler EXCEPT ![i] = "done"]} ELSE {}
  /\ UNCHANGED <<owner, closed>>

(* The server dies, and every stream with it. *)
BreakAll ==
  /\ pipe' \in {p \in [Stream -> UNION {Arriving(i) : i \in Stream}] :
                  \A i \in Stream : p[i] \in Arriving(i)}
  /\ end' = [i \in Stream |-> IF owner[i] = NoOne THEN nil ELSE "error"]
  /\ handler' = [i \in Stream |-> IF owner[i] = NoOne THEN "none" ELSE "done"]
  /\ UNCHANGED <<owner, closed, breaks>>

StreamTypes ==
  /\ owner \in [Stream -> Client \cup {NoOne}] /\ closed \in [Stream -> BOOLEAN]
  /\ pipe \in [Stream -> Seq(Messages)] /\ \A i \in Stream : Len(pipe[i]) <= Window
  /\ end \in [Stream -> {nil, "EOF", "error"}]
  /\ handler \in [Stream -> Stages] /\ breaks \in 0 .. MaxBreaks
=============================================================================
