----------------------------- MODULE GetStream -----------------------------
(***************************************************************************)
(* GetStream of grpcdb/server.go: a goroutine receives keys and looks them *)
(* up, and the handler sends what it gets from that goroutine over an      *)
(* unbuffered channel.  The client's side of such a stream is generated    *)
(* code; remotedb does not use it.                                         *)
(***************************************************************************)
EXTENDS Streams

CONSTANTS
  Asks,           \* the keys that clients send
  MaxAsks         \* bound: keys sent on one stream

ASSUME GetStreamAssumption == Asks \subseteq KeyArg /\ MaxAsks \in Nat

VARIABLES
  asked, answers, \* the client: what it has sent, and received
  receiver,       \* the goroutine: none, recv, offer or last (it offers out), done
  taken,          \* number of keys it has received
  out,            \* what it offers on responsesChan
  sending,        \* what the handler sends
  reads           \* history: the files at each Get

getStreamVars == <<asked, answers, receiver, taken, out, sending, reads>>

GetStreamInit ==
  /\ asked = For(<<>>) /\ answers = For(<<>>)
  /\ receiver = For("none") /\ taken = For(0)
  /\ out = For(nil) /\ sending = For(nil) /\ reads = For(<<>>)

-----------------------------------------------------------------------------
(* The client. *)

IsGetStream(c, i) == owner[i] = c /\ receiver[i] # "none"

OpenGetStream(c, i) ==
  /\ NewStream(c, i, "range")
  /\ receiver' = [receiver EXCEPT ![i] = "recv"]
  /\ UNCHANGED <<serverVars, asked, answers, taken, out, sending, reads>>

Ask(c, i, k) ==
  /\ IsGetStream(c, i) /\ ~closed[i] /\ end[i] = nil /\ Len(asked[i]) < MaxAsks
  /\ asked' = [asked EXCEPT ![i] = Append(@, k)]
  /\ UNCHANGED <<serverVars, streamVars, answers, receiver, taken, out, sending, reads>>

CloseAsking(c, i) ==
  /\ IsGetStream(c, i) /\ ~closed[i] /\ CloseSend(i)
  /\ UNCHANGED <<serverVars, getStreamVars>>

Answered(c, i) ==
  /\ IsGetStream(c, i) /\ pipe[i] # <<>>
  /\ Recv(i)
  /\ answers' = [answers EXCEPT ![i] = Append(@, Head(pipe[i]))]
  /\ UNCHANGED <<serverVars, asked, receiver, taken, out, sending, reads>>

-----------------------------------------------------------------------------
(* The goroutine. *)

Offer(i, stage, message) ==
  /\ receiver' = [receiver EXCEPT ![i] = stage]
  /\ out' = [out EXCEPT ![i] = message]

Failure == Message(EmptyKey, nil, TRUE)

(* ds.Recv() returns an error: the end of the keys, or of the stream. *)
ReceiveFails(i) ==
  /\ receiver[i] = "recv"
  /\ end[i] # nil \/ (closed[i] /\ taken[i] = Len(asked[i]))
  /\ Offer(i, "last", Failure)
  /\ UNCHANGED <<serverVars, streamVars, asked, answers, taken, sending, reads>>

GetFailsGoesOn(i, k) ==                   \* mutant: no return after an error
  Offer(i, "offer", Message(k, nil, TRUE))

GetFails(i, k) == Offer(i, "last", Message(k, nil, TRUE))

GetReturns(i, k) ==
  Offer(i, "offer", Message(EmptyKey, IF files[k] = Absent THEN nil ELSE Wire(files[k]), FALSE))

(* ds.Recv() returns a key, and s.Get a value or an error. *)
ReceiveKey(i) ==
  LET k == asked[i][taken[i] + 1] IN
  /\ receiver[i] = "recv" /\ taken[i] < Len(asked[i]) /\ db
  /\ taken' = [taken EXCEPT ![i] = @ + 1]
  /\ reads' = [reads EXCEPT ![i] = Append(@, files)]
  /\ (k # EmptyKey /\ GetReturns(i, k)) \/ ((k = EmptyKey \/ Fallible) /\ GetFails(i, k))
  /\ UNCHANGED <<serverVars, streamVars, asked, answers, sending>>

-----------------------------------------------------------------------------
(* The handler. *)

(* It takes the offer; after the last one the goroutine closes the channel. *)
HandOver(i) ==
  /\ handler[i] = "range" /\ receiver[i] \in {"offer", "last"}
  /\ handler' = [handler EXCEPT ![i] = "Send"]
  /\ sending' = [sending EXCEPT ![i] = out[i]]
  /\ receiver' = [receiver EXCEPT ![i] = IF @ = "last" THEN "done" ELSE "recv"]
  /\ out' = [out EXCEPT ![i] = nil]
  /\ UNCHANGED <<serverVars, owner, closed, pipe, end, breaks, asked, answers, taken, reads>>

SendAnswer(i) ==
  /\ handler[i] = "Send"
  /\ Send(i, sending[i], "range") \/ (SendFails(i) /\ Finish(i, "error"))
  /\ sending' = [sending EXCEPT ![i] = nil]
  /\ UNCHANGED <<serverVars, asked, answers, receiver, taken, out, reads>>

RangeEndsNot(i) ==                        \* mutant: the channel is not closed
  /\ handler[i] = "range" /\ receiver[i] = "done"
  /\ UNCHANGED <<serverVars, streamVars, getStreamVars>>

(* The channel is closed. *)
RangeEnds(i) ==
  /\ handler[i] = "range" /\ receiver[i] = "done"
  /\ Finish(i, "EOF")
  /\ UNCHANGED <<serverVars, getStreamVars>>
=============================================================================
