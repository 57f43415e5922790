--------------------------- MODULE RemoteStreams ---------------------------
(***************************************************************************)
(* Iterators and GetStreams of one remote server, which may be initialized *)
(* again, die and be started again meanwhile.                              *)
(***************************************************************************)
EXTENDS RemoteIterator, GetStream

vars == <<serverVars, streamVars, iteratorVars, getStreamVars>>

Init == ServerInit /\ StreamsInit /\ IteratorsInit /\ GetStreamInit

-----------------------------------------------------------------------------
(* InitRemote of some client: the handler holds the mutex. *)
InitRemote ==
  /\ up
  /\ db' \in NewDB /\ isOpen' = (isOpen \/ db')
  /\ UNCHANGED <<files, up, restarts, streamVars, iteratorVars, getStreamVars>>

NeedsDB(i) ==
  \/ handler[i] = "Iterator"
  \/ receiver[i] = "recv" /\ taken[i] < Len(asked[i])

(* A goroutine finds s.db nil. *)
Panic ==
  /\ up /\ ~db
  /\ \E i \in Stream : NeedsDB(i)
  /\ Die
  /\ BreakAll
  /\ receiver' = [i \in Stream |-> IF receiver[i] = "none" THEN "none" ELSE "done"]
  /\ out' = For(nil) /\ sending' = For(nil)
  /\ UNCHANGED <<iteratorVars, asked, answers, taken, reads>>

Restart == ListenAndServe /\ UNCHANGED <<streamVars, iteratorVars, getStreamVars>>

BreakStream(i) == Break(i) /\ UNCHANGED <<serverVars, iteratorVars, getStreamVars>>

(* A client calls Next while Valid, as types.go demands of it. *)
IteratorClient(c) ==
  /\ \/ \E i \in Stream : \/ Valid(i) /\ IteratorNext(c, i)
                          \/ ReadItem(c, i) \/ IteratorClose(c, i)
                          \/ \E q \in Query : Iterator(c, i, q)
     \/ \E k \in Key, v \in Value \cup {Absent} : Write(c, k, v)
  /\ UNCHANGED getStreamVars

Serve(i) == (serverIterator(i) \/ handleIterator(i)) /\ UNCHANGED getStreamVars
Deliver(i) == NextReturns(i) /\ UNCHANGED getStreamVars

GetStreamClient(c) ==
  /\ \E i \in Stream : \/ OpenGetStream(c, i) \/ CloseAsking(c, i)
                       \/ \E k \in Asks : Ask(c, i, k)
  /\ UNCHANGED iteratorVars

Receive(i) == (ReceiveFails(i) \/ ReceiveKey(i)) /\ UNCHANGED iteratorVars
Respond(i) == (HandOver(i) \/ SendAnswer(i) \/ RangeEnds(i)) /\ UNCHANGED iteratorVars
Collect(i) == (\E c \in Client : Answered(c, i)) /\ UNCHANGED iteratorVars

Next ==
  \/ InitRemote \/ Panic \/ Restart
  \/ \E c \in Client : IteratorClient(c) \/ GetStreamClient(c)
  \/ \E i \in Stream : \/ BreakStream(i)
                      \/ Serve(i) \/ Deliver(i)
                      \/ Receive(i) \/ Respond(i) \/ Collect(i)

Spec == Init /\ [][Next]_vars

(***************************************************************************)
(* Fairness.  The server runs its goroutines, the transport delivers what  *)
(* is not lost, and the client of a GetStream takes its answers.  Clients  *)
(* of iterators need not go on.                                            *)
(***************************************************************************)
FairSpec ==
  /\ Spec
  /\ WF_vars(Panic)
  /\ \A i \in Stream : /\ WF_vars(Serve(i)) /\ WF_vars(Deliver(i))
                       /\ WF_vars(Receive(i)) /\ WF_vars(Respond(i)) /\ WF_vars(Collect(i))

-----------------------------------------------------------------------------
(* Types.  No pipe holds more than its window, and no message an absent      *)
(* value.                                                                    *)
TypeOK ==
  /\ ServerTypes /\ StreamTypes
  /\ query \in [Stream -> Queries] /\ waits \in [Stream -> BOOLEAN]
  /\ cur \in [Stream -> Messages \cup {nil}]
  /\ err \in [Stream -> {nil, "EOF", "error"}]
  /\ it \in [Stream -> SUBSET Key] /\ itErr \in [Stream -> BOOLEAN]
  /\ view \in [Stream -> Contents \cup {nil}]
  /\ ret \in [Client -> [status: {"none", "set", "item", "panic", "error"},
                         key: KeyArg, value: Value \cup {nil, Absent}]]
  /\ writes \in 0 .. MaxWrites
  /\ asked \in [Stream -> Seq(Asks)] /\ answers \in [Stream -> Seq(Messages)]
  /\ receiver \in [Stream -> {"none", "recv", "offer", "last", "done"}]
  /\ taken \in [Stream -> 0 .. MaxAsks]
  /\ out \in [Stream -> Messages \cup {nil}] /\ sending \in [Stream -> Messages \cup {nil}]
  /\ reads \in [Stream -> Seq(Contents)]

(***************************************************************************)
(* Refinement.  An iterator is created when the server creates its own, or *)
(* when the constructor's Recv finds that this has failed.  Its next key   *)
(* is the one that the client has received last.  It has failed when the   *)
(* stream ended with an error, or with io.EOF after an error of the        *)
(* server's iterator.  That Error() returns io.EOF also after a complete   *)
(* iteration is not counted as a failure here, see ErrorMeansFailure.      *)
(* Close does not make the iterator invalid.                               *)
(***************************************************************************)
Created(i) == view[i] # nil

(* The keys of the domain from the current one on. *)
ToShow(i, content) ==
  {k \in Domain(query[i], content) :
     \/ cur[i] = nil
     \/ IF query[i].reverse THEN k <= cur[i].key ELSE cur[i].key <= k}

Owners == [i \in Stream |-> IF Created(i) THEN owner[i] ELSE NoOne]
Asked == [i \in Stream |-> IF Created(i) THEN query[i] ELSE NoQuery]
Views == [i \in Stream |-> IF Created(i) THEN view[i] ELSE [k \in KeyArg |-> Absent]]
Rests == [i \in Stream |-> IF Created(i) /\ err[i] = nil THEN ToShow(i, view[i]) ELSE {}]
Failures ==
  [i \in Stream |-> Created(i) /\ (err[i] = "error" \/ (err[i] = "EOF" /\ itErr[i]))]

KV == INSTANCE KVStore WITH
  Iter <- Stream, Less <- LAMBDA j, k : j < k, BatchOp <- {},
  store <- files, batch <- [c \in Client |-> nil], doubtful <- <<>>,
  owner <- Owners, query <- Asked, view <- Views, rest <- Rests, failed <- Failures,
  closed <- For(FALSE)

(* No client asks for an empty end point, which the backends refuse and the  *)
(* remote database takes for nil.                                            *)
NoEmptyEnds == \A q \in Query : EmptyKey \notin {q.start, q.end}

(* The iterators of the remote database, with NoEmptyEnds, are those of      *)
(* KVStore: they show a snapshot, in order and without gaps, to the end of   *)
(* the domain or to where they fail, whatever is written, lost or            *)
(* initialized again meanwhile, and however the server ends.                 *)
ImplementsKVStore == KV!DBSpec

(* types.go, of Iterator.Error: "Error returns the last error encountered by *)
(* the iterator, if any", and its typical usage treats an error after the    *)
(* loop as one.  Error() returns one only if the stream or the server's      *)
(* iterator has failed.                                                      *)
ErrorMeansFailure ==
  \A i \in Stream : err[i] # nil => end[i] = "error" \/ itErr[i]

(* Next says EOF only at the end: when the server's iterator has not failed, *)
(* no key of the domain is behind the last one that was shown.  A broken     *)
(* stream or a dead server never looks like the end.                         *)
EOFMeansEnd ==
  [][\A i \in Stream :
       err[i] = nil /\ err'[i] = "EOF" /\ ~itErr[i]
         => \A k \in ToShow(i, view'[i]) : cur[i] # nil /\ k = cur[i].key]_vars

(* The answers of a GetStream carry no key.  They come in the order of the   *)
(* keys that were sent, each is what the database held for its key, and one  *)
(* with an error is the last.                                                *)
AnswersMatch ==
  \A i \in Stream : \A n \in DOMAIN answers[i] :
    LET m == answers[i][n] IN
    IF m.failed THEN n = Len(answers[i])
    ELSE /\ n <= Len(asked[i]) /\ n <= Len(reads[i])
         /\ m.value = LET v == reads[i][n][asked[i][n]] IN IF v = Absent THEN nil ELSE v

(* A Next that waits for a message returns: handleIterator sends one, or     *)
(* ends the stream, and a server that dies is noticed.                       *)
EveryNextReturns == \A i \in Stream : waits[i] ~> ~waits[i]

(* Handlers do not outlive their streams: one that waits for room in the     *)
(* pipe ends when the stream breaks.                                         *)
BrokenHandlersEnd == \A i \in Stream : end[i] = "error" ~> handler[i] = "done"

(* When a client has closed its side of a GetStream, the goroutine and the   *)
(* handler end, unless the stream breaks.                                    *)
GetStreamsEnd ==
  \A i \in Stream :
    closed[i] /\ receiver[i] # "none"
      ~> end[i] = "error" \/ (receiver[i] = "done" /\ handler[i] = "done")

(* types.go, of Iterator.Close: "Close closes the iterator, relasing any     *)
(* allocated resources."  The server's iterator is closed when its handler   *)
(* returns.                                                                  *)
CloseReleases ==
  \A i \in Stream : closed[i] /\ receiver[i] = "none" ~> handler[i] = "done"
=============================================================================
