-------------------------- MODULE DiskDBImplements --------------------------
(***************************************************************************)
(* Every on-disk backend implements KVStore between crashes: the proof,    *)
(* for any number of clients, iterators and keys.                          *)
(***************************************************************************)
EXTENDS DiskDBProofs

(* Leaves are tried with Zenon, and with SMT where they say so. *)
USE Zenon

(* From key j, the iteration comes to k, or is there. *)
Reaches(q, j, k) == IF q.reverse THEN k <= j ELSE j <= k

Beyond(q, j, k) == IF q.reverse THEN k < j ELSE j < k

LEMMA QueryFacts ==
  ASSUME NEW q \in Queries
  PROVE  /\ q.start = nil \/ q.start \in Nat
         /\ q.end = nil \/ q.end \in Nat
         /\ q.reverse \in BOOLEAN
BY KeyFacts DEF Queries, EndPoint, KeyArg

(* Once past the end, an iteration does not come back. *)
LEMMA PastEndStays ==
  ASSUME NEW q \in Queries, NEW j \in Nat, NEW k \in Nat, Reaches(q, j, k), PastEnd(q, j)
  PROVE  PastEnd(q, k)
<1>1. CASE q.reverse
  <2>1. q.start # nil /\ j < q.start /\ k <= j /\ q.start \in Nat
    BY <1>1, QueryFacts DEF PastEnd, Reaches
  <2>2. k < q.start
    BY <2>1, SMT
  <2>. QED
    BY <1>1, <2>1, <2>2 DEF PastEnd
<1>2. CASE ~q.reverse
  <2>1. q.end # nil /\ q.end <= j /\ j <= k /\ q.end \in Nat
    BY <1>2, QueryFacts DEF PastEnd, Reaches
  <2>2. q.end <= k
    BY <2>1, SMT
  <2>. QED
    BY <1>2, <2>1, <2>2 DEF PastEnd
<1>. QED
  BY <1>1, <1>2

(* With a candidate, the keys that follow it in the domain are candidates.  *)
IsClosedAhead(q, stored, candidates) ==
  \A j \in candidates, k \in stored :
    Reaches(q, j, k) /\ ~PastEnd(q, k) => k \in candidates

(* The keys from k on, up to the end of the domain. *)
From(q, stored, first) ==
  IF first = nil \/ PastEnd(q, first) THEN {}
  ELSE {k \in stored : ~PastEnd(q, k) /\ Reaches(q, first, k)}

(* A cursor that stands on the first of some candidates has all of them      *)
(* before it, up to the end of the domain.                                   *)
LEMMA RestFrom ==
  ASSUME NEW stored \in SUBSET Key, NEW q \in Queries, NEW candidates \in SUBSET stored,
         NEW first, IsFirst(candidates, q.reverse, first),
         IsClosedAhead(q, stored, candidates)
  PROVE  {k \in candidates : ~PastEnd(q, k)} = From(q, stored, first)
<1>1. stored \subseteq Nat /\ nil \notin stored
  BY KeyFacts
<1>2. first # nil => first \in candidates
  BY DEF IsFirst
<1>3. ASSUME NEW k \in candidates
      PROVE  /\ first \in candidates /\ Reaches(q, first, k)
             /\ ~PastEnd(q, k) => ~PastEnd(q, first)
  <2>1. first \in candidates /\ Reaches(q, first, k)
    BY DEF IsFirst, Reaches
  <2>2. first \in Nat /\ k \in Nat
    BY <1>1, <2>1
  <2>. QED
    BY <2>1, <2>2, PastEndStays
<1>4. CASE first = nil \/ PastEnd(q, first)
  BY <1>1, <1>3, <1>4 DEF From
<1>5. CASE first # nil /\ ~PastEnd(q, first)
  BY <1>2, <1>3, <1>5 DEF From, IsClosedAhead
<1>. QED
  BY <1>4, <1>5

LEMMA DomainIsRange ==
  ASSUME NEW q \in Queries, NEW k \in Key
  PROVE  /\ InRange(q, k) <=> Entered(q, k) /\ ~PastEnd(q, k)
         /\ InRange(q, k) <=> KV!InRange(q, k)
<1>1. k \in Nat
  BY KeyFacts
<1>2. /\ q.start # nil => (q.start <= k <=> ~(k < q.start))
      /\ q.end # nil => (q.end <= k <=> ~(k < q.end))
  <2>1. \A n \in Nat : n <= k <=> ~(k < n)
    BY <1>1, SMT
  <2>. QED
    BY <2>1, QueryFacts
<1>3. InRange(q, k) <=> KV!InRange(q, k)
  BY <1>2 DEF InRange, KV!InRange
<1>4. InRange(q, k) <=> Entered(q, k) /\ ~PastEnd(q, k)
  BY <1>2, QueryFacts DEF InRange, Entered, PastEnd
<1>. QED
  BY <1>3, <1>4

-----------------------------------------------------------------------------
(***************************************************************************)
(* A cursor stands on a key of its snapshot, not before the end at which   *)
(* the iteration began; an iterator that was not created is as new.        *)
(***************************************************************************)
CursorOK(i) ==
  /\ owner[i] = NoOne => cursor[i] = nil /\ ~isInvalid[i] /\ ~failed[i] /\ ~closed[i]
  /\ cursor[i] # nil => /\ cursor[i] \in CursorKeys(query[i], view[i])
                        /\ Entered(query[i], cursor[i])

CursorInv == \A i \in Iter : CursorOK(i)

(* A step that leaves the iterators alone. *)
LEMMA CursorFrame ==
  ASSUME CursorInv, UNCHANGED <<backend, iterVars>>
  PROVE  CursorInv' /\ \A i \in Iter : Rest(i)' = Rest(i)
<1>1. UNCHANGED <<backend, owner, query, view, cursor, isInvalid, failed, closed>>
  BY DEF iterVars
<1>2. CursorInv'
  BY <1>1 DEF CursorInv, CursorOK, CursorKeys
<1>3. \A i \in Iter : Rest(i)' = Rest(i)
  BY <1>1 DEF Rest, Valid
<1>. QED
  BY <1>2, <1>3

(* An open iterator is valid exactly if something is left, and then its      *)
(* cursor stands on the first key of that.                                   *)
LEMMA CursorIsFirst ==
  ASSUME Types, CursorInv, NEW i \in Iter, ~closed[i]
  PROVE  /\ ~Valid(i) => Rest(i) = {}
         /\ Valid(i) => /\ cursor[i] \in Rest(i)
                        /\ KV!First(query[i], Rest(i)) = cursor[i]
                        /\ Rest(i) \ {cursor[i]} =
                             {k \in Stored(view[i]) : /\ ~PastEnd(query[i], k)
                                                      /\ Beyond(query[i], cursor[i], k)}
<1>1. ~Valid(i) => Rest(i) = {}
  BY DEF Rest
<1>. SUFFICES ASSUME Valid(i)
              PROVE  /\ cursor[i] \in Rest(i)
                     /\ KV!First(query[i], Rest(i)) = cursor[i]
                     /\ Rest(i) \ {cursor[i]} =
                          {k \in Stored(view[i]) : /\ ~PastEnd(query[i], k)
                                                   /\ Beyond(query[i], cursor[i], k)}
  BY <1>1
<1>. DEFINE q == query[i]
<1>2. Rest(i) = {k \in Stored(view[i]) : ~PastEnd(q, k) /\ Reaches(q, cursor[i], k)}
  BY DEF Rest, Reaches
<1>3. /\ q \in Queries /\ cursor[i] # nil /\ ~PastEnd(q, cursor[i])
      /\ cursor[i] \in CursorKeys(q, view[i])
  BY DEF Types, IterTypes, CursorInv, CursorOK, Valid
<1>4. /\ cursor[i] \in Stored(view[i]) /\ Stored(view[i]) \subseteq Nat /\ cursor[i] \in Nat
  <2>1. CursorKeys(q, view[i]) \subseteq Stored(view[i])
    BY DEF CursorKeys
  <2>. QED
    BY <1>3, <2>1, KeyFacts DEF Stored
<1>5. \A j, k \in Nat : /\ Reaches(q, j, k) <=> j = k \/ Beyond(q, j, k)
                        /\ ~Beyond(q, j, j)
                        /\ Beyond(q, j, k) => ~Beyond(q, k, j)
  BY SMT DEF Reaches, Beyond
<1>6. cursor[i] \in Rest(i)
  BY <1>2, <1>3, <1>4, <1>5
<1>7. Rest(i) \ {cursor[i]} = {k \in Stored(view[i]) : ~PastEnd(q, k) /\ Beyond(q, cursor[i], k)}
  <2>1. \A k \in Stored(view[i]) :
          Reaches(q, cursor[i], k) /\ k # cursor[i] <=> Beyond(q, cursor[i], k)
    BY <1>4, <1>5
  <2>. QED
    BY <1>2, <2>1
<1>8. KV!First(q, Rest(i)) = cursor[i]
  <2>1. KV!First(q, Rest(i)) = CHOOSE k \in Rest(i) : \A j \in Rest(i) : ~Beyond(q, j, k)
    BY DEF KV!First, Beyond
  <2>2. \A j \in Rest(i) : ~Beyond(q, j, cursor[i])
    BY <1>2, <1>4, <1>5
  <2>3. ASSUME NEW k \in Rest(i), \A j \in Rest(i) : ~Beyond(q, j, k)
        PROVE  k = cursor[i]
    <3>1. Reaches(q, cursor[i], k) /\ k \in Nat /\ ~Beyond(q, cursor[i], k)
      BY <1>2, <1>4, <1>6, <2>3
    <3>. QED
      BY <1>4, <1>5, <3>1
  <2>. QED
    BY <1>6, <2>1, <2>2, <2>3
<1>. QED
  BY <1>6, <1>7, <1>8

(* Where the cursor is moved to for the next key. *)
LEMMA NextIsFirst ==
  ASSUME Types, CursorInv, NEW i \in Iter, Valid(i), ~closed[i]
  PROVE  LET k == Step(i)
         IN  /\ k # nil => k \in CursorKeys(query[i], view[i]) /\ Entered(query[i], k)
             /\ Rest(i) \ {cursor[i]} = From(query[i], Stored(view[i]), k)
<1>. DEFINE q == query[i]
            stored == Stored(view[i])
            ks == CursorKeys(q, view[i])
            ahead == {k \in ks : Beyond(q, cursor[i], k)}
<1>1. /\ q \in Queries /\ cursor[i] # nil /\ ~PastEnd(q, cursor[i])
      /\ cursor[i] \in ks /\ Entered(q, cursor[i])
  BY DEF Types, IterTypes, CursorInv, CursorOK, Valid
<1>2. /\ stored \in SUBSET Key /\ ks \in SUBSET stored
      /\ \A k \in stored : InRange(q, k) => k \in ks
  BY DEF Stored, CursorKeys
<1>3. stored \subseteq Nat /\ cursor[i] \in Nat
  BY <1>1, <1>2, KeyFacts
<1>4. IsFirst(ahead, q.reverse, Step(i))
  <2>1. ahead = {k \in ks : IF q.reverse THEN k < cursor[i] ELSE cursor[i] < k}
    BY DEF Beyond
  <2>. QED
    BY <1>1, <2>1, StepIsFirst DEF Types
<1>. HIDE DEF stored, ks
<1>5. ASSUME NEW k \in stored, Beyond(q, cursor[i], k)
      PROVE  Entered(q, k)
  <2>1. k \in Nat
    BY <1>3
  <2>2. CASE q.reverse
    <3>1. q.end = nil \/ (q.end \in Nat /\ cursor[i] < q.end /\ k < cursor[i])
      BY <1>1, <1>5, <2>2, QueryFacts DEF Entered, Beyond
    <3>2. q.end = nil \/ k < q.end
      BY <1>3, <2>1, <3>1, SMT
    <3>. QED
      BY <2>2, <3>2 DEF Entered
  <2>3. CASE ~q.reverse
    <3>1. q.start = nil \/ (q.start \in Nat /\ q.start <= cursor[i] /\ cursor[i] < k)
      BY <1>1, <1>5, <2>3, QueryFacts DEF Entered, Beyond
    <3>2. q.start = nil \/ q.start <= k
      BY <1>3, <2>1, <3>1, SMT
    <3>. QED
      BY <2>3, <3>2 DEF Entered
  <2>. QED
    BY <2>2, <2>3
<1>6. ASSUME NEW k \in stored, Beyond(q, cursor[i], k), ~PastEnd(q, k)
      PROVE  k \in ahead
  <2>1. k \in Key /\ Entered(q, k)
    BY <1>2, <1>5, <1>6
  <2>2. InRange(q, k)
    BY <1>1, <1>6, <2>1, DomainIsRange
  <2>. QED
    BY <1>2, <1>6, <2>2
<1>7. IsClosedAhead(q, stored, ahead)
  <2>1. \A j, k \in Nat : Beyond(q, cursor[i], j) /\ Reaches(q, j, k) => Beyond(q, cursor[i], k)
    BY <1>3, SMT DEF Beyond, Reaches
  <2>. QED
    BY <1>2, <1>3, <1>6, <2>1 DEF IsClosedAhead
<1>8. {k \in ahead : ~PastEnd(q, k)} = From(q, stored, Step(i))
  <2>1. ahead \in SUBSET stored /\ stored \in SUBSET Key /\ q \in Queries
    BY <1>1, <1>2
  <2>. HIDE DEF ahead, q
  <2>. QED
    BY <1>4, <1>7, <2>1, RestFrom, SMT
<1>9. Rest(i) \ {cursor[i]} = {k \in ahead : ~PastEnd(q, k)}
  <2>1. Rest(i) \ {cursor[i]} = {k \in stored : ~PastEnd(q, k) /\ Beyond(q, cursor[i], k)}
    BY CursorIsFirst DEF stored
  <2>. QED
    BY <1>2, <1>6, <2>1
<1>10. Step(i) # nil => Step(i) \in ks /\ Entered(q, Step(i))
  <2>1. Step(i) # nil => Step(i) \in ahead
    BY <1>4 DEF IsFirst
  <2>. QED
    BY <1>2, <1>5, <2>1
<1>. QED
  BY <1>8, <1>9, <1>10 DEF stored, ks

(* Where the cursor of a new iterator is put. *)
LEMMA OpenIsFirst ==
  ASSUME backend \in AllBackends, NEW q \in Queries, NEW content
  PROVE  LET ks == CursorKeys(q, content)
             k == StartOf(ks, q)
         IN  /\ k # nil => k \in ks /\ Entered(q, k)
             /\ From(q, Stored(content), k) =
                  {j \in Key : KV!InRange(q, j) /\ content[j] # Absent}
<1>. DEFINE stored == Stored(content)
            ks == CursorKeys(q, content)
            entered == {k \in ks : Entered(q, k)}
<1>1. /\ stored \in SUBSET Key /\ ks \in SUBSET stored
      /\ stored = {k \in Key : content[k] # Absent}
      /\ \A k \in stored : InRange(q, k) => k \in ks
  BY DEF Stored, CursorKeys
<1>. HIDE DEF stored, ks
<1>2. ks \in SUBSET Key
  BY <1>1
<1>3. IsFirst(entered, q.reverse, StartOf(ks, q))
  BY <1>2, StartIsFirst
<1>4. \A k \in stored : InRange(q, k) <=> k \in entered /\ ~PastEnd(q, k)
  BY <1>1, DomainIsRange
<1>5. IsClosedAhead(q, stored, entered)
  <2>. SUFFICES ASSUME NEW j \in entered, NEW k \in stored, Reaches(q, j, k), ~PastEnd(q, k)
                PROVE  k \in entered
    BY DEF IsClosedAhead
  <2>1. j \in Nat /\ k \in Nat /\ k \in Key /\ Entered(q, j)
    BY <1>1, KeyFacts
  <2>2. Entered(q, k)
    <3>1. CASE q.reverse
      <4>1. q.end = nil \/ (q.end \in Nat /\ j < q.end /\ k <= j)
        BY <2>1, <3>1, QueryFacts DEF Entered, Reaches
      <4>2. q.end = nil \/ k < q.end
        BY <2>1, <4>1, SMT
      <4>. QED
        BY <3>1, <4>2 DEF Entered
    <3>2. CASE ~q.reverse
      <4>1. q.start = nil \/ (q.start \in Nat /\ q.start <= j /\ j <= k)
        BY <2>1, <3>2, QueryFacts DEF Entered, Reaches
      <4>2. q.start = nil \/ q.start <= k
        BY <2>1, <4>1, SMT
      <4>. QED
        BY <3>2, <4>2 DEF Entered
    <3>. QED
      BY <3>1, <3>2
  <2>3. InRange(q, k)
    BY <2>1, <2>2, DomainIsRange
  <2>. QED
    BY <1>4, <2>3
<1>6. {k \in entered : ~PastEnd(q, k)} = From(q, stored, StartOf(ks, q))
  <2>1. entered \in SUBSET stored /\ stored \in SUBSET Key
    BY <1>1
  <2>. HIDE DEF entered
  <2>. QED
    BY <1>3, <1>5, <2>1, RestFrom, SMT
<1>7. {k \in entered : ~PastEnd(q, k)} = {j \in Key : KV!InRange(q, j) /\ content[j] # Absent}
  <2>1. \A j \in Key : KV!InRange(q, j) <=> InRange(q, j)
    BY DomainIsRange
  <2>. QED
    BY <1>1, <1>4, <2>1
<1>8. StartOf(ks, q) # nil => StartOf(ks, q) \in ks /\ Entered(q, StartOf(ks, q))
  BY <1>3 DEF IsFirst
<1>. QED
  BY <1>6, <1>7, <1>8 DEF stored, ks

-----------------------------------------------------------------------------
(* The abstract variables that are not variables of DiskDB. *)
Rests == [i \in Iter |-> Rest(i)]
Rets == [c \in Client |-> IF pend[c] = nil THEN ret[c] ELSE pend[c]]

abstractVars == <<Store, batch, owner, query, view, Rests, failed, closed, Rets>>

LEMMA ReplyMaps ==
  ASSUME Types, NEW c \in Client, NEW r, Idle(c), Reply(c, r), UNCHANGED pend
  PROVE  KV!Reply(c, r)
<1>1. pend[c] = nil /\ ret' = [ret EXCEPT ![c] = r] /\ pend' = pend
  BY DEF Idle, Reply
<1>2. Rets' = [Rets EXCEPT ![c] = r]
  BY <1>1 DEF Rets, Types, CallTypes
<1>. QED
  BY <1>2 DEF KV!Reply, Rets

LEMMA RestsUnchanged ==
  ASSUME \A i \in Iter : Rest(i)' = Rest(i)
  PROVE  UNCHANGED Rests
BY DEF Rests

LEMMA AnswerMaps ==
  ASSUME Types, CursorInv, NEW c \in Client, NEW r, Answer(c, r)
  PROVE  /\ KV!Reply(c, r)
         /\ UNCHANGED <<Store, batch, owner, query, view, Rests, failed, closed>>
         /\ CursorInv'
<1>1. KV!Reply(c, r)
  BY ReplyMaps DEF Answer
<1>2. UNCHANGED <<backend, versions, batch, iterVars>>
  BY DEF Answer
<1>3. CursorInv' /\ UNCHANGED Rests
  BY <1>2, CursorFrame, RestsUnchanged
<1>. QED
  BY <1>1, <1>2, <1>3 DEF Store, iterVars

(* The statuses and results of the two modules are the same records. *)
LEMMA SameResults ==
  /\ \A st : KV!Status(st) = Status(st)
  /\ \A st, k, v : KV!Result(st, k, v) = Result(st, k, v)
BY DEF KV!Status, KV!Result, Status, Result

-----------------------------------------------------------------------------
(***************************************************************************)
(* Each step is a step of KVStore or changes nothing of it, and preserves  *)
(* CursorInv.                                                              *)
(***************************************************************************)
Simulated == CursorInv' /\ (KV!DBNext \/ UNCHANGED abstractVars)

LEMMA AnswerSimulated ==
  ASSUME Types, CursorInv, NEW c \in Client, NEW st, Answer(c, Status(st)),
         \/ st \in {"errKeyEmpty", "errValueNil", "inspect", "error"}
         \/ st = "errBatchClosed" /\ batch[c] = nil
  PROVE  Simulated
<1>1. /\ KV!Reply(c, KV!Status(st)) /\ CursorInv'
      /\ UNCHANGED <<Store, batch, owner, query, view, Rests, failed, closed>>
  BY AnswerMaps, SameResults
<1>. USE DEF Rests, KV!iterVars
<1>2. CASE st \in {"errKeyEmpty", "errValueNil"}
  <2>1. KV!Refuse(c)
    BY <1>1, <1>2, SameResults DEF KV!Refuse, Status
  <2>. QED
    BY <1>1, <2>1 DEF Simulated, KV!DBNext
<1>3. CASE st = "inspect"
  <2>1. KV!NoEffect(c)
    BY <1>1, <1>3 DEF KV!NoEffect
  <2>. QED
    BY <1>1, <2>1 DEF Simulated, KV!DBNext
<1>4. CASE st = "error"
  <2>1. KV!CallFails(c)
    BY <1>1, <1>4 DEF KV!CallFails
  <2>. QED
    BY <1>1, <2>1 DEF Simulated, KV!DBNext
<1>5. CASE st = "errBatchClosed" /\ batch[c] = nil
  <2>1. KV!BatchIsClosed(c)
    BY <1>1, <1>5 DEF KV!BatchIsClosed
  <2>. QED
    BY <1>1, <2>1 DEF Simulated, KV!DBNext
<1>. QED
  BY <1>2, <1>3, <1>4, <1>5

LEMMA ReadSimulated ==
  ASSUME Types, CursorInv, NEW c \in Client, NEW k \in KeyArg, Get(c, k) \/ Has(c, k)
  PROVE  Simulated
<1>1. CASE \/ k = EmptyKey /\ Answer(c, Result("errKeyEmpty", k, nil))
           \/ Answer(c, Status("error"))
  BY <1>1, Refusals, AnswerSimulated
<1>2. CASE /\ k # EmptyKey
           /\ \/ Answer(c, Result("get", k, IF Store[k] = Absent THEN nil ELSE Store[k]))
              \/ Answer(c, Result(IF Store[k] = Absent THEN "false" ELSE "true", k, nil))
  <2>1. /\ \/ KV!Reply(c, KV!Result("get", k, IF Store[k] = Absent THEN nil ELSE Store[k]))
           \/ KV!Reply(c, KV!Result(IF Store[k] = Absent THEN "false" ELSE "true", k, nil))
        /\ CursorInv'
        /\ UNCHANGED <<Store, batch, owner, query, view, Rests, failed, closed>>
    <3>1. PICK v, st : /\ v = IF Store[k] = Absent THEN nil ELSE Store[k]
                       /\ st = IF Store[k] = Absent THEN "false" ELSE "true"
      OBVIOUS
    <3>2. \/ Answer(c, KV!Result("get", k, v))
          \/ Answer(c, KV!Result(st, k, nil))
      BY <1>2, <3>1, SameResults
    <3>3. /\ KV!Reply(c, KV!Result("get", k, v)) \/ KV!Reply(c, KV!Result(st, k, nil))
          /\ CursorInv'
          /\ UNCHANGED <<Store, batch, owner, query, view, Rests, failed, closed>>
      BY <3>2, AnswerMaps
    <3>. QED
      BY <3>1, <3>3 DEF KV!Reply
  <2>2. KV!Lookup(c, k)
    BY <2>1 DEF KV!Lookup, Rests, KV!iterVars
  <2>3. k \in Key
    BY <1>2 DEF KeyArg
  <2>. QED
    BY <2>1, <2>2, <2>3 DEF Simulated, KV!DBNext
<1>. QED
  BY <1>1, <1>2 DEF Get, Has, Fails

(* A commit changes the store at once; what it returns later shows already. *)
LEMMA CommitMaps ==
  ASSUME Types, CursorInv, NEW c \in Client, NEW ops \in Seq(Op), NEW sync, NEW r \in Results,
         Commit(c, ops, sync, r)
  PROVE  /\ KV!Reply(c, r) /\ Store' = AfterOps(Store, ops)
         /\ UNCHANGED <<owner, query, view, Rests, failed, closed>>
         /\ CursorInv'
<1>1. Store' = AfterOps(Store, ops)
  <2>. DEFINE after == AfterOps(Store, ops)
  <2>1. versions'[Len(versions')] = [number |-> written + 1, content |-> after]
    BY CommitVersions DEF Types
  <2>. HIDE DEF after
  <2>2. Store' = after
    BY <2>1, SMT DEF Store
  <2>. QED
    BY <2>2 DEF after
<1>2. UNCHANGED <<backend, iterVars>> /\ Idle(c)
  BY DEF Commit
<1>3. CursorInv' /\ UNCHANGED Rests
  BY <1>2, CursorFrame, RestsUnchanged
<1>4. KV!Reply(c, r)
  <2>1. CASE Reply(c, r) /\ UNCHANGED pend
    BY <1>2, <2>1, ReplyMaps
  <2>2. CASE pend' = [pend EXCEPT ![c] = r] /\ UNCHANGED ret
    <3>1. r # nil
      BY DiskAssumption
    <3>2. Rets' = [Rets EXCEPT ![c] = r]
      BY <2>2, <3>1 DEF Rets, Types, CallTypes
    <3>. QED
      BY <3>2 DEF KV!Reply, Rets
  <2>. QED
    BY <2>1, <2>2 DEF Commit
<1>. QED
  BY <1>1, <1>2, <1>3, <1>4 DEF iterVars

LEMMA PutSimulated ==
  ASSUME Types, CursorInv, NEW c \in Client, NEW op \in Op, NEW sync, Put(c, op, sync)
  PROVE  Simulated
<1>1. CASE Answer(c, Status("error"))
  BY <1>1, AnswerSimulated
<1>2. CASE Commit(c, <<op>>, sync, Result("set", op.key, op.value)) /\ UNCHANGED batch
  <2>1. /\ <<op>> \in Seq(Op)
        /\ op.key \in Key /\ op.value \in Value \cup {Absent}
    <3>1. <<op>> \in Seq(Op)
      BY SMT
    <3>. QED
      BY <3>1 DEF Op
  <2>2. Result("set", op.key, op.value) \in Results
    BY <2>1, ResultType DEF KeyArg, ValueArg
  <2>3. /\ KV!Reply(c, KV!Result("set", op.key, op.value))
        /\ Store' = AfterOps(Store, <<op>>) /\ CursorInv'
        /\ UNCHANGED <<owner, query, view, Rests, failed, closed>>
    BY <1>2, <2>1, <2>2, CommitMaps, SameResults
  <2>4. Store' = [Store EXCEPT ![op.key] = op.value]
    BY <2>3, AfterOneOp, VersionFacts DEF Types
  <2>5. KV!Put(c, op.key, op.value)
    BY <1>2, <2>3, <2>4 DEF KV!Put, Rests, KV!iterVars
  <2>. QED
    BY <2>1, <2>3, <2>5 DEF Simulated, KV!DBNext
<1>. QED
  BY <1>1, <1>2 DEF Put, Fails

LEMMA BatchMaps ==
  ASSUME Types, CursorInv, NEW c \in Client, NEW ops, NEW r, ChangeBatch(c, ops, r)
  PROVE  /\ KV!Reply(c, r) /\ batch' = [batch EXCEPT ![c] = ops]
         /\ UNCHANGED <<Store, owner, query, view, Rests, failed, closed>>
         /\ CursorInv'
<1>1. KV!Reply(c, r)
  BY ReplyMaps DEF ChangeBatch
<1>2. UNCHANGED <<backend, versions, iterVars>>
  BY DEF ChangeBatch
<1>3. CursorInv' /\ UNCHANGED Rests
  BY <1>2, CursorFrame, RestsUnchanged
<1>. QED
  BY <1>1, <1>2, <1>3 DEF Store, iterVars, ChangeBatch

LEMMA EditSimulated ==
  ASSUME Types, CursorInv, NEW c \in Client,
         NewBatch(c) \/ BatchClose(c) \/ \E op \in Op : AppendOp(c, op)
  PROVE  Simulated
<1>. USE DEF KV!iterVars, Rests
<1>1. CASE NewBatch(c)
  <2>1. KV!EditBatch(c) /\ CursorInv'
    BY <1>1, BatchMaps, SameResults DEF NewBatch, KV!EditBatch
  <2>. QED
    BY <2>1 DEF Simulated, KV!DBNext
<1>2. CASE BatchClose(c)
  <2>1. KV!EditBatch(c) /\ CursorInv'
    BY <1>2, BatchMaps, SameResults DEF BatchClose, KV!EditBatch
  <2>. QED
    BY <2>1 DEF Simulated, KV!DBNext
<1>3. ASSUME NEW op \in Op, AppendOp(c, op)
      PROVE  Simulated
  <2>1. CASE \/ batch[c] = nil /\ Answer(c, Status("errBatchClosed"))
             \/ Answer(c, Status("error"))
    BY <2>1, AnswerSimulated
  <2>2. CASE /\ batch[c] # nil
             /\ ChangeBatch(c, Append(batch[c], op), Result("append", op.key, op.value))
    <3>1. KV!EditBatch(c) /\ CursorInv'
      BY <2>2, BatchMaps, SameResults DEF KV!EditBatch
    <3>. QED
      BY <3>1 DEF Simulated, KV!DBNext
  <2>. QED
    BY <1>3, <2>1, <2>2 DEF AppendOp, Fails
<1>. QED
  BY <1>1, <1>2, <1>3

LEMMA WriteSimulated ==
  ASSUME Types, CursorInv, NEW c \in Client, NEW sync, BatchWrite(c, sync)
  PROVE  Simulated
<1>. USE DEF KV!iterVars, Rests
<1>1. CASE \/ batch[c] = nil /\ Answer(c, Status("errBatchClosed"))
           \/ Answer(c, Status("error"))
  BY <1>1, AnswerSimulated
<1>2. CASE ChangeBatch(c, nil, Status("error"))
  <2>1. KV!CallFails(c) /\ CursorInv'
    BY <1>2, BatchMaps, SameResults DEF KV!CallFails
  <2>. QED
    BY <2>1 DEF Simulated, KV!DBNext
<1>3. CASE /\ batch[c] # nil /\ Commit(c, batch[c], sync, Status("write"))
           /\ batch' = [batch EXCEPT ![c] = nil]
  <2>1. batch[c] \in Seq(Op)
    BY <1>3 DEF Types, CallTypes
  <2>2. KV!AreValid(batch[c])
    <3>1. \A n \in DOMAIN batch[c] : batch[c][n] \in Op
      BY <2>1, SMT
    <3>2. \A op \in Op : op.key \in Key /\ op.value \in Value \cup {Absent}
      BY DEF Op
    <3>. QED
      BY <3>1, <3>2 DEF KV!AreValid
  <2>3. Status("write") \in Results
    <3>1. EmptyKey \in KeyArg /\ nil \in ValueArg \cup {Absent}
      BY DEF KeyArg, ValueArg
    <3>. QED
      BY <3>1, ResultType
  <2>4. /\ KV!Reply(c, KV!Status("write"))
        /\ Store' = AfterOps(Store, batch[c]) /\ CursorInv'
        /\ UNCHANGED <<owner, query, view, Rests, failed, closed>>
    BY <1>3, <2>1, <2>3, CommitMaps, SameResults
  <2>5. Store' = KV!AfterOps(Store, batch[c])
    BY <2>4 DEF AfterOps, KV!AfterOps
  <2>6. KV!WriteBatch(c)
    BY <1>3, <2>2, <2>4, <2>5 DEF KV!WriteBatch
  <2>. QED
    BY <2>4, <2>6 DEF Simulated, KV!DBNext
<1>. QED
  BY <1>1, <1>2, <1>3 DEF BatchWrite, BatchFails, Fails

-----------------------------------------------------------------------------
(* A step on one iterator. *)
SameIterator(i) ==
  /\ owner'[i] = owner[i] /\ query'[i] = query[i] /\ view'[i] = view[i]
  /\ cursor'[i] = cursor[i] /\ isInvalid'[i] = isInvalid[i] /\ failed'[i] = failed[i]
  /\ closed'[i] = closed[i]

LEMMA OneIterator ==
  ASSUME CursorInv, NEW i \in Iter, UNCHANGED backend, CursorOK(i)',
         \A j \in Iter : j # i => SameIterator(j)
  PROVE  CursorInv' /\ Rests' = [Rests EXCEPT ![i] = Rest(i)']
<1>1. ASSUME NEW j \in Iter, j # i
      PROVE  CursorOK(j)' /\ Rest(j)' = Rest(j)
  <2>1. SameIterator(j) /\ CursorOK(j)
    BY <1>1 DEF CursorInv
  <2>2. CursorOK(j)'
    BY <2>1 DEF SameIterator, CursorOK, CursorKeys
  <2>3. Rest(j)' = Rest(j)
    BY <2>1 DEF SameIterator, Rest, Valid
  <2>. QED
    BY <2>2, <2>3
<1>2. CursorInv'
  BY <1>1 DEF CursorInv
<1>3. \A j \in Iter : Rests'[j] = IF j = i THEN Rest(i)' ELSE Rests[j]
  BY <1>1 DEF Rests
<1>. QED
  BY <1>2, <1>3 DEF Rests

LEMMA OpenSimulated ==
  ASSUME Types, CursorInv, NEW c \in Client, NEW i \in Iter, NEW q \in Query,
         EmptyKey \notin {q.start, q.end}, Open(c, i, q)
  PROVE  Simulated
<1>1. PICK content, k : content = Store /\ k = StartOf(CursorKeys(q, content), q)
  OBVIOUS
<1>2. /\ owner[i] = NoOne /\ owner' = [owner EXCEPT ![i] = c]
      /\ query' = [query EXCEPT ![i] = q] /\ view' = [view EXCEPT ![i] = content]
      /\ MoveTo(i, k)
      /\ UNCHANGED <<backend, versions, batch, pend, ret, isInvalid, closed>>
  BY <1>1 DEF Open
<1>3. /\ q \in Queries /\ backend \in AllBackends /\ c # NoOne
  BY DiskAssumption DEF Types, DiskTypes
<1>4. /\ k # nil => k \in CursorKeys(q, content) /\ Entered(q, k)
      /\ From(q, Stored(content), k) = {j \in Key : KV!InRange(q, j) /\ content[j] # Absent}
  BY <1>1, <1>3, OpenIsFirst
<1>5. ~isInvalid[i] /\ ~failed[i] /\ ~closed[i]
  BY <1>2 DEF CursorInv, CursorOK
<1>6. /\ owner'[i] = c /\ query'[i] = q /\ view'[i] = content
      /\ isInvalid'[i] = isInvalid[i] /\ closed'[i] = closed[i]
      /\ \A j \in Iter : j # i => SameIterator(j)
  BY <1>2 DEF Types, IterTypes, MoveTo, SameIterator
<1>7. /\ UNCHANGED <<Store, batch, Rets>>
  BY <1>2 DEF Store, Rets
<1>8. CASE cursor' = [cursor EXCEPT ![i] = k] /\ UNCHANGED failed
  <2>1. cursor'[i] = k /\ failed'[i] = failed[i]
    BY <1>8 DEF Types, IterTypes
  <2>2. CursorOK(i)'
    BY <1>2, <1>3, <1>4, <1>6, <2>1 DEF CursorOK, CursorKeys
  <2>3. Rest(i)' = From(q, Stored(content), k)
    BY <1>5, <1>6, <2>1 DEF Rest, Valid, From, Reaches
  <2>4. CursorInv' /\ Rests' = [Rests EXCEPT ![i] = Rest(i)']
    BY <1>2, <1>6, <2>2, OneIterator
  <2>5. Rests' = [Rests EXCEPT ![i] = {j \in Key : KV!InRange(q, j) /\ Store[j] # Absent}]
    BY <1>1, <1>4, <2>3, <2>4
  <2>6. KV!OpenIterator(c, i, q)
    BY <1>1, <1>2, <1>7, <1>8, <2>5 DEF KV!OpenIterator, Rests, Rets
  <2>. QED
    BY <2>4, <2>6 DEF Simulated, KV!DBNext
<1>9. CASE /\ backend \in LevelLike /\ cursor' = [cursor EXCEPT ![i] = nil]
           /\ failed' = [failed EXCEPT ![i] = TRUE]
  <2>1. cursor'[i] = nil
    BY <1>9 DEF Types, IterTypes
  <2>2. CursorOK(i)'
    BY <1>3, <1>6, <2>1 DEF CursorOK
  <2>3. Rest(i)' = {}
    BY <2>1 DEF Rest, Valid
  <2>4. CursorInv' /\ Rests' = [Rests EXCEPT ![i] = Rest(i)']
    BY <1>2, <1>6, <2>2, OneIterator
  <2>5. KV!Fail(i)
    BY <1>9, <2>3, <2>4 DEF KV!Fail, Rests
  <2>6. KV!OpenIterator(c, i, q)
    BY <1>1, <1>2, <1>7, <2>5 DEF KV!OpenIterator, Rets
  <2>. QED
    BY <2>4, <2>6 DEF Simulated, KV!DBNext
<1>. QED
  BY <1>2, <1>8, <1>9 DEF MoveTo

LEMMA NextSimulated ==
  ASSUME Types, CursorInv, NEW c \in Client, NEW i \in Iter, Uses(c, i), Valid(i),
         MoveTo(i, Step(i)),
         UNCHANGED <<backend, versions, batch, pend, ret, owner, query, view, isInvalid, closed>>
  PROVE  Simulated
<1>1. PICK k : k = Step(i)
  OBVIOUS
<1>2. /\ owner[i] = c /\ ~closed[i] /\ c # NoOne /\ ~isInvalid[i]
      /\ failed[i] => backend = "badgerdb"
  BY DiskAssumption DEF Uses, Valid
<1>3. /\ k # nil => k \in CursorKeys(query[i], view[i]) /\ Entered(query[i], k)
      /\ Rest(i) \ {cursor[i]} = From(query[i], Stored(view[i]), k)
  BY <1>1, <1>2, NextIsFirst
<1>4. Rest(i) # {} /\ KV!First(query[i], Rest(i)) = cursor[i]
  BY <1>2, CursorIsFirst
<1>5. \A j \in Iter : j # i => SameIterator(j)
  BY DEF Types, IterTypes, MoveTo, SameIterator
<1>6. UNCHANGED <<Store, batch, owner, query, view, closed, Rets>>
  BY DEF Store, Rets
<1>7. CASE cursor' = [cursor EXCEPT ![i] = k] /\ UNCHANGED failed
  <2>1. cursor'[i] = k /\ failed'[i] = failed[i]
    BY <1>7 DEF Types, IterTypes
  <2>2. CursorOK(i)'
    BY <1>2, <1>3, <2>1 DEF CursorOK, CursorKeys
  <2>3. Rest(i)' = From(query[i], Stored(view[i]), k)
    BY <1>2, <2>1 DEF Rest, Valid, From, Reaches
  <2>4. CursorInv' /\ Rests' = [Rests EXCEPT ![i] = Rest(i) \ {KV!First(query[i], Rest(i))}]
    BY <1>3, <1>4, <1>5, <2>2, <2>3, OneIterator
  <2>5. KV!Advance(c, i)
    BY <1>2, <1>4, <1>6, <1>7, <2>4 DEF KV!Advance, Rests, Rets
  <2>. QED
    BY <2>4, <2>5 DEF Simulated, KV!DBNext
<1>8. CASE /\ cursor' = [cursor EXCEPT ![i] = nil]
           /\ failed' = [failed EXCEPT ![i] = TRUE]
  <2>1. cursor'[i] = nil
    BY <1>8 DEF Types, IterTypes
  <2>2. CursorOK(i)' /\ Rest(i)' = {}
    BY <1>2, <2>1 DEF CursorOK, Rest, Valid
  <2>3. CursorInv' /\ Rests' = [Rests EXCEPT ![i] = {}]
    BY <1>5, <2>2, OneIterator
  <2>4. KV!Fail(i)
    BY <1>8, <2>3 DEF KV!Fail, Rests
  <2>5. KV!IteratorFails(c, i)
    BY <1>2, <1>6, <2>4 DEF KV!IteratorFails, Rets
  <2>. QED
    BY <2>3, <2>5 DEF Simulated, KV!DBNext
<1>. QED
  BY <1>1, <1>7, <1>8 DEF MoveTo

(* The flag isInvalid is set only where nothing was left. *)
LEMMA NoteChangesNothing ==
  ASSUME Types, CursorInv, NEW c \in Client, NEW i \in Iter, NEW who, Uses(c, i),
         NoteInvalid(i, who), UNCHANGED <<backend, owner, query, view, cursor, failed, closed>>
  PROVE  CursorInv' /\ UNCHANGED Rests
<1>1. owner[i] = c /\ c # NoOne
  BY DiskAssumption DEF Uses
<1>2. isInvalid'[i] <=> isInvalid[i] \/ (~Valid(i) /\ backend \in who)
  BY DEF NoteInvalid, Types, IterTypes
<1>3. \A j \in Iter : j # i => SameIterator(j)
  BY DEF NoteInvalid, Types, IterTypes, SameIterator
<1>4. CursorOK(i)'
  BY <1>1 DEF CursorInv, CursorOK, CursorKeys
<1>5. Valid(i)' <=> Valid(i)
  BY <1>2 DEF Valid
<1>6. Rest(i)' = Rest(i)
  BY <1>5 DEF Rest
<1>7. CursorInv' /\ Rests' = [Rests EXCEPT ![i] = Rest(i)]
  BY <1>3, <1>4, <1>6, OneIterator
<1>. QED
  BY <1>7 DEF Rests

LEMMA MethodSimulated ==
  ASSUME Types, CursorInv, NEW c \in Client, NEW i \in Iter,
         \/ CallValid(c, i) \/ Close(c, i)
         \/ Uses(c, i) /\ \E who \in SUBSET AllBackends : Panic(c, i, who)
         \/ Uses(c, i) /\ Valid(i) /\ ValueFails(c, i)
         \/ Uses(c, i) /\ Valid(i) /\ Answer(c, Result("item", cursor[i], view[i][cursor[i]]))
  PROVE  Simulated
<1>. USE DEF KV!iterVars, Rests
<1>1. CASE CallValid(c, i)
  <2>1. CursorInv' /\ UNCHANGED Rests
    BY <1>1, NoteChangesNothing DEF CallValid
  <2>2. UNCHANGED <<Store, batch, owner, query, view, failed, closed, Rets>>
    BY <1>1 DEF CallValid, Store, Rets
  <2>. QED
    BY <2>1, <2>2 DEF Simulated, abstractVars
<1>2. ASSUME NEW who, Uses(c, i), Panic(c, i, who)
      PROVE  Simulated
  <2>1. CursorInv' /\ UNCHANGED Rests
    BY <1>2, NoteChangesNothing DEF Panic
  <2>2. KV!Reply(c, KV!Status("panic"))
    BY <1>2, ReplyMaps, SameResults DEF Panic, Uses
  <2>3. UNCHANGED <<Store, batch, owner, query, view, failed, closed>>
    BY <1>2 DEF Panic, Store
  <2>4. owner[i] = c /\ Rest(i) = {}
    BY <1>2 DEF Uses, Panic, Rest
  <2>5. KV!IteratorPanics(c, i)
    BY <2>1, <2>2, <2>3, <2>4 DEF KV!IteratorPanics
  <2>. QED
    BY <2>1, <2>5 DEF Simulated, KV!DBNext
<1>3. CASE Uses(c, i) /\ Valid(i) /\ ValueFails(c, i)
  <2>1. owner[i] = c /\ Rest(i) # {} /\ c # NoOne
    BY <1>3, CursorIsFirst, DiskAssumption DEF Uses
  <2>2. \A j \in Iter : j # i => SameIterator(j)
    BY <1>3 DEF ValueFails, Types, IterTypes, SameIterator
  <2>3. CursorOK(i)'
    BY <1>3, <2>1 DEF ValueFails, CursorInv, CursorOK, CursorKeys
  <2>4. Rest(i)' = Rest(i)
    <3>1. Valid(i)' /\ Valid(i)
      BY <1>3 DEF ValueFails, Valid
    <3>. QED
      BY <1>3, <3>1 DEF ValueFails, Rest
  <2>5. CursorInv' /\ Rests' = [Rests EXCEPT ![i] = Rest(i)]
    BY <1>3, <2>2, <2>3, <2>4, OneIterator DEF ValueFails
  <2>6. UNCHANGED Rests
    BY <2>5
  <2>7. KV!Reply(c, KV!Status("error"))
    BY <1>3, ReplyMaps, SameResults DEF ValueFails, Uses
  <2>8. UNCHANGED <<Store, batch, owner, query, view, closed>> /\ failed' = [failed EXCEPT ![i] = TRUE]
    BY <1>3 DEF ValueFails, Store
  <2>9. KV!CurrentFails(c, i)
    BY <2>1, <2>6, <2>7, <2>8 DEF KV!CurrentFails
  <2>. QED
    BY <2>5, <2>9 DEF Simulated, KV!DBNext
<1>4. CASE Uses(c, i) /\ Valid(i) /\ Answer(c, Result("item", cursor[i], view[i][cursor[i]]))
  <2>1. /\ owner[i] = c /\ Rest(i) # {} /\ KV!First(query[i], Rest(i)) = cursor[i]
    BY <1>4, CursorIsFirst DEF Uses
  <2>2. PICK k, v : k = cursor[i] /\ v = view[i][cursor[i]]
    OBVIOUS
  <2>3. /\ KV!Reply(c, KV!Result("item", k, v)) /\ CursorInv'
        /\ UNCHANGED <<Store, batch, owner, query, view, Rests, failed, closed>>
    BY <1>4, <2>2, AnswerMaps, SameResults
  <2>4. KV!Current(c, i)
    <3>1. [j \in Iter |-> Rest(j)][i] = Rest(i)
      OBVIOUS
    <3>2. KV!First(query[i], [j \in Iter |-> Rest(j)][i]) = k /\ view[i][k] = v
      BY <2>1, <2>2, <3>1
    <3>. QED
      BY <2>1, <2>3, <3>1, <3>2 DEF KV!Current, KV!Reply
  <2>. QED
    BY <2>3, <2>4 DEF Simulated, KV!DBNext
<1>5. CASE Close(c, i)
  <2>1. /\ owner[i] = c /\ c # NoOne /\ closed' = [closed EXCEPT ![i] = TRUE] /\ closed'[i]
        /\ UNCHANGED <<backend, versions, batch, pend, ret, owner, query, view, cursor,
                       isInvalid, failed>>
    BY <1>5, DiskAssumption DEF Close, Uses, Types, IterTypes
  <2>2. \A j \in Iter : j # i => SameIterator(j)
    BY <1>5 DEF Close, Types, IterTypes, SameIterator
  <2>3. CursorOK(i)' /\ Rest(i)' = {}
    BY <2>1 DEF CursorInv, CursorOK, CursorKeys, Rest
  <2>4. CursorInv' /\ Rests' = [Rests EXCEPT ![i] = {}]
    BY <2>1, <2>2, <2>3, OneIterator
  <2>5. UNCHANGED <<Store, batch, owner, query, view, failed, Rets>>
    BY <2>1 DEF Store, Rets
  <2>6. KV!CloseIterator(c, i)
    BY <2>1, <2>4, <2>5 DEF KV!CloseIterator, Rets
  <2>. QED
    BY <2>4, <2>6 DEF Simulated, KV!DBNext
<1>. QED
  BY <1>1, <1>2, <1>3, <1>4, <1>5

-----------------------------------------------------------------------------
LEMMA CallSimulated ==
  ASSUME Types, CursorInv, NEW c \in Client, Call(c)
  PROVE  Simulated
<1>1. KeysOf(c) \subseteq KeyArg /\ ValuesOf(c) \subseteq ValueArg
  BY DEF KeysOf, ValuesOf, KeyArg, ValueArg
<1>2. CASE Inspect(c)
  BY <1>2, AnswerSimulated DEF Inspect, Fails
<1>3. ASSUME NEW k \in KeyArg, NEW v \in ValueArg, NEW sync \in BOOLEAN,
             Set(c, k, v, sync) \/ Delete(c, k, sync) \/ BatchSet(c, k, v) \/ BatchDelete(c, k)
      PROVE  Simulated
  <2>1. CASE \/ k = EmptyKey /\ Answer(c, Result("errKeyEmpty", k, nil))
             \/ v = nil /\ Answer(c, Result("errValueNil", EmptyKey, v))
    BY <2>1, Refusals, AnswerSimulated
  <2>2. /\ k # EmptyKey => [key |-> k, value |-> Absent] \in Op
        /\ k # EmptyKey /\ v # nil => [key |-> k, value |-> v] \in Op
    BY DEF KeyArg, ValueArg, Op
  <2>3. CASE \E op \in Op : Put(c, op, sync) \/ AppendOp(c, op)
    BY <2>3, PutSimulated, EditSimulated
  <2>. QED
    BY <1>3, <2>1, <2>2, <2>3 DEF Set, Delete, BatchSet, BatchDelete
<1>4. ASSUME NEW i \in Iter, NEW q \in Query, NewIterator(c, i, q)
      PROVE  Simulated
  <2>1. CASE \E k \in {q.start, q.end} : k = EmptyKey /\ Answer(c, Result("errKeyEmpty", k, nil))
    BY <2>1, Refusals, AnswerSimulated
  <2>2. CASE Fails(c)
    BY <2>2, AnswerSimulated DEF Fails
  <2>3. CASE EmptyKey \notin {q.start, q.end} /\ Open(c, i, q)
    BY <2>3, OpenSimulated
  <2>. QED
    BY <1>4, <2>1, <2>2, <2>3 DEF NewIterator
<1>5. ASSUME NEW i \in Iter, IteratorNext(c, i)
      PROVE  Simulated
  <2>1. {"boltdb"} \subseteq AllBackends
    BY DEF AllBackends
  <2>. QED
    BY <1>5, <2>1, NextSimulated, MethodSimulated DEF IteratorNext
<1>6. ASSUME NEW i \in Iter, CallValid(c, i) \/ ReadItem(c, i) \/ Close(c, i)
      PROVE  Simulated
  <2>1. {"boltdb", "rocksdb"} \subseteq AllBackends
    BY DEF AllBackends, LevelLike
  <2>. QED
    BY <1>6, <2>1, MethodSimulated DEF ReadItem
<1>7. ASSUME NEW k \in KeyArg, Get(c, k) \/ Has(c, k)
      PROVE  Simulated
  BY <1>7, ReadSimulated
<1>8. ASSUME NEW sync \in BOOLEAN, NewBatch(c) \/ BatchClose(c) \/ BatchWrite(c, sync)
      PROVE  Simulated
  BY <1>8, EditSimulated, WriteSimulated
<1>9. nil \in ValueArg /\ TRUE \in BOOLEAN
  BY DEF ValueArg
<1>10. CASE \E k \in KeysOf(c), sync \in BOOLEAN :
              Delete(c, k, sync) \/ \E v \in ValuesOf(c) : Set(c, k, v, sync)
  BY <1>1, <1>3, <1>9, <1>10
<1>11. CASE \E k \in KeysOf(c) : BatchDelete(c, k) \/ \E v \in ValuesOf(c) : BatchSet(c, k, v)
  BY <1>1, <1>3, <1>9, <1>11
<1>12. CASE NewBatch(c) \/ BatchClose(c) \/ \E sync \in BOOLEAN : BatchWrite(c, sync)
  BY <1>8, <1>9, <1>12
<1>13. CASE \E k \in KeysOf(c) : Get(c, k) \/ Has(c, k)
  BY <1>1, <1>7, <1>13
<1>14. CASE \E i \in Iter : \/ \E q \in Query : NewIterator(c, i, q)
                            \/ CallValid(c, i) \/ IteratorNext(c, i) \/ ReadItem(c, i)
                            \/ Close(c, i)
  BY <1>4, <1>5, <1>6, <1>14
<1>. QED
  BY <1>2, <1>10, <1>11, <1>12, <1>13, <1>14 DEF Call

(* The end of a sync shows only if it fails. *)
LEMMA SyncSimulated ==
  ASSUME Types, CursorInv, NEW c \in Client, withSync(c)
  PROVE  Simulated
<1>1. UNCHANGED <<backend, batch, iterVars>>
  BY DEF withSync, Acknowledge, EndSync
<1>2. CursorInv' /\ UNCHANGED Rests /\ UNCHANGED <<batch, owner, query, view, failed, closed>>
  BY <1>1, CursorFrame, RestsUnchanged DEF iterVars
<1>3. CASE EndSync(c, pend[c]) /\ versions' = <<versions[Len(versions)]>>
  <2>1. Store' = Store
    BY <1>3, SMT DEF Store
  <2>2. /\ pend[c] # nil /\ pend' = [pend EXCEPT ![c] = nil]
        /\ ret' = [ret EXCEPT ![c] = pend[c]]
    BY <1>3 DEF EndSync, Reply
  <2>3. \A d \in Client : (IF pend'[d] = nil THEN ret'[d] ELSE pend'[d])
                            = IF pend[d] = nil THEN ret[d] ELSE pend[d]
    BY <2>2 DEF Types, CallTypes
  <2>4. Rets' = Rets
    BY <2>3 DEF Rets
  <2>. QED
    BY <1>2, <2>1, <2>4 DEF Simulated, abstractVars
<1>4. CASE EndSync(c, Status("error")) /\ UNCHANGED versions
  <2>1. Store' = Store
    BY <1>4 DEF Store
  <2>2. PICK r : r = Status("error")
    OBVIOUS
  <2>3. pend' = [pend EXCEPT ![c] = nil] /\ ret' = [ret EXCEPT ![c] = r]
    BY <1>4, <2>2 DEF EndSync, Reply
  <2>4. Rets' = [Rets EXCEPT ![c] = r]
    BY <2>3 DEF Rets, Types, CallTypes
  <2>5. KV!Reply(c, KV!Status("error"))
    BY <2>2, <2>4, SameResults DEF KV!Reply, Rets
  <2>6. KV!CallFails(c)
    BY <1>2, <2>1, <2>5 DEF KV!CallFails, KV!iterVars, Rests
  <2>. QED
    BY <1>2, <2>6 DEF Simulated, KV!DBNext
<1>. QED
  BY <1>3, <1>4 DEF withSync, Acknowledge

LEMMA CrashRestarts ==
  ASSUME Types, Crash
  PROVE  CursorInv' /\ crashes' # crashes
<1>1. /\ owner' = [i \in Iter |-> NoOne] /\ cursor' = [i \in Iter |-> nil]
      /\ isInvalid' = [i \in Iter |-> FALSE] /\ failed' = [i \in Iter |-> FALSE]
      /\ closed' = [i \in Iter |-> FALSE]
  BY DEF Crash
<1>2. CursorInv'
  BY <1>1 DEF CursorInv, CursorOK
<1>3. crashes \in Nat /\ crashes' = crashes + 1
  BY DEF Crash, Types, DiskTypes
<1>4. crashes' # crashes
  BY <1>3, SMT
<1>. QED
  BY <1>2, <1>4

LEMMA StepImplements ==
  ASSUME Types, CursorInv, [Next]_vars
  PROVE  CursorInv' /\ [KV!DBNext \/ crashes' # crashes]_(KV!dbVars)
<1>1. CASE UNCHANGED vars
  <2>1. UNCHANGED <<backend, versions, batch, pend, ret, iterVars>>
    BY <1>1 DEF vars
  <2>2. CursorInv' /\ UNCHANGED Rests
    BY <2>1, CursorFrame, RestsUnchanged
  <2>3. UNCHANGED abstractVars
    BY <2>1, <2>2 DEF abstractVars, Store, Rets, iterVars
  <2>. QED
    BY <2>2, <2>3 DEF abstractVars, KV!dbVars, KV!iterVars, Rests, Rets
<1>2. CASE Simulated
  <2>1. CASE KV!DBNext
    BY <1>2, <2>1 DEF Simulated
  <2>2. CASE UNCHANGED abstractVars
    BY <1>2, <2>2 DEF Simulated, abstractVars, KV!dbVars, KV!iterVars, Rests, Rets
  <2>. QED
    BY <1>2, <2>1, <2>2 DEF Simulated
<1>3. CASE Crash
  BY <1>3, CrashRestarts
<1>. QED
  BY <1>1, <1>2, <1>3, CallSimulated, SyncSimulated DEF Next

LEMMA InitImplements ==
  ASSUME Init
  PROVE  CursorInv /\ KV!DBInit
<1>1. CursorInv
  BY DEF Init, CursorInv, CursorOK
<1>2. PICK content \in Opened : versions = <<[number |-> 0, content |-> content]>>
  BY DEF Init
<1>3. content \in Contents /\ content[EmptyKey] = Absent
  BY DiskAssumption
<1>4. Store = content
  BY <1>2, SMT DEF Store
<1>5. Rests = [i \in Iter |-> {}]
  <2>1. \A i \in Iter : Rest(i) = {}
    BY DEF Init, Rest, Valid
  <2>. QED
    BY <2>1 DEF Rests
<1>6. Rets = [c \in Client |-> KV!Status("none")]
  <2>1. \A c \in Client : pend[c] = nil /\ ret[c] = KV!Status("none")
    BY SameResults DEF Init
  <2>. QED
    BY <2>1 DEF Rets
<1>7. view \in [Iter -> Contents]
  BY NoContentIsClean DEF Init, Clean
<1>. QED
  BY <1>1, <1>3, <1>4, <1>5, <1>6, <1>7 DEF Init, KV!DBInit, Rests, Rets, Contents, KeyArg

(* Every on-disk backend implements KVStore between crashes: reads, writes   *)
(* and batches are atomic, and an iterator shows what its domain held when   *)
(* it was created, in order, in either direction and whatever its end        *)
(* points, or has an error; for any number of clients, iterators, keys and   *)
(* concurrent writes, and whichever calls of the library fail.               *)
THEOREM Implements == Spec => ImplementsKVStore
<1>1. Init => CursorInv /\ KV!DBInit
  BY InitImplements
<1>2. Types /\ CursorInv /\ [Next]_vars =>
        CursorInv' /\ [KV!DBNext \/ crashes' # crashes]_(KV!dbVars)
  BY StepImplements
<1>. QED
  BY <1>1, <1>2, BasicInvariant, PTL DEF Spec, ImplementsKVStore
=============================================================================
