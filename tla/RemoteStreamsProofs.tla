------------------------ MODULE RemoteStreamsProofs ------------------------
(***************************************************************************)
(* Proofs about RemoteStreams for any number of clients, streams and keys, *)
(* any window, and any number of writes, breaks and restarts.              *)
(***************************************************************************)
EXTENDS RemoteStreams, OpsProofs

(* Leaves are tried with Zenon, and with SMT where they say so. *)
USE Zenon

-----------------------------------------------------------------------------
(***************************************************************************)
(* What holds of a stream.  Its first part is about the values of one      *)
(* stream's variables, so that a step of another stream leaves it alone.   *)
(***************************************************************************)

(* j comes before k in the direction of q. *)
Before(q, j, k) == IF q.reverse THEN k < j ELSE j < k

(* The keys of a domain behind the current message. *)
Ahead(q, v, current) ==
  {k \in Domain(q, v) : current = nil \/ Before(q, current.key, k)}

(* The keys of the first n messages of a pipe, and those behind them. *)
KeysOf(p, n) == {p[m].key : m \in 1 .. n}
Behind(q, v, current, p, n) == Ahead(q, v, current) \ KeysOf(p, n)

ItemOf(q, v, keys) == Message(First(q, keys), v[First(q, keys)], FALSE)

(* A pipe holds the next items of the iterator, in order and without gaps. *)
InOrder(q, v, current, p) ==
  \A n \in 1 .. Len(p) :
    /\ Behind(q, v, current, p, n - 1) # {}
    /\ p[n] = ItemOf(q, v, Behind(q, v, current, p, n - 1))

(* The current message is an item of the iterator. *)
IsItem(q, v, current) ==
  current # nil => current.key \in Domain(q, v) /\ current.value = v[current.key]

(* The n-th answer of a GetStream, for the keys a and the contents r. *)
IsAnswer(a, r, n, m) ==
  ~m.failed =>
    /\ n <= Len(a) /\ n <= Len(r)
    /\ m.value = LET v == r[n][a[n]] IN IF v = Absent THEN nil ELSE v

AreAnswers(a, r, from, ms) == \A n \in DOMAIN ms : IsAnswer(a, r, from + n, ms[n])
FailsLast(ms) == \A n \in DOMAIN ms : ms[n].failed => n = Len(ms)
HasFailed(ms) == \E n \in DOMAIN ms : ms[n].failed

-----------------------------------------------------------------------------
IsFresh(i) ==
  /\ owner[i] = NoOne /\ handler[i] = "none" /\ receiver[i] = "none"
  /\ pipe[i] = <<>> /\ end[i] = nil
  /\ ~waits[i] /\ cur[i] = nil /\ err[i] = nil
  /\ it[i] = {} /\ itErr[i] = FALSE /\ view[i] = nil
  /\ asked[i] = <<>> /\ answers[i] = <<>> /\ taken[i] = 0 /\ reads[i] = <<>>

(* Of a stream of an iterator. *)
IterInv(i) ==
  /\ owner[i] # NoOne /\ receiver[i] = "none" /\ answers[i] = <<>>
  /\ query[i] \in Query
  /\ handler[i] \in {"Iterator", "handleIterator", "done"}
  /\ handler[i] = "Iterator" =>
       /\ cur[i] = nil /\ pipe[i] = <<>> /\ it[i] = {} /\ itErr[i] = FALSE
       /\ end[i] # "EOF" /\ err[i] # "EOF"
  /\ waits[i] => err[i] = nil
  /\ end[i] = nil => (view[i] = nil <=> handler[i] = "Iterator") /\ handler[i] # "done"
  /\ end[i] = "EOF" => view[i] # nil
  /\ view[i] = nil => pipe[i] = <<>> /\ cur[i] = nil /\ err[i] = nil
  /\ err[i] # nil => pipe[i] = <<>> /\ cur[i] = nil /\ end[i] # nil
  /\ IsItem(query[i], view[i], cur[i])
  /\ InOrder(query[i], view[i], cur[i], pipe[i])
  /\ handler[i] = "handleIterator" /\ end[i] = nil =>
       it[i] = IF itErr[i] THEN {} ELSE Behind(query[i], view[i], cur[i], pipe[i], Len(pipe[i]))
  /\ end[i] = "EOF" /\ err[i] = nil /\ ~itErr[i] =>
       Behind(query[i], view[i], cur[i], pipe[i], Len(pipe[i])) = {}

(* No more answers come. *)
NoMore(i) == end[i] # nil \/ (receiver[i] = "done" /\ handler[i] # "Send")

(* The number of answers that the client has, are under way, or being sent. *)
Sent(i) == Len(answers[i]) + Len(pipe[i]) + IF handler[i] = "Send" THEN 1 ELSE 0

(* Of a GetStream. *)
GetInv(i) ==
  /\ owner[i] # NoOne /\ receiver[i] # "none" /\ handler[i] \in {"range", "Send", "done"}
  /\ ~waits[i] /\ cur[i] = nil /\ err[i] = nil /\ view[i] = nil
  /\ Len(reads[i]) = taken[i] /\ taken[i] <= Len(asked[i]) /\ Len(asked[i]) <= MaxAsks
  /\ AreAnswers(asked[i], reads[i], 0, answers[i]) /\ FailsLast(answers[i])
  /\ AreAnswers(asked[i], reads[i], Len(answers[i]), pipe[i]) /\ FailsLast(pipe[i])
  /\ HasFailed(answers[i]) => pipe[i] = <<>> /\ NoMore(i)
  /\ HasFailed(pipe[i]) => NoMore(i)
  /\ receiver[i] \in {"offer", "last"} => out[i] \in Messages
  /\ receiver[i] = "offer" => ~out[i].failed
  /\ end[i] = nil =>
       /\ handler[i] = "Send" =>
            /\ sending[i] \in Messages
            /\ IsAnswer(asked[i], reads[i], Sent(i), sending[i])
            /\ sending[i].failed => receiver[i] = "done"
       /\ receiver[i] \in {"offer", "last"} =>
            IsAnswer(asked[i], reads[i], Sent(i) + 1, out[i])
       /\ receiver[i] = "recv" => taken[i] = Sent(i)
       /\ receiver[i] = "offer" => taken[i] = Sent(i) + 1

StreamInv(i) == IsFresh(i) \/ IterInv(i) \/ GetInv(i)

Inv == TypeOK /\ \A i \in Stream : StreamInv(i)

-----------------------------------------------------------------------------
(* The constants. *)

LEMMA Sentinels ==
  /\ Key \subseteq Nat /\ EmptyKey \notin Key /\ EmptyKey \in KeyArg /\ Key \subseteq KeyArg
  /\ EmptyValue \notin Value /\ EmptyKey \notin Value /\ Absent \notin Value
  /\ nil \notin KeyArg /\ nil \notin Value /\ nil # Absent
  /\ nil # "EOF" /\ nil # "error" /\ nil \notin Messages /\ nil \notin Contents
BY ServerAssumption, StreamAssumption DEF KeyArg, ValueArg

LEMMA DomainType ==
  ASSUME NEW q, NEW v
  PROVE  Domain(q, v) \subseteq Key /\ \A k \in Domain(q, v) : v[k] # Absent
BY DEF Domain

LEMMA Firsts ==
  ASSUME NEW q, NEW keys \in SUBSET Key, keys # {}
  PROVE  /\ First(q, keys) \in keys
         /\ \A j \in keys : j = First(q, keys) \/ Before(q, First(q, keys), j)
<1>. DEFINE OK(k) == \A j \in keys : IF q.reverse THEN j <= k ELSE k <= j
<1>1. keys \subseteq Nat /\ IsFiniteSet(keys)
  BY Sentinels, ServerAssumption, FS_Subset
<1>2. \E k \in keys : OK(k)
  <2>1. CASE q.reverse
    BY <1>1, <2>1, GreatestNat
  <2>2. CASE ~q.reverse
    BY <1>1, <2>2, LeastNat
  <2>. QED
    BY <2>1, <2>2
<1>3. PICK f : f = First(q, keys)
  OBVIOUS
<1>4. f \in keys /\ OK(f)
  BY <1>2, <1>3 DEF First
<1>5. ASSUME NEW j \in keys
      PROVE  j = f \/ Before(q, f, j)
  <2>1. f \in Nat /\ j \in Nat /\ (IF q.reverse THEN j <= f ELSE f <= j)
    BY <1>1, <1>4
  <2>2. CASE q.reverse
    BY <2>1, <2>2, SMT DEF Before
  <2>3. CASE ~q.reverse
    BY <2>1, <2>3, SMT DEF Before
  <2>. QED
    BY <2>2, <2>3
<1>. QED
  BY <1>3, <1>4, <1>5

LEMMA Ordered ==
  ASSUME NEW q, NEW a \in Nat, NEW b \in Nat
  PROVE  /\ ~Before(q, a, a) /\ ~(Before(q, a, b) /\ Before(q, b, a))
         /\ \A c \in Nat : Before(q, a, b) /\ Before(q, b, c) => Before(q, a, c)
<1>1. CASE q.reverse
  BY <1>1, SMT DEF Before
<1>2. CASE ~q.reverse
  BY <1>2, SMT DEF Before
<1>. QED
  BY <1>1, <1>2

-----------------------------------------------------------------------------
(* The messages of an iterator. *)

LEMMA ItemType ==
  ASSUME NEW q, NEW v \in Contents, NEW keys \in SUBSET Domain(q, v), keys # {}
  PROVE  /\ ItemOf(q, v, keys) \in Messages /\ ItemOf(q, v, keys).key = First(q, keys)
         /\ ItemOf(q, v, keys).failed = FALSE
         /\ IsItem(q, v, ItemOf(q, v, keys))
<1>1. PICK f, m : f = First(q, keys) /\ m = ItemOf(q, v, keys)
  OBVIOUS
<1>2. keys \in SUBSET Key
  BY DomainType
<1>3. f \in Domain(q, v) /\ f \in Key /\ v[f] # Absent
  BY <1>1, <1>2, Firsts, DomainType
<1>4. f \in KeyArg /\ v[f] \in Value
  BY <1>3, Sentinels DEF Contents
<1>5. m = [key |-> f, value |-> v[f], failed |-> FALSE]
  BY <1>1 DEF ItemOf, Message
<1>6. m \in Messages /\ m.key = f /\ m.value = v[f] /\ m.failed = FALSE
  BY <1>4, <1>5 DEF Messages
<1>. QED
  BY <1>1, <1>3, <1>6 DEF IsItem

(* The client takes the next item. *)
LEMMA TakeFirst ==
  ASSUME NEW q, NEW v \in Contents, NEW current, IsItem(q, v, current), Ahead(q, v, current) # {}
  PROVE  Ahead(q, v, ItemOf(q, v, Ahead(q, v, current))) =
           Ahead(q, v, current) \ {First(q, Ahead(q, v, current))}
<1>0. PICK A, m : A = Ahead(q, v, current) /\ m = ItemOf(q, v, A)
  OBVIOUS
<1>1. A \in SUBSET Domain(q, v) /\ A \in SUBSET Key /\ A # {}
  BY <1>0, DomainType DEF Ahead
<1>2. PICK f : f = First(q, A)
  OBVIOUS
<1>3. /\ f \in A /\ f \in Nat /\ m.key = f /\ m # nil
      /\ \A j \in A : j = f \/ Before(q, f, j)
  <2>1. f \in A /\ \A j \in A : j = f \/ Before(q, f, j)
    BY <1>1, <1>2, Firsts
  <2>2. m \in Messages /\ m.key = f
    BY <1>0, <1>1, <1>2, ItemType
  <2>. QED
    BY <1>1, <2>1, <2>2, Sentinels
<1>4. ASSUME NEW k \in Domain(q, v)
      PROVE  Before(q, f, k) <=> k \in A /\ k # f
  <2>1. k \in Nat
    BY DomainType, Sentinels
  <2>2. ASSUME Before(q, f, k)
        PROVE  k \in A
    <3>1. CASE current = nil
      BY <1>0, <3>1 DEF Ahead
    <3>2. CASE current # nil
      <4>1. current.key \in Nat
        BY <3>2, DomainType, Sentinels DEF IsItem
      <4>2. Before(q, current.key, f)
        BY <1>0, <1>3, <3>2 DEF Ahead
      <4>3. Before(q, current.key, k)
        BY <1>3, <2>1, <2>2, <4>1, <4>2, Ordered
      <4>. QED
        BY <1>0, <4>3 DEF Ahead
    <3>. QED
      BY <3>1, <3>2
  <2>. QED
    BY <1>3, <2>1, <2>2, Ordered
<1>5. Ahead(q, v, m) = {k \in Domain(q, v) : Before(q, f, k)}
  BY <1>3 DEF Ahead
<1>6. Ahead(q, v, m) = A \ {f}
  BY <1>1, <1>4, <1>5
<1>. QED
  BY <1>0, <1>2, <1>6

(* Pipes are sequences of messages. *)
LEMMA KeysOfSame ==
  ASSUME NEW p, NEW r, NEW n, \A m \in 1 .. n : p[m] = r[m]
  PROVE  KeysOf(p, n) = KeysOf(r, n)
BY DEF KeysOf

LEMMA BehindType ==
  ASSUME NEW q, NEW v, NEW current, NEW p, NEW n
  PROVE  Behind(q, v, current, p, n) \in SUBSET Domain(q, v)
BY DEF Behind, Ahead

LEMMA BehindNone ==
  ASSUME NEW q, NEW v, NEW current, NEW p
  PROVE  Behind(q, v, current, p, 0) = Ahead(q, v, current)
<1>1. 1 .. 0 = {}
  BY SMT
<1>. QED
  BY <1>1 DEF Behind, KeysOf

LEMMA EmptyInOrder ==
  ASSUME NEW q, NEW v, NEW current
  PROVE  InOrder(q, v, current, <<>>)
<1>1. 1 .. Len(<<>>) = {}
  BY SMT
<1>. QED
  BY <1>1 DEF InOrder

LEMMA TailFacts ==
  ASSUME NEW S, NEW p \in Seq(S), p # <<>>
  PROVE  /\ Head(p) = p[1] /\ Head(p) \in S /\ Tail(p) \in Seq(S)
         /\ Len(p) \in Nat /\ Len(p) >= 1 /\ Len(Tail(p)) = Len(p) - 1
         /\ \A n \in 1 .. Len(Tail(p)) : Tail(p)[n] = p[n + 1]
BY SMT

(* The client takes the first message of the pipe. *)
LEMMA BehindTail ==
  ASSUME NEW q, NEW v \in Contents, NEW current, IsItem(q, v, current),
         NEW p \in Seq(Messages), p # <<>>, InOrder(q, v, current, p),
         NEW n \in 0 .. (Len(p) - 1)
  PROVE  Behind(q, v, Head(p), Tail(p), n) = Behind(q, v, current, p, n + 1)
<1>1. PICK A, m, t : A = Ahead(q, v, current) /\ m = Head(p) /\ t = Tail(p)
  OBVIOUS
<1>2. /\ m = p[1] /\ Len(p) \in Nat /\ Len(p) >= 1 /\ Len(t) = Len(p) - 1
      /\ \A l \in 1 .. Len(t) : t[l] = p[l + 1]
  BY <1>1, TailFacts
<1>3. 1 \in 1 .. Len(p) /\ 1 - 1 = 0
  BY <1>2, SMT
<1>4. A # {} /\ m = ItemOf(q, v, A)
  <2>1. Behind(q, v, current, p, 1 - 1) = A
    BY <1>1, <1>3, BehindNone
  <2>2. Behind(q, v, current, p, 1 - 1) # {} /\ p[1] = ItemOf(q, v, Behind(q, v, current, p, 1 - 1))
    BY <1>3 DEF InOrder
  <2>. QED
    BY <1>2, <2>1, <2>2
<1>5. A \in SUBSET Domain(q, v)
  BY <1>1 DEF Ahead
<1>6. Ahead(q, v, m) = A \ {m.key}
  <2>1. Ahead(q, v, m) = A \ {First(q, A)}
    BY <1>1, <1>4, TakeFirst
  <2>. QED
    BY <1>4, <1>5, <2>1, ItemType
<1>7. KeysOf(p, n + 1) = {m.key} \cup KeysOf(t, n)
  <2>1. ASSUME NEW l \in 1 .. (n + 1)
        PROVE  p[l].key = m.key \/ \E j \in 1 .. n : p[l].key = t[j].key
    <3>1. CASE l = 1
      BY <1>2, <3>1
    <3>2. CASE l # 1
      <4>1. l - 1 \in 1 .. n /\ l - 1 \in 1 .. Len(t) /\ (l - 1) + 1 = l
        BY <1>2, <3>2, SMT
      <4>2. t[l - 1] = p[l]
        BY <1>2, <4>1
      <4>. QED
        BY <4>1, <4>2
    <3>. QED
      BY <3>1, <3>2
  <2>2. ASSUME NEW j \in 1 .. n
        PROVE  j + 1 \in 1 .. (n + 1) /\ t[j].key = p[j + 1].key
    <3>1. j + 1 \in 1 .. (n + 1) /\ j \in 1 .. Len(t)
      BY <1>2, SMT
    <3>. QED
      BY <1>2, <3>1
  <2>3. 1 \in 1 .. (n + 1)
    BY <1>2, SMT
  <2>4. KeysOf(p, n + 1) \subseteq {m.key} \cup KeysOf(t, n)
    BY <2>1 DEF KeysOf
  <2>5. m.key \in KeysOf(p, n + 1)
    BY <1>2, <2>3 DEF KeysOf
  <2>6. KeysOf(t, n) \subseteq KeysOf(p, n + 1)
    BY <2>2 DEF KeysOf
  <2>. QED
    BY <2>4, <2>5, <2>6
<1>. QED
  BY <1>1, <1>6, <1>7 DEF Behind

TakesHead(q, v, current, p) ==
  /\ IsItem(q, v, Head(p)) /\ InOrder(q, v, Head(p), Tail(p))
  /\ Behind(q, v, Head(p), Tail(p), Len(Tail(p))) = Behind(q, v, current, p, Len(p))
  /\ Head(p).key = First(q, Ahead(q, v, current)) /\ Ahead(q, v, current) # {}
  /\ Ahead(q, v, Head(p)) = Ahead(q, v, current) \ {Head(p).key}

LEMMA InOrderTail ==
  ASSUME NEW q, NEW v \in Contents, NEW current, IsItem(q, v, current),
         NEW p \in Seq(Messages), p # <<>>, InOrder(q, v, current, p)
  PROVE  TakesHead(q, v, current, p)
<1>1. PICK m, t, A : m = Head(p) /\ t = Tail(p) /\ A = Ahead(q, v, current)
  OBVIOUS
<1>2. /\ m = p[1] /\ Len(p) \in Nat /\ Len(p) >= 1 /\ Len(t) = Len(p) - 1
      /\ \A l \in 1 .. Len(t) : t[l] = p[l + 1]
  BY <1>1, TailFacts
<1>3. 1 \in 1 .. Len(p) /\ 1 - 1 = 0 /\ Len(t) \in 0 .. (Len(p) - 1) /\ Len(t) + 1 = Len(p)
  BY <1>2, SMT
<1>4. A # {} /\ m = ItemOf(q, v, A)
  <2>1. Behind(q, v, current, p, 1 - 1) = A
    BY <1>1, <1>3, BehindNone
  <2>2. Behind(q, v, current, p, 1 - 1) # {} /\ p[1] = ItemOf(q, v, Behind(q, v, current, p, 1 - 1))
    BY <1>3 DEF InOrder
  <2>. QED
    BY <1>2, <2>1, <2>2
<1>5. A \in SUBSET Domain(q, v)
  BY <1>1 DEF Ahead
<1>6. IsItem(q, v, m) /\ m.key = First(q, A)
  BY <1>4, <1>5, ItemType
<1>7. \A n \in 0 .. (Len(p) - 1) : Behind(q, v, m, t, n) = Behind(q, v, current, p, n + 1)
  BY <1>1, BehindTail
<1>8. ASSUME NEW n \in 1 .. Len(t)
      PROVE  /\ Behind(q, v, m, t, n - 1) # {}
             /\ t[n] = ItemOf(q, v, Behind(q, v, m, t, n - 1))
  <2>1. /\ n - 1 \in 0 .. (Len(p) - 1) /\ (n - 1) + 1 = n
        /\ n + 1 \in 1 .. Len(p) /\ (n + 1) - 1 = n
    BY <1>2, SMT
  <2>2. Behind(q, v, m, t, n - 1) = Behind(q, v, current, p, n)
    BY <1>7, <2>1
  <2>3. /\ Behind(q, v, current, p, n) # {}
        /\ p[n + 1] = ItemOf(q, v, Behind(q, v, current, p, n))
    BY <2>1 DEF InOrder
  <2>. QED
    BY <1>2, <2>2, <2>3
<1>9. InOrder(q, v, m, t)
  BY <1>8 DEF InOrder
<1>10. Behind(q, v, m, t, Len(t)) = Behind(q, v, current, p, Len(p))
  BY <1>3, <1>7
<1>11. Ahead(q, v, m) = A \ {m.key}
  <2>1. Ahead(q, v, m) = A \ {First(q, A)}
    BY <1>1, <1>4, TakeFirst
  <2>. QED
    BY <1>6, <2>1
<1>. QED
  BY <1>1, <1>4, <1>6, <1>9, <1>10, <1>11 DEF TakesHead

(* The server sends the next item. *)
AddsNext(q, v, current, p, B) ==
  LET r == Append(p, ItemOf(q, v, B)) IN
  InOrder(q, v, current, r) /\ Behind(q, v, current, r, Len(r)) = B \ {First(q, B)}

LEMMA InOrderAppend ==
  ASSUME NEW q, NEW v \in Contents, NEW current, NEW p \in Seq(Messages),
         InOrder(q, v, current, p), Behind(q, v, current, p, Len(p)) # {}
  PROVE  AddsNext(q, v, current, p, Behind(q, v, current, p, Len(p)))
<1>1. PICK B, m, r : /\ B = Behind(q, v, current, p, Len(p)) /\ m = ItemOf(q, v, B)
                     /\ r = Append(p, m)
  OBVIOUS
<1>2. B \in SUBSET Domain(q, v) /\ B # {}
  BY <1>1, BehindType
<1>3. m \in Messages /\ m.key = First(q, B)
  BY <1>1, <1>2, ItemType
<1>4. /\ r \in Seq(Messages) /\ Len(p) \in Nat /\ Len(r) = Len(p) + 1
      /\ r[Len(p) + 1] = m /\ \A n \in 1 .. Len(p) : r[n] = p[n]
  <2>1. r = Append(p, m) /\ m \in Messages
    BY <1>1, <1>3
  <2>. QED
    BY <2>1, SMT
<1>5. ASSUME NEW n \in 0 .. Len(p)
      PROVE  Behind(q, v, current, r, n) = Behind(q, v, current, p, n)
  <2>0. Len(p) \in Nat
    BY <1>4
  <2>1. \A l \in 1 .. n : l \in 1 .. Len(p)
    BY <2>0, SMT
  <2>2. KeysOf(r, n) = KeysOf(p, n)
    BY <1>4, <2>1, KeysOfSame
  <2>. QED
    BY <2>2 DEF Behind
<1>6. Len(p) \in 0 .. Len(p) /\ (Len(p) + 1) - 1 = Len(p)
  BY <1>4, SMT
<1>7. ASSUME NEW n \in 1 .. Len(r)
      PROVE  /\ Behind(q, v, current, r, n - 1) # {}
             /\ r[n] = ItemOf(q, v, Behind(q, v, current, r, n - 1))
  <2>1. n - 1 \in 0 .. Len(p) /\ (n \in 1 .. Len(p) \/ (n = Len(p) + 1 /\ n - 1 = Len(p)))
    BY <1>4, SMT
  <2>2. Behind(q, v, current, r, n - 1) = Behind(q, v, current, p, n - 1)
    BY <1>5, <2>1
  <2>3. CASE n \in 1 .. Len(p)
    BY <1>4, <2>2, <2>3 DEF InOrder
  <2>4. CASE n = Len(p) + 1 /\ n - 1 = Len(p)
    BY <1>1, <1>2, <1>4, <2>2, <2>4
  <2>. QED
    BY <2>1, <2>3, <2>4
<1>8. KeysOf(r, Len(p) + 1) = KeysOf(p, Len(p)) \cup {m.key}
  <2>1. \A n \in 1 .. (Len(p) + 1) : n \in 1 .. Len(p) \/ n = Len(p) + 1
    BY <1>4, SMT
  <2>2. Len(p) + 1 \in 1 .. (Len(p) + 1) /\ \A n \in 1 .. Len(p) : n \in 1 .. (Len(p) + 1)
    BY <1>4, SMT
  <2>3. KeysOf(r, Len(p) + 1) \subseteq KeysOf(p, Len(p)) \cup {m.key}
    BY <1>4, <2>1 DEF KeysOf
  <2>4. KeysOf(p, Len(p)) \subseteq KeysOf(r, Len(p) + 1)
    <3>1. ASSUME NEW n \in 1 .. Len(p)
          PROVE  p[n].key \in KeysOf(r, Len(p) + 1)
      <4>1. r[n] = p[n] /\ n \in 1 .. (Len(p) + 1)
        BY <1>4, <2>2
      <4>. QED
        BY <4>1 DEF KeysOf
    <3>. QED
      BY <3>1 DEF KeysOf
  <2>5. m.key \in KeysOf(r, Len(p) + 1)
    BY <1>4, <2>2 DEF KeysOf
  <2>. QED
    BY <2>3, <2>4, <2>5
<1>9. Behind(q, v, current, r, Len(r)) = B \ {First(q, B)}
  BY <1>1, <1>3, <1>4, <1>8 DEF Behind
<1>10. InOrder(q, v, current, r)
  BY <1>7 DEF InOrder
<1>. QED
  BY <1>1, <1>9, <1>10 DEF AddsNext

LEMMA CutFacts ==
  ASSUME NEW S, NEW p \in Seq(S), NEW n \in 0 .. Len(p)
  PROVE  /\ SubSeq(p, 1, n) \in Seq(S) /\ Len(SubSeq(p, 1, n)) = n /\ n <= Len(p)
         /\ \A m \in 1 .. n : SubSeq(p, 1, n)[m] = p[m] /\ m \in 1 .. Len(p)
BY SMT

(* The connection breaks. *)
LEMMA InOrderCut ==
  ASSUME NEW q, NEW v, NEW current, NEW p \in Seq(Messages), InOrder(q, v, current, p),
         NEW l \in 0 .. Len(p)
  PROVE  InOrder(q, v, current, SubSeq(p, 1, l))
<1>1. PICK r : r = SubSeq(p, 1, l)
  OBVIOUS
<1>2. Len(r) = l /\ \A m \in 1 .. l : r[m] = p[m] /\ m \in 1 .. Len(p)
  BY <1>1, CutFacts
<1>3. ASSUME NEW n \in 1 .. Len(r)
      PROVE  /\ Behind(q, v, current, r, n - 1) # {}
             /\ r[n] = ItemOf(q, v, Behind(q, v, current, r, n - 1))
  <2>1. \A m \in 1 .. (n - 1) : m \in 1 .. l
    BY <1>2, SMT
  <2>2. KeysOf(r, n - 1) = KeysOf(p, n - 1)
    BY <1>2, <2>1, KeysOfSame
  <2>3. Behind(q, v, current, r, n - 1) = Behind(q, v, current, p, n - 1)
    BY <2>2 DEF Behind
  <2>. QED
    BY <1>2, <2>3 DEF InOrder
<1>4. InOrder(q, v, current, r)
  BY <1>3 DEF InOrder
<1>. QED
  BY <1>1, <1>4

-----------------------------------------------------------------------------
(* The answers of a GetStream. *)

LEMMA AnswerGrows ==
  ASSUME NEW a \in Seq(Asks), NEW r \in Seq(Contents), NEW n \in Nat \ {0}, NEW m,
         IsAnswer(a, r, n, m), NEW k \in Asks, NEW content \in Contents
  PROVE  IsAnswer(Append(a, k), r, n, m) /\ IsAnswer(a, Append(r, content), n, m)
<1>1. CASE m.failed
  BY <1>1 DEF IsAnswer
<1>2. CASE ~m.failed
  <2>1. n <= Len(a) /\ n <= Len(r)
    BY <1>2 DEF IsAnswer
  <2>2. Append(a, k)[n] = a[n] /\ n <= Len(Append(a, k))
    BY <2>1, SMT
  <2>3. Append(r, content)[n] = r[n] /\ n <= Len(Append(r, content))
    BY <2>1, SMT
  <2>. QED
    BY <1>2, <2>1, <2>2, <2>3 DEF IsAnswer
<1>. QED
  BY <1>1, <1>2

LEMMA AnswersGrow ==
  ASSUME NEW a \in Seq(Asks), NEW r \in Seq(Contents), NEW from \in Nat,
         NEW p \in Seq(Messages), AreAnswers(a, r, from, p),
         NEW k \in Asks, NEW content \in Contents
  PROVE  AreAnswers(Append(a, k), r, from, p) /\ AreAnswers(a, Append(r, content), from, p)
<1>1. \A n \in DOMAIN p : from + n \in Nat \ {0}
  BY SMT
<1>. QED
  BY <1>1, AnswerGrows DEF AreAnswers

LEMMA AnswersNone ==
  ASSUME NEW a, NEW r, NEW from
  PROVE  AreAnswers(a, r, from, <<>>) /\ FailsLast(<<>>) /\ ~HasFailed(<<>>)
<1>1. DOMAIN <<>> = {}
  BY SMT
<1>. QED
  BY <1>1 DEF AreAnswers, FailsLast, HasFailed

(* The handler sends an answer. *)
LEMMA AnswersAppend ==
  ASSUME NEW a, NEW r, NEW from \in Nat, NEW p \in Seq(Messages), NEW m \in Messages,
         AreAnswers(a, r, from, p), ~HasFailed(p), IsAnswer(a, r, from + Len(p) + 1, m)
  PROVE  LET s == Append(p, m) IN
         /\ AreAnswers(a, r, from, s) /\ FailsLast(s) /\ (HasFailed(s) => m.failed)
<1>1. PICK s : s = Append(p, m)
  OBVIOUS
<1>2. /\ s \in Seq(Messages) /\ Len(p) \in Nat /\ Len(s) = Len(p) + 1
      /\ s[Len(p) + 1] = m /\ \A n \in 1 .. Len(p) : s[n] = p[n]
  BY <1>1, SMT
<1>3. from + (Len(p) + 1) = from + Len(p) + 1
  BY <1>2, SMT
<1>4. DOMAIN p = 1 .. Len(p) /\ DOMAIN s = 1 .. Len(s)
  BY <1>2, SMT
<1>5. ASSUME NEW n \in DOMAIN s
      PROVE  (n \in DOMAIN p /\ s[n] = p[n]) \/ (n = Len(s) /\ n = Len(p) + 1 /\ s[n] = m)
  <2>0. Len(p) \in Nat /\ Len(s) = Len(p) + 1 /\ n \in 1 .. Len(s)
    BY <1>2, <1>4
  <2>1. n \in 1 .. Len(p) \/ n = Len(p) + 1
    BY <2>0, SMT
  <2>. QED
    BY <1>2, <1>4, <2>1
<1>6. AreAnswers(a, r, from, s)
  BY <1>3, <1>5 DEF AreAnswers
<1>7. FailsLast(s)
  BY <1>5 DEF FailsLast, HasFailed
<1>8. HasFailed(s) => m.failed
  BY <1>5 DEF HasFailed
<1>. QED
  BY <1>1, <1>6, <1>7, <1>8

(* The client takes an answer. *)
LEMMA AnswersTail ==
  ASSUME NEW a, NEW r, NEW from \in Nat, NEW p \in Seq(Messages), p # <<>>,
         AreAnswers(a, r, from, p), FailsLast(p)
  PROVE  /\ IsAnswer(a, r, from + 1, Head(p)) /\ AreAnswers(a, r, from + 1, Tail(p))
         /\ FailsLast(Tail(p)) /\ (HasFailed(Tail(p)) => HasFailed(p))
         /\ Head(p).failed => HasFailed(p) /\ Tail(p) = <<>>
<1>1. PICK s : s = Tail(p)
  OBVIOUS
<1>2. /\ s \in Seq(Messages) /\ DOMAIN s = 1 .. Len(s) /\ DOMAIN p = 1 .. Len(p)
      /\ Len(s) \in Nat /\ Len(p) = Len(s) + 1 /\ 1 \in DOMAIN p /\ Head(p) = p[1]
  BY <1>1, SMT
<1>3. \A n \in DOMAIN s : n + 1 \in DOMAIN p /\ s[n] = p[n + 1]
  BY <1>1, SMT
<1>4. \A n \in DOMAIN s : from + (n + 1) = from + 1 + n /\ (n + 1 = Len(s) + 1 => n = Len(s))
  <2>1. Len(s) \in Nat /\ DOMAIN s = 1 .. Len(s)
    BY <1>2
  <2>. QED
    BY <2>1, SMT
<1>5. AreAnswers(a, r, from + 1, s)
  <2>. SUFFICES ASSUME NEW n \in DOMAIN s PROVE IsAnswer(a, r, from + 1 + n, s[n])
    BY DEF AreAnswers
  <2>1. IsAnswer(a, r, from + (n + 1), p[n + 1])
    BY <1>3 DEF AreAnswers
  <2>. QED
    BY <1>3, <1>4, <2>1
<1>6. FailsLast(s)
  <2>. SUFFICES ASSUME NEW n \in DOMAIN s, s[n].failed PROVE n = Len(s)
    BY DEF FailsLast
  <2>1. n + 1 = Len(p)
    BY <1>3 DEF FailsLast
  <2>. QED
    BY <1>2, <1>4, <2>1
<1>7. HasFailed(s) => HasFailed(p)
  BY <1>3 DEF HasFailed
<1>8. IsAnswer(a, r, from + 1, Head(p))
  BY <1>2 DEF AreAnswers
<1>9. ASSUME Head(p).failed
      PROVE  HasFailed(p) /\ s = <<>>
  <2>1. HasFailed(p) /\ 1 = Len(p)
    BY <1>2, <1>9 DEF HasFailed, FailsLast
  <2>2. s = <<>>
    BY <1>1, <2>1, SMT
  <2>. QED
    BY <2>1, <2>2
<1>. QED
  BY <1>1, <1>5, <1>6, <1>7, <1>8, <1>9

(* The connection breaks. *)
LEMMA AnswersCut ==
  ASSUME NEW a, NEW r, NEW from, NEW p \in Seq(Messages), NEW l \in 0 .. Len(p),
         AreAnswers(a, r, from, p), FailsLast(p)
  PROVE  LET s == SubSeq(p, 1, l) IN
         AreAnswers(a, r, from, s) /\ FailsLast(s) /\ (HasFailed(s) => HasFailed(p))
<1>1. PICK s : s = SubSeq(p, 1, l)
  OBVIOUS
<1>2. s \in Seq(Messages) /\ Len(s) = l /\ \A m \in 1 .. l : s[m] = p[m] /\ m \in 1 .. Len(p)
  BY <1>1, CutFacts
<1>3. DOMAIN s = 1 .. l /\ DOMAIN p = 1 .. Len(p)
  <2>1. s \in Seq(Messages) /\ Len(s) = l
    BY <1>2
  <2>. QED
    BY <2>1, SMT
<1>4. Len(p) \in 1 .. l => l = Len(p)
  BY SMT
<1>5. \A n \in DOMAIN s : n \in DOMAIN p /\ s[n] = p[n]
  BY <1>2, <1>3
<1>6. AreAnswers(a, r, from, s) /\ (HasFailed(s) => HasFailed(p))
  BY <1>5 DEF AreAnswers, HasFailed
<1>7. FailsLast(s)
  BY <1>2, <1>3, <1>4, <1>5 DEF FailsLast
<1>. QED
  BY <1>1, <1>6, <1>7

-----------------------------------------------------------------------------
(* A step of another stream. *)
Same(j) ==
  /\ owner'[j] = owner[j] /\ pipe'[j] = pipe[j] /\ end'[j] = end[j] /\ handler'[j] = handler[j]
  /\ query'[j] = query[j] /\ waits'[j] = waits[j] /\ cur'[j] = cur[j] /\ err'[j] = err[j]
  /\ it'[j] = it[j] /\ itErr'[j] = itErr[j] /\ view'[j] = view[j]
  /\ asked'[j] = asked[j] /\ answers'[j] = answers[j] /\ receiver'[j] = receiver[j]
  /\ taken'[j] = taken[j] /\ out'[j] = out[j] /\ sending'[j] = sending[j]
  /\ reads'[j] = reads[j]

LEMMA SameFresh ==
  ASSUME NEW j \in Stream, IsFresh(j), Same(j)
  PROVE  IsFresh(j)'
BY DEF Same, IsFresh

LEMMA SameIter ==
  ASSUME NEW j \in Stream, IterInv(j), Same(j)
  PROVE  IterInv(j)'
BY DEF Same, IterInv

LEMMA SameGet ==
  ASSUME NEW j \in Stream, GetInv(j), Same(j)
  PROVE  GetInv(j)'
BY DEF Same, GetInv, NoMore, Sent

LEMMA Frame ==
  ASSUME Inv, TypeOK', \A j \in Stream : Same(j)
  PROVE  Inv'
BY SameFresh, SameIter, SameGet DEF Inv, StreamInv

LEMMA OneStream ==
  ASSUME Inv, TypeOK', NEW i \in Stream, StreamInv(i)',
         \A j \in Stream \ {i} : Same(j)
  PROVE  Inv'
<1>1. ASSUME NEW j \in Stream, j # i
      PROVE  StreamInv(j)'
  BY <1>1, SameFresh, SameIter, SameGet DEF Inv, StreamInv
<1>. QED
  BY <1>1 DEF Inv

(* What KVStore sees of a stream does not change. *)
Hidden(j) ==
  /\ view'[j] = view[j]
  /\ view[j] # nil => /\ owner'[j] = owner[j] /\ query'[j] = query[j]
                      /\ cur'[j] = cur[j] /\ err'[j] = err[j]
                      /\ err[j] = "EOF" => itErr'[j] = itErr[j]

LEMMA HiddenMaps ==
  ASSUME NEW j \in Stream, Hidden(j)
  PROVE  /\ Owners'[j] = Owners[j] /\ Asked'[j] = Asked[j] /\ Views'[j] = Views[j]
         /\ Rests'[j] = Rests[j] /\ Failures'[j] = Failures[j]
<1>1. CASE view[j] = nil
  BY <1>1 DEF Hidden, Owners, Asked, Views, Rests, Failures, Created
<1>2. CASE view[j] # nil
  <2>1. ToShow(j, view[j])' = ToShow(j, view[j])
    BY <1>2 DEF Hidden, ToShow
  <2>. QED
    BY <1>2, <2>1 DEF Hidden, Owners, Asked, Views, Rests, Failures, Created
<1>. QED
  BY <1>1, <1>2

LEMMA Mappings ==
  /\ Owners = [i \in Stream |-> Owners[i]] /\ Asked = [i \in Stream |-> Asked[i]]
  /\ Views = [i \in Stream |-> Views[i]] /\ Rests = [i \in Stream |-> Rests[i]]
  /\ Failures = [i \in Stream |-> Failures[i]]
BY DEF Owners, Asked, Views, Rests, Failures

LEMMA MappingsNext ==
  /\ Owners' = [i \in Stream |-> Owners'[i]] /\ Asked' = [i \in Stream |-> Asked'[i]]
  /\ Views' = [i \in Stream |-> Views'[i]] /\ Rests' = [i \in Stream |-> Rests'[i]]
  /\ Failures' = [i \in Stream |-> Failures'[i]]
BY DEF Owners, Asked, Views, Rests, Failures

IterMaps == <<Owners, Asked, Views, Rests, Failures>>

LEMMA AllHidden ==
  ASSUME \A j \in Stream : Hidden(j)
  PROVE  UNCHANGED IterMaps
<1>1. /\ Owners' = Owners /\ Asked' = Asked /\ Views' = Views
      /\ Rests' = Rests /\ Failures' = Failures
  BY HiddenMaps, Mappings, MappingsNext
<1>. QED
  BY <1>1 DEF IterMaps

Stutters == UNCHANGED <<files, ret>> /\ \A j \in Stream : Hidden(j)
AbstractStep == NoEmptyEnds => KV!DBNext \/ UNCHANGED KV!dbVars

LEMMA StuttersAre == ASSUME Stutters PROVE AbstractStep
BY AllHidden DEF AbstractStep, Stutters, IterMaps, KV!dbVars, KV!iterVars

LEMMA InitRemoteStep ==
  ASSUME Inv, InitRemote
  PROVE  Inv' /\ Stutters
<1>1. \A j \in Stream : Same(j) /\ Hidden(j)
  BY DEF InitRemote, Same, Hidden, streamVars, iteratorVars, getStreamVars
<1>2. TypeOK'
  BY DEF Inv, InitRemote, streamVars, iteratorVars, getStreamVars, TypeOK, ServerTypes, StreamTypes, NewDB
<1>3. Inv'
  BY <1>1, <1>2, Frame
<1>. QED
  BY <1>1, <1>3 DEF Stutters, InitRemote, iteratorVars

LEMMA RestartStep ==
  ASSUME Inv, Restart
  PROVE  Inv' /\ Stutters
<1>1. \A j \in Stream : Same(j) /\ Hidden(j)
  BY DEF Restart, Same, Hidden, streamVars, iteratorVars, getStreamVars
<1>2. restarts' \in 0 .. MaxRestarts
  <2>1. restarts \in 0 .. MaxRestarts /\ restarts < MaxRestarts /\ restarts' = restarts + 1
    BY DEF Inv, TypeOK, ServerTypes, Restart, ListenAndServe
  <2>2. MaxRestarts \in Nat
    BY ServerAssumption
  <2>. QED
    BY <2>1, <2>2, SMT
<1>3. TypeOK'
  BY <1>2 DEF Inv, Restart, ListenAndServe, streamVars, iteratorVars, getStreamVars,
    TypeOK, ServerTypes, StreamTypes
<1>4. Inv'
  BY <1>1, <1>3, Frame
<1>. QED
  BY <1>1, <1>4 DEF Stutters, Restart, ListenAndServe, iteratorVars

-----------------------------------------------------------------------------
(* The client of an iterator. *)

LEMMA RetType ==
  ASSUME TypeOK, NEW c \in Client, NEW s \in {"none", "set", "item", "panic", "error"},
         NEW k \in KeyArg, NEW v \in Value \cup {nil, Absent}
  PROVE  [ret EXCEPT ![c] = Result(s, k, v)] \in
           [Client -> [status: {"none", "set", "item", "panic", "error"},
                       key: KeyArg, value: Value \cup {nil, Absent}]]
<1>1. Result(s, k, v) \in [status: {"none", "set", "item", "panic", "error"},
                           key: KeyArg, value: Value \cup {nil, Absent}]
  BY DEF Result
<1>2. ret \in [Client -> [status: {"none", "set", "item", "panic", "error"},
                          key: KeyArg, value: Value \cup {nil, Absent}]]
  BY DEF TypeOK
<1>. QED
  BY <1>1, <1>2

LEMMA IteratorOpens ==
  ASSUME Inv, NEW c \in Client, NEW i \in Stream, NEW q \in Query,
         Iterator(c, i, q), UNCHANGED getStreamVars, NewStream(c, i, "Iterator"),
         query' = [query EXCEPT ![i] = q], waits' = [waits EXCEPT ![i] = TRUE], UNCHANGED ret
  PROVE  Inv' /\ Stutters
<1>1. TypeOK'
  BY IteratorAssumption DEF Inv, Iterator, NewStream, serverVars, getStreamVars,
    TypeOK, ServerTypes, StreamTypes, Stages
<1>2. \A j \in Stream \ {i} : Same(j)
  BY DEF Inv, Iterator, NewStream, getStreamVars, Same, TypeOK, StreamTypes
<1>3. IsFresh(i)
  BY DEF Inv, StreamInv, NewStream, IterInv, GetInv
<1>4. /\ owner'[i] = c /\ handler'[i] = "Iterator" /\ query'[i] = q /\ UNCHANGED <<pipe, end>>
      /\ UNCHANGED <<cur, err, it, itErr, view, asked, answers, receiver, taken, out, sending, reads>>
  BY DEF Inv, Iterator, NewStream, getStreamVars, TypeOK, StreamTypes
<1>5. IterInv(i)'
  BY <1>3, <1>4, StreamAssumption, EmptyInOrder, Sentinels DEF IsFresh, IterInv, IsItem
<1>6. \A j \in Stream : Hidden(j)
  BY <1>2, <1>3, <1>4 DEF IsFresh, Hidden, Same
<1>. QED
  BY <1>1, <1>2, <1>5, <1>6, OneStream DEF StreamInv, Stutters, Iterator, serverVars

LEMMA IteratorRefused ==
  ASSUME Inv, NEW c \in Client, NEW i \in Stream, NEW q \in Query,
         Iterator(c, i, q), UNCHANGED getStreamVars,
         Reply(c, Status("error")), UNCHANGED <<streamVars, query, waits>>
  PROVE  Inv' /\ KV!CallFails(c)
<1>1. \A j \in Stream : Same(j) /\ Hidden(j)
  BY DEF Iterator, Same, Hidden, streamVars, getStreamVars
<1>2. ret' \in [Client -> [status: {"none", "set", "item", "panic", "error"},
                           key: KeyArg, value: Value \cup {nil, Absent}]]
  BY RetType, Sentinels DEF Inv, Reply, Status
<1>3. TypeOK'
  BY <1>2 DEF Inv, Iterator, serverVars, streamVars, getStreamVars, TypeOK, ServerTypes, StreamTypes
<1>4. Inv'
  BY <1>1, <1>3, Frame
<1>5. UNCHANGED IterMaps
  BY <1>1, AllHidden
<1>. QED
  BY <1>4, <1>5 DEF IterMaps, Iterator, serverVars, Reply, Status, Result,
    KV!CallFails, KV!Reply, KV!Status, KV!Result, KV!iterVars

LEMMA IteratorStep ==
  ASSUME Inv, NEW c \in Client, NEW i \in Stream, NEW q \in Query,
         Iterator(c, i, q), UNCHANGED getStreamVars
  PROVE  Inv' /\ AbstractStep
<1>1. \/ /\ NewStream(c, i, "Iterator")
         /\ query' = [query EXCEPT ![i] = q] /\ waits' = [waits EXCEPT ![i] = TRUE]
         /\ UNCHANGED ret
      \/ Reply(c, Status("error")) /\ UNCHANGED <<streamVars, query, waits>>
  BY DEF Iterator
<1>. QED
  BY <1>1, IteratorOpens, IteratorRefused, StuttersAre DEF AbstractStep, KV!DBNext

(* An iterator that can be used. *)
LEMMA UsedIsIter ==
  ASSUME Inv, NEW i \in Stream, cur[i] # nil \/ err[i] # nil
  PROVE  IterInv(i) /\ view[i] # nil /\ view[i] \in Contents
BY DEF Inv, StreamInv, IsFresh, GetInv, IterInv, TypeOK

LEMMA IteratorNextStep ==
  ASSUME Inv, NEW c \in Client, NEW i \in Stream, Valid(i), IteratorNext(c, i),
         UNCHANGED getStreamVars
  PROVE  Inv' /\ Stutters
<1>1. IterInv(i)
  BY UsedIsIter DEF IteratorNext, IsIterator
<1>2. TypeOK'
  BY DEF Inv, IteratorNext, serverVars, streamVars, getStreamVars, TypeOK, ServerTypes, StreamTypes
<1>3. \A j \in Stream \ {i} : Same(j)
  BY DEF Inv, IteratorNext, streamVars, getStreamVars, Same, TypeOK
<1>4. IterInv(i)'
  BY <1>1 DEF IteratorNext, Valid, streamVars, getStreamVars, IterInv
<1>5. \A j \in Stream : Hidden(j)
  BY DEF IteratorNext, streamVars, Hidden
<1>. QED
  BY <1>2, <1>3, <1>4, <1>5, OneStream DEF StreamInv, Stutters, IteratorNext, serverVars

LEMMA IteratorCloseStep ==
  ASSUME Inv, NEW c \in Client, NEW i \in Stream, IteratorClose(c, i), UNCHANGED getStreamVars
  PROVE  Inv' /\ Stutters
<1>1. \A j \in Stream : Same(j) /\ Hidden(j)
  BY DEF IteratorClose, CloseSend, Same, Hidden, iteratorVars, getStreamVars
<1>2. TypeOK'
  BY DEF Inv, IteratorClose, CloseSend, serverVars, iteratorVars, getStreamVars,
    TypeOK, ServerTypes, StreamTypes
<1>. QED
  BY <1>1, <1>2, Frame DEF Stutters, IteratorClose, serverVars, iteratorVars

LEMMA WriteStep ==
  ASSUME Inv, NEW c \in Client, NEW k \in Key, NEW v \in Value \cup {Absent}, Write(c, k, v),
         UNCHANGED getStreamVars
  PROVE  Inv' /\ KV!Put(c, k, v)
<1>1. \A j \in Stream : Same(j) /\ Hidden(j)
  BY DEF Write, Same, Hidden, streamVars, getStreamVars
<1>2. ret' \in [Client -> [status: {"none", "set", "item", "panic", "error"},
                           key: KeyArg, value: Value \cup {nil, Absent}]]
  <2>1. k \in KeyArg /\ v \in Value \cup {nil, Absent}
    BY Sentinels
  <2>. QED
    BY <2>1, RetType DEF Inv, Write, Reply
<1>3. writes' \in 0 .. MaxWrites
  <2>1. writes \in 0 .. MaxWrites /\ writes < MaxWrites /\ writes' = writes + 1
    BY DEF Inv, TypeOK, Write
  <2>2. MaxWrites \in Nat
    BY IteratorAssumption
  <2>. QED
    BY <2>1, <2>2, SMT
<1>4. files' \in Contents /\ files'[EmptyKey] = Absent
  <2>1. k \in KeyArg /\ k # EmptyKey /\ EmptyKey \in KeyArg
    BY Sentinels
  <2>. QED
    BY <2>1 DEF Inv, TypeOK, ServerTypes, Write, Contents
<1>5. TypeOK'
  BY <1>2, <1>3, <1>4 DEF Inv, Write, streamVars, getStreamVars, TypeOK, ServerTypes, StreamTypes
<1>6. UNCHANGED IterMaps
  BY <1>1, AllHidden
<1>. QED
  BY <1>1, <1>5, <1>6, Frame DEF IterMaps, Write, Reply, Result, KV!Put, KV!Reply, KV!Result, KV!iterVars

(* The keys to show are the current one and those ahead. *)
Showable(q, v, current) ==
  {k \in Domain(q, v) :
     \/ current = nil
     \/ IF q.reverse THEN k <= current.key ELSE current.key <= k}

LEMMA ShowableIs ==
  ASSUME NEW q, NEW v, NEW current, IsItem(q, v, current), current # nil
  PROVE  /\ Showable(q, v, current) = {current.key} \cup Ahead(q, v, current)
         /\ current.key \notin Ahead(q, v, current) /\ current.key \in Key
<1>1. PICK D, e : D = Domain(q, v) /\ e = current.key
  OBVIOUS
<1>2. e \in D /\ D \subseteq Nat /\ D \subseteq Key
  BY <1>1, DomainType, Sentinels DEF IsItem
<1>3. ASSUME NEW k \in D
      PROVE  (IF q.reverse THEN k <= e ELSE e <= k) <=> (k = e \/ Before(q, e, k))
  <2>1. k \in Nat /\ e \in Nat
    BY <1>2
  <2>2. CASE q.reverse
    BY <2>1, <2>2, SMT DEF Before
  <2>3. CASE ~q.reverse
    BY <2>1, <2>3, SMT DEF Before
  <2>. QED
    BY <2>2, <2>3
<1>4. Showable(q, v, current) = {k \in D : IF q.reverse THEN k <= e ELSE e <= k}
  BY <1>1 DEF Showable
<1>5. Ahead(q, v, current) = {k \in D : Before(q, e, k)}
  BY <1>1 DEF Ahead
<1>6. ~Before(q, e, e)
  BY <1>2, Ordered
<1>. QED
  BY <1>1, <1>2, <1>3, <1>4, <1>5, <1>6

LEMMA ToShowIs ==
  ASSUME NEW i \in Stream
  PROVE  /\ ToShow(i, view[i]) = Showable(query[i], view[i], cur[i])
         /\ ToShow(i, view[i])' = Showable(query'[i], view'[i], cur'[i])
         /\ ToShow(i, view'[i]) = Showable(query[i], view'[i], cur[i])
BY DEF ToShow, Showable

LEMMA KVFirst ==
  ASSUME NEW q \in Queries, NEW keys \in SUBSET Key, NEW e \in keys,
         \A j \in keys : j = e \/ Before(q, e, j)
  PROVE  KV!First(q, keys) = e
<1>. DEFINE OK(k) == \A j \in keys : IF q.reverse THEN ~(k < j) ELSE ~(j < k)
<1>2. keys \subseteq Nat
  BY Sentinels
<1>3. OK(e)
  <2>. SUFFICES ASSUME NEW j \in keys
                PROVE  IF q.reverse THEN ~(e < j) ELSE ~(j < e)
    OBVIOUS
  <2>1. j \in Nat /\ e \in Nat /\ (j = e \/ Before(q, e, j))
    BY <1>2
  <2>2. CASE q.reverse
    BY <2>1, <2>2, SMT DEF Before
  <2>3. CASE ~q.reverse
    BY <2>1, <2>3, SMT DEF Before
  <2>. QED
    BY <2>2, <2>3
<1>4. PICK f : f = KV!First(q, keys)
  OBVIOUS
<1>5. f \in keys /\ OK(f)
  BY <1>3, <1>4 DEF KV!First
<1>6. f = e
  <2>1. f \in Nat /\ e \in Nat /\ (f = e \/ Before(q, e, f))
    BY <1>2, <1>5
  <2>2. IF q.reverse THEN ~(f < e) ELSE ~(e < f)
    BY <1>5
  <2>3. CASE q.reverse
    BY <2>1, <2>2, <2>3, SMT DEF Before
  <2>4. CASE ~q.reverse
    BY <2>1, <2>2, <2>4, SMT DEF Before
  <2>. QED
    BY <2>3, <2>4
<1>. QED
  BY <1>4, <1>6

(* An iterator that shows an item. *)
LEMMA Showing ==
  ASSUME Inv, NEW i \in Stream, IterInv(i), cur[i] # nil
  PROVE  /\ view[i] # nil /\ err[i] = nil /\ Created(i)
         /\ Asked[i] = query[i] /\ Views[i] = view[i] /\ Owners[i] = owner[i]
         /\ Rests[i] = {cur[i].key} \cup Ahead(query[i], view[i], cur[i])
         /\ cur[i].key \notin Ahead(query[i], view[i], cur[i])
         /\ KV!First(Asked[i], Rests[i]) = cur[i].key
         /\ cur[i].value = view[i][cur[i].key]
         /\ Failures[i] = FALSE
<1>1. /\ view[i] # nil /\ err[i] = nil /\ cur[i].value = view[i][cur[i].key]
      /\ cur[i].key \in Domain(query[i], view[i])
  BY DEF IterInv, IsItem
<1>2. Created(i)
  BY <1>1 DEF Created
<1>3. /\ Asked[i] = query[i] /\ Views[i] = view[i] /\ Owners[i] = owner[i]
      /\ Rests[i] = ToShow(i, view[i])
  BY <1>1, <1>2 DEF Asked, Views, Owners, Rests
<1>4. PICK A, e, q : A = Ahead(query[i], view[i], cur[i]) /\ e = cur[i].key /\ q = query[i]
  OBVIOUS
<1>5. ToShow(i, view[i]) = {e} \cup A /\ e \notin A /\ e \in Key
  BY <1>1, <1>4, ToShowIs, ShowableIs DEF IsItem
<1>6. A \subseteq Key /\ \A j \in A : Before(q, e, j)
  BY <1>4, DomainType DEF Ahead
<1>7. q \in Queries
  BY <1>4 DEF Inv, TypeOK
<1>8. KV!First(q, {e} \cup A) = e
  <2>1. {e} \cup A \in SUBSET Key /\ e \in {e} \cup A
    BY <1>5, <1>6
  <2>2. \A j \in {e} \cup A : j = e \/ Before(q, e, j)
    BY <1>6
  <2>. QED
    BY <1>7, <2>1, <2>2, KVFirst
<1>9. Failures[i] = FALSE
  BY <1>1, <1>2, Sentinels DEF Failures
<1>10. KV!First(Asked[i], Rests[i]) = e
  BY <1>3, <1>4, <1>5, <1>8
<1>. QED
  BY <1>1, <1>2, <1>3, <1>4, <1>5, <1>9, <1>10

LEMMA ReadItemStep ==
  ASSUME Inv, NEW c \in Client, NEW i \in Stream, ReadItem(c, i), UNCHANGED getStreamVars
  PROVE  Inv' /\ (KV!Current(c, i) \/ KV!IteratorPanics(c, i))
<1>1. IterInv(i) /\ view[i] # nil
  BY UsedIsIter DEF ReadItem, IsIterator
<1>2. \A j \in Stream : Same(j) /\ Hidden(j)
  BY DEF ReadItem, Same, Hidden, streamVars, getStreamVars
<1>3. UNCHANGED IterMaps
  BY <1>2, AllHidden
<1>4. Owners[i] = c
  BY <1>1 DEF ReadItem, IsIterator, Owners, Created
<1>5. CASE Valid(i)
  <2>1. cur[i] # nil /\ cur[i] \in Messages
    BY <1>5 DEF Valid, Inv, TypeOK
  <2>2. PICK k, v : k = cur[i].key /\ v = cur[i].value
    OBVIOUS
  <2>3. k \in KeyArg /\ v \in Value \cup {nil}
    BY <2>1, <2>2 DEF Messages
  <2>4. ret' = [ret EXCEPT ![c] = Result("item", k, v)]
    BY <1>5, <2>2 DEF ReadItem, Reply
  <2>5. ret' \in [Client -> [status: {"none", "set", "item", "panic", "error"},
                             key: KeyArg, value: Value \cup {nil, Absent}]]
    BY <2>3, <2>4, RetType DEF Inv
  <2>6. TypeOK'
    BY <2>5 DEF Inv, ReadItem, serverVars, streamVars, getStreamVars, TypeOK, ServerTypes, StreamTypes
  <2>7. Rests[i] # {} /\ KV!First(Asked[i], Rests[i]) = k /\ Views[i][k] = v
    BY <1>1, <2>1, <2>2, Showing
  <2>8. KV!Current(c, i)
    BY <1>3, <1>4, <2>4, <2>7 DEF IterMaps, ReadItem, serverVars, Result,
      KV!Current, KV!Reply, KV!Result, KV!iterVars
  <2>. QED
    BY <1>2, <2>6, <2>8, Frame
<1>6. CASE ~Valid(i)
  <2>1. ret' = [ret EXCEPT ![c] = Status("panic")]
    BY <1>6 DEF ReadItem, Reply
  <2>2. ret' \in [Client -> [status: {"none", "set", "item", "panic", "error"},
                             key: KeyArg, value: Value \cup {nil, Absent}]]
    BY <2>1, RetType, Sentinels DEF Inv, Status
  <2>3. TypeOK'
    BY <2>2 DEF Inv, ReadItem, serverVars, streamVars, getStreamVars, TypeOK, ServerTypes, StreamTypes
  <2>4. Rests[i] = {}
    BY <1>1, <1>6 DEF Rests, Valid, ReadItem, IsIterator
  <2>5. KV!IteratorPanics(c, i)
    BY <1>3, <1>4, <2>1, <2>4 DEF IterMaps, ReadItem, serverVars, Status, Result,
      KV!IteratorPanics, KV!Reply, KV!Status, KV!Result, KV!iterVars
  <2>. QED
    BY <1>2, <2>3, <2>5, Frame
<1>. QED
  BY <1>5, <1>6

-----------------------------------------------------------------------------
(* What a client receives. *)

LEMMA MapsOneStream ==
  ASSUME NEW i \in Stream, \A j \in Stream \ {i} : Hidden(j)
  PROVE  /\ Owners' = [Owners EXCEPT ![i] = Owners'[i]] /\ Asked' = [Asked EXCEPT ![i] = Asked'[i]]
         /\ Views' = [Views EXCEPT ![i] = Views'[i]] /\ Rests' = [Rests EXCEPT ![i] = Rests'[i]]
         /\ Failures' = [Failures EXCEPT ![i] = Failures'[i]]
<1>1. \A j \in Stream \ {i} :
         /\ Owners'[j] = Owners[j] /\ Asked'[j] = Asked[j] /\ Views'[j] = Views[j]
         /\ Rests'[j] = Rests[j] /\ Failures'[j] = Failures[j]
  BY HiddenMaps
<1>2. /\ DOMAIN Owners = Stream /\ DOMAIN Asked = Stream /\ DOMAIN Views = Stream
      /\ DOMAIN Rests = Stream /\ DOMAIN Failures = Stream
  BY DEF Owners, Asked, Views, Rests, Failures
<1>3. Owners' = [Owners EXCEPT ![i] = Owners'[i]] /\ Asked' = [Asked EXCEPT ![i] = Asked'[i]]
  BY <1>1, <1>2, Mappings, MappingsNext
<1>4. Views' = [Views EXCEPT ![i] = Views'[i]] /\ Rests' = [Rests EXCEPT ![i] = Rests'[i]]
  BY <1>1, <1>2, Mappings, MappingsNext
<1>5. Failures' = [Failures EXCEPT ![i] = Failures'[i]]
  BY <1>1, <1>2, Mappings, MappingsNext
<1>. QED
  BY <1>3, <1>4, <1>5

LEMMA MapsOneStreamSame ==
  ASSUME NEW i \in Stream, \A j \in Stream \ {i} : Hidden(j),
         Owners'[i] = Owners[i], Asked'[i] = Asked[i], Views'[i] = Views[i],
         Rests'[i] = Rests[i], Failures'[i] = Failures[i]
  PROVE  UNCHANGED IterMaps
<1>1. \A j \in Stream :
         /\ Owners'[j] = Owners[j] /\ Asked'[j] = Asked[j] /\ Views'[j] = Views[j]
         /\ Rests'[j] = Rests[j] /\ Failures'[j] = Failures[j]
  BY HiddenMaps
<1>2. /\ Owners' = Owners /\ Asked' = Asked /\ Views' = Views
      /\ Rests' = Rests /\ Failures' = Failures
  BY <1>1, Mappings, MappingsNext
<1>. QED
  BY <1>2 DEF IterMaps

LEMMA WaitsIsIter ==
  ASSUME Inv, NEW i \in Stream, waits[i]
  PROVE  IterInv(i)
BY DEF Inv, StreamInv, IsFresh, GetInv

(* Recv returns a message. *)
LEMMA NextShowsInv ==
  ASSUME Inv, NEW i \in Stream, NextReturns(i), UNCHANGED getStreamVars, pipe[i] # <<>>
  PROVE  /\ Inv' /\ UNCHANGED <<files, ret, owner, query, err, view>>
         /\ \A j \in Stream \ {i} : Hidden(j)
         /\ cur'[i] = Head(pipe[i]) /\ cur'[i] # nil
<1>1. IterInv(i)
  BY WaitsIsIter DEF NextReturns
<1>2. view[i] # nil /\ view[i] \in Contents /\ err[i] = nil
  BY <1>1 DEF IterInv, Inv, TypeOK
<1>3. PICK p, h, t : p = pipe[i] /\ h = Head(p) /\ t = Tail(p)
  OBVIOUS
<1>4. p \in Seq(Messages) /\ p # <<>> /\ Len(p) <= Window
  BY <1>3 DEF Inv, TypeOK, StreamTypes
<1>5. h \in Messages /\ t \in Seq(Messages) /\ Len(p) \in Nat /\ Len(t) = Len(p) - 1
  BY <1>3, <1>4, TailFacts
<1>6. Len(t) <= Window
  <2>1. Len(p) <= Window /\ Len(p) \in Nat /\ Len(t) = Len(p) - 1
    BY <1>4, <1>5
  <2>. QED
    BY <2>1, StreamAssumption, SMT
<1>7. /\ cur' = [cur EXCEPT ![i] = h] /\ pipe' = [pipe EXCEPT ![i] = t] /\ UNCHANGED err
      /\ waits' = [waits EXCEPT ![i] = FALSE] /\ UNCHANGED view
  <2>1. view' = [view EXCEPT ![i] = view[i]]
    BY <1>2 DEF NextReturns
  <2>2. view' = view
    BY <2>1 DEF Inv, TypeOK
  <2>. QED
    BY <1>3, <2>2 DEF NextReturns, Recv
<1>8. /\ pipe'[i] = t /\ cur'[i] = h /\ pipe' \in [Stream -> Seq(Messages)]
      /\ \A j \in Stream : Len(pipe'[j]) <= Window
  BY <1>5, <1>6, <1>7 DEF Inv, TypeOK, StreamTypes
<1>9. cur' \in [Stream -> Messages \cup {nil}]
  BY <1>5, <1>7 DEF Inv, TypeOK
<1>10. TypeOK'
  BY <1>7, <1>8, <1>9 DEF Inv, NextReturns, Recv, serverVars, getStreamVars,
    TypeOK, ServerTypes, StreamTypes
<1>11. \A j \in Stream \ {i} : Same(j) /\ Hidden(j)
  <2>1. UNCHANGED <<owner, end, handler, query, it, itErr, getStreamVars>>
    BY DEF NextReturns, Recv
  <2>2. \A j \in Stream \ {i} : pipe'[j] = pipe[j] /\ cur'[j] = cur[j] /\ waits'[j] = waits[j]
    BY <1>7 DEF Inv, TypeOK, StreamTypes
  <2>. QED
    BY <1>7, <2>1, <2>2 DEF getStreamVars, Same, Hidden
<1>12. /\ IsItem(query[i], view[i], h) /\ InOrder(query[i], view[i], h, t)
       /\ Behind(query[i], view[i], h, t, Len(t)) = Behind(query[i], view[i], cur[i], p, Len(p))
  <2>1. PICK q, v, c : q = query[i] /\ v = view[i] /\ c = cur[i]
    OBVIOUS
  <2>2. v \in Contents /\ IsItem(q, v, c) /\ InOrder(q, v, c, p)
    BY <1>1, <1>2, <1>3, <2>1 DEF IterInv
  <2>3. TakesHead(q, v, c, p)
    BY <1>4, <2>2, InOrderTail
  <2>. QED
    BY <1>3, <2>1, <2>3 DEF TakesHead
<1>13. IterInv(i)'
  BY <1>1, <1>2, <1>3, <1>4, <1>7, <1>8, <1>12 DEF NextReturns, Recv, getStreamVars, IterInv
<1>14. h # nil
  BY <1>5, Sentinels
<1>. QED
  BY <1>3, <1>7, <1>8, <1>10, <1>11, <1>13, <1>14, OneStream DEF StreamInv, NextReturns, Recv, serverVars

(* Next from one item to the next; the constructor's Next shows the first. *)
LEMMA NextShowsStep ==
  ASSUME Inv, NEW i \in Stream, NextReturns(i), UNCHANGED getStreamVars, pipe[i] # <<>>
  PROVE  KV!Advance(owner[i], i) \/ UNCHANGED KV!dbVars
<1>1. /\ UNCHANGED <<files, ret, owner, query, err, view>> /\ \A j \in Stream \ {i} : Hidden(j)
      /\ cur'[i] = Head(pipe[i]) /\ cur'[i] # nil
  BY NextShowsInv
<1>2. IterInv(i) /\ view[i] # nil /\ view[i] \in Contents /\ err[i] = nil
  BY WaitsIsIter DEF NextReturns, IterInv, Inv, TypeOK
<1>3. PICK q, v, h, A : /\ q = query[i] /\ v = view[i] /\ h = cur'[i]
                        /\ A = Ahead(q, v, cur[i])
  OBVIOUS
<1>4. /\ h.key = First(q, A) /\ A # {} /\ IsItem(q, v, h)
      /\ Ahead(q, v, h) = A \ {h.key} /\ h # nil
  <2>1. PICK p : p = pipe[i]
    OBVIOUS
  <2>2. /\ p \in Seq(Messages) /\ p # <<>> /\ h = Head(p)
        /\ IsItem(q, v, cur[i]) /\ InOrder(q, v, cur[i], p) /\ v \in Contents
    BY <1>1, <1>2, <1>3, <2>1 DEF IterInv, Inv, TypeOK, StreamTypes
  <2>3. TakesHead(q, v, cur[i], p)
    BY <2>2, InOrderTail
  <2>. QED
    BY <1>1, <1>3, <2>2, <2>3 DEF TakesHead
<1>5. h.key \in A
  <2>1. A \in SUBSET Key
    BY <1>3, DomainType DEF Ahead
  <2>. QED
    BY <1>4, <2>1, Firsts
<1>6. Showable(q, v, h) = A
  <2>1. Showable(q, v, h) = {h.key} \cup (A \ {h.key})
    BY <1>4, ShowableIs
  <2>. QED
    BY <1>5, <2>1
<1>7. /\ Created(i) /\ Created(i)' /\ Owners'[i] = Owners[i] /\ Asked'[i] = Asked[i]
      /\ Views'[i] = Views[i] /\ Owners[i] = owner[i] /\ Failures'[i] = Failures[i]
  BY <1>1, <1>2, Sentinels DEF Created, Owners, Asked, Views, Failures
<1>8. Rests'[i] = A
  <2>1. Rests'[i] = ToShow(i, view[i])'
    BY <1>1, <1>2, <1>7 DEF Rests
  <2>. QED
    BY <1>1, <1>3, <1>6, <2>1, ToShowIs
<1>9. CASE cur[i] = nil
  <2>1. Rests[i] = A
    <3>1. Rests[i] = Showable(q, v, nil)
      BY <1>2, <1>3, <1>7, <1>9, ToShowIs DEF Rests
    <3>. QED
      BY <1>3, <1>9, <3>1 DEF Showable, Ahead
  <2>2. UNCHANGED IterMaps
    BY <1>1, <1>7, <1>8, <2>1, MapsOneStreamSame
  <2>. QED
    BY <1>1, <2>2 DEF IterMaps, KV!dbVars, KV!iterVars
<1>10. CASE cur[i] # nil
  <2>1. /\ Rests[i] = {cur[i].key} \cup A /\ cur[i].key \notin A
        /\ KV!First(Asked[i], Rests[i]) = cur[i].key
    BY <1>2, <1>3, <1>10, Showing
  <2>2. Rests'[i] = Rests[i] \ {KV!First(Asked[i], Rests[i])} /\ Rests[i] # {}
    BY <1>8, <2>1
  <2>3. Rests' = [Rests EXCEPT ![i] = Rests[i] \ {KV!First(Asked[i], Rests[i])}]
    BY <1>1, <2>2, MapsOneStream
  <2>4. UNCHANGED <<Owners, Asked, Views, Failures>>
    <3>1. \A j \in Stream : /\ Owners'[j] = Owners[j] /\ Asked'[j] = Asked[j]
                            /\ Views'[j] = Views[j] /\ Failures'[j] = Failures[j]
      BY <1>1, <1>7, HiddenMaps
    <3>. QED
      BY <3>1, Mappings, MappingsNext
  <2>5. KV!Advance(owner[i], i)
    BY <1>1, <1>7, <2>2, <2>3, <2>4 DEF KV!Advance
  <2>. QED
    BY <2>5
<1>. QED
  BY <1>9, <1>10

(* Recv returns the end of the stream. *)
LEMMA NextEndsInv ==
  ASSUME Inv, NEW i \in Stream, NextReturns(i), UNCHANGED getStreamVars, pipe[i] = <<>>
  PROVE  /\ Inv' /\ UNCHANGED <<files, ret, owner, query>> /\ \A j \in Stream \ {i} : Hidden(j)
         /\ cur'[i] = nil /\ err'[i] = end[i] /\ end[i] # nil
         /\ view'[i] = IF view[i] = nil THEN files ELSE view[i]
         /\ view'[i] # nil
<1>1. IterInv(i)
  BY WaitsIsIter DEF NextReturns
<1>2. end[i] # nil /\ end[i] \in {nil, "EOF", "error"}
  BY DEF NextReturns, Recv, Inv, TypeOK, StreamTypes
<1>3. pipe' = pipe
  <2>1. pipe' = [pipe EXCEPT ![i] = pipe[i]]
    BY DEF NextReturns, Recv
  <2>. QED
    BY <2>1 DEF Inv, TypeOK, StreamTypes
<1>4. /\ cur' = [cur EXCEPT ![i] = nil] /\ err' = [err EXCEPT ![i] = end[i]]
      /\ waits' = [waits EXCEPT ![i] = FALSE]
      /\ view' = [view EXCEPT ![i] = IF view[i] = nil THEN files ELSE view[i]]
  BY DEF NextReturns
<1>5. PICK x : x = IF view[i] = nil THEN files ELSE view[i]
  OBVIOUS
<1>6. x \in Contents
  BY <1>5 DEF Inv, TypeOK, ServerTypes
<1>7. /\ UNCHANGED <<serverVars, owner, closed, end, handler, breaks>>
      /\ UNCHANGED <<query, it, itErr, ret, writes, getStreamVars>>
  BY DEF NextReturns, Recv
<1>8. /\ cur' \in [Stream -> Messages \cup {nil}] /\ err' \in [Stream -> {nil, "EOF", "error"}]
      /\ waits' \in [Stream -> BOOLEAN] /\ view' \in [Stream -> Contents \cup {nil}]
  BY <1>2, <1>4, <1>5, <1>6 DEF Inv, TypeOK
<1>9. TypeOK'
  BY <1>3, <1>7, <1>8 DEF Inv, serverVars, getStreamVars, TypeOK, ServerTypes, StreamTypes
<1>10. \A j \in Stream \ {i} : Same(j) /\ Hidden(j)
  <2>1. \A j \in Stream \ {i} : /\ cur'[j] = cur[j] /\ err'[j] = err[j]
                                /\ waits'[j] = waits[j] /\ view'[j] = view[j]
    BY <1>4 DEF Inv, TypeOK
  <2>. QED
    BY <1>3, <1>7, <2>1 DEF getStreamVars, Same, Hidden
<1>11. cur'[i] = nil /\ err'[i] = end[i] /\ view'[i] = x /\ x # nil
  BY <1>4, <1>5, <1>6, Sentinels DEF Inv, TypeOK
<1>12. IterInv(i)'
  <2>1. waits'[i] = FALSE
    BY <1>4 DEF Inv, TypeOK
  <2>2. /\ owner[i] # NoOne /\ receiver[i] = "none" /\ answers[i] = <<>> /\ query[i] \in Query
        /\ handler[i] \in {"Iterator", "handleIterator", "done"}
        /\ handler[i] = "Iterator" => it[i] = {} /\ itErr[i] = FALSE /\ end[i] # "EOF"
    BY <1>1 DEF IterInv
  <2>3. IsItem(query[i], x, nil) /\ InOrder(query[i], x, nil, <<>>)
    BY EmptyInOrder DEF IsItem
  <2>. QED
    BY <1>2, <1>3, <1>7, <1>11, <2>1, <2>2, <2>3 DEF getStreamVars, IterInv
<1>. QED
  BY <1>2, <1>5, <1>7, <1>9, <1>10, <1>11, <1>12, OneStream DEF StreamInv, serverVars

(* End points that are not empty arrive as they are. *)
LEMMA WiredIs ==
  ASSUME NoEmptyEnds, NEW q \in Query
  PROVE  /\ Wired(q).start = q.start /\ Wired(q).end = q.end
         /\ q.start \in Key \cup {nil} /\ q.end \in Key \cup {nil}
<1>1. q.start \in KeyArg \cup {nil} /\ q.end \in KeyArg \cup {nil}
  BY IteratorAssumption DEF Queries, End
<1>2. q.start \in Key \cup {nil} /\ q.end \in Key \cup {nil}
  BY <1>1 DEF NoEmptyEnds, KeyArg
<1>3. \A b \in Key \cup {nil} : Wire(b) = b
  BY ServerAssumption DEF Wire, KeyArg
<1>4. Wired(q).start = Wire(q.start) /\ Wired(q).end = Wire(q.end)
  BY DEF Wired
<1>. QED
  BY <1>2, <1>3, <1>4

LEMMA KVDomain ==
  ASSUME NoEmptyEnds, NEW q \in Query, NEW v
  PROVE  {k \in Key : KV!InRange(q, k) /\ v[k] # Absent} = Domain(q, v)
<1>1. PICK a, b : a = q.start /\ b = q.end
  OBVIOUS
<1>2. a \in Key \cup {nil} /\ b \in Key \cup {nil}
  BY <1>1, WiredIs
<1>3. ASSUME NEW k \in Key
      PROVE  KV!InRange(q, k) <=> InDomain(Wired(q), k)
  <2>1. a = nil \/ (~(k < a) <=> a <= k)
    <3>1. CASE a = nil
      BY <3>1
    <3>2. CASE a # nil
      <4>1. a \in Nat /\ k \in Nat
        BY <1>2, <3>2, Sentinels
      <4>. QED
        BY <4>1, SMT
    <3>. QED
      BY <3>1, <3>2
  <2>. QED
    BY <1>1, <2>1, WiredIs DEF KV!InRange, InDomain
<1>. QED
  BY <1>3 DEF Domain

(* At its end an iterator advances from its last item; one that fails at     *)
(* once is created and fails.                                                *)
LEMMA NextEndsStep ==
  ASSUME NoEmptyEnds,
         Inv, NEW i \in Stream, NextReturns(i), UNCHANGED getStreamVars, pipe[i] = <<>>
  PROVE  \/ KV!OpenIterator(owner[i], i, query[i]) \/ KV!Advance(owner[i], i)
         \/ KV!IteratorFails(owner[i], i) \/ UNCHANGED KV!dbVars
<1>1. /\ UNCHANGED <<files, ret, owner, query>> /\ \A j \in Stream \ {i} : Hidden(j)
      /\ cur'[i] = nil /\ err'[i] = end[i] /\ end[i] # nil
      /\ view'[i] = IF view[i] = nil THEN files ELSE view[i]
      /\ view'[i] # nil
  BY NextEndsInv
<1>2. IterInv(i) /\ err[i] = nil /\ itErr' = itErr
  BY WaitsIsIter DEF NextReturns, IterInv
<1>3. Rests'[i] = {}
  BY <1>1 DEF Rests, Created
<1>4. /\ Owners'[i] = owner[i] /\ Asked'[i] = query[i] /\ Views'[i] = view'[i]
  BY <1>1 DEF Owners, Asked, Views, Created
<1>5. Failures'[i] = (end[i] = "error" \/ (end[i] = "EOF" /\ itErr[i]))
  BY <1>1, <1>2 DEF Failures, Created
<1>6. end[i] \in {"EOF", "error"}
  BY <1>1 DEF Inv, TypeOK, StreamTypes
<1>7. CASE view[i] = nil
  <2>1. Owners[i] = NoOne
    BY <1>7 DEF Owners, Created
  <2>2. Failures'[i] = TRUE
    BY <1>2, <1>5, <1>6, <1>7 DEF IterInv
  <2>3. /\ Owners' = [Owners EXCEPT ![i] = owner[i]] /\ Asked' = [Asked EXCEPT ![i] = query[i]]
        /\ Views' = [Views EXCEPT ![i] = files] /\ Rests' = [Rests EXCEPT ![i] = {}]
        /\ Failures' = [Failures EXCEPT ![i] = TRUE]
    BY <1>1, <1>3, <1>4, <1>7, <2>2, MapsOneStream
  <2>4. EmptyKey \notin {query[i].start, query[i].end}
    BY <1>2 DEF IterInv, NoEmptyEnds
  <2>5. KV!OpenIterator(owner[i], i, query[i])
    BY <1>1, <2>1, <2>3, <2>4 DEF KV!OpenIterator, KV!Fail
  <2>. QED
    BY <2>5
<1>8. CASE view[i] # nil
  <2>1. Owners'[i] = Owners[i] /\ Asked'[i] = Asked[i] /\ Views'[i] = Views[i] /\ Owners[i] = owner[i]
    BY <1>1, <1>4, <1>8 DEF Owners, Asked, Views, Created
  <2>2. UNCHANGED <<Owners, Asked, Views>>
    <3>1. \A j \in Stream : Owners'[j] = Owners[j] /\ Asked'[j] = Asked[j] /\ Views'[j] = Views[j]
      BY <1>1, <2>1, HiddenMaps
    <3>. QED
      BY <3>1, Mappings, MappingsNext
  <2>3. CASE Failures'[i] = TRUE
    <3>1. Rests' = [Rests EXCEPT ![i] = {}] /\ Failures' = [Failures EXCEPT ![i] = TRUE]
      BY <1>1, <1>3, <2>3, MapsOneStream
    <3>2. KV!IteratorFails(owner[i], i)
      BY <1>1, <2>1, <2>2, <3>1 DEF KV!IteratorFails, KV!Fail
    <3>. QED
      BY <3>2
  <2>4. CASE Failures'[i] = FALSE
    <3>1. end[i] = "EOF" /\ ~itErr[i]
      BY <1>5, <1>6, <2>4
    <3>2. Ahead(query[i], view[i], cur[i]) = {}
      <4>1. Len(<<>>) = 0
        BY SMT
      <4>2. Behind(query[i], view[i], cur[i], pipe[i], Len(pipe[i])) = {}
        BY <1>2, <3>1 DEF IterInv
      <4>. QED
        BY <4>1, <4>2, BehindNone
    <3>3. Failures[i] = FALSE
      BY <1>2, Sentinels DEF Failures
    <3>4. CASE cur[i] = nil
      <4>1. Rests[i] = Showable(query[i], view[i], nil)
        BY <1>2, <1>8, <3>4, ToShowIs DEF Rests, Created
      <4>2. Rests[i] = {}
        BY <3>2, <3>4, <4>1 DEF Showable, Ahead
      <4>3. UNCHANGED IterMaps
        BY <1>1, <1>3, <2>1, <2>4, <3>3, <4>2, MapsOneStreamSame
      <4>. QED
        BY <1>1, <4>3 DEF IterMaps, KV!dbVars, KV!iterVars
    <3>5. CASE cur[i] # nil
      <4>1. Rests[i] = {cur[i].key} /\ KV!First(Asked[i], Rests[i]) = cur[i].key
        BY <1>2, <3>2, <3>5, Showing
      <4>2. Rests'[i] = Rests[i] \ {KV!First(Asked[i], Rests[i])} /\ Rests[i] # {}
        BY <1>3, <4>1
      <4>3. Rests' = [Rests EXCEPT ![i] = Rests[i] \ {KV!First(Asked[i], Rests[i])}]
        BY <1>1, <4>2, MapsOneStream
      <4>4. Failures' = Failures
        <5>1. \A j \in Stream : Failures'[j] = Failures[j]
          BY <1>1, <2>4, <3>3, HiddenMaps
        <5>. QED
          BY <5>1, Mappings, MappingsNext
      <4>5. KV!Advance(owner[i], i)
        BY <1>1, <2>1, <2>2, <4>2, <4>3, <4>4 DEF KV!Advance
      <4>. QED
        BY <4>5
    <3>. QED
      BY <3>4, <3>5
  <2>5. Failures'[i] \in BOOLEAN
    BY <1>5
  <2>. QED
    BY <2>3, <2>4, <2>5
<1>. QED
  BY <1>7, <1>8

LEMMA OwnerIsClient ==
  ASSUME Inv, NEW i \in Stream, IterInv(i)
  PROVE  owner[i] \in Client /\ query[i] \in Query
BY DEF Inv, TypeOK, StreamTypes, IterInv

LEMMA DeliverStep ==
  ASSUME Inv, NEW i \in Stream, Deliver(i)
  PROVE  Inv' /\ AbstractStep
<1>1. NextReturns(i) /\ UNCHANGED getStreamVars
  BY DEF Deliver
<1>2. owner[i] \in Client /\ query[i] \in Query
  BY <1>1, WaitsIsIter, OwnerIsClient DEF NextReturns
<1>3. CASE pipe[i] # <<>>
  BY <1>1, <1>2, <1>3, NextShowsInv, NextShowsStep DEF AbstractStep, KV!DBNext
<1>4. CASE pipe[i] = <<>>
  BY <1>1, <1>2, <1>4, NextEndsInv, NextEndsStep DEF AbstractStep, KV!DBNext
<1>. QED
  BY <1>3, <1>4

-----------------------------------------------------------------------------
(* The server of an iterator. *)

LEMMA ServesIter ==
  ASSUME Inv, NEW i \in Stream, handler[i] \in {"Iterator", "handleIterator"}
  PROVE  IterInv(i)
BY DEF Inv, StreamInv, IsFresh, GetInv

LEMMA NewIteratorInv ==
  ASSUME Inv, NEW i \in Stream, serverIterator(i), UNCHANGED getStreamVars, NewIterator(i)
  PROVE  /\ Inv' /\ UNCHANGED <<files, ret, owner, query, cur, err>>
         /\ \A j \in Stream \ {i} : Hidden(j)
         /\ view'[i] = IF view[i] = nil THEN files ELSE view[i]
<1>1. IterInv(i) /\ handler[i] = "Iterator"
  BY ServesIter DEF serverIterator
<1>2. PICK x, D : x = (IF view[i] = nil THEN files ELSE view[i]) /\ D = Domain(query[i], files)
  OBVIOUS
<1>3. x \in Contents /\ D \in SUBSET Key
  BY <1>2, DomainType DEF Inv, TypeOK, ServerTypes
<1>4. /\ handler' = [handler EXCEPT ![i] = "handleIterator"] /\ view' = [view EXCEPT ![i] = x]
      /\ UNCHANGED <<serverVars, owner, closed, pipe, end, breaks>>
      /\ UNCHANGED <<query, waits, cur, err, ret, writes>>
  BY <1>2 DEF serverIterator, NewIterator
<1>41. /\ it' \in [Stream -> SUBSET Key] /\ itErr' \in [Stream -> BOOLEAN]
       /\ \A j \in Stream \ {i} : it'[j] = it[j] /\ itErr'[j] = itErr[j]
       /\ it'[i] = IF itErr'[i] THEN {} ELSE D
  <2>1. it[i] = {} /\ itErr[i] = FALSE
    BY <1>1 DEF IterInv
  <2>2. CASE it' = [it EXCEPT ![i] = D] /\ UNCHANGED itErr
    BY <1>3, <2>1, <2>2 DEF Inv, TypeOK
  <2>3. CASE itErr' = [itErr EXCEPT ![i] = TRUE] /\ UNCHANGED it
    BY <2>1, <2>3 DEF Inv, TypeOK
  <2>. QED
    BY <1>2, <2>2, <2>3 DEF NewIterator
<1>5. handler' \in [Stream -> Stages] /\ view' \in [Stream -> Contents \cup {nil}]
  BY <1>3, <1>4 DEF Inv, TypeOK, StreamTypes, Stages
<1>6. TypeOK'
  BY <1>4, <1>41, <1>5 DEF Inv, serverVars, getStreamVars, TypeOK, ServerTypes, StreamTypes
<1>7. \A j \in Stream \ {i} : Same(j) /\ Hidden(j)
  <2>1. \A j \in Stream \ {i} : handler'[j] = handler[j] /\ view'[j] = view[j]
    BY <1>4 DEF Inv, TypeOK, StreamTypes
  <2>. QED
    BY <1>4, <1>41, <2>1 DEF getStreamVars, Same, Hidden
<1>8. handler'[i] = "handleIterator" /\ view'[i] = x /\ x # nil
  BY <1>3, <1>4, Sentinels DEF Inv, TypeOK, StreamTypes
<1>9. IterInv(i)'
  <2>1. CASE view[i] # nil
    BY <1>1, <1>2, <1>4, <1>41, <1>8, <2>1 DEF getStreamVars, IterInv
  <2>2. CASE view[i] = nil
    <3>1. pipe[i] = <<>> /\ cur[i] = nil /\ err[i] = nil /\ end[i] # "EOF"
      BY <1>1, <2>2 DEF IterInv
    <3>2. Len(<<>>) = 0
      BY SMT
    <3>3. Behind(query[i], x, nil, <<>>, 0) = Domain(query[i], x)
      BY BehindNone DEF Ahead
    <3>4. Behind(query[i], x, cur[i], pipe[i], Len(pipe[i])) = D
      BY <1>2, <2>2, <3>1, <3>2, <3>3
    <3>5. IsItem(query[i], x, cur[i]) /\ InOrder(query[i], x, cur[i], pipe[i])
      BY <3>1, EmptyInOrder DEF IsItem
    <3>. QED
      BY <1>1, <1>4, <1>41, <1>8, <3>1, <3>4, <3>5 DEF getStreamVars, IterInv
  <2>. QED
    BY <2>1, <2>2
<1>. QED
  BY <1>2, <1>4, <1>6, <1>7, <1>8, <1>9, OneStream DEF StreamInv, serverVars

(* An iterator is created when the server has its own, unless its client has *)
(* been told of an error.                                                    *)
LEMMA NewIteratorStep ==
  ASSUME NoEmptyEnds,
         Inv, NEW i \in Stream, serverIterator(i), UNCHANGED getStreamVars, NewIterator(i)
  PROVE  KV!OpenIterator(owner[i], i, query[i]) \/ UNCHANGED KV!dbVars
<1>1. /\ UNCHANGED <<files, ret, owner, query, cur, err>> /\ \A j \in Stream \ {i} : Hidden(j)
      /\ view'[i] = IF view[i] = nil THEN files ELSE view[i]
  BY NewIteratorInv
<1>2. IterInv(i) /\ files \in Contents /\ files # nil
  BY ServesIter, Sentinels DEF serverIterator, Inv, TypeOK, ServerTypes
<1>3. CASE view[i] # nil
  <2>0. err[i] # "EOF"
    BY <1>2 DEF serverIterator, IterInv
  <2>1. \A j \in Stream : Hidden(j)
    BY <1>1, <1>3, <2>0 DEF Hidden
  <2>2. UNCHANGED IterMaps
    BY <2>1, AllHidden
  <2>. QED
    BY <1>1, <2>2 DEF IterMaps, KV!dbVars, KV!iterVars
<1>4. CASE view[i] = nil
  <2>1. cur[i] = nil /\ err[i] = nil
    BY <1>2, <1>4 DEF IterInv
  <2>2. Owners[i] = NoOne /\ Failures[i] = FALSE
    BY <1>4 DEF Owners, Failures, Created
  <2>3. PICK D : D = Domain(query[i], files)
    OBVIOUS
  <2>4. /\ Owners'[i] = owner[i] /\ Asked'[i] = query[i] /\ Views'[i] = files /\ Rests'[i] = D
    BY <1>1, <1>2, <1>4, <2>1, <2>3 DEF Owners, Asked, Views, Rests, Created, ToShow
  <2>5. Failures'[i] = FALSE
    BY <1>1, <2>1, Sentinels DEF Failures
  <2>6. /\ Owners' = [Owners EXCEPT ![i] = owner[i]] /\ Asked' = [Asked EXCEPT ![i] = query[i]]
        /\ Views' = [Views EXCEPT ![i] = files] /\ Rests' = [Rests EXCEPT ![i] = D]
    BY <1>1, <2>4, MapsOneStream
  <2>7. D = {k \in Key : KV!InRange(query[i], k) /\ files[k] # Absent}
    BY <1>2, <2>3, KVDomain DEF IterInv
  <2>8. Failures' = Failures
    <3>1. \A j \in Stream : Failures'[j] = Failures[j]
      BY <1>1, <2>2, <2>5, HiddenMaps
    <3>. QED
      BY <3>1, Mappings, MappingsNext
  <2>9. EmptyKey \notin {query[i].start, query[i].end}
    BY <1>2 DEF IterInv, NoEmptyEnds
  <2>. QED
    BY <1>1, <2>2, <2>6, <2>7, <2>8, <2>9 DEF KV!OpenIterator
<1>. QED
  BY <1>3, <1>4

LEMMA Finishes ==
  ASSUME Inv, NEW i \in Stream, NEW s \in {"EOF", "error"}, Finish(i, s)
  PROVE  /\ StreamTypes' /\ UNCHANGED <<owner, pipe>>
         /\ handler'[i] = "done" /\ end'[i] # nil
         /\ end[i] = nil => end'[i] = s
         /\ end[i] # nil => end'[i] = end[i]
         /\ \A j \in Stream \ {i} : handler'[j] = handler[j] /\ end'[j] = end[j]
<1>1. PICK x : x = IF end[i] = nil THEN s ELSE end[i]
  OBVIOUS
<1>2. x \in {nil, "EOF", "error"} /\ x # nil
  BY <1>1, Sentinels DEF Inv, TypeOK, StreamTypes
<1>3. /\ handler' = [handler EXCEPT ![i] = "done"] /\ end' = [end EXCEPT ![i] = x]
      /\ UNCHANGED <<owner, closed, pipe, breaks>>
  BY <1>1 DEF Finish
<1>4. handler' \in [Stream -> Stages] /\ end' \in [Stream -> {nil, "EOF", "error"}]
  BY <1>2, <1>3 DEF Inv, TypeOK, StreamTypes, Stages
<1>5. StreamTypes'
  BY <1>3, <1>4 DEF Inv, TypeOK, StreamTypes
<1>6. handler'[i] = "done" /\ end'[i] = x
  BY <1>3 DEF Inv, TypeOK, StreamTypes
<1>7. \A j \in Stream \ {i} : handler'[j] = handler[j] /\ end'[j] = end[j]
  BY <1>3 DEF Inv, TypeOK, StreamTypes
<1>. QED
  BY <1>1, <1>2, <1>3, <1>5, <1>6, <1>7

(* The handler of an iterator returns. *)
LEMMA IterFinishStep ==
  ASSUME Inv, NEW i \in Stream, NEW s \in {"EOF", "error"}, Finish(i, s),
         UNCHANGED <<serverVars, iteratorVars, getStreamVars>>,
         \/ handler[i] = "Iterator" /\ s = "error"
         \/ handler[i] = "handleIterator" /\ it[i] # {} /\ end[i] # nil
         \/ handler[i] = "handleIterator" /\ it[i] = {}
  PROVE  Inv' /\ Stutters
<1>1. IterInv(i)
  BY ServesIter
<1>2. /\ StreamTypes' /\ UNCHANGED <<owner, pipe>>
      /\ handler'[i] = "done" /\ end'[i] # nil
      /\ end[i] = nil => end'[i] = s
      /\ end[i] # nil => end'[i] = end[i]
      /\ \A j \in Stream \ {i} : handler'[j] = handler[j] /\ end'[j] = end[j]
  BY Finishes
<1>3. TypeOK'
  BY <1>2 DEF Inv, serverVars, iteratorVars, getStreamVars, TypeOK, ServerTypes
<1>4. \A j \in Stream \ {i} : Same(j)
  BY <1>2 DEF iteratorVars, getStreamVars, Same
<1>5. \A j \in Stream : Hidden(j)
  BY <1>2 DEF iteratorVars, Hidden
<1>6. end[i] # nil => IterInv(i)'
  BY <1>1, <1>2 DEF iteratorVars, getStreamVars, IterInv
<1>7. ASSUME end[i] = nil, s = "error"
      PROVE  IterInv(i)'
  <2>1. end'[i] = "error"
    BY <1>2, <1>7
  <2>. QED
    BY <1>1, <1>2, <1>7, <2>1 DEF iteratorVars, getStreamVars, IterInv
<1>8. ASSUME end[i] = nil, s = "EOF"
      PROVE  IterInv(i)'
  <2>1. end'[i] = "EOF" /\ handler[i] = "handleIterator" /\ it[i] = {}
    BY <1>2, <1>8
  <2>2. ~itErr[i] => Behind(query[i], view[i], cur[i], pipe[i], Len(pipe[i])) = {}
    BY <1>1, <1>8, <2>1 DEF IterInv
  <2>3. view[i] # nil
    BY <1>1, <1>8, <2>1 DEF IterInv
  <2>. QED
    BY <1>1, <1>2, <1>8, <2>1, <2>2, <2>3 DEF iteratorVars, getStreamVars, IterInv
<1>9. IterInv(i)'
  BY <1>6, <1>7, <1>8
<1>. QED
  BY <1>3, <1>4, <1>5, <1>9, OneStream DEF StreamInv, Stutters, serverVars, iteratorVars

LEMMA Sends ==
  ASSUME Inv, NEW i \in Stream, NEW m \in Messages, NEW stage \in Stages, Send(i, m, stage)
  PROVE  /\ StreamTypes' /\ UNCHANGED <<owner, end>> /\ end[i] = nil
         /\ handler'[i] = stage /\ pipe'[i] = Append(pipe[i], m)
         /\ \A j \in Stream \ {i} : handler'[j] = handler[j] /\ pipe'[j] = pipe[j]
<1>1. PICK p, r : p = pipe[i] /\ r = Append(p, m)
  OBVIOUS
<1>2. p \in Seq(Messages) /\ Len(p) < Window
  BY <1>1 DEF Send, Inv, TypeOK, StreamTypes
<1>3. r \in Seq(Messages) /\ Len(r) <= Window
  BY <1>1, <1>2, StreamAssumption, SMT
<1>4. /\ pipe' = [pipe EXCEPT ![i] = r] /\ handler' = [handler EXCEPT ![i] = stage]
      /\ UNCHANGED <<owner, closed, end, breaks>> /\ end[i] = nil
  BY <1>1 DEF Send, SendFails
<1>5. /\ pipe' \in [Stream -> Seq(Messages)] /\ handler' \in [Stream -> Stages]
      /\ \A j \in Stream : Len(pipe'[j]) <= Window
  BY <1>3, <1>4 DEF Inv, TypeOK, StreamTypes
<1>6. StreamTypes'
  BY <1>4, <1>5 DEF Inv, TypeOK, StreamTypes
<1>7. handler'[i] = stage /\ pipe'[i] = r
  BY <1>4 DEF Inv, TypeOK, StreamTypes
<1>8. \A j \in Stream \ {i} : handler'[j] = handler[j] /\ pipe'[j] = pipe[j]
  BY <1>4 DEF Inv, TypeOK, StreamTypes
<1>. QED
  BY <1>1, <1>4, <1>6, <1>7, <1>8

(* handleIterator sends the next item; what its own Next does then decides   *)
(* how the stream goes on.                                                   *)
LEMMA SendItemStep ==
  ASSUME Inv, NEW i \in Stream, handleIterator(i), UNCHANGED getStreamVars, SendItem(i)
  PROVE  Inv' /\ Stutters
<1>1. IterInv(i) /\ handler[i] = "handleIterator"
  BY ServesIter DEF handleIterator
<1>2. it[i] # {} /\ end[i] = nil
  BY DEF SendItem, Send, SendFails
<1>3. PICK q, v, c, p, B : /\ q = query[i] /\ v = view[i] /\ c = cur[i] /\ p = pipe[i]
                           /\ B = Behind(q, v, c, p, Len(p))
  OBVIOUS
<1>4. /\ v \in Contents /\ itErr[i] = FALSE /\ it[i] = B /\ B # {} /\ err[i] = nil
      /\ p \in Seq(Messages) /\ InOrder(q, v, c, p)
  BY <1>1, <1>2, <1>3 DEF IterInv, Inv, TypeOK, StreamTypes
<1>5. PICK m, r : m = ItemOf(q, v, B) /\ r = Append(p, m)
  OBVIOUS
<1>6. m = Message(First(query[i], it[i]), view[i][First(query[i], it[i])], FALSE)
  BY <1>3, <1>4, <1>5 DEF ItemOf
<1>7. m \in Messages
  BY <1>3, <1>4, <1>5, BehindType, ItemType
<1>8. Send(i, m, "handleIterator")
  BY <1>6 DEF SendItem
<1>9. /\ StreamTypes' /\ UNCHANGED <<owner, end>>
      /\ handler'[i] = "handleIterator" /\ pipe'[i] = r
      /\ \A j \in Stream \ {i} : handler'[j] = handler[j] /\ pipe'[j] = pipe[j]
  BY <1>3, <1>5, <1>7, <1>8, Sends DEF Stages
<1>10. InOrder(q, v, c, r) /\ Behind(q, v, c, r, Len(r)) = B \ {First(q, B)}
  <2>1. AddsNext(q, v, c, p, Behind(q, v, c, p, Len(p)))
    BY <1>3, <1>4, InOrderAppend
  <2>. QED
    BY <1>3, <1>5, <2>1 DEF AddsNext
<1>11. UNCHANGED <<serverVars, query, waits, cur, err, view, ret, writes>>
  BY DEF handleIterator
<1>12. /\ it' \in [Stream -> SUBSET Key] /\ itErr' \in [Stream -> BOOLEAN]
       /\ \A j \in Stream \ {i} : it'[j] = it[j] /\ itErr'[j] = itErr[j]
       /\ it'[i] = IF itErr'[i] THEN {} ELSE B \ {First(q, B)}
  <2>1. CASE it' = [it EXCEPT ![i] = B \ {First(q, B)}] /\ UNCHANGED itErr
    <3>1. B \in SUBSET Key
      BY <1>3, BehindType, DomainType
    <3>. QED
      BY <1>4, <2>1, <3>1 DEF Inv, TypeOK
  <2>2. CASE it' = [it EXCEPT ![i] = {}] /\ itErr' = [itErr EXCEPT ![i] = TRUE]
    BY <2>2 DEF Inv, TypeOK
  <2>3. it[i] \ {First(query[i], it[i])} = B \ {First(q, B)}
    BY <1>3, <1>4
  <2>. QED
    BY <2>1, <2>2, <2>3 DEF SendItem
<1>13. TypeOK'
  BY <1>9, <1>11, <1>12 DEF Inv, serverVars, getStreamVars, TypeOK, ServerTypes
<1>14. \A j \in Stream \ {i} : Same(j)
  BY <1>9, <1>11, <1>12 DEF getStreamVars, Same
<1>15. \A j \in Stream : Hidden(j)
  BY <1>4, <1>9, <1>11, <1>12, Sentinels DEF Hidden
<1>16. IterInv(i)'
  BY <1>1, <1>2, <1>3, <1>4, <1>9, <1>10, <1>11, <1>12 DEF getStreamVars, IterInv
<1>. QED
  BY <1>11, <1>13, <1>14, <1>15, <1>16, OneStream DEF StreamInv, Stutters, serverVars

LEMMA ServeStep ==
  ASSUME Inv, NEW i \in Stream, Serve(i)
  PROVE  Inv' /\ AbstractStep
<1>1. UNCHANGED getStreamVars /\ (serverIterator(i) \/ handleIterator(i))
  BY DEF Serve
<1>2. CASE serverIterator(i) /\ NewIterator(i)
  <2>1. owner[i] \in Client /\ query[i] \in Query
    BY <1>2, ServesIter, OwnerIsClient DEF serverIterator
  <2>. QED
    BY <1>1, <1>2, <2>1, NewIteratorInv, NewIteratorStep DEF AbstractStep, KV!DBNext
<1>3. CASE serverIterator(i) /\ NewIteratorFails(i)
  <2>1. /\ Finish(i, "error") /\ handler[i] = "Iterator"
        /\ UNCHANGED <<serverVars, iteratorVars, getStreamVars>>
    BY <1>1, <1>3 DEF serverIterator, NewIteratorFails, iteratorVars
  <2>. QED
    BY <2>1, IterFinishStep, StuttersAre
<1>4. CASE handleIterator(i) /\ SendItem(i)
  BY <1>1, <1>4, SendItemStep, StuttersAre
<1>5. CASE handleIterator(i) /\ SendItemFails(i)
  <2>1. /\ Finish(i, "error") /\ handler[i] = "handleIterator" /\ it[i] # {} /\ end[i] # nil
        /\ UNCHANGED <<serverVars, iteratorVars, getStreamVars>>
    BY <1>1, <1>5 DEF handleIterator, SendItemFails, SendFails, iteratorVars
  <2>. QED
    BY <2>1, IterFinishStep, StuttersAre
<1>6. CASE handleIterator(i) /\ it[i] = {} /\ Finish(i, "EOF") /\ UNCHANGED <<it, itErr>>
  <2>1. /\ Finish(i, "EOF") /\ handler[i] = "handleIterator" /\ it[i] = {}
        /\ UNCHANGED <<serverVars, iteratorVars, getStreamVars>>
    BY <1>1, <1>6 DEF handleIterator, iteratorVars
  <2>. QED
    BY <2>1, IterFinishStep, StuttersAre
<1>7. serverIterator(i) => NewIterator(i) \/ NewIteratorFails(i)
  BY DEF serverIterator
<1>8. handleIterator(i) => \/ SendItem(i) \/ SendItemFails(i)
                           \/ it[i] = {} /\ Finish(i, "EOF") /\ UNCHANGED <<it, itErr>>
  BY DEF handleIterator
<1>. QED
  BY <1>1, <1>2, <1>3, <1>4, <1>5, <1>6, <1>7, <1>8

-----------------------------------------------------------------------------
(* Connections break, and the server dies. *)

LEMMA ArrivingIs ==
  ASSUME Inv, NEW i \in Stream, NEW p \in Arriving(i)
  PROVE  /\ \E n \in 0 .. Len(pipe[i]) : p = SubSeq(pipe[i], 1, n)
         /\ p \in Seq(Messages) /\ Len(p) <= Window
         /\ pipe[i] = <<>> => p = <<>>
<1>1. PICK n \in 0 .. Len(pipe[i]) : p = SubSeq(pipe[i], 1, n)
  BY DEF Arriving
<1>2. PICK r : r = pipe[i]
  OBVIOUS
<1>3. r \in Seq(Messages) /\ Len(r) <= Window /\ n \in 0 .. Len(r) /\ p = SubSeq(r, 1, n)
  BY <1>1, <1>2 DEF Inv, TypeOK, StreamTypes
<1>4. Window \in Nat
  BY StreamAssumption
<1>5. p \in Seq(Messages) /\ Len(p) <= Window
  BY <1>3, <1>4, SMT
<1>6. r = <<>> => p = <<>>
  BY <1>3, SMT
<1>. QED
  BY <1>1, <1>2, <1>5, <1>6

(* A broken stream keeps some of its messages. *)
LEMMA BrokenIter ==
  ASSUME Inv, NEW i \in Stream, IterInv(i), pipe'[i] \in Arriving(i), end'[i] = "error",
         handler'[i] = handler[i] \/ handler'[i] = "done",
         owner'[i] = owner[i], receiver'[i] = "none", answers'[i] = answers[i],
         UNCHANGED iteratorVars
  PROVE  IterInv(i)'
<1>1. PICK n \in 0 .. Len(pipe[i]) : pipe'[i] = SubSeq(pipe[i], 1, n)
  BY DEF Arriving
<1>2. pipe[i] \in Seq(Messages)
  BY DEF Inv, TypeOK, StreamTypes
<1>3. InOrder(query[i], view[i], cur[i], pipe'[i])
  <2>1. InOrder(query[i], view[i], cur[i], pipe[i])
    BY DEF IterInv
  <2>. QED
    BY <1>1, <1>2, <2>1, InOrderCut
<1>4. pipe[i] = <<>> => pipe'[i] = <<>>
  BY ArrivingIs
<1>. QED
  BY <1>3, <1>4, Sentinels DEF iteratorVars, IterInv

LEMMA BrokenGet ==
  ASSUME Inv, NEW i \in Stream, GetInv(i), pipe'[i] \in Arriving(i), end'[i] = "error",
         handler'[i] = handler[i] \/ handler'[i] = "done",
         owner'[i] = owner[i],
         \/ receiver'[i] = receiver[i] /\ out'[i] = out[i]
         \/ receiver'[i] = "done",
         UNCHANGED <<iteratorVars, asked, answers, taken, reads>>
  PROVE  GetInv(i)'
<1>1. PICK n \in 0 .. Len(pipe[i]) : pipe'[i] = SubSeq(pipe[i], 1, n)
  BY DEF Arriving
<1>2. PICK a, r, f, p : a = asked[i] /\ r = reads[i] /\ f = Len(answers[i]) /\ p = pipe[i]
  OBVIOUS
<1>3. /\ p \in Seq(Messages) /\ AreAnswers(a, r, f, p) /\ FailsLast(p) /\ n \in 0 .. Len(p)
  BY <1>1, <1>2 DEF Inv, TypeOK, StreamTypes, GetInv
<1>4. AreAnswers(a, r, f, SubSeq(p, 1, n)) /\ FailsLast(SubSeq(p, 1, n))
  BY <1>3, AnswersCut
<1>5. AreAnswers(asked[i], reads[i], Len(answers[i]), pipe'[i]) /\ FailsLast(pipe'[i])
  BY <1>1, <1>2, <1>4
<1>6. pipe[i] = <<>> => pipe'[i] = <<>>
  BY ArrivingIs
<1>7. NoMore(i)' /\ end'[i] # nil
  BY Sentinels DEF NoMore
<1>. QED
  BY <1>5, <1>6, <1>7 DEF iteratorVars, GetInv

LEMMA BreakStep ==
  ASSUME Inv, NEW i \in Stream, BreakStream(i)
  PROVE  Inv' /\ Stutters
<1>1. Break(i) /\ UNCHANGED <<serverVars, iteratorVars, getStreamVars>>
  BY DEF BreakStream
<1>2. PICK p \in Arriving(i) : pipe' = [pipe EXCEPT ![i] = p]
  BY <1>1 DEF Break
<1>3. p \in Seq(Messages) /\ Len(p) <= Window
  BY ArrivingIs
<1>4. /\ pipe' \in [Stream -> Seq(Messages)] /\ pipe'[i] = p
      /\ \A j \in Stream : Len(pipe'[j]) <= Window
      /\ \A j \in Stream \ {i} : pipe'[j] = pipe[j]
  BY <1>2, <1>3 DEF Inv, TypeOK, StreamTypes
<1>5. /\ end' \in [Stream -> {nil, "EOF", "error"}] /\ end'[i] = "error"
      /\ \A j \in Stream \ {i} : end'[j] = end[j]
  BY <1>1 DEF Break, Inv, TypeOK, StreamTypes
<1>6. /\ handler' \in [Stream -> Stages] /\ (handler'[i] = handler[i] \/ handler'[i] = "done")
      /\ \A j \in Stream \ {i} : handler'[j] = handler[j]
  <2>1. handler' = handler \/ handler' = [handler EXCEPT ![i] = "done"]
    BY <1>1 DEF Break
  <2>. QED
    BY <2>1 DEF Inv, TypeOK, StreamTypes, Stages
<1>7. breaks' \in 0 .. MaxBreaks
  <2>1. breaks \in 0 .. MaxBreaks /\ breaks < MaxBreaks /\ breaks' = breaks + 1
    BY <1>1 DEF Break, Inv, TypeOK, StreamTypes
  <2>2. MaxBreaks \in Nat
    BY StreamAssumption
  <2>. QED
    BY <2>1, <2>2, SMT
<1>8. UNCHANGED <<owner, closed>> /\ owner[i] # NoOne
  BY <1>1 DEF Break
<1>9. TypeOK'
  BY <1>1, <1>4, <1>5, <1>6, <1>7, <1>8 DEF Inv, serverVars, iteratorVars, getStreamVars,
    TypeOK, ServerTypes, StreamTypes
<1>10. \A j \in Stream \ {i} : Same(j)
  BY <1>1, <1>4, <1>5, <1>6, <1>8 DEF iteratorVars, getStreamVars, Same
<1>11. CASE IterInv(i)
  <2>1. receiver'[i] = "none" /\ answers'[i] = answers[i]
    BY <1>1, <1>11 DEF getStreamVars, IterInv
  <2>. QED
    BY <1>1, <1>4, <1>5, <1>6, <1>8, <1>9, <1>10, <1>11, <2>1, BrokenIter, OneStream
    DEF StreamInv, Stutters, Hidden, serverVars, iteratorVars
<1>12. CASE GetInv(i)
  <2>1. UNCHANGED <<iteratorVars, asked, answers, taken, reads>> /\ receiver'[i] = receiver[i]
        /\ out'[i] = out[i]
    BY <1>1 DEF getStreamVars
  <2>2. GetInv(i)'
    BY <1>4, <1>5, <1>6, <1>8, <1>12, <2>1, BrokenGet
  <2>. QED
    BY <1>1, <1>8, <1>9, <1>10, <2>2, OneStream
    DEF StreamInv, Stutters, Hidden, serverVars, iteratorVars
<1>. QED
  BY <1>8, <1>11, <1>12 DEF Inv, StreamInv, IsFresh

LEMMA PanicStep ==
  ASSUME Inv, Panic
  PROVE  Inv' /\ Stutters
<1>1. /\ Die /\ BreakAll /\ UNCHANGED <<iteratorVars, asked, answers, taken, reads>>
      /\ receiver' = [i \in Stream |-> IF receiver[i] = "none" THEN "none" ELSE "done"]
      /\ out' = For(nil) /\ sending' = For(nil)
  BY DEF Panic
<1>2. \A i \in Stream : pipe'[i] \in Arriving(i)
  BY <1>1 DEF BreakAll
<1>3. pipe' \in [Stream -> Seq(Messages)] /\ \A i \in Stream : Len(pipe'[i]) <= Window
  <2>1. DOMAIN pipe' = Stream /\ pipe' = [i \in Stream |-> pipe'[i]]
    BY <1>1 DEF BreakAll
  <2>2. \A i \in Stream : pipe'[i] \in Seq(Messages) /\ Len(pipe'[i]) <= Window
    BY <1>2, ArrivingIs
  <2>. QED
    BY <2>1, <2>2
<1>4. /\ end' = [i \in Stream |-> IF owner[i] = NoOne THEN nil ELSE "error"]
      /\ handler' = [i \in Stream |-> IF owner[i] = NoOne THEN "none" ELSE "done"]
      /\ UNCHANGED <<owner, closed, breaks>>
  BY <1>1 DEF BreakAll
<1>5. end' \in [Stream -> {nil, "EOF", "error"}] /\ handler' \in [Stream -> Stages]
  BY <1>4 DEF Stages
<1>6. StreamTypes'
  BY <1>3, <1>4, <1>5 DEF Inv, TypeOK, StreamTypes
<1>7. ServerTypes'
  BY <1>1 DEF Die, Inv, TypeOK, ServerTypes
<1>8. /\ receiver' \in [Stream -> {"none", "recv", "offer", "last", "done"}]
      /\ out' \in [Stream -> Messages \cup {nil}] /\ sending' \in [Stream -> Messages \cup {nil}]
  BY <1>1 DEF For
<1>9. TypeOK'
  BY <1>1, <1>6, <1>7, <1>8 DEF Inv, iteratorVars, TypeOK
<1>10. ASSUME NEW i \in Stream
       PROVE  StreamInv(i)'
  <2>1. receiver'[i] = IF receiver[i] = "none" THEN "none" ELSE "done"
    BY <1>1
  <2>2. CASE IsFresh(i)
    <3>1. pipe'[i] = <<>>
      BY <1>2, <2>2, ArrivingIs DEF IsFresh
    <3>2. end'[i] = nil /\ handler'[i] = "none"
      BY <1>4, <2>2 DEF IsFresh
    <3>. QED
      BY <1>1, <1>4, <2>1, <2>2, <3>1, <3>2 DEF StreamInv, IsFresh, iteratorVars
  <2>3. CASE IterInv(i) \/ GetInv(i)
    <3>1. owner[i] # NoOne
      BY <2>3 DEF IterInv, GetInv
    <3>2. end'[i] = "error" /\ handler'[i] = "done" /\ owner'[i] = owner[i]
      BY <1>4, <3>1
    <3>3. IterInv(i) => IterInv(i)'
      <4>1. IterInv(i) => receiver'[i] = "none" /\ answers'[i] = answers[i]
        BY <1>1, <2>1 DEF IterInv
      <4>. QED
        BY <1>1, <1>2, <3>2, <4>1, BrokenIter
    <3>4. GetInv(i) => GetInv(i)'
      <4>1. GetInv(i) => receiver'[i] = "done"
        BY <2>1 DEF GetInv
      <4>. QED
        BY <1>1, <1>2, <3>2, <4>1, BrokenGet
    <3>. QED
      BY <2>3, <3>3, <3>4 DEF StreamInv
  <2>. QED
    BY <2>2, <2>3 DEF Inv, StreamInv
<1>11. \A j \in Stream : Hidden(j)
  BY <1>1, <1>4 DEF Hidden, iteratorVars
<1>. QED
  BY <1>1, <1>9, <1>10, <1>11 DEF Inv, Stutters, Die, iteratorVars

-----------------------------------------------------------------------------
(* GetStream. *)

LEMMA GetIsStuttering ==
  ASSUME UNCHANGED <<files, owner, iteratorVars>>
  PROVE  Stutters
BY DEF Stutters, Hidden, iteratorVars

LEMMA IsGetInv ==
  ASSUME Inv, NEW i \in Stream, receiver[i] # "none" \/ handler[i] \in {"range", "Send"}
  PROVE  GetInv(i)
BY DEF Inv, StreamInv, IsFresh, IterInv

LEMMA OpenGetStreamStep ==
  ASSUME Inv, NEW c \in Client, NEW i \in Stream, OpenGetStream(c, i), UNCHANGED iteratorVars
  PROVE  Inv' /\ Stutters
<1>1. /\ owner' = [owner EXCEPT ![i] = c] /\ handler' = [handler EXCEPT ![i] = "range"]
      /\ receiver' = [receiver EXCEPT ![i] = "recv"]
      /\ UNCHANGED <<serverVars, closed, pipe, end, breaks, asked, answers, taken, out, sending, reads>>
      /\ owner[i] = NoOne
  BY DEF OpenGetStream, NewStream
<1>2. /\ owner' \in [Stream -> Client \cup {NoOne}] /\ handler' \in [Stream -> Stages]
      /\ receiver' \in [Stream -> {"none", "recv", "offer", "last", "done"}]
  BY <1>1 DEF Inv, TypeOK, StreamTypes, Stages
<1>3. TypeOK'
  BY <1>1, <1>2 DEF Inv, serverVars, iteratorVars, TypeOK, ServerTypes, StreamTypes
<1>4. /\ owner'[i] = c /\ handler'[i] = "range" /\ receiver'[i] = "recv"
      /\ \A j \in Stream \ {i} :
           owner'[j] = owner[j] /\ handler'[j] = handler[j] /\ receiver'[j] = receiver[j]
  BY <1>1 DEF Inv, TypeOK, StreamTypes
<1>5. \A j \in Stream \ {i} : Same(j)
  BY <1>1, <1>4 DEF iteratorVars, Same
<1>6. IsFresh(i)
  BY <1>1 DEF Inv, StreamInv, IterInv, GetInv
<1>7. Len(<<>>) = 0 /\ 0 <= MaxAsks /\ 0 <= 0 /\ 0 + 0 + 0 = 0
  BY GetStreamAssumption, SMT
<1>8. Sent(i)' = 0
  <2>1. Len(answers'[i]) = 0 /\ Len(pipe'[i]) = 0 /\ handler'[i] # "Send"
    BY <1>1, <1>4, <1>6, <1>7 DEF IsFresh
  <2>2. Sent(i)' = 0 + 0 + 0
    BY <2>1 DEF Sent
  <2>. QED
    BY <1>7, <2>2
<1>9. GetInv(i)'
  <2>1. /\ answers'[i] = <<>> /\ pipe'[i] = <<>> /\ asked'[i] = <<>> /\ reads'[i] = <<>>
        /\ taken'[i] = 0 /\ ~waits'[i] /\ cur'[i] = nil /\ err'[i] = nil /\ view'[i] = nil
    BY <1>1, <1>6 DEF IsFresh, iteratorVars
  <2>2. /\ Len(reads'[i]) = taken'[i] /\ taken'[i] <= Len(asked'[i])
        /\ Len(asked'[i]) <= MaxAsks /\ taken'[i] = Sent(i)'
    BY <1>7, <1>8, <2>1
  <2>3. \A a, r, f : AreAnswers(a, r, f, <<>>) /\ FailsLast(<<>>) /\ ~HasFailed(<<>>)
    BY AnswersNone
  <2>4. c # NoOne
    BY StreamAssumption
  <2>. QED
    BY <1>4, <2>1, <2>2, <2>3, <2>4 DEF GetInv
<1>10. \A j \in Stream : Hidden(j)
  BY <1>4, <1>6 DEF IsFresh, Hidden, iteratorVars
<1>. QED
  BY <1>1, <1>3, <1>5, <1>9, <1>10, OneStream DEF StreamInv, Stutters, serverVars, iteratorVars

LEMMA CloseAskingStep ==
  ASSUME Inv, NEW c \in Client, NEW i \in Stream, CloseAsking(c, i), UNCHANGED iteratorVars
  PROVE  Inv' /\ Stutters
<1>1. \A j \in Stream : Same(j) /\ Hidden(j)
  BY DEF CloseAsking, CloseSend, Same, Hidden, iteratorVars, getStreamVars
<1>2. TypeOK'
  BY DEF Inv, CloseAsking, CloseSend, serverVars, iteratorVars, getStreamVars,
    TypeOK, ServerTypes, StreamTypes
<1>. QED
  BY <1>1, <1>2, Frame DEF Stutters, CloseAsking, serverVars, iteratorVars

LEMMA SentType ==
  ASSUME Inv, NEW i \in Stream
  PROVE  /\ Sent(i) \in Nat /\ Sent(i) + 1 \in Nat \ {0} /\ (handler[i] = "Send" => Sent(i) \in Nat \ {0})
         /\ Len(answers[i]) \in Nat /\ Len(pipe[i]) \in Nat
<1>1. answers[i] \in Seq(Messages) /\ pipe[i] \in Seq(Messages)
  BY DEF Inv, TypeOK, StreamTypes
<1>2. Len(answers[i]) \in Nat /\ Len(pipe[i]) \in Nat
  BY <1>1, SMT
<1>3. PICK x : x = IF handler[i] = "Send" THEN 1 ELSE 0
  OBVIOUS
<1>4. Sent(i) = Len(answers[i]) + Len(pipe[i]) + x /\ x \in {0, 1}
  BY <1>3 DEF Sent
<1>5. Sent(i) \in Nat /\ Sent(i) + 1 \in Nat \ {0} /\ (x = 1 => Sent(i) \in Nat \ {0})
  <2>1. PICK l, m, s : l = Len(answers[i]) /\ m = Len(pipe[i]) /\ s = Sent(i)
    OBVIOUS
  <2>2. l \in Nat /\ m \in Nat /\ s = l + m + x /\ x \in {0, 1}
    BY <1>2, <1>4, <2>1
  <2>3. s \in Nat /\ s + 1 \in Nat \ {0} /\ (x = 1 => s \in Nat \ {0})
    BY <2>2, SMT
  <2>. QED
    BY <2>1, <2>3
<1>. QED
  BY <1>2, <1>3, <1>5

LEMMA AskStep ==
  ASSUME Inv, NEW c \in Client, NEW i \in Stream, NEW k \in Asks, Ask(c, i, k), UNCHANGED iteratorVars
  PROVE  Inv' /\ Stutters
<1>1. GetInv(i) /\ Len(asked[i]) < MaxAsks
  BY IsGetInv DEF Ask, IsGetStream
<1>2. /\ asked' = [asked EXCEPT ![i] = Append(asked[i], k)]
      /\ UNCHANGED <<serverVars, streamVars, answers, receiver, taken, out, sending, reads>>
  BY DEF Ask
<1>3. PICK a, r, f, x : a = asked[i] /\ r = reads[i] /\ f = Len(answers[i]) /\ x = Append(a, k)
  OBVIOUS
<1>4. /\ a \in Seq(Asks) /\ r \in Seq(Contents) /\ f \in Nat /\ files \in Contents
      /\ answers[i] \in Seq(Messages) /\ pipe[i] \in Seq(Messages)
  BY <1>3, SentType DEF Inv, TypeOK, StreamTypes, ServerTypes
<1>5. x \in Seq(Asks) /\ Len(x) = Len(a) + 1 /\ Len(a) \in Nat
  <2>1. a \in Seq(Asks) /\ x = Append(a, k)
    BY <1>3, <1>4
  <2>. QED
    BY <2>1, SMT
<1>6. taken[i] <= Len(x) /\ Len(x) <= MaxAsks
  <2>1. taken[i] \in 0 .. MaxAsks /\ taken[i] <= Len(a) /\ Len(a) < MaxAsks /\ MaxAsks \in Nat
    BY <1>1, <1>3, GetStreamAssumption DEF GetInv, Inv, TypeOK
  <2>2. Len(x) = Len(a) + 1 /\ Len(a) \in Nat
    BY <1>5
  <2>. QED
    BY <2>1, <2>2, SMT
<1>7. /\ asked' \in [Stream -> Seq(Asks)] /\ asked'[i] = x
      /\ \A j \in Stream \ {i} : asked'[j] = asked[j]
  BY <1>2, <1>3, <1>5 DEF Inv, TypeOK
<1>8. TypeOK'
  BY <1>2, <1>7 DEF Inv, serverVars, streamVars, iteratorVars, TypeOK, ServerTypes, StreamTypes
<1>9. \A j \in Stream \ {i} : Same(j)
  BY <1>2, <1>7 DEF streamVars, iteratorVars, Same
<1>10. AreAnswers(x, r, 0, answers[i]) /\ AreAnswers(x, r, f, pipe[i])
  <2>1. AreAnswers(a, r, 0, answers[i]) /\ AreAnswers(a, r, f, pipe[i]) /\ 0 \in Nat
    BY <1>1, <1>3 DEF GetInv
  <2>2. AreAnswers(Append(a, k), r, 0, answers[i]) /\ AreAnswers(Append(a, k), r, f, pipe[i])
    BY <1>4, <2>1, AnswersGrow
  <2>. QED
    BY <1>3, <2>2
<1>11. \A n \in Nat \ {0} : \A m : IsAnswer(a, r, n, m) => IsAnswer(x, r, n, m)
  <2>1. \A n \in Nat \ {0} : \A m : IsAnswer(a, r, n, m) => IsAnswer(Append(a, k), r, n, m)
    BY <1>4, AnswerGrows
  <2>. QED
    BY <1>3, <2>1
<1>12. Sent(i)' = Sent(i) /\ (NoMore(i)' <=> NoMore(i))
  BY <1>2 DEF streamVars, Sent, NoMore
<1>13. /\ handler[i] = "Send" => Sent(i) \in Nat \ {0}
       /\ Sent(i) + 1 \in Nat \ {0}
  BY SentType
<1>14. GetInv(i)'
  BY <1>1, <1>2, <1>3, <1>6, <1>7, <1>10, <1>11, <1>12, <1>13
  DEF streamVars, iteratorVars, GetInv
<1>. QED
  BY <1>2, <1>8, <1>9, <1>14, OneStream, GetIsStuttering DEF StreamInv, serverVars, streamVars

LEMMA AnsweredStep ==
  ASSUME Inv, NEW c \in Client, NEW i \in Stream, Answered(c, i), UNCHANGED iteratorVars
  PROVE  Inv' /\ Stutters
<1>1. GetInv(i) /\ pipe[i] # <<>>
  BY IsGetInv DEF Answered, IsGetStream
<1>2. PICK a, r, w, p, h, t, x : /\ a = asked[i] /\ r = reads[i] /\ w = answers[i] /\ p = pipe[i]
                                 /\ h = Head(p) /\ t = Tail(p) /\ x = Append(w, h)
  OBVIOUS
<1>3. /\ answers' = [answers EXCEPT ![i] = x] /\ pipe' = [pipe EXCEPT ![i] = t]
      /\ UNCHANGED <<serverVars, owner, closed, end, handler, breaks>>
      /\ UNCHANGED <<asked, receiver, taken, out, sending, reads>>
  BY <1>1, <1>2 DEF Answered, Recv
<1>4. /\ w \in Seq(Messages) /\ p \in Seq(Messages) /\ p # <<>> /\ Len(p) <= Window
  BY <1>1, <1>2 DEF Inv, TypeOK, StreamTypes
<1>5. h \in Messages /\ t \in Seq(Messages) /\ Len(p) \in Nat /\ Len(t) = Len(p) - 1 /\ Len(p) >= 1
  BY <1>2, <1>4, TailFacts
<1>6. x \in Seq(Messages) /\ Len(x) = Len(w) + 1 /\ Len(w) \in Nat
  <2>1. w \in Seq(Messages) /\ h \in Messages /\ x = Append(w, h)
    BY <1>2, <1>4, <1>5
  <2>. QED
    BY <2>1, SMT
<1>7. Len(t) <= Window /\ Len(x) + Len(t) = Len(w) + Len(p)
  <2>1. /\ Len(p) <= Window /\ Len(t) = Len(p) - 1 /\ Len(p) \in Nat
        /\ Len(x) = Len(w) + 1 /\ Len(w) \in Nat /\ Window \in Nat
    BY <1>4, <1>5, <1>6, StreamAssumption
  <2>. QED
    BY <2>1, SMT
<1>8. /\ answers' \in [Stream -> Seq(Messages)] /\ pipe' \in [Stream -> Seq(Messages)]
      /\ answers'[i] = x /\ pipe'[i] = t /\ \A j \in Stream : Len(pipe'[j]) <= Window
      /\ \A j \in Stream \ {i} : answers'[j] = answers[j] /\ pipe'[j] = pipe[j]
  BY <1>3, <1>5, <1>6, <1>7 DEF Inv, TypeOK, StreamTypes
<1>9. TypeOK'
  BY <1>3, <1>8 DEF Inv, serverVars, iteratorVars, TypeOK, ServerTypes, StreamTypes
<1>10. \A j \in Stream \ {i} : Same(j)
  BY <1>3, <1>8 DEF iteratorVars, Same
<1>11. /\ AreAnswers(a, r, 0, w) /\ AreAnswers(a, r, Len(w), p) /\ FailsLast(p) /\ ~HasFailed(w)
       /\ HasFailed(p) => NoMore(i)
  BY <1>1, <1>2 DEF GetInv
<1>12. /\ IsAnswer(a, r, Len(w) + 1, h) /\ AreAnswers(a, r, Len(x), t)
       /\ FailsLast(t) /\ (HasFailed(t) => HasFailed(p))
       /\ h.failed => HasFailed(p) /\ t = <<>>
  <2>1. /\ IsAnswer(a, r, Len(w) + 1, Head(p)) /\ AreAnswers(a, r, Len(w) + 1, Tail(p))
        /\ FailsLast(Tail(p)) /\ (HasFailed(Tail(p)) => HasFailed(p))
        /\ Head(p).failed => HasFailed(p) /\ Tail(p) = <<>>
    BY <1>4, <1>6, <1>11, AnswersTail
  <2>. QED
    BY <1>2, <1>6, <2>1
<1>13. AreAnswers(a, r, 0, x) /\ FailsLast(x) /\ (HasFailed(x) => h.failed)
  <2>1. 0 + Len(w) + 1 = Len(w) + 1 /\ 0 \in Nat
    BY <1>6, SMT
  <2>2. LET s == Append(w, h) IN AreAnswers(a, r, 0, s) /\ FailsLast(s) /\ (HasFailed(s) => h.failed)
    BY <1>4, <1>5, <1>11, <1>12, <2>1, AnswersAppend
  <2>. QED
    BY <1>2, <2>2
<1>14. NoMore(i)' <=> NoMore(i)
  BY <1>3 DEF NoMore
<1>15. Sent(i)' = Sent(i)
  BY <1>2, <1>3, <1>7, <1>8 DEF Sent
<1>16. GetInv(i)'
  BY <1>1, <1>2, <1>3, <1>8, <1>11, <1>12, <1>13, <1>14, <1>15 DEF iteratorVars, GetInv
<1>. QED
  BY <1>3, <1>9, <1>10, <1>16, OneStream, GetIsStuttering DEF StreamInv, serverVars

(* The goroutine. *)
LEMMA ReceiveFailsStep ==
  ASSUME Inv, NEW i \in Stream, ReceiveFails(i), UNCHANGED iteratorVars
  PROVE  Inv' /\ Stutters
<1>1. GetInv(i) /\ receiver[i] = "recv"
  BY IsGetInv DEF ReceiveFails
<1>2. /\ receiver' = [receiver EXCEPT ![i] = "last"] /\ out' = [out EXCEPT ![i] = Failure]
      /\ UNCHANGED <<serverVars, streamVars, asked, answers, taken, sending, reads>>
  BY DEF ReceiveFails, Offer
<1>3. Failure \in Messages /\ Failure.failed = TRUE
  BY Sentinels DEF Failure, Message, Messages
<1>4. /\ receiver' \in [Stream -> {"none", "recv", "offer", "last", "done"}]
      /\ out' \in [Stream -> Messages \cup {nil}] /\ receiver'[i] = "last" /\ out'[i] = Failure
      /\ \A j \in Stream \ {i} : receiver'[j] = receiver[j] /\ out'[j] = out[j]
  BY <1>2, <1>3 DEF Inv, TypeOK
<1>5. TypeOK'
  BY <1>2, <1>4 DEF Inv, serverVars, streamVars, iteratorVars, TypeOK, ServerTypes, StreamTypes
<1>6. \A j \in Stream \ {i} : Same(j)
  BY <1>2, <1>4 DEF streamVars, iteratorVars, Same
<1>7. Sent(i)' = Sent(i) /\ (NoMore(i) => NoMore(i)')
  BY <1>1, <1>2 DEF streamVars, Sent, NoMore
<1>8. \A n : IsAnswer(asked[i], reads[i], n, Failure)
  BY <1>3 DEF IsAnswer
<1>9. GetInv(i)'
  BY <1>1, <1>2, <1>3, <1>4, <1>7, <1>8 DEF streamVars, iteratorVars, GetInv
<1>. QED
  BY <1>2, <1>5, <1>6, <1>9, OneStream, GetIsStuttering DEF StreamInv, serverVars, streamVars

(* What the goroutine offers for a key. *)
LEMMA GotAnswer ==
  ASSUME Inv, NEW i \in Stream, ReceiveKey(i)
  PROVE  \E m \in Messages, stage \in {"offer", "last"} :
           /\ receiver' = [receiver EXCEPT ![i] = stage] /\ out' = [out EXCEPT ![i] = m]
           /\ stage = "offer" => ~m.failed
           /\ ~m.failed => /\ stage = "offer"
                           /\ m.value = LET v == files[asked[i][taken[i] + 1]]
                                        IN  IF v = Absent THEN nil ELSE v
<1>1. PICK k : k = asked[i][taken[i] + 1]
  OBVIOUS
<1>2. k \in KeyArg
  <2>1. /\ asked[i] \in Seq(Asks) /\ taken[i] \in 0 .. MaxAsks /\ taken[i] < Len(asked[i])
    BY DEF ReceiveKey, Inv, TypeOK
  <2>2. k \in Asks
    BY <1>1, <2>1, SMT
  <2>. QED
    BY <2>2, GetStreamAssumption
<1>3. CASE GetReturns(i, k)
  <2>1. PICK v : v = IF files[k] = Absent THEN nil ELSE Wire(files[k])
    OBVIOUS
  <2>2. v = (IF files[k] = Absent THEN nil ELSE files[k]) /\ v \in Value \cup {nil}
    <3>1. files[k] \in Value \cup {Absent}
      BY <1>2 DEF Inv, TypeOK, ServerTypes, Contents
    <3>2. files[k] # Absent => Wire(files[k]) = files[k]
      BY <3>1, Sentinels DEF Wire
    <3>. QED
      BY <2>1, <3>1, <3>2
  <2>3. PICK m : m = Message(EmptyKey, v, FALSE)
    OBVIOUS
  <2>4. m \in Messages /\ m.failed = FALSE /\ m.value = v
    BY <2>2, <2>3, Sentinels DEF Message, Messages
  <2>5. receiver' = [receiver EXCEPT ![i] = "offer"] /\ out' = [out EXCEPT ![i] = m]
    BY <1>3, <2>1, <2>3 DEF GetReturns, Offer
  <2>. QED
    BY <1>1, <2>2, <2>4, <2>5
<1>4. CASE GetFails(i, k)
  <2>1. PICK m : m = Message(k, nil, TRUE)
    OBVIOUS
  <2>2. m \in Messages /\ m.failed = TRUE
    BY <1>2, <2>1 DEF Message, Messages
  <2>3. receiver' = [receiver EXCEPT ![i] = "last"] /\ out' = [out EXCEPT ![i] = m]
    BY <1>4, <2>1 DEF GetFails, Offer
  <2>. QED
    BY <2>2, <2>3
<1>. QED
  BY <1>1, <1>3, <1>4 DEF ReceiveKey

LEMMA ReceiveKeyStep ==
  ASSUME Inv, NEW i \in Stream, ReceiveKey(i), UNCHANGED iteratorVars
  PROVE  Inv' /\ Stutters
<1>1. GetInv(i) /\ receiver[i] = "recv" /\ taken[i] < Len(asked[i])
  BY IsGetInv DEF ReceiveKey
<1>2. PICK m \in Messages, stage \in {"offer", "last"} :
           /\ receiver' = [receiver EXCEPT ![i] = stage] /\ out' = [out EXCEPT ![i] = m]
           /\ stage = "offer" => ~m.failed
           /\ ~m.failed => /\ stage = "offer"
                           /\ m.value = LET v == files[asked[i][taken[i] + 1]]
                                        IN  IF v = Absent THEN nil ELSE v
  BY GotAnswer
<1>3. PICK a, r, f, n, x : /\ a = asked[i] /\ r = reads[i] /\ f = Len(answers[i])
                           /\ n = taken[i] /\ x = Append(r, files)
  OBVIOUS
<1>4. /\ taken' = [taken EXCEPT ![i] = n + 1] /\ reads' = [reads EXCEPT ![i] = x]
      /\ UNCHANGED <<serverVars, streamVars, asked, answers, sending>>
  BY <1>3 DEF ReceiveKey
<1>5. /\ a \in Seq(Asks) /\ r \in Seq(Contents) /\ f \in Nat /\ files \in Contents
      /\ answers[i] \in Seq(Messages) /\ pipe[i] \in Seq(Messages) /\ n \in 0 .. MaxAsks
  BY <1>3, SentType DEF Inv, TypeOK, StreamTypes, ServerTypes
<1>6. n < Len(a) /\ Len(a) <= MaxAsks /\ Len(r) = n
  BY <1>1, <1>3 DEF GetInv
<1>7. /\ x \in Seq(Contents) /\ Len(x) = n + 1 /\ x[n + 1] = files
      /\ n + 1 \in 0 .. MaxAsks /\ n + 1 <= Len(a) /\ n + 1 <= Len(x)
  <2>1. x = Append(r, files) /\ r \in Seq(Contents) /\ a \in Seq(Asks) /\ files \in Contents
    BY <1>3, <1>5
  <2>2. MaxAsks \in Nat /\ n \in 0 .. MaxAsks
    BY <1>5, GetStreamAssumption
  <2>. QED
    BY <1>6, <2>1, <2>2, SMT
<1>8. /\ receiver' \in [Stream -> {"none", "recv", "offer", "last", "done"}]
      /\ out' \in [Stream -> Messages \cup {nil}] /\ receiver'[i] = stage /\ out'[i] = m
      /\ taken' \in [Stream -> 0 .. MaxAsks] /\ taken'[i] = n + 1
      /\ reads' \in [Stream -> Seq(Contents)] /\ reads'[i] = x
      /\ \A j \in Stream \ {i} : /\ receiver'[j] = receiver[j] /\ out'[j] = out[j]
                                 /\ taken'[j] = taken[j] /\ reads'[j] = reads[j]
  BY <1>2, <1>4, <1>7 DEF Inv, TypeOK
<1>9. TypeOK'
  BY <1>4, <1>8 DEF Inv, serverVars, streamVars, iteratorVars, TypeOK, ServerTypes, StreamTypes
<1>10. \A j \in Stream \ {i} : Same(j)
  BY <1>4, <1>8 DEF streamVars, iteratorVars, Same
<1>11. Sent(i)' = Sent(i) /\ (NoMore(i) => NoMore(i)')
  BY <1>1, <1>4 DEF streamVars, Sent, NoMore
<1>12. AreAnswers(a, x, 0, answers[i]) /\ AreAnswers(a, x, f, pipe[i])
  <2>1. AreAnswers(a, r, 0, answers[i]) /\ AreAnswers(a, r, f, pipe[i]) /\ 0 \in Nat
    BY <1>1, <1>3 DEF GetInv
  <2>2. a[1] \in Asks
    BY <1>5, <1>6, SMT
  <2>3. AreAnswers(a, Append(r, files), 0, answers[i]) /\ AreAnswers(a, Append(r, files), f, pipe[i])
    BY <1>5, <2>1, <2>2, AnswersGrow
  <2>. QED
    BY <1>3, <2>3
<1>13. \A l \in Nat \ {0} : \A y : IsAnswer(a, r, l, y) => IsAnswer(a, x, l, y)
  <2>1. a[1] \in Asks
    BY <1>5, <1>6, SMT
  <2>2. \A l \in Nat \ {0} : \A y : IsAnswer(a, r, l, y) => IsAnswer(a, Append(r, files), l, y)
    BY <1>5, <2>1, AnswerGrows
  <2>. QED
    BY <1>3, <2>2
<1>14. handler[i] = "Send" => Sent(i) \in Nat \ {0}
  BY SentType
<1>15. IsAnswer(a, x, n + 1, m)
  BY <1>2, <1>3, <1>7 DEF IsAnswer
<1>16. end[i] = nil => n = Sent(i)
  BY <1>1, <1>3 DEF GetInv
<1>17. ASSUME end[i] = nil
       PROVE  /\ handler[i] = "Send" =>
                   /\ sending[i] \in Messages /\ IsAnswer(a, x, Sent(i), sending[i])
                   /\ ~sending[i].failed
              /\ IsAnswer(a, x, Sent(i) + 1, m) /\ n + 1 = Sent(i) + 1
  <2>1. handler[i] = "Send" => /\ sending[i] \in Messages /\ IsAnswer(a, r, Sent(i), sending[i])
                               /\ ~sending[i].failed
    BY <1>1, <1>3, <1>17 DEF GetInv
  <2>. QED
    BY <1>13, <1>14, <1>15, <1>16, <1>17, <2>1
<1>18. GetInv(i)'
  BY <1>1, <1>2, <1>3, <1>4, <1>6, <1>7, <1>8, <1>11, <1>12, <1>17
  DEF streamVars, iteratorVars, GetInv
<1>. QED
  BY <1>4, <1>9, <1>10, <1>18, OneStream, GetIsStuttering DEF StreamInv, serverVars, streamVars

(* The handler. *)
LEMMA HandOverStep ==
  ASSUME Inv, NEW i \in Stream, HandOver(i), UNCHANGED iteratorVars
  PROVE  Inv' /\ Stutters
<1>1. GetInv(i) /\ handler[i] = "range" /\ receiver[i] \in {"offer", "last"}
  BY IsGetInv DEF HandOver
<1>2. PICK m, stage : m = out[i] /\ stage = IF receiver[i] = "last" THEN "done" ELSE "recv"
  OBVIOUS
<1>3. /\ handler' = [handler EXCEPT ![i] = "Send"] /\ sending' = [sending EXCEPT ![i] = m]
      /\ receiver' = [receiver EXCEPT ![i] = stage] /\ out' = [out EXCEPT ![i] = nil]
      /\ UNCHANGED <<serverVars, owner, closed, pipe, end, breaks, asked, answers, taken, reads>>
  BY <1>2 DEF HandOver
<1>4. m \in Messages /\ stage \in {"done", "recv"} /\ (m.failed => stage = "done")
  BY <1>1, <1>2 DEF GetInv
<1>5. /\ handler' \in [Stream -> Stages] /\ handler'[i] = "Send"
      /\ sending' \in [Stream -> Messages \cup {nil}] /\ sending'[i] = m
      /\ receiver' \in [Stream -> {"none", "recv", "offer", "last", "done"}] /\ receiver'[i] = stage
      /\ out' \in [Stream -> Messages \cup {nil}]
      /\ \A j \in Stream \ {i} : /\ receiver'[j] = receiver[j] /\ out'[j] = out[j]
                                 /\ handler'[j] = handler[j] /\ sending'[j] = sending[j]
  BY <1>3, <1>4 DEF Inv, TypeOK, StreamTypes, Stages
<1>6. TypeOK'
  BY <1>3, <1>5 DEF Inv, serverVars, iteratorVars, TypeOK, ServerTypes, StreamTypes
<1>7. \A j \in Stream \ {i} : Same(j)
  BY <1>3, <1>5 DEF iteratorVars, Same
<1>8. NoMore(i) => NoMore(i)'
  BY <1>1, <1>3 DEF NoMore
<1>9. Sent(i)' = Sent(i) + 1
  <2>1. PICK l, n : l = Len(answers[i]) /\ n = Len(pipe[i])
    OBVIOUS
  <2>2. l \in Nat /\ n \in Nat
    BY <2>1, SentType
  <2>3. Sent(i) = l + n + 0 /\ Sent(i)' = l + n + 1
    BY <1>1, <1>3, <1>5, <2>1 DEF Sent
  <2>4. l + n + 1 = (l + n + 0) + 1
    BY <2>2, SMT
  <2>. QED
    BY <2>3, <2>4
<1>10. end[i] = nil => IsAnswer(asked[i], reads[i], Sent(i) + 1, m)
                       /\ (stage = "recv" => taken[i] = Sent(i) + 1)
  BY <1>1, <1>2 DEF GetInv
<1>11. GetInv(i)'
  BY <1>1, <1>3, <1>4, <1>5, <1>8, <1>9, <1>10 DEF iteratorVars, GetInv
<1>. QED
  BY <1>3, <1>6, <1>7, <1>11, OneStream, GetIsStuttering DEF StreamInv, serverVars

LEMMA SendAnswerStep ==
  ASSUME Inv, NEW i \in Stream, UNCHANGED iteratorVars, handler[i] = "Send",
         Send(i, sending[i], "range"), sending' = [sending EXCEPT ![i] = nil],
         UNCHANGED <<serverVars, asked, answers, receiver, taken, out, reads>>
  PROVE  Inv' /\ Stutters
<1>1. GetInv(i) /\ end[i] = nil
  BY IsGetInv DEF Send, SendFails
<1>2. PICK a, r, f, p, m, x : /\ a = asked[i] /\ r = reads[i] /\ f = Len(answers[i])
                              /\ p = pipe[i] /\ m = sending[i] /\ x = Append(p, m)
  OBVIOUS
<1>3. m \in Messages /\ (m.failed => receiver[i] = "done") /\ IsAnswer(a, r, Sent(i), m)
  BY <1>1, <1>2 DEF GetInv
<1>4. /\ StreamTypes' /\ UNCHANGED <<owner, end>> /\ handler'[i] = "range" /\ pipe'[i] = x
      /\ \A j \in Stream \ {i} : handler'[j] = handler[j] /\ pipe'[j] = pipe[j]
  BY <1>2, <1>3, Sends DEF Stages
<1>5. /\ sending' \in [Stream -> Messages \cup {nil}]
      /\ \A j \in Stream \ {i} : sending'[j] = sending[j]
  BY DEF Inv, TypeOK
<1>6. TypeOK'
  BY <1>4, <1>5 DEF Inv, serverVars, iteratorVars, TypeOK, ServerTypes
<1>7. \A j \in Stream \ {i} : Same(j)
  BY <1>4, <1>5 DEF iteratorVars, Same
<1>8. ~HasFailed(p) /\ ~HasFailed(answers[i])
  BY <1>1, <1>2 DEF GetInv, NoMore
<1>9. p \in Seq(Messages) /\ f \in Nat /\ Len(p) \in Nat
  BY <1>2, SentType DEF Inv, TypeOK, StreamTypes
<1>10. Sent(i) = f + Len(p) + 1 /\ Sent(i)' = Sent(i)
  <2>1. x \in Seq(Messages) /\ Len(x) = Len(p) + 1
    <3>1. x = Append(p, m) /\ p \in Seq(Messages) /\ m \in Messages
      BY <1>2, <1>3, <1>9
    <3>. QED
      BY <3>1, SMT
  <2>2. Sent(i) = f + Len(p) + 1 /\ Sent(i)' = f + Len(x) + 0
    BY <1>2, <1>4 DEF Sent
  <2>3. f + (Len(p) + 1) + 0 = f + Len(p) + 1
    BY <1>9, SMT
  <2>. QED
    BY <2>1, <2>2, <2>3
<1>11. AreAnswers(a, r, f, x) /\ FailsLast(x) /\ (HasFailed(x) => m.failed)
  <2>1. AreAnswers(a, r, f, p) /\ IsAnswer(a, r, f + Len(p) + 1, m)
    BY <1>1, <1>2, <1>3, <1>10 DEF GetInv
  <2>2. LET s == Append(p, m) IN AreAnswers(a, r, f, s) /\ FailsLast(s) /\ (HasFailed(s) => m.failed)
    BY <1>3, <1>8, <1>9, <2>1, AnswersAppend
  <2>. QED
    BY <1>2, <2>2
<1>12. receiver[i] = "done" => NoMore(i)'
  BY <1>4 DEF NoMore
<1>13. GetInv(i)'
  BY <1>1, <1>2, <1>3, <1>4, <1>8, <1>10, <1>11, <1>12 DEF iteratorVars, GetInv
<1>. QED
  BY <1>4, <1>6, <1>7, <1>13, OneStream, GetIsStuttering DEF StreamInv, serverVars

(* The handler of a GetStream returns. *)
LEMMA GetFinishStep ==
  ASSUME Inv, NEW i \in Stream, NEW s \in {"EOF", "error"}, Finish(i, s), GetInv(i),
         UNCHANGED <<serverVars, iteratorVars, asked, answers, receiver, taken, out, reads>>,
         sending' \in {sending, [sending EXCEPT ![i] = nil]}
  PROVE  Inv' /\ Stutters
<1>1. /\ StreamTypes' /\ UNCHANGED <<owner, pipe>>
      /\ handler'[i] = "done" /\ end'[i] # nil
      /\ \A j \in Stream \ {i} : handler'[j] = handler[j] /\ end'[j] = end[j]
  BY Finishes
<1>2. /\ sending' \in [Stream -> Messages \cup {nil}]
      /\ \A j \in Stream \ {i} : sending'[j] = sending[j]
  BY DEF Inv, TypeOK
<1>3. TypeOK'
  BY <1>1, <1>2 DEF Inv, serverVars, iteratorVars, TypeOK, ServerTypes
<1>4. \A j \in Stream \ {i} : Same(j)
  BY <1>1, <1>2 DEF iteratorVars, Same
<1>5. NoMore(i)'
  BY <1>1 DEF NoMore
<1>6. GetInv(i)'
  BY <1>1, <1>5 DEF iteratorVars, GetInv
<1>. QED
  BY <1>1, <1>3, <1>4, <1>6, OneStream, GetIsStuttering DEF StreamInv, serverVars

LEMMA RespondStep ==
  ASSUME Inv, NEW i \in Stream, Respond(i)
  PROVE  Inv' /\ Stutters
<1>1. UNCHANGED iteratorVars /\ (HandOver(i) \/ SendAnswer(i) \/ RangeEnds(i))
  BY DEF Respond
<1>2. CASE HandOver(i)
  BY <1>1, <1>2, HandOverStep
<1>3. CASE SendAnswer(i) /\ Send(i, sending[i], "range")
  BY <1>1, <1>3, SendAnswerStep DEF SendAnswer
<1>4. CASE SendAnswer(i) /\ Finish(i, "error")
  BY <1>1, <1>4, GetFinishStep, IsGetInv DEF SendAnswer
<1>5. CASE RangeEnds(i)
  BY <1>1, <1>5, GetFinishStep, IsGetInv DEF RangeEnds, getStreamVars
<1>. QED
  BY <1>1, <1>2, <1>3, <1>4, <1>5 DEF SendAnswer

-----------------------------------------------------------------------------
(* All steps. *)

LEMMA NextStep ==
  ASSUME Inv, Next
  PROVE  Inv' /\ AbstractStep
<1>1. CASE InitRemote \/ Panic \/ Restart
  BY <1>1, InitRemoteStep, PanicStep, RestartStep, StuttersAre
<1>2. ASSUME NEW c \in Client, IteratorClient(c)
      PROVE  Inv' /\ AbstractStep
  <2>1. UNCHANGED getStreamVars
    BY <1>2 DEF IteratorClient
  <2>2. ASSUME NEW i \in Stream,
               (Valid(i) /\ IteratorNext(c, i)) \/ ReadItem(c, i) \/ IteratorClose(c, i)
        PROVE  Inv' /\ AbstractStep
    <3>1. ReadItem(c, i) => AbstractStep
      BY <2>1, ReadItemStep DEF AbstractStep, KV!DBNext
    <3>. QED
      BY <2>1, <2>2, <3>1, IteratorNextStep, ReadItemStep, IteratorCloseStep, StuttersAre
  <2>3. ASSUME NEW i \in Stream, NEW q \in Query, Iterator(c, i, q)
        PROVE  Inv' /\ AbstractStep
    BY <2>1, <2>3, IteratorStep
  <2>4. ASSUME NEW k \in Key, NEW v \in Value \cup {Absent}, Write(c, k, v)
        PROVE  Inv' /\ AbstractStep
    <3>1. Inv' /\ KV!Put(c, k, v)
      BY <2>1, <2>4, WriteStep
    <3>. QED
      BY <3>1 DEF AbstractStep, KV!DBNext
  <2>. QED
    BY <1>2, <2>2, <2>3, <2>4 DEF IteratorClient
<1>3. ASSUME NEW c \in Client, GetStreamClient(c)
      PROVE  Inv' /\ AbstractStep
  BY <1>3, OpenGetStreamStep, CloseAskingStep, AskStep, StuttersAre DEF GetStreamClient
<1>4. ASSUME NEW i \in Stream, BreakStream(i) \/ Respond(i)
      PROVE  Inv' /\ AbstractStep
  BY <1>4, BreakStep, RespondStep, StuttersAre
<1>5. ASSUME NEW i \in Stream, Serve(i) \/ Deliver(i)
      PROVE  Inv' /\ AbstractStep
  BY <1>5, ServeStep, DeliverStep
<1>6. ASSUME NEW i \in Stream, Receive(i) \/ Collect(i)
      PROVE  Inv' /\ AbstractStep
  BY <1>6, ReceiveFailsStep, ReceiveKeyStep, AnsweredStep, StuttersAre DEF Receive, Collect
<1>. QED
  BY <1>1, <1>2, <1>3, <1>4, <1>5, <1>6 DEF Next

LEMMA StutterStep ==
  ASSUME Inv, UNCHANGED vars
  PROVE  Inv' /\ AbstractStep
<1>1. \A j \in Stream : Same(j) /\ Hidden(j)
  BY DEF vars, streamVars, iteratorVars, getStreamVars, Same, Hidden
<1>2. TypeOK'
  BY DEF Inv, vars, serverVars, streamVars, iteratorVars, getStreamVars, TypeOK, ServerTypes, StreamTypes
<1>. QED
  BY <1>1, <1>2, Frame, StuttersAre DEF Stutters, vars, serverVars, iteratorVars

LEMMA InitImplements == Init => Inv /\ KV!DBInit
<1>. SUFFICES ASSUME Init PROVE Inv /\ KV!DBInit
  OBVIOUS
<1>1. ServerInit /\ StreamsInit /\ IteratorsInit /\ GetStreamInit
  BY DEF Init
<1>2. \A i \in Stream : IsFresh(i)
  BY <1>1 DEF StreamsInit, IteratorsInit, GetStreamInit, For, IsFresh
<1>3. 0 \in 0 .. MaxRestarts /\ 0 \in 0 .. MaxBreaks /\ 0 \in 0 .. MaxWrites /\ 0 \in 0 .. MaxAsks
  <2>1. MaxRestarts \in Nat /\ MaxBreaks \in Nat /\ MaxWrites \in Nat /\ MaxAsks \in Nat
    BY ServerAssumption, StreamAssumption, IteratorAssumption, GetStreamAssumption
  <2>. QED
    BY <2>1, SMT
<1>4. ServerTypes
  BY <1>1, <1>3 DEF ServerInit, ServerTypes
<1>5. StreamTypes
  <2>1. <<>> \in Seq(Messages) /\ Len(<<>>) <= Window
    BY StreamAssumption, SMT
  <2>. QED
    BY <1>1, <1>3, <2>1 DEF StreamsInit, For, StreamTypes, Stages
<1>6. NoQuery \in Queries
  BY DEF NoQuery, Queries, End
<1>7. ret \in [Client -> [status: {"none", "set", "item", "panic", "error"},
                          key: KeyArg, value: Value \cup {nil, Absent}]]
  BY <1>1, Sentinels DEF IteratorsInit, Status, Result
<1>8. /\ query \in [Stream -> Queries] /\ waits \in [Stream -> BOOLEAN]
      /\ cur \in [Stream -> Messages \cup {nil}] /\ err \in [Stream -> {nil, "EOF", "error"}]
      /\ it \in [Stream -> SUBSET Key] /\ itErr \in [Stream -> BOOLEAN]
      /\ view \in [Stream -> Contents \cup {nil}] /\ writes \in 0 .. MaxWrites
  BY <1>1, <1>3, <1>6 DEF IteratorsInit, For
<1>9. /\ asked \in [Stream -> Seq(Asks)] /\ answers \in [Stream -> Seq(Messages)]
      /\ receiver \in [Stream -> {"none", "recv", "offer", "last", "done"}]
      /\ taken \in [Stream -> 0 .. MaxAsks] /\ reads \in [Stream -> Seq(Contents)]
      /\ out \in [Stream -> Messages \cup {nil}] /\ sending \in [Stream -> Messages \cup {nil}]
  <2>1. <<>> \in Seq(Asks) /\ <<>> \in Seq(Messages) /\ <<>> \in Seq(Contents)
    BY SMT
  <2>. QED
    BY <1>1, <1>3, <2>1 DEF GetStreamInit, For
<1>10. Inv
  BY <1>2, <1>4, <1>5, <1>7, <1>8, <1>9 DEF Inv, StreamInv, TypeOK
<1>11. \A i \in Stream : ~Created(i)
  BY <1>2 DEF IsFresh, Created
<1>12. /\ Owners = [i \in Stream |-> NoOne] /\ Asked = [i \in Stream |-> NoQuery]
       /\ Rests = [i \in Stream |-> {}] /\ Failures = [i \in Stream |-> FALSE]
  BY <1>11 DEF Owners, Asked, Rests, Failures
<1>13. Views \in [Stream -> [Key \cup {EmptyKey} -> Value \cup {Absent}]]
  <2>1. [k \in KeyArg |-> Absent] \in [Key \cup {EmptyKey} -> Value \cup {Absent}]
    BY DEF KeyArg
  <2>. QED
    BY <1>11, <2>1 DEF Views
<1>14. files \in [Key \cup {EmptyKey} -> Value \cup {Absent}] /\ files[EmptyKey] = Absent
  BY <1>1 DEF ServerInit, Contents, KeyArg
<1>15. ret = [c \in Client |-> KV!Status("none")]
  BY <1>1 DEF IteratorsInit, Status, Result, KV!Status, KV!Result
<1>16. KV!DBInit
  BY <1>12, <1>13, <1>14, <1>15 DEF KV!DBInit, For
<1>. QED
  BY <1>10, <1>16

-----------------------------------------------------------------------------
(* The inductive invariant: each stream is unused, an iterator whose pipe    *)
(* holds the next items in order, or a GetStream whose answers are those of  *)
(* the keys asked.                                                           *)
THEOREM Invariant == Spec => []Inv
<1>1. Init => Inv
  BY InitImplements
<1>2. Inv /\ [Next]_vars => Inv'
  BY NextStep, StutterStep
<1>. QED
  BY <1>1, <1>2, PTL DEF Spec

(* RemoteStreams.TypeOK for every value of the constants. *)
THEOREM TypeCorrect == Spec => []TypeOK
<1>1. Inv => TypeOK
  BY DEF Inv
<1>. QED
  BY <1>1, Invariant, PTL

(* GetStream of grpcdb/server.go: answers come in the order of the keys,     *)
(* each is what the database held for its key, and an error comes last,      *)
(* however its two goroutines and the connection interleave.                 *)
THEOREM AnswersAreMatched == Spec => []AnswersMatch
<1>1. Inv => AnswersMatch
  <2>. SUFFICES ASSUME Inv, NEW i \in Stream, NEW n \in DOMAIN answers[i]
                PROVE  IF answers[i][n].failed THEN n = Len(answers[i])
                       ELSE /\ n <= Len(asked[i]) /\ n <= Len(reads[i])
                            /\ answers[i][n].value =
                                 LET v == reads[i][n][asked[i][n]] IN IF v = Absent THEN nil ELSE v
    BY DEF AnswersMatch
  <2>1. DOMAIN <<>> = {}
    BY SMT
  <2>2. GetInv(i)
    BY <2>1 DEF Inv, StreamInv, IsFresh, IterInv
  <2>3. 0 + n = n
    <3>1. answers[i] \in Seq(Messages)
      BY DEF Inv, TypeOK
    <3>. QED
      BY <3>1, SMT
  <2>4. IsAnswer(asked[i], reads[i], n, answers[i][n])
    BY <2>2, <2>3 DEF GetInv, AreAnswers
  <2>5. answers[i][n].failed => n = Len(answers[i])
    BY <2>2 DEF GetInv, FailsLast
  <2>. QED
    BY <2>4, <2>5 DEF IsAnswer
<1>. QED
  BY <1>1, Invariant, PTL

(* Only Next of an iterator sets its error. *)
LEMMA ErrIsSetByNext ==
  ASSUME Inv, [Next]_vars, NEW i \in Stream, err[i] = nil, err'[i] # nil
  PROVE  NextReturns(i) /\ UNCHANGED getStreamVars /\ pipe[i] = <<>>
<1>1. err' # err
  OBVIOUS
<1>2. Next
  BY <1>1 DEF vars, iteratorVars
<1>3. ~InitRemote /\ ~Panic /\ ~Restart
  BY <1>1 DEF InitRemote, Panic, Restart, iteratorVars
<1>4. ASSUME NEW c \in Client
      PROVE  ~IteratorClient(c) /\ ~GetStreamClient(c)
  BY <1>1 DEF IteratorClient, GetStreamClient, IteratorNext, ReadItem, IteratorClose, Iterator,
    Write, iteratorVars
<1>5. ASSUME NEW j \in Stream
      PROVE  ~BreakStream(j) /\ ~Serve(j) /\ ~Receive(j) /\ ~Respond(j) /\ ~Collect(j)
  BY <1>1 DEF BreakStream, Serve, Receive, Respond, Collect, serverIterator, handleIterator, iteratorVars
<1>6. PICK j \in Stream : NextReturns(j) /\ UNCHANGED getStreamVars
  BY <1>2, <1>3, <1>4, <1>5 DEF Next, Deliver
<1>7. pipe[j] = <<>> /\ err' = [err EXCEPT ![j] = end[j]]
  BY <1>1, <1>6 DEF NextReturns
<1>8. j = i
  BY <1>7 DEF Inv, TypeOK
<1>. QED
  BY <1>6, <1>7, <1>8

(* Next of remotedb/iterator.go says EOF only when no key of the domain is   *)
(* behind the last one shown, unless the server's iterator failed.           *)
THEOREM EOFIsTheEnd == Spec => EOFMeansEnd
<1>. DEFINE Step == \A i \in Stream :
       err[i] = nil /\ err'[i] = "EOF" /\ ~itErr[i]
         => \A k \in ToShow(i, view'[i]) : cur[i] # nil /\ k = cur[i].key
<1>1. Inv /\ [Next]_vars => Step
  <2>. SUFFICES ASSUME Inv, [Next]_vars, NEW i \in Stream, err[i] = nil, err'[i] = "EOF", ~itErr[i]
                PROVE  \A k \in ToShow(i, view'[i]) : cur[i] # nil /\ k = cur[i].key
    OBVIOUS
  <2>1. NextReturns(i) /\ UNCHANGED getStreamVars /\ pipe[i] = <<>>
    BY ErrIsSetByNext, Sentinels
  <2>2. end[i] = "EOF" /\ view'[i] = IF view[i] = nil THEN files ELSE view[i]
    BY <2>1, NextEndsInv
  <2>3. IterInv(i)
    BY <2>1, WaitsIsIter DEF NextReturns
  <2>4. view'[i] = view[i]
    BY <2>2, <2>3 DEF IterInv
  <2>5. Ahead(query[i], view[i], cur[i]) = {}
    <3>1. Len(<<>>) = 0
      BY SMT
    <3>2. Behind(query[i], view[i], cur[i], pipe[i], Len(pipe[i])) = {}
      BY <2>2, <2>3 DEF IterInv
    <3>. QED
      BY <2>1, <3>1, <3>2, BehindNone
  <2>6. CASE cur[i] = nil
    BY <2>4, <2>5, <2>6 DEF ToShow, Ahead
  <2>7. CASE cur[i] # nil
    <3>1. ToShow(i, view'[i]) = Showable(query[i], view[i], cur[i])
      BY <2>4, ToShowIs
    <3>2. IsItem(query[i], view[i], cur[i])
      BY <2>3 DEF IterInv
    <3>3. Showable(query[i], view[i], cur[i]) = {cur[i].key} \cup Ahead(query[i], view[i], cur[i])
      BY <2>7, <3>2, ShowableIs
    <3>. QED
      BY <2>5, <2>7, <3>1, <3>3
  <2>. QED
    BY <2>6, <2>7
<1>2. EOFMeansEnd <=> [][Step]_vars
  BY DEF EOFMeansEnd
<1>. QED
  BY <1>1, <1>2, Invariant, PTL DEF Spec

(* With end points that are not empty, the iterators of remotedb/iterator.go *)
(* and grpcdb/server.go implement those of KVStore: a snapshot, in order and *)
(* without gaps, to the end of the domain or to where the stream or the      *)
(* server's iterator fails, whatever is written, lost or initialized         *)
(* meanwhile.                                                                *)
THEOREM Implements ==
  ASSUME NoEmptyEnds
  PROVE  Spec => ImplementsKVStore
<1>1. Init => KV!DBInit
  BY InitImplements
<1>2. Inv /\ [Next]_vars => [KV!DBNext]_(KV!dbVars)
  BY NextStep, StutterStep DEF AbstractStep
<1>. QED
  BY <1>1, <1>2, Invariant, PTL DEF Spec, ImplementsKVStore, KV!DBSpec
=============================================================================
