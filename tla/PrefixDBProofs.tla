--------------------------- MODULE PrefixDBProofs ---------------------------
(***************************************************************************)
(* Proofs about PrefixDB for any number of clients, iterators, prefixes    *)
(* and keys of any length, and any number of byte values.                  *)
(***************************************************************************)
EXTENDS PrefixDB, OpsProofs

LEMMA BytesFacts ==
  ASSUME NEW b \in Bytes
  PROVE  /\ Len(b) \in Nat /\ DOMAIN b = 1 .. Len(b)
         /\ \A j \in 1 .. Len(b) : b[j] \in Nat /\ b[j] <= MaxByte
<1>1. MaxByte \in Nat
  BY ByteAssumption
<1>. QED
  BY <1>1 DEF Bytes, Byte

(* The byte that cpIncr increments. *)
LEMMA LastNoCarry ==
  ASSUME NEW p \in Bytes, NoCarry(p) # {}
  PROVE  \E n \in 1 .. Len(p) : IsLast(n, NoCarry(p))
<1>1. NoCarry(p) \subseteq 1 .. Len(p) /\ Len(p) \in Nat
  BY BytesFacts DEF NoCarry
<1>2. IsFiniteSet(NoCarry(p))
  <2>1. 1 \in Int /\ Len(p) \in Int
    BY <1>1
  <2>2. IsFiniteSet(1 .. Len(p))
    BY <2>1, FS_Interval, Zenon
  <2>. QED
    BY <1>1, <2>2, FS_Subset, Zenon
<1>3. NoCarry(p) \subseteq Nat
  BY <1>1
<1>. QED
  BY <1>1, <1>2, <1>3, GreatestNat DEF IsLast

LEMMA IncrementFacts ==
  ASSUME NEW p \in Bytes, NoCarry(p) # {}
  PROVE  \E n \in 1 .. Len(p) :
           /\ IsLast(n, NoCarry(p))
           /\ Len(cpIncr(p)) = Len(p)
           /\ \A j \in 1 .. Len(p) : j < n => cpIncr(p)[j] = p[j]
           /\ cpIncr(p)[n] = p[n] + 1
<1>. DEFINE n == CHOOSE m \in 1 .. Len(p) : IsLast(m, NoCarry(p))
<1>1. n \in 1 .. Len(p) /\ IsLast(n, NoCarry(p))
  BY LastNoCarry
<1>2. cpIncr(p) = [j \in 1 .. Len(p) |-> IF j < n THEN p[j] ELSE IF j = n THEN p[j] + 1 ELSE 0]
  BY DEF cpIncr
<1>. HIDE DEF n
<1>3. \A j \in 1 .. Len(p) : j < n => cpIncr(p)[j] = p[j]
  BY <1>2
<1>4. cpIncr(p)[n] = p[n] + 1
  BY <1>1, <1>2
<1>5. Len(cpIncr(p)) = Len(p)
  BY <1>2, BytesFacts
<1>. QED
  BY <1>1, <1>3, <1>4, <1>5

-----------------------------------------------------------------------------
(* A key that has the prefix is in the domain from prefix to cpIncr(prefix). *)
LEMMA PrefixedIsInDomain ==
  ASSUME NEW p \in Bytes, NEW k \in Bytes, HasPrefix(k, p)
  PROVE  ~BytesLess(k, p) /\ (NoCarry(p) # {} => BytesLess(k, cpIncr(p)))
<1>1. ~BytesLess(k, p)
  BY BytesFacts DEF BytesLess, HasPrefix
<1>2. ASSUME NoCarry(p) # {}
      PROVE  BytesLess(k, cpIncr(p))
  <2>1. PICK e : e = cpIncr(p)
    OBVIOUS
  <2>2. PICK n \in 1 .. Len(p) : /\ Len(e) = Len(p) /\ e[n] = p[n] + 1
                                 /\ \A j \in 1 .. Len(p) : j < n => e[j] = p[j]
    BY <1>2, <2>1, IncrementFacts
  <2>3. /\ n - 1 \in 0 .. Len(k) /\ n - 1 < Len(e)
        /\ \A j \in 1 .. (n - 1) : k[j] = e[j]
        /\ k[(n - 1) + 1] < e[(n - 1) + 1]
    BY <2>2, BytesFacts DEF HasPrefix
  <2>. QED
    BY <2>1, <2>3 DEF BytesLess
<1>. QED
  BY <1>1, <1>2

(* A key from the prefix on that does not have it is larger at some byte. *)
LEMMA BeyondPrefix ==
  ASSUME NEW p \in Bytes, NEW k \in Bytes, ~BytesLess(k, p), ~HasPrefix(k, p)
  PROVE  \E d \in 1 .. Len(p) : /\ d <= Len(k) /\ p[d] < k[d]
                                /\ \A j \in 1 .. (d - 1) : k[j] = p[j]
<1>. DEFINE differ == {j \in 1 .. Len(p) : j > Len(k) \/ k[j] # p[j]}
<1>0. Len(p) \in Nat /\ Len(k) \in Nat
  BY BytesFacts
<1>1. differ # {} /\ differ \subseteq Nat
  <2>1. CASE Len(k) < Len(p)
    <3>1. Len(p) \in differ
      BY <1>0, <2>1
    <3>. QED
      BY <1>0, <3>1
  <2>2. CASE ~(Len(k) < Len(p))
    BY <1>0, <2>2 DEF HasPrefix
  <2>. QED
    BY <2>1, <2>2
<1>2. PICK d \in differ : \A j \in differ : d <= j
  BY <1>1, LeastNat
<1>3. /\ d \in 1 .. Len(p) /\ (d > Len(k) \/ k[d] # p[d])
      /\ \A j \in 1 .. (d - 1) : j <= Len(k) /\ k[j] = p[j]
  BY <1>0, <1>2
<1>4. d <= Len(k)
  <2>. SUFFICES ASSUME d > Len(k) PROVE FALSE
    BY <1>0, <1>3
  <2>1. d = Len(k) + 1
    <3>1. d - 1 <= Len(k)
      BY <1>0, <1>3
    <3>. QED
      BY <1>0, <1>3, <3>1
  <2>. QED
    BY <1>0, <1>3, <2>1 DEF BytesLess
<1>5. ~(k[d] < p[d])
  <2>. SUFFICES ASSUME k[d] < p[d] PROVE BytesLess(k, p)
    OBVIOUS
  <2>1. /\ d - 1 \in 0 .. Len(k) /\ d - 1 < Len(p)
        /\ k[(d - 1) + 1] < p[(d - 1) + 1]
    BY <1>0, <1>3, <1>4
  <2>. QED
    BY <1>3, <2>1 DEF BytesLess
<1>6. k[d] \in Nat /\ p[d] \in Nat
  BY <1>0, <1>3, <1>4, BytesFacts
<1>. QED
  BY <1>3, <1>4, <1>5, <1>6

(* Such a key comes after all that have the prefix. *)
LEMMA PrefixedComesFirst ==
  ASSUME NEW p \in Bytes, NEW k \in Bytes, ~BytesLess(k, p), ~HasPrefix(k, p),
         NEW j \in Bytes, HasPrefix(j, p)
  PROVE  BytesLess(j, k)
<1>1. PICK d \in 1 .. Len(p) : /\ d <= Len(k) /\ p[d] < k[d]
                               /\ \A l \in 1 .. (d - 1) : k[l] = p[l]
  BY BeyondPrefix
<1>2. Len(p) \in Nat /\ Len(k) \in Nat /\ p[d] \in Nat /\ k[d] \in Nat
  BY <1>1, BytesFacts
<1>3. /\ Len(j) \in Nat /\ d - 1 \in 0 .. Len(j) /\ d - 1 < Len(k)
      /\ \A l \in 1 .. (d - 1) : j[l] = k[l]
      /\ j[(d - 1) + 1] < k[(d - 1) + 1]
  BY <1>1, <1>2, BytesFacts DEF HasPrefix
<1>. QED
  BY <1>3 DEF BytesLess

(* It is below cpIncr of the prefix only if that carries. *)
LEMMA NotPrefixedInDomain ==
  ASSUME NEW p \in Bytes, p # EmptyKey, NEW k \in Bytes, ~BytesLess(k, p), ~HasPrefix(k, p),
         NoCarry(p) # {} => BytesLess(k, cpIncr(p))
  PROVE  Carries(p) /\ \A j \in Bytes : HasPrefix(j, p) => BytesLess(j, k)
<1>1. PICK d \in 1 .. Len(p) : /\ d <= Len(k) /\ p[d] < k[d]
                               /\ \A j \in 1 .. (d - 1) : k[j] = p[j]
  BY BeyondPrefix
<1>2. /\ Len(p) \in Nat /\ Len(k) \in Nat /\ MaxByte \in Nat
      /\ p[d] \in Nat /\ k[d] \in Nat /\ k[d] <= MaxByte
  BY <1>1, BytesFacts, ByteAssumption
<1>3. \A j \in Bytes : HasPrefix(j, p) => BytesLess(j, k)
  BY PrefixedComesFirst, Zenon
<1>4. d \in NoCarry(p)
  BY <1>1, <1>2 DEF NoCarry
<1>5. PICK e : e = cpIncr(p)
  OBVIOUS
<1>6. PICK n \in 1 .. Len(p) : /\ IsLast(n, NoCarry(p)) /\ Len(e) = Len(p) /\ e[n] = p[n] + 1
                               /\ \A j \in 1 .. Len(p) : j < n => e[j] = p[j]
  BY <1>4, <1>5, IncrementFacts
<1>7. d <= n
  BY <1>4, <1>6 DEF IsLast
<1>8. n # Len(p)
  <2>. SUFFICES ASSUME n = Len(p) PROVE FALSE
    OBVIOUS
  <2>1. PICK m \in 0 .. Len(k) : /\ m < Len(e) /\ \A j \in 1 .. m : k[j] = e[j]
                                 /\ m = Len(k) \/ k[m + 1] < e[m + 1]
    BY <1>4, <1>5 DEF BytesLess
  <2>2. e[d] <= k[d] /\ e[d] \in Nat /\ (d < n => e[d] < k[d])
    BY <1>1, <1>2, <1>6, <1>7
  <2>3. m < d
    <3>1. CASE d < n
      BY <1>1, <1>2, <2>1, <2>2, <3>1
    <3>2. CASE d = n
      BY <1>2, <1>6, <2>1, <3>2
    <3>. QED
      BY <1>1, <1>2, <1>7, <3>1, <3>2
  <2>4. k[m + 1] < e[m + 1]
    BY <1>1, <1>2, <2>1, <2>3
  <2>5. CASE m + 1 = d
    BY <1>2, <2>2, <2>4, <2>5
  <2>6. CASE m + 1 < d
    <3>1. m + 1 \in 1 .. (d - 1) /\ m + 1 \in 1 .. Len(p) /\ m + 1 < n /\ m + 1 \in 1 .. Len(k)
      BY <1>1, <1>2, <1>7, <2>1, <2>6
    <3>2. k[m + 1] = e[m + 1] /\ k[m + 1] \in Nat
      BY <1>1, <1>6, <3>1, BytesFacts
    <3>. QED
      BY <2>4, <3>2
  <2>. QED
    BY <1>1, <1>2, <2>1, <2>3, <2>5, <2>6
<1>9. p[Len(p)] = MaxByte
  <2>1. Len(p) \in 1 .. Len(p) /\ n < Len(p)
    BY <1>2, <1>6, <1>8
  <2>2. Len(p) \notin NoCarry(p)
    BY <1>2, <1>6, <2>1 DEF IsLast
  <2>. QED
    BY <1>2, <2>1, <2>2, BytesFacts DEF NoCarry
<1>. QED
  BY <1>3, <1>4, <1>9 DEF Carries

-----------------------------------------------------------------------------
LEMMA StoredAreBytes == Stored \subseteq Bytes /\ Prefixes \subseteq Bytes
<1>1. Prefixes \subseteq Bytes
  BY PrefixAssumption, Zenon DEF Prefixes
<1>2. Key \subseteq Bytes /\ ParentKey \subseteq Bytes
  BY PrefixAssumption
<1>3. \A p \in Bytes, k \in Bytes : p \o k \in Bytes
  BY DEF Bytes
<1>4. ASSUME NEW s \in Stored
      PROVE  s \in Bytes
  <2>1. CASE s \in ParentKey
    BY <1>2, <2>1
  <2>2. ASSUME NEW p \in Prefixes, NEW k \in Key, s = p \o k
        PROVE  s \in Bytes
    BY <1>1, <1>2, <1>3, <2>2
  <2>3. s \in ParentKey \/ \E p \in Prefixes, k \in Key : s = p \o k
    BY DEF Stored
  <2>. QED
    BY <2>1, <2>2, <2>3, Zenon
<1>. QED
  BY <1>1, <1>4

LEMMA CarryOrNil ==
  ASSUME NEW p \in Bytes
  PROVE  cpIncr(p) = nil <=> NoCarry(p) = {}
<1>1. ASSUME NoCarry(p) # {}
      PROVE  cpIncr(p) # nil
  <2>1. PICK n \in 1 .. Len(p) : IsLast(n, NoCarry(p))
    BY <1>1, LastNoCarry
  <2>. DEFINE m == CHOOSE m \in 1 .. Len(p) : IsLast(m, NoCarry(p))
  <2>2. m \in 1 .. Len(p) /\ IsLast(m, NoCarry(p))
    BY <2>1
  <2>3. cpIncr(p) = [j \in 1 .. Len(p) |-> IF j < m THEN p[j] ELSE IF j = m THEN p[j] + 1 ELSE 0]
    BY <1>1 DEF cpIncr
  <2>. HIDE DEF m
  <2>4. \A j \in 1 .. Len(p) :
          (IF j < m THEN p[j] ELSE IF j = m THEN p[j] + 1 ELSE 0) \in 0 .. MaxByte
    <3>1. m \in NoCarry(p)
      BY <2>2 DEF IsLast
    <3>. QED
      BY <3>1, BytesFacts, ByteAssumption DEF NoCarry
  <2>5. cpIncr(p) \in Seq(0 .. MaxByte)
    BY <2>3, <2>4, BytesFacts
  <2>. QED
    BY <2>5, ByteAssumption
<1>. QED
  BY <1>1 DEF cpIncr

(* IteratePrefix shows exactly the keys that have the prefix wherever cpIncr *)
(* does not carry: for every store, and every prefix.                        *)
THEOREM PrefixIteration == Spec => []IteratePrefixIsExact
<1>1. IteratePrefixIsExact
  <2>. SUFFICES ASSUME NEW p \in Stored \cup Prefixes \cup {EmptyKey}, ~Carries(p)
                PROVE  IteratePrefix(p) = {k \in Stored : store[k] # Absent /\ HasPrefix(k, p)}
    BY DEF IteratePrefixIsExact
  <2>1. CASE p = EmptyKey
    <3>1. IteratePrefix(p) = {k \in Stored : store[k] # Absent}
      BY <2>1 DEF IteratePrefix, Domain, IsKeyInDomain
    <3>2. \A k \in Stored : HasPrefix(k, p)
      BY <2>1, StoredAreBytes, BytesFacts DEF HasPrefix, EmptyKey
    <3>. QED
      BY <3>1, <3>2
  <2>2. CASE p # EmptyKey
    <3>1. p \in Bytes /\ p # nil
      BY <2>2, StoredAreBytes, ByteAssumption DEF Bytes, Byte
    <3>2. \A k \in Stored : k \in IteratePrefix(p) <=>
            store[k] # Absent /\ ~BytesLess(k, p) /\ (NoCarry(p) # {} => BytesLess(k, cpIncr(p)))
      BY <2>2, <3>1, CarryOrNil DEF IteratePrefix, Domain, IsKeyInDomain
    <3>3. IteratePrefix(p) \subseteq Stored
      BY DEF IteratePrefix, Domain
    <3>4. ASSUME NEW k \in Stored
          PROVE  HasPrefix(k, p) <=>
                   ~BytesLess(k, p) /\ (NoCarry(p) # {} => BytesLess(k, cpIncr(p)))
      BY <2>2, <3>1, StoredAreBytes, PrefixedIsInDomain, NotPrefixedInDomain
    <3>. QED
      BY <3>2, <3>3, <3>4
  <2>. QED
    BY <2>1, <2>2
<1>. QED
  BY <1>1, PTL

-----------------------------------------------------------------------------
(* A valid iterator whose source is open stands on a key with its prefix. *)
StandsInv ==
  /\ owner \in [Iter -> Client \cup {NoOne}]
  /\ query \in [Iter -> Queries]
  /\ source \in [Iter -> SUBSET Stored]
  /\ valid \in [Iter -> BOOLEAN]
  /\ err = [i \in Iter |-> FALSE]
  /\ \A i \in Iter : valid[i] /\ source[i] # {} =>
       StandsOnPrefixed(query[i], source[i], Prefix(i))

LEMMA StandsFrame ==
  ASSUME StandsInv, UNCHANGED <<owner, query, source, valid, err>>
  PROVE  StandsInv'
BY Zenon DEF StandsInv, Prefix

LEMMA NoError ==
  ASSUME StandsInv, NEW i \in Iter, NoteError(i)
  PROVE  err' = err
<1>1. HasBadKey(i) = FALSE /\ err[i] = FALSE /\ err = [j \in Iter |-> FALSE]
  BY Zenon DEF StandsInv, HasBadKey
<1>2. err' = [err EXCEPT ![i] = FALSE]
  <2>1. (err[i] \/ HasBadKey(i)) = FALSE
    BY <1>1, Zenon
  <2>. QED
    BY <2>1, Zenon DEF NoteError
<1>. QED
  BY <1>1, <1>2, Zenon

LEMMA SettleStands ==
  ASSUME StandsInv, NEW i \in Iter, NEW c \in Client, NEW q \in Queries, NEW src \in SUBSET Stored,
         owner'[i] = c, query'[i] = q, Settle(i, q, src, PrefixOf[c]), err' = err,
         owner' \in [Iter -> Client \cup {NoOne}], query' \in [Iter -> Queries],
         \A j \in Iter : j # i => owner'[j] = owner[j] /\ query'[j] = query[j]
  PROVE  StandsInv'
<1>1. PICK s : s = SkipPrefix(q, src, PrefixOf[c])
  OBVIOUS
<1>2. PICK b \in BOOLEAN : b = StandsOnPrefixed(q, s, PrefixOf[c])
  BY Zenon DEF StandsOnPrefixed
<1>3. s \in SUBSET Stored
  BY <1>1, Zenon DEF SkipPrefix
<1>4. source' = [source EXCEPT ![i] = s] /\ valid' = [valid EXCEPT ![i] = b]
  BY <1>1, <1>2, Zenon DEF Settle
<1>5. /\ source' \in [Iter -> SUBSET Stored] /\ valid' \in [Iter -> BOOLEAN]
      /\ source'[i] = s /\ valid'[i] = b
      /\ \A j \in Iter : j # i => source'[j] = source[j] /\ valid'[j] = valid[j]
  BY <1>3, <1>4, Zenon DEF StandsInv
<1>6. ASSUME NEW j \in Iter, valid'[j], source'[j] # {}
      PROVE  StandsOnPrefixed(query'[j], source'[j], Prefix(j)')
  <2>1. CASE j = i
    BY <1>2, <1>5, <1>6, <2>1, Zenon DEF Prefix
  <2>2. CASE j # i
    BY <1>5, <1>6, <2>2, Zenon DEF StandsInv, Prefix
  <2>. QED
    BY <2>1, <2>2
<1>7. err' = [j \in Iter |-> FALSE]
  BY Zenon DEF StandsInv
<1>. QED
  BY <1>5, <1>6, <1>7, Zenon DEF StandsInv

LEMMA StandsStep ==
  ASSUME StandsInv, [Next]_vars
  PROVE  StandsInv'
<1>1. CASE UNCHANGED iterVars
  BY <1>1, StandsFrame, Zenon DEF iterVars
<1>2. ASSUME NEW c \in Client, NEW r, Answer(c, r)
      PROVE  StandsInv'
  BY <1>1, <1>2, Zenon DEF Answer
<1>3. ASSUME NEW c \in Client, NEW k, NEW v,
             Get(c, k) \/ Has(c, k) \/ Set(c, k, v) \/ Delete(c, k) \/ Inspect(c)
      PROVE  StandsInv'
  BY <1>1, <1>2, <1>3, Zenon DEF Get, Has, Set, Delete, Put, Inspect
<1>4. ASSUME NEW c \in Client, NEW k, NEW v,
             \/ BatchSet(c, k, v) \/ BatchDelete(c, k)
             \/ NewBatch(c) \/ BatchWrite(c) \/ BatchClose(c)
      PROVE  StandsInv'
  BY <1>1, <1>2, <1>4, Zenon
     DEF BatchSet, BatchDelete, NewBatch, BatchWrite, BatchClose, AppendOp, ChangeBatch
<1>5. ASSUME NEW c \in Client, NEW i \in Iter, NEW q \in Query[c], NewIterator(c, i, q)
      PROVE  StandsInv'
  <2>1. CASE Open(c, i, q)
    <3>1. PICK src : src \in SUBSET Stored /\ Settle(i, q, src, PrefixOf[c])
      BY <2>1, Zenon DEF Open, Domain
    <3>2. /\ owner' = [owner EXCEPT ![i] = c] /\ query' = [query EXCEPT ![i] = q] /\ err' = err
      BY <2>1, Zenon DEF Open
    <3>3. q \in Queries
      BY PrefixAssumption, Zenon
    <3>4. /\ owner'[i] = c /\ query'[i] = q
          /\ owner' \in [Iter -> Client \cup {NoOne}] /\ query' \in [Iter -> Queries]
          /\ \A j \in Iter : j # i => owner'[j] = owner[j] /\ query'[j] = query[j]
      BY <3>2, <3>3, Zenon DEF StandsInv
    <3>. QED
      BY <3>1, <3>2, <3>3, <3>4, SettleStands, Zenon
  <2>. QED
    BY <1>2, <1>5, <2>1, Zenon DEF NewIterator
<1>6. ASSUME NEW c \in Client, NEW i \in Iter,
             NoteError(i), UNCHANGED <<owner, query, source, valid>>
      PROVE  StandsInv'
  BY <1>6, NoError, StandsFrame, Zenon
<1>7. ASSUME NEW c \in Client, NEW i \in Iter, IteratorNext(c, i)
      PROVE  StandsInv'
  <2>1. CASE Panic(c, i)
    BY <1>6, <2>1, Zenon DEF Panic
  <2>2. CASE ~Panic(c, i)
    <3>1. PICK src : /\ src = source[i] \ {SourceKey(query[i], source[i])}
                     /\ Settle(i, query[i], src, PrefixOf[c])
      BY <1>7, <2>2, Zenon DEF IteratorNext, Prefix
    <3>2. owner[i] = c /\ UNCHANGED <<owner, query, err>>
      BY <1>7, <2>2, Zenon DEF IteratorNext
    <3>3. src \in SUBSET Stored /\ query[i] \in Queries
      BY <3>1, Zenon DEF StandsInv
    <3>4. owner' \in [Iter -> Client \cup {NoOne}] /\ query' \in [Iter -> Queries]
      BY <3>2, Zenon DEF StandsInv
    <3>. QED
      BY <3>1, <3>2, <3>3, <3>4, SettleStands, Zenon
  <2>. QED
    BY <2>1, <2>2
<1>8. ASSUME NEW c \in Client, NEW i \in Iter, CallValid(c, i) \/ ReadItem(c, i)
      PROVE  StandsInv'
  BY <1>2, <1>6, <1>8, Zenon DEF CallValid, ReadItem, Panic
<1>9. ASSUME NEW c \in Client, NEW i \in Iter, Close(c, i)
      PROVE  StandsInv'
  <2>1. source' = [source EXCEPT ![i] = {}] /\ UNCHANGED <<owner, query, valid, err>>
    BY <1>9, Zenon DEF Close
  <2>2. /\ source' \in [Iter -> SUBSET Stored] /\ source'[i] = {}
        /\ \A j \in Iter : j # i => source'[j] = source[j]
    BY <2>1, Zenon DEF StandsInv
  <2>. QED
    BY <2>1, <2>2, Zenon DEF StandsInv, Prefix
<1>10. ASSUME NEW c \in Client, Call(c)
       PROVE  StandsInv'
  <2>1. CASE \E k : Get(c, k) \/ Has(c, k) \/ Inspect(c) \/ Delete(c, k) \/ \E v : Set(c, k, v)
    BY <1>3, <2>1, Zenon
  <2>2. CASE \E k : \/ NewBatch(c) \/ BatchWrite(c) \/ BatchClose(c)
                   \/ BatchDelete(c, k) \/ \E v : BatchSet(c, k, v)
    BY <1>4, <2>2, Zenon
  <2>3. CASE \E i \in Iter : \/ \E q \in Query[c] : NewIterator(c, i, q)
                            \/ CallValid(c, i) \/ IteratorNext(c, i)
                            \/ ReadItem(c, i) \/ Close(c, i)
    BY <1>5, <1>7, <1>8, <1>9, <2>3, Zenon
  <2>. QED
    BY <1>10, <2>1, <2>2, <2>3, Zenon DEF Call
<1>11. CASE UNCHANGED vars
  BY <1>1, <1>11, Zenon DEF vars
<1>. QED
  BY <1>1, <1>10, <1>11, Zenon DEF Next, ParentSet

(* Valid of a prefixDBIterator never meets a key without the prefix, however *)
(* Next, Close and writes to the parent follow each other: its branch for a  *)
(* bad key from the backend is dead code over a parent that keeps the        *)
(* promise of KVStore.                                                       *)
THEOREM NoBadKeys == Spec => []BackendKeysHavePrefix
<1>1. ASSUME Init
      PROVE  StandsInv
  <2>1. NoQuery \in Queries
    BY DEF NoQuery, Queries
  <2>2. /\ owner \in [Iter -> Client \cup {NoOne}] /\ query \in [Iter -> Queries]
        /\ source \in [Iter -> SUBSET Stored] /\ valid \in [Iter -> BOOLEAN]
        /\ err = [i \in Iter |-> FALSE] /\ \A i \in Iter : source[i] = {}
    BY <1>1, <2>1, Zenon DEF Init
  <2>. QED
    BY <2>2, Zenon DEF StandsInv
<1>2. StandsInv /\ [Next]_vars => StandsInv'
  BY StandsStep
<1>3. StandsInv => BackendKeysHavePrefix
  BY Zenon DEF StandsInv, BackendKeysHavePrefix, HasBadKey
<1>. QED
  BY <1>1, <1>2, <1>3, PTL DEF Spec

-----------------------------------------------------------------------------
(* From here on leaves are tried with Zenon, and with SMT where they say so. *)
USE Zenon

(* bytes.Compare orders the byte strings totally. *)
LEMMA LessIrreflexive ==
  ASSUME NEW a \in Bytes
  PROVE  ~BytesLess(a, a)
BY BytesFacts, SMT DEF BytesLess

LEMMA LessTransitive ==
  ASSUME NEW a \in Bytes, NEW b \in Bytes, NEW c \in Bytes, BytesLess(a, b), BytesLess(b, c)
  PROVE  BytesLess(a, c)
<1>0. /\ Len(a) \in Nat /\ Len(b) \in Nat /\ Len(c) \in Nat
      /\ \A j \in 1 .. Len(a) : a[j] \in Nat
      /\ \A j \in 1 .. Len(b) : b[j] \in Nat
      /\ \A j \in 1 .. Len(c) : c[j] \in Nat
  BY BytesFacts
<1>1. PICK n \in 0 .. Len(a) : /\ n < Len(b) /\ \A j \in 1 .. n : a[j] = b[j]
                               /\ n = Len(a) \/ a[n + 1] < b[n + 1]
  BY DEF BytesLess
<1>2. PICK m \in 0 .. Len(b) : /\ m < Len(c) /\ \A j \in 1 .. m : b[j] = c[j]
                               /\ m = Len(b) \/ b[m + 1] < c[m + 1]
  BY DEF BytesLess
<1>3. PICK l : l = IF n <= m THEN n ELSE m
  OBVIOUS
<1>4. l \in 0 .. Len(a) /\ l < Len(c) /\ \A j \in 1 .. l : a[j] = c[j]
  BY <1>0, <1>1, <1>2, <1>3, SMT
<1>5. l = Len(a) \/ a[l + 1] < c[l + 1]
  <2>1. CASE n < m
    <3>1. n + 1 \in 1 .. m /\ l = n
      BY <1>0, <1>1, <1>2, <1>3, <2>1, SMT
    <3>. QED
      BY <1>1, <1>2, <3>1
  <2>2. CASE n = m
    <3>1. l = n /\ l = m /\ m # Len(b)
      BY <1>0, <1>1, <1>2, <1>3, <2>2, SMT
    <3>2. b[l + 1] < c[l + 1] /\ l + 1 \in 1 .. Len(b) /\ l + 1 \in 1 .. Len(c)
      BY <1>0, <1>1, <1>2, <3>1, SMT
    <3>. QED
      BY <1>0, <1>1, <3>1, <3>2, SMT
  <2>3. CASE m < n
    <3>1. l = m /\ m + 1 \in 1 .. n /\ m # Len(b)
      BY <1>0, <1>1, <1>2, <1>3, <2>3, SMT
    <3>. QED
      BY <1>1, <1>2, <3>1
  <2>. QED
    BY <1>0, <1>1, <1>2, <2>1, <2>2, <2>3, SMT
<1>. QED
  BY <1>4, <1>5 DEF BytesLess

LEMMA LessTotal ==
  ASSUME NEW a \in Bytes, NEW b \in Bytes, a # b, ~BytesLess(a, b)
  PROVE  BytesLess(b, a)
<1>0. Len(a) \in Nat /\ Len(b) \in Nat
  BY BytesFacts
<1>1. CASE HasPrefix(a, b)
  <2>1. Len(b) # Len(a)
    <3>. SUFFICES ASSUME Len(b) = Len(a) PROVE FALSE
      OBVIOUS
    <3>1. \A j \in 1 .. Len(a) : a[j] = b[j]
      BY <1>1 DEF HasPrefix
    <3>. QED
      BY <3>1, SMT DEF Bytes
  <2>2. /\ Len(b) \in 0 .. Len(b) /\ Len(b) < Len(a)
        /\ \A j \in 1 .. Len(b) : b[j] = a[j]
    BY <1>0, <1>1, <2>1, SMT DEF HasPrefix
  <2>. QED
    BY <2>2 DEF BytesLess
<1>2. CASE ~HasPrefix(a, b)
  <2>1. PICK d \in 1 .. Len(b) : /\ d <= Len(a) /\ b[d] < a[d]
                                 /\ \A j \in 1 .. (d - 1) : a[j] = b[j]
    BY <1>2, BeyondPrefix
  <2>2. /\ d - 1 \in 0 .. Len(b) /\ d - 1 < Len(a) /\ (d - 1) + 1 = d
    BY <1>0, <2>1, SMT
  <2>3. b[(d - 1) + 1] < a[(d - 1) + 1]
    BY <2>1, <2>2
  <2>. QED
    BY <2>1, <2>2, <2>3 DEF BytesLess
<1>. QED
  BY <1>1, <1>2

(* Keys in the order of an iterator. *)
LEMMA BeforeIsOrder ==
  ASSUME NEW q
  PROVE  /\ \A a \in Bytes : ~Before(q, a, a)
         /\ \A a, b, c \in Bytes : Before(q, a, b) /\ Before(q, b, c) => Before(q, a, c)
         /\ \A a, b \in Bytes : a # b => Before(q, a, b) \/ Before(q, b, a)
<1>1. CASE q.reverse
  BY <1>1, LessIrreflexive, LessTransitive, LessTotal DEF Before
<1>2. CASE ~q.reverse
  BY <1>2, LessIrreflexive, LessTransitive, LessTotal DEF Before
<1>. QED
  BY <1>1, <1>2

IsFirst(q, src, k) == k \in src /\ \A j \in src \ {k} : Before(q, k, j)

LEMMA FirstExists ==
  ASSUME NEW q, NEW T, T \subseteq Bytes, T # {}, IsFiniteSet(T)
  PROVE  \E k : IsFirst(q, T, k)
<1>. DEFINE Endless(A) == A # {} /\ \A x \in A : \E y \in A : Before(q, y, x)
            Sizes == {n \in Nat : \E A \in SUBSET T : Cardinality(A) = n /\ Endless(A)}
<1>0. /\ \A a \in T : ~Before(q, a, a)
      /\ \A a, b, c \in T : Before(q, a, b) /\ Before(q, b, c) => Before(q, a, c)
      /\ \A a, b \in T : a # b => Before(q, a, b) \/ Before(q, b, a)
  <2>1. \A a \in T : a \in Bytes
    OBVIOUS
  <2>. QED
    BY <2>1, BeforeIsOrder
<1>1. Sizes = {}
  <2>. SUFFICES ASSUME Sizes # {} PROVE FALSE
    OBVIOUS
  <2>1. PICK n \in Sizes : \A m \in Sizes : n <= m
    BY LeastNat
  <2>2. PICK A \in SUBSET T : Cardinality(A) = n /\ Endless(A)
    OBVIOUS
  <2>3. PICK a \in A : TRUE
    BY <2>2
  <2>. DEFINE B == A \ {a}
  <2>4. IsFiniteSet(A) /\ IsFiniteSet(B)
    BY FS_Subset
  <2>5. Cardinality(B) \in Nat /\ Cardinality(B) = Cardinality(A) - 1
    BY <2>3, <2>4, FS_RemoveElement, FS_CardinalityType
  <2>6. \A x \in A : x \in T
    OBVIOUS
  <2>7. ASSUME NEW x \in A
        PROVE  \E y \in B : Before(q, y, x)
    <3>1. PICK y \in A : Before(q, y, x)
      BY <2>2
    <3>2. PICK z \in A : Before(q, z, a)
      BY <2>2
    <3>3. z # a
      BY <1>0, <2>6, <3>2
    <3>4. CASE y = a
      <4>1. Before(q, z, x)
        BY <1>0, <2>3, <2>6, <3>1, <3>2, <3>4
      <4>. QED
        BY <3>3, <4>1
    <3>. QED
      BY <3>1, <3>4
  <2>8. Endless(B)
    BY <2>3, <2>7
  <2>9. Cardinality(B) \in Sizes
    BY <2>5, <2>8
  <2>10. n \in Nat /\ n <= n - 1
    BY <2>1, <2>2, <2>5, <2>9
  <2>. QED
    BY <2>10, SMT
<1>2. ~Endless(T)
  BY <1>1, FS_CardinalityType
<1>3. PICK x \in T : \A y \in T : ~Before(q, y, x)
  BY <1>2
<1>4. \A j \in T \ {x} : Before(q, x, j)
  BY <1>0, <1>3
<1>. QED
  BY <1>4 DEF IsFirst

(* What the source stands on is the first of the keys it has yet to show. *)
LEMMA SourceKeyIsFirst ==
  ASSUME NEW q, NEW src, src \subseteq Bytes, src # {}, IsFiniteSet(src)
  PROVE  IsFirst(q, src, SourceKey(q, src))
<1>1. \E k \in src : \A j \in src \ {k} : Before(q, k, j)
  BY FirstExists DEF IsFirst
<1>. QED
  BY <1>1 DEF IsFirst, SourceKey

-----------------------------------------------------------------------------
(* Prefixing and stripping a key. *)
LEMMA ConcatFacts ==
  ASSUME NEW p \in Bytes, NEW k \in Bytes
  PROVE  /\ p \o k \in Bytes /\ Len(p \o k) = Len(p) + Len(k)
         /\ \A j \in 1 .. Len(p) : (p \o k)[j] = p[j]
         /\ \A j \in 1 .. Len(k) : (p \o k)[Len(p) + j] = k[j]
BY SMT DEF Bytes

LEMMA StripConcat ==
  ASSUME NEW p \in Bytes, NEW k \in Bytes
  PROVE  HasPrefix(p \o k, p) /\ Strip(p \o k, p) = k
<1>1. PICK s : s = p \o k
  OBVIOUS
<1>2. /\ s \in Bytes /\ Len(s) = Len(p) + Len(k) /\ Len(p) \in Nat /\ Len(k) \in Nat
      /\ \A j \in 1 .. Len(p) : s[j] = p[j]
      /\ \A j \in 1 .. Len(k) : s[Len(p) + j] = k[j]
  BY <1>1, ConcatFacts, BytesFacts
<1>3. HasPrefix(s, p)
  BY <1>2, SMT DEF HasPrefix
<1>4. PICK t : t = SubSeq(s, Len(p) + 1, Len(s))
  OBVIOUS
<1>5. /\ t \in Bytes /\ Len(t) = Len(k)
      /\ \A j \in 1 .. Len(k) : t[j] = s[Len(p) + j]
  BY <1>2, <1>4, SMT DEF Bytes
<1>6. \A j \in 1 .. Len(k) : t[j] = k[j]
  BY <1>2, <1>5
<1>7. t = k
  BY <1>5, <1>6, SMT DEF Bytes
<1>. QED
  BY <1>1, <1>3, <1>4, <1>7 DEF Strip

LEMMA ConcatStrip ==
  ASSUME NEW p \in Bytes, NEW s \in Bytes, HasPrefix(s, p)
  PROVE  Strip(s, p) \in Bytes /\ p \o Strip(s, p) = s
<1>1. PICK t : t = Strip(s, p)
  OBVIOUS
<1>2. /\ Len(p) \in Nat /\ Len(s) \in Nat /\ Len(p) <= Len(s)
      /\ \A j \in 1 .. Len(p) : s[j] = p[j]
  BY BytesFacts DEF HasPrefix
<1>3. /\ t \in Bytes /\ Len(t) = Len(s) - Len(p) /\ Len(t) \in Nat
      /\ \A j \in 1 .. Len(t) : t[j] = s[Len(p) + j]
  BY <1>1, <1>2, SMT DEF Strip, Bytes
<1>4. PICK u : u = p \o t
  OBVIOUS
<1>5. /\ u \in Bytes /\ Len(u) = Len(p) + Len(t)
      /\ \A j \in 1 .. Len(p) : u[j] = p[j]
      /\ \A j \in 1 .. Len(t) : u[Len(p) + j] = t[j]
  BY <1>3, <1>4, ConcatFacts
<1>6. Len(u) = Len(s)
  BY <1>2, <1>3, <1>5, SMT
<1>7. ASSUME NEW j \in 1 .. Len(s)
      PROVE  u[j] = s[j]
  <2>1. CASE j <= Len(p)
    BY <1>2, <1>5, <2>1, SMT
  <2>2. CASE ~(j <= Len(p))
    <3>1. j - Len(p) \in 1 .. Len(t) /\ Len(p) + (j - Len(p)) = j
      BY <1>2, <1>3, <2>2, SMT
    <3>2. u[Len(p) + (j - Len(p))] = t[j - Len(p)] /\ t[j - Len(p)] = s[Len(p) + (j - Len(p))]
      BY <1>3, <1>5, <3>1
    <3>. QED
      BY <3>1, <3>2
  <2>. QED
    BY <2>1, <2>2
<1>8. u = s
  BY <1>5, <1>6, <1>7, SMT DEF Bytes
<1>. QED
  BY <1>1, <1>3, <1>4, <1>8

LEMMA ConcatInjective ==
  ASSUME NEW p \in Bytes, NEW a \in Bytes, NEW b \in Bytes
  PROVE  p \o a = p \o b <=> a = b
<1>1. \A k \in Bytes : Strip(p \o k, p) = k
  BY StripConcat
<1>2. Strip(p \o a, p) = a /\ Strip(p \o b, p) = b
  BY <1>1
<1>. QED
  BY <1>2

(* Prefixing keeps the order of keys. *)
LEMMA ConcatKeepsLess ==
  ASSUME NEW p \in Bytes, NEW a \in Bytes, NEW b \in Bytes, BytesLess(a, b)
  PROVE  BytesLess(p \o a, p \o b)
<1>1. PICK pa, pb : pa = p \o a /\ pb = p \o b
  OBVIOUS
<1>2. /\ Len(p) \in Nat /\ Len(a) \in Nat /\ Len(b) \in Nat
      /\ Len(pa) = Len(p) + Len(a) /\ Len(pb) = Len(p) + Len(b)
      /\ \A j \in 1 .. Len(p) : pa[j] = p[j] /\ pb[j] = p[j]
      /\ \A j \in 1 .. Len(a) : pa[Len(p) + j] = a[j]
      /\ \A j \in 1 .. Len(b) : pb[Len(p) + j] = b[j]
  <2>1. /\ Len(pa) = Len(p) + Len(a)
        /\ \A j \in 1 .. Len(p) : pa[j] = p[j]
        /\ \A j \in 1 .. Len(a) : pa[Len(p) + j] = a[j]
    BY <1>1, ConcatFacts
  <2>2. /\ Len(pb) = Len(p) + Len(b)
        /\ \A j \in 1 .. Len(p) : pb[j] = p[j]
        /\ \A j \in 1 .. Len(b) : pb[Len(p) + j] = b[j]
    BY <1>1, ConcatFacts
  <2>3. Len(p) \in Nat /\ Len(a) \in Nat /\ Len(b) \in Nat
    BY BytesFacts
  <2>. QED
    BY <2>1, <2>2, <2>3
<1>4. PICK n \in 0 .. Len(a) : /\ n < Len(b) /\ \A j \in 1 .. n : a[j] = b[j]
                               /\ n = Len(a) \/ a[n + 1] < b[n + 1]
  BY DEF BytesLess
<1>5. PICK m : m = Len(p) + n
  OBVIOUS
<1>6. m \in 0 .. Len(pa) /\ m < Len(pb)
  BY <1>2, <1>4, <1>5, SMT
<1>7. ASSUME NEW j \in 1 .. m
      PROVE  pa[j] = pb[j]
  <2>1. CASE j <= Len(p)
    BY <1>2, <2>1, SMT
  <2>2. CASE ~(j <= Len(p))
    <3>1. /\ j - Len(p) \in 1 .. n /\ j - Len(p) \in 1 .. Len(a) /\ j - Len(p) \in 1 .. Len(b)
          /\ Len(p) + (j - Len(p)) = j
      BY <1>2, <1>4, <1>5, <2>2, SMT
    <3>2. /\ pa[Len(p) + (j - Len(p))] = a[j - Len(p)]
          /\ pb[Len(p) + (j - Len(p))] = b[j - Len(p)] /\ a[j - Len(p)] = b[j - Len(p)]
      BY <1>2, <1>4, <3>1
    <3>. QED
      BY <3>1, <3>2
  <2>. QED
    BY <2>1, <2>2
<1>8. m = Len(pa) \/ pa[m + 1] < pb[m + 1]
  <2>1. CASE n = Len(a)
    BY <1>2, <1>5, <2>1
  <2>2. CASE n # Len(a)
    <3>1. /\ n + 1 \in 1 .. Len(a) /\ n + 1 \in 1 .. Len(b) /\ Len(p) + (n + 1) = m + 1
          /\ a[n + 1] < b[n + 1]
      BY <1>2, <1>4, <1>5, <2>2, SMT
    <3>2. pa[Len(p) + (n + 1)] = a[n + 1] /\ pb[Len(p) + (n + 1)] = b[n + 1]
      BY <1>2, <3>1
    <3>. QED
      BY <3>1, <3>2
  <2>. QED
    BY <2>1, <2>2
<1>. QED
  BY <1>1, <1>6, <1>7, <1>8 DEF BytesLess

LEMMA ConcatLess ==
  ASSUME NEW p \in Bytes, NEW a \in Bytes, NEW b \in Bytes
  PROVE  BytesLess(p \o a, p \o b) <=> BytesLess(a, b)
<1>1. p \o a \in Bytes /\ p \o b \in Bytes
  BY ConcatFacts
<1>2. CASE BytesLess(a, b)
  BY <1>2, ConcatKeepsLess
<1>3. CASE a = b
  BY <1>1, <1>3, LessIrreflexive
<1>4. CASE a # b /\ ~BytesLess(a, b)
  <2>1. BytesLess(p \o b, p \o a)
    BY <1>4, LessTotal, ConcatKeepsLess
  <2>2. ~BytesLess(p \o a, p \o b)
    BY <1>1, <2>1, LessTransitive, LessIrreflexive
  <2>. QED
    BY <1>4, <2>2
<1>. QED
  BY <1>2, <1>3, <1>4

-----------------------------------------------------------------------------
(* The parent holds finitely many keys, whatever is written to it. *)
Held(s) == {k \in Stored : s[k] # Absent}

LEMMA HeldAfterPut ==
  ASSUME NEW s \in [Stored -> Value \cup {Absent}], NEW k \in Stored, NEW v,
         IsFiniteSet(Held(s))
  PROVE  IsFiniteSet(Held([s EXCEPT ![k] = v]))
<1>1. Held([s EXCEPT ![k] = v]) \subseteq Held(s) \cup {k}
  BY DEF Held
<1>2. IsFiniteSet(Held(s) \cup {k})
  BY FS_AddElement
<1>. QED
  BY <1>1, <1>2, FS_Subset

LEMMA HeldAfterOps ==
  ASSUME NEW s \in [Stored -> Value \cup {Absent}], NEW ops \in Seq(Op), IsFiniteSet(Held(s))
  PROVE  IsFiniteSet(Held(AfterOps(s, ops)))
<1>. DEFINE N == 1 .. Len(ops)
            T == {ops[n].key : n \in N}
            f == [n \in N |-> ops[n].key]
<1>1. DOMAIN ops = N /\ Len(ops) \in Nat
  BY SMT
<1>2. IsFiniteSet(N)
  BY <1>1, FS_Interval, SMT
<1>3. IsFiniteSet(T)
  <2>1. f \in Surjection(N, T)
    BY DEF Surjection
  <2>. HIDE DEF f, N, T
  <2>. QED
    BY <1>2, <2>1, FS_Surjection
<1>4. DOMAIN s = Stored
  OBVIOUS
<1>5. ASSUME NEW k \in Stored, k \notin T
      PROVE  AfterOps(s, ops)[k] = s[k]
  <2>1. \A n \in DOMAIN ops : ops[n].key # k
    BY <1>1, <1>5
  <2>. QED
    BY <1>4, <2>1, AfterMisses
<1>6. Held(AfterOps(s, ops)) \subseteq Held(s) \cup T
  BY <1>5 DEF Held
<1>. HIDE DEF T
<1>7. IsFiniteSet(Held(s) \cup T)
  BY <1>3, FS_Union
<1>. QED
  BY <1>6, <1>7, FS_Subset

LEMMA KeyFacts ==
  /\ Key \subseteq Bytes /\ EmptyKey \notin Key /\ Key \subseteq KeyArg /\ EmptyKey \in KeyArg
  /\ KeyArg \subseteq Bytes /\ EmptyKey \in Bytes
  /\ \A c \in Client : PrefixOf[c] \in Prefixes /\ PrefixOf[c] \in Bytes /\ PrefixOf[c] # EmptyKey
  /\ \A c \in Client, k \in Key : prefixed(c, k) \in Stored
  /\ nil \notin Bytes /\ nil \notin Value /\ Absent \notin Value /\ nil # Absent
<1>1. EmptyKey \in Bytes
  BY SMT DEF EmptyKey, Bytes
<1>2. Key \subseteq Bytes /\ EmptyKey \notin Key
  BY PrefixAssumption
<1>3. \A c \in Client : PrefixOf[c] \in Prefixes /\ PrefixOf[c] \in Bytes /\ PrefixOf[c] # EmptyKey
  BY PrefixAssumption DEF Prefixes
<1>4. \A c \in Client, k \in Key : prefixed(c, k) \in Stored
  <2>1. \A p \in Prefixes, k \in Key : p \o k \in Stored
    BY SMT DEF Stored
  <2>. QED
    BY <1>3, <2>1 DEF prefixed
<1>5. nil \notin Bytes /\ nil \notin Value /\ Absent \notin Value /\ nil # Absent
  <2>1. nil \notin Bytes
    BY ByteAssumption DEF Bytes, Byte
  <2>2. nil \notin Value /\ nil \in ValueArg /\ Value \subseteq ValueArg
    BY PrefixAssumption DEF ValueArg
  <2>3. Absent \notin ValueArg
    BY PrefixAssumption
  <2>. QED
    BY <2>1, <2>2, <2>3
<1>. QED
  BY <1>1, <1>2, <1>3, <1>4, <1>5 DEF KeyArg

-----------------------------------------------------------------------------
Results == [status: {"none", "get", "true", "false", "inspect", "set", "write",
                     "new", "append", "close", "item", "panic",
                     "errKeyEmpty", "errValueNil", "errBatchClosed"},
            key: KeyArg, value: ValueArg \cup {Absent}]

(* An operation of client c's batch is on a key with c's prefix. *)
IsOpOf(c, op) == \E k \in Key : op.key = prefixed(c, k)

Types ==
  /\ store \in [Stored -> Value \cup {Absent}]
  /\ batch \in [Client -> Seq(Op) \cup {nil}]
  /\ ret \in [Client -> Results]
  /\ owner \in [Iter -> Client \cup {NoOne}]
  /\ query \in [Iter -> Queries]
  /\ source \in [Iter -> SUBSET Stored]
  /\ closed \in [Iter -> BOOLEAN]
  /\ valid \in [Iter -> BOOLEAN]
  /\ err \in [Iter -> BOOLEAN]
  /\ view \in [Iter -> [Stored -> Value \cup {Absent}]]

(* A completed call that was refused shows its argument. *)
LEMMA Refusals ==
  /\ \A k : k = EmptyKey => Result("errKeyEmpty", k, nil) = Status("errKeyEmpty")
  /\ \A v : v = nil => Result("errValueNil", EmptyKey, v) = Status("errValueNil")
BY DEF Status

(* The inductive invariant: types; finite contents and sources; batches that *)
(* stay in their namespace; only an iterator that was created is closed; and *)
(* a valid iterator stands on a key that has the prefix and is longer.       *)
Inv ==
  /\ Types
  /\ IsFiniteSet(Held(store))
  /\ \A i \in Iter : IsFiniteSet(source[i])
  /\ \A c \in Client : batch[c] # nil => \A n \in DOMAIN batch[c] : IsOpOf(c, batch[c][n])
  /\ \A i \in Iter : owner[i] = NoOne => ~closed[i]
  /\ StandsInv
  /\ \A i \in Iter : valid[i] /\ source[i] # {} => SourceKey(query[i], source[i]) # Prefix(i)

LEMMA ResultType ==
  ASSUME NEW k \in KeyArg, NEW v \in ValueArg \cup {Absent}
  PROVE  /\ \A st \in {"get", "true", "false", "set", "append", "item"} : Result(st, k, v) \in Results
         /\ \A st \in {"none", "inspect", "write", "new", "close", "panic",
                       "errKeyEmpty", "errValueNil", "errBatchClosed"} : Status(st) \in Results
<1>1. EmptyKey \in KeyArg /\ nil \in ValueArg \cup {Absent}
  BY DEF KeyArg, ValueArg
<1>. QED
  BY <1>1 DEF Results, Result, Status

(* A step that leaves the iterators alone. *)
LEMMA FrameUnanswered ==
  ASSUME Inv, UNCHANGED iterVars, ret' \in [Client -> Results],
         store' \in [Stored -> Value \cup {Absent}], IsFiniteSet(Held(store')),
         batch' \in [Client -> Seq(Op) \cup {nil}],
         \A d \in Client : batch'[d] # nil => \A n \in DOMAIN batch'[d] : IsOpOf(d, batch'[d][n])
  PROVE  Inv'
<1>3. UNCHANGED <<owner, query, source, closed, valid, err, view>>
  BY DEF iterVars
<1>4. Types'
  BY <1>3 DEF Inv, Types, Results
<1>5. StandsInv'
  BY <1>3, StandsFrame DEF Inv
<1>6. \A i \in Iter : IsFiniteSet(source'[i])
  BY <1>3 DEF Inv
<1>7. \A i \in Iter : valid'[i] /\ source'[i] # {} => SourceKey(query'[i], source'[i]) # Prefix(i)'
  BY <1>3 DEF Inv, Prefix
<1>8. \A i \in Iter : owner'[i] = NoOne => ~closed'[i]
  BY <1>3 DEF Inv
<1>. QED
  BY <1>4, <1>5, <1>6, <1>7, <1>8 DEF Inv, Held, IsOpOf, prefixed

LEMMA FrameStep ==
  ASSUME Inv, UNCHANGED iterVars, NEW c \in Client, NEW r \in Results,
         ret' \in {ret, [ret EXCEPT ![c] = r]},
         store' \in [Stored -> Value \cup {Absent}], IsFiniteSet(Held(store')),
         batch' \in [Client -> Seq(Op) \cup {nil}],
         \A d \in Client : batch'[d] # nil => \A n \in DOMAIN batch'[d] : IsOpOf(d, batch'[d][n])
  PROVE  Inv'
<1>1. ret \in [Client -> Results]
  BY DEF Inv, Types, Results
<1>2. ret' \in [Client -> Results]
  BY <1>1
<1>. QED
  BY <1>2, FrameUnanswered

LEMMA AnswerStep ==
  ASSUME Inv, NEW c \in Client, NEW r \in Results, Answer(c, r)
  PROVE  Inv'
<1>1. UNCHANGED <<store, batch, iterVars>> /\ ret' = [ret EXCEPT ![c] = r]
  BY DEF Answer, Reply
<1>2. /\ store' \in [Stored -> Value \cup {Absent}] /\ IsFiniteSet(Held(store'))
      /\ batch' \in [Client -> Seq(Op) \cup {nil}]
      /\ \A d \in Client : batch'[d] # nil => \A n \in DOMAIN batch'[d] : IsOpOf(d, batch'[d][n])
  BY <1>1 DEF Inv, Types
<1>. QED
  BY <1>1, <1>2, FrameStep

LEMMA PutStep ==
  ASSUME Inv, NEW c \in Client, NEW r \in Results, NEW k \in Stored, NEW v \in Value \cup {Absent},
         store' = [store EXCEPT ![k] = v], ret' \in {ret, [ret EXCEPT ![c] = r]},
         UNCHANGED <<batch, iterVars>>
  PROVE  Inv'
<1>1. store \in [Stored -> Value \cup {Absent}] /\ IsFiniteSet(Held(store))
  BY DEF Inv, Types
<1>2. store' \in [Stored -> Value \cup {Absent}]
  BY <1>1
<1>3. IsFiniteSet(Held(store'))
  BY <1>1, HeldAfterPut
<1>4. /\ batch' \in [Client -> Seq(Op) \cup {nil}]
      /\ \A d \in Client : batch'[d] # nil => \A n \in DOMAIN batch'[d] : IsOpOf(d, batch'[d][n])
  BY DEF Inv, Types
<1>. QED
  BY <1>2, <1>3, <1>4, FrameStep

LEMMA BatchStep ==
  ASSUME Inv, NEW c \in Client, NEW r \in Results, NEW ops \in Seq(Op) \cup {nil},
         ops # nil => \A n \in DOMAIN ops : IsOpOf(c, ops[n]),
         batch' = [batch EXCEPT ![c] = ops], ret' = [ret EXCEPT ![c] = r], UNCHANGED iterVars,
         store' \in [Stored -> Value \cup {Absent}], IsFiniteSet(Held(store'))
  PROVE  Inv'
<1>1. batch \in [Client -> Seq(Op) \cup {nil}]
  BY DEF Inv, Types
<1>2. batch' \in [Client -> Seq(Op) \cup {nil}]
  BY <1>1
<1>3. batch'[c] = ops /\ \A d \in Client : d # c => batch'[d] = batch[d]
  BY <1>1
<1>4. \A d \in Client : batch'[d] # nil => \A n \in DOMAIN batch'[d] : IsOpOf(d, batch'[d][n])
  BY <1>3 DEF Inv
<1>. QED
  BY <1>2, <1>4, FrameStep

LEMMA DatabaseStep ==
  ASSUME Inv, NEW c \in Client, NEW k \in KeyArg, NEW v \in ValueArg,
         Get(c, k) \/ Has(c, k) \/ Set(c, k, v) \/ Delete(c, k) \/ Inspect(c)
  PROVE  Inv'
<1>1. /\ nil \in ValueArg \cup {Absent}
      /\ \A x \in ValueArg \cup {Absent} :
           /\ \A st \in {"get", "true", "false", "set", "append", "item"} : Result(st, k, x) \in Results
           /\ \A st \in {"none", "inspect", "write", "new", "close", "panic",
                         "errKeyEmpty", "errValueNil", "errBatchClosed"} : Status(st) \in Results
  BY ResultType DEF ValueArg
<1>2. k # EmptyKey => k \in Key /\ prefixed(c, k) \in Stored
  BY KeyFacts DEF KeyArg
<1>3. ASSUME NEW x \in Value \cup {Absent}, k # EmptyKey, Put(c, k, x)
      PROVE  Inv'
  <2>1. /\ store' = [store EXCEPT ![prefixed(c, k)] = x]
        /\ ret' = [ret EXCEPT ![c] = Result("set", k, x)]
        /\ UNCHANGED <<batch, iterVars>>
    BY <1>3 DEF Put, Reply
  <2>2. Result("set", k, x) \in Results
    BY <1>1 DEF ValueArg
  <2>. QED
    BY <1>2, <1>3, <2>1, <2>2, PutStep
<1>4. ASSUME NEW st \in {"errKeyEmpty", "errValueNil", "inspect"}, Answer(c, Status(st))
      PROVE  Inv'
  BY <1>1, <1>4, AnswerStep
<1>5. CASE Get(c, k)
  <2>1. ASSUME k # EmptyKey
        PROVE  Result("get", k, IF store[prefixed(c, k)] = Absent THEN nil
                                ELSE store[prefixed(c, k)]) \in Results
    <3>1. store[prefixed(c, k)] \in Value \cup {Absent}
      BY <1>2, <2>1 DEF Inv, Types
    <3>. QED
      BY <1>1, <3>1 DEF ValueArg
  <2>. QED
    BY <1>4, <1>5, <2>1, Refusals, AnswerStep DEF Get
<1>6. CASE Has(c, k)
  BY <1>1, <1>4, <1>6, Refusals, AnswerStep DEF Has
<1>7. CASE Set(c, k, v)
  BY <1>3, <1>4, <1>7, Refusals DEF Set, ValueArg
<1>8. CASE Delete(c, k)
  BY <1>3, <1>4, <1>8, Refusals DEF Delete
<1>9. CASE Inspect(c)
  BY <1>4, <1>9 DEF Inspect
<1>. QED
  BY <1>5, <1>6, <1>7, <1>8, <1>9

LEMMA AppendFacts ==
  ASSUME NEW c \in Client, NEW ops \in Seq(Op), NEW op \in Op, IsOpOf(c, op),
         \A n \in DOMAIN ops : IsOpOf(c, ops[n])
  PROVE  /\ Append(ops, op) \in Seq(Op)
         /\ \A n \in DOMAIN Append(ops, op) : IsOpOf(c, Append(ops, op)[n])
<1>1. Append(ops, op) \in Seq(Op)
  BY SMT
<1>2. ASSUME NEW n \in DOMAIN Append(ops, op)
      PROVE  Append(ops, op)[n] = op \/ (n \in DOMAIN ops /\ Append(ops, op)[n] = ops[n])
  <2>1. n \in 1 .. Len(ops) + 1 /\ Len(ops) \in Nat /\ DOMAIN ops = 1 .. Len(ops)
    BY <1>2, SMT
  <2>2. CASE n = Len(ops) + 1
    <3>1. Append(ops, op)[n] = op
      BY <2>1, <2>2, SMT
    <3>. QED
      BY <3>1
  <2>3. CASE n # Len(ops) + 1
    <3>1. n \in 1 .. Len(ops)
      BY <2>1, <2>3, SMT
    <3>2. Append(ops, op)[n] = ops[n]
      BY <2>1, <3>1, SMT
    <3>. QED
      BY <2>1, <3>1, <3>2
  <2>. QED
    BY <2>2, <2>3
<1>. QED
  BY <1>1, <1>2

LEMMA BatchCallStep ==
  ASSUME Inv, NEW c \in Client, NEW k \in KeyArg, NEW v \in ValueArg,
         \/ BatchSet(c, k, v) \/ BatchDelete(c, k)
         \/ NewBatch(c) \/ BatchWrite(c) \/ BatchClose(c)
  PROVE  Inv'
<1>1. \A x \in ValueArg \cup {Absent} :
           /\ \A st \in {"get", "true", "false", "set", "append", "item"} : Result(st, k, x) \in Results
           /\ \A st \in {"none", "inspect", "write", "new", "close", "panic",
                         "errKeyEmpty", "errValueNil", "errBatchClosed"} : Status(st) \in Results
  BY ResultType
<1>2. \A st \in {"none", "inspect", "write", "new", "close", "panic",
                 "errKeyEmpty", "errValueNil", "errBatchClosed"} : Status(st) \in Results
  BY <1>1
<1>3. /\ store \in [Stored -> Value \cup {Absent}] /\ IsFiniteSet(Held(store))
      /\ batch \in [Client -> Seq(Op) \cup {nil}]
      /\ batch[c] # nil => batch[c] \in Seq(Op) /\ \A n \in DOMAIN batch[c] : IsOpOf(c, batch[c][n])
  BY DEF Inv, Types
<1>4. ASSUME NEW st \in {"errKeyEmpty", "errValueNil", "errBatchClosed"}, Answer(c, Status(st))
      PROVE  Inv'
  BY <1>2, <1>4, AnswerStep
<1>5. ASSUME NEW ops \in Seq(Op) \cup {nil}, NEW r \in Results, ChangeBatch(c, ops, r),
             ops # nil => \A n \in DOMAIN ops : IsOpOf(c, ops[n])
      PROVE  Inv'
  <2>1. /\ batch' = [batch EXCEPT ![c] = ops] /\ ret' = [ret EXCEPT ![c] = r]
        /\ UNCHANGED iterVars /\ store' = store
    BY <1>5 DEF ChangeBatch, Reply
  <2>2. store' \in [Stored -> Value \cup {Absent}] /\ IsFiniteSet(Held(store'))
    BY <1>3, <2>1
  <2>. QED
    BY <1>5, <2>1, <2>2, BatchStep
<1>6. ASSUME NEW x \in Value \cup {Absent}, k # EmptyKey, AppendOp(c, k, x)
      PROVE  Inv'
  <2>1. CASE batch[c] # nil
    <3>1. PICK op : op = [key |-> prefixed(c, k), value |-> x]
      OBVIOUS
    <3>2. k \in Key /\ prefixed(c, k) \in Stored
      BY <1>6, KeyFacts DEF KeyArg
    <3>3. op \in Op /\ IsOpOf(c, op)
      BY <3>1, <3>2 DEF Op, IsOpOf
    <3>4. /\ Append(batch[c], op) \in Seq(Op)
          /\ \A n \in DOMAIN Append(batch[c], op) : IsOpOf(c, Append(batch[c], op)[n])
      BY <1>3, <2>1, <3>3, AppendFacts
    <3>5. ChangeBatch(c, Append(batch[c], op), Result("append", k, x))
      BY <1>6, <2>1, <3>1 DEF AppendOp
    <3>6. Result("append", k, x) \in Results
      BY <1>1 DEF ValueArg
    <3>. QED
      BY <1>5, <3>4, <3>5, <3>6
  <2>. QED
    BY <1>4, <1>6, <2>1 DEF AppendOp
<1>7. CASE NewBatch(c)
  <2>1. <<>> \in Seq(Op) /\ DOMAIN <<>> = {}
    BY SMT
  <2>. QED
    BY <1>2, <1>5, <1>7, <2>1 DEF NewBatch
<1>8. CASE BatchClose(c)
  BY <1>2, <1>5, <1>8 DEF BatchClose
<1>9. CASE BatchSet(c, k, v)
  BY <1>4, <1>6, <1>9, Refusals DEF BatchSet, ValueArg
<1>10. CASE BatchDelete(c, k)
  BY <1>4, <1>6, <1>10, Refusals DEF BatchDelete
<1>11. CASE BatchWrite(c)
  <2>1. CASE batch[c] # nil
    <3>1. /\ store' = AfterOps(store, batch[c]) /\ batch' = [batch EXCEPT ![c] = nil]
          /\ ret' = [ret EXCEPT ![c] = Status("write")] /\ UNCHANGED iterVars
      BY <1>11, <2>1 DEF BatchWrite, Reply
    <3>2. \A n \in DOMAIN batch[c] : batch[c][n].value \in Value \cup {Absent}
      <4>1. \A n \in DOMAIN batch[c] : batch[c][n] \in Op
        BY <1>3, <2>1, SMT
      <4>. QED
        BY <4>1 DEF Op
    <3>3. store' \in [Stored -> Value \cup {Absent}]
      BY <1>3, <2>1, <3>1, <3>2, AfterOpsType
    <3>4. IsFiniteSet(Held(store'))
      BY <1>3, <2>1, <3>1, HeldAfterOps
    <3>5. Status("write") \in Results
      BY <1>2
    <3>. QED
      BY <3>1, <3>3, <3>4, <3>5, BatchStep
  <2>. QED
    BY <1>4, <1>11, <2>1 DEF BatchWrite
<1>. QED
  BY <1>7, <1>8, <1>9, <1>10, <1>11

(* SkipPrefix leaves no key equal to the prefix in front. *)
LEMMA SkipFacts ==
  ASSUME NEW q, NEW src, src \subseteq Bytes, IsFiniteSet(src), NEW p
  PROVE  /\ SkipPrefix(q, src, p) \subseteq src /\ src \ {p} \subseteq SkipPrefix(q, src, p)
         /\ IsFiniteSet(SkipPrefix(q, src, p))
         /\ SkipPrefix(q, src, p) # {} => SourceKey(q, SkipPrefix(q, src, p)) # p
<1>. DEFINE s == SkipPrefix(q, src, p)
<1>1. s \subseteq src /\ src \ {p} \subseteq s
  BY DEF SkipPrefix
<1>2. IsFiniteSet(s)
  BY <1>1, FS_Subset
<1>3. ASSUME s # {}
      PROVE  SourceKey(q, s) # p
  <2>1. SourceKey(q, s) \in s
    BY <1>1, <1>2, <1>3, SourceKeyIsFirst DEF IsFirst
  <2>2. CASE src # {} /\ SourceKey(q, src) = p
    BY <2>1, <2>2 DEF SkipPrefix
  <2>3. CASE ~(src # {} /\ SourceKey(q, src) = p)
    BY <1>1, <1>3, <2>1, <2>3 DEF SkipPrefix
  <2>. QED
    BY <2>1, <2>2, <2>3
<1>. QED
  BY <1>1, <1>2, <1>3

(* A step that moves iterator i. *)
LEMMA SettleStep ==
  ASSUME Inv, NEW i \in Iter, NEW c \in Client, NEW q \in Queries, NEW src \in SUBSET Stored,
         IsFiniteSet(src), owner' = [owner EXCEPT ![i] = c], query' = [query EXCEPT ![i] = q],
         Settle(i, q, src, PrefixOf[c]), UNCHANGED <<store, batch, ret, closed, err>>,
         view' \in [Iter -> [Stored -> Value \cup {Absent}]]
  PROVE  Inv'
<1>1. PICK s : s = SkipPrefix(q, src, PrefixOf[c])
  OBVIOUS
<1>2. PICK b \in BOOLEAN : b = StandsOnPrefixed(q, s, PrefixOf[c])
  BY DEF StandsOnPrefixed
<1>3. source' = [source EXCEPT ![i] = s] /\ valid' = [valid EXCEPT ![i] = b]
  BY <1>1, <1>2 DEF Settle
<1>4. src \subseteq Bytes
  BY StoredAreBytes
<1>5. s \subseteq src /\ IsFiniteSet(s) /\ (s # {} => SourceKey(q, s) # PrefixOf[c])
  BY <1>1, <1>4, SkipFacts
<1>6. Types
  BY DEF Inv
<1>7. /\ owner' \in [Iter -> Client \cup {NoOne}] /\ query' \in [Iter -> Queries]
      /\ source' \in [Iter -> SUBSET Stored] /\ valid' \in [Iter -> BOOLEAN]
  BY <1>3, <1>5, <1>6 DEF Types
<1>8. /\ owner'[i] = c /\ query'[i] = q /\ source'[i] = s
      /\ \A j \in Iter : j # i => /\ owner'[j] = owner[j] /\ query'[j] = query[j]
                                  /\ source'[j] = source[j] /\ valid'[j] = valid[j]
  BY <1>3, <1>6 DEF Types
<1>9. Types'
  BY <1>6, <1>7 DEF Types
<1>10. StandsInv'
  BY <1>7, <1>8, SettleStands DEF Inv
<1>11. \A j \in Iter : IsFiniteSet(source'[j])
  BY <1>5, <1>8 DEF Inv
<1>12. ASSUME NEW j \in Iter, valid'[j], source'[j] # {}
       PROVE  SourceKey(query'[j], source'[j]) # Prefix(j)'
  <2>1. CASE j = i
    BY <1>5, <1>8, <1>12, <2>1 DEF Prefix
  <2>2. CASE j # i
    BY <1>8, <1>12, <2>2 DEF Inv, Prefix
  <2>. QED
    BY <2>1, <2>2
<1>13. \A j \in Iter : owner'[j] = NoOne => ~closed'[j]
  BY <1>8, PrefixAssumption DEF Inv
<1>. QED
  BY <1>9, <1>10, <1>11, <1>12, <1>13 DEF Inv, Held, IsOpOf, prefixed

LEMMA OpenStep ==
  ASSUME Inv, NEW c \in Client, NEW i \in Iter, NEW q \in Query[c], Open(c, i, q)
  PROVE  Inv'
<1>1. PICK src : /\ src \subseteq Held(store) /\ Settle(i, q, src, PrefixOf[c])
  BY DEF Open, Domain, Held
<1>2. /\ owner' = [owner EXCEPT ![i] = c] /\ query' = [query EXCEPT ![i] = q]
      /\ view' = [view EXCEPT ![i] = store] /\ UNCHANGED <<store, batch, ret, closed, err>>
  BY DEF Open
<1>3. q \in Queries
  BY PrefixAssumption
<1>4. src \in SUBSET Stored /\ IsFiniteSet(src)
  BY <1>1, FS_Subset DEF Inv, Held
<1>5. view' \in [Iter -> [Stored -> Value \cup {Absent}]]
  BY <1>2 DEF Inv, Types
<1>. QED
  BY <1>1, <1>2, <1>3, <1>4, <1>5, SettleStep

LEMMA AdvanceStep ==
  ASSUME Inv, NEW c \in Client, NEW i \in Iter, owner[i] = c,
         Settle(i, query[i], source[i] \ {SourceKey(query[i], source[i])}, Prefix(i)),
         UNCHANGED <<store, batch, ret, owner, query, closed, err, view>>
  PROVE  Inv'
<1>1. PICK src : /\ src = source[i] \ {SourceKey(query[i], source[i])}
                 /\ Settle(i, query[i], src, PrefixOf[c])
  BY DEF Prefix
<1>2. src \in SUBSET Stored /\ IsFiniteSet(src)
  BY <1>1, FS_Subset DEF Inv, Types
<1>3. /\ owner' = [owner EXCEPT ![i] = c] /\ query' = [query EXCEPT ![i] = query[i]]
      /\ query[i] \in Queries /\ view' \in [Iter -> [Stored -> Value \cup {Absent}]]
  BY DEF Inv, Types
<1>. QED
  BY <1>1, <1>2, <1>3, SettleStep

(* A valid iterator stands on a key that has the prefix and is longer. *)
LEMMA ValidFacts ==
  ASSUME Inv, NEW i \in Iter, NEW c \in Client, owner[i] = c, Valid(i),
         NEW k, k = SourceKey(query[i], source[i])
  PROVE  /\ k \in Stored /\ IsFirst(query[i], source[i], k)
         /\ HasPrefix(k, PrefixOf[c]) /\ Strip(k, PrefixOf[c]) \in Key
<1>1. source[i] # {} /\ HasPrefix(k, PrefixOf[c]) /\ k # PrefixOf[c]
  BY DEF Valid, StandsOnPrefixed, Inv, Prefix
<1>2. source[i] \subseteq Stored /\ IsFiniteSet(source[i])
  BY DEF Inv, Types
<1>3. IsFirst(query[i], source[i], k)
  <2>1. source[i] \subseteq Bytes
    BY <1>2, StoredAreBytes
  <2>. QED
    BY <1>1, <1>2, <2>1, SourceKeyIsFirst
<1>4. k \in Stored
  BY <1>2, <1>3 DEF IsFirst
<1>5. Strip(k, PrefixOf[c]) \in KeyArg
  BY <1>1, <1>4, KeyFacts, PrefixAssumption
<1>6. Strip(k, PrefixOf[c]) # EmptyKey
  <2>. SUFFICES ASSUME Strip(k, PrefixOf[c]) = EmptyKey PROVE FALSE
    OBVIOUS
  <2>1. PrefixOf[c] \in Bytes /\ k \in Bytes
    BY <1>4, KeyFacts, StoredAreBytes
  <2>2. PrefixOf[c] \o EmptyKey = k
    BY <1>1, <2>1, ConcatStrip
  <2>3. PrefixOf[c] \o EmptyKey = PrefixOf[c]
    BY <2>1, SMT DEF EmptyKey, Bytes
  <2>. QED
    BY <1>1, <2>2, <2>3
<1>. QED
  BY <1>1, <1>3, <1>4, <1>5, <1>6 DEF KeyArg

LEMMA NoteStep ==
  ASSUME Inv, NEW c \in Client, NEW i \in Iter, NoteError(i),
         UNCHANGED <<store, batch, owner, query, source, closed, valid, view>>,
         ret' \in {ret, [ret EXCEPT ![c] = Status("panic")]}
  PROVE  Inv'
<1>1. err' = err
  BY NoError DEF Inv
<1>2. UNCHANGED iterVars
  BY <1>1 DEF iterVars
<1>3. Status("panic") \in Results
  BY ResultType DEF KeyArg
<1>4. /\ store' \in [Stored -> Value \cup {Absent}] /\ IsFiniteSet(Held(store'))
      /\ batch' \in [Client -> Seq(Op) \cup {nil}]
      /\ \A d \in Client : batch'[d] # nil => \A n \in DOMAIN batch'[d] : IsOpOf(d, batch'[d][n])
  BY DEF Inv, Types
<1>. QED
  BY <1>2, <1>3, <1>4, FrameStep

LEMMA IteratorStep ==
  ASSUME Inv, NEW c \in Client, NEW i \in Iter,
         \/ \E q \in Query[c] : NewIterator(c, i, q)
         \/ CallValid(c, i) \/ IteratorNext(c, i) \/ ReadItem(c, i) \/ Close(c, i)
  PROVE  Inv'
<1>1. ASSUME NEW q \in Query[c], NewIterator(c, i, q)
      PROVE  Inv'
  <2>1. Status("errKeyEmpty") \in Results
    BY ResultType DEF KeyArg
  <2>. QED
    BY <1>1, <2>1, Refusals, AnswerStep, OpenStep DEF NewIterator
<1>2. CASE CallValid(c, i)
  BY <1>2, NoteStep DEF CallValid
<1>3. CASE Panic(c, i)
  BY <1>3, NoteStep DEF Panic, Reply
<1>4. CASE IteratorNext(c, i)
  BY <1>3, <1>4, AdvanceStep DEF IteratorNext
<1>5. CASE ReadItem(c, i)
  <2>1. CASE Valid(i)
    <3>1. PICK k : k = SourceKey(query[i], source[i])
      OBVIOUS
    <3>2. owner[i] = c /\ Prefix(i) = PrefixOf[c]
      BY <1>5 DEF ReadItem, Prefix
    <3>3. Answer(c, Result("item", Strip(k, PrefixOf[c]), view[i][k]))
      BY <1>5, <2>1, <3>1, <3>2 DEF ReadItem, Panic
    <3>4. k \in Stored /\ Strip(k, PrefixOf[c]) \in KeyArg
      BY <2>1, <3>1, <3>2, ValidFacts DEF KeyArg
    <3>5. view[i][k] \in ValueArg \cup {Absent}
      BY <3>4 DEF Inv, Types, ValueArg
    <3>6. Result("item", Strip(k, PrefixOf[c]), view[i][k]) \in Results
      BY <3>4, <3>5, ResultType
    <3>. QED
      BY <3>3, <3>6, AnswerStep
  <2>. QED
    BY <1>3, <1>5, <2>1 DEF ReadItem
<1>6. CASE Close(c, i)
  <2>1. /\ owner[i] = c
        /\ source' = [source EXCEPT ![i] = {}] /\ closed' = [closed EXCEPT ![i] = TRUE]
        /\ UNCHANGED <<store, batch, ret, owner, query, valid, err, view>>
    BY <1>6 DEF Close
  <2>2. /\ source' \in [Iter -> SUBSET Stored] /\ source'[i] = {}
        /\ closed' \in [Iter -> BOOLEAN]
        /\ \A j \in Iter : j # i => source'[j] = source[j] /\ closed'[j] = closed[j]
    BY <2>1 DEF Inv, Types
  <2>3. Types'
    BY <2>1, <2>2 DEF Inv, Types
  <2>4. StandsInv'
    BY <2>1, <2>2 DEF Inv, StandsInv, Prefix
  <2>5. IsFiniteSet({})
    BY FS_EmptySet
  <2>6. \A j \in Iter : IsFiniteSet(source'[j])
    BY <2>2, <2>5 DEF Inv
  <2>7. \A j \in Iter : valid'[j] /\ source'[j] # {} => SourceKey(query'[j], source'[j]) # Prefix(j)'
    BY <2>1, <2>2 DEF Inv, Prefix
  <2>8. \A j \in Iter : owner'[j] = NoOne => ~closed'[j]
    BY <2>1, <2>2, PrefixAssumption DEF Inv
  <2>. QED
    BY <2>1, <2>3, <2>4, <2>6, <2>7, <2>8 DEF Inv, Held, IsOpOf, prefixed
<1>. QED
  BY <1>1, <1>2, <1>4, <1>5, <1>6

LEMMA InvStep ==
  ASSUME Inv, [Next]_vars
  PROVE  Inv'
<1>0. /\ ret \in [Client -> Results] /\ batch \in [Client -> Seq(Op) \cup {nil}]
      /\ \A d \in Client : batch[d] # nil => \A n \in DOMAIN batch[d] : IsOpOf(d, batch[d][n])
  BY DEF Inv, Types, Results
<1>1. ASSUME NEW c \in Client, Call(c)
      PROVE  Inv'
  <2>1. nil \in ValueArg /\ EmptyKey \in KeyArg
    BY DEF ValueArg, KeyArg
  <2>2. CASE \E k \in KeyArg : \/ Get(c, k) \/ Has(c, k) \/ Inspect(c) \/ Delete(c, k)
                               \/ \E v \in ValueArg : Set(c, k, v)
    BY <2>1, <2>2, DatabaseStep
  <2>3. CASE \E k \in KeyArg : \/ NewBatch(c) \/ BatchWrite(c) \/ BatchClose(c)
                               \/ BatchDelete(c, k) \/ \E v \in ValueArg : BatchSet(c, k, v)
    BY <2>1, <2>3, BatchCallStep
  <2>4. CASE \E i \in Iter : \/ \E q \in Query[c] : NewIterator(c, i, q)
                             \/ CallValid(c, i) \/ IteratorNext(c, i)
                             \/ ReadItem(c, i) \/ Close(c, i)
    BY <2>4, IteratorStep
  <2>. QED
    BY <1>1, <2>1, <2>2, <2>3, <2>4 DEF Call
<1>2. ASSUME NEW k \in ParentKey, NEW v \in Value \cup {Absent}, ParentSet(k, v)
      PROVE  Inv'
  <2>1. k \in Stored
    BY SMT DEF Stored
  <2>2. store' = [store EXCEPT ![k] = v] /\ UNCHANGED <<batch, ret, iterVars>>
    BY <1>2 DEF ParentSet
  <2>3. /\ store' \in [Stored -> Value \cup {Absent}] /\ IsFiniteSet(Held(store'))
    BY <2>1, <2>2, HeldAfterPut DEF Inv, Types
  <2>. QED
    BY <1>0, <2>2, <2>3, FrameUnanswered
<1>3. CASE UNCHANGED vars
  <2>1. UNCHANGED <<store, batch, ret, iterVars>>
    BY <1>3 DEF vars
  <2>2. store' \in [Stored -> Value \cup {Absent}] /\ IsFiniteSet(Held(store'))
    BY <2>1 DEF Inv, Types
  <2>. QED
    BY <1>0, <2>1, <2>2, FrameUnanswered
<1>. QED
  BY <1>1, <1>2, <1>3 DEF Next

(* The inductive invariant holds in every reachable state. *)
THEOREM Invariant == Spec => []Inv
<1>1. ASSUME Init
      PROVE  Inv
  <2>1. /\ NoQuery \in Queries /\ Status("none") \in Results
    BY ResultType DEF NoQuery, Queries, KeyArg, ValueArg
  <2>2. Types
    BY <1>1, <2>1 DEF Init, Types, Results
  <2>3. /\ err = [i \in Iter |-> FALSE] /\ \A c \in Client : batch[c] = nil
        /\ \A i \in Iter : source[i] = {} /\ ~closed[i]
    BY <1>1 DEF Init
  <2>4. StandsInv
    BY <2>2, <2>3 DEF StandsInv, Types
  <2>5. IsFiniteSet({}) /\ IsFiniteSet(Held(store))
    BY <1>1, FS_EmptySet DEF Init, Held
  <2>. QED
    BY <2>2, <2>3, <2>4, <2>5 DEF Inv
<1>2. Inv /\ [Next]_vars => Inv'
  BY InvStep
<1>. QED
  BY <1>1, <1>2, PTL DEF Spec

(* Neither an empty key nor a nil value reaches the parent, and no iterator  *)
(* returns a key outside of its namespace.                                   *)
THEOREM TypeCorrect == Spec => []TypeOK
<1>1. Inv /\ calls \in Programs => TypeOK
  BY DEF Inv, Types, TypeOK, Results
<1>2. Init => calls \in Programs
  BY DEF Init
<1>3. calls \in Programs /\ [Next]_vars => (calls \in Programs)'
  BY DEF Next, vars
<1>. QED
  BY <1>1, <1>2, <1>3, Invariant, PTL DEF Spec

-----------------------------------------------------------------------------
(* The namespaces of Separated prefixes do not meet. *)
LEMMA OnePrefix ==
  ASSUME Separated, NEW p1 \in Prefixes, NEW p2 \in Prefixes, NEW k1 \in Bytes, NEW k2 \in Bytes,
         p1 \o k1 = p2 \o k2
  PROVE  p1 = p2
<1>1. p1 \in Bytes /\ p2 \in Bytes
  BY StoredAreBytes
<1>2. PICK s : s = p1 \o k1 /\ s = p2 \o k2
  OBVIOUS
<1>3. /\ \A j \in 1 .. Len(p1) : s[j] = p1[j]
      /\ \A j \in 1 .. Len(p2) : s[j] = p2[j]
      /\ Len(p1) \in Nat /\ Len(p2) \in Nat
  <2>1. \A j \in 1 .. Len(p1) : (p1 \o k1)[j] = p1[j]
    BY <1>1, ConcatFacts
  <2>2. \A j \in 1 .. Len(p2) : (p2 \o k2)[j] = p2[j]
    BY <1>1, ConcatFacts
  <2>. QED
    BY <1>1, <1>2, <2>1, <2>2, BytesFacts
<1>4. CASE Len(p1) <= Len(p2)
  <2>1. HasPrefix(p2, p1)
    BY <1>3, <1>4, SMT DEF HasPrefix
  <2>. QED
    BY <2>1 DEF Separated
<1>5. CASE ~(Len(p1) <= Len(p2))
  <2>1. HasPrefix(p1, p2)
    BY <1>3, <1>5, SMT DEF HasPrefix
  <2>. QED
    BY <2>1 DEF Separated
<1>. QED
  BY <1>4, <1>5

LEMMA PrefixIsShorter ==
  ASSUME NEW p \in Bytes, NEW k \in Key
  PROVE  p \o k # p
<1>1. k \in Bytes /\ k # <<>>
  BY KeyFacts DEF EmptyKey
<1>2. Len(k) # 0
  BY <1>1, SMT DEF Bytes
<1>3. Len(p \o k) = Len(p) + Len(k) /\ Len(p) \in Nat /\ Len(k) \in Nat
  BY <1>1, ConcatFacts, BytesFacts
<1>4. Len(p \o k) # Len(p)
  BY <1>2, <1>3, SMT
<1>. QED
  BY <1>4

LEMMA ParentIsOutside ==
  ASSUME Separated, NEW p \in Prefixes, NEW k \in ParentKey, NEW k2 \in Key
  PROVE  k # p \o k2
<1>1. p \in Bytes /\ k2 \in Bytes
  BY StoredAreBytes, KeyFacts
<1>2. HasPrefix(p \o k2, p) /\ p \o k2 # p
  BY <1>1, StripConcat, PrefixIsShorter
<1>. QED
  BY <1>2 DEF Separated

(* What is stored under a prefix, but not the prefix itself. *)
LEMMA StrippedKey ==
  ASSUME NEW p \in Prefixes, NEW s \in Stored, HasPrefix(s, p), s # p
  PROVE  Strip(s, p) \in Key /\ p \o Strip(s, p) = s
<1>1. p \in Bytes /\ s \in Bytes
  BY StoredAreBytes
<1>2. p \o Strip(s, p) = s
  BY <1>1, ConcatStrip
<1>3. Strip(s, p) \in KeyArg
  BY PrefixAssumption
<1>4. p \o EmptyKey = p
  BY <1>1, SMT DEF EmptyKey, Bytes
<1>. QED
  BY <1>2, <1>3, <1>4 DEF KeyArg

-----------------------------------------------------------------------------
(* What writes make of a namespace. *)
Contents == [Stored -> Value \cup {Absent}]

LEMMA InStored ==
  ASSUME NEW p \in Prefixes, NEW k \in Key
  PROVE  p \o k \in Stored
BY SMT DEF Stored

LEMMA NamespaceFacts ==
  ASSUME NEW s \in Contents, NEW p \in Prefixes
  PROVE  /\ Namespace(s, p) \in [Key \cup {EmptyKey} -> Value \cup {Absent}]
         /\ Namespace(s, p)[EmptyKey] = Absent
         /\ \A k \in Key : Namespace(s, p)[k] = s[p \o k]
<1>1. \A k \in Key : k # EmptyKey /\ s[p \o k] \in Value \cup {Absent}
  BY KeyFacts, InStored DEF Contents
<1>2. Namespace(s, p) = [k \in KeyArg |-> IF k = EmptyKey THEN Absent ELSE s[p \o k]]
  BY DEF Namespace
<1>3. Namespace(s, p)[EmptyKey] = Absent
  BY <1>2 DEF KeyArg
<1>4. \A k \in Key : Namespace(s, p)[k] = s[p \o k]
  BY <1>1, <1>2 DEF KeyArg
<1>5. \A k \in Key \cup {EmptyKey} : Namespace(s, p)[k] \in Value \cup {Absent}
  BY <1>1, <1>3, <1>4
<1>. QED
  BY <1>2, <1>3, <1>4, <1>5 DEF KeyArg

(* Contents that agree under a prefix have the same namespace. *)
LEMMA NamespaceEqual ==
  ASSUME NEW p \in Prefixes, NEW s \in Contents,
         NEW n \in [Key \cup {EmptyKey} -> Value \cup {Absent}],
         n[EmptyKey] = Absent, \A k \in Key : s[p \o k] = n[k]
  PROVE  Namespace(s, p) = n
<1>1. PICK m : m = Namespace(s, p)
  OBVIOUS
<1>2. /\ m \in [Key \cup {EmptyKey} -> Value \cup {Absent}]
      /\ \A k \in Key \cup {EmptyKey} : m[k] = n[k]
  BY <1>1, NamespaceFacts
<1>3. m = [k \in Key \cup {EmptyKey} |-> m[k]] /\ n = [k \in Key \cup {EmptyKey} |-> n[k]]
  BY <1>2
<1>4. m = n
  BY <1>2, <1>3
<1>. QED
  BY <1>1, <1>4

IsPutIn(s, p, k, v) ==
  Namespace([s EXCEPT ![p \o k] = v], p) = [Namespace(s, p) EXCEPT ![k] = v]

LEMMA NamespacePut ==
  ASSUME NEW s \in Contents, NEW p \in Prefixes, NEW k \in Key, NEW v \in Value \cup {Absent}
  PROVE  IsPutIn(s, p, k, v)
<1>. DEFINE t == [s EXCEPT ![p \o k] = v]
            n == [Namespace(s, p) EXCEPT ![k] = v]
<1>1. p \o k \in Stored /\ p \in Bytes /\ k \in Bytes /\ k # EmptyKey
  BY InStored, StoredAreBytes, KeyFacts
<1>2. t \in Contents
  BY DEF Contents
<1>3. n \in [Key \cup {EmptyKey} -> Value \cup {Absent}] /\ n[EmptyKey] = Absent
  BY <1>1, NamespaceFacts
<1>4. ASSUME NEW k2 \in Key
      PROVE  t[p \o k2] = n[k2]
  <2>1. p \o k2 \in Stored /\ (p \o k2 = p \o k <=> k2 = k)
    BY <1>1, InStored, KeyFacts, ConcatInjective
  <2>2. t[p \o k2] = IF k2 = k THEN v ELSE s[p \o k2]
    BY <2>1 DEF Contents
  <2>3. n[k2] = IF k2 = k THEN v ELSE Namespace(s, p)[k2]
    BY NamespaceFacts
  <2>. QED
    BY <2>2, <2>3, NamespaceFacts
<1>. HIDE DEF t, n
<1>5. Namespace(t, p) = n
  BY <1>2, <1>3, <1>4, NamespaceEqual
<1>. QED
  BY <1>5 DEF t, n, IsPutIn

LEMMA NamespaceElsewhere ==
  ASSUME NEW s \in Contents, NEW t \in Contents, NEW p \in Prefixes,
         \A k \in Key : t[p \o k] = s[p \o k]
  PROVE  Namespace(t, p) = Namespace(s, p)
<1>1. /\ Namespace(s, p) \in [Key \cup {EmptyKey} -> Value \cup {Absent}]
      /\ Namespace(s, p)[EmptyKey] = Absent
      /\ \A k \in Key : t[p \o k] = Namespace(s, p)[k]
  BY NamespaceFacts
<1>. QED
  BY <1>1, NamespaceEqual

(* Operations on keys with the prefix of client c. *)
AreOpsOf(c, ops) == \A n \in DOMAIN ops : IsOpOf(c, ops[n])

LEMMA OpFacts ==
  ASSUME NEW c \in Client, NEW ops \in Seq(Op), AreOpsOf(c, ops), NEW p, p = PrefixOf[c],
         NEW n \in DOMAIN ops
  PROVE  /\ ops[n] \in Op /\ Strip(ops[n].key, p) \in Key /\ p \o Strip(ops[n].key, p) = ops[n].key
         /\ ops[n].value \in Value \cup {Absent}
<1>1. ops[n] \in Op
  BY SMT
<1>2. PICK k \in Key : ops[n].key = p \o k
  BY DEF AreOpsOf, IsOpOf, prefixed
<1>3. p \in Bytes /\ k \in Bytes
  BY KeyFacts
<1>4. Strip(ops[n].key, p) = k
  BY <1>2, <1>3, StripConcat
<1>. QED
  BY <1>1, <1>2, <1>4 DEF Op

IsStripped(ops, p, t) ==
  /\ t \in Seq([key: Key, value: Value \cup {Absent}]) /\ t # nil /\ DOMAIN t = DOMAIN ops
  /\ \A n \in DOMAIN ops : t[n].key = Strip(ops[n].key, p) /\ t[n].value = ops[n].value

LEMMA StripOpsFacts ==
  ASSUME NEW c \in Client, NEW ops \in Seq(Op), AreOpsOf(c, ops), NEW p, p = PrefixOf[c]
  PROVE  IsStripped(ops, p, StripOps(ops, p))
<1>. DEFINE B == [key: Key, value: Value \cup {Absent}]
            f == [n \in DOMAIN ops |-> [ops[n] EXCEPT !.key = Strip(@, p)]]
<1>1. ASSUME NEW n \in DOMAIN ops
      PROVE  [ops[n] EXCEPT !.key = Strip(@, p)]
               = [key |-> Strip(ops[n].key, p), value |-> ops[n].value]
  <2>1. ops[n] \in [key: Stored, value: Value \cup {Absent}]
    BY <1>1, OpFacts DEF Op
  <2>. QED
    BY <2>1, SMT
<1>2. \A n \in DOMAIN ops : [key |-> Strip(ops[n].key, p), value |-> ops[n].value] \in B
  BY OpFacts
<1>3. StripOps(ops, p) = f
  BY DEF StripOps
<1>4. /\ DOMAIN f = DOMAIN ops
      /\ \A n \in DOMAIN ops : f[n] = [key |-> Strip(ops[n].key, p), value |-> ops[n].value]
  BY <1>1
<1>5. \A n \in DOMAIN ops : f[n] \in B
  BY <1>2, <1>4
<1>6. f \in [DOMAIN ops -> B]
  BY <1>5
<1>. HIDE DEF f
<1>7. f \in Seq(B)
  <2>1. DOMAIN ops = 1 .. Len(ops) /\ Len(ops) \in Nat
    BY SMT
  <2>2. f \in [1 .. Len(ops) -> B]
    BY <1>6, <2>1
  <2>. HIDE DEF B
  <2>. QED
    BY <2>1, <2>2, SMT
<1>8. f # nil
  <2>1. Key \subseteq Bytes
    BY KeyFacts
  <2>2. B \subseteq [key: Bytes, value: Value \cup {Absent}]
    BY <2>1
  <2>. DEFINE C == [key: Bytes, value: Value \cup {Absent}]
  <2>. HIDE DEF B, C
  <2>3. B \subseteq C
    BY <2>2 DEF C
  <2>4. f \in Seq(C)
    BY <1>7, <2>3, SMT
  <2>5. nil \notin Seq(C)
    BY PrefixAssumption DEF C
  <2>. QED
    BY <2>4, <2>5
<1>9. ASSUME NEW n \in DOMAIN ops
      PROVE  f[n].key = Strip(ops[n].key, p) /\ f[n].value = ops[n].value
  <2>1. PICK a, b : a = Strip(ops[n].key, p) /\ b = ops[n].value
    OBVIOUS
  <2>2. f[n] = [key |-> a, value |-> b]
    BY <1>4, <2>1
  <2>3. f[n].key = a /\ f[n].value = b
    BY <2>2, SMT
  <2>. QED
    BY <2>1, <2>3
<1>. QED
  BY <1>3, <1>4, <1>7, <1>8, <1>9 DEF IsStripped

LEMMA StripAppend ==
  ASSUME NEW c \in Client, NEW ops \in Seq(Op), AreOpsOf(c, ops), NEW p, p = PrefixOf[c],
         NEW k \in Key, NEW v \in Value \cup {Absent}
  PROVE  StripOps(Append(ops, [key |-> p \o k, value |-> v]), p)
           = Append(StripOps(ops, p), [key |-> k, value |-> v])
<1>1. PICK op : op = [key |-> p \o k, value |-> v]
  OBVIOUS
<1>2. PICK op2 : op2 = [key |-> k, value |-> v]
  OBVIOUS
<1>3. /\ Strip(p \o k, p) = k
  BY KeyFacts, StripConcat
<1>4. [op EXCEPT !.key = Strip(@, p)] = op2
  <2>1. PICK x : x = p \o k
    OBVIOUS
  <2>2. [op EXCEPT !.key = Strip(@, p)] = [key |-> Strip(x, p), value |-> v]
    BY <1>1, <2>1, SMT
  <2>. QED
    BY <1>2, <1>3, <2>1, <2>2
<1>5. op \in Op
  <2>1. p \o k \in Stored
    BY KeyFacts, InStored
  <2>. QED
    BY <1>1, <2>1 DEF Op
<1>. DEFINE F(o) == [o EXCEPT !.key = Strip(@, p)]
<1>6. PICK app : app = Append(ops, op)
  OBVIOUS
<1>7. /\ DOMAIN app = 1 .. Len(ops) + 1 /\ app[Len(ops) + 1] = op
      /\ Len(ops) \in Nat /\ DOMAIN ops = 1 .. Len(ops)
      /\ \A n \in 1 .. Len(ops) : app[n] = ops[n]
  BY <1>5, <1>6, SMT
<1>8. PICK sops : sops = StripOps(ops, p)
  OBVIOUS
<1>9. sops \in Seq([key: Key, value: Value \cup {Absent}]) /\ DOMAIN sops = 1 .. Len(ops)
  <2>1. IsStripped(ops, p, sops)
    BY <1>8, StripOpsFacts
  <2>. QED
    BY <1>7, <2>1 DEF IsStripped
<1>10. \A n \in 1 .. Len(ops) : sops[n] = F(ops[n])
  BY <1>7, <1>8 DEF StripOps
<1>. HIDE DEF F
<1>11. StripOps(app, p) = [n \in 1 .. Len(ops) + 1 |-> F(app[n])]
  BY <1>7 DEF StripOps, F
<1>12. \A n \in 1 .. Len(ops) + 1 : F(app[n]) = IF n = Len(ops) + 1 THEN op2 ELSE sops[n]
  <2>1. \A n \in 1 .. Len(ops) + 1 : n = Len(ops) + 1 \/ n \in 1 .. Len(ops)
    BY <1>7, SMT
  <2>2. \A n \in 1 .. Len(ops) : n # Len(ops) + 1
    BY <1>7, SMT
  <2>3. F(op) = op2
    BY <1>4 DEF F
  <2>. QED
    BY <1>7, <1>10, <2>1, <2>2, <2>3
<1>13. StripOps(app, p) = [n \in 1 .. Len(ops) + 1 |-> IF n = Len(ops) + 1 THEN op2 ELSE sops[n]]
  BY <1>11, <1>12
<1>14. Len(sops) = Len(ops)
  BY <1>7, <1>9, SMT
<1>15. PICK sapp : sapp = Append(sops, op2)
  OBVIOUS
<1>16. PICK B : B = [key: Key, value: Value \cup {Absent}]
  OBVIOUS
<1>17. sops \in Seq(B) /\ op2 \in B
  BY <1>2, <1>9, <1>16
<1>18. /\ sapp \in Seq(B) /\ Len(sapp) = Len(ops) + 1 /\ sapp[Len(ops) + 1] = op2
       /\ \A n \in 1 .. Len(ops) : sapp[n] = sops[n]
  BY <1>7, <1>14, <1>15, <1>17, SMT
<1>19. sapp \in [1 .. Len(ops) + 1 -> B]
  BY <1>7, <1>18, SMT
<1>20. \A n \in 1 .. Len(ops) + 1 : sapp[n] = IF n = Len(ops) + 1 THEN op2 ELSE sops[n]
  BY <1>7, <1>18, SMT
<1>21. sapp = [n \in 1 .. Len(ops) + 1 |-> sapp[n]]
  BY <1>19
<1>22. sapp = [n \in 1 .. Len(ops) + 1 |-> IF n = Len(ops) + 1 THEN op2 ELSE sops[n]]
  BY <1>20, <1>21
<1>. QED
  BY <1>1, <1>2, <1>6, <1>8, <1>13, <1>15, <1>22

(* Writing a batch changes its own namespace like the stripped batch would. *)
LEMMA NamespaceAfterOps ==
  ASSUME NEW c \in Client, NEW ops \in Seq(Op), AreOpsOf(c, ops), NEW p, p = PrefixOf[c],
         NEW s \in Contents
  PROVE  Namespace(AfterOps(s, ops), p) = AfterOps(Namespace(s, p), StripOps(ops, p))
<1>1. PICK t : t = StripOps(ops, p)
  OBVIOUS
<1>2. PICK n : n = Namespace(s, p)
  OBVIOUS
<1>3. p \in Prefixes /\ p \in Bytes
  BY KeyFacts
<1>4. /\ n \in [Key \cup {EmptyKey} -> Value \cup {Absent}] /\ n[EmptyKey] = Absent
      /\ \A k \in Key : n[k] = s[p \o k]
  BY <1>2, <1>3, NamespaceFacts
<1>5. /\ t \in Seq([key: Key, value: Value \cup {Absent}]) /\ DOMAIN t = DOMAIN ops
      /\ \A m \in DOMAIN ops : t[m].key = Strip(ops[m].key, p) /\ t[m].value = ops[m].value
  <2>1. IsStripped(ops, p, t)
    BY <1>1, StripOpsFacts
  <2>. QED
    BY <2>1 DEF IsStripped
<1>6. \A m \in DOMAIN ops : /\ Strip(ops[m].key, p) \in Key /\ p \o Strip(ops[m].key, p) = ops[m].key
                            /\ ops[m].value \in Value \cup {Absent}
  BY OpFacts
<1>7. AfterOps(s, ops) \in Contents
  BY <1>6, AfterOpsType DEF Contents
<1>8. AfterOps(n, t) \in [Key \cup {EmptyKey} -> Value \cup {Absent}]
  <2>1. PICK D, R, B : /\ D = Key \cup {EmptyKey} /\ R = Value \cup {Absent}
                       /\ B = [key: Key, value: Value \cup {Absent}]
    OBVIOUS
  <2>2. n \in [D -> R] /\ t \in Seq(B) /\ \A m \in DOMAIN t : t[m].value \in R
    BY <1>4, <1>5, <1>6, <2>1
  <2>3. AfterOps(n, t) \in [D -> R]
    BY <2>2, AfterOpsType
  <2>. QED
    BY <2>1, <2>3
<1>9. DOMAIN n = Key \cup {EmptyKey} /\ DOMAIN s = Stored
  BY <1>4 DEF Contents
<1>10. AfterOps(n, t)[EmptyKey] = Absent
  <2>1. \A m \in DOMAIN t : t[m].key # EmptyKey
    BY <1>5, <1>6, KeyFacts
  <2>2. EmptyKey \in DOMAIN n
    BY <1>9
  <2>3. AfterOps(n, t)[EmptyKey] = n[EmptyKey]
    BY <2>1, <2>2, AfterMisses, SMT
  <2>. QED
    BY <1>4, <2>3
<1>11. ASSUME NEW k \in Key
       PROVE  AfterOps(s, ops)[p \o k] = AfterOps(n, t)[k]
  <2>1. p \o k \in DOMAIN s /\ k \in DOMAIN n /\ k \in Bytes
    BY <1>3, <1>9, InStored, KeyFacts
  <2>2. \A m \in DOMAIN ops : ops[m].key = p \o k <=> t[m].key = k
    <3>1. \A m \in DOMAIN ops : Strip(ops[m].key, p) \in Bytes
      BY <1>6, KeyFacts
    <3>2. \A m \in DOMAIN ops : p \o Strip(ops[m].key, p) = p \o k <=> Strip(ops[m].key, p) = k
      BY <1>3, <2>1, <3>1, ConcatInjective
    <3>. QED
      BY <1>5, <1>6, <3>2
  <2>3. CASE \A m \in DOMAIN ops : ops[m].key # p \o k
    <3>1. AfterOps(s, ops)[p \o k] = s[p \o k]
      BY <2>1, <2>3, AfterMisses
    <3>2. \A m \in DOMAIN t : t[m].key # k
      BY <1>5, <2>2, <2>3
    <3>3. AfterOps(n, t)[k] = n[k]
      BY <2>1, <3>2, AfterMisses
    <3>. QED
      BY <1>4, <3>1, <3>3
  <2>4. CASE \E m \in DOMAIN ops : ops[m].key = p \o k
    <3>1. PICK l : IsLastHit(ops, p \o k, l)
      BY <2>4, LastHit
    <3>2. l \in DOMAIN ops /\ IsLastHit(t, k, l)
      BY <1>5, <2>2, <3>1 DEF IsLastHit
    <3>3. DOMAIN ops \subseteq Nat /\ DOMAIN t \subseteq Nat
      <4>1. DOMAIN ops \subseteq Nat
        BY SMT
      <4>. QED
        BY <1>5, <4>1
    <3>4. AfterOps(s, ops)[p \o k] = ops[l].value
      BY <2>1, <3>1, <3>3, AfterHits, SMT
    <3>5. AfterOps(n, t)[k] = t[l].value
      BY <2>1, <3>2, <3>3, AfterHits, SMT
    <3>. QED
      BY <1>5, <3>2, <3>4, <3>5
  <2>. QED
    BY <2>3, <2>4
<1>12. Namespace(AfterOps(s, ops), p) = AfterOps(n, t)
  BY <1>3, <1>7, <1>8, <1>10, <1>11, NamespaceEqual
<1>. QED
  BY <1>1, <1>2, <1>12

(* And no other one. *)
LEMMA NamespaceAfterOthers ==
  ASSUME Separated, NEW c \in Client, NEW ops \in Seq(Op), AreOpsOf(c, ops),
         NEW p \in Prefixes, p # PrefixOf[c], NEW s \in Contents
  PROVE  Namespace(AfterOps(s, ops), p) = Namespace(s, p)
<1>1. AfterOps(s, ops) \in Contents
  <2>1. \A m \in DOMAIN ops : ops[m].value \in Value \cup {Absent}
    BY OpFacts
  <2>. QED
    BY <2>1, AfterOpsType DEF Contents
<1>2. ASSUME NEW k \in Key
      PROVE  AfterOps(s, ops)[p \o k] = s[p \o k]
  <2>1. p \o k \in DOMAIN s
    BY InStored DEF Contents
  <2>2. ASSUME NEW m \in DOMAIN ops, ops[m].key = p \o k
        PROVE  FALSE
    <3>1. PICK k2 \in Key : ops[m].key = PrefixOf[c] \o k2
      BY <2>2 DEF AreOpsOf, IsOpOf, prefixed
    <3>2. PrefixOf[c] \in Prefixes /\ k \in Bytes /\ k2 \in Bytes
      BY KeyFacts
    <3>. QED
      BY <2>2, <3>1, <3>2, OnePrefix
  <2>. QED
    BY <2>1, <2>2, AfterMisses
<1>. QED
  BY <1>1, <1>2, NamespaceElsewhere

-----------------------------------------------------------------------------
(* What an iterator has yet to show, as a function of its source. *)
Shows(q, src, p) ==
  {k \in src : k # p /\ \A j \in src : j = k \/ Before(q, j, k) => HasPrefix(j, p)}

Keys(q, src, p) == {Strip(k, p) : k \in Shows(q, src, p)}

LEMMA SelfPrefix ==
  ASSUME NEW p \in Bytes
  PROVE  HasPrefix(p, p)
BY BytesFacts, SMT DEF HasPrefix

(* The prefix itself does not matter. *)
LEMMA ShowsAfterSkip ==
  ASSUME NEW q, NEW src, NEW p \in Bytes
  PROVE  Shows(q, SkipPrefix(q, src, p), p) = Shows(q, src, p)
<1>1. HasPrefix(p, p)
  BY SelfPrefix
<1>2. Shows(q, src \ {p}, p) = Shows(q, src, p)
  BY <1>1 DEF Shows
<1>. QED
  BY <1>2 DEF SkipPrefix

(* Where the first key does not have the prefix there is nothing to show. *)
LEMMA ShowsNothing ==
  ASSUME NEW q, NEW src, src \subseteq Bytes, IsFiniteSet(src), NEW p,
         ~StandsOnPrefixed(q, src, p)
  PROVE  Shows(q, src, p) = {}
<1>1. CASE src = {}
  BY <1>1 DEF Shows
<1>2. CASE src # {}
  <2>1. PICK f : f = SourceKey(q, src)
    OBVIOUS
  <2>2. IsFirst(q, src, f) /\ ~HasPrefix(f, p)
    BY <1>2, <2>1, SourceKeyIsFirst DEF StandsOnPrefixed
  <2>3. f \in src /\ \A k \in src : f = k \/ Before(q, f, k)
    BY <2>2 DEF IsFirst
  <2>. QED
    BY <2>2, <2>3 DEF Shows
<1>. QED
  BY <1>1, <1>2

(* Key f is shown, and leaving it behind changes nothing else. *)
IsShown(q, src, p, f) ==
  /\ f \in Shows(q, src, p)
  /\ \A k : k \in Shows(q, src \ {f}, p) <=> k \in Shows(q, src, p) /\ k # f

LEMMA ShowsFirst ==
  ASSUME NEW q, NEW src, src \subseteq Bytes, NEW p, NEW f, IsFirst(q, src, f),
         HasPrefix(f, p), f # p
  PROVE  IsShown(q, src, p, f)
<1>1. f \in src /\ f \in Bytes /\ \A k \in src : f = k \/ Before(q, f, k)
  BY DEF IsFirst
<1>2. ASSUME NEW j \in src, Before(q, j, f)
      PROVE  FALSE
  <2>1. j \in Bytes
    OBVIOUS
  <2>. QED
    BY <1>1, <1>2, <2>1, BeforeIsOrder
<1>3. f \in Shows(q, src, p)
  BY <1>1, <1>2 DEF Shows
<1>4. \A k : k \in Shows(q, src \ {f}, p) <=> k \in Shows(q, src, p) /\ k # f
  BY DEF Shows
<1>. QED
  BY <1>3, <1>4 DEF IsShown

(* Stripped keys are in the same order. *)
LEMMA StrippedOrder ==
  ASSUME NEW p \in Bytes, NEW a \in Bytes, NEW b \in Bytes, HasPrefix(a, p), HasPrefix(b, p)
  PROVE  /\ BytesLess(Strip(a, p), Strip(b, p)) <=> BytesLess(a, b)
         /\ Strip(a, p) = Strip(b, p) <=> a = b
<1>1. PICK x, y : x = Strip(a, p) /\ y = Strip(b, p)
  OBVIOUS
<1>2. x \in Bytes /\ y \in Bytes /\ a = p \o x /\ b = p \o y
  BY <1>1, ConcatStrip
<1>3. BytesLess(x, y) <=> BytesLess(a, b)
  BY <1>2, ConcatLess
<1>4. x = y <=> a = b
  BY <1>2, ConcatInjective
<1>. QED
  BY <1>1, <1>3, <1>4

StartsWith(q, src, p, f) ==
  /\ Keys(q, src, p) # {}
  /\ Keys(q, src \ {f}, p) = Keys(q, src, p) \ {Strip(f, p)}
  /\ KV(p)!First(q, Keys(q, src, p)) = Strip(f, p)

LEMMA KeysFirst ==
  ASSUME NEW q, NEW src, src \subseteq Bytes, NEW p \in Bytes, NEW f, IsFirst(q, src, f),
         HasPrefix(f, p), f # p
  PROVE  StartsWith(q, src, p, f)
<1>1. PICK sh : sh = Shows(q, src, p)
  OBVIOUS
<1>2. f \in sh /\ \A k : k \in Shows(q, src \ {f}, p) <=> k \in sh /\ k # f
  <2>1. IsShown(q, src, p, f)
    BY ShowsFirst
  <2>. QED
    BY <1>1, <2>1 DEF IsShown
<1>3. \A k \in sh : k \in src /\ k \in Bytes /\ HasPrefix(k, p) /\ (k = f \/ Before(q, f, k))
  BY <1>1 DEF Shows, IsFirst
<1>4. /\ \A x : x \in Keys(q, src, p) <=> \E k \in sh : x = Strip(k, p)
      /\ \A x : x \in Keys(q, src \ {f}, p) <=> \E k \in sh : k # f /\ x = Strip(k, p)
  BY <1>1, <1>2 DEF Keys
<1>5. \A k \in sh : /\ Strip(k, p) = Strip(f, p) <=> k = f
                    /\ BytesLess(Strip(k, p), Strip(f, p)) <=> BytesLess(k, f)
                    /\ BytesLess(Strip(f, p), Strip(k, p)) <=> BytesLess(f, k)
                    /\ Strip(k, p) \in Bytes
  BY <1>2, <1>3, StrippedOrder, ConcatStrip
<1>6. Keys(q, src \ {f}, p) = Keys(q, src, p) \ {Strip(f, p)}
  <2>1. \A x : x \in Keys(q, src \ {f}, p) <=> x \in Keys(q, src, p) \ {Strip(f, p)}
    BY <1>4, <1>5
  <2>. QED
    BY <2>1
<1>7. PICK g : g = Strip(f, p)
  OBVIOUS
<1>8. PICK ks : ks = Keys(q, src, p)
  OBVIOUS
<1>9. /\ g \in ks /\ ks \subseteq Bytes
      /\ \A j \in ks : j = g \/ IF q.reverse THEN BytesLess(j, g) ELSE BytesLess(g, j)
  <2>1. g \in ks
    BY <1>2, <1>4, <1>7, <1>8
  <2>2. ASSUME NEW j \in ks
        PROVE  /\ j \in Bytes
               /\ j = g \/ IF q.reverse THEN BytesLess(j, g) ELSE BytesLess(g, j)
    <3>1. PICK k \in sh : j = Strip(k, p)
      BY <1>4, <1>8, <2>2
    <3>2. j = g \/ Before(q, f, k)
      BY <1>3, <1>7, <3>1
    <3>. QED
      BY <1>5, <1>7, <3>1, <3>2 DEF Before
  <2>. QED
    BY <2>1, <2>2
<1>10. \A j \in ks : IF q.reverse THEN ~BytesLess(g, j) ELSE ~BytesLess(j, g)
  BY <1>9, LessIrreflexive, LessTransitive
<1>11. ASSUME NEW k \in ks, \A j \in ks : IF q.reverse THEN ~BytesLess(k, j) ELSE ~BytesLess(j, k)
       PROVE  k = g
  BY <1>9, <1>11
<1>12. KV(p)!First(q, ks) =
         CHOOSE k \in ks : \A j \in ks : IF q.reverse THEN ~BytesLess(k, j) ELSE ~BytesLess(j, k)
  BY DEF KV!First
<1>13. KV(p)!First(q, ks) = g
  BY <1>9, <1>10, <1>11, <1>12
<1>. QED
  BY <1>6, <1>7, <1>8, <1>9, <1>13 DEF StartsWith

-----------------------------------------------------------------------------
(* The domain that newPrefixIterator asks the parent for. *)
ParentDomain(q, p) ==
  Domain(IF q.start = nil THEN p ELSE p \o q.start, PrefixEnd(p, q.end))

(* A domain within the namespace of p. *)
Within(q, k) ==
  /\ q.start = nil \/ ~BytesLess(k, q.start)
  /\ q.end = nil \/ BytesLess(k, q.end)

LEMMA QueryFacts ==
  ASSUME NEW c \in Client, NEW q \in Query[c], EmptyKey \notin {q.start, q.end}
  PROVE  /\ q.start = nil \/ q.start \in Key
         /\ q.end = nil \/ q.end \in Key
<1>1. q \in Queries
  BY PrefixAssumption
<1>. QED
  BY <1>1 DEF Queries, KeyArg

(* A key with the prefix is in the parent's domain exactly if the rest of it *)
(* is in the domain that was asked for.                                      *)
LEMMA DomainOfPrefixed ==
  ASSUME NEW c \in Client, NEW q \in Query[c], EmptyKey \notin {q.start, q.end},
         NEW p, p = PrefixOf[c], NEW k \in Bytes, p \o k \in Stored
  PROVE  p \o k \in ParentDomain(q, p) <=> store[p \o k] # Absent /\ Within(q, k)
<1>1. p \in Bytes /\ p \o k \in Bytes /\ HasPrefix(p \o k, p)
  BY KeyFacts, ConcatFacts, StripConcat
<1>2. /\ q.start = nil \/ (q.start \in Bytes /\ q.start # nil /\ p \o q.start # nil)
      /\ q.end = nil \/ (q.end \in Bytes /\ q.end # nil /\ p \o q.end # nil)
      /\ p # nil
  <2>1. \A b \in Bytes : b # nil /\ p \o b # nil
    BY <1>1, KeyFacts, ConcatFacts
  <2>. QED
    BY <1>1, <2>1, QueryFacts, KeyFacts
<1>3. PICK s, e : s = (IF q.start = nil THEN p ELSE p \o q.start) /\ e = PrefixEnd(p, q.end)
  OBVIOUS
<1>4. ~BytesLess(p \o k, p) /\ (cpIncr(p) # nil => BytesLess(p \o k, cpIncr(p)))
  BY <1>1, PrefixedIsInDomain, CarryOrNil
<1>5. (s = nil \/ ~BytesLess(p \o k, s)) <=> (q.start = nil \/ ~BytesLess(k, q.start))
  <2>1. CASE q.start = nil
    BY <1>3, <1>4, <2>1
  <2>2. CASE q.start # nil
    BY <1>1, <1>2, <1>3, <2>2, ConcatLess
  <2>. QED
    BY <2>1, <2>2
<1>6. (e = nil \/ BytesLess(p \o k, e)) <=> (q.end = nil \/ BytesLess(k, q.end))
  <2>1. CASE q.end = nil
    BY <1>3, <1>4, <2>1 DEF PrefixEnd
  <2>2. CASE q.end # nil
    BY <1>1, <1>2, <1>3, <2>2, ConcatLess DEF PrefixEnd
  <2>. QED
    BY <2>1, <2>2
<1>7. p \o k \in Domain(s, e) <=> store[p \o k] # Absent /\ IsKeyInDomain(p \o k, s, e)
  BY DEF Domain
<1>8. IsKeyInDomain(p \o k, s, e) <=> Within(q, k)
  BY <1>5, <1>6 DEF IsKeyInDomain, Within
<1>. QED
  BY <1>3, <1>7, <1>8 DEF ParentDomain

(* A key without the prefix comes after all the keys to show. *)
LEMMA StrangersComeLast ==
  ASSUME NoReverseCarry, NEW c \in Client, NEW q \in Query[c], EmptyKey \notin {q.start, q.end},
         NEW p, p = PrefixOf[c], NEW j \in ParentDomain(q, p), ~HasPrefix(j, p),
         NEW k \in Bytes, HasPrefix(k, p)
  PROVE  ~Before(q, j, k) /\ j # k
<1>0. p \in Bytes /\ p # EmptyKey /\ j \in Bytes
  BY KeyFacts, StoredAreBytes DEF ParentDomain, Domain
<1>1. /\ q.start = nil \/ (q.start \in Bytes /\ q.start # nil /\ p \o q.start \in Bytes /\ p \o q.start # nil)
      /\ q.end = nil \/ (q.end \in Bytes /\ q.end # nil /\ p \o q.end \in Bytes /\ p \o q.end # nil)
      /\ p # nil
  <2>1. \A b \in Bytes : b # nil /\ p \o b \in Bytes /\ p \o b # nil
    BY <1>0, KeyFacts, ConcatFacts
  <2>. QED
    BY <1>0, <2>1, QueryFacts, KeyFacts
<1>2. PICK s, e : s = (IF q.start = nil THEN p ELSE p \o q.start) /\ e = PrefixEnd(p, q.end)
  OBVIOUS
<1>3. /\ s = nil \/ ~BytesLess(j, s)
      /\ e = nil \/ BytesLess(j, e)
  BY <1>2 DEF ParentDomain, Domain, IsKeyInDomain
<1>4. ~BytesLess(j, p)
  <2>1. CASE q.start = nil
    BY <1>1, <1>2, <1>3, <2>1
  <2>2. CASE q.start # nil
    <3>1. p \o q.start \in Bytes /\ ~BytesLess(j, p \o q.start) /\ ~BytesLess(p \o q.start, p)
      BY <1>0, <1>1, <1>2, <1>3, <2>2, StripConcat, PrefixedIsInDomain
    <3>2. p \o q.start = p \/ BytesLess(p, p \o q.start)
      BY <1>0, <3>1, LessTotal
    <3>. QED
      BY <1>0, <3>1, <3>2, LessTransitive
  <2>. QED
    BY <2>1, <2>2
<1>5. BytesLess(k, j)
  BY <1>0, <1>4, PrefixedComesFirst
<1>6. ~BytesLess(j, k) /\ j # k
  BY <1>0, <1>5, LessTransitive, LessIrreflexive
<1>7. CASE q.end # nil
  <2>1. p \o q.end \in Bytes /\ HasPrefix(p \o q.end, p) /\ BytesLess(j, p \o q.end)
    BY <1>0, <1>1, <1>2, <1>3, <1>7, StripConcat DEF PrefixEnd
  <2>2. BytesLess(p \o q.end, j)
    BY <1>0, <1>4, <2>1, PrefixedComesFirst
  <2>. QED
    BY <1>0, <2>1, <2>2, LessTransitive, LessIrreflexive
<1>8. CASE q.end = nil
  <2>1. NoCarry(p) # {} => BytesLess(j, cpIncr(p))
    BY <1>0, <1>2, <1>3, <1>8, CarryOrNil DEF PrefixEnd
  <2>2. Carries(p)
    BY <1>0, <1>4, <2>1, NotPrefixedInDomain
  <2>3. ~q.reverse
    BY <1>8, <2>2 DEF NoReverseCarry
  <2>. QED
    BY <1>6, <2>3 DEF Before
<1>. QED
  BY <1>7, <1>8

(* A new iterator shows the content of its domain in the namespace. *)
ShowsDomain(q, p) ==
  Keys(q, ParentDomain(q, p), p)
    = {k \in Key : KV(p)!InRange(q, k) /\ Namespace(store, p)[k] # Absent}

LEMMA KeysOfDomain ==
  ASSUME NoReverseCarry, store \in Contents, NEW c \in Client, NEW q \in Query[c],
         EmptyKey \notin {q.start, q.end}, NEW p, p = PrefixOf[c]
  PROVE  ShowsDomain(q, p)
<1>1. p \in Prefixes /\ p \in Bytes
  BY KeyFacts
<1>2. PICK src : src = ParentDomain(q, p)
  OBVIOUS
<1>3. src \subseteq Stored
  BY <1>2 DEF ParentDomain, Domain
<1>4. \A k \in Key : Namespace(store, p)[k] = store[p \o k] /\ p \o k \in Stored /\ k \in Bytes
  BY <1>1, NamespaceFacts, InStored, KeyFacts
<1>5. \A k : KV(p)!InRange(q, k) <=> Within(q, k)
  BY DEF KV!InRange, Within
<1>6. ASSUME NEW k \in Key
      PROVE  p \o k \in src <=> Namespace(store, p)[k] # Absent /\ KV(p)!InRange(q, k)
  <2>1. k \in Bytes /\ p \o k \in Stored
    BY <1>4
  <2>2. p \o k \in ParentDomain(q, p) <=> store[p \o k] # Absent /\ Within(q, k)
    BY <2>1, DomainOfPrefixed
  <2>. QED
    BY <1>2, <1>4, <1>5, <2>2
<1>7. ASSUME NEW x \in Keys(q, src, p)
      PROVE  x \in Key /\ p \o x \in src
  <2>1. PICK k \in Shows(q, src, p) : x = Strip(k, p)
    BY <1>7 DEF Keys
  <2>2. k \in src /\ k # p /\ HasPrefix(k, p)
    BY <2>1 DEF Shows
  <2>3. x \in Key /\ p \o x = k
    BY <1>1, <1>3, <2>1, <2>2, StrippedKey
  <2>. QED
    BY <2>2, <2>3
<1>8. ASSUME NEW x \in Key, p \o x \in src
      PROVE  x \in Keys(q, src, p)
  <2>1. PICK k : k = p \o x
    OBVIOUS
  <2>2. k \in Bytes /\ HasPrefix(k, p) /\ Strip(k, p) = x /\ k # p
    BY <1>1, <1>4, <2>1, ConcatFacts, StripConcat, PrefixIsShorter
  <2>3. ASSUME NEW j \in src, j = k \/ Before(q, j, k)
        PROVE  HasPrefix(j, p)
    BY <1>2, <2>2, <2>3, StrangersComeLast
  <2>4. k \in Shows(q, src, p)
    BY <1>8, <2>1, <2>2, <2>3 DEF Shows
  <2>. QED
    BY <2>2, <2>4 DEF Keys
<1>9. \A x : x \in Keys(q, src, p) <=>
               x \in Key /\ KV(p)!InRange(q, x) /\ Namespace(store, p)[x] # Absent
  BY <1>6, <1>7, <1>8
<1>. QED
  BY <1>2, <1>9 DEF ShowsDomain

-----------------------------------------------------------------------------
(* The refinement, for the namespace of one prefix. *)
Simulated(p) == KV(p)!DBNext \/ UNCHANGED KV(p)!dbVars

IterSame(p) ==
  /\ Owners(p)' = Owners(p) /\ Asked(p)' = Asked(p) /\ Views(p)' = Views(p)
  /\ Rests(p)' = Rests(p) /\ Failures(p)' = Failures(p) /\ Closings(p)' = Closings(p)

LEMMA IterFrame ==
  ASSUME UNCHANGED iterVars, NEW p
  PROVE  IterSame(p)
<1>1. UNCHANGED <<owner, query, source, closed, valid, err, view>>
  BY DEF iterVars
<1>. QED
  BY <1>1 DEF IterSame, Owners, Asked, Views, Rests, Failures, Closings, Uses, ToShow

LEMMA BatchFrame ==
  ASSUME batch' = batch, NEW p
  PROVE  Batches(p)' = Batches(p)
BY DEF Batches

LEMMA Stutters ==
  ASSUME NEW p, Namespace(store', p) = Namespace(store, p), Batches(p)' = Batches(p),
         IterSame(p), Replies(p)' = Replies(p)
  PROVE  Simulated(p)
BY DEF Simulated, KV!dbVars, KV!iterVars, IterSame

(* A reply is seen by the namespace of its client only. *)
LEMMA RepliesStep ==
  ASSUME ret \in [Client -> Results], NEW c \in Client, NEW r, ret' = [ret EXCEPT ![c] = r], NEW p
  PROVE  /\ p = PrefixOf[c] => c \in Users(p) /\ Replies(p)' = [Replies(p) EXCEPT ![c] = r]
         /\ p # PrefixOf[c] => Replies(p)' = Replies(p)
<1>1. CASE p = PrefixOf[c]
  BY <1>1 DEF Replies, Users
<1>2. CASE p # PrefixOf[c]
  BY <1>2 DEF Replies, Users
<1>. QED
  BY <1>1, <1>2

(* Likewise a batch. *)
Mapped(ops, p) == IF ops = nil THEN nil ELSE StripOps(ops, p)

IsSeen(c, ops, p) ==
  /\ p = PrefixOf[c] => Batches(p)' = [Batches(p) EXCEPT ![c] = Mapped(ops, p)]
  /\ p # PrefixOf[c] => Batches(p)' = Batches(p)

LEMMA BatchesStep ==
  ASSUME batch \in [Client -> Seq(Op) \cup {nil}], NEW c \in Client, NEW ops,
         batch' = [batch EXCEPT ![c] = ops], NEW p
  PROVE  IsSeen(c, ops, p)
<1>0. \A d \in Client : batch'[d] = IF d = c THEN ops ELSE batch[d]
  OBVIOUS
<1>1. Batches(p) = [d \in Users(p) |-> Mapped(batch[d], p)]
  BY DEF Batches, Mapped
<1>2. Batches(p)' = [d \in Users(p) |-> Mapped(batch'[d], p)]
  BY DEF Batches, Mapped
<1>3. CASE p = PrefixOf[c]
  <2>1. \A d \in Users(p) : Mapped(batch'[d], p) = IF d = c THEN Mapped(ops, p) ELSE Mapped(batch[d], p)
    BY <1>0 DEF Users
  <2>2. PICK m : m = Mapped(ops, p)
    OBVIOUS
  <2>3. Batches(p)' = [d \in Users(p) |-> IF d = c THEN m ELSE Mapped(batch[d], p)]
    BY <1>2, <2>1, <2>2
  <2>4. [Batches(p) EXCEPT ![c] = m] = [d \in Users(p) |-> IF d = c THEN m ELSE Mapped(batch[d], p)]
    BY <1>1
  <2>. QED
    BY <1>3, <2>2, <2>3, <2>4 DEF IsSeen
<1>4. CASE p # PrefixOf[c]
  <2>1. \A d \in Users(p) : batch'[d] = batch[d]
    BY <1>0, <1>4 DEF Users
  <2>. QED
    BY <1>1, <1>2, <1>4, <2>1 DEF IsSeen
<1>. QED
  BY <1>3, <1>4

LEMMA SameResults ==
  ASSUME NEW p
  PROVE  /\ \A s, k, v : KV(p)!Result(s, k, v) = Result(s, k, v)
         /\ \A s : KV(p)!Status(s) = Status(s)
BY DEF KV!Status, KV!Result, Status, Result

(* What a call that only returns r is to the namespace of its client. *)
Answered(p, c, r) ==
  /\ c \in Users(p) /\ Replies(p)' = [Replies(p) EXCEPT ![c] = r]
  /\ Namespace(store', p) = Namespace(store, p) /\ Batches(p)' = Batches(p) /\ IterSame(p)

LEMMA AnswerFrame ==
  ASSUME Inv, NEW c \in Client, NEW r, NEW p,
         ret' = [ret EXCEPT ![c] = r], UNCHANGED <<store, batch, iterVars>>
  PROVE  (p = PrefixOf[c] => Answered(p, c, r)) /\ (p # PrefixOf[c] => Simulated(p))
<1>1. ret \in [Client -> Results]
  BY DEF Inv, Types, Results
<1>2. /\ p = PrefixOf[c] => c \in Users(p) /\ Replies(p)' = [Replies(p) EXCEPT ![c] = r]
      /\ p # PrefixOf[c] => Replies(p)' = Replies(p)
  BY <1>1, RepliesStep
<1>3. Namespace(store', p) = Namespace(store, p) /\ Batches(p)' = Batches(p) /\ IterSame(p)
  BY IterFrame, BatchFrame
<1>. QED
  BY <1>2, <1>3, Stutters DEF Answered

(* The calls of KVStore that only answer. *)
LEMMA AnswersSimulate ==
  ASSUME NEW p, NEW c, NEW r, Answered(p, c, r),
         \/ r \in {Status("errKeyEmpty"), Status("errValueNil"), Status("inspect")}
         \/ r = Status("errBatchClosed") /\ Batches(p)[c] = nil
         \/ \E k \in Key :
              \/ r = Result("get", k, IF Namespace(store, p)[k] = Absent THEN nil
                                      ELSE Namespace(store, p)[k])
              \/ r = Result(IF Namespace(store, p)[k] = Absent THEN "false" ELSE "true", k, nil)
         \/ \E i \in Iter : Owners(p)[i] = c /\ Rests(p)[i] = {} /\ r = Status("panic")
         \/ \E i \in Iter : /\ Owners(p)[i] = c /\ Rests(p)[i] # {}
                            /\ \E k : /\ k = KV(p)!First(Asked(p)[i], Rests(p)[i])
                                      /\ r = Result("item", k, Views(p)[i][k])
  PROVE  Simulated(p)
<1>1. /\ c \in Users(p) /\ KV(p)!Reply(c, r)
      /\ Namespace(store', p) = Namespace(store, p) /\ Batches(p)' = Batches(p)
      /\ Owners(p)' = Owners(p) /\ Asked(p)' = Asked(p) /\ Views(p)' = Views(p)
      /\ Rests(p)' = Rests(p) /\ Failures(p)' = Failures(p) /\ Closings(p)' = Closings(p)
  BY DEF Answered, IterSame, KV!Reply
<1>2. CASE r = Status("errKeyEmpty") \/ r = Status("errValueNil")
  <2>0. \/ r = KV(p)!Result("errKeyEmpty", EmptyKey, nil)
        \/ r = KV(p)!Result("errValueNil", EmptyKey, nil)
    BY <1>2 DEF KV!Result, Result, Status
  <2>1. KV(p)!Refuse(c)
    BY <1>1, <2>0 DEF KV!Refuse, KV!iterVars
  <2>. QED
    BY <1>1, <2>1 DEF Simulated, KV!DBNext
<1>3. CASE r = Status("inspect")
  <2>1. KV(p)!NoEffect(c)
    BY <1>1, <1>3, SameResults DEF KV!NoEffect, KV!iterVars
  <2>. QED
    BY <1>1, <2>1 DEF Simulated, KV!DBNext
<1>4. CASE r = Status("errBatchClosed") /\ Batches(p)[c] = nil
  <2>1. KV(p)!BatchIsClosed(c)
    BY <1>1, <1>4, SameResults DEF KV!BatchIsClosed, KV!iterVars
  <2>. QED
    BY <1>1, <2>1 DEF Simulated, KV!DBNext
<1>5. ASSUME NEW k \in Key,
             \/ r = Result("get", k, IF Namespace(store, p)[k] = Absent THEN nil
                                     ELSE Namespace(store, p)[k])
             \/ r = Result(IF Namespace(store, p)[k] = Absent THEN "false" ELSE "true", k, nil)
      PROVE  Simulated(p)
  <2>1. PICK v, st : /\ v = IF Namespace(store, p)[k] = Absent THEN nil ELSE Namespace(store, p)[k]
                     /\ st = IF Namespace(store, p)[k] = Absent THEN "false" ELSE "true"
    OBVIOUS
  <2>2. r = KV(p)!Result("get", k, v) \/ r = KV(p)!Result(st, k, nil)
    <3>1. r = Result("get", k, v) \/ r = Result(st, k, nil)
      BY <1>5, <2>1
    <3>. QED
      BY <3>1 DEF KV!Result, Result
  <2>3. KV(p)!Reply(c, KV(p)!Result("get", k, v)) \/ KV(p)!Reply(c, KV(p)!Result(st, k, nil))
    BY <1>1, <2>2
  <2>4. KV(p)!Lookup(c, k)
    BY <1>1, <2>1, <2>3 DEF KV!Lookup, KV!iterVars
  <2>. QED
    BY <1>1, <2>4 DEF Simulated, KV!DBNext
<1>6. ASSUME NEW i \in Iter, Owners(p)[i] = c, Rests(p)[i] = {}, r = Status("panic")
      PROVE  Simulated(p)
  <2>1. KV(p)!IteratorPanics(c, i)
    BY <1>1, <1>6, SameResults DEF KV!IteratorPanics, KV!iterVars
  <2>. QED
    BY <1>1, <2>1 DEF Simulated, KV!DBNext
<1>7. ASSUME NEW i \in Iter, Owners(p)[i] = c, Rests(p)[i] # {},
             NEW k, k = KV(p)!First(Asked(p)[i], Rests(p)[i]), r = Result("item", k, Views(p)[i][k])
      PROVE  Simulated(p)
  <2>1. r = KV(p)!Result("item", k, Views(p)[i][k])
    BY <1>7 DEF KV!Result, Result
  <2>2. KV(p)!Reply(c, KV(p)!Result("item", k, Views(p)[i][k]))
    BY <1>1, <2>1
  <2>3. KV(p)!Current(c, i)
    BY <1>1, <1>7, <2>2 DEF KV!Current, KV!iterVars
  <2>. QED
    BY <1>1, <2>3 DEF Simulated, KV!DBNext
<1>. QED
  BY <1>2, <1>3, <1>4, <1>5, <1>6, <1>7

(* A call that is answered, seen from the namespace of every prefix. *)
LEMMA AnswerSimulates ==
  ASSUME Inv, NEW c \in Client, NEW r, Answer(c, r), NEW p,
         p = PrefixOf[c] /\ Answered(p, c, r) => Simulated(p)
  PROVE  Simulated(p)
<1>1. ret' = [ret EXCEPT ![c] = r] /\ UNCHANGED <<store, batch, iterVars>>
  BY DEF Answer, Reply
<1>2. (p = PrefixOf[c] => Answered(p, c, r)) /\ (p # PrefixOf[c] => Simulated(p))
  BY <1>1, AnswerFrame
<1>. QED
  BY <1>2

LEMMA ErrorSimulates ==
  ASSUME Inv, NEW c \in Client, NEW p,
         \/ \E k : k = EmptyKey /\ Answer(c, Result("errKeyEmpty", k, nil))
         \/ \E v : v = nil /\ Answer(c, Result("errValueNil", EmptyKey, v))
         \/ Answer(c, Status("inspect"))
         \/ batch[c] = nil /\ Answer(c, Status("errBatchClosed"))
  PROVE  Simulated(p)
<1>1. ASSUME NEW r, r \in {Status("errKeyEmpty"), Status("errValueNil"), Status("inspect")}, Answer(c, r)
      PROVE  Simulated(p)
  BY <1>1, AnswersSimulate, AnswerSimulates
<1>2. CASE batch[c] = nil /\ Answer(c, Status("errBatchClosed"))
  <2>1. PICK r : r = Status("errBatchClosed")
    OBVIOUS
  <2>2. ASSUME p = PrefixOf[c], Answered(p, c, r)
        PROVE  Simulated(p)
    <3>1. Batches(p)[c] = nil
      BY <1>2, <2>2 DEF Batches, Answered
    <3>. QED
      BY <2>1, <2>2, <3>1, AnswersSimulate
  <2>. QED
    BY <1>2, <2>1, <2>2, AnswerSimulates
<1>. QED
  BY <1>1, <1>2, Refusals

LEMMA ReadSimulates ==
  ASSUME Inv, NEW c \in Client, NEW k \in KeyArg, Get(c, k) \/ Has(c, k), NEW p
  PROVE  Simulated(p)
<1>1. CASE k = EmptyKey
  BY <1>1, ErrorSimulates DEF Get, Has
<1>2. CASE k # EmptyKey
  <2>1. k \in Key
    BY <1>2 DEF KeyArg
  <2>2. PICK r, s : /\ s = store[prefixed(c, k)] /\ Answer(c, r)
                    /\ \/ r = Result("get", k, IF s = Absent THEN nil ELSE s)
                       \/ r = Result(IF s = Absent THEN "false" ELSE "true", k, nil)
    BY <1>2 DEF Get, Has
  <2>3. ASSUME p = PrefixOf[c], Answered(p, c, r)
        PROVE  Simulated(p)
    <3>1. Namespace(store, p)[k] = s
      BY <1>2, <2>2, <2>3 DEF Namespace, prefixed
    <3>2. \/ r = Result("get", k, IF Namespace(store, p)[k] = Absent THEN nil
                                  ELSE Namespace(store, p)[k])
          \/ r = Result(IF Namespace(store, p)[k] = Absent THEN "false" ELSE "true", k, nil)
      BY <2>2, <3>1
    <3>. QED
      BY <2>1, <2>3, <3>2, AnswersSimulate
  <2>. QED
    BY <2>2, <2>3, AnswerSimulates
<1>. QED
  BY <1>1, <1>2

LEMMA PutSimulates ==
  ASSUME Inv, Separated, NEW c \in Client, NEW k \in Key, NEW v \in Value \cup {Absent},
         Put(c, k, v), NEW p \in Prefixes
  PROVE  Simulated(p)
<1>1. /\ store' = [store EXCEPT ![PrefixOf[c] \o k] = v]
      /\ ret' = [ret EXCEPT ![c] = Result("set", k, v)] /\ batch' = batch /\ UNCHANGED iterVars
  BY DEF Put, Reply, prefixed
<1>2. /\ ret \in [Client -> Results] /\ store \in Contents
      /\ PrefixOf[c] \in Prefixes /\ PrefixOf[c] \o k \in Stored
  BY KeyFacts, InStored DEF Inv, Types, Results, Contents
<1>3. IterSame(p) /\ Batches(p)' = Batches(p)
  BY <1>1, IterFrame, BatchFrame
<1>4. CASE p = PrefixOf[c]
  <2>1. c \in Users(p) /\ Replies(p)' = [Replies(p) EXCEPT ![c] = Result("set", k, v)]
    BY <1>1, <1>2, <1>4, RepliesStep
  <2>2. Namespace(store', p) = [Namespace(store, p) EXCEPT ![k] = v]
    <3>1. IsPutIn(store, p, k, v)
      BY <1>2, NamespacePut
    <3>2. store' = [store EXCEPT ![p \o k] = v]
      BY <1>1, <1>4
    <3>. QED
      BY <3>1, <3>2 DEF IsPutIn
  <2>3. KV(p)!Reply(c, KV(p)!Result("set", k, v))
    <3>1. Result("set", k, v) = KV(p)!Result("set", k, v)
      BY DEF KV!Result, Result
    <3>. QED
      BY <2>1, <3>1 DEF KV!Reply
  <2>4. KV(p)!Put(c, k, v)
    BY <1>3, <2>2, <2>3 DEF KV!Put, KV!iterVars, IterSame
  <2>. QED
    BY <2>1, <2>4 DEF Simulated, KV!DBNext
<1>5. CASE p # PrefixOf[c]
  <2>1. Replies(p)' = Replies(p)
    BY <1>1, <1>2, <1>5, RepliesStep
  <2>2. store' \in Contents
    BY <1>1, <1>2 DEF Contents
  <2>3. \A k2 \in Key : store'[p \o k2] = store[p \o k2]
    <3>1. \A k2 \in Key : p \o k2 # PrefixOf[c] \o k /\ p \o k2 \in Stored
      BY <1>2, <1>5, OnePrefix, KeyFacts, InStored
    <3>. QED
      BY <1>1, <1>2, <3>1 DEF Contents
  <2>4. Namespace(store', p) = Namespace(store, p)
    BY <1>2, <2>2, <2>3, NamespaceElsewhere
  <2>. QED
    BY <1>3, <2>1, <2>4, Stutters
<1>. QED
  BY <1>4, <1>5

LEMMA ParentSimulates ==
  ASSUME Inv, Separated, NEW k \in ParentKey, NEW v \in Value \cup {Absent},
         ParentSet(k, v), NEW p \in Prefixes
  PROVE  Simulated(p)
<1>1. store' = [store EXCEPT ![k] = v] /\ batch' = batch /\ ret' = ret /\ UNCHANGED iterVars
  BY DEF ParentSet
<1>2. IterSame(p) /\ Batches(p)' = Batches(p) /\ Replies(p)' = Replies(p)
  BY <1>1, IterFrame, BatchFrame DEF Replies
<1>3. store \in Contents /\ store' \in Contents
  BY <1>1 DEF Inv, Types, Contents
<1>4. \A k2 \in Key : store'[p \o k2] = store[p \o k2]
  <2>1. \A k2 \in Key : p \o k2 # k /\ p \o k2 \in Stored
    BY ParentIsOutside, InStored
  <2>. QED
    BY <1>1, <1>3, <2>1 DEF Contents
<1>5. Namespace(store', p) = Namespace(store, p)
  BY <1>3, <1>4, NamespaceElsewhere
<1>. QED
  BY <1>2, <1>5, Stutters

LEMMA SeqFacts ==
  ASSUME NEW S, NEW s \in Seq(S)
  PROVE  /\ \A n \in DOMAIN s : s[n] \in S
         /\ \A T : S \subseteq T => s \in Seq(T)
BY SMT

(* What a call on a batch makes of the one that the namespace sees. *)
Edits(old, new, r) ==
  \/ new = <<>> /\ r = Status("new")
  \/ new = nil /\ r = Status("close")
  \/ /\ old # nil
     /\ \E op \in [key: Key, value: Value \cup {Absent}] :
          new = Append(old, op) /\ r = Result("append", op.key, op.value)

LEMMA EditSimulates ==
  ASSUME Inv, NEW c \in Client, NEW ops, NEW r, ChangeBatch(c, ops, r), NEW p,
         p = PrefixOf[c] => Edits(Batches(p)[c], Mapped(ops, p), r)
  PROVE  Simulated(p)
<1>1. /\ batch' = [batch EXCEPT ![c] = ops] /\ ret' = [ret EXCEPT ![c] = r]
      /\ store' = store /\ UNCHANGED iterVars
  BY DEF ChangeBatch, Reply
<1>2. ret \in [Client -> Results] /\ batch \in [Client -> Seq(Op) \cup {nil}]
  BY DEF Inv, Types, Results
<1>3. IterSame(p) /\ Namespace(store', p) = Namespace(store, p)
  BY <1>1, IterFrame
<1>4. CASE p = PrefixOf[c]
  <2>1. c \in Users(p) /\ Replies(p)' = [Replies(p) EXCEPT ![c] = r]
    BY <1>1, <1>2, <1>4, RepliesStep
  <2>2. PICK new : new = Mapped(ops, p)
    OBVIOUS
  <2>3. Batches(p)' = [Batches(p) EXCEPT ![c] = new]
    <3>1. IsSeen(c, ops, p)
      BY <1>1, <1>2, BatchesStep
    <3>. QED
      BY <1>4, <2>2, <3>1 DEF IsSeen
  <2>4. Edits(Batches(p)[c], new, r)
    BY <1>4, <2>2
  <2>5. KV(p)!Reply(c, r)
    BY <2>1 DEF KV!Reply
  <2>6. /\ Status("new") = KV(p)!Status("new") /\ Status("close") = KV(p)!Status("close")
        /\ \A k, v : Result("append", k, v) = KV(p)!Result("append", k, v)
    BY DEF KV!Result, Result, KV!Status, Status
  <2>7. \/ Batches(p)' = [Batches(p) EXCEPT ![c] = <<>>] /\ KV(p)!Reply(c, KV(p)!Status("new"))
        \/ Batches(p)' = [Batches(p) EXCEPT ![c] = nil] /\ KV(p)!Reply(c, KV(p)!Status("close"))
        \/ /\ Batches(p)[c] # nil
           /\ \E op \in [key: Key, value: Value \cup {Absent}] :
                /\ Batches(p)' = [Batches(p) EXCEPT ![c] = Append(@, op)]
                /\ KV(p)!Reply(c, KV(p)!Result("append", op.key, op.value))
    <3>1. CASE new = <<>> /\ r = Status("new")
      BY <2>3, <2>5, <2>6, <3>1
    <3>2. CASE new = nil /\ r = Status("close")
      BY <2>3, <2>5, <2>6, <3>2
    <3>3. ASSUME Batches(p)[c] # nil, NEW op \in [key: Key, value: Value \cup {Absent}],
                 new = Append(Batches(p)[c], op), r = Result("append", op.key, op.value)
          PROVE  /\ Batches(p)' = [Batches(p) EXCEPT ![c] = Append(@, op)]
                 /\ KV(p)!Reply(c, KV(p)!Result("append", op.key, op.value))
      <4>1. r = KV(p)!Result("append", op.key, op.value)
        BY <3>3, <2>6
      <4>. QED
        BY <2>3, <2>5, <3>3, <4>1
    <3>. QED
      BY <2>4, <3>1, <3>2, <3>3 DEF Edits
  <2>8. KV(p)!EditBatch(c)
    BY <1>3, <2>7 DEF KV!EditBatch, KV!iterVars, IterSame
  <2>. QED
    BY <2>1, <2>8 DEF Simulated, KV!DBNext
<1>5. CASE p # PrefixOf[c]
  <2>1. Replies(p)' = Replies(p)
    BY <1>1, <1>2, <1>5, RepliesStep
  <2>2. Batches(p)' = Batches(p)
    BY <1>1, <1>2, <1>5, BatchesStep DEF IsSeen
  <2>. QED
    BY <1>3, <2>1, <2>2, Stutters
<1>. QED
  BY <1>4, <1>5

LEMMA AppendSimulates ==
  ASSUME Inv, NEW c \in Client, NEW k \in Key, NEW v \in Value \cup {Absent}, AppendOp(c, k, v), NEW p
  PROVE  Simulated(p)
<1>1. CASE batch[c] = nil
  BY <1>1, ErrorSimulates DEF AppendOp
<1>2. CASE batch[c] # nil
  <2>1. PICK ops : ops = batch[c]
    OBVIOUS
  <2>2. PICK q : q = PrefixOf[c]
    OBVIOUS
  <2>3. ChangeBatch(c, Append(ops, [key |-> q \o k, value |-> v]), Result("append", k, v))
    BY <1>2, <2>1, <2>2 DEF AppendOp, prefixed
  <2>4. ops \in Seq(Op) /\ AreOpsOf(c, ops)
    BY <1>2, <2>1 DEF Inv, Types, AreOpsOf
  <2>5. PICK new : new = Append(ops, [key |-> q \o k, value |-> v])
    OBVIOUS
  <2>6. new # nil
    <3>1. q \o k \in Bytes
      BY <2>2, KeyFacts, ConcatFacts
    <3>2. ops \in Seq([key: Bytes, value: Value \cup {Absent}])
      <4>1. Op \subseteq [key: Bytes, value: Value \cup {Absent}]
        BY StoredAreBytes, SMT DEF Op
      <4>. QED
        BY <2>4, <4>1, SeqFacts
    <3>3. new \in Seq([key: Bytes, value: Value \cup {Absent}])
      BY <2>5, <3>1, <3>2, SMT
    <3>. QED
      BY <3>3, PrefixAssumption
  <2>7. ASSUME p = PrefixOf[c]
        PROVE  Edits(Batches(p)[c], Mapped(new, p), Result("append", k, v))
    <3>1. PICK old : old = StripOps(ops, q)
      OBVIOUS
    <3>2. IsStripped(ops, q, old)
      BY <2>2, <2>4, <3>1, StripOpsFacts
    <3>3. Batches(p)[c] = old /\ old # nil
      BY <1>2, <2>1, <2>2, <2>7, <3>1, <3>2 DEF Batches, Users, IsStripped
    <3>4. StripOps(Append(ops, [key |-> q \o k, value |-> v]), q)
            = Append(StripOps(ops, q), [key |-> k, value |-> v])
      BY <2>2, <2>4, StripAppend
    <3>5. PICK op : op = [key |-> k, value |-> v]
      OBVIOUS
    <3>6. Mapped(new, p) = Append(old, op)
      BY <2>2, <2>5, <2>6, <2>7, <3>1, <3>4, <3>5 DEF Mapped
    <3>7. op \in [key: Key, value: Value \cup {Absent}] /\ op.key = k /\ op.value = v
      BY <3>5, SMT
    <3>. QED
      BY <3>3, <3>6, <3>7 DEF Edits
  <2>8. ChangeBatch(c, new, Result("append", k, v))
    BY <2>3, <2>5
  <2>. QED
    BY <2>7, <2>8, EditSimulates
<1>. QED
  BY <1>1, <1>2

LEMMA BatchWriteSimulates ==
  ASSUME Inv, Separated, NEW c \in Client, BatchWrite(c), NEW p \in Prefixes
  PROVE  Simulated(p)
<1>1. CASE batch[c] = nil
  BY <1>1, ErrorSimulates DEF BatchWrite
<1>2. CASE batch[c] # nil
  <2>1. PICK ops : ops = batch[c]
    OBVIOUS
  <2>2. /\ store' = AfterOps(store, ops) /\ batch' = [batch EXCEPT ![c] = nil]
        /\ ret' = [ret EXCEPT ![c] = Status("write")] /\ UNCHANGED iterVars
    BY <1>2, <2>1 DEF BatchWrite, Reply
  <2>3. /\ ops \in Seq(Op) /\ AreOpsOf(c, ops) /\ store \in Contents /\ ret \in [Client -> Results]
        /\ batch \in [Client -> Seq(Op) \cup {nil}]
    BY <1>2, <2>1 DEF Inv, Types, AreOpsOf, Contents, Results
  <2>4. IterSame(p)
    BY <2>2, IterFrame
  <2>5. CASE p = PrefixOf[c]
    <3>1. c \in Users(p) /\ Replies(p)' = [Replies(p) EXCEPT ![c] = Status("write")]
      BY <2>2, <2>3, <2>5, RepliesStep
    <3>2. Batches(p)' = [Batches(p) EXCEPT ![c] = nil]
      <4>1. IsSeen(c, nil, p)
        BY <2>2, <2>3, BatchesStep
      <4>. QED
        BY <2>5, <4>1 DEF IsSeen, Mapped
    <3>3. PICK t : t = StripOps(ops, p)
      OBVIOUS
    <3>4. IsStripped(ops, p, t)
      BY <2>3, <2>5, <3>3, StripOpsFacts
    <3>5. Batches(p)[c] = t /\ t # nil
      BY <1>2, <2>1, <2>5, <3>3, <3>4 DEF Batches, Users, IsStripped
    <3>6. KV(p)!AreValid(t)
      <4>1. \A n \in DOMAIN t : t[n] \in [key: Key, value: Value \cup {Absent}]
        BY <3>4, SeqFacts DEF IsStripped
      <4>2. \A n \in DOMAIN t : t[n].key \in Key /\ t[n].value \in Value \cup {Absent}
        BY <4>1, SMT
      <4>. QED
        BY <4>2 DEF KV!AreValid
    <3>7. Namespace(AfterOps(store, ops), p) = AfterOps(Namespace(store, p), StripOps(ops, p))
      BY <2>3, <2>5, NamespaceAfterOps
    <3>8. KV(p)!AfterOps(Namespace(store, p), t) = AfterOps(Namespace(store, p), t)
      BY DEF KV!AfterOps, AfterOps
    <3>9. Namespace(store', p) = KV(p)!AfterOps(Namespace(store, p), t)
      BY <2>2, <3>3, <3>7, <3>8
    <3>10. KV(p)!Reply(c, KV(p)!Status("write"))
      BY <3>1 DEF KV!Reply, KV!Status, KV!Result, Status, Result
    <3>11. KV(p)!WriteBatch(c)
      BY <2>4, <3>2, <3>5, <3>6, <3>9, <3>10 DEF KV!WriteBatch, KV!iterVars, IterSame
    <3>. QED
      BY <3>1, <3>11 DEF Simulated, KV!DBNext
  <2>6. CASE p # PrefixOf[c]
    <3>1. Replies(p)' = Replies(p) /\ Batches(p)' = Batches(p)
      <4>1. IsSeen(c, nil, p)
        BY <2>2, <2>3, BatchesStep
      <4>. QED
        BY <2>2, <2>3, <2>6, <4>1, RepliesStep DEF IsSeen
    <3>2. Namespace(AfterOps(store, ops), p) = Namespace(store, p)
      BY <2>3, <2>6, NamespaceAfterOthers
    <3>. QED
      BY <2>2, <2>4, <3>1, <3>2, Stutters
  <2>. QED
    BY <2>5, <2>6
<1>. QED
  BY <1>1, <1>2

(* What an iterator has yet to show to the namespace of p. *)
RestOf(p, o, q, src, v) == IF o \in Users(p) /\ v THEN Keys(q, src, p) ELSE {}

LEMMA RestsAre ==
  ASSUME NEW p
  PROVE  /\ Rests(p) = [j \in Iter |-> RestOf(p, owner[j], query[j], source[j], valid[j])]
         /\ Rests(p)' = [j \in Iter |-> RestOf(p, owner'[j], query'[j], source'[j], valid'[j])]
BY DEF Rests, RestOf, Keys, Shows, ToShow, Uses

(* A step that changes at most iterator i. *)
OnlyIter(i) ==
  \A j \in Iter \ {i} : /\ owner'[j] = owner[j] /\ query'[j] = query[j] /\ source'[j] = source[j]
                        /\ valid'[j] = valid[j] /\ err'[j] = err[j] /\ view'[j] = view[j]
                        /\ closed'[j] = closed[j]

Leaves(p, i, r) == Rests(p)' = [Rests(p) EXCEPT ![i] = r]

LEMMA RestsStep ==
  ASSUME NEW i \in Iter, OnlyIter(i), NEW p, NEW r,
         r = RestOf(p, owner'[i], query'[i], source'[i], valid'[i])
  PROVE  Leaves(p, i, r)
<1>1. /\ Rests(p) = [j \in Iter |-> RestOf(p, owner[j], query[j], source[j], valid[j])]
      /\ Rests(p)' = [j \in Iter |-> RestOf(p, owner'[j], query'[j], source'[j], valid'[j])]
  BY RestsAre
<1>2. \A j \in Iter : RestOf(p, owner'[j], query'[j], source'[j], valid'[j])
                        = IF j = i THEN r ELSE RestOf(p, owner[j], query[j], source[j], valid[j])
  BY DEF OnlyIter
<1>3. Rests(p)' = [j \in Iter |-> IF j = i THEN r
                                  ELSE RestOf(p, owner[j], query[j], source[j], valid[j])]
  BY <1>1, <1>2
<1>. QED
  BY <1>1, <1>3 DEF Leaves

(* An iterator of another namespace is not seen. *)
LEMMA ForeignIterator ==
  ASSUME NEW i \in Iter, OnlyIter(i), NEW p, owner[i] \notin Users(p), owner'[i] \notin Users(p)
  PROVE  IterSame(p)
<1>1. Rests(p)' = Rests(p)
  <2>1. \A j \in Iter : RestOf(p, owner'[j], query'[j], source'[j], valid'[j])
                          = RestOf(p, owner[j], query[j], source[j], valid[j])
    BY DEF OnlyIter, RestOf
  <2>2. /\ Rests(p) = [j \in Iter |-> RestOf(p, owner[j], query[j], source[j], valid[j])]
        /\ Rests(p)' = [j \in Iter |-> RestOf(p, owner'[j], query'[j], source'[j], valid'[j])]
    BY RestsAre
  <2>. QED
    BY <2>1, <2>2
<1>2. \A j \in Iter : /\ Uses(j, p)' <=> Uses(j, p)
                      /\ Uses(j, p) => /\ owner'[j] = owner[j] /\ query'[j] = query[j]
                                       /\ err'[j] = err[j] /\ view'[j] = view[j]
                                       /\ closed'[j] = closed[j]
  BY DEF OnlyIter, Uses
<1>3. Owners(p)' = Owners(p) /\ Asked(p)' = Asked(p)
  BY <1>2 DEF Owners, Asked
<1>4. Views(p)' = Views(p)
  BY <1>2 DEF Views
<1>5. Failures(p)' = Failures(p) /\ Closings(p)' = Closings(p)
  BY <1>2 DEF Failures, Closings
<1>. QED
  BY <1>1, <1>3, <1>4, <1>5 DEF IterSame

HasSettled(i, q, s, p) ==
  /\ \A j \in Iter \ {i} : source'[j] = source[j] /\ valid'[j] = valid[j]
  /\ source'[i] = s /\ valid'[i] = StandsOnPrefixed(q, s, p)

LEMMA SettleOnly ==
  ASSUME Inv, NEW i \in Iter, NEW q, NEW src, NEW p, Settle(i, q, src, p)
  PROVE  HasSettled(i, q, SkipPrefix(q, src, p), p)
BY DEF Settle, Inv, Types, HasSettled

(* Settling does not change what is to be shown. *)
StillShows(p, c, q, src, i) == RestOf(p, c, q, source'[i], valid'[i]) = Keys(q, src, p)

LEMMA Settled ==
  ASSUME Inv, NEW i \in Iter, NEW c \in Client, NEW q, NEW src, src \subseteq Stored,
         IsFiniteSet(src), NEW p, p = PrefixOf[c], Settle(i, q, src, p)
  PROVE  StillShows(p, c, q, src, i)
<1>1. PICK s : s = SkipPrefix(q, src, p)
  OBVIOUS
<1>2. source'[i] = s /\ valid'[i] = StandsOnPrefixed(q, s, p)
  <2>1. HasSettled(i, q, SkipPrefix(q, src, p), p)
    BY SettleOnly
  <2>. QED
    BY <1>1, <2>1 DEF HasSettled
<1>3. p \in Bytes /\ c \in Users(p) /\ src \subseteq Bytes
  BY KeyFacts, StoredAreBytes DEF Users
<1>4. s \subseteq src /\ IsFiniteSet(s)
  BY <1>1, <1>3, SkipFacts
<1>5. Shows(q, s, p) = Shows(q, src, p)
  BY <1>1, <1>3, ShowsAfterSkip
<1>6. Keys(q, s, p) = Keys(q, src, p)
  BY <1>5 DEF Keys
<1>7. CASE StandsOnPrefixed(q, s, p)
  BY <1>2, <1>3, <1>6, <1>7 DEF RestOf, StillShows
<1>8. CASE ~StandsOnPrefixed(q, s, p)
  <2>1. s \subseteq Bytes
    BY <1>3, <1>4
  <2>2. Shows(q, s, p) = {}
    BY <1>4, <1>8, <2>1, ShowsNothing
  <2>3. Keys(q, src, p) = {}
    BY <1>5, <2>2 DEF Keys
  <2>. QED
    BY <1>2, <1>3, <1>8, <2>3 DEF RestOf, StillShows
<1>. QED
  BY <1>7, <1>8

LEMMA OpenSimulates ==
  ASSUME Inv, NoReverseCarry, NEW c \in Client, NEW i \in Iter, NEW q \in Query[c],
         EmptyKey \notin {q.start, q.end}, Open(c, i, q), NEW p
  PROVE  Simulated(p)
<1>1. PICK o : o = PrefixOf[c]
  OBVIOUS
<1>2. PICK src : src = ParentDomain(q, o)
  OBVIOUS
<1>3. /\ owner[i] = NoOne /\ owner' = [owner EXCEPT ![i] = c]
      /\ query' = [query EXCEPT ![i] = q] /\ view' = [view EXCEPT ![i] = store]
      /\ Settle(i, q, src, o) /\ UNCHANGED <<store, batch, ret, closed, err>>
  BY <1>1, <1>2 DEF Open, ParentDomain
<1>4. /\ owner \in [Iter -> Client \cup {NoOne}] /\ query \in [Iter -> Queries]
      /\ view \in [Iter -> Contents] /\ store \in Contents /\ NoOne \notin Client
      /\ err = [j \in Iter |-> FALSE]
  BY PrefixAssumption DEF Inv, Types, Contents, StandsInv
<1>5. OnlyIter(i) /\ owner'[i] = c /\ query'[i] = q /\ view'[i] = store
  <2>1. HasSettled(i, q, SkipPrefix(q, src, o), o)
    BY <1>3, SettleOnly
  <2>. QED
    BY <1>3, <1>4, <2>1 DEF OnlyIter, HasSettled
<1>6. owner[i] \notin Users(p)
  BY <1>3, <1>4 DEF Users
<1>7. Namespace(store', p) = Namespace(store, p) /\ Batches(p)' = Batches(p) /\ Replies(p)' = Replies(p)
  BY <1>3, BatchFrame DEF Replies
<1>8. CASE p # o
  <2>1. owner'[i] \notin Users(p)
    BY <1>1, <1>5, <1>8 DEF Users
  <2>2. IterSame(p)
    BY <1>5, <1>6, <2>1, ForeignIterator
  <2>. QED
    BY <1>7, <2>2, Stutters
<1>9. CASE p = o
  <2>1. c \in Users(p) /\ q \in UNION {Query[d] : d \in Users(p)}
    BY <1>1, <1>9 DEF Users
  <2>2. src \subseteq Stored /\ IsFiniteSet(src)
    <3>1. src \subseteq Held(store)
      BY <1>2 DEF ParentDomain, Domain, Held
    <3>. QED
      BY <3>1, FS_Subset DEF Inv, Held
  <2>3. PICK r : r = Keys(q, src, p)
    OBVIOUS
  <2>4. r = RestOf(p, owner'[i], query'[i], source'[i], valid'[i])
    <3>1. Settle(i, q, src, p) /\ p = PrefixOf[c]
      BY <1>1, <1>3, <1>9
    <3>2. StillShows(p, c, q, src, i)
      BY <2>2, <3>1, Settled
    <3>. QED
      BY <1>5, <2>3, <3>2 DEF StillShows
  <2>5. Rests(p)' = [Rests(p) EXCEPT ![i] = r]
    <3>1. Leaves(p, i, r)
      BY <1>5, <2>4, RestsStep
    <3>. QED
      BY <3>1 DEF Leaves
  <2>6. r = {k \in Key : KV(p)!InRange(q, k) /\ Namespace(store, p)[k] # Absent}
    <3>1. ShowsDomain(q, p)
      BY <1>1, <1>4, <1>9, KeysOfDomain
    <3>. QED
      BY <1>2, <1>9, <2>3, <3>1 DEF ShowsDomain
  <2>7. Owners(p)[i] = NoOne /\ Owners(p)' = [Owners(p) EXCEPT ![i] = c]
    <3>1. \A j \in Iter : (IF Uses(j, p)' THEN owner'[j] ELSE NoOne)
                            = IF j = i THEN c ELSE IF Uses(j, p) THEN owner[j] ELSE NoOne
      BY <1>5, <2>1 DEF Uses, OnlyIter
    <3>. QED
      BY <1>6, <3>1 DEF Owners, Uses
  <2>8. Asked(p)' = [Asked(p) EXCEPT ![i] = q]
    <3>1. \A j \in Iter : (IF Uses(j, p)' THEN query'[j] ELSE NoQuery)
                            = IF j = i THEN q ELSE IF Uses(j, p) THEN query[j] ELSE NoQuery
      BY <1>5, <2>1 DEF Uses, OnlyIter
    <3>. QED
      BY <3>1 DEF Asked
  <2>9. Views(p)' = [Views(p) EXCEPT ![i] = Namespace(store, p)]
    <3>1. PICK n, none : n = Namespace(store, p) /\ none = [k \in KeyArg |-> Absent]
      OBVIOUS
    <3>2. \A j \in Iter : (IF Uses(j, p)' THEN Namespace(view'[j], p) ELSE none)
                            = IF j = i THEN n ELSE IF Uses(j, p) THEN Namespace(view[j], p) ELSE none
      BY <1>5, <2>1, <3>1 DEF Uses, OnlyIter
    <3>3. /\ Views(p) = [j \in Iter |-> IF Uses(j, p) THEN Namespace(view[j], p) ELSE none]
          /\ Views(p)' = [j \in Iter |-> IF Uses(j, p)' THEN Namespace(view'[j], p) ELSE none]
      BY <3>1 DEF Views
    <3>4. Views(p)' = [j \in Iter |-> IF j = i THEN n
                                      ELSE IF Uses(j, p) THEN Namespace(view[j], p) ELSE none]
      BY <3>2, <3>3
    <3>5. [Views(p) EXCEPT ![i] = n]
            = [j \in Iter |-> IF j = i THEN n
                              ELSE IF Uses(j, p) THEN Namespace(view[j], p) ELSE none]
      BY <3>3
    <3>. QED
      BY <3>1, <3>4, <3>5
  <2>10. Failures(p)' = Failures(p)
    <3>1. \A j \in Iter : (Uses(j, p)' /\ err'[j]) = FALSE /\ (Uses(j, p) /\ err[j]) = FALSE
      BY <1>3, <1>4
    <3>. QED
      BY <3>1 DEF Failures
  <2>11. Closings(p)' = Closings(p)
    <3>1. ~closed[i]
      BY <1>3 DEF Inv
    <3>2. \A j \in Iter : (Uses(j, p)' /\ closed'[j]) = (Uses(j, p) /\ closed[j])
      BY <1>3, <1>5, <3>1 DEF Uses, OnlyIter
    <3>. QED
      BY <3>2 DEF Closings
  <2>12. KV(p)!OpenIterator(c, i, q)
    BY <1>7, <2>5, <2>6, <2>7, <2>8, <2>9, <2>10, <2>11 DEF KV!OpenIterator
  <2>. QED
    BY <2>1, <2>12 DEF Simulated, KV!DBNext
<1>. QED
  BY <1>8, <1>9

(* An iterator of p, and one that is not valid. *)
IsSeenAs(c, i, p) ==
  /\ c \in Users(p) /\ Owners(p)[i] = c /\ Asked(p)[i] = query[i]
  /\ Views(p)[i] = Namespace(view[i], p)
  /\ valid[i] => Rests(p)[i] = Keys(query[i], source[i], p)
  /\ ~valid[i] => Rests(p)[i] = {}

LEMMA IterFacts ==
  ASSUME NEW c \in Client, NEW i \in Iter, owner[i] = c, NEW p, p = PrefixOf[c]
  PROVE  IsSeenAs(c, i, p)
<1>1. c \in Users(p) /\ Uses(i, p)
  BY DEF Users, Uses
<1>2. Rests(p)[i] = RestOf(p, owner[i], query[i], source[i], valid[i])
  BY DEF Rests, RestOf, Keys, Shows, ToShow, Uses
<1>. QED
  BY <1>1, <1>2 DEF Owners, Asked, Views, RestOf, IsSeenAs

LEMMA InvalidShowsNothing ==
  ASSUME Inv, NEW c \in Client, NEW i \in Iter, owner[i] = c, ~Valid(i), NEW p, p = PrefixOf[c]
  PROVE  Rests(p)[i] = {}
<1>0. IsSeenAs(c, i, p)
  BY IterFacts
<1>1. CASE ~valid[i]
  BY <1>0, <1>1 DEF IsSeenAs
<1>2. CASE valid[i]
  <2>1. source[i] = {}
    BY <1>2 DEF Inv, StandsInv, Valid
  <2>2. Keys(query[i], source[i], p) = {}
    BY <2>1 DEF Keys, Shows
  <2>. QED
    BY <1>0, <1>2, <2>2 DEF IsSeenAs
<1>. QED
  BY <1>1, <1>2

LEMMA AdvanceSimulates ==
  ASSUME Inv, NEW c \in Client, NEW i \in Iter, owner[i] = c, Valid(i),
         Settle(i, query[i], source[i] \ {SourceKey(query[i], source[i])}, Prefix(i)),
         UNCHANGED <<store, batch, ret, owner, query, closed, err, view>>, NEW p
  PROVE  Simulated(p)
<1>1. PICK o : o = PrefixOf[c]
  OBVIOUS
<1>2. PICK k : k = SourceKey(query[i], source[i])
  OBVIOUS
<1>3. PICK src : src = source[i] \ {k}
  OBVIOUS
<1>4. Settle(i, query[i], src, o)
  BY <1>1, <1>2, <1>3 DEF Prefix
<1>5. /\ k \in Stored /\ IsFirst(query[i], source[i], k)
      /\ HasPrefix(k, PrefixOf[c]) /\ Strip(k, PrefixOf[c]) \in Key
  BY <1>2, ValidFacts
<1>6. OnlyIter(i)
  <2>1. HasSettled(i, query[i], SkipPrefix(query[i], src, o), o)
    BY <1>4, SettleOnly
  <2>. QED
    BY <2>1 DEF OnlyIter, HasSettled
<1>7. Namespace(store', p) = Namespace(store, p) /\ Batches(p)' = Batches(p) /\ Replies(p)' = Replies(p)
  BY BatchFrame DEF Replies
<1>8. CASE p # o
  <2>1. owner[i] \notin Users(p) /\ owner'[i] \notin Users(p)
    BY <1>1, <1>8 DEF Users
  <2>2. IterSame(p)
    BY <1>6, <2>1, ForeignIterator
  <2>. QED
    BY <1>7, <2>2, Stutters
<1>9. CASE p = o
  <2>1. p = PrefixOf[c] /\ p \in Bytes
    BY <1>1, <1>9, KeyFacts
  <2>2. source[i] \subseteq Stored /\ source[i] \subseteq Bytes /\ IsFiniteSet(source[i])
    BY StoredAreBytes DEF Inv, Types
  <2>3. src \subseteq Stored /\ IsFiniteSet(src)
    BY <1>3, <2>2, FS_Subset
  <2>4. /\ c \in Users(p) /\ Owners(p)[i] = c /\ Asked(p)[i] = query[i]
        /\ Rests(p)[i] = Keys(query[i], source[i], p)
    <3>1. IsSeenAs(c, i, p)
      BY <2>1, IterFacts
    <3>. QED
      BY <3>1 DEF IsSeenAs, Valid
  <2>5. k # p
    BY <1>2, <2>1 DEF Valid, Inv, Prefix, StandsOnPrefixed
  <2>6. PICK f : f = Strip(k, p)
    OBVIOUS
  <2>7. /\ Keys(query[i], source[i], p) # {}
        /\ Keys(query[i], source[i] \ {k}, p) = Keys(query[i], source[i], p) \ {Strip(k, p)}
        /\ KV(p)!First(query[i], Keys(query[i], source[i], p)) = Strip(k, p)
    <3>1. IsFirst(query[i], source[i], k) /\ HasPrefix(k, p)
      BY <1>5, <2>1
    <3>2. StartsWith(query[i], source[i], p, k)
      BY <2>1, <2>2, <2>5, <3>1, KeysFirst
    <3>. QED
      BY <3>2 DEF StartsWith
  <2>8. PICK r : r = Keys(query[i], src, p)
    OBVIOUS
  <2>9. r = Rests(p)[i] \ {KV(p)!First(Asked(p)[i], Rests(p)[i])} /\ Rests(p)[i] # {}
    BY <1>3, <2>4, <2>7, <2>8
  <2>10. r = RestOf(p, owner'[i], query'[i], source'[i], valid'[i])
    <3>1. Settle(i, query[i], src, p)
      BY <1>4, <1>9
    <3>2. StillShows(p, c, query[i], src, i)
      BY <2>1, <2>3, <3>1, Settled
    <3>. QED
      BY <2>8, <3>2 DEF StillShows
  <2>11. Rests(p)' = [Rests(p) EXCEPT ![i] = r]
    <3>1. Leaves(p, i, r)
      BY <1>6, <2>10, RestsStep
    <3>. QED
      BY <3>1 DEF Leaves
  <2>12. Rests(p)' = [Rests(p) EXCEPT ![i] = Rests(p)[i] \ {KV(p)!First(Asked(p)[i], Rests(p)[i])}]
    BY <2>9, <2>11
  <2>13. /\ Owners(p)' = Owners(p) /\ Asked(p)' = Asked(p) /\ Views(p)' = Views(p)
         /\ Failures(p)' = Failures(p) /\ Closings(p)' = Closings(p)
    BY DEF Owners, Asked, Views, Failures, Closings, Uses
  <2>14. KV(p)!Advance(c, i)
    BY <1>7, <2>4, <2>9, <2>12, <2>13 DEF KV!Advance
  <2>. QED
    BY <2>4, <2>14 DEF Simulated, KV!DBNext
<1>. QED
  BY <1>8, <1>9

LEMMA PanicSimulates ==
  ASSUME Inv, NEW c \in Client, NEW i \in Iter, owner[i] = c, Panic(c, i), NEW p
  PROVE  Simulated(p)
<1>1. UNCHANGED iterVars
  BY NoError DEF Panic, Inv, iterVars
<1>2. PICK r : r = Status("panic")
  OBVIOUS
<1>3. Answer(c, r)
  BY <1>1, <1>2 DEF Panic, Answer
<1>4. ASSUME p = PrefixOf[c], Answered(p, c, r)
      PROVE  Simulated(p)
  <2>1. Rests(p)[i] = {}
    BY <1>4, InvalidShowsNothing DEF Panic
  <2>2. Owners(p)[i] = c
    <3>1. IsSeenAs(c, i, p)
      BY <1>4, IterFacts
    <3>. QED
      BY <3>1 DEF IsSeenAs
  <2>. QED
    BY <1>2, <1>4, <2>1, <2>2, AnswersSimulate
<1>. QED
  BY <1>3, <1>4, AnswerSimulates

LEMMA ItemSimulates ==
  ASSUME Inv, NEW c \in Client, NEW i \in Iter, owner[i] = c, Valid(i),
         NEW k, k = SourceKey(query[i], source[i]),
         Answer(c, Result("item", Strip(k, Prefix(i)), view[i][k])), NEW p
  PROVE  Simulated(p)
<1>1. PICK x, r : x = Strip(k, PrefixOf[c]) /\ r = Result("item", x, view[i][k])
  OBVIOUS
<1>2. Answer(c, r)
  BY <1>1 DEF Prefix
<1>3. /\ k \in Stored /\ IsFirst(query[i], source[i], k)
      /\ HasPrefix(k, PrefixOf[c]) /\ x \in Key
  BY <1>1, ValidFacts
<1>4. ASSUME p = PrefixOf[c], Answered(p, c, r)
      PROVE  Simulated(p)
  <2>1. p \in Prefixes /\ p \in Bytes
    BY <1>4, KeyFacts
  <2>2. source[i] \subseteq Bytes /\ view[i] \in Contents
    BY StoredAreBytes DEF Inv, Types, Contents
  <2>3. k # p
    BY <1>4 DEF Valid, Inv, Prefix, StandsOnPrefixed
  <2>4. /\ Owners(p)[i] = c /\ Asked(p)[i] = query[i] /\ Views(p)[i] = Namespace(view[i], p)
        /\ Rests(p)[i] = Keys(query[i], source[i], p)
    <3>1. IsSeenAs(c, i, p)
      BY <1>4, IterFacts
    <3>. QED
      BY <3>1 DEF IsSeenAs, Valid
  <2>5. /\ Keys(query[i], source[i], p) # {}
        /\ KV(p)!First(query[i], Keys(query[i], source[i], p)) = Strip(k, p)
    <3>1. IsFirst(query[i], source[i], k) /\ HasPrefix(k, p)
      BY <1>3, <1>4
    <3>2. StartsWith(query[i], source[i], p, k)
      BY <2>1, <2>2, <2>3, <3>1, KeysFirst
    <3>. QED
      BY <3>2 DEF StartsWith
  <2>6. Rests(p)[i] # {} /\ x = KV(p)!First(Asked(p)[i], Rests(p)[i])
    BY <1>1, <1>4, <2>4, <2>5
  <2>7. Views(p)[i][x] = view[i][k]
    <3>1. p \o x = k
      BY <1>1, <1>3, <1>4, <2>1, <2>3, StrippedKey
    <3>2. Namespace(view[i], p)[x] = view[i][p \o x]
      BY <1>3, <2>1, <2>2, NamespaceFacts
    <3>. QED
      BY <2>4, <3>1, <3>2
  <2>8. r = Result("item", x, Views(p)[i][x])
    BY <1>1, <2>7
  <2>. QED
    BY <1>4, <2>4, <2>6, <2>8, AnswersSimulate
<1>. QED
  BY <1>2, <1>4, AnswerSimulates

LEMMA CloseSimulates ==
  ASSUME Inv, NEW c \in Client, NEW i \in Iter, Close(c, i), NEW p
  PROVE  Simulated(p)
<1>1. /\ owner[i] = c
      /\ source' = [source EXCEPT ![i] = {}] /\ closed' = [closed EXCEPT ![i] = TRUE]
      /\ UNCHANGED <<store, batch, ret, owner, query, valid, err, view>>
  BY DEF Close
<1>2. source \in [Iter -> SUBSET Stored] /\ closed \in [Iter -> BOOLEAN]
  BY DEF Inv, Types
<1>3. OnlyIter(i) /\ source'[i] = {}
  BY <1>1, <1>2 DEF OnlyIter
<1>4. Namespace(store', p) = Namespace(store, p) /\ Batches(p)' = Batches(p) /\ Replies(p)' = Replies(p)
  BY <1>1, BatchFrame DEF Replies
<1>5. CASE p # PrefixOf[c]
  <2>1. owner[i] \notin Users(p) /\ owner'[i] \notin Users(p)
    BY <1>1, <1>5 DEF Users
  <2>2. IterSame(p)
    BY <1>3, <2>1, ForeignIterator
  <2>. QED
    BY <1>4, <2>2, Stutters
<1>6. CASE p = PrefixOf[c]
  <2>1. c \in Users(p) /\ Owners(p)[i] = c
    <3>1. IsSeenAs(c, i, p)
      BY <1>1, <1>6, IterFacts
    <3>. QED
      BY <3>1 DEF IsSeenAs
  <2>2. PICK r : r = {}
    OBVIOUS
  <2>3. r = RestOf(p, owner'[i], query'[i], source'[i], valid'[i])
    BY <1>3, <2>2 DEF RestOf, Keys, Shows
  <2>4. Leaves(p, i, r)
    BY <1>3, <2>3, RestsStep
  <2>5. Rests(p)' = [Rests(p) EXCEPT ![i] = {}]
    BY <2>2, <2>4 DEF Leaves
  <2>6. Owners(p)' = Owners(p) /\ Asked(p)' = Asked(p) /\ Views(p)' = Views(p) /\ Failures(p)' = Failures(p)
    BY <1>1 DEF Owners, Asked, Views, Failures, Uses
  <2>7. Closings(p)' = [Closings(p) EXCEPT ![i] = TRUE]
    <3>1. \A j \in Iter : (Uses(j, p)' /\ closed'[j])
                            = IF j = i THEN TRUE ELSE (Uses(j, p) /\ closed[j])
      BY <1>1, <1>2, <1>6 DEF Uses, Users
    <3>2. Closings(p)' = [j \in Iter |-> IF j = i THEN TRUE ELSE (Uses(j, p) /\ closed[j])]
      BY <3>1 DEF Closings
    <3>. QED
      BY <3>2 DEF Closings
  <2>8. KV(p)!CloseIterator(c, i)
    BY <1>4, <2>1, <2>5, <2>6, <2>7 DEF KV!CloseIterator
  <2>. QED
    BY <2>1, <2>8 DEF Simulated, KV!DBNext
<1>. QED
  BY <1>5, <1>6

LEMMA IteratorSimulates ==
  ASSUME Inv, NoReverseCarry, NEW c \in Client, NEW i \in Iter,
         \/ \E q \in Query[c] : NewIterator(c, i, q)
         \/ CallValid(c, i) \/ IteratorNext(c, i) \/ ReadItem(c, i) \/ Close(c, i),
         NEW p
  PROVE  Simulated(p)
<1>1. ASSUME NEW q \in Query[c], NewIterator(c, i, q)
      PROVE  Simulated(p)
  BY <1>1, ErrorSimulates, OpenSimulates DEF NewIterator
<1>2. CASE CallValid(c, i)
  <2>1. err' = err
    BY <1>2, NoError DEF CallValid, Inv
  <2>2. UNCHANGED <<store, batch, ret, iterVars>>
    BY <1>2, <2>1 DEF CallValid, iterVars
  <2>3. /\ Namespace(store', p) = Namespace(store, p) /\ Batches(p)' = Batches(p)
        /\ IterSame(p) /\ Replies(p)' = Replies(p)
    BY <2>2, IterFrame, BatchFrame DEF Replies
  <2>. QED
    BY <2>3, Stutters
<1>3. CASE IteratorNext(c, i)
  BY <1>3, PanicSimulates, AdvanceSimulates DEF IteratorNext
<1>4. CASE ReadItem(c, i)
  <2>1. PICK k : k = SourceKey(query[i], source[i])
    OBVIOUS
  <2>2. /\ owner[i] = c
        /\ \/ Panic(c, i)
           \/ Valid(i) /\ Answer(c, Result("item", Strip(k, Prefix(i)), view[i][k]))
    BY <1>4, <2>1 DEF ReadItem
  <2>. QED
    BY <2>1, <2>2, PanicSimulates, ItemSimulates
<1>5. CASE Close(c, i)
  BY <1>5, CloseSimulates
<1>. QED
  BY <1>1, <1>2, <1>3, <1>4, <1>5

LEMMA CallSimulates ==
  ASSUME Inv, Separated, NoReverseCarry, NEW c \in Client, Call(c), NEW p \in Prefixes
  PROVE  Simulated(p)
<1>1. ASSUME NEW k \in KeyArg, Get(c, k) \/ Has(c, k)
      PROVE  Simulated(p)
  BY <1>1, ReadSimulates
<1>2. CASE Inspect(c)
  BY <1>2, ErrorSimulates DEF Inspect
<1>3. ASSUME NEW k \in KeyArg, Delete(c, k)
      PROVE  Simulated(p)
  BY <1>3, ErrorSimulates, PutSimulates DEF Delete, KeyArg
<1>4. ASSUME NEW k \in KeyArg, NEW v \in ValueArg, Set(c, k, v)
      PROVE  Simulated(p)
  BY <1>4, ErrorSimulates, PutSimulates DEF Set, KeyArg, ValueArg
<1>5. ASSUME NEW k \in KeyArg, BatchDelete(c, k)
      PROVE  Simulated(p)
  BY <1>5, ErrorSimulates, AppendSimulates DEF BatchDelete, KeyArg
<1>6. ASSUME NEW k \in KeyArg, NEW v \in ValueArg, BatchSet(c, k, v)
      PROVE  Simulated(p)
  BY <1>6, ErrorSimulates, AppendSimulates DEF BatchSet, KeyArg, ValueArg
<1>7. CASE NewBatch(c)
  <2>1. <<>> # nil
    <3>1. <<>> \in Seq([key: Bytes, value: Value \cup {Absent}])
      BY SMT
    <3>. QED
      BY <3>1, PrefixAssumption
  <2>2. DOMAIN <<>> = {}
    BY SMT
  <2>3. Mapped(<<>>, p) = <<>>
    <3>1. StripOps(<<>>, p) = [n \in {} |-> [<<>>[n] EXCEPT !.key = Strip(@, p)]]
      BY <2>2 DEF StripOps
    <3>2. StripOps(<<>>, p) = <<>>
      BY <3>1, SMT
    <3>. QED
      BY <2>1, <3>2 DEF Mapped
  <2>. QED
    BY <1>7, <2>3, EditSimulates DEF NewBatch, Edits
<1>8. CASE BatchClose(c)
  BY <1>8, EditSimulates DEF BatchClose, Edits, Mapped
<1>9. CASE BatchWrite(c)
  BY <1>9, BatchWriteSimulates
<1>10. ASSUME NEW i \in Iter,
              \/ \E q \in Query[c] : NewIterator(c, i, q)
              \/ CallValid(c, i) \/ IteratorNext(c, i) \/ ReadItem(c, i) \/ Close(c, i)
       PROVE  Simulated(p)
  BY <1>10, IteratorSimulates
<1>. QED
  BY <1>1, <1>2, <1>3, <1>4, <1>5, <1>6, <1>7, <1>8, <1>9, <1>10 DEF Call

LEMMA StepSimulates ==
  ASSUME Inv, Separated, NoReverseCarry, [Next]_vars, NEW p \in Prefixes
  PROVE  KV(p)!DBNext \/ UNCHANGED KV(p)!dbVars
<1>1. CASE UNCHANGED vars
  <2>1. UNCHANGED <<store, batch, ret, iterVars>>
    BY <1>1 DEF vars
  <2>2. /\ Namespace(store', p) = Namespace(store, p) /\ Batches(p)' = Batches(p)
        /\ IterSame(p) /\ Replies(p)' = Replies(p)
    BY <2>1, IterFrame, BatchFrame DEF Replies
  <2>. QED
    BY <2>2, Stutters DEF Simulated
<1>2. CASE Next
  BY <1>2, CallSimulates, ParentSimulates DEF Next, Simulated
<1>. QED
  BY <1>1, <1>2

LEMMA InitSimulates ==
  ASSUME Init, NEW p \in Prefixes
  PROVE  KV(p)!DBInit
<1>1. store \in Contents /\ NoOne \notin Users(p)
  BY PrefixAssumption DEF Init, Contents, Users
<1>2. /\ Namespace(store, p) \in [Key \cup {EmptyKey} -> Value \cup {Absent}]
      /\ Namespace(store, p)[EmptyKey] = Absent
  BY <1>1, NamespaceFacts
<1>3. \A i \in Iter : owner[i] = NoOne /\ ~Uses(i, p)
  BY <1>1 DEF Init, Uses
<1>4. Owners(p) = [i \in Iter |-> NoOne] /\ Asked(p) = [i \in Iter |-> NoQuery]
  BY <1>3 DEF Owners, Asked
<1>5. Rests(p) = [i \in Iter |-> {}]
  BY <1>3 DEF Rests
<1>6. Failures(p) = [i \in Iter |-> FALSE] /\ Closings(p) = [i \in Iter |-> FALSE]
  BY <1>3 DEF Failures, Closings
<1>7. Views(p) \in [Iter -> [Key \cup {EmptyKey} -> Value \cup {Absent}]]
  <2>1. PICK none : none = [k \in KeyArg |-> Absent]
    OBVIOUS
  <2>2. none \in [Key \cup {EmptyKey} -> Value \cup {Absent}]
    BY <2>1 DEF KeyArg
  <2>3. Views(p) = [i \in Iter |-> none]
    BY <1>3, <2>1 DEF Views
  <2>. QED
    BY <2>2, <2>3
<1>8. Batches(p) = [c \in Users(p) |-> nil]
  BY DEF Init, Batches, Users
<1>9. Replies(p) = [c \in Users(p) |-> KV(p)!Status("none")]
  BY DEF Init, Replies, Users, KV!Status, KV!Result, Status, Result
<1>. QED
  BY <1>2, <1>4, <1>5, <1>6, <1>7, <1>8, <1>9 DEF KV!DBInit

(* Every PrefixDB keeps the promises of types.go to its users, whatever the  *)
(* other users of the parent do, for any number of PrefixDBs with any        *)
(* prefixes and any keys: prefixing the keys of a call, and of the           *)
(* operations of a batch, touches the caller's namespace only; an iterator   *)
(* over the parent's domain from prefix+start to cpIncr(prefix) or           *)
(* prefix+end, which skips the prefix and stops at the first key without it, *)
(* shows exactly the namespace's domain, in order.  No prefix may extend     *)
(* another one, no one may write past a PrefixDB into its namespace, and no  *)
(* reverse iterator may start at a nil end where cpIncr carries.             *)
THEOREM Implements ==
  ASSUME Separated, NoReverseCarry
  PROVE  Spec => ImplementsKVStore
<1>1. Init => \A p \in Prefixes : KV(p)!DBInit
  BY InitSimulates
<1>2. Inv /\ [Next]_vars => [\A p \in Prefixes : KV(p)!DBNext \/ UNCHANGED KV(p)!dbVars]_vars
  BY StepSimulates
<1>. QED
  BY <1>1, <1>2, Invariant, PTL DEF Spec, ImplementsKVStore
=============================================================================
