----------------------------- MODULE OpsProofs -----------------------------
(***************************************************************************)
(* What a sequence of operations does: the last one on a key decides, and  *)
(* applying the operations one at a time comes to the same.                *)
(***************************************************************************)
EXTENDS Ops, FiniteSetTheorems, WellFoundedInduction, TLAPS

(* Leaves are tried with Zenon, and with SMT where they say so. *)
USE Zenon

-----------------------------------------------------------------------------
(* Every nonempty set of naturals has a least element, and a greatest one if *)
(* it is finite.                                                             *)
LEMMA LeastNat ==
  ASSUME NEW T, T \subseteq Nat, T # {}
  PROVE  \E x \in T : \A y \in T : x <= y
<1>. DEFINE R == OpToRel(<, Nat)
<1>1. IsWellFoundedOn(R, Nat)
  BY NatLessThanWellFounded
<1>2. \A x, y \in Nat : x < y => <<x, y>> \in R
  BY DEF OpToRel
<1>. HIDE DEF R
<1>3. PICK x \in T : \A y \in T : ~ (<<y, x>> \in R)
  BY <1>1, WFMin
<1>4. \A y \in T : ~(y < x)
  BY <1>2, <1>3
<1>5. \A y \in T : x <= y
  BY <1>4, SMT
<1>. QED
  BY <1>5

LEMMA GreatestNat ==
  ASSUME NEW T, T \subseteq Nat, T # {}, IsFiniteSet(T)
  PROVE  \E x \in T : \A y \in T : y <= x
<1>. DEFINE Unbounded(A) == A # {} /\ \A x \in A : \E y \in A : x < y
            Sizes == {n \in Nat : \E A \in SUBSET T : Cardinality(A) = n /\ Unbounded(A)}
(* The smallest subset without a greatest element would have a smaller one. *)
<1>1. Sizes = {}
  <2>. SUFFICES ASSUME Sizes # {} PROVE FALSE
    OBVIOUS
  <2>1. PICK n \in Sizes : \A m \in Sizes : n <= m
    BY LeastNat
  <2>2. PICK A \in SUBSET T : Cardinality(A) = n /\ Unbounded(A)
    OBVIOUS
  <2>3. PICK a \in A : TRUE
    BY <2>2
  <2>. DEFINE B == A \ {a}
  <2>4. IsFiniteSet(A) /\ IsFiniteSet(B)
    BY FS_Subset
  <2>5. Cardinality(B) \in Nat /\ Cardinality(B) = Cardinality(A) - 1
    BY <2>3, <2>4, FS_RemoveElement, FS_CardinalityType
  <2>6. \A x \in A : x \in Nat
    OBVIOUS
  <2>7. ASSUME NEW x \in A
        PROVE  \E y \in B : x < y
    <3>1. PICK y \in A : x < y
      BY <2>2
    <3>2. PICK z \in A : a < z
      BY <2>2
    <3>3. z # a
      BY <2>6, <3>2, SMT
    <3>4. CASE y = a
      <4>1. x < z
        BY <2>6, <3>1, <3>2, <3>4, SMT
      <4>. QED
        BY <3>3, <4>1
    <3>. QED
      BY <3>1, <3>4
  <2>8. Unbounded(B)
    BY <2>3, <2>7
  <2>9. Cardinality(B) \in Sizes
    BY <2>5, <2>8
  <2>10. n \in Nat /\ n <= n - 1
    BY <2>1, <2>2, <2>5, <2>9
  <2>. QED
    BY <2>10, SMT
<1>2. ~Unbounded(T)
  BY <1>1, FS_CardinalityType
<1>3. PICK x \in T : \A y \in T : ~(x < y)
  BY <1>2
<1>4. \A y \in T : y <= x
  BY <1>3, SMT
<1>. QED
  BY <1>4

-----------------------------------------------------------------------------
(* Operation number n is the last one on key k. *)
IsLastHit(ops, k, n) ==
  /\ n \in DOMAIN ops /\ ops[n].key = k
  /\ \A m \in DOMAIN ops : ops[m].key = k => m <= n

LEMMA LastHit ==
  ASSUME NEW S, NEW ops \in Seq(S), NEW k, \E n \in DOMAIN ops : ops[n].key = k
  PROVE  \E n : IsLastHit(ops, k, n)
<1>. DEFINE hits == {n \in DOMAIN ops : ops[n].key = k}
<1>1. DOMAIN ops = 1 .. Len(ops) /\ Len(ops) \in Nat
  BY SMT
<1>2. IsFiniteSet(1 .. Len(ops))
  BY <1>1, FS_Interval, SMT
<1>3. IsFiniteSet(hits)
  BY <1>1, <1>2, FS_Subset
<1>4. 1 .. Len(ops) \subseteq Nat
  BY <1>1, SMT
<1>5. hits \subseteq Nat /\ hits # {}
  BY <1>1, <1>4
<1>6. \E n \in hits : \A m \in hits : m <= n
  BY <1>3, <1>5, GreatestNat
<1>. QED
  BY <1>6 DEF IsLastHit

LEMMA AfterOpsIsFunction ==
  ASSUME NEW s, NEW ops
  PROVE  AfterOps(s, ops) = [k \in DOMAIN s |-> AfterOps(s, ops)[k]]
<1>. DEFINE hits(k) == {n \in DOMAIN ops : ops[n].key = k}
            after(k) == IF hits(k) = {} THEN s[k]
                        ELSE ops[CHOOSE n \in hits(k) : \A m \in hits(k) : m <= n].value
<1>1. AfterOps(s, ops) = [k \in DOMAIN s |-> after(k)]
  BY DEF AfterOps
<1>. HIDE DEF after
<1>. QED
  BY <1>1

LEMMA AfterMisses ==
  ASSUME NEW s, NEW ops, NEW k \in DOMAIN s, \A n \in DOMAIN ops : ops[n].key # k
  PROVE  AfterOps(s, ops)[k] = s[k]
<1>. DEFINE hits == {n \in DOMAIN ops : ops[n].key = k}
<1>1. AfterOps(s, ops)[k] =
        IF hits = {} THEN s[k] ELSE ops[CHOOSE n \in hits : \A m \in hits : m <= n].value
  BY DEF AfterOps
<1>2. hits = {}
  OBVIOUS
<1>. QED
  BY <1>1, <1>2

LEMMA AfterHits ==
  ASSUME NEW s, NEW ops, DOMAIN ops \subseteq Nat, NEW k \in DOMAIN s,
         NEW n, IsLastHit(ops, k, n)
  PROVE  AfterOps(s, ops)[k] = ops[n].value
<1>. DEFINE hits == {m \in DOMAIN ops : ops[m].key = k}
            last == CHOOSE m \in hits : \A l \in hits : l <= m
<1>1. AfterOps(s, ops)[k] = IF hits = {} THEN s[k] ELSE ops[last].value
  BY DEF AfterOps
<1>2. n \in hits /\ \A m \in hits : m <= n
  BY DEF IsLastHit
<1>3. last \in hits /\ \A m \in hits : m <= last
  BY <1>2
<1>. HIDE DEF last
<1>4. n <= last /\ last <= n /\ n \in Nat /\ last \in Nat
  BY <1>2, <1>3
<1>5. n = last
  BY <1>4, SMT
<1>. QED
  BY <1>1, <1>2, <1>5

LEMMA AfterOpsType ==
  ASSUME NEW D, NEW R, NEW s \in [D -> R], NEW S, NEW ops \in Seq(S),
         \A n \in DOMAIN ops : ops[n].value \in R
  PROVE  AfterOps(s, ops) \in [D -> R]
<1>1. DOMAIN s = D /\ \A k \in D : s[k] \in R
  OBVIOUS
<1>2. DOMAIN ops \subseteq Nat
  <2>1. DOMAIN ops = 1 .. Len(ops) /\ Len(ops) \in Nat
    BY SMT
  <2>. QED
    BY <2>1, SMT
<1>3. ASSUME NEW k \in D
      PROVE  AfterOps(s, ops)[k] \in R
  <2>1. CASE \A n \in DOMAIN ops : ops[n].key # k
    <3>1. k \in DOMAIN s
      BY <1>1
    <3>2. AfterOps(s, ops)[k] = s[k]
      BY <2>1, <3>1, AfterMisses, SMT
    <3>. QED
      BY <1>1, <3>2
  <2>2. CASE \E n \in DOMAIN ops : ops[n].key = k
    <3>1. PICK n : IsLastHit(ops, k, n)
      BY <2>2, LastHit
    <3>2. k \in DOMAIN s
      BY <1>1
    <3>3. AfterOps(s, ops)[k] = ops[n].value
      BY <1>2, <3>1, <3>2, AfterHits, SMT
    <3>. QED
      BY <3>1, <3>3 DEF IsLastHit
  <2>. QED
    BY <2>1, <2>2
<1>4. AfterOps(s, ops) = [k \in D |-> AfterOps(s, ops)[k]]
  BY <1>1, AfterOpsIsFunction
<1>. QED
  BY <1>3, <1>4

LEMMA AfterNone ==
  ASSUME NEW D, NEW R, NEW s \in [D -> R]
  PROVE  AfterOps(s, <<>>) = s
<1>1. DOMAIN <<>> = {}
  BY SMT
<1>2. \A k \in DOMAIN s : AfterOps(s, <<>>)[k] = s[k]
  BY <1>1, AfterMisses
<1>3. AfterOps(s, <<>>) = [k \in DOMAIN s |-> AfterOps(s, <<>>)[k]]
  BY AfterOpsIsFunction
<1>. QED
  BY <1>2, <1>3

LEMMA AfterOneOp ==
  ASSUME NEW s, NEW op
  PROVE  AfterOps(s, <<op>>) = [s EXCEPT ![op.key] = op.value]
<1>1. DOMAIN <<op>> = {1} /\ <<op>>[1] = op /\ 1 <= 1 /\ 1 \in Nat
  BY SMT
<1>2. ASSUME NEW k \in DOMAIN s
      PROVE  AfterOps(s, <<op>>)[k] = IF k = op.key THEN op.value ELSE s[k]
  <2>1. CASE k = op.key
    <3>1. IsLastHit(<<op>>, k, 1)
      BY <1>1, <2>1 DEF IsLastHit
    <3>. QED
      BY <1>1, <2>1, <3>1, AfterHits, SMT
  <2>2. CASE k # op.key
    BY <1>1, <2>2, AfterMisses, SMT
  <2>. QED
    BY <2>1, <2>2
<1>3. AfterOps(s, <<op>>) = [k \in DOMAIN s |-> AfterOps(s, <<op>>)[k]]
  BY AfterOpsIsFunction
<1>4. [s EXCEPT ![op.key] = op.value] =
        [k \in DOMAIN s |-> IF k = op.key THEN op.value ELSE s[k]]
  OBVIOUS
<1>. QED
  BY <1>2, <1>3, <1>4

(* The first operation may be applied before the others. *)
LEMMA AfterHead ==
  ASSUME NEW s, NEW S, NEW ops \in Seq(S), ops # <<>>
  PROVE  AfterOps([s EXCEPT ![Head(ops).key] = Head(ops).value], Tail(ops)) = AfterOps(s, ops)
<1>. DEFINE t == [s EXCEPT ![Head(ops).key] = Head(ops).value]
            rest == Tail(ops)
<1>1. /\ rest \in Seq(S) /\ Head(ops) = ops[1]
      /\ 1 \in DOMAIN ops /\ DOMAIN ops \subseteq Nat /\ DOMAIN rest \subseteq Nat
      /\ \A n \in DOMAIN rest : n + 1 \in DOMAIN ops /\ rest[n] = ops[n + 1] /\ n \in Nat
      /\ \A n \in DOMAIN ops : n \in Nat /\ (n = 1 \/ (n - 1 \in DOMAIN rest /\ ops[n] = rest[n - 1]))
  BY SMT
<1>2. DOMAIN t = DOMAIN s /\ \A k \in DOMAIN s : t[k] = IF k = Head(ops).key THEN Head(ops).value ELSE s[k]
  OBVIOUS
<1>. HIDE DEF t, rest
<1>3. ASSUME NEW k \in DOMAIN s
      PROVE  AfterOps(t, rest)[k] = AfterOps(s, ops)[k]
  <2>1. CASE \E n \in DOMAIN rest : rest[n].key = k
    <3>1. PICK n : IsLastHit(rest, k, n)
      BY <1>1, <2>1, LastHit
    <3>2. /\ n \in DOMAIN rest /\ rest[n].key = k
          /\ \A m \in DOMAIN rest : rest[m].key = k => m <= n
      BY <3>1 DEF IsLastHit
    <3>3. ASSUME NEW m \in DOMAIN ops, ops[m].key = k
          PROVE  m <= n + 1
      <4>1. n \in Nat /\ m \in Nat
        BY <1>1, <3>2
      <4>2. CASE m = 1
        BY <4>1, <4>2, SMT
      <4>3. CASE m - 1 \in DOMAIN rest /\ ops[m] = rest[m - 1]
        <5>1. m - 1 <= n
          BY <3>2, <3>3, <4>3
        <5>. QED
          BY <4>1, <5>1, SMT
      <4>. QED
        BY <1>1, <4>2, <4>3
    <3>4. IsLastHit(ops, k, n + 1)
      BY <1>1, <3>2, <3>3 DEF IsLastHit
    <3>5. AfterOps(t, rest)[k] = rest[n].value
      <4>1. k \in DOMAIN t /\ DOMAIN rest \subseteq Nat
        BY <1>1, <1>2
      <4>. QED
        BY <3>1, <4>1, AfterHits, SMT
    <3>6. AfterOps(s, ops)[k] = ops[n + 1].value
      BY <1>1, <3>4, AfterHits, SMT
    <3>. QED
      BY <1>1, <3>2, <3>5, <3>6
  <2>2. CASE \A n \in DOMAIN rest : rest[n].key # k
    <3>1. AfterOps(t, rest)[k] = t[k]
      BY <1>2, <2>2, AfterMisses, SMT
    <3>2. \A m \in DOMAIN ops : ops[m].key = k => m = 1
      BY <1>1, <2>2
    <3>3. CASE k = Head(ops).key
      <4>1. 1 <= 1
        BY SMT
      <4>2. IsLastHit(ops, k, 1)
        BY <1>1, <3>2, <3>3, <4>1 DEF IsLastHit
      <4>3. AfterOps(s, ops)[k] = ops[1].value
        BY <1>1, <4>2, AfterHits, SMT
      <4>. QED
        BY <1>1, <1>2, <3>1, <3>3, <4>3
    <3>4. CASE k # Head(ops).key
      <4>1. \A n \in DOMAIN ops : ops[n].key # k
        BY <1>1, <3>2, <3>4
      <4>2. AfterOps(s, ops)[k] = s[k]
        BY <4>1, AfterMisses, SMT
      <4>. QED
        BY <1>2, <3>1, <3>4, <4>2
    <3>. QED
      BY <3>3, <3>4
  <2>. QED
    BY <2>1, <2>2
<1>4. /\ AfterOps(t, rest) = [k \in DOMAIN t |-> AfterOps(t, rest)[k]]
      /\ AfterOps(s, ops) = [k \in DOMAIN s |-> AfterOps(s, ops)[k]]
  BY AfterOpsIsFunction
<1>5. AfterOps(t, rest) = AfterOps(s, ops)
  BY <1>2, <1>3, <1>4
<1>. QED
  BY <1>5 DEF t, rest
=============================================================================
