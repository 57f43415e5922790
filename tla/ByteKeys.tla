------------------------------ MODULE ByteKeys ------------------------------
(***************************************************************************)
(* Keys as byte strings: the helpers of util.go, and what they use of the  *)
(* package bytes.  A byte is a number up to MaxByte (0xFF in the code).    *)
(***************************************************************************)
EXTENDS Naturals, Sequences

CONSTANTS
  MaxByte,     \* the largest byte
  nil          \* a nil slice

ASSUME ByteAssumption == MaxByte \in Nat \ {0} /\ nil \notin Seq(0 .. MaxByte)

Byte == 0 .. MaxByte
Bytes == Seq(Byte)

(* bytes.Compare(a, b) < 0: a and b agree on n bytes, and then a ends or its *)
(* next byte is the smaller one.                                             *)
BytesLess(a, b) ==
  \E n \in 0 .. Len(a) :
    /\ n < Len(b)
    /\ \A j \in 1 .. n : a[j] = b[j]
    /\ n = Len(a) \/ a[n + 1] < b[n + 1]

HasPrefix(bz, prefix) ==
  /\ Len(prefix) <= Len(bz)
  /\ \A j \in 1 .. Len(prefix) : bz[j] = prefix[j]

(* bz[len(prefix):] *)
Strip(bz, prefix) == SubSeq(bz, Len(prefix) + 1, Len(bz))

(* The bytes that adding 1 does not carry out of.  The last one of them is   *)
(* incremented, the ones behind it wrap to zero; if there is none, nil.      *)
NoCarry(bz) == {n \in 1 .. Len(bz) : bz[n] < MaxByte}

IsLast(n, s) == n \in s /\ \A m \in s : m <= n

cpIncr(bz) ==
  IF NoCarry(bz) = {} THEN nil
  ELSE LET n == CHOOSE m \in 1 .. Len(bz) : IsLast(m, NoCarry(bz))
       IN  [j \in 1 .. Len(bz) |->
              IF j < n THEN bz[j] ELSE IF j = n THEN bz[j] + 1 ELSE 0]

(* start = nil compares like the empty string: nothing is below it. *)
IsKeyInDomain(key, start, end) ==
  /\ start = nil \/ ~BytesLess(key, start)
  /\ end = nil \/ BytesLess(key, end)
=============================================================================
