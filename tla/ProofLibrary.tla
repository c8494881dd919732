--------------------------- MODULE ProofLibrary ----------------------------
(***************************************************************************)
(* Facts that several of the proofs need: induction over an interval of    *)
(* numbers, with the property as a set, and sequences with an element put  *)
(* in or taken out.                                                        *)
(***************************************************************************)
EXTENDS Integers, SequencesExt, SequenceTheorems, WellFoundedInduction, TLAPS

---------------------------------------------------------------------------
(* Induction *)

(* A nonempty set of natural numbers has a least element. *)
LEMMA LeastNumber ==
  ASSUME NEW T, T \subseteq Nat, T # {}
  PROVE  \E x \in T : \A y \in T : x <= y
<1>1. PICK x \in T : \A y \in T : ~ (<<y, x>> \in OpToRel(<, Nat))
  BY NatLessThanWellFounded, WFMin, Zenon
<1>2. ASSUME NEW y \in T, y < x
      PROVE  FALSE
  <2>1. <<y, x>> \in Nat \X Nat
    OBVIOUS
  <2>2. <<y, x>>[1] < <<y, x>>[2]
    BY <1>2
  <2>3. <<y, x>> \in OpToRel(<, Nat)
    BY <2>1, <2>2, Zenon DEF OpToRel
  <2> QED BY <1>1, <2>3, Zenon
<1>3. \A y \in T : x <= y
  BY <1>2
<1> QED BY <1>3

(* A subset of 1 .. n that holds 1, and with m - 1 also m, is all of it. *)
LEMMA UpTo ==
  ASSUME NEW n \in Nat, NEW T, 1 \in T,
         \A m \in 2 .. n : m - 1 \in T => m \in T
  PROVE  \A m \in 1 .. n : m \in T
<1> DEFINE C == {m \in 1 .. n : m \notin T}
<1> SUFFICES ASSUME C # {} PROVE FALSE
  OBVIOUS
<1>1. C \subseteq Nat
  OBVIOUS
<1>2. PICK x \in C : \A y \in C : x <= y
  BY <1>1, LeastNumber, Zenon
<1>3. x \in 2 .. n /\ x - 1 \in 1 .. n /\ ~(x <= x - 1)
  BY <1>2
<1>4. x - 1 \in T
  BY <1>2, <1>3
<1> QED BY <1>3, <1>4

(* A subset of 1 .. n that holds m with all numbers below m is all of it. *)
LEMMA UpToStrong ==
  ASSUME NEW n \in Nat, NEW T,
         \A m \in 1 .. n : (\A k \in 1 .. m - 1 : k \in T) => m \in T
  PROVE  \A m \in 1 .. n : m \in T
<1> DEFINE C == {m \in 1 .. n : m \notin T}
<1> SUFFICES ASSUME C # {} PROVE FALSE
  OBVIOUS
<1>1. C \subseteq Nat
  OBVIOUS
<1>2. PICK x \in C : \A y \in C : x <= y
  BY <1>1, LeastNumber, Zenon
<1>3. \A k \in 1 .. x - 1 : k \in 1 .. n /\ ~(x <= k)
  BY <1>2
<1>4. \A k \in 1 .. x - 1 : k \in T
  BY <1>2, <1>3
<1> QED BY <1>2, <1>4
(* The same for 0 .. n, from 0 upwards. *)
LEMMA UpFromZero ==
  ASSUME NEW n \in Nat, NEW T, 0 \in T,
         \A m \in 1 .. n : m - 1 \in T => m \in T
  PROVE  \A m \in 0 .. n : m \in T
<1> DEFINE C == {m \in 0 .. n : m \notin T}
<1> SUFFICES ASSUME C # {} PROVE FALSE
  OBVIOUS
<1>1. C \subseteq Nat
  OBVIOUS
<1>2. PICK x \in C : \A y \in C : x <= y
  BY <1>1, LeastNumber, Zenon
<1>3. x \in 1 .. n /\ x - 1 \in 0 .. n /\ ~(x <= x - 1)
  BY <1>2
<1>4. x - 1 \in T
  BY <1>2, <1>3
<1> QED BY <1>3, <1>4

(* And from n downwards. *)
LEMMA DownToZero ==
  ASSUME NEW n \in Nat, NEW T, n \in T,
         \A m \in 0 .. n - 1 : m + 1 \in T => m \in T
  PROVE  \A m \in 0 .. n : m \in T
<1> DEFINE S == {k \in 0 .. n : n - k \in T}
<1>1. 0 \in S
  OBVIOUS
<1>2. ASSUME NEW k \in 1 .. n, k - 1 \in S
      PROVE  k \in S
  <2>1. n - (k - 1) \in T
    BY <1>2
  <2>2. n - k \in 0 .. n - 1 /\ n - (k - 1) = (n - k) + 1 /\ k \in 0 .. n
    OBVIOUS
  <2>3. n - k \in T
    BY <2>1, <2>2
  <2> QED BY <2>2, <2>3
<1> HIDE DEF S
<1>3. \A k \in 0 .. n : k \in S
  BY <1>1, <1>2, UpFromZero
<1>4. ASSUME NEW m \in 0 .. n
      PROVE  m \in T
  <2>1. n - m \in 0 .. n /\ n - (n - m) = m
    OBVIOUS
  <2>2. n - m \in S
    BY <1>3, <2>1
  <2>3. n - (n - m) \in T
    BY <2>2 DEF S
  <2> QED BY <2>1, <2>3
<1> QED BY <1>4

---------------------------------------------------------------------------
(* Sequences *)

\* r is q without the element at i; and with e put in at i.
WithoutAt(S, q, i, r) ==
  /\ r \in Seq(S) /\ Len(r) = Len(q) - 1
  /\ \A j \in 1 .. Len(q) - 1 : r[j] = IF j < i THEN q[j] ELSE q[j + 1]
WithAt(S, q, i, e, r) ==
  /\ r \in Seq(S) /\ Len(r) = Len(q) + 1 /\ r[i] = e
  /\ \A j \in 1 .. i - 1 : r[j] = q[j]
  /\ \A j \in i + 1 .. Len(q) + 1 : r[j] = q[j - 1]

(* The elements of a sequence with one taken out. *)
LEMMA RemoveAtElements ==
  ASSUME NEW S, NEW q \in Seq(S), NEW i \in 1 .. Len(q)
  PROVE  WithoutAt(S, q, i, RemoveAt(q, i))
<1> DEFINE a == SubSeq(q, 1, i - 1)
           b == SubSeq(q, i + 1, Len(q))
<1>0. Len(q) \in Nat /\ i \in Nat /\ 1 <= i /\ i <= Len(q)
  BY LenProperties
<1>1. a \in Seq(S) /\ Len(a) = i - 1 /\ \A j \in 1 .. i - 1 : a[j] = q[j]
  BY <1>0, SubSeqProperties
<1>2. b \in Seq(S) /\ Len(b) = Len(q) - i /\ \A j \in 1 .. Len(q) - i : b[j] = q[j + i]
  <2>1. CASE i = Len(q)
    BY <1>0, <2>1, SubSeqEmpty, EmptySeq
  <2>2. CASE i < Len(q)
    BY <1>0, <2>2, SubSeqProperties
  <2> QED BY <1>0, <2>1, <2>2
<1>3. RemoveAt(q, i) = a \o b
  BY DEF RemoveAt
<1> HIDE DEF a, b
<1>4. /\ a \o b \in Seq(S) /\ Len(a \o b) = Len(a) + Len(b)
      /\ \A j \in 1 .. Len(a) + Len(b) :
           (a \o b)[j] = IF j <= Len(a) THEN a[j] ELSE b[j - Len(a)]
  BY <1>1, <1>2, ConcatProperties
<1>5. Len(a \o b) = Len(q) - 1
  BY <1>0, <1>1, <1>2, <1>4
<1>6. ASSUME NEW j \in 1 .. Len(q) - 1
      PROVE  (a \o b)[j] = IF j < i THEN q[j] ELSE q[j + 1]
  <2>1. (a \o b)[j] = IF j <= i - 1 THEN a[j] ELSE b[j - (i - 1)]
    BY <1>0, <1>1, <1>2, <1>4
  <2>2. CASE j < i
    BY <1>0, <1>1, <2>1, <2>2
  <2>3. CASE ~(j < i)
    <3>1. j - (i - 1) \in 1 .. Len(q) - i /\ (j - (i - 1)) + i = j + 1
      BY <1>0, <2>3
    <3>2. b[j - (i - 1)] = q[j + 1]
      BY <1>2, <3>1
    <3> QED BY <1>0, <2>1, <2>3, <3>2
  <2> QED BY <2>2, <2>3
<1> QED BY <1>3, <1>4, <1>5, <1>6 DEF WithoutAt

(* The elements of a sequence with one put in. *)
LEMMA InsertAtElements ==
  ASSUME NEW S, NEW q \in Seq(S), NEW i \in 1 .. Len(q) + 1, NEW e \in S
  PROVE  WithAt(S, q, i, e, InsertAt(q, i, e))
<1> DEFINE a == SubSeq(q, 1, i - 1)
           c == Append(a, e)
           b == SubSeq(q, i, Len(q))
<1>0. Len(q) \in Nat /\ i \in Nat /\ 1 <= i /\ i <= Len(q) + 1
  BY LenProperties
<1>1. a \in Seq(S) /\ Len(a) = i - 1 /\ \A j \in 1 .. i - 1 : a[j] = q[j]
  BY <1>0, SubSeqProperties
<1>2. b \in Seq(S) /\ Len(b) = Len(q) - i + 1 /\ \A j \in 1 .. Len(q) - i + 1 : b[j] = q[j + i - 1]
  <2>1. CASE i = Len(q) + 1
    BY <1>0, <2>1, SubSeqEmpty, EmptySeq
  <2>2. CASE i <= Len(q)
    BY <1>0, <2>2, SubSeqProperties
  <2> QED BY <1>0, <2>1, <2>2
<1>3. InsertAt(q, i, e) = c \o b
  BY <1>1, AppendIsConcat DEF InsertAt
<1>4. c \in Seq(S) /\ Len(c) = i /\ c[i] = e /\ \A j \in 1 .. i - 1 : c[j] = q[j]
  BY <1>0, <1>1, AppendProperties
<1> HIDE DEF a, b, c
<1>5. /\ c \o b \in Seq(S) /\ Len(c \o b) = Len(c) + Len(b)
      /\ \A j \in 1 .. Len(c) + Len(b) :
           (c \o b)[j] = IF j <= Len(c) THEN c[j] ELSE b[j - Len(c)]
  BY <1>2, <1>4, ConcatProperties
<1>6. Len(c \o b) = Len(q) + 1
  BY <1>0, <1>2, <1>4, <1>5
<1>7. \A j \in 1 .. i - 1 : (c \o b)[j] = q[j]
  BY <1>0, <1>2, <1>4, <1>5
<1>8. (c \o b)[i] = e
  BY <1>0, <1>2, <1>4, <1>5
<1>9. ASSUME NEW j \in i + 1 .. Len(q) + 1 PROVE (c \o b)[j] = q[j - 1]
  <2>1. j - i \in 1 .. Len(q) - i + 1 /\ (j - i) + i - 1 = j - 1
    BY <1>0
  <2>2. b[j - i] = q[j - 1]
    BY <1>2, <2>1
  <2>3. (c \o b)[j] = b[j - i]
    BY <1>0, <1>2, <1>4, <1>5
  <2> QED BY <2>2, <2>3
<1> QED BY <1>3, <1>5, <1>6, <1>7, <1>8, <1>9 DEF WithAt
============================================================================
