--------------------------- MODULE ImagingProofs ---------------------------
(***************************************************************************)
(* Proofs about the programs of Imaging: those that capture frames and     *)
(* make PNG files of them, for any number of buffers and of skipped        *)
(* frames, images of any size and stored blocks of any length; and the     *)
(* JPEG exercises, for any images and frequencies.                         *)
(***************************************************************************)
EXTENDS Imaging, FiniteSetTheorems, SequenceTheorems, WellFoundedInduction, TLAPS

-----------------------------------------------------------------------------
(* Induction and recursive functions *)

\* Induction on the natural numbers, for a set of them.
LEMMA Induction ==
  ASSUME NEW T, 0 \in T, \A n \in Nat : n \in T => n + 1 \in T
  PROVE  \A n \in Nat : n \in T
<1> DEFINE R == OpToRel(<, Nat)
           U == {n \in Nat : n \notin T}
<1>1. \A x, y \in Nat : y < x => <<y, x>> \in R
  BY DEF OpToRel
<1>2. IsWellFoundedOn(R, Nat)
  BY NatLessThanWellFounded
<1> HIDE DEF R
<1>3. SUFFICES ASSUME U # {} PROVE FALSE
  OBVIOUS
<1>4. PICK x \in U : \A y \in U : ~(<<y, x>> \in R)
  <2>1. U \subseteq Nat
    OBVIOUS
  <2> HIDE DEF U
  <2> QED
    BY <1>2, <1>3, <2>1, WFMin
<1>5. x \in Nat \ {0}
  OBVIOUS
<1>6. x - 1 \in Nat /\ x - 1 < x /\ x = (x - 1) + 1
  BY <1>5
<1>7. x - 1 \notin U
  BY <1>1, <1>4, <1>5, <1>6
<1> QED
  BY <1>4, <1>6, <1>7

\* The same up to a bound.
LEMMA InductionTo ==
  ASSUME NEW m \in Nat, NEW T, 0 \in T,
         \A n \in Nat : n < m /\ n \in T => n + 1 \in T
  PROVE  \A n \in 0..m : n \in T
<1> DEFINE U == {n \in Nat : n <= m => n \in T}
<1>1. 0 \in U
  OBVIOUS
<1>2. \A n \in Nat : n \in U => n + 1 \in U
  OBVIOUS
<1>3. \A n \in Nat : n \in U
  <2> HIDE DEF U
  <2> QED
    BY <1>1, <1>2, Induction
<1> QED
  BY <1>3

\* What a recursive function needs to have its values: c to begin with, and F[k]
\* to make the k-th value of the one before.
\* r begins with c, and F[k] makes its k-th value of the one before.
Iterates(r, c, F, m) == r[0] = c /\ \A k \in 1..m : r[k] = F[k][r[k - 1]]

LEMMA Iteration ==
  ASSUME NEW m \in Nat, NEW S, NEW c \in S, NEW F \in [1..m -> [S -> S]]
  PROVE  \E r \in [0..m -> S] : Iterates(r, c, F, m)
<1> DEFINE T == {n \in Nat : \E r \in [0..n -> S] :
                    r[0] = c /\ \A k \in 1..n : k <= m => r[k] = F[k][r[k - 1]]}
<1>1. 0 \in T
  <2> DEFINE r == [k \in 0..0 |-> c]
  <2>1. r \in [0..0 -> S] /\ r[0] = c
    OBVIOUS
  <2>2. \A k \in 1..0 : k <= m => r[k] = F[k][r[k - 1]]
    OBVIOUS
  <2> HIDE DEF r
  <2> QED
    BY <2>1, <2>2
<1>2. ASSUME NEW n \in Nat, n < m, n \in T PROVE n + 1 \in T
  <2>1. PICK r \in [0..n -> S] : r[0] = c /\ \A k \in 1..n : k <= m => r[k] = F[k][r[k - 1]]
    BY <1>2
  <2> DEFINE x == F[n + 1][r[n]]
             t == [k \in 0..n + 1 |-> IF k = n + 1 THEN x ELSE r[k]]
  <2>2. x \in S
    BY <1>2
  <2>3. t \in [0..n + 1 -> S]
    BY <2>2
  <2>4. t[0] = c
    BY <2>1
  <2>5. ASSUME NEW k \in 1..n + 1, k <= m PROVE t[k] = F[k][t[k - 1]]
    BY <2>1, <2>5
  <2> HIDE DEF t, x
  <2> QED
    BY <2>3, <2>4, <2>5
<1>3. m \in T
  <2> HIDE DEF T
  <2>1. \A n \in 0..m : n \in T
    BY <1>1, <1>2, InductionTo
  <2> QED
    BY <2>1
<1>4. PICK r \in [0..m -> S] : r[0] = c /\ \A k \in 1..m : k <= m => r[k] = F[k][r[k - 1]]
  BY <1>3
<1> QED
  BY <1>4 DEF Iterates

\* flat is s[1], then s[1] \o s[2], and so on; d has v behind its first a places.
Joins(flat, s, m, S) ==
  /\ s \in [1..m -> Seq(S)] /\ flat \in [0..m -> Seq(S)]
  /\ flat[0] = <<>> /\ \A k \in 1..m : flat[k] = flat[k - 1] \o s[k]

HoldsAt(d, a, v) == a + Len(v) <= Len(d) /\ \A j \in 1..Len(v) : d[a + j] = v[j]

\* FlattenSeq is the last of the sequences that put its parts one behind the other.
LEMMA FlattenParts ==
  ASSUME NEW S, NEW m \in Nat, NEW s \in [1..m -> Seq(S)]
  PROVE  \E flat : Joins(flat, s, m, S) /\ Writer!FlattenSeq(s) = flat[m]
<1> DEFINE F == [k \in 1..m |-> [t \in Seq(S) |-> t \o s[k]]]
<1>1. Len(s) = m
  OBVIOUS
<1>2. PICK flat \in [0..m -> Seq(S)] :
        flat[0] = <<>> /\ \A k \in 1..m : flat[k] = F[k][flat[k - 1]]
  <2>1. F \in [1..m -> [Seq(S) -> Seq(S)]]
    <3>1. \A k \in 1..m : \A t \in Seq(S) : t \o s[k] \in Seq(S)
      BY ConcatProperties
    <3> QED
      BY <3>1
  <2>2. <<>> \in Seq(S)
    BY EmptySeq
  <2> HIDE DEF F
  <2> QED
    <3> DEFINE X == Seq(S)
               c == <<>>
    <3>1. c \in X /\ F \in [1..m -> [X -> X]]
      BY <2>1, <2>2
    <3> HIDE DEF X, c
    <3>2. \E r \in [0..m -> X] : Iterates(r, c, F, m)
      BY <3>1, Iteration
    <3> QED
      BY <3>2 DEF X, c, Iterates
<1>3. \A k \in 1..m : flat[k] = flat[k - 1] \o s[k]
  <2> SUFFICES ASSUME NEW k \in 1..m PROVE flat[k] = flat[k - 1] \o s[k]
    OBVIOUS
  <2>1. flat[k - 1] \in Seq(S)
    OBVIOUS
  <2>2. F[k] = [t \in Seq(S) |-> t \o s[k]]
    OBVIOUS
  <2>3. flat[k] = F[k][flat[k - 1]]
    BY <1>2
  <2> QED
    BY <2>1, <2>2, <2>3, Zenon
<1>4. CASE m = 0
  <2>1. s = <<>>
    BY <1>4, <1>1, EmptySeq
  <2>2. Writer!FlattenSeq(s) = flat[m]
    BY <1>1, <1>2, <1>4, <2>1 DEF Writer!FlattenSeq
  <2> QED
    BY <1>2, <1>3, <2>2 DEF Joins
<1>5. CASE m # 0
  <2> DEFINE Eq(f) == f = [i \in 1..Len(s) |-> IF i = 1 THEN s[i] ELSE f[i - 1] \o s[i]]
             g == [i \in 1..m |-> flat[i]]
  <2>1. flat[1] = s[1]
    <3>1. flat[1] = flat[0] \o s[1] /\ s[1] \in Seq(S)
      BY <1>3, <1>5, SMTT(40)
    <3> QED
      BY <1>2, <3>1, ConcatEmptySeq
  <2>2. Eq(g)
    <3>1. \A i \in 1..m : flat[i] = IF i = 1 THEN s[i] ELSE g[i - 1] \o s[i]
      <4> SUFFICES ASSUME NEW i \in 1..m, i # 1 PROVE flat[i] = g[i - 1] \o s[i]
        BY <2>1
      <4>1. i - 1 \in 1..m
        OBVIOUS
      <4>2. g[i - 1] = flat[i - 1]
        BY <4>1
      <4> QED
        BY <1>3, <4>2
    <3> QED
      BY <1>1, <3>1, Zenon
  <2>3. Eq(CHOOSE f : Eq(f))
    <3> HIDE DEF Eq
    <3> QED
      BY <2>2
  <2> DEFINE h == CHOOSE f : Eq(f)
  <2>4. Writer!FlattenSeq(s) = h[m]
    BY <1>1, <1>5 DEF Writer!FlattenSeq
  <2>5. \A i \in 1..m : h[i] = IF i = 1 THEN s[i] ELSE h[i - 1] \o s[i]
    <3>1. h = [i \in 1..m |-> IF i = 1 THEN s[i] ELSE h[i - 1] \o s[i]]
      BY <1>1, <2>3, Zenon
    <3> HIDE DEF h
    <3> QED
      BY <3>1, Zenon
  <2> HIDE DEF h
  <2>6. \A i \in 0..m : i > 0 => h[i] = flat[i]
    <3> DEFINE T == {i \in Nat : i > 0 => h[i] = flat[i]}
    <3>1. 0 \in T
      OBVIOUS
    <3>2. ASSUME NEW i \in Nat, i < m, i \in T PROVE i + 1 \in T
      <4>1. i + 1 \in 1..m /\ (i + 1) - 1 = i
        BY <3>2
      <4>2. CASE i = 0
        BY <4>1, <4>2, <2>1, <2>5
      <4>3. CASE i # 0
        <5> DEFINE k == i + 1
        <5>1. k \in 1..m /\ k # 1 /\ k - 1 = i
          BY <4>1, <4>3
        <5>2. h[i] = flat[i]
          BY <3>2, <4>3
        <5> HIDE DEF k
        <5>3. h[k] = h[k - 1] \o s[k]
          BY <5>1, <2>5, Zenon
        <5>4. flat[k] = flat[k - 1] \o s[k]
          BY <5>1, <1>3, Zenon
        <5>5. h[k] = flat[k]
          BY <5>1, <5>2, <5>3, <5>4, Zenon
        <5> QED
          BY <5>5 DEF k
      <4> QED
        BY <4>2, <4>3
    <3>3. \A i \in 0..m : i \in T
      <4> HIDE DEF T
      <4> QED
        BY <3>1, <3>2, InductionTo
    <3> QED
      BY <3>3
  <2>7. Writer!FlattenSeq(s) = flat[m]
    BY <1>5, <2>4, <2>6
  <2> QED
    BY <1>2, <1>3, <2>7 DEF Joins
<1> QED
  BY <1>4, <1>5

\* Two sequences are the same when they are as long and agree at each place.
LEMMA SameSeq ==
  ASSUME NEW S, NEW s \in Seq(S), NEW t \in Seq(S), Len(s) = Len(t),
         \A i \in 1..Len(s) : s[i] = t[i]
  PROVE  s = t
BY SeqEqual

\* What concatenation makes of two sequences.
LEMMA ConcatFacts ==
  ASSUME NEW S, NEW s \in Seq(S), NEW t \in Seq(S)
  PROVE  /\ s \o t \in Seq(S) /\ Len(s \o t) = Len(s) + Len(t)
         /\ \A i \in 1..Len(s) : (s \o t)[i] = s[i]
         /\ \A j \in 1..Len(t) : (s \o t)[Len(s) + j] = t[j]
<1>1. Len(s) \in Nat /\ Len(t) \in Nat
  BY LenProperties
<1>2. s \o t \in Seq(S) /\ Len(s \o t) = Len(s) + Len(t)
  BY ConcatProperties
<1>3. ASSUME NEW i \in 1..Len(s) PROVE (s \o t)[i] = s[i]
  <2>1. i \in 1..Len(s) + Len(t) /\ i <= Len(s)
    BY <1>1
  <2> QED
    BY <2>1, ConcatProperties
<1>4. ASSUME NEW j \in 1..Len(t) PROVE (s \o t)[Len(s) + j] = t[j]
  <2>1. Len(s) + j \in 1..Len(s) + Len(t) /\ ~(Len(s) + j <= Len(s)) /\ (Len(s) + j) - Len(s) = j
    BY <1>1
  <2> QED
    BY <2>1, ConcatProperties
<1> QED
  BY <1>2, <1>3, <1>4

\* Two neighbouring pieces of a sequence are one piece.
LEMMA Pieces ==
  ASSUME NEW S, NEW s \in Seq(S), NEW a \in Nat, NEW b \in Nat, a <= b, b <= Len(s)
  PROVE  SubSeq(s, 1, a) \o SubSeq(s, a + 1, b) = SubSeq(s, 1, b)
<1> DEFINE p == SubSeq(s, 1, a)
           q == SubSeq(s, a + 1, b)
           t == SubSeq(s, 1, b)
<1>1. /\ p \in Seq(S) /\ Len(p) = a /\ \A i \in 1..a : p[i] = s[i]
  BY SubSeqProperties
<1>2. /\ q \in Seq(S) /\ Len(q) = b - a /\ \A i \in 1..b - a : q[i] = s[a + i]
  BY SubSeqProperties
<1>3. /\ t \in Seq(S) /\ Len(t) = b /\ \A i \in 1..b : t[i] = s[i]
  BY SubSeqProperties
<1> HIDE DEF p, q, t
<1>4. p \o q \in Seq(S) /\ Len(p \o q) = b
  <2>1. p \o q \in Seq(S) /\ Len(p \o q) = Len(p) + Len(q)
    BY <1>1, <1>2, ConcatProperties, ZenonT(40)
  <2> QED
    BY <2>1, <1>1, <1>2
<1>5. ASSUME NEW i \in 1..b PROVE (p \o q)[i] = t[i]
  <2>1. CASE i <= a
    <3>1. p \in Seq(S) /\ q \in Seq(S)
      BY <1>1, <1>2
    <3>2. \A k \in 1..Len(p) : (p \o q)[k] = p[k]
      BY ONLY <3>1, ConcatFacts
    <3> QED
      BY <2>1, <3>2, <1>1, <1>3
  <2>2. CASE i > a
    <3>1. i - a \in 1..b - a /\ a + (i - a) = i
      BY <2>2
    <3>2. p \in Seq(S) /\ q \in Seq(S)
      BY <1>1, <1>2
    <3>3. \A j \in 1..Len(q) : (p \o q)[Len(p) + j] = q[j]
      BY ONLY <3>2, ConcatFacts
    <3>4. (p \o q)[a + (i - a)] = q[i - a]
      BY <3>1, <3>3, <1>1, <1>2
    <3> QED
      BY <3>1, <3>4, <1>2, <1>3
  <2>3. i <= a \/ i > a
    OBVIOUS
  <2> QED
    BY <2>1, <2>2, <2>3, Zenon
<1>6. p \o q = t
  BY <1>3, <1>4, <1>5, SameSeq
<1> QED
  BY <1>6 DEF p, q, t

\* What is joined stays where it is.
LEMMA JoinedParts ==
  ASSUME NEW S, NEW m \in Nat, NEW s, NEW flat, Joins(flat, s, m, S)
  PROVE  \A k \in 1..m : /\ Len(flat[k]) = Len(flat[k - 1]) + Len(s[k])
                         /\ HoldsAt(flat[m], Len(flat[k - 1]), s[k])
<1>0. s \in [1..m -> Seq(S)] /\ flat \in [0..m -> Seq(S)]
  BY DEF Joins
<1>1. ASSUME NEW k \in 1..m
      PROVE  /\ flat[k] = flat[k - 1] \o s[k]
             /\ flat[k] \in Seq(S) /\ flat[k - 1] \in Seq(S) /\ s[k] \in Seq(S)
  <2>1. k \in 0..m /\ k - 1 \in 0..m
    OBVIOUS
  <2> QED
    BY <1>0, <2>1 DEF Joins
<1>2. ASSUME NEW k \in 1..m
      PROVE  /\ Len(flat[k]) = Len(flat[k - 1]) + Len(s[k])
             /\ \A i \in 1..Len(flat[k - 1]) : flat[k][i] = flat[k - 1][i]
             /\ \A j \in 1..Len(s[k]) : flat[k][Len(flat[k - 1]) + j] = s[k][j]
  <2> DEFINE u == flat[k]
             v == flat[k - 1]
             w == s[k]
  <2>1. u = v \o w /\ v \in Seq(S) /\ w \in Seq(S)
    BY <1>1
  <2> HIDE DEF u, v, w
  <2>2. /\ Len(u) = Len(v) + Len(w)
        /\ \A i \in 1..Len(v) : u[i] = v[i]
        /\ \A j \in 1..Len(w) : u[Len(v) + j] = w[j]
    BY <2>1, ConcatProperties, LenProperties
  <2> QED
    BY <2>2 DEF u, v, w
<1> SUFFICES ASSUME NEW k \in 1..m
             PROVE  /\ Len(flat[k]) <= Len(flat[m])
                    /\ \A i \in 1..Len(flat[k]) : flat[m][i] = flat[k][i]
  <2>1. ASSUME NEW k \in 1..m, NEW j \in 1..Len(s[k]) PROVE Len(flat[k - 1]) + j \in 1..Len(flat[k])
    <3> DEFINE a == Len(flat[k - 1])
               l == Len(s[k])
    <3>1. a \in Nat /\ l \in Nat /\ Len(flat[k]) = a + l
      BY <1>1, <1>2, LenProperties
    <3>2. j \in 1..l
      OBVIOUS
    <3> HIDE DEF a, l
    <3>3. a + j \in 1..Len(flat[k])
      BY <3>1, <3>2
    <3> QED
      BY <3>3 DEF a
  <2>2. ASSUME NEW k \in 1..m PROVE HoldsAt(flat[m], Len(flat[k - 1]), s[k])
    <3> DEFINE a == Len(flat[k - 1])
               l == Len(s[k])
    <3>1. Len(flat[k]) = a + l /\ a + l <= Len(flat[m])
      BY <1>2, <2>2
    <3>2. ASSUME NEW j \in 1..l PROVE flat[m][a + j] = s[k][j]
      <4>1. a + j \in 1..Len(flat[k])
        BY <2>1
      <4>2. flat[m][a + j] = flat[k][a + j]
        BY <4>1, <2>2
      <4>3. flat[k][a + j] = s[k][j]
        BY <1>2
      <4> QED
        BY <4>2, <4>3
    <3> QED
      BY <3>1, <3>2, Zenon DEF HoldsAt
  <2> QED
    BY <1>2, <2>2
<1> DEFINE T == {n \in Nat : k + n <= m => /\ Len(flat[k]) <= Len(flat[k + n])
                                           /\ \A i \in 1..Len(flat[k]) : flat[k + n][i] = flat[k][i]}
<1>3. 0 \in T
  BY <1>1, LenProperties
<1>4. ASSUME NEW n \in Nat, n \in T PROVE n + 1 \in T
  <2> SUFFICES ASSUME k + (n + 1) <= m
               PROVE  /\ Len(flat[k]) <= Len(flat[k + (n + 1)])
                      /\ \A i \in 1..Len(flat[k]) : flat[k + (n + 1)][i] = flat[k][i]
    OBVIOUS
  <2> DEFINE l == k + (n + 1)
  <2>1. l \in 1..m /\ l - 1 = k + n /\ k + n \in 1..m /\ k + n <= m
    OBVIOUS
  <2>2. Len(flat[k]) <= Len(flat[l - 1]) /\ \A i \in 1..Len(flat[k]) : flat[l - 1][i] = flat[k][i]
    BY <1>4, <2>1
  <2> HIDE DEF l
  <2>3. Len(flat[l]) = Len(flat[l - 1]) + Len(s[l]) /\ \A i \in 1..Len(flat[l - 1]) : flat[l][i] = flat[l - 1][i]
    BY <2>1, <1>2
  <2>4. Len(flat[k]) \in Nat /\ Len(flat[l - 1]) \in Nat /\ Len(s[l]) \in Nat
    BY <1>1, <2>1, LenProperties
  <2>5. Len(flat[k]) <= Len(flat[l]) /\ \A i \in 1..Len(flat[k]) : flat[l][i] = flat[k][i]
    <3> DEFINE a == Len(flat[k])
               b == Len(flat[l - 1])
    <3>1. a \in Nat /\ b \in Nat /\ a <= b /\ b <= Len(flat[l])
      <4> DEFINE c == Len(s[l])
                 d == Len(flat[l])
      <4>1. a \in Nat /\ b \in Nat /\ c \in Nat
        BY <2>4, Zenon
      <4>2. a <= b /\ d = b + c
        BY <2>2, <2>3, Zenon
      <4> HIDE DEF a, b, c, d
      <4>3. b <= d
        BY <4>1, <4>2
      <4> QED
        BY <4>1, <4>2, <4>3 DEF d
    <3>2. a <= Len(flat[l]) /\ 1..a \subseteq 1..b
      <4> HIDE DEF a, b
      <4>1. Len(flat[l]) \in Nat
        BY <1>1, <2>1, LenProperties
      <4> QED
        BY <3>1, <4>1
    <3>3. ASSUME NEW i \in 1..a PROVE flat[l][i] = flat[k][i]
      <4>1. i \in 1..b
        BY <3>2, <3>3
      <4>2. flat[l][i] = flat[l - 1][i] /\ flat[l - 1][i] = flat[k][i]
        BY <4>1, <2>2, <2>3, Zenon
      <4> QED
        BY <4>2, Zenon
    <3> QED
      BY <3>2, <3>3
  <2> QED
    BY <2>5 DEF l
<1>5. m - k \in T
  <2>1. m - k \in Nat
    OBVIOUS
  <2> HIDE DEF T
  <2> QED
    BY <1>3, <1>4, <2>1, Induction
<1> QED
  BY <1>5

-----------------------------------------------------------------------------
(* Stored blocks *)

MB == Writer!MaxBlock

\* A stored block has room for some bytes.
LEMMA MaxBlockIsNat == MB \in Nat \ {0} /\ LenBase \in Nat /\ LenBase > 1 /\ MB + 1 = LenBase * LenBase
<1>1. LenBase \in Nat /\ LenBase > 1
  BY WriterAssumption
<1> DEFINE p == LenBase * LenBase
<1>2. p \in Nat /\ p > 1
  BY <1>1
<1>3. MB = p - 1
  BY DEF MB, Writer!MaxBlock
<1> HIDE DEF p
<1>4. MB \in Nat \ {0} /\ MB + 1 = p
  BY <1>2, <1>3
<1> QED
  BY <1>1, <1>4 DEF p

\* Quotient and remainder.
LEMMA Division ==
  ASSUME NEW b \in Nat \ {0}, NEW x \in Nat
  PROVE  /\ x \div b \in Nat /\ x % b \in 0..b - 1
         /\ x = b * (x \div b) + (x % b)
<1>1. x = b * (x \div b) + (x % b)
  OBVIOUS
<1>2. x % b \in 0..b - 1
  OBVIOUS
<1>3. x \div b \in Int
  OBVIOUS
<1>4. x \div b >= 0
  OBVIOUS
<1>6. x \div b \in Nat
  BY <1>3, <1>4
<1> QED
  BY <1>1, <1>2, <1>6, Zenon

\* Multiples of b that are apart are b apart.
LEMMA Multiples ==
  ASSUME NEW b \in Nat \ {0}, NEW p \in Int, NEW q \in Int, p < q
  PROVE  q * b >= p * b + b
<1>1. (q - p - 1) * b >= 0
  OBVIOUS
<1> QED
  BY <1>1

\* The two digits of the length of a stored block give that length.
LEMMA Digits ==
  ASSUME NEW n \in 0..MB
  PROVE  Writer!Low(n) + LenBase * Writer!High(n) = n
<1> DEFINE b == LenBase
           q == n \div b
<1>1. b \in Nat \ {0} /\ n \in Nat /\ n < b * b
  BY MaxBlockIsNat
<1>2. q \in Nat /\ n % b \in 0..b - 1 /\ n = b * q + (n % b)
  BY <1>1, Division
<1>3. q < b
  <2> SUFFICES ASSUME q >= b PROVE FALSE
    BY <1>1, <1>2
  <2> DEFINE r == n % b
  <2>1. q * b >= b * b
    <3>1. CASE q = b
      BY <3>1, <1>1
    <3>2. CASE q > b
      BY <3>2, <1>1, <1>2, Multiples
    <3> QED
      BY <3>1, <3>2, <1>1, <1>2
  <2>2. q * b = b * q
    BY <1>1, <1>2
  <2> QED
    BY <2>1, <2>2, <1>1, <1>2
<1>4. q % b = q
  BY <1>1, <1>2, <1>3
<1>5. Writer!Low(n) = n % b /\ Writer!High(n) = q
  BY <1>4 DEF Writer!Low, Writer!High
<1> DEFINE r == n % b
<1>6. r \in Nat /\ n = b * q + r /\ Writer!Low(n) = r
  BY <1>2, <1>5
<1> HIDE DEF q, r
<1>7. Writer!Low(n) + b * Writer!High(n) = n
  BY <1>1, <1>2, <1>5, <1>6
<1> QED
  BY <1>7

\* The blocks are as many as are needed.
LEMMA BlockCount ==
  ASSUME NEW data \in Seq(Int), Len(data) > 0
  PROVE  /\ Writer!Blocks(data) \in Nat \ {0}
         /\ \A k \in Nat : k * MB >= Len(data) <=> k >= Writer!Blocks(data)
<1> DEFINE m == Writer!Blocks(data)
           b == MB
           l == Len(data)
           x == l + b - 1
<1>1. b \in Nat \ {0} /\ l \in Nat \ {0} /\ x \in Nat /\ x >= b
  BY MaxBlockIsNat, LenProperties
<1>2. m = x \div b
  BY DEF Writer!Blocks, MB
<1> HIDE DEF m, b
<1>3. m \in Nat /\ x % b \in 0..b - 1 /\ x = b * m + (x % b)
  BY <1>1, <1>2, Division
<1> DEFINE r == x % b
<1>4. r \in 0..b - 1 /\ l + b - 1 = m * b + r
  BY <1>1, <1>3
<1> HIDE DEF r, l
<1>5. m # 0
  BY <1>1, <1>4
<1>6. ASSUME NEW k \in Nat PROVE k * b >= l <=> k >= m
  <2>1. m * b \in Int /\ k * b \in Int /\ m * b >= l /\ m * b < l + b
    BY <1>1, <1>3, <1>4
  <2>2. CASE k = m
    BY <2>1, <2>2, <1>1
  <2>3. CASE k > m
    <3>1. k * b >= m * b + b
      BY <2>3, <1>1, <1>3, Multiples
    <3> QED
      BY <3>1, <2>1, <2>3, <1>1, <1>3, SMTT(40)
  <2>4. CASE k < m
    <3>1. m * b >= k * b + b
      BY <2>4, <1>1, <1>3, Multiples
    <3> QED
      BY <3>1, <2>1, <2>4, <1>1, <1>3, SMTT(40)
  <2> QED
    BY <2>2, <2>3, <2>4, <1>3
<1> QED
  BY <1>3, <1>5, <1>6 DEF m, b, l

\* A stored block.
LEMMA StoredFacts ==
  ASSUME NEW f \in Int, NEW B \in Seq(Int), Len(B) <= MB
  PROVE  LET v == Writer!Stored(f, B)
         IN  /\ v \in Seq(Int) /\ Len(v) = 5 + Len(B)
             /\ v[1] = f /\ v[2] = Writer!Low(Len(B)) /\ v[3] = Writer!High(Len(B))
             /\ v[4] = Writer!Not(v[2]) /\ v[5] = Writer!Not(v[3])
             /\ \A j \in 1..Len(B) : v[5 + j] = B[j]
<1> DEFINE n == Len(B)
           lo == Writer!Low(n)
           hi == Writer!High(n)
           h == <<f, lo, hi, Writer!Not(lo), Writer!Not(hi)>>
           v == h \o B
<1>1. n \in Nat /\ LenBase \in Nat \ {0}
  BY MaxBlockIsNat, LenProperties
<1>2. lo \in Nat /\ hi \in Nat
  <2>1. lo \in Nat
    BY <1>1, Division DEF Writer!Low
  <2>2. n \div LenBase \in Nat
    BY <1>1, Division
  <2> DEFINE q == n \div LenBase
  <2>3. q % LenBase \in Nat
    <3> HIDE DEF q
    <3> QED
      BY <1>1, <2>2, Division DEF q
  <2> QED
    BY <2>1, <2>3 DEF Writer!High
<1>3. Writer!Not(lo) \in Int /\ Writer!Not(hi) \in Int
  BY <1>1, <1>2 DEF Writer!Not
<1>4. Writer!Stored(f, B) = v
  BY DEF Writer!Stored
<1> HIDE DEF n, lo, hi
<1>5. h \in Seq(Int) /\ Len(h) = 5
  BY <1>2, <1>3
<1>6. h[1] = f /\ h[2] = lo /\ h[3] = hi /\ h[4] = Writer!Not(lo) /\ h[5] = Writer!Not(hi)
  OBVIOUS
<1> HIDE DEF h
<1>7. /\ v \in Seq(Int) /\ Len(v) = 5 + n
      /\ \A j \in 1..5 : v[j] = h[j]
      /\ \A j \in 1..n : v[5 + j] = B[j]
  <2>1. /\ v \in Seq(Int) /\ Len(v) = Len(h) + Len(B)
        /\ \A i \in 1..Len(h) : v[i] = h[i]
        /\ \A j \in 1..Len(B) : v[Len(h) + j] = B[j]
    <3>1. h \in Seq(Int) /\ B \in Seq(Int)
      BY <1>5
    <3> QED
      BY <3>1, ConcatFacts
  <2> HIDE DEF v
  <2> QED
    BY <2>1, <1>5 DEF n
<1>9. v[1] = f /\ v[2] = lo /\ v[3] = hi /\ v[4] = Writer!Not(lo) /\ v[5] = Writer!Not(hi)
  <2> HIDE DEF v
  <2> QED
    BY <1>6, <1>7
<1> HIDE DEF v
<1> QED
  BY <1>4, <1>7, <1>9 DEF n, lo, hi

\* The state of the reader behind a block.
Behind(a, x, f, B) == [at |-> a + 5 + Len(B), data |-> x \o B, more |-> f # 1]

\* The reader understands a stored block.
LEMMA ReadOne ==
  ASSUME NEW d \in Seq(Int), NEW a \in Nat, NEW x \in Seq(Int), NEW f \in Int,
         NEW B \in Seq(Int), Len(B) <= MB, HoldsAt(d, a, Writer!Stored(f, B))
  PROVE  Writer!ReadBlock(d, [at |-> a, data |-> x, more |-> TRUE])
           = Behind(a, x, f, B)
<1> DEFINE v == Writer!Stored(f, B)
           l == Len(B)
           s == [at |-> a, data |-> x, more |-> TRUE]
           n == d[a + 2] + LenBase * d[a + 3]
<1>1. l \in Nat /\ Len(d) \in Nat
  BY LenProperties
<1>0. a + 5 + l <= Len(d) /\ \A j \in 1..5 + l : d[a + j] = v[j]
  <2>1. Len(v) = 5 + l
    BY StoredFacts, Zenon
  <2> HIDE DEF v
  <2>2. a + (5 + l) <= Len(d) /\ \A j \in 1..5 + l : d[a + j] = v[j]
    BY <2>1, Zenon DEF HoldsAt, v
  <2>3. a + (5 + l) = a + 5 + l
    BY <1>1
  <2> QED
    BY <2>2, <2>3, Zenon
<1>2. /\ d[a + 1] = f
      /\ d[a + 2] = Writer!Low(l) /\ d[a + 3] = Writer!High(l)
      /\ d[a + 4] = Writer!Not(d[a + 2]) /\ d[a + 5] = Writer!Not(d[a + 3])
  <2>1. 1 \in 1..5 + l /\ 2 \in 1..5 + l /\ 3 \in 1..5 + l /\ 4 \in 1..5 + l /\ 5 \in 1..5 + l
    BY <1>1
  <2>2. d[a + 1] = v[1] /\ d[a + 2] = v[2] /\ d[a + 3] = v[3] /\ d[a + 4] = v[4] /\ d[a + 5] = v[5]
    BY <1>0, <2>1
  <2>3. /\ v[1] = f /\ v[2] = Writer!Low(l) /\ v[3] = Writer!High(l)
        /\ v[4] = Writer!Not(v[2]) /\ v[5] = Writer!Not(v[3])
    BY StoredFacts, ZenonT(40)
  <2> HIDE DEF v, l
  <2> QED
    BY <2>2, <2>3, Zenon
<1>3. n = l
  <2>1. l \in 0..MB
    BY <1>1, MaxBlockIsNat
  <2> HIDE DEF l
  <2>2. n = Writer!Low(l) + LenBase * Writer!High(l)
    BY <1>2, Zenon
  <2> HIDE DEF n
  <2> QED
    BY <2>1, <2>2, Digits
<1>4. SubSeq(d, a + 6, a + 5 + l) = B
  <2> DEFINE u == SubSeq(d, a + 6, a + 5 + l)
  <2>1. u \in Seq(Int) /\ Len(u) = l /\ \A i \in 1..l : u[i] = d[a + 6 + i - 1]
    <3>1. \A p \in Nat, q \in Nat : p <= q /\ q <= Len(d) =>
            LET w == SubSeq(d, p + 1, q)
            IN  w \in Seq(Int) /\ Len(w) = q - p /\ \A i \in 1..q - p : w[i] = d[p + i]
      BY SubSeqProperties
    <3> DEFINE p == a + 5
               q == a + 5 + l
    <3>4. p \in Nat /\ q \in Nat /\ p <= q /\ q - p = l /\ p + 1 = a + 6
      BY <1>1
    <3>5. u = SubSeq(d, p + 1, q) /\ q <= Len(d)
      BY <3>4, <1>0
    <3>6. \A i \in 1..l : a + 6 + i - 1 = p + i
      BY <1>1
    <3> HIDE DEF p, q, u, l, v, n, s
    <3>7. LET w == SubSeq(d, p + 1, q)
          IN  w \in Seq(Int) /\ Len(w) = q - p /\ \A i \in 1..q - p : w[i] = d[p + i]
      BY <3>1, <3>4, <3>5
    <3>2. u \in Seq(Int) /\ Len(u) = l
      BY <3>4, <3>5, <3>7
    <3>3. \A i \in 1..l : u[i] = d[a + 6 + i - 1]
      BY <3>4, <3>5, <3>6, <3>7, Zenon
    <3> QED
      BY <3>2, <3>3
  <2> HIDE DEF u
  <2>2. ASSUME NEW i \in 1..l PROVE u[i] = B[i]
    <3>1. u[i] = d[a + (5 + i)]
      <4>1. a + 6 + i - 1 = a + (5 + i)
        BY <1>1
      <4> QED
        BY <4>1, <2>1
    <3>2. 5 + i \in 1..5 + l
      BY <1>1
    <3>3. v[5 + i] = B[i]
      <4>1. \A j \in 1..l : v[5 + j] = B[j]
        BY StoredFacts, Zenon
      <4> HIDE DEF v, l
      <4> QED
        BY <4>1
    <3> QED
      BY <1>0, <3>1, <3>2, <3>3
  <2>3. u = B
    BY <2>1, <2>2, SameSeq
  <2> QED
    BY <2>3 DEF u
<1>5. Len(d) - a >= 5 /\ n <= Len(d) - a - 5
  BY <1>0, <1>1, <1>3
<1>6. s.at = a /\ s.data = x /\ s.more
  OBVIOUS
<1>7. ~(Len(d) - a < 5) /\ ~(n > Len(d) - a - 5)
  BY <1>5, <1>3, <1>1
<1>8. Writer!ReadBlock(d, s) = [at |-> a + 5 + n, data |-> x \o SubSeq(d, a + 6, a + 5 + n),
                               more |-> d[a + 1] # 1]
  <2>1. /\ ~(d[a + 4] # Writer!Not(d[a + 2]) \/ d[a + 5] # Writer!Not(d[a + 3]))
    BY <1>2, Zenon
  <2> QED
    BY <1>6, <1>7, <2>1, Zenon DEF Writer!ReadBlock
<1> QED
  BY <1>2, <1>3, <1>4, <1>8, Zenon DEF Behind

\* Where the k-th block ends.
CutAt(data, k) == IF k = Writer!Blocks(data) THEN Len(data) ELSE k * MB

\* The minimum of two numbers.
LEMMA Lesser ==
  ASSUME NEW a \in Int, NEW b \in Int
  PROVE  Writer!Min({a, b}) = IF a <= b THEN a ELSE b
<1> DEFINE c == IF a <= b THEN a ELSE b
           P(x) == x \in {a, b} /\ \A y \in {a, b} : x <= y
<1>1. P(c)
  OBVIOUS
<1>2. \A x : P(x) => x = c
  OBVIOUS
<1>3. Writer!Min({a, b}) = CHOOSE x \in {a, b} : \A y \in {a, b} : x <= y
  BY DEF Writer!Min
<1>4. Writer!Min({a, b}) = CHOOSE x : P(x)
  BY <1>3
<1> HIDE DEF P, c
<1>5. (CHOOSE x : P(x)) = c
  BY <1>1, <1>2
<1> QED
  BY <1>4, <1>5 DEF c

\* A block is the piece between two cuts, and fits.
LEMMA BlockFacts ==
  ASSUME NEW data \in Seq(Int), Len(data) > 0, NEW k \in 1..Writer!Blocks(data)
  PROVE  /\ CutAt(data, k - 1) \in Nat /\ CutAt(data, k) \in Nat
         /\ CutAt(data, k - 1) <= CutAt(data, k) /\ CutAt(data, k) <= Len(data)
         /\ Writer!Block(data, k) = SubSeq(data, CutAt(data, k - 1) + 1, CutAt(data, k))
         /\ Writer!Block(data, k) \in Seq(Int)
         /\ Len(Writer!Block(data, k)) <= MB
<1> DEFINE m == Writer!Blocks(data)
           l == Len(data)
           a == (k - 1) * MB
           b == k * MB
           c == CutAt(data, k)
<1>1. /\ MB \in Nat \ {0} /\ l \in Nat /\ m \in Nat /\ k \in Nat /\ k - 1 \in Nat
      /\ k <= m /\ ~(k - 1 >= m)
  BY MaxBlockIsNat, BlockCount, LenProperties
<1>2. a \in Nat /\ b = a + MB /\ a < l /\ (b >= l <=> k = m)
  <2>1. (b >= l <=> k >= m) /\ ~(a >= l)
    BY <1>1, BlockCount
  <2>2. a \in Int /\ a >= 0 /\ b = a + MB
    BY <1>1
  <2> QED
    BY <2>1, <2>2, <1>1
<1>3. CutAt(data, k - 1) = a
  BY <1>1 DEF CutAt
<1>4. c = IF b >= l THEN l ELSE b
  BY <1>2 DEF CutAt
<1>5. Writer!Block(data, k) = SubSeq(data, a + 1, c)
  <2>1. Writer!Min({b, l}) = c
    <3>1. b \in Int /\ l \in Int
      BY <1>1, <1>2
    <3>2. Writer!Min({b, l}) = IF b <= l THEN b ELSE l
      BY <3>1, Lesser
    <3> HIDE DEF b, l, c
    <3> QED
      BY <3>1, <3>2, <1>4
  <2>2. Writer!Block(data, k) = SubSeq(data, a + 1, Writer!Min({b, l}))
    BY DEF Writer!Block, MB
  <2> QED
    BY <2>1, <2>2, Zenon
<1> DEFINE B == Writer!Block(data, k)
<1>6. c \in Nat /\ a <= c /\ c <= l /\ c - a <= MB
  <2> HIDE DEF a, b, c, l
  <2> QED
    BY <1>1, <1>2, <1>4
<1>7. B \in Seq(Int) /\ Len(B) = c - a
  <2>1. \A x \in Nat, y \in Nat : x <= y /\ y <= l =>
           SubSeq(data, x + 1, y) \in Seq(Int) /\ Len(SubSeq(data, x + 1, y)) = y - x
    BY SubSeqProperties
  <2> HIDE DEF a, c
  <2> QED
    BY <2>1, <1>2, <1>5, <1>6
<1> HIDE DEF a, c, B
<1>8. /\ a \in Nat /\ c \in Nat /\ a <= c /\ c <= Len(data)
      /\ B = SubSeq(data, a + 1, c) /\ B \in Seq(Int) /\ Len(B) <= MB
  BY <1>2, <1>5, <1>6, <1>7 DEF B
<1> QED
  BY <1>3, <1>8 DEF B, c

\* The cuts begin and end with the data.
LEMMA LastCut ==
  ASSUME NEW data \in Seq(Int), Len(data) > 0
  PROVE  /\ CutAt(data, 0) = 0 /\ CutAt(data, Writer!Blocks(data)) = Len(data)
BY BlockCount, MaxBlockIsNat DEF CutAt

\* The k-th stored block, and all of them.
BlockAt(data, k) == Writer!Stored(IF k * MB >= Len(data) THEN 1 ELSE 0, Writer!Block(data, k))

Body(data) == Writer!FlattenSeq([k \in 1..Writer!Blocks(data) |-> BlockAt(data, k)])

\* Five bytes precede the bytes of a block.
LEMMA BlockAtFacts ==
  ASSUME NEW data \in Seq(Int), Len(data) > 0, NEW k \in 1..Writer!Blocks(data)
  PROVE  BlockAt(data, k) \in Seq(Int) /\ Len(BlockAt(data, k)) = 5 + Len(Writer!Block(data, k))
<1> DEFINE B == Writer!Block(data, k)
           f == IF k * MB >= Len(data) THEN 1 ELSE 0
<1>1. B \in Seq(Int) /\ Len(B) <= MB
  BY BlockFacts
<1>2. f \in Int
  OBVIOUS
<1> HIDE DEF B, f
<1>3. Writer!Stored(f, B) \in Seq(Int) /\ Len(Writer!Stored(f, B)) = 5 + Len(B)
  <2> DEFINE v == Writer!Stored(f, B)
  <2>1. v \in Seq(Int) /\ Len(v) = 5 + Len(B)
    BY <1>1, <1>2, StoredFacts, Zenon
  <2> QED
    BY <2>1
<1> QED
  BY <1>3 DEF BlockAt, B, f

\* What the reader has after each block, and after the last one.
LEMMA ReadBlocks ==
  ASSUME NEW data \in Seq(Int), Len(data) > 0,
         NEW flat,
         Joins(flat, [k \in 1..Writer!Blocks(data) |-> BlockAt(data, k)], Writer!Blocks(data), Int),
         NEW k \in 1..Writer!Blocks(data)
  PROVE  Writer!ReadBlock(flat[Writer!Blocks(data)],
             [at |-> Len(flat[k - 1]), data |-> SubSeq(data, 1, CutAt(data, k - 1)), more |-> TRUE])
           = [at |-> Len(flat[k]), data |-> SubSeq(data, 1, CutAt(data, k)),
              more |-> k # Writer!Blocks(data)]
<1> DEFINE m == Writer!Blocks(data)
           d == flat[m]
           s == [i \in 1..m |-> BlockAt(data, i)]
           B == Writer!Block(data, k)
           f == IF k * MB >= Len(data) THEN 1 ELSE 0
           v == Writer!Stored(f, B)
           a == Len(flat[k - 1])
           x == SubSeq(data, 1, CutAt(data, k - 1))
<1>1. m \in Nat /\ k \in 1..m /\ k - 1 \in 0..m /\ m \in 0..m /\ k \in 0..m /\ k \in Nat
  BY BlockCount
<1>3. s[k] = v
  BY DEF BlockAt
<1>4. Joins(flat, s, m, Int)
  OBVIOUS
<1> HIDE DEF s, m
<1>5. /\ Len(flat[k]) = Len(flat[k - 1]) + Len(s[k])
      /\ HoldsAt(d, Len(flat[k - 1]), s[k])
  BY <1>1, <1>4, JoinedParts
<1>6. /\ d \in Seq(Int) /\ a \in Nat /\ f \in Int /\ B \in Seq(Int) /\ Len(B) <= MB /\ Len(B) \in Nat
  <2>1. d \in Seq(Int) /\ flat[k - 1] \in Seq(Int)
    BY <1>1, <1>4 DEF Joins
  <2>2. B \in Seq(Int) /\ Len(B) <= MB
    BY BlockFacts, <1>1 DEF m
  <2> QED
    BY <2>1, <2>2, LenProperties
<1>7. /\ CutAt(data, k - 1) \in Nat /\ CutAt(data, k) \in Nat
      /\ CutAt(data, k - 1) <= CutAt(data, k) /\ CutAt(data, k) <= Len(data)
      /\ B = SubSeq(data, CutAt(data, k - 1) + 1, CutAt(data, k))
  BY BlockFacts, <1>1 DEF m
<1>8. x \in Seq(Int) /\ x \o B = SubSeq(data, 1, CutAt(data, k))
  <2> DEFINE p == CutAt(data, k - 1)
             q == CutAt(data, k)
  <2>1. p \in Nat /\ q \in Nat /\ p <= q /\ q <= Len(data) /\ Len(data) \in Nat
    BY <1>7, LenProperties
  <2> HIDE DEF p, q
  <2>2. SubSeq(data, 1, p) \in Seq(Int)
    BY <2>1, SubSeqProperties
  <2>3. SubSeq(data, 1, p) \o SubSeq(data, p + 1, q) = SubSeq(data, 1, q)
    BY <2>1, Pieces
  <2> QED
    BY <2>2, <2>3, <1>7 DEF p, q
<1>9. Len(v) = 5 + Len(B)
  <2> HIDE DEF B, f
  <2> QED
    BY <1>6, StoredFacts, Zenon
<1>10. f # 1 <=> k # m
  <2>1. k * MB >= Len(data) <=> k >= m
    BY <1>1, BlockCount DEF m
  <2> QED
    BY <2>1, <1>1
<1> HIDE DEF d, B, f, x, a
<1>11. HoldsAt(d, a, v) /\ Len(flat[k]) = a + 5 + Len(B)
  <2> HIDE DEF v
  <2>1. HoldsAt(d, a, v) /\ Len(flat[k]) = a + (5 + Len(B))
    BY <1>3, <1>5, <1>9, Zenon DEF a
  <2>2. a + (5 + Len(B)) = a + 5 + Len(B)
    BY <1>6
  <2> QED
    BY <2>1, <2>2, Zenon
<1>12. Writer!ReadBlock(d, [at |-> a, data |-> x, more |-> TRUE]) = Behind(a, x, f, B)
  BY <1>6, <1>8, <1>11, ReadOne
<1>13. Writer!ReadBlock(d, [at |-> a, data |-> x, more |-> TRUE])
         = [at |-> Len(flat[k]), data |-> SubSeq(data, 1, CutAt(data, k)), more |-> k # m]
  BY <1>8, <1>10, <1>11, <1>12, Zenon DEF Behind
<1> QED
  BY <1>13 DEF d, x, a, m

\* The state of the reader after k blocks of the data.
After(flat, data, k) ==
  [at |-> Len(flat[k]), data |-> SubSeq(data, 1, CutAt(data, k)), more |-> k # Writer!Blocks(data)]

\* The reader gets back what has been stored.
THEOREM BlocksInflate ==
  ASSUME NEW data \in Seq(Int), Len(data) > 0
  PROVE  Body(data) \in Seq(Int) /\ Writer!Inflate(Body(data)) = data
<1> DEFINE m == Writer!Blocks(data)
           s == [k \in 1..m |-> BlockAt(data, k)]
           d == Body(data)
<1>1. m \in Nat \ {0} /\ m \in Nat
  BY BlockCount
<1>2. PICK flat : Joins(flat, s, m, Int) /\ Writer!FlattenSeq(s) = flat[m]
  <2>1. s \in [1..m -> Seq(Int)]
    BY BlockAtFacts
  <2> HIDE DEF s, m
  <2> QED
    BY <1>1, <2>1, FlattenParts
<1>3. d = flat[m]
  BY <1>2 DEF Body
<1>4. flat \in [0..m -> Seq(Int)] /\ flat[0] = <<>> /\ d \in Seq(Int)
  <2> HIDE DEF d, s, m
  <2> QED
    BY <1>1, <1>2, <1>3 DEF Joins
<1>5. ASSUME NEW k \in 1..m
      PROVE  Len(flat[k]) >= Len(flat[k - 1]) + 5 /\ Len(flat[k - 1]) \in Nat /\ Len(flat[k]) \in Nat
  <2>1. Len(s[k]) \in Nat /\ Len(s[k]) >= 5
    <3>1. Len(BlockAt(data, k)) = 5 + Len(Writer!Block(data, k)) /\ Writer!Block(data, k) \in Seq(Int)
      BY BlockAtFacts, BlockFacts
    <3>2. s[k] = BlockAt(data, k)
      OBVIOUS
    <3> HIDE DEF s
    <3> QED
      BY <3>1, <3>2, LenProperties
  <2> HIDE DEF s, m
  <2>2. Len(flat[k]) = Len(flat[k - 1]) + Len(s[k])
    <3>1. Joins(flat, s, m, Int)
      BY <1>2
    <3>2. \A n \in 1..m : Len(flat[n]) = Len(flat[n - 1]) + Len(s[n])
      <4>1. \A n \in 1..m : /\ Len(flat[n]) = Len(flat[n - 1]) + Len(s[n])
                             /\ HoldsAt(flat[m], Len(flat[n - 1]), s[n])
        BY <1>1, <3>1, JoinedParts
      <4> QED
        BY <4>1, Zenon
    <3> QED
      BY <3>2, Zenon
  <2>3. k \in 0..m /\ k - 1 \in 0..m
    BY <1>1
  <2>4. Len(flat[k - 1]) \in Nat /\ Len(flat[k]) \in Nat
    BY <1>4, <2>3, LenProperties
  <2> DEFINE x == Len(flat[k - 1])
             y == Len(flat[k])
             z == Len(s[k])
  <2>5. x \in Nat /\ y \in Nat /\ z \in Nat /\ z >= 5 /\ y = x + z
    BY <2>1, <2>2, <2>4, Zenon
  <2> HIDE DEF x, y, z
  <2>6. y >= x + 5 /\ x \in Nat /\ y \in Nat
    BY <2>5
  <2> QED
    BY <2>6 DEF x, y
\* There are no more blocks than bytes.
<1>6. Len(d) \in Nat /\ m <= Len(d)
  <2> HIDE DEF d, s, m
  <2> DEFINE T == {n \in Nat : n <= m => Len(flat[n]) >= n}
  <2>1. 0 \in T
    BY <1>4, LenProperties
  <2>2. ASSUME NEW n \in Nat, n < m, n \in T PROVE n + 1 \in T
    <3>1. n + 1 \in 1..m /\ (n + 1) - 1 = n
      BY <1>1, <2>2
    <3>2. Len(flat[n + 1]) >= Len(flat[n]) + 5 /\ Len(flat[n]) \in Nat /\ Len(flat[n + 1]) \in Nat
      BY <1>5, <3>1
    <3> DEFINE x == Len(flat[n])
               y == Len(flat[n + 1])
    <3>3. x >= n /\ y >= x + 5 /\ x \in Nat /\ y \in Nat
      BY <1>1, <2>2, <3>2
    <3> HIDE DEF x, y
    <3>4. y >= n + 1
      BY <3>3
    <3> QED
      BY <3>4 DEF y
  <2>3. m \in 0..m
    BY <1>1
  <2>4. \A n \in 0..m : n \in T
    <3> HIDE DEF T
    <3> QED
      BY <1>1, <2>1, <2>2, InductionTo
  <2>5. m \in T
    BY <2>3, <2>4
  <2> QED
    BY <1>1, <1>3, <1>4, <2>5, LenProperties
<1> DEFINE c == [at |-> 0, data |-> <<>>, more |-> TRUE]
           last == After(flat, data, m)
           st == [k \in 0..Len(d) |-> IF k < m THEN After(flat, data, k) ELSE last]
           Eq(r) == r = [k \in 0..Len(d) |-> IF k = 0 THEN c ELSE Writer!ReadBlock(d, r[k - 1])]
<1>7. After(flat, data, 0) = c
  <2>1. CutAt(data, 0) = 0 /\ 0 # m
    BY LastCut, <1>1
  <2>2. SubSeq(data, 1, 0) = <<>>
    BY EmptySeq, SubSeqProperties
  <2>3. Len(flat[0]) = 0
    BY <1>4
  <2> QED
    BY <2>1, <2>2, <2>3, Zenon DEF After
<1>8. last = [at |-> Len(flat[m]), data |-> data, more |-> FALSE]
  <2>1. CutAt(data, m) = Len(data)
    BY LastCut
  <2>2. SubSeq(data, 1, Len(data)) = data
    <3>1. /\ SubSeq(data, 1, Len(data)) \in Seq(Int)
          /\ Len(SubSeq(data, 1, Len(data))) = Len(data)
          /\ \A i \in 1..Len(data) : SubSeq(data, 1, Len(data))[i] = data[i]
      BY SubSeqProperties
    <3> QED
      BY <3>1, SameSeq
  <2> QED
    BY <2>1, <2>2, Zenon DEF After
<1>9. ASSUME NEW k \in 1..m
      PROVE  Writer!ReadBlock(d, After(flat, data, k - 1)) = After(flat, data, k)
  <2>1. k - 1 # m
    BY <1>1
  <2>2. After(flat, data, k - 1) =
          [at |-> Len(flat[k - 1]), data |-> SubSeq(data, 1, CutAt(data, k - 1)), more |-> TRUE]
    BY <2>1, Zenon DEF After
  <2>3. Writer!ReadBlock(flat[m],
             [at |-> Len(flat[k - 1]), data |-> SubSeq(data, 1, CutAt(data, k - 1)), more |-> TRUE])
           = After(flat, data, k)
    BY <1>2, ReadBlocks DEF After
  <2> QED
    BY <1>3, <2>2, <2>3, Zenon
<1>10. Writer!ReadBlock(d, last) = last
  <2> DEFINE e == [at |-> Len(flat[m]), data |-> data, more |-> FALSE]
  <2>1. ~e.more
    OBVIOUS
  <2>2. Writer!ReadBlock(d, e) = e
    <3> HIDE DEF e
    <3> QED
      BY <2>1, Zenon DEF Writer!ReadBlock
  <2> QED
    BY <1>8, <2>2, Zenon
<1>11. Eq(st)
  <2> HIDE DEF last, c, d, m
  <2>1. ASSUME NEW k \in 0..Len(d)
        PROVE  st[k] = IF k = 0 THEN c ELSE Writer!ReadBlock(d, st[k - 1])
    <3>1. CASE k = 0
      BY <3>1, <1>1, <1>6, <1>7
    <3>2. CASE k # 0 /\ k <= m
      <4>1. k \in 1..m /\ k - 1 \in 0..Len(d) /\ k - 1 < m
        BY <3>2, <1>1, <1>6
      <4>2. st[k - 1] = After(flat, data, k - 1)
        BY <4>1
      <4>3. st[k] = After(flat, data, k)
        <5>1. CASE k = m
          BY <5>1, <1>1, <1>6 DEF last
        <5>2. CASE k # m
          BY <5>2, <3>2, <1>1
        <5> QED
          BY <5>1, <5>2
      <4>4. Writer!ReadBlock(d, After(flat, data, k - 1)) = After(flat, data, k)
        BY <4>1, <1>9
      <4> HIDE DEF st
      <4> QED
        BY <3>2, <4>2, <4>3, <4>4, Zenon
    <3>3. CASE k > m
      <4>1. k - 1 \in 0..Len(d) /\ ~(k - 1 < m) /\ ~(k < m) /\ k # 0
        BY <3>3, <1>1, <1>6
      <4>2. st[k - 1] = last /\ st[k] = last
        BY <4>1
      <4> HIDE DEF st
      <4> QED
        BY <4>1, <4>2, <1>10, Zenon
    <3>4. k = 0 \/ (k # 0 /\ k <= m) \/ k > m
      BY <1>1, <1>6
    <3> QED
      BY <3>1, <3>2, <3>3, <3>4, Zenon
  <2>2. st = [k \in 0..Len(d) |-> st[k]]
    OBVIOUS
  <2> HIDE DEF st
  <2>3. [k \in 0..Len(d) |-> st[k]]
          = [k \in 0..Len(d) |-> IF k = 0 THEN c ELSE Writer!ReadBlock(d, st[k - 1])]
    BY <2>1, Zenon
  <2> QED
    BY <2>2, <2>3, Zenon
<1> DEFINE read == CHOOSE r : Eq(r)
<1>12. Eq(read)
  <2> HIDE DEF Eq
  <2> QED
    BY <1>11
<1>13. read[Len(d)] = st[Len(d)]
  <2> HIDE DEF st, read, d, c, last, m
  <2> DEFINE T == {n \in Nat : n <= Len(d) => read[n] = st[n]}
  <2>1. ASSUME NEW r, Eq(r)
        PROVE  r[0] = c /\ \A n \in Nat : n + 1 <= Len(d) => r[n + 1] = Writer!ReadBlock(d, r[n])
    <3>1. 0 \in 0..Len(d)
      BY <1>6
    <3>2. ASSUME NEW n \in Nat, n + 1 <= Len(d) PROVE r[n + 1] = Writer!ReadBlock(d, r[n])
      <4> DEFINE k == n + 1
      <4>1. k \in 0..Len(d) /\ k # 0 /\ k - 1 = n
        BY <3>2, <1>6
      <4> HIDE DEF k
      <4>2. r[k] = Writer!ReadBlock(d, r[k - 1])
        BY <2>1, <4>1, Zenon
      <4> QED
        BY <4>1, <4>2, Zenon DEF k
    <3>3. r[0] = c
      BY <2>1, <3>1, Zenon
    <3> QED
      BY <3>2, <3>3
  <2> HIDE DEF Eq
  <2>2. 0 \in T
    BY <2>1, <1>11, <1>12
  <2>3. ASSUME NEW n \in Nat, n < Len(d), n \in T PROVE n + 1 \in T
    <3>1. n + 1 \in Nat /\ n + 1 <= Len(d) /\ read[n] = st[n]
      BY <2>3, <1>6
    <3>2. read[n + 1] = Writer!ReadBlock(d, read[n]) /\ st[n + 1] = Writer!ReadBlock(d, st[n])
      BY <2>1, <3>1, <1>11, <1>12, Zenon
    <3> QED
      BY <3>1, <3>2, Zenon
  <2>4. \A n \in 0..Len(d) : n \in T
    <3> HIDE DEF T
    <3> QED
      BY <1>6, <2>2, <2>3, InductionTo
  <2> QED
    BY <1>6, <2>4
<1>14. st[Len(d)] = last
  <2> HIDE DEF d, m, last
  <2> QED
    BY <1>1, <1>6
<1>15. Writer!Inflate(d) = IF read[Len(d)].more THEN Writer!Bad ELSE read[Len(d)].data
  <2> HIDE DEF d
  <2> QED
    BY Zenon DEF Writer!Inflate
<1>16. Writer!Inflate(d) = data
  <2>1. read[Len(d)] = [at |-> Len(flat[m]), data |-> data, more |-> FALSE]
    BY <1>8, <1>13, <1>14, Zenon
  <2> HIDE DEF read, d, m
  <2> QED
    BY <1>15, <2>1
<1> QED
  BY <1>4, <1>16

-----------------------------------------------------------------------------
(* Lines of the image *)

\* The m parts of s have w places each.
AllAreLong(s, m, w) == \A k \in 1..m : Len(s[k]) = w

\* Parts of the same length.
LEMMA EqualParts ==
  ASSUME NEW S, NEW m \in Nat, NEW s, NEW flat, Joins(flat, s, m, S), NEW w \in Nat,
         AllAreLong(s, m, w)
  PROVE  \A k \in 0..m : Len(flat[k]) = k * w
<1>1. \A k \in 1..m : /\ Len(flat[k]) = Len(flat[k - 1]) + Len(s[k])
                      /\ HoldsAt(flat[m], Len(flat[k - 1]), s[k])
  BY JoinedParts
<1> DEFINE T == {k \in Nat : Len(flat[k]) = k * w}
<1>2. 0 \in T
  <2>1. Len(flat[0]) = 0
    BY DEF Joins
  <2> QED
    BY <2>1
<1>3. ASSUME NEW k \in Nat, k < m, k \in T PROVE k + 1 \in T
  <2>1. k + 1 \in 1..m /\ (k + 1) - 1 = k
    BY <1>3
  <2>2. Len(flat[k + 1]) = Len(flat[k]) + w
    BY <1>1, <2>1 DEF AllAreLong
  <2>3. (k + 1) * w = k * w + w
    OBVIOUS
  <2> QED
    BY <1>3, <2>2, <2>3
<1>4. \A k \in 0..m : k \in T
  <2> HIDE DEF T
  <2> QED
    BY <1>2, <1>3, InductionTo
<1> QED
  BY <1>4

\* rgb_buffer holds an image of the given size.
Picture == /\ size \in Sizes
           /\ rgb \in Seq(Int) /\ Len(rgb) = Writer!RowBytes * Writer!height

\* Nothing has no width or height.
LEMMA Measures ==
  ASSUME size \in Sizes
  PROVE  /\ Writer!width \in Nat \ {0} /\ Writer!height \in Nat \ {0}
         /\ Writer!RowBytes \in Nat \ {0}
BY WriterAssumption DEF Writer!width, Writer!height, Writer!RowBytes

\* The bytes of a line.
Line(y) == SubSeq(rgb, (y - 1) * Writer!RowBytes + 1, y * Writer!RowBytes)

\* A line lies within the image.
LEMMA LineFacts ==
  ASSUME Picture, NEW y \in 1..Writer!height
  PROVE  /\ Line(y) \in Seq(Int) /\ Len(Line(y)) = Writer!RowBytes
         /\ y * Writer!RowBytes \in Nat /\ (y - 1) * Writer!RowBytes \in Nat
         /\ (y - 1) * Writer!RowBytes <= y * Writer!RowBytes
         /\ y * Writer!RowBytes <= Len(rgb)
<1> DEFINE w == Writer!RowBytes
           h == Writer!height
           a == (y - 1) * w
           b == y * w
<1>1. w \in Nat \ {0} /\ h \in Nat \ {0} /\ y \in 1..h /\ y - 1 \in Nat
  BY Measures DEF Picture
<1>2. rgb \in Seq(Int) /\ Len(rgb) = w * h
  BY DEF Picture
<1> HIDE DEF w, h
<1>3. a \in Nat /\ b \in Nat /\ b = a + w
  BY <1>1
<1>4. b <= w * h
  <2>1. w * h = h * w /\ h * w \in Int
    BY <1>1
  <2>2. CASE y = h
    BY <2>1, <2>2, <1>1
  <2>3. CASE y < h
    <3>1. h * w >= y * w + w
      BY <2>3, <1>1, Multiples
    <3> QED
      BY <3>1, <2>1, <1>1, <1>3
  <2> QED
    BY <2>2, <2>3, <1>1
<1>5. SubSeq(rgb, a + 1, b) \in Seq(Int) /\ Len(SubSeq(rgb, a + 1, b)) = w
  <2> HIDE DEF a, b
  <2>1. \A p \in Nat, q \in Nat : p <= q /\ q <= Len(rgb) =>
           SubSeq(rgb, p + 1, q) \in Seq(Int) /\ Len(SubSeq(rgb, p + 1, q)) = q - p
    BY <1>2, SubSeqProperties
  <2> QED
    BY <2>1, <1>1, <1>2, <1>3, <1>4
<1>6. a <= b
  <2> HIDE DEF a, b
  <2> QED
    BY <1>1, <1>3
<1> QED
  BY <1>2, <1>3, <1>4, <1>5, <1>6 DEF Line, w, h

\* The lines of an image, one behind the other, are the image.
LEMMA LinesMakeThePicture ==
  ASSUME Picture
  PROVE  Writer!FlattenSeq([y \in 1..Writer!height |-> Line(y)]) = rgb
<1> DEFINE w == Writer!RowBytes
           h == Writer!height
           s == [y \in 1..h |-> Line(y)]
<1>1. w \in Nat \ {0} /\ h \in Nat \ {0} /\ rgb \in Seq(Int) /\ Len(rgb) = w * h
  BY Measures DEF Picture
<1>2. PICK flat : Joins(flat, s, h, Int) /\ Writer!FlattenSeq(s) = flat[h]
  <2>1. s \in [1..h -> Seq(Int)]
    BY LineFacts
  <2> HIDE DEF s, h
  <2> QED
    BY <1>1, <2>1, FlattenParts
<1>3. \A y \in 1..h : s[y] = SubSeq(rgb, (y - 1) * w + 1, y * w)
  BY DEF Line
<1>4. \A y \in 1..h : /\ y * w \in Nat /\ (y - 1) * w \in Nat
                      /\ (y - 1) * w <= y * w /\ y * w <= Len(rgb)
  BY LineFacts
<1> HIDE DEF s, w, h
<1> DEFINE T == {y \in Nat : flat[y] = SubSeq(rgb, 1, y * w)}
<1>5. 0 \in T
  <2>1. flat[0] = <<>>
    BY <1>2 DEF Joins
  <2>2. SubSeq(rgb, 1, 0) = <<>>
    BY <1>1, EmptySeq, SubSeqProperties
  <2>3. 0 * w = 0
    BY <1>1
  <2> QED
    BY <2>1, <2>2, <2>3
<1>6. ASSUME NEW n \in Nat, n < h, n \in T PROVE n + 1 \in T
  <2> DEFINE y == n + 1
             a == n * w
             b == y * w
  <2>1. y \in 1..h /\ y - 1 = n
    BY <1>1, <1>6
  <2> HIDE DEF y
  <2>2. flat[y] = flat[n] \o s[y]
    BY <1>2, <2>1, Zenon DEF Joins
  <2>3. flat[n] = SubSeq(rgb, 1, a)
    BY <1>6
  <2>4. s[y] = SubSeq(rgb, a + 1, b)
    BY <1>3, <2>1, Zenon
  <2>5. a \in Nat /\ b \in Nat /\ a <= b /\ b <= Len(rgb)
    BY <1>4, <2>1, Zenon
  <2>6. SubSeq(rgb, 1, a) \o SubSeq(rgb, a + 1, b) = SubSeq(rgb, 1, b)
    <3> HIDE DEF a, b
    <3> QED
      BY <1>1, <2>5, Pieces
  <2>7. flat[y] = SubSeq(rgb, 1, b)
    BY <2>2, <2>3, <2>4, <2>6, Zenon
  <2> QED
    BY <2>7 DEF y
<1>7. h \in 0..h
  BY <1>1
<1>8. \A y \in 0..h : y \in T
  <2> HIDE DEF T
  <2> QED
    BY <1>1, <1>5, <1>6, InductionTo
<1>9. flat[h] = SubSeq(rgb, 1, h * w)
  BY <1>7, <1>8
<1>10. h * w = Len(rgb)
  BY <1>1
<1>11. SubSeq(rgb, 1, Len(rgb)) = rgb
  <2>1. /\ SubSeq(rgb, 1, Len(rgb)) \in Seq(Int)
        /\ Len(SubSeq(rgb, 1, Len(rgb))) = Len(rgb)
        /\ \A i \in 1..Len(rgb) : SubSeq(rgb, 1, Len(rgb))[i] = rgb[i]
    BY <1>1, SubSeqProperties
  <2> QED
    BY <1>1, <2>1, SameSeq
<1> QED
  BY <1>2, <1>9, <1>10, <1>11, Zenon DEF s, h

\* A line behind its filter type.
Filtered(y) == <<0>> \o Line(y)

\* It is one byte longer.
LEMMA FilteredFacts ==
  ASSUME Picture, NEW y \in 1..Writer!height
  PROVE  /\ Filtered(y) \in Seq(Int) /\ Len(Filtered(y)) = Writer!RowBytes + 1
         /\ Filtered(y)[1] = 0
         /\ \A i \in 1..Writer!RowBytes : Filtered(y)[1 + i] = Line(y)[i]
<1> DEFINE z == <<0>>
           l == Line(y)
           w == Writer!RowBytes
<1>1. l \in Seq(Int) /\ Len(l) = w /\ w \in Nat
  BY LineFacts, Measures DEF Picture
<1>2. z \in Seq(Int) /\ Len(z) = 1 /\ z[1] = 0
  OBVIOUS
<1> HIDE DEF z, l, w
<1> DEFINE f == z \o l
<1>3. /\ f \in Seq(Int) /\ Len(f) = Len(z) + Len(l)
      /\ \A i \in 1..Len(z) : f[i] = z[i]
      /\ \A j \in 1..Len(l) : f[Len(z) + j] = l[j]
  <2>1. z \in Seq(Int) /\ l \in Seq(Int)
    BY <1>1, <1>2
  <2> QED
    BY <2>1, ConcatFacts
<1> HIDE DEF f
<1>4. f \in Seq(Int) /\ Len(f) = w + 1 /\ f[1] = 0 /\ \A i \in 1..w : f[1 + i] = l[i]
  BY <1>1, <1>2, <1>3
<1>5. Filtered(y) = f
  BY DEF Filtered, f, z, l
<1> QED
  BY <1>4, <1>5, Zenon DEF w, l

\* The reader finds a filter type of 0 in front of each line, and the line.
LEMMA RawDataFacts ==
  ASSUME Picture
  PROVE  /\ Writer!RawData \in Seq(Int)
         /\ Len(Writer!RawData) = (Writer!RowBytes + 1) * Writer!height /\ Len(Writer!RawData) > 0
         /\ \A y \in 1..Writer!height :
               /\ Writer!RawData[(y - 1) * (Writer!RowBytes + 1) + 1] = 0
               /\ Writer!Row(Writer!RawData, y) = Line(y)
<1> DEFINE w == Writer!RowBytes
           u == w + 1
           h == Writer!height
           s == [y \in 1..h |-> Filtered(y)]
           d == Writer!RawData
<1>1. w \in Nat \ {0} /\ h \in Nat \ {0} /\ u \in Nat \ {0}
  BY Measures DEF Picture
<1>2. PICK flat : Joins(flat, s, h, Int) /\ Writer!FlattenSeq(s) = flat[h]
  <2>1. s \in [1..h -> Seq(Int)]
    BY FilteredFacts
  <2> HIDE DEF s, h
  <2> QED
    BY <1>1, <2>1, FlattenParts
<1>3. d = flat[h]
  BY <1>2 DEF Writer!RawData, Filtered, Line
<1>4. \A y \in 1..h : s[y] = Filtered(y) /\ Len(s[y]) = u
  BY FilteredFacts
<1> HIDE DEF s, d, h, u
<1>5. \A y \in 0..h : Len(flat[y]) = y * u
  <2>1. Joins(flat, s, h, Int) /\ h \in Nat /\ u \in Nat /\ AllAreLong(s, h, u)
    BY <1>1, <1>2, <1>4 DEF AllAreLong
  <2> QED
    BY <2>1, EqualParts
<1>6. \A y \in 1..h : /\ Len(flat[y]) = Len(flat[y - 1]) + Len(s[y])
                      /\ HoldsAt(flat[h], Len(flat[y - 1]), s[y])
  <2>1. Joins(flat, s, h, Int)
    BY <1>2
  <2> QED
    BY <1>1, <2>1, JoinedParts
<1>7. d \in Seq(Int) /\ Len(d) = h * u /\ h * u > 0 /\ h * u = u * h
  <2>1. h \in 0..h
    BY <1>1
  <2>2. d \in Seq(Int)
    BY <1>2, <1>3, <2>1 DEF Joins
  <2> QED
    BY <1>1, <1>3, <1>5, <2>1, <2>2
<1>8. ASSUME NEW y \in 1..h
      PROVE  d[(y - 1) * u + 1] = 0 /\ Writer!Row(d, y) = Line(y)
  <2> DEFINE a == (y - 1) * u
             b == y * u
             f == Filtered(y)
             l == Line(y)
             r == SubSeq(d, a + 2, b)
  <2>1. y \in Nat /\ y - 1 \in 0..h /\ y - 1 \in Nat /\ y \in 0..h
    BY <1>1
  <2>2. a \in Nat /\ b = a + u /\ b = a + (w + 1) /\ b \in Nat
    BY <1>1, <2>1 DEF u
  <2>3. HoldsAt(d, a, f)
    BY <1>3, <1>4, <1>5, <1>6, <2>1
  <2>4. /\ f \in Seq(Int) /\ Len(f) = w + 1 /\ f[1] = 0 /\ \A i \in 1..w : f[1 + i] = l[i]
        /\ l \in Seq(Int) /\ Len(l) = w
    BY FilteredFacts, LineFacts DEF h
  <2> HIDE DEF f, l, a, b, w
  <2>5. b <= Len(d) /\ \A j \in 1..w + 1 : d[a + j] = f[j]
    BY <2>2, <2>3, <2>4 DEF HoldsAt
  <2>6. d[a + 1] = 0
    BY <1>1, <2>4, <2>5
  <2>7. r \in Seq(Int) /\ Len(r) = w /\ \A i \in 1..w : r[i] = d[(a + 2) + i - 1]
    BY <1>1, <1>7, <2>2, <2>5, SubSeqProperties
  <2> HIDE DEF r
  <2>8. ASSUME NEW i \in 1..w PROVE r[i] = l[i]
    <3>1. (a + 2) + i - 1 = a + (1 + i) /\ 1 + i \in 1..w + 1
      BY <1>1, <2>2
    <3>2. r[i] = d[a + (1 + i)]
      BY <2>7, <3>1
    <3>3. d[a + (1 + i)] = f[1 + i]
      BY <2>5, <3>1
    <3> QED
      BY <2>4, <3>2, <3>3
  <2>9. r = l
    BY <2>4, <2>7, <2>8, SameSeq
  <2>10. Writer!Row(d, y) = r
    BY DEF Writer!Row, r, a, b, u, w
  <2> QED
    BY <2>6, <2>9, <2>10, Zenon DEF a, l
<1> QED
  BY <1>7, <1>8, Zenon DEF u, h, d

-----------------------------------------------------------------------------
(* Checksums *)

\* A word is the set of its bits that are 1.
Words == SUBSET Writer!Word

\* A shift moves each bit n places down.
LEMMA ShiftFacts ==
  ASSUME NEW w \in Words, NEW n \in Nat
  PROVE  /\ \A i : i \in Writer!ShiftRight(w, n) <=> i \in Nat /\ i + n \in w
         /\ Writer!ShiftRight(w, n) \in Words
<1>1. w \subseteq 0..31
  BY DEF Words, Writer!Word
<1> DEFINE r == Writer!ShiftRight(w, n)
<1>2. r = {i - n : i \in {j \in w : j >= n}}
  BY DEF Writer!ShiftRight
<1>3. ASSUME NEW i, i \in r PROVE i \in Nat /\ i + n \in w /\ i \in 0..31
  <2>1. PICK j \in w : j >= n /\ i = j - n
    BY <1>2, <1>3
  <2>2. j \in 0..31
    BY <1>1, <2>1
  <2> HIDE DEF r
  <2>3. i + n = j
    BY <2>1, <2>2
  <2> QED
    BY <2>1, <2>2, <2>3
<1>4. ASSUME NEW i, i \in Nat, i + n \in w PROVE i \in r
  <2> DEFINE j == i + n
  <2>1. j \in {x \in w : x >= n} /\ j - n = i
    BY <1>4
  <2> HIDE DEF j
  <2> QED
    BY <1>2, <2>1
<1> QED
  BY <1>3, <1>4 DEF Words, Writer!Word

\* The bits in which two words differ.
LEMMA XorFacts ==
  ASSUME NEW x, NEW y
  PROVE  /\ \A i : i \in Writer!Xor(x, y) <=> (i \in x <=> i \notin y)
         /\ x \in Words /\ y \in Words => Writer!Xor(x, y) \in Words
BY DEF Writer!Xor, Words

\* A round is linear: bits above the lowest one only move down.
LEMMA RoundFacts ==
  ASSUME NEW x \in Words
  PROVE  /\ Writer!Round(x) \in Words
         /\ \A y \in Words : 0 \notin y =>
              Writer!Round(Writer!Xor(x, y)) = Writer!Xor(Writer!Round(x), Writer!ShiftRight(y, 1))
<1>1. Writer!Polynomial \in Words
  BY DEF Writer!Polynomial, Words, Writer!Word
<1>2. Writer!Round(x) \in Words
  BY <1>1, ShiftFacts, XorFacts DEF Writer!Round
<1>3. ASSUME NEW y \in Words, 0 \notin y
      PROVE  Writer!Round(Writer!Xor(x, y)) = Writer!Xor(Writer!Round(x), Writer!ShiftRight(y, 1))
  <2> DEFINE z == Writer!Xor(x, y)
             p == Writer!Polynomial
             a == Writer!ShiftRight(x, 1)
             b == Writer!ShiftRight(y, 1)
             c == Writer!ShiftRight(z, 1)
  <2>1. z \in Words /\ \A i : i \in z <=> (i \in x <=> i \notin y)
    BY XorFacts
  <2>2. c = Writer!Xor(a, b)
    <3>1. ASSUME NEW i PROVE i \in c <=> i \in Writer!Xor(a, b)
      <4>1. i \in c <=> i \in Nat /\ i + 1 \in z
        <5> HIDE DEF z
        <5> QED
          BY <2>1, ShiftFacts
      <4>2. (i \in a <=> i \in Nat /\ i + 1 \in x) /\ (i \in b <=> i \in Nat /\ i + 1 \in y)
        BY ShiftFacts
      <4>3. i \in Writer!Xor(a, b) <=> (i \in a <=> i \notin b)
        BY XorFacts
      <4>4. i + 1 \in z <=> (i + 1 \in x <=> i + 1 \notin y)
        BY <2>1
      <4> HIDE DEF a, b, c, z
      <4> QED
        BY <4>1, <4>2, <4>3, <4>4
    <3> HIDE DEF c
    <3> QED
      BY <3>1
  <2>3. Writer!Xor(p, Writer!Xor(a, b)) = Writer!Xor(Writer!Xor(p, a), b)
    BY DEF Writer!Xor
  <2>4. 0 \in z <=> 0 \in x
    BY <2>1, <1>3
  <2>5. Writer!Round(z) = IF 0 \in z THEN Writer!Xor(p, c) ELSE c
    BY DEF Writer!Round
  <2>6. Writer!Round(x) = IF 0 \in x THEN Writer!Xor(p, a) ELSE a
    BY DEF Writer!Round
  <2> HIDE DEF a, b, c, p
  <2>7. Writer!Round(z) = Writer!Xor(Writer!Round(x), b)
    BY <2>2, <2>3, <2>4, <2>5, <2>6
  <2> QED
    BY <2>7 DEF b
<1> QED
  BY <1>2, <1>3

\* What eight rounds go through.
Chain(r, c) ==
  r \in [0..8 -> Words] /\ r[0] = c /\ \A k \in 1..8 : r[k] = Writer!Round(r[k - 1])

\* There are such words, and Rounds is the last of them.
LEMMA ChainExists ==
  ASSUME NEW c \in Words
  PROVE  \E r : Chain(r, c)
<1> DEFINE F == [k \in 1..8 |-> [x \in Words |-> Writer!Round(x)]]
<1>1. F \in [1..8 -> [Words -> Words]]
  BY RoundFacts
<1>2. \A k \in 1..8 : \A x \in Words : F[k][x] = Writer!Round(x)
  OBVIOUS
<1> HIDE DEF F
<1>3. PICK r \in [0..8 -> Words] : Iterates(r, c, F, 8)
  BY <1>1, Iteration
<1>4. \A k \in 1..8 : r[k] = Writer!Round(r[k - 1])
  <2> SUFFICES ASSUME NEW k \in 1..8 PROVE r[k] = Writer!Round(r[k - 1])
    OBVIOUS
  <2>1. r[k - 1] \in Words
    OBVIOUS
  <2> QED
    BY <1>2, <1>3, <2>1 DEF Iterates
<1> QED
  BY <1>3, <1>4 DEF Iterates, Chain

LEMMA RoundsIsChain ==
  ASSUME NEW c \in Words, NEW r, Chain(r, c)
  PROVE  Writer!Rounds(c) = r[8]
<1>1. r \in [0..8 -> Words] /\ r[0] = c /\ \A k \in 1..8 : r[k] = Writer!Round(r[k - 1])
  BY DEF Chain
<1>2. CASE c = {}
  <2>1. Writer!Round({}) = {}
    BY DEF Writer!Round, Writer!ShiftRight
  <2> DEFINE T == {k \in Nat : k <= 8 => r[k] = {}}
  <2>2. 0 \in T
    BY <1>1, <1>2
  <2>3. ASSUME NEW k \in Nat, k < 8, k \in T PROVE k + 1 \in T
    <3>1. k + 1 \in 1..8 /\ (k + 1) - 1 = k
      BY <2>3
    <3> QED
      BY <1>1, <2>1, <2>3, <3>1
  <2>4. \A k \in 0..8 : k \in T
    <3> HIDE DEF T
    <3> QED
      BY <2>2, <2>3, InductionTo
  <2>5. r[8] = {}
    BY <2>4
  <2> QED
    BY <1>2, <2>5 DEF Writer!Rounds
<1>3. CASE c # {}
  <2> DEFINE Eq(q) == q = [k \in 0..8 |-> IF k = 0 THEN c ELSE Writer!Round(q[k - 1])]
             q == CHOOSE q : Eq(q)
  <2>1. Eq(r)
    <3>1. \A k \in 0..8 : r[k] = IF k = 0 THEN c ELSE Writer!Round(r[k - 1])
      BY <1>1
    <3>2. r = [k \in 0..8 |-> r[k]]
      BY <1>1
    <3>3. [k \in 0..8 |-> r[k]] = [k \in 0..8 |-> IF k = 0 THEN c ELSE Writer!Round(r[k - 1])]
      BY <3>1, Zenon
    <3> QED
      BY <3>2, <3>3, Zenon
  <2>2. Eq(q)
    <3> HIDE DEF Eq
    <3> QED
      BY <2>1
  <2>3. Writer!Rounds(c) = q[8]
    BY <1>3 DEF Writer!Rounds
  <2>4. q[0] = c /\ \A k \in 1..8 : q[k] = Writer!Round(q[k - 1])
    <3> HIDE DEF q
    <3>1. \A k \in 0..8 : q[k] = IF k = 0 THEN c ELSE Writer!Round(q[k - 1])
      BY <2>2, Zenon
    <3> QED
      BY <3>1
  <2> HIDE DEF q
  <2> DEFINE T == {k \in Nat : k <= 8 => r[k] = q[k]}
  <2>5. 0 \in T
    BY <1>1, <2>4
  <2>6. ASSUME NEW k \in Nat, k < 8, k \in T PROVE k + 1 \in T
    <3>1. k + 1 \in 1..8 /\ (k + 1) - 1 = k
      BY <2>6
    <3>2. r[k + 1] = Writer!Round(r[k]) /\ q[k + 1] = Writer!Round(q[k])
      BY <1>1, <2>4, <3>1
    <3> QED
      BY <2>6, <3>1, <3>2
  <2>7. \A k \in 0..8 : k \in T
    <3> HIDE DEF T
    <3> QED
      BY <2>5, <2>6, InductionTo
  <2>8. r[8] = q[8]
    BY <2>7
  <2> QED
    BY <2>3, <2>8
<1> QED
  BY <1>2, <1>3

\* The bits above the lowest eight only move down during eight rounds.
LEMMA RoundsSplit ==
  ASSUME NEW v \in Words
  PROVE  Writer!Rounds(v) = Writer!Xor(Writer!Rounds(v \cap (0..7)), Writer!ShiftRight(v, 8))
<1> DEFINE lo == v \cap (0..7)
           hi == v \ (0..7)
<1>1. lo \in Words /\ hi \in Words
  BY DEF Words
<1>2. PICK r : Chain(r, v)
  BY ChainExists
<1>3. PICK q : Chain(q, lo)
  BY <1>1, ChainExists
<1>4. /\ r \in [0..8 -> Words] /\ r[0] = v /\ \A k \in 1..8 : r[k] = Writer!Round(r[k - 1])
      /\ q \in [0..8 -> Words] /\ q[0] = lo /\ \A k \in 1..8 : q[k] = Writer!Round(q[k - 1])
  BY <1>2, <1>3 DEF Chain
<1>5. \A i : i \in hi => i \in 8..31
  BY DEF Words, Writer!Word
<1>6. v = Writer!Xor(lo, hi)
  BY DEF Writer!Xor
<1>7. Writer!ShiftRight(v, 8) = Writer!ShiftRight(hi, 8)
  <2>1. ASSUME NEW i PROVE i \in Writer!ShiftRight(v, 8) <=> i \in Writer!ShiftRight(hi, 8)
    <3>1. i \in Writer!ShiftRight(v, 8) <=> i \in Nat /\ i + 8 \in v
      BY ShiftFacts
    <3>2. i \in Writer!ShiftRight(hi, 8) <=> i \in Nat /\ i + 8 \in hi
      BY <1>1, ShiftFacts
    <3>3. i \in Nat => (i + 8 \in v <=> i + 8 \in hi)
      OBVIOUS
    <3> QED
      BY <3>1, <3>2, <3>3
  <2> QED
    BY <2>1
<1> HIDE DEF lo, hi
<1> DEFINE T == {k \in Nat : r[k] = Writer!Xor(q[k], Writer!ShiftRight(hi, k))}
<1>8. 0 \in T
  <2>1. ASSUME NEW i PROVE i \in Writer!ShiftRight(hi, 0) <=> i \in hi
    <3>1. i \in Writer!ShiftRight(hi, 0) <=> i \in Nat /\ i + 0 \in hi
      BY <1>1, ShiftFacts
    <3> QED
      BY <3>1, <1>5
  <2>2. Writer!ShiftRight(hi, 0) = hi
    BY <2>1
  <2> QED
    BY <1>4, <1>6, <2>2
<1>9. ASSUME NEW k \in Nat, k < 8, k \in T PROVE k + 1 \in T
  <2> DEFINE s == Writer!ShiftRight(hi, k)
  <2>1. k + 1 \in 1..8 /\ (k + 1) - 1 = k /\ k \in 0..8
    BY <1>9
  <2>2. s \in Words
    BY <1>1, ShiftFacts
  <2>3. 0 \notin s
    <3>1. 0 \in s <=> 0 \in Nat /\ 0 + k \in hi
      BY <1>1, ShiftFacts
    <3>2. ~(0 + k \in hi)
      BY <1>5, <1>9
    <3> QED
      BY <3>1, <3>2
  <2>4. Writer!ShiftRight(s, 1) = Writer!ShiftRight(hi, k + 1)
    <3>1. ASSUME NEW i PROVE i \in Writer!ShiftRight(s, 1) <=> i \in Writer!ShiftRight(hi, k + 1)
      <4>1. i \in Writer!ShiftRight(s, 1) <=> i \in Nat /\ i + 1 \in s
        <5> HIDE DEF s
        <5> QED
          BY <2>2, ShiftFacts
      <4>2. i + 1 \in s <=> i + 1 \in Nat /\ (i + 1) + k \in hi
        BY <1>1, ShiftFacts
      <4>3. i \in Writer!ShiftRight(hi, k + 1) <=> i \in Nat /\ i + (k + 1) \in hi
        BY <1>1, <2>1, ShiftFacts
      <4>4. i \in Nat => i + 1 \in Nat /\ (i + 1) + k = i + (k + 1)
        OBVIOUS
      <4> HIDE DEF s
      <4> QED
        BY <4>1, <4>2, <4>3, <4>4
    <3> HIDE DEF s
    <3> QED
      BY <3>1
  <2>5. r[k] = Writer!Xor(q[k], s) /\ q[k] \in Words
    BY <1>4, <1>9, <2>1
  <2> HIDE DEF s
  <2>6. Writer!Round(Writer!Xor(q[k], s)) = Writer!Xor(Writer!Round(q[k]), Writer!ShiftRight(s, 1))
    BY <2>2, <2>3, <2>5, RoundFacts
  <2>7. r[k + 1] = Writer!Round(r[k]) /\ q[k + 1] = Writer!Round(q[k])
    BY <1>4, <2>1
  <2>8. r[k + 1] = Writer!Xor(q[k + 1], Writer!ShiftRight(hi, k + 1))
    BY <2>4, <2>5, <2>6, <2>7, Zenon
  <2> QED
    BY <2>8
<1>10. \A k \in 0..8 : k \in T
  <2> HIDE DEF T
  <2> QED
    BY <1>8, <1>9, InductionTo
<1>11. r[8] = Writer!Xor(q[8], Writer!ShiftRight(hi, 8))
  BY <1>10
<1>12. Writer!Rounds(v) = r[8] /\ Writer!Rounds(lo) = q[8]
  BY <1>1, <1>2, <1>3, RoundsIsChain
<1> QED
  BY <1>7, <1>11, <1>12, Zenon DEF lo

LEMMA RoundsType ==
  ASSUME NEW v \in Words
  PROVE  Writer!Rounds(v) \in Words
<1>1. PICK r : Chain(r, v)
  BY ChainExists
<1>2. r[8] \in Words
  BY <1>1 DEF Chain
<1> QED
  BY <1>1, <1>2, RoundsIsChain

\* update_crc() takes the eight rounds of a byte from the table.
LEMMA TableStep ==
  ASSUME NEW w \in Words, NEW byte
  PROVE  Writer!Xor(Writer!crc_table[Writer!Xor(w, Writer!Bits(byte)) \cap (0..7)],
                    Writer!ShiftRight(w, 8))
           = Writer!Rounds(Writer!Xor(w, Writer!Bits(byte)))
<1> DEFINE b == Writer!Bits(byte)
           v == Writer!Xor(w, b)
           lo == v \cap (0..7)
<1>1. \A i : i \in b => i \in 0..7
  BY DEF Writer!Bits
<1>2. b \in Words
  BY <1>1 DEF Words, Writer!Word
<1>3. v \in Words /\ \A i : i \in v <=> (i \in w <=> i \notin b)
  BY <1>2, XorFacts
<1> HIDE DEF b, v
<1>4. Writer!crc_table[lo] = Writer!Rounds(lo)
  <2>1. lo \in SUBSET (0..7)
    OBVIOUS
  <2> HIDE DEF lo
  <2> QED
    BY <2>1 DEF Writer!crc_table
<1>5. Writer!ShiftRight(v, 8) = Writer!ShiftRight(w, 8)
  <2>1. ASSUME NEW i PROVE i \in Writer!ShiftRight(v, 8) <=> i \in Writer!ShiftRight(w, 8)
    <3>1. i \in Writer!ShiftRight(v, 8) <=> i \in Nat /\ i + 8 \in v
      BY <1>3, ShiftFacts
    <3>2. i \in Writer!ShiftRight(w, 8) <=> i \in Nat /\ i + 8 \in w
      BY ShiftFacts
    <3>3. i \in Nat => ~(i + 8 \in b)
      BY <1>1
    <3>4. i + 8 \in v <=> (i + 8 \in w <=> i + 8 \notin b)
      BY <1>3
    <3> QED
      BY <3>1, <3>2, <3>3, <3>4
  <2> QED
    BY <2>1
<1>6. Writer!Rounds(v) = Writer!Xor(Writer!Rounds(lo), Writer!ShiftRight(v, 8))
  BY <1>3, RoundsSplit
<1> QED
  BY <1>4, <1>5, <1>6, Zenon DEF b, v

\* The checksum that the writer computes with its table is the one that the reader
\* computes bit by bit, for every sequence of bytes.
THEOREM TableComputesCrc ==
  ASSUME NEW S, NEW buf \in Seq(S)
  PROVE  Writer!crc(buf) = Writer!CrcOf(buf)
<1> DEFINE n == Len(buf)
           B(k) == Writer!Bits(buf[k])
           Next8(w, byte) == Writer!Xor(Writer!crc_table[Writer!Xor(w, Writer!Bits(byte)) \cap (0..7)],
                                        Writer!ShiftRight(w, 8))
           Step(w, k) == Writer!Rounds(Writer!Xor(w, B(k)))
           c == Writer!Word
           F == [k \in 1..n |-> [w \in Words |-> Step(w, k)]]
           Eq1(r) == r = [k \in 0..n |-> IF k = 0 THEN c ELSE Next8(r[k - 1], buf[k])]
           Eq2(r) == r = [k \in 0..n |-> IF k = 0 THEN c ELSE Step(r[k - 1], k)]
<1>1. n \in Nat
  BY LenProperties
<1>2. c \in Words
  BY DEF Words
<1>3. ASSUME NEW k, NEW w \in Words PROVE Step(w, k) \in Words /\ Next8(w, buf[k]) = Step(w, k)
  <2>1. B(k) \in Words
    BY DEF Writer!Bits, Words, Writer!Word
  <2>2. Writer!Xor(w, B(k)) \in Words
    BY <2>1, XorFacts
  <2> QED
    BY <2>2, RoundsType, TableStep
<1>4. F \in [1..n -> [Words -> Words]]
  BY <1>3
<1>5. \A k \in 1..n : \A w \in Words : F[k][w] = Step(w, k)
  OBVIOUS
<1> HIDE DEF F, c, n
<1>6. PICK st \in [0..n -> Words] : Iterates(st, c, F, n)
  BY <1>1, <1>2, <1>4, Iteration
<1>7. /\ st[0] = c
      /\ \A k \in 1..n : st[k - 1] \in Words /\ st[k] = Step(st[k - 1], k)
  <2>1. st[0] = c /\ \A k \in 1..n : st[k] = F[k][st[k - 1]]
    BY <1>6 DEF Iterates
  <2>2. ASSUME NEW k \in 1..n PROVE st[k - 1] \in Words /\ st[k] = Step(st[k - 1], k)
    <3>1. k - 1 \in 0..n
      BY <1>1
    <3>2. st[k - 1] \in Words
      BY <1>6, <3>1
    <3> QED
      BY <2>1, <1>5, <3>2, Zenon
  <2> QED
    BY <2>1, <2>2
<1>8. \A k \in 0..n : k # 0 => k \in 1..n
  BY <1>1
<1> DEFINE r1 == CHOOSE r : Eq1(r)
           r2 == CHOOSE r : Eq2(r)
<1>9. Eq1(st) /\ Eq2(st)
  <2> HIDE DEF Next8, Step
  <2>1. \A k \in 0..n : st[k] = IF k = 0 THEN c ELSE Step(st[k - 1], k)
    BY <1>7, <1>8, Zenon
  <2>2. \A k \in 0..n : st[k] = IF k = 0 THEN c ELSE Next8(st[k - 1], buf[k])
    BY <1>3, <1>7, <1>8, Zenon
  <2>3. st = [k \in 0..n |-> st[k]]
    BY <1>6
  <2>4. [k \in 0..n |-> st[k]] = [k \in 0..n |-> IF k = 0 THEN c ELSE Step(st[k - 1], k)]
    BY <2>1, Zenon
  <2>5. [k \in 0..n |-> st[k]] = [k \in 0..n |-> IF k = 0 THEN c ELSE Next8(st[k - 1], buf[k])]
    BY <2>2, Zenon
  <2> QED
    BY <2>3, <2>4, <2>5, Zenon
<1>10. Eq1(r1) /\ Eq2(r2)
  <2> HIDE DEF Eq1, Eq2
  <2> QED
    BY <1>9
<1>11. Writer!update_crc(c, buf) = r1[n]
  BY Zenon DEF Writer!update_crc, n
<1>12. Writer!CrcOf(buf) = Writer!Xor(r2[n], c)
  BY Zenon DEF Writer!CrcOf, n, c
<1> HIDE DEF r1, r2
<1>13. ASSUME NEW k \in Nat, k + 1 \in 0..n
       PROVE  r1[k + 1] = Next8(r1[k], buf[k + 1]) /\ r2[k + 1] = Step(r2[k], k + 1)
  <2> DEFINE j == k + 1
  <2>1. j \in 0..n /\ j # 0 /\ j - 1 = k
    BY <1>13
  <2> HIDE DEF j, Next8, Step
  <2>2. r1[j] = Next8(r1[j - 1], buf[j]) /\ r2[j] = Step(r2[j - 1], j)
    BY <1>10, <2>1, Zenon
  <2> QED
    BY <2>1, <2>2, Zenon DEF j
<1>14. 0 \in 0..n /\ n \in 0..n
  BY <1>1
<1>15. r1[0] = c /\ r2[0] = c
  <2> HIDE DEF Next8, Step
  <2> QED
    BY <1>10, <1>14, Zenon
<1> DEFINE T == {k \in Nat : k <= n => r1[k] = st[k] /\ r2[k] = st[k]}
<1>16. 0 \in T
  BY <1>7, <1>15
<1>17. ASSUME NEW k \in Nat, k < n, k \in T PROVE k + 1 \in T
  <2>1. k + 1 \in 1..n /\ k + 1 \in 0..n /\ (k + 1) - 1 = k /\ k <= n
    BY <1>1, <1>17
  <2>2. r1[k] = st[k] /\ r2[k] = st[k]
    BY <1>17, <2>1
  <2> HIDE DEF Next8, Step
  <2>3. r1[k + 1] = Next8(st[k], buf[k + 1]) /\ r2[k + 1] = Step(st[k], k + 1)
    BY <1>13, <2>1, <2>2, Zenon
  <2>4. st[k] \in Words /\ st[k + 1] = Step(st[k], k + 1)
    BY <1>7, <2>1
  <2>5. Next8(st[k], buf[k + 1]) = Step(st[k], k + 1)
    BY <1>3, <2>4, Zenon
  <2> QED
    BY <2>3, <2>4, <2>5
<1>18. \A k \in 0..n : k \in T
  <2> HIDE DEF T
  <2> QED
    BY <1>1, <1>16, <1>17, InductionTo
<1>19. r1[n] = r2[n]
  BY <1>1, <1>14, <1>18
<1> QED
  BY <1>11, <1>12, <1>19, Zenon DEF Writer!crc, c

-----------------------------------------------------------------------------
(* Files *)

\* The header is a sequence of numbers.
LEMMA HeaderType ==
  ASSUME size \in Sizes
  PROVE  Writer!Header \in Seq(Int)
<1>1. ASSUME NEW n \in Nat PROVE Writer!BigEndian(n) \in Seq(Int)
  <2>1. 2^24 \in Nat \ {0} /\ 2^16 \in Nat \ {0} /\ 2^8 \in Nat \ {0}
    OBVIOUS
  <2> DEFINE a == n \div 2^24
             p == n \div 2^16
             q == n \div 2^8
             b == p % 256
             c == q % 256
             e == n % 256
  <2>2. a \in Int /\ p \in Nat /\ q \in Nat
    BY <2>1, Division
  <2> HIDE DEF a, p, q
  <2>3. b \in Int /\ c \in Int /\ e \in Int
    BY <2>2
  <2>4. Writer!BigEndian(n) = <<a, b, c, e>>
    BY DEF Writer!BigEndian, a, p, q
  <2> HIDE DEF b, c, e
  <2> QED
    BY <2>2, <2>3, <2>4
<1> DEFINE x == Writer!BigEndian(Writer!width)
           y == Writer!BigEndian(Writer!height)
           z == <<8, 2, 0, 0, 0>>
<1>2. x \in Seq(Int) /\ y \in Seq(Int)
  BY <1>1, Measures
<1>3. z \in Seq(Int)
  OBVIOUS
<1> HIDE DEF x, y, z
<1>4. x \o y \in Seq(Int)
  BY <1>2, ConcatFacts
<1>5. (x \o y) \o z \in Seq(Int)
  <2> DEFINE u == x \o y
  <2>1. u \in Seq(Int)
    BY <1>4
  <2> HIDE DEF u
  <2>2. u \o z \in Seq(Int)
    BY <1>3, <2>1, ConcatFacts
  <2> QED
    BY <2>2 DEF u
<1>6. Writer!Header = (x \o y) \o z
  BY DEF Writer!Header, x, y, z
<1> QED
  BY <1>5, <1>6

\* The reader accepts each chunk that write_chunk() makes.
LEMMA ChunkIsSound ==
  ASSUME NEW type \in Seq(Int), NEW data \in Seq(Int)
  PROVE  Writer!Sound(Writer!write_chunk(type, data))
<1>1. type \o data \in Seq(Int)
  BY ConcatFacts
<1>2. Writer!crc(type \o data) = Writer!CrcOf(type \o data)
  <2> DEFINE u == type \o data
  <2>1. u \in Seq(Int)
    BY <1>1
  <2> HIDE DEF u
  <2>2. Writer!crc(u) = Writer!CrcOf(u)
    BY <2>1, TableComputesCrc
  <2> QED
    BY <2>2 DEF u
<1> DEFINE c == Writer!write_chunk(type, data)
<1>3. c.length = Len(data) /\ c.data = data /\ c.type = type /\ c.crc = Writer!crc(type \o data)
  BY DEF Writer!write_chunk
<1> HIDE DEF c
<1>4. Writer!Sound(c)
  BY <1>2, <1>3, Zenon DEF Writer!Sound
<1> QED
  BY <1>4 DEF c

\* What output.png has in its IDAT chunk.
Idat == <<120, 1>> \o Body(Writer!RawData)

\* The blocks stand behind the two bytes of the zlib header.
LEMMA IdatFacts ==
  ASSUME Picture
  PROVE  /\ Idat \in Seq(Int)
         /\ SubSeq(Idat, 3, Len(Idat)) = Body(Writer!RawData)
<1> DEFINE z == <<120, 1>>
           b == Body(Writer!RawData)
           n == Len(b)
<1>1. z \in Seq(Int) /\ Len(z) = 2
  OBVIOUS
<1>2. b \in Seq(Int) /\ n \in Nat
  BY RawDataFacts, BlocksInflate, LenProperties
<1>3. Idat = z \o b
  BY DEF Idat
<1> HIDE DEF z, b
<1>4. /\ z \o b \in Seq(Int) /\ Len(z \o b) = Len(z) + Len(b)
      /\ \A j \in 1..Len(b) : (z \o b)[Len(z) + j] = b[j]
  <2>1. z \in Seq(Int) /\ b \in Seq(Int)
    BY <1>1, <1>2
  <2> QED
    BY <2>1, ConcatFacts
<1>5. Idat \in Seq(Int) /\ Len(Idat) = 2 + n /\ \A j \in 1..n : Idat[2 + j] = b[j]
  <2> DEFINE u == z \o b
  <2>1. /\ u \in Seq(Int) /\ Len(u) = Len(z) + Len(b)
        /\ \A j \in 1..Len(b) : u[Len(z) + j] = b[j]
    BY <1>4
  <2> HIDE DEF u
  <2>2. u \in Seq(Int) /\ Len(u) = 2 + n /\ \A j \in 1..n : u[2 + j] = b[j]
    BY <1>1, <2>1
  <2> QED
    BY <1>3, <2>2 DEF u
<1> DEFINE t == SubSeq(Idat, 3, 2 + n)
<1> HIDE DEF n
<1>6. t \in Seq(Int) /\ Len(t) = n /\ \A i \in 1..n : t[i] = Idat[3 + i - 1]
  BY <1>2, <1>5, SubSeqProperties
<1> HIDE DEF t
<1>7. ASSUME NEW i \in 1..n PROVE t[i] = b[i]
  <2>1. 3 + i - 1 = 2 + i
    BY <1>2
  <2> QED
    BY <1>5, <1>6, <2>1
<1>8. t = b
  BY <1>2, <1>6, <1>7, SameSeq DEF n
<1> QED
  BY <1>5, <1>8, Zenon DEF t, b

\* The reader shows the image that was written.
LEMMA FileShowsPicture ==
  ASSUME Picture
  PROVE  Writer!Pixels(Writer!File(Idat)) = rgb
<1> DEFINE f == Writer!File(Idat)
           h == Writer!height
           data == Writer!RawData
           c1 == Writer!write_chunk(Writer!IHDR, Writer!Header)
           c2 == Writer!write_chunk(Writer!IDAT, Idat)
           c3 == Writer!write_chunk(Writer!IEND, <<>>)
<1>1. /\ Writer!IHDR \in Seq(Int) /\ Writer!IDAT \in Seq(Int) /\ Writer!IEND \in Seq(Int)
      /\ <<>> \in Seq(Int) /\ Writer!Header \in Seq(Int) /\ Idat \in Seq(Int)
  <2>1. Writer!IHDR \in Seq(Int) /\ Writer!IDAT \in Seq(Int) /\ Writer!IEND \in Seq(Int)
    BY DEF Writer!IHDR, Writer!IDAT, Writer!IEND
  <2>2. Writer!Header \in Seq(Int) /\ Idat \in Seq(Int)
    BY HeaderType, IdatFacts DEF Picture
  <2> QED
    BY <2>1, <2>2, EmptySeq
<1>2. Writer!Sound(c1) /\ Writer!Sound(c2) /\ Writer!Sound(c3)
  BY <1>1, ChunkIsSound
<1>3. /\ c1.type = Writer!IHDR /\ c2.type = Writer!IDAT /\ c3.type = Writer!IEND
      /\ c1.data = Writer!Header /\ c2.data = Idat /\ c2.length = Len(Idat)
  BY DEF Writer!write_chunk
<1>4. f = <<c1, c2, c3>>
  BY DEF Writer!File
<1> HIDE DEF c1, c2, c3, f
<1>5. f[1] = c1 /\ f[2] = c2 /\ f[3] = c3 /\ DOMAIN f = 1..3
  BY <1>4
<1>6. \A c \in DOMAIN f : Writer!Sound(f[c])
  <2>1. \A c \in 1..3 : c = 1 \/ c = 2 \/ c = 3
    OBVIOUS
  <2> QED
    BY <1>2, <1>5, <2>1, Zenon
<1>7. [c \in DOMAIN f |-> f[c].type] = <<Writer!IHDR, Writer!IDAT, Writer!IEND>>
  BY <1>3, <1>5
<1>8. Writer!Inflate(SubSeq(f[2].data, 3, f[2].length)) = data
  <2>1. SubSeq(f[2].data, 3, f[2].length) = Body(data)
    BY <1>3, <1>5, IdatFacts
  <2>2. Writer!Inflate(Body(data)) = data
    BY RawDataFacts, BlocksInflate
  <2> QED
    BY <2>1, <2>2, Zenon
<1>9. /\ Len(data) = (Writer!RowBytes + 1) * Writer!height
      /\ \A y \in 1..Writer!height : data[(y - 1) * (Writer!RowBytes + 1) + 1] = 0
      /\ \A y \in 1..Writer!height : Writer!Row(data, y) = Line(y)
  BY RawDataFacts
<1>10. Writer!FlattenSeq([y \in 1..h |-> Writer!Row(data, y)]) = rgb
  <2>1. [y \in 1..h |-> Writer!Row(data, y)] = [y \in 1..h |-> Line(y)]
    BY <1>9
  <2> QED
    BY <2>1, LinesMakeThePicture, Zenon
<1>11. f[1].data = Writer!Header
  BY <1>3, <1>5
<1> HIDE DEF data
<1>12. Writer!Pixels(f) = Writer!FlattenSeq([y \in 1..h |-> Writer!Row(data, y)])
  BY <1>6, <1>7, <1>8, <1>9, <1>11, Zenon DEF Writer!Pixels
<1> QED
  BY <1>10, <1>12, Zenon DEF f

-----------------------------------------------------------------------------
(* Sequences *)

\* What Append makes of a sequence.
LEMMA AppendFacts ==
  ASSUME NEW S, NEW s \in Seq(S), NEW e \in S
  PROVE  /\ Append(s, e) \in Seq(S)
         /\ Len(Append(s, e)) = Len(s) + 1
         /\ DOMAIN Append(s, e) = 1..Len(s) + 1
         /\ \A i \in 1..Len(s) : Append(s, e)[i] = s[i]
         /\ Append(s, e)[Len(s) + 1] = e
  BY AppendProperties

\* What Head and Tail make of one that is not empty.
LEMMA TailFacts ==
  ASSUME NEW S, NEW s \in Seq(S), s # <<>>
  PROVE  /\ Head(s) \in S /\ Head(s) = s[1] /\ 1 \in DOMAIN s
         /\ Tail(s) \in Seq(S)
         /\ Len(s) \in Nat \ {0} /\ Len(Tail(s)) = Len(s) - 1
         /\ DOMAIN Tail(s) = 1..Len(s) - 1
         /\ \A i \in 1..Len(s) - 1 : Tail(s)[i] = s[i + 1]
  BY HeadTailProperties, LenProperties, EmptySeq

-----------------------------------------------------------------------------
(* Capture *)

USE CameraAssumption

Buffers == 1..MaxBuffers
Frame == [frame : Nat, whole : BOOLEAN]

CameraTypes ==
  /\ at \in {"setup", "map", "queue", "on", "requeue", "dequeue", "save", "write", "off",
            "exit"}
  /\ turn \in Nat /\ count \in 0..MaxBuffers /\ shape \in {"vga", "other"}
  /\ streaming \in BOOLEAN /\ incoming \in Seq(Buffers) /\ filled \in Seq(Buffers)
  /\ filling \in BOOLEAN /\ frames \in Nat /\ content \in [Buffers -> Frame]
  /\ held \in 0..MaxBuffers /\ failed \in BOOLEAN /\ saved \in Seq(Frame)

Distinct(s) == \A i, j \in DOMAIN s : s[i] = s[j] => i = j

\* A buffer is in one place of one queue of the driver at most, and whole if it
\* is among the filled ones; the programs with one buffer queue no other.
DriverInv ==
  /\ Distinct(incoming) /\ Distinct(filled)
  /\ \A i \in DOMAIN incoming, j \in DOMAIN filled : incoming[i] # filled[j]
  /\ \A i \in DOMAIN filled : content[filled[i]].whole
  /\ filling => incoming # <<>> /\ streaming
  /\ ~streaming => filled = <<>>
  /\ prog # "many" => /\ \A i \in DOMAIN incoming : incoming[i] = 1
                      /\ \A i \in DOMAIN filled : filled[i] = 1

\* Until the stream is on nothing happens to the buffers that are queued one by one.
SetupInv ==
  /\ at \in {"setup", "map"} => incoming = <<>>
  /\ at \in {"setup", "map", "queue", "on"} =>
       ~streaming /\ ~failed /\ turn = 0 /\ frames = 0 /\ saved = <<>>
  /\ at \notin {"setup", "exit"} /\ prog # "many" => count = 1
  /\ at \in {"queue", "on"} =>
       Len(incoming) <= count /\ \A i \in DOMAIN incoming : incoming[i] = i

\* capture_frame.c and capture_frame2.c: what is about to be saved is whole and
\* out of the driver's reach.
HeldInv ==
  /\ prog = "many" /\ at \in {"save", "requeue"} => held \in Buffers
  /\ at = "write" => prog = "one"
  /\ prog # "two" /\ at \in {"save", "write"} =>
       /\ held \in Buffers /\ content[held].whole
       /\ \A i \in DOMAIN incoming : incoming[i] # held
       /\ \A i \in DOMAIN filled : filled[i] # held
       /\ prog = "one" => held = 1

\* capture_two_frames.c, as long as no call fails: the buffer holds the frame of
\* the last turn, or the one after it while or before it is in the filled queue.
TwoInv ==
  prog = "two" /\ ~failed /\ at \in {"on", "requeue", "dequeue", "save"} =>
    /\ frames = IF filling \/ filled # <<>> THEN turn + 1 ELSE turn
    /\ frames > 0 => content[1].frame = frames
    /\ incoming = <<>> /\ turn > 0 => content[1].whole
    /\ IF at = "save" THEN /\ incoming = <<>> /\ filled = <<>>
                           /\ Len(saved) <= 1 /\ turn = Skipped + 1 + Len(saved)
       ELSE IF saved = <<>> THEN turn <= Skipped
       ELSE Len(saved) = 1 /\ turn = Skipped + 1

SavedInv ==
  /\ prog # "two" => Len(saved) <= 1
  /\ prog # "two" /\ at \notin {"requeue", "off", "exit"} => saved = <<>>
  /\ prog # "two" \/ ~failed => \A i \in DOMAIN saved : saved[i].whole
  /\ prog = "two" /\ ~failed => \A i \in DOMAIN saved : saved[i].frame = Skipped + i

CameraInv == /\ prog \in {"one", "many", "two"}
             /\ CameraTypes /\ DriverInv /\ SetupInv /\ HeldInv /\ TwoInv /\ SavedInv

LEMMA CameraInit == Camera!Init => CameraInv
<1> SUFFICES ASSUME Camera!Init PROVE CameraInv
  OBVIOUS
<1>0. /\ prog \in {"one", "many", "two"} /\ at = "setup" /\ turn = 0
      /\ count = 0 /\ shape = "vga" /\ streaming = FALSE /\ incoming = <<>>
      /\ filled = <<>> /\ filling = FALSE /\ frames = 0 /\ held = 0 /\ failed = FALSE
      /\ saved = <<>> /\ content = [b \in 1..MaxBuffers |-> Camera!Nothing]
  BY DEF Camera!Init
<1>1. /\ <<>> \in Seq(Buffers) /\ <<>> \in Seq(Frame)
      /\ DOMAIN <<>> = {} /\ Len(<<>>) = 0
  BY EmptySeq
<1>2. Camera!Nothing \in Frame
  BY DEF Camera!Nothing, Frame
<1>3. content \in [Buffers -> Frame]
  BY <1>0, <1>2 DEF Buffers
<1>4. CameraTypes
  <2>1. /\ incoming \in Seq(Buffers) /\ filled \in Seq(Buffers) /\ saved \in Seq(Frame)
    BY <1>0, <1>1
  <2>2. turn \in Nat /\ count \in 0..MaxBuffers /\ frames \in Nat /\ held \in 0..MaxBuffers
    BY <1>0
  <2>3. /\ shape \in {"vga", "other"}
        /\ streaming \in BOOLEAN /\ filling \in BOOLEAN /\ failed \in BOOLEAN
    BY <1>0
  <2> QED
    BY <1>0, <1>3, <2>1, <2>2, <2>3 DEF CameraTypes
<1>5. DriverInv /\ SetupInv /\ HeldInv /\ TwoInv /\ SavedInv
  BY <1>0, <1>1 DEF DriverInv, Distinct, SetupInv, HeldInv, TwoInv, SavedInv
<1> QED
  BY <1>0, <1>4, <1>5 DEF CameraInv

LEMMA SetupStep == CameraInv /\ Camera!Setup => CameraInv'
<1> SUFFICES ASSUME CameraInv, Camera!Setup PROVE CameraInv'
  OBVIOUS
<1> USE DEF CameraInv, Camera!Setup, Camera!Goto, Camera!driverVars
<1>1. CameraTypes'
  BY DEF CameraTypes
<1>2. DriverInv'
  BY DEF CameraTypes, DriverInv, Distinct
<1>3. SetupInv'
  BY DEF CameraTypes, SetupInv
<1>4. HeldInv'
  BY DEF CameraTypes, HeldInv, SetupInv
<1>5. TwoInv'
  BY DEF CameraTypes, TwoInv, SetupInv, DriverInv
<1>6. SavedInv'
  BY DEF CameraTypes, SavedInv
<1>7. prog' \in {"one", "many", "two"}
  OBVIOUS
<1> QED
  BY <1>1, <1>2, <1>3, <1>4, <1>5, <1>6, <1>7

LEMMA MapInv == CameraInv /\ Camera!Map => CameraInv'
<1> SUFFICES ASSUME CameraInv, Camera!Map PROVE CameraInv'
  OBVIOUS
<1> USE DEF CameraInv, Camera!Map, Camera!Goto, Camera!driverVars
<1>1. CameraTypes'
  BY DEF CameraTypes
<1>2. DriverInv'
  BY DEF CameraTypes, DriverInv, Distinct
<1>3. SetupInv'
  BY DEF CameraTypes, SetupInv
<1>4. HeldInv'
  BY DEF CameraTypes, HeldInv, SetupInv
<1>5. TwoInv'
  BY DEF CameraTypes, TwoInv, SetupInv, DriverInv
<1>6. SavedInv'
  BY DEF CameraTypes, SavedInv
<1> QED
  BY <1>1, <1>2, <1>3, <1>4, <1>5, <1>6

LEMMA StreamOnInv == CameraInv /\ Camera!StreamOn => CameraInv'
<1> SUFFICES ASSUME CameraInv, Camera!StreamOn PROVE CameraInv'
  OBVIOUS
<1> USE DEF CameraInv, Camera!StreamOn, Camera!Goto, Camera!driverVars
<1>1. CameraTypes'
  BY DEF CameraTypes
<1>2. DriverInv'
  BY DEF CameraTypes, DriverInv, Distinct
<1>3. SetupInv'
  BY DEF CameraTypes, SetupInv
<1>4. HeldInv'
  BY DEF CameraTypes, HeldInv, SetupInv
<1>5. TwoInv'
  BY DEF CameraTypes, TwoInv, SetupInv, DriverInv
<1>6. SavedInv'
  BY DEF CameraTypes, SavedInv
<1> QED
  BY <1>1, <1>2, <1>3, <1>4, <1>5, <1>6

LEMMA DequeueFailsInv == CameraInv /\ Camera!DequeueFails => CameraInv'
<1> SUFFICES ASSUME CameraInv, Camera!DequeueFails PROVE CameraInv'
  OBVIOUS
<1> USE DEF CameraInv, Camera!DequeueFails, Camera!Goto, Camera!driverVars, Camera!AfterDequeue
<1>1. CameraTypes'
  BY DEF CameraTypes
<1>2. DriverInv'
  BY DEF CameraTypes, DriverInv, Distinct
<1>3. SetupInv'
  BY DEF CameraTypes, SetupInv
<1>4. HeldInv'
  BY DEF CameraTypes, HeldInv, SetupInv
<1>5. TwoInv'
  BY DEF CameraTypes, TwoInv, SetupInv, DriverInv
<1>6. SavedInv'
  BY DEF CameraTypes, SavedInv
<1> QED
  BY <1>1, <1>2, <1>3, <1>4, <1>5, <1>6

LEMMA NoMemoryInv == CameraInv /\ Camera!NoMemory => CameraInv'
<1> SUFFICES ASSUME CameraInv, Camera!NoMemory PROVE CameraInv'
  OBVIOUS
<1> USE DEF CameraInv, Camera!NoMemory, Camera!Goto, Camera!driverVars
<1>1. CameraTypes'
  BY DEF CameraTypes
<1>2. DriverInv'
  BY DEF CameraTypes, DriverInv, Distinct
<1>3. SetupInv'
  BY DEF CameraTypes, SetupInv
<1>4. HeldInv'
  BY DEF CameraTypes, HeldInv, SetupInv
<1>5. TwoInv'
  BY DEF CameraTypes, TwoInv, SetupInv, DriverInv
<1>6. SavedInv'
  BY DEF CameraTypes, SavedInv
<1> QED
  BY <1>1, <1>2, <1>3, <1>4, <1>5, <1>6

LEMMA RequeueFailsInv == CameraInv /\ Camera!RequeueFails => CameraInv'
<1> SUFFICES ASSUME CameraInv, Camera!RequeueFails PROVE CameraInv'
  OBVIOUS
<1> USE DEF CameraInv, Camera!RequeueFails, Camera!Goto, Camera!driverVars
<1>1. CameraTypes'
  BY DEF CameraTypes
<1>2. DriverInv'
  BY DEF CameraTypes, DriverInv, Distinct
<1>3. SetupInv'
  BY DEF CameraTypes, SetupInv
<1>4. HeldInv'
  BY DEF CameraTypes, HeldInv, SetupInv
<1>5. TwoInv'
  BY DEF CameraTypes, TwoInv, SetupInv, DriverInv
<1>6. SavedInv'
  BY DEF CameraTypes, SavedInv
<1> QED
  BY <1>1, <1>2, <1>3, <1>4, <1>5, <1>6

LEMMA CleanUpInv == CameraInv /\ Camera!CleanUp => CameraInv'
<1> SUFFICES ASSUME CameraInv, Camera!CleanUp PROVE CameraInv'
  OBVIOUS
<1> USE DEF CameraInv, Camera!CleanUp, Camera!Goto, Camera!driverVars, Camera!Released
<1>1. CameraTypes'
  BY EmptySeq DEF CameraTypes
<1>2. DriverInv'
  BY DEF CameraTypes, DriverInv, Distinct
<1>3. SetupInv'
  BY DEF CameraTypes, SetupInv
<1>4. HeldInv'
  BY DEF CameraTypes, HeldInv, SetupInv
<1>5. TwoInv'
  BY DEF CameraTypes, TwoInv, SetupInv, DriverInv
<1>6. SavedInv'
  BY DEF CameraTypes, SavedInv
<1> QED
  BY <1>1, <1>2, <1>3, <1>4, <1>5, <1>6

LEMMA QueueInv == CameraInv /\ Camera!Queue => CameraInv'
<1> SUFFICES ASSUME CameraInv, Camera!Queue PROVE CameraInv'
  OBVIOUS
<1> USE DEF CameraInv, Camera!Queue
<1>1. CASE Len(incoming) = count
  <2>1. CameraTypes'
    BY <1>1 DEF CameraTypes
  <2>2. DriverInv' /\ SetupInv' /\ HeldInv' /\ TwoInv' /\ SavedInv'
    BY <1>1 DEF CameraTypes, DriverInv, Distinct, SetupInv, HeldInv, TwoInv, SavedInv
  <2> QED
    BY <1>1, <2>1, <2>2
<1>2. CASE Len(incoming) # count
  <2> DEFINE b == Len(incoming) + 1
  <2>1. /\ incoming \in Seq(Buffers) /\ Len(incoming) \in Nat /\ b \in Buffers
        /\ DOMAIN incoming = 1..Len(incoming) /\ b <= count
        /\ \A i \in 1..Len(incoming) : incoming[i] = i
    BY <1>2, LenProperties DEF CameraTypes, SetupInv, Buffers
  <2>2. incoming' = Append(incoming, b)
    BY <1>2
  <2> HIDE DEF b
  <2>3. /\ incoming' \in Seq(Buffers) /\ Len(incoming') = b /\ DOMAIN incoming' = 1..b
        /\ \A i \in 1..b : incoming'[i] = i
    <3>1. /\ incoming' \in Seq(Buffers) /\ Len(incoming') = Len(incoming) + 1
          /\ DOMAIN incoming' = 1..Len(incoming) + 1
          /\ \A i \in 1..Len(incoming) : incoming'[i] = incoming[i]
          /\ incoming'[Len(incoming) + 1] = b
      <4>1. incoming \in Seq(Buffers) /\ b \in Buffers /\ incoming' = Append(incoming, b)
        BY <2>1, <2>2
      <4> QED
        BY <4>1, AppendFacts
    <3> QED
      BY <2>1, <3>1 DEF b
  <2>4. filled = <<>> /\ DOMAIN filled = {}
    BY EmptySeq DEF SetupInv, DriverInv
  <2>5. CameraTypes'
    BY <1>2, <2>3 DEF CameraTypes
  <2>6. DriverInv'
    <3>1. /\ UNCHANGED <<filled, filling, prog, content, streaming>>
          /\ ~filling /\ Distinct(filled) /\ ~streaming
      BY <1>2 DEF DriverInv, SetupInv
    <3>2. prog # "many" => b = 1
      BY <2>1 DEF SetupInv, Buffers
    <3> QED
      BY <2>1, <2>3, <2>4, <3>1, <3>2 DEF DriverInv, Distinct
  <2>7. SetupInv' /\ HeldInv' /\ TwoInv' /\ SavedInv'
    BY <1>2, <2>1, <2>3 DEF CameraTypes, SetupInv, HeldInv, TwoInv, SavedInv
  <2> QED
    BY <1>2, <2>5, <2>6, <2>7
<1> QED
  BY <1>1, <1>2

LEMMA DequeueInv == CameraInv /\ Camera!Dequeue => CameraInv'
<1> SUFFICES ASSUME CameraInv, Camera!Dequeue PROVE CameraInv'
  OBVIOUS
<1> USE DEF CameraInv, Camera!Dequeue, Camera!Goto, Camera!AfterDequeue
<1>1. /\ Head(filled) \in Buffers /\ Head(filled) = filled[1] /\ 1 \in DOMAIN filled
      /\ Tail(filled) \in Seq(Buffers) /\ DOMAIN filled = 1..Len(filled)
      /\ Len(filled) \in Nat \ {0} /\ DOMAIN Tail(filled) = 1..Len(filled) - 1
      /\ \A i \in 1..Len(filled) - 1 : Tail(filled)[i] = filled[i + 1]
  BY TailFacts, LenProperties DEF CameraTypes
<1>2. CameraTypes'
  BY <1>1 DEF CameraTypes, Buffers
<1>3. DriverInv'
  BY <1>1, SMTT(40) DEF CameraTypes, DriverInv, Distinct
<1>4. SetupInv'
  BY DEF CameraTypes, SetupInv
<1>5. /\ held' \in Buffers /\ content'[held'].whole
      /\ \A i \in DOMAIN incoming' : incoming'[i] # held'
      /\ \A i \in DOMAIN filled' : filled'[i] # held'
      /\ prog # "many" => held' = 1
  BY <1>1 DEF DriverInv, Distinct
<1>6. HeldInv'
  BY <1>5 DEF HeldInv
<1>7. TwoInv'
  <2> SUFFICES ASSUME prog = "two", ~failed PROVE TwoInv'
    BY DEF TwoInv
  <2>1. incoming' = <<>> /\ filled' = <<>>
    <3>1. 1 \notin DOMAIN incoming' /\ 1 \notin DOMAIN filled'
      BY <1>1, <1>5, <1>3 DEF DriverInv
    <3> QED
      BY <1>2, <3>1, TailFacts DEF CameraTypes
  <2>2. ~filling
    BY <2>1 DEF DriverInv
  <2>3. frames = turn + 1 /\ content[1].frame = frames /\ content[1].whole
    BY <1>1, <1>5 DEF TwoInv, CameraTypes
  <2>4. CASE saved = <<>>
    BY <2>1, <2>2, <2>3, <2>4, EmptySeq DEF TwoInv, CameraTypes
  <2>5. CASE saved # <<>>
    <3>1. Len(saved) = 1 /\ turn = Skipped + 1
      BY <2>5 DEF TwoInv
    <3>2. at' = "save" /\ turn' = Skipped + 2 /\ Len(saved') = 1 /\ ~filling' /\ frames' = turn'
      BY <2>2, <2>3, <3>1
    <3> QED
      BY <2>1, <2>3, <3>2 DEF TwoInv
  <2> QED
    BY <2>4, <2>5
<1>8. SavedInv'
  BY DEF CameraTypes, SavedInv
<1> QED
  BY <1>2, <1>3, <1>4, <1>6, <1>7, <1>8

\* What is saved is whole, and comes next in the count of frames.
LEMMA SaveInv == CameraInv /\ (Camera!Save \/ Camera!WriteRaw) => CameraInv'
<1> SUFFICES ASSUME CameraInv, Camera!Save \/ Camera!WriteRaw PROVE CameraInv'
  OBVIOUS
<1> USE DEF CameraInv
<1> DEFINE f == content[Camera!Mine]
<1>1. Camera!Mine \in Buffers /\ f \in Frame
  BY DEF Camera!Save, Camera!WriteRaw, Camera!Goto, Camera!Mine, HeldInv, Buffers, CameraTypes
<1>2. /\ saved' = Append(saved, f)
      /\ UNCHANGED <<prog, turn, count, shape, mapped, streaming, incoming, filled, filling, frames,
                     content, held, failed>>
      /\ \/ prog # "one" /\ at = "save" /\ at' = IF Len(saved) = 1 THEN "off" ELSE "requeue"
         \/ prog = "one" /\ at = "write" /\ at' = "off"
  BY DEF Camera!Save, Camera!WriteRaw, Camera!Goto, Camera!driverVars, Camera!Mine, HeldInv
<1>3. prog # "two" => f.whole
  BY <1>2 DEF Camera!Mine, HeldInv
<1>4. prog = "two" /\ ~failed => f.whole /\ f.frame = Skipped + 1 + Len(saved)
  <2> SUFFICES ASSUME prog = "two", ~failed
               PROVE  f.whole /\ f.frame = Skipped + 1 + Len(saved)
    OBVIOUS
  <2>1. Camera!Mine = 1 /\ Len(saved) \in Nat
    BY LenProperties DEF Camera!Mine, CameraTypes
  <2>2. incoming = <<>> /\ filled = <<>> /\ ~filling /\ turn = Skipped + 1 + Len(saved)
    BY <1>2 DEF TwoInv, DriverInv
  <2>3. frames = turn /\ turn > 0
    BY <1>2, <2>1, <2>2 DEF TwoInv
  <2>4. content[1].frame = frames /\ content[1].whole
    BY <1>2, <2>2, <2>3 DEF TwoInv
  <2> QED
    BY <2>1, <2>2, <2>3, <2>4
<1> HIDE DEF f
<1>5. /\ saved' \in Seq(Frame) /\ Len(saved') = Len(saved) + 1
      /\ Len(saved) \in Nat /\ DOMAIN saved = 1..Len(saved)
      /\ DOMAIN saved' = 1..Len(saved) + 1
      /\ \A i \in 1..Len(saved) : saved'[i] = saved[i]
      /\ saved'[Len(saved) + 1] = f
  BY <1>1, <1>2, AppendFacts, LenProperties DEF CameraTypes
<1>6. CameraTypes'
  BY <1>2, <1>5 DEF CameraTypes
<1>7. DriverInv' /\ SetupInv'
  BY <1>2 DEF CameraTypes, DriverInv, Distinct, SetupInv
<1>8. HeldInv'
  BY <1>2 DEF HeldInv
<1>9. TwoInv'
  BY <1>2, <1>5, EmptySeq DEF TwoInv, CameraTypes
<1>10. SavedInv'
  <2>1. prog' # "two" => Len(saved') <= 1 /\ at' \in {"requeue", "off"}
    <3>1. prog # "two" => saved = <<>>
      BY <1>2 DEF SavedInv
    <3> QED
      BY <1>2, <1>5, <3>1, EmptySeq
  <2>2. prog' # "two" \/ ~failed' => \A i \in DOMAIN saved' : saved'[i].whole
    BY <1>2, <1>3, <1>4, <1>5 DEF SavedInv
  <2>3. prog' = "two" /\ ~failed' => \A i \in DOMAIN saved' : saved'[i].frame = Skipped + i
    <3> SUFFICES ASSUME prog = "two", ~failed, NEW i \in 1..Len(saved) + 1
                 PROVE  saved'[i].frame = Skipped + i
      BY <1>2, <1>5
    <3>1. CASE i = Len(saved) + 1
      BY <1>4, <1>5, <3>1
    <3>2. CASE i \in 1..Len(saved)
      BY <1>5, <3>2 DEF SavedInv
    <3> QED
      BY <1>5, <3>1, <3>2
  <2> QED
    BY <2>1, <2>2, <2>3 DEF SavedInv
<1> QED
  BY <1>2, <1>6, <1>7, <1>8, <1>9, <1>10

LEMMA OpenRawInv == CameraInv /\ Camera!OpenRaw => CameraInv'
<1> SUFFICES ASSUME CameraInv, Camera!OpenRaw PROVE CameraInv'
  OBVIOUS
<1> USE DEF CameraInv, Camera!OpenRaw, Camera!Goto, Camera!driverVars
<1>1. CameraTypes'
  BY DEF CameraTypes
<1>2. DriverInv'
  BY DEF CameraTypes, DriverInv, Distinct
<1>3. SetupInv'
  BY DEF CameraTypes, SetupInv
<1>4. HeldInv' /\ TwoInv'
  BY DEF CameraTypes, HeldInv, TwoInv
<1>5. SavedInv'
  BY DEF CameraTypes, SavedInv
<1> QED
  BY <1>1, <1>2, <1>3, <1>4, <1>5

LEMMA RequeueInv == CameraInv /\ Camera!Requeue => CameraInv'
<1> SUFFICES ASSUME CameraInv, Camera!Requeue PROVE CameraInv'
  OBVIOUS
<1> USE DEF CameraInv, Camera!Requeue, Camera!Goto
<1>1. CASE Camera!Mine \in Camera!InDriver
  <2>1. CameraTypes'
    BY <1>1 DEF CameraTypes
  <2>2. DriverInv' /\ SetupInv' /\ HeldInv' /\ SavedInv'
    BY <1>1 DEF CameraTypes, DriverInv, Distinct, SetupInv, HeldInv, SavedInv
  <2>3. TwoInv'
    BY <1>1 DEF CameraTypes, TwoInv
  <2> QED
    BY <2>1, <2>2, <2>3
<1>2. CASE Camera!Mine \notin Camera!InDriver
  <2> DEFINE b == Camera!Mine
  <2>1. b \in Buffers /\ (prog # "many" => b = 1)
    BY DEF Camera!Mine, HeldInv, Buffers
  <2>2. /\ \A i \in DOMAIN incoming : incoming[i] # b
        /\ \A i \in DOMAIN filled : filled[i] # b
    BY <1>2 DEF Camera!InDriver
  <2>3. incoming' = Append(incoming, b)
    BY <1>2
  <2> HIDE DEF b
  <2>4. /\ incoming' \in Seq(Buffers) /\ Len(incoming) \in Nat
        /\ DOMAIN incoming = 1..Len(incoming) /\ DOMAIN incoming' = 1..Len(incoming) + 1
        /\ \A i \in 1..Len(incoming) : incoming'[i] = incoming[i]
        /\ incoming'[Len(incoming) + 1] = b /\ incoming' # <<>>
    BY <2>1, <2>3, AppendFacts, LenProperties, EmptySeq DEF CameraTypes
  <2>5. CameraTypes'
    BY <2>4 DEF CameraTypes
  <2>6. DriverInv'
    BY <2>1, <2>2, <2>4 DEF CameraTypes, DriverInv, Distinct
  <2>7. SetupInv' /\ HeldInv' /\ SavedInv'
    BY DEF CameraTypes, SetupInv, HeldInv, SavedInv
  <2>8. TwoInv'
    BY <2>4 DEF CameraTypes, TwoInv
  <2> QED
    BY <2>5, <2>6, <2>7, <2>8
<1> QED
  BY <1>1, <1>2

LEMMA BeginFrameInv == CameraInv /\ Camera!BeginFrame => CameraInv'
<1> SUFFICES ASSUME CameraInv, Camera!BeginFrame PROVE CameraInv'
  OBVIOUS
<1> USE DEF CameraInv, Camera!BeginFrame
<1>1. Head(incoming) \in Buffers /\ Head(incoming) = incoming[1] /\ 1 \in DOMAIN incoming
  BY TailFacts DEF CameraTypes
<1>2. content' = [content EXCEPT ![Head(incoming)] = [frame |-> frames + 1, whole |-> FALSE]]
  OBVIOUS
<1>3. content' \in [Buffers -> Frame]
  BY <1>1, <1>2 DEF CameraTypes, Frame
<1>4. \A b \in Buffers : b # incoming[1] => content'[b] = content[b]
  BY <1>1, <1>2 DEF CameraTypes
<1>5. content'[incoming[1]].frame = frames + 1
  BY <1>1, <1>2 DEF CameraTypes
<1>6. \A i \in DOMAIN filled : filled[i] \in Buffers
  BY DEF CameraTypes
<1>7. CameraTypes'
  BY <1>3 DEF CameraTypes
<1>8. DriverInv'
  BY <1>1, <1>4, <1>6 DEF DriverInv, Distinct
<1>9. SetupInv'
  BY DEF SetupInv
<1>10. HeldInv'
  BY <1>1, <1>4 DEF HeldInv
<1>11. TwoInv'
  <2>1. prog = "two" => filled = <<>> /\ incoming[1] = 1
    <3> SUFFICES ASSUME prog = "two" PROVE filled = <<>> /\ incoming[1] = 1
      OBVIOUS
    <3>1. incoming[1] = 1 /\ 1 \notin DOMAIN filled
      BY <1>1 DEF DriverInv
    <3> QED
      BY <3>1, TailFacts DEF CameraTypes
  <2> QED
    BY <2>1, <1>5 DEF TwoInv, CameraTypes
<1>12. SavedInv'
  BY DEF SavedInv
<1> QED
  BY <1>7, <1>8, <1>9, <1>10, <1>11, <1>12

LEMMA EndFrameInv == CameraInv /\ Camera!EndFrame => CameraInv'
<1> SUFFICES ASSUME CameraInv, Camera!EndFrame PROVE CameraInv'
  OBVIOUS
<1> USE DEF CameraInv, Camera!EndFrame
<1> DEFINE b == Head(incoming)
<1>1. /\ incoming # <<>> /\ b \in Buffers /\ b = incoming[1] /\ 1 \in DOMAIN incoming
      /\ Tail(incoming) \in Seq(Buffers) /\ DOMAIN incoming = 1..Len(incoming)
      /\ Len(incoming) \in Nat \ {0} /\ DOMAIN Tail(incoming) = 1..Len(incoming) - 1
      /\ \A i \in 1..Len(incoming) - 1 : Tail(incoming)[i] = incoming[i + 1]
  BY TailFacts, LenProperties DEF CameraTypes, DriverInv
<1>2. /\ incoming' = Tail(incoming) /\ filled' = Append(filled, b)
      /\ content' = [content EXCEPT ![b].whole = TRUE]
  OBVIOUS
<1> HIDE DEF b
<1>3. /\ filled' \in Seq(Buffers) /\ Len(filled) \in Nat
      /\ DOMAIN filled = 1..Len(filled) /\ DOMAIN filled' = 1..Len(filled) + 1
      /\ \A i \in 1..Len(filled) : filled'[i] = filled[i]
      /\ filled'[Len(filled) + 1] = b /\ filled' # <<>>
  BY <1>1, <1>2, AppendFacts, LenProperties, EmptySeq, SMTT(40) DEF CameraTypes
<1>4. /\ content' \in [Buffers -> Frame]
      /\ \A c \in Buffers : c # b => content'[c] = content[c]
      /\ content'[b].whole /\ content'[b].frame = content[b].frame
  <2>1. content[b] \in Frame /\ content' = [content EXCEPT ![b] = [content[b] EXCEPT !.whole = TRUE]]
    BY <1>1, <1>2 DEF CameraTypes
  <2>2. /\ [content[b] EXCEPT !.whole = TRUE] \in Frame
        /\ [content[b] EXCEPT !.whole = TRUE].whole
        /\ [content[b] EXCEPT !.whole = TRUE].frame = content[b].frame
    BY <2>1 DEF Frame
  <2> QED
    BY <1>1, <2>1, <2>2 DEF CameraTypes
<1>5. /\ \A i \in DOMAIN filled : filled[i] \in Buffers /\ filled[i] # b
      /\ \A i \in DOMAIN incoming : incoming[i] \in Buffers
  <2>1. \A i \in DOMAIN filled : filled[i] # b
    BY <1>1 DEF DriverInv
  <2> QED
    BY <2>1 DEF CameraTypes
<1>6. CameraTypes'
  BY <1>1, <1>2, <1>3, <1>4 DEF CameraTypes
<1>7. DriverInv'
  <2>1. Distinct(incoming')
    BY <1>1, <1>2 DEF DriverInv, Distinct
  <2>2. Distinct(filled')
    BY <1>3, <1>5 DEF DriverInv, Distinct
  <2>3. \A i \in DOMAIN incoming', j \in DOMAIN filled' : incoming'[i] # filled'[j]
    BY <1>1, <1>2, <1>3, <1>5 DEF DriverInv, Distinct
  <2>4. \A i \in DOMAIN filled' : content'[filled'[i]].whole
    BY <1>3, <1>4, <1>5 DEF DriverInv
  <2>5. prog # "many" => /\ \A i \in DOMAIN incoming' : incoming'[i] = 1
                         /\ \A i \in DOMAIN filled' : filled'[i] = 1
    BY <1>1, <1>2, <1>3 DEF DriverInv
  <2> QED
    BY <2>1, <2>2, <2>3, <2>4, <2>5 DEF DriverInv
<1>8. SetupInv'
  BY DEF SetupInv, DriverInv
<1>9. HeldInv'
  BY <1>1, <1>2, <1>3, <1>4, <1>5 DEF HeldInv
<1>10. TwoInv'
  <2>1. prog = "two" => filled = <<>> /\ b = 1 /\ incoming' = <<>>
    <3> SUFFICES ASSUME prog = "two" PROVE filled = <<>> /\ b = 1 /\ incoming' = <<>>
      OBVIOUS
    <3>1. b = 1 /\ 1 \notin DOMAIN filled
      BY <1>1, <1>5 DEF DriverInv
    <3>2. 1 \notin DOMAIN incoming'
      BY <1>1, <1>2 DEF DriverInv, Distinct
    <3> QED
      BY <1>6, <3>1, <3>2, TailFacts DEF CameraTypes
  <2> QED
    BY <2>1, <1>3, <1>4, <1>1 DEF TwoInv, CameraTypes
<1>11. SavedInv'
  BY DEF SavedInv
<1> QED
  BY <1>6, <1>7, <1>8, <1>9, <1>10, <1>11

LEMMA GiveUpInv ==
  ASSUME NEW p, CameraInv, Camera!GiveUp(p)
  PROVE  CameraInv'
<1> USE DEF CameraInv, Camera!GiveUp, Camera!Goto, Camera!Released
<1>1. CameraTypes'
  BY EmptySeq DEF CameraTypes
<1>2. DriverInv'
  BY EmptySeq DEF DriverInv, Distinct
<1>3. SetupInv' /\ HeldInv' /\ TwoInv' /\ SavedInv'
  BY DEF CameraTypes, SetupInv, HeldInv, TwoInv, SavedInv
<1> QED
  BY <1>1, <1>2, <1>3

LEMMA CameraStep == CameraInv /\ [Camera!Next]_(Camera!capVars) => CameraInv'
<1> SUFFICES ASSUME CameraInv, [Camera!Next]_(Camera!capVars) PROVE CameraInv'
  OBVIOUS
<1>1. CASE Camera!Program
  <2>1. ASSUME NEW p, Camera!GiveUp(p) PROVE CameraInv'
    BY <2>1, GiveUpInv
  <2> QED
    BY <1>1, <2>1, SetupStep, MapInv, QueueInv, StreamOnInv, DequeueInv, DequeueFailsInv, SaveInv,
       OpenRawInv, NoMemoryInv, RequeueInv, RequeueFailsInv, CleanUpInv
    DEF Camera!Program, Camera!SetupFails, Camera!SaveFails
<1>2. CASE Camera!Driver
  BY <1>2, BeginFrameInv, EndFrameInv DEF Camera!Driver
<1>3. CASE UNCHANGED Camera!capVars
  BY <1>3 DEF Camera!capVars, CameraInv, CameraTypes, DriverInv, Distinct, SetupInv, HeldInv,
              TwoInv, SavedInv
<1> QED
  BY <1>1, <1>2, <1>3 DEF Camera!Next

-----------------------------------------------------------------------------
(* What is saved *)

\* No step changes which program runs.
LEMMA SameProgram ==
  ASSUME [Next]_<<prog, jpegVars, captureVars, raw, writerVars>>
  PROVE  prog' = prog
<1>1. CASE JpegNext
  BY <1>1 DEF JpegNext, Jpeg!Next, Jpeg!CsvBlock, Jpeg!Pass1, Jpeg!Push, Jpeg!Merge, Jpeg!Codes,
              Jpeg!WriteBook, Jpeg!Pass2, Jpeg!Interrupt, Jpeg!ReadLine, Jpeg!ReadMarker,
              Jpeg!ReadBit, Jpeg!WriteImage
<1>2. CASE CaptureNext
  <2>1. ASSUME NEW p, Camera!GiveUp(p) PROVE prog' = prog
    BY <2>1 DEF Camera!GiveUp
  <2> QED
    BY <1>2, <2>1 DEF CaptureNext, Camera!Next, Camera!Program, Camera!Driver, Camera!Setup,
         Camera!Map, Camera!Queue, Camera!StreamOn, Camera!SetupFails, Camera!SaveFails,
         Camera!Dequeue, Camera!DequeueFails, Camera!Save, Camera!OpenRaw, Camera!WriteRaw,
         Camera!NoMemory, Camera!Requeue,
         Camera!RequeueFails, Camera!CleanUp, Camera!BeginFrame, Camera!EndFrame
<1>3. CASE WriterNext
  BY <1>3 DEF WriterNext
<1> QED
  BY <1>1, <1>2, <1>3 DEF Next

LEMMA CaptureInvariance == Spec => [](~JpegRuns => CameraInv)
<1>1. Init => (~JpegRuns => CameraInv)
  BY CameraInit DEF Init, Jpeg!Init, JpegRuns
<1>2. (~JpegRuns => CameraInv) /\ [Next]_<<prog, jpegVars, captureVars, raw, writerVars>>
        => (~JpegRuns => CameraInv)'
  <2> SUFFICES ASSUME ~JpegRuns => CameraInv, ~JpegRuns',
                      [Next]_<<prog, jpegVars, captureVars, raw, writerVars>>
               PROVE  CameraInv'
    OBVIOUS
  <2>1. prog' = prog
    BY SameProgram
  <2>2. CameraInv
    BY <2>1 DEF JpegRuns
  <2>3. CASE CaptureNext
    BY <2>2, <2>3, CameraStep DEF CaptureNext
  <2>4. CASE ~CaptureNext
    <3>1. UNCHANGED <<prog, captureVars>>
      BY <2>1, <2>4 DEF Next, JpegNext, WriterNext, JpegRuns
    <3> QED
      BY <2>2, <3>1 DEF captureVars, CameraInv, CameraTypes, DriverInv, Distinct, SetupInv,
                        HeldInv, TwoInv, SavedInv
  <2> QED
    BY <2>3, <2>4
<1> QED
  BY <1>1, <1>2, PTL DEF Spec

\* capture_frame.c, capture_frame2.c, capture_two_frames.c: a frame is never saved
\* while the driver writes it, and capture_two_frames.c saves the two that follow the
\* skipped ones, in order, if no call fails.
THEOREM SavesWholeFrames == Spec => []SavedIsWhole
<1>1. (~JpegRuns => CameraInv) => SavedIsWhole
  <2> SUFFICES ASSUME ~JpegRuns, CameraInv, prog # "two" \/ ~failed
               PROVE  Camera!SavedIsWhole
    BY DEF SavedIsWhole, Camera!SavedIsWhole
  <2>1. saved \in Seq(Frame) /\ Len(saved) \in Nat /\ DOMAIN saved = 1..Len(saved)
    BY LenProperties DEF CameraInv, CameraTypes
  <2>2. \A i \in DOMAIN saved : saved[i].whole
    BY DEF CameraInv, SavedInv
  <2>3. \A i, j \in DOMAIN saved : i < j => saved[i].frame < saved[j].frame
    BY <2>1 DEF CameraInv, SavedInv
  <2>4. prog = "two" => \A i \in DOMAIN saved : saved[i].frame > Skipped
    BY <2>1 DEF CameraInv, SavedInv
  <2> QED
    BY <2>2, <2>3, <2>4 DEF Camera!SavedIsWhole
<1> QED
  BY <1>1, CaptureInvariance, PTL

-----------------------------------------------------------------------------
(* capture_frame.c and the PNG writer *)

\* The file is what has been saved, as much of it as was written; or it is there from
\* an earlier run, or fopen() has emptied it.
FileInv ==
  IF saved = <<>>
  THEN \/ raw = <<>>
       \/ \E p : raw = Camera!Old(p)
       \/ \E s : raw = Camera!RawFile(Camera!Nothing, s, "none")
  ELSE \E s, p : raw = Camera!RawFile(saved[1], s, p)

\* The writer has not read the file; or what it holds in memory is the image in it,
\* and the files are begun or made of that.
Unread == rgb = <<>> /\ png1 = <<>> /\ png = <<>>
Made ==
  /\ raw # <<>> /\ rgb \in Writer!Converted(raw[1])
  /\ png1 \in Writer!Written(Writer!File(<<120, 1>> \o Writer!Stored(1, Writer!RawData)))
  /\ png \in Writer!Written(Writer!File(Writer!create_zlib_no_compression_blocks(Writer!RawData)))

\* The writer runs when the capture program has returned.
WriterInv ==
  /\ size \in Sizes
  /\ step \in {"read", "save1", "save", "end"}
  /\ at # "exit" => step = "read"
  /\ step = "read" => Unread
  /\ step \in {"save1", "save"} => Made
  /\ Unread \/ Made

\* The inductive invariant of the two programs one after the other.
ShowInv == prog = "one" => CameraInv /\ FileInv /\ WriterInv

LEMMA ShowInit == Init => ShowInv
<1> SUFFICES ASSUME Init, prog = "one" PROVE CameraInv /\ FileInv /\ WriterInv
  BY DEF ShowInv
<1>1. Camera!Init /\ Writer!Init
  BY DEF Init, Jpeg!Init
<1>2. CameraInv
  BY <1>1, CameraInit
<1>3. FileInv
  BY <1>1 DEF Camera!Init, FileInv
<1>4. WriterInv
  BY <1>1 DEF Camera!Init, Writer!Init, WriterInv, Unread
<1> QED
  BY <1>2, <1>3, <1>4

\* The steps of the capture program and of the driver but the two that write leave
\* frame.raw alone, and none comes after the program has returned.
LEMMA CaptureMoves ==
  ASSUME prog = "one", Camera!Next
  PROVE  /\ Camera!OpenRaw \/ Camera!WriteRaw \/ UNCHANGED <<raw, saved>>
         /\ at = "exit" => at' = "exit" /\ UNCHANGED raw
<1> DEFINE Fails == Camera!SetupFails \/ Camera!GiveUp("dequeue") \/ Camera!SaveFails
<1>1. ASSUME NEW p, Camera!GiveUp(p) PROVE at = p /\ UNCHANGED <<raw, saved>>
  BY <1>1 DEF Camera!GiveUp, Camera!Goto
<1>2. CASE Fails
  BY <1>1, <1>2 DEF Camera!SetupFails, Camera!SaveFails
<1>3. CASE Camera!Driver
  BY <1>3 DEF Camera!Driver, Camera!BeginFrame, Camera!EndFrame
<1>4. CASE Camera!OpenRaw \/ Camera!WriteRaw
  BY <1>4 DEF Camera!OpenRaw, Camera!WriteRaw, Camera!Goto
<1>5. CASE ~(Fails \/ Camera!Driver \/ Camera!OpenRaw \/ Camera!WriteRaw)
  BY <1>5 DEF Camera!Next, Camera!Program, Camera!Setup, Camera!Map, Camera!Queue,
       Camera!StreamOn, Camera!Dequeue, Camera!DequeueFails, Camera!Save, Camera!NoMemory,
       Camera!Requeue, Camera!RequeueFails, Camera!CleanUp, Camera!Goto
<1> QED
  BY <1>2, <1>3, <1>4, <1>5

LEMMA SameConverted ==
  ASSUME UNCHANGED <<raw, size>>
  PROVE  UNCHANGED Writer!Converted(raw[1])
<1>1. UNCHANGED raw /\ UNCHANGED size
  OBVIOUS
<1>2. ASSUME NEW m PROVE UNCHANGED Writer!Rgb(m)
  BY <1>1, Zenon DEF Writer!Rgb, Writer!RowBytes, Writer!width, Writer!height
<1>3. ASSUME NEW m, NEW n PROVE UNCHANGED Writer!Begun(m, n)
  BY <1>1, <1>2, Zenon DEF Writer!Begun, Writer!RowBytes, Writer!width, Writer!height
<1>4. ASSUME NEW p PROVE UNCHANGED Writer!Held(p)
  BY <1>1, Zenon DEF Writer!Held, Writer!width, Writer!height
<1> QED
  BY <1>1, <1>2, <1>3, <1>4 DEF Writer!Converted

\* A file of which nothing has been written.
LEMMA NothingWritten == \A f : <<>> \in {SubSeq(f, 1, n) : n \in 0..3}
<1>1. \A f : SubSeq(f, 1, 0) = <<>>
  OBVIOUS
<1>2. 0 \in 0..3
  OBVIOUS
<1> QED
  BY <1>1, <1>2, Zenon

\* The files that can come of an image.
LEMMA SameFiles ==
  ASSUME UNCHANGED <<raw, size, rgb>>
  PROVE  /\ UNCHANGED Writer!Converted(raw[1])
         /\ UNCHANGED Writer!Written(Writer!File(<<120, 1>> \o Writer!Stored(1, Writer!RawData)))
         /\ UNCHANGED Writer!Written(Writer!File(
                        Writer!create_zlib_no_compression_blocks(Writer!RawData)))
<1>1. UNCHANGED Writer!RawData
  BY DEF Writer!RawData, Writer!RowBytes, Writer!width, Writer!height
<1>2. UNCHANGED Writer!Header
  BY DEF Writer!Header, Writer!width, Writer!height
<1>3. /\ UNCHANGED Writer!File(<<120, 1>> \o Writer!Stored(1, Writer!RawData))
      /\ UNCHANGED Writer!File(Writer!create_zlib_no_compression_blocks(Writer!RawData))
  BY <1>1, <1>2, Zenon DEF Writer!File
<1> QED
  BY <1>3, SameConverted, Zenon DEF Writer!Written

\* WriterInv depends on nothing else.
LEMMA WriterStill ==
  ASSUME WriterInv, UNCHANGED <<at, raw, writerVars>>
  PROVE  WriterInv'
<1>1. UNCHANGED <<at, raw, step, size, rgb, png1, png>>
  BY DEF writerVars
<1>2. (Made <=> Made') /\ (Unread <=> Unread')
  BY <1>1, SameFiles, Zenon DEF Made, Unread
<1> QED
  BY <1>1, <1>2, Zenon DEF WriterInv

\* The capture program leaves the writer alone and the file behind.
LEMMA CaptureShow ==
  ASSUME ShowInv, prog = "one", CaptureNext, CameraInv'
  PROVE  FileInv' /\ WriterInv'
<1>1. Camera!Next /\ UNCHANGED writerVars /\ UNCHANGED <<size, step, rgb, png1, png>>
  BY DEF CaptureNext, writerVars
<1>2. CameraInv /\ FileInv /\ WriterInv
  BY DEF ShowInv
<1>3. FileInv'
  <2>1. CASE UNCHANGED <<raw, saved>>
    BY <1>2, <2>1 DEF FileInv
  <2>2. CASE Camera!OpenRaw
    <3>1. saved = <<>> /\ saved' = saved /\ raw' = Camera!RawFile(Camera!Nothing, shape, "none")
      BY <1>2, <2>2 DEF CameraInv, SavedInv, Camera!OpenRaw, Camera!Goto
    <3> QED
      BY <3>1 DEF FileInv
  <2>3. CASE Camera!WriteRaw
    <3> DEFINE f == content[1]
    <3>1. saved = <<>>
      BY <1>2, <2>3 DEF CameraInv, SavedInv, Camera!WriteRaw, Camera!Goto
    <3>2. saved' = Append(saved, f) /\ \E p : raw' = Camera!RawFile(f, shape, p)
      BY <2>3 DEF Camera!WriteRaw
    <3> HIDE DEF f
    <3>3. saved' # <<>> /\ saved'[1] = f
      BY <3>1, <3>2
    <3> QED
      BY <3>2, <3>3 DEF FileInv
  <2> QED
    BY <1>1, <2>1, <2>2, <2>3, CaptureMoves
<1>4. WriterInv'
  <2>1. CASE at = "exit"
    <3>1. UNCHANGED <<at, raw>>
      BY <1>1, <2>1, CaptureMoves
    <3> QED
      BY <1>1, <1>2, <3>1, WriterStill
  <2>2. CASE at # "exit"
    BY <1>1, <1>2, <2>2 DEF WriterInv, Unread
  <2> QED
    BY <2>1, <2>2
<1> QED
  BY <1>3, <1>4

\* What the writer makes of the file it has read, and what it does not touch.
LEMMA WriterShow ==
  ASSUME ShowInv, prog = "one", WriterNext
  PROVE  FileInv' /\ WriterInv'
<1>1. CameraInv /\ FileInv /\ WriterInv /\ at = "exit"
  BY DEF ShowInv, WriterNext
<1>2. Writer!Next /\ UNCHANGED <<at, raw, saved, size>>
  BY DEF WriterNext, captureVars, Writer!Next, Writer!ReadRaw, Writer!ReadFails, Writer!save_png1,
         Writer!save_png
<1>3. FileInv'
  BY <1>1, <1>2 DEF FileInv
<1> DEFINE P1 == Writer!Written(Writer!File(<<120, 1>> \o Writer!Stored(1, Writer!RawData)))
           P2 == Writer!Written(Writer!File(
                   Writer!create_zlib_no_compression_blocks(Writer!RawData)))
           R == Writer!Converted(raw[1])
<1>4. UNCHANGED rgb => UNCHANGED <<P1, P2>>
  BY <1>2, SameFiles
<1>5. UNCHANGED R
  BY <1>2, SameConverted
<1>6. <<>> \in P1' /\ <<>> \in P2'
  BY NothingWritten DEF Writer!Written
<1>7. Made <=> raw # <<>> /\ rgb \in R /\ png1 \in P1 /\ png \in P2
  BY DEF Made
<1>8. Made' <=> raw' # <<>> /\ rgb' \in R' /\ png1' \in P1' /\ png' \in P2'
  BY DEF Made
<1> HIDE DEF P1, P2, R
<1>9. CASE Writer!ReadRaw
  <2>1. /\ step = "read" /\ step' = "save1" /\ raw # <<>> /\ rgb' \in R
        /\ UNCHANGED <<png1, png>> /\ png1 = <<>> /\ png = <<>>
    BY <1>1, <1>9 DEF Writer!ReadRaw, WriterInv, Unread, R
  <2>2. Made'
    BY <1>2, <1>5, <1>6, <1>8, <2>1
  <2> QED
    BY <1>1, <1>2, <1>3, <2>1, <2>2 DEF WriterInv
<1>10. CASE Writer!ReadFails
  <2>1. step' = "end" /\ Unread /\ UNCHANGED <<rgb, png1, png>>
    BY <1>1, <1>10 DEF Writer!ReadFails, WriterInv
  <2> QED
    BY <1>1, <1>2, <1>3, <2>1 DEF WriterInv, Unread
<1>11. CASE Writer!save_png1
  <2>1. step = "save1" /\ step' = "save" /\ png1' \in P1 /\ UNCHANGED <<rgb, png>> /\ Made
    BY <1>1, <1>11 DEF Writer!save_png1, WriterInv, P1
  <2>2. Made'
    BY <1>2, <1>4, <1>5, <1>7, <1>8, <2>1
  <2> QED
    BY <1>1, <1>2, <1>3, <2>1, <2>2 DEF WriterInv
<1>12. CASE Writer!save_png
  <2>1. step = "save" /\ step' = "end" /\ png' \in P2 /\ UNCHANGED <<rgb, png1>> /\ Made
    BY <1>1, <1>12 DEF Writer!save_png, WriterInv, P2
  <2>2. Made'
    BY <1>2, <1>4, <1>5, <1>7, <1>8, <2>1
  <2> QED
    BY <1>1, <1>2, <1>3, <2>1, <2>2 DEF WriterInv
<1> QED
  BY <1>2, <1>9, <1>10, <1>11, <1>12 DEF Writer!Next

LEMMA ShowInvariance == Spec => []ShowInv
<1> DEFINE v == <<prog, jpegVars, captureVars, raw, writerVars>>
           C == ~JpegRuns => CameraInv
<1>1. Init => ShowInv
  BY ShowInit
<1>2. ShowInv /\ C /\ C' /\ [Next]_v => ShowInv'
  <2> SUFFICES ASSUME ShowInv, C', [Next]_v, prog' = "one" PROVE ShowInv'
    BY DEF ShowInv
  <2>1. prog = "one" /\ CameraInv'
    BY SameProgram DEF JpegRuns
  <2>2. CASE CaptureNext
    BY <2>1, <2>2, CaptureShow DEF ShowInv
  <2>3. CASE WriterNext
    BY <2>1, <2>3, WriterShow DEF ShowInv
  <2>4. CASE UNCHANGED v
    <3>1. FileInv' = FileInv
      BY <2>4 DEF captureVars, FileInv
    <3>2. WriterInv'
      BY <2>1, <2>4, WriterStill DEF ShowInv, captureVars
    <3> QED
      BY <2>1, <3>1, <3>2 DEF ShowInv
  <2> QED
    BY <2>1, <2>2, <2>3, <2>4 DEF Next, JpegNext
<1>3. Spec => []C
  BY CaptureInvariance
<1> QED
  BY <1>1, <1>2, <1>3, PTL DEF Spec

\* The image that is converted is one of bytes, as large as the header says.
LEMMA ConvertedPicture ==
  ASSUME size \in Sizes, NEW f, f.of.frame \in Int, rgb \in Writer!Converted(f)
  PROVE  Picture
<1> DEFINE l == Writer!RowBytes * Writer!height
<1>1. l \in Nat
  BY Measures
<1> HIDE DEF l
<1>2. \A k \in 1..l, m \in Int : (31 * k + 7 * m) % 256 \in Int
  BY <1>1
<1>3. -1 \in Int /\ -2 \in Int
  OBVIOUS
<1>4. \A m \in Int : Writer!Rgb(m) \in [1..l -> Int]
  BY <1>2 DEF Writer!Rgb, l
<1>5. ASSUME NEW n, rgb = Writer!Begun(f.of.frame, n)
      PROVE  rgb \in [1..l -> Int]
  <2>1. rgb = [k \in 1..l |-> IF k <= 3 * n THEN Writer!Rgb(f.of.frame)[k]
                                            ELSE Writer!Rgb(-1)[k]]
    BY <1>5 DEF Writer!Begun, Writer!Fresh, l
  <2>2. Writer!Rgb(f.of.frame) \in [1..l -> Int] /\ Writer!Rgb(-1) \in [1..l -> Int]
    BY <1>3, <1>4
  <2> QED
    BY <2>1, <2>2
<1>6. rgb = Writer!Rgb(-2) => rgb \in [1..l -> Int]
  BY <1>3, <1>4
<1>7. rgb \in [1..l -> Int]
  BY <1>5, <1>6 DEF Writer!Converted, Writer!Other
<1>8. rgb \in Seq(Int) /\ Len(rgb) = l
  BY <1>1, <1>7
<1> QED
  BY <1>8 DEF Picture, l

\* One stored block is all the blocks there are when the lines fit into it.
LEMMA OneBlock ==
  ASSUME NEW data \in Seq(Int), Len(data) > 0, Len(data) <= MB
  PROVE  Body(data) = Writer!Stored(1, data)
<1> DEFINE m == Writer!Blocks(data)
           s == [k \in 1..m |-> BlockAt(data, k)]
<1>0. Len(data) \in Nat /\ MB \in Nat
  BY LenProperties, MaxBlockIsNat
<1>1. m = 1 /\ 1 * MB >= Len(data)
  <2>1. 1 * MB >= Len(data)
    BY <1>0
  <2>2. 1 >= m /\ m \in Nat \ {0}
    BY <2>1, BlockCount
  <2> QED
    BY <2>1, <2>2
<1>2. BlockAt(data, 1) = Writer!Stored(1, data)
  <2>1. Writer!Block(data, 1) = SubSeq(data, CutAt(data, 1 - 1) + 1, CutAt(data, 1))
    BY <1>1, BlockFacts
  <2>2. CutAt(data, 1 - 1) + 1 = 1 /\ CutAt(data, 1) = Len(data)
    BY <1>1, LastCut
  <2>3. SubSeq(data, 1, Len(data)) = data
    <3>1. /\ SubSeq(data, 1, Len(data)) \in Seq(Int)
          /\ Len(SubSeq(data, 1, Len(data))) = Len(data)
          /\ \A i \in 1..Len(data) : SubSeq(data, 1, Len(data))[i] = data[i]
      BY SubSeqProperties
    <3> QED
      BY <3>1, SameSeq
  <2>4. Writer!Block(data, 1) = data
    BY <2>1, <2>2, <2>3, Zenon
  <2> QED
    BY <1>1, <2>4, Zenon DEF BlockAt
<1>3. PICK flat : Joins(flat, s, m, Int) /\ Writer!FlattenSeq(s) = flat[m]
  <2>1. s \in [1..m -> Seq(Int)]
    BY BlockAtFacts
  <2> HIDE DEF s, m
  <2> QED
    BY <1>1, <2>1, FlattenParts, ZenonT(40)
<1>4. s[1] = Writer!Stored(1, data) /\ s[1] \in Seq(Int)
  <2>1. 1 \in 1..m
    BY <1>1
  <2>2. s[1] = BlockAt(data, 1) /\ BlockAt(data, 1) \in Seq(Int)
    BY <2>1, BlockAtFacts
  <2> QED
    BY <1>2, <2>2, Zenon
<1>5. Writer!FlattenSeq(s) = <<>> \o s[1]
  <2> HIDE DEF s, m
  <2>1. 1 \in 1..m /\ 1 - 1 = 0
    BY <1>1
  <2>2. flat[1] = flat[1 - 1] \o s[1] /\ flat[0] = <<>>
    BY <1>3, <2>1, Zenon DEF Joins
  <2> QED
    BY <1>1, <1>3, <2>1, <2>2, Zenon
<1>6. <<>> \o s[1] = s[1]
  <2> HIDE DEF s
  <2> QED
    BY <1>4, ConcatEmptySeq
<1> QED
  BY <1>4, <1>5, <1>6, Zenon DEF Body

\* A finished file is the one with three chunks.
LEMMA FinishedFile ==
  ASSUME NEW d, NEW f \in Writer!Written(Writer!File(d)), Writer!Finished(f)
  PROVE  f = Writer!File(d)
<1> DEFINE w == Writer!File(d)
<1>1. PICK n \in 0..3 : f = SubSeq(w, 1, n)
  BY DEF Writer!Written
<1>2. PICK a, b, c : w = <<a, b, c>>
  BY DEF Writer!File
<1> HIDE DEF w
<1>3. w \in Seq({a, b, c}) /\ Len(w) = 3 /\ \A i \in 1..n : w[i] \in {a, b, c}
  BY <1>2
<1>4. 1 \in Int /\ n \in Int
  OBVIOUS
<1>5. /\ SubSeq(w, 1, n) \in Seq({a, b, c})
      /\ Len(SubSeq(w, 1, n)) = IF 1 <= n THEN n - 1 + 1 ELSE 0
      /\ \A i \in 1..n - 1 + 1 : SubSeq(w, 1, n)[i] = w[1 + i - 1]
  BY <1>3, <1>4, SubSeqProperties
<1>6. Len(f) = 3
  BY DEF Writer!Finished
<1>7. n = 3
  BY <1>1, <1>5, <1>6
<1>8. f \in Seq({a, b, c}) /\ Len(f) = Len(w) /\ \A i \in 1..Len(f) : f[i] = w[i]
  BY <1>1, <1>3, <1>5, <1>6, <1>7
<1>9. f = w
  BY <1>3, <1>8, SameSeq
<1> QED
  BY <1>9 DEF w

\* capture_frame.c, then rgb2pngNocompress.c: whatever fails on the way, a reader that
\* does not ask for the Adler-32 at the end of the stream (the code writes none) finds
\* in a finished output.png as much of the saved frame as has reached frame.raw, from
\* the first pixel on, and behind it what was in the buffer.
THEOREM PngFilesShowTheFrame == Spec => []PngShowsFrame
<1>1. ShowInv => PngShowsFrame
  <2> DEFINE saw == IF saved = <<>> THEN 0 ELSE saved[1].frame
  <2> SUFFICES ASSUME ShowInv, prog = "one"
               PROVE  /\ Writer!PngHoldsFrame
                      /\ Writer!Finished(png) /\ raw[1].shape = "vga" =>
                           \E n \in Writer!Held(raw[1].part) :
                             Writer!Pixels(png) = Writer!Begun(saw, n)
    BY DEF PngShowsFrame
  <2>1. CameraInv /\ FileInv /\ WriterInv
    BY DEF ShowInv
  <2>2. saved # <<>> => saved[1] \in Frame /\ saved[1].whole
    BY <2>1, EmptySeq, LenProperties DEF CameraInv, CameraTypes, SavedInv
  <2>3. CASE Unread
    <3>1. ~Writer!Finished(png) /\ ~Writer!Finished(png1)
      BY <2>3 DEF Writer!Finished, Unread
    <3> QED
      BY <3>1, Zenon DEF Writer!PngHoldsFrame
  <2>4. CASE Made
    <3>1. PICK r : r = raw[1]
      OBVIOUS
    <3>2. r.of.frame = saw /\ saw \in Int /\ (r.part = "none" \/ r.of.whole)
      <4>1. CASE saved = <<>>
        <5>1. \/ \E p : raw = Camera!Old(p)
              \/ \E s : raw = Camera!RawFile(Camera!Nothing, s, "none")
          BY <2>1, <2>4, <4>1 DEF FileInv, Made
        <5> QED
          BY <3>1, <4>1, <5>1 DEF Camera!Old, Camera!RawFile, Camera!Nothing
      <4>2. CASE saved # <<>>
        <5>1. PICK s, p : raw = Camera!RawFile(saved[1], s, p)
          BY <2>1, <4>2 DEF FileInv
        <5> QED
          BY <2>2, <3>1, <4>2, <5>1 DEF Camera!RawFile, Frame
      <4> QED
        BY <4>1, <4>2
    <3> HIDE DEF saw
    <3>3. /\ size \in Sizes /\ rgb \in Writer!Converted(r)
          /\ png1 \in Writer!Written(Writer!File(<<120, 1>> \o Writer!Stored(1, Writer!RawData)))
          /\ png \in Writer!Written(Writer!File(
                       Writer!create_zlib_no_compression_blocks(Writer!RawData)))
      BY <2>1, <2>4, <3>1 DEF WriterInv, Made
    <3>4. Picture
      BY <3>2, <3>3, ConvertedPicture
    <3>5. Writer!create_zlib_no_compression_blocks(Writer!RawData) = Idat
      BY DEF Writer!create_zlib_no_compression_blocks, Idat, Body, BlockAt, MB
    <3>6. Writer!Finished(png) => Writer!Pixels(png) = rgb
      <4> SUFFICES ASSUME Writer!Finished(png) PROVE Writer!Pixels(png) = rgb
        OBVIOUS
      <4>1. png = Writer!File(Idat)
        BY <3>3, <3>5, FinishedFile
      <4> QED
        BY <3>4, <4>1, FileShowsPicture
    <3>7. Writer!Finished(png1) /\ Len(Writer!RawData) <= Writer!MaxBlock => Writer!Pixels(png1) = rgb
      <4> SUFFICES ASSUME Writer!Finished(png1), Len(Writer!RawData) <= Writer!MaxBlock
                   PROVE  Writer!Pixels(png1) = rgb
        OBVIOUS
      <4>1. <<120, 1>> \o Writer!Stored(1, Writer!RawData) = Idat
        BY <3>4, RawDataFacts, OneBlock DEF Idat, MB
      <4>2. png1 = Writer!File(Idat)
        BY <3>3, <4>1, FinishedFile
      <4> QED
        BY <3>4, <4>2, FileShowsPicture
    <3>8. Writer!PngHoldsFrame
      BY <3>6, <3>7 DEF Writer!PngHoldsFrame
    <3>9. ASSUME Writer!Finished(png), r.shape = "vga"
          PROVE  \E n \in Writer!Held(r.part) : Writer!Pixels(png) = Writer!Begun(saw, n)
      <4>1. rgb \in {Writer!Begun(saw, n) : n \in Writer!Held(r.part)}
        BY <3>2, <3>3, <3>9 DEF Writer!Converted
      <4> QED
        BY <3>6, <3>9, <4>1
    <3> QED
      BY <3>1, <3>8, <3>9, Zenon
  <2> QED
    BY <2>1, <2>3, <2>4 DEF WriterInv
<1> QED
  BY <1>1, ShowInvariance, PTL

-----------------------------------------------------------------------------
(* Blocks and run lengths *)

Block == [1..64 -> Int]
Run == [val : Int, cnt : Nat \ {0}]

\* One value more of a block: the last run goes on or another begins.
OneRun(z, i) == <<[val |-> z[i], cnt |-> 1]>>
Longer(rp) == [rp EXCEPT ![Len(rp)].cnt = @ + 1]
NextRuns(z, i, rp) == IF z[i] = z[i - 1] THEN Longer(rp) ELSE rp \o OneRun(z, i)

LEMMA NextRunsFacts ==
  ASSUME NEW z \in Block, NEW i \in 2..64, NEW rp \in Seq(Run), rp # <<>>
  PROVE  /\ Len(rp) \in Nat \ {0}
         /\ Longer(rp) \in Seq(Run) /\ Len(Longer(rp)) = Len(rp)
         /\ \A k \in 1..Len(rp) - 1 : Longer(rp)[k] = rp[k]
         /\ Longer(rp)[Len(rp)] = [val |-> rp[Len(rp)].val, cnt |-> rp[Len(rp)].cnt + 1]
         /\ OneRun(z, i) \in Seq(Run) /\ OneRun(z, i)[1] = [val |-> z[i], cnt |-> 1]
         /\ rp \o OneRun(z, i) \in Seq(Run) /\ Len(rp \o OneRun(z, i)) = Len(rp) + 1
         /\ \A k \in 1..Len(rp) : (rp \o OneRun(z, i))[k] = rp[k]
         /\ (rp \o OneRun(z, i))[Len(rp) + 1] = [val |-> z[i], cnt |-> 1]
         /\ NextRuns(z, i, rp) \in Seq(Run) \ {<<>>}
<1> DEFINE n == Len(rp)
           r == rp[n]
           x == [val |-> r.val, cnt |-> r.cnt + 1]
           o == [val |-> z[i], cnt |-> 1]
<1>1. n \in Nat \ {0} /\ rp \in [1..n -> Run]
  BY EmptySeq, LenProperties
<1>2. r \in Run /\ x \in Run
  BY <1>1 DEF Run
<1>3. z[i] \in Int
  <2>1. i \in 1..64 /\ z \in [1..64 -> Int]
    BY DEF Block
  <2> QED
    BY <2>1, Zenon
<1>4. o \in Run
  BY <1>3 DEF Run
<1>5. Longer(rp) = [rp EXCEPT ![n] = x]
  <2>1. Longer(rp) = [rp EXCEPT ![n] = [r EXCEPT !.cnt = @ + 1]]
    BY DEF Longer
  <2>2. [r EXCEPT !.cnt = @ + 1] = x
    <3> HIDE DEF r
    <3> QED
      BY <1>2, SMTT(40) DEF Run
  <2> QED
    BY <2>1, <2>2, Zenon
<1>6. /\ Longer(rp) \in Seq(Run) /\ Len(Longer(rp)) = n
      /\ \A k \in 1..n : Longer(rp)[k] = IF k = n THEN x ELSE rp[k]
  <2> HIDE DEF x, n
  <2> QED
    BY <1>1, <1>2, <1>5, ExceptSeq DEF n
<1>7. OneRun(z, i) \in Seq(Run) /\ Len(OneRun(z, i)) = 1 /\ OneRun(z, i)[1] = o
  BY <1>4 DEF OneRun
<1>8. /\ rp \o OneRun(z, i) \in Seq(Run) /\ Len(rp \o OneRun(z, i)) = n + 1
      /\ \A k \in 1..n : (rp \o OneRun(z, i))[k] = rp[k]
      /\ (rp \o OneRun(z, i))[n + 1] = o
  <2> HIDE DEF o
  <2> DEFINE u == OneRun(z, i)
  <2> HIDE DEF u
  <2>1. u \in Seq(Run) /\ Len(u) = 1 /\ u[1] = o
    BY <1>7 DEF u
  <2>2. rp \o u \in Seq(Run) /\ Len(rp \o u) = n + 1
        /\ (\A k \in 1..n : (rp \o u)[k] = rp[k]) /\ (rp \o u)[n + 1] = o
    <3>1. rp \in Seq(Run) /\ u \in Seq(Run)
      BY <2>1
    <3>2. /\ rp \o u \in Seq(Run) /\ Len(rp \o u) = Len(rp) + Len(u)
          /\ \A k \in 1..Len(rp) : (rp \o u)[k] = rp[k]
          /\ \A k \in 1..Len(u) : (rp \o u)[Len(rp) + k] = u[k]
      BY ONLY <3>1, ConcatFacts
    <3> QED
      BY <2>1, <3>2
  <2> QED
    BY <2>2 DEF u
<1>9. NextRuns(z, i, rp) \in Seq(Run) \ {<<>>}
  <2>1. Longer(rp) # <<>> /\ rp \o OneRun(z, i) # <<>>
    <3>1. Len(Longer(rp)) # 0 /\ Len(rp \o OneRun(z, i)) # 0
      <4> HIDE DEF n
      <4> QED
        BY <1>1, <1>6, <1>8
    <3> QED
      BY <3>1, EmptySeq
  <2> QED
    BY <2>1, <1>6, <1>8, Zenon DEF NextRuns
<1>10. /\ \A k \in 1..n - 1 : Longer(rp)[k] = rp[k]
       /\ Longer(rp)[n] = x
  <2> HIDE DEF n, x
  <2> QED
    BY <1>1, <1>6
<1> QED
  BY <1>1, <1>6, <1>7, <1>8, <1>9, <1>10, Zenon

\* The runs of the beginnings of a block.
LEMMA RunsValue ==
  ASSUME NEW z \in Block
  PROVE  LET r == Jpeg!Runs(z)
         IN  /\ r \in [1..64 -> Seq(Run) \ {<<>>}]
             /\ r[1] = OneRun(z, 1)
             /\ \A i \in 2..64 : r[i] = NextRuns(z, i, r[i - 1])
<1> DEFINE S == Seq(Run) \ {<<>>}
           c == OneRun(z, 1)
           F == [k \in 1..63 |-> [rp \in S |-> NextRuns(z, k + 1, rp)]]
           Eq(f) == f = [i \in 1..64 |->
                           LET one == <<[val |-> z[i], cnt |-> 1]>>
                           IN  IF i = 1 THEN one
                               ELSE LET rp == f[i - 1]
                                    IN  IF z[i] = z[i - 1]
                                        THEN [rp EXCEPT ![Len(rp)].cnt = @ + 1]
                                        ELSE rp \o one]
           Same(f) == f = [i \in 1..64 |-> IF i = 1 THEN c ELSE NextRuns(z, i, f[i - 1])]
           h == CHOOSE f : Eq(f)
<1>1. \A f : Eq(f) <=> Same(f)
  BY DEF OneRun, NextRuns, Longer
<1>2. c \in S
  <2>1. [val |-> z[1], cnt |-> 1] \in Run
    BY DEF Block, Run
  <2>2. c \in Seq(Run) /\ Len(c) = 1
    BY <2>1 DEF OneRun
  <2> QED
    BY <2>2, EmptySeq
<1>3. F \in [1..63 -> [S -> S]]
  <2> SUFFICES ASSUME NEW k \in 1..63, NEW rp \in S PROVE NextRuns(z, k + 1, rp) \in S
    OBVIOUS
  <2>1. k + 1 \in 2..64
    OBVIOUS
  <2> QED
    BY <2>1, NextRunsFacts
<1>4. PICK r \in [0..63 -> S] : Iterates(r, c, F, 63)
  <2> HIDE DEF S, c, F
  <2> QED
    BY <1>2, <1>3, Iteration
<1> DEFINE g == [i \in 1..64 |-> r[i - 1]]
<1>5. Same(g)
  <2> SUFFICES ASSUME NEW i \in 1..64
               PROVE  r[i - 1] = IF i = 1 THEN c ELSE NextRuns(z, i, g[i - 1])
    OBVIOUS
  <2>1. CASE i = 1
    <3>1. r[0] = c
      BY <1>4, Zenon DEF Iterates
    <3> QED
      BY <3>1, <2>1
  <2>2. CASE i # 1
    <3> DEFINE k == i - 1
    <3>1. k \in 1..63 /\ k + 1 = i /\ g[i - 1] = r[k - 1] /\ r[k - 1] \in S
      <4>1. k \in 1..63 /\ k + 1 = i /\ k - 1 \in 0..63 /\ i - 1 \in 1..64
        BY <2>2
      <4>2. g[i - 1] = r[k - 1]
        BY <4>1
      <4> HIDE DEF S
      <4>3. r[k - 1] \in S
        BY <4>1
      <4> QED
        BY <4>1, <4>2, <4>3
    <3>2. r[k] = F[k][r[k - 1]]
      BY <1>4, <3>1, Zenon DEF Iterates
    <3> HIDE DEF k, g
    <3>3. F[k][r[k - 1]] = NextRuns(z, k + 1, r[k - 1])
      BY <3>1
    <3> QED
      BY <2>2, <3>1, <3>2, <3>3 DEF k
  <2> QED
    BY <2>1, <2>2
<1>6. Same(h)
  <2> HIDE DEF g, Eq, Same
  <2> QED
    BY <1>1, <1>5
<1>7. Jpeg!Runs(z) = h
  BY DEF Jpeg!Runs
<1>8. h[1] = c /\ \A i \in 2..64 : h[i] = NextRuns(z, i, h[i - 1])
  <2> HIDE DEF h, c
  <2>1. h = [i \in 1..64 |-> IF i = 1 THEN c ELSE NextRuns(z, i, h[i - 1])]
    BY <1>6, Zenon
  <2>2. \A i \in 1..64 : h[i] = IF i = 1 THEN c ELSE NextRuns(z, i, h[i - 1])
    BY <2>1, Zenon
  <2> QED
    BY <2>2
<1>9. \A n \in 0..63 : h[n + 1] \in S
  <2> DEFINE T == {n \in Nat : h[n + 1] \in S}
  <2> HIDE DEF h, S
  <2>1. 0 \in T
    BY <1>2, <1>8
  <2>2. ASSUME NEW n \in Nat, n < 63, n \in T PROVE n + 1 \in T
    <3>1. n + 2 \in 2..64 /\ (n + 2) - 1 = n + 1 /\ (n + 1) + 1 = n + 2
      BY <2>2
    <3>2. h[n + 2] = NextRuns(z, n + 2, h[n + 1])
      BY <3>1, <1>8
    <3>3. h[n + 1] \in Seq(Run) /\ h[n + 1] # <<>>
      BY <2>2 DEF S
    <3>4. h[n + 2] \in S
      <4> DEFINE rp == h[n + 1]
                 i == n + 2
      <4>1. rp \in Seq(Run) /\ rp # <<>> /\ i \in 2..64
        BY <3>1, <3>3
      <4> HIDE DEF rp, i
      <4>2. NextRuns(z, i, rp) \in S
        BY <4>1, NextRunsFacts DEF S
      <4> QED
        BY <3>2, <4>2 DEF rp, i
    <3> QED
      BY <3>1, <3>4
  <2> HIDE DEF T
  <2>3. \A n \in 0..63 : n \in T
    BY <2>1, <2>2, InductionTo
  <2> QED
    BY <2>3 DEF T
<1>10. h \in [1..64 -> S]
  <2> HIDE DEF h, S, c
  <2>1. \A i \in 1..64 : h[i] \in S
    <3> SUFFICES ASSUME NEW i \in 1..64 PROVE h[i] \in S
      OBVIOUS
    <3>1. i - 1 \in 0..63 /\ (i - 1) + 1 = i
      OBVIOUS
    <3> QED
      BY <3>1, <1>9
  <2>2. h = [i \in 1..64 |-> IF i = 1 THEN c ELSE NextRuns(z, i, h[i - 1])]
    BY <1>6, Zenon
  <2> QED
    BY <2>1, <2>2
<1> HIDE DEF h
<1> QED
  BY <1>7, <1>8, <1>10

\* The runs in rp are those of the first i values of z; e says where each one ends.
Ends(rp, z, e, i) ==
  /\ e \in [0..Len(rp) -> Nat] /\ e[0] = 0 /\ e[Len(rp)] = i
  /\ \A k \in 1..Len(rp) : /\ e[k] = e[k - 1] + rp[k].cnt
                           /\ \A j \in e[k - 1] + 1..e[k] : z[j] = rp[k].val
Covers(rp, z, i) == \E e : Ends(rp, z, e, i)

LEMMA NextCovers ==
  ASSUME NEW z \in Block, NEW i \in 2..64, NEW rp \in Seq(Run), rp # <<>>,
         Covers(rp, z, i - 1)
  PROVE  Covers(NextRuns(z, i, rp), z, i)
<1> DEFINE n == Len(rp)
<1>0. n \in Nat \ {0} /\ rp \in [1..n -> Run]
  BY EmptySeq, LenProperties
<1>1. PICK e \in [0..n -> Nat] :
        /\ e[0] = 0 /\ e[n] = i - 1
        /\ \A k \in 1..n : /\ e[k] = e[k - 1] + rp[k].cnt
                          /\ \A j \in e[k - 1] + 1..e[k] : z[j] = rp[k].val
  BY DEF Covers, Ends
<1>4. /\ Longer(rp) \in Seq(Run) /\ Len(Longer(rp)) = n
      /\ \A k \in 1..n - 1 : Longer(rp)[k] = rp[k]
      /\ Longer(rp)[n] = [val |-> rp[n].val, cnt |-> rp[n].cnt + 1]
  BY NextRunsFacts, Zenon
<1>5. /\ Len(rp \o OneRun(z, i)) = n + 1
      /\ \A k \in 1..n : (rp \o OneRun(z, i))[k] = rp[k]
      /\ (rp \o OneRun(z, i))[n + 1] = [val |-> z[i], cnt |-> 1]
  <2> DEFINE w == OneRun(z, i)
  <2>1. w \in Seq(Run) /\ w[1] = [val |-> z[i], cnt |-> 1]
    BY NextRunsFacts, ZenonT(40)
  <2>2. Len(w) = 1
    BY DEF OneRun
  <2> HIDE DEF w, n
  <2>3. /\ Len(rp \o w) = Len(rp) + 1
        /\ \A k \in 1..Len(rp) : (rp \o w)[k] = rp[k]
        /\ (rp \o w)[Len(rp) + 1] = w[1]
    <3>1. /\ Len(rp \o w) = Len(rp) + Len(w)
          /\ \A k \in 1..Len(rp) : (rp \o w)[k] = rp[k]
          /\ \A j \in 1..Len(w) : (rp \o w)[Len(rp) + j] = w[j]
      BY <2>1, ConcatFacts
    <3>2. 1 \in 1..Len(w)
      BY <2>2
    <3> QED
      BY <3>1, <3>2, <2>2, Zenon
  <2> QED
    BY <2>1, <2>3, Zenon DEF w, n
<1> HIDE DEF n
<1>2. CASE z[i] = z[i - 1]
  <2> DEFINE u == Longer(rp)
             f == [k \in 0..n |-> IF k = n THEN i ELSE e[k]]
  <2>1. /\ Len(u) = n /\ \A k \in 1..n - 1 : u[k] = rp[k]
        /\ u[n] = [val |-> rp[n].val, cnt |-> rp[n].cnt + 1]
    BY <1>4, Zenon
  <2>2. f \in [0..n -> Nat] /\ f[0] = 0 /\ f[n] = i /\ \A k \in 0..n - 1 : f[k] = e[k]
    <3>1. i \in Nat /\ 0 \in 0..n /\ n \in 0..n /\ \A k \in 0..n - 1 : k \in 0..n /\ k # n
      BY <1>0
    <3>2. 0 # n
      BY <1>0
    <3> QED
      BY <1>1, <3>1, <3>2
  <2>3. n \in 1..n /\ n - 1 \in 0..n - 1 /\ n - 1 \in 0..n
    BY <1>0
  <2> DEFINE c == rp[n].cnt
             a == e[n - 1]
  <2>4. c \in Nat \ {0} /\ a \in Nat
    <3>1. rp[n] \in Run
      BY <1>0, <2>3
    <3> QED
      BY <3>1, <2>3 DEF Run
  <2>5. a + c = i - 1 /\ \A j \in a + 1..i - 1 : z[j] = rp[n].val
    BY <1>1, <2>3
  <2> HIDE DEF c, a, f, u
  <2>6. i - 1 \in a + 1..i - 1
    BY <2>4, <2>5
  <2>7. z[i] = rp[n].val
    BY <1>2, <2>5, <2>6
  <2>8. ASSUME NEW k \in 1..n
        PROVE  f[k] = f[k - 1] + u[k].cnt /\ \A j \in f[k - 1] + 1..f[k] : z[j] = u[k].val
    <3>1. CASE k = n
      <4>1. f[k] = i /\ f[k - 1] = a /\ u[k].cnt = c + 1 /\ u[k].val = rp[n].val
        BY <3>1, <2>1, <2>2, <2>3 DEF a, c
      <4>2. i = a + (c + 1)
        <5>1. a + c = i - 1
          BY <2>5, Zenon
        <5>2. i \in Nat
          BY <1>0
        <5> QED
          BY <2>4, <5>1, <5>2
      <4>3. \A j \in a + 1..i : j = i \/ j \in a + 1..i - 1
        BY <2>4
      <4>4. \A j \in a + 1..i : z[j] = rp[n].val
        BY <4>3, <2>5, <2>7, Zenon
      <4> QED
        BY <4>1, <4>2, <4>4
    <3>2. CASE k # n
      <4>1. k \in 1..n - 1 /\ k \in 0..n - 1 /\ k - 1 \in 0..n - 1
        BY <3>2, <1>0
      <4>2. f[k] = e[k] /\ f[k - 1] = e[k - 1] /\ u[k] = rp[k]
        BY <4>1, <2>1, <2>2
      <4> QED
        BY <4>2, <1>1
    <3> QED
      BY <3>1, <3>2, Zenon
  <2>9. Covers(u, z, i)
    BY <2>1, <2>2, <2>8 DEF Covers, Ends
  <2> QED
    BY <2>9, <1>2, Zenon DEF NextRuns, u
<1>3. CASE z[i] # z[i - 1]
  <2> DEFINE u == rp \o OneRun(z, i)
             f == [k \in 0..n + 1 |-> IF k = n + 1 THEN i ELSE e[k]]
  <2>1. /\ Len(u) = n + 1 /\ \A k \in 1..n : u[k] = rp[k]
        /\ u[n + 1] = [val |-> z[i], cnt |-> 1]
    BY <1>5, Zenon
  <2>2. f \in [0..n + 1 -> Nat] /\ f[0] = 0 /\ f[n + 1] = i /\ \A k \in 0..n : f[k] = e[k]
    BY <1>0, <1>1
  <2> HIDE DEF f, u
  <2>8. ASSUME NEW k \in 1..n + 1
        PROVE  f[k] = f[k - 1] + u[k].cnt /\ \A j \in f[k - 1] + 1..f[k] : z[j] = u[k].val
    <3>1. CASE k = n + 1
      <4>1. f[k] = i /\ f[k - 1] = i - 1 /\ u[k].cnt = 1 /\ u[k].val = z[i]
        <5>1. k - 1 = n /\ n \in 0..n
          BY <3>1, <1>0
        <5> QED
          BY <3>1, <5>1, <1>1, <2>1, <2>2
      <4>2. \A j \in (i - 1) + 1..i : j = i
        OBVIOUS
      <4>3. i = (i - 1) + 1
        OBVIOUS
      <4>4. \A j \in (i - 1) + 1..i : z[j] = z[i]
        BY <4>2, Zenon
      <4> QED
        BY <4>1, <4>3, <4>4, Zenon
    <3>2. CASE k # n + 1
      <4>1. k \in 1..n /\ k \in 0..n /\ k - 1 \in 0..n
        BY <3>2, <1>0
      <4>2. f[k] = e[k] /\ f[k - 1] = e[k - 1] /\ u[k] = rp[k]
        BY <4>1, <2>1, <2>2
      <4> QED
        BY <4>1, <4>2, <1>1
    <3> QED
      BY <3>1, <3>2, Zenon
  <2>9. Covers(u, z, i)
    BY <2>1, <2>2, <2>8, ZenonT(40) DEF Covers, Ends
  <2> QED
    BY <2>9, <1>3, Zenon DEF NextRuns, u
<1> QED
  BY <1>2, <1>3, Zenon

\* The runs of a block put one behind the other are the block.
LEMMA RunsMakeTheBlock ==
  ASSUME NEW z \in Block
  PROVE  /\ Jpeg!doRLE(z) \in Seq(Run) /\ Jpeg!doRLE(z) # <<>>
         /\ Covers(Jpeg!doRLE(z), z, 64)
<1> DEFINE r == Jpeg!Runs(z)
           T == {n \in Nat : Covers(r[n + 1], z, n + 1)}
<1>1. /\ r \in [1..64 -> Seq(Run) \ {<<>>}]
      /\ r[1] = OneRun(z, 1)
      /\ \A i \in 2..64 : r[i] = NextRuns(z, i, r[i - 1])
  BY RunsValue
<1> HIDE DEF r
<1>2. 0 \in T
  <2> DEFINE e == [k \in 0..1 |-> k]
             u == OneRun(z, 1)
  <2>1. Len(u) = 1 /\ u[1] = [val |-> z[1], cnt |-> 1]
    BY DEF OneRun
  <2>2. e \in [0..1 -> Nat] /\ e[0] = 0 /\ e[1] = 1
    OBVIOUS
  <2> HIDE DEF e, u
  <2>3. ASSUME NEW k \in 1..1
        PROVE  e[k] = e[k - 1] + u[k].cnt /\ \A j \in e[k - 1] + 1..e[k] : z[j] = u[k].val
    <3>1. k = 1 /\ k - 1 = 0 /\ u[k].cnt = 1 /\ u[k].val = z[1]
      BY <2>1
    <3>2. \A j \in 0 + 1..1 : j = 1
      OBVIOUS
    <3> QED
      BY <3>1, <3>2, <2>2
  <2>4. Covers(u, z, 1)
    BY <2>1, <2>2, <2>3 DEF Covers, Ends
  <2> QED
    BY <1>1, <2>4 DEF u
<1>3. ASSUME NEW n \in Nat, n < 63, n \in T PROVE n + 1 \in T
  <2> DEFINE i == n + 2
             rp == r[n + 1]
  <2>1. i \in 2..64 /\ i - 1 = n + 1 /\ (n + 1) + 1 = i /\ n + 1 \in 1..64
    BY <1>3
  <2>2. r[i] = NextRuns(z, i, rp) /\ rp \in Seq(Run) /\ rp # <<>> /\ Covers(rp, z, i - 1)
    BY <1>1, <1>3, <2>1
  <2> HIDE DEF i, rp
  <2>3. Covers(r[i], z, i)
    BY <2>1, <2>2, NextCovers
  <2> QED
    BY <2>1, <2>3
<1>4. \A n \in 0..63 : n \in T
  <2> HIDE DEF T
  <2> QED
    BY <1>2, <1>3, InductionTo
<1>5. Covers(r[64], z, 64)
  <2>1. 63 \in T
    BY <1>4
  <2>2. 63 + 1 = 64
    OBVIOUS
  <2> QED
    BY <2>1, <2>2
<1> QED
  BY <1>1, <1>5 DEF Jpeg!doRLE, r

\* The zigzag scan takes each place of a block.
LEMMA ZigzagPlaces ==
  /\ \A k \in 1..64 : Jpeg!zigzagOrder[k] \in 1..64
  /\ \A p \in 1..64 : \E k \in 1..64 : Jpeg!zigzagOrder[k] = p
<1> DEFINE zo == Jpeg!zigzagOrder
<1>1. /\ zo[1] = 1 /\ zo[2] = 2 /\ zo[6] = 3 /\ zo[7] = 4
      /\ zo[15] = 5 /\ zo[16] = 6 /\ zo[28] = 7 /\ zo[29] = 8
  BY DEF Jpeg!zigzagOrder
<1>2. /\ zo[3] = 9 /\ zo[5] = 10 /\ zo[8] = 11 /\ zo[14] = 12
      /\ zo[17] = 13 /\ zo[27] = 14 /\ zo[30] = 15 /\ zo[43] = 16
  BY DEF Jpeg!zigzagOrder
<1>3. /\ zo[4] = 17 /\ zo[9] = 18 /\ zo[13] = 19 /\ zo[18] = 20
      /\ zo[26] = 21 /\ zo[31] = 22 /\ zo[42] = 23 /\ zo[44] = 24
  BY DEF Jpeg!zigzagOrder
<1>4. /\ zo[10] = 25 /\ zo[12] = 26 /\ zo[19] = 27 /\ zo[25] = 28
      /\ zo[32] = 29 /\ zo[41] = 30 /\ zo[45] = 31 /\ zo[54] = 32
  BY DEF Jpeg!zigzagOrder
<1>5. /\ zo[11] = 33 /\ zo[20] = 34 /\ zo[24] = 35 /\ zo[33] = 36
      /\ zo[40] = 37 /\ zo[46] = 38 /\ zo[53] = 39 /\ zo[55] = 40
  BY DEF Jpeg!zigzagOrder
<1>6. /\ zo[21] = 41 /\ zo[23] = 42 /\ zo[34] = 43 /\ zo[39] = 44
      /\ zo[47] = 45 /\ zo[52] = 46 /\ zo[56] = 47 /\ zo[61] = 48
  BY DEF Jpeg!zigzagOrder
<1>7. /\ zo[22] = 49 /\ zo[35] = 50 /\ zo[38] = 51 /\ zo[48] = 52
      /\ zo[51] = 53 /\ zo[57] = 54 /\ zo[60] = 55 /\ zo[62] = 56
  BY DEF Jpeg!zigzagOrder
<1>8. /\ zo[36] = 57 /\ zo[37] = 58 /\ zo[49] = 59 /\ zo[50] = 60
      /\ zo[58] = 61 /\ zo[59] = 62 /\ zo[63] = 63 /\ zo[64] = 64
  BY DEF Jpeg!zigzagOrder
<1> HIDE DEF zo
<1>11. \A p \in 1..8 : \E k \in 1..64 : zo[k] = p
  BY <1>1
<1>12. \A p \in 9..16 : \E k \in 1..64 : zo[k] = p
  BY <1>2
<1>13. \A p \in 17..24 : \E k \in 1..64 : zo[k] = p
  BY <1>3
<1>14. \A p \in 25..32 : \E k \in 1..64 : zo[k] = p
  BY <1>4
<1>15. \A p \in 33..40 : \E k \in 1..64 : zo[k] = p
  BY <1>5
<1>16. \A p \in 41..48 : \E k \in 1..64 : zo[k] = p
  BY <1>6
<1>17. \A p \in 49..56 : \E k \in 1..64 : zo[k] = p
  BY <1>7
<1>18. \A p \in 57..64 : \E k \in 1..64 : zo[k] = p
  BY <1>8
<1>20. ASSUME NEW p \in 1..64 PROVE \E k \in 1..64 : zo[k] = p
  <2>1. \/ p \in 1..8 \/ p \in 9..16 \/ p \in 17..24 \/ p \in 25..32
        \/ p \in 33..40 \/ p \in 41..48 \/ p \in 49..56 \/ p \in 57..64
    OBVIOUS
  <2> QED
    BY <2>1, <1>11, <1>12, <1>13, <1>14, <1>15, <1>16, <1>17, <1>18, ZenonT(40)
<1>21. \A k \in 1..64 : zo[k] \in 1..64
  <2>1. \A k \in 1..8 : zo[k] \in 1..64
    BY DEF zo, Jpeg!zigzagOrder
  <2>2. \A k \in 9..16 : zo[k] \in 1..64
    BY DEF zo, Jpeg!zigzagOrder
  <2>3. \A k \in 17..24 : zo[k] \in 1..64
    BY DEF zo, Jpeg!zigzagOrder
  <2>4. \A k \in 25..32 : zo[k] \in 1..64
    BY DEF zo, Jpeg!zigzagOrder
  <2>5. \A k \in 33..40 : zo[k] \in 1..64
    BY DEF zo, Jpeg!zigzagOrder
  <2>6. \A k \in 41..48 : zo[k] \in 1..64
    BY DEF zo, Jpeg!zigzagOrder
  <2>7. \A k \in 49..56 : zo[k] \in 1..64
    BY DEF zo, Jpeg!zigzagOrder
  <2>8. \A k \in 57..64 : zo[k] \in 1..64
    BY DEF zo, Jpeg!zigzagOrder
  <2> SUFFICES ASSUME NEW k \in 1..64 PROVE zo[k] \in 1..64
    OBVIOUS
  <2>9. \/ k \in 1..8 \/ k \in 9..16 \/ k \in 17..24 \/ k \in 25..32
        \/ k \in 33..40 \/ k \in 41..48 \/ k \in 49..56 \/ k \in 57..64
    OBVIOUS
  <2> QED
    BY <2>1, <2>2, <2>3, <2>4, <2>5, <2>6, <2>7, <2>8, <2>9, ZenonT(40)
<1> QED
  BY <1>20, <1>21 DEF zo

\* The decoder puts the values back to where the scan has taken them from.
LEMMA Unzigzag ==
  ASSUME NEW b \in Block
  PROVE  Jpeg!zigzagScan(b) \in Block /\ Jpeg!InverseZigzag(Jpeg!zigzagScan(b)) = b
<1> DEFINE z == Jpeg!zigzagScan(b)
           K(p) == CHOOSE k \in 1..64 : Jpeg!zigzagOrder[k] = p
<1>1. \A k \in 1..64 : z[k] = b[Jpeg!zigzagOrder[k]]
  BY DEF Jpeg!zigzagScan
<1>2. z \in Block
  BY ZigzagPlaces DEF Jpeg!zigzagScan, Block
<1> HIDE DEF z
<1>3. ASSUME NEW p \in 1..64 PROVE z[K(p)] = b[p]
  <2>1. K(p) \in 1..64 /\ Jpeg!zigzagOrder[K(p)] = p
    BY ZigzagPlaces
  <2> QED
    BY <1>1, <2>1, Zenon
<1>4. Jpeg!InverseZigzag(z) = [p \in 1..64 |-> z[K(p)]]
  BY DEF Jpeg!InverseZigzag
<1>5. b = [p \in 1..64 |-> b[p]]
  BY DEF Block
<1> HIDE DEF K
<1>6. Jpeg!InverseZigzag(z) = b
  BY <1>3, <1>4, <1>5
<1> QED
  BY <1>2, <1>6 DEF z

\* A row of step 3; the rows so far and the zeros since the last one.
Row == [run : Nat, val : Int]
Coded == [run : Nat, rows : Seq(Row)]
NextCoded(z, i, c) ==
  IF z[i] = 0 THEN [c EXCEPT !.run = @ + 1]
  ELSE [run |-> 0, rows |-> Append(c.rows, [run |-> c.run, val |-> z[i]])]

\* The rows of c say what the first i values of z are; e[k] is the place of the k-th.
RowsSay(z, c, e, i) ==
  LET n == Len(c.rows)
  IN  /\ e \in [0..n -> 0..i] /\ e[0] = 1 /\ e[n] + c.run = i
      /\ \A k \in 1..n : e[k] = e[k - 1] + c.rows[k].run + 1
      /\ \A j \in 2..i : IF z[j] = 0 THEN \A k \in 1..n : e[k] # j
                         ELSE \E k \in 1..n : e[k] = j /\ c.rows[k].val = z[j]

LEMMA NextCodedFacts ==
  ASSUME NEW z \in Block, NEW i \in 2..64, NEW c \in Coded
  PROVE  /\ NextCoded(z, i, c) \in Coded
         /\ (\E e : RowsSay(z, c, e, i - 1)) => \E e : RowsSay(z, NextCoded(z, i, c), e, i)
<1> DEFINE rows == c.rows
           run == c.run
           n == Len(rows)
           row == [run |-> run, val |-> z[i]]
<1>1. rows \in Seq(Row) /\ run \in Nat /\ n \in Nat
  BY LenProperties DEF Coded
<1>2. z[i] \in Int
  <2>1. i \in 1..64 /\ z \in [1..64 -> Int]
    BY DEF Block
  <2> QED
    BY <2>1, Zenon
<1>3. CASE z[i] = 0
  <2> DEFINE d == [c EXCEPT !.run = @ + 1]
  <2>1. d \in Coded /\ d.rows = rows /\ d.run = run + 1
    BY DEF Coded
  <2>2. ASSUME NEW e, RowsSay(z, c, e, i - 1) PROVE RowsSay(z, d, e, i)
    <3> HIDE DEF rows, run, n, d
    <3>1. /\ e \in [0..n -> 0..i - 1] /\ e[0] = 1 /\ e[n] + run = i - 1
          /\ \A k \in 1..n : e[k] = e[k - 1] + rows[k].run + 1
          /\ \A j \in 2..i - 1 : IF z[j] = 0 THEN \A k \in 1..n : e[k] # j
                                 ELSE \E k \in 1..n : e[k] = j /\ rows[k].val = z[j]
      BY <2>2, Zenon DEF RowsSay, rows, run, n
    <3>2. e \in [0..n -> 0..i] /\ e[n] + (run + 1) = i
      <4>1. e[n] \in 0..i - 1
        BY <1>1, <3>1
      <4> QED
        BY <1>1, <3>1, <4>1
    <3>3. \A k \in 1..n : e[k] # i
      <4> SUFFICES ASSUME NEW k \in 1..n PROVE e[k] # i
        OBVIOUS
      <4>1. k \in 0..n
        BY <1>1
      <4>2. e[k] \in 0..i - 1
        BY <3>1, <4>1
      <4> QED
        BY <4>2
    <3>4. ASSUME NEW j \in 2..i
          PROVE  IF z[j] = 0 THEN \A k \in 1..n : e[k] # j
                 ELSE \E k \in 1..n : e[k] = j /\ rows[k].val = z[j]
      <4>1. j = i \/ j \in 2..i - 1
        OBVIOUS
      <4> QED
        BY <1>3, <3>1, <3>3, <4>1, ZenonT(40)
    <3>5. Len(d.rows) = n /\ d.run = run + 1 /\ d.rows = rows
      BY <2>1 DEF n
    <3> QED
      BY <3>1, <3>2, <3>4, <3>5, Zenon DEF RowsSay
  <2> QED
    BY <1>3, <2>1, <2>2, Zenon DEF NextCoded
<1>4. CASE z[i] # 0
  <2> DEFINE r == Append(rows, row)
             d == [run |-> 0, rows |-> r]
  <2>0. row \in Row
    BY <1>1, <1>2 DEF Row
  <2>1. /\ r \in Seq(Row) /\ Len(r) = n + 1
        /\ \A k \in 1..n : r[k] = rows[k]
        /\ r[n + 1] = row
    <3> HIDE DEF rows, row
    <3> QED
      BY <1>1, <2>0, AppendProperties
  <2>2. row.run = run /\ row.val = z[i]
    OBVIOUS
  <2>3. d \in Coded /\ d.rows = r /\ d.run = 0
    BY <2>1 DEF Coded
  <2>4. ASSUME NEW e, RowsSay(z, c, e, i - 1) PROVE \E f : RowsSay(z, d, f, i)
    <3> HIDE DEF rows, run, n, d, r, row
    <3> DEFINE f == [k \in 0..n + 1 |-> IF k = n + 1 THEN i ELSE e[k]]
    <3>1. /\ e \in [0..n -> 0..i - 1] /\ e[0] = 1 /\ e[n] + run = i - 1
          /\ \A k \in 1..n : e[k] = e[k - 1] + rows[k].run + 1
          /\ \A j \in 2..i - 1 : IF z[j] = 0 THEN \A k \in 1..n : e[k] # j
                                 ELSE \E k \in 1..n : e[k] = j /\ rows[k].val = z[j]
      BY <2>4, Zenon DEF RowsSay, rows, run, n
    <3>2. \A k \in 0..n : e[k] \in 0..i - 1 /\ k \in 0..n + 1 /\ k # n + 1
      BY <1>1, <3>1
    <3>3. f \in [0..n + 1 -> 0..i]
      <4> SUFFICES ASSUME NEW k \in 0..n + 1 PROVE (IF k = n + 1 THEN i ELSE e[k]) \in 0..i
        OBVIOUS
      <4>1. k = n + 1 \/ k \in 0..n
        BY <1>1
      <4> QED
        BY <4>1, <3>2
    <3>4. f[n + 1] = i /\ \A k \in 0..n : f[k] = e[k]
      BY <1>1, <3>2
    <3> HIDE DEF f
    <3>5. f[0] = 1 /\ f[n + 1] + 0 = i
      BY <1>1, <3>1, <3>4
    <3>6. ASSUME NEW k \in 1..n + 1 PROVE f[k] = f[k - 1] + r[k].run + 1
      <4>1. CASE k = n + 1
        <5>1. f[k] = i /\ f[k - 1] = e[n] /\ r[k].run = run
          <6>1. n \in 0..n /\ k - 1 = n
            BY <1>1, <4>1
          <6> QED
            BY <4>1, <6>1, <3>4, <2>1, <2>2
        <5>2. e[n] \in 0..i - 1
          BY <1>1, <3>2
        <5> QED
          BY <5>1, <5>2, <3>1, <1>1
      <4>2. CASE k # n + 1
        <5>1. k \in 1..n /\ k \in 0..n /\ k - 1 \in 0..n
          BY <4>2, <1>1
        <5>2. f[k] = e[k] /\ f[k - 1] = e[k - 1] /\ r[k] = rows[k]
          BY <5>1, <3>4, <2>1
        <5> QED
          BY <5>1, <5>2, <3>1
      <4> QED
        BY <4>1, <4>2, Zenon
    <3>7. ASSUME NEW j \in 2..i
          PROVE  IF z[j] = 0 THEN \A k \in 1..n + 1 : f[k] # j
                 ELSE \E k \in 1..n + 1 : f[k] = j /\ r[k].val = z[j]
      <4>1. CASE j = i
        <5>1. n + 1 \in 1..n + 1
          BY <1>1
        <5> QED
          BY <4>1, <5>1, <1>4, <3>4, <2>1, <2>2
      <4>2. CASE j # i
        <5>1. j \in 2..i - 1
          BY <4>2
        <5>2. IF z[j] = 0 THEN \A k \in 1..n : e[k] # j
              ELSE \E k \in 1..n : e[k] = j /\ rows[k].val = z[j]
          BY <5>1, <3>1, Zenon
        <5>3. \A k \in 1..n : k \in 1..n + 1 /\ f[k] = e[k] /\ r[k] = rows[k]
          BY <1>1, <3>4, <2>1
        <5>4. \A k \in 1..n + 1 : k = n + 1 \/ k \in 1..n
          BY <1>1
        <5> QED
          BY <4>2, <5>2, <5>3, <5>4, <3>4, Zenon
      <4> QED
        BY <4>1, <4>2, Zenon
    <3>8. Len(d.rows) = n + 1 /\ d.run = 0 /\ d.rows = r
      BY <2>1, <2>3 DEF n
    <3>9. RowsSay(z, d, f, i)
      BY <3>3, <3>5, <3>6, <3>7, <3>8 DEF RowsSay
    <3> QED
      BY <3>9
  <2> QED
    BY <1>4, <2>3, <2>4, Zenon DEF NextCoded
<1> QED
  BY <1>3, <1>4, Zenon

\* What the recursive function in runLengthEncode has for values.
LEMMA CodedValue ==
  ASSUME NEW z \in Block
  PROVE  \E h : /\ Jpeg!runLengthEncode(z) = h[64].rows
                /\ h[1] = [run |-> 0, rows |-> <<>>]
                /\ \A i \in 2..64 : h[i] = NextCoded(z, i, h[i - 1])
<1> DEFINE c == [run |-> 0, rows |-> <<>>]
           F == [k \in 1..63 |-> [d \in Coded |-> NextCoded(z, k + 1, d)]]
           Eq(f) == f = [i \in 1..64 |->
                           IF i = 1 THEN c
                           ELSE LET d == f[i - 1]
                                IN  IF z[i] = 0 THEN [d EXCEPT !.run = @ + 1]
                                    ELSE [run |-> 0,
                                          rows |-> Append(d.rows, [run |-> d.run, val |-> z[i]])]]
           Same(f) == f = [i \in 1..64 |-> IF i = 1 THEN c ELSE NextCoded(z, i, f[i - 1])]
           h == CHOOSE f : Eq(f)
<1>1. \A f : Eq(f) <=> Same(f)
  BY DEF NextCoded
<1>2. c \in Coded
  <2>1. <<>> \in Seq(Row)
    BY EmptySeq
  <2> QED
    BY <2>1 DEF Coded
<1>3. F \in [1..63 -> [Coded -> Coded]]
  <2> SUFFICES ASSUME NEW k \in 1..63, NEW d \in Coded PROVE NextCoded(z, k + 1, d) \in Coded
    OBVIOUS
  <2>1. k + 1 \in 2..64
    OBVIOUS
  <2> QED
    BY <2>1, NextCodedFacts
<1>4. PICK r \in [0..63 -> Coded] : Iterates(r, c, F, 63)
  <2> HIDE DEF c, F
  <2> QED
    BY <1>2, <1>3, Iteration
<1> DEFINE g == [i \in 1..64 |-> r[i - 1]]
<1>5. Same(g)
  <2> SUFFICES ASSUME NEW i \in 1..64
               PROVE  r[i - 1] = IF i = 1 THEN c ELSE NextCoded(z, i, g[i - 1])
    OBVIOUS
  <2>1. CASE i = 1
    <3>1. r[0] = c
      BY <1>4, Zenon DEF Iterates
    <3> QED
      BY <3>1, <2>1
  <2>2. CASE i # 1
    <3> DEFINE k == i - 1
    <3>1. k \in 1..63 /\ k + 1 = i /\ g[i - 1] = r[k - 1] /\ r[k - 1] \in Coded
      <4>1. k \in 1..63 /\ k + 1 = i /\ k - 1 \in 0..63 /\ i - 1 \in 1..64
        BY <2>2
      <4>2. g[i - 1] = r[k - 1]
        BY <4>1
      <4>3. r[k - 1] \in Coded
        BY <4>1
      <4> QED
        BY <4>1, <4>2, <4>3
    <3>2. r[k] = F[k][r[k - 1]]
      BY <1>4, <3>1, Zenon DEF Iterates
    <3> HIDE DEF k, g
    <3>3. F[k][r[k - 1]] = NextCoded(z, k + 1, r[k - 1])
      BY <3>1
    <3> QED
      BY <2>2, <3>1, <3>2, <3>3 DEF k
  <2> QED
    BY <2>1, <2>2
<1>6. Same(h)
  <2> HIDE DEF g, Eq, Same
  <2> QED
    BY <1>1, <1>5
<1>7. Jpeg!runLengthEncode(z) = h[64].rows
  BY DEF Jpeg!runLengthEncode
<1>8. h[1] = c /\ \A i \in 2..64 : h[i] = NextCoded(z, i, h[i - 1])
  <2> HIDE DEF h, c
  <2>1. h = [i \in 1..64 |-> IF i = 1 THEN c ELSE NextCoded(z, i, h[i - 1])]
    BY <1>6, Zenon
  <2>2. \A i \in 1..64 : h[i] = IF i = 1 THEN c ELSE NextCoded(z, i, h[i - 1])
    BY <2>1, Zenon
  <2> QED
    BY <2>2
<1> HIDE DEF h
<1> QED
  BY <1>7, <1>8, Zenon

\* The rows of a block say what its AC values are.
LEMMA RowsOfBlock ==
  ASSUME NEW z \in Block
  PROVE  \E e, c : /\ c \in Coded /\ RowsSay(z, c, e, 64)
                   /\ Jpeg!runLengthEncode(z) = c.rows
<1>1. PICK h : /\ Jpeg!runLengthEncode(z) = h[64].rows
               /\ h[1] = [run |-> 0, rows |-> <<>>]
               /\ \A i \in 2..64 : h[i] = NextCoded(z, i, h[i - 1])
  BY CodedValue
<1> DEFINE T == {n \in Nat : h[n + 1] \in Coded /\ \E e : RowsSay(z, h[n + 1], e, n + 1)}
<1>2. 0 \in T
  <2> DEFINE c == [run |-> 0, rows |-> <<>>]
             e == [k \in 0..0 |-> 1]
  <2>1. <<>> \in Seq(Row) /\ Len(<<>>) = 0
    BY EmptySeq
  <2>2. c \in Coded /\ c.rows = <<>> /\ c.run = 0
    BY <2>1 DEF Coded
  <2>3. /\ e \in [0..0 -> 0..1] /\ e[0] = 1 /\ e[0] + 0 = 1
        /\ 1..0 = {} /\ 2..1 = {}
    OBVIOUS
  <2> HIDE DEF c, e
  <2>4. RowsSay(z, c, e, 1)
    BY <2>1, <2>2, <2>3 DEF RowsSay
  <2> QED
    <3>1. 0 + 1 = 1 /\ 0 \in Nat
      OBVIOUS
    <3>2. h[1] = c
      BY <1>1 DEF c
    <3> QED
      BY <2>2, <2>4, <3>1, <3>2, Zenon
<1>3. ASSUME NEW n \in Nat, n < 63, n \in T PROVE n + 1 \in T
  <2> DEFINE i == n + 2
             c == h[n + 1]
  <2>1. i \in 2..64 /\ i - 1 = n + 1 /\ (n + 1) + 1 = i
    BY <1>3
  <2>2. h[i] = NextCoded(z, i, c) /\ c \in Coded /\ \E e : RowsSay(z, c, e, i - 1)
    BY <1>1, <1>3, <2>1
  <2> HIDE DEF i, c
  <2>3. h[i] \in Coded /\ \E e : RowsSay(z, h[i], e, i)
    BY <2>1, <2>2, NextCodedFacts
  <2> QED
    BY <2>1, <2>3
<1>4. 63 \in T
  <2> HIDE DEF T
  <2>1. \A n \in 0..63 : n \in T
    BY <1>2, <1>3, InductionTo
  <2> QED
    BY <2>1
<1>5. 63 + 1 = 64
  OBVIOUS
<1>6. h[63 + 1] \in Coded /\ \E e : RowsSay(z, h[63 + 1], e, 63 + 1)
  BY <1>4, Zenon
<1>7. h[64] \in Coded /\ \E e : RowsSay(z, h[64], e, 64)
  BY <1>5, <1>6
<1> QED
  BY <1>1, <1>7, Zenon

\* A set of natural numbers has a least element, and one with a bound a greatest.
LEMMA LeastElement ==
  ASSUME NEW S, S \subseteq Nat, S # {}
  PROVE  \E x \in S : \A y \in S : x =< y
<1> DEFINE R == OpToRel(<, Nat)
<1>1. \A x, y \in Nat : y < x => <<y, x>> \in R
  BY DEF OpToRel
<1>2. IsWellFoundedOn(R, Nat)
  BY NatLessThanWellFounded
<1> HIDE DEF R
<1>3. PICK x \in S : \A y \in S : ~(<<y, x>> \in R)
  BY <1>2, WFMin
<1>4. ASSUME NEW y \in S PROVE x =< y
  <2>1. x \in Nat /\ y \in Nat
    OBVIOUS
  <2>2. ~(y < x)
    BY <1>1, <1>3, <2>1, Zenon
  <2> QED
    BY <2>1, <2>2
<1> QED
  BY <1>3, <1>4

LEMMA LeastNumber ==
  ASSUME NEW S, S \subseteq Nat, S # {}
  PROVE  Jpeg!Min(S) \in S
<1>1. \E x \in S : \A y \in S : x =< y
  BY LeastElement
<1> QED
  BY <1>1 DEF Jpeg!Min

LEMMA GreatestNumber ==
  ASSUME NEW m \in Nat, NEW S, S \subseteq 0..m, S # {}
  PROVE  Jpeg!Max(S) \in S
<1> DEFINE U == {m - x : x \in S}
<1>1. U \subseteq Nat /\ U # {}
  <2>1. \A x \in S : m - x \in Nat
    OBVIOUS
  <2> QED
    BY <2>1
<1>2. PICK y \in U : \A u \in U : y =< u
  <2> HIDE DEF U
  <2> QED
    BY <1>1, LeastElement
<1>3. PICK x \in S : y = m - x
  OBVIOUS
<1>4. ASSUME NEW w \in S PROVE x >= w
  <2>1. m - w \in U
    OBVIOUS
  <2> HIDE DEF U
  <2>2. y =< m - w
    BY <1>2, <2>1
  <2> QED
    BY <1>3, <2>2
<1> QED
  BY <1>3, <1>4 DEF Jpeg!Max

-----------------------------------------------------------------------------
(* The table of pairs *)

Bit == {0, 1}
Pair == [val : Int, cnt : Nat \ {0}, freq : Nat, code : Seq(Bit)]
Known(ps, p) == \E i \in DOMAIN ps : ps[i].val = p.val /\ ps[i].cnt = p.cnt

LEMMA CountPairFacts ==
  ASSUME NEW ps \in Seq(Pair), NEW p \in Run
  PROVE  /\ Jpeg!CountPair(ps, p) \in Seq(Pair)
         /\ Known(Jpeg!CountPair(ps, p), p)
         /\ \A q : Known(ps, q) => Known(Jpeg!CountPair(ps, p), q)
<1> DEFINE n == Len(ps)
           I == Jpeg!IndexOf(ps, p)
           new == [val |-> p.val, cnt |-> p.cnt, freq |-> 1, code |-> <<>>]
<1>1. n \in Nat /\ ps \in [1..n -> Pair] /\ DOMAIN ps = 1..n
  BY LenProperties
<1>2. I = {i \in 1..n : ps[i].val = p.val /\ ps[i].cnt = p.cnt}
  BY <1>1 DEF Jpeg!IndexOf
<1>3. CASE I = {}
  <2> DEFINE s == Append(ps, new)
  <2>1. new \in Pair
    <3>1. <<>> \in Seq(Bit)
      BY EmptySeq
    <3> QED
      BY <3>1 DEF Run, Pair
  <2>2. new.val = p.val /\ new.cnt = p.cnt
    OBVIOUS
  <2> HIDE DEF new
  <2>3. s \in Seq(Pair) /\ Len(s) = n + 1 /\ (\A i \in 1..n : s[i] = ps[i]) /\ s[n + 1] = new
    BY <2>1, AppendProperties
  <2> HIDE DEF s, n
  <2>4. DOMAIN s = 1..n + 1
    BY <2>3, LenProperties
  <2>5. Known(s, p)
    <3>1. n + 1 \in DOMAIN s
      BY <1>1, <2>4
    <3> QED
      BY <2>2, <2>3, <3>1, Zenon DEF Known
  <2>6. ASSUME NEW q, Known(ps, q) PROVE Known(s, q)
    <3>1. PICK i \in 1..n : ps[i].val = q.val /\ ps[i].cnt = q.cnt
      BY <1>1, <2>6 DEF Known
    <3>2. i \in DOMAIN s /\ s[i] = ps[i]
      BY <1>1, <2>3, <2>4
    <3> QED
      BY <3>1, <3>2, Zenon DEF Known
  <2>7. Jpeg!CountPair(ps, p) = s
    BY <1>3, Zenon DEF Jpeg!CountPair, s, new
  <2> QED
    BY <2>3, <2>5, <2>6, <2>7, Zenon
<1>4. CASE I # {}
  <2> DEFINE m == Jpeg!Min(I)
             r == ps[m]
             x == [r EXCEPT !.freq = @ + 1]
             s == [ps EXCEPT ![m] = x]
  <2>1. m \in 1..n /\ ps[m].val = p.val /\ ps[m].cnt = p.cnt
    <3>1. I \subseteq Nat
      BY <1>2
    <3> HIDE DEF I
    <3>2. m \in I
      BY <3>1, <1>4, LeastNumber
    <3> HIDE DEF m
    <3> QED
      BY <1>2, <3>2
  <2> HIDE DEF m, I
  <2>2. r \in Pair
    BY <1>1, <2>1
  <2> HIDE DEF r
  <2>3. x \in Pair /\ x.val = r.val /\ x.cnt = r.cnt
    <3>1. r.freq + 1 \in Nat
      BY <2>2 DEF Pair
    <3>2. x = [r EXCEPT !.freq = r.freq + 1]
      OBVIOUS
    <3> QED
      BY <2>2, <3>1, <3>2 DEF Pair
  <2> HIDE DEF x
  <2>4. s \in [1..n -> Pair] /\ s[m] = x /\ \A i \in 1..n : i # m => s[i] = ps[i]
    BY <1>1, <2>1, <2>3
  <2>5. s \in Seq(Pair) /\ DOMAIN s = 1..n
    <3>1. s \in Seq(Pair)
      BY <1>1, <2>4, SeqDef
    <3> QED
      BY <3>1, <2>4
  <2> HIDE DEF s
  <2>6. \A i \in 1..n : s[i].val = ps[i].val /\ s[i].cnt = ps[i].cnt
    BY <2>3, <2>4 DEF r
  <2>7. Known(s, p)
    BY <2>1, <2>5, <2>6, Zenon DEF Known
  <2>8. ASSUME NEW q, Known(ps, q) PROVE Known(s, q)
    <3>1. PICK i \in 1..n : ps[i].val = q.val /\ ps[i].cnt = q.cnt
      BY <1>1, <2>8 DEF Known
    <3> QED
      BY <3>1, <2>5, <2>6, Zenon DEF Known
  <2>9. Jpeg!CountPair(ps, p) = s
    <3>1. Jpeg!CountPair(ps, p) = [ps EXCEPT ![m].freq = @ + 1]
      BY <1>4, Zenon DEF Jpeg!CountPair, m, I
    <3>2. [ps EXCEPT ![m].freq = @ + 1] = s
      BY DEF s, x, r
    <3> QED
      BY <3>1, <3>2
  <2> QED
    BY <2>5, <2>7, <2>8, <2>9, Zenon
<1> QED
  BY <1>3, <1>4, Zenon

\* After a block has been counted the table knows its pairs.
LEMMA CountPairsFacts ==
  ASSUME NEW ps \in Seq(Pair), NEW rp \in Seq(Run)
  PROVE  /\ Jpeg!CountPairs(ps, rp) \in Seq(Pair)
         /\ \A k \in 1..Len(rp) : Known(Jpeg!CountPairs(ps, rp), rp[k])
         /\ \A q : Known(ps, q) => Known(Jpeg!CountPairs(ps, rp), q)
<1> DEFINE n == Len(rp)
           S == Seq(Pair)
           F == [k \in 1..n |-> [s \in S |-> Jpeg!CountPair(s, rp[k])]]
           Eq(f) == f = [k \in 0..n |-> IF k = 0 THEN ps ELSE Jpeg!CountPair(f[k - 1], rp[k])]
           h == CHOOSE f : Eq(f)
<1>1. n \in Nat /\ \A k \in 1..n : rp[k] \in Run
  BY LenProperties
<1>2. F \in [1..n -> [S -> S]]
  <2> SUFFICES ASSUME NEW k \in 1..n, NEW s \in S PROVE Jpeg!CountPair(s, rp[k]) \in S
    OBVIOUS
  <2>1. rp[k] \in Run
    BY <1>1
  <2> QED
    BY <2>1, CountPairFacts
<1>3. PICK r \in [0..n -> S] : Iterates(r, ps, F, n)
  <2> HIDE DEF S, F, n
  <2>1. ps \in S
    BY DEF S
  <2> QED
    BY <1>1, <1>2, <2>1, Iteration
<1>4. Eq(r)
  <2> SUFFICES ASSUME NEW k \in 0..n
               PROVE  r[k] = IF k = 0 THEN ps ELSE Jpeg!CountPair(r[k - 1], rp[k])
    OBVIOUS
  <2>1. CASE k = 0
    BY <2>1, <1>3, Zenon DEF Iterates
  <2>2. CASE k # 0
    <3> HIDE DEF n
    <3>1. k \in 1..n /\ k - 1 \in 0..n
      BY <1>1, <2>2
    <3>2. r[k] = F[k][r[k - 1]] /\ r[k - 1] \in S
      BY <1>3, <3>1 DEF Iterates
    <3>3. F[k][r[k - 1]] = Jpeg!CountPair(r[k - 1], rp[k])
      BY <3>1, <3>2
    <3> QED
      BY <2>2, <3>2, <3>3
  <2> QED
    BY <2>1, <2>2
<1>5. Eq(h)
  <2> HIDE DEF Eq
  <2> QED
    BY <1>4
<1>6. Jpeg!CountPairs(ps, rp) = h[n]
  BY DEF Jpeg!CountPairs
<1> HIDE DEF h, n
<1>7. h[0] = ps /\ \A k \in 1..n : h[k] = Jpeg!CountPair(h[k - 1], rp[k])
  <2>1. \A k \in 0..n : h[k] = IF k = 0 THEN ps ELSE Jpeg!CountPair(h[k - 1], rp[k])
    BY <1>5, Zenon
  <2>2. 0 \in 0..n /\ \A k \in 1..n : k \in 0..n /\ k # 0
    BY <1>1
  <2> QED
    BY <2>1, <2>2, Zenon
<1> DEFINE Good(k) == /\ h[k] \in Seq(Pair)
                      /\ \A j \in 1..k : Known(h[k], rp[j])
                      /\ \A q : Known(ps, q) => Known(h[k], q)
           T == {k \in Nat : Good(k)}
<1>8. 0 \in T
  BY <1>7
<1>9. ASSUME NEW k \in Nat, k < n, k \in T PROVE k + 1 \in T
  <2>1. k + 1 \in 1..n /\ (k + 1) - 1 = k
    BY <1>1, <1>9
  <2>2. h[k + 1] = Jpeg!CountPair(h[k], rp[k + 1]) /\ rp[k + 1] \in Run
    BY <1>1, <1>7, <2>1
  <2>3. Good(k)
    BY <1>9
  <2>4. /\ h[k + 1] \in Seq(Pair) /\ Known(h[k + 1], rp[k + 1])
        /\ \A q : Known(h[k], q) => Known(h[k + 1], q)
    <3> DEFINE a == h[k]
               p == rp[k + 1]
    <3>1. a \in Seq(Pair) /\ p \in Run /\ h[k + 1] = Jpeg!CountPair(a, p)
      BY <2>2, <2>3
    <3> HIDE DEF a, p
    <3>2. /\ Jpeg!CountPair(a, p) \in Seq(Pair)
          /\ Known(Jpeg!CountPair(a, p), p)
          /\ \A q : Known(a, q) => Known(Jpeg!CountPair(a, p), q)
      BY <3>1, CountPairFacts
    <3> QED
      BY <3>1, <3>2, Zenon DEF a, p
  <2>5. \A j \in 1..k + 1 : j = k + 1 \/ j \in 1..k
    OBVIOUS
  <2>6. Good(k + 1)
    BY <2>3, <2>4, <2>5, Zenon
  <2> QED
    BY <2>6
<1>10. Good(n)
  <2> HIDE DEF T
  <2>1. \A k \in 0..n : k \in T
    BY <1>1, <1>8, <1>9, InductionTo
  <2>2. n \in T
    BY <1>1, <2>1
  <2> QED
    BY <2>2 DEF T
<1> QED
  BY <1>6, <1>10, Zenon DEF n

-----------------------------------------------------------------------------
(* The tree *)

\* One sequence of bits begins another one.
LEMMA PrefixFacts ==
  ASSUME NEW S, NEW s \in Seq(S), NEW t \in Seq(S)
  PROVE  Jpeg!IsPrefix(s, t) <=> Len(s) <= Len(t) /\ \A i \in 1..Len(s) : s[i] = t[i]
<1> DEFINE n == Len(s)
           u == SubSeq(s, 1, n)
           v == SubSeq(t, 1, n)
<1>1. n \in Nat /\ Len(t) \in Nat
  BY LenProperties
<1>2. SUFFICES ASSUME n <= Len(t) PROVE u = v <=> \A i \in 1..n : s[i] = t[i]
  BY DEF Jpeg!IsPrefix
<1>3. u \in Seq(S) /\ Len(u) = n /\ \A i \in 1..n : u[i] = s[i]
  BY <1>1, SubSeqProperties, LenProperties
<1>4. v \in Seq(S) /\ Len(v) = n /\ \A i \in 1..n : v[i] = t[i]
  BY <1>1, <1>2, SubSeqProperties, LenProperties
<1> HIDE DEF u, v, n
<1>5. ASSUME \A i \in 1..n : s[i] = t[i] PROVE u = v
  BY <1>3, <1>4, <1>5, SameSeq
<1>6. ASSUME u = v PROVE \A i \in 1..n : s[i] = t[i]
  BY <1>3, <1>4, <1>6
<1> QED
  BY <1>5, <1>6

\* What insertion and removal do to a sequence.
Inserted(q, x, p, r) ==
  /\ Len(r) = Len(q) + 1 /\ p \in 1..Len(q) + 1 /\ r[p] = x
  /\ \A i \in 1..p - 1 : r[i] = q[i]
  /\ \A i \in p..Len(q) : r[i + 1] = q[i]

LEMMA InsertFacts ==
  ASSUME NEW S, NEW q \in Seq(S), NEW x \in S
  PROVE  Jpeg!hpush(q, x) \in Seq(S) /\ \E p : Inserted(q, x, p, Jpeg!hpush(q, x))
<1> DEFINE n == Len(q)
<1>1. n \in Nat /\ DOMAIN q = 1..n /\ \A i \in 1..n : q[i] \in S
  BY LenProperties
<1>2. CASE prog = "base"
  <2> DEFINE r == Append(q, x)
  <2>1. r \in Seq(S) /\ Len(r) = n + 1 /\ (\A i \in 1..n : r[i] = q[i]) /\ r[n + 1] = x
    BY AppendProperties
  <2> HIDE DEF r, n
  <2>2. n + 1 \in 1..n + 1 /\ (n + 1) - 1 = n /\ n + 1..n = {}
    BY <1>1
  <2>3. Inserted(q, x, n + 1, r)
    BY <2>1, <2>2 DEF Inserted, n
  <2>4. Jpeg!hpush(q, x) = r
    BY <1>2, Zenon DEF Jpeg!hpush, r
  <2> QED
    BY <2>1, <2>3, <2>4, Zenon
<1>3. CASE prog # "base"
  <2> DEFINE U == {0} \cup {i \in DOMAIN q : q[i].freq <= x.freq}
             last == Jpeg!Max(U)
             a == SubSeq(q, 1, (last + 1) - 1)
             b == <<x>>
             c == SubSeq(q, last + 1, n)
             r == (a \o b) \o c
  <2>1. last \in 0..n
    <3>1. U \subseteq 0..n /\ U # {}
      BY <1>1
    <3> HIDE DEF U
    <3>2. last \in U
      BY <1>1, <3>1, GreatestNumber
    <3> QED
      BY <3>1, <3>2
  <2>2. Jpeg!hpush(q, x) = r
    BY <1>3, Zenon DEF Jpeg!hpush, Jpeg!InsertAt
  <2> HIDE DEF last, n
  <2>3. a \in Seq(S) /\ Len(a) = last /\ \A i \in 1..last : a[i] = q[i]
    <3>1. (last + 1) - 1 = last
      BY <2>1
    <3> DEFINE v == SubSeq(q, 1, last)
    <3>2. v \in Seq(S) /\ Len(v) = last /\ \A i \in 1..last : v[i] = q[i]
      BY <1>1, <2>1, SubSeqProperties
    <3> QED
      BY <3>1, <3>2, Zenon
  <2>4. b \in Seq(S) /\ Len(b) = 1 /\ b[1] = x
    OBVIOUS
  <2>5. c \in Seq(S) /\ Len(c) = n - last /\ \A i \in 1..n - last : c[i] = q[last + i]
    BY <1>1, <2>1, SubSeqProperties
  <2> HIDE DEF a, b, c
  <2> DEFINE d == a \o b
  <2>6. /\ d \in Seq(S) /\ Len(d) = last + 1
        /\ \A i \in 1..last : d[i] = q[i]
        /\ d[last + 1] = x
    <3>1. /\ d \in Seq(S) /\ Len(d) = Len(a) + Len(b)
          /\ \A i \in 1..Len(a) : d[i] = a[i]
          /\ \A j \in 1..Len(b) : d[Len(a) + j] = b[j]
      <4>1. a \in Seq(S) /\ b \in Seq(S)
        BY <2>3, <2>4
      <4> QED
        BY <4>1, ConcatFacts
    <3> HIDE DEF d
    <3> QED
      BY <3>1, <2>3, <2>4
  <2> HIDE DEF d
  <2>7. /\ d \o c \in Seq(S) /\ Len(d \o c) = n + 1
        /\ \A i \in 1..last + 1 : (d \o c)[i] = d[i]
        /\ \A j \in 1..n - last : (d \o c)[(last + 1) + j] = c[j]
    <3> DEFINE e == d \o c
    <3>1. /\ e \in Seq(S) /\ Len(e) = Len(d) + Len(c)
          /\ \A i \in 1..Len(d) : e[i] = d[i]
          /\ \A j \in 1..Len(c) : e[Len(d) + j] = c[j]
      <4>1. d \in Seq(S) /\ c \in Seq(S)
        BY <2>5, <2>6
      <4> HIDE DEF d
      <4> QED
        BY <4>1, ConcatFacts
    <3> HIDE DEF e
    <3>2. (last + 1) + (n - last) = n + 1
      BY <1>1, <2>1
    <3> QED
      BY <3>1, <3>2, <2>5, <2>6 DEF e
  <2>8. r = d \o c
    BY DEF r, d
  <2> HIDE DEF r
  <2> DEFINE p == last + 1
  <2>9. /\ r \in Seq(S) /\ Len(r) = n + 1 /\ p \in 1..n + 1 /\ r[p] = x
        /\ \A i \in 1..p - 1 : r[i] = q[i]
    <3>1. p \in 1..n + 1 /\ p - 1 = last /\ \A i \in 1..last : i \in 1..last + 1
      BY <1>1, <2>1
    <3>2. p \in 1..last + 1
      BY <2>1
    <3> QED
      BY <3>1, <3>2, <2>6, <2>7, <2>8
  <2>10. ASSUME NEW i \in p..n PROVE r[i + 1] = q[i]
    <3>1. i - last \in 1..n - last /\ (last + 1) + (i - last) = i + 1 /\ last + (i - last) = i
      BY <1>1, <2>1
    <3> DEFINE j == i - last
    <3>2. j \in 1..n - last /\ (last + 1) + j = i + 1 /\ last + j = i
      BY <3>1
    <3> HIDE DEF j
    <3>3. c[j] = q[last + j] /\ r[(last + 1) + j] = c[j]
      BY <3>2, <2>5, <2>7, <2>8, Zenon
    <3> QED
      BY <3>2, <3>3
  <2>11. Inserted(q, x, p, r)
    BY <2>9, <2>10, Zenon DEF Inserted, n
  <2> QED
    BY <2>2, <2>9, <2>11, Zenon DEF r
<1> QED
  BY <1>2, <1>3, Zenon

LEMMA RemoveFacts ==
  ASSUME NEW S, NEW q \in Seq(S), NEW p \in 1..Len(q)
  PROVE  /\ Jpeg!RemoveAt(q, p) \in Seq(S)
         /\ Inserted(Jpeg!RemoveAt(q, p), q[p], p, q)
<1> DEFINE n == Len(q)
           a == SubSeq(q, 1, p - 1)
           b == SubSeq(q, p + 1, n)
           r == a \o b
<1>1. n \in Nat /\ p \in 1..n /\ \A i \in 1..n : q[i] \in S
  BY LenProperties
<1> HIDE DEF n
<1>2. a \in Seq(S) /\ Len(a) = p - 1 /\ \A i \in 1..p - 1 : a[i] = q[i]
  BY <1>1, SubSeqProperties
<1>3. b \in Seq(S) /\ Len(b) = n - p /\ \A i \in 1..n - p : b[i] = q[p + i]
  BY <1>1, SubSeqProperties
<1> HIDE DEF a, b
<1>4. /\ r \in Seq(S) /\ Len(r) = Len(a) + Len(b)
      /\ \A i \in 1..Len(a) : r[i] = a[i]
      /\ \A j \in 1..Len(b) : r[Len(a) + j] = b[j]
  <2>1. a \in Seq(S) /\ b \in Seq(S)
    BY <1>2, <1>3
  <2> QED
    BY <2>1, ConcatFacts
<1>5. Jpeg!RemoveAt(q, p) = r
  BY DEF Jpeg!RemoveAt, r, a, b, n
<1> HIDE DEF r
<1>6. Len(r) = n - 1
  BY <1>1, <1>2, <1>3, <1>4
<1>7. n = Len(r) + 1 /\ p \in 1..Len(r) + 1
  BY <1>1, <1>6
<1>8. \A i \in 1..p - 1 : q[i] = r[i]
  BY <1>2, <1>4
<1>9. ASSUME NEW i \in p..Len(r) PROVE q[i + 1] = r[i]
  <2>1. i - (p - 1) \in 1..n - p /\ (p - 1) + (i - (p - 1)) = i /\ p + (i - (p - 1)) = i + 1
    BY <1>1, <1>6
  <2> QED
    BY <2>1, <1>2, <1>3, <1>4
<1>10. Inserted(r, q[p], p, q)
  BY <1>7, <1>8, <1>9 DEF Inserted, n
<1> QED
  BY <1>4, <1>5, <1>10, Zenon

\* A leaf below a node, by the number of its pair and its path; no path begins another.
LeafOf(N) == [idx : 1..N, code : Seq(Bit)]
Apart(leaves) ==
  \A l, m \in leaves : l # m => l.idx # m.idx /\ ~Jpeg!IsPrefix(l.code, m.code)
Node(N) == {x \in [freq : Nat, leaves : SUBSET LeafOf(N)] : Apart(x.leaves)}
Under(x) == {l.idx : l \in x.leaves}

\* The nodes in the queue have different leaves; Cover are the leaves of all of them.
Forest(q, N) ==
  /\ q \in Seq(Node(N))
  /\ \A i, j \in 1..Len(q) : i # j => Under(q[i]) \cap Under(q[j]) = {}
Cover(q) == UNION {Under(q[i]) : i \in 1..Len(q)}

LEMMA CoverMember ==
  ASSUME NEW q, NEW x
  PROVE  x \in Cover(q) <=> \E i \in 1..Len(q) : x \in Under(q[i])
BY DEF Cover

\* A node that is put into the queue or taken from it.
LEMMA InsertedFacts ==
  ASSUME NEW N, NEW q \in Seq(Node(N)), NEW r \in Seq(Node(N)), NEW x \in Node(N), NEW p,
         Inserted(q, x, p, r)
  PROVE  /\ Cover(r) = Cover(q) \cup Under(x)
         /\ Forest(r, N) <=> Forest(q, N) /\ Cover(q) \cap Under(x) = {}
<1> DEFINE n == Len(q)
<1>1. n \in Nat
  BY LenProperties
<1>2. /\ Len(r) = n + 1 /\ p \in 1..n + 1 /\ r[p] = x
      /\ \A i \in 1..p - 1 : r[i] = q[i]
      /\ \A i \in p..n : r[i + 1] = q[i]
  BY DEF Inserted
<1> HIDE DEF n
<1> DEFINE To(i) == IF i < p THEN i ELSE i + 1
<1>3. ASSUME NEW i \in 1..n PROVE To(i) \in 1..n + 1 /\ To(i) # p /\ r[To(i)] = q[i]
  <2>1. CASE i < p
    <3>1. i \in 1..p - 1 /\ i \in 1..n + 1 /\ i # p
      BY <1>1, <1>2, <2>1
    <3> QED
      BY <2>1, <3>1, <1>2
  <2>2. CASE ~(i < p)
    <3>1. i \in p..n /\ i + 1 \in 1..n + 1 /\ i + 1 # p
      BY <1>1, <1>2, <2>2
    <3> QED
      BY <2>2, <3>1, <1>2
  <2> QED
    BY <2>1, <2>2, Zenon
<1>4. ASSUME NEW k \in 1..n + 1, k # p PROVE \E i \in 1..n : To(i) = k
  <2>1. CASE k < p
    <3>1. k \in 1..n
      BY <1>1, <1>2, <2>1
    <3> QED
      BY <2>1, <3>1
  <2>2. CASE k > p
    <3>1. k - 1 \in 1..n /\ ~(k - 1 < p) /\ (k - 1) + 1 = k
      BY <1>1, <1>2, <2>2
    <3> QED
      BY <3>1
  <2> QED
    BY <1>2, <1>4, <2>1, <2>2
<1>5. \A i, j \in 1..n : i # j => To(i) # To(j)
  BY <1>1, <1>2
<1> HIDE DEF To
<1>6. ASSUME NEW y PROVE y \in Cover(r) <=> y \in Cover(q) \/ y \in Under(x)
  <2>1. ASSUME NEW k \in 1..n + 1, y \in Under(r[k]) PROVE y \in Cover(q) \/ y \in Under(x)
    <3>1. CASE k = p
      BY <1>2, <2>1, <3>1
    <3>2. CASE k # p
      <4>1. PICK i \in 1..n : To(i) = k
        BY <1>4, <3>2
      <4>2. r[k] = q[i]
        BY <1>3, <4>1, Zenon
      <4> QED
        BY <2>1, <4>2, CoverMember DEF n
    <3> QED
      BY <3>1, <3>2
  <2>2. ASSUME NEW i \in 1..n, y \in Under(q[i]) PROVE \E k \in 1..n + 1 : y \in Under(r[k])
    BY <1>3, <2>2, Zenon
  <2>3. y \in Under(x) => \E k \in 1..n + 1 : y \in Under(r[k])
    BY <1>2, Zenon
  <2>4. /\ y \in Cover(r) <=> \E k \in 1..n + 1 : y \in Under(r[k])
        /\ y \in Cover(q) <=> \E i \in 1..n : y \in Under(q[i])
    BY <1>2, CoverMember, Zenon DEF n
  <2> QED
    BY <2>1, <2>2, <2>3, <2>4, Zenon
<1>7. ASSUME Forest(r, N) PROVE Forest(q, N) /\ Cover(q) \cap Under(x) = {}
  <2>1. \A i, j \in 1..n + 1 : i # j => Under(r[i]) \cap Under(r[j]) = {}
    BY <1>2, <1>7, Zenon DEF Forest
  <2>2. \A i, j \in 1..n : i # j => Under(q[i]) \cap Under(q[j]) = {}
    <3> SUFFICES ASSUME NEW i \in 1..n, NEW j \in 1..n, i # j
                 PROVE  Under(q[i]) \cap Under(q[j]) = {}
      OBVIOUS
    <3>1. To(i) # To(j)
      BY <1>5, Zenon
    <3>2. Under(r[To(i)]) \cap Under(r[To(j)]) = {}
      BY <1>3, <2>1, <3>1, Zenon
    <3> QED
      BY <1>3, <3>2, Zenon
  <2>3. ASSUME NEW i \in 1..n PROVE Under(q[i]) \cap Under(x) = {}
    <3>1. Under(r[To(i)]) \cap Under(r[p]) = {}
      BY <1>2, <1>3, <2>1, Zenon
    <3> QED
      BY <1>2, <1>3, <3>1, Zenon
  <2>4. \A y : y \in Cover(q) => y \notin Under(x)
    <3> SUFFICES ASSUME NEW y, y \in Cover(q) PROVE y \notin Under(x)
      OBVIOUS
    <3>1. PICK i \in 1..n : y \in Under(q[i])
      BY CoverMember DEF n
    <3> QED
      BY <2>3, <3>1
  <2> QED
    BY <2>2, <2>4 DEF Forest, n
<1>8. ASSUME Forest(q, N), Cover(q) \cap Under(x) = {} PROVE Forest(r, N)
  <2>1. \A i, j \in 1..n : i # j => Under(q[i]) \cap Under(q[j]) = {}
    BY <1>8, Zenon DEF Forest, n
  <2>2. ASSUME NEW i \in 1..n PROVE Under(q[i]) \cap Under(x) = {}
    <3>1. \A y \in Under(q[i]) : y \in Cover(q)
      BY CoverMember DEF n
    <3> QED
      BY <1>8, <3>1
  <2>3. ASSUME NEW k \in 1..n + 1, NEW m \in 1..n + 1, k # m
        PROVE  Under(r[k]) \cap Under(r[m]) = {}
    <3>1. CASE k = p
      <4>1. PICK j \in 1..n : To(j) = m
        BY <1>4, <2>3, <3>1
      <4>2. r[k] = x /\ r[m] = q[j]
        BY <1>2, <1>3, <3>1, <4>1, Zenon
      <4> QED
        BY <2>2, <4>2
    <3>2. CASE m = p
      <4>1. PICK i \in 1..n : To(i) = k
        BY <1>4, <2>3, <3>2
      <4>2. r[m] = x /\ r[k] = q[i]
        BY <1>2, <1>3, <3>2, <4>1, Zenon
      <4> QED
        BY <2>2, <4>2
    <3>3. CASE k # p /\ m # p
      <4>1. PICK i \in 1..n : To(i) = k
        BY <1>4, <3>3
      <4>2. PICK j \in 1..n : To(j) = m
        BY <1>4, <3>3
      <4>3. r[k] = q[i] /\ r[m] = q[j] /\ i # j
        BY <1>3, <2>3, <4>1, <4>2, Zenon
      <4> QED
        BY <2>1, <4>3, Zenon
    <3> QED
      BY <3>1, <3>2, <3>3, Zenon
  <2> QED
    BY <1>2, <2>3, Zenon DEF Forest
<1> QED
  BY <1>6, <1>7, <1>8

\* The parent of two nodes without a common leaf.
LEMMA BelowFacts ==
  ASSUME NEW N, NEW b \in Bit, NEW x \in Node(N)
  PROVE  /\ Jpeg!Below(b, x) \subseteq LeafOf(N)
         /\ Apart(Jpeg!Below(b, x))
         /\ {l.idx : l \in Jpeg!Below(b, x)} = Under(x)
         /\ \A l \in Jpeg!Below(b, x) : Len(l.code) > 0 /\ l.code[1] = b
<1> DEFINE Deep(l) == [l EXCEPT !.code = <<b>> \o @]
<1>1. Jpeg!Below(b, x) = {Deep(l) : l \in x.leaves}
  BY DEF Jpeg!Below
<1>2. x.leaves \subseteq LeafOf(N) /\ Apart(x.leaves)
  BY DEF Node
<1>3. ASSUME NEW l \in LeafOf(N)
      PROVE  /\ Deep(l) \in LeafOf(N) /\ Deep(l).idx = l.idx
             /\ Len(Deep(l).code) = Len(l.code) + 1 /\ Len(l.code) \in Nat
             /\ Deep(l).code[1] = b
             /\ \A i \in 1..Len(l.code) : Deep(l).code[i + 1] = l.code[i]
  <2> DEFINE c == l.code
             d == <<b>> \o c
  <2>1. c \in Seq(Bit) /\ l.idx \in 1..N
    BY DEF LeafOf
  <2>2. Deep(l) = [idx |-> l.idx, code |-> d]
    <3>1. Deep(l) = [l EXCEPT !.code = d]
      OBVIOUS
    <3> HIDE DEF d, Deep
    <3> QED
      BY <3>1 DEF LeafOf
  <2> HIDE DEF c
  <2>3. d \in Seq(Bit) /\ Len(d) = Len(c) + 1 /\ d[1] = b /\ \A i \in 1..Len(c) : d[i + 1] = c[i]
    <3> DEFINE u == <<b>>
    <3>1. u \in Seq(Bit) /\ Len(u) = 1 /\ u[1] = b
      OBVIOUS
    <3> HIDE DEF u
    <3> DEFINE v == u \o c
    <3>2. /\ v \in Seq(Bit) /\ Len(v) = Len(u) + Len(c)
          /\ \A i \in 1..Len(u) : v[i] = u[i]
          /\ \A j \in 1..Len(c) : v[Len(u) + j] = c[j]
      <4>1. u \in Seq(Bit) /\ c \in Seq(Bit)
        BY <2>1, <3>1
      <4> QED
        BY <4>1, ConcatFacts
    <3> HIDE DEF v
    <3>3. Len(c) \in Nat /\ 1 + Len(c) = Len(c) + 1 /\ \A i \in 1..Len(c) : 1 + i = i + 1
      BY <2>1, LenProperties
    <3>4. v \in Seq(Bit) /\ Len(v) = Len(c) + 1 /\ v[1] = b /\ \A i \in 1..Len(c) : v[i + 1] = c[i]
      BY <3>1, <3>2, <3>3
    <3> QED
      BY <3>4 DEF u, v
  <2>4. Len(c) \in Nat
    BY <2>1, LenProperties
  <2> HIDE DEF d, Deep
  <2>5. Deep(l).idx = l.idx /\ Deep(l).code = d
    BY <2>2
  <2>6. Deep(l) \in LeafOf(N)
    BY <2>1, <2>2, <2>3 DEF LeafOf
  <2> QED
    BY <2>3, <2>4, <2>5, <2>6 DEF c
<1> HIDE DEF Deep
<1>4. ASSUME NEW l \in LeafOf(N), NEW m \in LeafOf(N), Jpeg!IsPrefix(Deep(l).code, Deep(m).code)
      PROVE  Jpeg!IsPrefix(l.code, m.code)
  <2> DEFINE c == l.code
             d == m.code
             u == Deep(l).code
             v == Deep(m).code
  <2>1. c \in Seq(Bit) /\ d \in Seq(Bit) /\ u \in Seq(Bit) /\ v \in Seq(Bit)
    BY <1>3 DEF LeafOf
  <2>2. /\ Len(u) = Len(c) + 1 /\ Len(v) = Len(d) + 1 /\ Len(c) \in Nat /\ Len(d) \in Nat
        /\ \A i \in 1..Len(c) : u[i + 1] = c[i]
        /\ \A i \in 1..Len(d) : v[i + 1] = d[i]
    BY <1>3
  <2>3. Jpeg!IsPrefix(u, v)
    BY <1>4
  <2> HIDE DEF c, d, u, v
  <2>4. Len(u) <= Len(v) /\ \A i \in 1..Len(u) : u[i] = v[i]
    BY <2>1, <2>3, PrefixFacts
  <2>5. Len(c) <= Len(d)
    BY <2>2, <2>4
  <2>6. ASSUME NEW i \in 1..Len(c) PROVE c[i] = d[i]
    <3>1. i + 1 \in 1..Len(u) /\ i \in 1..Len(d)
      BY <2>2, <2>5
    <3> QED
      BY <2>2, <2>4, <3>1
  <2>7. Jpeg!IsPrefix(c, d)
    BY <2>1, <2>5, <2>6, PrefixFacts
  <2> QED
    BY <2>7 DEF c, d
<1>5. Apart(Jpeg!Below(b, x))
  <2> SUFFICES ASSUME NEW l \in x.leaves, NEW m \in x.leaves, Deep(l) # Deep(m)
               PROVE  /\ Deep(l).idx # Deep(m).idx
                      /\ ~Jpeg!IsPrefix(Deep(l).code, Deep(m).code)
    BY <1>1, Zenon DEF Apart
  <2>1. l # m /\ l \in LeafOf(N) /\ m \in LeafOf(N)
    BY <1>2
  <2>2. l.idx # m.idx /\ ~Jpeg!IsPrefix(l.code, m.code)
    BY <1>2, <2>1, Zenon DEF Apart
  <2> QED
    BY <1>3, <1>4, <2>1, <2>2, Zenon
<1>6. {l.idx : l \in Jpeg!Below(b, x)} = Under(x)
  <2>1. \A l \in x.leaves : Deep(l).idx = l.idx
    BY <1>2, <1>3
  <2> QED
    BY <1>1, <2>1 DEF Under
<1>7. \A l \in Jpeg!Below(b, x) : l \in LeafOf(N) /\ Len(l.code) > 0 /\ l.code[1] = b
  <2> SUFFICES ASSUME NEW l \in x.leaves
               PROVE  Deep(l) \in LeafOf(N) /\ Len(Deep(l).code) > 0 /\ Deep(l).code[1] = b
    BY <1>1
  <2>1. /\ Deep(l) \in LeafOf(N) /\ Len(Deep(l).code) = Len(l.code) + 1
        /\ Len(l.code) \in Nat /\ Deep(l).code[1] = b
    BY <1>2, <1>3
  <2> QED
    BY <2>1
<1> QED
  BY <1>5, <1>6, <1>7

LEMMA ParentFacts ==
  ASSUME NEW N, NEW x \in Node(N), NEW y \in Node(N), Under(x) \cap Under(y) = {},
         NEW f \in Nat
  PROVE  LET p == [freq |-> f, leaves |-> Jpeg!Below(0, x) \cup Jpeg!Below(1, y)]
         IN  p \in Node(N) /\ Under(p) = Under(x) \cup Under(y)
<1> DEFINE a == Jpeg!Below(0, x)
           b == Jpeg!Below(1, y)
           p == [freq |-> f, leaves |-> a \cup b]
<1>1. /\ a \subseteq LeafOf(N) /\ Apart(a) /\ {l.idx : l \in a} = Under(x)
      /\ \A l \in a : Len(l.code) > 0 /\ l.code[1] = 0
  <2>1. 0 \in Bit
    BY DEF Bit
  <2> QED
    BY <2>1, BelowFacts
<1>2. /\ b \subseteq LeafOf(N) /\ Apart(b) /\ {l.idx : l \in b} = Under(y)
      /\ \A l \in b : Len(l.code) > 0 /\ l.code[1] = 1
  <2>1. 1 \in Bit
    BY DEF Bit
  <2> QED
    BY <2>1, BelowFacts
<1> HIDE DEF a, b
<1>3. ASSUME NEW l \in a, NEW m \in b
      PROVE  /\ l.idx # m.idx
             /\ ~Jpeg!IsPrefix(l.code, m.code) /\ ~Jpeg!IsPrefix(m.code, l.code)
  <2>1. l.idx \in Under(x) /\ m.idx \in Under(y)
    BY <1>1, <1>2
  <2>2. /\ l.code \in Seq(Bit) /\ m.code \in Seq(Bit)
        /\ Len(l.code) \in Nat /\ Len(m.code) \in Nat
    <3>1. l.code \in Seq(Bit) /\ m.code \in Seq(Bit)
      BY <1>1, <1>2 DEF LeafOf
    <3> QED
      BY <3>1, LenProperties
  <2>3. l.code[1] # m.code[1] /\ 1 \in 1..Len(l.code) /\ 1 \in 1..Len(m.code)
    BY <1>1, <1>2, <2>2
  <2> QED
    BY <2>1, <2>2, <2>3, PrefixFacts
<1>4. Apart(a \cup b)
  <2> SUFFICES ASSUME NEW l \in a \cup b, NEW m \in a \cup b, l # m
               PROVE  l.idx # m.idx /\ ~Jpeg!IsPrefix(l.code, m.code)
    BY Zenon DEF Apart
  <2>1. CASE l \in a /\ m \in a
    BY <1>1, <2>1, Zenon DEF Apart
  <2>2. CASE l \in b /\ m \in b
    BY <1>2, <2>2, Zenon DEF Apart
  <2>3. CASE l \in a /\ m \in b
    BY <1>3, <2>3
  <2>4. CASE l \in b /\ m \in a
    BY <1>3, <2>4
  <2> QED
    BY <2>1, <2>2, <2>3, <2>4
<1>5. p.leaves = a \cup b
  OBVIOUS
<1>6. p \in Node(N)
  <2>1. p \in [freq : Nat, leaves : SUBSET LeafOf(N)]
    BY <1>1, <1>2
  <2> QED
    BY <1>4, <1>5, <2>1 DEF Node
<1>7. Under(p) = Under(x) \cup Under(y)
  <2>1. Under(p) = {l.idx : l \in a \cup b}
    BY <1>5 DEF Under
  <2> QED
    BY <2>1, <1>1, <1>2
<1> QED
  BY <1>6, <1>7 DEF a, b

\* The queue has a node for each pair when all have been pushed.
LEMMA LeafFacts ==
  ASSUME pairs \in Seq(Pair), NEW i \in 1..Len(pairs)
  PROVE  Jpeg!Leaf(i) \in Node(Len(pairs)) /\ Under(Jpeg!Leaf(i)) = {i}
<1> DEFINE N == Len(pairs)
           l == [idx |-> i, code |-> <<>>]
           f == pairs[i].freq
<1>1. f \in Nat
  <2>1. pairs[i] \in Pair
    BY LenProperties
  <2> QED
    BY <2>1 DEF Pair
<1>2. l \in LeafOf(N) /\ l.idx = i
  <2>1. <<>> \in Seq(Bit)
    BY EmptySeq
  <2> QED
    BY <2>1 DEF LeafOf
<1>3. Jpeg!Leaf(i) = [freq |-> f, leaves |-> {l}]
  BY DEF Jpeg!Leaf
<1> HIDE DEF f, l
<1>4. Apart({l})
  BY DEF Apart
<1>5. Jpeg!Leaf(i) \in [freq : Nat, leaves : SUBSET LeafOf(N)] /\ Jpeg!Leaf(i).leaves = {l}
  BY <1>1, <1>2, <1>3
<1> QED
  BY <1>2, <1>4, <1>5 DEF Node, Under

LEMMA PushFacts ==
  ASSUME pairs \in Seq(Pair), Jpeg!Push
  PROVE  Forest(hq', Len(pairs)) /\ Cover(hq') = 1..Len(pairs)
<1> DEFINE n == Len(pairs)
           S == Seq(Node(n))
           F == [k \in 1..n |-> [q \in S |-> Jpeg!hpush(q, Jpeg!Leaf(k))]]
           Eq(f) == f = [i \in 0..n |-> IF i = 0 THEN <<>> ELSE Jpeg!hpush(f[i - 1], Jpeg!Leaf(i))]
           h == CHOOSE f : Eq(f)
           c == <<>>
<1>1. n \in Nat
  BY LenProperties
<1>2. F \in [1..n -> [S -> S]]
  <2> SUFFICES ASSUME NEW k \in 1..n, NEW q \in S PROVE Jpeg!hpush(q, Jpeg!Leaf(k)) \in S
    OBVIOUS
  <2> QED
    BY LeafFacts, InsertFacts
<1>3. PICK r \in [0..n -> S] : Iterates(r, c, F, n)
  <2>1. c \in S
    BY EmptySeq
  <2> HIDE DEF S, F, n, c
  <2> QED
    BY <1>1, <1>2, <2>1, Iteration
<1>4. Eq(r)
  <2> SUFFICES ASSUME NEW k \in 0..n
               PROVE  r[k] = IF k = 0 THEN <<>> ELSE Jpeg!hpush(r[k - 1], Jpeg!Leaf(k))
    OBVIOUS
  <2>1. CASE k = 0
    BY <2>1, <1>3, Zenon DEF Iterates
  <2>2. CASE k # 0
    <3> HIDE DEF n
    <3>1. k \in 1..n /\ k - 1 \in 0..n
      BY <1>1, <2>2
    <3>2. r[k] = F[k][r[k - 1]] /\ r[k - 1] \in S
      BY <1>3, <3>1 DEF Iterates
    <3>3. F[k][r[k - 1]] = Jpeg!hpush(r[k - 1], Jpeg!Leaf(k))
      BY <3>1, <3>2
    <3> QED
      BY <2>2, <3>2, <3>3
  <2> QED
    BY <2>1, <2>2
<1>5. Eq(h)
  <2> HIDE DEF Eq
  <2> QED
    BY <1>4
<1>6. hq' = h[n]
  BY DEF Jpeg!Push
<1> HIDE DEF h, n
<1>7. h[0] = <<>> /\ \A k \in 1..n : h[k] = Jpeg!hpush(h[k - 1], Jpeg!Leaf(k))
  <2>1. \A k \in 0..n : h[k] = IF k = 0 THEN <<>> ELSE Jpeg!hpush(h[k - 1], Jpeg!Leaf(k))
    BY <1>5, Zenon
  <2>2. 0 \in 0..n /\ \A k \in 1..n : k \in 0..n /\ k # 0
    BY <1>1
  <2> QED
    BY <2>1, <2>2, Zenon
<1> DEFINE Good(k) == Forest(h[k], n) /\ Cover(h[k]) = 1..k
           T == {k \in Nat : Good(k)}
<1>8. 0 \in T
  <2>1. <<>> \in Seq(Node(n)) /\ Len(<<>>) = 0
    BY EmptySeq
  <2>2. Forest(<<>>, n)
    BY <2>1 DEF Forest
  <2>3. Cover(<<>>) = {}
    BY <2>1 DEF Cover
  <2> QED
    BY <1>7, <2>2, <2>3
<1>9. ASSUME NEW k \in Nat, k < n, k \in T PROVE k + 1 \in T
  <2> DEFINE q == h[k]
             m == k + 1
             x == Jpeg!Leaf(m)
             s == Jpeg!hpush(q, x)
  <2>1. m \in 1..n /\ m - 1 = k
    BY <1>1, <1>9
  <2>2. h[m] = s
    BY <1>7, <2>1
  <2>3. Forest(q, n) /\ Cover(q) = 1..k
    BY <1>9
  <2>4. q \in Seq(Node(n))
    BY <2>3 DEF Forest
  <2> HIDE DEF q, m
  <2>5. x \in Node(n) /\ Under(x) = {m}
    BY <2>1, LeafFacts DEF n
  <2> HIDE DEF x
  <2>6. s \in Seq(Node(n)) /\ \E p : Inserted(q, x, p, s)
    BY <2>4, <2>5, InsertFacts
  <2> HIDE DEF s
  <2>7. Cover(q) \cap Under(x) = {}
    BY <2>1, <2>3, <2>5 DEF m
  <2>8. Forest(s, n) /\ Cover(s) = Cover(q) \cup Under(x)
    BY <2>3, <2>4, <2>5, <2>6, <2>7, InsertedFacts
  <2>9. Cover(s) = 1..m
    BY <2>3, <2>5, <2>8 DEF m
  <2> QED
    BY <2>2, <2>8, <2>9 DEF m
<1>10. Good(n)
  <2> HIDE DEF T
  <2>1. \A k \in 0..n : k \in T
    BY <1>1, <1>8, <1>9, InductionTo
  <2>2. n \in T
    BY <1>1, <2>1
  <2> QED
    BY <2>2 DEF T
<1> QED
  BY <1>6, <1>10, Zenon DEF n

\* extractMin() finds a node.
LEMMA LeastFacts ==
  ASSUME NEW N, NEW q \in Seq(Node(N)), Len(q) > 0
  PROVE  Jpeg!Least(q) \in 1..Len(q)
<1> DEFINE n == Len(q)
<1>1. n \in Nat \ {0} /\ DOMAIN q = 1..n /\ \A i \in 1..n : q[i].freq \in Nat
  BY LenProperties DEF Node
<1> HIDE DEF n
<1>2. CASE prog = "pipe"
  BY <1>1, <1>2 DEF Jpeg!Least, n
<1>3. CASE prog # "pipe"
  <2> DEFINE U == {i \in DOMAIN q : \A j \in DOMAIN q : q[i].freq <= q[j].freq}
             W == {q[i].freq : i \in 1..n}
  <2>1. \E x \in W : \A y \in W : x =< y
    <3>1. W \subseteq Nat /\ W # {}
      BY <1>1
    <3> HIDE DEF W
    <3> QED
      BY <3>1, LeastElement
  <2>2. U # {} /\ U \subseteq 1..n /\ U \subseteq Nat
    <3>1. PICK i \in 1..n : \A y \in W : q[i].freq =< y
      BY <2>1
    <3>2. i \in U
      BY <1>1, <3>1
    <3>3. U \subseteq 1..n
      BY <1>1
    <3> HIDE DEF U
    <3>4. U \subseteq Nat
      BY <1>1, <3>3
    <3> QED
      BY <3>2, <3>3, <3>4
  <2> HIDE DEF U
  <2>3. Jpeg!Min(U) \in U
    BY <2>2, LeastNumber
  <2> QED
    BY <1>3, <2>2, <2>3 DEF Jpeg!Least, U, n
<1> QED
  BY <1>2, <1>3

LEMMA MergeFacts ==
  ASSUME NEW N, Forest(hq, N), Jpeg!Merge
  PROVE  Forest(hq', N) /\ Cover(hq') = Cover(hq)
<1> DEFINE l == Jpeg!Least(hq)
           q1 == Jpeg!RemoveAt(hq, l)
           r == Jpeg!Least(q1)
           q2 == Jpeg!RemoveAt(q1, r)
           f == hq[l].freq + q1[r].freq
           x == hq[l]
           y == q1[r]
           p == [freq |-> f, leaves |-> Jpeg!Below(0, x) \cup Jpeg!Below(1, y)]
           s == Jpeg!hpush(q2, p)
<1>1. hq \in Seq(Node(N)) /\ Len(hq) > 1 /\ Len(hq) \in Nat
  BY LenProperties DEF Forest, Jpeg!Merge
<1>2. hq' = s
  BY DEF Jpeg!Merge
<1>3. l \in 1..Len(hq)
  BY <1>1, LeastFacts
<1>4. x \in Node(N)
  BY <1>1, <1>3
<1> HIDE DEF l
<1>5. q1 \in Seq(Node(N)) /\ Inserted(q1, x, l, hq)
  BY <1>1, <1>3, RemoveFacts
<1> HIDE DEF q1, x
<1>6. Len(q1) > 0 /\ Len(q1) \in Nat
  BY <1>1, <1>5, LenProperties DEF Inserted
<1>7. r \in 1..Len(q1)
  BY <1>5, <1>6, LeastFacts
<1>8. y \in Node(N)
  BY <1>5, <1>6, <1>7
<1> HIDE DEF r
<1>9. q2 \in Seq(Node(N)) /\ Inserted(q2, y, r, q1)
  BY <1>5, <1>7, RemoveFacts
<1> HIDE DEF q2, y
<1>10. /\ Cover(hq) = Cover(q1) \cup Under(x) /\ Cover(q1) \cap Under(x) = {}
       /\ Forest(q1, N)
  BY <1>1, <1>4, <1>5, InsertedFacts
<1>11. /\ Cover(q1) = Cover(q2) \cup Under(y) /\ Cover(q2) \cap Under(y) = {}
       /\ Forest(q2, N)
  BY <1>5, <1>8, <1>9, <1>10, InsertedFacts
<1>12. f \in Nat
  BY <1>4, <1>8 DEF Node, x, y
<1> HIDE DEF f
<1>13. p \in Node(N) /\ Under(p) = Under(x) \cup Under(y)
  <2>1. Under(x) \cap Under(y) = {}
    BY <1>10, <1>11
  <2> QED
    BY <1>4, <1>8, <1>12, <2>1, ParentFacts
<1> HIDE DEF p
<1>14. s \in Seq(Node(N)) /\ \E k : Inserted(q2, p, k, s)
  BY <1>9, <1>13, InsertFacts
<1> HIDE DEF s
<1>15. Cover(q2) \cap Under(p) = {}
  BY <1>10, <1>11, <1>13
<1>16. Forest(s, N) /\ Cover(s) = Cover(q2) \cup Under(p)
  BY <1>9, <1>11, <1>13, <1>14, <1>15, InsertedFacts
<1>17. Cover(s) = Cover(hq)
  BY <1>10, <1>11, <1>13, <1>16
<1> QED
  BY <1>2, <1>16, <1>17

\* No code begins another one.
PrefixFree(ps) ==
  \A i, j \in 1..Len(ps) : i # j => ~Jpeg!IsPrefix(ps[i].code, ps[j].code)

LEMMA CodesFacts ==
  ASSUME pairs \in Seq(Pair), Forest(hq, Len(pairs)), Cover(hq) = 1..Len(pairs), Jpeg!Codes
  PROVE  /\ pairs' \in Seq(Pair) /\ Len(pairs') = Len(pairs) /\ PrefixFree(pairs')
         /\ \A i \in 1..Len(pairs) : pairs'[i].val = pairs[i].val /\ pairs'[i].cnt = pairs[i].cnt
<1> DEFINE N == Len(pairs)
           x == hq[1]
           L(i) == CHOOSE l \in x.leaves : l.idx = i
           new == [i \in 1..N |-> [pairs[i] EXCEPT !.code = L(i).code]]
<1>1. N \in Nat /\ DOMAIN pairs = 1..N /\ \A i \in 1..N : pairs[i] \in Pair
  BY LenProperties
<1>2. pairs' = new /\ Len(hq) = 1
  BY <1>1 DEF Jpeg!Codes
<1>3. x \in Node(N) /\ Under(x) = 1..N
  <2>1. hq \in Seq(Node(N))
    BY DEF Forest
  <2>2. x \in Node(N)
    <3>1. 1 \in 1..Len(hq)
      BY <1>2
    <3> QED
      BY <2>1, <3>1, ElementOfSeq
  <2>3. \A i \in 1..1 : i = 1
    OBVIOUS
  <2>4. 1 \in 1..1
    OBVIOUS
  <2> HIDE DEF x
  <2>5. Under(x) = Cover(hq)
    BY <1>2, <2>3, <2>4 DEF Cover, x
  <2> QED
    BY <2>2, <2>5
<1> HIDE DEF x, N
<1>4. x.leaves \subseteq LeafOf(N) /\ Apart(x.leaves)
  BY <1>3 DEF Node
<1>5. ASSUME NEW i \in 1..N PROVE L(i) \in x.leaves /\ L(i).idx = i /\ L(i).code \in Seq(Bit)
  <2>1. \E l \in x.leaves : l.idx = i
    BY <1>3 DEF Under
  <2>2. L(i) \in x.leaves /\ L(i).idx = i
    BY <2>1
  <2> HIDE DEF L
  <2> QED
    BY <1>4, <2>2 DEF LeafOf
<1> HIDE DEF L
<1>6. ASSUME NEW i \in 1..N
      PROVE  /\ new[i] \in Pair /\ new[i].code = L(i).code
             /\ new[i].val = pairs[i].val /\ new[i].cnt = pairs[i].cnt
  <2> DEFINE c == L(i).code
  <2>1. new[i] = [pairs[i] EXCEPT !.code = c]
    OBVIOUS
  <2>2. c \in Seq(Bit) /\ pairs[i] \in Pair
    BY <1>1, <1>5
  <2> HIDE DEF new, c
  <2> QED
    BY <2>1, <2>2 DEF Pair, c
<1>7. new \in Seq(Pair) /\ Len(new) = N
  <2>1. new \in [1..N -> Pair]
    BY <1>6
  <2> HIDE DEF new
  <2> QED
    BY <1>1, <2>1, SeqDef
<1>8. PrefixFree(new)
  <2> SUFFICES ASSUME NEW i \in 1..N, NEW j \in 1..N, i # j
               PROVE  ~Jpeg!IsPrefix(new[i].code, new[j].code)
    BY <1>7 DEF PrefixFree
  <2>1. L(i) # L(j)
    BY <1>5
  <2>2. ~Jpeg!IsPrefix(L(i).code, L(j).code)
    BY <1>4, <1>5, <2>1, Zenon DEF Apart
  <2> QED
    BY <1>6, <2>2, Zenon
<1> HIDE DEF new
<1> QED
  BY <1>2, <1>6, <1>7, <1>8 DEF N

-----------------------------------------------------------------------------
(* The trie of the decoder *)

Prefixes(c) == {SubSeq(c, 1, k) : k \in 0..Len(c)}
CodesNotEmpty(ps, m) == \A i \in 1..m : ps[i].code # <<>>

\* The trie t has the first m codes of ps.
TrieOf(t, ps, m) ==
  /\ DOMAIN t = {<<>>} \cup UNION {Prefixes(ps[i].code) : i \in 1..m}
  /\ \A i \in 1..m : t[ps[i].code] = i
  /\ \A p \in DOMAIN t : (\A i \in 1..m : p # ps[i].code) => t[p] = 0

LEMMA CodesAreBits ==
  ASSUME NEW ps \in Seq(Pair)
  PROVE  \A i \in 1..Len(ps) : ps[i].code \in Seq(Bit)
<1>1. ASSUME NEW i \in 1..Len(ps) PROVE ps[i].code \in Seq(Bit)
  <2>1. ps[i] \in Pair
    BY LenProperties
  <2> QED
    BY <2>1 DEF Pair
<1> QED
  BY <1>1

LEMMA PrefixOfItself ==
  ASSUME NEW S, NEW c \in Seq(S)
  PROVE  c \in Prefixes(c) /\ Jpeg!IsPrefix(c, c)
<1>1. Len(c) \in Nat
  BY LenProperties
<1>2. SubSeq(c, 1, Len(c)) = c
  BY SubSeqFull
<1>3. Len(c) \in 0..Len(c)
  BY <1>1
<1>4. c \in Prefixes(c)
  BY <1>2, <1>3, Zenon DEF Prefixes
<1>5. Jpeg!IsPrefix(c, c)
  BY <1>1, PrefixFacts
<1> QED
  BY <1>4, <1>5

LEMMA EmptyTrie == \A ps : TrieOf([p \in {<<>>} |-> 0], ps, 0)
<1> DEFINE t == [p \in {<<>>} |-> 0]
<1>1. DOMAIN t = {<<>>} /\ \A p \in DOMAIN t : t[p] = 0
  OBVIOUS
<1>2. 1..0 = {}
  OBVIOUS
<1> HIDE DEF t
<1>3. ASSUME NEW ps PROVE TrieOf(t, ps, 0)
  <2>1. UNION {Prefixes(ps[i].code) : i \in 1..0} = {}
    BY <1>2
  <2> QED
    BY <1>1, <1>2, <2>1 DEF TrieOf
<1> QED
  BY <1>3 DEF t

LEMMA TrieGrows ==
  ASSUME NEW ps \in Seq(Pair), PrefixFree(ps), NEW m \in Nat, m < Len(ps),
         NEW t, TrieOf(t, ps, m)
  PROVE  TrieOf(Jpeg!add_code(t, ps[m + 1].code, m + 1), ps, m + 1)
<1> DEFINE n == m + 1
           c == ps[n].code
           D == DOMAIN t \cup Prefixes(c)
           u == Jpeg!add_code(t, c, n)
<1>1. Len(ps) \in Nat /\ n \in 1..Len(ps) /\ \A i \in 1..n : i = n \/ i \in 1..m
  BY LenProperties
<1>2. \A i \in 1..Len(ps) : ps[i].code \in Seq(Bit)
  BY CodesAreBits
<1>3. u = [p \in D |-> IF p = c THEN n ELSE IF p \in DOMAIN t THEN t[p] ELSE 0]
  BY DEF Jpeg!add_code, Prefixes
<1>4. c \in D
  BY <1>1, <1>2, PrefixOfItself
<1>5. ASSUME NEW i \in 1..m PROVE ps[i].code \in DOMAIN t /\ ps[i].code # c /\ i \in 1..Len(ps)
  <2>1. i \in 1..Len(ps) /\ i # n
    BY <1>1
  <2>2. ps[i].code \in Prefixes(ps[i].code)
    BY <1>2, <2>1, PrefixOfItself
  <2>3. ps[i].code \in DOMAIN t
    BY <2>2, Zenon DEF TrieOf
  <2>4. ~Jpeg!IsPrefix(ps[i].code, c)
    BY <1>1, <2>1, Zenon DEF PrefixFree
  <2>5. Jpeg!IsPrefix(c, c)
    BY <1>1, <1>2, PrefixOfItself
  <2> QED
    BY <2>1, <2>3, <2>4, <2>5
<1> HIDE DEF u, D, n, c
<1>6. DOMAIN u = {<<>>} \cup UNION {Prefixes(ps[i].code) : i \in 1..n}
  <2>1. DOMAIN u = DOMAIN t \cup Prefixes(c)
    BY <1>3 DEF D
  <2>2. \A i \in 1..m : i \in 1..n
    BY DEF n
  <2>3. n \in 1..n
    BY DEF n
  <2>4. ASSUME NEW y
        PROVE  y \in UNION {Prefixes(ps[i].code) : i \in 1..n}
                 <=> y \in UNION {Prefixes(ps[i].code) : i \in 1..m} \/ y \in Prefixes(c)
    <3>1. y \in UNION {Prefixes(ps[i].code) : i \in 1..n}
            <=> \E i \in 1..n : y \in Prefixes(ps[i].code)
      BY Zenon
    <3>2. y \in UNION {Prefixes(ps[i].code) : i \in 1..m}
            <=> \E i \in 1..m : y \in Prefixes(ps[i].code)
      BY Zenon
    <3>3. (\E i \in 1..n : y \in Prefixes(ps[i].code))
            <=> (\E i \in 1..m : y \in Prefixes(ps[i].code)) \/ y \in Prefixes(c)
      BY <1>1, <2>2, <2>3, Zenon DEF c
    <3> QED
      BY <3>1, <3>2, <3>3
  <2>5. DOMAIN t = {<<>>} \cup UNION {Prefixes(ps[i].code) : i \in 1..m}
    BY DEF TrieOf
  <2>6. ASSUME NEW y
        PROVE  y \in DOMAIN u <=> y \in {<<>>} \cup UNION {Prefixes(ps[i].code) : i \in 1..n}
    <3>1. y \in DOMAIN u <=> y \in DOMAIN t \/ y \in Prefixes(c)
      BY <2>1
    <3>2. y \in DOMAIN t <=> y \in {<<>>} \/ y \in UNION {Prefixes(ps[i].code) : i \in 1..m}
      BY <2>5
    <3> QED
      BY <2>4, <3>1, <3>2, Zenon
  <2> QED
    BY <2>6, Zenon
<1>7. ASSUME NEW i \in 1..n PROVE u[ps[i].code] = i
  <2>1. CASE i = n
    BY <1>3, <1>4, <2>1 DEF c
  <2>2. CASE i \in 1..m
    <3>1. t[ps[i].code] = i
      BY <2>2, Zenon DEF TrieOf
    <3>2. ps[i].code \in D
      BY <1>5, <2>2 DEF D
    <3> QED
      BY <1>3, <1>5, <2>2, <3>1, <3>2
  <2> QED
    BY <1>1, <2>1, <2>2
<1>8. ASSUME NEW p \in DOMAIN u, \A i \in 1..n : p # ps[i].code PROVE u[p] = 0
  <2>1. p \in D /\ p # c
    <3>1. n \in 1..n
      BY DEF n
    <3> QED
      BY <1>3, <1>8, <3>1 DEF c
  <2>2. u[p] = IF p \in DOMAIN t THEN t[p] ELSE 0
    BY <1>3, <2>1
  <2>3. p \in DOMAIN t => t[p] = 0
    <3>1. \A i \in 1..m : i \in 1..n
      BY DEF n
    <3>2. \A i \in 1..m : p # ps[i].code
      BY <1>8, <3>1
    <3> QED
      BY <3>2, Zenon DEF TrieOf
  <2> QED
    BY <2>2, <2>3
<1>9. TrieOf(u, ps, n)
  BY <1>6, <1>7, <1>8 DEF TrieOf
<1> QED
  BY <1>9 DEF u, n, c

\* The next bit of a code leads on to a node of the trie, and the last one to its leaf.
LEMMA NextBit ==
  ASSUME NEW S, NEW c \in Seq(S), NEW k \in 1..Len(c)
  PROVE  /\ Append(SubSeq(c, 1, k - 1), c[k]) = SubSeq(c, 1, k)
         /\ SubSeq(c, 1, k) \in Seq(S) /\ Len(SubSeq(c, 1, k)) = k
<1> DEFINE a == SubSeq(c, 1, k - 1)
           b == SubSeq(c, 1, k)
           d == Append(a, c[k])
<1>1. Len(c) \in Nat /\ \A i \in 1..Len(c) : c[i] \in S
  BY LenProperties
<1>2. a \in Seq(S) /\ Len(a) = k - 1 /\ \A i \in 1..k - 1 : a[i] = c[i]
  BY <1>1, SubSeqProperties
<1>3. b \in Seq(S) /\ Len(b) = k /\ \A i \in 1..k : b[i] = c[i]
  BY <1>1, SubSeqProperties
<1> HIDE DEF a, b
<1>4. d \in Seq(S) /\ Len(d) = Len(a) + 1 /\ (\A i \in 1..Len(a) : d[i] = a[i]) /\ d[Len(a) + 1] = c[k]
  <2>1. a \in Seq(S) /\ c[k] \in S
    BY <1>1, <1>2
  <2> QED
    BY <2>1, AppendProperties
<1> HIDE DEF d
<1>5. Len(d) = k /\ \A i \in 1..k : d[i] = c[i]
  <2>1. Len(d) = k /\ d[k] = c[k] /\ \A i \in 1..k - 1 : d[i] = c[i]
    BY <1>1, <1>2, <1>4
  <2>2. \A i \in 1..k : i = k \/ i \in 1..k - 1
    OBVIOUS
  <2> QED
    BY <2>1, <2>2
<1>6. d = b
  BY <1>3, <1>4, <1>5, SameSeq
<1> QED
  BY <1>3, <1>6 DEF a, b, d

LEMMA TrieWalk ==
  ASSUME NEW ps \in Seq(Pair), PrefixFree(ps), NEW t, TrieOf(t, ps, Len(ps)),
         NEW i \in 1..Len(ps), NEW k \in 1..Len(ps[i].code)
  PROVE  LET node == SubSeq(ps[i].code, 1, k)
         IN  node \in DOMAIN t /\ t[node] = IF k = Len(ps[i].code) THEN i ELSE 0
<1> DEFINE c == ps[i].code
           node == SubSeq(c, 1, k)
<1>1. \A j \in 1..Len(ps) : ps[j].code \in Seq(Bit)
  BY CodesAreBits
<1>2. c \in Seq(Bit) /\ Len(c) \in Nat
  BY <1>1, LenProperties
<1>3. node \in DOMAIN t
  <2>1. k \in 0..Len(c)
    BY <1>2
  <2>2. node \in Prefixes(c)
    BY <2>1, Zenon DEF Prefixes
  <2> QED
    BY <2>2, Zenon DEF TrieOf
<1>4. CASE k = Len(c)
  <2>1. node = c
    BY <1>2, <1>4, SubSeqFull
  <2> QED
    BY <1>3, <1>4, <2>1, Zenon DEF TrieOf
<1>5. CASE k # Len(c)
  <2>1. node \in Seq(Bit) /\ Len(node) = k /\ \A j \in 1..k : node[j] = c[j]
    BY <1>2, SubSeqProperties, LenProperties
  <2> HIDE DEF node, c
  <2>2. ASSUME NEW j \in 1..Len(ps), node = ps[j].code PROVE FALSE
    <3>1. j # i
      BY <1>5, <2>1, <2>2 DEF c
    <3>2. ~Jpeg!IsPrefix(node, c)
      BY <2>2, <3>1, Zenon DEF PrefixFree, c
    <3>3. Jpeg!IsPrefix(node, c)
      <4>1. k <= Len(c)
        BY DEF c
      <4> QED
        BY <1>2, <2>1, <4>1, PrefixFacts
    <3> QED
      BY <3>2, <3>3
  <2>3. t[node] = 0
    BY <1>3, <2>2, Zenon DEF TrieOf
  <2> QED
    BY <1>3, <1>5, <2>3 DEF node, c
<1> QED
  BY <1>4, <1>5

-----------------------------------------------------------------------------
(* The stream *)

RunsOf(im, b) == Jpeg!doRLE(Jpeg!zigzagScan(im[b]))
CodeIn(ps, p) ==
  LET i == Jpeg!IndexOf(ps, p) IN ps[IF i = {} THEN 1 ELSE Jpeg!Min(i)].code
CodesOf(im, ps, b) == [k \in 1..Len(RunsOf(im, b)) |-> CodeIn(ps, RunsOf(im, b)[k])]

\* ps has the pairs of the first m blocks.
AllKnown(im, ps, m) ==
  \A b \in 1..m : \A k \in 1..Len(RunsOf(im, b)) : Known(ps, RunsOf(im, b)[k])

\* The k-th code of block b ends at cut[k] in the stream, of which str is a beginning.
Placed(im, ps, str, cut, b) ==
  LET n == Len(RunsOf(im, b))
      c == CodesOf(im, ps, b)
  IN  /\ cut \in [0..n -> Nat]
      /\ \A k \in 1..n :
           /\ cut[k] = cut[k - 1] + Len(c[k]) /\ cut[k] <= cut[n]
           /\ \A j \in 1..Len(c[k]) :
                cut[k - 1] + j <= Len(str) => str[cut[k - 1] + j] = c[k][j]

\* The first m blocks end at off[1], ..., off[m].
Streamed(im, ps, str, off, m) ==
  /\ off \in [0..m -> Nat] /\ off[0] = 0
  /\ \A b \in 1..m : off[b] <= off[m]
  /\ \A b \in 1..m : \E cut : /\ Placed(im, ps, str, cut, b)
                             /\ cut[0] = off[b - 1] /\ cut[Len(RunsOf(im, b))] = off[b]

LEMMA RunsOfBlock ==
  ASSUME NEW im \in Seq(Block), NEW b \in 1..Len(im)
  PROVE  /\ im[b] \in Block /\ Jpeg!zigzagScan(im[b]) \in Block
         /\ RunsOf(im, b) \in Seq(Run) /\ Len(RunsOf(im, b)) \in Nat \ {0}
         /\ \A k \in 1..Len(RunsOf(im, b)) : RunsOf(im, b)[k] \in Run
         /\ Covers(RunsOf(im, b), Jpeg!zigzagScan(im[b]), 64)
<1>1. im[b] \in Block
  BY ElementOfSeq
<1>2. Jpeg!zigzagScan(im[b]) \in Block
  BY <1>1, Unzigzag
<1>3. /\ RunsOf(im, b) \in Seq(Run) /\ RunsOf(im, b) # <<>>
      /\ Covers(RunsOf(im, b), Jpeg!zigzagScan(im[b]), 64)
  BY <1>2, RunsMakeTheBlock DEF RunsOf
<1>4. Len(RunsOf(im, b)) \in Nat \ {0} /\ \A k \in 1..Len(RunsOf(im, b)) : RunsOf(im, b)[k] \in Run
  BY <1>3, LenProperties, EmptySeq
<1> QED
  BY <1>1, <1>2, <1>3, <1>4

\* A pair that is in the table gets the code of an entry that equals it.
LEMMA CodeFacts ==
  ASSUME NEW ps \in Seq(Pair), NEW p, Known(ps, p)
  PROVE  \E i \in 1..Len(ps) : /\ CodeIn(ps, p) = ps[i].code
                               /\ ps[i].val = p.val /\ ps[i].cnt = p.cnt
<1> DEFINE I == Jpeg!IndexOf(ps, p)
<1>1. DOMAIN ps = 1..Len(ps) /\ Len(ps) \in Nat
  BY LenProperties
<1>2. I = {i \in 1..Len(ps) : ps[i].val = p.val /\ ps[i].cnt = p.cnt}
  BY <1>1 DEF Jpeg!IndexOf
<1>3. I # {} /\ I \subseteq Nat
  BY <1>1, <1>2 DEF Known
<1> HIDE DEF I
<1>4. Jpeg!Min(I) \in I
  BY <1>3, LeastNumber
<1>5. CodeIn(ps, p) = ps[Jpeg!Min(I)].code
  BY <1>3 DEF CodeIn, I
<1> QED
  BY <1>2, <1>4, <1>5

LEMMA CodesOfBlock ==
  ASSUME NEW im \in Seq(Block), NEW ps \in Seq(Pair), NEW b \in 1..Len(im),
         \A k \in 1..Len(RunsOf(im, b)) : Known(ps, RunsOf(im, b)[k])
  PROVE  /\ CodesOf(im, ps, b) \in [1..Len(RunsOf(im, b)) -> Seq(Bit)]
         /\ \A k \in 1..Len(RunsOf(im, b)) :
              \E i \in 1..Len(ps) : /\ CodesOf(im, ps, b)[k] = ps[i].code
                                    /\ ps[i].val = RunsOf(im, b)[k].val
                                    /\ ps[i].cnt = RunsOf(im, b)[k].cnt
<1> DEFINE rp == RunsOf(im, b)
           c == CodesOf(im, ps, b)
<1>1. c = [k \in 1..Len(rp) |-> CodeIn(ps, rp[k])]
  BY DEF CodesOf
<1> HIDE DEF c, rp
<1>2. ASSUME NEW k \in 1..Len(rp)
      PROVE  \E i \in 1..Len(ps) : /\ c[k] = ps[i].code
                                   /\ ps[i].val = rp[k].val /\ ps[i].cnt = rp[k].cnt
  <2>1. Known(ps, rp[k])
    BY DEF rp
  <2> QED
    BY <1>1, <2>1, CodeFacts
<1>3. \A k \in 1..Len(rp) : c[k] \in Seq(Bit)
  BY <1>2, CodesAreBits
<1>4. c \in [1..Len(rp) -> Seq(Bit)]
  BY <1>1, <1>3
<1> QED
  BY <1>2, <1>4 DEF c, rp

\* What is left of the stream is where it was.
LEMMA ShorterStream ==
  ASSUME NEW im, NEW ps, NEW str, NEW off, NEW m, Streamed(im, ps, str, off, m),
         \A b \in 1..m : Len(RunsOf(im, b)) \in Nat,
         NEW t, Len(t) \in Nat, Len(str) \in Nat, Len(t) <= Len(str),
         \A i \in 1..Len(t) : t[i] = str[i]
  PROVE  Streamed(im, ps, t, off, m)
<1>1. ASSUME NEW b \in 1..m, NEW cut, Placed(im, ps, str, cut, b)
      PROVE  Placed(im, ps, t, cut, b)
  <2> DEFINE n == Len(RunsOf(im, b))
             c == CodesOf(im, ps, b)
  <2>1. /\ cut \in [0..n -> Nat]
        /\ \A k \in 1..n : cut[k] = cut[k - 1] + Len(c[k]) /\ cut[k] <= cut[n]
    BY <1>1 DEF Placed
  <2>2. ASSUME NEW k \in 1..n, NEW j \in 1..Len(c[k]), cut[k - 1] + j <= Len(t)
        PROVE  t[cut[k - 1] + j] = c[k][j]
    <3>1. cut[k - 1] + j <= Len(str) => str[cut[k - 1] + j] = c[k][j]
      BY <1>1 DEF Placed
    <3>2. n \in Nat
      OBVIOUS
    <3> HIDE DEF n
    <3>3. k - 1 \in 0..n
      BY <3>2
    <3>4. cut[k - 1] \in Nat
      BY <2>1, <3>3
    <3>5. j \in Nat /\ 1 <= j
      OBVIOUS
    <3> DEFINE x == cut[k - 1] + j
    <3>6. x \in 1..Len(t) /\ x <= Len(str)
      BY <2>2, <3>4, <3>5
    <3> HIDE DEF x, c
    <3> QED
      BY <3>1, <3>6 DEF x
  <2> QED
    BY <2>1, <2>2 DEF Placed
<1> QED
  BY <1>1 DEF Streamed

\* The codes of block b, behind the stream str, end with it.
EndsWith(im, ps, str, b) ==
  LET t == str \o Jpeg!FlattenSeq(CodesOf(im, ps, b))
  IN  /\ t \in Seq(Bit)
      /\ \E new : Streamed(im, ps, t, new, b) /\ Len(t) = new[b]

\* Pass 2 adds the codes of a block.
LEMMA NextBlock ==
  ASSUME NEW im, NEW ps, NEW str \in Seq(Bit), NEW m \in Nat, NEW off,
         Streamed(im, ps, str, off, m), Len(str) = off[m],
         RunsOf(im, m + 1) \in Seq(Run),
         CodesOf(im, ps, m + 1) \in [1..Len(RunsOf(im, m + 1)) -> Seq(Bit)],
         \A b \in 1..m : Len(RunsOf(im, b)) \in Nat
  PROVE  EndsWith(im, ps, str, m + 1)
<1> DEFINE n == Len(RunsOf(im, m + 1))
           c == CodesOf(im, ps, m + 1)
           last == Jpeg!FlattenSeq(c)
           t == str \o last
           a == Len(str)
           new == [b \in 0..m + 1 |-> IF b = m + 1 THEN Len(t) ELSE off[b]]
<1>1. n \in Nat
  BY LenProperties
<1>2. PICK flat : Joins(flat, c, n, Bit) /\ last = flat[n]
  <2>1. c \in [1..n -> Seq(Bit)]
    OBVIOUS
  <2> HIDE DEF c, n
  <2>2. \E flat : Joins(flat, c, n, Bit) /\ Writer!FlattenSeq(c) = flat[n]
    BY <1>1, <2>1, FlattenParts
  <2>3. Jpeg!FlattenSeq(c) = Writer!FlattenSeq(c)
    BY DEF Jpeg!FlattenSeq, Writer!FlattenSeq
  <2> QED
    BY <2>2, <2>3
<1> HIDE DEF last, n, c
<1>3. \A k \in 1..n : /\ Len(flat[k]) = Len(flat[k - 1]) + Len(c[k])
                      /\ HoldsAt(last, Len(flat[k - 1]), c[k])
  <2>1. Joins(flat, c, n, Bit) /\ last = flat[n]
    BY <1>2
  <2>2. \A k \in 1..n : /\ Len(flat[k]) = Len(flat[k - 1]) + Len(c[k])
                        /\ HoldsAt(flat[n], Len(flat[k - 1]), c[k])
    BY <1>1, <2>1, JoinedParts, Zenon
  <2> QED
    BY <2>1, <2>2, Zenon
<1>4. /\ flat[0] = <<>> /\ last \in Seq(Bit)
      /\ \A k \in 0..n : Len(flat[k]) \in Nat
  <2>1. flat \in [0..n -> Seq(Bit)] /\ flat[0] = <<>>
    BY <1>2 DEF Joins
  <2>2. n \in 0..n
    BY <1>1
  <2> QED
    BY <1>2, <2>1, <2>2, LenProperties
<1>5. \A k \in 1..n : Len(c[k]) \in Nat
  <2>1. \A k \in 1..n : c[k] \in Seq(Bit)
    BY DEF n, c
  <2> QED
    BY <2>1, LenProperties
<1>6. /\ a \in Nat /\ Len(last) \in Nat /\ t \in Seq(Bit) /\ Len(t) = a + Len(last)
      /\ \A i \in 1..a : t[i] = str[i]
      /\ \A j \in 1..Len(last) : t[a + j] = last[j]
  <2>1. str \in Seq(Bit) /\ last \in Seq(Bit)
    BY <1>4
  <2>2. a \in Nat /\ Len(last) \in Nat
    BY <2>1, LenProperties
  <2>3. /\ t \in Seq(Bit) /\ Len(t) = a + Len(last)
        /\ \A i \in 1..a : t[i] = str[i]
        /\ \A j \in 1..Len(last) : t[a + j] = last[j]
    <3> HIDE DEF t, a, new
    <3>1. /\ str \o last \in Seq(Bit) /\ Len(str \o last) = Len(str) + Len(last)
          /\ \A i \in 1..Len(str) : (str \o last)[i] = str[i]
          /\ \A j \in 1..Len(last) : (str \o last)[Len(str) + j] = last[j]
      BY ONLY <2>1, ConcatFacts
    <3> QED
      BY <3>1, Zenon DEF t, a
  <2> QED
    BY <2>2, <2>3
<1> HIDE DEF t, a
<1>7. /\ off \in [0..m -> Nat] /\ off[0] = 0 /\ off[m] = a
      /\ \A b \in 1..m : off[b] <= a
  BY DEF Streamed, a
<1>8. /\ new \in [0..m + 1 -> Nat] /\ new[0] = 0 /\ new[m + 1] = Len(t)
      /\ \A b \in 0..m : new[b] = off[b]
  BY <1>6, <1>7
<1> HIDE DEF new
<1>9. \A b \in 1..m + 1 : new[b] <= new[m + 1]
  <2>1. \A b \in 1..m + 1 : b = m + 1 \/ b \in 1..m
    OBVIOUS
  <2>2. \A b \in 1..m : b \in 0..m
    OBVIOUS
  <2>3. \A b \in 0..m : off[b] \in Nat
    BY <1>7
  <2>4. ASSUME NEW b \in 1..m PROVE new[b] <= new[m + 1]
    <3>1. new[b] = off[b] /\ off[b] <= a /\ off[b] \in Nat
      BY <1>7, <1>8, <2>2, <2>3
    <3> QED
      BY <1>6, <1>8, <3>1
  <2>5. new[m + 1] <= new[m + 1]
    BY <1>6, <1>8
  <2> QED
    BY <2>1, <2>4, <2>5
<1>10. ASSUME NEW b \in 1..m
       PROVE  \E cut : /\ Placed(im, ps, t, cut, b)
                       /\ cut[0] = new[b - 1] /\ cut[Len(RunsOf(im, b))] = new[b]
  <2> DEFINE nb == Len(RunsOf(im, b))
             cb == CodesOf(im, ps, b)
  <2>1. PICK cut : /\ Placed(im, ps, str, cut, b)
                   /\ cut[0] = off[b - 1] /\ cut[nb] = off[b]
    BY DEF Streamed
  <2>2. b \in 0..m /\ b - 1 \in 0..m /\ nb \in Nat
    OBVIOUS
  <2>3. /\ cut \in [0..nb -> Nat]
        /\ \A k \in 1..nb : cut[k] = cut[k - 1] + Len(cb[k]) /\ cut[k] <= cut[nb]
    BY <2>1 DEF Placed
  <2>4. ASSUME NEW k \in 1..nb, NEW j \in 1..Len(cb[k]), cut[k - 1] + j <= Len(t)
        PROVE  t[cut[k - 1] + j] = cb[k][j]
    <3>1. cut[k - 1] + j <= Len(str) => str[cut[k - 1] + j] = cb[k][j]
      BY <2>1 DEF Placed
    <3>2. cut[nb] <= a
      BY <1>7, <2>1
    <3>3. k - 1 \in 0..nb /\ k \in 0..nb /\ nb \in 0..nb
      BY <2>2
    <3> HIDE DEF nb, cb
    <3>4. /\ cut[k - 1] \in Nat /\ cut[k] \in Nat /\ cut[nb] \in Nat
          /\ cut[k] = cut[k - 1] + Len(cb[k]) /\ cut[k] <= cut[nb]
      BY <2>3, <3>3
    <3> DEFINE x == cut[k - 1]
               l == Len(cb[k])
    <3>5. l \in Nat \/ l \notin Nat
      OBVIOUS
    <3>6. j \in Int /\ 1 <= j /\ j <= l
      OBVIOUS
    <3> HIDE DEF x, l
    <3>7. x \in Nat /\ x + l <= a /\ l \in Int
      BY <1>6, <3>2, <3>4, <3>6, SMTT(40) DEF x, l
    <3>8. x + j \in 1..a
      BY <1>6, <3>6, <3>7, SMTT(40)
    <3> QED
      BY <1>6, <3>1, <3>8, SMTT(40) DEF x, a
  <2>5. Placed(im, ps, t, cut, b)
    BY <2>3, <2>4 DEF Placed
  <2> QED
    BY <1>8, <2>1, <2>2, <2>5
<1>11. \E cut : /\ Placed(im, ps, t, cut, m + 1)
                /\ cut[0] = new[m] /\ cut[n] = new[m + 1]
  <2> DEFINE cut == [k \in 0..n |-> a + Len(flat[k])]
  <2>1. cut \in [0..n -> Nat] /\ \A k \in 0..n : cut[k] = a + Len(flat[k])
    BY <1>4, <1>6
  <2> HIDE DEF cut
  <2>2. cut[0] = a /\ cut[n] = Len(t)
    <3>1. 0 \in 0..n /\ n \in 0..n
      BY <1>1
    <3>2. Len(flat[0]) = 0
      BY <1>4
    <3>3. cut[0] = a + 0 /\ cut[n] = a + Len(last)
      BY <1>2, <2>1, <3>1, <3>2, Zenon
    <3> QED
      BY <1>6, <3>3
  <2>3. ASSUME NEW k \in 1..n
        PROVE  /\ cut[k] = cut[k - 1] + Len(c[k]) /\ cut[k] <= cut[n]
               /\ \A j \in 1..Len(c[k]) :
                    cut[k - 1] + j <= Len(t) => t[cut[k - 1] + j] = c[k][j]
    <3>1. k \in 0..n /\ k - 1 \in 0..n
      BY <1>1
    <3> DEFINE x == Len(flat[k - 1])
               l == Len(c[k])
    <3>2. cut[k] = a + Len(flat[k]) /\ cut[k - 1] = a + x /\ x \in Nat
      BY <1>4, <2>1, <3>1
    <3>3. Len(flat[k]) = x + l /\ x + l <= Len(last) /\ (\A j \in 1..l : last[x + j] = c[k][j])
      BY <1>3 DEF HoldsAt
    <3>4. l \in Nat
      BY <1>5
    <3> HIDE DEF x, l
    <3>5. cut[k] = cut[k - 1] + l /\ cut[k] <= cut[n]
      BY <1>6, <2>2, <3>2, <3>3, <3>4
    <3>6. ASSUME NEW j \in 1..l PROVE t[cut[k - 1] + j] = c[k][j]
      <4>1. x + j \in 1..Len(last)
        BY <1>6, <3>2, <3>3, <3>4
      <4>2. t[a + (x + j)] = last[x + j]
        BY <1>6, <4>1
      <4>3. cut[k - 1] + j = a + (x + j)
        BY <1>6, <3>2, <3>4
      <4> QED
        BY <3>3, <4>2, <4>3
    <3> QED
      BY <3>5, <3>6 DEF l
  <2>4. Placed(im, ps, t, cut, m + 1)
    BY <2>1, <2>3 DEF Placed, n, c
  <2>5. new[m] = a /\ new[m + 1] = Len(t)
    BY <1>7, <1>8
  <2> QED
    BY <2>2, <2>4, <2>5
<1>12. Streamed(im, ps, t, new, m + 1)
  <2>1. \A b \in 1..m + 1 : b = m + 1 \/ b \in 1..m
    OBVIOUS
  <2>2. (m + 1) - 1 = m
    OBVIOUS
  <2>3. \A b \in 1..m + 1 : \E cut : /\ Placed(im, ps, t, cut, b)
                                     /\ cut[0] = new[b - 1] /\ cut[Len(RunsOf(im, b))] = new[b]
    BY <1>10, <1>11, <2>1, <2>2 DEF n
  <2> QED
    BY <1>8, <1>9, <2>3 DEF Streamed
<1> QED
  BY <1>6, <1>8, <1>12 DEF t, last, c, EndsWith

\* A sum that never falls is nowhere greater than at its end.
LEMMA Rising ==
  ASSUME NEW n \in Nat, NEW e \in [0..n -> Nat], \A k \in 1..n : e[k - 1] <= e[k]
  PROVE  \A k \in 0..n : e[k] <= e[n]
<1> DEFINE T == {d \in Nat : d <= n => e[n - d] <= e[n]}
<1>1. 0 \in T
  <2>1. n \in 0..n /\ n - 0 = n
    OBVIOUS
  <2> QED
    BY <2>1
<1>2. ASSUME NEW d \in Nat, d < n, d \in T PROVE d + 1 \in T
  <2>1. n - d \in 1..n /\ n - d \in 0..n /\ n - (d + 1) \in 0..n /\ (n - d) - 1 = n - (d + 1) /\ n \in 0..n
    BY <1>2
  <2>2. e[n - d] \in Nat /\ e[n - (d + 1)] \in Nat /\ e[n] \in Nat
    BY <2>1
  <2>3. e[n - (d + 1)] <= e[n - d]
    BY <2>1
  <2>4. e[n - d] <= e[n]
    BY <1>2
  <2>5. e[n - (d + 1)] <= e[n]
    BY <2>2, <2>3, <2>4
  <2> QED
    BY <2>5
<1> HIDE DEF T
<1>3. \A d \in 0..n : d \in T
  BY <1>1, <1>2, InductionTo
<1>4. ASSUME NEW k \in 0..n PROVE e[k] <= e[n]
  <2>1. n - k \in 0..n /\ n - (n - k) = k /\ n - k <= n
    OBVIOUS
  <2>2. n - k \in T
    BY <1>3, <2>1
  <2> QED
    BY <2>1, <2>2 DEF T
<1> QED
  BY <1>4

-----------------------------------------------------------------------------
(* The decoder *)

\* What the decoder reads.
Text(off) ==
  /\ image \in Seq(Block) /\ pairs \in Seq(Pair) /\ bi \in 0..Len(image)
  /\ AllKnown(image, pairs, bi) /\ PrefixFree(pairs) /\ CodesNotEmpty(pairs, Len(pairs))
  /\ file.stream \in Seq(Bit) /\ Streamed(image, pairs, file.stream, off, bi)
  /\ Len(file.stream) <= off[bi]

\* The decoder, at place p with path c and the values z, reads the k-th code of block b.
AtCode(off, b, cut, e, k, p, c, z) ==
  LET rp == RunsOf(image, b)
      code == CodesOf(image, pairs, b)[k]
      block == Jpeg!zigzagScan(image[b])
  IN  /\ k \in 1..Len(rp) /\ Ends(rp, block, e, 64)
      /\ Placed(image, pairs, file.stream, cut, b) /\ cut[Len(rp)] = off[b]
      /\ Len(c) < Len(code) /\ c = SubSeq(code, 1, Len(c)) /\ p = cut[k - 1] + Len(c)
      /\ z \in Seq(Int) /\ Len(z) = e[k - 1] /\ \A j \in 1..e[k - 1] : z[j] = block[j]

\* It has decoded the blocks in o, and is in the next one if there is one.
ReadTo(off, p, c, z, o) ==
  /\ o \in Seq(Block) /\ Len(o) <= bi /\ c \in Seq(Bit)
  /\ \A b \in 1..Len(o) : o[b] = image[b]
  /\ Len(o) = bi => p = off[bi] /\ c = <<>> /\ z = <<>>
  /\ Len(o) < bi => \E cut, e, k : AtCode(off, Len(o) + 1, cut, e, k, p, c, z)

LEMMA ExpandFacts ==
  ASSUME NEW z \in Seq(Int), NEW p \in Pair, Len(z) + p.cnt <= 64
  PROVE  /\ Jpeg!Expand(z, p) \in Seq(Int) /\ Len(Jpeg!Expand(z, p)) = Len(z) + p.cnt
         /\ \A j \in 1..Len(z) : Jpeg!Expand(z, p)[j] = z[j]
         /\ \A j \in Len(z) + 1..Len(z) + p.cnt : Jpeg!Expand(z, p)[j] = p.val
<1> DEFINE x == Len(z) + p.cnt
           m == Jpeg!Min({64, x})
           u == [k \in 1..x |-> IF k <= Len(z) THEN z[k] ELSE p.val]
<1>1. Len(z) \in Nat /\ (\A k \in 1..Len(z) : z[k] \in Int) /\ p.cnt \in Nat /\ p.val \in Int
  BY LenProperties DEF Pair
<1>2. m = x
  <2>1. x \in {64, x} /\ \A y \in {64, x} : x =< y
    BY <1>1
  <2>2. m \in {64, x} /\ \A y \in {64, x} : m =< y
    BY <2>1 DEF Jpeg!Min
  <2>3. x \in Nat
    BY <1>1
  <2> HIDE DEF m, x
  <2> QED
    BY <2>1, <2>2, <2>3
<1>3. Jpeg!Expand(z, p) = u
  BY <1>2 DEF Jpeg!Expand
<1>4. \A k \in 1..x : (IF k <= Len(z) THEN z[k] ELSE p.val) \in Int
  BY <1>1
<1>5. x \in Nat
  BY <1>1
<1> HIDE DEF x
<1>6. u \in [1..x -> Int] /\ DOMAIN u = 1..x
  BY <1>4
<1>7. u \in Seq(Int) /\ Len(u) = x
  BY <1>5, <1>6
<1>8. \A j \in 1..Len(z) : u[j] = z[j]
  BY <1>1, <1>5 DEF x
<1>9. \A j \in Len(z) + 1..x : u[j] = p.val
  BY <1>1, <1>5 DEF x
<1> HIDE DEF u
<1> QED
  BY <1>3, <1>7, <1>8, <1>9 DEF x

LEMMA SameFunction ==
  ASSUME NEW D, NEW S, NEW f \in [D -> S], NEW g \in [D -> S], \A x \in D : f[x] = g[x]
  PROVE  f = g
OBVIOUS

LEMMA WholeBlock ==
  ASSUME NEW b \in Block, NEW z \in Seq(Int), Len(z) = 64,
         \A j \in 1..64 : z[j] = Jpeg!zigzagScan(b)[j]
  PROVE  Jpeg!InverseZigzag(z) = b
<1>1. Jpeg!zigzagScan(b) \in Block /\ Jpeg!InverseZigzag(Jpeg!zigzagScan(b)) = b
  BY Unzigzag
<1>2. PICK s : s = Jpeg!zigzagScan(b)
  OBVIOUS
<1>3. s \in [1..64 -> Int] /\ z \in [1..64 -> Int]
  BY <1>1, <1>2, LenProperties DEF Block
<1>4. \A j \in 1..64 : z[j] = s[j]
  BY <1>2
<1>5. z = s
  <2>1. PICK D : D = 1..64
    OBVIOUS
  <2>2. s \in [D -> Int] /\ z \in [D -> Int] /\ \A x \in D : z[x] = s[x]
    BY <1>3, <1>4, <2>1
  <2> QED
    BY <2>2, SameFunction
<1> QED
  BY <1>1, <1>2, <1>5

\* The codes of a block that the decoder can read.
LEMMA BlockCodes ==
  ASSUME NEW off, Text(off), NEW b \in 1..bi
  PROVE  /\ b \in 1..Len(image) /\ image[b] \in Block
         /\ RunsOf(image, b) \in Seq(Run) /\ Len(RunsOf(image, b)) \in Nat \ {0}
         /\ \A k \in 1..Len(RunsOf(image, b)) : RunsOf(image, b)[k] \in Run
         /\ Covers(RunsOf(image, b), Jpeg!zigzagScan(image[b]), 64)
         /\ \A k \in 1..Len(RunsOf(image, b)) :
              /\ CodesOf(image, pairs, b)[k] \in Seq(Bit)
              /\ Len(CodesOf(image, pairs, b)[k]) \in Nat \ {0}
              /\ \E i \in 1..Len(pairs) : /\ CodesOf(image, pairs, b)[k] = pairs[i].code
                                          /\ pairs[i].val = RunsOf(image, b)[k].val
                                          /\ pairs[i].cnt = RunsOf(image, b)[k].cnt
<1> DEFINE rp == RunsOf(image, b)
           c == CodesOf(image, pairs, b)
<1>1. /\ image \in Seq(Block) /\ pairs \in Seq(Pair) /\ bi \in 0..Len(image)
      /\ AllKnown(image, pairs, bi) /\ CodesNotEmpty(pairs, Len(pairs))
  BY DEF Text
<1>2. b \in 1..Len(image)
  BY <1>1, LenProperties
<1>3. /\ image[b] \in Block /\ rp \in Seq(Run) /\ Len(rp) \in Nat \ {0}
      /\ \A k \in 1..Len(rp) : rp[k] \in Run
      /\ Covers(rp, Jpeg!zigzagScan(image[b]), 64)
  BY <1>1, <1>2, RunsOfBlock
<1>4. \A k \in 1..Len(rp) : Known(pairs, rp[k])
  BY <1>1, Zenon DEF AllKnown
<1>5. /\ c \in [1..Len(rp) -> Seq(Bit)]
      /\ \A k \in 1..Len(rp) :
           \E i \in 1..Len(pairs) : /\ c[k] = pairs[i].code
                                    /\ pairs[i].val = rp[k].val /\ pairs[i].cnt = rp[k].cnt
  BY <1>1, <1>2, <1>4, CodesOfBlock
<1> HIDE DEF rp, c
<1>6. ASSUME NEW k \in 1..Len(rp)
      PROVE  c[k] \in Seq(Bit) /\ Len(c[k]) \in Nat \ {0}
  <2>1. c[k] \in Seq(Bit)
    BY <1>5
  <2>2. PICK i \in 1..Len(pairs) : c[k] = pairs[i].code
    BY <1>5
  <2>3. c[k] # <<>>
    BY <1>1, <2>2, Zenon DEF CodesNotEmpty
  <2> QED
    BY <2>1, <2>3, EmptySeq, LenProperties
<1> QED
  BY <1>2, <1>3, <1>5, <1>6 DEF rp, c

\* The decoder begins a block.
LEMMA BlockStarts ==
  ASSUME NEW off, Text(off), NEW b \in 1..bi
  PROVE  \E cut, e, k : AtCode(off, b, cut, e, k, off[b - 1], <<>>, <<>>)
<1> DEFINE rp == RunsOf(image, b)
           code == CodesOf(image, pairs, b)[1]
           block == Jpeg!zigzagScan(image[b])
           c == <<>>
<1>1. PICK cut : /\ Placed(image, pairs, file.stream, cut, b)
                 /\ cut[0] = off[b - 1] /\ cut[Len(rp)] = off[b]
  BY DEF Text, Streamed
<1>2. /\ Len(rp) \in Nat \ {0} /\ code \in Seq(Bit) /\ Len(code) \in Nat \ {0}
      /\ Covers(rp, block, 64)
  <2>1. /\ Len(rp) \in Nat \ {0} /\ Covers(rp, block, 64)
        /\ \A k \in 1..Len(rp) : /\ CodesOf(image, pairs, b)[k] \in Seq(Bit)
                                 /\ Len(CodesOf(image, pairs, b)[k]) \in Nat \ {0}
    BY BlockCodes
  <2>2. 1 \in 1..Len(rp)
    BY <2>1
  <2> QED
    BY <2>1, <2>2
<1>3. PICK e : Ends(rp, block, e, 64)
  BY <1>2 DEF Covers
<1>4. e[0] = 0 /\ e \in [0..Len(rp) -> Nat]
  BY <1>3 DEF Ends
<1>5. cut[0] \in Nat
  <2>1. cut \in [0..Len(rp) -> Nat]
    BY <1>1 DEF Placed
  <2>2. 0 \in 0..Len(rp)
    BY <1>2
  <2> QED
    BY <2>1, <2>2
<1>6. c \in Seq(Int) /\ Len(c) = 0 /\ c = SubSeq(code, 1, 0)
  <2>1. SubSeq(code, 1, 0) = <<>>
    BY <1>2, SubSeqEmpty
  <2> QED
    BY <2>1
<1> HIDE DEF rp, code, block, c
<1>7. /\ 1 \in 1..Len(rp) /\ 1 - 1 = 0 /\ Len(c) < Len(code)
      /\ off[b - 1] = cut[1 - 1] + Len(c) /\ Len(c) = e[1 - 1]
      /\ \A j \in 1..e[1 - 1] : c[j] = block[j]
      /\ c = SubSeq(code, 1, Len(c))
  BY <1>1, <1>2, <1>4, <1>5, <1>6
<1>8. AtCode(off, b, cut, e, 1, off[b - 1], c, c)
  BY <1>1, <1>3, <1>6, <1>7 DEF AtCode, rp, code, block
<1> QED
  BY <1>8 DEF c

\* Every run of a block ends behind the one before it, the last one at its end.
LEMMA EndsRise ==
  ASSUME NEW rp \in Seq(Run), NEW z, NEW e, Ends(rp, z, e, 64)
  PROVE  \A k \in 1..Len(rp) :
           /\ e[k - 1] \in Nat /\ e[k] \in Nat /\ rp[k] \in Run
           /\ e[k] = e[k - 1] + rp[k].cnt /\ e[k - 1] < e[k] /\ e[k] <= 64
           /\ e[k] = 64 => k = Len(rp)
<1> DEFINE n == Len(rp)
<1>1. n \in Nat /\ \A k \in 1..n : rp[k] \in Run
  BY LenProperties
<1>2. \A k \in 1..n : rp[k].cnt \in Nat \ {0}
  BY <1>1 DEF Run
<1>3. /\ e \in [0..n -> Nat] /\ e[n] = 64
      /\ \A k \in 1..n : e[k] = e[k - 1] + rp[k].cnt
  BY DEF Ends
<1> HIDE DEF n
<1>4. \A k \in 1..n : k \in 0..n /\ k - 1 \in 0..n
  BY <1>1
<1>5. \A k \in 1..n : e[k - 1] \in Nat /\ e[k] \in Nat /\ e[k - 1] < e[k]
  <2>1. ASSUME NEW k \in 1..n PROVE e[k - 1] \in Nat /\ e[k] \in Nat /\ e[k - 1] < e[k]
    <3>1. e[k - 1] \in Nat /\ e[k] \in Nat
      BY <1>3, <1>4
    <3>2. e[k] = e[k - 1] + rp[k].cnt /\ rp[k].cnt \in Nat \ {0}
      BY <1>2, <1>3
    <3> QED
      BY <3>1, <3>2
  <2> QED
    BY <2>1
<1>6. \A k \in 0..n : e[k] <= e[n]
  <2>1. \A k \in 1..n : e[k - 1] <= e[k]
    BY <1>5
  <2> QED
    BY <1>1, <1>3, <2>1, Rising
<1>7. ASSUME NEW k \in 1..n, e[k] = 64 PROVE k = n
  <2>1. SUFFICES ASSUME k # n PROVE FALSE
    OBVIOUS
  <2>2. k + 1 \in 1..n /\ (k + 1) - 1 = k /\ k + 1 \in 0..n
    BY <1>1, <2>1
  <2>3. e[(k + 1) - 1] < e[k + 1] /\ e[k + 1] \in Nat
    BY <1>5, <2>2
  <2>4. e[k + 1] <= 64
    BY <1>3, <1>6, <2>2
  <2> QED
    BY <1>7, <2>2, <2>3, <2>4
<1>8. ASSUME NEW k \in 1..n
      PROVE  /\ e[k - 1] \in Nat /\ e[k] \in Nat /\ rp[k] \in Run
             /\ e[k] = e[k - 1] + rp[k].cnt /\ e[k - 1] < e[k] /\ e[k] <= 64
  BY <1>1, <1>3, <1>4, <1>5, <1>6
<1> QED
  BY <1>7, <1>8 DEF n

\* The bit that the decoder reads is the next one of the code; the trie has the way,
\* and at its end the run.
LEMMA NextNode ==
  ASSUME NEW off, Text(off), TrieOf(trie, pairs, Len(pairs)), NEW b \in 1..bi,
         NEW cut, NEW e, NEW k, AtCode(off, b, cut, e, k, pos, cur, zz), cur \in Seq(Bit),
         pos < Len(file.stream)
  PROVE  LET rp == RunsOf(image, b)
             code == CodesOf(image, pairs, b)[k]
             node == Append(cur, file.stream[pos + 1])
             i == trie[node]
         IN  /\ node \in DOMAIN trie /\ node \in Seq(Bit) /\ Len(node) = Len(cur) + 1
             /\ node = SubSeq(code, 1, Len(node)) /\ pos + 1 = cut[k - 1] + Len(node)
             /\ \/ Len(node) < Len(code) /\ i = 0
                \/ /\ Len(node) = Len(code) /\ i \in 1..Len(pairs)
                   /\ pairs[i].val = rp[k].val /\ pairs[i].cnt = rp[k].cnt
<1> DEFINE rp == RunsOf(image, b)
           code == CodesOf(image, pairs, b)[k]
           bit == file.stream[pos + 1]
           l == Len(cur) + 1
           node == SubSeq(code, 1, l)
<1>1. /\ k \in 1..Len(rp) /\ Placed(image, pairs, file.stream, cut, b)
      /\ Len(cur) < Len(code) /\ cur = SubSeq(code, 1, Len(cur)) /\ pos = cut[k - 1] + Len(cur)
  BY DEF AtCode
<1>2. /\ Len(rp) \in Nat /\ code \in Seq(Bit) /\ Len(code) \in Nat
      /\ \E i \in 1..Len(pairs) : /\ code = pairs[i].code
                                  /\ pairs[i].val = rp[k].val /\ pairs[i].cnt = rp[k].cnt
  BY <1>1, BlockCodes
<1>3. Len(cur) \in Nat /\ Len(file.stream) \in Nat
  BY LenProperties DEF Text
<1>4. cut[k - 1] \in Nat
  <2>1. cut \in [0..Len(rp) -> Nat]
    BY <1>1 DEF Placed
  <2> HIDE DEF rp
  <2>2. k - 1 \in 0..Len(rp)
    BY <1>1, <1>2
  <2> QED
    BY <2>1, <2>2
<1>5. l \in 1..Len(code) /\ l - 1 = Len(cur) /\ pos + 1 = cut[k - 1] + l /\ pos \in Nat
  <2> DEFINE a == cut[k - 1]
             y == Len(cur)
             x == Len(code)
  <2>1. a \in Nat /\ y \in Nat /\ x \in Nat /\ y < x /\ pos = a + y
    BY <1>1, <1>2, <1>3, <1>4
  <2> HIDE DEF a, x, y
  <2>2. y + 1 \in 1..x /\ (y + 1) - 1 = y /\ pos + 1 = a + (y + 1) /\ pos \in Nat
    BY <2>1
  <2> QED
    BY <2>2 DEF a, x, y
<1>6. bit = code[l]
  <2>1. \A j \in 1..Len(code) :
          cut[k - 1] + j <= Len(file.stream) => file.stream[cut[k - 1] + j] = code[j]
    BY <1>1 DEF Placed
  <2> HIDE DEF code, l
  <2>2. cut[k - 1] + l <= Len(file.stream)
    <3>1. pos + 1 <= Len(file.stream)
      BY <1>3, <1>5
    <3> QED
      BY <1>5, <3>1
  <2>3. file.stream[cut[k - 1] + l] = code[l]
    BY <1>5, <2>1, <2>2
  <2> QED
    BY <1>5, <2>3
<1> HIDE DEF bit, l, code
<1>7. Append(cur, bit) = node /\ node \in Seq(Bit) /\ Len(node) = l
  <2>1. /\ Append(SubSeq(code, 1, l - 1), code[l]) = SubSeq(code, 1, l)
        /\ SubSeq(code, 1, l) \in Seq(Bit) /\ Len(SubSeq(code, 1, l)) = l
    BY <1>2, <1>5, NextBit
  <2> QED
    BY <1>1, <1>5, <1>6, <2>1
<1>8. PICK i \in 1..Len(pairs) : /\ code = pairs[i].code
                                 /\ pairs[i].val = rp[k].val /\ pairs[i].cnt = rp[k].cnt
  BY <1>2
<1>9. node \in DOMAIN trie /\ trie[node] = IF l = Len(code) THEN i ELSE 0
  <2>1. pairs \in Seq(Pair) /\ PrefixFree(pairs)
    BY DEF Text
  <2>2. l \in 1..Len(pairs[i].code)
    BY <1>5, <1>8
  <2>3. LET x == SubSeq(pairs[i].code, 1, l)
        IN  x \in DOMAIN trie /\ trie[x] = IF l = Len(pairs[i].code) THEN i ELSE 0
    BY <2>1, <2>2, TrieWalk
  <2> QED
    BY <1>8, <2>3
<1> HIDE DEF node
<1>10. /\ node \in DOMAIN trie /\ node \in Seq(Bit) /\ Len(node) = Len(cur) + 1
       /\ node = SubSeq(code, 1, Len(node)) /\ pos + 1 = cut[k - 1] + Len(node)
       /\ \/ Len(node) < Len(code) /\ trie[node] = 0
          \/ /\ Len(node) = Len(code) /\ trie[node] \in 1..Len(pairs)
             /\ pairs[trie[node]].val = rp[k].val /\ pairs[trie[node]].cnt = rp[k].cnt
  <2>1. /\ node \in DOMAIN trie /\ node \in Seq(Bit) /\ Len(node) = l
        /\ node = SubSeq(code, 1, l) /\ pos + 1 = cut[k - 1] + l /\ l = Len(cur) + 1
    BY <1>5, <1>7, <1>9 DEF node, l
  <2>2. CASE l = Len(code)
    <3>1. trie[node] = i
      BY <1>9, <2>2
    <3> QED
      BY <1>8, <2>1, <2>2, <3>1
  <2>3. CASE l # Len(code)
    <3>1. l < Len(code)
      BY <1>2, <1>5, <2>3
    <3>2. trie[node] = 0
      BY <1>9, <2>3
    <3> QED
      BY <2>1, <3>1, <3>2
  <2> QED
    BY <2>2, <2>3
<1>11. Append(cur, file.stream[pos + 1]) = node
  BY <1>7 DEF bit
<1> QED
  BY <1>10, <1>11 DEF code, rp

\* The decoder goes on to the next code.
LEMMA NextCode ==
  ASSUME NEW off, Text(off), NEW b \in 1..bi, NEW cut, NEW e, NEW k,
         AtCode(off, b, cut, e, k, pos, cur, zz),
         NEW x \in Pair, x.val = RunsOf(image, b)[k].val, x.cnt = RunsOf(image, b)[k].cnt,
         pos + 1 = cut[k - 1] + Len(CodesOf(image, pairs, b)[k])
  PROVE  LET z == Jpeg!Expand(zz, x)
         IN  /\ Len(z) \in Nat /\ pos + 1 = cut[k]
             /\ Len(z) = 64 => Jpeg!InverseZigzag(z) = image[b] /\ pos + 1 = off[b]
             /\ Len(z) # 64 => AtCode(off, b, cut, e, k + 1, pos + 1, <<>>, z)
<1> DEFINE rp == RunsOf(image, b)
           codes == CodesOf(image, pairs, b)
           block == Jpeg!zigzagScan(image[b])
           z == Jpeg!Expand(zz, x)
           n == Len(rp)
<1>1. /\ k \in 1..n /\ Ends(rp, block, e, 64)
      /\ Placed(image, pairs, file.stream, cut, b) /\ cut[n] = off[b]
      /\ zz \in Seq(Int) /\ Len(zz) = e[k - 1] /\ \A j \in 1..e[k - 1] : zz[j] = block[j]
  BY DEF AtCode
<1>2. /\ n \in Nat /\ rp \in Seq(Run) /\ image[b] \in Block
      /\ \A i \in 1..n : codes[i] \in Seq(Bit) /\ Len(codes[i]) \in Nat \ {0}
  BY BlockCodes
<1>3. \A i \in 1..n : /\ e[i - 1] \in Nat /\ e[i] \in Nat
                      /\ e[i] = e[i - 1] + rp[i].cnt /\ e[i] <= 64
                      /\ e[i] = 64 => i = n
  BY <1>1, <1>2, EndsRise
<1>4. /\ cut \in [0..n -> Nat]
      /\ \A i \in 1..n : cut[i] = cut[i - 1] + Len(codes[i])
  BY <1>1 DEF Placed
<1>5. \A i \in 1..n : \A j \in e[i - 1] + 1..e[i] : block[j] = rp[i].val
  BY <1>1 DEF Ends
<1> HIDE DEF rp, codes, block, n
<1>6. pos + 1 = cut[k]
  BY <1>1, <1>4 DEF codes
<1>7. /\ e[k] = e[k - 1] + x.cnt /\ e[k] <= 64 /\ e[k - 1] \in Nat /\ e[k] \in Nat
      /\ \A j \in e[k - 1] + 1..e[k] : block[j] = x.val
  BY <1>1, <1>3, <1>5 DEF rp
<1>8. /\ z \in Seq(Int) /\ Len(z) = e[k]
      /\ \A j \in 1..e[k - 1] : z[j] = zz[j]
      /\ \A j \in e[k - 1] + 1..e[k] : z[j] = x.val
  <2>1. Len(zz) + x.cnt <= 64 /\ Len(zz) + x.cnt = e[k]
    BY <1>1, <1>7
  <2>2. /\ z \in Seq(Int) /\ Len(z) = Len(zz) + x.cnt
        /\ \A j \in 1..Len(zz) : z[j] = zz[j]
        /\ \A j \in Len(zz) + 1..Len(zz) + x.cnt : z[j] = x.val
    BY <1>1, <2>1, ExpandFacts
  <2> HIDE DEF z
  <2> QED
    BY <1>1, <2>1, <2>2
<1> HIDE DEF z
<1>9. \A j \in 1..e[k] : z[j] = block[j]
  <2>1. ASSUME NEW j \in 1..e[k] PROVE z[j] = block[j]
    <3>1. j \in 1..e[k - 1] \/ j \in e[k - 1] + 1..e[k]
      BY <1>7
    <3>2. CASE j \in 1..e[k - 1]
      BY <1>1, <1>8, <3>2
    <3>3. CASE j \in e[k - 1] + 1..e[k]
      BY <1>7, <1>8, <3>3
    <3> QED
      BY <3>1, <3>2, <3>3
  <2> QED
    BY <2>1
<1>10. ASSUME Len(z) = 64 PROVE Jpeg!InverseZigzag(z) = image[b] /\ pos + 1 = off[b]
  <2>1. k = n
    BY <1>1, <1>3, <1>8, <1>10
  <2>2. \A j \in 1..64 : z[j] = Jpeg!zigzagScan(image[b])[j]
    BY <1>8, <1>9, <1>10 DEF block
  <2>3. Jpeg!InverseZigzag(z) = image[b]
    BY <1>2, <1>8, <1>10, <2>2, WholeBlock
  <2> QED
    BY <1>1, <1>6, <2>1, <2>3
<1>11. ASSUME Len(z) # 64 PROVE AtCode(off, b, cut, e, k + 1, pos + 1, <<>>, z)
  <2>1. k # n
    <3>1. e[n] = 64
      BY <1>1 DEF Ends, n
    <3> QED
      BY <1>8, <1>11, <3>1
  <2>2. k + 1 \in 1..n /\ (k + 1) - 1 = k /\ k \in 0..n
    BY <1>1, <1>2, <2>1
  <2> DEFINE c == <<>>
             code == codes[k + 1]
  <2>3. code \in Seq(Bit) /\ Len(code) \in Nat \ {0}
    BY <1>2, <2>2
  <2>4. Len(c) = 0 /\ c = SubSeq(code, 1, 0)
    <3>1. SubSeq(code, 1, 0) = <<>>
      BY <2>3, SubSeqEmpty
    <3> QED
      BY <3>1
  <2>5. cut[k] \in Nat
    BY <1>4, <2>2
  <2> HIDE DEF c, code
  <2>6. Len(c) < Len(code) /\ c = SubSeq(code, 1, Len(c)) /\ pos + 1 = cut[(k + 1) - 1] + Len(c)
    BY <1>6, <2>2, <2>3, <2>4, <2>5
  <2>7. Len(z) = e[(k + 1) - 1] /\ \A j \in 1..e[(k + 1) - 1] : z[j] = block[j]
    BY <1>8, <1>9, <2>2
  <2>8. AtCode(off, b, cut, e, k + 1, pos + 1, c, z)
    BY <1>1, <1>8, <2>2, <2>6, <2>7 DEF AtCode, n, rp, block, code, codes
  <2> QED
    BY <2>8 DEF c
<1>12. Len(z) \in Nat
  BY <1>7, <1>8
<1> QED
  BY <1>6, <1>10, <1>11, <1>12 DEF z

\* The decoder is at the beginning of the block behind those in o.
LEMMA NextOut ==
  ASSUME NEW off, Text(off), NEW o \in Seq(Block), Len(o) <= bi,
         \A b \in 1..Len(o) : o[b] = image[b]
  PROVE  ReadTo(off, off[Len(o)], <<>>, <<>>, o)
<1>1. Len(o) \in Nat /\ bi \in Nat /\ <<>> \in Seq(Bit)
  BY LenProperties DEF Text
<1>2. ASSUME Len(o) < bi
      PROVE  \E cut, e, k : AtCode(off, Len(o) + 1, cut, e, k, off[Len(o)], <<>>, <<>>)
  <2>1. Len(o) + 1 \in 1..bi /\ (Len(o) + 1) - 1 = Len(o)
    BY <1>1, <1>2
  <2>2. \E cut, e, k : AtCode(off, Len(o) + 1, cut, e, k, off[(Len(o) + 1) - 1], <<>>, <<>>)
    BY <2>1, BlockStarts
  <2> QED
    BY <2>1, <2>2, Zenon
<1> QED
  BY <1>1, <1>2 DEF ReadTo

\* Where the decoder is, there is a bit to read only in front of the end of the last block.
LEMMA ReadBlock ==
  ASSUME NEW off, Text(off), ReadTo(off, pos, cur, zz, out), pos < Len(file.stream)
  PROVE  /\ Len(out) + 1 \in 1..bi /\ cur \in Seq(Bit)
         /\ \E cut, e, k : AtCode(off, Len(out) + 1, cut, e, k, pos, cur, zz)
<1>1. Len(out) \in Nat /\ bi \in Nat /\ Len(file.stream) \in Nat
  BY LenProperties DEF Text, ReadTo
<1>2. off[bi] \in Nat /\ Len(file.stream) <= off[bi]
  <2>1. off \in [0..bi -> Nat] /\ Len(file.stream) <= off[bi]
    BY DEF Text, Streamed
  <2>2. bi \in 0..bi
    BY <1>1
  <2> QED
    BY <2>1, <2>2
<1>3. Len(out) # bi
  BY <1>1, <1>2 DEF ReadTo
<1>4. Len(out) < bi
  BY <1>1, <1>3 DEF ReadTo
<1> QED
  BY <1>1, <1>4 DEF ReadTo

LEMMA BitRead ==
  ASSUME NEW off, Text(off), TrieOf(trie, pairs, Len(pairs)), file.book = pairs,
         ReadTo(off, pos, cur, zz, out), Jpeg!ReadBit
  PROVE  pc' = pc /\ trie' = trie /\ ReadTo(off, pos', cur', zz', out')
<1> DEFINE b == Len(out) + 1
           node == Append(cur, file.stream[pos + 1])
           i == trie[node]
<1>1. pos < Len(file.stream)
  BY DEF Jpeg!ReadBit, Jpeg!More
<1>2. b \in 1..bi /\ cur \in Seq(Bit)
  BY <1>1, ReadBlock
<1>3. PICK cut, e, k : AtCode(off, b, cut, e, k, pos, cur, zz)
  BY <1>1, ReadBlock
<1> DEFINE rp == RunsOf(image, b)
           code == CodesOf(image, pairs, b)[k]
<1> HIDE DEF b
<1>4. /\ node \in DOMAIN trie /\ node \in Seq(Bit)
      /\ node = SubSeq(code, 1, Len(node)) /\ pos + 1 = cut[k - 1] + Len(node)
      /\ \/ Len(node) < Len(code) /\ i = 0
         \/ /\ Len(node) = Len(code) /\ i \in 1..Len(pairs)
            /\ pairs[i].val = rp[k].val /\ pairs[i].cnt = rp[k].cnt
  BY <1>1, <1>2, <1>3, NextNode
<1>5. LET z == IF i = 0 THEN zz ELSE Jpeg!Expand(zz, pairs[i])
      IN  /\ cur' = IF i = 0 THEN node ELSE <<>>
          /\ zz' = IF Len(z) = 64 THEN <<>> ELSE z
          /\ out' = IF Len(z) = 64 THEN Append(out, Jpeg!InverseZigzag(z)) ELSE out
          /\ pos' = pos + 1 /\ pc' = pc /\ trie' = trie
  BY <1>4 DEF Jpeg!ReadBit
<1>6. /\ out \in Seq(Block) /\ Len(out) \in Nat /\ bi \in Nat
      /\ \A a \in 1..Len(out) : out[a] = image[a]
  BY LenProperties DEF ReadTo, Text
<1>7. Len(out) < bi /\ b \in Nat
  BY <1>2, <1>6 DEF b
<1> HIDE DEF node
<1>8. ASSUME NEW c, NEW z, NEW l, AtCode(off, b, cut, e, l, pos + 1, c, z), c \in Seq(Bit)
      PROVE  ReadTo(off, pos + 1, c, z, out)
  BY <1>6, <1>7, <1>8 DEF ReadTo, b
<1>9. ASSUME Len(node) < Len(code), i = 0 PROVE ReadTo(off, pos', cur', zz', out')
  <2>1. Len(zz) # 64
    <3>1. k \in 1..Len(rp) /\ Ends(rp, Jpeg!zigzagScan(image[b]), e, 64) /\ Len(zz) = e[k - 1]
      BY <1>3 DEF AtCode
    <3>2. rp \in Seq(Run)
      BY <1>2, BlockCodes
    <3>3. e[k - 1] < e[k] /\ e[k] <= 64 /\ e[k] \in Nat /\ e[k - 1] \in Nat
      BY <3>1, <3>2, EndsRise
    <3> QED
      BY <3>1, <3>3
  <2>2. cur' = node /\ zz' = zz /\ out' = out /\ pos' = pos + 1
    BY <1>5, <1>9, <2>1
  <2>3. AtCode(off, b, cut, e, k, pos + 1, node, zz)
    BY <1>3, <1>4, <1>9 DEF AtCode
  <2>4. ReadTo(off, pos + 1, node, zz, out)
    BY <1>4, <1>8, <2>3
  <2> QED
    BY <2>2, <2>4
<1>10. ASSUME Len(node) = Len(code), i \in 1..Len(pairs),
              pairs[i].val = rp[k].val, pairs[i].cnt = rp[k].cnt
       PROVE  ReadTo(off, pos', cur', zz', out')
  <2> DEFINE x == pairs[i]
             z == Jpeg!Expand(zz, x)
  <2>1. x \in Pair /\ i # 0
    <3>1. pairs \in Seq(Pair)
      BY DEF Text
    <3> QED
      BY <1>10, <3>1, ElementOfSeq
  <2>2. /\ cur' = <<>> /\ pos' = pos + 1
        /\ zz' = IF Len(z) = 64 THEN <<>> ELSE z
        /\ out' = IF Len(z) = 64 THEN Append(out, Jpeg!InverseZigzag(z)) ELSE out
    BY <1>5, <2>1
  <2> HIDE DEF x
  <2>3. /\ Len(z) = 64 => Jpeg!InverseZigzag(z) = image[b] /\ pos + 1 = off[b]
        /\ Len(z) # 64 => AtCode(off, b, cut, e, k + 1, pos + 1, <<>>, z)
    <3>1. x.val = RunsOf(image, b)[k].val /\ x.cnt = RunsOf(image, b)[k].cnt
      BY <1>10 DEF x
    <3>2. pos + 1 = cut[k - 1] + Len(CodesOf(image, pairs, b)[k])
      BY <1>4, <1>10
    <3> QED
      BY <1>2, <1>3, <2>1, <3>1, <3>2, NextCode
  <2> HIDE DEF z
  <2>4. CASE Len(z) # 64
    <3>1. <<>> \in Seq(Bit)
      OBVIOUS
    <3>2. ReadTo(off, pos + 1, <<>>, z, out)
      BY <1>8, <2>3, <2>4, <3>1
    <3> QED
      BY <2>2, <2>4, <3>2
  <2>5. CASE Len(z) = 64
    <3> DEFINE o == Append(out, image[b])
    <3>1. image[b] \in Block
      BY <1>2, BlockCodes
    <3>2. /\ o \in Seq(Block) /\ Len(o) = Len(out) + 1
          /\ (\A a \in 1..Len(out) : o[a] = out[a]) /\ o[Len(out) + 1] = image[b]
      BY <1>6, <3>1, AppendProperties
    <3> HIDE DEF o
    <3>3. Len(o) = b /\ Len(o) <= bi
      BY <1>6, <1>7, <3>2 DEF b
    <3>4. \A a \in 1..Len(o) : o[a] = image[a]
      <4>1. ASSUME NEW a \in 1..Len(o) PROVE o[a] = image[a]
        <5>1. a \in 1..Len(out) \/ a = Len(out) + 1
          BY <1>6, <3>2
        <5> QED
          BY <1>6, <3>2, <5>1 DEF b
      <4> QED
        BY <4>1
    <3>5. ReadTo(off, off[b], <<>>, <<>>, o)
      BY <3>2, <3>3, <3>4, NextOut
    <3> QED
      BY <2>2, <2>3, <2>5, <3>5 DEF o
  <2> QED
    BY <2>4, <2>5
<1> QED
  BY <1>4, <1>5, <1>9, <1>10

\* Once the decoder stops it has all of the blocks whose codes are all in the stream.
LEMMA AllRead ==
  ASSUME NEW off, Text(off), ReadTo(off, pos, cur, zz, out), ~Jpeg!More,
         Len(file.stream) = off[bi], bi = Len(image)
  PROVE  out = image
<1>1. /\ image \in Seq(Block) /\ out \in Seq(Block) /\ Len(out) \in Nat /\ Len(image) \in Nat
      /\ Len(out) <= bi /\ \A b \in 1..Len(out) : out[b] = image[b]
  BY LenProperties DEF Text, ReadTo
<1>2. ASSUME Len(out) < bi PROVE FALSE
  <2> DEFINE b == Len(out) + 1
             rp == RunsOf(image, b)
             codes == CodesOf(image, pairs, b)
  <2>1. b \in 1..bi /\ bi \in 0..bi /\ b \in 0..bi
    BY <1>1, <1>2
  <2>2. PICK cut, e, k : AtCode(off, b, cut, e, k, pos, cur, zz)
    BY <1>2 DEF ReadTo
  <2> HIDE DEF b
  <2>3. Len(rp) \in Nat
    BY <2>1, BlockCodes
  <2>4. /\ k \in 1..Len(rp) /\ Placed(image, pairs, file.stream, cut, b) /\ cut[Len(rp)] = off[b]
        /\ Len(cur) < Len(codes[k]) /\ pos = cut[k - 1] + Len(cur)
    BY <2>2 DEF AtCode
  <2>5. /\ cut \in [0..Len(rp) -> Nat] /\ cut[k] = cut[k - 1] + Len(codes[k])
        /\ cut[k] <= cut[Len(rp)]
    BY <2>4 DEF Placed
  <2>6. off \in [0..bi -> Nat] /\ off[b] <= off[bi]
    BY <2>1 DEF Text, Streamed
  <2>7. Len(codes[k]) \in Nat
    BY <2>1, <2>4, BlockCodes
  <2>8. Len(cur) \in Nat
    BY LenProperties DEF ReadTo
  <2> HIDE DEF rp, codes
  <2>9. k - 1 \in 0..Len(rp) /\ k \in 0..Len(rp) /\ Len(rp) \in 0..Len(rp)
    BY <2>3, <2>4
  <2>10. cut[k - 1] \in Nat /\ cut[k] \in Nat /\ off[b] \in Nat /\ off[bi] \in Nat
    BY <2>1, <2>5, <2>6, <2>9
  <2>11. pos < cut[k]
    BY <2>4, <2>5, <2>7, <2>8, <2>10
  <2>12. cut[k] <= off[bi]
    BY <2>4, <2>5, <2>6, <2>10, SMTT(40)
  <2>13. pos \in Nat
    BY <2>4, <2>8, <2>10
  <2>14. pos < Len(file.stream) /\ Len(out) < Len(image)
    BY <1>2, <2>10, <2>11, <2>12, <2>13
  <2> QED
    BY <2>14 DEF Jpeg!More
<1>3. Len(out) = Len(image)
  BY <1>1, <1>2
<1> QED
  BY <1>1, <1>3, SameSeq

-----------------------------------------------------------------------------
(* The encoder and the decoder, one behind the other *)

HuffFile == [n : Nat, book : Seq(Pair), marker : BOOLEAN, stream : Seq(Bit), whole : BOOLEAN]

\* The pair table has all pairs of the blocks counted, then codes.
Counted ==
  /\ image \in Seq(Block) /\ pairs \in Seq(Pair) /\ bi \in 0..Len(image)
  /\ AllKnown(image, pairs, IF pc = "pass1" THEN bi ELSE Len(image))
  /\ pc = "merge" => Forest(hq, Len(pairs)) /\ Cover(hq) = 1..Len(pairs)
  /\ pc \notin {"pass1", "push", "merge"} => PrefixFree(pairs)

\* The stream is that of the blocks coded, or its beginning; the decoder is somewhere in it.
InStream(off) ==
  /\ Streamed(image, pairs, file.stream, off, bi) /\ Len(file.stream) <= off[bi]
  /\ pc = "pass2" \/ file.whole => Len(file.stream) = off[bi]
  /\ pc \in {"bits", "done"} => ReadTo(off, pos, cur, zz, out)

Written ==
  IF pc \in {"pass1", "push", "merge", "book"}
  THEN file = Jpeg!EmptyFile /\ (pc # "pass1" => bi = 0)
  ELSE /\ file \in HuffFile /\ file.n = Len(pairs) /\ Len(file.book) <= Len(pairs)
       /\ \A i \in 1..Len(file.book) : file.book[i] = pairs[i]
       /\ file.marker => file.book = pairs
       /\ file.whole => file.marker /\ bi = Len(image)
       /\ pc = "pass2" => file.marker /\ ~file.whole
       /\ \E off : InStream(off)

Started == pos = 0 /\ trie = [p \in {<<>>} |-> 0] /\ cur = <<>> /\ zz = <<>> /\ out = <<>>

Decoder ==
  /\ pc \in {"pass1", "push", "merge", "book", "pass2"} => Started
  /\ pc = "lines" => /\ pos \in 0..Len(file.book) /\ TrieOf(trie, pairs, pos)
                     /\ CodesNotEmpty(pairs, pos)
                     /\ cur = <<>> /\ zz = <<>> /\ out = <<>>
  /\ pc \in {"bits", "done"} => /\ TrieOf(trie, pairs, Len(pairs)) /\ file.marker
                                /\ CodesNotEmpty(pairs, Len(pairs))
  /\ pc = "failed" => out = <<>> /\ (file.whole => Len(pairs) = 1)
  /\ pc = "done" => ~Jpeg!More

PipeInv ==
  /\ pc \in {"pass1", "push", "merge", "book", "pass2", "lines", "bits", "done", "failed"}
  /\ Counted /\ Written /\ Decoder

LEMMA Pass1Keeps == ASSUME PipeInv, Jpeg!Pass1 PROVE PipeInv'
<1>1. /\ pc = "pass1" /\ UNCHANGED <<image, hq, file, pos, trie, cur, zz, out>>
      /\ image \in Seq(Block) /\ pairs \in Seq(Pair) /\ bi \in 0..Len(image)
      /\ AllKnown(image, pairs, bi) /\ file = Jpeg!EmptyFile /\ Started
  BY DEF PipeInv, Counted, Written, Decoder, Jpeg!Pass1, Jpeg!Goto, Jpeg!decVars
<1>2. Len(image) \in Nat
  BY <1>1, LenProperties
<1>3. CASE bi = Len(image)
  <2>1. pc' = "push" /\ bi' = 0 /\ pairs' = pairs
    BY <1>3 DEF Jpeg!Pass1, Jpeg!Goto
  <2>2. Counted'
    BY <1>1, <1>2, <1>3, <2>1 DEF Counted
  <2>3. Written' /\ Decoder'
    BY <1>1, <2>1 DEF Written, Decoder, Started
  <2> QED
    BY <2>1, <2>2, <2>3 DEF PipeInv
<1>4. CASE bi # Len(image)
  <2> DEFINE b == bi + 1
  <2>1. pc' = "pass1" /\ bi' = b /\ pairs' = Jpeg!CountPairs(pairs, RunsOf(image, b))
    BY <1>4 DEF Jpeg!Pass1, Jpeg!Goto, RunsOf
  <2>2. b \in 1..Len(image) /\ bi \in Nat
    BY <1>1, <1>2, <1>4
  <2>3. RunsOf(image, b) \in Seq(Run)
    BY <1>1, <2>2, RunsOfBlock
  <2>4. /\ pairs' \in Seq(Pair)
        /\ \A k \in 1..Len(RunsOf(image, b)) : Known(pairs', RunsOf(image, b)[k])
        /\ \A q : Known(pairs, q) => Known(pairs', q)
    BY <1>1, <2>1, <2>3, CountPairsFacts
  <2>5. AllKnown(image, pairs', b)
    <3>1. \A a \in 1..b : a \in 1..bi \/ a = b
      BY <2>2
    <3> HIDE DEF b
    <3> QED
      BY <1>1, <2>4, <3>1, Zenon DEF AllKnown
  <2>6. Counted'
    BY <1>1, <2>1, <2>2, <2>4, <2>5 DEF Counted
  <2>7. Written' /\ Decoder'
    BY <1>1, <2>1 DEF Written, Decoder, Started
  <2> QED
    BY <2>1, <2>6, <2>7 DEF PipeInv
<1> QED
  BY <1>3, <1>4

LEMMA TreeKeeps ==
  ASSUME PipeInv, Jpeg!Push \/ Jpeg!Merge \/ Jpeg!Codes PROVE PipeInv'
<1>1. /\ pc \in {"push", "merge"} /\ UNCHANGED <<image, bi, file, pos, trie, cur, zz, out>>
      /\ image \in Seq(Block) /\ pairs \in Seq(Pair) /\ bi \in 0..Len(image)
      /\ AllKnown(image, pairs, Len(image)) /\ file = Jpeg!EmptyFile /\ bi = 0 /\ Started
  BY DEF PipeInv, Counted, Written, Decoder, Jpeg!Push, Jpeg!Merge, Jpeg!Codes, Jpeg!Goto,
         Jpeg!decVars
<1>2. ASSUME pc' \in {"merge", "book"} PROVE Written' /\ Decoder'
  BY <1>1, <1>2 DEF Written, Decoder, Started
<1>3. CASE Jpeg!Push
  <2>1. pc' = "merge" /\ pairs' = pairs
    BY <1>3 DEF Jpeg!Push, Jpeg!Goto
  <2>2. Forest(hq', Len(pairs)) /\ Cover(hq') = 1..Len(pairs)
    BY <1>1, <1>3, PushFacts
  <2>3. Counted'
    BY <1>1, <2>1, <2>2 DEF Counted
  <2> QED
    BY <1>2, <2>1, <2>3 DEF PipeInv
<1>4. CASE Jpeg!Merge
  <2>1. pc = "merge" /\ pc' = "merge" /\ pairs' = pairs
    BY <1>4 DEF Jpeg!Merge
  <2>2. Forest(hq, Len(pairs)) /\ Cover(hq) = 1..Len(pairs)
    BY <2>1 DEF PipeInv, Counted
  <2>3. Forest(hq', Len(pairs)) /\ Cover(hq') = 1..Len(pairs)
    BY <1>4, <2>2, MergeFacts
  <2>4. Counted'
    BY <1>1, <2>1, <2>3 DEF Counted
  <2> QED
    BY <1>2, <2>1, <2>4 DEF PipeInv
<1>5. CASE Jpeg!Codes
  <2>1. pc = "merge" /\ pc' = "book"
    BY <1>5 DEF Jpeg!Codes, Jpeg!Goto
  <2>2. Forest(hq, Len(pairs)) /\ Cover(hq) = 1..Len(pairs)
    BY <2>1 DEF PipeInv, Counted
  <2>3. /\ pairs' \in Seq(Pair) /\ Len(pairs') = Len(pairs) /\ PrefixFree(pairs')
        /\ \A i \in 1..Len(pairs) : pairs'[i].val = pairs[i].val /\ pairs'[i].cnt = pairs[i].cnt
    BY <1>1, <1>5, <2>2, CodesFacts
  <2>4. DOMAIN pairs = 1..Len(pairs) /\ DOMAIN pairs' = 1..Len(pairs)
    BY <1>1, <2>3, LenProperties
  <2>5. \A q : Known(pairs, q) => Known(pairs', q)
    BY <2>3, <2>4 DEF Known
  <2>6. AllKnown(image, pairs', Len(image))
    BY <1>1, <2>5, Zenon DEF AllKnown
  <2>7. Counted'
    BY <1>1, <2>1, <2>3, <2>6 DEF Counted
  <2> QED
    BY <1>2, <2>1, <2>7 DEF PipeInv
<1> QED
  BY <1>3, <1>4, <1>5

LEMMA BookKeeps == ASSUME prog = "pipe", PipeInv, Jpeg!WriteBook PROVE PipeInv'
<1> DEFINE f == [n |-> Len(pairs), book |-> pairs, marker |-> TRUE, stream |-> <<>>,
                 whole |-> FALSE]
           off == [b \in 0..0 |-> 0]
<1>1. /\ pc = "book" /\ pc' = "pass2"
      /\ UNCHANGED <<image, bi, pairs, pos, trie, cur, zz, out>>
      /\ pairs \in Seq(Pair) /\ file = Jpeg!EmptyFile /\ bi = 0 /\ Started
      /\ file' = [file EXCEPT !.n = Len(pairs), !.book = pairs, !.marker = TRUE]
  BY DEF PipeInv, Counted, Written, Decoder, Jpeg!WriteBook, Jpeg!Goto, Jpeg!decVars
<1>2. file' = f
  BY <1>1 DEF Jpeg!EmptyFile
<1>3. /\ f \in HuffFile /\ f.n = Len(pairs) /\ f.book = pairs /\ f.marker /\ ~f.whole
      /\ f.stream = <<>>
  BY <1>1, LenProperties DEF HuffFile
<1>4. off \in [0..0 -> Nat] /\ off[0] = 0 /\ 1..0 = {}
  OBVIOUS
<1> HIDE DEF off, f
<1>5. Streamed(image, pairs, <<>>, off, 0)
  BY <1>4 DEF Streamed
<1>6. InStream(off)'
  <2>1. Len(<<>>) = 0
    OBVIOUS
  <2>2. file'.stream = <<>> /\ bi' = 0 /\ image' = image /\ pairs' = pairs /\ pc' = "pass2"
    BY <1>1, <1>2, <1>3
  <2>3. Streamed(image', pairs', file'.stream, off, bi')
    BY <1>5, <2>2
  <2>4. Len(file'.stream) = off[bi'] /\ off[bi'] = 0
    BY <1>4, <2>1, <2>2
  <2>5. Len(file'.stream) <= off[bi']
    BY <2>4
  <2> QED
    BY <2>2, <2>3, <2>4, <2>5 DEF InStream
<1>7. Written'
  <2>1. Len(pairs) \in Nat
    BY <1>1, LenProperties
  <2>2. /\ file' \in HuffFile /\ file'.n = Len(pairs) /\ file'.book = pairs /\ file'.marker
        /\ ~file'.whole /\ pairs' = pairs /\ pc' = "pass2"
    BY <1>1, <1>2, <1>3
  <2>3. \E o : InStream(o)'
    BY <1>6
  <2> QED
    BY <2>1, <2>2, <2>3 DEF Written
<1>8. Counted'
  BY <1>1 DEF PipeInv, Counted
<1>9. Decoder'
  BY <1>1 DEF Decoder, Started
<1> QED
  BY <1>1, <1>7, <1>8, <1>9 DEF PipeInv

LEMMA Pass2Keeps == ASSUME PipeInv, Jpeg!Pass2 PROVE PipeInv'
<1>1. /\ pc = "pass2" /\ UNCHANGED <<image, pairs, pos, trie, cur, zz, out>>
      /\ image \in Seq(Block) /\ pairs \in Seq(Pair) /\ bi \in 0..Len(image)
      /\ AllKnown(image, pairs, Len(image)) /\ PrefixFree(pairs) /\ Started
      /\ file \in HuffFile /\ file.n = Len(pairs) /\ Len(file.book) <= Len(pairs)
      /\ \A i \in 1..Len(file.book) : file.book[i] = pairs[i]
      /\ file.book = pairs /\ file.marker /\ ~file.whole /\ \E off : InStream(off)
  BY DEF PipeInv, Counted, Written, Decoder, Jpeg!Pass2, Jpeg!Goto, Jpeg!decVars
<1>2. PICK off : Streamed(image, pairs, file.stream, off, bi) /\ Len(file.stream) = off[bi]
  BY <1>1 DEF InStream
<1>3. Len(image) \in Nat /\ file.stream \in Seq(Bit) /\ Len(file.stream) \in Nat /\ bi \in Nat
  <2>1. file.stream \in Seq(Bit)
    BY <1>1 DEF HuffFile
  <2> QED
    BY <1>1, <2>1, LenProperties
<1>4. CASE bi = Len(image)
  <2>1. pc' = "lines" /\ bi' = bi /\ file' = [file EXCEPT !.whole = TRUE]
    BY <1>4 DEF Jpeg!Pass2, Jpeg!Goto
  <2>2. /\ file' \in HuffFile /\ file'.n = file.n /\ file'.book = file.book
        /\ file'.marker = file.marker /\ file'.stream = file.stream /\ file'.whole
    BY <1>1, <2>1 DEF HuffFile
  <2>3. InStream(off)'
    BY <1>1, <1>2, <1>3, <2>1, <2>2 DEF InStream
  <2>4. Written'
    BY <1>1, <1>4, <2>1, <2>2, <2>3 DEF Written
  <2>5. Counted'
    BY <1>1, <2>1 DEF Counted
  <2>6. Decoder'
    <3>1. TrieOf(trie, pairs, 0)
      BY <1>1, EmptyTrie DEF Started
    <3>2. CodesNotEmpty(pairs, 0)
      BY DEF CodesNotEmpty
    <3>3. 0 \in 0..Len(file.book)
      BY <1>1, LenProperties
    <3> QED
      BY <1>1, <2>1, <2>2, <3>1, <3>2, <3>3 DEF Decoder, Started
  <2> QED
    BY <2>1, <2>4, <2>5, <2>6 DEF PipeInv
<1>5. CASE bi # Len(image)
  <2> DEFINE b == bi + 1
             rp == RunsOf(image, b)
             codes == CodesOf(image, pairs, b)
             t == file.stream \o Jpeg!FlattenSeq(codes)
  <2>1. b \in 1..Len(image)
    BY <1>1, <1>3, <1>5
  <2>2. \A a \in 1..Len(image) : RunsOf(image, a) \in Seq(Run) /\ Len(RunsOf(image, a)) \in Nat
    BY <1>1, RunsOfBlock
  <2>3. codes \in [1..Len(rp) -> Seq(Bit)]
    BY <1>1, <2>1, CodesOfBlock DEF AllKnown
  <2>4. pc' = "pass2" /\ bi' = b /\ file' = [file EXCEPT !.stream = t]
    <3>1. DOMAIN rp = 1..Len(rp)
      BY <2>1, <2>2, LenProperties
    <3>2. codes = [k \in DOMAIN rp |-> Jpeg!CodeOf(rp[k])]
      BY <3>1 DEF CodesOf, CodeIn, Jpeg!CodeOf
    <3>3. /\ pc' = "pass2" /\ bi' = b
          /\ file' = [file EXCEPT !.stream =
                        @ \o Jpeg!FlattenSeq([k \in DOMAIN rp |-> Jpeg!CodeOf(rp[k])])]
      BY <1>5 DEF Jpeg!Pass2, Jpeg!Goto, RunsOf
    <3> HIDE DEF codes
    <3> QED
      BY <3>2, <3>3
  <2>5. t \in Seq(Bit) /\ \E new : Streamed(image, pairs, t, new, b) /\ Len(t) = new[b]
    <3>1. \A a \in 1..bi : Len(RunsOf(image, a)) \in Nat
      BY <1>1, <1>3, <2>2
    <3>2. RunsOf(image, bi + 1) \in Seq(Run)
      BY <2>1, <2>2
    <3>3. EndsWith(image, pairs, file.stream, bi + 1)
      BY <1>2, <1>3, <2>3, <3>1, <3>2, NextBlock
    <3> QED
      BY <3>3, Zenon DEF EndsWith
  <2> HIDE DEF t, b
  <2>6. PICK new : Streamed(image, pairs, t, new, b) /\ Len(t) = new[b]
    BY <2>5
  <2>7. /\ file' \in HuffFile /\ file'.n = file.n /\ file'.book = file.book
        /\ file'.marker = file.marker /\ file'.stream = t /\ file'.whole = file.whole
    BY <1>1, <2>4, <2>5 DEF HuffFile
  <2>8. InStream(new)'
    <3>1. Len(t) \in Nat
      BY <2>5, LenProperties
    <3> QED
      BY <1>1, <2>4, <2>6, <2>7, <3>1 DEF InStream
  <2>9. Written'
    BY <1>1, <2>4, <2>7, <2>8 DEF Written
  <2>10. Counted'
    <3>1. b \in 0..Len(image)
      BY <2>1
    <3> QED
      BY <1>1, <2>4, <3>1 DEF Counted
  <2>11. Decoder'
    BY <1>1, <2>4 DEF Decoder, Started
  <2> QED
    BY <2>4, <2>9, <2>10, <2>11 DEF PipeInv
<1> QED
  BY <1>4, <1>5

LEMMA InterruptKeeps == ASSUME PipeInv, Jpeg!Interrupt PROVE PipeInv'
<1>1. /\ pc = "pass2" /\ pc' = "lines" /\ UNCHANGED <<image, bi, pairs, pos, trie, cur, zz, out>>
      /\ image \in Seq(Block) /\ pairs \in Seq(Pair) /\ bi \in 0..Len(image)
      /\ AllKnown(image, pairs, Len(image)) /\ PrefixFree(pairs) /\ Started
      /\ file \in HuffFile /\ file.n = Len(pairs) /\ file.book = pairs /\ file.marker
      /\ ~file.whole /\ \E off : InStream(off)
  BY DEF PipeInv, Counted, Written, Decoder, Jpeg!Interrupt, Jpeg!Goto, Jpeg!decVars
<1>c. file' \in {[file EXCEPT !.book = SubSeq(@, 1, k), !.marker = FALSE, !.stream = <<>>]
                   : k \in 0..Len(file.book)}
                \cup {[file EXCEPT !.stream = SubSeq(@, 1, k)] : k \in 0..Len(file.stream)}
  BY DEF Jpeg!Interrupt
<1>2. PICK off : Streamed(image, pairs, file.stream, off, bi) /\ Len(file.stream) = off[bi]
  BY <1>1 DEF InStream
<1>3. /\ Len(image) \in Nat /\ file.stream \in Seq(Bit) /\ Len(file.stream) \in Nat
      /\ Len(pairs) \in Nat /\ bi \in Nat
  <2>1. file.stream \in Seq(Bit)
    BY <1>1 DEF HuffFile
  <2> QED
    BY <1>1, <2>1, LenProperties
<1>4. \E k \in 0..Len(pairs), t \in Seq(Bit) :
        /\ file' \in HuffFile /\ file'.n = Len(pairs) /\ file'.book = SubSeq(pairs, 1, k)
        /\ file'.marker => k = Len(pairs)
        /\ ~file'.whole /\ file'.stream = t /\ Len(t) <= Len(file.stream)
        /\ \A i \in 1..Len(t) : t[i] = file.stream[i]
  <2>1. CASE \E k \in 0..Len(file.book) :
               file' = [file EXCEPT !.book = SubSeq(@, 1, k), !.marker = FALSE, !.stream = <<>>]
    <3>1. PICK k \in 0..Len(pairs) :
            file' = [file EXCEPT !.book = SubSeq(pairs, 1, k), !.marker = FALSE, !.stream = <<>>]
      BY <1>1, <2>1
    <3>2. SubSeq(pairs, 1, k) \in Seq(Pair)
      <4>1. \A i \in 1..k : i \in 1..Len(pairs)
        BY <1>3
      <4>2. \A i \in 1..k : pairs[i] \in Pair
        BY <1>1, <4>1, ElementOfSeq
      <4> QED
        BY <1>1, <1>3, <4>2, SubSeqProperties
    <3> DEFINE s == SubSeq(pairs, 1, k)
    <3> HIDE DEF s
    <3>3. s \in Seq(Pair) /\ file' = [file EXCEPT !.book = s, !.marker = FALSE, !.stream = <<>>]
      BY <3>1, <3>2 DEF s
    <3>4. /\ file' \in HuffFile /\ file'.n = Len(pairs) /\ file'.book = s /\ ~file'.marker
          /\ ~file'.whole /\ file'.stream = <<>>
      <4>1. PICK v \in Seq(Bit) : v = <<>>
        <5>1. <<>> \in Seq(Bit)
          OBVIOUS
        <5> QED
          BY <5>1, Zenon
      <4>2. file' = [file EXCEPT !.book = s, !.marker = FALSE, !.stream = v]
        BY <3>3, <4>1
      <4>3. file' = [n |-> file.n, book |-> s, marker |-> FALSE, stream |-> v,
                     whole |-> file.whole]
        BY <1>1, <4>2 DEF HuffFile
      <4>4. file.n \in Nat /\ file.whole = FALSE
        BY <1>1 DEF HuffFile
      <4> QED
        BY <1>1, <3>3, <4>1, <4>3, <4>4 DEF HuffFile
    <3>5. <<>> \in Seq(Bit) /\ Len(<<>>) = 0
      OBVIOUS
    <3>6. Len(<<>>) <= Len(file.stream) /\ \A i \in 1..Len(<<>>) : <<>>[i] = file.stream[i]
      BY <1>3, <3>5
    <3> QED
      BY <3>4, <3>5, <3>6, Zenon DEF s
  <2>2. CASE \E k \in 0..Len(file.stream) : file' = [file EXCEPT !.stream = SubSeq(@, 1, k)]
    <3>1. PICK k \in 0..Len(file.stream) :
            file' = [file EXCEPT !.stream = SubSeq(file.stream, 1, k)]
      BY <2>2
    <3> DEFINE t == SubSeq(file.stream, 1, k)
    <3>2. t \in Seq(Bit) /\ Len(t) = k /\ \A i \in 1..k : t[i] = file.stream[i]
      <4> DEFINE x == file.stream
      <4>1. x \in Seq(Bit) /\ Len(x) \in Nat /\ k \in 0..Len(x)
        BY <1>3
      <4>2. \A i \in 1..k : x[i] \in Bit
        <5>1. \A i \in 1..k : i \in 1..Len(x)
          BY <4>1
        <5> HIDE DEF x
        <5> QED
          BY <4>1, <5>1, ElementOfSeq
      <4> HIDE DEF x
      <4>3. /\ SubSeq(x, 1, k) \in Seq(Bit) /\ Len(SubSeq(x, 1, k)) = k
            /\ \A i \in 1..k : SubSeq(x, 1, k)[i] = x[i]
        BY <4>1, <4>2, SubSeqProperties
      <4> QED
        BY <4>3 DEF x
    <3> HIDE DEF t
    <3>3. /\ file' \in HuffFile /\ file'.n = file.n /\ file'.book = file.book
          /\ file'.whole = file.whole /\ file'.stream = t
      BY <1>1, <3>1, <3>2 DEF HuffFile, t
    <3>4. SubSeq(pairs, 1, Len(pairs)) = pairs
      BY <1>1, SubSeqFull
    <3>5. Len(t) <= Len(file.stream) /\ \A i \in 1..Len(t) : t[i] = file.stream[i]
      BY <1>3, <3>2
    <3>6. Len(pairs) \in 0..Len(pairs)
      BY <1>3
    <3>7. file'.n = Len(pairs) /\ file'.book = SubSeq(pairs, 1, Len(pairs)) /\ ~file'.whole
      BY <1>1, <3>3, <3>4
    <3> QED
      BY <3>2, <3>3, <3>5, <3>6, <3>7
  <2> QED
    BY <1>c, <2>1, <2>2
<1>5. PICK k \in 0..Len(pairs), t \in Seq(Bit) :
        /\ file' \in HuffFile /\ file'.n = Len(pairs) /\ file'.book = SubSeq(pairs, 1, k)
        /\ file'.marker => k = Len(pairs)
        /\ ~file'.whole /\ file'.stream = t /\ Len(t) <= Len(file.stream)
        /\ \A i \in 1..Len(t) : t[i] = file.stream[i]
  BY <1>4
<1>6. Streamed(image, pairs, t, off, bi) /\ Len(t) <= off[bi]
  <2>1. Len(t) \in Nat
    BY LenProperties
  <2>2. \A b \in 1..bi : Len(RunsOf(image, b)) \in Nat
    <3>1. \A b \in 1..bi : b \in 1..Len(image)
      BY <1>1, <1>3
    <3> QED
      BY <1>1, <3>1, RunsOfBlock
  <2>3. Streamed(image, pairs, t, off, bi)
    BY <1>2, <1>3, <1>5, <2>1, <2>2, ShorterStream
  <2> QED
    BY <1>2, <1>5, <2>3
<1>7. InStream(off)'
  BY <1>1, <1>5, <1>6 DEF InStream
<1>8. /\ Len(file'.book) = k /\ \A i \in 1..k : file'.book[i] = pairs[i]
      /\ k = Len(pairs) => file'.book = pairs
  <2>1. \A i \in 1..k : pairs[i] \in Pair
    <3>1. \A i \in 1..k : i \in 1..Len(pairs)
      BY <1>3
    <3> QED
      BY <1>1, <3>1, ElementOfSeq
  <2>2. Len(SubSeq(pairs, 1, k)) = k /\ \A i \in 1..k : SubSeq(pairs, 1, k)[i] = pairs[i]
    BY <1>1, <1>3, <2>1, SubSeqProperties
  <2>3. SubSeq(pairs, 1, Len(pairs)) = pairs
    BY <1>1, SubSeqFull
  <2> QED
    BY <1>5, <2>2, <2>3
<1>9. Written'
  <2>1. k <= Len(pairs) /\ Len(pairs') = Len(pairs) /\ pairs' = pairs
    BY <1>1, <1>3
  <2>2. /\ Len(file'.book) <= Len(pairs') /\ \A i \in 1..Len(file'.book) : file'.book[i] = pairs'[i]
    BY <1>8, <2>1
  <2>3. file'.marker => file'.book = pairs'
    BY <1>5, <1>8, <2>1
  <2>4. \E o : InStream(o)'
    BY <1>7
  <2> QED
    BY <1>1, <1>5, <2>1, <2>2, <2>3, <2>4 DEF Written
<1>10. Counted'
  BY <1>1 DEF Counted
<1>11. Decoder'
  <2>1. TrieOf(trie, pairs, 0)
    BY <1>1, EmptyTrie DEF Started
  <2>2. CodesNotEmpty(pairs, 0)
    BY DEF CodesNotEmpty
  <2>3. 0 \in 0..Len(file'.book)
    BY <1>8
  <2> QED
    BY <1>1, <2>1, <2>2, <2>3 DEF Decoder, Started
<1> QED
  BY <1>1, <1>9, <1>10, <1>11 DEF PipeInv

\* No code has no bits, unless it is the only one.
LEMMA OnlyCode ==
  ASSUME NEW ps \in Seq(Pair), PrefixFree(ps), NEW i \in 1..Len(ps), ps[i].code = <<>>
  PROVE  Len(ps) = 1
<1>1. Len(ps) \in Nat
  BY LenProperties
<1>2. ASSUME NEW j \in 1..Len(ps), j # i PROVE FALSE
  <2>1. ps[i].code \in Seq(Bit) /\ ps[j].code \in Seq(Bit)
    BY CodesAreBits
  <2>2. Len(ps[i].code) = 0 /\ Len(ps[j].code) \in Nat
    BY <2>1, LenProperties, EmptySeq
  <2>3. Jpeg!IsPrefix(ps[i].code, ps[j].code)
    <3>1. PICK s, t : s = ps[i].code /\ t = ps[j].code
      OBVIOUS
    <3>2. /\ s \in Seq(Bit) /\ t \in Seq(Bit) /\ Len(s) <= Len(t)
          /\ \A a \in 1..Len(s) : s[a] = t[a]
      BY <2>1, <2>2, <3>1
    <3> QED
      BY <3>1, <3>2, PrefixFacts
  <2> QED
    BY <1>2, <2>3 DEF PrefixFree
<1>3. \A j \in 1..Len(ps) : j = i
  BY <1>2
<1>4. 1 \in 1..Len(ps) /\ Len(ps) \in 1..Len(ps)
  BY <1>1
<1> QED
  BY <1>3, <1>4

LEMMA LineKeeps == ASSUME PipeInv, Jpeg!ReadLine PROVE PipeInv'
<1>1. /\ pc = "lines" /\ pos < file.n /\ UNCHANGED <<image, bi, pairs, file, cur, zz, out>>
      /\ pairs \in Seq(Pair) /\ PrefixFree(pairs) /\ Counted /\ Written
      /\ file \in HuffFile /\ file.n = Len(pairs) /\ Len(file.book) <= Len(pairs)
      /\ \A i \in 1..Len(file.book) : file.book[i] = pairs[i]
      /\ file.marker => file.book = pairs
      /\ file.whole => file.marker
      /\ pos \in 0..Len(file.book) /\ TrieOf(trie, pairs, pos) /\ CodesNotEmpty(pairs, pos)
      /\ cur = <<>> /\ zz = <<>> /\ out = <<>>
      /\ pc' \in {"lines", "failed"}
  BY DEF PipeInv, Counted, Written, Decoder, Jpeg!ReadLine, Jpeg!Fail, Jpeg!decVars
<1>2. Len(pairs) \in Nat /\ Len(file.book) \in Nat
  <2>1. file.book \in Seq(Pair)
    BY <1>1 DEF HuffFile
  <2> QED
    BY <1>1, <2>1, LenProperties
<1>3. Counted'
  BY <1>1 DEF Counted
<1>4. Written'
  <2>1. \A off : InStream(off) => InStream(off)'
    BY <1>1 DEF InStream
  <2> QED
    BY <1>1, <2>1 DEF Written
<1>5. CASE pos = Len(file.book) \/ file.book[pos + 1].code = <<>>
  <2>1. pc' = "failed"
    BY <1>5 DEF Jpeg!ReadLine, Jpeg!Fail
  <2>2. file.whole => Len(pairs) = 1
    <3>1. SUFFICES ASSUME file.whole PROVE Len(pairs) = 1
      OBVIOUS
    <3>2. file.book = pairs /\ pos + 1 \in 1..Len(pairs) /\ pairs[pos + 1].code = <<>>
      BY <1>1, <1>2, <1>5, <3>1
    <3> QED
      BY <1>1, <3>2, OnlyCode
  <2>3. Decoder'
    BY <1>1, <2>1, <2>2 DEF Decoder
  <2> QED
    BY <1>3, <1>4, <2>1, <2>3 DEF PipeInv
<1>6. CASE ~(pos = Len(file.book) \/ file.book[pos + 1].code = <<>>)
  <2>1. pos + 1 \in 1..Len(file.book) /\ pos + 1 \in 0..Len(file.book) /\ pos \in Nat
    BY <1>1, <1>2, <1>6
  <2>2. file.book[pos + 1] = pairs[pos + 1]
    BY <1>1, <2>1
  <2>3. /\ pc' = "lines" /\ pos' = pos + 1 /\ pairs[pos + 1].code # <<>>
        /\ trie' = Jpeg!add_code(trie, pairs[pos + 1].code, pos + 1)
    BY <1>1, <1>6, <2>2 DEF Jpeg!ReadLine
  <2>4. TrieOf(trie', pairs, pos + 1)
    BY <1>1, <1>2, <2>1, <2>3, TrieGrows
  <2>5. CodesNotEmpty(pairs, pos + 1)
    <3>1. \A i \in 1..pos + 1 : i \in 1..pos \/ i = pos + 1
      BY <2>1
    <3> QED
      BY <1>1, <2>3, <3>1, Zenon DEF CodesNotEmpty
  <2>6. Decoder'
    BY <1>1, <2>1, <2>3, <2>4, <2>5 DEF Decoder
  <2> QED
    BY <1>3, <1>4, <2>3, <2>6 DEF PipeInv
<1> QED
  BY <1>5, <1>6

\* Where the decoder stands in the stream is a matter of the image, its codes
\* and the file, and of what it has read.
LEMMA StreamKept ==
  ASSUME NEW off, UNCHANGED <<image, bi, pairs, file>>, ReadTo(off, pos', cur', zz', out')
  PROVE  ReadTo(off, pos, cur, zz, out)'
<1>1. ASSUME NEW cut, NEW e, NEW k, AtCode(off, Len(out') + 1, cut, e, k, pos', cur', zz')
      PROVE  AtCode(off, Len(out) + 1, cut, e, k, pos, cur, zz)'
  BY <1>1 DEF AtCode
<1> QED
  BY <1>1 DEF ReadTo

LEMMA MarkerKeeps == ASSUME PipeInv, Jpeg!ReadMarker PROVE PipeInv'
<1>1. /\ pc = "lines" /\ pos = file.n /\ UNCHANGED <<image, bi, pairs, file, trie, cur, zz, out>>
      /\ image \in Seq(Block) /\ pairs \in Seq(Pair) /\ bi \in 0..Len(image)
      /\ AllKnown(image, pairs, Len(image)) /\ PrefixFree(pairs) /\ Counted /\ Written
      /\ file \in HuffFile /\ file.n = Len(pairs) /\ (file.whole => file.marker)
      /\ TrieOf(trie, pairs, pos) /\ CodesNotEmpty(pairs, pos)
      /\ cur = <<>> /\ zz = <<>> /\ out = <<>>
      /\ IF file.marker THEN pc' = "bits" /\ pos' = 0 ELSE pc' = "failed"
  BY DEF PipeInv, Counted, Written, Decoder, Jpeg!ReadMarker, Jpeg!Fail, Jpeg!decVars
<1>2. Counted'
  BY <1>1 DEF Counted
<1>3. CASE ~file.marker
  <2>1. \A off : InStream(off) => InStream(off)'
    BY <1>1, <1>3 DEF InStream
  <2>2. Written'
    BY <1>1, <1>3, <2>1 DEF Written
  <2>3. Decoder'
    BY <1>1, <1>3 DEF Decoder
  <2> QED
    BY <1>1, <1>2, <1>3, <2>2, <2>3 DEF PipeInv
<1>4. CASE file.marker
  <2>1. ASSUME NEW off, InStream(off) PROVE InStream(off)'
    <3>1. Text(off)
      <4>1. file.stream \in Seq(Bit)
        BY <1>1 DEF HuffFile
      <4>2. AllKnown(image, pairs, bi)
        <5>1. Len(image) \in Nat
          BY <1>1, LenProperties
        <5>2. \A b \in 1..bi : b \in 1..Len(image)
          BY <1>1, <5>1
        <5> QED
          BY <1>1, <5>2, Zenon DEF AllKnown
      <4>3. CodesNotEmpty(pairs, Len(pairs))
        BY <1>1
      <4> QED
        BY <1>1, <2>1, <4>1, <4>2, <4>3 DEF Text, InStream
    <3> DEFINE o == <<>>
    <3>2. o \in Seq(Block) /\ Len(o) = 0 /\ Len(o) <= bi /\ \A b \in 1..Len(o) : o[b] = image[b]
      BY <1>1
    <3>3. off[0] = 0
      BY <2>1 DEF InStream, Streamed
    <3> HIDE DEF o
    <3>4. ReadTo(off, off[Len(o)], <<>>, <<>>, o)
      BY <3>1, <3>2, NextOut
    <3>5. ReadTo(off, 0, <<>>, <<>>, o)
      BY <3>2, <3>3, <3>4
    <3>6. ReadTo(off, pos', cur', zz', out')
      BY <1>1, <1>4, <3>5 DEF o
    <3>7. ReadTo(off, pos, cur, zz, out)'
      BY <1>1, <3>6, StreamKept
    <3> QED
      BY <1>1, <1>4, <2>1, <3>7 DEF InStream
  <2>2. Written'
    BY <1>1, <1>4, <2>1 DEF Written
  <2>3. Decoder'
    BY <1>1, <1>4 DEF Decoder
  <2> QED
    BY <1>1, <1>2, <1>4, <2>2, <2>3 DEF PipeInv
<1> QED
  BY <1>3, <1>4

\* What the decoder reads once it has the codebook.
LEMMA TextHolds ==
  ASSUME PipeInv, pc \in {"bits", "done"}
  PROVE  /\ \E off : InStream(off) /\ Text(off)
         /\ \A off : InStream(off) => Text(off)
         /\ TrieOf(trie, pairs, Len(pairs)) /\ file.book = pairs
<1>1. /\ image \in Seq(Block) /\ pairs \in Seq(Pair) /\ bi \in 0..Len(image)
      /\ AllKnown(image, pairs, Len(image)) /\ PrefixFree(pairs)
      /\ file \in HuffFile /\ file.book = pairs /\ \E off : InStream(off)
      /\ TrieOf(trie, pairs, Len(pairs)) /\ CodesNotEmpty(pairs, Len(pairs))
  BY DEF PipeInv, Counted, Written, Decoder
<1>2. file.stream \in Seq(Bit)
  BY <1>1 DEF HuffFile
<1>3. AllKnown(image, pairs, bi)
  <2>1. Len(image) \in Nat
    BY <1>1, LenProperties
  <2>2. \A b \in 1..bi : b \in 1..Len(image)
    BY <1>1, <2>1
  <2> QED
    BY <1>1, <2>2, Zenon DEF AllKnown
<1>4. \A off : InStream(off) => Text(off)
  BY <1>1, <1>2, <1>3 DEF Text, InStream
<1> QED
  BY <1>1, <1>4

LEMMA BitKeeps == ASSUME PipeInv, Jpeg!ReadBit PROVE PipeInv'
<1>1. /\ pc = "bits" /\ UNCHANGED <<image, bi, pairs, file>> /\ Counted /\ Written /\ Decoder
  BY DEF PipeInv, Jpeg!ReadBit
<1>2. /\ TrieOf(trie, pairs, Len(pairs)) /\ file.book = pairs
      /\ \E off : InStream(off)
      /\ \A off : InStream(off) => Text(off)
  BY <1>1, TextHolds
<1>3. ASSUME NEW off, InStream(off)
      PROVE  pc' = pc /\ trie' = trie /\ InStream(off)'
  <2>1. Text(off) /\ ReadTo(off, pos, cur, zz, out)
    BY <1>1, <1>2, <1>3 DEF InStream
  <2>2. pc' = pc /\ trie' = trie /\ ReadTo(off, pos', cur', zz', out')
    BY <1>2, <2>1, BitRead
  <2>3. ReadTo(off, pos, cur, zz, out)'
    BY <1>1, <2>2, StreamKept
  <2> QED
    BY <1>1, <1>3, <2>2, <2>3 DEF InStream
<1>4. pc' = pc /\ trie' = trie
  BY <1>2, <1>3
<1>5. Counted'
  BY <1>1, <1>4 DEF Counted
<1>6. Written'
  BY <1>1, <1>3, <1>4 DEF Written
<1>7. Decoder'
  BY <1>1, <1>4 DEF Decoder
<1> QED
  BY <1>1, <1>4, <1>5, <1>6, <1>7 DEF PipeInv

LEMMA ImageKeeps == ASSUME PipeInv, Jpeg!WriteImage PROVE PipeInv'
<1>1. /\ pc = "bits" /\ pc' = "done" /\ ~Jpeg!More
      /\ UNCHANGED <<image, bi, pairs, file, pos, trie, cur, zz, out>>
      /\ Counted /\ Written /\ Decoder
  BY DEF PipeInv, Jpeg!WriteImage, Jpeg!Goto, Jpeg!decVars
<1>2. Counted'
  BY <1>1 DEF Counted
<1>3. ASSUME NEW off, InStream(off) PROVE InStream(off)'
  <2>1. UNCHANGED <<image, bi, pairs, file, pos, cur, zz, out>>
    BY <1>1
  <2>2. ReadTo(off, pos, cur, zz, out)
    BY <1>1, <1>3 DEF InStream
  <2>3. ReadTo(off, pos', cur', zz', out')
    BY <2>1, <2>2
  <2>4. ReadTo(off, pos, cur, zz, out)'
    BY <2>1, <2>3, StreamKept
  <2> QED
    BY <1>1, <1>3, <2>4 DEF InStream
<1>4. Written'
  BY <1>1, <1>3 DEF Written
<1>5. Decoder'
  BY <1>1 DEF Decoder, Jpeg!More
<1> QED
  BY <1>1, <1>2, <1>4, <1>5 DEF PipeInv

-----------------------------------------------------------------------------
(* What the exercises are for *)

\* Step 3 writes the rows of one block behind the other.
CsvInv ==
  /\ image \in Seq(Block) /\ bi \in 0..Len(image) /\ pc \in {"pass1", "done"} /\ out = <<>>
  /\ csv \in Seq(Seq(Row)) /\ Len(csv) = bi
  /\ \A b \in 1..bi : csv[b] = Jpeg!runLengthEncode(Jpeg!zigzagScan(image[b]))

\* huffmanBase.c builds the same tree.
BaseInv ==
  /\ image = <<>> /\ out = <<>> /\ csv = <<>> /\ pairs \in Seq(Pair)
  /\ pc \in {"push", "merge", "book", "done"}
  /\ pc = "merge" => Forest(hq, Len(pairs)) /\ Cover(hq) = 1..Len(pairs)
  /\ pc \in {"book", "done"} => PrefixFree(pairs)

JpegInv ==
  /\ prog = "pipe" => PipeInv /\ csv = <<>>
  /\ prog = "csv" => CsvInv
  /\ prog = "base" => BaseInv

LEMMA RowsOfImage ==
  ASSUME NEW b \in Block
  PROVE  Jpeg!runLengthEncode(Jpeg!zigzagScan(b)) \in Seq(Row)
<1>1. Jpeg!zigzagScan(b) \in Block
  BY Unzigzag
<1>2. PICK e, c : c \in Coded /\ Jpeg!runLengthEncode(Jpeg!zigzagScan(b)) = c.rows
  BY <1>1, RowsOfBlock
<1> QED
  BY <1>2 DEF Coded

LEMMA CsvKeeps == ASSUME CsvInv, Jpeg!CsvBlock PROVE CsvInv'
<1> DEFINE b == bi + 1
           rows == Jpeg!runLengthEncode(Jpeg!zigzagScan(image[b]))
<1>1. /\ image \in Seq(Block) /\ bi \in 0..Len(image) /\ bi < Len(image)
      /\ csv \in Seq(Seq(Row)) /\ Len(csv) = bi
      /\ \A a \in 1..bi : csv[a] = Jpeg!runLengthEncode(Jpeg!zigzagScan(image[a]))
      /\ image' = image /\ out' = out /\ out = <<>> /\ bi' = b /\ csv' = Append(csv, rows)
      /\ pc' \in {"pass1", "done"}
  BY DEF CsvInv, Jpeg!CsvBlock, Jpeg!Goto, Jpeg!decVars
<1>2. b \in 1..Len(image) /\ b \in 0..Len(image) /\ bi \in Nat /\ image[b] \in Block
  <2>1. Len(image) \in Nat
    BY <1>1, LenProperties
  <2>2. b \in 1..Len(image) /\ b \in 0..Len(image) /\ bi \in Nat
    BY <1>1, <2>1
  <2> QED
    BY <1>1, <2>2, ElementOfSeq
<1>3. rows \in Seq(Row)
  BY <1>2, RowsOfImage
<1> HIDE DEF rows
<1>4. /\ csv' \in Seq(Seq(Row)) /\ Len(csv') = b
      /\ (\A a \in 1..bi : csv'[a] = csv[a]) /\ csv'[b] = rows
  <2>1. /\ Append(csv, rows) \in Seq(Seq(Row)) /\ Len(Append(csv, rows)) = Len(csv) + 1
        /\ (\A a \in 1..Len(csv) : Append(csv, rows)[a] = csv[a])
        /\ Append(csv, rows)[Len(csv) + 1] = rows
    <3>1. csv \in Seq(Seq(Row)) /\ rows \in Seq(Row)
      BY <1>1, <1>3
    <3> HIDE DEF b
    <3> QED
      BY <3>1, AppendProperties
  <2> QED
    BY <1>1, <2>1
<1>5. \A a \in 1..b : csv'[a] = Jpeg!runLengthEncode(Jpeg!zigzagScan(image[a]))
  <2>1. \A a \in 1..b : a = b \/ a \in 1..bi
    BY <1>2
  <2> HIDE DEF b
  <2>2. ASSUME NEW a \in 1..b PROVE csv'[a] = Jpeg!runLengthEncode(Jpeg!zigzagScan(image[a]))
    <3>1. CASE a = b
      BY <1>4, <3>1 DEF rows
    <3>2. CASE a \in 1..bi
      BY <1>1, <1>4, <3>2
    <3> QED
      BY <2>1, <3>1, <3>2
  <2> QED
    BY <2>2
<1> HIDE DEF b
<1> QED
  BY <1>1, <1>2, <1>4, <1>5 DEF CsvInv

LEMMA BaseKeeps ==
  ASSUME prog = "base", BaseInv, Jpeg!Push \/ Jpeg!Merge \/ Jpeg!Codes \/ Jpeg!WriteBook
  PROVE  BaseInv'
<1>1. /\ UNCHANGED <<image, out, csv>> /\ image = <<>> /\ out = <<>> /\ csv = <<>>
      /\ pairs \in Seq(Pair)
  BY DEF BaseInv, Jpeg!Push, Jpeg!Merge, Jpeg!Codes, Jpeg!WriteBook, Jpeg!decVars
<1>2. CASE Jpeg!Push
  <2>1. pc' = "merge" /\ pairs' = pairs
    BY <1>2 DEF Jpeg!Push, Jpeg!Goto
  <2>2. Forest(hq', Len(pairs)) /\ Cover(hq') = 1..Len(pairs)
    BY <1>1, <1>2, PushFacts
  <2> QED
    BY <1>1, <2>1, <2>2 DEF BaseInv
<1>3. CASE Jpeg!Merge
  <2>1. pc = "merge" /\ pc' = "merge" /\ pairs' = pairs
    BY <1>3 DEF Jpeg!Merge
  <2>2. Forest(hq, Len(pairs)) /\ Cover(hq) = 1..Len(pairs)
    BY <2>1 DEF BaseInv
  <2>3. Forest(hq', Len(pairs)) /\ Cover(hq') = 1..Len(pairs)
    BY <1>3, <2>2, MergeFacts
  <2> QED
    BY <1>1, <2>1, <2>3 DEF BaseInv
<1>4. CASE Jpeg!Codes
  <2>1. pc = "merge" /\ pc' = "book"
    BY <1>4 DEF Jpeg!Codes, Jpeg!Goto
  <2>2. Forest(hq, Len(pairs)) /\ Cover(hq) = 1..Len(pairs)
    BY <2>1 DEF BaseInv
  <2>3. pairs' \in Seq(Pair) /\ PrefixFree(pairs')
    BY <1>1, <1>4, <2>2, CodesFacts
  <2> QED
    BY <1>1, <2>1, <2>3 DEF BaseInv
<1>5. CASE Jpeg!WriteBook
  <2>1. pc = "book" /\ pc' = "done" /\ pairs' = pairs
    BY <1>5 DEF Jpeg!WriteBook, Jpeg!Goto
  <2> QED
    BY <1>1, <2>1 DEF BaseInv
<1> QED
  BY <1>2, <1>3, <1>4, <1>5

LEMMA JpegStarts == Jpeg!Init => JpegInv
<1> SUFFICES ASSUME Jpeg!Init PROVE JpegInv
  OBVIOUS
<1>1. bi = 0 /\ Started /\ file = Jpeg!EmptyFile /\ csv = <<>>
  BY DEF Jpeg!Init, Started
<1>2. CASE prog \in {"pipe", "csv"}
  <2>1. pc = "pass1" /\ image \in Seq(Block) /\ pairs = <<>>
    BY <1>2, ImagesAssumption DEF Jpeg!Init, Block
  <2>2. 0 \in 0..Len(image) /\ 1..0 = {}
    BY <2>1, LenProperties
  <2>3. AllKnown(image, pairs, 0)
    BY <2>2 DEF AllKnown
  <2>4. PipeInv
    BY <1>1, <2>1, <2>2, <2>3 DEF PipeInv, Counted, Written, Decoder
  <2>5. CsvInv
    BY <1>1, <2>1, <2>2 DEF CsvInv, Started
  <2> QED
    BY <1>1, <1>2, <2>4, <2>5 DEF JpegInv
<1>3. CASE prog = "base"
  <2>1. pc = "push" /\ image = <<>>
    BY <1>3 DEF Jpeg!Init
  <2>2. PICK t \in Tables : pairs = [i \in DOMAIN t |-> [val |-> i, cnt |-> 1, freq |-> t[i],
                                                        code |-> <<>>]]
    BY <1>3 DEF Jpeg!Init
  <2>3. t \in Seq(Nat)
    BY TablesAssumption
  <2>4. Len(t) \in Nat /\ DOMAIN t = 1..Len(t) /\ \A i \in 1..Len(t) : t[i] \in Nat
    BY <2>3, LenProperties
  <2>5. PICK v \in Seq(Bit) : v = <<>>
    <3>1. <<>> \in Seq(Bit)
      OBVIOUS
    <3> QED
      BY <3>1, Zenon
  <2>6. pairs = [i \in 1..Len(t) |-> [val |-> i, cnt |-> 1, freq |-> t[i], code |-> v]]
    BY <2>2, <2>4, <2>5
  <2>7. \A i \in 1..Len(t) : [val |-> i, cnt |-> 1, freq |-> t[i], code |-> v] \in Pair
    BY <2>4, <2>5 DEF Pair
  <2>8. pairs \in [1..Len(t) -> Pair]
    BY <2>6, <2>7
  <2>9. pairs \in Seq(Pair)
    BY <2>4, <2>8
  <2> QED
    BY <1>1, <1>3, <2>1, <2>9 DEF JpegInv, BaseInv, Started
<1> QED
  BY <1>2, <1>3 DEF Jpeg!Init

LEMMA JpegKeeps == ASSUME JpegInv, JpegNext PROVE JpegInv'
<1>1. Jpeg!Next /\ prog \in {"pipe", "base", "csv"} /\ prog' = prog
  BY SameProgram DEF JpegNext, Next
<1>2. CASE prog = "pipe"
  <2>1. PipeInv /\ csv = <<>>
    BY <1>2 DEF JpegInv
  <2>2. ~Jpeg!CsvBlock
    BY <1>2 DEF Jpeg!CsvBlock
  <2>3. PipeInv'
    BY <1>1, <1>2, <2>1, <2>2, Pass1Keeps, TreeKeeps, BookKeeps, Pass2Keeps, InterruptKeeps,
       LineKeeps, MarkerKeeps, BitKeeps, ImageKeeps DEF Jpeg!Next
  <2>4. csv' = csv
    BY <1>1, <2>2 DEF Jpeg!Next, Jpeg!Pass1, Jpeg!Push, Jpeg!Merge, Jpeg!Codes,
       Jpeg!WriteBook, Jpeg!Pass2, Jpeg!Interrupt, Jpeg!ReadLine, Jpeg!ReadMarker,
       Jpeg!ReadBit, Jpeg!WriteImage
  <2> QED
    BY <1>1, <1>2, <2>1, <2>3, <2>4 DEF JpegInv
<1>3. CASE prog = "csv"
  <2>1. CsvInv
    BY <1>3 DEF JpegInv
  <2>2. Jpeg!CsvBlock
    BY <1>1, <1>3, <2>1 DEF CsvInv, Jpeg!Next, Jpeg!Goto, Jpeg!Pass1, Jpeg!Push, Jpeg!Merge,
       Jpeg!Codes, Jpeg!WriteBook, Jpeg!Pass2, Jpeg!Interrupt, Jpeg!ReadLine,
       Jpeg!ReadMarker, Jpeg!ReadBit, Jpeg!WriteImage
  <2>3. CsvInv'
    BY <2>1, <2>2, CsvKeeps
  <2> QED
    BY <1>1, <1>3, <2>3 DEF JpegInv
<1>4. CASE prog = "base"
  <2>1. BaseInv
    BY <1>4 DEF JpegInv
  <2>2. Jpeg!Push \/ Jpeg!Merge \/ Jpeg!Codes \/ Jpeg!WriteBook
    BY <1>1, <1>4, <2>1 DEF BaseInv, Jpeg!Next, Jpeg!Goto, Jpeg!CsvBlock, Jpeg!Pass1,
       Jpeg!Pass2, Jpeg!Interrupt, Jpeg!ReadLine, Jpeg!ReadMarker, Jpeg!ReadBit,
       Jpeg!WriteImage
  <2>3. BaseInv'
    BY <1>4, <2>1, <2>2, BaseKeeps
  <2> QED
    BY <1>1, <1>4, <2>3 DEF JpegInv
<1> QED
  BY <1>1, <1>2, <1>3, <1>4

LEMMA JpegInvariance == Spec => [](JpegRuns => JpegInv)
<1>1. Init => (JpegRuns => JpegInv)
  BY JpegStarts DEF Init, Camera!Init, JpegRuns
<1>2. (JpegRuns => JpegInv) /\ [Next]_<<prog, jpegVars, captureVars, raw, writerVars>>
        => (JpegRuns => JpegInv)'
  <2> SUFFICES ASSUME JpegRuns => JpegInv, JpegRuns',
                      [Next]_<<prog, jpegVars, captureVars, raw, writerVars>>
               PROVE  JpegInv'
    OBVIOUS
  <2>1. prog' = prog
    BY SameProgram
  <2>2. JpegInv
    BY <2>1 DEF JpegRuns
  <2>3. CASE JpegNext
    BY <2>2, <2>3, JpegKeeps
  <2>4. CASE ~JpegNext
    <3>1. UNCHANGED <<prog, jpegVars>>
      BY <2>1, <2>4 DEF Next, CaptureNext, WriterNext, JpegRuns
    <3>2. UNCHANGED <<prog, pc, image, bi, pairs, hq, file, pos, trie, cur, zz, out, csv>>
      BY <3>1 DEF jpegVars
    <3>3. ASSUME NEW off, InStream(off) PROVE InStream(off)'
      <4>1. ASSUME NEW cut, NEW e, NEW k, AtCode(off, Len(out) + 1, cut, e, k, pos, cur, zz)
            PROVE  AtCode(off, Len(out) + 1, cut, e, k, pos, cur, zz)'
        BY <3>2, <4>1 DEF AtCode
      <4>2. ReadTo(off, pos, cur, zz, out) => ReadTo(off, pos, cur, zz, out)'
        BY <3>2, <4>1 DEF ReadTo
      <4> QED
        BY <3>2, <3>3, <4>2 DEF InStream
    <3>4. Written => Written'
      BY <3>2, <3>3 DEF Written
    <3>5. (Counted => Counted') /\ (Decoder => Decoder')
      BY <3>2 DEF Counted, Decoder, Started, Jpeg!More
    <3>6. PipeInv => PipeInv'
      BY <3>2, <3>4, <3>5 DEF PipeInv
    <3>7. (CsvInv => CsvInv') /\ (BaseInv => BaseInv')
      BY <3>2 DEF CsvInv, BaseInv
    <3> QED
      BY <2>2, <3>2, <3>6, <3>7 DEF JpegInv
  <2> QED
    BY <2>3, <2>4
<1> QED
  BY <1>1, <1>2, PTL DEF Spec

LEMMA NothingIsPrefix == ASSUME NEW s \in Seq(Block) PROVE Jpeg!IsPrefix(<<>>, s)
<1>1. PICK t \in Seq(Block) : t = <<>>
  <2>1. <<>> \in Seq(Block)
    OBVIOUS
  <2> QED
    BY <2>1, Zenon
<1>2. Len(t) = 0 /\ Len(s) \in Nat
  BY <1>1, LenProperties, EmptySeq
<1>3. Len(t) <= Len(s) /\ \A i \in 1..Len(t) : t[i] = s[i]
  BY <1>2
<1>4. Jpeg!IsPrefix(t, s)
  BY <1>3, PrefixFacts
<1> QED
  BY <1>1, <1>4

\* The places that the rows add up to are those of RowsOfBlock.
LEMMA RowsHold ==
  ASSUME image \in Seq(Block), csv \in Seq(Seq(Row)), Len(csv) <= Len(image),
         \A b \in 1..Len(csv) : csv[b] = Jpeg!runLengthEncode(Jpeg!zigzagScan(image[b]))
  PROVE  Jpeg!RowsHoldBlocks
<1>1. /\ DOMAIN csv = 1..Len(csv) /\ Len(csv) \in Nat /\ Len(image) \in Nat
      /\ \A b \in 1..Len(csv) : csv[b] \in Seq(Row) /\ image[b] \in Block
  <2>1. DOMAIN csv = 1..Len(csv) /\ Len(csv) \in Nat /\ Len(image) \in Nat
    BY LenProperties
  <2>2. \A b \in 1..Len(csv) : b \in 1..Len(image)
    BY <2>1
  <2> QED
    BY <2>1, <2>2, ElementOfSeq
<1>2. ASSUME NEW b \in DOMAIN csv
      PROVE  LET z == Jpeg!zigzagScan(image[b])
                 place[k \in 0..Len(csv[b])] ==
                   IF k = 0 THEN 1 ELSE place[k - 1] + csv[b][k].run + 1
             IN  \A i \in 2..64 :
                   IF z[i] = 0 THEN \A k \in DOMAIN csv[b] : place[k] # i
                   ELSE \E k \in DOMAIN csv[b] : place[k] = i /\ csv[b][k].val = z[i]
  <2> DEFINE z == Jpeg!zigzagScan(image[b])
             r == csv[b]
             n == Len(r)
             Eq(f) == f = [k \in 0..n |-> IF k = 0 THEN 1 ELSE f[k - 1] + r[k].run + 1]
             h == CHOOSE f : Eq(f)
  <2>1. r \in Seq(Row) /\ n \in Nat /\ DOMAIN r = 1..n /\ z \in Block
    <3>1. r \in Seq(Row) /\ image[b] \in Block
      BY <1>1
    <3> HIDE DEF r
    <3> QED
      BY <3>1, LenProperties, Unzigzag
  <2>2. PICK e, c : c \in Coded /\ RowsSay(z, c, e, 64) /\ c.rows = r
    <3>1. r = Jpeg!runLengthEncode(z)
      BY <1>1
    <3> HIDE DEF r, z
    <3> QED
      BY <2>1, <3>1, RowsOfBlock
  <2> HIDE DEF r, z
  <2>3. /\ e \in [0..n -> 0..64] /\ e[0] = 1
        /\ \A k \in 1..n : e[k] = e[k - 1] + r[k].run + 1
        /\ \A j \in 2..64 : IF z[j] = 0 THEN \A k \in 1..n : e[k] # j
                            ELSE \E k \in 1..n : e[k] = j /\ r[k].val = z[j]
    BY <2>2 DEF RowsSay
  <2> HIDE DEF n
  <2>4. Eq(e)
    <3>1. \A k \in 0..n : e[k] = IF k = 0 THEN 1 ELSE e[k - 1] + r[k].run + 1
      <4>1. \A k \in 0..n : k = 0 \/ k \in 1..n
        BY <2>1
      <4> QED
        BY <2>3, <4>1
    <3> QED
      BY <2>3, <3>1
  <2> HIDE DEF Eq
  <2>5. Eq(h)
    BY <2>4
  <2> HIDE DEF h
  <2>6. \A k \in 0..n : h[k] = IF k = 0 THEN 1 ELSE h[k - 1] + r[k].run + 1
    BY <2>5, Zenon DEF Eq
  <2>7. \A k \in 0..n : h[k] = e[k]
    <3> DEFINE T == {k \in Nat : h[k] = e[k]}
    <3>1. 0 \in T
      <4>1. 0 \in 0..n
        BY <2>1
      <4> QED
        BY <2>3, <2>6, <4>1
    <3>2. ASSUME NEW k \in Nat, k < n /\ k \in T PROVE k + 1 \in T
      <4>1. k + 1 \in 0..n /\ k + 1 \in 1..n /\ k + 1 # 0 /\ (k + 1) - 1 = k
        BY <2>1, <3>2
      <4>2. h[k + 1] = h[(k + 1) - 1] + r[k + 1].run + 1
        BY <2>6, <4>1, Zenon
      <4>3. e[k + 1] = e[(k + 1) - 1] + r[k + 1].run + 1
        BY <2>3, <4>1, Zenon
      <4>4. h[(k + 1) - 1] = e[(k + 1) - 1]
        BY <3>2, <4>1
      <4> QED
        BY <4>2, <4>3, <4>4
    <3> HIDE DEF T
    <3>3. \A k \in 0..n : k \in T
      BY <2>1, <3>1, <3>2, InductionTo
    <3> QED
      BY <3>3 DEF T
  <2>8. \A k \in 1..n : h[k] = e[k]
    <3>1. \A k \in 1..n : k \in 0..n
      BY <2>1
    <3> QED
      BY <2>7, <3>1, Zenon
  <2>9. \A i \in 2..64 :
          IF z[i] = 0 THEN \A k \in DOMAIN r : h[k] # i
          ELSE \E k \in DOMAIN r : h[k] = i /\ r[k].val = z[i]
    <3>1. ASSUME NEW i \in 2..64, z[i] = 0 PROVE \A k \in DOMAIN r : h[k] # i
      <4>1. \A k \in 1..n : e[k] # i
        BY <2>3, <3>1
      <4> QED
        BY <2>1, <2>8, <4>1
    <3>2. ASSUME NEW i \in 2..64, z[i] # 0
          PROVE  \E k \in DOMAIN r : h[k] = i /\ r[k].val = z[i]
      <4>1. \E k \in 1..n : e[k] = i /\ r[k].val = z[i]
        BY <2>3, <3>2
      <4> QED
        BY <2>1, <2>8, <4>1
    <3> QED
      BY <3>1, <3>2
  <2> QED
    BY <2>9, Zenon DEF h, Eq, n, r, z
<1> QED
  BY <1>2, Zenon DEF Jpeg!RowsHoldBlocks

\* compressHuffman.c, decode.c and 3_ZigzagScan_RLE: every block that the decoder
\* writes is the block that was encoded, all of them are there once it has read a file
\* that the encoder has closed, and it refuses no such file but that of a single pair;
\* the rows of step 3 say what the AC values of each block are.
THEOREM DecodesWhatItEncodes == Spec => []RoundTrip
<1>1. (JpegRuns => JpegInv) => RoundTrip
  <2> SUFFICES ASSUME JpegRuns, JpegInv PROVE Jpeg!RoundTrip
    BY DEF RoundTrip
  <2>1. CASE prog = "pipe"
    <3>1. PipeInv /\ csv = <<>>
      BY <2>1 DEF JpegInv
    <3>2. image \in Seq(Block)
      BY <3>1 DEF PipeInv, Counted
    <3>3. csv \in Seq(Seq(Row)) /\ Len(csv) = 0
      BY <3>1
    <3>4. Jpeg!RowsHoldBlocks
      <4>1. Len(csv) <= Len(image) /\ 1..Len(csv) = {}
        BY <3>2, <3>3, LenProperties
      <4> QED
        BY <3>2, <3>3, <4>1, RowsHold
    <3>5. CASE pc \in {"bits", "done"}
      <4>1. PICK off : InStream(off) /\ Text(off)
        BY <3>1, <3>5, TextHolds
      <4>2. ReadTo(off, pos, cur, zz, out)
        BY <3>5, <4>1 DEF InStream
      <4>3. Jpeg!IsPrefix(out, image)
        <5>1. /\ out \in Seq(Block) /\ Len(out) <= bi /\ bi \in 0..Len(image)
              /\ \A b \in 1..Len(out) : out[b] = image[b]
          BY <4>1, <4>2 DEF ReadTo, Text
        <5>2. Len(out) <= Len(image)
          BY <3>2, <5>1, LenProperties
        <5> QED
          BY <3>2, <5>1, <5>2, PrefixFacts
      <4>4. ASSUME pc = "done", file.whole PROVE out = image
        <5>1. bi = Len(image) /\ ~Jpeg!More
          BY <3>1, <4>4 DEF PipeInv, Written, Decoder
        <5>2. Len(file.stream) = off[bi]
          BY <4>1, <4>4 DEF InStream
        <5> QED
          BY <4>1, <4>2, <5>1, <5>2, AllRead
      <4>5. pc # "failed"
        BY <3>5
      <4> QED
        BY <3>4, <4>3, <4>4, <4>5 DEF Jpeg!RoundTrip, Jpeg!DecodesWhatWasEncoded
    <3>6. CASE pc \notin {"bits", "done"}
      <4>1. out = <<>> /\ (pc = "failed" => ~file.whole \/ Len(pairs) = 1)
        BY <3>1, <3>6 DEF PipeInv, Decoder, Started
      <4>2. Jpeg!IsPrefix(out, image)
        BY <3>2, <4>1, NothingIsPrefix
      <4> QED
        BY <3>4, <3>6, <4>1, <4>2 DEF Jpeg!RoundTrip, Jpeg!DecodesWhatWasEncoded
    <3> QED
      BY <3>5, <3>6
  <2>2. CASE prog = "csv"
    <3>1. CsvInv
      BY <2>2 DEF JpegInv
    <3>2. /\ image \in Seq(Block) /\ csv \in Seq(Seq(Row)) /\ Len(csv) <= Len(image)
          /\ \A b \in 1..Len(csv) : csv[b] = Jpeg!runLengthEncode(Jpeg!zigzagScan(image[b]))
          /\ out = <<>> /\ pc # "failed"
      <4>1. image \in Seq(Block)
        BY <3>1 DEF CsvInv
      <4>2. Len(image) \in Nat
        BY <4>1, LenProperties
      <4> QED
        BY <3>1, <4>2 DEF CsvInv
    <3>3. Jpeg!RowsHoldBlocks
      BY <3>2, RowsHold
    <3>4. Jpeg!IsPrefix(out, image)
      BY <3>2, NothingIsPrefix
    <3> QED
      BY <2>2, <3>2, <3>3, <3>4 DEF Jpeg!RoundTrip, Jpeg!DecodesWhatWasEncoded
  <2>3. CASE prog = "base"
    <3>1. image = <<>> /\ out = <<>> /\ csv = <<>> /\ pc # "failed"
      BY <2>3 DEF JpegInv, BaseInv
    <3>2. image \in Seq(Block) /\ csv \in Seq(Seq(Row)) /\ Len(csv) = 0 /\ Len(image) = 0
      BY <3>1
    <3>3. Jpeg!RowsHoldBlocks
      <4>1. Len(csv) <= Len(image) /\ 1..Len(csv) = {}
        BY <3>2
      <4> QED
        BY <3>2, <4>1, RowsHold
    <3>4. Jpeg!IsPrefix(out, image)
      BY <3>1, <3>2, NothingIsPrefix
    <3> QED
      BY <2>3, <3>1, <3>3, <3>4 DEF Jpeg!RoundTrip, Jpeg!DecodesWhatWasEncoded
  <2> QED
    BY <2>1, <2>2, <2>3 DEF JpegRuns
<1> QED
  BY <1>1, JpegInvariance, PTL

\* compressHuffman.c, huffmanBase.c: no code is the beginning of another one, however
\* many symbols there are and however the frequencies of equal nodes are ordered.
THEOREM NoCodeBeginsAnother ==
  Spec => [](prog \in {"pipe", "base"} /\ pc \in {"book", "pass2", "done"}
               => \A i, j \in DOMAIN pairs :
                    i # j => ~Jpeg!IsPrefix(pairs[i].code, pairs[j].code))
<1>1. (JpegRuns => JpegInv)
        => (prog \in {"pipe", "base"} /\ pc \in {"book", "pass2", "done"}
              => \A i, j \in DOMAIN pairs :
                   i # j => ~Jpeg!IsPrefix(pairs[i].code, pairs[j].code))
  <2> SUFFICES ASSUME JpegRuns => JpegInv, prog \in {"pipe", "base"},
                      pc \in {"book", "pass2", "done"}
               PROVE  \A i, j \in DOMAIN pairs :
                        i # j => ~Jpeg!IsPrefix(pairs[i].code, pairs[j].code)
    OBVIOUS
  <2>1. pairs \in Seq(Pair) /\ PrefixFree(pairs)
    BY DEF JpegRuns, JpegInv, PipeInv, Counted, BaseInv
  <2>2. DOMAIN pairs = 1..Len(pairs)
    BY <2>1, LenProperties
  <2> QED
    BY <2>1, <2>2, Zenon DEF PrefixFree
<1> QED
  BY <1>1, JpegInvariance, PTL
=============================================================================
