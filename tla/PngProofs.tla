------------------------------ MODULE PngProofs ------------------------------
(***************************************************************************)
(* What is proved of the reader and the writer of image files: every line  *)
(* comes back from every filter, every frame from a file of encode, every  *)
(* picture from the file of another tool, and no frame from a damaged one. *)
(***************************************************************************)
EXTENDS Pictures, SequenceTheorems, WellFoundedInduction, TLAPS

-----------------------------------------------------------------------------
(* Arithmetic *)

(* Every non-empty set of numbers has a least one. *)
LEMMA LeastNatural ==
    ASSUME NEW S, S \subseteq Nat, S # {}
    PROVE  \E n \in S : \A m \in S : n <= m
  <1> DEFINE R == {p \in Nat \X Nat : p[1] < p[2]}
  <1>1. OpToRel(<, Nat) = R
    BY DEF OpToRel
  <1>2. IsWellFoundedOn(R, Nat)
    BY <1>1, NatLessThanWellFounded
  <1>3. PICK n \in S : \A m \in S : <<m, n>> \notin R
    <2> HIDE DEF R
    <2> QED
      BY <1>2, WFMin
  <1>4. \A m \in S : ~(m < n)
    <2>1. \A m, k \in Nat : m < k => <<m, k>> \in R
      OBVIOUS
    <2> HIDE DEF R
    <2> QED
      BY <1>3, <2>1
  <1> QED
    BY <1>4

(* A quotient and a remainder are the only ones. *)
LEMMA OneQuotient ==
    ASSUME NEW m \in Nat \ {0}, NEW a \in Int, NEW b \in Int,
           NEW r \in 0..m - 1, NEW s \in 0..m - 1, a * m + r = b * m + s
    PROVE  a = b /\ r = s
  <1>1. CASE a < b
    <2>1. (b - a) * m >= m
      BY <1>1
    <2>2. (b - a) * m = b * m - a * m
      OBVIOUS
    <2> QED
      BY <2>1, <2>2
  <1>2. CASE a > b
    <2>1. (a - b) * m >= m
      BY <1>2
    <2>2. (a - b) * m = a * m - b * m
      OBVIOUS
    <2> QED
      BY <2>1, <2>2
  <1> QED
    BY <1>1, <1>2

(* What \div and % are. *)
LEMMA Euclid ==
    ASSUME NEW m \in Nat \ {0}, NEW n \in Int
    PROVE  n = (n \div m) * m + (n % m) /\ n \div m \in Int /\ n % m \in 0..m - 1
  OBVIOUS

(* The quotient and the remainder of a sum that shows them. *)
LEMMA DivMod ==
    ASSUME NEW m \in Nat \ {0}, NEW q \in Int, NEW r \in 0..m - 1
    PROVE  (q * m + r) \div m = q /\ (q * m + r) % m = r
  <1> DEFINE n == q * m + r
  <1>1. n \in Int
    OBVIOUS
  <1>2. n = (n \div m) * m + (n % m) /\ n \div m \in Int /\ n % m \in 0..m - 1
    <2> HIDE DEF n
    <2> QED
      BY <1>1, Euclid
  <1> QED
    BY <1>2, OneQuotient

(* Place k of rows of L each is in row (k - 1) \div L, and the other way   *)
(* round.                                                                  *)
LEMMA RowAndColumn ==
    ASSUME NEW L \in Nat \ {0}, NEW n \in Nat, NEW k \in 1..n * L
    PROVE  /\ (k - 1) \div L \in 0..n - 1 /\ (k - 1) % L \in 0..L - 1
           /\ ((k - 1) \div L) * L + ((k - 1) % L) = k - 1
  <1> DEFINE q == (k - 1) \div L
             r == (k - 1) % L
  <1>1. k \in Int /\ k >= 1 /\ k <= n * L /\ n * L \in Int
    OBVIOUS
  <1>2. k - 1 = q * L + r /\ q \in Int /\ r \in 0..L - 1
    <2>1. \A m \in Int : m = (m \div L) * L + (m % L) /\ m \div L \in Int /\ m % L \in 0..L - 1
      BY Euclid
    <2>2. k - 1 \in Int
      OBVIOUS
    <2> QED
      BY <2>1, <2>2
  <1> HIDE DEF q, r
  <1>3. q >= 0
    <2>1. CASE q < 0
      <3>1. (-1 - q) * L >= 0
        BY <1>2, <2>1
      <3>2. (-1 - q) * L = -L - q * L
        BY <1>2
      <3> QED
        BY <1>1, <1>2, <3>1, <3>2
    <2> QED
      BY <1>2, <2>1
  <1>4. q <= n - 1
    <2>1. CASE q >= n
      <3>1. (q - n) * L >= 0
        BY <1>2, <2>1
      <3>2. (q - n) * L = q * L - n * L
        BY <1>2
      <3> QED
        BY <1>1, <1>2, <3>1, <3>2
    <2> QED
      BY <1>2, <2>1
  <1> QED
    BY <1>2, <1>3, <1>4 DEF q, r

(* Place i of row y of rows of L each. *)
LEMMA PlaceInRows ==
    ASSUME NEW L \in Nat \ {0}, NEW n \in Nat, NEW y \in 1..n, NEW i \in 1..L
    PROVE  /\ (y - 1) * L + i \in 1..n * L
           /\ ((y - 1) * L + i - 1) \div L = y - 1 /\ ((y - 1) * L + i - 1) % L = i - 1
  <1>1. (y - 1) * L >= 0 /\ (y - 1) * L + L <= n * L /\ (y - 1) * L \in Int /\ n * L \in Int
    <2>1. (n - y) * L >= 0 /\ (y - 1) * L >= 0
      OBVIOUS
    <2>2. (n - y) * L = n * L - y * L /\ (y - 1) * L = y * L - L
      OBVIOUS
    <2> QED
      BY <2>1, <2>2
  <1>2. y - 1 \in Int /\ i - 1 \in 0..L - 1
    OBVIOUS
  <1>3. ((y - 1) * L + (i - 1)) \div L = y - 1 /\ ((y - 1) * L + (i - 1)) % L = i - 1
    BY <1>2, DivMod
  <1>4. (y - 1) * L + i - 1 = (y - 1) * L + (i - 1)
    BY <1>1
  <1> QED
    BY <1>1, <1>3, <1>4

-----------------------------------------------------------------------------
(* Sequences put together *)

(* FlattenSeq is what its recursion says it is. *)
LEMMA FlattenIs ==
    ASSUME NEW n \in Nat \ {0}, NEW s, Len(s) = n,
           NEW f, \A i \in 1..n : f[i] = IF i = 1 THEN s[i] ELSE f[i - 1] \o s[i]
    PROVE  FlattenSeq(s) = f[n]
  <1> DEFINE Solves(g) == g = [i \in 1..n |-> IF i = 1 THEN s[i] ELSE g[i - 1] \o s[i]]
             g == CHOOSE g : Solves(g)
  <1>1. FlattenSeq(s) = g[n]
    BY DEF FlattenSeq
  <1>2. Solves(g)
    <2> DEFINE h == [i \in 1..n |-> f[i]]
    <2>1. Solves(h)
      <3>1. \A i \in 1..n : h[i] = IF i = 1 THEN s[i] ELSE h[i - 1] \o s[i]
        OBVIOUS
      <3>2. h = [i \in 1..n |-> h[i]]
        OBVIOUS
      <3> HIDE DEF h
      <3> QED
        BY <3>1, <3>2
    <2> HIDE DEF Solves, h
    <2> QED
      BY <2>1
  <1> HIDE DEF g
  <1>3. ASSUME NEW i \in 1..n, g[i] # f[i]
        PROVE  FALSE
    <2> DEFINE S == {j \in 1..n : g[j] # f[j]}
    <2>1. S \subseteq Nat /\ i \in S
      <3> HIDE DEF Solves
      <3> QED
        BY <1>3
    <2>2. PICK j \in S : \A k \in S : j <= k
      <3> HIDE DEF S
      <3> QED
        BY <2>1, LeastNatural
    <2>3. j \in 1..n /\ g[j] # f[j] /\ (j # 1 => j - 1 \in 1..n /\ g[j - 1] = f[j - 1])
      BY <2>2
    <2>4. g[j] = IF j = 1 THEN s[j] ELSE g[j - 1] \o s[j]
      BY <1>2, <2>3
    <2>5. f[j] = IF j = 1 THEN s[j] ELSE f[j - 1] \o s[j]
      BY <2>3
    <2> QED
      BY <2>3, <2>4, <2>5
  <1> QED
    BY <1>1, <1>3

(* Two sequences put together, place by place. *)
LEMMA Concatenation ==
    ASSUME NEW S, NEW p \in Nat, NEW q \in Nat, NEW a \in [1..p -> S], NEW b \in [1..q -> S]
    PROVE  /\ a \o b \in [1..p + q -> S]
           /\ \A k \in 1..p : (a \o b)[k] = a[k]
           /\ \A k \in 1..q : (a \o b)[p + k] = b[k]
           /\ Len(a) = p /\ a \in Seq(S)
  <1>1. a \in Seq(S) /\ b \in Seq(S) /\ Len(a) = p /\ Len(b) = q
    BY SeqDef, LenProperties
  <1>2. /\ a \o b \in Seq(S) /\ Len(a \o b) = p + q
        /\ \A i \in 1..p + q : (a \o b)[i] = IF i <= p THEN a[i] ELSE b[i - p]
    BY <1>1, ConcatProperties
  <1>3. a \o b \in [1..p + q -> S]
    BY <1>2, LenProperties
  <1>4. \A k \in 1..p : (a \o b)[k] = a[k]
    BY <1>1, <1>2
  <1>5. \A k \in 1..q : (a \o b)[p + k] = b[k]
    <2> SUFFICES ASSUME NEW k \in 1..q
                 PROVE  (a \o b)[p + k] = b[k]
      OBVIOUS
    <2>1. p + k \in 1..p + q /\ ~(p + k <= p) /\ (p + k) - p = k
      OBVIOUS
    <2> QED
      BY <1>1, <1>2, <2>1
  <1> QED
    BY <1>1, <1>3, <1>4, <1>5

(* Rows of L each, put together. *)
InARow(rows, n, L) == [k \in 1..n * L |-> rows[((k - 1) \div L) + 1][((k - 1) % L) + 1]]

(* Rows of one length put together hold value i of row y in its place.     *)
LEMMA FlattenRows ==
    ASSUME NEW S, NEW n \in Nat, NEW L \in Nat \ {0}, NEW rows \in [1..n -> [1..L -> S]]
    PROVE  FlattenSeq(rows) = InARow(rows, n, L)
  <1> SUFFICES FlattenSeq(rows) = [k \in 1..n * L |-> rows[((k - 1) \div L) + 1][((k - 1) % L) + 1]]
    BY DEF InARow
  <1> DEFINE E(k) == rows[((k - 1) \div L) + 1][((k - 1) % L) + 1]
             f == [i \in 1..n |-> [k \in 1..i * L |-> E(k)]]
  <1>1. Len(rows) = n /\ rows \in Seq([1..L -> S])
    BY SeqDef, LenProperties
  <1>2. CASE n = 0
    <2>1. FlattenSeq(rows) = rows
      BY <1>1, <1>2 DEF FlattenSeq
    <2>2. rows = <<>>
      BY <1>1, <1>2, EmptySeq
    <2>3. 1..n * L = {}
      BY <1>2
    <2> QED
      BY <2>1, <2>2, <2>3
  <1>3. CASE n \in Nat \ {0}
    <2>1. ASSUME NEW i \in 1..n
          PROVE  f[i] = IF i = 1 THEN rows[i] ELSE f[i - 1] \o rows[i]
      <3> DEFINE base == (i - 1) * L
      <3>1. base \in Nat /\ i * L = base + L /\ rows[i] \in [1..L -> S]
        <4>1. (i - 1) * L >= 0 /\ (i - 1) * L = i * L - L
          OBVIOUS
        <4> QED
          BY <4>1
      <3>2. \A j \in 1..L : E(base + j) = rows[i][j]
        <4> SUFFICES ASSUME NEW j \in 1..L
                     PROVE  E(base + j) = rows[i][j]
          OBVIOUS
        <4>1. (base + j - 1) \div L = i - 1 /\ (base + j - 1) % L = j - 1
          BY PlaceInRows
        <4>2. (i - 1) + 1 = i /\ (j - 1) + 1 = j
          OBVIOUS
        <4>3. E(base + j) = rows[((base + j - 1) \div L) + 1][((base + j - 1) % L) + 1]
          OBVIOUS
        <4> HIDE DEF base, E
        <4> QED
          BY <4>1, <4>2, <4>3
      <3>3. \A k \in 1..base : E(k) \in S
        <4> SUFFICES ASSUME NEW k \in 1..base
                     PROVE  E(k) \in S
          OBVIOUS
        <4>1. i - 1 \in Nat
          OBVIOUS
        <4>2. (k - 1) \div L \in 0..(i - 1) - 1 /\ (k - 1) % L \in 0..L - 1
          BY <4>1, RowAndColumn
        <4>3. ((k - 1) \div L) + 1 \in 1..n /\ ((k - 1) % L) + 1 \in 1..L
          BY <4>2
        <4> QED
          BY <4>3
      <3> HIDE DEF base
      <3>4. f[i] = [k \in 1..base + L |-> E(k)]
        BY <3>1
      <3> HIDE DEF E
      <3>5. CASE i = 1
        <4>1. base = 0
          BY <3>5 DEF base
        <4>2. \A k \in 1..L : E(k) = rows[i][k]
          BY <3>2, <4>1
        <4> QED
          BY <3>1, <3>4, <3>5, <4>1, <4>2
      <3>6. CASE i # 1
        <4>1. i - 1 \in 1..n /\ f[i - 1] = [k \in 1..base |-> E(k)]
          BY <3>6 DEF base
        <4>2. f[i - 1] \in [1..base -> S]
          BY <3>3, <4>1
        <4> HIDE DEF f
        <4>3. PICK a, b : a = f[i - 1] /\ b = rows[i]
          OBVIOUS
        <4>4. a \in [1..base -> S] /\ b \in [1..L -> S] /\ base \in Nat /\ L \in Nat
          BY <3>1, <4>2, <4>3
        <4>5. /\ a \o b \in [1..base + L -> S]
              /\ \A k \in 1..base : (a \o b)[k] = a[k]
              /\ \A k \in 1..L : (a \o b)[base + k] = b[k]
          <5>1. a \o b \in [1..base + L -> S]
            BY <4>4, Concatenation
          <5>2. \A k \in 1..base : (a \o b)[k] = a[k]
            BY <4>4, Concatenation
          <5>3. \A k \in 1..L : (a \o b)[base + k] = b[k]
            BY <4>4, Concatenation
          <5> QED
            BY <5>1, <5>2, <5>3
        <4>6. ASSUME NEW k \in 1..base + L
              PROVE  E(k) = (a \o b)[k]
          <5>1. CASE k <= base
            <6>1. k \in 1..base /\ (a \o b)[k] = a[k]
              BY <4>4, <4>5, <5>1
            <6> QED
              BY <4>1, <4>3, <6>1
          <5>2. CASE ~(k <= base)
            <6>1. k - base \in 1..L /\ base + (k - base) = k /\ (a \o b)[base + (k - base)] = b[k - base]
              BY <4>4, <4>5, <5>2
            <6> QED
              BY <3>2, <4>3, <6>1
          <5> QED
            BY <5>1, <5>2
        <4>7. f[i] = a \o b
          <5>1. a \o b = [k \in 1..base + L |-> (a \o b)[k]]
            BY <4>5
          <5> QED
            BY <3>4, <4>6, <5>1
        <4> QED
          BY <3>6, <4>3, <4>7
      <3> QED
        BY <3>5, <3>6
    <2>2. f[n] = [k \in 1..n * L |-> E(k)]
      BY <1>3
    <2> HIDE DEF f
    <2> QED
      BY <1>1, <1>3, <2>1, <2>2, FlattenIs
  <1> QED
    BY <1>2, <1>3

(* Sequences of which two that follow each other may not be empty. *)
ArePieces(s, n, at, a, b) ==
    /\ Len(s) = n
    /\ \A i \in 1..n : s[i] = IF i = at THEN a ELSE IF i = at + 1 THEN b ELSE <<>>

(* Two neighbouring pieces among empty ones are put together.              *)
LEMMA FlattenPieces ==
    ASSUME NEW S, NEW n \in Nat, NEW at \in 1..n - 1, NEW s,
           NEW a \in Seq(S), NEW b \in Seq(S), ArePieces(s, n, at, a, b)
    PROVE  FlattenSeq(s) = a \o b
  <1>0. /\ Len(s) = n
        /\ \A i \in 1..n : s[i] = IF i = at THEN a ELSE IF i = at + 1 THEN b ELSE <<>>
    BY DEF ArePieces
  <1> DEFINE f == [i \in 1..n |-> IF i < at THEN <<>> ELSE IF i = at THEN a ELSE a \o b]
  <1>1. /\ a \o b \in Seq(S) /\ (a \o b) \o <<>> = a \o b
        /\ <<>> \o a = a /\ <<>> \o <<>> = <<>> /\ <<>> \in Seq(S)
    BY ConcatProperties, ConcatEmptySeq, EmptySeq
  <1>2. ASSUME NEW i \in 1..n
        PROVE  f[i] = IF i = 1 THEN s[i] ELSE f[i - 1] \o s[i]
    <2>1. CASE i = 1
      BY <1>0, <2>1
    <2>2. CASE i # 1
      <3>1. i - 1 \in 1..n
        BY <2>2
      <3>2. CASE i < at
        <4>1. f[i] = <<>> /\ f[i - 1] = <<>> /\ s[i] = <<>>
          BY <1>0, <3>1, <3>2
        <4> QED
          BY <1>1, <2>2, <4>1
      <3>3. CASE i = at
        <4>1. f[i] = a /\ f[i - 1] = <<>> /\ s[i] = a
          BY <1>0, <3>1, <3>3
        <4> QED
          BY <1>1, <2>2, <4>1
      <3>4. CASE i = at + 1
        <4>1. f[i] = a \o b /\ f[i - 1] = a /\ s[i] = b
          BY <1>0, <3>1, <3>4
        <4> QED
          BY <2>2, <4>1
      <3>5. CASE i > at + 1
        <4>1. f[i] = a \o b /\ f[i - 1] = a \o b /\ s[i] = <<>>
          BY <1>0, <3>1, <3>5
        <4> QED
          BY <1>1, <2>2, <4>1
      <3> QED
        BY <3>2, <3>3, <3>4, <3>5
    <2> QED
      BY <2>1, <2>2
  <1>3. n \in Nat \ {0} /\ f[n] = a \o b
    OBVIOUS
  <1> HIDE DEF f
  <1>4. PICK g : g = f
    OBVIOUS
  <1>5. \A i \in 1..n : g[i] = IF i = 1 THEN s[i] ELSE g[i - 1] \o s[i]
    BY <1>2, <1>4
  <1>6. FlattenSeq(s) = g[n]
    BY <1>0, <1>3, <1>5, FlattenIs
  <1> QED
    BY <1>3, <1>4, <1>6

-----------------------------------------------------------------------------
(* Filters *)

(* The bound of a byte is given back. *)
LEMMA ByteBack ==
    ASSUME NEW x \in 0..255, NEW g \in Int
    PROVE  Byte(Byte(x - g) + g) = x
  <1> DEFINE q == (x - g) \div 256
             r == (x - g) % 256
  <1>1. \A m \in Int : m = (m \div 256) * 256 + (m % 256) /\ m \div 256 \in Int /\ m % 256 \in 0..255
    BY Euclid
  <1>2. x - g = q * 256 + r /\ q \in Int /\ r \in 0..255
    <2>1. x - g \in Int
      OBVIOUS
    <2> QED
      BY <1>1, <2>1
  <1> HIDE DEF q, r
  <1>3. r + g = (-q) * 256 + x
    BY <1>2
  <1>4. -q \in Int /\ 256 \in Nat \ {0} /\ x \in 0..256 - 1
    BY <1>2
  <1>5. ((-q) * 256 + x) % 256 = x
    BY <1>4, DivMod
  <1> QED
    BY <1>3, <1>5 DEF Byte, r

(* A byte is a byte. *)
LEMMA ByteOfAByte == \A n \in Int : Byte(n) \in 0..255
  BY DEF Byte

(* paeth compares distances as the specification of the format says. *)
LEMMA PaethIsNearest ==
    ASSUME NEW a \in Int, NEW b \in Int, NEW c \in Int
    PROVE  paeth(a, b, c) = Nearest(a + b - c, a, b, c) /\ paeth(a, b, c) \in {a, b, c}
  <1> DEFINE p == a + b - c
             P(x) == /\ \A z \in {a, b, c} : Distance(p, x) <= Distance(p, z)
                     /\ x = a \/ Distance(p, a) > Distance(p, x)
                     /\ x \in {a, b} \/ Distance(p, b) > Distance(p, x)
  <1>1. p \in Int /\ \A z \in {a, b, c} : Distance(p, z) \in Int
    BY DEF Distance
  <1>2. paeth(a, b, c) = IF Distance(p, a) <= Distance(p, b) /\ Distance(p, a) <= Distance(p, c)
                         THEN a ELSE IF Distance(p, b) <= Distance(p, c) THEN b ELSE c
    BY DEF paeth
  <1> HIDE DEF p
  <1>3. paeth(a, b, c) \in {a, b, c} /\ P(paeth(a, b, c))
    BY <1>1, <1>2
  <1>4. \A x, y \in {a, b, c} : P(x) /\ P(y) => x = y
    BY <1>1
  <1>5. Nearest(p, a, b, c) = CHOOSE x \in {a, b, c} : P(x)
    BY DEF Nearest
  <1> HIDE DEF P
  <1>6. paeth(a, b, c) = Nearest(p, a, b, c)
    BY <1>3, <1>4, <1>5
  <1> QED
    BY <1>3, <1>6 DEF p

(* What a filter takes off a byte, from the bytes around it. *)
Guess(type, left, up, corner) ==
    CASE type = 0 -> 0
      [] type = 1 -> left
      [] type = 2 -> up
      [] type = 3 -> (left + up) \div 2
      [] type = 4 -> paeth(left, up, corner)

LeftOf(line, i, bpp) == IF i > bpp THEN line[i - bpp] ELSE 0

(* Whatever the filter, it takes a number off. *)
LEMMA GuessIsANumber ==
    ASSUME NEW type \in 0..4, NEW a \in 0..255, NEW b \in 0..255, NEW c \in 0..255
    PROVE  Guess(type, a, b, c) \in Int
  <1>1. paeth(a, b, c) \in Int
    BY PaethIsNearest
  <1>2. (a + b) \div 2 \in Int
    OBVIOUS
  <1> QED
    BY <1>1, <1>2 DEF Guess

(* UnfilteredLine is what its recursion says it is. *)
LEMMA UnfilteredIs ==
    ASSUME NEW n \in Nat, NEW written, Len(written) = n, NEW above, NEW bpp \in Nat \ {0},
           NEW type, NEW line, line = [i \in 1..n |-> line[i]],
           \A i \in 1..n :
              line[i] = Byte(written[i] + Guess(type, LeftOf(line, i, bpp), above[i],
                                                LeftOf(above, i, bpp)))
    PROVE  line = UnfilteredLine(type, written, above, bpp)
  <1> DEFINE Next1(g, i) ==
                LET left == IF i > bpp THEN g[i - bpp] ELSE 0
                    upper_left == IF i > bpp THEN above[i - bpp] ELSE 0 IN
                Byte(written[i] +
                    (CASE type = 0 -> 0
                       [] type = 1 -> left
                       [] type = 2 -> above[i]
                       [] type = 3 -> (left + above[i]) \div 2
                       [] type = 4 -> paeth(left, above[i], upper_left)))
             Solves(g) == g = [i \in 1..n |-> Next1(g, i)]
             g == CHOOSE h : Solves(h)
  <1>1. UnfilteredLine(type, written, above, bpp) = [i \in 1..n |-> g[i]]
    BY DEF UnfilteredLine
  <1>2. \A h, i : Next1(h, i) = Byte(written[i] + Guess(type, LeftOf(h, i, bpp), above[i],
                                                        LeftOf(above, i, bpp)))
    BY DEF Guess, LeftOf
  <1>3. \A i \in 1..n : line[i] = Next1(line, i)
    BY <1>2
  <1>4. \A h, k, i : (i > bpp => h[i - bpp] = k[i - bpp]) => Next1(h, i) = Next1(k, i)
    OBVIOUS
  <1> HIDE DEF Next1
  <1>5. Solves(line)
    BY <1>3
  <1>6. Solves(g)
    <2> HIDE DEF Solves
    <2> QED
      BY <1>5
  <1> HIDE DEF g
  <1>7. ASSUME NEW i \in 1..n, g[i] # line[i]
        PROVE  FALSE
    <2> DEFINE S == {j \in 1..n : g[j] # line[j]}
    <2>1. S \subseteq Nat /\ i \in S
      <3> HIDE DEF Solves
      <3> QED
        BY <1>7
    <2>2. PICK j \in S : \A k \in S : j <= k
      <3> HIDE DEF S
      <3> QED
        BY <2>1, LeastNatural
    <2>3. j \in 1..n /\ g[j] # line[j] /\ (j > bpp => g[j - bpp] = line[j - bpp])
      BY <2>2
    <2>4. g[j] = Next1(g, j) /\ line[j] = Next1(line, j)
      BY <1>3, <1>6, <2>3
    <2> QED
      BY <1>4, <2>3, <2>4
  <1> QED
    BY <1>1, <1>7

(* A line that was filtered comes back, by whichever of the filters. *)
LEMMA LineComesBack ==
    ASSUME NEW type \in 0..4, NEW bpp \in Nat \ {0}, NEW line \in Seq(0..255),
           NEW above \in Seq(0..255), Len(above) = Len(line)
    PROVE  /\ FilteredLine(type, line, above, bpp) \in [1..Len(line) -> 0..255]
           /\ line = UnfilteredLine(type, FilteredLine(type, line, above, bpp), above, bpp)
  <1> DEFINE n == Len(line)
             G(i) == Guess(type, LeftOf(line, i, bpp), above[i], LeftOf(above, i, bpp))
             written == FilteredLine(type, line, above, bpp)
  <1>1. /\ n \in Nat /\ line \in [1..n -> 0..255] /\ above \in [1..n -> 0..255]
        /\ line = [i \in 1..n |-> line[i]] /\ Len(line) = n
    BY LenProperties
  <1> HIDE DEF n
  <1>2. ASSUME NEW i \in 1..n
        PROVE  /\ LeftOf(line, i, bpp) \in 0..255 /\ above[i] \in 0..255
               /\ LeftOf(above, i, bpp) \in 0..255 /\ G(i) \in Int
    <2>1. LeftOf(line, i, bpp) \in 0..255 /\ LeftOf(above, i, bpp) \in 0..255
      <3>1. i > bpp => i - bpp \in 1..n
        BY <1>1
      <3> QED
        BY <1>1, <3>1 DEF LeftOf
    <2>2. above[i] \in 0..255
      BY <1>1
    <2> QED
      BY <2>1, <2>2, GuessIsANumber
  <1>3. ASSUME NEW i \in 1..n
        PROVE  written[i] = Byte(line[i] - G(i))
    <2> DEFINE left == IF i > bpp THEN line[i - bpp] ELSE 0
               corner == IF i > bpp THEN above[i - bpp] ELSE 0
               guess == CASE type = 0 -> 0
                          [] type = 1 -> left
                          [] type = 2 -> above[i]
                          [] type = 3 -> (left + above[i]) \div 2
                          [] type = 4 -> Nearest(left + above[i] - corner, left, above[i], corner)
    <2>1. written[i] = Byte(line[i] - guess)
      BY <1>1 DEF FilteredLine
    <2>2. left = LeftOf(line, i, bpp) /\ corner = LeftOf(above, i, bpp)
      BY DEF LeftOf
    <2> HIDE DEF left, corner
    <2>3. left \in Int /\ corner \in Int /\ above[i] \in Int
      <3>1. \A x \in 0..255 : x \in Int
        OBVIOUS
      <3>2. left \in 0..255 /\ corner \in 0..255 /\ above[i] \in 0..255
        <4> HIDE DEF G
        <4> QED
          BY <1>2, <2>2
      <3> QED
        BY <3>1, <3>2
    <2>4. paeth(left, above[i], corner) = Nearest(left + above[i] - corner, left, above[i], corner)
      BY <2>3, PaethIsNearest
    <2>5. guess = Guess(type, left, above[i], corner)
      BY <2>4 DEF Guess
    <2> QED
      BY <2>1, <2>2, <2>5
  <1>4. written = [i \in 1..n |-> written[i]]
    BY <1>1 DEF FilteredLine
  <1> HIDE DEF G, written
  <1>5. ASSUME NEW i \in 1..n
        PROVE  written[i] \in 0..255 /\ line[i] = Byte(written[i] + G(i))
    <2>1. PICK x, g : x = line[i] /\ g = G(i)
      OBVIOUS
    <2>2. x \in 0..255 /\ g \in Int
      <3>1. line[i] \in 0..255
        BY <1>1
      <3> QED
        BY <1>2, <2>1, <3>1
    <2>3. Byte(x - g) \in 0..255 /\ Byte(Byte(x - g) + g) = x
      <3>1. x - g \in Int
        BY <2>2
      <3>2. Byte(x - g) \in 0..255
        BY <3>1, ByteOfAByte
      <3> QED
        BY <2>2, <3>2, ByteBack
    <2>4. written[i] = Byte(x - g)
      BY <1>3, <2>1
    <2> QED
      BY <2>1, <2>3, <2>4
  <1>6. written \in [1..n -> 0..255]
    BY <1>4, <1>5
  <1>7. Len(written) = n
    BY <1>1, <1>6, SeqDef, LenProperties
  <1>8. \A i \in 1..n :
           line[i] = Byte(written[i] + Guess(type, LeftOf(line, i, bpp), above[i],
                                             LeftOf(above, i, bpp)))
    BY <1>5 DEF G
  <1>9. line = UnfilteredLine(type, written, above, bpp)
    BY <1>1, <1>7, <1>8, UnfilteredIs
  <1> QED
    BY <1>6, <1>9 DEF written, n

(* The raw data have the line in them, with its type before it. *)
Holds(raw, base, s, line, above, bpp) ==
    /\ s = SubSeq(raw, base + 1, base + Len(line))
    /\ raw[base] \in 0..4
    /\ \A i \in 1..Len(line) : raw[base + i] = FilteredLine(raw[base], line, above, bpp)[i]

(* It comes back from the raw data too, where its type and its bytes are. *)
LEMMA LineOfRaw ==
    ASSUME NEW bpp \in Nat \ {0}, NEW line \in Seq(0..255),
           NEW above \in Seq(0..255), Len(above) = Len(line),
           NEW raw, NEW base \in Int, NEW s, Holds(raw, base, s, line, above, bpp)
    PROVE  line = UnfilteredLine(raw[base], s, above, bpp)
  <1> DEFINE type == raw[base]
             n == Len(line)
             stored == FilteredLine(type, line, above, bpp)
  <1>1. stored \in [1..n -> 0..255] /\ line = UnfilteredLine(type, stored, above, bpp)
        /\ n \in Nat
    <2>1. n \in Nat
      BY LenProperties
    <2>2. type \in 0..4
      BY DEF Holds
    <2> HIDE DEF type
    <2>3. stored \in [1..n -> 0..255]
      BY <2>2, LineComesBack
    <2>4. line = UnfilteredLine(type, stored, above, bpp)
      BY <2>2, LineComesBack
    <2> QED
      BY <2>1, <2>3, <2>4
  <1>2. \A i \in 1..n : raw[base + i] = stored[i]
    BY DEF Holds
  <1> HIDE DEF stored, n
  <1>3. \A i \in base + 1..base + n : raw[i] \in 0..255
    <2> SUFFICES ASSUME NEW i \in base + 1..base + n
                 PROVE  raw[i] \in 0..255
      OBVIOUS
    <2>1. i - base \in 1..n /\ base + (i - base) = i
      BY <1>1
    <2>2. raw[base + (i - base)] = stored[i - base]
      BY <1>2, <2>1
    <2> QED
      BY <1>1, <2>1, <2>2
  <1>4. s \in Seq(0..255) /\ Len(s) = n /\ \A i \in 1..n : s[i] = raw[base + i]
    <2>1. PICK m, k : m = base + 1 /\ k = base + n
      OBVIOUS
    <2>2. m \in Int /\ k \in Int /\ \A i \in m..k : raw[i] \in 0..255
      BY <1>1, <1>3, <2>1
    <2>3. /\ SubSeq(raw, m, k) \in Seq(0..255)
          /\ Len(SubSeq(raw, m, k)) = IF m <= k THEN k - m + 1 ELSE 0
          /\ \A i \in 1..k - m + 1 : SubSeq(raw, m, k)[i] = raw[m + i - 1]
      BY <2>2, SubSeqProperties
    <2>4. k - m + 1 = n /\ (m <= k <=> n >= 1) /\ \A i \in 1..n : m + i - 1 = base + i
      BY <1>1, <2>1
    <2>5. s = SubSeq(raw, m, k)
      BY <2>1 DEF n, Holds
    <2>6. Len(s) = n
      BY <1>1, <2>3, <2>4, <2>5
    <2> QED
      BY <2>3, <2>4, <2>5, <2>6
  <1>5. s \in [1..n -> 0..255]
    BY <1>4, LenProperties
  <1>6. \A i \in 1..n : s[i] = stored[i]
    BY <1>2, <1>4
  <1>7. s = stored
    BY ONLY <1>1, <1>5, <1>6
  <1> QED
    BY <1>1, <1>7 DEF n

(* The line over line y, black over the first. *)
Above(lines, y, stride) == IF y = 1 THEN [i \in 1..stride |-> 0] ELSE lines[y - 1]

(* The raw data have every line in them, filtered by the type before it.   *)
HoldsLines(raw, lines, types, height, stride, bpp) ==
    /\ Len(raw) >= height * (stride + 1)
    /\ \A y \in 1..height :
          /\ raw[(y - 1) * (stride + 1) + 1] = types[y]
          /\ \A i \in 1..stride :
                raw[(y - 1) * (stride + 1) + 1 + i]
                    = FilteredLine(types[y], lines[y], Above(lines, y, stride), bpp)[i]

(* So many lines of so many bytes, each with the type of its filter.       *)
AreLines(lines, types, height, stride) ==
    /\ lines \in [1..height -> [1..stride -> 0..255]]
    /\ types \in [1..height -> 0..4]

(* Raw data that hold such lines unfilter to them.                         *)
THEOREM LinesComeBack ==
    ASSUME NEW h \in Nat, NEW stride \in Nat, NEW bpp \in Nat \ {0},
           NEW types, NEW lines, AreLines(lines, types, h, stride),
           NEW raw, HoldsLines(raw, lines, types, h, stride, bpp)
    PROVE  Unfilters(raw, h, stride) /\ Unfilter(raw, h, stride, bpp) = lines
  <1>0. types \in [1..h -> 0..4] /\ lines \in [1..h -> [1..stride -> 0..255]]
    BY DEF AreLines
  <1>1. Unfilters(raw, h, stride)
    BY <1>0 DEF HoldsLines, Unfilters, TypeOfLine
  <1> DEFINE zeros == [i \in 1..stride |-> 0]
             Base(y) == (y - 1) * (stride + 1) + 1
             Step(g, y) ==
                IF y = 0 THEN zeros
                ELSE LET base == (y - 1) * (stride + 1) + 1 IN
                     UnfilteredLine(raw[base], SubSeq(raw, base + 1, base + stride), g[y - 1], bpp)
             Solves(g) == g = [y \in 0..h |-> Step(g, y)]
             g == CHOOSE k : Solves(k)
             f == [y \in 0..h |-> IF y = 0 THEN zeros ELSE lines[y]]
  <1>2. Unfilter(raw, h, stride, bpp) = [y \in 1..h |-> g[y]]
    BY DEF Unfilter
  <1>3. ASSUME NEW y \in 0..h
        PROVE  f[y] = Step(f, y)
    <2>1. CASE y = 0
      BY <2>1
    <2>2. CASE y # 0
      <3> DEFINE base == (y - 1) * (stride + 1) + 1
      <3>1. y \in 1..h /\ y - 1 \in 0..h /\ base \in Int
        BY <2>2
      <3>2. PICK over : over = Above(lines, y, stride)
        OBVIOUS
      <3>3. over \in [1..stride -> 0..255] /\ f[y - 1] = over
        <4>1. CASE y = 1
          BY <3>1, <3>2, <4>1 DEF Above
        <4>2. CASE y # 1
          <5>1. y - 1 \in 1..h /\ y - 1 \in 0..h /\ y - 1 # 0
            BY <3>1, <4>2
          <5>2. over = lines[y - 1]
            BY <3>2, <4>2 DEF Above
          <5>3. lines[y - 1] \in [1..stride -> 0..255]
            BY <1>0, <5>1
          <5>4. f[y - 1] = lines[y - 1]
            BY <5>1
          <5> QED
            BY <5>2, <5>3, <5>4
        <4> QED
          BY <4>1, <4>2
      <3>4. PICK line : line = lines[y]
        OBVIOUS
      <3>5. line \in [1..stride -> 0..255] /\ f[y] = line /\ types[y] \in 0..4
        <4>1. f[y] = lines[y]
          BY <2>2
        <4> HIDE DEF f
        <4> QED
          BY <1>0, <3>1, <3>4, <4>1
      <3>6. /\ raw[base] = types[y]
            /\ \A i \in 1..stride : raw[base + i] = FilteredLine(types[y], line, over, bpp)[i]
        BY <3>1, <3>2, <3>4 DEF HoldsLines
      <3>7. Step(f, y) = UnfilteredLine(raw[base], SubSeq(raw, base + 1, base + stride), f[y - 1], bpp)
        BY <2>2
      <3> HIDE DEF base, f, Step
      <3>8. line = UnfilteredLine(raw[base], SubSeq(raw, base + 1, base + stride), over, bpp)
        <4>1. PICK t, k : t = types[y] /\ k = base
          OBVIOUS
        <4>2. t \in 0..4 /\ k \in Int /\ raw[k] = t
              /\ \A i \in 1..stride : raw[k + i] = FilteredLine(t, line, over, bpp)[i]
          BY <3>1, <3>5, <3>6, <4>1
        <4>3. /\ line \in Seq(0..255) /\ over \in Seq(0..255)
              /\ Len(line) = stride /\ Len(over) = stride
          BY ONLY stride \in Nat, <3>3, <3>5, SeqDef, LenProperties
        <4> DEFINE s == SubSeq(raw, k + 1, k + Len(line))
        <4>4. line = UnfilteredLine(raw[k], s, over, bpp)
          <5>1. \A i \in 1..Len(line) : raw[k + i] = FilteredLine(raw[k], line, over, bpp)[i]
            BY <4>2, <4>3
          <5>2. raw[k] \in 0..4 /\ k \in Int
            BY <4>2
          <5>3. PICK u : u = s
            OBVIOUS
          <5>4. line = UnfilteredLine(raw[k], u, over, bpp)
            <6>1. Holds(raw, k, u, line, over, bpp)
              BY ONLY <5>1, <5>2, <5>3 DEF Holds
            <6> QED
              BY ONLY <4>3, <5>2, <6>1, bpp \in Nat \ {0}, LineOfRaw
          <5> QED
            BY <5>3, <5>4
        <4> QED
          BY <4>1, <4>3, <4>4
      <3> QED
        BY <3>3, <3>5, <3>7, <3>8
    <2> QED
      BY <2>1, <2>2
  <1>4. \A k, m, y : (y # 0 => k[y - 1] = m[y - 1]) => Step(k, y) = Step(m, y)
    OBVIOUS
  <1>5. f = [y \in 0..h |-> f[y]]
    OBVIOUS
  <1>11. \A y \in 1..h : f[y] = lines[y]
    OBVIOUS
  <1> HIDE DEF Step, f
  <1>6. Solves(f)
    BY <1>3, <1>5
  <1>7. Solves(g)
    <2> HIDE DEF Solves
    <2> QED
      BY <1>6
  <1> HIDE DEF g
  <1>8. ASSUME NEW y \in 0..h, g[y] # f[y]
        PROVE  FALSE
    <2> DEFINE S == {j \in 0..h : g[j] # f[j]}
    <2>1. S \subseteq Nat /\ y \in S
      <3> HIDE DEF Solves
      <3> QED
        BY <1>8
    <2>2. PICK j \in S : \A k \in S : j <= k
      <3> HIDE DEF S
      <3> QED
        BY <2>1, LeastNatural
    <2>3. j \in 0..h /\ g[j] # f[j] /\ (j # 0 => g[j - 1] = f[j - 1])
      BY <2>2
    <2>4. g[j] = Step(g, j) /\ f[j] = Step(f, j)
      BY <1>3, <1>7, <2>3
    <2> QED
      BY <1>4, <2>3, <2>4
  <1>9. \A y \in 1..h : g[y] = lines[y]
    <2>1. \A y \in 0..h : g[y] = f[y]
      BY <1>8
    <2>2. \A y \in 1..h : y \in 0..h
      OBVIOUS
    <2> QED
      BY <1>11, <2>1, <2>2
  <1>10. lines = [y \in 1..h |-> lines[y]]
    BY <1>0
  <1> QED
    BY <1>1, <1>2, <1>9, <1>10

-----------------------------------------------------------------------------
(* A frame there and back *)

HeaderOf(frame) ==
    [width |-> frame.width, height |-> frame.height, depth |-> 8, colour |-> RGB,
     compression |-> 0, filter_method |-> 0, interlace |-> 0]

DataOf(frame) ==
    [i \in 1..frame.height * (frame.width * 3 + 1) |->
        LET y == (i - 1) \div (frame.width * 3 + 1)
            k == (i - 1) % (frame.width * 3 + 1) IN
        IF k = 0 THEN 0 ELSE frame.data[y * (frame.width * 3) + k]]

RowsOf(frame) ==
    [y \in 1..frame.height |->
        [i \in 1..frame.width * 3 |-> frame.data[(y - 1) * (frame.width * 3) + i]]]

(* encode writes a header, the data and an end. *)
LEMMA EncodeIs ==
    ASSUME NEW frame
    PROVE  encode(frame) = [signed |-> TRUE,
                            chunks |-> <<Chunk("IHDR", HeaderOf(frame)),
                                         Chunk("IDAT", [raw |-> DataOf(frame), ends |-> TRUE]),
                                         Chunk("IEND", <<>>)>>]
  BY DEF encode, HeaderOf, DataOf

(* The filter that encode uses leaves a line as it is. *)
LEMMA UnfilteredByNone ==
    ASSUME NEW line \in Seq(0..255), NEW above, NEW bpp, NEW i \in 1..Len(line)
    PROVE  FilteredLine(0, line, above, bpp)[i] = line[i]
  <1>1. FilteredLine(0, line, above, bpp)[i] = Byte(line[i] - 0)
    BY DEF FilteredLine
  <1>2. line[i] \in 0..255
    BY ElementOfSeq
  <1>3. \A x \in 0..255 : (x - 0) % 256 = x
    OBVIOUS
  <1> QED
    BY <1>1, <1>2, <1>3 DEF Byte

(* The lines of a frame are lines of bytes. *)
LEMMA RowsAreLines ==
    ASSUME NEW frame, IsFrame(frame)
    PROVE  /\ RowsOf(frame) \in [1..frame.height -> [1..frame.width * 3 -> 0..255]]
           /\ \A y \in 1..frame.height, i \in 1..frame.width * 3 :
                 RowsOf(frame)[y][i] = frame.data[(y - 1) * (frame.width * 3) + i]
  <1>1. PICK w, h, data : w = frame.width /\ h = frame.height /\ data = frame.data
    OBVIOUS
  <1>2. w \in Nat \ {0} /\ h \in Nat \ {0} /\ data \in [1..w * h * 3 -> 0..255]
    BY <1>1 DEF IsFrame
  <1>3. RowsOf(frame) = [y \in 1..h |-> [i \in 1..w * 3 |-> data[(y - 1) * (w * 3) + i]]]
    BY <1>1 DEF RowsOf
  <1>4. w * 3 \in Nat \ {0} /\ h * (w * 3) = w * h * 3
    BY <1>2
  <1>5. ASSUME NEW y \in 1..h, NEW i \in 1..w * 3
        PROVE  data[(y - 1) * (w * 3) + i] \in 0..255
    <2>1. PICK L : L = w * 3
      OBVIOUS
    <2>2. L \in Nat \ {0} /\ i \in 1..L /\ h \in Nat
      BY <1>2, <1>4, <2>1
    <2>3. (y - 1) * L + i \in 1..h * L
      BY <2>2, PlaceInRows
    <2> QED
      BY <1>2, <1>4, <2>1, <2>3
  <1>6. [y \in 1..h |-> [i \in 1..w * 3 |-> data[(y - 1) * (w * 3) + i]]]
            \in [1..h -> [1..w * 3 -> 0..255]]
    BY <1>5
  <1>7. RowsOf(frame) \in [1..h -> [1..w * 3 -> 0..255]]
    BY <1>3, <1>6
  <1>8. \A y \in 1..h, i \in 1..w * 3 : RowsOf(frame)[y][i] = data[(y - 1) * (w * 3) + i]
    BY <1>3
  <1> QED
    BY ONLY <1>1, <1>7, <1>8

(* The data of a frame have its lines in them, unfiltered. *)
LEMMA DataHoldsRows ==
    ASSUME NEW frame, IsFrame(frame)
    PROVE  /\ DataOf(frame) \in Seq(0..255)
           /\ HoldsLines(DataOf(frame), RowsOf(frame), [y \in 1..frame.height |-> 0],
                         frame.height, frame.width * 3, 3)
  <1>1. PICK w, h, data, L, raw, rows :
            /\ w = frame.width /\ h = frame.height /\ data = frame.data /\ L = w * 3
            /\ raw = DataOf(frame) /\ rows = RowsOf(frame)
    OBVIOUS
  <1>2. w \in Nat \ {0} /\ h \in Nat \ {0} /\ data \in [1..h * L -> 0..255]
        /\ L \in Nat \ {0} /\ L + 1 \in Nat \ {0}
    <2>1. w \in Nat \ {0} /\ h \in Nat \ {0} /\ data \in [1..w * h * 3 -> 0..255]
      BY <1>1 DEF IsFrame
    <2>2. h * L = w * h * 3 /\ L \in Nat \ {0}
      BY <1>1, <2>1
    <2>3. data \in [1..h * L -> 0..255]
      BY ONLY <2>1, <2>2
    <2> QED
      BY <2>1, <2>2, <2>3
  <1>3. raw = [i \in 1..h * (L + 1) |->
                 IF (i - 1) % (L + 1) = 0 THEN 0
                 ELSE data[((i - 1) \div (L + 1)) * L + ((i - 1) % (L + 1))]]
    BY <1>1 DEF DataOf
  <1>4. h * (L + 1) \in Nat
    BY <1>2
  <1>5. ASSUME NEW i \in 1..h * (L + 1)
        PROVE  raw[i] \in 0..255
    <2>1. PICK y, k : y = (i - 1) \div (L + 1) /\ k = (i - 1) % (L + 1)
      OBVIOUS
    <2>2. y \in 0..h - 1 /\ k \in 0..L
      <3>1. PICK M : M = L + 1
        OBVIOUS
      <3>2. (i - 1) \div M \in 0..h - 1 /\ (i - 1) % M \in 0..M - 1
        BY <1>2, <3>1, RowAndColumn
      <3> QED
        BY <1>2, <2>1, <3>1, <3>2
    <2>3. raw[i] = IF k = 0 THEN 0 ELSE data[y * L + k]
      BY <1>3, <2>1
    <2>4. CASE k # 0
      <3>1. y + 1 \in 1..h /\ k \in 1..L /\ (y + 1) - 1 = y
        BY <1>2, <2>2, <2>4
      <3>2. ((y + 1) - 1) * L + k \in 1..h * L
        BY <1>2, <3>1, PlaceInRows
      <3> QED
        BY <1>2, <2>3, <2>4, <3>1, <3>2
    <2> QED
      BY <2>3, <2>4
  <1>6. raw \in Seq(0..255) /\ Len(raw) = h * (L + 1)
    <2>1. raw \in [1..h * (L + 1) -> 0..255]
      BY <1>3, <1>5
    <2>2. PICK n : n = h * (L + 1)
      OBVIOUS
    <2>3. n \in Nat /\ raw \in [1..n -> 0..255]
      BY <1>4, <2>1, <2>2
    <2>4. raw \in Seq(0..255) /\ Len(raw) = n
      BY ONLY <2>3, SeqDef, LenProperties
    <2> QED
      BY <2>2, <2>4
  <1>7. ASSUME NEW y \in 1..h, NEW k \in 1..L + 1
        PROVE  raw[(y - 1) * (L + 1) + k] = IF k = 1 THEN 0 ELSE data[(y - 1) * L + (k - 1)]
    <2>1. PICK M, p : M = L + 1 /\ p = (y - 1) * M + k
      OBVIOUS
    <2>2. p \in 1..h * M /\ (p - 1) \div M = y - 1 /\ (p - 1) % M = k - 1
      <3>1. M \in Nat \ {0} /\ h \in Nat /\ k \in 1..M
        BY <1>2, <2>1
      <3>2. (y - 1) * M + k \in 1..h * M
        BY <3>1, PlaceInRows
      <3>3. ((y - 1) * M + k - 1) \div M = y - 1 /\ ((y - 1) * M + k - 1) % M = k - 1
        BY <3>1, PlaceInRows
      <3> QED
        BY <2>1, <3>2, <3>3
    <2>3. raw[p] = IF k - 1 = 0 THEN 0 ELSE data[(y - 1) * L + (k - 1)]
      BY <1>3, <2>1, <2>2
    <2> QED
      BY <2>1, <2>3
  <1>8. rows \in [1..h -> [1..L -> 0..255]]
        /\ \A y \in 1..h, i \in 1..L : rows[y][i] = data[(y - 1) * L + i]
    BY <1>1, RowsAreLines
  <1>9. ASSUME NEW y \in 1..h, NEW i \in 1..L
        PROVE  raw[(y - 1) * (L + 1) + 1 + i] = FilteredLine(0, rows[y], Above(rows, y, L), 3)[i]
    <2>1. PICK line : line = rows[y]
      OBVIOUS
    <2>2. line \in Seq(0..255) /\ Len(line) = L
      <3>1. line \in [1..L -> 0..255] /\ L \in Nat
        BY <1>2, <1>8, <2>1
      <3> QED
        BY ONLY <3>1, SeqDef, LenProperties
    <2>3. FilteredLine(0, line, Above(rows, y, L), 3)[i] = line[i]
      BY <2>2, UnfilteredByNone
    <2>4. raw[(y - 1) * (L + 1) + 1 + i] = data[(y - 1) * L + i]
      <3>1. 1 + i \in 1..L + 1 /\ 1 + i # 1 /\ (1 + i) - 1 = i
        BY <1>2
      <3>2. raw[(y - 1) * (L + 1) + (1 + i)] = data[(y - 1) * L + i]
        BY <1>7, <3>1
      <3>3. (y - 1) * (L + 1) + (1 + i) = (y - 1) * (L + 1) + 1 + i
        BY <1>2
      <3> QED
        BY <3>2, <3>3
    <2> QED
      BY <1>8, <2>1, <2>3, <2>4
  <1>10. \A y \in 1..h : raw[(y - 1) * (L + 1) + 1] = 0
    <2>1. 1 \in 1..L + 1
      BY <1>2
    <2> QED
      BY <1>7, <2>1
  <1>11. HoldsLines(raw, rows, [y \in 1..h |-> 0], h, L, 3)
    BY <1>4, <1>6, <1>9, <1>10 DEF HoldsLines
  <1> QED
    BY <1>1, <1>6, <1>11

(* Reading the lines of a frame gives the frame. *)
LEMMA RowsShowTheFrame ==
    ASSUME NEW frame, IsFrame(frame), NEW palette
    PROVE  ToRGB(RowsOf(frame), HeaderOf(frame), palette) = frame
  <1>1. PICK w, h, data, L, rows, header :
            /\ w = frame.width /\ h = frame.height /\ data = frame.data /\ L = w * 3
            /\ rows = RowsOf(frame) /\ header = HeaderOf(frame)
    OBVIOUS
  <1>2. w \in Nat \ {0} /\ h \in Nat \ {0} /\ data \in [1..w * h * 3 -> 0..255]
        /\ frame = [width |-> w, height |-> h, data |-> data]
    BY <1>1 DEF IsFrame
  <1>3. L \in Nat \ {0} /\ w * h \in Nat /\ w * h = h * w
    BY <1>1, <1>2
  <1>4. \A y \in 1..h, i \in 1..L : rows[y][i] = data[(y - 1) * L + i]
    BY <1>1, RowsAreLines
  <1>5. header.width = w /\ header.height = h /\ header.colour = RGB /\ header.depth = 8
    BY <1>1 DEF HeaderOf
  <1>6. Channels[RGB] = 3
    BY DEF Channels, RGB, Grey, Palette, GreyAlpha, RGBA
  <1>7. ASSUME NEW line, NEW x, NEW c \in 0..2
        PROVE  Pixel(line, header, palette, x)[c] = line[x * 3 + c + 1]
    <2>1. \A i : Sample(line, 8, i) = line[i + 1]
      BY DEF Sample
    <2>2. Pixel(line, header, palette, x)[c] = Sample(line, header.depth, x * Channels[RGB] + c)
      BY <1>5 DEF Pixel, RGB, Grey, Palette, GreyAlpha, RGBA
    <2> QED
      BY <1>5, <1>6, <2>1, <2>2
  <1>8. ASSUME NEW i \in 1..w * h * 3
        PROVE  Pixel(rows[((i - 1) \div 3) \div w + 1], header, palette,
                     ((i - 1) \div 3) % w)[(i - 1) % 3] = data[i]
    <2>1. PICK n, c, y, x : /\ n = (i - 1) \div 3 /\ c = (i - 1) % 3
                            /\ y = n \div w /\ x = n % w
      OBVIOUS
    <2>2. n \in 0..w * h - 1 /\ c \in 0..2 /\ n * 3 + c = i - 1
      <3>1. PICK m : m = w * h
        OBVIOUS
      <3>2. m \in Nat /\ 3 \in Nat \ {0} /\ i \in 1..m * 3
        BY <1>3, <3>1
      <3>3. /\ (i - 1) \div 3 \in 0..m - 1 /\ (i - 1) % 3 \in 0..3 - 1
            /\ ((i - 1) \div 3) * 3 + ((i - 1) % 3) = i - 1
        BY <3>2, RowAndColumn
      <3> QED
        BY <2>1, <3>1, <3>3
    <2>3. y \in 0..h - 1 /\ x \in 0..w - 1 /\ y * w + x = n
      <3>1. PICK k : k = n + 1
        OBVIOUS
      <3>2. k \in 1..h * w /\ k - 1 = n
        BY <1>3, <2>2, <3>1
      <3>3. /\ (k - 1) \div w \in 0..h - 1 /\ (k - 1) % w \in 0..w - 1
            /\ ((k - 1) \div w) * w + ((k - 1) % w) = k - 1
        BY <1>2, <3>2, RowAndColumn
      <3> QED
        BY <2>1, <3>2, <3>3
    <2>4. y + 1 \in 1..h /\ x * 3 + c + 1 \in 1..L /\ y * L + (x * 3 + c + 1) = i
      <3>1. y + 1 \in 1..h /\ x * 3 + c + 1 \in 1..L
        BY <1>1, <1>2, <2>2, <2>3
      <3>2. y * L = (y * w) * 3
        BY <1>1, <1>2, <2>3
      <3>3. (y * w + x) * 3 = (y * w) * 3 + x * 3
        BY <1>2, <2>3
      <3>4. y * L + (x * 3 + c + 1) = (y * w) * 3 + x * 3 + c + 1
        BY <1>2, <2>2, <2>3, <3>2
      <3> QED
        BY <2>2, <2>3, <3>1, <3>3, <3>4
    <2>5. Pixel(rows[y + 1], header, palette, x)[c] = rows[y + 1][x * 3 + c + 1]
      BY <1>7, <2>2
    <2>6. rows[y + 1][x * 3 + c + 1] = data[((y + 1) - 1) * L + (x * 3 + c + 1)]
      BY <1>4, <2>4
    <2>7. (y + 1) - 1 = y
      BY <2>3
    <2> QED
      BY <2>1, <2>4, <2>5, <2>6, <2>7
  <1>9. ToRGB(rows, header, palette) =
            [width |-> w, height |-> h,
             data |-> [i \in 1..w * h * 3 |->
                          Pixel(rows[((i - 1) \div 3) \div w + 1], header, palette,
                                ((i - 1) \div 3) % w)[(i - 1) % 3]]]
    BY <1>5 DEF ToRGB
  <1>10. [i \in 1..w * h * 3 |->
                          Pixel(rows[((i - 1) \div 3) \div w + 1], header, palette,
                                ((i - 1) \div 3) % w)[(i - 1) % 3]] = data
    BY ONLY <1>2, <1>8
  <1> QED
    BY <1>1, <1>2, <1>9, <1>10

(* The reader goes on to the end of a file that encode began. *)
LEMMA ReadToTheEnd ==
    ASSUME NEW S, NEW file, file.chunks \in Seq(S), NEW n \in Nat, Len(file.chunks) = n,
           \A i \in 1..n : file.chunks[i].kind = "IEND" => i = n
    PROVE  /\ Len(Read(file)) = n
           /\ \A i \in 1..n : Read(file)[i] = file.chunks[i]
  <1> DEFINE ends == {i \in 1..Len(file.chunks) : file.chunks[i].kind = "IEND"}
  <1>1. PICK chunks : chunks = file.chunks
    OBVIOUS
  <1>2. CASE ends = {}
    BY <1>2 DEF Read
  <1>3. CASE ends # {}
    <2>1. ends = {n} /\ n >= 1
      BY <1>3
    <2>2. (CHOOSE i \in ends : \A j \in ends : i <= j) = n
      <3> HIDE DEF ends
      <3> QED
        BY <2>1
    <2>3. Read(file) = SubSeq(chunks, 1, n)
      BY <1>1, <1>3, <2>2 DEF Read
    <2>4. \A i \in 1..n : chunks[i] \in S
      BY <1>1, ElementOfSeq
    <2>5. /\ Len(SubSeq(chunks, 1, n)) = IF 1 <= n THEN n - 1 + 1 ELSE 0
          /\ \A i \in 1..n - 1 + 1 : SubSeq(chunks, 1, n)[i] = chunks[1 + i - 1]
      BY <2>4, SubSeqProperties
    <2>6. n - 1 + 1 = n /\ \A i \in 1..n : 1 + i - 1 = i
      OBVIOUS
    <2> QED
      BY <1>1, <2>1, <2>3, <2>5, <2>6
  <1> QED
    BY <1>2, <1>3

(* The data of one piece are what it inflates to. *)
LEMMA OnePieceInflates ==
    ASSUME NEW S, NEW n \in {2, 3}, NEW chunks, Len(chunks) = n,
           NEW raw \in Seq(S), chunks[2].payload = [raw |-> raw, ends |-> TRUE]
    PROVE  Inflates(chunks, {2}) /\ Inflated(chunks, {2}) = raw
  <1>1. Inflates(chunks, {2})
    BY DEF Inflates
  <1>2. PICK s : s = [i \in 1..n |-> IF i \in {2} THEN chunks[i].payload.raw ELSE <<>>]
    OBVIOUS
  <1>3. Inflated(chunks, {2}) = FlattenSeq(s)
    <2>1. \A i \in 1..n : (i \in {2} /\ \A j \in {2} : chunks[j].payload.ends => i <= j)
                          <=> i \in {2}
      OBVIOUS
    <2> QED
      BY <1>2, <2>1, Zenon DEF Inflated
  <1>4. ArePieces(s, n, 1, <<>>, raw)
    <2>1. \A i \in 1..n : s[i] = IF i = 1 THEN <<>> ELSE IF i = 1 + 1 THEN raw ELSE <<>>
      BY <1>2
    <2>2. Len(s) = n
      BY <1>2
    <2> QED
      BY <2>1, <2>2 DEF ArePieces
  <1>6. <<>> \in Seq(S) /\ <<>> \o raw = raw
    BY EmptySeq, ConcatEmptySeq
  <1>7. FlattenSeq(s) = <<>> \o raw
    <2>1. PICK at, e : at = 1 /\ e = <<>>
      OBVIOUS
    <2>2. n \in Nat /\ at \in 1..n - 1 /\ e \in Seq(S) /\ ArePieces(s, n, at, e, raw)
      BY <1>4, <1>6, <2>1
    <2>3. raw \in Seq(S)
      OBVIOUS
    <2>4. FlattenSeq(s) = e \o raw
      BY ONLY <2>2, <2>3, FlattenPieces
    <2> QED
      BY <2>1, <2>4
  <1> QED
    BY <1>1, <1>3, <1>6, <1>7

(* What encode writes is read as the frame, with or without its end,       *)
(* unless the frame is larger than any the reader takes.                   *)
THEOREM FrameIsRead ==
    ASSUME NEW frame, IsFrame(frame), NEW file, file.signed,
           Len(Read(file)) \in {2, 3},
           Read(file)[1] = Chunk("IHDR", HeaderOf(frame)),
           Read(file)[2] = Chunk("IDAT", [raw |-> DataOf(frame), ends |-> TRUE]),
           Len(Read(file)) = 3 => Read(file)[3] = Chunk("IEND", <<>>)
    PROVE  decode(file) = IF frame.width * frame.height <= MaxPixels THEN frame ELSE Refused
  <1>1. PICK chunks, n, header, raw, w, h :
            /\ chunks = Read(file) /\ n = Len(chunks) /\ header = HeaderOf(frame)
            /\ raw = DataOf(frame) /\ w = frame.width /\ h = frame.height
    OBVIOUS
  <1>2. /\ n \in {2, 3} /\ chunks[1] = Chunk("IHDR", header)
        /\ chunks[2] = Chunk("IDAT", [raw |-> raw, ends |-> TRUE])
        /\ n = 3 => chunks[3] = Chunk("IEND", <<>>)
    BY <1>1
  <1>3. w \in Nat \ {0} /\ h \in Nat \ {0}
    BY <1>1 DEF IsFrame
  <1>4. \A i \in 1..n : chunks[i].sound
    BY <1>2 DEF Chunk
  <1>5. /\ OfKind(chunks, "IHDR") = {1} /\ OfKind(chunks, "PLTE") = {}
        /\ OfKind(chunks, "IDAT") = {2}
    <2>1. \A i \in 1..n : i = 1 \/ i = 2 \/ (i = 3 /\ n = 3)
      BY <1>2
    <2>2. chunks[1].kind = "IHDR" /\ chunks[2].kind = "IDAT" /\ (n = 3 => chunks[3].kind = "IEND")
      BY <1>2 DEF Chunk
    <2>3. 1 \in 1..n /\ 2 \in 1..n
      BY <1>2
    <2>4. \A kind : OfKind(chunks, kind) = {i \in 1..n : chunks[i].kind = kind}
      BY <1>1 DEF OfKind
    <2> QED
      BY <2>1, <2>2, <2>3, <2>4
  <1>6. LastOf(chunks, {1}) = header
    <2>1. (CHOOSE i \in {1} : \A j \in {1} : j <= i) = 1
      OBVIOUS
    <2> QED
      BY <1>2, <2>1 DEF LastOf, Chunk
  <1>7. raw \in Seq(0..255)
        /\ HoldsLines(raw, RowsOf(frame), [y \in 1..h |-> 0], h, w * 3, 3)
    BY <1>1, DataHoldsRows
  <1>8. Inflates(chunks, {2}) /\ Inflated(chunks, {2}) = raw
    <2>1. chunks[2].payload = [raw |-> raw, ends |-> TRUE]
      BY <1>2 DEF Chunk
    <2> QED
      BY <1>1, <1>2, <1>7, <2>1, OnePieceInflates
  <1>9. Unfilters(raw, h, w * 3) /\ Unfilter(raw, h, w * 3, 3) = RowsOf(frame)
    <2>1. PICK L, types, rows, bpp :
              L = w * 3 /\ types = [y \in 1..h |-> 0] /\ rows = RowsOf(frame) /\ bpp = 3
      OBVIOUS
    <2>2. L \in Nat /\ h \in Nat /\ bpp \in Nat \ {0} /\ types \in [1..h -> 0..4]
      BY <1>3, <2>1
    <2>3. rows \in [1..h -> [1..L -> 0..255]] /\ HoldsLines(raw, rows, types, h, L, bpp)
      BY <1>1, <1>7, <2>1, RowsAreLines
    <2>5. AreLines(rows, types, h, L)
      BY ONLY <2>2, <2>3 DEF AreLines
    <2>4. Unfilters(raw, h, L) /\ Unfilter(raw, h, L, bpp) = rows
      BY ONLY <2>2, <2>3, <2>5, LinesComeBack
    <2> QED
      BY <2>1, <2>4
  <1>10. /\ header.width = w /\ header.height = h /\ header.colour = RGB /\ header.depth = 8
         /\ header.compression = 0 /\ header.filter_method = 0 /\ header.interlace = 0
    BY <1>1 DEF HeaderOf
  <1>11. Channels[RGB] = 3 /\ RGB \in DOMAIN Channels /\ RGB # Palette
    BY DEF Channels, RGB, Grey, Palette, GreyAlpha, RGBA
  <1>12. Supported(header) <=> w * h <= MaxPixels
    BY <1>3, <1>10, <1>11 DEF Supported
  <1>13. Channels[header.colour] * header.depth = 24 /\ 24 \div 8 = 3 /\ ~(24 < 8)
    BY <1>10, <1>11
  <1>14. (w * 24 + 7) \div 8 = w * 3
    <2>1. PICK q : q = w * 3
      OBVIOUS
    <2>2. q \in Int /\ 8 \in Nat \ {0} /\ 7 \in 0..8 - 1 /\ w * 24 + 7 = q * 8 + 7
      BY <1>3, <2>1
    <2>3. (q * 8 + 7) \div 8 = q
      BY <2>2, DivMod
    <2> QED
      BY <2>1, <2>2, <2>3
  <1>15. \A palette : InPalette(RowsOf(frame), header, palette)
    BY <1>10, <1>11 DEF InPalette
  <1>16. \A palette : ToRGB(RowsOf(frame), header, palette) = frame
    BY <1>1, RowsShowTheFrame
  <1>17. file.signed /\ Intact(chunks) /\ ~({1} = {}) /\ ~({2} = {})
    BY <1>1, <1>4 DEF Intact
  <1>18. CASE ~(w * h <= MaxPixels)
    BY <1>1, <1>5, <1>6, <1>12, <1>17, <1>18 DEF decode
  <1>19. CASE w * h <= MaxPixels
    <2>1. PICK palette : palette = IF OfKind(chunks, "PLTE") = {} THEN <<>>
                                   ELSE LastOf(chunks, OfKind(chunks, "PLTE"))
      OBVIOUS
    <2>2. decode(file) =
              IF ~Unfilters(raw, h, w * 3) THEN Refused
              ELSE IF InPalette(Unfilter(raw, h, w * 3, 3), header, palette)
                   THEN ToRGB(Unfilter(raw, h, w * 3, 3), header, palette) ELSE Refused
      <3>1. decode(file) =
              LET bits == Channels[header.colour] * header.depth
                  stride == (header.width * bits + 7) \div 8
                  bpp == IF bits < 8 THEN 1 ELSE bits \div 8 IN
              IF ~Unfilters(raw, header.height, stride) THEN Refused
              ELSE LET lines == Unfilter(raw, header.height, stride, bpp) IN
                   IF InPalette(lines, header, palette)
                   THEN ToRGB(lines, header, palette) ELSE Refused
        BY <1>1, <1>5, <1>6, <1>8, <1>12, <1>17, <1>19, <2>1 DEF decode
      <3> QED
        BY ONLY <3>1, <1>10, <1>13, <1>14
    <2> QED
      BY <1>1, <1>9, <1>15, <1>16, <1>19, <2>2
  <1> QED
    BY <1>18, <1>19

-----------------------------------------------------------------------------
(* The samples of a picture in the bytes of its lines *)

(* The bits of a picture's line, and the bytes and bits of its pixels.     *)
Bits(pic) == Channels[pic.colour] * pic.depth
Stride(pic) == (pic.width * Bits(pic) + 7) \div 8
PerPixel(pic) == IF Bits(pic) < 8 THEN 1 ELSE Bits(pic) \div 8

(* The samples of a line. *)
Count(pic) == pic.width * Channels[pic.colour]

(* The powers of two that depths and shifts need.                          *)
LEMMA Powers ==
    /\ 2^0 = 1 /\ 2^1 = 2 /\ 2^2 = 4 /\ 2^3 = 8 /\ 2^4 = 16 /\ 2^5 = 32 /\ 2^6 = 64
    /\ 2^7 = 128 /\ 2^8 = 256 /\ 2^16 = 65536
  <1>1. 2^0 = 1 /\ 2^1 = 2 /\ 2^2 = 4 /\ 2^3 = 8 /\ 2^4 = 16
    OBVIOUS
  <1>2. 2^5 = 32 /\ 2^6 = 64 /\ 2^7 = 128 /\ 2^8 = 256
    OBVIOUS
  <1>3. 2^16 = 65536
    OBVIOUS
  <1> QED
    BY <1>1, <1>2, <1>3

(* What the supported kinds of pictures have in common.                    *)
LEMMA KindsOfPictures ==
    ASSUME NEW pic, IsPicture(pic)
    PROVE  /\ Channels[pic.colour] \in 1..4
           /\ pic.depth \in {1, 2, 4, 8, 16}
           /\ pic.depth < 8 => pic.colour = Palette
           /\ pic.colour = Palette => Channels[pic.colour] = 1 /\ pic.depth < 16
           /\ pic.colour \in {RGB, RGBA} => Channels[pic.colour] >= 3
           /\ pic.colour \in {Grey, RGB, GreyAlpha, RGBA, Palette}
           /\ pic.colour \in DOMAIN Channels
           /\ pic.width \in Nat \ {0} /\ pic.height \in Nat \ {0} /\ Count(pic) \in Nat \ {0}
  <1>1. /\ Channels[Grey] = 1 /\ Channels[RGB] = 3 /\ Channels[Palette] = 1
        /\ Channels[GreyAlpha] = 2 /\ Channels[RGBA] = 4
        /\ DOMAIN Channels = {Grey, RGB, GreyAlpha, RGBA, Palette}
    BY DEF Channels, RGB, Grey, Palette, GreyAlpha, RGBA
  <1>2. pic.colour \in {Grey, RGB, GreyAlpha, RGBA, Palette}
    BY DEF IsPicture
  <1>3. Channels[pic.colour] \in 1..4
    BY <1>1, <1>2
  <1>4. pic.width \in Nat \ {0} /\ pic.height \in Nat \ {0}
    BY DEF IsPicture
  <1>5. Count(pic) \in Nat \ {0}
    <2>1. PICK w, c : w = pic.width /\ c = Channels[pic.colour]
      OBVIOUS
    <2>2. w * c \in Nat /\ w * c >= 1
      BY <1>3, <1>4, <2>1
    <2> QED
      BY <2>1, <2>2 DEF Count
  <1>6. pic.depth \in {1, 2, 4, 8, 16}
    BY DEF IsPicture
  <1>7. pic.depth < 8 => pic.colour = Palette
    BY DEF IsPicture
  <1>8. pic.colour = Palette => pic.depth < 16
    BY DEF IsPicture, RGB, Grey, Palette, GreyAlpha, RGBA
  <1>9. pic.colour \in {RGB, RGBA} => Channels[pic.colour] >= 3
    BY <1>1
  <1> QED
    BY <1>1, <1>2, <1>3, <1>4, <1>5, <1>6, <1>7, <1>8, <1>9

(* The largest sample of a depth is a number, and so is every sample.      *)
LEMMA LargestSample ==
    ASSUME NEW pic, IsPicture(pic)
    PROVE  2^pic.depth - 1 \in Nat
  <1>1. PICK p : p = 2^pic.depth
    OBVIOUS
  <1>2. p \in {2, 4, 16, 256, 65536}
    <2>1. CASE pic.depth = 1
      BY <1>1, <2>1, Powers
    <2>2. CASE pic.depth = 2
      BY <1>1, <2>2, Powers
    <2>3. CASE pic.depth = 4
      BY <1>1, <2>3, Powers
    <2>4. CASE pic.depth = 8
      BY <1>1, <2>4, Powers
    <2>5. CASE pic.depth = 16
      BY <1>1, <2>5, Powers
    <2> QED
      BY <2>1, <2>2, <2>3, <2>4, <2>5, KindsOfPictures
  <1>3. p - 1 \in Nat
    BY ONLY <1>2
  <1> QED
    BY ONLY <1>1, <1>3

(* A sample of a line, or of its padding, is a number of its depth.        *)
LEMMA SampleAtIs ==
    ASSUME NEW pic, IsPicture(pic), NEW y \in 1..pic.height, NEW i \in Nat
    PROVE  SampleAt(pic, y, i) \in 0..2^pic.depth - 1
  <1>1. PICK w, n, m : w = pic.width /\ n = Channels[pic.colour] /\ m = 2^pic.depth - 1
    OBVIOUS
  <1>2. w \in Nat \ {0} /\ n \in Nat \ {0}
    BY <1>1, KindsOfPictures
  <1>3. m \in Nat
    BY <1>1, LargestSample
  <1>4. pic.samples[y] \in [0..w - 1 -> [0..n - 1 -> 0..m]]
    BY <1>1 DEF IsPicture, Channel
  <1>5. SampleAt(pic, y, i) = IF i < w * n THEN pic.samples[y][i \div n][i % n] ELSE 0
    BY <1>1 DEF SampleAt
  <1>6. CASE i < w * n
    <2>1. PICK k : k = i + 1
      OBVIOUS
    <2>2. k \in 1..w * n /\ k - 1 = i
      BY <1>2, <1>6, <2>1
    <2>3. (k - 1) \div n \in 0..w - 1 /\ (k - 1) % n \in 0..n - 1
      BY <1>2, <2>2, RowAndColumn
    <2>4. i \div n \in 0..w - 1 /\ i % n \in 0..n - 1
      BY <2>2, <2>3
    <2>5. pic.samples[y][i \div n][i % n] \in 0..m
      BY <1>4, <2>4
    <2> QED
      BY <1>1, <1>5, <1>6, <2>5
  <1>7. CASE ~(i < w * n)
    BY <1>1, <1>3, <1>5, <1>7
  <1> QED
    BY <1>6, <1>7

(* A byte of packed samples is what its recursion says it is. *)
LEMMA PackedIs ==
    ASSUME NEW pic, IsPicture(pic), NEW y, NEW p \in {1, 2, 4, 8}, p = 8 \div pic.depth,
           NEW i \in 1..(Count(pic) + p - 1) \div p
    PROVE  \E a : /\ LineOf(pic, y)[i] = a[p] /\ a[0] = 0
                  /\ \A k \in 1..p : a[k] = a[k - 1] * 2^pic.depth
                                            + SampleAt(pic, y, (i - 1) * p + k - 1)
  <1> DEFINE m == 2^pic.depth
             V(k) == SampleAt(pic, y, (i - 1) * p + k - 1)
             Solves(g) == g = [k \in 0..p |-> IF k = 0 THEN 0
                                              ELSE g[k - 1] * m + V(k)]
             a == CHOOSE g : Solves(g)
  <1>1. pic.depth < 16 /\ pic.depth # 16
    BY KindsOfPictures
  <1>2. LineOf(pic, y)[i] = a[p]
    BY <1>1 DEF LineOf, Count
  <1>3. Solves(a)
    <2> HIDE DEF V, m
    <2> DEFINE a1 == 0 * m + V(1)
               a2 == a1 * m + V(2)
               a3 == a2 * m + V(3)
               a4 == a3 * m + V(4)
               a5 == a4 * m + V(5)
               a6 == a5 * m + V(6)
               a7 == a6 * m + V(7)
               a8 == a7 * m + V(8)
               h == [k \in 0..p |-> IF k = 0 THEN 0 ELSE IF k = 1 THEN a1
                        ELSE IF k = 2 THEN a2 ELSE IF k = 3 THEN a3
                        ELSE IF k = 4 THEN a4 ELSE IF k = 5 THEN a5
                        ELSE IF k = 6 THEN a6 ELSE IF k = 7 THEN a7 ELSE a8]
    <2>1. Solves(h)
      <3>1. \A k \in 0..p : k \in 0..8
        OBVIOUS
      <3>2. ASSUME NEW k \in 0..p
            PROVE  h[k] = IF k = 0 THEN 0 ELSE h[k - 1] * m + V(k)
        <4>1. k = 0 \/ k = 1 \/ k = 2 \/ k = 3 \/ k = 4 \/ k = 5 \/ k = 6 \/ k = 7 \/ k = 8
          BY <3>1
        <4> HIDE DEF a1, a2, a3, a4, a5, a6, a7, a8
        <4>2. CASE k = 0
          BY <4>2
        <4>3. CASE k = 1
          BY <4>3 DEF a1
        <4>4. CASE k = 2
          BY <4>4 DEF a2
        <4>5. CASE k = 3
          BY <4>5 DEF a3
        <4>6. CASE k = 4
          BY <4>6 DEF a4
        <4>7. CASE k = 5
          BY <4>7 DEF a5
        <4>8. CASE k = 6
          BY <4>8 DEF a6
        <4>9. CASE k = 7
          BY <4>9 DEF a7
        <4>10. CASE k = 8
          BY <4>10 DEF a8
        <4> QED
          BY <4>1, <4>2, <4>3, <4>4, <4>5, <4>6, <4>7, <4>8, <4>9, <4>10
      <3>3. h = [k \in 0..p |-> h[k]]
        OBVIOUS
      <3> HIDE DEF h
      <3> QED
        BY <3>2, <3>3
    <2> HIDE DEF Solves, h
    <2> QED
      BY <2>1
  <1>4. \A k \in 1..p : a[k] = a[k - 1] * m + V(k)
    <2> HIDE DEF a, V, m
    <2> QED
      BY <1>3
  <1>5. a[0] = 0
    <2> HIDE DEF a, V, m
    <2> QED
      BY <1>3
  <1> HIDE DEF a
  <1> QED
    BY <1>2, <1>4, <1>5

(* Two or eight samples in a byte, and out again. *)
LEMMA Halves ==
    ASSUME NEW v1 \in 0..15, NEW v2 \in 0..15, NEW b, b = v1 * 16 + v2
    PROVE  /\ b \in 0..255
           /\ (b \div 16) % 16 = v1 /\ (b \div 1) % 16 = v2
  OBVIOUS

(* Eight samples of one bit make a byte, and come out of it.               *)
LEMMA Eighths ==
    ASSUME NEW v1 \in 0..1, NEW v2 \in 0..1, NEW v3 \in 0..1, NEW v4 \in 0..1,
           NEW v5 \in 0..1, NEW v6 \in 0..1, NEW v7 \in 0..1, NEW v8 \in 0..1,
           NEW b, b = ((((((v1 * 2 + v2) * 2 + v3) * 2 + v4) * 2 + v5) * 2 + v6) * 2 + v7) * 2 + v8
    PROVE  /\ b \in 0..255
           /\ (b \div 128) % 2 = v1 /\ (b \div 64) % 2 = v2
           /\ (b \div 32) % 2 = v3 /\ (b \div 16) % 2 = v4
           /\ (b \div 8) % 2 = v5 /\ (b \div 4) % 2 = v6
           /\ (b \div 2) % 2 = v7 /\ (b \div 1) % 2 = v8
  <1>1. b \in 0..255
    OBVIOUS
  <1>2. (b \div 128) % 2 = v1
    OBVIOUS
  <1>3. (b \div 64) % 2 = v2
    OBVIOUS
  <1>4. (b \div 32) % 2 = v3
    OBVIOUS
  <1>5. (b \div 16) % 2 = v4
    OBVIOUS
  <1>6. (b \div 8) % 2 = v5
    OBVIOUS
  <1>7. (b \div 4) % 2 = v6
    OBVIOUS
  <1>8. (b \div 2) % 2 = v7
    OBVIOUS
  <1>9. (b \div 1) % 2 = v8
    OBVIOUS
  <1> QED
    BY ONLY <1>1, <1>2, <1>3, <1>4, <1>5, <1>6, <1>7, <1>8, <1>9

(* The powers that a shift divides by. *)
LEMMA Shifts ==
    ASSUME NEW s \in 0..7
    PROVE  2^s = IF s = 0 THEN 1 ELSE IF s = 1 THEN 2 ELSE IF s = 2 THEN 4 ELSE IF s = 3 THEN 8
                 ELSE IF s = 4 THEN 16 ELSE IF s = 5 THEN 32 ELSE IF s = 6 THEN 64 ELSE 128
  <1>8. CASE s = 0
    BY <1>8, Powers
  <1>1. CASE s = 1
    BY <1>1, Powers
  <1>2. CASE s = 2
    BY <1>2, Powers
  <1>3. CASE s = 3
    BY <1>3, Powers
  <1>4. CASE s = 4
    BY <1>4, Powers
  <1>5. CASE s = 5
    BY <1>5, Powers
  <1>6. CASE s = 6
    BY <1>6, Powers
  <1>7. CASE s = 7
    BY <1>7, Powers
  <1> QED
    BY <1>8, <1>1, <1>2, <1>3, <1>4, <1>5, <1>6, <1>7

(* The samples of a byte come out of it with the reader's shift and mask.  *)
LEMMA PackedBack ==
    ASSUME NEW pic, IsPicture(pic), pic.depth # 16, NEW y \in 1..pic.height,
           NEW p, p = 8 \div pic.depth, NEW i \in 1..(Count(pic) + p - 1) \div p
    PROVE  /\ LineOf(pic, y)[i] \in 0..255
           /\ \A r \in 0..p - 1 :
                 (LineOf(pic, y)[i] \div 2^(8 - pic.depth * (r + 1))) % 2^pic.depth
                    = SampleAt(pic, y, (i - 1) * p + r)
  <1> DEFINE V(k) == SampleAt(pic, y, (i - 1) * p + k - 1)
  <1>1. pic.depth \in {1, 2, 4, 8} /\ p \in {1, 2, 4, 8}
    <2>1. pic.depth \in {1, 2, 4, 8}
      BY KindsOfPictures
    <2> QED
      BY <2>1
  <1>2. (i - 1) * p \in Nat
    BY <1>1
  <1>3. PICK b : b = LineOf(pic, y)[i]
    OBVIOUS
  <1>4. PICK a : /\ b = a[p] /\ a[0] = 0
                 /\ \A k \in 1..p : a[k] = a[k - 1] * 2^pic.depth + V(k)
    BY <1>1, <1>3, PackedIs
  <1>5. \A k \in 1..p : V(k) \in 0..2^pic.depth - 1
    <2> SUFFICES ASSUME NEW k \in 1..p PROVE V(k) \in 0..2^pic.depth - 1
      OBVIOUS
    <2>1. (i - 1) * p + k - 1 \in Nat
      BY <1>1, <1>2
    <2> QED
      BY <2>1, SampleAtIs
  <1>6. \A r \in 0..p - 1 : SampleAt(pic, y, (i - 1) * p + r) = V(r + 1)
    <2> SUFFICES ASSUME NEW r \in 0..p - 1 PROVE SampleAt(pic, y, (i - 1) * p + r) = V(r + 1)
      OBVIOUS
    <2>1. (i - 1) * p + (r + 1) - 1 = (i - 1) * p + r
      BY <1>1, <1>2
    <2> QED
      BY <2>1
  <1> HIDE DEF V
  <1> SUFFICES /\ b \in 0..255
               /\ \A r \in 0..p - 1 : (b \div 2^(8 - pic.depth * (r + 1))) % 2^pic.depth = V(r + 1)
    BY <1>3, <1>6
  <1>7. CASE pic.depth = 8
    <2>1. p = 1 /\ 2^pic.depth = 256
      BY <1>7, Powers
    <2>2. a[1] = 0 * 256 + V(1) /\ V(1) \in 0..255
      BY <1>4, <1>5, <2>1
    <2>3. b = V(1) /\ (b \div 1) % 256 = V(1)
      BY <1>4, <2>1, <2>2
    <2>4. \A r \in 0..p - 1 : r = 0 /\ 8 - pic.depth * (r + 1) = 0 /\ r + 1 = 1
      BY <1>7, <2>1
    <2>5. ASSUME NEW r \in 0..p - 1
          PROVE  (b \div 2^(8 - pic.depth * (r + 1))) % 2^pic.depth = V(r + 1)
      <3>1. PICK s, e, f : s = 8 - pic.depth * (r + 1) /\ e = 2^s /\ f = 2^pic.depth
        OBVIOUS
      <3>2. s \in 0..7
        BY <2>1, <2>4, <3>1
      <3>3. e = IF s = 0 THEN 1 ELSE IF s = 1 THEN 2 ELSE IF s = 2 THEN 4 ELSE IF s = 3 THEN 8
                ELSE IF s = 4 THEN 16 ELSE IF s = 5 THEN 32 ELSE IF s = 6 THEN 64 ELSE 128
        BY ONLY <3>1, <3>2, Shifts
      <3>4. (b \div e) % f = V(r + 1)
        BY ONLY <2>1, <2>2, <2>3, <2>4, <3>1, <3>3
      <3> QED
        BY <3>1, <3>4
    <2> QED
      BY <2>2, <2>3, <2>5
  <1>8. CASE pic.depth = 4
    <2>1. p = 2 /\ 2^pic.depth = 16
      BY <1>8, Powers
    <2>2. a[1] = 0 * 16 + V(1) /\ a[2] = a[1] * 16 + V(2) /\ V(1) \in 0..15 /\ V(2) \in 0..15
      BY <1>4, <1>5, <2>1
    <2>3. b = V(1) * 16 + V(2)
      BY <1>4, <2>1, <2>2
    <2>4. b \in 0..255 /\ (b \div 16) % 16 = V(1) /\ (b \div 1) % 16 = V(2)
      <3>1. PICK v1, v2 : v1 = V(1) /\ v2 = V(2)
        OBVIOUS
      <3>2. v1 \in 0..15 /\ v2 \in 0..15 /\ b = v1 * 16 + v2
        BY ONLY <2>2, <2>3, <3>1
      <3>3. b \in 0..255 /\ (b \div 16) % 16 = v1 /\ (b \div 1) % 16 = v2
        BY ONLY <3>2, Halves
      <3> QED
        BY ONLY <3>1, <3>3
    <2>5. \A r \in 0..p - 1 : \/ r = 0 /\ 8 - pic.depth * (r + 1) = 4 /\ r + 1 = 1
                              \/ r = 1 /\ 8 - pic.depth * (r + 1) = 0 /\ r + 1 = 2
      BY <1>8, <2>1
    <2>6. ASSUME NEW r \in 0..p - 1
          PROVE  (b \div 2^(8 - pic.depth * (r + 1))) % 2^pic.depth = V(r + 1)
      <3>1. PICK s, e, f : s = 8 - pic.depth * (r + 1) /\ e = 2^s /\ f = 2^pic.depth
        OBVIOUS
      <3>2. s \in 0..7
        BY <2>1, <2>5, <3>1
      <3>3. e = IF s = 0 THEN 1 ELSE IF s = 1 THEN 2 ELSE IF s = 2 THEN 4 ELSE IF s = 3 THEN 8
                ELSE IF s = 4 THEN 16 ELSE IF s = 5 THEN 32 ELSE IF s = 6 THEN 64 ELSE 128
        BY ONLY <3>1, <3>2, Shifts
      <3>4. (b \div e) % f = V(r + 1)
        BY ONLY <2>1, <2>4, <2>5, <3>1, <3>3
      <3> QED
        BY <3>1, <3>4
    <2> QED
      BY <2>4, <2>6
  <1>9. CASE pic.depth = 2
    <2>1. p = 4 /\ 2^pic.depth = 4
      BY <1>9, Powers
    <2>2. /\ a[1] = 0 * 4 + V(1) /\ a[2] = a[1] * 4 + V(2)
          /\ a[3] = a[2] * 4 + V(3) /\ a[4] = a[3] * 4 + V(4)
          /\ V(1) \in 0..3 /\ V(2) \in 0..3 /\ V(3) \in 0..3 /\ V(4) \in 0..3
      BY <1>4, <1>5, <2>1
    <2>3. b = ((V(1) * 4 + V(2)) * 4 + V(3)) * 4 + V(4)
      BY <1>4, <2>1, <2>2
    <2>4. /\ b \in 0..255 /\ (b \div 64) % 4 = V(1) /\ (b \div 16) % 4 = V(2)
          /\ (b \div 4) % 4 = V(3) /\ (b \div 1) % 4 = V(4)
      <3>1. PICK v1, v2, v3, v4 : v1 = V(1) /\ v2 = V(2) /\ v3 = V(3) /\ v4 = V(4)
        OBVIOUS
      <3>2. /\ v1 \in 0..3 /\ v2 \in 0..3 /\ v3 \in 0..3 /\ v4 \in 0..3
            /\ b = ((v1 * 4 + v2) * 4 + v3) * 4 + v4
        BY <2>2, <2>3, <3>1
      <3>3. /\ b \in 0..255
            /\ (b \div 64) % 4 = v1 /\ (b \div 16) % 4 = v2
            /\ (b \div 4) % 4 = v3 /\ (b \div 1) % 4 = v4
        BY ONLY <3>2
      <3> QED
        BY <3>1, <3>3
    <2>5. \A r \in 0..p - 1 : \/ r = 0 /\ 8 - pic.depth * (r + 1) = 6 /\ r + 1 = 1
                              \/ r = 1 /\ 8 - pic.depth * (r + 1) = 4 /\ r + 1 = 2
                              \/ r = 2 /\ 8 - pic.depth * (r + 1) = 2 /\ r + 1 = 3
                              \/ r = 3 /\ 8 - pic.depth * (r + 1) = 0 /\ r + 1 = 4
      BY <1>9, <2>1
    <2>6. ASSUME NEW r \in 0..p - 1
          PROVE  (b \div 2^(8 - pic.depth * (r + 1))) % 2^pic.depth = V(r + 1)
      <3>1. PICK s, e, f : s = 8 - pic.depth * (r + 1) /\ e = 2^s /\ f = 2^pic.depth
        OBVIOUS
      <3>2. s \in 0..7
        BY <2>1, <2>5, <3>1
      <3>3. e = IF s = 0 THEN 1 ELSE IF s = 1 THEN 2 ELSE IF s = 2 THEN 4 ELSE IF s = 3 THEN 8
                ELSE IF s = 4 THEN 16 ELSE IF s = 5 THEN 32 ELSE IF s = 6 THEN 64 ELSE 128
        BY ONLY <3>1, <3>2, Shifts
      <3>4. (b \div e) % f = V(r + 1)
        BY ONLY <2>1, <2>4, <2>5, <3>1, <3>3
      <3> QED
        BY <3>1, <3>4
    <2> QED
      BY <2>4, <2>6
  <1>10. CASE pic.depth = 1
    <2>1. p = 8 /\ 2^pic.depth = 2
      BY <1>10, Powers
    <2>2. \A k \in 1..8 : V(k) \in 0..1 /\ a[k] = a[k - 1] * 2 + V(k)
      BY <1>4, <1>5, <2>1
    <2>3. /\ a[1] = 0 * 2 + V(1) /\ a[2] = a[1] * 2 + V(2) /\ a[3] = a[2] * 2 + V(3)
          /\ a[4] = a[3] * 2 + V(4) /\ a[5] = a[4] * 2 + V(5) /\ a[6] = a[5] * 2 + V(6)
          /\ a[7] = a[6] * 2 + V(7) /\ a[8] = a[7] * 2 + V(8)
      BY <1>4, <2>2
    <2>4. /\ V(1) \in 0..1 /\ V(2) \in 0..1 /\ V(3) \in 0..1 /\ V(4) \in 0..1
          /\ V(5) \in 0..1 /\ V(6) \in 0..1 /\ V(7) \in 0..1 /\ V(8) \in 0..1
      BY <2>2
    <2>5. b = ((((((V(1) * 2 + V(2)) * 2 + V(3)) * 2 + V(4)) * 2 + V(5)) * 2 + V(6)) * 2
                 + V(7)) * 2 + V(8)
      BY <1>4, <2>1, <2>3, <2>4
    <2>6. /\ b \in 0..255
          /\ (b \div 128) % 2 = V(1) /\ (b \div 64) % 2 = V(2)
          /\ (b \div 32) % 2 = V(3) /\ (b \div 16) % 2 = V(4)
          /\ (b \div 8) % 2 = V(5) /\ (b \div 4) % 2 = V(6)
          /\ (b \div 2) % 2 = V(7) /\ (b \div 1) % 2 = V(8)
      BY <2>4, <2>5, Eighths
    <2>7. \A r \in 0..p - 1 : \/ r = 0 /\ 8 - pic.depth * (r + 1) = 7 /\ r + 1 = 1
                              \/ r = 1 /\ 8 - pic.depth * (r + 1) = 6 /\ r + 1 = 2
                              \/ r = 2 /\ 8 - pic.depth * (r + 1) = 5 /\ r + 1 = 3
                              \/ r = 3 /\ 8 - pic.depth * (r + 1) = 4 /\ r + 1 = 4
                              \/ r = 4 /\ 8 - pic.depth * (r + 1) = 3 /\ r + 1 = 5
                              \/ r = 5 /\ 8 - pic.depth * (r + 1) = 2 /\ r + 1 = 6
                              \/ r = 6 /\ 8 - pic.depth * (r + 1) = 1 /\ r + 1 = 7
                              \/ r = 7 /\ 8 - pic.depth * (r + 1) = 0 /\ r + 1 = 8
      BY <1>10, <2>1
    <2>8. ASSUME NEW r \in 0..p - 1
          PROVE  (b \div 2^(8 - pic.depth * (r + 1))) % 2^pic.depth = V(r + 1)
      <3>1. PICK s, e, f : s = 8 - pic.depth * (r + 1) /\ e = 2^s /\ f = 2^pic.depth
        OBVIOUS
      <3>2. s \in 0..7
        BY <2>1, <2>7, <3>1
      <3>3. e = IF s = 0 THEN 1 ELSE IF s = 1 THEN 2 ELSE IF s = 2 THEN 4 ELSE IF s = 3 THEN 8
                ELSE IF s = 4 THEN 16 ELSE IF s = 5 THEN 32 ELSE IF s = 6 THEN 64 ELSE 128
        BY ONLY <3>1, <3>2, Shifts
      <3>4. (b \div e) % f = V(r + 1)
        BY ONLY <2>1, <2>6, <2>7, <3>1, <3>3
      <3> QED
        BY <3>1, <3>4
    <2> QED
      BY <2>6, <2>8
  <1> QED
    BY <1>1, <1>7, <1>8, <1>9, <1>10

(* What eight bits keep of a sample. *)
Eight(pic, v) == IF pic.depth = 16 THEN v \div 256 ELSE v

(* The bytes of a line are as many as its bits need. *)
LEMMA StrideIs ==
    ASSUME NEW pic, IsPicture(pic)
    PROVE  /\ Stride(pic) \in Nat \ {0} /\ PerPixel(pic) \in Nat \ {0}
           /\ pic.depth = 16 => Stride(pic) = 2 * Count(pic)
           /\ pic.depth # 16 => Stride(pic) = (Count(pic) + (8 \div pic.depth) - 1) \div (8 \div pic.depth)
  <1>1. PICK w, c, d, n : w = pic.width /\ c = Channels[pic.colour] /\ d = pic.depth /\ n = w * c
    OBVIOUS
  <1>2. w \in Nat \ {0} /\ c \in 1..4 /\ d \in {1, 2, 4, 8, 16} /\ n \in Nat \ {0} /\ n = Count(pic)
    BY <1>1, KindsOfPictures DEF Count
  <1>3. w * (c * d) = n * d
    BY <1>1, <1>2
  <1>4. Stride(pic) = (n * d + 7) \div 8
    BY <1>1, <1>3 DEF Stride, Bits
  <1>5. Stride(pic) \in Nat \ {0}
    BY ONLY <1>2, <1>4
  <1>6. d = 16 => Stride(pic) = 2 * n
    BY ONLY <1>2, <1>4
  <1>7. d # 16 => Stride(pic) = (n + (8 \div d) - 1) \div (8 \div d)
    <2>1. CASE d = 1
      BY ONLY <1>2, <1>4, <2>1
    <2>2. CASE d = 2
      BY ONLY <1>2, <1>4, <2>2
    <2>3. CASE d = 4
      BY ONLY <1>2, <1>4, <2>3
    <2>4. CASE d = 8
      BY ONLY <1>2, <1>4, <2>4
    <2> QED
      BY <1>2, <2>1, <2>2, <2>3, <2>4
  <1>8. PerPixel(pic) \in Nat \ {0}
    <2>1. c * d \in Nat /\ PerPixel(pic) = IF c * d < 8 THEN 1 ELSE (c * d) \div 8
      BY <1>1, <1>2 DEF PerPixel, Bits
    <2> QED
      BY <2>1
  <1> QED
    BY <1>1, <1>2, <1>5, <1>6, <1>7, <1>8

(* The line of a picture is a line of bytes that has its samples in it.    *)
LEMMA LineHasSamples ==
    ASSUME NEW pic, IsPicture(pic), NEW y \in 1..pic.height
    PROVE  /\ LineOf(pic, y) \in [1..Stride(pic) -> 0..255]
           /\ \A x \in 0..Count(pic) - 1 :
                 Sample(LineOf(pic, y), pic.depth, x) = Eight(pic, SampleAt(pic, y, x))
  <1>1. PICK line, n, d : line = LineOf(pic, y) /\ n = Count(pic) /\ d = pic.depth
    OBVIOUS
  <1>2. n \in Nat \ {0} /\ d \in {1, 2, 4, 8, 16}
    BY <1>1, KindsOfPictures
  <1>3. CASE d = 16
    <2>1. line = [i \in 1..2 * n |-> IF i % 2 = 1 THEN SampleAt(pic, y, (i - 1) \div 2) \div 256
                                     ELSE SampleAt(pic, y, (i - 1) \div 2) % 256]
      BY <1>1, <1>3 DEF LineOf, Count
    <2>2. PICK m : m = 2^pic.depth - 1 /\ m = 65535
      BY <1>1, <1>3, Powers
    <2>3. ASSUME NEW i \in 1..2 * n
          PROVE  line[i] \in 0..255
      <3>1. PICK j, v : j = (i - 1) \div 2 /\ v = SampleAt(pic, y, j)
        OBVIOUS
      <3>2. j \in Nat
        BY <1>2, <3>1
      <3>3. v \in 0..m
        BY <2>2, <3>1, <3>2, SampleAtIs
      <3>4. v \div 256 \in 0..255 /\ v % 256 \in 0..255
        BY ONLY <2>2, <3>3
      <3>5. line[i] = IF i % 2 = 1 THEN v \div 256 ELSE v % 256
        BY <2>1, <3>1
      <3> QED
        BY <3>4, <3>5
    <2>4. line \in [1..2 * n -> 0..255]
      <3>1. line = [i \in 1..2 * n |-> line[i]]
        BY <2>1
      <3> QED
        BY <2>3, <3>1
    <2>5. ASSUME NEW x \in 0..n - 1
          PROVE  Sample(line, d, x) = Eight(pic, SampleAt(pic, y, x))
      <3>1. PICK i : i = x * 2 + 1
        OBVIOUS
      <3>2. i \in 1..2 * n /\ i % 2 = 1 /\ (i - 1) \div 2 = x
        BY <1>2, <3>1
      <3>3. line[i] = SampleAt(pic, y, x) \div 256
        BY <2>1, <3>2
      <3> QED
        BY <1>1, <1>3, <3>1, <3>3 DEF Sample, Eight
    <2> QED
      BY <1>1, <1>3, <2>4, <2>5, StrideIs
  <1>4. CASE d # 16
    <2>1. PICK p, m : p = 8 \div d /\ m = (n + p - 1) \div p
      OBVIOUS
    <2>2. d \in {1, 2, 4, 8} /\ p \in {1, 2, 4, 8}
      BY <1>2, <1>4, <2>1
    <2>3. m = Stride(pic)
      BY <1>1, <1>4, <2>1, StrideIs
    <2>4. line = [i \in 1..m |-> line[i]]
      <3> DEFINE E(i) == LET part[k \in 0..p] ==
                                IF k = 0 THEN 0
                                ELSE part[k - 1] * 2^pic.depth
                                     + SampleAt(pic, y, (i - 1) * p + k - 1)
                         IN part[p]
      <3>1. pic.depth # 16 /\ pic.depth < 16
        BY <1>1, <1>2, <1>4
      <3>2. line = [i \in 1..m |-> E(i)]
        <4>1. 8 \div pic.depth = p /\ pic.width * Channels[pic.colour] = n
          BY <1>1, <2>1 DEF Count
        <4>2. LineOf(pic, y) =
                LET samples == pic.width * Channels[pic.colour]
                    per_byte == 8 \div pic.depth IN
                [i \in 1..(samples + per_byte - 1) \div per_byte |->
                    LET part[k \in 0..per_byte] ==
                            IF k = 0 THEN 0
                            ELSE part[k - 1] * 2^pic.depth
                                 + SampleAt(pic, y, (i - 1) * per_byte + k - 1)
                    IN part[per_byte]]
          BY <3>1 DEF LineOf
        <4> QED
          BY ONLY <1>1, <2>1, <4>1, <4>2
      <3> HIDE DEF E
      <3> QED
        BY <3>2
    <2>5. ASSUME NEW i \in 1..m
          PROVE  /\ line[i] \in 0..255
                 /\ \A r \in 0..p - 1 : (line[i] \div 2^(8 - d * (r + 1))) % 2^d
                                            = SampleAt(pic, y, (i - 1) * p + r)
      BY <1>1, <1>4, <2>1, PackedBack
    <2>6. line \in [1..m -> 0..255]
      BY <2>4, <2>5
    <2>7. ASSUME NEW x \in 0..n - 1
          PROVE  Sample(line, d, x) = SampleAt(pic, y, x)
      <3>1. PICK i, r : i = (x \div p) + 1 /\ r = x % p
        OBVIOUS
      <3>2. i \in 1..m /\ r \in 0..p - 1 /\ (i - 1) * p + r = x
        <4>1. x \in Int /\ x >= 0 /\ x <= n - 1 /\ n \in Int
          BY <1>2
        <4>2. CASE p = 1
          BY ONLY <2>1, <3>1, <4>1, <4>2
        <4>3. CASE p = 2
          BY ONLY <2>1, <3>1, <4>1, <4>3
        <4>4. CASE p = 4
          BY ONLY <2>1, <3>1, <4>1, <4>4
        <4>5. CASE p = 8
          BY ONLY <2>1, <3>1, <4>1, <4>5
        <4> QED
          BY <2>2, <4>2, <4>3, <4>4, <4>5
      <3>3. line[i] \in 0..255 /\ (line[i] \div 2^(8 - d * (r + 1))) % 2^d = SampleAt(pic, y, x)
        BY <2>5, <3>2
      <3>4. CASE d = 8
        <4>1. p = 1 /\ r = 0 /\ i = x + 1 /\ 8 - d * (r + 1) = 0
          BY <2>1, <3>1, <3>2, <3>4
        <4>2. (line[i] \div 1) % 256 = SampleAt(pic, y, x)
          BY <3>3, <3>4, <4>1, Powers
        <4>3. SampleAt(pic, y, x) = line[x + 1]
          BY ONLY <3>3, <4>1, <4>2
        <4> QED
          BY <3>4, <4>3 DEF Sample
      <3>5. CASE d # 8
        <4>1. Sample(line, d, x) = (line[i] \div 2^(8 - d * (r + 1))) % 2^d
          BY <1>4, <2>1, <3>1, <3>5 DEF Sample
        <4> QED
          BY <3>3, <4>1
      <3> QED
        BY <3>4, <3>5
    <2> QED
      BY <1>1, <1>4, <2>3, <2>6, <2>7 DEF Eight
  <1> QED
    BY <1>3, <1>4

-----------------------------------------------------------------------------
(* The lines of a picture in its data *)

(* The lines of a picture. *)
LinesOf(pic) == [y \in 1..pic.height |-> LineOf(pic, y)]

(* The lines of a picture are lines of bytes.                              *)
LEMMA LinesOfBytes ==
    ASSUME NEW pic, IsPicture(pic), NEW types \in [1..pic.height -> 0..4]
    PROVE  AreLines(LinesOf(pic), types, pic.height, Stride(pic))
  <1>1. \A y \in 1..pic.height : LineOf(pic, y) \in [1..Stride(pic) -> 0..255]
    BY LineHasSamples
  <1>2. LinesOf(pic) \in [1..pic.height -> [1..Stride(pic) -> 0..255]]
    BY <1>1 DEF LinesOf
  <1> QED
    BY <1>2 DEF AreLines

(* A filtered line with its type before it. *)
IsRow(row, L, type, line, above, bpp) ==
    /\ row \in [1..L + 1 -> 0..255] /\ row[1] = type
    /\ \A i \in 1..L : row[1 + i] = FilteredLine(type, line, above, bpp)[i]

(* A filtered line with its type is such a row.                            *)
LEMMA TypeAndLine ==
    ASSUME NEW L \in Nat, NEW line \in [1..L -> 0..255], NEW above \in [1..L -> 0..255],
           NEW type \in 0..4, NEW bpp \in Nat \ {0},
           NEW row, row = <<type>> \o FilteredLine(type, line, above, bpp)
    PROVE  IsRow(row, L, type, line, above, bpp)
  <1>1. line \in Seq(0..255) /\ above \in Seq(0..255) /\ Len(line) = L /\ Len(above) = L
    BY SeqDef, LenProperties
  <1>2. PICK f, t, p, S : /\ f = FilteredLine(type, line, above, bpp) /\ t = <<type>>
                          /\ p = 1 /\ S = 0..255
    OBVIOUS
  <1>3. f \in [1..L -> S]
    <2>1. FilteredLine(type, line, above, bpp) \in [1..Len(line) -> 0..255]
      BY <1>1, LineComesBack
    <2> QED
      BY ONLY <1>1, <1>2, <2>1
  <1>4. t \in [1..p -> S] /\ t[1] = type /\ p \in Nat
    <2>1. type \in S
      BY <1>2
    <2>2. <<type>> \in [1..1 -> S] /\ <<type>>[1] = type
      BY <2>1
    <2>3. 1 \in Nat
      OBVIOUS
    <2> QED
      BY ONLY <1>2, <2>2, <2>3
  <1>5. L \in Nat
    OBVIOUS
  <1>6. t \o f \in [1..p + L -> S]
    BY ONLY <1>3, <1>4, <1>5, Concatenation
  <1>7. \A i \in 1..p : (t \o f)[i] = t[i]
    BY ONLY <1>3, <1>4, <1>5, Concatenation
  <1>8. \A i \in 1..L : (t \o f)[p + i] = f[i]
    BY ONLY <1>3, <1>4, <1>5, Concatenation
  <1>9. row = t \o f /\ p + L = L + 1
    BY <1>2
  <1>10. row[1] = type
    BY <1>2, <1>4, <1>7, <1>9
  <1>11. row \in [1..L + 1 -> 0..255]
    BY ONLY <1>2, <1>6, <1>9
  <1>12. \A i \in 1..L : row[1 + i] = f[i]
    BY ONLY <1>2, <1>8, <1>9
  <1> QED
    BY <1>2, <1>10, <1>11, <1>12 DEF IsRow

(* The raw data of a picture hold its lines, whatever filters they have.   *)
LEMMA RawHoldsLines ==
    ASSUME NEW pic, IsPicture(pic), NEW types \in [1..pic.height -> 0..4]
    PROVE  /\ RawOf(pic, types) \in [1..pic.height * (Stride(pic) + 1) -> 0..255]
           /\ HoldsLines(RawOf(pic, types), LinesOf(pic), types, pic.height, Stride(pic),
                         PerPixel(pic))
  <1> DEFINE h == pic.height
             L == Stride(pic)
             bpp == PerPixel(pic)
             lines == LinesOf(pic)
             Row(y) == <<types[y]>> \o FilteredLine(types[y], lines[y], Above(lines, y, L), bpp)
             rows == [y \in 1..h |-> Row(y)]
  <1>1. h \in Nat \ {0} /\ L \in Nat \ {0} /\ bpp \in Nat \ {0}
    BY KindsOfPictures, StrideIs
  <1>2. lines \in [1..h -> [1..L -> 0..255]] /\ \A y \in 1..h : lines[y] = LineOf(pic, y)
    BY LinesOfBytes DEF AreLines, LinesOf
  <1>3. RawOf(pic, types) = FlattenSeq(rows)
    <2>1. Len(LineOf(pic, 1)) = L
      <3>1. LineOf(pic, 1) \in [1..L -> 0..255]
        <4>1. 1 \in 1..pic.height
          BY <1>1
        <4> QED
          BY <4>1, LineHasSamples
      <3> HIDE DEF L
      <3> QED
        BY <1>1, <3>1, LenProperties
    <2>2. ASSUME NEW y \in 1..h
          PROVE  Row(y) = <<types[y]>> \o FilteredLine(types[y], LineOf(pic, y),
                             IF y = 1 THEN [i \in 1..Len(LineOf(pic, 1)) |-> 0]
                             ELSE LineOf(pic, y - 1), bpp)
      <3>1. lines[y] = LineOf(pic, y)
        BY <1>2
      <3>2. Above(lines, y, L) = IF y = 1 THEN [i \in 1..Len(LineOf(pic, 1)) |-> 0]
                                 ELSE LineOf(pic, y - 1)
        <4>1. CASE y = 1
          BY <2>1, <4>1 DEF Above
        <4>2. CASE y # 1
          <5>1. y - 1 \in 1..h
            BY <1>1, <4>2
          <5> QED
            BY <1>2, <4>2, <5>1 DEF Above
        <4> QED
          BY <4>1, <4>2
      <3> QED
        BY <3>1, <3>2
    <2>3. rows = [y \in 1..h |-> <<types[y]>> \o FilteredLine(types[y], LineOf(pic, y),
                             IF y = 1 THEN [i \in 1..Len(LineOf(pic, 1)) |-> 0]
                             ELSE LineOf(pic, y - 1), bpp)]
      <3> HIDE DEF Row
      <3> QED
        BY <2>2
    <2> QED
      BY <2>3 DEF RawOf, PerPixel, Bits
  <1>4. ASSUME NEW y \in 1..h
        PROVE  /\ rows[y] \in [1..L + 1 -> 0..255] /\ rows[y][1] = types[y]
               /\ \A i \in 1..L : rows[y][1 + i]
                     = FilteredLine(types[y], lines[y], Above(lines, y, L), bpp)[i]
    <2>1. PICK line, above, row, type : /\ line = lines[y] /\ above = Above(lines, y, L)
                                        /\ row = Row(y) /\ type = types[y]
      OBVIOUS
    <2>2. above \in [1..L -> 0..255]
      <3>1. CASE y = 1
        BY <2>1, <3>1 DEF Above
      <3>2. CASE y # 1
        <4>1. y - 1 \in 1..h
          BY <1>1, <3>2
        <4> HIDE DEF lines, L
        <4> QED
          BY <1>2, <2>1, <3>2, <4>1 DEF Above
      <3> QED
        BY <3>1, <3>2
    <2>3. line \in [1..L -> 0..255] /\ type \in 0..4
      BY <1>2, <2>1
    <2>4. row = <<type>> \o FilteredLine(type, line, above, bpp) /\ rows[y] = row
      BY <2>1
    <2> HIDE DEF rows, Row, lines, L, bpp
    <2>5. IsRow(row, L, type, line, above, bpp)
      BY <1>1, <2>2, <2>3, <2>4, TypeAndLine
    <2> QED
      BY <2>1, <2>4, <2>5 DEF IsRow
  <1>5. rows \in [1..h -> [1..L + 1 -> 0..255]]
    BY <1>4
  <1> HIDE DEF rows, lines, L, bpp, h
  <1>6. PICK M, raw : M = L + 1 /\ raw = FlattenSeq(rows)
    OBVIOUS
  <1>7. M \in Nat \ {0} /\ h \in Nat /\ rows \in [1..h -> [1..M -> 0..255]]
    <2>1. rows \in [1..h -> [1..M -> 0..255]]
      BY ONLY <1>5, <1>6
    <2>2. M \in Nat \ {0}
      BY ONLY <1>1, <1>6
    <2> QED
      BY <1>1, <2>1, <2>2
  <1>8. raw = [k \in 1..h * M |-> rows[((k - 1) \div M) + 1][((k - 1) % M) + 1]]
    <2>1. PICK S : S = 0..255
      OBVIOUS
    <2>2. M \in Nat \ {0} /\ h \in Nat /\ rows \in [1..h -> [1..M -> S]]
      BY <1>7, <2>1
    <2>3. FlattenSeq(rows) = InARow(rows, h, M)
      BY ONLY <2>2, FlattenRows
    <2> QED
      BY ONLY <1>6, <2>3 DEF InARow
  <1>9. ASSUME NEW y \in 1..h, NEW i \in 1..M
        PROVE  raw[(y - 1) * M + i] = rows[y][i]
    <2>1. PICK k : k = (y - 1) * M + i
      OBVIOUS
    <2>2. k \in 1..h * M
      BY <1>7, <2>1, PlaceInRows
    <2>3. (k - 1) \div M = y - 1 /\ (k - 1) % M = i - 1
      <3>1. k - 1 = (y - 1) * M + i - 1
        BY <1>7, <2>1
      <3>2. ((y - 1) * M + i - 1) \div M = y - 1
        BY <1>7, PlaceInRows
      <3>3. ((y - 1) * M + i - 1) % M = i - 1
        BY <1>7, PlaceInRows
      <3> QED
        BY ONLY <3>1, <3>2, <3>3
    <2>4. (y - 1) + 1 = y /\ (i - 1) + 1 = i
      OBVIOUS
    <2> QED
      BY <1>8, <2>1, <2>2, <2>3, <2>4
  <1>10. raw \in [1..h * M -> 0..255]
    <2>1. ASSUME NEW k \in 1..h * M
          PROVE  rows[((k - 1) \div M) + 1][((k - 1) % M) + 1] \in 0..255
      <3>1. PICK q, r : q = (k - 1) \div M /\ r = (k - 1) % M
        OBVIOUS
      <3>2. q \in 0..h - 1 /\ r \in 0..M - 1
        BY <1>7, <3>1, RowAndColumn
      <3>3. q + 1 \in 1..h /\ r + 1 \in 1..M
        BY <1>7, <3>2
      <3> QED
        BY <1>7, <3>1, <3>3
    <2> QED
      BY <1>8, <2>1
  <1>11. Len(raw) = h * M
    <2>1. PICK n : n = h * M /\ n \in Nat
      BY <1>7
    <2>2. raw \in [1..n -> 0..255]
      BY <1>10, <2>1
    <2> QED
      BY <2>1, <2>2, LenProperties
  <1>12. HoldsLines(raw, lines, types, h, L, bpp)
    <2>1. Len(raw) >= h * (L + 1)
      <3>1. h * M \in Int
        BY <1>7
      <3> QED
        BY <1>6, <1>11, <3>1
    <2>2. ASSUME NEW y \in 1..h
          PROVE  raw[(y - 1) * (L + 1) + 1] = types[y]
      <3>1. 1 \in 1..M
        BY <1>1, <1>6
      <3> QED
        BY <1>4, <1>6, <1>9, <3>1
    <2>3. ASSUME NEW y \in 1..h, NEW i \in 1..L
          PROVE  raw[(y - 1) * (L + 1) + 1 + i]
                    = FilteredLine(types[y], lines[y], Above(lines, y, L), bpp)[i]
      <3>1. 1 + i \in 1..M /\ (y - 1) * M + (1 + i) = (y - 1) * M + 1 + i
        BY <1>1, <1>6
      <3>2. raw[(y - 1) * M + (1 + i)] = rows[y][1 + i]
        BY <1>9, <3>1
      <3> QED
        BY <1>4, <1>6, <3>1, <3>2
    <2> QED
      BY <2>1, <2>2, <2>3 DEF HoldsLines
  <1> QED
    BY <1>3, <1>6, <1>10, <1>12 DEF h, L, lines, bpp

-----------------------------------------------------------------------------
(* The pixels of a picture in its lines *)

(* Where value i of the pixels is: in line y, pixel x, colour c, both for  *)
(* the reader, who counts pixels, and in lines put together.               *)
IsAt(i, w, y, x, c) ==
    /\ ((i - 1) \div 3) \div w = y /\ ((i - 1) \div 3) % w = x /\ (i - 1) % 3 = c
    /\ (i - 1) \div (w * 3) = y
    /\ ((((i - 1) % (w * 3)) + 1) - 1) \div 3 = x /\ ((((i - 1) % (w * 3)) + 1) - 1) % 3 = c

(* Every value of the pixels has a line, a pixel and a colour.             *)
LEMMA PlaceOfAPixel ==
    ASSUME NEW w \in Nat \ {0}, NEW h \in Nat \ {0}, NEW i \in 1..w * h * 3
    PROVE  \E y \in 0..h - 1, x \in 0..w - 1, c \in 0..2 : IsAt(i, w, y, x, c)
  <1>1. PICK n, c, y, x, L, r : /\ n = (i - 1) \div 3 /\ c = (i - 1) % 3
                                /\ y = n \div w /\ x = n % w /\ L = w * 3 /\ r = x * 3 + c
    OBVIOUS
  <1>2. n \in 0..w * h - 1 /\ c \in 0..2 /\ n * 3 + c = i - 1
    <2>1. PICK m : m = w * h
      OBVIOUS
    <2>2. m \in Nat /\ 3 \in Nat \ {0} /\ i \in 1..m * 3
      BY <2>1
    <2>3. /\ (i - 1) \div 3 \in 0..m - 1 /\ (i - 1) % 3 \in 0..3 - 1
          /\ ((i - 1) \div 3) * 3 + ((i - 1) % 3) = i - 1
      BY <2>2, RowAndColumn
    <2> QED
      BY <1>1, <2>1, <2>3
  <1>3. y \in 0..h - 1 /\ x \in 0..w - 1 /\ y * w + x = n
    <2>1. PICK k : k = n + 1
      OBVIOUS
    <2>2. k \in 1..h * w /\ k - 1 = n
      BY <1>2, <2>1
    <2>3. /\ (k - 1) \div w \in 0..h - 1 /\ (k - 1) % w \in 0..w - 1
          /\ ((k - 1) \div w) * w + ((k - 1) % w) = k - 1
      BY <2>2, RowAndColumn
    <2> QED
      BY <1>1, <2>2, <2>3
  <1>4. L \in Nat \ {0} /\ r \in 0..L - 1 /\ y \in Int /\ i - 1 = y * L + r
    <2>1. r \in 0..L - 1 /\ L \in Nat \ {0}
      BY <1>1, <1>2, <1>3
    <2>2. y \in Int /\ x \in Int /\ w \in Int /\ c \in Int
      BY <1>2, <1>3
    <2>3. PICK q : q = y * w
      OBVIOUS
    <2>4. q \in Int
      BY ONLY <2>2, <2>3
    <2>5. y * L = q * 3
      BY ONLY <1>1, <2>2, <2>3
    <2>6. i - 1 = (q + x) * 3 + c
      BY ONLY <1>2, <1>3, <2>3
    <2>7. (q + x) * 3 + c = y * L + r
      BY ONLY <1>1, <2>2, <2>4, <2>5
    <2> QED
      BY <2>1, <2>2, <2>6, <2>7
  <1>5. (i - 1) \div L = y
    BY ONLY <1>4, DivMod
  <1>6. (i - 1) % L = r
    BY ONLY <1>4, DivMod
  <1>7. (r + 1) - 1 = r /\ r \div 3 = x /\ r % 3 = c
    <2>1. x \in Int /\ c \in 0..3 - 1 /\ 3 \in Nat \ {0} /\ r = x * 3 + c
      BY <1>1, <1>2, <1>3
    <2> QED
      BY ONLY <2>1
  <1>8. IsAt(i, w, y, x, c)
    BY ONLY <1>1, <1>5, <1>6, <1>7 DEF IsAt
  <1> QED
    BY <1>2, <1>3, <1>8

HeaderFor(pic) ==
    [width |-> pic.width, height |-> pic.height, depth |-> pic.depth, colour |-> pic.colour,
     compression |-> 0, filter_method |-> 0, interlace |-> 0]

(* The reader's sample of a pixel is the picture's, in eight bits.         *)
LEMMA SampleOfAPixel ==
    ASSUME NEW pic, IsPicture(pic), NEW y \in 1..pic.height, NEW x \in 0..pic.width - 1,
           NEW c \in 0..Channels[pic.colour] - 1
    PROVE  Sample(LineOf(pic, y), pic.depth, x * Channels[pic.colour] + c)
              = Eight(pic, pic.samples[y][x][c])
  <1>1. PICK w, n, i : w = pic.width /\ n = Channels[pic.colour] /\ i = x * n + c
    OBVIOUS
  <1>2. w \in Nat \ {0} /\ n \in Nat \ {0} /\ x \in 0..w - 1 /\ c \in 0..n - 1
    BY <1>1, KindsOfPictures
  <1>3. i \in 0..w * n - 1
    <2>1. (w - 1 - x) * n >= 0 /\ (w - 1 - x) * n = w * n - n - x * n /\ x * n >= 0
      BY <1>2
    <2>2. x * n \in Int /\ w * n \in Int
      BY <1>2
    <2> QED
      BY <1>1, <1>2, <2>1, <2>2
  <1>4. i \div n = x /\ i % n = c
    <2>1. x \in Int
      BY <1>2
    <2>2. (x * n + c) \div n = x /\ (x * n + c) % n = c
      BY ONLY <1>2, <2>1, DivMod
    <2> QED
      BY ONLY <1>1, <2>2
  <1>5. SampleAt(pic, y, i) = pic.samples[y][x][c]
    <2>1. i < w * n
      BY <1>2, <1>3
    <2> QED
      BY <1>1, <1>4, <2>1 DEF SampleAt
  <1>6. i \in 0..Count(pic) - 1
    BY <1>1, <1>3 DEF Count
  <1> QED
    BY <1>1, <1>5, <1>6, LineHasSamples

(* The red, green and blue of a pixel. *)
Colour(pic, s, c) ==
    CASE pic.colour = Palette -> pic.palette[s[0] * 3 + c + 1]
      [] pic.colour \in {Grey, GreyAlpha} -> Eight(pic, s[0])
      [] pic.colour \in {RGB, RGBA} -> Eight(pic, s[c])

(* The reader's colours of a pixel are the picture's.                      *)
LEMMA PixelOfALine ==
    ASSUME NEW pic, IsPicture(pic), NEW y \in 1..pic.height, NEW x \in 0..pic.width - 1,
           NEW c \in 0..2
    PROVE  Pixel(LineOf(pic, y), HeaderFor(pic), pic.palette, x)[c]
              = Colour(pic, pic.samples[y][x], c)
  <1>1. PICK line, n, p : /\ line = LineOf(pic, y) /\ n = Channels[pic.colour]
                          /\ p = Pixel(line, HeaderFor(pic), pic.palette, x)[c]
    OBVIOUS
  <1>2. /\ n \in 1..4 /\ (pic.colour = Palette => n = 1 /\ pic.depth < 16)
        /\ (pic.colour \in {RGB, RGBA} => n >= 3)
        /\ pic.colour \in {Grey, RGB, GreyAlpha, RGBA, Palette}
    BY <1>1, KindsOfPictures
  <1>3. \A k \in 0..n - 1 : Sample(line, pic.depth, x * n + k) = Eight(pic, pic.samples[y][x][k])
    BY <1>1, SampleOfAPixel
  <1>4. HeaderFor(pic).colour = pic.colour /\ HeaderFor(pic).depth = pic.depth
    BY DEF HeaderFor
  <1>5. p = CASE pic.colour \in {RGB, RGBA} -> Sample(line, pic.depth, x * n + c)
              [] pic.colour \in {Grey, GreyAlpha} -> Sample(line, pic.depth, x * n + 0)
              [] pic.colour = Palette -> pic.palette[Sample(line, pic.depth, x * n + 0) * 3 + c + 1]
    BY <1>1, <1>4 DEF Pixel
  <1>6. 0 \in 0..n - 1
    BY <1>2
  <1>7. CASE pic.colour = Palette
    <2>1. Sample(line, pic.depth, x * n + 0) = pic.samples[y][x][0]
      BY <1>2, <1>3, <1>6, <1>7 DEF Eight
    <2> QED
      BY <1>1, <1>5, <1>7, <2>1 DEF Colour, RGB, Grey, Palette, GreyAlpha, RGBA
  <1>8. CASE pic.colour \in {Grey, GreyAlpha}
    BY <1>1, <1>3, <1>5, <1>6, <1>8 DEF Colour, RGB, Grey, Palette, GreyAlpha, RGBA
  <1>9. CASE pic.colour \in {RGB, RGBA}
    <2>1. c \in 0..n - 1
      BY <1>2, <1>9
    <2> QED
      BY <1>1, <1>3, <1>5, <1>9, <2>1 DEF Colour, RGB, Grey, Palette, GreyAlpha, RGBA
  <1> QED
    BY <1>2, <1>7, <1>8, <1>9

(* Reading the lines of a picture shows the picture. *)
LEMMA LinesShowThePicture ==
    ASSUME NEW pic, IsPicture(pic)
    PROVE  /\ InPalette(LinesOf(pic), HeaderFor(pic), pic.palette)
           /\ ToRGB(LinesOf(pic), HeaderFor(pic), pic.palette) = Shows(pic)
  <1>1. PICK w, h, L, lines : w = pic.width /\ h = pic.height /\ L = w * 3 /\ lines = LinesOf(pic)
    OBVIOUS
  <1>2. w \in Nat \ {0} /\ h \in Nat \ {0} /\ L \in Nat \ {0} /\ h * L = w * h * 3
    <2>1. w \in Nat \ {0} /\ h \in Nat \ {0}
      BY <1>1, KindsOfPictures
    <2> QED
      BY <1>1, <2>1
  <1>3. \A y \in 1..h : lines[y] = LineOf(pic, y)
    BY <1>1 DEF LinesOf
  <1> DEFINE Value(y, i) == Colour(pic, pic.samples[y][(i - 1) \div 3], (i - 1) % 3)
             rows == [y \in 1..h |-> [i \in 1..L |-> Value(y, i)]]
             S == {Value(y, i) : y \in 1..h, i \in 1..L}
             data == [k \in 1..w * h * 3 |->
                         LET n == (k - 1) \div 3 IN
                         Pixel(lines[n \div w + 1], HeaderFor(pic), pic.palette,
                               n % w)[(k - 1) % 3]]
  <1>4. Shows(pic) = [width |-> w, height |-> h, data |-> FlattenSeq(rows)]
    BY <1>1 DEF Shows, Colour, Eight
  <1>5. ToRGB(lines, HeaderFor(pic), pic.palette) = [width |-> w, height |-> h, data |-> data]
    BY <1>1 DEF ToRGB, HeaderFor
  <1>6. rows \in [1..h -> [1..L -> S]]
    <2> HIDE DEF Value
    <2> QED
      OBVIOUS
  <1>7. FlattenSeq(rows) = InARow(rows, h, L)
    <2> HIDE DEF rows, S
    <2>1. h \in Nat
      BY <1>2
    <2> QED
      BY <1>2, <1>6, <2>1, FlattenRows
  <1>8. ASSUME NEW k \in 1..w * h * 3
        PROVE  InARow(rows, h, L)[k] = data[k]
    <2>1. PICK y \in 0..h - 1, x \in 0..w - 1, c \in 0..2 : IsAt(k, w, y, x, c)
      BY <1>2, PlaceOfAPixel
    <2>2. k \in 1..h * L
      BY <1>2
    <2>3. PICK r : r = (k - 1) % L
      OBVIOUS
    <2>4. (k - 1) \div L = y /\ ((r + 1) - 1) \div 3 = x /\ ((r + 1) - 1) % 3 = c
      BY <1>1, <2>1, <2>3 DEF IsAt
    <2>5. r + 1 \in 1..L
      <3>1. h \in Nat
        BY <1>2
      <3>2. (k - 1) % L \in 0..L - 1
        BY <1>2, <2>2, <3>1, RowAndColumn
      <3> QED
        BY <1>2, <2>3, <3>2
    <2>6. y + 1 \in 1..h
      BY <1>2
    <2>7. InARow(rows, h, L)[k] = rows[y + 1][r + 1]
      BY <2>2, <2>3, <2>4 DEF InARow
    <2>8. rows[y + 1][r + 1] = Colour(pic, pic.samples[y + 1][x], c)
      BY <2>4, <2>5, <2>6
    <2>9. data[k] = Pixel(lines[y + 1], HeaderFor(pic), pic.palette, x)[c]
      BY <2>1 DEF IsAt
    <2>10. Pixel(LineOf(pic, y + 1), HeaderFor(pic), pic.palette, x)[c]
              = Colour(pic, pic.samples[y + 1][x], c)
      BY <1>1, <2>6, PixelOfALine
    <2> QED
      BY <1>3, <2>6, <2>7, <2>8, <2>9, <2>10
  <1>9. InARow(rows, h, L) = data
    <2>1. InARow(rows, h, L) = [k \in 1..w * h * 3 |-> InARow(rows, h, L)[k]]
      BY <1>2 DEF InARow
    <2>2. data = [k \in 1..w * h * 3 |-> data[k]]
      OBVIOUS
    <2> HIDE DEF data, rows
    <2> QED
      BY <1>8, <2>1, <2>2
  <1>10. ToRGB(lines, HeaderFor(pic), pic.palette) = Shows(pic)
    BY <1>4, <1>5, <1>7, <1>9
  <1>11. InPalette(lines, HeaderFor(pic), pic.palette)
    <2> SUFFICES ASSUME pic.colour = Palette, NEW y \in 1..h, NEW x \in 0..w - 1
                 PROVE  Sample(lines[y], pic.depth, x) * 3 + 3 <= Len(pic.palette)
      BY <1>1 DEF InPalette, HeaderFor
    <2>1. Channels[pic.colour] = 1 /\ pic.depth < 16
      BY KindsOfPictures
    <2>2. PICK n, z : n = 1 /\ z = 0
      OBVIOUS
    <2>3. z \in 0..Channels[pic.colour] - 1
      BY <2>1, <2>2
    <2>4. Sample(LineOf(pic, y), pic.depth, x * Channels[pic.colour] + z)
              = Eight(pic, pic.samples[y][x][z])
      BY <1>1, <2>3, SampleOfAPixel
    <2>5. x * Channels[pic.colour] + z = x
      BY <1>2, <2>1, <2>2
    <2>6. Sample(LineOf(pic, y), pic.depth, x) = pic.samples[y][x][0]
      BY <2>1, <2>2, <2>4, <2>5 DEF Eight
    <2>7. pic.samples[y][x][0] * 3 + 3 <= Len(pic.palette)
      BY <1>1 DEF IsPicture
    <2> QED
      BY <1>3, <2>6, <2>7
  <1> QED
    BY <1>1, <1>10, <1>11

-----------------------------------------------------------------------------
(* The chunks of a saved picture *)

(* A file in the form of SavedAs, with any header and any data: with six   *)
(* chunks there is one that may be a palette.                              *)
KindAt(n, kind, i) ==
    IF i = 1 THEN "IHDR" ELSE IF i = n THEN "IEND"
    ELSE IF i \in {n - 2, n - 1} THEN "IDAT" ELSE IF i = n - 3 THEN "tEXt" ELSE kind

PayloadAt(n, header, palette, first, second, i) ==
    IF i = 1 THEN header ELSE IF i = n - 2 THEN first ELSE IF i = n - 1 THEN second
    ELSE IF i = 2 /\ n = 6 THEN palette ELSE <<>>

Made(n, header, kind, palette, first, second) ==
    [i \in 1..n |-> Chunk(KindAt(n, kind, i),
                          PayloadAt(n, header, palette, first, second, i))]

IsMade(file, n, header, kind, palette, first, second) ==
    /\ n \in {5, 6} /\ kind \in {"PLTE", "tEXt"}
    /\ file.signed /\ file.chunks = Made(n, header, kind, palette, first, second)

(* What decode makes of a sound file. *)
Decoded(header, palette, raw) ==
    LET bits == Channels[header.colour] * header.depth
        stride == (header.width * bits + 7) \div 8
        bpp == IF bits < 8 THEN 1 ELSE bits \div 8 IN
    IF ~Unfilters(raw, header.height, stride) THEN Refused
    ELSE LET lines == Unfilter(raw, header.height, stride, bpp) IN
         IF InPalette(lines, header, palette) THEN ToRGB(lines, header, palette) ELSE Refused

(* The fields of a chunk.                                                  *)
LEMMA ChunkFields ==
    \A kind, payload : /\ Chunk(kind, payload).kind = kind /\ Chunk(kind, payload).sound
                       /\ Chunk(kind, payload).payload = payload
  BY DEF Chunk

(* The chunks of such a file, as they are read. *)
LEMMA MadeChunks ==
    ASSUME NEW file, NEW n, NEW header, NEW kind, NEW palette, NEW first, NEW second,
           IsMade(file, n, header, kind, palette, first, second),
           NEW chunks, chunks = Read(file)
    PROVE  /\ n \in {5, 6} /\ Len(chunks) = n
           /\ \A i \in 1..n : chunks[i] = Chunk(KindAt(n, kind, i),
                                    PayloadAt(n, header, palette, first, second, i))
           /\ OfKind(chunks, "IHDR") = {1} /\ OfKind(chunks, "IDAT") = {n - 2, n - 1}
           /\ OfKind(chunks, "PLTE") = IF n = 6 /\ kind = "PLTE" THEN {2} ELSE {}
           /\ Intact(chunks)
  <1> DEFINE E(i) == Chunk(KindAt(n, kind, i), PayloadAt(n, header, palette, first, second, i))
             S == {E(i) : i \in 1..n}
  <1>1. n \in {5, 6} /\ n \in Nat /\ kind \in {"PLTE", "tEXt"}
    BY DEF IsMade
  <1>2. PICK all : all = file.chunks
    OBVIOUS
  <1>3. all = [i \in 1..n |-> E(i)]
    BY <1>2 DEF IsMade, Made
  <1>4. all \in Seq(S) /\ Len(all) = n
    <2>1. all \in [1..n -> S]
      <3> HIDE DEF E
      <3> QED
        BY <1>3
    <2> HIDE DEF S
    <2> QED
      BY <1>1, <2>1, SeqDef, LenProperties
  <1>5. \A i \in 1..n : all[i].kind = KindAt(n, kind, i)
    BY <1>3 DEF Chunk
  <1>6. \A i \in 1..n : all[i].kind = "IEND" => i = n
    BY <1>1, <1>5 DEF KindAt
  <1>7. Len(chunks) = n /\ \A i \in 1..n : chunks[i] = all[i]
    <2> HIDE DEF S
    <2> QED
      BY <1>1, <1>2, <1>4, <1>6, ReadToTheEnd
  <1>8. \A i \in 1..n : chunks[i] = E(i)
    BY <1>3, <1>7
  <1>9. \A i \in 1..n : chunks[i].kind = KindAt(n, kind, i) /\ chunks[i].sound
    BY <1>8, ChunkFields
  <1>10. \A i \in 1..n : \/ i = 1 /\ chunks[i].kind = "IHDR"
                         \/ i = n /\ chunks[i].kind = "IEND"
                         \/ i \in {n - 2, n - 1} /\ chunks[i].kind = "IDAT"
                         \/ i = n - 3 /\ chunks[i].kind = "tEXt"
                         \/ n = 6 /\ i = 2 /\ chunks[i].kind = kind
    BY <1>1, <1>9 DEF KindAt
  <1>11. /\ chunks[1].kind = "IHDR" /\ chunks[n - 2].kind = "IDAT" /\ chunks[n - 1].kind = "IDAT"
         /\ n = 6 => chunks[2].kind = kind
    BY <1>1, <1>9 DEF KindAt
  <1>12. \A k : OfKind(chunks, k) = {i \in 1..n : chunks[i].kind = k}
    BY <1>7 DEF OfKind
  <1>13. OfKind(chunks, "IHDR") = {1}
    BY <1>1, <1>10, <1>11, <1>12
  <1>14. OfKind(chunks, "IDAT") = {n - 2, n - 1}
    BY <1>1, <1>10, <1>11, <1>12
  <1>15. OfKind(chunks, "PLTE") = IF n = 6 /\ kind = "PLTE" THEN {2} ELSE {}
    BY <1>1, <1>10, <1>11, <1>12
  <1>16. Intact(chunks)
    BY <1>7, <1>9 DEF Intact
  <1> QED
    BY <1>1, <1>7, <1>8, <1>13, <1>14, <1>15, <1>16

(* What decode makes of a file in this form.                               *)
LEMMA DecodeMade ==
    ASSUME NEW file, NEW n, NEW header, NEW kind, NEW palette, NEW S, NEW a \in Seq(S),
           NEW b \in Seq(S), NEW e1 \in BOOLEAN, NEW e2 \in BOOLEAN, NEW first, NEW second,
           first = [raw |-> a, ends |-> e1], second = [raw |-> b, ends |-> e2], ~e1,
           IsMade(file, n, header, kind, palette, first, second)
    PROVE  decode(file) = IF ~Supported(header) \/ ~e2 THEN Refused
                          ELSE Decoded(header, IF n = 6 /\ kind = "PLTE" THEN palette ELSE <<>>,
                                       a \o b)
  <1>1. PICK chunks : chunks = Read(file)
    OBVIOUS
  <1>2. /\ n \in {5, 6} /\ Len(chunks) = n
        /\ \A i \in 1..n : chunks[i] = Chunk(KindAt(n, kind, i),
                                    PayloadAt(n, header, palette, first, second, i))
        /\ OfKind(chunks, "IHDR") = {1} /\ OfKind(chunks, "IDAT") = {n - 2, n - 1}
        /\ OfKind(chunks, "PLTE") = IF n = 6 /\ kind = "PLTE" THEN {2} ELSE {}
        /\ Intact(chunks)
    BY <1>1, MadeChunks
  <1>3. \A i \in 1..n : chunks[i].payload = PayloadAt(n, header, palette, first, second, i)
    <2> SUFFICES ASSUME NEW i \in 1..n
                 PROVE  chunks[i].payload = PayloadAt(n, header, palette, first, second, i)
      OBVIOUS
    <2>1. PICK k, p : k = KindAt(n, kind, i) /\ p = PayloadAt(n, header, palette, first, second, i)
      OBVIOUS
    <2>2. chunks[i] = Chunk(k, p)
      BY <1>2, <2>1
    <2> QED
      BY <2>1, <2>2, ChunkFields
  <1>4. LastOf(chunks, {1}) = header
    <2>1. (CHOOSE i \in {1} : \A j \in {1} : j <= i) = 1
      OBVIOUS
    <2>2. chunks[1].payload = header
      BY <1>2, <1>3 DEF PayloadAt
    <2> QED
      BY <2>1, <2>2 DEF LastOf
  <1>5. n = 6 => LastOf(chunks, {2}) = palette
    <2>1. (CHOOSE i \in {2} : \A j \in {2} : j <= i) = 2
      OBVIOUS
    <2>2. n = 6 => chunks[2].payload = palette
      BY <1>3 DEF PayloadAt
    <2> QED
      BY <2>1, <2>2 DEF LastOf
  <1>6. chunks[n - 2].payload = first /\ chunks[n - 1].payload = second
    <2>1. n - 2 \in 1..n /\ n - 1 \in 1..n
      BY <1>2
    <2>2. /\ PayloadAt(n, header, palette, first, second, n - 2) = first
          /\ PayloadAt(n, header, palette, first, second, n - 1) = second
      BY <1>2 DEF PayloadAt
    <2> QED
      BY <1>3, <2>1, <2>2
  <1>7. PICK p, q : p = n - 2 /\ q = n - 1
    OBVIOUS
  <1>8. p < q /\ p \in 1..n - 1 /\ q = p + 1 /\ p \in Int /\ q \in Int
    BY <1>2, <1>7
  <1>9. /\ Inflates(chunks, {p, q}) <=> e2
        /\ \A i \in 1..n : (i \in {p, q} /\ \A j \in {p, q} : chunks[j].payload.ends => i <= j)
                          <=> i \in {p, q}
    <2>1. ~chunks[p].payload.ends /\ (chunks[q].payload.ends <=> e2)
      BY <1>6, <1>7
    <2>2. p <= q /\ q <= q
      BY <1>8
    <2> QED
      BY <2>1, <2>2, Zenon DEF Inflates
  <1>10. Inflated(chunks, {p, q}) = a \o b
    <2>1. PICK s : s = [i \in 1..n |-> IF i \in {p, q} THEN chunks[i].payload.raw ELSE <<>>]
      OBVIOUS
    <2>2. Inflated(chunks, {p, q}) = FlattenSeq(s)
      BY <1>2, <1>9, <2>1, Zenon DEF Inflated
    <2>3. chunks[p].payload.raw = a /\ chunks[q].payload.raw = b
      BY <1>6, <1>7
    <2>4. ArePieces(s, n, p, a, b)
      <3>1. \A i \in 1..n : s[i] = IF i = p THEN a ELSE IF i = p + 1 THEN b ELSE <<>>
        BY <1>8, <2>1, <2>3
      <3> QED
        BY <1>2, <2>1, <3>1 DEF ArePieces
    <2>5. n \in Nat
      BY <1>2
    <2>6. a \in Seq(S) /\ b \in Seq(S)
      OBVIOUS
    <2>7. FlattenSeq(s) = a \o b
      BY ONLY <1>8, <2>4, <2>5, <2>6, FlattenPieces
    <2> QED
      BY <2>2, <2>7
  <1>11. file.signed
    BY DEF IsMade
  <1>12. PICK used : used = IF n = 6 /\ kind = "PLTE" THEN palette ELSE <<>>
    OBVIOUS
  <1>13. (IF OfKind(chunks, "PLTE") = {} THEN <<>> ELSE LastOf(chunks, OfKind(chunks, "PLTE"))) = used
    BY <1>2, <1>5, <1>12
  <1>14. decode(file) = IF ~Supported(header) \/ ~Inflates(chunks, {p, q}) THEN Refused
                        ELSE Decoded(header, used, a \o b)
    BY <1>1, <1>2, <1>4, <1>7, <1>10, <1>11, <1>13 DEF decode, Decoded
  <1> QED
    BY <1>9, <1>12, <1>14

(* One or two chunks, and four more, as SavedAs puts them together.        *)
AreChunks(s, A, head, B, C, D, E, Q, n) ==
    /\ head \in {<<>>, <<Q>>} /\ s = <<A>> \o head \o <<B, C, D, E>>
    /\ n = IF head = <<>> THEN 5 ELSE 6

InPlaces(A, B, C, D, E, Q, n) ==
    [i \in 1..n |-> IF i = 1 THEN A ELSE IF i = n THEN E ELSE IF i = n - 1 THEN D
                    ELSE IF i = n - 2 THEN C ELSE IF i = n - 3 THEN B ELSE Q]

(* Such chunks, put together, are in these places.                         *)
LEMMA FiveOrSix ==
    ASSUME NEW s, NEW A, NEW head, NEW B, NEW C, NEW D, NEW E, NEW Q, NEW n,
           AreChunks(s, A, head, B, C, D, E, Q, n)
    PROVE  s = InPlaces(A, B, C, D, E, Q, n)
  <1>0. /\ head \in {<<>>, <<Q>>} /\ s = <<A>> \o head \o <<B, C, D, E>>
        /\ n = IF head = <<>> THEN 5 ELSE 6
    BY DEF AreChunks
  <1>1. PICK S, p, q, t, u, one : /\ S = {A, B, C, D, E, Q} /\ p = n - 4 /\ q = 4
                                  /\ t = <<A>> \o head /\ u = <<B, C, D, E>> /\ one = 1
    OBVIOUS
  <1>2. n \in {5, 6} /\ p \in Nat /\ q \in Nat /\ p + q = n /\ one \in Nat
    BY <1>0, <1>1
  <1>3. u \in [1..q -> S] /\ u[1] = B /\ u[2] = C /\ u[3] = D /\ u[4] = E
    <2>1. B \in S /\ C \in S /\ D \in S /\ E \in S
      BY <1>1
    <2>2. <<B, C, D, E>> \in [1..4 -> S]
      BY <2>1
    <2>3. <<B, C, D, E>>[1] = B /\ <<B, C, D, E>>[2] = C /\ <<B, C, D, E>>[3] = D
          /\ <<B, C, D, E>>[4] = E
      OBVIOUS
    <2> QED
      BY ONLY <1>1, <2>2, <2>3
  <1>4. A \in S /\ Q \in S
    BY <1>1
  <1>5. t \in [1..p -> S] /\ t[1] = A /\ (n = 6 => t[2] = Q)
    <2>1. <<A>> \in [1..1 -> S] /\ <<A>>[1] = A
      BY <1>4
    <2>2. CASE head = <<>>
      <3>1. t = <<A>>
        <4>1. <<A>> \in Seq(S)
          BY <1>4
        <4> QED
          BY <1>1, <2>2, <4>1, ConcatEmptySeq
      <3>2. p = 1 /\ n = 5
        BY <1>0, <1>1, <2>2
      <3> QED
        BY <2>1, <3>1, <3>2
    <2>3. CASE head = <<Q>> /\ head # <<>>
      <3>1. p = 2 /\ n = 6 /\ t = <<A>> \o <<Q>>
        BY <1>0, <1>1, <2>3
      <3>2. PICK x, y, a : x = <<A>> /\ y = <<Q>> /\ a = 1
        OBVIOUS
      <3>3. /\ a \in Nat /\ a + a = 2 /\ x \in [1..a -> S] /\ y \in [1..a -> S]
            /\ x[1] = A /\ y[1] = Q
        BY <1>4, <3>2
      <3>4. x \o y \in [1..a + a -> S]
        BY ONLY <3>3, Concatenation
      <3>5. \A k \in 1..a : (x \o y)[k] = x[k]
        BY ONLY <3>3, Concatenation
      <3>6. \A k \in 1..a : (x \o y)[a + k] = y[k]
        BY ONLY <3>3, Concatenation
      <3>7. t = x \o y /\ 1 \in 1..a /\ a + 1 = 2
        BY <3>1, <3>2
      <3> QED
        BY ONLY <3>1, <3>3, <3>4, <3>5, <3>6, <3>7
    <2> QED
      BY <1>0, <2>2, <2>3
  <1>6. t \o u \in [1..p + q -> S]
    BY ONLY <1>2, <1>3, <1>5, Concatenation
  <1>7. \A k \in 1..p : (t \o u)[k] = t[k]
    BY ONLY <1>2, <1>3, <1>5, Concatenation
  <1>8. \A k \in 1..q : (t \o u)[p + k] = u[k]
    BY ONLY <1>2, <1>3, <1>5, Concatenation
  <1>9. s = t \o u
    BY <1>0, <1>1
  <1>10. s \in [1..n -> S]
    BY ONLY <1>2, <1>6, <1>9
  <1>11. s[1] = A /\ (n = 6 => s[2] = Q)
    <2>1. 1 \in 1..p /\ (n = 6 => 2 \in 1..p)
      BY <1>1, <1>2
    <2> QED
      BY <1>5, <1>7, <1>9, <2>1
  <1>12. s[n - 3] = B /\ s[n - 2] = C /\ s[n - 1] = D /\ s[n] = E
    <2>1. 1 \in 1..q /\ 2 \in 1..q /\ 3 \in 1..q /\ 4 \in 1..q
      BY <1>1
    <2>2. s[p + 1] = B /\ s[p + 2] = C /\ s[p + 3] = D /\ s[p + 4] = E
      BY <1>3, <1>8, <1>9, <2>1
    <2>3. p + 1 = n - 3 /\ p + 2 = n - 2 /\ p + 3 = n - 1 /\ p + 4 = n
      BY <1>1, <1>2
    <2> QED
      BY ONLY <2>2, <2>3
  <1>13. ASSUME NEW i \in 1..n
         PROVE  s[i] = IF i = 1 THEN A ELSE IF i = n THEN E ELSE IF i = n - 1 THEN D
                       ELSE IF i = n - 2 THEN C ELSE IF i = n - 3 THEN B ELSE Q
    <2>1. i = 1 \/ i = n \/ i = n - 1 \/ i = n - 2 \/ i = n - 3 \/ (i = 2 /\ n = 6)
      BY <1>2
    <2> QED
      BY <1>2, <1>11, <1>12, <2>1
  <1> QED
    BY <1>10, <1>13 DEF InPlaces

(* What other tools write is such a file. *)
LEMMA SavedIsMade ==
    ASSUME NEW pic, IsPicture(pic), NEW types \in [1..pic.height -> 0..4]
    PROVE  \E n, a, b :
              /\ a \in Seq(0..255) /\ b \in Seq(0..255) /\ a # <<>> /\ b # <<>>
              /\ a \o b = RawOf(pic, types)
              /\ n = IF pic.palette = <<>> THEN 5 ELSE 6
              /\ IsMade(SavedAs(pic, types), n, HeaderFor(pic), "PLTE", pic.palette,
                        [raw |-> a, ends |-> FALSE], [raw |-> b, ends |-> TRUE])
  <1>1. PICK raw, m, half, S : raw = RawOf(pic, types) /\ m = Len(raw) /\ half = m \div 2
                               /\ S = 0..255
    OBVIOUS
  <1>2. raw \in Seq(S) /\ m \in Nat /\ m >= 2
    <2>1. PICK h, M, k : h = pic.height /\ M = Stride(pic) + 1 /\ k = h * M
      OBVIOUS
    <2>2. h \in Nat \ {0} /\ M \in Nat /\ M >= 2
      <3>1. Stride(pic) \in Nat \ {0}
        BY StrideIs
      <3> QED
        BY <2>1, <3>1, KindsOfPictures
    <2>3. k \in Nat /\ k >= 2
      <3>1. (h - 1) * M >= 0 /\ (h - 1) * M = h * M - M /\ h * M \in Int
        BY ONLY <2>2
      <3> QED
        BY <2>1, <2>2, <3>1
    <2>4. raw \in [1..k -> S]
      BY <1>1, <2>1, RawHoldsLines
    <2> QED
      BY <1>1, <2>3, <2>4, SeqDef, LenProperties
  <1>3. half \in Nat /\ half >= 1 /\ half < m
    BY <1>1, <1>2
  <1>4. PICK a, b : a = SubSeq(raw, 1, half) /\ b = SubSeq(raw, half + 1, m)
    OBVIOUS
  <1>5. a \o b = raw
    <2>1. PICK one : one = 1
      OBVIOUS
    <2>2. one \in 1..Len(raw) + 1 /\ half \in one - 1..Len(raw) /\ m \in half..Len(raw)
      BY <1>1, <1>2, <1>3, <2>1
    <2>3. SubSeq(raw, one, half) \o SubSeq(raw, half + 1, m) = SubSeq(raw, one, m)
      BY ONLY <1>2, <2>2, ConcatAdjacentSubSeq
    <2>4. SubSeq(raw, 1, Len(raw)) = raw
      BY <1>2, SubSeqFull
    <2> QED
      BY <1>1, <1>4, <2>1, <2>3, <2>4
  <1>6. a \in Seq(S) /\ b \in Seq(S) /\ a # <<>> /\ b # <<>>
    <2>1. \A i \in 1..m : raw[i] \in S
      BY <1>1, <1>2, ElementOfSeq
    <2>2. PICK one, next : one = 1 /\ next = half + 1
      OBVIOUS
    <2>3. /\ one \in Int /\ next \in Int /\ half \in Int /\ m \in Int
          /\ \A i \in one..half : raw[i] \in S
          /\ \A i \in next..m : raw[i] \in S
      BY <1>2, <1>3, <2>1, <2>2
    <2>4. /\ SubSeq(raw, one, half) \in Seq(S)
          /\ Len(SubSeq(raw, one, half)) = IF one <= half THEN half - one + 1 ELSE 0
      BY ONLY <2>3, SubSeqProperties
    <2>5. /\ SubSeq(raw, next, m) \in Seq(S)
          /\ Len(SubSeq(raw, next, m)) = IF next <= m THEN m - next + 1 ELSE 0
      BY ONLY <2>3, SubSeqProperties
    <2>6. Len(a) # 0 /\ Len(b) # 0
      BY <1>2, <1>3, <1>4, <2>2, <2>4, <2>5
    <2> QED
      BY <1>4, <2>2, <2>4, <2>5, <2>6
  <1>7. PICK n, head, A, B, C, D, E, Q :
            /\ n = (IF pic.palette = <<>> THEN 5 ELSE 6)
            /\ head = (IF pic.palette = <<>> THEN <<>> ELSE <<Q>>)
            /\ A = Chunk("IHDR", HeaderFor(pic)) /\ B = Chunk("tEXt", <<>>)
            /\ C = Chunk("IDAT", [raw |-> a, ends |-> FALSE])
            /\ D = Chunk("IDAT", [raw |-> b, ends |-> TRUE])
            /\ E = Chunk("IEND", <<>>) /\ Q = Chunk("PLTE", pic.palette)
    OBVIOUS
  <1>8. SavedAs(pic, types).chunks = <<A>> \o head \o <<B, C, D, E>>
    BY <1>1, <1>4, <1>7 DEF SavedAs, HeaderFor
  <1>9. n = (IF head = <<>> THEN 5 ELSE 6) /\ head \in {<<>>, <<Q>>} /\ n \in {5, 6}
        /\ (n = 5 => pic.palette = <<>>)
    BY <1>7
  <1>10. SavedAs(pic, types).chunks = InPlaces(A, B, C, D, E, Q, n)
    <2>1. PICK s : s = SavedAs(pic, types).chunks
      OBVIOUS
    <2>2. AreChunks(s, A, head, B, C, D, E, Q, n)
      BY <1>8, <1>9, <2>1 DEF AreChunks
    <2> QED
      BY ONLY <2>1, <2>2, FiveOrSix
  <1>11. ASSUME NEW i \in 1..n
         PROVE  Chunk(KindAt(n, "PLTE", i),
                      PayloadAt(n, HeaderFor(pic), pic.palette, [raw |-> a, ends |-> FALSE],
                                [raw |-> b, ends |-> TRUE], i))
                  = IF i = 1 THEN A ELSE IF i = n THEN E ELSE IF i = n - 1 THEN D
                    ELSE IF i = n - 2 THEN C ELSE IF i = n - 3 THEN B ELSE Q
    <2>1. i = 1 \/ i = n \/ i = n - 1 \/ i = n - 2 \/ i = n - 3 \/ (i = 2 /\ n = 6)
      BY <1>9
    <2>2. PICK first, second : first = [raw |-> a, ends |-> FALSE] /\ second = [raw |-> b, ends |-> TRUE]
      OBVIOUS
    <2>3. /\ A = Chunk("IHDR", HeaderFor(pic)) /\ B = Chunk("tEXt", <<>>)
          /\ C = Chunk("IDAT", first) /\ D = Chunk("IDAT", second)
          /\ E = Chunk("IEND", <<>>) /\ Q = Chunk("PLTE", pic.palette)
      BY <1>7, <2>2
    <2>4. Chunk(KindAt(n, "PLTE", i), PayloadAt(n, HeaderFor(pic), pic.palette, first, second, i))
                  = IF i = 1 THEN A ELSE IF i = n THEN E ELSE IF i = n - 1 THEN D
                    ELSE IF i = n - 2 THEN C ELSE IF i = n - 3 THEN B ELSE Q
      BY ONLY <1>9, <2>1, <2>3, i \in 1..n DEF KindAt, PayloadAt
    <2> QED
      BY <2>2, <2>4
  <1>12. SavedAs(pic, types).chunks
            = Made(n, HeaderFor(pic), "PLTE", pic.palette, [raw |-> a, ends |-> FALSE],
                   [raw |-> b, ends |-> TRUE])
    BY <1>10, <1>11, Zenon DEF Made, InPlaces
  <1>13. SavedAs(pic, types).signed
    BY DEF SavedAs
  <1>14. IsMade(SavedAs(pic, types), n, HeaderFor(pic), "PLTE", pic.palette,
                [raw |-> a, ends |-> FALSE], [raw |-> b, ends |-> TRUE])
    BY <1>9, <1>12, <1>13 DEF IsMade
  <1> QED
    BY <1>1, <1>5, <1>6, <1>7, <1>14

(* A file whose data are the lines of a picture, in any two pieces, is     *)
(* read as the picture.                                                    *)
LEMMA HeaderIsSupported ==
    ASSUME NEW pic, IsPicture(pic)
    PROVE  /\ Supported(HeaderFor(pic)) /\ HeaderFor(pic).width = pic.width
           /\ HeaderFor(pic).height = pic.height /\ HeaderFor(pic).depth = pic.depth
           /\ HeaderFor(pic).colour = pic.colour
  <1>1. pic.colour # Palette => pic.depth >= 8
    BY KindsOfPictures
  <1>2. pic.width > 0 /\ pic.height > 0 /\ pic.width * pic.height <= MaxPixels
    BY DEF IsPicture
  <1>3. pic.colour \in DOMAIN Channels /\ pic.depth \in {1, 2, 4, 8, 16}
    BY KindsOfPictures
  <1> QED
    BY <1>1, <1>2, <1>3 DEF Supported, HeaderFor

(* The header of a picture gives its lines' stride and step.               *)
LEMMA DecodedIs ==
    ASSUME NEW pic, IsPicture(pic), NEW palette, NEW raw
    PROVE  Decoded(HeaderFor(pic), palette, raw)
              = IF ~Unfilters(raw, pic.height, Stride(pic)) THEN Refused
                ELSE LET lines == Unfilter(raw, pic.height, Stride(pic), PerPixel(pic)) IN
                     IF InPalette(lines, HeaderFor(pic), palette)
                     THEN ToRGB(lines, HeaderFor(pic), palette) ELSE Refused
  BY HeaderIsSupported DEF Decoded, Stride, PerPixel, Bits

(* The data of a picture are decoded as what it shows.                     *)
LEMMA LinesAreDecoded ==
    ASSUME NEW pic, IsPicture(pic), NEW types \in [1..pic.height -> 0..4]
    PROVE  Decoded(HeaderFor(pic), pic.palette, RawOf(pic, types)) = Shows(pic)
  <1>1. PICK h, L, bpp, raw, lines : /\ h = pic.height /\ L = Stride(pic) /\ bpp = PerPixel(pic)
                                     /\ raw = RawOf(pic, types) /\ lines = LinesOf(pic)
    OBVIOUS
  <1>2. h \in Nat /\ L \in Nat /\ bpp \in Nat \ {0}
    BY <1>1, KindsOfPictures, StrideIs
  <1>3. AreLines(lines, types, h, L) /\ HoldsLines(raw, lines, types, h, L, bpp)
    BY <1>1, LinesOfBytes, RawHoldsLines
  <1>4. Unfilters(raw, h, L) /\ Unfilter(raw, h, L, bpp) = lines
    BY ONLY <1>2, <1>3, LinesComeBack
  <1>5. /\ InPalette(lines, HeaderFor(pic), pic.palette)
        /\ ToRGB(lines, HeaderFor(pic), pic.palette) = Shows(pic)
    BY <1>1, LinesShowThePicture
  <1>6. Decoded(HeaderFor(pic), pic.palette, raw)
              = IF ~Unfilters(raw, h, L) THEN Refused
                ELSE IF InPalette(Unfilter(raw, h, L, bpp), HeaderFor(pic), pic.palette)
                     THEN ToRGB(Unfilter(raw, h, L, bpp), HeaderFor(pic), pic.palette)
                     ELSE Refused
    BY <1>1, DecodedIs
  <1> QED
    BY <1>1, <1>4, <1>5, <1>6

(* decode makes of every file that another tool has saved the picture that *)
(* is in it: every size, every colour type and depth that is supported, a  *)
(* filter for each line, the data in two chunks, with one between that is  *)
(* not for the reader.                                                     *)
THEOREM PictureIsRead ==
    ASSUME NEW pic, IsPicture(pic), NEW types \in [1..pic.height -> 0..4]
    PROVE  decode(SavedAs(pic, types)) = Shows(pic)
  <1>1. PICK n, a, b :
            /\ a \in Seq(0..255) /\ b \in Seq(0..255) /\ a # <<>> /\ b # <<>>
            /\ a \o b = RawOf(pic, types)
            /\ n = IF pic.palette = <<>> THEN 5 ELSE 6
            /\ IsMade(SavedAs(pic, types), n, HeaderFor(pic), "PLTE", pic.palette,
                      [raw |-> a, ends |-> FALSE], [raw |-> b, ends |-> TRUE])
    BY SavedIsMade
  <1>2. PICK S, file, header, kind, palette, e1, e2, first, second :
            /\ S = 0..255 /\ file = SavedAs(pic, types) /\ header = HeaderFor(pic)
            /\ kind = "PLTE" /\ palette = pic.palette /\ e1 = FALSE /\ e2 = TRUE
            /\ first = [raw |-> a, ends |-> e1] /\ second = [raw |-> b, ends |-> e2]
    OBVIOUS
  <1>3. /\ a \in Seq(S) /\ b \in Seq(S) /\ e1 \in BOOLEAN /\ e2 \in BOOLEAN /\ ~e1
        /\ first = [raw |-> a, ends |-> e1] /\ second = [raw |-> b, ends |-> e2]
        /\ IsMade(file, n, header, kind, palette, first, second)
    BY <1>1, <1>2
  <1>4. decode(file) = IF ~Supported(header) \/ ~e2 THEN Refused
                       ELSE Decoded(header, IF n = 6 /\ kind = "PLTE" THEN palette ELSE <<>>,
                                    a \o b)
    BY ONLY <1>3, DecodeMade
  <1>5. Supported(header) /\ e2
    BY <1>2, HeaderIsSupported
  <1>6. (IF n = 6 /\ kind = "PLTE" THEN palette ELSE <<>>) = pic.palette
    BY <1>1, <1>2
  <1> QED
    BY <1>1, <1>2, <1>4, <1>5, <1>6, LinesAreDecoded

-----------------------------------------------------------------------------
(* Files with a flaw *)

(* What is read of a file is its beginning. *)
LEMMA ReadIsABeginning ==
    ASSUME NEW S, NEW file, file.chunks \in Seq(S), Len(file.chunks) >= 1
    PROVE  /\ Len(Read(file)) \in 1..Len(file.chunks)
           /\ \A i \in 1..Len(Read(file)) : Read(file)[i] = file.chunks[i]
  <1> DEFINE ends == {i \in 1..Len(file.chunks) : file.chunks[i].kind = "IEND"}
             IsFirst(i) == i \in ends /\ \A j \in ends : i <= j
  <1>1. PICK chunks : chunks = file.chunks
    OBVIOUS
  <1>2. chunks \in Seq(S) /\ Len(chunks) \in Nat /\ Len(chunks) >= 1
    BY <1>1
  <1>3. CASE ends = {}
    BY <1>1, <1>2, <1>3 DEF Read
  <1>4. CASE ends # {}
    <2>1. \E i \in Nat : i \in ends
      BY <1>1, <1>2, <1>4
    <2>2. PICK m \in Nat : m \in ends /\ \A i \in 0..m - 1 : i \notin ends
      <3> DEFINE P == ends \cap Nat
      <3>1. P \subseteq Nat /\ P # {}
        BY <2>1
      <3> HIDE DEF P
      <3>2. \E least \in P : \A i \in P : least <= i
        BY ONLY <3>1, LeastNatural
      <3> USE DEF P
      <3> QED
        BY <3>2
    <2>3. IsFirst(m)
      BY <1>1, <1>2, <2>2
    <2>4. PICK e : e = (CHOOSE i \in ends : \A j \in ends : i <= j)
      OBVIOUS
    <2>5. IsFirst(e)
      <3> HIDE DEF ends
      <3> QED
        BY <2>3, <2>4
    <2>6. e \in 1..Len(chunks)
      BY <1>1, <2>5
    <2>7. Read(file) = SubSeq(chunks, 1, e)
      BY <1>1, <1>4, <2>4 DEF Read
    <2>8. \A i \in 1..e : chunks[i] \in S
      BY <1>2, <2>6, ElementOfSeq
    <2>9. /\ Len(SubSeq(chunks, 1, e)) = IF 1 <= e THEN e - 1 + 1 ELSE 0
          /\ \A i \in 1..e - 1 + 1 : SubSeq(chunks, 1, e)[i] = chunks[1 + i - 1]
      BY <2>6, <2>8, SubSeqProperties
    <2>10. e - 1 + 1 = e /\ \A i \in 1..e : 1 + i - 1 = i
      BY <2>6
    <2> QED
      BY <1>1, <1>2, <2>6, <2>7, <2>9, <2>10
  <1> QED
    BY <1>3, <1>4

(* The chunks of a file in the form of SavedAs. *)
LEMMA PlacesOfChunks ==
    ASSUME NEW file, NEW n, NEW header, NEW kind, NEW palette, NEW first, NEW second,
           IsMade(file, n, header, kind, palette, first, second)
    PROVE  /\ n \in {5, 6} /\ Len(file.chunks) = n
           /\ \E S : file.chunks \in Seq(S)
           /\ \A i \in 1..n : file.chunks[i] = Chunk(KindAt(n, kind, i),
                                    PayloadAt(n, header, palette, first, second, i))
  <1> DEFINE E(i) == Chunk(KindAt(n, kind, i), PayloadAt(n, header, palette, first, second, i))
             S == {E(i) : i \in 1..n}
  <1>1. n \in {5, 6} /\ n \in Nat
    BY DEF IsMade
  <1>2. PICK all : all = file.chunks
    OBVIOUS
  <1>3. all = [i \in 1..n |-> E(i)]
    BY <1>2 DEF IsMade, Made
  <1>4. all \in Seq(S) /\ Len(all) = n
    <2>1. all \in [1..n -> S]
      <3> HIDE DEF E
      <3> QED
        BY <1>3
    <2> HIDE DEF S
    <2> QED
      BY <1>1, <2>1, SeqDef, LenProperties
  <1>5. \A i \in 1..n : all[i] = E(i)
    BY <1>3
  <1> QED
    BY <1>1, <1>2, <1>4, <1>5

(* Where the kinds of chunks are.                                          *)
LEMMA KindsOfChunks ==
    ASSUME NEW n \in {5, 6}, NEW kind \in {"PLTE", "tEXt"}, NEW i \in 1..n
    PROVE  /\ KindAt(n, kind, i) = "IHDR" <=> i = 1
           /\ KindAt(n, kind, i) = "IDAT" <=> i \in {n - 2, n - 1}
           /\ KindAt(n, kind, i) = "IEND" <=> i = n
           /\ KindAt(n, kind, i) = "PLTE" <=> i = 2 /\ n = 6 /\ kind = "PLTE"
  BY DEF KindAt

(* The kind of chunk that a flaw changes. *)
Spoiled(flaw) == IF flaw \in HeaderFlaws THEN "IHDR" ELSE "IDAT"

(* A file with other chunks has them.                                      *)
LEMMA OtherChunks ==
    ASSUME NEW chunks, NEW file, file = [signed |-> TRUE, chunks |-> chunks], NEW other,
           NEW new, new = [file EXCEPT !.chunks = other]
    PROVE  new.signed /\ new.chunks = other /\ file.chunks = chunks
  <1>1. \A t, c : [[signed |-> t, chunks |-> c] EXCEPT !.chunks = other]
                     = [signed |-> t, chunks |-> other]
    OBVIOUS
  <1>2. PICK t : t = TRUE
    OBVIOUS
  <1>3. file = [signed |-> t, chunks |-> chunks]
    BY <1>2
  <1>4. new = [signed |-> t, chunks |-> other]
    BY <1>1, <1>3
  <1>5. new.signed = t
    BY ONLY <1>4
  <1>6. new.chunks = other /\ file.chunks = chunks
    BY ONLY <1>3, <1>4
  <1> QED
    BY <1>2, <1>5, <1>6

(* The chunks of a file of which a payload is changed.                     *)
LEMMA ChangedChunks ==
    ASSUME NEW chunks, NEW file, file = [signed |-> TRUE, chunks |-> chunks],
           NEW flaw \in HeaderFlaws \cup DataFlaws
    PROVE  /\ Flawed(file, flaw).signed
           /\ Flawed(file, flaw).chunks
                 = [i \in 1..Len(chunks) |->
                       IF chunks[i].kind = Spoiled(flaw)
                       THEN Chunk(Spoiled(flaw), After(flaw, chunks[i].payload)) ELSE chunks[i]]
  <1>1. Flawed(file, flaw) = Changed(file, Spoiled(flaw), flaw)
    BY DEF Flawed, Spoiled, HeaderFlaws, DataFlaws
  <1>2. PICK other :
            other = [i \in 1..Len(file.chunks) |->
                        IF file.chunks[i].kind = Spoiled(flaw)
                        THEN Chunk(Spoiled(flaw), After(flaw, file.chunks[i].payload))
                        ELSE file.chunks[i]]
    OBVIOUS
  <1>3. PICK new : new = Changed(file, Spoiled(flaw), flaw)
    OBVIOUS
  <1>4. new = [file EXCEPT !.chunks = other]
    BY <1>2, <1>3, Zenon DEF Changed
  <1>5. new.signed /\ new.chunks = other /\ file.chunks = chunks
    BY ONLY <1>4, file = [signed |-> TRUE, chunks |-> chunks], OtherChunks
  <1> QED
    BY <1>1, <1>2, <1>3, <1>5

(* The chunks of a file that has lost those of one kind.                   *)
LEMMA WithoutChunks ==
    ASSUME NEW chunks, NEW file, file = [signed |-> TRUE, chunks |-> chunks], NEW kind
    PROVE  /\ Without(file, kind).signed
           /\ Without(file, kind).chunks
                 = [i \in 1..Len(chunks) |->
                       IF chunks[i].kind = kind THEN Chunk("tEXt", <<>>) ELSE chunks[i]]
  <1>1. PICK other :
            other = [i \in 1..Len(file.chunks) |->
                        IF file.chunks[i].kind = kind THEN Chunk("tEXt", <<>>)
                        ELSE file.chunks[i]]
    OBVIOUS
  <1>2. PICK new : new = Without(file, kind)
    OBVIOUS
  <1>3. new = [file EXCEPT !.chunks = other]
    BY <1>1, <1>2, Zenon DEF Without
  <1>4. new.signed /\ new.chunks = other /\ file.chunks = chunks
    BY ONLY <1>3, file = [signed |-> TRUE, chunks |-> chunks], OtherChunks
  <1> QED
    BY <1>1, <1>2, <1>4

(* Such a file has the form of a saved one, with other payloads.           *)
LEMMA ChangedIsMade ==
    ASSUME NEW chunks, NEW file, file = [signed |-> TRUE, chunks |-> chunks],
           NEW n, NEW header, NEW palette, NEW first, NEW second,
           IsMade(file, n, header, "PLTE", palette, first, second),
           NEW flaw \in HeaderFlaws \cup DataFlaws,
           NEW h, h = (IF flaw \in HeaderFlaws THEN After(flaw, header) ELSE header),
           NEW f, f = (IF flaw \in HeaderFlaws THEN first ELSE After(flaw, first)),
           NEW s, s = (IF flaw \in HeaderFlaws THEN second ELSE After(flaw, second))
    PROVE  IsMade(Flawed(file, flaw), n, h, "PLTE", palette, f, s)
  <1>1. PICK kind : kind = "PLTE"
    OBVIOUS
  <1>2. file.chunks = chunks /\ IsMade(file, n, header, kind, palette, first, second)
    BY <1>1
  <1>3. /\ n \in {5, 6} /\ Len(chunks) = n
        /\ \A i \in 1..n : chunks[i] = Chunk(KindAt(n, kind, i),
                                    PayloadAt(n, header, palette, first, second, i))
    BY ONLY <1>2, PlacesOfChunks
  <1>4. /\ Flawed(file, flaw).signed
        /\ Flawed(file, flaw).chunks
              = [i \in 1..n |-> IF chunks[i].kind = Spoiled(flaw)
                                THEN Chunk(Spoiled(flaw), After(flaw, chunks[i].payload)) ELSE chunks[i]]
    BY <1>3, ChangedChunks
  <1>5. ASSUME NEW i \in 1..n
        PROVE  (IF chunks[i].kind = Spoiled(flaw)
                THEN Chunk(Spoiled(flaw), After(flaw, chunks[i].payload)) ELSE chunks[i])
                  = Chunk(KindAt(n, kind, i), PayloadAt(n, h, palette, f, s, i))
    <2>1. PICK k, p, q : /\ k = KindAt(n, kind, i)
                         /\ p = PayloadAt(n, header, palette, first, second, i)
                         /\ q = PayloadAt(n, h, palette, f, s, i)
      OBVIOUS
    <2>2. chunks[i] = Chunk(k, p) /\ chunks[i].kind = k /\ chunks[i].payload = p
      BY <1>3, <2>1, ChunkFields
    <2>3. (k = "IHDR" <=> i = 1) /\ (k = "IDAT" <=> i \in {n - 2, n - 1})
      BY <1>1, <1>3, <2>1, KindsOfChunks
    <2>4. CASE k = Spoiled(flaw)
      <3>1. q = After(flaw, p)
        <4>1. CASE flaw \in HeaderFlaws
          BY <1>3, <2>1, <2>3, <2>4, <4>1 DEF Spoiled, PayloadAt
        <4>2. CASE flaw \notin HeaderFlaws
          BY <1>3, <2>1, <2>3, <2>4, <4>2 DEF Spoiled, PayloadAt
        <4> QED
          BY <4>1, <4>2
      <3> QED
        BY <2>1, <2>2, <2>4, <3>1
    <2>5. CASE k # Spoiled(flaw)
      <3>1. q = p
        BY <1>3, <2>1, <2>3, <2>5 DEF Spoiled, PayloadAt
      <3> QED
        BY <2>1, <2>2, <2>5, <3>1
    <2> QED
      BY <2>4, <2>5
  <1>6. Flawed(file, flaw).chunks = Made(n, h, kind, palette, f, s)
    BY <1>4, <1>5, Zenon DEF Made
  <1> QED
    BY <1>1, <1>3, <1>4, <1>6 DEF IsMade

(* A palette that is gone is a chunk nobody reads.                         *)
LEMMA PaleIsMade ==
    ASSUME NEW chunks, NEW file, file = [signed |-> TRUE, chunks |-> chunks],
           NEW n, NEW header, NEW palette, NEW first, NEW second,
           IsMade(file, n, header, "PLTE", palette, first, second)
    PROVE  IsMade(Flawed(file, "pale"), n, header, "tEXt", <<>>, first, second)
  <1>1. PICK kind, text : kind = "PLTE" /\ text = "tEXt"
    OBVIOUS
  <1>2. file.chunks = chunks /\ IsMade(file, n, header, kind, palette, first, second)
    BY <1>1
  <1>3. /\ n \in {5, 6} /\ Len(chunks) = n
        /\ \A i \in 1..n : chunks[i] = Chunk(KindAt(n, kind, i),
                                    PayloadAt(n, header, palette, first, second, i))
    BY ONLY <1>2, PlacesOfChunks
  <1>4. /\ Flawed(file, "pale").signed
        /\ Flawed(file, "pale").chunks
              = [i \in 1..n |-> IF chunks[i].kind = "PLTE" THEN Chunk("tEXt", <<>>) ELSE chunks[i]]
    <2>1. Flawed(file, "pale") = Without(file, "PLTE")
      BY DEF Flawed, HeaderFlaws, DataFlaws
    <2> QED
      BY <1>3, <2>1, WithoutChunks
  <1>5. ASSUME NEW i \in 1..n
        PROVE  (IF chunks[i].kind = "PLTE" THEN Chunk("tEXt", <<>>) ELSE chunks[i])
                  = Chunk(KindAt(n, text, i), PayloadAt(n, header, <<>>, first, second, i))
    <2>1. PICK k, p : k = KindAt(n, kind, i) /\ p = PayloadAt(n, header, palette, first, second, i)
      OBVIOUS
    <2>2. chunks[i] = Chunk(k, p) /\ chunks[i].kind = k
      BY <1>3, <2>1, ChunkFields
    <2>3. k = "PLTE" <=> i = 2 /\ n = 6
      BY <1>1, <1>3, <2>1, KindsOfChunks
    <2>4. CASE i = 2 /\ n = 6
      <3>1. KindAt(n, text, i) = "tEXt" /\ PayloadAt(n, header, <<>>, first, second, i) = <<>>
        BY <1>1, <2>4 DEF KindAt, PayloadAt
      <3> QED
        BY <2>2, <2>3, <2>4, <3>1
    <2>5. CASE ~(i = 2 /\ n = 6)
      <3>1. KindAt(n, text, i) = k
        BY <1>1, <1>3, <2>1, <2>5 DEF KindAt
      <3>2. PayloadAt(n, header, <<>>, first, second, i) = p
        BY <1>3, <2>1, <2>5 DEF PayloadAt
      <3> QED
        BY <2>2, <2>3, <2>5, <3>1, <3>2
    <2> QED
      BY <2>4, <2>5
  <1>6. Flawed(file, "pale").chunks = Made(n, header, text, <<>>, first, second)
    BY <1>4, <1>5, Zenon DEF Made
  <1> QED
    BY <1>1, <1>3, <1>4, <1>6 DEF IsMade

(* A file that is damaged outside its payloads. *)
LEMMA UnsignedIsRefused ==
    ASSUME NEW chunks, NEW file, file = [signed |-> TRUE, chunks |-> chunks]
    PROVE  decode(Flawed(file, "unsigned")) = Refused
  <1>1. Flawed(file, "unsigned") = [file EXCEPT !.signed = FALSE]
    BY DEF Flawed, HeaderFlaws, DataFlaws
  <1>2. \A c, t, u : [[signed |-> t, chunks |-> c] EXCEPT !.signed = u] = [signed |-> u, chunks |-> c]
    OBVIOUS
  <1>3. PICK t, u : t = TRUE /\ u = FALSE
    OBVIOUS
  <1>4. Flawed(file, "unsigned") = [signed |-> u, chunks |-> chunks]
    <2>1. file = [signed |-> t, chunks |-> chunks]
      BY <1>3
    <2>2. Flawed(file, "unsigned") = [file EXCEPT !.signed = u]
      BY <1>1, <1>3
    <2> QED
      BY ONLY <1>2, <2>1, <2>2
  <1>5. Flawed(file, "unsigned").signed = u
    BY ONLY <1>4
  <1> QED
    BY <1>3, <1>5 DEF decode

(* A file without a header, or without data, is refused.                   *)
LEMMA NoSuchChunk ==
    ASSUME NEW chunks, NEW file, file = [signed |-> TRUE, chunks |-> chunks],
           NEW n, NEW header, NEW palette, NEW first, NEW second,
           IsMade(file, n, header, "PLTE", palette, first, second),
           NEW kind \in {"IHDR", "IDAT"}
    PROVE  decode(Without(file, kind)) = Refused
  <1>1. PICK k, new, text : k = "PLTE" /\ new = Without(file, kind) /\ text = Chunk("tEXt", <<>>)
    OBVIOUS
  <1>2. file.chunks = chunks /\ IsMade(file, n, header, k, palette, first, second)
    BY <1>1
  <1>3. n \in {5, 6} /\ Len(chunks) = n /\ \E S : chunks \in Seq(S)
    BY ONLY <1>2, PlacesOfChunks
  <1>4. new.chunks = [i \in 1..n |-> IF chunks[i].kind = kind THEN text ELSE chunks[i]]
    BY <1>1, <1>3, WithoutChunks
  <1>5. PICK S : chunks \in Seq(S)
    BY <1>3
  <1>6. PICK T : T = S \cup {text}
    OBVIOUS
  <1>7. new.chunks \in Seq(T) /\ Len(new.chunks) = n
    <2>1. \A i \in 1..n : chunks[i] \in S
      BY <1>3, <1>5, ElementOfSeq
    <2>2. new.chunks \in [1..n -> T]
      BY <1>4, <1>6, <2>1
    <2>3. n \in Nat
      BY <1>3
    <2> QED
      BY <2>2, <2>3, SeqDef, LenProperties
  <1>8. text.kind = "tEXt"
    BY <1>1, ChunkFields
  <1>9. \A i \in 1..n : new.chunks[i].kind # kind
    BY <1>4, <1>8
  <1>10. PICK read : read = Read(new)
    OBVIOUS
  <1>11. /\ Len(read) \in 1..n
         /\ \A i \in 1..Len(read) : read[i] = new.chunks[i]
    <2>1. Len(new.chunks) >= 1
      BY <1>3, <1>7
    <2> QED
      BY <1>7, <1>10, <2>1, ReadIsABeginning
  <1>12. OfKind(read, kind) = {}
    <2>1. \A i \in 1..Len(read) : read[i].kind # kind
      BY <1>3, <1>9, <1>11
    <2> QED
      BY <2>1 DEF OfKind
  <1>13. OfKind(read, "IHDR") = {} \/ OfKind(read, "IDAT") = {}
    BY <1>12
  <1> QED
    BY <1>1, <1>10, <1>13 DEF decode

(* A file whose first chunk has a wrong CRC is refused.                    *)
LEMMA BadCRCIsRefused ==
    ASSUME NEW chunks, NEW file, file = [signed |-> TRUE, chunks |-> chunks],
           NEW n, NEW header, NEW palette, NEW first, NEW second,
           IsMade(file, n, header, "PLTE", palette, first, second)
    PROVE  decode(Flawed(file, "crc")) = Refused
  <1>1. PICK k, new, u, c : /\ k = "PLTE" /\ new = Flawed(file, "crc") /\ u = FALSE
                            /\ c = [chunks[1] EXCEPT !.sound = u]
    OBVIOUS
  <1>2. file.chunks = chunks /\ IsMade(file, n, header, k, palette, first, second)
    BY <1>1
  <1>3. /\ n \in {5, 6} /\ Len(chunks) = n /\ \E S : chunks \in Seq(S)
        /\ \A i \in 1..n : chunks[i] = Chunk(KindAt(n, k, i),
                                    PayloadAt(n, header, palette, first, second, i))
    BY ONLY <1>2, PlacesOfChunks
  <1>4. new.chunks = [chunks EXCEPT ![1] = c]
    <2>1. PICK other : other = [chunks EXCEPT ![1] = c]
      OBVIOUS
    <2>2. new = [file EXCEPT !.chunks = other]
      <3>1. new = [file EXCEPT !.chunks[1].sound = FALSE]
        BY <1>1 DEF Flawed, HeaderFlaws, DataFlaws
      <3>2. new = [file EXCEPT !.chunks = [file.chunks EXCEPT ![1] = [file.chunks[1] EXCEPT !.sound = FALSE]]]
        BY <3>1
      <3> QED
        BY <1>1, <1>2, <2>1, <3>2
    <2>3. new.chunks = other
      BY ONLY <2>2, file = [signed |-> TRUE, chunks |-> chunks], OtherChunks
    <2> QED
      BY <2>1, <2>3
  <1>5. PICK S : chunks \in Seq(S)
    BY <1>3
  <1>6. PICK T : T = S \cup {c}
    OBVIOUS
  <1>7. new.chunks \in Seq(T) /\ Len(new.chunks) = n /\ new.chunks[1] = c
    <2>1. \A i \in 1..n : chunks[i] \in S
      BY <1>3, <1>5, ElementOfSeq
    <2>2. chunks \in [1..n -> S] /\ 1 \in 1..n /\ n \in Nat
      BY <1>3, <1>5, LenProperties
    <2>3. new.chunks \in [1..n -> T] /\ new.chunks[1] = c
      BY <1>4, <1>6, <2>1, <2>2
    <2> QED
      BY <2>2, <2>3, SeqDef, LenProperties
  <1>8. c.sound = u
    <2>1. \A a, b, t : [[kind |-> a, payload |-> b, sound |-> t] EXCEPT !.sound = u]
                          = [kind |-> a, payload |-> b, sound |-> u]
      OBVIOUS
    <2>2. PICK a, b, t : a = KindAt(n, k, 1) /\ b = PayloadAt(n, header, palette, first, second, 1)
                         /\ t = TRUE
      OBVIOUS
    <2>3. chunks[1] = [kind |-> a, payload |-> b, sound |-> t]
      <3>1. chunks[1] = Chunk(a, b)
        BY <1>3, <2>2
      <3> QED
        BY <2>2, <3>1 DEF Chunk
    <2>4. c = [kind |-> a, payload |-> b, sound |-> u]
      BY <1>1, <2>1, <2>3
    <2> QED
      BY ONLY <2>4
  <1>9. PICK read : read = Read(new)
    OBVIOUS
  <1>10. Len(read) \in 1..n /\ \A i \in 1..Len(read) : read[i] = new.chunks[i]
    <2>1. Len(new.chunks) >= 1
      BY <1>3, <1>7
    <2> QED
      BY <1>7, <1>9, <2>1, ReadIsABeginning
  <1>11. ~Intact(read)
    <2>1. 1 \in 1..Len(read) /\ read[1] = c
      BY <1>3, <1>7, <1>10
    <2>2. ~read[1].sound
      BY <1>1, <1>8, <2>1
    <2> QED
      BY <2>1, <2>2 DEF Intact
  <1> QED
    BY <1>1, <1>9, <1>11 DEF decode

(* Of a file that is cut short in a chunk, the chunk is not sound.         *)
LEMMA CutIsRefused ==
    ASSUME NEW chunks, NEW file, file = [signed |-> TRUE, chunks |-> chunks],
           NEW n, NEW header, NEW palette, NEW first, NEW second,
           IsMade(file, n, header, "PLTE", palette, first, second)
    PROVE  decode(Flawed(file, "cut")) = Refused
  <1>1. PICK kind, new, m : kind = "PLTE" /\ new = Flawed(file, "cut") /\ m = n - 2
    OBVIOUS
  <1>2. file.chunks = chunks /\ IsMade(file, n, header, kind, palette, first, second)
    BY <1>1
  <1>3. /\ n \in {5, 6} /\ Len(chunks) = n
        /\ \A i \in 1..n : chunks[i] = Chunk(KindAt(n, kind, i),
                                    PayloadAt(n, header, palette, first, second, i))
    BY ONLY <1>2, PlacesOfChunks
  <1>4. m \in Nat /\ m >= 1 /\ m \in 1..n /\ m + 1 < n + 1 /\ n - 3 + 1 = m
    BY <1>1, <1>3
  <1> DEFINE Cut(i) == [chunks[i] EXCEPT !.sound = i <= n - 3 \/ (i <= Len(<<>>) /\ <<>>[i] = chunks[i])]
  <1>5. PICK begin, S : begin = [i \in 1..m |-> Cut(i)] /\ S = {Cut(i) : i \in 1..m}
    OBVIOUS
  <1>6. begin \in [1..m -> S]
    <2> HIDE DEF Cut
    <2> QED
      BY <1>5
  <1>7. begin \in Seq(S) /\ Len(begin) = m
    BY <1>4, <1>6, SeqDef, LenProperties
  <1>8. new.chunks = begin
    <2>1. new = Written(file, n - 3, TRUE, Empty)
      BY <1>1, <1>2, <1>3 DEF Flawed, HeaderFlaws, DataFlaws
    <2>2. Empty.chunks = <<>>
      BY DEF Empty
    <2>3. new.chunks = [i \in 1..n - 3 + 1 |->
                            [chunks[i] EXCEPT !.sound = i <= n - 3
                                              \/ (i <= Len(<<>>) /\ <<>>[i] = chunks[i])]]
                       \o SubSeq(<<>>, n - 3 + 1 + 1, Len(<<>>))
      BY <1>2, <2>1, <2>2 DEF Written
    <2>4. new.chunks = begin \o SubSeq(<<>>, m + 1, 0)
      BY <1>4, <1>5, <2>3
    <2>5. SubSeq(<<>>, m + 1, 0) = <<>>
      <3>1. PICK a, b : a = m + 1 /\ b = 0
        OBVIOUS
      <3>2. a \in Int /\ b \in Int /\ b < a
        BY <1>4, <3>1
      <3> QED
        BY <3>1, <3>2, SubSeqEmpty
    <2> QED
      BY <1>7, <2>4, <2>5, ConcatEmptySeq
  <1>9. ASSUME NEW i \in 1..m
        PROVE  /\ new.chunks[i].kind # "IEND"
               /\ i = m => new.chunks[i].sound = FALSE
    <2>1. PICK a, b, t, u : /\ a = KindAt(n, kind, i)
                            /\ b = PayloadAt(n, header, palette, first, second, i) /\ t = TRUE
                            /\ u = (i <= n - 3 \/ (i <= Len(<<>>) /\ <<>>[i] = chunks[i]))
      OBVIOUS
    <2>2. \A t1, u1 : [[kind |-> a, payload |-> b, sound |-> t1] EXCEPT !.sound = u1]
                          = [kind |-> a, payload |-> b, sound |-> u1]
      OBVIOUS
    <2>3. chunks[i] = [kind |-> a, payload |-> b, sound |-> t]
      <3>1. chunks[i] = Chunk(a, b)
        BY <1>3, <1>4, <2>1
      <3> QED
        BY <2>1, <3>1 DEF Chunk
    <2>4. new.chunks[i] = [chunks[i] EXCEPT !.sound = u]
      <3>1. new.chunks[i] = Cut(i)
        <4> HIDE DEF Cut
        <4> QED
          BY <1>5, <1>8
      <3> QED
        BY <2>1, <3>1
    <2>5. new.chunks[i] = [kind |-> a, payload |-> b, sound |-> u]
      BY ONLY <2>2, <2>3, <2>4
    <2>6. new.chunks[i].kind = a /\ new.chunks[i].sound = u
      BY ONLY <2>5
    <2>7. a # "IEND"
      BY <1>1, <1>3, <1>4, <2>1 DEF KindAt
    <2>8. i = m => u = FALSE
      <3>1. i = m => ~(i <= n - 3) /\ ~(i <= Len(<<>>))
        BY <1>1, <1>3
      <3> QED
        BY ONLY <2>1, <3>1, Zenon
    <2> QED
      BY <2>6, <2>7, <2>8
  <1>10. PICK read : read = Read(new)
    OBVIOUS
  <1>11. Len(read) = m /\ \A i \in 1..m : read[i] = new.chunks[i]
    <2>1. new.chunks \in Seq(S) /\ Len(new.chunks) = m
      BY <1>7, <1>8
    <2>2. \A i \in 1..m : new.chunks[i].kind = "IEND" => i = m
      BY <1>9
    <2> QED
      BY <1>4, <1>10, <2>1, <2>2, ReadToTheEnd
  <1>12. ~Intact(read)
    <2>1. m \in 1..m /\ m \in 1..Len(read)
      BY <1>4, <1>11
    <2>2. read[m].sound = FALSE
      BY <1>9, <1>11, <2>1, Zenon
    <2> QED
      BY <2>1, <2>2 DEF Intact
  <1> QED
    BY <1>1, <1>10, <1>12 DEF decode

(* No header with a flaw is supported. *)
LEMMA FlawedHeader ==
    ASSUME NEW pic, IsPicture(pic), NEW flaw \in HeaderFlaws
    PROVE  ~Supported(After(flaw, HeaderFor(pic)))
  <1>1. pic.width \in Nat \ {0} /\ pic.height \in Nat \ {0} /\ MaxPixels \in Nat
    BY PngAssumption, KindsOfPictures
  <1>2. CASE flaw = "interlaced"
    <2>1. After(flaw, HeaderFor(pic)).interlace = 1
      BY <1>2 DEF After, HeaderFor
    <2> QED
      BY <2>1 DEF Supported
  <1>3. CASE flaw = "deflated otherwise"
    <2>1. After(flaw, HeaderFor(pic)).compression = 1
      BY <1>3 DEF After, HeaderFor
    <2> QED
      BY <2>1 DEF Supported
  <1>4. CASE flaw = "filtered otherwise"
    <2>1. After(flaw, HeaderFor(pic)).filter_method = 1
      BY <1>4 DEF After, HeaderFor
    <2> QED
      BY <2>1 DEF Supported
  <1>5. CASE flaw = "huge"
    <2>1. PICK header, w, h : header = After(flaw, HeaderFor(pic)) /\ w = MaxPixels + 1 /\ h = pic.height
      OBVIOUS
    <2>2. header.width = w /\ header.height = h
      BY <1>5, <2>1 DEF After, HeaderFlaws, DataFlaws, HeaderFor
    <2>3. ~(w * h <= MaxPixels)
      <3>1. w * (h - 1) >= 0 /\ w * (h - 1) = w * h - w /\ w * h \in Int
        BY <1>1, <2>1
      <3> QED
        BY <1>1, <2>1, <3>1
    <2> QED
      BY <2>1, <2>2, <2>3 DEF Supported
  <1>6. CASE flaw = "flat"
    BY <1>6 DEF After, HeaderFlaws, DataFlaws, HeaderFor, Supported
  <1> QED
    BY <1>2, <1>3, <1>4, <1>5, <1>6 DEF HeaderFlaws

(* Data that end too early, or with a filter that is none, are not lines.  *)
LEMMA ShortData ==
    ASSUME NEW S, NEW a \in Seq(S), NEW b \in Seq(S), b # <<>>,
           NEW h \in Nat, NEW L \in Nat, Len(a \o b) = h * (L + 1)
    PROVE  Tail(b) \in Seq(S) /\ ~Unfilters(a \o Tail(b), h, L)
  <1>1. Tail(b) \in Seq(S) /\ Len(Tail(b)) = Len(b) - 1
    BY HeadTailProperties
  <1>2. Len(a \o Tail(b)) = Len(a) + Len(Tail(b)) /\ Len(a \o b) = Len(a) + Len(b)
    BY <1>1, ConcatProperties
  <1>3. PICK k : k = h * (L + 1) /\ k \in Int
    OBVIOUS
  <1>4. Len(a) \in Nat /\ Len(b) \in Nat
    OBVIOUS
  <1>5. ~(Len(a \o Tail(b)) >= k)
    BY <1>1, <1>2, <1>3, <1>4
  <1> QED
    BY <1>1, <1>3, <1>5 DEF Unfilters

(* The filter of the first line is one that does not exist.                *)
LEMMA NoSuchFilter ==
    ASSUME NEW S, NEW a \in Seq(S), NEW b \in Seq(S), a # <<>>, 5 \in S,
           NEW h \in Nat \ {0}, NEW L \in Nat
    PROVE  /\ [a EXCEPT ![1] = 5] \in Seq(S)
           /\ ~Unfilters([a EXCEPT ![1] = 5] \o b, h, L)
  <1>1. PICK n, c, v : n = Len(a) /\ c = [a EXCEPT ![1] = 5] /\ v = 5
    OBVIOUS
  <1>2. n \in Nat /\ n >= 1 /\ 1 \in 1..n /\ a \in [1..n -> S]
    BY <1>1, LenProperties, EmptySeq
  <1>3. c \in [1..n -> S] /\ c[1] = v
    BY <1>1, <1>2
  <1>4. c \in Seq(S) /\ Len(c) = n
    BY <1>2, <1>3, SeqDef, LenProperties
  <1>5. (c \o b)[1] = v
    <2>1. Len(b) \in Nat
      OBVIOUS
    <2>2. \A i \in 1..Len(c) + Len(b) : (c \o b)[i] = IF i <= Len(c) THEN c[i] ELSE b[i - Len(c)]
      BY <1>4, ConcatProperties
    <2>3. 1 \in 1..Len(c) + Len(b) /\ 1 <= Len(c)
      BY <1>2, <1>4, <2>1
    <2> QED
      BY <1>3, <2>2, <2>3
  <1>6. TypeOfLine(c \o b, L, 1) = v
    <2>1. (1 - 1) * (L + 1) + 1 = 1
      OBVIOUS
    <2> QED
      BY <1>5, <2>1 DEF TypeOfLine
  <1>7. ~Unfilters(c \o b, h, L)
    <2>1. 1 \in 1..h /\ v \notin 0..4
      BY <1>1
    <2> QED
      BY <1>6, <2>1 DEF Unfilters
  <1> QED
    BY <1>1, <1>4, <1>7

(* Without its palette, no sample of a picture has a colour.               *)
LEMMA NoPalette ==
    ASSUME NEW pic, IsPicture(pic), pic.colour = Palette
    PROVE  ~InPalette(LinesOf(pic), HeaderFor(pic), <<>>)
  <1>1. PICK y, x, c, v : y = 1 /\ x = 0 /\ c = 0 /\ v = Sample(LineOf(pic, y), pic.depth, x)
    OBVIOUS
  <1>2. /\ pic.width \in Nat \ {0} /\ pic.height \in Nat \ {0}
        /\ Channels[pic.colour] = 1 /\ pic.depth \in {1, 2, 4, 8}
    BY KindsOfPictures
  <1>3. y \in 1..pic.height /\ x \in 0..pic.width - 1 /\ c \in 0..Channels[pic.colour] - 1
        /\ x * Channels[pic.colour] + c = x
    BY <1>1, <1>2
  <1>4. v = pic.samples[y][x][c]
    <2>1. Sample(LineOf(pic, y), pic.depth, x * Channels[pic.colour] + c)
              = Eight(pic, pic.samples[y][x][c])
      BY <1>3, SampleOfAPixel
    <2> QED
      BY <1>1, <1>2, <1>3, <2>1 DEF Eight
  <1>5. v \in Nat
    <2>1. PICK top : top = 2^pic.depth - 1 /\ top \in Nat
      BY LargestSample
    <2>2. pic.samples \in [1..pic.height -> [0..pic.width - 1 -> [Channel(pic) -> 0..top]]]
      BY <2>1 DEF IsPicture
    <2>3. c \in Channel(pic)
      BY <1>3 DEF Channel
    <2>4. pic.samples[y] \in [0..pic.width - 1 -> [Channel(pic) -> 0..top]]
      BY <1>3, <2>2
    <2>5. pic.samples[y][x] \in [Channel(pic) -> 0..top]
      BY <1>3, <2>4
    <2>6. pic.samples[y][x][c] \in 0..top
      BY <2>3, <2>5
    <2> QED
      BY <1>4, <2>1, <2>6
  <1>6. ~(v * 3 + 3 <= Len(<<>>))
    BY <1>5
  <1>7. LinesOf(pic)[y] = LineOf(pic, y)
    BY <1>3 DEF LinesOf
  <1>8. /\ HeaderFor(pic).colour = Palette /\ HeaderFor(pic).height = pic.height
        /\ HeaderFor(pic).width = pic.width /\ HeaderFor(pic).depth = pic.depth
    BY HeaderIsSupported
  <1> QED
    BY <1>1, <1>3, <1>6, <1>7, <1>8 DEF InPalette

(* The pieces of the data with a flaw. *)
PiecesWithFlaws(a, b, first, second) ==
    /\ After("unended", first) = [raw |-> a, ends |-> FALSE]
    /\ After("unended", second) = [raw |-> b, ends |-> FALSE]
    /\ After("short", first) = [raw |-> a, ends |-> FALSE]
    /\ After("short", second) = [raw |-> Tail(b), ends |-> TRUE]
    /\ After("unknown filter", first) = [raw |-> [a EXCEPT ![1] = 5], ends |-> FALSE]
    /\ After("unknown filter", second) = [raw |-> b, ends |-> TRUE]

(* They are these.                                                         *)
LEMMA FlawedPieces ==
    ASSUME NEW a, NEW b, NEW first, NEW second,
           first = [raw |-> a, ends |-> FALSE], second = [raw |-> b, ends |-> TRUE]
    PROVE  PiecesWithFlaws(a, b, first, second)
  <1>1. \A p : After("unended", p) = [p EXCEPT !.ends = FALSE]
    BY DEF After
  <1>2. \A p : After("short", p) = IF p.ends THEN [p EXCEPT !.raw = Tail(@)] ELSE p
    BY DEF After
  <1>3. \A p : After("unknown filter", p) = IF p.ends THEN p ELSE [p EXCEPT !.raw[1] = 5]
    BY DEF After
  <1>4. PICK t, f : t = TRUE /\ f = FALSE
    OBVIOUS
  <1>5. first = [raw |-> a, ends |-> f] /\ second = [raw |-> b, ends |-> t]
    BY <1>4
  <1>6. /\ \A r, e, g : [[raw |-> r, ends |-> e] EXCEPT !.ends = g] = [raw |-> r, ends |-> g]
        /\ \A r, e, q : [[raw |-> r, ends |-> e] EXCEPT !.raw = q] = [raw |-> q, ends |-> e]
    OBVIOUS
  <1>7. ~first.ends /\ second.ends /\ first.raw = a /\ second.raw = b
    OBVIOUS
  <1>8. After("unended", first) = [raw |-> a, ends |-> f]
    <2>1. After("unended", first) = [first EXCEPT !.ends = f]
      BY <1>1, <1>4
    <2> QED
      BY ONLY <1>5, <1>6, <2>1
  <1>9. After("unended", second) = [raw |-> b, ends |-> f]
    <2>1. After("unended", second) = [second EXCEPT !.ends = f]
      BY <1>1, <1>4
    <2> QED
      BY ONLY <1>5, <1>6, <2>1
  <1>10. After("short", second) = [raw |-> Tail(b), ends |-> t]
    BY <1>2, <1>5, <1>6, <1>7
  <1>11. After("unknown filter", first) = [raw |-> [a EXCEPT ![1] = 5], ends |-> f]
    <2>1. PICK c : c = [a EXCEPT ![1] = 5]
      OBVIOUS
    <2>2. After("unknown filter", first) = [first EXCEPT !.raw = c]
      BY <1>3, <1>7, <2>1
    <2>3. After("unknown filter", first) = [raw |-> c, ends |-> f]
      BY ONLY <1>5, <1>6, <2>2
    <2> QED
      BY <2>1, <2>3
  <1>12. After("short", first) = first /\ After("unknown filter", second) = second
    BY <1>2, <1>3, <1>7
  <1> QED
    BY <1>4, <1>8, <1>9, <1>10, <1>11, <1>12 DEF PiecesWithFlaws

(* A picture's file in two pieces of data, whatever becomes of the pieces: *)
(* decode refuses the file if it refuses what they hold.                   *)
LEMMA RefusedPieces ==
    ASSUME NEW pic, IsPicture(pic), NEW file, NEW n, NEW kind, NEW palette,
           NEW S, NEW a \in Seq(S), NEW b \in Seq(S), NEW e1 \in BOOLEAN, NEW e2 \in BOOLEAN,
           NEW first, NEW second,
           first = [raw |-> a, ends |-> e1], second = [raw |-> b, ends |-> e2], ~e1,
           IsMade(file, n, HeaderFor(pic), kind, palette, first, second),
           ~e2 \/ ~Unfilters(a \o b, pic.height, Stride(pic))
    PROVE  decode(file) = Refused
  <1>1. PICK header, used : /\ header = HeaderFor(pic)
                            /\ used = IF n = 6 /\ kind = "PLTE" THEN palette ELSE <<>>
    OBVIOUS
  <1>2. IsMade(file, n, header, kind, palette, first, second)
    BY <1>1
  <1>3. decode(file) = IF ~Supported(header) \/ ~e2 THEN Refused
                       ELSE Decoded(header, IF n = 6 /\ kind = "PLTE" THEN palette ELSE <<>>,
                                    a \o b)
    <2>1. a \in Seq(S) /\ b \in Seq(S) /\ e1 \in BOOLEAN /\ e2 \in BOOLEAN /\ ~e1
      OBVIOUS
    <2> QED
      BY ONLY <1>2, <2>1, first = [raw |-> a, ends |-> e1], second = [raw |-> b, ends |-> e2],
              DecodeMade
  <1>4. ~Unfilters(a \o b, pic.height, Stride(pic)) => Decoded(header, used, a \o b) = Refused
    <2>1. Decoded(HeaderFor(pic), used, a \o b)
              = IF ~Unfilters(a \o b, pic.height, Stride(pic)) THEN Refused
                ELSE LET lines == Unfilter(a \o b, pic.height, Stride(pic), PerPixel(pic)) IN
                     IF InPalette(lines, HeaderFor(pic), used)
                     THEN ToRGB(lines, HeaderFor(pic), used) ELSE Refused
      BY DecodedIs
    <2> QED
      BY <1>1, <2>1
  <1> QED
    BY <1>1, <1>3, <1>4

(* decode makes a frame of no file with a flaw: without its signature, its *)
(* header, its data or a palette that it needs; cut short, or with a CRC   *)
(* that is wrong; with a header that is not supported; with data that do   *)
(* not end, are too few, or have a filter that does not exist.             *)
THEOREM FlawsAreRefused ==
    ASSUME NEW pic, IsPicture(pic), NEW types \in [1..pic.height -> 0..4],
           NEW flaw \in Flaws, flaw = "pale" => pic.colour = Palette
    PROVE  decode(Flawed(SavedAs(pic, types), flaw)) = Refused
  <1>1. PICK n, a, b :
            /\ a \in Seq(0..255) /\ b \in Seq(0..255) /\ a # <<>> /\ b # <<>>
            /\ a \o b = RawOf(pic, types)
            /\ n = IF pic.palette = <<>> THEN 5 ELSE 6
            /\ IsMade(SavedAs(pic, types), n, HeaderFor(pic), "PLTE", pic.palette,
                      [raw |-> a, ends |-> FALSE], [raw |-> b, ends |-> TRUE])
    BY SavedIsMade
  <1>2. PICK file, chunks, S, header, palette, first, second, h, L :
            /\ file = SavedAs(pic, types) /\ chunks = SavedAs(pic, types).chunks /\ S = 0..255
            /\ header = HeaderFor(pic) /\ palette = pic.palette
            /\ first = [raw |-> a, ends |-> FALSE] /\ second = [raw |-> b, ends |-> TRUE]
            /\ h = pic.height /\ L = Stride(pic)
    OBVIOUS
  <1>3. file = [signed |-> TRUE, chunks |-> chunks]
    BY <1>2 DEF SavedAs
  <1>4. IsMade(file, n, header, "PLTE", palette, first, second)
    BY <1>1, <1>2
  <1>5. a \in Seq(S) /\ b \in Seq(S) /\ a # <<>> /\ b # <<>> /\ 5 \in S
    BY <1>1, <1>2
  <1>6. h \in Nat \ {0} /\ L \in Nat
    BY <1>2, KindsOfPictures, StrideIs
  <1>7. Len(a \o b) = h * (L + 1)
    <2>1. PICK m : m = h * (L + 1) /\ m \in Nat
      BY <1>6
    <2>2. a \o b \in [1..m -> 0..255]
      BY <1>1, <1>2, <2>1, RawHoldsLines
    <2> QED
      BY <2>1, <2>2, LenProperties
  <1>8. CASE flaw = "unsigned"
    BY <1>2, <1>3, <1>8, UnsignedIsRefused
  <1>9. CASE flaw = "cut"
    <2>1. decode(Flawed(file, "cut")) = Refused
      BY ONLY <1>3, <1>4, CutIsRefused
    <2> QED
      BY <1>2, <1>9, <2>1
  <1>10. CASE flaw = "crc"
    <2>1. decode(Flawed(file, "crc")) = Refused
      BY ONLY <1>3, <1>4, BadCRCIsRefused
    <2> QED
      BY <1>2, <1>10, <2>1
  <1>11. CASE flaw \in {"headless", "dataless"}
    <2>1. PICK kind \in {"IHDR", "IDAT"} : Flawed(file, flaw) = Without(file, kind)
      BY <1>11 DEF Flawed, HeaderFlaws, DataFlaws
    <2>2. decode(Without(file, kind)) = Refused
      BY ONLY <1>3, <1>4, kind \in {"IHDR", "IDAT"}, NoSuchChunk
    <2> QED
      BY <1>2, <2>1, <2>2
  <1>12. CASE flaw = "pale"
    <2>1. PICK text, none, e1, e2, new :
              text = "tEXt" /\ none = <<>> /\ e1 = FALSE /\ e2 = TRUE /\ new = Flawed(file, "pale")
      OBVIOUS
    <2>2. IsMade(Flawed(file, "pale"), n, header, "tEXt", <<>>, first, second)
      BY ONLY <1>3, <1>4, PaleIsMade
    <2>3. IsMade(new, n, header, text, none, first, second)
      BY <2>1, <2>2
    <2>4. /\ first = [raw |-> a, ends |-> e1] /\ second = [raw |-> b, ends |-> e2]
          /\ e1 \in BOOLEAN /\ e2 \in BOOLEAN /\ ~e1
      BY <1>2, <2>1
    <2>5. decode(new) = IF ~Supported(header) \/ ~e2 THEN Refused
                        ELSE Decoded(header, IF n = 6 /\ text = "PLTE" THEN none ELSE <<>>, a \o b)
      BY ONLY <1>5, <2>3, <2>4, DecodeMade
    <2>6. Decoded(header, <<>>, a \o b) = Refused
      <3>1. PICK bpp, raw, lines : /\ bpp = PerPixel(pic) /\ raw = RawOf(pic, types)
                                   /\ lines = LinesOf(pic)
        OBVIOUS
      <3>2. h \in Nat /\ L \in Nat /\ bpp \in Nat \ {0}
        BY <1>6, <3>1, StrideIs
      <3>3. AreLines(lines, types, h, L) /\ HoldsLines(raw, lines, types, h, L, bpp)
        BY <1>2, <3>1, LinesOfBytes, RawHoldsLines
      <3>4. Unfilter(raw, h, L, bpp) = lines
        BY ONLY <3>2, <3>3, LinesComeBack
      <3>5. ~InPalette(lines, header, none)
        BY <1>2, <1>12, <2>1, <3>1, NoPalette
      <3>6. Decoded(header, none, raw)
                = IF ~Unfilters(raw, h, L) THEN Refused
                  ELSE IF InPalette(Unfilter(raw, h, L, bpp), header, none)
                       THEN ToRGB(Unfilter(raw, h, L, bpp), header, none) ELSE Refused
        BY <1>2, <3>1, DecodedIs
      <3> QED
        BY <1>1, <2>1, <3>1, <3>4, <3>5, <3>6
    <2>7. (IF n = 6 /\ text = "PLTE" THEN none ELSE <<>>) = <<>>
      BY <2>1
    <2> QED
      BY <1>2, <1>12, <2>1, <2>5, <2>6, <2>7
  <1>13. CASE flaw \in HeaderFlaws
    <2>1. PICK new, after, e1, e2, kind :
              /\ new = Flawed(file, flaw) /\ after = After(flaw, header)
              /\ e1 = FALSE /\ e2 = TRUE /\ kind = "PLTE"
      OBVIOUS
    <2>2. IsMade(Flawed(file, flaw), n, after, "PLTE", palette, first, second)
      <3>1. /\ flaw \in HeaderFlaws \cup DataFlaws
            /\ after = (IF flaw \in HeaderFlaws THEN After(flaw, header) ELSE header)
            /\ first = (IF flaw \in HeaderFlaws THEN first ELSE After(flaw, first))
            /\ second = (IF flaw \in HeaderFlaws THEN second ELSE After(flaw, second))
        BY <1>13, <2>1
      <3> QED
        BY ONLY <1>3, <1>4, <3>1, ChangedIsMade
    <2>3. IsMade(new, n, after, kind, palette, first, second)
      BY <2>1, <2>2
    <2>4. /\ first = [raw |-> a, ends |-> e1] /\ second = [raw |-> b, ends |-> e2]
          /\ e1 \in BOOLEAN /\ e2 \in BOOLEAN /\ ~e1
      BY <1>2, <2>1
    <2>5. decode(new) = IF ~Supported(after) \/ ~e2 THEN Refused
                        ELSE Decoded(after, IF n = 6 /\ kind = "PLTE" THEN palette ELSE <<>>, a \o b)
      BY ONLY <1>5, <2>3, <2>4, DecodeMade
    <2>6. ~Supported(after)
      BY <1>2, <1>13, <2>1, FlawedHeader
    <2> QED
      BY <1>2, <2>1, <2>5, <2>6
  <1>14. CASE flaw \in DataFlaws
    <2>1. PICK f, s : f = After(flaw, first) /\ s = After(flaw, second)
      OBVIOUS
    <2>2. IsMade(Flawed(file, flaw), n, header, "PLTE", palette, f, s)
      <3>1. flaw \notin HeaderFlaws
        BY <1>14 DEF HeaderFlaws, DataFlaws
      <3>2. /\ flaw \in HeaderFlaws \cup DataFlaws
            /\ header = (IF flaw \in HeaderFlaws THEN After(flaw, header) ELSE header)
            /\ f = (IF flaw \in HeaderFlaws THEN first ELSE After(flaw, first))
            /\ s = (IF flaw \in HeaderFlaws THEN second ELSE After(flaw, second))
        BY <1>14, <2>1, <3>1
      <3> QED
        BY ONLY <1>3, <1>4, <3>2, ChangedIsMade
    <2>3. \E x \in Seq(S), y \in Seq(S), e \in BOOLEAN :
              /\ f = [raw |-> x, ends |-> FALSE] /\ s = [raw |-> y, ends |-> e]
              /\ ~e \/ ~Unfilters(x \o y, h, L)
      <3>1. first = [raw |-> a, ends |-> FALSE] /\ second = [raw |-> b, ends |-> TRUE]
        BY <1>2
      <3>2. PiecesWithFlaws(a, b, first, second)
        BY ONLY <3>1, FlawedPieces
      <3>3. CASE flaw = "unended"
        <4>1. f = [raw |-> a, ends |-> FALSE] /\ s = [raw |-> b, ends |-> FALSE]
          BY <2>1, <3>2, <3>3 DEF PiecesWithFlaws
        <4> QED
          BY <1>5, <4>1
      <3>4. CASE flaw = "short"
        <4>1. Tail(b) \in Seq(S) /\ ~Unfilters(a \o Tail(b), h, L)
          BY <1>5, <1>6, <1>7, ShortData
        <4>2. f = [raw |-> a, ends |-> FALSE] /\ s = [raw |-> Tail(b), ends |-> TRUE]
          BY <2>1, <3>2, <3>4 DEF PiecesWithFlaws
        <4> QED
          BY <1>5, <4>1, <4>2
      <3>5. CASE flaw = "unknown filter"
        <4>1. /\ [a EXCEPT ![1] = 5] \in Seq(S)
              /\ ~Unfilters([a EXCEPT ![1] = 5] \o b, h, L)
          BY <1>5, <1>6, NoSuchFilter
        <4>2. f = [raw |-> [a EXCEPT ![1] = 5], ends |-> FALSE] /\ s = [raw |-> b, ends |-> TRUE]
          BY <2>1, <3>2, <3>5 DEF PiecesWithFlaws
        <4> QED
          BY <1>5, <4>1, <4>2
      <3> QED
        BY <1>14, <3>3, <3>4, <3>5 DEF DataFlaws
    <2>4. PICK x \in Seq(S), y \in Seq(S), e \in BOOLEAN :
              /\ f = [raw |-> x, ends |-> FALSE] /\ s = [raw |-> y, ends |-> e]
              /\ ~e \/ ~Unfilters(x \o y, h, L)
      BY <2>3
    <2>5. PICK new, kind, no : new = Flawed(file, flaw) /\ kind = "PLTE" /\ no = FALSE
      OBVIOUS
    <2>6. /\ f = [raw |-> x, ends |-> no] /\ s = [raw |-> y, ends |-> e]
          /\ ~e \/ ~Unfilters(x \o y, pic.height, Stride(pic))
          /\ no \in BOOLEAN /\ ~no /\ e \in BOOLEAN /\ x \in Seq(S) /\ y \in Seq(S)
      BY <1>2, <2>4, <2>5
    <2>7. IsMade(new, n, HeaderFor(pic), kind, palette, f, s)
      BY <1>2, <2>2, <2>5
    <2>8. decode(new) = Refused
      BY ONLY <2>6, <2>7, IsPicture(pic), RefusedPieces
    <2> QED
      BY <1>2, <2>5, <2>8
  <1> QED
    BY <1>8, <1>9, <1>10, <1>11, <1>12, <1>13, <1>14 DEF Flaws
=============================================================================
