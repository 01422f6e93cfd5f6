---------------------------- MODULE DetectProofs ----------------------------
(***************************************************************************)
(* Theorems about Detect, for any font, screens, texts, hints and          *)
(* tolerance, in the order in which they need each other: numbers and      *)
(* their order, bitmaps and bands, the recursion of the spread, the        *)
(* proposals of the search, the calibration that comes of them, what a     *)
(* cell of a screen shows, what is read there, and what an answer means.   *)
(***************************************************************************)
EXTENDS Detect, FiniteSetTheorems, WellFoundedInduction, TLAPS

-----------------------------------------------------------------------------
(* Numbers *)

(* Every non-empty set of numbers has a least one. *)
LEMMA LeastNatural ==
    ASSUME NEW S, S \subseteq Nat, S # {}
    PROVE  \E n \in S : \A m \in S : n <= m
  <1> DEFINE R == {p \in Nat \X Nat : p[1] < p[2]}
  <1>1. OpToRel(<, Nat) = R
    BY DEF OpToRel
  <1>2. IsWellFoundedOn(R, Nat)
    BY <1>1, NatLessThanWellFounded
  <1>3. PICK n \in S : \A m \in S : <<m, n>> \notin R
    <2> HIDE DEF R
    <2> QED
      BY <1>2, WFMin
  <1>4. \A m \in S : ~(m < n)
    <2>1. \A m, k \in Nat : m < k => <<m, k>> \in R
      OBVIOUS
    <2> HIDE DEF R
    <2> QED
      BY <1>3, <2>1
  <1> QED
    BY <1>4

(* A quotient and a remainder are the only ones. *)
LEMMA OneQuotient ==
    ASSUME NEW m \in Nat \ {0}, NEW a \in Int, NEW b \in Int,
           NEW r \in 0 .. m - 1, NEW s \in 0 .. m - 1, a * m + r = b * m + s
    PROVE  a = b /\ r = s
  <1>1. CASE a < b
    <2>1. (b - a) * m >= m
      BY <1>1
    <2>2. (b - a) * m = b * m - a * m
      OBVIOUS
    <2> QED
      BY <2>1, <2>2
  <1>2. CASE a > b
    <2>1. (a - b) * m >= m
      BY <1>2
    <2>2. (a - b) * m = a * m - b * m
      OBVIOUS
    <2> QED
      BY <2>1, <2>2
  <1> QED
    BY <1>1, <1>2

(* What \div and % are. *)
LEMMA Euclid ==
    ASSUME NEW m \in Nat \ {0}, NEW n \in Int
    PROVE  n = (n \div m) * m + (n % m) /\ n \div m \in Int /\ n % m \in 0 .. m - 1
  OBVIOUS

(* The quotient and the remainder of a sum that shows them. *)
LEMMA DivMod ==
    ASSUME NEW m \in Nat \ {0}, NEW q \in Int, NEW r \in 0 .. m - 1
    PROVE  (q * m + r) \div m = q /\ (q * m + r) % m = r
  <1> DEFINE n == q * m + r
  <1>1. n \in Int
    OBVIOUS
  <1>2. n = (n \div m) * m + (n % m) /\ n \div m \in Int /\ n % m \in 0 .. m - 1
    <2> HIDE DEF n
    <2> QED
      BY <1>1, Euclid
  <1> QED
    BY <1>2, OneQuotient

(* The least of any integers that a function gives. *)
LEMMA SomeLeast ==
    ASSUME NEW n \in Nat \ {0}, NEW f \in [1 .. n -> Int]
    PROVE  \E k \in 1 .. n : \A j \in 1 .. n : f[k] <= f[j]
  <1> DEFINE Has(m) == \E k \in 1 .. m : \A j \in 1 .. m : f[k] <= f[j]
             B == {m \in 1 .. n : ~Has(m)}
  <1>1. SUFFICES ASSUME B # {} PROVE FALSE
    <2>1. n \in B \/ Has(n)
      OBVIOUS
    <2> QED
      BY <2>1
  <1>2. PICK m \in B : \A l \in B : m <= l
    <2>1. B \subseteq Nat
      OBVIOUS
    <2> HIDE DEF B
    <2> QED
      BY <1>1, <2>1, LeastNatural
  <1>3. m # 1
    <2>1. Has(1)
      OBVIOUS
    <2> QED
      BY <2>1
  <1>4. m - 1 \in 1 .. n /\ m - 1 \notin B
    <2>1. m \in 1 .. n
      OBVIOUS
    <2>2. m - 1 \in 1 .. n /\ ~(m <= m - 1)
      BY <1>3, <2>1
    <2> HIDE DEF B
    <2> QED
      BY <1>2, <2>2
  <1>5. PICK k \in 1 .. m - 1 : \A j \in 1 .. m - 1 : f[k] <= f[j]
    BY <1>4
  <1>6. Has(m)
    <2>1. CASE f[k] <= f[m]
      <3>1. k \in 1 .. m /\ \A j \in 1 .. m : f[k] <= f[j]
        BY <1>4, <1>5, <2>1
      <3> QED
        BY <3>1
    <2>2. CASE f[m] < f[k]
      <3>1. m \in 1 .. m /\ \A j \in 1 .. m : f[m] <= f[j]
        BY <1>4, <1>5, <2>2
      <3> QED
        BY <3>1
    <2> QED
      BY <1>4, <1>5, <2>1, <2>2
  <1> QED
    BY <1>6

(* And the greatest. *)
LEMMA SomeGreatest ==
    ASSUME NEW n \in Nat \ {0}, NEW f \in [1 .. n -> Int]
    PROVE  \E k \in 1 .. n : \A j \in 1 .. n : f[j] <= f[k]
  <1> DEFINE g == [i \in 1 .. n |-> -f[i]]
  <1>1. g \in [1 .. n -> Int]
    OBVIOUS
  <1>2. PICK k \in 1 .. n : \A j \in 1 .. n : g[k] <= g[j]
    <2> HIDE DEF g
    <2> QED
      BY <1>1, SomeLeast
  <1>3. \A j \in 1 .. n : f[j] <= f[k]
    <2> TAKE j \in 1 .. n
    <2>1. f[j] \in Int /\ f[k] \in Int /\ -f[k] <= -f[j]
      BY <1>2
    <2> QED
      BY <2>1
  <1> QED
    BY <1>3

LEMMA LeastIs ==
    ASSUME NEW S, S \subseteq Int, NEW x \in S, \A y \in S : x <= y
    PROVE  Least(S) = x
  <1>1. \A y \in S : (\A z \in S : y <= z) => y = x
    <2> TAKE y \in S
    <2>1. x <= y /\ x \in Int /\ y \in Int
      OBVIOUS
    <2> QED
      BY <2>1
  <1> QED
    BY <1>1 DEF Least

LEMMA GreatestIs ==
    ASSUME NEW S, S \subseteq Int, NEW x \in S, \A y \in S : y <= x
    PROVE  Greatest(S) = x
  <1>1. \A y \in S : (\A z \in S : z <= y) => y = x
    <2> TAKE y \in S
    <2>1. y <= x /\ x \in Int /\ y \in Int
      OBVIOUS
    <2> QED
      BY <2>1
  <1> QED
    BY <1>1 DEF Greatest

LEMMA LeastOfTwo ==
    ASSUME NEW a \in Int, NEW b \in Int
    PROVE  Least({a, b}) = IF a <= b THEN a ELSE b
  <1>1. CASE a <= b
    <2>1. \A y \in {a, b} : a <= y
      BY <1>1
    <2> QED
      BY <1>1, <2>1, LeastIs
  <1>2. CASE ~(a <= b)
    <2>1. \A y \in {a, b} : b <= y
      BY <1>2
    <2> QED
      BY <1>2, <2>1, LeastIs
  <1> QED
    BY <1>1, <1>2

LEMMA GreatestOfTwo ==
    ASSUME NEW a \in Int, NEW b \in Int
    PROVE  Greatest({a, b}) = IF a <= b THEN b ELSE a
  <1>1. CASE a <= b
    <2>1. \A y \in {a, b} : y <= b
      BY <1>1
    <2> QED
      BY <1>1, <2>1, GreatestIs
  <1>2. CASE ~(a <= b)
    <2>1. \A y \in {a, b} : y <= a
      BY <1>2
    <2> QED
      BY <1>2, <2>1, GreatestIs
  <1> QED
    BY <1>1, <1>2

(* A set of numbers has a least. *)
LEMMA LeastOfNumbers ==
    ASSUME NEW S, S \subseteq Nat, S # {}
    PROVE  Least(S) \in S /\ \A y \in S : Least(S) <= y
  <1>1. PICK x \in S : \A y \in S : x <= y
    BY LeastNatural
  <1>2. Least(S) = x
    <2>1. S \subseteq Int
      OBVIOUS
    <2> QED
      BY <1>1, <2>1, LeastIs
  <1> QED
    BY <1>1, <1>2

(* And if it has a bound, a greatest. *)
LEMMA GreatestOfNumbers ==
    ASSUME NEW S, NEW b \in Nat, S \subseteq 0 .. b, S # {}
    PROVE  Greatest(S) \in S /\ \A y \in S : y <= Greatest(S)
  <1> DEFINE V == {b - y : y \in S}
  <1>1. PICK z \in V : \A v \in V : z <= v
    <2>1. \A y \in S : b - y \in Nat
      <3> TAKE y \in S
      <3>1. y \in 0 .. b
        OBVIOUS
      <3> QED
        BY <3>1
    <2>2. V \subseteq Nat /\ V # {}
      BY <2>1
    <2> HIDE DEF V
    <2> QED
      BY <2>2, LeastNatural
  <1>2. PICK x \in S : z = b - x
    BY <1>1
  <1>3. \A y \in S : y <= x
    <2> TAKE y \in S
    <2>1. b - x <= b - y
      BY <1>1, <1>2
    <2> QED
      BY <2>1
  <1>4. Greatest(S) = x
    <2>1. S \subseteq Int
      OBVIOUS
    <2> QED
      BY <1>3, <2>1, GreatestIs
  <1> QED
    BY <1>3, <1>4

(* The least and the greatest of what a function gives. *)
LEMMA LeastOfImage ==
    ASSUME NEW n \in Nat \ {0}, NEW f \in [1 .. n -> Int]
    PROVE  LET S == {f[i] : i \in 1 .. n}
           IN  Least(S) \in S /\ \A i \in 1 .. n : Least(S) <= f[i]
  <1>1. PICK k \in 1 .. n : \A j \in 1 .. n : f[k] <= f[j]
    BY SomeLeast
  <1>2. Least({f[i] : i \in 1 .. n}) = f[k]
    BY <1>1, LeastIs
  <1> QED
    BY <1>1, <1>2

LEMMA GreatestOfImage ==
    ASSUME NEW n \in Nat \ {0}, NEW f \in [1 .. n -> Int]
    PROVE  LET S == {f[i] : i \in 1 .. n}
           IN  Greatest(S) \in S /\ \A i \in 1 .. n : f[i] <= Greatest(S)
  <1>1. PICK k \in 1 .. n : \A j \in 1 .. n : f[j] <= f[k]
    BY SomeGreatest
  <1>2. Greatest({f[i] : i \in 1 .. n}) = f[k]
    BY <1>1, GreatestIs
  <1> QED
    BY <1>1, <1>2

-----------------------------------------------------------------------------
(* Sets of numbers in order *)

(* How many of them come before x. *)
Before(S, x) == Cardinality({y \in S : y < x})

LEMMA BeforeRises ==
    ASSUME NEW S, S \subseteq Int, IsFiniteSet(S), NEW x \in S
    PROVE  /\ Before(S, x) \in 0 .. Cardinality(S) - 1
           /\ \A y \in S : x < y => Before(S, x) < Before(S, y)
  <1> DEFINE B(z) == {y \in S : y < z}
  <1>1. \A z : IsFiniteSet(B(z)) /\ Cardinality(B(z)) \in Nat
    BY FS_Subset, FS_CardinalityType
  <1>2. Cardinality(S) \in Nat /\ B(x) \in SUBSET S
    BY FS_CardinalityType
  <1>3. Cardinality(B(x)) <= Cardinality(S)
        /\ (Cardinality(S) = Cardinality(B(x)) => S = B(x))
    BY <1>2, FS_Subset
  <1>4. x \notin B(x)
    OBVIOUS
  <1>5. \A y \in S : x < y => Cardinality(B(x)) < Cardinality(B(y))
    <2> SUFFICES ASSUME NEW y \in S, x < y PROVE Cardinality(B(x)) < Cardinality(B(y))
      OBVIOUS
    <2>1. B(x) \in SUBSET B(y) /\ x \in B(y)
      <3>1. x \in Int /\ y \in Int /\ \A z \in S : z \in Int
        OBVIOUS
      <3>2. \A z \in S : z < x => z < y
        BY <3>1
      <3> QED
        BY <3>2
    <2>2. Cardinality(B(x)) <= Cardinality(B(y))
          /\ (Cardinality(B(y)) = Cardinality(B(x)) => B(y) = B(x))
      BY <1>1, <2>1, FS_Subset
    <2> HIDE DEF B
    <2> QED
      BY <1>1, <1>4, <2>1, <2>2
  <1> HIDE DEF B
  <1>6. Cardinality(B(x)) \in 0 .. Cardinality(S) - 1
    BY <1>1, <1>2, <1>3, <1>4
  <1> QED
    BY <1>5, <1>6 DEF Before, B

(* InOrder lists the set, each number where as many come before it. *)
LEMMA InOrderIs ==
    ASSUME NEW S, S \subseteq Int, IsFiniteSet(S)
    PROVE  /\ Cardinality(S) \in Nat
           /\ DOMAIN InOrder(S) = 1 .. Cardinality(S)
           /\ \A k \in 1 .. Cardinality(S) : /\ InOrder(S)[k] \in S
                                             /\ Before(S, InOrder(S)[k]) = k - 1
           /\ \A x \in S : /\ Before(S, x) + 1 \in 1 .. Cardinality(S)
                           /\ InOrder(S)[Before(S, x) + 1] = x
  <1> DEFINE n == Cardinality(S)
             b == [x \in S |-> Before(S, x)]
  <1>1. n \in Nat
    BY FS_CardinalityType
  <1>2. \A x \in S : b[x] \in 0 .. n - 1 /\ \A y \in S : x < y => b[x] < b[y]
    BY BeforeRises
  <1>3. b \in [S -> 0 .. n - 1]
    BY <1>2
  <1>4. b \in Injection(S, 0 .. n - 1)
    <2>1. \A x, y \in S : b[x] = b[y] => x = y
      <3> SUFFICES ASSUME NEW x \in S, NEW y \in S, b[x] = b[y] PROVE x = y
        OBVIOUS
      <3> HIDE DEF b, n
      <3>1. b[x] \in Int /\ b[y] \in Int
        BY <1>1, <1>2
      <3>2. ~(x < y) /\ ~(y < x)
        BY <1>2, <3>1
      <3> QED
        BY <3>2
    <2> HIDE DEF b
    <2> QED
      BY <1>3, <2>1 DEF Injection, IsInjective
  <1>5. IsFiniteSet(0 .. n - 1) /\ Cardinality(0 .. n - 1) = n
    <2>1. n - 1 \in Int
      BY <1>1
    <2> HIDE DEF n
    <2>2. IsFiniteSet(0 .. n - 1)
          /\ Cardinality(0 .. n - 1) = IF 0 > n - 1 THEN 0 ELSE (n - 1) - 0 + 1
      BY <2>1, FS_Interval
    <2> QED
      BY <1>1, <2>2
  <1>6. \A k \in 0 .. n - 1 : \E x \in S : b[x] = k
    <2>1. b \in Surjection(S, 0 .. n - 1)
      <3> HIDE DEF b
      <3> QED
        BY <1>4, <1>5, FS_Injection
    <2> HIDE DEF b
    <2> QED
      BY <2>1 DEF Surjection
  <1>7. InOrder(S) = [k \in 1 .. n |-> CHOOSE x \in S : b[x] = k - 1]
    BY DEF InOrder, Before
  <1>8. \A x, y \in S : b[x] = b[y] => x = y
    <2> HIDE DEF b
    <2> QED
      BY <1>4 DEF Injection, IsInjective
  <1>9. \A k \in 1 .. n : InOrder(S)[k] \in S /\ b[InOrder(S)[k]] = k - 1
    <2> SUFFICES ASSUME NEW k \in 1 .. n PROVE InOrder(S)[k] \in S /\ b[InOrder(S)[k]] = k - 1
      OBVIOUS
    <2>1. InOrder(S)[k] = CHOOSE x \in S : b[x] = k - 1
      BY <1>7
    <2>2. \E x \in S : b[x] = k - 1
      <3>1. k - 1 \in 0 .. n - 1
        BY <1>1
      <3> QED
        BY <1>6, <3>1
    <2> HIDE DEF b
    <2> QED
      BY <2>1, <2>2
  <1>10. \A x \in S : b[x] + 1 \in 1 .. n /\ InOrder(S)[b[x] + 1] = x
    <2> SUFFICES ASSUME NEW x \in S PROVE b[x] + 1 \in 1 .. n /\ InOrder(S)[b[x] + 1] = x
      OBVIOUS
    <2> HIDE DEF b, n
    <2>1. b[x] + 1 \in 1 .. n /\ (b[x] + 1) - 1 = b[x]
      BY <1>1, <1>2
    <2> QED
      BY <1>8, <1>9, <2>1
  <1>11. DOMAIN InOrder(S) = 1 .. n
    BY <1>7
  <1> QED
    BY <1>1, <1>9, <1>10, <1>11

(* A map that keeps the order keeps the places. *)
KeepsOrder(S, T, f) ==
    /\ f \in [S -> T]
    /\ \A y \in T : \E x \in S : f[x] = y
    /\ \A x, y \in S : x < y => f[x] < f[y]

SamePlaces(S, T, f) == \A k \in 1 .. Cardinality(S) : InOrder(T)[k] = f[InOrder(S)[k]]

LEMMA SameOrder ==
    ASSUME NEW S, S \subseteq Int, IsFiniteSet(S), NEW T, T \subseteq Int,
           NEW f, KeepsOrder(S, T, f)
    PROVE  IsFiniteSet(T) /\ Cardinality(T) = Cardinality(S) /\ SamePlaces(S, T, f)
  <1> f \in [S -> T] /\ (\A y \in T : \E x \in S : f[x] = y)
      /\ \A x, y \in S : x < y => f[x] < f[y]
    BY DEF KeepsOrder
  <1>1. \A x, y \in S : f[x] < f[y] => x < y
    <2> SUFFICES ASSUME NEW x \in S, NEW y \in S, f[x] < f[y] PROVE x < y
      OBVIOUS
    <2>1. f[x] \in Int /\ f[y] \in Int /\ x \in Int /\ y \in Int
      OBVIOUS
    <2> QED
      BY <2>1
  <1>2. f \in Bijection(S, T)
    <2>1. \A x, y \in S : f[x] = f[y] => x = y
      <3> SUFFICES ASSUME NEW x \in S, NEW y \in S, f[x] = f[y] PROVE x = y
        OBVIOUS
      <3>1. f[x] \in Int /\ f[y] \in Int /\ x \in Int /\ y \in Int
        OBVIOUS
      <3> QED
        BY <3>1
    <2> QED
      BY <2>1 DEF Bijection, Injection, Surjection, IsInjective
  <1>3. IsFiniteSet(T) /\ Cardinality(T) = Cardinality(S)
    BY <1>2, FS_Bijection DEF ExistsBijection
  <1>4. \A x \in S : Before(T, f[x]) = Before(S, x)
    <2> SUFFICES ASSUME NEW x \in S PROVE Before(T, f[x]) = Before(S, x)
      OBVIOUS
    <2> DEFINE A == {y \in S : y < x}
               B == {y \in T : y < f[x]}
               g == [y \in A |-> f[y]]
    <2>1. \A y \in A : f[y] \in B
      OBVIOUS
    <2>2. \A y \in B : \E z \in A : f[z] = y
      BY <1>1
    <2>3. g \in Bijection(A, B)
      <3>1. \A y, z \in A : g[y] = g[z] => y = z
        BY <1>2 DEF Bijection, Injection, IsInjective
      <3>2. \A y \in B : \E z \in A : g[z] = y
        BY <2>2
      <3>3. g \in [A -> B]
        BY <2>1
      <3> HIDE DEF A, B, g
      <3> QED
        BY <3>1, <3>2, <3>3 DEF Bijection, Injection, Surjection, IsInjective
    <2>4. IsFiniteSet(A)
      BY FS_Subset
    <2>5. Cardinality(B) = Cardinality(A)
      <3> HIDE DEF A, B, g
      <3> QED
        BY <2>3, <2>4, FS_Bijection DEF ExistsBijection
    <2> QED
      BY <2>5 DEF Before
  <1>5. ASSUME NEW k \in 1 .. Cardinality(S)
        PROVE  InOrder(T)[k] = f[InOrder(S)[k]]
    <2> DEFINE x == InOrder(S)[k]
    <2>1. x \in S /\ Before(S, x) = k - 1
      BY InOrderIs
    <2>2. k \in Int
      BY FS_CardinalityType
    <2> HIDE DEF x
    <2>3. f[x] \in T /\ Before(T, f[x]) + 1 = k
      BY <1>4, <2>1, <2>2
    <2>4. InOrder(T)[Before(T, f[x]) + 1] = f[x]
      BY <1>3, <2>3, InOrderIs
    <2> QED
      BY <2>3, <2>4 DEF x
  <1> QED
    BY <1>3, <1>5 DEF SamePlaces

-----------------------------------------------------------------------------
(* Frames, bitmaps and bands of ink *)

IsBitmap(b) ==
    /\ b.width \in Nat /\ b.height \in Nat
    /\ b.ink \subseteq Area(b.width, b.height)

(* The parameters, in the form the proofs use them. *)
LEMMA FontCells ==
    /\ FontCell[1] \in Nat \ {0} /\ FontCell[2] \in Nat \ {0}
    /\ \A c \in DOMAIN Font : c \in Nat
    /\ \A c \in DOMAIN Font : \A p \in Font[c] :
            /\ p = <<p[1], p[2]>>
            /\ p[1] \in 0 .. FontCell[1] - 1 /\ p[2] \in 0 .. FontCell[2] - 1
    /\ Space \in DOMAIN Font /\ Font[Space] = {}
  BY FontAssumption DEF Area

LEMMA LinesAre ==
    ASSUME NEW lines, AreLines(lines)
    PROVE  /\ Len(lines) \in Nat /\ DOMAIN lines = 1 .. Len(lines)
           /\ \A i \in 1 .. Len(lines) :
                /\ Len(lines[i]) \in Nat /\ DOMAIN lines[i] = 1 .. Len(lines[i])
                /\ \A k \in 1 .. Len(lines[i]) : lines[i][k] \in DOMAIN Font
  <1>1. lines \in Seq(Seq(DOMAIN Font))
    BY DEF AreLines
  <1>2. /\ Len(lines) \in Nat /\ DOMAIN lines = 1 .. Len(lines)
        /\ \A i \in 1 .. Len(lines) : lines[i] \in Seq(DOMAIN Font)
    BY <1>1
  <1> QED
    BY <1>2

(* A place is a line and a place in it. *)
LEMMA PlacesAre ==
    ASSUME NEW lines, NEW p
    PROVE  p \in Places(lines) <=> \E i \in DOMAIN lines : \E k \in DOMAIN lines[i] : p = <<i, k>>
  BY DEF Places

(* Everything that is drawn lies on the frame. *)
LEMMA CellInFrame ==
    ASSUME NEW s, IsScreen(s), NEW i \in DOMAIN s.lines, NEW k \in DOMAIN s.lines[i],
           NEW f \in Font[s.lines[i][k]]
    PROVE  /\ (s.at[1] + k - 1) * FontCell[1] + f[1] \in 0 .. s.mode.width - 1
           /\ (s.at[2] + i - 1) * FontCell[2] + f[2] \in 0 .. s.mode.height - 1
  <1> DEFINE W == FontCell[1]
             H == FontCell[2]
             x == s.at[1]
             y == s.at[2]
             l == Len(s.lines[i])
             w == s.mode.width
             h == s.mode.height
  <1>1. W \in Nat \ {0} /\ H \in Nat \ {0}
    BY FontCells
  <1>2. AreLines(s.lines) /\ x \in Nat /\ y \in Nat /\ w \in Nat /\ h \in Nat
        /\ (x + l) * W <= w /\ (y + i) * H <= h
    BY DEF IsScreen
  <1>3. i \in Nat \ {0} /\ l \in Nat /\ k \in 1 .. l /\ s.lines[i][k] \in DOMAIN Font
    <2>1. DOMAIN s.lines = 1 .. Len(s.lines) /\ Len(s.lines) \in Nat
      BY <1>2, LinesAre
    <2>2. /\ Len(s.lines[i]) \in Nat /\ DOMAIN s.lines[i] = 1 .. Len(s.lines[i])
          /\ \A j \in 1 .. Len(s.lines[i]) : s.lines[i][j] \in DOMAIN Font
      BY <1>2, <2>1, LinesAre
    <2> QED
      BY <2>1, <2>2
  <1>4. f[1] \in 0 .. W - 1 /\ f[2] \in 0 .. H - 1
    BY <1>3, FontCells
  <1> HIDE DEF W, H, x, y, l, w, h
  <1>5. (x + k - 1) * W >= 0 /\ (y + i - 1) * H >= 0
    BY <1>1, <1>2, <1>3
  <1>6. (x + k - 1) * W + W <= (x + l) * W
    <2>1. (x + l) * W - ((x + k - 1) * W + W) = (l - k) * W
      BY <1>1, <1>2, <1>3
    <2>2. (l - k) * W >= 0
      BY <1>1, <1>3
    <2>3. (x + l) * W \in Int /\ (x + k - 1) * W \in Int
      BY <1>1, <1>2, <1>3
    <2> QED
      BY <1>1, <2>1, <2>2, <2>3
  <1>7. (y + i - 1) * H + H = (y + i) * H
    BY <1>1, <1>2, <1>3
  <1>8. (x + k - 1) * W \in Int /\ (y + i - 1) * H \in Int /\ (x + l) * W \in Int /\ (y + i) * H \in Int
    BY <1>1, <1>2, <1>3
  <1>9. (x + k - 1) * W + f[1] \in 0 .. w - 1
    BY <1>1, <1>2, <1>4, <1>5, <1>6, <1>8
  <1>10. (y + i - 1) * H + f[2] \in 0 .. h - 1
    BY <1>1, <1>2, <1>4, <1>5, <1>7, <1>8
  <1> QED
    BY <1>9, <1>10 DEF W, H, x, y, w, h

(* A pixel of a screen's characters. *)
IsDrawn(s, q) ==
    \E i \in DOMAIN s.lines : \E k \in DOMAIN s.lines[i] : \E f \in Font[s.lines[i][k]] :
        q = <<(s.at[1] + k - 1) * FontCell[1] + f[1], (s.at[2] + i - 1) * FontCell[2] + f[2]>>

LEMMA DrawnIs ==
    ASSUME NEW s, NEW q
    PROVE  q \in UNION {CellInk(s, p) : p \in Cells(s)} <=> IsDrawn(s, q)
  <1>1. ASSUME NEW i \in DOMAIN s.lines, NEW k \in DOMAIN s.lines[i]
        PROVE  q \in CellInk(s, <<i, k>>) <=>
                 \E f \in Font[s.lines[i][k]] :
                    q = <<(s.at[1] + k - 1) * FontCell[1] + f[1],
                          (s.at[2] + i - 1) * FontCell[2] + f[2]>>
    BY DEF CellInk
  <1>2. q \in UNION {CellInk(s, p) : p \in Cells(s)} <=>
           \E p \in Places(s.lines) : q \in CellInk(s, p)
    BY DEF Cells
  <1>3. q \in UNION {CellInk(s, p) : p \in Cells(s)} <=>
           \E i \in DOMAIN s.lines : \E k \in DOMAIN s.lines[i] : q \in CellInk(s, <<i, k>>)
    <2> HIDE DEF CellInk
    <2>1. ASSUME NEW p \in Places(s.lines), q \in CellInk(s, p)
          PROVE  \E i \in DOMAIN s.lines : \E k \in DOMAIN s.lines[i] : q \in CellInk(s, <<i, k>>)
      BY <2>1, PlacesAre
    <2>2. ASSUME NEW i \in DOMAIN s.lines, NEW k \in DOMAIN s.lines[i]
          PROVE  <<i, k>> \in Places(s.lines)
      BY PlacesAre
    <2> QED
      BY <1>2, <2>1, <2>2
  <1> QED
    BY <1>1, <1>3 DEF IsDrawn

(* What the console shows is a frame. *)
LEMMA RenderIsFrame ==
    ASSUME NEW s, IsScreen(s)
    PROVE  /\ Render(s).width = s.mode.width /\ Render(s).height = s.mode.height
           /\ Render(s).pen = s.mode.pen /\ Render(s).paper = s.mode.paper
           /\ s.mode.width \in Nat \ {0} /\ s.mode.height \in Nat \ {0}
           /\ s.mode.pen \in 0 .. 255 /\ s.mode.paper \in 0 .. 255
           /\ Render(s).ink \subseteq Area(s.mode.width, s.mode.height)
           /\ \A q : q \notin s.specks => (q \in Render(s).ink <=> IsDrawn(s, q))
  <1> DEFINE drawn == UNION {CellInk(s, p) : p \in Cells(s)}
  <1>1. /\ s.mode.width \in Nat \ {0} /\ s.mode.height \in Nat \ {0}
        /\ s.mode.pen \in 0 .. 255 /\ s.mode.paper \in 0 .. 255
        /\ s.specks \subseteq Area(s.mode.width, s.mode.height)
    BY DEF IsScreen
  <1>2. /\ Render(s).width = s.mode.width /\ Render(s).height = s.mode.height
        /\ Render(s).pen = s.mode.pen /\ Render(s).paper = s.mode.paper
        /\ Render(s).ink = (drawn \ s.specks) \cup (s.specks \ drawn)
    BY DEF Render
  <1>3. ASSUME NEW q, IsDrawn(s, q)
        PROVE  q \in Area(s.mode.width, s.mode.height)
    BY <1>3, CellInFrame DEF IsDrawn, Area
  <1>4. \A q : q \in drawn <=> IsDrawn(s, q)
    BY DrawnIs
  <1> HIDE DEF drawn
  <1>5. Render(s).ink \subseteq Area(s.mode.width, s.mode.height)
    BY <1>1, <1>2, <1>3, <1>4
  <1>6. \A q : q \notin s.specks => (q \in Render(s).ink <=> IsDrawn(s, q))
    BY <1>2, <1>4
  <1> QED
    BY <1>1, <1>2, <1>5, <1>6

LEMMA BinariseIsBitmap ==
    ASSUME NEW frame, frame.width \in Nat, frame.height \in Nat,
           frame.ink \subseteq Area(frame.width, frame.height), NEW threshold, NEW inverted
    PROVE  /\ IsBitmap(Binarise(frame, threshold, inverted))
           /\ Binarise(frame, threshold, inverted).width = frame.width
           /\ Binarise(frame, threshold, inverted).height = frame.height
  BY DEF Binarise, IsBitmap

LEMMA PixelsAre ==
    ASSUME NEW b, IsBitmap(b)
    PROVE  \A p \in b.ink : p = <<p[1], p[2]>> /\ p[1] \in 0 .. b.width - 1 /\ p[2] \in 0 .. b.height - 1
  BY DEF IsBitmap, Area

(* A band is a group of rows of ink, without ink in the rows above and     *)
(* below, and as wide as its ink.                                          *)
IsBand(mask, band, y, z) ==
    /\ y \in Nat /\ z \in Nat /\ y <= z
    /\ \A p \in mask.ink : p[2] # y - 1 /\ p[2] # z + 1
    /\ \E p \in mask.ink : p[2] = y
    /\ band.top = y /\ band.left \in Nat /\ band.right \in Nat
    /\ \A p \in mask.ink : p[2] \in y .. z => band.left <= p[1]
    /\ \E p \in mask.ink : p[2] \in y .. z /\ p[1] = band.left

LEMMA MeasureBandIs ==
    ASSUME NEW mask, IsBitmap(mask), NEW y \in Nat, NEW z \in Nat,
           NEW q \in mask.ink, q[2] = y, y <= z
    PROVE  LET band == MeasureBand(mask, y, z)
           IN  /\ band.top = y /\ band.left \in Nat /\ band.right \in Nat
               /\ \A p \in mask.ink : p[2] \in y .. z => band.left <= p[1]
               /\ \E p \in mask.ink : p[2] \in y .. z /\ p[1] = band.left
  <1> DEFINE columns == {p[1] : p \in {o \in mask.ink : o[2] \in y .. z}}
  <1>1. mask.width \in Nat /\ \A p \in mask.ink : p[1] \in 0 .. mask.width - 1
    BY PixelsAre DEF IsBitmap
  <1>2. q[1] \in columns
    OBVIOUS
  <1>3. columns \subseteq Nat /\ columns \subseteq 0 .. mask.width
    BY <1>1
  <1>4. /\ MeasureBand(mask, y, z).top = y
        /\ MeasureBand(mask, y, z).left = Least(columns)
        /\ MeasureBand(mask, y, z).right = Greatest(columns)
    BY DEF MeasureBand
  <1>5. \A c : c \in columns <=> \E p \in mask.ink : p[2] \in y .. z /\ p[1] = c
    OBVIOUS
  <1> HIDE DEF columns
  <1>6. Least(columns) \in columns /\ \A c \in columns : Least(columns) <= c
    BY <1>2, <1>3, LeastOfNumbers
  <1>7. Greatest(columns) \in columns
    BY <1>1, <1>2, <1>3, GreatestOfNumbers
  <1> QED
    BY <1>3, <1>4, <1>5, <1>6, <1>7

LEMMA BandsAre ==
    ASSUME NEW mask, IsBitmap(mask)
    PROVE  \E n \in Nat :
              /\ DOMAIN FindBands(mask) = 1 .. n /\ Len(FindBands(mask)) = n
              /\ \A i \in 1 .. n : \E y, z \in Nat : IsBand(mask, FindBands(mask)[i], y, z)
  <1> DEFINE inked == {p[2] : p \in mask.ink}
             S == {y \in inked : y - 1 \notin inked}
             End(y) == Least({z \in inked : z >= y /\ z + 1 \notin inked})
             n == Cardinality(S)
  <1>1. inked \subseteq 0 .. mask.height /\ mask.height \in Nat
    BY PixelsAre DEF IsBitmap
  <1>2. S \subseteq Int /\ S \subseteq Nat /\ IsFiniteSet(S)
    <2>1. IsFiniteSet(0 .. mask.height)
      BY <1>1, FS_Interval
    <2>2. S \in SUBSET (0 .. mask.height)
      BY <1>1
    <2>3. S \subseteq Nat
      BY <1>1
    <2> HIDE DEF S
    <2>4. IsFiniteSet(S)
      BY <2>1, <2>2, FS_Subset
    <2> QED
      BY <2>3, <2>4
  <1>3. /\ n \in Nat /\ DOMAIN InOrder(S) = 1 .. n
        /\ \A i \in 1 .. n : InOrder(S)[i] \in S
    <2> HIDE DEF S
    <2> QED
      BY <1>2, InOrderIs
  <1>4. FindBands(mask) = [i \in 1 .. n |-> MeasureBand(mask, InOrder(S)[i], End(InOrder(S)[i]))]
    <2>1. FindBands(mask)
            = [i \in DOMAIN InOrder(S) |-> MeasureBand(mask, InOrder(S)[i], End(InOrder(S)[i]))]
      BY DEF FindBands
    <2> HIDE DEF S, End, n
    <2> QED
      BY <1>3, <2>1
  <1>5. ASSUME NEW y \in S
        PROVE  IsBand(mask, MeasureBand(mask, y, End(y)), y, End(y))
    <2> DEFINE T == {z \in inked : z >= y /\ z + 1 \notin inked}
    <2>1. y \in inked /\ y - 1 \notin inked /\ y \in Nat
      BY <1>2
    <2>2. T # {}
      <3> DEFINE U == {z \in inked : z >= y}
      <3>1. U \subseteq 0 .. mask.height /\ y \in U
        BY <1>1, <2>1
      <3>2. PICK z \in U : \A v \in U : v <= z
        <4> HIDE DEF U
        <4> QED
          BY <1>1, <3>1, GreatestOfNumbers
      <3>3. z \in Nat
        BY <1>1, <3>1
      <3>4. z + 1 \notin inked
        <4>1. SUFFICES ASSUME z + 1 \in inked PROVE FALSE
          OBVIOUS
        <4>2. z + 1 >= y
          BY <2>1, <3>2, <3>3
        <4>3. z + 1 <= z
          BY <3>2, <4>1, <4>2
        <4> QED
          BY <3>3, <4>3
      <3> QED
        BY <3>2, <3>4
    <2>3. T \subseteq Nat
      BY <1>1
    <2>4. End(y) \in T
      <3>1. End(y) = Least(T)
        OBVIOUS
      <3> HIDE DEF T, End
      <3> QED
        BY <2>2, <2>3, <3>1, LeastOfNumbers
    <2>5. End(y) \in Nat /\ y <= End(y) /\ End(y) + 1 \notin inked
      <3> HIDE DEF End
      <3>1. End(y) \in Nat
        <4> HIDE DEF T
        <4> QED
          BY <2>3, <2>4
      <3> QED
        BY <2>1, <2>4, <3>1
    <2>6. PICK q \in mask.ink : q[2] = y
      BY <2>1
    <2>7. \A p \in mask.ink : p[2] # y - 1 /\ p[2] # End(y) + 1
      <3> HIDE DEF End
      <3> QED
        BY <2>1, <2>5
    <2> HIDE DEF End, T
    <2> QED
      BY <2>1, <2>5, <2>6, <2>7, MeasureBandIs DEF IsBand
  <1>6. \A i \in 1 .. n : \E y, z \in Nat : IsBand(mask, FindBands(mask)[i], y, z)
    <2> TAKE i \in 1 .. n
    <2> DEFINE y == InOrder(S)[i]
    <2>1. y \in S /\ FindBands(mask)[i] = MeasureBand(mask, y, End(y))
      BY <1>3, <1>4
    <2> HIDE DEF S, End, n, y
    <2>2. IsBand(mask, FindBands(mask)[i], y, End(y))
      BY <1>5, <2>1
    <2>3. y \in Nat /\ End(y) \in Nat
      BY <2>2 DEF IsBand
    <2> QED
      BY <2>2, <2>3
  <1>7. DOMAIN FindBands(mask) = 1 .. n /\ Len(FindBands(mask)) = n
    <2> HIDE DEF n, S, End
    <2>1. DOMAIN FindBands(mask) = 1 .. n
      BY <1>4
    <2>2. FindBands(mask) \in Seq({FindBands(mask)[i] : i \in 1 .. n})
      BY <1>3, <1>4
    <2> QED
      BY <1>3, <2>1, <2>2
  <1> QED
    BY <1>3, <1>6, <1>7

-----------------------------------------------------------------------------
(* The search *)

(* A recursion over 1 .. n that stays among some values has a solution. *)
IsRecursion(n, V, b, step) ==
    b \in V /\ \A i \in 1 .. n : \A v \in V : step[i][v] \in V

IsSolution(n, V, b, step, g) ==
    /\ g \in [0 .. n -> V] /\ g[0] = b
    /\ \A i \in 1 .. n : g[i] = step[i][g[i - 1]]

LEMMA RecursionHasValues ==
    ASSUME NEW n \in Nat, NEW V, NEW b, NEW step, IsRecursion(n, V, b, step)
    PROVE  \E g : IsSolution(n, V, b, step, g)
  <1> DEFINE Solves(m, g) == /\ g \in [0 .. m -> V] /\ g[0] = b
                             /\ \A i \in 1 .. m : g[i] = step[i][g[i - 1]]
             Has(m) == \E g : Solves(m, g)
             Bad == {m \in 0 .. n : ~Has(m)}
  <1>0. b \in V /\ \A i \in 1 .. n : \A v \in V : step[i][v] \in V
    BY DEF IsRecursion
  <1>1. ASSUME NEW m \in 0 .. n, m = 0 \/ Has(m - 1)
        PROVE  Has(m)
    <2>1. CASE m = 0
      <3>1. Solves(0, [i \in 0 .. 0 |-> b])
        BY <1>0
      <3> QED
        BY <2>1, <3>1
    <2>2. CASE m # 0
      <3>1. PICK g : Solves(m - 1, g)
        BY <1>1, <2>2
      <3>2. m \in 1 .. n /\ m - 1 \in 0 .. m - 1
        BY <2>2
      <3> DEFINE h == [i \in 0 .. m |-> IF i = m THEN step[m][g[m - 1]] ELSE g[i]]
      <3>3. h \in [0 .. m -> V]
        <4>1. g[m - 1] \in V
          BY <3>1, <3>2
        <4>2. step[m][g[m - 1]] \in V
          BY <1>0, <3>2, <4>1
        <4> QED
          BY <3>1, <3>2, <4>2
      <3>4. h[0] = b
        BY <3>1, <3>2
      <3>5. \A i \in 1 .. m : h[i] = step[i][h[i - 1]]
        <4> TAKE i \in 1 .. m
        <4>1. h[i - 1] = g[i - 1]
          BY <3>2
        <4>2. i # m => i \in 1 .. m - 1 /\ h[i] = g[i]
          BY <3>2
        <4>3. i = m => h[i] = step[m][g[m - 1]]
          OBVIOUS
        <4> HIDE DEF h
        <4> QED
          BY <3>1, <4>1, <4>2, <4>3
      <3> HIDE DEF h
      <3> QED
        BY <3>3, <3>4, <3>5
    <2> QED
      BY <2>1, <2>2
  <1>2. Bad = {}
    <2> SUFFICES ASSUME Bad # {} PROVE FALSE
      OBVIOUS
    <2>1. \A m \in 0 .. n : m \in Bad <=> ~Has(m)
      OBVIOUS
    <2>2. Bad \subseteq Nat /\ Bad \subseteq 0 .. n
      OBVIOUS
    <2> HIDE DEF Bad, Has, Solves
    <2>3. PICK m \in Bad : \A l \in Bad : m <= l
      BY <2>2, LeastNatural
    <2>4. m = 0 \/ (m - 1 \notin Bad /\ m - 1 \in 0 .. n)
      BY <2>2, <2>3
    <2> QED
      BY <1>1, <2>1, <2>2, <2>3, <2>4
  <1>3. Has(n)
    <2>1. n \in Bad \/ Has(n)
      OBVIOUS
    <2> QED
      BY <1>2, <2>1
  <1> QED
    BY <1>3 DEF IsSolution

(* What is among them at each step is so at the end. *)
LEMMA RecursionStays ==
    ASSUME NEW n \in Nat, NEW V, NEW g, g[0] \in V,
           \A i \in 1 .. n : g[i - 1] \in V => g[i] \in V
    PROVE  g[n] \in V
  <1> DEFINE D == {m \in 0 .. n : g[m] \notin V}
  <1> SUFFICES ASSUME D # {} PROVE FALSE
    OBVIOUS
  <1>1. D \subseteq Nat
    OBVIOUS
  <1>2. PICK m \in D : \A l \in D : m <= l
    <2> HIDE DEF D
    <2> QED
      BY <1>1, LeastNatural
  <1>3. m \in 1 .. n /\ g[m] \notin V
    OBVIOUS
  <1>4. m - 1 \in 0 .. n /\ ~(m <= m - 1)
    BY <1>3
  <1>5. g[m - 1] \in V
    BY <1>2, <1>4
  <1> QED
    BY <1>3, <1>5

(* So a sum over a sequence is a number. *)
LEMMA SumIsNumber ==
    ASSUME NEW V \in {Nat, Int}, NEW n \in Nat, NEW w, \A i \in 1 .. n : w[i] \in V
    PROVE  (CHOOSE g : g = [i \in 0 .. n |-> IF i = 0 THEN 0 ELSE g[i - 1] + w[i]])[n] \in V
  <1> DEFINE Solves(g) == g = [i \in 0 .. n |-> IF i = 0 THEN 0 ELSE g[i - 1] + w[i]]
             step == [i \in 1 .. n |-> [v \in V |-> v + w[i]]]
             f == CHOOSE g : Solves(g)
  <1>1. 0 \in V /\ \A x, y \in V : x + y \in V
    OBVIOUS
  <1>2. \A i \in 1 .. n : \A v \in V : step[i][v] = v + w[i]
    OBVIOUS
  <1>3. PICK g \in [0 .. n -> V] : g[0] = 0 /\ \A i \in 1 .. n : g[i] = step[i][g[i - 1]]
    <2>1. \A i \in 1 .. n : \A v \in V : step[i][v] \in V
      BY <1>1, <1>2
    <2>2. IsRecursion(n, V, 0, step)
      BY <1>1, <2>1 DEF IsRecursion
    <2> HIDE DEF step
    <2>3. PICK g : IsSolution(n, V, 0, step, g)
      BY <2>2, RecursionHasValues
    <2> QED
      BY <2>3 DEF IsSolution
  <1>4. Solves(g)
    <2>1. \A i \in 1 .. n : i - 1 \in 0 .. n
      OBVIOUS
    <2>2. \A i \in 1 .. n : g[i] = g[i - 1] + w[i]
      <3> HIDE DEF step
      <3> QED
        BY <1>2, <1>3, <2>1
    <2>3. \A i \in 0 .. n : i # 0 => i \in 1 .. n
      OBVIOUS
    <2>4. \A i \in 0 .. n : g[i] = IF i = 0 THEN 0 ELSE g[i - 1] + w[i]
      BY <1>3, <2>2, <2>3
    <2> QED
      BY <2>4
  <1>5. Solves(f)
    <2> HIDE DEF Solves
    <2> QED
      BY <1>4
  <1>6. f[0] = 0 /\ \A i \in 1 .. n : f[i] = f[i - 1] + w[i]
    <2> HIDE DEF f
    <2> QED
      BY <1>5
  <1> HIDE DEF f
  <1>7. f[n] \in V
    <2>1. \A i \in 1 .. n : f[i - 1] \in V => f[i] \in V
      BY <1>1, <1>6
    <2>2. f[0] \in V
      BY <1>1, <1>6
    <2> QED
      BY <2>1, <2>2, RecursionStays
  <1> QED
    BY <1>7 DEF f

(* And so is a product. *)
LEMMA ProductIsNumber ==
    ASSUME NEW n \in Nat, NEW w, \A i \in 1 .. n : w[i] \in Nat
    PROVE  (CHOOSE g : g = [i \in 0 .. n |-> IF i = 0 THEN 1 ELSE g[i - 1] * w[i]])[n] \in Nat
  <1> DEFINE Solves(g) == g = [i \in 0 .. n |-> IF i = 0 THEN 1 ELSE g[i - 1] * w[i]]
             step == [i \in 1 .. n |-> [v \in Nat |-> v * w[i]]]
             f == CHOOSE g : Solves(g)
  <1>1. 1 \in Nat /\ \A x, y \in Nat : x * y \in Nat
    OBVIOUS
  <1>2. \A i \in 1 .. n : \A v \in Nat : step[i][v] = v * w[i]
    OBVIOUS
  <1>3. PICK g \in [0 .. n -> Nat] : g[0] = 1 /\ \A i \in 1 .. n : g[i] = step[i][g[i - 1]]
    <2>1. \A i \in 1 .. n : \A v \in Nat : step[i][v] \in Nat
      BY <1>1, <1>2
    <2>2. IsRecursion(n, Nat, 1, step)
      BY <1>1, <2>1 DEF IsRecursion
    <2> HIDE DEF step
    <2>3. PICK g : IsSolution(n, Nat, 1, step, g)
      BY <2>2, RecursionHasValues
    <2> QED
      BY <2>3 DEF IsSolution
  <1>4. Solves(g)
    <2>1. \A i \in 1 .. n : i - 1 \in 0 .. n
      OBVIOUS
    <2>2. \A i \in 1 .. n : g[i] = g[i - 1] * w[i]
      <3> HIDE DEF step
      <3> QED
        BY <1>2, <1>3, <2>1
    <2>3. \A i \in 0 .. n : i # 0 => i \in 1 .. n
      OBVIOUS
    <2>4. \A i \in 0 .. n : g[i] = IF i = 0 THEN 1 ELSE g[i - 1] * w[i]
      BY <1>3, <2>2, <2>3
    <2> QED
      BY <2>4
  <1>5. Solves(f)
    <2> HIDE DEF Solves
    <2> QED
      BY <1>4
  <1>6. f[0] = 1 /\ \A i \in 1 .. n : f[i] = f[i - 1] * w[i]
    <2> HIDE DEF f
    <2> QED
      BY <1>5
  <1> HIDE DEF f
  <1>7. f[n] \in Nat
    <2>1. \A i \in 1 .. n : f[i - 1] \in Nat => f[i] \in Nat
      BY <1>1, <1>6
    <2>2. f[0] \in Nat
      BY <1>1, <1>6
    <2> QED
      BY <2>1, <2>2, RecursionStays
  <1> QED
    BY <1>7 DEF f

(* How uneven a run of bands is, is a number. *)
LEMMA SpreadIsNumber ==
    ASSUME NEW lines, NEW run, Len(lines) \in Nat,
           \A i \in 1 .. Len(lines) : /\ Len(lines[i]) \in Nat \ {0}
                                      /\ run[i].left \in Int /\ run[i].right \in Int
    PROVE  Spread(run, lines) \in Nat
  <1> DEFINE n == Len(lines)
             scale[i \in 0 .. n] == IF i = 0 THEN 1 ELSE scale[i - 1] * Len(lines[i])
             width == [i \in 1 .. n |-> BandWidth(run[i]) * (scale[n] \div Len(lines[i]))]
             sum[i \in 0 .. n] == IF i = 0 THEN 0 ELSE sum[i - 1] + width[i]
             off == [i \in 1 .. n |-> IF n * width[i] >= sum[n] THEN n * width[i] - sum[n]
                                      ELSE sum[n] - n * width[i]]
             apart[i \in 0 .. n] == IF i = 0 THEN 0 ELSE apart[i - 1] + off[i]
  <1>1. Spread(run, lines) = apart[n]
    BY DEF Spread
  <1>2. scale[n] \in Nat
    <2> DEFINE w == [i \in 1 .. n |-> Len(lines[i])]
    <2>1. \A i \in 1 .. n : w[i] \in Nat
      OBVIOUS
    <2> DEFINE g == CHOOSE g : g = [i \in 0 .. n |-> IF i = 0 THEN 1 ELSE g[i - 1] * w[i]]
    <2>2. g[n] \in Nat
      <3> HIDE DEF w
      <3> QED
        BY <2>1, ProductIsNumber
    <2>3. \A h : [i \in 0 .. n |-> IF i = 0 THEN 1 ELSE h[i - 1] * w[i]]
                    = [i \in 0 .. n |-> IF i = 0 THEN 1 ELSE h[i - 1] * Len(lines[i])]
      OBVIOUS
    <2>4. scale = g
      BY <2>3
    <2> HIDE DEF scale, g
    <2> QED
      BY <2>2, <2>4
  <1>3. \A i \in 1 .. n : width[i] \in Int
    <2> HIDE DEF scale
    <2> TAKE i \in 1 .. n
    <2>1. BandWidth(run[i]) \in Int
      BY DEF BandWidth
    <2>2. scale[n] \div Len(lines[i]) \in Int
      BY <1>2
    <2> HIDE DEF n
    <2> QED
      BY <2>1, <2>2
  <1>4. sum[n] \in Int
    <2> HIDE DEF width, scale
    <2> QED
      BY <1>3, SumIsNumber
  <1>5. \A i \in 1 .. n : off[i] \in Nat
    <2> TAKE i \in 1 .. n
    <2> HIDE DEF width, sum, scale
    <2>1. n * width[i] \in Int
      BY <1>3
    <2> QED
      BY <1>4, <2>1
  <1>6. apart[n] \in Nat
    <2> HIDE DEF off, sum, width, scale
    <2> QED
      BY <1>5, SumIsNumber
  <1> QED
    BY <1>1, <1>6

(* A text, as the search uses it. *)
LEMMA TextIs ==
    ASSUME NEW t, IsText(t)
    PROVE  /\ Len(t) \in Nat \ {0} /\ DOMAIN t = 1 .. Len(t)
           /\ \A i \in 1 .. Len(t) :
                /\ Len(t[i]) \in Nat \ {0} /\ DOMAIN t[i] = 1 .. Len(t[i])
                /\ \A k \in 1 .. Len(t[i]) : t[i][k] \in DOMAIN Font
                /\ t[i][1] # Space /\ t[i][Len(t[i])] # Space
  <1>1. AreLines(t) /\ t # <<>> /\ \A i \in DOMAIN t : t[i] # <<>> /\ t[i][1] # Space /\ t[i][Len(t[i])] # Space
    BY DEF IsText
  <1>2. t \in Seq(Seq(DOMAIN Font)) /\ \A i \in DOMAIN t : t[i] \in Seq(DOMAIN Font)
    BY <1>1 DEF AreLines
  <1>3. Len(t) # 0
    BY <1>1, <1>2
  <1>4. \A i \in DOMAIN t : Len(t[i]) # 0
    BY <1>1, <1>2
  <1> QED
    BY <1>1, <1>3, <1>4, LinesAre

(* A hint is none, or two integers. *)
IsHint(hint) == hint = None \/ hint \in Int \X Int

(* A run of bands. *)
IsRun(mask, run, n) ==
    /\ DOMAIN run = 1 .. n
    /\ \A j \in 1 .. n : \E y, z \in Nat : IsBand(mask, run[j], y, z)

RunAt(bands, lines, i) == [j \in 1 .. Len(lines) |-> bands[i + j - 1]]

LEMMA RunsAre ==
    ASSUME NEW mask, IsBitmap(mask), NEW lines, IsText(lines),
           NEW i \in 1 .. Len(FindBands(mask)) - Len(lines) + 1
    PROVE  IsRun(mask, RunAt(FindBands(mask), lines, i), Len(lines)) /\ i \in Nat
  <1>1. PICK m \in Nat :
              /\ DOMAIN FindBands(mask) = 1 .. m /\ Len(FindBands(mask)) = m
              /\ \A k \in 1 .. m : \E y, z \in Nat : IsBand(mask, FindBands(mask)[k], y, z)
    BY BandsAre
  <1>2. Len(lines) \in Nat \ {0}
    BY TextIs
  <1>3. \A j \in 1 .. Len(lines) : i + j - 1 \in 1 .. m
    BY <1>1, <1>2
  <1> QED
    BY <1>1, <1>2, <1>3 DEF IsRun, RunAt

(* The first of the proposals. *)
LEMMA SoonestExists ==
    ASSUME NEW G, G # {}, \A p \in G : \A k \in 1 .. 5 : p.turn[k] \in Nat,
           \A p, q \in G : (\A k \in 1 .. 5 : p.turn[k] = q.turn[k]) => p = q
    PROVE  \E p \in G : \A q \in G \ {p} : Sooner(p, q)
  <1> DEFINE Best(S, k, p) == p \in S /\ \A q \in S : p.turn[k] <= q.turn[k]
  <1>1. ASSUME NEW S \in SUBSET G, S # {}, NEW k \in 1 .. 5
        PROVE  \E p : Best(S, k, p)
    <2> DEFINE T == {p.turn[k] : p \in S}
    <2>1. T \subseteq Nat /\ T # {}
      BY <1>1
    <2>2. PICK t \in T : \A u \in T : t <= u
      <3> HIDE DEF T
      <3> QED
        BY <2>1, LeastNatural
    <2> QED
      BY <2>2
  <1>2. PICK p1 : Best(G, 1, p1)
    <2>1. G \in SUBSET G /\ 1 \in 1 .. 5
      OBVIOUS
    <2> HIDE DEF Best
    <2> QED
      BY <1>1, <2>1
  <1> DEFINE G1 == {p \in G : p.turn[1] = p1.turn[1]}
  <1>3. PICK p2 : Best(G1, 2, p2)
    <2>1. G1 \in SUBSET G /\ G1 # {} /\ 2 \in 1 .. 5
      BY <1>2
    <2> HIDE DEF G1, Best
    <2> QED
      BY <1>1, <2>1
  <1> DEFINE G2 == {p \in G1 : p.turn[2] = p2.turn[2]}
  <1>4. PICK p3 : Best(G2, 3, p3)
    <2>1. G2 \in SUBSET G /\ G2 # {} /\ 3 \in 1 .. 5
      BY <1>3
    <2> HIDE DEF G2, Best
    <2> QED
      BY <1>1, <2>1
  <1> DEFINE G3 == {p \in G2 : p.turn[3] = p3.turn[3]}
  <1>5. PICK p4 : Best(G3, 4, p4)
    <2>1. G3 \in SUBSET G /\ G3 # {} /\ 4 \in 1 .. 5
      BY <1>4
    <2> HIDE DEF G3, Best
    <2> QED
      BY <1>1, <2>1
  <1> DEFINE G4 == {p \in G3 : p.turn[4] = p4.turn[4]}
  <1>6. PICK p5 : Best(G4, 5, p5)
    <2>1. G4 \in SUBSET G /\ G4 # {} /\ 5 \in 1 .. 5
      BY <1>5
    <2> HIDE DEF G4, Best
    <2> QED
      BY <1>1, <2>1
  <1>7. p5 \in G /\ p5.turn[1] = p1.turn[1] /\ p5.turn[2] = p2.turn[2]
        /\ p5.turn[3] = p3.turn[3] /\ p5.turn[4] = p4.turn[4]
    BY <1>6
  <1>8. ASSUME NEW q \in G, q # p5
        PROVE  \E i \in 1 .. 5 : /\ p5.turn[i] < q.turn[i]
                                 /\ \A j \in 1 .. i - 1 : p5.turn[j] = q.turn[j]
    <2>1. \A k \in 1 .. 5 : p5.turn[k] \in Nat /\ q.turn[k] \in Nat
      BY <1>7
    <2>2. CASE q \notin G1
      <3>1. p5.turn[1] < q.turn[1]
        BY <1>2, <1>7, <2>1, <2>2
      <3> QED
        BY <3>1
    <2>3. CASE q \in G1 /\ q \notin G2
      <3>1. p5.turn[2] < q.turn[2] /\ p5.turn[1] = q.turn[1]
        BY <1>3, <1>7, <2>1, <2>3
      <3> QED
        BY <3>1
    <2>4. CASE q \in G2 /\ q \notin G3
      <3>1. p5.turn[3] < q.turn[3] /\ p5.turn[1] = q.turn[1] /\ p5.turn[2] = q.turn[2]
        BY <1>4, <1>7, <2>1, <2>4
      <3> QED
        BY <3>1
    <2>5. CASE q \in G3 /\ q \notin G4
      <3>1. p5.turn[4] < q.turn[4] /\ p5.turn[1] = q.turn[1] /\ p5.turn[2] = q.turn[2]
            /\ p5.turn[3] = q.turn[3]
        BY <1>5, <1>7, <2>1, <2>5
      <3> QED
        BY <3>1
    <2>6. CASE q \in G4
      <3>1. p5.turn[4] = q.turn[4] /\ p5.turn[1] = q.turn[1] /\ p5.turn[2] = q.turn[2]
            /\ p5.turn[3] = q.turn[3] /\ p5.turn[5] <= q.turn[5]
        BY <1>6, <1>7, <2>6
      <3>2. p5.turn[5] # q.turn[5]
        BY <1>7, <1>8, <3>1
      <3>3. p5.turn[5] < q.turn[5]
        BY <2>1, <3>1, <3>2
      <3> QED
        BY <3>1, <3>3
    <2> QED
      BY <2>2, <2>3, <2>4, <2>5, <2>6
  <1> QED
    BY <1>7, <1>8 DEF Sooner

IsGrid(grid) ==
    /\ grid.cell_width \in MinCellWidth .. MaxCellWidth
    /\ grid.cell_height \in MinCellHeight .. MaxCellHeight
    /\ grid.origin_x \in Int /\ grid.origin_y \in Int

(* Whatever is proposed is a run of bands and a grid, and no two proposals *)
(* have one turn.                                                          *)
LEMMA ProposalsAre ==
    ASSUME NEW mask, IsBitmap(mask), NEW lines, IsText(lines),
           NEW cell, IsHint(cell), NEW origin, IsHint(origin)
    PROVE  LET P == Proposals(FindBands(mask), lines, cell, origin)
           IN  /\ \A p \in P : /\ IsRun(mask, p.run, Len(lines)) /\ IsGrid(p.grid)
                               /\ \A k \in 1 .. 5 : p.turn[k] \in Nat
               /\ \A p, q \in P : (\A k \in 1 .. 5 : p.turn[k] = q.turn[k]) => p = q
  <1> DEFINE bands == FindBands(mask)
             P == Proposals(bands, lines, cell, origin)
             n == Len(lines)
             I == 1 .. Len(bands) - n + 1
             Run(i) == RunAt(bands, lines, i)
             Heights(run) == IF cell = None THEN CellHeightCandidates(run) ELSE <<cell[2]>>
             Widths(run) == IF cell = None THEN CellWidthCandidates(run, lines) ELSE <<cell[1]>>
             Left(run) == Least({run[j].left : j \in DOMAIN run})
             side == OriginSearch + 1
             Origins(run) ==
                IF origin # None THEN <<origin>>
                ELSE [k \in 1 .. side * side |->
                        <<Left(run) - OriginSearch + ((k - 1) % side),
                          run[1].top - OriginSearch + ((k - 1) \div side)>>]
             Made(i, run, h, w, o) ==
                [turn |-> <<Spread(run, lines), i, h, w, o>>, run |-> run,
                 grid |-> [cell_width |-> Widths(run)[w], cell_height |-> Heights(run)[h],
                           origin_x |-> Origins(run)[o][1], origin_y |-> Origins(run)[o][2]]]
             Fits(run, h, w, o) ==
                /\ h \in DOMAIN Heights(run) /\ Heights(run)[h] \in MinCellHeight .. MaxCellHeight
                /\ w \in DOMAIN Widths(run) /\ Widths(run)[w] \in MinCellWidth .. MaxCellWidth
                /\ o \in DOMAIN Origins(run)
  <1>1. n \in Nat \ {0}
    BY TextIs
  <1>2. ASSUME NEW i \in I, NEW p
        PROVE  p \in Candidates(Run(i), i, lines, cell, origin) <=>
                 \E h, w, o : Fits(Run(i), h, w, o) /\ p = Made(i, Run(i), h, w, o)
    <2> DEFINE run == Run(i)
    <2>1. Candidates(run, i, lines, cell, origin)
            = {Made(i, run, h, w, o) :
                 h \in {h \in DOMAIN Heights(run) : Heights(run)[h] \in MinCellHeight .. MaxCellHeight},
                 w \in {w \in DOMAIN Widths(run) : Widths(run)[w] \in MinCellWidth .. MaxCellWidth},
                 o \in DOMAIN Origins(run)}
      BY DEF Candidates
    <2> HIDE DEF Made, Heights, Widths, Origins, run
    <2> QED
      BY <2>1 DEF run
  <1>3. ASSUME NEW p
        PROVE  p \in P <=> \E i \in I : \E h, w, o : Fits(Run(i), h, w, o) /\ p = Made(i, Run(i), h, w, o)
    <2>1. P = UNION {Candidates(Run(i), i, lines, cell, origin) : i \in I}
      BY DEF Proposals, RunAt
    <2> HIDE DEF P, I, Run, Made, Fits
    <2> QED
      BY <1>2, <2>1
  <1>4. ASSUME NEW i \in I, NEW h, NEW w, NEW o, Fits(Run(i), h, w, o)
        PROVE  /\ IsRun(mask, Run(i), n) /\ i \in Nat
               /\ Spread(Run(i), lines) \in Nat /\ h \in Nat /\ w \in Nat /\ o \in Nat
               /\ IsGrid(Made(i, Run(i), h, w, o).grid)
    <2> DEFINE run == Run(i)
    <2>1. IsRun(mask, run, n) /\ i \in Nat
      BY RunsAre
    <2> HIDE DEF run
    <2>2. \A j \in 1 .. n : run[j].left \in Nat /\ run[j].right \in Nat /\ run[j].top \in Nat
      BY <2>1 DEF IsRun, IsBand
    <2>3. Spread(run, lines) \in Nat
      BY <2>2, TextIs, SpreadIsNumber
    <2>4. DOMAIN Heights(run) \subseteq Nat /\ DOMAIN Widths(run) \subseteq Nat
          /\ DOMAIN Origins(run) \subseteq Nat
      <3>1. DOMAIN CellHeightCandidates(run) \subseteq Nat
        BY DEF CellHeightCandidates
      <3>2. DOMAIN CellWidthCandidates(run, lines) \subseteq Nat
        BY DEF CellWidthCandidates
      <3>3. DOMAIN Origins(run) \subseteq Nat
        OBVIOUS
      <3> QED
        BY <3>1, <3>2, <3>3
    <2>5. \A k \in DOMAIN Origins(run) : Origins(run)[k][1] \in Int /\ Origins(run)[k][2] \in Int
      <3>1. CASE origin # None
        BY <3>1 DEF IsHint
      <3>2. CASE origin = None
        <4>1. Left(run) \in Int
          <5> DEFINE f == [j \in 1 .. n |-> run[j].left]
          <5>1. f \in [1 .. n -> Int]
            BY <2>2
          <5>2. {run[j].left : j \in DOMAIN run} = {f[j] : j \in 1 .. n}
            BY <2>1 DEF IsRun
          <5>3. Least({f[j] : j \in 1 .. n}) \in {f[j] : j \in 1 .. n}
            <6> HIDE DEF f
            <6> QED
              BY <1>1, <5>1, LeastOfImage
          <5> QED
            BY <5>1, <5>2, <5>3
        <4>2. run[1].top \in Int
          BY <1>1, <2>2
        <4>3. side = 4 /\ OriginSearch = 3
          BY DEF OriginSearch
        <4> HIDE DEF Left, side
        <4>4. Origins(run) = [k \in 1 .. side * side |->
                        <<Left(run) - OriginSearch + ((k - 1) % side),
                          run[1].top - OriginSearch + ((k - 1) \div side)>>]
          BY <3>2
        <4>5. SUFFICES ASSUME NEW k \in DOMAIN Origins(run)
                       PROVE  Origins(run)[k][1] \in Int /\ Origins(run)[k][2] \in Int
          OBVIOUS
        <4>6. k \in Int /\ (k - 1) % side \in Int /\ (k - 1) \div side \in Int
          BY <4>3, <4>4
        <4>7. Origins(run)[k] = <<Left(run) - OriginSearch + ((k - 1) % side),
                                  run[1].top - OriginSearch + ((k - 1) \div side)>>
          BY <4>4
        <4>8. PICK u \in Int, v \in Int : u = (k - 1) % side /\ v = (k - 1) \div side
          BY <4>6
        <4>9. PICK l \in Int, t \in Int : l = Left(run) /\ t = run[1].top
          BY <4>1, <4>2
        <4>10. Origins(run)[k] = <<l - 3 + u, t - 3 + v>>
          BY ONLY <4>3, <4>7, <4>8, <4>9
        <4> HIDE DEF Origins
        <4> QED
          BY ONLY <4>8, <4>9, <4>10
      <3> QED
        BY <3>1, <3>2
    <2>6. IsGrid(Made(i, run, h, w, o).grid)
      <3> HIDE DEF Origins, Widths, Heights
      <3> QED
        BY <1>4, <2>5 DEF IsGrid, run
    <2> HIDE DEF Made, Origins, Widths, Heights
    <2> QED
      BY <1>4, <2>1, <2>3, <2>4, <2>6 DEF run
  <1>5. ASSUME NEW p \in P
        PROVE  /\ IsRun(mask, p.run, n) /\ IsGrid(p.grid)
               /\ \A k \in 1 .. 5 : p.turn[k] \in Nat
    <2>0. PICK i \in I : \E h, w, o : Fits(Run(i), h, w, o) /\ p = Made(i, Run(i), h, w, o)
      <3> HIDE DEF P, I, Run, Fits, Made
      <3> QED
        BY <1>3
    <2>1. PICK h, w, o : Fits(Run(i), h, w, o) /\ p = Made(i, Run(i), h, w, o)
      <3> HIDE DEF P, I, Run, Fits, Made
      <3> QED
        BY <2>0
    <2>2. /\ IsRun(mask, Run(i), n) /\ i \in Nat
          /\ Spread(Run(i), lines) \in Nat /\ h \in Nat /\ w \in Nat /\ o \in Nat
          /\ IsGrid(Made(i, Run(i), h, w, o).grid)
      <3> HIDE DEF Run, Fits, Made, I
      <3> QED
        BY <1>4, <2>1
    <2>3. p.run = Run(i) /\ p.turn = <<Spread(Run(i), lines), i, h, w, o>>
      <3> HIDE DEF Run, Origins, Widths, Heights
      <3> QED
        BY <2>1
    <2> HIDE DEF Made, Run, Fits
    <2> QED
      BY <2>1, <2>2, <2>3
  <1>6. ASSUME NEW p \in P, NEW q \in P, \A k \in 1 .. 5 : p.turn[k] = q.turn[k]
        PROVE  p = q
    <2>0. PICK i \in I : \E h, w, o : Fits(Run(i), h, w, o) /\ p = Made(i, Run(i), h, w, o)
      <3> HIDE DEF P, I, Run, Fits, Made
      <3> QED
        BY <1>3
    <2>1. PICK h, w, o : Fits(Run(i), h, w, o) /\ p = Made(i, Run(i), h, w, o)
      <3> HIDE DEF P, I, Run, Fits, Made
      <3> QED
        BY <2>0
    <2>7. PICK j \in I : \E g, v, u : Fits(Run(j), g, v, u) /\ q = Made(j, Run(j), g, v, u)
      <3> HIDE DEF P, I, Run, Fits, Made
      <3> QED
        BY <1>3
    <2>2. PICK g, v, u : Fits(Run(j), g, v, u) /\ q = Made(j, Run(j), g, v, u)
      <3> HIDE DEF P, I, Run, Fits, Made
      <3> QED
        BY <2>7
    <2>3. p.turn = <<Spread(Run(i), lines), i, h, w, o>> /\ q.turn = <<Spread(Run(j), lines), j, g, v, u>>
      <3> HIDE DEF Run, Origins, Widths, Heights
      <3> QED
        BY <2>1, <2>2
    <2>4. i = j /\ h = g /\ w = v /\ o = u
      <3> HIDE DEF Run, Made, Fits
      <3> QED
        BY <1>6, <2>3
    <2> HIDE DEF Run, Made, Fits
    <2> QED
      BY <2>1, <2>2, <2>4
  <1> HIDE DEF P, n
  <1> QED
    BY <1>5, <1>6 DEF P, n

(* A calibration is built from a run of bands and a grid that verifies. *)
MaskOf(frame) == Binarise(frame, Threshold(frame), Inverted(frame))

IsFrame(frame) ==
    /\ frame.width \in Nat /\ frame.height \in Nat
    /\ frame.ink \subseteq Area(frame.width, frame.height)

LEMMA AnalyseIs ==
    ASSUME NEW frame, IsFrame(frame), NEW lines, IsText(lines),
           NEW cell, IsHint(cell), NEW origin, IsHint(origin),
           Analyse(frame, lines, cell, origin) # NoCalibration
    PROVE  \E run, grid :
              /\ IsRun(MaskOf(frame), run, Len(lines)) /\ IsGrid(grid)
              /\ Verifies(MaskOf(frame), grid, run, lines)
              /\ Analyse(frame, lines, cell, origin) = Build(frame, MaskOf(frame), grid, run, lines)
  <1> DEFINE mask == MaskOf(frame)
             P == Proposals(FindBands(mask), lines, cell, origin)
             good == {p \in P : Verifies(mask, p.grid, p.run, lines)}
             first == CHOOSE p \in good : \A q \in good \ {p} : Sooner(p, q)
  <1>1. IsBitmap(mask)
    BY BinariseIsBitmap DEF IsFrame, MaskOf
  <1>2. Analyse(frame, lines, cell, origin)
          = IF good = {} THEN NoCalibration ELSE Build(frame, mask, first.grid, first.run, lines)
    BY DEF Analyse, MaskOf
  <1> HIDE DEF mask
  <1>3. /\ \A p \in P : /\ IsRun(mask, p.run, Len(lines)) /\ IsGrid(p.grid)
                        /\ \A k \in 1 .. 5 : p.turn[k] \in Nat
        /\ \A p, q \in P : (\A k \in 1 .. 5 : p.turn[k] = q.turn[k]) => p = q
    BY <1>1, ProposalsAre
  <1>4. good # {}
    BY <1>2
  <1>5. good \subseteq P /\ \A p \in good : Verifies(mask, p.grid, p.run, lines)
    OBVIOUS
  <1> HIDE DEF P, good
  <1>6. \E p \in good : \A q \in good \ {p} : Sooner(p, q)
    BY <1>3, <1>4, <1>5, SoonestExists
  <1>7. first \in good
    BY <1>6
  <1> HIDE DEF first
  <1> QED
    BY <1>2, <1>3, <1>4, <1>5, <1>7 DEF mask

LEMMA RoundedIs ==
    ASSUME NEW x \in Int, NEW y \in Nat \ {0}
    PROVE  Rounded(x, y) \in Int
  <1>1. x \div y \in Int
    BY Euclid
  <1> QED
    BY <1>1 DEF Rounded

LEMMA GridIs ==
    ASSUME NEW grid, IsGrid(grid)
    PROVE  /\ grid.cell_width \in Nat \ {0} /\ grid.cell_height \in Nat \ {0}
           /\ grid.origin_x \in Int /\ grid.origin_y \in Int
  BY DEF IsGrid, MinCellWidth, MaxCellWidth, MinCellHeight, MaxCellHeight

LEMMA ColumnsAre ==
    ASSUME NEW mask, NEW n, NEW run, IsRun(mask, run, n), NEW grid, IsGrid(grid)
    PROVE  /\ DOMAIN Columns(grid, run) = 1 .. n
           /\ \A i \in 1 .. n :
                /\ run[i].left \in Nat
                /\ Columns(grid, run)[i] \in Int
                /\ Columns(grid, run)[i] =
                     IF run[i].left - grid.origin_x < 0 THEN 0
                     ELSE Rounded(run[i].left - grid.origin_x, grid.cell_width)
  <1>1. DOMAIN run = 1 .. n /\ \A i \in 1 .. n : run[i].left \in Nat
    BY DEF IsRun, IsBand
  <1>2. grid.origin_x \in Int /\ grid.cell_width \in Nat \ {0}
    BY GridIs
  <1>3. Columns(grid, run) = [i \in 1 .. n |->
          IF run[i].left - grid.origin_x < 0 THEN 0
          ELSE Rounded(run[i].left - grid.origin_x, grid.cell_width)]
    BY <1>1 DEF Columns
  <1>4. ASSUME NEW i \in 1 .. n
        PROVE  Rounded(run[i].left - grid.origin_x, grid.cell_width) \in Int
    <2>1. run[i].left - grid.origin_x \in Int
      BY <1>1, <1>2
    <2> QED
      BY <1>2, <2>1, RoundedIs
  <1> QED
    BY <1>1, <1>3, <1>4

LEMMA RegionIs ==
    ASSUME NEW frame, IsFrame(frame), NEW lines, IsText(lines), NEW grid, IsGrid(grid),
           NEW columns, \A i \in 1 .. Len(lines) : columns[i] \in Int
    PROVE  LET b == Bounds(grid, columns, lines)
               r == Region(frame, grid, columns, lines)
           IN  /\ b[1] \in Int /\ b[2] \in Int /\ b[3] \in Int /\ b[4] \in Int
               /\ b[2] = grid.origin_y /\ b[4] = grid.origin_y + Len(lines) * grid.cell_height
               /\ \A i \in 1 .. Len(lines) :
                    /\ b[1] <= grid.origin_x + columns[i] * grid.cell_width
                    /\ grid.origin_x + (columns[i] + Len(lines[i])) * grid.cell_width <= b[3]
               /\ r[1] = (IF b[1] > 0 THEN b[1] ELSE 0)
               /\ r[2] = (IF b[2] > 0 THEN b[2] ELSE 0)
               /\ r[1] + r[3] = (IF b[3] < frame.width THEN b[3] ELSE frame.width)
               /\ r[2] + r[4] = (IF b[4] < frame.height THEN b[4] ELSE frame.height)
               /\ r[1] \in Nat /\ r[2] \in Nat /\ r[3] \in Int /\ r[4] \in Int
  <1> DEFINE n == Len(lines)
             L == [i \in 1 .. n |-> grid.origin_x + columns[i] * grid.cell_width]
             R == [i \in 1 .. n |-> L[i] + Len(lines[i]) * grid.cell_width]
             b == Bounds(grid, columns, lines)
             r == Region(frame, grid, columns, lines)
             H == grid.origin_y + n * grid.cell_height
  <1>1. n \in Nat \ {0} /\ \A i \in 1 .. n : Len(lines[i]) \in Nat
    BY TextIs
  <1>2. /\ grid.cell_width \in Nat \ {0} /\ grid.cell_height \in Nat \ {0}
        /\ grid.origin_x \in Int /\ grid.origin_y \in Int
    BY GridIs
  <1>3. L \in [1 .. n -> Int]
    <2>1. ASSUME NEW i \in 1 .. n PROVE grid.origin_x + columns[i] * grid.cell_width \in Int
      <3>1. columns[i] \in Int
        OBVIOUS
      <3> QED
        BY <1>2, <3>1
    <2> QED
      BY <2>1
  <1>4. R \in [1 .. n -> Int]
    <2>1. ASSUME NEW i \in 1 .. n PROVE L[i] + Len(lines[i]) * grid.cell_width \in Int
      <3>1. L[i] \in Int /\ Len(lines[i]) \in Nat
        BY <1>1, <1>3
      <3> HIDE DEF L
      <3> QED
        BY <1>2, <3>1
    <2> HIDE DEF L
    <2> QED
      BY <2>1
  <1>5. b = <<Least({L[i] : i \in 1 .. n}), grid.origin_y, Greatest({R[i] : i \in 1 .. n}), H>>
    <2>1. {L[i] : i \in 1 .. n} = {grid.origin_x + columns[i] * grid.cell_width : i \in 1 .. n}
      OBVIOUS
    <2>2. {R[i] : i \in 1 .. n} = {grid.origin_x + columns[i] * grid.cell_width
                                     + Len(lines[i]) * grid.cell_width : i \in 1 .. n}
      OBVIOUS
    <2> HIDE DEF L, R
    <2> QED
      BY <2>1, <2>2 DEF Bounds
  <1>6. Least({L[i] : i \in 1 .. n}) \in Int /\ \A j \in 1 .. n : Least({L[i] : i \in 1 .. n}) <= L[j]
    <2> HIDE DEF L
    <2> QED
      BY <1>1, <1>3, LeastOfImage
  <1>7. Greatest({R[i] : i \in 1 .. n}) \in Int /\ \A j \in 1 .. n : R[j] <= Greatest({R[i] : i \in 1 .. n})
    <2> HIDE DEF R
    <2> QED
      BY <1>1, <1>4, GreatestOfImage
  <1>8. H \in Int
    BY <1>1, <1>2
  <1>9. ASSUME NEW i \in 1 .. n
        PROVE  R[i] = grid.origin_x + (columns[i] + Len(lines[i])) * grid.cell_width
    <2>1. columns[i] \in Int /\ Len(lines[i]) \in Nat
      BY <1>1
    <2> QED
      BY <1>2, <2>1
  <1>10. b[1] \in Int /\ b[2] \in Int /\ b[3] \in Int /\ b[4] \in Int /\ b[2] = grid.origin_y /\ b[4] = H
    <2> HIDE DEF b, L, R, H
    <2> QED
      BY <1>2, <1>5, <1>6, <1>7, <1>8
  <1>11. \A i \in 1 .. n : /\ b[1] <= L[i] /\ R[i] <= b[3]
    <2> HIDE DEF b, L, R, H
    <2> QED
      BY <1>5, <1>6, <1>7
  <1>12. \A i \in 1 .. n : L[i] = grid.origin_x + columns[i] * grid.cell_width
    OBVIOUS
  <1> DEFINE left == Greatest({0, b[1]})
             top == Greatest({0, b[2]})
  <1>13. r = <<left, top, Least({b[3], frame.width}) - left, Least({b[4], frame.height}) - top>>
    BY DEF Region
  <1>14. frame.width \in Nat /\ frame.height \in Nat
    BY DEF IsFrame
  <1> HIDE DEF b, r, L, R, H, n
  <1>15. left = (IF b[1] > 0 THEN b[1] ELSE 0) /\ top = (IF b[2] > 0 THEN b[2] ELSE 0)
    BY <1>10, GreatestOfTwo
  <1>16. Least({b[3], frame.width}) = (IF b[3] < frame.width THEN b[3] ELSE frame.width)
         /\ Least({b[4], frame.height}) = (IF b[4] < frame.height THEN b[4] ELSE frame.height)
    BY <1>10, <1>14, LeastOfTwo
  <1> HIDE DEF left, top
  <1>17. /\ r[1] = (IF b[1] > 0 THEN b[1] ELSE 0)
         /\ r[2] = (IF b[2] > 0 THEN b[2] ELSE 0)
         /\ r[1] + r[3] = (IF b[3] < frame.width THEN b[3] ELSE frame.width)
         /\ r[2] + r[4] = (IF b[4] < frame.height THEN b[4] ELSE frame.height)
         /\ r[1] \in Nat /\ r[2] \in Nat /\ r[3] \in Int /\ r[4] \in Int
    <2>1. PICK right \in Int, bottom \in Int :
            /\ right = (IF b[3] < frame.width THEN b[3] ELSE frame.width)
            /\ bottom = (IF b[4] < frame.height THEN b[4] ELSE frame.height)
      BY <1>10, <1>14
    <2>2. left \in Nat /\ top \in Nat
      BY <1>10, <1>15
    <2>3. r = <<left, top, right - left, bottom - top>>
      BY ONLY <1>13, <1>16, <2>1
    <2>4. /\ r[1] = left /\ r[2] = top /\ r[1] + r[3] = right /\ r[2] + r[4] = bottom
          /\ r[3] \in Int /\ r[4] \in Int
      BY ONLY <2>2, <2>3, right \in Int, bottom \in Int
    <2> QED
      BY ONLY <1>15, <2>1, <2>2, <2>4
  <1> QED
    BY <1>9, <1>10, <1>11, <1>12, <1>17 DEF b, r, H, n

LEMMA BuildIsOK ==
    ASSUME NEW frame, IsFrame(frame), NEW lines, IsText(lines), NEW grid, IsGrid(grid),
           NEW run, IsRun(MaskOf(frame), run, Len(lines)),
           Build(frame, MaskOf(frame), grid, run, lines) # NoCalibration
    PROVE  CalibrationOK(Build(frame, MaskOf(frame), grid, run, lines))
  <1> DEFINE mask == MaskOf(frame)
             columns == Columns(grid, run)
             r == Region(frame, grid, columns, lines)
             c == Build(frame, mask, grid, run, lines)
             Char(p) == lines[p[1]][p[2]]
  <1>1. c = [width |-> frame.width, height |-> frame.height, grid |-> grid,
              threshold |-> Threshold(frame), inverted |-> Inverted(frame),
              text |-> NormaliseAll(lines),
              glyphs |-> [ch \in {Char(p) : p \in Places(lines)} |->
                             Picture(mask, grid, columns,
                                     CHOOSE p \in Places(lines) : Char(p) = ch)],
              region |-> r,
              region_mask |-> FromRows(Crop(mask, r[1], r[2], r[3], r[4]))]
    BY DEF Build
  <1> HIDE DEF c
  <1>2. /\ c.width = frame.width /\ c.height = frame.height /\ c.grid = grid
        /\ c.region = r /\ c.region_mask = FromRows(Crop(mask, r[1], r[2], r[3], r[4]))
    BY <1>1
  <1>3. \A g \in DOMAIN c.glyphs :
            c.glyphs[g].width = grid.cell_width /\ c.glyphs[g].height = grid.cell_height
    <2>1. \A p : /\ Picture(mask, grid, columns, p).width = grid.cell_width
                 /\ Picture(mask, grid, columns, p).height = grid.cell_height
      BY DEF Picture, CellAt, Crop
    <2>2. c.glyphs = [ch \in {Char(p) : p \in Places(lines)} |->
                             Picture(mask, grid, columns,
                                     CHOOSE p \in Places(lines) : Char(p) = ch)]
      BY <1>1
    <2> HIDE DEF columns, mask, Char
    <2> QED
      BY <2>1, <2>2
  <1>4. /\ r[1] \in Nat /\ r[2] \in Nat /\ r[3] \in Int /\ r[4] \in Int
        /\ r[1] + r[3] <= frame.width /\ r[2] + r[4] <= frame.height
    <2>1. \A i \in 1 .. Len(lines) : columns[i] \in Int
      BY ColumnsAre
    <2> HIDE DEF columns
    <2>2. /\ Bounds(grid, columns, lines)[3] \in Int /\ Bounds(grid, columns, lines)[4] \in Int
          /\ r[1] + r[3] = (IF Bounds(grid, columns, lines)[3] < frame.width
                            THEN Bounds(grid, columns, lines)[3] ELSE frame.width)
          /\ r[2] + r[4] = (IF Bounds(grid, columns, lines)[4] < frame.height
                            THEN Bounds(grid, columns, lines)[4] ELSE frame.height)
          /\ r[1] \in Nat /\ r[2] \in Nat /\ r[3] \in Int /\ r[4] \in Int
      BY <2>1, RegionIs
    <2>3. frame.width \in Nat /\ frame.height \in Nat
      BY DEF IsFrame
    <2> HIDE DEF r
    <2> QED
      BY <2>2, <2>3
  <1> HIDE DEF r, columns, mask
  <1>5. r[4] > 0 => c.region_mask.width = r[3] /\ c.region_mask.height = r[4]
    BY <1>2 DEF FromRows, Crop
  <1> QED
    BY <1>2, <1>3, <1>4, <1>5 DEF CalibrationOK, c, mask

(* What `configure` can find. *)
LEMMA LearnedIs ==
    ASSUME NEW found \in Learned, found.calibration # NoCalibration
    PROVE  LET s == found.screen
               t == found.lines
               frame == Render(s)
           IN  /\ s \in Lessons /\ t \in Texts
               /\ \E run, grid :
                    /\ IsRun(MaskOf(frame), run, Len(t)) /\ IsGrid(grid)
                    /\ Verifies(MaskOf(frame), grid, run, t)
                    /\ found.calibration = Build(frame, MaskOf(frame), grid, run, t)
  <1>1. PICK s \in Lessons, t \in Texts, hint \in Hints :
          found = [screen |-> s, lines |-> t,
                   calibration |-> Analyse(Render(s), t, hint.cell, hint.origin)]
    BY DEF Learned
  <1>2. IsText(t) /\ IsScreen(s) /\ IsHint(hint.cell) /\ IsHint(hint.origin)
    BY DetectAssumption DEF IsHint
  <1>3. IsFrame(Render(s))
    BY <1>2, RenderIsFrame DEF IsFrame
  <1>4. found.screen = s /\ found.lines = t
        /\ found.calibration = Analyse(Render(s), t, hint.cell, hint.origin)
    BY <1>1
  <1>5. \E run, grid :
              /\ IsRun(MaskOf(Render(s)), run, Len(t)) /\ IsGrid(grid)
              /\ Verifies(MaskOf(Render(s)), grid, run, t)
              /\ Analyse(Render(s), t, hint.cell, hint.origin)
                   = Build(Render(s), MaskOf(Render(s)), grid, run, t)
    BY <1>2, <1>3, <1>4, AnalyseIs
  <1> QED
    BY <1>4, <1>5

LEMMA LearnedIsOK ==
    ASSUME NEW found \in Learned, found.calibration # NoCalibration
    PROVE  CalibrationOK(found.calibration)
  <1> DEFINE s == found.screen
             t == found.lines
  <1>1. s \in Lessons /\ t \in Texts
    BY LearnedIs
  <1>2. PICK run, grid :
                    /\ IsRun(MaskOf(Render(s)), run, Len(t)) /\ IsGrid(grid)
                    /\ found.calibration = Build(Render(s), MaskOf(Render(s)), grid, run, t)
    BY LearnedIs
  <1>3. IsText(t) /\ IsScreen(s)
    BY <1>1, DetectAssumption
  <1> HIDE DEF s, t
  <1>4. IsFrame(Render(s))
    BY <1>3, RenderIsFrame DEF IsFrame
  <1> QED
    BY <1>2, <1>3, <1>4, BuildIsOK

(* The calibrations in the file and in the daemon are what `configure`     *)
(* finds for their lessons.                                                *)
FromLesson(l, calibration) ==
    \E found \in Learned :
        /\ found.screen = l.screen /\ found.lines = l.lines
        /\ found.calibration = calibration

LearnInv ==
    /\ screen \in Screens
    /\ text \in Texts /\ daemon.lines \in Texts
    /\ file # NoCalibration => FromLesson(lesson, file)
    /\ daemon.calibration # NoCalibration => FromLesson(daemon.lesson, daemon.calibration)
    /\ answer = NoAnswer \/ Matched \/ answer \in {"no match", "uncalibrated"}

LEMMA LearnInit == Init => LearnInv
BY DEF Init, LearnInv

LEMMA LearnNext == LearnInv /\ [Next]_vars => LearnInv'
<1> SUFFICES ASSUME LearnInv, [Next]_vars
             PROVE  LearnInv'
  OBVIOUS
<1>1. CASE Show
  BY <1>1 DEF Show, LearnInv
<1>2. CASE Reword
  BY <1>2 DEF Reword, LearnInv, Matched
<1>3. CASE Configure
  <2>1. PICK found \in Learned :
          /\ found.screen = screen /\ found.lines = text
          /\ file' = found.calibration
          /\ lesson' = [screen |-> screen, lines |-> text]
    BY <1>3 DEF Configure
  <2>2. FromLesson(lesson', file')
    BY <2>1 DEF FromLesson
  <2>3. UNCHANGED <<screen, text, daemon, answer>>
    BY <1>3 DEF Configure
  <2> QED
    BY <2>2, <2>3 DEF LearnInv, Matched
<1>4. CASE Start
  <2>1. daemon'.calibration # NoCalibration =>
            file # NoCalibration /\ daemon'.calibration = file
    BY <1>4 DEF Start
  <2>2. daemon'.lesson = lesson /\ daemon'.lines = text /\ answer' = NoAnswer
        /\ UNCHANGED <<screen, text, file, lesson>>
    BY <1>4 DEF Start
  <2> QED
    BY <2>1, <2>2 DEF LearnInv
<1>5. CASE Look
  <2>1. \A c, f : Detected(c, f) \in {"region", "region+glyph", "glyph", "no match"}
    BY DEF Detected
  <2>2. UNCHANGED <<screen, text, file, lesson, daemon>>
    BY <1>5 DEF Look
  <2>3. answer' \in {"region", "region+glyph", "glyph", "no match", "uncalibrated"}
    BY <1>5, <2>1 DEF Look
  <2> QED
    BY <2>2, <2>3 DEF LearnInv, Matched
<1>6. CASE UNCHANGED vars
  BY <1>6 DEF vars, LearnInv, Matched
<1> QED
  BY <1>1, <1>2, <1>3, <1>4, <1>5, <1>6 DEF Next

LEMMA LearnInvImplies == LearnInv => TypeOK
<1>1. ASSUME NEW l, NEW c, c # NoCalibration, FromLesson(l, c)
      PROVE  CalibrationOK(c)
  BY <1>1, LearnedIsOK DEF FromLesson
<1> QED
  BY <1>1 DEF LearnInv, TypeOK

(* For any font, screens, texts and hints: whatever the search of `configure` *)
(* takes, the region lies within the frame, its mask has its size, and     *)
(* every picture has the size of a cell, in the file and in the daemon.    *)
THEOREM DetectTypeCorrect == Spec => []TypeOK
<1>1. Init => LearnInv
  BY LearnInit
<1>2. LearnInv /\ [Next]_vars => LearnInv'
  BY LearnNext
<1>3. LearnInv => TypeOK
  BY LearnInvImplies
<1> QED
  BY <1>1, <1>2, <1>3, PTL DEF Spec

-----------------------------------------------------------------------------
(* What a cell shows *)

(* The character that a screen has in a cell of the console. *)
CharAt(s, x, y) ==
    LET i == y - s.at[2] + 1
        k == x - s.at[1] + 1
    IN  IF i \in DOMAIN s.lines /\ k \in DOMAIN s.lines[i] THEN s.lines[i][k] ELSE Space

(* The picture of a character in a grid that lies up and left of the       *)
(* console's, without cutting through a character.                         *)
PictureOf(c, shift) ==
    [width |-> FontCell[1], height |-> FontCell[2],
     ink |-> {<<p[1] + shift[1], p[2] + shift[2]>> : p \in Font[c]}]

IsShift(shift) ==
    /\ shift[1] \in 0 .. FontCell[1] - 1 /\ shift[2] \in 0 .. FontCell[2] - 1
    /\ \A c \in DOMAIN Font : \A p \in Font[c] :
            p[1] + shift[1] < FontCell[1] /\ p[2] + shift[2] < FontCell[2]

LEMMA CharAtIs ==
    ASSUME NEW s, IsScreen(s), NEW x, NEW y
    PROVE  CharAt(s, x, y) \in DOMAIN Font
  <1>1. AreLines(s.lines)
    BY DEF IsScreen
  <1>2. \A i \in DOMAIN s.lines : \A k \in DOMAIN s.lines[i] : s.lines[i][k] \in DOMAIN Font
    <2>1. DOMAIN s.lines = 1 .. Len(s.lines)
      BY <1>1, LinesAre
    <2>2. \A i \in 1 .. Len(s.lines) : /\ DOMAIN s.lines[i] = 1 .. Len(s.lines[i])
              /\ \A k \in 1 .. Len(s.lines[i]) : s.lines[i][k] \in DOMAIN Font
      BY <1>1, LinesAre
    <2> QED
      BY <2>1, <2>2
  <1>3. Space \in DOMAIN Font
    BY FontCells
  <1> QED
    BY <1>2, <1>3 DEF CharAt

(* No stray pixel in the cell. *)
NoSpeckIn(s, shift, x, y) ==
    \A q \in s.specks :
        <<(q[1] + shift[1]) \div FontCell[1], (q[2] + shift[2]) \div FontCell[2]>> # <<x, y>>

(* A pixel of two shifted cells is at the same place in one cell. *)
AreInOneCell(b, a, d, t, r, g) ==
    a * b - t + r = d * b + g <=> a = d /\ r = g + t

LEMMA SameCell ==
    ASSUME NEW b \in Nat \ {0}, NEW a \in Int, NEW d \in Int,
           NEW t \in 0 .. b - 1, NEW r \in 0 .. b - 1,
           NEW g \in 0 .. b - 1, g + t \in 0 .. b - 1
    PROVE  AreInOneCell(b, a, d, t, r, g)
  <1>1. a * b \in Int /\ d * b \in Int
    OBVIOUS
  <1>2. ASSUME a * b - t + r = d * b + g
        PROVE  a = d /\ r = g + t
    <2>1. a * b + r = d * b + (g + t)
      BY <1>1, <1>2
    <2> QED
      BY <2>1, OneQuotient
  <1>3. ASSUME a = d, r = g + t
        PROVE  a * b - t + r = d * b + g
    BY <1>1, <1>3
  <1> QED
    BY <1>2, <1>3 DEF AreInOneCell

(* An offset is a number of cells less a shift. *)
LEMMA OffsetIs ==
    ASSUME NEW o \in Int, NEW m \in Nat \ {0}
    PROVE  /\ (-o) % m \in 0 .. m - 1 /\ (o + ((-o) % m)) \div m \in Int
           /\ o = ((o + ((-o) % m)) \div m) * m - ((-o) % m)
  <1> DEFINE q == (-o) \div m
             r == (-o) % m
  <1>1. -o \in Int /\ \A n \in Int : n = (n \div m) * m + (n % m) /\ n \div m \in Int /\ n % m \in 0 .. m - 1
    BY Euclid
  <1>2. -o = q * m + r /\ q \in Int /\ r \in 0 .. m - 1
    BY <1>1
  <1> HIDE DEF q, r
  <1>3. (-q) * m = -(q * m) /\ q * m \in Int /\ -q \in Int /\ 0 \in 0 .. m - 1
    BY <1>2
  <1>4. o + r = (-q) * m + 0
    BY <1>2, <1>3
  <1>5. (o + r) \div m = -q
    BY <1>3, <1>4, DivMod
  <1>6. o = (-q) * m - r
    BY <1>2, <1>3, <1>4
  <1> QED
    BY <1>2, <1>3, <1>5, <1>6 DEF r

(* A pixel of a cell is drawn when it is one of the character there. *)
LEMMA DrawnInCell ==
    ASSUME NEW s, IsScreen(s), NEW shift, IsShift(shift), NEW x \in Int, NEW y \in Int,
           NEW u \in 0 .. FontCell[1] - 1, NEW v \in 0 .. FontCell[2] - 1
    PROVE  IsDrawn(s, <<x * FontCell[1] - shift[1] + u, y * FontCell[2] - shift[2] + v>>)
             <=> \E f \in Font[CharAt(s, x, y)] : u = f[1] + shift[1] /\ v = f[2] + shift[2]
  <1> DEFINE W == FontCell[1]
             H == FontCell[2]
             qx == x * FontCell[1] - shift[1] + u
             qy == y * FontCell[2] - shift[2] + v
             c == CharAt(s, x, y)
  <1>1. W \in Nat \ {0} /\ H \in Nat \ {0}
    BY FontCells
  <1>2. s.at[1] \in Nat /\ s.at[2] \in Nat /\ AreLines(s.lines)
    BY DEF IsScreen
  <1>3. DOMAIN s.lines = 1 .. Len(s.lines) /\ Len(s.lines) \in Nat
    BY <1>2, LinesAre
  <1>4. \A i \in DOMAIN s.lines : /\ DOMAIN s.lines[i] = 1 .. Len(s.lines[i]) /\ Len(s.lines[i]) \in Nat
                                  /\ \A k \in DOMAIN s.lines[i] : s.lines[i][k] \in DOMAIN Font
    BY <1>2, <1>3, LinesAre
  <1>5. shift[1] \in 0 .. W - 1 /\ shift[2] \in 0 .. H - 1
    BY DEF IsShift
  <1>6. \A d \in DOMAIN Font : \A f \in Font[d] :
            f[1] \in 0 .. W - 1 /\ f[2] \in 0 .. H - 1
            /\ f[1] + shift[1] \in 0 .. W - 1 /\ f[2] + shift[2] \in 0 .. H - 1
    <2> TAKE d \in DOMAIN Font
    <2> TAKE f \in Font[d]
    <2>1. f[1] \in 0 .. W - 1 /\ f[2] \in 0 .. H - 1
      BY FontCells
    <2>2. f[1] + shift[1] < W /\ f[2] + shift[2] < H
      BY DEF IsShift
    <2> HIDE DEF W, H
    <2> QED
      BY <1>1, <1>5, <2>1, <2>2
  <1>8. ASSUME NEW i \in DOMAIN s.lines, NEW k \in DOMAIN s.lines[i], NEW f \in Font[s.lines[i][k]]
        PROVE  <<qx, qy>> = <<(s.at[1] + k - 1) * W + f[1], (s.at[2] + i - 1) * H + f[2]>>
                 <=> /\ x = s.at[1] + k - 1 /\ y = s.at[2] + i - 1
                     /\ u = f[1] + shift[1] /\ v = f[2] + shift[2]
    <2>1. i \in Nat /\ k \in Nat /\ s.lines[i][k] \in DOMAIN Font
      BY <1>3, <1>4
    <2>2. /\ f[1] \in 0 .. W - 1 /\ f[2] \in 0 .. H - 1
          /\ f[1] + shift[1] \in 0 .. W - 1 /\ f[2] + shift[2] \in 0 .. H - 1
      BY <1>6, <2>1
    <2>3. s.at[1] + k - 1 \in Int /\ s.at[2] + i - 1 \in Int
      BY <1>2, <2>1
    <2>4. x * W - shift[1] + u = (s.at[1] + k - 1) * W + f[1] <=> x = s.at[1] + k - 1 /\ u = f[1] + shift[1]
      <3>1. PICK d \in Int : d = s.at[1] + k - 1
        BY <2>3
      <3>2. PICK t \in 0 .. W - 1 : t = shift[1]
        BY <1>5
      <3>3. PICK g \in 0 .. W - 1 : g = f[1] /\ g + t \in 0 .. W - 1
        BY <2>2, <3>2
      <3>4. u \in 0 .. W - 1 /\ x \in Int
        OBVIOUS
      <3> HIDE DEF W
      <3>5. AreInOneCell(W, x, d, t, u, g)
        BY <1>1, <3>3, <3>4, SameCell
      <3>6. x * W - t + u = d * W + g <=> x = d /\ u = g + t
        BY <3>5 DEF AreInOneCell
      <3> QED
        BY <3>1, <3>2, <3>3, <3>6
    <2>5. y * H - shift[2] + v = (s.at[2] + i - 1) * H + f[2] <=> y = s.at[2] + i - 1 /\ v = f[2] + shift[2]
      <3>1. PICK d \in Int : d = s.at[2] + i - 1
        BY <2>3
      <3>2. PICK t \in 0 .. H - 1 : t = shift[2]
        BY <1>5
      <3>3. PICK g \in 0 .. H - 1 : g = f[2] /\ g + t \in 0 .. H - 1
        BY <2>2, <3>2
      <3>4. v \in 0 .. H - 1 /\ y \in Int
        OBVIOUS
      <3> HIDE DEF H
      <3>5. AreInOneCell(H, y, d, t, v, g)
        BY <1>1, <3>3, <3>4, SameCell
      <3>6. y * H - t + v = d * H + g <=> y = d /\ v = g + t
        BY <3>5 DEF AreInOneCell
      <3> QED
        BY <3>1, <3>2, <3>3, <3>6
    <2> QED
      BY <2>4, <2>5
  <1>9. ASSUME IsDrawn(s, <<qx, qy>>)
        PROVE  \E f \in Font[c] : u = f[1] + shift[1] /\ v = f[2] + shift[2]
    <2>6. PICK i \in DOMAIN s.lines : \E k \in DOMAIN s.lines[i] : \E f \in Font[s.lines[i][k]] :
            <<qx, qy>> = <<(s.at[1] + k - 1) * W + f[1], (s.at[2] + i - 1) * H + f[2]>>
      BY <1>9 DEF IsDrawn
    <2>7. PICK k \in DOMAIN s.lines[i] : \E f \in Font[s.lines[i][k]] :
            <<qx, qy>> = <<(s.at[1] + k - 1) * W + f[1], (s.at[2] + i - 1) * H + f[2]>>
      BY <2>6
    <2>1. PICK f \in Font[s.lines[i][k]] :
            <<qx, qy>> = <<(s.at[1] + k - 1) * W + f[1], (s.at[2] + i - 1) * H + f[2]>>
      BY <2>7
    <2>2. /\ x = s.at[1] + k - 1 /\ y = s.at[2] + i - 1
          /\ u = f[1] + shift[1] /\ v = f[2] + shift[2]
      BY <1>8, <2>1
    <2>3. i \in Nat /\ k \in Nat
      BY <1>3, <1>4
    <2>4. y - s.at[2] + 1 = i /\ x - s.at[1] + 1 = k
      BY <1>2, <2>2, <2>3
    <2>5. c = s.lines[i][k]
      BY <2>4 DEF CharAt
    <2> QED
      BY <2>2, <2>5
  <1>10. ASSUME NEW f \in Font[c], u = f[1] + shift[1], v = f[2] + shift[2]
         PROVE  IsDrawn(s, <<qx, qy>>)
    <2> DEFINE i == y - s.at[2] + 1
               k == x - s.at[1] + 1
    <2>1. i \in DOMAIN s.lines /\ k \in DOMAIN s.lines[i] /\ c = s.lines[i][k]
      <3>1. Font[Space] = {}
        BY FontCells
      <3> QED
        BY <3>1 DEF CharAt
    <2>2. x = s.at[1] + k - 1 /\ y = s.at[2] + i - 1
      BY <1>2
    <2> HIDE DEF i, k, c
    <2>3. f \in Font[s.lines[i][k]]
      BY <2>1
    <2>4. <<qx, qy>> = <<(s.at[1] + k - 1) * W + f[1], (s.at[2] + i - 1) * H + f[2]>>
      BY <1>8, <1>10, <2>1, <2>2, <2>3
    <2> QED
      BY <2>1, <2>3, <2>4 DEF IsDrawn
  <1> QED
    BY <1>9, <1>10

LEMMA CellShows ==
    ASSUME NEW s, IsScreen(s), NEW shift, IsShift(shift), NEW x \in Int, NEW y \in Int,
           NoSpeckIn(s, shift, x, y),
           NEW mask, mask.ink = Render(s).ink
    PROVE  Crop(mask, x * FontCell[1] - shift[1], y * FontCell[2] - shift[2], FontCell[1], FontCell[2])
             = PictureOf(CharAt(s, x, y), shift)
  <1> DEFINE W == FontCell[1]
             H == FontCell[2]
             X == x * FontCell[1] - shift[1]
             Y == y * FontCell[2] - shift[2]
             c == CharAt(s, x, y)
             drawn == {<<f[1] + shift[1], f[2] + shift[2]>> : f \in Font[c]}
             cropped == {p \in Area(W, H) : <<p[1] + X, p[2] + Y>> \in mask.ink}
  <1>1. W \in Nat \ {0} /\ H \in Nat \ {0} /\ c \in DOMAIN Font
    BY FontCells, CharAtIs
  <1>2. shift[1] \in 0 .. W - 1 /\ shift[2] \in 0 .. H - 1
    BY DEF IsShift
  <1>3. X \in Int /\ Y \in Int
    <2> HIDE DEF W, H
    <2> QED
      BY <1>1, <1>2 DEF W, H
  <1>4. ASSUME NEW u \in 0 .. W - 1, NEW v \in 0 .. H - 1
        PROVE  <<u + X, v + Y>> \in mask.ink <=> <<u, v>> \in drawn
    <2>1. u + X = X + u /\ v + Y = Y + v
      <3> HIDE DEF X, Y
      <3> QED
        BY <1>1, <1>3
    <2>2. <<X + u, Y + v>> \notin s.specks
      <3> SUFFICES ASSUME <<X + u, Y + v>> \in s.specks PROVE FALSE
        OBVIOUS
      <3>1. <<(X + u + shift[1]) \div W, (Y + v + shift[2]) \div H>> # <<x, y>>
        BY DEF NoSpeckIn
      <3>2. X + u + shift[1] = x * W + u /\ Y + v + shift[2] = y * H + v
        <4> HIDE DEF W, H
        <4>1. x * W \in Int /\ y * H \in Int /\ X = x * W - shift[1] /\ Y = y * H - shift[2]
          BY <1>1 DEF W, H
        <4> HIDE DEF X, Y
        <4> QED
          BY <1>1, <1>2, <4>1
      <3>3. (x * W + u) \div W = x /\ (y * H + v) \div H = y
        <4> HIDE DEF W, H
        <4> QED
          BY <1>1, DivMod
      <3> HIDE DEF W, H, X, Y
      <3> QED
        BY <3>1, <3>2, <3>3
    <2>3. <<X + u, Y + v>> \in mask.ink <=> IsDrawn(s, <<X + u, Y + v>>)
      BY <2>2, RenderIsFrame
    <2>4. IsDrawn(s, <<X + u, Y + v>>) <=> \E f \in Font[c] : u = f[1] + shift[1] /\ v = f[2] + shift[2]
      BY DrawnInCell
    <2> HIDE DEF X, Y, c
    <2> QED
      BY <2>1, <2>3, <2>4
  <1>5. \A p \in drawn : p \in Area(W, H)
    <2> SUFFICES ASSUME NEW f \in Font[c]
                 PROVE  f[1] + shift[1] \in 0 .. W - 1 /\ f[2] + shift[2] \in 0 .. H - 1
      BY DEF Area
    <2>1. f[1] \in 0 .. W - 1 /\ f[2] \in 0 .. H - 1
      BY <1>1, FontCells
    <2>2. f[1] + shift[1] < W /\ f[2] + shift[2] < H
      BY <1>1 DEF IsShift
    <2> HIDE DEF W, H, c
    <2> QED
      BY <1>1, <1>2, <2>1, <2>2
  <1>6. cropped = drawn
    <2>1. ASSUME NEW p \in Area(W, H)
          PROVE  p \in cropped <=> p \in drawn
      <3>1. p = <<p[1], p[2]>> /\ p[1] \in 0 .. W - 1 /\ p[2] \in 0 .. H - 1
        BY DEF Area
      <3>2. <<p[1] + X, p[2] + Y>> \in mask.ink <=> <<p[1], p[2]>> \in drawn
        BY <1>4, <3>1
      <3> HIDE DEF drawn, X, Y
      <3> QED
        BY <3>1, <3>2
    <2> HIDE DEF drawn
    <2> QED
      BY <1>5, <2>1
  <1> HIDE DEF cropped, drawn
  <1> QED
    BY <1>6 DEF Crop, PictureOf, cropped, drawn

(* A character shows in its picture, as far as the font tells it apart.    *)
LEMMA PictureTells ==
    ASSUME NEW shift, IsShift(shift), NEW c \in DOMAIN Font, NEW d \in DOMAIN Font,
           PictureOf(c, shift) = PictureOf(d, shift)
    PROVE  Font[c] = Font[d]
  <1> DEFINE Moved(e) == {<<p[1] + shift[1], p[2] + shift[2]>> : p \in Font[e]}
  <1>1. Moved(c) = Moved(d)
    BY DEF PictureOf
  <1>2. shift[1] \in Int /\ shift[2] \in Int
    BY FontCells DEF IsShift
  <1>3. ASSUME NEW e \in DOMAIN Font, NEW g \in DOMAIN Font, Moved(e) = Moved(g),
               NEW p \in Font[e]
        PROVE  p \in Font[g]
    <2>1. PICK q \in Font[g] : <<p[1] + shift[1], p[2] + shift[2]>> = <<q[1] + shift[1], q[2] + shift[2]>>
      <3>1. <<p[1] + shift[1], p[2] + shift[2]>> \in Moved(e)
        OBVIOUS
      <3>2. <<p[1] + shift[1], p[2] + shift[2]>> \in Moved(g)
        BY <1>3, <3>1
      <3> QED
        BY <3>2
    <2>2. p = <<p[1], p[2]>> /\ q = <<q[1], q[2]>> /\ p[1] \in Int /\ p[2] \in Int /\ q[1] \in Int /\ q[2] \in Int
      BY FontCells
    <2>3. p[1] = q[1] /\ p[2] = q[2]
      <3>1. p[1] + shift[1] = q[1] + shift[1] /\ p[2] + shift[2] = q[2] + shift[2]
        BY <2>1
      <3>2. \A a, b, t \in Int : a + t = b + t => a = b
        OBVIOUS
      <3>3. PICK t1 \in Int, t2 \in Int : t1 = shift[1] /\ t2 = shift[2]
        BY <1>2
      <3> QED
        BY <2>2, <3>1, <3>2, <3>3
    <2> QED
      BY <2>2, <2>3
  <1> QED
    BY <1>1, <1>3

(* Where a learned grid lies on the console's. *)
LEMMA CornerIs ==
    ASSUME NEW grid, IsGrid(grid), CutsBetweenCharacters(grid)
    PROVE  /\ grid.cell_width = FontCell[1] /\ grid.cell_height = FontCell[2]
           /\ IsShift(Shift(grid))
           /\ Corner(grid)[1] \in Int /\ Corner(grid)[2] \in Int
           /\ grid.origin_x = Corner(grid)[1] * FontCell[1] - Shift(grid)[1]
           /\ grid.origin_y = Corner(grid)[2] * FontCell[2] - Shift(grid)[2]
  <1> DEFINE shift == Shift(grid)
             W == FontCell[1]
             H == FontCell[2]
  <1>1. W \in Nat \ {0} /\ H \in Nat \ {0}
    BY FontCells
  <1>2. grid.cell_width = W /\ grid.cell_height = H
    <2>1. <<grid.cell_width, grid.cell_height>> = FontCell
      BY DEF CutsBetweenCharacters
    <2> QED
      BY <2>1
  <1>3. grid.origin_x \in Int /\ grid.origin_y \in Int
    BY GridIs
  <1>5. shift = <<(-grid.origin_x) % W, (-grid.origin_y) % H>>
        /\ Corner(grid) = <<(grid.origin_x + shift[1]) \div W, (grid.origin_y + shift[2]) \div H>>
    BY DEF Shift, Corner
  <1>6. /\ shift[1] \in 0 .. W - 1 /\ shift[2] \in 0 .. H - 1
        /\ Corner(grid)[1] \in Int /\ Corner(grid)[2] \in Int
        /\ grid.origin_x = Corner(grid)[1] * W - shift[1]
        /\ grid.origin_y = Corner(grid)[2] * H - shift[2]
    <2>1. PICK ox \in Int, oy \in Int : ox = grid.origin_x /\ oy = grid.origin_y
      BY <1>3
    <2> HIDE DEF shift, W, H
    <2>2. /\ (-ox) % W \in 0 .. W - 1 /\ (ox + ((-ox) % W)) \div W \in Int
          /\ ox = ((ox + ((-ox) % W)) \div W) * W - ((-ox) % W)
      BY <1>1, OffsetIs
    <2>3. /\ (-oy) % H \in 0 .. H - 1 /\ (oy + ((-oy) % H)) \div H \in Int
          /\ oy = ((oy + ((-oy) % H)) \div H) * H - ((-oy) % H)
      BY <1>1, OffsetIs
    <2>4. /\ shift[1] = (-ox) % W /\ shift[2] = (-oy) % H
          /\ Corner(grid)[1] = (ox + shift[1]) \div W /\ Corner(grid)[2] = (oy + shift[2]) \div H
      BY <1>5, <2>1
    <2> QED
      BY <2>1, <2>2, <2>3, <2>4
  <1>7. IsShift(shift)
    <2>1. \A c \in DOMAIN Font : \A p \in Font[c] : p \in Area(W, H)
      BY FontAssumption
    <2>2. \A c \in DOMAIN Font : \A p \in Area(W, H) :
             p \in Font[c] => p[1] + shift[1] < W /\ p[2] + shift[2] < H
      BY DEF CutsBetweenCharacters
    <2> HIDE DEF shift
    <2> QED
      BY <1>6, <2>1, <2>2 DEF IsShift
  <1> QED
    BY <1>2, <1>6, <1>7

LEMMA GridCellShows ==
    ASSUME NEW s, IsScreen(s), s.specks = {}, NEW mask, mask.ink = Render(s).ink,
           NEW grid, IsGrid(grid), CutsBetweenCharacters(grid), NEW column \in Int, NEW row \in Int
    PROVE  CellAt(mask, grid, column, row)
             = PictureOf(CharAt(s, Corner(grid)[1] + column, Corner(grid)[2] + row), Shift(grid))
  <1> DEFINE W == FontCell[1]
             H == FontCell[2]
             C == Corner(grid)
             S == Shift(grid)
  <1>1. W \in Nat \ {0} /\ H \in Nat \ {0}
    BY FontCells
  <1>2. /\ grid.cell_width = W /\ grid.cell_height = H /\ IsShift(S)
        /\ C[1] \in Int /\ C[2] \in Int
        /\ grid.origin_x = C[1] * W - S[1] /\ grid.origin_y = C[2] * H - S[2]
    BY CornerIs
  <1>3. S[1] \in Int /\ S[2] \in Int
    BY <1>1, <1>2 DEF IsShift
  <1>4. CellAt(mask, grid, column, row) = Crop(mask, grid.origin_x + column * W, grid.origin_y + row * H, W, H)
    BY <1>2 DEF CellAt
  <1> HIDE DEF C, S, W, H
  <1>5. grid.origin_x + column * W = (C[1] + column) * W - S[1]
        /\ grid.origin_y + row * H = (C[2] + row) * H - S[2]
        /\ C[1] + column \in Int /\ C[2] + row \in Int
    BY <1>1, <1>2, <1>3
  <1>6. NoSpeckIn(s, S, C[1] + column, C[2] + row)
    BY DEF NoSpeckIn
  <1>7. Crop(mask, (C[1] + column) * W - S[1], (C[2] + row) * H - S[2], W, H)
          = PictureOf(CharAt(s, C[1] + column, C[2] + row), S)
    BY <1>2, <1>5, <1>6, CellShows DEF W, H
  <1> QED
    BY <1>4, <1>5, <1>7 DEF C, S

-----------------------------------------------------------------------------
(* What is learned from an ordinary screen *)

LEMMA AreaSize ==
    ASSUME NEW w \in Nat, NEW h \in Nat
    PROVE  IsFiniteSet(Area(w, h)) /\ Cardinality(Area(w, h)) = w * h
  <1>1. \A n \in Nat : IsFiniteSet(0 .. n - 1) /\ Cardinality(0 .. n - 1) = n
    <2> TAKE n \in Nat
    <2>1. n - 1 \in Int
      OBVIOUS
    <2>2. IsFiniteSet(0 .. n - 1)
          /\ Cardinality(0 .. n - 1) = IF 0 > n - 1 THEN 0 ELSE (n - 1) - 0 + 1
      BY <2>1, FS_Interval
    <2> QED
      BY <2>2
  <1> DEFINE A == 0 .. w - 1
             B == 0 .. h - 1
  <1>2. IsFiniteSet(A) /\ Cardinality(A) = w /\ IsFiniteSet(B) /\ Cardinality(B) = h
    BY <1>1
  <1>3. Area(w, h) = A \X B
    BY DEF Area
  <1> HIDE DEF A, B
  <1>4. IsFiniteSet(A \X B) /\ Cardinality(A \X B) = Cardinality(A) * Cardinality(B)
    BY <1>2, FS_Product
  <1> QED
    BY <1>2, <1>3, <1>4

(* The middle between two brightnesses that are far enough apart lies      *)
(* between them; the middle between one and the farther end does so, too.  *)
IsMiddle(middle, one, other) == 2 * middle <= one + other /\ one + other < 2 * middle + 2
AreApart(one, other) == one - other >= 32 \/ other - one >= 32
IsBeyond(luma, middle, below) == IF below THEN luma < middle ELSE luma > middle

LEMMA MiddleIsBetween ==
    ASSUME NEW pen \in 0 .. 255, NEW paper \in 0 .. 255, NEW middle \in Int,
           IsMiddle(middle, pen, paper), AreApart(pen, paper)
    PROVE  IsBeyond(pen, middle, pen < paper) /\ ~IsBeyond(paper, middle, pen < paper)
  <1>1. CASE pen < paper
    BY <1>1 DEF IsMiddle, AreApart, IsBeyond
  <1>2. CASE ~(pen < paper)
    BY <1>2 DEF IsMiddle, AreApart, IsBeyond
  <1> QED
    BY <1>1, <1>2

LEMMA MiddleIsFar ==
    ASSUME NEW pen \in 0 .. 255, NEW paper \in 0 .. 255, NEW middle \in Int, NEW end \in Int,
           end = IF paper < 128 THEN 255 ELSE 0, IsMiddle(middle, end, paper)
    PROVE  /\ ~IsBeyond(paper, middle, end < paper)
           /\ ~AreApart(pen, paper) => ~IsBeyond(pen, middle, end < paper)
  <1>1. CASE paper < 128
    BY <1>1 DEF IsMiddle, AreApart, IsBeyond
  <1>2. CASE ~(paper < 128)
    BY <1>2 DEF IsMiddle, AreApart, IsBeyond
  <1> QED
    BY <1>1, <1>2

FewInk(s) == 2 * Cardinality(Render(s).ink) < s.mode.width * s.mode.height

(* On a mostly blank screen the pen is the ink, if it can be told from the *)
(* paper at all.                                                           *)
LEMMA MaskIs ==
    ASSUME NEW s, IsScreen(s), FewInk(s), MaskOf(Render(s)).ink # {}
    PROVE  MaskOf(Render(s)).ink = Render(s).ink
  <1> DEFINE frame == Render(s)
             pen == s.mode.pen
             paper == s.mode.paper
             w == s.mode.width
             h == s.mode.height
             ink == Cardinality(frame.ink)
  <1>1. /\ frame.width = w /\ frame.height = h /\ frame.pen = pen /\ frame.paper = paper
        /\ w \in Nat /\ h \in Nat /\ pen \in 0 .. 255 /\ paper \in 0 .. 255
        /\ frame.ink \subseteq Area(w, h)
    BY RenderIsFrame
  <1> HIDE DEF frame, pen, paper, w, h
  <1>2. /\ IsFiniteSet(Area(w, h)) /\ Cardinality(Area(w, h)) = w * h
        /\ w * h \in Nat /\ ink \in Nat
    <2>1. IsFiniteSet(Area(w, h)) /\ Cardinality(Area(w, h)) = w * h
      BY <1>1, AreaSize
    <2>2. IsFiniteSet(frame.ink)
      BY <1>1, <2>1, FS_Subset
    <2>3. ink \in Nat
      BY <2>2, FS_CardinalityType
    <2>4. w * h \in Nat
      BY <1>1
    <2> QED
      BY <2>1, <2>3, <2>4
  <1>3. 2 * ink < w * h
    BY DEF FewInk, frame, w, h
  <1> HIDE DEF ink
  <1>4. Background(frame) = paper
    <2> DEFINE rest == frame.width * frame.height - ink
    <2>1. rest = w * h - ink
      BY <1>1
    <2> HIDE DEF rest
    <2>2. ~(ink > rest) /\ ink # rest
      BY <1>2, <1>3, <2>1
    <2> QED
      BY <1>1, <2>2 DEF Background, rest, ink
  <1>5. frame.ink # Area(frame.width, frame.height)
    <2>1. 2 * (w * h) >= w * h
      BY <1>2
    <2> QED
      BY <1>1, <1>2, <1>3, <2>1 DEF ink
  <1> DEFINE pens == IF frame.ink = {} THEN {} ELSE {pen}
             far == {c \in pens \cup {paper} : c - paper >= 32 \/ paper - c >= 32}
  <1>6. Foreground(frame) = IF far # {} THEN CHOOSE c \in far : TRUE
                            ELSE IF paper < 128 THEN 255 ELSE 0
    BY <1>1, <1>4, <1>5 DEF Foreground
  <1>7. far = {} \/ (far = {pen} /\ AreApart(pen, paper))
    BY <1>1 DEF AreApart
  <1>8. Foreground(frame) = IF far = {} THEN (IF paper < 128 THEN 255 ELSE 0) ELSE pen
    <2>1. (CHOOSE c \in {pen} : TRUE) = pen
      OBVIOUS
    <2> HIDE DEF far
    <2> QED
      BY <1>6, <1>7, <2>1
  <1>9. far = {} => frame.ink = {} \/ ~AreApart(pen, paper)
    <2> SUFFICES ASSUME frame.ink # {}, AreApart(pen, paper)
                 PROVE  pen \in far
      OBVIOUS
    <2>1. pen \in pens
      OBVIOUS
    <2>2. pen - paper >= 32 \/ paper - pen >= 32
      BY DEF AreApart
    <2> HIDE DEF pens
    <2> QED
      BY <2>1, <2>2
  <1> HIDE DEF far
  <1> DEFINE fg == Foreground(frame)
             threshold == Threshold(frame)
             inverted == Inverted(frame)
  <1>10. inverted = (fg < paper) /\ threshold = (fg + paper) \div 2
    BY <1>4 DEF Inverted, Threshold
  <1>11. MaskOf(frame).ink = (IF IsBeyond(pen, threshold, inverted) THEN frame.ink ELSE {})
                 \cup (IF IsBeyond(paper, threshold, inverted) THEN Area(w, h) \ frame.ink ELSE {})
    BY <1>1 DEF MaskOf, Binarise, IsBeyond
  <1>12. \A n \in Nat : 2 * (n \div 2) <= n /\ n < 2 * (n \div 2) + 2 /\ n \div 2 \in Nat
    OBVIOUS
  <1>15. ASSUME fg \in Nat
         PROVE  IsMiddle(threshold, fg, paper) /\ threshold \in Int
    <2>2. fg + paper \in Nat /\ threshold = (fg + paper) \div 2
      BY <1>1, <1>10, <1>15
    <2> HIDE DEF fg, threshold
    <2> QED
      BY <1>12, <2>2 DEF IsMiddle
  <1>13. CASE far # {}
    <2>1. fg = pen /\ fg \in Nat /\ AreApart(pen, paper)
      BY <1>1, <1>7, <1>8, <1>13
    <2>2. IsMiddle(threshold, pen, paper) /\ threshold \in Int
      BY <1>15, <2>1
    <2> HIDE DEF fg, threshold, inverted
    <2>4. IsBeyond(pen, threshold, pen < paper) /\ ~IsBeyond(paper, threshold, pen < paper)
      BY <1>1, <2>1, <2>2, MiddleIsBetween
    <2>5. inverted = (pen < paper)
      BY <1>10, <2>1
    <2> QED
      BY <1>11, <2>4, <2>5 DEF frame
  <1>14. CASE far = {}
    <2>1. fg = (IF paper < 128 THEN 255 ELSE 0) /\ fg \in Nat
      BY <1>8, <1>14
    <2>2. IsMiddle(threshold, fg, paper) /\ threshold \in Int
      BY <1>15, <2>1
    <2> HIDE DEF fg, threshold, inverted
    <2>4. /\ ~IsBeyond(paper, threshold, fg < paper)
          /\ ~AreApart(pen, paper) => ~IsBeyond(pen, threshold, fg < paper)
      <3>1. \A p, q \in 0 .. 255, m, e \in Int :
                e = (IF q < 128 THEN 255 ELSE 0) /\ IsMiddle(m, e, q) =>
                    /\ ~IsBeyond(q, m, e < q)
                    /\ ~AreApart(p, q) => ~IsBeyond(p, m, e < q)
        BY MiddleIsFar
      <3>2. fg \in Int
        BY <2>1
      <3>3. pen \in 0 .. 255 /\ paper \in 0 .. 255 /\ threshold \in Int
            /\ fg = (IF paper < 128 THEN 255 ELSE 0) /\ IsMiddle(threshold, fg, paper)
        BY <1>1, <2>1, <2>2
      <3> QED
        BY ONLY <3>1, <3>2, <3>3
    <2>6. MaskOf(frame).ink = {}
      BY <1>9, <1>10, <1>11, <1>14, <2>4
    <2> QED
      BY <2>6 DEF frame
  <1> QED
    BY <1>13, <1>14

OrdinaryScreen(s) ==
    /\ IsScreen(s) /\ s.specks = {}
    /\ \A i \in DOMAIN s.lines : OrdinaryLine(s.lines[i])

(* Each band of ink begins with a character in the first column.           *)
LEMMA BandBeginsAtTheLeft ==
    ASSUME NEW s, OrdinaryScreen(s), NEW mask, mask.ink = Render(s).ink,
           NEW band, NEW y \in Nat, NEW z \in Nat, IsBand(mask, band, y, z),
           NEW shift, IsShift(shift)
    PROVE  /\ s.at[1] * FontCell[1] <= band.left
           /\ 2 * (band.left - s.at[1] * FontCell[1] + shift[1]) < FontCell[1]
  <1> DEFINE W == FontCell[1]
             H == FontCell[2]
             ax == s.at[1]
             ay == s.at[2]
             left == band.left
  <1>1. W \in Nat \ {0} /\ H \in Nat \ {0}
    BY FontCells
  <1>2. IsScreen(s) /\ AreLines(s.lines) /\ ax \in Nat /\ ay \in Nat
    BY DEF OrdinaryScreen, IsScreen
  <1>3. DOMAIN s.lines = 1 .. Len(s.lines)
    BY <1>2, LinesAre
  <1>4. \A i \in DOMAIN s.lines : /\ DOMAIN s.lines[i] = 1 .. Len(s.lines[i]) /\ Len(s.lines[i]) \in Nat
                                  /\ \A k \in DOMAIN s.lines[i] : s.lines[i][k] \in DOMAIN Font
    BY <1>2, <1>3, LinesAre
  <1>5. \A q : q \in mask.ink <=> IsDrawn(s, q)
    BY <1>2, RenderIsFrame DEF OrdinaryScreen
  <1>6. /\ y <= z /\ left \in Nat
        /\ \A p \in mask.ink : p[2] # y - 1 /\ p[2] # z + 1
        /\ \E p \in mask.ink : p[2] = y
        /\ \A p \in mask.ink : p[2] \in y .. z => left <= p[1]
        /\ \E p \in mask.ink : p[2] \in y .. z /\ p[1] = left
    BY DEF IsBand
  <1>7. ASSUME NEW i \in DOMAIN s.lines, NEW k \in DOMAIN s.lines[i], NEW f \in Font[s.lines[i][k]]
        PROVE  /\ i \in Nat /\ k \in Nat \ {0} /\ f[1] \in 0 .. W - 1 /\ f[2] \in 0 .. H - 1
               /\ <<(ax + k - 1) * W + f[1], (ay + i - 1) * H + f[2]>> \in mask.ink
    <2>1. IsDrawn(s, <<(ax + k - 1) * W + f[1], (ay + i - 1) * H + f[2]>>)
      BY DEF IsDrawn
    <2>2. f[1] \in 0 .. W - 1 /\ f[2] \in 0 .. H - 1
      BY <1>4, FontCells
    <2> QED
      BY <1>3, <1>4, <1>5, <2>1, <2>2
  <1>8. ax * W <= left
    <2>1. PICK p \in mask.ink : p[1] = left
      BY <1>6
    <2>2. IsDrawn(s, p)
      BY <1>5
    <2>3. PICK i \in DOMAIN s.lines : \E k \in DOMAIN s.lines[i] : \E f \in Font[s.lines[i][k]] :
            p = <<(ax + k - 1) * W + f[1], (ay + i - 1) * H + f[2]>>
      BY <2>2 DEF IsDrawn
    <2>4. PICK k \in DOMAIN s.lines[i] : \E f \in Font[s.lines[i][k]] :
            p = <<(ax + k - 1) * W + f[1], (ay + i - 1) * H + f[2]>>
      BY <2>3
    <2>5. PICK f \in Font[s.lines[i][k]] : p = <<(ax + k - 1) * W + f[1], (ay + i - 1) * H + f[2]>>
      BY <2>4
    <2>6. k \in Nat \ {0} /\ f[1] \in 0 .. W - 1
      BY <1>7
    <2>7. left = (ax + k - 1) * W + f[1]
      BY <2>1, <2>5
    <2> HIDE DEF W, H, ax, ay, left
    <2>8. (k - 1) * W >= 0 /\ (ax + k - 1) * W = ax * W + (k - 1) * W /\ ax * W \in Int /\ (k - 1) * W \in Int
      BY <1>1, <1>2, <2>6
    <2> QED
      BY <1>1, <2>6, <2>7, <2>8
  <1>9. PICK q \in mask.ink : q[2] = y
    BY <1>6
  <1>10. PICK i \in DOMAIN s.lines : \E k \in DOMAIN s.lines[i] : \E f \in Font[s.lines[i][k]] :
            q = <<(ax + k - 1) * W + f[1], (ay + i - 1) * H + f[2]>>
    BY <1>5 DEF IsDrawn
  <1>11. PICK k \in DOMAIN s.lines[i] : \E f \in Font[s.lines[i][k]] :
            q = <<(ax + k - 1) * W + f[1], (ay + i - 1) * H + f[2]>>
    BY <1>10
  <1>12. PICK f \in Font[s.lines[i][k]] : q = <<(ax + k - 1) * W + f[1], (ay + i - 1) * H + f[2]>>
    BY <1>11
  <1> DEFINE line == s.lines[i]
             rows == {p[2] : p \in UNION {Font[line[j]] : j \in DOMAIN line}}
             R == (ay + i - 1) * H
  <1>13. line # <<>> /\ 1 \in DOMAIN line
    <2>1. DOMAIN line = 1 .. Len(line) /\ Len(line) \in Nat /\ k \in DOMAIN line
      BY <1>4
    <2>2. line \in Seq(DOMAIN Font)
      BY <1>2, <1>3 DEF AreLines
    <2> HIDE DEF line
    <2> QED
      BY <2>1, <2>2
  <1>14. BeginsAtTheLeft(line[1]) /\ \A a, b \in rows : a .. b \subseteq rows
    BY <1>13 DEF OrdinaryScreen, OrdinaryLine
  <1>15. PICK g \in Font[line[1]] : 2 * (g[1] + shift[1]) < W
    <2>1. shift[1] \in 0 .. W - 1 /\ \A d \in DOMAIN Font : \A p \in Font[d] : p[1] + shift[1] < W
      BY DEF IsShift
    <2> QED
      BY <1>14, <2>1 DEF BeginsAtTheLeft
  <1>16. \A t \in rows : \E p \in mask.ink : p[2] = R + t
    <2> SUFFICES ASSUME NEW j \in DOMAIN line, NEW p \in Font[line[j]]
                 PROVE  \E o \in mask.ink : o[2] = R + p[2]
      OBVIOUS
    <2>1. <<(ax + j - 1) * W + p[1], (ay + i - 1) * H + p[2]>> \in mask.ink
      BY <1>7
    <2> QED
      BY <2>1
  <1>17. f[2] \in rows /\ g[2] \in rows
    BY <1>13
  <1>18. /\ f[2] \in 0 .. H - 1 /\ g[2] \in 0 .. H - 1 /\ g[1] \in 0 .. W - 1
         /\ <<(ax + 1 - 1) * W + g[1], R + g[2]>> \in mask.ink
    <2>1. f[2] \in 0 .. H - 1
      BY <1>7
    <2> HIDE DEF W, H
    <2>2. g[1] \in 0 .. W - 1 /\ g[2] \in 0 .. H - 1 /\ <<(ax + 1 - 1) * W + g[1], (ay + i - 1) * H + g[2]>> \in mask.ink
      BY <1>7, <1>13
    <2> QED
      BY <2>1, <2>2
  <1>19. y = R + f[2] /\ R \in Int
    <2>1. i \in Nat
      BY <1>3
    <2>2. R \in Int
      <3> HIDE DEF H, ay
      <3> QED
        BY <1>1, <1>2, <2>1
    <2> QED
      BY <1>9, <1>12, <2>2
  <1>20. \A t \in rows : R + t # y - 1 /\ R + t # z + 1
    <2> HIDE DEF rows, R
    <2> QED
      BY <1>6, <1>16
  <1>21. ~(g[2] < f[2])
    <2> SUFFICES ASSUME g[2] < f[2] PROVE FALSE
      OBVIOUS
    <2>1. f[2] - 1 \in g[2] .. f[2]
      BY <1>18
    <2> HIDE DEF rows, R
    <2>2. f[2] - 1 \in rows
      BY <1>14, <1>17, <2>1
    <2>3. R + (f[2] - 1) = y - 1
      BY <1>18, <1>19
    <2> QED
      BY <1>20, <2>2, <2>3
  <1>22. R + g[2] <= z
    <2> SUFFICES ASSUME z < R + g[2] PROVE FALSE
      BY <1>18, <1>19
    <2>1. z + 1 - R \in f[2] .. g[2]
      BY <1>6, <1>18, <1>19
    <2> HIDE DEF rows, R
    <2>2. z + 1 - R \in rows
      BY <1>14, <1>17, <2>1
    <2>3. R + (z + 1 - R) = z + 1
      BY <1>19
    <2> QED
      BY <1>20, <2>2, <2>3
  <1>23. R + g[2] \in y .. z
    <2> HIDE DEF R
    <2> QED
      BY <1>18, <1>19, <1>21, <1>22
  <1>24. left <= (ax + 1 - 1) * W + g[1]
    <2> DEFINE o == <<(ax + 1 - 1) * W + g[1], R + g[2]>>
    <2>1. o \in mask.ink /\ o[2] \in y .. z /\ o[1] = (ax + 1 - 1) * W + g[1]
      BY <1>18, <1>23
    <2> HIDE DEF o, W, R
    <2> QED
      BY <1>6, <2>1
  <1>25. left <= ax * W + g[1] /\ ax * W \in Int
    <2> HIDE DEF W, ax
    <2>1. ax + 1 - 1 = ax
      BY <1>2
    <2> QED
      BY <1>1, <1>2, <1>24, <2>1
  <1>26. shift[1] \in 0 .. W - 1
    BY DEF IsShift
  <1> HIDE DEF W, ax, left
  <1>27. 2 * (left - ax * W + shift[1]) < W
    BY <1>1, <1>6, <1>15, <1>18, <1>25, <1>26
  <1> QED
    BY <1>8, <1>27 DEF W, ax, left

(* So all lines of the message are learned from the screen's first column. *)
LEMMA ColumnsAreRight ==
    ASSUME NEW s, OrdinaryScreen(s), NEW mask, mask.ink = Render(s).ink,
           NEW n, NEW run, IsRun(mask, run, n),
           NEW grid, IsGrid(grid), CutsBetweenCharacters(grid), Corner(grid)[1] <= s.at[1]
    PROVE  \A i \in 1 .. n : Columns(grid, run)[i] = s.at[1] - Corner(grid)[1]
  <1> TAKE i \in 1 .. n
  <1> DEFINE W == FontCell[1]
             C == Corner(grid)[1]
             t == Shift(grid)[1]
             ax == s.at[1]
             left == run[i].left
             e == left - ax * W + t
             d == ax - C
  <1>1. W \in Nat \ {0} /\ ax \in Nat
    BY FontCells DEF OrdinaryScreen, IsScreen
  <1>2. /\ IsShift(Shift(grid)) /\ C \in Int /\ grid.cell_width = W
        /\ grid.origin_x = C * W - t
    BY CornerIs
  <1>3. t \in 0 .. W - 1
    BY <1>2 DEF IsShift
  <1>4. PICK y \in Nat, z \in Nat : IsBand(mask, run[i], y, z)
    BY DEF IsRun
  <1>5. ax * W <= left /\ 2 * (left - ax * W + t) < W
    BY <1>2, <1>4, BandBeginsAtTheLeft
  <1>6. /\ left \in Nat
        /\ Columns(grid, run)[i] =
             IF left - grid.origin_x < 0 THEN 0 ELSE Rounded(left - grid.origin_x, grid.cell_width)
    BY ColumnsAre
  <1>7. C <= ax
    OBVIOUS
  <1> HIDE DEF W, C, t, ax, left
  <1>8. ax * W \in Int /\ C * W \in Int /\ d * W = ax * W - C * W /\ d \in Nat /\ d * W >= 0
    BY <1>1, <1>2, <1>7
  <1>9. e \in 0 .. W - 1 /\ 2 * e < W
    BY <1>1, <1>3, <1>5, <1>6, <1>8
  <1>10. left - grid.origin_x = d * W + e
    BY <1>2, <1>3, <1>6, <1>8
  <1> HIDE DEF d, e
  <1>11. (d * W + e) \div W = d /\ (d * W + e) % W = e
    <2>1. \A b \in Nat \ {0}, m \in Int : \A r \in 0 .. b - 1 :
            (m * b + r) \div b = m /\ (m * b + r) % b = r
      BY ONLY DivMod
    <2>2. W \in Nat \ {0} /\ d \in Int /\ e \in 0 .. W - 1
      BY <1>1, <1>8, <1>9
    <2> QED
      BY ONLY <2>1, <2>2
  <1>12. Rounded(d * W + e, W) = d
    BY <1>1, <1>9, <1>11 DEF Rounded
  <1>13. ~(d * W + e < 0)
    BY <1>8, <1>9
  <1> QED
    BY <1>2, <1>6, <1>10, <1>12, <1>13 DEF d, ax, C

(* A calibration that was learned on a grid that runs between the          *)
(* characters of an ordinary screen.                                       *)
GoodLesson(s, t, c) ==
    /\ c # NoCalibration
    /\ OrdinaryScreen(s) /\ IsText(t) /\ IsGrid(c.grid) /\ CutsBetweenCharacters(c.grid)
    /\ Corner(c.grid)[1] <= s.at[1]
    /\ \E mask, run :
          /\ IsRun(mask, run, Len(t)) /\ mask = MaskOf(Render(s)) /\ mask.ink = Render(s).ink
          /\ Verifies(mask, c.grid, run, t) /\ c = Build(Render(s), mask, c.grid, run, t)

(* The character that stands where the message has a place. *)
ShownAt(s, grid, p) == CharAt(s, s.at[1] + p[2] - 1, Corner(grid)[2] + p[1] - 1)

LEMMA PicturesShow ==
    ASSUME NEW s, OrdinaryScreen(s), NEW mask, mask.ink = Render(s).ink,
           NEW t, IsText(t), NEW run, IsRun(mask, run, Len(t)),
           NEW grid, IsGrid(grid), CutsBetweenCharacters(grid), Corner(grid)[1] <= s.at[1],
           NEW p \in Places(t)
    PROVE  Picture(mask, grid, Columns(grid, run), p) = PictureOf(ShownAt(s, grid, p), Shift(grid))
  <1>1. PICK i \in DOMAIN t : \E k \in DOMAIN t[i] : p = <<i, k>>
    BY PlacesAre
  <1>2. PICK k \in DOMAIN t[i] : p = <<i, k>>
    BY <1>1
  <1>3. i \in 1 .. Len(t) /\ i \in Nat /\ k \in Nat
    BY TextIs
  <1>4. Columns(grid, run)[i] = s.at[1] - Corner(grid)[1]
    BY <1>3, ColumnsAreRight
  <1>5. Corner(grid)[1] \in Int /\ Corner(grid)[2] \in Int
    BY CornerIs
  <1>6. IsScreen(s) /\ s.specks = {} /\ s.at[1] \in Nat
    BY DEF OrdinaryScreen, IsScreen
  <1> DEFINE column == s.at[1] - Corner(grid)[1] + k - 1
             row == i - 1
  <1>7. Picture(mask, grid, Columns(grid, run), p) = CellAt(mask, grid, column, row)
    BY <1>2, <1>4 DEF Picture
  <1>8. column \in Int /\ row \in Int
        /\ Corner(grid)[1] + column = s.at[1] + k - 1 /\ Corner(grid)[2] + row = Corner(grid)[2] + i - 1
    BY <1>3, <1>5, <1>6
  <1> HIDE DEF column, row
  <1>9. CellAt(mask, grid, column, row)
          = PictureOf(CharAt(s, Corner(grid)[1] + column, Corner(grid)[2] + row), Shift(grid))
    BY <1>6, <1>8, GridCellShows
  <1> QED
    BY <1>2, <1>7, <1>8, <1>9 DEF ShownAt

(* A learned calibration is such a one. *)
LEMMA LessonIsGood ==
    ASSUME OrdinaryLessons, NEW l, NEW c, c # NoCalibration, FromLesson(l, c),
           l.screen.specks = {}, CutsBetweenCharacters(c.grid),
           Corner(c.grid)[1] <= l.screen.at[1]
    PROVE  GoodLesson(l.screen, l.lines, c) /\ l.screen \in Lessons /\ l.lines \in Texts
  <1>1. PICK found \in Learned : /\ found.screen = l.screen /\ found.lines = l.lines
                                 /\ found.calibration = c
    BY DEF FromLesson
  <1> DEFINE s == l.screen
             t == l.lines
             mask == MaskOf(Render(s))
  <1>2. s \in Lessons /\ t \in Texts
    BY <1>1, LearnedIs
  <1>3. PICK run, grid :
                    /\ IsRun(mask, run, Len(t)) /\ IsGrid(grid)
                    /\ Verifies(mask, grid, run, t)
                    /\ c = Build(Render(s), mask, grid, run, t)
    BY <1>1, LearnedIs
  <1>4. IsText(t) /\ IsScreen(s)
    BY <1>2, DetectAssumption
  <1>5. OrdinaryScreen(s) /\ FewInk(s)
    BY <1>2, <1>4 DEF OrdinaryLessons, OrdinaryScreen, FewInk
  <1>6. c.grid = grid
    <2> HIDE DEF mask, s, t
    <2> QED
      BY <1>3 DEF Build
  <1>7. mask.ink # {}
    <2>1. 1 \in 1 .. Len(t)
      BY <1>4, TextIs
    <2>2. PICK y \in Nat, z \in Nat : IsBand(mask, run[1], y, z)
      BY <1>3, <2>1 DEF IsRun
    <2> QED
      BY <2>2 DEF IsBand
  <1>8. mask.ink = Render(s).ink
    BY <1>4, <1>5, <1>7, MaskIs
  <1> HIDE DEF mask, s, t
  <1>9. GoodLesson(s, t, c)
    BY <1>3, <1>4, <1>5, <1>6, <1>8 DEF GoodLesson, mask, s
  <1> QED
    BY <1>2, <1>9 DEF s, t

(* What a grid that verifies says of the screen. *)
LEMMA GoodLessonIs ==
    ASSUME NEW s, NEW t, NEW c, GoodLesson(s, t, c)
    PROVE  /\ c.width = s.mode.width /\ c.height = s.mode.height
           /\ c.text = NormaliseAll(t)
           /\ IsShift(Shift(c.grid))
           /\ \A p \in Places(t) : ShownAt(s, c.grid, p) \in DOMAIN Font
           /\ \A p, q \in Places(t) :
                t[p[1]][p[2]] = t[q[1]][q[2]] =>
                    PictureOf(ShownAt(s, c.grid, p), Shift(c.grid))
                      = PictureOf(ShownAt(s, c.grid, q), Shift(c.grid))
           /\ \A ch : ch \in DOMAIN c.glyphs <=> \E p \in Places(t) : t[p[1]][p[2]] = ch
           /\ \A ch \in DOMAIN c.glyphs : \E p \in Places(t) :
                /\ t[p[1]][p[2]] = ch
                /\ c.glyphs[ch] = PictureOf(ShownAt(s, c.grid, p), Shift(c.grid))
  <1>1. /\ OrdinaryScreen(s) /\ IsText(t) /\ IsGrid(c.grid) /\ CutsBetweenCharacters(c.grid)
        /\ Corner(c.grid)[1] <= s.at[1] /\ c # NoCalibration
    BY DEF GoodLesson
  <1>2. PICK mask, run :
          /\ IsRun(mask, run, Len(t)) /\ mask = MaskOf(Render(s)) /\ mask.ink = Render(s).ink
          /\ Verifies(mask, c.grid, run, t) /\ c = Build(Render(s), mask, c.grid, run, t)
    BY DEF GoodLesson
  <1> DEFINE columns == Columns(c.grid, run)
             Char(p) == t[p[1]][p[2]]
             Seen(p) == PictureOf(ShownAt(s, c.grid, p), Shift(c.grid))
  <1>3. \A p \in Places(t) : Picture(mask, c.grid, columns, p) = Seen(p)
    BY <1>1, <1>2, PicturesShow
  <1>4. IsScreen(s) /\ Render(s).width = s.mode.width /\ Render(s).height = s.mode.height
    BY <1>1, RenderIsFrame DEF OrdinaryScreen
  <1>5. \A p \in Places(t) : ShownAt(s, c.grid, p) \in DOMAIN Font
    BY <1>4, CharAtIs DEF ShownAt
  <1>6. \A p, q \in Places(t) : Char(p) = Char(q) => Seen(p) = Seen(q)
    <2>1. \A p, q \in Places(t) : Char(p) = Char(q) =>
            Picture(mask, c.grid, columns, p) = Picture(mask, c.grid, columns, q)
      BY <1>2 DEF Verifies
    <2> HIDE DEF columns, Char, Seen
    <2> QED
      BY <1>3, <2>1
  <1>7. /\ c.width = Render(s).width /\ c.height = Render(s).height /\ c.text = NormaliseAll(t)
        /\ c.glyphs = [ch \in {Char(p) : p \in Places(t)} |->
                          Picture(mask, c.grid, columns, CHOOSE p \in Places(t) : Char(p) = ch)]
    <2> DEFINE r == Region(Render(s), c.grid, columns, t)
    <2>1. c = [width |-> Render(s).width, height |-> Render(s).height, grid |-> c.grid,
              threshold |-> Threshold(Render(s)), inverted |-> Inverted(Render(s)),
              text |-> NormaliseAll(t),
              glyphs |-> [ch \in {Char(p) : p \in Places(t)} |->
                             Picture(mask, c.grid, columns,
                                     CHOOSE p \in Places(t) : Char(p) = ch)],
              region |-> r,
              region_mask |-> FromRows(Crop(mask, r[1], r[2], r[3], r[4]))]
      BY <1>1, <1>2 DEF Build
    <2> HIDE DEF r, columns, Char
    <2> QED
      BY <2>1
  <1>8. \A ch : ch \in DOMAIN c.glyphs <=> \E p \in Places(t) : Char(p) = ch
    <2> HIDE DEF columns, Char
    <2> QED
      BY <1>7
  <1>9. \A ch \in DOMAIN c.glyphs : \E p \in Places(t) : Char(p) = ch /\ c.glyphs[ch] = Seen(p)
    <2> TAKE ch \in DOMAIN c.glyphs
    <2> DEFINE p == CHOOSE p \in Places(t) : Char(p) = ch
    <2>1. p \in Places(t) /\ Char(p) = ch
      <3> HIDE DEF Char
      <3> QED
        BY <1>8
    <2>2. c.glyphs[ch] = Picture(mask, c.grid, columns, p)
      <3> HIDE DEF columns, Char
      <3> QED
        BY <1>7
    <2> HIDE DEF p, columns, Char, Seen
    <2> QED
      BY <1>3, <2>1, <2>2
  <1>10. IsShift(Shift(c.grid))
    BY <1>1, CornerIs
  <1> HIDE DEF columns
  <1> QED
    BY <1>4, <1>5, <1>6, <1>7, <1>8, <1>9, <1>10

(* The picture of the screen that a grid gives repeats what the message    *)
(* repeats.                                                                *)
LEMMA LearnInvSameShape ==
    ASSUME OrdinaryLessons, DistinctFont, LearnInv
    PROVE  VerifiedMeansSameShape
  <1> DEFINE s == lesson.screen
             t == lesson.lines
             grid == file.grid
             shown == s.lines
             above == Corner(grid)[2] - s.at[2]
             Shown(p) == IF above + p[1] \in DOMAIN shown /\ p[2] \in DOMAIN shown[above + p[1]]
                         THEN shown[above + p[1]][p[2]] ELSE Space
  <1>1. SUFFICES ASSUME file # NoCalibration, s.specks = {}, CutsBetweenCharacters(grid),
                        Corner(grid)[1] <= s.at[1],
                        NEW p \in Places(t), NEW q \in Places(t),
                        t[p[1]][p[2]] = t[q[1]][q[2]]
                 PROVE  Shown(p) = Shown(q)
    BY DEF VerifiedMeansSameShape
  <1>2. GoodLesson(s, t, file)
    BY <1>1, LessonIsGood DEF LearnInv
  <1>3. IsText(t) /\ IsScreen(s) /\ IsGrid(grid) /\ s.at[1] \in Nat /\ s.at[2] \in Nat
    BY <1>2 DEF GoodLesson, OrdinaryScreen, IsScreen
  <1>4. Corner(grid)[2] \in Int
    BY <1>1, <1>3, CornerIs
  <1> HIDE DEF s, t, grid
  <1>5. ASSUME NEW o \in Places(t)
        PROVE  ShownAt(s, grid, o) = Shown(o)
    <2>1. o[1] \in Nat /\ o[2] \in Nat
      <3>1. PICK i \in DOMAIN t : \E k \in DOMAIN t[i] : o = <<i, k>>
        BY PlacesAre
      <3>2. PICK k \in DOMAIN t[i] : o = <<i, k>>
        BY <3>1
      <3> QED
        BY <1>3, <3>2, TextIs
    <2>2. Corner(grid)[2] + o[1] - 1 - s.at[2] + 1 = above + o[1]
          /\ s.at[1] + o[2] - 1 - s.at[1] + 1 = o[2]
      BY <1>3, <1>4, <2>1
    <2> DEFINE x == s.at[1] + o[2] - 1
               y == Corner(grid)[2] + o[1] - 1
    <2>3. y - s.at[2] + 1 = above + o[1] /\ x - s.at[1] + 1 = o[2]
      <3>1. \A ax, ay, cy, o1, o2 \in Int :
                (cy + o1 - 1) - ay + 1 = (cy - ay) + o1 /\ (ax + o2 - 1) - ax + 1 = o2
        OBVIOUS
      <3> QED
        BY <1>3, <1>4, <2>1, <3>1
    <2> HIDE DEF above
    <2>4. CharAt(s, x, y) = Shown(o)
      <3> HIDE DEF x, y
      <3> QED
        BY <2>3 DEF CharAt
    <2> QED
      BY <2>4 DEF ShownAt
  <1>6. /\ IsShift(Shift(grid))
        /\ \A o \in Places(t) : ShownAt(s, grid, o) \in DOMAIN Font
        /\ PictureOf(ShownAt(s, grid, p), Shift(grid)) = PictureOf(ShownAt(s, grid, q), Shift(grid))
    BY <1>1, <1>2, GoodLessonIs DEF grid
  <1>7. Font[ShownAt(s, grid, p)] = Font[ShownAt(s, grid, q)]
    BY <1>6, PictureTells
  <1>8. ShownAt(s, grid, p) = ShownAt(s, grid, q)
    BY <1>6, <1>7 DEF DistinctFont
  <1> QED
    BY <1>5, <1>8

(* _extract, _delta: if the characters of the font differ, and `configure` *)
(* is run on ordinary screens, then a delta of zero on a grid that runs    *)
(* between the characters means what it seems to mean: the screen repeats  *)
(* its characters where the message repeats its own, in all its lines.     *)
THEOREM ZeroDeltaMeansSameShape ==
    ASSUME OrdinaryLessons, DistinctFont
    PROVE  Spec => []VerifiedMeansSameShape
<1>1. Init => LearnInv
  BY LearnInit
<1>2. LearnInv /\ [Next]_vars => LearnInv'
  BY LearnNext
<1>3. LearnInv => VerifiedMeansSameShape
  BY LearnInvSameShape
<1> QED
  BY <1>1, <1>2, <1>3, PTL DEF Spec

-----------------------------------------------------------------------------
(* Words *)

IsWriting(writing, n) == n \in Nat /\ DOMAIN writing = 1 .. n /\ Len(writing) = n

(* The characters, and what is kept of a text: these, and of the blanks    *)
(* between two of them the last.                                           *)
Marks(writing) == {i \in DOMAIN writing : writing[i] # Space}

Kept(writing) ==
    {i \in DOMAIN writing :
        \/ writing[i] # Space
        \/ /\ \E j \in 1 .. i - 1 : writing[j] # Space
           /\ i < Len(writing) /\ writing[i + 1] # Space}

LEMMA KeptAre ==
    ASSUME NEW w, NEW n, IsWriting(w, n)
    PROVE  /\ Marks(w) \subseteq 1 .. n /\ Kept(w) \subseteq 1 .. n
           /\ IsFiniteSet(Kept(w)) /\ Cardinality(Kept(w)) \in Nat
           /\ \A i \in Int : i \in Kept(w) <=>
                \/ i \in Marks(w)
                \/ i \notin Marks(w) /\ i + 1 \in Marks(w) /\ \E j \in Marks(w) : j < i
  <1>1. n \in Nat /\ DOMAIN w = 1 .. n /\ Len(w) = n
    BY DEF IsWriting
  <1>2. Marks(w) \subseteq 1 .. n /\ Kept(w) \subseteq 1 .. n
    BY <1>1 DEF Marks, Kept
  <1>3. IsFiniteSet(1 .. n)
    BY <1>1, FS_Interval
  <1>4. IsFiniteSet(Kept(w))
    BY <1>2, <1>3, FS_Subset
  <1>5. Cardinality(Kept(w)) \in Nat
    BY <1>4, FS_CardinalityType
  <1>6. ASSUME NEW i \in Int
        PROVE  i \in Kept(w) <=>
                \/ i \in Marks(w)
                \/ i \notin Marks(w) /\ i + 1 \in Marks(w) /\ \E j \in Marks(w) : j < i
    <2>1. ASSUME i \in Kept(w), i \notin Marks(w)
          PROVE  i + 1 \in Marks(w) /\ \E j \in Marks(w) : j < i
      <3>1. i \in 1 .. n /\ w[i] = Space
        BY <1>1, <1>2, <2>1 DEF Marks
      <3>2. (\E j \in 1 .. i - 1 : w[j] # Space) /\ i < Len(w) /\ w[i + 1] # Space
        BY <2>1, <3>1 DEF Kept
      <3>3. PICK j \in 1 .. i - 1 : w[j] # Space
        BY <3>2
      <3>4. j \in DOMAIN w /\ j < i /\ i + 1 \in DOMAIN w
        BY <1>1, <3>1, <3>2, <3>3
      <3> QED
        BY <3>2, <3>3, <3>4 DEF Marks
    <2>2. i \in Marks(w) => i \in Kept(w)
      BY DEF Marks, Kept
    <2>3. ASSUME i + 1 \in Marks(w), NEW j \in Marks(w), j < i
          PROVE  i \in Kept(w)
      <3>1. i + 1 \in 1 .. n /\ j \in 1 .. n /\ w[i + 1] # Space /\ w[j] # Space
        BY <1>2, <2>3 DEF Marks
      <3>2. i \in 1 .. n /\ i < n /\ j \in 1 .. i - 1
        BY <1>1, <2>3, <3>1
      <3> QED
        BY <1>1, <3>1, <3>2 DEF Kept
    <2> QED
      BY <2>1, <2>2, <2>3
  <1> QED
    BY <1>2, <1>4, <1>5, <1>6

LEMMA NormaliseIs ==
    ASSUME NEW w, NEW n, IsWriting(w, n)
    PROVE  /\ IsWriting(Normalise(w), Cardinality(Kept(w)))
           /\ \A k \in 1 .. Cardinality(Kept(w)) : Normalise(w)[k] = Fold[w[InOrder(Kept(w))[k]]]
  <1> DEFINE places == InOrder(Kept(w))
             m == Cardinality(Kept(w))
  <1>1. Kept(w) \subseteq Int /\ IsFiniteSet(Kept(w)) /\ m \in Nat
    BY KeptAre
  <1>2. DOMAIN places = 1 .. m
    BY <1>1, InOrderIs
  <1>3. Normalise(w) = [i \in DOMAIN places |-> Fold[w[places[i]]]]
    BY DEF Normalise, Kept
  <1> HIDE DEF places, m
  <1>4. Normalise(w) = [i \in 1 .. m |-> Fold[w[places[i]]]]
    BY <1>2, <1>3
  <1> QED
    BY <1>1, <1>4 DEF IsWriting, places, m

(* One writing has the characters of another, elsewhere, but together in   *)
(* the same words.                                                         *)
AreSameWords(v, w, f) ==
    /\ f \in [Marks(v) -> Marks(w)]
    /\ \A j \in Marks(w) : \E i \in Marks(v) : f[i] = j
    /\ \A i, j \in Marks(v) : i < j => f[i] < f[j]
    /\ \A i \in Marks(v) : i - 1 \in Marks(v) <=> f[i] - 1 \in Marks(w)

LEMMA SameWords ==
    ASSUME NEW v, NEW m, IsWriting(v, m), NEW w, NEW n, IsWriting(w, n),
           NEW f, AreSameWords(v, w, f)
    PROVE  /\ Len(Normalise(v)) = Len(Normalise(w))
           /\ \A k \in 1 .. Len(Normalise(v)) :
                \/ Normalise(v)[k] = Fold[Space] /\ Normalise(w)[k] = Fold[Space]
                \/ \E i \in Marks(v) : /\ Normalise(v)[k] = Fold[v[i]]
                                       /\ Normalise(w)[k] = Fold[w[f[i]]]
  <1> DEFINE A == Kept(v)
             B == Kept(w)
             g == [i \in A |-> IF i \in Marks(v) THEN f[i] ELSE f[i + 1] - 1]
  <1>1. /\ Marks(v) \subseteq 1 .. m /\ A \subseteq 1 .. m /\ IsFiniteSet(A) /\ Cardinality(A) \in Nat
        /\ Marks(w) \subseteq 1 .. n /\ B \subseteq 1 .. n
        /\ \A i \in Int : i \in A <=>
                \/ i \in Marks(v)
                \/ i \notin Marks(v) /\ i + 1 \in Marks(v) /\ \E j \in Marks(v) : j < i
        /\ \A i \in Int : i \in B <=>
                \/ i \in Marks(w)
                \/ i \notin Marks(w) /\ i + 1 \in Marks(w) /\ \E j \in Marks(w) : j < i
    BY KeptAre
  <1>2. /\ \A i \in Marks(v) : f[i] \in Marks(w)
        /\ \A j \in Marks(w) : \E i \in Marks(v) : f[i] = j
        /\ \A i, j \in Marks(v) : i < j => f[i] < f[j]
        /\ \A i \in Marks(v) : i - 1 \in Marks(v) <=> f[i] - 1 \in Marks(w)
    BY DEF AreSameWords
  <1>3. /\ Marks(v) \subseteq Int /\ Marks(w) \subseteq Int /\ A \subseteq Int /\ B \subseteq Int
    BY <1>1
  <1> HIDE DEF A, B
  <1>4. ASSUME NEW i \in A, i \notin Marks(v)
        PROVE  /\ i + 1 \in Marks(v) /\ f[i + 1] \in Int
               /\ f[i + 1] - 1 \in B /\ f[i + 1] - 1 \notin Marks(w)
    <2>1. i \in Int /\ i + 1 \in Marks(v) /\ \E j \in Marks(v) : j < i
      BY <1>1, <1>3, <1>4
    <2>2. (i + 1) - 1 = i /\ f[i + 1] \in Marks(w) /\ f[i + 1] \in Int
      BY <1>2, <1>3, <2>1
    <2>3. f[i + 1] - 1 \notin Marks(w)
      BY <1>2, <1>4, <2>1, <2>2
    <2>4. PICK j \in Marks(v) : j < i
      BY <2>1
    <2>5. j < i + 1
      BY <1>3, <2>1, <2>4
    <2>6. f[j] < f[i + 1] /\ f[j] \in Marks(w) /\ f[j] \in Int
      BY <1>2, <1>3, <2>1, <2>5
    <2>7. PICK y \in Int : y = f[i + 1] - 1
      BY <2>2
    <2>8. y + 1 = f[i + 1] /\ f[j] < y
      <3>1. f[j] # y
        BY <2>3, <2>6, <2>7
      <3> QED
        BY <2>2, <2>6, <2>7, <3>1
    <2>9. y \in B
      BY <1>1, <2>2, <2>3, <2>6, <2>7, <2>8
    <2> QED
      BY <2>1, <2>2, <2>3, <2>7, <2>9
  <1>5. g \in [A -> B]
    <2>1. \A i \in A : i \in Marks(v) => f[i] \in B
      BY <1>1, <1>2, <1>3
    <2> QED
      BY <1>4, <2>1
  <1>6. \A y \in B : \E i \in A : g[i] = y
    <2> TAKE y \in B
    <2>1. CASE y \in Marks(w)
      <3>1. PICK i \in Marks(v) : f[i] = y
        BY <1>2, <2>1
      <3>2. i \in A
        BY <1>1, <1>3
      <3> QED
        BY <3>1, <3>2
    <2>2. CASE y \notin Marks(w)
      <3>1. y \in Int /\ y + 1 \in Marks(w) /\ \E j \in Marks(w) : j < y
        BY <1>1, <1>3, <2>2
      <3>2. PICK i \in Marks(v) : f[i] = y + 1
        BY <1>2, <3>1
      <3>3. PICK j \in Marks(v) : f[j] < y
        BY <1>2, <3>1
      <3>4. i \in Int /\ j \in Int /\ f[i] \in Int /\ f[j] \in Int /\ f[i] - 1 = y
        BY <1>2, <1>3, <3>1, <3>2
      <3>5. i - 1 \notin Marks(v)
        BY <1>2, <2>2, <3>2, <3>4
      <3>6. j < i
        <4>1. i # j /\ ~(i < j)
          BY <1>2, <3>1, <3>2, <3>3, <3>4
        <4> QED
          BY <3>4, <4>1
      <3>7. PICK x \in Int : x = i - 1
        BY <3>4
      <3>8. x + 1 = i /\ j < x
        <4>1. j # x
          BY <3>5, <3>7
        <4> QED
          BY <3>4, <3>6, <3>7, <4>1
      <3>9. x \in A /\ x \notin Marks(v)
        BY <1>1, <3>5, <3>7, <3>8
      <3>10. g[x] = y
        BY <3>2, <3>4, <3>8, <3>9
      <3> QED
        BY <3>9, <3>10
    <2> QED
      BY <2>1, <2>2
  <1>7. \A x, y \in A : x < y => g[x] < g[y]
    <2> SUFFICES ASSUME NEW x \in A, NEW y \in A, x < y
                 PROVE  g[x] < g[y]
      OBVIOUS
    <2>1. x \in Int /\ y \in Int /\ g[x] \in Int /\ g[y] \in Int
      <3> HIDE DEF g
      <3> QED
        BY <1>3, <1>5
    <2>2. CASE x \in Marks(v) /\ y \in Marks(v)
      BY <1>2, <2>2
    <2>3. CASE x \in Marks(v) /\ y \notin Marks(v)
      <3>1. y + 1 \in Marks(v) /\ g[y] = f[y + 1] - 1 /\ g[x] = f[x] /\ f[y + 1] - 1 \notin Marks(w)
            /\ f[y + 1] \in Int
        BY <1>4, <2>3
      <3>2. x < y + 1
        BY <2>1
      <3>3. f[x] < f[y + 1] /\ f[x] \in Marks(w)
        BY <1>2, <2>3, <3>1, <3>2
      <3>4. g[x] # g[y] /\ g[x] < g[y] + 1
        BY <3>1, <3>3
      <3> HIDE DEF g
      <3> QED
        BY <2>1, <3>4
    <2>4. CASE x \notin Marks(v) /\ y \in Marks(v)
      <3>1. x + 1 \in Marks(v) /\ g[x] = f[x + 1] - 1 /\ g[y] = f[y] /\ f[x + 1] \in Int
        BY <1>4, <2>4
      <3>2. x + 1 = y \/ x + 1 < y
        BY <2>1
      <3>3. f[x + 1] = f[y] \/ f[x + 1] < f[y]
        BY <1>2, <2>4, <3>1, <3>2
      <3> HIDE DEF g
      <3> QED
        BY <2>1, <3>1, <3>3
    <2>5. CASE x \notin Marks(v) /\ y \notin Marks(v)
      <3>1. /\ x + 1 \in Marks(v) /\ g[x] = f[x + 1] - 1 /\ f[x + 1] \in Int
            /\ y + 1 \in Marks(v) /\ g[y] = f[y + 1] - 1 /\ f[y + 1] \in Int
        BY <1>4, <2>5
      <3>2. x + 1 < y + 1
        BY <2>1
      <3>3. f[x + 1] < f[y + 1]
        BY <1>2, <3>1, <3>2
      <3> HIDE DEF g
      <3> QED
        BY <2>1, <3>1, <3>3
    <2> QED
      BY <2>2, <2>3, <2>4, <2>5
  <1> HIDE DEF g
  <1>8. /\ Cardinality(B) = Cardinality(A)
        /\ \A k \in 1 .. Cardinality(A) : InOrder(B)[k] = g[InOrder(A)[k]]
    <2>1. KeepsOrder(A, B, g)
      BY <1>5, <1>6, <1>7 DEF KeepsOrder
    <2>2. A \subseteq Int /\ B \subseteq Int /\ IsFiniteSet(A)
      BY <1>1, <1>3
    <2>3. Cardinality(B) = Cardinality(A) /\ SamePlaces(A, B, g)
      BY ONLY <2>1, <2>2, SameOrder
    <2> QED
      BY <2>3 DEF SamePlaces
  <1>9. /\ Len(Normalise(v)) = Cardinality(A) /\ Len(Normalise(w)) = Cardinality(B)
        /\ \A k \in 1 .. Cardinality(A) : Normalise(v)[k] = Fold[v[InOrder(A)[k]]]
        /\ \A k \in 1 .. Cardinality(B) : Normalise(w)[k] = Fold[w[InOrder(B)[k]]]
    BY NormaliseIs DEF IsWriting, A, B
  <1>10. ASSUME NEW k \in 1 .. Cardinality(A)
         PROVE  \/ Normalise(v)[k] = Fold[Space] /\ Normalise(w)[k] = Fold[Space]
                \/ \E i \in Marks(v) : /\ Normalise(v)[k] = Fold[v[i]]
                                       /\ Normalise(w)[k] = Fold[w[f[i]]]
    <2> DEFINE x == InOrder(A)[k]
    <2>1. x \in A
      BY <1>1, <1>3, InOrderIs
    <2>2. Normalise(v)[k] = Fold[v[x]] /\ Normalise(w)[k] = Fold[w[g[x]]]
      BY <1>8, <1>9
    <2> HIDE DEF x
    <2>3. CASE x \in Marks(v)
      <3>1. g[x] = f[x]
        BY <2>1, <2>3 DEF g
      <3> QED
        BY <2>2, <2>3, <3>1
    <2>4. CASE x \notin Marks(v)
      <3>1. g[x] = f[x + 1] - 1
        BY <2>1, <2>4 DEF g
      <3>2. g[x] \in B /\ g[x] \notin Marks(w)
        BY <1>4, <2>1, <2>4, <3>1
      <3>3. v[x] = Space
        BY <1>1, <2>1, <2>4 DEF Marks, IsWriting
      <3>4. w[g[x]] = Space
        BY <1>1, <3>2 DEF Marks, IsWriting
      <3> QED
        BY <2>2, <3>3, <3>4
    <2> QED
      BY <2>3, <2>4
  <1> QED
    BY <1>8, <1>9, <1>10

(* What is part of a text is part of any that differs from it only in a    *)
(* character that the part does not have.                                  *)
LEMMA PartCarries ==
    ASSUME NEW part, Len(part) \in Nat, NEW v, NEW w, Len(v) \in Nat, Len(w) = Len(v), NEW other,
           \A k \in 1 .. Len(part) : part[k] # other,
           \A k \in 1 .. Len(v) : v[k] = w[k] \/ v[k] = other,
           IsPartOf(part, v)
    PROVE  IsPartOf(part, w)
  <1>1. PICK i \in 0 .. Len(v) - Len(part) : \A k \in 1 .. Len(part) : v[i + k] = part[k]
    BY DEF IsPartOf
  <1>2. ASSUME NEW k \in 1 .. Len(part)
        PROVE  w[i + k] = part[k]
    <2>1. PICK x \in Int : x = i + k
      OBVIOUS
    <2>2. x \in 1 .. Len(v) /\ v[x] = part[k]
      BY <1>1, <2>1
    <2> QED
      BY <2>1, <2>2
  <1> QED
    BY <1>2 DEF IsPartOf

(* Where a writing has the characters of a line, its words have those of   *)
(* the line's words.                                                       *)
Alike(c, d) == (c = Space <=> d = Space) /\ Fold[c] = Fold[d]

HasLine(w, line, at) == \A k \in 1 .. Len(line) : Alike(w[at + k], line[k])

LEMMA SegmentKeeps ==
    ASSUME NEW line, NEW m, IsWriting(line, m), m # 0, line[1] # Space, line[m] # Space,
           NEW w, NEW n, IsWriting(w, n), NEW at \in Nat, at + m <= n, HasLine(w, line, at)
    PROVE  \A k \in 1 .. m : k \in Kept(line) <=> at + k \in Kept(w)
  <1>1. m \in Nat \ {0} /\ n \in Nat /\ DOMAIN line = 1 .. m /\ DOMAIN w = 1 .. n /\ Len(line) = m
    BY DEF IsWriting
  <1>2. /\ \A i \in Int : i \in Kept(line) <=>
                \/ i \in Marks(line)
                \/ i \notin Marks(line) /\ i + 1 \in Marks(line) /\ \E j \in Marks(line) : j < i
        /\ \A i \in Int : i \in Kept(w) <=>
                \/ i \in Marks(w)
                \/ i \notin Marks(w) /\ i + 1 \in Marks(w) /\ \E j \in Marks(w) : j < i
    BY KeptAre
  <1>3. \A k \in 1 .. m : k \in Marks(line) <=> at + k \in Marks(w)
    <2> TAKE k \in 1 .. m
    <2>1. PICK x \in Int : x = at + k
      OBVIOUS
    <2>2. x \in 1 .. n
      BY <1>1, <2>1
    <2>3. w[x] = Space <=> line[k] = Space
      BY <1>1, <2>1 DEF HasLine, Alike
    <2> QED
      BY <1>1, <2>1, <2>2, <2>3 DEF Marks
  <1>4. ASSUME NEW k \in 1 .. m
        PROVE  k \in Kept(line) <=> at + k \in Kept(w)
    <2>1. PICK x \in Int : x = at + k
      OBVIOUS
    <2>2. CASE k \in Marks(line)
      BY <1>2, <1>3, <2>1, <2>2
    <2>3. CASE k \notin Marks(line)
      <3>1. 1 \in Marks(line) /\ m \in Marks(line)
        BY <1>1 DEF Marks
      <3>2. k # 1 /\ k # m
        BY <2>3, <3>1
      <3>3. 1 < k /\ k + 1 \in 1 .. m /\ k \in Int
        BY <1>1, <3>2
      <3>4. at + 1 \in Marks(w)
        BY <1>1, <1>3, <3>1
      <3>5. at + 1 < x /\ x + 1 = at + (k + 1)
        BY <1>1, <2>1, <3>3
      <3>6. k + 1 \in Marks(line) <=> x + 1 \in Marks(w)
        BY <1>3, <3>3, <3>5
      <3>7. x \notin Marks(w)
        BY <1>3, <2>1, <2>3
      <3>8. k \in Kept(line) <=> k + 1 \in Marks(line)
        BY <1>2, <2>3, <3>1, <3>3
      <3>9. x \in Kept(w) <=> x + 1 \in Marks(w)
        BY <1>2, <3>4, <3>5, <3>7
      <3> QED
        BY <2>1, <3>6, <3>8, <3>9
    <2> QED
      BY <2>2, <2>3
  <1> QED
    BY <1>4

IsOffset(A, B, m, at) == \A k \in 1 .. m : k \in A <=> at + k \in B

LEMMA BeforeInSegment ==
    ASSUME NEW A, A \subseteq Int, IsFiniteSet(A), NEW B, B \subseteq Int, IsFiniteSet(B),
           NEW m \in Nat, NEW at \in Nat, A \subseteq 1 .. m,
           IsOffset(A, B, m, at), NEW x \in A
    PROVE  Before(B, at + x) = Before(B, at + 1) + Before(A, x)
  <1> DEFINE P == {y \in A : y < x}
             Q == {at + y : y \in P}
             R == {y \in B : y < at + 1}
             S == {y \in B : y < at + x}
             f == [y \in P |-> at + y]
  <1>1. /\ x \in 1 .. m /\ x \in Int /\ at \in Int
        /\ \A k \in 1 .. m : k \in A <=> at + k \in B
    BY DEF IsOffset
  <1>2. IsFiniteSet(P) /\ IsFiniteSet(R)
    BY FS_Subset
  <1>3. f \in Bijection(P, Q)
    <2>1. \A y, z \in P : f[y] = f[z] => y = z
      <3> SUFFICES ASSUME NEW y \in P, NEW z \in P, at + y = at + z PROVE y = z
        OBVIOUS
      <3>1. y \in Int /\ z \in Int
        OBVIOUS
      <3> QED
        BY <3>1
    <2>2. f \in [P -> Q] /\ \A z \in Q : \E y \in P : f[y] = z
      OBVIOUS
    <2> HIDE DEF P, Q, f
    <2> QED
      BY <2>1, <2>2 DEF Bijection, Injection, Surjection, IsInjective
  <1>4. IsFiniteSet(Q) /\ Cardinality(Q) = Cardinality(P)
    <2> HIDE DEF P, Q, f
    <2> QED
      BY <1>2, <1>3, FS_Bijection DEF ExistsBijection
  <1>5. S = R \cup Q
    <2>1. ASSUME NEW y \in S
          PROVE  y \in R \cup Q
      <3>1. y \in Int /\ y < at + x
        OBVIOUS
      <3>2. CASE y < at + 1
        BY <3>2
      <3>3. CASE ~(y < at + 1)
        <4>1. PICK k \in Int : k = y - at
          BY <3>1
        <4>2. k \in 1 .. m /\ k < x /\ y = at + k
          BY <1>1, <3>1, <3>3, <4>1
        <4>3. k \in A
          BY <1>1, <4>2
        <4>4. k \in P
          BY <4>2, <4>3
        <4> QED
          BY <4>2, <4>4
      <3> QED
        BY <3>2, <3>3
    <2>2. ASSUME NEW y \in R
          PROVE  y \in S
      <3>1. y \in Int
        OBVIOUS
      <3> QED
        BY <1>1, <3>1
    <2>3. ASSUME NEW k \in P
          PROVE  at + k \in S
      <3>1. k \in 1 .. m /\ k < x
        OBVIOUS
      <3> QED
        BY <1>1, <3>1
    <2> QED
      BY <2>1, <2>2, <2>3
  <1>6. R \cap Q = {}
    <2> SUFFICES ASSUME NEW k \in P, at + k < at + 1 PROVE FALSE
      OBVIOUS
    <2>1. k \in 1 .. m
      OBVIOUS
    <2> QED
      BY <2>1
  <1> HIDE DEF P, Q, R, S
  <1>7. Cardinality(R \cap Q) = 0
    BY <1>6, FS_EmptySet
  <1>8. Cardinality(R) \in Nat /\ Cardinality(Q) \in Nat
    BY <1>2, <1>4, FS_CardinalityType
  <1>9. Cardinality(R \cup Q) = Cardinality(R) + Cardinality(Q) - Cardinality(R \cap Q)
    BY <1>2, <1>4, FS_Union
  <1>10. Cardinality(S) = Cardinality(R) + Cardinality(P)
    BY <1>4, <1>5, <1>7, <1>8, <1>9
  <1> QED
    BY <1>10 DEF Before, P, R, S

LEMMA LineIsPart ==
    ASSUME NEW line, NEW m, IsWriting(line, m), m # 0, line[1] # Space, line[m] # Space,
           NEW w, NEW n, IsWriting(w, n), NEW at \in Nat, at + m <= n, HasLine(w, line, at)
    PROVE  IsPartOf(Normalise(line), Normalise(w))
  <1> DEFINE A == Kept(line)
             B == Kept(w)
             r == Before(B, at + 1)
  <1>1. m \in Nat \ {0} /\ DOMAIN line = 1 .. m /\ Len(line) = m
    BY DEF IsWriting
  <1>2. /\ A \subseteq 1 .. m /\ A \subseteq Int /\ IsFiniteSet(A) /\ Cardinality(A) \in Nat
        /\ B \subseteq Int /\ IsFiniteSet(B) /\ Cardinality(B) \in Nat
    BY KeptAre
  <1>3. \A k \in 1 .. m : k \in A <=> at + k \in B
    BY SegmentKeeps
  <1>4. /\ Len(Normalise(line)) = Cardinality(A) /\ Len(Normalise(w)) = Cardinality(B)
        /\ \A k \in 1 .. Cardinality(A) : Normalise(line)[k] = Fold[line[InOrder(A)[k]]]
        /\ \A k \in 1 .. Cardinality(B) : Normalise(w)[k] = Fold[w[InOrder(B)[k]]]
    BY NormaliseIs DEF IsWriting
  <1>5. 1 \in A
    BY <1>1 DEF Kept
  <1> HIDE DEF A, B
  <1>6. /\ \A k \in 1 .. Cardinality(A) : InOrder(A)[k] \in A /\ Before(A, InOrder(A)[k]) = k - 1
        /\ \A x \in A : Before(A, x) + 1 \in 1 .. Cardinality(A)
    BY <1>2, InOrderIs
  <1>7. \A x \in B : Before(B, x) + 1 \in 1 .. Cardinality(B) /\ InOrder(B)[Before(B, x) + 1] = x
    BY <1>2, InOrderIs
  <1>8. r \in Nat
    <2>1. at + 1 \in B
      BY <1>1, <1>3, <1>5
    <2> QED
      <3>1. Before(B, at + 1) \in 0 .. Cardinality(B) - 1
        BY <1>2, <2>1, BeforeRises
      <3> QED
        BY <1>2, <3>1
  <1> HIDE DEF r
  <1>9. ASSUME NEW k \in 1 .. Cardinality(A)
        PROVE  r + k \in 1 .. Cardinality(B) /\ Normalise(w)[r + k] = Normalise(line)[k]
    <2>1. PICK x \in A : x = InOrder(A)[k] /\ Before(A, x) = k - 1
      BY <1>6
    <2>2. x \in 1 .. m
      BY <1>2
    <2>3. Before(B, at + x) = r + Before(A, x)
      <3>1. A \subseteq Int /\ IsFiniteSet(A) /\ B \subseteq Int /\ IsFiniteSet(B)
            /\ m \in Nat /\ at \in Nat /\ A \subseteq 1 .. m
        BY <1>1, <1>2
      <3>2. IsOffset(A, B, m, at)
        BY <1>3 DEF IsOffset
      <3> QED
        BY ONLY <2>1, <3>1, <3>2, BeforeInSegment DEF r
    <2>4. PICK y \in B : y = at + x
      BY <1>3, <2>2
    <2>5. Before(B, y) + 1 = r + k
      BY <1>2, <1>8, <2>1, <2>3, <2>4
    <2>6. r + k \in 1 .. Cardinality(B) /\ InOrder(B)[r + k] = y
      BY <1>7, <2>5
    <2>7. Fold[w[y]] = Fold[line[x]]
      BY <1>1, <2>2, <2>4 DEF HasLine, Alike
    <2>8. Normalise(line)[k] = Fold[line[x]] /\ Normalise(w)[r + k] = Fold[w[y]]
      BY <1>4, <2>1, <2>6
    <2> QED
      BY <2>6, <2>7, <2>8
  <1>10. r \in 0 .. Cardinality(B) - Cardinality(A)
    <2>1. Cardinality(A) \in 1 .. Cardinality(A)
      BY <1>2, <1>5, <1>6
    <2>2. r + Cardinality(A) \in 1 .. Cardinality(B)
      BY <1>9, <2>1
    <2> QED
      BY <1>2, <1>8, <2>2
  <1> QED
    BY <1>4, <1>9, <1>10 DEF IsPartOf

-----------------------------------------------------------------------------
(* Rows *)

(* Place k of row i, of rows that have a blank at their end. *)
Place(columns, i, k) == (i - 1) * (columns + 1) + k

LEMMA RowAndColumn ==
    ASSUME NEW L \in Nat \ {0}, NEW n \in Nat, NEW k \in 1 .. n * L
    PROVE  \E y \in 1 .. n, i \in 1 .. L : k = (y - 1) * L + i
  <1>1. k \in Int /\ k >= 1 /\ k <= n * L /\ n * L \in Int
    OBVIOUS
  <1>2. \A x \in Int : x = (x \div L) * L + (x % L) /\ x \div L \in Int /\ x % L \in 0 .. L - 1
    BY Euclid
  <1>3. PICK q \in Int, r \in 0 .. L - 1 : k - 1 = q * L + r
    <2>1. k - 1 \in Int
      OBVIOUS
    <2> QED
      BY <1>2, <2>1
  <1>4. q >= 0
    <2>1. CASE q < 0
      <3>1. (-1 - q) * L >= 0
        BY <1>3, <2>1
      <3>2. (-1 - q) * L = -L - q * L
        BY <1>3
      <3> QED
        BY <1>1, <1>3, <3>1, <3>2
    <2> QED
      BY <1>3, <2>1
  <1>5. q <= n - 1
    <2>1. CASE q >= n
      <3>1. (q - n) * L >= 0
        BY <1>3, <2>1
      <3>2. (q - n) * L = q * L - n * L
        BY <1>3
      <3> QED
        BY <1>1, <1>3, <3>1, <3>2
    <2> QED
      BY <1>3, <2>1
  <1>6. PICK y \in 1 .. n, i \in 1 .. L : y - 1 = q /\ i = r + 1
    <2>1. q + 1 \in 1 .. n /\ r + 1 \in 1 .. L /\ (q + 1) - 1 = q
      BY <1>3, <1>4, <1>5
    <2> QED
      BY <2>1
  <1>7. k = (y - 1) * L + i
    <2>1. q * L \in Int
      BY <1>3
    <2> QED
      BY <1>1, <1>3, <1>6, <2>1
  <1> QED
    BY <1>7

LEMMA PlaceInRows ==
    ASSUME NEW L \in Nat \ {0}, NEW n \in Nat, NEW y \in 1 .. n, NEW i \in 1 .. L
    PROVE  /\ (y - 1) * L + i \in 1 .. n * L
           /\ ((y - 1) * L + i - 1) \div L = y - 1 /\ ((y - 1) * L + i - 1) % L = i - 1
  <1>1. (y - 1) * L >= 0 /\ (y - 1) * L + L <= n * L /\ (y - 1) * L \in Int /\ n * L \in Int
    <2>1. (n - y) * L >= 0 /\ (y - 1) * L >= 0
      OBVIOUS
    <2>2. (n - y) * L = n * L - y * L /\ (y - 1) * L = y * L - L
      OBVIOUS
    <2> QED
      BY <2>1, <2>2
  <1>2. y - 1 \in Int /\ i - 1 \in 0 .. L - 1
    OBVIOUS
  <1>3. ((y - 1) * L + (i - 1)) \div L = y - 1 /\ ((y - 1) * L + (i - 1)) % L = i - 1
    BY <1>2, DivMod
  <1>4. (y - 1) * L + i - 1 = (y - 1) * L + (i - 1)
    BY <1>1
  <1> QED
    BY <1>1, <1>3, <1>4

(* Places go by rows, and in a row by columns. *)
LEMMA PlacesRise ==
    ASSUME NEW L \in Nat \ {0}, NEW y \in Int, NEW z \in Int, NEW i \in 1 .. L, NEW j \in 1 .. L
    PROVE  (y - 1) * L + i < (z - 1) * L + j <=> y < z \/ (y = z /\ i < j)
  <1>1. (y - 1) * L = y * L - L /\ (z - 1) * L = z * L - L /\ y * L \in Int /\ z * L \in Int
    OBVIOUS
  <1>2. CASE y < z
    <2>1. (z - y) * L >= L /\ (z - y) * L = z * L - y * L
      BY <1>2
    <2> QED
      BY <1>1, <1>2, <2>1
  <1>3. CASE z < y
    <2>1. (y - z) * L >= L /\ (y - z) * L = y * L - z * L
      BY <1>3
    <2> QED
      BY <1>1, <1>3, <2>1
  <1>4. CASE y = z
    BY <1>1, <1>4
  <1> QED
    BY <1>2, <1>3, <1>4

(* Rows put together: each character in its place. *)
HasRows(w, rows, columns, char) ==
    \A i \in 1 .. rows, k \in 1 .. columns + 1 :
        /\ Place(columns, i, k) \in 1 .. rows * (columns + 1)
        /\ w[Place(columns, i, k)] = IF k > columns THEN Space ELSE char[<<i, k>>]

LEMMA InRowsIs ==
    ASSUME NEW rows \in Nat, NEW columns \in Nat, NEW char
    PROVE  /\ IsWriting(InRows(rows, columns, char), rows * (columns + 1))
           /\ \A n \in 1 .. rows * (columns + 1) :
                \E i \in 1 .. rows, k \in 1 .. columns + 1 : n = Place(columns, i, k)
           /\ HasRows(InRows(rows, columns, char), rows, columns, char)
  <1> DEFINE L == columns + 1
             N == rows * L
             T == InRows(rows, columns, char)
             Row(n) == ((n - 1) \div L) + 1
             Column(n) == ((n - 1) % L) + 1
  <1>1. L \in Nat \ {0} /\ N \in Nat
    OBVIOUS
  <1>2. T = [n \in 1 .. N |-> IF Column(n) > columns THEN Space ELSE char[<<Row(n), Column(n)>>]]
    BY DEF InRows
  <1> HIDE DEF T, N, L
  <1>3. IsWriting(T, N)
    <2> DEFINE F(n) == IF Column(n) > columns THEN Space ELSE char[<<Row(n), Column(n)>>]
    <2>1. T = [n \in 1 .. N |-> F(n)]
      BY <1>2
    <2> HIDE DEF F
    <2>2. DOMAIN T = 1 .. N
      BY <2>1
    <2>3. Len(T) = N
      BY <1>1, <2>1
    <2> QED
      BY <1>1, <2>2, <2>3 DEF IsWriting
  <1>4. ASSUME NEW n \in 1 .. N
        PROVE  \E i \in 1 .. rows, k \in 1 .. L : n = Place(columns, i, k)
    BY <1>1, RowAndColumn DEF N, Place, L
  <1>5. ASSUME NEW i \in 1 .. rows, NEW k \in 1 .. L
        PROVE  /\ Place(columns, i, k) \in 1 .. N
               /\ T[Place(columns, i, k)] = IF k > columns THEN Space ELSE char[<<i, k>>]
    <2>1. PICK p \in Int : p = (i - 1) * L + k
      BY <1>1
    <2>2. p = Place(columns, i, k)
      BY <2>1 DEF Place, L
    <2>3. p \in 1 .. N /\ (p - 1) \div L = i - 1 /\ (p - 1) % L = k - 1
      BY <1>1, <2>1, PlaceInRows DEF N
    <2>4. Row(p) = i /\ Column(p) = k
      <3>1. (i - 1) + 1 = i /\ (k - 1) + 1 = k
        BY <1>1
      <3> QED
        BY <2>3, <3>1
    <2> HIDE DEF Row, Column
    <2>5. T[p] = IF k > columns THEN Space ELSE char[<<i, k>>]
      BY <1>2, <2>3, <2>4
    <2> QED
      BY <2>2, <2>3, <2>5
  <1> QED
    BY <1>3, <1>4, <1>5 DEF T, N, L, HasRows

PlacesInOrder(c, i, k, j, l) ==
    Place(c, i, k) < Place(c, j, l) <=> i < j \/ (i = j /\ k < l)

LEMMA PlaceOrder ==
    ASSUME NEW c \in Nat, NEW i \in Int, NEW j \in Int, NEW k \in 1 .. c + 1, NEW l \in 1 .. c + 1
    PROVE  /\ PlacesInOrder(c, i, k, j, l)
           /\ Place(c, i, k) = Place(c, j, l) => i = j /\ k = l
           /\ Place(c, i, k) \in Int
  <1>1. PICK L \in Nat \ {0} : L = c + 1
    OBVIOUS
  <1>2. k \in 1 .. L /\ l \in 1 .. L /\ k \in Int /\ l \in Int
    BY <1>1
  <1>3. (i - 1) * L + k < (j - 1) * L + l <=> i < j \/ (i = j /\ k < l)
    BY <1>2, PlacesRise
  <1>4. (j - 1) * L + l < (i - 1) * L + k <=> j < i \/ (j = i /\ l < k)
    BY <1>2, PlacesRise
  <1>5. (i - 1) * L + k \in Int /\ (j - 1) * L + l \in Int
    BY <1>1, <1>2
  <1>6. Place(c, i, k) = (i - 1) * L + k /\ Place(c, j, l) = (j - 1) * L + l
    BY <1>1 DEF Place
  <1>7. PICK p \in Int, q \in Int : p = (i - 1) * L + k /\ q = (j - 1) * L + l
    BY <1>5
  <1>8. PlacesInOrder(c, i, k, j, l)
    BY <1>3, <1>6 DEF PlacesInOrder
  <1>9. p = q => i = j /\ k = l
    <2>1. /\ p < q <=> i < j \/ (i = j /\ k < l)
          /\ q < p <=> j < i \/ (j = i /\ l < k)
      BY ONLY <1>3, <1>4, <1>7
    <2> QED
      BY <1>2, <2>1
  <1> QED
    BY <1>5, <1>6, <1>7, <1>8, <1>9

(* The characters of rows that are put together, and which of them have a  *)
(* character before them.                                                  *)
IsMark(rows, columns, char, i, k) ==
    i \in 1 .. rows /\ k \in 1 .. columns /\ char[<<i, k>>] # Space

LEMMA MarksAre ==
    ASSUME NEW rows \in Nat, NEW columns \in Nat, NEW char
    PROVE  LET w == InRows(rows, columns, char)
           IN  /\ \A n : n \in Marks(w) <=> \E i, k \in Int : IsMark(rows, columns, char, i, k)
                                                              /\ n = Place(columns, i, k)
               /\ \A i, k \in Int : IsMark(rows, columns, char, i, k) =>
                    /\ w[Place(columns, i, k)] = char[<<i, k>>]
                    /\ Place(columns, i, k) - 1 \in Marks(w) <=> IsMark(rows, columns, char, i, k - 1)
  <1> DEFINE w == InRows(rows, columns, char)
             N == rows * (columns + 1)
             P(i, k) == Place(columns, i, k)
             M(i, k) == IsMark(rows, columns, char, i, k)
  <1>1. /\ DOMAIN w = 1 .. N
        /\ \A n \in 1 .. N : \E i \in 1 .. rows, k \in 1 .. columns + 1 : n = P(i, k)
        /\ \A i \in 1 .. rows, k \in 1 .. columns + 1 :
                P(i, k) \in 1 .. N /\ w[P(i, k)] = IF k > columns THEN Space ELSE char[<<i, k>>]
    <2>1. IsWriting(w, N)
      BY InRowsIs
    <2>2. \A n \in 1 .. N : \E i \in 1 .. rows, k \in 1 .. columns + 1 : n = P(i, k)
      BY InRowsIs
    <2>3. \A i \in 1 .. rows, k \in 1 .. columns + 1 :
                P(i, k) \in 1 .. N /\ w[P(i, k)] = IF k > columns THEN Space ELSE char[<<i, k>>]
      <3>1. HasRows(w, rows, columns, char)
        BY InRowsIs
      <3> QED
        BY <3>1 DEF HasRows
    <2> HIDE DEF w, N, P
    <2> QED
      BY <2>1, <2>2, <2>3 DEF IsWriting
  <1>2. \A i, j \in Int : \A k, l \in 1 .. columns + 1 : P(i, k) = P(j, l) => i = j /\ k = l
    BY PlaceOrder
  <1> HIDE DEF w, N, P
  <1>3. \A i, k \in Int : M(i, k) => P(i, k) \in Marks(w) /\ w[P(i, k)] = char[<<i, k>>]
    <2> SUFFICES ASSUME NEW i \in Int, NEW k \in Int, M(i, k)
                 PROVE  P(i, k) \in Marks(w) /\ w[P(i, k)] = char[<<i, k>>]
      OBVIOUS
    <2>1. i \in 1 .. rows /\ k \in 1 .. columns + 1 /\ ~(k > columns) /\ char[<<i, k>>] # Space
      BY DEF IsMark
    <2>2. P(i, k) \in 1 .. N /\ w[P(i, k)] = char[<<i, k>>]
      BY <1>1, <2>1
    <2> QED
      BY <1>1, <2>1, <2>2 DEF Marks
  <1>4. \A n \in Marks(w) : \E i, k \in Int : M(i, k) /\ n = P(i, k)
    <2> TAKE n \in Marks(w)
    <2>1. n \in 1 .. N /\ w[n] # Space
      BY <1>1 DEF Marks
    <2>2. PICK i \in 1 .. rows, k \in 1 .. columns + 1 : n = P(i, k)
      BY <1>1, <2>1
    <2>3. ~(k > columns) /\ char[<<i, k>>] # Space
      BY <1>1, <2>1, <2>2
    <2>4. M(i, k) /\ i \in Int /\ k \in Int
      BY <2>3 DEF IsMark
    <2> QED
      BY <2>2, <2>4
  <1>5. ASSUME NEW i \in Int, NEW k \in Int, M(i, k)
        PROVE  P(i, k) - 1 \in Marks(w) <=> M(i, k - 1)
    <2>0. \A j, l \in Int : P(j, l) \in Int /\ P(j, l) + 1 = P(j, l + 1)
      <3> TAKE j, l \in Int
      <3>1. (j - 1) * (columns + 1) \in Int
        OBVIOUS
      <3>2. P(j, l) = (j - 1) * (columns + 1) + l /\ P(j, l + 1) = (j - 1) * (columns + 1) + (l + 1)
        BY DEF P, Place
      <3> QED
        BY <3>1, <3>2
    <2>1. k \in 1 .. columns
      BY <1>5 DEF IsMark
    <2>2. ASSUME P(i, k) - 1 \in Marks(w)
          PROVE  M(i, k - 1)
      <3>1. PICK j \in Int, l \in Int : M(j, l) /\ P(i, k) - 1 = P(j, l)
        BY <1>4, <2>2
      <3>2. P(j, l + 1) = P(i, k)
        <4>1. P(j, l) \in Int /\ P(i, k) \in Int /\ P(j, l) + 1 = P(j, l + 1)
          BY <2>0
        <4> QED
          BY <3>1, <4>1
      <3>3. l + 1 \in 1 .. columns + 1 /\ k \in 1 .. columns + 1
        BY <2>1, <3>1 DEF IsMark
      <3>4. j = i /\ l + 1 = k
        BY <1>2, <3>2, <3>3
      <3>5. l = k - 1
        BY <3>4
      <3> QED
        BY <3>1, <3>4, <3>5
    <2>3. ASSUME M(i, k - 1)
          PROVE  P(i, k) - 1 \in Marks(w)
      <3>1. PICK l \in Int : l = k - 1
        OBVIOUS
      <3>2. P(i, l) \in Int /\ P(i, l) + 1 = P(i, l + 1) /\ l + 1 = k
        BY <2>0, <3>1
      <3>3. P(i, k) - 1 = P(i, l)
        BY <3>2
      <3> QED
        BY <1>3, <2>3, <3>1, <3>3
    <2> QED
      BY <2>2, <2>3
  <1> HIDE DEF M
  <1>6. \A n : n \in Marks(w) <=> \E i, k \in Int : M(i, k) /\ n = P(i, k)
    BY <1>3, <1>4
  <1>7. \A i, k \in Int : M(i, k) =>
            w[P(i, k)] = char[<<i, k>>] /\ (P(i, k) - 1 \in Marks(w) <=> M(i, k - 1))
    BY <1>3, <1>5
  <1> QED
    BY <1>6, <1>7 DEF w, P, M

(* The same characters, moved as a whole. *)
AreMoved(r, c, char, s, d, other, y, x) ==
    /\ \A i, k \in Int : IsMark(r, c, char, i, k) => IsMark(s, d, other, i + y, k + x)
    /\ \A i, k \in Int : IsMark(s, d, other, i, k) => IsMark(r, c, char, i - y, k - x)

(* Then they are the same words, character by character. *)
MeanTheSame(r, c, char, s, d, other, y, x) ==
    LET v == InRows(r, c, char)
        w == InRows(s, d, other)
    IN  /\ Len(Normalise(v)) \in Nat /\ Len(Normalise(v)) = Len(Normalise(w))
        /\ \A n \in 1 .. Len(Normalise(v)) :
            \/ Normalise(v)[n] = Fold[Space] /\ Normalise(w)[n] = Fold[Space]
            \/ \E i, k \in Int : /\ IsMark(r, c, char, i, k)
                                 /\ Normalise(v)[n] = Fold[char[<<i, k>>]]
                                 /\ Normalise(w)[n] = Fold[other[<<i + y, k + x>>]]

LEMMA MovedRows ==
    ASSUME NEW r \in Nat, NEW c \in Nat, NEW char, NEW s \in Nat, NEW d \in Nat, NEW other,
           NEW y \in Int, NEW x \in Int, AreMoved(r, c, char, s, d, other, y, x)
    PROVE  MeanTheSame(r, c, char, s, d, other, y, x)
  <1> DEFINE v == InRows(r, c, char)
             w == InRows(s, d, other)
             M(i, k) == IsMark(r, c, char, i, k)
             O(i, k) == IsMark(s, d, other, i, k)
             P(i, k) == Place(c, i, k)
             Q(i, k) == Place(d, i, k)
             IsOn(n, q) == M(q[1], q[2]) /\ n = P(q[1], q[2])
             where == [n \in Marks(v) |-> CHOOSE q \in Int \X Int : IsOn(n, q)]
             f == [n \in Marks(v) |-> Q(where[n][1] + y, where[n][2] + x)]
  <1>1. /\ \A n : n \in Marks(v) <=> \E i, k \in Int : M(i, k) /\ n = P(i, k)
        /\ \A i, k \in Int : M(i, k) =>
            v[P(i, k)] = char[<<i, k>>] /\ (P(i, k) - 1 \in Marks(v) <=> M(i, k - 1))
    BY MarksAre
  <1>2. /\ \A n : n \in Marks(w) <=> \E i, k \in Int : O(i, k) /\ n = Q(i, k)
        /\ \A i, k \in Int : O(i, k) =>
            w[Q(i, k)] = other[<<i, k>>] /\ (Q(i, k) - 1 \in Marks(w) <=> O(i, k - 1))
    BY MarksAre
  <1>3. /\ \A i, k \in Int : M(i, k) => O(i + y, k + x)
        /\ \A i, k \in Int : O(i, k) => M(i - y, k - x)
    BY DEF AreMoved
  <1>4. \A i, j, k, l \in Int : M(i, k) /\ M(j, l) =>
            /\ P(i, k) < P(j, l) <=> i < j \/ (i = j /\ k < l)
            /\ P(i, k) = P(j, l) => i = j /\ k = l
    <2> TAKE i, j, k, l \in Int
    <2> SUFFICES ASSUME M(i, k), M(j, l)
                 PROVE  /\ P(i, k) < P(j, l) <=> i < j \/ (i = j /\ k < l)
                        /\ P(i, k) = P(j, l) => i = j /\ k = l
      OBVIOUS
    <2>1. k \in 1 .. c + 1 /\ l \in 1 .. c + 1
      BY DEF IsMark
    <2> QED
      BY <2>1, PlaceOrder DEF PlacesInOrder
  <1>5. \A i, j, k, l \in Int : O(i, k) /\ O(j, l) =>
            (Q(i, k) < Q(j, l) <=> i < j \/ (i = j /\ k < l))
    <2> TAKE i, j, k, l \in Int
    <2> SUFFICES ASSUME O(i, k), O(j, l)
                 PROVE  Q(i, k) < Q(j, l) <=> i < j \/ (i = j /\ k < l)
      OBVIOUS
    <2>1. k \in 1 .. d + 1 /\ l \in 1 .. d + 1
      BY DEF IsMark
    <2> QED
      BY <2>1, PlaceOrder DEF PlacesInOrder
  <1> HIDE DEF v, w, M, O, P, Q
  <1>6. \A i, k \in Int : M(i, k) => P(i, k) \in Marks(v) /\ f[P(i, k)] = Q(i + y, k + x)
    <2> TAKE i, k \in Int
    <2> SUFFICES ASSUME M(i, k) PROVE P(i, k) \in Marks(v) /\ f[P(i, k)] = Q(i + y, k + x)
      OBVIOUS
    <2>1. PICK n : n = P(i, k)
      OBVIOUS
    <2>2. n \in Marks(v)
      BY <1>1, <2>1
    <2>3. IsOn(n, <<i, k>>)
      BY <2>1
    <2>4. PICK q \in Int \X Int : q = where[n] /\ IsOn(n, q)
      <3> HIDE DEF IsOn
      <3>1. where[n] = CHOOSE q \in Int \X Int : IsOn(n, q)
        BY <2>2
      <3>2. <<i, k>> \in Int \X Int
        OBVIOUS
      <3>3. where[n] \in Int \X Int /\ IsOn(n, where[n])
        BY <2>3, <3>1, <3>2
      <3> QED
        BY <3>3
    <2>5. q[1] = i /\ q[2] = k
      <3>1. PICK j \in Int, l \in Int : q[1] = j /\ q[2] = l
        BY ONLY q \in Int \X Int
      <3>2. M(j, l) /\ P(j, l) = P(i, k)
        BY <2>1, <2>4, <3>1
      <3>3. j = i /\ l = k
        BY <1>4, <3>2
      <3> QED
        BY <3>1, <3>3
    <2> HIDE DEF where
    <2>6. f[n] = Q(i + y, k + x)
      BY <2>2, <2>4, <2>5
    <2> QED
      BY <2>1, <2>2, <2>6
  <1>7. DOMAIN f = Marks(v) /\ f = [n \in Marks(v) |-> f[n]]
    OBVIOUS
  <1> HIDE DEF f
  <1>8. AreSameWords(v, w, f)
    <2>1. \A n \in Marks(v) : f[n] \in Marks(w)
      <3> TAKE n \in Marks(v)
      <3>1. PICK i \in Int, k \in Int : M(i, k) /\ n = P(i, k)
        BY <1>1
      <3>2. PICK j \in Int, l \in Int : j = i + y /\ l = k + x
        OBVIOUS
      <3>3. O(j, l) /\ f[n] = Q(j, l)
        BY <1>3, <1>6, <3>1, <3>2
      <3> QED
        BY <1>2, <3>3
    <2>2. \A o \in Marks(w) : \E n \in Marks(v) : f[n] = o
      <3> TAKE o \in Marks(w)
      <3>1. PICK i \in Int, k \in Int : O(i, k) /\ o = Q(i, k)
        BY <1>2
      <3>2. PICK j \in Int, l \in Int : j = i - y /\ l = k - x
        OBVIOUS
      <3>3. M(j, l) /\ j + y = i /\ l + x = k
        BY <1>3, <3>1, <3>2
      <3>4. P(j, l) \in Marks(v) /\ f[P(j, l)] = Q(i, k)
        BY <1>6, <3>3
      <3> QED
        BY <3>1, <3>4
    <2>3. \A n, o \in Marks(v) : n < o => f[n] < f[o]
      <3> SUFFICES ASSUME NEW n \in Marks(v), NEW o \in Marks(v), n < o
                   PROVE  f[n] < f[o]
        OBVIOUS
      <3>1. PICK i \in Int, k \in Int : M(i, k) /\ n = P(i, k)
        BY <1>1
      <3>2. PICK j \in Int, l \in Int : M(j, l) /\ o = P(j, l)
        BY <1>1
      <3>3. i < j \/ (i = j /\ k < l)
        BY <1>4, <3>1, <3>2
      <3>4. PICK i1 \in Int, k1 \in Int, j1 \in Int, l1 \in Int :
                i1 = i + y /\ k1 = k + x /\ j1 = j + y /\ l1 = l + x
        OBVIOUS
      <3>5. i1 < j1 \/ (i1 = j1 /\ k1 < l1)
        BY <3>3, <3>4
      <3>6. /\ O(i1, k1) /\ O(j1, l1) /\ f[n] = Q(i1, k1) /\ f[o] = Q(j1, l1)
        BY <1>3, <1>6, <3>1, <3>2, <3>4
      <3> QED
        BY <1>5, <3>5, <3>6
    <2>4. \A n \in Marks(v) : n - 1 \in Marks(v) <=> f[n] - 1 \in Marks(w)
      <3> TAKE n \in Marks(v)
      <3>1. PICK i \in Int, k \in Int : M(i, k) /\ n = P(i, k)
        BY <1>1
      <3>2. PICK i1 \in Int, k1 \in Int : i1 = i + y /\ k1 = k + x
        OBVIOUS
      <3>3. O(i1, k1) /\ f[n] = Q(i1, k1)
        BY <1>3, <1>6, <3>1, <3>2
      <3>4. n - 1 \in Marks(v) <=> M(i, k - 1)
        BY <1>1, <3>1
      <3>5. f[n] - 1 \in Marks(w) <=> O(i1, k1 - 1)
        BY <1>2, <3>3
      <3>6. PICK k0 \in Int : k0 = k - 1
        OBVIOUS
      <3>7. k0 + x = k1 - 1 /\ (k1 - 1) - x = k0 /\ i1 - y = i /\ k1 - 1 \in Int
        BY <3>2, <3>6
      <3>8. M(i, k0) <=> O(i1, k1 - 1)
        BY <1>3, <3>2, <3>7
      <3> QED
        BY <3>4, <3>5, <3>6, <3>8
    <2>5. f \in [Marks(v) -> Marks(w)]
      BY <1>7, <2>1
    <2> QED
      BY <2>2, <2>3, <2>4, <2>5 DEF AreSameWords
  <1>9. PICK m, n : IsWriting(v, m) /\ IsWriting(w, n)
    BY InRowsIs DEF v, w
  <1>10. /\ Len(Normalise(v)) = Len(Normalise(w))
         /\ \A n1 \in 1 .. Len(Normalise(v)) :
                \/ Normalise(v)[n1] = Fold[Space] /\ Normalise(w)[n1] = Fold[Space]
                \/ \E i \in Marks(v) : /\ Normalise(v)[n1] = Fold[v[i]]
                                       /\ Normalise(w)[n1] = Fold[w[f[i]]]
    BY <1>8, <1>9, SameWords
  <1>11. Len(Normalise(v)) \in Nat
    BY <1>9, NormaliseIs DEF IsWriting
  <1>12. ASSUME NEW n1 \in 1 .. Len(Normalise(v))
         PROVE  \/ Normalise(v)[n1] = Fold[Space] /\ Normalise(w)[n1] = Fold[Space]
                \/ \E i, k \in Int : /\ M(i, k)
                                     /\ Normalise(v)[n1] = Fold[char[<<i, k>>]]
                                     /\ Normalise(w)[n1] = Fold[other[<<i + y, k + x>>]]
    <2>1. CASE \E i \in Marks(v) : /\ Normalise(v)[n1] = Fold[v[i]]
                                   /\ Normalise(w)[n1] = Fold[w[f[i]]]
      <3>1. PICK o \in Marks(v) : Normalise(v)[n1] = Fold[v[o]] /\ Normalise(w)[n1] = Fold[w[f[o]]]
        BY <2>1
      <3>2. PICK i \in Int, k \in Int : M(i, k) /\ o = P(i, k)
        BY <1>1
      <3>3. PICK i1 \in Int, k1 \in Int : i1 = i + y /\ k1 = k + x
        OBVIOUS
      <3>4. O(i1, k1) /\ f[o] = Q(i1, k1)
        BY <1>3, <1>6, <3>2, <3>3
      <3>5. v[o] = char[<<i, k>>] /\ w[f[o]] = other[<<i1, k1>>]
        BY <1>1, <1>2, <3>2, <3>4
      <3> QED
        BY <3>1, <3>2, <3>3, <3>5
    <2> QED
      BY <1>10, <2>1
  <1> QED
    BY <1>10, <1>11, <1>12 DEF MeanTheSame, v, w, M

-----------------------------------------------------------------------------
(* Reading a screen *)

(* The reading begins in the console's first cell, or in its second if the *)
(* learned grid would cut off a part of the first.                         *)
Margin(t) == IF t = 0 THEN 0 ELSE 1

StartsAt(b, c, t) == (c * b - t) % b = Margin(t) * b - t

LEMMA StartIs ==
    ASSUME NEW b \in Nat \ {0}, NEW c \in Int, NEW t \in 0 .. b - 1
    PROVE  StartsAt(b, c, t)
  <1>1. CASE t = 0
    <2>1. (c * b + 0) % b = 0
      BY DivMod
    <2>2. c * b \in Int
      OBVIOUS
    <2> QED
      BY <1>1, <2>1, <2>2 DEF StartsAt, Margin
  <1>2. CASE t # 0
    <2>1. c - 1 \in Int /\ b - t \in 0 .. b - 1
      BY <1>2
    <2>2. ((c - 1) * b + (b - t)) % b = b - t
      BY <2>1, DivMod
    <2>3. (c - 1) * b = c * b - b /\ c * b \in Int
      OBVIOUS
    <2>4. (c - 1) * b + (b - t) = c * b - t
      BY <2>3
    <2> QED
      BY <1>2, <2>2, <2>4 DEF StartsAt, Margin
  <1> QED
    BY <1>1, <1>2

(* A cell of the console that lies on the screen is read. *)
CellsRead(size, b, t) == Greatest({0, (size - (Margin(t) * b - t)) \div b})

IsRead(size, b, t, a) ==
    a * b - t >= 0 /\ a * b - t + b <= size =>
        (a + 1) - Margin(t) \in 1 .. CellsRead(size, b, t)

LEMMA ReachIs ==
    ASSUME NEW b \in Nat \ {0}, NEW size \in Int, NEW t \in 0 .. b - 1
    PROVE  CellsRead(size, b, t) \in Nat /\ \A a \in Int : IsRead(size, b, t, a)
  <1> DEFINE m == Margin(t)
             e == size - (m * b - t)
             q == e \div b
  <1>1. m \in {0, 1} /\ (m = 0 <=> t = 0)
    BY DEF Margin
  <1> HIDE DEF m
  <1>2. e \in Int /\ m * b \in Int
    BY <1>1
  <1>3. PICK r \in Int : e = q * b + r /\ r < b /\ q \in Int
    <2>1. e = (e \div b) * b + (e % b) /\ e \div b \in Int /\ e % b \in 0 .. b - 1
      <3> HIDE DEF e
      <3> QED
        BY <1>2, Euclid
    <2> HIDE DEF e
    <2> QED
      BY <2>1
  <1> HIDE DEF q
  <1>4. CellsRead(size, b, t) = IF 0 <= q THEN q ELSE 0
    BY <1>3, GreatestOfTwo DEF CellsRead, q, e, m
  <1>5. ASSUME NEW a \in Int, a * b - t >= 0, a * b - t + b <= size
        PROVE  (a + 1) - m \in 1 .. CellsRead(size, b, t)
    <2>1. a * b \in Int /\ q * b \in Int
      BY <1>3
    <2>2. a >= m
      <3>1. CASE a < 0
        <4>1. (0 - a) * b >= b /\ (0 - a) * b = -(a * b)
          BY <3>1
        <4> QED
          BY <1>5, <2>1, <4>1
      <3>2. CASE a = 0
        <4>1. a * b = 0
          BY <3>2
        <4>2. t = 0
          BY <1>5, <4>1
        <4> QED
          BY <1>1, <3>2, <4>2
      <3>3. CASE a > 0
        BY <1>1, <3>3
      <3> QED
        BY <3>1, <3>2, <3>3
    <2>3. (a - m + 1) * b = a * b - m * b + b
      BY <1>1
    <2>4. (a - m + 1) * b <= e
      BY <1>2, <1>5, <2>1, <2>3
    <2>5. a - m + 1 <= q
      <3>1. CASE a - m + 1 > q
        <4>1. PICK d \in Int : d = a - m + 1
          BY <1>1
        <4>2. (d - q) * b >= b /\ (d - q) * b = d * b - q * b /\ d * b \in Int
          BY <1>3, <3>1, <4>1
        <4> HIDE DEF e
        <4> QED
          BY <1>2, <1>3, <2>1, <2>4, <4>1, <4>2
      <3> QED
        BY <1>1, <1>3, <3>1
    <2> QED
      BY <1>1, <1>3, <1>4, <2>2, <2>5
  <1>6. CellsRead(size, b, t) \in Nat
    BY <1>3, <1>4
  <1> QED
    BY <1>5, <1>6 DEF m, IsRead

(* A calibration that has learned each of its characters as it is. *)
IsReader(c) ==
    /\ IsGrid(c.grid) /\ CutsBetweenCharacters(c.grid)
    /\ DOMAIN c.glyphs \subseteq DOMAIN Font
    /\ \A ch \in DOMAIN c.glyphs : c.glyphs[ch] = PictureOf(ch, Shift(c.grid))

(* It knows a blank and all that it has learned; other characters are      *)
(* unknown, or look like one it has learned.                               *)
LEMMA CharOfIs ==
    ASSUME ReadableFont, NEW c, IsReader(c), NEW d \in DOMAIN Font
    PROVE  LET read == CharOf(c, PictureOf(d, Shift(c.grid)))
           IN  /\ d = Space => read = Space
               /\ d # Space => read = Unknown \/ (read # Space /\ Fold[read] = Fold[d])
               /\ d # Space /\ d \in DOMAIN c.glyphs => read # Space /\ Fold[read] = Fold[d]
  <1> DEFINE S == Shift(c.grid)
             picture == PictureOf(d, S)
             read == CharOf(c, picture)
             alike == {x \in DOMAIN c.glyphs : c.glyphs[x] = picture}
  <1>1. IsShift(S)
    BY CornerIs DEF IsReader
  <1>2. IsFiniteSet(picture.ink) /\ (picture.ink = {} <=> Font[d] = {})
    <2>1. picture.ink = {<<p[1] + S[1], p[2] + S[2]>> : p \in Font[d]}
      BY DEF PictureOf
    <2>2. \A p \in Font[d] : <<p[1] + S[1], p[2] + S[2]>> \in Area(FontCell[1], FontCell[2])
      <3> TAKE p \in Font[d]
      <3>1. /\ p[1] \in 0 .. FontCell[1] - 1 /\ p[2] \in 0 .. FontCell[2] - 1
            /\ FontCell[1] \in Nat /\ FontCell[2] \in Nat
        BY FontCells
      <3>2. S[1] \in 0 .. FontCell[1] - 1 /\ S[2] \in 0 .. FontCell[2] - 1
            /\ p[1] + S[1] < FontCell[1] /\ p[2] + S[2] < FontCell[2]
        BY <1>1 DEF IsShift
      <3> HIDE DEF S
      <3>3. p[1] + S[1] \in 0 .. FontCell[1] - 1 /\ p[2] + S[2] \in 0 .. FontCell[2] - 1
        BY <3>1, <3>2
      <3> QED
        BY <3>3 DEF Area
    <2>3. IsFiniteSet(Area(FontCell[1], FontCell[2]))
      BY AreaSize, FontCells
    <2>4. picture.ink \subseteq Area(FontCell[1], FontCell[2])
      <3> HIDE DEF picture, S
      <3> QED
        BY <2>1, <2>2
    <2>5. IsFiniteSet(picture.ink)
      BY <2>3, <2>4, FS_Subset
    <2> QED
      BY <2>1, <2>5
  <1>3. Count(picture) = 0 <=> Font[d] = {}
    <2> HIDE DEF picture
    <2> QED
      BY <1>2, FS_EmptySet DEF Count
  <1>4. Font[d] = {} <=> d = Space
    BY FontCells DEF ReadableFont
  <1>5. read = IF Count(picture) = 0 THEN Space ELSE IF alike = {} THEN Unknown ELSE Least(alike)
    BY DEF CharOf
  <1>6. ASSUME NEW x \in alike
        PROVE  x \in DOMAIN Font /\ Font[x] = Font[d]
    <2>1. x \in DOMAIN Font /\ PictureOf(x, S) = picture
      BY DEF IsReader
    <2> QED
      BY <1>1, <2>1, PictureTells
  <1>7. alike # {} => Least(alike) \in alike
    <2>1. alike \subseteq Nat
      BY <1>6, FontCells
    <2> HIDE DEF alike
    <2> QED
      BY <2>1, LeastOfNumbers
  <1>8. d \in DOMAIN c.glyphs => d \in alike
    BY DEF IsReader
  <1> HIDE DEF alike, read, picture
  <1>9. CASE d = Space
    BY <1>3, <1>4, <1>5, <1>9 DEF read, picture, S
  <1>10. CASE d # Space
    <2>1. read = IF alike = {} THEN Unknown ELSE Least(alike)
      BY <1>3, <1>4, <1>5, <1>10
    <2>2. ASSUME alike # {}
          PROVE  read # Space /\ Fold[read] = Fold[d]
      <3>1. read \in DOMAIN Font /\ Font[read] = Font[d]
        BY <1>6, <1>7, <2>1, <2>2
      <3>2. Fold[read] = Fold[d]
        BY <3>1 DEF ReadableFont
      <3>3. read # Space
        BY <1>4, <1>10, <3>1, FontCells
      <3> QED
        BY <3>2, <3>3
    <2>3. read = Unknown \/ (read # Space /\ Fold[read] = Fold[d])
      BY <2>1, <2>2
    <2>4. d \in DOMAIN c.glyphs => read # Space /\ Fold[read] = Fold[d]
      BY <1>8, <2>2
    <2> QED
      BY <1>10, <2>3, <2>4 DEF read, picture, S
  <1> QED
    BY <1>9, <1>10

(* The rows, columns and characters of a reading. *)
ReadRows(c, mask) == Greatest({0, (mask.height - StartOf(c.grid)[2]) \div c.grid.cell_height})
ReadColumns(c, mask) == Greatest({0, (mask.width - StartOf(c.grid)[1]) \div c.grid.cell_width})
ReadChars(c, mask) ==
    [p \in (1 .. ReadRows(c, mask)) \X (1 .. ReadColumns(c, mask)) |->
        CharOf(c, Crop(mask, StartOf(c.grid)[1] + (p[2] - 1) * c.grid.cell_width,
                       StartOf(c.grid)[2] + (p[1] - 1) * c.grid.cell_height,
                       c.grid.cell_width, c.grid.cell_height))]

(* The console's cell that is read in a row and a column. *)
ColumnRead(grid, k) == Margin(Shift(grid)[1]) + k - 1
RowRead(grid, i) == Margin(Shift(grid)[2]) + i - 1

LEMMA ReadingIs ==
    ASSUME NEW c, IsReader(c), NEW s, IsScreen(s),
           NEW mask, mask.ink = Render(s).ink,
           mask.width = s.mode.width, mask.height = s.mode.height
    PROVE  /\ ReadScreen(c, mask)
                = InRows(ReadRows(c, mask), ReadColumns(c, mask), ReadChars(c, mask))
           /\ ReadRows(c, mask) \in Nat /\ ReadColumns(c, mask) \in Nat
           /\ \A i \in 1 .. ReadRows(c, mask), k \in 1 .. ReadColumns(c, mask) :
                NoSpeckIn(s, Shift(c.grid), ColumnRead(c.grid, k), RowRead(c.grid, i)) =>
                    ReadChars(c, mask)[<<i, k>>]
                      = CharOf(c, PictureOf(CharAt(s, ColumnRead(c.grid, k), RowRead(c.grid, i)),
                                            Shift(c.grid)))
           /\ InReach(s, c.grid) =>
                \A p \in Cells(s) :
                    /\ (s.at[2] + p[1]) - Margin(Shift(c.grid)[2]) \in 1 .. ReadRows(c, mask)
                    /\ (s.at[1] + p[2]) - Margin(Shift(c.grid)[1]) \in 1 .. ReadColumns(c, mask)
  <1> DEFINE grid == c.grid
             W == FontCell[1]
             H == FontCell[2]
             S == Shift(grid)
             C == Corner(grid)
             start == StartOf(grid)
             rows == ReadRows(c, mask)
             columns == ReadColumns(c, mask)
  <1>1. W \in Nat \ {0} /\ H \in Nat \ {0}
    BY FontCells
  <1>2. /\ grid.cell_width = W /\ grid.cell_height = H /\ IsShift(S)
        /\ C[1] \in Int /\ C[2] \in Int
        /\ grid.origin_x = C[1] * W - S[1] /\ grid.origin_y = C[2] * H - S[2]
    BY CornerIs DEF IsReader
  <1>3. S[1] \in 0 .. W - 1 /\ S[2] \in 0 .. H - 1
    BY <1>2 DEF IsShift
  <1>4. start[1] = Margin(S[1]) * W - S[1] /\ start[2] = Margin(S[2]) * H - S[2]
    <2>1. start[1] = grid.origin_x % W /\ start[2] = grid.origin_y % H
      BY <1>2 DEF StartOf
    <2>2. StartsAt(W, C[1], S[1]) /\ StartsAt(H, C[2], S[2])
      <3> HIDE DEF W, H, C, S
      <3> QED
        BY <1>1, <1>2, <1>3, StartIs
    <2> HIDE DEF start, W, H, C, S, grid
    <2> QED
      BY <1>2, <2>1, <2>2 DEF StartsAt
  <1>5. ReadScreen(c, mask) = InRows(rows, columns, ReadChars(c, mask))
    BY DEF ReadScreen, ReadRows, ReadColumns, ReadChars
  <1>6. s.mode.width \in Nat /\ s.mode.height \in Nat /\ s.at[1] \in Nat /\ s.at[2] \in Nat
    BY DEF IsScreen
  <1>7. rows = CellsRead(s.mode.height, H, S[2]) /\ columns = CellsRead(s.mode.width, W, S[1])
    BY <1>2, <1>4 DEF ReadRows, ReadColumns, CellsRead
  <1>8. rows \in Nat /\ columns \in Nat
    <2>1. PICK w \in Int, h \in Int : w = s.mode.width /\ h = s.mode.height
      BY <1>6
    <2> HIDE DEF W, H, S, rows, columns
    <2>2. CellsRead(w, W, S[1]) \in Nat /\ CellsRead(h, H, S[2]) \in Nat
      BY ONLY <1>1, <1>3, w \in Int, h \in Int, ReachIs
    <2> QED
      BY <1>7, <2>1, <2>2
  <1>9. ASSUME NEW i \in 1 .. rows, NEW k \in 1 .. columns,
               NoSpeckIn(s, S, ColumnRead(grid, k), RowRead(grid, i))
        PROVE  ReadChars(c, mask)[<<i, k>>]
                 = CharOf(c, PictureOf(CharAt(s, ColumnRead(grid, k), RowRead(grid, i)), S))
    <2>1. PICK x \in Int, y \in Int : x = ColumnRead(grid, k) /\ y = RowRead(grid, i)
      BY <1>8 DEF ColumnRead, RowRead, Margin
    <2>2. start[1] + (k - 1) * W = x * W - S[1] /\ start[2] + (i - 1) * H = y * H - S[2]
      <3>1. PICK m \in Int, n \in Int : m = Margin(S[1]) /\ n = Margin(S[2])
        BY DEF Margin
      <3>2. x = m + k - 1 /\ y = n + i - 1 /\ k \in Int /\ i \in Int
        BY <1>8, <2>1, <3>1 DEF ColumnRead, RowRead
      <3> HIDE DEF start, W, H, S
      <3>3. x * W = m * W + (k - 1) * W /\ m * W \in Int /\ (k - 1) * W \in Int
        BY <1>1, <3>2
      <3>4. y * H = n * H + (i - 1) * H /\ n * H \in Int /\ (i - 1) * H \in Int
        BY <1>1, <3>2
      <3> QED
        BY <1>3, <1>4, <3>1, <3>3, <3>4
    <2>3. ReadChars(c, mask)[<<i, k>>]
            = CharOf(c, Crop(mask, start[1] + (k - 1) * W, start[2] + (i - 1) * H, W, H))
      <3>1. <<i, k>> \in (1 .. rows) \X (1 .. columns)
        OBVIOUS
      <3> DEFINE F(p) == CharOf(c, Crop(mask, start[1] + (p[2] - 1) * W, start[2] + (p[1] - 1) * H, W, H))
      <3>2. ReadChars(c, mask) = [p \in (1 .. rows) \X (1 .. columns) |-> F(p)]
        BY <1>2 DEF ReadChars
      <3>3. ReadChars(c, mask)[<<i, k>>] = F(<<i, k>>)
        <4> HIDE DEF F, rows, columns
        <4> QED
          BY <3>1, <3>2
      <3> QED
        BY <3>3
    <2>4. Crop(mask, x * W - S[1], y * H - S[2], W, H) = PictureOf(CharAt(s, x, y), S)
      <3>1. NoSpeckIn(s, S, x, y)
        BY <1>9, <2>1
      <3> HIDE DEF S
      <3> QED
        BY <1>2, <3>1, CellShows
    <2> QED
      BY <2>1, <2>2, <2>3, <2>4
  <1>10. ASSUME InReach(s, grid), NEW p \in Cells(s)
         PROVE  /\ (s.at[2] + p[1]) - Margin(S[2]) \in 1 .. rows
                /\ (s.at[1] + p[2]) - Margin(S[1]) \in 1 .. columns
    <2>1. PICK i \in DOMAIN s.lines : \E k \in DOMAIN s.lines[i] : p = <<i, k>>
      BY PlacesAre DEF Cells
    <2>2. PICK k \in DOMAIN s.lines[i] : p = <<i, k>>
      BY <2>1
    <2>3. AreLines(s.lines)
      BY DEF IsScreen
    <2>4. i \in Nat /\ k \in Nat
      BY <2>3, LinesAre
    <2>5. PICK x \in Int, y \in Int : x = s.at[1] + p[2] - 1 /\ y = s.at[2] + p[1] - 1
      BY <1>6, <2>2, <2>4
    <2>6. /\ x * W - S[1] >= 0 /\ x * W - S[1] + W <= s.mode.width
          /\ y * H - S[2] >= 0 /\ y * H - S[2] + H <= s.mode.height
      BY <1>10, <2>5 DEF InReach
    <2> HIDE DEF W, H, S, rows, columns
    <2>7. PICK w \in Int, h \in Int : w = s.mode.width /\ h = s.mode.height
      BY <1>6
    <2>8. IsRead(w, W, S[1], x) /\ IsRead(h, H, S[2], y)
      BY ONLY <1>1, <1>3, w \in Int, h \in Int, x \in Int, y \in Int, ReachIs
    <2>9. (x + 1) - Margin(S[1]) \in 1 .. columns /\ (y + 1) - Margin(S[2]) \in 1 .. rows
      BY ONLY <1>7, <2>6, <2>7, <2>8 DEF IsRead
    <2>10. PICK u \in Int, v \in Int : u = s.at[1] + p[2] /\ v = s.at[2] + p[1]
      BY <1>6, <2>2, <2>4
    <2>11. x + 1 = u /\ y + 1 = v
      BY <1>6, <2>2, <2>4, <2>5, <2>10
    <2>12. u - Margin(S[1]) \in 1 .. columns /\ v - Margin(S[2]) \in 1 .. rows
      BY ONLY <2>9, <2>11
    <2> QED
      BY ONLY <2>10, <2>12
  <1> HIDE DEF rows, columns
  <1> QED
    BY <1>5, <1>8, <1>9, <1>10 DEF rows, columns, grid, S

(* What somebody who looks at the screen reads. *)
PlainColumns(s) == Greatest({0} \cup {Len(s.lines[i]) : i \in DOMAIN s.lines})
PlainChars(s) ==
    [p \in (DOMAIN s.lines) \X (1 .. PlainColumns(s)) |->
        IF p[2] <= Len(s.lines[p[1]]) THEN s.lines[p[1]][p[2]] ELSE Space]

LEMMA ReadsIs ==
    ASSUME NEW s, IsScreen(s)
    PROVE  /\ Reads(s) = InRows(Len(s.lines), PlainColumns(s), PlainChars(s))
           /\ Len(s.lines) \in Nat /\ PlainColumns(s) \in Nat
           /\ \A i, k \in Int :
                IsMark(Len(s.lines), PlainColumns(s), PlainChars(s), i, k) <=>
                    /\ i \in DOMAIN s.lines /\ k \in DOMAIN s.lines[i]
                    /\ s.lines[i][k] # Space
           /\ \A i \in DOMAIN s.lines : \A k \in DOMAIN s.lines[i] :
                PlainChars(s)[<<i, k>>] = s.lines[i][k]
  <1> DEFINE n == Len(s.lines)
             columns == PlainColumns(s)
             f == [i \in 1 .. n + 1 |-> IF i <= n THEN Len(s.lines[i]) ELSE 0]
  <1>1. /\ n \in Nat /\ DOMAIN s.lines = 1 .. n
        /\ \A i \in 1 .. n :
                /\ Len(s.lines[i]) \in Nat /\ DOMAIN s.lines[i] = 1 .. Len(s.lines[i])
    BY LinesAre DEF IsScreen
  <1>2. Reads(s) = InRows(n, columns, PlainChars(s))
    BY DEF Reads, PlainColumns, PlainChars
  <1>3. columns \in Nat /\ \A i \in 1 .. n : Len(s.lines[i]) <= columns
    <2> HIDE DEF n
    <2>1. n + 1 \in Nat \ {0} /\ \A i \in 1 .. n + 1 : i <= n => i \in 1 .. n
      BY <1>1
    <2>2. f \in [1 .. n + 1 -> Int] /\ \A i \in 1 .. n + 1 : f[i] \in Nat
      BY <1>1, <2>1
    <2>3. {f[i] : i \in 1 .. n + 1} = {0} \cup {Len(s.lines[i]) : i \in DOMAIN s.lines}
      <3>1. n + 1 \in 1 .. n + 1 /\ ~(n + 1 <= n) /\ \A i \in 1 .. n : i \in 1 .. n + 1 /\ i <= n
        BY <1>1
      <3>2. f[n + 1] = 0 /\ \A i \in 1 .. n : f[i] = Len(s.lines[i])
        BY <3>1
      <3>3. \A i \in 1 .. n + 1 : i = n + 1 \/ i \in 1 .. n
        BY <1>1
      <3> HIDE DEF f
      <3> QED
        BY <1>1, <3>1, <3>2, <3>3
    <2>4. \A i \in 1 .. n : f[i] = Len(s.lines[i]) /\ i \in 1 .. n + 1
      BY <1>1
    <2> HIDE DEF f
    <2>5. Greatest({f[i] : i \in 1 .. n + 1}) \in {f[i] : i \in 1 .. n + 1}
          /\ \A i \in 1 .. n + 1 : f[i] <= Greatest({f[i1] : i1 \in 1 .. n + 1})
      BY <2>1, <2>2, GreatestOfImage
    <2>6. columns = Greatest({f[i] : i \in 1 .. n + 1})
      BY <2>3 DEF PlainColumns
    <2> HIDE DEF columns
    <2> QED
      BY <2>2, <2>4, <2>5, <2>6
  <1>4. ASSUME NEW i \in 1 .. n, NEW k \in 1 .. columns
        PROVE  PlainChars(s)[<<i, k>>] = IF k <= Len(s.lines[i]) THEN s.lines[i][k] ELSE Space
    <2> DEFINE F(p) == IF p[2] <= Len(s.lines[p[1]]) THEN s.lines[p[1]][p[2]] ELSE Space
    <2>1. PlainChars(s) = [p \in (1 .. n) \X (1 .. columns) |-> F(p)]
      BY <1>1 DEF PlainChars
    <2>2. <<i, k>> \in (1 .. n) \X (1 .. columns)
      OBVIOUS
    <2>3. PlainChars(s)[<<i, k>>] = F(<<i, k>>)
      <3> HIDE DEF F, n, columns
      <3> QED
        BY <2>1, <2>2
    <2> QED
      BY <2>3
  <1>5. ASSUME NEW i \in DOMAIN s.lines, NEW k \in DOMAIN s.lines[i]
        PROVE  i \in 1 .. n /\ k \in 1 .. columns /\ k <= Len(s.lines[i])
    <2> HIDE DEF n, columns
    <2>1. i \in 1 .. n /\ k \in 1 .. Len(s.lines[i])
      BY <1>1
    <2>2. Len(s.lines[i]) \in Nat /\ Len(s.lines[i]) <= columns
      BY <1>1, <1>3, <2>1
    <2> QED
      BY <1>3, <2>1, <2>2
  <1>6. ASSUME NEW i \in DOMAIN s.lines, NEW k \in DOMAIN s.lines[i]
        PROVE  PlainChars(s)[<<i, k>>] = s.lines[i][k]
    <2> HIDE DEF n, columns
    <2> QED
      BY <1>4, <1>5
  <1>7. ASSUME NEW i \in Int, NEW k \in Int, IsMark(n, columns, PlainChars(s), i, k)
        PROVE  i \in DOMAIN s.lines /\ k \in DOMAIN s.lines[i] /\ s.lines[i][k] # Space
    <2>1. i \in 1 .. n /\ k \in 1 .. columns /\ PlainChars(s)[<<i, k>>] # Space
      BY <1>7 DEF IsMark
    <2> HIDE DEF n, columns
    <2>2. k <= Len(s.lines[i]) /\ s.lines[i][k] # Space
      BY <1>4, <2>1
    <2>3. k \in 1 .. Len(s.lines[i])
      BY <1>1, <1>3, <2>1, <2>2
    <2> QED
      BY <1>1, <2>1, <2>2, <2>3
  <1>8. ASSUME NEW i \in DOMAIN s.lines, NEW k \in DOMAIN s.lines[i], s.lines[i][k] # Space
        PROVE  IsMark(n, columns, PlainChars(s), i, k)
    <2> HIDE DEF n, columns
    <2> QED
      BY <1>5, <1>6, <1>8 DEF IsMark
  <1> HIDE DEF n, columns
  <1> QED
    BY <1>1, <1>2, <1>3, <1>6, <1>7, <1>8 DEF n, columns

-----------------------------------------------------------------------------
(* What an answer of yes rests on *)

(* The daemon's calibration is of the daemon's text, and its answer is     *)
(* about the screen that is shown.                                         *)
EvidenceInv ==
    /\ daemon.calibration # NoCalibration =>
            MatchesText(daemon.calibration, daemon.lines)
    /\ answer \notin {NoAnswer, "uncalibrated"} =>
            /\ daemon.calibration # NoCalibration
            /\ answer = Detected(daemon.calibration, Render(screen))
    /\ answer = "uncalibrated" => daemon.calibration = NoCalibration

(* _region_match, detect: the tolerance decides what a match is called,    *)
(* never whether there is one.                                             *)
LEMMA YesIsExactOrRead ==
    ASSUME NEW calibration, NEW frame,
           Detected(calibration, frame) \in {"region", "region+glyph", "glyph"}
    PROVE  LET mask == Binarise(frame, calibration.threshold, calibration.inverted)
           IN  \/ RegionMatch(calibration, mask, frame).exact
               \/ GlyphMatch(calibration, mask)
<1> DEFINE mask   == Binarise(frame, calibration.threshold, calibration.inverted)
           region == RegionMatch(calibration, mask, frame)
<1>1. SUFFICES ASSUME ~region.exact, ~GlyphMatch(calibration, mask)
               PROVE  FALSE
  OBVIOUS
<1>2. Detected(calibration, frame) = "no match"
  BY <1>1 DEF Detected
<1> QED
  BY <1>2

(* Without an exact region the answer is yes if the text is read; and   *)
(* there is one.                                                           *)
LEMMA DetectedIs ==
    ASSUME NEW calibration, NEW frame
    PROVE  LET mask == Binarise(frame, calibration.threshold, calibration.inverted)
           IN  /\ GlyphMatch(calibration, mask) =>
                    Detected(calibration, frame) \in {"region", "region+glyph", "glyph"}
               /\ Detected(calibration, frame) # "uncalibrated"
<1> DEFINE mask   == Binarise(frame, calibration.threshold, calibration.inverted)
           region == RegionMatch(calibration, mask, frame)
<1>1. Detected(calibration, frame)
        = CASE region.exact -> "region"
            [] ~region.exact /\ GlyphMatch(calibration, mask) ->
                  IF region.near THEN "region+glyph" ELSE "glyph"
            [] OTHER -> "no match"
  BY DEF Detected
<1> HIDE DEF mask, region
<1>2. CASE region.exact
  BY <1>1, <1>2 DEF mask
<1>3. CASE ~region.exact /\ GlyphMatch(calibration, mask)
  BY <1>1, <1>3 DEF mask
<1>4. CASE ~region.exact /\ ~GlyphMatch(calibration, mask)
  BY <1>1, <1>4 DEF mask
<1> QED
  BY <1>2, <1>3, <1>4

LEMMA EvidenceInit == Init => EvidenceInv
<1> SUFFICES ASSUME Init PROVE EvidenceInv
  OBVIOUS
<1>1. daemon.calibration = NoCalibration /\ answer = NoAnswer
  BY DEF Init
<1> QED
  BY <1>1, AnswersDiffer DEF EvidenceInv

LEMMA EvidenceNext == EvidenceInv /\ [Next]_vars => EvidenceInv'
<1> SUFFICES ASSUME EvidenceInv, [Next]_vars
             PROVE  EvidenceInv'
  OBVIOUS
<1>1. CASE Show
  BY <1>1, AnswersDiffer DEF Show, EvidenceInv
<1>2. CASE Reword
  BY <1>2 DEF Reword, EvidenceInv
<1>3. CASE Configure
  BY <1>3 DEF Configure, EvidenceInv
<1>4. CASE Start
  BY <1>4, AnswersDiffer DEF Start, EvidenceInv
<1>5. CASE Look
  BY <1>5, AnswersDiffer, DetectedIs DEF Look, EvidenceInv
<1>6. CASE UNCHANGED vars
  BY <1>6 DEF vars, EvidenceInv
<1> QED
  BY <1>1, <1>2, <1>3, <1>4, <1>5, <1>6 DEF Next

LEMMA EvidenceInvImplies == EvidenceInv => MatchIsEvidence
<1> SUFFICES ASSUME EvidenceInv, Matched
             PROVE  MatchIsEvidence
  BY DEF MatchIsEvidence
<1> DEFINE calibration == daemon.calibration
           frame == Render(screen)
           mask  == Binarise(frame, calibration.threshold, calibration.inverted)
<1>1. /\ MatchesText(calibration, daemon.lines)
      /\ Detected(calibration, frame) \in {"region", "region+glyph", "glyph"}
  BY AnswersDiffer DEF EvidenceInv, Matched
<1>2. RegionMatch(calibration, mask, frame).exact \/ GlyphMatch(calibration, mask)
  BY <1>1, YesIsExactOrRead
<1>3. calibration.text = NormaliseAll(daemon.lines)
  BY <1>1 DEF MatchesText
<1> QED
  BY <1>2, <1>3 DEF MatchIsEvidence, GlyphMatch

(* Detection answers yes on evidence alone: an identical region, or the    *)
(* configured lines read on the screen; no tolerance, no later change of   *)
(* configuration or file, and no order of the steps alters that.           *)
THEOREM MatchesHaveEvidence == Spec => []MatchIsEvidence
<1>1. Init => EvidenceInv
  BY EvidenceInit
<1>2. EvidenceInv /\ [Next]_vars => EvidenceInv'
  BY EvidenceNext
<1>3. EvidenceInv => MatchIsEvidence
  BY EvidenceInvImplies
<1> QED
  BY <1>1, <1>2, <1>3, PTL DEF Spec

-----------------------------------------------------------------------------
(* A screen that is read as it is *)

LEMMA ThresholdIsNumber ==
    ASSUME NEW s, IsScreen(s)
    PROVE  Threshold(Render(s)) \in Int
  <1> DEFINE frame == Render(s)
             back == Background(frame)
             pen == IF frame.ink = {} THEN {} ELSE {frame.pen}
             paper == IF frame.ink = Area(frame.width, frame.height) THEN {} ELSE {frame.paper}
             far == {c \in pen \cup paper : c - back >= 32 \/ back - c >= 32}
             fore == Foreground(frame)
  <1>1. frame.pen \in Int /\ frame.paper \in Int
    BY RenderIsFrame
  <1>2. fore = IF far # {} THEN CHOOSE c \in far : TRUE ELSE IF back < 128 THEN 255 ELSE 0
    BY DEF Foreground
  <1>3. back \in Int
    <2> HIDE DEF frame
    <2> QED
      BY <1>1 DEF Background
  <1>4. far # {} => (CHOOSE c \in far : TRUE) \in Int
    <2>1. far \subseteq Int
      BY <1>1
    <2> HIDE DEF far
    <2> QED
      BY <2>1
  <1> HIDE DEF far, back
  <1>5. fore \in Int
    <2> HIDE DEF fore
    <2> QED
      BY <1>2, <1>4
  <1>6. Threshold(frame) = (fore + back) \div 2
    BY DEF Threshold, back
  <1> HIDE DEF fore, frame
  <1>7. (fore + back) \div 2 \in Int
    BY <1>3, <1>5
  <1> QED
    BY <1>6, <1>7 DEF frame

(* In legible colours the mask is the ink. *)
LEMMA LegibleMask ==
    ASSUME NEW s, IsScreen(s), NEW c, c.threshold \in Int, Legible(s, c)
    PROVE  LET mask == Binarise(Render(s), c.threshold, c.inverted)
           IN  /\ mask.ink = Render(s).ink
               /\ mask.width = s.mode.width /\ mask.height = s.mode.height
  <1> DEFINE frame == Render(s)
             IsInk(luma) == IF c.inverted THEN luma < c.threshold ELSE luma > c.threshold
             mask == Binarise(frame, c.threshold, c.inverted)
  <1>1. /\ frame.width = s.mode.width /\ frame.height = s.mode.height
        /\ frame.pen = s.mode.pen /\ frame.paper = s.mode.paper
        /\ s.mode.pen \in 0 .. 255 /\ s.mode.paper \in 0 .. 255
    BY RenderIsFrame
  <1>2. IsInk(frame.pen) /\ ~IsInk(frame.paper)
    <2>1. IsInk(s.mode.pen)
      BY DEF Legible
    <2>2. ~IsInk(s.mode.paper)
      <3> HIDE DEF frame
      <3>1. CASE c.inverted
        BY <1>1, <3>1 DEF Legible
      <3>2. CASE ~c.inverted
        BY <1>1, <3>2 DEF Legible
      <3> QED
        BY <3>1, <3>2
    <2> QED
      BY <1>1, <2>1, <2>2
  <1>3. mask = [width |-> frame.width, height |-> frame.height,
                ink |-> (IF IsInk(frame.pen) THEN frame.ink ELSE {})
                        \cup (IF IsInk(frame.paper) THEN Area(frame.width, frame.height) \ frame.ink
                              ELSE {})]
    BY DEF Binarise
  <1> HIDE DEF frame, IsInk, mask
  <1>4. mask.ink = frame.ink /\ mask.width = frame.width /\ mask.height = frame.height
    BY <1>2, <1>3
  <1> QED
    BY <1>1, <1>4 DEF mask, frame

(* What was learned from the message itself, on its grid, knows its        *)
(* characters as they are.                                                 *)
LEMMA GoodLessonReads ==
    ASSUME NEW s, NEW t, NEW c, GoodLesson(s, t, c), s.lines = t, Corner(c.grid)[2] = s.at[2]
    PROVE  IsReader(c)
  <1>1. IsGrid(c.grid) /\ CutsBetweenCharacters(c.grid) /\ IsText(t) /\ IsScreen(s)
    BY DEF GoodLesson, OrdinaryScreen
  <1>2. s.at[1] \in Nat /\ s.at[2] \in Nat
    BY <1>1 DEF IsScreen
  <1>3. ASSUME NEW p \in Places(t)
        PROVE  ShownAt(s, c.grid, p) = t[p[1]][p[2]] /\ t[p[1]][p[2]] \in DOMAIN Font
    <2>1. PICK i \in DOMAIN t : \E k \in DOMAIN t[i] : p = <<i, k>>
      BY PlacesAre
    <2>2. PICK k \in DOMAIN t[i] : p = <<i, k>>
      BY <2>1
    <2>3. i \in 1 .. Len(t) /\ k \in 1 .. Len(t[i]) /\ i \in Int /\ k \in Int /\ t[i][k] \in DOMAIN Font
      BY <1>1, TextIs
    <2>4. PICK x \in Int, y \in Int : x = s.at[1] + k - 1 /\ y = s.at[2] + i - 1
      BY <1>2, <2>3
    <2>5. y - s.at[2] + 1 = i /\ x - s.at[1] + 1 = k
      BY <1>2, <2>3, <2>4
    <2>6. CharAt(s, x, y) = t[i][k]
      BY <2>2, <2>5 DEF CharAt
    <2> QED
      BY <2>2, <2>3, <2>4, <2>6 DEF ShownAt
  <1>4. \A ch \in DOMAIN c.glyphs : \E p \in Places(t) :
            t[p[1]][p[2]] = ch /\ c.glyphs[ch] = PictureOf(ShownAt(s, c.grid, p), Shift(c.grid))
    BY GoodLessonIs
  <1>5. \A ch \in DOMAIN c.glyphs : ch \in DOMAIN Font /\ c.glyphs[ch] = PictureOf(ch, Shift(c.grid))
    <2> TAKE ch \in DOMAIN c.glyphs
    <2>1. PICK p \in Places(t) :
            t[p[1]][p[2]] = ch /\ c.glyphs[ch] = PictureOf(ShownAt(s, c.grid, p), Shift(c.grid))
      BY <1>4
    <2> QED
      BY <1>3, <2>1
  <1> QED
    BY <1>1, <1>5 DEF IsReader

(* How much further down and to the right a screen's characters are read   *)
(* than they are in its lines.                                             *)
Down(s, c) == s.at[2] - Margin(Shift(c.grid)[2])
Right(s, c) == s.at[1] - Margin(Shift(c.grid)[1])

(* A character of the screen, where it is free of stray pixels. *)
IsClean(s, c, i, k) == NoSpeckIn(s, Shift(c.grid), s.at[1] + k - 1, s.at[2] + i - 1)

LEMMA CellIsRead ==
    ASSUME NEW c, IsReader(c), NEW s, IsScreen(s), InReach(s, c.grid),
           NEW mask, mask.ink = Render(s).ink,
           mask.width = s.mode.width, mask.height = s.mode.height,
           NEW i \in DOMAIN s.lines, NEW k \in DOMAIN s.lines[i]
    PROVE  /\ i \in Nat /\ k \in Nat
           /\ Down(s, c) \in Int /\ Right(s, c) \in Int
           /\ i + Down(s, c) \in 1 .. ReadRows(c, mask)
           /\ k + Right(s, c) \in 1 .. ReadColumns(c, mask)
           /\ IsClean(s, c, i, k) =>
                ReadChars(c, mask)[<<i + Down(s, c), k + Right(s, c)>>]
                  = CharOf(c, PictureOf(s.lines[i][k], Shift(c.grid)))
  <1> DEFINE S == Shift(c.grid)
  <1>1. AreLines(s.lines) /\ s.at[1] \in Nat /\ s.at[2] \in Nat
    BY DEF IsScreen
  <1>2. i \in Nat /\ k \in Nat
    BY <1>1, LinesAre
  <1>3. Margin(S[1]) \in {0, 1} /\ Margin(S[2]) \in {0, 1}
    BY DEF Margin
  <1>4. PICK m \in Int, n \in Int : m = Margin(S[1]) /\ n = Margin(S[2])
    BY <1>3
  <1>5. PICK ax \in Int, ay \in Int : ax = s.at[1] /\ ay = s.at[2]
    BY <1>1
  <1>6. Down(s, c) = ay - n /\ Right(s, c) = ax - m
    BY <1>4, <1>5 DEF Down, Right
  <1>7. <<i, k>> \in Cells(s)
    BY PlacesAre DEF Cells
  <1>8. /\ (s.at[2] + i) - Margin(S[2]) \in 1 .. ReadRows(c, mask)
        /\ (s.at[1] + k) - Margin(S[1]) \in 1 .. ReadColumns(c, mask)
    <2>1. \A p \in Cells(s) :
                /\ (s.at[2] + p[1]) - Margin(S[2]) \in 1 .. ReadRows(c, mask)
                /\ (s.at[1] + p[2]) - Margin(S[1]) \in 1 .. ReadColumns(c, mask)
      BY ReadingIs
    <2> HIDE DEF S
    <2> QED
      BY <1>7, <2>1
  <1>9. PICK y \in Int, x \in Int : y = i + (ay - n) /\ x = k + (ax - m)
    BY <1>2
  <1>10. y = (ay + i) - n /\ x = (ax + k) - m
    BY <1>2, <1>9
  <1>11. y \in 1 .. ReadRows(c, mask) /\ x \in 1 .. ReadColumns(c, mask)
    BY <1>4, <1>5, <1>8, <1>10
  <1>12. ASSUME IsClean(s, c, i, k)
         PROVE  ReadChars(c, mask)[<<y, x>>] = CharOf(c, PictureOf(s.lines[i][k], S))
    <2>1. m + x - 1 = ax + k - 1 /\ n + y - 1 = ay + i - 1
      BY <1>2, <1>10
    <2>2. ColumnRead(c.grid, x) = ax + k - 1 /\ RowRead(c.grid, y) = ay + i - 1
      BY <1>4, <2>1 DEF ColumnRead, RowRead
    <2>3. NoSpeckIn(s, S, ColumnRead(c.grid, x), RowRead(c.grid, y))
      BY <1>5, <1>12, <2>2 DEF IsClean
    <2>4. ReadChars(c, mask)[<<y, x>>]
            = CharOf(c, PictureOf(CharAt(s, ColumnRead(c.grid, x), RowRead(c.grid, y)), S))
      <3>1. \A i1 \in 1 .. ReadRows(c, mask), k1 \in 1 .. ReadColumns(c, mask) :
                NoSpeckIn(s, S, ColumnRead(c.grid, k1), RowRead(c.grid, i1)) =>
                    ReadChars(c, mask)[<<i1, k1>>]
                      = CharOf(c, PictureOf(CharAt(s, ColumnRead(c.grid, k1), RowRead(c.grid, i1)), S))
        BY ReadingIs
      <3> QED
        BY ONLY <1>11, <2>3, <3>1
    <2>5. CharAt(s, ax + k - 1, ay + i - 1) = s.lines[i][k]
      <3>1. (ay + i - 1) - ay + 1 = i /\ (ax + k - 1) - ax + 1 = k
        BY <1>2
      <3> QED
        BY <1>5, <3>1 DEF CharAt
    <2> QED
      BY <2>2, <2>4, <2>5
  <1> QED
    BY <1>2, <1>6, <1>9, <1>11, <1>12

(* The reading has a character, so much further, where the screen has one. *)
Knows(c, s) ==
    \A i \in DOMAIN s.lines : \A k \in DOMAIN s.lines[i] : s.lines[i][k] \in DOMAIN c.glyphs

LEMMA ReadingIsMoved ==
    ASSUME ReadableFont, NEW c, IsReader(c), NEW s, IsScreen(s), s.specks = {}, InReach(s, c.grid),
           NEW mask, mask.ink = Render(s).ink,
           mask.width = s.mode.width, mask.height = s.mode.height,
           Unknown # Space \/ Knows(c, s)
    PROVE  AreMoved(Len(s.lines), PlainColumns(s), PlainChars(s),
                    ReadRows(c, mask), ReadColumns(c, mask), ReadChars(c, mask),
                    Down(s, c), Right(s, c))
  <1> DEFINE y == Down(s, c)
             x == Right(s, c)
             rows == ReadRows(c, mask)
             columns == ReadColumns(c, mask)
             read == ReadChars(c, mask)
             S == Shift(c.grid)
             Shown(i, k) == IsMark(Len(s.lines), PlainColumns(s), PlainChars(s), i, k)
  <1>1. \A i, k \in Int : Shown(i, k) <=>
            i \in DOMAIN s.lines /\ k \in DOMAIN s.lines[i] /\ s.lines[i][k] # Space
    BY ReadsIs
  <1>2. \A a, b : NoSpeckIn(s, S, a, b)
    BY DEF NoSpeckIn
  <1>3. y \in Int /\ x \in Int /\ s.at[1] \in Int /\ s.at[2] \in Int
        /\ Margin(S[1]) \in Int /\ Margin(S[2]) \in Int
    BY DEF Down, Right, Margin, IsScreen
  <1>4. \A i, k \in Int : Shown(i, k) => IsMark(rows, columns, read, i + y, k + x)
    <2> SUFFICES ASSUME NEW i \in Int, NEW k \in Int, Shown(i, k)
                 PROVE  IsMark(rows, columns, read, i + y, k + x)
      OBVIOUS
    <2>1. i \in DOMAIN s.lines /\ k \in DOMAIN s.lines[i] /\ s.lines[i][k] # Space
      BY <1>1
    <2>2. i + y \in 1 .. rows /\ k + x \in 1 .. columns
          /\ read[<<i + y, k + x>>] = CharOf(c, PictureOf(s.lines[i][k], S))
      <3>1. IsClean(s, c, i, k)
        BY <1>2 DEF IsClean
      <3> QED
        BY <2>1, <3>1, CellIsRead
    <2>3. s.lines[i][k] \in DOMAIN Font
      BY <2>1, LinesAre DEF IsScreen
    <2>4. read[<<i + y, k + x>>] # Space
      <3> DEFINE d == s.lines[i][k]
                 r == CharOf(c, PictureOf(d, S))
      <3>1. r = Unknown \/ r # Space
        BY <2>1, <2>3, CharOfIs
      <3>2. d \in DOMAIN c.glyphs => r # Space
        BY <2>1, <2>3, CharOfIs
      <3>3. Knows(c, s) => d \in DOMAIN c.glyphs
        BY <2>1 DEF Knows
      <3> HIDE DEF d, r
      <3> QED
        BY <2>2, <3>1, <3>2, <3>3 DEF r, d
    <2> QED
      BY <2>2, <2>4 DEF IsMark
  <1>5. \A i, k \in Int : IsMark(rows, columns, read, i, k) => Shown(i - y, k - x)
    <2> SUFFICES ASSUME NEW i \in Int, NEW k \in Int, IsMark(rows, columns, read, i, k)
                 PROVE  Shown(i - y, k - x)
      OBVIOUS
    <2>1. i \in 1 .. rows /\ k \in 1 .. columns /\ read[<<i, k>>] # Space
      BY DEF IsMark
    <2> DEFINE d == CharAt(s, ColumnRead(c.grid, k), RowRead(c.grid, i))
    <2>2. read[<<i, k>>] = CharOf(c, PictureOf(d, S))
      <3>1. NoSpeckIn(s, S, ColumnRead(c.grid, k), RowRead(c.grid, i))
        BY <1>2
      <3> QED
        BY <2>1, <3>1, ReadingIs
    <2>3. d \in DOMAIN Font
      BY CharAtIs
    <2>4. d # Space
      <3>1. d = Space => CharOf(c, PictureOf(d, S)) = Space
        BY <2>3, CharOfIs
      <3> QED
        BY <2>1, <2>2, <3>1
    <2>5. RowRead(c.grid, i) - s.at[2] + 1 = i - y /\ ColumnRead(c.grid, k) - s.at[1] + 1 = k - x
      <3>1. PICK m \in Int, n \in Int, ax \in Int, ay \in Int :
                m = Margin(S[1]) /\ n = Margin(S[2]) /\ ax = s.at[1] /\ ay = s.at[2]
        BY <1>3
      <3>2. y = ay - n /\ x = ax - m
        BY <3>1 DEF Down, Right
      <3>3. RowRead(c.grid, i) = n + i - 1 /\ ColumnRead(c.grid, k) = m + k - 1
        BY <3>1 DEF RowRead, ColumnRead
      <3>4. (n + i - 1) - ay + 1 = i - (ay - n) /\ (m + k - 1) - ax + 1 = k - (ax - m)
        OBVIOUS
      <3> HIDE DEF x, y
      <3> QED
        BY <3>1, <3>2, <3>3, <3>4
    <2>6. /\ i - y \in DOMAIN s.lines /\ k - x \in DOMAIN s.lines[i - y]
          /\ s.lines[i - y][k - x] = d
      BY <2>4, <2>5 DEF CharAt
    <2>7. i - y \in Int /\ k - x \in Int
      BY <1>3
    <2> HIDE DEF d, x, y
    <2> QED
      BY <1>1, <2>4, <2>6, <2>7
  <1> QED
    BY <1>4, <1>5 DEF AreMoved

LEMMA GoodThreshold ==
    ASSUME NEW s, NEW t, NEW c, GoodLesson(s, t, c)
    PROVE  c.threshold \in Int
  <1>1. IsScreen(s)
    BY DEF GoodLesson, OrdinaryScreen
  <1>2. PICK mask, run : c = Build(Render(s), mask, c.grid, run, t) /\ c # NoCalibration
    BY DEF GoodLesson
  <1>3. c.threshold = Threshold(Render(s))
    <2> DEFINE columns == Columns(c.grid, run)
               r == Region(Render(s), c.grid, columns, t)
               Char(p) == t[p[1]][p[2]]
               glyphs == [ch \in {Char(p) : p \in Places(t)} |->
                             Picture(mask, c.grid, columns,
                                     CHOOSE p \in Places(t) : Char(p) = ch)]
    <2>1. c = [width |-> Render(s).width, height |-> Render(s).height, grid |-> c.grid,
              threshold |-> Threshold(Render(s)), inverted |-> Inverted(Render(s)),
              text |-> NormaliseAll(t), glyphs |-> glyphs, region |-> r,
              region_mask |-> FromRows(Crop(mask, r[1], r[2], r[3], r[4]))]
      BY <1>2 DEF Build
    <2> HIDE DEF r, columns, Char, glyphs
    <2> QED
      BY <2>1
  <1> QED
    BY <1>1, <1>3, ThresholdIsNumber

(* Where a row has the characters of a line, its words can be read. *)
LEMMA LineInRows ==
    ASSUME NEW rows \in Nat, NEW columns \in Nat, NEW char,
           NEW line, NEW m, IsWriting(line, m), m # 0, line[1] # Space, line[m] # Space,
           NEW j \in 1 .. rows, NEW x \in Int,
           \A k \in 1 .. m : k + x \in 1 .. columns /\ Alike(char[<<j, k + x>>], line[k])
    PROVE  IsPartOf(Normalise(line), Normalise(InRows(rows, columns, char)))
  <1> DEFINE w == InRows(rows, columns, char)
             N == rows * (columns + 1)
             at == Place(columns, j, x)
  <1>1. IsWriting(w, N)
    BY InRowsIs
  <1>2. \A i \in 1 .. rows, k \in 1 .. columns + 1 :
            /\ Place(columns, i, k) \in 1 .. N
            /\ w[Place(columns, i, k)] = IF k > columns THEN Space ELSE char[<<i, k>>]
    <2>1. HasRows(w, rows, columns, char)
      BY InRowsIs
    <2> HIDE DEF w, N
    <2> QED
      BY <2>1 DEF HasRows, N
  <1>3. m \in Nat \ {0}
    BY DEF IsWriting
  <1> HIDE DEF w
  <1>4. at = (j - 1) * (columns + 1) + x /\ (j - 1) * (columns + 1) \in Int
    BY DEF Place
  <1>5. \A k \in 1 .. m : at + k = Place(columns, j, k + x)
    <2> TAKE k \in 1 .. m
    <2>1. Place(columns, j, k + x) = (j - 1) * (columns + 1) + (k + x)
      BY DEF Place
    <2> HIDE DEF at
    <2> QED
      BY <1>4, <2>1
  <1>6. at \in Int /\ N \in Nat
    BY <1>4
  <1> HIDE DEF at
  <1>7. \A k \in 1 .. m : at + k \in 1 .. N /\ Alike(w[at + k], line[k])
    <2> TAKE k \in 1 .. m
    <2>1. k + x \in 1 .. columns /\ Alike(char[<<j, k + x>>], line[k])
      OBVIOUS
    <2>2. k + x \in 1 .. columns + 1 /\ ~(k + x > columns)
      BY <2>1
    <2>3. /\ Place(columns, j, k + x) \in 1 .. N
          /\ w[Place(columns, j, k + x)] = char[<<j, k + x>>]
      <3> HIDE DEF N
      <3> QED
        BY <1>2, <2>2
    <2> QED
      BY <1>5, <2>1, <2>3
  <1> HIDE DEF N
  <1>8. at \in Nat /\ at + m <= N
    <2>1. at + 1 \in 1 .. N /\ at + m \in 1 .. N
      BY <1>3, <1>7
    <2> QED
      BY <1>3, <1>6, <2>1
  <1>9. HasLine(w, line, at)
    BY <1>7 DEF HasLine, IsWriting
  <1>10. IsPartOf(Normalise(line), Normalise(w))
    BY <1>1, <1>8, <1>9, LineIsPart
  <1> QED
    BY <1>10 DEF w

(* Where the message is free of stray pixels its lines are read.           *)
LEMMA CleanLinesAreRead ==
    ASSUME ReadableFont, NEW c, IsReader(c), NEW s, IsScreen(s), InReach(s, c.grid),
           NEW mask, mask.ink = Render(s).ink,
           mask.width = s.mode.width, mask.height = s.mode.height,
           Knows(c, s), IsText(s.lines), SpecksAreElsewhere(s, c.grid)
    PROVE  Says(ReadScreen(c, mask), NormaliseAll(s.lines))
  <1> DEFINE t == s.lines
             y == Down(s, c)
             x == Right(s, c)
             rows == ReadRows(c, mask)
             columns == ReadColumns(c, mask)
             read == ReadChars(c, mask)
             w == ReadScreen(c, mask)
             S == Shift(c.grid)
  <1>1. w = InRows(rows, columns, read) /\ rows \in Nat /\ columns \in Nat
    BY ReadingIs
  <1>4. \A j \in DOMAIN t : \A k \in DOMAIN t[j] :
            /\ j \in Nat /\ k \in Nat /\ y \in Int /\ x \in Int
            /\ j + y \in 1 .. rows /\ k + x \in 1 .. columns
            /\ Alike(read[<<j + y, k + x>>], t[j][k])
    <2> TAKE j \in DOMAIN t
    <2> TAKE k \in DOMAIN t[j]
    <2>1. IsClean(s, c, j, k)
      <3>1. <<j, k>> \in Cells(s)
        BY PlacesAre DEF Cells
      <3>2. \A q \in s.specks :
                <<(q[1] + S[1]) \div FontCell[1], (q[2] + S[2]) \div FontCell[2]>>
                    # <<s.at[1] + k - 1, s.at[2] + j - 1>>
        <4>1. \A p \in Cells(s), q \in s.specks :
                <<(q[1] + S[1]) \div FontCell[1], (q[2] + S[2]) \div FontCell[2]>>
                    # <<s.at[1] + p[2] - 1, s.at[2] + p[1] - 1>>
          BY DEF SpecksAreElsewhere
        <4> HIDE DEF S
        <4> QED
          BY <3>1, <4>1
      <3> QED
        BY <3>2 DEF IsClean, NoSpeckIn
    <2>2. /\ j \in Nat /\ k \in Nat /\ y \in Int /\ x \in Int
          /\ j + y \in 1 .. rows /\ k + x \in 1 .. columns
          /\ read[<<j + y, k + x>>] = CharOf(c, PictureOf(t[j][k], S))
      BY <2>1, CellIsRead
    <2>3. t[j][k] \in DOMAIN Font /\ t[j][k] \in DOMAIN c.glyphs
      BY LinesAre DEF IsScreen, Knows
    <2>4. Alike(CharOf(c, PictureOf(t[j][k], S)), t[j][k])
      <3> DEFINE d == t[j][k]
                 r == CharOf(c, PictureOf(d, S))
      <3>1. d = Space => r = Space
        BY <2>3, CharOfIs
      <3>2. d # Space => r # Space /\ Fold[r] = Fold[d]
        BY <2>3, CharOfIs
      <3> HIDE DEF d, r
      <3>3. Alike(r, d)
        BY <3>1, <3>2 DEF Alike
      <3> QED
        BY <3>3 DEF r, d
    <2> QED
      BY <2>2, <2>4
  <1>5. ASSUME NEW j \in DOMAIN t
        PROVE  IsPartOf(Normalise(t[j]), Normalise(w))
    <2> DEFINE m == Len(t[j])
    <2>1. /\ m \in Nat \ {0} /\ DOMAIN t[j] = 1 .. m
          /\ t[j][1] # Space /\ t[j][m] # Space
      BY TextIs
    <2> HIDE DEF w, rows, columns, read, x, y, t, m
    <2>2. IsWriting(t[j], m) /\ m # 0 /\ 1 \in DOMAIN t[j]
      BY <2>1 DEF IsWriting, m
    <2>3. j + y \in 1 .. rows /\ x \in Int
      BY <1>4, <2>2
    <2>4. \A k \in 1 .. m : k + x \in 1 .. columns /\ Alike(read[<<j + y, k + x>>], t[j][k])
      BY <1>4, <2>1
    <2> QED
      BY <1>1, <2>1, <2>2, <2>3, <2>4, LineInRows
  <1> QED
    <2> HIDE DEF w, t
    <2>1. Says(w, NormaliseAll(t))
      BY <1>5 DEF Says, NormaliseAll
    <2> QED
      BY <2>1 DEF w, t

(* Without stray pixels the same is read as the screen says.               *)
LEMMA SaysTheSame ==
    ASSUME ReadableFont, NEW c, IsReader(c), NEW s, IsScreen(s), s.specks = {}, InReach(s, c.grid),
           NEW mask, mask.ink = Render(s).ink,
           mask.width = s.mode.width, mask.height = s.mode.height,
           Knows(c, s), NEW told, \A i \in DOMAIN told : Len(told[i]) \in Nat,
           Says(Reads(s), told)
    PROVE  Says(ReadScreen(c, mask), told)
  <1> DEFINE y == Down(s, c)
             x == Right(s, c)
             v == Reads(s)
             w == ReadScreen(c, mask)
             plain == PlainChars(s)
             read == ReadChars(c, mask)
             Shown(i, k) == IsMark(Len(s.lines), PlainColumns(s), plain, i, k)
  <1>1. /\ v = InRows(Len(s.lines), PlainColumns(s), plain)
        /\ Len(s.lines) \in Nat /\ PlainColumns(s) \in Nat
        /\ \A i, k \in Int : Shown(i, k) =>
                /\ i \in DOMAIN s.lines /\ k \in DOMAIN s.lines[i]
                /\ s.lines[i][k] # Space /\ plain[<<i, k>>] = s.lines[i][k]
    <2>1. v = InRows(Len(s.lines), PlainColumns(s), plain)
      BY ReadsIs
    <2>2. Len(s.lines) \in Nat /\ PlainColumns(s) \in Nat
      BY ReadsIs
    <2>3. \A i, k \in Int : Shown(i, k) <=>
                i \in DOMAIN s.lines /\ k \in DOMAIN s.lines[i] /\ s.lines[i][k] # Space
      BY ReadsIs
    <2>4. \A i \in DOMAIN s.lines : \A k \in DOMAIN s.lines[i] : plain[<<i, k>>] = s.lines[i][k]
      BY ReadsIs
    <2> HIDE DEF v, plain, Shown
    <2> QED
      BY <2>1, <2>2, <2>3, <2>4
  <1>2. /\ w = InRows(ReadRows(c, mask), ReadColumns(c, mask), read)
        /\ ReadRows(c, mask) \in Nat /\ ReadColumns(c, mask) \in Nat
    BY ReadingIs
  <1>3. AreMoved(Len(s.lines), PlainColumns(s), plain,
                 ReadRows(c, mask), ReadColumns(c, mask), read, y, x)
    BY ReadingIsMoved
  <1>4. y \in Int /\ x \in Int
    BY DEF Down, Right, Margin, IsScreen
  <1>5. ASSUME NEW i \in Int, NEW k \in Int, Shown(i, k)
        PROVE  Fold[read[<<i + y, k + x>>]] = Fold[plain[<<i, k>>]]
    <2>1. /\ i \in DOMAIN s.lines /\ k \in DOMAIN s.lines[i]
          /\ s.lines[i][k] # Space /\ plain[<<i, k>>] = s.lines[i][k]
      BY <1>1, <1>5
    <2>2. IsClean(s, c, i, k)
      BY DEF IsClean, NoSpeckIn
    <2>3. read[<<i + y, k + x>>] = CharOf(c, PictureOf(s.lines[i][k], Shift(c.grid)))
      BY <2>1, <2>2, CellIsRead
    <2>4. s.lines[i][k] \in DOMAIN Font /\ s.lines[i][k] \in DOMAIN c.glyphs
      BY <2>1, LinesAre DEF IsScreen, Knows
    <2> DEFINE d == s.lines[i][k]
    <2>5. d # Space /\ d \in DOMAIN c.glyphs
            => Fold[CharOf(c, PictureOf(d, Shift(c.grid)))] = Fold[d]
      BY <2>4, CharOfIs
    <2> QED
      BY <2>1, <2>3, <2>4, <2>5
  <1> HIDE DEF v, w, plain, read, y, x
  <1>6. /\ Len(Normalise(v)) \in Nat /\ Len(Normalise(v)) = Len(Normalise(w))
        /\ \A n \in 1 .. Len(Normalise(v)) :
                \/ Normalise(v)[n] = Fold[Space] /\ Normalise(w)[n] = Fold[Space]
                \/ \E i, k \in Int : /\ Shown(i, k)
                                     /\ Normalise(v)[n] = Fold[plain[<<i, k>>]]
                                     /\ Normalise(w)[n] = Fold[read[<<i + y, k + x>>]]
    <2> DEFINE r == Len(s.lines)
               q == PlainColumns(s)
               rows == ReadRows(c, mask)
               columns == ReadColumns(c, mask)
    <2>1. r \in Nat /\ q \in Nat /\ rows \in Nat /\ columns \in Nat
      BY <1>1, <1>2
    <2> HIDE DEF r, q, rows, columns
    <2>2. AreMoved(r, q, plain, rows, columns, read, y, x)
      BY <1>3 DEF r, q, rows, columns
    <2>3. v = InRows(r, q, plain) /\ w = InRows(rows, columns, read)
      BY <1>1, <1>2 DEF r, q, rows, columns
    <2>4. MeanTheSame(r, q, plain, rows, columns, read, y, x)
      BY <1>4, <2>1, <2>2, MovedRows
    <2> QED
      BY <2>3, <2>4 DEF MeanTheSame, r, q
  <1> HIDE DEF Shown
  <1>7. \A n \in 1 .. Len(Normalise(v)) : Normalise(v)[n] = Normalise(w)[n]
    BY <1>5, <1>6
  <1>8. \A part : Len(part) \in Nat /\ IsPartOf(part, Normalise(v)) => IsPartOf(part, Normalise(w))
    <2> SUFFICES ASSUME NEW part, Len(part) \in Nat, IsPartOf(part, Normalise(v))
                 PROVE  IsPartOf(part, Normalise(w))
      OBVIOUS
    <2>1. PICK i \in 0 .. Len(Normalise(v)) - Len(part) :
            \A k \in 1 .. Len(part) : Normalise(v)[i + k] = part[k]
      BY DEF IsPartOf
    <2>2. PICK l \in Nat, m \in Nat : l = Len(Normalise(v)) /\ m = Len(part)
      BY <1>6
    <2>3. \A k \in 1 .. m : i + k \in 1 .. l
      BY <2>2
    <2>4. \A k \in 1 .. Len(part) : Normalise(w)[i + k] = part[k]
      BY <1>7, <2>1, <2>2, <2>3
    <2> QED
      BY <1>6, <2>4 DEF IsPartOf
  <1> QED
    BY <1>8 DEF Says, v, w

-----------------------------------------------------------------------------
(* The message is seen *)

(* Each line of a text, normalised, has a length. *)
LEMMA NormalisedText ==
    ASSUME NEW t, IsText(t)
    PROVE  /\ DOMAIN NormaliseAll(t) = DOMAIN t
           /\ \A i \in DOMAIN t : Len(NormaliseAll(t)[i]) \in Nat
  <1>1. ASSUME NEW i \in DOMAIN t
        PROVE  Len(NormaliseAll(t)[i]) \in Nat
    <2>1. IsWriting(t[i], Len(t[i]))
      BY TextIs DEF IsWriting
    <2>2. Len(Normalise(t[i])) \in Nat
      BY <2>1, NormaliseIs DEF IsWriting
    <2> QED
      BY <2>2 DEF NormaliseAll
  <1> QED
    BY <1>1 DEF NormaliseAll

LEMMA LearnInvSeen ==
    ASSUME OrdinaryLessons, ReadableFont, LearnInv, EvidenceInv
    PROVE  SeenWhereverItMoves
  <1> DEFINE c == daemon.calibration
             l == daemon.lesson
             t == daemon.lines
             s == screen
             mask == Binarise(Render(s), c.threshold, c.inverted)
  <1>1. SUFFICES ASSUME answer # NoAnswer, LearnedOnItsGrid, Says(Reads(s), NormaliseAll(t)),
                        UNION {{s.lines[i][k] : k \in DOMAIN s.lines[i]} : i \in DOMAIN s.lines}
                            \subseteq DOMAIN c.glyphs,
                        Legible(s, c), InReach(s, c.grid),
                        s.specks = {} \/ (s.lines = t /\ SpecksAreElsewhere(s, c.grid))
                 PROVE  Matched
    BY DEF SeenWhereverItMoves
  <1>2. /\ c # NoCalibration /\ l.screen.lines = l.lines /\ l.screen.specks = {}
        /\ CutsBetweenCharacters(c.grid)
        /\ Corner(c.grid)[1] <= l.screen.at[1] /\ Corner(c.grid)[2] = l.screen.at[2]
    BY <1>1 DEF LearnedOnItsGrid, LearnedFromTheMessage
  <1>3. /\ FromLesson(l, c) /\ s \in Screens /\ t \in Texts
        /\ MatchesText(c, t) /\ answer = Detected(c, Render(s))
    BY <1>1, <1>2 DEF LearnInv, EvidenceInv
  <1>4. IsScreen(s) /\ IsText(t)
    BY <1>3, DetectAssumption
  <1>5. Knows(c, s)
    BY <1>1 DEF Knows
  <1> HIDE DEF c, l, t, s
  <1>6. GoodLesson(l.screen, l.lines, c)
    BY <1>2, <1>3, LessonIsGood
  <1>7. IsReader(c) /\ c.threshold \in Int
    BY <1>2, <1>6, GoodLessonReads, GoodThreshold
  <1>8. mask.ink = Render(s).ink /\ mask.width = s.mode.width /\ mask.height = s.mode.height
    BY <1>1, <1>4, <1>7, LegibleMask
  <1> HIDE DEF mask
  <1>9. Says(ReadScreen(c, mask), NormaliseAll(t))
    <2>1. CASE s.specks = {}
      <3>1. \A i \in DOMAIN NormaliseAll(t) : Len(NormaliseAll(t)[i]) \in Nat
        BY <1>4, NormalisedText
      <3> QED
        BY <1>1, <1>4, <1>5, <1>7, <1>8, <2>1, <3>1, SaysTheSame
    <2>2. CASE s.lines = t /\ SpecksAreElsewhere(s, c.grid)
      <3>1. IsText(s.lines)
        BY <1>4, <2>2
      <3>2. Says(ReadScreen(c, mask), NormaliseAll(s.lines))
        BY <1>1, <1>4, <1>5, <1>7, <1>8, <2>2, <3>1, CleanLinesAreRead
      <3> QED
        BY <2>2, <3>2
    <2> QED
      BY <1>1, <2>1, <2>2
  <1>10. GlyphMatch(c, mask)
    BY <1>3, <1>9 DEF GlyphMatch, MatchesText
  <1>11. Detected(c, Render(s)) \in {"region", "region+glyph", "glyph"}
    BY <1>10, DetectedIs DEF mask
  <1> QED
    BY <1>3, <1>11 DEF Matched

(* detect, read_screen: on an ordinary screen, in a readable font, the     *)
(* message is seen in every place that the reading reaches: the search for *)
(* the grid, the pictures, the offset of the reading, the wrapping and the *)
(* capitals lose no character of it, in any order of the steps.            *)
THEOREM TheMessageIsSeen ==
    ASSUME OrdinaryLessons, ReadableFont
    PROVE  Spec => []SeenWhereverItMoves
<1>1. Init => LearnInv /\ EvidenceInv
  BY LearnInit, EvidenceInit
<1>2. LearnInv /\ EvidenceInv /\ [Next]_vars => (LearnInv /\ EvidenceInv)'
  BY LearnNext, EvidenceNext
<1>3. LearnInv /\ EvidenceInv => SeenWhereverItMoves
  BY LearnInvSeen
<1> QED
  BY <1>1, <1>2, <1>3, PTL DEF Spec

-----------------------------------------------------------------------------
(* An exact region *)

(* What is drawn in a cell of one screen and in the same cell of another.  *)
CellPixel(shift, x, y, u, v) ==
    <<x * FontCell[1] - shift[1] + u, y * FontCell[2] - shift[2] + v>>

LEMMA InkTellsCharacter ==
    ASSUME NEW s, IsScreen(s), s.specks = {}, NEW r, IsScreen(r), r.specks = {},
           NEW shift, IsShift(shift), NEW x \in Int, NEW y \in Int,
           \A u \in 0 .. FontCell[1] - 1, v \in 0 .. FontCell[2] - 1 :
                CellPixel(shift, x, y, u, v) \in Render(s).ink
                    => CellPixel(shift, x, y, u, v) \in Render(r).ink
    PROVE  Font[CharAt(s, x, y)] \subseteq Font[CharAt(r, x, y)]
  <1> SUFFICES ASSUME NEW f \in Font[CharAt(s, x, y)]
               PROVE  f \in Font[CharAt(r, x, y)]
    OBVIOUS
  <1>1. CharAt(s, x, y) \in DOMAIN Font /\ CharAt(r, x, y) \in DOMAIN Font
    BY CharAtIs
  <1>2. /\ f = <<f[1], f[2]>> /\ f[1] \in 0 .. FontCell[1] - 1 /\ f[2] \in 0 .. FontCell[2] - 1
        /\ FontCell[1] \in Nat /\ FontCell[2] \in Nat
    BY <1>1, FontCells
  <1>3. /\ shift[1] \in 0 .. FontCell[1] - 1 /\ shift[2] \in 0 .. FontCell[2] - 1
        /\ f[1] + shift[1] < FontCell[1] /\ f[2] + shift[2] < FontCell[2]
    BY <1>1 DEF IsShift
  <1>4. PICK u \in 0 .. FontCell[1] - 1, v \in 0 .. FontCell[2] - 1 :
            u = f[1] + shift[1] /\ v = f[2] + shift[2]
    BY <1>2, <1>3
  <1> DEFINE q == CellPixel(shift, x, y, u, v)
  <1>5. /\ IsDrawn(s, q) <=> \E g \in Font[CharAt(s, x, y)] : u = g[1] + shift[1] /\ v = g[2] + shift[2]
        /\ IsDrawn(r, q) <=> \E g \in Font[CharAt(r, x, y)] : u = g[1] + shift[1] /\ v = g[2] + shift[2]
    BY DrawnInCell DEF CellPixel
  <1> HIDE DEF q
  <1>6. q \in Render(s).ink
    BY <1>4, <1>5, RenderIsFrame
  <1>7. q \in Render(r).ink
    BY <1>6 DEF q
  <1>8. PICK g \in Font[CharAt(r, x, y)] : u = g[1] + shift[1] /\ v = g[2] + shift[2]
    BY <1>5, <1>7, RenderIsFrame
  <1>9. g = <<g[1], g[2]>> /\ g[1] \in Int /\ g[2] \in Int
    BY <1>1, FontCells
  <1>10. g = f
    BY <1>2, <1>3, <1>4, <1>8, <1>9
  <1> QED
    BY <1>10

(* The region holds all the message's cells, as far as they are in the     *)
(* frame.                                                                  *)
InRegion(c, X, Y) ==
    /\ c.region[1] <= X /\ X < c.region[1] + c.region[3]
    /\ c.region[2] <= Y /\ Y < c.region[2] + c.region[4]

LEMMA GoodRegion ==
    ASSUME NEW s, NEW t, NEW c, GoodLesson(s, t, c)
    PROVE  \E mask, columns :
                /\ mask.ink = Render(s).ink
                /\ \A i \in 1 .. Len(t) : columns[i] = s.at[1] - Corner(c.grid)[1]
                /\ c.region = Region(Render(s), c.grid, columns, t)
                /\ c.region_mask = FromRows(Crop(mask, c.region[1], c.region[2],
                                                 c.region[3], c.region[4]))
  <1>1. /\ OrdinaryScreen(s) /\ IsText(t) /\ IsGrid(c.grid) /\ CutsBetweenCharacters(c.grid)
        /\ Corner(c.grid)[1] <= s.at[1] /\ c # NoCalibration
    BY DEF GoodLesson
  <1>2. PICK mask, run :
          /\ IsRun(mask, run, Len(t)) /\ mask.ink = Render(s).ink
          /\ c = Build(Render(s), mask, c.grid, run, t)
    BY DEF GoodLesson
  <1> DEFINE columns == Columns(c.grid, run)
             r == Region(Render(s), c.grid, columns, t)
             Char(p) == t[p[1]][p[2]]
             glyphs == [ch \in {Char(p) : p \in Places(t)} |->
                           Picture(mask, c.grid, columns,
                                   CHOOSE p \in Places(t) : Char(p) = ch)]
  <1>3. \A i \in 1 .. Len(t) : columns[i] = s.at[1] - Corner(c.grid)[1]
    BY <1>1, <1>2, ColumnsAreRight
  <1>4. c = [width |-> Render(s).width, height |-> Render(s).height, grid |-> c.grid,
             threshold |-> Threshold(Render(s)), inverted |-> Inverted(Render(s)),
             text |-> NormaliseAll(t), glyphs |-> glyphs, region |-> r,
             region_mask |-> FromRows(Crop(mask, r[1], r[2], r[3], r[4]))]
    BY <1>1, <1>2 DEF Build
  <1> HIDE DEF r, columns, Char, glyphs
  <1>5. c.region = r /\ c.region_mask = FromRows(Crop(mask, r[1], r[2], r[3], r[4]))
    BY <1>4
  <1> QED
    BY <1>2, <1>3, <1>5 DEF r

(* Along one side: a message of l cells begins at cell a, on a grid whose  *)
(* corner is cell C of a console, of which it lies t pixels short.         *)
LEMMA MessageEnds ==
    ASSUME NEW W \in Nat \ {0}, NEW a \in Int, NEW C \in Int, NEW t \in Int, NEW l \in Int
    PROVE  /\ (C * W - t) + (a - C) * W = a * W - t
           /\ (C * W - t) + ((a - C) + l) * W = (a + l) * W - t
  <1>1. (a - C) * W = a * W - C * W
    OBVIOUS
  <1>2. ((a - C) + l) * W = (a - C) * W + l * W /\ (a + l) * W = a * W + l * W
    <2>1. PICK d \in Int : d = a - C
      OBVIOUS
    <2> QED
      BY <2>1
  <1>3. a * W \in Int /\ C * W \in Int /\ l * W \in Int /\ (a - C) * W \in Int
    OBVIOUS
  <1> QED
    BY <1>1, <1>2, <1>3

LEMMA CellInMessage ==
    ASSUME NEW W \in Nat \ {0}, NEW a \in Int, NEW t \in Int, NEW l \in Nat,
           NEW k \in 1 .. l, NEW u \in 0 .. W - 1, NEW X \in Int, X = (a + k - 1) * W - t + u
    PROVE  a * W - t <= X /\ X < (a + l) * W - t
  <1>1. PICK m \in Nat, d \in Nat : m = k - 1 /\ d = l - k
    <2>1. k - 1 \in Nat /\ l - k \in Nat
      OBVIOUS
    <2> QED
      BY <2>1
  <1>2. a + k - 1 = a + m /\ a + l = (a + m) + (d + 1)
    BY <1>1
  <1>3. (a + m) * W = a * W + m * W /\ m * W >= 0 /\ a * W \in Int /\ m * W \in Int
    BY <1>1
  <1>4. PICK e \in Int : e = a + m
    BY <1>1
  <1>5. (e + (d + 1)) * W = e * W + (d * W + W) /\ d * W >= 0 /\ d * W \in Int /\ e * W \in Int
    BY <1>4
  <1>6. X = e * W - t + u /\ (a + l) * W = e * W + (d * W + W)
    BY <1>2, <1>4, <1>5
  <1>7. a * W <= e * W
    BY <1>3, <1>4
  <1>8. PICK p \in Int, q \in Int, o \in Int, b \in Int : p = a * W /\ q = e * W /\ o = d * W /\ b = (a + l) * W
    BY <1>3, <1>5
  <1>9. o >= 0 /\ p <= q /\ b = q + (o + W) /\ X = q - t + u
    BY <1>5, <1>6, <1>7, <1>8
  <1>10. p - t <= X /\ X < b - t
    BY ONLY <1>9, W \in Nat \ {0}, t \in Int, u \in 0 .. W - 1, X \in Int, p \in Int, q \in Int, o \in Int, b \in Int
  <1> QED
    BY <1>8, <1>10

LEMMA RegionCovers ==
    ASSUME NEW s, NEW t, NEW c, GoodLesson(s, t, c), Corner(c.grid)[2] = s.at[2],
           NEW i \in 1 .. Len(t), NEW k \in 1 .. Len(t[i]),
           NEW u \in 0 .. FontCell[1] - 1, NEW v \in 0 .. FontCell[2] - 1,
           NEW X \in 0 .. s.mode.width - 1, NEW Y \in 0 .. s.mode.height - 1,
           X = (s.at[1] + k - 1) * FontCell[1] - Shift(c.grid)[1] + u,
           Y = (s.at[2] + i - 1) * FontCell[2] - Shift(c.grid)[2] + v
    PROVE  InRegion(c, X, Y)
  <1>1. /\ IsScreen(s) /\ IsText(t) /\ IsGrid(c.grid) /\ CutsBetweenCharacters(c.grid)
    BY DEF GoodLesson, OrdinaryScreen
  <1>2. PICK mask, columns :
                /\ \A j \in 1 .. Len(t) : columns[j] = s.at[1] - Corner(c.grid)[1]
                /\ c.region = Region(Render(s), c.grid, columns, t)
    BY GoodRegion
  <1>3. s.at[1] \in Nat /\ s.at[2] \in Nat /\ s.mode.width \in Nat /\ s.mode.height \in Nat
    BY <1>1 DEF IsScreen
  <1>4. /\ c.grid.cell_width = FontCell[1] /\ c.grid.cell_height = FontCell[2]
        /\ IsShift(Shift(c.grid))
        /\ Corner(c.grid)[1] \in Int
        /\ c.grid.origin_x = Corner(c.grid)[1] * FontCell[1] - Shift(c.grid)[1]
        /\ c.grid.origin_y = s.at[2] * FontCell[2] - Shift(c.grid)[2]
    BY <1>1, CornerIs
  <1>5. \A j \in 1 .. Len(t) : columns[j] \in Int
    <2>1. PICK C \in Int, a \in Int : C = Corner(c.grid)[1] /\ a = s.at[1]
      BY ONLY <1>3, <1>4
    <2>2. s.at[1] - Corner(c.grid)[1] = a - C /\ a - C \in Int
      BY <2>1
    <2> QED
      BY <1>2, <2>2
  <1>6. IsFrame(Render(s))
    BY <1>1, RenderIsFrame DEF IsFrame
  <1>7. Render(s).width = s.mode.width /\ Render(s).height = s.mode.height
    BY <1>1, RenderIsFrame
  <1> DEFINE b == Bounds(c.grid, columns, t)
             r == c.region
             n == Len(t)
             l == Len(t[i])
  <1>8. /\ b[1] \in Int /\ b[2] \in Int /\ b[3] \in Int /\ b[4] \in Int
        /\ b[2] = c.grid.origin_y /\ b[4] = c.grid.origin_y + n * c.grid.cell_height
        /\ b[1] <= c.grid.origin_x + columns[i] * c.grid.cell_width
        /\ c.grid.origin_x + (columns[i] + l) * c.grid.cell_width <= b[3]
        /\ r[1] = (IF b[1] > 0 THEN b[1] ELSE 0)
        /\ r[2] = (IF b[2] > 0 THEN b[2] ELSE 0)
        /\ r[1] + r[3] = (IF b[3] < s.mode.width THEN b[3] ELSE s.mode.width)
        /\ r[2] + r[4] = (IF b[4] < s.mode.height THEN b[4] ELSE s.mode.height)
    <2> DEFINE g == c.grid
               frame == Render(s)
               r1 == Region(frame, g, columns, t)
    <2>1. b[1] \in Int /\ b[2] \in Int /\ b[3] \in Int /\ b[4] \in Int
      BY <1>1, <1>5, <1>6, RegionIs
    <2>2. b[2] = g.origin_y /\ b[4] = g.origin_y + n * g.cell_height
      BY <1>1, <1>5, <1>6, RegionIs
    <2>3. /\ b[1] <= g.origin_x + columns[i] * g.cell_width
          /\ g.origin_x + (columns[i] + Len(t[i])) * g.cell_width <= b[3]
      BY <1>1, <1>5, <1>6, RegionIs
    <2>4. /\ r1[1] = (IF b[1] > 0 THEN b[1] ELSE 0)
          /\ r1[2] = (IF b[2] > 0 THEN b[2] ELSE 0)
      BY <1>1, <1>5, <1>6, RegionIs
    <2>5. /\ r1[1] + r1[3] = (IF b[3] < frame.width THEN b[3] ELSE frame.width)
          /\ r1[2] + r1[4] = (IF b[4] < frame.height THEN b[4] ELSE frame.height)
      BY <1>1, <1>5, <1>6, RegionIs
    <2>6. r1 = r
      BY <1>2
    <2> HIDE DEF b, r1, r
    <2> QED
      BY <1>7, <2>1, <2>2, <2>3, <2>4, <2>5, <2>6
  <1>9. n \in Nat \ {0} /\ l \in Nat \ {0} /\ i \in Int /\ k \in Int /\ i <= n /\ k <= l
    BY <1>1, TextIs
  <1> HIDE DEF b, r, n, l
  <1>10. PICK W \in Nat \ {0}, H \in Nat \ {0}, a \in Int, e \in Int, C \in Int :
            /\ W = FontCell[1] /\ H = FontCell[2] /\ a = s.at[1] /\ e = s.at[2]
            /\ C = Corner(c.grid)[1]
    <2>1. PICK W \in Nat \ {0}, H \in Nat \ {0} : W = FontCell[1] /\ H = FontCell[2]
      BY FontCells
    <2>2. PICK a \in Int, e \in Int : a = s.at[1] /\ e = s.at[2]
      BY <1>3
    <2>3. PICK C \in Int : C = Corner(c.grid)[1]
      BY <1>4
    <2> QED
      BY ONLY <2>1, <2>2, <2>3
  <1>18. PICK S1 \in Int, S2 \in Int : S1 = Shift(c.grid)[1] /\ S2 = Shift(c.grid)[2]
    BY <1>4 DEF IsShift
  <1>11. b[1] <= a * W - S1 /\ (a + l) * W - S1 <= b[3]
    <2>1. (C * W - S1) + (a - C) * W = a * W - S1
          /\ (C * W - S1) + ((a - C) + l) * W = (a + l) * W - S1
      BY <1>9, MessageEnds
    <2>2. columns[i] = a - C
      BY <1>2, <1>10
    <2>3. /\ b[1] <= (C * W - S1) + (a - C) * W
          /\ (C * W - S1) + ((a - C) + l) * W <= b[3]
      BY <1>4, <1>8, <1>10, <1>18, <2>2
    <2> QED
      BY <2>1, <2>3
  <1>12. b[2] = e * H - S2 /\ b[4] = (e + n) * H - S2
    <2>1. (e * H - S2) + n * H = (e + n) * H - S2
      <3>1. (e + n) * H = e * H + n * H /\ e * H \in Int /\ n * H \in Int
        BY <1>9
      <3> QED
        BY <3>1
    <2> QED
      BY <1>4, <1>8, <1>10, <1>18, <2>1
  <1>13. a * W - S1 <= X /\ X < (a + l) * W - S1
    <2>1. X = (a + k - 1) * W - S1 + u /\ u \in 0 .. W - 1 /\ l \in Nat /\ k \in 1 .. l /\ X \in Int
      BY <1>9, <1>10, <1>18
    <2> QED
      BY <2>1, CellInMessage
  <1>14. e * H - S2 <= Y /\ Y < (e + n) * H - S2
    <2>1. Y = (e + i - 1) * H - S2 + v /\ v \in 0 .. H - 1 /\ n \in Nat /\ i \in 1 .. n /\ Y \in Int
      BY <1>9, <1>10, <1>18
    <2> QED
      BY <2>1, CellInMessage
  <1>15. PICK A \in Int, B \in Int, D \in Int, E \in Int :
            A = a * W - S1 /\ B = (a + l) * W - S1 /\ D = e * H - S2 /\ E = (e + n) * H - S2
    <2>1. l \in Int /\ n \in Int
      BY <1>9
    <2>2. a * W \in Int /\ (a + l) * W \in Int /\ e * H \in Int /\ (e + n) * H \in Int
      BY ONLY <2>1, a \in Int, e \in Int, W \in Nat \ {0}, H \in Nat \ {0}
    <2>3. PICK A \in Int, B \in Int : A = a * W - S1 /\ B = (a + l) * W - S1
      BY ONLY <2>2, S1 \in Int
    <2>4. PICK D \in Int, E \in Int : D = e * H - S2 /\ E = (e + n) * H - S2
      BY ONLY <2>2, S2 \in Int
    <2> QED
      BY ONLY <2>3, <2>4
  <1>19. PICK w \in Int, h \in Int, b1 \in Int, b2 \in Int, b3 \in Int, b4 \in Int :
            /\ w = s.mode.width /\ h = s.mode.height
            /\ b1 = b[1] /\ b2 = b[2] /\ b3 = b[3] /\ b4 = b[4]
    <2>1. PICK w \in Int, h \in Int : w = s.mode.width /\ h = s.mode.height
      BY ONLY <1>3
    <2>2. PICK b1 \in Int, b2 \in Int : b1 = b[1] /\ b2 = b[2]
      BY ONLY <1>8
    <2>3. PICK b3 \in Int, b4 \in Int : b3 = b[3] /\ b4 = b[4]
      BY ONLY <1>8
    <2> QED
      BY ONLY <2>1, <2>2, <2>3
  <1>20. X \in Int /\ Y \in Int /\ X >= 0 /\ Y >= 0 /\ X < w /\ Y < h
    <2>1. X \in 0 .. w - 1 /\ Y \in 0 .. h - 1
      BY <1>19
    <2> QED
      BY ONLY <2>1, w \in Int, h \in Int
  <1>16. r[1] <= X /\ X < r[1] + r[3]
    <2>1. r[1] = (IF b1 > 0 THEN b1 ELSE 0) /\ r[1] + r[3] = (IF b3 < w THEN b3 ELSE w)
      BY <1>8, <1>19
    <2>2. b1 <= X /\ X < b3
      <3>1. A <= X /\ X < B
        BY ONLY <1>13, <1>15
      <3>2. b1 <= A /\ B <= b3
        BY ONLY <1>11, <1>15, <1>19
      <3> QED
        BY ONLY <1>20, <3>1, <3>2, A \in Int, B \in Int, b1 \in Int, b3 \in Int
    <2> QED
      BY <1>20, <2>1, <2>2
  <1>17. r[2] <= Y /\ Y < r[2] + r[4]
    <2>1. r[2] = (IF b2 > 0 THEN b2 ELSE 0) /\ r[2] + r[4] = (IF b4 < h THEN b4 ELSE h)
      BY <1>8, <1>19
    <2>2. b2 <= Y /\ Y < b4
      BY ONLY <1>12, <1>14, <1>15, <1>19, <1>20, D \in Int, E \in Int, b2 \in Int, b4 \in Int
    <2> QED
      BY <1>20, <2>1, <2>2
  <1> QED
    BY <1>16, <1>17 DEF InRegion, r

(* Where the region is exact the frame has the ink of the lesson. *)
LEMMA RegionNumbers ==
    ASSUME NEW s, NEW t, NEW c, GoodLesson(s, t, c)
    PROVE  /\ c.region[1] \in Int /\ c.region[2] \in Int
           /\ c.region[3] \in Int /\ c.region[4] \in Int
  <1>1. /\ IsScreen(s) /\ IsText(t) /\ IsGrid(c.grid) /\ CutsBetweenCharacters(c.grid)
    BY DEF GoodLesson, OrdinaryScreen
  <1>2. PICK mask, columns :
                /\ \A j \in 1 .. Len(t) : columns[j] = s.at[1] - Corner(c.grid)[1]
                /\ c.region = Region(Render(s), c.grid, columns, t)
    BY GoodRegion
  <1>3. PICK C \in Int, a \in Int : C = Corner(c.grid)[1] /\ a = s.at[1]
    BY <1>1, CornerIs DEF IsScreen
  <1>4. \A j \in 1 .. Len(t) : columns[j] \in Int
    <2>1. a - C \in Int
      OBVIOUS
    <2> QED
      BY <1>2, <1>3, <2>1
  <1>5. IsFrame(Render(s))
    BY <1>1, RenderIsFrame DEF IsFrame
  <1> DEFINE r == Region(Render(s), c.grid, columns, t)
  <1>6. r[1] \in Nat /\ r[2] \in Nat /\ r[3] \in Int /\ r[4] \in Int
    BY <1>1, <1>4, <1>5, RegionIs
  <1> HIDE DEF r
  <1> QED
    BY <1>2, <1>6 DEF r

LEMMA ExactIsSameInk ==
    ASSUME NEW s, NEW t, NEW c, GoodLesson(s, t, c),
           NEW mask, NEW frame, RegionMatch(c, mask, frame).exact,
           NEW X \in Int, NEW Y \in Int, InRegion(c, X, Y)
    PROVE  <<X, Y>> \in mask.ink <=> <<X, Y>> \in Render(s).ink
  <1>1. PICK old, columns :
                /\ old.ink = Render(s).ink
                /\ c.region_mask = FromRows(Crop(old, c.region[1], c.region[2],
                                                 c.region[3], c.region[4]))
    BY GoodRegion
  <1>2. PICK x \in Int, y \in Int : x = c.region[1] /\ y = c.region[2]
    BY RegionNumbers
  <1>3. PICK w \in Int, h \in Int : w = c.region[3] /\ h = c.region[4]
    BY RegionNumbers
  <1>4. x <= X /\ X < x + w /\ y <= Y /\ Y < y + h
    BY <1>2, <1>3 DEF InRegion
  <1>5. w \in Nat /\ h \in Nat /\ h > 0
    BY <1>4
  <1> DEFINE one == Crop(mask, x, y, w, h)
             other == Crop(old, x, y, w, h)
             apart == (one.ink \ other.ink) \cup (other.ink \ one.ink)
  <1>6. /\ one.width = w /\ one.height = h /\ other.width = w /\ other.height = h
        /\ one.ink = {p \in Area(w, h) : <<p[1] + x, p[2] + y>> \in mask.ink}
        /\ other.ink = {p \in Area(w, h) : <<p[1] + x, p[2] + y>> \in old.ink}
    BY DEF Crop
  <1>7. c.region_mask = other
    <2>1. c.region_mask = FromRows(other)
      BY <1>1, <1>2, <1>3
    <2> HIDE DEF other
    <2> QED
      BY <1>5, <1>6, <2>1 DEF FromRows
  <1>8. Differences(one, other) = 0
    <2>1. Differences(Crop(mask, c.region[1], c.region[2], c.region[3], c.region[4]),
                      c.region_mask) = 0
      BY DEF RegionMatch
    <2> HIDE DEF other
    <2> QED
      BY <1>2, <1>3, <1>7, <2>1
  <1> HIDE DEF one, other
  <1>9. Cardinality(apart) = 0
    <2> HIDE DEF apart
    <2>1. Differences(one, other) = Cardinality((one.ink \ other.ink) \cup (other.ink \ one.ink))
      BY <1>6 DEF Differences
    <2> QED
      BY <1>8, <2>1 DEF apart
  <1>10. apart = {}
    <2>1. IsFiniteSet(Area(w, h)) /\ apart \subseteq Area(w, h)
      BY <1>5, <1>6, AreaSize
    <2>2. IsFiniteSet(apart)
      BY <2>1, FS_Subset
    <2> HIDE DEF apart
    <2> QED
      BY <1>9, <2>2, FS_EmptySet
  <1> DEFINE p == <<X - x, Y - y>>
  <1>11. p \in Area(w, h) /\ <<p[1] + x, p[2] + y>> = <<X, Y>>
    <2>1. X - x \in 0 .. w - 1 /\ Y - y \in 0 .. h - 1 /\ (X - x) + x = X /\ (Y - y) + y = Y
      BY <1>4
    <2> QED
      BY <2>1 DEF Area
  <1>12. p \in one.ink <=> p \in other.ink
    BY <1>10
  <1> HIDE DEF p
  <1>13. (p \in one.ink <=> <<X, Y>> \in mask.ink) /\ (p \in other.ink <=> <<X, Y>> \in old.ink)
    BY <1>6, <1>11
  <1> QED
    BY <1>1, <1>12, <1>13

(* So the message stands where it stood. *)
LEMMA MessageStands ==
    ASSUME ReadableFont, NEW s, NEW t, NEW c, GoodLesson(s, t, c), s.lines = t,
           Corner(c.grid)[2] = s.at[2],
           NEW r, IsScreen(r), r.specks = {},
           NEW mask, mask.ink = Render(r).ink, RegionMatch(c, mask, Render(r)).exact,
           NEW i \in DOMAIN t, NEW k \in DOMAIN t[i]
    PROVE  Alike(CharAt(r, s.at[1] + k - 1, s.at[2] + i - 1), t[i][k])
  <1>1. /\ IsScreen(s) /\ s.specks = {} /\ IsText(t) /\ IsGrid(c.grid)
        /\ CutsBetweenCharacters(c.grid)
    BY DEF GoodLesson, OrdinaryScreen
  <1>2. i \in 1 .. Len(t) /\ k \in 1 .. Len(t[i]) /\ i \in Int /\ k \in Int /\ t[i][k] \in DOMAIN Font
    BY <1>1, TextIs
  <1>3. s.at[1] \in Nat /\ s.at[2] \in Nat
    BY <1>1 DEF IsScreen
  <1>4. PICK x \in Int, y \in Int : x = s.at[1] + k - 1 /\ y = s.at[2] + i - 1
    BY <1>2, <1>3
  <1> DEFINE S == Shift(c.grid)
  <1>5. IsShift(S)
    BY <1>1, CornerIs
  <1>6. CharAt(s, x, y) = t[i][k]
    <2>1. y - s.at[2] + 1 = i /\ x - s.at[1] + 1 = k
      BY <1>2, <1>3, <1>4
    <2> QED
      BY <2>1 DEF CharAt
  <1>7. s.mode.width = r.mode.width /\ s.mode.height = r.mode.height
    <2>1. Render(r).width = c.width /\ Render(r).height = c.height
      BY DEF RegionMatch
    <2> QED
      BY <2>1, RenderIsFrame, GoodLessonIs
  <1>8. ASSUME NEW u \in 0 .. FontCell[1] - 1, NEW v \in 0 .. FontCell[2] - 1,
               CellPixel(S, x, y, u, v) \in Area(s.mode.width, s.mode.height)
        PROVE  CellPixel(S, x, y, u, v) \in mask.ink <=> CellPixel(S, x, y, u, v) \in Render(s).ink
    <2>1. PICK X, Y : X = x * FontCell[1] - S[1] + u /\ Y = y * FontCell[2] - S[2] + v
      OBVIOUS
    <2>2. CellPixel(S, x, y, u, v) = <<X, Y>>
      BY <2>1 DEF CellPixel
    <2>3. X \in 0 .. s.mode.width - 1 /\ Y \in 0 .. s.mode.height - 1
      BY <1>8, <2>2 DEF Area
    <2>4. InRegion(c, X, Y)
      <3>1. /\ X = (s.at[1] + k - 1) * FontCell[1] - S[1] + u
            /\ Y = (s.at[2] + i - 1) * FontCell[2] - S[2] + v
        BY <1>4, <2>1
      <3> HIDE DEF S
      <3> QED
        BY <1>2, <2>3, <3>1, RegionCovers DEF S
    <2>5. X \in Int /\ Y \in Int
      BY <2>3
    <2> QED
      BY <2>2, <2>4, <2>5, ExactIsSameInk
  <1> HIDE DEF S
  <1>9. Render(s).ink \subseteq Area(s.mode.width, s.mode.height)
        /\ Render(r).ink \subseteq Area(s.mode.width, s.mode.height)
    BY <1>1, <1>7, RenderIsFrame
  <1>10. Font[CharAt(s, x, y)] \subseteq Font[CharAt(r, x, y)]
    <2>1. \A u \in 0 .. FontCell[1] - 1, v \in 0 .. FontCell[2] - 1 :
                CellPixel(S, x, y, u, v) \in Render(s).ink
                    => CellPixel(S, x, y, u, v) \in Render(r).ink
      BY <1>8, <1>9
    <2> QED
      BY <1>1, <1>5, <2>1, InkTellsCharacter
  <1>11. Font[CharAt(r, x, y)] \subseteq Font[CharAt(s, x, y)]
    <2>1. \A u \in 0 .. FontCell[1] - 1, v \in 0 .. FontCell[2] - 1 :
                CellPixel(S, x, y, u, v) \in Render(r).ink
                    => CellPixel(S, x, y, u, v) \in Render(s).ink
      BY <1>8, <1>9
    <2> QED
      BY <1>1, <1>5, <2>1, InkTellsCharacter
  <1>12. PICK d : d = CharAt(r, x, y)
    OBVIOUS
  <1>13. d \in DOMAIN Font /\ Font[d] = Font[t[i][k]]
    BY <1>6, <1>10, <1>11, <1>12, CharAtIs
  <1>14. Fold[d] = Fold[t[i][k]]
    BY <1>2, <1>13 DEF ReadableFont
  <1>15. d = Space <=> t[i][k] = Space
    <2>1. \A e \in DOMAIN Font : Font[e] = {} <=> e = Space
      BY FontCells DEF ReadableFont
    <2> QED
      BY <1>2, <1>13, <2>1
  <1> QED
    BY <1>4, <1>12, <1>14, <1>15 DEF Alike

(* And can be read. *)
LEMMA ExactSays ==
    ASSUME ReadableFont, NEW s, NEW t, NEW c, GoodLesson(s, t, c), s.lines = t,
           Corner(c.grid)[2] = s.at[2],
           NEW r, IsScreen(r), r.specks = {},
           NEW mask, mask.ink = Render(r).ink, RegionMatch(c, mask, Render(r)).exact
    PROVE  Says(Reads(r), NormaliseAll(t))
  <1>1. IsScreen(s) /\ IsText(t)
    BY DEF GoodLesson, OrdinaryScreen
  <1>2. PICK a \in Int, e \in Int : a = s.at[1] /\ e = s.at[2]
    BY <1>1 DEF IsScreen
  <1>3. PICK b \in Int, f \in Int : b = r.at[1] /\ f = r.at[2]
    BY DEF IsScreen
  <1> DEFINE n == Len(r.lines)
             columns == PlainColumns(r)
             plain == PlainChars(r)
  <1>4. n \in Nat /\ columns \in Nat /\ Reads(r) = InRows(n, columns, plain)
    BY ReadsIs
  <1>5. \A i, k \in Int :
            i \in DOMAIN r.lines /\ k \in DOMAIN r.lines[i] /\ r.lines[i][k] # Space
                => i \in 1 .. n /\ k \in 1 .. columns
    <2> DEFINE Shown(i, k) == IsMark(Len(r.lines), PlainColumns(r), PlainChars(r), i, k)
    <2>1. \A i, k \in Int : Shown(i, k) <=>
                i \in DOMAIN r.lines /\ k \in DOMAIN r.lines[i] /\ r.lines[i][k] # Space
      BY ONLY IsScreen(r), ReadsIs DEF Shown
    <2>2. \A i, k \in Int : Shown(i, k) => i \in 1 .. n /\ k \in 1 .. columns
      BY DEF IsMark
    <2> HIDE DEF n, columns, Shown
    <2> QED
      BY <2>1, <2>2
  <1>6. \A i \in DOMAIN r.lines : \A k \in DOMAIN r.lines[i] : plain[<<i, k>>] = r.lines[i][k]
    BY ReadsIs
  <1>7. \A i \in DOMAIN r.lines : DOMAIN r.lines[i] = 1 .. Len(r.lines[i]) /\ Len(r.lines[i]) \in Nat
    BY LinesAre DEF IsScreen
  <1> HIDE DEF n, columns, plain
  <1>8. ASSUME NEW i \in DOMAIN t
        PROVE  IsPartOf(Normalise(t[i]), Normalise(Reads(r)))
    <2>1. PICK m \in Nat \ {0} : m = Len(t[i])
      BY <1>1, TextIs
    <2>2. DOMAIN t[i] = 1 .. m /\ t[i][1] # Space /\ t[i][m] # Space /\ i \in Int
      BY <1>1, <2>1, TextIs
    <2>3. PICK j \in Int, x \in Int : j = (e + i - 1) - f + 1 /\ x = a - b
      BY <2>2
    <2> DEFINE d(k) == CharAt(r, s.at[1] + k - 1, s.at[2] + i - 1)
    <2>4. \A k \in 1 .. m : Alike(d(k), t[i][k])
      BY <2>2, MessageStands
    <2>5. \A k \in 1 .. m :
            d(k) = IF j \in DOMAIN r.lines /\ k + x \in DOMAIN r.lines[j]
                   THEN r.lines[j][k + x] ELSE Space
      <3> TAKE k \in 1 .. m
      <3>1. (s.at[2] + i - 1) - r.at[2] + 1 = j /\ (s.at[1] + k - 1) - r.at[1] + 1 = k + x
        <4>1. (e + i - 1) - f + 1 = j /\ (a + k - 1) - b + 1 = k + x
          BY <2>2, <2>3
        <4> QED
          BY ONLY <1>2, <1>3, <4>1
      <3> QED
        BY <3>1 DEF CharAt
    <2> HIDE DEF d
    <2>6. d(1) # Space /\ d(m) # Space
      BY <2>2, <2>4 DEF Alike
    <2>7. /\ j \in DOMAIN r.lines /\ 1 + x \in DOMAIN r.lines[j] /\ m + x \in DOMAIN r.lines[j]
          /\ r.lines[j][1 + x] # Space /\ r.lines[j][m + x] # Space
      BY <2>5, <2>6
    <2>8. j \in 1 .. n /\ 1 + x \in 1 .. columns /\ m + x \in 1 .. columns
      BY <1>5, <2>7
    <2>9. \A k \in 1 .. m : k + x \in 1 .. columns /\ Alike(plain[<<j, k + x>>], t[i][k])
      <3> TAKE k \in 1 .. m
      <3>1. k + x \in 1 .. columns
        BY <1>4, <2>8
      <3>2. k + x \in DOMAIN r.lines[j]
        BY <1>7, <2>7
      <3>3. plain[<<j, k + x>>] = d(k)
        BY <1>6, <2>5, <2>7, <3>2
      <3> QED
        BY <2>4, <3>1, <3>3
    <2>10. IsWriting(t[i], m) /\ m # 0
      BY <2>1, <2>2 DEF IsWriting
    <2> QED
      BY <1>4, <2>2, <2>8, <2>9, <2>10, LineInRows
  <1> QED
    BY <1>8 DEF Says, NormaliseAll

-----------------------------------------------------------------------------
(* Nothing but the message is seen *)

(* What is read, beyond what is unknown, is on the screen. *)
LEMMA ReadIsSaid ==
    ASSUME ReadableFont, UnknownStandsAlone, NEW c, IsReader(c),
           NEW s, IsScreen(s), s.specks = {}, InReach(s, c.grid),
           NEW mask, mask.ink = Render(s).ink,
           mask.width = s.mode.width, mask.height = s.mode.height,
           NEW told, \A i \in DOMAIN told : Len(told[i]) \in Nat,
           \A i \in DOMAIN told : \A k \in 1 .. Len(told[i]) : told[i][k] # Fold[Unknown],
           Says(ReadScreen(c, mask), told)
    PROVE  Says(Reads(s), told)
  <1> DEFINE y == Down(s, c)
             x == Right(s, c)
             v == Reads(s)
             w == ReadScreen(c, mask)
             plain == PlainChars(s)
             read == ReadChars(c, mask)
             r == Len(s.lines)
             q == PlainColumns(s)
             rows == ReadRows(c, mask)
             columns == ReadColumns(c, mask)
  <1>1. v = InRows(r, q, plain) /\ r \in Nat /\ q \in Nat
    BY ReadsIs
  <1>2. \A i, k \in Int : IsMark(r, q, plain, i, k) =>
            /\ i \in DOMAIN s.lines /\ k \in DOMAIN s.lines[i]
            /\ s.lines[i][k] # Space /\ plain[<<i, k>>] = s.lines[i][k]
    <2> DEFINE Shown(i, k) == IsMark(Len(s.lines), PlainColumns(s), PlainChars(s), i, k)
    <2>1. \A i, k \in Int : Shown(i, k) <=>
                i \in DOMAIN s.lines /\ k \in DOMAIN s.lines[i] /\ s.lines[i][k] # Space
      BY ONLY IsScreen(s), ReadsIs DEF Shown
    <2>2. \A i \in DOMAIN s.lines : \A k \in DOMAIN s.lines[i] : plain[<<i, k>>] = s.lines[i][k]
      BY ReadsIs
    <2>3. \A i, k \in Int : Shown(i, k) <=> IsMark(r, q, plain, i, k)
      OBVIOUS
    <2> HIDE DEF r, q, plain, Shown
    <2> QED
      BY <2>1, <2>2, <2>3
  <1>3. w = InRows(rows, columns, read) /\ rows \in Nat /\ columns \in Nat
    BY ReadingIs
  <1>4. Unknown # Space
    BY FontCells DEF UnknownStandsAlone
  <1>5. AreMoved(r, q, plain, rows, columns, read, y, x)
    BY <1>4, ReadingIsMoved
  <1>6. y \in Int /\ x \in Int
    BY DEF Down, Right, Margin, IsScreen
  <1>7. ASSUME NEW i \in Int, NEW k \in Int, IsMark(r, q, plain, i, k)
        PROVE  \/ Fold[read[<<i + y, k + x>>]] = Fold[Unknown]
               \/ Fold[read[<<i + y, k + x>>]] = Fold[plain[<<i, k>>]]
    <2>1. /\ i \in DOMAIN s.lines /\ k \in DOMAIN s.lines[i]
          /\ s.lines[i][k] # Space /\ plain[<<i, k>>] = s.lines[i][k]
      BY <1>2, <1>7
    <2>2. IsClean(s, c, i, k)
      BY DEF IsClean, NoSpeckIn
    <2>3. read[<<i + y, k + x>>] = CharOf(c, PictureOf(s.lines[i][k], Shift(c.grid)))
      BY <2>1, <2>2, CellIsRead
    <2>4. s.lines[i][k] \in DOMAIN Font
      BY <2>1, LinesAre DEF IsScreen
    <2> DEFINE d == s.lines[i][k]
               e == CharOf(c, PictureOf(d, Shift(c.grid)))
    <2>5. d # Space => e = Unknown \/ (e # Space /\ Fold[e] = Fold[d])
      BY <2>4, CharOfIs
    <2> HIDE DEF d, e
    <2> QED
      BY <2>1, <2>3, <2>5 DEF d, e
  <1> HIDE DEF v, w, plain, read, y, x, r, q, rows, columns
  <1>8. MeanTheSame(r, q, plain, rows, columns, read, y, x)
    BY <1>1, <1>3, <1>5, <1>6, MovedRows
  <1>9. /\ Len(Normalise(v)) \in Nat /\ Len(Normalise(v)) = Len(Normalise(w))
        /\ \A n \in 1 .. Len(Normalise(v)) :
                \/ Normalise(v)[n] = Fold[Space] /\ Normalise(w)[n] = Fold[Space]
                \/ \E i, k \in Int : /\ IsMark(r, q, plain, i, k)
                                     /\ Normalise(v)[n] = Fold[plain[<<i, k>>]]
                                     /\ Normalise(w)[n] = Fold[read[<<i + y, k + x>>]]
    BY <1>1, <1>3, <1>8 DEF MeanTheSame
  <1>10. \A n \in 1 .. Len(Normalise(w)) :
            Normalise(w)[n] = Normalise(v)[n] \/ Normalise(w)[n] = Fold[Unknown]
    <2> TAKE n \in 1 .. Len(Normalise(w))
    <2>1. n \in 1 .. Len(Normalise(v))
      BY <1>9
    <2>2. CASE Normalise(v)[n] = Fold[Space] /\ Normalise(w)[n] = Fold[Space]
      BY <2>2
    <2>3. CASE \E i, k \in Int : /\ IsMark(r, q, plain, i, k)
                                 /\ Normalise(v)[n] = Fold[plain[<<i, k>>]]
                                 /\ Normalise(w)[n] = Fold[read[<<i + y, k + x>>]]
      BY <1>7, <2>3
    <2> QED
      BY <1>9, <2>1, <2>2, <2>3
  <1>11. ASSUME NEW i \in DOMAIN told
         PROVE  IsPartOf(told[i], Normalise(v))
    <2>1. IsPartOf(told[i], Normalise(w))
      BY DEF Says, w
    <2>2. Len(told[i]) \in Nat /\ \A k \in 1 .. Len(told[i]) : told[i][k] # Fold[Unknown]
      OBVIOUS
    <2>3. Len(Normalise(w)) \in Nat
      BY <1>9
    <2>4. PICK part, a, b, o :
                part = told[i] /\ a = Normalise(w) /\ b = Normalise(v) /\ o = Fold[Unknown]
      OBVIOUS
    <2>5. /\ Len(part) \in Nat /\ Len(a) \in Nat /\ Len(b) = Len(a)
          /\ \A k \in 1 .. Len(part) : part[k] # o
          /\ \A k \in 1 .. Len(a) : a[k] = b[k] \/ a[k] = o
          /\ IsPartOf(part, a)
      BY <1>9, <1>10, <2>1, <2>2, <2>3, <2>4
    <2>6. IsPartOf(part, b)
      BY ONLY <2>5, PartCarries
    <2> QED
      BY <2>4, <2>6
  <1> QED
    BY <1>11 DEF Says, v

(* No line of a text has a character that stands for an unknown one.       *)
LEMMA TextIsKnown ==
    ASSUME UnknownStandsAlone, NEW t, IsText(t)
    PROVE  \A i \in DOMAIN NormaliseAll(t) :
                \A k \in 1 .. Len(NormaliseAll(t)[i]) : NormaliseAll(t)[i][k] # Fold[Unknown]
  <1>1. ASSUME NEW i \in DOMAIN t, NEW k \in 1 .. Len(Normalise(t[i]))
        PROVE  Normalise(t[i])[k] # Fold[Unknown]
    <2>1. PICK m : m = Len(t[i]) /\ IsWriting(t[i], m) /\ \A j \in 1 .. m : t[i][j] \in DOMAIN Font
      BY TextIs DEF IsWriting
    <2> DEFINE K == Kept(t[i])
    <2>2. IsWriting(Normalise(t[i]), Cardinality(K))
      BY <2>1, NormaliseIs
    <2>3. k \in 1 .. Cardinality(K)
      BY <2>2 DEF IsWriting
    <2>4. Normalise(t[i])[k] = Fold[t[i][InOrder(K)[k]]]
      BY <2>1, <2>3, NormaliseIs
    <2>5. K \subseteq 1 .. m /\ IsFiniteSet(K)
      BY <2>1, KeptAre
    <2>6. m \in Nat
      BY <2>1 DEF IsWriting
    <2> HIDE DEF K
    <2>7. K \subseteq Int
      BY <2>5, <2>6
    <2>8. InOrder(K)[k] \in K
      BY <2>3, <2>5, <2>7, InOrderIs
    <2>9. t[i][InOrder(K)[k]] \in DOMAIN Font
      BY <2>1, <2>5, <2>8
    <2> QED
      BY <2>4, <2>9 DEF UnknownStandsAlone
  <1> QED
    BY <1>1 DEF NormaliseAll

(* The console shows its characters, and no more, in colours and at places *)
(* where the calibration can see them.                                     *)
PlainView ==
    /\ screen.specks = {}
    /\ Legible(screen, daemon.calibration)
    /\ InReach(screen, daemon.calibration.grid)

LEMMA LearnInvOnly ==
    ASSUME OrdinaryLessons, ReadableFont, UnknownStandsAlone, LearnInv, EvidenceInv, PlainView
    PROVE  OnlyTheMessage
  <1> DEFINE c == daemon.calibration
             l == daemon.lesson
             t == daemon.lines
             s == screen
             mask == Binarise(Render(s), c.threshold, c.inverted)
  <1>1. SUFFICES ASSUME Matched, LearnedOnItsGrid
                 PROVE  Says(Reads(s), NormaliseAll(t))
    BY DEF OnlyTheMessage
  <1>2. /\ c # NoCalibration /\ l.screen.lines = l.lines /\ l.screen.specks = {}
        /\ CutsBetweenCharacters(c.grid)
        /\ Corner(c.grid)[1] <= l.screen.at[1] /\ Corner(c.grid)[2] = l.screen.at[2]
    BY <1>1 DEF LearnedOnItsGrid, LearnedFromTheMessage
  <1>3. /\ FromLesson(l, c) /\ s \in Screens /\ t \in Texts /\ MatchesText(c, t)
        /\ Detected(c, Render(s)) \in {"region", "region+glyph", "glyph"}
    BY <1>1, <1>2, AnswersDiffer DEF LearnInv, EvidenceInv, Matched
  <1>4. /\ IsScreen(s) /\ IsText(t)
        /\ s.specks = {} /\ Legible(s, c) /\ InReach(s, c.grid)
    BY <1>3, DetectAssumption DEF PlainView
  <1> HIDE DEF c, l, t, s
  <1>5. GoodLesson(l.screen, l.lines, c)
    BY <1>2, <1>3, LessonIsGood
  <1>6. IsReader(c) /\ c.threshold \in Int
    BY <1>2, <1>5, GoodLessonReads, GoodThreshold
  <1>7. mask.ink = Render(s).ink /\ mask.width = s.mode.width /\ mask.height = s.mode.height
    BY <1>4, <1>6, LegibleMask
  <1>8. RegionMatch(c, mask, Render(s)).exact \/ GlyphMatch(c, mask)
    BY <1>3, YesIsExactOrRead
  <1>9. c.text = NormaliseAll(t) /\ c.text = NormaliseAll(l.lines)
    BY <1>3, <1>5, GoodLessonIs DEF MatchesText
  <1> HIDE DEF mask
  <1>10. CASE RegionMatch(c, mask, Render(s)).exact
    <2>1. Says(Reads(s), NormaliseAll(l.lines))
      BY <1>2, <1>4, <1>5, <1>7, <1>10, ExactSays
    <2> QED
      BY <1>9, <2>1
  <1>11. CASE GlyphMatch(c, mask)
    <2>1. Says(ReadScreen(c, mask), NormaliseAll(t))
      BY <1>9, <1>11 DEF GlyphMatch
    <2>2. \A i \in DOMAIN NormaliseAll(t) : Len(NormaliseAll(t)[i]) \in Nat
      BY <1>4, NormalisedText
    <2>3. \A i \in DOMAIN NormaliseAll(t) :
                \A k \in 1 .. Len(NormaliseAll(t)[i]) : NormaliseAll(t)[i][k] # Fold[Unknown]
      BY <1>4, TextIsKnown
    <2> QED
      BY <1>4, <1>6, <1>7, <2>1, <2>2, <2>3, ReadIsSaid
  <1> QED
    BY <1>8, <1>10, <1>11 DEF s, t

(* detect: when a screen is in plain view, a yes means that every line of  *)
(* the configured text can be read on it.  Neither the search for a grid,  *)
(* nor a near match, nor an old file or text, nor an unknown character     *)
(* makes another text the message.                                         *)
THEOREM YesMeansTheMessage ==
    ASSUME OrdinaryLessons, ReadableFont, UnknownStandsAlone
    PROVE  Spec => [](PlainView => OnlyTheMessage)
<1>1. Init => LearnInv /\ EvidenceInv
  BY LearnInit, EvidenceInit
<1>2. LearnInv /\ EvidenceInv /\ [Next]_vars => (LearnInv /\ EvidenceInv)'
  BY LearnNext, EvidenceNext
<1>3. LearnInv /\ EvidenceInv => (PlainView => OnlyTheMessage)
  BY LearnInvOnly
<1> QED
  BY <1>1, <1>2, <1>3, PTL DEF Spec
=============================================================================
