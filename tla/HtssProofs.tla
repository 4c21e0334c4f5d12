----------------------------- MODULE HtssProofs -----------------------------
(***************************************************************************)
(* Proofs about threshold sharing.                                         *)
(*                                                                         *)
(* About the field (modules Shamir and Sharing), for every prime modulus,  *)
(* threshold and number of shares: inverses are exact; interpolation of    *)
(* distinct points gives back the first coefficient; repeated points have  *)
(* no value; fewer points than the threshold fit every secret.             *)
(*                                                                         *)
(* About Htss, for every byte width, set of deals, derivation of the       *)
(* coefficients and every way of altering shares: which lists of shares    *)
(* are interpolated at all, that what was split is given back byte for     *)
(* byte, that sharing implements ThresholdSharing, and that the byte form  *)
(* of a list says what the list says (module ShareBytes).                  *)
(***************************************************************************)
EXTENDS ShareBytes, Sharing, WellFoundedInduction, FiniteSetTheorems, TLAPS

(* Congruence.                                                             *)
Cong(a, b, m) == \E k \in Int : a = b + k * m

LEMMA CongSums ==
  ASSUME NEW m \in Int, NEW a \in Int, NEW b \in Int, NEW c \in Int, NEW d \in Int,
         Cong(a, b, m), Cong(c, d, m)
  PROVE  Cong(a + c, b + d, m) /\ Cong(a - c, b - d, m)
<1>1. PICK k \in Int : a = b + k * m
  BY DEF Cong
<1>2. PICK l \in Int : c = d + l * m
  BY DEF Cong
<1>3. a + c = (b + d) + (k + l) * m /\ a - c = (b - d) + (k - l) * m
  BY <1>1, <1>2
<1>4. k + l \in Int /\ k - l \in Int
  OBVIOUS
<1> QED
  BY <1>3, <1>4 DEF Cong

LEMMA CongProducts ==
  ASSUME NEW m \in Int, NEW a \in Int, NEW b \in Int, NEW c \in Int, NEW d \in Int,
         Cong(a, b, m), Cong(c, d, m)
  PROVE  Cong(a * c, b * d, m)
<1>1. PICK k \in Int : a = b + k * m
  BY DEF Cong
<1>2. PICK l \in Int : c = d + l * m
  BY DEF Cong
<1>3. a * c = b * d + (b * l + k * d + k * l * m) * m
  <2>1. a * c = (b + k * m) * (d + l * m)
    BY <1>1, <1>2
  <2>2. (b + k * m) * (d + l * m) = b * d + (b * l + k * d + k * l * m) * m
    OBVIOUS
  <2> QED
    BY <2>1, <2>2
<1>4. b * l + k * d + k * l * m \in Int
  OBVIOUS
<1> QED
  BY <1>3, <1>4 DEF Cong

LEMMA CongScale ==
  ASSUME NEW m \in Int, NEW a \in Int, NEW b \in Int, NEW c \in Int, Cong(a, b, m)
  PROVE  Cong(a * c, b * c, m)
<1>1. PICK k \in Int : a = b + k * m
  BY DEF Cong
<1>2. a * c = b * c + (k * c) * m /\ k * c \in Int
  BY <1>1
<1> QED
  BY <1>2 DEF Cong

LEMMA CongEquivalence ==
  ASSUME NEW m \in Int, NEW a \in Int, NEW b \in Int, NEW c \in Int
  PROVE  /\ Cong(a, a, m)
         /\ Cong(a, b, m) => Cong(b, a, m)
         /\ Cong(a, b, m) /\ Cong(b, c, m) => Cong(a, c, m)
<1>1. Cong(a, a, m)
  <2>1. a = a + 0 * m /\ 0 \in Int
    OBVIOUS
  <2> QED
    BY <2>1 DEF Cong
<1>2. ASSUME Cong(a, b, m) PROVE Cong(b, a, m)
  <2>1. PICK k \in Int : a = b + k * m
    BY <1>2 DEF Cong
  <2>2. b = a + (- k) * m /\ - k \in Int
    BY <2>1
  <2> QED
    BY <2>2 DEF Cong
<1>3. ASSUME Cong(a, b, m), Cong(b, c, m) PROVE Cong(a, c, m)
  <2>1. PICK k \in Int : a = b + k * m
    BY <1>3 DEF Cong
  <2>2. PICK l \in Int : b = c + l * m
    BY <1>3 DEF Cong
  <2>3. a = c + (k + l) * m /\ k + l \in Int
    BY <2>1, <2>2
  <2> QED
    BY <2>3 DEF Cong
<1> QED
  BY <1>1, <1>2, <1>3

LEMMA CongResidue ==
  ASSUME NEW m \in Nat, m > 0, NEW a \in Int
  PROVE  Cong(a % m, a, m) /\ a % m \in 0 .. m - 1
<1>1. a = (a \div m) * m + (a % m) /\ a \div m \in Int /\ a % m \in 0 .. m - 1
  OBVIOUS
<1>2. a % m = a + (- (a \div m)) * m /\ - (a \div m) \in Int
  BY <1>1
<1> QED
  BY <1>1, <1>2 DEF Cong

(* Congruent residues are equal.                                           *)
LEMMA CongUnique ==
  ASSUME NEW m \in Nat, m > 0, NEW a \in 0 .. m - 1, NEW b \in 0 .. m - 1, Cong(a, b, m)
  PROVE  a = b
<1>1. PICK k \in Int : a = b + k * m
  BY DEF Cong
<1>2. CASE k >= 1
  <2>1. k * m >= m
    BY <1>2
  <2> QED
    BY <1>1, <2>1
<1>3. CASE k <= -1
  <2>1. k * m <= - m
    BY <1>3
  <2> QED
    BY <1>1, <2>1
<1>4. CASE k = 0
  BY <1>1, <1>4
<1> QED
  BY <1>2, <1>3, <1>4

Size(x) == IF x < 0 THEN - x ELSE x

Divides(d, x) == Cong(x, 0, d)

EuclidState == [t : Int, newt : Int, r : Nat, newr : Nat]

(* What holds between two divisions: both remainders are multiples of a,   *)
(* modulo m, whose factors alternate in sign and grow up to m, and what    *)
(* divides both remainders divides m and a.                                *)
EuclidInv(e, a, m) ==
  /\ e \in EuclidState /\ e.newr < e.r
  /\ Cong(e.r, e.t * a, m) /\ Cong(e.newr, e.newt * a, m)
  /\ (e.t >= 0 /\ e.newt <= 0) \/ (e.t <= 0 /\ e.newt >= 0)
  /\ Size(e.t) <= Size(e.newt)
  /\ Size(e.newt) * e.r + Size(e.t) * e.newr = m
  /\ \A d \in Nat : Divides(d, e.r) /\ Divides(d, e.newr) => Divides(d, m) /\ Divides(d, a)

EuclidNext(e) ==
  IF e.newr = 0 THEN e
  ELSE [t  |-> e.newt, newt |-> e.t - (e.r \div e.newr) * e.newt,
        r  |-> e.newr, newr |-> e.r - (e.r \div e.newr) * e.newr]

EuclidStart(a, m) == [t |-> 0, newt |-> 1, r |-> m, newr |-> a % m]

LEMMA EuclidStarts ==
  ASSUME NEW m \in Nat, m > 1, NEW a \in Int
  PROVE  EuclidInv(EuclidStart(a, m), a, m)
<1> DEFINE e == EuclidStart(a, m)
<1>1. e.t = 0 /\ e.newt = 1 /\ e.r = m /\ e.newr = a % m
  BY DEF EuclidStart
<1>2. a % m \in 0 .. m - 1 /\ Cong(a % m, a, m)
  BY CongResidue
<1>3. e \in EuclidState
  BY <1>2 DEF EuclidStart, EuclidState
<1>4. Cong(m, 0, m)
  <2>1. m = 0 + 1 * m /\ 1 \in Int
    OBVIOUS
  <2> QED
    BY <2>1 DEF Cong
<1>5. ASSUME NEW d \in Nat, Divides(d, m), Divides(d, a % m) PROVE Divides(d, a)
  <2>1. PICK k \in Int : m = 0 + k * d
    BY <1>5 DEF Divides, Cong
  <2>2. PICK l \in Int : a % m = 0 + l * d
    BY <1>5 DEF Divides, Cong
  <2>3. PICK j \in Int : a % m = a + j * m
    BY <1>2 DEF Cong
  <2>4. a = l * d - j * (k * d)
    BY <2>1, <2>2, <2>3
  <2>5. l * d - j * (k * d) = 0 + (l - j * k) * d
    OBVIOUS
  <2>6. l - j * k \in Int
    OBVIOUS
  <2> QED
    BY <2>4, <2>5, <2>6 DEF Divides, Cong
<1>6. 0 * a = 0 /\ 1 * a = a
  OBVIOUS
<1>7. Size(0) = 0 /\ Size(1) = 1 /\ 1 * m + 0 * (a % m) = m
  BY <1>2 DEF Size
<1> HIDE DEF e
<1> QED
  BY <1>1, <1>2, <1>3, <1>4, <1>5, <1>6, <1>7 DEF EuclidInv, e

LEMMA EuclidKeeps ==
  ASSUME NEW m \in Nat, m > 1, NEW a \in Int, NEW e, EuclidInv(e, a, m)
  PROVE  /\ EuclidInv(EuclidNext(e), a, m)
         /\ e.newr # 0 => EuclidNext(e).newr < e.newr
<1>1. CASE e.newr = 0
  BY <1>1 DEF EuclidNext
<1>2. CASE e.newr # 0
  <2> DEFINE t == e.t
             newt == e.newt
             r == e.r
             newr == e.newr
             q == r \div newr
             rem == r - q * newr
             nt == t - q * newt
             n == EuclidNext(e)
  <2>1. t \in Int /\ newt \in Int /\ r \in Nat /\ newr \in Nat /\ newr > 0 /\ newr < r
    BY <1>2 DEF EuclidInv, EuclidState
  <2>2. q \in Nat /\ r = q * newr + (r % newr) /\ r % newr \in 0 .. newr - 1
    BY <2>1
  <2>3. rem \in Nat /\ rem < newr /\ r = q * newr + rem
    <3>1. PICK x \in 0 .. newr - 1 : r = q * newr + x
      BY <2>2
    <3> HIDE DEF q, r, newr
    <3>2. q * newr \in Int
      BY <2>1, <2>2
    <3> QED
      BY <2>1, <3>1, <3>2 DEF rem
  <2>4. q >= 1
    <3>1. ASSUME q = 0 PROVE FALSE
      BY <2>1, <2>3, <3>1
    <3> QED
      BY <2>2, <3>1
  <2>5. n.t = newt /\ n.newt = nt /\ n.r = newr /\ n.newr = rem
    BY <1>2 DEF EuclidNext
  <2>6. nt \in Int /\ q \in Int /\ n \in EuclidState
    <3>1. n = [t |-> newt, newt |-> nt, r |-> newr, newr |-> rem]
      BY <1>2 DEF EuclidNext
    <3> HIDE DEF t, newt, r, newr, q, rem, n
    <3>2. nt \in Int /\ q \in Int
      BY <2>1, <2>2 DEF nt
    <3> HIDE DEF nt
    <3> QED
      BY <2>1, <2>3, <3>1, <3>2 DEF EuclidState
  <2>7. /\ Cong(r, t * a, m) /\ Cong(newr, newt * a, m)
        /\ (t >= 0 /\ newt <= 0) \/ (t <= 0 /\ newt >= 0)
        /\ Size(t) <= Size(newt)
        /\ Size(newt) * r + Size(t) * newr = m
        /\ \A d \in Nat : Divides(d, r) /\ Divides(d, newr) => Divides(d, m) /\ Divides(d, a)
    BY DEF EuclidInv
  <2> HIDE DEF t, newt, r, newr, q, rem, nt, n
  <2>8. rem = r - q * newr /\ nt = t - q * newt
    BY DEF rem, nt
  <2>9. Cong(rem, nt * a, m)
    <3>1. t * a \in Int /\ newt * a \in Int /\ m \in Int /\ q * newr \in Int /\ q * (newt * a) \in Int
      BY <2>1, <2>6
    <3>2. Cong(q, q, m)
      BY <2>6, CongEquivalence
    <3>3. Cong(q * newr, q * (newt * a), m)
      BY <2>1, <2>6, <2>7, <3>1, <3>2, CongProducts
    <3>4. Cong(r - q * newr, t * a - q * (newt * a), m)
      BY <2>1, <2>7, <3>1, <3>3, CongSums
    <3>5. t * a - q * (newt * a) = (t - q * newt) * a
      BY <2>1, <2>6
    <3> QED
      BY <2>8, <3>4, <3>5
  <2>10. Size(nt) = Size(t) + q * Size(newt)
    <3>1. CASE t >= 0 /\ newt <= 0
      <4>1. q * newt <= 0 /\ q * (- newt) = - (q * newt) /\ q * newt \in Int
        BY <2>1, <2>2, <3>1
      <4> QED
        BY <2>1, <2>8, <3>1, <4>1 DEF Size
    <3>2. CASE t <= 0 /\ newt >= 0
      <4>1. q * newt >= 0 /\ q * newt \in Int /\ q * (- newt) = - (q * newt)
        BY <2>1, <2>2, <3>2
      <4> QED
        BY <2>1, <2>8, <3>2, <4>1 DEF Size
    <3> QED
      BY <2>7, <3>1, <3>2
  <2>11. (newt >= 0 /\ nt <= 0) \/ (newt <= 0 /\ nt >= 0)
    <3>1. CASE t >= 0 /\ newt <= 0
      <4>1. q * newt <= 0 /\ q * newt \in Int
        BY <2>1, <2>2, <3>1
      <4> QED
        BY <2>1, <2>8, <3>1, <4>1
    <3>2. CASE t <= 0 /\ newt >= 0
      <4>1. q * newt >= 0 /\ q * newt \in Int
        BY <2>1, <2>2, <3>2
      <4> QED
        BY <2>1, <2>8, <3>2, <4>1
    <3> QED
      BY <2>7, <3>1, <3>2
  <2>12. Size(t) \in Nat /\ Size(newt) \in Nat
    BY <2>1 DEF Size
  <2>13. Size(newt) <= Size(nt)
    <3>1. q * Size(newt) >= Size(newt)
      BY <2>2, <2>4, <2>12
    <3> QED
      BY <2>2, <2>10, <2>12, <3>1
  <2>14. Size(nt) * newr + Size(newt) * rem = m
    <3>1. (Size(t) + q * Size(newt)) * newr + Size(newt) * (r - q * newr) = Size(newt) * r + Size(t) * newr
      BY <2>1, <2>2, <2>12
    <3> QED
      BY <2>7, <2>8, <2>10, <3>1
  <2>15. ASSUME NEW d \in Nat, Divides(d, newr), Divides(d, rem) PROVE Divides(d, r)
    <3>1. PICK k \in Int : newr = 0 + k * d
      BY <2>15 DEF Divides, Cong
    <3>2. PICK l \in Int : rem = 0 + l * d
      BY <2>15 DEF Divides, Cong
    <3>3. r = q * (k * d) + l * d
      BY <2>3, <3>1, <3>2
    <3>4. q * (k * d) + l * d = 0 + (q * k + l) * d /\ q * k + l \in Int
      BY <2>6
    <3> QED
      BY <3>3, <3>4 DEF Divides, Cong
  <2>16. EuclidInv(n, a, m)
    BY <2>3, <2>5, <2>6, <2>7, <2>9, <2>11, <2>13, <2>14, <2>15 DEF EuclidInv
  <2> QED
    BY <2>3, <2>5, <2>16 DEF n, newr
<1> QED
  BY <1>1, <1>2

(* Every nonempty set of naturals has a least member.                      *)
LEMMA LeastNatural ==
  ASSUME NEW S, S \subseteq Nat, S # {}
  PROVE  \E i \in S : \A j \in S : i <= j
<1> DEFINE lt == OpToRel(<, Nat)
<1>1. \E i \in S : \A j \in S : ~ (<<j, i>> \in lt)
  BY NatLessThanWellFounded, WFMin
<1>2. \A i, j \in S : <<j, i>> \in lt <=> j < i
  BY DEF OpToRel
<1> HIDE DEF lt
<1>3. PICK i \in S : \A j \in S : ~ (j < i)
  BY <1>1, <1>2, Zenon
<1> QED
  BY <1>3

LEMMA OneLess ==
  ASSUME NEW D, IsFiniteSet(D), NEW s \in SUBSET D, NEW x \in s
  PROVE  s \ {x} \in SUBSET D /\ Cardinality(s) \in Nat /\ Cardinality(s \ {x}) \in Nat
         /\ Cardinality(s \ {x}) = Cardinality(s) - 1
<1>1. IsFiniteSet(s)
  BY FS_Subset
<1> QED
  BY <1>1, FS_RemoveElement, FS_CardinalityType

(* The recursion of a fold: it removes a chosen member and applies F to it *)
(* and to the result for the rest.                                         *)
Folds(g, D, base, F, ch) ==
  \A s \in SUBSET D : g[s] = IF s = {} THEN base ELSE F[ch[s]][g[s \ {ch[s]}]]

FoldData(D, T, base, F, ch) ==
  /\ IsFiniteSet(D) /\ base \in T /\ F \in [D -> [T -> T]]
  /\ \A s \in SUBSET D : s # {} => ch[s] \in s

LEMMA FoldExists ==
  ASSUME NEW D, NEW T, NEW base, NEW F, NEW ch, FoldData(D, T, base, F, ch)
  PROVE  \E g \in [SUBSET D -> T] : Folds(g, D, base, F, ch)
<1> USE DEF FoldData
<1> DEFINE Next1(g, s) == IF s = {} THEN base ELSE F[ch[s]][g[s \ {ch[s]}]]
           Good(g, n) == \A s \in SUBSET D : Cardinality(s) <= n => g[s] = Next1(g, s)
           Bad == {n \in Nat : ~ \E g \in [SUBSET D -> T] : Good(g, n)}
<1>1. \A s \in SUBSET D : IsFiniteSet(s) /\ Cardinality(s) \in Nat /\ (Cardinality(s) = 0 <=> s = {})
  BY FS_Subset, FS_CardinalityType, FS_EmptySet
<1>2. 0 \notin Bad
  <2>1. [s \in SUBSET D |-> base] \in [SUBSET D -> T]
    OBVIOUS
  <2>2. Good([s \in SUBSET D |-> base], 0)
    BY <1>1
  <2> QED
    BY <2>1, <2>2
<1>3. ASSUME NEW n \in Nat, n \notin Bad PROVE n + 1 \notin Bad
  <2>1. PICK g \in [SUBSET D -> T] : Good(g, n)
    BY <1>3
  <2> DEFINE h == [s \in SUBSET D |-> Next1(g, s)]
  <2>2. h \in [SUBSET D -> T]
    <3>1. ASSUME NEW s \in SUBSET D, s # {} PROVE F[ch[s]][g[s \ {ch[s]}]] \in T
      BY <3>1
    <3> QED
      BY <3>1
  <2>3. \A s \in SUBSET D : Cardinality(s) <= n => h[s] = g[s]
    BY <2>1
  <2>4. ASSUME NEW s \in SUBSET D, Cardinality(s) <= n + 1 PROVE h[s] = Next1(h, s)
    <3>1. CASE s = {}
      BY <3>1
    <3>2. CASE s # {}
      <4>1. s \ {ch[s]} \in SUBSET D /\ Cardinality(s \ {ch[s]}) <= n
        BY <2>4, <3>2, OneLess
      <4>2. h[s \ {ch[s]}] = g[s \ {ch[s]}]
        BY <2>3, <4>1
      <4> QED
        BY <3>2, <4>2
    <3> QED
      BY <3>1, <3>2
  <2>5. Good(h, n + 1)
    BY <2>4
  <2> HIDE DEF h, Good
  <2> QED
    BY <2>2, <2>5
<1>A. Bad \subseteq Nat
  OBVIOUS
<1>B. ASSUME Bad = {}, NEW n \in Nat PROVE \E g \in [SUBSET D -> T] : Good(g, n)
  BY <1>B
<1> HIDE DEF Good, Bad
<1>4. Bad = {}
  <2>1. SUFFICES ASSUME Bad # {} PROVE FALSE
    OBVIOUS
  <2>2. PICK m \in Bad : \A j \in Bad : m <= j
    BY <1>A, <2>1, LeastNatural
  <2>3. m \in Nat /\ m # 0
    BY <1>2, <1>A, <2>2
  <2>4. m - 1 \in Nat /\ m - 1 < m /\ (m - 1) + 1 = m
    BY <2>3
  <2>5. m - 1 \notin Bad
    BY <2>2, <2>3, <2>4
  <2>6. (m - 1) + 1 \notin Bad
    BY <1>3, <2>4, <2>5
  <2> QED
    BY <2>2, <2>4, <2>6
<1>5. Cardinality(D) \in Nat
  BY FS_CardinalityType
<1>6. PICK g \in [SUBSET D -> T] : Good(g, Cardinality(D))
  BY <1>4, <1>5, <1>B
<1>7. \A s \in SUBSET D : Cardinality(s) <= Cardinality(D)
  BY FS_Subset
<1> QED
  BY <1>6, <1>7 DEF Good, Folds

(* A nonempty set of indices has a greatest one.                           *)
LEMMA MaxIsMember ==
  ASSUME NEW n \in Nat, NEW D \in SUBSET (1 .. n), D # {}
  PROVE  Max(D) \in D
<1> DEFINE S == {n - x : x \in D}
<1>1. S \subseteq Nat /\ S # {}
  <2>1. \A x \in D : x \in 1 .. n
    OBVIOUS
  <2>2. \A x \in D : n - x \in Nat
    BY <2>1
  <2> QED
    BY <2>2
<1>2. PICK i \in S : \A j \in S : i <= j
  <2> HIDE DEF S
  <2> QED
    BY <1>1, LeastNatural
<1>3. PICK m \in D : i = n - m
  OBVIOUS
<1>4. ASSUME NEW x \in D PROVE m >= x
  <2>1. n - x \in S
    OBVIOUS
  <2>2. n - m <= n - x
    BY <1>2, <1>3, <2>1
  <2> QED
    BY <2>2
<1> QED
  BY <1>4 DEF Max

(* Sets of indices that a fold over a sequence passes through.             *)
LEMMA Prefix ==
  ASSUME NEW n \in Nat, NEW k \in 1 .. n
  PROVE  /\ 1 .. k \in SUBSET (1 .. n) /\ 1 .. k # {}
         /\ Max(1 .. k) = k /\ (1 .. k) \ {k} = 1 .. (k - 1)
<1>1. 1 .. k \in SUBSET (1 .. n) /\ 1 .. k # {} /\ (1 .. k) \ {k} = 1 .. (k - 1)
  OBVIOUS
<1>2. k \in 1 .. k /\ \A y \in 1 .. k : k >= y
  OBVIOUS
<1>3. \A x \in 1 .. k : (\A y \in 1 .. k : x >= y) => x = k
  OBVIOUS
<1>4. Max(1 .. k) = k
  BY <1>2, <1>3 DEF Max
<1> QED
  BY <1>1, <1>4

(* f gives what a fold has made of each set of indices.                    *)
Unfolds(f, n, base, F, T) ==
  /\ base \in T /\ F \in [1 .. n -> [T -> T]]
  /\ f[{}] = base
  /\ \A s \in SUBSET (1 .. n) :
       s # {} /\ f[s \ {Max(s)}] \in T => f[s] = F[Max(s)][f[s \ {Max(s)}]]

(* What a fold has after k elements, one element after the other.          *)
LEMMA FoldInOrder ==
  ASSUME NEW n \in Nat, NEW T, NEW base, NEW F, NEW f, Unfolds(f, n, base, F, T)
  PROVE  /\ f[1 .. 0] = base
         /\ \A k \in 0 .. n : f[1 .. k] \in T
         /\ \A k \in 1 .. n : f[1 .. k] = F[k][f[1 .. (k - 1)]]
<1> DEFINE Bad == {k \in 0 .. n : f[1 .. k] \notin T}
<1>1. f[1 .. 0] = base
  <2>1. 1 .. 0 = {}
    OBVIOUS
  <2> QED
    BY <2>1 DEF Unfolds
<1>U. base \in T /\ F \in [1 .. n -> [T -> T]]
  BY DEF Unfolds
<1>2. ASSUME NEW k \in 1 .. n, f[1 .. (k - 1)] \in T
      PROVE  f[1 .. k] = F[k][f[1 .. (k - 1)]] /\ f[1 .. k] \in T
  <2>1. f[1 .. k] = F[k][f[1 .. (k - 1)]]
    BY <1>2, Prefix DEF Unfolds
  <2> QED
    BY <1>2, <1>U, <2>1
<1>3. Bad = {}
  <2> SUFFICES ASSUME Bad # {} PROVE FALSE
    OBVIOUS
  <2>1. Bad \subseteq Nat
    OBVIOUS
  <2> HIDE DEF Bad
  <2>2. PICK k \in Bad : \A j \in Bad : k <= j
    BY <2>1, LeastNatural
  <2>3. k \in 0 .. n /\ f[1 .. k] \notin T
    BY <2>2 DEF Bad
  <2>4. k # 0
    BY <1>1, <1>U, <2>3
  <2>5. k - 1 \in 0 .. n /\ k \in 1 .. n /\ ~ k <= k - 1
    BY <2>3, <2>4
  <2>6. f[1 .. (k - 1)] \notin T
    BY <1>2, <2>3, <2>5
  <2>7. k - 1 \in Bad
    BY <2>5, <2>6 DEF Bad
  <2> QED
    BY <2>2, <2>5, <2>7
<1>4. \A k \in 0 .. n : f[1 .. k] \in T
  BY <1>3
<1>5. \A k \in 1 .. n : k - 1 \in 0 .. n
  OBVIOUS
<1> QED
  BY <1>1, <1>2, <1>4, <1>5

(* The same for a property that depends on how far the fold is.            *)
LEMMA InOrder ==
  ASSUME NEW n \in Nat, NEW h, NEW T, h[0] \in T[0],
         \A k \in 1 .. n : h[k - 1] \in T[k - 1] => h[k] \in T[k]
  PROVE  \A k \in 0 .. n : h[k] \in T[k]
<1> DEFINE Bad == {k \in 0 .. n : h[k] \notin T[k]}
<1>1. Bad \subseteq Nat
  OBVIOUS
<1>2. SUFFICES ASSUME Bad # {} PROVE FALSE
  OBVIOUS
<1> HIDE DEF Bad
<1>3. PICK k \in Bad : \A j \in Bad : k <= j
  BY <1>1, <1>2, LeastNatural
<1>4. k \in 0 .. n /\ h[k] \notin T[k]
  BY <1>3 DEF Bad
<1>5. k # 0
  BY <1>4
<1>6. k - 1 \in 0 .. n /\ k \in 1 .. n /\ ~ k <= k - 1
  BY <1>4, <1>5
<1>7. h[k - 1] \notin T[k - 1]
  BY <1>4, <1>6
<1>8. k - 1 \in Bad
  BY <1>6, <1>7 DEF Bad
<1> QED
  BY <1>3, <1>6, <1>8
LEMMA EuclidClosed ==
  ASSUME NEW e \in EuclidState
  PROVE  EuclidNext(e) \in EuclidState
<1>1. CASE e.newr = 0
  BY <1>1 DEF EuclidNext
<1>2. CASE e.newr # 0
  <2>1. e.t \in Int /\ e.newt \in Int /\ e.r \in Nat /\ e.newr \in Nat /\ e.newr > 0
    BY <1>2 DEF EuclidState
  <2>2. PICK q \in Int : q = e.r \div e.newr
    BY <2>1
  <2>3. e.r - q * e.newr \in Nat
    <3>1. \A r, d \in Nat : d > 0 => r = (r \div d) * d + (r % d) /\ r % d \in Nat
      OBVIOUS
    <3>2. PICK x \in Nat : e.r = q * e.newr + x
      BY <2>1, <2>2, <3>1
    <3>3. q * e.newr \in Int
      BY <2>1
    <3> QED
      BY <2>1, <3>2, <3>3
  <2>4. e.t - q * e.newt \in Int
    BY <2>1
  <2>5. EuclidNext(e) = [t |-> e.newt, newt |-> e.t - q * e.newt,
                         r |-> e.newr, newr |-> e.r - q * e.newr]
    BY <1>2, <2>2 DEF EuclidNext
  <2> QED
    BY <2>1, <2>3, <2>4, <2>5 DEF EuclidState
<1> QED
  BY <1>1, <1>2

(* A fold over 1..n as the run of values it goes through.                  *)
Run(h, n, base, F) == h[0] = base /\ \A k \in 1 .. n : h[k] = F[k][h[k - 1]]

LEMMA FoldRuns ==
  ASSUME NEW n \in Nat, NEW T, NEW base, NEW F, NEW f, Unfolds(f, n, base, F, T)
  PROVE  \E h \in [0 .. n -> T] : Run(h, n, base, F) /\ h[n] = f[1 .. n]
<1> DEFINE h == [k \in 0 .. n |-> f[1 .. k]]
<1>1. /\ f[1 .. 0] = base
      /\ \A k \in 0 .. n : f[1 .. k] \in T
      /\ \A k \in 1 .. n : f[1 .. k] = F[k][f[1 .. (k - 1)]]
  BY FoldInOrder
<1>2. h \in [0 .. n -> T] /\ h[0] = base /\ h[n] = f[1 .. n]
  BY <1>1
<1>3. \A k \in 1 .. n : h[k] = F[k][h[k - 1]]
  <2> SUFFICES ASSUME NEW k \in 1 .. n PROVE h[k] = F[k][h[k - 1]]
    OBVIOUS
  <2>1. k - 1 \in 0 .. n /\ k \in 0 .. n
    OBVIOUS
  <2> QED
    BY <1>1, <2>1
<1> HIDE DEF h
<1> QED
  BY <1>2, <1>3 DEF Run

(* The loop of mod_inverse, one division after the other.                  *)
LEMMA EuclidRuns ==
  ASSUME NEW m \in Nat, m > 1, NEW a \in Int
  PROVE  \E h \in [0 .. m -> EuclidState] :
           /\ h[0] = EuclidStart(a, m) /\ h[m] = Euclid(a, m)
           /\ \A k \in 1 .. m : h[k] = EuclidNext(h[k - 1])
<1> DEFINE D      == 1 .. m
           T      == EuclidState
           base   == [t |-> 0, newt |-> 1, r |-> m, newr |-> a % m]
           seq    == [i \in 1 .. m |-> i]
           ch     == [s \in SUBSET D |-> Max(s)]
           body(e, i) == IF e.newr = 0 THEN e
                         ELSE LET quotient == e.r \div e.newr
                              IN  [t |-> e.newt, newt |-> e.t - quotient * e.newt,
                                   r |-> e.newr, newr |-> e.r - quotient * e.newr]
           F      == [j \in D |-> [e \in T |-> body(e, j)]]
           Eq(f)  == f = [s \in SUBSET D |-> IF s = {} THEN base ELSE body(f[s \ {Max(s)}], seq[Max(s)])]
<1>1. IsFiniteSet(D)
  BY FS_Interval
<1>2. \A s \in SUBSET D : s # {} => ch[s] \in s
  BY MaxIsMember
<1>3. \A e, j : body(e, j) = EuclidNext(e)
  BY DEF EuclidNext
<1>4. F \in [D -> [T -> T]]
  BY <1>3, EuclidClosed
<1>5. base \in T
  BY CongResidue DEF EuclidState
<1>6. \A s \in SUBSET D : s # {} => Max(s) \in D /\ seq[Max(s)] = Max(s)
  BY <1>2
<1> HIDE DEF D, seq, base, body, T
<1>7. PICK g \in [SUBSET D -> T] : Folds(g, D, base, F, ch)
  <2>1. FoldData(D, T, base, F, ch)
    BY <1>1, <1>2, <1>4, <1>5 DEF FoldData
  <2> HIDE DEF F, ch, Eq
  <2> QED
    BY <2>1, FoldExists
<1>8. Eq(g)
  <2>1. ASSUME NEW s \in SUBSET D PROVE g[s] = IF s = {} THEN base ELSE body(g[s \ {Max(s)}], seq[Max(s)])
    <3>1. CASE s = {}
      BY <1>7, <3>1 DEF Folds
    <3>2. CASE s # {}
      <4>1. g[s] = F[Max(s)][g[s \ {Max(s)}]]
        BY <1>7, <3>2 DEF Folds
      <4>2. Max(s) \in D /\ seq[Max(s)] = Max(s) /\ g[s \ {Max(s)}] \in T
        BY <1>6, <1>7, <3>2
      <4> QED
        BY <3>2, <4>1, <4>2
    <3> QED
      BY <3>1, <3>2
  <2>2. g = [s \in SUBSET D |-> g[s]]
    BY <1>7
  <2> QED
    BY <2>1, <2>2, Zenon
<1>9. FoldLeft(LAMBDA e, i : body(e, i), base, seq) = (CHOOSE f : Eq(f))[D]
  <2>1. DOMAIN seq = D
    BY DEF seq, D
  <2> QED
    BY <2>1, Zenon DEF FoldLeft, MapThenFoldSet
<1> HIDE DEF Eq
<1>10. PICK f : Eq(f) /\ FoldLeft(LAMBDA e, i : body(e, i), base, seq) = f[D]
  BY <1>8, <1>9, Zenon
<1>11. \A s \in SUBSET D : f[s] = IF s = {} THEN base ELSE body(f[s \ {Max(s)}], seq[Max(s)])
  BY <1>10, Zenon DEF Eq
<1>12. f[{}] = base
  BY <1>11
<1>13. \A s \in SUBSET D : s # {} /\ f[s \ {Max(s)}] \in T => f[s] = F[Max(s)][f[s \ {Max(s)}]]
  <2> SUFFICES ASSUME NEW s \in SUBSET D, s # {}, f[s \ {Max(s)}] \in T
               PROVE  f[s] = F[Max(s)][f[s \ {Max(s)}]]
    OBVIOUS
  <2>1. f[s] = body(f[s \ {Max(s)}], Max(s)) /\ Max(s) \in D
    BY <1>6, <1>11
  <2> QED
    BY <2>1
<1>14. PICK h \in [0 .. m -> T] : Run(h, m, base, F) /\ h[m] = f[1 .. m]
  <2>1. Unfolds(f, m, base, F, T)
    BY <1>4, <1>5, <1>12, <1>13 DEF Unfolds, D
  <2> HIDE DEF F
  <2> QED
    BY <2>1, FoldRuns
<1>15. Euclid(a, m) = FoldLeft(LAMBDA e, i : body(e, i), base, seq)
  BY DEF Euclid, body, base, seq
<1>16. h[0] = EuclidStart(a, m)
  BY <1>14 DEF Run, base, EuclidStart
<1>17. \A k \in 1 .. m : h[k] = EuclidNext(h[k - 1])
  <2> SUFFICES ASSUME NEW k \in 1 .. m PROVE h[k] = EuclidNext(h[k - 1])
    OBVIOUS
  <2>1. h[k] = F[k][h[k - 1]]
    BY <1>14 DEF Run
  <2>2. k \in D /\ k - 1 \in 0 .. m
    BY DEF D
  <2>3. h[k - 1] \in T
    BY <1>14, <2>2
  <2> QED
    BY <1>3, <2>1, <2>2, <2>3
<1> QED
  BY <1>10, <1>14, <1>15, <1>16, <1>17 DEF T, D
(* After m divisions the second remainder is zero.                         *)
LEMMA EuclidEnds ==
  ASSUME NEW m \in Nat, m > 1, NEW a \in Int
  PROVE  EuclidInv(Euclid(a, m), a, m) /\ Euclid(a, m).newr = 0
<1> DEFINE left(k) == IF k < m THEN m - 1 - k ELSE 0
           T       == [k \in 0 .. m |-> {e \in EuclidState : EuclidInv(e, a, m) /\ e.newr <= left(k)}]
<1>1. PICK h \in [0 .. m -> EuclidState] :
        /\ h[0] = EuclidStart(a, m) /\ h[m] = Euclid(a, m)
        /\ \A k \in 1 .. m : h[k] = EuclidNext(h[k - 1])
  BY EuclidRuns
<1>2. h[0] \in T[0]
  <2>1. EuclidInv(h[0], a, m) /\ h[0].newr = a % m
    BY <1>1, EuclidStarts DEF EuclidStart
  <2>2. a % m \in 0 .. m - 1
    BY CongResidue
  <2> QED
    BY <2>1, <2>2
<1>3. ASSUME NEW k \in 1 .. m, h[k - 1] \in T[k - 1]
      PROVE  h[k] \in T[k]
  <2>1. k - 1 \in 0 .. m /\ k \in 0 .. m
    OBVIOUS
  <2>2. EuclidInv(h[k - 1], a, m) /\ h[k - 1].newr <= left(k - 1) /\ h[k - 1] \in EuclidState
    BY <1>3, <2>1
  <2>3. EuclidInv(h[k], a, m) /\ (h[k - 1].newr # 0 => h[k].newr < h[k - 1].newr)
    BY <1>1, <2>2, EuclidKeeps
  <2>4. h[k] \in EuclidState
    BY <1>1, <2>1
  <2>5. h[k - 1].newr = 0 => h[k].newr = 0
    BY <1>1 DEF EuclidNext
  <2>6. h[k].newr \in Nat /\ h[k - 1].newr \in Nat
    BY <2>2, <2>4 DEF EuclidState
  <2>7. h[k].newr <= left(k)
    BY <2>2, <2>3, <2>5, <2>6
  <2> QED
    BY <2>1, <2>3, <2>4, <2>7
<1>4. h[m] \in T[m]
  <2> HIDE DEF T
  <2>1. \A k \in 0 .. m : h[k] \in T[k]
    BY <1>2, <1>3, InOrder
  <2> QED
    BY <2>1
<1>5. EuclidInv(h[m], a, m) /\ h[m].newr <= 0 /\ h[m].newr \in Nat
  BY <1>4 DEF EuclidState
<1> QED
  BY <1>1, <1>5

(* What mod_inverse returns is an inverse, and it returns none only when   *)
(* the number and the modulus have a common divisor: the value for none is *)
(* never taken for an inverse, nor an inverse for it.                      *)
THEOREM InverseExact ==
  ASSUME NEW m \in Nat, m > 1, NEW a \in Int
  PROVE  \/ /\ mod_inverse(a, m) \in 1 .. m - 1
            /\ Cong(a * mod_inverse(a, m), 1, m)
         \/ /\ mod_inverse(a, m) = NoInverse
            /\ \E d \in 2 .. m : Divides(d, m) /\ Divides(d, a)
<1>1. PICK e : e = Euclid(a, m)
  OBVIOUS
<1>2. EuclidInv(e, a, m) /\ e.newr = 0
  BY <1>1, EuclidEnds
<1>3. e.t \in Int /\ e.newt \in Int /\ e.r \in Nat /\ e.r > 0
  BY <1>2 DEF EuclidInv, EuclidState
<1>4. PICK t, r, u : t = e.t /\ r = e.r /\ u = Size(e.newt)
  OBVIOUS
<1>5. t \in Int /\ r \in Nat /\ r > 0 /\ u \in Nat
  BY <1>3, <1>4 DEF Size
<1>6. Cong(r, t * a, m) /\ Size(t) <= u
  BY <1>2, <1>4 DEF EuclidInv
<1>7. u * r = m
  <2>1. Size(t) \in Nat
    BY <1>5 DEF Size
  <2>2. u * r + Size(t) * 0 = m
    BY <1>2, <1>4 DEF EuclidInv
  <2>3. u * r \in Int
    BY <1>5
  <2> QED
    BY <2>1, <2>2, <2>3
<1>8. mod_inverse(a, m) = IF r > 1 THEN NoInverse ELSE IF t < 0 THEN t + m ELSE t
  BY <1>1, <1>4 DEF mod_inverse
<1>9. CASE r > 1
  <2>1. mod_inverse(a, m) = NoInverse
    BY <1>8, <1>9
  <2>2. Divides(r, r) /\ Divides(r, 0)
    <3>1. r = 0 + 1 * r /\ 0 = 0 + 0 * r /\ 1 \in Int /\ 0 \in Int
      BY <1>5
    <3> QED
      BY <3>1 DEF Divides, Cong
  <2>3. Divides(r, m) /\ Divides(r, a)
    BY <1>2, <1>4, <1>5, <2>2 DEF EuclidInv
  <2>4. r <= m
    <3>1. u >= 1
      <4>1. u = 0 => u * r = 0
        BY <1>5
      <4> QED
        BY <1>5, <1>7, <4>1
    <3>2. u * r >= r
      BY <1>5, <3>1
    <3> QED
      BY <1>5, <1>7, <3>2
  <2>5. r \in 2 .. m
    BY <1>5, <1>9, <2>4
  <2> QED
    BY <2>1, <2>3, <2>5
<1>10. CASE r = 1
  <2>1. u = m
    BY <1>5, <1>7, <1>10
  <2>2. t <= m /\ - m <= t
    BY <1>5, <1>6, <2>1 DEF Size
  <2>3. PICK k \in Int : 1 = t * a + k * m
    BY <1>6, <1>10 DEF Cong
  <2>4. ASSUME NEW c \in {-1, 0, 1}, t = c * m
        PROVE  FALSE
    <3>1. t * a + k * m = (c * a + k) * m
      BY <2>3, <2>4
    <3>2. Cong(1, 0, m)
      <4>1. 1 = 0 + (c * a + k) * m /\ c * a + k \in Int
        BY <2>3, <3>1
      <4> QED
        BY <4>1 DEF Cong
    <3>3. 0 \in 0 .. m - 1 /\ 1 \in 0 .. m - 1
      OBVIOUS
    <3> QED
      BY <3>2, <3>3, CongUnique
  <2>5. t # 0 /\ t # m /\ t # - m
    <3>1. 0 = 0 * m /\ m = 1 * m /\ - m = (-1) * m
      OBVIOUS
    <3> QED
      BY <2>4, <3>1
  <2>6. PICK v : v = mod_inverse(a, m)
    OBVIOUS
  <2>7. v = t \/ v = t + m
    BY <1>8, <1>10, <2>6
  <2>8. v \in 1 .. m - 1
    BY <1>5, <1>8, <1>10, <2>2, <2>5, <2>6
  <2>9. Cong(a * v, 1, m)
    <3>1. CASE v = t
      <4>1. a * v = 1 + (- k) * m /\ - k \in Int
        BY <1>5, <2>3, <3>1
      <4> QED
        BY <4>1 DEF Cong
    <3>2. CASE v = t + m
      <4>1. a * (t + m) = t * a + a * m
        BY <1>5
      <4>2. a * v = 1 + (a - k) * m /\ a - k \in Int
        BY <1>5, <2>3, <3>2, <4>1
      <4> QED
        BY <4>2 DEF Cong
    <3> QED
      BY <2>7, <3>1, <3>2
  <2> QED
    BY <2>6, <2>8, <2>9
<1> QED
  BY <1>5, <1>9, <1>10

LEMMA FieldIsLarge == MODULUS_Q \in Nat /\ MODULUS_Q > 1 /\ 0 \in Field /\ 1 \in Field
  BY FieldAssumption DEF Field

LEMMA FieldResidue ==
  ASSUME NEW a \in Int
  PROVE  a % MODULUS_Q \in Field /\ Cong(a % MODULUS_Q, a, MODULUS_Q)
  BY FieldIsLarge, CongResidue DEF Field
-----------------------------------------------------------------------------
EvalState == [y : Field, x_pow : Field]

EvalNext(acc, c, x) ==
  [y |-> (acc.y + c * acc.x_pow) % MODULUS_Q, x_pow |-> (acc.x_pow * x) % MODULUS_Q]

(* Evaluation, one coefficient after the other.                             *)
LEMMA EvaluateRuns ==
  ASSUME NEW n \in Nat, NEW coefficients \in [1 .. n -> Int], NEW x \in Int
  PROVE  \E h \in [0 .. n -> EvalState] :
           /\ h[0] = [y |-> 0, x_pow |-> 1] /\ h[n].y = Evaluate(coefficients, x)
           /\ \A k \in 1 .. n : h[k] = EvalNext(h[k - 1], coefficients[k], x)
<1> DEFINE D      == 1 .. n
           T      == EvalState
           base   == [y |-> 0, x_pow |-> 1]
           seq    == coefficients
           ch     == [s \in SUBSET D |-> Max(s)]
           body(acc, c) == [y     |-> (acc.y + c * acc.x_pow) % MODULUS_Q,
                             x_pow |-> (acc.x_pow * x) % MODULUS_Q]
           F      == [j \in D |-> [e \in T |-> body(e, seq[j])]]
           Eq(f)  == f = [s \in SUBSET D |-> IF s = {} THEN base ELSE body(f[s \ {Max(s)}], seq[Max(s)])]
<1>1. IsFiniteSet(D)
  BY FS_Interval
<1>2. \A s \in SUBSET D : s # {} => ch[s] \in s
  BY MaxIsMember
<1>3. \A j \in D, e \in T : body(e, seq[j]) \in T
  <2> SUFFICES ASSUME NEW j \in D, NEW e \in T PROVE body(e, seq[j]) \in T
    OBVIOUS
  <2>1. e.y \in Int /\ e.x_pow \in Int /\ seq[j] \in Int
    BY FieldIsLarge DEF EvalState, Field
  <2>2. PICK u, v : u = e.y + seq[j] * e.x_pow /\ v = e.x_pow * x /\ u \in Int /\ v \in Int
    BY <2>1
  <2>3. body(e, seq[j]) = [y |-> u % MODULUS_Q, x_pow |-> v % MODULUS_Q]
    BY <2>2
  <2> QED
    BY <2>2, <2>3, FieldResidue DEF EvalState
<1>4. F \in [D -> [T -> T]]
  BY <1>3
<1>5. base \in T
  BY FieldIsLarge DEF EvalState
<1>6. \A s \in SUBSET D : s # {} => Max(s) \in D
  BY <1>2
<1>D. DOMAIN seq = D
  OBVIOUS
<1> HIDE DEF D, seq, base, body, T
<1>7. PICK g \in [SUBSET D -> T] : Folds(g, D, base, F, ch)
  <2>1. FoldData(D, T, base, F, ch)
    BY <1>1, <1>2, <1>4, <1>5 DEF FoldData
  <2> HIDE DEF F, ch, Eq
  <2> QED
    BY <2>1, FoldExists
<1>8. Eq(g)
  <2>1. ASSUME NEW s \in SUBSET D PROVE g[s] = IF s = {} THEN base ELSE body(g[s \ {Max(s)}], seq[Max(s)])
    <3>1. CASE s = {}
      BY <1>7, <3>1 DEF Folds
    <3>2. CASE s # {}
      <4>1. g[s] = F[Max(s)][g[s \ {Max(s)}]]
        BY <1>7, <3>2 DEF Folds
      <4>2. Max(s) \in D /\ g[s \ {Max(s)}] \in T
        BY <1>6, <1>7, <3>2
      <4> QED
        BY <3>2, <4>1, <4>2
    <3> QED
      BY <3>1, <3>2
  <2>2. g = [s \in SUBSET D |-> g[s]]
    BY <1>7
  <2> QED
    BY <2>1, <2>2, Zenon
<1>9. FoldLeft(LAMBDA acc, c : body(acc, c), base, seq) = (CHOOSE f : Eq(f))[D]
  BY <1>D, Zenon DEF FoldLeft, MapThenFoldSet
<1> HIDE DEF Eq
<1>10. PICK f : Eq(f) /\ FoldLeft(LAMBDA acc, c : body(acc, c), base, seq) = f[D]
  BY <1>8, <1>9, Zenon
<1>11. \A s \in SUBSET D : f[s] = IF s = {} THEN base ELSE body(f[s \ {Max(s)}], seq[Max(s)])
  BY <1>10, Zenon DEF Eq
<1>12. \A s \in SUBSET D : s # {} /\ f[s \ {Max(s)}] \in T => f[s] = F[Max(s)][f[s \ {Max(s)}]]
  BY <1>6, <1>11
<1>13. PICK h \in [0 .. n -> T] : Run(h, n, base, F) /\ h[n] = f[1 .. n]
  <2>1. Unfolds(f, n, base, F, T)
    BY <1>4, <1>5, <1>11, <1>12 DEF Unfolds, D
  <2> HIDE DEF F
  <2> QED
    BY <2>1, FoldRuns
<1>14. ASSUME NEW k \in 1 .. n PROVE h[k] = body(h[k - 1], seq[k])
  <2>1. k \in D /\ k - 1 \in 0 .. n
    BY DEF D
  <2>2. h[k] = F[k][h[k - 1]] /\ h[k - 1] \in T
    BY <1>13, <2>1 DEF Run
  <2> QED
    BY <2>1, <2>2
<1>15. h[0] = base /\ h[n] = FoldLeft(LAMBDA acc, c : body(acc, c), base, seq)
  BY <1>10, <1>13 DEF Run, D
<1>16. Evaluate(coefficients, x) = FoldLeft(LAMBDA acc, c : body(acc, c), base, seq).y
  BY DEF Evaluate, body, base, seq
<1> QED
  BY <1>13, <1>14, <1>15, <1>16 DEF T, base, body, seq, EvalNext
-----------------------------------------------------------------------------
BasisState == [num : Field, den : Field]

BasisNext(b, points, i, j) ==
  IF j = i THEN b
  ELSE [num |-> (b.num * ((- points[j][1]) % MODULUS_Q)) % MODULUS_Q,
        den |-> (b.den * ((points[i][1] - points[j][1]) % MODULUS_Q)) % MODULUS_Q]

(* A basis polynomial, one factor after the other.                         *)
LEMMA BasisRuns ==
  ASSUME NEW n \in Nat, NEW points \in [1 .. n -> Int \X Int], NEW i \in 1 .. n
  PROVE  \E h \in [0 .. n -> BasisState] :
           /\ h[0] = [num |-> 1, den |-> 1] /\ h[n] = Basis(points, i)
           /\ \A k \in 1 .. n : h[k] = BasisNext(h[k - 1], points, i, k)
<1> DEFINE D      == 1 .. n
           T      == BasisState
           base   == [num |-> 1, den |-> 1]
           seq    == [j \in DOMAIN points |-> j]
           ch     == [s \in SUBSET D |-> Max(s)]
           body(b, j) == IF j = i THEN b
                 ELSE [num |-> (b.num * ((- points[j][1]) % MODULUS_Q)) % MODULUS_Q,
                       den |-> (b.den * ((points[i][1] - points[j][1]) % MODULUS_Q)) % MODULUS_Q]
           F      == [j \in D |-> [e \in T |-> body(e, seq[j])]]
           Eq(f)  == f = [s \in SUBSET D |-> IF s = {} THEN base ELSE body(f[s \ {Max(s)}], seq[Max(s)])]
<1>1. IsFiniteSet(D)
  BY FS_Interval
<1>2. \A s \in SUBSET D : s # {} => ch[s] \in s
  BY MaxIsMember
<1>3. \A j \in D, e \in T : body(e, seq[j]) \in T
  <2> SUFFICES ASSUME NEW j \in D, NEW e \in T PROVE body(e, seq[j]) \in T
    OBVIOUS
  <2>1. seq[j] = j /\ points[j][1] \in Int /\ points[i][1] \in Int
    OBVIOUS
  <2>2. PICK u, v : /\ u = (- points[j][1]) % MODULUS_Q /\ u \in Int
                    /\ v = (points[i][1] - points[j][1]) % MODULUS_Q /\ v \in Int
    <3>1. - points[j][1] \in Int /\ points[i][1] - points[j][1] \in Int
      BY <2>1
    <3>2. \A a \in Int : a % MODULUS_Q \in Int
      BY FieldIsLarge
    <3> QED
      BY <3>1, <3>2
  <2>3. PICK c \in Int, d \in Int : c = e.num /\ d = e.den
    BY FieldIsLarge DEF BasisState, Field
  <2>4. e.num * u \in Int /\ e.den * v \in Int
    <3>1. \A a, b \in Int : a * b \in Int
      OBVIOUS
    <3> QED
      BY ONLY <2>2, <2>3, <3>1
  <2>5. [num |-> (e.num * u) % MODULUS_Q, den |-> (e.den * v) % MODULUS_Q] \in T
    <3>1. PICK a \in Int, b \in Int : a = e.num * u /\ b = e.den * v
      BY <2>4
    <3>2. a % MODULUS_Q \in Field /\ b % MODULUS_Q \in Field
      BY FieldResidue
    <3> QED
      BY <3>1, <3>2 DEF BasisState
  <2> QED
    BY <2>1, <2>2, <2>5
<1>4. F \in [D -> [T -> T]]
  BY <1>3
<1>5. base \in T
  BY FieldIsLarge DEF BasisState
<1>6. \A s \in SUBSET D : s # {} => Max(s) \in D
  BY <1>2
<1>D. DOMAIN seq = D
  OBVIOUS
<1> HIDE DEF D, seq, base, body, T
<1>7. PICK g \in [SUBSET D -> T] : Folds(g, D, base, F, ch)
  <2>1. FoldData(D, T, base, F, ch)
    BY <1>1, <1>2, <1>4, <1>5 DEF FoldData
  <2> HIDE DEF F, ch, Eq
  <2> QED
    BY <2>1, FoldExists
<1>8. Eq(g)
  <2>1. ASSUME NEW s \in SUBSET D PROVE g[s] = IF s = {} THEN base ELSE body(g[s \ {Max(s)}], seq[Max(s)])
    <3>1. CASE s = {}
      BY <1>7, <3>1 DEF Folds
    <3>2. CASE s # {}
      <4>1. g[s] = F[Max(s)][g[s \ {Max(s)}]]
        BY <1>7, <3>2 DEF Folds
      <4>2. Max(s) \in D /\ g[s \ {Max(s)}] \in T
        BY <1>6, <1>7, <3>2
      <4> QED
        BY <3>2, <4>1, <4>2
    <3> QED
      BY <3>1, <3>2
  <2>2. g = [s \in SUBSET D |-> g[s]]
    BY <1>7
  <2> QED
    BY <2>1, <2>2, Zenon
<1>9. FoldLeft(LAMBDA b, j : body(b, j), base, seq) = (CHOOSE f : Eq(f))[D]
  BY <1>D, Zenon DEF FoldLeft, MapThenFoldSet
<1> HIDE DEF Eq
<1>10. PICK f : Eq(f) /\ FoldLeft(LAMBDA b, j : body(b, j), base, seq) = f[D]
  BY <1>8, <1>9, Zenon
<1>11. \A s \in SUBSET D : f[s] = IF s = {} THEN base ELSE body(f[s \ {Max(s)}], seq[Max(s)])
  BY <1>10, Zenon DEF Eq
<1>12. \A s \in SUBSET D : s # {} /\ f[s \ {Max(s)}] \in T => f[s] = F[Max(s)][f[s \ {Max(s)}]]
  BY <1>6, <1>11
<1>13. PICK h \in [0 .. n -> T] : Run(h, n, base, F) /\ h[n] = f[1 .. n]
  <2>1. Unfolds(f, n, base, F, T)
    BY <1>4, <1>5, <1>11, <1>12 DEF Unfolds, D
  <2> HIDE DEF F
  <2> QED
    BY <2>1, FoldRuns
<1>14. ASSUME NEW k \in 1 .. n PROVE h[k] = body(h[k - 1], seq[k])
  <2>1. k \in D /\ k - 1 \in 0 .. n
    BY DEF D
  <2>2. h[k] = F[k][h[k - 1]] /\ h[k - 1] \in T
    BY <1>13, <2>1 DEF Run
  <2> QED
    BY <2>1, <2>2
<1>15. h[0] = base /\ h[n] = FoldLeft(LAMBDA b, j : body(b, j), base, seq)
  BY <1>10, <1>13 DEF Run, D
<1>16. Basis(points, i) = FoldLeft(LAMBDA b, j : body(b, j), base, seq)
  BY DEF Basis, body, base, seq
<1>17. \A k \in 1 .. n : seq[k] = k
  BY DEF seq
<1>18. h \in [0 .. n -> BasisState] /\ h[0] = [num |-> 1, den |-> 1]
  BY <1>13, <1>15 DEF T, base
<1>19. ASSUME NEW k \in 1 .. n PROVE h[k] = BasisNext(h[k - 1], points, i, k)
  BY <1>14, <1>17 DEF body, BasisNext
<1> QED
  BY <1>15, <1>16, <1>18, <1>19
-----------------------------------------------------------------------------
DenOf(points, i)    == Basis(points, i).den
WeightOf(points, i) ==
  (Basis(points, i).num * mod_inverse(DenOf(points, i), MODULUS_Q)) % MODULUS_Q

(* Interpolation, one point after the other.                               *)
LEMMA SumRuns ==
  ASSUME NEW n \in Nat, NEW points \in [1 .. n -> Int \X Int],
         \A i \in 1 .. n : mod_inverse(DenOf(points, i), MODULUS_Q) # NoInverse,
         \A i \in 1 .. n : WeightOf(points, i) \in Int
  PROVE  \E h \in [0 .. n -> Field] :
           /\ h[0] = 0 /\ h[n] = reconstruct_secret(points)
           /\ \A k \in 1 .. n :
                h[k] = (h[k - 1] + (((points[k][2] % MODULUS_Q) * WeightOf(points, k)) % MODULUS_Q))
                         % MODULUS_Q
<1> DEFINE D      == 1 .. n
           T      == Field
           base   == 0
           seq    == [i \in DOMAIN points |-> i]
           ch     == [s \in SUBSET D |-> Max(s)]
           DenInverse(i) == mod_inverse(Basis(points, i).den, MODULUS_Q)
           Term(i) == ((points[i][2] % MODULUS_Q)
                         * ((Basis(points, i).num * DenInverse(i)) % MODULUS_Q)) % MODULUS_Q
           body(sum, i) == (sum + Term(i)) % MODULUS_Q
           F      == [j \in D |-> [e \in T |-> body(e, seq[j])]]
           Eq(f)  == f = [s \in SUBSET D |-> IF s = {} THEN base ELSE body(f[s \ {Max(s)}], seq[Max(s)])]
<1>1. IsFiniteSet(D)
  BY FS_Interval
<1>2. \A s \in SUBSET D : s # {} => ch[s] \in s
  BY MaxIsMember
<1>2a. \A j \in D : seq[j] = j
  OBVIOUS
<1>2b. \A j \in D : Term(j) = ((points[j][2] % MODULUS_Q) * WeightOf(points, j)) % MODULUS_Q
  BY DEF WeightOf, DenOf
<1>2c. \A j \in D : Term(j) \in Int
  <2> SUFFICES ASSUME NEW j \in D PROVE Term(j) \in Int
    OBVIOUS
  <2>1. points[j][2] \in Int /\ WeightOf(points, j) \in Int
    OBVIOUS
  <2>2. \A a \in Int : a % MODULUS_Q \in Int
    BY FieldIsLarge
  <2>3. (points[j][2] % MODULUS_Q) * WeightOf(points, j) \in Int
    BY <2>1, <2>2
  <2> HIDE DEF Term
  <2> QED
    BY <1>2b, <2>2, <2>3
<1> HIDE DEF Term
<1>3. \A j \in D, e \in T : body(e, seq[j]) \in T
  <2> SUFFICES ASSUME NEW j \in D, NEW e \in T PROVE body(e, seq[j]) \in T
    OBVIOUS
  <2>1. e + Term(j) \in Int /\ seq[j] = j
    BY <1>2a, <1>2c, FieldIsLarge DEF Field
  <2> QED
    BY <2>1, FieldResidue
<1>4. F \in [D -> [T -> T]]
  BY <1>3
<1>5. base \in T
  BY FieldIsLarge
<1>6. \A s \in SUBSET D : s # {} => Max(s) \in D
  BY <1>2
<1>D. DOMAIN seq = D
  OBVIOUS
<1> HIDE DEF D, seq, base, body, T
<1>7. PICK g \in [SUBSET D -> T] : Folds(g, D, base, F, ch)
  <2>1. FoldData(D, T, base, F, ch)
    BY <1>1, <1>2, <1>4, <1>5 DEF FoldData
  <2> HIDE DEF F, ch, Eq
  <2> QED
    BY <2>1, FoldExists
<1>8. Eq(g)
  <2>1. ASSUME NEW s \in SUBSET D PROVE g[s] = IF s = {} THEN base ELSE body(g[s \ {Max(s)}], seq[Max(s)])
    <3>1. CASE s = {}
      BY <1>7, <3>1 DEF Folds
    <3>2. CASE s # {}
      <4>1. g[s] = F[Max(s)][g[s \ {Max(s)}]]
        BY <1>7, <3>2 DEF Folds
      <4>2. Max(s) \in D /\ g[s \ {Max(s)}] \in T
        BY <1>6, <1>7, <3>2
      <4> QED
        BY <3>2, <4>1, <4>2
    <3> QED
      BY <3>1, <3>2
  <2>2. g = [s \in SUBSET D |-> g[s]]
    BY <1>7
  <2> QED
    BY <2>1, <2>2, Zenon
<1>9. FoldLeft(LAMBDA sum, i : body(sum, i), base, seq) = (CHOOSE f : Eq(f))[D]
  BY <1>D, Zenon DEF FoldLeft, MapThenFoldSet
<1> HIDE DEF Eq
<1>10. PICK f : Eq(f) /\ FoldLeft(LAMBDA sum, i : body(sum, i), base, seq) = f[D]
  BY <1>8, <1>9, Zenon
<1>11. \A s \in SUBSET D : f[s] = IF s = {} THEN base ELSE body(f[s \ {Max(s)}], seq[Max(s)])
  BY <1>10, Zenon DEF Eq
<1>12. \A s \in SUBSET D : s # {} /\ f[s \ {Max(s)}] \in T => f[s] = F[Max(s)][f[s \ {Max(s)}]]
  BY <1>6, <1>11
<1>13. PICK h \in [0 .. n -> T] : Run(h, n, base, F) /\ h[n] = f[1 .. n]
  <2>1. Unfolds(f, n, base, F, T)
    BY <1>4, <1>5, <1>11, <1>12 DEF Unfolds, D
  <2> HIDE DEF F
  <2> QED
    BY <2>1, FoldRuns
<1>14. ASSUME NEW k \in 1 .. n PROVE h[k] = body(h[k - 1], seq[k])
  <2>1. k \in D /\ k - 1 \in 0 .. n
    BY DEF D
  <2>2. h[k] = F[k][h[k - 1]] /\ h[k - 1] \in T
    BY <1>13, <2>1 DEF Run
  <2> QED
    BY <2>1, <2>2
<1>15. h[0] = base /\ h[n] = FoldLeft(LAMBDA sum, i : body(sum, i), base, seq)
  BY <1>10, <1>13 DEF Run, D
<1>16. reconstruct_secret(points) = FoldLeft(LAMBDA sum, i : body(sum, i), base, seq)
  <2>1. ~ \E i \in DOMAIN points : DenInverse(i) = NoInverse
    BY DEF DenOf
  <2> QED
    BY <2>1 DEF reconstruct_secret, body, base, seq, Term
<1>17. \A k \in 1 .. n : seq[k] = k
  BY DEF seq
<1>18. \A k \in 1 .. n :
         h[k] = (h[k - 1] + (((points[k][2] % MODULUS_Q) * WeightOf(points, k)) % MODULUS_Q)) % MODULUS_Q
  <2> SUFFICES ASSUME NEW k \in 1 .. n
               PROVE  h[k] = (h[k - 1] + (((points[k][2] % MODULUS_Q) * WeightOf(points, k)) % MODULUS_Q)) % MODULUS_Q
    OBVIOUS
  <2>1. h[k] = (h[k - 1] + Term(k)) % MODULUS_Q
    BY <1>14, <1>17 DEF body
  <2>2. k \in D
    BY DEF D
  <2>3. Term(k) = ((points[k][2] % MODULUS_Q) * WeightOf(points, k)) % MODULUS_Q
    BY <1>2b, <2>2
  <2> HIDE DEF WeightOf
  <2> QED
    BY <2>1, <2>3
<1> QED
  BY <1>13, <1>15, <1>16, <1>18 DEF T, base
-----------------------------------------------------------------------------
(* Induction over the subsets of a finite set.                             *)
LEMMA SubsetInduction ==
  ASSUME NEW D, IsFiniteSet(D), NEW Q,
         \A S \in SUBSET D : (\A a \in S : S \ {a} \in Q) => S \in Q
  PROVE  \A S \in SUBSET D : S \in Q
<1> DEFINE Bad == {n \in Nat : \E S \in SUBSET D : Cardinality(S) = n /\ S \notin Q}
<1>1. Bad \subseteq Nat
  OBVIOUS
<1>2. SUFFICES Bad = {}
  <2>1. \A S \in SUBSET D : Cardinality(S) \in Nat
    BY FS_Subset, FS_CardinalityType
  <2> QED
    BY <2>1
<1>3. SUFFICES ASSUME Bad # {} PROVE FALSE
  OBVIOUS
<1>4. PICK n \in Bad : \A k \in Bad : n <= k
  <2> HIDE DEF Bad
  <2> QED
    BY <1>1, <1>3, LeastNatural
<1>5. PICK S \in SUBSET D : Cardinality(S) = n /\ S \notin Q
  OBVIOUS
<1>6. PICK a \in S : S \ {a} \notin Q
  BY <1>5
<1>7. /\ S \ {a} \in SUBSET D /\ Cardinality(S \ {a}) \in Nat /\ n \in Nat
      /\ Cardinality(S \ {a}) = n - 1
  BY <1>5, OneLess
<1>8. Cardinality(S \ {a}) \in Bad
  BY <1>6, <1>7
<1> HIDE DEF Bad
<1>9. n <= Cardinality(S \ {a})
  BY <1>4, <1>8
<1> QED
  BY <1>7, <1>9

Commutes(F, D, T) == \A a, b \in D, t \in T : F[a][F[b][t]] = F[b][F[a][t]]

Removes(g, D, F) == \A S \in SUBSET D : \A a \in S : g[S] = F[a][g[S \ {a}]]

(* A fold whose steps commute may remove its members in any order.         *)
LEMMA FoldAny ==
  ASSUME NEW D, NEW T, NEW base, NEW F, NEW ch, FoldData(D, T, base, F, ch),
         NEW g \in [SUBSET D -> T], Folds(g, D, base, F, ch),
         Commutes(F, D, T)
  PROVE  Removes(g, D, F)
<1> DEFINE Q == {S \in SUBSET D : \A a \in S : g[S] = F[a][g[S \ {a}]]}
<1>1. IsFiniteSet(D)
  BY DEF FoldData
<1>2. ASSUME NEW S \in SUBSET D, \A a \in S : S \ {a} \in Q
      PROVE  S \in Q
  <2>1. ASSUME NEW a \in S PROVE g[S] = F[a][g[S \ {a}]]
    <3> DEFINE m == ch[S]
    <3>1. m \in S /\ g[S] = F[m][g[S \ {m}]]
      BY DEF FoldData, Folds
    <3>2. CASE a = m
      BY <3>1, <3>2
    <3>3. CASE a # m
      <4>1. a \in S \ {m} /\ m \in S \ {a}
        BY <3>1, <3>3
      <4>2. g[S \ {m}] = F[a][g[(S \ {m}) \ {a}]] /\ g[S \ {a}] = F[m][g[(S \ {a}) \ {m}]]
        BY <1>2, <3>1, <4>1
      <4>3. (S \ {m}) \ {a} = (S \ {a}) \ {m}
        OBVIOUS
      <4>4. PICK t \in T : t = g[(S \ {a}) \ {m}]
        OBVIOUS
      <4>5. F[m][F[a][t]] = F[a][F[m][t]]
        BY <3>1 DEF Commutes
      <4> QED
        BY <3>1, <4>2, <4>3, <4>4, <4>5
    <3> QED
      BY <3>2, <3>3
  <2> QED
    BY <2>1
<1>3. \A S \in SUBSET D : S \in Q
  <2> HIDE DEF Q
  <2> QED
    BY <1>1, <1>2, SubsetInduction
<1> QED
  BY <1>3 DEF Removes

Vec(n) == [1 .. n -> Int]

(* Sums and products over sets of indices.                                 *)
IsSum(g, n, v) ==
  /\ g \in [SUBSET (1 .. n) -> Int] /\ g[{}] = 0
  /\ \A S \in SUBSET (1 .. n) : \A a \in S : g[S] = v[a] + g[S \ {a}]

IsProduct(g, n, v) ==
  /\ g \in [SUBSET (1 .. n) -> Int] /\ g[{}] = 1
  /\ \A S \in SUBSET (1 .. n) : \A a \in S : g[S] = v[a] * g[S \ {a}]

SumOf(n, v)     == CHOOSE g : IsSum(g, n, v)
ProductOf(n, v) == CHOOSE g : IsProduct(g, n, v)

LEMMA SumIs ==
  ASSUME NEW n \in Nat, NEW v \in Vec(n)
  PROVE  IsSum(SumOf(n, v), n, v)
<1> USE DEF Vec
<1> DEFINE D    == 1 .. n
           T    == Int
           base == 0
           ch   == [S \in SUBSET D |-> Max(S)]
           F    == [a \in D |-> [t \in T |-> v[a] + t]]
<1>1. FoldData(D, T, base, F, ch)
  <2>1. IsFiniteSet(D)
    BY FS_Interval
  <2>2. \A S \in SUBSET D : S # {} => ch[S] \in S
    BY MaxIsMember
  <2>3. F \in [D -> [T -> T]] /\ base \in T
    OBVIOUS
  <2> HIDE DEF D, T, base, F, ch
  <2> QED
    BY <2>1, <2>2, <2>3 DEF FoldData
<1>2. Commutes(F, D, T)
  <2> SUFFICES ASSUME NEW a \in D, NEW b \in D, NEW t \in T
               PROVE  F[a][F[b][t]] = F[b][F[a][t]]
    BY DEF Commutes
  <2>1. PICK x \in Int, y \in Int : x = v[a] /\ y = v[b]
    OBVIOUS
  <2>2. x + (y + t) = y + (x + t) /\ x + t \in Int /\ y + t \in Int
    OBVIOUS
  <2>3. \A i \in Int : F[a][i] = x + i /\ F[b][i] = y + i
    BY <2>1
  <2>4. t \in Int
    OBVIOUS
  <2> HIDE DEF F, T, D
  <2>5. F[a][F[b][t]] = x + (y + t) /\ F[b][F[a][t]] = y + (x + t)
    BY <2>2, <2>3, <2>4
  <2> QED
    BY <2>2, <2>5
<1>3. PICK g \in [SUBSET D -> T] : Folds(g, D, base, F, ch)
  <2> HIDE DEF D, T, base, F, ch
  <2> QED
    BY <1>1, FoldExists
<1>4. Removes(g, D, F)
  <2> HIDE DEF D, T, base, F, ch
  <2> QED
    BY <1>1, <1>2, <1>3, FoldAny
<1>5. g[{}] = 0
  BY <1>3 DEF Folds
<1>6. \A S \in SUBSET D : \A a \in S : g[S] = v[a] + g[S \ {a}]
  BY <1>4 DEF Removes
<1>7. IsSum(g, n, v)
  BY <1>5, <1>6 DEF IsSum
<1> QED
  BY <1>7, Zenon DEF SumOf

LEMMA ProductIs ==
  ASSUME NEW n \in Nat, NEW v \in Vec(n)
  PROVE  IsProduct(ProductOf(n, v), n, v)
<1> USE DEF Vec
<1> DEFINE D    == 1 .. n
           T    == Int
           base == 1
           ch   == [S \in SUBSET D |-> Max(S)]
           F    == [a \in D |-> [t \in T |-> v[a] * t]]
<1>1. FoldData(D, T, base, F, ch)
  <2>1. IsFiniteSet(D)
    BY FS_Interval
  <2>2. \A S \in SUBSET D : S # {} => ch[S] \in S
    BY MaxIsMember
  <2>3. F \in [D -> [T -> T]] /\ base \in T
    OBVIOUS
  <2> HIDE DEF D, T, base, F, ch
  <2> QED
    BY <2>1, <2>2, <2>3 DEF FoldData
<1>2. Commutes(F, D, T)
  <2> SUFFICES ASSUME NEW a \in D, NEW b \in D, NEW t \in T
               PROVE  F[a][F[b][t]] = F[b][F[a][t]]
    BY DEF Commutes
  <2>1. PICK x \in Int, y \in Int : x = v[a] /\ y = v[b]
    OBVIOUS
  <2>2. x * (y * t) = y * (x * t) /\ x * t \in Int /\ y * t \in Int
    OBVIOUS
  <2>3. \A i \in Int : F[a][i] = x * i /\ F[b][i] = y * i
    BY <2>1
  <2>4. t \in Int
    OBVIOUS
  <2> HIDE DEF F, T, D
  <2>5. F[a][F[b][t]] = x * (y * t) /\ F[b][F[a][t]] = y * (x * t)
    BY <2>2, <2>3, <2>4
  <2> QED
    BY <2>2, <2>5
<1>3. PICK g \in [SUBSET D -> T] : Folds(g, D, base, F, ch)
  <2> HIDE DEF D, T, base, F, ch
  <2> QED
    BY <1>1, FoldExists
<1>4. Removes(g, D, F)
  <2> HIDE DEF D, T, base, F, ch
  <2> QED
    BY <1>1, <1>2, <1>3, FoldAny
<1>5. g[{}] = 1
  BY <1>3 DEF Folds
<1>6. \A S \in SUBSET D : \A a \in S : g[S] = v[a] * g[S \ {a}]
  BY <1>4 DEF Removes
<1>7. IsProduct(g, n, v)
  BY <1>5, <1>6 DEF IsProduct
<1> QED
  BY <1>7, Zenon DEF ProductOf

Combines(w, u, v, c, d, n) == \A i \in 1 .. n : w[i] = c * u[i] + d * v[i]

(* Sums are linear, and congruent if their terms are.                      *)
LEMMA SumLinear ==
  ASSUME NEW n \in Nat, NEW u \in Vec(n), NEW v \in Vec(n),
         NEW w \in Vec(n), NEW c \in Int, NEW d \in Int,
         Combines(w, u, v, c, d, n)
  PROVE  \A S \in SUBSET (1 .. n) : SumOf(n, w)[S] = c * SumOf(n, u)[S] + d * SumOf(n, v)[S]
<1> DEFINE D == 1 .. n
           f == SumOf(n, u)
           g == SumOf(n, v)
           h == SumOf(n, w)
           Q == {S \in SUBSET D : h[S] = c * f[S] + d * g[S]}
<1>1. IsSum(f, n, u) /\ IsSum(g, n, v) /\ IsSum(h, n, w)
  BY SumIs
<1> HIDE DEF f, g, h
<1>2. ASSUME NEW S \in SUBSET D, \A a \in S : S \ {a} \in Q
      PROVE  S \in Q
  <2>1. CASE S = {}
    BY <1>1, <2>1 DEF IsSum
  <2>2. CASE S # {}
    <3>1. PICK a \in S : TRUE
      BY <2>2
    <3>2. /\ f[S] = u[a] + f[S \ {a}] /\ g[S] = v[a] + g[S \ {a}] /\ h[S] = w[a] + h[S \ {a}]
          /\ f[S \ {a}] \in Int /\ g[S \ {a}] \in Int
      BY <1>1 DEF IsSum
    <3>3. h[S \ {a}] = c * f[S \ {a}] + d * g[S \ {a}] /\ w[a] = c * u[a] + d * v[a]
      BY <1>2 DEF Combines
    <3>4. PICK fs \in Int, gs \in Int : fs = f[S \ {a}] /\ gs = g[S \ {a}]
      BY <3>2
    <3>5. PICK ua \in Int, va \in Int : ua = u[a] /\ va = v[a]
      BY DEF Vec
    <3>6. (c * ua + d * va) + (c * fs + d * gs) = c * (ua + fs) + d * (va + gs)
      OBVIOUS
    <3> QED
      BY <3>2, <3>3, <3>4, <3>5, <3>6
  <2> QED
    BY <2>1, <2>2
<1>3. \A S \in SUBSET D : S \in Q
  <2>1. IsFiniteSet(D)
    BY FS_Interval
  <2> HIDE DEF D, Q
  <2> QED
    BY <1>2, <2>1, SubsetInduction
<1> QED
  BY <1>3 DEF f, g, h

LEMMA SumCongruent ==
  ASSUME NEW n \in Nat, NEW m \in Int, NEW u \in Vec(n), NEW v \in Vec(n),
         NEW S \in SUBSET (1 .. n), \A i \in S : Cong(u[i], v[i], m)
  PROVE  Cong(SumOf(n, u)[S], SumOf(n, v)[S], m)
<1> DEFINE f == SumOf(n, u)
           g == SumOf(n, v)
           Q == {R \in SUBSET S : Cong(f[R], g[R], m)}
<1>1. IsSum(f, n, u) /\ IsSum(g, n, v)
  BY SumIs
<1>2. IsFiniteSet(S)
  <2>1. IsFiniteSet(1 .. n)
    BY FS_Interval
  <2> QED
    BY <2>1, FS_Subset
<1> HIDE DEF f, g
<1>3. ASSUME NEW R \in SUBSET S, \A a \in R : R \ {a} \in Q
      PROVE  R \in Q
  <2>1. CASE R = {}
    <3>1. f[R] = 0 /\ g[R] = 0
      BY <1>1, <2>1 DEF IsSum
    <3> QED
      BY <3>1, CongEquivalence
  <2>2. CASE R # {}
    <3>1. PICK a \in R : TRUE
      BY <2>2
    <3>2. R \in SUBSET (1 .. n) /\ R \ {a} \in SUBSET (1 .. n) /\ a \in 1 .. n
      OBVIOUS
    <3>3. /\ f[R] = u[a] + f[R \ {a}] /\ g[R] = v[a] + g[R \ {a}]
          /\ f[R \ {a}] \in Int /\ g[R \ {a}] \in Int
      BY <1>1, <3>2 DEF IsSum
    <3>4. Cong(f[R \ {a}], g[R \ {a}], m) /\ Cong(u[a], v[a], m)
      BY <1>3
    <3>5. u[a] \in Int /\ v[a] \in Int
      BY <3>2 DEF Vec
    <3>6. Cong(u[a] + f[R \ {a}], v[a] + g[R \ {a}], m)
      BY <3>3, <3>4, <3>5, CongSums
    <3> QED
      BY <3>3, <3>6
  <2> QED
    BY <2>1, <2>2
<1>4. \A R \in SUBSET S : R \in Q
  <2> HIDE DEF Q
  <2> QED
    BY <1>2, <1>3, SubsetInduction
<1> QED
  BY <1>4 DEF f, g
-----------------------------------------------------------------------------
(* Points that are apart: x[j] - x[i] has an inverse r[i][j].              *)
Apart(n, x, r, q) ==
  /\ x \in [1 .. n -> Int] /\ r \in [1 .. n -> [1 .. n -> Int]]
  /\ \A i, j \in 1 .. n : i # j => Cong(r[i][j] * (x[j] - x[i]), 1, q)

Ratio(n, x, r, i) == [j \in 1 .. n |-> x[j] * r[i][j]]

(* The value at zero of the i-th basis polynomial for the points in S.     *)
Weight(n, x, r, S, i) == ProductOf(n, Ratio(n, x, r, i))[S \ {i}]

Terms(n, x, r, p, S) == [i \in 1 .. n |-> p[i] * Weight(n, x, r, S, i)]

(* Interpolation at zero of the values p at the points in S.               *)
Moment(n, x, r, p, S) == SumOf(n, Terms(n, x, r, p, S))[S]

LEMMA RatioIs ==
  ASSUME NEW n \in Nat, NEW x, NEW r, NEW q, Apart(n, x, r, q), NEW i \in 1 .. n
  PROVE  /\ Ratio(n, x, r, i) \in Vec(n)
         /\ \A j \in 1 .. n : Ratio(n, x, r, i)[j] = x[j] * r[i][j] /\ x[j] \in Int /\ r[i][j] \in Int
<1>1. \A j \in 1 .. n : x[j] \in Int /\ r[i][j] \in Int
  BY DEF Apart
<1>2. \A j \in 1 .. n : x[j] * r[i][j] \in Int
  BY <1>1
<1> QED
  BY <1>1, <1>2 DEF Ratio, Vec

LEMMA WeightTyped ==
  ASSUME NEW n \in Nat, NEW x, NEW r, NEW q, Apart(n, x, r, q), NEW S \in SUBSET (1 .. n), NEW i \in 1 .. n
  PROVE  Weight(n, x, r, S, i) \in Int
<1>1. IsProduct(ProductOf(n, Ratio(n, x, r, i)), n, Ratio(n, x, r, i))
  BY RatioIs, ProductIs
<1>2. S \ {i} \in SUBSET (1 .. n)
  OBVIOUS
<1> QED
  BY <1>1, <1>2 DEF IsProduct, Weight

LEMMA WeightRemoval ==
  ASSUME NEW n \in Nat, NEW x, NEW r, NEW q \in Int, Apart(n, x, r, q),
         NEW S \in SUBSET (1 .. n), NEW a \in S, NEW i \in S, i # a
  PROVE  Cong((x[a] - x[i]) * Weight(n, x, r, S, i), x[a] * Weight(n, x, r, S \ {a}, i), q)
<1> DEFINE v == Ratio(n, x, r, i)
           g == ProductOf(n, v)
<1>1. i \in 1 .. n /\ a \in 1 .. n
  OBVIOUS
<1>2. v \in Vec(n) /\ v[a] = x[a] * r[i][a] /\ x[a] \in Int /\ x[i] \in Int /\ r[i][a] \in Int
  <2>1. x[i] \in Int
    BY <1>1 DEF Apart
  <2>2. /\ Ratio(n, x, r, i) \in Vec(n)
        /\ \A j \in 1 .. n : Ratio(n, x, r, i)[j] = x[j] * r[i][j] /\ x[j] \in Int /\ r[i][j] \in Int
    BY <1>1, RatioIs
  <2> QED
    BY <1>1, <2>1, <2>2
<1>3. IsProduct(g, n, v)
  BY <1>2, ProductIs
<1>4. a \in S \ {i} /\ S \ {i} \in SUBSET (1 .. n) /\ (S \ {i}) \ {a} = (S \ {a}) \ {i}
  OBVIOUS
<1>5. g[S \ {i}] = v[a] * g[(S \ {a}) \ {i}]
  BY <1>3, <1>4 DEF IsProduct
<1>6. PICK w \in Int : w = g[(S \ {a}) \ {i}]
  BY <1>3 DEF IsProduct
<1>7. PICK xa \in Int, xi \in Int, ra \in Int : xa = x[a] /\ xi = x[i] /\ ra = r[i][a]
  BY <1>2
<1>8. Weight(n, x, r, S, i) = (xa * ra) * w /\ Weight(n, x, r, S \ {a}, i) = w
  BY <1>2, <1>5, <1>6, <1>7 DEF Weight
<1>9. Cong(ra * (xa - xi), 1, q)
  BY <1>1, <1>7 DEF Apart
<1>10. (xa - xi) * ((xa * ra) * w) = (ra * (xa - xi)) * (xa * w) /\ 1 * (xa * w) = xa * w
  OBVIOUS
<1>11. PICK f \in Int, d \in Int : f = xa * w /\ d = ra * (xa - xi)
  OBVIOUS
<1>12. Cong(d * f, 1 * f, q)
  <2>1. PICK e \in Int : e = 1
    OBVIOUS
  <2>2. Cong(d, e, q)
    BY <1>9, <1>11, <2>1
  <2>3. Cong(d * f, e * f, q)
    BY <2>2, CongScale
  <2> QED
    BY <2>1, <2>3
<1> QED
  BY <1>7, <1>8, <1>10, <1>11, <1>12

LEMMA MomentTyped ==
  ASSUME NEW n \in Nat, NEW x, NEW r, NEW q, Apart(n, x, r, q),
         NEW S \in SUBSET (1 .. n), NEW p \in Vec(n)
  PROVE  /\ Terms(n, x, r, p, S) \in Vec(n)
         /\ Moment(n, x, r, p, S) \in Int
<1> DEFINE u == Terms(n, x, r, p, S)
<1>1. \A i \in 1 .. n : p[i] \in Int /\ Weight(n, x, r, S, i) \in Int
  BY WeightTyped DEF Vec
<1>2. u \in Vec(n)
  <2>1. \A i \in 1 .. n : p[i] * Weight(n, x, r, S, i) \in Int
    BY <1>1
  <2> QED
    BY <2>1 DEF Terms, Vec
<1>3. IsSum(SumOf(n, u), n, u)
  <2> HIDE DEF u
  <2> QED
    BY <1>2, SumIs
<1> QED
  BY <1>2, <1>3 DEF Moment, IsSum

(* Interpolation is linear in the values.                                  *)
LEMMA MomentLinear ==
  ASSUME NEW n \in Nat, NEW x, NEW r, NEW q \in Int, Apart(n, x, r, q),
         NEW S \in SUBSET (1 .. n), NEW p \in Vec(n), NEW s \in Vec(n),
         NEW t \in Vec(n), NEW c \in Int, NEW d \in Int,
         \A i \in S : Cong(t[i], c * p[i] + d * s[i], q)
  PROVE  Cong(Moment(n, x, r, t, S), c * Moment(n, x, r, p, S) + d * Moment(n, x, r, s, S), q)
<1> DEFINE W(i) == Weight(n, x, r, S, i)
           u == Terms(n, x, r, p, S)
           v == Terms(n, x, r, s, S)
           w == Terms(n, x, r, t, S)
           l == [i \in 1 .. n |-> c * u[i] + d * v[i]]
<1>1. u \in Vec(n) /\ v \in Vec(n) /\ w \in Vec(n)
  BY MomentTyped
<1>2. \A i \in 1 .. n : W(i) \in Int /\ p[i] \in Int /\ s[i] \in Int /\ t[i] \in Int
  BY WeightTyped DEF Vec
<1>3. \A i \in 1 .. n : u[i] = p[i] * W(i) /\ v[i] = s[i] * W(i) /\ w[i] = t[i] * W(i)
  BY DEF Terms
<1>4. /\ Moment(n, x, r, p, S) = SumOf(n, u)[S] /\ Moment(n, x, r, s, S) = SumOf(n, v)[S]
      /\ Moment(n, x, r, t, S) = SumOf(n, w)[S]
  BY DEF Moment
<1> HIDE DEF W, u, v, w
<1>5. l \in Vec(n) /\ Combines(l, u, v, c, d, n)
  <2>1. \A i \in 1 .. n : u[i] \in Int /\ v[i] \in Int
    BY <1>1 DEF Vec
  <2>2. \A i \in 1 .. n : c * u[i] + d * v[i] \in Int
    BY <2>1
  <2> QED
    BY <2>2 DEF Combines, Vec
<1> HIDE DEF l
<1>6. SumOf(n, l)[S] = c * SumOf(n, u)[S] + d * SumOf(n, v)[S]
  BY <1>1, <1>5, SumLinear
<1>7. ASSUME NEW i \in S PROVE Cong(w[i], l[i], q)
  <2>1. i \in 1 .. n
    OBVIOUS
  <2>2. PICK wi \in Int, pi \in Int, si \in Int, ti \in Int :
          wi = W(i) /\ pi = p[i] /\ si = s[i] /\ ti = t[i]
    BY <1>2, <2>1
  <2>3. w[i] = ti * wi /\ l[i] = c * (pi * wi) + d * (si * wi)
    BY <1>3, <1>5, <2>1, <2>2 DEF Combines
  <2>4. c * (pi * wi) + d * (si * wi) = (c * pi + d * si) * wi /\ c * pi + d * si \in Int
    OBVIOUS
  <2>5. Cong(ti, c * pi + d * si, q)
    BY <2>2
  <2>6. Cong(ti * wi, (c * pi + d * si) * wi, q)
    BY <2>4, <2>5, CongScale
  <2> QED
    BY <2>3, <2>4, <2>6
<1>8. Cong(SumOf(n, w)[S], SumOf(n, l)[S], q)
  BY <1>1, <1>5, <1>7, SumCongruent
<1> QED
  BY <1>4, <1>6, <1>8

(* A point can be taken out.                                               *)
LEMMA MomentRemoval ==
  ASSUME NEW n \in Nat, NEW x, NEW r, NEW q \in Int, Apart(n, x, r, q),
         NEW S \in SUBSET (1 .. n), NEW a \in S,
         NEW p \in Vec(n), NEW s \in Vec(n),
         \A i \in S : Cong(s[i], x[i] * p[i], q)
  PROVE  Cong(x[a] * Moment(n, x, r, p, S) - Moment(n, x, r, s, S),
              x[a] * Moment(n, x, r, p, S \ {a}), q)
<1> DEFINE W(i) == Weight(n, x, r, S, i)
           V(i) == Weight(n, x, r, S \ {a}, i)
           xa == x[a]
           minus == -1
           none  == 0
           R == S \ {a}
           u == Terms(n, x, r, p, S)
           v == Terms(n, x, r, s, S)
           w == [i \in 1 .. n |-> xa * u[i] + minus * v[i]]
           l == Terms(n, x, r, p, R)
           z == [i \in 1 .. n |-> xa * l[i] + none * l[i]]
<1>1. R \in SUBSET (1 .. n) /\ a \in 1 .. n /\ minus \in Int /\ none \in Int
  OBVIOUS
<1>2. u \in Vec(n) /\ v \in Vec(n) /\ l \in Vec(n)
  <2> HIDE DEF R
  <2> QED
    BY <1>1, MomentTyped
<1>3. \A i \in 1 .. n : W(i) \in Int /\ V(i) \in Int /\ p[i] \in Int /\ s[i] \in Int /\ x[i] \in Int
  <2>1. \A i \in 1 .. n : p[i] \in Int /\ s[i] \in Int /\ x[i] \in Int
    BY DEF Vec, Apart
  <2> HIDE DEF R
  <2>2. \A i \in 1 .. n : W(i) \in Int /\ V(i) \in Int
    BY <1>1, WeightTyped
  <2> QED
    BY <2>1, <2>2
<1>4. \A i \in 1 .. n : u[i] = p[i] * W(i) /\ v[i] = s[i] * W(i) /\ l[i] = p[i] * V(i)
  BY DEF Terms
<1>5. /\ Moment(n, x, r, p, S) = SumOf(n, u)[S] /\ Moment(n, x, r, s, S) = SumOf(n, v)[S]
      /\ Moment(n, x, r, p, R) = SumOf(n, l)[R]
  BY DEF Moment
<1>6. \A i \in S : i # a => Cong((xa - x[i]) * W(i), xa * V(i), q)
  BY WeightRemoval
<1>7. xa \in Int
  BY <1>1, <1>3
<1> HIDE DEF W, V, u, v, l, minus, none, R
<1>8. /\ w \in Vec(n) /\ z \in Vec(n)
      /\ Combines(w, u, v, xa, minus, n) /\ Combines(z, l, l, xa, none, n)
  <2>1. \A i \in 1 .. n : u[i] \in Int /\ v[i] \in Int /\ l[i] \in Int
    BY <1>2 DEF Vec
  <2> HIDE DEF xa, w, z
  <2>2. \A g, h \in Int : xa * g + minus * h \in Int /\ xa * h + none * h \in Int
    BY <1>1, <1>7
  <2>3. \A i \in 1 .. n : xa * u[i] + minus * v[i] \in Int /\ xa * l[i] + none * l[i] \in Int
    BY <2>1, <2>2
  <2> QED
    BY <2>3 DEF Combines, Vec, w, z
<1>9. xa = x[a]
  OBVIOUS
<1> HIDE DEF w, z, xa
<1>10. /\ SumOf(n, w)[S] = xa * SumOf(n, u)[S] + minus * SumOf(n, v)[S]
       /\ SumOf(n, z)[R] = xa * SumOf(n, l)[R] + none * SumOf(n, l)[R]
  <2>2. SumOf(n, w)[S] = xa * SumOf(n, u)[S] + minus * SumOf(n, v)[S]
    BY <1>1, <1>2, <1>7, <1>8, SumLinear
  <2>3. SumOf(n, z)[R] = xa * SumOf(n, l)[R] + none * SumOf(n, l)[R]
    BY <1>1, <1>2, <1>7, <1>8, SumLinear
  <2> QED
    BY <2>2, <2>3
<1>11. /\ SumOf(n, u)[S] \in Int /\ SumOf(n, v)[S] \in Int /\ SumOf(n, l)[R] \in Int
       /\ SumOf(n, w)[R] \in Int /\ SumOf(n, z)[R] \in Int
  <2>1. /\ IsSum(SumOf(n, u), n, u) /\ IsSum(SumOf(n, v), n, v) /\ IsSum(SumOf(n, l), n, l)
        /\ IsSum(SumOf(n, w), n, w) /\ IsSum(SumOf(n, z), n, z)
    BY <1>2, <1>8, SumIs
  <2> QED
    BY <1>1, <2>1 DEF IsSum
<1>12. SumOf(n, w)[S] = w[a] + SumOf(n, w)[R]
  <2>1. IsSum(SumOf(n, w), n, w)
    BY <1>8, SumIs
  <2> QED
    BY <2>1 DEF IsSum, R
<1>13. ASSUME NEW i \in S
       PROVE  /\ Cong(w[i], ((xa - x[i]) * W(i)) * p[i], q)
              /\ w[i] \in Int
  <2>1. i \in 1 .. n
    OBVIOUS
  <2>2. PICK wi \in Int, pi \in Int, si \in Int, xi \in Int :
          wi = W(i) /\ pi = p[i] /\ si = s[i] /\ xi = x[i]
    BY <1>3, <2>1
  <2>3. w[i] = xa * (pi * wi) + minus * (si * wi)
    BY <1>4, <1>8, <2>1, <2>2 DEF Combines
  <2>4. Cong(si, xi * pi, q)
    BY <2>2
  <2>5. Cong(si * wi, (xi * pi) * wi, q)
    <3>1. xi * pi \in Int
      OBVIOUS
    <3> QED
      BY <2>4, <3>1, CongScale
  <2>6. Cong(xa * (pi * wi) - si * wi, xa * (pi * wi) - (xi * pi) * wi, q)
    <3>1. xa * (pi * wi) \in Int /\ si * wi \in Int /\ (xi * pi) * wi \in Int
      BY <1>7
    <3> QED
      BY <2>5, <3>1, CongEquivalence, CongSums
  <2>7. /\ xa * (pi * wi) + minus * (si * wi) = xa * (pi * wi) - si * wi
        /\ xa * (pi * wi) - (xi * pi) * wi = ((xa - xi) * wi) * pi
    BY <1>7 DEF minus
  <2>8. w[i] \in Int
    BY <1>8, <2>1 DEF Vec
  <2> QED
    BY <2>2, <2>3, <2>6, <2>7, <2>8
<1>14. Cong(w[a], 0, q)
  <2>1. PICK wi \in Int, pi \in Int : wi = W(a) /\ pi = p[a]
    BY <1>1, <1>3
  <2>2. ((xa - x[a]) * W(a)) * p[a] = 0
    <3>1. xa - x[a] = 0
      BY <1>7, <1>9
    <3>2. (0 * wi) * pi = 0
      OBVIOUS
    <3> QED
      BY <2>1, <3>1, <3>2
  <2> QED
    BY <1>13, <2>2
<1>15. ASSUME NEW i \in R PROVE Cong(w[i], z[i], q)
  <2>1. i \in 1 .. n /\ i \in S /\ i # a
    BY DEF R
  <2>2. PICK wi \in Int, vi \in Int, pi \in Int, xi \in Int :
          wi = W(i) /\ vi = V(i) /\ pi = p[i] /\ xi = x[i]
    BY <1>3, <2>1
  <2>3. Cong((xa - xi) * wi, xa * vi, q)
    BY <1>6, <2>1, <2>2
  <2>4. (xa - xi) * wi \in Int /\ xa * vi \in Int
    BY <1>7
  <2>5. Cong(((xa - xi) * wi) * pi, (xa * vi) * pi, q)
    BY <2>3, <2>4, CongScale
  <2>6. z[i] = (xa * vi) * pi
    <3>1. z[i] = xa * (pi * vi) + none * (pi * vi)
      BY <1>4, <1>8, <2>1, <2>2 DEF Combines
    <3>2. xa * (pi * vi) + none * (pi * vi) = (xa * vi) * pi
      BY <1>7 DEF none
    <3> QED
      BY <3>1, <3>2
  <2>7. Cong(w[i], ((xa - xi) * wi) * pi, q) /\ w[i] \in Int
    BY <1>13, <2>1, <2>2
  <2>8. ((xa - xi) * wi) * pi \in Int /\ (xa * vi) * pi \in Int
    BY <1>7
  <2> QED
    BY <2>5, <2>6, <2>7, <2>8, CongEquivalence
<1>16. Cong(SumOf(n, w)[R], SumOf(n, z)[R], q)
  BY <1>1, <1>8, <1>15, SumCongruent
<1>17. Cong(SumOf(n, w)[S], 0 + SumOf(n, z)[R], q)
  <2>1. PICK wa \in Int, wr \in Int, zr \in Int :
          wa = w[a] /\ wr = SumOf(n, w)[R] /\ zr = SumOf(n, z)[R]
    BY <1>11, <1>13
  <2>2. Cong(wa, 0, q) /\ Cong(wr, zr, q)
    BY <1>14, <1>16, <2>1
  <2>3. Cong(wa + wr, 0 + zr, q)
    BY <2>2, CongSums
  <2> QED
    BY <1>12, <2>1, <2>3
<1>18. PICK su \in Int, sv \in Int, sl \in Int :
         su = SumOf(n, u)[S] /\ sv = SumOf(n, v)[S] /\ sl = SumOf(n, l)[R]
  BY <1>11
<1>19. /\ xa * su + minus * sv = xa * su - sv
       /\ 0 + (xa * sl + none * sl) = xa * sl
  BY <1>7 DEF minus, none
<1> QED
  BY <1>5, <1>9, <1>10, <1>17, <1>18, <1>19 DEF R
Ones(n) == [i \in 1 .. n |-> 1]

(* The basis polynomials add up to one, so a constant is interpolated      *)
(* exactly: taking out two points in turn leaves the same sum.             *)
LEMMA ZeroMoment ==
  ASSUME NEW n \in Nat, NEW x, NEW r, NEW q \in Int, Apart(n, x, r, q)
  PROVE  \A S \in SUBSET (1 .. n) : S # {} => Cong(Moment(n, x, r, Ones(n), S), 1, q)
<1> DEFINE p    == Ones(n)
           M(S) == Moment(n, x, r, p, S)
           D    == 1 .. n
           Q    == {S \in SUBSET D : S # {} => Cong(M(S), 1, q)}
<1>1. p \in Vec(n) /\ x \in Vec(n) /\ \A i \in 1 .. n : p[i] = 1 /\ x[i] \in Int
  BY DEF Ones, Vec, Apart
<1> HIDE DEF p
<1>2. \A S \in SUBSET (1 .. n) : M(S) \in Int
  BY <1>1, MomentTyped
<1>3. ASSUME NEW S \in SUBSET (1 .. n), NEW a \in S, S \ {a} # {} => Cong(M(S \ {a}), 1, q),
             S \ {a} # {}
      PROVE  Cong(x[a] * M(S) - Moment(n, x, r, x, S), x[a], q)
  <2>1. \A i \in S : Cong(x[i], x[i] * p[i], q)
    <3> SUFFICES ASSUME NEW i \in S PROVE Cong(x[i], x[i] * p[i], q)
      OBVIOUS
    <3>1. i \in 1 .. n
      OBVIOUS
    <3>2. p[i] = 1 /\ x[i] \in Int
      BY <1>1, <3>1
    <3>3. x[i] * p[i] = x[i]
      BY <3>2
    <3> QED
      BY <3>2, <3>3, CongEquivalence
  <2>2. Cong(x[a] * M(S) - Moment(n, x, r, x, S), x[a] * M(S \ {a}), q)
    BY <1>1, <2>1, MomentRemoval
  <2>3. S \ {a} \in SUBSET (1 .. n) /\ a \in 1 .. n
    OBVIOUS
  <2>4. Moment(n, x, r, x, S) \in Int
    BY <1>1, MomentTyped
  <2>5. PICK xa \in Int, ms \in Int, mr \in Int, y \in Int :
          xa = x[a] /\ ms = M(S) /\ mr = M(S \ {a}) /\ y = Moment(n, x, r, x, S)
    BY <1>1, <1>2, <2>3, <2>4
  <2>6. Cong(xa * mr, xa, q)
    <3>1. PICK k \in Int : mr = 1 + k * q
      BY <1>3, <2>5 DEF Cong
    <3>2. xa * mr = xa + (xa * k) * q /\ xa * k \in Int
      BY <3>1
    <3> QED
      BY <3>2 DEF Cong
  <2>7. Cong(xa * ms - y, xa * mr, q)
    BY <2>2, <2>5
  <2>8. Cong(xa * ms - y, xa, q)
    <3>1. xa * ms - y \in Int /\ xa * mr \in Int
      OBVIOUS
    <3> QED
      BY <2>6, <2>7, <3>1, CongEquivalence
  <2> QED
    BY <2>5, <2>8
<1>4. ASSUME NEW S \in SUBSET (1 .. n), NEW a \in S, S \ {a} = {}
      PROVE  Cong(M(S), 1, q)
  <2>1. a \in 1 .. n /\ {} \in SUBSET (1 .. n)
    OBVIOUS
  <2>2. Weight(n, x, r, S, a) = 1
    <3>1. IsProduct(ProductOf(n, Ratio(n, x, r, a)), n, Ratio(n, x, r, a))
      BY <2>1, RatioIs, ProductIs
    <3> QED
      BY <1>4, <3>1 DEF Weight, IsProduct
  <2>3. Terms(n, x, r, p, S)[a] = 1
    <3>1. Terms(n, x, r, p, S)[a] = p[a] * Weight(n, x, r, S, a)
      BY <2>1 DEF Terms
    <3> QED
      BY <1>1, <2>1, <2>2, <3>1
  <2>4. Terms(n, x, r, p, S) \in Vec(n)
    BY <1>1, MomentTyped
  <2>5. IsSum(SumOf(n, Terms(n, x, r, p, S)), n, Terms(n, x, r, p, S))
    BY <2>4, SumIs
  <2>6. M(S) = 1 + 0
    BY <1>4, <2>3, <2>5 DEF Moment, IsSum
  <2>7. M(S) = 1 /\ 1 \in Int
    BY <2>6
  <2>8. Cong(1, 1, q)
    <3>1. PICK e \in Int : e = 1
      OBVIOUS
    <3>2. Cong(e, e, q)
      BY CongEquivalence
    <3> QED
      BY <3>1, <3>2
  <2> QED
    BY <2>7, <2>8
<1>5. ASSUME NEW S \in SUBSET (1 .. n), NEW a \in S, NEW b \in S, a # b,
             Cong(M(S \ {a}), 1, q), Cong(M(S \ {b}), 1, q)
      PROVE  Cong(M(S), 1, q)
  <2>1. S \ {a} # {} /\ S \ {b} # {}
    BY <1>5
  <2>2. /\ Cong(x[a] * M(S) - Moment(n, x, r, x, S), x[a], q)
        /\ Cong(x[b] * M(S) - Moment(n, x, r, x, S), x[b], q)
    BY <1>3, <1>5, <2>1
  <2>3. a \in 1 .. n /\ b \in 1 .. n
    OBVIOUS
  <2>4. PICK xa \in Int, xb \in Int, m \in Int, y \in Int, rb \in Int :
          xa = x[a] /\ xb = x[b] /\ m = M(S) /\ y = Moment(n, x, r, x, S) /\ rb = r[b][a]
    <3>1. Moment(n, x, r, x, S) \in Int
      BY <1>1, MomentTyped
    <3>2. r[b][a] \in Int
      BY <2>3 DEF Apart
    <3> QED
      BY <1>1, <1>2, <2>3, <3>1, <3>2
  <2>5. PICK k \in Int : xa * m - y = xa + k * q
    BY <2>2, <2>4 DEF Cong
  <2>6. PICK l \in Int : xb * m - y = xb + l * q
    BY <2>2, <2>4 DEF Cong
  <2>7. PICK j \in Int : rb * (xa - xb) = 1 + j * q
    BY <1>5, <2>3, <2>4 DEF Apart, Cong
  <2>8. (xa - xb) * m = (xa - xb) + (k - l) * q
    BY <2>5, <2>6
  <2>9. rb * ((xa - xb) * m) = rb * (xa - xb) + (rb * (k - l)) * q
    BY <2>8
  <2>10. rb * ((xa - xb) * m) = (rb * (xa - xb)) * m
    OBVIOUS
  <2>11. (1 + j * q) * m = (1 + j * q) + (rb * (k - l)) * q
    BY <2>7, <2>9, <2>10
  <2>12. m = 1 + (j + rb * (k - l) - j * m) * q
    BY <2>11
  <2>13. j + rb * (k - l) - j * m \in Int
    OBVIOUS
  <2> QED
    BY <2>4, <2>12, <2>13 DEF Cong
<1> HIDE DEF M
<1>6. ASSUME NEW S \in SUBSET D, \A a \in S : S \ {a} \in Q
      PROVE  S \in Q
  <2> SUFFICES ASSUME S # {} PROVE Cong(M(S), 1, q)
    OBVIOUS
  <2>1. PICK a \in S : TRUE
    OBVIOUS
  <2>2. CASE S \ {a} = {}
    BY <1>4, <2>2
  <2>3. CASE S \ {a} # {}
    <3>1. PICK b \in S \ {a} : TRUE
      BY <2>3
    <3>2. b \in S /\ b # a /\ S \ {b} # {} /\ S \ {a} # {}
      BY <3>1
    <3>3. Cong(M(S \ {a}), 1, q) /\ Cong(M(S \ {b}), 1, q)
      BY <1>6, <3>2
    <3> QED
      BY <1>5, <3>2, <3>3
  <2> QED
    BY <2>2, <2>3
<1>7. IsFiniteSet(D)
  BY FS_Interval
<1>8. \A S \in SUBSET D : S \in Q
  <2> HIDE DEF D, Q
  <2> QED
    BY <1>6, <1>7, SubsetInduction
<1> QED
  BY <1>8 DEF M, p

LEMMA FewerIndices ==
  ASSUME NEW n \in Nat, NEW S \in SUBSET (1 .. n), NEW a \in S
  PROVE  /\ S \ {a} \in SUBSET (1 .. n) /\ Cardinality(S \ {a}) \in Nat
         /\ Cardinality(S \ {a}) = Cardinality(S) - 1
<1>1. IsFiniteSet(1 .. n)
  BY FS_Interval
<1>2. IsFiniteSet(S)
  BY <1>1, FS_Subset
<1> QED
  BY <1>2, FS_RemoveElement, FS_CardinalityType

(* P[m] has the m-th powers of the points.                                 *)
Powers(P, n, x, q, K) ==
  /\ \A m \in 0 .. K : P[m] \in Vec(n)
  /\ P[0] = Ones(n)
  /\ \A m \in 1 .. K : \A i \in 1 .. n : Cong(P[m][i], x[i] * P[m - 1][i], q)

(* The higher powers, as many as there are points less one, are zero at    *)
(* zero.                                                                   *)
LEMMA HigherMoment ==
  ASSUME NEW n \in Nat, NEW x, NEW r, NEW q \in Int, Apart(n, x, r, q),
         NEW K \in Nat, NEW P, Powers(P, n, x, q, K)
  PROVE  \A m \in 1 .. K : \A S \in SUBSET (1 .. n) :
           Cardinality(S) > m => Cong(Moment(n, x, r, P[m], S), 0, q)
<1> DEFINE M(m, S) == Moment(n, x, r, P[m], S)
           Holds(m) == \A S \in SUBSET (1 .. n) : Cardinality(S) > m => Cong(M(m, S), 0, q)
           Bad == {m \in 1 .. K : ~ Holds(m)}
<1>1. \A S \in SUBSET (1 .. n) : S # {} => Cong(M(0, S), 1, q)
  BY ZeroMoment DEF Powers
<1>2. \A m \in 0 .. K : \A S \in SUBSET (1 .. n) : M(m, S) \in Int
  BY MomentTyped DEF Powers
<1>3. ASSUME NEW m \in 1 .. K, m > 1 => Holds(m - 1)
      PROVE  Holds(m)
  <2> SUFFICES ASSUME NEW S \in SUBSET (1 .. n), Cardinality(S) > m
               PROVE  Cong(M(m, S), 0, q)
    OBVIOUS
  <2>1. IsFiniteSet(1 .. n)
    BY FS_Interval
  <2>2. Cardinality(S) \in Nat
    BY <2>1, FS_Subset, FS_CardinalityType
  <2>3. PICK a \in S : TRUE
    <3>1. S = {} => Cardinality(S) = 0
      BY FS_EmptySet
    <3> QED
      BY <2>2, <3>1
  <2>4. /\ S \ {a} \in SUBSET (1 .. n) /\ Cardinality(S \ {a}) \in Nat
        /\ Cardinality(S \ {a}) = Cardinality(S) - 1
    BY FewerIndices
  <2>5. S \ {a} # {}
    <3>1. S \ {a} = {} => Cardinality(S \ {a}) = 0
      BY FS_EmptySet
    <3> QED
      BY <2>2, <2>4, <3>1
  <2>6. m - 1 \in 0 .. K /\ m \in 0 .. K
    OBVIOUS
  <2>7. Cong(x[a] * M(m - 1, S) - M(m, S), x[a] * M(m - 1, S \ {a}), q)
    <3>1. P[m - 1] \in Vec(n) /\ P[m] \in Vec(n)
      BY <2>6 DEF Powers
    <3>2. \A i \in S : Cong(P[m][i], x[i] * P[m - 1][i], q)
      BY DEF Powers
    <3>3. PICK p \in Vec(n), s \in Vec(n) : p = P[m - 1] /\ s = P[m]
      BY <3>1
    <3>4. \A i \in S : Cong(s[i], x[i] * p[i], q)
      BY <3>2, <3>3
    <3>5. Cong(x[a] * Moment(n, x, r, p, S) - Moment(n, x, r, s, S),
               x[a] * Moment(n, x, r, p, S \ {a}), q)
      BY <3>4, MomentRemoval
    <3> QED
      BY <3>3, <3>5
  <2>8. \E e \in Int : Cong(M(m - 1, S), e, q) /\ Cong(M(m - 1, S \ {a}), e, q)
    <3>1. CASE m = 1
      <4>1. m - 1 = 0 /\ 1 \in Int
        BY <3>1
      <4> HIDE DEF M
      <4> QED
        BY <1>1, <2>3, <2>4, <2>5, <4>1
    <3>2. CASE m > 1
      <4>1. Cardinality(S) > m - 1 /\ Cardinality(S \ {a}) > m - 1 /\ 0 \in Int
        BY <2>2, <2>4
      <4> QED
        BY <1>3, <2>4, <3>2, <4>1
    <3> QED
      BY <3>1, <3>2
  <2>9. PICK e \in Int : Cong(M(m - 1, S), e, q) /\ Cong(M(m - 1, S \ {a}), e, q)
    BY <2>8
  <2>10. PICK u \in Int, v \in Int, w \in Int, xa \in Int :
           u = M(m - 1, S) /\ v = M(m - 1, S \ {a}) /\ w = M(m, S) /\ xa = x[a]
    <3>1. x[a] \in Int
      BY DEF Apart
    <3>2. M(m - 1, S) \in Int /\ M(m - 1, S \ {a}) \in Int /\ M(m, S) \in Int
      BY <1>2, <2>4, <2>6
    <3> QED
      BY <3>1, <3>2
  <2> HIDE DEF M
  <2>11. PICK i \in Int : u = e + i * q
    BY <2>9, <2>10 DEF Cong
  <2>12. PICK j \in Int : v = e + j * q
    BY <2>9, <2>10 DEF Cong
  <2>13. PICK k \in Int : xa * u - w = xa * v + k * q
    BY <2>7, <2>10 DEF Cong
  <2>14. xa * (e + i * q) - w = xa * (e + j * q) + k * q
    BY <2>11, <2>12, <2>13
  <2>15. w = 0 + (xa * i - xa * j - k) * q /\ xa * i - xa * j - k \in Int
    BY <2>14
  <2> QED
    BY <2>10, <2>15 DEF Cong
<1> HIDE DEF Holds
<1>4. Bad = {}
  <2> SUFFICES ASSUME Bad # {} PROVE FALSE
    OBVIOUS
  <2>1. Bad \subseteq Nat
    OBVIOUS
  <2> HIDE DEF Bad
  <2>2. PICK m \in Bad : \A j \in Bad : m <= j
    BY <2>1, LeastNatural
  <2>3. m \in 1 .. K /\ ~ Holds(m)
    BY <2>2 DEF Bad
  <2>4. m > 1 /\ ~ Holds(m - 1)
    BY <1>3, <2>3
  <2>5. m - 1 \in 1 .. K /\ ~ m <= m - 1
    BY <2>3, <2>4
  <2>6. m - 1 \in Bad
    BY <2>4, <2>5 DEF Bad
  <2> QED
    BY <2>2, <2>5, <2>6
<1> QED
  BY <1>4 DEF Holds
-----------------------------------------------------------------------------
(* The one property of the code's modulus that interpolation needs.        *)
Prime(q) == \A d \in 2 .. q - 1 : ~ Divides(d, q)

LEMMA PrimeInverse ==
  ASSUME Prime(MODULUS_Q), NEW a \in Int, ~ Cong(a, 0, MODULUS_Q)
  PROVE  \E v \in Int : Cong(v * a, 1, MODULUS_Q)
<1>1. CASE /\ mod_inverse(a, MODULUS_Q) \in 1 .. MODULUS_Q - 1
           /\ Cong(a * mod_inverse(a, MODULUS_Q), 1, MODULUS_Q)
  <2>1. PICK v \in Int : v = mod_inverse(a, MODULUS_Q)
    BY <1>1
  <2>2. a * v = v * a
    OBVIOUS
  <2>3. Cong(v * a, 1, MODULUS_Q)
    BY <1>1, <2>1, <2>2
  <2> QED
    BY <2>3
<1>2. CASE \E d \in 2 .. MODULUS_Q : Divides(d, MODULUS_Q) /\ Divides(d, a)
  <2>1. PICK d \in 2 .. MODULUS_Q : Divides(d, MODULUS_Q) /\ Divides(d, a)
    BY <1>2
  <2>2. d = MODULUS_Q
    BY <2>1, FieldIsLarge DEF Prime
  <2> QED
    BY <2>1, <2>2 DEF Divides
<1> QED
  BY <1>1, <1>2, FieldIsLarge, InverseExact

LEMMA ApartExists ==
  ASSUME Prime(MODULUS_Q), NEW n \in Nat, NEW x \in Vec(n),
         \A i, j \in 1 .. n : i # j => ~ Cong(x[i], x[j], MODULUS_Q)
  PROVE  \E r : Apart(n, x, r, MODULUS_Q)
<1> DEFINE inv(i, j) == CHOOSE v \in Int : Cong(v * (x[j] - x[i]), 1, MODULUS_Q)
           r == [i \in 1 .. n |-> [j \in 1 .. n |-> IF i = j THEN 0 ELSE inv(i, j)]]
<1>1. ASSUME NEW i \in 1 .. n, NEW j \in 1 .. n, i # j
      PROVE  inv(i, j) \in Int /\ Cong(inv(i, j) * (x[j] - x[i]), 1, MODULUS_Q)
  <2>1. PICK xi \in Int, xj \in Int : xi = x[i] /\ xj = x[j]
    BY DEF Vec
  <2>2. ~ Cong(xj - xi, 0, MODULUS_Q)
    <3>1. ASSUME NEW k \in Int, xj - xi = 0 + k * MODULUS_Q
          PROVE  xi = xj + (- k) * MODULUS_Q /\ - k \in Int
      BY <3>1, FieldIsLarge
    <3>2. ~ Cong(xi, xj, MODULUS_Q)
      BY <1>1, <2>1
    <3> QED
      BY <3>1, <3>2 DEF Cong
  <2>3. PICK d \in Int : d = xj - xi
    OBVIOUS
  <2>4. \E v \in Int : Cong(v * d, 1, MODULUS_Q)
    BY <2>2, <2>3, PrimeInverse
  <2>5. x[j] - x[i] = d
    BY <2>1, <2>3
  <2> QED
    BY <2>4, <2>5
<1> HIDE DEF inv
<1>2. r \in [1 .. n -> [1 .. n -> Int]]
  <2>1. \A i, j \in 1 .. n : (IF i = j THEN 0 ELSE inv(i, j)) \in Int
    BY <1>1
  <2> QED
    BY <2>1
<1>3. \A i, j \in 1 .. n : i # j => Cong(r[i][j] * (x[j] - x[i]), 1, MODULUS_Q)
  BY <1>1
<1> HIDE DEF r
<1> QED
  BY <1>2, <1>3 DEF Apart, Vec

(* What divides a factor of one and the modulus is one.                    *)
LEMMA NoDivisor ==
  ASSUME NEW a \in Int, NEW v \in Int, NEW m \in Nat, Cong(a * v, 1, m),
         NEW d \in Nat, d >= 2, Divides(d, m), Divides(d, a)
  PROVE  FALSE
<1>1. PICK k \in Int : a * v = 1 + k * m
  BY DEF Cong
<1>2. PICK i \in Int : m = 0 + i * d
  BY DEF Divides, Cong
<1>3. PICK j \in Int : a = 0 + j * d
  BY DEF Divides, Cong
<1>4. PICK z \in Int : z = j * v - k * i
  OBVIOUS
<1>5. 1 = z * d
  <2>1. (j * d) * v = 1 + k * (i * d)
    BY <1>1, <1>2, <1>3
  <2>2. (j * d) * v - k * (i * d) = (j * v - k * i) * d
    OBVIOUS
  <2>3. (j * d) * v \in Int /\ k * (i * d) \in Int
    OBVIOUS
  <2> QED
    BY <1>4, <2>1, <2>2, <2>3
<1>6. CASE z >= 1
  <2>1. z * d >= d
    BY <1>6
  <2> QED
    BY <1>5, <2>1
<1>7. CASE z <= 0
  <2>1. z * d <= 0
    BY <1>7
  <2> QED
    BY <1>5, <2>1
<1> QED
  BY <1>6, <1>7

(* The products of the code are the weights, and its denominators have     *)
(* inverses.                                                               *)
LEMMA BasisExact ==
  ASSUME NEW n \in Nat, NEW points \in [1 .. n -> Int \X Int], NEW x \in Vec(n), NEW r,
         Apart(n, x, r, MODULUS_Q), \A j \in 1 .. n : points[j][1] = x[j], NEW i \in 1 .. n
  PROVE  /\ mod_inverse(DenOf(points, i), MODULUS_Q) # NoInverse
         /\ WeightOf(points, i) \in Int
         /\ Cong(WeightOf(points, i), Weight(n, x, r, 1 .. n, i), MODULUS_Q)
<1> DEFINE q == MODULUS_Q
           g == ProductOf(n, Ratio(n, x, r, i))
           Inv(b, k) == /\ Cong(b.num, g[(1 .. k) \ {i}] * b.den, q)
                        /\ \E v \in Int : Cong(b.den * v, 1, q)
           T == [k \in 0 .. n |-> {b \in BasisState : Inv(b, k)}]
<1>1. IsProduct(g, n, Ratio(n, x, r, i))
  BY RatioIs, ProductIs
<1>2. \A j \in 1 .. n : Ratio(n, x, r, i)[j] = x[j] * r[i][j] /\ x[j] \in Int /\ r[i][j] \in Int
  BY RatioIs
<1>3. PICK h \in [0 .. n -> BasisState] :
        /\ h[0] = [num |-> 1, den |-> 1] /\ h[n] = Basis(points, i)
        /\ \A k \in 1 .. n : h[k] = BasisNext(h[k - 1], points, i, k)
  BY BasisRuns
<1>q. q \in Nat /\ q > 1 /\ q > 0
  BY FieldIsLarge
<1>r. \A z \in Int : z % q \in Int /\ \E k \in Int : z % q = z + k * q
  <2> SUFFICES ASSUME NEW z \in Int
               PROVE  z % q \in Int /\ \E k \in Int : z % q = z + k * q
    OBVIOUS
  <2> HIDE DEF q, g, Inv, T
  <2>1. Cong(z % q, z, q)
    BY <1>q, CongResidue
  <2>2. z % q \in Int
    BY <1>q
  <2>3. \E k \in Int : z % q = z + k * q
    BY <2>1, Zenon DEF Cong
  <2> QED
    BY <2>2, <2>3
<1>n. n \in 0 .. n
  OBVIOUS
<1>4. \A k \in 0 .. n : h[k].num \in Int /\ h[k].den \in Int /\ g[(1 .. k) \ {i}] \in Int
  <2> SUFFICES ASSUME NEW k \in 0 .. n
               PROVE  h[k].num \in Int /\ h[k].den \in Int /\ g[(1 .. k) \ {i}] \in Int
    OBVIOUS
  <2>1. (1 .. k) \ {i} \in SUBSET (1 .. n)
    OBVIOUS
  <2>2. g[(1 .. k) \ {i}] \in Int
    BY <1>1, <2>1 DEF IsProduct
  <2>3. h[k] \in BasisState
    OBVIOUS
  <2> QED
    BY <2>2, <2>3, FieldIsLarge DEF BasisState, Field
<1> HIDE DEF g, q
<1>5. h[0] \in T[0]
  <2>1. (1 .. 0) \ {i} = {} /\ 0 \in 0 .. n
    OBVIOUS
  <2>2. g[(1 .. 0) \ {i}] = 1
    BY <1>1, <2>1 DEF IsProduct
  <2>3. h[0].num = 1 /\ h[0].den = 1
    BY <1>3
  <2>4. Cong(1, 1, q) /\ 1 * 1 = 1 /\ 1 \in Int
    <3>1. 1 = 1 + 0 * q /\ 0 \in Int
      BY <1>q
    <3> QED
      BY <3>1 DEF Cong
  <2>5. Inv(h[0], 0)
    BY <2>2, <2>3, <2>4
  <2> QED
    BY <2>1, <2>5
<1>6. ASSUME NEW k \in 1 .. n, h[k - 1] \in T[k - 1]
      PROVE  h[k] \in T[k]
  <2>1. k - 1 \in 0 .. n /\ k \in 0 .. n /\ h[k] \in BasisState
    OBVIOUS
  <2>2. Inv(h[k - 1], k - 1)
    BY <1>6, <2>1
  <2>3. CASE k = i
    <3>1. h[k] = h[k - 1]
      BY <1>3, <2>3 DEF BasisNext
    <3>2. (1 .. k) \ {i} = (1 .. (k - 1)) \ {i}
      BY <2>3
    <3>3. Inv(h[k], k)
      BY <2>2, <3>1, <3>2
    <3> QED
      BY <2>1, <3>3
  <2>4. CASE k # i
    <3> DEFINE num == h[k - 1].num
               den == h[k - 1].den
               w   == g[(1 .. (k - 1)) \ {i}]
    <3>1. num \in Int /\ den \in Int /\ w \in Int
      BY <1>4, <2>1
    <3>2. PICK xi \in Int, xk \in Int, ri \in Int : xi = x[i] /\ xk = x[k] /\ ri = r[i][k]
      BY <1>2
    <3>3. g[(1 .. k) \ {i}] = (xk * ri) * w
      <4>1. k \in (1 .. k) \ {i} /\ (1 .. k) \ {i} \in SUBSET (1 .. n)
            /\ ((1 .. k) \ {i}) \ {k} = (1 .. (k - 1)) \ {i}
        <5>1. (1 .. k) \ {k} = 1 .. (k - 1) /\ (1 .. k) \in SUBSET (1 .. n) /\ k \in 1 .. k
          OBVIOUS
        <5>2. ((1 .. k) \ {i}) \ {k} = ((1 .. k) \ {k}) \ {i}
          OBVIOUS
        <5> QED
          BY <2>4, <5>1, <5>2
      <4>2. g[(1 .. k) \ {i}] = Ratio(n, x, r, i)[k] * g[((1 .. k) \ {i}) \ {k}]
        <5>1. PICK v : v = Ratio(n, x, r, i)
          OBVIOUS
        <5>2. PICK S : S = (1 .. k) \ {i}
          OBVIOUS
        <5>3. IsProduct(g, n, v) /\ S \in SUBSET (1 .. n) /\ k \in S
          BY <1>1, <4>1, <5>1, <5>2
        <5>4. g[S] = v[k] * g[S \ {k}]
          BY ONLY <5>3 DEF IsProduct
        <5> QED
          BY ONLY <5>1, <5>2, <5>4
      <4> QED
        BY <1>2, <3>2, <4>1, <4>2
    <3>4. /\ h[k].num = (num * ((- xk) % q)) % q
          /\ h[k].den = (den * ((xi - xk) % q)) % q
      <4>1. h[k] = BasisNext(h[k - 1], points, i, k)
        BY <1>3
      <4>2. points[k][1] = xk /\ points[i][1] = xi
        BY <3>2
      <4> QED
        BY <2>4, <4>1, <4>2 DEF BasisNext, q
    <3>5. Cong(num, w * den, q) /\ \E v \in Int : Cong(den * v, 1, q)
      BY <2>2
    <3>6. Cong(ri * (xk - xi), 1, q)
      BY <2>4, <3>2 DEF Apart, q
    <3> HIDE DEF num, den, w
    <3>7. PICK num2 \in Int, den2 \in Int, a \in Int, b \in Int :
            num2 = h[k].num /\ den2 = h[k].den /\ a = (- xk) % q /\ b = (xi - xk) % q
      <4>1. (- xk) % q \in Int /\ (xi - xk) % q \in Int
        BY <1>q
      <4> QED
        BY <1>4, <2>1, <4>1
    <3>8. PICK k1 \in Int : a = - xk + k1 * q
      <4>1. - xk \in Int
        OBVIOUS
      <4> QED
        BY <1>r, <3>7, <4>1
    <3>9. PICK k2 \in Int : b = (xi - xk) + k2 * q
      <4>1. xi - xk \in Int
        OBVIOUS
      <4> QED
        BY <1>r, <3>7, <4>1
    <3>10. PICK k3 \in Int : num2 = num * a + k3 * q
      <4>1. PICK z \in Int : z = num * a
        BY <3>1
      <4>2. num2 = z % q
        BY <3>4, <3>7, <4>1
      <4> QED
        BY <1>r, <4>1, <4>2
    <3>11. PICK k4 \in Int : den2 = den * b + k4 * q
      <4>1. PICK z \in Int : z = den * b
        BY <3>1
      <4>2. den2 = z % q
        BY <3>4, <3>7, <4>1
      <4> QED
        BY <1>r, <4>1, <4>2
    <3>12. PICK k5 \in Int : num = w * den + k5 * q
      BY <3>5 DEF Cong
    <3>13. PICK k6 \in Int : ri * (xk - xi) = 1 + k6 * q
      BY <3>6 DEF Cong
    <3>14. PICK v \in Int, k7 \in Int : den * v = 1 + k7 * q
      BY <3>5 DEF Cong
    <3>15. Cong(num2, ((xk * ri) * w) * den2, q)
      <4>1. num2 = (w * den + k5 * q) * (- xk + k1 * q) + k3 * q
        BY <3>8, <3>10, <3>12
      <4>2. den2 = den * ((xi - xk) + k2 * q) + k4 * q
        BY <3>9, <3>11
      <4>3. ((xk * ri) * w) * den2
              = - (xk * w * den) * (ri * (xk - xi)) + (xk * ri * w * (den * k2 + k4)) * q
        BY <1>q, <3>1, <4>2
      <4>4. ((xk * ri) * w) * den2
              = - (xk * w * den) * (1 + k6 * q) + (xk * ri * w * (den * k2 + k4)) * q
        BY <3>13, <4>3
      <4>5. PICK y \in Int : y = w * den * k1 - k5 * xk + k5 * k1 * q + k3
                                 + xk * w * den * k6 - xk * ri * w * (den * k2 + k4)
        BY <1>q, <3>1
      <4>6. num2 = ((xk * ri) * w) * den2 + y * q
        BY <1>q, <3>1, <4>1, <4>4, <4>5
      <4> QED
        BY <4>6 DEF Cong
    <3>16. \E u \in Int : Cong(den2 * u, 1, q)
      <4>1. PICK u \in Int : u = - (ri * v)
        OBVIOUS
      <4>2. den2 * u = (den * v) * (ri * (xk - xi)) - (ri * v * (den * k2 + k4)) * q
        BY <1>q, <3>1, <3>9, <3>11, <4>1
      <4>3. den2 * u = (1 + k7 * q) * (1 + k6 * q) - (ri * v * (den * k2 + k4)) * q
        BY <3>13, <3>14, <4>2
      <4>4. PICK y \in Int : y = k7 + k6 + k7 * k6 * q - ri * v * (den * k2 + k4)
        BY <1>q, <3>1
      <4>5. den2 * u = 1 + y * q
        BY <1>q, <3>1, <4>3, <4>4
      <4> QED
        BY <4>5 DEF Cong
    <3>17. Inv(h[k], k)
      BY <3>3, <3>7, <3>15, <3>16
    <3> QED
      BY <2>1, <3>17
  <2> QED
    BY <2>3, <2>4
<1>7. Inv(h[n], n)
  <2>1. \A k \in 0 .. n : h[k] \in T[k]
    <3> HIDE DEF T
    <3> QED
      BY <1>5, <1>6, InOrder
  <2>2. h[n] \in T[n]
    BY <1>n, <2>1
  <2> QED
    BY <1>n, <2>2
<1>8. PICK num \in Int, den \in Int, w \in Int :
        num = Basis(points, i).num /\ den = Basis(points, i).den /\ w = g[(1 .. n) \ {i}]
  BY <1>n, <1>3, <1>4
<1>9. PICK v \in Int : Cong(den * v, 1, q)
  BY <1>3, <1>7, <1>8
<1>10. Cong(num, w * den, q)
  BY <1>3, <1>7, <1>8
<1>11. mod_inverse(den, q) \in 1 .. q - 1 /\ Cong(den * mod_inverse(den, q), 1, q)
  <2>1. ASSUME NEW d \in 2 .. q, Divides(d, q), Divides(d, den) PROVE FALSE
    <3>1. d \in Nat /\ d >= 2
      BY <1>q
    <3> QED
      BY <1>q, <1>9, <2>1, <3>1, NoDivisor
  <2> QED
    BY <1>q, <2>1, InverseExact
<1>12. PICK e \in Int : e = mod_inverse(den, q) /\ e >= 1
  BY <1>11
<1>13. WeightOf(points, i) = (num * e) % q
  BY <1>8, <1>12 DEF WeightOf, DenOf, q
<1>14. PICK z \in Int : z = num * e
  OBVIOUS
<1>15. PICK y \in Int : y = z % q /\ Cong(y, z, q)
  BY <1>r DEF Cong
<1>16. Cong(y, w, q)
  <2>1. PICK k1 \in Int : y = z + k1 * q
    BY <1>15 DEF Cong
  <2>2. PICK k2 \in Int : num = w * den + k2 * q
    BY <1>10 DEF Cong
  <2>3. PICK k3 \in Int : den * e = 1 + k3 * q
    BY <1>11, <1>12 DEF Cong
  <2>4. y = (w * den + k2 * q) * e + k1 * q
    BY <1>14, <2>1, <2>2
  <2>5. y = w * (den * e) + (k2 * e + k1) * q
    BY <1>q, <2>4
  <2>6. y = w * (1 + k3 * q) + (k2 * e + k1) * q
    BY <2>3, <2>5
  <2>7. y = w + (w * k3 + k2 * e + k1) * q
    BY <1>q, <2>6
  <2>8. w * k3 + k2 * e + k1 \in Int
    OBVIOUS
  <2> QED
    BY <2>7, <2>8 DEF Cong
<1>17. Weight(n, x, r, 1 .. n, i) = w
  BY <1>8 DEF Weight, g
<1>18. mod_inverse(DenOf(points, i), q) # NoInverse
  BY <1>8, <1>12 DEF DenOf, NoInverse
<1> QED
  BY <1>13, <1>14, <1>15, <1>16, <1>17, <1>18 DEF q
-----------------------------------------------------------------------------
(* What the code interpolates is the moment of the values.                 *)
LEMMA InterpolatesMoment ==
  ASSUME NEW n \in Nat, NEW points \in [1 .. n -> Int \X Int], NEW x \in Vec(n), NEW r,
         Apart(n, x, r, MODULUS_Q), NEW y \in Vec(n),
         \A j \in 1 .. n : points[j][1] = x[j] /\ points[j][2] = y[j]
  PROVE  /\ reconstruct_secret(points) \in Field
         /\ Cong(reconstruct_secret(points), Moment(n, x, r, y, 1 .. n), MODULUS_Q)
<1> DEFINE q == MODULUS_Q
           S == 1 .. n
           u == Terms(n, x, r, y, S)
           g == SumOf(n, u)
           T == [k \in 0 .. n |-> {v \in Field : Cong(v, g[1 .. k], q)}]
<1>1. \A i \in 1 .. n : /\ mod_inverse(DenOf(points, i), MODULUS_Q) # NoInverse
                        /\ WeightOf(points, i) \in Int
                        /\ Cong(WeightOf(points, i), Weight(n, x, r, 1 .. n, i), MODULUS_Q)
  BY BasisExact
<1>2. PICK h \in [0 .. n -> Field] :
        /\ h[0] = 0 /\ h[n] = reconstruct_secret(points)
        /\ \A k \in 1 .. n :
             h[k] = (h[k - 1] + (((points[k][2] % MODULUS_Q) * WeightOf(points, k)) % MODULUS_Q))
                      % MODULUS_Q
  BY <1>1, SumRuns
<1>3. S \in SUBSET (1 .. n) /\ u \in Vec(n)
  BY MomentTyped
<1>4. \A i \in 1 .. n : u[i] = y[i] * Weight(n, x, r, S, i) /\ u[i] \in Int /\ y[i] \in Int
  BY <1>3 DEF Terms, Vec
<1>5. \A i \in 1 .. n : Weight(n, x, r, S, i) \in Int
  BY WeightTyped
<1> HIDE DEF u
<1>6. IsSum(g, n, u)
  BY <1>3, SumIs
<1>q. q \in Nat /\ q > 0
  BY FieldIsLarge
<1> HIDE DEF g, q
<1>r. \A z \in Int : z % q \in Int /\ \E k \in Int : z % q = z + k * q
  <2> SUFFICES ASSUME NEW z \in Int
               PROVE  z % q \in Int /\ \E k \in Int : z % q = z + k * q
    OBVIOUS
  <2> HIDE DEF S, T
  <2>1. Cong(z % q, z, q)
    BY <1>q, CongResidue
  <2>2. z % q \in Int
    BY <1>q
  <2>3. \E k \in Int : z % q = z + k * q
    BY <2>1, Zenon DEF Cong
  <2> QED
    BY <2>2, <2>3
<1>7. h[0] \in T[0]
  <2>1. 1 .. 0 = {} /\ 0 \in 0 .. n /\ h[0] \in Field
    OBVIOUS
  <2>2. g[1 .. 0] = 0
    BY <1>6, <2>1 DEF IsSum
  <2>3. Cong(0, 0, q)
    <3>1. 0 = 0 + 0 * q /\ 0 \in Int
      BY <1>q
    <3> QED
      BY <3>1 DEF Cong
  <2> QED
    BY <1>2, <2>1, <2>2, <2>3
<1>8. ASSUME NEW k \in 1 .. n, h[k - 1] \in T[k - 1]
      PROVE  h[k] \in T[k]
  <2>1. k - 1 \in 0 .. n /\ k \in 0 .. n /\ h[k] \in Field /\ h[k - 1] \in Field
    OBVIOUS
  <2>2. Cong(h[k - 1], g[1 .. (k - 1)], q)
    BY <1>8, <2>1
  <2>3. g[1 .. k] = u[k] + g[1 .. (k - 1)]
    <3>1. 1 .. k \in SUBSET (1 .. n) /\ k \in 1 .. k /\ (1 .. k) \ {k} = 1 .. (k - 1)
      OBVIOUS
    <3>2. g[1 .. k] = u[k] + g[(1 .. k) \ {k}]
      BY <1>6, <3>1 DEF IsSum
    <3> QED
      BY <3>1, <3>2
  <2>4. g[1 .. (k - 1)] \in Int
    <3>1. 1 .. (k - 1) \in SUBSET (1 .. n)
      OBVIOUS
    <3> QED
      BY <1>6, <3>1 DEF IsSum
  <2>5. PICK hk \in Int, hp \in Int, gp \in Int, yk \in Int, w \in Int, v \in Int :
          /\ hk = h[k] /\ hp = h[k - 1] /\ gp = g[1 .. (k - 1)] /\ yk = y[k]
          /\ w = Weight(n, x, r, S, k) /\ v = WeightOf(points, k)
    <3>1. h[k] \in Int /\ h[k - 1] \in Int
      BY <2>1, FieldIsLarge DEF Field
    <3> QED
      BY <1>1, <1>4, <1>5, <2>4, <3>1
  <2>6. hk = (hp + (((yk % q) * v) % q)) % q
    BY <1>2, <2>5 DEF q
  <2>7. PICK a \in Int, k1 \in Int : a = yk % q /\ a = yk + k1 * q
    BY <1>r
  <2>8. PICK b \in Int, k2 \in Int : b = (a * v) % q /\ b = a * v + k2 * q
    <3>1. PICK z \in Int : z = a * v
      OBVIOUS
    <3>2. PICK b \in Int, k2 \in Int : b = z % q /\ b = z + k2 * q
      BY <1>r
    <3> QED
      BY <3>1, <3>2
  <2>9. PICK k3 \in Int : hk = (hp + b) + k3 * q
    <3>1. PICK z \in Int : z = hp + b
      OBVIOUS
    <3>2. hk = z % q
      BY <2>6, <2>7, <2>8, <3>1
    <3> QED
      BY <1>r, <3>1, <3>2
  <2>10. PICK k4 \in Int : v = w + k4 * q
    BY <1>1, <2>5 DEF Cong, q
  <2>11. PICK k5 \in Int : hp = gp + k5 * q
    BY <2>2, <2>5 DEF Cong
  <2>12. u[k] = yk * w
    BY <1>4, <2>5
  <2>13. hk = (gp + k5 * q) + ((yk + k1 * q) * (w + k4 * q) + k2 * q) + k3 * q
    BY <2>7, <2>8, <2>9, <2>10, <2>11
  <2>14. PICK e \in Int : e = k5 + yk * k4 + k1 * w + k1 * k4 * q + k2 + k3
    BY <1>q
  <2>15. hk = (yk * w + gp) + e * q
    BY <1>q, <2>13, <2>14
  <2>16. Cong(h[k], g[1 .. k], q)
    BY <2>3, <2>5, <2>12, <2>15 DEF Cong
  <2> QED
    BY <2>1, <2>16
<1>9. h[n] \in T[n]
  <2>1. \A k \in 0 .. n : h[k] \in T[k]
    <3> HIDE DEF T
    <3> QED
      BY <1>7, <1>8, InOrder
  <2>2. n \in 0 .. n
    OBVIOUS
  <2> QED
    BY <2>1, <2>2
<1>10. n \in 0 .. n
  OBVIOUS
<1>11. h[n] \in Field /\ Cong(h[n], g[1 .. n], q)
  BY <1>9, <1>10
<1> QED
  BY <1>2, <1>11 DEF Moment, g, u, q, S

(* The interpolation of the values of a polynomial at zero gives its first *)
(* coefficient, if it has no more coefficients than there are points.      *)
LEMMA PolynomialMoment ==
  ASSUME NEW n \in Nat, NEW x, NEW r, NEW q \in Int, Apart(n, x, r, q),
         NEW K \in 1 .. n, NEW P, Powers(P, n, x, q, K), NEW c \in Vec(K),
         NEW Y, \A m \in 0 .. K : Y[m] \in Vec(n),
         \A i \in 1 .. n : Y[0][i] = 0,
         \A m \in 1 .. K : \A i \in 1 .. n : Cong(Y[m][i], 1 * Y[m - 1][i] + c[m] * P[m - 1][i], q)
  PROVE  Cong(Moment(n, x, r, Y[K], 1 .. n), c[1], q)
<1> DEFINE S == 1 .. n
           M(p) == Moment(n, x, r, p, S)
           Holds(m) == Cong(M(Y[m]), c[1], q)
           Bad == {m \in 1 .. K : ~ Holds(m)}
<1>1. S \in SUBSET (1 .. n) /\ S # {} /\ K \in Nat
  OBVIOUS
<1>2. Cardinality(S) = n
  BY FS_Interval
<1>3. \A m \in 0 .. K : P[m] \in Vec(n) /\ M(P[m]) \in Int /\ M(Y[m]) \in Int
  BY <1>1, MomentTyped DEF Powers
<1>4. Cong(M(P[0]), 1, q)
  BY <1>1, ZeroMoment DEF Powers
<1>5. \A m \in 1 .. K : n > m => Cong(M(P[m]), 0, q)
  BY <1>1, <1>2, HigherMoment
<1>6. c[1] \in Int /\ \A m \in 1 .. K : c[m] \in Int
  BY DEF Vec
<1>7. Cong(M(Y[0]), 0, q)
  <2>1. 0 \in 0 .. K
    OBVIOUS
  <2>2. PICK z \in Vec(n), o \in Int : z = Y[0] /\ o = 0
    BY <2>1
  <2>3. \A i \in S : Cong(z[i], o * z[i] + o * z[i], q)
    <3> SUFFICES ASSUME NEW i \in S PROVE Cong(z[i], o * z[i] + o * z[i], q)
      OBVIOUS
    <3>1. z[i] = 0 /\ o * z[i] + o * z[i] = 0
      BY <2>2
    <3>2. 0 = 0 + 0 * q /\ 0 \in Int
      OBVIOUS
    <3> QED
      BY <3>1, <3>2 DEF Cong
  <2>4. Cong(Moment(n, x, r, z, S), o * Moment(n, x, r, z, S) + o * Moment(n, x, r, z, S), q)
    <3> HIDE DEF S
    <3> QED
      BY <1>1, <2>3, MomentLinear
  <2>5. Moment(n, x, r, z, S) \in Int
    BY <1>3, <2>1, <2>2
  <2>6. o * Moment(n, x, r, z, S) + o * Moment(n, x, r, z, S) = 0
    BY <2>2, <2>5
  <2> QED
    BY <2>2, <2>4, <2>6
<1>8. ASSUME NEW m \in 1 .. K, m > 1 => Holds(m - 1)
      PROVE  Holds(m)
  <2>1. m - 1 \in 0 .. K /\ m \in 0 .. K
    OBVIOUS
  <2>2. PICK t \in Vec(n), p \in Vec(n), s \in Vec(n), one \in Int, cm \in Int :
          t = Y[m] /\ p = Y[m - 1] /\ s = P[m - 1] /\ one = 1 /\ cm = c[m]
    <3>1. Y[m] \in Vec(n) /\ Y[m - 1] \in Vec(n) /\ P[m - 1] \in Vec(n)
      BY <1>3, <2>1
    <3>2. c[m] \in Int /\ 1 \in Int
      BY <1>6
    <3> HIDE DEF S, M, Holds, Bad
    <3> QED
      BY <3>1, <3>2
  <2>3. \A i \in S : Cong(t[i], one * p[i] + cm * s[i], q)
    BY <2>2
  <2>4. Cong(Moment(n, x, r, t, S), one * Moment(n, x, r, p, S) + cm * Moment(n, x, r, s, S), q)
    <3> HIDE DEF S
    <3> QED
      BY <1>1, <2>3, MomentLinear
  <2>5. PICK mt \in Int, mp \in Int, ms \in Int, c1 \in Int :
          mt = M(t) /\ mp = M(p) /\ ms = M(s) /\ c1 = c[1]
    BY <1>3, <1>6, <2>1, <2>2
  <2>6. PICK k1 \in Int : mt = mp + cm * ms + k1 * q
    <3>1. Cong(mt, one * mp + cm * ms, q)
      BY <2>4, <2>5
    <3> QED
      BY <2>2, <3>1 DEF Cong
  <2>7. CASE m = 1
    <3>1. Cong(mp, 0, q) /\ Cong(ms, 1, q) /\ cm = c1
      <4>1. m - 1 = 0
        BY <2>7
      <4> HIDE DEF M
      <4> QED
        BY <1>4, <1>7, <2>2, <2>5, <2>7, <4>1
    <3>2. PICK k2 \in Int : mp = 0 + k2 * q
      BY <3>1 DEF Cong
    <3>3. PICK k3 \in Int : ms = 1 + k3 * q
      BY <3>1 DEF Cong
    <3>4. mt = k2 * q + c1 * (1 + k3 * q) + k1 * q
      BY <2>6, <3>1, <3>2, <3>3
    <3>5. mt = c1 + (k2 + c1 * k3 + k1) * q /\ k2 + c1 * k3 + k1 \in Int
      BY <3>4
    <3> QED
      BY <2>2, <2>5, <3>5 DEF Cong
  <2>8. CASE m > 1
    <3>1. Cong(mp, c1, q) /\ Cong(ms, 0, q)
      <4>1. m - 1 \in 1 .. K /\ n > m - 1
        BY <2>8
      <4>2. Cong(M(P[m - 1]), 0, q) /\ Cong(M(Y[m - 1]), c[1], q)
        BY <1>5, <1>8, <2>8, <4>1
      <4> HIDE DEF M
      <4> QED
        BY <2>2, <2>5, <4>2
    <3>2. PICK k2 \in Int : mp = c1 + k2 * q
      BY <3>1 DEF Cong
    <3>3. PICK k3 \in Int : ms = 0 + k3 * q
      BY <3>1 DEF Cong
    <3>4. mt = (c1 + k2 * q) + cm * (k3 * q) + k1 * q
      BY <2>6, <3>2, <3>3
    <3>5. mt = c1 + (k2 + cm * k3 + k1) * q /\ k2 + cm * k3 + k1 \in Int
      BY <3>4
    <3> QED
      BY <2>2, <2>5, <3>5 DEF Cong
  <2> QED
    BY <2>7, <2>8
<1> HIDE DEF Holds
<1>9. Bad = {}
  <2> SUFFICES ASSUME Bad # {} PROVE FALSE
    OBVIOUS
  <2>1. Bad \subseteq Nat
    OBVIOUS
  <2> HIDE DEF Bad
  <2>2. PICK m \in Bad : \A j \in Bad : m <= j
    BY <2>1, LeastNatural
  <2>3. m \in 1 .. K /\ ~ Holds(m)
    BY <2>2 DEF Bad
  <2>4. m > 1 /\ ~ Holds(m - 1)
    BY <1>8, <2>3
  <2>5. m - 1 \in 1 .. K /\ ~ m <= m - 1
    BY <2>3, <2>4
  <2>6. m - 1 \in Bad
    BY <2>4, <2>5 DEF Bad
  <2> QED
    BY <2>2, <2>5, <2>6
<1> QED
  BY <1>9 DEF Holds
LEMMA FieldIsPrime == Prime(MODULUS_Q)
<1> DEFINE q == MODULUS_Q
<1> SUFFICES ASSUME NEW d \in 2 .. q - 1, Divides(d, q) PROVE FALSE
  BY DEF Prime
<1>1. q \in Int /\ d \in Nat /\ d > 0
  BY FieldIsLarge
<1>2. PICK r \in Int, o \in Int : r = q % d /\ o = 0
  <2>1. q % d \in Int
    BY <1>1
  <2> QED
    BY <2>1
<1>3. r # o
  BY <1>2, PrimeAssumption
<1> HIDE DEF q
<1>4. Cong(r, q, d) /\ r \in 0 .. d - 1
  BY <1>1, <1>2, CongResidue
<1>5. Cong(q, o, d)
  BY <1>2 DEF Divides
<1>6. Cong(r, o, d)
  BY <1>1, <1>4, <1>5, CongEquivalence
<1>7. o \in 0 .. d - 1
  BY <1>1, <1>2
<1> QED
  BY <1>1, <1>3, <1>4, <1>6, <1>7, CongUnique
-----------------------------------------------------------------------------
(* Interpolation gives back the first coefficient of a polynomial from any *)
(* list of distinct points on it, in any order, that is not shorter than   *)
(* its coefficients (reconstruct_secret), whatever the prime field.        *)
THEOREM InterpolationExact ==
  ASSUME NEW K \in Nat \ {0}, NEW c \in [1 .. K -> Int],
         NEW n \in Nat, n >= K, NEW points \in [1 .. n -> Int \X Int],
         \A i, j \in 1 .. n : i # j => ~ Cong(points[i][1], points[j][1], MODULUS_Q),
         \A i \in 1 .. n : points[i][2] = Evaluate(c, points[i][1])
  PROVE  reconstruct_secret(points) = c[1] % MODULUS_Q
<1> DEFINE x == [i \in 1 .. n |-> points[i][1]]
           y == [i \in 1 .. n |-> points[i][2]]
           IsRun(h, a) == /\ h[0] = [y |-> 0, x_pow |-> 1] /\ h[K].y = Evaluate(c, a)
                          /\ \A k \in 1 .. K : h[k] = EvalNext(h[k - 1], c[k], a)
           H == [i \in 1 .. n |-> CHOOSE h \in [0 .. K -> EvalState] : IsRun(h, x[i])]
           P == [m \in 0 .. K |-> [i \in 1 .. n |-> H[i][m].x_pow]]
           Y == [m \in 0 .. K |-> [i \in 1 .. n |-> H[i][m].y]]
           q == MODULUS_Q
<1>1. x \in Vec(n) /\ y \in Vec(n) /\ \A i \in 1 .. n : points[i][1] = x[i] /\ points[i][2] = y[i]
  BY DEF Vec
<1>2. ASSUME NEW i \in 1 .. n PROVE x[i] \in Int /\ y[i] = Evaluate(c, x[i])
  BY <1>1
<1>3. c \in Vec(K) /\ \A m \in 1 .. K : c[m] \in Int
  BY DEF Vec
<1>4. PICK r : Apart(n, x, r, MODULUS_Q)
  <2>1. \A i, j \in 1 .. n : i # j => ~ Cong(x[i], x[j], MODULUS_Q)
    BY <1>1
  <2> HIDE DEF x
  <2> QED
    BY <1>1, <2>1, ApartExists, FieldIsPrime
<1>q. q \in Nat /\ q > 1 /\ q > 0
  BY FieldIsLarge
<1> HIDE DEF x, y, q
<1>r. \A z \in Int : z % q \in Int /\ Cong(z % q, z, q)
  <2> SUFFICES ASSUME NEW z \in Int PROVE z % q \in Int /\ Cong(z % q, z, q)
    OBVIOUS
  <2>0. q \in Nat /\ q > 0
    BY <1>q
  <2>1. Cong(z % q, z, q)
    BY <2>0, CongResidue
  <2>2. z % q \in Int
    BY <2>0
  <2> QED
    BY <2>1, <2>2
<1>5. \A i \in 1 .. n : H[i] \in [0 .. K -> EvalState] /\ IsRun(H[i], x[i])
  <2> SUFFICES ASSUME NEW i \in 1 .. n
               PROVE  H[i] \in [0 .. K -> EvalState] /\ IsRun(H[i], x[i])
    OBVIOUS
  <2>1. PICK a \in Int : a = x[i]
    BY <1>2
  <2>2. \E h \in [0 .. K -> EvalState] : IsRun(h, a)
    <3>1. K \in Nat /\ c \in [1 .. K -> Int] /\ a \in Int
      OBVIOUS
    <3> QED
      BY ONLY <3>1, EvaluateRuns
  <2>3. H[i] = CHOOSE h \in [0 .. K -> EvalState] : IsRun(h, a)
    BY <2>1
  <2> HIDE DEF H, IsRun
  <2> QED
    BY <2>1, <2>2, <2>3
<1> HIDE DEF H
<1>6. \A m \in 0 .. K : \A i \in 1 .. n :
        H[i][m].y \in Int /\ H[i][m].x_pow \in Int
  <2> SUFFICES ASSUME NEW m \in 0 .. K, NEW i \in 1 .. n
               PROVE  H[i][m].y \in Int /\ H[i][m].x_pow \in Int
    OBVIOUS
  <2>1. PICK e \in EvalState : e = H[i][m]
    BY <1>5
  <2>2. e.y \in Int /\ e.x_pow \in Int
    BY FieldIsLarge DEF EvalState, Field
  <2> HIDE DEF P, Y, IsRun
  <2> QED
    BY <2>1, <2>2
<1>7. \A m \in 0 .. K : P[m] \in Vec(n) /\ Y[m] \in Vec(n)
  BY <1>6 DEF Vec
<1>8. \A m \in 0 .. K : \A i \in 1 .. n : P[m][i] = H[i][m].x_pow /\ Y[m][i] = H[i][m].y
  OBVIOUS
<1>9. 0 \in 0 .. K /\ K \in 0 .. K /\ \A m \in 1 .. K : m \in 0 .. K /\ m - 1 \in 0 .. K
  OBVIOUS
<1>10. P[0] = Ones(n)
  <2>1. \A i \in 1 .. n : H[i][0].x_pow = 1
    BY <1>5
  <2>2. P[0] = [i \in 1 .. n |-> H[i][0].x_pow]
    BY <1>9
  <2> HIDE DEF P
  <2> QED
    BY <2>1, <2>2 DEF Ones
<1>11. \A i \in 1 .. n : Y[0][i] = 0
  BY <1>5, <1>8, <1>9
<1>12. \A m \in 1 .. K : \A i \in 1 .. n :
         /\ Cong(P[m][i], x[i] * P[m - 1][i], q)
         /\ Cong(Y[m][i], 1 * Y[m - 1][i] + c[m] * P[m - 1][i], q)
  <2> SUFFICES ASSUME NEW m \in 1 .. K, NEW i \in 1 .. n
               PROVE  /\ Cong(P[m][i], x[i] * P[m - 1][i], q)
                      /\ Cong(Y[m][i], 1 * Y[m - 1][i] + c[m] * P[m - 1][i], q)
    OBVIOUS
  <2>1. H[i][m] = EvalNext(H[i][m - 1], c[m], x[i])
    BY <1>5
  <2>2. PICK a \in Int, cm \in Int, yp \in Int, pp \in Int :
          a = x[i] /\ cm = c[m] /\ yp = Y[m - 1][i] /\ pp = P[m - 1][i]
    BY <1>2, <1>3, <1>6, <1>8, <1>9
  <2>3. H[i][m - 1].y = yp /\ H[i][m - 1].x_pow = pp
    BY <1>8, <1>9, <2>2
  <2>4. PICK u \in Int, v \in Int : u = yp + cm * pp /\ v = pp * a
    OBVIOUS
  <2>5. P[m][i] = v % q /\ Y[m][i] = u % q
    <3>1. P[m][i] = H[i][m].x_pow /\ Y[m][i] = H[i][m].y
      BY <1>8, <1>9
    <3> HIDE DEF P, Y
    <3>2. EvalNext(H[i][m - 1], c[m], x[i]) = [y |-> u % q, x_pow |-> v % q]
      BY <2>2, <2>3, <2>4 DEF EvalNext, q
    <3>3. H[i][m].x_pow = v % q /\ H[i][m].y = u % q
      BY <2>1, <3>2
    <3> QED
      BY <3>1, <3>3
  <2>6. v = a * pp /\ u = 1 * yp + cm * pp
    BY <2>4
  <2> HIDE DEF P, Y
  <2> QED
    BY <1>r, <2>2, <2>4, <2>5, <2>6
<1> HIDE DEF P, Y
<1>13. Powers(P, n, x, q, K)
  BY <1>7, <1>10, <1>12 DEF Powers
<1>14. Cong(Moment(n, x, r, Y[K], 1 .. n), c[1], q)
  <2>1. K \in 1 .. n /\ q \in Int /\ Apart(n, x, r, q)
    BY <1>4, <1>q DEF q
  <2> HIDE DEF IsRun
  <2> QED
    BY <1>3, <1>7, <1>11, <1>12, <1>13, <2>1, PolynomialMoment
<1>15. y = Y[K]
  <2>1. \A i \in 1 .. n : y[i] = Y[K][i]
    BY <1>2, <1>5, <1>8, <1>9 DEF Y, P
  <2>2. Y[K] \in Vec(n)
    BY <1>7, <1>9
  <2> QED
    BY <1>1, <2>1, <2>2, SMTT(30) DEF Vec
<1>16. /\ reconstruct_secret(points) \in Field
       /\ Cong(reconstruct_secret(points), Moment(n, x, r, y, 1 .. n), q)
  BY <1>1, <1>4, InterpolatesMoment DEF q
<1>17. PICK s \in Int, m \in Int, c1 \in Int, e \in Int :
         /\ s = reconstruct_secret(points) /\ m = Moment(n, x, r, y, 1 .. n)
         /\ c1 = c[1] /\ e = c1 % q
  <2>1. 1 .. n \in SUBSET (1 .. n) /\ 1 \in 1 .. K
    OBVIOUS
  <2>2. Moment(n, x, r, y, 1 .. n) \in Int
    BY <1>1, <1>4, <2>1, MomentTyped
  <2>3. reconstruct_secret(points) \in Int
    BY <1>16, FieldIsLarge DEF Field
  <2>4. c[1] \in Int
    BY <1>3, <2>1
  <2> QED
    BY <1>r, <2>2, <2>3, <2>4
<1>18. Cong(s, m, q) /\ Cong(m, c1, q) /\ Cong(e, c1, q)
  BY <1>14, <1>15, <1>16, <1>17, <1>r
<1>19. Cong(s, e, q)
  <2>1. Cong(s, c1, q) /\ Cong(c1, e, q)
    BY <1>18, <1>q, CongEquivalence
  <2> QED
    BY <2>1, <1>q, CongEquivalence
<1>20. s \in 0 .. q - 1 /\ e \in 0 .. q - 1
  <2>1. \A a \in Int, b \in Nat : b > 0 => a % b \in 0 .. b - 1
    OBVIOUS
  <2>2. e \in 0 .. q - 1
    BY <1>17, <1>q, <2>1
  <2> QED
    BY <1>16, <1>17, <2>2 DEF Field, q
<1>21. s = e
  BY <1>19, <1>20, <1>q, CongUnique
<1> QED
  BY <1>17, <1>21 DEF q

(* A list that names an evaluation point twice is refused, whatever the    *)
(* other points are (comment on mod_inverse): the repeated factor makes a  *)
(* denominator zero, and zero has no inverse.                              *)
THEOREM RepeatedPoint ==
  ASSUME NEW n \in Nat, NEW points \in [1 .. n -> Int \X Int],
         NEW i \in 1 .. n, NEW j \in 1 .. n, i # j,
         Cong(points[i][1], points[j][1], MODULUS_Q)
  PROVE  reconstruct_secret(points) = NoInverse
<1> DEFINE q == MODULUS_Q
           T == [k \in 0 .. n |-> {b \in BasisState : k >= j => b.den = 0}]
<1>1. PICK h \in [0 .. n -> BasisState] :
        /\ h[0] = [num |-> 1, den |-> 1] /\ h[n] = Basis(points, i)
        /\ \A k \in 1 .. n : h[k] = BasisNext(h[k - 1], points, i, k)
  BY BasisRuns
<1>q. q \in Nat /\ q > 1 /\ q > 0 /\ 0 % q = 0
  BY FieldIsLarge
<1>2. (points[i][1] - points[j][1]) % q = 0
  <2>1. PICK a \in Int, b \in Int : a = points[i][1] /\ b = points[j][1]
    OBVIOUS
  <2>2. PICK k \in Int : a = b + k * q
    BY <2>1 DEF Cong
  <2>3. PICK d \in Int : d = a - b
    OBVIOUS
  <2>4. d = 0 + k * q
    BY <1>q, <2>2, <2>3
  <2> HIDE DEF q
  <2>5. PICK e \in Int : e = d % q /\ e \in 0 .. q - 1 /\ Cong(e, d, q)
    <3>1. d % q \in Int
      BY <1>q
    <3> QED
      BY <1>q, <3>1, CongResidue
  <2>6. PICK o \in Int : o = 0
    OBVIOUS
  <2>7. Cong(d, o, q)
    BY <2>4, <2>6 DEF Cong
  <2>8. Cong(e, o, q)
    BY <1>q, <2>5, <2>7, CongEquivalence
  <2>9. o \in 0 .. q - 1
    BY <1>q, <2>6
  <2>10. e = o
    BY <1>q, <2>5, <2>8, <2>9, CongUnique
  <2> QED
    BY <2>1, <2>3, <2>5, <2>6, <2>10
<1> HIDE DEF q
<1>3. h[0] \in T[0]
  <2>1. 0 \in 0 .. n /\ ~ (0 >= j)
    OBVIOUS
  <2> QED
    BY <2>1
<1>4. ASSUME NEW k \in 1 .. n, h[k - 1] \in T[k - 1]
      PROVE  h[k] \in T[k]
  <2>1. k \in 0 .. n /\ k - 1 \in 0 .. n /\ h[k] \in BasisState /\ h[k - 1] \in BasisState
    OBVIOUS
  <2>2. k - 1 >= j => h[k - 1].den = 0
    BY <1>4, <2>1
  <2>3. h[k] = BasisNext(h[k - 1], points, i, k)
    BY <1>1
  <2>4. PICK den \in Int, b \in Int :
          den = h[k - 1].den /\ b = (points[i][1] - points[k][1]) % q
    <3>1. h[k - 1].den \in Int
      BY <2>1, FieldIsLarge DEF BasisState, Field
    <3>2. points[i][1] - points[k][1] \in Int
      OBVIOUS
    <3>3. (points[i][1] - points[k][1]) % q \in Int
      BY <1>q, <3>2
    <3> QED
      BY <3>1, <3>3
  <2>5. CASE k = i
    <3>1. h[k] = h[k - 1] /\ k # j
      BY <2>3, <2>5 DEF BasisNext
    <3>2. k >= j => k - 1 >= j
      BY <3>1
    <3>3. k >= j => h[k].den = 0
      BY <2>2, <3>1, <3>2
    <3> QED
      BY <2>1, <3>3
  <2>6. CASE k # i
    <3>1. h[k].den = (den * b) % q
      BY <2>3, <2>4, <2>6 DEF BasisNext, q
    <3>2. k >= j => den * b = 0
      <4>1. k >= j => k = j \/ k - 1 >= j
        OBVIOUS
      <4>2. k = j => b = 0
        BY <1>2, <2>4
      <4>3. den = 0 => den * b = 0
        OBVIOUS
      <4>4. b = 0 => den * b = 0
        OBVIOUS
      <4> QED
        BY <2>2, <2>4, <4>1, <4>2, <4>3, <4>4
    <3>3. k >= j => h[k].den = 0
      BY <1>q, <3>1, <3>2
    <3> QED
      BY <2>1, <3>3
  <2> QED
    BY <2>5, <2>6
<1>5. Basis(points, i).den = 0
  <2>1. \A k \in 0 .. n : h[k] \in T[k]
    <3> HIDE DEF T
    <3> QED
      BY <1>3, <1>4, InOrder
  <2>2. n \in 0 .. n /\ n >= j
    OBVIOUS
  <2>3. h[n] \in T[n]
    BY <2>1, <2>2
  <2> QED
    BY <1>1, <2>2, <2>3
<1>6. mod_inverse(0, q) = NoInverse
  <2>1. PICK o \in Int : o = 0
    OBVIOUS
  <2>2. CASE mod_inverse(o, q) \in 1 .. q - 1 /\ Cong(o * mod_inverse(o, q), 1, q)
    <3>1. PICK v \in Int : v = mod_inverse(o, q)
      BY <2>2
    <3>2. o * v = 0
      BY <2>1
    <3>3. PICK e \in Int : e = 1
      OBVIOUS
    <3>4. Cong(o, e, q)
      BY <2>1, <2>2, <3>1, <3>2, <3>3
    <3>5. o \in 0 .. q - 1 /\ e \in 0 .. q - 1 /\ o # e
      BY <1>q, <2>1, <3>3
    <3> QED
      BY <1>q, <3>4, <3>5, CongUnique
  <2>3. CASE mod_inverse(o, q) = NoInverse
    BY <2>1, <2>3
  <2> QED
    BY <1>q, <2>1, <2>2, <2>3, InverseExact
<1>7. i \in DOMAIN points
  OBVIOUS
<1> QED
  BY <1>5, <1>6, <1>7 DEF reconstruct_secret, q
-----------------------------------------------------------------------------
(* Evaluation is linear in the coefficients.                               *)
Line(a, b, c, d, q) == Cong(a, b + c * d, q)

LEMMA CombineStep ==
  ASSUME NEW q \in Int, NEW p \in Int, NEW delta \in Int,
         NEW dy \in Int, NEW dp \in Int, NEW dm \in Int, Line(dy, dp, dm, p, q),
         NEW cy \in Int, NEW cp \in Int, NEW cm \in Int, Line(cy, cp, cm, p, q),
         NEW zy \in Int, NEW zp \in Int, NEW zm \in Int, Line(zy, zp, zm, p, q),
         Line(dm, cm, delta, zm, q), Line(dp, cp, delta, zp, q)
  PROVE  Line(dy, cy, delta, zy, q)
<1>0. /\ Cong(dy, dp + dm * p, q) /\ Cong(cy, cp + cm * p, q) /\ Cong(zy, zp + zm * p, q)
      /\ Cong(dm, cm + delta * zm, q) /\ Cong(dp, cp + delta * zp, q)
  BY DEF Line
<1>1. PICK a \in Int, b \in Int, dmp \in Int, ap \in Int :
        a = cm + delta * zm /\ b = cp + delta * zp /\ dmp = dm * p /\ ap = a * p
  OBVIOUS
<1>2. Cong(dm, a, q) /\ Cong(dp, b, q) /\ Cong(dy, dp + dmp, q)
  BY <1>0, <1>1
<1>3. Cong(dmp, ap, q)
  BY <1>1, <1>2, CongScale
<1>4. Cong(dp + dmp, b + ap, q)
  BY <1>2, <1>3, CongSums
<1>5. PICK cs \in Int, zs \in Int, dzy \in Int, dzs \in Int :
        cs = cp + cm * p /\ zs = zp + zm * p /\ dzy = delta * zy /\ dzs = delta * zs
  OBVIOUS
<1>6. Cong(cy, cs, q) /\ Cong(zy, zs, q)
  BY <1>0, <1>5
<1>7. Cong(dzy, dzs, q)
  <2>1. zy * delta = delta * zy /\ zs * delta = delta * zs
    OBVIOUS
  <2>2. Cong(zy * delta, zs * delta, q)
    BY <1>6, CongScale
  <2> QED
    BY <1>5, <2>1, <2>2
<1>8. Cong(cy + dzy, cs + dzs, q)
  BY <1>6, <1>7, CongSums
<1>9. b + ap = cs + dzs
  <2>1. ap = cm * p + (delta * zm) * p
    BY <1>1
  <2>2. dzs = delta * zp + delta * (zm * p)
    BY <1>5
  <2>3. (delta * zm) * p = delta * (zm * p)
    OBVIOUS
  <2> QED
    BY <1>1, <1>5, <2>1, <2>2, <2>3
<1>10. PICK s \in Int, t \in Int, u \in Int : s = dp + dmp /\ t = b + ap /\ u = cy + dzy
  OBVIOUS
<1>11. Cong(dy, s, q) /\ Cong(s, t, q) /\ Cong(u, t, q)
  BY <1>2, <1>4, <1>8, <1>9, <1>10
<1>12. Cong(dy, t, q) /\ Cong(t, u, q)
  BY <1>11, CongEquivalence
<1>13. Cong(dy, u, q)
  BY <1>12, CongEquivalence
<1> QED
  BY <1>5, <1>10, <1>13 DEF Line

IsEval(h, n, c, x) ==
  /\ h \in [0 .. n -> EvalState] /\ h[0] = [y |-> 0, x_pow |-> 1]
  /\ \A k \in 1 .. n : h[k] = EvalNext(h[k - 1], c[k], x)

LEMMA EvalStep ==
  ASSUME NEW n \in Nat, NEW c \in Vec(n), NEW x \in Int, NEW h, IsEval(h, n, c, x)
  PROVE  /\ \A k \in 0 .. n : h[k].y \in Int /\ h[k].x_pow \in Int
         /\ h[0].y = 0 /\ h[0].x_pow = 1
         /\ \A k \in 1 .. n :
              /\ c[k] \in Int
              /\ Cong(h[k].y, h[k - 1].y + c[k] * h[k - 1].x_pow, MODULUS_Q)
              /\ h[k].x_pow = (h[k - 1].x_pow * x) % MODULUS_Q
              /\ Cong(h[k].x_pow, h[k - 1].x_pow * x, MODULUS_Q)
<1>1. ASSUME NEW k \in 0 .. n PROVE h[k].y \in Int /\ h[k].x_pow \in Int
  <2>1. PICK e \in EvalState : e = h[k]
    BY DEF IsEval
  <2>2. e.y \in Int /\ e.x_pow \in Int
    BY FieldIsLarge DEF EvalState, Field
  <2> QED
    BY <2>1, <2>2
<1>2. ASSUME NEW k \in 1 .. n
      PROVE  /\ c[k] \in Int
             /\ Cong(h[k].y, h[k - 1].y + c[k] * h[k - 1].x_pow, MODULUS_Q)
             /\ h[k].x_pow = (h[k - 1].x_pow * x) % MODULUS_Q
             /\ Cong(h[k].x_pow, h[k - 1].x_pow * x, MODULUS_Q)
  <2>0. k \in 0 .. n /\ k - 1 \in 0 .. n
    OBVIOUS
  <2>1. PICK y \in Int, p \in Int, ck \in Int :
          y = h[k - 1].y /\ p = h[k - 1].x_pow /\ ck = c[k]
    BY <1>1, <2>0 DEF Vec
  <2>2. PICK u \in Int, v \in Int : u = y + ck * p /\ v = p * x
    OBVIOUS
  <2>3. h[k].y = u % MODULUS_Q /\ h[k].x_pow = v % MODULUS_Q
    <3>1. h[k] = EvalNext(h[k - 1], c[k], x)
      BY DEF IsEval
    <3> QED
      BY <2>1, <2>2, <3>1 DEF EvalNext
  <2>4. Cong(u % MODULUS_Q, u, MODULUS_Q) /\ Cong(v % MODULUS_Q, v, MODULUS_Q)
    BY FieldResidue
  <2> QED
    BY <2>1, <2>2, <2>3, <2>4
<1> QED
  BY <1>1, <1>2 DEF IsEval

LEMMA EvaluateIs ==
  ASSUME NEW n \in Nat, NEW c \in Vec(n), NEW x \in Int
  PROVE  Evaluate(c, x) \in Field /\ \E h : IsEval(h, n, c, x) /\ h[n].y = Evaluate(c, x)
<1>1. PICK h \in [0 .. n -> EvalState] :
        /\ h[0] = [y |-> 0, x_pow |-> 1] /\ h[n].y = Evaluate(c, x)
        /\ \A k \in 1 .. n : h[k] = EvalNext(h[k - 1], c[k], x)
  BY EvaluateRuns DEF Vec
<1>2. PICK e \in EvalState : e = h[n]
  OBVIOUS
<1>3. e.y \in Field
  BY DEF EvalState
<1> QED
  BY <1>1, <1>2, <1>3 DEF IsEval

(* The running power does not depend on the coefficients.                  *)
LEMMA SamePowers ==
  ASSUME NEW n \in Nat, NEW c \in Vec(n), NEW d \in Vec(n), NEW x \in Int,
         NEW h, IsEval(h, n, c, x), NEW g, IsEval(g, n, d, x)
  PROVE  \A k \in 0 .. n : h[k].x_pow = g[k].x_pow
<1> DEFINE T == [k \in 0 .. n |-> {e \in {h[k]} : e.x_pow = g[k].x_pow}]
<1>1. h[0].x_pow = 1 /\ g[0].x_pow = 1
  BY EvalStep
<1>2. ASSUME NEW k \in 1 .. n
      PROVE  /\ h[k].x_pow = (h[k - 1].x_pow * x) % MODULUS_Q
             /\ g[k].x_pow = (g[k - 1].x_pow * x) % MODULUS_Q
  BY EvalStep
<1>3. \A k \in 1 .. n : k \in 0 .. n /\ k - 1 \in 0 .. n
  OBVIOUS
<1>4. h[0] \in T[0]
  BY <1>1
<1>5. ASSUME NEW k \in 1 .. n, h[k - 1] \in T[k - 1] PROVE h[k] \in T[k]
  <2>1. h[k - 1].x_pow = g[k - 1].x_pow
    BY <1>3, <1>5
  <2>2. h[k].x_pow = g[k].x_pow
    BY <1>2, <2>1
  <2> QED
    BY <1>3, <2>2
<1>6. \A k \in 0 .. n : h[k] \in T[k]
  <2> HIDE DEF T
  <2> QED
    BY <1>4, <1>5, InOrder
<1> QED
  BY <1>6

LEMMA EvaluateCombines ==
  ASSUME NEW n \in Nat, NEW c \in Vec(n), NEW z \in Vec(n), NEW d \in Vec(n),
         NEW x \in Int, NEW delta \in Int,
         \A m \in 1 .. n : Cong(d[m], c[m] + delta * z[m], MODULUS_Q)
  PROVE  Cong(Evaluate(d, x), Evaluate(c, x) + delta * Evaluate(z, x), MODULUS_Q)
<1> DEFINE q == MODULUS_Q
<1>q. q \in Int
  BY FieldIsLarge
<1>1. PICK h : IsEval(h, n, c, x) /\ h[n].y = Evaluate(c, x)
  BY EvaluateIs
<1>2. PICK g : IsEval(g, n, z, x) /\ g[n].y = Evaluate(z, x)
  BY EvaluateIs
<1>3. PICK f : IsEval(f, n, d, x) /\ f[n].y = Evaluate(d, x)
  BY EvaluateIs
<1>a. ASSUME NEW k \in 1 .. n
      PROVE  /\ h[k].y \in Int /\ h[k - 1].y \in Int /\ h[k - 1].x_pow \in Int /\ c[k] \in Int
             /\ Cong(h[k].y, h[k - 1].y + c[k] * h[k - 1].x_pow, q)
  <2>1. k \in 0 .. n /\ k - 1 \in 0 .. n
    OBVIOUS
  <2> QED
    BY <1>1, <2>1, EvalStep
<1>b. ASSUME NEW k \in 1 .. n
      PROVE  /\ g[k].y \in Int /\ g[k - 1].y \in Int /\ z[k] \in Int
             /\ Cong(g[k].y, g[k - 1].y + z[k] * g[k - 1].x_pow, q)
  <2>1. k \in 0 .. n /\ k - 1 \in 0 .. n
    OBVIOUS
  <2> QED
    BY <1>2, <2>1, EvalStep
<1>c. ASSUME NEW k \in 1 .. n
      PROVE  /\ f[k].y \in Int /\ f[k - 1].y \in Int /\ d[k] \in Int
             /\ Cong(f[k].y, f[k - 1].y + d[k] * f[k - 1].x_pow, q)
  <2>1. k \in 0 .. n /\ k - 1 \in 0 .. n
    OBVIOUS
  <2> QED
    BY <1>3, <2>1, EvalStep
<1>p. ASSUME NEW k \in 0 .. n PROVE f[k].x_pow = h[k].x_pow /\ g[k].x_pow = h[k].x_pow
  BY <1>1, <1>2, <1>3, SamePowers
<1> DEFINE T == [k \in 0 .. n |-> {e \in {f[k]} : Cong(e.y, h[k].y + delta * g[k].y, q)}]
<1>4. \A k \in 1 .. n : k \in 0 .. n /\ k - 1 \in 0 .. n
  OBVIOUS
<1>5. f[0] \in T[0]
  <2>1. f[0].y = 0 /\ h[0].y = 0 /\ g[0].y = 0
    BY <1>1, <1>2, <1>3, EvalStep
  <2>2. PICK o \in Int : o = 0
    OBVIOUS
  <2>3. Cong(o, o, q) /\ o = o + delta * o
    BY <1>q, <2>2, CongEquivalence
  <2>4. 0 \in 0 .. n
    OBVIOUS
  <2> QED
    BY <2>1, <2>2, <2>3, <2>4
<1>6. ASSUME NEW k \in 1 .. n, f[k - 1] \in T[k - 1] PROVE f[k] \in T[k]
  <2>1. Cong(f[k - 1].y, h[k - 1].y + delta * g[k - 1].y, q)
    BY <1>4, <1>6
  <2> HIDE DEF q
  <2> HIDE DEF T
  <2>2. f[k - 1].x_pow = h[k - 1].x_pow /\ g[k - 1].x_pow = h[k - 1].x_pow
    BY <1>4, <1>p
  <2>3. PICK p \in Int, cy \in Int, cp \in Int, cm \in Int :
          p = h[k - 1].x_pow /\ cy = h[k].y /\ cp = h[k - 1].y /\ cm = c[k]
    BY <1>a
  <2>4. PICK zy \in Int, zp \in Int, zm \in Int :
          zy = g[k].y /\ zp = g[k - 1].y /\ zm = z[k]
    BY <1>b
  <2>5. PICK dy \in Int, dp \in Int, dm \in Int :
          dy = f[k].y /\ dp = f[k - 1].y /\ dm = d[k]
    BY <1>c
  <2>8. Cong(cy, cp + cm * p, q) /\ Cong(zy, zp + zm * p, q) /\ Cong(dy, dp + dm * p, q)
    BY <1>a, <1>b, <1>c, <2>2, <2>3, <2>4, <2>5
  <2>6. Cong(dm, cm + delta * zm, q) /\ Cong(dp, cp + delta * zp, q)
    BY <2>1, <2>3, <2>4, <2>5 DEF q
  <2>7. Cong(dy, cy + delta * zy, q)
    <3>1. /\ Line(dy, dp, dm, p, q) /\ Line(cy, cp, cm, p, q) /\ Line(zy, zp, zm, p, q)
          /\ Line(dm, cm, delta, zm, q) /\ Line(dp, cp, delta, zp, q)
      BY <2>6, <2>8 DEF Line
    <3>2. Line(dy, cy, delta, zy, q)
      BY <1>q, <3>1, CombineStep
    <3> QED
      BY <3>2 DEF Line
  <2> QED
    BY <1>4, <2>3, <2>4, <2>5, <2>7 DEF T
<1>7. \A k \in 0 .. n : f[k] \in T[k]
  <2> HIDE DEF T
  <2> QED
    BY <1>5, <1>6, InOrder
<1>8. n \in 0 .. n
  OBVIOUS
<1> QED
  BY <1>1, <1>2, <1>3, <1>7, <1>8
(* Coefficients moved up by one place are evaluated x times as large.      *)
LEMMA EvaluateShift ==
  ASSUME NEW n \in Nat \ {0}, NEW z \in Vec(n), NEW s \in Vec(n), NEW x \in Int,
         s[1] = 0, \A m \in 2 .. n : s[m] = z[m - 1], z[n] = 0
  PROVE  Cong(Evaluate(s, x), x * Evaluate(z, x), MODULUS_Q)
<1> DEFINE q == MODULUS_Q
<1>q. q \in Int
  BY FieldIsLarge
<1>1. PICK h : IsEval(h, n, z, x) /\ h[n].y = Evaluate(z, x)
  BY EvaluateIs
<1>2. PICK g : IsEval(g, n, s, x) /\ g[n].y = Evaluate(s, x)
  BY EvaluateIs
<1>a. ASSUME NEW k \in 1 .. n
      PROVE  /\ h[k].y \in Int /\ h[k - 1].y \in Int /\ h[k - 1].x_pow \in Int /\ h[k].x_pow \in Int
             /\ z[k] \in Int
             /\ Cong(h[k].y, h[k - 1].y + z[k] * h[k - 1].x_pow, q)
             /\ Cong(h[k].x_pow, h[k - 1].x_pow * x, q)
  <2>1. k \in 0 .. n /\ k - 1 \in 0 .. n
    OBVIOUS
  <2> QED
    BY <1>1, <2>1, EvalStep
<1>b. ASSUME NEW k \in 1 .. n
      PROVE  /\ g[k].y \in Int /\ g[k - 1].y \in Int /\ s[k] \in Int
             /\ Cong(g[k].y, g[k - 1].y + s[k] * g[k - 1].x_pow, q)
  <2>1. k \in 0 .. n /\ k - 1 \in 0 .. n
    OBVIOUS
  <2> QED
    BY <1>2, <2>1, EvalStep
<1>p. ASSUME NEW k \in 0 .. n PROVE g[k].x_pow = h[k].x_pow
  BY <1>1, <1>2, SamePowers
<1>4. \A k \in 1 .. n : k \in 0 .. n /\ k - 1 \in 0 .. n
  OBVIOUS
<1>z. h[0].y = 0 /\ g[0].y = 0
  BY <1>1, <1>2, EvalStep
<1> DEFINE T == [k \in 0 .. n |-> {e \in {g[k]} : k > 0 => Cong(e.y, x * h[k - 1].y, q)}]
<1>5. g[0] \in T[0]
  OBVIOUS
<1>6. ASSUME NEW k \in 1 .. n, g[k - 1] \in T[k - 1] PROVE g[k] \in T[k]
  <2>0. k > 1 => Cong(g[k - 1].y, x * h[k - 2].y, q)
    <3>1. k - 1 \in 0 .. n /\ (k > 1 => k - 1 > 0) /\ k - 1 - 1 = k - 2
      OBVIOUS
    <3> QED
      BY <1>6, <3>1
  <2> HIDE DEF T
  <2>1. PICK y \in Int, yp \in Int, sm \in Int, p \in Int, zk \in Int :
          y = g[k].y /\ yp = g[k - 1].y /\ sm = s[k] /\ p = h[k - 1].x_pow /\ zk = h[k - 1].y
    BY <1>a, <1>b
  <2>2. Cong(y, yp + sm * p, q)
    BY <1>4, <1>b, <1>p, <2>1
  <2>3. CASE k = 1
    <3>1. yp = 0 /\ sm = 0 /\ zk = 0
      BY <1>z, <2>1, <2>3
    <3>2. yp + sm * p = x * zk
      BY <3>1
    <3>3. Cong(y, x * zk, q)
      BY <2>2, <3>2
    <3> QED
      BY <1>4, <2>1, <3>3 DEF T
  <2>4. CASE k > 1
    <3>1. k - 1 \in 1 .. n /\ k \in 2 .. n /\ k - 1 - 1 = k - 2
      BY <2>4
    <3>2. PICK zp \in Int, pp \in Int, zm \in Int :
            zp = h[k - 2].y /\ pp = h[k - 2].x_pow /\ zm = z[k - 1]
      BY <1>a, <3>1
    <3>3. Cong(zk, zp + zm * pp, q) /\ Cong(p, pp * x, q)
      BY <1>a, <2>1, <3>1, <3>2
    <3>4. sm = zm
      BY <2>1, <3>1, <3>2
    <3>5. Cong(yp, x * zp, q)
      BY <2>0, <2>1, <2>4, <3>2
    <3>6. PICK xzp \in Int, xzk \in Int, t \in Int, u \in Int, ppx \in Int :
            /\ xzp = x * zp /\ xzk = x * zk /\ t = zm * p /\ ppx = pp * x
            /\ u = zm * ppx
      OBVIOUS
    <3>7. Cong(t, u, q)
      <4>1. p * zm = t /\ ppx * zm = u /\ Cong(p, ppx, q)
        BY <3>3, <3>6
      <4>2. Cong(p * zm, ppx * zm, q)
        BY <1>q, <4>1, CongScale
      <4> QED
        BY <4>1, <4>2
    <3>8. Cong(yp, xzp, q)
      BY <3>5, <3>6
    <3>9. Cong(yp + t, xzp + u, q)
      BY <1>q, <3>7, <3>8, CongSums
    <3>10. PICK v \in Int, w \in Int : v = yp + t /\ w = xzp + u
      OBVIOUS
    <3>11. Cong(y, v, q) /\ Cong(v, w, q)
      BY <2>2, <3>4, <3>6, <3>9, <3>10
    <3>12. Cong(y, w, q)
      BY <1>q, <3>11, CongEquivalence
    <3>13. PICK b \in Int, zmpp \in Int : zmpp = zm * pp /\ b = zp + zmpp
      OBVIOUS
    <3>14. Cong(zk, b, q)
      BY <3>3, <3>13
    <3>15. Cong(zk * x, b * x, q)
      BY <1>q, <3>14, CongScale
    <3>16. zk * x = xzk /\ b * x = w
      <4>1. u = zmpp * x
        BY <3>6, <3>13
      <4>2. b * x = zp * x + zmpp * x
        BY <3>13
      <4> QED
        BY <3>6, <3>10, <4>1, <4>2
    <3>17. Cong(xzk, w, q)
      BY <3>15, <3>16
    <3>18. Cong(w, xzk, q)
      BY <1>q, <3>17, CongEquivalence
    <3>19. Cong(y, xzk, q)
      BY <1>q, <3>12, <3>18, CongEquivalence
    <3> QED
      BY <1>4, <2>1, <3>6, <3>19 DEF T
  <2> QED
    BY <2>3, <2>4
<1>7. \A k \in 0 .. n : g[k] \in T[k]
  <2> HIDE DEF T
  <2> QED
    BY <1>5, <1>6, InOrder
<1>8. n \in 0 .. n /\ n \in 1 .. n /\ n > 0
  OBVIOUS
<1>9. Cong(g[n].y, x * h[n - 1].y, q)
  BY <1>7, <1>8
<1>10. PICK a \in Int, b \in Int, c \in Int, p \in Int, d \in Int, e \in Int :
         /\ a = g[n].y /\ b = h[n - 1].y /\ c = h[n].y /\ p = h[n - 1].x_pow
         /\ d = x * b /\ e = x * c
  <2>1. PICK a \in Int, b \in Int, c \in Int, p \in Int :
          a = g[n].y /\ b = h[n - 1].y /\ c = h[n].y /\ p = h[n - 1].x_pow
    BY <1>8, <1>a, <1>b
  <2>2. x * b \in Int /\ x * c \in Int
    OBVIOUS
  <2> QED
    BY <2>1, <2>2
<1>11. Cong(c, b, q)
  <2>1. Cong(c, b + z[n] * p, q) /\ z[n] = 0
    BY <1>8, <1>a, <1>10
  <2>2. b + 0 * p = b
    OBVIOUS
  <2> QED
    BY <2>1, <2>2
<1>12. Cong(c * x, b * x, q)
  BY <1>q, <1>11, CongScale
<1>13. Cong(e, d, q) /\ Cong(a, d, q)
  BY <1>9, <1>10, <1>12
<1>14. Cong(a, e, q)
  BY <1>q, <1>13, CongEquivalence
<1> QED
  BY <1>1, <1>2, <1>10, <1>14

(* Multiplication by 1 - r x.                                              *)
LEMMA EvaluateFactor ==
  ASSUME NEW n \in Nat \ {0}, NEW z \in Vec(n), NEW e \in Vec(n), NEW r \in Int,
         e[1] = z[1], \A m \in 2 .. n : e[m] = z[m] - r * z[m - 1], z[n] = 0,
         NEW x \in Int
  PROVE  Cong(Evaluate(e, x), (1 - r * x) * Evaluate(z, x), MODULUS_Q)
<1> DEFINE q == MODULUS_Q
           s == [m \in 1 .. n |-> IF m = 1 THEN 0 ELSE z[m - 1]]
<1>q. q \in Int
  BY FieldIsLarge
<1>1. s \in Vec(n)
  BY DEF Vec
<1>2. s[1] = 0 /\ \A m \in 2 .. n : s[m] = z[m - 1]
  OBVIOUS
<1> HIDE DEF s
<1>3. PICK delta \in Int : delta = - r
  OBVIOUS
<1>4. \A m \in 1 .. n : Cong(e[m], z[m] + delta * s[m], q)
  <2> SUFFICES ASSUME NEW m \in 1 .. n PROVE Cong(e[m], z[m] + delta * s[m], q)
    OBVIOUS
  <2>1. PICK a \in Int, b \in Int, c \in Int : a = e[m] /\ b = z[m] /\ c = s[m]
    BY <1>1 DEF Vec
  <2>2. a = b + delta * c
    <3>1. CASE m = 1
      <4>1. c = 0 /\ a = b
        BY <1>2, <2>1, <3>1
      <4>2. delta * c = 0
        BY <4>1
      <4> QED
        BY <4>1, <4>2
    <3>2. CASE m # 1
      <4>1. m \in 2 .. n
        BY <3>2
      <4>2. a = b - r * c
        BY <1>2, <2>1, <4>1
      <4>3. delta * c = - (r * c)
        BY <1>3
      <4> QED
        BY <4>2, <4>3
    <3> QED
      BY <3>1, <3>2
  <2>3. Cong(a, a, q)
    BY <1>q, CongEquivalence
  <2> QED
    BY <2>1, <2>2, <2>3
<1>5. Cong(Evaluate(e, x), Evaluate(z, x) + delta * Evaluate(s, x), q)
  BY <1>1, <1>4, EvaluateCombines
<1>6. Cong(Evaluate(s, x), x * Evaluate(z, x), q)
  BY <1>1, <1>2, EvaluateShift
<1>7. PICK a \in Int, b \in Int, c \in Int :
        a = Evaluate(e, x) /\ b = Evaluate(z, x) /\ c = Evaluate(s, x)
  <2>1. Evaluate(e, x) \in Field /\ Evaluate(z, x) \in Field /\ Evaluate(s, x) \in Field
    BY <1>1, EvaluateIs
  <2>2. \A a \in Field : a \in Int
    BY FieldIsLarge DEF Field
  <2> QED
    BY <2>1, <2>2
<1> HIDE DEF q
<1>8. PICK xb \in Int, dc \in Int, dxb \in Int, u \in Int, v \in Int :
        xb = x * b /\ dc = delta * c /\ dxb = delta * xb /\ u = b + dc /\ v = b + dxb
  OBVIOUS
<1>9. Cong(c, xb, q) /\ Cong(a, u, q)
  BY <1>5, <1>6, <1>7, <1>8
<1>10. Cong(c * delta, xb * delta, q)
  BY <1>q, <1>9, CongScale
<1>11. c * delta = dc /\ xb * delta = dxb
  BY <1>8
<1>12. Cong(dc, dxb, q) /\ Cong(b, b, q)
  BY <1>q, <1>10, <1>11, CongEquivalence
<1>13. Cong(b + dc, b + dxb, q)
  BY <1>q, <1>12, CongSums
<1>14. Cong(u, v, q)
  BY <1>8, <1>13
<1>15. Cong(a, v, q)
  BY <1>q, <1>9, <1>14, CongEquivalence
<1>16. v = (1 - r * x) * b
  <2>1. (1 - r * x) * b = b - (r * x) * b
    OBVIOUS
  <2>2. dxb = - ((r * x) * b)
    BY <1>3, <1>8
  <2> QED
    BY <1>8, <2>1, <2>2
<1> QED
  BY <1>7, <1>15, <1>16 DEF q
(* A polynomial with value one at zero that vanishes at fewer points than  *)
(* it has coefficients, none of them zero.                                 *)
LEMMA Vanishing ==
  ASSUME Prime(MODULUS_Q), NEW K \in Nat \ {0}, NEW X \in SUBSET Int, IsFiniteSet(X),
         Cardinality(X) < K, \A x \in X : ~ Cong(x, 0, MODULUS_Q)
  PROVE  \E z \in Vec(K) : z[1] = 1 /\ \A x \in X : Cong(Evaluate(z, x), 0, MODULUS_Q)
<1> DEFINE q == MODULUS_Q
           Kills(z, S) == /\ z \in Vec(K) /\ z[1] = 1
                          /\ \A m \in 1 .. K : m > Cardinality(S) + 1 => z[m] = 0
                          /\ \A x \in S : Cong(Evaluate(z, x), 0, q)
           G == {S \in SUBSET X : \E z : Kills(z, S)}
<1>q. q \in Int
  BY FieldIsLarge
<1>1. ASSUME NEW S \in SUBSET X, \A a \in S : S \ {a} \in G PROVE S \in G
  <2>1. CASE S = {}
    <3> DEFINE z == [m \in 1 .. K |-> IF m = 1 THEN 1 ELSE 0]
    <3>1. z \in Vec(K) /\ z[1] = 1 /\ \A m \in 1 .. K : m > 1 => z[m] = 0
      BY DEF Vec
    <3>2. Cardinality(S) + 1 = 1
      BY <2>1, FS_EmptySet
    <3> HIDE DEF z
    <3>3. Kills(z, S)
      BY <2>1, <3>1, <3>2
    <3> QED
      BY <3>3
  <2>2. ASSUME NEW a \in S PROVE S \in G
    <3>1. PICK z : Kills(z, S \ {a})
      BY <1>1
    <3>2. /\ Cardinality(S) \in Nat /\ Cardinality(S \ {a}) \in Nat /\ Cardinality(X) \in Nat
          /\ Cardinality(S \ {a}) = Cardinality(S) - 1 /\ Cardinality(S) <= Cardinality(X)
      BY OneLess, FS_Subset, FS_CardinalityType
    <3>3. a \in Int /\ ~ Cong(a, 0, q)
      OBVIOUS
    <3>4. PICK r \in Int : Cong(r * a, 1, q)
      BY <3>3, PrimeInverse
    <3> DEFINE e == [m \in 1 .. K |-> IF m = 1 THEN z[1] ELSE z[m] - r * z[m - 1]]
    <3>5. z \in Vec(K) /\ z[1] = 1 /\ \A m \in 1 .. K : z[m] \in Int
      BY <3>1 DEF Vec
    <3>6. e \in Vec(K)
      <4> SUFFICES ASSUME NEW m \in 1 .. K PROVE e[m] \in Int
        BY DEF Vec
      <4>1. CASE m = 1
        BY <3>5, <4>1
      <4>2. CASE m # 1
        <5>1. m - 1 \in 1 .. K
          BY <4>2
        <5>2. PICK u \in Int, v \in Int : u = z[m] /\ v = z[m - 1]
          BY <3>5, <5>1
        <5>3. u - r * v \in Int
          OBVIOUS
        <5> QED
          BY <4>2, <5>2, <5>3
      <4> QED
        BY <4>1, <4>2
    <3>7. e[1] = z[1] /\ \A m \in 2 .. K : e[m] = z[m] - r * z[m - 1]
      OBVIOUS
    <3>8. z[K] = 0
      <4>1. K \in 1 .. K /\ K > Cardinality(S \ {a}) + 1
        BY <3>2
      <4> QED
        BY <3>1, <4>1
    <3> HIDE DEF e
    <3>9. \A x \in Int : Cong(Evaluate(e, x), (1 - r * x) * Evaluate(z, x), q)
      BY <3>5, <3>6, <3>7, <3>8, EvaluateFactor
    <3>10. ASSUME NEW x \in S PROVE Cong(Evaluate(e, x), 0, q)
      <4>1. x \in Int /\ Evaluate(e, x) \in Int /\ Evaluate(z, x) \in Int
        <5>1. Evaluate(e, x) \in Field /\ Evaluate(z, x) \in Field
          BY <3>5, <3>6, EvaluateIs
        <5>2. \A b \in Field : b \in Int
          BY FieldIsLarge DEF Field
        <5> QED
          BY <5>1, <5>2
      <4>2. PICK b \in Int, c \in Int, f \in Int, o \in Int, fc \in Int :
              /\ b = Evaluate(e, x) /\ c = Evaluate(z, x) /\ f = 1 - r * x /\ o = 0 /\ fc = f * c
        BY <4>1
      <4>3. Cong(b, fc, q)
        BY <3>9, <4>1, <4>2
      <4>4. Cong(f, o, q) \/ Cong(c, o, q)
        <5>1. CASE x = a
          <6>1. PICK k \in Int : r * a = 1 + k * q
            BY <3>4 DEF Cong
          <6>2. PICK j \in Int : j = - k
            OBVIOUS
          <6>3. j * q = - (k * q)
            BY <1>q, <6>2
          <6>4. f = o + j * q
            BY <1>q, <4>2, <5>1, <6>1, <6>3
          <6> QED
            BY <6>4 DEF Cong
        <5>2. CASE x # a
          BY <3>1, <4>2, <5>2
        <5> QED
          BY <5>1, <5>2
      <4>5. Cong(fc, o, q)
        <5>1. Cong(f, o, q) => Cong(f * c, o * c, q)
          BY <1>q, CongScale
        <5>2. Cong(c, o, q) => Cong(c * f, o * f, q)
          BY <1>q, CongScale
        <5>3. f * c = fc /\ c * f = fc /\ o * c = o /\ o * f = o
          BY <4>2
        <5> QED
          BY <4>4, <5>1, <5>2, <5>3
      <4>6. Cong(b, o, q)
        BY <1>q, <4>3, <4>5, CongEquivalence
      <4> QED
        BY <4>2, <4>6
    <3>11. ASSUME NEW m \in 1 .. K, m > Cardinality(S) + 1 PROVE e[m] = 0
      <4>1. m \in 2 .. K /\ m - 1 \in 1 .. K /\ m > Cardinality(S \ {a}) + 1
            /\ m - 1 > Cardinality(S \ {a}) + 1
        BY <3>2, <3>11
      <4>2. z[m] = 0 /\ z[m - 1] = 0
        BY <3>1, <4>1
      <4>3. e[m] = 0 - r * 0
        BY <3>7, <4>1, <4>2
      <4> QED
        BY <4>3
    <3>12. Kills(e, S)
      BY <3>5, <3>6, <3>7, <3>10, <3>11
    <3> QED
      BY <3>12
  <2> QED
    BY <2>1, <2>2
<1>2. X \in G
  <2> HIDE DEF G
  <2>1. X \in SUBSET X
    OBVIOUS
  <2>2. \A S \in SUBSET X : S \in G
    BY <1>1, SubsetInduction
  <2> QED
    BY <2>1, <2>2
<1> QED
  BY <1>2

(* Fewer points than coefficients say nothing about the value at zero:     *)
(* whatever they are, every value at zero belongs to some polynomial       *)
(* through the same points.                                                *)
THEOREM FewEvaluationsHide ==
  ASSUME NEW K \in Nat \ {0}, NEW c \in Vec(K),
         NEW X \in SUBSET Int, IsFiniteSet(X), Cardinality(X) < K,
         \A x \in X : ~ Cong(x, 0, MODULUS_Q), NEW secret \in Field
  PROVE  \E d \in [1 .. K -> Field] :
           d[1] = secret /\ \A x \in X : Evaluate(d, x) = Evaluate(c, x)
<1> DEFINE q == MODULUS_Q
<1>q. q \in Nat /\ q > 0 /\ q \in Int
  BY FieldIsLarge
<1>1. PICK z \in Vec(K) : z[1] = 1 /\ \A x \in X : Cong(Evaluate(z, x), 0, q)
  BY Vanishing, FieldIsPrime
<1>2. \A m \in 1 .. K : z[m] \in Int /\ c[m] \in Int
  BY DEF Vec
<1>3. 1 \in 1 .. K /\ secret \in Int
  BY FieldIsLarge DEF Field
<1>4. PICK delta \in Int : delta = secret - c[1]
  BY <1>2, <1>3
<1> DEFINE d == [m \in 1 .. K |-> (c[m] + delta * z[m]) % q]
<1>5. ASSUME NEW m \in 1 .. K
      PROVE  d[m] \in Field /\ d[m] \in Int /\ Cong(d[m], c[m] + delta * z[m], q)
  <2>1. PICK a \in Int, b \in Int : a = c[m] /\ b = z[m]
    BY <1>2
  <2>2. PICK u \in Int : u = a + delta * b
    OBVIOUS
  <2>3. d[m] = u % q
    BY <2>1, <2>2
  <2>4. u % q \in Field /\ Cong(u % q, u, q)
    BY FieldResidue
  <2>5. \A f \in Field : f \in Int
    BY FieldIsLarge DEF Field
  <2> QED
    BY <2>1, <2>2, <2>3, <2>4, <2>5
<1>6. d \in [1 .. K -> Field]
  BY <1>5
<1>7. d \in Vec(K)
  BY <1>5 DEF Vec
<1>8. d[1] = secret
  <2>1. PICK a \in Int, e \in Int : a = c[1] /\ e = d[1]
    BY <1>2, <1>3, <1>5
  <2>2. a + delta * 1 = secret
    BY <1>3, <1>4, <2>1
  <2>3. Cong(e, secret, q)
    BY <1>1, <1>3, <1>5, <2>1, <2>2
  <2>4. e \in 0 .. q - 1 /\ secret \in 0 .. q - 1
    BY <1>3, <1>5, <2>1 DEF Field
  <2> HIDE DEF q, d
  <2>5. e = secret
    BY <1>q, <2>3, <2>4, CongUnique
  <2> QED
    BY <2>1, <2>5
<1> HIDE DEF d, q
<1>9. ASSUME NEW x \in X PROVE Evaluate(d, x) = Evaluate(c, x)
  <2>1. Evaluate(d, x) \in Field /\ Evaluate(c, x) \in Field /\ Evaluate(z, x) \in Field
    BY <1>7, EvaluateIs
  <2>2. \A f \in Field : f \in 0 .. q - 1 /\ f \in Int
    BY FieldIsLarge DEF Field, q
  <2>3. PICK a \in Int, b \in Int, e \in Int, o \in Int, f \in Int :
          /\ a = Evaluate(d, x) /\ b = Evaluate(c, x) /\ e = Evaluate(z, x) /\ o = 0
          /\ f = delta * e
    BY <2>1, <2>2
  <2>4. Cong(a, b + f, q)
    <3>1. Cong(Evaluate(d, x), Evaluate(c, x) + delta * Evaluate(z, x), q)
      BY <1>5, <1>7, EvaluateCombines DEF q
    <3> QED
      BY <2>3, <3>1
  <2>5. Cong(e, o, q)
    BY <1>1, <2>3
  <2>6. Cong(e * delta, o * delta, q)
    BY <1>q, <2>5, CongScale
  <2>7. e * delta = f /\ o * delta = o
    BY <2>3
  <2>8. Cong(f, o, q) /\ Cong(b, b, q)
    BY <1>q, <2>6, <2>7, CongEquivalence
  <2>9. Cong(b + f, b + o, q)
    BY <1>q, <2>8, CongSums
  <2>10. PICK s \in Int : s = b + f
    OBVIOUS
  <2>11. Cong(a, s, q) /\ Cong(s, b, q)
    <3>1. b + o = b
      BY <2>3
    <3> QED
      BY <2>4, <2>9, <2>10, <3>1
  <2>12. Cong(a, b, q)
    BY <1>q, <2>11, CongEquivalence
  <2>13. a \in 0 .. q - 1 /\ b \in 0 .. q - 1
    BY <2>1, <2>2, <2>3
  <2> QED
    BY <1>q, <2>3, <2>12, <2>13, CongUnique
<1> QED
  BY <1>6, <1>8, <1>9
-----------------------------------------------------------------------------
(* The field's promise for the polynomial that is shared (module Sharing). *)
LEMMA Appended ==
  ASSUME NEW S, NEW s \in Seq(S), NEW t \in Seq(S)
  PROVE  /\ s \o t \in Seq(S) /\ Len(s \o t) = Len(s) + Len(t)
         /\ \A i \in 1 .. Len(s) : (s \o t)[i] = s[i]
         /\ \A i \in 1 .. Len(t) : (s \o t)[Len(s) + i] = t[i]
  OBVIOUS

LEMMA SharedCoefficients ==
  ASSUME NEW f \in [1 .. THRESHOLD_K -> Field]
  PROVE  <<(f[1] + f[THRESHOLD_K] * MODULUS_Q) % MODULUS_Q>>
           \o [i \in DOMAIN Tail(f) |-> Tail(f)[i] % MODULUS_Q] = f
<1> DEFINE K == THRESHOLD_K
           q == MODULUS_Q
           t == [i \in DOMAIN Tail(f) |-> Tail(f)[i] % q]
<1>1. K \in Nat \ {0} /\ 1 \in 1 .. K /\ K \in 1 .. K
  BY FieldAssumption
<1>2. \A a \in Field : a \in Int /\ a % q = a
  <2> SUFFICES ASSUME NEW a \in Field PROVE a \in Int /\ a % q = a
    OBVIOUS
  <2>1. q \in Nat /\ q > 0 /\ a \in 0 .. q - 1
    BY FieldIsLarge DEF Field
  <2> HIDE DEF q
  <2>2. a % q = a
    BY <2>1
  <2> QED
    BY <2>1, <2>2
<1>3. \A m \in 1 .. K : f[m] \in Field /\ f[m] \in Int
  BY <1>2
<1>4. (f[1] + f[K] * q) % q = f[1]
  <2>1. PICK a \in Int, b \in Int, q1 \in Nat : a = f[1] /\ b = f[K] /\ q1 = q
    BY <1>1, <1>3, FieldIsLarge
  <2>2. q1 > 0 /\ a \in 0 .. q1 - 1
    BY <1>1, <1>3, <2>1, FieldIsLarge DEF Field
  <2>3. PICK s \in Int, e \in Int : s = a + b * q1 /\ e = s % q1
    <3>1. PICK s \in Int : s = a + b * q1
      OBVIOUS
    <3>2. s % q1 \in Int
      BY <2>2
    <3> QED
      BY <3>1, <3>2
  <2>4. Cong(s, a, q1)
    BY <2>3 DEF Cong
  <2>5. Cong(e, s, q1) /\ e \in 0 .. q1 - 1
    BY <2>2, <2>3, CongResidue
  <2>6. Cong(e, a, q1)
    BY <2>4, <2>5, CongEquivalence
  <2>7. e = a
    BY <2>2, <2>5, <2>6, CongUnique
  <2> QED
    BY <2>1, <2>3, <2>7
<1>5. f \in Seq(Field) /\ Len(f) = K
  BY <1>1
<1>6. f # <<>>
  BY <1>1, <1>5
<1>7. Tail(f) \in Seq(Field) /\ Len(Tail(f)) = K - 1 /\ DOMAIN Tail(f) = 1 .. K - 1
  BY <1>1, <1>5, <1>6
<1>8. \A i \in 1 .. K - 1 : Tail(f)[i] = f[i + 1] /\ i + 1 \in 1 .. K
  BY <1>1, <1>5, <1>6
<1>9. t \in Seq(Field) /\ Len(t) = K - 1 /\ \A i \in 1 .. K - 1 : t[i] = f[i + 1]
  <2>1. \A i \in 1 .. K - 1 : Tail(f)[i] % q = f[i + 1] /\ f[i + 1] \in Field
    BY <1>2, <1>3, <1>8
  <2>2. PICK k \in Nat : k = K - 1
    BY <1>1
  <2>3. t = [i \in 1 .. k |-> Tail(f)[i] % q]
    BY <1>7, <2>2
  <2>4. t \in [1 .. k -> Field] /\ \A i \in 1 .. k : t[i] = f[i + 1]
    BY <2>1, <2>2, <2>3
  <2> HIDE DEF t
  <2>5. t \in Seq(Field) /\ Len(t) = k
    BY <2>4
  <2> QED
    BY <2>2, <2>4, <2>5
<1> HIDE DEF t
<1> DEFINE s == <<f[1]>>
           u == s \o t
<1>10. s \in Seq(Field) /\ Len(s) = 1 /\ s[1] = f[1]
  BY <1>1, <1>3
<1> HIDE DEF s
<1>11. u \in Seq(Field) /\ Len(u) = K /\ u[1] = f[1] /\ \A i \in 1 .. K - 1 : u[i + 1] = t[i]
  <2>1. PICK k \in Nat : k = K - 1 /\ Len(t) = k
    BY <1>1, <1>9
  <2>2. /\ u \in Seq(Field) /\ Len(u) = Len(s) + Len(t)
        /\ \A i \in 1 .. Len(s) : u[i] = s[i]
        /\ \A i \in 1 .. Len(t) : u[Len(s) + i] = t[i]
    <3>1. s \in Seq(Field) /\ t \in Seq(Field)
      BY <1>9, <1>10
    <3>2. /\ s \o t \in Seq(Field) /\ Len(s \o t) = Len(s) + Len(t)
          /\ \A i \in 1 .. Len(s) : (s \o t)[i] = s[i]
          /\ \A i \in 1 .. Len(t) : (s \o t)[Len(s) + i] = t[i]
      BY <3>1, Appended
    <3> QED
      BY <3>2
  <2> HIDE DEF u
  <2>3. u[1] = s[1] /\ Len(u) = 1 + k
    BY <1>10, <2>1, <2>2
  <2>4. ASSUME NEW i \in 1 .. k PROVE u[i + 1] = t[i]
    <3>1. u[1 + i] = t[i] /\ 1 + i = i + 1
      BY <1>10, <2>1, <2>2
    <3> QED
      BY <3>1
  <2> QED
    BY <1>1, <1>10, <2>1, <2>2, <2>3, <2>4
<1>12. u = f
  <2>1. \A m \in 1 .. K : u[m] = f[m]
    <3> SUFFICES ASSUME NEW m \in 1 .. K PROVE u[m] = f[m]
      OBVIOUS
    <3>1. CASE m = 1
      BY <1>11, <3>1
    <3>2. CASE m # 1
      <4>1. PICK i \in 1 .. K - 1 : m = i + 1
        <5>1. m - 1 \in 1 .. K - 1 /\ m = (m - 1) + 1
          BY <1>1, <3>2
        <5> QED
          BY <5>1
      <4> QED
        BY <1>9, <1>11, <4>1
    <3> QED
      BY <3>1, <3>2
  <2> HIDE DEF u
  <2>2. DOMAIN u = 1 .. K /\ DOMAIN f = 1 .. K
    BY <1>11
  <2>3. u = [m \in 1 .. K |-> u[m]] /\ f = [m \in 1 .. K |-> f[m]]
    BY <1>11, <2>2
  <2> QED
    BY <2>1, <2>3
<1> QED
  BY <1>4, <1>12 DEF s, t

LEMMA PointsAre ==
  ASSUME NEW f \in [1 .. THRESHOLD_K -> Field], NEW n \in Nat, NEW xs \in [1 .. n -> Indices]
  PROVE  /\ Len(xs) = n /\ Len(Points(f, xs)) = n
         /\ Points(f, xs) \in [1 .. n -> Int \X Int]
         /\ \A i \in 1 .. n : Points(f, xs)[i][1] = xs[i] /\ Points(f, xs)[i][2] = Evaluate(f, xs[i])
<1> DEFINE shares == [x \in 1 .. TOTAL_SHARES |-> <<x, Evaluate(f, x)>>]
<1>1. Points(f, xs) = [i \in 1 .. n |-> shares[xs[i]]]
  <2>1. split_secret(f[1] + f[THRESHOLD_K] * MODULUS_Q, Tail(f), TOTAL_SHARES) = shares
    BY SharedCoefficients DEF split_secret
  <2>2. DOMAIN xs = 1 .. n
    OBVIOUS
  <2> HIDE DEF shares
  <2> QED
    BY <2>1, <2>2 DEF Points
<1>2. ASSUME NEW i \in 1 .. n
      PROVE  /\ shares[xs[i]] = <<xs[i], Evaluate(f, xs[i])>>
             /\ xs[i] \in Int /\ Evaluate(f, xs[i]) \in Int
  <2>1. xs[i] \in 1 .. TOTAL_SHARES
    BY DEF Indices
  <2>2. PICK x \in Int : x = xs[i]
    BY <2>1
  <2>3. f \in Vec(THRESHOLD_K) /\ THRESHOLD_K \in Nat
    BY FieldIsLarge, FieldAssumption DEF Vec, Field
  <2>4. Evaluate(f, x) \in Field
    BY <2>3, EvaluateIs
  <2>5. Evaluate(f, x) \in Int
    BY <2>4, FieldIsLarge DEF Field
  <2> QED
    BY <2>1, <2>2, <2>5
<1> HIDE DEF shares
<1>3. Points(f, xs) \in [1 .. n -> Int \X Int]
  <2>1. ASSUME NEW i \in 1 .. n PROVE shares[xs[i]] \in Int \X Int
    <3>1. PICK x \in Int, e \in Int : x = xs[i] /\ e = Evaluate(f, xs[i])
      BY <1>2
    <3>2. <<x, e>> \in Int \X Int
      OBVIOUS
    <3> QED
      BY <1>2, <3>1, <3>2
  <2> QED
    BY <1>1, <2>1
<1>4. \A i \in 1 .. n : Points(f, xs)[i] = <<xs[i], Evaluate(f, xs[i])>>
  BY <1>1, <1>2
<1>5. Len(xs) = n
  OBVIOUS
<1>6. Len(Points(f, xs)) = n
  BY <1>3
<1> QED
  BY <1>3, <1>4, <1>5, <1>6

(* Distinct indices are distinct in the field.                             *)
LEMMA IndicesApart ==
  ASSUME NEW x \in Indices, NEW y \in Indices \cup {0}, Cong(x, y, MODULUS_Q)
  PROVE  x = y
<1>1. MODULUS_Q \in Nat /\ MODULUS_Q > 0
  BY FieldIsLarge
<1>2. x \in 0 .. MODULUS_Q - 1 /\ y \in 0 .. MODULUS_Q - 1
  BY FieldAssumption DEF Indices
<1> QED
  BY <1>1, <1>2, CongUnique

LEMMA ListLength ==
  ASSUME NEW xs \in Lists
  PROVE  \E n \in Nat : xs \in [1 .. n -> Indices]
  BY FieldAssumption DEF Lists

(* The three properties are of the polynomial alone, which does not move.  *)
SharingSpec == SharingInput /\ [][UNCHANGED input]_input

LEMMA InputStays == SharingSpec => []SharingInput
<1>1. SharingInput /\ [UNCHANGED input]_input => SharingInput'
  BY DEF SharingInput
<1> QED
  BY <1>1, PTL DEF SharingSpec

LEMMA SharedInput ==
  ASSUME SharingInput
  PROVE  input.f \in [1 .. THRESHOLD_K -> Field]
  BY DEF SharingInput

(* In every prime field, for every threshold and polynomial: distinct      *)
(* shares in any order give the secret once they reach the threshold.      *)
THEOREM Reconstruction == SharingSpec => []DistinctPointsReconstruct
<1>1. SharingInput => DistinctPointsReconstruct
  <2> SUFFICES ASSUME SharingInput, NEW xs \in Lists, IsInjectiveList(xs)
               PROVE  reconstruct_secret_checked(Points(input.f, xs))
                        = IF Len(xs) < THRESHOLD_K THEN ThresholdNotMet ELSE input.f[1]
    BY DEF DistinctPointsReconstruct
  <2>1. PICK f \in [1 .. THRESHOLD_K -> Field] : f = input.f
    BY SharedInput
  <2>2. PICK n \in Nat : xs \in [1 .. n -> Indices]
    BY ListLength
  <2>3. PICK points \in [1 .. n -> Int \X Int] : points = Points(f, xs)
    <3>1. Points(f, xs) \in [1 .. n -> Int \X Int]
      BY <2>2, PointsAre
    <3> QED
      BY <3>1
  <2>4. /\ Len(xs) = n /\ Len(points) = n
        /\ \A i \in 1 .. n : points[i][1] = xs[i] /\ points[i][2] = Evaluate(f, xs[i])
    <3>1. Len(xs) = n /\ Len(points) = n
      BY <2>2, <2>3
    <3>2. \A i \in 1 .. n : Points(f, xs)[i][1] = xs[i] /\ Points(f, xs)[i][2] = Evaluate(f, xs[i])
      BY <2>2, PointsAre
    <3> QED
      BY <2>3, <3>1, <3>2
  <2>5. THRESHOLD_K \in Nat \ {0}
    BY FieldAssumption
  <2>6. CASE n < THRESHOLD_K
    BY <2>1, <2>3, <2>4, <2>6 DEF reconstruct_secret_checked
  <2>7. CASE n >= THRESHOLD_K
    <3>1. \A i, j \in 1 .. n : i # j => ~ Cong(points[i][1], points[j][1], MODULUS_Q)
      <4> SUFFICES ASSUME NEW i \in 1 .. n, NEW j \in 1 .. n, i # j,
                          Cong(points[i][1], points[j][1], MODULUS_Q)
                   PROVE  FALSE
        OBVIOUS
      <4>1. xs[i] \in Indices /\ xs[j] \in Indices /\ Cong(xs[i], xs[j], MODULUS_Q)
        BY <2>2, <2>4
      <4>2. xs[i] = xs[j]
        BY <4>1, IndicesApart
      <4> QED
        BY <2>2, <4>2 DEF IsInjectiveList
    <3>2. f \in [1 .. THRESHOLD_K -> Int] /\ f[1] \in Field
      BY <2>5, FieldIsLarge DEF Field
    <3>3. \A i \in 1 .. n : points[i][2] = Evaluate(f, points[i][1])
      BY <2>4
    <3>4. reconstruct_secret(points) = f[1] % MODULUS_Q
      BY <2>5, <2>7, <3>1, <3>2, <3>3, InterpolationExact
    <3>5. f[1] % MODULUS_Q = f[1]
      <4>1. \A a, q \in Nat : a < q => a % q = a
        OBVIOUS
      <4>2. f[1] \in Nat /\ MODULUS_Q \in Nat /\ f[1] < MODULUS_Q
        BY <3>2, FieldIsLarge DEF Field
      <4> QED
        BY <4>1, <4>2
    <3>6. ~ (n < THRESHOLD_K)
      BY <2>5, <2>7
    <3>7. reconstruct_secret_checked(points) = reconstruct_secret(points)
      BY <2>4, <3>6 DEF reconstruct_secret_checked
    <3> QED
      BY <2>1, <2>3, <2>4, <3>4, <3>5, <3>6, <3>7
  <2> QED
    BY <2>5, <2>6, <2>7
<1> QED
  BY <1>1, InputStays, PTL

(* In every field, prime or not: a list that names a share twice is not    *)
(* interpolated to a number.                                               *)
THEOREM RepetitionRefused == SharingSpec => []RepeatedPointRefused
<1>1. SharingInput => RepeatedPointRefused
  <2> SUFFICES ASSUME SharingInput, NEW xs \in Lists, ~ IsInjectiveList(xs)
               PROVE  reconstruct_secret(Points(input.f, xs)) = NoInverse
    BY DEF RepeatedPointRefused
  <2>1. PICK f \in [1 .. THRESHOLD_K -> Field] : f = input.f
    BY SharedInput
  <2>2. PICK n \in Nat : xs \in [1 .. n -> Indices]
    BY ListLength
  <2>3. PICK points \in [1 .. n -> Int \X Int] : points = Points(f, xs)
    <3>1. Points(f, xs) \in [1 .. n -> Int \X Int]
      BY <2>2, PointsAre
    <3> QED
      BY <3>1
  <2>4. \A i \in 1 .. n : points[i][1] = xs[i]
    BY <2>2, <2>3, PointsAre
  <2>5. PICK i \in 1 .. n, j \in 1 .. n : i # j /\ xs[i] = xs[j]
    BY <2>2 DEF IsInjectiveList
  <2>6. points[i][1] = points[j][1] /\ points[i][1] \in Int /\ MODULUS_Q \in Int
    BY <2>2, <2>3, <2>4, <2>5, FieldIsLarge
  <2>7. Cong(points[i][1], points[j][1], MODULUS_Q)
    BY <2>6, CongEquivalence
  <2> QED
    BY <2>1, <2>3, <2>5, <2>7, RepeatedPoint
<1> QED
  BY <1>1, InputStays, PTL

(* In every prime field: shares below the threshold are as they would be   *)
(* for any other secret.                                                   *)
THEOREM Hiding == SharingSpec => []FewPointsHide
<1>1. SharingInput => FewPointsHide
  <2> SUFFICES ASSUME SharingInput, NEW X \in SUBSET Indices, Cardinality(X) < THRESHOLD_K,
                      NEW secret \in Field
               PROVE  \E d \in [1 .. THRESHOLD_K -> Field] :
                        d[1] = secret /\ \A x \in X : Evaluate(d, x) = Evaluate(input.f, x)
    BY DEF FewPointsHide
  <2>1. PICK f \in [1 .. THRESHOLD_K -> Field] : f = input.f
    BY SharedInput
  <2>2. THRESHOLD_K \in Nat \ {0} /\ f \in Vec(THRESHOLD_K)
    BY FieldAssumption, FieldIsLarge DEF Vec, Field
  <2>3. X \in SUBSET Int /\ IsFiniteSet(X)
    <3>1. IsFiniteSet(Indices)
      BY FS_Interval, FieldAssumption DEF Indices
    <3>2. IsFiniteSet(X)
      BY <3>1, FS_Subset
    <3> QED
      BY <3>2, FieldAssumption DEF Indices
  <2>4. ASSUME NEW x \in X PROVE ~ Cong(x, 0, MODULUS_Q)
    <3>1. x \in Indices /\ x # 0 /\ 0 \in Indices \cup {0}
      BY FieldAssumption DEF Indices
    <3> QED
      BY <3>1, IndicesApart
  <2>5. \E d \in [1 .. THRESHOLD_K -> Field] :
          d[1] = secret /\ \A x \in X : Evaluate(d, x) = Evaluate(f, x)
    BY <2>2, <2>3, <2>4, FewEvaluationsHide
  <2> QED
    BY <2>1, <2>5
<1> QED
  BY <1>1, InputStays, PTL
-----------------------------------------------------------------------------
(* Trees of shares: both hashes are taken to be injective.                 *)
LEMMA NodeInjective ==
  ASSUME NEW a, NEW b, NEW c, NEW d, merkle_node_hash(a, b) = merkle_node_hash(c, d)
  PROVE  a = c /\ b = d
<1>1. <<"node", a, b>>[2] = <<"node", c, d>>[2] /\ <<"node", a, b>>[3] = <<"node", c, d>>[3]
  BY DEF merkle_node_hash
<1> QED
  BY <1>1

LEMMA LeafInjective ==
  ASSUME NEW i, NEW j, NEW v, NEW w, merkle_leaf_hash(i, v) = merkle_leaf_hash(j, w)
  PROVE  i = j /\ v = w
<1>1. <<"leaf", i, v>>[2] = <<"leaf", j, w>>[2] /\ <<"leaf", i, v>>[3] = <<"leaf", j, w>>[3]
  BY DEF merkle_leaf_hash
<1> QED
  BY <1>1

(* A path folds to the root of a tree only from the leaf of its index.     *)
LEMMA ShareInTree ==
  ASSUME NEW index, NEW value, NEW path, NEW leaves,
         verify_share_in_tree(index, value, path, Root(leaves))
  PROVE  index \in 1 .. 5 /\ merkle_leaf_hash(index, value) = leaves[index]
<1>1. index \in 1 .. 5
  BY DEF verify_share_in_tree, merkle_proof_len
<1>2. PICK leaf : leaf = merkle_leaf_hash(index, value)
  OBVIOUS
<1>3. FoldPath(index, leaf, path) = Root(leaves)
  BY <1>2 DEF verify_share_in_tree
<1>4. ASSUME index = 1 PROVE leaf = leaves[index]
  <2>1. merkle_node_hash(merkle_node_hash(merkle_node_hash(leaf, path[1]), path[2]), path[3])
          = Root(leaves)
    BY <1>3, <1>4 DEF FoldPath
  <2> QED
    BY <1>4, <2>1, NodeInjective DEF Root
<1>5. ASSUME index = 2 PROVE leaf = leaves[index]
  <2>1. merkle_node_hash(merkle_node_hash(merkle_node_hash(path[1], leaf), path[2]), path[3])
          = Root(leaves)
    BY <1>3, <1>5 DEF FoldPath
  <2> QED
    BY <1>5, <2>1, NodeInjective DEF Root
<1>6. ASSUME index = 3 PROVE leaf = leaves[index]
  <2>1. merkle_node_hash(merkle_node_hash(path[2], merkle_node_hash(leaf, path[1])), path[3])
          = Root(leaves)
    BY <1>3, <1>6 DEF FoldPath
  <2> QED
    BY <1>6, <2>1, NodeInjective DEF Root
<1>7. ASSUME index = 4 PROVE leaf = leaves[index]
  <2>1. merkle_node_hash(merkle_node_hash(path[2], merkle_node_hash(path[1], leaf)), path[3])
          = Root(leaves)
    BY <1>3, <1>7 DEF FoldPath
  <2> QED
    BY <1>7, <2>1, NodeInjective DEF Root
<1>8. ASSUME index = 5 PROVE leaf = leaves[index]
  <2>1. merkle_node_hash(path[1], leaf) = Root(leaves)
    BY <1>3, <1>8 DEF FoldPath
  <2> QED
    BY <1>8, <2>1, NodeInjective DEF Root
<1>9. leaf = leaves[index]
  BY <1>1, <1>4, <1>5, <1>6, <1>7, <1>8
<1> QED
  BY <1>1, <1>2, <1>9

(* Conversely the path of a leaf folds from it to the root of its tree.    *)
LEMMA PathInTree ==
  ASSUME NEW leaves, NEW index \in 1 .. 5
  PROVE  /\ Len(InclusionPath(leaves, index)) = merkle_proof_len(index)
         /\ FoldPath(index, leaves[index], InclusionPath(leaves, index)) = Root(leaves)
<1>1. CASE index = 1
  BY <1>1 DEF FoldPath, Root, InclusionPath, merkle_proof_len
<1>2. CASE index = 2
  BY <1>2 DEF FoldPath, Root, InclusionPath, merkle_proof_len
<1>3. CASE index = 3
  BY <1>3 DEF FoldPath, Root, InclusionPath, merkle_proof_len
<1>4. CASE index = 4
  BY <1>4 DEF FoldPath, Root, InclusionPath, merkle_proof_len
<1>5. CASE index = 5
  BY <1>5 DEF FoldPath, Root, InclusionPath, merkle_proof_len
<1> QED
  BY <1>1, <1>2, <1>3, <1>4, <1>5
-----------------------------------------------------------------------------
LEMMA LengthOfList ==
  ASSUME NEW S, NEW s \in Seq(S)
  PROVE  s \in [1 .. Len(s) -> S] /\ Len(s) \in Nat /\ (s # <<>> => Len(s) # 0)
  OBVIOUS

(* What a successful split hands out.                                      *)
Leaves(d) ==
  [i \in 1 .. TOTAL_SHARES |-> merkle_leaf_hash(i, ShareValue(d.secret, d.nonce, i))]

LEMMA SplitParts ==
  ASSUME NEW d \in Splittable
  PROVE  /\ d \in Deals /\ IsOk(SplitOf[d])
         /\ d.secret \in Seq(Bytes) /\ Len(d.secret) \in 1 .. MAX_SECRET_BYTES
         /\ SplitOf[d].ok.root = Root(Leaves(d))
         /\ SplitOf[d].ok.shares
              = [i \in 1 .. TOTAL_SHARES |-> [index |-> i, value |-> ShareValue(d.secret, d.nonce, i),
                                              path  |-> InclusionPath(Leaves(d), i)]]
<1> DEFINE value  == [i \in 1 .. TOTAL_SHARES |-> ShareValue(d.secret, d.nonce, i)]
           leaves == [i \in 1 .. TOTAL_SHARES |-> merkle_leaf_hash(i, value[i])]
           shares == [i \in 1 .. TOTAL_SHARES |->
                        [index |-> i, value |-> value[i], path |-> InclusionPath(leaves, i)]]
           refused == d.secret = <<>> \/ Len(d.secret) > MAX_SECRET_BYTES
<1>1. d \in Deals /\ IsOk(SplitOf[d])
  BY DEF Splittable
<1>2. SplitOf[d] = split_key_material(d.secret, d.nonce)
  BY <1>1 DEF SplitOf
<1>3. SplitOf[d] = IF refused THEN Err("InvalidInputLength") ELSE Ok([root |-> Root(leaves), shares |-> shares])
  BY <1>2 DEF split_key_material
<1>4. ~ refused /\ SplitOf[d].ok = [root |-> Root(leaves), shares |-> shares]
  <2>1. ~ IsOk(Err("InvalidInputLength"))
    BY DEF IsOk, Err
  <2> HIDE DEF refused, shares, leaves
  <2> QED
    BY <1>1, <1>3, <2>1 DEF Ok
<1>5. leaves = Leaves(d)
  BY DEF Leaves
<1>6. SplitOf[d].ok.root = Root(Leaves(d)) /\ SplitOf[d].ok.shares = shares
  <2> HIDE DEF shares, leaves
  <2> QED
    BY <1>4, <1>5
<1>7. d.secret \in Seq(Bytes) /\ Len(d.secret) \in 1 .. MAX_SECRET_BYTES
  <2>1. d.secret \in Seq(Bytes) /\ MAX_SECRET_BYTES \in Nat
    BY <1>1, DealAssumption, WidthAssumption
  <2>2. d.secret # <<>> /\ ~ Len(d.secret) > MAX_SECRET_BYTES
    BY <1>4
  <2>3. Len(d.secret) \in Nat /\ Len(d.secret) # 0
    BY <2>1, <2>2, LengthOfList
  <2> QED
    BY <2>1, <2>2, <2>3
<1> QED
  BY <1>1, <1>5, <1>6, <1>7

LEMMA SplitIs ==
  ASSUME NEW d \in Splittable
  PROVE  /\ d \in Deals /\ IsOk(SplitOf[d])
         /\ d.secret \in Seq(Bytes) /\ Len(d.secret) \in 1 .. MAX_SECRET_BYTES
         /\ SplitOf[d].ok.root = Root(Leaves(d))
         /\ \A i \in 1 .. TOTAL_SHARES :
              SplitOf[d].ok.shares[i] = [index |-> i, value |-> ShareValue(d.secret, d.nonce, i),
                                         path  |-> InclusionPath(Leaves(d), i)]
<1>1. PICK shares :
        /\ shares = SplitOf[d].ok.shares
        /\ shares = [i \in 1 .. TOTAL_SHARES |-> [index |-> i, value |-> ShareValue(d.secret, d.nonce, i),
                                                  path  |-> InclusionPath(Leaves(d), i)]]
  BY SplitParts
<1> QED
  BY <1>1, SplitParts

(* What the checks on a list leave to be interpolated.                     *)
LEMMA OkMeansGenuine ==
  ASSUME NEW d \in Deals, IsOk(SplitOf[d]), NEW S, NEW shares \in Seq(S),
         IsOk(reconstruct_key_material(shares, SplitOf[d].ok.root))
  PROVE  /\ Len(shares) \in THRESHOLD_K .. TOTAL_SHARES
         /\ \A i \in DOMAIN shares :
              /\ shares[i].index \in 1 .. TOTAL_SHARES
              /\ shares[i].value = SplitOf[d].ok.shares[shares[i].index].value
         /\ \A i, j \in DOMAIN shares : i # j => shares[i].index # shares[j].index
<1>1. PICK root : root = SplitOf[d].ok.root
  OBVIOUS
<1>2. SetError(shares, root) = "none"
  <2> SUFFICES ASSUME SetError(shares, root) # "none" PROVE FALSE
    OBVIOUS
  <2>1. reconstruct_key_material(shares, root) = Err(SetError(shares, root))
    BY DEF reconstruct_key_material
  <2> QED
    BY <1>1, <2>1 DEF IsOk, Err
<1>3. /\ ~ TooFew(shares) /\ ~ (Len(shares) > TOTAL_SHARES)
      /\ ~ Repeated(shares) /\ AllInTree(shares, root)
  BY <1>2 DEF SetError
<1>4. Len(shares) \in THRESHOLD_K .. TOTAL_SHARES
  <2>1. Len(shares) \in Nat
    OBVIOUS
  <2>2. PICK n \in Nat : n = Len(shares)
    BY <2>1
  <2>3. ~ (n < 3) /\ ~ (n > 5)
    BY <1>3, <2>2, ShapeAssumption DEF TooFew
  <2> QED
    BY <2>2, <2>3, ShapeAssumption
<1>5. PICK leaves :
        /\ root = Root(leaves)
        /\ \A i \in 1 .. TOTAL_SHARES :
             leaves[i] = merkle_leaf_hash(i, SplitOf[d].ok.shares[i].value)
  <2>1. d \in Splittable
    BY DEF Splittable
  <2>2. ASSUME NEW i \in 1 .. TOTAL_SHARES
        PROVE  Leaves(d)[i] = merkle_leaf_hash(i, SplitOf[d].ok.shares[i].value)
    <3>1. SplitOf[d].ok.shares[i] = [index |-> i, value |-> ShareValue(d.secret, d.nonce, i),
                                     path  |-> InclusionPath(Leaves(d), i)]
      BY <2>1, SplitIs
    <3>2. Leaves(d)[i] = merkle_leaf_hash(i, ShareValue(d.secret, d.nonce, i))
      BY DEF Leaves
    <3> QED
      BY <3>1, <3>2
  <2> QED
    BY <1>1, <2>1, <2>2, SplitIs
<1>6. ASSUME NEW i \in DOMAIN shares
      PROVE  /\ shares[i].index \in 1 .. TOTAL_SHARES
             /\ shares[i].value = SplitOf[d].ok.shares[shares[i].index].value
  <2>1. PICK s : s = shares[i]
    OBVIOUS
  <2>2. verify_share_in_tree(s.index, s.value, s.path, Root(leaves))
    BY <1>3, <1>5, <2>1 DEF AllInTree
  <2>3. s.index \in 1 .. 5 /\ merkle_leaf_hash(s.index, s.value) = leaves[s.index]
    BY <2>2, ShareInTree
  <2>4. leaves[s.index] = merkle_leaf_hash(s.index, SplitOf[d].ok.shares[s.index].value)
    BY <1>5, <2>3, ShapeAssumption
  <2> QED
    BY <2>1, <2>3, <2>4, LeafInjective, ShapeAssumption
<1>7. \A i, j \in DOMAIN shares : i # j => shares[i].index # shares[j].index
  BY <1>3 DEF Repeated
<1> QED
  BY <1>4, <1>6, <1>7
-----------------------------------------------------------------------------
(* Everything that may arrive on a tray.                                   *)
Dealt(d, i) == SplitOf[d].ok.shares[i]

Arrivals ==
  {Dealt(d, i) : d \in Deals, i \in 1 .. TOTAL_SHARES}
    \cup UNION {Altered(Dealt(d, i)) : d \in Deals, i \in 1 .. TOTAL_SHARES}

(* Inductive: a secret in the answer is what the present tray gives.       *)
AnswerInv ==
  answer # NoAnswer /\ IsOk(answer.result) =>
    /\ answer.of \in Deals /\ IsOk(SplitOf[answer.of])
    /\ answer.result = reconstruct_key_material(tray, SplitOf[answer.of].ok.root)

IInv ==
  /\ dealt \subseteq {d \in Deals : IsOk(SplitOf[d])}
  /\ tray \in Seq(Arrivals)
  /\ AnswerInv

LEMMA Initially == Init => IInv
  BY DEF Init, IInv, AnswerInv

LEMMA Step == IInv /\ [Next]_vars => IInv'
<1> SUFFICES ASSUME IInv, [Next]_vars PROVE IInv'
  OBVIOUS
<1>1. ASSUME NEW d \in Deals, Split(d)
      PROVE  IInv'
  <2>1. dealt' \subseteq {e \in Deals : IsOk(SplitOf[e])}
    BY <1>1 DEF Split, IInv
  <2>2. AnswerInv'
    <3>1. CASE IsOk(SplitOf[d])
      BY <1>1, <3>1 DEF Split, AnswerInv
    <3>2. CASE ~ IsOk(SplitOf[d])
      <4>1. answer'.result = SplitOf[d]
        BY <1>1, <3>2 DEF Split
      <4> QED
        BY <3>2, <4>1 DEF AnswerInv
    <3> QED
      BY <3>1, <3>2
  <2> QED
    BY <1>1, <2>1, <2>2 DEF Split, IInv
<1>2. ASSUME NEW d \in dealt, NEW i \in 1 .. TOTAL_SHARES,
             Collect(SplitOf[d].ok.shares[i]) \/ CollectAltered(SplitOf[d].ok.shares[i])
      PROVE  IInv'
  <2>1. d \in Deals
    BY DEF IInv
  <2>2. PICK s \in Arrivals : tray' = Append(tray, s)
    <3>1. CASE Collect(SplitOf[d].ok.shares[i])
      BY <2>1, <3>1 DEF Collect, Arrivals, Dealt
    <3>2. CASE CollectAltered(SplitOf[d].ok.shares[i])
      BY <2>1, <3>2 DEF CollectAltered, Arrivals, Dealt
    <3> QED
      BY <1>2, <3>1, <3>2
  <2>3. answer' = NoAnswer /\ dealt' = dealt
    BY <1>2 DEF Collect, CollectAltered
  <2>4. tray' \in Seq(Arrivals)
    BY <2>2 DEF IInv
  <2> QED
    BY <2>3, <2>4 DEF IInv, AnswerInv
<1>3. ASSUME Discard
      PROVE  IInv'
  BY <1>3 DEF Discard, IInv, AnswerInv
<1>4. ASSUME NEW d \in dealt, Reconstruct(d)
      PROVE  IInv'
  <2>1. d \in Deals /\ IsOk(SplitOf[d])
    BY DEF IInv
  <2>2. answer'.of = d /\ answer'.result = reconstruct_key_material(tray, SplitOf[d].ok.root)
    BY <1>4 DEF Reconstruct
  <2>3. dealt' = dealt /\ tray' = tray
    BY <1>4 DEF Reconstruct
  <2> QED
    BY <2>1, <2>2, <2>3 DEF IInv, AnswerInv
<1>5. CASE UNCHANGED vars
  BY <1>5 DEF vars, IInv, AnswerInv
<1> QED
  BY <1>1, <1>2, <1>3, <1>4, <1>5 DEF Next

LEMMA Invariance == Spec => []IInv
  BY Initially, Step, PTL DEF Spec

(* Altered, foreign and repeated shares never reach interpolation: a       *)
(* secret is returned only from at least THRESHOLD_K distinct shares of    *)
(* the asked deal, however shares are altered and in whatever order they   *)
(* arrive.                                                                 *)
THEOREM Authenticity == Spec => []OnlyGenuine
<1>1. IInv => OnlyGenuine
  <2> SUFFICES ASSUME IInv, answer # NoAnswer, IsOk(answer.result)
               PROVE  /\ Len(tray) \in THRESHOLD_K .. TOTAL_SHARES
                      /\ \A i \in DOMAIN tray :
                           /\ tray[i].index \in 1 .. TOTAL_SHARES
                           /\ tray[i].value = SplitOf[answer.of].ok.shares[tray[i].index].value
                      /\ \A i, j \in DOMAIN tray : i # j => tray[i].index # tray[j].index
    BY DEF OnlyGenuine
  <2>1. PICK d : d = answer.of
    OBVIOUS
  <2>2. PICK shares \in Seq(Arrivals) : shares = tray
    BY DEF IInv
  <2>3. d \in Deals /\ IsOk(SplitOf[d])
    BY <2>1 DEF IInv, AnswerInv
  <2>4. IsOk(reconstruct_key_material(shares, SplitOf[d].ok.root))
    BY <2>1, <2>2 DEF IInv, AnswerInv
  <2>5. /\ Len(shares) \in THRESHOLD_K .. TOTAL_SHARES
        /\ \A i \in DOMAIN shares :
             /\ shares[i].index \in 1 .. TOTAL_SHARES
             /\ shares[i].value = SplitOf[d].ok.shares[shares[i].index].value
        /\ \A i, j \in DOMAIN shares : i # j => shares[i].index # shares[j].index
    BY <2>3, <2>4, OkMeansGenuine
  <2> QED
    BY <2>1, <2>2, <2>5
<1> QED
  BY <1>1, Invariance, PTL
-----------------------------------------------------------------------------
(* Division.                                                               *)

LEMMA DivUnique ==
  ASSUME NEW n \in Nat, NEW D \in Nat \ {0}, NEW t \in Nat, NEW x \in Nat, n = D * t + x, x < D
  PROVE  n \div D = t
<1>1. PICK u \in Nat, y \in Nat : u = n \div D /\ y = n % D /\ n = D * u + y /\ y < D
  OBVIOUS
<1>2. D * u \in Nat /\ D * t \in Nat /\ D * (t - u) = D * t - D * u /\ D * (u - t) = D * u - D * t
  OBVIOUS
<1>3. ASSUME t > u PROVE FALSE
  <2>1. D * (t - u) >= D
    BY <1>3
  <2> QED
    BY <1>1, <1>2, <2>1
<1>4. ASSUME u > t PROVE FALSE
  <2>1. D * (u - t) >= D
    BY <1>4
  <2> QED
    BY <1>1, <1>2, <2>1
<1> QED
  BY <1>1, <1>3, <1>4

(* Dividing twice is dividing by the product.                              *)
LEMMA DivTwice ==
  ASSUME NEW n \in Nat, NEW P \in Nat \ {0}, NEW B \in Nat \ {0}
  PROVE  /\ n \div (B * P) = (n \div P) \div B
         /\ n \div P = ((n \div P) % B) + B * (n \div (B * P))
<1>1. PICK m \in Nat, r \in Nat : m = n \div P /\ n = P * m + r /\ r < P
  OBVIOUS
<1>2. PICK t \in Nat, s \in Nat : t = m \div B /\ s = m % B /\ m = B * t + s /\ s < B
  <2>1. \A a \in Nat, b \in Nat \ {0} :
          a \div b \in Nat /\ a % b \in Nat /\ a = b * (a \div b) + (a % b) /\ a % b < b
    OBVIOUS
  <2> QED
    BY ONLY <1>1, <2>1, B \in Nat \ {0}
<1>3. PICK D \in Nat \ {0} : D = B * P
  <2>1. B * P \in Nat /\ B * P # 0
    OBVIOUS
  <2> QED
    BY <2>1
<1>4. PICK x \in Nat : x = P * s + r
  OBVIOUS
<1>5. n = D * t + x
  <2>1. PICK bt \in Nat, u \in Nat, v \in Nat : bt = B * t /\ u = P * bt /\ v = P * s
    OBVIOUS
  <2>2. u = D * t
    BY <1>3, <2>1
  <2>3. P * (bt + s) = u + v
    BY <2>1
  <2>4. n = P * (bt + s) + r
    BY <1>1, <1>2, <2>1
  <2> QED
    BY <1>4, <2>1, <2>2, <2>3, <2>4
<1>6. x < D
  <2>1. P * s <= P * (B - 1)
    BY <1>2
  <2>2. P * (B - 1) = B * P - P
    OBVIOUS
  <2>3. P * s \in Nat /\ P * (B - 1) \in Nat
    BY <1>2
  <2> QED
    BY <1>1, <1>3, <1>4, <2>1, <2>2, <2>3
<1>7. n \div D = t
  BY <1>5, <1>6, DivUnique
<1> QED
  BY <1>1, <1>2, <1>3, <1>7
-----------------------------------------------------------------------------
(* Bytes.                                                                  *)

Pow(k) == Base ^ k
Width  == 0 .. LEN_BYTES + EVAL_BYTES

LEMMA BasePowers ==
  /\ Pow(0) = 1
  /\ \A k \in Width : Pow(k) \in Nat \ {0} /\ Pow(k + 1) = Base * Pow(k)
<1> DEFINE h == [k \in Width |-> Pow(k)]
           T == [k \in Width |-> Nat \ {0}]
           n == LEN_BYTES + EVAL_BYTES
<1>1. n \in Nat /\ Pow(0) = 1 /\ 0 \in Width /\ Base \in Nat /\ Base > 1
  BY WidthAssumption DEF Pow, Width
<1>2. \A k \in Width : Pow(k) \in Nat /\ Pow(k + 1) = Base * Pow(k)
  BY WidthAssumption DEF Pow, Width
<1>3. ASSUME NEW k \in 1 .. n, h[k - 1] \in T[k - 1] PROVE h[k] \in T[k]
  <2>1. k - 1 \in Width /\ k \in Width /\ (k - 1) + 1 = k
    BY <1>1 DEF Width
  <2>2. PICK p \in Nat \ {0} : p = Pow(k - 1)
    BY <1>3, <2>1
  <2>3. Pow(k) = Base * p
    <3>1. Pow((k - 1) + 1) = Base * Pow(k - 1)
      BY <1>2, <2>1
    <3> QED
      BY <2>1, <2>2, <3>1
  <2>4. Base * p \in Nat \ {0}
    BY <1>1
  <2> QED
    BY <2>1, <2>3, <2>4
<1>4. h[0] \in T[0]
  BY <1>1
<1> HIDE DEF h, T
<1>5. \A k \in 0 .. n : h[k] \in T[k]
  BY <1>1, <1>3, <1>4, InOrder
<1>6. \A k \in Width : Pow(k) \in Nat \ {0}
  BY <1>5 DEF h, T, Width
<1> QED
  BY <1>1, <1>2, <1>6, Zenon

(* A nonempty set of naturals has a least member.                          *)
LEMMA MinIsMember ==
  ASSUME NEW D \in SUBSET Nat, D # {}
  PROVE  Min(D) \in D
<1>1. \E x \in D : \A y \in D : x <= y
  BY LeastNatural
<1> QED
  BY <1>1 DEF Min

(* Sets of indices that a fold from the right passes through.              *)
LEMMA Suffix ==
  ASSUME NEW w \in Nat, NEW k \in 1 .. w
  PROVE  /\ (w - k + 1) .. w \in SUBSET (1 .. w) /\ (w - k + 1) .. w # {}
         /\ Min((w - k + 1) .. w) = w - k + 1
         /\ ((w - k + 1) .. w) \ {w - k + 1} = (w - (k - 1) + 1) .. w
<1>1. PICK a \in 1 .. w : a = w - k + 1
  OBVIOUS
<1>2. a .. w \in SUBSET (1 .. w) /\ a .. w # {} /\ (a .. w) \ {a} = (a + 1) .. w
  OBVIOUS
<1>3. a \in a .. w /\ \A y \in a .. w : a <= y
  OBVIOUS
<1>4. \A x \in a .. w : (\A y \in a .. w : x <= y) => x = a
  OBVIOUS
<1>5. Min(a .. w) = a
  BY <1>3, <1>4 DEF Min
<1>6. a + 1 = w - (k - 1) + 1
  BY <1>1
<1> QED
  BY <1>1, <1>2, <1>5, <1>6

(* The number that bytes stand for, one byte more at a time.               *)
LEMMA FromBytesRuns ==
  ASSUME NEW w \in Nat, NEW bytes \in [1 .. w -> Nat]
  PROVE  \E h \in [0 .. w -> Nat] :
           /\ h[0] = 0 /\ h[w] = FromBytes(bytes)
           /\ \A k \in 1 .. w : h[k] = bytes[w - k + 1] + Base * h[k - 1]
<1> DEFINE D      == 1 .. w
           T      == Nat
           body(b, acc) == b + Base * acc
           ch     == [s \in SUBSET D |-> Min(s)]
           F      == [j \in D |-> [e \in T |-> body(bytes[j], e)]]
           Eq(f)  == f = [s \in SUBSET D |-> IF s = {} THEN 0 ELSE body(bytes[Min(s)], f[s \ {Min(s)}])]
<1>1. IsFiniteSet(D)
  BY FS_Interval
<1>2. \A s \in SUBSET D : s # {} => ch[s] \in s
  <2> SUFFICES ASSUME NEW s \in SUBSET D, s # {} PROVE ch[s] \in s
    OBVIOUS
  <2>1. s \in SUBSET Nat
    OBVIOUS
  <2> QED
    BY <2>1, MinIsMember
<1>3. \A j \in D, e \in T : body(bytes[j], e) \in T
  <2> SUFFICES ASSUME NEW j \in D, NEW e \in T PROVE body(bytes[j], e) \in T
    OBVIOUS
  <2>1. bytes[j] \in Nat /\ Base \in Nat
    BY WidthAssumption
  <2>2. Base * e \in Nat
    BY <2>1
  <2> QED
    BY <2>1, <2>2
<1>4. F \in [D -> [T -> T]]
  BY <1>3
<1>5. 0 \in T
  OBVIOUS
<1>6. \A s \in SUBSET D : s # {} => Min(s) \in D
  BY <1>2
<1>D. DOMAIN bytes = D
  OBVIOUS
<1>N. ASSUME NEW k \in 1 .. w
      PROVE  /\ (w - k + 1) .. w \in SUBSET D /\ (w - k + 1) .. w # {}
             /\ Min((w - k + 1) .. w) = w - k + 1
             /\ ((w - k + 1) .. w) \ {w - k + 1} = (w - (k - 1) + 1) .. w
  BY Suffix
<1>E. (w - 0 + 1) .. w = {} /\ (w - w + 1) .. w = D
  OBVIOUS
<1> HIDE DEF D, body, T
<1>7. PICK g \in [SUBSET D -> T] : Folds(g, D, 0, F, ch)
  <2>1. FoldData(D, T, 0, F, ch)
    BY <1>1, <1>2, <1>4, <1>5 DEF FoldData
  <2> HIDE DEF F, ch, Eq
  <2> QED
    BY <2>1, FoldExists
<1>8. Eq(g)
  <2>1. ASSUME NEW s \in SUBSET D PROVE g[s] = IF s = {} THEN 0 ELSE body(bytes[Min(s)], g[s \ {Min(s)}])
    <3>1. CASE s = {}
      BY <1>7, <3>1 DEF Folds
    <3>2. CASE s # {}
      <4>1. g[s] = F[Min(s)][g[s \ {Min(s)}]]
        BY <1>7, <3>2 DEF Folds
      <4>2. Min(s) \in D /\ g[s \ {Min(s)}] \in T
        BY <1>6, <1>7, <3>2
      <4> QED
        BY <3>2, <4>1, <4>2
    <3> QED
      BY <3>1, <3>2
  <2>2. g = [s \in SUBSET D |-> g[s]]
    BY <1>7
  <2> QED
    BY <2>1, <2>2, Zenon
<1>9. FromBytes(bytes) = (CHOOSE f : Eq(f))[D]
  BY <1>D, Zenon DEF FromBytes, FoldRight, MapThenFoldSet, body
<1> HIDE DEF Eq
<1>10. PICK f : Eq(f) /\ FromBytes(bytes) = f[D]
  BY <1>8, <1>9, Zenon
<1>11. \A s \in SUBSET D : f[s] = IF s = {} THEN 0 ELSE body(bytes[Min(s)], f[s \ {Min(s)}])
  BY <1>10, Zenon DEF Eq
<1> DEFINE h == [k \in 0 .. w |-> f[(w - k + 1) .. w]]
<1>12. h[0] = 0 /\ h[w] = FromBytes(bytes)
  <2>1. {} \in SUBSET D /\ 0 \in 0 .. w /\ w \in 0 .. w
    OBVIOUS
  <2>2. f[{}] = 0
    BY <1>11, <2>1
  <2> QED
    BY <1>10, <1>E, <2>1, <2>2
<1>13. ASSUME NEW k \in 1 .. w PROVE h[k] = body(bytes[w - k + 1], h[k - 1])
  <2>1. k \in 0 .. w /\ k - 1 \in 0 .. w
    OBVIOUS
  <2>2. f[(w - k + 1) .. w] = body(bytes[w - k + 1], f[(w - (k - 1) + 1) .. w])
    <3>1. PICK s : s = (w - k + 1) .. w
      OBVIOUS
    <3>2. PICK t : t = (w - (k - 1) + 1) .. w
      OBVIOUS
    <3>3. s \in SUBSET D /\ s # {} /\ Min(s) = w - k + 1 /\ s \ {Min(s)} = t
      BY <1>N, <3>1, <3>2
    <3> QED
      BY <1>11, <3>1, <3>2, <3>3
  <2> QED
    BY <2>1, <2>2
<1>14. ASSUME NEW k \in 1 .. w, h[k - 1] \in Nat PROVE h[k] \in Nat
  <2>1. w - k + 1 \in D
    BY DEF D
  <2> QED
    BY <1>3, <1>13, <1>14, <2>1 DEF T
<1> HIDE DEF h
<1> DEFINE S == [k \in 0 .. w |-> Nat]
<1>15. \A k \in 0 .. w : h[k] \in S[k]
  <2>1. h[0] \in S[0]
    BY <1>12
  <2>2. \A k \in 1 .. w : h[k - 1] \in S[k - 1] => h[k] \in S[k]
    BY <1>14
  <2> HIDE DEF S
  <2> QED
    BY <2>1, <2>2, InOrder
<1>16. h \in [0 .. w -> Nat]
  BY <1>15 DEF h
<1> QED
  BY <1>12, <1>13, <1>16 DEF body

LEMMA ToBytesTyped ==
  ASSUME NEW n \in Nat, NEW w \in 0 .. LEN_BYTES + EVAL_BYTES
  PROVE  ToBytes(n, w) \in [1 .. w -> Bytes]
<1>1. ASSUME NEW i \in 1 .. w PROVE (n \div Base ^ (i - 1)) % Base \in Bytes
  <2>1. PICK P \in Nat \ {0} : P = Base ^ (i - 1)
    <3>1. i - 1 \in Width
      BY WidthAssumption DEF Width
    <3>2. Pow(i - 1) \in Nat \ {0}
      BY <3>1, BasePowers
    <3> QED
      BY <3>2 DEF Pow
  <2>2. \A a \in Nat, b \in Nat \ {0} : a \div b \in Nat /\ a % b \in 0 .. b - 1
    OBVIOUS
  <2>3. Base \in Nat \ {0}
    BY WidthAssumption
  <2> QED
    BY <2>1, <2>2, <2>3 DEF Bytes
<1> QED
  BY <1>1 DEF ToBytes

(* A number that fits its width is read back from its bytes.               *)
LEMMA RoundTrip ==
  ASSUME NEW w \in 0 .. LEN_BYTES + EVAL_BYTES, NEW n \in Nat, n < Base ^ w
  PROVE  FromBytes(ToBytes(n, w)) = n
<1> DEFINE bytes == ToBytes(n, w)
           T == [k \in 0 .. w |-> {n \div Pow(w - k)}]
<1>1. w \in Nat /\ bytes \in [1 .. w -> Nat]
  <2>1. w \in Nat /\ Bytes \subseteq Nat
    BY WidthAssumption DEF Bytes
  <2>2. bytes \in [1 .. w -> Bytes]
    BY ToBytesTyped
  <2> HIDE DEF bytes
  <2> QED
    BY <2>1, <2>2
<1>2. \A i \in 1 .. w : bytes[i] = (n \div Pow(i - 1)) % Base
  BY DEF ToBytes, Pow
<1> HIDE DEF bytes
<1>3. PICK h \in [0 .. w -> Nat] :
        /\ h[0] = 0 /\ h[w] = FromBytes(bytes)
        /\ \A k \in 1 .. w : h[k] = bytes[w - k + 1] + Base * h[k - 1]
  BY <1>1, FromBytesRuns
<1>4. h[0] \in T[0]
  <2>1. PICK P \in Nat \ {0} : P = Pow(w)
    BY BasePowers DEF Width
  <2>2. n < P
    BY <2>1 DEF Pow
  <2>3. n \div P = 0
    BY <2>2
  <2>4. T[0] = {n \div Pow(w - 0)} /\ w - 0 = w
    BY <1>1
  <2> QED
    BY <1>3, <2>1, <2>3, <2>4
<1>5. ASSUME NEW k \in 1 .. w, h[k - 1] \in T[k - 1] PROVE h[k] \in T[k]
  <2>1. PICK j \in 0 .. w : j = w - k /\ w - k + 1 = j + 1 /\ w - (k - 1) = j + 1 /\ j + 1 \in 1 .. w
    BY <1>1
  <2>2. j \in Width /\ (j + 1) - 1 = j
    BY <1>1, <2>1, WidthAssumption DEF Width
  <2>3. PICK P \in Nat \ {0} : P = Pow(j) /\ Pow(j + 1) = Base * P
    BY <2>2, BasePowers
  <2>4. bytes[j + 1] = (n \div P) % Base
    BY <1>2, <2>1, <2>2, <2>3
  <2>5. h[k - 1] = n \div (Base * P)
    <3>1. k - 1 \in 0 .. w
      BY <1>1
    <3> QED
      BY <1>5, <2>1, <2>3, <3>1
  <2>6. Base \in Nat \ {0}
    BY WidthAssumption
  <2>7. n \div P = ((n \div P) % Base) + Base * (n \div (Base * P))
    BY <2>6, DivTwice
  <2>8. h[k] = n \div P
    BY <1>3, <2>1, <2>4, <2>5, <2>7
  <2>9. T[k] = {n \div P}
    BY <2>1, <2>3
  <2> QED
    BY <2>8, <2>9
<1> HIDE DEF T
<1>6. h[w] \in T[w]
  <2>1. \A k \in 0 .. w : h[k] \in T[k]
    BY <1>1, <1>4, <1>5, InOrder
  <2> QED
    BY <1>1, <2>1
<1>7. T[w] = {n}
  <2>1. T[w] = {n \div Pow(0)}
    BY <1>1 DEF T
  <2> QED
    BY <2>1, BasePowers
<1> QED
  BY <1>3, <1>6, <1>7 DEF bytes
-----------------------------------------------------------------------------
(* Lists of lists of one length.                                           *)

LEMMA IsList ==
  ASSUME NEW S, NEW n \in Nat, NEW f \in [1 .. n -> S]
  PROVE  f \in Seq(S) /\ Len(f) = n
  OBVIOUS

LEMMA PlaceInRange ==
  ASSUME NEW w \in Nat \ {0}, NEW K \in Nat, NEW k \in 1 .. K, NEW j \in 1 .. w
  PROVE  (k - 1) * w + j \in 1 .. K * w
<1>1. PICK i \in Nat : i = k - 1 /\ i + 1 <= K
  OBVIOUS
<1>2. i * w + w = (i + 1) * w /\ i * w \in Nat /\ (i + 1) * w \in Nat /\ K * w \in Nat
  OBVIOUS
<1>3. (i + 1) * w <= K * w
  BY <1>1
<1> QED
  BY <1>1, <1>2, <1>3

(* Every position is some place of some list.                              *)
LEMMA PlaceOf ==
  ASSUME NEW w \in Nat \ {0}, NEW K \in Nat, NEW x \in 1 .. K * w
  PROVE  \E k \in 1 .. K, j \in 1 .. w : x = (k - 1) * w + j
<1>1. PICK i \in Nat, l \in Nat : x - 1 = w * i + l /\ l < w
  <2>1. \A a \in Nat, b \in Nat \ {0} :
          a \div b \in Nat /\ a % b \in Nat /\ a = b * (a \div b) + (a % b) /\ a % b < b
    OBVIOUS
  <2>2. x - 1 \in Nat
    OBVIOUS
  <2> QED
    BY ONLY <2>1, <2>2, w \in Nat \ {0}
<1>2. i * w = w * i /\ i * w \in Nat /\ x \in Nat /\ x <= K * w /\ K * w \in Nat
  OBVIOUS
<1>3. i < K
  <2>1. SUFFICES ASSUME K <= i PROVE FALSE
    OBVIOUS
  <2>2. K * w <= i * w
    BY <2>1
  <2> QED
    BY <1>1, <1>2, <2>2
<1>4. i + 1 \in 1 .. K /\ l + 1 \in 1 .. w /\ (i + 1) - 1 = i
  BY <1>1, <1>3
<1>5. x = i * w + (l + 1)
  BY <1>1, <1>2
<1> QED
  BY <1>4, <1>5

(* Every function on lists can be iterated along a list.                   *)
LEMMA RunExists ==
  ASSUME NEW n \in Nat, NEW T, NEW base \in T, NEW F \in [1 .. n -> [T -> T]]
  PROVE  \E h \in [0 .. n -> T] : Run(h, n, base, F)
<1> DEFINE D == 1 .. n
           ch == [s \in SUBSET D |-> Max(s)]
<1>1. FoldData(D, T, base, F, ch)
  <2>1. IsFiniteSet(D)
    BY FS_Interval
  <2>2. \A s \in SUBSET D : s # {} => ch[s] \in s
    BY MaxIsMember
  <2> HIDE DEF D, ch
  <2>3. F \in [D -> [T -> T]]
    BY DEF D
  <2> QED
    BY <2>1, <2>2, <2>3 DEF FoldData
<1>2. \A s \in SUBSET D : ch[s] = Max(s)
  OBVIOUS
<1> HIDE DEF ch
<1>3. PICK g \in [SUBSET D -> T] : Folds(g, D, base, F, ch)
  BY <1>1, FoldExists
<1>4. Unfolds(g, n, base, F, T)
  BY <1>2, <1>3 DEF Unfolds, Folds
<1> QED
  BY <1>4, FoldRuns

(* FlattenSeq appends one list after the other.                            *)
Joins(h, n, chunks) ==
  h[0] = <<>> /\ h[n] = FlattenSeq(chunks) /\ \A k \in 1 .. n : h[k] = h[k - 1] \o chunks[k]

LEMMA FlattenRuns ==
  ASSUME NEW S, NEW n \in Nat, NEW chunks \in [1 .. n -> Seq(S)]
  PROVE  \E h \in [0 .. n -> Seq(S)] : Joins(h, n, chunks)
<1> DEFINE T == Seq(S)
           F == [k \in 1 .. n |-> [s \in T |-> s \o chunks[k]]]
           Eq(f) == f = [i \in 1 .. n |-> IF i = 1 THEN chunks[i] ELSE f[i - 1] \o chunks[i]]
<1>1. Len(chunks) = n
  OBVIOUS
<1>2. F \in [1 .. n -> [T -> T]]
  <2> SUFFICES ASSUME NEW k \in 1 .. n, NEW s \in T PROVE s \o chunks[k] \in T
    OBVIOUS
  <2> QED
    OBVIOUS
<1>3. PICK h \in [0 .. n -> T] : Run(h, n, <<>>, F)
  <2>1. <<>> \in T
    OBVIOUS
  <2> HIDE DEF T, F
  <2> QED
    BY <1>2, <2>1, RunExists
<1>4. ASSUME NEW k \in 1 .. n PROVE h[k] = h[k - 1] \o chunks[k] /\ k - 1 \in 0 .. n
  <2>1. k - 1 \in 0 .. n
    OBVIOUS
  <2>2. PICK s \in T : s = h[k - 1]
    BY <1>3, <2>1
  <2>3. h[k] = F[k][s]
    BY <1>3, <2>2, Zenon DEF Run
  <2>4. F[k][s] = s \o chunks[k]
    BY <2>2
  <2> QED
    BY <2>1, <2>2, <2>3, <2>4
<1>5. h[0] = <<>>
  BY <1>3 DEF Run
<1>6. CASE n = 0
  <2>1. FlattenSeq(chunks) = chunks
    BY <1>1, <1>6, Zenon DEF FlattenSeq
  <2>2. chunks = <<>>
    BY <1>6
  <2> QED
    BY <1>3, <1>4, <1>5, <1>6, <2>1, <2>2 DEF Joins
<1>7. CASE n # 0
  <2> DEFINE g == [i \in 1 .. n |-> h[i]]
  <2>1. Eq(g)
    <3>1. ASSUME NEW i \in 1 .. n PROVE g[i] = IF i = 1 THEN chunks[i] ELSE g[i - 1] \o chunks[i]
      <4>1. CASE i = 1
        <5>1. h[1] = h[1 - 1] \o chunks[1] /\ 1 - 1 = 0
          BY <1>4, <4>1
        <5>2. h[1] = <<>> \o chunks[1]
          BY <1>5, <5>1
        <5>3. chunks[1] \in Seq(S)
          BY <4>1
        <5> QED
          BY <4>1, <5>2, <5>3
      <4>2. CASE i # 1
        <5>1. i - 1 \in 1 .. n
          BY <4>2
        <5> QED
          BY <1>4, <4>2, <5>1
      <4> QED
        BY <4>1, <4>2
    <3> QED
      BY <3>1
  <2> HIDE DEF g, F, T
  <2>2. FlattenSeq(chunks) = (CHOOSE f : Eq(f))[n]
    BY <1>1, <1>7, Zenon DEF FlattenSeq
  <2> HIDE DEF Eq
  <2>3. PICK f : Eq(f) /\ FlattenSeq(chunks) = f[n]
    BY <2>1, <2>2, Zenon
  <2>4. \A i \in 1 .. n : f[i] = IF i = 1 THEN chunks[i] ELSE f[i - 1] \o chunks[i]
    BY <2>3 DEF Eq
  <2> DEFINE r == [k \in 0 .. n |-> IF k = 0 THEN <<>> ELSE f[k]]
             U == [k \in 0 .. n |-> {h[k]}]
  <2>5. r[0] \in U[0]
    BY <1>5
  <2>6. ASSUME NEW k \in 1 .. n, r[k - 1] \in U[k - 1] PROVE r[k] \in U[k]
    <3>1. k \in 0 .. n /\ k - 1 \in 0 .. n /\ k # 0
      OBVIOUS
    <3>2. r[k - 1] = h[k - 1] /\ r[k] = f[k] /\ h[k] = h[k - 1] \o chunks[k]
      BY <1>4, <2>6, <3>1
    <3>3. CASE k = 1
      <4>1. h[k] = <<>> \o chunks[k]
        BY <1>5, <3>2, <3>3
      <4>2. f[k] = chunks[k] /\ chunks[k] \in Seq(S)
        BY <2>4, <3>3
      <4> QED
        BY <3>1, <3>2, <4>1, <4>2
    <3>4. CASE k # 1
      <4>1. f[k] = f[k - 1] \o chunks[k]
        BY <2>4, <3>4
      <4>2. r[k - 1] = f[k - 1]
        BY <3>1, <3>4
      <4> QED
        BY <3>1, <3>2, <4>1, <4>2
    <3> QED
      BY <3>3, <3>4
  <2> HIDE DEF r, U
  <2>7. r[n] \in U[n]
    <3>1. \A k \in 0 .. n : r[k] \in U[k]
      BY <2>5, <2>6, InOrder
    <3> QED
      BY <3>1
  <2>8. h[n] = FlattenSeq(chunks)
    BY <1>7, <2>3, <2>7 DEF r, U
  <2>9. h \in [0 .. n -> Seq(S)]
    BY <1>3 DEF T
  <2>10. \A k \in 1 .. n : h[k] = h[k - 1] \o chunks[k]
    BY <1>4
  <2> QED
    BY <1>5, <2>8, <2>9, <2>10 DEF Joins
<1> QED
  BY <1>6, <1>7

(* Where the lists of a flattened list lie.                                *)
Laid(s, chunks, a, n, S) ==
  /\ a[0] = 0 /\ \A k \in 1 .. n : a[k] = a[k - 1] + Len(chunks[k])
  /\ s \in Seq(S) /\ Len(s) = a[n]
  /\ \A k \in 1 .. n : \A j \in 1 .. Len(chunks[k]) : s[a[k - 1] + j] = chunks[k][j]

LEMMA FlatList ==
  ASSUME NEW S, NEW n \in Nat, NEW chunks \in [1 .. n -> Seq(S)]
  PROVE  \E a \in [0 .. n -> Nat] : Laid(FlattenSeq(chunks), chunks, a, n, S)
<1>0. PICK h \in [0 .. n -> Seq(S)] : Joins(h, n, chunks)
  BY FlattenRuns
<1>1. /\ h[0] = <<>> /\ h[n] = FlattenSeq(chunks)
      /\ \A k \in 1 .. n : h[k] = h[k - 1] \o chunks[k]
  BY <1>0 DEF Joins
<1> DEFINE a == [k \in 0 .. n |-> Len(h[k])]
           Fits1(s, k) == \A i \in 1 .. k : a[i] <= a[k] /\ \A j \in 1 .. Len(chunks[i]) : s[a[i - 1] + j] = chunks[i][j]
           T == [k \in 0 .. n |-> {s \in {h[k]} : Fits1(s, k)}]
<1>2. a \in [0 .. n -> Nat]
  OBVIOUS
<1>3. \A k \in 0 .. n : a[k] = Len(h[k])
  OBVIOUS
<1>4. ASSUME NEW k \in 1 .. n
      PROVE  /\ k - 1 \in 0 .. n /\ k \in 0 .. n /\ chunks[k] \in Seq(S) /\ Len(chunks[k]) \in Nat
             /\ h[k] = h[k - 1] \o chunks[k] /\ h[k - 1] \in Seq(S) /\ h[k] \in Seq(S)
             /\ a[k] = a[k - 1] + Len(chunks[k])
             /\ \A i \in 1 .. a[k - 1] : h[k][i] = h[k - 1][i]
             /\ \A i \in 1 .. Len(chunks[k]) : h[k][a[k - 1] + i] = chunks[k][i]
  <2>1. k - 1 \in 0 .. n /\ k \in 0 .. n
    OBVIOUS
  <2>2. PICK s \in Seq(S), c \in Seq(S) : s = h[k - 1] /\ c = chunks[k]
    BY <1>1, <2>1
  <2>3. h[k] = s \o c
    BY <1>1, <2>2
  <2>4. /\ s \o c \in Seq(S) /\ Len(s \o c) = Len(s) + Len(c)
        /\ \A i \in 1 .. Len(s) : (s \o c)[i] = s[i]
        /\ \A i \in 1 .. Len(c) : (s \o c)[Len(s) + i] = c[i]
    BY Appended
  <2>5. a[k] = Len(s \o c) /\ a[k - 1] = Len(s)
    BY <1>3, <2>1, <2>2, <2>3
  <2> QED
    BY <2>1, <2>2, <2>3, <2>4, <2>5
<1> HIDE DEF a
<1>5. h[0] \in T[0]
  OBVIOUS
<1>6. ASSUME NEW k \in 1 .. n, h[k - 1] \in T[k - 1] PROVE h[k] \in T[k]
  <2>1. Fits1(h[k - 1], k - 1)
    BY <1>4, <1>6
  <2>2. ASSUME NEW i \in 1 .. k
        PROVE  a[i] <= a[k] /\ \A j \in 1 .. Len(chunks[i]) : h[k][a[i - 1] + j] = chunks[i][j]
    <3>1. CASE i = k
      BY <1>2, <1>4, <3>1
    <3>2. CASE i # k
      <4>1. i \in 1 .. (k - 1) /\ i \in 1 .. n /\ i - 1 \in 0 .. n
        BY <3>2
      <4>2. a[i] <= a[k - 1] /\ \A j \in 1 .. Len(chunks[i]) : h[k - 1][a[i - 1] + j] = chunks[i][j]
        BY <2>1, <4>1
      <4>3. /\ a[i] = a[i - 1] + Len(chunks[i]) /\ a[i - 1] \in Nat /\ Len(chunks[i]) \in Nat
            /\ a[k] \in Nat /\ a[k - 1] \in Nat /\ a[i] \in Nat /\ a[k - 1] <= a[k]
        BY <1>2, <1>4, <4>1
      <4>6. a[i] <= a[k - 1] /\ a[i - 1] + Len(chunks[i]) <= a[k - 1]
        <5>1. a[i] <= a[k - 1]
          BY <4>2
        <5> QED
          BY <4>3, <5>1
      <4>4. ASSUME NEW j \in 1 .. Len(chunks[i]) PROVE h[k][a[i - 1] + j] = chunks[i][j]
        <5>1. \A x, l, y \in Nat : x + l <= y /\ j \in 1 .. l => x + j \in 1 .. y
          OBVIOUS
        <5>2. a[i - 1] + j \in 1 .. a[k - 1]
          BY <4>3, <4>6, <5>1
        <5> QED
          BY <1>4, <4>2, <5>2
      <4>5. a[i] <= a[k]
        <5>1. \A x, y, z \in Nat : x <= y /\ y <= z => x <= z
          OBVIOUS
        <5> QED
          BY <4>3, <4>6, <5>1
      <4> QED
        BY <4>4, <4>5
    <3> QED
      BY <3>1, <3>2
  <2> QED
    BY <1>4, <2>2
<1> HIDE DEF T
<1>7. h[n] \in T[n]
  <2>1. \A k \in 0 .. n : h[k] \in T[k]
    BY <1>5, <1>6, InOrder
  <2>2. n \in 0 .. n
    OBVIOUS
  <2> QED
    BY <2>1, <2>2, Zenon
<1>8. Fits1(h[n], n)
  BY <1>7 DEF T
<1>9. a[0] = 0
  BY <1>1, <1>3
<1>10. \A k \in 1 .. n : a[k] = a[k - 1] + Len(chunks[k])
  BY <1>4
<1>11. h[n] \in Seq(S) /\ Len(h[n]) = a[n]
  BY <1>1, <1>3
<1>12. Laid(h[n], chunks, a, n, S)
  BY <1>8, <1>9, <1>10, <1>11 DEF Laid
<1> QED
  BY <1>1, <1>2, <1>12
(* What it returns for lists of one length.                                *)
Flat(s, chunks, k, w, S) ==
  s \in [1 .. k * w -> S] /\ \A i \in 1 .. k, j \in 1 .. w : s[(i - 1) * w + j] = chunks[i][j]

LEMMA Flattened ==
  ASSUME NEW S, NEW n \in Nat, NEW w \in Nat \ {0}, NEW chunks \in [1 .. n -> [1 .. w -> S]]
  PROVE  Flat(FlattenSeq(chunks), chunks, n, w, S)
<1>1. chunks \in [1 .. n -> Seq(S)] /\ \A k \in 1 .. n : Len(chunks[k]) = w
  <2>1. ASSUME NEW k \in 1 .. n PROVE chunks[k] \in Seq(S) /\ Len(chunks[k]) = w
    BY IsList
  <2> QED
    BY <2>1
<1>2. PICK s, a : s = FlattenSeq(chunks) /\ a \in [0 .. n -> Nat] /\ Laid(s, chunks, a, n, S)
  BY <1>1, FlatList
<1> DEFINE U == [k \in 0 .. n |-> {k * w}]
<1>3. \A k \in 0 .. n : a[k] = k * w
  <2>1. a[0] \in U[0]
    BY <1>2 DEF Laid
  <2>2. ASSUME NEW k \in 1 .. n, a[k - 1] \in U[k - 1] PROVE a[k] \in U[k]
    <3>1. a[k] = a[k - 1] + w
      BY <1>1, <1>2 DEF Laid
    <3>2. a[k - 1] = (k - 1) * w /\ (k - 1) * w + w = k * w
      BY <2>2
    <3> QED
      BY <3>1, <3>2
  <2>3. \A k \in 0 .. n : a[k] \in U[k]
    <3> HIDE DEF U
    <3> QED
      BY <2>1, <2>2, InOrder
  <2> QED
    BY <2>3
<1>4. s \in [1 .. n * w -> S]
  <2>1. s \in Seq(S) /\ Len(s) = n * w
    BY <1>2, <1>3 DEF Laid
  <2> QED
    BY <2>1, LengthOfList
<1>5. ASSUME NEW i \in 1 .. n, NEW j \in 1 .. w PROVE s[(i - 1) * w + j] = chunks[i][j]
  <2>1. a[i - 1] = (i - 1) * w
    BY <1>3
  <2> QED
    BY <1>1, <1>2, <2>1 DEF Laid
<1> QED
  BY <1>2, <1>4, <1>5 DEF Flat

(* A piece of a flat list is the list it came from.                        *)
LEMMA PieceOf ==
  ASSUME NEW n \in Nat, NEW w \in Nat \ {0}, NEW chunks \in [1 .. n -> [1 .. w -> Bytes]],
         NEW k \in 1 .. n
  PROVE  SubSeq(FlattenSeq(chunks), (k - 1) * w + 1, k * w) = chunks[k]
<1>1. PICK s : s = FlattenSeq(chunks) /\ Flat(s, chunks, n, w, Bytes)
  BY Flattened
<1>2. PICK a \in Nat : a = (k - 1) * w /\ k * w = a + w
  <2>1. (k - 1) * w \in Nat /\ k * w = (k - 1) * w + w
    OBVIOUS
  <2> QED
    BY <2>1
<1>3. PICK N \in Nat : N = n * w
  OBVIOUS
<1>4. s \in Seq(Bytes) /\ Len(s) = N
  BY <1>1, <1>3, IsList DEF Flat
<1>5. \A j \in 1 .. w : a + j \in 1 .. N /\ s[a + j] = chunks[k][j]
  BY <1>1, <1>2, <1>3, PlaceInRange DEF Flat
<1>6. SubSeq(s, a + 1, a + w) = [j \in 1 .. w |-> s[a + j]]
  BY <1>4, <1>5
<1>7. chunks[k] = [j \in 1 .. w |-> chunks[k][j]]
  OBVIOUS
<1> QED
  BY <1>1, <1>2, <1>5, <1>6, <1>7
-----------------------------------------------------------------------------
(* Payloads.                                                               *)
Framed(payload, secret, n) ==
  /\ payload \in [1 .. 2 * n -> Bytes] /\ payload \in Seq(Bytes) /\ Len(payload) = 2 * n
  /\ LEN_BYTES + Len(secret) <= 2 * n
  /\ \A i \in 1 .. LEN_BYTES : payload[i] = ToBytes(Len(secret), LEN_BYTES)[i]
  /\ \A i \in 1 .. Len(secret) : payload[LEN_BYTES + i] = secret[i]

LEMMA PayloadFramed ==
  ASSUME NEW secret \in Seq(Bytes), Len(secret) \in 1 .. MAX_SECRET_BYTES
  PROVE  \E n \in Nat \ {0} : Framed(Payload(secret), secret, n)
<1>1. LEN_BYTES \in Nat /\ LEN_BYTES \in 0 .. LEN_BYTES + EVAL_BYTES /\ 0 \in Bytes
  BY WidthAssumption DEF Bytes
<1>2. PICK m \in Nat : m = Len(secret) /\ m > 0
  BY WidthAssumption
<1>3. PICK prefix \in [1 .. LEN_BYTES -> Bytes] : prefix = ToBytes(Len(secret), LEN_BYTES)
  BY <1>1, <1>2, ToBytesTyped
<1>4. prefix \in Seq(Bytes) /\ Len(prefix) = LEN_BYTES
  BY <1>1, <1>3, IsList
<1>5. PICK bytes \in Seq(Bytes) :
        /\ bytes = prefix \o secret /\ Len(bytes) = LEN_BYTES + m
        /\ \A i \in 1 .. LEN_BYTES : bytes[i] = prefix[i]
        /\ \A i \in 1 .. m : bytes[LEN_BYTES + i] = secret[i]
  <2>1. /\ prefix \o secret \in Seq(Bytes) /\ Len(prefix \o secret) = Len(prefix) + Len(secret)
        /\ \A i \in 1 .. Len(prefix) : (prefix \o secret)[i] = prefix[i]
        /\ \A i \in 1 .. Len(secret) : (prefix \o secret)[Len(prefix) + i] = secret[i]
    <3>1. PICK s \in Seq(Bytes), t \in Seq(Bytes) : s = prefix /\ t = secret
      BY <1>4
    <3>2. /\ s \o t \in Seq(Bytes) /\ Len(s \o t) = Len(s) + Len(t)
          /\ \A i \in 1 .. Len(s) : (s \o t)[i] = s[i]
          /\ \A i \in 1 .. Len(t) : (s \o t)[Len(s) + i] = t[i]
      BY Appended
    <3> QED
      BY <3>1, <3>2
  <2> QED
    BY <1>2, <1>4, <2>1
<1>6. Payload(secret) = IF Len(bytes) % 2 = 0 THEN bytes ELSE Append(bytes, 0)
  BY <1>3, <1>5 DEF Payload, LIMB_BYTES
<1>7. PICK N \in Nat : N = LEN_BYTES + m /\ N > 0
  BY <1>1, <1>2
<1>8. ASSUME NEW p \in Seq(Bytes), NEW n \in Nat, n # 0, Len(p) = 2 * n, N <= 2 * n,
             \A i \in 1 .. N : p[i] = bytes[i]
      PROVE  Framed(p, secret, n)
  <2>1. p \in [1 .. 2 * n -> Bytes]
    BY <1>8, LengthOfList
  <2>2. ASSUME NEW i \in 1 .. LEN_BYTES PROVE p[i] = prefix[i]
    <3>1. i \in 1 .. N
      BY <1>1, <1>2, <1>7
    <3> QED
      BY <1>5, <1>8, <3>1
  <2>3. ASSUME NEW i \in 1 .. m PROVE p[LEN_BYTES + i] = secret[i]
    <3>1. LEN_BYTES + i \in 1 .. N
      BY <1>1, <1>7
    <3> QED
      BY <1>5, <1>8, <3>1
  <2> QED
    BY <1>2, <1>3, <1>7, <1>8, <2>1, <2>2, <2>3 DEF Framed
<1>9. CASE N % 2 = 0
  <2>1. PICK n \in Nat : N = 2 * n /\ n # 0
    BY <1>7, <1>9
  <2>2. Payload(secret) = bytes
    BY <1>5, <1>6, <1>7, <1>9
  <2>3. Framed(bytes, secret, n)
    <3>1. Len(bytes) = 2 * n /\ N <= 2 * n
      <4>1. Len(bytes) = N
        BY <1>5, <1>7
      <4> QED
        BY <2>1, <4>1
    <3>2. \A i \in 1 .. N : bytes[i] = bytes[i]
      OBVIOUS
    <3> QED
      BY <1>5, <1>8, <2>1, <3>1, <3>2
  <2> QED
    BY <2>1, <2>2, <2>3
<1>10. CASE N % 2 # 0
  <2>1. PICK n \in Nat : N + 1 = 2 * n /\ n # 0
    <3>1. \A a \in Nat : a \div 2 \in Nat /\ (a % 2 # 0 => a + 1 = 2 * (a \div 2 + 1))
      OBVIOUS
    <3>2. PICK h \in Nat : N + 1 = 2 * (h + 1)
      BY <1>7, <1>10, <3>1
    <3>3. h + 1 \in Nat /\ h + 1 # 0
      OBVIOUS
    <3> QED
      BY <3>2, <3>3
  <2>2. Payload(secret) = Append(bytes, 0)
    BY <1>5, <1>6, <1>7, <1>10
  <2>3. PICK p \in Seq(Bytes) : p = Append(bytes, 0) /\ Len(p) = N + 1 /\ \A i \in 1 .. N : p[i] = bytes[i]
    <3>1. \A s \in Seq(Bytes), b \in Bytes :
            Append(s, b) \in Seq(Bytes) /\ Len(Append(s, b)) = Len(s) + 1 /\ \A i \in 1 .. Len(s) : Append(s, b)[i] = s[i]
      OBVIOUS
    <3>2. Len(bytes) = N
      BY <1>5, <1>7
    <3> QED
      BY <1>1, <3>1, <3>2
  <2>4. Framed(p, secret, n)
    <3>1. Len(p) = 2 * n /\ N <= 2 * n
      BY <1>7, <2>1, <2>3
    <3> QED
      BY <1>8, <2>1, <2>3, <3>1
  <2> QED
    BY <2>1, <2>2, <2>3, <2>4
<1> QED
  BY <1>9, <1>10

(* A framed secret is found again.                                         *)
LEMMA SecretFound ==
  ASSUME NEW secret \in Seq(Bytes), Len(secret) \in 1 .. MAX_SECRET_BYTES,
         NEW n \in Nat \ {0}, NEW payload, Framed(payload, secret, n)
  PROVE  SecretIn(payload) = Ok(secret)
<1>1. LEN_BYTES \in Nat /\ LEN_BYTES \in 0 .. LEN_BYTES + EVAL_BYTES /\ MAX_SECRET_BYTES \in Nat
  BY WidthAssumption
<1>2. PICK m \in Nat : m = Len(secret) /\ m > 0 /\ m <= MAX_SECRET_BYTES
  BY <1>1
<1>3. PICK prefix \in [1 .. LEN_BYTES -> Bytes] : prefix = ToBytes(m, LEN_BYTES)
  BY <1>1, ToBytesTyped
<1>4. PICK N \in Nat : N = 2 * n /\ N > 0
  OBVIOUS
<1>5. /\ payload \in [1 .. N -> Bytes] /\ payload \in Seq(Bytes) /\ Len(payload) = N /\ LEN_BYTES + m <= N
      /\ \A i \in 1 .. LEN_BYTES : payload[i] = prefix[i]
      /\ \A i \in 1 .. m : payload[LEN_BYTES + i] = secret[i]
  BY <1>2, <1>3, <1>4 DEF Framed
<1>6. FromBytes(SubSeq(payload, 1, LEN_BYTES)) = m
  <2>1. SubSeq(payload, 1, LEN_BYTES) = [i \in 1 .. LEN_BYTES |-> payload[i]]
    BY <1>1, <1>5
  <2>2. prefix = [i \in 1 .. LEN_BYTES |-> prefix[i]]
    BY <1>3
  <2>3. SubSeq(payload, 1, LEN_BYTES) = prefix
    BY <1>5, <2>1, <2>2
  <2>4. m < Base ^ LEN_BYTES
    <3>1. PICK P \in Nat : P = Pow(LEN_BYTES)
      BY <1>1, BasePowers DEF Width
    <3>2. MAX_SECRET_BYTES < P
      BY <3>1, WidthAssumption DEF Pow
    <3> QED
      BY <1>1, <1>2, <3>1, <3>2 DEF Pow
  <2> QED
    BY <1>1, <1>3, <2>3, <2>4, RoundTrip
<1>7. SubSeq(payload, LEN_BYTES + 1, LEN_BYTES + m) = secret
  <2>1. SubSeq(payload, LEN_BYTES + 1, LEN_BYTES + m) = [i \in 1 .. m |-> payload[LEN_BYTES + i]]
    BY <1>1, <1>5
  <2>2. secret = [i \in 1 .. m |-> secret[i]]
    BY <1>2
  <2> QED
    BY <1>5, <2>1, <2>2
<1>8. ~ (Len(payload) < LEN_BYTES \/ m = 0 \/ LEN_BYTES + m > Len(payload))
  BY <1>1, <1>2, <1>5
<1> QED
  BY <1>6, <1>7, <1>8 DEF SecretIn
-----------------------------------------------------------------------------
(* Limbs.                                                                  *)
LimbField == 0 .. Base * Base - 1

LEMMA LimbOfPair ==
  ASSUME NEW a \in Bytes, NEW b \in Bytes
  PROVE  /\ a + Base * b \in LimbField
         /\ (a + Base * b) % Base = a /\ ((a + Base * b) \div Base) % Base = b
<1>1. PICK B \in Nat \ {0} : B = Base /\ B > 1 /\ a \in 0 .. B - 1 /\ b \in 0 .. B - 1
  BY WidthAssumption DEF Bytes
<1>2. PICK u \in Nat, v \in Nat, s \in Nat : u = B * b /\ v = B * B /\ s = a + u
  BY <1>1
<1>3. u <= v - B
  <2>1. B * b <= B * (B - 1) /\ B * (B - 1) = B * B - B
    BY <1>1
  <2> QED
    BY <1>2, <2>1
<1>4. s \in 0 .. v - 1
  BY <1>1, <1>2, <1>3
<1>5. s \div B = b
  BY <1>1, <1>2, DivUnique
<1>6. s % B = a
  <2>1. \A x \in Nat, y \in Nat \ {0} : x = y * (x \div y) + (x % y) /\ x % y \in Nat
    OBVIOUS
  <2>2. s = B * b + (s % B) /\ s % B \in Nat
    BY <1>5, <2>1
  <2> QED
    BY <1>1, <1>2, <2>2
<1>7. b % B = b
  BY <1>1
<1> QED
  BY <1>1, <1>2, <1>4, <1>5, <1>6, <1>7 DEF LimbField

LEMMA LimbsAre ==
  ASSUME NEW n \in Nat, NEW payload \in [1 .. 2 * n -> Bytes], Len(payload) = 2 * n
  PROVE  /\ Limbs(payload) \in [1 .. n -> LimbField]
         /\ \A k \in 1 .. n : /\ 2 * k - 1 \in 1 .. 2 * n /\ 2 * k \in 1 .. 2 * n
                              /\ Limbs(payload)[k] = payload[2 * k - 1] + Base * payload[2 * k]
<1>1. (2 * n) \div 2 = n
  OBVIOUS
<1>2. Limbs(payload) = [k \in 1 .. n |-> payload[2 * k - 1] + Base * payload[2 * k]]
  BY <1>1 DEF Limbs, LIMB_BYTES
<1>3. ASSUME NEW k \in 1 .. n
      PROVE  /\ 2 * k - 1 \in 1 .. 2 * n /\ 2 * k \in 1 .. 2 * n
             /\ payload[2 * k - 1] + Base * payload[2 * k] \in LimbField
  <2>1. 2 * k - 1 \in 1 .. 2 * n /\ 2 * k \in 1 .. 2 * n
    OBVIOUS
  <2>2. payload[2 * k - 1] \in Bytes /\ payload[2 * k] \in Bytes
    BY <2>1
  <2> QED
    BY <2>1, <2>2, LimbOfPair
<1> QED
  BY <1>2, <1>3

(* The pairs of bytes of the limbs, one after the other, are the payload.  *)
LEMMA PairsOfLimbs ==
  ASSUME NEW n \in Nat, NEW payload \in [1 .. 2 * n -> Bytes], Len(payload) = 2 * n
  PROVE  FlattenSeq([k \in 1 .. n |-> <<Limbs(payload)[k] % Base, (Limbs(payload)[k] \div Base) % Base>>])
           = payload
<1> DEFINE chunks == [k \in 1 .. n |-> <<Limbs(payload)[k] % Base, (Limbs(payload)[k] \div Base) % Base>>]
<1>1. ASSUME NEW k \in 1 .. n
      PROVE  /\ chunks[k] \in [1 .. 2 -> Bytes] /\ chunks[k][1] = payload[2 * k - 1] /\ chunks[k][2] = payload[2 * k]
  <2>1. PICK a \in Bytes, b \in Bytes : a = payload[2 * k - 1] /\ b = payload[2 * k]
    BY LimbsAre
  <2>2. Limbs(payload)[k] = a + Base * b
    BY <2>1, LimbsAre
  <2>3. chunks[k] = <<a, b>>
    BY <2>2, LimbOfPair
  <2> HIDE DEF chunks
  <2> QED
    BY <2>1, <2>3
<1>2. PICK c \in [1 .. n -> [1 .. 2 -> Bytes]] : c = chunks
  BY <1>1
<1> HIDE DEF chunks
<1>3. PICK f : f = FlattenSeq(c) /\ Flat(f, c, n, 2, Bytes)
  <2>1. PICK w \in Nat \ {0} : w = 2
    OBVIOUS
  <2>2. c \in [1 .. n -> [1 .. w -> Bytes]]
    BY <2>1
  <2>3. Flat(FlattenSeq(c), c, n, w, Bytes)
    BY <2>2, Flattened
  <2> QED
    BY <2>1, <2>3
<1>4. ASSUME NEW x \in 1 .. 2 * n PROVE f[x] = payload[x]
  <2>1. PICK k \in 1 .. n, j \in 1 .. 2 : x = (k - 1) * 2 + j
    <3>1. PICK w \in Nat \ {0} : w = 2
      OBVIOUS
    <3>2. x \in 1 .. n * w
      BY <3>1
    <3>3. \E k \in 1 .. n, j \in 1 .. w : x = (k - 1) * w + j
      BY <3>2, PlaceOf
    <3> QED
      BY <3>1, <3>3
  <2>2. f[(k - 1) * 2 + j] = c[k][j]
    BY <1>3 DEF Flat
  <2>3. CASE j = 1
    <3>1. x = 2 * k - 1
      BY <2>1, <2>3
    <3> QED
      BY <1>1, <1>2, <2>1, <2>2, <2>3, <3>1
  <2>4. CASE j = 2
    <3>1. x = 2 * k
      BY <2>1, <2>4
    <3> QED
      BY <1>1, <1>2, <2>1, <2>2, <2>4, <3>1
  <2> QED
    BY <2>3, <2>4
<1>5. f \in [1 .. 2 * n -> Bytes]
  <2>1. n * 2 = 2 * n
    OBVIOUS
  <2> QED
    BY <1>3, <2>1 DEF Flat
<1> QED
  BY <1>2, <1>3, <1>4, <1>5 DEF chunks
-----------------------------------------------------------------------------
(* Share values.                                                           *)
Shareable(secret, nonce, n) ==
  /\ Framed(Payload(secret), secret, n)
  /\ \A k \in 1 .. n, i \in 1 .. THRESHOLD_K - 1 : CoeffOf(derive_coeff_key(secret, nonce), k, i) \in Nat

LEMMA CoefficientsAre ==
  ASSUME NEW secret, NEW nonce, NEW n \in Nat \ {0}, Shareable(secret, nonce, n), NEW k \in 1 .. n
  PROVE  /\ Coefficients(secret, nonce, k) \in [1 .. THRESHOLD_K -> Int]
         /\ Coefficients(secret, nonce, k)[1] = Limbs(Payload(secret))[k] % MODULUS_Q
<1>1. PICK b : b = Limbs(Payload(secret))[k] % MODULUS_Q
  OBVIOUS
<1>2. b \in Nat
  <2>1. Limbs(Payload(secret))[k] \in LimbField
    BY LimbsAre DEF Shareable, Framed
  <2>2. PICK x \in Nat : x = Limbs(Payload(secret))[k]
    BY <2>1, WidthAssumption DEF LimbField
  <2>3. x % MODULUS_Q \in Nat
    BY FieldIsLarge
  <2> QED
    BY <1>1, <2>2, <2>3
<1>3. PICK t : t = [i \in 1 .. THRESHOLD_K - 1 |-> CoeffOf(derive_coeff_key(secret, nonce), k, i)]
  OBVIOUS
<1>4. t \in [1 .. 2 -> Int] /\ THRESHOLD_K - 1 = 2
  <2>1. THRESHOLD_K - 1 = 2
    BY ShapeAssumption
  <2>2. \A i \in 1 .. 2 : CoeffOf(derive_coeff_key(secret, nonce), k, i) \in Int
    BY <2>1 DEF Shareable
  <2> QED
    BY <1>3, <2>1, <2>2
<1>5. PICK r \in Seq(Int) : r = t /\ Len(r) = 2
  <2>1. \A f \in [1 .. 2 -> Int] : f \in Seq(Int) /\ Len(f) = 2
    BY IsList
  <2> QED
    BY <1>4, <2>1
<1>6. PICK c \in Seq(Int) : c = <<b>> \o t /\ Len(c) = 3 /\ c[1] = b
  <2>1. PICK s \in Seq(Int) : s = <<b>> /\ Len(s) = 1 /\ s[1] = b
    <3>1. PICK v \in Int : v = b
      BY <1>2
    <3>2. <<v>> \in Seq(Int) /\ Len(<<v>>) = 1 /\ <<v>>[1] = v
      OBVIOUS
    <3> QED
      BY <3>1, <3>2
  <2>2. s \o r \in Seq(Int) /\ Len(s \o r) = Len(s) + Len(r) /\ \A i \in 1 .. Len(s) : (s \o r)[i] = s[i]
    BY Appended
  <2>3. PICK c \in Seq(Int) : c = s \o r
    BY <2>2
  <2>4. Len(c) = 3 /\ c[1] = b
    BY <1>5, <2>1, <2>2, <2>3
  <2> QED
    BY <1>5, <2>1, <2>3, <2>4
<1>7. Coefficients(secret, nonce, k) = c
  BY <1>1, <1>3, <1>6 DEF Coefficients
<1>8. c \in [1 .. 3 -> Int]
  BY <1>6, LengthOfList
<1> QED
  BY <1>1, <1>6, <1>7, <1>8, ShapeAssumption

(* A share has the evaluations one after the other, and each can be read.  *)
LEMMA ShareValueIs ==
  ASSUME NEW secret, NEW nonce, NEW n \in Nat \ {0}, Shareable(secret, nonce, n), NEW x \in Int
  PROVE  /\ ShareValue(secret, nonce, x) \in Seq(Bytes)
         /\ Len(ShareValue(secret, nonce, x)) = n * EVAL_BYTES
         /\ \A k \in 1 .. n :
              FromBytes(SubSeq(ShareValue(secret, nonce, x), (k - 1) * EVAL_BYTES + 1, k * EVAL_BYTES))
                = Evaluate(Coefficients(secret, nonce, k), x)
<1> DEFINE w == EVAL_BYTES
           chunks == [k \in 1 .. n |-> ToBytes(Evaluate(Coefficients(secret, nonce, k), x), w)]
<1>1. w \in Nat \ {0} /\ w \in 0 .. LEN_BYTES + EVAL_BYTES
  BY WidthAssumption
<1>2. DOMAIN Limbs(Payload(secret)) = 1 .. n
  BY LimbsAre DEF Shareable, Framed
<1>3. ShareValue(secret, nonce, x) = FlattenSeq(chunks)
  BY <1>2 DEF ShareValue
<1>4. ASSUME NEW k \in 1 .. n
      PROVE  /\ Evaluate(Coefficients(secret, nonce, k), x) \in Nat
             /\ Evaluate(Coefficients(secret, nonce, k), x) < Base ^ w
  <2>1. PICK c \in Vec(3) : c = Coefficients(secret, nonce, k)
    BY CoefficientsAre, ShapeAssumption DEF Vec
  <2>2. Evaluate(c, x) \in Field
    BY EvaluateIs
  <2>3. PICK P \in Nat : P = Base ^ w
    BY <1>1, BasePowers DEF Width, Pow
  <2>4. MODULUS_Q <= P /\ MODULUS_Q \in Nat
    BY <2>3, WidthAssumption, FieldIsLarge
  <2> QED
    BY <2>1, <2>2, <2>3, <2>4 DEF Field
<1>5. ASSUME NEW k \in 1 .. n
      PROVE  chunks[k] \in [1 .. w -> Bytes] /\ FromBytes(chunks[k]) = Evaluate(Coefficients(secret, nonce, k), x)
  <2>1. PICK v \in Nat : v = Evaluate(Coefficients(secret, nonce, k), x) /\ v < Base ^ w
    BY <1>4
  <2>2. ToBytes(v, w) \in [1 .. w -> Bytes] /\ FromBytes(ToBytes(v, w)) = v
    BY <1>1, <2>1, ToBytesTyped, RoundTrip
  <2> QED
    BY <2>1, <2>2
<1>6. PICK c \in [1 .. n -> [1 .. w -> Bytes]] : c = chunks
  BY <1>5
<1> HIDE DEF w
<1>7. PICK f : f = FlattenSeq(c) /\ Flat(f, c, n, w, Bytes)
  <2>1. Flat(FlattenSeq(c), c, n, w, Bytes)
    BY <1>1, Flattened
  <2> QED
    BY <2>1
<1>8. f \in Seq(Bytes) /\ Len(f) = n * w
  <2>1. n * w \in Nat
    BY <1>1
  <2> QED
    BY <1>7, <2>1, IsList DEF Flat
<1>9. ASSUME NEW k \in 1 .. n PROVE SubSeq(f, (k - 1) * w + 1, k * w) = c[k]
  <2>1. SubSeq(FlattenSeq(c), (k - 1) * w + 1, k * w) = c[k]
    <3>1. n \in Nat /\ w \in Nat \ {0}
      BY <1>1
    <3> QED
      BY <3>1, PieceOf
  <2> QED
    BY <1>7, <2>1
<1> HIDE DEF chunks
<1>10. f = ShareValue(secret, nonce, x)
  BY <1>3, <1>6, <1>7
<1>11. \A k \in 1 .. n : FromBytes(c[k]) = Evaluate(Coefficients(secret, nonce, k), x)
  BY <1>5, <1>6
<1> QED
  BY <1>8, <1>9, <1>10, <1>11 DEF w
-----------------------------------------------------------------------------
(* Lists of shares of one secret.                                          *)
Shares(shares, m, secret, nonce) ==
  /\ DOMAIN shares = 1 .. m /\ THRESHOLD_K <= m
  /\ \A i \in 1 .. m : /\ shares[i].index \in Indices
                       /\ shares[i].value = ShareValue(secret, nonce, shares[i].index)
  /\ \A i, j \in 1 .. m : i # j => shares[i].index # shares[j].index

LEMMA LimbRead ==
  ASSUME NEW secret, NEW nonce, NEW n \in Nat \ {0}, Shareable(secret, nonce, n),
         NEW m \in Nat, NEW shares, Shares(shares, m, secret, nonce), NEW k \in 1 .. n
  PROVE  LimbOf(shares, k) = Limbs(Payload(secret))[k]
<1> DEFINE x == [i \in 1 .. m |-> shares[i].index]
           points == [i \in 1 .. m |-> <<x[i], Evaluate(Coefficients(secret, nonce, k), x[i])>>]
<1>1. x \in [1 .. m -> Indices] /\ \A i, j \in 1 .. m : i # j => x[i] # x[j]
  BY DEF Shares
<1>2. Indices \subseteq Int
  BY DEF Indices
<1>3. LimbOf(shares, k) = reconstruct_secret(points)
  <2>1. ASSUME NEW i \in 1 .. m
        PROVE  <<shares[i].index, FromBytes(SubSeq(shares[i].value, (k - 1) * EVAL_BYTES + 1, k * EVAL_BYTES))>>
                 = points[i]
    <3>1. PICK a \in Int : a = shares[i].index /\ x[i] = a
      BY <1>1, <1>2
    <3>2. FromBytes(SubSeq(ShareValue(secret, nonce, a), (k - 1) * EVAL_BYTES + 1, k * EVAL_BYTES))
            = Evaluate(Coefficients(secret, nonce, k), a)
      BY ShareValueIs
    <3>3. shares[i].value = ShareValue(secret, nonce, a)
      BY <3>1 DEF Shares
    <3>4. points[i] = <<a, Evaluate(Coefficients(secret, nonce, k), a)>>
      BY <3>1
    <3> HIDE DEF points, x
    <3> QED
      BY <3>1, <3>2, <3>3, <3>4
  <2>2. [i \in DOMAIN shares |->
           <<shares[i].index, FromBytes(SubSeq(shares[i].value, (k - 1) * EVAL_BYTES + 1, k * EVAL_BYTES))>>]
          = points
    <3>1. points = [i \in 1 .. m |-> points[i]]
      OBVIOUS
    <3>2. DOMAIN shares = 1 .. m
      BY DEF Shares
    <3> HIDE DEF points
    <3> QED
      BY <2>1, <3>1, <3>2
  <2> HIDE DEF points
  <2> QED
    BY <2>2 DEF LimbOf
<1>4. PICK c \in [1 .. THRESHOLD_K -> Int] :
        c = Coefficients(secret, nonce, k) /\ c[1] = Limbs(Payload(secret))[k] % MODULUS_Q
  BY CoefficientsAre
<1>5. \A i \in 1 .. m : points[i] = <<x[i], Evaluate(c, x[i])>> /\ x[i] \in Int /\ Evaluate(c, x[i]) \in Int
  <2> SUFFICES ASSUME NEW i \in 1 .. m
               PROVE  points[i] = <<x[i], Evaluate(c, x[i])>> /\ x[i] \in Int /\ Evaluate(c, x[i]) \in Int
    OBVIOUS
  <2>1. PICK a \in Int : a = x[i]
    BY <1>1, <1>2
  <2>2. Evaluate(c, a) \in Field
    BY EvaluateIs, ShapeAssumption DEF Vec
  <2>3. Evaluate(c, a) \in Int
    BY <2>2 DEF Field
  <2> HIDE DEF x
  <2> QED
    BY <1>4, <2>1, <2>3
<1> HIDE DEF x
<1>6. points = [i \in 1 .. m |-> points[i]]
  OBVIOUS
<1> HIDE DEF points
<1>7. points \in [1 .. m -> Int \X Int] /\ \A i \in 1 .. m : points[i][1] = x[i] /\ points[i][2] = Evaluate(c, points[i][1])
  <2>1. ASSUME NEW i \in 1 .. m
        PROVE  points[i] \in Int \X Int /\ points[i][1] = x[i] /\ points[i][2] = Evaluate(c, x[i])
    <3>1. PICK a \in Int, b \in Int : a = x[i] /\ b = Evaluate(c, x[i]) /\ points[i] = <<a, b>>
      BY <1>5
    <3> QED
      BY <3>1
  <2>2. points \in [1 .. m -> Int \X Int]
    BY <1>6, <2>1
  <2>3. \A i \in 1 .. m : points[i][2] = Evaluate(c, points[i][1])
    <3> SUFFICES ASSUME NEW i \in 1 .. m PROVE points[i][2] = Evaluate(c, points[i][1])
      OBVIOUS
    <3> QED
      BY <2>1, Zenon
  <2> QED
    BY <2>1, <2>2, <2>3
<1>8. ASSUME NEW i \in 1 .. m, NEW j \in 1 .. m, i # j
      PROVE  ~ Cong(points[i][1], points[j][1], MODULUS_Q)
  <2>1. x[i] \in Indices /\ x[j] \in Indices \cup {0} /\ x[i] # x[j]
    BY <1>1, <1>8
  <2>2. ~ Cong(x[i], x[j], MODULUS_Q)
    BY <2>1, IndicesApart
  <2> QED
    BY <1>7, <2>2
<1>9. reconstruct_secret(points) = c[1] % MODULUS_Q
  <2>1. THRESHOLD_K \in Nat \ {0} /\ m >= THRESHOLD_K
    BY ShapeAssumption DEF Shares
  <2>2. points \in [1 .. m -> Int \X Int] /\ \A i \in 1 .. m : points[i][2] = Evaluate(c, points[i][1])
    BY <1>7
  <2>3. \A i, j \in 1 .. m : i # j => ~ Cong(points[i][1], points[j][1], MODULUS_Q)
    BY <1>8, Zenon
  <2> QED
    BY <2>1, <2>2, <2>3, InterpolationExact
<1>10. (Limbs(Payload(secret))[k] % MODULUS_Q) % MODULUS_Q = Limbs(Payload(secret))[k]
  <2>1. Limbs(Payload(secret))[k] \in LimbField
    <3>1. PICK payload \in [1 .. 2 * n -> Bytes] : payload = Payload(secret) /\ Len(payload) = 2 * n
      BY DEF Shareable, Framed
    <3>2. Limbs(payload) \in [1 .. n -> LimbField]
      BY <3>1, LimbsAre
    <3> QED
      BY <3>1, <3>2
  <2>2. PICK l \in Nat, q \in Nat : l = Limbs(Payload(secret))[k] /\ q = MODULUS_Q /\ l < q
    <3>1. PICK b \in Nat : b = Base * Base /\ b <= MODULUS_Q
      BY WidthAssumption
    <3> QED
      BY <2>1, <3>1, FieldIsLarge DEF LimbField
  <2>3. l % q = l
    BY <2>2
  <2> QED
    BY <2>2, <2>3
<1> QED
  BY <1>3, <1>4, <1>9, <1>10

LEMMA InterpolatedIs ==
  ASSUME NEW secret, NEW nonce, NEW n \in Nat \ {0}, Shareable(secret, nonce, n),
         NEW m \in Nat, NEW shares, Shares(shares, m, secret, nonce)
  PROVE  Interpolated(shares) = Ok(Payload(secret))
<1> DEFINE w == EVAL_BYTES
           limb == [k \in 1 .. Len(shares[1].value) \div w |-> LimbOf(shares, k)]
           payload == Payload(secret)
<1>1. w \in Nat \ {0} /\ 1 \in 1 .. m
  BY WidthAssumption, ShapeAssumption DEF Shares
<1>2. Len(shares[1].value) = n * w
  <2>1. PICK a \in Int : a = shares[1].index /\ shares[1].value = ShareValue(secret, nonce, a)
    BY <1>1 DEF Shares, Indices
  <2> QED
    BY <2>1, ShareValueIs
<1>3. (n * w) \div w = n
  <2>1. n * w = w * n + 0 /\ n * w \in Nat /\ 0 < w
    BY <1>1
  <2> HIDE DEF w
  <2> QED
    BY <1>1, <2>1, DivUnique
<1>4. limb = [k \in 1 .. n |-> Limbs(payload)[k]]
  BY <1>2, <1>3, LimbRead
<1>5. payload \in [1 .. 2 * n -> Bytes] /\ Len(payload) = 2 * n
  BY DEF Shareable, Framed
<1>6. \A k \in 1 .. n : Limbs(payload)[k] # NoInverse
  <2> SUFFICES ASSUME NEW k \in 1 .. n PROVE Limbs(payload)[k] # NoInverse
    OBVIOUS
  <2>1. Limbs(payload)[k] \in LimbField
    BY <1>5, LimbsAre
  <2>2. PICK b \in Nat : b = Base * Base
    BY WidthAssumption
  <2> QED
    BY <2>1, <2>2 DEF LimbField, NoInverse
<1> HIDE DEF payload
<1>7. FlattenSeq([k \in 1 .. n |-> <<Limbs(payload)[k] % Base, (Limbs(payload)[k] \div Base) % Base>>]) = payload
  BY <1>5, PairsOfLimbs
<1>8. DOMAIN limb = 1 .. n /\ \A k \in 1 .. n : limb[k] = Limbs(payload)[k]
  BY <1>4
<1>9. Interpolated(shares) = IF \E k \in DOMAIN limb : limb[k] = NoInverse THEN Err("InvalidShareSet")
        ELSE Ok(FlattenSeq([k \in DOMAIN limb |-> <<limb[k] % Base, (limb[k] \div Base) % Base>>]))
  BY DEF Interpolated
<1> HIDE DEF limb
<1>10. [k \in DOMAIN limb |-> <<limb[k] % Base, (limb[k] \div Base) % Base>>]
         = [k \in 1 .. n |-> <<Limbs(payload)[k] % Base, (Limbs(payload)[k] \div Base) % Base>>]
  BY <1>8
<1>11. Interpolated(shares) = Ok(payload)
  BY <1>6, <1>7, <1>8, <1>9, <1>10
<1> QED
  BY <1>11 DEF payload
-----------------------------------------------------------------------------
(* The shares of a deal on a tray.                                         *)
LEMMA SplitShareable ==
  ASSUME NEW d \in Splittable
  PROVE  \E n \in Nat \ {0} : Shareable(d.secret, d.nonce, n)
<1>1. PICK n \in Nat \ {0} : Framed(Payload(d.secret), d.secret, n)
  BY SplitIs, PayloadFramed
<1>2. DOMAIN Limbs(Payload(d.secret)) = 1 .. n
  BY <1>1, LimbsAre DEF Framed
<1>3. \A k \in 1 .. n, i \in 1 .. THRESHOLD_K - 1 :
        CoeffOf(derive_coeff_key(d.secret, d.nonce), k, i) \in Nat
  BY <1>2, DealAssumption
<1> QED
  BY <1>1, <1>3 DEF Shareable

(* m distinct shares of d.                                                 *)
SharesOf(shares, m, d) ==
  /\ m \in THRESHOLD_K .. TOTAL_SHARES /\ DOMAIN shares = 1 .. m /\ Len(shares) = m
  /\ \A i \in 1 .. m : shares[i].index \in Indices /\ shares[i] = SplitOf[d].ok.shares[shares[i].index]
  /\ \A i, j \in 1 .. m : i # j => shares[i].index # shares[j].index

LEMMA SharesPass ==
  ASSUME NEW d \in Splittable, NEW m \in Nat, NEW shares, SharesOf(shares, m, d)
  PROVE  SetError(shares, SplitOf[d].ok.root) = "none"
<1>1. PICK n \in Nat \ {0} : Shareable(d.secret, d.nonce, n)
  BY SplitShareable
<1>2. PICK root : root = SplitOf[d].ok.root /\ root = Root(Leaves(d))
  BY SplitIs
<1>3. m \in 3 .. 5 /\ 1 \in 1 .. m /\ DOMAIN shares = 1 .. m /\ Len(shares) = m /\ Indices = 1 .. 5
  BY ShapeAssumption DEF SharesOf, Indices
<1>4. PICK w \in Nat \ {0}, W \in Nat : w = EVAL_BYTES /\ W = n * w /\ W # 0 /\ W % w = 0
  <2>1. PICK w \in Nat \ {0} : w = EVAL_BYTES
    BY WidthAssumption
  <2>2. n * w \in Nat /\ n * w # 0
    OBVIOUS
  <2>3. (n * w) % w = 0
    <3>1. n * w = w * n + 0 /\ 0 < w
      OBVIOUS
    <3>2. (n * w) \div w = n
      BY <2>2, <3>1, DivUnique
    <3>3. \A a \in Nat, b \in Nat \ {0} : a = b * (a \div b) + (a % b) /\ a % b \in Nat
      OBVIOUS
    <3>4. n * w = w * ((n * w) \div w) + ((n * w) % w) /\ (n * w) % w \in Nat
      BY <2>2, <3>3
    <3>5. PICK r \in Nat : r = (n * w) % w
      BY <3>4
    <3> QED
      BY <2>2, <3>1, <3>2, <3>4, <3>5
  <2> QED
    BY <2>1, <2>2, <2>3
<1>5. ASSUME NEW i \in 1 .. m
      PROVE  /\ Len(shares[i].value) = W /\ shares[i].index # 0
             /\ verify_share_in_tree(shares[i].index, shares[i].value, shares[i].path, root)
  <2>1. PICK x \in 1 .. 5 : x = shares[i].index
    BY <1>3 DEF SharesOf
  <2>2. shares[i] = SplitOf[d].ok.shares[x]
    BY <2>1 DEF SharesOf
  <2>3. SplitOf[d].ok.shares[x] = [index |-> x, value |-> ShareValue(d.secret, d.nonce, x), path |-> InclusionPath(Leaves(d), x)]
    BY SplitIs, ShapeAssumption
  <2>4. shares[i].value = ShareValue(d.secret, d.nonce, x) /\ shares[i].path = InclusionPath(Leaves(d), x)
    BY <2>2, <2>3
  <2>5. Len(shares[i].value) = W
    BY <1>1, <1>4, <2>4, ShareValueIs
  <2>6. Leaves(d)[x] = merkle_leaf_hash(x, ShareValue(d.secret, d.nonce, x))
    BY ShapeAssumption DEF Leaves
  <2>7. verify_share_in_tree(x, ShareValue(d.secret, d.nonce, x), InclusionPath(Leaves(d), x), Root(Leaves(d)))
    <3>1. merkle_proof_len(x) # 0
      BY DEF merkle_proof_len
    <3> QED
      BY <2>6, <3>1, PathInTree DEF verify_share_in_tree
  <2> QED
    BY <1>2, <2>1, <2>4, <2>5, <2>7
<1>6. ~ TooFew(shares) /\ ~ Len(shares) > TOTAL_SHARES
  BY <1>3, ShapeAssumption DEF TooFew
<1>7. ~ Malformed(shares)
  BY <1>3, <1>4, <1>5 DEF Malformed
<1>8. ~ Repeated(shares)
  BY <1>3 DEF Repeated, SharesOf
<1>9. AllInTree(shares, root)
  BY <1>3, <1>5 DEF AllInTree
<1> QED
  BY <1>2, <1>6, <1>7, <1>8, <1>9 DEF SetError

(* Three or more of them, in any order, give the secret.                   *)
LEMMA SharesReconstruct ==
  ASSUME NEW d \in Splittable, NEW m \in Nat, NEW shares, SharesOf(shares, m, d)
  PROVE  reconstruct_key_material(shares, SplitOf[d].ok.root) = Ok(d.secret)
<1>1. PICK n \in Nat \ {0} : Shareable(d.secret, d.nonce, n)
  BY SplitShareable
<1>2. Shares(shares, m, d.secret, d.nonce)
  <2>1. ASSUME NEW i \in 1 .. m
        PROVE  shares[i].index \in Indices /\ shares[i].value = ShareValue(d.secret, d.nonce, shares[i].index)
    <3>1. PICK x \in Indices : x = shares[i].index /\ shares[i] = SplitOf[d].ok.shares[x]
      BY DEF SharesOf
    <3>2. SplitOf[d].ok.shares[x] = [index |-> x, value |-> ShareValue(d.secret, d.nonce, x), path |-> InclusionPath(Leaves(d), x)]
      BY SplitIs DEF Indices
    <3>3. shares[i].value = ShareValue(d.secret, d.nonce, x)
      BY <3>1, <3>2
    <3> QED
      BY <3>1, <3>3
  <2> QED
    BY <2>1, ShapeAssumption DEF SharesOf, Shares
<1>3. Interpolated(shares) = Ok(Payload(d.secret))
  BY <1>1, <1>2, InterpolatedIs
<1>4. SecretIn(Payload(d.secret)) = Ok(d.secret)
  BY <1>1, SplitIs, SecretFound DEF Shareable
<1>5. IsOk(Ok(Payload(d.secret))) /\ Ok(Payload(d.secret)).ok = Payload(d.secret)
  BY DEF IsOk, Ok
<1> QED
  BY <1>3, <1>4, <1>5, SharesPass DEF reconstruct_key_material
-----------------------------------------------------------------------------
(* What a root determines.                                                 *)
LEMMA SameRoot ==
  ASSUME NEW l, NEW r, Root(l) = Root(r)
  PROVE  \A i \in 1 .. 5 : l[i] = r[i]
<1>1. /\ merkle_node_hash(merkle_node_hash(l[1], l[2]), merkle_node_hash(l[3], l[4]))
           = merkle_node_hash(merkle_node_hash(r[1], r[2]), merkle_node_hash(r[3], r[4]))
      /\ l[5] = r[5]
  BY NodeInjective DEF Root
<1>2. /\ merkle_node_hash(l[1], l[2]) = merkle_node_hash(r[1], r[2])
      /\ merkle_node_hash(l[3], l[4]) = merkle_node_hash(r[3], r[4])
  BY <1>1, NodeInjective
<1>3. l[1] = r[1] /\ l[2] = r[2] /\ l[3] = r[3] /\ l[4] = r[4]
  BY <1>2, NodeInjective
<1> QED
  BY <1>1, <1>3

(* One root belongs to one deal.                                           *)
LEMMA RootOfDeal ==
  ASSUME NEW d \in Splittable, NEW e \in Splittable, SplitOf[d].ok.root = SplitOf[e].ok.root
  PROVE  d = e
<1> DEFINE shares == [i \in 1 .. 3 |-> SplitOf[d].ok.shares[i]]
<1>1. Indices = 1 .. 5 /\ TOTAL_SHARES = 5 /\ THRESHOLD_K = 3
  BY ShapeAssumption DEF Indices
<1>2. Leaves(d) = Leaves(e)
  <2>1. Root(Leaves(d)) = Root(Leaves(e))
    BY SplitIs
  <2>2. \A i \in 1 .. 5 : Leaves(d)[i] = Leaves(e)[i]
    BY <2>1, SameRoot
  <2>3. Leaves(d) = [i \in 1 .. 5 |-> Leaves(d)[i]] /\ Leaves(e) = [i \in 1 .. 5 |-> Leaves(e)[i]]
    BY <1>1 DEF Leaves
  <2> QED
    BY <2>2, <2>3
<1>3. ASSUME NEW i \in 1 .. 3
      PROVE  /\ shares[i].index = i /\ shares[i] = SplitOf[d].ok.shares[i] /\ shares[i] = SplitOf[e].ok.shares[i]
  <2>1. i \in 1 .. TOTAL_SHARES
    BY <1>1
  <2>2. PICK v, w, p, r : v = ShareValue(d.secret, d.nonce, i) /\ w = ShareValue(e.secret, e.nonce, i)
                            /\ p = InclusionPath(Leaves(d), i) /\ r = InclusionPath(Leaves(e), i)
    OBVIOUS
  <2>3. SplitOf[d].ok.shares[i] = [index |-> i, value |-> v, path |-> p]
        /\ SplitOf[e].ok.shares[i] = [index |-> i, value |-> w, path |-> r]
    BY <2>1, <2>2, SplitIs
  <2>4. merkle_leaf_hash(i, v) = merkle_leaf_hash(i, w)
    <3>1. Leaves(d)[i] = merkle_leaf_hash(i, v) /\ Leaves(e)[i] = merkle_leaf_hash(i, w)
      BY <2>1, <2>2 DEF Leaves
    <3> QED
      BY <1>2, <3>1
  <2>5. v = w /\ p = r
    BY <1>2, <2>2, <2>4, LeafInjective
  <2> QED
    BY <2>3, <2>5
<1>4. DOMAIN shares = 1 .. 3 /\ Len(shares) = 3
  OBVIOUS
<1> HIDE DEF shares
<1>5. SharesOf(shares, 3, d) /\ SharesOf(shares, 3, e)
  <2>1. 3 \in THRESHOLD_K .. TOTAL_SHARES
    BY <1>1
  <2>2. \A i \in 1 .. 3 : shares[i].index \in Indices /\ shares[i] = SplitOf[d].ok.shares[shares[i].index]
    BY <1>1, <1>3
  <2>3. \A i \in 1 .. 3 : shares[i].index \in Indices /\ shares[i] = SplitOf[e].ok.shares[shares[i].index]
    BY <1>1, <1>3
  <2>4. \A i, j \in 1 .. 3 : i # j => shares[i].index # shares[j].index
    BY <1>3
  <2> QED
    BY <1>4, <2>1, <2>2, <2>3, <2>4 DEF SharesOf
<1>6. Ok(d.secret) = Ok(e.secret)
  <2>1. reconstruct_key_material(shares, SplitOf[d].ok.root) = Ok(d.secret)
    BY <1>5, SharesReconstruct
  <2>2. reconstruct_key_material(shares, SplitOf[e].ok.root) = Ok(e.secret)
    BY <1>5, SharesReconstruct
  <2> QED
    BY <2>1, <2>2
<1>7. d.secret = e.secret
  <2>1. Ok(d.secret).ok = d.secret /\ Ok(e.secret).ok = e.secret
    BY DEF Ok
  <2> QED
    BY <1>6, <2>1
<1> QED
  BY <1>7, DealAssumption

(* A share that verifies under the root of a deal is a share of that deal. *)
LEMMA PathOfTree ==
  ASSUME NEW index, NEW value, NEW path, path \in Seq(ToSet(path)), NEW leaves,
         verify_share_in_tree(index, value, path, Root(leaves))
  PROVE  path = InclusionPath(leaves, index)
<1>1. index \in 1 .. 5 /\ merkle_leaf_hash(index, value) = leaves[index]
  BY ShareInTree
<1>2. FoldPath(index, leaves[index], path) = Root(leaves) /\ Len(path) = merkle_proof_len(index)
  BY <1>1 DEF verify_share_in_tree
<1>3. ASSUME Len(path) = 3 PROVE path = <<path[1], path[2], path[3]>>
  BY <1>3
<1>4. ASSUME Len(path) = 1 PROVE path = <<path[1]>>
  BY <1>4
<1>5. ASSUME index = 1 PROVE path = InclusionPath(leaves, index)
  <2>1. merkle_node_hash(merkle_node_hash(merkle_node_hash(leaves[1], path[1]), path[2]), path[3]) = Root(leaves)
    BY <1>2, <1>5 DEF FoldPath
  <2>2. path[3] = leaves[5] /\ path[2] = merkle_node_hash(leaves[3], leaves[4]) /\ path[1] = leaves[2]
    BY <2>1, NodeInjective DEF Root
  <2>3. Len(path) = 3
    BY <1>2, <1>5 DEF merkle_proof_len
  <2>4. InclusionPath(leaves, index) = <<leaves[2], merkle_node_hash(leaves[3], leaves[4]), leaves[5]>>
    BY <1>5 DEF InclusionPath
  <2> QED
    BY <1>3, <2>2, <2>3, <2>4
<1>6. ASSUME index = 2 PROVE path = InclusionPath(leaves, index)
  <2>1. merkle_node_hash(merkle_node_hash(merkle_node_hash(path[1], leaves[2]), path[2]), path[3]) = Root(leaves)
    BY <1>2, <1>6 DEF FoldPath
  <2>2. path[3] = leaves[5] /\ path[2] = merkle_node_hash(leaves[3], leaves[4]) /\ path[1] = leaves[1]
    BY <2>1, NodeInjective DEF Root
  <2>3. Len(path) = 3
    BY <1>2, <1>6 DEF merkle_proof_len
  <2>4. InclusionPath(leaves, index) = <<leaves[1], merkle_node_hash(leaves[3], leaves[4]), leaves[5]>>
    BY <1>6 DEF InclusionPath
  <2> QED
    BY <1>3, <2>2, <2>3, <2>4
<1>7. ASSUME index = 3 PROVE path = InclusionPath(leaves, index)
  <2>1. merkle_node_hash(merkle_node_hash(path[2], merkle_node_hash(leaves[3], path[1])), path[3]) = Root(leaves)
    BY <1>2, <1>7 DEF FoldPath
  <2>2. path[3] = leaves[5] /\ path[2] = merkle_node_hash(leaves[1], leaves[2]) /\ path[1] = leaves[4]
    BY <2>1, NodeInjective DEF Root
  <2>3. Len(path) = 3
    BY <1>2, <1>7 DEF merkle_proof_len
  <2>4. InclusionPath(leaves, index) = <<leaves[4], merkle_node_hash(leaves[1], leaves[2]), leaves[5]>>
    BY <1>7 DEF InclusionPath
  <2> QED
    BY <1>3, <2>2, <2>3, <2>4
<1>8. ASSUME index = 4 PROVE path = InclusionPath(leaves, index)
  <2>1. merkle_node_hash(merkle_node_hash(path[2], merkle_node_hash(path[1], leaves[4])), path[3]) = Root(leaves)
    BY <1>2, <1>8 DEF FoldPath
  <2>2. path[3] = leaves[5] /\ path[2] = merkle_node_hash(leaves[1], leaves[2]) /\ path[1] = leaves[3]
    BY <2>1, NodeInjective DEF Root
  <2>3. Len(path) = 3
    BY <1>2, <1>8 DEF merkle_proof_len
  <2>4. InclusionPath(leaves, index) = <<leaves[3], merkle_node_hash(leaves[1], leaves[2]), leaves[5]>>
    BY <1>8 DEF InclusionPath
  <2> QED
    BY <1>3, <2>2, <2>3, <2>4
<1>9. ASSUME index = 5 PROVE path = InclusionPath(leaves, index)
  <2>1. merkle_node_hash(path[1], leaves[5]) = Root(leaves)
    BY <1>2, <1>9 DEF FoldPath
  <2>2. path[1] = merkle_node_hash(merkle_node_hash(leaves[1], leaves[2]), merkle_node_hash(leaves[3], leaves[4]))
    BY <2>1, NodeInjective DEF Root
  <2>3. Len(path) = 1
    BY <1>2, <1>9 DEF merkle_proof_len
  <2>4. InclusionPath(leaves, index)
          = <<merkle_node_hash(merkle_node_hash(leaves[1], leaves[2]), merkle_node_hash(leaves[3], leaves[4]))>>
    BY <1>9 DEF InclusionPath
  <2> QED
    BY <1>4, <2>2, <2>3, <2>4
<1> QED
  BY <1>1, <1>5, <1>6, <1>7, <1>8, <1>9

LEMMA VerifiedShare ==
  ASSUME NEW d \in Splittable, NEW s, IsShare(s),
         verify_share_in_tree(s.index, s.value, s.path, SplitOf[d].ok.root)
  PROVE  IsShareOf(s, d)
<1>1. PICK x, v, p : p \in Seq(ToSet(p)) /\ x = s.index /\ v = s.value /\ p = s.path /\ s = [index |-> x, value |-> v, path |-> p]
  BY DEF IsShare
<1>2. verify_share_in_tree(x, v, p, Root(Leaves(d)))
  BY <1>1, SplitIs
<1>3. x \in 1 .. 5 /\ merkle_leaf_hash(x, v) = Leaves(d)[x] /\ p = InclusionPath(Leaves(d), x)
  BY <1>1, <1>2, ShareInTree, PathOfTree
<1>4. x \in 1 .. TOTAL_SHARES
  BY <1>3, ShapeAssumption
<1>5. v = ShareValue(d.secret, d.nonce, x)
  <2>1. Leaves(d)[x] = merkle_leaf_hash(x, ShareValue(d.secret, d.nonce, x))
    BY <1>4 DEF Leaves
  <2> QED
    BY <1>3, <2>1, LeafInjective
<1>6. s = SplitOf[d].ok.shares[x]
  BY <1>1, <1>3, <1>4, <1>5, SplitIs
<1> QED
  BY <1>1, <1>4, <1>6, SplitIs DEF IsShareOf
-----------------------------------------------------------------------------
(* What a call returns on a list of shares.                                *)
Refusals == {"ThresholdNotMet", "InvalidShareSet", "SerializationError"}

LEMMA ReconstructCases ==
  ASSUME NEW d \in Splittable, NEW S, NEW shares \in Seq(S), \A i \in DOMAIN shares : IsShare(shares[i]),
         NEW m \in Nat, m = Len(shares), NEW result,
         result = reconstruct_key_material(shares, SplitOf[d].ok.root)
  PROVE  \/ SharesOf(shares, m, d) /\ result = Ok(d.secret)
         \/ /\ ~ SharesOf(shares, m, d)
            /\ \E error \in Refusals :
                 result = Err(error) /\ (error = "ThresholdNotMet" <=> m < THRESHOLD_K)
<1>1. PICK root, error : root = SplitOf[d].ok.root /\ error = SetError(shares, root)
  OBVIOUS
<1>2. DOMAIN shares = 1 .. m /\ Len(shares) = m
  OBVIOUS
<1>3. ASSUME error = "none" PROVE SharesOf(shares, m, d)
  <2>1. ~ TooFew(shares) /\ ~ Len(shares) > TOTAL_SHARES /\ ~ Repeated(shares) /\ AllInTree(shares, root)
    BY <1>1, <1>3 DEF SetError
  <2>2. m \in THRESHOLD_K .. TOTAL_SHARES
    BY <1>2, <2>1, ShapeAssumption DEF TooFew
  <2>3. ASSUME NEW i \in 1 .. m
        PROVE  shares[i].index \in Indices /\ shares[i] = SplitOf[d].ok.shares[shares[i].index]
    <3>1. PICK s : s = shares[i] /\ IsShare(s)
      BY <1>2
    <3>2. verify_share_in_tree(s.index, s.value, s.path, SplitOf[d].ok.root)
      BY <1>1, <1>2, <2>1, <3>1 DEF AllInTree
    <3>3. IsShareOf(s, d)
      BY <3>1, <3>2, VerifiedShare
    <3> QED
      BY <3>1, <3>3 DEF IsShareOf, Indices
  <2>4. \A i, j \in 1 .. m : i # j => shares[i].index # shares[j].index
    BY <1>2, <2>1 DEF Repeated
  <2> QED
    BY <1>2, <2>2, <2>3, <2>4 DEF SharesOf
<1>4. CASE error = "none"
  <2>1. SharesOf(shares, m, d)
    BY <1>3, <1>4
  <2>2. result = Ok(d.secret)
    BY <2>1, SharesReconstruct
  <2> QED
    BY <2>1, <2>2
<1>5. CASE error # "none"
  <2>1. ~ SharesOf(shares, m, d)
    BY <1>1, <1>5, SharesPass
  <2>2. result = Err(error)
    BY <1>1, <1>5 DEF reconstruct_key_material
  <2>3. error \in Refusals /\ (error = "ThresholdNotMet" <=> TooFew(shares))
    BY <1>1, <1>5 DEF SetError, Refusals
  <2>4. TooFew(shares) <=> m < THRESHOLD_K
    BY <1>2 DEF TooFew
  <2> QED
    BY <2>1, <2>2, <2>3, <2>4
<1> QED
  BY <1>4, <1>5
-----------------------------------------------------------------------------
(* Types.                                                                  *)
LEMMA PathIsList ==
  ASSUME NEW leaves, NEW i \in 1 .. 5, NEW p, p = InclusionPath(leaves, i)
  PROVE  p \in Seq(ToSet(p))
<1>1. ASSUME NEW n \in Nat, DOMAIN p = 1 .. n, p = [j \in DOMAIN p |-> p[j]] PROVE p \in Seq(ToSet(p))
  <2>1. p \in [1 .. n -> ToSet(p)]
    BY <1>1 DEF ToSet
  <2> QED
    BY <2>1, IsList
<1>2. ASSUME NEW a, NEW b, NEW c, p = <<a, b, c>> PROVE p \in Seq(ToSet(p))
  <2>1. DOMAIN p = 1 .. 3 /\ p = [j \in DOMAIN p |-> p[j]]
    BY <1>2
  <2> QED
    BY <1>1, <2>1
<1>3. ASSUME NEW a, p = <<a>> PROVE p \in Seq(ToSet(p))
  <2>1. DOMAIN p = 1 .. 1 /\ p = [j \in DOMAIN p |-> p[j]]
    BY <1>3
  <2> QED
    BY <1>1, <2>1
<1>4. CASE i = 1
  BY <1>2, <1>4 DEF InclusionPath
<1>5. CASE i = 2
  BY <1>2, <1>5 DEF InclusionPath
<1>6. CASE i = 3
  BY <1>2, <1>6 DEF InclusionPath
<1>7. CASE i = 4
  BY <1>2, <1>7 DEF InclusionPath
<1>8. CASE i = 5
  BY <1>3, <1>8 DEF InclusionPath
<1> QED
  BY <1>4, <1>5, <1>6, <1>7, <1>8

LEMMA DealtIsShare ==
  ASSUME NEW d \in Splittable, NEW i \in 1 .. TOTAL_SHARES
  PROVE  IsShare(SplitOf[d].ok.shares[i]) /\ IsShareOf(SplitOf[d].ok.shares[i], d)
<1>1. PICK v, p, s : v = ShareValue(d.secret, d.nonce, i) /\ p = InclusionPath(Leaves(d), i)
                     /\ s = [index |-> i, value |-> v, path |-> p]
  OBVIOUS
<1>2. s = SplitOf[d].ok.shares[i]
  BY <1>1, SplitIs
<1>3. v \in Seq(Bytes) /\ i \in Nat /\ i \in 1 .. 5
  BY <1>1, SplitShareable, ShareValueIs, ShapeAssumption
<1>4. p \in Seq(ToSet(p))
  BY <1>1, <1>3, PathIsList
<1>5. IsShare(s)
  BY <1>1, <1>3, <1>4 DEF IsShare
<1>6. IsShareOf(s, d)
  BY <1>1, <1>2, SplitIs DEF IsShareOf
<1> QED
  BY <1>2, <1>5, <1>6

LEMMA SplitRefuses ==
  ASSUME NEW d \in Deals, ~ IsOk(SplitOf[d])
  PROVE  SplitOf[d] = Err("InvalidInputLength")
<1>1. SplitOf[d] = split_key_material(d.secret, d.nonce)
  BY DEF SplitOf
<1>2. SplitOf[d] = Err("InvalidInputLength") \/ \E x : SplitOf[d] = Ok(x)
  BY <1>1 DEF split_key_material
<1>3. \A x : IsOk(Ok(x))
  BY DEF IsOk, Ok
<1> QED
  BY <1>2, <1>3

SharesInv == \A i \in DOMAIN tray : IsShare(tray[i])

AnswerTyped ==
  \/ answer = NoAnswer
  \/ /\ answer.of \in Deals
     /\ \/ DOMAIN answer.result = {"ok"} /\ answer.result.ok \in Secrets
        \/ DOMAIN answer.result = {"error"} /\ answer.result.error \in Errors

TypeInv == IInv /\ altered \in Nat /\ SharesInv /\ AnswerTyped

LEMMA TypeStep == TypeInv /\ [Next]_vars => TypeInv'
<1> SUFFICES ASSUME TypeInv, [Next]_vars PROVE TypeInv'
  OBVIOUS
<1>0. IInv /\ IInv'
  BY Step DEF TypeInv
<1>D. dealt \subseteq Splittable
  BY <1>0 DEF IInv, Splittable
<1>1. ASSUME NEW d \in Deals, Split(d)
      PROVE  TypeInv'
  <2>1. AnswerTyped'
    <3>1. CASE IsOk(SplitOf[d])
      BY <1>1, <3>1 DEF Split, AnswerTyped
    <3>2. CASE ~ IsOk(SplitOf[d])
      <4>1. answer'.of = d /\ answer'.result = SplitOf[d]
        BY <1>1, <3>2 DEF Split
      <4>2. SplitOf[d] = Err("InvalidInputLength")
        BY <3>2, SplitRefuses
      <4>3. DOMAIN Err("InvalidInputLength") = {"error"} /\ Err("InvalidInputLength").error \in Errors
        BY DEF Err, Errors
      <4> QED
        BY <4>1, <4>2, <4>3 DEF AnswerTyped
    <3> QED
      BY <3>1, <3>2
  <2> QED
    BY <1>0, <1>1, <2>1 DEF Split, TypeInv, SharesInv
<1>2. ASSUME NEW d \in dealt, NEW i \in 1 .. TOTAL_SHARES,
             Collect(SplitOf[d].ok.shares[i]) \/ CollectAltered(SplitOf[d].ok.shares[i])
      PROVE  TypeInv'
  <2>1. PICK s : tray' = Append(tray, s) /\ IsShare(s)
    <3>1. d \in Splittable
      BY <1>D
    <3>2. CASE Collect(SplitOf[d].ok.shares[i])
      BY <3>1, <3>2, DealtIsShare DEF Collect
    <3>3. CASE CollectAltered(SplitOf[d].ok.shares[i])
      BY <3>1, <3>3, DealAssumption DEF CollectAltered
    <3> QED
      BY <1>2, <3>2, <3>3
  <2>2. answer' = NoAnswer /\ altered' \in Nat
    BY <1>2 DEF Collect, CollectAltered, TypeInv
  <2>3. SharesInv'
    <3>1. PICK t \in Seq(Arrivals) : t = tray
      BY <1>0 DEF IInv
    <3>2. \A j \in DOMAIN Append(t, s) : (j \in DOMAIN t /\ Append(t, s)[j] = t[j]) \/ Append(t, s)[j] = s
      BY <3>1
    <3> QED
      BY <2>1, <3>1, <3>2 DEF SharesInv, TypeInv
  <2> QED
    BY <1>0, <2>2, <2>3 DEF TypeInv, AnswerTyped
<1>3. ASSUME Discard
      PROVE  TypeInv'
  BY <1>0, <1>3 DEF Discard, TypeInv, SharesInv, AnswerTyped
<1>4. ASSUME NEW d \in dealt, Reconstruct(d)
      PROVE  TypeInv'
  <2>1. d \in Splittable /\ d \in Deals
    BY <1>D DEF Splittable
  <2>2. PICK result : result = reconstruct_key_material(tray, SplitOf[d].ok.root)
    OBVIOUS
  <2>3. answer'.of = d /\ answer'.result = result
    BY <1>4, <2>2 DEF Reconstruct
  <2>4. PICK t \in Seq(Arrivals), m \in Nat : t = tray /\ m = Len(t)
    BY <1>0 DEF IInv
  <2>5. result = Ok(d.secret) \/ \E error \in Refusals : result = Err(error)
    <3>1. \A i \in DOMAIN t : IsShare(t[i])
      BY <2>4 DEF TypeInv, SharesInv
    <3> QED
      BY <2>1, <2>2, <2>4, <3>1, ReconstructCases
  <2>6. d.secret \in Secrets
    <3>1. d.secret \in [1 .. Len(d.secret) -> Bytes] /\ Len(d.secret) \in 1 .. MAX_SECRET_BYTES
      BY <2>1, SplitIs, LengthOfList
    <3> QED
      BY <3>1 DEF Secrets
  <2>7. \/ DOMAIN result = {"ok"} /\ result.ok \in Secrets
        \/ DOMAIN result = {"error"} /\ result.error \in Errors
    BY <2>5, <2>6 DEF Ok, Err, Refusals, Errors
  <2>8. AnswerTyped'
    BY <2>1, <2>3, <2>7 DEF AnswerTyped
  <2> QED
    BY <1>0, <1>4, <2>8 DEF Reconstruct, TypeInv, SharesInv
<1>5. CASE UNCHANGED vars
  BY <1>0, <1>5 DEF vars, TypeInv, SharesInv, AnswerTyped
<1> QED
  BY <1>1, <1>2, <1>3, <1>4, <1>5 DEF Next

LEMMA TypeInvariance == Spec => []TypeInv
<1>1. Init => TypeInv
  BY Initially DEF Init, TypeInv, SharesInv, AnswerTyped
<1> QED
  BY <1>1, TypeStep, PTL DEF Spec

(* Every answer is an error or a secret that the dealer would have split,  *)
(* and every list that is asked about consists of shares.                  *)
THEOREM Typing == Spec => []TypeOK
<1>1. TypeInv => TypeOK
  BY DEF TypeInv, TypeOK, IInv, SharesInv, AnswerTyped
<1> QED
  BY <1>1, TypeInvariance, PTL
-----------------------------------------------------------------------------
(* Tokens.                                                                 *)
Token == [deal : Deals, index : 1 .. TOTAL_SHARES]

LEMMA OneDeal ==
  ASSUME NEW d \in Deals, NEW e \in Deals, NEW s, IsShareOf(s, d), IsShareOf(s, e)
  PROVE  d = e
<1>1. d \in Splittable /\ e \in Splittable
  BY DEF IsShareOf, Splittable
<1>2. PICK x \in 1 .. 5 : x = s.index /\ s = SplitOf[d].ok.shares[x] /\ s = SplitOf[e].ok.shares[x]
  BY ShapeAssumption DEF IsShareOf
<1>3. ASSUME NEW f \in Splittable, s = SplitOf[f].ok.shares[x]
      PROVE  FoldPath(x, merkle_leaf_hash(x, s.value), s.path) = SplitOf[f].ok.root
  <2>1. PICK v, p : v = ShareValue(f.secret, f.nonce, x) /\ p = InclusionPath(Leaves(f), x)
                    /\ s = [index |-> x, value |-> v, path |-> p]
    BY <1>3, SplitIs, ShapeAssumption
  <2>2. merkle_leaf_hash(x, v) = Leaves(f)[x]
    BY <2>1, ShapeAssumption DEF Leaves
  <2>3. FoldPath(x, merkle_leaf_hash(x, v), p) = Root(Leaves(f))
    BY <2>1, <2>2, PathInTree
  <2> QED
    BY <2>1, <2>3, SplitIs
<1>4. SplitOf[d].ok.root = SplitOf[e].ok.root
  BY <1>1, <1>2, <1>3
<1> QED
  BY <1>1, <1>4, RootOfDeal

LEMMA TokenOfShare ==
  ASSUME NEW s
  PROVE  /\ TokenOf(s) \in Token \cup {Foreign}
         /\ \A d \in Deals : IsShareOf(s, d) => TokenOf(s) = [deal |-> d, index |-> s.index]
         /\ \A d \in Deals : TokenOf(s) \in Token /\ TokenOf(s).deal = d => IsShareOf(s, d)
<1>1. CASE \E d \in Deals : IsShareOf(s, d)
  <2>1. PICK e \in Deals : IsShareOf(s, e) /\ TokenOf(s) = [deal |-> e, index |-> s.index]
    BY <1>1 DEF TokenOf
  <2>2. s.index \in 1 .. TOTAL_SHARES
    BY <2>1 DEF IsShareOf
  <2>3. \A d \in Deals : IsShareOf(s, d) => d = e
    BY <2>1, OneDeal
  <2>4. TokenOf(s) \in Token /\ TokenOf(s).deal = e
    BY <2>1, <2>2 DEF Token
  <2> QED
    BY <2>1, <2>3, <2>4
<1>2. CASE ~ \E d \in Deals : IsShareOf(s, d)
  <2>1. TokenOf(s) = Foreign
    BY <1>2 DEF TokenOf
  <2> QED
    BY <1>2, <2>1, DealAssumption DEF Token
<1> QED
  BY <1>1, <1>2

Tokens(shares) == [i \in DOMAIN shares |-> TokenOf(shares[i])]

(* The checks of the code accept what the promise calls all shares of d.   *)
AllTokensOf(shares, m, d) ==
  /\ m >= THRESHOLD_K
  /\ \A i \in 1 .. m : Tokens(shares)[i] \in Token /\ Tokens(shares)[i].deal = d
  /\ \A i, j \in 1 .. m : i # j => Tokens(shares)[i] # Tokens(shares)[j]

LEMMA AllTokens ==
  ASSUME NEW d \in Deals, IsOk(SplitOf[d]), NEW m \in Nat, NEW shares, DOMAIN shares = 1 .. m, Len(shares) = m
  PROVE  AllTokensOf(shares, m, d) <=> SharesOf(shares, m, d)
<1>0. \A i \in 1 .. m : Tokens(shares)[i] = TokenOf(shares[i])
  BY DEF Tokens
<1>1. ASSUME AllTokensOf(shares, m, d) PROVE SharesOf(shares, m, d)
  <2> DEFINE f == [i \in 1 .. m |-> shares[i].index]
  <2>1. ASSUME NEW i \in 1 .. m
        PROVE  /\ IsShareOf(shares[i], d)
               /\ TokenOf(shares[i]) = [deal |-> d, index |-> shares[i].index]
    <3>1. TokenOf(shares[i]) \in Token /\ TokenOf(shares[i]).deal = d
      BY <1>0, <1>1 DEF AllTokensOf
    <3> QED
      BY <3>1, TokenOfShare
  <2>2. \A i \in 1 .. m : shares[i].index \in Indices /\ shares[i] = SplitOf[d].ok.shares[shares[i].index]
    BY <2>1 DEF IsShareOf, Indices
  <2>3. ASSUME NEW i \in 1 .. m, NEW j \in 1 .. m, i # j PROVE shares[i].index # shares[j].index
    <3>1. TokenOf(shares[i]) # TokenOf(shares[j])
      BY <1>0, <1>1, <2>3 DEF AllTokensOf
    <3> QED
      BY <2>1, <3>1
  <2>4. f \in Injection(1 .. m, Indices)
    BY <2>2, <2>3 DEF Injection, IsInjective
  <2>5. m <= TOTAL_SHARES
    <3>1. TOTAL_SHARES \in Nat /\ IsFiniteSet(Indices) /\ Cardinality(Indices) = TOTAL_SHARES
      BY FS_Interval, FieldAssumption DEF Indices
    <3>2. Cardinality(1 .. m) <= Cardinality(Indices)
      <4> HIDE DEF f
      <4> QED
        BY <2>4, <3>1, FS_Injection
    <3>3. Cardinality(1 .. m) = m
      BY FS_Interval
    <3> QED
      BY <3>1, <3>2, <3>3
  <2>6. m \in THRESHOLD_K .. TOTAL_SHARES
    BY <1>1, <2>5, FieldAssumption DEF AllTokensOf
  <2> QED
    BY <2>2, <2>3, <2>6 DEF SharesOf
<1>2. ASSUME SharesOf(shares, m, d) PROVE AllTokensOf(shares, m, d)
  <2>1. ASSUME NEW i \in 1 .. m
        PROVE  TokenOf(shares[i]) = [deal |-> d, index |-> shares[i].index] /\ shares[i].index \in 1 .. TOTAL_SHARES
    <3>1. IsShareOf(shares[i], d)
      BY <1>2 DEF SharesOf, IsShareOf, Indices
    <3> QED
      BY <3>1, TokenOfShare DEF IsShareOf
  <2>2. \A i \in 1 .. m : Tokens(shares)[i] \in Token /\ Tokens(shares)[i].deal = d
    BY <1>0, <2>1 DEF Token
  <2>3. ASSUME NEW i \in 1 .. m, NEW j \in 1 .. m, i # j PROVE Tokens(shares)[i] # Tokens(shares)[j]
    <3>1. shares[i].index # shares[j].index
      BY <1>2, <2>3 DEF SharesOf
    <3>2. [deal |-> d, index |-> shares[i].index].index = shares[i].index
          /\ [deal |-> d, index |-> shares[j].index].index = shares[j].index
      OBVIOUS
    <3> QED
      BY <1>0, <2>1, <3>1, <3>2
  <2>4. m >= THRESHOLD_K
    BY <1>2, FieldAssumption DEF SharesOf
  <2> QED
    BY <2>2, <2>3, <2>4 DEF AllTokensOf
<1> QED
  BY <1>1, <1>2

LEMMA TokensAppended ==
  ASSUME NEW S, NEW shares \in Seq(S), NEW s, NEW more, more = Append(shares, s)
  PROVE  Tokens(more) # <<>> /\ Front(Tokens(more)) = Tokens(shares) /\ Last(Tokens(more)) = TokenOf(s)
<1>1. PICK m \in Nat : m = Len(shares) /\ DOMAIN shares = 1 .. m
  OBVIOUS
<1>2. DOMAIN more = 1 .. m + 1 /\ more[m + 1] = s /\ \A i \in 1 .. m : more[i] = shares[i]
  BY <1>1
<1>3. PICK t : t = Tokens(more)
  OBVIOUS
<1>4. t = [i \in 1 .. m + 1 |-> TokenOf(more[i])]
  BY <1>2, <1>3 DEF Tokens
<1>5. Len(t) = m + 1 /\ t # <<>> /\ t[m + 1] = TokenOf(s)
  BY <1>2, <1>4
<1>6. SubSeq(t, 1, m) = [i \in 1 .. m |-> t[i]]
  <2>1. PICK R : R = {TokenOf(more[i]) : i \in 1 .. m + 1}
    OBVIOUS
  <2>2. t \in [1 .. m + 1 -> R]
    BY <1>4, <2>1
  <2>3. t \in Seq(R)
    BY <2>2, IsList
  <2> QED
    BY <1>5, <2>3
<1>7. [i \in 1 .. m |-> t[i]] = [i \in 1 .. m |-> TokenOf(shares[i])]
  BY <1>2, <1>4
<1>8. Tokens(shares) = [i \in 1 .. m |-> TokenOf(shares[i])]
  BY <1>1 DEF Tokens
<1>9. Front(t) = Tokens(shares)
  <2>1. (m + 1) - 1 = m
    OBVIOUS
  <2> QED
    BY <1>5, <1>6, <1>7, <1>8, <2>1 DEF Front
<1> QED
  BY <1>3, <1>5, <1>9 DEF Last
-----------------------------------------------------------------------------
(* A step of sharing is a step of its promise.                             *)
LEMMA StepPromised == TypeInv /\ [Next]_vars => [Promise!Next]_(Promise!absvars)
<1> SUFFICES ASSUME TypeInv, [Next]_vars PROVE Promise!Next \/ UNCHANGED Promise!absvars
  OBVIOUS
<1>0. dealt \subseteq Splittable /\ Splittable \subseteq Deals /\ tray \in Seq(Arrivals)
  BY DEF TypeInv, IInv, Splittable
<1>T. Promise!Tokens = Token
  BY DEF Promise!Tokens, Token
<1>1. ASSUME NEW d \in Deals, Split(d)
      PROVE  Promise!Next
  <2>1. CASE IsOk(SplitOf[d])
    <3>1. d \in Splittable
      BY <2>1 DEF Splittable
    <3> QED
      BY <1>1, <2>1, <3>1 DEF Split, Promise!Split, Promise!Next
  <2>2. CASE ~ IsOk(SplitOf[d])
    <3>1. d \notin Splittable
      BY <2>2 DEF Splittable
    <3>2. SplitOf[d] = [error |-> "InvalidInputLength"]
      BY <2>2, SplitRefuses DEF Err
    <3> QED
      BY <1>1, <2>2, <3>1, <3>2 DEF Split, Promise!Split, Promise!Next
  <2> QED
    BY <2>1, <2>2
<1>2. ASSUME NEW d \in dealt, NEW i \in 1 .. TOTAL_SHARES,
             Collect(SplitOf[d].ok.shares[i]) \/ CollectAltered(SplitOf[d].ok.shares[i])
      PROVE  Promise!Next
  <2>1. PICK s : tray' = Append(tray, s)
    BY <1>2 DEF Collect, CollectAltered
  <2>2. answer' = NoAnswer /\ dealt' = dealt
    BY <1>2 DEF Collect, CollectAltered
  <2>3. Tokens(tray') # <<>> /\ Front(Tokens(tray')) = Tokens(tray) /\ Last(Tokens(tray')) = TokenOf(s)
    BY <1>0, <2>1, TokensAppended
  <2>4. Last(Tokens(tray')) \in Token \cup {Foreign}
    BY <2>3, TokenOfShare
  <2>5. Promise!Collect
    BY <1>T, <2>2, <2>3, <2>4 DEF Promise!Collect, Tokens, Front, Last, Promise!Front, Promise!Last
  <2> QED
    BY <2>5 DEF Promise!Next
<1>3. ASSUME Discard
      PROVE  Promise!Next
  <2>1. [i \in DOMAIN tray' |-> TokenOf(tray'[i])] = <<>>
    BY <1>3 DEF Discard
  <2> QED
    BY <1>3, <2>1 DEF Discard, Promise!Discard, Promise!Next
<1>4. ASSUME NEW d \in dealt, Reconstruct(d)
      PROVE  Promise!Next
  <2>1. d \in Splittable /\ d \in Deals /\ IsOk(SplitOf[d])
    BY <1>0 DEF Splittable
  <2>2. PICK result : result = reconstruct_key_material(tray, SplitOf[d].ok.root)
    OBVIOUS
  <2>3. answer' = [of |-> d, result |-> result] /\ UNCHANGED <<dealt, tray, altered>>
    BY <1>4, <2>2 DEF Reconstruct
  <2>4. PICK t \in Seq(Arrivals), m \in Nat : t = tray /\ m = Len(t) /\ DOMAIN t = 1 .. m
    BY <1>0
  <2>5. \/ SharesOf(t, m, d) /\ result = Ok(d.secret)
        \/ /\ ~ SharesOf(t, m, d)
           /\ \E error \in Refusals : result = Err(error) /\ (error = "ThresholdNotMet" <=> m < THRESHOLD_K)
    <3>1. \A i \in DOMAIN t : IsShare(t[i])
      BY <2>4 DEF TypeInv, SharesInv
    <3> QED
      BY <2>1, <2>2, <2>4, <3>1, ReconstructCases
  <2>6. AllTokensOf(t, m, d) <=> SharesOf(t, m, d)
    BY <2>1, <2>4, AllTokens
  <2>7. PICK tokens : tokens = Tokens(t) /\ tokens = [i \in DOMAIN tray |-> TokenOf(tray[i])]
    BY <2>4 DEF Tokens
  <2>8. DOMAIN tokens = 1 .. m /\ Len(tokens) = m
    BY <2>4, <2>7
  <2>9. Promise!AllOf(d) <=> AllTokensOf(t, m, d)
    BY <1>T, <2>7, <2>8 DEF Promise!AllOf, AllTokensOf
  <2>10. Len([i \in DOMAIN tray |-> TokenOf(tray[i])]) = m
    BY <2>7, <2>8
  <2>11. [i \in DOMAIN tray' |-> TokenOf(tray'[i])] = [i \in DOMAIN tray |-> TokenOf(tray[i])]
    BY <2>3
  <2>12. CASE SharesOf(t, m, d)
    <3>1. Promise!AllOf(d) /\ result = [ok |-> d.secret]
      BY <2>5, <2>6, <2>9, <2>12 DEF Ok
    <3>2. Promise!Reconstruct
      BY <2>3, <2>11, <3>1 DEF Promise!Reconstruct
    <3> QED
      BY <3>2 DEF Promise!Next
  <2>13. CASE ~ SharesOf(t, m, d)
    <3>1. ~ Promise!AllOf(d)
      BY <2>6, <2>9, <2>13
    <3>2. PICK error \in Refusals : result = [error |-> error] /\ (error = "ThresholdNotMet" <=> m < THRESHOLD_K)
      BY <2>5, <2>13 DEF Err
    <3>3. Promise!Reconstruct
      BY <2>3, <2>10, <2>11, <3>1, <3>2 DEF Promise!Reconstruct, Refusals
    <3> QED
      BY <3>3 DEF Promise!Next
  <2> QED
    BY <2>12, <2>13
<1>5. CASE UNCHANGED vars
  BY <1>5 DEF vars, Promise!absvars
<1> QED
  BY <1>1, <1>2, <1>3, <1>4, <1>5 DEF Next

(* Whatever is dealt, collected, altered and in whatever order: three or   *)
(* more distinct shares of the asked deal and nothing else give its secret *)
(* byte for byte, and everything else an error.                            *)
THEOREM Refinement == Spec => ImplementsPromise
<1>1. Init => Promise!Init
  <2> SUFFICES ASSUME Init PROVE Promise!Init
    OBVIOUS
  <2>1. [i \in DOMAIN tray |-> TokenOf(tray[i])] = <<>>
    BY DEF Init
  <2> QED
    BY <2>1 DEF Init, Promise!Init
<1> QED
  BY <1>1, StepPromised, TypeInvariance, PTL DEF Spec, ImplementsPromise, Promise!Spec
-----------------------------------------------------------------------------
(* The byte form of a list of shares.                                      *)
CellSet(H) == {Byte(i) : i \in Int} \cup {Digest(h) : h \in H}

LEMMA CellIs ==
  /\ \A i \in Int : ByteIn(Byte(i)) = i /\ DigestIn(Byte(i)) = <<"byte", i>>
  /\ \A h : ByteIn(Digest(h)) = NoByte /\ DigestIn(Digest(h)) = h
  /\ \A i, h : Byte(i) # Digest(h)
<1>1. \A i : DOMAIN Byte(i) = {"byte"} /\ Byte(i).byte = i
  BY DEF Byte
<1>2. \A h : DOMAIN Digest(h) = {"digest"} /\ Digest(h).digest = h
  BY DEF Digest
<1> QED
  BY <1>1, <1>2 DEF ByteIn, DigestIn

(* Where the cells of one share lie.                                       *)
Record(b, from, to, s) ==
  /\ to = from + 1 + Len(s.value) + Len(s.path)
  /\ b[from + 1] = Byte(s.index)
  /\ \A j \in 1 .. Len(s.value) : b[from + 1 + j] = Byte(s.value[j])
  /\ \A j \in 1 .. Len(s.path) : b[from + 1 + Len(s.value) + j] = Digest(s.path[j])

LEMMA CellsAre ==
  ASSUME NEW s, IsShare(s), NEW H, ToSet(s.path) \subseteq H
  PROVE  /\ Cells(s) \in Seq(CellSet(H))
         /\ Record(Cells(s), 0, Len(Cells(s)), s)
         /\ s.index \in Nat /\ s.value \in Seq(Bytes) /\ s.path \in Seq(H)
<1>1. PICK x \in Nat, v \in Seq(Bytes), p \in Seq(H) : x = s.index /\ v = s.value /\ p = s.path
  BY DEF IsShare
<1>2. PICK l \in Nat, m \in Nat : l = Len(v) /\ m = Len(p) /\ DOMAIN v = 1 .. l /\ DOMAIN p = 1 .. m
  OBVIOUS
<1> DEFINE C == CellSet(H)
           c1 == <<Byte(x)>>
           c2 == [i \in 1 .. l |-> Byte(v[i])]
           c3 == [i \in 1 .. m |-> Digest(p[i])]
<1>3. Cells(s) = c1 \o c2 \o c3
  BY <1>1, <1>2 DEF Cells
<1>4. Byte(x) \in C /\ \A i \in 1 .. l : Byte(v[i]) \in C
  <2>1. Bytes \subseteq Int
    BY DEF Bytes
  <2>2. \A i \in 1 .. l : v[i] \in Int
    <3>1. v \in [1 .. l -> Bytes]
      BY <1>2, LengthOfList
    <3> QED
      BY <2>1, <3>1
  <2> QED
    BY <2>2 DEF CellSet
<1>5. \A i \in 1 .. m : Digest(p[i]) \in C
  BY <1>2 DEF CellSet
<1> HIDE DEF C
<1>6. /\ c1 \in Seq(C) /\ Len(c1) = 1 /\ c1[1] = Byte(x)
      /\ c2 \in Seq(C) /\ Len(c2) = l /\ c3 \in Seq(C) /\ Len(c3) = m
      /\ \A i \in 1 .. l : c2[i] = Byte(v[i])
      /\ \A i \in 1 .. m : c3[i] = Digest(p[i])
  <2>1. c1 \in Seq(C) /\ Len(c1) = 1 /\ c1[1] = Byte(x)
    BY <1>4
  <2>2. c2 \in Seq(C) /\ Len(c2) = l
    BY <1>4, IsList
  <2>3. c3 \in Seq(C) /\ Len(c3) = m
    BY <1>5, IsList
  <2> QED
    BY <2>1, <2>2, <2>3
<1> HIDE DEF c1, c2, c3
<1>7. PICK t1 \in Seq(C), t2 \in Seq(C), t3 \in Seq(C) : t1 = c1 /\ t2 = c2 /\ t3 = c3
  BY <1>6
<1>8. PICK c \in Seq(C) : c = t1 \o t2
  BY Appended
<1>9. PICK d \in Seq(C) : d = c \o t3
  BY Appended
<1>10. /\ Len(c) = 1 + l
       /\ \A i \in 1 .. 1 : c[i] = c1[i]
       /\ \A i \in 1 .. l : c[1 + i] = c2[i]
  <2>1. /\ Len(t1 \o t2) = Len(t1) + Len(t2)
        /\ \A i \in 1 .. Len(t1) : (t1 \o t2)[i] = t1[i]
        /\ \A i \in 1 .. Len(t2) : (t1 \o t2)[Len(t1) + i] = t2[i]
    BY Appended
  <2> QED
    BY <1>6, <1>7, <1>8, <2>1
<1>11. /\ Len(d) = 1 + l + m
       /\ \A i \in 1 .. 1 + l : d[i] = c[i]
       /\ \A i \in 1 .. m : d[1 + l + i] = c3[i]
  <2>1. /\ Len(c \o t3) = Len(c) + Len(t3)
        /\ \A i \in 1 .. Len(c) : (c \o t3)[i] = c[i]
        /\ \A i \in 1 .. Len(t3) : (c \o t3)[Len(c) + i] = t3[i]
    BY Appended
  <2> QED
    BY <1>6, <1>7, <1>9, <1>10, <2>1
<1>12. /\ d[1] = Byte(x)
       /\ \A i \in 1 .. l : d[1 + i] = Byte(v[i])
       /\ \A i \in 1 .. m : d[1 + l + i] = Digest(p[i])
  <2>1. 1 \in 1 .. 1 + l /\ 1 \in 1 .. 1 /\ \A i \in 1 .. l : 1 + i \in 1 .. 1 + l
    OBVIOUS
  <2> QED
    BY <1>6, <1>10, <1>11, <2>1
<1>13. Cells(s) = d
  BY <1>3, <1>7, <1>8, <1>9
<1>14. Record(d, 0, Len(d), s)
  <2>1. \A i : 0 + 1 = 1 /\ (i \in Nat => 0 + 1 + i = 1 + i)
    OBVIOUS
  <2>2. Len(d) = 0 + 1 + l + m /\ d[0 + 1] = Byte(x)
    BY <1>11, <1>12
  <2>3. \A i \in 1 .. l : d[0 + 1 + i] = Byte(v[i])
    BY <1>12
  <2>4. \A i \in 1 .. m : d[0 + 1 + l + i] = Digest(p[i])
    BY <1>12
  <2> QED
    BY <1>1, <1>2, <2>2, <2>3, <2>4 DEF Record
<1> QED
  BY <1>1, <1>13, <1>14 DEF C

(* a[k] is where the cells of the k-th share end.                          *)
Frame(b, root, shares, n, a) ==
  /\ b \in Seq(ToSet(b)) /\ a \in [0 .. n -> Nat] /\ a[0] = HEADER /\ Len(b) = a[n]
  /\ b[1] = Digest(root) /\ b[2] = Byte(n) /\ b[3] = Byte(Len(shares[1].value))
  /\ \A k \in 1 .. n : Record(b, a[k - 1], a[k], shares[k])

LEMMA EncodedIs ==
  ASSUME NEW n \in Nat \ {0}, NEW shares, DOMAIN shares = 1 .. n, Len(shares) = n,
         \A k \in 1 .. n : IsShare(shares[k]), NEW root
  PROVE  \E a : Frame(encode_shares(root, shares), root, shares, n, a)
<1> DEFINE H == {root} \cup UNION {ToSet(shares[k].path) : k \in 1 .. n}
           C == CellSet(H)
           c == [k \in 1 .. n |-> Cells(shares[k])]
           header == <<Digest(root), Byte(n), Byte(Len(shares[1].value))>>
<1>1. ASSUME NEW k \in 1 .. n
      PROVE  /\ c[k] \in Seq(C) /\ Record(c[k], 0, Len(c[k]), shares[k])
             /\ shares[k].index \in Nat /\ shares[k].value \in Seq(Bytes) /\ shares[k].path \in Seq(H)
  <2>1. ToSet(shares[k].path) \subseteq H
    OBVIOUS
  <2> HIDE DEF H
  <2> QED
    BY <2>1, CellsAre
<1>2. header \in Seq(C) /\ Len(header) = 3
  <2>1. Len(shares[1].value) \in Int /\ n \in Int
    BY <1>1
  <2>2. Digest(root) \in C /\ Byte(n) \in C /\ Byte(Len(shares[1].value)) \in C
    <3>1. root \in H
      OBVIOUS
    <3> HIDE DEF H
    <3> QED
      BY <2>1, <3>1 DEF CellSet
  <2> HIDE DEF C
  <2> QED
    BY <2>2
<1>3. encode_shares(root, shares) = header \o FlattenSeq(c)
  BY DEF encode_shares
<1>4. header[1] = Digest(root) /\ header[2] = Byte(n) /\ header[3] = Byte(Len(shares[1].value))
  OBVIOUS
<1>5. c \in [1 .. n -> Seq(C)]
  BY <1>1
<1> HIDE DEF C, c, header, H
<1>6. PICK e \in [0 .. n -> Nat] : Laid(FlattenSeq(c), c, e, n, C)
  BY <1>5, FlatList
<1>7. PICK f \in Seq(C), h \in Seq(C) : f = FlattenSeq(c) /\ h = header
  BY <1>2, <1>6 DEF Laid
<1>8. PICK b \in Seq(C) : b = h \o f
  BY Appended
<1>9. /\ Len(b) = 3 + e[n]
      /\ \A i \in 1 .. 3 : b[i] = h[i]
      /\ \A i \in 1 .. e[n] : b[3 + i] = f[i]
  <2>1. /\ Len(b) = Len(h) + Len(f)
        /\ \A i \in 1 .. Len(h) : b[i] = h[i]
        /\ \A i \in 1 .. Len(f) : b[Len(h) + i] = f[i]
    BY <1>8, Appended
  <2>2. Len(f) = e[n] /\ Len(h) = 3
    BY <1>2, <1>6, <1>7 DEF Laid
  <2> QED
    BY <2>1, <2>2
<1> DEFINE a == [k \in 0 .. n |-> 3 + e[k]]
<1>10. a \in [0 .. n -> Nat] /\ a[0] = HEADER /\ Len(b) = a[n]
  BY <1>6, <1>9 DEF Laid, HEADER
<1>11. b \in Seq(ToSet(b))
  <2>1. b \in [1 .. Len(b) -> ToSet(b)] /\ Len(b) \in Nat
    BY DEF ToSet
  <2> QED
    BY <2>1, IsList
<1>12. \A k \in 0 .. n : e[k] <= e[n]
  <2> DEFINE g == [k \in 0 .. n |-> e[n - k]]
             T == [k \in 0 .. n |-> {x \in Nat : x <= e[n]}]
  <2>1. \A k \in 1 .. n : k - 1 \in 0 .. n /\ e[k - 1] <= e[k]
    <3> SUFFICES ASSUME NEW k \in 1 .. n PROVE k - 1 \in 0 .. n /\ e[k - 1] <= e[k]
      OBVIOUS
    <3>1. k - 1 \in 0 .. n /\ k \in 0 .. n /\ Len(c[k]) \in Nat
      BY <1>1
    <3>2. e[k] = e[k - 1] + Len(c[k])
      BY <1>6 DEF Laid
    <3> QED
      BY <3>1, <3>2
  <2>2. g[0] \in T[0]
    OBVIOUS
  <2>3. ASSUME NEW k \in 1 .. n, g[k - 1] \in T[k - 1] PROVE g[k] \in T[k]
    <3>1. n - k \in 0 .. n /\ n - (k - 1) \in 1 .. n /\ (n - (k - 1)) - 1 = n - k /\ k - 1 \in 0 .. n
      OBVIOUS
    <3>2. e[n - k] <= e[n - (k - 1)]
      BY <2>1, <3>1
    <3>3. e[n - (k - 1)] <= e[n]
      BY <2>3, <3>1
    <3>4. e[n - k] \in Nat /\ e[n - (k - 1)] \in Nat /\ e[n] \in Nat
      BY <3>1
    <3> QED
      BY <3>1, <3>2, <3>3, <3>4
  <2>4. \A k \in 0 .. n : g[k] \in T[k]
    <3> HIDE DEF g, T
    <3> QED
      BY <2>2, <2>3, InOrder
  <2>5. ASSUME NEW k \in 0 .. n PROVE e[k] <= e[n]
    <3>1. n - k \in 0 .. n /\ n - (n - k) = k
      OBVIOUS
    <3> QED
      BY <2>4, <3>1
  <2> QED
    BY <2>5
<1>13. ASSUME NEW k \in 1 .. n PROVE Record(b, a[k - 1], a[k], shares[k])
  <2>1. PICK s, v, p : s = shares[k] /\ v = s.value /\ p = s.path /\ v \in Seq(Bytes) /\ p \in Seq(H)
    BY <1>1
  <2>2. PICK l \in Nat, m \in Nat, o \in Nat, z \in Nat, N \in Nat :
          l = Len(v) /\ m = Len(p) /\ o = e[k - 1] /\ z = e[k] /\ N = e[n]
    <3>1. k - 1 \in 0 .. n /\ k \in 0 .. n
      OBVIOUS
    <3>2. Len(v) \in Nat /\ Len(p) \in Nat
      BY <2>1
    <3>3. e[k - 1] \in Nat /\ e[k] \in Nat /\ e[n] \in Nat
      BY <3>1
    <3> QED
      BY <3>2, <3>3
  <2>3. Len(c[k]) = 1 + l + m /\ z = o + 1 + l + m /\ z <= N
    <3>1. Len(c[k]) = 1 + l + m
      <4>1. Record(c[k], 0, Len(c[k]), s)
        BY <1>1, <2>1
      <4>2. Len(c[k]) = 0 + 1 + Len(s.value) + Len(s.path)
        BY <4>1 DEF Record
      <4> QED
        BY <2>1, <2>2, <4>2
    <3>2. z = o + Len(c[k])
      BY <1>6, <2>2 DEF Laid
    <3>3. z <= N
      BY <1>12, <2>2
    <3> QED
      BY <3>1, <3>2, <3>3
  <2>4. \A j \in 1 .. 1 + l + m : b[3 + o + j] = c[k][j]
    <3> SUFFICES ASSUME NEW j \in 1 .. 1 + l + m PROVE b[3 + o + j] = c[k][j]
      OBVIOUS
    <3>1. f[o + j] = c[k][j]
      BY <1>6, <1>7, <2>2, <2>3 DEF Laid
    <3>2. o + j \in 1 .. N /\ 3 + o + j = 3 + (o + j)
      BY <2>3
    <3> QED
      BY <1>9, <2>2, <3>1, <3>2
  <2>5. /\ c[k][1] = Byte(s.index)
        /\ \A j \in 1 .. l : c[k][1 + j] = Byte(v[j])
        /\ \A j \in 1 .. m : c[k][1 + l + j] = Digest(p[j])
    <3>1. Record(c[k], 0, Len(c[k]), s)
      BY <1>1, <2>1
    <3>2. 0 + 1 = 1
      OBVIOUS
    <3> QED
      BY <2>1, <2>2, <3>1, <3>2 DEF Record
  <2>6. b[3 + o + 1] = Byte(s.index)
    BY <2>4, <2>5
  <2>7. ASSUME NEW j \in 1 .. l PROVE b[3 + o + 1 + j] = Byte(v[j])
    <3>1. 1 + j \in 1 .. 1 + l + m /\ 3 + o + 1 + j = 3 + o + (1 + j)
      OBVIOUS
    <3> QED
      BY <2>4, <2>5, <3>1
  <2>8. ASSUME NEW j \in 1 .. m PROVE b[3 + o + 1 + l + j] = Digest(p[j])
    <3>1. 1 + l + j \in 1 .. 1 + l + m /\ 3 + o + 1 + l + j = 3 + o + (1 + l + j)
      OBVIOUS
    <3> QED
      BY <2>4, <2>5, <3>1
  <2>9. a[k - 1] = 3 + o /\ a[k] = 3 + z
    <3>1. k - 1 \in 0 .. n /\ k \in 0 .. n
      OBVIOUS
    <3> QED
      BY <2>2, <3>1
  <2>10. a[k] = a[k - 1] + 1 + l + m
    BY <2>3, <2>9
  <2> HIDE DEF a
  <2> QED
    BY <2>1, <2>2, <2>6, <2>7, <2>8, <2>9, <2>10 DEF Record
<1> HIDE DEF a
<1>14. b[1] = Digest(root) /\ b[2] = Byte(n) /\ b[3] = Byte(Len(shares[1].value))
  BY <1>4, <1>7, <1>9
<1>15. Frame(b, root, shares, n, a)
  BY <1>10, <1>11, <1>13, <1>14 DEF Frame
<1> QED
  BY <1>3, <1>7, <1>8, <1>15
-----------------------------------------------------------------------------
(* Reading shares: one share at an offset, and where it ends.              *)
PathAt(b, off) == merkle_proof_len(ByteIn(b[off + 1]))
EndAt(b, w, off) == off + 1 + w + PathAt(b, off)
FitsAt(b, w, off) == PathAt(b, off) # 0 /\ EndAt(b, w, off) <= Len(b)

ShareAt(b, w, off) ==
  [index |-> ByteIn(b[off + 1]),
   value |-> [i \in 1 .. w |-> ByteIn(b[off + 1 + i])],
   path  |-> [i \in 1 .. PathAt(b, off) |-> DigestIn(b[off + 1 + w + i])]]

SharesRead(b, w) == {ShareAt(b, w, off) : off \in Nat}
ReadState(b, w)  == {Unreadable} \cup [off : Nat, shares : Seq(SharesRead(b, w))]

LEMMA ProofLen == \A x : merkle_proof_len(x) \in Nat /\ (merkle_proof_len(x) # 0 => x \in 1 .. 5)
  BY DEF merkle_proof_len

LEMMA ReadShareIs ==
  ASSUME NEW w \in Nat, NEW b, Len(b) \in Nat, NEW st \in ReadState(b, w)
  PROVE  /\ ReadShare(b, w, st) \in ReadState(b, w)
         /\ st = Unreadable => ReadShare(b, w, st) = Unreadable
         /\ st # Unreadable =>
              /\ st.off \in Nat /\ st.shares \in Seq(SharesRead(b, w))
              /\ st = [off |-> st.off, shares |-> st.shares]
              /\ FitsAt(b, w, st.off) =>
                   ReadShare(b, w, st) = [off |-> EndAt(b, w, st.off),
                                          shares |-> Append(st.shares, ShareAt(b, w, st.off))]
              /\ ~ FitsAt(b, w, st.off) => ReadShare(b, w, st) = Unreadable
<1>1. CASE st = Unreadable
  <2>1. ReadShare(b, w, st) = Unreadable
    BY <1>1 DEF ReadShare
  <2> QED
    BY <1>1, <2>1 DEF ReadState
<1>2. CASE st # Unreadable
  <2>1. PICK o \in Nat, s \in Seq(SharesRead(b, w)) : st = [off |-> o, shares |-> s]
    BY <1>2 DEF ReadState
  <2>2. PICK l \in Nat : l = PathAt(b, o)
    BY ProofLen DEF PathAt
  <2> DEFINE fits == l # 0 /\ o + 1 + w + l <= Len(b)
             next == [off |-> o + 1 + w + l, shares |-> Append(s, ShareAt(b, w, o))]
  <2>3. fits <=> ~ (o >= Len(b)) /\ ~ (l = 0 \/ o + 1 + w + l > Len(b))
    OBVIOUS
  <2>4. ReadShare(b, w, st) = IF fits THEN next ELSE Unreadable
    <3>1. st.off = o /\ st.shares = s
      BY <2>1
    <3>2. CASE o >= Len(b)
      BY <2>3, <3>1, <3>2 DEF ReadShare
    <3>3. CASE ~ (o >= Len(b))
      <4>1. ReadShare(b, w, st)
              = IF l = 0 \/ o + 1 + w + l > Len(b) THEN Unreadable
                ELSE [off |-> o + 1 + w + l,
                      shares |-> Append(s, [index |-> ByteIn(b[o + 1]),
                                            value |-> [i \in 1 .. w |-> ByteIn(b[o + 1 + i])],
                                            path  |-> [i \in 1 .. l |-> DigestIn(b[o + 1 + w + i])]])]
        BY <1>2, <2>2, <3>1, <3>3 DEF ReadShare, PathAt
      <4>2. ShareAt(b, w, o) = [index |-> ByteIn(b[o + 1]),
                                value |-> [i \in 1 .. w |-> ByteIn(b[o + 1 + i])],
                                path  |-> [i \in 1 .. l |-> DigestIn(b[o + 1 + w + i])]]
        BY <2>2 DEF ShareAt
      <4> QED
        BY <2>3, <3>3, <4>1, <4>2
    <3> QED
      BY <3>2, <3>3
  <2>5. FitsAt(b, w, o) <=> fits
    BY <2>2 DEF FitsAt, EndAt
  <2>6. next = [off |-> EndAt(b, w, o), shares |-> Append(s, ShareAt(b, w, o))]
    BY <2>2 DEF EndAt
  <2>7. next \in ReadState(b, w)
    <3>1. ShareAt(b, w, o) \in SharesRead(b, w)
      BY DEF SharesRead
    <3>2. PICK x, S : x = ShareAt(b, w, o) /\ S = SharesRead(b, w)
      OBVIOUS
    <3>3. Append(s, x) \in Seq(S) /\ o + 1 + w + l \in Nat
      BY <3>1, <3>2
    <3> QED
      BY <3>2, <3>3 DEF ReadState
  <2>8. Unreadable \in ReadState(b, w)
    BY DEF ReadState
  <2> HIDE DEF fits, next
  <2> QED
    BY <1>2, <2>1, <2>4, <2>5, <2>6, <2>7, <2>8
<1> QED
  BY <1>1, <1>2

(* The reader goes through the shares one after the other.                 *)
ReadsBy(h, b, w, n) ==
  /\ h \in [0 .. n -> ReadState(b, w)]
  /\ h[0] = [off |-> HEADER, shares |-> <<>>] /\ h[n] = ReadShares(b, w, n)
  /\ \A k \in 1 .. n : h[k] = ReadShare(b, w, h[k - 1])

LEMMA ReadRuns ==
  ASSUME NEW n \in Nat, NEW w \in Nat, NEW b, Len(b) \in Nat
  PROVE  \E h : ReadsBy(h, b, w, n)
<1> DEFINE D      == 1 .. n
           T      == ReadState(b, w)
           base   == [off |-> HEADER, shares |-> <<>>]
           seq    == [i \in 1 .. n |-> i]
           ch     == [s \in SUBSET D |-> Max(s)]
           body(st, i) == ReadShare(b, w, st)
           F      == [j \in D |-> [e \in T |-> body(e, seq[j])]]
           Eq(f)  == f = [s \in SUBSET D |-> IF s = {} THEN base ELSE body(f[s \ {Max(s)}], seq[Max(s)])]
<1>1. IsFiniteSet(D)
  BY FS_Interval
<1>2. \A s \in SUBSET D : s # {} => ch[s] \in s
  BY MaxIsMember
<1>3. \A j \in D, e \in T : body(e, seq[j]) \in T
  BY ReadShareIs
<1>4. F \in [D -> [T -> T]]
  BY <1>3
<1>5. base \in T
  BY DEF ReadState, HEADER
<1>6. \A s \in SUBSET D : s # {} => Max(s) \in D
  BY <1>2
<1>D. DOMAIN seq = D
  OBVIOUS
<1> HIDE DEF D, seq, base, body, T
<1>7. PICK g \in [SUBSET D -> T] : Folds(g, D, base, F, ch)
  <2>1. FoldData(D, T, base, F, ch)
    BY <1>1, <1>2, <1>4, <1>5 DEF FoldData
  <2> HIDE DEF F, ch, Eq
  <2> QED
    BY <2>1, FoldExists
<1>8. Eq(g)
  <2>1. ASSUME NEW s \in SUBSET D PROVE g[s] = IF s = {} THEN base ELSE body(g[s \ {Max(s)}], seq[Max(s)])
    <3>1. CASE s = {}
      BY <1>7, <3>1 DEF Folds
    <3>2. CASE s # {}
      <4>1. g[s] = F[Max(s)][g[s \ {Max(s)}]]
        BY <1>7, <3>2 DEF Folds
      <4>2. Max(s) \in D /\ g[s \ {Max(s)}] \in T
        BY <1>6, <1>7, <3>2
      <4> QED
        BY <3>2, <4>1, <4>2
    <3> QED
      BY <3>1, <3>2
  <2>2. g = [s \in SUBSET D |-> g[s]]
    BY <1>7
  <2> QED
    BY <2>1, <2>2, Zenon
<1>9. FoldLeft(LAMBDA st, i : body(st, i), base, seq) = (CHOOSE f : Eq(f))[D]
  BY <1>D, Zenon DEF FoldLeft, MapThenFoldSet
<1> HIDE DEF Eq
<1>10. PICK f : Eq(f) /\ FoldLeft(LAMBDA st, i : body(st, i), base, seq) = f[D]
  BY <1>8, <1>9, Zenon
<1>11. \A s \in SUBSET D : f[s] = IF s = {} THEN base ELSE body(f[s \ {Max(s)}], seq[Max(s)])
  BY <1>10, Zenon DEF Eq
<1>12. \A s \in SUBSET D : s # {} /\ f[s \ {Max(s)}] \in T => f[s] = F[Max(s)][f[s \ {Max(s)}]]
  BY <1>6, <1>11
<1>13. PICK h \in [0 .. n -> T] : Run(h, n, base, F) /\ h[n] = f[1 .. n]
  <2>1. Unfolds(f, n, base, F, T)
    BY <1>4, <1>5, <1>11, <1>12 DEF Unfolds, D
  <2> HIDE DEF F
  <2> QED
    BY <2>1, FoldRuns
<1>14. ASSUME NEW k \in 1 .. n PROVE h[k] = body(h[k - 1], seq[k])
  <2>1. k \in D /\ k - 1 \in 0 .. n
    BY DEF D
  <2>2. h[k] = F[k][h[k - 1]] /\ h[k - 1] \in T
    BY <1>13, <2>1 DEF Run
  <2> QED
    BY <2>1, <2>2
<1>15. h[0] = base /\ h[n] = FoldLeft(LAMBDA st, i : body(st, i), base, seq)
  BY <1>10, <1>13 DEF Run, D
<1>16. ReadShares(b, w, n) = FoldLeft(LAMBDA st, i : body(st, i), base, seq)
  BY DEF ReadShares, body, base, seq
<1> QED
  BY <1>13, <1>14, <1>15, <1>16 DEF T, base, body, seq, ReadsBy

(* r[k] is where the reader stands after k shares.                         *)
Track(b, w, n, r) ==
  /\ r \in [0 .. n -> Nat] /\ r[0] = HEADER
  /\ \A k \in 1 .. n : FitsAt(b, w, r[k - 1]) /\ r[k] = EndAt(b, w, r[k - 1])

LEMMA TrackIsRead ==
  ASSUME NEW n \in Nat, NEW w \in Nat, NEW b, Len(b) \in Nat, NEW r, Track(b, w, n, r)
  PROVE  ReadShares(b, w, n) = [off |-> r[n], shares |-> [k \in 1 .. n |-> ShareAt(b, w, r[k - 1])]]
<1>1. PICK h : ReadsBy(h, b, w, n)
  BY ReadRuns
<1> DEFINE At(k) == [off |-> r[k], shares |-> [i \in 1 .. k |-> ShareAt(b, w, r[i - 1])]]
           T == [k \in 0 .. n |-> {At(k)}]
<1>2. h[0] \in T[0]
  <2>1. [i \in 1 .. 0 |-> ShareAt(b, w, r[i - 1])] = <<>>
    OBVIOUS
  <2> QED
    BY <1>1, <2>1 DEF ReadsBy, Track
<1>3. ASSUME NEW k \in 1 .. n, h[k - 1] \in T[k - 1] PROVE h[k] \in T[k]
  <2>1. k - 1 \in 0 .. n /\ k \in 0 .. n /\ k - 1 \in Nat
    OBVIOUS
  <2>2. PICK st \in ReadState(b, w) : st = h[k - 1] /\ st = At(k - 1)
    BY <1>1, <1>3, <2>1 DEF ReadsBy
  <2>3. st # Unreadable /\ st.off = r[k - 1] /\ st.shares = [i \in 1 .. k - 1 |-> ShareAt(b, w, r[i - 1])]
    <3>1. st.off = r[k - 1] /\ st.shares = [i \in 1 .. k - 1 |-> ShareAt(b, w, r[i - 1])] /\ r[k - 1] \in Nat
      BY <2>1, <2>2 DEF Track
    <3> QED
      BY <3>1 DEF Unreadable
  <2>4. FitsAt(b, w, st.off) /\ r[k] = EndAt(b, w, st.off)
    BY <2>3 DEF Track
  <2>5. h[k] = [off |-> r[k], shares |-> Append(st.shares, ShareAt(b, w, st.off))]
    <3>1. h[k] = ReadShare(b, w, st)
      BY <1>1, <2>2 DEF ReadsBy
    <3>2. ReadShare(b, w, st) = [off |-> EndAt(b, w, st.off),
                                 shares |-> Append(st.shares, ShareAt(b, w, st.off))]
      BY <2>3, <2>4, ReadShareIs
    <3> QED
      BY <2>4, <3>1, <3>2
  <2>6. Append(st.shares, ShareAt(b, w, st.off)) = [i \in 1 .. k |-> ShareAt(b, w, r[i - 1])]
    <3> DEFINE S == SharesRead(b, w)
               f == [i \in 1 .. k |-> ShareAt(b, w, r[i - 1])]
    <3>1. \A i \in 1 .. k : i - 1 \in 0 .. n /\ f[i] = ShareAt(b, w, r[i - 1]) /\ f[i] \in S
      BY DEF Track, SharesRead
    <3>2. f[k] = ShareAt(b, w, st.off) /\ st.shares = [i \in 1 .. k - 1 |-> f[i]]
      BY <2>3
    <3>3. f \in [1 .. k -> S]
      BY <3>1
    <3> HIDE DEF f, S
    <3>4. PICK t \in Seq(S) : t = [i \in 1 .. k - 1 |-> f[i]] /\ Len(t) = k - 1
      <4>1. [i \in 1 .. k - 1 |-> f[i]] \in [1 .. k - 1 -> S]
        BY <3>3
      <4> QED
        BY <2>1, <4>1, IsList
    <3>5. Append(t, f[k]) = f
      BY <3>3, <3>4
    <3> QED
      BY <3>2, <3>4, <3>5 DEF f
  <2> QED
    BY <2>1, <2>5, <2>6
<1> HIDE DEF T, At
<1>4. h[n] \in T[n]
  <2>1. \A k \in 0 .. n : h[k] \in T[k]
    BY <1>2, <1>3, InOrder
  <2> QED
    BY <2>1
<1> QED
  BY <1>1, <1>4 DEF T, At, ReadsBy

LEMMA ReadHasTrack ==
  ASSUME NEW n \in Nat, NEW w \in Nat, NEW b, Len(b) \in Nat, ReadShares(b, w, n) # Unreadable
  PROVE  \E r : Track(b, w, n, r)
<1>1. PICK h : ReadsBy(h, b, w, n)
  BY ReadRuns
<1>2. \A k \in 0 .. n : h[k] \in ReadState(b, w)
  BY <1>1 DEF ReadsBy
<1> DEFINE g == [k \in 0 .. n |-> h[n - k]]
           T == [k \in 0 .. n |-> ReadState(b, w) \ {Unreadable}]
<1>3. g[0] \in T[0]
  BY <1>1, <1>2 DEF ReadsBy
<1>4. ASSUME NEW k \in 1 .. n, g[k - 1] \in T[k - 1] PROVE g[k] \in T[k]
  <2>1. k \in 0 .. n /\ k - 1 \in 0 .. n /\ n - k \in 0 .. n /\ n - (k - 1) \in 1 .. n /\ (n - (k - 1)) - 1 = n - k
    OBVIOUS
  <2>2. PICK m \in 1 .. n : m = n - (k - 1) /\ m - 1 = n - k
    BY <2>1
  <2>3. h[m] # Unreadable /\ h[m] = ReadShare(b, w, h[m - 1]) /\ h[m - 1] \in ReadState(b, w)
    BY <1>1, <1>2, <1>4, <2>1, <2>2 DEF ReadsBy
  <2>4. h[m - 1] # Unreadable
    BY <2>3, ReadShareIs
  <2> QED
    BY <2>1, <2>2, <2>3, <2>4
<1>5. ASSUME NEW k \in 0 .. n PROVE h[k] # Unreadable
  <2>1. \A j \in 0 .. n : g[j] \in T[j]
    <3> HIDE DEF g, T
    <3> QED
      BY <1>3, <1>4, InOrder
  <2>2. n - k \in 0 .. n /\ n - (n - k) = k
    OBVIOUS
  <2> QED
    BY <2>1, <2>2
<1> DEFINE r == [k \in 0 .. n |-> h[k].off]
<1>6. r \in [0 .. n -> Nat]
  BY <1>2, <1>5, ReadShareIs
<1>7. r[0] = HEADER
  BY <1>1 DEF ReadsBy
<1>8. ASSUME NEW k \in 1 .. n PROVE FitsAt(b, w, r[k - 1]) /\ r[k] = EndAt(b, w, r[k - 1])
  <2>1. k \in 0 .. n /\ k - 1 \in 0 .. n
    OBVIOUS
  <2>2. PICK st \in ReadState(b, w) : st = h[k - 1] /\ st # Unreadable
    BY <1>2, <1>5, <2>1
  <2>3. h[k] = ReadShare(b, w, st) /\ h[k] # Unreadable
    BY <1>1, <1>5, <2>1, <2>2 DEF ReadsBy
  <2>4. FitsAt(b, w, st.off) /\ h[k].off = EndAt(b, w, st.off)
    <3>1. /\ FitsAt(b, w, st.off) =>
               ReadShare(b, w, st) = [off |-> EndAt(b, w, st.off),
                                      shares |-> Append(st.shares, ShareAt(b, w, st.off))]
          /\ ~ FitsAt(b, w, st.off) => ReadShare(b, w, st) = Unreadable
      <4>1. st \in ReadState(b, w) /\ w \in Nat /\ Len(b) \in Nat /\ st # Unreadable
        BY <2>2
      <4>2. \A e \in ReadState(b, w) : e # Unreadable =>
              /\ FitsAt(b, w, e.off) => ReadShare(b, w, e) = [off |-> EndAt(b, w, e.off),
                                                            shares |-> Append(e.shares, ShareAt(b, w, e.off))]
              /\ ~ FitsAt(b, w, e.off) => ReadShare(b, w, e) = Unreadable
        BY ReadShareIs
      <4> QED
        BY <4>1, <4>2, Zenon
    <3>2. PICK o, s, read : o = EndAt(b, w, st.off) /\ s = Append(st.shares, ShareAt(b, w, st.off))
                            /\ read = ReadShare(b, w, st)
      OBVIOUS
    <3>3. FitsAt(b, w, st.off) /\ read = [off |-> o, shares |-> s]
      BY <2>3, <3>1, <3>2
    <3> QED
      BY <2>3, <3>2, <3>3
  <2> QED
    BY <2>1, <2>2, <2>4
<1> HIDE DEF r
<1> QED
  BY <1>6, <1>7, <1>8 DEF Track

(* The end of a track is beyond its start.                                 *)
StepAt(b, w, n, r, k, l) ==
  /\ l = PathAt(b, r[k - 1]) /\ k - 1 \in 0 .. n /\ r[k - 1] \in Nat /\ r[k] \in Nat
  /\ r[k] = r[k - 1] + 1 + w + l /\ r[k] <= Len(b)

LEMMA TrackStep ==
  ASSUME NEW n \in Nat, NEW w \in Nat, NEW b, Len(b) \in Nat, NEW r, Track(b, w, n, r), NEW k \in 1 .. n
  PROVE  \E l \in Nat \ {0} : StepAt(b, w, n, r, k, l)
<1>1. k - 1 \in 0 .. n /\ k \in 0 .. n
  OBVIOUS
<1>2. PICK l \in Nat : l = PathAt(b, r[k - 1])
  BY ProofLen DEF PathAt
<1>3. r[k - 1] \in Nat /\ r[k] \in Nat /\ FitsAt(b, w, r[k - 1]) /\ r[k] = EndAt(b, w, r[k - 1])
  BY <1>1 DEF Track
<1> QED
  BY <1>1, <1>2, <1>3 DEF FitsAt, EndAt, StepAt

(* Bytes that agree after the header are read alike.                       *)
SameBody(b, c) == \A x \in Nat : x > HEADER /\ x <= Len(b) /\ x <= Len(c) => c[x] = b[x]

LEMMA SameTrack ==
  ASSUME NEW n \in Nat, NEW m \in Nat, NEW w \in Nat, NEW b, NEW c, Len(b) \in Nat, Len(c) \in Nat,
         NEW a, Track(b, w, n, a), NEW r, Track(c, w, m, r), SameBody(b, c)
  PROVE  \A k \in 0 .. n : k <= m => r[k] = a[k]
<1> DEFINE h == [k \in 0 .. n |-> IF k <= m THEN r[k] ELSE a[k]]
           T == [k \in 0 .. n |-> {x \in {a[k]} : x >= HEADER}]
<1>1. h[0] \in T[0]
  <2>1. 0 \in 0 .. n /\ 0 <= m /\ r[0] = HEADER /\ a[0] = HEADER /\ HEADER >= HEADER
    BY DEF Track, HEADER
  <2> QED
    BY <2>1
<1>2. ASSUME NEW k \in 1 .. n, h[k - 1] \in T[k - 1] PROVE h[k] \in T[k]
  <2>1s. PICK l \in Nat \ {0} : StepAt(b, w, n, a, k, l)
    BY TrackStep
  <2>1. /\ l = PathAt(b, a[k - 1]) /\ k - 1 \in 0 .. n /\ a[k - 1] \in Nat /\ a[k] \in Nat
        /\ a[k] = a[k - 1] + 1 + w + l /\ a[k] <= Len(b)
    BY <2>1s DEF StepAt
  <2>2. k \in 0 .. n /\ a[k - 1] >= HEADER /\ a[k] >= HEADER
    <3>1. a[k - 1] >= HEADER
      BY <1>2, <2>1
    <3> QED
      BY <2>1, <3>1 DEF HEADER
  <2>3. CASE ~ k <= m
    BY <2>2, <2>3
  <2>4. CASE k <= m
    <3>1. k \in 1 .. m /\ k - 1 <= m
      BY <2>4
    <3>0. PICK j \in 1 .. m : j = k
      BY <3>1
    <3>9s. PICK q \in Nat \ {0} : StepAt(c, w, m, r, j, q)
      BY TrackStep
    <3>9. /\ q = PathAt(c, r[j - 1]) /\ j - 1 \in 0 .. m /\ r[j - 1] \in Nat /\ r[j] \in Nat
          /\ r[j] = r[j - 1] + 1 + w + q /\ r[j] <= Len(c)
      BY <3>9s DEF StepAt
    <3>2. /\ q = PathAt(c, r[k - 1]) /\ r[k - 1] \in Nat /\ r[k] \in Nat
          /\ r[k] = r[k - 1] + 1 + w + q /\ r[k] <= Len(c)
      BY <3>0, <3>9
    <3>3. r[k - 1] = a[k - 1]
      BY <1>2, <2>1, <3>1
    <3>4. c[a[k - 1] + 1] = b[a[k - 1] + 1]
      <4>1. PICK x \in Nat : x = a[k - 1] + 1
        BY <2>1
      <4>2. x > HEADER /\ x <= Len(b) /\ x <= Len(c)
        <5>1. \A o, z, y \in Nat : z = o + 1 + w + y /\ y # 0 => o + 1 <= z
          OBVIOUS
        <5>2. a[k - 1] + 1 <= a[k] /\ r[k - 1] + 1 <= r[k]
          BY <2>1, <3>2, <5>1
        <5>3. x <= a[k] /\ x <= r[k] /\ x > HEADER
          <6>1. x <= a[k] /\ x <= r[k]
            BY <3>3, <4>1, <5>2
          <6>2. x > 3
            <7>1. a[k - 1] \in Nat /\ a[k - 1] >= 3
              BY <2>1, <2>2 DEF HEADER
            <7>2. \A o \in Nat : o >= 3 => o + 1 > 3
              OBVIOUS
            <7> QED
              BY <4>1, <7>1, <7>2
          <6> QED
            BY <6>1, <6>2 DEF HEADER
        <5>4. \A i, j2, z \in Nat : i <= j2 /\ j2 <= z => i <= z
          OBVIOUS
        <5> QED
          BY <2>1, <3>2, <4>1, <5>3, <5>4
      <4> QED
        BY <4>1, <4>2 DEF SameBody
    <3>5. q = l
      BY <2>1, <3>2, <3>3, <3>4 DEF PathAt
    <3>6. r[k] = a[k]
      BY <2>1, <3>2, <3>3, <3>5
    <3> QED
      BY <2>2, <2>4, <3>6
  <2> QED
    BY <2>3, <2>4
<1>3. \A k \in 0 .. n : h[k] \in T[k]
  <2> HIDE DEF h, T
  <2> QED
    BY <1>1, <1>2, InOrder
<1> QED
  BY <1>3

(* A list with a byte form is read back as it is.                          *)
FramableAs(shares, n, w) ==
  \A k \in 1 .. n : /\ Len(shares[k].value) = w /\ Len(shares[k].path) # 0
                    /\ Len(shares[k].path) = merkle_proof_len(shares[k].index)

LEMMA FrameTrack ==
  ASSUME NEW n \in Nat, NEW w \in Nat, NEW shares, NEW b, NEW root, NEW a, Frame(b, root, shares, n, a),
         \A k \in 1 .. n : IsShare(shares[k]), FramableAs(shares, n, w)
  PROVE  /\ Track(b, w, n, a)
         /\ \A k \in 1 .. n : ShareAt(b, w, a[k - 1]) = shares[k]
<1>L. Len(b) = a[n] /\ Len(b) \in Nat /\ a \in [0 .. n -> Nat]
  BY DEF Frame
<1>2. ASSUME NEW k \in 1 .. n
      PROVE  /\ PathAt(b, a[k - 1]) # 0 /\ a[k] = EndAt(b, w, a[k - 1]) /\ a[k - 1] < a[k]
             /\ ShareAt(b, w, a[k - 1]) = shares[k]
             /\ a[k - 1] \in Nat /\ a[k] \in Nat
  <2>S. PICK s : s = shares[k] /\ IsShare(s)
    OBVIOUS
  <2>N. PICK x \in Nat, v \in Seq(Bytes) : x = s.index /\ v = s.value
    BY <2>S DEF IsShare
  <2>P. PICK p : p \in Seq(ToSet(p)) /\ s = [index |-> x, value |-> v, path |-> p]
    BY <2>S, <2>N DEF IsShare
  <2>F. s.index = x /\ s.value = v /\ s.path = p
    BY <2>P
  <2>L. PICK l \in Nat \ {0} : Len(p) = l /\ l = merkle_proof_len(x)
    <3>1. Len(s.path) # 0 /\ Len(s.path) = merkle_proof_len(s.index)
      BY <2>S DEF FramableAs
    <3>2. Len(p) \in Nat
      BY <2>P
    <3> QED
      BY <2>F, <3>1, <3>2
  <2>1. /\ shares[k] = [index |-> x, value |-> v, path |-> p]
        /\ Len(v) = w /\ Len(p) = l /\ l = merkle_proof_len(x) /\ p \in Seq(ToSet(p))
    BY <2>S, <2>P, <2>F, <2>L DEF FramableAs
  <2>R. Record(b, a[k - 1], a[k], s)
    BY <2>S DEF Frame
  <2>2. PICK o \in Nat, z \in Nat : o = a[k - 1] /\ z = a[k]
    <3>1. k - 1 \in 0 .. n /\ k \in 0 .. n
      OBVIOUS
    <3> QED
      BY <1>L, <3>1
  <2>3. /\ z = o + 1 + w + l /\ b[o + 1] = Byte(x)
        /\ \A j \in 1 .. w : b[o + 1 + j] = Byte(v[j])
        /\ \A j \in 1 .. l : b[o + 1 + w + j] = Digest(p[j])
    BY <2>1, <2>2, <2>F, <2>R DEF Record
  <2>4. ByteIn(b[o + 1]) = x /\ PathAt(b, o) = l
    BY <2>1, <2>3, CellIs DEF PathAt
  <2>5. \A j \in 1 .. w : ByteIn(b[o + 1 + j]) = v[j]
    <3>0. v \in [1 .. Len(v) -> Bytes]
      BY LengthOfList
    <3>1. v \in [1 .. w -> Bytes] /\ Bytes \subseteq Int
      BY <2>1, <3>0 DEF Bytes
    <3>2. \A j \in 1 .. w : v[j] \in Int
      BY <3>1
    <3> QED
      BY <2>3, <3>2, CellIs
  <2>6. \A j \in 1 .. l : DigestIn(b[o + 1 + w + j]) = p[j]
    BY <2>3, CellIs
  <2>7. v = [j \in 1 .. w |-> ByteIn(b[o + 1 + j])]
    <3>1. v \in [1 .. w -> Bytes]
      BY <2>1, LengthOfList
    <3> QED
      BY <2>5, <3>1
  <2>8. p = [j \in 1 .. l |-> DigestIn(b[o + 1 + w + j])]
    <3>1. p \in [1 .. l -> ToSet(p)]
      BY <2>1, LengthOfList
    <3> QED
      BY <2>6, <3>1
  <2>9. ShareAt(b, w, o) = shares[k]
    BY <2>1, <2>4, <2>7, <2>8 DEF ShareAt
  <2>10. EndAt(b, w, o) = z
    BY <2>3, <2>4 DEF EndAt
  <2>11. o < z
    BY <2>3
  <2> QED
    BY <2>2, <2>4, <2>9, <2>10, <2>11
<1>3. \A k \in 0 .. n : a[k] <= a[n]
  <2> DEFINE g == [k \in 0 .. n |-> a[n - k]]
             T == [k \in 0 .. n |-> {x \in Nat : x <= a[n]}]
  <2>1. g[0] \in T[0]
    BY <1>L
  <2>2. ASSUME NEW k \in 1 .. n, g[k - 1] \in T[k - 1] PROVE g[k] \in T[k]
    <3>1. n - k \in 0 .. n /\ n - (k - 1) \in 1 .. n /\ (n - (k - 1)) - 1 = n - k /\ k - 1 \in 0 .. n
      OBVIOUS
    <3>2. a[n - k] < a[n - (k - 1)] /\ a[n - k] \in Nat /\ a[n - (k - 1)] \in Nat /\ a[n] \in Nat
      BY <1>2, <1>L, <3>1
    <3>3. a[n - (k - 1)] <= a[n]
      BY <2>2, <3>1
    <3> QED
      BY <3>1, <3>2, <3>3
  <2>3. \A k \in 0 .. n : g[k] \in T[k]
    <3> HIDE DEF g, T
    <3> QED
      BY <2>1, <2>2, InOrder
  <2>4. ASSUME NEW k \in 0 .. n PROVE a[k] <= a[n]
    <3>1. n - k \in 0 .. n /\ n - (n - k) = k
      OBVIOUS
    <3> QED
      BY <2>3, <3>1
  <2> QED
    BY <2>4
<1>4. Track(b, w, n, a)
  <2>1. ASSUME NEW k \in 1 .. n PROVE FitsAt(b, w, a[k - 1]) /\ a[k] = EndAt(b, w, a[k - 1])
    <3>1. k \in 0 .. n
      OBVIOUS
    <3> QED
      BY <1>2, <1>3, <1>L, <3>1 DEF FitsAt
  <2> QED
    BY <1>L, <2>1 DEF Track, Frame
<1> QED
  BY <1>2, <1>4
-----------------------------------------------------------------------------
(* What a call with bytes comes to.                                        *)
SharesAt(b, w, n, r) == [k \in 1 .. n |-> ShareAt(b, w, r[k - 1])]

LEMMA BlobReads ==
  ASSUME NEW n \in Nat \ {0}, NEW w \in Nat \ {0}, NEW b, Len(b) \in Nat, Len(b) >= HEADER,
         ByteIn(b[2]) = n, ByteIn(b[3]) = w, NEW r, Track(b, w, n, r), r[n] = Len(b)
  PROVE  reconstruct_key_material_bytes(b) = reconstruct_key_material(SharesAt(b, w, n, r), DigestIn(b[1]))
<1>1. ReadShares(b, w, n) = [off |-> r[n], shares |-> SharesAt(b, w, n, r)]
  BY TrackIsRead DEF SharesAt
<1>2. PICK s, o : s = SharesAt(b, w, n, r) /\ o = r[n]
  OBVIOUS
<1>3. PICK read : read = ReadShares(b, w, n) /\ read = [off |-> o, shares |-> s]
  BY <1>1, <1>2
<1>4. Complete(b, read)
  BY <1>2, <1>3 DEF Complete, Unreadable
<1>5. ~ Len(b) < HEADER
  BY DEF HEADER
<1>6. read.shares = s
  BY <1>3
<1> QED
  BY <1>2, <1>3, <1>4, <1>5, <1>6 DEF reconstruct_key_material_bytes

LEMMA BlobOk ==
  ASSUME NEW n \in Nat, NEW w \in Nat, NEW b, Len(b) \in Nat, ByteIn(b[2]) = n, ByteIn(b[3]) = w,
         IsOk(reconstruct_key_material_bytes(b))
  PROVE  /\ Len(b) >= HEADER /\ n # 0 /\ w # 0
         /\ \E r : /\ Track(b, w, n, r) /\ r[n] = Len(b)
                   /\ IsOk(reconstruct_key_material(SharesAt(b, w, n, r), DigestIn(b[1])))
<1>1. ~ IsOk(Err("SerializationError"))
  BY DEF IsOk, Err
<1>2. PICK read : read = ReadShares(b, w, n)
  OBVIOUS
<1>3. ~ Len(b) < HEADER /\ ~ (n = 0 \/ w = 0 \/ ~ Complete(b, read))
  BY <1>1, <1>2 DEF reconstruct_key_material_bytes
<1>4. Len(b) >= HEADER
  BY <1>3 DEF HEADER
<1>5. PICK r : Track(b, w, n, r)
  BY <1>2, <1>3, ReadHasTrack DEF Complete
<1>6. r[n] = Len(b)
  <2>1. read.off = r[n]
    BY <1>2, <1>5, TrackIsRead
  <2> QED
    BY <1>3, <2>1 DEF Complete
<1>7. IsOk(reconstruct_key_material(SharesAt(b, w, n, r), DigestIn(b[1])))
  BY <1>3, <1>4, <1>5, <1>6, BlobReads
<1> QED
  BY <1>3, <1>4, <1>5, <1>6, <1>7
-----------------------------------------------------------------------------
(* What is read from bytes that give a secret.                             *)
LEMMA OkMeansInTree ==
  ASSUME NEW shares, NEW root, IsOk(reconstruct_key_material(shares, root))
  PROVE  AllInTree(shares, root)
<1>1. SetError(shares, root) = "none"
  <2> SUFFICES ASSUME SetError(shares, root) # "none" PROVE FALSE
    OBVIOUS
  <2>1. reconstruct_key_material(shares, root) = Err(SetError(shares, root))
    BY DEF reconstruct_key_material
  <2> QED
    BY <2>1 DEF IsOk, Err
<1> QED
  BY <1>1 DEF SetError

LEMMA TreeTerms ==
  ASSUME NEW d, NEW i \in 1 .. 5, NEW p, p = InclusionPath(Leaves(d), i), NEW j \in 1 .. Len(p), NEW x
  PROVE  p[j] # <<"byte", x>>
<1>1. \A a, c : merkle_node_hash(a, c) # <<"byte", x>>
  BY DEF merkle_node_hash
<1>2. \A a, c : merkle_leaf_hash(a, c) # <<"byte", x>>
  BY DEF merkle_leaf_hash
<1>3. \A k \in 1 .. 5 : Leaves(d)[k] # <<"byte", x>>
  <2>1. ASSUME NEW k \in 1 .. 5 PROVE Leaves(d)[k] = merkle_leaf_hash(k, ShareValue(d.secret, d.nonce, k))
    BY ShapeAssumption DEF Leaves
  <2> QED
    BY <1>2, <2>1
<1>4. PICK l1, l2, l3, l4, l5 : /\ l1 = Leaves(d)[1] /\ l2 = Leaves(d)[2] /\ l3 = Leaves(d)[3]
                                /\ l4 = Leaves(d)[4] /\ l5 = Leaves(d)[5]
  OBVIOUS
<1>5. PICK n1, n2, n3 : /\ n1 = merkle_node_hash(l1, l2) /\ n2 = merkle_node_hash(l3, l4)
                        /\ n3 = merkle_node_hash(n1, n2)
  OBVIOUS
<1>6. \A t \in {l1, l2, l3, l4, l5, n1, n2, n3} : t # <<"byte", x>>
  BY <1>1, <1>3, <1>4, <1>5
<1>7. \/ p = <<l2, n2, l5>> \/ p = <<l1, n2, l5>> \/ p = <<l4, n1, l5>> \/ p = <<l3, n1, l5>> \/ p = <<n3>>
  <2>1. i = 1 \/ i = 2 \/ i = 3 \/ i = 4 \/ i = 5
    OBVIOUS
  <2> QED
    BY <2>1, <1>4, <1>5 DEF InclusionPath
<1>8. p[j] \in {l1, l2, l3, l4, l5, n1, n2, n3}
  <2>1. \A a, c, e : p = <<a, c, e>> => p[j] \in {a, c, e}
    OBVIOUS
  <2>2. \A a : p = <<a>> => p[j] = a
    OBVIOUS
  <2> QED
    BY <1>7, <2>1, <2>2
<1> QED
  BY <1>6, <1>8

GenuineAt(b, w, off) ==
  /\ ByteIn(b[off + 1]) \in 1 .. 5
  /\ \A j \in 1 .. w : ByteIn(b[off + 1 + j]) \in Bytes
  /\ \A j \in 1 .. PathAt(b, off) : \A x : DigestIn(b[off + 1 + w + j]) # <<"byte", x>>

LEMMA GenuineRead ==
  ASSUME NEW d \in Splittable, NEW n \in Nat, NEW w \in Nat, NEW b, Len(b) \in Nat, NEW r, Track(b, w, n, r),
         IsOk(reconstruct_key_material(SharesAt(b, w, n, r), SplitOf[d].ok.root)), NEW k \in 1 .. n
  PROVE  GenuineAt(b, w, r[k - 1])
<1>1. PICK shares : shares = SharesAt(b, w, n, r)
  OBVIOUS
<1>2. DOMAIN shares = 1 .. n /\ shares[k] = ShareAt(b, w, r[k - 1]) /\ shares \in Seq(SharesRead(b, w))
  <2>1. \A i \in 1 .. n : i - 1 \in 0 .. n /\ ShareAt(b, w, r[i - 1]) \in SharesRead(b, w)
    BY DEF Track, SharesRead
  <2>2. shares \in [1 .. n -> SharesRead(b, w)]
    BY <1>1, <2>1 DEF SharesAt
  <2>3. shares \in Seq(SharesRead(b, w))
    BY <2>2, IsList
  <2> QED
    BY <1>1, <2>2, <2>3 DEF SharesAt
<1>3. PICK s, o : s = shares[k] /\ o = r[k - 1] /\ s = ShareAt(b, w, o)
  BY <1>2
<1>L. PICK l \in Nat : l = PathAt(b, o)
  BY ProofLen DEF PathAt
<1>4. PICK x, v, p :
        /\ x = ByteIn(b[o + 1]) /\ v = [i \in 1 .. w |-> ByteIn(b[o + 1 + i])] /\ l = PathAt(b, o)
        /\ p = [i \in 1 .. l |-> DigestIn(b[o + 1 + w + i])]
  BY <1>L
<1>5. s.index = x /\ s.value = v /\ s.path = p
  <2>1. p = [i \in 1 .. PathAt(b, o) |-> DigestIn(b[o + 1 + w + i])]
    BY <1>L, <1>4
  <2>2. ShareAt(b, w, o) = [index |-> x, value |-> v, path |-> p]
    BY <1>4, <2>1, Zenon DEF ShareAt
  <2> QED
    BY <1>3, <2>2
<1>6. d \in Deals /\ IsOk(SplitOf[d])
  BY DEF Splittable
<1>7. x \in 1 .. 5 /\ v = SplitOf[d].ok.shares[x].value
  <2>1. /\ shares[k].index \in 1 .. TOTAL_SHARES
        /\ shares[k].value = SplitOf[d].ok.shares[shares[k].index].value
    BY <1>1, <1>2, <1>6, OkMeansGenuine
  <2> QED
    BY <1>3, <1>5, <2>1, ShapeAssumption
<1>8. v \in Seq(Bytes)
  <2>1. IsShare(SplitOf[d].ok.shares[x])
    BY <1>7, DealtIsShare, ShapeAssumption
  <2> QED
    BY <1>7, <2>1 DEF IsShare
<1>9. p = InclusionPath(Leaves(d), x)
  <2>1. verify_share_in_tree(x, v, p, SplitOf[d].ok.root)
    <3>1. AllInTree(shares, SplitOf[d].ok.root)
      BY <1>1, OkMeansInTree
    <3> QED
      BY <1>2, <1>3, <1>5, <3>1 DEF AllInTree
  <2>2. p \in Seq(ToSet(p))
    <3>1. DOMAIN p = 1 .. l /\ p = [i \in 1 .. l |-> p[i]]
      BY <1>4
    <3>2. p \in [1 .. l -> ToSet(p)]
      BY <3>1 DEF ToSet
    <3> QED
      BY <3>2, IsList
  <2>3. SplitOf[d].ok.root = Root(Leaves(d))
    BY SplitIs
  <2> QED
    BY <2>1, <2>2, <2>3, PathOfTree
<1>10. \A j \in 1 .. w : ByteIn(b[o + 1 + j]) \in Bytes
  <2>1. v \in [1 .. Len(v) -> Bytes]
    BY <1>8, LengthOfList
  <2>2. DOMAIN v = 1 .. w /\ \A j \in 1 .. w : v[j] = ByteIn(b[o + 1 + j])
    BY <1>4
  <2> QED
    BY <2>1, <2>2
<1>11. \A j \in 1 .. l : \A y : DigestIn(b[o + 1 + w + j]) # <<"byte", y>>
  <2>1. Len(p) = l /\ \A j \in 1 .. l : p[j] = DigestIn(b[o + 1 + w + j])
    BY <1>4
  <2>2. \A j \in 1 .. l : \A y : p[j] # <<"byte", y>>
    BY <1>7, <1>9, <2>1, TreeTerms
  <2> QED
    BY <2>1, <2>2
<1> QED
  <2>1. GenuineAt(b, w, o)
    BY <1>4, <1>7, <1>10, <1>11 DEF GenuineAt
  <2> QED
    BY <1>3, <2>1
-----------------------------------------------------------------------------
(* Bytes and digests alternate.                                            *)
IsByte(cell)   == \E i \in Int : cell = Byte(i)
IsDigest(cell) == \E h : cell = Digest(h)

LEMMA CellKinds ==
  /\ \A cell : ~ (IsByte(cell) /\ IsDigest(cell))
  /\ \A cell : ByteIn(cell) \in Nat => ~ IsDigest(cell)
  /\ \A cell : (\A x : DigestIn(cell) # <<"byte", x>>) => ~ IsByte(cell)
<1>1. NoByte \notin Nat
  BY DEF NoByte
<1> QED
  BY <1>1, CellIs DEF IsByte, IsDigest

Shape(b, from, to, l, m) ==
  /\ to = from + 1 + l + m
  /\ \A j \in 1 .. 1 + l : IsByte(b[from + j])
  /\ \A j \in 1 .. m : IsDigest(b[from + 1 + l + j])

LEMMA RecordKinds ==
  ASSUME NEW b, NEW from \in Nat, NEW to, NEW s, IsShare(s), Record(b, from, to, s)
  PROVE  Len(s.value) \in Nat /\ Len(s.path) \in Nat /\ Shape(b, from, to, Len(s.value), Len(s.path))
<1>0. PICK x \in Nat, v \in Seq(Bytes) : x = s.index /\ v = s.value
  BY DEF IsShare
<1>1. PICK p : x = s.index /\ v = s.value /\ p = s.path /\ p \in Seq(ToSet(p))
  BY <1>0 DEF IsShare
<1>2. PICK l \in Nat, m \in Nat : l = Len(v) /\ m = Len(p)
  BY <1>1
<1>3. /\ to = from + 1 + l + m /\ b[from + 1] = Byte(x)
      /\ \A j \in 1 .. l : b[from + 1 + j] = Byte(v[j])
      /\ \A j \in 1 .. m : b[from + 1 + l + j] = Digest(p[j])
  BY <1>1, <1>2 DEF Record
<1>4. \A j \in 1 .. l : v[j] \in Int
  <2>1. v \in [1 .. Len(v) -> Bytes]
    BY LengthOfList
  <2>2. Bytes \subseteq Int
    BY DEF Bytes
  <2> QED
    BY <1>2, <2>1, <2>2
<1>5. ASSUME NEW j \in 1 .. 1 + l PROVE IsByte(b[from + j])
  <2>1. CASE j = 1
    BY <1>3, <2>1 DEF IsByte
  <2>2. CASE j # 1
    <3>1. j - 1 \in 1 .. l /\ from + 1 + (j - 1) = from + j
      BY <2>2
    <3> QED
      BY <1>3, <1>4, <3>1 DEF IsByte
  <2> QED
    BY <2>1, <2>2
<1>6. \A j \in 1 .. m : IsDigest(b[from + 1 + l + j])
  BY <1>3 DEF IsDigest
<1> QED
  BY <1>1, <1>2, <1>3, <1>5, <1>6 DEF Shape

(* Within one share no byte follows a digest.                              *)
LEMMA NoTurn ==
  ASSUME NEW b, NEW from \in Nat, NEW to \in Nat, NEW s, IsShare(s), Record(b, from, to, s),
         NEW x \in Nat, from < x, x < to, ~ IsByte(b[x])
  PROVE  IsDigest(b[x + 1])
<1>0. PICK l \in Nat, m \in Nat : Shape(b, from, to, l, m)
  BY RecordKinds
<1>1. /\ to = from + 1 + l + m
      /\ \A j \in 1 .. 1 + l : IsByte(b[from + j])
      /\ \A j \in 1 .. m : IsDigest(b[from + 1 + l + j])
  BY <1>0 DEF Shape
<1>2. x > from + 1 + l
  <2> SUFFICES ASSUME x <= from + 1 + l PROVE FALSE
    OBVIOUS
  <2>1. x - from \in 1 .. 1 + l /\ from + (x - from) = x
    OBVIOUS
  <2> QED
    BY <1>1, <2>1
<1>3. x + 1 - (from + 1 + l) \in 1 .. m /\ from + 1 + l + (x + 1 - (from + 1 + l)) = x + 1
  <2>1. to = from + 1 + l + m
    BY <1>1
  <2> QED
    BY <1>2, <2>1
<1> QED
  BY <1>1, <1>3

(* So a reader that ends where the shares end never went out of step.      *)
LEMMA InStep ==
  ASSUME NEW n \in Nat, NEW w \in Nat, NEW b, NEW shares, NEW a, NEW r, NEW root,
         Frame(b, root, shares, n, a), \A k \in 1 .. n : IsShare(shares[k]),
         Track(b, w, n, r), r[n] = Len(b),
         \A k \in 1 .. n : ~ IsDigest(b[r[k - 1] + 1]) /\ ~ IsByte(b[r[k]])
  PROVE  \A k \in 0 .. n : a[k] = r[k]
<1>1. a \in [0 .. n -> Nat] /\ r \in [0 .. n -> Nat] /\ a[0] = HEADER /\ r[0] = HEADER /\ a[n] = r[n] /\ Len(b) \in Nat
  BY DEF Frame, Track
<1>2. ASSUME NEW k \in 1 .. n
      PROVE  /\ k - 1 \in 0 .. n /\ k \in 0 .. n /\ a[k - 1] \in Nat /\ a[k] \in Nat /\ r[k - 1] \in Nat /\ r[k] \in Nat
             /\ r[k - 1] < r[k]
             /\ \A x \in Nat : a[k - 1] < x /\ x < a[k] /\ ~ IsByte(b[x]) => IsDigest(b[x + 1])
  <2>1. k - 1 \in 0 .. n /\ k \in 0 .. n
    OBVIOUS
  <2>2. Record(b, a[k - 1], a[k], shares[k]) /\ IsShare(shares[k])
    BY DEF Frame
  <2>3. \A x \in Nat : a[k - 1] < x /\ x < a[k] /\ ~ IsByte(b[x]) => IsDigest(b[x + 1])
    <3>1. PICK o, z, s : o \in Nat /\ z \in Nat /\ o = a[k - 1] /\ z = a[k] /\ s = shares[k]
      BY <1>1, <2>1
    <3>2. \A x \in Nat : o < x /\ x < z /\ ~ IsByte(b[x]) => IsDigest(b[x + 1])
      BY <2>2, <3>1, NoTurn
    <3> QED
      BY <3>1, <3>2
  <2>4. r[k - 1] < r[k]
    <3>1s. PICK l \in Nat \ {0} : StepAt(b, w, n, r, k, l)
      BY <1>1, TrackStep
    <3>1. /\ l = PathAt(b, r[k - 1]) /\ k - 1 \in 0 .. n /\ r[k - 1] \in Nat /\ r[k] \in Nat
          /\ r[k] = r[k - 1] + 1 + w + l /\ r[k] <= Len(b)
      BY <3>1s DEF StepAt
    <3> QED
      BY <3>1
  <2> QED
    BY <1>1, <2>1, <2>3, <2>4
<1> DEFINE U == [k \in 0 .. n |-> {x \in Nat : x <= r[k]}]
<1>3. a[0] \in U[0]
  BY <1>1 DEF HEADER
<1>4. ASSUME NEW k \in 1 .. n, a[k - 1] \in U[k - 1] PROVE a[k] \in U[k]
  <2>1. a[k - 1] <= r[k - 1]
    BY <1>2, <1>4
  <2>2. a[k] <= r[k]
    <3>1. CASE k = n
      BY <1>1, <1>2, <3>1
    <3>2. CASE k # n
      <4> SUFFICES ASSUME r[k] < a[k] PROVE FALSE
        BY <1>2
      <4>1. PICK x \in Nat : x = r[k]
        BY <1>2
      <4>2. a[k - 1] < x /\ x < a[k]
        BY <1>2, <2>1, <4>1
      <4>3. IsDigest(b[x + 1])
        BY <1>2, <4>1, <4>2
      <4>4. k + 1 \in 1 .. n /\ (k + 1) - 1 = k
        BY <3>2
      <4>5. ~ IsDigest(b[r[(k + 1) - 1] + 1])
        BY <4>4
      <4> QED
        BY <4>1, <4>3, <4>4, <4>5
    <3> QED
      BY <3>1, <3>2
  <2> QED
    BY <1>2, <2>2
<1>5. \A k \in 0 .. n : a[k] <= r[k]
  <2>1. \A k \in 0 .. n : a[k] \in U[k]
    <3> HIDE DEF U
    <3> QED
      BY <1>3, <1>4, InOrder
  <2> QED
    BY <2>1
<1> DEFINE g == [k \in 0 .. n |-> a[n - k]]
           D == [k \in 0 .. n |-> {r[n - k]}]
<1>6. g[0] \in D[0]
  BY <1>1
<1>7. ASSUME NEW k \in 1 .. n, g[k - 1] \in D[k - 1] PROVE g[k] \in D[k]
  <2>1. k \in 0 .. n /\ k - 1 \in 0 .. n /\ n - k \in 0 .. n /\ n - (k - 1) \in 1 .. n /\ (n - (k - 1)) - 1 = n - k
    OBVIOUS
  <2>2. PICK m \in 1 .. n : m = n - (k - 1) /\ m - 1 = n - k
    BY <2>1
  <2>3. a[m] = r[m]
    BY <1>7, <2>1, <2>2
  <2>4. a[m - 1] = r[m - 1]
    <3>1. CASE m = 1
      BY <1>1, <3>1
    <3>2. CASE m # 1
      <4> SUFFICES ASSUME a[m - 1] # r[m - 1] PROVE FALSE
        OBVIOUS
      <4>1. PICK x \in Nat : x = r[m - 1]
        BY <1>2
      <4>2. a[m - 1] < x /\ x < a[m]
        <5>1. a[m - 1] <= r[m - 1]
          BY <1>2, <1>5
        <5> QED
          BY <1>2, <2>3, <4>1, <5>1
      <4>3. m - 1 \in 1 .. n
        BY <3>2
      <4>4. ~ IsByte(b[x])
        BY <4>1, <4>3
      <4>5. IsDigest(b[x + 1])
        BY <1>2, <4>2, <4>4
      <4> QED
        BY <4>1, <4>5
    <3> QED
      BY <3>1, <3>2
  <2> QED
    BY <2>1, <2>2, <2>4
<1>8. \A k \in 0 .. n : g[k] \in D[k]
  <2> HIDE DEF g, D
  <2> QED
    BY <1>6, <1>7, InOrder
<1>9. ASSUME NEW k \in 0 .. n PROVE a[k] = r[k]
  <2>1. n - k \in 0 .. n /\ n - (n - k) = k
    OBVIOUS
  <2> QED
    BY <1>8, <2>1
<1> QED
  BY <1>9
-----------------------------------------------------------------------------
(* The header and the length of a byte form.                               *)
LEMMA FrameHeader ==
  ASSUME NEW n \in Nat \ {0}, NEW shares, \A k \in 1 .. n : IsShare(shares[k]),
         NEW b, NEW root, NEW a, Frame(b, root, shares, n, a)
  PROVE  /\ Len(b) \in Nat /\ DigestIn(b[1]) = root /\ ByteIn(b[2]) = n
         /\ Len(shares[1].value) \in Nat /\ ByteIn(b[3]) = Len(shares[1].value)
<1>1. Len(shares[1].value) \in Nat
  <2>1. IsShare(shares[1])
    OBVIOUS
  <2> QED
    BY <2>1 DEF IsShare
<1> QED
  BY <1>1, CellIs DEF Frame

(* A list with a byte form means the same in both forms.                   *)
LEMMA FrameRead ==
  ASSUME NEW n \in Nat \ {0}, NEW w \in Nat \ {0}, NEW shares,
         DOMAIN shares = 1 .. n, Len(shares) = n, shares = [k \in DOMAIN shares |-> shares[k]],
         \A k \in 1 .. n : IsShare(shares[k]), FramableAs(shares, n, w), NEW root
  PROVE  reconstruct_key_material_bytes(encode_shares(root, shares)) = reconstruct_key_material(shares, root)
<1>1. PICK b, a : b = encode_shares(root, shares) /\ Frame(b, root, shares, n, a)
  BY EncodedIs
<1>2. Track(b, w, n, a) /\ \A k \in 1 .. n : ShareAt(b, w, a[k - 1]) = shares[k]
  BY <1>1, FrameTrack
<1>3. Len(b) \in Nat /\ DigestIn(b[1]) = root /\ ByteIn(b[2]) = n /\ ByteIn(b[3]) = w
  <2>1. Len(shares[1].value) = w
    BY DEF FramableAs
  <2> QED
    BY <1>1, <2>1, FrameHeader
<1>4. Len(b) = a[n] /\ Len(b) >= HEADER
  <2>1. Len(b) = a[n]
    BY <1>1 DEF Frame
  <2>2. n \in 1 .. n
    OBVIOUS
  <2>3. 1 \in 1 .. n /\ a[1 - 1] = HEADER
    BY <1>2 DEF Track
  <2>4s. PICK l \in Nat \ {0} : StepAt(b, w, n, a, 1, l)
    BY <1>2, <1>3, <2>3, TrackStep
  <2>4. /\ l = PathAt(b, a[1 - 1]) /\ 1 - 1 \in 0 .. n /\ a[1 - 1] \in Nat /\ a[1] \in Nat
        /\ a[1] = a[1 - 1] + 1 + w + l /\ a[1] <= Len(b)
    BY <2>4s DEF StepAt
  <2> QED
    BY <1>3, <2>1, <2>3, <2>4 DEF HEADER
<1>5. SharesAt(b, w, n, a) = shares
  BY <1>2 DEF SharesAt
<1>6. reconstruct_key_material_bytes(b) = reconstruct_key_material(SharesAt(b, w, n, a), DigestIn(b[1]))
  BY <1>2, <1>3, <1>4, BlobReads
<1> QED
  BY <1>1, <1>3, <1>5, <1>6

(* Bytes of any list give a secret only if the list has a byte form.       *)
LEMMA OnlyFramable ==
  ASSUME NEW d \in Splittable, NEW n \in Nat \ {0}, NEW shares, \A k \in 1 .. n : IsShare(shares[k]),
         NEW b, NEW a, Frame(b, SplitOf[d].ok.root, shares, n, a),
         IsOk(reconstruct_key_material_bytes(b))
  PROVE  \E w \in Nat \ {0} : w = Len(shares[1].value) /\ FramableAs(shares, n, w)
<1>1. PICK w \in Nat : w = Len(shares[1].value) /\ ByteIn(b[3]) = w
  BY FrameHeader
<1>2. Len(b) \in Nat /\ ByteIn(b[2]) = n /\ DigestIn(b[1]) = SplitOf[d].ok.root
  BY FrameHeader
<1>3. w # 0 /\ \E r : /\ Track(b, w, n, r) /\ r[n] = Len(b)
                      /\ IsOk(reconstruct_key_material(SharesAt(b, w, n, r), DigestIn(b[1])))
  BY <1>1, <1>2, BlobOk
<1>4. PICK r : /\ Track(b, w, n, r) /\ r[n] = Len(b)
               /\ IsOk(reconstruct_key_material(SharesAt(b, w, n, r), SplitOf[d].ok.root))
  BY <1>2, <1>3
<1>5. ASSUME NEW k \in 1 .. n
      PROVE  /\ ~ IsDigest(b[r[k - 1] + 1])
             /\ \A j \in 1 .. w : ~ IsDigest(b[r[k - 1] + 1 + j])
             /\ \A j \in 1 .. PathAt(b, r[k - 1]) : ~ IsByte(b[r[k - 1] + 1 + w + j])
  <2>1. /\ ByteIn(b[r[k - 1] + 1]) \in 1 .. 5
        /\ \A j \in 1 .. w : ByteIn(b[r[k - 1] + 1 + j]) \in Bytes
        /\ \A j \in 1 .. PathAt(b, r[k - 1]) : \A x : DigestIn(b[r[k - 1] + 1 + w + j]) # <<"byte", x>>
    <3>1. GenuineAt(b, w, r[k - 1])
      BY <1>2, <1>4, GenuineRead
    <3> QED
      BY <3>1 DEF GenuineAt
  <2>2. 1 .. 5 \subseteq Nat /\ Bytes \subseteq Nat
    BY WidthAssumption DEF Bytes
  <2> QED
    BY <2>1, <2>2, CellKinds
<1>6. ASSUME NEW k \in 1 .. n PROVE ~ IsDigest(b[r[k - 1] + 1]) /\ ~ IsByte(b[r[k]])
  <2>1s. PICK l \in Nat \ {0} : StepAt(b, w, n, r, k, l)
    BY <1>2, <1>4, TrackStep
  <2>1. /\ l = PathAt(b, r[k - 1]) /\ k - 1 \in 0 .. n /\ r[k - 1] \in Nat /\ r[k] \in Nat
        /\ r[k] = r[k - 1] + 1 + w + l /\ r[k] <= Len(b)
    BY <2>1s DEF StepAt
  <2>2. l \in 1 .. l
    OBVIOUS
  <2> QED
    BY <1>5, <2>1, <2>2
<1>7. \A k \in 0 .. n : a[k] = r[k]
  BY <1>4, <1>6, InStep
<1>8. ASSUME NEW k \in 1 .. n
      PROVE  /\ Len(shares[k].value) = w /\ Len(shares[k].path) # 0
             /\ Len(shares[k].path) = merkle_proof_len(shares[k].index)
  <2>1s. PICK q \in Nat \ {0} : StepAt(b, w, n, r, k, q)
    BY <1>2, <1>4, TrackStep
  <2>1. /\ q = PathAt(b, r[k - 1]) /\ k - 1 \in 0 .. n /\ r[k - 1] \in Nat /\ r[k] \in Nat
        /\ r[k] = r[k - 1] + 1 + w + q /\ r[k] <= Len(b)
    BY <2>1s DEF StepAt
  <2>2o. PICK o \in Nat, z \in Nat : o = r[k - 1] /\ z = r[k]
    BY <2>1
  <2>2. PICK s : s = shares[k] /\ o = r[k - 1] /\ z = r[k]
    BY <2>2o
  <2>3. a[k - 1] = o /\ a[k] = z
    BY <1>7, <2>1, <2>2
  <2>4. IsShare(s) /\ Record(b, o, z, s)
    BY <2>2, <2>3 DEF Frame
  <2>5. PICK l \in Nat, m \in Nat : l = Len(s.value) /\ m = Len(s.path) /\ Shape(b, o, z, l, m)
    BY <2>4, RecordKinds
  <2>6. z = o + 1 + l + m /\ z = o + 1 + w + q
    BY <2>1, <2>2, <2>5 DEF Shape
  <2>7. /\ \A j \in 1 .. w : ~ IsDigest(b[o + 1 + j])
        /\ \A j \in 1 .. q : ~ IsByte(b[o + 1 + w + j])
    BY <1>5, <2>1, <2>2
  <2>8. /\ \A j \in 1 .. 1 + l : IsByte(b[o + j])
        /\ \A j \in 1 .. m : IsDigest(b[o + 1 + l + j])
    BY <2>5 DEF Shape
  <2>9. ~ l < w
    <3> SUFFICES ASSUME l < w PROVE FALSE
      OBVIOUS
    <3>1. 1 \in 1 .. m /\ l + 1 \in 1 .. w /\ o + 1 + l + 1 = o + 1 + (l + 1)
      BY <2>6
    <3> QED
      BY <2>7, <2>8, <3>1
  <2>10. ~ w < l
    <3> SUFFICES ASSUME w < l PROVE FALSE
      OBVIOUS
    <3>1. 1 \in 1 .. q /\ 1 + w + 1 \in 1 .. 1 + l /\ o + 1 + w + 1 = o + (1 + w + 1)
      BY <2>6
    <3> QED
      BY <2>7, <2>8, <3>1
  <2>11. l = w /\ m = q
    BY <2>6, <2>9, <2>10
  <2>12. q = merkle_proof_len(s.index)
    <3>1. b[o + 1] = Byte(s.index) /\ s.index \in Int
      BY <2>4 DEF Record, IsShare
    <3> QED
      BY <2>1, <2>2, <3>1, CellIs DEF PathAt
  <2> QED
    BY <2>2, <2>5, <2>11, <2>12
<1> QED
  BY <1>1, <1>3, <1>8 DEF FramableAs

(* With a wrong count or length the reader does not end at the end.        *)
LEMMA WrongLength ==
  ASSUME NEW n \in Nat, NEW w \in Nat, NEW m \in Nat, NEW b, Len(b) \in Nat, NEW c, Len(c) \in Nat,
         NEW a, Track(b, w, n, a), a[n] = Len(b), m <= n + 1, Len(c) = Len(b) \/ m = n,
         SameBody(b, c), ByteIn(c[2]) = m, ByteIn(c[3]) = w, IsOk(reconstruct_key_material_bytes(c))
  PROVE  m = n /\ Len(c) = Len(b)
<1>1. PICK r : Track(c, w, m, r) /\ r[m] = Len(c)
  BY BlobOk
<1>2. \A k \in 0 .. n : k <= m => r[k] = a[k]
  <2>1. Track(c, w, m, r)
    BY <1>1
  <2> QED
    BY <2>1, SameTrack
<1>3. CASE m = n
  BY <1>1, <1>2, <1>3
<1>4. CASE m < n
  <2>1. PICK k \in 1 .. n : k = m + 1 /\ k - 1 = m
    BY <1>4
  <2>2s. PICK l \in Nat \ {0} : StepAt(b, w, n, a, k, l)
    BY TrackStep
  <2>2. /\ l = PathAt(b, a[k - 1]) /\ k - 1 \in 0 .. n /\ a[k - 1] \in Nat /\ a[k] \in Nat
        /\ a[k] = a[k - 1] + 1 + w + l /\ a[k] <= Len(b)
    BY <2>2s DEF StepAt
  <2>3. r[m] = a[m]
    <3>1. m \in 0 .. n /\ m <= m
      BY <1>4
    <3> QED
      BY <1>2, <3>1
  <2>4. Len(c) < Len(b)
    <3>1. a[k - 1] < a[k]
      BY <2>2
    <3> QED
      BY <1>1, <2>1, <2>2, <2>3, <3>1
  <2> QED
    BY <1>4, <2>4
<1>5. CASE m = n + 1
  <2>1. PICK k \in 1 .. m : k = m /\ k - 1 = n
    BY <1>5
  <2>2s. PICK l \in Nat \ {0} : StepAt(c, w, m, r, k, l)
    BY <1>1, TrackStep
  <2>2. /\ l = PathAt(c, r[k - 1]) /\ k - 1 \in 0 .. m /\ r[k - 1] \in Nat /\ r[k] \in Nat
        /\ r[k] = r[k - 1] + 1 + w + l /\ r[k] <= Len(c)
    BY <2>2s DEF StepAt
  <2>3. r[k - 1] = Len(b)
    BY <1>2, <1>5, <2>1
  <2> QED
    BY <1>5, <2>2, <2>3
<1> QED
  BY <1>3, <1>4, <1>5

(* With a wrong width the first share is not genuine.                      *)
SameBut(b, c, i) == Len(c) = Len(b) /\ \A x \in Nat : x # i => c[x] = b[x]

LEMMA WrongWidth ==
  ASSUME NEW d \in Splittable, NEW n \in Nat \ {0}, NEW w \in Nat \ {0}, NEW shares,
         \A k \in 1 .. n : IsShare(shares[k]), FramableAs(shares, n, w),
         NEW b, NEW a, Frame(b, SplitOf[d].ok.root, shares, n, a),
         NEW c, SameBut(b, c, 3),
         NEW v \in {w - 1, w + 1}, ByteIn(c[3]) = v
  PROVE  ~ IsOk(reconstruct_key_material_bytes(c))
<1> SUFFICES ASSUME IsOk(reconstruct_key_material_bytes(c)) PROVE FALSE
  OBVIOUS
<1>0. Len(c) \in Nat /\ \A x \in Nat : x # 3 => c[x] = b[x]
  BY DEF Frame, SameBut
<1>1. v \in Nat /\ DigestIn(c[1]) = SplitOf[d].ok.root /\ ByteIn(c[2]) = n
  <2>1. DigestIn(b[1]) = SplitOf[d].ok.root /\ ByteIn(b[2]) = n
    BY FrameHeader
  <2> QED
    BY <1>0, <2>1
<1>2. PICK r : Track(c, v, n, r) /\ IsOk(reconstruct_key_material(SharesAt(c, v, n, r), SplitOf[d].ok.root))
  <2>1. \E r : /\ Track(c, v, n, r) /\ r[n] = Len(c)
               /\ IsOk(reconstruct_key_material(SharesAt(c, v, n, r), DigestIn(c[1])))
    BY <1>0, <1>1, BlobOk
  <2> QED
    BY <1>1, <2>1
<1>3. PICK k \in 1 .. n : k = 1 /\ k - 1 = 0 /\ r[k - 1] = 3
  BY <1>2 DEF Track, HEADER
<1>4. /\ \A j \in 1 .. v : ByteIn(c[3 + 1 + j]) \in Bytes
      /\ \A j \in 1 .. PathAt(c, 3) : \A x : DigestIn(c[3 + 1 + v + j]) # <<"byte", x>>
  <2>1. GenuineAt(c, v, r[k - 1])
    BY <1>0, <1>1, <1>2, GenuineRead
  <2> QED
    BY <1>3, <2>1 DEF GenuineAt
<1>5. 1 \in 1 .. PathAt(c, 3)
  <2>1s. PICK l \in Nat \ {0} : StepAt(c, v, n, r, k, l)
    BY <1>0, <1>1, <1>2, TrackStep
  <2>1. /\ l = PathAt(c, r[k - 1]) /\ k - 1 \in 0 .. n /\ r[k - 1] \in Nat /\ r[k] \in Nat
        /\ r[k] = r[k - 1] + 1 + v + l /\ r[k] <= Len(c)
    BY <2>1s DEF StepAt
  <2> QED
    BY <1>3, <2>1
<1>6. PICK s : s = shares[1] /\ IsShare(s)
  OBVIOUS
<1>7. Shape(b, 3, a[1], w, Len(s.path)) /\ Len(s.path) \in Nat /\ Len(s.path) # 0
  <2>1. Record(b, a[1 - 1], a[1], s) /\ a[1 - 1] = 3
    BY <1>3, <1>6 DEF Frame, HEADER
  <2>2. Record(b, 3, a[1], s) /\ 3 \in Nat
    BY <2>1
  <2>3. Len(s.value) = w /\ Len(s.path) # 0
    BY <1>6 DEF FramableAs
  <2> QED
    BY <1>6, <2>2, <2>3, RecordKinds
<1>8. IsByte(b[3 + 1 + w]) /\ IsDigest(b[3 + 1 + w + 1])
  <2>1. 1 + w \in 1 .. 1 + w /\ 3 + (1 + w) = 3 + 1 + w /\ 1 \in 1 .. Len(s.path)
    BY <1>7
  <2> QED
    BY <1>7, <2>1 DEF Shape
<1>9. c[3 + 1 + w] = b[3 + 1 + w] /\ c[3 + 1 + w + 1] = b[3 + 1 + w + 1]
  <2>1. PICK x \in Nat, y \in Nat : x = 3 + 1 + w /\ y = 3 + 1 + w + 1 /\ x # 3 /\ y # 3
    OBVIOUS
  <2> QED
    BY <1>0, <2>1
<1>10. CASE v = w + 1
  <2>1. w + 1 \in 1 .. v /\ 3 + 1 + (w + 1) = 3 + 1 + w + 1
    BY <1>10
  <2>2. ByteIn(c[3 + 1 + w + 1]) \in Bytes
    BY <1>4, <2>1
  <2>3. Bytes \subseteq Nat
    BY WidthAssumption DEF Bytes
  <2> QED
    BY <1>8, <1>9, <2>2, <2>3, CellKinds
<1>11. CASE v = w - 1
  <2>1. 3 + 1 + v + 1 = 3 + 1 + w
    BY <1>11
  <2>2. \A x : DigestIn(c[3 + 1 + w]) # <<"byte", x>>
    BY <1>4, <1>5, <2>1
  <2> QED
    BY <1>8, <1>9, <2>2, CellKinds
<1> QED
  BY <1>10, <1>11

(* One byte in a place of its own is changed.                              *)
WithByte(b, i, v) == [b EXCEPT ![i] = Byte(v)]

LEMMA ByteChanged ==
  ASSUME NEW S, NEW b \in Seq(S), NEW i \in 1 .. Len(b), NEW v \in Int, NEW c, c = WithByte(b, i, v)
  PROVE  SameBut(b, c, i) /\ ByteIn(c[i]) = v
<1>2. c = [b EXCEPT ![i] = Byte(v)]
  BY DEF WithByte
<1>3. ByteIn(Byte(v)) = v
  BY CellIs
<1>4. DOMAIN b = 1 .. Len(b) /\ DOMAIN c = DOMAIN b /\ c[i] = Byte(v)
  BY <1>2
<1>5. Len(c) = Len(b)
  BY <1>2
<1>6. \A x \in Nat : x # i => c[x] = b[x]
  BY <1>2
<1> QED
  BY <1>3, <1>4, <1>5, <1>6 DEF SameBut

(* Nothing is read out of bytes whose frame is disturbed.                  *)
LEMMA DisturbedRefused ==
  ASSUME NEW d \in Splittable, NEW n \in Nat \ {0}, NEW w \in Nat \ {0}, NEW shares,
         \A k \in 1 .. n : IsShare(shares[k]), FramableAs(shares, n, w),
         NEW b, NEW a, Frame(b, SplitOf[d].ok.root, shares, n, a), Track(b, w, n, a),
         NEW c \in Disturbed(b)
  PROVE  ~ IsOk(reconstruct_key_material_bytes(c))
<1>1. PICK l \in Nat : l = Len(b) /\ l >= 6 /\ l = a[n]
  <2>1. n \in 1 .. n /\ 1 \in 1 .. n
    OBVIOUS
  <2>2. Len(b) \in Nat /\ Len(b) = a[n]
    BY DEF Frame
  <2>3. PICK q \in Nat \ {0} : StepAt(b, w, n, a, 1, q)
    BY <2>1, <2>2, TrackStep
  <2>4. a[1] = a[1 - 1] + 1 + w + q /\ a[1] <= Len(b)
    BY <2>3 DEF StepAt
  <2>5. a[1 - 1] = 3
    BY DEF Track, HEADER
  <2> QED
    BY <2>2, <2>4, <2>5
<1>2. PICK S : S = ToSet(b) /\ b \in Seq(S)
  BY DEF Frame
<1>3. b[2] = Byte(n) /\ b[3] = Byte(w) /\ ByteIn(b[2]) = n /\ ByteIn(b[3]) = w
  <2>1. 1 \in 1 .. n
    OBVIOUS
  <2>2. Len(shares[1].value) = w
    BY <2>1 DEF FramableAs
  <2> QED
    BY <2>2, CellIs DEF Frame
<1>4. ASSUME NEW m \in Nat, Len(c) \in Nat, m <= n + 1, ByteIn(c[2]) = m, ByteIn(c[3]) = w, SameBody(b, c),
             \/ Len(c) = Len(b) /\ m # n
             \/ m = n /\ Len(c) # Len(b)
      PROVE  ~ IsOk(reconstruct_key_material_bytes(c))
  <2> SUFFICES ASSUME IsOk(reconstruct_key_material_bytes(c)) PROVE FALSE
    OBVIOUS
  <2>1. Len(b) \in Nat /\ a[n] = Len(b) /\ n \in Nat /\ w \in Nat
    BY <1>1
  <2>3. Len(c) = Len(b) \/ m = n
    BY <1>4
  <2>4. /\ Len(c) \in Nat /\ m <= n + 1 /\ ByteIn(c[2]) = m /\ ByteIn(c[3]) = w /\ SameBody(b, c)
        /\ m \in Nat
    BY <1>4
  <2>2. m = n /\ Len(c) = Len(b)
    BY <2>1, <2>3, <2>4, WrongLength
  <2> QED
    BY <1>4, <2>2
<1>5. CASE c = Front(b)
  <2>1. c = SubSeq(b, 1, l - 1)
    BY <1>1, <1>5 DEF Front
  <2>2. Len(c) = l - 1 /\ \A x \in 1 .. l - 1 : c[x] = b[x]
    BY <1>1, <1>2, <2>1
  <2>3. SameBody(b, c) /\ c[2] = b[2] /\ c[3] = b[3]
    BY <1>1, <2>2 DEF SameBody, HEADER
  <2> QED
    BY <1>1, <1>3, <1>4, <2>2, <2>3
<1>6. CASE c = Append(b, Last(b))
  <2>1. Len(c) = l + 1 /\ \A x \in 1 .. l : c[x] = b[x]
    <3>1. Len(b) \in DOMAIN b
      <4>1. DOMAIN b = 1 .. Len(b)
        BY <1>2, LengthOfList
      <4> QED
        BY <1>1, <4>1
    <3>2. PICK z : z = Last(b)
      OBVIOUS
    <3>3. z \in S
      BY <1>2, <3>1, <3>2 DEF Last
    <3>4. Len(Append(b, z)) = Len(b) + 1 /\ \A x \in 1 .. Len(b) : Append(b, z)[x] = b[x]
      BY <1>2, <3>3
    <3> QED
      BY <1>1, <1>6, <3>2, <3>4
  <2>2. SameBody(b, c) /\ c[2] = b[2] /\ c[3] = b[3]
    BY <1>1, <2>1 DEF SameBody, HEADER
  <2> QED
    BY <1>1, <1>3, <1>4, <2>1, <2>2
<1>7. CASE c = SubSeq(b, 1, HEADER - 1)
  <2>1. Len(c) = 2
    BY <1>1, <1>2, <1>7 DEF HEADER
  <2>2. reconstruct_key_material_bytes(c) = Err("SerializationError")
    BY <2>1 DEF reconstruct_key_material_bytes, HEADER
  <2> QED
    BY <2>2 DEF IsOk, Err
<1>8. ASSUME NEW m \in {n - 1, n + 1}, c = [b EXCEPT ![2].byte = m]
      PROVE  ~ IsOk(reconstruct_key_material_bytes(c))
  <2>1. 2 \in 1 .. Len(b) /\ m \in Int /\ m \in Nat /\ m # n /\ m <= n + 1
    BY <1>1
  <2>2. SameBut(b, c, 2) /\ ByteIn(c[2]) = m
    <3>1. [Byte(n) EXCEPT !.byte = m] = Byte(m)
      BY DEF Byte
    <3>2. c = WithByte(b, 2, m)
      BY <1>3, <1>8, <3>1 DEF WithByte
    <3> QED
      BY <1>2, <2>1, <3>2, ByteChanged
  <2>3. SameBody(b, c) /\ c[3] = b[3] /\ Len(c) = Len(b)
    BY <2>2 DEF SameBody, SameBut, HEADER
  <2> QED
    BY <1>1, <1>3, <1>4, <2>1, <2>2, <2>3
<1>9. ASSUME NEW v \in {w - 1, w + 1}, c = [b EXCEPT ![3].byte = v]
      PROVE  ~ IsOk(reconstruct_key_material_bytes(c))
  <2>1. 3 \in 1 .. Len(b) /\ v \in Int
    BY <1>1
  <2>2. SameBut(b, c, 3) /\ ByteIn(c[3]) = v
    <3>1. [Byte(w) EXCEPT !.byte = v] = Byte(v)
      BY DEF Byte
    <3>2. c = WithByte(b, 3, v)
      BY <1>3, <1>9, <3>1 DEF WithByte
    <3> QED
      BY <1>2, <2>1, <3>2, ByteChanged
  <2> QED
    BY <2>2, WrongWidth
<1>10. b[2].byte = n /\ b[3].byte = w
  BY <1>3 DEF Byte
<1>11. \/ c = Front(b) \/ c = Append(b, Last(b)) \/ c = SubSeq(b, 1, HEADER - 1)
       \/ c = [b EXCEPT ![2].byte = n + 1] \/ c = [b EXCEPT ![2].byte = n - 1]
       \/ c = [b EXCEPT ![3].byte = w + 1] \/ c = [b EXCEPT ![3].byte = w - 1]
  BY <1>10 DEF Disturbed
<1> QED
  BY <1>5, <1>6, <1>7, <1>8, <1>9, <1>11

(* A list of shares with a byte form.                                      *)
LEMMA FramableIs ==
  ASSUME NEW n \in Nat \ {0}, NEW shares, DOMAIN shares = 1 .. n, \A k \in 1 .. n : IsShare(shares[k])
  PROVE  Framable(shares) <=> \E w \in Nat \ {0} : FramableAs(shares, n, w)
<1>0. PICK v : v = shares[1].value
  OBVIOUS
<1>1. PICK w \in Nat : v = shares[1].value /\ w = Len(v) /\ (v # <<>> => w # 0) /\ (v = <<>> => w = 0)
  <2>1. IsShare(shares[1])
    OBVIOUS
  <2>2. shares[1].value \in Seq(Bytes)
    BY <2>1 DEF IsShare
  <2> QED
    BY <1>0, <2>2, LengthOfList
<1>2. 1 \in 1 .. n /\ shares # <<>>
  OBVIOUS
<1>3. ASSUME Framable(shares) PROVE \E x \in Nat \ {0} : FramableAs(shares, n, x)
  <2>1. w # 0
    BY <1>1, <1>3 DEF Framable
  <2>2. FramableAs(shares, n, w)
    BY <1>1, <1>3 DEF Framable, FramableAs
  <2> QED
    BY <2>1, <2>2
<1>4. ASSUME NEW x \in Nat \ {0}, FramableAs(shares, n, x) PROVE Framable(shares)
  <2>1. x = w
    BY <1>1, <1>2, <1>4 DEF FramableAs
  <2>2. v # <<>>
    BY <1>1, <2>1
  <2> QED
    BY <1>1, <1>2, <1>4, <2>1, <2>2 DEF FramableAs, Framable
<1> QED
  BY <1>3, <1>4

(* What the bytes of any list come to, beside the list itself.             *)
LEMMA BytesOfList ==
  ASSUME NEW d \in Splittable, NEW n \in Nat \ {0}, NEW shares, DOMAIN shares = 1 .. n, Len(shares) = n,
         shares = [k \in DOMAIN shares |-> shares[k]], \A k \in 1 .. n : IsShare(shares[k]),
         NEW root, root = SplitOf[d].ok.root, NEW bytes, bytes = encode_shares(root, shares)
  PROVE  IF Framable(shares)
         THEN /\ reconstruct_key_material_bytes(bytes) = reconstruct_key_material(shares, root)
              /\ \A b \in Disturbed(bytes) : ~ IsOk(reconstruct_key_material_bytes(b))
         ELSE ~ IsOk(reconstruct_key_material_bytes(bytes))
<1>1. PICK a : Frame(bytes, root, shares, n, a)
  BY EncodedIs
<1>2. Frame(bytes, SplitOf[d].ok.root, shares, n, a)
  BY <1>1
<1>3. ASSUME Framable(shares)
      PROVE  /\ reconstruct_key_material_bytes(bytes) = reconstruct_key_material(shares, root)
             /\ \A b \in Disturbed(bytes) : ~ IsOk(reconstruct_key_material_bytes(b))
  <2>1. PICK w \in Nat \ {0} : FramableAs(shares, n, w)
    BY <1>3, FramableIs
  <2>2. reconstruct_key_material_bytes(bytes) = reconstruct_key_material(shares, root)
    BY <2>1, FrameRead
  <2>3. Track(bytes, w, n, a)
    BY <1>1, <2>1, FrameTrack
  <2>4. ASSUME NEW b \in Disturbed(bytes) PROVE ~ IsOk(reconstruct_key_material_bytes(b))
    BY <1>2, <2>1, <2>3, DisturbedRefused
  <2> QED
    BY <2>2, <2>4
<1>4. ASSUME ~ Framable(shares) PROVE ~ IsOk(reconstruct_key_material_bytes(bytes))
  <2> SUFFICES ASSUME IsOk(reconstruct_key_material_bytes(bytes)) PROVE FALSE
    OBVIOUS
  <2>1. \E w \in Nat \ {0} : w = Len(shares[1].value) /\ FramableAs(shares, n, w)
    BY <1>2, OnlyFramable
  <2> QED
    BY <1>4, <2>1, FramableIs
<1> QED
  BY <1>3, <1>4

(* The dealer's own list.                                                  *)
LEMMA DealtList ==
  ASSUME NEW d \in Splittable
  PROVE  LET shares == SplitOf[d].ok.shares
         IN  /\ DOMAIN shares = 1 .. 5 /\ Len(shares) = 5 /\ shares = [k \in DOMAIN shares |-> shares[k]]
             /\ \A k \in 1 .. 5 : IsShare(shares[k])
             /\ SharesOf(shares, 5, d) /\ Framable(shares)
<1>1. PICK shares : shares = SplitOf[d].ok.shares
  OBVIOUS
<1>2. shares = [i \in 1 .. 5 |-> [index |-> i, value |-> ShareValue(d.secret, d.nonce, i), path |-> InclusionPath(Leaves(d), i)]]
  BY <1>1, SplitParts, ShapeAssumption
<1>3. DOMAIN shares = 1 .. 5 /\ shares = [k \in DOMAIN shares |-> shares[k]] /\ Len(shares) = 5
  <2>1. shares \in [1 .. 5 -> ToSet(shares)]
    BY <1>2 DEF ToSet
  <2>2. Len(shares) = 5
    BY <2>1, IsList
  <2> QED
    BY <1>2, <2>2
<1>4. \A k \in 1 .. 5 : IsShare(shares[k])
  BY <1>1, DealtIsShare, ShapeAssumption
<1>5. ASSUME NEW k \in 1 .. 5
      PROVE  /\ shares[k].index = k /\ shares[k].value = ShareValue(d.secret, d.nonce, k)
             /\ shares[k].path = InclusionPath(Leaves(d), k)
  BY <1>2
<1>6. SharesOf(shares, 5, d)
  <2>1. \A i \in 1 .. 5 : shares[i].index = i /\ shares[i] = SplitOf[d].ok.shares[shares[i].index]
    BY <1>1, <1>5
  <2>2. 5 \in THRESHOLD_K .. TOTAL_SHARES /\ Indices = 1 .. 5
    BY ShapeAssumption DEF Indices
  <2> QED
    BY <1>3, <2>1, <2>2 DEF SharesOf
<1>7. PICK m \in Nat \ {0} : Shareable(d.secret, d.nonce, m)
  BY SplitShareable
<1>8. PICK w \in Nat \ {0} : w = m * EVAL_BYTES
  BY WidthAssumption
<1>9. FramableAs(shares, 5, w)
  <2>1. ASSUME NEW k \in 1 .. 5
        PROVE  /\ Len(shares[k].value) = w /\ Len(shares[k].path) # 0
               /\ Len(shares[k].path) = merkle_proof_len(shares[k].index)
    <3>1. k \in Int /\ merkle_proof_len(k) # 0
      BY DEF merkle_proof_len
    <3>2. Len(ShareValue(d.secret, d.nonce, k)) = w
      BY <1>7, <1>8, <3>1, ShareValueIs
    <3>3. Len(InclusionPath(Leaves(d), k)) = merkle_proof_len(k)
      BY PathInTree
    <3> QED
      BY <1>5, <3>1, <3>2, <3>3
  <2> QED
    BY <2>1 DEF FramableAs
<1>10. Framable(shares)
  <2>1. 5 \in Nat \ {0}
    OBVIOUS
  <2> QED
    BY <1>3, <1>4, <1>9, <2>1, FramableIs
<1> QED
  BY <1>1, <1>3, <1>4, <1>6, <1>10
-----------------------------------------------------------------------------
(* An answer is what the call returns on the list as it stands.            *)
AnswerIs ==
  answer # NoAnswer =>
    /\ answer.of \in Deals
    /\ IsOk(SplitOf[answer.of]) =>
         answer.result = reconstruct_key_material(tray, SplitOf[answer.of].ok.root)
    /\ ~ IsOk(SplitOf[answer.of]) => answer.result = SplitOf[answer.of]

BlobInv == TypeInv /\ AnswerIs

LEMMA BlobStep == BlobInv /\ [Next]_vars => BlobInv'
<1> SUFFICES ASSUME BlobInv, [Next]_vars PROVE AnswerIs'
  BY TypeStep DEF BlobInv
<1>1. ASSUME NEW d \in Deals, Split(d) PROVE AnswerIs'
  <2>1. CASE IsOk(SplitOf[d])
    BY <1>1, <2>1 DEF Split, AnswerIs
  <2>2. CASE ~ IsOk(SplitOf[d])
    <3>1. answer'.of = d /\ answer'.result = SplitOf[d]
      BY <1>1, <2>2 DEF Split
    <3> QED
      BY <2>2, <3>1 DEF AnswerIs
  <2> QED
    BY <2>1, <2>2
<1>2. ASSUME NEW d \in dealt, NEW i \in 1 .. TOTAL_SHARES,
             Collect(SplitOf[d].ok.shares[i]) \/ CollectAltered(SplitOf[d].ok.shares[i])
      PROVE  AnswerIs'
  BY <1>2 DEF Collect, CollectAltered, AnswerIs
<1>3. ASSUME Discard PROVE AnswerIs'
  BY <1>3 DEF Discard, AnswerIs
<1>4. ASSUME NEW d \in dealt, Reconstruct(d) PROVE AnswerIs'
  <2>1. d \in Deals /\ IsOk(SplitOf[d])
    BY DEF BlobInv, TypeInv, IInv
  <2>2. answer'.of = d /\ answer'.result = reconstruct_key_material(tray, SplitOf[d].ok.root) /\ tray' = tray
    BY <1>4 DEF Reconstruct
  <2> QED
    BY <2>1, <2>2 DEF AnswerIs
<1>5. CASE UNCHANGED vars
  BY <1>5 DEF vars, BlobInv, AnswerIs
<1> QED
  BY <1>1, <1>2, <1>3, <1>4, <1>5 DEF Next

(* Both forms of a call agree on every list that has a byte form, and no   *)
(* other list and no disturbed frame gives a secret: whatever custodians   *)
(* do to the shares, for every secret, nonce and number of limbs.          *)
THEOREM ByteForm == Spec => []BlobAgrees
<1>1. BlobInv => BlobAgrees
  <2> SUFFICES ASSUME BlobInv, answer # NoAnswer PROVE BlobAgrees
    BY DEF BlobAgrees
  <2>1. PICK d : d = answer.of /\ d \in Deals
    BY DEF BlobInv, AnswerIs
  <2>2. SplitOf[d] = split_key_material(d.secret, d.nonce)
    BY <2>1 DEF SplitOf
  <2>3. CASE ~ IsOk(SplitOf[d])
    <3>1. split_key_material_bytes(d.secret, d.nonce) = answer.result
      BY <2>1, <2>2, <2>3 DEF split_key_material_bytes, BlobInv, AnswerIs
    <3> QED
      BY <2>1, <2>3, <3>1 DEF BlobAgrees
  <2>4. CASE IsOk(SplitOf[d])
    <3>1. d \in Splittable
      BY <2>1, <2>4 DEF Splittable
    <3>2. PICK root : root = SplitOf[d].ok.root
      OBVIOUS
    <3>3. answer.result = reconstruct_key_material(tray, root)
      BY <2>1, <2>4, <3>2 DEF BlobInv, AnswerIs
    <3>4. CASE tray = <<>>
      <4>1. PICK shares : shares = SplitOf[d].ok.shares
        OBVIOUS
      <4>2. PICK bytes : bytes = encode_shares(root, shares)
        OBVIOUS
      <4>3. split_key_material_bytes(d.secret, d.nonce).ok = bytes
        BY <2>2, <2>4, <3>2, <4>1, <4>2 DEF split_key_material_bytes, Ok
      <4>4. /\ DOMAIN shares = 1 .. 5 /\ Len(shares) = 5 /\ shares = [k \in DOMAIN shares |-> shares[k]]
            /\ \A k \in 1 .. 5 : IsShare(shares[k])
            /\ SharesOf(shares, 5, d) /\ Framable(shares) /\ 5 \in Nat \ {0}
        BY <3>1, <4>1, DealtList
      <4>5. reconstruct_key_material_bytes(bytes) = reconstruct_key_material(shares, root)
        BY <3>1, <3>2, <4>2, <4>4, BytesOfList
      <4>6. reconstruct_key_material(shares, root) = Ok(d.secret)
        BY <3>1, <3>2, <4>4, SharesReconstruct
      <4>7. reconstruct_key_material_bytes(split_key_material_bytes(d.secret, d.nonce).ok) = Ok(d.secret)
        BY <4>3, <4>5, <4>6
      <4> QED
        BY <2>1, <2>4, <3>4, <4>7 DEF BlobAgrees
    <3>5. CASE tray # <<>>
      <4>1. PICK shares \in Seq(Arrivals) : shares = tray
        BY DEF BlobInv, TypeInv, IInv
      <4>2. PICK n \in Nat \ {0} : n = Len(shares)
        BY <3>5, <4>1, LengthOfList
      <4>3. DOMAIN shares = 1 .. n /\ Len(shares) = n /\ shares = [k \in DOMAIN shares |-> shares[k]]
        BY <4>2
      <4>4. \A k \in 1 .. n : IsShare(shares[k])
        BY <4>1, <4>3 DEF BlobInv, TypeInv, SharesInv
      <4>5. PICK bytes : bytes = encode_shares(root, shares)
        OBVIOUS
      <4>6. IF Framable(shares)
            THEN /\ reconstruct_key_material_bytes(bytes) = reconstruct_key_material(shares, root)
                 /\ \A b \in Disturbed(bytes) : ~ IsOk(reconstruct_key_material_bytes(b))
            ELSE ~ IsOk(reconstruct_key_material_bytes(bytes))
        BY <3>1, <3>2, <4>3, <4>4, <4>5, BytesOfList
      <4>7. bytes = encode_shares(SplitOf[answer.of].ok.root, tray) /\ IsOk(SplitOf[answer.of])
        BY <2>1, <2>4, <3>2, <4>1, <4>5
      <4> QED
        BY <3>3, <3>5, <4>1, <4>6, <4>7 DEF BlobAgrees
    <3> QED
      BY <3>4, <3>5
  <2> QED
    BY <2>3, <2>4
<1>2. Init => BlobInv
  <2>1. Init => TypeInv
    BY Initially DEF Init, TypeInv, SharesInv, AnswerTyped
  <2> QED
    BY <2>1 DEF Init, BlobInv, AnswerIs
<1> QED
  BY <1>1, <1>2, BlobStep, PTL DEF Spec
=============================================================================
