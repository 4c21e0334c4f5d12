------------------------------ MODULE PlpRing ------------------------------
(***************************************************************************)
(* The module arithmetic of src/src/plp.rs: polynomials of                 *)
(* R_q = Z_q[X]/(X^N + 1) with canonical coefficients 0..Q-1, vectors of K *)
(* of them and K x K matrices.  The crate fixes N = 256, Q = 8380417 and   *)
(* K = 4; every function here is generic in them, as the code is.          *)
(***************************************************************************)
EXTENDS Integers, FiniteSetsExt

CONSTANTS
  N,  \* ring degree
  Q,  \* modulus
  K   \* module rank

ASSUME RingParameters ==
  /\ N \in Nat \ {0}
  /\ Q \in Nat /\ Q > 2
  /\ K \in Nat \ {0}

Degrees == 0 .. N - 1
Coeffs  == 0 .. Q - 1
Rows    == 1 .. K

Poly    == [Degrees -> Coeffs]
PolyVec == [Rows -> Poly]
PolyMat == [Rows -> [Rows -> Poly]]

ZeroPoly == [i \in Degrees |-> 0]
ZeroVec  == [j \in Rows |-> ZeroPoly]

(* One conditional subtraction or addition instead of a division.          *)
AddMod(a, b) == IF a + b >= Q THEN a + b - Q ELSE a + b
SubMod(a, b) == IF a >= b THEN a - b ELSE a + Q - b

PolyAdd(p, r) == [i \in Degrees |-> AddMod(p[i], r[i])]
PolySub(p, r) == [i \in Degrees |-> SubMod(p[i], r[i])]

(* The convolution is accumulated over 2N cells; the upper half wraps with *)
(* a negation because X^N = -1.                                            *)
MulSchoolbook(p, r) ==
  LET tmp == [k \in 0 .. 2 * N - 1 |->
                MapThenSumSet(LAMBDA i : p[i] * r[k - i],
                              {i \in Degrees : k - i \in Degrees})]
  IN  [i \in Degrees |-> (tmp[i] - tmp[i + N]) % Q]

(* The absolute value of a coefficient read in (-Q/2, Q/2].                *)
Centered(c) == IF c > Q \div 2 THEN Q - c ELSE c

InfinityNorm(p)    == Max({Centered(p[i]) : i \in Degrees})
VecInfinityNorm(v) == Max({InfinityNorm(v[j]) : j \in Rows})

VecAdd(u, v) == [j \in Rows |-> PolyAdd(u[j], v[j])]
VecSub(u, v) == [j \in Rows |-> PolySub(u[j], v[j])]

ScalarVecMul(c, v) == [j \in Rows |-> MulSchoolbook(c, v[j])]

MatVecMul(a, v) ==
  [i \in Rows |->
     MapThenFoldSet(PolyAdd, ZeroPoly,
                    LAMBDA j : MulSchoolbook(a[i][j], v[j]),
                    LAMBDA S : CHOOSE j \in S : TRUE,
                    Rows)]

(* The ranges of the samplers: the centred binomial distribution of        *)
(* parameter eta gives coefficients in -eta..eta, the mask sampler         *)
(* coefficients in -g..g, and the challenge sampler exactly `weight`       *)
(* coefficients equal to 1 or to Q - 1, the others 0.                      *)
ShortVecs(eta) == {v \in PolyVec : VecInfinityNorm(v) <= eta}

(* A mutation: the sampler places one coefficient too many.              *)
ChallengePolys_OneMore(weight) ==
  {p \in [Degrees -> {0, 1, Q - 1}] :
     Cardinality({i \in Degrees : p[i] # 0}) = weight + 1}

ChallengePolys(weight) ==
  {p \in [Degrees -> {0, 1, Q - 1}] :
     Cardinality({i \in Degrees : p[i] # 0}) = weight}
=============================================================================
