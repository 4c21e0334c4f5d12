------------------------------- MODULE MCPlp -------------------------------
(***************************************************************************)
(* Plp over a ring small enough to enumerate: N = 2, q = 7, rank 1, so 49  *)
(* vectors; a challenge has one non-zero coefficient and a short vector    *)
(* coefficients in -1..1, so beta = 1.  With gamma1 = 3 a response is      *)
(* returned when its norm is at most 1, and the masks below are always,    *)
(* sometimes or never accepted, depending on the challenge and the secret. *)
(***************************************************************************)
EXTENDS Plp, FiniteSets

Ring == INSTANCE PlpRing WITH N <- 2, Q <- 7, K <- 1

Vector(a, b) == <<[i \in 0 .. 1 |-> IF i = 0 THEN a ELSE b]>>

MCVec      == Ring!PolyVec
MCMat      == {<<Vector(2, 3)>>, <<Vector(4, 1)>>}
MCShort    == Ring!ShortVecs(1)
MCChalPoly == Ring!ChallengePolys(1)
MCZero     == Ring!ZeroVec

MCAdd(u, v)   == Ring!VecAdd(u, v)
MCSub(u, v)   == Ring!VecSub(u, v)
MCApply(A, v) == Ring!MatVecMul(A, v)
MCScale(c, v) == Ring!ScalarVecMul(c, v)
MCNorm(v)     == Ring!VecInfinityNorm(v)

(* Two contexts that pad to one tag, and one that pads to another.         *)
MCPad(ctx) == IF ctx = "other" THEN "tag2" ELSE "tag1"

Number(x) ==
  CASE x \in {"id1", "rho1", "tag1", "ctx"} -> 0
    [] x \in {"id2", "rho2", "tag2", "ctx padded"} -> 1
    [] x = "other" -> 2

(* Which function the hash is: the kind of mask of each attempt at tag1    *)
(* for id1, the others being rotations of it, and a shift of the challenge. *)
Masks == <<Vector(0, 0), Vector(1, 6), Vector(3, 0)>>

MCOracle == [mask : [0 .. Ceiling - 1 -> 0 .. 2], shift : 0 .. 1]

(* One of them, in which every kind of mask still occurs in both attempts. *)
MCOneOracle == {[mask |-> [i \in 0 .. Ceiling - 1 |-> i % 3], shift |-> 0]}

MCSecretOf(o, id)   == IF id = "id1" THEN Vector(1, 6) ELSE Vector(0, 1)
MCMatrixOf(o, x)    == IF Number(x[1]) + Number(x[2][1]) = 1
                       THEN <<Vector(4, 1)>> ELSE <<Vector(2, 3)>>
MCErrorOf(o, x)     == CASE x[2] = "ctx"        -> Vector(1, 0)
                         [] x[2] = "ctx padded" -> Vector(6, 1)
                         [] x[2] = "other"      -> Vector(0, 6)
MCMaskOf(o, key)    == Masks[1 + ((o.mask[key[3]] + Number(key[1]) + 2 * Number(key[2])) % 3)]
MCChallengeOf(o, t) ==
  LET n == (t.w[1][0] + 2 * t.w[1][1] + t.public_b[1][0] + t.public_b[1][1]
              + Number(t.tau) + Number(t.salt[1]) + o.shift) % 4
      sign == IF n < 2 THEN 1 ELSE 6
  IN  [i \in 0 .. 1 |-> IF i = n % 2 THEN sign ELSE 0]
=============================================================================
