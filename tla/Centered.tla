------------------------------ MODULE Centered ------------------------------
(***************************************************************************)
(* The second convention for coefficients: centred in (-Q/2, Q/2] and kept *)
(* in signed words, by src/src/saap.rs and src/src/sampling.rs, where plp  *)
(* keeps 0 .. Q - 1.  Norms are tested with masks instead of comparisons.  *)
(***************************************************************************)
EXTENDS Ntt

CONSTANT WORD   \* bits of a signed word; the code's 32

(* The last three conjuncts are arithmetic, stated because the provers do  *)
(* not know exponentiation.                                                *)
ASSUME WordAssumption ==
  /\ WORD \in Nat /\ WORD > 2 /\ Q < 2 ^ (WORD - 1)
  /\ 2 ^ (WORD - 1) \in Nat /\ 2 ^ (WORD - 1) > 1 /\ 2 ^ WORD = 2 * 2 ^ (WORD - 1)

CenteredPoly == [Degrees -> - ((Q - 1) \div 2) .. Q \div 2]
CenteredVec  == [Rows -> CenteredPoly]

(* A mutation: the residue is left where it is.                            *)
mod_q_Uncentered(x) == x % Q

(* The representative in (-Q/2, Q/2].  The code finds it in two branches,  *)
(* one because its % rounds towards zero, one because it lies too high.    *)
mod_q(x) == ((x + (Q - 1) \div 2) % Q) - (Q - 1) \div 2

saap_poly_add(a, b) == [i \in Degrees |-> mod_q(a[i] + b[i])]
saap_poly_sub(a, b) == [i \in Degrees |-> mod_q(a[i] - b[i])]

to_plp_poly(p) == [i \in Degrees |-> p[i] + (IF p[i] < 0 THEN Q ELSE 0)]

from_plp_poly(p) == [i \in Degrees |-> mod_q(p[i])]

poly_mul_negacyclic(a, b) == from_plp_poly(poly_mul_ntt(to_plp_poly(a), to_plp_poly(b)))

(* Reduced after every product.                                            *)
poly_mul_schoolbook(a, b) ==
  LET Term(i, j) == IF i + j < N THEN a[i] * b[j] ELSE - a[i] * b[j]
  IN  [k \in Degrees |->
         FoldLeft(LAMBDA acc, i : mod_q(acc + Term(i - 1, (k - (i - 1)) % N)),
                  0, [i \in 1 .. N |-> i])]

(* The fixed-time sampler has its own pair, reduced once at the end.       *)
poly_mul_centered(a, b) ==
  LET tmp == [k \in 0 .. 2 * N - 1 |->
                MapThenSumSet(LAMBDA i : a[i] * b[k - i], {i \in Degrees : k - i \in Degrees})]
  IN  [i \in Degrees |-> mod_q(tmp[i] - tmp[i + N])]

poly_add_centered(a, b) == [i \in Degrees |-> mod_q(a[i] + b[i])]
-----------------------------------------------------------------------------
(* Words.  Wrap is what the build without overflow checks computes.        *)
Words    == - (2 ^ (WORD - 1)) .. 2 ^ (WORD - 1) - 1
Wrap(x)  == ((x + 2 ^ (WORD - 1)) % 2 ^ WORD) - 2 ^ (WORD - 1)
AllOnes  == 2 ^ WORD - 1
SignBit(x) == IF x < 0 THEN 1 ELSE 0

(* (coeff + mask) ^ mask, the mask being all zeros or all ones: exclusive  *)
(* or with all ones is -1 - x.                                             *)
ct_abs(coeff) == IF coeff < 0 THEN -1 - Wrap(coeff - 1) ELSE coeff

(* A mutation: the bound itself passes.                                    *)
ct_is_out_of_bounds_Inclusive(coeff, bound) == SignBit(Wrap(bound - ct_abs(coeff))) * AllOnes

ct_is_out_of_bounds(coeff, bound) == SignBit(Wrap((bound - 1) - ct_abs(coeff))) * AllOnes

(* The masks are or-ed together, and each is all zeros or all ones.        *)
ct_check_norm_bound(z, bound) ==
  IF \E k \in Rows, n \in Degrees : ct_is_out_of_bounds(z[k][n], bound) # 0 THEN AllOnes ELSE 0

(* The same test on a coefficient kept in 0 .. Q - 1, and the verifier's.  *)
poly_check_infinity_norm(p, bound) ==
  \A i \in Degrees :
    LET centered == IF p[i] > Q \div 2 THEN p[i] - Q ELSE p[i]
    IN  ct_is_out_of_bounds(centered, bound) = 0

verify_response_norm(z, bound) == ct_check_norm_bound(z, bound)

Complement(mask) == AllOnes - mask
=============================================================================
