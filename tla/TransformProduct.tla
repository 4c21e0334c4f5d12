------------------------- MODULE TransformProduct -------------------------
(***************************************************************************)
(* What the fast multiplication promises (src/src/plp.rs: poly_mul_ntt     *)
(* beside poly_mul_schoolbook; src/src/saap.rs and src/src/sampling.rs:    *)
(* the same over centred coefficients).  The state is the input; nothing   *)
(* moves.                                                                  *)
(***************************************************************************)
EXTENDS Centered, Input

CONSTANTS LeftFactors, RightFactors   \* the polynomials multiplied

ASSUME FactorAssumption == LeftFactors \subseteq Poly /\ RightFactors \subseteq Poly

ProductInput ==
  \E a \in LeftFactors, b \in RightFactors : input = [kind |-> "product", a |-> a, b |-> b]

(* Every fast multiplication gives the reference product, over reduced and *)
(* over centred coefficients, and the bridge between the two forms comes   *)
(* back to where it started (comments on poly_mul_ntt and on saap.rs's     *)
(* poly_mul_schoolbook).                                                   *)
ProductsAgree ==
  input.kind = "product" =>
    LET x == from_plp_poly(input.a)
        y == from_plp_poly(input.b)
    IN  /\ poly_mul_ntt(input.a, input.b) = MulSchoolbook(input.a, input.b)
        /\ poly_mul_negacyclic(x, y) = poly_mul_schoolbook(x, y)
        /\ poly_mul_centered(x, y) = poly_mul_schoolbook(x, y)
        /\ to_plp_poly(x) = input.a /\ from_plp_poly(to_plp_poly(x)) = x
=============================================================================
