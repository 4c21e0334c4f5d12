------------------------- MODULE ChallengeProduct -------------------------
(***************************************************************************)
(* What the product of a challenge and a short polynomial promises         *)
(* (src/src/plp.rs: the samplers of both, poly_mul_schoolbook and          *)
(* poly_infinity_norm).  The state is the input; nothing moves.            *)
(***************************************************************************)
EXTENDS PlpRing, Input

CONSTANTS
  Weight,  \* CHALLENGE_WEIGHT
  Eta      \* bound of a short coefficient

ASSUME ProductParameters == Weight \in Nat /\ Eta \in Nat

ShortPolys == {s \in Poly : InfinityNorm(s) <= Eta}

ResponseInput ==
  \E c \in ChallengePolys(Weight), s \in ShortPolys : input = [kind |-> "response", c |-> c, s |-> s]

(* The relation the compile-time assertion on BETA stands for: a challenge *)
(* times a short polynomial is bounded by Weight * Eta, also where the     *)
(* product wraps around X^N = -1.                                          *)
ChallengeBound ==
  input.kind = "response" => InfinityNorm(MulSchoolbook(input.c, input.s)) <= Weight * Eta
=============================================================================
