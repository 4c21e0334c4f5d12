----------------------------- MODULE NormMasks -----------------------------
(***************************************************************************)
(* What the norm checks of src/src/saap.rs and src/src/sampling.rs promise *)
(* of one word.  The state is the input; nothing moves.                    *)
(***************************************************************************)
EXTENDS Centered, Input

WordInput == \E w \in Words : input = [kind |-> "word", word |-> w]

(* The norm checks compute with sign masks and additions that may wrap.    *)
(* For every word and every bound above zero they flag exactly a magnitude *)
(* at or above the bound, the most negative word included; and the check   *)
(* on unsigned coefficients decides as the one on centred ones.            *)
NormMasksExact ==
  input.kind = "word" =>
    \A bound \in 1 .. 2 ^ (WORD - 1) - 1 :
      LET c == input.word
      IN  /\ ct_is_out_of_bounds(c, bound) = IF c >= bound \/ c <= - bound THEN AllOnes ELSE 0
          /\ c \in Coeffs =>
               (poly_check_infinity_norm([d \in Degrees |-> c], bound)
                  <=> ct_is_out_of_bounds(mod_q(c), bound) = 0)
=============================================================================
