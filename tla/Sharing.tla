------------------------------ MODULE Sharing ------------------------------
(***************************************************************************)
(* What a sharing polynomial over Z_q promises: the field arithmetic of    *)
(* src/src/htss.rs for one polynomial, dealt to any lists of shares.  The  *)
(* state is the input; nothing moves.                                      *)
(***************************************************************************)
EXTENDS Shamir, FiniteSets, Input

(* The coefficients of a polynomial, the shared secret first.              *)
SharingInput == \E f \in [1 .. THRESHOLD_K -> Field] : input = [kind |-> "sharing", f |-> f]

Indices == 1 .. TOTAL_SHARES

(* Shares of a secret that may lie above the field, in any order.          *)
Points(f, xs) ==
  LET shares == split_secret(f[1] + f[THRESHOLD_K] * MODULUS_Q, Tail(f), TOTAL_SHARES)
  IN  [i \in DOMAIN xs |-> shares[xs[i]]]

Lists == UNION {[1 .. n -> Indices] : n \in THRESHOLD_K - 1 .. THRESHOLD_K + 1}

IsInjectiveList(xs) == \A i, j \in DOMAIN xs : i # j => xs[i] # xs[j]

(* Any list of distinct points of a sharing polynomial in any order gives  *)
(* the value at zero if it reaches the threshold, and nothing below it.    *)
DistinctPointsReconstruct ==
  input.kind = "sharing" =>
    \A xs \in Lists : IsInjectiveList(xs) =>
      reconstruct_secret_checked(Points(input.f, xs))
        = IF Len(xs) < THRESHOLD_K THEN ThresholdNotMet ELSE input.f[1]

(* A list that names an evaluation point twice is never interpolated to a  *)
(* number, whatever the other points are (comment on mod_inverse).         *)
RepeatedPointRefused ==
  input.kind = "sharing" =>
    \A xs \in Lists : ~ IsInjectiveList(xs) => reconstruct_secret(Points(input.f, xs)) = NoInverse

(* Fewer evaluations than the threshold are compatible with every value at *)
(* zero: below it shares say nothing about the secret.                     *)
FewPointsHide ==
  input.kind = "sharing" =>
    \A X \in SUBSET Indices : Cardinality(X) < THRESHOLD_K =>
      \A secret \in Field : \E d \in [1 .. THRESHOLD_K -> Field] :
        d[1] = secret /\ \A x \in X : Evaluate(d, x) = Evaluate(input.f, x)
=============================================================================
