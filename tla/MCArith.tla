------------------------------ MODULE MCArith ------------------------------
(***************************************************************************)
(* The pure parts, checked against their definitions over bounded inputs:  *)
(* products in R_17 = Z_17[X]/(X^4 + 1) with PSI = 2, sharing polynomials  *)
(* over Z_7, words of 6 bits, the error locator over GF(16) for words of   *)
(* 15 bits and two errors, and predicate proofs in rank 2.  The state is   *)
(* the input; nothing moves.                                               *)
(***************************************************************************)
EXTENDS Sharing, NormMasks, ChallengeProduct, TransformProduct, SaapPromise, Bch

MCLeftFactors  == [Degrees -> {0, 5, Q - 1}]
MCRightFactors == [Degrees -> {0, 3}]

MCTagOf(tau) == IF tau = "other" THEN "other tag" ELSE "tag"

Number ==
  ("tag" :> 0) @@ ("ctx" :> 0) @@ ("rho1" :> 0) @@ ("ctx padded" :> 1) @@ ("rho2" :> 1)
    @@ ("other tag" :> 2) @@ ("other" :> 2)

MCSaapMaskOf(rho, tag, iter) ==
  LET radius == 3 + Number[rho] - iter
  IN  [k \in Rows |-> [d \in Degrees |->
         ((3 * Number[tag] + (2 * iter + 3) * (k + d + 1)) % (2 * radius + 1)) - radius]]

MCSaapMatrixOf(tau) ==
  [i \in Rows |-> [j \in Rows |-> [d \in Degrees |-> mod_q(2 + 3 * Number[tau] + 5 * i + 7 * j + i * j * d)]]]

(* Two of the four coefficients are 1 or -1.                               *)
Sparse == [n \in 0 .. 11 |->
  [d \in Degrees |-> IF d = n % 4 THEN 1 ELSE IF d = (n + 1 + (n % 3)) % 4 THEN -1 ELSE 0]]

MCSaapChallengeOf(t) ==
  CHOOSE c \in {Sparse[(w[1][0] + w[2][1] + Cardinality(t.mask) + Number[t.tau]) % 12] : w \in {t.w}} : TRUE

SecretKeys == {[k \in Rows |-> [d \in Degrees |-> ((d + k) % 3) - 1]],
               [k \in Rows |-> [d \in Degrees |-> IF d = k THEN 1 ELSE 0]]}

MCPredicateCalls ==
  [sk : SecretKeys, rho : {"rho1", "rho2"}, tau : {"ctx", "ctx padded", "other"},
   mask : {{1}, {2, 3}}, credential : {<<7>>}]

MCRewordings == [mask : {{}, {1}, {2}, {2, 3}}, attributes : {<<7, 0>>, <<7, 5>>, <<0, 7>>}]

ErrorSets == UNION {kSubset(n, 0 .. BCH_N - 1) : n \in 0 .. BCH_T}

Init ==
  \/ ProductInput
  \/ ResponseInput
  \/ SharingInput
  \/ WordInput
  \/ \E E \in ErrorSets : input = [kind |-> "errors", at |-> E]
  \/ PredicateInput

Next == UNCHANGED input

Spec == Init /\ [][Next]_input
-----------------------------------------------------------------------------
(* From the syndromes alone, of any codeword, the locator polynomial and   *)
(* its roots give exactly the positions that were disturbed, up to BCH_T   *)
(* of them (comments on berlekamp_massey and chien_search).  The all-ones  *)
(* word is a codeword.                                                     *)
LocatesErrors ==
  input.kind = "errors" =>
    /\ chien_search(berlekamp_massey(compute_syndromes(input.at))) = input.at
    /\ 0 \in input.at =>
         chien_search(berlekamp_massey(compute_syndromes((0 .. BCH_N - 1) \ input.at))) = input.at
=============================================================================
