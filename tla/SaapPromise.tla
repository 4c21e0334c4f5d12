---------------------------- MODULE SaapPromise ----------------------------
(***************************************************************************)
(* What a predicate proof promises (src/src/saap.rs: saap_prove beside     *)
(* both verifiers), whatever its credential, secret and context.  The      *)
(* state is the input; nothing moves.                                      *)
(***************************************************************************)
EXTENDS Saap, Input

CONSTANTS
  PredicateCalls,   \* calls of saap_prove: credential, mask, tau, sk, rho
  Rewordings        \* statements a proof is presented for: mask, attributes

(* One attempt of a call.                                                  *)
AttemptOf(x, iter) ==
  Attempt(x.tau, x.mask, Values(x.credential), x.sk, sample_saap_masking_vector(x.rho, TagOf(x.tau), iter))

(* Samplers and secrets have centred coefficients.                         *)
ASSUME SaapAssumption ==
  /\ SAAP_ITERATIONS \in Nat
  /\ \A x \in PredicateCalls :
       /\ x.sk \in CenteredVec
       /\ derive_saap_matrix(x.tau) \in [Rows -> CenteredVec]
       /\ \A iter \in 0 .. SAAP_ITERATIONS - 1 :
            /\ sample_saap_masking_vector(x.rho, TagOf(x.tau), iter) \in CenteredVec
            /\ AttemptOf(x, iter).challenge.poly \in CenteredPoly

PredicateInput == \E x \in PredicateCalls : input = [kind |-> "predicate", p |-> x]

Reworded(proof, s) == [proof EXCEPT !.disclosure_mask = s.mask, !.attributes = s.attributes]

SameStatement(proof, s) ==
  /\ s.mask = proof.disclosure_mask
  /\ Disclosed(s.mask, s.attributes) = Disclosed(proof.disclosure_mask, proof.attributes)

PredicateContexts == {x.tau : x \in PredicateCalls}
PredicateSecrets  == {x.sk : x \in PredicateCalls}

(* The challenge does not tell the keys apart.                             *)
SameUnder(c, key, other) == \A i \in Rows : poly_mul_negacyclic(c, key[i]) = poly_mul_negacyclic(c, other[i])

(* Two contexts give the response one image.                               *)
SameImage(z, tau, other) == MatrixTimes(derive_saap_matrix(tau), z) = MatrixTimes(derive_saap_matrix(other), z)

(* What both verifiers answer on a proof of the call x under the key pk.   *)
StandsFor(x, proof, pk) ==
  LET own == [mask |-> x.mask, attributes |-> Values(x.credential)]
  IN  /\ SameStatement(proof, own)
      /\ \A s \in Rewordings \cup {own} :
           LET verdict == IF SameStatement(proof, s) THEN Ok("valid") ELSE Err("ChallengeMismatch")
           IN  /\ verify_saap_proof_against(Reworded(proof, s), x.tau, pk) = verdict
               /\ verify_saap_proof(Reworded(proof, s)) = verdict
      /\ \A tau \in PredicateContexts :
           verify_saap_proof_against(proof, tau, pk)
             = IF TagOf(tau) # TagOf(x.tau) THEN Err("ChallengeMismatch")
               ELSE IF SameImage(proof.z, x.tau, tau) THEN Ok("valid")
               ELSE Err("InvalidAttributeCommitment")
      /\ \A sk \in PredicateSecrets :
           verify_saap_proof_against(proof, x.tau, saap_public_key(x.tau, sk))
             = IF SameUnder(proof.challenge.poly, pk, saap_public_key(x.tau, sk)) THEN Ok("valid")
               ELSE Err("InvalidAttributeCommitment")

(* A proof that saap_prove returns stands for one statement: with its own  *)
(* slots and disclosed values both verifiers accept it (the masked         *)
(* response satisfies the equation exactly, in the ring), with any other   *)
(* both refuse it, and so does every context of another tag.  A context of *)
(* the same tag is refused by the equation unless its matrix gives the     *)
(* response the same image, and a key unless the challenge gives it the    *)
(* same product (comments on saap_prove and verify_saap_proof_against).    *)
PredicateStands ==
  input.kind = "predicate" =>
    LET x == input.p
    IN  \A r \in {saap_prove(x.credential, x.mask, x.tau, x.sk, x.rho)},
           pk \in {saap_public_key(x.tau, x.sk)} : IsOk(r) => StandsFor(x, r.ok, pk)
=============================================================================
