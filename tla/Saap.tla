-------------------------------- MODULE Saap --------------------------------
(***************************************************************************)
(* The single-response predicate proofs of src/src/saap.rs, which the      *)
(* crate keeps public and has superseded with credentials: proving         *)
(* knowledge of the secret of t = A_tau . sk while disclosing attributes.  *)
(* Pure; hashes are functions of what is absorbed, and a challenge carries *)
(* its transcript.                                                         *)
(***************************************************************************)
EXTENDS Centered, Outcome

CONSTANTS
  SAAP_ITERATIONS, SAAP_BOUND, MAX_ATTRIBUTES,
  TagOf(_),                  \* the first 32 bytes of a context, padded with zeros
  SaapMaskOf(_, _, _), SaapMatrixOf(_), SaapChallengeOf(_)

Values(credential) ==
  [i \in 1 .. MAX_ATTRIBUTES |-> IF i <= Len(credential) THEN credential[i] ELSE 0]

hash_to_challenge_from_xof(transcript) == [of |-> transcript, poly |-> SaapChallengeOf(transcript)]

(* A mutation: the disclosed values are not absorbed.                      *)
recompute_challenge_NoValues(commitment_w, tag, mask, attributes) ==
  hash_to_challenge_from_xof([w |-> commitment_w, tau |-> tag, mask |-> mask])

(* The mask has more bits than there are slots.                            *)
Disclosed(mask, attributes) == [i \in mask \cap 1 .. MAX_ATTRIBUTES |-> attributes[i]]

(* Only disclosed values are absorbed, each with its slot.                 *)
recompute_challenge(commitment_w, tag, mask, attributes) ==
  hash_to_challenge_from_xof(
    [w |-> commitment_w, tau |-> tag, mask |-> mask, values |-> Disclosed(mask, attributes)])

(* The whole context enters the matrix, only its tag the mask.             *)
derive_saap_matrix(tau)                    == SaapMatrixOf(tau)
sample_saap_masking_vector(rho, tag, iter) == SaapMaskOf(rho, tag, iter)

MatrixTimes(A, v) ==
  [i \in Rows |-> FoldLeft(LAMBDA acc, j : saap_poly_add(acc, poly_mul_negacyclic(A[i][j], v[j])),
                           [d \in Degrees |-> 0], [j \in 1 .. K |-> j])]

saap_public_key(tau, secret_key) == MatrixTimes(derive_saap_matrix(tau), secret_key)

commitment_hash(w) == <<"AETHEL_SAAP_COMMIT_V1", w>>

Response(r, c, secret_key) ==
  [k \in Rows |-> saap_poly_add(r[k], poly_mul_negacyclic(c, secret_key[k]))]

(* The attempt with one mask: commitment, challenge, response.             *)
Responding(tag, mask, attributes, secret_key, r, w, c) ==
  [context_tag |-> tag, disclosure_mask |-> mask, attributes |-> attributes,
   challenge |-> c, z |-> Response(r, c.poly, secret_key),
   commitment_hash |-> commitment_hash(w), commitment_w |-> w]

Committing(tag, mask, attributes, secret_key, r, w) ==
  Responding(tag, mask, attributes, secret_key, r, w, recompute_challenge(w, tag, mask, attributes))

Attempt(tau, mask, attributes, secret_key, r) ==
  Committing(TagOf(tau), mask, attributes, secret_key, r, MatrixTimes(derive_saap_matrix(tau), r))

(* The first attempt within the bound, and no other.                       *)
saap_prove(credential, mask, tau, secret_key, rho) ==
  LET tried == {<<iter, Attempt(tau, mask, Values(credential), secret_key,
                                sample_saap_masking_vector(rho, TagOf(tau), iter))>>
                  : iter \in 0 .. SAAP_ITERATIONS - 1}
      good  == {a \in tried : verify_response_norm(a[2].z, SAAP_BOUND) = 0}
  IN  IF good = {} THEN Err("RejectionSamplingFailed")
      ELSE Ok((CHOOSE a \in good : \A other \in good : a[1] <= other[1])[2])
-----------------------------------------------------------------------------
(* A.z - c.t = w, exactly: there is no noise in t.                         *)
EquationHolds(proof, tau, public_key) ==
  LET Az == MatrixTimes(derive_saap_matrix(tau), proof.z)
  IN  \A i \in Rows :
        saap_poly_sub(Az[i], poly_mul_negacyclic(proof.challenge.poly, public_key[i])) = proof.commitment_w[i]

verify_saap_proof_against(proof, tau, public_key) ==
  IF verify_response_norm(proof.z, SAAP_BOUND) # 0 THEN Err("NormBoundViolation")
  ELSE IF \/ proof.challenge # recompute_challenge(proof.commitment_w, TagOf(tau),
                                                   proof.disclosure_mask, proof.attributes)
          \/ proof.context_tag # TagOf(tau)
       THEN Err("ChallengeMismatch")
  ELSE IF ~ EquationHolds(proof, tau, public_key) THEN Err("InvalidAttributeCommitment")
  ELSE Ok("valid")

(* The older verifier has no key and takes the context from the proof.     *)
verify_saap_proof(proof) ==
  IF verify_response_norm(proof.z, SAAP_BOUND) # 0 THEN Err("NormBoundViolation")
  ELSE IF proof.challenge # recompute_challenge(proof.commitment_w, proof.context_tag,
                                                proof.disclosure_mask, proof.attributes)
       THEN Err("ChallengeMismatch")
  ELSE IF proof.commitment_hash # commitment_hash(proof.commitment_w) THEN Err("InvalidAttributeCommitment")
  ELSE Ok("valid")
=============================================================================
