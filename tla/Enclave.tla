------------------------------ MODULE Enclave ------------------------------
(***************************************************************************)
(* A device that keeps no secret: at enrolment it stores helper data, and  *)
(* whenever it is to prove it reads its memory cells again, reconstructs   *)
(* the key, expands it to a vector and runs the fixed-time prover.  The    *)
(* calls are those of Puf and FixedTime.  A reading differs from an        *)
(* earlier one by noise, or is another device's.                           *)
(***************************************************************************)
EXTENDS FixedTime, Puf

CONSTANTS Reading, NoSecret

(* The prover may be asked to use the secret of any reading.               *)
ASSUME EnclaveAssumption ==
  \A reading \in Reading : puf_seed_to_vector_k(seed_of(reading)) \in Secrets

VARIABLES
  enrolled,   \* what enrolments returned: [key, helper_data]
  secret      \* what the last reconstruction gave: [helper_data, key]

vars == <<ftvars, enrolled, secret>>

Init == FixedTimeInit /\ enrolled = {} /\ secret = NoSecret

Enroll(reading) ==
  /\ outcome # "running"
  /\ enrolled' = enrolled \cup {enroll(reading)}
  /\ UNCHANGED <<ftvars, secret>>

(* With stored helper data, or as a codeword without any.                  *)
Reconstruct(reading) ==
  /\ outcome # "running"
  /\ \E h \in {e.helper_data : e \in enrolled} \cup {{}} :
       LET key == IF h = {} THEN bch_decode_rust(reading) ELSE reconstruct(reading, h)
       IN  secret' = IF key = NoKey THEN NoSecret ELSE [helper_data |-> h, key |-> key]
  /\ UNCHANGED <<ftvars, enrolled>>

Prove(tau) ==
  /\ secret # NoSecret
  /\ Call(puf_seed_to_vector_k(secret.key), tau)
  /\ UNCHANGED <<enrolled, secret>>

Next ==
  \/ \E reading \in Reading : Enroll(reading) \/ Reconstruct(reading)
  \/ \E tau \in Tau : Prove(tau)
  \/ Iterate /\ UNCHANGED <<enrolled, secret>>
  \/ Return /\ UNCHANGED <<enrolled, secret>>

Spec == Init /\ [][Next]_vars /\ WF_ftvars((Iterate \/ Return) /\ UNCHANGED <<enrolled, secret>>)
-----------------------------------------------------------------------------
(***************************************************************************)
(* Properties, besides those of FixedTime.                                 *)
(***************************************************************************)
Masks  == {0, AllOnes}
Proofs == [z : CenteredVec, iteration_counter : Iterations]

TypeOK ==
  /\ proof_out \in Proofs
  /\ DOMAIN locals = DOMAIN Zeroed
  /\ locals.captured_mask \in Masks
  /\ locals.candidate_z \in CenteredVec
  /\ locals.candidate_proof \in Proofs /\ locals.dummy_buffer \in Proofs
  /\ iter \in 0 .. FIXED_ITERATION_CEILING
  /\ request = NoCall \/ request \in Calls
  /\ outcome \in {"none", "running", "Ok", "AllIterationsRejected"}
  /\ \A e \in enrolled : \E reading \in Reading : e = enroll(reading)
  /\ secret = NoSecret \/ \E reading \in Reading : secret.key = seed_of(reading)

(* A reading that is not the enrolled one never yields a wrong key: what a *)
(* reconstruction returns for some helper data is the key that came with   *)
(* it (doc of reconstruct).  Nothing is returned for no helper data.       *)
KeyIsEnrolled ==
  secret # NoSecret =>
    [key |-> secret.key, helper_data |-> secret.helper_data] \in enrolled
=============================================================================
