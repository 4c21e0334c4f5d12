---------------------------- MODULE Presentation ----------------------------
(***************************************************************************)
(* What the prover promises its callers, whatever happens inside it.       *)
(*                                                                         *)
(* Proving is a function of the identity, the context and the randomness:  *)
(* repeating a call repeats its outcome.  The outcome is a proof for the   *)
(* projection of exactly these inputs, which a verifier accepts, or a      *)
(* refusal; randomness that is too short is always refused, and only it    *)
(* is refused for its length.                                              *)
(***************************************************************************)
EXTENDS PlpCore

VARIABLES
  oracle,    \* which functions the hash derivations are
  released,  \* proofs returned to callers, with the inputs of the call
  refused    \* errors returned to callers, with the inputs of the call

absvars == <<oracle, released, refused>>

Calls  == [by : Identity, ctx : Context, rho : Randomness]
Errors == {"InvalidInputLength", "RejectionSamplingFailed"}

ProjectionOf(in) == project_at_context(oracle, in.by, in.ctx, in.rho)

ReturnProof(r) ==
  /\ r.in \in Calls /\ r.proof \in Proof
  /\ r.in.rho \in LongEnough
  /\ verify_projection(oracle, ProjectionOf(r.in), r.proof, r.in.ctx)
  /\ \A r2 \in released : r2.in = r.in => r2 = r
  /\ \A r2 \in refused : r2.in # r.in
  /\ released' = released \cup {r}
  /\ UNCHANGED <<oracle, refused>>

ReturnError(r) ==
  /\ r.in \in Calls /\ r.error \in Errors
  /\ r.error = "InvalidInputLength" <=> r.in.rho \notin LongEnough
  /\ \A r2 \in refused : r2.in = r.in => r2 = r
  /\ \A r2 \in released : r2.in # r.in
  /\ refused' = refused \cup {r}
  /\ UNCHANGED <<oracle, released>>

Init ==
  /\ oracle \in Oracle
  /\ released = {}
  /\ refused = {}

(* The return of a step is a member of the set it extends.                 *)
Next ==
  \/ \E r \in released' : ReturnProof(r)
  \/ \E r \in refused' : ReturnError(r)

Spec == Init /\ [][Next]_absvars
=============================================================================
