----------------------------- MODULE FixedTime -----------------------------
(***************************************************************************)
(* The fixed-time prover of src/src/sampling.rs.  It always runs           *)
(* FIXED_ITERATION_CEILING iterations and picks the first acceptable       *)
(* response with masks, not branches: each iteration writes its candidate  *)
(* to the caller's buffer or to a dummy.  The buffer is the caller's and   *)
(* still holds the proof of the call before.                               *)
(***************************************************************************)
EXTENDS Centered

CONSTANTS
  FIXED_ITERATION_CEILING, REJECTION_BOUND,
  Secrets, Tau,
  MaskOf(_, _),        \* the mask of a tag and an iteration
  RowOf(_, _),         \* a row of the tag's matrix
  ChallengeAt(_, _),   \* the challenge for a commitment and a tag
  InUse, NoCall

ASSUME FixedTimeAssumption ==
  /\ FIXED_ITERATION_CEILING \in Nat \ {0}
  /\ REJECTION_BOUND \in 1 .. 2 ^ (WORD - 1) - 1
  /\ NoCall \notin [s : Secrets, tau : Tau]

(* What the samplers return is in the range they sample.                   *)
ASSUME SamplerAssumption ==
  /\ Secrets \subseteq CenteredVec
  /\ \A tau \in Tau, i \in 0 .. FIXED_ITERATION_CEILING - 1 : MaskOf(tau, i) \in CenteredVec
  /\ \A tau \in Tau, row \in Rows : RowOf(tau, row) \in CenteredVec
  /\ \A tau \in Tau, w \in CenteredVec : ChallengeAt(w, tau) \in CenteredPoly

VARIABLES
  proof_out,   \* the caller's buffer
  locals,      \* of the running call
  iter,        \* the loop's counter
  request,     \* arguments of the last call
  outcome      \* "running" or what it returned

ftvars == <<proof_out, locals, iter, request, outcome>>

ZeroVecK == [k \in Rows |-> [i \in Degrees |-> 0]]
NoProof  == [z |-> ZeroVecK, iteration_counter |-> 0]

(* Zeroed, as before the loop and after the wipe.                          *)
Zeroed ==
  [captured_mask |-> 0, candidate_z |-> ZeroVecK, candidate_proof |-> NoProof, dummy_buffer |-> NoProof]
-----------------------------------------------------------------------------
sample_masking_vector(tau, nonce) == MaskOf(tau, nonce)
derive_context_row(tau, row)      == RowOf(tau, row)

(* A_tau . y, a row at a time.                                             *)
CommitmentTo(y, tau) ==
  [i \in Rows |->
     FoldLeft(LAMBDA acc, j : poly_add_centered(acc, poly_mul_centered(derive_context_row(tau, i)[j], y[j])),
              [d \in Degrees |-> 0], [j \in 1 .. K |-> j])]

hash_to_challenge_sampling(w, tau) == ChallengeAt(w, tau)

generate_candidate_z(s, tau, i) ==
  LET y == sample_masking_vector(tau, i)
      c == hash_to_challenge_sampling(CommitmentTo(y, tau), tau)
  IN  [k \in Rows |-> poly_add_centered(y[k], poly_mul_centered(c, s[k]))]

(* Candidates are a function of the arguments and the iteration.           *)
Calls      == [s : Secrets, tau : Tau]
Iterations == 0 .. FIXED_ITERATION_CEILING - 1

CandidateTable ==
  [r \in Calls |-> [i \in Iterations |-> [z |-> generate_candidate_z(r.s, r.tau, i), iteration_counter |-> i]]]

CandidateOf(r, i) == CandidateTable[r][i]

RejectMask(z) == ct_check_norm_bound(z, REJECTION_BOUND)

IsAcceptable(proof) == RejectMask(proof.z) = 0

(* Masks are all zeros or all ones.                                        *)
BitAnd(m1, m2) == IF m1 = 0 THEN 0 ELSE m2
BitOr(m1, m2)  == IF m1 = 0 THEN m2 ELSE m1
ct_cond_copy(dst, src, mask) == IF mask = 0 THEN dst ELSE src

(* A mutation: the norm check is not heard.                                *)
CaptureMask_Unchecked(reject_mask, captured_mask) == Complement(captured_mask)

CaptureMask(reject_mask, captured_mask) ==
  BitAnd(Complement(reject_mask), Complement(captured_mask))
-----------------------------------------------------------------------------
FixedTimeInit ==
  /\ proof_out = NoProof /\ locals = Zeroed
  /\ iter = 0 /\ request = NoCall /\ outcome = "none"

Call(s, tau) ==
  /\ outcome # "running"
  /\ request' = [s |-> s, tau |-> tau] /\ outcome' = "running"
  /\ locals' = Zeroed /\ iter' = 0
  /\ UNCHANGED proof_out

Iterate ==
  /\ outcome = "running" /\ iter < FIXED_ITERATION_CEILING
  /\ LET candidate == CandidateOf(request, iter)
         capture   == CaptureMask(RejectMask(candidate.z), locals.captured_mask)
     IN  /\ proof_out' = ct_cond_copy(proof_out, candidate, capture)
         /\ locals' = [captured_mask   |-> BitOr(locals.captured_mask, capture),
                       candidate_z     |-> candidate.z,
                       candidate_proof |-> candidate,
                       dummy_buffer    |-> ct_cond_copy(locals.dummy_buffer, candidate, Complement(capture))]
  /\ iter' = iter + 1
  /\ UNCHANGED <<request, outcome>>

(* A mutation: a buffer nothing was copied to is left to the caller as is. *)
Return_Unwiped ==
  /\ outcome = "running" /\ iter = FIXED_ITERATION_CEILING
  /\ locals' = Zeroed
  /\ outcome' = IF locals.captured_mask # 0 THEN "Ok" ELSE "AllIterationsRejected"
  /\ UNCHANGED <<proof_out, iter, request>>

(* The locals are wiped either way, the buffer if nothing was captured.    *)
Return ==
  /\ outcome = "running" /\ iter = FIXED_ITERATION_CEILING
  /\ locals' = Zeroed
  /\ IF locals.captured_mask # 0
     THEN outcome' = "Ok" /\ UNCHANGED proof_out
     ELSE outcome' = "AllIterationsRejected" /\ proof_out' = NoProof
  /\ UNCHANGED <<iter, request>>

FixedTimeNext ==
  \/ \E s \in Secrets, tau \in Tau : Call(s, tau)
  \/ Iterate
  \/ Return

(* The loop is bounded and waits for nothing.                              *)
FixedTimeSpec == FixedTimeInit /\ [][FixedTimeNext]_ftvars /\ WF_ftvars(Iterate \/ Return)
-----------------------------------------------------------------------------
(* No response that the norm check rejects is ever in the caller's memory, *)
(* not even while the loop runs and whatever the buffer held before; and   *)
(* whoever is told Ok holds the response of this call and no other.        *)
RejectedNeverOut ==
  /\ IsAcceptable(proof_out)
  /\ outcome = "Ok" => proof_out = CandidateOf(request, proof_out.iteration_counter)

(* The loop implements its promise (module FirstAcceptable): the first     *)
(* acceptable candidate or nothing, and a call returns.                    *)
Promise ==
  INSTANCE FirstAcceptable
    WITH Requests   <- Calls,
         Ceiling    <- FIXED_ITERATION_CEILING,
         Candidate  <- CandidateOf,
         Acceptable <- IsAcceptable,
         Nothing    <- NoProof,
         buffer     <- IF outcome = "running" THEN InUse ELSE proof_out
ImplementsPromise == Promise!Spec
=============================================================================
