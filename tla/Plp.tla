-------------------------------- MODULE Plp --------------------------------
(***************************************************************************)
(* The prover of src/src/plp.rs as an identity drives it                   *)
(* (Identity::prove in src/src/signing.rs): a call derives the projection  *)
(* and runs a rejection loop of at most Ceiling attempts.  Holders run     *)
(* concurrently; each runs one call at a time.                             *)
(***************************************************************************)
EXTENDS PlpCore

VARIABLES
  oracle,    \* which functions the hash derivations are; never changes
  call,      \* per holder: the call in progress and its buffers
  released,  \* proofs returned to callers, with the inputs of the call
  refused    \* errors returned to callers, with the inputs of the call

vars == <<oracle, call, released, refused>>

(* A mutation: the mask also depends on how often the holder has proved. *)
MaskKey_Counter(id, tag, iter) ==
  <<id, tag, IF \E r \in released : r.in.by = id THEN Ceiling - 1 - iter ELSE iter>>

(* What the hasher of the mask absorbs: the seed, the tag, the attempt.  *)
MaskKey(id, tag, iter) == <<id, tag, iter>>

Empty  == [y |-> None, w |-> None, c |-> None, z |-> None]

NoCall == [pc |-> "idle", ctx |-> None, rho |-> None, proj |-> None,
           iter |-> 0, buf |-> Empty]

Inputs(id) == [by |-> id, ctx |-> call[id].ctx, rho |-> call[id].rho]

-----------------------------------------------------------------------------
(* Identity::prove refuses short randomness before it derives anything.    *)
RefuseShort(id, ctx, rho) ==
  /\ call[id].pc = "idle"
  /\ rho \notin LongEnough
  /\ refused' = refused \cup {[in    |-> [by |-> id, ctx |-> ctx, rho |-> rho],
                               error |-> "InvalidInputLength"]}
  /\ UNCHANGED <<oracle, call, released>>

(* Identity::prove re-derives the projection and enters prove_identity.    *)
BeginProve(id, ctx, rho) ==
  /\ call[id].pc = "idle"
  /\ rho \in LongEnough
  /\ call' = [call EXCEPT ![id] =
       [pc |-> "sample", ctx |-> ctx, rho |-> rho,
        proj |-> project_at_context(oracle, id, ctx, rho), iter |-> 0, buf |-> Empty]]
  /\ UNCHANGED <<oracle, released, refused>>

(* Steps 1-3 of an attempt: mask, commitment, challenge.                   *)
Commit(id) ==
  /\ call[id].pc = "sample"
  /\ call[id].iter < Ceiling
  /\ LET proj == call[id].proj
         y    == MaskOf(oracle, MaskKey(id, proj.tau, call[id].iter))
         w    == Apply(derive_context_matrix(oracle, proj.tau, proj.salt), y)
         c    == hash_to_challenge(oracle, w, proj.public_b, proj.tau, proj.salt)
     IN  call' = [call EXCEPT ![id].pc  = "respond",
                              ![id].buf = [y |-> y, w |-> w, c |-> c, z |-> None]]
  /\ UNCHANGED <<oracle, released, refused>>

(* Step 4: the response; the mask is wiped as soon as it has been used.    *)
Respond(id) ==
  /\ call[id].pc = "respond"
  /\ LET buf == call[id].buf
         cs  == Scale(buf.c.poly, SecretOf(oracle, id))
     IN  call' = [call EXCEPT ![id].pc  = "decide",
                              ![id].buf = [y |-> None, w |-> buf.w, c |-> buf.c,
                                          z |-> Add(buf.y, cs)]]
  /\ UNCHANGED <<oracle, released, refused>>

(* Step 5, accepting: w, c and z move into the returned proof.             *)
Accept(id) ==
  /\ call[id].pc = "decide"
  /\ InBound(call[id].buf.z)
  /\ LET buf == call[id].buf
     IN  released' = released \cup
           {[in |-> Inputs(id), iter |-> call[id].iter,
             proof |-> [commitment_w |-> buf.w, challenge_c |-> buf.c, response_z |-> buf.z]]}
  /\ call' = [call EXCEPT ![id] = NoCall]
  /\ UNCHANGED <<oracle, refused>>

(* A mutation: the rejected response is not wiped.                       *)
Reject_KeepResponse(id) ==
  /\ call[id].pc = "decide"
  /\ ~ InBound(call[id].buf.z)
  /\ call' = [call EXCEPT ![id].pc   = "sample",
                          ![id].iter = @ + 1,
                          ![id].buf  = [y |-> @.y, w |-> None, c |-> None, z |-> @.z]]
  /\ UNCHANGED <<oracle, released, refused>>

(* A mutation: the attempt is not counted.                               *)
Reject_SameAttempt(id) ==
  /\ call[id].pc = "decide"
  /\ ~ InBound(call[id].buf.z)
  /\ call' = [call EXCEPT ![id].pc = "sample", ![id].buf = Empty]
  /\ UNCHANGED <<oracle, released, refused>>

(* A mutation: the loop gives up after the first rejection.              *)
Reject_SkipAttempt(id) ==
  /\ call[id].pc = "decide"
  /\ ~ InBound(call[id].buf.z)
  /\ call' = [call EXCEPT ![id].pc = "sample", ![id].iter = Ceiling, ![id].buf = Empty]
  /\ UNCHANGED <<oracle, released, refused>>

(* Step 5, rejecting: w, c and z are wiped before the next attempt.        *)
Reject(id) ==
  /\ call[id].pc = "decide"
  /\ ~ InBound(call[id].buf.z)
  /\ call' = [call EXCEPT ![id].pc   = "sample",
                          ![id].iter = @ + 1,
                          ![id].buf  = [y |-> @.y, w |-> None, c |-> None, z |-> None]]
  /\ UNCHANGED <<oracle, released, refused>>

(* A mutation: the loop falls back to its first, rejected, attempt.      *)
Exhausted_Fallback(id) ==
  /\ call[id].pc = "sample"
  /\ call[id].iter = Ceiling
  /\ LET proj == call[id].proj
         y    == MaskOf(oracle, MaskKey(id, proj.tau, 0))
         w    == Apply(derive_context_matrix(oracle, proj.tau, proj.salt), y)
         c    == hash_to_challenge(oracle, w, proj.public_b, proj.tau, proj.salt)
         z    == Add(y, Scale(c.poly, SecretOf(oracle, id)))
     IN  released' = released \cup
           {[in |-> Inputs(id), iter |-> 0,
             proof |-> [commitment_w |-> w, challenge_c |-> c, response_z |-> z]]}
  /\ call' = [call EXCEPT ![id] = NoCall]
  /\ UNCHANGED <<oracle, refused>>

(* A mutation: exhaustion is reported as another error.                  *)
Exhausted_WrongError(id) ==
  /\ call[id].pc = "sample"
  /\ call[id].iter = Ceiling
  /\ refused' = refused \cup {[in |-> Inputs(id), error |-> "SerializationError"]}
  /\ call' = [call EXCEPT ![id] = NoCall]
  /\ UNCHANGED <<oracle, released>>

(* The loop ends without a proof; nothing is released in its place.        *)
Exhausted(id) ==
  /\ call[id].pc = "sample"
  /\ call[id].iter = Ceiling
  /\ refused' = refused \cup {[in |-> Inputs(id), error |-> "RejectionSamplingFailed"]}
  /\ call' = [call EXCEPT ![id] = NoCall]
  /\ UNCHANGED <<oracle, released>>

ProveStep(id) ==
  Commit(id) \/ Respond(id) \/ Accept(id) \/ Reject(id) \/ Exhausted(id)

Init ==
  /\ oracle \in Oracle
  /\ call = [id \in Identity |-> NoCall]
  /\ released = {}
  /\ refused = {}

Next ==
  \E id \in Identity :
    \/ \E ctx \in Context, rho \in Randomness :
         RefuseShort(id, ctx, rho) \/ BeginProve(id, ctx, rho)
    \/ ProveStep(id)

(* A prove call is a synchronous loop: once entered it runs until it       *)
(* returns.  Nothing obliges a caller to start one.                        *)
Fairness == \A id \in Identity : WF_vars(ProveStep(id))

Spec == Init /\ [][Next]_vars /\ Fairness
-----------------------------------------------------------------------------
(***************************************************************************)
(* Properties.                                                             *)
(***************************************************************************)
Calls == [by : Identity, ctx : Context, rho : Randomness]

ProjectionOf(in) == project_at_context(oracle, in.by, in.ctx, in.rho)

TypeOK ==
  /\ oracle \in Oracle
  /\ call \in [Identity ->
       [pc : {"idle", "sample", "respond", "decide"},
        ctx : Context \cup {None}, rho : LongEnough \cup {None},
        proj : Projection \cup {None}, iter : 0 .. Ceiling,
        buf : [y : Vec \cup {None}, w : Vec \cup {None},
               c : Challenge \cup {None}, z : Vec \cup {None}]]]
  /\ released \subseteq [in : Calls, iter : 0 .. Ceiling - 1, proof : Proof]
  /\ refused \subseteq [in : Calls, error : {"InvalidInputLength", "RejectionSamplingFailed"}]

(* What attempt i of a call computes, as functions of the call's inputs.   *)
MaskAt(in, i) == MaskOf(oracle, MaskKey(in.by, Pad(in.ctx), i))

CommitmentAt(in, i) ==
  Apply(derive_context_matrix(oracle, ProjectionOf(in).tau, ProjectionOf(in).salt), MaskAt(in, i))

ChallengeAt(in, i) ==
  hash_to_challenge(oracle, CommitmentAt(in, i), ProjectionOf(in).public_b,
                    ProjectionOf(in).tau, ProjectionOf(in).salt)

ResponseAt(in, i) == Add(MaskAt(in, i), Scale(ChallengeAt(in, i).poly, SecretOf(oracle, in.by)))

ProofAt(in, i) ==
  [commitment_w |-> CommitmentAt(in, i), challenge_c |-> ChallengeAt(in, i),
   response_z |-> ResponseAt(in, i)]

AllRejected(in, n) == \A i \in 0 .. n - 1 : ~ InBound(ResponseAt(in, i))

ActiveInv(id) ==
  LET in == Inputs(id)
      i  == call[id].iter
  IN  /\ in \in Calls /\ in.rho \in LongEnough
      /\ call[id].proj = ProjectionOf(in)
      /\ AllRejected(in, i)
      /\ call[id].pc = "sample" => call[id].buf = Empty
      /\ call[id].pc = "respond" =>
           /\ i < Ceiling
           /\ call[id].buf = [y |-> MaskAt(in, i), w |-> CommitmentAt(in, i),
                              c |-> ChallengeAt(in, i), z |-> None]
      /\ call[id].pc = "decide" =>
           /\ i < Ceiling
           /\ call[id].buf = [y |-> None, w |-> CommitmentAt(in, i),
                              c |-> ChallengeAt(in, i), z |-> ResponseAt(in, i)]

CallInv(id) ==
  IF call[id].pc = "idle" THEN call[id] = NoCall ELSE ActiveInv(id)

ReleasedInv(r) ==
  /\ r.in \in Calls /\ r.in.rho \in LongEnough
  /\ r.iter \in 0 .. Ceiling - 1
  /\ r.proof = ProofAt(r.in, r.iter)
  /\ InBound(ResponseAt(r.in, r.iter))
  /\ AllRejected(r.in, r.iter)

RefusedInv(r) ==
  /\ r.in \in Calls
  /\ \/ r.error = "InvalidInputLength" /\ r.in.rho \notin LongEnough
     \/ /\ r.error = "RejectionSamplingFailed"
        /\ r.in.rho \in LongEnough
        /\ AllRejected(r.in, Ceiling)

(* The loop returns the first attempt whose response is in bound, with     *)
(* that attempt's mask, commitment and challenge, and fails only when all  *)
(* Ceiling attempts are out of bound; until then its buffers hold exactly  *)
(* the values of the attempt in progress.  Inductive.                      *)
LoopInv ==
  /\ \A id \in Identity : CallInv(id)
  /\ \A r \in released : ReleasedInv(r)
  /\ \A r \in refused : RefusedInv(r)

(* No response outside the bound is ever returned, on any path out of the  *)
(* loop: rejection sampling withholds exactly those responses.             *)
ReleasedInBound == \A r \in released : Norm(r.proof.response_z) < Gamma1 - Beta

(* Completeness: the verifier accepts every proof the prover returns, at   *)
(* every context that pads to the tag, although it checks the equation     *)
(* only up to the residual c.e it cannot compute.                          *)
ReleasedVerifies ==
  \A r \in released : \A ctx \in Context :
    Pad(ctx) = Pad(r.in.ctx) => verify_projection(oracle, ProjectionOf(r.in), r.proof, ctx)

(* Binding: whatever projection of whatever holder a returned proof is     *)
(* paired with, and whatever context the verifier expects, acceptance      *)
(* means the proof was made for that projection and for that tag.          *)
AcceptIsAuthentic ==
  \A r \in released, in \in Calls, ctx \in Context :
    in.rho \in LongEnough /\ verify_projection(oracle, ProjectionOf(in), r.proof, ctx)
      => ProjectionOf(in) = ProjectionOf(r.in) /\ Pad(ctx) = Pad(r.in.ctx)

(* Masks and rejected responses do not outlive the step that needs them:   *)
(* nothing is left between attempts or after a return, and the mask is     *)
(* gone once the response exists.                                          *)
NoResidue ==
  \A id \in Identity :
    /\ call[id].pc \in {"idle", "sample"} => call[id].buf = Empty
    /\ call[id].pc = "decide" => call[id].buf.y = None

(* The prover implements its promise (module Presentation).                *)
Promise ==
  INSTANCE Presentation
    WITH released <- {[in |-> r.in, proof |-> r.proof] : r \in released}
ImplementsPromise == Promise!Spec

(* Every call returns: the loop is bounded whatever the hash is.           *)
CallReturns ==
  \A id \in Identity : call[id].pc # "idle" ~> call[id].pc = "idle"

MaskOfReturn(r) == MaskKey(r.in.by, Pad(r.in.ctx), r.iter)

(* The comment on the mask (plp.rs:1128-1137) asks of a deterministic mask *)
(* that its derivation bind what is being proven: two returned proofs with *)
(* one mask are proofs for one projection.                                 *)
MaskBindsStatement ==
  \A r1, r2 \in released :
    MaskOfReturn(r1) = MaskOfReturn(r2) => ProjectionOf(r1.in) = ProjectionOf(r2.in)

(* The comment on verify_projection (wire.rs:147-149): a projection built  *)
(* for one context must not verify against another.                        *)
ContextIsExact ==
  \A r \in released, ctx \in Context :
    verify_projection(oracle, ProjectionOf(r.in), r.proof, ctx) => ctx = r.in.ctx
=============================================================================
