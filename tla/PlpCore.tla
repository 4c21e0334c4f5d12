------------------------------ MODULE PlpCore ------------------------------
(***************************************************************************)
(* Polymorphic lattice presentation, the part without state: projection    *)
(* and verification (src/src/plp.rs, and src/src/wire.rs for the           *)
(* verifier's own context).                                                *)
(*                                                                         *)
(* A holder projects its secret s at a context tau with randomness rho,    *)
(*     b = A.s + e,   A derived from (pad(tau), salt),  salt from rho.     *)
(* The module arithmetic is a parameter (PlpRing gives the code's).  The   *)
(* SHAKE-256 derivations are functions of what the hasher absorbs; which   *)
(* functions is given by `o`.  Salts and challenges are taken to be free   *)
(* of collisions: each stands for, or carries, what it is hashed from.     *)
(***************************************************************************)
EXTENDS Integers

CONSTANTS
  Identity,     \* holders; each has its own 32-byte seed
  Context,      \* the byte strings callers pass as tau
  Pad(_),       \* pad_tau: the 32-byte tag of a context
  Randomness,   \* the byte strings callers pass as randomness
  LongEnough,   \* the members of Randomness with at least 32 bytes
  Ceiling,      \* PROVE_ITERATION_CEILING
  Gamma1,       \* bound of the mask sampler
  Beta          \* bound of a challenge times a short vector

CONSTANTS
  Vec, Mat,     \* vectors and matrices over the ring
  Short,        \* vectors the CBD sampler returns
  ChalPoly,     \* polynomials the challenge sampler returns
  Zero,
  Add(_, _), Sub(_, _), Apply(_, _), Scale(_, _), Norm(_)

CONSTANTS
  Oracle,       \* which functions the SHAKE-256 derivations may be
  SecretOf(_, _), MatrixOf(_, _), ErrorOf(_, _), MaskOf(_, _), ChallengeOf(_, _),
  None          \* the content of a buffer that holds nothing

Tag  == {Pad(ctx) : ctx \in Context}
Salt == LongEnough \X Tag

Transcript == [w : Vec, public_b : Vec, tau : Tag, salt : Salt]
Challenge  == [of : Transcript, poly : ChalPoly]
Projection == [tau : Tag, salt : Salt, public_b : Vec]
Proof      == [commitment_w : Vec, challenge_c : Challenge, response_z : Vec]
MaskKeys   == Identity \X Tag \X (0 .. Ceiling - 1)

(***************************************************************************)
(* Assumptions on the parameters.  PlpRing with small N, Q, K satisfies    *)
(* them, and TLC evaluates them there.                                     *)
(***************************************************************************)
ASSUME BoundsAssumption ==
  /\ Ceiling \in Nat \ {0}
  /\ Gamma1 \in Nat /\ Beta \in Nat \ {0}
  /\ LongEnough \subseteq Randomness

ASSUME ClosureAssumption ==
  /\ Zero \in Vec /\ Short \subseteq Vec
  /\ \A u, v \in Vec : Add(u, v) \in Vec /\ Sub(u, v) \in Vec
  /\ \A A \in Mat : \A v \in Vec : Apply(A, v) \in Vec
  /\ \A c \in ChalPoly : \A v \in Vec : Scale(c, v) \in Vec
  /\ \A v \in Vec : Norm(v) \in Nat

ASSUME ModuleAssumption ==
  /\ \A A \in Mat : \A u, v \in Vec : Apply(A, Add(u, v)) = Add(Apply(A, u), Apply(A, v))
  /\ \A c \in ChalPoly : \A u, v \in Vec : Scale(c, Add(u, v)) = Add(Scale(c, u), Scale(c, v))
  /\ \A A \in Mat : \A c \in ChalPoly : \A v \in Vec : Apply(A, Scale(c, v)) = Scale(c, Apply(A, v))
  /\ \A u, v, e \in Vec : Sub(Sub(Add(u, v), Add(v, e)), u) = Sub(Zero, e)
  /\ \A e \in Vec : Norm(Sub(Zero, e)) = Norm(e)

(* The compile-time assertion BETA >= CHALLENGE_WEIGHT * ETA.              *)
ASSUME BetaAssumption == \A c \in ChalPoly : \A e \in Short : Norm(Scale(c, e)) <= Beta

ASSUME OracleAssumption ==
  \A o \in Oracle :
    /\ \A id \in Identity : SecretOf(o, id) \in Short
    /\ \A tag \in Tag : \A salt \in Salt : MatrixOf(o, <<tag, salt>>) \in Mat
    /\ \A rho \in LongEnough : \A ctx \in Context : ErrorOf(o, <<rho, ctx>>) \in Short
    /\ \A key \in MaskKeys : MaskOf(o, key) \in Vec
    /\ \A t \in Transcript : ChallengeOf(o, t) \in ChalPoly

-----------------------------------------------------------------------------
(* Projection.  Everything a verifier must recompute is keyed on the       *)
(* padded tag; e_tau, which only the holder derives, on the raw context.   *)

derive_projection_salt(rho, tag) == <<rho, tag>>

derive_context_matrix(o, tag, salt) == MatrixOf(o, <<tag, salt>>)

derive_error_tau(o, rho, ctx) == ErrorOf(o, <<rho, ctx>>)

project_at_context(o, id, ctx, rho) ==
  LET salt == derive_projection_salt(rho, Pad(ctx))
      A    == derive_context_matrix(o, Pad(ctx), salt)
  IN  [tau      |-> Pad(ctx),
       salt     |-> salt,
       public_b |-> Add(Apply(A, SecretOf(o, id)), derive_error_tau(o, rho, ctx))]

-----------------------------------------------------------------------------
(* The challenge and the bound, shared by prover and verifier.             *)

(* A mutation: b is left out of the transcript.                          *)
hash_to_challenge_Unbound(o, w, b, tag, salt) ==
  LET t == [w |-> w, public_b |-> Zero, tau |-> tag, salt |-> salt]
  IN  [of |-> t, poly |-> ChallengeOf(o, t)]

hash_to_challenge(o, w, b, tag, salt) ==
  LET t == [w |-> w, public_b |-> b, tau |-> tag, salt |-> salt]
  IN  [of |-> t, poly |-> ChallengeOf(o, t)]

InBound(z) == Norm(z) < Gamma1 - Beta

-----------------------------------------------------------------------------
(* Verification, a function of what the verifier is handed.  A projection  *)
(* has no matrix: the wire form omits it and the verifier derives it.      *)

(* A mutation: the residual is held to Beta instead of 2 * Beta.         *)
verify_HalfResidual(o, proj, proof) ==
  /\ InBound(proof.response_z)
  /\ proof.challenge_c
       = hash_to_challenge(o, proof.commitment_w, proj.public_b, proj.tau, proj.salt)
  /\ LET A       == derive_context_matrix(o, proj.tau, proj.salt)
         w_prime == Sub(Apply(A, proof.response_z), Scale(proof.challenge_c.poly, proj.public_b))
     IN  Norm(Sub(w_prime, proof.commitment_w)) < Beta

verify(o, proj, proof) ==
  /\ InBound(proof.response_z)
  /\ proof.challenge_c
       = hash_to_challenge(o, proof.commitment_w, proj.public_b, proj.tau, proj.salt)
  /\ LET A       == derive_context_matrix(o, proj.tau, proj.salt)
         w_prime == Sub(Apply(A, proof.response_z), Scale(proof.challenge_c.poly, proj.public_b))
     IN  Norm(Sub(w_prime, proof.commitment_w)) < 2 * Beta

verify_projection(o, proj, proof, ctx) == proj.tau = Pad(ctx) /\ verify(o, proj, proof)
=============================================================================
