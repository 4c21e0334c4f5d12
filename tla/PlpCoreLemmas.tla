--------------------------- MODULE PlpCoreLemmas ---------------------------
(***************************************************************************)
(* What projecting and challenging return, and that an honest proof        *)
(* verifies: for the proofs about Plp, Credential and Component.           *)
(***************************************************************************)
EXTENDS PlpCore, TLAPS

LEMMA PadInTag == \A ctx \in Context : Pad(ctx) \in Tag
  BY DEF Tag

LEMMA ProjectionTyped ==
  ASSUME NEW o \in Oracle, NEW id \in Identity, NEW ctx \in Context, NEW rho \in LongEnough
  PROVE  project_at_context(o, id, ctx, rho) \in Projection
<1> DEFINE salt == derive_projection_salt(rho, Pad(ctx))
           A    == derive_context_matrix(o, Pad(ctx), salt)
           As   == Apply(A, SecretOf(o, id))
<1>1. Pad(ctx) \in Tag
  BY PadInTag
<1>2. salt \in Salt
  BY <1>1 DEF Salt, derive_projection_salt
<1>3. A \in Mat
  BY <1>1, <1>2, OracleAssumption DEF derive_context_matrix
<1>4. SecretOf(o, id) \in Vec
  BY OracleAssumption, ClosureAssumption
<1>5. As \in Vec
  BY <1>3, <1>4, ClosureAssumption
<1>6. derive_error_tau(o, rho, ctx) \in Vec
  BY OracleAssumption, ClosureAssumption DEF derive_error_tau
<1>7. Add(As, derive_error_tau(o, rho, ctx)) \in Vec
  BY <1>5, <1>6, ClosureAssumption
<1> QED
  BY <1>1, <1>2, <1>7 DEF project_at_context, Projection

LEMMA ChallengeTyped ==
  ASSUME NEW o \in Oracle, NEW w \in Vec, NEW b \in Vec, NEW tag \in Tag, NEW salt \in Salt
  PROVE  hash_to_challenge(o, w, b, tag, salt) \in Challenge
  BY OracleAssumption DEF hash_to_challenge, Challenge, Transcript
-----------------------------------------------------------------------------
(* The residual of an honest proof is c.e, whose norm is at most beta, and *)
(* the verifier allows strictly less than twice that.                      *)
LEMMA HonestResidual ==
  ASSUME NEW A \in Mat, NEW s \in Vec, NEW e \in Vec, NEW y \in Vec, NEW c \in ChalPoly
  PROVE  Sub(Sub(Apply(A, Add(y, Scale(c, s))), Scale(c, Add(Apply(A, s), e))), Apply(A, y))
           = Sub(Zero, Scale(c, e))
<1> DEFINE u == Apply(A, y)
           v == Scale(c, Apply(A, s))
           r == Scale(c, e)
<1>1. Apply(A, s) \in Vec /\ Scale(c, s) \in Vec
  BY ClosureAssumption
<1>2. u \in Vec /\ v \in Vec /\ r \in Vec
  BY <1>1, ClosureAssumption
<1>3. Apply(A, Add(y, Scale(c, s))) = Add(u, v)
  BY <1>1, ModuleAssumption
<1>4. Scale(c, Add(Apply(A, s), e)) = Add(v, r)
  BY <1>1, ModuleAssumption
<1>5. Sub(Sub(Add(u, v), Add(v, r)), u) = Sub(Zero, r)
  BY <1>2, ModuleAssumption
<1> QED
  BY <1>3, <1>4, <1>5

LEMMA HonestVerifies ==
  ASSUME NEW o \in Oracle, NEW id \in Identity, NEW ctx \in Context, NEW rho \in LongEnough,
         NEW y \in Vec, NEW proj, proj = project_at_context(o, id, ctx, rho),
         NEW proof,
         proof.commitment_w = Apply(derive_context_matrix(o, proj.tau, proj.salt), y),
         proof.challenge_c = hash_to_challenge(o, proof.commitment_w, proj.public_b, proj.tau, proj.salt),
         proof.response_z = Add(y, Scale(proof.challenge_c.poly, SecretOf(o, id))),
         InBound(proof.response_z)
  PROVE  verify(o, proj, proof)
<1> DEFINE A == derive_context_matrix(o, proj.tau, proj.salt)
           s == SecretOf(o, id)
           e == derive_error_tau(o, rho, ctx)
           c == proof.challenge_c.poly
<1>1. proj \in Projection
  BY ProjectionTyped
<1>2. proj.tau \in Tag /\ proj.salt \in Salt /\ proj.public_b \in Vec
  BY <1>1 DEF Projection
<1>3. A \in Mat
  BY <1>2, OracleAssumption DEF derive_context_matrix
<1>4. s \in Vec /\ e \in Short /\ e \in Vec
  BY OracleAssumption, ClosureAssumption DEF derive_error_tau
<1>5. c \in ChalPoly
  <2>1. proof.commitment_w \in Vec
    BY <1>3, ClosureAssumption
  <2>2. proof.challenge_c \in Challenge
    BY <1>2, <2>1, ChallengeTyped
  <2> QED
    BY <2>2 DEF Challenge
<1>6. proj.public_b = Add(Apply(A, s), e)
  BY DEF project_at_context
<1> HIDE DEF A, s, e, c
<1>7. Sub(Sub(Apply(A, Add(y, Scale(c, s))), Scale(c, Add(Apply(A, s), e))), Apply(A, y))
        = Sub(Zero, Scale(c, e))
  BY <1>3, <1>4, <1>5, HonestResidual
<1>8. Scale(c, e) \in Vec /\ Norm(Scale(c, e)) \in Nat
  BY <1>4, <1>5, ClosureAssumption
<1>9. Norm(Sub(Zero, Scale(c, e))) = Norm(Scale(c, e))
  BY <1>8, ModuleAssumption
<1>10. Norm(Scale(c, e)) <= Beta
  BY <1>4, <1>5, BetaAssumption
<1>11. Norm(Sub(Sub(Apply(A, proof.response_z), Scale(c, proj.public_b)), proof.commitment_w)) < 2 * Beta
  <2>1. proof.commitment_w = Apply(A, y) /\ proof.response_z = Add(y, Scale(c, s))
    BY DEF A, s, c
  <2>2. Norm(Sub(Zero, Scale(c, e))) < 2 * Beta
    BY <1>8, <1>9, <1>10, BoundsAssumption
  <2> QED
    BY <1>6, <1>7, <2>1, <2>2
<1> QED
  BY <1>11 DEF verify, A, c
=============================================================================
