----------------------------- MODULE PlpProofs -----------------------------
(***************************************************************************)
(* Proofs about Plp for every set of holders, contexts and randomness,     *)
(* every iteration ceiling, every ring module that satisfies the named     *)
(* assumptions, and every function the hash may be.                        *)
(***************************************************************************)
EXTENDS Plp, PlpCoreLemmas

USE BoundsAssumption

-----------------------------------------------------------------------------
(* What an attempt computes is typed.                                      *)
LEMMA AttemptTyped ==
  ASSUME oracle \in Oracle, NEW in \in Calls, in.rho \in LongEnough,
         NEW i \in 0 .. Ceiling - 1
  PROVE  /\ ProjectionOf(in) \in Projection
         /\ MaskAt(in, i) \in Vec
         /\ CommitmentAt(in, i) \in Vec
         /\ ChallengeAt(in, i) \in Challenge
         /\ Scale(ChallengeAt(in, i).poly, SecretOf(oracle, in.by)) \in Vec
         /\ ResponseAt(in, i) \in Vec
         /\ ProofAt(in, i) \in Proof
<1>1. in.by \in Identity /\ in.ctx \in Context
  BY DEF Calls
<1>2. ProjectionOf(in) \in Projection
  BY <1>1, ProjectionTyped DEF ProjectionOf
<1>3. /\ ProjectionOf(in).tau \in Tag
      /\ ProjectionOf(in).salt \in Salt
      /\ ProjectionOf(in).public_b \in Vec
  BY <1>2 DEF Projection
<1>4. MaskAt(in, i) \in Vec
  <2>1. MaskKey(in.by, Pad(in.ctx), i) \in MaskKeys
    BY <1>1, PadInTag DEF MaskKey, MaskKeys
  <2> QED
    BY <2>1, OracleAssumption DEF MaskAt
<1>5. CommitmentAt(in, i) \in Vec
  <2>1. derive_context_matrix(oracle, ProjectionOf(in).tau, ProjectionOf(in).salt) \in Mat
    BY <1>3, OracleAssumption DEF derive_context_matrix
  <2> QED
    BY <2>1, <1>4, ClosureAssumption DEF CommitmentAt
<1>6. ChallengeAt(in, i) \in Challenge
  BY <1>3, <1>5, ChallengeTyped DEF ChallengeAt
<1>7. Scale(ChallengeAt(in, i).poly, SecretOf(oracle, in.by)) \in Vec
  <2>1. ChallengeAt(in, i).poly \in ChalPoly
    BY <1>6 DEF Challenge
  <2>2. SecretOf(oracle, in.by) \in Vec
    BY <1>1, OracleAssumption, ClosureAssumption
  <2> QED
    BY <2>1, <2>2, ClosureAssumption
<1>8. ResponseAt(in, i) \in Vec
  BY <1>4, <1>7, ClosureAssumption DEF ResponseAt
<1> QED
  BY <1>2, <1>4, <1>5, <1>6, <1>7, <1>8 DEF ProofAt, Proof

-----------------------------------------------------------------------------
(* Completeness, one proof.                                                *)
LEMMA HonestProofVerifies ==
  ASSUME oracle \in Oracle, NEW in \in Calls, in.rho \in LongEnough,
         NEW i \in 0 .. Ceiling - 1, InBound(ResponseAt(in, i))
  PROVE  verify(oracle, ProjectionOf(in), ProofAt(in, i))
<1> DEFINE proj  == ProjectionOf(in)
           proof == ProofAt(in, i)
<1>1. in.by \in Identity /\ in.ctx \in Context
  BY DEF Calls
<1>2. MaskAt(in, i) \in Vec
  BY AttemptTyped
<1>3. /\ proof.commitment_w = CommitmentAt(in, i)
      /\ proof.challenge_c = ChallengeAt(in, i)
      /\ proof.response_z = ResponseAt(in, i)
  BY DEF ProofAt
<1>4. /\ proof.commitment_w = Apply(derive_context_matrix(oracle, proj.tau, proj.salt), MaskAt(in, i))
      /\ proof.challenge_c
           = hash_to_challenge(oracle, proof.commitment_w, proj.public_b, proj.tau, proj.salt)
      /\ proof.response_z = Add(MaskAt(in, i), Scale(proof.challenge_c.poly, SecretOf(oracle, in.by)))
  BY <1>3 DEF CommitmentAt, ChallengeAt, ResponseAt
<1>5. InBound(proof.response_z)
  BY <1>3
<1>6. proj = project_at_context(oracle, in.by, in.ctx, in.rho)
  BY DEF ProjectionOf
<1> HIDE DEF proj, proof
<1>7. verify(oracle, proj, proof)
  BY <1>1, <1>2, <1>4, <1>5, <1>6, HonestVerifies
<1> QED
  BY <1>7 DEF proj, proof

-----------------------------------------------------------------------------
(* What a call computes depends on its inputs and on the hash only, so a   *)
(* step, which never changes the hash, leaves it alone.                    *)
LEMMA Frame ==
  ASSUME oracle' = oracle, NEW in, NEW i
  PROVE  /\ ProjectionOf(in)' = ProjectionOf(in)
         /\ MaskAt(in, i)' = MaskAt(in, i)
         /\ CommitmentAt(in, i)' = CommitmentAt(in, i)
         /\ ChallengeAt(in, i)' = ChallengeAt(in, i)
         /\ ResponseAt(in, i)' = ResponseAt(in, i)
         /\ ProofAt(in, i)' = ProofAt(in, i)
<1>1. ProjectionOf(in)' = ProjectionOf(in)
  BY DEF ProjectionOf
<1>2. MaskAt(in, i)' = MaskAt(in, i)
  BY DEF MaskAt
<1>3. CommitmentAt(in, i)' = CommitmentAt(in, i)
  BY <1>1, <1>2 DEF CommitmentAt
<1>4. ChallengeAt(in, i)' = ChallengeAt(in, i)
  BY <1>1, <1>3 DEF ChallengeAt
<1>5. ResponseAt(in, i)' = ResponseAt(in, i)
  BY <1>2, <1>4 DEF ResponseAt
<1> QED
  BY <1>1, <1>2, <1>3, <1>4, <1>5 DEF ProofAt

LEMMA RejectedFrame ==
  ASSUME oracle' = oracle, NEW in, NEW n
  PROVE  AllRejected(in, n)' <=> AllRejected(in, n)
  BY Frame DEF AllRejected

LEMMA ReturnsFrame ==
  ASSUME oracle' = oracle, NEW r
  PROVE  (ReleasedInv(r)' <=> ReleasedInv(r)) /\ (RefusedInv(r)' <=> RefusedInv(r))
  BY Frame, RejectedFrame DEF ReleasedInv, RefusedInv

LEMMA CallFrame ==
  ASSUME oracle' = oracle, NEW id \in Identity, call'[id] = call[id], CallInv(id)
  PROVE  CallInv(id)'
<1>1. Inputs(id)' = Inputs(id)
  BY DEF Inputs
<1>2. ASSUME ActiveInv(id) PROVE ActiveInv(id)'
  BY <1>1, <1>2, Frame, RejectedFrame DEF ActiveInv
<1> QED
  BY <1>2 DEF CallInv

-----------------------------------------------------------------------------
(* The inductive invariant: types together with the meaning of the buffers *)
(* and of the returns.  TypeOK alone is not inductive, since what Accept   *)
(* returns is typed only because the buffers hold what Commit and Respond  *)
(* put there.                                                              *)
IInv == TypeOK /\ LoopInv

CallType ==
  [pc : {"idle", "sample", "respond", "decide"},
   ctx : Context \cup {None}, rho : LongEnough \cup {None},
   proj : Projection \cup {None}, iter : 0 .. Ceiling,
   buf : [y : Vec \cup {None}, w : Vec \cup {None},
          c : Challenge \cup {None}, z : Vec \cup {None}]]

LEMMA InitIInv == Init => IInv
<1> SUFFICES ASSUME Init PROVE IInv
  OBVIOUS
<1>1. NoCall \in CallType
  BY DEF NoCall, CallType, Empty
<1>2. TypeOK
  BY <1>1 DEF Init, TypeOK, CallType
<1>3. LoopInv
  BY DEF Init, LoopInv, CallInv, NoCall, Empty
<1> QED
  BY <1>2, <1>3 DEF IInv

(* A step that changes one call and no returns.                            *)
LEMMA CallStep ==
  ASSUME IInv, NEW id \in Identity, NEW new \in CallType,
         call' = [call EXCEPT ![id] = new], UNCHANGED <<oracle, released, refused>>,
         CallInv(id)'
  PROVE  IInv'
<1>1. call \in [Identity -> CallType]
  BY DEF IInv, TypeOK, CallType
<1>2. TypeOK'
  BY <1>1 DEF IInv, TypeOK, CallType
<1>3. ASSUME NEW id2 \in Identity PROVE CallInv(id2)'
  <2>1. CASE id2 = id
    BY <2>1
  <2>2. CASE id2 # id
    <3>1. call'[id2] = call[id2]
      BY <2>2, <1>1
    <3> QED
      BY <3>1, CallFrame DEF IInv, LoopInv
  <2> QED
    BY <2>1, <2>2
<1>4. \A r \in released : ReleasedInv(r)'
  BY ReturnsFrame DEF IInv, LoopInv
<1>5. \A r \in refused : RefusedInv(r)'
  BY ReturnsFrame DEF IInv, LoopInv
<1>6. LoopInv'
  BY <1>3, <1>4, <1>5 DEF LoopInv
<1> QED
  BY <1>2, <1>6 DEF IInv

(* A step that ends the call of one holder, if any, and adds to returns.   *)
LEMMA ReturnStep ==
  ASSUME IInv, NEW id \in Identity,
         call' = [call EXCEPT ![id] = NoCall] \/ call' = call,
         oracle' = oracle,
         released' \subseteq [in : Calls, iter : 0 .. Ceiling - 1, proof : Proof],
         refused' \subseteq [in : Calls, error : {"InvalidInputLength", "RejectionSamplingFailed"}],
         \A r \in released' : r \in released \/ ReleasedInv(r),
         \A r \in refused' : r \in refused \/ RefusedInv(r)
  PROVE  IInv'
<1>1. call \in [Identity -> CallType] /\ NoCall \in CallType
  BY DEF IInv, TypeOK, CallType, NoCall, Empty
<1>2. TypeOK'
  BY <1>1 DEF IInv, TypeOK, CallType
<1>3. ASSUME NEW id2 \in Identity PROVE CallInv(id2)'
  <2>1. CASE call'[id2] = call[id2]
    BY <2>1, CallFrame DEF IInv, LoopInv
  <2>2. CASE call'[id2] = NoCall
    BY <2>2 DEF CallInv, NoCall
  <2> QED
    BY <1>1, <2>1, <2>2
<1>4. \A r \in released' : ReleasedInv(r)'
  BY ReturnsFrame DEF IInv, LoopInv
<1>5. \A r \in refused' : RefusedInv(r)'
  BY ReturnsFrame DEF IInv, LoopInv
<1>6. LoopInv'
  BY <1>3, <1>4, <1>5 DEF LoopInv
<1> QED
  BY <1>2, <1>6 DEF IInv

-----------------------------------------------------------------------------
(* Each action preserves the invariant.                                    *)

LEMMA RefuseShortStep ==
  ASSUME IInv, NEW id \in Identity, NEW ctx \in Context, NEW rho \in Randomness,
         RefuseShort(id, ctx, rho)
  PROVE  IInv'
<1> DEFINE new == [in    |-> [by |-> id, ctx |-> ctx, rho |-> rho],
                   error |-> "InvalidInputLength"]
<1>1. RefusedInv(new)
  BY DEF RefuseShort, RefusedInv, Calls
<1>2. new \in [in : Calls, error : {"InvalidInputLength", "RejectionSamplingFailed"}]
  BY DEF Calls
<1>3. refused' = refused \cup {new}
  BY DEF RefuseShort
<1> QED
  BY <1>1, <1>2, <1>3, ReturnStep DEF RefuseShort, IInv, TypeOK

LEMMA BeginProveStep ==
  ASSUME IInv, NEW id \in Identity, NEW ctx \in Context, NEW rho \in Randomness,
         BeginProve(id, ctx, rho)
  PROVE  IInv'
<1> DEFINE proj == project_at_context(oracle, id, ctx, rho)
           new  == [pc |-> "sample", ctx |-> ctx, rho |-> rho, proj |-> proj,
                    iter |-> 0, buf |-> Empty]
           in   == [by |-> id, ctx |-> ctx, rho |-> rho]
<1>1. rho \in LongEnough /\ oracle' = oracle /\ call' = [call EXCEPT ![id] = new]
  BY DEF BeginProve
<1>2. proj \in Projection
  BY <1>1, ProjectionTyped DEF IInv, TypeOK
<1>3. new \in CallType
  BY <1>1, <1>2 DEF CallType, Empty
<1>4. call'[id] = new
  BY <1>1 DEF IInv, TypeOK
<1>5. Inputs(id)' = in /\ in \in Calls
  BY <1>4 DEF Inputs, Calls
<1>6. ProjectionOf(in)' = proj
  BY <1>1 DEF ProjectionOf
<1>7. AllRejected(in, 0)'
  BY DEF AllRejected
<1>8. ActiveInv(id)'
  BY <1>1, <1>4, <1>5, <1>6, <1>7 DEF ActiveInv
<1>9. CallInv(id)'
  BY <1>4, <1>8 DEF CallInv
<1> HIDE DEF new
<1> QED
  BY <1>1, <1>3, <1>9, CallStep DEF BeginProve

(* The facts of an attempt in progress that every later step needs.        *)
LEMMA Attempting ==
  ASSUME IInv, NEW id \in Identity, call[id].pc # "idle"
  PROVE  /\ oracle \in Oracle
         /\ call[id] \in CallType
         /\ ActiveInv(id)
         /\ Inputs(id) \in Calls /\ Inputs(id).rho \in LongEnough
         /\ call[id].iter \in 0 .. Ceiling
         /\ call[id].pc \in {"respond", "decide"} => call[id].iter < Ceiling
<1>1. call \in [Identity -> CallType] /\ oracle \in Oracle
  BY DEF IInv, TypeOK, CallType
<1>2. call[id] \in CallType
  BY <1>1
<1>3. CallInv(id)
  BY DEF IInv, LoopInv
<1>4. ActiveInv(id)
  BY <1>3 DEF CallInv
<1> QED
  BY <1>1, <1>2, <1>4 DEF ActiveInv, CallType

LEMMA CommitStep ==
  ASSUME IInv, NEW id \in Identity, Commit(id)
  PROVE  IInv'
<1>0. PICK in \in Calls, i \in 0 .. Ceiling - 1 :
        /\ in = Inputs(id) /\ i = call[id].iter /\ in.rho \in LongEnough
        /\ ActiveInv(id) /\ oracle \in Oracle /\ call[id] \in CallType
  <2>1. Inputs(id) \in Calls /\ call[id].iter \in 0 .. Ceiling - 1
    BY Attempting DEF Commit
  <2> QED
    BY <2>1, Attempting DEF Commit
<1> DEFINE buf == [y |-> MaskAt(in, i), w |-> CommitmentAt(in, i),
                   c |-> ChallengeAt(in, i), z |-> None]
           new == [call[id] EXCEPT !.pc = "respond", !.buf = buf]
<1>1. oracle' = oracle /\ call[id].pc = "sample"
  BY <1>0 DEF Commit
<1>2. call[id].proj = ProjectionOf(in)
  BY <1>0, <1>1 DEF ActiveInv
<1>3. MaskOf(oracle, MaskKey(id, ProjectionOf(in).tau, i)) = MaskAt(in, i)
  BY <1>0 DEF MaskAt, Inputs, ProjectionOf, project_at_context
<1>4. call' = [call EXCEPT ![id] = new]
  BY <1>0, <1>2, <1>3 DEF Commit, CommitmentAt, ChallengeAt, IInv, TypeOK
<1>5. MaskAt(in, i) \in Vec /\ CommitmentAt(in, i) \in Vec /\ ChallengeAt(in, i) \in Challenge
  BY <1>0, <1>1, AttemptTyped
<1>6. new \in CallType
  BY <1>0, <1>1, <1>5 DEF CallType
<1>7. call'[id] = new
  BY <1>0, <1>4 DEF IInv, TypeOK
<1>8. new.pc = "respond" /\ new.buf = buf /\ new.iter = i
      /\ new.ctx = call[id].ctx /\ new.rho = call[id].rho /\ new.proj = call[id].proj
  BY <1>0, <1>1 DEF CallType
<1>9. Inputs(id)' = in
  BY <1>0, <1>7, <1>8 DEF Inputs
<1>10. buf = [y |-> MaskAt(in, i)', w |-> CommitmentAt(in, i)',
              c |-> ChallengeAt(in, i)', z |-> None]
  BY <1>0, <1>1, Frame
<1>11. AllRejected(in, i)' /\ ProjectionOf(in)' = ProjectionOf(in)
  BY <1>0, <1>1, Frame, RejectedFrame DEF ActiveInv
<1> HIDE DEF new, buf
<1>12. ActiveInv(id)'
  BY <1>0, <1>1, <1>2, <1>7, <1>8, <1>9, <1>10, <1>11 DEF ActiveInv
<1>13. CallInv(id)'
  BY <1>0, <1>7, <1>8, <1>12 DEF CallInv
<1> QED
  BY <1>0, <1>4, <1>6, <1>13, CallStep DEF Commit

LEMMA RespondStep ==
  ASSUME IInv, NEW id \in Identity, Respond(id)
  PROVE  IInv'
<1>0. PICK in \in Calls, i \in 0 .. Ceiling - 1 :
        /\ in = Inputs(id) /\ i = call[id].iter /\ in.rho \in LongEnough
        /\ ActiveInv(id) /\ oracle \in Oracle /\ call[id] \in CallType
  <2>1. Inputs(id) \in Calls /\ call[id].iter \in 0 .. Ceiling - 1
    BY Attempting DEF Respond
  <2> QED
    BY <2>1, Attempting DEF Respond
<1> DEFINE buf == [y |-> None, w |-> CommitmentAt(in, i),
                   c |-> ChallengeAt(in, i), z |-> ResponseAt(in, i)]
           new == [call[id] EXCEPT !.pc = "decide", !.buf = buf]
<1>1. oracle' = oracle /\ call[id].pc = "respond"
  BY <1>0 DEF Respond
<1>2. /\ i \in 0 .. Ceiling - 1
      /\ call[id].buf = [y |-> MaskAt(in, i), w |-> CommitmentAt(in, i),
                         c |-> ChallengeAt(in, i), z |-> None]
  BY <1>0, <1>1 DEF ActiveInv
<1>3. in.by = id
  BY <1>0 DEF Inputs
<1>4. [y |-> None, w |-> call[id].buf.w, c |-> call[id].buf.c,
       z |-> Add(call[id].buf.y, Scale(call[id].buf.c.poly, SecretOf(oracle, id)))] = buf
  BY <1>0, <1>2, <1>3 DEF ResponseAt
<1>5. call' = [call EXCEPT ![id] = new]
  BY <1>0, <1>4 DEF Respond, IInv, TypeOK
<1>6. /\ CommitmentAt(in, i) \in Vec /\ ChallengeAt(in, i) \in Challenge
      /\ ResponseAt(in, i) \in Vec
  BY <1>0, <1>1, <1>2, AttemptTyped
<1>7. new \in CallType
  BY <1>0, <1>1, <1>6, ZenonT(30) DEF CallType
<1>8. call'[id] = new
  BY <1>0, <1>5 DEF IInv, TypeOK
<1>9. new.pc = "decide" /\ new.buf = buf /\ new.iter = i
      /\ new.ctx = call[id].ctx /\ new.rho = call[id].rho /\ new.proj = call[id].proj
  BY <1>0, <1>1 DEF CallType
<1>10. Inputs(id)' = in
  BY <1>0, <1>8, <1>9 DEF Inputs
<1>11. buf = [y |-> None, w |-> CommitmentAt(in, i)',
              c |-> ChallengeAt(in, i)', z |-> ResponseAt(in, i)']
  BY <1>0, <1>1, Frame
<1>12. AllRejected(in, i)' /\ ProjectionOf(in)' = call[id].proj
  BY <1>0, <1>1, Frame, RejectedFrame DEF ActiveInv
<1> HIDE DEF new, buf
<1>13. ActiveInv(id)'
  BY <1>0, <1>1, <1>2, <1>8, <1>9, <1>10, <1>11, <1>12 DEF ActiveInv
<1>14. CallInv(id)'
  BY <1>0, <1>8, <1>9, <1>13 DEF CallInv
<1> QED
  BY <1>0, <1>5, <1>7, <1>14, CallStep DEF Respond

LEMMA AcceptStep ==
  ASSUME IInv, NEW id \in Identity, Accept(id)
  PROVE  IInv'
<1> DEFINE in  == Inputs(id)
           i   == call[id].iter
           new == [in |-> in, iter |-> i, proof |-> ProofAt(in, i)]
<1>1. /\ oracle \in Oracle /\ ActiveInv(id)
      /\ in \in Calls /\ in.rho \in LongEnough
      /\ i \in 0 .. Ceiling /\ call[id].pc = "decide"
  BY Attempting DEF Accept
<1>2. /\ i \in 0 .. Ceiling - 1 /\ AllRejected(in, i)
      /\ call[id].buf = [y |-> None, w |-> CommitmentAt(in, i),
                         c |-> ChallengeAt(in, i), z |-> ResponseAt(in, i)]
  BY <1>1 DEF ActiveInv
<1>3. released' = released \cup {new}
  BY <1>2 DEF Accept, ProofAt
<1>4. ReleasedInv(new)
  BY <1>1, <1>2 DEF ReleasedInv, Accept
<1>5. new \in [in : Calls, iter : 0 .. Ceiling - 1, proof : Proof]
  BY <1>1, <1>2, AttemptTyped
<1> HIDE DEF new
<1> QED
  BY <1>3, <1>4, <1>5, ReturnStep DEF Accept, IInv, TypeOK

LEMMA RejectStep ==
  ASSUME IInv, NEW id \in Identity, Reject(id)
  PROVE  IInv'
<1>0. PICK in \in Calls, i \in 0 .. Ceiling - 1 :
        /\ in = Inputs(id) /\ i = call[id].iter /\ in.rho \in LongEnough
        /\ ActiveInv(id) /\ oracle \in Oracle /\ call[id] \in CallType
  <2>1. Inputs(id) \in Calls /\ call[id].iter \in 0 .. Ceiling - 1
    BY Attempting DEF Reject
  <2> QED
    BY <2>1, Attempting DEF Reject
<1> DEFINE new == [call[id] EXCEPT !.pc = "sample", !.iter = i + 1, !.buf = Empty]
<1>1. oracle' = oracle /\ call[id].pc = "decide"
  BY <1>0 DEF Reject
<1>2. /\ i \in 0 .. Ceiling - 1 /\ AllRejected(in, i)
      /\ call[id].buf = [y |-> None, w |-> CommitmentAt(in, i),
                         c |-> ChallengeAt(in, i), z |-> ResponseAt(in, i)]
  BY <1>0, <1>1 DEF ActiveInv
<1>3. ~ InBound(ResponseAt(in, i))
  BY <1>0, <1>2 DEF Reject
<1>4. AllRejected(in, i + 1)
  BY <1>0, <1>2, <1>3 DEF AllRejected
<1>5. [y |-> call[id].buf.y, w |-> None, c |-> None, z |-> None] = Empty
  BY <1>0, <1>2 DEF Empty
<1>6. call' = [call EXCEPT ![id] = new]
  BY <1>0, <1>5 DEF Reject, IInv, TypeOK
<1>7. new \in CallType
  <2>1. i + 1 \in 0 .. Ceiling
    OBVIOUS
  <2>2. Empty \in [y : Vec \cup {None}, w : Vec \cup {None},
                   c : Challenge \cup {None}, z : Vec \cup {None}]
    BY DEF Empty
  <2> QED
    BY <1>0, <2>1, <2>2, ZenonT(30) DEF CallType
<1>8. call'[id] = new
  BY <1>0, <1>6 DEF IInv, TypeOK
<1>9. new.pc = "sample" /\ new.buf = Empty /\ new.iter = i + 1
      /\ new.ctx = call[id].ctx /\ new.rho = call[id].rho /\ new.proj = call[id].proj
  BY <1>0, <1>1 DEF CallType
<1>10. Inputs(id)' = in
  BY <1>0, <1>8, <1>9 DEF Inputs
<1>11. AllRejected(in, i + 1)' /\ ProjectionOf(in)' = call[id].proj
  BY <1>0, <1>1, <1>4, Frame, RejectedFrame DEF ActiveInv
<1> HIDE DEF new
<1>12. ActiveInv(id)'
  BY <1>0, <1>1, <1>8, <1>9, <1>10, <1>11 DEF ActiveInv
<1>13. CallInv(id)'
  BY <1>0, <1>8, <1>9, <1>12 DEF CallInv
<1> QED
  BY <1>0, <1>6, <1>7, <1>13, CallStep DEF Reject

LEMMA ExhaustedStep ==
  ASSUME IInv, NEW id \in Identity, Exhausted(id)
  PROVE  IInv'
<1> DEFINE new == [in |-> Inputs(id), error |-> "RejectionSamplingFailed"]
<1>1. /\ Inputs(id) \in Calls /\ Inputs(id).rho \in LongEnough /\ ActiveInv(id)
      /\ call[id].iter = Ceiling
  BY Attempting DEF Exhausted
<1>2. RefusedInv(new)
  BY <1>1 DEF RefusedInv, ActiveInv
<1>3. new \in [in : Calls, error : {"InvalidInputLength", "RejectionSamplingFailed"}]
  BY <1>1
<1>4. refused' = refused \cup {new}
  BY DEF Exhausted
<1> HIDE DEF new
<1> QED
  BY <1>2, <1>3, <1>4, ReturnStep DEF Exhausted, IInv, TypeOK

LEMMA NextIInv == IInv /\ [Next]_vars => IInv'
<1> SUFFICES ASSUME IInv, [Next]_vars PROVE IInv'
  OBVIOUS
<1>1. CASE Next
  <2> SUFFICES ASSUME NEW id \in Identity,
                      \/ \E ctx \in Context, rho \in Randomness :
                           RefuseShort(id, ctx, rho) \/ BeginProve(id, ctx, rho)
                      \/ ProveStep(id)
               PROVE  IInv'
    BY <1>1 DEF Next
  <2> QED
    BY RefuseShortStep, BeginProveStep, CommitStep, RespondStep, AcceptStep, RejectStep,
       ExhaustedStep DEF ProveStep
<1>2. CASE UNCHANGED vars
  <2>2. TypeOK'
    BY <1>2 DEF IInv, TypeOK, vars
  <2>3. \A id2 \in Identity : CallInv(id2)'
    BY <1>2, CallFrame DEF IInv, LoopInv, vars
  <2>4. (\A r \in released : ReleasedInv(r)') /\ (\A r \in refused : RefusedInv(r)')
    BY <1>2, ReturnsFrame DEF IInv, LoopInv, vars
  <2> QED
    BY <1>2, <2>2, <2>3, <2>4 DEF IInv, LoopInv, vars
<1> QED
  BY <1>1, <1>2

(* IInv holds in every reachable state.                                    *)
THEOREM Invariance == Spec => []IInv
  BY InitIInv, NextIInv, PTL DEF Spec

-----------------------------------------------------------------------------
(* What follows from the invariant.                                        *)

(* Every variable stays in its type: in particular every returned proof    *)
(* is a well-formed proof and every error one of the two the call has.     *)
THEOREM TypeCorrect == Spec => []TypeOK
  BY Invariance, PTL DEF IInv

(* The rejection loop returns the first acceptable attempt or fails after  *)
(* all of them, for every ceiling and every hash.                          *)
THEOREM LoopCorrect == Spec => []LoopInv
  BY Invariance, PTL DEF IInv

(* No response outside the bound leaves the prover.                        *)
THEOREM BoundHolds == Spec => []ReleasedInBound
<1>1. IInv => ReleasedInBound
  <2> SUFFICES ASSUME IInv, NEW r \in released PROVE Norm(r.proof.response_z) < Gamma1 - Beta
    BY DEF ReleasedInBound
  <2>1. ReleasedInv(r)
    BY DEF IInv, LoopInv
  <2> QED
    BY <2>1 DEF ReleasedInv, InBound, ProofAt
<1> QED
  BY <1>1, Invariance, PTL

(* Every returned proof is accepted with the projection of its call, at    *)
(* every context with the same tag.                                        *)
THEOREM Completeness == Spec => []ReleasedVerifies
<1>1. IInv => ReleasedVerifies
  <2> SUFFICES ASSUME IInv, NEW r \in released, NEW ctx \in Context, Pad(ctx) = Pad(r.in.ctx)
               PROVE  verify_projection(oracle, ProjectionOf(r.in), r.proof, ctx)
    BY DEF ReleasedVerifies
  <2>1. ReleasedInv(r) /\ oracle \in Oracle
    BY DEF IInv, LoopInv, TypeOK
  <2>2. verify(oracle, ProjectionOf(r.in), r.proof)
    BY <2>1, HonestProofVerifies DEF ReleasedInv
  <2>3. ProjectionOf(r.in).tau = Pad(r.in.ctx)
    BY DEF ProjectionOf, project_at_context
  <2> QED
    BY <2>2, <2>3 DEF verify_projection
<1> QED
  BY <1>1, Invariance, PTL

(* A returned proof is accepted with no projection but its own.            *)
THEOREM Binding == Spec => []AcceptIsAuthentic
<1>1. IInv => AcceptIsAuthentic
  <2> SUFFICES ASSUME IInv, NEW r \in released, NEW in \in Calls, NEW ctx \in Context,
                      in.rho \in LongEnough,
                      verify_projection(oracle, ProjectionOf(in), r.proof, ctx)
               PROVE  ProjectionOf(in) = ProjectionOf(r.in) /\ Pad(ctx) = Pad(r.in.ctx)
    BY DEF AcceptIsAuthentic
  <2> DEFINE p == ProjectionOf(in)
             q == ProjectionOf(r.in)
  <2>1. r.proof = ProofAt(r.in, r.iter)
    BY DEF IInv, LoopInv, ReleasedInv
  <2>2. r.proof.challenge_c.of
          = [w |-> r.proof.commitment_w, public_b |-> q.public_b, tau |-> q.tau, salt |-> q.salt]
    BY <2>1 DEF ProofAt, ChallengeAt, hash_to_challenge
  <2>3. r.proof.challenge_c.of
          = [w |-> r.proof.commitment_w, public_b |-> p.public_b, tau |-> p.tau, salt |-> p.salt]
    BY DEF verify_projection, verify, hash_to_challenge
  <2>4. p.public_b = q.public_b /\ p.tau = q.tau /\ p.salt = q.salt
    BY <2>2, <2>3
  <2>5. p = q
    BY <2>4 DEF ProjectionOf, project_at_context
  <2>6. p.tau = Pad(ctx)
    BY DEF verify_projection
  <2>7. q.tau = Pad(r.in.ctx)
    BY DEF ProjectionOf, project_at_context
  <2> QED
    BY <2>4, <2>5, <2>6, <2>7
<1> QED
  BY <1>1, Invariance, PTL

(* No mask and no rejected response survives the step that needs it.       *)
THEOREM ResidueFree == Spec => []NoResidue
<1>1. IInv => NoResidue
  <2> SUFFICES ASSUME IInv, NEW id \in Identity
               PROVE  /\ call[id].pc \in {"idle", "sample"} => call[id].buf = Empty
                      /\ call[id].pc = "decide" => call[id].buf.y = None
    BY DEF NoResidue
  <2>1. CallInv(id)
    BY DEF IInv, LoopInv
  <2> QED
    BY <2>1 DEF CallInv, ActiveInv, NoCall
<1> QED
  BY <1>1, Invariance, PTL

-----------------------------------------------------------------------------
(* The prover implements its promise.                                      *)

(* The first acceptable attempt is unique, so two returns of one call are  *)
(* the same, and a call that returned a proof never returns an error.      *)
LEMMA SameProof ==
  ASSUME NEW r1, NEW r2, ReleasedInv(r1), ReleasedInv(r2), r1.in = r2.in
  PROVE  r1.proof = r2.proof
<1>1. r1.iter \in Int /\ r2.iter \in Int /\ r1.iter >= 0 /\ r2.iter >= 0
  BY DEF ReleasedInv
<1>2. ~ (r1.iter < r2.iter)
  BY <1>1 DEF ReleasedInv, AllRejected
<1>3. ~ (r2.iter < r1.iter)
  BY <1>1 DEF ReleasedInv, AllRejected
<1> QED
  BY <1>1, <1>2, <1>3 DEF ReleasedInv

LEMMA ProofOrError ==
  ASSUME NEW r1, NEW r2, ReleasedInv(r1), RefusedInv(r2)
  PROVE  r1.in # r2.in
  BY DEF ReleasedInv, RefusedInv, AllRejected

LEMMA SameError ==
  ASSUME NEW r1, NEW r2, RefusedInv(r1), RefusedInv(r2), r1.in = r2.in
  PROVE  r1.error = r2.error
  BY DEF RefusedInv

(* The promise computes with the prover's own definitions.                 *)
LEMMA SamePromise ==
  /\ Promise!Calls = Calls
  /\ Promise!Proof = Proof
  /\ \A in : Promise!ProjectionOf(in) = ProjectionOf(in)
  /\ \A p, proof, ctx :
       Promise!verify_projection(oracle, p, proof, ctx) <=> verify_projection(oracle, p, proof, ctx)
<1>1. Promise!Calls = Calls
  BY DEF Promise!Calls, Calls
<1>2. Promise!Proof = Proof
  BY DEF Promise!Proof, Proof, Promise!Challenge, Challenge, Promise!Transcript, Transcript,
         Promise!Salt, Salt, Promise!Tag, Tag
<1>3. ASSUME NEW in
      PROVE  Promise!ProjectionOf(in) = ProjectionOf(in)
  BY DEF Promise!ProjectionOf, ProjectionOf, Promise!project_at_context, project_at_context,
         Promise!derive_projection_salt, derive_projection_salt, Promise!derive_context_matrix,
         derive_context_matrix, Promise!derive_error_tau, derive_error_tau
<1>4. ASSUME NEW p, NEW proof, NEW ctx
      PROVE  Promise!verify_projection(oracle, p, proof, ctx)
               <=> verify_projection(oracle, p, proof, ctx)
  BY DEF Promise!verify_projection, verify_projection, Promise!verify, verify, Promise!InBound,
         InBound, Promise!hash_to_challenge, hash_to_challenge, Promise!derive_context_matrix,
         derive_context_matrix
<1> QED
  BY <1>1, <1>2, <1>3, <1>4

AbsReleased == {[in |-> r.in, proof |-> r.proof] : r \in released}

LEMMA StepImplements == IInv /\ IInv' /\ [Next]_vars => [Promise!Next]_(Promise!absvars)
<1> SUFFICES ASSUME IInv, IInv', [Next]_vars
             PROVE  Promise!Next \/ UNCHANGED Promise!absvars
  OBVIOUS
<1>1. ASSUME UNCHANGED <<oracle, released, refused>>
      PROVE  UNCHANGED Promise!absvars
  BY <1>1 DEF Promise!absvars
<1>2. ASSUME NEW id \in Identity, Accept(id)
      PROVE  Promise!Next
  <2> DEFINE new == [in |-> Inputs(id), iter |-> call[id].iter,
                     proof |-> [commitment_w |-> call[id].buf.w,
                                challenge_c  |-> call[id].buf.c,
                                response_z   |-> call[id].buf.z]]
  <2>1. PICK r : r = new
    OBVIOUS
  <2>2. released' = released \cup {r} /\ oracle' = oracle /\ refused' = refused
    BY <1>2, <2>1 DEF Accept
  <2>3. ReleasedInv(r)
    BY <2>2, ReturnsFrame DEF IInv, LoopInv
  <2>4. r.proof \in Proof
    BY <2>2 DEF IInv, TypeOK
  <2> DEFINE a == [in |-> r.in, proof |-> r.proof]
  <2>5. \A r2 \in released : r2.in = r.in => r2.proof = r.proof
    BY <2>3, SameProof DEF IInv, LoopInv
  <2>6. \A r2 \in refused : r2.in # r.in
    BY <2>3, ProofOrError DEF IInv, LoopInv
  <2>7. verify_projection(oracle, ProjectionOf(r.in), r.proof, r.in.ctx)
    <3>1. oracle \in Oracle
      BY DEF IInv, TypeOK
    <3>2. verify(oracle, ProjectionOf(r.in), r.proof)
      BY <2>3, <3>1, HonestProofVerifies DEF ReleasedInv
    <3> QED
      BY <3>2 DEF verify_projection, ProjectionOf, project_at_context
  <2>8. AbsReleased' = AbsReleased \cup {a}
    BY <2>2 DEF AbsReleased
  <2>9. Promise!ReturnProof(a)
    <3>1. a.in = r.in /\ a.proof = r.proof
      OBVIOUS
    <3>2. a.in \in Promise!Calls /\ a.in.rho \in LongEnough
      BY <2>3, <3>1, SamePromise DEF ReleasedInv
    <3>3. Promise!verify_projection(oracle, Promise!ProjectionOf(a.in), a.proof, a.in.ctx)
      BY <2>7, <3>1, SamePromise
    <3>4. \A r2 \in AbsReleased : r2.in = a.in => r2 = a
      BY <2>5, <3>1 DEF AbsReleased
    <3>5. \A r2 \in refused : r2.in # a.in
      BY <2>6, <3>1
    <3>6. a.proof \in Promise!Proof
      BY <2>4, <3>1, SamePromise
    <3>7. AbsReleased' = AbsReleased \cup {a} /\ oracle' = oracle /\ refused' = refused
      BY <2>2, <2>8
    <3> HIDE DEF a
    <3> QED
      BY <3>2, <3>3, <3>4, <3>5, <3>6, <3>7
         DEF Promise!ReturnProof, AbsReleased
  <2>10. a \in AbsReleased'
    BY <2>8
  <2> QED
    BY <2>9, <2>10 DEF Promise!Next, AbsReleased
<1>3. ASSUME NEW r, refused' = refused \cup {r}, UNCHANGED <<oracle, released>>
      PROVE  Promise!Next
  <2>1. RefusedInv(r)
    BY <1>3, ReturnsFrame DEF IInv, LoopInv
  <2>2. r \in [in : Calls, error : {"InvalidInputLength", "RejectionSamplingFailed"}]
    BY <1>3 DEF IInv, TypeOK
  <2>3. \A r2 \in refused : r2.in = r.in => r2 = r
    <3> SUFFICES ASSUME NEW r2 \in refused, r2.in = r.in PROVE r2 = r
      OBVIOUS
    <3>1. r2.error = r.error
      BY <2>1, SameError DEF IInv, LoopInv
    <3>2. r2 \in [in : Calls, error : {"InvalidInputLength", "RejectionSamplingFailed"}]
      BY DEF IInv, TypeOK
    <3> QED
      BY <2>2, <3>1, <3>2
  <2>4. \A r2 \in released : r2.in # r.in
    BY <2>1, ProofOrError DEF IInv, LoopInv
  <2>5. Promise!ReturnError(r)
    BY <1>3, <2>1, <2>2, <2>3, <2>4
       DEF Promise!ReturnError, Promise!Errors, RefusedInv, Calls, Promise!Calls
  <2> QED
    BY <1>3, <2>5 DEF Promise!Next
<1>4. CASE UNCHANGED vars
  BY <1>1, <1>4 DEF vars
<1>5. CASE Next
  <2> SUFFICES ASSUME NEW id \in Identity,
                      \/ \E ctx \in Context, rho \in Randomness :
                           RefuseShort(id, ctx, rho) \/ BeginProve(id, ctx, rho)
                      \/ ProveStep(id)
               PROVE  Promise!Next \/ UNCHANGED Promise!absvars
    BY <1>5 DEF Next
  <2>1. CASE \E ctx \in Context, rho \in Randomness : RefuseShort(id, ctx, rho)
    BY <1>3, <2>1 DEF RefuseShort
  <2>2. CASE \E ctx \in Context, rho \in Randomness : BeginProve(id, ctx, rho)
    BY <1>1, <2>2 DEF BeginProve
  <2>3. CASE Commit(id) \/ Respond(id) \/ Reject(id)
    BY <1>1, <2>3 DEF Commit, Respond, Reject
  <2>4. CASE Accept(id)
    BY <1>2, <2>4
  <2>5. CASE Exhausted(id)
    BY <1>3, <2>5 DEF Exhausted
  <2> QED
    BY <2>1, <2>2, <2>3, <2>4, <2>5 DEF ProveStep
<1> QED
  BY <1>4, <1>5

(* Whatever the rejection loop does inside, proving is a function of its   *)
(* inputs whose proofs verify and which refuses short randomness.          *)
THEOREM Refinement == Spec => ImplementsPromise
<1>1. Init => Promise!Init
  BY DEF Init, Promise!Init
<1> QED
  BY <1>1, StepImplements, Invariance, PTL DEF Spec, ImplementsPromise, Promise!Spec
=============================================================================
