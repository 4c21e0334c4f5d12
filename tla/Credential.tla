----------------------------- MODULE Credential -----------------------------
(***************************************************************************)
(* Issuing, blinding and presenting credentials (src/src/credential.rs).   *)
(* A wallet holds blinded credentials and calls prove with arguments it    *)
(* assembles itself: credential, identity, projection, context and         *)
(* randomness need not belong together.  Calls share no state, so one is   *)
(* in progress at a time.  Randomness shorter than 32 bytes is refused     *)
(* before anything is derived and changes nothing.                         *)
(***************************************************************************)
EXTENDS CredentialCore, FiniteSets

CONSTANTS
  MAX_REJECTION_ITERATIONS,
  CallWithin(_, _),   \* bound: the calls considered, given those that returned
  MaxBlinded          \* bound: blinded credentials in the wallet

ASSUME LimitAssumption == MAX_REJECTION_ITERATIONS \in Nat

(* prove derives e_tau from whatever randomness it is called with.         *)
ASSUME ErrorAssumption ==
  \A o \in Oracle, rho \in Randomness, ctx \in Context : ErrorOf(o, <<rho, ctx>>) \in Short

VARIABLES
  oracle,      \* which functions the hash derivations are; never changes
  credential,  \* the credential in use, with the inputs of its issuing
  wallet,      \* blinded credentials
  call,        \* the prove call in progress and its buffers
  presented    \* presentations returned, with the inputs of the call

vars == <<oracle, credential, wallet, call, presented>>

NoMasks     == [r |-> None, s |-> None, e |-> None, m |-> None]
NoResponses == [r |-> None, m |-> None, s |-> None, e |-> None]
NoCall == [pc |-> "idle", in |-> None, iter |-> 0, c |-> None,
           y |-> NoMasks, z |-> NoResponses]

ProjectionOf(in) == project_at_context(oracle, in.proj.by, in.proj.ctx, in.proj.rho)

StatementOf(in) ==
  Statement(in.issuer, in.blinded.t_blind, ProjectionOf(in), in.ctx, in.disclosed,
            DisclosedValues(in.blinded.m, in.disclosed))

(* A mutation: the masks are keyed on the caller's randomness alone.       *)
MaskKey_RandomnessOnly(in, iter) == <<in.rand, iter>>

(* What the hasher of a mask absorbs, besides a label per witness.         *)
MaskKey(in, iter) == <<in.rand, StatementOf(in), iter>>
-----------------------------------------------------------------------------
Issue(issuer, id, attributes, rand) ==
  /\ credential = None
  /\ rand \in LongEnough
  /\ credential' = [by_issuer |-> issuer, to |-> id, attributes |-> attributes,
                    cred |-> issue(oracle, issuer, id, attributes, rand)]
  /\ UNCHANGED <<oracle, wallet, call, presented>>

Blind(issuer, rand) ==
  /\ credential # None
  /\ call.pc = "idle"
  /\ rand \in LongEnough
  /\ wallet' = wallet \cup {blind(oracle, issuer, credential.cred, rand)}
  /\ Cardinality(wallet') <= MaxBlinded
  /\ UNCHANGED <<oracle, credential, call, presented>>

BeginProve(in) ==
  /\ call.pc = "idle"
  /\ in.rand \in LongEnough
  /\ CallWithin(in, {p.in : p \in presented})
  /\ call' = [NoCall EXCEPT !.pc = "sample", !.in = in]
  /\ UNCHANGED <<oracle, credential, wallet, presented>>

(* A mutation: one attempt more than the limit.                            *)
AttemptLeft_OneMore == call.iter <= MAX_REJECTION_ITERATIONS

AttemptLeft == call.iter < MAX_REJECTION_ITERATIONS

(* Masks, both commitments and the challenge of an attempt.                *)
Commit ==
  /\ call.pc = "sample"
  /\ AttemptLeft
  /\ LET in   == call.in
         proj == ProjectionOf(in)
         y    == Masks(oracle, MaskKey(in, call.iter))
         w1   == Commitment(oracle, in.issuer, y.r, y.m)
         w2   == Add(Apply(derive_context_matrix(oracle, proj.tau, proj.salt), y.s), y.e)
     IN  call' = [call EXCEPT !.pc = "respond", !.y = y,
                              !.c = derive_challenge(oracle, w1, w2, StatementOf(in))]
  /\ UNCHANGED <<oracle, credential, wallet, presented>>

(* e_tau is derived again from the randomness and the context of the call. *)
Respond ==
  /\ call.pc = "respond"
  /\ LET in == call.in
         c  == call.c.poly
         y  == call.y
     IN  call' = [call EXCEPT !.pc = "decide",
           !.z = [r |-> RVecAdd(y.r, RVecScale(c, in.blinded.r_star)),
                  m |-> RVecAdd(y.m, RVecScale(c, Hidden(in.blinded.m, in.disclosed))),
                  s |-> Add(y.s, Scale(c, SecretOf(oracle, in.by))),
                  e |-> Add(y.e, Scale(c, derive_error_tau(oracle, in.rho, in.ctx)))]]
  /\ UNCHANGED <<oracle, credential, wallet, presented>>

(* A mutation: the bound of the error response is not checked.             *)
Acceptable_WithoutE(z) ==
  /\ Norm(z.s) < REJECTION_BOUND
  /\ \A i \in LRows : RNorm(z.r[i]) < REJECTION_BOUND

Acceptable(z) == ShortResponses(z)

Accept ==
  /\ call.pc = "decide"
  /\ Acceptable(call.z)
  /\ presented' = presented \cup
       {[in |-> call.in, iter |-> call.iter,
         pres |-> [disclosed |-> call.in.disclosed,
                   values    |-> DisclosedValues(call.in.blinded.m, call.in.disclosed),
                   challenge |-> call.c, z |-> call.z]]}
  /\ call' = NoCall
  /\ UNCHANGED <<oracle, credential, wallet>>

(* y_r, y_s, y_e, z_r and z_m are wiped; y_m, z_s and z_e keep their value *)
(* until the next attempt writes them.                                     *)
Reject ==
  /\ call.pc = "decide"
  /\ ~ Acceptable(call.z)
  /\ call' = [call EXCEPT !.pc = "sample", !.iter = @ + 1,
                          !.y  = [NoMasks EXCEPT !.m = call.y.m],
                          !.z  = [NoResponses EXCEPT !.s = call.z.s, !.e = call.z.e]]
  /\ UNCHANGED <<oracle, credential, wallet, presented>>

(* Every attempt was rejected: an error, and nothing is presented.         *)
Exhausted ==
  /\ call.pc = "sample"
  /\ ~ AttemptLeft
  /\ call' = NoCall
  /\ UNCHANGED <<oracle, credential, wallet, presented>>

ProveStep == Commit \/ Respond \/ Accept \/ Reject \/ Exhausted

Calls ==
  [issuer : Issuer, blinded : wallet, by : Identity,
   proj : [by : Identity, ctx : Context, rho : LongEnough],
   ctx : Context, rho : Randomness, disclosed : SUBSET Attributes, rand : Randomness]

Init ==
  /\ oracle \in Oracle
  /\ credential = None
  /\ wallet = {}
  /\ call = NoCall
  /\ presented = {}

Next ==
  \/ \E issuer \in Issuer, id \in Identity, attributes \in [Attributes -> Value], rand \in Randomness :
       Issue(issuer, id, attributes, rand)
  \/ \E issuer \in Issuer, rand \in Randomness : Blind(issuer, rand)
  \/ \E in \in Calls : BeginProve(in)
  \/ ProveStep

Spec == Init /\ [][Next]_vars
-----------------------------------------------------------------------------
(***************************************************************************)
(* Properties.                                                             *)
(***************************************************************************)
TypeOK ==
  /\ oracle \in Oracle
  /\ \/ credential = None
     \/ /\ credential.by_issuer \in Issuer /\ credential.to \in Identity
        /\ credential.attributes \in [Attributes -> Value]
        /\ credential.cred \in [t_cred : [TRows -> R], r : RVec, m : Messages]
  /\ wallet \subseteq BlindedCredential
  /\ call.pc \in {"idle", "sample", "respond", "decide"}
  /\ call.iter \in 0 .. MAX_REJECTION_ITERATIONS
  /\ call.in = None \/ call.in \in Calls
  /\ call.y \in [r : RVec \cup {None}, s : Vec \cup {None}, e : Vec \cup {None}, m : Messages \cup {None}]
  /\ call.z \in [r : RVec \cup {None}, s : Vec \cup {None}, e : Vec \cup {None}, m : Messages \cup {None}]
  /\ \A p \in presented :
       /\ p.in \in Calls /\ p.iter \in 0 .. MAX_REJECTION_ITERATIONS - 1
       /\ p.pres.values \in [Attributes -> Value \cup {0}]

(* No presentation carries a response outside the bound, in any of its     *)
(* three short parts.                                                      *)
ReleasedInBound == \A p \in presented : ShortResponses(p.pres.z)

(* The witnesses a call was given satisfy both relations and share slot 0. *)
Opens(in) ==
  LET proj == ProjectionOf(in)
      s    == SecretOf(oracle, in.by)
  IN  /\ in.blinded.t_blind = Commitment(oracle, in.issuer, in.blinded.r_star, in.blinded.m)
      /\ in.blinded.m[IDENTITY_SLOT] = First(s)
      /\ proj.public_b = Add(Apply(derive_context_matrix(oracle, proj.tau, proj.salt), s),
                             derive_error_tau(oracle, in.rho, in.ctx))

Verifies(p, issuer, t_blind, proj, ctx) ==
  verify_presentation(oracle, issuer, p.pres, t_blind, proj, ctx)

(* The verifier accepts a presentation for the arguments of its call       *)
(* exactly if the witnesses of the call are right: honest calls are always *)
(* accepted, and a credential of another identity, a projection of another *)
(* identity, a context or randomness that is not the projection's, or      *)
(* another issuer's parameters never are.                                  *)
VerifiesExactly ==
  \A p \in presented :
    Verifies(p, p.in.issuer, p.in.blinded.t_blind, ProjectionOf(p.in), p.in.ctx) <=> Opens(p.in)

(* Whatever a verifier pairs a presentation with, acceptance means that it *)
(* was made for exactly that statement, context bytes included, from a     *)
(* credential whose holder has the presenter's first component, and that   *)
(* it shows the attributes that were issued.                               *)
AcceptIsAuthentic ==
  \A p \in presented, issuer \in Issuer, b \in wallet, ctx \in Context,
     pin \in [by : Identity, ctx : Context, rho : LongEnough] :
    LET proj == project_at_context(oracle, pin.by, pin.ctx, pin.rho)
    IN  Verifies(p, issuer, b.t_blind, proj, ctx) =>
          /\ issuer = p.in.issuer /\ b.t_blind = p.in.blinded.t_blind /\ ctx = p.in.ctx
          /\ proj = ProjectionOf(p.in)
          /\ First(SecretOf(oracle, p.in.by)) = First(SecretOf(oracle, credential.to))
          /\ \A i \in Attributes :
               p.pres.values[i] = IF i \in p.pres.disclosed THEN credential.attributes[i] ELSE 0

(* The comment on `statement`: reusing randomness is harmless, because two *)
(* attempts with the same masks have the same challenge.                   *)
SameMaskSameChallenge ==
  \A p1, p2 \in presented :
    MaskKey(p1.in, p1.iter) = MaskKey(p2.in, p2.iter) => p1.pres.challenge = p2.pres.challenge

(* The comment on the end of an attempt: a rejected response is wiped      *)
(* rather than left to fall out of scope.                                  *)
RejectedIsWiped == call.pc = "sample" => call.z = NoResponses
=============================================================================
