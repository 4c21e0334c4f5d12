-------------------------- MODULE CredentialProofs --------------------------
(***************************************************************************)
(* Proofs about Credential for every set of identities, issuers, contexts  *)
(* and attribute values, every number of attributes, every iteration       *)
(* limit, every ring that satisfies the named assumptions, and every       *)
(* function the hash may be.                                               *)
(***************************************************************************)
EXTENDS Credential, CredentialLemmas

USE BoundsAssumption, SizesAssumption, LimitAssumption

-----------------------------------------------------------------------------
(* The inductive invariant.  What the wallet holds was issued to one       *)
(* identity with one list of attributes; the buffers of a call and what it *)
(* returns are the values of its attempt.                                  *)

IssuedMessages ==
  [slot \in Slots |-> IF slot = IDENTITY_SLOT THEN First(SecretOf(oracle, credential.to))
                      ELSE Encode(credential.attributes[slot])]

CredentialInv ==
  credential # None =>
    /\ credential.to \in Identity /\ credential.attributes \in [Attributes -> Value]
    /\ credential.cred.m = IssuedMessages

WalletInv ==
  /\ wallet # {} => credential # None
  /\ \A b \in wallet : b.m = credential.cred.m

CallShape ==
  call = [pc |-> call.pc, in |-> call.in, iter |-> call.iter, c |-> call.c, y |-> call.y, z |-> call.z]

CallInv ==
  /\ call.pc # "idle" => call.in \in Calls
  /\ call.pc \in {"respond", "decide"} =>
       /\ call.iter < MAX_REJECTION_ITERATIONS
       /\ call.c = ChallengeAt(oracle, call.in, call.iter)
       /\ call.y = MasksAt(oracle, call.in, call.iter)
  /\ call.pc = "decide" => call.z = ResponsesAt(oracle, call.in, call.iter)

PresentedInv ==
  \A p \in presented : p.pres = PresentationAt(oracle, p.in, p.iter) /\ ShortResponses(p.pres.z)

IInv == TypeOK /\ CredentialInv /\ WalletInv /\ CallShape /\ CallInv /\ PresentedInv

LEMMA InitHolds == Init => IInv
<1> SUFFICES ASSUME Init PROVE IInv
  OBVIOUS
<1>1. TypeOK
  BY DEF Init, TypeOK, NoCall, NoMasks, NoResponses
<1> QED
  BY <1>1 DEF Init, IInv, CredentialInv, WalletInv, CallShape, CallInv, PresentedInv, NoCall

(* The module's operators are those of an attempt.                         *)
LEMMA SameCall ==
  ASSUME NEW in
  PROVE  /\ ProjectionOf(in) = ProjectionAt(oracle, in) /\ StatementOf(in) = StatementAt(oracle, in)
         /\ \A i : MaskKey(in, i) = <<in.rand, StatementAt(oracle, in), i>>
         /\ Opens(in) <=> OpensAt(oracle, in)
<1>1. ProjectionOf(in) = ProjectionAt(oracle, in)
  BY DEF ProjectionOf, ProjectionAt
<1>2. StatementOf(in) = StatementAt(oracle, in)
  BY <1>1 DEF StatementOf, StatementAt
<1>3. Opens(in) <=> OpensAt(oracle, in)
  BY <1>1 DEF Opens, OpensAt, MatrixOfCall
<1> QED
  BY <1>1, <1>2, <1>3 DEF MaskKey

(* What an attempt computes depends on its inputs and on the hash only.    *)
LEMMA Frame ==
  ASSUME oracle' = oracle, NEW in, NEW i
  PROVE  /\ MasksAt(oracle, in, i)' = MasksAt(oracle, in, i)
         /\ ChallengeAt(oracle, in, i)' = ChallengeAt(oracle, in, i)
         /\ ResponsesAt(oracle, in, i)' = ResponsesAt(oracle, in, i)
         /\ PresentationAt(oracle, in, i)' = PresentationAt(oracle, in, i)
  OBVIOUS

LEMMA CallsAreTyped == ASSUME TypeOK PROVE Calls \subseteq AnyCall(oracle)
<1> SUFFICES ASSUME TypeOK, NEW in \in Calls PROVE in \in AnyCall(oracle)
  OBVIOUS
<1>1. oracle \in Oracle /\ in.rho \in Randomness /\ in.ctx \in Context
  BY DEF TypeOK, Calls
<1>2. derive_error_tau(oracle, in.rho, in.ctx) \in Short
  BY <1>1, ErrorAssumption DEF derive_error_tau
<1>3. in \in [issuer : Issuer, blinded : BlindedCredential, by : Identity,
             proj : [by : Identity, ctx : Context, rho : LongEnough],
             ctx : Context, rho : Randomness, disclosed : SUBSET Attributes, rand : Randomness]
  BY DEF TypeOK, Calls
<1> QED
  BY <1>2, <1>3 DEF AnyCall

(* The facts about a call in progress that every step of it needs.         *)
LEMMA InProgress ==
  ASSUME IInv, call.pc # "idle"
  PROVE  /\ oracle \in Oracle /\ call.in \in Calls /\ call.in \in AnyCall(oracle)
         /\ MasksAt(oracle, call.in, call.iter) \in MaskSet
         /\ ResponsesAt(oracle, call.in, call.iter) \in MaskSet
<1>1. oracle \in Oracle /\ call.in \in Calls /\ call.in \in AnyCall(oracle)
  BY CallsAreTyped DEF IInv, TypeOK, CallInv
<1> QED
  BY <1>1, AttemptTyped

(* A step of the call in progress, which changes nothing else.             *)
BufferSet ==
  [r : RVec \cup {None}, s : Vec \cup {None}, e : Vec \cup {None}, m : Messages \cup {None}]

LEMMA CallStep ==
  ASSUME IInv, UNCHANGED <<oracle, credential, wallet, presented>>,
         NEW pc \in {"idle", "sample", "respond", "decide"}, NEW in, NEW iter \in 0 .. MAX_REJECTION_ITERATIONS,
         NEW c, NEW y \in BufferSet, NEW z \in BufferSet,
         call' = [pc |-> pc, in |-> in, iter |-> iter, c |-> c, y |-> y, z |-> z],
         in = None \/ in \in Calls,
         pc # "idle" => in \in Calls,
         pc \in {"respond", "decide"} =>
           iter < MAX_REJECTION_ITERATIONS /\ c = ChallengeAt(oracle, in, iter) /\ y = MasksAt(oracle, in, iter),
         pc = "decide" => z = ResponsesAt(oracle, in, iter)
  PROVE  IInv'
<1>1. /\ call'.pc = pc /\ call'.in = in /\ call'.iter = iter /\ call'.c = c
      /\ call'.y = y /\ call'.z = z
  OBVIOUS
<1>2. Calls' = Calls
  BY DEF Calls
<1>3. TypeOK'
  BY <1>1, <1>2 DEF IInv, TypeOK, BufferSet
<1>4. CallShape'
  BY <1>1 DEF CallShape
<1>5. CallInv'
  BY <1>1, <1>2, Frame DEF CallInv
<1>6. CredentialInv' /\ WalletInv'
  BY DEF IInv, CredentialInv, WalletInv, IssuedMessages
<1>7. PresentedInv'
  BY Frame DEF IInv, PresentedInv
<1> QED
  BY <1>3, <1>4, <1>5, <1>6, <1>7 DEF IInv

LEMMA IssueKeeps ==
  ASSUME IInv, NEW issuer \in Issuer, NEW id \in Identity,
         NEW attributes \in [Attributes -> Value], NEW rand \in Randomness,
         Issue(issuer, id, attributes, rand)
  PROVE  IInv'
<1> DEFINE cred == issue(oracle, issuer, id, attributes, rand)
<1>1. /\ rand \in LongEnough /\ wallet = {} /\ oracle \in Oracle
      /\ UNCHANGED <<oracle, wallet, call, presented>>
      /\ credential' = [by_issuer |-> issuer, to |-> id, attributes |-> attributes, cred |-> cred]
  BY DEF Issue, IInv, WalletInv, TypeOK
<1>2. /\ cred \in [t_cred : [TRows -> R], r : RVec, m : Messages]
      /\ cred.m = [slot \in Slots |-> IF slot = IDENTITY_SLOT THEN First(SecretOf(oracle, id))
                                      ELSE Encode(attributes[slot])]
  BY <1>1, IssueTyped
<1> HIDE DEF cred
<1>3. credential'.by_issuer = issuer /\ credential'.to = id
      /\ credential'.attributes = attributes /\ credential'.cred = cred
  BY <1>1
<1>4. Calls' = Calls
  BY <1>1 DEF Calls
<1>5. TypeOK'
  BY <1>1, <1>2, <1>3, <1>4 DEF IInv, TypeOK
<1>6. CredentialInv'
  BY <1>1, <1>2, <1>3 DEF CredentialInv, IssuedMessages
<1>7. WalletInv' /\ CallShape'
  BY <1>1 DEF IInv, WalletInv, CallShape
<1>8. CallInv' /\ PresentedInv'
  BY <1>1, <1>4, Frame DEF IInv, CallInv, PresentedInv
<1> QED
  BY <1>5, <1>6, <1>7, <1>8 DEF IInv

LEMMA BlindKeeps ==
  ASSUME IInv, NEW issuer \in Issuer, NEW rand \in Randomness, Blind(issuer, rand)
  PROVE  IInv'
<1> DEFINE b == blind(oracle, issuer, credential.cred, rand)
<1>1. /\ credential # None /\ rand \in LongEnough /\ oracle \in Oracle /\ call.pc = "idle"
      /\ UNCHANGED <<oracle, credential, call, presented>>
      /\ wallet' = wallet \cup {b}
      /\ credential.cred \in [t_cred : [TRows -> R], r : RVec, m : Messages]
  BY DEF Blind, IInv, TypeOK
<1>2. b \in BlindedCredential /\ b.m = credential.cred.m
  BY <1>1, BlindTyped DEF blind
<1> HIDE DEF b
<1>3. Calls \subseteq Calls'
  BY <1>1 DEF Calls
<1>4. TypeOK'
  BY <1>1, <1>2, <1>3 DEF IInv, TypeOK
<1>5. CredentialInv' /\ WalletInv' /\ CallShape'
  BY <1>1, <1>2 DEF IInv, CredentialInv, WalletInv, CallShape, IssuedMessages
<1>6. CallInv' /\ PresentedInv'
  BY <1>1, Frame DEF IInv, CallInv, PresentedInv
<1> QED
  BY <1>4, <1>5, <1>6 DEF IInv

LEMMA BeginProveKeeps == ASSUME IInv, NEW in \in Calls, BeginProve(in) PROVE IInv'
<1>1. /\ UNCHANGED <<oracle, credential, wallet, presented>>
      /\ call' = [pc |-> "sample", in |-> in, iter |-> 0, c |-> None, y |-> NoMasks, z |-> NoResponses]
  BY DEF BeginProve, NoCall
<1>2. NoMasks \in BufferSet /\ NoResponses \in BufferSet
  BY DEF NoMasks, NoResponses, BufferSet
<1> QED
  BY <1>1, <1>2, CallStep

LEMMA CommitKeeps == ASSUME IInv, Commit PROVE IInv'
<1>1. /\ UNCHANGED <<oracle, credential, wallet, presented>>
      /\ call.pc = "sample" /\ call.iter < MAX_REJECTION_ITERATIONS
  BY DEF Commit, AttemptLeft
<1>2. call.iter \in 0 .. MAX_REJECTION_ITERATIONS /\ call.z \in BufferSet
  BY DEF IInv, TypeOK, BufferSet
<1>3. MasksAt(oracle, call.in, call.iter) \in BufferSet
  BY <1>1, InProgress DEF MaskSet, BufferSet
<1>4. call' = [call EXCEPT !.pc = "respond", !.y = MasksAt(oracle, call.in, call.iter),
                           !.c = ChallengeAt(oracle, call.in, call.iter)]
  BY SameCall DEF Commit, MasksAt, ChallengeAt, MatrixOfCall
<1>5. call' = [pc |-> "respond", in |-> call.in, iter |-> call.iter,
               c |-> ChallengeAt(oracle, call.in, call.iter), y |-> MasksAt(oracle, call.in, call.iter), z |-> call.z]
  BY <1>4 DEF IInv, CallShape
<1>6. call.in \in Calls
  BY <1>1, InProgress
<1> QED
  BY <1>1, <1>2, <1>3, <1>5, <1>6, CallStep

LEMMA RespondKeeps == ASSUME IInv, Respond PROVE IInv'
<1>1. /\ UNCHANGED <<oracle, credential, wallet, presented>>
      /\ call.pc = "respond"
  BY DEF Respond
<1>2. /\ call.iter \in 0 .. MAX_REJECTION_ITERATIONS /\ call.iter < MAX_REJECTION_ITERATIONS
      /\ call.y = MasksAt(oracle, call.in, call.iter) /\ call.c = ChallengeAt(oracle, call.in, call.iter)
      /\ call.y \in BufferSet
  BY <1>1 DEF IInv, TypeOK, CallInv, BufferSet
<1>3. ResponsesAt(oracle, call.in, call.iter) \in BufferSet
  BY <1>1, InProgress DEF MaskSet, BufferSet
<1>4. call' = [call EXCEPT !.pc = "decide", !.z = ResponsesAt(oracle, call.in, call.iter)]
  BY <1>2 DEF Respond, ResponsesAt
<1>5. call' = [pc |-> "decide", in |-> call.in, iter |-> call.iter, c |-> call.c, y |-> call.y,
               z |-> ResponsesAt(oracle, call.in, call.iter)]
  BY <1>4 DEF IInv, CallShape
<1>6. call.in \in Calls
  BY <1>1, InProgress
<1> QED
  BY <1>1, <1>2, <1>3, <1>5, <1>6, CallStep

LEMMA RejectKeeps == ASSUME IInv, Reject PROVE IInv'
<1> DEFINE y == [NoMasks EXCEPT !.m = call.y.m]
           z == [NoResponses EXCEPT !.s = call.z.s, !.e = call.z.e]
<1>1. /\ UNCHANGED <<oracle, credential, wallet, presented>>
      /\ call.pc = "decide"
      /\ call' = [call EXCEPT !.pc = "sample", !.iter = @ + 1, !.y = y, !.z = z]
  BY DEF Reject
<1>2. /\ call.iter \in 0 .. MAX_REJECTION_ITERATIONS /\ call.iter < MAX_REJECTION_ITERATIONS
      /\ call.y \in BufferSet /\ call.z \in BufferSet
  BY <1>1 DEF IInv, TypeOK, CallInv, BufferSet
<1>3. call.iter + 1 \in 0 .. MAX_REJECTION_ITERATIONS
  BY <1>2
<1>4. y \in BufferSet /\ z \in BufferSet
  BY <1>2 DEF BufferSet, NoMasks, NoResponses
<1>5. call.in \in Calls
  BY <1>1, InProgress
<1> HIDE DEF y, z
<1>6. PICK n \in 0 .. MAX_REJECTION_ITERATIONS : n = call.iter + 1
  BY <1>3
<1>7. call' = [pc |-> "sample", in |-> call.in, iter |-> n, c |-> call.c, y |-> y, z |-> z]
  BY <1>1, <1>6 DEF IInv, CallShape
<1>8. UNCHANGED <<oracle, credential, wallet, presented>>
  BY <1>1
<1> QED
  BY <1>4, <1>5, <1>7, <1>8, CallStep

LEMMA NoCallTyped == NoMasks \in BufferSet /\ NoResponses \in BufferSet
  BY DEF NoMasks, NoResponses, BufferSet

LEMMA ExhaustedKeeps == ASSUME IInv, Exhausted PROVE IInv'
<1>1. /\ UNCHANGED <<oracle, credential, wallet, presented>>
      /\ call' = [pc |-> "idle", in |-> None, iter |-> 0, c |-> None, y |-> NoMasks, z |-> NoResponses]
  BY DEF Exhausted, NoCall
<1> QED
  BY <1>1, NoCallTyped, CallStep

LEMMA AcceptKeeps == ASSUME IInv, Accept PROVE IInv'
<1>1. /\ call.pc = "decide" /\ ShortResponses(call.z) /\ call' = NoCall
      /\ UNCHANGED <<oracle, credential, wallet>>
  BY DEF Accept, Acceptable
<1>2. /\ call.iter \in 0 .. MAX_REJECTION_ITERATIONS - 1
      /\ call.c = ChallengeAt(oracle, call.in, call.iter) /\ call.z = ResponsesAt(oracle, call.in, call.iter)
  BY <1>1 DEF IInv, TypeOK, CallInv
<1>3. call.in \in Calls /\ call.in \in AnyCall(oracle)
  BY <1>1, InProgress
<1> DEFINE new == [in |-> call.in, iter |-> call.iter, pres |-> PresentationAt(oracle, call.in, call.iter)]
<1>4. presented' = presented \cup {new}
  BY <1>2 DEF Accept, PresentationAt
<1>5. new.in = call.in /\ new.iter = call.iter /\ new.pres = PresentationAt(oracle, call.in, call.iter)
  OBVIOUS
<1>6. new.pres.z = call.z /\ new.pres.values = DisclosedValues(call.in.blinded.m, call.in.disclosed)
  BY <1>2 DEF PresentationAt
<1>7. new.pres.values \in [Attributes -> Value \cup {0}]
  <2>1. call.in.blinded \in wallet /\ call.in.disclosed \in SUBSET Attributes
    BY <1>3 DEF Calls
  <2>2. call.in.blinded.m = IssuedMessages /\ credential.attributes \in [Attributes -> Value]
    BY <2>1 DEF IInv, WalletInv, CredentialInv
  <2>3. ASSUME NEW i \in Attributes, i \in call.in.disclosed
        PROVE  Decode(Public(call.in.blinded.m, call.in.disclosed)[i]) \in Value
    <3>1. i \in Slots /\ i # IDENTITY_SLOT
      BY DEF Attributes, Slots, IDENTITY_SLOT
    <3>2. Public(call.in.blinded.m, call.in.disclosed)[i] = Encode(credential.attributes[i])
      BY <2>2, <2>3, <3>1 DEF Public, IssuedMessages
    <3> QED
      BY <2>2, <3>2, IssuingAssumption
  <2> QED
    BY <1>6, <2>3 DEF DisclosedValues
<1> HIDE DEF new
<1>8. Calls' = Calls
  BY <1>1 DEF Calls
<1>9. TypeOK'
  BY <1>1, <1>2, <1>3, <1>4, <1>5, <1>7, <1>8, NoCallTyped DEF IInv, TypeOK, NoCall, BufferSet
<1>10. CredentialInv' /\ WalletInv' /\ CallShape' /\ CallInv'
  BY <1>1 DEF IInv, CredentialInv, WalletInv, IssuedMessages, CallShape, CallInv, NoCall
<1>11. PresentedInv'
  BY <1>1, <1>4, <1>5, <1>6, Frame DEF IInv, PresentedInv
<1> QED
  BY <1>9, <1>10, <1>11 DEF IInv

(* The invariant holds in every reachable state.                           *)
THEOREM Inductive == Spec => []IInv
<1>1. Init => IInv
  BY InitHolds
<1>2. IInv /\ [Next]_vars => IInv'
  <2> SUFFICES ASSUME IInv, [Next]_vars PROVE IInv'
    OBVIOUS
  <2>1. CASE UNCHANGED vars
    <3>1. Calls' = Calls /\ oracle' = oracle
      BY <2>1 DEF vars, Calls
    <3>2. TypeOK' /\ CredentialInv' /\ WalletInv' /\ CallShape'
      BY <2>1, <3>1 DEF vars, IInv, TypeOK, CredentialInv, WalletInv, CallShape, IssuedMessages
    <3>3. CallInv' /\ PresentedInv'
      BY <2>1, <3>1, Frame DEF vars, IInv, CallInv, PresentedInv
    <3> QED
      BY <3>2, <3>3 DEF IInv
  <2> QED
    BY <2>1, IssueKeeps, BlindKeeps, BeginProveKeeps, CommitKeeps, RespondKeeps, RejectKeeps,
       ExhaustedKeeps, AcceptKeeps DEF Next, ProveStep
<1> QED
  BY <1>1, <1>2, PTL DEF Spec

-----------------------------------------------------------------------------
(* Theorems.                                                               *)

(* Every reachable state has its type: no attempt is counted past the      *)
(* limit, and what is presented shows attribute values (credential::prove).*)
THEOREM Typing == Spec => []TypeOK
<1>1. IInv => TypeOK
  BY DEF IInv
<1> QED
  BY <1>1, Inductive, PTL

(* No presentation carries a response outside the bound: rejection         *)
(* sampling withholds it on every path out of the loop of prove.           *)
THEOREM BoundRespected == Spec => []ReleasedInBound
<1>1. IInv => ReleasedInBound
  BY DEF IInv, PresentedInv, ReleasedInBound
<1> QED
  BY <1>1, Inductive, PTL

(* What is known of a presentation.                                        *)
LEMMA PresentedFacts ==
  ASSUME IInv, NEW p \in presented
  PROVE  /\ oracle \in Oracle /\ p.in \in Calls /\ p.in \in AnyCall(oracle)
         /\ p.pres = PresentationAt(oracle, p.in, p.iter) /\ ShortResponses(ResponsesAt(oracle, p.in, p.iter))
         /\ p.pres.challenge = ChallengeAt(oracle, p.in, p.iter) /\ p.pres.z = ResponsesAt(oracle, p.in, p.iter)
         /\ p.pres.disclosed = p.in.disclosed
         /\ p.pres.values = DisclosedValues(p.in.blinded.m, p.in.disclosed)
         /\ p.in.blinded.m = IssuedMessages
         /\ credential.to \in Identity /\ credential.attributes \in [Attributes -> Value]
         /\ HoldsValues(p.in.blinded.m)
<1>1. oracle \in Oracle /\ p.in \in Calls /\ p.in \in AnyCall(oracle)
  BY CallsAreTyped DEF IInv, TypeOK
<1>2. /\ p.pres = PresentationAt(oracle, p.in, p.iter) /\ ShortResponses(ResponsesAt(oracle, p.in, p.iter))
      /\ p.pres.challenge = ChallengeAt(oracle, p.in, p.iter) /\ p.pres.z = ResponsesAt(oracle, p.in, p.iter)
      /\ p.pres.disclosed = p.in.disclosed
      /\ p.pres.values = DisclosedValues(p.in.blinded.m, p.in.disclosed)
  <2>1. p.pres = PresentationAt(oracle, p.in, p.iter) /\ ShortResponses(p.pres.z)
    BY DEF IInv, PresentedInv
  <2>2. /\ PresentationAt(oracle, p.in, p.iter).challenge = ChallengeAt(oracle, p.in, p.iter)
        /\ PresentationAt(oracle, p.in, p.iter).z = ResponsesAt(oracle, p.in, p.iter)
        /\ PresentationAt(oracle, p.in, p.iter).disclosed = p.in.disclosed
        /\ PresentationAt(oracle, p.in, p.iter).values = DisclosedValues(p.in.blinded.m, p.in.disclosed)
    BY DEF PresentationAt
  <2> QED
    BY <2>1, <2>2
<1>3. p.in.blinded \in wallet
  BY <1>1 DEF Calls
<1>4. /\ p.in.blinded.m = IssuedMessages
      /\ credential.to \in Identity /\ credential.attributes \in [Attributes -> Value]
  BY <1>3 DEF IInv, WalletInv, CredentialInv
<1>5. ASSUME NEW slot \in Attributes PROVE IssuedMessages[slot] = Encode(credential.attributes[slot])
  <2>1. slot \in Slots /\ slot # IDENTITY_SLOT
    BY DEF Attributes, Slots, IDENTITY_SLOT
  <2> QED
    BY <2>1 DEF IssuedMessages
<1> QED
  BY <1>1, <1>2, <1>4, <1>5 DEF HoldsValues

(* Completeness: a presentation of a call with the right witnesses is      *)
(* always accepted for the arguments of the call (credential::verify).     *)
THEOREM Completeness ==
  Spec => [](\A p \in presented :
               Opens(p.in) => Verifies(p, p.in.issuer, p.in.blinded.t_blind, ProjectionOf(p.in), p.in.ctx))
<1>1. ASSUME IInv, NEW p \in presented, Opens(p.in)
      PROVE  Verifies(p, p.in.issuer, p.in.blinded.t_blind, ProjectionOf(p.in), p.in.ctx)
  BY <1>1, PresentedFacts, SameCall, HonestCallVerifies DEF Verifies
<1>2. IInv => \A p \in presented :
        Opens(p.in) => Verifies(p, p.in.issuer, p.in.blinded.t_blind, ProjectionOf(p.in), p.in.ctx)
  BY <1>1
<1> QED
  BY <1>2, Inductive, PTL

(* Exactness: as long as the challenges presented are units of the ring,   *)
(* the verifier accepts a presentation for the arguments of its call       *)
(* exactly if the witnesses of the call are right.  A challenge that is no *)
(* unit (a fraction of about N / q of them) could hide a difference.       *)
THEOREM Exactness ==
  Spec => []((\A p \in presented : Cancels(p.pres.challenge.poly)) => VerifiesExactly)
<1>1. ASSUME IInv, NEW p \in presented, Cancels(p.pres.challenge.poly)
      PROVE  Verifies(p, p.in.issuer, p.in.blinded.t_blind, ProjectionOf(p.in), p.in.ctx) <=> Opens(p.in)
  <2>1. p.pres.challenge = ChallengeAt(oracle, p.in, p.iter)
    BY <1>1, PresentedFacts
  <2> QED
    BY <1>1, <2>1, PresentedFacts, SameCall, HonestCallVerifies, VerifiedCallOpens DEF Verifies
<1>2. IInv => ((\A p \in presented : Cancels(p.pres.challenge.poly)) => VerifiesExactly)
  BY <1>1 DEF VerifiesExactly
<1> QED
  BY <1>2, Inductive, PTL

(* What a verifier's statement names is what the presentation was made for. *)
LEMMA AcceptedStatement ==
  ASSUME IInv, NEW p \in presented, NEW issuer, NEW t_blind, NEW proj, NEW ctx,
         Verifies(p, issuer, t_blind, proj, ctx)
  PROVE  /\ issuer = p.in.issuer /\ t_blind = p.in.blinded.t_blind /\ ctx = p.in.ctx
         /\ proj.salt = ProjectionOf(p.in).salt /\ proj.public_b = ProjectionOf(p.in).public_b
         /\ Linked(ResponsesAt(oracle, p.in, p.iter))
<1>1. verify_presentation(oracle, issuer, p.pres, t_blind, proj, ctx)
  BY DEF Verifies
<1>2. p.pres.challenge = ChallengeAt(oracle, p.in, p.iter) /\ p.pres.z = ResponsesAt(oracle, p.in, p.iter)
  BY PresentedFacts
<1> QED
  BY <1>1, <1>2, AcceptedNames, SameCall

(* Binding: whatever issuer, commitment, projection and context a verifier *)
(* pairs a presentation with, acceptance means that it was made for        *)
(* exactly these, by a holder whose secret has the first component the     *)
(* credential was issued to, and that it shows the issued attributes.      *)
THEOREM Authenticity == Spec => []AcceptIsAuthentic
<1>1. ASSUME IInv, NEW p \in presented, NEW issuer \in Issuer, NEW b \in wallet, NEW ctx \in Context,
             NEW pin \in [by : Identity, ctx : Context, rho : LongEnough],
             Verifies(p, issuer, b.t_blind, project_at_context(oracle, pin.by, pin.ctx, pin.rho), ctx)
      PROVE  /\ issuer = p.in.issuer /\ b.t_blind = p.in.blinded.t_blind /\ ctx = p.in.ctx
             /\ project_at_context(oracle, pin.by, pin.ctx, pin.rho) = ProjectionOf(p.in)
             /\ First(SecretOf(oracle, p.in.by)) = First(SecretOf(oracle, credential.to))
             /\ \A i \in Attributes :
                  p.pres.values[i] = IF i \in p.pres.disclosed THEN credential.attributes[i] ELSE 0
  <2> DEFINE proj == project_at_context(oracle, pin.by, pin.ctx, pin.rho)
  <2>1. /\ issuer = p.in.issuer /\ b.t_blind = p.in.blinded.t_blind /\ ctx = p.in.ctx
        /\ proj.salt = ProjectionOf(p.in).salt /\ proj.public_b = ProjectionOf(p.in).public_b
        /\ Linked(ResponsesAt(oracle, p.in, p.iter))
    BY <1>1, AcceptedStatement
  <2>2. proj = ProjectionOf(p.in)
    <3> HIDE DEF proj
    <3> QED
      BY <2>1, SameCall, SaltNamesTag DEF proj
  <2>3. First(SecretOf(oracle, p.in.by)) = First(SecretOf(oracle, credential.to))
    <3>1. IDENTITY_SLOT \in Slots
      BY DEF IDENTITY_SLOT, Slots
    <3>2. p.in.blinded.m[IDENTITY_SLOT] = First(SecretOf(oracle, credential.to))
      BY <1>1, <3>1, PresentedFacts DEF IssuedMessages
    <3>3. oracle \in Oracle /\ p.in \in AnyCall(oracle) /\ credential.to \in Identity
      BY <1>1, PresentedFacts
    <3> QED
      BY <2>1, <3>2, <3>3, LinkedHolder
  <2>4. ASSUME NEW i \in Attributes
        PROVE  p.pres.values[i] = IF i \in p.pres.disclosed THEN credential.attributes[i] ELSE 0
    <3>1. i \in Slots /\ i # IDENTITY_SLOT
      BY DEF Attributes, Slots, IDENTITY_SLOT
    <3>2. p.in.blinded.m[i] = Encode(credential.attributes[i]) /\ credential.attributes[i] \in Value
      BY <1>1, <3>1, PresentedFacts DEF IssuedMessages
    <3>3. p.pres.disclosed = p.in.disclosed
          /\ p.pres.values = DisclosedValues(p.in.blinded.m, p.in.disclosed)
      BY <1>1, PresentedFacts
    <3>4. i \in p.in.disclosed => Public(p.in.blinded.m, p.in.disclosed)[i] = Encode(credential.attributes[i])
      BY <3>1, <3>2 DEF Public
    <3> QED
      BY <3>2, <3>3, <3>4, IssuingAssumption DEF DisclosedValues
  <2> QED
    BY <2>1, <2>2, <2>3, <2>4
<1>2. IInv => AcceptIsAuthentic
  BY <1>1 DEF AcceptIsAuthentic
<1> QED
  BY <1>2, Inductive, PTL

(* Two attempts with the same masks have the same challenge, so reusing    *)
(* the caller's randomness gives away no secret (the comment on            *)
(* `statement` in credential::prove).                                      *)
THEOREM MaskFixesChallenge == Spec => []SameMaskSameChallenge
<1>1. ASSUME IInv, NEW p1 \in presented, NEW p2 \in presented,
             MaskKey(p1.in, p1.iter) = MaskKey(p2.in, p2.iter)
      PROVE  p1.pres.challenge = p2.pres.challenge
  <2>1. p1.pres.challenge = ChallengeAt(oracle, p1.in, p1.iter) /\ p2.pres.challenge = ChallengeAt(oracle, p2.in, p2.iter)
    BY <1>1, PresentedFacts
  <2>2. p1.in.rand = p2.in.rand /\ StatementAt(oracle, p1.in) = StatementAt(oracle, p2.in)
        /\ p1.iter = p2.iter
    BY <1>1, SameCall
  <2>3. ChallengeAt(oracle, p1.in, p1.iter) = ChallengeAt(oracle, p2.in, p2.iter)
    BY <2>2, StatementFixesChallenge
  <2> QED
    BY <2>1, <2>3
<1>2. IInv => SameMaskSameChallenge
  BY <1>1 DEF SameMaskSameChallenge
<1> QED
  BY <1>2, Inductive, PTL
=============================================================================
