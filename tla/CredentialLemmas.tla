--------------------------- MODULE CredentialLemmas ---------------------------
(***************************************************************************)
(* The algebra of CredentialCore: what issuing, blinding and an attempt of *)
(* a prover return, and what a verifier accepts of it.  For the proofs     *)
(* about Credential and Component.                                         *)
(***************************************************************************)
EXTENDS CredentialCore, PlpCoreLemmas

USE BoundsAssumption, SizesAssumption

-----------------------------------------------------------------------------
(* Arithmetic.                                                             *)

LEMMA SampledInRange == ASSUME NEW S, NEW x, S # {} PROVE Sampled(S, x) \in S
  BY DEF Sampled

LEMMA RClosed ==
  /\ RZero \in R
  /\ \A a, b \in R : RAdd(a, b) \in R /\ RSub(a, b) \in R
  /\ \A c \in ChalPoly : \A a \in R : RMul(c, a) \in R
  BY RingAssumption

(* Sums of four, regrouped.                                                *)
LEMMA RRegroup ==
  ASSUME NEW a \in R, NEW b \in R, NEW x \in R, NEW y \in R
  PROVE  RAdd(RAdd(a, x), RAdd(b, y)) = RAdd(RAdd(a, b), RAdd(x, y))
<1>1. RAdd(RAdd(a, x), RAdd(b, y)) = RAdd(a, RAdd(x, RAdd(b, y)))
  BY RClosed, RingAssumption
<1>2. RAdd(x, RAdd(b, y)) = RAdd(RAdd(x, b), y)
  BY RClosed, RingAssumption
<1>3. RAdd(x, b) = RAdd(b, x)
  BY RingAssumption
<1>4. RAdd(RAdd(b, x), y) = RAdd(b, RAdd(x, y))
  BY RClosed, RingAssumption
<1>5. RAdd(a, RAdd(b, RAdd(x, y))) = RAdd(RAdd(a, b), RAdd(x, y))
  BY RClosed, RingAssumption
<1> QED
  BY <1>1, <1>2, <1>3, <1>4, <1>5

(* Subtracting d from u + v leaves u exactly if d is v.                    *)
LEMMA RSubtracts ==
  ASSUME NEW u \in R, NEW v \in R, NEW d \in R
  PROVE  RSub(RAdd(u, v), d) = u <=> v = d
<1>1. ASSUME RSub(RAdd(u, v), d) = u PROVE v = d
  <2>1. RAdd(u, v) = RAdd(u, d)
    BY <1>1, RClosed, RingAssumption
  <2>2. RAdd(v, u) = RAdd(d, u)
    BY <2>1, RingAssumption
  <2>3. RSub(RAdd(v, u), u) = v /\ RSub(RAdd(d, u), u) = d
    BY RingAssumption
  <2> QED
    BY <2>2, <2>3
<1>2. ASSUME v = d PROVE RSub(RAdd(u, v), d) = u
  BY <1>2, RingAssumption
<1> QED
  BY <1>1, <1>2

LEMMA VecRegroup ==
  ASSUME NEW a \in Vec, NEW b \in Vec, NEW x \in Vec, NEW y \in Vec
  PROVE  Add(Add(a, x), Add(b, y)) = Add(Add(a, b), Add(x, y))
<1>1. Add(Add(a, x), Add(b, y)) = Add(a, Add(x, Add(b, y)))
  BY ClosureAssumption, VectorAssumption
<1>2. Add(x, Add(b, y)) = Add(Add(x, b), y)
  BY ClosureAssumption, VectorAssumption
<1>3. Add(x, b) = Add(b, x)
  BY VectorAssumption
<1>4. Add(Add(b, x), y) = Add(b, Add(x, y))
  BY ClosureAssumption, VectorAssumption
<1>5. Add(a, Add(b, Add(x, y))) = Add(Add(a, b), Add(x, y))
  BY ClosureAssumption, VectorAssumption
<1> QED
  BY <1>1, <1>2, <1>3, <1>4, <1>5

LEMMA VecSubtracts ==
  ASSUME NEW u \in Vec, NEW v \in Vec, NEW d \in Vec
  PROVE  Sub(Add(u, v), d) = u <=> v = d
<1>1. ASSUME Sub(Add(u, v), d) = u PROVE v = d
  <2>1. Add(u, v) = Add(u, d)
    BY <1>1, ClosureAssumption, VectorAssumption
  <2>2. Add(v, u) = Add(d, u)
    BY <2>1, VectorAssumption
  <2>3. Sub(Add(v, u), u) = v /\ Sub(Add(d, u), u) = d
    BY VectorAssumption
  <2> QED
    BY <2>2, <2>3
<1>2. ASSUME v = d PROVE Sub(Add(u, v), d) = u
  BY <1>2, VectorAssumption
<1> QED
  BY <1>1, <1>2

(* A challenge that can be cancelled: one that is a unit of the ring.      *)
Cancels(c) ==
  /\ \A a, b \in R : RMul(c, a) = RMul(c, b) => a = b
  /\ \A u, v \in Vec : Scale(c, u) = Scale(c, v) => u = v

(* A row of the commitment relation: a, b are the products with the mask   *)
(* and with the randomness, y the mask, h and p the hidden and the public  *)
(* half of the message, and t the row of the blinded commitment.           *)
LEMMA RowExact ==
  ASSUME NEW c \in ChalPoly, NEW a \in R, NEW b \in R, NEW y \in R, NEW h \in R, NEW p \in R, NEW t \in R
  PROVE  /\ t = RAdd(b, RAdd(h, p)) =>
              RSub(RAdd(RAdd(a, RMul(c, b)), RAdd(y, RMul(c, h))), RMul(c, RSub(t, p))) = RAdd(a, y)
         /\ Cancels(c)
            /\ RSub(RAdd(RAdd(a, RMul(c, b)), RAdd(y, RMul(c, h))), RMul(c, RSub(t, p))) = RAdd(a, y) =>
              t = RAdd(b, RAdd(h, p))
<1>1. RMul(c, b) \in R /\ RMul(c, h) \in R /\ RSub(t, p) \in R /\ RMul(c, RSub(t, p)) \in R
      /\ RAdd(b, h) \in R /\ RAdd(a, y) \in R /\ RMul(c, RAdd(b, h)) \in R
  BY RClosed
<1>2. RAdd(RAdd(a, RMul(c, b)), RAdd(y, RMul(c, h))) = RAdd(RAdd(a, y), RMul(c, RAdd(b, h)))
  <2>1. RMul(c, RAdd(b, h)) = RAdd(RMul(c, b), RMul(c, h))
    BY RingAssumption
  <2> QED
    BY <1>1, <2>1, RRegroup
<1>3. RSub(RAdd(RAdd(a, y), RMul(c, RAdd(b, h))), RMul(c, RSub(t, p))) = RAdd(a, y)
        <=> RMul(c, RAdd(b, h)) = RMul(c, RSub(t, p))
  BY <1>1, RSubtracts
<1>4. RAdd(b, h) = RSub(t, p) <=> t = RAdd(b, RAdd(h, p))
  <2>1. RAdd(b, RAdd(h, p)) = RAdd(RAdd(b, h), p)
    BY RingAssumption
  <2>2. RSub(RAdd(RAdd(b, h), p), p) = RAdd(b, h) /\ RAdd(RSub(t, p), p) = t
    BY <1>1, RingAssumption
  <2> QED
    BY <2>1, <2>2
<1> QED
  BY <1>1, <1>2, <1>3, <1>4 DEF Cancels

(* The projection relation, in the same way: as, ay are the products of    *)
(* the matrix with secret and mask, and b the projection.                  *)
LEMMA ProjectionExact ==
  ASSUME NEW c \in ChalPoly, NEW A \in Mat, NEW s \in Vec, NEW e \in Vec,
         NEW y_s \in Vec, NEW y_e \in Vec, NEW b \in Vec
  PROVE  /\ b = Add(Apply(A, s), e) =>
              Sub(Add(Apply(A, Add(y_s, Scale(c, s))), Add(y_e, Scale(c, e))), Scale(c, b))
                = Add(Apply(A, y_s), y_e)
         /\ Cancels(c)
            /\ Sub(Add(Apply(A, Add(y_s, Scale(c, s))), Add(y_e, Scale(c, e))), Scale(c, b))
                 = Add(Apply(A, y_s), y_e) =>
              b = Add(Apply(A, s), e)
<1> DEFINE ay == Apply(A, y_s)
           cs == Scale(c, Apply(A, s))
           ce == Scale(c, e)
<1>1. Apply(A, s) \in Vec /\ Scale(c, s) \in Vec /\ Add(Apply(A, s), e) \in Vec
  BY ClosureAssumption
<1>2. ay \in Vec /\ cs \in Vec /\ ce \in Vec /\ Scale(c, b) \in Vec /\ Add(ay, y_e) \in Vec
      /\ Add(cs, ce) \in Vec
  BY <1>1, ClosureAssumption
<1>3. Apply(A, Add(y_s, Scale(c, s))) = Add(ay, cs)
  <2>1. Apply(A, Scale(c, s)) = cs
    BY ModuleAssumption
  <2> QED
    BY <1>1, <2>1, ModuleAssumption
<1>4. Scale(c, Add(Apply(A, s), e)) = Add(cs, ce)
  BY <1>1, ModuleAssumption
<1> HIDE DEF ay, cs, ce
<1>5. Add(Add(ay, cs), Add(y_e, ce)) = Add(Add(ay, y_e), Add(cs, ce))
  BY <1>2, VecRegroup
<1>6. Sub(Add(Add(ay, y_e), Add(cs, ce)), Scale(c, b)) = Add(ay, y_e) <=> Add(cs, ce) = Scale(c, b)
  BY <1>2, VecSubtracts
<1> QED
  BY <1>1, <1>3, <1>4, <1>5, <1>6 DEF Cancels, ay, ce

LEMMA TimesZero == ASSUME NEW c \in ChalPoly PROVE RMul(c, RZero) = RZero
<1> DEFINE x == RMul(c, RZero)
<1>1. x \in R /\ RZero \in R
  BY RClosed
<1>2. RAdd(RZero, RZero) = RZero
  BY RingAssumption
<1>3. RAdd(x, x) = x
  BY <1>1, <1>2, RingAssumption
<1>4. RAdd(RZero, x) = x
  BY <1>1, RingAssumption
<1> HIDE DEF x
<1> QED
  BY <1>1, <1>3, <1>4, RingAssumption DEF x

-----------------------------------------------------------------------------
(* Commitments.                                                            *)

(* Sums and multiples of vectors and of messages stay what they are.       *)
LEMMA RVecClosed ==
  /\ \A u, v \in RVec : RVecAdd(u, v) \in RVec
  /\ \A c \in ChalPoly : \A v \in RVec : RVecScale(c, v) \in RVec
  /\ \A u, v \in Messages : RVecAdd(u, v) \in Messages
  /\ \A c \in ChalPoly : \A v \in Messages : RVecScale(c, v) \in Messages
  BY RClosed DEF RVec, Messages, RVecAdd, RVecScale

LEMMA LiftTyped ==
  ASSUME NEW m \in Messages, NEW row \in TRows
  PROVE  /\ Lift(m)[row] \in R
         /\ row >= CRED_L => row - CRED_L \in Slots /\ Lift(m)[row] = m[row - CRED_L]
<1>1. row >= CRED_L => row - CRED_L \in Slots
  BY DEF TRows, Slots
<1>2. Lift(m)[row] = IF row < CRED_L THEN RZero ELSE m[row - CRED_L]
  BY DEF Lift
<1>3. row \in Int
  BY DEF TRows
<1> QED
  BY <1>1, <1>2, <1>3, RClosed DEF Messages

LEMMA LiftLinear ==
  ASSUME NEW u \in Messages, NEW v \in Messages, NEW c \in ChalPoly, NEW row \in TRows
  PROVE  /\ Lift(RVecAdd(u, v))[row] = RAdd(Lift(u)[row], Lift(v)[row])
         /\ Lift(RVecScale(c, v))[row] = RMul(c, Lift(v)[row])
<1>1. RVecAdd(u, v) \in Messages /\ RVecScale(c, v) \in Messages
  BY RVecClosed
<1>2. CASE row < CRED_L
  <2>1. \A m : Lift(m)[row] = RZero
    BY <1>2 DEF Lift
  <2>2. RAdd(RZero, RZero) = RZero /\ RMul(c, RZero) = RZero
    BY RingAssumption, TimesZero
  <2> QED
    BY <2>1, <2>2
<1>3. CASE row >= CRED_L
  <2>1. row - CRED_L \in Slots
    BY <1>3, LiftTyped
  <2>2. /\ RVecAdd(u, v)[row - CRED_L] = RAdd(u[row - CRED_L], v[row - CRED_L])
        /\ RVecScale(c, v)[row - CRED_L] = RMul(c, v[row - CRED_L])
    BY <2>1 DEF RVecAdd, RVecScale, Messages
  <2> QED
    BY <1>1, <1>3, <2>2, LiftTyped
<1> QED
  BY <1>2, <1>3 DEF TRows

LEMMA CommitmentRows ==
  ASSUME NEW o, NEW issuer, NEW r, NEW m
  PROVE  Commitment(o, issuer, r, m) =
           [row \in TRows |-> RAdd(RowMul(o, issuer, row, r), Lift(m)[row])]
  BY DEF Commitment, RVecAdd, Mul

LEMMA CommitmentTyped ==
  ASSUME NEW o \in Oracle, NEW issuer \in Issuer, NEW r \in RVec, NEW m \in Messages
  PROVE  Commitment(o, issuer, r, m) \in [TRows -> R]
<1>1. \A row \in TRows : RowMul(o, issuer, row, r) \in R /\ Lift(m)[row] \in R
  BY CommitmentAssumption, LiftTyped
<1> QED
  BY <1>1, CommitmentRows, RClosed

(* The commitment the verifier recomputes is that of the masks if the      *)
(* witnesses open the blinded commitment t, and only then if the challenge *)
(* can be cancelled.                                                       *)
LEMMA CommitmentExact ==
  ASSUME NEW o \in Oracle, NEW issuer \in Issuer, NEW c \in ChalPoly,
         NEW y_r \in RVec, NEW r \in RVec,
         NEW y_m \in Messages, NEW h \in Messages, NEW p \in Messages,
         NEW t \in [TRows -> R]
  PROVE  /\ t = Commitment(o, issuer, r, RVecAdd(h, p)) =>
              RVecSub(Commitment(o, issuer, RVecAdd(y_r, RVecScale(c, r)), RVecAdd(y_m, RVecScale(c, h))),
                      RVecScale(c, RVecSub(t, Lift(p))))
                = Commitment(o, issuer, y_r, y_m)
         /\ Cancels(c)
            /\ RVecSub(Commitment(o, issuer, RVecAdd(y_r, RVecScale(c, r)), RVecAdd(y_m, RVecScale(c, h))),
                       RVecScale(c, RVecSub(t, Lift(p))))
                 = Commitment(o, issuer, y_r, y_m) =>
              t = Commitment(o, issuer, r, RVecAdd(h, p))
<1> DEFINE a(row) == RowMul(o, issuer, row, y_r)
           b(row) == RowMul(o, issuer, row, r)
           Verified(row) == RSub(RAdd(RAdd(a(row), RMul(c, b(row))),
                                      RAdd(Lift(y_m)[row], RMul(c, Lift(h)[row]))),
                                 RMul(c, RSub(t[row], Lift(p)[row])))
           W1(row)     == RAdd(a(row), Lift(y_m)[row])
           Opened(row) == RAdd(b(row), RAdd(Lift(h)[row], Lift(p)[row]))
           z_r == RVecAdd(y_r, RVecScale(c, r))
           z_m == RVecAdd(y_m, RVecScale(c, h))
           verified == RVecSub(Commitment(o, issuer, z_r, z_m), RVecScale(c, RVecSub(t, Lift(p))))
<1>1. ASSUME NEW row \in TRows
      PROVE  /\ t[row] = Opened(row) => Verified(row) = W1(row)
             /\ Cancels(c) /\ Verified(row) = W1(row) => t[row] = Opened(row)
  <2>1. /\ a(row) \in R /\ b(row) \in R /\ t[row] \in R
        /\ Lift(y_m)[row] \in R /\ Lift(h)[row] \in R /\ Lift(p)[row] \in R
    BY CommitmentAssumption, LiftTyped
  <2> HIDE DEF a, b
  <2> QED
    BY <2>1, RowExact, SMTT(60)
<1>2. Commitment(o, issuer, y_r, y_m) = [row \in TRows |-> W1(row)]
  BY CommitmentRows
<1>3. Commitment(o, issuer, r, RVecAdd(h, p)) = [row \in TRows |-> Opened(row)]
  <2>1. \A row \in TRows : Lift(RVecAdd(h, p))[row] = RAdd(Lift(h)[row], Lift(p)[row])
    BY LiftLinear
  <2> QED
    BY <2>1, CommitmentRows
<1>4. verified = [row \in TRows |-> Verified(row)]
  <2>1. ASSUME NEW row \in TRows
        PROVE  /\ RowMul(o, issuer, row, z_r) = RAdd(a(row), RMul(c, b(row)))
               /\ Lift(z_m)[row] = RAdd(Lift(y_m)[row], RMul(c, Lift(h)[row]))
    <3>1. RVecScale(c, r) \in RVec /\ RVecScale(c, h) \in Messages
      BY RVecClosed
    <3>2. RowMul(o, issuer, row, z_r) = RAdd(a(row), RowMul(o, issuer, row, RVecScale(c, r)))
      BY <3>1, CommitmentAssumption
    <3>3. RowMul(o, issuer, row, RVecScale(c, r)) = RMul(c, b(row))
      BY CommitmentAssumption
    <3>4. Lift(z_m)[row] = RAdd(Lift(y_m)[row], Lift(RVecScale(c, h))[row])
      BY <3>1, LiftLinear
    <3>5. Lift(RVecScale(c, h))[row] = RMul(c, Lift(h)[row])
      BY LiftLinear
    <3> QED
      BY <3>2, <3>3, <3>4, <3>5
  <2>2. RVecScale(c, RVecSub(t, Lift(p))) = [row \in TRows |-> RMul(c, RSub(t[row], Lift(p)[row]))]
    BY DEF RVecScale, RVecSub
  <2>3. Commitment(o, issuer, z_r, z_m) =
          [row \in TRows |-> RAdd(RAdd(a(row), RMul(c, b(row))),
                                  RAdd(Lift(y_m)[row], RMul(c, Lift(h)[row])))]
    BY <2>1, CommitmentRows
  <2> HIDE DEF a, b, z_r, z_m
  <2> QED
    BY <2>2, <2>3 DEF RVecSub
<1>5. t = [row \in TRows |-> t[row]]
  OBVIOUS
<1> HIDE DEF Verified, W1, Opened, verified
<1>6. ASSUME \A row \in TRows : t[row] = Opened(row)
      PROVE  verified = [row \in TRows |-> W1(row)]
  BY <1>1, <1>4, <1>6
<1>7. ASSUME Cancels(c), verified = [row \in TRows |-> W1(row)], NEW row \in TRows
      PROVE  t[row] = Opened(row)
  BY <1>1, <1>4, <1>7
<1>8. t = [row \in TRows |-> Opened(row)] <=> \A row \in TRows : t[row] = Opened(row)
  BY <1>5
<1> QED
  BY <1>2, <1>3, <1>6, <1>7, <1>8 DEF verified

(* The two halves of the messages add up.                                  *)
LEMMA Halves ==
  ASSUME NEW m \in Messages, NEW disclosed
  PROVE  /\ Public(m, disclosed) \in Messages /\ Hidden(m, disclosed) \in Messages
         /\ RVecAdd(Hidden(m, disclosed), Public(m, disclosed)) = m
<1>1. Public(m, disclosed) \in Messages /\ Hidden(m, disclosed) \in Messages
  BY RClosed DEF Public, Hidden, Messages
<1>2. \A x \in R : RAdd(x, RZero) = x /\ RAdd(RZero, x) = x
  BY RingAssumption
<1>3. RVecAdd(Hidden(m, disclosed), Public(m, disclosed)) =
        [slot \in Slots |-> IF slot \in disclosed THEN RAdd(RZero, m[slot]) ELSE RAdd(m[slot], RZero)]
  BY DEF RVecAdd, Hidden, Public
<1>4. m = [slot \in Slots |-> m[slot]] /\ \A slot \in Slots : m[slot] \in R
  BY DEF Messages
<1> QED
  BY <1>1, <1>2, <1>3, <1>4

-----------------------------------------------------------------------------
(* What attempt i of a call computes, as functions of the call's inputs:   *)
(* the blinded credential and its issuer, the holder, the projection, and  *)
(* the context, randomness and disclosure of the call.                     *)

ProjectionAt(o, in) == project_at_context(o, in.proj.by, in.proj.ctx, in.proj.rho)

StatementAt(o, in) ==
  Statement(in.issuer, in.blinded.t_blind, ProjectionAt(o, in), in.ctx, in.disclosed,
            DisclosedValues(in.blinded.m, in.disclosed))

MasksAt(o, in, i) == Masks(o, <<in.rand, StatementAt(o, in), i>>)

MatrixOfCall(o, in) == derive_context_matrix(o, ProjectionAt(o, in).tau, ProjectionAt(o, in).salt)

ChallengeAt(o, in, i) ==
  derive_challenge(o,
    Commitment(o, in.issuer, MasksAt(o, in, i).r, MasksAt(o, in, i).m),
    Add(Apply(MatrixOfCall(o, in), MasksAt(o, in, i).s), MasksAt(o, in, i).e),
    StatementAt(o, in))

ResponsesAt(o, in, i) ==
  [r |-> RVecAdd(MasksAt(o, in, i).r, RVecScale(ChallengeAt(o, in, i).poly, in.blinded.r_star)),
   m |-> RVecAdd(MasksAt(o, in, i).m,
                 RVecScale(ChallengeAt(o, in, i).poly, Hidden(in.blinded.m, in.disclosed))),
   s |-> Add(MasksAt(o, in, i).s, Scale(ChallengeAt(o, in, i).poly, SecretOf(o, in.by))),
   e |-> Add(MasksAt(o, in, i).e,
             Scale(ChallengeAt(o, in, i).poly, derive_error_tau(o, in.rho, in.ctx)))]

PresentationAt(o, in, i) ==
  [disclosed |-> in.disclosed, values |-> DisclosedValues(in.blinded.m, in.disclosed),
   challenge |-> ChallengeAt(o, in, i), z |-> ResponsesAt(o, in, i)]

(* The calls there are in any wallet of typed credentials.                 *)
AnyCall(o) ==
  {in \in [issuer : Issuer, blinded : BlindedCredential, by : Identity,
           proj : [by : Identity, ctx : Context, rho : LongEnough],
           ctx : Context, rho : Randomness, disclosed : SUBSET Attributes, rand : Randomness] :
     derive_error_tau(o, in.rho, in.ctx) \in Short}

MaskSet == [r : RVec, s : Vec, e : Vec, m : Messages]

LEMMA MasksTyped == ASSUME NEW o, NEW key PROVE Masks(o, key) \in MaskSet
<1> DEFINE y_s == Sampled(Vec, MaskS(o, key))
<1>1. Vec # {} /\ R # {}
  BY ClosureAssumption, RingAssumption
<1>2. RVec # {}
  <2>1. [i \in LRows |-> RZero] \in RVec
    BY RingAssumption DEF RVec
  <2> QED
    BY <2>1
<1>3. y_s \in Vec /\ Sampled(Vec, MaskE(o, key)) \in Vec /\ Sampled(RVec, MaskR(o, key)) \in RVec
      /\ \A slot : Sampled(R, MaskM(o, key, slot)) \in R
  BY <1>1, <1>2, SampledInRange
<1>4. First(y_s) \in R
  BY <1>3, VectorAssumption
<1> HIDE DEF y_s
<1>5. [slot \in Slots |-> IF slot = IDENTITY_SLOT THEN First(y_s) ELSE Sampled(R, MaskM(o, key, slot))]
        \in Messages
  BY <1>3, <1>4 DEF Messages
<1> QED
  BY <1>3, <1>5 DEF Masks, MaskSet, y_s

LEMMA CredChallengeTyped ==
  ASSUME NEW o, NEW w1, NEW w2, NEW statement
  PROVE  derive_challenge(o, w1, w2, statement).poly \in ChalPoly
<1> DEFINE t == [w1 |-> w1, w2 |-> w2, statement |-> statement]
<1>1. derive_challenge(o, w1, w2, statement).poly = Sampled(ChalPoly, CredChallengeOf(o, t))
  BY DEF derive_challenge
<1> HIDE DEF t
<1> QED
  BY <1>1, SampledInRange

(* A challenge stands for its transcript.                                  *)
LEMMA ChallengeInjective ==
  ASSUME NEW o, NEW w1, NEW w2, NEW statement, NEW v1, NEW v2, NEW statement2,
         derive_challenge(o, w1, w2, statement) = derive_challenge(o, v1, v2, statement2)
  PROVE  w1 = v1 /\ w2 = v2 /\ statement = statement2
<1> DEFINE t == [w1 |-> w1, w2 |-> w2, statement |-> statement]
           u == [w1 |-> v1, w2 |-> v2, statement |-> statement2]
<1>1. derive_challenge(o, w1, w2, statement).of = t /\ derive_challenge(o, v1, v2, statement2).of = u
  BY DEF derive_challenge
<1>2. t = u
  BY <1>1
<1>3. t.w1 = u.w1 /\ t.w2 = u.w2 /\ t.statement = u.statement
  BY <1>2, Zenon
<1> QED
  BY <1>3

LEMMA CallProjection ==
  ASSUME NEW o \in Oracle, NEW in \in AnyCall(o)
  PROVE  /\ ProjectionAt(o, in) \in Projection
         /\ MatrixOfCall(o, in) \in Mat
<1>1. in.proj.by \in Identity /\ in.proj.ctx \in Context /\ in.proj.rho \in LongEnough
  BY DEF AnyCall
<1>2. ProjectionAt(o, in) \in Projection
  BY <1>1, ProjectionTyped DEF ProjectionAt
<1>3. ProjectionAt(o, in).tau \in Tag /\ ProjectionAt(o, in).salt \in Salt
  BY <1>2 DEF Projection
<1> QED
  BY <1>2, <1>3, OracleAssumption DEF MatrixOfCall, derive_context_matrix

(* What an attempt computes is typed.                                      *)
LEMMA AttemptTyped ==
  ASSUME NEW o \in Oracle, NEW in \in AnyCall(o), NEW i
  PROVE  /\ MasksAt(o, in, i) \in MaskSet
         /\ ChallengeAt(o, in, i).poly \in ChalPoly
         /\ SecretOf(o, in.by) \in Short /\ SecretOf(o, in.by) \in Vec
         /\ derive_error_tau(o, in.rho, in.ctx) \in Vec
         /\ ResponsesAt(o, in, i) \in MaskSet
<1>1. MasksAt(o, in, i) \in MaskSet
  BY MasksTyped DEF MasksAt
<1>2. ChallengeAt(o, in, i).poly \in ChalPoly
  BY CredChallengeTyped DEF ChallengeAt
<1>3. in.by \in Identity /\ in.rho \in Randomness /\ in.ctx \in Context
      /\ in.blinded.r_star \in RVec /\ in.blinded.m \in Messages
  BY DEF AnyCall, BlindedCredential
<1>4. SecretOf(o, in.by) \in Short /\ SecretOf(o, in.by) \in Vec
  BY <1>3, OracleAssumption, ClosureAssumption
<1>5. derive_error_tau(o, in.rho, in.ctx) \in Vec
  BY ClosureAssumption DEF AnyCall
<1>6. ResponsesAt(o, in, i) \in MaskSet
  <2> DEFINE y == MasksAt(o, in, i)
             c == ChallengeAt(o, in, i).poly
  <2>1. y.r \in RVec /\ y.s \in Vec /\ y.e \in Vec /\ y.m \in Messages
    BY <1>1 DEF MaskSet
  <2>2. RVecAdd(y.r, RVecScale(c, in.blinded.r_star)) \in RVec
    BY <1>2, <1>3, <2>1, RVecClosed
  <2>3. RVecAdd(y.m, RVecScale(c, Hidden(in.blinded.m, in.disclosed))) \in Messages
    <3>1. Hidden(in.blinded.m, in.disclosed) \in Messages
      BY <1>3, Halves
    <3> QED
      BY <1>2, <2>1, <3>1, RVecClosed
  <2>4. Add(y.s, Scale(c, SecretOf(o, in.by))) \in Vec
        /\ Add(y.e, Scale(c, derive_error_tau(o, in.rho, in.ctx))) \in Vec
    BY <1>2, <1>4, <1>5, <2>1, ClosureAssumption
  <2> QED
    BY <2>2, <2>3, <2>4 DEF ResponsesAt, MaskSet
<1> QED
  BY <1>1, <1>2, <1>4, <1>5, <1>6

-----------------------------------------------------------------------------
(* What a verifier accepts.                                                *)

(* Messages as they are issued: every attribute is the encoding of a value. *)
HoldsValues(m) == \A slot \in Attributes : \E value \in Value : m[slot] = Encode(value)

LEMMA DisclosedAreEncoded ==
  ASSUME NEW m \in Messages, HoldsValues(m), NEW disclosed \in SUBSET Attributes
  PROVE  [slot \in Slots |-> IF slot \in disclosed THEN Encode(DisclosedValues(m, disclosed)[slot])
                             ELSE RZero] = Public(m, disclosed)
<1>1. \A slot \in Attributes : slot \in Slots
  BY DEF Attributes, Slots
<1>2. ASSUME NEW slot \in disclosed
      PROVE  Encode(DisclosedValues(m, disclosed)[slot]) = m[slot]
  <2>1. slot \in Attributes /\ slot \in Slots
    BY <1>1
  <2>2. DisclosedValues(m, disclosed)[slot] = Decode(Public(m, disclosed)[slot])
    BY <2>1 DEF DisclosedValues
  <2>3. Public(m, disclosed)[slot] = m[slot]
    BY <2>1 DEF Public
  <2>4. PICK value \in Value : m[slot] = Encode(value)
    BY <2>1 DEF HoldsValues
  <2> QED
    BY <2>2, <2>3, <2>4, IssuingAssumption
<1> QED
  BY <1>2 DEF Public

(* The linkage check compares the secret's first component with slot 0.    *)
LEMMA LinkedIff ==
  ASSUME NEW o \in Oracle, NEW in \in AnyCall(o), NEW i
  PROVE  Linked(ResponsesAt(o, in, i)) <=>
           RMul(ChallengeAt(o, in, i).poly, in.blinded.m[IDENTITY_SLOT])
             = RMul(ChallengeAt(o, in, i).poly, First(SecretOf(o, in.by)))
<1> DEFINE c == ChallengeAt(o, in, i).poly
           y == MasksAt(o, in, i)
           s == SecretOf(o, in.by)
           h == Hidden(in.blinded.m, in.disclosed)
           f == First(y.s)
           a == RMul(c, in.blinded.m[IDENTITY_SLOT])
           b == RMul(c, First(s))
<1>1. IDENTITY_SLOT \in Slots /\ IDENTITY_SLOT \notin in.disclosed
  BY DEF IDENTITY_SLOT, Slots, AnyCall, Attributes
<1>2. y \in MaskSet /\ c \in ChalPoly /\ s \in Vec /\ in.blinded.m \in Messages /\ h \in Messages
  BY AttemptTyped, Halves DEF AnyCall, BlindedCredential
<1>3. y.s \in Vec /\ y.m \in Messages /\ f \in R /\ First(s) \in R /\ in.blinded.m[IDENTITY_SLOT] \in R
  BY <1>1, <1>2, VectorAssumption DEF MaskSet, Messages
<1>4. y.m[IDENTITY_SLOT] = f
  BY <1>1 DEF MasksAt, Masks
<1>5. h[IDENTITY_SLOT] = in.blinded.m[IDENTITY_SLOT]
  BY <1>1 DEF Hidden
<1>6. ResponsesAt(o, in, i).m[IDENTITY_SLOT] = RAdd(f, a)
  <2>1. RVecScale(c, h)[IDENTITY_SLOT] = a
    BY <1>1, <1>2, <1>5 DEF RVecScale, Messages
  <2>2. RVecAdd(y.m, RVecScale(c, h))[IDENTITY_SLOT] = RAdd(f, a)
    BY <1>1, <1>3, <1>4, <2>1 DEF RVecAdd, Messages
  <2> QED
    BY <2>2 DEF ResponsesAt
<1>7. First(ResponsesAt(o, in, i).s) = RAdd(f, b)
  <2>1. ResponsesAt(o, in, i).s = Add(y.s, Scale(c, s)) /\ Scale(c, s) \in Vec
    BY <1>2, ClosureAssumption DEF ResponsesAt
  <2>2. First(Add(y.s, Scale(c, s))) = RAdd(f, First(Scale(c, s)))
    BY <1>3, <2>1, VectorAssumption
  <2>3. First(Scale(c, s)) = b
    BY <1>2, VectorAssumption
  <2> QED
    BY <2>1, <2>2, <2>3
<1>8. a \in R /\ b \in R
  BY <1>2, <1>3, RClosed
<1> HIDE DEF c, y, s, h, f, a, b
<1>9. RAdd(f, a) = RAdd(f, b) <=> a = b
  <2>1. RSub(RAdd(f, a), b) = f <=> a = b
    BY <1>3, <1>8, RSubtracts
  <2>2. RSub(RAdd(f, b), b) = f
    BY <1>3, <1>8, RingAssumption
  <2> QED
    BY <2>1, <2>2
<1> QED
  BY <1>6, <1>7, <1>9 DEF Linked, a, b, c, s

(* The challenge a verifier derives from the responses of an attempt.      *)
VerifiedChallenge(o, p, issuer, t_blind, proj, ctx) ==
  LET c     == p.challenge.poly
      m_pub == [slot \in Slots |-> IF slot \in p.disclosed THEN Encode(p.values[slot]) ELSE RZero]
      A     == derive_context_matrix(o, proj.tau, proj.salt)
  IN  derive_challenge(o,
        RVecSub(Commitment(o, issuer, p.z.r, p.z.m), RVecScale(c, RVecSub(t_blind, Lift(m_pub)))),
        Sub(Add(Apply(A, p.z.s), p.z.e), Scale(c, proj.public_b)),
        Statement(issuer, t_blind, proj, ctx, p.disclosed, p.values))

LEMMA VerifyUnfolds ==
  ASSUME NEW o, NEW p, NEW issuer, NEW t_blind, NEW proj, NEW ctx
  PROVE  verify_presentation(o, issuer, p, t_blind, proj, ctx) <=>
           /\ ShortResponses(p.z) /\ Linked(p.z)
           /\ p.challenge = VerifiedChallenge(o, p, issuer, t_blind, proj, ctx)
  BY DEF verify_presentation, VerifiedChallenge

(* The two commitments the verifier recomputes are those of the attempt if *)
(* the witnesses satisfy the two relations, and only then if the challenge *)
(* can be cancelled.                                                       *)
LEMMA RelationsExact ==
  ASSUME NEW o \in Oracle, NEW in \in AnyCall(o), NEW i, HoldsValues(in.blinded.m)
  PROVE  LET p    == PresentationAt(o, in, i)
             proj == ProjectionAt(o, in)
             Relations ==
               /\ in.blinded.t_blind = Commitment(o, in.issuer, in.blinded.r_star, in.blinded.m)
               /\ proj.public_b = Add(Apply(MatrixOfCall(o, in), SecretOf(o, in.by)),
                                      derive_error_tau(o, in.rho, in.ctx))
             Same == p.challenge = VerifiedChallenge(o, p, in.issuer, in.blinded.t_blind, proj, in.ctx)
         IN  (Relations => Same) /\ (Cancels(p.challenge.poly) /\ Same => Relations)
<1> DEFINE p    == PresentationAt(o, in, i)
           proj == ProjectionAt(o, in)
           c    == ChallengeAt(o, in, i).poly
           y    == MasksAt(o, in, i)
           s    == SecretOf(o, in.by)
           e    == derive_error_tau(o, in.rho, in.ctx)
           m    == in.blinded.m
           t    == in.blinded.t_blind
           r    == in.blinded.r_star
           h    == Hidden(m, in.disclosed)
           pub  == Public(m, in.disclosed)
           w1   == Commitment(o, in.issuer, y.r, y.m)
           w2   == Add(Apply(MatrixOfCall(o, in), y.s), y.e)
           v1   == RVecSub(Commitment(o, in.issuer, RVecAdd(y.r, RVecScale(c, r)),
                                      RVecAdd(y.m, RVecScale(c, h))),
                           RVecScale(c, RVecSub(t, Lift(pub))))
           v2   == Sub(Add(Apply(MatrixOfCall(o, in), Add(y.s, Scale(c, s))), Add(y.e, Scale(c, e))),
                       Scale(c, proj.public_b))
           opened == Commitment(o, in.issuer, r, m)
           projected == Add(Apply(MatrixOfCall(o, in), s), e)
<1>1. /\ in.issuer \in Issuer /\ in.disclosed \in SUBSET Attributes
      /\ m \in Messages /\ t \in [TRows -> R] /\ r \in RVec
  BY DEF AnyCall, BlindedCredential
<1>2. /\ c \in ChalPoly /\ y.r \in RVec /\ y.m \in Messages /\ y.s \in Vec /\ y.e \in Vec
      /\ s \in Vec /\ e \in Vec
  BY AttemptTyped DEF MaskSet
<1>3. MatrixOfCall(o, in) \in Mat /\ proj.public_b \in Vec
  BY CallProjection DEF Projection
<1>4. h \in Messages /\ pub \in Messages /\ RVecAdd(h, pub) = m
  BY <1>1, Halves
<1>5. p.challenge = derive_challenge(o, w1, w2, StatementAt(o, in)) /\ p.challenge.poly = c
  BY DEF PresentationAt, ChallengeAt
<1>6. VerifiedChallenge(o, p, in.issuer, t, proj, in.ctx)
        = derive_challenge(o, v1, v2, StatementAt(o, in))
  <2>1. [slot \in Slots |-> IF slot \in p.disclosed THEN Encode(p.values[slot]) ELSE RZero] = pub
    BY <1>1, DisclosedAreEncoded DEF PresentationAt
  <2>2. /\ p.z.r = RVecAdd(y.r, RVecScale(c, r)) /\ p.z.m = RVecAdd(y.m, RVecScale(c, h))
        /\ p.z.s = Add(y.s, Scale(c, s)) /\ p.z.e = Add(y.e, Scale(c, e))
    BY DEF PresentationAt, ResponsesAt
  <2>3. Statement(in.issuer, t, proj, in.ctx, p.disclosed, p.values) = StatementAt(o, in)
    BY DEF StatementAt, PresentationAt
  <2> HIDE DEF p, c, y, s, e, m, t, r, h, pub, proj
  <2> QED
    BY <1>5, <2>1, <2>2, <2>3 DEF VerifiedChallenge, MatrixOfCall, proj
<1> HIDE DEF c, y, s, e, m, t, r, h, pub
<1>7. /\ t = opened => v1 = w1
      /\ Cancels(c) /\ v1 = w1 => t = opened
  <2>1. /\ t = Commitment(o, in.issuer, r, RVecAdd(h, pub)) => v1 = w1
        /\ Cancels(c) /\ v1 = w1 => t = Commitment(o, in.issuer, r, RVecAdd(h, pub))
    BY <1>1, <1>2, <1>4, CommitmentExact
  <2> QED
    BY <1>4, <2>1
<1> HIDE DEF proj
<1>8. /\ proj.public_b = projected => v2 = w2
      /\ Cancels(c) /\ v2 = w2 => proj.public_b = projected
  BY <1>2, <1>3, ProjectionExact
<1> HIDE DEF v1, v2, w1, w2, opened, projected
<1>9. p.challenge = VerifiedChallenge(o, p, in.issuer, t, proj, in.ctx) <=> v1 = w1 /\ v2 = w2
  <2> HIDE DEF p
  <2> QED
    BY <1>5, <1>6, ChallengeInjective
<1> QED
  BY <1>5, <1>7, <1>8, <1>9 DEF p, proj, t, r, m, s, e, opened, projected

(* The witnesses of the call satisfy both relations and share slot 0.      *)
OpensAt(o, in) ==
  /\ in.blinded.t_blind = Commitment(o, in.issuer, in.blinded.r_star, in.blinded.m)
  /\ in.blinded.m[IDENTITY_SLOT] = First(SecretOf(o, in.by))
  /\ ProjectionAt(o, in).public_b
       = Add(Apply(MatrixOfCall(o, in), SecretOf(o, in.by)), derive_error_tau(o, in.rho, in.ctx))

LEMMA HonestCallVerifies ==
  ASSUME NEW o \in Oracle, NEW in \in AnyCall(o), NEW i, HoldsValues(in.blinded.m),
         ShortResponses(ResponsesAt(o, in, i)), OpensAt(o, in)
  PROVE  verify_presentation(o, in.issuer, PresentationAt(o, in, i), in.blinded.t_blind,
                             ProjectionAt(o, in), in.ctx)
<1> DEFINE p == PresentationAt(o, in, i)
<1>1. p.z = ResponsesAt(o, in, i)
  BY DEF PresentationAt
<1>2. Linked(p.z)
  BY <1>1, LinkedIff DEF OpensAt
<1>3. p.challenge = VerifiedChallenge(o, p, in.issuer, in.blinded.t_blind, ProjectionAt(o, in), in.ctx)
  BY RelationsExact DEF OpensAt, MatrixOfCall
<1> HIDE DEF p
<1> QED
  BY <1>1, <1>2, <1>3, VerifyUnfolds DEF p

LEMMA VerifiedCallOpens ==
  ASSUME NEW o \in Oracle, NEW in \in AnyCall(o), NEW i, HoldsValues(in.blinded.m),
         Cancels(ChallengeAt(o, in, i).poly),
         verify_presentation(o, in.issuer, PresentationAt(o, in, i), in.blinded.t_blind,
                             ProjectionAt(o, in), in.ctx)
  PROVE  OpensAt(o, in)
<1> DEFINE p == PresentationAt(o, in, i)
<1>1. p.z = ResponsesAt(o, in, i) /\ p.challenge = ChallengeAt(o, in, i)
  BY DEF PresentationAt
<1> HIDE DEF p
<1>2. Linked(p.z)
      /\ p.challenge = VerifiedChallenge(o, p, in.issuer, in.blinded.t_blind, ProjectionAt(o, in), in.ctx)
  BY VerifyUnfolds DEF p
<1>3. in.blinded.m[IDENTITY_SLOT] = First(SecretOf(o, in.by))
  <2>1. RMul(ChallengeAt(o, in, i).poly, in.blinded.m[IDENTITY_SLOT])
          = RMul(ChallengeAt(o, in, i).poly, First(SecretOf(o, in.by)))
    BY <1>1, <1>2, LinkedIff
  <2>2. IDENTITY_SLOT \in Slots /\ in.blinded.m \in Messages
    BY DEF IDENTITY_SLOT, Slots, AnyCall, BlindedCredential
  <2>3. in.blinded.m[IDENTITY_SLOT] \in R /\ First(SecretOf(o, in.by)) \in R
    BY <2>2, AttemptTyped, VectorAssumption DEF Messages
  <2> QED
    BY <2>1, <2>3 DEF Cancels
<1> QED
  BY <1>1, <1>2, <1>3, RelationsExact DEF OpensAt, MatrixOfCall, p
-----------------------------------------------------------------------------
(* What issuing and blinding return.                                       *)
LEMMA IssueTyped ==
  ASSUME NEW o \in Oracle, NEW issuer \in Issuer, NEW id \in Identity,
         NEW attributes \in [Attributes -> Value], NEW rand \in LongEnough
  PROVE  /\ issue(o, issuer, id, attributes, rand) \in [t_cred : [TRows -> R], r : RVec, m : Messages]
         /\ issue(o, issuer, id, attributes, rand).m =
              [slot \in Slots |-> IF slot = IDENTITY_SLOT THEN First(SecretOf(o, id))
                                  ELSE Encode(attributes[slot])]
<1> DEFINE m == [slot \in Slots |-> IF slot = IDENTITY_SLOT THEN First(SecretOf(o, id))
                                    ELSE Encode(attributes[slot])]
           r == IssueR(o, rand)
<1>1. First(SecretOf(o, id)) \in R
  BY OracleAssumption, ClosureAssumption, VectorAssumption
<1>2. \A slot \in Slots : slot # IDENTITY_SLOT => slot \in Attributes
  BY DEF Slots, Attributes, IDENTITY_SLOT
<1>3. m \in Messages
  BY <1>1, <1>2, IssuingAssumption DEF Messages
<1>4. r \in RVec
  BY IssuingAssumption
<1>5. issue(o, issuer, id, attributes, rand) = [t_cred |-> Commitment(o, issuer, r, m), r |-> r, m |-> m]
  BY DEF issue
<1> HIDE DEF m, r
<1>6. Commitment(o, issuer, r, m) \in [TRows -> R]
  BY <1>3, <1>4, CommitmentTyped
<1> QED
  BY <1>3, <1>4, <1>5, <1>6 DEF m

LEMMA BlindTyped ==
  ASSUME NEW o \in Oracle, NEW issuer \in Issuer, NEW rand \in LongEnough,
         NEW cred \in [t_cred : [TRows -> R], r : RVec, m : Messages]
  PROVE  blind(o, issuer, cred, rand) \in BlindedCredential
<1> DEFINE t == RVecAdd(cred.t_cred, Mul(o, issuer, BlindR(o, rand)))
<1>1. BlindR(o, rand) \in RVec /\ cred.r \in RVec /\ cred.m \in Messages /\ cred.t_cred \in [TRows -> R]
  BY IssuingAssumption
<1>2. RVecAdd(cred.r, BlindR(o, rand)) \in RVec
  BY <1>1, RVecClosed
<1>3. Mul(o, issuer, BlindR(o, rand)) \in [TRows -> R]
  BY <1>1, CommitmentAssumption DEF Mul
<1>4. t \in [TRows -> R]
  BY <1>1, <1>3, RClosed DEF RVecAdd
<1> QED
  BY <1>1, <1>2, <1>4 DEF blind, BlindedCredential
-----------------------------------------------------------------------------
(* The challenge binds what it was derived from.                           *)

(* A verifier that accepts a challenge has the statement it was made for.  *)
LEMMA AcceptedNames ==
  ASSUME NEW o, NEW in, NEW i, NEW p, p.challenge = ChallengeAt(o, in, i),
         NEW issuer, NEW t_blind, NEW proj, NEW ctx,
         verify_presentation(o, issuer, p, t_blind, proj, ctx)
  PROVE  /\ issuer = in.issuer /\ t_blind = in.blinded.t_blind /\ ctx = in.ctx
         /\ proj.salt = ProjectionAt(o, in).salt /\ proj.public_b = ProjectionAt(o, in).public_b
         /\ p.disclosed = in.disclosed /\ p.values = DisclosedValues(in.blinded.m, in.disclosed)
         /\ Linked(p.z)
<1> DEFINE claimed == Statement(issuer, t_blind, proj, ctx, p.disclosed, p.values)
           made == StatementAt(o, in)
<1>1. p.challenge = VerifiedChallenge(o, p, issuer, t_blind, proj, ctx) /\ Linked(p.z)
  BY VerifyUnfolds
<1>2. claimed = made
  <2> HIDE DEF claimed, made
  <2>1. PICK w1, w2 : VerifiedChallenge(o, p, issuer, t_blind, proj, ctx) = derive_challenge(o, w1, w2, claimed)
    BY DEF VerifiedChallenge, claimed
  <2>2. PICK v1, v2 : ChallengeAt(o, in, i) = derive_challenge(o, v1, v2, made)
    BY DEF ChallengeAt, made
  <2>3. derive_challenge(o, w1, w2, claimed) = derive_challenge(o, v1, v2, made)
    BY <1>1, <2>1, <2>2, Zenon
  <2> QED
    BY <2>3, ChallengeInjective
<1>3. /\ claimed.public_seed = issuer /\ claimed.t_blind = t_blind /\ claimed.tau = ctx
      /\ claimed.salt = proj.salt /\ claimed.b_tau = proj.public_b
      /\ claimed.disclosed = p.disclosed /\ claimed.values = p.values
  BY DEF Statement
<1>4. /\ made.public_seed = in.issuer /\ made.t_blind = in.blinded.t_blind /\ made.tau = in.ctx
      /\ made.salt = ProjectionAt(o, in).salt /\ made.b_tau = ProjectionAt(o, in).public_b
      /\ made.disclosed = in.disclosed /\ made.values = DisclosedValues(in.blinded.m, in.disclosed)
  BY DEF StatementAt, Statement
<1> HIDE DEF claimed, made
<1> QED
  BY <1>1, <1>2, <1>3, <1>4

(* A salt is derived from the tag, so projections with one salt have one   *)
(* tag.                                                                    *)
LEMMA SaltNamesTag ==
  ASSUME NEW o, NEW in, NEW id, NEW ctx, NEW rho,
         project_at_context(o, id, ctx, rho).salt = ProjectionAt(o, in).salt,
         project_at_context(o, id, ctx, rho).public_b = ProjectionAt(o, in).public_b
  PROVE  project_at_context(o, id, ctx, rho) = ProjectionAt(o, in)
<1> DEFINE p == project_at_context(o, id, ctx, rho)
           p0 == ProjectionAt(o, in)
<1>1. p = [tau |-> p.salt[2], salt |-> p.salt, public_b |-> p.public_b]
  BY DEF project_at_context, derive_projection_salt
<1>2. p0 = [tau |-> p0.salt[2], salt |-> p0.salt, public_b |-> p0.public_b]
  BY DEF ProjectionAt, project_at_context, derive_projection_salt
<1>3. p.salt = p0.salt /\ p.public_b = p0.public_b
  OBVIOUS
<1> HIDE DEF p, p0
<1>4. p = p0
  BY <1>1, <1>2, <1>3
<1> QED
  BY <1>4 DEF p, p0

(* Slot 0 names a holder by the first component of the secret.             *)
LEMMA LinkedHolder ==
  ASSUME NEW o \in Oracle, NEW in \in AnyCall(o), NEW i, Linked(ResponsesAt(o, in, i)),
         NEW to \in Identity, in.blinded.m[IDENTITY_SLOT] = First(SecretOf(o, to))
  PROVE  First(SecretOf(o, in.by)) = First(SecretOf(o, to))
<1>1. ChallengeAt(o, in, i).poly \in ChalPoly /\ SecretOf(o, in.by) \in Short /\ SecretOf(o, to) \in Short
  BY AttemptTyped, OracleAssumption
<1>2. RMul(ChallengeAt(o, in, i).poly, First(SecretOf(o, to)))
        = RMul(ChallengeAt(o, in, i).poly, First(SecretOf(o, in.by)))
  BY LinkedIff
<1> QED
  BY <1>1, <1>2, ShortCancellation

(* The statement, the randomness and the attempt determine the masks and   *)
(* with them the challenge.                                                *)
LEMMA StatementFixesChallenge ==
  ASSUME NEW o, NEW in1, NEW in2, NEW i,
         in1.rand = in2.rand, StatementAt(o, in1) = StatementAt(o, in2)
  PROVE  ChallengeAt(o, in1, i) = ChallengeAt(o, in2, i)
<1>1. \A in : /\ StatementAt(o, in).public_seed = in.issuer
              /\ StatementAt(o, in).salt = ProjectionAt(o, in).salt
  BY DEF StatementAt, Statement
<1>2. in1.issuer = in2.issuer /\ ProjectionAt(o, in1).salt = ProjectionAt(o, in2).salt
  BY <1>1
<1>3. \A in : ProjectionAt(o, in).tau = ProjectionAt(o, in).salt[2]
  BY DEF ProjectionAt, project_at_context, derive_projection_salt
<1>4. MatrixOfCall(o, in1) = MatrixOfCall(o, in2)
  BY <1>2, <1>3 DEF MatrixOfCall
<1>5. MasksAt(o, in1, i) = MasksAt(o, in2, i)
  BY DEF MasksAt
<1> QED
  BY <1>2, <1>4, <1>5 DEF ChallengeAt
===============================================================================
