--------------------------- MODULE CredentialCore ---------------------------
(***************************************************************************)
(* Blind credentials presented over a projection (src/src/credential.rs),  *)
(* the part without state: issuing, blinding, the statement of a           *)
(* presentation, and verification.                                         *)
(*                                                                         *)
(* A credential commits to messages, t = B1.r + (0 || m).  Slot 0 holds    *)
(* the first component of the holder's secret, the others attributes.  A   *)
(* presentation proves an opening of the blinded commitment and of the     *)
(* projection b = A.s + e under one challenge.  Hash derivations are       *)
(* functions of what is absorbed, as in PlpCore; the challenge also        *)
(* carries its transcript.                                                 *)
(***************************************************************************)
EXTENDS PlpCore

CONSTANTS
  Issuer,            \* an issuer's public seed; it determines the matrix B1
  Value,             \* attribute values
  CRED_L, CRED_ATTRIBUTES, REJECTION_BOUND,
  R, RZero,          \* ring elements, the components of vectors
  RAdd(_, _), RSub(_, _), RMul(_, _), RNorm(_),
  First(_),          \* component 0 of a vector of PlpCore
  Encode(_), Decode(_),          \* attribute values as ring elements
  RowMul(_, _, _, _),            \* a row of B1 times a vector of CRED_L elements
  IssueR(_, _), BlindR(_, _),    \* randomness of a commitment and of a blinding
  MaskR(_, _), MaskS(_, _), MaskE(_, _), MaskM(_, _, _),
  CredChallengeOf(_, _)

IDENTITY_SLOT == 0
Attributes == 1 .. CRED_ATTRIBUTES
Slots      == 0 .. CRED_ATTRIBUTES
LRows      == 0 .. CRED_L - 1
TRows      == 0 .. CRED_L + CRED_ATTRIBUTES

RVec     == [LRows -> R]
Messages == [Slots -> R]

BlindedCredential == [t_blind : [TRows -> R], r_star : RVec, m : Messages]

(* A sampler rejects what is outside its range S; which member it returns  *)
(* is up to the stream x it reads.                                         *)
Sampled(S, x) == IF x \in S THEN x ELSE CHOOSE y \in S : TRUE

RVecAdd(u, v)   == [i \in DOMAIN u |-> RAdd(u[i], v[i])]
RVecSub(u, v)   == [i \in DOMAIN u |-> RSub(u[i], v[i])]
RVecScale(c, v) == [i \in DOMAIN v |-> RMul(c, v[i])]

Mul(o, issuer, v) == [row \in TRows |-> RowMul(o, issuer, row, v)]

(* (0^L || m)                                                              *)
Lift(m) == [row \in TRows |-> IF row < CRED_L THEN RZero ELSE m[row - CRED_L]]

Commitment(o, issuer, r, m) == RVecAdd(Mul(o, issuer, r), Lift(m))

(***************************************************************************)
(* Assumptions on the parameters, besides those of PlpCore.  The ring of   *)
(* the crate satisfies them, and TLC evaluates them on the instance.       *)
(***************************************************************************)
ASSUME SizesAssumption ==
  /\ CRED_L \in Nat \ {0} /\ CRED_ATTRIBUTES \in Nat
  /\ ChalPoly # {}

ASSUME RingAssumption ==
  /\ RZero \in R
  /\ \A a, b \in R : RAdd(a, b) \in R /\ RSub(a, b) \in R
  /\ \A a, b \in R : RAdd(a, b) = RAdd(b, a) /\ RAdd(a, RZero) = a
  /\ \A a, b \in R : RSub(RAdd(a, b), b) = a /\ RAdd(RSub(a, b), b) = a
  /\ \A a, b, c \in R : RAdd(RAdd(a, b), c) = RAdd(a, RAdd(b, c))
  /\ \A c \in ChalPoly : \A a, b \in R :
       RMul(c, a) \in R /\ RMul(c, RAdd(a, b)) = RAdd(RMul(c, a), RMul(c, b))

ASSUME VectorAssumption ==
  /\ \A u, v \in Vec : Add(u, v) = Add(v, u)
  /\ \A u, v \in Vec : Sub(Add(u, v), v) = u /\ Add(Sub(u, v), v) = u
  /\ \A u, v, w \in Vec : Add(Add(u, v), w) = Add(u, Add(v, w))
  /\ \A u, v \in Vec : First(u) \in R /\ First(Add(u, v)) = RAdd(First(u), First(v))
  /\ \A c \in ChalPoly : \A v \in Vec : First(Scale(c, v)) = RMul(c, First(v))

ASSUME CommitmentAssumption ==
  \A o \in Oracle, issuer \in Issuer, row \in TRows : \A u, v \in RVec :
    /\ RowMul(o, issuer, row, v) \in R
    /\ RowMul(o, issuer, row, RVecAdd(u, v)) = RAdd(RowMul(o, issuer, row, u), RowMul(o, issuer, row, v))
    /\ \A c \in ChalPoly : RowMul(o, issuer, row, RVecScale(c, v)) = RMul(c, RowMul(o, issuer, row, v))

(* An attribute is a u64, which its limbs represent.                       *)
ASSUME IssuingAssumption ==
  /\ \A o \in Oracle, rand \in LongEnough : IssueR(o, rand) \in RVec /\ BlindR(o, rand) \in RVec
  /\ \A value \in Value : Encode(value) \in R /\ Decode(Encode(value)) = value

(* The product of a challenge and a difference of short elements is too    *)
(* small to be reduced mod q, and Z[X]/(X^N + 1) has no zero divisors.     *)
ASSUME ShortCancellation ==
  \A c \in ChalPoly : \A u, v \in Short :
    RMul(c, First(u)) = RMul(c, First(v)) => First(u) = First(v)
-----------------------------------------------------------------------------
issue(o, issuer, id, attributes, rand) ==
  LET m == [slot \in Slots |-> IF slot = IDENTITY_SLOT THEN First(SecretOf(o, id))
                               ELSE Encode(attributes[slot])]
      r == IssueR(o, rand)
  IN  [t_cred |-> Commitment(o, issuer, r, m), r |-> r, m |-> m]

blind(o, issuer, cred, rand) ==
  LET r_blind == BlindR(o, rand)
  IN  [t_blind |-> RVecAdd(cred.t_cred, Mul(o, issuer, r_blind)),
       r_star  |-> RVecAdd(cred.r, r_blind),
       m       |-> cred.m]

(* The two halves of the messages; slot 0 is hidden whatever is disclosed. *)
Public(m, disclosed) == [slot \in Slots |-> IF slot \in disclosed THEN m[slot] ELSE RZero]
Hidden(m, disclosed) == [slot \in Slots |-> IF slot \in disclosed THEN RZero ELSE m[slot]]

(* A hidden attribute is carried as the value 0.                           *)
DisclosedValues(m, disclosed) ==
  [i \in Attributes |-> IF i \in disclosed THEN Decode(Public(m, disclosed)[i]) ELSE 0]

(* A mutation: the padded tag instead of the context's bytes.              *)
Statement_PaddedContext(issuer, t_blind, proj, ctx, disclosed, values) ==
  [tau |-> Pad(ctx), salt |-> proj.salt, public_seed |-> issuer, t_blind |-> t_blind,
   b_tau |-> proj.public_b, disclosed |-> disclosed, values |-> values]

(* What masks and challenge are bound to.                                  *)
Statement(issuer, t_blind, proj, ctx, disclosed, values) ==
  [tau |-> ctx, salt |-> proj.salt, public_seed |-> issuer, t_blind |-> t_blind,
   b_tau |-> proj.public_b, disclosed |-> disclosed, values |-> values]

derive_challenge(o, w1, w2, statement) ==
  LET t == [w1 |-> w1, w2 |-> w2, statement |-> statement]
  IN  [of |-> t, poly |-> Sampled(ChalPoly, CredChallengeOf(o, t))]

(* Masks of one attempt.  Slot 0 shares the first component of y_s.        *)
Masks(o, key) ==
  LET y_s == Sampled(Vec, MaskS(o, key))
  IN  [r |-> Sampled(RVec, MaskR(o, key)), s |-> y_s, e |-> Sampled(Vec, MaskE(o, key)),
       m |-> [slot \in Slots |-> IF slot = IDENTITY_SLOT THEN First(y_s)
                                 ELSE Sampled(R, MaskM(o, key, slot))]]

ShortResponses(z) ==
  /\ Norm(z.s) < REJECTION_BOUND /\ Norm(z.e) < REJECTION_BOUND
  /\ \A i \in LRows : RNorm(z.r[i]) < REJECTION_BOUND

(* A mutation: the linkage check is left out.                              *)
Linked_Always(z) == TRUE

Linked(z) == z.m[IDENTITY_SLOT] = First(z.s)

verify_presentation(o, issuer, p, t_blind, proj, ctx) ==
  /\ ShortResponses(p.z)
  /\ Linked(p.z)
  /\ LET c     == p.challenge.poly
         m_pub == [slot \in Slots |-> IF slot \in p.disclosed THEN Encode(p.values[slot]) ELSE RZero]
         A     == derive_context_matrix(o, proj.tau, proj.salt)
         w1    == RVecSub(Commitment(o, issuer, p.z.r, p.z.m),
                          RVecScale(c, RVecSub(t_blind, Lift(m_pub))))
         w2    == Sub(Add(Apply(A, p.z.s), p.z.e), Scale(c, proj.public_b))
     IN  p.challenge = derive_challenge(o, w1, w2,
                         Statement(issuer, t_blind, proj, ctx, p.disclosed, p.values))
=============================================================================
