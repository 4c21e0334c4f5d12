--------------------------- MODULE EnclaveProofs ---------------------------
(***************************************************************************)
(* Proofs about Enclave for every ring, rank, word width, bound and        *)
(* ceiling, every set of readings and contexts, and every function the     *)
(* hashes may be; about the ring arithmetic it shares with the             *)
(* presentations, for every degree, modulus and rank; about the fast       *)
(* multiplication, for every degree that is a power of two; and about the  *)
(* predicate proofs that multiply with it.                                 *)
(***************************************************************************)
EXTENDS Enclave, NormMasks, ChallengeProduct, TransformProduct, SaapPromise,
        WellFoundedInduction, FiniteSetTheorems, TLAPS

-----------------------------------------------------------------------------
(* Masks.                                                                  *)

LEMMA AllOnesNotZero == AllOnes \in Nat /\ AllOnes # 0
  BY WordAssumption DEF AllOnes

LEMMA RejectMaskIsMask == \A z : RejectMask(z) \in {0, AllOnes}
  BY DEF RejectMask, ct_check_norm_bound

LEMMA ComplementOfMask == Complement(0) = AllOnes /\ Complement(AllOnes) = 0
  BY AllOnesNotZero DEF Complement

(* A candidate is copied exactly if it is acceptable and none was before.  *)
LEMMA Captures ==
  ASSUME NEW z, NEW captured \in {0, AllOnes}
  PROVE  CaptureMask(RejectMask(z), captured)
           = IF RejectMask(z) = 0 /\ captured = 0 THEN AllOnes ELSE 0
  BY RejectMaskIsMask, ComplementOfMask, AllOnesNotZero DEF CaptureMask, BitAnd

(* A value one step outside a word comes back at the other end.            *)
LEMMA WrapOver ==
  /\ \A x \in 0 .. 2 ^ (WORD - 1) - 1 : Wrap(x + 2 ^ (WORD - 1)) = x - 2 ^ (WORD - 1)
  /\ Wrap(- (2 ^ (WORD - 1)) - 1) = 2 ^ (WORD - 1) - 1
  /\ \A x \in Words : Wrap(x) = x
<1> DEFINE h == 2 ^ (WORD - 1)
<1>1. h \in Nat /\ h > 1 /\ 2 ^ WORD = 2 * h
  BY WordAssumption
<1>2. \A a, b \in Nat : a < b => a % b = a /\ (a + b) % b = a
  OBVIOUS
<1>3. \A b \in Nat : b > 1 => (-1) % b = b - 1
  OBVIOUS
<1> HIDE DEF h
<1>4. ASSUME NEW x \in 0 .. h - 1 PROVE ((x + h + h) % (2 * h)) - h = x - h
  <2>1. (x + 2 * h) % (2 * h) = x
    BY <1>1, <1>2
  <2>2. x + h + h = x + 2 * h
    BY <1>1
  <2> QED
    BY <1>1, <2>1, <2>2
<1>5. ((- h - 1 + h) % (2 * h)) - h = h - 1
  <2>1. - h - 1 + h = -1
    BY <1>1
  <2>2. (-1) % (2 * h) = 2 * h - 1
    BY <1>1, <1>3
  <2> QED
    BY <1>1, <2>1, <2>2
<1>6. ASSUME NEW x \in - h .. h - 1 PROVE ((x + h) % (2 * h)) - h = x
  <2>1. x + h \in Nat /\ x + h < 2 * h /\ 2 * h \in Nat
    BY <1>1
  <2>2. (x + h) % (2 * h) = x + h
    BY <1>2, <2>1
  <2> QED
    BY <1>1, <2>2
<1> QED
  BY <1>1, <1>4, <1>5, <1>6 DEF Wrap, Words, h

(* The mask of one coefficient, for every word and every bound above zero, *)
(* the most negative word included, whose magnitude is no word.            *)
LEMMA MaskOfWord ==
  ASSUME NEW c \in Words, NEW bound \in 1 .. 2 ^ (WORD - 1) - 1
  PROVE  ct_is_out_of_bounds(c, bound) = IF c >= bound \/ c <= - bound THEN AllOnes ELSE 0
<1> DEFINE h == 2 ^ (WORD - 1)
<1>1. h \in Nat /\ h > 1 /\ c \in - h .. h - 1 /\ bound \in 1 .. h - 1
  BY WordAssumption DEF Words
<1>2. CASE c = - h
  <2>1. ct_abs(c) = - h
    BY <1>1, <1>2, WrapOver DEF ct_abs
  <2>2. Wrap((bound - 1) - ct_abs(c)) = (bound - 1) - h
    BY <1>1, <2>1, WrapOver
  <2>3. SignBit(Wrap((bound - 1) - ct_abs(c))) = 1
    BY <1>1, <2>2 DEF SignBit
  <2> QED
    BY <1>1, <1>2, <2>3, AllOnesNotZero DEF ct_is_out_of_bounds
<1>3. CASE c # - h
  <2>1. ct_abs(c) = IF c < 0 THEN - c ELSE c
    <3>1. CASE c < 0
      <4>1. c - 1 \in Words
        BY <1>1, <1>3, <3>1 DEF Words
      <4> QED
        BY <1>1, <3>1, <4>1, WrapOver DEF ct_abs
    <3> QED
      BY <1>1, <3>1 DEF ct_abs
  <2>2. (bound - 1) - ct_abs(c) \in Words
    BY <1>1, <1>3, <2>1 DEF Words
  <2>3. SignBit(Wrap((bound - 1) - ct_abs(c))) = IF c >= bound \/ c <= - bound THEN 1 ELSE 0
    BY <1>1, <2>1, <2>2, WrapOver DEF SignBit
  <2> QED
    BY <2>3, AllOnesNotZero DEF ct_is_out_of_bounds
<1> QED
  BY <1>2, <1>3

(* Both conventions for a coefficient give one verdict.                    *)
LEMMA ConventionsAgree ==
  ASSUME NEW c \in Words, NEW bound \in 1 .. 2 ^ (WORD - 1) - 1, c \in Coeffs
  PROVE  poly_check_infinity_norm([d \in Degrees |-> c], bound)
           <=> ct_is_out_of_bounds(mod_q(c), bound) = 0
<1> DEFINE centered == IF c > Q \div 2 THEN c - Q ELSE c
<1>1. mod_q(c) = centered
  <2>1. \A a, b \in Nat : a < b => a % b = a /\ (a + b) % b = a
    OBVIOUS
  <2> DEFINE h == (Q - 1) \div 2
  <2>2. h \in Nat /\ h < Q /\ c \in Nat /\ c < Q /\ Q \in Nat /\ Q > 2
    BY RingParameters DEF Coeffs
  <2>3. c > Q \div 2 <=> c + h >= Q
    BY RingParameters DEF Coeffs
  <2> HIDE DEF h
  <2>4. CASE c > Q \div 2
    <3>1. (c + h - Q) + Q = c + h /\ c + h - Q \in Nat /\ c + h - Q < Q
      BY <2>2, <2>3, <2>4
    <3>2. (c + h) % Q = c + h - Q
      BY <2>1, <2>2, <3>1
    <3>3. mod_q(c) = ((c + h) % Q) - h
      BY DEF mod_q, h
    <3> QED
      BY <2>2, <2>4, <3>2, <3>3
  <2>5. CASE ~ c > Q \div 2
    <3>1. c + h \in Nat /\ c + h < Q
      BY <2>2, <2>3, <2>5
    <3>2. (c + h) % Q = c + h
      BY <2>1, <2>2, <3>1
    <3>3. mod_q(c) = ((c + h) % Q) - h
      BY DEF mod_q, h
    <3> QED
      BY <2>2, <2>5, <3>2, <3>3
  <2> QED
    BY <2>4, <2>5
<1>2. 0 \in Degrees
  BY RingParameters DEF Degrees
<1>3. poly_check_infinity_norm([d \in Degrees |-> c], bound) <=> ct_is_out_of_bounds(centered, bound) = 0
  BY <1>2 DEF poly_check_infinity_norm
<1> QED
  BY <1>1, <1>3

(* The property is of the word alone, which does not move.                 *)
WordSpec == WordInput /\ [][UNCHANGED input]_input

(* The norm masks decide exactly, for every word width, modulus, word and  *)
(* bound (ct_abs, ct_is_out_of_bounds and poly_check_infinity_norm).       *)
THEOREM MasksExact == WordSpec => []NormMasksExact
<1>1. WordInput => NormMasksExact
  <2> SUFFICES ASSUME WordInput, NEW bound \in 1 .. 2 ^ (WORD - 1) - 1
               PROVE  /\ ct_is_out_of_bounds(input.word, bound)
                           = IF input.word >= bound \/ input.word <= - bound THEN AllOnes ELSE 0
                      /\ input.word \in Coeffs =>
                           (poly_check_infinity_norm([d \in Degrees |-> input.word], bound)
                              <=> ct_is_out_of_bounds(mod_q(input.word), bound) = 0)
    BY Zenon DEF NormMasksExact
  <2>1. PICK c \in Words : c = input.word
    BY DEF WordInput
  <2>2. ct_is_out_of_bounds(c, bound) = IF c >= bound \/ c <= - bound THEN AllOnes ELSE 0
    BY MaskOfWord
  <2>3. c \in Coeffs => (poly_check_infinity_norm([d \in Degrees |-> c], bound)
                           <=> ct_is_out_of_bounds(mod_q(c), bound) = 0)
    BY ConventionsAgree
  <2> QED
    BY <2>1, <2>2, <2>3
<1>2. WordInput /\ [UNCHANGED input]_input => WordInput'
  BY DEF WordInput
<1> QED
  BY <1>1, <1>2, PTL DEF WordSpec

(* The wiped buffer passes the norm check, for any bound above zero.       *)
LEMMA NothingAcceptable == IsAcceptable(NoProof)
<1>1. ct_is_out_of_bounds(0, REJECTION_BOUND) = 0
  BY FixedTimeAssumption, WordAssumption, MaskOfWord DEF Words
<1>2. \A k \in Rows, n \in Degrees : NoProof.z[k][n] = 0
  BY DEF NoProof, ZeroVecK
<1> QED
  BY <1>1, <1>2 DEF IsAcceptable, RejectMask, ct_check_norm_bound

LEMMA CandidateCounted ==
  ASSUME NEW r \in Calls, NEW i \in Iterations
  PROVE  CandidateOf(r, i).iteration_counter = i
  BY DEF CandidateOf, CandidateTable

-----------------------------------------------------------------------------
(* The key of a reading comes out only with that reading's helper data.    *)

LEMMA KeyNeedsOwnHelper ==
  ASSUME NEW reading, NEW h, reconstruct(reading, h) # NoKey
  PROVE  /\ reconstruct(reading, h) = seed_of(reading)
         /\ xor(h, helper_mask(reading)) = seed_of(reading)
  BY DEF reconstruct

LEMMA OneHelperOneReading ==
  ASSUME NEW r, NEW other,
         xor(enroll(other).helper_data, helper_mask(r)) = seed_of(r)
  PROVE  r = other
<1> DEFINE key    == <<"AETHEL_PUF_SEED_V1", r>>
           helper == <<"AETHEL_PUF_HELPER_V1", r>>
           key2    == <<"AETHEL_PUF_SEED_V1", other>>
           helper2 == <<"AETHEL_PUF_HELPER_V1", other>>
<1>1. "AETHEL_PUF_SEED_V1" # "AETHEL_PUF_HELPER_V1"
  OBVIOUS
<1>2. key # helper /\ key # helper2 /\ helper # key2
  BY <1>1
<1>3. enroll(other).helper_data = xor({key2}, {helper2})
  BY DEF enroll, seed_of, helper_mask
<1>4. xor(xor({key2}, {helper2}), {helper}) = {key}
  BY <1>3 DEF seed_of, helper_mask
<1>5. key \in xor({key2}, {helper2})
  BY <1>2, <1>4 DEF xor
<1>6. key = key2
  BY <1>2, <1>5 DEF xor
<1> QED
  BY <1>6

LEMMA NoHelperNoKey == \A reading : reconstruct(reading, {}) = NoKey
<1> SUFFICES ASSUME NEW reading PROVE reconstruct(reading, {}) = NoKey
  OBVIOUS
<1>1. "AETHEL_PUF_SEED_V1" # "AETHEL_PUF_HELPER_V1"
  OBVIOUS
<1>2. <<"AETHEL_PUF_SEED_V1", reading>> # <<"AETHEL_PUF_HELPER_V1", reading>>
  BY <1>1
<1>3. xor({}, helper_mask(reading)) # seed_of(reading)
  BY <1>2 DEF xor, helper_mask, seed_of
<1> QED
  BY <1>3 DEF reconstruct

-----------------------------------------------------------------------------
(* The inductive invariant.  While the loop runs the mask tells whether an *)
(* earlier iteration was acceptable, and then the buffer holds the first   *)
(* of them.                                                                *)
FirstUpTo(i) ==
  /\ proof_out = CandidateOf(request, i)
  /\ IsAcceptable(CandidateOf(request, i))
  /\ \A j \in 0 .. i - 1 : ~ IsAcceptable(CandidateOf(request, j))

LoopInv ==
  outcome = "running" =>
    /\ request \in Calls
    /\ iter \in 0 .. FIXED_ITERATION_CEILING
    /\ locals.captured_mask \in {0, AllOnes}
    /\ locals.captured_mask = 0 =>
         \A j \in 0 .. iter - 1 : ~ IsAcceptable(CandidateOf(request, j))
    /\ locals.captured_mask # 0 => \E i \in 0 .. iter - 1 : FirstUpTo(i)

KeyInv ==
  /\ \A e \in enrolled : \E reading \in Reading : e = enroll(reading)
  /\ secret # NoSecret => \E reading \in Reading : secret.key = seed_of(reading)

IInv == RejectedNeverOut /\ LoopInv /\ KeyInv /\ KeyIsEnrolled

LEMMA InitHolds == Init => IInv
<1> SUFFICES ASSUME Init PROVE IInv
  OBVIOUS
<1>1. RejectedNeverOut
  BY NothingAcceptable DEF Init, FixedTimeInit, RejectedNeverOut
<1> QED
  BY <1>1 DEF Init, FixedTimeInit, IInv, LoopInv, KeyInv, KeyIsEnrolled

LEMMA EnrollKeeps ==
  ASSUME IInv, NEW reading \in Reading, Enroll(reading)
  PROVE  IInv'
<1>1. RejectedNeverOut' /\ LoopInv'
  BY DEF IInv, Enroll, ftvars, RejectedNeverOut, LoopInv, FirstUpTo
<1>2. KeyInv' /\ KeyIsEnrolled'
  BY DEF IInv, Enroll, KeyInv, KeyIsEnrolled
<1> QED
  BY <1>1, <1>2 DEF IInv

LEMMA ReconstructKeeps ==
  ASSUME IInv, NEW reading \in Reading, Reconstruct(reading)
  PROVE  IInv'
<1>1. RejectedNeverOut' /\ LoopInv'
  BY DEF IInv, Reconstruct, ftvars, RejectedNeverOut, LoopInv, FirstUpTo
<1>2. ASSUME secret' # NoSecret
      PROVE  /\ secret'.key = seed_of(reading)
             /\ [key |-> secret'.key, helper_data |-> secret'.helper_data] \in enrolled
  <2>1. PICK h \in {e.helper_data : e \in enrolled} \cup {{}} :
          LET key == IF h = {} THEN bch_decode_rust(reading) ELSE reconstruct(reading, h)
          IN  secret' = IF key = NoKey THEN NoSecret ELSE [helper_data |-> h, key |-> key]
    BY DEF Reconstruct
  <2>2. h # {}
    BY <1>2, <2>1, NoHelperNoKey DEF bch_decode_rust
  <2>3. /\ reconstruct(reading, h) # NoKey
        /\ secret' = [helper_data |-> h, key |-> reconstruct(reading, h)]
    BY <1>2, <2>1, <2>2
  <2>4. secret'.key = seed_of(reading) /\ secret'.helper_data = h
    BY <2>3, KeyNeedsOwnHelper
  <2>5. PICK e \in enrolled : h = e.helper_data
    BY <2>2
  <2>6. PICK other \in Reading : e = enroll(other)
    BY DEF IInv, KeyInv
  <2>7. reading = other
    BY <2>3, <2>5, <2>6, KeyNeedsOwnHelper, OneHelperOneReading
  <2>8. e = [key |-> seed_of(reading), helper_data |-> h]
    BY <2>5, <2>6, <2>7 DEF enroll
  <2> QED
    BY <2>4, <2>8
<1>3. enrolled' = enrolled
  BY DEF Reconstruct
<1>4. KeyInv'
  BY <1>2, <1>3 DEF IInv, KeyInv
<1>5. KeyIsEnrolled'
  BY <1>2, <1>3 DEF KeyIsEnrolled
<1> QED
  BY <1>1, <1>4, <1>5 DEF IInv

LEMMA ProveKeeps ==
  ASSUME IInv, NEW tau \in Tau, Prove(tau)
  PROVE  IInv'
<1>1. KeyInv' /\ KeyIsEnrolled'
  BY DEF IInv, Prove, KeyInv, KeyIsEnrolled
<1>2. puf_seed_to_vector_k(secret.key) \in Secrets
  BY EnclaveAssumption DEF IInv, KeyInv, Prove
<1>3. request' \in Calls
  BY <1>2 DEF Prove, Call, Calls
<1>4. RejectedNeverOut'
  BY DEF IInv, RejectedNeverOut, Prove, Call
<1>5. iter' = 0 /\ locals'.captured_mask = 0
  BY DEF Prove, Call, Zeroed
<1>6. LoopInv'
  BY <1>3, <1>5, FixedTimeAssumption DEF LoopInv
<1> QED
  BY <1>1, <1>4, <1>6 DEF IInv

LEMMA IterateKeeps ==
  ASSUME IInv, Iterate, UNCHANGED <<enrolled, secret>>
  PROVE  IInv'
<1> DEFINE candidate == CandidateOf(request, iter)
           capture   == CaptureMask(RejectMask(candidate.z), locals.captured_mask)
<1>1. KeyInv' /\ KeyIsEnrolled'
  BY DEF IInv, KeyInv, KeyIsEnrolled
<1>2. /\ outcome = "running" /\ outcome' = "running" /\ request' = request /\ iter' = iter + 1
      /\ iter \in Nat /\ iter < FIXED_ITERATION_CEILING
      /\ request \in Calls /\ locals.captured_mask \in {0, AllOnes}
  BY FixedTimeAssumption DEF IInv, LoopInv, Iterate
<1>3. capture = IF IsAcceptable(candidate) /\ locals.captured_mask = 0 THEN AllOnes ELSE 0
  BY <1>2, Captures DEF IsAcceptable
<1>4. /\ proof_out' = IF capture = 0 THEN proof_out ELSE candidate
      /\ locals'.captured_mask = IF locals.captured_mask = 0 THEN capture ELSE locals.captured_mask
  BY DEF Iterate, ct_cond_copy, BitOr
<1>5. RejectedNeverOut'
  BY <1>2, <1>3, <1>4 DEF IInv, RejectedNeverOut
<1>6. iter' \in 0 .. FIXED_ITERATION_CEILING /\ locals'.captured_mask \in {0, AllOnes}
  BY <1>2, <1>3, <1>4, FixedTimeAssumption
<1>7. CASE locals.captured_mask # 0
  <2>1. proof_out' = proof_out /\ locals'.captured_mask = locals.captured_mask
    BY <1>3, <1>4, <1>7
  <2>2. PICK i \in 0 .. iter - 1 : FirstUpTo(i)
    BY <1>2, <1>7 DEF IInv, LoopInv
  <2>3. i \in 0 .. iter' - 1 /\ FirstUpTo(i)'
    BY <1>2, <2>1, <2>2 DEF FirstUpTo
  <2>4. LoopInv'
    BY <1>2, <1>6, <1>7, <2>1, <2>3 DEF LoopInv
  <2> QED
    BY <1>1, <1>5, <2>4 DEF IInv
<1>8. CASE locals.captured_mask = 0
  <2>1. \A j \in 0 .. iter - 1 : ~ IsAcceptable(CandidateOf(request, j))
    BY <1>2, <1>8 DEF IInv, LoopInv
  <2>2. CASE IsAcceptable(candidate)
    <3>1. proof_out' = candidate /\ locals'.captured_mask = AllOnes
      BY <1>3, <1>4, <1>8, <2>2, AllOnesNotZero
    <3>2. \E i \in 0 .. iter' - 1 : FirstUpTo(i)'
      <4>1. ASSUME NEW i, i = iter PROVE i \in 0 .. iter' - 1 /\ FirstUpTo(i)'
        BY <1>2, <2>1, <2>2, <3>1, <4>1 DEF FirstUpTo
      <4> QED
        BY <4>1
    <3>3. LoopInv'
      BY <1>2, <1>6, <3>1, <3>2, AllOnesNotZero DEF LoopInv
    <3> QED
      BY <1>1, <1>5, <3>3 DEF IInv
  <2>3. CASE ~ IsAcceptable(candidate)
    <3>1. locals'.captured_mask = 0
      BY <1>3, <1>4, <1>8, <2>3
    <3>2. \A j \in 0 .. iter' - 1 : ~ IsAcceptable(CandidateOf(request', j))
      BY <1>2, <2>1, <2>3
    <3>3. LoopInv'
      BY <1>2, <1>6, <3>1, <3>2 DEF LoopInv
    <3> QED
      BY <1>1, <1>5, <3>3 DEF IInv
  <2> QED
    BY <2>2, <2>3
<1> QED
  BY <1>7, <1>8

LEMMA ReturnKeeps ==
  ASSUME IInv, Return, UNCHANGED <<enrolled, secret>>
  PROVE  IInv'
<1>1. KeyInv' /\ KeyIsEnrolled'
  BY DEF IInv, KeyInv, KeyIsEnrolled
<1>2. LoopInv'
  BY DEF Return, LoopInv
<1>3. CASE locals.captured_mask # 0
  <2>1. outcome' = "Ok" /\ proof_out' = proof_out /\ request' = request
    BY <1>3 DEF Return
  <2>2. PICK i \in 0 .. iter - 1 : FirstUpTo(i)
    BY <1>3 DEF IInv, LoopInv, Return
  <2>3. i \in Iterations /\ request \in Calls
    BY <2>2, FixedTimeAssumption DEF IInv, LoopInv, Return, Iterations
  <2>4. proof_out.iteration_counter = i
    BY <2>2, <2>3, CandidateCounted DEF FirstUpTo
  <2>5. RejectedNeverOut'
    BY <2>1, <2>2, <2>4 DEF RejectedNeverOut, FirstUpTo
  <2> QED
    BY <1>1, <1>2, <2>5 DEF IInv
<1>4. CASE locals.captured_mask = 0
  <2>1. outcome' = "AllIterationsRejected" /\ proof_out' = NoProof
    BY <1>4 DEF Return
  <2>2. RejectedNeverOut'
    BY <2>1, NothingAcceptable DEF RejectedNeverOut
  <2> QED
    BY <1>1, <1>2, <2>2 DEF IInv
<1> QED
  BY <1>3, <1>4

LEMMA StepKeeps == IInv /\ [Next]_vars => IInv'
<1> SUFFICES ASSUME IInv, [Next]_vars PROVE IInv'
  OBVIOUS
<1>1. CASE UNCHANGED vars
  BY <1>1 DEF vars, ftvars, IInv, RejectedNeverOut, LoopInv, FirstUpTo, KeyInv, KeyIsEnrolled
<1>2. ASSUME NEW reading \in Reading, Enroll(reading) PROVE IInv'
  BY <1>2, EnrollKeeps
<1>3. ASSUME NEW reading \in Reading, Reconstruct(reading) PROVE IInv'
  BY <1>3, ReconstructKeeps
<1>4. ASSUME NEW tau \in Tau, Prove(tau) PROVE IInv'
  BY <1>4, ProveKeeps
<1>5. CASE Iterate /\ UNCHANGED <<enrolled, secret>>
  BY <1>5, IterateKeeps
<1>6. CASE Return /\ UNCHANGED <<enrolled, secret>>
  BY <1>6, ReturnKeeps
<1> QED
  BY <1>1, <1>2, <1>3, <1>4, <1>5, <1>6 DEF Next

(* The invariant holds in every reachable state.                           *)
THEOREM Inductive == Spec => []IInv
<1>1. Init => IInv
  BY InitHolds
<1>2. IInv /\ [Next]_vars => IInv'
  BY StepKeeps
<1> QED
  BY <1>1, <1>2, PTL DEF Spec

(* No rejected response is ever in the caller's buffer, and Ok means a     *)
(* response of this call (enclave_plp_prove_fixed_time).                   *)
THEOREM RejectedWithheld == Spec => []RejectedNeverOut
<1>1. IInv => RejectedNeverOut
  BY DEF IInv
<1> QED
  BY <1>1, Inductive, PTL

(* No reading, noisy or another device's, yields a wrong key               *)
(* (BchFuzzyExtractor::reconstruct).                                       *)
THEOREM KeyAuthentic == Spec => []KeyIsEnrolled
<1>1. IInv => KeyIsEnrolled
  BY DEF IInv
<1> QED
  BY <1>1, Inductive, PTL

-----------------------------------------------------------------------------
(* The steps of the promise.                                               *)

LEMMA LeastIsFirst ==
  ASSUME NEW i \in Iterations, request \in Calls, FirstUpTo(i)
  PROVE  /\ Promise!Good(request) # {}
         /\ Promise!Least(Promise!Good(request)) = i
<1> DEFINE good == Promise!Good(request)
<1>1. good \subseteq Int
  BY FixedTimeAssumption DEF Promise!Good
<1>2. i \in good
  BY FixedTimeAssumption DEF Promise!Good, FirstUpTo, Iterations
<1>3. \A j \in good : i <= j
  BY FixedTimeAssumption DEF Promise!Good, FirstUpTo, Iterations
<1>4. \A j \in good : (\A k \in good : j <= k) => j = i
  BY <1>1, <1>2, <1>3
<1> HIDE DEF good
<1>5. (CHOOSE j \in good : \A k \in good : j <= k) = i
  BY <1>2, <1>3, <1>4
<1> QED
  BY <1>2, <1>5 DEF Promise!Least, good

LEMMA StepImplements == IInv /\ [Next]_vars => [Promise!Next]_(Promise!absvars)
<1> SUFFICES ASSUME IInv, [Next]_vars PROVE Promise!Next \/ UNCHANGED Promise!absvars
  OBVIOUS
<1>1. ASSUME UNCHANGED ftvars PROVE UNCHANGED Promise!absvars
  BY <1>1 DEF ftvars, Promise!absvars
<1>2. ASSUME NEW tau \in Tau, Prove(tau) PROVE Promise!Next
  <2>1. puf_seed_to_vector_k(secret.key) \in Secrets
    BY <1>2, EnclaveAssumption DEF IInv, KeyInv, Prove
  <2>2. Promise!Ask
    BY <1>2, <2>1 DEF Promise!Ask, Prove, Call, Calls
  <2> QED
    BY <2>2 DEF Promise!Next
<1>3. CASE Iterate
  BY <1>3 DEF Iterate, Promise!absvars
<1>4. CASE Return
  <2>1. iter = FIXED_ITERATION_CEILING /\ request \in Calls /\ outcome = "running" /\ request' = request
    BY <1>4 DEF Return, IInv, LoopInv
  <2>2. CASE locals.captured_mask # 0
    <3>1. PICK i \in 0 .. iter - 1 : FirstUpTo(i)
      BY <2>1, <2>2 DEF IInv, LoopInv
    <3>2. i \in Iterations
      BY <2>1 DEF Iterations
    <3>3. Promise!Good(request) # {} /\ Promise!Least(Promise!Good(request)) = i
      BY <2>1, <3>1, <3>2, LeastIsFirst
    <3>4. outcome' = "Ok" /\ proof_out' = CandidateOf(request, i)
      BY <1>4, <2>2, <3>1 DEF Return, FirstUpTo
    <3>5. Promise!Answer
      BY <2>1, <3>3, <3>4 DEF Promise!Answer
    <3> QED
      BY <3>5 DEF Promise!Next
  <2>3. CASE locals.captured_mask = 0
    <3>1. \A j \in 0 .. iter - 1 : ~ IsAcceptable(CandidateOf(request, j))
      BY <2>1, <2>3 DEF IInv, LoopInv
    <3>2. Promise!Good(request) = {}
      BY <2>1, <3>1 DEF Promise!Good
    <3>3. outcome' = "AllIterationsRejected" /\ proof_out' = NoProof
      BY <1>4, <2>3 DEF Return
    <3>4. Promise!Answer
      BY <2>1, <3>2, <3>3 DEF Promise!Answer
    <3> QED
      BY <3>4 DEF Promise!Next
  <2> QED
    BY <2>2, <2>3
<1> QED
  BY <1>1, <1>2, <1>3, <1>4 DEF Next, vars, Enroll, Reconstruct, ftvars

LEMMA InitImplements == Init => Promise!Init
  BY DEF Init, FixedTimeInit, Promise!Init

(* Up to liveness, the fixed-time loop of a device does what               *)
(* FirstAcceptable promises: every answer is the first acceptable          *)
(* candidate, or nothing and an error.                                     *)
THEOREM LoopImplementsPromise == Spec => Promise!Init /\ [][Promise!Next]_(Promise!absvars)
<1>1. IInv /\ [Next]_vars => [Promise!Next]_(Promise!absvars)
  BY StepImplements
<1>2. Init => Promise!Init
  BY InitImplements
<1> QED
  BY <1>1, <1>2, Inductive, PTL DEF Spec

-----------------------------------------------------------------------------
(* Folds.                                                                   *)

(* Every nonempty set of naturals has a least member.                      *)
LEMMA LeastNatural ==
  ASSUME NEW S, S \subseteq Nat, S # {}
  PROVE  \E i \in S : \A j \in S : i <= j
<1> DEFINE lt == OpToRel(<, Nat)
<1>1. \E i \in S : \A j \in S : ~ (<<j, i>> \in lt)
  BY NatLessThanWellFounded, WFMin
<1>2. \A i, j \in S : <<j, i>> \in lt <=> j < i
  BY DEF OpToRel
<1> HIDE DEF lt
<1>3. PICK i \in S : \A j \in S : ~ (j < i)
  BY <1>1, <1>2, Zenon
<1> QED
  BY <1>3

LEMMA OneLess ==
  ASSUME NEW D, IsFiniteSet(D), NEW s \in SUBSET D, NEW x \in s
  PROVE  s \ {x} \in SUBSET D /\ Cardinality(s) \in Nat /\ Cardinality(s \ {x}) \in Nat
         /\ Cardinality(s \ {x}) = Cardinality(s) - 1
<1>1. IsFiniteSet(s)
  BY FS_Subset
<1> QED
  BY <1>1, FS_RemoveElement, FS_CardinalityType

(* The recursion of a fold: it removes a chosen member and applies F to it *)
(* and to the result for the rest.                                         *)
Folds(g, D, base, F, ch) ==
  \A s \in SUBSET D : g[s] = IF s = {} THEN base ELSE F[ch[s]][g[s \ {ch[s]}]]

FoldData(D, T, base, F, ch) ==
  /\ IsFiniteSet(D) /\ base \in T /\ F \in [D -> [T -> T]]
  /\ \A s \in SUBSET D : s # {} => ch[s] \in s

LEMMA FoldExists ==
  ASSUME NEW D, NEW T, NEW base, NEW F, NEW ch, FoldData(D, T, base, F, ch)
  PROVE  \E g \in [SUBSET D -> T] : Folds(g, D, base, F, ch)
<1> USE DEF FoldData
<1> DEFINE Next1(g, s) == IF s = {} THEN base ELSE F[ch[s]][g[s \ {ch[s]}]]
           Good(g, n) == \A s \in SUBSET D : Cardinality(s) <= n => g[s] = Next1(g, s)
           Bad == {n \in Nat : ~ \E g \in [SUBSET D -> T] : Good(g, n)}
<1>1. \A s \in SUBSET D : IsFiniteSet(s) /\ Cardinality(s) \in Nat /\ (Cardinality(s) = 0 <=> s = {})
  BY FS_Subset, FS_CardinalityType, FS_EmptySet
<1>2. 0 \notin Bad
  <2>1. [s \in SUBSET D |-> base] \in [SUBSET D -> T]
    OBVIOUS
  <2>2. Good([s \in SUBSET D |-> base], 0)
    BY <1>1
  <2> QED
    BY <2>1, <2>2
<1>3. ASSUME NEW n \in Nat, n \notin Bad PROVE n + 1 \notin Bad
  <2>1. PICK g \in [SUBSET D -> T] : Good(g, n)
    BY <1>3
  <2> DEFINE h == [s \in SUBSET D |-> Next1(g, s)]
  <2>2. h \in [SUBSET D -> T]
    <3>1. ASSUME NEW s \in SUBSET D, s # {} PROVE F[ch[s]][g[s \ {ch[s]}]] \in T
      BY <3>1
    <3> QED
      BY <3>1
  <2>3. \A s \in SUBSET D : Cardinality(s) <= n => h[s] = g[s]
    BY <2>1
  <2>4. ASSUME NEW s \in SUBSET D, Cardinality(s) <= n + 1 PROVE h[s] = Next1(h, s)
    <3>1. CASE s = {}
      BY <3>1
    <3>2. CASE s # {}
      <4>1. s \ {ch[s]} \in SUBSET D /\ Cardinality(s \ {ch[s]}) <= n
        BY <2>4, <3>2, OneLess
      <4>2. h[s \ {ch[s]}] = g[s \ {ch[s]}]
        BY <2>3, <4>1
      <4> QED
        BY <3>2, <4>2
    <3> QED
      BY <3>1, <3>2
  <2>5. Good(h, n + 1)
    BY <2>4
  <2> HIDE DEF h, Good
  <2> QED
    BY <2>2, <2>5
<1>A. Bad \subseteq Nat
  OBVIOUS
<1>B. ASSUME Bad = {}, NEW n \in Nat PROVE \E g \in [SUBSET D -> T] : Good(g, n)
  BY <1>B
<1> HIDE DEF Good, Bad
<1>4. Bad = {}
  <2>1. SUFFICES ASSUME Bad # {} PROVE FALSE
    OBVIOUS
  <2>2. PICK m \in Bad : \A j \in Bad : m <= j
    BY <1>A, <2>1, LeastNatural
  <2>3. m \in Nat /\ m # 0
    BY <1>2, <1>A, <2>2
  <2>4. m - 1 \in Nat /\ m - 1 < m /\ (m - 1) + 1 = m
    BY <2>3
  <2>5. m - 1 \notin Bad
    BY <2>2, <2>3, <2>4
  <2>6. (m - 1) + 1 \notin Bad
    BY <1>3, <2>4, <2>5
  <2> QED
    BY <2>2, <2>4, <2>6
<1>5. Cardinality(D) \in Nat
  BY FS_CardinalityType
<1>6. PICK g \in [SUBSET D -> T] : Good(g, Cardinality(D))
  BY <1>4, <1>5, <1>B
<1>7. \A s \in SUBSET D : Cardinality(s) <= Cardinality(D)
  BY FS_Subset
<1> QED
  BY <1>6, <1>7 DEF Good, Folds

(* What holds of the base and is kept by every step holds of the fold.     *)
LEMMA FoldInduction ==
  ASSUME NEW D, IsFiniteSet(D), NEW T, NEW f, f[{}] \in T,
         NEW ch, \A s \in SUBSET D : s # {} => ch[s] \in s,
         \A s \in SUBSET D : s # {} /\ f[s \ {ch[s]}] \in T => f[s] \in T
  PROVE  f[D] \in T
<1> DEFINE Bad == {n \in Nat : \E s \in SUBSET D : Cardinality(s) = n /\ f[s] \notin T}
<1>1. SUFFICES ASSUME f[D] \notin T PROVE FALSE
  OBVIOUS
<1>2. Cardinality(D) \in Bad
  BY <1>1, FS_CardinalityType
<1>3. PICK n \in Bad : \A m \in Bad : n <= m
  BY <1>2, LeastNatural
<1>4. PICK s \in SUBSET D : Cardinality(s) = n /\ f[s] \notin T
  BY <1>3
<1>5. s # {} /\ f[s \ {ch[s]}] \notin T
  BY <1>4
<1>6. Cardinality(s \ {ch[s]}) \in Bad /\ Cardinality(s \ {ch[s]}) < n
  BY <1>4, <1>5, OneLess
<1> HIDE DEF Bad
<1>7. n \in Nat /\ Cardinality(s \ {ch[s]}) \in Nat
  BY <1>3, <1>4, <1>5, OneLess DEF Bad
<1> QED
  BY <1>3, <1>6, <1>7

-----------------------------------------------------------------------------
(* Congruence.                                                             *)
Cong(a, b, m) == \E k \in Int : a = b + k * m

LEMMA CongSums ==
  ASSUME NEW m \in Int, NEW a \in Int, NEW b \in Int, NEW c \in Int, NEW d \in Int,
         Cong(a, b, m), Cong(c, d, m)
  PROVE  Cong(a + c, b + d, m) /\ Cong(a - c, b - d, m)
<1>1. PICK k \in Int : a = b + k * m
  BY DEF Cong
<1>2. PICK l \in Int : c = d + l * m
  BY DEF Cong
<1>3. a + c = (b + d) + (k + l) * m /\ a - c = (b - d) + (k - l) * m
  BY <1>1, <1>2
<1>4. k + l \in Int /\ k - l \in Int
  OBVIOUS
<1> QED
  BY <1>3, <1>4 DEF Cong

LEMMA CongProducts ==
  ASSUME NEW m \in Int, NEW a \in Int, NEW b \in Int, NEW c \in Int, NEW d \in Int,
         Cong(a, b, m), Cong(c, d, m)
  PROVE  Cong(a * c, b * d, m)
<1>1. PICK k \in Int : a = b + k * m
  BY DEF Cong
<1>2. PICK l \in Int : c = d + l * m
  BY DEF Cong
<1>3. a * c = b * d + (b * l + k * d + k * l * m) * m
  <2>1. a * c = (b + k * m) * (d + l * m)
    BY <1>1, <1>2
  <2>2. (b + k * m) * (d + l * m) = b * d + (b * l + k * d + k * l * m) * m
    OBVIOUS
  <2> QED
    BY <2>1, <2>2
<1>4. b * l + k * d + k * l * m \in Int
  OBVIOUS
<1> QED
  BY <1>3, <1>4 DEF Cong

LEMMA CongScale ==
  ASSUME NEW m \in Int, NEW a \in Int, NEW b \in Int, NEW c \in Int, Cong(a, b, m)
  PROVE  Cong(a * c, b * c, m)
<1>1. PICK k \in Int : a = b + k * m
  BY DEF Cong
<1>2. a * c = b * c + (k * c) * m /\ k * c \in Int
  BY <1>1
<1> QED
  BY <1>2 DEF Cong

LEMMA CongEquivalence ==
  ASSUME NEW m \in Int, NEW a \in Int, NEW b \in Int, NEW c \in Int
  PROVE  /\ Cong(a, a, m)
         /\ Cong(a, b, m) => Cong(b, a, m)
         /\ Cong(a, b, m) /\ Cong(b, c, m) => Cong(a, c, m)
<1>1. Cong(a, a, m)
  <2>1. a = a + 0 * m /\ 0 \in Int
    OBVIOUS
  <2> QED
    BY <2>1 DEF Cong
<1>2. ASSUME Cong(a, b, m) PROVE Cong(b, a, m)
  <2>1. PICK k \in Int : a = b + k * m
    BY <1>2 DEF Cong
  <2>2. b = a + (- k) * m /\ - k \in Int
    BY <2>1
  <2> QED
    BY <2>2 DEF Cong
<1>3. ASSUME Cong(a, b, m), Cong(b, c, m) PROVE Cong(a, c, m)
  <2>1. PICK k \in Int : a = b + k * m
    BY <1>3 DEF Cong
  <2>2. PICK l \in Int : b = c + l * m
    BY <1>3 DEF Cong
  <2>3. a = c + (k + l) * m /\ k + l \in Int
    BY <2>1, <2>2
  <2> QED
    BY <2>3 DEF Cong
<1> QED
  BY <1>1, <1>2, <1>3

LEMMA CongResidue ==
  ASSUME NEW m \in Nat, m > 0, NEW a \in Int
  PROVE  Cong(a % m, a, m) /\ a % m \in 0 .. m - 1
<1>1. a = (a \div m) * m + (a % m) /\ a \div m \in Int /\ a % m \in 0 .. m - 1
  OBVIOUS
<1>2. a % m = a + (- (a \div m)) * m /\ - (a \div m) \in Int
  BY <1>1
<1> QED
  BY <1>1, <1>2 DEF Cong

(* Congruent residues are equal.                                           *)
LEMMA CongUnique ==
  ASSUME NEW m \in Nat, m > 0, NEW a \in 0 .. m - 1, NEW b \in 0 .. m - 1, Cong(a, b, m)
  PROVE  a = b
<1>1. PICK k \in Int : a = b + k * m
  BY DEF Cong
<1>2. CASE k >= 1
  <2>1. k * m >= m
    BY <1>2
  <2> QED
    BY <1>1, <2>1
<1>3. CASE k <= -1
  <2>1. k * m <= - m
    BY <1>3
  <2> QED
    BY <1>1, <2>1
<1>4. CASE k = 0
  BY <1>1, <1>4
<1> QED
  BY <1>2, <1>3, <1>4

(* Induction over the subsets of a finite set.                             *)
LEMMA SubsetInduction ==
  ASSUME NEW D, IsFiniteSet(D), NEW R,
         \A S \in SUBSET D : (\A a \in S : S \ {a} \in R) => S \in R
  PROVE  \A S \in SUBSET D : S \in R
<1> DEFINE Bad == {n \in Nat : \E S \in SUBSET D : Cardinality(S) = n /\ S \notin R}
<1>1. Bad \subseteq Nat
  OBVIOUS
<1>2. SUFFICES Bad = {}
  <2>1. \A S \in SUBSET D : Cardinality(S) \in Nat
    BY FS_Subset, FS_CardinalityType
  <2> QED
    BY <2>1
<1>3. SUFFICES ASSUME Bad # {} PROVE FALSE
  OBVIOUS
<1>4. PICK n \in Bad : \A k \in Bad : n <= k
  <2> HIDE DEF Bad
  <2> QED
    BY <1>1, <1>3, LeastNatural
<1>5. PICK S \in SUBSET D : Cardinality(S) = n /\ S \notin R
  OBVIOUS
<1>6. PICK a \in S : S \ {a} \notin R
  BY <1>5
<1>7. /\ S \ {a} \in SUBSET D /\ Cardinality(S \ {a}) \in Nat /\ n \in Nat
      /\ Cardinality(S \ {a}) = n - 1
  BY <1>5, OneLess
<1>8. Cardinality(S \ {a}) \in Bad
  BY <1>6, <1>7
<1> HIDE DEF Bad
<1>9. n <= Cardinality(S \ {a})
  BY <1>4, <1>8
<1> QED
  BY <1>7, <1>9

(* Induction along the degrees.                                            *)
LEMMA DegreeInduction ==
  ASSUME NEW S, 0 \in S, \A n \in Degrees : n \in S => n + 1 \in S
  PROVE  N \in S
<1> DEFINE Bad == {n \in 0 .. N : n \notin S}
<1>1. Bad \subseteq Nat /\ N \in Nat /\ N > 0
  BY RingParameters
<1>2. SUFFICES ASSUME N \notin S PROVE FALSE
  OBVIOUS
<1>3. Bad # {}
  BY <1>1, <1>2
<1>4. PICK m \in Bad : \A j \in Bad : m <= j
  <2> HIDE DEF Bad
  <2> QED
    BY <1>1, <1>3, LeastNatural
<1>5. m \in 1 .. N /\ m \notin S
  BY <1>1
<1>6. m - 1 \in 0 .. N /\ m - 1 \in Degrees /\ (m - 1) + 1 = m /\ m - 1 < m
  BY <1>1, <1>5 DEF Degrees
<1>7. m - 1 \notin S
  BY <1>5, <1>6
<1>8. m - 1 \in Bad
  BY <1>6, <1>7
<1> HIDE DEF Bad
<1>9. m <= m - 1
  BY <1>4, <1>8
<1> QED
  BY <1>1, <1>5, <1>9

(* The running sums of the coefficients of h, lowest degree first.         *)
IntPoly == [Degrees -> Int]

Running(P, h) ==
  /\ P \in [0 .. N -> Int] /\ P[0] = 0
  /\ \A i \in Degrees : P[i + 1] = P[i] + h[i]

LEMMA DegreesAre == /\ N \in Nat /\ N > 0 /\ 0 \in Degrees /\ IsFiniteSet(Degrees)
                    /\ \A i \in Degrees : i \in Int /\ 0 <= i /\ i < N /\ i \in 0 .. N /\ i + 1 \in 0 .. N
                    /\ \A i \in Int : 0 <= i /\ i < N => i \in Degrees
<1>1. IsFiniteSet(Degrees)
  BY RingParameters, FS_Interval DEF Degrees
<1> QED
  BY <1>1, RingParameters DEF Degrees

(* The sums of the members of every subset of D.                           *)
SubsetSums(f, D, h) ==
  /\ f[{}] = 0
  /\ \A s \in SUBSET D : f[s] \in Int
  /\ \A s \in SUBSET D : \A x \in s : f[s] = h[x] + f[s \ {x}]

Overlap(k) == {i \in Degrees : k - i \in Degrees}

Crossed(a, b, k) == [i \in Overlap(k) |-> a[i] * b[k - i]]

(* A convolution sum adds its terms, in whichever order.                   *)
LEMMA ConvolutionSums ==
  ASSUME NEW a \in IntPoly, NEW b \in IntPoly, NEW k \in Int
  PROVE  \E f : /\ SubsetSums(f, Overlap(k), Crossed(a, b, k))
                /\ MapThenSumSet(LAMBDA i : a[i] * b[k - i], {i \in Degrees : k - i \in Degrees})
                     = f[Overlap(k)]
<1> DEFINE D     == {i \in Degrees : k - i \in Degrees}
           ch    == [s \in SUBSET D |-> CHOOSE x \in s : TRUE]
           F     == [x \in D |-> [t \in Int |-> a[x] * b[k - x] + t]]
           Eq(f) == f = [s \in SUBSET D |-> IF s = {} THEN 0
                           ELSE a[CHOOSE x \in s : TRUE] * b[k - (CHOOSE x \in s : TRUE)]
                                  + f[s \ {CHOOSE x \in s : TRUE}]]
<1>1. IsFiniteSet(D)
  BY DegreesAre, FS_Subset
<1>2. \A s \in SUBSET D : s # {} => ch[s] \in s
  OBVIOUS
<1>3. ASSUME NEW x \in D, NEW t \in Int PROVE a[x] * b[k - x] + t \in Int /\ a[x] * b[k - x] \in Int
  <2>1. a[x] \in Int /\ b[k - x] \in Int
    BY DEF IntPoly
  <2> QED
    BY <2>1
<1>4. F \in [D -> [Int -> Int]]
  BY <1>3
<1>5. PICK g \in [SUBSET D -> Int] : Folds(g, D, 0, F, ch)
  <2> DEFINE T == Int
             zero == 0
  <2>1. zero \in T /\ F \in [D -> [T -> T]]
    BY <1>4
  <2> HIDE DEF D, ch, F, T, zero
  <2>2. FoldData(D, T, zero, F, ch)
    BY <1>1, <1>2, <2>1 DEF FoldData
  <2>3. \E g \in [SUBSET D -> T] : Folds(g, D, zero, F, ch)
    BY <2>2, FoldExists
  <2> QED
    BY <2>3 DEF T, zero
<1>6. ASSUME NEW s \in SUBSET D, s # {}
      PROVE  F[ch[s]][g[s \ {ch[s]}]] = a[ch[s]] * b[k - ch[s]] + g[s \ {ch[s]}]
  <2>1. ch[s] \in D /\ g[s \ {ch[s]}] \in Int
    BY <1>2, <1>5, <1>6
  <2> HIDE DEF ch, D
  <2> QED
    BY <2>1
<1>7. g = [s \in SUBSET D |-> g[s]]
  OBVIOUS
<1>8. Eq(g)
  <2>1. \A s \in SUBSET D : g[s] = IF s = {} THEN 0
                           ELSE a[CHOOSE x \in s : TRUE] * b[k - (CHOOSE x \in s : TRUE)]
                                  + g[s \ {CHOOSE x \in s : TRUE}]
    BY <1>5, <1>6, ZenonT(30) DEF Folds
  <2> HIDE DEF D, ch, F
  <2> QED
    BY <1>7, <2>1
<1>9. MapThenSumSet(LAMBDA i : a[i] * b[k - i], D) = (CHOOSE f : Eq(f))[D]
  BY Zenon DEF MapThenSumSet, MapThenFoldSet
<1> HIDE DEF Eq
<1>10. PICK f : Eq(f) /\ MapThenSumSet(LAMBDA i : a[i] * b[k - i], D) = f[D]
  BY <1>8, <1>9, Zenon
<1>11. f[{}] = 0
  <2>1. {} \in SUBSET D
    OBVIOUS
  <2> QED
    BY <1>10, <2>1, Zenon DEF Eq
<1>12. \A s \in SUBSET D : s # {} => f[s] = a[ch[s]] * b[k - ch[s]] + f[s \ {ch[s]}]
  BY <1>10 DEF Eq
<1> DEFINE h  == Crossed(a, b, k)
           R  == {s \in SUBSET D : /\ f[s] \in Int
                                   /\ \A x \in s : f[s \ {x}] \in Int /\ f[s] = h[x] + f[s \ {x}]}
<1>13. \A x \in D : h[x] = a[x] * b[k - x] /\ h[x] \in Int
  BY <1>3 DEF Crossed, Overlap
<1>14. ASSUME NEW s \in SUBSET D, s # {} PROVE ch[s] \in s /\ f[s] = h[ch[s]] + f[s \ {ch[s]}]
  <2>1. ch[s] \in s /\ ch[s] \in D
    BY <1>2, <1>14
  <2>2. f[s] = a[ch[s]] * b[k - ch[s]] + f[s \ {ch[s]}]
    BY <1>12, <1>14
  <2> HIDE DEF D, ch, h
  <2> QED
    BY <1>13, <2>1, <2>2
<1>D. D = Overlap(k) /\ h = Crossed(a, b, k)
  BY DEF Overlap
<1> HIDE DEF D, ch, F, h
<1>15. ASSUME NEW s \in SUBSET D, \A x \in s : s \ {x} \in R PROVE s \in R
  <2>1. CASE s = {}
    BY <1>11, <2>1
  <2>2. CASE s # {}
    <3>1. PICK c : c = ch[s]
      OBVIOUS
    <3>2. c \in s /\ f[s] = h[c] + f[s \ {c}]
      BY <1>14, <2>2, <3>1
    <3>3. h[c] \in Int /\ f[s \ {c}] \in Int
      BY <1>13, <1>15, <3>2
    <3>4. f[s] \in Int
      BY <3>2, <3>3
    <3>5. ASSUME NEW x \in s PROVE f[s] = h[x] + f[s \ {x}]
      <4>1. CASE x = c
        BY <3>2, <4>1
      <4>2. CASE x # c
        <5>1. x \in s \ {c} /\ c \in s \ {x} /\ (s \ {c}) \ {x} = (s \ {x}) \ {c}
          BY <3>2, <4>2
        <5>2. f[s \ {c}] = h[x] + f[(s \ {c}) \ {x}]
          BY <1>15, <3>2, <5>1
        <5>3. f[s \ {x}] = h[c] + f[(s \ {x}) \ {c}] /\ f[(s \ {x}) \ {c}] \in Int
          BY <1>15, <5>1
        <5>4. h[x] \in Int
          BY <1>13
        <5>5. PICK u, v, w : u = h[c] /\ v = h[x] /\ w = f[(s \ {x}) \ {c}]
          OBVIOUS
        <5>6. u \in Int /\ v \in Int /\ w \in Int
          BY <3>3, <5>3, <5>4, <5>5
        <5>7. f[s] = u + (v + w) /\ f[s \ {x}] = u + w
          BY <3>2, <5>1, <5>2, <5>3, <5>5
        <5>8. u + (v + w) = v + (u + w)
          BY <5>6
        <5> QED
          BY <5>5, <5>7, <5>8
      <4> QED
        BY <4>1, <4>2
    <3>6. \A x \in s : f[s \ {x}] \in Int
      BY <1>15
    <3> QED
      BY <3>4, <3>5, <3>6
  <2> QED
    BY <2>1, <2>2
<1>R. \A s \in SUBSET D : s \in R => f[s] \in Int /\ \A x \in s : f[s] = h[x] + f[s \ {x}]
  OBVIOUS
<1> HIDE DEF R
<1>16. \A s \in SUBSET D : s \in R
  BY <1>1, <1>15, SubsetInduction
<1>17. SubsetSums(f, D, h)
  BY <1>11, <1>16, <1>R DEF SubsetSums
<1>18. MapThenSumSet(LAMBDA i : a[i] * b[k - i], {i \in Degrees : k - i \in Degrees}) = f[D]
  BY <1>10 DEF D
<1> QED
  BY <1>17, <1>18, <1>D

-----------------------------------------------------------------------------
(* mod_q lands in the centred range.                                       *)
LEMMA CentredRange == \A x \in Int : mod_q(x) \in - ((Q - 1) \div 2) .. Q \div 2
<1> SUFFICES ASSUME NEW x \in Int PROVE mod_q(x) \in - ((Q - 1) \div 2) .. Q \div 2
  OBVIOUS
<1> DEFINE h == (Q - 1) \div 2
<1>1. Q \in Nat /\ Q > 2
  BY RingParameters
<1>2. h \in Int /\ Q \div 2 \in Int /\ (Q - 1) - h <= Q \div 2
  BY <1>1
<1> HIDE DEF h
<1>3. (x + h) % Q \in 0 .. Q - 1
  BY <1>1, <1>2
<1>4. ((x + h) % Q) - h \in - h .. Q \div 2
  BY <1>1, <1>2, <1>3
<1> QED
  BY <1>4 DEF mod_q, h

LEMMA CentredIntegers == \A p \in CenteredPoly, i \in Degrees : p[i] \in Int
  BY RingParameters DEF CenteredPoly, Degrees

(* Every coefficient of a convolution is an integer.                       *)
LEMMA ConvolutionTyped ==
  ASSUME NEW a \in CenteredPoly, NEW b \in CenteredPoly, NEW k \in Int
  PROVE  MapThenSumSet(LAMBDA i : a[i] * b[k - i], {i \in Degrees : k - i \in Degrees}) \in Int
<1>1. a \in IntPoly /\ b \in IntPoly
  BY CentredIntegers DEF CenteredPoly, IntPoly
<1>2. PICK f : /\ SubsetSums(f, Overlap(k), Crossed(a, b, k))
               /\ MapThenSumSet(LAMBDA i : a[i] * b[k - i], {i \in Degrees : k - i \in Degrees})
                    = f[Overlap(k)]
  BY <1>1, ConvolutionSums
<1>3. f[Overlap(k)] \in Int
  BY <1>2 DEF SubsetSums
<1> QED
  BY <1>2, <1>3

LEMMA ProductTyped ==
  ASSUME NEW a \in CenteredPoly, NEW b \in CenteredPoly
  PROVE  poly_mul_centered(a, b) \in CenteredPoly
<1> DEFINE tmp == [k \in 0 .. 2 * N - 1 |->
                     MapThenSumSet(LAMBDA i : a[i] * b[k - i], {i \in Degrees : k - i \in Degrees})]
<1>1. \A k \in 0 .. 2 * N - 1 : tmp[k] \in Int
  <2> SUFFICES ASSUME NEW k \in 0 .. 2 * N - 1 PROVE tmp[k] \in Int
    OBVIOUS
  <2>1. k \in Int
    BY RingParameters
  <2>2. MapThenSumSet(LAMBDA i : a[i] * b[k - i], {i \in Degrees : k - i \in Degrees}) \in Int
    BY <2>1, ConvolutionTyped
  <2> QED
    BY <2>2
<1>2. poly_mul_centered(a, b) = [i \in Degrees |-> mod_q(tmp[i] - tmp[i + N])]
  BY DEF poly_mul_centered
<1> HIDE DEF tmp
<1>3. \A i \in Degrees : i \in 0 .. 2 * N - 1 /\ i + N \in 0 .. 2 * N - 1
  BY RingParameters DEF Degrees
<1>4. \A i \in Degrees : tmp[i] - tmp[i + N] \in Int
  BY <1>1, <1>3
<1> QED
  BY <1>2, <1>4, CentredRange DEF CenteredPoly

LEMMA SumTyped ==
  ASSUME NEW a \in CenteredPoly, NEW b \in CenteredPoly
  PROVE  poly_add_centered(a, b) \in CenteredPoly
<1>1. \A i \in Degrees : a[i] + b[i] \in Int
  BY CentredIntegers
<1> QED
  BY <1>1, CentredRange DEF poly_add_centered, CenteredPoly

LEMMA ZeroTyped == [d \in Degrees |-> 0] \in CenteredPoly
<1>1. 0 \in - ((Q - 1) \div 2) .. Q \div 2
  BY RingParameters
<1> QED
  BY <1>1 DEF CenteredPoly

(* The largest of finitely many numbers.                                   *)
LEMMA LargestNatural ==
  ASSUME NEW n \in Nat, NEW S \in SUBSET (0 .. n), S # {}
  PROVE  Max(S) \in S /\ \A x \in S : x <= Max(S)
<1> DEFINE M == {n - x : x \in S}
<1>1. M \subseteq Nat /\ M # {}
  <2>1. \A x \in S : n - x \in Nat
    OBVIOUS
  <2> QED
    BY <2>1
<1>2. PICK i \in M : \A j \in M : i <= j
  <2> HIDE DEF M
  <2> QED
    BY <1>1, LeastNatural
<1>3. PICK m \in S : i = n - m
  OBVIOUS
<1>4. ASSUME NEW x \in S PROVE m >= x
  <2>1. n - x \in M
    OBVIOUS
  <2>2. n - m <= n - x
    BY <1>2, <1>3, <2>1
  <2> QED
    BY <2>2
<1>5. Max(S) \in S /\ \A x \in S : Max(S) >= x
  BY <1>4, Zenon DEF Max
<1>6. \A x \in S : x \in Int
  OBVIOUS
<1> QED
  BY <1>5, <1>6

(* A nonempty set of indices has a greatest one.                           *)
LEMMA MaxIsMember ==
  ASSUME NEW n \in Nat, NEW D \in SUBSET (1 .. n), D # {}
  PROVE  Max(D) \in D
<1>1. D \in SUBSET (0 .. n)
  OBVIOUS
<1> QED
  BY <1>1, LargestNatural

(* A row of the commitment is a polynomial.                                *)
LEMMA RowTyped ==
  ASSUME NEW row \in CenteredVec, NEW y \in CenteredVec
  PROVE  FoldLeft(LAMBDA acc, j : poly_add_centered(acc, poly_mul_centered(row[j], y[j])),
                  [d \in Degrees |-> 0], [j \in 1 .. K |-> j]) \in CenteredPoly
<1> DEFINE D      == 1 .. K
           zero   == [d \in Degrees |-> 0]
           seq    == [j \in 1 .. K |-> j]
           ch     == [s \in SUBSET D |-> Max(s)]
           term(j, t) == poly_add_centered(t, poly_mul_centered(row[j], y[j]))
           F      == [j \in D |-> [t \in CenteredPoly |-> term(j, t)]]
           Eq(f)  == f = [s \in SUBSET D |-> IF s = {} THEN zero ELSE term(seq[Max(s)], f[s \ {Max(s)}])]
<1>1. IsFiniteSet(D)
  BY RingParameters, FS_Interval
<1>2. \A s \in SUBSET D : s # {} => ch[s] \in s
  BY RingParameters, MaxIsMember
<1>3. \A j \in D, t \in CenteredPoly : term(j, t) \in CenteredPoly
  BY ProductTyped, SumTyped DEF CenteredVec, Rows
<1>4. F \in [D -> [CenteredPoly -> CenteredPoly]]
  BY <1>3
<1>5. zero \in CenteredPoly
  BY ZeroTyped
<1>6. \A s \in SUBSET D : s # {} => Max(s) \in D /\ seq[Max(s)] = Max(s)
  BY <1>2
<1> HIDE DEF D, seq, zero, term
<1>7. PICK g \in [SUBSET D -> CenteredPoly] : Folds(g, D, zero, F, ch)
  <2> DEFINE T == CenteredPoly
  <2>1. zero \in T /\ F \in [D -> [T -> T]]
    BY <1>4, <1>5
  <2> HIDE DEF F, ch, T
  <2>2. FoldData(D, T, zero, F, ch)
    BY <1>1, <1>2, <2>1 DEF FoldData
  <2>3. \E g \in [SUBSET D -> T] : Folds(g, D, zero, F, ch)
    BY <2>2, FoldExists
  <2> QED
    BY <2>3 DEF T
<1>8. Eq(g)
  <2>1. ASSUME NEW s \in SUBSET D PROVE g[s] = IF s = {} THEN zero ELSE term(seq[Max(s)], g[s \ {Max(s)}])
    <3>1. CASE s = {}
      BY <1>7, <3>1 DEF Folds
    <3>2. CASE s # {}
      <4>1. g[s] = F[Max(s)][g[s \ {Max(s)}]]
        BY <1>7, <3>2 DEF Folds
      <4>2. Max(s) \in D /\ seq[Max(s)] = Max(s) /\ g[s \ {Max(s)}] \in CenteredPoly
        BY <1>6, <1>7, <3>2
      <4> QED
        BY <3>2, <4>1, <4>2
    <3> QED
      BY <3>1, <3>2
  <2>2. g = [s \in SUBSET D |-> g[s]]
    BY <1>7
  <2> QED
    BY <2>1, <2>2, Zenon
<1>9. FoldLeft(LAMBDA acc, j : term(j, acc), zero, seq) = (CHOOSE f : Eq(f))[D]
  <2>1. DOMAIN seq = D
    BY DEF seq, D
  <2> QED
    BY <2>1, Zenon DEF FoldLeft, MapThenFoldSet
<1> HIDE DEF Eq
<1>10. PICK f : Eq(f) /\ FoldLeft(LAMBDA acc, j : term(j, acc), zero, seq) = f[D]
  BY <1>8, <1>9, Zenon
<1>11. \A s \in SUBSET D : f[s] = IF s = {} THEN zero ELSE term(seq[Max(s)], f[s \ {Max(s)}])
  BY <1>10, Zenon DEF Eq
<1>12. f[{}] \in CenteredPoly
  BY <1>5, <1>11
<1>13. \A s \in SUBSET D : s # {} /\ f[s \ {ch[s]}] \in CenteredPoly => f[s] \in CenteredPoly
  <2> SUFFICES ASSUME NEW s \in SUBSET D, s # {}, f[s \ {Max(s)}] \in CenteredPoly
               PROVE  f[s] \in CenteredPoly
    OBVIOUS
  <2>1. f[s] = term(Max(s), f[s \ {Max(s)}])
    BY <1>6, <1>11
  <2> QED
    BY <1>3, <1>6, <2>1
<1>14. f[D] \in CenteredPoly
  <2> DEFINE T == CenteredPoly
  <2>1. f[{}] \in T /\ \A s \in SUBSET D : s # {} /\ f[s \ {ch[s]}] \in T => f[s] \in T
    BY <1>12, <1>13
  <2> HIDE DEF ch, T
  <2>2. f[D] \in T
    BY <1>1, <1>2, <2>1, FoldInduction
  <2> QED
    BY <2>2 DEF T
<1> QED
  BY <1>10, <1>14 DEF term, zero, seq

LEMMA CommitmentTyped ==
  ASSUME NEW y \in CenteredVec, NEW tau \in Tau
  PROVE  CommitmentTo(y, tau) \in CenteredVec
<1>1. ASSUME NEW i \in Rows
      PROVE  FoldLeft(LAMBDA acc, j : poly_add_centered(acc, poly_mul_centered(derive_context_row(tau, i)[j], y[j])),
                      [d \in Degrees |-> 0], [j \in 1 .. K |-> j]) \in CenteredPoly
  <2>1. derive_context_row(tau, i) \in CenteredVec
    BY SamplerAssumption DEF derive_context_row
  <2> QED
    BY <2>1, RowTyped
<1> QED
  BY <1>1 DEF CommitmentTo, CenteredVec

(* Every candidate is a vector of centred polynomials with its iteration.  *)
LEMMA CandidateTyped ==
  ASSUME NEW r \in Calls, NEW i \in Iterations
  PROVE  CandidateOf(r, i) \in Proofs
<1> DEFINE y == MaskOf(r.tau, i)
           c == ChallengeAt(CommitmentTo(y, r.tau), r.tau)
<1>1. r.tau \in Tau /\ r.s \in CenteredVec
  BY SamplerAssumption DEF Calls
<1>2. y \in CenteredVec
  BY <1>1, SamplerAssumption DEF Iterations
<1>3. c \in CenteredPoly
  <2>1. CommitmentTo(y, r.tau) \in CenteredVec
    BY <1>1, <1>2, CommitmentTyped
  <2> QED
    BY <1>1, <2>1, SamplerAssumption
<1>4. generate_candidate_z(r.s, r.tau, i) = [k \in Rows |-> poly_add_centered(y[k], poly_mul_centered(c, r.s[k]))]
  BY DEF generate_candidate_z, sample_masking_vector, hash_to_challenge_sampling
<1> HIDE DEF y, c
<1>5. ASSUME NEW k \in Rows PROVE poly_add_centered(y[k], poly_mul_centered(c, r.s[k])) \in CenteredPoly
  <2>1. y[k] \in CenteredPoly /\ r.s[k] \in CenteredPoly
    BY <1>1, <1>2 DEF CenteredVec
  <2> QED
    BY <1>3, <2>1, ProductTyped, SumTyped
<1>6. generate_candidate_z(r.s, r.tau, i) \in CenteredVec
  BY <1>4, <1>5 DEF CenteredVec
<1>7. CandidateOf(r, i) = [z |-> generate_candidate_z(r.s, r.tau, i), iteration_counter |-> i]
  BY DEF CandidateOf, CandidateTable
<1> QED
  BY <1>6, <1>7 DEF Proofs

LEMMA NoProofTyped == NoProof \in Proofs
<1>1. ZeroVecK \in CenteredVec
  BY ZeroTyped DEF ZeroVecK, CenteredVec
<1>2. 0 \in Iterations
  BY FixedTimeAssumption DEF Iterations
<1> QED
  BY <1>1, <1>2 DEF NoProof, Proofs

LEMMA ZeroedTyped ==
  /\ Zeroed.captured_mask \in Masks
  /\ Zeroed.candidate_z \in CenteredVec
  /\ Zeroed.candidate_proof \in Proofs /\ Zeroed.dummy_buffer \in Proofs
<1>1. ZeroVecK \in CenteredVec
  BY ZeroTyped DEF ZeroVecK, CenteredVec
<1> QED
  BY <1>1, NoProofTyped DEF Zeroed, Masks

LEMMA InitTyped == Init => TypeOK
<1> SUFFICES ASSUME Init PROVE TypeOK
  OBVIOUS
<1>1. 0 \in 0 .. FIXED_ITERATION_CEILING
  BY FixedTimeAssumption
<1> QED
  BY <1>1, NoProofTyped, ZeroedTyped DEF Init, FixedTimeInit, TypeOK

LEMMA IterateTyped ==
  ASSUME IInv, TypeOK, Iterate
  PROVE  /\ proof_out' \in Proofs /\ DOMAIN locals' = DOMAIN Zeroed
         /\ locals'.captured_mask \in Masks /\ locals'.candidate_z \in CenteredVec
         /\ locals'.candidate_proof \in Proofs /\ locals'.dummy_buffer \in Proofs
         /\ iter' \in 0 .. FIXED_ITERATION_CEILING
<1> DEFINE candidate == CandidateOf(request, iter)
           capture   == CaptureMask(RejectMask(candidate.z), locals.captured_mask)
<1>1. /\ request \in Calls /\ iter \in Iterations /\ iter + 1 \in 0 .. FIXED_ITERATION_CEILING
      /\ locals.captured_mask \in {0, AllOnes}
  BY FixedTimeAssumption DEF IInv, LoopInv, Iterate, Iterations
<1>2. candidate \in Proofs
  BY <1>1, CandidateTyped
<1>3. candidate.z \in CenteredVec
  BY <1>2 DEF Proofs
<1>4. capture \in {0, AllOnes}
  BY <1>1, Captures
<1>5. /\ proof_out' = ct_cond_copy(proof_out, candidate, capture)
      /\ locals' = [captured_mask   |-> BitOr(locals.captured_mask, capture),
                    candidate_z     |-> candidate.z,
                    candidate_proof |-> candidate,
                    dummy_buffer    |-> ct_cond_copy(locals.dummy_buffer, candidate, Complement(capture))]
      /\ iter' = iter + 1
  BY DEF Iterate
<1> HIDE DEF candidate, capture
<1>6. proof_out' \in Proofs /\ locals'.dummy_buffer \in Proofs
  BY <1>2, <1>5 DEF ct_cond_copy, TypeOK
<1>7. locals'.captured_mask \in Masks
  BY <1>1, <1>4, <1>5 DEF BitOr, Masks
<1>8. DOMAIN locals' = DOMAIN Zeroed
  BY <1>5 DEF Zeroed
<1> QED
  BY <1>1, <1>2, <1>3, <1>5, <1>6, <1>7, <1>8

LEMMA StepTyped == IInv /\ TypeOK /\ [Next]_vars => TypeOK'
<1> SUFFICES ASSUME IInv, TypeOK, [Next]_vars PROVE TypeOK'
  OBVIOUS
<1>1. KeyInv'
  BY StepKeeps DEF IInv
<1>2. (\A e \in enrolled : \E reading \in Reading : e = enroll(reading))'
      /\ (secret = NoSecret \/ \E reading \in Reading : secret.key = seed_of(reading))'
  BY <1>1 DEF KeyInv
<1>3. ASSUME UNCHANGED ftvars PROVE TypeOK'
  BY <1>2, <1>3 DEF TypeOK, ftvars
<1>4. ASSUME NEW tau \in Tau, Prove(tau) PROVE TypeOK'
  <2>1. puf_seed_to_vector_k(secret.key) \in Secrets
    BY <1>4, EnclaveAssumption DEF IInv, KeyInv, Prove
  <2>2. /\ request' \in Calls /\ outcome' = "running" /\ locals' = Zeroed /\ iter' = 0
        /\ proof_out' = proof_out
    BY <1>4, <2>1 DEF Prove, Call, Calls
  <2>3. iter' \in 0 .. FIXED_ITERATION_CEILING
    BY <2>2, FixedTimeAssumption
  <2> QED
    BY <1>2, <2>2, <2>3, ZeroedTyped DEF TypeOK
<1>5. CASE Iterate /\ UNCHANGED <<enrolled, secret>>
  <2>1. request' = request /\ outcome' = outcome
    BY <1>5 DEF Iterate
  <2> QED
    BY <1>2, <1>5, <2>1, IterateTyped DEF TypeOK
<1>6. CASE Return /\ UNCHANGED <<enrolled, secret>>
  <2>1. /\ locals' = Zeroed /\ iter' = iter /\ request' = request
        /\ outcome' \in {"Ok", "AllIterationsRejected"} /\ proof_out' \in {proof_out, NoProof}
    BY <1>6 DEF Return
  <2> QED
    BY <1>2, <2>1, ZeroedTyped, NoProofTyped DEF TypeOK
<1> QED
  BY <1>3, <1>4, <1>5, <1>6 DEF Next, Enroll, Reconstruct, vars, ftvars

(* Every reachable state has its type: buffers hold centred vectors, masks *)
(* are all zeros or all ones, and the count stays within the ceiling.      *)
THEOREM Typing == Spec => []TypeOK
<1>1. Init => TypeOK
  BY InitTyped
<1>2. IInv /\ TypeOK /\ [Next]_vars => TypeOK'
  BY StepTyped
<1> QED
  BY <1>1, <1>2, Inductive, PTL DEF Spec

(* In numbers: no coefficient in the caller's buffer ever reaches the      *)
(* bound, although the loop decides it by sign masks over words that wrap  *)
(* (ct_check_norm_bound, ct_cond_copy).                                    *)
THEOREM BufferInBound ==
  Spec => [](\A k \in Rows, n \in Degrees :
               proof_out.z[k][n] < REJECTION_BOUND /\ - proof_out.z[k][n] < REJECTION_BOUND)
<1>1. ASSUME IInv, TypeOK, NEW k \in Rows, NEW n \in Degrees
      PROVE  proof_out.z[k][n] < REJECTION_BOUND /\ - proof_out.z[k][n] < REJECTION_BOUND
  <2> DEFINE c == proof_out.z[k][n]
  <2>1. c \in - ((Q - 1) \div 2) .. Q \div 2
    BY <1>1 DEF TypeOK, Proofs, CenteredVec, CenteredPoly
  <2>2. ct_is_out_of_bounds(c, REJECTION_BOUND) = 0
    BY <1>1, AllOnesNotZero DEF IInv, RejectedNeverOut, IsAcceptable, RejectMask, ct_check_norm_bound
  <2> HIDE DEF c
  <2>3. c \in Words /\ c \in Int
    BY <2>1, RingParameters, WordAssumption DEF Words
  <2>4. ~ (c >= REJECTION_BOUND \/ c <= - REJECTION_BOUND)
    BY <2>2, <2>3, MaskOfWord, FixedTimeAssumption, AllOnesNotZero
  <2>5. REJECTION_BOUND \in Int
    BY FixedTimeAssumption, WordAssumption
  <2>6. c < REJECTION_BOUND /\ - c < REJECTION_BOUND
    BY <2>3, <2>4, <2>5
  <2> QED
    BY <2>6 DEF c
<1>2. IInv /\ TypeOK =>
        \A k \in Rows, n \in Degrees :
          proof_out.z[k][n] < REJECTION_BOUND /\ - proof_out.z[k][n] < REJECTION_BOUND
  BY <1>1
<1> QED
  BY <1>2, Inductive, Typing, PTL

-----------------------------------------------------------------------------
(* Arithmetic of the ring.                                                 *)

(* The coefficient of X^j in X^0 .. X^(N-1) times b, where X^N = -1.       *)
Turned(b, j) == IF j >= 0 THEN b[j] ELSE IF j >= - N THEN - b[j + N] ELSE b[j + 2 * N]

TurnedTerms(a, b, k) == [i \in Degrees |-> a[i] * Turned(b, k - i)]

LEMMA TurnedInt ==
  ASSUME NEW b \in IntPoly, NEW j \in - (2 * N) .. N - 1
  PROVE  Turned(b, j) \in Int
<1>1. CASE j >= 0
  BY <1>1, DegreesAre DEF Turned, IntPoly
<1>2. CASE j < 0 /\ j >= - N
  <2>1. j + N \in Degrees
    BY <1>2, DegreesAre
  <2>2. b[j + N] \in Int
    BY <2>1 DEF IntPoly
  <2> QED
    BY <1>2, <2>2 DEF Turned
<1>3. CASE j < - N
  <2>1. j + 2 * N \in Degrees
    BY <1>3, DegreesAre
  <2>2. b[j + 2 * N] \in Int
    BY <2>1 DEF IntPoly
  <2> QED
    BY <1>3, <2>2, DegreesAre DEF Turned
<1> QED
  BY <1>1, <1>2, <1>3, DegreesAre

LEMMA TurnedTermsInt ==
  ASSUME NEW a \in IntPoly, NEW b \in IntPoly, NEW k \in - N .. N - 1
  PROVE  TurnedTerms(a, b, k) \in IntPoly
<1> SUFFICES ASSUME NEW i \in Degrees PROVE a[i] * Turned(b, k - i) \in Int
  BY DEF TurnedTerms, IntPoly
<1>1. k - i \in - (2 * N) .. N - 1
  BY DegreesAre
<1>2. Turned(b, k - i) \in Int /\ a[i] \in Int
  BY <1>1, TurnedInt DEF IntPoly
<1> QED
  BY <1>2

(* Both halves of the convolution are one sum of N terms.                  *)
LEMMA ProductRuns ==
  ASSUME NEW a \in IntPoly, NEW b \in IntPoly, NEW k \in Degrees
  PROVE  \E P : Running(P, TurnedTerms(a, b, k)) /\ MulSchoolbook(a, b)[k] = P[N] % Q
<1>1. k \in Int /\ k + N \in Int /\ k \in 0 .. 2 * N - 1 /\ k + N \in 0 .. 2 * N - 1 /\ 0 <= k /\ k < N
  BY DegreesAre
<1>2. PICK f : /\ SubsetSums(f, Overlap(k), Crossed(a, b, k))
               /\ MapThenSumSet(LAMBDA i : a[i] * b[k - i], {i \in Degrees : k - i \in Degrees}) = f[Overlap(k)]
  BY <1>1, ConvolutionSums
<1>3. PICK e : /\ SubsetSums(e, Overlap(k + N), Crossed(a, b, k + N))
               /\ MapThenSumSet(LAMBDA i : a[i] * b[(k + N) - i], {i \in Degrees : (k + N) - i \in Degrees})
                    = e[Overlap(k + N)]
  BY <1>1, ConvolutionSums
<1>4. MulSchoolbook(a, b)[k] = (f[Overlap(k)] - e[Overlap(k + N)]) % Q
  <2> DEFINE tmp == [n \in 0 .. 2 * N - 1 |->
                       MapThenSumSet(LAMBDA i : a[i] * b[n - i], {i \in Degrees : n - i \in Degrees})]
  <2>1. MulSchoolbook(a, b) = [i \in Degrees |-> (tmp[i] - tmp[i + N]) % Q]
    BY DEF MulSchoolbook
  <2>2. tmp[k] = f[Overlap(k)]
    BY <1>1, <1>2
  <2>3. tmp[k + N] = e[Overlap(k + N)]
    BY <1>1, <1>3
  <2> HIDE DEF tmp
  <2> QED
    BY <2>1, <2>2, <2>3
<1>5. Overlap(k) = 0 .. k /\ Overlap(k + N) = k + 1 .. N - 1
  BY DegreesAre DEF Overlap, Degrees
<1> DEFINE h == TurnedTerms(a, b, k)
           P == [n \in 0 .. N |-> IF n <= k + 1 THEN f[0 .. n - 1] ELSE f[0 .. k] - e[k + 1 .. n - 1]]
<1>6. h \in IntPoly
  <2>1. k \in - N .. N - 1
    BY DegreesAre
  <2> QED
    BY <2>1, TurnedTermsInt
<1>7. ASSUME NEW i \in Degrees PROVE i <= k => h[i] = Crossed(a, b, k)[i]
  <2>1. SUFFICES ASSUME i <= k PROVE h[i] = Crossed(a, b, k)[i]
    OBVIOUS
  <2>2. i \in Overlap(k) /\ k - i >= 0
    BY <1>1, <1>5, <2>1, DegreesAre
  <2>3. h[i] = a[i] * b[k - i]
    BY <2>2 DEF TurnedTerms, Turned
  <2> QED
    BY <2>2, <2>3 DEF Crossed
<1>8. ASSUME NEW i \in Degrees PROVE i > k => h[i] = - Crossed(a, b, k + N)[i]
  <2>1. SUFFICES ASSUME i > k PROVE h[i] = - Crossed(a, b, k + N)[i]
    OBVIOUS
  <2>2. (k - i) + N = (k + N) - i /\ (k + N) - i \in Degrees /\ k - i < 0 /\ k - i >= - N
    BY <1>1, <2>1, DegreesAre
  <2>3. h[i] = a[i] * (- b[(k + N) - i])
    <3>1. Turned(b, k - i) = - b[(k + N) - i]
      <4>1. ~ k - i >= 0
        BY <1>1, <2>1, DegreesAre
      <4> QED
        BY <2>2, <4>1 DEF Turned
    <3> QED
      BY <3>1 DEF TurnedTerms
  <2>4. Crossed(a, b, k + N)[i] = a[i] * b[(k + N) - i]
    <3>1. i \in Overlap(k + N)
      BY <2>2 DEF Overlap
    <3> QED
      BY <3>1 DEF Crossed
  <2>5. a[i] \in Int /\ b[(k + N) - i] \in Int
    BY <2>2 DEF IntPoly
  <2>6. \A x, y \in Int : x * (- y) = - (x * y)
    OBVIOUS
  <2> QED
    BY <2>3, <2>4, <2>5, <2>6
<1>9. ASSUME NEW n \in 0 .. N PROVE n <= k + 1 => f[0 .. n - 1] \in Int
  <2>1. n <= k + 1 => 0 .. n - 1 \in SUBSET Overlap(k)
    BY <1>1, <1>5
  <2> QED
    BY <1>2, <2>1 DEF SubsetSums
<1>10. f[0 .. k] \in Int
  BY <1>2, <1>5 DEF SubsetSums
<1>11. ASSUME NEW n \in 0 .. N PROVE e[k + 1 .. n - 1] \in Int
  <2>1. k + 1 .. n - 1 \in SUBSET Overlap(k + N)
    <3>1. n \in Int /\ n <= N /\ N \in Int
      BY DegreesAre
    <3> QED
      BY <1>1, <1>5, <3>1
  <2> QED
    BY <1>3, <2>1 DEF SubsetSums
<1>12. P \in [0 .. N -> Int]
  BY <1>9, <1>10, <1>11
<1>13. P[0] = 0
  <2>1. 0 \in 0 .. N /\ 0 .. 0 - 1 = {} /\ 0 <= k + 1
    BY <1>1, DegreesAre
  <2>2. f[{}] = 0
    BY <1>2 DEF SubsetSums
  <2> QED
    BY <2>1, <2>2
<1>14. ASSUME NEW i \in Degrees PROVE P[i + 1] = P[i] + h[i]
  <2>1. CASE i <= k
    <3>1. P[i + 1] = f[0 .. i] /\ P[i] = f[0 .. i - 1]
      <4>1. i \in 0 .. N /\ i + 1 \in 0 .. N /\ (i + 1) - 1 = i /\ i <= k + 1 /\ i + 1 <= k + 1
        BY <1>1, <2>1, DegreesAre
      <4> QED
        BY <4>1
    <3>2. 0 .. i \in SUBSET Overlap(k) /\ i \in 0 .. i /\ (0 .. i) \ {i} = 0 .. i - 1
      BY <1>1, <1>5, <2>1, DegreesAre
    <3>3. f[0 .. i] = Crossed(a, b, k)[i] + f[(0 .. i) \ {i}]
      BY <1>2, <3>2 DEF SubsetSums
    <3>4. h[i] \in Int /\ P[i] \in Int
      BY <1>6, <1>12, DegreesAre DEF IntPoly
    <3>5. h[i] = Crossed(a, b, k)[i]
      BY <1>7, <2>1
    <3> HIDE DEF P, h
    <3>6. P[i + 1] = h[i] + P[i]
      BY <3>1, <3>2, <3>3, <3>5
    <3> QED
      BY <3>4, <3>6
  <2>2. CASE i > k
    <3>1. P[i + 1] = f[0 .. k] - e[k + 1 .. i]
      <4>1. i + 1 \in 0 .. N /\ (i + 1) - 1 = i /\ ~ i + 1 <= k + 1
        BY <1>1, <2>2, DegreesAre
      <4> QED
        BY <4>1
    <3>2. P[i] = f[0 .. k] - e[k + 1 .. i - 1]
      <4>1. CASE i > k + 1
        <5>1. i \in 0 .. N /\ ~ i <= k + 1
          BY <1>1, <4>1, DegreesAre
        <5> QED
          BY <5>1
      <4>2. CASE i = k + 1
        <5>1. k + 1 .. i - 1 = {} /\ 0 .. i - 1 = 0 .. k
          BY <1>1, <4>2
        <5>2. e[{}] = 0
          BY <1>3 DEF SubsetSums
        <5>3. P[i] = f[0 .. i - 1]
          <6>1. i \in 0 .. N /\ i <= k + 1
            BY <1>1, <4>2, DegreesAre
          <6> QED
            BY <6>1
        <5> HIDE DEF P
        <5> QED
          <6>1. P[i] = f[0 .. k] /\ e[k + 1 .. i - 1] = 0
            BY <5>1, <5>2, <5>3, Zenon
          <6>2. \A z \in Int : z = z - 0
            OBVIOUS
          <6> QED
            BY <1>10, <6>1, <6>2, Zenon
      <4>3. i > k + 1 \/ i = k + 1
        BY <1>1, <2>2, DegreesAre
      <4> QED
        BY <4>1, <4>2, <4>3
    <3>3. k + 1 .. i \in SUBSET Overlap(k + N) /\ i \in k + 1 .. i /\ (k + 1 .. i) \ {i} = k + 1 .. i - 1
      BY <1>1, <1>5, <2>2, DegreesAre
    <3>4. e[k + 1 .. i] = Crossed(a, b, k + N)[i] + e[(k + 1 .. i) \ {i}]
      BY <1>3, <3>3 DEF SubsetSums
    <3>5. h[i] = - Crossed(a, b, k + N)[i]
      BY <1>8, <2>2
    <3>6. i \in 0 .. N /\ e[k + 1 .. i - 1] \in Int
      BY <1>11, DegreesAre
    <3>7. h[i] \in Int
      BY <1>6 DEF IntPoly
    <3>8. Crossed(a, b, k + N)[i] \in Int
      <4>1. i \in Degrees /\ (k + N) - i \in Degrees /\ i \in Overlap(k + N)
        BY <3>3 DEF Overlap
      <4>2. a[i] \in Int /\ b[(k + N) - i] \in Int
        BY <4>1 DEF IntPoly
      <4> QED
        BY <4>1, <4>2 DEF Crossed
    <3> HIDE DEF P, h
    <3>9. PICK x, y, z : x = Crossed(a, b, k + N)[i] /\ y = e[k + 1 .. i - 1] /\ z = f[0 .. k]
      OBVIOUS
    <3>10. x \in Int /\ y \in Int /\ z \in Int
      BY <1>10, <3>6, <3>8, <3>9
    <3>11. P[i + 1] = z - (x + y) /\ P[i] = z - y /\ h[i] = - x
      BY <3>1, <3>2, <3>3, <3>4, <3>5, <3>9
    <3> QED
      BY <3>10, <3>11
  <2>3. i <= k \/ i > k
    BY <1>1, DegreesAre
  <2> HIDE DEF P, h
  <2> QED
    BY <2>1, <2>2, <2>3
<1>15. P[N] = f[Overlap(k)] - e[Overlap(k + N)]
  <2>1. CASE N > k + 1
    <3>1. N \in 0 .. N /\ ~ N <= k + 1
      BY <1>1, <2>1, DegreesAre
    <3>2. P[N] = f[0 .. k] - e[k + 1 .. N - 1]
      BY <3>1
    <3> QED
      BY <1>5, <3>2
  <2>2. CASE N = k + 1
    <3>1. P[N] = f[0 .. k] /\ k + 1 .. N - 1 = {}
      <4>1. N \in 0 .. N /\ N <= k + 1 /\ N - 1 = k
        BY <1>1, <2>2, DegreesAre
      <4>2. k + 1 .. N - 1 = {}
        BY <1>1, <2>2, DegreesAre
      <4> QED
        BY <4>1, <4>2
    <3>2. e[{}] = 0
      BY <1>3 DEF SubsetSums
    <3> HIDE DEF P
    <3> QED
      <4>1. P[N] = f[Overlap(k)] /\ e[Overlap(k + N)] = 0 /\ f[Overlap(k)] \in Int
        BY <1>5, <1>10, <3>1, <3>2, Zenon
      <4>2. \A z \in Int : z = z - 0
        OBVIOUS
      <4> QED
        BY <4>1, <4>2, Zenon
  <2>3. N > k + 1 \/ N = k + 1
    BY <1>1, DegreesAre
  <2> QED
    BY <2>1, <2>2, <2>3
<1> HIDE DEF P, h
<1>16. Running(P, h)
  BY <1>12, <1>13, <1>14 DEF Running
<1> QED
  BY <1>4, <1>15, <1>16 DEF h

(* The residue class of x has a member of magnitude at most B.             *)
Near(x, B) == \E m \in Int : - B <= x - m * Q /\ x - m * Q <= B

ModulusIs == Q \in Nat /\ Q > 2 /\ Q \div 2 \in Nat /\ 2 * (Q \div 2) <= Q /\ Q <= 2 * (Q \div 2) + 1

LEMMA ModulusHolds == ModulusIs
  BY RingParameters DEF ModulusIs

LEMMA ResidueIs ==
  ASSUME NEW x \in Int
  PROVE  Cong(x % Q, x, Q) /\ x % Q \in Coeffs /\ x % Q \in Int
<1>1. Q \in Nat /\ Q > 0
  BY ModulusHolds DEF ModulusIs
<1>2. Cong(x % Q, x, Q) /\ x % Q \in 0 .. Q - 1
  BY <1>1, CongResidue
<1> QED
  BY <1>1, <1>2 DEF Coeffs

LEMMA NearCentered ==
  ASSUME NEW c \in Coeffs, NEW B \in Nat
  PROVE  Centered(c) <= B <=> Near(c, B)
<1> USE ModulusHolds DEF ModulusIs
<1>1. c \in Nat /\ c < Q
  BY DEF Coeffs
<1>2. Centered(c) <= c /\ Centered(c) <= Q - c /\ Centered(c) \in Nat
  BY <1>1 DEF Centered
<1>3. Centered(c) = c \/ Centered(c) = Q - c
  BY <1>1 DEF Centered
<1>4. ASSUME Centered(c) <= B PROVE Near(c, B)
  <2>1. CASE Centered(c) = c
    <3>1. c - 0 * Q = c
      BY <1>1
    <3>2. - B <= c - 0 * Q /\ c - 0 * Q <= B
      BY <1>1, <1>4, <2>1, <3>1
    <3>3. 0 \in Int
      OBVIOUS
    <3> QED
      BY <3>2, <3>3, Zenon DEF Near
  <2>2. CASE Centered(c) = Q - c
    <3>1. c - 1 * Q = - (Q - c) /\ 1 \in Int
      BY <1>1
    <3>2. - B <= c - 1 * Q /\ c - 1 * Q <= B
      BY <1>1, <1>2, <1>4, <2>2, <3>1
    <3>3. 1 \in Int
      OBVIOUS
    <3> QED
      BY <3>2, <3>3, Zenon DEF Near
  <2> QED
    BY <1>3, <2>1, <2>2
<1>5. ASSUME Near(c, B) PROVE Centered(c) <= B
  <2>1. PICK m \in Int : - B <= c - m * Q /\ c - m * Q <= B
    BY <1>5 DEF Near
  <2>2. CASE m <= 0
    <3>1. m * Q <= 0 /\ m * Q \in Int
      BY <2>2
    <3> QED
      BY <1>1, <1>2, <2>1, <3>1
  <2>3. CASE m >= 1
    <3>1. m * Q >= Q /\ m * Q \in Int
      BY <2>3
    <3> QED
      BY <1>1, <1>2, <2>1, <3>1
  <2> QED
    BY <2>2, <2>3
<1> QED
  BY <1>4, <1>5

LEMMA NearResidue ==
  ASSUME NEW x \in Int, NEW y \in Int, NEW B \in Nat, Near(x, B), Cong(y, x, Q)
  PROVE  Near(y, B)
<1>1. Q \in Int
  BY ModulusHolds DEF ModulusIs
<1>2. PICK m \in Int : - B <= x - m * Q /\ x - m * Q <= B
  BY DEF Near
<1>3. PICK l \in Int : y = x + l * Q
  BY DEF Cong
<1>4. y - (m + l) * Q = x - m * Q
  BY <1>1, <1>3
<1>5. m + l \in Int
  OBVIOUS
<1> QED
  BY <1>2, <1>4, <1>5 DEF Near

LEMMA NearSum ==
  ASSUME NEW x \in Int, NEW y \in Int, NEW A \in Nat, NEW B \in Nat, Near(x, A), Near(y, B)
  PROVE  Near(x + y, A + B)
<1>1. Q \in Int
  BY ModulusHolds DEF ModulusIs
<1>2. PICK m \in Int : - A <= x - m * Q /\ x - m * Q <= A
  BY DEF Near
<1>3. PICK l \in Int : - B <= y - l * Q /\ y - l * Q <= B
  BY DEF Near
<1>4. (x + y) - (m + l) * Q = (x - m * Q) + (y - l * Q) /\ x - m * Q \in Int /\ y - l * Q \in Int
  BY <1>1
<1>5. - (A + B) <= (x + y) - (m + l) * Q /\ (x + y) - (m + l) * Q <= A + B
  BY <1>2, <1>3, <1>4
<1>6. m + l \in Int
  OBVIOUS
<1> QED
  BY <1>5, <1>6 DEF Near

LEMMA NearNegated ==
  ASSUME NEW x \in Int, NEW B \in Nat, Near(x, B)
  PROVE  Near(- x, B)
<1>1. Q \in Int
  BY ModulusHolds DEF ModulusIs
<1>2. PICK m \in Int : - B <= x - m * Q /\ x - m * Q <= B
  BY DEF Near
<1>3. (- x) - (- m) * Q = - (x - m * Q) /\ x - m * Q \in Int /\ - m \in Int
  BY <1>1
<1>4. - B <= (- x) - (- m) * Q /\ (- x) - (- m) * Q <= B
  BY <1>2, <1>3
<1> QED
  BY <1>3, <1>4 DEF Near

LEMMA NearZero == \A B \in Nat : Near(0, B)
<1>1. 0 - 0 * Q = 0
  BY ModulusHolds DEF ModulusIs
<1> QED
  BY <1>1 DEF Near

(* A coefficient of a challenge is 0, 1 or -1.                             *)
LEMMA NearTimesSign ==
  ASSUME NEW p \in {1, Q - 1}, NEW x \in Int, NEW B \in Nat, Near(x, B)
  PROVE  Near(p * x, B)
<1>1. Q \in Int
  BY ModulusHolds DEF ModulusIs
<1>2. CASE p = 1
  <2>1. 1 * x = x
    OBVIOUS
  <2> QED
    BY <1>2, <2>1
<1>3. CASE p = Q - 1
  <2>1. (Q - 1) * x = - x + x * Q /\ - x \in Int /\ (Q - 1) * x \in Int
    BY <1>1
  <2>2. Cong((Q - 1) * x, - x, Q)
    BY <2>1 DEF Cong
  <2> QED
    BY <1>3, <2>1, <2>2, NearNegated, NearResidue
<1> QED
  BY <1>2, <1>3

LEMMA CenteredRange ==
  ASSUME NEW c \in Coeffs
  PROVE  Centered(c) \in 0 .. Q
<1>1. c \in Nat /\ c < Q /\ Q \in Nat
  BY ModulusHolds DEF Coeffs, ModulusIs
<1> QED
  BY <1>1 DEF Centered

(* The norm of a polynomial is its largest centred coefficient.            *)
LEMMA NormIs ==
  ASSUME NEW p \in Poly
  PROVE  /\ InfinityNorm(p) \in 0 .. Q
         /\ \A B \in Int : InfinityNorm(p) <= B <=> \A i \in Degrees : Centered(p[i]) <= B
<1> DEFINE S == {Centered(p[i]) : i \in Degrees}
<1>1. Q \in Nat
  BY ModulusHolds DEF ModulusIs
<1>2. \A i \in Degrees : Centered(p[i]) \in 0 .. Q
  BY CenteredRange DEF Poly
<1>3. S \in SUBSET (0 .. Q) /\ S # {}
  BY <1>2, DegreesAre
<1>4. InfinityNorm(p) = Max(S)
  BY DEF InfinityNorm
<1>5. Max(S) \in S /\ \A x \in S : x <= Max(S)
  <2> HIDE DEF S
  <2> QED
    BY <1>1, <1>3, LargestNatural
<1>6. ASSUME NEW B \in Int PROVE Max(S) <= B <=> \A x \in S : x <= B
  <2>1. Max(S) \in Int /\ \A x \in S : x \in Int
    BY <1>3, <1>5
  <2> HIDE DEF S
  <2> QED
    BY <1>5, <2>1
<1>7. \A B : (\A x \in S : x <= B) <=> \A i \in Degrees : Centered(p[i]) <= B
  OBVIOUS
<1> HIDE DEF S
<1> QED
  BY <1>3, <1>4, <1>5, <1>6, <1>7

LEMMA ProductInRing ==
  ASSUME NEW a \in IntPoly, NEW b \in IntPoly
  PROVE  MulSchoolbook(a, b) \in Poly
<1>1. ASSUME NEW k \in Degrees PROVE MulSchoolbook(a, b)[k] \in Coeffs
  <2>1. PICK P : Running(P, TurnedTerms(a, b, k)) /\ MulSchoolbook(a, b)[k] = P[N] % Q
    BY ProductRuns
  <2>2. P[N] \in Int
    BY <2>1, DegreesAre DEF Running
  <2> QED
    BY <2>1, <2>2, ResidueIs
<1>2. MulSchoolbook(a, b) = [k \in Degrees |-> MulSchoolbook(a, b)[k]]
  <2> DEFINE tmp == [n \in 0 .. 2 * N - 1 |->
                       MapThenSumSet(LAMBDA i : a[i] * b[n - i], {i \in Degrees : n - i \in Degrees})]
  <2>1. MulSchoolbook(a, b) = [i \in Degrees |-> (tmp[i] - tmp[i + N]) % Q]
    BY DEF MulSchoolbook
  <2> HIDE DEF tmp
  <2> QED
    BY <2>1
<1> QED
  BY <1>1, <1>2, Zenon DEF Poly

LEMMA PolyIsInt == Poly \subseteq IntPoly
  BY DEF Poly, IntPoly, Coeffs

(* The non-zero coefficients of p below degree n.                          *)
Support(p, n) == {i \in Degrees : i < n /\ p[i] # 0}

LEMMA SupportGrows ==
  ASSUME NEW p, NEW n \in Degrees
  PROVE  /\ Cardinality(Support(p, 0)) = 0
         /\ Cardinality(Support(p, n)) \in Nat
         /\ Cardinality(Support(p, n + 1)) = Cardinality(Support(p, n)) + (IF p[n] # 0 THEN 1 ELSE 0)
<1>1. Support(p, 0) = {}
  BY DegreesAre DEF Support
<1>2. IsFiniteSet(Support(p, n))
  BY DegreesAre, FS_Subset DEF Support
<1>3. n \notin Support(p, n)
  BY DegreesAre DEF Support
<1>4. Support(p, n + 1) = Support(p, n) \cup (IF p[n] # 0 THEN {n} ELSE {})
  <2>1. \A i \in Degrees : i < n + 1 <=> i < n \/ i = n
    BY DegreesAre
  <2> QED
    BY <2>1 DEF Support
<1>5. Cardinality(Support(p, n) \cup {n}) = Cardinality(Support(p, n)) + 1
  BY <1>2, <1>3, FS_AddElement
<1>6. Cardinality(Support(p, 0)) = 0
  BY <1>1, FS_EmptySet
<1>7. Cardinality(Support(p, n)) \in Nat
  BY <1>2, FS_CardinalityType
<1>8. CASE p[n] # 0
  BY <1>4, <1>5, <1>6, <1>7, <1>8
<1>9. CASE p[n] = 0
  <2>1. Support(p, n + 1) = Support(p, n)
    BY <1>4, <1>9
  <2> QED
    BY <1>6, <1>7, <1>9, <2>1
<1> QED
  BY <1>8, <1>9

(* Every coefficient of the product is near Weight * Eta.                  *)
LEMMA ProductNear ==
  ASSUME NEW c \in ChallengePolys(Weight), NEW s \in ShortPolys, NEW k \in Degrees
  PROVE  Near(MulSchoolbook(c, s)[k], Weight * Eta)
<1>1. Weight \in Nat /\ Eta \in Nat
  BY ProductParameters
<1>2. /\ c \in [Degrees -> {0, 1, Q - 1}] /\ c \in IntPoly
      /\ Cardinality({i \in Degrees : c[i] # 0}) = Weight
  BY ModulusHolds DEF ChallengePolys, ModulusIs, IntPoly
<1>3. s \in Poly /\ s \in IntPoly /\ \A i \in Degrees : Near(s[i], Eta)
  <2>1. s \in Poly /\ InfinityNorm(s) <= Eta
    BY DEF ShortPolys
  <2>2. \A i \in Degrees : Centered(s[i]) <= Eta
    BY <1>1, <2>1, NormIs
  <2>3. \A i \in Degrees : s[i] \in Coeffs
    BY <2>1 DEF Poly
  <2> QED
    BY <1>1, <2>1, <2>2, <2>3, NearCentered, PolyIsInt
<1>4. ASSUME NEW i \in Degrees PROVE Turned(s, k - i) \in Int /\ Near(Turned(s, k - i), Eta)
  <2>1. k - i \in - (2 * N) .. N - 1 /\ k - i >= - N
    BY DegreesAre
  <2>2. Turned(s, k - i) \in Int
    BY <1>3, <2>1, TurnedInt
  <2>3. CASE k - i >= 0
    <3>1. k - i \in Degrees
      BY <2>3, DegreesAre
    <3> QED
      BY <1>3, <2>2, <2>3, <3>1 DEF Turned
  <2>4. CASE ~ k - i >= 0
    <3>1. k - i + N \in Degrees
      BY <2>1, <2>4, DegreesAre
    <3>2. Near(s[k - i + N], Eta) /\ s[k - i + N] \in Int
      BY <1>3, <3>1 DEF IntPoly
    <3>3. Near(- s[k - i + N], Eta)
      BY <1>1, <3>2, NearNegated
    <3> QED
      BY <2>1, <2>2, <2>4, <3>3 DEF Turned
  <2> QED
    BY <2>3, <2>4
<1>5. PICK P : Running(P, TurnedTerms(c, s, k)) /\ MulSchoolbook(c, s)[k] = P[N] % Q
  BY <1>2, <1>3, ProductRuns
<1> DEFINE R == {n \in 0 .. N : Near(P[n], Eta * Cardinality(Support(c, n)))}
<1>6. 0 \in R
  <2>1. P[0] = 0 /\ 0 \in 0 .. N
    BY <1>5, DegreesAre DEF Running
  <2>2. Cardinality(Support(c, 0)) = 0
    BY DegreesAre, SupportGrows
  <2>3. Eta * 0 = 0
    BY <1>1
  <2> QED
    BY <2>1, <2>2, <2>3, NearZero
<1>7. ASSUME NEW n \in Degrees, n \in R PROVE n + 1 \in R
  <2>1. PICK A : A = Cardinality(Support(c, n))
    OBVIOUS
  <2>2. A \in Nat /\ Cardinality(Support(c, n + 1)) = A + (IF c[n] # 0 THEN 1 ELSE 0)
    BY <2>1, SupportGrows
  <2>3. P[n] \in Int /\ P[n + 1] = P[n] + c[n] * Turned(s, k - n) /\ n + 1 \in 0 .. N
    BY <1>5, DegreesAre DEF Running, TurnedTerms
  <2>4. Near(P[n], Eta * A) /\ Eta * A \in Nat
    BY <1>1, <1>7, <2>1, <2>2
  <2>5. CASE c[n] = 0
    <3>1. 0 * Turned(s, k - n) = 0
      BY <1>4
    <3>2. P[n + 1] = P[n] /\ Cardinality(Support(c, n + 1)) = A
      BY <2>2, <2>3, <2>5, <3>1
    <3> QED
      BY <2>3, <2>4, <3>2
  <2>6. CASE c[n] # 0
    <3>1. c[n] \in {1, Q - 1}
      BY <1>2, <2>6
    <3>2. Near(c[n] * Turned(s, k - n), Eta)
      BY <1>1, <1>4, <3>1, NearTimesSign
    <3>3. c[n] * Turned(s, k - n) \in Int
      BY <1>2, <1>4 DEF IntPoly
    <3>4. Near(P[n + 1], Eta * A + Eta)
      BY <1>1, <2>3, <2>4, <3>2, <3>3, NearSum
    <3>5. Eta * A + Eta = Eta * (A + 1)
      BY <1>1, <2>2
    <3>6. Cardinality(Support(c, n + 1)) = A + 1
      BY <2>2, <2>6
    <3> QED
      BY <2>3, <3>4, <3>5, <3>6
  <2> QED
    BY <2>5, <2>6
<1>R. \A n : n \in R => Near(P[n], Eta * Cardinality(Support(c, n)))
  OBVIOUS
<1> HIDE DEF R
<1>8. N \in R
  BY <1>6, <1>7, DegreeInduction
<1>9. Support(c, N) = {i \in Degrees : c[i] # 0}
  BY DegreesAre DEF Support
<1>10. Near(P[N], Eta * Weight) /\ Eta * Weight = Weight * Eta /\ Weight * Eta \in Nat
  <2>1. Near(P[N], Eta * Weight)
    BY <1>2, <1>8, <1>9, <1>R
  <2>2. Eta * Weight = Weight * Eta /\ Weight * Eta \in Nat
    BY <1>1
  <2> QED
    BY <2>1, <2>2
<1>11. P[N] \in Int
  BY <1>5, DegreesAre DEF Running
<1>12. Cong(P[N] % Q, P[N], Q) /\ P[N] % Q \in Int
  BY <1>11, ResidueIs
<1> QED
  BY <1>5, <1>10, <1>11, <1>12, NearResidue

LEMMA ProductBounded ==
  ASSUME NEW c \in ChallengePolys(Weight), NEW s \in ShortPolys
  PROVE  InfinityNorm(MulSchoolbook(c, s)) <= Weight * Eta
<1>1. Weight * Eta \in Nat
  BY ProductParameters
<1>2. c \in IntPoly /\ s \in IntPoly
  BY ModulusHolds, PolyIsInt DEF ChallengePolys, ShortPolys, ModulusIs, IntPoly
<1>3. MulSchoolbook(c, s) \in Poly
  BY <1>2, ProductInRing
<1>4. ASSUME NEW k \in Degrees PROVE Centered(MulSchoolbook(c, s)[k]) <= Weight * Eta
  <2>1. MulSchoolbook(c, s)[k] \in Coeffs
    BY <1>3 DEF Poly
  <2> QED
    BY <1>1, <2>1, ProductNear, NearCentered
<1> QED
  BY <1>1, <1>3, <1>4, NormIs

(* The property is of the input alone, which does not move.                *)
ProductSpec == ResponseInput /\ [][UNCHANGED input]_input

(* The product of a challenge and a short polynomial stays within          *)
(* Weight * Eta, for every degree, modulus, weight and Eta: what the code  *)
(* asserts of BETA at compile time, and both norm checks build on.         *)
THEOREM ProductWithinBound == ProductSpec => []ChallengeBound
<1>1. ResponseInput => ChallengeBound
  <2> SUFFICES ASSUME ResponseInput PROVE InfinityNorm(MulSchoolbook(input.c, input.s)) <= Weight * Eta
    BY DEF ChallengeBound
  <2>1. input.c \in ChallengePolys(Weight) /\ input.s \in ShortPolys
    BY DEF ResponseInput
  <2> QED
    BY <2>1, ProductBounded
<1>2. ChallengeBound /\ UNCHANGED input => ChallengeBound'
  BY DEF ChallengeBound
<1> QED
  BY <1>1, <1>2, PTL DEF ProductSpec

(* Running sums exist, and the last of them is the sum of h.               *)
LEMMA RunningExists ==
  ASSUME NEW h \in IntPoly
  PROVE  \E P : Running(P, h)
<1> DEFINE Upto(P, n) == /\ P \in [0 .. N -> Int] /\ P[0] = 0
                         /\ \A i \in Degrees : i < n => P[i + 1] = P[i] + h[i]
           S == {n \in 0 .. N : \E P : Upto(P, n)}
<1>1. 0 \in S
  <2>1. Upto([n \in 0 .. N |-> 0], 0)
    BY DegreesAre
  <2> QED
    BY <2>1, DegreesAre
<1>2. ASSUME NEW n \in Degrees, n \in S PROVE n + 1 \in S
  <2>1. PICK P : Upto(P, n)
    BY <1>2
  <2>2. n \in 0 .. N /\ n + 1 \in 0 .. N /\ P[n] \in Int /\ h[n] \in Int
    BY <2>1, DegreesAre DEF IntPoly
  <2> DEFINE U == [P EXCEPT ![n + 1] = P[n] + h[n]]
  <2>3. U \in [0 .. N -> Int]
    BY <2>1, <2>2
  <2>4. U[0] = 0
    BY <2>1, <2>2, DegreesAre
  <2>5. ASSUME NEW i \in Degrees, i < n + 1 PROVE U[i + 1] = U[i] + h[i]
    <3>1. i \in 0 .. N /\ i + 1 \in 0 .. N /\ i # n + 1
      BY <2>5, DegreesAre
    <3>2. CASE i = n
      BY <2>1, <2>2, <3>1, <3>2
    <3>3. CASE i # n
      <4>1. i < n /\ i + 1 # n + 1
        BY <2>5, <3>3, DegreesAre
      <4> QED
        BY <2>1, <3>1, <4>1
    <3> QED
      BY <3>2, <3>3
  <2>6. Upto(U, n + 1)
    BY <2>3, <2>4, <2>5
  <2> HIDE DEF U, Upto
  <2> QED
    BY <2>2, <2>6
<1>S. \A n : n \in S => \E P : Upto(P, n)
  OBVIOUS
<1> HIDE DEF S
<1>3. N \in S
  BY <1>1, <1>2, DegreeInduction
<1>4. PICK P : Upto(P, N)
  BY <1>3, <1>S
<1> QED
  BY <1>4, DegreesAre DEF Running

SumOver(h) == (CHOOSE P : Running(P, h))[N]

LEMMA SumRuns ==
  ASSUME NEW h \in IntPoly
  PROVE  /\ \E P : Running(P, h) /\ P[N] = SumOver(h)
         /\ SumOver(h) \in Int
<1>1. \E P : Running(P, h)
  BY RunningExists
<1>2. Running(CHOOSE P : Running(P, h), h)
  BY <1>1
<1>3. PICK P : Running(P, h) /\ P[N] = SumOver(h)
  BY <1>2 DEF SumOver
<1>4. P[N] \in Int
  BY <1>3, DegreesAre DEF Running
<1> QED
  BY <1>3, <1>4

Alike(h, g) == \A i \in Degrees : Cong(h[i], g[i], Q)

(* Sums of congruent terms are congruent, whatever sequences run them.     *)
LEMMA RunningAlike ==
  ASSUME NEW h \in IntPoly, NEW g \in IntPoly, Alike(h, g),
         NEW P, Running(P, h), NEW G, Running(G, g)
  PROVE  Cong(P[N], G[N], Q)
<1> DEFINE S == {n \in 0 .. N : Cong(P[n], G[n], Q)}
<1>0. Q \in Int /\ 0 \in Int
  BY ModulusHolds DEF ModulusIs
<1>1. 0 \in S
  <2>1. P[0] = 0 /\ G[0] = 0 /\ 0 \in 0 .. N
    BY DegreesAre DEF Running
  <2> QED
    BY <1>0, <2>1, CongEquivalence
<1>2. ASSUME NEW n \in Degrees, n \in S PROVE n + 1 \in S
  <2>1. /\ P[n] \in Int /\ G[n] \in Int /\ h[n] \in Int /\ g[n] \in Int /\ n + 1 \in 0 .. N
        /\ P[n + 1] = P[n] + h[n] /\ G[n + 1] = G[n] + g[n]
    BY DegreesAre DEF Running, IntPoly
  <2>2. Cong(P[n], G[n], Q) /\ Cong(h[n], g[n], Q)
    BY <1>2 DEF Alike
  <2>3. Cong(P[n] + h[n], G[n] + g[n], Q)
    BY <1>0, <2>1, <2>2, CongSums
  <2> QED
    BY <2>1, <2>3
<1>S. \A n : n \in S => Cong(P[n], G[n], Q)
  OBVIOUS
<1> HIDE DEF S
<1> QED
  BY <1>1, <1>2, <1>S, DegreeInduction

LEMMA RunningUnique ==
  ASSUME NEW h \in IntPoly, NEW P, Running(P, h)
  PROVE  P[N] = SumOver(h)
<1>1. PICK G : Running(G, h) /\ G[N] = SumOver(h)
  BY SumRuns
<1> DEFINE S == {n \in 0 .. N : P[n] = G[n]}
<1>2. 0 \in S
  BY <1>1, DegreesAre DEF Running
<1>3. ASSUME NEW n \in Degrees, n \in S PROVE n + 1 \in S
  BY <1>1, <1>3, DegreesAre DEF Running
<1>S. \A n : n \in S => P[n] = G[n]
  OBVIOUS
<1> HIDE DEF S
<1>4. N \in S
  BY <1>2, <1>3, DegreeInduction
<1> QED
  BY <1>1, <1>4, <1>S

LEMMA SumAlike ==
  ASSUME NEW h \in IntPoly, NEW g \in IntPoly, Alike(h, g)
  PROVE  Cong(SumOver(h), SumOver(g), Q)
<1>1. PICK P : Running(P, h) /\ P[N] = SumOver(h)
  BY SumRuns
<1>2. PICK G : Running(G, g) /\ G[N] = SumOver(g)
  BY SumRuns
<1>3. Cong(P[N], G[N], Q)
  BY <1>1, <1>2, RunningAlike
<1> QED
  BY <1>1, <1>2, <1>3

PlusTerms(h, g)  == [i \in Degrees |-> h[i] + g[i]]
TimesTerms(x, h) == [i \in Degrees |-> x * h[i]]

LEMMA SumPlus ==
  ASSUME NEW h \in IntPoly, NEW g \in IntPoly
  PROVE  PlusTerms(h, g) \in IntPoly /\ SumOver(PlusTerms(h, g)) = SumOver(h) + SumOver(g)
<1>1. PICK P : Running(P, h) /\ P[N] = SumOver(h)
  BY SumRuns
<1>2. PICK G : Running(G, g) /\ G[N] = SumOver(g)
  BY SumRuns
<1> DEFINE U == [n \in 0 .. N |-> P[n] + G[n]]
<1>3. PlusTerms(h, g) \in IntPoly
  BY DEF PlusTerms, IntPoly
<1>4. Running(U, PlusTerms(h, g))
  <2>1. U \in [0 .. N -> Int] /\ U[0] = 0
    <3>1. P[0] = 0 /\ G[0] = 0 /\ 0 \in 0 .. N /\ 0 + 0 = 0
      BY <1>1, <1>2, DegreesAre DEF Running
    <3>2. \A n \in 0 .. N : P[n] \in Int /\ G[n] \in Int
      BY <1>1, <1>2 DEF Running
    <3>3. \A n \in 0 .. N : P[n] + G[n] \in Int
      BY <3>2
    <3> QED
      BY <3>1, <3>3
  <2>2. ASSUME NEW i \in Degrees PROVE U[i + 1] = U[i] + PlusTerms(h, g)[i]
    <3>1. /\ P[i] \in Int /\ G[i] \in Int /\ h[i] \in Int /\ g[i] \in Int
          /\ P[i + 1] = P[i] + h[i] /\ G[i + 1] = G[i] + g[i]
      BY <1>1, <1>2, DegreesAre DEF Running, IntPoly
    <3>2. U[i] = P[i] + G[i] /\ U[i + 1] = P[i + 1] + G[i + 1] /\ PlusTerms(h, g)[i] = h[i] + g[i]
      BY DegreesAre DEF PlusTerms
    <3> HIDE DEF U
    <3> QED
      BY <3>1, <3>2
  <2> HIDE DEF U
  <2> QED
    BY <2>1, <2>2 DEF Running
<1>5. U[N] = P[N] + G[N]
  BY DegreesAre
<1> HIDE DEF U
<1> QED
  BY <1>1, <1>2, <1>3, <1>4, <1>5, RunningUnique

LEMMA SumTimes ==
  ASSUME NEW h \in IntPoly, NEW x \in Int
  PROVE  TimesTerms(x, h) \in IntPoly /\ SumOver(TimesTerms(x, h)) = x * SumOver(h)
<1>1. PICK P : Running(P, h) /\ P[N] = SumOver(h)
  BY SumRuns
<1> DEFINE U == [n \in 0 .. N |-> x * P[n]]
<1>3. TimesTerms(x, h) \in IntPoly
  <2>1. \A i \in Degrees : h[i] \in Int
    BY DEF IntPoly
  <2>2. \A y \in Int : x * y \in Int
    OBVIOUS
  <2> QED
    BY <2>1, <2>2 DEF TimesTerms, IntPoly
<1>4. Running(U, TimesTerms(x, h))
  <2>1. U \in [0 .. N -> Int] /\ U[0] = 0
    <3>1. P[0] = 0 /\ 0 \in 0 .. N /\ x * 0 = 0
      BY <1>1, DegreesAre DEF Running
    <3>2. \A n \in 0 .. N : P[n] \in Int
      BY <1>1 DEF Running
    <3>3. \A n \in 0 .. N : x * P[n] \in Int
      BY <3>2
    <3> QED
      BY <3>1, <3>3
  <2>2. ASSUME NEW i \in Degrees PROVE U[i + 1] = U[i] + TimesTerms(x, h)[i]
    <3>1. /\ P[i] \in Int /\ h[i] \in Int /\ P[i + 1] = P[i] + h[i]
      BY <1>1, DegreesAre DEF Running, IntPoly
    <3>2. U[i] = x * P[i] /\ U[i + 1] = x * P[i + 1] /\ TimesTerms(x, h)[i] = x * h[i]
      BY DegreesAre DEF TimesTerms
    <3>3. \A y, z \in Int : x * (y + z) = x * y + x * z
      OBVIOUS
    <3> HIDE DEF U
    <3> QED
      BY <3>1, <3>2, <3>3
  <2> HIDE DEF U
  <2> QED
    BY <2>1, <2>2 DEF Running
<1>5. U[N] = x * P[N]
  BY DegreesAre
<1> HIDE DEF U
<1> QED
  BY <1>1, <1>3, <1>4, <1>5, RunningUnique

Column(X, l) == [i \in Degrees |-> X[i][l]]
RowSums(X)    == [i \in Degrees |-> SumOver(X[i])]
ColumnSums(X) == [l \in Degrees |-> SumOver(Column(X, l))]

(* A double sum may be taken by rows or by columns.                        *)
LEMMA SumExchange ==
  ASSUME NEW X \in [Degrees -> IntPoly]
  PROVE  RowSums(X) \in IntPoly /\ ColumnSums(X) \in IntPoly /\ SumOver(RowSums(X)) = SumOver(ColumnSums(X))
<1>1. \A i \in Degrees : X[i] \in IntPoly
  OBVIOUS
<1>2. ASSUME NEW l \in Degrees PROVE Column(X, l) \in IntPoly
  <2>1. \A i \in Degrees : X[i][l] \in Int
    BY <1>1 DEF IntPoly
  <2> QED
    BY <2>1 DEF Column, IntPoly
<1>3. RowSums(X) \in IntPoly
  <2>1. \A i \in Degrees : SumOver(X[i]) \in Int
    BY <1>1, SumRuns
  <2> QED
    BY <2>1 DEF RowSums, IntPoly
<1>4. ColumnSums(X) \in IntPoly
  <2>1. \A l \in Degrees : SumOver(Column(X, l)) \in Int
    BY <1>2, SumRuns
  <2> QED
    BY <2>1 DEF ColumnSums, IntPoly
<1>5. PICK A : Running(A, RowSums(X)) /\ A[N] = SumOver(RowSums(X))
  BY <1>3, SumRuns
<1> DEFINE C(l) == CHOOSE P : Running(P, Column(X, l)) /\ P[N] = SumOver(Column(X, l))
           Slice(n) == [l \in Degrees |-> C(l)[n]]
           S == {n \in 0 .. N : SumOver(Slice(n)) = A[n]}
<1>6. ASSUME NEW l \in Degrees PROVE Running(C(l), Column(X, l)) /\ C(l)[N] = SumOver(Column(X, l))
  <2>1. \E P : Running(P, Column(X, l)) /\ P[N] = SumOver(Column(X, l))
    BY <1>2, SumRuns
  <2> QED
    BY <2>1
<1> HIDE DEF C
<1>7. ASSUME NEW n \in 0 .. N PROVE Slice(n) \in IntPoly
  <2>1. \A l \in Degrees : C(l)[n] \in Int
    BY <1>6 DEF Running
  <2> QED
    BY <2>1 DEF IntPoly
<1>8. 0 \in S
  <2>1. 0 \in 0 .. N /\ A[0] = 0 /\ Slice(0) \in IntPoly
    BY <1>5, <1>7, DegreesAre DEF Running
  <2>2. \A l \in Degrees : Slice(0)[l] = 0
    BY <1>6 DEF Running
  <2>3. Running([n \in 0 .. N |-> 0], Slice(0))
    <3>1. \A i \in Degrees : i \in 0 .. N /\ i + 1 \in 0 .. N /\ 0 \in 0 .. N /\ 0 = 0 + Slice(0)[i]
      BY <2>2, DegreesAre
    <3>2. 0 \in 0 .. N /\ [n \in 0 .. N |-> 0] \in [0 .. N -> Int]
      BY <2>1
    <3> HIDE DEF Slice
    <3> QED
      BY <3>1, <3>2 DEF Running
  <2>4. [n \in 0 .. N |-> 0][N] = 0
    BY DegreesAre
  <2> HIDE DEF Slice
  <2>5. SumOver(Slice(0)) = 0
    BY <2>1, <2>3, <2>4, RunningUnique
  <2> QED
    BY <2>1, <2>5
<1>9. ASSUME NEW n \in Degrees, n \in S PROVE n + 1 \in S
  <2>1. n \in 0 .. N /\ n + 1 \in 0 .. N /\ A[n + 1] = A[n] + SumOver(X[n])
    BY <1>5, DegreesAre DEF Running, RowSums
  <2>2. ASSUME NEW l \in Degrees PROVE Slice(n + 1)[l] = Slice(n)[l] + X[n][l]
    BY <1>6 DEF Running, Column
  <2>3. Slice(n + 1) = PlusTerms(Slice(n), X[n])
    BY <2>2 DEF PlusTerms
  <2>4. Slice(n) \in IntPoly /\ X[n] \in IntPoly
    BY <1>1, <1>7, <2>1
  <2>5. SumOver(Slice(n)) = A[n]
    BY <1>9
  <2> HIDE DEF Slice
  <2>6. SumOver(Slice(n + 1)) = A[n] + SumOver(X[n])
    BY <2>3, <2>4, <2>5, SumPlus
  <2> QED
    BY <2>1, <2>6
<1>S. \A n : n \in S => SumOver(Slice(n)) = A[n]
  OBVIOUS
<1> HIDE DEF S
<1>10. N \in S
  BY <1>8, <1>9, DegreeInduction
<1>11. Slice(N) = ColumnSums(X)
  BY <1>6 DEF ColumnSums
<1> HIDE DEF Slice
<1>12. SumOver(ColumnSums(X)) = A[N]
  BY <1>10, <1>11, <1>S
<1> QED
  BY <1>3, <1>4, <1>5, <1>12

LEMMA ProductIs ==
  ASSUME NEW a \in IntPoly, NEW b \in IntPoly, NEW k \in Degrees
  PROVE  /\ TurnedTerms(a, b, k) \in IntPoly
         /\ MulSchoolbook(a, b)[k] = SumOver(TurnedTerms(a, b, k)) % Q
         /\ Cong(MulSchoolbook(a, b)[k], SumOver(TurnedTerms(a, b, k)), Q)
<1>1. k \in - N .. N - 1
  BY DegreesAre
<1>2. TurnedTerms(a, b, k) \in IntPoly
  BY <1>1, TurnedTermsInt
<1>3. PICK P : Running(P, TurnedTerms(a, b, k)) /\ MulSchoolbook(a, b)[k] = P[N] % Q
  BY ProductRuns
<1>4. P[N] = SumOver(TurnedTerms(a, b, k))
  BY <1>2, <1>3, RunningUnique
<1>5. SumOver(TurnedTerms(a, b, k)) \in Int
  BY <1>2, SumRuns
<1> QED
  BY <1>2, <1>3, <1>4, <1>5, ResidueIs

(* Addition and subtraction of residues.                                   *)
LEMMA AddIs ==
  ASSUME NEW x \in Coeffs, NEW y \in Coeffs
  PROVE  /\ AddMod(x, y) \in Coeffs /\ SubMod(x, y) \in Coeffs
         /\ Cong(AddMod(x, y), x + y, Q) /\ Cong(SubMod(x, y), x - y, Q)
<1>1. x \in Int /\ y \in Int /\ 0 <= x /\ x < Q /\ 0 <= y /\ y < Q /\ Q \in Int
  BY ModulusHolds DEF Coeffs, ModulusIs
<1>2. AddMod(x, y) \in Coeffs /\ SubMod(x, y) \in Coeffs
  BY <1>1 DEF AddMod, SubMod, Coeffs
<1>3. \A z \in Int : z = z + 0 * Q /\ z - Q = z + (-1) * Q /\ z + Q = z + 1 * Q
  BY <1>1
<1>4. /\ AddMod(x, y) = (x + y) + 0 * Q \/ AddMod(x, y) = (x + y) + (-1) * Q
      /\ SubMod(x, y) = (x - y) + 0 * Q \/ SubMod(x, y) = (x - y) + 1 * Q
  BY <1>1 DEF AddMod, SubMod
<1>5. 0 \in Int /\ 1 \in Int /\ -1 \in Int
  OBVIOUS
<1>6. Cong(AddMod(x, y), x + y, Q)
  BY <1>4, <1>5, Zenon DEF Cong
<1>7. Cong(SubMod(x, y), x - y, Q)
  BY <1>4, <1>5, Zenon DEF Cong
<1> QED
  BY <1>2, <1>6, <1>7

LEMMA AddTyped ==
  ASSUME NEW u \in Poly, NEW v \in Poly
  PROVE  PolyAdd(u, v) \in Poly /\ PolySub(u, v) \in Poly
<1>1. \A i \in Degrees : AddMod(u[i], v[i]) \in Coeffs /\ SubMod(u[i], v[i]) \in Coeffs
  BY AddIs DEF Poly
<1> QED
  BY <1>1 DEF PolyAdd, PolySub, Poly

LEMMA SameResidue ==
  ASSUME NEW x \in Coeffs, NEW y \in Coeffs, Cong(x, y, Q)
  PROVE  x = y
<1>1. Q \in Nat /\ Q > 0 /\ x \in 0 .. Q - 1 /\ y \in 0 .. Q - 1
  BY ModulusHolds DEF ModulusIs, Coeffs
<1> QED
  BY <1>1, CongUnique

LEMMA SamePoly ==
  ASSUME NEW u \in Poly, NEW v \in Poly, \A k \in Degrees : Cong(u[k], v[k], Q)
  PROVE  u = v
<1>1. \A k \in Degrees : u[k] \in Coeffs /\ v[k] \in Coeffs
  BY DEF Poly
<1>2. \A k \in Degrees : u[k] = v[k]
  BY <1>1, SameResidue
<1> QED
  BY <1>2 DEF Poly

LEMMA CoeffsInt == Coeffs \subseteq Int /\ Q \in Int
  BY ModulusHolds DEF Coeffs, ModulusIs

(* What is congruent coefficient by coefficient stays so when turned.      *)
LEMMA TurnedAdd ==
  ASSUME NEW u \in Poly, NEW v \in Poly, NEW j \in - (2 * N) .. N - 1
  PROVE  Cong(Turned(PolyAdd(u, v), j), Turned(u, j) + Turned(v, j), Q)
<1>1. ASSUME NEW i \in Degrees
      PROVE  /\ u[i] \in Int /\ v[i] \in Int /\ PolyAdd(u, v)[i] \in Int
             /\ Cong(PolyAdd(u, v)[i], u[i] + v[i], Q)
             /\ Cong(- PolyAdd(u, v)[i], (- u[i]) + (- v[i]), Q)
  <2>1. u[i] \in Coeffs /\ v[i] \in Coeffs /\ PolyAdd(u, v)[i] = AddMod(u[i], v[i])
    BY DEF Poly, PolyAdd
  <2>2. PolyAdd(u, v)[i] \in Coeffs /\ Cong(PolyAdd(u, v)[i], u[i] + v[i], Q)
    BY <2>1, AddIs
  <2>3. PICK x, y, z : x = u[i] /\ y = v[i] /\ z = PolyAdd(u, v)[i]
    OBVIOUS
  <2>4. x \in Int /\ y \in Int /\ z \in Int /\ Q \in Int /\ 0 \in Int /\ x + y \in Int
    <3>1. x \in Int /\ y \in Int /\ z \in Int /\ Q \in Int
      BY <2>1, <2>2, <2>3, CoeffsInt
    <3> QED
      BY <3>1
  <2>5. Cong(z, x + y, Q) /\ Cong(0, 0, Q)
    BY <2>2, <2>3, <2>4, CongEquivalence
  <2>6. Cong(0 - z, 0 - (x + y), Q)
    BY <2>4, <2>5, CongSums
  <2>7. 0 - z = - z /\ 0 - (x + y) = (- x) + (- y)
    BY <2>4
  <2> QED
    BY <2>2, <2>3, <2>4, <2>6, <2>7
<1>2. CASE j >= 0
  <2>1. j \in Degrees
    BY <1>2, DegreesAre
  <2> QED
    BY <1>1, <1>2, <2>1 DEF Turned
<1>3. CASE j < 0 /\ j >= - N
  <2>1. j + N \in Degrees /\ ~ j >= 0
    BY <1>3, DegreesAre
  <2> QED
    BY <1>1, <1>3, <2>1 DEF Turned
<1>4. CASE j < - N
  <2>1. j + 2 * N \in Degrees /\ ~ j >= 0 /\ ~ j >= - N
    BY <1>4, DegreesAre
  <2> QED
    BY <1>1, <2>1 DEF Turned
<1>5. j >= 0 \/ (j < 0 /\ j >= - N) \/ j < - N
  BY DegreesAre
<1> QED
  BY <1>2, <1>3, <1>4, <1>5

(* Multiplication distributes over addition.                               *)
LEMMA Distributes ==
  ASSUME NEW c \in IntPoly, NEW u \in Poly, NEW v \in Poly
  PROVE  MulSchoolbook(c, PolyAdd(u, v)) = PolyAdd(MulSchoolbook(c, u), MulSchoolbook(c, v))
<1>1. PolyAdd(u, v) \in Poly /\ u \in IntPoly /\ v \in IntPoly /\ PolyAdd(u, v) \in IntPoly
  BY AddTyped, PolyIsInt
<1>2. /\ MulSchoolbook(c, PolyAdd(u, v)) \in Poly
      /\ MulSchoolbook(c, u) \in Poly /\ MulSchoolbook(c, v) \in Poly
  BY <1>1, ProductInRing
<1>3. PolyAdd(MulSchoolbook(c, u), MulSchoolbook(c, v)) \in Poly
  BY <1>2, AddTyped
<1>4. ASSUME NEW k \in Degrees
      PROVE  Cong(MulSchoolbook(c, PolyAdd(u, v))[k], PolyAdd(MulSchoolbook(c, u), MulSchoolbook(c, v))[k], Q)
  <2> DEFINE h  == TurnedTerms(c, PolyAdd(u, v), k)
             hu == TurnedTerms(c, u, k)
             hv == TurnedTerms(c, v, k)
             x  == MulSchoolbook(c, u)[k]
             y  == MulSchoolbook(c, v)[k]
             z  == MulSchoolbook(c, PolyAdd(u, v))[k]
  <2>1. /\ h \in IntPoly /\ hu \in IntPoly /\ hv \in IntPoly
        /\ Cong(z, SumOver(h), Q) /\ Cong(x, SumOver(hu), Q) /\ Cong(y, SumOver(hv), Q)
    BY <1>1, ProductIs
  <2>2. Alike(h, PlusTerms(hu, hv))
    <3> SUFFICES ASSUME NEW i \in Degrees PROVE Cong(h[i], PlusTerms(hu, hv)[i], Q)
      BY DEF Alike
    <3>1. k - i \in - (2 * N) .. N - 1
      BY DegreesAre
    <3>2. PICK p, s, t, w : /\ p = c[i] /\ s = Turned(u, k - i) /\ t = Turned(v, k - i)
                            /\ w = Turned(PolyAdd(u, v), k - i)
      OBVIOUS
    <3>3. p \in Int /\ s \in Int /\ t \in Int /\ w \in Int /\ Q \in Int
      BY <1>1, <3>1, <3>2, TurnedInt, CoeffsInt DEF IntPoly
    <3>4. Cong(w, s + t, Q)
      BY <3>1, <3>2, TurnedAdd
    <3>5. Cong(w * p, (s + t) * p, Q)
      <4>1. s + t \in Int
        BY <3>3
      <4> QED
        BY <3>3, <3>4, <4>1, CongScale
    <3>6. w * p = p * w /\ (s + t) * p = p * s + p * t
      BY <3>3
    <3>7. h[i] = p * w /\ PlusTerms(hu, hv)[i] = p * s + p * t
      BY <3>2 DEF TurnedTerms, PlusTerms
    <3> QED
      BY <3>5, <3>6, <3>7
  <2> HIDE DEF h, hu, hv
  <2>3. Cong(SumOver(h), SumOver(hu) + SumOver(hv), Q)
    BY <2>1, <2>2, SumPlus, SumAlike
  <2>4. x \in Coeffs /\ y \in Coeffs /\ z \in Coeffs
    BY <1>2 DEF Poly
  <2>5. PolyAdd(MulSchoolbook(c, u), MulSchoolbook(c, v))[k] = AddMod(x, y)
    BY DEF PolyAdd
  <2> HIDE DEF x, y, z
  <2>6. PICK a, b, e : a = SumOver(hu) /\ b = SumOver(hv) /\ e = SumOver(h)
    OBVIOUS
  <2>7. a \in Int /\ b \in Int /\ e \in Int /\ x \in Int /\ y \in Int /\ z \in Int /\ Q \in Int
    BY <2>1, <2>4, <2>6, SumRuns, CoeffsInt
  <2>8. AddMod(x, y) \in Int /\ Cong(AddMod(x, y), x + y, Q) /\ Cong(x + y, a + b, Q)
    BY <2>1, <2>4, <2>6, <2>7, AddIs, CongSums, CoeffsInt
  <2>9. Cong(z, e, Q) /\ Cong(e, a + b, Q)
    BY <2>1, <2>3, <2>6
  <2>10. x + y \in Int /\ a + b \in Int
    BY <2>7
  <2>11. Cong(AddMod(x, y), a + b, Q)
    BY <2>7, <2>8, <2>10, CongEquivalence
  <2>12. Cong(a + b, AddMod(x, y), Q)
    BY <2>7, <2>8, <2>10, <2>11, CongEquivalence
  <2>13. Cong(z, a + b, Q)
    BY <2>7, <2>9, <2>10, CongEquivalence
  <2>14. Cong(z, AddMod(x, y), Q)
    BY <2>7, <2>8, <2>10, <2>12, <2>13, CongEquivalence
  <2> QED
    BY <2>5, <2>14 DEF z
<1> QED
  BY <1>2, <1>3, <1>4, SamePoly

(* The product turned is the sum of the turned terms.                      *)
LEMMA TurnedProduct ==
  ASSUME NEW c \in IntPoly, NEW v \in IntPoly, NEW j \in 1 - N .. N - 1
  PROVE  /\ TurnedTerms(c, v, j) \in IntPoly
         /\ Turned(MulSchoolbook(c, v), j) \in Int
         /\ Cong(Turned(MulSchoolbook(c, v), j), SumOver(TurnedTerms(c, v, j)), Q)
<1>1. j \in - N .. N - 1 /\ j \in - (2 * N) .. N - 1
  BY DegreesAre
<1>2. TurnedTerms(c, v, j) \in IntPoly
  BY <1>1, TurnedTermsInt
<1>3. MulSchoolbook(c, v) \in IntPoly
  BY ProductInRing, PolyIsInt
<1>4. Turned(MulSchoolbook(c, v), j) \in Int
  BY <1>1, <1>3, TurnedInt
<1>5. CASE j >= 0
  <2>1. j \in Degrees
    BY <1>5, DegreesAre
  <2>2. Turned(MulSchoolbook(c, v), j) = MulSchoolbook(c, v)[j]
    BY <1>5 DEF Turned
  <2> QED
    BY <1>2, <1>4, <2>1, <2>2, ProductIs
<1>6. CASE j < 0
  <2>1. j + N \in Degrees /\ j >= - N /\ ~ j >= 0
    BY <1>6, DegreesAre
  <2> DEFINE g == TurnedTerms(c, v, j + N)
  <2>2. g \in IntPoly /\ Cong(MulSchoolbook(c, v)[j + N], SumOver(g), Q)
    BY <2>1, ProductIs
  <2>3. Turned(MulSchoolbook(c, v), j) = - MulSchoolbook(c, v)[j + N]
    BY <2>1 DEF Turned
  <2>4. TurnedTerms(c, v, j) = TimesTerms(-1, g)
    <3>1. ASSUME NEW i \in Degrees PROVE c[i] * Turned(v, j - i) = (-1) * (c[i] * Turned(v, (j + N) - i))
      <4>1. PICK m : m = j - i
        OBVIOUS
      <4>2. m \in Int /\ m < N /\ ~ m >= 0 /\ m >= - (2 * N) /\ (j + N) - i = m + N
        BY <1>6, <4>1, DegreesAre
      <4>3. Turned(v, m) = - Turned(v, m + N) /\ Turned(v, m + N) \in Int
        <5>1. CASE m >= - N
          <6>1. m + N >= 0 /\ m + N \in Degrees
            BY <4>2, <5>1, DegreesAre
          <6>2. v[m + N] \in Int
            BY <6>1 DEF IntPoly
          <6> QED
            BY <4>2, <5>1, <6>1, <6>2 DEF Turned
        <5>2. CASE ~ m >= - N
          <6>1. ~ m + N >= 0 /\ m + N >= - N /\ m + 2 * N \in Degrees /\ (m + N) + N = m + 2 * N
            BY <4>2, <5>2, DegreesAre
          <6>2. v[m + 2 * N] \in Int
            BY <6>1 DEF IntPoly
          <6>3. Turned(v, m) = v[m + 2 * N] /\ Turned(v, m + N) = - v[m + 2 * N]
            BY <4>2, <5>2, <6>1 DEF Turned
          <6> QED
            BY <6>2, <6>3
        <5> QED
          BY <5>1, <5>2
      <4>4. PICK p, t : p = c[i] /\ t = Turned(v, m + N)
        OBVIOUS
      <4>5. p \in Int /\ t \in Int
        BY <4>3, <4>4 DEF IntPoly
      <4>6. p * (- t) = (-1) * (p * t)
        BY <4>5
      <4> QED
        BY <4>1, <4>2, <4>3, <4>4, <4>6
    <3> QED
      BY <3>1 DEF TurnedTerms, TimesTerms
  <2> HIDE DEF g
  <2>5. PICK x, s : x = MulSchoolbook(c, v)[j + N] /\ s = SumOver(g)
    OBVIOUS
  <2>6. x \in Int /\ s \in Int /\ Q \in Int /\ 0 \in Int /\ -1 \in Int
    BY <1>3, <2>1, <2>2, <2>5, SumRuns, CoeffsInt DEF IntPoly
  <2>7. SumOver(TurnedTerms(c, v, j)) = (-1) * s
    BY <2>2, <2>4, <2>5, <2>6, SumTimes
  <2>8. Cong(0 - x, 0 - s, Q)
    BY <2>2, <2>5, <2>6, CongEquivalence, CongSums
  <2>9. 0 - x = - x /\ 0 - s = (-1) * s
    BY <2>6
  <2> QED
    BY <1>2, <1>4, <2>3, <2>5, <2>7, <2>8, <2>9
<1> QED
  BY <1>5, <1>6

(* The terms of a product of three.                                        *)
Grid(a, c, v, k) == [i \in Degrees |-> [l \in Degrees |-> (a[i] * c[l]) * Turned(v, (k - i) - l)]]

LEMMA GridIs ==
  ASSUME NEW a \in IntPoly, NEW c \in IntPoly, NEW v \in IntPoly, NEW k \in Degrees
  PROVE  /\ Grid(a, c, v, k) \in [Degrees -> IntPoly]
         /\ Cong(MulSchoolbook(a, MulSchoolbook(c, v))[k], SumOver(RowSums(Grid(a, c, v, k))), Q)
<1> DEFINE X == Grid(a, c, v, k)
           m == MulSchoolbook(c, v)
           h == TurnedTerms(a, m, k)
<1>1. ASSUME NEW i \in Degrees
      PROVE  /\ X[i] \in IntPoly /\ Cong(h[i], SumOver(X[i]), Q)
  <2>1. k - i \in 1 - N .. N - 1
    BY DegreesAre
  <2> DEFINE g == TurnedTerms(c, v, k - i)
  <2>2. g \in IntPoly /\ Turned(m, k - i) \in Int /\ Cong(Turned(m, k - i), SumOver(g), Q)
    BY <2>1, TurnedProduct
  <2>3. a[i] \in Int
    BY DEF IntPoly
  <2>4. X[i] = TimesTerms(a[i], g)
    <3>1. ASSUME NEW l \in Degrees PROVE (a[i] * c[l]) * Turned(v, (k - i) - l) = a[i] * (c[l] * Turned(v, (k - i) - l))
      <4>1. (k - i) - l \in - (2 * N) .. N - 1
        BY DegreesAre
      <4>2. Turned(v, (k - i) - l) \in Int /\ c[l] \in Int
        BY <4>1, TurnedInt DEF IntPoly
      <4>3. \A x, y, z \in Int : (x * y) * z = x * (y * z)
        OBVIOUS
      <4> QED
        BY <2>3, <4>2, <4>3
    <3> QED
      BY <3>1 DEF Grid, TimesTerms, TurnedTerms
  <2>5. h[i] = a[i] * Turned(m, k - i)
    BY DEF TurnedTerms
  <2> HIDE DEF X, g, h, m
  <2>6. X[i] \in IntPoly /\ SumOver(X[i]) = a[i] * SumOver(g)
    BY <2>2, <2>3, <2>4, SumTimes
  <2>7. PICK p, t, s : p = a[i] /\ t = Turned(m, k - i) /\ s = SumOver(g)
    OBVIOUS
  <2>8. p \in Int /\ t \in Int /\ s \in Int /\ Q \in Int /\ Cong(t, s, Q)
    BY <2>2, <2>3, <2>7, SumRuns, CoeffsInt
  <2>9. Cong(t * p, s * p, Q) /\ t * p = p * t /\ s * p = p * s
    <3>1. Cong(t * p, s * p, Q)
      BY <2>8, CongScale
    <3>2. t * p = p * t /\ s * p = p * s
      BY <2>8
    <3> QED
      BY <3>1, <3>2
  <2> QED
    BY <2>5, <2>6, <2>7, <2>9
<1>2. X \in [Degrees -> IntPoly]
  <2>1. X = [i \in Degrees |-> X[i]]
    BY DEF Grid
  <2> HIDE DEF X
  <2> QED
    BY <1>1, <2>1
<1>3. m \in IntPoly
  BY ProductInRing, PolyIsInt
<1>4. h \in IntPoly /\ Cong(MulSchoolbook(a, m)[k], SumOver(h), Q)
  <2> HIDE DEF m
  <2> QED
    BY <1>3, ProductIs
<1>5. RowSums(X) \in IntPoly
  <2> HIDE DEF X
  <2> QED
    BY <1>2, SumExchange
<1>6. Alike(h, RowSums(X))
  <2> HIDE DEF X, h
  <2> QED
    BY <1>1 DEF Alike, RowSums
<1>7. Cong(SumOver(h), SumOver(RowSums(X)), Q)
  <2> HIDE DEF X, h
  <2> QED
    BY <1>4, <1>5, <1>6, SumAlike
<1>8. MulSchoolbook(a, m)[k] \in Int
  <2> HIDE DEF m
  <2>1. MulSchoolbook(a, m) \in Poly
    BY <1>3, ProductInRing
  <2> QED
    BY <2>1, PolyIsInt DEF IntPoly
<1>9. Cong(MulSchoolbook(a, m)[k], SumOver(RowSums(X)), Q)
  <2> HIDE DEF X, h, m
  <2>1. SumOver(h) \in Int /\ SumOver(RowSums(X)) \in Int /\ Q \in Int
    BY <1>4, <1>5, SumRuns, CoeffsInt
  <2> QED
    BY <1>4, <1>7, <1>8, <2>1, CongEquivalence
<1> QED
  BY <1>2, <1>9

(* Two factors may be exchanged.                                           *)
LEMMA Swaps ==
  ASSUME NEW a \in IntPoly, NEW c \in IntPoly, NEW v \in IntPoly
  PROVE  MulSchoolbook(a, MulSchoolbook(c, v)) = MulSchoolbook(c, MulSchoolbook(a, v))
<1> DEFINE x == MulSchoolbook(a, MulSchoolbook(c, v))
           y == MulSchoolbook(c, MulSchoolbook(a, v))
<1>1. x \in Poly /\ y \in Poly
  BY ProductInRing, PolyIsInt
<1>2. ASSUME NEW k \in Degrees PROVE Cong(x[k], y[k], Q)
  <2> DEFINE X == Grid(a, c, v, k)
             Y == Grid(c, a, v, k)
  <2>1. X \in [Degrees -> IntPoly] /\ Cong(x[k], SumOver(RowSums(X)), Q)
    BY GridIs
  <2>2. Y \in [Degrees -> IntPoly] /\ Cong(y[k], SumOver(RowSums(Y)), Q)
    BY GridIs
  <2>3. ASSUME NEW l \in Degrees PROVE Column(X, l) = Y[l]
    <3>1. ASSUME NEW i \in Degrees
          PROVE  (a[i] * c[l]) * Turned(v, (k - i) - l) = (c[l] * a[i]) * Turned(v, (k - l) - i)
      <4>1. (k - i) - l = (k - l) - i
        BY DegreesAre
      <4>2. a[i] \in Int /\ c[l] \in Int
        BY DEF IntPoly
      <4>3. a[i] * c[l] = c[l] * a[i]
        BY <4>2
      <4> QED
        BY <4>1, <4>3
    <3>2. Column(X, l) = [i \in Degrees |-> (a[i] * c[l]) * Turned(v, (k - i) - l)]
      BY DEF Column, Grid
    <3>3. Y[l] = [i \in Degrees |-> (c[l] * a[i]) * Turned(v, (k - l) - i)]
      BY DEF Grid
    <3> QED
      BY <3>1, <3>2, <3>3
  <2>4. ColumnSums(X) = RowSums(Y)
    <3> HIDE DEF X, Y
    <3> QED
      BY <2>3 DEF ColumnSums, RowSums
  <2> HIDE DEF X, Y
  <2>5. SumOver(RowSums(X)) = SumOver(RowSums(Y)) /\ SumOver(RowSums(X)) \in Int
    BY <2>1, <2>4, SumExchange, SumRuns
  <2>6. x[k] \in Int /\ y[k] \in Int /\ Q \in Int
    BY <1>1, PolyIsInt, CoeffsInt DEF IntPoly
  <2> HIDE DEF x, y
  <2> QED
    BY <2>1, <2>2, <2>5, <2>6, CongEquivalence
<1> HIDE DEF x, y
<1>3. x = y
  BY <1>1, <1>2, SamePoly
<1> QED
  BY <1>3 DEF x, y

(* The order in which a fold takes the members of a set.                   *)
Taken(s) == CHOOSE j \in s : TRUE

RowFold(f, a, v, i) ==
  /\ f[{}] = ZeroPoly
  /\ \A s \in SUBSET Rows : s # {} =>
       f[s] = PolyAdd(MulSchoolbook(a[i][Taken(s)], v[Taken(s)]), f[s \ {Taken(s)}])

LEMMA RowsFinite == IsFiniteSet(Rows) /\ \A s \in SUBSET Rows : s # {} => Taken(s) \in s
<1>1. IsFiniteSet(Rows)
  BY RingParameters, FS_Interval DEF Rows
<1> QED
  BY <1>1 DEF Taken

LEMMA ZeroInRing == ZeroPoly \in Poly /\ ZeroVec \in PolyVec
<1>1. 0 \in Coeffs
  BY ModulusHolds DEF Coeffs, ModulusIs
<1>2. ZeroPoly \in Poly
  BY <1>1 DEF ZeroPoly, Poly
<1> QED
  BY <1>2 DEF ZeroVec, PolyVec

(* A row of a matrix times a vector is a fold over the columns.            *)
LEMMA RowRuns ==
  ASSUME NEW a \in PolyMat, NEW v \in PolyVec, NEW i \in Rows
  PROVE  \E f : /\ RowFold(f, a, v, i) /\ MatVecMul(a, v)[i] = f[Rows]
                /\ \A s \in SUBSET Rows : f[s] \in Poly
<1> DEFINE ch    == [s \in SUBSET Rows |-> CHOOSE j \in s : TRUE]
           F     == [j \in Rows |-> [p \in Poly |-> PolyAdd(MulSchoolbook(a[i][j], v[j]), p)]]
           Eq(f) == f = [s \in SUBSET Rows |-> IF s = {} THEN ZeroPoly
                           ELSE PolyAdd(MulSchoolbook(a[i][CHOOSE j \in s : TRUE], v[CHOOSE j \in s : TRUE]),
                                        f[s \ {CHOOSE j \in s : TRUE}])]
<1>1. \A s \in SUBSET Rows : s # {} => ch[s] \in s
  OBVIOUS
<1>2. ASSUME NEW j \in Rows, NEW p \in Poly PROVE PolyAdd(MulSchoolbook(a[i][j], v[j]), p) \in Poly
  <2>1. a[i][j] \in IntPoly /\ v[j] \in IntPoly
    BY PolyIsInt DEF PolyMat, PolyVec
  <2> QED
    BY <2>1, ProductInRing, AddTyped
<1>3. F \in [Rows -> [Poly -> Poly]]
  BY <1>2
<1>4. PICK g \in [SUBSET Rows -> Poly] : Folds(g, Rows, ZeroPoly, F, ch)
  <2> DEFINE D    == Rows
             T    == Poly
             base == ZeroPoly
  <2>1. IsFiniteSet(D)
    BY RowsFinite
  <2>2. base \in T /\ F \in [D -> [T -> T]]
    BY <1>3, ZeroInRing
  <2>3. \A s \in SUBSET D : s # {} => ch[s] \in s
    BY <1>1
  <2> HIDE DEF ch, F, D, T, base
  <2>4. FoldData(D, T, base, F, ch)
    BY <2>1, <2>2, <2>3 DEF FoldData
  <2>5. \E g \in [SUBSET D -> T] : Folds(g, D, base, F, ch)
    BY <2>4, FoldExists
  <2> QED
    BY <2>5 DEF D, T, base
<1>5. ASSUME NEW s \in SUBSET Rows, s # {}
      PROVE  F[ch[s]][g[s \ {ch[s]}]] = PolyAdd(MulSchoolbook(a[i][ch[s]], v[ch[s]]), g[s \ {ch[s]}])
  <2>1. ch[s] \in Rows /\ g[s \ {ch[s]}] \in Poly
    BY <1>1, <1>4, <1>5
  <2> HIDE DEF ch
  <2> QED
    BY <2>1
<1>6. g = [s \in SUBSET Rows |-> g[s]]
  OBVIOUS
<1>7. Eq(g)
  <2>1. \A s \in SUBSET Rows : g[s] = IF s = {} THEN ZeroPoly
                           ELSE PolyAdd(MulSchoolbook(a[i][CHOOSE j \in s : TRUE], v[CHOOSE j \in s : TRUE]),
                                        g[s \ {CHOOSE j \in s : TRUE}])
    BY <1>4, <1>5, ZenonT(30) DEF Folds
  <2> HIDE DEF ch, F
  <2> QED
    BY <1>6, <2>1
<1>8. MatVecMul(a, v)[i] = (CHOOSE f : Eq(f))[Rows]
  BY Zenon DEF MatVecMul, MapThenFoldSet
<1> HIDE DEF Eq
<1>9. PICK f : Eq(f) /\ MatVecMul(a, v)[i] = f[Rows]
  BY <1>7, <1>8, Zenon
<1>10. RowFold(f, a, v, i)
  BY <1>9, ZenonT(30) DEF Eq, RowFold, Taken
<1> HIDE DEF ch, F
<1> DEFINE S == {s \in SUBSET Rows : f[s] \in Poly}
<1>11. ASSUME NEW s \in SUBSET Rows, \A j \in s : s \ {j} \in S PROVE s \in S
  <2>1. CASE s = {}
    BY <1>10, <2>1, ZeroInRing DEF RowFold
  <2>2. CASE s # {}
    <3>1. Taken(s) \in s /\ Taken(s) \in Rows
      BY <2>2, RowsFinite
    <3>2. f[s \ {Taken(s)}] \in Poly
      BY <1>11, <3>1
    <3> QED
      <4>1. f[s] = PolyAdd(MulSchoolbook(a[i][Taken(s)], v[Taken(s)]), f[s \ {Taken(s)}])
        BY <1>10, <2>2 DEF RowFold
      <4>2. f[s] \in Poly
        BY <1>2, <3>1, <3>2, <4>1
      <4> QED
        BY <4>2
  <2> QED
    BY <2>1, <2>2
<1>S. \A s : s \in S => f[s] \in Poly
  OBVIOUS
<1> HIDE DEF S
<1>12. \A s \in SUBSET Rows : s \in S
  BY <1>11, RowsFinite, SubsetInduction
<1> QED
  BY <1>9, <1>10, <1>12, <1>S

LEMMA MatVecTyped ==
  ASSUME NEW a \in PolyMat, NEW v \in PolyVec
  PROVE  MatVecMul(a, v) \in PolyVec
<1>1. \A i \in Rows : MatVecMul(a, v)[i] \in Poly
  BY RowRuns
<1>2. MatVecMul(a, v) = [i \in Rows |-> MatVecMul(a, v)[i]]
  BY DEF MatVecMul
<1> QED
  BY <1>1, <1>2, Zenon DEF PolyVec

LEMMA VecTyped ==
  ASSUME NEW u \in PolyVec, NEW v \in PolyVec
  PROVE  VecAdd(u, v) \in PolyVec /\ VecSub(u, v) \in PolyVec
  BY AddTyped DEF VecAdd, VecSub, PolyVec

LEMMA ScaleTyped ==
  ASSUME NEW c \in IntPoly, NEW v \in PolyVec
  PROVE  ScalarVecMul(c, v) \in PolyVec
<1>1. \A j \in Rows : MulSchoolbook(c, v[j]) \in Poly
  BY ProductInRing, PolyIsInt DEF PolyVec
<1> QED
  BY <1>1 DEF ScalarVecMul, PolyVec

(* Sums of residues may be regrouped.                                      *)
LEMMA Regroup ==
  ASSUME NEW x \in Poly, NEW y \in Poly, NEW z \in Poly, NEW w \in Poly
  PROVE  PolyAdd(PolyAdd(x, y), PolyAdd(z, w)) = PolyAdd(PolyAdd(x, z), PolyAdd(y, w))
<1>1. \A p, q, r, s \in Coeffs : AddMod(AddMod(p, q), AddMod(r, s)) = AddMod(AddMod(p, r), AddMod(q, s))
  BY ModulusHolds DEF AddMod, Coeffs, ModulusIs
<1>2. \A i \in Degrees : x[i] \in Coeffs /\ y[i] \in Coeffs /\ z[i] \in Coeffs /\ w[i] \in Coeffs
  BY DEF Poly
<1>3. \A i \in Degrees : AddMod(AddMod(x[i], y[i]), AddMod(z[i], w[i]))
                           = AddMod(AddMod(x[i], z[i]), AddMod(y[i], w[i]))
  BY <1>1, <1>2
<1> QED
  BY <1>3 DEF PolyAdd

LEMMA ZeroPlusZero == PolyAdd(ZeroPoly, ZeroPoly) = ZeroPoly
<1>1. AddMod(0, 0) = 0
  BY ModulusHolds DEF AddMod, ModulusIs
<1> QED
  BY <1>1 DEF PolyAdd, ZeroPoly

LEMMA TimesZero ==
  ASSUME NEW c \in IntPoly
  PROVE  MulSchoolbook(c, ZeroPoly) = ZeroPoly
<1>1. ZeroPoly \in IntPoly /\ ZeroPoly \in Poly
  BY ZeroInRing, PolyIsInt
<1>2. ASSUME NEW k \in Degrees PROVE MulSchoolbook(c, ZeroPoly)[k] = 0
  <2>1. TurnedTerms(c, ZeroPoly, k) \in IntPoly
        /\ MulSchoolbook(c, ZeroPoly)[k] = SumOver(TurnedTerms(c, ZeroPoly, k)) % Q
    BY <1>1, ProductIs
  <2>2. TurnedTerms(c, ZeroPoly, k) = TimesTerms(0, TurnedTerms(c, ZeroPoly, k))
    <3>1. ASSUME NEW i \in Degrees PROVE c[i] * Turned(ZeroPoly, k - i) = 0 * (c[i] * Turned(ZeroPoly, k - i))
      <4>1. Turned(ZeroPoly, k - i) = 0
        <5>1. CASE k - i >= 0
          <6>1. k - i \in Degrees
            BY <5>1, DegreesAre
          <6> QED
            BY <5>1, <6>1 DEF Turned, ZeroPoly
        <5>2. CASE ~ k - i >= 0
          <6>1. k - i >= - N /\ k - i + N \in Degrees
            BY <5>2, DegreesAre
          <6>2. ZeroPoly[k - i + N] = 0
            BY <6>1 DEF ZeroPoly
          <6>3. Turned(ZeroPoly, k - i) = - ZeroPoly[k - i + N]
            BY <5>2, <6>1 DEF Turned
          <6> QED
            BY <6>2, <6>3
        <5> QED
          BY <5>1, <5>2
      <4>2. c[i] \in Int
        BY DEF IntPoly
      <4>3. \A x \in Int : x * 0 = 0 * (x * 0)
        OBVIOUS
      <4> QED
        BY <4>1, <4>2, <4>3
    <3> QED
      BY <3>1 DEF TurnedTerms, TimesTerms
  <2>3. SumOver(TurnedTerms(c, ZeroPoly, k)) = 0 * SumOver(TurnedTerms(c, ZeroPoly, k))
    BY <2>1, <2>2, SumTimes
  <2>4. SumOver(TurnedTerms(c, ZeroPoly, k)) \in Int
    BY <2>1, SumRuns
  <2>5. SumOver(TurnedTerms(c, ZeroPoly, k)) = 0
    BY <2>3, <2>4
  <2>6. 0 % Q = 0
    BY ModulusHolds DEF ModulusIs
  <2> QED
    BY <2>1, <2>5, <2>6
<1>3. MulSchoolbook(c, ZeroPoly) \in Poly
  BY <1>1, ProductInRing
<1> QED
  BY <1>2, <1>3 DEF Poly, ZeroPoly

(* A matrix distributes over a sum of vectors.                             *)
LEMMA MatrixDistributes ==
  ASSUME NEW a \in PolyMat, NEW u \in PolyVec, NEW v \in PolyVec
  PROVE  MatVecMul(a, VecAdd(u, v)) = VecAdd(MatVecMul(a, u), MatVecMul(a, v))
<1>1. VecAdd(u, v) \in PolyVec
  BY VecTyped
<1>2. ASSUME NEW i \in Rows
      PROVE  MatVecMul(a, VecAdd(u, v))[i] = PolyAdd(MatVecMul(a, u)[i], MatVecMul(a, v)[i])
  <2>1. PICK fu : /\ RowFold(fu, a, u, i) /\ MatVecMul(a, u)[i] = fu[Rows]
                  /\ \A s \in SUBSET Rows : fu[s] \in Poly
    BY RowRuns
  <2>2. PICK fv : /\ RowFold(fv, a, v, i) /\ MatVecMul(a, v)[i] = fv[Rows]
                  /\ \A s \in SUBSET Rows : fv[s] \in Poly
    BY RowRuns
  <2>3. PICK fw : RowFold(fw, a, VecAdd(u, v), i) /\ MatVecMul(a, VecAdd(u, v))[i] = fw[Rows]
    BY <1>1, RowRuns
  <2> DEFINE S == {s \in SUBSET Rows : fw[s] = PolyAdd(fu[s], fv[s])}
  <2>4. ASSUME NEW s \in SUBSET Rows, \A j \in s : s \ {j} \in S PROVE s \in S
    <3>1. CASE s = {}
      BY <2>1, <2>2, <2>3, <3>1, ZeroPlusZero DEF RowFold
    <3>2. CASE s # {}
      <4>1. PICK j : j = Taken(s) /\ j \in s
        BY <3>2, RowsFinite
      <4>2. j \in Rows /\ fw[s \ {j}] = PolyAdd(fu[s \ {j}], fv[s \ {j}])
        BY <2>4, <4>1
      <4>3. PICK t : t = s \ {j}
        OBVIOUS
      <4>4. /\ fu[s] = PolyAdd(MulSchoolbook(a[i][j], u[j]), fu[t])
            /\ fv[s] = PolyAdd(MulSchoolbook(a[i][j], v[j]), fv[t])
            /\ fw[s] = PolyAdd(MulSchoolbook(a[i][j], VecAdd(u, v)[j]), fw[t])
        BY <2>1, <2>2, <2>3, <3>2, <4>1, <4>3 DEF RowFold
      <4>5. a[i][j] \in IntPoly /\ u[j] \in Poly /\ v[j] \in Poly
        BY <4>2, PolyIsInt DEF PolyMat, PolyVec
      <4>6. VecAdd(u, v)[j] = PolyAdd(u[j], v[j])
        BY <4>2 DEF VecAdd
      <4>7. /\ MulSchoolbook(a[i][j], u[j]) \in Poly /\ MulSchoolbook(a[i][j], v[j]) \in Poly
            /\ MulSchoolbook(a[i][j], PolyAdd(u[j], v[j]))
                 = PolyAdd(MulSchoolbook(a[i][j], u[j]), MulSchoolbook(a[i][j], v[j]))
        BY <4>5, PolyIsInt, ProductInRing, Distributes
      <4>8. fu[t] \in Poly /\ fv[t] \in Poly
        BY <2>1, <2>2, <4>3
      <4>9. fw[s] = PolyAdd(fu[s], fv[s])
        BY <4>2, <4>3, <4>4, <4>6, <4>7, <4>8, Regroup
      <4> QED
        BY <4>9
    <3> QED
      BY <3>1, <3>2
  <2>S. \A s : s \in S => fw[s] = PolyAdd(fu[s], fv[s])
    OBVIOUS
  <2> HIDE DEF S
  <2>5. \A s \in SUBSET Rows : s \in S
    BY <2>4, RowsFinite, SubsetInduction
  <2> QED
    BY <2>1, <2>2, <2>3, <2>5, <2>S
<1>3. MatVecMul(a, VecAdd(u, v)) \in PolyVec
  BY <1>1, MatVecTyped
<1> QED
  BY <1>2, <1>3 DEF VecAdd, PolyVec

(* A matrix commutes with a scalar.                                        *)
LEMMA MatrixCommutes ==
  ASSUME NEW a \in PolyMat, NEW c \in IntPoly, NEW v \in PolyVec
  PROVE  MatVecMul(a, ScalarVecMul(c, v)) = ScalarVecMul(c, MatVecMul(a, v))
<1>1. ScalarVecMul(c, v) \in PolyVec
  BY ScaleTyped
<1>2. ASSUME NEW i \in Rows
      PROVE  MatVecMul(a, ScalarVecMul(c, v))[i] = MulSchoolbook(c, MatVecMul(a, v)[i])
  <2>1. PICK f : /\ RowFold(f, a, v, i) /\ MatVecMul(a, v)[i] = f[Rows]
                 /\ \A s \in SUBSET Rows : f[s] \in Poly
    BY RowRuns
  <2>2. PICK g : RowFold(g, a, ScalarVecMul(c, v), i) /\ MatVecMul(a, ScalarVecMul(c, v))[i] = g[Rows]
    BY <1>1, RowRuns
  <2> DEFINE S == {s \in SUBSET Rows : g[s] = MulSchoolbook(c, f[s])}
  <2>3. ASSUME NEW s \in SUBSET Rows, \A j \in s : s \ {j} \in S PROVE s \in S
    <3>1. CASE s = {}
      BY <2>1, <2>2, <3>1, TimesZero DEF RowFold
    <3>2. CASE s # {}
      <4>1. PICK j : j = Taken(s) /\ j \in s
        BY <3>2, RowsFinite
      <4>2. j \in Rows /\ g[s \ {j}] = MulSchoolbook(c, f[s \ {j}])
        BY <2>3, <4>1
      <4>3. PICK t : t = s \ {j}
        OBVIOUS
      <4>4. /\ f[s] = PolyAdd(MulSchoolbook(a[i][j], v[j]), f[t])
            /\ g[s] = PolyAdd(MulSchoolbook(a[i][j], ScalarVecMul(c, v)[j]), g[t])
        BY <2>1, <2>2, <3>2, <4>1, <4>3 DEF RowFold
      <4>5. a[i][j] \in IntPoly /\ v[j] \in IntPoly
        BY <4>2, PolyIsInt DEF PolyMat, PolyVec
      <4>6. ScalarVecMul(c, v)[j] = MulSchoolbook(c, v[j])
        BY <4>2 DEF ScalarVecMul
      <4>7. MulSchoolbook(a[i][j], MulSchoolbook(c, v[j])) = MulSchoolbook(c, MulSchoolbook(a[i][j], v[j]))
        BY <4>5, Swaps
      <4>8. f[t] \in Poly /\ MulSchoolbook(a[i][j], v[j]) \in Poly
        BY <2>1, <4>3, <4>5, ProductInRing
      <4>9. MulSchoolbook(c, f[s]) = PolyAdd(MulSchoolbook(c, MulSchoolbook(a[i][j], v[j])), MulSchoolbook(c, f[t]))
        BY <4>4, <4>8, Distributes
      <4> QED
        BY <4>2, <4>3, <4>4, <4>6, <4>7, <4>9
    <3> QED
      BY <3>1, <3>2
  <2>S. \A s : s \in S => g[s] = MulSchoolbook(c, f[s])
    OBVIOUS
  <2> HIDE DEF S
  <2>4. \A s \in SUBSET Rows : s \in S
    BY <2>3, RowsFinite, SubsetInduction
  <2> QED
    BY <2>1, <2>2, <2>4, <2>S
<1>3. MatVecMul(a, ScalarVecMul(c, v)) \in PolyVec
  BY <1>1, MatVecTyped
<1> QED
  BY <1>2, <1>3 DEF ScalarVecMul, PolyVec

LEMMA ScaleDistributes ==
  ASSUME NEW c \in IntPoly, NEW u \in PolyVec, NEW v \in PolyVec
  PROVE  ScalarVecMul(c, VecAdd(u, v)) = VecAdd(ScalarVecMul(c, u), ScalarVecMul(c, v))
<1>1. \A j \in Rows : MulSchoolbook(c, PolyAdd(u[j], v[j])) = PolyAdd(MulSchoolbook(c, u[j]), MulSchoolbook(c, v[j]))
  BY Distributes DEF PolyVec
<1> QED
  BY <1>1 DEF ScalarVecMul, VecAdd

(* What a verifier computes leaves the error, negated.                     *)
LEMMA Cancels ==
  ASSUME NEW u \in PolyVec, NEW v \in PolyVec, NEW e \in PolyVec
  PROVE  VecSub(VecSub(VecAdd(u, v), VecAdd(v, e)), u) = VecSub(ZeroVec, e)
<1>1. \A x, y, z \in Coeffs : SubMod(SubMod(AddMod(x, y), AddMod(y, z)), x) = SubMod(0, z)
  BY ModulusHolds DEF AddMod, SubMod, Coeffs, ModulusIs
<1>2. \A j \in Rows, i \in Degrees : u[j][i] \in Coeffs /\ v[j][i] \in Coeffs /\ e[j][i] \in Coeffs
  BY DEF PolyVec, Poly
<1>3. \A j \in Rows, i \in Degrees :
        SubMod(SubMod(AddMod(u[j][i], v[j][i]), AddMod(v[j][i], e[j][i])), u[j][i]) = SubMod(0, e[j][i])
  BY <1>1, <1>2
<1>4. \A j \in Rows :
        PolySub(PolySub(PolyAdd(u[j], v[j]), PolyAdd(v[j], e[j])), u[j]) = PolySub(ZeroPoly, e[j])
  BY <1>3 DEF PolySub, PolyAdd, ZeroPoly
<1> QED
  BY <1>4 DEF VecSub, VecAdd, ZeroVec

LEMMA NormOfNegated ==
  ASSUME NEW e \in PolyVec
  PROVE  VecInfinityNorm(VecSub(ZeroVec, e)) = VecInfinityNorm(e)
<1>1. \A z \in Coeffs : Centered(SubMod(0, z)) = Centered(z)
  BY ModulusHolds DEF Centered, SubMod, Coeffs, ModulusIs
<1>2. ASSUME NEW p \in Poly PROVE InfinityNorm(PolySub(ZeroPoly, p)) = InfinityNorm(p)
  <2>1. \A i \in Degrees : Centered(PolySub(ZeroPoly, p)[i]) = Centered(p[i])
    BY <1>1 DEF PolySub, ZeroPoly, Poly
  <2>2. {Centered(PolySub(ZeroPoly, p)[i]) : i \in Degrees} = {Centered(p[i]) : i \in Degrees}
    BY <2>1
  <2> QED
    BY <2>2 DEF InfinityNorm
<1>3. \A j \in Rows : InfinityNorm(VecSub(ZeroVec, e)[j]) = InfinityNorm(e[j])
  BY <1>2 DEF VecSub, ZeroVec, PolyVec
<1>4. {InfinityNorm(VecSub(ZeroVec, e)[j]) : j \in Rows} = {InfinityNorm(e[j]) : j \in Rows}
  BY <1>3
<1> QED
  BY <1>4 DEF VecInfinityNorm

LEMMA VecNormIs ==
  ASSUME NEW v \in PolyVec
  PROVE  /\ VecInfinityNorm(v) \in 0 .. Q
         /\ \A B \in Int : VecInfinityNorm(v) <= B <=> \A j \in Rows : InfinityNorm(v[j]) <= B
<1> DEFINE S == {InfinityNorm(v[j]) : j \in Rows}
<1>1. Q \in Nat /\ 1 \in Rows
  BY ModulusHolds, RingParameters DEF ModulusIs, Rows
<1>2. \A j \in Rows : InfinityNorm(v[j]) \in 0 .. Q
  BY NormIs DEF PolyVec
<1>3. S \in SUBSET (0 .. Q) /\ S # {}
  BY <1>1, <1>2
<1>4. VecInfinityNorm(v) = Max(S)
  BY DEF VecInfinityNorm
<1>5. Max(S) \in S /\ \A x \in S : x <= Max(S)
  <2> HIDE DEF S
  <2> QED
    BY <1>1, <1>3, LargestNatural
<1>6. ASSUME NEW B \in Int PROVE Max(S) <= B <=> \A x \in S : x <= B
  <2>1. Max(S) \in Int /\ \A x \in S : x \in Int
    BY <1>3, <1>5
  <2> HIDE DEF S
  <2> QED
    BY <1>5, <2>1
<1>7. \A B : (\A x \in S : x <= B) <=> \A j \in Rows : InfinityNorm(v[j]) <= B
  OBVIOUS
<1> HIDE DEF S
<1> QED
  BY <1>3, <1>4, <1>5, <1>6, <1>7

LEMMA ChallengeIsInt == ChallengePolys(Weight) \subseteq IntPoly
  BY ModulusHolds DEF ChallengePolys, ModulusIs, IntPoly

(* The code's arithmetic (poly_add, poly_sub, poly_mul_schoolbook, the     *)
(* vector and matrix operations, the norm) returns vectors of canonical    *)
(* coefficients: what PlpCore assumes as ClosureAssumption.                *)
THEOREM RingIsClosed ==
  /\ ZeroVec \in PolyVec /\ ShortVecs(Eta) \subseteq PolyVec
  /\ \A u, v \in PolyVec : VecAdd(u, v) \in PolyVec /\ VecSub(u, v) \in PolyVec
  /\ \A a \in PolyMat : \A v \in PolyVec : MatVecMul(a, v) \in PolyVec
  /\ \A c \in ChallengePolys(Weight) : \A v \in PolyVec : ScalarVecMul(c, v) \in PolyVec
  /\ \A v \in PolyVec : VecInfinityNorm(v) \in Nat
<1>1. \A v \in PolyVec : VecInfinityNorm(v) \in Nat
  BY VecNormIs
<1>2. ShortVecs(Eta) \subseteq PolyVec
  BY DEF ShortVecs
<1> QED
  BY <1>1, <1>2, ZeroInRing, VecTyped, MatVecTyped, ScaleTyped, ChallengeIsInt

(* It also obeys the laws the verifier's recomputation relies on           *)
(* (verify_identity): products distribute over sums, a challenge commutes  *)
(* with a matrix, and negation keeps the norm.  PlpCore assumes these as   *)
(* ModuleAssumption.                                                       *)
THEOREM RingIsModule ==
  /\ \A a \in PolyMat : \A u, v \in PolyVec : MatVecMul(a, VecAdd(u, v)) = VecAdd(MatVecMul(a, u), MatVecMul(a, v))
  /\ \A c \in ChallengePolys(Weight) : \A u, v \in PolyVec :
       ScalarVecMul(c, VecAdd(u, v)) = VecAdd(ScalarVecMul(c, u), ScalarVecMul(c, v))
  /\ \A a \in PolyMat : \A c \in ChallengePolys(Weight) : \A v \in PolyVec :
       MatVecMul(a, ScalarVecMul(c, v)) = ScalarVecMul(c, MatVecMul(a, v))
  /\ \A u, v, e \in PolyVec : VecSub(VecSub(VecAdd(u, v), VecAdd(v, e)), u) = VecSub(ZeroVec, e)
  /\ \A e \in PolyVec : VecInfinityNorm(VecSub(ZeroVec, e)) = VecInfinityNorm(e)
  BY MatrixDistributes, ScaleDistributes, MatrixCommutes, Cancels, NormOfNegated, ChallengeIsInt

(* A challenge times a short vector is within Weight * Eta: PlpCore's      *)
(* BetaAssumption with the BETA the code asserts.                          *)
THEOREM ShortProductBounded ==
  \A c \in ChallengePolys(Weight) : \A e \in ShortVecs(Eta) :
    VecInfinityNorm(ScalarVecMul(c, e)) <= Weight * Eta
<1> SUFFICES ASSUME NEW c \in ChallengePolys(Weight), NEW e \in ShortVecs(Eta)
             PROVE  VecInfinityNorm(ScalarVecMul(c, e)) <= Weight * Eta
  OBVIOUS
<1>1. Weight * Eta \in Int /\ Eta \in Int
  BY ProductParameters
<1>2. e \in PolyVec /\ VecInfinityNorm(e) <= Eta
  BY DEF ShortVecs
<1>3. \A j \in Rows : e[j] \in ShortPolys
  BY <1>1, <1>2, VecNormIs DEF ShortPolys, PolyVec
<1>4. \A j \in Rows : InfinityNorm(ScalarVecMul(c, e)[j]) <= Weight * Eta
  BY <1>3, ProductBounded DEF ScalarVecMul
<1>5. ScalarVecMul(c, e) \in PolyVec
  BY <1>2, ChallengeIsInt, ScaleTyped
<1> QED
  BY <1>1, <1>4, <1>5, VecNormIs

(* Polynomials under poly_add and poly_sub are a group on which challenges *)
(* act: what CredentialCore assumes as RingAssumption.                     *)
THEOREM RingIsGroup ==
  /\ ZeroPoly \in Poly
  /\ \A a, b \in Poly : PolyAdd(a, b) \in Poly /\ PolySub(a, b) \in Poly
  /\ \A a, b \in Poly : PolyAdd(a, b) = PolyAdd(b, a) /\ PolyAdd(a, ZeroPoly) = a
  /\ \A a, b \in Poly : PolySub(PolyAdd(a, b), b) = a /\ PolyAdd(PolySub(a, b), b) = a
  /\ \A a, b, c \in Poly : PolyAdd(PolyAdd(a, b), c) = PolyAdd(a, PolyAdd(b, c))
  /\ \A c \in ChallengePolys(Weight) : \A a, b \in Poly :
       /\ MulSchoolbook(c, a) \in Poly
       /\ MulSchoolbook(c, PolyAdd(a, b)) = PolyAdd(MulSchoolbook(c, a), MulSchoolbook(c, b))
<1>1. \A x, y, z \in Coeffs :
        /\ AddMod(x, y) = AddMod(y, x) /\ AddMod(x, 0) = x
        /\ SubMod(AddMod(x, y), y) = x /\ AddMod(SubMod(x, y), y) = x
        /\ AddMod(AddMod(x, y), z) = AddMod(x, AddMod(y, z))
  BY ModulusHolds DEF AddMod, SubMod, Coeffs, ModulusIs
<1>2. ASSUME NEW a \in Poly, NEW b \in Poly, NEW c \in Poly
      PROVE  /\ PolyAdd(a, b) = PolyAdd(b, a) /\ PolyAdd(a, ZeroPoly) = a
             /\ PolySub(PolyAdd(a, b), b) = a /\ PolyAdd(PolySub(a, b), b) = a
             /\ PolyAdd(PolyAdd(a, b), c) = PolyAdd(a, PolyAdd(b, c))
  <2>1. \A i \in Degrees : a[i] \in Coeffs /\ b[i] \in Coeffs /\ c[i] \in Coeffs
    BY DEF Poly
  <2>2. \A i \in Degrees :
          /\ AddMod(a[i], b[i]) = AddMod(b[i], a[i]) /\ AddMod(a[i], 0) = a[i]
          /\ SubMod(AddMod(a[i], b[i]), b[i]) = a[i] /\ AddMod(SubMod(a[i], b[i]), b[i]) = a[i]
          /\ AddMod(AddMod(a[i], b[i]), c[i]) = AddMod(a[i], AddMod(b[i], c[i]))
    BY <1>1, <2>1
  <2>3. a = [i \in Degrees |-> a[i]]
    BY DEF Poly
  <2> QED
    BY <2>2, <2>3 DEF PolyAdd, PolySub, ZeroPoly
<1> QED
  BY <1>2, AddTyped, ZeroInRing, ProductInRing, PolyIsInt, Distributes, ChallengeIsInt

(* So are vectors, and the first component of a vector, which slot 0 of a  *)
(* credential holds, respects sums and challenges: what CredentialCore     *)
(* assumes as VectorAssumption.                                            *)
THEOREM VectorsAreGroup ==
  /\ \A u, v \in PolyVec : VecAdd(u, v) = VecAdd(v, u)
  /\ \A u, v \in PolyVec : VecSub(VecAdd(u, v), v) = u /\ VecAdd(VecSub(u, v), v) = u
  /\ \A u, v, w \in PolyVec : VecAdd(VecAdd(u, v), w) = VecAdd(u, VecAdd(v, w))
  /\ \A u, v \in PolyVec : u[1] \in Poly /\ VecAdd(u, v)[1] = PolyAdd(u[1], v[1])
  /\ \A c \in ChallengePolys(Weight) : \A v \in PolyVec : ScalarVecMul(c, v)[1] = MulSchoolbook(c, v[1])
<1>1. 1 \in Rows
  BY RingParameters DEF Rows
<1>2. ASSUME NEW u \in PolyVec, NEW v \in PolyVec, NEW w \in PolyVec
      PROVE  /\ VecAdd(u, v) = VecAdd(v, u)
             /\ VecSub(VecAdd(u, v), v) = u /\ VecAdd(VecSub(u, v), v) = u
             /\ VecAdd(VecAdd(u, v), w) = VecAdd(u, VecAdd(v, w))
  <2>1. \A j \in Rows : u[j] \in Poly /\ v[j] \in Poly /\ w[j] \in Poly
    BY DEF PolyVec
  <2>2. \A j \in Rows :
          /\ PolyAdd(u[j], v[j]) = PolyAdd(v[j], u[j])
          /\ PolySub(PolyAdd(u[j], v[j]), v[j]) = u[j] /\ PolyAdd(PolySub(u[j], v[j]), v[j]) = u[j]
          /\ PolyAdd(PolyAdd(u[j], v[j]), w[j]) = PolyAdd(u[j], PolyAdd(v[j], w[j]))
    <3> SUFFICES ASSUME NEW j \in Rows
                 PROVE  /\ PolyAdd(u[j], v[j]) = PolyAdd(v[j], u[j])
                        /\ PolySub(PolyAdd(u[j], v[j]), v[j]) = u[j] /\ PolyAdd(PolySub(u[j], v[j]), v[j]) = u[j]
                        /\ PolyAdd(PolyAdd(u[j], v[j]), w[j]) = PolyAdd(u[j], PolyAdd(v[j], w[j]))
      OBVIOUS
    <3>1. PICK a, b, c : a = u[j] /\ b = v[j] /\ c = w[j]
      OBVIOUS
    <3>2. a \in Poly /\ b \in Poly /\ c \in Poly
      BY <2>1, <3>1
    <3>3. /\ PolyAdd(a, b) = PolyAdd(b, a)
          /\ PolySub(PolyAdd(a, b), b) = a /\ PolyAdd(PolySub(a, b), b) = a
          /\ PolyAdd(PolyAdd(a, b), c) = PolyAdd(a, PolyAdd(b, c))
      BY <3>2, RingIsGroup
    <3> QED
      BY <3>1, <3>3
  <2>3. u = [j \in Rows |-> u[j]]
    BY DEF PolyVec
  <2> QED
    BY <2>2, <2>3 DEF VecAdd, VecSub
<1>3. ASSUME NEW u \in PolyVec, NEW v \in PolyVec
      PROVE  u[1] \in Poly /\ VecAdd(u, v)[1] = PolyAdd(u[1], v[1])
  BY <1>1 DEF VecAdd, PolyVec
<1>4. ASSUME NEW c \in ChallengePolys(Weight), NEW v \in PolyVec
      PROVE  ScalarVecMul(c, v)[1] = MulSchoolbook(c, v[1])
  BY <1>1 DEF ScalarVecMul
<1> QED
  BY <1>2, <1>3, <1>4

-----------------------------------------------------------------------------
(* Powers.                                                                 *)
LEMMA NatSetInduction ==
  ASSUME NEW S, 0 \in S, \A n \in Nat : n \in S => n + 1 \in S
  PROVE  \A n \in Nat : n \in S
<1> DEFINE Bad == {n \in Nat : n \notin S}
<1>1. SUFFICES ASSUME Bad # {} PROVE FALSE
  OBVIOUS
<1>2. Bad \subseteq Nat
  OBVIOUS
<1>3. PICK m \in Bad : \A j \in Bad : m <= j
  <2> HIDE DEF Bad
  <2> QED
    BY <1>1, <1>2, LeastNatural
<1>4. m \in Nat /\ m \notin S /\ m # 0
  OBVIOUS
<1>5. m - 1 \in Nat /\ (m - 1) + 1 = m /\ ~ m <= m - 1
  BY <1>4
<1>6. m - 1 \in Bad
  BY <1>4, <1>5
<1> HIDE DEF Bad
<1> QED
  BY <1>3, <1>5, <1>6

LEMMA CongChain ==
  ASSUME NEW a \in Int, NEW b \in Int, NEW c \in Int, Cong(a, b, Q), Cong(b, c, Q)
  PROVE  Cong(a, c, Q)
BY CoeffsInt, CongEquivalence

LEMMA CongFlip ==
  ASSUME NEW a \in Int, NEW b \in Int, Cong(a, b, Q)
  PROVE  Cong(b, a, Q)
BY CoeffsInt, CongEquivalence

LEMMA CongTimes ==
  ASSUME NEW a \in Int, NEW b \in Int, NEW c \in Int, Cong(b, c, Q)
  PROVE  Cong(a * b, a * c, Q)
<1>1. Q \in Int /\ Cong(a, a, Q)
  BY CoeffsInt, CongEquivalence
<1> QED
  BY <1>1, CongProducts

PowersUpto(p, b, n) ==
  p \in [0 .. n -> Int] /\ p[0] = 1 /\ \A i \in 0 .. n - 1 : p[i + 1] = b * p[i]

Power(b, n) == (CHOOSE p : PowersUpto(p, b, n))[n]

LEMMA PowersExist ==
  ASSUME NEW b \in Int
  PROVE  \A n \in Nat : \E p : PowersUpto(p, b, n)
<1> DEFINE S == {n \in Nat : \E p : PowersUpto(p, b, n)}
<1>1. 0 \in S
  <2>1. [i \in 0 .. 0 |-> 1] \in [0 .. 0 -> Int] /\ [i \in 0 .. 0 |-> 1][0] = 1
    OBVIOUS
  <2>2. PowersUpto([i \in 0 .. 0 |-> 1], b, 0)
    BY <2>1 DEF PowersUpto
  <2> QED
    BY <2>2
<1>2. ASSUME NEW n \in Nat, n \in S PROVE n + 1 \in S
  <2>1. PICK p : PowersUpto(p, b, n)
    BY <1>2
  <2> DEFINE r == [i \in 0 .. n + 1 |-> IF i = n + 1 THEN b * p[n] ELSE p[i]]
  <2>2. \A i \in 0 .. n : p[i] \in Int
    BY <2>1 DEF PowersUpto
  <2>3. b * p[n] \in Int
    BY <2>2
  <2>4. r \in [0 .. n + 1 -> Int]
    BY <2>2, <2>3
  <2>5. r[0] = 1
    BY <2>1 DEF PowersUpto
  <2>6. ASSUME NEW i \in 0 .. (n + 1) - 1 PROVE r[i + 1] = b * r[i]
    <3>1. CASE i = n
      BY <3>1
    <3>2. CASE i # n
      <4>1. i \in 0 .. n - 1 /\ i + 1 # n + 1 /\ i # n + 1 /\ i \in 0 .. n + 1 /\ i + 1 \in 0 .. n + 1
        BY <3>2
      <4>2. p[i + 1] = b * p[i]
        BY <2>1, <4>1 DEF PowersUpto
      <4> QED
        BY <4>1, <4>2
    <3> QED
      BY <3>1, <3>2
  <2> HIDE DEF r
  <2>7. PowersUpto(r, b, n + 1)
    BY <2>4, <2>5, <2>6 DEF PowersUpto
  <2> QED
    BY <2>7
<1>S. \A n : n \in S => \E p : PowersUpto(p, b, n)
  OBVIOUS
<1> HIDE DEF S
<1> QED
  BY <1>1, <1>2, <1>S, NatSetInduction

LEMMA PowersUnique ==
  ASSUME NEW b \in Int, NEW n \in Nat, NEW m \in Nat, NEW p, NEW r,
         PowersUpto(p, b, n), PowersUpto(r, b, m)
  PROVE  \A i \in Nat : i <= n /\ i <= m => p[i] = r[i]
<1> DEFINE S == {i \in Nat : i <= n /\ i <= m => p[i] = r[i]}
<1>1. 0 \in S
  BY DEF PowersUpto
<1>2. ASSUME NEW i \in Nat, i \in S PROVE i + 1 \in S
  <2>1. SUFFICES ASSUME i + 1 <= n, i + 1 <= m PROVE p[i + 1] = r[i + 1]
    OBVIOUS
  <2>2. i \in 0 .. n - 1 /\ i \in 0 .. m - 1 /\ p[i] = r[i]
    BY <1>2, <2>1
  <2> QED
    BY <2>2 DEF PowersUpto
<1>S. \A i \in Nat : i \in S => (i <= n /\ i <= m => p[i] = r[i])
  OBVIOUS
<1> HIDE DEF S
<1> QED
  BY <1>1, <1>2, <1>S, NatSetInduction

LEMMA PowerStep ==
  ASSUME NEW b \in Int, NEW n \in Nat
  PROVE  /\ Power(b, 0) = 1
         /\ Power(b, n) \in Int
         /\ Power(b, n + 1) = b * Power(b, n)
<1>1. ASSUME NEW m \in Nat PROVE PowersUpto(CHOOSE p : PowersUpto(p, b, m), b, m)
  BY PowersExist
<1>2. PICK p : PowersUpto(p, b, 0) /\ Power(b, 0) = p[0]
  BY <1>1 DEF Power
<1>3. PICK r : PowersUpto(r, b, n) /\ Power(b, n) = r[n]
  BY <1>1 DEF Power
<1>4. n + 1 \in Nat
  OBVIOUS
<1>5. PICK t : PowersUpto(t, b, n + 1) /\ Power(b, n + 1) = t[n + 1]
  BY <1>1, <1>4 DEF Power
<1>6. t[n] = r[n]
  BY <1>3, <1>4, <1>5, PowersUnique
<1>7. t[n + 1] = b * t[n]
  BY <1>5 DEF PowersUpto
<1>8. r[n] \in Int
  BY <1>3 DEF PowersUpto
<1>9. p[0] = 1
  BY <1>2 DEF PowersUpto
<1> QED
  BY <1>2, <1>3, <1>5, <1>6, <1>7, <1>8, <1>9

LEMMA PowerAdds ==
  ASSUME NEW b \in Int, NEW m \in Nat
  PROVE  \A n \in Nat : Power(b, m + n) = Power(b, m) * Power(b, n)
<1> DEFINE S == {n \in Nat : Power(b, m + n) = Power(b, m) * Power(b, n)}
<1>0. \A n \in Nat : Power(b, n) \in Int /\ Power(b, n + 1) = b * Power(b, n) /\ Power(b, 0) = 1
  BY PowerStep
<1>1. 0 \in S
  BY <1>0
<1>2. ASSUME NEW n \in Nat, n \in S PROVE n + 1 \in S
  <2>1. m + n \in Nat /\ m + (n + 1) = (m + n) + 1
    OBVIOUS
  <2>2. Power(b, m + (n + 1)) = b * (Power(b, m) * Power(b, n))
    BY <1>0, <1>2, <2>1
  <2>3. \A x, y \in Int : b * (x * y) = x * (b * y)
    OBVIOUS
  <2>4. Power(b, m + (n + 1)) = Power(b, m) * Power(b, n + 1)
    BY <1>0, <2>2, <2>3
  <2> QED
    BY <2>4
<1>S. \A n : n \in S => Power(b, m + n) = Power(b, m) * Power(b, n)
  OBVIOUS
<1> HIDE DEF S
<1> QED
  BY <1>1, <1>2, <1>S, NatSetInduction

LEMMA PowerTimes ==
  ASSUME NEW b \in Int, NEW m \in Nat
  PROVE  \A n \in Nat : Power(Power(b, m), n) = Power(b, m * n)
<1> DEFINE c == Power(b, m)
           S == {n \in Nat : Power(c, n) = Power(b, m * n)}
<1>0. c \in Int
  BY PowerStep
<1> HIDE DEF c
<1>1. 0 \in S
  <2>1. m * 0 = 0
    OBVIOUS
  <2> QED
    BY <1>0, <2>1, PowerStep
<1>2. ASSUME NEW n \in Nat, n \in S PROVE n + 1 \in S
  <2>1. m * n \in Nat /\ m * (n + 1) = m + m * n
    OBVIOUS
  <2>2. Power(b, m * (n + 1)) = Power(b, m) * Power(b, m * n)
    BY <2>1, PowerAdds
  <2>3. Power(c, n + 1) = c * Power(c, n)
    BY <1>0, PowerStep
  <2> QED
    BY <1>2, <2>2, <2>3 DEF c
<1>S. \A n : n \in S => Power(c, n) = Power(b, m * n)
  OBVIOUS
<1> HIDE DEF S
<1>3. \A n \in Nat : Power(c, n) = Power(b, m * n)
  BY <1>1, <1>2, <1>S, NatSetInduction
<1> QED
  BY <1>3 DEF c

LEMMA PowerOfProduct ==
  ASSUME NEW a \in Int, NEW b \in Int
  PROVE  \A n \in Nat : Power(a * b, n) = Power(a, n) * Power(b, n)
<1> DEFINE S == {n \in Nat : Power(a * b, n) = Power(a, n) * Power(b, n)}
<1>0. a * b \in Int
  OBVIOUS
<1>1. 0 \in S
  BY <1>0, PowerStep
<1>2. ASSUME NEW n \in Nat, n \in S PROVE n + 1 \in S
  <2>1. PICK x, y : x = Power(a, n) /\ y = Power(b, n)
    OBVIOUS
  <2>2. x \in Int /\ y \in Int
    BY <2>1, PowerStep
  <2>3. Power(a * b, n + 1) = (a * b) * (x * y)
    BY <1>0, <1>2, <2>1, PowerStep
  <2>4. Power(a, n + 1) = a * x /\ Power(b, n + 1) = b * y
    BY <2>1, PowerStep
  <2>5. (a * b) * (x * y) = (a * x) * (b * y)
    BY <2>2
  <2> QED
    BY <2>3, <2>4, <2>5
<1>S. \A n : n \in S => Power(a * b, n) = Power(a, n) * Power(b, n)
  OBVIOUS
<1> HIDE DEF S
<1> QED
  BY <1>1, <1>2, <1>S, NatSetInduction

LEMMA PowerCong ==
  ASSUME NEW a \in Int, NEW b \in Int, Cong(a, b, Q)
  PROVE  \A n \in Nat : Cong(Power(a, n), Power(b, n), Q)
<1> DEFINE S == {n \in Nat : Cong(Power(a, n), Power(b, n), Q)}
<1>0. Q \in Int /\ 1 \in Int
  BY CoeffsInt
<1>1. 0 \in S
  <2>1. Power(a, 0) = 1 /\ Power(b, 0) = 1
    BY PowerStep
  <2> QED
    BY <1>0, <2>1, CongEquivalence
<1>2. ASSUME NEW n \in Nat, n \in S PROVE n + 1 \in S
  <2>1. Power(a, n) \in Int /\ Power(b, n) \in Int /\ Cong(Power(a, n), Power(b, n), Q)
    BY <1>2, PowerStep
  <2>2. Cong(a * Power(a, n), b * Power(b, n), Q)
    BY <1>0, <2>1, CongProducts
  <2>3. Power(a, n + 1) = a * Power(a, n) /\ Power(b, n + 1) = b * Power(b, n)
    BY PowerStep
  <2> QED
    BY <2>2, <2>3
<1>S. \A n : n \in S => Cong(Power(a, n), Power(b, n), Q)
  OBVIOUS
<1> HIDE DEF S
<1> QED
  BY <1>1, <1>2, <1>S, NatSetInduction

LEMMA PowerOfOne == \A n \in Nat : Power(1, n) = 1
<1> DEFINE S == {n \in Nat : Power(1, n) = 1}
<1>1. 0 \in S
  BY PowerStep
<1>2. ASSUME NEW n \in Nat, n \in S PROVE n + 1 \in S
  BY <1>2, PowerStep
<1>S. \A n : n \in S => Power(1, n) = 1
  OBVIOUS
<1> HIDE DEF S
<1> QED
  BY <1>1, <1>2, <1>S, NatSetInduction

LEMMA PowerOfMinusOne == \A n \in Nat : Power(-1, 2 * n) = 1 /\ Power(-1, 2 * n + 1) = -1
<1> SUFFICES ASSUME NEW n \in Nat PROVE Power(-1, 2 * n) = 1 /\ Power(-1, 2 * n + 1) = -1
  OBVIOUS
<1>0. -1 \in Int /\ 2 \in Nat /\ 1 \in Nat /\ 0 \in Nat /\ 0 + 1 = 1 /\ 1 + 1 = 2 /\ 2 * n \in Nat
  OBVIOUS
<1>1. Power(-1, 0) = 1
  BY <1>0, PowerStep
<1>2. Power(-1, 1) = (-1) * 1
  BY <1>0, <1>1, PowerStep
<1>3. Power(-1, 2) = (-1) * ((-1) * 1)
  BY <1>0, <1>2, PowerStep
<1>4. (-1) * ((-1) * 1) = 1
  OBVIOUS
<1>5. Power(-1, 2 * n) = Power(1, n)
  BY <1>0, <1>3, <1>4, PowerTimes
<1>6. Power(-1, 2 * n) = 1
  BY <1>5, PowerOfOne
<1>7. Power(-1, 2 * n + 1) = (-1) * 1
  BY <1>0, <1>6, PowerStep
<1> QED
  BY <1>6, <1>7

-----------------------------------------------------------------------------
(* What a fold over 1 .. n computes is a sequence of states.               *)
Kept(P, T, n) == P[0] \in T /\ \A i \in 1 .. n : P[i - 1] \in T => P[i] \in T

LEMMA RunTyped ==
  ASSUME NEW n \in Nat, NEW T, NEW P, Kept(P, T, n)
  PROVE  \A i \in 0 .. n : P[i] \in T
<1> DEFINE S == {i \in Nat : i <= n => P[i] \in T}
<1>1. 0 \in S
  BY DEF Kept
<1>2. ASSUME NEW i \in Nat, i \in S PROVE i + 1 \in S
  <2>1. SUFFICES ASSUME i + 1 <= n PROVE P[i + 1] \in T
    OBVIOUS
  <2>2. i + 1 \in 1 .. n /\ (i + 1) - 1 = i /\ P[i] \in T
    BY <1>2, <2>1
  <2> QED
    BY <2>2 DEF Kept
<1>S. \A i \in Nat : i \in S => (i <= n => P[i] \in T)
  OBVIOUS
<1> HIDE DEF S
<1>3. \A i \in Nat : i \in S
  BY <1>1, <1>2, NatSetInduction
<1> QED
  BY <1>3, <1>S

LEMMA PrefixMax ==
  ASSUME NEW n \in Nat
  PROVE  /\ IsFiniteSet(1 .. n)
         /\ \A s \in SUBSET (1 .. n) : s # {} => Max(s) \in s
         /\ \A i \in 1 .. n : Max(1 .. i) = i /\ (1 .. i) \ {i} = 1 .. i - 1 /\ 1 .. i \in SUBSET (1 .. n) /\ 1 .. i # {}
         /\ 1 .. 0 = {} /\ {} \in SUBSET (1 .. n)
<1>1. IsFiniteSet(1 .. n)
  BY FS_Interval
<1>2. \A s \in SUBSET (1 .. n) : s # {} => Max(s) \in s
  BY MaxIsMember
<1>3. ASSUME NEW i \in 1 .. n PROVE Max(1 .. i) = i
  <2>1. 1 .. i \in SUBSET (0 .. n) /\ 1 .. i # {} /\ i \in 1 .. i
    OBVIOUS
  <2>2. Max(1 .. i) \in 1 .. i /\ \A x \in 1 .. i : x <= Max(1 .. i)
    BY <2>1, LargestNatural
  <2> QED
    BY <2>1, <2>2
<1>4. \A i \in 1 .. n : (1 .. i) \ {i} = 1 .. i - 1 /\ 1 .. i \in SUBSET (1 .. n) /\ 1 .. i # {}
  OBVIOUS
<1>5. 1 .. 0 = {}
  OBVIOUS
<1> QED
  BY <1>1, <1>2, <1>3, <1>4, <1>5

LeftFold(f, n, base, F) ==
  f = [s \in SUBSET (1 .. n) |-> IF s = {} THEN base ELSE F[Max(s)][f[s \ {Max(s)}]]]

LeftData(T, n, base, F) == base \in T /\ F \in [1 .. n -> [T -> T]]

LEMMA LeftFoldExists ==
  ASSUME NEW n \in Nat, NEW T, NEW base, NEW F, LeftData(T, n, base, F)
  PROVE  \E f \in [SUBSET (1 .. n) -> T] : LeftFold(f, n, base, F)
<1> DEFINE D  == 1 .. n
           ch == [s \in SUBSET D |-> Max(s)]
<1>1. FoldData(D, T, base, F, ch)
  BY PrefixMax DEF FoldData, LeftData
<1>2. PICK g \in [SUBSET D -> T] : Folds(g, D, base, F, ch)
  <2> HIDE DEF D, ch
  <2> QED
    BY <1>1, FoldExists
<1>3. g = [s \in SUBSET D |-> IF s = {} THEN base ELSE F[Max(s)][g[s \ {Max(s)}]]]
  <2>1. \A s \in SUBSET D : g[s] = IF s = {} THEN base ELSE F[Max(s)][g[s \ {Max(s)}]]
    BY <1>2 DEF Folds
  <2>2. g = [s \in SUBSET D |-> g[s]]
    BY <1>2
  <2> QED
    BY <2>1, <2>2, Zenon
<1>4. LeftFold(g, n, base, F)
  BY <1>3 DEF LeftFold
<1> QED
  BY <1>4

(* A function on the prefixes of 1 .. n.                                   *)
AlongPrefixes(f, n) == [i \in 0 .. n |-> f[1 .. i]]

LEMMA AlongPrefixesAre ==
  ASSUME NEW n \in Nat, NEW f
  PROVE  /\ AlongPrefixes(f, n)[0] = f[{}] /\ AlongPrefixes(f, n)[n] = f[1 .. n]
         /\ AlongPrefixes(f, n) = [i \in 0 .. n |-> AlongPrefixes(f, n)[i]]
<1>1. \A i \in 0 .. n : AlongPrefixes(f, n)[i] = f[1 .. i]
  BY DEF AlongPrefixes
<1>2. 0 \in 0 .. n /\ n \in 0 .. n
  OBVIOUS
<1>3. AlongPrefixes(f, n) = [i \in 0 .. n |-> AlongPrefixes(f, n)[i]]
  BY DEF AlongPrefixes
<1> QED
  BY <1>1, <1>2, <1>3, PrefixMax

-----------------------------------------------------------------------------
(* Square and multiply.                                                    *)
PowStates == [result : Nat, exp : Nat, base : Nat]

PowStep(s) ==
  [result |-> IF s.exp % 2 = 1 THEN (s.result * s.base) % Q ELSE s.result,
   exp    |-> s.exp \div 2,
   base   |-> (s.base * s.base) % Q]

PowStart(b, e) == [result |-> 1, exp |-> e, base |-> b % Q]

LEMMA PowStepTyped ==
  ASSUME NEW s \in PowStates
  PROVE  PowStep(s) \in PowStates
<1>1. s.result \in Nat /\ s.exp \in Nat /\ s.base \in Nat /\ Q \in Nat /\ Q > 0
  BY ModulusHolds DEF PowStates, ModulusIs
<1>2. (s.result * s.base) \in Nat /\ s.base * s.base \in Nat
  BY <1>1
<1>3. (s.result * s.base) % Q \in Nat /\ (s.base * s.base) % Q \in Nat /\ s.exp \div 2 \in Nat
  BY <1>1, <1>2
<1> QED
  BY <1>1, <1>3 DEF PowStep, PowStates

LEMMA PowRuns ==
  ASSUME NEW b \in Nat, NEW e \in Nat
  PROVE  \E P : /\ P \in [0 .. e -> PowStates] /\ P[0] = PowStart(b, e)
                /\ \A i \in 1 .. e : P[i] = PowStep(P[i - 1])
                /\ pow_mod(b, e) = P[e].result
<1> DEFINE T    == PowStates
           base == PowStart(b, e)
           F    == [i \in 1 .. e |-> [s \in T |-> PowStep(s)]]
           seq  == [i \in 1 .. e |-> i]
           Eq(f) == f = [s \in SUBSET (1 .. e) |-> IF s = {} THEN base ELSE
                           [result |-> IF f[s \ {Max(s)}].exp % 2 = 1
                                       THEN (f[s \ {Max(s)}].result * f[s \ {Max(s)}].base) % Q
                                       ELSE f[s \ {Max(s)}].result,
                            exp    |-> f[s \ {Max(s)}].exp \div 2,
                            base   |-> (f[s \ {Max(s)}].base * f[s \ {Max(s)}].base) % Q]]
<1>1. LeftData(T, e, base, F)
  <2>1. base \in T
    BY ModulusHolds DEF PowStart, PowStates, ModulusIs
  <2> QED
    BY <2>1, PowStepTyped DEF LeftData
<1>2. pow_mod(b, e) = ((CHOOSE f : Eq(f))[1 .. e]).result
  <2>1. DOMAIN seq = 1 .. e
    OBVIOUS
  <2> QED
    BY <2>1, Zenon DEF pow_mod, FoldLeft, MapThenFoldSet, PowStart
<1>3. PICK g \in [SUBSET (1 .. e) -> T] : LeftFold(g, e, base, F)
  <2> HIDE DEF T, base, F
  <2> QED
    BY <1>1, LeftFoldExists
<1>4. Eq(g)
  <2>1. \A s \in SUBSET (1 .. e) : s # {} => Max(s) \in 1 .. e /\ g[s \ {Max(s)}] \in T
    BY PrefixMax
  <2>2. \A s \in SUBSET (1 .. e) : s # {} => F[Max(s)][g[s \ {Max(s)}]] = PowStep(g[s \ {Max(s)}])
    BY <2>1
  <2>3. g = [s \in SUBSET (1 .. e) |-> IF s = {} THEN base ELSE F[Max(s)][g[s \ {Max(s)}]]]
    BY <1>3 DEF LeftFold
  <2> HIDE DEF F, base, T
  <2>4. g = [s \in SUBSET (1 .. e) |-> IF s = {} THEN base ELSE PowStep(g[s \ {Max(s)}])]
    BY <2>2, <2>3
  <2> QED
    BY <2>4, Zenon DEF PowStep
<1>5. PICK f : Eq(f) /\ pow_mod(b, e) = (f[1 .. e]).result
  <2> HIDE DEF Eq
  <2> QED
    BY <1>2, <1>4, Zenon
<1>6. \A s \in SUBSET (1 .. e) : f[s] = IF s = {} THEN base ELSE PowStep(f[s \ {Max(s)}])
  BY <1>5, Zenon DEF PowStep
<1> HIDE DEF T, base, F, seq, Eq
<1> DEFINE P == AlongPrefixes(f, e)
<1>7. P[0] = base /\ \A i \in 1 .. e : P[i] = PowStep(P[i - 1])
  <2>1. P[0] = f[{}] /\ f[{}] = base
    BY <1>6, PrefixMax, AlongPrefixesAre
  <2>2. ASSUME NEW i \in 1 .. e PROVE P[i] = PowStep(P[i - 1])
    <3>1. P[i] = f[1 .. i] /\ P[i - 1] = f[(1 .. i) \ {Max(1 .. i)}]
      <4>1. P[i] = f[1 .. i]
        BY DEF AlongPrefixes
      <4>2. P[i - 1] = f[1 .. i - 1]
        BY DEF AlongPrefixes
      <4>3. (1 .. i) \ {Max(1 .. i)} = 1 .. i - 1
        BY PrefixMax
      <4> QED
        BY <4>1, <4>2, <4>3
    <3>2. 1 .. i \in SUBSET (1 .. e) /\ 1 .. i # {}
      BY PrefixMax
    <3> HIDE DEF P
    <3> QED
      BY <1>6, <3>1, <3>2
  <2> QED
    BY <2>1, <2>2
<1>8. P[e] = f[1 .. e] /\ P = [i \in 0 .. e |-> P[i]]
  BY AlongPrefixesAre
<1> HIDE DEF P
<1>9. Kept(P, PowStates, e)
  BY <1>1, <1>7, PowStepTyped DEF Kept, LeftData, T
<1>10. P \in [0 .. e -> PowStates]
  BY <1>8, <1>9, RunTyped
<1> QED
  BY <1>5, <1>7, <1>8, <1>10 DEF base

(* pow_mod computes powers.                                                *)
LEMMA PowModIs ==
  ASSUME NEW b \in Nat, NEW e \in Nat
  PROVE  pow_mod(b, e) \in Nat /\ Cong(pow_mod(b, e), Power(b, e), Q)
<1>1. PICK P : /\ P \in [0 .. e -> PowStates] /\ P[0] = PowStart(b, e)
               /\ \A i \in 1 .. e : P[i] = PowStep(P[i - 1])
               /\ pow_mod(b, e) = P[e].result
  BY PowRuns
<1>0. Q \in Int /\ Q \in Nat /\ Q > 0
  BY ModulusHolds DEF ModulusIs
<1>2. ASSUME NEW s \in PowStates
      PROVE  LET t == PowStep(s) IN
               Cong(t.result * Power(t.base, t.exp), s.result * Power(s.base, s.exp), Q)
  <2> DEFINE x == s.result
             y == s.base
             n == s.exp \div 2
             z == (y * y) % Q
  <2>1. x \in Nat /\ y \in Nat /\ s.exp \in Nat /\ n \in Nat /\ z \in Nat
    <3>1. x \in Nat /\ y \in Nat /\ s.exp \in Nat
      BY DEF PowStates
    <3>2. y * y \in Nat
      BY <3>1
    <3> HIDE DEF x, y
    <3>3. n \in Nat
      BY <3>1
    <3> QED
      BY <1>0, <3>1, <3>2, <3>3
  <2>2. PowStep(s) = [result |-> IF s.exp % 2 = 1 THEN (x * y) % Q ELSE x, exp |-> n, base |-> z]
    BY DEF PowStep
  <2>3. s.exp = 2 * n + (s.exp % 2) /\ s.exp % 2 \in {0, 1}
    <3>1. \A m \in Nat : m = 2 * (m \div 2) + (m % 2) /\ m % 2 \in {0, 1}
      OBVIOUS
    <3> QED
      BY <2>1, <3>1
  <2> HIDE DEF n, z, x, y
  <2>4. Power(z, n) \in Int /\ Power(y, 2 * n) \in Int /\ 2 * n \in Nat /\ y * y \in Int
    <3>1. 2 * n \in Nat /\ z \in Int /\ y \in Int
      BY <2>1
    <3>2. y * y \in Int
      BY <3>1
    <3> QED
      BY <2>1, <3>1, <3>2, PowerStep
  <2>5. Cong(Power(z, n), Power(y, 2 * n), Q)
    <3>1. Cong(z, y * y, Q)
      BY <1>0, <2>4, CongResidue DEF z
    <3>2. Cong(Power(z, n), Power(y * y, n), Q)
      BY <2>1, <2>4, <3>1, PowerCong
    <3>3. Power(y, 2) = y * y
      <4>1. y \in Int /\ 0 \in Nat /\ 1 \in Nat
        BY <2>1
      <4>2. Power(y, 0) = 1 /\ Power(y, 0 + 1) = y * Power(y, 0) /\ Power(y, 1 + 1) = y * Power(y, 1)
        BY <4>1, PowerStep
      <4>3. 0 + 1 = 1 /\ 1 + 1 = 2 /\ y * 1 = y
        BY <4>1
      <4> QED
        BY <4>2, <4>3
    <3>4. Power(Power(y, 2), n) = Power(y, 2 * n)
      BY <2>1, PowerTimes
    <3> QED
      BY <3>2, <3>3, <3>4
  <2>6. CASE s.exp % 2 = 1
    <3>1. s.exp = 2 * n + 1 /\ Power(y, 2 * n + 1) = y * Power(y, 2 * n)
      BY <2>1, <2>3, <2>4, <2>6, PowerStep
    <3>2. x * y \in Int
      BY <2>1
    <3>3. Cong((x * y) % Q, x * y, Q) /\ (x * y) % Q \in Int
      BY <1>0, <3>2, CongResidue
    <3>4. Cong(((x * y) % Q) * Power(z, n), (x * y) * Power(y, 2 * n), Q)
      BY <1>0, <2>4, <2>5, <3>2, <3>3, CongProducts
    <3>5. (x * y) * Power(y, 2 * n) = x * Power(y, s.exp)
      <4>1. \A p \in Int : (x * y) * p = x * (y * p)
        BY <2>1
      <4> QED
        BY <2>4, <3>1, <4>1
    <3> QED
      BY <2>2, <2>6, <3>4, <3>5 DEF x, y
  <2>7. CASE s.exp % 2 # 1
    <3>1. s.exp = 2 * n
      BY <2>1, <2>3, <2>7
    <3>2. Cong(x, x, Q)
      BY <1>0, <2>1, CongEquivalence
    <3>3. Cong(x * Power(z, n), x * Power(y, 2 * n), Q)
      BY <1>0, <2>1, <2>4, <2>5, <3>2, CongProducts
    <3> QED
      BY <2>2, <2>7, <3>1, <3>3 DEF x, y
  <2> QED
    BY <2>6, <2>7
<1> DEFINE Value(s) == s.result * Power(s.base, s.exp)
           S == {i \in Nat : i <= e => Cong(Value(P[i]), Power(b, e), Q) /\ P[i].exp <= e - i}
<1>3. \A i \in 0 .. e : P[i] \in PowStates /\ Value(P[i]) \in Int
  <2>1. \A i \in 0 .. e : P[i] \in PowStates
    BY <1>1
  <2>2. ASSUME NEW s \in PowStates PROVE Value(s) \in Int
    <3>1. s.result \in Int /\ s.base \in Int /\ s.exp \in Nat
      BY DEF PowStates
    <3>2. Power(s.base, s.exp) \in Int
      BY <3>1, PowerStep
    <3> QED
      BY <3>1, <3>2
  <2> QED
    BY <2>1, <2>2
<1>4. 0 \in S
  <2>1. P[0].result = 1 /\ P[0].exp = e /\ P[0].base = b % Q
    BY <1>1 DEF PowStart
  <2>2. Cong(b % Q, b, Q) /\ b % Q \in Int
    BY <1>0, CongResidue
  <2>3. Cong(Power(b % Q, e), Power(b, e), Q)
    BY <2>2, PowerCong
  <2>4. Power(b % Q, e) \in Int
    BY <2>2, PowerStep
  <2>5. Value(P[0]) = Power(b % Q, e)
    BY <2>1, <2>4
  <2> HIDE DEF Value
  <2> QED
    BY <2>1, <2>3, <2>5
<1>5. ASSUME NEW i \in Nat, i \in S PROVE i + 1 \in S
  <2>1. SUFFICES ASSUME i + 1 <= e PROVE Cong(Value(P[i + 1]), Power(b, e), Q) /\ P[i + 1].exp <= e - (i + 1)
    OBVIOUS
  <2>2. i \in 0 .. e /\ i + 1 \in 1 .. e /\ i + 1 \in 0 .. e /\ (i + 1) - 1 = i
    BY <2>1
  <2>3. P[i + 1] = PowStep(P[i]) /\ P[i] \in PowStates
    BY <1>1, <1>3, <2>2
  <2>4. Cong(Value(P[i + 1]), Value(P[i]), Q)
    BY <1>2, <2>3
  <2>5. Cong(Value(P[i]), Power(b, e), Q) /\ P[i].exp <= e - i
    BY <1>5, <2>2
  <2>6. Power(b, e) \in Int
    BY PowerStep
  <2>7. Cong(Value(P[i + 1]), Power(b, e), Q)
    <3> HIDE DEF Value
    <3> QED
      BY <1>0, <1>3, <2>2, <2>4, <2>5, <2>6, CongEquivalence
  <2>8. P[i + 1].exp = P[i].exp \div 2 /\ P[i].exp \in Nat
    BY <2>3 DEF PowStep, PowStates
  <2>9. P[i + 1].exp <= e - (i + 1)
    <3>1. \A n \in Nat : n \div 2 <= n /\ (n > 0 => n \div 2 <= n - 1) /\ (n = 0 => n \div 2 = 0)
      OBVIOUS
    <3> QED
      BY <2>1, <2>5, <2>8, <3>1
  <2> QED
    BY <2>7, <2>9
<1>S. \A i \in Nat : i \in S => (i <= e => Cong(Value(P[i]), Power(b, e), Q) /\ P[i].exp <= e - i)
  OBVIOUS
<1> HIDE DEF S
<1>6. e \in S
  BY <1>4, <1>5, NatSetInduction
<1>7. Cong(Value(P[e]), Power(b, e), Q) /\ P[e].exp <= 0 /\ P[e] \in PowStates
  BY <1>1, <1>6, <1>S
<1>8. P[e].exp = 0 /\ P[e].result \in Nat /\ P[e].base \in Int
  BY <1>7 DEF PowStates
<1>9. Power(P[e].base, 0) = 1
  BY <1>8, PowerStep
<1>10. Value(P[e]) = P[e].result
  BY <1>8, <1>9
<1> QED
  BY <1>1, <1>7, <1>8, <1>10

-----------------------------------------------------------------------------
(* Bit reversal.                                                           *)
RevStates == [result : Nat, x : Nat]

RevStep(s) == [result |-> 2 * s.result + (s.x % 2), x |-> s.x \div 2]

RevStart(x) == [result |-> 0, x |-> x]

LEMMA RevStepTyped ==
  ASSUME NEW s \in RevStates
  PROVE  RevStep(s) \in RevStates
<1>1. s.result \in Nat /\ s.x \in Nat
  BY DEF RevStates
<1>2. 2 * s.result + (s.x % 2) \in Nat /\ s.x \div 2 \in Nat
  BY <1>1
<1> QED
  BY <1>2 DEF RevStep, RevStates

LEMMA RevRuns ==
  ASSUME NEW x \in Nat, NEW n \in Nat
  PROVE  \E P : /\ P \in [0 .. n -> RevStates] /\ P[0] = RevStart(x)
                /\ \A i \in 1 .. n : P[i] = RevStep(P[i - 1])
                /\ bit_reverse(x, n) = P[n].result
<1> DEFINE T    == RevStates
           base == RevStart(x)
           F    == [i \in 1 .. n |-> [s \in T |-> RevStep(s)]]
           seq  == [i \in 1 .. n |-> i]
           Eq(f) == f = [s \in SUBSET (1 .. n) |-> IF s = {} THEN base ELSE
                           [result |-> 2 * f[s \ {Max(s)}].result + (f[s \ {Max(s)}].x % 2),
                            x      |-> f[s \ {Max(s)}].x \div 2]]
<1>1. LeftData(T, n, base, F)
  <2>1. base \in T
    BY DEF RevStart, RevStates
  <2> QED
    BY <2>1, RevStepTyped DEF LeftData
<1>2. bit_reverse(x, n) = ((CHOOSE f : Eq(f))[1 .. n]).result
  <2>1. DOMAIN seq = 1 .. n
    OBVIOUS
  <2> QED
    BY <2>1, Zenon DEF bit_reverse, FoldLeft, MapThenFoldSet, RevStart
<1>3. PICK g \in [SUBSET (1 .. n) -> T] : LeftFold(g, n, base, F)
  <2> HIDE DEF T, base, F
  <2> QED
    BY <1>1, LeftFoldExists
<1>4. Eq(g)
  <2>1. \A s \in SUBSET (1 .. n) : s # {} => Max(s) \in 1 .. n /\ g[s \ {Max(s)}] \in T
    BY PrefixMax
  <2>2. \A s \in SUBSET (1 .. n) : s # {} => F[Max(s)][g[s \ {Max(s)}]] = RevStep(g[s \ {Max(s)}])
    BY <2>1
  <2>3. g = [s \in SUBSET (1 .. n) |-> IF s = {} THEN base ELSE F[Max(s)][g[s \ {Max(s)}]]]
    BY <1>3 DEF LeftFold
  <2> HIDE DEF F, base, T
  <2>4. g = [s \in SUBSET (1 .. n) |-> IF s = {} THEN base ELSE RevStep(g[s \ {Max(s)}])]
    BY <2>2, <2>3
  <2> QED
    BY <2>4, Zenon DEF RevStep
<1>5. PICK f : Eq(f) /\ bit_reverse(x, n) = (f[1 .. n]).result
  <2> HIDE DEF Eq
  <2> QED
    BY <1>2, <1>4, Zenon
<1>6. \A s \in SUBSET (1 .. n) : f[s] = IF s = {} THEN base ELSE RevStep(f[s \ {Max(s)}])
  BY <1>5, Zenon DEF RevStep
<1> HIDE DEF T, base, F, seq, Eq
<1> DEFINE P == AlongPrefixes(f, n)
<1>7. P[0] = base /\ \A i \in 1 .. n : P[i] = RevStep(P[i - 1])
  <2>1. P[0] = f[{}] /\ f[{}] = base
    BY <1>6, PrefixMax, AlongPrefixesAre
  <2>2. ASSUME NEW i \in 1 .. n PROVE P[i] = RevStep(P[i - 1])
    <3>1. P[i] = f[1 .. i] /\ P[i - 1] = f[(1 .. i) \ {Max(1 .. i)}]
      <4>1. P[i] = f[1 .. i]
        BY DEF AlongPrefixes
      <4>2. P[i - 1] = f[1 .. i - 1]
        BY DEF AlongPrefixes
      <4>3. (1 .. i) \ {Max(1 .. i)} = 1 .. i - 1
        BY PrefixMax
      <4> QED
        BY <4>1, <4>2, <4>3
    <3>2. 1 .. i \in SUBSET (1 .. n) /\ 1 .. i # {}
      BY PrefixMax
    <3> HIDE DEF P
    <3> QED
      BY <1>6, <3>1, <3>2
  <2> QED
    BY <2>1, <2>2
<1>8. P[n] = f[1 .. n] /\ P = [i \in 0 .. n |-> P[i]]
  BY AlongPrefixesAre
<1> HIDE DEF P
<1>9. Kept(P, RevStates, n)
  BY <1>1, <1>7, RevStepTyped DEF Kept, LeftData, T
<1>10. P \in [0 .. n -> RevStates]
  BY <1>8, <1>9, RunTyped
<1> QED
  BY <1>5, <1>7, <1>8, <1>10 DEF base

(* Reversing one bit more puts the lowest one in front.                    *)
LEMMA RevGrows ==
  ASSUME NEW x \in Nat, NEW n \in Nat
  PROVE  /\ bit_reverse(x, 0) = 0 /\ bit_reverse(x, n) \in Nat
         /\ bit_reverse(x, n + 1) = (x % 2) * Power(2, n) + bit_reverse(x \div 2, n)
<1>1. PICK Z : Z[0] = RevStart(x) /\ bit_reverse(x, 0) = Z[0].result
  BY RevRuns
<1>2. PICK Y : Y \in [0 .. n -> RevStates] /\ bit_reverse(x, n) = Y[n].result
  BY RevRuns
<1>3. bit_reverse(x, 0) = 0 /\ bit_reverse(x, n) \in Nat
  BY <1>1, <1>2 DEF RevStart, RevStates
<1>4. n + 1 \in Nat /\ x \div 2 \in Nat /\ x % 2 \in Nat
  OBVIOUS
<1>5. PICK P : /\ P \in [0 .. n + 1 -> RevStates] /\ P[0] = RevStart(x)
               /\ \A i \in 1 .. n + 1 : P[i] = RevStep(P[i - 1])
               /\ bit_reverse(x, n + 1) = P[n + 1].result
  BY <1>4, RevRuns
<1>6. PICK R : /\ R \in [0 .. n -> RevStates] /\ R[0] = RevStart(x \div 2)
               /\ \A i \in 1 .. n : R[i] = RevStep(R[i - 1])
               /\ bit_reverse(x \div 2, n) = R[n].result
  BY <1>4, RevRuns
<1> DEFINE top == x % 2
           S == {i \in Nat : i <= n => /\ P[i + 1].x = R[i].x
                                       /\ P[i + 1].result = top * Power(2, i) + R[i].result}
<1>7. 0 \in S
  <2>1. 1 \in 1 .. n + 1 /\ 1 - 1 = 0 /\ 0 + 1 = 1
    BY <1>4
  <2>2. P[1] = RevStep(RevStart(x))
    BY <1>5, <2>1
  <2>3. P[1].x = x \div 2 /\ P[1].result = 2 * 0 + top
    BY <2>2 DEF RevStep, RevStart
  <2>4. R[0].x = x \div 2 /\ R[0].result = 0
    BY <1>6 DEF RevStart
  <2>5. Power(2, 0) = 1
    BY PowerStep
  <2> QED
    BY <2>1, <2>3, <2>4, <2>5
<1>8. ASSUME NEW i \in Nat, i \in S PROVE i + 1 \in S
  <2>1. SUFFICES ASSUME i + 1 <= n
                 PROVE  /\ P[(i + 1) + 1].x = R[i + 1].x
                        /\ P[(i + 1) + 1].result = top * Power(2, i + 1) + R[i + 1].result
    OBVIOUS
  <2>2. /\ (i + 1) + 1 \in 1 .. n + 1 /\ ((i + 1) + 1) - 1 = i + 1 /\ i + 1 \in 1 .. n /\ (i + 1) - 1 = i
        /\ i + 1 \in 0 .. n + 1 /\ i \in 0 .. n
    BY <2>1
  <2>3. P[(i + 1) + 1] = RevStep(P[i + 1]) /\ R[i + 1] = RevStep(R[i])
    BY <1>5, <1>6, <2>2
  <2>4. P[i + 1].x = R[i].x /\ P[i + 1].result = top * Power(2, i) + R[i].result
    BY <1>8, <2>1
  <2>5. R[i].result \in Nat /\ R[i].x \in Nat
    BY <1>6, <2>2 DEF RevStates
  <2>6. Power(2, i) \in Int /\ Power(2, i + 1) = 2 * Power(2, i)
    BY PowerStep
  <2>7. P[(i + 1) + 1].x = R[i + 1].x
    BY <2>3, <2>4 DEF RevStep
  <2>8. P[(i + 1) + 1].result = 2 * (top * Power(2, i) + R[i].result) + (R[i].x % 2)
    BY <2>3, <2>4 DEF RevStep
  <2>9. R[i + 1].result = 2 * R[i].result + (R[i].x % 2)
    BY <2>3 DEF RevStep
  <2>10. \A t, p, r, c \in Int : 2 * (t * p + r) + c = t * (2 * p) + (2 * r + c)
    OBVIOUS
  <2>11. top \in Int /\ R[i].x % 2 \in Int /\ R[i].result \in Int
    BY <1>4, <2>5
  <2> HIDE DEF top
  <2> QED
    BY <2>6, <2>7, <2>8, <2>9, <2>10, <2>11
<1>S. \A i \in Nat : i \in S => (i <= n => /\ P[i + 1].x = R[i].x
                                           /\ P[i + 1].result = top * Power(2, i) + R[i].result)
  OBVIOUS
<1> HIDE DEF S
<1>9. n \in S
  BY <1>7, <1>8, NatSetInduction
<1>10. P[n + 1].result = top * Power(2, n) + R[n].result
  BY <1>9, <1>S
<1> QED
  BY <1>3, <1>5, <1>6, <1>10

LEMMA TwoPowers == \A n \in Nat : Power(2, n) \in Nat /\ Power(2, n) > 0 /\ Power(2, n + 1) = 2 * Power(2, n)
<1> DEFINE S == {n \in Nat : Power(2, n) \in Nat /\ Power(2, n) > 0}
<1>0. \A n \in Nat : Power(2, n + 1) = 2 * Power(2, n) /\ Power(2, 0) = 1
  BY PowerStep
<1>1. 0 \in S
  BY <1>0
<1>2. ASSUME NEW n \in Nat, n \in S PROVE n + 1 \in S
  BY <1>0, <1>2
<1>S. \A n : n \in S => Power(2, n) \in Nat /\ Power(2, n) > 0
  OBVIOUS
<1> HIDE DEF S
<1> QED
  BY <1>0, <1>1, <1>2, <1>S, NatSetInduction

LEMMA RevBelow == \A n \in Nat : \A x \in Nat : bit_reverse(x, n) \in 0 .. Power(2, n) - 1
<1> DEFINE S == {n \in Nat : \A x \in Nat : bit_reverse(x, n) \in 0 .. Power(2, n) - 1}
<1>1. 0 \in S
  <2>1. Power(2, 0) = 1
    BY PowerStep
  <2>2. \A x \in Nat : bit_reverse(x, 0) = 0
    BY RevGrows
  <2> QED
    BY <2>1, <2>2
<1>2. ASSUME NEW n \in Nat, n \in S PROVE n + 1 \in S
  <2> SUFFICES ASSUME NEW x \in Nat PROVE bit_reverse(x, n + 1) \in 0 .. Power(2, n + 1) - 1
    OBVIOUS
  <2>1. x \div 2 \in Nat /\ x % 2 \in {0, 1}
    OBVIOUS
  <2>2. PICK p, r : p = Power(2, n) /\ r = bit_reverse(x \div 2, n)
    OBVIOUS
  <2>3. p \in Nat /\ Power(2, n + 1) = 2 * p
    BY <2>2, TwoPowers
  <2>4. r \in 0 .. p - 1
    BY <1>2, <2>1, <2>2
  <2>5. bit_reverse(x, n + 1) = (x % 2) * p + r
    BY <2>2, RevGrows
  <2>6. (x % 2) * p \in {0, p}
    BY <2>1, <2>3
  <2> QED
    BY <2>3, <2>4, <2>5, <2>6
<1>S. \A n : n \in S => \A x \in Nat : bit_reverse(x, n) \in 0 .. Power(2, n) - 1
  OBVIOUS
<1> HIDE DEF S
<1> QED
  BY <1>1, <1>2, <1>S, NatSetInduction

-----------------------------------------------------------------------------
(* Blocks of cells.                                                        *)
LEMMA TwoIs ==
  /\ \A s \in 0 .. BITS : 2 ^ s = Power(2, s)
  /\ N = Power(2, BITS) /\ BITS \in Nat
  /\ \A s \in 0 .. BITS : BITS - s \in Nat /\ N = Power(2, s) * Power(2, BITS - s)
<1>1. BITS \in Nat /\ N = 2 ^ BITS /\ 2 ^ 0 = 1 /\ \A s \in 1 .. BITS : 2 ^ s = 2 * 2 ^ (s - 1)
  BY TransformParameters
<1> DEFINE S == {s \in Nat : s <= BITS => 2 ^ s = Power(2, s)}
<1>2. 0 \in S
  BY <1>1, PowerStep
<1>3. ASSUME NEW s \in Nat, s \in S PROVE s + 1 \in S
  <2>1. SUFFICES ASSUME s + 1 <= BITS PROVE 2 ^ (s + 1) = Power(2, s + 1)
    OBVIOUS
  <2>2. s + 1 \in 1 .. BITS /\ (s + 1) - 1 = s /\ 2 ^ s = Power(2, s)
    BY <1>1, <1>3, <2>1
  <2>3. 2 ^ (s + 1) = 2 * 2 ^ s
    BY <1>1, <2>2
  <2>4. 2 \in Int /\ Power(2, s + 1) = 2 * Power(2, s)
    BY PowerStep
  <2> QED
    BY <2>2, <2>3, <2>4, Zenon
<1>S. \A s \in Nat : s \in S => (s <= BITS => 2 ^ s = Power(2, s))
  OBVIOUS
<1> HIDE DEF S
<1>4. \A s \in Nat : s \in S
  BY <1>2, <1>3, NatSetInduction
<1>5. \A s \in 0 .. BITS : 2 ^ s = Power(2, s)
  BY <1>1, <1>4, <1>S
<1>6. N = Power(2, BITS)
  BY <1>1, <1>5
<1>7. ASSUME NEW s \in 0 .. BITS PROVE BITS - s \in Nat /\ N = Power(2, s) * Power(2, BITS - s)
  <2>1. s \in Nat /\ BITS - s \in Nat /\ s + (BITS - s) = BITS
    BY <1>1
  <2> QED
    BY <1>6, <2>1, PowerAdds
<1> QED
  BY <1>1, <1>5, <1>6, <1>7

LEMMA DivisionIs ==
  ASSUME NEW L \in Nat, L > 0, NEW q \in Int, NEW r \in 0 .. L - 1
  PROVE  (L * q + r) \div L = q /\ (L * q + r) % L = r
<1> DEFINE x == L * q + r
           y == x \div L
           z == x % L
<1>1. x \in Int
  OBVIOUS
<1> HIDE DEF x
<1>2. x = y * L + z /\ y \in Int /\ z \in 0 .. L - 1
  BY <1>1
<1> HIDE DEF y, z
<1>3. Cong(z, r, L)
  <2>1. z = r + (q - y) * L /\ q - y \in Int
    BY <1>2 DEF x
  <2> QED
    BY <2>1 DEF Cong
<1>4. z = r
  BY <1>2, <1>3, CongUnique
<1>5. (q - y) * L = 0
  BY <1>2, <1>4 DEF x
<1>6. q = y
  <2>1. q - y >= 1 => (q - y) * L >= L
    BY <1>2
  <2>2. q - y <= -1 => (q - y) * L <= - L
    BY <1>2
  <2> QED
    BY <1>2, <1>5, <2>1, <2>2
<1> QED
  BY <1>4, <1>6 DEF x, y, z

(* The place of a cell in a block of twice the length.                     *)
LEMMA CellIs ==
  ASSUME NEW L \in Nat, L > 0, NEW m \in Nat, NEW k \in Nat, k < 2 * L * m
  PROVE  LET B   == k \div (2 * L)
             p   == k % (2 * L)
             t   == k % L
             low == k - p + t
         IN  /\ B \in Nat /\ B < m /\ p \in 0 .. 2 * L - 1 /\ t \in 0 .. L - 1
             /\ low \in Nat /\ low + L < 2 * L * m
             /\ \/ p = t /\ k = low
                \/ p = t + L /\ k # low
             /\ low \div L = 2 * B /\ low % L = t
             /\ (low + L) \div L = 2 * B + 1 /\ (low + L) % L = t
<1> DEFINE B   == k \div (2 * L)
           p   == k % (2 * L)
           t   == k % L
           low == k - p + t
<1>1. 2 * L \in Nat /\ 2 * L > 0
  OBVIOUS
<1>2. k = B * (2 * L) + p /\ B \in Int /\ p \in 0 .. 2 * L - 1
  BY <1>1
<1> HIDE DEF B, p
<1>3. B >= 0
  <2>1. B <= -1 => B * (2 * L) <= - (2 * L)
    BY <1>2
  <2> QED
    BY <1>2, <2>1
<1>4. B < m
  <2>1. B >= m => B * (2 * L) >= 2 * L * m
    BY <1>2
  <2> QED
    BY <1>2, <2>1
<1>5. p < L => t = p
  <2>1. SUFFICES ASSUME p < L PROVE t = p
    OBVIOUS
  <2>2. p \in 0 .. L - 1 /\ 2 * B \in Int /\ k = L * (2 * B) + p
    BY <1>2, <2>1
  <2> QED
    BY <2>2, DivisionIs
<1>6. p >= L => t = p - L
  <2>1. SUFFICES ASSUME p >= L PROVE t = p - L
    OBVIOUS
  <2>2. p - L \in 0 .. L - 1 /\ 2 * B + 1 \in Int /\ k = L * (2 * B + 1) + (p - L)
    BY <1>2, <2>1
  <2> QED
    BY <2>2, DivisionIs
<1> HIDE DEF t
<1>7. t \in 0 .. L - 1 /\ (p = t \/ p = t + L)
  BY <1>2, <1>5, <1>6
<1>8. low = L * (2 * B) + t /\ low + L = L * (2 * B + 1) + t /\ low \in Int /\ 2 * B \in Int /\ 2 * B + 1 \in Int
  BY <1>2, <1>7
<1>9. low \div L = 2 * B /\ low % L = t /\ (low + L) \div L = 2 * B + 1 /\ (low + L) % L = t
  <2>1. (L * (2 * B) + t) \div L = 2 * B /\ (L * (2 * B) + t) % L = t
    BY <1>7, <1>8, DivisionIs
  <2>2. (L * (2 * B + 1) + t) \div L = 2 * B + 1 /\ (L * (2 * B + 1) + t) % L = t
    BY <1>7, <1>8, DivisionIs
  <2> HIDE DEF low
  <2> QED
    BY <1>8, <2>1, <2>2, Zenon
<1>10. low \in Nat
  <2>1. L * (2 * B) >= 0
    BY <1>2, <1>3
  <2> QED
    BY <1>7, <1>8, <2>1
<1>11. low + L < 2 * L * m
  <2>1. L * (2 * B + 1) + t < 2 * L * (B + 1)
    BY <1>2, <1>7
  <2>2. 2 * L * (B + 1) <= 2 * L * m
    <3>1. m - (B + 1) \in Nat
      BY <1>2, <1>4
    <3>2. 2 * L * (m - (B + 1)) >= 0
      BY <3>1
    <3>3. 2 * L * (m - (B + 1)) = 2 * L * m - 2 * L * (B + 1)
      BY <1>2
    <3>4. 2 * L * m \in Int /\ 2 * L * (B + 1) \in Int
      BY <1>2
    <3> QED
      BY <3>2, <3>3, <3>4
  <2>3. low + L \in Int /\ 2 * L * (B + 1) \in Int /\ 2 * L * m \in Int
    BY <1>2, <1>8
  <2> QED
    BY <1>8, <2>1, <2>2, <2>3
<1>12. p = t => k = low
  BY <1>2, <1>7
<1>13. p = t + L => k # low
  BY <1>2, <1>7
<1> HIDE DEF low
<1>14. \/ p = t /\ k = low
       \/ p = t + L /\ k # low
  BY <1>7, <1>12, <1>13
<1> QED
  BY <1>2, <1>3, <1>4, <1>7, <1>9, <1>10, <1>11, <1>14 DEF B, p, t, low

CellOf(L, m, k, B, p, t, low) ==
  /\ L \in Nat /\ L > 0 /\ m \in Nat /\ k \in Nat /\ k < 2 * L * m
  /\ B = k \div (2 * L) /\ p = k % (2 * L) /\ t = k % L /\ low = k - p + t

CellPlace(L, m, k, B, p, t, low) ==
  /\ B \in Nat /\ t \in 0 .. L - 1 /\ low \in Nat /\ low + L < 2 * L * m
  /\ ((p = t /\ k = low) \/ (p = t + L /\ k # low))
  /\ low \div L = 2 * B /\ low % L = t
  /\ (low + L) \div L = 2 * B + 1 /\ (low + L) % L = t

LEMMA CellHas ==
  ASSUME NEW L, NEW m, NEW k, NEW B, NEW p, NEW t, NEW low, CellOf(L, m, k, B, p, t, low)
  PROVE  CellPlace(L, m, k, B, p, t, low)
<1> DEFINE P(b, e, f, g) ==
             /\ b \in Nat /\ b < m /\ e \in 0 .. 2 * L - 1 /\ f \in 0 .. L - 1
             /\ g \in Nat /\ g + L < 2 * L * m
             /\ \/ e = f /\ k = g
                \/ e = f + L /\ k # g
             /\ g \div L = 2 * b /\ g % L = f
             /\ (g + L) \div L = 2 * b + 1 /\ (g + L) % L = f
<1>1. P(k \div (2 * L), k % (2 * L), k % L, k - (k % (2 * L)) + (k % L))
  BY CellIs, Zenon DEF CellOf
<1> HIDE DEF P
<1>2. P(B, p, t, low)
  BY <1>1, Zenon DEF CellOf
<1> QED
  BY <1>2, Zenon DEF P, CellPlace

LEMMA PlaceIs ==
  ASSUME NEW L \in Nat, L > 0, NEW m \in Nat, NEW k \in Nat, k < 2 * L * m
  PROVE  /\ k \div (2 * L) \in Nat
         /\ k % (2 * L) = k % L \/ k % (2 * L) = (k % L) + L
         /\ k % L \in 0 .. L - 1
<1> DEFINE B   == k \div (2 * L)
           p   == k % (2 * L)
           t   == k % L
           low == k - p + t
<1>1. CellOf(L, m, k, B, p, t, low)
  BY Zenon DEF CellOf
<1> HIDE DEF B, p, t, low
<1>2. B \in Nat /\ t \in 0 .. L - 1 /\ ((p = t /\ k = low) \/ (p = t + L /\ k # low))
  <2>1. CellPlace(L, m, k, B, p, t, low)
    BY <1>1, CellHas
  <2> QED
    BY <2>1, Zenon DEF CellPlace
<1> QED
  BY <1>2, Zenon DEF B, p, t

IsRoot(w) ==
  /\ w \in Nat /\ Cong(Power(w, N), 1, Q)
  /\ BITS > 0 => Cong(Power(w, Power(2, BITS - 1)), -1, Q)

(* Going once around the cells of a block turns by 1, going half by -1.    *)
LEMMA RootTurns ==
  ASSUME NEW w, IsRoot(w), BITS > 0, NEW s \in 0 .. BITS - 1, NEW q \in Nat
  PROVE  LET L == Power(2, s)
             m == Power(2, BITS - (s + 1))
         IN  /\ Cong(Power(w, L * (2 * m * q)), 1, Q)
             /\ Cong(Power(w, L * (m + 2 * m * q)), -1, Q)
             /\ N = 2 * L * m
<1> DEFINE L == Power(2, s)
           m == Power(2, BITS - (s + 1))
           H == Power(2, BITS - 1)
<1>0. BITS \in Nat /\ s \in Nat /\ BITS - (s + 1) \in Nat /\ BITS - 1 \in Nat /\ s + (BITS - (s + 1)) = BITS - 1
      /\ (BITS - 1) + 1 = BITS
  BY TwoIs
<1>1. L * m = H
  BY <1>0, PowerAdds
<1>2. N = 2 * H /\ L \in Nat /\ m \in Nat /\ H \in Nat
  BY <1>0, TwoIs, TwoPowers
<1> HIDE DEF L, m, H
<1>3. L * (2 * m * q) = N * q /\ L * (m + 2 * m * q) = H + N * q /\ N = 2 * L * m /\ N * q \in Nat
  <2>1. L * (2 * m * q) = 2 * (L * m) * q /\ L * (m + 2 * m * q) = L * m + 2 * (L * m) * q /\ 2 * L * m = 2 * (L * m)
    BY <1>2
  <2>2. 2 * H * q \in Nat
    BY <1>2
  <2> QED
    BY <1>1, <1>2, <2>1, <2>2
<1>4. w \in Int /\ Power(w, N) \in Int /\ Q \in Int /\ 1 \in Int /\ -1 \in Int /\ Power(w, N * q) \in Int /\ Power(w, H) \in Int
  <2>1. w \in Int /\ Q \in Int /\ N \in Nat
    BY CoeffsInt, DegreesAre DEF IsRoot
  <2>2. Power(w, N) \in Int /\ Power(w, H) \in Int
    BY <1>2, <2>1, PowerStep
  <2>3. \A n \in Nat : Power(w, n) \in Int
    BY <2>1, PowerStep
  <2>4. Power(w, N * q) \in Int
    BY <1>3, <2>3
  <2> QED
    BY <2>1, <2>2, <2>4
<1>5. Cong(Power(w, N * q), 1, Q)
  <2>1. Cong(Power(Power(w, N), q), Power(1, q), Q)
    BY <1>4, PowerCong DEF IsRoot
  <2>2. Power(1, q) = 1 /\ Power(Power(w, N), q) = Power(w, N * q)
    BY <1>4, DegreesAre, PowerOfOne, PowerTimes
  <2> QED
    BY <2>1, <2>2
<1>6. Cong(Power(w, H + N * q), (-1) * 1, Q)
  <2>1. Cong(Power(w, H), -1, Q)
    BY DEF IsRoot, H
  <2>2. Cong(Power(w, H) * Power(w, N * q), (-1) * 1, Q)
    BY <1>4, <1>5, <2>1, CongProducts
  <2> DEFINE n == N * q
  <2>4. n \in Nat
    BY <1>3
  <2> HIDE DEF n
  <2>3. Power(w, H + n) = Power(w, H) * Power(w, n)
    BY <1>2, <1>4, <2>4, PowerAdds
  <2> QED
    BY <2>2, <2>3, Zenon DEF n
<1>7. (-1) * 1 = -1
  OBVIOUS
<1> QED
  BY <1>3, <1>5, <1>6, <1>7 DEF L, m

-----------------------------------------------------------------------------
(* The passes.                                                             *)
PassTerms(a, w, m, r, t) ==
  [j \in Degrees |-> IF j % m = r THEN a[j] * Power(w, t * (j - r)) ELSE 0]

(* After s passes a cell holds the sum of those coefficients whose index   *)
(* has the block's number, reversed, as its low bits.                      *)
Passed(b, a, w, s) ==
  /\ b \in IntPoly
  /\ \A k \in Degrees :
       Cong(b[k], SumOver(PassTerms(a, w, Power(2, BITS - s), bit_reverse(k \div Power(2, s), BITS - s), k % Power(2, s))), Q)

LEMMA PassTermsInt ==
  ASSUME NEW a \in IntPoly, NEW w \in Nat, NEW m \in Nat, m > 0, NEW r \in Nat, NEW t \in Nat
  PROVE  PassTerms(a, w, m, r, t) \in IntPoly
<1> SUFFICES ASSUME NEW j \in Degrees, j % m = r PROVE a[j] * Power(w, t * (j - r)) \in Int
  BY DEF PassTerms, IntPoly
<1>1. j \in Nat /\ a[j] \in Int
  BY DegreesAre DEF IntPoly
<1>2. j % m <= j
  <2>1. j = (j \div m) * m + (j % m) /\ j \div m \in Nat
    BY <1>1
  <2>2. (j \div m) * m >= 0
    BY <2>1
  <2>3. j % m \in Nat
    BY <1>1
  <2>4. (j \div m) * m \in Int
    BY <2>1
  <2> QED
    BY <1>1, <2>1, <2>2, <2>3, <2>4
<1>3. j - r \in Nat
  BY <1>1, <1>2
<1>4. t * (j - r) \in Nat
  BY <1>3
<1>5. Power(w, t * (j - r)) \in Int
  BY <1>4, PowerStep
<1> QED
  BY <1>1, <1>5

(* A sum with one term.                                                    *)
LEMMA SumSingle ==
  ASSUME NEW h \in IntPoly, NEW r \in Degrees, \A j \in Degrees : j # r => h[j] = 0
  PROVE  SumOver(h) = h[r]
<1> DEFINE P == [n \in 0 .. N |-> IF n <= r THEN 0 ELSE h[r]]
<1>1. h[r] \in Int /\ r \in Int /\ 0 <= r /\ r < N
  BY DegreesAre DEF IntPoly
<1>2. P \in [0 .. N -> Int]
  BY <1>1
<1>3. P[0] = 0 /\ P[N] = h[r]
  BY <1>1, DegreesAre
<1>4. ASSUME NEW i \in Degrees PROVE P[i + 1] = P[i] + h[i]
  <2>1. i \in Int /\ i \in 0 .. N /\ i + 1 \in 0 .. N /\ h[i] \in Int
    BY DegreesAre DEF IntPoly
  <2>2. CASE i < r
    <3>1. P[i] = 0 /\ P[i + 1] = 0 /\ h[i] = 0
      BY <1>1, <2>1, <2>2
    <3> QED
      BY <3>1
  <2>3. CASE i = r
    <3>1. P[i] = 0 /\ P[i + 1] = h[r] /\ h[i] = h[r]
      BY <1>1, <2>1, <2>3
    <3> HIDE DEF P
    <3> QED
      BY <1>1, <3>1
  <2>4. CASE i > r
    <3>1. P[i] = h[r] /\ P[i + 1] = h[r] /\ h[i] = 0
      BY <1>1, <2>1, <2>4
    <3> HIDE DEF P
    <3> QED
      BY <1>1, <3>1
  <2> QED
    BY <1>1, <2>1, <2>2, <2>3, <2>4
<1> HIDE DEF P
<1>5. Running(P, h)
  BY <1>2, <1>3, <1>4 DEF Running
<1> QED
  BY <1>3, <1>5, RunningUnique

LEMMA PassStart ==
  ASSUME NEW a \in IntPoly, NEW w, IsRoot(w)
  PROVE  Passed([i \in Degrees |-> a[bit_reverse(i, BITS)]], a, w, 0)
<1> DEFINE b == [i \in Degrees |-> a[bit_reverse(i, BITS)]]
<1>1. BITS \in Nat /\ N = Power(2, BITS) /\ BITS - 0 = BITS /\ Power(2, 0) = 1 /\ w \in Nat
  BY TwoIs, PowerStep DEF IsRoot
<1>2. ASSUME NEW k \in Degrees
      PROVE  /\ b[k] \in Int
             /\ b[k] = SumOver(PassTerms(a, w, Power(2, BITS - 0), bit_reverse(k \div Power(2, 0), BITS - 0), k % Power(2, 0)))
  <2> DEFINE r == bit_reverse(k, BITS)
             h == PassTerms(a, w, N, r, 0)
  <2>1. k \in Nat /\ k \div 1 = k /\ k % 1 = 0
    BY DegreesAre
  <2>2. r \in 0 .. N - 1
    BY <1>1, <2>1, RevBelow
  <2>3. r \in Degrees /\ r \in Nat
    BY <2>2, DegreesAre
  <2>4. h \in IntPoly
    BY <1>1, <2>3, DegreesAre, PassTermsInt
  <2>5. \A j \in Degrees : j % N = j
    BY DegreesAre
  <2>6. \A j \in Degrees : j # r => h[j] = 0
    BY <2>5 DEF PassTerms
  <2>7. h[r] = a[r] * Power(w, 0 * (r - r))
    BY <2>3, <2>5 DEF PassTerms
  <2>8. 0 * (r - r) = 0 /\ Power(w, 0) = 1 /\ a[r] \in Int
    BY <1>1, <2>3, PowerStep DEF IntPoly
  <2> HIDE DEF h, r
  <2>9. SumOver(h) = h[r]
    BY <2>3, <2>4, <2>6, SumSingle
  <2>10. SumOver(h) = a[r]
    BY <2>7, <2>8, <2>9
  <2> QED
    BY <1>1, <2>1, <2>8, <2>10 DEF h, r
<1>3. Q \in Int
  BY CoeffsInt
<1>4. b \in IntPoly
  BY <1>2 DEF IntPoly
<1> HIDE DEF b
<1>5. \A k \in Degrees : Cong(b[k], b[k], Q)
  BY <1>2, <1>3, CongEquivalence
<1>6. Passed(b, a, w, 0)
  BY <1>2, <1>4, <1>5 DEF Passed
<1> QED
  BY <1>6 DEF b

(* A term of a pass is a term of one of the two halves, turned.            *)
LEMMA PassSplits ==
  ASSUME NEW a \in IntPoly, NEW w, IsRoot(w), BITS > 0, NEW s \in 0 .. BITS - 1,
         NEW L, NEW m, L = Power(2, s), m = Power(2, BITS - (s + 1)),
         NEW r \in 0 .. m - 1, NEW t \in 0 .. L - 1, NEW j \in Degrees
  PROVE  LET x == Power(w, m * t)
             E == PassTerms(a, w, 2 * m, r, t)
             O == PassTerms(a, w, 2 * m, r + m, t)
         IN  /\ Cong(PassTerms(a, w, m, r, t)[j], E[j] + x * O[j], Q)
             /\ Cong(PassTerms(a, w, m, r, t + L)[j], E[j] + (- x) * O[j], Q)
<1> DEFINE x == Power(w, m * t)
           E == PassTerms(a, w, 2 * m, r, t)[j]
           O == PassTerms(a, w, 2 * m, r + m, t)[j]
           F == PassTerms(a, w, m, r, t)[j]
           G == PassTerms(a, w, m, r, t + L)[j]
           q == j \div (2 * m)
           e == t * (2 * m * q)
           f == L * (2 * m * q)
           g == L * (m + 2 * m * q)
           y == Power(w, e)
<1>0. BITS \in Nat /\ s \in Nat /\ BITS - (s + 1) \in Nat
  BY TwoIs
<1>1. L \in Nat /\ L > 0 /\ m \in Nat /\ m > 0 /\ w \in Int /\ r \in Nat /\ t \in Nat
  BY <1>0, TwoPowers DEF IsRoot
<1>2. N = 2 * L * m
  BY RootTurns
<1>3. j \in Nat /\ a[j] \in Int /\ j < 2 * m * L /\ Q \in Int
  BY <1>1, <1>2, DegreesAre, CoeffsInt DEF IntPoly
<1>4. q \in Nat /\ (j % (2 * m) = j % m \/ j % (2 * m) = (j % m) + m) /\ j % m \in 0 .. m - 1
  <2>1. j \in Nat /\ j < 2 * m * L
    BY <1>3
  <2> QED
    BY <1>1, <2>1, PlaceIs, Zenon
<1>5. j = 2 * m * q + (j % (2 * m)) /\ j % (2 * m) \in Nat
  <2>1. 2 * m \in Nat /\ 2 * m > 0
    BY <1>1
  <2>2. j = q * (2 * m) + (j % (2 * m)) /\ j % (2 * m) \in Nat
    BY <1>3, <2>1
  <2>3. q * (2 * m) = 2 * m * q
    BY <1>1, <1>4
  <2> QED
    BY <2>2, <2>3
<1>6. /\ F = IF j % m = r THEN a[j] * Power(w, t * (j - r)) ELSE 0
      /\ G = IF j % m = r THEN a[j] * Power(w, (t + L) * (j - r)) ELSE 0
      /\ E = IF j % (2 * m) = r THEN a[j] * Power(w, t * (j - r)) ELSE 0
      /\ O = IF j % (2 * m) = r + m THEN a[j] * Power(w, t * (j - (r + m))) ELSE 0
  BY DEF PassTerms
<1>7. Cong(Power(w, f), 1, Q) /\ Cong(Power(w, g), -1, Q)
  BY <1>4, RootTurns
<1>8. e \in Nat /\ f \in Nat /\ g \in Nat /\ m * t \in Nat /\ 2 * m * q \in Nat
  <2>1. 2 * m * q \in Nat
    BY <1>1, <1>4
  <2>2. m + 2 * m * q \in Nat
    BY <1>1, <2>1
  <2>3. \A u, v \in Nat : u * v \in Nat
    OBVIOUS
  <2> QED
    BY <1>1, <2>1, <2>2, <2>3
<1> HIDE DEF E, O, F, G, q
<1>9. /\ t * (2 * m * q) = e
      /\ t * (m + 2 * m * q) = m * t + e
      /\ (t + L) * (2 * m * q) = e + f
      /\ (t + L) * (m + 2 * m * q) = (m * t + e) + g
  <2>1. \A u, v, z \in Int : (u + v) * z = u * z + v * z /\ z * (u + v) = z * u + z * v /\ u * v = v * u
    OBVIOUS
  <2> QED
    BY <1>1, <1>8, <2>1
<1> HIDE DEF e, f, g
<1>10. y \in Int /\ x \in Int /\ Power(w, f) \in Int /\ Power(w, g) \in Int
  BY <1>1, <1>8, PowerStep
<1>11. /\ Power(w, m * t + e) = x * y
       /\ Power(w, e + f) = y * Power(w, f)
       /\ Power(w, (m * t + e) + g) = (x * y) * Power(w, g)
  <2>1. m * t + e \in Nat
    BY <1>8
  <2>2. Power(w, m * t + e) = Power(w, m * t) * Power(w, e)
    BY <1>1, <1>8, PowerAdds
  <2>3. Power(w, e + f) = Power(w, e) * Power(w, f)
    BY <1>1, <1>8, PowerAdds
  <2> DEFINE u == m * t + e
  <2>4. Power(w, u + g) = Power(w, u) * Power(w, g)
    <3>1. u \in Nat
      BY <2>1
    <3> HIDE DEF u
    <3> QED
      BY <1>1, <1>8, <3>1, PowerAdds
  <2> QED
    BY <2>2, <2>3, <2>4
<1> HIDE DEF x, y
<1>12. CASE j % m # r
  <2>1. F = 0 /\ G = 0 /\ E = 0 /\ O = 0
    BY <1>1, <1>4, <1>6, <1>12
  <2>2. 0 + x * 0 = 0 /\ 0 + (- x) * 0 = 0 /\ Cong(0, 0, Q)
    BY <1>3, <1>10, CongEquivalence
  <2> QED
    BY <2>1, <2>2 DEF x, E, O, F, G
<1>13. CASE j % m = r /\ j % (2 * m) = r
  <2>1. j - r = 2 * m * q /\ r # r + m
    BY <1>1, <1>5, <1>8, <1>13
  <2>2. F = a[j] * y /\ E = a[j] * y /\ O = 0 /\ G = a[j] * (y * Power(w, f))
    BY <1>6, <1>9, <1>11, <1>13, <2>1 DEF y
  <2>3. a[j] * y \in Int /\ \A v \in Int : v + x * 0 = v /\ v + (- x) * 0 = v
    BY <1>3, <1>10
  <2>4. Cong(a[j] * y, a[j] * y, Q)
    BY <1>3, <2>3, CongEquivalence
  <2>5. Cong((a[j] * y) * Power(w, f), (a[j] * y) * 1, Q)
    <3>1. a[j] * y \in Int /\ 1 \in Int
      BY <2>3
    <3> HIDE <2>3
    <3> QED
      BY <1>3, <1>7, <1>10, <3>1, <2>4, CongProducts
  <2>6. (a[j] * y) * Power(w, f) = a[j] * (y * Power(w, f)) /\ (a[j] * y) * 1 = a[j] * y
    BY <1>3, <1>10
  <2> QED
    BY <2>2, <2>3, <2>4, <2>5, <2>6 DEF x, E, O, F, G
<1>14. CASE j % m = r /\ j % (2 * m) = r + m
  <2>1. j - r = m + 2 * m * q /\ j - (r + m) = 2 * m * q /\ r # r + m
    <3> DEFINE c == 2 * m * q
    <3>1. j = c + (r + m)
      BY <1>5, <1>14, Zenon
    <3>2. c \in Int
      BY <1>8
    <3> HIDE DEF c
    <3>3. j - r = m + c /\ j - (r + m) = c /\ r # r + m
      BY <1>1, <3>1, <3>2
    <3> QED
      BY <3>3 DEF c
  <2>2. F = a[j] * (x * y) /\ E = 0 /\ O = a[j] * y /\ G = a[j] * ((x * y) * Power(w, g))
    BY <1>6, <1>9, <1>11, <1>14, <2>1 DEF y
  <2>3. /\ a[j] * (x * y) \in Int /\ 0 + x * (a[j] * y) = a[j] * (x * y)
        /\ (a[j] * (x * y)) * (-1) = 0 + (- x) * (a[j] * y)
        /\ a[j] * ((x * y) * Power(w, g)) = (a[j] * (x * y)) * Power(w, g)
    <3>1. \A u, v, z, c \in Int : /\ u * (v * z) \in Int /\ 0 + v * (u * z) = u * (v * z)
                                  /\ (u * (v * z)) * (-1) = 0 + (- v) * (u * z)
                                  /\ u * ((v * z) * c) = (u * (v * z)) * c
      OBVIOUS
    <3> QED
      BY <1>3, <1>10, <3>1
  <2>4. Cong(a[j] * (x * y), a[j] * (x * y), Q)
    BY <1>3, <2>3, CongEquivalence
  <2>5. Cong((a[j] * (x * y)) * Power(w, g), (a[j] * (x * y)) * (-1), Q)
    BY <1>3, <1>7, <1>10, <2>3, <2>4, CongProducts
  <2> QED
    BY <2>2, <2>3, <2>4, <2>5 DEF x, E, O, F, G
<1> QED
  BY <1>4, <1>12, <1>13, <1>14
(* The sum of a pass's terms, from the sums of the two halves.             *)
LEMMA PassJoins ==
  ASSUME NEW a \in IntPoly, NEW w, IsRoot(w), BITS > 0, NEW s \in 0 .. BITS - 1,
         NEW L, NEW m, L = Power(2, s), m = Power(2, BITS - (s + 1)),
         NEW r \in 0 .. m - 1, NEW t \in 0 .. L - 1, NEW u \in Int, NEW v \in Int, NEW x \in Int,
         Cong(u, SumOver(PassTerms(a, w, 2 * m, r, t)), Q),
         Cong(v, SumOver(PassTerms(a, w, 2 * m, r + m, t)), Q),
         Cong(x, Power(w, m * t), Q)
  PROVE  /\ Cong(u + x * v, SumOver(PassTerms(a, w, m, r, t)), Q)
         /\ Cong(u + (- x) * v, SumOver(PassTerms(a, w, m, r, t + L)), Q)
<1> DEFINE y == Power(w, m * t)
           E == PassTerms(a, w, 2 * m, r, t)
           O == PassTerms(a, w, 2 * m, r + m, t)
           F == PassTerms(a, w, m, r, t)
           G == PassTerms(a, w, m, r, t + L)
<1>1. L \in Nat /\ L > 0 /\ m \in Nat /\ m > 0 /\ w \in Nat /\ r \in Nat /\ t \in Nat /\ Q \in Int
  <2>1. s \in Nat /\ BITS - (s + 1) \in Nat
    BY TwoIs
  <2> QED
    BY <2>1, TwoPowers, CoeffsInt DEF IsRoot
<1>2. 2 * m \in Nat /\ 2 * m > 0 /\ r + m \in Nat /\ t + L \in Nat /\ m * t \in Nat
  BY <1>1
<1>3. E \in IntPoly /\ O \in IntPoly /\ F \in IntPoly /\ G \in IntPoly
  BY <1>1, <1>2, PassTermsInt
<1>4. y \in Int
  BY <1>1, <1>2, PowerStep
<1>5. \A j \in Degrees : Cong(F[j], E[j] + y * O[j], Q) /\ Cong(G[j], E[j] + (- y) * O[j], Q)
  BY PassSplits
<1>6. Cong(u, SumOver(E), Q) /\ Cong(v, SumOver(O), Q) /\ Cong(x, y, Q)
  OBVIOUS
<1> HIDE DEF E, O, F, G, y
<1>7. ASSUME NEW H \in IntPoly, NEW z \in Int, NEW e \in Int, Cong(e, z, Q),
             \A j \in Degrees : Cong(H[j], E[j] + z * O[j], Q)
      PROVE  Cong(u + e * v, SumOver(H), Q)
  <2> DEFINE R == PlusTerms(E, TimesTerms(z, O))
  <2>1. TimesTerms(z, O) \in IntPoly /\ SumOver(TimesTerms(z, O)) = z * SumOver(O)
    BY <1>3, <1>7, SumTimes
  <2>2. R \in IntPoly /\ SumOver(R) = SumOver(E) + z * SumOver(O)
    BY <1>3, <2>1, SumPlus
  <2>3. \A j \in Degrees : R[j] = E[j] + z * O[j]
    BY DEF PlusTerms, TimesTerms
  <2> HIDE DEF R
  <2>4. Alike(H, R)
    BY <1>7, <2>3 DEF Alike
  <2>5. Cong(SumOver(H), SumOver(R), Q)
    BY <1>7, <2>2, <2>4, SumAlike
  <2>6. SumOver(E) \in Int /\ SumOver(O) \in Int /\ SumOver(H) \in Int /\ SumOver(R) \in Int
    BY <1>3, <1>7, <2>2, SumRuns
  <2>7. Cong(e * v, z * SumOver(O), Q)
    BY <1>1, <1>6, <1>7, <2>6, CongProducts
  <2>8. e * v \in Int /\ z * SumOver(O) \in Int /\ u + e * v \in Int
    BY <1>7, <2>6
  <2>9. Cong(u + e * v, SumOver(E) + z * SumOver(O), Q)
    BY <1>1, <1>6, <2>6, <2>7, <2>8, CongSums
  <2>10. Cong(u + e * v, SumOver(R), Q)
    BY <2>2, <2>9
  <2> HIDE <1>7
  <2> QED
    BY <1>1, <2>5, <2>6, <2>8, <2>10, CongEquivalence
<1>8. Cong(u + x * v, SumOver(F), Q)
  BY <1>3, <1>4, <1>5, <1>6, <1>7
<1>9. Cong(u + (- x) * v, SumOver(G), Q)
  <2>1. -x \in Int /\ -y \in Int /\ (-1) * x = -x /\ (-1) * y = -y /\ -1 \in Int
    BY <1>4
  <2>2. Cong(-1, -1, Q)
    BY <1>1, <2>1, CongEquivalence
  <2>3. Cong((-1) * x, (-1) * y, Q)
    BY <1>1, <1>4, <1>6, <2>1, <2>2, CongProducts
  <2>4. Cong(-x, -y, Q)
    BY <2>1, <2>3
  <2> QED
    BY <1>3, <1>5, <1>7, <2>1, <2>4
<1> QED
  BY <1>8, <1>9 DEF F, G

LEMMA PassStep ==
  ASSUME NEW a \in IntPoly, NEW w, IsRoot(w), NEW s \in 0 .. BITS - 1, NEW b, Passed(b, a, w, s)
  PROVE  Passed(Butterflies(b, Power(2, s), w), a, w, s + 1)
<1> DEFINE L == Power(2, s)
           m == Power(2, BITS - (s + 1))
           c == Butterflies(b, L, w)
           W == pow_mod(w, N \div (2 * L))
<1>0. BITS \in Nat /\ s \in Nat /\ BITS - (s + 1) \in Nat /\ BITS - s = (BITS - (s + 1)) + 1 /\ BITS > 0 /\ w \in Nat
  BY TwoIs DEF IsRoot
<1>1. L \in Nat /\ L > 0 /\ m \in Nat /\ m > 0 /\ Power(2, s + 1) = 2 * L /\ Power(2, BITS - s) = 2 * m
  BY <1>0, TwoPowers
<1>2. N = 2 * L * m
  BY <1>0, RootTurns
<1>3. Q \in Int /\ Q \in Nat /\ Q > 0 /\ b \in IntPoly
  BY ModulusHolds DEF ModulusIs, Passed
<1>4. N \div (2 * L) = m
  <2>1. 2 * L \in Nat /\ 2 * L > 0 /\ 0 \in 0 .. 2 * L - 1 /\ N = (2 * L) * m + 0
    BY <1>1, <1>2
  <2> QED
    BY <1>1, <2>1, DivisionIs
<1>5. W \in Nat /\ Cong(W, Power(w, m), Q)
  BY <1>0, <1>1, <1>4, PowModIs
<1> HIDE DEF L, m, W
<1>6. ASSUME NEW k \in Degrees
      PROVE  /\ c[k] \in Int
             /\ Cong(c[k], SumOver(PassTerms(a, w, m, bit_reverse(k \div (2 * L), BITS - (s + 1)), k % (2 * L))), Q)
  <2> DEFINE B   == k \div (2 * L)
             p   == k % (2 * L)
             t   == k % L
             low == k - p + t
             r   == bit_reverse(B, BITS - (s + 1))
             x   == pow_mod(W, t)
             u   == b[low]
             v   == b[low + L]
             sg  == IF k = low THEN 1 ELSE Q - 1
  <2>1. k \in Nat /\ k < 2 * L * m
    BY <1>2, DegreesAre
  <2>2. /\ B \in Nat /\ t \in 0 .. L - 1 /\ low \in Nat /\ low + L < 2 * L * m
        /\ ((p = t /\ k = low) \/ (p = t + L /\ k # low))
        /\ low \div L = 2 * B /\ low % L = t
        /\ (low + L) \div L = 2 * B + 1 /\ (low + L) % L = t
    <3>1. CellOf(L, m, k, B, p, t, low)
      BY <1>1, <2>1, Zenon DEF CellOf
    <3> HIDE DEF B, p, t, low
    <3>2. CellPlace(L, m, k, B, p, t, low)
      BY <3>1, CellHas
    <3> QED
      BY <3>2, Zenon DEF CellPlace
  <2>3. c[k] = (u + sg * v * x) % Q
    BY DEF Butterflies, W
  <2> HIDE DEF B, t, low, p, r, x, u, v, sg
  <2>4. low \in Degrees /\ low + L \in Degrees
    BY <1>1, <1>2, <2>2, DegreesAre
  <2>5. u \in Int /\ v \in Int
    BY <1>3, <2>4 DEF IntPoly, u, v
  <2>6. t \in Nat /\ x \in Nat /\ Cong(x, Power(w, m * t), Q)
    <3>1. t \in Nat
      BY <1>1, <2>2
    <3>2. x \in Nat /\ Cong(x, Power(W, t), Q)
      BY <1>5, <3>1, PowModIs DEF x
    <3>3. w \in Int /\ Power(w, m) \in Int /\ W \in Int /\ m * t \in Nat
      BY <1>0, <1>1, <1>5, <3>1, PowerStep
    <3>4. Cong(Power(W, t), Power(Power(w, m), t), Q)
      BY <1>5, <3>1, <3>3, PowerCong
    <3>5. Power(Power(w, m), t) = Power(w, m * t)
      BY <1>1, <3>1, <3>3, PowerTimes
    <3>6. Power(W, t) \in Int /\ Power(w, m * t) \in Int /\ x \in Int
      BY <3>1, <3>2, <3>3, PowerStep
    <3>7. Cong(Power(W, t), Power(w, m * t), Q)
      BY <3>4, <3>5
    <3> QED
      BY <1>3, <3>1, <3>2, <3>6, <3>7, CongEquivalence
  <2>7. r \in 0 .. m - 1
    BY <1>0, <2>2, RevBelow DEF r, m
  <2>8. bit_reverse(2 * B, BITS - s) = r /\ bit_reverse(2 * B + 1, BITS - s) = r + m
    <3>1. 2 * B \in Nat /\ 2 * B + 1 \in Nat /\ (2 * B) \div 2 = B /\ (2 * B + 1) \div 2 = B
          /\ (2 * B) % 2 = 0 /\ (2 * B + 1) % 2 = 1
      BY <2>2
    <3> DEFINE n == BITS - (s + 1)
               y == 2 * B
               z == 2 * B + 1
    <3>a. n \in Nat /\ y \in Nat /\ z \in Nat /\ y \div 2 = B /\ z \div 2 = B /\ y % 2 = 0 /\ z % 2 = 1
      BY <1>0, <3>1
    <3>b. m = Power(2, n) /\ r = bit_reverse(B, n)
      BY DEF m, r
    <3> HIDE DEF n, y, z
    <3>c. bit_reverse(y, n + 1) = (y % 2) * Power(2, n) + bit_reverse(y \div 2, n)
      BY <3>a, RevGrows
    <3>d. bit_reverse(z, n + 1) = (z % 2) * Power(2, n) + bit_reverse(z \div 2, n)
      BY <3>a, RevGrows
    <3>2. bit_reverse(2 * B, (BITS - (s + 1)) + 1) = 0 * m + r
      BY <3>a, <3>b, <3>c DEF n, y
    <3>3. bit_reverse(2 * B + 1, (BITS - (s + 1)) + 1) = 1 * m + r
      BY <3>a, <3>b, <3>d DEF n, z
    <3>4. 0 * m + r = r /\ 1 * m + r = r + m
      BY <1>1, <2>7
    <3> QED
      BY <1>0, <3>2, <3>3, <3>4
  <2>9. Cong(u, SumOver(PassTerms(a, w, 2 * m, r, t)), Q)
    <3>1. Cong(b[low], SumOver(PassTerms(a, w, 2 * m, bit_reverse(low \div L, BITS - s), low % L)), Q)
      BY <1>1, <2>4 DEF Passed, L
    <3> QED
      BY <2>2, <2>8, <3>1 DEF u
  <2>10. Cong(v, SumOver(PassTerms(a, w, 2 * m, r + m, t)), Q)
    <3>1. Cong(b[low + L], SumOver(PassTerms(a, w, 2 * m, bit_reverse((low + L) \div L, BITS - s), (low + L) % L)), Q)
      BY <1>1, <2>4 DEF Passed, L
    <3> QED
      BY <2>2, <2>8, <3>1 DEF v
  <2>11. x \in Int
    BY <2>6
  <2>12. /\ Cong(u + x * v, SumOver(PassTerms(a, w, m, r, t)), Q)
         /\ Cong(u + (- x) * v, SumOver(PassTerms(a, w, m, r, t + L)), Q)
    BY <1>0, <2>2, <2>5, <2>6, <2>7, <2>9, <2>10, <2>11, PassJoins DEF L, m
  <2>13. PassTerms(a, w, m, r, t) \in IntPoly /\ PassTerms(a, w, m, r, t + L) \in IntPoly
    <3>1. r \in Nat /\ t + L \in Nat
      BY <1>1, <2>6, <2>7
    <3> QED
      BY <1>0, <1>1, <2>6, <3>1, PassTermsInt
  <2>14. SumOver(PassTerms(a, w, m, r, t)) \in Int /\ SumOver(PassTerms(a, w, m, r, t + L)) \in Int
    BY <2>13, SumRuns
  <2>15. sg \in Int /\ sg * v * x \in Int /\ u + sg * v * x \in Int
    <3>1. sg \in Int
      BY <1>3 DEF sg
    <3>2. sg * v \in Int
      BY <2>5, <3>1
    <3>3. sg * v * x \in Int
      BY <2>11, <3>2
    <3> QED
      BY <2>5, <3>1, <3>3
  <2> HIDE DEF c
  <2>16. c[k] \in Int /\ Cong(c[k], u + sg * v * x, Q)
    <3> DEFINE z == u + sg * v * x
    <3>1. z \in Int /\ c[k] = z % Q
      BY <2>3, <2>15
    <3> HIDE DEF z
    <3>2. Cong(z % Q, z, Q) /\ z % Q \in Int
      BY <1>3, <3>1, CongResidue
    <3> QED
      BY <3>1, <3>2 DEF z
  <2>17. CASE p = t /\ k = low
    <3>1. u + sg * v * x = u + x * v
      BY <2>5, <2>11, <2>17 DEF sg
    <3>2. Cong(c[k], SumOver(PassTerms(a, w, m, r, t)), Q)
      BY <2>12, <2>14, <2>15, <2>16, <3>1, CongChain
    <3> QED
      BY <2>16, <2>17, <3>2 DEF p, r, B
  <2>18. CASE p = t + L /\ k # low
    <3>1. u + sg * v * x = (u + (- x) * v) + (v * x) * Q /\ v * x \in Int /\ u + (- x) * v \in Int
      <4>1. \A e, f, g, h \in Int : e + (h - 1) * f * g = (e + (- g) * f) + (f * g) * h /\ f * g \in Int /\ e + (- g) * f \in Int
        OBVIOUS
      <4>2. sg = Q - 1
        BY <2>18 DEF sg
      <4> QED
        BY <1>3, <2>5, <2>11, <4>1, <4>2
    <3>2. Cong(u + sg * v * x, u + (- x) * v, Q)
      BY <3>1 DEF Cong
    <3>3. Cong(c[k], u + (- x) * v, Q)
      BY <2>15, <2>16, <3>1, <3>2, CongChain
    <3>4. Cong(c[k], SumOver(PassTerms(a, w, m, r, t + L)), Q)
      BY <2>12, <2>14, <2>16, <3>1, <3>3, CongChain
    <3> QED
      BY <2>16, <2>18, <3>4 DEF p, r, B
  <2> QED
    BY <2>2, <2>17, <2>18
<1>7. c \in IntPoly
  <2>1. c = [k \in Degrees |-> c[k]]
    BY DEF Butterflies
  <2> HIDE DEF c
  <2> QED
    BY <1>6, <2>1 DEF IntPoly
<1> HIDE DEF c
<1>8. Passed(c, a, w, s + 1)
  BY <1>1, <1>6, <1>7 DEF Passed, m
<1> QED
  BY <1>8 DEF c, L
LEMMA ButterfliesTyped ==
  ASSUME NEW b \in IntPoly, NEW w, IsRoot(w), NEW s \in 0 .. BITS - 1
  PROVE  Butterflies(b, Power(2, s), w) \in IntPoly
<1> DEFINE L == Power(2, s)
           m == Power(2, BITS - (s + 1))
           c == Butterflies(b, L, w)
           W == pow_mod(w, N \div (2 * L))
<1>0. BITS \in Nat /\ s \in Nat /\ BITS - (s + 1) \in Nat /\ BITS > 0 /\ w \in Nat
  BY TwoIs DEF IsRoot
<1>1. L \in Nat /\ L > 0 /\ m \in Nat /\ m > 0
  BY <1>0, TwoPowers
<1>2. N = 2 * L * m
  BY <1>0, RootTurns
<1>3. Q \in Nat /\ Q > 0
  BY ModulusHolds DEF ModulusIs
<1>4. W \in Nat
  <2>1. 2 * L \in Nat /\ 2 * L > 0 /\ 0 \in 0 .. 2 * L - 1 /\ N = (2 * L) * m + 0
    BY <1>1, <1>2
  <2>2. N \div (2 * L) = m
    BY <1>1, <2>1, DivisionIs
  <2> QED
    BY <1>0, <1>1, <2>2, PowModIs
<1> HIDE DEF L, m, W
<1>5. ASSUME NEW k \in Degrees PROVE c[k] \in Int
  <2> DEFINE B   == k \div (2 * L)
             p   == k % (2 * L)
             t   == k % L
             low == k - p + t
             x   == pow_mod(W, t)
             sg  == IF k = low THEN 1 ELSE Q - 1
  <2>1. k \in Nat /\ k < 2 * L * m
    BY <1>2, DegreesAre
  <2>2. CellOf(L, m, k, B, p, t, low)
    BY <1>1, <2>1, Zenon DEF CellOf
  <2>3. c[k] = (b[low] + sg * b[low + L] * x) % Q
    BY DEF Butterflies, W
  <2> HIDE DEF B, t, low, p, x, sg, c
  <2>4. t \in 0 .. L - 1 /\ low \in Nat /\ low + L < 2 * L * m
    BY <2>2, CellHas DEF CellPlace
  <2>5. low \in Degrees /\ low + L \in Degrees
    BY <1>1, <1>2, <2>4, DegreesAre
  <2>6. t \in Nat
    BY <1>1, <2>4
  <2>7. x \in Int /\ b[low] \in Int /\ b[low + L] \in Int
    BY <1>4, <2>5, <2>6, PowModIs DEF x, IntPoly
  <2>8. sg \in Int
    BY <1>3 DEF sg
  <2>9. b[low] + sg * b[low + L] * x \in Int
    <3>1. \A e, f, g, h \in Int : e + f * g * h \in Int
      OBVIOUS
    <3> QED
      BY <2>7, <2>8, <3>1
  <2> QED
    BY <1>3, <2>3, <2>9
<1>6. c = [k \in Degrees |-> c[k]]
  BY DEF Butterflies
<1> HIDE DEF c
<1>7. c \in IntPoly
  BY <1>5, <1>6 DEF IntPoly
<1> QED
  BY <1>7 DEF c, L

LEMMA CyclicRuns ==
  ASSUME NEW a \in IntPoly, NEW w, IsRoot(w)
  PROVE  \E P : /\ P[0] = [i \in Degrees |-> a[bit_reverse(i, BITS)]]
                /\ \A i \in 1 .. BITS : P[i] = Butterflies(P[i - 1], Power(2, i - 1), w)
                /\ cyclic_ntt(a, w) = P[BITS]
<1> DEFINE e    == BITS
           T    == IntPoly
           base == [i \in Degrees |-> a[bit_reverse(i, BITS)]]
           F    == [i \in 1 .. e |-> [b \in T |-> Butterflies(b, 2 ^ (i - 1), w)]]
           seq  == [s \in 1 .. e |-> s]
           Eq(f) == f = [s \in SUBSET (1 .. e) |-> IF s = {} THEN base ELSE
                           Butterflies(f[s \ {Max(s)}], 2 ^ (seq[Max(s)] - 1), w)]
<1>0. e \in Nat /\ \A i \in 1 .. e : i - 1 \in 0 .. e - 1 /\ 2 ^ (i - 1) = Power(2, i - 1)
  <2>1. \A i \in 1 .. e : i - 1 \in 0 .. BITS /\ i - 1 \in 0 .. e - 1
    BY TwoIs
  <2> QED
    BY <2>1, TwoIs
<1>1. LeftData(T, e, base, F)
  <2>1. base \in T
    BY PassStart DEF Passed
  <2>2. ASSUME NEW i \in 1 .. e, NEW b \in T PROVE Butterflies(b, 2 ^ (i - 1), w) \in T
    BY <1>0, ButterfliesTyped
  <2> HIDE DEF T, base
  <2> QED
    BY <2>1, <2>2 DEF LeftData
<1>2. cyclic_ntt(a, w) = (CHOOSE f : Eq(f))[1 .. e]
  <2>1. DOMAIN seq = 1 .. e
    OBVIOUS
  <2> QED
    BY <2>1, Zenon DEF cyclic_ntt, FoldLeft, MapThenFoldSet
<1>3. PICK g \in [SUBSET (1 .. e) -> T] : LeftFold(g, e, base, F)
  <2> HIDE DEF T, base, F, e
  <2> QED
    BY <1>0, <1>1, LeftFoldExists
<1>M. \A s \in SUBSET (1 .. e) : s # {} => Max(s) \in 1 .. e /\ seq[Max(s)] = Max(s)
  BY <1>0, PrefixMax
<1>4. Eq(g)
  <2>1. \A s \in SUBSET (1 .. e) : s # {} => g[s \ {Max(s)}] \in T
    BY <1>M
  <2>2. ASSUME NEW s \in SUBSET (1 .. e), s # {}
        PROVE  F[Max(s)][g[s \ {Max(s)}]] = Butterflies(g[s \ {Max(s)}], 2 ^ (seq[Max(s)] - 1), w)
    <3> DEFINE b == g[s \ {Max(s)}]
               i == Max(s)
    <3>1. b \in T /\ i \in 1 .. e /\ seq[i] = i
      BY <1>M, <2>1, <2>2
    <3> HIDE DEF b, i, T, seq
    <3>2. F[i][b] = Butterflies(b, 2 ^ (i - 1), w)
      BY <3>1
    <3>3. F[i][b] = Butterflies(b, 2 ^ (seq[i] - 1), w)
      BY <3>1, <3>2, Zenon
    <3> QED
      BY <3>3, Zenon DEF b, i
  <2>3. g = [s \in SUBSET (1 .. e) |-> IF s = {} THEN base ELSE F[Max(s)][g[s \ {Max(s)}]]]
    BY <1>3 DEF LeftFold
  <2> HIDE DEF F, base, T, seq
  <2> QED
    BY <2>2, <2>3, Zenon
<1>5. PICK f : Eq(f) /\ cyclic_ntt(a, w) = f[1 .. e]
  <2> HIDE DEF Eq
  <2> QED
    BY <1>2, <1>4, Zenon
<1>6. \A s \in SUBSET (1 .. e) : f[s] = IF s = {} THEN base ELSE Butterflies(f[s \ {Max(s)}], 2 ^ (seq[Max(s)] - 1), w)
  <2> HIDE DEF base, seq
  <2> QED
    BY <1>5, Zenon
<1> DEFINE P == AlongPrefixes(f, e)
<1> HIDE DEF T, base, F, seq, Eq, P, e
<1>7. P[0] = base
  <2>1. P[0] = f[{}]
    BY <1>0, AlongPrefixesAre DEF P
  <2>2. f[{}] = base
    BY <1>0, <1>6, PrefixMax
  <2> QED
    BY <2>1, <2>2
<1>8. ASSUME NEW i \in 1 .. e PROVE P[i] = Butterflies(P[i - 1], Power(2, i - 1), w)
  <2>1. P[i] = f[1 .. i] /\ P[i - 1] = f[1 .. i - 1]
    <3>1. i \in 0 .. e /\ i - 1 \in 0 .. e
      BY <1>0
    <3> QED
      BY <3>1 DEF P, AlongPrefixes
  <2>2. (1 .. i) \ {Max(1 .. i)} = 1 .. i - 1 /\ 1 .. i \in SUBSET (1 .. e) /\ 1 .. i # {} /\ Max(1 .. i) = i
    BY <1>0, PrefixMax
  <2>3. seq[Max(1 .. i)] = i
    BY <1>M, <2>2
  <2>4. f[1 .. i] = Butterflies(f[(1 .. i) \ {Max(1 .. i)}], 2 ^ (seq[Max(1 .. i)] - 1), w)
    BY <1>6, <2>2, Zenon
  <2>5. f[1 .. i] = Butterflies(f[1 .. i - 1], 2 ^ (i - 1), w)
    BY <2>2, <2>3, <2>4, Zenon
  <2> QED
    BY <1>0, <2>1, <2>5, Zenon
<1>9. P[e] = f[1 .. e]
  BY <1>0, AlongPrefixesAre DEF P
<1> QED
  BY <1>5, <1>7, <1>8, <1>9, Zenon DEF base, e

CyclicTerms(a, w, k) == [j \in Degrees |-> a[j] * Power(w, k * j)]

(* The cyclic transform evaluates at the powers of its root.               *)
LEMMA CyclicIs ==
  ASSUME NEW a \in IntPoly, NEW w, IsRoot(w)
  PROVE  /\ cyclic_ntt(a, w) \in IntPoly
         /\ \A k \in Degrees : /\ CyclicTerms(a, w, k) \in IntPoly
                               /\ Cong(cyclic_ntt(a, w)[k], SumOver(CyclicTerms(a, w, k)), Q)
<1>1. PICK P : /\ P[0] = [i \in Degrees |-> a[bit_reverse(i, BITS)]]
               /\ \A i \in 1 .. BITS : P[i] = Butterflies(P[i - 1], Power(2, i - 1), w)
               /\ cyclic_ntt(a, w) = P[BITS]
  BY CyclicRuns
<1>0. BITS \in Nat /\ w \in Nat /\ N = Power(2, BITS) /\ N \in Nat /\ N > 0 /\ Q \in Int /\ BITS - BITS = 0
  BY TwoIs, DegreesAre, CoeffsInt DEF IsRoot
<1> DEFINE S == {s \in Nat : s <= BITS => Passed(P[s], a, w, s)}
<1>2. 0 \in S
  BY <1>1, PassStart
<1>3. ASSUME NEW s \in Nat, s \in S PROVE s + 1 \in S
  <2>1. SUFFICES ASSUME s + 1 <= BITS PROVE Passed(P[s + 1], a, w, s + 1)
    OBVIOUS
  <2>2. s + 1 \in 1 .. BITS /\ (s + 1) - 1 = s /\ s \in 0 .. BITS - 1 /\ Passed(P[s], a, w, s)
    BY <1>0, <1>3, <2>1
  <2>3. P[s + 1] = Butterflies(P[s], Power(2, s), w)
    BY <1>1, <2>2
  <2>4. Passed(Butterflies(P[s], Power(2, s), w), a, w, s + 1)
    BY <2>2, PassStep
  <2> QED
    BY <2>3, <2>4
<1>S. \A s \in Nat : s \in S => (s <= BITS => Passed(P[s], a, w, s))
  OBVIOUS
<1> HIDE DEF S
<1>4. Passed(cyclic_ntt(a, w), a, w, BITS)
  <2>1. BITS \in S
    BY <1>0, <1>2, <1>3, NatSetInduction
  <2> QED
    BY <1>0, <1>1, <1>S, <2>1
<1>5. ASSUME NEW k \in Degrees
      PROVE  /\ CyclicTerms(a, w, k) \in IntPoly
             /\ Cong(cyclic_ntt(a, w)[k], SumOver(CyclicTerms(a, w, k)), Q)
  <2>1. k \in Nat /\ k \div N = 0 /\ k % N = k
    <3>1. k \in Nat /\ k \in 0 .. N - 1 /\ k = N * 0 + k /\ 0 \in Int
      BY <1>0, DegreesAre
    <3>3. \A q \in Int, r \in 0 .. N - 1 : (N * q + r) \div N = q /\ (N * q + r) % N = r
      BY <1>0, DivisionIs
    <3>2. (N * 0 + k) \div N = 0 /\ (N * 0 + k) % N = k
      BY <3>1, <3>3, Zenon
    <3> QED
      BY <3>1, <3>2, Zenon
  <2>2. Power(2, 0) = 1 /\ bit_reverse(0, 0) = 0
    BY PowerStep, RevGrows
  <2>3. Cong(cyclic_ntt(a, w)[k], SumOver(PassTerms(a, w, 1, 0, k)), Q)
    BY <1>0, <1>4, <2>1, <2>2 DEF Passed
  <2>4. PassTerms(a, w, 1, 0, k) = CyclicTerms(a, w, k)
    <3>1. \A j \in Degrees : j % 1 = 0 /\ j - 0 = j
      BY DegreesAre
    <3> QED
      BY <3>1 DEF PassTerms, CyclicTerms
  <2>5. PassTerms(a, w, 1, 0, k) \in IntPoly
    BY <1>0, <2>1, PassTermsInt
  <2> QED
    BY <2>3, <2>4, <2>5
<1> QED
  BY <1>4, <1>5 DEF Passed
-----------------------------------------------------------------------------
(* The powers of PSI.                                                      *)
Psi(n) == Power(PSI, n)

LEMMA PsiIs ==
  /\ PSI \in Int /\ \A n \in Nat : Psi(n) \in Int
  /\ \A n, m \in Nat : Psi(n + m) = Psi(n) * Psi(m) /\ Power(Psi(n), m) = Psi(n * m)
<1>1. PSI \in Int
  BY TransformParameters
<1> QED
  BY <1>1, PowerStep, PowerAdds, PowerTimes DEF Psi

LEMMA PsiTurns ==
  ASSUME NEW q \in Nat
  PROVE  Cong(Psi(2 * N * q), 1, Q) /\ Cong(Psi(N * (2 * q + 1)), -1, Q)
<1>1. N \in Nat /\ Q \in Int /\ PSI \in Nat /\ Psi(N) \in Int /\ -1 \in Int
  BY DegreesAre, CoeffsInt, TransformParameters, PsiIs
<1>2. Cong(Psi(N), -1, Q)
  <2>1. pow_mod(PSI, N) = Q - 1 /\ Cong(pow_mod(PSI, N), Psi(N), Q)
    BY <1>1, PowModIs, RootAssumption DEF Psi
  <2>2. Q - 1 = (-1) + 1 * Q /\ 1 \in Int /\ Q - 1 \in Int
    BY <1>1
  <2>3. Cong(Q - 1, -1, Q)
    BY <2>2 DEF Cong
  <2>4. Cong(Psi(N), Q - 1, Q)
    BY <1>1, <2>1, <2>2, CongFlip
  <2> QED
    BY <1>1, <2>2, <2>3, <2>4, CongChain
<1>3. 2 * q \in Nat /\ 2 * q + 1 \in Nat
  OBVIOUS
<1>4. Cong(Power(Psi(N), 2 * q), Power(-1, 2 * q), Q) /\ Cong(Power(Psi(N), 2 * q + 1), Power(-1, 2 * q + 1), Q)
  BY <1>1, <1>2, <1>3, PowerCong
<1>5. Power(Psi(N), 2 * q) = Psi(N * (2 * q)) /\ Power(Psi(N), 2 * q + 1) = Psi(N * (2 * q + 1))
  BY <1>1, <1>3, PsiIs
<1>6. Power(-1, 2 * q) = 1 /\ Power(-1, 2 * q + 1) = -1
  BY PowerOfMinusOne
<1>7. N * (2 * q) = 2 * N * q
  BY <1>1
<1> QED
  BY <1>4, <1>5, <1>6, <1>7

(* The exponent of the inverses.                                           *)
LEMMA InverseExponent == \E c \in Nat : c > 0 /\ Q - 1 = 2 * N * c /\ Q - 2 \in Nat
<1>1. N \in Nat /\ N > 0 /\ Q \in Nat /\ Q > 2 /\ (Q - 1) % (2 * N) = 0
  BY DegreesAre, ModulusHolds, RootAssumption DEF ModulusIs
<1> DEFINE L == 2 * N
           c == (Q - 1) \div L
<1>2. L \in Nat /\ L > 0 /\ Q - 1 \in Nat /\ Q - 1 > 0 /\ (Q - 1) % L = 0
  BY <1>1
<1> HIDE DEF L
<1>3. Q - 1 = L * c + ((Q - 1) % L) /\ c \in Int
  BY <1>2
<1> HIDE DEF c
<1>4. Q - 1 = L * c
  BY <1>2, <1>3
<1>5. c > 0
  <2>1. c <= 0 => L * c <= 0
    BY <1>2, <1>3
  <2> QED
    BY <1>2, <1>3, <1>4, <2>1
<1>6. c \in Nat /\ Q - 1 = 2 * N * c /\ Q - 2 \in Nat
  BY <1>1, <1>3, <1>4, <1>5 DEF L
<1> QED
  BY <1>5, <1>6

LEMMA RootsAre ==
  /\ Omega \in Nat /\ IsRoot(Omega) /\ Cong(Omega, Psi(2), Q)
  /\ IsRoot(pow_mod(Omega, Q - 2)) /\ Cong(pow_mod(Omega, Q - 2), Psi(2 * (Q - 2)), Q)
  /\ pow_mod(PSI, Q - 2) \in Nat /\ Cong(pow_mod(PSI, Q - 2), Psi(Q - 2), Q)
<1>1. N \in Nat /\ Q \in Nat /\ Q > 0 /\ Q \in Int /\ PSI \in Nat /\ PSI \in Int /\ 1 \in Int /\ -1 \in Int
  BY DegreesAre, ModulusHolds, TransformParameters DEF ModulusIs
<1>2. PICK c \in Nat : c > 0 /\ Q - 1 = 2 * N * c /\ Q - 2 \in Nat
  BY InverseExponent
<1>3. BITS \in Nat /\ N = Power(2, BITS) /\ (BITS > 0 => Power(2, BITS - 1) \in Nat /\ N = 2 * Power(2, BITS - 1))
  <2>1. BITS > 0 => BITS - 1 \in Nat /\ (BITS - 1) + 1 = BITS
    BY TwoIs
  <2> QED
    BY <2>1, TwoIs, TwoPowers
<1>4. Omega \in Nat /\ Cong(Omega, Psi(2), Q)
  <2>1. PSI * PSI \in Nat
    BY <1>1
  <2>2. Psi(2) = PSI * PSI
    <3>1. Psi(1) = PSI
      <4>1. Power(PSI, 0) = 1 /\ Power(PSI, 0 + 1) = PSI * Power(PSI, 0)
        BY <1>1, PowerStep
      <4> QED
        BY <1>1, <4>1 DEF Psi
    <3>2. Psi(1 + 1) = Psi(1) * Psi(1)
      BY PsiIs
    <3> QED
      BY <3>1, <3>2
  <2>3. Cong((PSI * PSI) % Q, PSI * PSI, Q)
    BY <1>1, <2>1, CongResidue
  <2> QED
    BY <1>1, <2>1, <2>2, <2>3 DEF Omega
(* A power of PSI^2 whose exponent is odd turns as PSI^2 does.             *)
<1>5. ASSUME NEW w \in Nat, NEW v \in Nat, NEW q \in Nat, v = 2 * q + 1, Cong(w, Psi(2 * v), Q)
      PROVE  IsRoot(w)
  <2>1. 2 * v \in Nat /\ Psi(2 * v) \in Int /\ w \in Int
    BY PsiIs
  <2>2. \A n \in Nat : Cong(Power(w, n), Psi((2 * v) * n), Q)
    <3>1. \A n \in Nat : Cong(Power(w, n), Power(Psi(2 * v), n), Q)
      BY <1>5, <2>1, PowerCong
    <3> QED
      BY <2>1, <3>1, PsiIs
  <2>3. Cong(Power(w, N), 1, Q)
    <3>1. (2 * v) * N = 2 * N * v
      BY <1>1
    <3>2. Cong(Psi(2 * N * v), 1, Q) /\ Cong(Power(w, N), Psi((2 * v) * N), Q)
      BY <1>1, <2>2, PsiTurns
    <3>3. Power(w, N) \in Int /\ Psi((2 * v) * N) \in Int
      <4>1. (2 * v) * N \in Nat
        BY <1>1, <2>1
      <4> QED
        BY <1>1, <2>1, <4>1, PowerStep, PsiIs
    <3> QED
      BY <1>1, <3>1, <3>2, <3>3, CongChain
  <2>4. ASSUME BITS > 0 PROVE Cong(Power(w, Power(2, BITS - 1)), -1, Q)
    <3> DEFINE H == Power(2, BITS - 1)
    <3>1. H \in Nat /\ N = 2 * H
      BY <1>3, <2>4
    <3> HIDE DEF H
    <3>2. (2 * v) * H = N * (2 * q + 1) /\ (2 * v) * H \in Nat
      <4>1. (2 * v) * H = (2 * H) * v /\ (2 * v) * H \in Nat
        BY <3>1
      <4> QED
        BY <1>5, <3>1, <4>1
    <3>3. Cong(Psi((2 * v) * H), -1, Q) /\ Cong(Power(w, H), Psi((2 * v) * H), Q)
      BY <2>2, <3>1, <3>2, PsiTurns
    <3>4. Power(w, H) \in Int /\ Psi((2 * v) * H) \in Int
      BY <2>1, <3>1, <3>2, PowerStep, PsiIs
    <3> QED
      BY <1>1, <3>3, <3>4, CongChain DEF H
  <2> QED
    BY <2>3, <2>4 DEF IsRoot
<1>6. IsRoot(Omega)
  <2>1. 1 = 2 * 0 + 1 /\ 2 * 1 = 2 /\ 1 \in Nat /\ 0 \in Nat
    OBVIOUS
  <2> QED
    BY <1>4, <1>5, <2>1
<1>7. pow_mod(Omega, Q - 2) \in Nat /\ Cong(pow_mod(Omega, Q - 2), Psi(2 * (Q - 2)), Q)
  <2>1. pow_mod(Omega, Q - 2) \in Nat /\ Cong(pow_mod(Omega, Q - 2), Power(Omega, Q - 2), Q)
    BY <1>2, <1>4, PowModIs
  <2>2. Omega \in Int /\ Psi(2) \in Int /\ 2 * (Q - 2) \in Nat
    <3>1. 2 * (Q - 2) \in Nat
      BY <1>2
    <3>2. Psi(2) \in Int
      BY PsiIs
    <3> QED
      BY <1>4, <3>1, <3>2
  <2>3. Cong(Power(Omega, Q - 2), Power(Psi(2), Q - 2), Q)
    BY <1>2, <1>4, <2>2, PowerCong
  <2>4. Power(Psi(2), Q - 2) = Psi(2 * (Q - 2))
    BY <1>2, PsiIs
  <2>5. Power(Omega, Q - 2) \in Int /\ Psi(2 * (Q - 2)) \in Int /\ pow_mod(Omega, Q - 2) \in Int
    BY <1>2, <2>1, <2>2, PowerStep, PsiIs
  <2> QED
    BY <2>1, <2>3, <2>4, <2>5, CongChain
<1>8. IsRoot(pow_mod(Omega, Q - 2))
  <2>1. N * c \in Nat /\ N * c > 0
    <3>1. N * c \in Nat
      BY <1>1
    <3>2. N * c # 0
      BY <1>2, <3>1, DegreesAre
    <3> QED
      BY <3>1, <3>2
  <2>2. N * c - 1 \in Nat /\ Q - 2 = 2 * (N * c - 1) + 1
    <3>1. 2 * N * c = 2 * (N * c)
      BY <1>1
    <3> QED
      BY <1>1, <1>2, <2>1, <3>1
  <2> QED
    BY <1>2, <1>5, <1>7, <2>2
<1>9. pow_mod(PSI, Q - 2) \in Nat /\ Cong(pow_mod(PSI, Q - 2), Psi(Q - 2), Q)
  BY <1>1, <1>2, PowModIs DEF Psi
<1> QED
  BY <1>4, <1>6, <1>7, <1>8, <1>9
-----------------------------------------------------------------------------
(* Shifting the terms of a sum by one.                                     *)
LEMMA SumShift ==
  ASSUME NEW phi \in [0 .. N -> Int]
  PROVE  /\ [k \in Degrees |-> phi[k]] \in IntPoly /\ [k \in Degrees |-> phi[k + 1]] \in IntPoly
         /\ SumOver([k \in Degrees |-> phi[k + 1]]) = SumOver([k \in Degrees |-> phi[k]]) + (phi[N] - phi[0])
<1> DEFINE h == [k \in Degrees |-> phi[k]]
           g == [k \in Degrees |-> phi[k + 1]]
<1>0. /\ 0 \in 0 .. N /\ N \in 0 .. N
      /\ \A k \in Degrees : k \in 0 .. N /\ k + 1 \in 0 .. N
      /\ \A k \in 0 .. N : phi[k] \in Int
  BY DegreesAre
<1>1. h \in IntPoly /\ g \in IntPoly
  BY <1>0 DEF IntPoly
<1>2. \A k \in Degrees : h[k] = phi[k] /\ g[k] = phi[k + 1]
  OBVIOUS
<1> HIDE DEF h, g
<1>3. PICK P : Running(P, h) /\ P[N] = SumOver(h)
  BY <1>1, SumRuns
<1> DEFINE U == [n \in 0 .. N |-> P[n] + (phi[n] - phi[0])]
<1>4. P \in [0 .. N -> Int] /\ P[0] = 0 /\ \A i \in Degrees : P[i + 1] = P[i] + h[i]
  BY <1>3 DEF Running
<1>5. \A n \in 0 .. N : P[n] \in Int /\ U[n] = P[n] + (phi[n] - phi[0])
  BY <1>4
<1>6. U \in [0 .. N -> Int]
  BY <1>0, <1>5
<1>7. U[0] = 0
  BY <1>0, <1>4, <1>5
<1> HIDE DEF U
<1>8. ASSUME NEW i \in Degrees PROVE U[i + 1] = U[i] + g[i]
  <2>1. P[i] \in Int /\ phi[i] \in Int /\ phi[i + 1] \in Int /\ phi[0] \in Int /\ P[i + 1] = P[i] + phi[i]
    BY <1>0, <1>2, <1>4
  <2>2. U[i + 1] = P[i + 1] + (phi[i + 1] - phi[0]) /\ U[i] = P[i] + (phi[i] - phi[0]) /\ g[i] = phi[i + 1]
    BY <1>0, <1>2, <1>5
  <2> QED
    BY <2>1, <2>2
<1>9. Running(U, g)
  BY <1>6, <1>7, <1>8 DEF Running
<1>10. U[N] = SumOver(g)
  BY <1>1, <1>9, RunningUnique
<1>11. SumOver(g) = SumOver(h) + (phi[N] - phi[0])
  BY <1>0, <1>3, <1>5, <1>10
<1> QED
  BY <1>1, <1>11 DEF h, g

(* Some multiple of a number that N does not divide is an odd multiple of  *)
(* half of 2N.                                                             *)
LEMMA OddMultiple ==
  \A u \in Nat : \A d \in Nat :
    d % Power(2, u) # 0 => \E n, q \in Nat : 2 * d * n = Power(2, u) * (2 * q + 1)
<1> DEFINE Good(u, d) == d % Power(2, u) # 0 => \E n, q \in Nat : 2 * d * n = Power(2, u) * (2 * q + 1)
           S == {u \in Nat : \A d \in Nat : Good(u, d)}
<1>1. 0 \in S
  <2>1. Power(2, 0) = 1 /\ \A d \in Nat : d % 1 = 0
    BY PowerStep
  <2> QED
    BY <2>1
<1>2. ASSUME NEW u \in Nat, u \in S PROVE u + 1 \in S
  <2> DEFINE p == Power(2, u)
  <2>1. p \in Nat /\ p > 0 /\ Power(2, u + 1) = 2 * p
    BY TwoPowers
  <2>2. \A d \in Nat : d % p # 0 => \E n, q \in Nat : 2 * d * n = p * (2 * q + 1)
    BY <1>2
  <2> HIDE DEF p
  <2>3. ASSUME NEW d \in Nat, d % (2 * p) # 0
        PROVE  \E n, q \in Nat : 2 * d * n = (2 * p) * (2 * q + 1)
    <3> DEFINE q == d \div 2
    <3>1. q \in Nat /\ (d = 2 * q \/ d = 2 * q + 1)
      OBVIOUS
    <3> HIDE DEF q
    <3>2. CASE d = 2 * q + 1
      <4>1. 2 * d * p = (2 * p) * (2 * q + 1)
        BY <2>1, <3>1, <3>2
      <4> QED
        BY <2>1, <3>1, <4>1
    <3>3. CASE d = 2 * q
      <4>1. q % p # 0
        <5>1. SUFFICES ASSUME q % p = 0 PROVE d % (2 * p) = 0
          BY <2>3
        <5> DEFINE x == q \div p
        <5>2. q = p * x /\ x \in Int
          BY <2>1, <3>1, <5>1
        <5> HIDE DEF x
        <5>3. d = (2 * p) * x + 0 /\ 2 * p \in Nat /\ 2 * p > 0 /\ 0 \in 0 .. 2 * p - 1
          BY <2>1, <3>3, <5>2
        <5>4. ((2 * p) * x + 0) % (2 * p) = 0
          BY <5>2, <5>3, DivisionIs
        <5> QED
          BY <5>3, <5>4, Zenon
      <4>2. PICK n, z \in Nat : 2 * q * n = p * (2 * z + 1)
        BY <2>2, <3>1, <4>1
      <4>3. 2 * d * n = (2 * p) * (2 * z + 1)
        <5>1. 2 * d * n = 2 * (2 * q * n)
          BY <3>1, <3>3
        <5>2. 2 * (p * (2 * z + 1)) = (2 * p) * (2 * z + 1)
          BY <2>1
        <5> QED
          BY <4>2, <5>1, <5>2
      <4> QED
        BY <4>3
    <3> QED
      BY <3>1, <3>2, <3>3
  <2>4. ASSUME NEW d \in Nat PROVE Good(u + 1, d)
    <3>1. d % (2 * p) # 0 => \E n, q \in Nat : 2 * d * n = (2 * p) * (2 * q + 1)
      BY <2>3
    <3> QED
      BY <2>1, <3>1, Zenon
  <2> QED
    BY <2>4
<1>S. \A u : u \in S => \A d \in Nat : Good(u, d)
  OBVIOUS
<1> HIDE DEF S
<1> QED
  BY <1>1, <1>2, <1>S, NatSetInduction

OddTerms(d) == [k \in Degrees |-> Psi(d * (2 * k + 1))]

LEMMA OddTermsInt == \A d \in Nat : OddTerms(d) \in IntPoly
<1> SUFFICES ASSUME NEW d \in Nat, NEW k \in Degrees PROVE Psi(d * (2 * k + 1)) \in Int
  BY DEF OddTerms, IntPoly
<1>1. k \in Nat /\ 2 * k + 1 \in Nat
  BY DegreesAre
<1>2. d * (2 * k + 1) \in Nat
  BY <1>1
<1> QED
  BY <1>2, PsiIs

(* The sum of N ones.                                                      *)
LEMMA SumOnes ==
  ASSUME NEW h \in IntPoly, \A k \in Degrees : h[k] = 1
  PROVE  SumOver(h) = N
<1> DEFINE P == [n \in 0 .. N |-> n]
<1>1. P \in [0 .. N -> Int] /\ P[0] = 0 /\ P[N] = N /\ \A i \in Degrees : P[i + 1] = P[i] + h[i]
  BY DegreesAre
<1> HIDE DEF P
<1>2. Running(P, h)
  BY <1>1 DEF Running
<1> QED
  BY <1>1, <1>2, RunningUnique

LEMMA OddSumFull ==
  ASSUME NEW c \in Nat
  PROVE  Cong(SumOver(OddTerms(2 * N * c)), N, Q)
<1> DEFINE d == 2 * N * c
           o == [k \in Degrees |-> 1]
<1>1. d \in Nat /\ N \in Nat
  BY DegreesAre
<1>2. o \in IntPoly
  BY DEF IntPoly
<1>3. SumOver(o) = N
  BY <1>2, SumOnes
<1>4. OddTerms(d) \in IntPoly
  BY <1>1, OddTermsInt
<1>5. ASSUME NEW k \in Degrees PROVE Cong(OddTerms(d)[k], o[k], Q)
  <2>1. k \in Nat /\ c * (2 * k + 1) \in Nat
    BY DegreesAre
  <2>2. d * (2 * k + 1) = 2 * N * (c * (2 * k + 1))
    BY <1>1, <2>1
  <2>3. Cong(Psi(2 * N * (c * (2 * k + 1))), 1, Q)
    BY <2>1, PsiTurns
  <2>4. OddTerms(d)[k] = Psi(d * (2 * k + 1)) /\ o[k] = 1
    BY DEF OddTerms
  <2> QED
    BY <2>2, <2>3, <2>4, Zenon
<1> HIDE DEF d, o
<1>6. Alike(OddTerms(d), o)
  BY <1>5 DEF Alike
<1>7. Cong(SumOver(OddTerms(d)), SumOver(o), Q)
  BY <1>2, <1>4, <1>6, SumAlike
<1> QED
  BY <1>3, <1>7 DEF d
LEMMA InverseOfN == pow_mod(N, Q - 2) \in Nat /\ Cong(N * pow_mod(N, Q - 2), 1, Q)
<1>1. N \in Nat /\ N \in Int /\ Q \in Int /\ 1 \in Int
  BY DegreesAre, CoeffsInt
<1>2. Q - 2 \in Nat /\ (Q - 2) + 1 = Q - 1 /\ Q - 1 \in Nat
  <2>1. Q - 2 \in Nat
    BY InverseExponent
  <2> QED
    BY <1>1, <2>1
<1>3. pow_mod(N, Q - 2) \in Nat /\ Cong(pow_mod(N, Q - 2), Power(N, Q - 2), Q)
  BY <1>1, <1>2, PowModIs
<1>4. Cong(pow_mod(N, Q - 1), Power(N, Q - 1), Q) /\ pow_mod(N, Q - 1) = 1
  BY <1>1, <1>2, PowModIs, RootAssumption
<1>5. Power(N, Q - 2) \in Int /\ Power(N, (Q - 2) + 1) = N * Power(N, Q - 2)
  BY <1>1, <1>2, PowerStep
<1>6. Cong(N * pow_mod(N, Q - 2), N * Power(N, Q - 2), Q)
  <2>1. pow_mod(N, Q - 2) \in Int
    BY <1>3
  <2> QED
    BY <1>1, <1>3, <1>5, <2>1, CongTimes
<1>7. N * Power(N, Q - 2) = Power(N, Q - 1) /\ Power(N, Q - 1) \in Int /\ N * pow_mod(N, Q - 2) \in Int
  BY <1>1, <1>2, <1>3, <1>5, PowerStep
<1>8. Cong(Power(N, Q - 1), 1, Q)
  BY <1>1, <1>4, <1>7, CongFlip
<1> QED
  BY <1>1, <1>3, <1>6, <1>7, <1>8, CongChain

LEMMA OddSumTurns ==
  ASSUME NEW d \in Nat
  PROVE  \A n \in Nat : Cong(Psi(2 * d * n) * SumOver(OddTerms(d)), SumOver(OddTerms(d)), Q)
<1> DEFINE h   == OddTerms(d)
           s   == SumOver(h)
           t   == Psi(2 * d)
           phi == [k \in 0 .. N |-> Psi(d * (2 * k + 1))]
           g   == [k \in Degrees |-> phi[k + 1]]
<1>0. N \in Nat /\ Q \in Int /\ 0 \in 0 .. N /\ N \in 0 .. N /\ 2 * d \in Nat
  BY DegreesAre, CoeffsInt
<1>1. h \in IntPoly /\ s \in Int /\ t \in Int
  BY <1>0, OddTermsInt, SumRuns, PsiIs
<1>2. \A k \in 0 .. N : d * (2 * k + 1) \in Nat /\ phi[k] = Psi(d * (2 * k + 1)) /\ phi[k] \in Int
  <2>1. ASSUME NEW k \in 0 .. N PROVE d * (2 * k + 1) \in Nat
    <3>1. 2 * k + 1 \in Nat
      BY <1>0
    <3> QED
      BY <3>1
  <2> QED
    BY <2>1, PsiIs
<1>3. phi \in [0 .. N -> Int]
  BY <1>2
<1>4. [k \in Degrees |-> phi[k]] = h
  BY <1>2, DegreesAre DEF OddTerms
<1>5. g = TimesTerms(t, h)
  <2>1. ASSUME NEW k \in Degrees PROVE phi[k + 1] = t * h[k]
    <3>1. k \in 0 .. N /\ k + 1 \in 0 .. N /\ k \in Nat
      BY DegreesAre
    <3>2. d * (2 * (k + 1) + 1) = 2 * d + d * (2 * k + 1) /\ d * (2 * k + 1) \in Nat
      BY <1>2, <3>1
    <3>3. Psi(2 * d + d * (2 * k + 1)) = Psi(2 * d) * Psi(d * (2 * k + 1))
      BY <1>0, <3>2, PsiIs
    <3>4. phi[k + 1] = Psi(d * (2 * (k + 1) + 1)) /\ h[k] = Psi(d * (2 * k + 1))
      BY <1>2, <3>1 DEF OddTerms
    <3> QED
      BY <3>2, <3>3, <3>4, Zenon
  <2> HIDE DEF phi, h, t
  <2>2. \A k \in Degrees : g[k] = t * h[k]
    BY <2>1
  <2> QED
    BY <2>1 DEF TimesTerms
<1>6. Cong(phi[N], phi[0], Q)
  <2>1. d * (2 * N + 1) = 2 * N * d + d * 1 /\ 2 * N * d \in Nat /\ d * 1 = d
    BY <1>0
  <2>2. phi[N] = Psi(2 * N * d + d)
    <3>1. phi[N] = Psi(d * (2 * N + 1))
      BY <1>0
    <3> QED
      BY <2>1, <3>1, Zenon
  <2>3. phi[0] = Psi(d)
    <3>1. d * (2 * 0 + 1) = d
      OBVIOUS
    <3> QED
      BY <1>0, <3>1
  <2>4. Psi(2 * N * d + d) = Psi(2 * N * d) * Psi(d) /\ Psi(2 * N * d) \in Int /\ Psi(d) \in Int
    BY <2>1, PsiIs
  <2>5. Cong(Psi(2 * N * d), 1, Q) /\ Cong(Psi(d), Psi(d), Q)
    BY <1>0, <2>4, PsiTurns, CongEquivalence
  <2>6. Cong(Psi(2 * N * d) * Psi(d), 1 * Psi(d), Q)
    BY <1>0, <2>4, <2>5, CongProducts
  <2>7. 1 * Psi(d) = Psi(d)
    BY <2>4
  <2> QED
    BY <2>2, <2>3, <2>4, <2>6, <2>7
<1>7. SumOver(g) = s + (phi[N] - phi[0])
  <2> HIDE DEF phi, h
  <2> QED
    BY <1>3, <1>4, SumShift
<1>8. SumOver(g) = t * s
  <2> HIDE DEF phi, h, t, g
  <2> QED
    BY <1>1, <1>5, SumTimes
<1>9. phi[N] \in Int /\ phi[0] \in Int
  BY <1>0, <1>2
<1> HIDE DEF phi, h, t, g, s
<1>10. Cong(t * s, s, Q)
  <2>1. PICK c \in Int : phi[N] = phi[0] + c * Q
    BY <1>6 DEF Cong
  <2>2. t * s = s + c * Q
    BY <1>0, <1>1, <1>7, <1>8, <1>9, <2>1
  <2> QED
    BY <2>2 DEF Cong
<1> DEFINE S == {n \in Nat : Cong(Psi(2 * d * n) * s, s, Q)}
<1>11. 0 \in S
  <2>1. Psi(0) = 1 /\ 2 * d * 0 = 0 /\ 1 * s = s
    BY <1>1, PowerStep, PsiIs DEF Psi
  <2>2. Cong(s, s, Q)
    BY <1>0, <1>1, CongEquivalence
  <2> QED
    BY <2>1, <2>2
<1>12. ASSUME NEW n \in Nat, n \in S PROVE n + 1 \in S
  <2>1. 2 * d * n \in Nat /\ 2 * d * (n + 1) = 2 * d + 2 * d * n
    BY <1>0
  <2> DEFINE e == 2 * d * n
             y == Psi(e)
  <2>2. Psi(2 * d + e) = t * y /\ y \in Int
    BY <1>0, <2>1, PsiIs DEF t
  <2>3. Cong(y * s, s, Q)
    BY <1>12
  <2>4. Psi(2 * d * (n + 1)) = t * y
    BY <2>1, <2>2, Zenon
  <2> HIDE DEF y, e
  <2>5. y * s \in Int /\ t * s \in Int /\ t * (y * s) = (t * y) * s /\ (t * y) * s \in Int
    BY <1>1, <2>2
  <2>6. Cong(t * (y * s), t * s, Q)
    BY <1>1, <2>3, <2>5, CongTimes
  <2>7. Cong((t * y) * s, s, Q)
    BY <1>1, <1>10, <2>5, <2>6, CongChain
  <2> QED
    BY <2>4, <2>7
<1>S. \A n : n \in S => Cong(Psi(2 * d * n) * s, s, Q)
  OBVIOUS
<1> HIDE DEF S
<1>13. \A n \in Nat : Cong(Psi(2 * d * n) * s, s, Q)
  BY <1>11, <1>12, <1>S, NatSetInduction
<1> QED
  BY <1>13 DEF s, h

LEMMA OddSumEmpty ==
  ASSUME NEW d \in Nat, d % N # 0
  PROVE  Cong(SumOver(OddTerms(d)), 0, Q)
<1> DEFINE s == SumOver(OddTerms(d))
           x == pow_mod(N, Q - 2)
<1>1. N \in Nat /\ Q \in Int /\ N = Power(2, BITS) /\ BITS \in Nat /\ s \in Int
  BY DegreesAre, CoeffsInt, TwoIs, OddTermsInt, SumRuns
<1>2. PICK n \in Nat, q \in Nat : 2 * d * n = N * (2 * q + 1)
  <2>1. d % Power(2, BITS) # 0
    BY <1>1, Zenon
  <2>2. \E n, q \in Nat : 2 * d * n = Power(2, BITS) * (2 * q + 1)
    BY <1>1, <2>1, OddMultiple
  <2> QED
    BY <1>1, <2>2, Zenon
<1>3. Cong(Psi(2 * d * n) * s, s, Q)
  BY OddSumTurns
<1> HIDE DEF s, x
<1>4. Psi(N * (2 * q + 1)) \in Int /\ Cong(Psi(N * (2 * q + 1)), -1, Q)
  <2>1. N * (2 * q + 1) \in Nat
    <3>1. 2 * q + 1 \in Nat
      OBVIOUS
    <3> QED
      BY <1>1, <3>1
  <2> QED
    BY <2>1, PsiIs, PsiTurns
<1>5. PICK c \in Int, e \in Int : Psi(2 * d * n) * s = s + c * Q /\ Psi(2 * d * n) = -1 + e * Q
  BY <1>2, <1>3, <1>4 DEF Cong
(* Twice the sum is a multiple of Q, and N is even.                        *)
<1>6. 2 * s = (e * s - c) * Q
  <2>1. (-1 + e * Q) * s = s + c * Q
    BY <1>5
  <2>2. (-1 + e * Q) * s = (- s) + (e * s) * Q
    BY <1>1, <1>5
  <2>3. (e * s - c) * Q = (e * s) * Q - c * Q /\ (e * s) * Q \in Int /\ c * Q \in Int
    BY <1>1, <1>5
  <2> QED
    BY <1>1, <2>1, <2>2, <2>3
<1>7. \E h \in Nat : N = 2 * h
  <2>1. BITS # 0
    <3>1. Power(2, 0) = 1 /\ d % 1 = 0
      BY PowerStep
    <3> QED
      BY <1>1, <3>1
  <2>2. BITS - 1 \in Nat /\ (BITS - 1) + 1 = BITS
    BY <1>1, <2>1
  <2>3. Power(2, BITS - 1) \in Nat /\ N = 2 * Power(2, BITS - 1)
    BY <1>1, <2>2, TwoPowers
  <2> QED
    BY <2>3
<1>8. PICK h \in Nat : N = 2 * h
  BY <1>7
<1>9. x \in Int /\ \E f \in Int : N * x = 1 + f * Q
  BY InverseOfN DEF Cong, x
<1>10. PICK f \in Int : N * x = 1 + f * Q
  BY <1>9
<1>11. s = 0 + ((x * h) * (e * s - c) - f * s) * Q
  <2>1. (N * x) * s = s + (f * s) * Q
    <3>1. (1 + f * Q) * s = s + (f * s) * Q
      BY <1>1
    <3> QED
      BY <1>10, <3>1
  <2>2. (N * x) * s = (x * h) * (2 * s)
    <3>1. ((2 * h) * x) * s = (x * h) * (2 * s)
      BY <1>1, <1>9
    <3> QED
      BY <1>8, <3>1
  <2> DEFINE y == e * s - c
             z == x * h
  <2>3. y \in Int /\ z \in Int /\ f * s \in Int
    BY <1>1, <1>5, <1>9
  <2>4. (N * x) * s = z * (y * Q)
    BY <1>6, <2>2
  <2> HIDE DEF y, z
  <2>5. z * (y * Q) = (z * y) * Q /\ (z * y) * Q \in Int /\ (f * s) * Q \in Int
        /\ (z * y - f * s) * Q = (z * y) * Q - (f * s) * Q
    BY <1>1, <2>3
  <2>6. s = (z * y - f * s) * Q
    BY <1>1, <2>1, <2>4, <2>5
  <2>7. (z * y - f * s) * Q = 0 + (z * y - f * s) * Q
    BY <1>1, <2>3
  <2> QED
    BY <2>6, <2>7 DEF y, z
<1>12. (x * h) * (e * s - c) - f * s \in Int
  BY <1>1, <1>5, <1>9
<1> QED
  BY <1>11, <1>12 DEF Cong, s
-----------------------------------------------------------------------------
(* Evaluation at a power of PSI, and what the forward transform computes.  *)
EvalTerms(a, e) == [j \in Degrees |-> a[j] * Psi(e * j)]

Eval(a, e) == SumOver(EvalTerms(a, e))

LEMMA EvalInt ==
  ASSUME NEW a \in IntPoly, NEW e \in Nat
  PROVE  EvalTerms(a, e) \in IntPoly /\ Eval(a, e) \in Int
<1>1. ASSUME NEW j \in Degrees PROVE a[j] * Psi(e * j) \in Int
  <2>1. j \in Nat /\ a[j] \in Int
    BY DegreesAre DEF IntPoly
  <2>2. e * j \in Nat
    BY <2>1
  <2>3. Psi(e * j) \in Int
    BY <2>2, PsiIs
  <2> QED
    BY <2>1, <2>3
<1>2. EvalTerms(a, e) \in IntPoly
  BY <1>1 DEF EvalTerms, IntPoly
<1> QED
  BY <1>2, SumRuns DEF Eval

(* A residue of a product, and a product of one with a power.              *)
LEMMA TwistedTerm ==
  ASSUME NEW a \in Int, NEW x \in Nat, NEW y \in Int, NEW u \in Int, NEW z \in Int,
         Cong(x, u, Q), Cong(y, z, Q)
  PROVE  Cong(((a * x) % Q) * y, a * (u * z), Q)
<1>1. Q \in Nat /\ Q > 0 /\ Q \in Int /\ x \in Int
  BY ModulusHolds DEF ModulusIs
<1>2. a * x \in Int /\ a * u \in Int
  BY <1>1
<1>3. Cong((a * x) % Q, a * x, Q) /\ (a * x) % Q \in Int
  BY <1>1, <1>2, CongResidue
<1>4. Cong(a * x, a * u, Q)
  BY <1>1, CongTimes
<1>5. Cong((a * x) % Q, a * u, Q)
  BY <1>2, <1>3, <1>4, CongChain
<1>6. Cong(((a * x) % Q) * y, (a * u) * z, Q)
  BY <1>1, <1>2, <1>3, <1>5, CongProducts
<1>7. (a * u) * z = a * (u * z)
  OBVIOUS
<1> QED
  BY <1>6, <1>7

LEMMA ForwardIs ==
  ASSUME NEW a \in IntPoly
  PROVE  /\ ntt_forward(a) \in IntPoly
         /\ \A k \in Degrees : Cong(ntt_forward(a)[k], Eval(a, 2 * k + 1), Q)
<1> DEFINE h == [i \in Degrees |-> (a[i] * pow_mod(PSI, i)) % Q]
<1>1. Q \in Nat /\ Q > 0 /\ PSI \in Nat /\ PSI \in Int
  BY ModulusHolds, TransformParameters DEF ModulusIs
<1>2. ASSUME NEW i \in Degrees
      PROVE  /\ i \in Nat /\ a[i] \in Int /\ pow_mod(PSI, i) \in Nat /\ Cong(pow_mod(PSI, i), Psi(i), Q)
             /\ h[i] \in Int
  <2>1. i \in Nat /\ a[i] \in Int
    BY DegreesAre DEF IntPoly
  <2>2. pow_mod(PSI, i) \in Nat /\ Cong(pow_mod(PSI, i), Psi(i), Q)
    BY <1>1, <2>1, PowModIs DEF Psi
  <2>3. a[i] * pow_mod(PSI, i) \in Int
    BY <2>1, <2>2
  <2> QED
    BY <1>1, <2>1, <2>2, <2>3
<1>3. h \in IntPoly
  BY <1>2 DEF IntPoly
<1>4. ntt_forward(a) = cyclic_ntt(h, Omega)
  BY DEF ntt_forward
<1>5. \A i \in Degrees : h[i] = (a[i] * pow_mod(PSI, i)) % Q
  OBVIOUS
<1> HIDE DEF h
<1>6. /\ cyclic_ntt(h, Omega) \in IntPoly
      /\ \A k \in Degrees : /\ CyclicTerms(h, Omega, k) \in IntPoly
                            /\ Cong(cyclic_ntt(h, Omega)[k], SumOver(CyclicTerms(h, Omega, k)), Q)
  BY <1>3, RootsAre, CyclicIs
<1>7. ASSUME NEW k \in Degrees PROVE Cong(cyclic_ntt(h, Omega)[k], Eval(a, 2 * k + 1), Q)
  <2>1. k \in Nat /\ 2 * k + 1 \in Nat
    BY DegreesAre
  <2>2. EvalTerms(a, 2 * k + 1) \in IntPoly /\ Eval(a, 2 * k + 1) \in Int
    BY <2>1, EvalInt
  <2>3. ASSUME NEW j \in Degrees PROVE Cong(CyclicTerms(h, Omega, k)[j], EvalTerms(a, 2 * k + 1)[j], Q)
    <3>1. j \in Nat /\ k * j \in Nat /\ 2 * (k * j) \in Nat /\ (2 * k + 1) * j = j + 2 * (k * j)
      <4>1. j \in Nat
        BY DegreesAre
      <4>2. k * j \in Nat
        BY <2>1, <4>1
      <4> QED
        BY <2>1, <4>1, <4>2
    <3>2. Psi((2 * k + 1) * j) = Psi(j) * Psi(2 * (k * j)) /\ Psi(j) \in Int /\ Psi(2 * (k * j)) \in Int
      <4>1. Psi(j + 2 * (k * j)) = Psi(j) * Psi(2 * (k * j))
        BY <3>1, PsiIs
      <4> QED
        BY <3>1, <4>1, PsiIs
    <3>3. Power(Omega, k * j) \in Int /\ Cong(Power(Omega, k * j), Psi(2 * (k * j)), Q)
      <4>1. Omega \in Int /\ Psi(2) \in Int /\ Cong(Omega, Psi(2), Q)
        BY RootsAre, PsiIs
      <4>2. Cong(Power(Omega, k * j), Power(Psi(2), k * j), Q)
        BY <3>1, <4>1, PowerCong
      <4> QED
        BY <3>1, <4>1, <4>2, PsiIs, PowerStep
    <3>4. Cong(((a[j] * pow_mod(PSI, j)) % Q) * Power(Omega, k * j), a[j] * (Psi(j) * Psi(2 * (k * j))), Q)
      BY <1>2, <3>2, <3>3, TwistedTerm
    <3>5. CyclicTerms(h, Omega, k)[j] = ((a[j] * pow_mod(PSI, j)) % Q) * Power(Omega, k * j)
      BY <1>5 DEF CyclicTerms
    <3>6. EvalTerms(a, 2 * k + 1)[j] = a[j] * (Psi(j) * Psi(2 * (k * j)))
      BY <3>2 DEF EvalTerms
    <3> QED
      BY <3>4, <3>5, <3>6
  <2>4. CyclicTerms(h, Omega, k) \in IntPoly
    BY <1>6
  <2>5. Alike(CyclicTerms(h, Omega, k), EvalTerms(a, 2 * k + 1))
    BY <2>3 DEF Alike
  <2>6. Cong(SumOver(CyclicTerms(h, Omega, k)), Eval(a, 2 * k + 1), Q)
    BY <2>2, <2>4, <2>5, SumAlike DEF Eval
  <2>7. cyclic_ntt(h, Omega)[k] \in Int /\ SumOver(CyclicTerms(h, Omega, k)) \in Int
    BY <1>6, <2>4, SumRuns DEF IntPoly
  <2> QED
    BY <1>6, <2>2, <2>6, <2>7, CongChain
<1> QED
  BY <1>4, <1>6, <1>7

(* The terms of a turned factor, evaluated at an odd power of PSI.         *)
TurnTerms(b, i, e) == [k \in Degrees |-> Turned(b, k - i) * Psi(e * k)]

LEMMA TurnTermsInt ==
  ASSUME NEW b \in IntPoly, NEW i \in 0 .. N, NEW e \in Nat
  PROVE  TurnTerms(b, i, e) \in IntPoly /\ SumOver(TurnTerms(b, i, e)) \in Int
<1>1. ASSUME NEW k \in Degrees PROVE Turned(b, k - i) * Psi(e * k) \in Int
  <2>1. k \in Nat /\ k - i \in - (2 * N) .. N - 1
    BY DegreesAre
  <2>2. Turned(b, k - i) \in Int
    BY <2>1, TurnedInt
  <2>3. e * k \in Nat
    BY <2>1
  <2>4. Psi(e * k) \in Int
    BY <2>3, PsiIs
  <2> QED
    BY <2>2, <2>4
<1>2. TurnTerms(b, i, e) \in IntPoly
  BY <1>1 DEF TurnTerms, IntPoly
<1> QED
  BY <1>2, SumRuns

LEMMA TurnOnce ==
  ASSUME NEW b \in IntPoly, NEW i \in Degrees, NEW q \in Nat
  PROVE  LET e == 2 * q + 1
         IN  Cong(SumOver(TurnTerms(b, i + 1, e)), Psi(e) * SumOver(TurnTerms(b, i, e)), Q)
<1> DEFINE e   == 2 * q + 1
           h   == TurnTerms(b, i, e)
           f   == TurnTerms(b, i + 1, e)
           phi == [k \in 0 .. N |-> Turned(b, k - (i + 1)) * Psi(e * k)]
           g   == [k \in Degrees |-> phi[k + 1]]
           t   == Psi(e)
<1>0. /\ N \in Nat /\ Q \in Int /\ 0 \in 0 .. N /\ N \in 0 .. N /\ e \in Nat
      /\ i \in Nat /\ i < N /\ i \in 0 .. N /\ i + 1 \in 0 .. N
  BY DegreesAre, CoeffsInt
<1> HIDE DEF e
<1>1. h \in IntPoly /\ f \in IntPoly /\ SumOver(h) \in Int /\ SumOver(f) \in Int /\ t \in Int
  BY <1>0, TurnTermsInt, PsiIs
<1>2. ASSUME NEW k \in 0 .. N
      PROVE  k \in Nat /\ phi[k] = Turned(b, k - (i + 1)) * Psi(e * k) /\ Turned(b, k - (i + 1)) \in Int /\ Psi(e * k) \in Int
  <2>1. k \in Nat /\ k - (i + 1) \in - (2 * N) .. N - 1
    BY <1>0
  <2>2. e * k \in Nat
    BY <1>0, <2>1
  <2> QED
    BY <2>1, <2>2, TurnedInt, PsiIs
<1>3. phi \in [0 .. N -> Int]
  BY <1>2
<1>4. [k \in Degrees |-> phi[k]] = f
  BY DegreesAre DEF TurnTerms
<1>5. g = TimesTerms(t, h)
  <2>1. ASSUME NEW k \in Degrees PROVE phi[k + 1] = t * h[k]
    <3>1. k \in 0 .. N /\ k + 1 \in 0 .. N /\ k \in Nat /\ (k + 1) - (i + 1) = k - i
      BY <1>0, DegreesAre
    <3>2. e * (k + 1) = e + e * k /\ e * k \in Nat
      BY <1>0, <3>1
    <3>3. Psi(e + e * k) = t * Psi(e * k) /\ Psi(e * k) \in Int
      BY <1>0, <3>2, PsiIs
    <3>4. phi[k + 1] = Turned(b, (k + 1) - (i + 1)) * Psi(e * (k + 1))
      BY <1>2, <3>1
    <3>5. phi[k + 1] = Turned(b, k - i) * (t * Psi(e * k))
      BY <3>1, <3>2, <3>3, <3>4, Zenon
    <3>6. k - i \in - (2 * N) .. N - 1
      BY <1>0, DegreesAre
    <3>7. Turned(b, k - i) \in Int
      BY <3>6, TurnedInt
    <3>8. h[k] = Turned(b, k - i) * Psi(e * k)
      BY DEF TurnTerms
    <3>9. \A x, y, z \in Int : x * (y * z) = y * (x * z)
      OBVIOUS
    <3> HIDE DEF phi, h, t
    <3> QED
      BY <1>1, <3>3, <3>5, <3>7, <3>8, <3>9
  <2> HIDE DEF phi, h, t
  <2> QED
    BY <2>1 DEF TimesTerms
<1>6. Cong(phi[N] - phi[0], 0, Q)
  <2> DEFINE x == b[N - (i + 1)]
             y == Psi(e * N)
  <2>1. N - (i + 1) \in Degrees /\ N - (i + 1) >= 0
    BY <1>0, DegreesAre
  <2>2. x \in Int
    BY <2>1 DEF IntPoly
  <2>3. phi[N] = x * y
    BY <1>0, <2>1 DEF Turned
  <2>4. phi[0] = - x
    <3>1. 0 - (i + 1) < 0 /\ 0 - (i + 1) >= - N /\ (0 - (i + 1)) + N = N - (i + 1)
      BY <1>0
    <3>2. Turned(b, 0 - (i + 1)) = - x
      BY <1>0, <3>1 DEF Turned
    <3>3. e * 0 = 0 /\ Psi(0) = 1
      BY <1>0, PsiIs, PowerStep DEF Psi
    <3>4. phi[0] = Turned(b, 0 - (i + 1)) * Psi(e * 0)
      BY <1>0, <1>2
    <3>5. phi[0] = (- x) * 1
      BY <3>2, <3>3, <3>4, Zenon
    <3> QED
      BY <2>2, <3>5
  <2>5. y \in Int /\ Cong(y, -1, Q)
    <3>1. e * N = N * (2 * q + 1) /\ e * N \in Nat
      BY <1>0 DEF e
    <3>2. Cong(Psi(N * (2 * q + 1)), -1, Q)
      BY PsiTurns
    <3> QED
      BY <3>1, <3>2, PsiIs, Zenon
  <2> HIDE DEF x, y
  <2>6. PICK c \in Int : y = -1 + c * Q
    BY <2>5 DEF Cong
  <2>7. x * y - (- x) = 0 + (x * c) * Q /\ x * c \in Int
    BY <1>0, <2>2, <2>6
  <2> QED
    BY <2>3, <2>4, <2>7 DEF Cong
<1>7. SumOver(g) = SumOver(f) + (phi[N] - phi[0])
  <2> HIDE DEF phi, f
  <2> QED
    BY <1>3, <1>4, SumShift
<1>8. SumOver(g) = t * SumOver(h)
  <2> HIDE DEF phi, h, t, g
  <2> QED
    BY <1>1, <1>5, SumTimes
<1>9. phi[N] \in Int /\ phi[0] \in Int
  <2> HIDE DEF phi
  <2> QED
    BY <1>0, <1>3
<1> HIDE DEF phi, h, t, g, f
<1>10. PICK c \in Int : phi[N] - phi[0] = 0 + c * Q
  BY <1>6 DEF Cong
<1>11. SumOver(f) = t * SumOver(h) + (- c) * Q /\ - c \in Int
  BY <1>0, <1>1, <1>7, <1>8, <1>9, <1>10
<1>12. Cong(SumOver(f), t * SumOver(h), Q)
  BY <1>11 DEF Cong
<1> QED
  BY <1>12 DEF e, f, t, h
LEMMA TurnMany ==
  ASSUME NEW b \in IntPoly, NEW q \in Nat
  PROVE  \A i \in Degrees :
           Cong(SumOver(TurnTerms(b, i, 2 * q + 1)), Psi((2 * q + 1) * i) * Eval(b, 2 * q + 1), Q)
<1> DEFINE e == 2 * q + 1
           v == Eval(b, e)
           S == {i \in Nat : i < N => Cong(SumOver(TurnTerms(b, i, e)), Psi(e * i) * v, Q)}
<1>0. N \in Nat /\ Q \in Int /\ e \in Nat /\ v \in Int
  <2>1. e \in Nat
    OBVIOUS
  <2> HIDE DEF e
  <2> QED
    BY <2>1, DegreesAre, CoeffsInt, EvalInt
<1>1. 0 \in S
  <2>1. TurnTerms(b, 0, e) = EvalTerms(b, e)
    <3>1. ASSUME NEW k \in Degrees PROVE Turned(b, k - 0) = b[k]
      BY DegreesAre DEF Turned
    <3> HIDE DEF e
    <3> QED
      BY <3>1 DEF TurnTerms, EvalTerms
  <2>2. e * 0 = 0 /\ Psi(0) = 1 /\ 1 * v = v
    BY <1>0, PsiIs, PowerStep DEF Psi
  <2>3. Cong(v, v, Q)
    BY <1>0, CongEquivalence
  <2> HIDE DEF e
  <2>4. SumOver(TurnTerms(b, 0, e)) = v
    BY <2>1 DEF Eval
  <2> HIDE DEF v
  <2> QED
    BY <2>2, <2>3, <2>4
<1>2. ASSUME NEW i \in Nat, i \in S PROVE i + 1 \in S
  <2>1. SUFFICES ASSUME i + 1 < N PROVE Cong(SumOver(TurnTerms(b, i + 1, e)), Psi(e * (i + 1)) * v, Q)
    OBVIOUS
  <2>2. i \in Degrees /\ i \in 0 .. N /\ i + 1 \in 0 .. N /\ i < N
    BY <1>0, <2>1, DegreesAre
  <2>3. Cong(SumOver(TurnTerms(b, i + 1, e)), Psi(e) * SumOver(TurnTerms(b, i, e)), Q)
    BY <2>2, TurnOnce
  <2>4. Cong(SumOver(TurnTerms(b, i, e)), Psi(e * i) * v, Q)
    BY <1>2, <2>2
  <2> HIDE DEF e, v
  <2>5. SumOver(TurnTerms(b, i, e)) \in Int /\ SumOver(TurnTerms(b, i + 1, e)) \in Int
    BY <1>0, <2>2, TurnTermsInt
  <2>6. e * i \in Nat /\ e * (i + 1) = e + e * i
    BY <1>0
  <2>7. Psi(e + e * i) = Psi(e) * Psi(e * i) /\ Psi(e) \in Int /\ Psi(e * i) \in Int
    BY <1>0, <2>6, PsiIs
  <2>8. /\ Psi(e * i) * v \in Int /\ Psi(e) * (Psi(e * i) * v) \in Int
        /\ Psi(e) * (Psi(e * i) * v) = (Psi(e) * Psi(e * i)) * v
        /\ Psi(e) * SumOver(TurnTerms(b, i, e)) \in Int
    BY <1>0, <2>5, <2>7
  <2>9. Cong(Psi(e) * SumOver(TurnTerms(b, i, e)), Psi(e) * (Psi(e * i) * v), Q)
    BY <2>4, <2>5, <2>7, <2>8, CongTimes
  <2>10. Cong(SumOver(TurnTerms(b, i + 1, e)), Psi(e) * (Psi(e * i) * v), Q)
    BY <2>3, <2>5, <2>8, <2>9, CongChain
  <2> QED
    BY <2>6, <2>7, <2>8, <2>10, Zenon
<1>S. \A i \in Nat : i \in S => (i < N => Cong(SumOver(TurnTerms(b, i, e)), Psi(e * i) * v, Q))
  OBVIOUS
<1> HIDE DEF S
<1>3. \A i \in Nat : i \in S
  BY <1>1, <1>2, NatSetInduction
<1>4. \A i \in Degrees : i \in Nat /\ i < N
  BY DegreesAre
<1> QED
  BY <1>3, <1>4, <1>S

(* Evaluating at an odd power of PSI respects products.                    *)
LEMMA EvalProduct ==
  ASSUME NEW a \in IntPoly, NEW b \in IntPoly, NEW q \in Nat
  PROVE  Cong(Eval(MulSchoolbook(a, b), 2 * q + 1), Eval(a, 2 * q + 1) * Eval(b, 2 * q + 1), Q)
<1> DEFINE e == 2 * q + 1
           c == MulSchoolbook(a, b)
           X == [k \in Degrees |-> [i \in Degrees |-> (a[i] * Turned(b, k - i)) * Psi(e * k)]]
<1>0. N \in Nat /\ Q \in Int /\ e \in Nat /\ c \in IntPoly
  BY DegreesAre, CoeffsInt, ProductInRing, PolyIsInt
<1> HIDE DEF e, c
<1>1. Eval(a, e) \in Int /\ Eval(b, e) \in Int /\ Eval(c, e) \in Int /\ EvalTerms(a, e) \in IntPoly /\ EvalTerms(c, e) \in IntPoly
  BY <1>0, EvalInt
<1>2. ASSUME NEW k \in Degrees
      PROVE  /\ Psi(e * k) \in Int /\ X[k] = TimesTerms(Psi(e * k), TurnedTerms(a, b, k))
             /\ TurnedTerms(a, b, k) \in IntPoly /\ X[k] \in IntPoly
             /\ SumOver(X[k]) = Psi(e * k) * SumOver(TurnedTerms(a, b, k))
  <2>1. e * k \in Nat /\ Psi(e * k) \in Int
    <3>1. k \in Nat
      BY DegreesAre
    <3>2. e * k \in Nat
      BY <1>0, <3>1
    <3> QED
      BY <3>2, PsiIs
  <2>2. TurnedTerms(a, b, k) \in IntPoly
    BY ProductIs
  <2>3. ASSUME NEW i \in Degrees
        PROVE  (a[i] * Turned(b, k - i)) * Psi(e * k) = Psi(e * k) * TurnedTerms(a, b, k)[i]
    <3>1. TurnedTerms(a, b, k)[i] = a[i] * Turned(b, k - i) /\ TurnedTerms(a, b, k)[i] \in Int
      BY <2>2 DEF TurnedTerms, IntPoly
    <3>2. \A x, y \in Int : x * y = y * x
      OBVIOUS
    <3> QED
      BY <2>1, <3>1, <3>2
  <2>4. X[k] = TimesTerms(Psi(e * k), TurnedTerms(a, b, k))
    BY <2>3 DEF TimesTerms
  <2> HIDE DEF X
  <2>5. TimesTerms(Psi(e * k), TurnedTerms(a, b, k)) \in IntPoly
        /\ SumOver(TimesTerms(Psi(e * k), TurnedTerms(a, b, k))) = Psi(e * k) * SumOver(TurnedTerms(a, b, k))
    BY <2>1, <2>2, SumTimes
  <2> QED
    BY <2>1, <2>2, <2>4, <2>5
<1>3. X = [k \in Degrees |-> X[k]]
  OBVIOUS
<1>4. X \in [Degrees -> IntPoly]
  <2> HIDE DEF X
  <2> QED
    BY <1>2, <1>3
<1>5. ASSUME NEW i \in Degrees
      PROVE  /\ Column(X, i) = TimesTerms(a[i], TurnTerms(b, i, e))
             /\ a[i] \in Int /\ Psi(e * i) \in Int
             /\ Cong(SumOver(Column(X, i)), Eval(b, e) * EvalTerms(a, e)[i], Q)
  <2>1. a[i] \in Int /\ i \in Nat /\ i \in 0 .. N
    BY DegreesAre DEF IntPoly
  <2>2. e * i \in Nat /\ Psi(e * i) \in Int
    <3>1. e * i \in Nat
      BY <1>0, <2>1
    <3> QED
      BY <3>1, PsiIs
  <2>3. TurnTerms(b, i, e) \in IntPoly /\ SumOver(TurnTerms(b, i, e)) \in Int
    BY <1>0, <2>1, TurnTermsInt
  <2>4. ASSUME NEW k \in Degrees
        PROVE  (a[i] * Turned(b, k - i)) * Psi(e * k) = a[i] * TurnTerms(b, i, e)[k]
    <3>1. k - i \in - (2 * N) .. N - 1
      BY <1>0, <2>1, DegreesAre
    <3>2. Turned(b, k - i) \in Int /\ Psi(e * k) \in Int
      BY <1>2, <3>1, TurnedInt
    <3>3. TurnTerms(b, i, e)[k] = Turned(b, k - i) * Psi(e * k)
      BY DEF TurnTerms
    <3>4. \A x, y, z \in Int : (x * y) * z = x * (y * z)
      OBVIOUS
    <3> QED
      BY <2>1, <3>2, <3>3, <3>4
  <2>5. Column(X, i) = TimesTerms(a[i], TurnTerms(b, i, e))
    <3>1. \A k \in Degrees : X[k][i] = (a[i] * Turned(b, k - i)) * Psi(e * k)
      OBVIOUS
    <3> HIDE DEF X
    <3> QED
      BY <2>4, <3>1 DEF TimesTerms, Column
  <2> HIDE DEF X
  <2>6. SumOver(Column(X, i)) = a[i] * SumOver(TurnTerms(b, i, e))
    BY <2>1, <2>3, <2>5, SumTimes
  <2>7. Cong(SumOver(TurnTerms(b, i, e)), Psi(e * i) * Eval(b, e), Q)
    BY TurnMany DEF e
  <2>8. Psi(e * i) * Eval(b, e) \in Int
    BY <1>1, <2>2
  <2>9. Cong(a[i] * SumOver(TurnTerms(b, i, e)), a[i] * (Psi(e * i) * Eval(b, e)), Q)
    BY <2>1, <2>3, <2>7, <2>8, CongTimes
  <2>10. a[i] * (Psi(e * i) * Eval(b, e)) = Eval(b, e) * EvalTerms(a, e)[i]
    <3>1. EvalTerms(a, e)[i] = a[i] * Psi(e * i)
      BY DEF EvalTerms
    <3>2. \A x, y, z \in Int : x * (y * z) = z * (x * y)
      OBVIOUS
    <3> QED
      BY <1>1, <2>1, <2>2, <3>1, <3>2
  <2> QED
    BY <2>1, <2>2, <2>5, <2>6, <2>9, <2>10
<1> HIDE DEF X
<1>6. RowSums(X) \in IntPoly /\ ColumnSums(X) \in IntPoly /\ SumOver(RowSums(X)) = SumOver(ColumnSums(X))
  BY <1>4, SumExchange
<1>7. Cong(SumOver(RowSums(X)), Eval(c, e), Q)
  <2>1. ASSUME NEW k \in Degrees PROVE Cong(RowSums(X)[k], EvalTerms(c, e)[k], Q)
    <3>1. RowSums(X)[k] = Psi(e * k) * SumOver(TurnedTerms(a, b, k))
      BY <1>2 DEF RowSums
    <3>2. SumOver(TurnedTerms(a, b, k)) \in Int /\ c[k] \in Int
      BY <1>0, <1>2, SumRuns DEF IntPoly
    <3>3. Cong(SumOver(TurnedTerms(a, b, k)), c[k], Q)
      <4>1. Cong(c[k], SumOver(TurnedTerms(a, b, k)), Q)
        BY ProductIs DEF c
      <4> QED
        BY <3>2, <4>1, CongFlip
    <3>4. Cong(Psi(e * k) * SumOver(TurnedTerms(a, b, k)), Psi(e * k) * c[k], Q)
      BY <1>2, <3>2, <3>3, CongTimes
    <3>5. EvalTerms(c, e)[k] = Psi(e * k) * c[k]
      <4>1. EvalTerms(c, e)[k] = c[k] * Psi(e * k)
        BY DEF EvalTerms
      <4>2. \A x, y \in Int : x * y = y * x
        OBVIOUS
      <4> QED
        BY <1>2, <3>2, <4>1, <4>2
    <3> QED
      BY <3>1, <3>4, <3>5
  <2>2. Alike(RowSums(X), EvalTerms(c, e))
    BY <2>1 DEF Alike
  <2> QED
    BY <1>1, <1>6, <2>2, SumAlike DEF Eval
<1>8. Cong(SumOver(ColumnSums(X)), Eval(a, e) * Eval(b, e), Q)
  <2> DEFINE T == TimesTerms(Eval(b, e), EvalTerms(a, e))
  <2>1. T \in IntPoly /\ SumOver(T) = Eval(b, e) * Eval(a, e)
    BY <1>1, SumTimes DEF Eval
  <2>2. ASSUME NEW i \in Degrees PROVE Cong(ColumnSums(X)[i], T[i], Q)
    BY <1>5 DEF ColumnSums, TimesTerms
  <2> HIDE DEF T
  <2>3. Alike(ColumnSums(X), T)
    BY <2>2 DEF Alike
  <2>4. Cong(SumOver(ColumnSums(X)), SumOver(T), Q)
    BY <1>6, <2>1, <2>3, SumAlike
  <2>5. Eval(b, e) * Eval(a, e) = Eval(a, e) * Eval(b, e)
    BY <1>1
  <2> QED
    BY <2>1, <2>4, <2>5
<1>9. SumOver(RowSums(X)) \in Int /\ Eval(a, e) * Eval(b, e) \in Int
  BY <1>1, <1>6, SumRuns
<1>10. Cong(Eval(c, e), SumOver(RowSums(X)), Q)
  BY <1>1, <1>7, <1>9, CongFlip
<1>11. Cong(Eval(c, e), Eval(a, e) * Eval(b, e), Q)
  BY <1>1, <1>6, <1>8, <1>9, <1>10, CongChain
<1> QED
  BY <1>11 DEF c, e
-----------------------------------------------------------------------------
(* The coefficients come back from the values at the odd powers of PSI.    *)
LEMMA OddSumsPick ==
  ASSUME NEW i \in Degrees, NEW j \in Degrees
  PROVE  /\ j + (Q - 2) * i \in Nat
         /\ i = j => Cong(SumOver(OddTerms(j + (Q - 2) * i)), N, Q)
         /\ i # j => Cong(SumOver(OddTerms(j + (Q - 2) * i)), 0, Q)
<1> DEFINE d == j + (Q - 2) * i
<1>1. N \in Nat /\ N > 0 /\ Q \in Int /\ i \in Nat /\ j \in Nat /\ i < N /\ j < N
  BY DegreesAre, CoeffsInt
<1>2. PICK c \in Nat : c > 0 /\ Q - 1 = 2 * N * c /\ Q - 2 \in Nat
  BY InverseExponent
<1>3. c * i \in Nat
  BY <1>1
<1>4. d = (j - i) + 2 * N * (c * i)
  <2>1. Q - 2 = 2 * N * c - 1 /\ 2 * N * c \in Nat
    BY <1>1, <1>2
  <2>2. (2 * N * c - 1) * i = 2 * N * (c * i) - i /\ 2 * N * (c * i) \in Int
    BY <1>1, <1>3
  <2>3. (Q - 2) * i = 2 * N * (c * i) - i
    BY <2>1, <2>2
  <2> QED
    BY <1>1, <2>2, <2>3
<1>5. d \in Nat
  <2>1. (Q - 2) * i \in Nat
    BY <1>1, <1>2
  <2> QED
    BY <1>1, <2>1
<1> HIDE DEF d
<1>6. ASSUME i = j PROVE Cong(SumOver(OddTerms(d)), N, Q)
  <2>1. d = 2 * N * (c * i)
    BY <1>1, <1>3, <1>4, <1>6
  <2>2. Cong(SumOver(OddTerms(2 * N * (c * i))), N, Q)
    BY <1>3, OddSumFull
  <2> QED
    BY <2>1, <2>2, Zenon
<1>7. ASSUME i # j PROVE Cong(SumOver(OddTerms(d)), 0, Q)
  <2>1. d % N # 0
    <3>1. SUFFICES ASSUME d % N = 0 PROVE FALSE
      OBVIOUS
    <3> DEFINE x == d \div N
               y == x - 2 * (c * i)
    <3>2. d = N * x /\ x \in Int
      BY <1>1, <1>5, <3>1
    <3> HIDE DEF x
    <3>3. y \in Int /\ j - i = N * y
      <4>1. y \in Int
        BY <1>3, <3>2
      <4>2. j - i = N * x - 2 * N * (c * i)
        <5>1. N * x \in Int /\ 2 * N * (c * i) \in Int
          BY <1>1, <1>3, <3>2
        <5> QED
          BY <1>1, <1>4, <3>2, <5>1
      <4>3. N * x - 2 * N * (c * i) = N * y
        BY <1>1, <1>3, <3>2
      <4> QED
        BY <4>1, <4>2, <4>3
    <3> HIDE DEF y
    <3>4. y >= 1 => N * y >= N
      BY <1>1, <3>3
    <3>5. y <= -1 => N * y <= - N
      BY <1>1, <3>3
    <3>6. y # 0
      BY <1>1, <1>7, <3>3
    <3> QED
      BY <1>1, <3>3, <3>4, <3>5, <3>6
  <2> QED
    BY <1>5, <2>1, OddSumEmpty
<1> QED
  BY <1>5, <1>6, <1>7 DEF d

(* The double sum of the coefficients over all points, weighted for i.     *)
PointGrid(c, i) == [k \in Degrees |-> [j \in Degrees |-> c[j] * Psi((j + (Q - 2) * i) * (2 * k + 1))]]

LEMMA GridPicks ==
  ASSUME NEW c \in IntPoly, NEW i \in Degrees
  PROVE  /\ PointGrid(c, i) \in [Degrees -> IntPoly]
         /\ RowSums(PointGrid(c, i)) \in IntPoly
         /\ Cong(SumOver(RowSums(PointGrid(c, i))), c[i] * N, Q)
         /\ \A k \in Degrees : RowSums(PointGrid(c, i))[k] = Psi(((Q - 2) * i) * (2 * k + 1)) * Eval(c, 2 * k + 1)
<1> DEFINE X == PointGrid(c, i)
           h == [j \in Degrees |-> IF j = i THEN c[i] * N ELSE 0]
<1>0. N \in Nat /\ Q \in Int /\ c[i] \in Int /\ \A j \in Degrees : c[j] \in Int /\ j \in Nat /\ 2 * j + 1 \in Nat
  BY DegreesAre, CoeffsInt DEF IntPoly
<1>1. \A j \in Degrees : j + (Q - 2) * i \in Nat
  BY OddSumsPick
<1>2. ASSUME NEW k \in Degrees, NEW j \in Degrees
      PROVE  /\ (j + (Q - 2) * i) * (2 * k + 1) \in Nat
             /\ X[k][j] = c[j] * Psi((j + (Q - 2) * i) * (2 * k + 1))
             /\ Psi((j + (Q - 2) * i) * (2 * k + 1)) \in Int /\ X[k][j] \in Int
  <2>1. \A x, y \in Nat : x * y \in Nat
    OBVIOUS
  <2>2. (j + (Q - 2) * i) * (2 * k + 1) \in Nat
    BY <1>0, <1>1, <2>1
  <2>3. X[k][j] = c[j] * Psi((j + (Q - 2) * i) * (2 * k + 1))
    BY DEF PointGrid
  <2>4. Psi((j + (Q - 2) * i) * (2 * k + 1)) \in Int
    BY <2>2, PsiIs
  <2>5. \A x, y \in Int : x * y \in Int
    OBVIOUS
  <2> HIDE DEF X
  <2> QED
    BY <1>0, <2>2, <2>3, <2>4, <2>5
<1>3. X = [k \in Degrees |-> X[k]] /\ \A k \in Degrees : X[k] = [j \in Degrees |-> X[k][j]]
  BY DEF PointGrid
<1> HIDE DEF X
<1>4. X \in [Degrees -> IntPoly]
  BY <1>2, <1>3 DEF IntPoly
<1>5. RowSums(X) \in IntPoly /\ ColumnSums(X) \in IntPoly /\ SumOver(RowSums(X)) = SumOver(ColumnSums(X))
  BY <1>4, SumExchange
<1>6. h \in IntPoly
  BY <1>0 DEF IntPoly
<1>7. SumOver(h) = c[i] * N
  BY <1>6, SumSingle
<1>8. ASSUME NEW j \in Degrees PROVE Cong(ColumnSums(X)[j], h[j], Q)
  <2> DEFINE d == j + (Q - 2) * i
             o == OddTerms(d)
  <2>1. d \in Nat
    BY <1>1
  <2>2. o \in IntPoly /\ SumOver(o) \in Int
    BY <2>1, OddTermsInt, SumRuns
  <2>3. Column(X, j) = TimesTerms(c[j], o)
    <3>1. \A k \in Degrees : X[k][j] = c[j] * o[k]
      BY <1>2 DEF OddTerms
    <3> HIDE DEF o
    <3> QED
      BY <3>1 DEF Column, TimesTerms
  <2>4. /\ i = j => Cong(SumOver(o), N, Q)
        /\ i # j => Cong(SumOver(o), 0, Q)
    BY OddSumsPick
  <2> HIDE DEF o, d, h
  <2>5. ColumnSums(X)[j] = c[j] * SumOver(o)
    BY <1>0, <2>2, <2>3, SumTimes DEF ColumnSums
  <2>6. CASE i = j
    <3>1. Cong(c[j] * SumOver(o), c[j] * N, Q)
      <4>1. N \in Int
        BY <1>0
      <4> QED
        BY <1>0, <2>2, <2>4, <2>6, <4>1, CongTimes
    <3> QED
      BY <2>5, <2>6, <3>1 DEF h
  <2>7. CASE i # j
    <3>1. Cong(c[j] * SumOver(o), c[j] * 0, Q)
      <4>1. 0 \in Int
        OBVIOUS
      <4> QED
        BY <1>0, <2>2, <2>4, <2>7, <4>1, CongTimes
    <3>2. c[j] * 0 = 0
      BY <1>0
    <3> QED
      BY <2>5, <2>7, <3>1, <3>2 DEF h
  <2> QED
    BY <2>6, <2>7
<1> HIDE DEF h
<1>9. Cong(SumOver(ColumnSums(X)), c[i] * N, Q)
  <2>1. Alike(ColumnSums(X), h)
    BY <1>8 DEF Alike
  <2> QED
    BY <1>5, <1>6, <1>7, <2>1, SumAlike
<1>10. ASSUME NEW k \in Degrees PROVE RowSums(X)[k] = Psi(((Q - 2) * i) * (2 * k + 1)) * Eval(c, 2 * k + 1)
  <2> DEFINE e == 2 * k + 1
             u == (Q - 2) * i
             E == EvalTerms(c, e)
  <2>1. e \in Nat /\ u \in Nat
    <3>1. Q - 2 \in Nat
      BY InverseExponent
    <3>2. \A x, y \in Nat : x * y \in Nat
      OBVIOUS
    <3> QED
      BY <1>0, <3>1, <3>2
  <2>2. E \in IntPoly
    BY <1>0, EvalInt
  <2>3. u * e \in Nat /\ Psi(u * e) \in Int
    <3>1. u * e \in Nat
      <4> HIDE DEF u, e
      <4> QED
        BY <2>1
    <3> HIDE DEF u, e
    <3> QED
      BY <3>1, PsiIs
  <2>4. ASSUME NEW j \in Degrees PROVE X[k][j] = Psi(u * e) * E[j]
    <3>1. X[k][j] = c[j] * Psi((j + u) * e)
      BY <1>2
    <3>2. E[j] = c[j] * Psi(e * j)
      BY DEF EvalTerms
    <3> HIDE DEF u, e, E
    <3>3. e * j \in Nat /\ (j + u) * e = u * e + e * j
      BY <1>0, <2>1
    <3>4. Psi(u * e + e * j) = Psi(u * e) * Psi(e * j) /\ Psi(e * j) \in Int
      BY <2>3, <3>3, PsiIs
    <3>5. X[k][j] = c[j] * (Psi(u * e) * Psi(e * j))
      BY <3>1, <3>3, <3>4, Zenon
    <3>6. \A x, y, z \in Int : x * (y * z) = y * (x * z)
      OBVIOUS
    <3> QED
      BY <1>0, <2>3, <3>2, <3>4, <3>5, <3>6
  <2> HIDE DEF E
  <2>5. X[k] = TimesTerms(Psi(u * e), E)
    BY <1>3, <2>4 DEF TimesTerms
  <2>6. SumOver(X[k]) = Psi(u * e) * SumOver(E)
    BY <2>2, <2>3, <2>5, SumTimes
  <2>7. RowSums(X)[k] = SumOver(X[k])
    BY DEF RowSums
  <2> QED
    BY <2>6, <2>7 DEF E, Eval
<1>11. Cong(SumOver(RowSums(X)), c[i] * N, Q)
  BY <1>5, <1>9
<1> QED
  BY <1>4, <1>5, <1>10, <1>11 DEF X

LEMMA InverseIs ==
  ASSUME NEW p \in IntPoly, NEW c \in Poly, \A k \in Degrees : Cong(p[k], Eval(c, 2 * k + 1), Q)
  PROVE  ntt_inverse(p) = c
<1> DEFINE w  == pow_mod(Omega, Q - 2)
           ni == pow_mod(N, Q - 2)
           ps == pow_mod(PSI, Q - 2)
           C  == cyclic_ntt(p, w)
           r  == ntt_inverse(p)
<1>0. Q \in Nat /\ Q > 0 /\ Q \in Int /\ N \in Int /\ N \in Nat /\ Q - 2 \in Nat /\ c \in IntPoly
  BY ModulusHolds, DegreesAre, InverseExponent, PolyIsInt DEF ModulusIs
<1>1. IsRoot(w) /\ w \in Nat /\ Cong(w, Psi(2 * (Q - 2)), Q) /\ 2 * (Q - 2) \in Nat
  <2>1. IsRoot(w) /\ Cong(w, Psi(2 * (Q - 2)), Q)
    BY RootsAre
  <2>2. 2 * (Q - 2) \in Nat
    BY <1>0
  <2> HIDE DEF w
  <2> QED
    BY <2>1, <2>2 DEF IsRoot
<1>2. ps \in Nat /\ Cong(ps, Psi(Q - 2), Q)
  BY RootsAre
<1>3. ni \in Nat /\ ni \in Int /\ Cong(N * ni, 1, Q)
  <2>1. ni \in Nat /\ Cong(N * ni, 1, Q)
    BY InverseOfN
  <2> HIDE DEF ni
  <2> QED
    BY <2>1
<1>4. r = [i \in Degrees |-> (C[i] * ni * pow_mod(ps, i)) % Q]
  BY Zenon DEF ntt_inverse, Unweighted
<1> HIDE DEF w, ni, ps
<1>5. /\ C \in IntPoly
      /\ \A k \in Degrees : CyclicTerms(p, w, k) \in IntPoly /\ Cong(C[k], SumOver(CyclicTerms(p, w, k)), Q)
  BY <1>1, CyclicIs
<1> HIDE DEF C, r
<1>6. ASSUME NEW i \in Degrees PROVE r[i] \in Coeffs /\ r[i] \in Int /\ Cong(r[i], c[i], Q)
  <2> DEFINE u == (Q - 2) * i
             y == pow_mod(ps, i)
             t == Psi(u)
             H == CyclicTerms(p, w, i)
             G == RowSums(PointGrid(c, i))
  <2>1. i \in Nat /\ u \in Nat /\ c[i] \in Int /\ C[i] \in Int
    <3>1. i \in Nat /\ c[i] \in Int /\ C[i] \in Int
      BY <1>0, <1>5, DegreesAre DEF IntPoly
    <3>2. \A m, n \in Nat : m * n \in Nat
      OBVIOUS
    <3> QED
      BY <1>0, <3>1, <3>2
  <2>2. y \in Nat /\ t \in Int /\ Cong(y, t, Q)
    <3>1. y \in Nat /\ Cong(y, Power(ps, i), Q)
      BY <1>2, <2>1, PowModIs
    <3>2. ps \in Int /\ Psi(Q - 2) \in Int
      BY <1>0, <1>2, PsiIs
    <3>3. Cong(Power(ps, i), Power(Psi(Q - 2), i), Q)
      BY <1>2, <2>1, <3>2, PowerCong
    <3>4. Power(Psi(Q - 2), i) = t
      BY <1>0, <2>1, PsiIs
    <3>5. Power(ps, i) \in Int /\ t \in Int
      BY <2>1, <3>2, PowerStep, PsiIs
    <3> HIDE DEF y, t
    <3>6. y \in Int
      BY <3>1
    <3>7. Cong(Power(ps, i), t, Q)
      BY <3>3, <3>4
    <3> QED
      BY <3>1, <3>5, <3>6, <3>7, CongChain
  <2>3. /\ G \in IntPoly /\ Cong(SumOver(G), c[i] * N, Q)
        /\ \A k \in Degrees : G[k] = Psi(u * (2 * k + 1)) * Eval(c, 2 * k + 1)
    BY <1>0, GridPicks
  <2>4. H \in IntPoly /\ Cong(C[i], SumOver(H), Q)
    BY <1>5
  <2> HIDE DEF G
  <2>5. ASSUME NEW k \in Degrees PROVE Cong(t * H[k], G[k], Q)
    <3> DEFINE e  == 2 * k + 1
               ik == i * k
               z  == Power(w, ik)
               v  == 2 * (Q - 2) * ik
    <3>1. k \in Nat /\ e \in Nat /\ ik \in Nat
      <4>1. k \in Nat
        BY DegreesAre
      <4> QED
        BY <2>1, <4>1
    <3>2. v \in Nat /\ u * e = u + v
      <4>1. \A m, n, o \in Nat : 2 * m * (n * o) \in Nat /\ (m * n) * (2 * o + 1) = m * n + 2 * m * (n * o)
        OBVIOUS
      <4> QED
        BY <1>0, <2>1, <3>1, <4>1
    <3>3. z \in Int /\ Cong(z, Psi(v), Q) /\ Psi(v) \in Int
      <4>1. w \in Int /\ Psi(2 * (Q - 2)) \in Int
        BY <1>1, PsiIs
      <4> HIDE DEF ik
      <4>2. Cong(Power(w, ik), Power(Psi(2 * (Q - 2)), ik), Q)
        BY <1>1, <3>1, <4>1, PowerCong
      <4>3. Power(Psi(2 * (Q - 2)), ik) = Psi((2 * (Q - 2)) * ik)
        BY <1>1, <3>1, PsiIs
      <4> QED
        BY <3>1, <3>2, <4>1, <4>2, <4>3, PowerStep, PsiIs
    <3>4. H[k] = p[k] * z /\ p[k] \in Int
      BY DEF CyclicTerms, IntPoly
    <3>5. Eval(c, e) \in Int /\ Cong(p[k], Eval(c, e), Q)
      BY <1>0, <3>1, EvalInt
    <3>6. Psi(u * e) = t * Psi(v)
      <4>1. Psi(u + v) = Psi(u) * Psi(v)
        BY <2>1, <3>2, PsiIs
      <4> QED
        BY <3>2, <4>1, Zenon
    <3>7. G[k] = (t * Psi(v)) * Eval(c, e)
      BY <2>3, <3>6, Zenon
    <3> HIDE DEF H, t, z, v, e, u
    <3>8. Cong(p[k] * z, Eval(c, e) * Psi(v), Q)
      BY <1>0, <3>3, <3>4, <3>5, CongProducts
    <3>9. /\ p[k] * z \in Int /\ Eval(c, e) * Psi(v) \in Int
          /\ t * (Eval(c, e) * Psi(v)) = (t * Psi(v)) * Eval(c, e)
      <4>1. \A l, m, n \in Int : l * m \in Int /\ l * (m * n) = (l * n) * m
        OBVIOUS
      <4> QED
        BY <2>2, <3>3, <3>4, <3>5, <4>1
    <3>10. Cong(t * (p[k] * z), t * (Eval(c, e) * Psi(v)), Q)
      BY <2>2, <3>8, <3>9, CongTimes
    <3> QED
      BY <3>4, <3>7, <3>9, <3>10
  <2> HIDE DEF H, t, u, y
  <2>6. TimesTerms(t, H) \in IntPoly /\ SumOver(TimesTerms(t, H)) = t * SumOver(H)
    BY <2>2, <2>4, SumTimes
  <2>7. Cong(t * SumOver(H), SumOver(G), Q)
    <3>1. Alike(TimesTerms(t, H), G)
      BY <2>5 DEF Alike, TimesTerms
    <3> QED
      BY <2>3, <2>6, <3>1, SumAlike
  <2>8. SumOver(H) \in Int /\ SumOver(G) \in Int /\ t * SumOver(H) \in Int /\ c[i] * N \in Int /\ C[i] * y \in Int /\ y \in Int
    <3>1. SumOver(H) \in Int /\ SumOver(G) \in Int
      BY <2>3, <2>4, SumRuns
    <3>2. \A l, m \in Int : l * m \in Int
      OBVIOUS
    <3>3. y \in Int
      BY <2>2
    <3> QED
      BY <1>0, <2>1, <2>2, <3>1, <3>2, <3>3
  <2>9. Cong(C[i] * y, SumOver(H) * t, Q)
    BY <1>0, <2>1, <2>2, <2>4, <2>8, CongProducts
  <2>10. SumOver(H) * t = t * SumOver(H)
    BY <2>2, <2>8
  <2>11. Cong(C[i] * y, c[i] * N, Q)
    <3>1. Cong(C[i] * y, t * SumOver(H), Q)
      BY <2>9, <2>10
    <3>2. Cong(t * SumOver(H), c[i] * N, Q)
      BY <2>3, <2>7, <2>8, CongChain
    <3> QED
      BY <2>8, <3>1, <3>2, CongChain
  <2>12. Cong(ni * (C[i] * y), ni * (c[i] * N), Q)
    BY <1>3, <2>8, <2>11, CongTimes
  <2>13. ni * (c[i] * N) = c[i] * (N * ni) /\ c[i] * (N * ni) \in Int /\ N * ni \in Int /\ c[i] * 1 = c[i]
    BY <1>0, <1>3, <2>1
  <2>14. Cong(c[i] * (N * ni), c[i] * 1, Q)
    <3>1. 1 \in Int
      OBVIOUS
    <3> QED
      BY <1>3, <2>1, <2>13, <3>1, CongTimes
  <2>15. C[i] * ni * y = ni * (C[i] * y) /\ C[i] * ni * y \in Int
    BY <1>3, <2>1, <2>8
  <2>16. Cong(C[i] * ni * y, c[i], Q)
    BY <2>1, <2>12, <2>13, <2>14, <2>15, CongChain
  <2>17. r[i] = (C[i] * ni * y) % Q
    BY <1>4 DEF y
  <2>18. r[i] \in Coeffs /\ r[i] \in Int /\ Cong(r[i], C[i] * ni * y, Q)
    BY <2>15, <2>17, ResidueIs
  <2> QED
    BY <2>1, <2>15, <2>16, <2>18, CongChain
<1>7. r \in Poly
  <2>1. r = [i \in Degrees |-> r[i]]
    BY <1>4
  <2> QED
    BY <1>6, <2>1 DEF Poly
<1>8. r = c
  BY <1>6, <1>7, SamePoly
<1> QED
  BY <1>8 DEF r

(* The fast multiplication gives the convolution, for every degree 2^BITS, *)
(* modulus and root of unity RootAssumption admits: bit reversal, all      *)
(* passes, the weights and both inverses (poly_mul_ntt).                   *)
THEOREM TransformIsProduct ==
  ASSUME NEW a \in Poly, NEW b \in Poly
  PROVE  poly_mul_ntt(a, b) = MulSchoolbook(a, b)
<1> DEFINE fa == ntt_forward(a)
           fb == ntt_forward(b)
           p  == CellProducts(fa, fb)
           c  == MulSchoolbook(a, b)
<1>0. a \in IntPoly /\ b \in IntPoly /\ c \in Poly /\ c \in IntPoly /\ Q \in Nat /\ Q > 0 /\ Q \in Int
  BY PolyIsInt, ProductInRing, ModulusHolds DEF ModulusIs
<1>1. /\ fa \in IntPoly /\ \A k \in Degrees : Cong(fa[k], Eval(a, 2 * k + 1), Q)
      /\ fb \in IntPoly /\ \A k \in Degrees : Cong(fb[k], Eval(b, 2 * k + 1), Q)
  BY <1>0, ForwardIs
<1>2. poly_mul_ntt(a, b) = ntt_inverse(p)
  BY DEF poly_mul_ntt
<1>3. p = [i \in Degrees |-> (fa[i] * fb[i]) % Q]
  BY DEF CellProducts
<1> HIDE DEF fa, fb, p, c
<1>4. ASSUME NEW k \in Degrees PROVE p[k] \in Int /\ Cong(p[k], Eval(c, 2 * k + 1), Q)
  <2>1. k \in Nat /\ 2 * k + 1 \in Nat
    BY DegreesAre
  <2>2. Eval(a, 2 * k + 1) \in Int /\ Eval(b, 2 * k + 1) \in Int /\ Eval(c, 2 * k + 1) \in Int
    BY <1>0, <2>1, EvalInt
  <2>3. fa[k] \in Int /\ fb[k] \in Int
    BY <1>1 DEF IntPoly
  <2>4. fa[k] * fb[k] \in Int /\ Eval(a, 2 * k + 1) * Eval(b, 2 * k + 1) \in Int
    BY <2>2, <2>3
  <2>5. p[k] = (fa[k] * fb[k]) % Q
    BY <1>3
  <2>6. p[k] \in Int /\ Cong(p[k], fa[k] * fb[k], Q)
    BY <2>4, <2>5, ResidueIs
  <2>7. Cong(fa[k] * fb[k], Eval(a, 2 * k + 1) * Eval(b, 2 * k + 1), Q)
    BY <1>0, <1>1, <2>2, <2>3, CongProducts
  <2>8. Cong(Eval(c, 2 * k + 1), Eval(a, 2 * k + 1) * Eval(b, 2 * k + 1), Q)
    BY <1>0, <2>1, EvalProduct DEF c
  <2>9. Cong(Eval(a, 2 * k + 1) * Eval(b, 2 * k + 1), Eval(c, 2 * k + 1), Q)
    BY <2>2, <2>4, <2>8, CongFlip
  <2>10. Cong(fa[k] * fb[k], Eval(c, 2 * k + 1), Q)
    BY <2>2, <2>4, <2>7, <2>9, CongChain
  <2> QED
    BY <2>2, <2>4, <2>6, <2>10, CongChain
<1>5. p \in IntPoly
  <2>1. p = [k \in Degrees |-> p[k]]
    BY <1>3
  <2> QED
    BY <1>4, <2>1 DEF IntPoly
<1>6. ntt_inverse(p) = c
  BY <1>0, <1>4, <1>5, InverseIs
<1> QED
  BY <1>2, <1>6 DEF c

(* The inverse undoes the transform (test                                  *)
(* ntt_forward_and_inverse_round_trip).                                    *)
THEOREM TransformRoundTrip ==
  ASSUME NEW c \in Poly
  PROVE  ntt_inverse(ntt_forward(c)) = c
<1>1. c \in IntPoly
  BY PolyIsInt
<1>2. ntt_forward(c) \in IntPoly /\ \A k \in Degrees : Cong(ntt_forward(c)[k], Eval(c, 2 * k + 1), Q)
  BY <1>1, ForwardIs
<1> QED
  BY <1>2, InverseIs

(* The property is of the input alone, which does not move.                *)
TransformSpec == ProductInput /\ [][UNCHANGED input]_input

-----------------------------------------------------------------------------
(* Predicate proofs: the centred coefficients of saap.rs and the reduced   *)
(* ones of plp.rs are the same ring.                                       *)

Low  == - ((Q - 1) \div 2)
High == Q \div 2

LEMMA HalvesAre == Low \in Int /\ High \in Int /\ Low <= 0 /\ High >= 0 /\ High - Low = Q - 1 /\ Q \in Int /\ Q > 2
  BY RingParameters DEF Low, High

LEMMA CenteredIs == \A p \in CenteredPoly : \A i \in Degrees : p[i] \in Low .. High /\ p[i] \in Int
  BY HalvesAre DEF CenteredPoly, Low, High

LEMMA CenterCong == \A x \in Int : mod_q(x) \in Low .. High /\ mod_q(x) \in Int /\ Cong(mod_q(x), x, Q)
<1> DEFINE h == (Q - 1) \div 2
<1>1. Q \in Nat /\ Q > 0 /\ Q \in Int /\ h \in Int
  BY RingParameters
<1> SUFFICES ASSUME NEW x \in Int PROVE mod_q(x) \in Low .. High /\ mod_q(x) \in Int /\ Cong(mod_q(x), x, Q)
  OBVIOUS
<1>2. mod_q(x) \in Low .. High /\ mod_q(x) \in Int
  BY CentredRange, HalvesAre DEF Low, High
<1>3. mod_q(x) = ((x + h) % Q) - h
  BY DEF mod_q
<1> HIDE DEF h
<1>4. Cong((x + h) % Q, x + h, Q) /\ (x + h) % Q \in Int /\ x + h \in Int
  BY <1>1, CongResidue
<1>5. Cong(h, h, Q)
  BY <1>1, CongEquivalence
<1>6. Cong(((x + h) % Q) - h, (x + h) - h, Q)
  BY <1>1, <1>4, <1>5, CongSums
<1>7. (x + h) - h = x
  BY <1>1
<1> QED
  BY <1>2, <1>3, <1>6, <1>7

(* Centred numbers that agree modulo Q are equal.                          *)
LEMMA SameCentered ==
  ASSUME NEW x \in Low .. High, NEW y \in Low .. High, Cong(x, y, Q)
  PROVE  x = y
<1>1. x \in Int /\ y \in Int /\ Low \in Int /\ Q \in Int /\ Q \in Nat /\ Q > 0
  BY HalvesAre
<1>2. x - Low \in 0 .. Q - 1 /\ y - Low \in 0 .. Q - 1
  BY HalvesAre
<1>3. Cong(Low, Low, Q)
  BY <1>1, CongEquivalence
<1>4. Cong(x - Low, y - Low, Q)
  BY <1>1, <1>3, CongSums
<1>5. x - Low = y - Low
  BY <1>1, <1>2, <1>4, CongUnique
<1> QED
  BY <1>1, <1>5

LEMMA ToPlpIs ==
  ASSUME NEW a \in CenteredPoly
  PROVE  to_plp_poly(a) \in Poly /\ \A i \in Degrees : Cong(to_plp_poly(a)[i], a[i], Q)
<1>1. ASSUME NEW i \in Degrees
      PROVE  a[i] + (IF a[i] < 0 THEN Q ELSE 0) \in Coeffs /\ Cong(a[i] + (IF a[i] < 0 THEN Q ELSE 0), a[i], Q)
  <2>1. a[i] \in Int /\ a[i] >= Low /\ a[i] <= High
    BY CenteredIs, HalvesAre
  <2>2. a[i] + Q = a[i] + 1 * Q /\ a[i] + 0 = a[i] + 0 * Q
    BY <2>1, HalvesAre
  <2>3. CASE a[i] < 0
    BY <2>1, <2>2, <2>3, HalvesAre DEF Coeffs, Cong
  <2>4. CASE ~ (a[i] < 0)
    BY <2>1, <2>2, <2>4, HalvesAre DEF Coeffs, Cong
  <2> QED
    BY <2>3, <2>4
<1> QED
  BY <1>1 DEF to_plp_poly, Poly

LEMMA FromPlpIs ==
  ASSUME NEW p \in Poly
  PROVE  from_plp_poly(p) \in CenteredPoly /\ \A i \in Degrees : Cong(from_plp_poly(p)[i], p[i], Q)
<1>1. \A i \in Degrees : p[i] \in Int
  BY CoeffsInt DEF Poly
<1> QED
  BY <1>1, CenterCong DEF from_plp_poly, CenteredPoly, Low, High

LEMMA ToOfFrom ==
  ASSUME NEW p \in Poly
  PROVE  to_plp_poly(from_plp_poly(p)) = p
<1> DEFINE f == from_plp_poly(p)
           t == to_plp_poly(f)
<1>1. f \in CenteredPoly /\ \A i \in Degrees : Cong(f[i], p[i], Q)
  BY FromPlpIs
<1>2. t \in Poly /\ \A i \in Degrees : Cong(t[i], f[i], Q)
  BY <1>1, ToPlpIs
<1> HIDE DEF f, t
<1>3. \A i \in Degrees : t[i] \in Int /\ f[i] \in Int /\ p[i] \in Int
  BY <1>1, <1>2, CenteredIs, CoeffsInt DEF Poly
<1>4. \A i \in Degrees : Cong(t[i], p[i], Q)
  BY <1>1, <1>2, <1>3, CongChain
<1>5. t = p
  BY <1>2, <1>4, SamePoly
<1> QED
  BY <1>5 DEF f, t

LEMMA FromOfTo ==
  ASSUME NEW a \in CenteredPoly
  PROVE  from_plp_poly(to_plp_poly(a)) = a
<1> DEFINE t == to_plp_poly(a)
           f == from_plp_poly(t)
<1>1. t \in Poly /\ \A i \in Degrees : Cong(t[i], a[i], Q)
  BY ToPlpIs
<1>2. f \in CenteredPoly /\ \A i \in Degrees : Cong(f[i], t[i], Q)
  BY <1>1, FromPlpIs
<1> HIDE DEF f, t
<1>3. \A i \in Degrees : t[i] \in Int /\ f[i] \in Int /\ a[i] \in Int /\ f[i] \in Low .. High /\ a[i] \in Low .. High
  BY <1>1, <1>2, CenteredIs, CoeffsInt DEF Poly
<1>4. \A i \in Degrees : Cong(f[i], a[i], Q)
  BY <1>1, <1>2, <1>3, CongChain
<1>5. \A i \in Degrees : f[i] = a[i]
  BY <1>3, <1>4, SameCentered
<1>6. f = a
  BY <1>2, <1>5 DEF CenteredPoly
<1> QED
  BY <1>6 DEF f, t

(* Sums, differences and products are those of the reduced polynomials.    *)
LEMMA CenteredSums ==
  ASSUME NEW a \in CenteredPoly, NEW b \in CenteredPoly
  PROVE  /\ saap_poly_add(a, b) \in CenteredPoly /\ saap_poly_sub(a, b) \in CenteredPoly
         /\ to_plp_poly(saap_poly_add(a, b)) = PolyAdd(to_plp_poly(a), to_plp_poly(b))
         /\ to_plp_poly(saap_poly_sub(a, b)) = PolySub(to_plp_poly(a), to_plp_poly(b))
<1> DEFINE s == saap_poly_add(a, b)
           d == saap_poly_sub(a, b)
           A == to_plp_poly(a)
           B == to_plp_poly(b)
           S == to_plp_poly(s)
           D == to_plp_poly(d)
           U == PolyAdd(A, B)
           V == PolySub(A, B)
<1>1. \A i \in Degrees : a[i] \in Int /\ b[i] \in Int
  BY CenteredIs
<1>2. ASSUME NEW i \in Degrees
      PROVE  /\ s[i] \in Low .. High /\ Cong(s[i], a[i] + b[i], Q)
             /\ d[i] \in Low .. High /\ Cong(d[i], a[i] - b[i], Q)
  <2>1. a[i] + b[i] \in Int /\ a[i] - b[i] \in Int
    BY <1>1
  <2> QED
    BY <2>1, CenterCong DEF saap_poly_add, saap_poly_sub
<1>3. s \in CenteredPoly /\ d \in CenteredPoly
  BY <1>2 DEF saap_poly_add, saap_poly_sub, CenteredPoly, Low, High
<1>4. /\ A \in Poly /\ \A i \in Degrees : Cong(A[i], a[i], Q)
      /\ B \in Poly /\ \A i \in Degrees : Cong(B[i], b[i], Q)
      /\ S \in Poly /\ \A i \in Degrees : Cong(S[i], s[i], Q)
      /\ D \in Poly /\ \A i \in Degrees : Cong(D[i], d[i], Q)
  BY <1>3, ToPlpIs
<1>5. U \in Poly /\ V \in Poly
  BY <1>4, AddTyped
<1>6. ASSUME NEW i \in Degrees PROVE Cong(U[i], A[i] + B[i], Q) /\ Cong(V[i], A[i] - B[i], Q)
  <2>1. A[i] \in Coeffs /\ B[i] \in Coeffs
    BY <1>4 DEF Poly
  <2> QED
    BY <2>1, AddIs DEF PolyAdd, PolySub
<1> HIDE DEF s, d, A, B, S, D, U, V
<1>7. ASSUME NEW i \in Degrees PROVE Cong(S[i], U[i], Q) /\ Cong(D[i], V[i], Q)
  <2>1. /\ a[i] \in Int /\ b[i] \in Int /\ A[i] \in Int /\ B[i] \in Int /\ S[i] \in Int /\ D[i] \in Int
        /\ U[i] \in Int /\ V[i] \in Int /\ s[i] \in Int /\ d[i] \in Int
    BY <1>1, <1>3, <1>4, <1>5, CenteredIs, CoeffsInt DEF Poly
  <2>2. a[i] + b[i] \in Int /\ a[i] - b[i] \in Int /\ A[i] + B[i] \in Int /\ A[i] - B[i] \in Int /\ Q \in Int
    BY <2>1, HalvesAre
  <2>3. Cong(A[i] + B[i], a[i] + b[i], Q) /\ Cong(A[i] - B[i], a[i] - b[i], Q)
    BY <1>4, <2>1, <2>2, CongSums
  <2>4. Cong(S[i], a[i] + b[i], Q) /\ Cong(D[i], a[i] - b[i], Q)
    BY <1>2, <1>4, <2>1, <2>2, CongChain
  <2>5. Cong(U[i], a[i] + b[i], Q) /\ Cong(V[i], a[i] - b[i], Q)
    BY <1>6, <2>1, <2>2, <2>3, CongChain
  <2>6. Cong(a[i] + b[i], U[i], Q) /\ Cong(a[i] - b[i], V[i], Q)
    BY <2>1, <2>2, <2>5, CongFlip
  <2> QED
    BY <2>1, <2>2, <2>4, <2>6, CongChain
<1>8. S = U /\ D = V
  BY <1>4, <1>5, <1>7, SamePoly
<1> QED
  BY <1>3, <1>8 DEF s, d, A, B, S, D, U, V

LEMMA CenteredProduct ==
  ASSUME NEW a \in CenteredPoly, NEW b \in CenteredPoly
  PROVE  /\ poly_mul_negacyclic(a, b) \in CenteredPoly
         /\ to_plp_poly(poly_mul_negacyclic(a, b)) = MulSchoolbook(to_plp_poly(a), to_plp_poly(b))
<1> DEFINE A == to_plp_poly(a)
           B == to_plp_poly(b)
           M == MulSchoolbook(A, B)
<1>1. A \in Poly /\ B \in Poly /\ A \in IntPoly /\ B \in IntPoly
  BY ToPlpIs, PolyIsInt
<1>2. M \in Poly
  BY <1>1, ProductInRing
<1>3. poly_mul_negacyclic(a, b) = from_plp_poly(M)
  BY <1>1, TransformIsProduct DEF poly_mul_negacyclic
<1> HIDE DEF A, B, M
<1>4. from_plp_poly(M) \in CenteredPoly /\ to_plp_poly(from_plp_poly(M)) = M
  BY <1>2, FromPlpIs, ToOfFrom
<1> QED
  BY <1>3, <1>4 DEF A, B, M

(* A product with a matrix adds up column by column.                       *)
LEMMA MatrixRuns ==
  ASSUME NEW A \in [Rows -> CenteredVec], NEW v \in CenteredVec, NEW i \in Rows
  PROVE  \E P : /\ P[0] = [d \in Degrees |-> 0]
                /\ \A j \in 1 .. K : P[j] = saap_poly_add(P[j - 1], poly_mul_negacyclic(A[i][j], v[j]))
                /\ \A j \in 0 .. K : P[j] \in CenteredPoly
                /\ MatrixTimes(A, v)[i] = P[K]
<1> DEFINE e    == K
           T    == CenteredPoly
           base == [d \in Degrees |-> 0]
           F    == [j \in 1 .. e |-> [b \in T |-> saap_poly_add(b, poly_mul_negacyclic(A[i][j], v[j]))]]
           seq  == [j \in 1 .. e |-> j]
           Eq(f) == f = [s \in SUBSET (1 .. e) |-> IF s = {} THEN base ELSE
                           saap_poly_add(f[s \ {Max(s)}],
                                         poly_mul_negacyclic(A[i][seq[Max(s)]], v[seq[Max(s)]]))]
<1>0. e \in Nat /\ \A j \in 1 .. e : A[i][j] \in CenteredPoly /\ v[j] \in CenteredPoly
  BY RingParameters DEF CenteredVec, Rows
<1>1. LeftData(T, e, base, F)
  <2>1. base \in T
    BY HalvesAre DEF CenteredPoly, Low, High
  <2>2. ASSUME NEW j \in 1 .. e, NEW b \in T
        PROVE saap_poly_add(b, poly_mul_negacyclic(A[i][j], v[j])) \in T
    BY <1>0, CenteredProduct, CenteredSums
  <2> HIDE DEF T, base
  <2> QED
    BY <2>1, <2>2 DEF LeftData
<1>2. MatrixTimes(A, v)[i] = (CHOOSE f : Eq(f))[1 .. e]
  <2>1. DOMAIN seq = 1 .. e
    OBVIOUS
  <2> QED
    BY <2>1, Zenon DEF MatrixTimes, FoldLeft, MapThenFoldSet
<1>3. PICK g \in [SUBSET (1 .. e) -> T] : LeftFold(g, e, base, F)
  <2> HIDE DEF T, base, F, e
  <2> QED
    BY <1>0, <1>1, LeftFoldExists
<1>M. \A s \in SUBSET (1 .. e) : s # {} => Max(s) \in 1 .. e /\ seq[Max(s)] = Max(s)
  BY <1>0, PrefixMax
<1>4. Eq(g)
  <2>1. \A s \in SUBSET (1 .. e) : s # {} => g[s \ {Max(s)}] \in T
    BY <1>M
  <2>2. ASSUME NEW s \in SUBSET (1 .. e), s # {}
        PROVE  F[Max(s)][g[s \ {Max(s)}]]
                 = saap_poly_add(g[s \ {Max(s)}], poly_mul_negacyclic(A[i][seq[Max(s)]], v[seq[Max(s)]]))
    <3> DEFINE b == g[s \ {Max(s)}]
               j == Max(s)
    <3>1. b \in T /\ j \in 1 .. e /\ seq[j] = j
      BY <1>M, <2>1, <2>2
    <3> HIDE DEF b, j, T, seq
    <3>2. F[j][b] = saap_poly_add(b, poly_mul_negacyclic(A[i][j], v[j]))
      BY <3>1
    <3>3. F[j][b] = saap_poly_add(b, poly_mul_negacyclic(A[i][seq[j]], v[seq[j]]))
      BY <3>1, <3>2, Zenon
    <3> QED
      BY <3>3, Zenon DEF b, j
  <2>3. g = [s \in SUBSET (1 .. e) |-> IF s = {} THEN base ELSE F[Max(s)][g[s \ {Max(s)}]]]
    BY <1>3 DEF LeftFold
  <2> HIDE DEF F, base, T, seq
  <2> QED
    BY <2>2, <2>3, Zenon
<1>5. PICK f : Eq(f) /\ MatrixTimes(A, v)[i] = f[1 .. e]
  <2> HIDE DEF Eq
  <2> QED
    BY <1>2, <1>4, Zenon
<1>6. \A s \in SUBSET (1 .. e) :
        f[s] = IF s = {} THEN base
               ELSE saap_poly_add(f[s \ {Max(s)}], poly_mul_negacyclic(A[i][seq[Max(s)]], v[seq[Max(s)]]))
  <2> HIDE DEF base, seq
  <2> QED
    BY <1>5, Zenon
<1> DEFINE P == AlongPrefixes(f, e)
<1>T. base \in T
  BY <1>1 DEF LeftData
<1>C. \A b \in T : \A j \in 1 .. e : saap_poly_add(b, poly_mul_negacyclic(A[i][j], v[j])) \in T
  BY <1>0, CenteredProduct, CenteredSums
<1> HIDE DEF T, base, F, seq, Eq, P, e
<1>7. P[0] = base
  <2>1. P[0] = f[{}]
    BY <1>0, AlongPrefixesAre DEF P
  <2>2. f[{}] = base
    BY <1>0, <1>6, PrefixMax
  <2> QED
    BY <2>1, <2>2
<1>8. ASSUME NEW j \in 1 .. e PROVE P[j] = saap_poly_add(P[j - 1], poly_mul_negacyclic(A[i][j], v[j]))
  <2>1. P[j] = f[1 .. j] /\ P[j - 1] = f[1 .. j - 1]
    <3>1. j \in 0 .. e /\ j - 1 \in 0 .. e
      BY <1>0
    <3> QED
      BY <3>1 DEF P, AlongPrefixes
  <2>2. (1 .. j) \ {Max(1 .. j)} = 1 .. j - 1 /\ 1 .. j \in SUBSET (1 .. e) /\ 1 .. j # {} /\ Max(1 .. j) = j
    BY <1>0, PrefixMax
  <2>3. seq[Max(1 .. j)] = j
    BY <1>M, <2>2
  <2>4. f[1 .. j] = saap_poly_add(f[(1 .. j) \ {Max(1 .. j)}],
                                  poly_mul_negacyclic(A[i][seq[Max(1 .. j)]], v[seq[Max(1 .. j)]]))
    BY <1>6, <2>2, Zenon
  <2>5. f[1 .. j] = saap_poly_add(f[1 .. j - 1], poly_mul_negacyclic(A[i][j], v[j]))
    BY <2>2, <2>3, <2>4, Zenon
  <2> QED
    BY <2>1, <2>5, Zenon
<1>9. P[e] = f[1 .. e]
  BY <1>0, AlongPrefixesAre DEF P
<1>10. Kept(P, T, e)
  <2>1. \A j \in 1 .. e : P[j - 1] \in T => P[j] \in T
    BY <1>8, <1>C
  <2> QED
    BY <1>7, <1>T, <2>1 DEF Kept
<1>11. \A j \in 0 .. e : P[j] \in T
  BY <1>0, <1>10, RunTyped
<1> QED
  BY <1>5, <1>7, <1>8, <1>9, <1>11, Zenon DEF base, e, T

LEMMA MatrixTyped ==
  ASSUME NEW A \in [Rows -> CenteredVec], NEW v \in CenteredVec
  PROVE  MatrixTimes(A, v) \in CenteredVec
<1>1. ASSUME NEW i \in Rows PROVE MatrixTimes(A, v)[i] \in CenteredPoly
  <2>1. PICK P : (\A j \in 0 .. K : P[j] \in CenteredPoly) /\ MatrixTimes(A, v)[i] = P[K]
    BY MatrixRuns
  <2>2. K \in 0 .. K
    BY RingParameters
  <2> QED
    BY <2>1, <2>2
<1>2. MatrixTimes(A, v) = [i \in Rows |-> MatrixTimes(A, v)[i]]
  BY Zenon DEF MatrixTimes
<1> QED
  BY <1>1, <1>2 DEF CenteredVec

LEMMA ResponseTyped ==
  ASSUME NEW r \in CenteredVec, NEW c \in CenteredPoly, NEW sk \in CenteredVec
  PROVE  /\ Response(r, c, sk) \in CenteredVec
         /\ \A j \in Rows : to_plp_poly(Response(r, c, sk)[j])
                              = PolyAdd(to_plp_poly(r[j]), MulSchoolbook(to_plp_poly(c), to_plp_poly(sk[j])))
<1>1. ASSUME NEW j \in Rows
      PROVE  /\ r[j] \in CenteredPoly /\ sk[j] \in CenteredPoly
             /\ poly_mul_negacyclic(c, sk[j]) \in CenteredPoly
             /\ saap_poly_add(r[j], poly_mul_negacyclic(c, sk[j])) \in CenteredPoly
  BY CenteredProduct, CenteredSums DEF CenteredVec
<1>2. ASSUME NEW j \in Rows
      PROVE  to_plp_poly(saap_poly_add(r[j], poly_mul_negacyclic(c, sk[j])))
               = PolyAdd(to_plp_poly(r[j]), MulSchoolbook(to_plp_poly(c), to_plp_poly(sk[j])))
  BY <1>1, CenteredProduct, CenteredSums
<1> QED
  BY <1>1, <1>2 DEF Response, CenteredVec

(* One more column keeps the relation between the three products.          *)
LEMMA ColumnKeeps ==
  ASSUME NEW c \in Poly, NEW a \in Poly, NEW r \in Poly, NEW s \in Poly, NEW w \in Poly, NEW t \in Poly
  PROVE  PolyAdd(PolyAdd(w, MulSchoolbook(c, t)), MulSchoolbook(a, PolyAdd(r, MulSchoolbook(c, s))))
           = PolyAdd(PolyAdd(w, MulSchoolbook(a, r)), MulSchoolbook(c, PolyAdd(t, MulSchoolbook(a, s))))
<1> DEFINE ct == MulSchoolbook(c, t)
           cs == MulSchoolbook(c, s)
           ar == MulSchoolbook(a, r)
           as == MulSchoolbook(a, s)
           cas == MulSchoolbook(c, as)
<1>1. c \in IntPoly /\ a \in IntPoly /\ r \in IntPoly /\ s \in IntPoly /\ t \in IntPoly
  BY PolyIsInt
<1>2. ct \in Poly /\ cs \in Poly /\ ar \in Poly /\ as \in Poly
  BY <1>1, ProductInRing
<1>3. cas \in Poly
  BY <1>1, <1>2, PolyIsInt, ProductInRing
<1>4. MulSchoolbook(a, PolyAdd(r, cs)) = PolyAdd(ar, MulSchoolbook(a, cs))
  BY <1>1, <1>2, Distributes
<1>5. MulSchoolbook(a, cs) = cas
  BY <1>1, Swaps
<1>6. MulSchoolbook(c, PolyAdd(t, as)) = PolyAdd(ct, cas)
  BY <1>1, <1>2, Distributes
<1> HIDE DEF ct, cs, ar, as, cas
<1>7. PolyAdd(PolyAdd(w, ct), PolyAdd(ar, cas)) = PolyAdd(PolyAdd(w, ar), PolyAdd(ct, cas))
  BY <1>2, <1>3, Regroup
<1>8. PolyAdd(PolyAdd(w, ct), MulSchoolbook(a, PolyAdd(r, cs)))
        = PolyAdd(PolyAdd(w, ar), MulSchoolbook(c, PolyAdd(t, as)))
  BY <1>4, <1>5, <1>6, <1>7
<1> QED
  BY <1>8 DEF ct, cs, ar, as

(* Masked responses satisfy the verifier's equation exactly.               *)
LEMMA EquationIsExact ==
  ASSUME NEW A \in [Rows -> CenteredVec], NEW r \in CenteredVec, NEW sk \in CenteredVec,
         NEW c \in CenteredPoly, NEW i \in Rows
  PROVE  saap_poly_sub(MatrixTimes(A, Response(r, c, sk))[i],
                       poly_mul_negacyclic(c, MatrixTimes(A, sk)[i])) = MatrixTimes(A, r)[i]
<1> DEFINE z == Response(r, c, sk)
           C == to_plp_poly(c)
           Az == MatrixTimes(A, z)[i]
           At == MatrixTimes(A, sk)[i]
           Ar == MatrixTimes(A, r)[i]
           ct == poly_mul_negacyclic(c, At)
<1>1. z \in CenteredVec /\ \A j \in Rows :
        to_plp_poly(z[j]) = PolyAdd(to_plp_poly(r[j]), MulSchoolbook(C, to_plp_poly(sk[j])))
  BY ResponseTyped
<1> HIDE DEF z
<1>2. PICK Z : /\ Z[0] = [d \in Degrees |-> 0]
               /\ \A j \in 1 .. K : Z[j] = saap_poly_add(Z[j - 1], poly_mul_negacyclic(A[i][j], z[j]))
               /\ \A j \in 0 .. K : Z[j] \in CenteredPoly
               /\ Az = Z[K]
  BY <1>1, MatrixRuns
<1>3. PICK W : /\ W[0] = [d \in Degrees |-> 0]
               /\ \A j \in 1 .. K : W[j] = saap_poly_add(W[j - 1], poly_mul_negacyclic(A[i][j], r[j]))
               /\ \A j \in 0 .. K : W[j] \in CenteredPoly
               /\ Ar = W[K]
  BY MatrixRuns
<1>4. PICK T : /\ T[0] = [d \in Degrees |-> 0]
               /\ \A j \in 1 .. K : T[j] = saap_poly_add(T[j - 1], poly_mul_negacyclic(A[i][j], sk[j]))
               /\ \A j \in 0 .. K : T[j] \in CenteredPoly
               /\ At = T[K]
  BY MatrixRuns
<1>5. C \in Poly /\ C \in IntPoly
  BY ToPlpIs, PolyIsInt
<1> HIDE DEF C, Az, At, Ar
<1> DEFINE Rel(j) == to_plp_poly(Z[j]) = PolyAdd(to_plp_poly(W[j]), MulSchoolbook(C, to_plp_poly(T[j])))
           S == {j \in Nat : j <= K => Rel(j)}
<1>6. 0 \in S
  <2>1. to_plp_poly([d \in Degrees |-> 0]) = ZeroPoly
    BY DEF to_plp_poly, ZeroPoly
  <2>2. MulSchoolbook(C, ZeroPoly) = ZeroPoly
    BY <1>5, TimesZero
  <2> QED
    BY <1>2, <1>3, <1>4, <2>1, <2>2, ZeroPlusZero
<1>7. ASSUME NEW j \in Nat, j \in S PROVE j + 1 \in S
  <2>1. SUFFICES ASSUME j + 1 <= K PROVE Rel(j + 1)
    OBVIOUS
  <2> DEFINE n == j + 1
             a == to_plp_poly(A[i][n])
             w == to_plp_poly(W[j])
             t == to_plp_poly(T[j])
             R == to_plp_poly(r[n])
             s == to_plp_poly(sk[n])
             az == poly_mul_negacyclic(A[i][n], z[n])
             ar == poly_mul_negacyclic(A[i][n], r[n])
             as == poly_mul_negacyclic(A[i][n], sk[n])
  <2>2. K \in Nat /\ n \in 1 .. K /\ n - 1 = j /\ j \in 0 .. K /\ n \in Rows
    BY <2>1, RingParameters DEF Rows
  <2>3. Rel(j)
    BY <1>7, <2>2
  <2>4. /\ A[i][n] \in CenteredPoly /\ z[n] \in CenteredPoly /\ r[n] \in CenteredPoly /\ sk[n] \in CenteredPoly
        /\ Z[j] \in CenteredPoly /\ W[j] \in CenteredPoly /\ T[j] \in CenteredPoly
    BY <1>1, <1>2, <1>3, <1>4, <2>2 DEF CenteredVec
  <2>5. a \in Poly /\ w \in Poly /\ t \in Poly /\ R \in Poly /\ s \in Poly
    BY <2>4, ToPlpIs
  <2>6. /\ az \in CenteredPoly /\ to_plp_poly(az) = MulSchoolbook(a, to_plp_poly(z[n]))
        /\ ar \in CenteredPoly /\ to_plp_poly(ar) = MulSchoolbook(a, R)
        /\ as \in CenteredPoly /\ to_plp_poly(as) = MulSchoolbook(a, s)
    BY <2>4, CenteredProduct
  <2>7. Z[n] = saap_poly_add(Z[j], az) /\ W[n] = saap_poly_add(W[j], ar) /\ T[n] = saap_poly_add(T[j], as)
    BY <1>2, <1>3, <1>4, <2>2
  <2> HIDE DEF az, ar, as, n
  <2>8. /\ to_plp_poly(Z[n]) = PolyAdd(to_plp_poly(Z[j]), to_plp_poly(az))
        /\ to_plp_poly(W[n]) = PolyAdd(w, to_plp_poly(ar))
        /\ to_plp_poly(T[n]) = PolyAdd(t, to_plp_poly(as))
    <3>1. to_plp_poly(saap_poly_add(Z[j], az)) = PolyAdd(to_plp_poly(Z[j]), to_plp_poly(az))
      BY <2>4, <2>6, CenteredSums
    <3>2. to_plp_poly(saap_poly_add(W[j], ar)) = PolyAdd(w, to_plp_poly(ar))
      BY <2>4, <2>6, CenteredSums
    <3>3. to_plp_poly(saap_poly_add(T[j], as)) = PolyAdd(t, to_plp_poly(as))
      BY <2>4, <2>6, CenteredSums
    <3> HIDE DEF w, t
    <3> QED
      BY <2>7, <3>1, <3>2, <3>3, Zenon
  <2>9. to_plp_poly(z[n]) = PolyAdd(R, MulSchoolbook(C, s))
    BY <1>1, <2>2
  <2> HIDE DEF a, w, t, R, s
  <2>10. to_plp_poly(Z[j]) = PolyAdd(w, MulSchoolbook(C, t))
    BY <2>3 DEF w, t
  <2>11. to_plp_poly(Z[n]) = PolyAdd(PolyAdd(w, MulSchoolbook(C, t)), MulSchoolbook(a, PolyAdd(R, MulSchoolbook(C, s))))
    BY <2>6, <2>8, <2>9, <2>10
  <2>12. to_plp_poly(Z[n]) = PolyAdd(PolyAdd(w, MulSchoolbook(a, R)), MulSchoolbook(C, PolyAdd(t, MulSchoolbook(a, s))))
    BY <1>5, <2>5, <2>11, ColumnKeeps
  <2>13. Rel(n)
    BY <2>6, <2>8, <2>12
  <2> QED
    BY <2>13 DEF n
<1>8. Rel(K)
  <2>1. \A j \in Nat : j \in S => (j <= K => Rel(j))
    OBVIOUS
  <2> HIDE DEF S, Rel
  <2>2. \A j \in Nat : j \in S
    BY <1>6, <1>7, NatSetInduction
  <2>3. K \in Nat /\ K <= K
    BY RingParameters
  <2> QED
    BY <2>1, <2>2, <2>3
<1>9. Az \in CenteredPoly /\ Ar \in CenteredPoly /\ At \in CenteredPoly
  <2>1. K \in 0 .. K
    BY RingParameters
  <2> QED
    BY <1>2, <1>3, <1>4, <2>1
<1>10. to_plp_poly(Az) = PolyAdd(to_plp_poly(Ar), MulSchoolbook(C, to_plp_poly(At)))
  BY <1>2, <1>3, <1>4, <1>8
<1>11. ct \in CenteredPoly /\ to_plp_poly(ct) = MulSchoolbook(C, to_plp_poly(At))
  BY <1>9, CenteredProduct DEF C
<1> HIDE DEF ct
<1> DEFINE d == saap_poly_sub(Az, ct)
<1>12. d \in CenteredPoly /\ to_plp_poly(d) = PolySub(to_plp_poly(Az), to_plp_poly(ct))
  BY <1>9, <1>11, CenteredSums
<1>13. to_plp_poly(Ar) \in Poly /\ to_plp_poly(ct) \in Poly
  BY <1>9, <1>11, ToPlpIs
<1>14. PolySub(PolyAdd(to_plp_poly(Ar), to_plp_poly(ct)), to_plp_poly(ct)) = to_plp_poly(Ar)
  BY <1>13, RingIsGroup
<1>15. to_plp_poly(d) = to_plp_poly(Ar)
  BY <1>10, <1>11, <1>12, <1>14
<1> HIDE DEF d
<1>16. from_plp_poly(to_plp_poly(d)) = d /\ from_plp_poly(to_plp_poly(Ar)) = Ar
  BY <1>9, <1>12, FromOfTo
<1>17. d = Ar
  BY <1>15, <1>16
<1> QED
  BY <1>17 DEF d, ct, Az, At, Ar, z, C

(* What is returned is an attempt of the call, within the bound.           *)
LEMMA ReturnedIsAttempt ==
  ASSUME NEW x \in PredicateCalls,
         IsOk(saap_prove(x.credential, x.mask, x.tau, x.sk, x.rho))
  PROVE  \E attempt \in 0 .. SAAP_ITERATIONS - 1 :
           /\ saap_prove(x.credential, x.mask, x.tau, x.sk, x.rho).ok = AttemptOf(x, attempt)
           /\ verify_response_norm(AttemptOf(x, attempt).z, SAAP_BOUND) = 0
<1> DEFINE tried == {<<attempt, AttemptOf(x, attempt)>> : attempt \in 0 .. SAAP_ITERATIONS - 1}
           good  == {a \in tried : verify_response_norm(a[2].z, SAAP_BOUND) = 0}
           least == CHOOSE a \in good : \A other \in good : a[1] <= other[1]
           made  == saap_prove(x.credential, x.mask, x.tau, x.sk, x.rho)
<1>1. made = IF good = {} THEN Err("RejectionSamplingFailed") ELSE Ok(least[2])
  BY DEF saap_prove, AttemptOf
<1>2. good # {}
  <2> SUFFICES ASSUME good = {} PROVE FALSE
    OBVIOUS
  <2>1. made = [error |-> "RejectionSamplingFailed"]
    BY <1>1 DEF Err
  <2>2. DOMAIN made = {"error"}
    BY <2>1
  <2> QED
    BY <2>2 DEF IsOk
<1>3. SAAP_ITERATIONS \in Nat
  BY SaapAssumption
<1>4. ASSUME NEW a \in good
      PROVE  \E attempt \in 0 .. SAAP_ITERATIONS - 1 :
               /\ a[1] = attempt /\ a[2] = AttemptOf(x, attempt) /\ verify_response_norm(AttemptOf(x, attempt).z, SAAP_BOUND) = 0
  OBVIOUS
<1> HIDE DEF tried, good, made
<1>5. least \in good
  <2> DEFINE S == {a[1] : a \in good}
  <2>1. S \subseteq Nat /\ S # {}
    BY <1>2, <1>3, <1>4
  <2>2. PICK i \in S : \A j \in S : i <= j
    BY <2>1, LeastNatural
  <2>3. \E a \in good : \A other \in good : a[1] <= other[1]
    BY <2>2
  <2> QED
    BY <2>3
<1>6. made.ok = least[2]
  BY <1>1, <1>2 DEF Ok
<1> HIDE DEF least
<1> QED
  BY <1>4, <1>5, <1>6 DEF made

(* An attempt as both verifiers see it.                                    *)
LEMMA AttemptIs ==
  ASSUME NEW x \in PredicateCalls, NEW attempt \in 0 .. SAAP_ITERATIONS - 1
  PROVE  LET p == AttemptOf(x, attempt)
         IN  /\ DOMAIN p = {"context_tag", "disclosure_mask", "attributes", "challenge", "z",
                            "commitment_hash", "commitment_w"}
             /\ p.context_tag = TagOf(x.tau) /\ p.disclosure_mask = x.mask /\ p.attributes = Values(x.credential)
             /\ p.challenge = recompute_challenge(p.commitment_w, TagOf(x.tau), x.mask, Values(x.credential))
             /\ p.commitment_hash = commitment_hash(p.commitment_w)
             /\ EquationHolds(p, x.tau, saap_public_key(x.tau, x.sk))
             /\ p.z \in CenteredVec /\ p.challenge.poly \in CenteredPoly
<1> DEFINE r == sample_saap_masking_vector(x.rho, TagOf(x.tau), attempt)
           A == derive_saap_matrix(x.tau)
           w == MatrixTimes(A, r)
           c == recompute_challenge(w, TagOf(x.tau), x.mask, Values(x.credential))
           p == AttemptOf(x, attempt)
           t == saap_public_key(x.tau, x.sk)
<1>1. p = [context_tag |-> TagOf(x.tau), disclosure_mask |-> x.mask, attributes |-> Values(x.credential),
           challenge |-> c, z |-> Response(r, c.poly, x.sk),
           commitment_hash |-> commitment_hash(w), commitment_w |-> w]
  BY DEF AttemptOf, Attempt, Committing, Responding
<1>2. p.challenge = c /\ p.commitment_w = w /\ p.z = Response(r, c.poly, x.sk)
  <2> HIDE DEF p, c, w, r
  <2> QED
    BY <1>1
<1>3. r \in CenteredVec /\ A \in [Rows -> CenteredVec] /\ x.sk \in CenteredVec /\ c.poly \in CenteredPoly
  BY <1>2, SaapAssumption
<1>4. t = MatrixTimes(A, x.sk)
  BY DEF saap_public_key
<1> HIDE DEF c, w, r, A, t, p
<1>5. \A i \in Rows : saap_poly_sub(MatrixTimes(A, Response(r, c.poly, x.sk))[i],
                                    poly_mul_negacyclic(c.poly, MatrixTimes(A, x.sk)[i])) = MatrixTimes(A, r)[i]
  BY <1>3, EquationIsExact
<1>6. EquationHolds(p, x.tau, t)
  BY <1>2, <1>4, <1>5 DEF EquationHolds, A, w
<1>7. /\ DOMAIN p = {"context_tag", "disclosure_mask", "attributes", "challenge", "z", "commitment_hash", "commitment_w"}
      /\ p.context_tag = TagOf(x.tau) /\ p.disclosure_mask = x.mask /\ p.attributes = Values(x.credential)
      /\ p.commitment_hash = commitment_hash(w)
  BY <1>1
<1>8. p.challenge = recompute_challenge(p.commitment_w, TagOf(x.tau), x.mask, Values(x.credential))
  BY <1>2 DEF c
<1>9. p.commitment_hash = commitment_hash(p.commitment_w)
  BY <1>2, <1>7
<1>10. p.z \in CenteredVec /\ p.challenge.poly \in CenteredPoly
  BY <1>2, <1>3, ResponseTyped
<1> QED
  BY <1>6, <1>7, <1>8, <1>9, <1>10 DEF p, t

(* A challenge is recomputed only from what it was computed from.          *)
LEMMA ChallengeNames ==
  ASSUME NEW w, NEW t, NEW u, NEW m, NEW n, NEW a, NEW b
  PROVE  recompute_challenge(w, t, m, a) = recompute_challenge(w, u, n, b)
           <=> t = u /\ m = n /\ Disclosed(m, a) = Disclosed(n, b)
<1> DEFINE s == [w |-> w, tau |-> t, mask |-> m, values |-> Disclosed(m, a)]
           v == [w |-> w, tau |-> u, mask |-> n, values |-> Disclosed(n, b)]
<1>1. /\ s.tau = t /\ s.mask = m /\ s.values = Disclosed(m, a)
      /\ v.tau = u /\ v.mask = n /\ v.values = Disclosed(n, b)
  OBVIOUS
<1>2. t = u /\ m = n /\ Disclosed(m, a) = Disclosed(n, b) => s = v
  OBVIOUS
<1>3. /\ recompute_challenge(w, t, m, a) = [of |-> s, poly |-> SaapChallengeOf(s)]
      /\ recompute_challenge(w, u, n, b) = [of |-> v, poly |-> SaapChallengeOf(v)]
  BY DEF recompute_challenge, hash_to_challenge_from_xof
<1> HIDE DEF s, v
<1>4. recompute_challenge(w, t, m, a) = recompute_challenge(w, u, n, b) <=> s = v
  BY <1>3
<1> QED
  BY <1>1, <1>2, <1>4

(* Differences are equal only where what differs is.                       *)
LEMMA DifferencesTell ==
  ASSUME NEW u \in CenteredPoly, NEW v \in CenteredPoly, NEW s \in CenteredPoly, NEW t \in CenteredPoly
  PROVE  /\ saap_poly_sub(u, s) = saap_poly_sub(u, t) <=> s = t
         /\ saap_poly_sub(u, s) = saap_poly_sub(v, s) <=> u = v
<1> DEFINE U == to_plp_poly(u)
           V == to_plp_poly(v)
           S == to_plp_poly(s)
           T == to_plp_poly(t)
<1>1. U \in Poly /\ V \in Poly /\ S \in Poly /\ T \in Poly
  BY ToPlpIs
<1>2. /\ to_plp_poly(saap_poly_sub(u, s)) = PolySub(U, S)
      /\ to_plp_poly(saap_poly_sub(u, t)) = PolySub(U, T)
      /\ to_plp_poly(saap_poly_sub(v, s)) = PolySub(V, S)
  BY CenteredSums
<1>3. (S = T => s = t) /\ (U = V => u = v)
  <2>1. from_plp_poly(S) = s /\ from_plp_poly(T) = t /\ from_plp_poly(U) = u /\ from_plp_poly(V) = v
    BY FromOfTo
  <2> HIDE DEF S, T, U, V
  <2> QED
    BY <2>1
<1> HIDE DEF S, T, U, V
<1>4. \A i \in Degrees : U[i] \in Coeffs /\ V[i] \in Coeffs /\ S[i] \in Coeffs /\ T[i] \in Coeffs
  BY <1>1 DEF Poly
<1>5. \A x, y, z \in Coeffs : /\ SubMod(x, y) = SubMod(x, z) => y = z
                              /\ SubMod(y, x) = SubMod(z, x) => y = z
  BY ModulusHolds DEF SubMod, Coeffs, ModulusIs
<1>6. PolySub(U, S) = PolySub(U, T) => S = T
  <2> SUFFICES ASSUME PolySub(U, S) = PolySub(U, T) PROVE S = T
    OBVIOUS
  <2>1. ASSUME NEW i \in Degrees PROVE S[i] = T[i]
    <3>1. PolySub(U, S)[i] = SubMod(U[i], S[i]) /\ PolySub(U, T)[i] = SubMod(U[i], T[i])
      BY DEF PolySub
    <3> QED
      BY <1>4, <1>5, <3>1
  <2> QED
    BY <1>1, <2>1 DEF Poly
<1>7. PolySub(U, S) = PolySub(V, S) => U = V
  <2> SUFFICES ASSUME PolySub(U, S) = PolySub(V, S) PROVE U = V
    OBVIOUS
  <2>1. ASSUME NEW i \in Degrees PROVE U[i] = V[i]
    <3>1. PolySub(U, S)[i] = SubMod(U[i], S[i]) /\ PolySub(V, S)[i] = SubMod(V[i], S[i])
      BY DEF PolySub
    <3> QED
      BY <1>4, <1>5, <3>1
  <2> QED
    BY <1>1, <2>1 DEF Poly
<1> QED
  BY <1>2, <1>3, <1>6, <1>7

(* When the equation of an honest proof holds for another key or matrix.   *)
LEMMA EquationTells ==
  ASSUME NEW p, NEW tau, NEW other, NEW key, NEW key2, EquationHolds(p, tau, key),
         p.z \in CenteredVec, p.challenge.poly \in CenteredPoly,
         key \in CenteredVec, key2 \in CenteredVec,
         derive_saap_matrix(tau) \in [Rows -> CenteredVec], derive_saap_matrix(other) \in [Rows -> CenteredVec]
  PROVE  /\ EquationHolds(p, tau, key2) <=> SameUnder(p.challenge.poly, key, key2)
         /\ EquationHolds(p, other, key) <=> SameImage(p.z, tau, other)
<1> DEFINE A == MatrixTimes(derive_saap_matrix(tau), p.z)
           B == MatrixTimes(derive_saap_matrix(other), p.z)
           c == p.challenge.poly
           w == p.commitment_w
<1>1. A \in CenteredVec /\ B \in CenteredVec
  BY MatrixTyped
<1>2. ASSUME NEW i \in Rows
      PROVE  /\ A[i] \in CenteredPoly /\ B[i] \in CenteredPoly
             /\ poly_mul_negacyclic(c, key[i]) \in CenteredPoly /\ poly_mul_negacyclic(c, key2[i]) \in CenteredPoly
  <2>1. key[i] \in CenteredPoly /\ key2[i] \in CenteredPoly /\ A[i] \in CenteredPoly /\ B[i] \in CenteredPoly
    BY <1>1 DEF CenteredVec
  <2> QED
    BY <2>1, CenteredProduct
<1>3. /\ \A i \in Rows : saap_poly_sub(A[i], poly_mul_negacyclic(c, key[i])) = w[i]
      /\ EquationHolds(p, tau, key2) <=> \A i \in Rows : saap_poly_sub(A[i], poly_mul_negacyclic(c, key2[i])) = w[i]
      /\ EquationHolds(p, other, key) <=> \A i \in Rows : saap_poly_sub(B[i], poly_mul_negacyclic(c, key[i])) = w[i]
  BY DEF EquationHolds
<1>4. SameImage(p.z, tau, other) <=> A = B
  BY DEF SameImage
<1>5. SameUnder(c, key, key2)
        <=> \A i \in Rows : poly_mul_negacyclic(c, key[i]) = poly_mul_negacyclic(c, key2[i])
  BY DEF SameUnder
<1> HIDE DEF A, B, w
<1>6. ASSUME NEW i \in Rows
      PROVE  /\ saap_poly_sub(A[i], poly_mul_negacyclic(c, key2[i])) = w[i]
                  <=> poly_mul_negacyclic(c, key[i]) = poly_mul_negacyclic(c, key2[i])
             /\ saap_poly_sub(B[i], poly_mul_negacyclic(c, key[i])) = w[i] <=> A[i] = B[i]
  <2> DEFINE s == poly_mul_negacyclic(c, key[i])
             t == poly_mul_negacyclic(c, key2[i])
  <2>1. A[i] \in CenteredPoly /\ B[i] \in CenteredPoly /\ s \in CenteredPoly /\ t \in CenteredPoly
    BY <1>2
  <2>2. saap_poly_sub(A[i], s) = w[i]
    BY <1>3
  <2> HIDE DEF s, t
  <2>3. /\ saap_poly_sub(A[i], s) = saap_poly_sub(A[i], t) <=> s = t
        /\ saap_poly_sub(A[i], s) = saap_poly_sub(B[i], s) <=> A[i] = B[i]
    BY <2>1, DifferencesTell
  <2>4. (saap_poly_sub(A[i], t) = w[i] <=> s = t) /\ (saap_poly_sub(B[i], s) = w[i] <=> A[i] = B[i])
    BY <2>2, <2>3
  <2> QED
    BY <2>4 DEF s, t
<1>7. A = B <=> \A i \in Rows : A[i] = B[i]
  BY <1>1 DEF CenteredVec
<1> QED
  BY <1>3, <1>4, <1>5, <1>6, <1>7

PredicateSpec == PredicateInput /\ [][UNCHANGED input]_input

(* Whatever the ring, the credential, the secret, the context and the      *)
(* hashes: a predicate proof that is returned verifies with both           *)
(* verifiers, and only for its own slots, disclosed values and tag, a      *)
(* matrix that gives its response the same image and a key its challenge   *)
(* does not tell apart (saap_prove, verify_saap_proof_against,             *)
(* verify_saap_proof).                                                     *)
THEOREM PredicateStandsAlone == PredicateSpec => []PredicateStands
<1>1. ASSUME NEW x \in PredicateCalls, NEW r, r = saap_prove(x.credential, x.mask, x.tau, x.sk, x.rho), IsOk(r),
             NEW pk, pk = saap_public_key(x.tau, x.sk)
      PROVE  StandsFor(x, r.ok, pk)
  <2> DEFINE own == [mask |-> x.mask, attributes |-> Values(x.credential)]
  <2>1. PICK attempt \in 0 .. SAAP_ITERATIONS - 1 :
               r.ok = AttemptOf(x, attempt) /\ verify_response_norm(AttemptOf(x, attempt).z, SAAP_BOUND) = 0
    BY <1>1, ReturnedIsAttempt
  <2> DEFINE p == r.ok
             tag == TagOf(x.tau)
             vals == Values(x.credential)
  <2>2. /\ DOMAIN p = {"context_tag", "disclosure_mask", "attributes", "challenge", "z",
                       "commitment_hash", "commitment_w"}
        /\ p.context_tag = tag /\ p.disclosure_mask = x.mask /\ p.attributes = vals
        /\ p.challenge = recompute_challenge(p.commitment_w, tag, x.mask, vals)
        /\ p.commitment_hash = commitment_hash(p.commitment_w)
        /\ EquationHolds(p, x.tau, pk)
        /\ p.z \in CenteredVec /\ p.challenge.poly \in CenteredPoly
        /\ verify_response_norm(p.z, SAAP_BOUND) = 0
    BY <1>1, <2>1, AttemptIs
  <2>K. ASSUME NEW sk \in PredicateSecrets PROVE saap_public_key(x.tau, sk) \in CenteredVec
    <3>1. sk \in CenteredVec /\ derive_saap_matrix(x.tau) \in [Rows -> CenteredVec]
      BY SaapAssumption DEF PredicateSecrets
    <3> QED
      BY <3>1, MatrixTyped DEF saap_public_key
  <2>P. pk \in CenteredVec
    BY <1>1, <2>K DEF PredicateSecrets
  <2>M. /\ derive_saap_matrix(x.tau) \in [Rows -> CenteredVec]
        /\ \A tau \in PredicateContexts : derive_saap_matrix(tau) \in [Rows -> CenteredVec]
    BY SaapAssumption DEF PredicateContexts
  <2> HIDE DEF p, tag, vals
  <2>3. SameStatement(p, own)
    BY <2>2 DEF SameStatement, vals
  <2>4. ASSUME NEW s
        PROVE  LET verdict == IF SameStatement(p, s) THEN Ok("valid") ELSE Err("ChallengeMismatch")
               IN  /\ verify_saap_proof_against(Reworded(p, s), x.tau, pk) = verdict
                   /\ verify_saap_proof(Reworded(p, s)) = verdict
    <3> DEFINE q == Reworded(p, s)
    <3>1. /\ q.z = p.z /\ q.challenge = p.challenge /\ q.context_tag = tag
          /\ q.commitment_w = p.commitment_w /\ q.commitment_hash = p.commitment_hash
          /\ q.disclosure_mask = s.mask /\ q.attributes = s.attributes
      BY <2>2 DEF Reworded
    <3> HIDE DEF q
    <3>2. EquationHolds(q, x.tau, pk)
      BY <2>2, <3>1 DEF EquationHolds
    <3>3. q.challenge = recompute_challenge(q.commitment_w, tag, q.disclosure_mask, q.attributes)
            <=> SameStatement(p, s)
      <4>1. recompute_challenge(p.commitment_w, tag, x.mask, vals)
              = recompute_challenge(p.commitment_w, tag, s.mask, s.attributes)
              <=> x.mask = s.mask /\ Disclosed(x.mask, vals) = Disclosed(s.mask, s.attributes)
        BY ChallengeNames
      <4>2. SameStatement(p, s) <=> s.mask = x.mask /\ Disclosed(s.mask, s.attributes) = Disclosed(x.mask, vals)
        BY <2>2 DEF SameStatement
      <4> QED
        BY <2>2, <3>1, <4>1, <4>2
    <3>4. verify_saap_proof_against(q, x.tau, pk)
            = IF SameStatement(p, s) THEN Ok("valid") ELSE Err("ChallengeMismatch")
      BY <2>2, <3>1, <3>2, <3>3 DEF verify_saap_proof_against, tag
    <3>5. verify_saap_proof(q) = IF SameStatement(p, s) THEN Ok("valid") ELSE Err("ChallengeMismatch")
      BY <2>2, <3>1, <3>3 DEF verify_saap_proof
    <3> QED
      BY <3>4, <3>5 DEF q
  <2>5. ASSUME NEW tau \in PredicateContexts
        PROVE  verify_saap_proof_against(p, tau, pk)
                 = IF TagOf(tau) # tag THEN Err("ChallengeMismatch")
                   ELSE IF SameImage(p.z, x.tau, tau) THEN Ok("valid") ELSE Err("InvalidAttributeCommitment")
    <3>1. EquationHolds(p, tau, pk) <=> SameImage(p.z, x.tau, tau)
      BY <2>2, <2>P, <2>M, EquationTells
    <3> QED
      BY <2>2, <3>1 DEF verify_saap_proof_against
  <2>6. ASSUME NEW sk \in PredicateSecrets
        PROVE  verify_saap_proof_against(p, x.tau, saap_public_key(x.tau, sk))
                 = IF SameUnder(p.challenge.poly, pk, saap_public_key(x.tau, sk)) THEN Ok("valid")
                   ELSE Err("InvalidAttributeCommitment")
    <3>1. EquationHolds(p, x.tau, saap_public_key(x.tau, sk))
            <=> SameUnder(p.challenge.poly, pk, saap_public_key(x.tau, sk))
      BY <2>2, <2>P, <2>K, <2>M, EquationTells
    <3> QED
      BY <2>2, <3>1 DEF verify_saap_proof_against, tag
  <2> QED
    BY <2>3, <2>4, <2>5, <2>6 DEF p, tag, StandsFor
<1>2. PredicateInput => PredicateStands
  <2> SUFFICES ASSUME NEW x \in PredicateCalls, input = [kind |-> "predicate", p |-> x] PROVE PredicateStands
    BY DEF PredicateInput
  <2>1. input.p = x
    OBVIOUS
  <2> QED
    BY <1>1, <2>1 DEF PredicateStands
<1>3. PredicateStands /\ UNCHANGED input => PredicateStands'
  BY DEF PredicateStands
<1> QED
  BY <1>2, <1>3, PTL DEF PredicateSpec

(* The reference over centred coefficients, product by product.            *)
SignedTerm(a, b, k, i) ==
  IF i - 1 + ((k - (i - 1)) % N) < N THEN a[i - 1] * b[(k - (i - 1)) % N] ELSE - a[i - 1] * b[(k - (i - 1)) % N]

LEMMA SignedTermIs ==
  ASSUME NEW a \in IntPoly, NEW b \in IntPoly, NEW k \in Degrees, NEW i \in 1 .. N
  PROVE  /\ i - 1 \in Degrees
         /\ SignedTerm(a, b, k, i) = TurnedTerms(a, b, k)[i - 1] /\ SignedTerm(a, b, k, i) \in Int
<1> DEFINE m == i - 1
           n == (k - m) % N
<1>1. N \in Nat /\ N > 0 /\ k \in Int /\ 0 <= k /\ k < N /\ i \in Int /\ i >= 1 /\ i <= N
  BY DegreesAre
<1>2. m \in Int /\ 0 <= m /\ m < N /\ m \in Degrees
  BY <1>1, DegreesAre
<1>3. TurnedTerms(a, b, k)[m] = a[m] * Turned(b, k - m)
  BY <1>2 DEF TurnedTerms
<1>4. TurnedTerms(a, b, k)[m] \in Int
  <2>1. k \in - N .. N - 1
    BY <1>1
  <2> QED
    BY <1>2, <2>1, TurnedTermsInt DEF IntPoly
<1>5. a[m] \in Int
  BY <1>2 DEF IntPoly
<1>6. SignedTerm(a, b, k, i) = IF m + n < N THEN a[m] * b[n] ELSE - a[m] * b[n]
  BY DEF SignedTerm
<1> HIDE DEF m, n
<1>7. CASE k - m >= 0
  <2>1. k - m \in 0 .. N - 1
    BY <1>1, <1>2, <1>7
  <2>2. n = k - m
    BY <1>1, <2>1 DEF n
  <2>3. m + n < N
    BY <1>1, <1>2, <2>2
  <2>4. Turned(b, k - m) = b[n]
    BY <1>7, <2>2 DEF Turned
  <2>5. SignedTerm(a, b, k, i) = TurnedTerms(a, b, k)[m]
    BY <1>3, <1>6, <2>3, <2>4
  <2> QED
    BY <1>2, <1>4, <2>5 DEF m
<1>8. CASE ~ (k - m >= 0)
  <2>1. k - m + N \in 0 .. N - 1 /\ k - m >= - N
    BY <1>1, <1>2, <1>8
  <2>2. \A y \in 0 .. N - 1 : y - N \in Int /\ (y - N) % N = y
    BY <1>1
  <2>3. (k - m + N) - N = k - m
    BY <1>1, <1>2
  <2>4. n = k - m + N
    BY <2>1, <2>2, <2>3 DEF n
  <2>5. ~ (m + n < N)
    BY <1>1, <1>2, <2>4
  <2>6. Turned(b, k - m) = - b[n]
    BY <1>8, <2>1, <2>4 DEF Turned
  <2>7. n \in Degrees
    BY <1>1, <2>1, <2>4 DEF Degrees
  <2>8. b[n] \in Int
    BY <2>7 DEF IntPoly
  <2>9. \A x, y \in Int : - (x * y) = x * (- y)
    OBVIOUS
  <2>10. SignedTerm(a, b, k, i) = - (a[m] * b[n])
    BY <1>6, <2>5
  <2>11. SignedTerm(a, b, k, i) = TurnedTerms(a, b, k)[m]
    BY <1>3, <1>5, <2>6, <2>8, <2>9, <2>10
  <2> QED
    BY <1>2, <1>4, <2>11 DEF m
<1> QED
  BY <1>7, <1>8

LEMMA ReferenceRuns ==
  ASSUME NEW a \in IntPoly, NEW b \in IntPoly, NEW k \in Degrees
  PROVE  \E P : /\ P[0] = 0
                /\ \A i \in 1 .. N : P[i] = mod_q(P[i - 1] + SignedTerm(a, b, k, i))
                /\ \A i \in 0 .. N : P[i] \in Int
                /\ poly_mul_schoolbook(a, b)[k] = P[N]
<1> DEFINE e    == N
           T    == Int
           base == 0
           F    == [i \in 1 .. e |-> [c \in T |-> mod_q(c + SignedTerm(a, b, k, i))]]
           seq  == [i \in 1 .. e |-> i]
           Eq(f) == f = [s \in SUBSET (1 .. e) |-> IF s = {} THEN base ELSE
                           mod_q(f[s \ {Max(s)}] + SignedTerm(a, b, k, seq[Max(s)]))]
<1>0. e \in Nat
  BY DegreesAre
<1>C. \A c \in T : \A i \in 1 .. e : mod_q(c + SignedTerm(a, b, k, i)) \in T
  <2> SUFFICES ASSUME NEW c \in T, NEW i \in 1 .. e PROVE mod_q(c + SignedTerm(a, b, k, i)) \in T
    OBVIOUS
  <2>1. SignedTerm(a, b, k, i) \in Int
    BY SignedTermIs
  <2>2. c + SignedTerm(a, b, k, i) \in Int
    BY <2>1
  <2> QED
    BY <2>2, CenterCong
<1>1. LeftData(T, e, base, F)
  <2>1. base \in T
    OBVIOUS
  <2> HIDE DEF T, base
  <2> QED
    BY <2>1, <1>C DEF LeftData
<1>2. poly_mul_schoolbook(a, b)[k] = (CHOOSE f : Eq(f))[1 .. e]
  <2>1. DOMAIN seq = 1 .. e
    OBVIOUS
  <2> QED
    BY <2>1, Zenon DEF poly_mul_schoolbook, FoldLeft, MapThenFoldSet, SignedTerm
<1>3. PICK g \in [SUBSET (1 .. e) -> T] : LeftFold(g, e, base, F)
  <2> HIDE DEF T, base, F, e
  <2> QED
    BY <1>0, <1>1, LeftFoldExists
<1>M. \A s \in SUBSET (1 .. e) : s # {} => Max(s) \in 1 .. e /\ seq[Max(s)] = Max(s)
  BY <1>0, PrefixMax
<1>4. Eq(g)
  <2>1. \A s \in SUBSET (1 .. e) : s # {} => g[s \ {Max(s)}] \in T
    BY <1>M
  <2>2. ASSUME NEW s \in SUBSET (1 .. e), s # {}
        PROVE  F[Max(s)][g[s \ {Max(s)}]] = mod_q(g[s \ {Max(s)}] + SignedTerm(a, b, k, seq[Max(s)]))
    <3> DEFINE c == g[s \ {Max(s)}]
               i == Max(s)
    <3>1. c \in T /\ i \in 1 .. e /\ seq[i] = i
      BY <1>M, <2>1, <2>2
    <3> HIDE DEF c, i, T, seq
    <3>2. F[i][c] = mod_q(c + SignedTerm(a, b, k, i))
      BY <3>1
    <3>3. F[i][c] = mod_q(c + SignedTerm(a, b, k, seq[i]))
      BY <3>1, <3>2, Zenon
    <3> QED
      BY <3>3, Zenon DEF c, i
  <2>3. g = [s \in SUBSET (1 .. e) |-> IF s = {} THEN base ELSE F[Max(s)][g[s \ {Max(s)}]]]
    BY <1>3 DEF LeftFold
  <2> HIDE DEF F, base, T, seq
  <2> QED
    BY <2>2, <2>3, Zenon
<1>5. PICK f : Eq(f) /\ poly_mul_schoolbook(a, b)[k] = f[1 .. e]
  <2> HIDE DEF Eq
  <2> QED
    BY <1>2, <1>4, Zenon
<1>6. \A s \in SUBSET (1 .. e) :
        f[s] = IF s = {} THEN base ELSE mod_q(f[s \ {Max(s)}] + SignedTerm(a, b, k, seq[Max(s)]))
  <2> HIDE DEF base, seq
  <2> QED
    BY <1>5, Zenon
<1> DEFINE P == AlongPrefixes(f, e)
<1>T. base \in T
  OBVIOUS
<1> HIDE DEF T, base, F, seq, Eq, P, e
<1>7. P[0] = base
  <2>1. P[0] = f[{}]
    BY <1>0, AlongPrefixesAre DEF P
  <2>2. f[{}] = base
    BY <1>0, <1>6, PrefixMax
  <2> QED
    BY <2>1, <2>2
<1>8. ASSUME NEW i \in 1 .. e PROVE P[i] = mod_q(P[i - 1] + SignedTerm(a, b, k, i))
  <2>1. P[i] = f[1 .. i] /\ P[i - 1] = f[1 .. i - 1]
    <3>1. i \in 0 .. e /\ i - 1 \in 0 .. e
      BY <1>0
    <3> QED
      BY <3>1 DEF P, AlongPrefixes
  <2>2. (1 .. i) \ {Max(1 .. i)} = 1 .. i - 1 /\ 1 .. i \in SUBSET (1 .. e) /\ 1 .. i # {} /\ Max(1 .. i) = i
    BY <1>0, PrefixMax
  <2>3. seq[Max(1 .. i)] = i
    BY <1>M, <2>2
  <2>4. f[1 .. i] = mod_q(f[(1 .. i) \ {Max(1 .. i)}] + SignedTerm(a, b, k, seq[Max(1 .. i)]))
    BY <1>6, <2>2, Zenon
  <2>5. f[1 .. i] = mod_q(f[1 .. i - 1] + SignedTerm(a, b, k, i))
    BY <2>2, <2>3, <2>4, Zenon
  <2> QED
    BY <2>1, <2>5, Zenon
<1>9. P[e] = f[1 .. e]
  BY <1>0, AlongPrefixesAre DEF P
<1>10. Kept(P, T, e)
  <2>1. \A i \in 1 .. e : P[i - 1] \in T => P[i] \in T
    BY <1>8, <1>C
  <2> QED
    BY <1>7, <1>T, <2>1 DEF Kept
<1>11. \A i \in 0 .. e : P[i] \in T
  BY <1>0, <1>10, RunTyped
<1> QED
  BY <1>5, <1>7, <1>8, <1>9, <1>11, Zenon DEF base, e, T

LEMMA ReferenceIs ==
  ASSUME NEW a \in CenteredPoly, NEW b \in CenteredPoly, NEW k \in Degrees
  PROVE  /\ poly_mul_schoolbook(a, b)[k] \in Low .. High
         /\ Cong(poly_mul_schoolbook(a, b)[k], SumOver(TurnedTerms(a, b, k)), Q)
<1> DEFINE h == TurnedTerms(a, b, k)
<1>1. a \in IntPoly /\ b \in IntPoly
  BY CentredIntegers DEF CenteredPoly, IntPoly
<1>2. h \in IntPoly
  BY <1>1, ProductIs
<1>3. PICK P : /\ P[0] = 0
               /\ \A i \in 1 .. N : P[i] = mod_q(P[i - 1] + SignedTerm(a, b, k, i))
               /\ \A i \in 0 .. N : P[i] \in Int
               /\ poly_mul_schoolbook(a, b)[k] = P[N]
  BY <1>1, ReferenceRuns
<1>4. PICK R : Running(R, h) /\ R[N] = SumOver(h)
  BY <1>2, SumRuns
<1>5. \A i \in 1 .. N : i - 1 \in Degrees /\ SignedTerm(a, b, k, i) = h[i - 1]
  BY <1>1, SignedTermIs
<1> HIDE DEF h
<1> DEFINE S == {n \in 0 .. N : Cong(P[n], R[n], Q) /\ (n > 0 => P[n] \in Low .. High)}
<1>6. 0 \in S
  <2>1. P[0] = 0 /\ R[0] = 0 /\ 0 \in 0 .. N /\ Q \in Int /\ 0 \in Int
    BY <1>3, <1>4, CoeffsInt, DegreesAre DEF Running
  <2> QED
    BY <2>1, CongEquivalence
<1>7. ASSUME NEW n \in Degrees, n \in S PROVE n + 1 \in S
  <2>1. n + 1 \in 1 .. N /\ (n + 1) - 1 = n /\ n + 1 \in 0 .. N /\ n \in 0 .. N /\ Q \in Int
    BY DegreesAre, CoeffsInt
  <2>2. /\ P[n] \in Int /\ P[n + 1] \in Int /\ R[n] \in Int /\ R[n + 1] \in Int /\ h[n] \in Int
        /\ R[n + 1] = R[n] + h[n]
    BY <1>2, <1>3, <1>4, <2>1 DEF Running, IntPoly
  <2>3. P[n + 1] = mod_q(P[n] + h[n])
    BY <1>3, <1>5, <2>1
  <2>4. P[n] + h[n] \in Int
    BY <2>2
  <2>5. P[n + 1] \in Low .. High /\ Cong(P[n + 1], P[n] + h[n], Q)
    BY <2>3, <2>4, CenterCong
  <2>6. Cong(P[n], R[n], Q) /\ Cong(h[n], h[n], Q)
    BY <1>7, <2>1, <2>2, CongEquivalence
  <2>7. Cong(P[n] + h[n], R[n] + h[n], Q)
    BY <2>1, <2>2, <2>6, CongSums
  <2>8. Cong(P[n + 1], R[n + 1], Q)
    BY <2>2, <2>4, <2>5, <2>7, CongChain
  <2> QED
    BY <2>1, <2>5, <2>8
<1>8. \A n : n \in S => Cong(P[n], R[n], Q) /\ (n > 0 => P[n] \in Low .. High)
  OBVIOUS
<1> HIDE DEF S
<1>9. N \in S
  BY <1>6, <1>7, DegreeInduction
<1>10. P[N] \in Low .. High
  BY <1>8, <1>9, DegreesAre
<1>11. Cong(P[N], R[N], Q)
  BY <1>8, <1>9, DegreesAre
<1> QED
  BY <1>3, <1>4, <1>10, <1>11 DEF h

LEMMA AlikeProducts ==
  ASSUME NEW a \in CenteredPoly, NEW b \in CenteredPoly, NEW k \in Degrees
  PROVE  Cong(SumOver(TurnedTerms(to_plp_poly(a), to_plp_poly(b), k)), SumOver(TurnedTerms(a, b, k)), Q)
<1> DEFINE A == to_plp_poly(a)
           B == to_plp_poly(b)
<1>1. A \in IntPoly /\ B \in IntPoly /\ a \in IntPoly /\ b \in IntPoly
  BY ToPlpIs, PolyIsInt, CentredIntegers DEF CenteredPoly, IntPoly
<1>2. \A i \in Degrees : Cong(A[i], a[i], Q) /\ Cong(B[i], b[i], Q)
  BY ToPlpIs
<1> HIDE DEF A, B
<1>3. ASSUME NEW i \in Degrees PROVE Cong(A[i] * Turned(B, k - i), a[i] * Turned(b, k - i), Q)
  <2> DEFINE j == k - i
  <2>1. j \in Int /\ j >= - N /\ j <= N - 1 /\ j \in - (2 * N) .. N - 1 /\ Q \in Int /\ 0 \in Int
    BY DegreesAre, CoeffsInt
  <2>2. Turned(B, j) \in Int /\ Turned(b, j) \in Int /\ A[i] \in Int /\ a[i] \in Int
    BY <1>1, <2>1, TurnedInt DEF IntPoly
  <2> HIDE DEF j
  <2>3. Cong(Turned(B, j), Turned(b, j), Q)
    <3>1. CASE j >= 0
      <4>1. j \in Degrees /\ Turned(B, j) = B[j] /\ Turned(b, j) = b[j]
        BY <2>1, <3>1, DegreesAre DEF Turned
      <4> QED
        BY <1>2, <4>1
    <3>2. CASE ~ (j >= 0)
      <4>1. j + N \in Degrees /\ Turned(B, j) = - B[j + N] /\ Turned(b, j) = - b[j + N]
        BY <2>1, <3>2, DegreesAre DEF Turned
      <4>2. B[j + N] \in Int /\ b[j + N] \in Int
        BY <1>1, <4>1 DEF IntPoly
      <4>3. Cong(B[j + N], b[j + N], Q) /\ Cong(0, 0, Q)
        BY <1>2, <2>1, <4>1, CongEquivalence
      <4>4. Cong(0 - B[j + N], 0 - b[j + N], Q)
        BY <2>1, <4>2, <4>3, CongSums
      <4>5. 0 - B[j + N] = - B[j + N] /\ 0 - b[j + N] = - b[j + N]
        BY <4>2
      <4> QED
        BY <4>1, <4>4, <4>5
    <3> QED
      BY <3>1, <3>2
  <2>4. Cong(A[i] * Turned(B, j), a[i] * Turned(b, j), Q)
    BY <1>2, <2>1, <2>2, <2>3, CongProducts
  <2> QED
    BY <2>4 DEF j
<1>4. TurnedTerms(A, B, k) \in IntPoly /\ TurnedTerms(a, b, k) \in IntPoly
  BY <1>1, ProductIs
<1>5. Alike(TurnedTerms(A, B, k), TurnedTerms(a, b, k))
  BY <1>3 DEF Alike, TurnedTerms
<1>6. Cong(SumOver(TurnedTerms(A, B, k)), SumOver(TurnedTerms(a, b, k)), Q)
  BY <1>4, <1>5, SumAlike
<1> QED
  BY <1>6 DEF A, B

(* The three multiplications of centred polynomials, saap.rs's by          *)
(* transform and by its reference and sampling.rs's, give the same         *)
(* (ntt_and_schoolbook_agree_over_saap_polynomials).                       *)
THEOREM CenteredProducts ==
  ASSUME NEW a \in CenteredPoly, NEW b \in CenteredPoly
  PROVE  /\ poly_mul_negacyclic(a, b) = poly_mul_schoolbook(a, b)
         /\ poly_mul_centered(a, b) = poly_mul_schoolbook(a, b)
<1> DEFINE f == poly_mul_negacyclic(a, b)
           g == poly_mul_schoolbook(a, b)
           e == poly_mul_centered(a, b)
           A == to_plp_poly(a)
           B == to_plp_poly(b)
           M == MulSchoolbook(A, B)
           L == MulSchoolbook(a, b)
           Sum(k) == SumOver(TurnedTerms(a, b, k))
<1>1. /\ A \in Poly /\ B \in Poly /\ A \in IntPoly /\ B \in IntPoly /\ a \in IntPoly /\ b \in IntPoly
  BY ToPlpIs, PolyIsInt, CentredIntegers DEF CenteredPoly, IntPoly
<1>2. f \in CenteredPoly /\ e \in CenteredPoly
  BY CenteredProduct, ProductTyped
<1>3. M \in Poly /\ L \in Poly
  BY <1>1, ProductInRing
<1>4. f = from_plp_poly(M)
  BY <1>1, TransformIsProduct DEF poly_mul_negacyclic
<1>5. ASSUME NEW k \in Degrees
      PROVE  /\ f[k] \in Low .. High /\ g[k] \in Low .. High /\ e[k] \in Low .. High
             /\ Cong(f[k], Sum(k), Q) /\ Cong(g[k], Sum(k), Q) /\ Cong(e[k], Sum(k), Q) /\ Sum(k) \in Int
  <2>1. f[k] \in Low .. High /\ f[k] \in Int /\ e[k] \in Low .. High /\ e[k] \in Int
    BY <1>2, CenteredIs
  <2>2. g[k] \in Low .. High /\ Cong(g[k], Sum(k), Q)
    BY ReferenceIs
  <2>3. Sum(k) \in Int /\ SumOver(TurnedTerms(A, B, k)) \in Int
    BY <1>1, ProductIs, SumRuns
  <2>4. M[k] \in Int /\ Cong(f[k], M[k], Q)
    BY <1>3, <1>4, FromPlpIs, CoeffsInt DEF Poly
  <2>5. Cong(M[k], SumOver(TurnedTerms(A, B, k)), Q)
    BY <1>1, ProductIs
  <2>6. Cong(SumOver(TurnedTerms(A, B, k)), Sum(k), Q)
    BY AlikeProducts
  <2>7. Cong(f[k], Sum(k), Q)
    <3> HIDE DEF f, M, A, B, Sum
    <3>1. Cong(f[k], SumOver(TurnedTerms(A, B, k)), Q)
      BY <2>1, <2>3, <2>4, <2>5, CongChain
    <3> QED
      BY <2>1, <2>3, <2>6, <3>1, CongChain
  <2>8. Cong(e[k], Sum(k), Q)
    <3> DEFINE tmp == [n \in 0 .. 2 * N - 1 |->
                        MapThenSumSet(LAMBDA i : a[i] * b[n - i], {i \in Degrees : n - i \in Degrees})]
               x == tmp[k] - tmp[k + N]
    <3>1. e[k] = mod_q(x)
      BY DEF poly_mul_centered
    <3>2. L[k] = x % Q
      BY DEF MulSchoolbook
    <3>3. tmp[k] \in Int /\ tmp[k + N] \in Int
      <4>1. k \in 0 .. 2 * N - 1 /\ k + N \in 0 .. 2 * N - 1 /\ k \in Int /\ k + N \in Int
        BY DegreesAre
      <4> QED
        BY <4>1, ConvolutionTyped
    <3> HIDE DEF tmp
    <3>4. x \in Int
      BY <3>3
    <3> HIDE DEF x, e, L, Sum
    <3>5. Cong(e[k], x, Q)
      BY <3>1, <3>4, CenterCong
    <3>6. Cong(x % Q, x, Q) /\ x % Q \in Int
      BY <3>4, ResidueIs
    <3>7. Cong(x, x % Q, Q)
      BY <3>4, <3>6, CongFlip
    <3>8. Cong(L[k], Sum(k), Q)
      BY <1>1, ProductIs DEF L, Sum
    <3>9. Cong(e[k], L[k], Q) /\ L[k] \in Int
      BY <2>1, <3>2, <3>4, <3>5, <3>6, <3>7, CongChain
    <3> QED
      BY <2>1, <2>3, <3>8, <3>9, CongChain
  <2> QED
    BY <2>1, <2>2, <2>3, <2>7, <2>8
<1> HIDE DEF f, g, e, M, L, A, B, Sum
<1>6. ASSUME NEW k \in Degrees PROVE f[k] = g[k] /\ e[k] = g[k]
  <2>1. f[k] \in Int /\ g[k] \in Int /\ e[k] \in Int
    BY <1>5, HalvesAre
  <2>2. Cong(Sum(k), g[k], Q)
    BY <1>5, <2>1, CongFlip
  <2>3. Cong(f[k], g[k], Q) /\ Cong(e[k], g[k], Q)
    BY <1>5, <2>1, <2>2, CongChain
  <2> QED
    BY <1>5, <2>3, SameCentered
<1>7. g = [k \in Degrees |-> g[k]]
  BY Zenon DEF g, poly_mul_schoolbook
<1>8. f = [k \in Degrees |-> f[k]] /\ e = [k \in Degrees |-> e[k]]
  BY <1>2 DEF CenteredPoly
<1>9. f = g /\ e = g
  BY <1>6, <1>7, <1>8
<1> QED
  BY <1>9 DEF f, g, e

(* So whatever the factors, every fast product is the reference product    *)
(* (poly_mul_ntt beside poly_mul_schoolbook, over reduced and centred      *)
(* coefficients).                                                          *)
THEOREM ProductsAreReference == TransformSpec => []ProductsAgree
<1>1. ProductInput => ProductsAgree
  <2> SUFFICES ASSUME ProductInput
               PROVE  LET x == from_plp_poly(input.a)
                          y == from_plp_poly(input.b)
                      IN  /\ poly_mul_ntt(input.a, input.b) = MulSchoolbook(input.a, input.b)
                          /\ poly_mul_negacyclic(x, y) = poly_mul_schoolbook(x, y)
                          /\ poly_mul_centered(x, y) = poly_mul_schoolbook(x, y)
                          /\ to_plp_poly(x) = input.a /\ from_plp_poly(to_plp_poly(x)) = x
    BY DEF ProductsAgree
  <2>1. input.a \in Poly /\ input.b \in Poly
    BY FactorAssumption DEF ProductInput
  <2>2. from_plp_poly(input.a) \in CenteredPoly /\ from_plp_poly(input.b) \in CenteredPoly
    BY <2>1, FromPlpIs
  <2>3. to_plp_poly(from_plp_poly(input.a)) = input.a
    BY <2>1, ToOfFrom
  <2>4. poly_mul_ntt(input.a, input.b) = MulSchoolbook(input.a, input.b)
    BY <2>1, TransformIsProduct
  <2> QED
    BY <2>2, <2>3, <2>4, CenteredProducts
<1>2. ProductsAgree /\ UNCHANGED input => ProductsAgree'
  BY DEF ProductsAgree
<1> QED
  BY <1>1, <1>2, PTL DEF TransformSpec
=============================================================================
