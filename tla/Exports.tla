------------------------------ MODULE Exports ------------------------------
(***************************************************************************)
(* The functions the component exports (src/src/component.rs), each with   *)
(* the handles it is given replaced by what they own.  Every one of them   *)
(* returns a value or an error and changes nothing.                        *)
(*                                                                         *)
(* A prover's loop returns its first acceptable attempt (Plp!LoopInv and   *)
(* Credential model it step by step).  Projections and proofs are the      *)
(* records of Wire; a presentation is a record of flat lists of words,     *)
(* whose challenge takes its transcript along.                             *)
(***************************************************************************)
EXTENDS CredentialCore, Wire, Signing, SequencesExt

CONSTANTS
  PublicSeed(_),              \* an issuer's published seed, hashed from its secret one
  MAX_REJECTION_ITERATIONS,
  RING_N,
  RWords(_), ROf(_)           \* the coefficients of a ring element, and back

(* Reduced words determine a ring element, a challenge among them, and are *)
(* determined by it; unflatten keeps words that are not reduced as they    *)
(* are, so they make another element.                                      *)
ASSUME ElementAssumption ==
  /\ RING_N \in Nat \ {0} /\ MAX_REJECTION_ITERATIONS \in Nat
  /\ \A a \in R \cup ChalPoly : RWords(a) \in Words(RING_N) /\ ROf(RWords(a)) = a
  /\ \A u, v \in [1 .. RING_N -> 0 .. 2 * Q] : ROf(u) = ROf(v) => u = v

FirstOf(S) == CHOOSE i \in S : \A j \in S : i <= j

secret_as_seed(secret) ==
  IF Length(secret) # 32 THEN Err("InvalidInputLength") ELSE Ok(secret)

registered_purposes == RegisteredPurposes

TooShort(randomness) == Length(randomness) < 32
-----------------------------------------------------------------------------
(* Projecting and proving, from an identity's seed or from a raw secret.   *)

checked_project_at_context(o, seed, tau, rho) ==
  IF TooShort(rho) THEN Err("InvalidInputLength")
  ELSE Ok(projection_to_bytes(project_at_context(o, seed, tau, rho)))

(* The attempts of prove_identity; it returns the first acceptable one.    *)
prove_identity(o, seed, tau, rho) ==
  LET proj == project_at_context(o, seed, tau, rho)
      Attempts == 0 .. Ceiling - 1
      y == [i \in Attempts |-> MaskOf(o, <<seed, proj.tau, i>>)]
      w == [i \in Attempts |-> Apply(derive_context_matrix(o, proj.tau, proj.salt), y[i])]
      c == [i \in Attempts |-> hash_to_challenge(o, w[i], proj.public_b, proj.tau, proj.salt)]
      z == [i \in Attempts |-> Add(y[i], Scale(c[i].poly, SecretOf(o, seed)))]
      Acceptable == {i \in Attempts : InBound(z[i])}
      first == FirstOf(Acceptable)
  IN  IF TooShort(rho) THEN Err("InvalidInputLength")
      ELSE IF Acceptable = {} THEN Err("RejectionSamplingFailed")
      ELSE Ok(proof_to_bytes([commitment_w |-> w[first], challenge_c |-> c[first],
                              response_z   |-> z[first]]))

plp_project_at_context(o, secret, tau, rho) ==
  LET seed == secret_as_seed(secret)
  IN  IF IsOk(seed) THEN checked_project_at_context(o, seed.ok, tau, rho) ELSE seed

plp_prove_identity(o, secret, tau, rho) ==
  LET seed == secret_as_seed(secret)
  IN  IF IsOk(seed) THEN prove_identity(o, seed.ok, tau, rho) ELSE seed
-----------------------------------------------------------------------------
(* Issuer parameters: the public seed, which is hashed from the secret one *)
(* or read from published bytes.                                           *)
derive(issuer_seed) ==
  IF Length(issuer_seed) < 32 THEN Err("InvalidInputLength") ELSE Ok(PublicSeed(issuer_seed))

serialize(params) == params

deserialize(bytes) == IF Length(bytes) # 32 THEN Err("InvalidInputLength") ELSE Ok(bytes)
-----------------------------------------------------------------------------
(* Credentials, with the parameters they were issued under.                *)
credential_issue(o, holder, issuer_seed, attributes, rand) ==
  LET params == derive(issuer_seed)
  IN  IF Len(attributes) # CRED_ATTRIBUTES THEN Err("InvalidInputLength")
      ELSE IF ~ IsOk(params) THEN params
      ELSE IF TooShort(rand) THEN Err("InvalidInputLength")
      ELSE Ok([credential |-> issue(o, params.ok, holder.plp_seed, attributes, rand),
               params     |-> params.ok])

(* The elements one after another, RING_N words each.                      *)
flatten(polys, indices) ==
  [j \in 1 .. Cardinality(indices) * RING_N |->
     RWords(polys[(j - 1) \div RING_N])[1 + ((j - 1) % RING_N)]]

(* Exactly k elements; their coefficients may be any integers.             *)
unflatten(k, flat) ==
  IF Len(flat) # k * RING_N THEN Err("InvalidInputLength")
  ELSE Ok([i \in 0 .. k - 1 |-> ROf(SubSeq(flat, i * RING_N + 1, (i + 1) * RING_N))])

(* credential::prove, over the attempts of Credential.                     *)
prove(o, params, blinded, seed, proj, tau, rho, disclosed, rand) ==
  LET values    == DisclosedValues(blinded.m, disclosed)
      statement == Statement(params, blinded.t_blind, proj, tau, disclosed, values)
      A         == derive_context_matrix(o, proj.tau, proj.salt)
      Attempts  == 0 .. MAX_REJECTION_ITERATIONS - 1
      y == [i \in Attempts |-> Masks(o, <<rand, statement, i>>)]
      c == [i \in Attempts |-> derive_challenge(o, Commitment(o, params, y[i].r, y[i].m),
                                                Add(Apply(A, y[i].s), y[i].e), statement)]
      Response(e, y_i) ==
        [r |-> RVecAdd(y_i.r, RVecScale(e, blinded.r_star)),
         m |-> RVecAdd(y_i.m, RVecScale(e, Hidden(blinded.m, disclosed))),
         s |-> Add(y_i.s, Scale(e, SecretOf(o, seed))),
         e |-> Add(y_i.e, Scale(e, derive_error_tau(o, rho, tau)))]
      z == [i \in Attempts |-> Response(c[i].poly, y[i])]
      Acceptable == {i \in Attempts : ShortResponses(z[i])}
      first == FirstOf(Acceptable)
  IN  IF TooShort(rand) THEN Err("InvalidInputLength")
      ELSE IF Acceptable = {} THEN Err("RejectionSamplingFailed")
      ELSE Ok([disclosed |-> disclosed, values |-> values, challenge |-> c[first], z |-> z[first]])

present(o, owned, holder, tau, rho, disclosed, blinding, rand) ==
  LET seed    == holder.plp_seed
      proj    == project_at_context(o, seed, tau, rho)
      blinded == blind(o, owned.params, owned.credential, blinding)
      p       == prove(o, owned.params, blinded, seed, proj, tau, rho, disclosed, rand)
  IN  IF TooShort(rho) \/ TooShort(blinding) THEN Err("InvalidInputLength")
      ELSE IF ~ IsOk(p) THEN p
      ELSE Ok([tau              |-> tau,
               disclosed        |-> disclosed,
               disclosed_values |-> [i \in Attributes |-> p.ok.values[i]],
               t_blind          |-> flatten(blinded.t_blind, TRows),
               challenge        |-> RWords(p.ok.challenge.poly),
               transcript       |-> p.ok.challenge.of,
               z_r              |-> flatten(p.ok.z.r, LRows),
               z_m              |-> flatten(p.ok.z.m, Slots),
               z_s              |-> VecWords(p.ok.z.s),
               z_e              |-> VecWords(p.ok.z.e)])
-----------------------------------------------------------------------------
(* Verifying a presentation.  The context is the verifier's, and compared  *)
(* byte for byte before anything is parsed.                                *)

IsPresentation(p) ==
  /\ IsOk(unflatten(Cardinality(TRows), p.t_blind))
  /\ Len(p.disclosed_values) = CRED_ATTRIBUTES
  /\ Len(p.challenge) = RING_N
  /\ IsOk(unflatten(CRED_L, p.z_r)) /\ IsOk(unflatten(Cardinality(Slots), p.z_m))
  /\ Len(p.z_s) = VEC_WORDS /\ Len(p.z_e) = VEC_WORDS

NativeOf(p) ==
  [disclosed |-> p.disclosed, values |-> p.disclosed_values,
   challenge |-> [of |-> p.transcript, poly |-> ROf(p.challenge)],
   z |-> [r |-> unflatten(CRED_L, p.z_r).ok, m |-> unflatten(Cardinality(Slots), p.z_m).ok,
          s |-> VecOf(p.z_s), e |-> VecOf(p.z_e)]]

(* A mutation: the presentation brings its own context.                    *)
saap_verify_presentation_OwnContext(o, params, presentation, projection, tau) ==
  LET proj == projection_from_wit(projection)
  IN  IF ~ IsOk(proj) THEN proj
      ELSE IF ~ IsPresentation(presentation) THEN Err("InvalidInputLength")
      ELSE Ok(verify_presentation(o, params, NativeOf(presentation),
                unflatten(Cardinality(TRows), presentation.t_blind).ok, proj.ok, presentation.tau))

saap_verify_presentation(o, params, presentation, projection, tau) ==
  LET proj == projection_from_wit(projection)
  IN  IF presentation.tau # tau THEN Ok(FALSE)
      ELSE IF ~ IsOk(proj) THEN proj
      ELSE IF ~ IsPresentation(presentation) THEN Err("InvalidInputLength")
      ELSE Ok(verify_presentation(o, params, NativeOf(presentation),
                unflatten(Cardinality(TRows), presentation.t_blind).ok, proj.ok, tau))
=============================================================================
