-------------------------------- MODULE Wire --------------------------------
(***************************************************************************)
(* Projections and proofs outside the library: aethel-plp-1 envelopes      *)
(* (src/src/wire.rs over the codecs of src/src/plp.rs) and the records of  *)
(* the component interface (src/src/component.rs).                         *)
(*                                                                         *)
(* A byte string is the record of what the decoders read in it: the header *)
(* fields and the body, whose 4-byte coefficients are words.  One that     *)
(* ends before the header does has no fields but a length.  A challenge    *)
(* takes its transcript along, which is not on the wire (see PlpCore).     *)
(***************************************************************************)
EXTENDS PlpCore, FiniteSetsExt, Sequences, Outcome

CONSTANTS
  Q,                          \* the modulus
  VEC_WORDS, POLY_WORDS,      \* MODULE_K * RING_N and RING_N
  CHALLENGE_WEIGHT,
  VecWords(_), VecOf(_),      \* the coefficients of a vector, and back
  PolyWords(_), PolyOf(_)

WIRE_MAGIC        == "ATH1"
WIRE_VERSION_PLP1 == 1
Kind              == [Projection |-> 1, Proof |-> 2]

Reduced(words) == \A i \in DOMAIN words : words[i] < Q

IsProjectionBody(body) == "salt" \in DOMAIN body /\ Len(body.public_b) = VEC_WORDS

IsProofBody(body) ==
  /\ "response_z" \in DOMAIN body
  /\ Len(body.commitment_w) = VEC_WORDS
  /\ Len(body.challenge_c) = POLY_WORDS
  /\ Len(body.response_z) = VEC_WORDS

BodyLength(body) ==
  IF "salt" \in DOMAIN body THEN 64 + 4 * Len(body.public_b)
  ELSE 4 * (Len(body.commitment_w) + Len(body.challenge_c) + Len(body.response_z))
-----------------------------------------------------------------------------
(* The records, which are also the bodies.  The matrix is in neither.      *)
projection_to_bytes(proj) ==
  [tau |-> proj.tau, salt |-> proj.salt, public_b |-> VecWords(proj.public_b)]

proof_to_bytes(proof) ==
  [commitment_w |-> VecWords(proof.commitment_w),
   challenge_c  |-> PolyWords(proof.challenge_c.poly), transcript |-> proof.challenge_c.of,
   response_z   |-> VecWords(proof.response_z)]

ProjectionIn(body) == [tau |-> body.tau, salt |-> body.salt, public_b |-> VecOf(body.public_b)]

ProofIn(body) ==
  [commitment_w |-> VecOf(body.commitment_w),
   challenge_c  |-> [of |-> body.transcript, poly |-> PolyOf(body.challenge_c)],
   response_z   |-> VecOf(body.response_z)]

projection_from_bytes(body) ==
  IF ~ IsProjectionBody(body) THEN Err("SerializationError")
  ELSE IF ~ Reduced(body.public_b) THEN Err("CoefficientOutOfRange")
  ELSE Ok(ProjectionIn(body))

Ternary(word) == word \in {0, 1, Q - 1}

(* A challenge is ternary, checked word by word, and has the exact weight. *)
ChallengeError(words) ==
  LET Bad == {i \in DOMAIN words : ~ Ternary(words[i])}
  IN  IF Bad # {} THEN IF words[Min(Bad)] >= Q THEN "CoefficientOutOfRange" ELSE "SerializationError"
      ELSE IF Cardinality({i \in DOMAIN words : words[i] # 0}) # CHALLENGE_WEIGHT
           THEN "SerializationError" ELSE "none"

Words(n) == [1 .. n -> 0 .. Q - 1]

(* Reduced coefficients determine a vector or a polynomial and are         *)
(* determined by it; what the challenge sampler returns can be decoded.    *)
ASSUME CodecAssumption ==
  /\ Q \in Nat \ {0, 1} /\ VEC_WORDS \in Nat /\ POLY_WORDS \in Nat
  /\ \A v \in Vec : VecWords(v) \in Words(VEC_WORDS) /\ VecOf(VecWords(v)) = v
  /\ \A words \in Words(VEC_WORDS) : VecOf(words) \in Vec /\ VecWords(VecOf(words)) = words
  /\ \A c \in ChalPoly : /\ PolyWords(c) \in Words(POLY_WORDS) /\ PolyOf(PolyWords(c)) = c
                         /\ ChallengeError(PolyWords(c)) = "none"
  /\ \A words \in Words(POLY_WORDS) : PolyWords(PolyOf(words)) = words

proof_from_bytes(body) ==
  IF ~ IsProofBody(body) THEN Err("SerializationError")
  ELSE IF ~ Reduced(body.commitment_w) THEN Err("CoefficientOutOfRange")
  ELSE IF ChallengeError(body.challenge_c) # "none" THEN Err(ChallengeError(body.challenge_c))
  ELSE IF ~ Reduced(body.response_z) THEN Err("CoefficientOutOfRange")
  ELSE Ok(ProofIn(body))
-----------------------------------------------------------------------------
(* Envelopes.                                                              *)
encode_envelope(kind, body) ==
  [magic |-> WIRE_MAGIC, version |-> WIRE_VERSION_PLP1, kind |-> kind,
   declared |-> BodyLength(body), body |-> body]

HasHeader(bytes) == "magic" \in DOMAIN bytes

(* A mutation: the declared length is not compared with what is there.     *)
decode_envelope_AnyLength(bytes, expected_kind) ==
  IF ~ HasHeader(bytes) THEN Err("WireLengthMismatch")
  ELSE IF bytes.magic # WIRE_MAGIC THEN Err("WireBadMagic")
  ELSE IF bytes.version # WIRE_VERSION_PLP1 THEN Err("WireBadVersion")
  ELSE IF bytes.kind # expected_kind THEN Err("SerializationError")
  ELSE Ok(bytes.body)

decode_envelope(bytes, expected_kind) ==
  IF ~ HasHeader(bytes) THEN Err("WireLengthMismatch")
  ELSE IF bytes.magic # WIRE_MAGIC THEN Err("WireBadMagic")
  ELSE IF bytes.version # WIRE_VERSION_PLP1 THEN Err("WireBadVersion")
  ELSE IF bytes.kind # expected_kind THEN Err("SerializationError")
  ELSE IF BodyLength(bytes.body) # bytes.declared THEN Err("WireLengthMismatch")
  ELSE Ok(bytes.body)

encode_projection(proj) == encode_envelope(Kind.Projection, projection_to_bytes(proj))
encode_proof(proof)     == encode_envelope(Kind.Proof, proof_to_bytes(proof))

decode_projection(bytes) ==
  LET body == decode_envelope(bytes, Kind.Projection)
  IN  IF IsOk(body) THEN projection_from_bytes(body.ok) ELSE body

decode_proof(bytes) ==
  LET body == decode_envelope(bytes, Kind.Proof)
  IN  IF IsOk(body) THEN proof_from_bytes(body.ok) ELSE body

(* A mutation: the projection brings its own context.                      *)
verify_projection_bytes_CarriedContext(o, projection, proof, context) ==
  LET proj == decode_projection(projection)
      zk   == decode_proof(proof)
  IN  IF ~ IsOk(proj) THEN proj
      ELSE IF ~ IsOk(zk) THEN zk
      ELSE Ok(verify(o, proj.ok, zk.ok))

(* wire::verify_projection: what cannot be decoded is an error, what does  *)
(* not verify at the verifier's own context is a negative answer.          *)
verify_projection_bytes(o, projection, proof, context) ==
  LET proj == decode_projection(projection)
      zk   == decode_proof(proof)
  IN  IF ~ IsOk(proj) THEN proj
      ELSE IF ~ IsOk(zk) THEN zk
      ELSE Ok(proj.ok.tau = Pad(context) /\ verify(o, proj.ok, zk.ok))
-----------------------------------------------------------------------------
(* The component's records.  Their challenge is any reduced polynomial.    *)
projection_from_wit(p) ==
  IF ~ IsProjectionBody(p) \/ ~ Reduced(p.public_b) THEN Err("SerializationError")
  ELSE Ok(ProjectionIn(p))

zk_proof_from_wit(p) ==
  IF ~ IsProofBody(p) \/ ~ (Reduced(p.commitment_w) /\ Reduced(p.challenge_c) /\ Reduced(p.response_z))
  THEN Err("SerializationError") ELSE Ok(ProofIn(p))

plp_verify(o, projection, proof) ==
  LET proj == projection_from_wit(projection)
      zk   == zk_proof_from_wit(proof)
  IN  IF ~ IsOk(proj) THEN proj
      ELSE IF ~ IsOk(zk) THEN zk
      ELSE Ok(verify(o, proj.ok, zk.ok))

plp_verify_bytes(o, projection, proof, context) ==
  ToWit(verify_projection_bytes(o, projection, proof, context))

EmptyBytes == [length |-> 0]

(* Encoding has no error: a malformed record gives the empty string.       *)
encode_wit_projection(p) ==
  LET proj == projection_from_wit(p) IN IF IsOk(proj) THEN encode_projection(proj.ok) ELSE EmptyBytes

encode_wit_proof(p) ==
  LET zk == zk_proof_from_wit(p) IN IF IsOk(zk) THEN encode_proof(zk.ok) ELSE EmptyBytes
=============================================================================
