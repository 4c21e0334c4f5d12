------------------------------ MODULE Signing ------------------------------
(***************************************************************************)
(* Identities (src/src/signing.rs): one entropy input gives a PLP seed and *)
(* an ML-DSA-65 key pair; signatures are separated by purpose; an identity *)
(* is kept at rest as its entropy, sealed under a caller's key.            *)
(*                                                                         *)
(* Outputs of SHAKE-256 stand for what is absorbed.  A signature stands    *)
(* for key, context and message, an AEAD ciphertext for all its inputs:    *)
(* what the crates pqc_sig and chacha20poly1305 promise.                   *)
(***************************************************************************)
EXTENDS Integers, Outcome

CONSTANTS
  Length(_),    \* length of a byte string
  PlpSeed(_),   \* the first 32 bytes of the key generation stream
  NoPurpose     \* the empty context string

ASSUME PurposeAssumption == Length(NoPurpose) = 0

MIN_ENTROPY_BYTES   == 32
MIN_SEAL_KEY_BYTES  == 32
MAX_CONTEXT_LEN     == 255
-----------------------------------------------------------------------------
(* The key pair comes off the same stream, after the PLP seed.             *)
KeyPair(entropy) == [secret |-> <<"ml-dsa", entropy>>, public |-> <<"ml-dsa public", entropy>>]

(* A mutation: short entropy is accepted.                                  *)
generate_AnyLength(entropy) ==
  Ok([keypair |-> KeyPair(entropy), plp_seed |-> PlpSeed(entropy), entropy |-> entropy])

generate(entropy) ==
  IF Length(entropy) < MIN_ENTROPY_BYTES THEN Err("InvalidInputLength")
  ELSE Ok([keypair |-> KeyPair(entropy), plp_seed |-> PlpSeed(entropy), entropy |-> entropy])

public_key(identity) == identity.keypair.public

(* FIPS 204, deterministic variant, pure mode with a context string.       *)
Signature(public, context, message) == [by |-> public, context |-> context, message |-> message]

sign(identity, message) == Ok(Signature(public_key(identity), NoPurpose, message))

(* A mutation: the purpose is checked but not signed.                      *)
sign_with_purpose_Unbound(identity, purpose, message) ==
  IF Length(purpose) > MAX_CONTEXT_LEN THEN Err("InvalidInputLength")
  ELSE Ok(Signature(public_key(identity), NoPurpose, message))

sign_with_purpose(identity, purpose, message) ==
  IF Length(purpose) > MAX_CONTEXT_LEN THEN Err("InvalidInputLength")
  ELSE Ok(Signature(public_key(identity), purpose, message))

(* Input that is no key or no signature does not verify; it is no error.   *)
signing_verify(public, message, signature) ==
  Ok(signature = Signature(public, NoPurpose, message))

verify_with_purpose(public, purpose, message, signature) ==
  IF Length(purpose) > MAX_CONTEXT_LEN THEN Err("InvalidInputLength")
  ELSE Ok(signature = Signature(public, purpose, message))

(* The registry; a purpose names one kind of statement, whoever signs it.  *)
RegisteredPurposes ==
  {"aethel-core/plp-present/v1", "aethel-core/credential/v1", "aethel-core/saap/v1",
   "aethel-vault/spend-intent/v1", "aethel-vault/settlement-receipt/v1",
   "aethel-vault/wallet-bind/v1", "aethel-vault/hitl-approval/v1",
   "aethel-auth/login/v1", "aethel-auth/step-up/v1", "aethel-auth/enrol/v1",
   "aethel-auth/succession/v1", "aethel-auth/revocation/v1", "aethel-auth/delegation/v1",
   "aethel-core/agent-receipt/v1"}
-----------------------------------------------------------------------------
(* Sealing.                                                                *)
SEAL_VERSION       == 2
SEAL_TYPE_IDENTITY == "identity"

(* A mutation: the associated data is the version alone, as in version 1.  *)
seal_aad_Untyped(version, type_tag) == <<version>>

seal_aad(version, type_tag) == <<version, type_tag>>

derive_seal_key(key) == <<"key", key>>

(* A mutation: two types with one plaintext get one nonce.                 *)
derive_seal_material_Untyped(key, type_tag, entropy) ==
  [cipher_key |-> derive_seal_key(key), nonce |-> <<"nonce", key, entropy>>]

(* Lengths are absorbed too: nothing else gives the same stream.           *)
derive_seal_material(key, type_tag, entropy) ==
  [cipher_key |-> derive_seal_key(key), nonce |-> <<"nonce", type_tag, key, entropy>>]

(* XChaCha20-Poly1305: decryption is given back the nonce and the          *)
(* associated data and fails unless everything is as it was.               *)
encrypt(cipher_key, nonce, msg, aad) ==
  [cipher_key |-> cipher_key, nonce |-> nonce, msg |-> msg, aad |-> aad]

decrypt(cipher_key, nonce, ciphertext, aad) ==
  IF ciphertext = encrypt(cipher_key, nonce, ciphertext.msg, aad)
  THEN Ok(ciphertext.msg) ELSE Err("SerializationError")

Sealed(key, type_tag, plaintext) ==
  LET material == derive_seal_material(key, type_tag, plaintext)
  IN  [version    |-> SEAL_VERSION,
       nonce      |-> material.nonce,
       ciphertext |-> encrypt(material.cipher_key, material.nonce, plaintext,
                              seal_aad(SEAL_VERSION, type_tag))]

export_sealed(identity, key) ==
  IF Length(key) < MIN_SEAL_KEY_BYTES THEN Err("InvalidInputLength")
  ELSE Ok(Sealed(key, SEAL_TYPE_IDENTITY, identity.entropy))

(* Any other kind of object sealed in the same format.                     *)
seal_as_other_type(key, plaintext) == Sealed(key, "rotation-record", plaintext)

(* Nothing follows the nonce.                                              *)
IsTruncated(sealed) == "ciphertext" \notin DOMAIN sealed

(* A mutation: the associated data is built from the blob's own version.   *)
import_sealed_AnyVersion(sealed, key) ==
  IF Length(key) < MIN_SEAL_KEY_BYTES \/ IsTruncated(sealed) THEN Err("InvalidInputLength")
  ELSE LET entropy == decrypt(derive_seal_key(key), sealed.nonce, sealed.ciphertext,
                              seal_aad(SEAL_VERSION, SEAL_TYPE_IDENTITY))
       IN  IF IsOk(entropy) THEN generate(entropy.ok) ELSE entropy

import_sealed(sealed, key) ==
  IF Length(key) < MIN_SEAL_KEY_BYTES \/ IsTruncated(sealed) THEN Err("InvalidInputLength")
  ELSE IF sealed.version # SEAL_VERSION THEN Err("SerializationError")
  ELSE LET entropy == decrypt(derive_seal_key(key), sealed.nonce, sealed.ciphertext,
                              seal_aad(SEAL_VERSION, SEAL_TYPE_IDENTITY))
       IN  IF IsOk(entropy) THEN generate(entropy.ok) ELSE entropy
=============================================================================
