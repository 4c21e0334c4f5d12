----------------------------- MODULE Component -----------------------------
(***************************************************************************)
(* The component (src/src/component.rs) as a host drives it: identities    *)
(* and a credential live behind handles, and everything a call returns may *)
(* be kept, combined, altered and handed back in any order.  A call that   *)
(* returns an error changes nothing and is not a step.                     *)
(***************************************************************************)
EXTENDS Exports

CONSTANTS
  Handle,             \* bound: identities alive at a time
  Entropy, Key, RawSecret, IssuerSeed,     \* byte strings the host passes
  Purpose, Message,
  Within(_, _)        \* bound: the calls whose values the host keeps

(* Byte strings have lengths; a seed of the length that is asked for is    *)
(* somebody's: of a holder, or of an issuer.                               *)
ASSUME InputAssumption ==
  /\ \A bytes \in UNION {Entropy, Key, Purpose, RawSecret, IssuerSeed, Randomness} : Length(bytes) \in Nat
  /\ \A rho \in Randomness : rho \in LongEnough <=> Length(rho) >= 32
  /\ \A entropy \in Entropy : Length(entropy) >= MIN_ENTROPY_BYTES => PlpSeed(entropy) \in Identity
  /\ \A secret \in RawSecret : Length(secret) = 32 => secret \in Identity
  /\ \A seed \in IssuerSeed : Length(seed) >= 32 => PublicSeed(seed) \in Issuer

VARIABLES
  oracle,      \* which functions the hash derivations are; never changes
  identity,    \* what an identity handle owns
  credential,  \* what the credential handle owns, with the inputs of issuing
  returned     \* values handed to the host, with the call that returned them

vars == <<oracle, identity, credential, returned>>

Live == {h \in Handle : identity[h] # None}

Calls == {r.call : r \in returned}

Returns(call, result) ==
  /\ Within(credential, Calls \cup {call})
  /\ IsOk(result)
  /\ returned' = returned \cup {[call |-> call, value |-> result.ok]}
  /\ UNCHANGED <<oracle, identity, credential>>

Create(h, result) ==
  /\ identity[h] = None
  /\ IsOk(result)
  /\ identity' = [identity EXCEPT ![h] = result.ok]
  /\ UNCHANGED <<oracle, credential, returned>>

ReturnedBy(op) == {r \in returned : r.call.op = op}
-----------------------------------------------------------------------------
Generate(h, entropy) == Create(h, generate(entropy))

(* What a host can make of sealed blobs: parts of one or of two, with      *)
(* either version, or one cut short.                                       *)
Blobs ==
  LET sealed == {r.value : r \in ReturnedBy("seal")}
  IN  [version : {1, SEAL_VERSION}, nonce : {b.nonce : b \in sealed},
       ciphertext : {b.ciphertext : b \in sealed}]
      \cup {[version |-> b.version, nonce |-> b.nonce] : b \in sealed}

Import(h, blob, key) == Create(h, import_sealed(blob, key))

Drop(h) ==
  /\ h \in Live
  /\ identity' = [identity EXCEPT ![h] = None]
  /\ UNCHANGED <<oracle, credential, returned>>

Export(h, key) ==
  Returns([op |-> "seal", type |-> SEAL_TYPE_IDENTITY, key |-> key, content |-> identity[h].entropy],
          export_sealed(identity[h], key))

(* Another product sealing its own objects under the same key.             *)
SealOther(plaintext, key) ==
  Returns([op |-> "seal", type |-> "rotation-record", key |-> key, content |-> plaintext],
          Ok(seal_as_other_type(key, plaintext)))

Sign(h, message) ==
  Returns([op |-> "sign", by |-> public_key(identity[h]), purpose |-> NoPurpose, message |-> message],
          sign(identity[h], message))

SignWithPurpose(h, purpose, message) ==
  Returns([op |-> "sign", by |-> public_key(identity[h]), purpose |-> purpose, message |-> message],
          sign_with_purpose(identity[h], purpose, message))

(* By a handle, or by the stateless export from a raw secret.              *)
Project(secret, tau, rho) ==
  Returns([op |-> "project", by |-> secret, ctx |-> tau, rho |-> rho],
          plp_project_at_context(oracle, secret, tau, rho))

Prove(secret, tau, rho) ==
  Returns([op |-> "prove", by |-> secret, ctx |-> tau, rho |-> rho],
          plp_prove_identity(oracle, secret, tau, rho))

Issue(h, issuer_seed, attributes, rand) ==
  LET owned == credential_issue(oracle, identity[h], issuer_seed, attributes, rand)
  IN  /\ credential = None
      /\ IsOk(owned)
      /\ Within(owned.ok, Calls)
      /\ credential' = [owned |-> owned.ok, to |-> identity[h].plp_seed, attributes |-> attributes]
      /\ UNCHANGED <<oracle, identity, returned>>

DropCredential ==
  /\ credential # None
  /\ credential' = None
  /\ UNCHANGED <<oracle, identity, returned>>

Present(h, tau, rho, disclosed, blinding, rand) ==
  /\ credential # None
  /\ Returns([op |-> "present", by |-> identity[h].plp_seed, ctx |-> tau, rho |-> rho,
              disclosed |-> disclosed, cred |-> credential],
             present(oracle, credential.owned, identity[h], tau, rho, disclosed, blinding, rand))

Init ==
  /\ oracle \in Oracle
  /\ identity = [h \in Handle |-> None]
  /\ credential = None
  /\ returned = {}

Secrets == {identity[h].plp_seed : h \in Live} \cup RawSecret

Next ==
  \/ \E h \in Handle, entropy \in Entropy : Generate(h, entropy)
  \/ \E h \in Handle, blob \in Blobs, key \in Key : Import(h, blob, key)
  \/ \E h \in Live : Drop(h)
  \/ \E h \in Live, key \in Key : Export(h, key)
  \/ \E plaintext \in Entropy, key \in Key : SealOther(plaintext, key)
  \/ \E h \in Live, message \in Message : Sign(h, message)
  \/ \E h \in Live, purpose \in Purpose, message \in Message : SignWithPurpose(h, purpose, message)
  \/ \E secret \in Secrets, tau \in Context, rho \in Randomness : Project(secret, tau, rho)
  \/ \E secret \in Secrets, tau \in Context, rho \in Randomness : Prove(secret, tau, rho)
  \/ \E h \in Live, seed \in IssuerSeed, attributes \in BoundedSeq(Value, CRED_ATTRIBUTES + 1), rand \in Randomness :
       Issue(h, seed, attributes, rand)
  \/ DropCredential
  \/ \E h \in Live, tau \in Context, rho \in Randomness, disclosed \in SUBSET Attributes,
        blinding \in Randomness, rand \in Randomness :
       Present(h, tau, rho, disclosed, blinding, rand)

Spec == Init /\ [][Next]_vars
-----------------------------------------------------------------------------
(***************************************************************************)
(* Properties.                                                             *)
(***************************************************************************)
TypeOK ==
  /\ oracle \in Oracle
  /\ \A h \in Live :
       /\ Length(identity[h].entropy) >= MIN_ENTROPY_BYTES
       /\ identity[h] = generate(identity[h].entropy).ok
  /\ credential # None =>
       /\ credential.owned.params \in Issuer
       /\ Len(credential.attributes) = CRED_ATTRIBUTES
  /\ \A r \in ReturnedBy("project") : IsProjectionBody(r.value) /\ r.call.rho \in LongEnough
  /\ \A r \in ReturnedBy("prove") : IsProofBody(r.value) /\ r.call.rho \in LongEnough
  /\ \A r \in ReturnedBy("present") : IsPresentation(r.value) /\ r.call.rho \in LongEnough

(* The cipher is a stream cipher: two blobs under one cipher key that      *)
(* share a nonce must be one message under one header, whatever kinds of   *)
(* object share the host's key (comment on derive_seal_material).          *)
NonceDeterminesMessage ==
  \A r1, r2 \in ReturnedBy("seal") :
    LET c1 == r1.value.ciphertext
        c2 == r2.value.ciphertext
    IN  c1.cipher_key = c2.cipher_key /\ c1.nonce = c2.nonce => c1 = c2

(* However blobs are taken apart, mixed, relabelled or cut, one opens only *)
(* if it is an identity that was sealed under this key, and then as the    *)
(* identity it was.                                                        *)
OpensOnlyAsSealed ==
  \A blob \in Blobs, key \in Key :
    LET opened  == import_sealed(blob, key)
        Origins == {r \in ReturnedBy("seal") : r.value = blob /\ r.call.key = key
                                               /\ r.call.type = SEAL_TYPE_IDENTITY}
    IN  /\ IsOk(opened) <=> Origins # {}
        /\ \A r \in Origins : opened = generate(r.call.content)

(* A signature verifies for the key, the message and the purpose it was    *)
(* made for; without a purpose means the empty one.                        *)
SignatureNamesPurpose ==
  \A r \in ReturnedBy("sign"), entropy \in Entropy, message \in Message :
    LET public == KeyPair(entropy).public
        Made(purpose) == r.call.by = public /\ r.call.message = message /\ r.call.purpose = purpose
    IN  /\ signing_verify(public, message, r.value) = Ok(Made(NoPurpose))
        /\ \A purpose \in Purpose \cup registered_purposes :
             verify_with_purpose(public, purpose, message, r.value) = Ok(TRUE) <=> Made(purpose)

(* Coefficients that are too large by a multiple of q, too many or too few, *)
(* or that are others.                                                     *)
OtherForms(words) ==
  {[words EXCEPT ![i] = @ + Q] : i \in DOMAIN words} \cup {Append(words, 0), Front(words)}

AlteredWords(words) == OtherForms(words) \cup {[words EXCEPT ![i] = @ + 1] : i \in DOMAIN words}

(* That no other response satisfies the equation up to its tolerance rests *)
(* on the lattice, which a small instance does not have.                   *)

AlteredBodies(body) ==
  IF "salt" \in DOMAIN body
  THEN {[body EXCEPT !.public_b = words] : words \in AlteredWords(body.public_b)}
       \cup {[body EXCEPT !.tau = tag] : tag \in Tag}
  ELSE {[body EXCEPT !.commitment_w = words] : words \in AlteredWords(body.commitment_w)}
       \cup {[body EXCEPT !.challenge_c = words] : words \in AlteredWords(body.challenge_c)}
       \cup {[body EXCEPT !.response_z = words] : words \in OtherForms(body.response_z)}

AlteredBytes(bytes) ==
  {EmptyBytes, [bytes EXCEPT !.magic = "????"], [bytes EXCEPT !.version = 2],
   [bytes EXCEPT !.kind = 3 - @], [bytes EXCEPT !.declared = @ + 4]}
  \cup {[bytes EXCEPT !.body = body] : body \in AlteredBodies(bytes.body)}
  \cup {encode_envelope(bytes.kind, body) : body \in AlteredBodies(bytes.body)}

(* Pairs of which at most one was altered.                                 *)
Pairs(a, alteredA, b, alteredB) == ({a} \X alteredB) \cup (alteredA \X {b}) \cup {<<a, b>>}

(* The only bytes a verifier accepts with a proof are the encodings of it  *)
(* and of the projection it was made for, at a context of that tag: there  *)
(* is no second form of either, and this pair is accepted.  What cannot be *)
(* decoded is an error the component's interface has a name for.           *)
AcceptedBytesAreEncodings ==
  \A projected \in ReturnedBy("project"), proved \in ReturnedBy("prove") :
    LET proj == encode_wit_projection(projected.value)
        zk   == encode_wit_proof(proved.value)
        in   == proved.call
        own  == checked_project_at_context(oracle, in.by, in.ctx, in.rho).ok
    IN  \A bytes \in Pairs(proj, AlteredBytes(proj), zk, AlteredBytes(zk)), ctx \in Context :
          LET verdict == plp_verify_bytes(oracle, bytes[1], bytes[2], ctx)
          IN  /\ verdict = Ok(TRUE) <=>
                   bytes = <<encode_wit_projection(own), zk>> /\ Pad(ctx) = Pad(in.ctx)
              /\ IsOk(verdict) \/ verdict.error \in WitErrors

(* The two ways to verify agree: records are accepted, altered or not, if  *)
(* and only if their encodings are, at the context the records carry.      *)
BytesAgreeWithRecords ==
  \A projected \in ReturnedBy("project"), proved \in ReturnedBy("prove") :
    LET p == projected.value
        z == proved.value
    IN  \A records \in Pairs(p, AlteredBodies(p), z, AlteredBodies(z)), ctx \in Context :
          plp_verify_bytes(oracle, encode_wit_projection(records[1]), encode_wit_proof(records[2]), ctx)
              = Ok(TRUE)
            <=> plp_verify(oracle, records[1], records[2]) = Ok(TRUE) /\ records[1].tau = Pad(ctx)

AlteredPresentations(p) ==
  {[p EXCEPT !.disclosed = attributes] : attributes \in SUBSET Attributes}
  \cup {[p EXCEPT !.disclosed_values = values] : values \in BoundedSeq(Value \cup {0}, CRED_ATTRIBUTES + 1)}
  \cup {[p EXCEPT !.t_blind = words] : words \in AlteredWords(p.t_blind)}
  \cup {[p EXCEPT !.z_m = words] : words \in {Append(p.z_m, 0), Front(p.z_m)}}

ProjectionOf(by, ctx, rho) == projection_to_bytes(project_at_context(oracle, by, ctx, rho))

(* A presentation is accepted for the context the verifier names, byte for *)
(* byte, the projection of the same call and the issuer's public seed, not *)
(* the secret one taken for it; and only if the holder's secret is the one *)
(* the credential was issued to.  It cannot be altered into another one.   *)
PresentationBound ==
  \A r \in ReturnedBy("present") :
    /\ \A issuer \in Issuer, tau, ctx \in Context, by \in Identity, rho \in LongEnough :
         saap_verify_presentation(oracle, issuer, r.value, ProjectionOf(by, ctx, rho), tau) = Ok(TRUE) <=>
           /\ issuer = r.call.cred.owned.params /\ tau = r.call.ctx
           /\ ProjectionOf(by, ctx, rho) = ProjectionOf(r.call.by, r.call.ctx, r.call.rho)
           /\ First(SecretOf(oracle, r.call.by)) = First(SecretOf(oracle, r.call.cred.to))
    /\ \A p \in AlteredPresentations(r.value) :
         saap_verify_presentation(oracle, r.call.cred.owned.params, p,
                                  ProjectionOf(r.call.by, r.call.ctx, r.call.rho), r.call.ctx) = Ok(TRUE)
           => p = r.value
=============================================================================
