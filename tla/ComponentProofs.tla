-------------------------- MODULE ComponentProofs --------------------------
(***************************************************************************)
(* Proofs about Component: what the values a host holds say, however the   *)
(* calls that returned them were ordered.                                  *)
(***************************************************************************)
EXTENDS Component, CredentialLemmas, WellFoundedInduction, FiniteSetTheorems

(* Every set of natural numbers has a least member: induction, in the form *)
(* of a set of counterexamples.                                            *)
LEMMA LeastNatural ==
  ASSUME NEW S, S \subseteq Nat, S # {}
  PROVE  \E i \in S : \A j \in S : i <= j
<1> DEFINE lt == OpToRel(<, Nat)
<1>1. \E i \in S : \A j \in S : ~ (<<j, i>> \in lt)
  BY NatLessThanWellFounded, WFMin
<1>2. \A i, j \in S : <<j, i>> \in lt <=> j < i
  BY DEF OpToRel
<1> HIDE DEF lt
<1>3. PICK i \in S : \A j \in S : ~ (j < i)
  BY <1>1, <1>2, Zenon
<1>4. \A j \in S : i <= j
  BY <1>3
<1> QED
  BY <1>4

(* FirstOf returns the least member of any set of attempts.                *)
LEMMA FirstOfLeast ==
  ASSUME NEW S, S \subseteq Nat, S # {}
  PROVE  FirstOf(S) \in S /\ \A j \in S : FirstOf(S) <= j
  BY LeastNatural DEF FirstOf
-----------------------------------------------------------------------------
(***************************************************************************)
(* The inductive invariant.  An identity is one that generate returns for  *)
(* its entropy; a returned value is what its call computes.                *)
(***************************************************************************)
LongEntropy == {entropy \in Entropy : Length(entropy) >= MIN_ENTROPY_BYTES}

IdentityInv == identity \in [Handle -> {generate(entropy).ok : entropy \in LongEntropy} \cup {None}]

CredentialInv(c) ==
  /\ c.owned.params \in Issuer /\ c.to \in Identity
  /\ Len(c.attributes) = CRED_ATTRIBUTES
  /\ c.attributes \in [Attributes -> Value]
  /\ \E rand \in LongEnough :
       c.owned.credential = issue(oracle, c.owned.params, c.to, c.attributes, rand)

(* A host's key and a plaintext give one blob; identities are sealed under *)
(* keys that are long enough, with entropy that is.                        *)
SealInv(r) ==
  /\ r.call.key \in Key /\ r.call.content \in Entropy
  /\ r.value = Sealed(r.call.key, r.call.type, r.call.content)
  /\ r.call.type = SEAL_TYPE_IDENTITY =>
       Length(r.call.key) >= MIN_SEAL_KEY_BYTES /\ Length(r.call.content) >= MIN_ENTROPY_BYTES

SignInv(r) ==
  /\ r.value = Signature(r.call.by, r.call.purpose, r.call.message)
  /\ ~ (Length(r.call.purpose) > MAX_CONTEXT_LEN)

InputsInv(c) == c.by \in Identity /\ c.ctx \in Context /\ c.rho \in LongEnough

ProjectInv(r) ==
  /\ InputsInv(r.call)
  /\ r.value = projection_to_bytes(project_at_context(oracle, r.call.by, r.call.ctx, r.call.rho))

ProveInv(r) ==
  /\ InputsInv(r.call)
  /\ IsOk(prove_identity(oracle, r.call.by, r.call.ctx, r.call.rho))
  /\ r.value = prove_identity(oracle, r.call.by, r.call.ctx, r.call.rho).ok

Presented(c, blinding, rand) ==
  present(oracle, c.cred.owned, [plp_seed |-> c.by], c.ctx, c.rho, c.disclosed, blinding, rand)

PresentInv(r) ==
  /\ InputsInv(r.call)
  /\ r.call.disclosed \subseteq Attributes
  /\ CredentialInv(r.call.cred)
  /\ \E blinding \in LongEnough, rand \in LongEnough :
       /\ IsOk(Presented(r.call, blinding, rand))
       /\ r.value = Presented(r.call, blinding, rand).ok

ReturnInv(r) ==
  /\ r.call.op = "seal"    => SealInv(r)
  /\ r.call.op = "sign"    => SignInv(r)
  /\ r.call.op = "project" => ProjectInv(r)
  /\ r.call.op = "prove"   => ProveInv(r)
  /\ r.call.op = "present" => PresentInv(r)

IInv ==
  /\ oracle \in Oracle
  /\ IdentityInv
  /\ credential # None => CredentialInv(credential)
  /\ \A r \in returned : ReturnInv(r)

(* What an invariant of a return says depends on nothing that changes.     *)
LEMMA Frame ==
  ASSUME oracle' = oracle
  PROVE  /\ \A c : CredentialInv(c)' <=> CredentialInv(c)
         /\ \A r : ReturnInv(r)' <=> ReturnInv(r)
<1>1. ASSUME NEW c PROVE CredentialInv(c)' <=> CredentialInv(c)
  BY DEF CredentialInv
<1>2. ASSUME NEW c, NEW blinding, NEW rand
      PROVE  Presented(c, blinding, rand)' = Presented(c, blinding, rand)
  BY DEF Presented
<1>3. ASSUME NEW r PROVE ReturnInv(r)' <=> ReturnInv(r)
  BY <1>1, <1>2 DEF ReturnInv, SealInv, SignInv, ProjectInv, ProveInv, PresentInv, InputsInv
<1> QED
  BY <1>1, <1>3

LEMMA GeneratedFacts ==
  ASSUME NEW entropy
  PROVE  /\ IsOk(generate(entropy)) <=> ~ (Length(entropy) < MIN_ENTROPY_BYTES)
         /\ IsOk(generate(entropy)) =>
              /\ generate(entropy).ok.entropy = entropy
              /\ generate(entropy).ok.plp_seed = PlpSeed(entropy)
              /\ generate(entropy).ok.keypair = KeyPair(entropy)
  BY DEF generate, IsOk, Ok, Err

(* What a live handle owns.                                                *)
LEMMA LiveFacts ==
  ASSUME IInv, NEW h \in Live
  PROVE  /\ identity[h].entropy \in LongEntropy
         /\ identity[h] = generate(identity[h].entropy).ok
         /\ identity[h].plp_seed \in Identity
<1>1. h \in Handle /\ identity[h] # None
  BY DEF Live
<1>2. PICK entropy \in LongEntropy : identity[h] = generate(entropy).ok
  BY <1>1 DEF IInv, IdentityInv
<1>3. entropy \in Entropy /\ Length(entropy) \in Nat /\ Length(entropy) >= MIN_ENTROPY_BYTES
  BY InputAssumption DEF LongEntropy
<1>4. IsOk(generate(entropy))
  BY <1>3, GeneratedFacts DEF MIN_ENTROPY_BYTES
<1>5. identity[h].entropy = entropy /\ identity[h].plp_seed = PlpSeed(entropy)
  BY <1>2, <1>4, GeneratedFacts
<1> QED
  BY <1>2, <1>3, <1>5, InputAssumption
-----------------------------------------------------------------------------
(* Steps.  Three kinds: an identity is created, one is dropped, or a call  *)
(* returns a value; what each call returns satisfies its part.             *)

LEMMA ReturnsStep ==
  ASSUME IInv, NEW call, NEW result, Returns(call, result),
         IsOk(result) => ReturnInv([call |-> call, value |-> result.ok])
  PROVE  IInv'
<1> DEFINE new == [call |-> call, value |-> result.ok]
<1>1. /\ oracle' = oracle /\ identity' = identity /\ credential' = credential
      /\ returned' = returned \cup {new} /\ IsOk(result)
  BY DEF Returns
<1>2. ReturnInv(new)
  BY <1>1
<1> HIDE DEF new
<1>3. \A r \in returned' : ReturnInv(r)
  BY <1>1, <1>2 DEF IInv
<1>4. \A r \in returned' : ReturnInv(r)'
  BY <1>1, <1>3, Frame
<1>5. credential' # None => CredentialInv(credential')
  BY <1>1 DEF IInv
<1>6. credential' # None => CredentialInv(credential)'
  BY <1>1, <1>5, Frame
<1> QED
  BY <1>1, <1>4, <1>6 DEF IInv, IdentityInv

LEMMA IdentityStep ==
  ASSUME IInv, IdentityInv', UNCHANGED <<oracle, credential, returned>>
  PROVE  IInv'
<1>1. \A r \in returned' : ReturnInv(r)'
  BY Frame DEF IInv
<1>2. credential' # None => CredentialInv(credential)'
  BY Frame DEF IInv
<1> QED
  BY <1>1, <1>2 DEF IInv

(* Whatever is created comes from generate.                                *)
LEMMA CreateStep ==
  ASSUME IInv, NEW h \in Handle, NEW result, Create(h, result),
         IsOk(result) => \E entropy \in LongEntropy : result = generate(entropy)
  PROVE  IInv'
<1>1. PICK entropy \in LongEntropy : result = generate(entropy)
  BY DEF Create
<1>2. IdentityInv'
  BY <1>1 DEF Create, IInv, IdentityInv
<1> QED
  BY <1>2, IdentityStep DEF Create

LEMMA GenerateStep ==
  ASSUME IInv, NEW h \in Handle, NEW entropy \in Entropy, Generate(h, entropy)
  PROVE  IInv'
<1>1. Length(entropy) \in Nat
  BY InputAssumption
<1>2. IsOk(generate(entropy)) => entropy \in LongEntropy
  BY <1>1, GeneratedFacts DEF LongEntropy, MIN_ENTROPY_BYTES
<1> QED
  BY <1>2, CreateStep DEF Generate

LEMMA DropStep ==
  ASSUME IInv, NEW h \in Live, Drop(h)
  PROVE  IInv'
<1>1. IdentityInv'
  BY DEF Drop, IInv, IdentityInv
<1> QED
  BY <1>1, IdentityStep DEF Drop

LEMMA ExportStep ==
  ASSUME IInv, NEW h \in Live, NEW key \in Key, Export(h, key)
  PROVE  IInv'
<1> DEFINE call == [op |-> "seal", type |-> SEAL_TYPE_IDENTITY, key |-> key,
                    content |-> identity[h].entropy]
           result == export_sealed(identity[h], key)
<1>1. identity[h].entropy \in LongEntropy
  BY LiveFacts
<1>2. Length(key) \in Nat
  BY InputAssumption
<1>3. IsOk(result) => /\ result.ok = Sealed(key, SEAL_TYPE_IDENTITY, identity[h].entropy)
                      /\ Length(key) >= MIN_SEAL_KEY_BYTES
  BY <1>2 DEF export_sealed, IsOk, Ok, Err, MIN_SEAL_KEY_BYTES
<1>4. IsOk(result) => SealInv([call |-> call, value |-> result.ok])
  BY <1>1, <1>3 DEF SealInv, LongEntropy
<1>5. IsOk(result) => ReturnInv([call |-> call, value |-> result.ok])
  BY <1>4 DEF ReturnInv
<1> QED
  BY <1>5, ReturnsStep DEF Export

LEMMA SealOtherStep ==
  ASSUME IInv, NEW plaintext \in Entropy, NEW key \in Key, SealOther(plaintext, key)
  PROVE  IInv'
<1> DEFINE call == [op |-> "seal", type |-> "rotation-record", key |-> key, content |-> plaintext]
           result == Ok(seal_as_other_type(key, plaintext))
<1>1. SealInv([call |-> call, value |-> result.ok])
  BY DEF SealInv, Ok, seal_as_other_type, SEAL_TYPE_IDENTITY
<1>2. ReturnInv([call |-> call, value |-> result.ok])
  BY <1>1 DEF ReturnInv
<1> QED
  BY <1>2, ReturnsStep DEF SealOther

LEMMA SignStep ==
  ASSUME IInv, NEW h \in Live, NEW message \in Message, Sign(h, message)
  PROVE  IInv'
<1> DEFINE call == [op |-> "sign", by |-> public_key(identity[h]), purpose |-> NoPurpose,
                    message |-> message]
           result == sign(identity[h], message)
<1>1. SignInv([call |-> call, value |-> result.ok])
  BY PurposeAssumption DEF SignInv, sign, Ok, MAX_CONTEXT_LEN
<1>2. ReturnInv([call |-> call, value |-> result.ok])
  BY <1>1 DEF ReturnInv
<1> QED
  BY <1>2, ReturnsStep DEF Sign

LEMMA SignWithPurposeStep ==
  ASSUME IInv, NEW h \in Live, NEW purpose \in Purpose, NEW message \in Message,
         SignWithPurpose(h, purpose, message)
  PROVE  IInv'
<1> DEFINE call == [op |-> "sign", by |-> public_key(identity[h]), purpose |-> purpose,
                    message |-> message]
           result == sign_with_purpose(identity[h], purpose, message)
<1>1. IsOk(result) => SignInv([call |-> call, value |-> result.ok])
  BY DEF SignInv, sign_with_purpose, IsOk, Ok, Err
<1>2. IsOk(result) => ReturnInv([call |-> call, value |-> result.ok])
  BY <1>1 DEF ReturnInv
<1> QED
  BY <1>2, ReturnsStep DEF SignWithPurpose
-----------------------------------------------------------------------------
(* What opens.  A blob is a record of a version, a nonce and a ciphertext, *)
(* or it is cut short and opens never.                                     *)
LEMMA BlobCases ==
  ASSUME NEW blob \in Blobs
  PROVE  \/ IsTruncated(blob)
         \/ \E r \in ReturnedBy("seal") :
              /\ blob = [version |-> blob.version, nonce |-> blob.nonce, ciphertext |-> r.value.ciphertext]
              /\ ~ IsTruncated(blob)
<1> DEFINE sealed == {r.value : r \in ReturnedBy("seal")}
<1>1. CASE blob \in [version : {1, SEAL_VERSION}, nonce : {b.nonce : b \in sealed},
                     ciphertext : {b.ciphertext : b \in sealed}]
  <2>1. blob = [version |-> blob.version, nonce |-> blob.nonce, ciphertext |-> blob.ciphertext]
    BY <1>1
  <2>2. PICK r \in ReturnedBy("seal") : blob.ciphertext = r.value.ciphertext
    BY <1>1
  <2>3. "ciphertext" \in DOMAIN blob
    BY <1>1
  <2> QED
    BY <2>1, <2>2, <2>3 DEF IsTruncated
<1>2. CASE blob \in {[version |-> b.version, nonce |-> b.nonce] : b \in sealed}
  BY <1>2 DEF IsTruncated
<1> QED
  BY <1>1, <1>2 DEF Blobs

LEMMA SealedFields ==
  ASSUME NEW key, NEW type, NEW content
  PROVE  /\ Sealed(key, type, content)
              = [version |-> SEAL_VERSION, nonce |-> <<"nonce", type, key, content>>,
                 ciphertext |-> Sealed(key, type, content).ciphertext]
         /\ Sealed(key, type, content).version = SEAL_VERSION
         /\ Sealed(key, type, content).nonce = <<"nonce", type, key, content>>
         /\ Sealed(key, type, content).ciphertext
              = encrypt(<<"key", key>>, <<"nonce", type, key, content>>, content, <<SEAL_VERSION, type>>)
         /\ ~ IsTruncated(Sealed(key, type, content))
  BY DEF Sealed, derive_seal_material, derive_seal_key, seal_aad, IsTruncated

LEMMA EncryptInjective ==
  ASSUME NEW k1, NEW n1, NEW m1, NEW a1, NEW k2, NEW n2, NEW m2, NEW a2,
         encrypt(k1, n1, m1, a1) = encrypt(k2, n2, m2, a2)
  PROVE  k1 = k2 /\ n1 = n2 /\ m1 = m2 /\ a1 = a2
<1> DEFINE c == encrypt(k1, n1, m1, a1)
           d == encrypt(k2, n2, m2, a2)
<1>1. c.cipher_key = k1 /\ c.nonce = n1 /\ c.msg = m1 /\ c.aad = a1
  BY DEF encrypt
<1>2. d.cipher_key = k2 /\ d.nonce = n2 /\ d.msg = m2 /\ d.aad = a2
  BY DEF encrypt
<1>3. c = d
  OBVIOUS
<1> HIDE DEF c, d
<1> QED
  BY <1>1, <1>2, <1>3

(* A blob that opens under a key is one that was sealed under it, as an    *)
(* identity.                                                               *)
LEMMA OpenedWasSealed ==
  ASSUME IInv, NEW blob \in Blobs, NEW key, IsOk(import_sealed(blob, key))
  PROVE  \E r \in ReturnedBy("seal") :
           /\ r.value = blob /\ r.call.key = key /\ r.call.type = SEAL_TYPE_IDENTITY
           /\ import_sealed(blob, key) = generate(r.call.content)
<1>1. ~ IsTruncated(blob) /\ blob.version = SEAL_VERSION
  BY DEF import_sealed, IsOk, Err
<1>2. PICK r \in ReturnedBy("seal") :
        blob = [version |-> blob.version, nonce |-> blob.nonce, ciphertext |-> r.value.ciphertext]
  BY <1>1, BlobCases
<1> DEFINE k == r.call.key
           type == r.call.type
           content == r.call.content
           ct == r.value.ciphertext
           aad == seal_aad(SEAL_VERSION, SEAL_TYPE_IDENTITY)
           opened == decrypt(derive_seal_key(key), blob.nonce, ct, aad)
<1>3. r.value = Sealed(k, type, content)
  BY DEF IInv, ReturnInv, SealInv, ReturnedBy
<1>4. ct = encrypt(<<"key", k>>, <<"nonce", type, k, content>>, content, <<SEAL_VERSION, type>>)
  BY <1>3, SealedFields
<1>5. blob.ciphertext = ct
  BY <1>2
<1>6. import_sealed(blob, key) = IF IsOk(opened) THEN generate(opened.ok) ELSE opened
  <2>1. ~ (Length(key) < MIN_SEAL_KEY_BYTES \/ IsTruncated(blob))
    BY DEF import_sealed, IsOk, Err
  <2> QED
    BY <1>1, <1>5, <2>1 DEF import_sealed
<1>7. IsOk(opened)
  BY <1>6
<1>8. /\ ct = encrypt(derive_seal_key(key), blob.nonce, ct.msg, aad)
      /\ opened = Ok(ct.msg)
  BY <1>7 DEF decrypt, IsOk, Err
<1> HIDE DEF k, type, content, ct, aad, opened
<1>9. /\ derive_seal_key(key) = <<"key", k>> /\ blob.nonce = <<"nonce", type, k, content>>
      /\ ct.msg = content /\ aad = <<SEAL_VERSION, type>>
  BY <1>4, <1>8, EncryptInjective
<1>10. key = k /\ type = SEAL_TYPE_IDENTITY
  BY <1>9 DEF derive_seal_key, aad, seal_aad
<1>11. blob = r.value
  <2>1. blob = [version |-> SEAL_VERSION, nonce |-> <<"nonce", type, k, content>>, ciphertext |-> ct]
    BY <1>1, <1>2, <1>9 DEF ct
  <2>2. r.value = [version |-> SEAL_VERSION, nonce |-> <<"nonce", type, k, content>>, ciphertext |-> ct]
    BY <1>3, SealedFields DEF ct
  <2> QED
    BY <2>1, <2>2
<1>12. import_sealed(blob, key) = generate(content)
  BY <1>6, <1>7, <1>8, <1>9 DEF Ok
<1> QED
  BY <1>10, <1>11, <1>12 DEF k, type, content

LEMMA ImportStep ==
  ASSUME IInv, NEW h \in Handle, NEW blob \in Blobs, NEW key \in Key, Import(h, blob, key)
  PROVE  IInv'
<1>1. ASSUME IsOk(import_sealed(blob, key))
      PROVE  \E entropy \in LongEntropy : import_sealed(blob, key) = generate(entropy)
  <2>1. PICK r \in ReturnedBy("seal") : /\ r.call.type = SEAL_TYPE_IDENTITY
                                        /\ import_sealed(blob, key) = generate(r.call.content)
    BY <1>1, OpenedWasSealed
  <2>2. r.call.content \in LongEntropy
    BY <2>1 DEF IInv, ReturnInv, SealInv, ReturnedBy, LongEntropy
  <2> QED
    BY <2>1, <2>2
<1> QED
  BY <1>1, CreateStep DEF Import
-----------------------------------------------------------------------------
(* Whose secrets a host may use, and which randomness is long enough.      *)
LEMMA SecretFacts ==
  ASSUME IInv, NEW secret \in Secrets
  PROVE  IsOk(secret_as_seed(secret)) =>
           secret_as_seed(secret).ok = secret /\ secret \in Identity
<1>1. CASE secret \in RawSecret
  BY <1>1, InputAssumption DEF secret_as_seed, IsOk, Ok, Err
<1>2. CASE secret \in {identity[h].plp_seed : h \in Live}
  BY <1>2, LiveFacts DEF secret_as_seed, IsOk, Ok, Err
<1> QED
  BY <1>1, <1>2 DEF Secrets

LEMMA RandomnessFacts ==
  ASSUME NEW rho \in Randomness
  PROVE  rho \in LongEnough <=> ~ TooShort(rho)
<1>1. Length(rho) \in Nat /\ (rho \in LongEnough <=> Length(rho) >= 32)
  BY InputAssumption
<1> QED
  BY <1>1 DEF TooShort

LEMMA ProjectStep ==
  ASSUME IInv, NEW secret \in Secrets, NEW tau \in Context, NEW rho \in Randomness,
         Project(secret, tau, rho)
  PROVE  IInv'
<1> DEFINE call == [op |-> "project", by |-> secret, ctx |-> tau, rho |-> rho]
           result == plp_project_at_context(oracle, secret, tau, rho)
<1>1. ASSUME IsOk(result) PROVE ReturnInv([call |-> call, value |-> result.ok])
  <2>1. IsOk(secret_as_seed(secret)) /\ secret_as_seed(secret).ok = secret /\ secret \in Identity
    BY <1>1, SecretFacts DEF plp_project_at_context
  <2>2. result = checked_project_at_context(oracle, secret, tau, rho)
    BY <2>1 DEF plp_project_at_context
  <2>3. rho \in LongEnough /\ result.ok = projection_to_bytes(project_at_context(oracle, secret, tau, rho))
    BY <1>1, <2>2, RandomnessFacts DEF checked_project_at_context, IsOk, Ok, Err
  <2>4. ProjectInv([call |-> call, value |-> result.ok])
    BY <2>1, <2>3 DEF ProjectInv, InputsInv
  <2> QED
    BY <2>4 DEF ReturnInv
<1> QED
  BY <1>1, ReturnsStep DEF Project

LEMMA ProveStep ==
  ASSUME IInv, NEW secret \in Secrets, NEW tau \in Context, NEW rho \in Randomness,
         Prove(secret, tau, rho)
  PROVE  IInv'
<1> DEFINE call == [op |-> "prove", by |-> secret, ctx |-> tau, rho |-> rho]
           result == plp_prove_identity(oracle, secret, tau, rho)
<1>1. ASSUME IsOk(result) PROVE ReturnInv([call |-> call, value |-> result.ok])
  <2>1. IsOk(secret_as_seed(secret)) /\ secret_as_seed(secret).ok = secret /\ secret \in Identity
    BY <1>1, SecretFacts DEF plp_prove_identity
  <2>2. result = prove_identity(oracle, secret, tau, rho)
    BY <2>1 DEF plp_prove_identity
  <2>3. TooShort(rho) => ~ IsOk(prove_identity(oracle, secret, tau, rho))
    BY DEF prove_identity, IsOk, Err
  <2>4. rho \in LongEnough
    BY <1>1, <2>2, <2>3, RandomnessFacts
  <2>5. ProveInv([call |-> call, value |-> result.ok])
    BY <1>1, <2>1, <2>2, <2>4 DEF ProveInv, InputsInv
  <2> QED
    BY <2>5 DEF ReturnInv
<1> QED
  BY <1>1, ReturnsStep DEF Prove

LEMMA CredentialStep ==
  ASSUME IInv, UNCHANGED <<oracle, identity, returned>>,
         NEW c, credential' = c, c # None => CredentialInv(c)
  PROVE  IInv'
<1>1. \A r \in returned' : ReturnInv(r)'
  BY Frame DEF IInv
<1>2. IdentityInv'
  BY DEF IInv, IdentityInv
<1>3. credential' # None => CredentialInv(credential)'
  BY DEF CredentialInv
<1> QED
  BY <1>1, <1>2, <1>3 DEF IInv

LEMMA IssueStep ==
  ASSUME IInv, NEW h \in Live, NEW seed \in IssuerSeed, NEW rand \in Randomness,
         NEW attributes \in BoundedSeq(Value, CRED_ATTRIBUTES + 1),
         Issue(h, seed, attributes, rand)
  PROVE  IInv'
<1> DEFINE result == credential_issue(oracle, identity[h], seed, attributes, rand)
           to == identity[h].plp_seed
           c == [owned |-> result.ok, to |-> to, attributes |-> attributes]
<1>1. IsOk(result) /\ credential' = c /\ UNCHANGED <<oracle, identity, returned>>
  BY DEF Issue
<1>2. /\ Len(attributes) = CRED_ATTRIBUTES /\ IsOk(derive(seed)) /\ ~ TooShort(rand)
      /\ result.ok = [credential |-> issue(oracle, derive(seed).ok, to, attributes, rand),
                      params     |-> derive(seed).ok]
  BY <1>1 DEF credential_issue, IsOk, Ok, Err
<1>3. derive(seed).ok \in Issuer
  <2>1. Length(seed) \in Nat
    BY InputAssumption
  <2>2. Length(seed) >= 32 /\ derive(seed).ok = PublicSeed(seed)
    BY <1>2, <2>1 DEF derive, IsOk, Ok, Err
  <2> QED
    BY <2>2, InputAssumption
<1>4. attributes \in [Attributes -> Value]
  <2>1. attributes \in Seq(Value)
    BY DEF BoundedSeq, SeqOf
  <2> QED
    BY <1>2, <2>1 DEF Attributes
<1>5. to \in Identity /\ rand \in LongEnough
  BY <1>2, LiveFacts, RandomnessFacts
<1>6. CredentialInv(c)
  BY <1>2, <1>3, <1>4, <1>5 DEF CredentialInv
<1> HIDE DEF c
<1> QED
  BY <1>1, <1>6, CredentialStep

LEMMA DropCredentialStep ==
  ASSUME IInv, DropCredential
  PROVE  IInv'
  BY CredentialStep DEF DropCredential

LEMMA PresentStep ==
  ASSUME IInv, NEW h \in Live, NEW tau \in Context, NEW rho \in Randomness,
         NEW disclosed \in SUBSET Attributes, NEW blinding \in Randomness, NEW rand \in Randomness,
         Present(h, tau, rho, disclosed, blinding, rand)
  PROVE  IInv'
<1> DEFINE call == [op |-> "present", by |-> identity[h].plp_seed, ctx |-> tau, rho |-> rho,
                    disclosed |-> disclosed, cred |-> credential]
           result == present(oracle, credential.owned, identity[h], tau, rho, disclosed, blinding, rand)
<1>1. result = Presented(call, blinding, rand)
  BY DEF Presented, present
<1>2. ASSUME IsOk(result) PROVE ReturnInv([call |-> call, value |-> result.ok])
  <2>1. credential # None
    BY DEF Present
  <2>2. rho \in LongEnough /\ blinding \in LongEnough
    BY <1>2, RandomnessFacts DEF present, IsOk, Err
  <2>3. TooShort(rand) => ~ IsOk(result)
    BY DEF present, prove, IsOk, Err
  <2>4. rand \in LongEnough
    BY <1>2, <2>3, RandomnessFacts
  <2>5. CredentialInv(credential) /\ identity[h].plp_seed \in Identity
    BY <2>1, LiveFacts DEF IInv
  <2>6. PresentInv([call |-> call, value |-> result.ok])
    <3> DEFINE new == [call |-> call, value |-> result.ok]
    <3>1. new.call = call /\ new.value = result.ok
      OBVIOUS
    <3> HIDE DEF new, result
    <3>2. IsOk(Presented(new.call, blinding, rand)) /\ new.value = Presented(new.call, blinding, rand).ok
      BY <1>1, <1>2, <3>1
    <3>3. InputsInv(new.call) /\ new.call.disclosed \subseteq Attributes /\ CredentialInv(new.call.cred)
      BY <2>2, <2>5, <3>1 DEF InputsInv
    <3>4. PresentInv(new)
      BY <2>2, <2>4, <3>2, <3>3 DEF PresentInv
    <3> QED
      BY <3>4 DEF new
  <2> QED
    BY <2>6 DEF ReturnInv
<1> QED
  BY <1>2, ReturnsStep DEF Present
-----------------------------------------------------------------------------
LEMMA InitIInv == Init => IInv
  BY DEF Init, IInv, IdentityInv

LEMMA NextIInv == IInv /\ [Next]_vars => IInv'
<1> SUFFICES ASSUME IInv, [Next]_vars PROVE IInv'
  OBVIOUS
<1>1. ASSUME NEW h \in Handle, NEW entropy \in Entropy, Generate(h, entropy) PROVE IInv'
  BY <1>1, GenerateStep
<1>2. ASSUME NEW h \in Handle, NEW blob \in Blobs, NEW key \in Key, Import(h, blob, key) PROVE IInv'
  BY <1>2, ImportStep
<1>3. ASSUME NEW h \in Live, Drop(h) PROVE IInv'
  BY <1>3, DropStep
<1>4. ASSUME NEW h \in Live, NEW key \in Key, Export(h, key) PROVE IInv'
  BY <1>4, ExportStep
<1>5. ASSUME NEW plaintext \in Entropy, NEW key \in Key, SealOther(plaintext, key) PROVE IInv'
  BY <1>5, SealOtherStep
<1>6. ASSUME NEW h \in Live, NEW message \in Message, Sign(h, message) PROVE IInv'
  BY <1>6, SignStep
<1>7. ASSUME NEW h \in Live, NEW purpose \in Purpose, NEW message \in Message,
             SignWithPurpose(h, purpose, message) PROVE IInv'
  BY <1>7, SignWithPurposeStep
<1>8. ASSUME NEW secret \in Secrets, NEW tau \in Context, NEW rho \in Randomness,
             Project(secret, tau, rho) \/ Prove(secret, tau, rho) PROVE IInv'
  BY <1>8, ProjectStep, ProveStep
<1>9. ASSUME NEW h \in Live, NEW seed \in IssuerSeed, NEW rand \in Randomness,
             NEW attributes \in BoundedSeq(Value, CRED_ATTRIBUTES + 1),
             Issue(h, seed, attributes, rand) PROVE IInv'
  BY <1>9, IssueStep
<1>10. CASE DropCredential
  BY <1>10, DropCredentialStep
<1>11. ASSUME NEW h \in Live, NEW tau \in Context, NEW rho \in Randomness,
              NEW disclosed \in SUBSET Attributes, NEW blinding \in Randomness, NEW rand \in Randomness,
              Present(h, tau, rho, disclosed, blinding, rand) PROVE IInv'
  BY <1>11, PresentStep
<1>12. CASE UNCHANGED vars
  <2>1. IdentityInv' /\ UNCHANGED <<oracle, credential, returned>>
    BY <1>12 DEF vars, IInv, IdentityInv
  <2> QED
    BY <2>1, IdentityStep
<1> QED
  BY <1>1, <1>2, <1>3, <1>4, <1>5, <1>6, <1>7, <1>8, <1>9, <1>10, <1>11, <1>12 DEF Next

(* The invariant holds of every reachable state: a live identity is the    *)
(* one its entropy generates, and whatever a host was handed is what the   *)
(* call it made computes (the exports of component.rs).                    *)
THEOREM Inductive == Spec => []IInv
  BY InitIInv, NextIInv, PTL DEF Spec
-----------------------------------------------------------------------------
(* What follows for sealing and signing.                                   *)

(* No nonce is used for two messages under one cipher key: the nonce is    *)
(* derived from the type, the key and the plaintext (derive_seal_material).*)
THEOREM NonceUse == Spec => []NonceDeterminesMessage
<1>1. ASSUME IInv, NEW r1 \in ReturnedBy("seal"), NEW r2 \in ReturnedBy("seal"),
             r1.value.ciphertext.nonce = r2.value.ciphertext.nonce
      PROVE  r1.value.ciphertext = r2.value.ciphertext
  <2>1. /\ r1.value = Sealed(r1.call.key, r1.call.type, r1.call.content)
        /\ r2.value = Sealed(r2.call.key, r2.call.type, r2.call.content)
    BY <1>1 DEF IInv, ReturnInv, SealInv, ReturnedBy
  <2>2. ASSUME NEW key, NEW type, NEW content
        PROVE  Sealed(key, type, content).ciphertext.nonce = <<"nonce", type, key, content>>
    <3>1. \A k, n, m, a : encrypt(k, n, m, a).nonce = n
      BY DEF encrypt
    <3>2. Sealed(key, type, content).ciphertext
            = encrypt(<<"key", key>>, <<"nonce", type, key, content>>, content, <<SEAL_VERSION, type>>)
      BY SealedFields
    <3> QED
      BY <3>1, <3>2
  <2>3. <<"nonce", r1.call.type, r1.call.key, r1.call.content>>
          = <<"nonce", r2.call.type, r2.call.key, r2.call.content>>
    BY <1>1, <2>1, <2>2
  <2>4. r1.call.type = r2.call.type /\ r1.call.key = r2.call.key /\ r1.call.content = r2.call.content
    BY <2>3
  <2> QED
    BY <2>1, <2>4
<1>2. IInv => NonceDeterminesMessage
  BY <1>1 DEF NonceDeterminesMessage
<1> QED
  BY <1>2, Inductive, PTL

(* Only what was sealed as an identity under a key opens under it, and it  *)
(* opens as the identity it was, whatever the host makes of the blobs it   *)
(* holds (import_sealed).                                                  *)
THEOREM Opening == Spec => []OpensOnlyAsSealed
<1>1. ASSUME IInv, NEW r \in ReturnedBy("seal"), r.call.type = SEAL_TYPE_IDENTITY
      PROVE  /\ import_sealed(r.value, r.call.key) = generate(r.call.content)
             /\ IsOk(import_sealed(r.value, r.call.key))
  <2> DEFINE k == r.call.key
             content == r.call.content
             blob == r.value
             aad == seal_aad(SEAL_VERSION, SEAL_TYPE_IDENTITY)
             opened == decrypt(derive_seal_key(k), blob.nonce, blob.ciphertext, aad)
  <2>1. /\ k \in Key /\ content \in Entropy /\ blob = Sealed(k, SEAL_TYPE_IDENTITY, content)
        /\ Length(k) >= MIN_SEAL_KEY_BYTES /\ Length(content) >= MIN_ENTROPY_BYTES
    BY <1>1 DEF IInv, ReturnInv, SealInv, ReturnedBy
  <2>2. Length(k) \in Nat /\ Length(content) \in Nat
    BY <2>1, InputAssumption
  <2> HIDE DEF k, content, blob
  <2>3. /\ blob.version = SEAL_VERSION /\ ~ IsTruncated(blob)
        /\ blob.nonce = <<"nonce", SEAL_TYPE_IDENTITY, k, content>>
        /\ blob.ciphertext = encrypt(<<"key", k>>, <<"nonce", SEAL_TYPE_IDENTITY, k, content>>, content,
                                     <<SEAL_VERSION, SEAL_TYPE_IDENTITY>>)
    BY <2>1, SealedFields
  <2>4. blob.ciphertext.msg = content
    BY <2>3 DEF encrypt
  <2>5. blob.ciphertext = encrypt(derive_seal_key(k), blob.nonce, blob.ciphertext.msg, aad)
    BY <2>3, <2>4 DEF derive_seal_key, seal_aad
  <2>6. opened = Ok(content)
    BY <2>4, <2>5 DEF decrypt
  <2>7. IsOk(opened) /\ opened.ok = content
    BY <2>6 DEF IsOk, Ok
  <2>8. ~ (Length(k) < MIN_SEAL_KEY_BYTES \/ IsTruncated(blob))
    BY <2>1, <2>2, <2>3 DEF MIN_SEAL_KEY_BYTES
  <2> HIDE DEF opened
  <2>9. import_sealed(blob, k) = generate(content)
    BY <2>3, <2>7, <2>8 DEF import_sealed, opened
  <2>10. IsOk(generate(content))
    BY <2>1, <2>2, GeneratedFacts DEF MIN_ENTROPY_BYTES
  <2> QED
    BY <2>9, <2>10 DEF k, content, blob
<1>2. ASSUME IInv, NEW blob \in Blobs, NEW key \in Key
      PROVE  LET opened  == import_sealed(blob, key)
                 Origins == {r \in ReturnedBy("seal") : r.value = blob /\ r.call.key = key
                                                        /\ r.call.type = SEAL_TYPE_IDENTITY}
             IN  /\ IsOk(opened) <=> Origins # {}
                 /\ \A r \in Origins : opened = generate(r.call.content)
  <2> DEFINE Origins == {r \in ReturnedBy("seal") : r.value = blob /\ r.call.key = key
                                                   /\ r.call.type = SEAL_TYPE_IDENTITY}
  <2>1. \A r \in Origins : import_sealed(blob, key) = generate(r.call.content) /\ IsOk(import_sealed(blob, key))
    BY <1>1, <1>2
  <2>2. IsOk(import_sealed(blob, key)) => Origins # {}
    BY <1>2, OpenedWasSealed
  <2> QED
    BY <2>1, <2>2
<1>3. IInv => OpensOnlyAsSealed
  BY <1>2 DEF OpensOnlyAsSealed
<1> QED
  BY <1>3, Inductive, PTL

LEMMA SignatureInjective ==
  ASSUME NEW p1, NEW c1, NEW m1, NEW p2, NEW c2, NEW m2
  PROVE  Signature(p1, c1, m1) = Signature(p2, c2, m2) <=> p1 = p2 /\ c1 = c2 /\ m1 = m2
<1> DEFINE s == Signature(p1, c1, m1)
           t == Signature(p2, c2, m2)
<1>1. s.by = p1 /\ s.context = c1 /\ s.message = m1 /\ t.by = p2 /\ t.context = c2 /\ t.message = m2
  BY DEF Signature
<1>2. p1 = p2 /\ c1 = c2 /\ m1 = m2 => s = t
  OBVIOUS
<1> HIDE DEF s, t
<1>3. s = t => p1 = p2 /\ c1 = c2 /\ m1 = m2
  BY <1>1
<1> QED
  BY <1>2, <1>3 DEF s, t

Accepted == Ok(TRUE)

LEMMA AcceptedFacts ==
  /\ \A made \in BOOLEAN : Ok(made) = Accepted <=> made
  /\ \A error : Err(error) # Accepted
<1>1. ASSUME NEW made \in BOOLEAN PROVE Ok(made) = Accepted <=> made
  <2>1. Ok(made).ok = made /\ Accepted.ok = TRUE
    BY DEF Ok, Accepted
  <2>2. made = TRUE => Ok(made) = Accepted
    BY DEF Ok, Accepted
  <2> QED
    BY <2>1, <2>2
<1> QED
  BY <1>1 DEF Err, Ok, Accepted

(* What the signatures a host holds verify for.                            *)
LEMMA SignatureFacts ==
  ASSUME IInv, NEW r \in ReturnedBy("sign"), NEW public, NEW message, NEW purpose
  PROVE  /\ r.value = Signature(public, purpose, message)
               <=> r.call.by = public /\ r.call.message = message /\ r.call.purpose = purpose
         /\ r.call.purpose = purpose => ~ (Length(purpose) > MAX_CONTEXT_LEN)
  BY SignatureInjective DEF IInv, ReturnInv, SignInv, ReturnedBy

LEMMA PlainSignature ==
  ASSUME IInv, NEW r \in ReturnedBy("sign"), NEW public, NEW message
  PROVE  signing_verify(public, message, r.value)
           = Ok(r.call.by = public /\ r.call.message = message /\ r.call.purpose = NoPurpose)
<1>1. (r.value = Signature(public, NoPurpose, message))
        = (r.call.by = public /\ r.call.message = message /\ r.call.purpose = NoPurpose)
  BY SignatureFacts
<1> QED
  BY <1>1, Zenon DEF signing_verify

LEMMA PurposeSignature ==
  ASSUME IInv, NEW r \in ReturnedBy("sign"), NEW public, NEW message, NEW purpose
  PROVE  verify_with_purpose(public, purpose, message, r.value) = Accepted
           <=> r.call.by = public /\ r.call.message = message /\ r.call.purpose = purpose
<1> DEFINE made == r.value = Signature(public, purpose, message)
<1>1. verify_with_purpose(public, purpose, message, r.value)
        = IF Length(purpose) > MAX_CONTEXT_LEN THEN Err("InvalidInputLength") ELSE Ok(made)
  BY DEF verify_with_purpose
<1>2. made \in BOOLEAN
  OBVIOUS
<1>3. /\ made <=> r.call.by = public /\ r.call.message = message /\ r.call.purpose = purpose
      /\ r.call.purpose = purpose => ~ (Length(purpose) > MAX_CONTEXT_LEN)
  BY SignatureFacts
<1> HIDE DEF made
<1>4. (Ok(made) = Accepted <=> made) /\ Err("InvalidInputLength") # Accepted
  BY <1>2, AcceptedFacts, Zenon
<1> QED
  BY <1>1, <1>3, <1>4, Zenon

(* A signature verifies for its own key, message and purpose and for no    *)
(* other; none stands for the empty purpose (sign_with_purpose).           *)
THEOREM SigningPurpose == Spec => []SignatureNamesPurpose
<1>1. IInv => SignatureNamesPurpose
  <2> SUFFICES ASSUME IInv, NEW r \in ReturnedBy("sign"), NEW entropy \in Entropy, NEW message \in Message
               PROVE  LET public == KeyPair(entropy).public
                          Made(purpose) == r.call.by = public /\ r.call.message = message
                                           /\ r.call.purpose = purpose
                      IN  /\ signing_verify(public, message, r.value) = Ok(Made(NoPurpose))
                          /\ \A purpose \in Purpose \cup registered_purposes :
                               verify_with_purpose(public, purpose, message, r.value) = Ok(TRUE)
                                 <=> Made(purpose)
    BY DEF SignatureNamesPurpose
  <2> DEFINE public == KeyPair(entropy).public
  <2>1. signing_verify(public, message, r.value)
          = Ok(r.call.by = public /\ r.call.message = message /\ r.call.purpose = NoPurpose)
    BY PlainSignature, Zenon
  <2>2. ASSUME NEW purpose \in Purpose \cup registered_purposes
        PROVE  verify_with_purpose(public, purpose, message, r.value) = Accepted
                 <=> r.call.by = public /\ r.call.message = message /\ r.call.purpose = purpose
    <3> HIDE DEF public
    <3>1. verify_with_purpose(public, purpose, message, r.value) = Accepted
            => r.call.by = public /\ r.call.message = message /\ r.call.purpose = purpose
      BY PurposeSignature, SMTT(30)
    <3>2. r.call.by = public /\ r.call.message = message /\ r.call.purpose = purpose
            => verify_with_purpose(public, purpose, message, r.value) = Accepted
      BY PurposeSignature
    <3> QED
      BY <3>1, <3>2
  <2> QED
    BY <2>1, <2>2, Zenon DEF Accepted
<1> QED
  BY <1>1, Inductive, PTL
-----------------------------------------------------------------------------
(***************************************************************************)
(* The wire.  The forms of a projection and a proof that a host can bring  *)
(* are records of sequences of numbers, reduced or not.                    *)
(***************************************************************************)
ProjectionBodies == [tau : Tag, salt : Salt, public_b : Seq(Nat)]

ProofBodies ==
  [commitment_w : Seq(Nat), challenge_c : Seq(Nat), transcript : Transcript, response_z : Seq(Nat)]

LEMMA ReducedWords ==
  ASSUME NEW words \in Seq(Nat), Reduced(words)
  PROVE  words \in Words(Len(words))
<1>1. words \in [1 .. Len(words) -> Nat] /\ DOMAIN words = 1 .. Len(words)
  OBVIOUS
<1>2. ASSUME NEW i \in 1 .. Len(words) PROVE words[i] \in 0 .. Q - 1
  BY <1>1, CodecAssumption DEF Reduced
<1> QED
  BY <1>1, <1>2 DEF Words

LEMMA WordsReduced ==
  ASSUME NEW n \in Nat, NEW words \in Words(n)
  PROVE  words \in Seq(Nat) /\ Len(words) = n /\ Reduced(words)
<1>1. words \in [1 .. n -> Nat] /\ DOMAIN words = 1 .. n
  BY CodecAssumption DEF Words
<1>2. words \in Seq(Nat) /\ Len(words) = n
  BY <1>1
<1>3. \A i \in 1 .. n : words[i] < Q
  BY CodecAssumption DEF Words
<1> QED
  BY <1>1, <1>2, <1>3 DEF Reduced

(* A projection survives its record.                                       *)
LEMMA ProjectionRecord ==
  ASSUME NEW proj \in Projection
  PROVE  /\ projection_to_bytes(proj) \in ProjectionBodies
         /\ IsProjectionBody(projection_to_bytes(proj)) /\ Reduced(projection_to_bytes(proj).public_b)
         /\ ProjectionIn(projection_to_bytes(proj)) = proj
<1> DEFINE body == projection_to_bytes(proj)
           words == VecWords(proj.public_b)
<1>1. /\ proj = [tau |-> proj.tau, salt |-> proj.salt, public_b |-> proj.public_b]
      /\ proj.tau \in Tag /\ proj.salt \in Salt /\ proj.public_b \in Vec
  BY DEF Projection
<1>2. body = [tau |-> proj.tau, salt |-> proj.salt, public_b |-> words]
  BY DEF projection_to_bytes
<1>3. words \in Words(VEC_WORDS) /\ VecOf(words) = proj.public_b /\ VEC_WORDS \in Nat
  BY <1>1, CodecAssumption
<1>4. words \in Seq(Nat) /\ Len(words) = VEC_WORDS /\ Reduced(words)
  BY <1>3, WordsReduced
<1> HIDE DEF words, body
<1> QED
  BY <1>1, <1>2, <1>3, <1>4 DEF ProjectionBodies, IsProjectionBody, ProjectionIn, body

LEMMA ProofRecord ==
  ASSUME NEW proof \in Proof
  PROVE  LET body == proof_to_bytes(proof)
         IN  /\ body \in ProofBodies /\ IsProofBody(body)
             /\ Reduced(body.commitment_w) /\ Reduced(body.challenge_c) /\ Reduced(body.response_z)
             /\ ProofIn(body) = proof
<1> DEFINE body == proof_to_bytes(proof)
           w == VecWords(proof.commitment_w)
           c == PolyWords(proof.challenge_c.poly)
           z == VecWords(proof.response_z)
<1>1. /\ proof = [commitment_w |-> proof.commitment_w, challenge_c |-> proof.challenge_c,
                  response_z |-> proof.response_z]
      /\ proof.commitment_w \in Vec /\ proof.response_z \in Vec
      /\ proof.challenge_c = [of |-> proof.challenge_c.of, poly |-> proof.challenge_c.poly]
      /\ proof.challenge_c.of \in Transcript /\ proof.challenge_c.poly \in ChalPoly
  BY DEF Proof, Challenge
<1>2. body = [commitment_w |-> w, challenge_c |-> c, transcript |-> proof.challenge_c.of, response_z |-> z]
  BY DEF proof_to_bytes
<1>3. /\ w \in Words(VEC_WORDS) /\ VecOf(w) = proof.commitment_w /\ VEC_WORDS \in Nat
      /\ z \in Words(VEC_WORDS) /\ VecOf(z) = proof.response_z
      /\ c \in Words(POLY_WORDS) /\ PolyOf(c) = proof.challenge_c.poly /\ POLY_WORDS \in Nat
  BY <1>1, CodecAssumption
<1>4. /\ w \in Seq(Nat) /\ Len(w) = VEC_WORDS /\ Reduced(w)
      /\ z \in Seq(Nat) /\ Len(z) = VEC_WORDS /\ Reduced(z)
      /\ c \in Seq(Nat) /\ Len(c) = POLY_WORDS /\ Reduced(c)
  BY <1>3, WordsReduced
<1> HIDE DEF w, c, z, body
<1>5. body \in ProofBodies
  BY <1>1, <1>2, <1>4 DEF ProofBodies
<1>6. /\ body.commitment_w = w /\ body.challenge_c = c /\ body.response_z = z
      /\ body.transcript = proof.challenge_c.of /\ "response_z" \in DOMAIN body
  BY <1>2
<1>7. ProofIn(body) = proof
  BY <1>1, <1>3, <1>6 DEF ProofIn
<1> QED
  BY <1>4, <1>5, <1>6, <1>7 DEF IsProofBody, body

(* What a record that the interface reads says about its words.            *)
LEMMA ProjectionRead ==
  ASSUME NEW body \in ProjectionBodies, IsProjectionBody(body), Reduced(body.public_b)
  PROVE  /\ ProjectionIn(body) \in Projection
         /\ projection_to_bytes(ProjectionIn(body)) = body
<1>1. /\ body = [tau |-> body.tau, salt |-> body.salt, public_b |-> body.public_b]
      /\ body.tau \in Tag /\ body.salt \in Salt /\ body.public_b \in Seq(Nat)
  BY DEF ProjectionBodies
<1>2. body.public_b \in Words(VEC_WORDS)
  BY <1>1, ReducedWords DEF IsProjectionBody
<1>3. VecOf(body.public_b) \in Vec /\ VecWords(VecOf(body.public_b)) = body.public_b
  BY <1>2, CodecAssumption
<1> QED
  BY <1>1, <1>3 DEF ProjectionIn, Projection, projection_to_bytes

LEMMA ProofRead ==
  ASSUME NEW body \in ProofBodies, IsProofBody(body),
         Reduced(body.commitment_w), Reduced(body.challenge_c), Reduced(body.response_z)
  PROVE  /\ ProofIn(body).commitment_w \in Vec /\ ProofIn(body).response_z \in Vec
         /\ proof_to_bytes(ProofIn(body)) = body
<1>1. /\ body = [commitment_w |-> body.commitment_w, challenge_c |-> body.challenge_c,
                 transcript |-> body.transcript, response_z |-> body.response_z]
      /\ body.commitment_w \in Seq(Nat) /\ body.challenge_c \in Seq(Nat) /\ body.response_z \in Seq(Nat)
  BY DEF ProofBodies
<1>2. /\ body.commitment_w \in Words(VEC_WORDS) /\ body.response_z \in Words(VEC_WORDS)
      /\ body.challenge_c \in Words(POLY_WORDS)
  BY <1>1, ReducedWords DEF IsProofBody
<1>3. /\ VecOf(body.commitment_w) \in Vec /\ VecWords(VecOf(body.commitment_w)) = body.commitment_w
      /\ VecOf(body.response_z) \in Vec /\ VecWords(VecOf(body.response_z)) = body.response_z
      /\ PolyWords(PolyOf(body.challenge_c)) = body.challenge_c
  BY <1>2, CodecAssumption
<1> QED
  BY <1>1, <1>3 DEF ProofIn, proof_to_bytes
-----------------------------------------------------------------------------
(* Envelopes: what encode_envelope writes decodes to its body, and nothing *)
(* else of an envelope's shape does.                                       *)
Envelope(bytes) ==
  bytes = [magic |-> bytes.magic, version |-> bytes.version, kind |-> bytes.kind,
           declared |-> bytes.declared, body |-> bytes.body]

LEMMA EnvelopeDecodes ==
  ASSUME NEW kind, NEW body
  PROVE  /\ decode_envelope(encode_envelope(kind, body), kind) = Ok(body)
         /\ Envelope(encode_envelope(kind, body))
         /\ encode_envelope(kind, body).body = body
<1> DEFINE bytes == encode_envelope(kind, body)
<1>1. /\ bytes = [magic |-> WIRE_MAGIC, version |-> WIRE_VERSION_PLP1, kind |-> kind,
                  declared |-> BodyLength(body), body |-> body]
  BY DEF encode_envelope
<1> HIDE DEF bytes
<1>2. /\ HasHeader(bytes) /\ bytes.magic = WIRE_MAGIC /\ bytes.version = WIRE_VERSION_PLP1
      /\ bytes.kind = kind /\ bytes.declared = BodyLength(bytes.body) /\ bytes.body = body
  BY <1>1 DEF HasHeader
<1> QED
  BY <1>1, <1>2 DEF decode_envelope, Envelope, bytes

LEMMA EnvelopeDecoded ==
  ASSUME NEW bytes, NEW kind, IsOk(decode_envelope(bytes, kind))
  PROVE  /\ HasHeader(bytes) /\ decode_envelope(bytes, kind) = Ok(bytes.body)
         /\ Envelope(bytes) => bytes = encode_envelope(kind, bytes.body)
<1>1. /\ HasHeader(bytes) /\ bytes.magic = WIRE_MAGIC /\ bytes.version = WIRE_VERSION_PLP1
      /\ bytes.kind = kind /\ BodyLength(bytes.body) = bytes.declared
      /\ decode_envelope(bytes, kind) = Ok(bytes.body)
  BY DEF decode_envelope, IsOk, Err
<1> QED
  BY <1>1 DEF Envelope, encode_envelope

LEMMA OkFacts ==
  /\ \A x : IsOk(Ok(x)) /\ Ok(x).ok = x
  /\ \A e : ~ IsOk(Err(e)) /\ Err(e).error = e
  BY DEF IsOk, Ok, Err

LEMMA ProjectionDecodes ==
  ASSUME NEW proj \in Projection
  PROVE  decode_projection(encode_projection(proj)) = Ok(proj)
<1> DEFINE body == projection_to_bytes(proj)
<1>1. decode_envelope(encode_projection(proj), Kind.Projection) = Ok(body)
  BY EnvelopeDecodes DEF encode_projection
<1>2. projection_from_bytes(body) = Ok(proj)
  BY ProjectionRecord DEF projection_from_bytes
<1> HIDE DEF body
<1> QED
  BY <1>1, <1>2, OkFacts DEF decode_projection

LEMMA ProjectionDecoded ==
  ASSUME NEW bytes, IsOk(decode_projection(bytes))
  PROVE  /\ IsProjectionBody(bytes.body) /\ Reduced(bytes.body.public_b)
         /\ decode_projection(bytes) = Ok(ProjectionIn(bytes.body))
         /\ HasHeader(bytes)
         /\ Envelope(bytes) => bytes = encode_envelope(Kind.Projection, bytes.body)
<1>1. IsOk(decode_envelope(bytes, Kind.Projection))
  BY DEF decode_projection
<1>2. /\ decode_envelope(bytes, Kind.Projection) = Ok(bytes.body)
      /\ HasHeader(bytes)
      /\ Envelope(bytes) => bytes = encode_envelope(Kind.Projection, bytes.body)
  BY <1>1, EnvelopeDecoded
<1>3. decode_projection(bytes) = projection_from_bytes(bytes.body)
  BY <1>2, OkFacts DEF decode_projection
<1> QED
  BY <1>2, <1>3, OkFacts DEF projection_from_bytes

LEMMA ProofDecodes ==
  ASSUME NEW proof \in Proof
  PROVE  decode_proof(encode_proof(proof)) = Ok(proof)
<1> DEFINE body == proof_to_bytes(proof)
<1>1. decode_envelope(encode_proof(proof), Kind.Proof) = Ok(body)
  BY EnvelopeDecodes DEF encode_proof
<1>2. ChallengeError(body.challenge_c) = "none"
  <2>1. proof.challenge_c.poly \in ChalPoly
    BY DEF Proof, Challenge
  <2> QED
    BY <2>1, CodecAssumption DEF proof_to_bytes
<1>3. proof_from_bytes(body) = Ok(proof)
  BY <1>2, ProofRecord DEF proof_from_bytes
<1> HIDE DEF body
<1> QED
  BY <1>1, <1>3, OkFacts DEF decode_proof

LEMMA TernaryReduced ==
  ASSUME NEW words \in Seq(Nat), ChallengeError(words) = "none"
  PROVE  Reduced(words)
<1> DEFINE Bad == {i \in DOMAIN words : ~ Ternary(words[i])}
<1>1. Bad = {}
  BY DEF ChallengeError
<1>2. \A i \in DOMAIN words : words[i] < Q
  BY <1>1, CodecAssumption DEF Ternary
<1> QED
  BY <1>2 DEF Reduced

LEMMA ProofDecoded ==
  ASSUME NEW bytes, IsOk(decode_proof(bytes))
  PROVE  /\ IsProofBody(bytes.body)
         /\ Reduced(bytes.body.commitment_w) /\ Reduced(bytes.body.response_z)
         /\ ChallengeError(bytes.body.challenge_c) = "none"
         /\ decode_proof(bytes) = Ok(ProofIn(bytes.body))
         /\ HasHeader(bytes)
         /\ Envelope(bytes) => bytes = encode_envelope(Kind.Proof, bytes.body)
<1>1. IsOk(decode_envelope(bytes, Kind.Proof))
  BY DEF decode_proof
<1>2. /\ decode_envelope(bytes, Kind.Proof) = Ok(bytes.body)
      /\ HasHeader(bytes)
      /\ Envelope(bytes) => bytes = encode_envelope(Kind.Proof, bytes.body)
  BY <1>1, EnvelopeDecoded
<1>3. decode_proof(bytes) = proof_from_bytes(bytes.body)
  BY <1>2, OkFacts DEF decode_proof
<1> QED
  BY <1>2, <1>3, OkFacts DEF proof_from_bytes
-----------------------------------------------------------------------------
(* Verdicts.                                                               *)
LEMMA AcceptedIsOk == IsOk(Accepted)
  BY DEF IsOk, Accepted, Ok

LEMMA BytesVerdict ==
  ASSUME NEW o, NEW p, NEW z, NEW ctx
  PROVE  /\ plp_verify_bytes(o, p, z, ctx) = Accepted <=>
              /\ IsOk(decode_projection(p)) /\ IsOk(decode_proof(z))
              /\ decode_projection(p).ok.tau = Pad(ctx)
              /\ verify(o, decode_projection(p).ok, decode_proof(z).ok)
<1> DEFINE made == decode_projection(p).ok.tau = Pad(ctx) /\ verify(o, decode_projection(p).ok, decode_proof(z).ok)
           v == verify_projection_bytes(o, p, z, ctx)
<1>1. made \in BOOLEAN
  OBVIOUS
<1>2. v = IF ~ IsOk(decode_projection(p)) THEN decode_projection(p)
          ELSE IF ~ IsOk(decode_proof(z)) THEN decode_proof(z) ELSE Ok(made)
  BY DEF verify_projection_bytes
<1> HIDE DEF made, v
<1>3. (Ok(made) = Accepted <=> made) /\ \A e : Err(e) # Accepted
  BY <1>1, AcceptedFacts, Zenon
<1>4. v = Accepted <=> IsOk(decode_projection(p)) /\ IsOk(decode_proof(z)) /\ made
  BY <1>2, <1>3, AcceptedIsOk, Zenon
<1>5. plp_verify_bytes(o, p, z, ctx) = IF IsOk(v) \/ v.error \notin WireErrors THEN v
                                       ELSE Err("SerializationError")
  BY DEF plp_verify_bytes, ToWit, v
<1>6. plp_verify_bytes(o, p, z, ctx) = Accepted <=> v = Accepted
  BY <1>3, <1>5, AcceptedIsOk, Zenon
<1> QED
  BY <1>4, <1>6 DEF made

LEMMA RecordsVerdict ==
  ASSUME NEW o, NEW p, NEW z
  PROVE  plp_verify(o, p, z) = Accepted <=>
           /\ IsOk(projection_from_wit(p)) /\ IsOk(zk_proof_from_wit(z))
           /\ verify(o, projection_from_wit(p).ok, zk_proof_from_wit(z).ok)
<1> DEFINE made == verify(o, projection_from_wit(p).ok, zk_proof_from_wit(z).ok)
<1>1. made \in BOOLEAN
  BY DEF verify
<1>2. plp_verify(o, p, z)
        = IF ~ IsOk(projection_from_wit(p)) THEN projection_from_wit(p)
          ELSE IF ~ IsOk(zk_proof_from_wit(z)) THEN zk_proof_from_wit(z) ELSE Ok(made)
  BY DEF plp_verify
<1> HIDE DEF made
<1>3. Ok(made) = Accepted <=> made
  BY <1>1, AcceptedFacts, Zenon
<1>4. plp_verify(o, p, z) = Accepted
        <=> IsOk(projection_from_wit(p)) /\ IsOk(zk_proof_from_wit(z)) /\ made
  BY <1>2, <1>3, AcceptedIsOk, Zenon
<1> QED
  BY <1>4 DEF made

(* An error that leaves plp_verify_bytes is one the interface names.       *)
LEMMA BytesError ==
  ASSUME NEW o, NEW p, NEW z, NEW ctx
  PROVE  \/ IsOk(plp_verify_bytes(o, p, z, ctx))
         \/ plp_verify_bytes(o, p, z, ctx).error \in WitErrors
<1>1. \A bytes, kind : IsOk(decode_envelope(bytes, kind))
        \/ decode_envelope(bytes, kind).error \in WireErrors \cup {"SerializationError"}
  BY OkFacts, Zenon DEF decode_envelope, WireErrors
<1>2. \A body : IsOk(projection_from_bytes(body))
        \/ projection_from_bytes(body).error \in WireErrors \cup {"SerializationError"}
  BY OkFacts DEF projection_from_bytes, WireErrors
<1>3. \A words : ChallengeError(words) \in {"none"} \cup WireErrors \cup {"SerializationError"}
  BY DEF ChallengeError, WireErrors
<1>4. ASSUME NEW body PROVE IsOk(proof_from_bytes(body))
        \/ proof_from_bytes(body).error \in WireErrors \cup {"SerializationError"}
  BY <1>3, OkFacts DEF proof_from_bytes, WireErrors
<1>5. IsOk(decode_projection(p)) \/ decode_projection(p).error \in WireErrors \cup {"SerializationError"}
  BY <1>1, <1>2, Zenon DEF decode_projection
<1>6. IsOk(decode_proof(z)) \/ decode_proof(z).error \in WireErrors \cup {"SerializationError"}
  BY <1>1, <1>4, Zenon DEF decode_proof
<1> DEFINE v == verify_projection_bytes(o, p, z, ctx)
<1>7. IsOk(v) \/ v.error \in WireErrors \cup {"SerializationError"}
  BY <1>5, <1>6, OkFacts, Zenon DEF verify_projection_bytes
<1> HIDE DEF v
<1>8. plp_verify_bytes(o, p, z, ctx) = IF IsOk(v) \/ v.error \notin WireErrors THEN v
                                       ELSE Err("SerializationError")
  BY DEF plp_verify_bytes, ToWit, v
<1>9. "SerializationError" \in WitErrors
  BY DEF WitErrors
<1> QED
  BY <1>7, <1>8, <1>9, OkFacts
-----------------------------------------------------------------------------
(* What the prover returns is the record of a proof that verifies for the  *)
(* projection of the same inputs.                                          *)
LEMMA ProverReturns ==
  ASSUME NEW o \in Oracle, NEW seed \in Identity, NEW tau \in Context, NEW rho \in LongEnough,
         IsOk(prove_identity(o, seed, tau, rho))
  PROVE  \E proof \in Proof :
           /\ prove_identity(o, seed, tau, rho).ok = proof_to_bytes(proof)
           /\ verify(o, project_at_context(o, seed, tau, rho), proof)
<1> DEFINE proj == project_at_context(o, seed, tau, rho)
           A == derive_context_matrix(o, proj.tau, proj.salt)
           Attempts == 0 .. Ceiling - 1
           y == [i \in Attempts |-> MaskOf(o, <<seed, proj.tau, i>>)]
           w == [i \in Attempts |-> Apply(A, y[i])]
           c == [i \in Attempts |-> hash_to_challenge(o, w[i], proj.public_b, proj.tau, proj.salt)]
           z == [i \in Attempts |-> Add(y[i], Scale(c[i].poly, SecretOf(o, seed)))]
           Acceptable == {i \in Attempts : InBound(z[i])}
           first == FirstOf(Acceptable)
           proof == [commitment_w |-> w[first], challenge_c |-> c[first], response_z |-> z[first]]
<1>1. Acceptable # {} /\ prove_identity(o, seed, tau, rho).ok = proof_to_bytes(proof)
  BY OkFacts DEF prove_identity
<1>2. first \in Attempts /\ InBound(z[first])
  <2>1. Acceptable \subseteq Nat
    OBVIOUS
  <2>2. first \in Acceptable
    BY <1>1, <2>1, FirstOfLeast
  <2> QED
    BY <2>2
<1>3. /\ proj \in Projection /\ proj.tau \in Tag /\ proj.salt \in Salt /\ proj.public_b \in Vec
      /\ proj.tau = Pad(tau)
  BY ProjectionTyped DEF Projection, project_at_context
<1>4. y[first] \in Vec /\ y[first] = MaskOf(o, <<seed, proj.tau, first>>)
  BY <1>2, <1>3, OracleAssumption DEF MaskKeys
<1> DEFINE yf == y[first]
           wf == w[first]
           cf == c[first]
           zf == z[first]
<1>5. /\ wf = Apply(A, yf) /\ cf = hash_to_challenge(o, wf, proj.public_b, proj.tau, proj.salt)
      /\ zf = Add(yf, Scale(cf.poly, SecretOf(o, seed)))
  BY <1>2
<1>6. InBound(zf) /\ yf \in Vec
  BY <1>2, <1>4
<1>7. /\ proof.commitment_w = wf /\ proof.challenge_c = cf /\ proof.response_z = zf
      /\ proof = [commitment_w |-> wf, challenge_c |-> cf, response_z |-> zf]
  OBVIOUS
<1> HIDE DEF proof, yf, wf, cf, zf
<1>8. verify(o, proj, proof)
  BY <1>3, <1>5, <1>6, <1>7, HonestVerifies
<1>9. proof \in Proof
  <2>1. A \in Mat
    BY <1>3, OracleAssumption DEF derive_context_matrix
  <2>2. wf \in Vec
    BY <1>5, <1>6, <2>1, ClosureAssumption
  <2>3. cf \in Challenge
    BY <1>3, <1>5, <2>2, ChallengeTyped
  <2>4. cf.poly \in ChalPoly /\ SecretOf(o, seed) \in Vec
    BY <2>3, OracleAssumption, ClosureAssumption DEF Challenge
  <2>5. Scale(cf.poly, SecretOf(o, seed)) \in Vec
    BY <2>4, ClosureAssumption
  <2>6. zf \in Vec
    BY <1>5, <1>6, <2>5, ClosureAssumption
  <2> QED
    BY <1>7, <2>2, <2>3, <2>6 DEF Proof
<1> QED
  BY <1>1, <1>8, <1>9

LEMMA ProvedFacts ==
  ASSUME IInv, NEW proved \in ReturnedBy("prove")
  PROVE  \E proof \in Proof :
           /\ proved.value = proof_to_bytes(proof)
           /\ verify(oracle, project_at_context(oracle, proved.call.by, proved.call.ctx, proved.call.rho), proof)
           /\ project_at_context(oracle, proved.call.by, proved.call.ctx, proved.call.rho) \in Projection
           /\ project_at_context(oracle, proved.call.by, proved.call.ctx, proved.call.rho).tau = Pad(proved.call.ctx)
<1>1. ProveInv(proved) /\ oracle \in Oracle
  BY DEF IInv, ReturnInv, ReturnedBy
<1> DEFINE by == proved.call.by
           ctx == proved.call.ctx
           rho == proved.call.rho
<1>2. /\ by \in Identity /\ ctx \in Context /\ rho \in LongEnough
      /\ IsOk(prove_identity(oracle, by, ctx, rho)) /\ proved.value = prove_identity(oracle, by, ctx, rho).ok
  BY <1>1 DEF ProveInv, InputsInv
<1> HIDE DEF by, ctx, rho
<1>3. \E proof \in Proof : /\ prove_identity(oracle, by, ctx, rho).ok = proof_to_bytes(proof)
                           /\ verify(oracle, project_at_context(oracle, by, ctx, rho), proof)
  BY <1>1, <1>2, ProverReturns
<1>4. project_at_context(oracle, by, ctx, rho) \in Projection
  BY <1>1, <1>2, ProjectionTyped
<1>5. project_at_context(oracle, by, ctx, rho).tau = Pad(ctx)
  BY DEF project_at_context
<1> QED
  BY <1>2, <1>3, <1>4, <1>5 DEF by, ctx, rho

LEMMA ProjectedFacts ==
  ASSUME IInv, NEW projected \in ReturnedBy("project")
  PROVE  \E proj \in Projection : projected.value = projection_to_bytes(proj)
<1>1. ProjectInv(projected) /\ oracle \in Oracle
  BY DEF IInv, ReturnInv, ReturnedBy
<1>2. project_at_context(oracle, projected.call.by, projected.call.ctx, projected.call.rho) \in Projection
  BY <1>1, ProjectionTyped DEF ProjectInv, InputsInv
<1> QED
  BY <1>1, <1>2 DEF ProjectInv

(* A proof carries its transcript: it verifies for the projection that its *)
(* transcript names, with the commitment and the challenge that follow     *)
(* from it.                                                                *)
LEMMA VerifyNamesTranscript ==
  ASSUME NEW o, NEW p \in Projection, NEW proof, verify(o, p, proof)
  PROVE  /\ p.public_b = proof.challenge_c.of.public_b /\ p.tau = proof.challenge_c.of.tau
         /\ p.salt = proof.challenge_c.of.salt
         /\ proof.commitment_w = proof.challenge_c.of.w
         /\ proof.challenge_c.poly = ChallengeOf(o, proof.challenge_c.of)
<1>1. proof.challenge_c = hash_to_challenge(o, proof.commitment_w, p.public_b, p.tau, p.salt)
  BY DEF verify
<1>2. /\ proof.challenge_c.of = [w |-> proof.commitment_w, public_b |-> p.public_b,
                                 tau |-> p.tau, salt |-> p.salt]
      /\ proof.challenge_c.poly = ChallengeOf(o, proof.challenge_c.of)
  BY <1>1 DEF hash_to_challenge
<1> QED
  BY <1>2
-----------------------------------------------------------------------------
(* What altering does to words, records and bytes.                         *)
LEMMA AlteredWordsTyped ==
  ASSUME NEW words \in Seq(Nat), NEW a \in AlteredWords(words)
  PROVE  a \in Seq(Nat)
<1>0. Q \in Nat
  BY CodecAssumption
<1>1. ASSUME NEW i \in DOMAIN words PROVE [words EXCEPT ![i] = @ + Q] \in Seq(Nat)
  BY <1>0
<1>2. ASSUME NEW i \in DOMAIN words PROVE [words EXCEPT ![i] = @ + 1] \in Seq(Nat)
  OBVIOUS
<1>3. Append(words, 0) \in Seq(Nat)
  OBVIOUS
<1>4. Front(words) \in Seq(Nat)
  BY DEF Front
<1> QED
  BY <1>1, <1>2, <1>3, <1>4 DEF AlteredWords, OtherForms

(* No other form of a list of words has its length and is reduced.         *)
LEMMA OtherFormsUnread ==
  ASSUME NEW n \in Nat, NEW words \in Words(n), NEW a \in OtherForms(words), Len(a) = n, Reduced(a)
  PROVE  a = words
<1>1. words \in Seq(Nat) /\ Len(words) = n /\ Reduced(words) /\ Q \in Nat
  BY WordsReduced, CodecAssumption
<1>2. ASSUME NEW i \in DOMAIN words, a = [words EXCEPT ![i] = @ + Q] PROVE FALSE
  <2>1. words[i] \in Nat /\ a[i] = words[i] + Q /\ i \in DOMAIN a
    BY <1>1, <1>2
  <2>2. a[i] < Q
    BY <2>1 DEF Reduced
  <2> QED
    BY <1>1, <2>1, <2>2
<1>3. a # Append(words, 0)
  BY <1>1
<1>4. ASSUME a = Front(words) PROVE a = words
  <2>1. a = SubSeq(words, 1, n - 1)
    BY <1>1, <1>4 DEF Front
  <2>2. CASE n = 0
    BY <1>1, <2>1, <2>2
  <2>3. CASE n # 0
    <3>1. Len(a) = n - 1
      BY <1>1, <2>1, <2>3
    <3> QED
      BY <3>1
  <2> QED
    BY <2>2, <2>3
<1> QED
  BY <1>2, <1>3, <1>4 DEF OtherForms

LEMMA AlteredProjection ==
  ASSUME NEW p \in ProjectionBodies, NEW a \in AlteredBodies(p)
  PROVE  a \in ProjectionBodies
<1>1. /\ p = [tau |-> p.tau, salt |-> p.salt, public_b |-> p.public_b]
      /\ p.tau \in Tag /\ p.salt \in Salt /\ p.public_b \in Seq(Nat) /\ "salt" \in DOMAIN p
  BY DEF ProjectionBodies
<1>2. \/ \E words \in AlteredWords(p.public_b) : a = [p EXCEPT !.public_b = words]
      \/ \E tag \in Tag : a = [p EXCEPT !.tau = tag]
  BY <1>1 DEF AlteredBodies
<1>3. ASSUME NEW words \in AlteredWords(p.public_b), a = [p EXCEPT !.public_b = words]
      PROVE  a \in ProjectionBodies
  <2>1. words \in Seq(Nat)
    BY <1>1, AlteredWordsTyped
  <2> QED
    BY <1>3, <2>1 DEF ProjectionBodies
<1>4. ASSUME NEW tag \in Tag, a = [p EXCEPT !.tau = tag] PROVE a \in ProjectionBodies
  BY <1>4 DEF ProjectionBodies
<1> QED
  BY <1>2, <1>3, <1>4

(* Altering leaves the transcript alone, which is not on the wire; the     *)
(* response is only ever written in another form.                          *)
LEMMA AlteredProof ==
  ASSUME NEW z \in ProofBodies, NEW a \in AlteredBodies(z)
  PROVE  /\ a \in ProofBodies /\ a.transcript = z.transcript
         /\ a.response_z \in {z.response_z} \cup OtherForms(z.response_z)
<1>1. /\ z.commitment_w \in Seq(Nat) /\ z.challenge_c \in Seq(Nat) /\ z.response_z \in Seq(Nat)
      /\ ~ ("salt" \in DOMAIN z)
  BY DEF ProofBodies
<1>2. \/ \E words \in AlteredWords(z.commitment_w) : a = [z EXCEPT !.commitment_w = words]
      \/ \E words \in AlteredWords(z.challenge_c) : a = [z EXCEPT !.challenge_c = words]
      \/ \E words \in OtherForms(z.response_z) : a = [z EXCEPT !.response_z = words]
  BY <1>1 DEF AlteredBodies
<1>3. ASSUME NEW words \in AlteredWords(z.commitment_w), a = [z EXCEPT !.commitment_w = words]
      PROVE  a \in ProofBodies /\ a.transcript = z.transcript /\ a.response_z = z.response_z
  <2>1. words \in Seq(Nat)
    BY <1>1, AlteredWordsTyped
  <2> QED
    BY <1>3, <2>1 DEF ProofBodies
<1>4. ASSUME NEW words \in AlteredWords(z.challenge_c), a = [z EXCEPT !.challenge_c = words]
      PROVE  a \in ProofBodies /\ a.transcript = z.transcript /\ a.response_z = z.response_z
  <2>1. words \in Seq(Nat)
    BY <1>1, AlteredWordsTyped
  <2> QED
    BY <1>4, <2>1 DEF ProofBodies
<1>5. ASSUME NEW words \in OtherForms(z.response_z), a = [z EXCEPT !.response_z = words]
      PROVE  a \in ProofBodies /\ a.transcript = z.transcript /\ a.response_z = words
  <2>1. words \in Seq(Nat)
    BY <1>1, AlteredWordsTyped DEF AlteredWords
  <2> QED
    BY <1>5, <2>1 DEF ProofBodies
<1> QED
  BY <1>2, <1>3, <1>4, <1>5

LEMMA AlteredEnvelope ==
  ASSUME NEW kind, NEW body, NEW a \in AlteredBytes(encode_envelope(kind, body))
  PROVE  \/ ~ HasHeader(a)
         \/ Envelope(a) /\ a.body \in {body} \cup AlteredBodies(body)
<1> DEFINE e == encode_envelope(kind, body)
<1>1. /\ e = [magic |-> e.magic, version |-> e.version, kind |-> e.kind, declared |-> e.declared,
              body |-> e.body]
      /\ e.body = body
  BY EnvelopeDecodes DEF Envelope
<1>2. ASSUME NEW other \in AlteredBodies(body), a = encode_envelope(kind, other)
      PROVE  Envelope(a) /\ a.body = other
  BY <1>2, EnvelopeDecodes
<1>3. ASSUME NEW other \in AlteredBodies(body), a = encode_envelope(e.kind, other)
      PROVE  Envelope(a) /\ a.body = other
  BY <1>3, EnvelopeDecodes
<1> HIDE DEF e
<1>4. ~ HasHeader(EmptyBytes)
  BY DEF HasHeader, EmptyBytes
<1>5. \/ a \in {EmptyBytes, [e EXCEPT !.magic = "????"], [e EXCEPT !.version = 2],
                [e EXCEPT !.kind = 3 - @], [e EXCEPT !.declared = @ + 4]}
      \/ \E other \in AlteredBodies(body) : a = [e EXCEPT !.body = other] \/ a = encode_envelope(e.kind, other)
  BY <1>1 DEF AlteredBytes, e
<1>6. ASSUME \/ a = [e EXCEPT !.magic = "????"] \/ a = [e EXCEPT !.version = 2]
             \/ a = [e EXCEPT !.kind = 3 - @] \/ a = [e EXCEPT !.declared = @ + 4]
      PROVE  Envelope(a) /\ a.body = body
  BY <1>1, <1>6 DEF Envelope
<1>7. ASSUME NEW other \in AlteredBodies(body), a = [e EXCEPT !.body = other]
      PROVE  Envelope(a) /\ a.body = other
  BY <1>1, <1>7 DEF Envelope
<1> QED
  BY <1>3, <1>4, <1>5, <1>6, <1>7
-----------------------------------------------------------------------------
(* Bytes and records.                                                      *)
LEMMA EncodedRecords ==
  /\ \A proj \in Projection : encode_wit_projection(projection_to_bytes(proj)) = encode_projection(proj)
  /\ \A proof \in Proof : encode_wit_proof(proof_to_bytes(proof)) = encode_proof(proof)
<1>1. ASSUME NEW proj \in Projection
      PROVE  encode_wit_projection(projection_to_bytes(proj)) = encode_projection(proj)
  <2> DEFINE body == projection_to_bytes(proj)
  <2>1. projection_from_wit(body) = Ok(proj)
    BY ProjectionRecord DEF projection_from_wit
  <2> HIDE DEF body
  <2> QED
    BY <2>1, OkFacts DEF encode_wit_projection, body
<1>2. ASSUME NEW proof \in Proof
      PROVE  encode_wit_proof(proof_to_bytes(proof)) = encode_proof(proof)
  <2> DEFINE body == proof_to_bytes(proof)
  <2>1. zk_proof_from_wit(body) = Ok(proof)
    BY ProofRecord DEF zk_proof_from_wit
  <2> HIDE DEF body
  <2> QED
    BY <2>1, OkFacts DEF encode_wit_proof, body
<1> QED
  BY <1>1, <1>2

(* Bytes that a host can make of a body, if they have a header at all.     *)
Shaped(bytes, bodies) == HasHeader(bytes) => Envelope(bytes) /\ bytes.body \in bodies

(* Every form in which a proof of this transcript and response can come.   *)
FormsOf(proof) ==
  {body \in ProofBodies :
     /\ body.transcript = proof.challenge_c.of
     /\ body.response_z \in {VecWords(proof.response_z)} \cup OtherForms(VecWords(proof.response_z))}

(* Accepted bytes decode to the projection and the proof of the transcript *)
(* and, words being reduced, are their encodings.                          *)
LEMMA AcceptedAreEncodings ==
  ASSUME NEW o, NEW proj \in Projection, NEW proof \in Proof, verify(o, proj, proof),
         NEW p, Shaped(p, ProjectionBodies), NEW z, Shaped(z, FormsOf(proof)),
         NEW ctx, plp_verify_bytes(o, p, z, ctx) = Accepted
  PROVE  p = encode_projection(proj) /\ z = encode_proof(proof) /\ proj.tau = Pad(ctx)
<1> DEFINE P1 == ProjectionIn(p.body)
           Z1 == ProofIn(z.body)
<1>1. IsOk(decode_projection(p)) /\ IsOk(decode_proof(z))
  BY BytesVerdict
<1>2. /\ decode_projection(p) = Ok(P1) /\ IsProjectionBody(p.body) /\ Reduced(p.body.public_b)
      /\ p.body \in ProjectionBodies /\ p = encode_envelope(Kind.Projection, p.body)
  BY <1>1, ProjectionDecoded DEF Shaped
<1>3. /\ decode_proof(z) = Ok(Z1) /\ IsProofBody(z.body)
      /\ Reduced(z.body.commitment_w) /\ Reduced(z.body.response_z)
      /\ ChallengeError(z.body.challenge_c) = "none"
      /\ z.body \in FormsOf(proof) /\ z = encode_envelope(Kind.Proof, z.body)
  BY <1>1, ProofDecoded DEF Shaped
<1>4. z.body \in ProofBodies /\ z.body.transcript = proof.challenge_c.of
  BY <1>3 DEF FormsOf
<1>5. Reduced(z.body.challenge_c)
  <2>1. z.body.challenge_c \in Seq(Nat)
    BY <1>4 DEF ProofBodies
  <2> QED
    BY <1>3, <2>1, TernaryReduced
<1>6. P1 \in Projection /\ projection_to_bytes(P1) = p.body
  BY <1>2, ProjectionRead
<1>7. proof_to_bytes(Z1) = z.body
  BY <1>3, <1>4, <1>5, ProofRead
<1>8. P1.tau = Pad(ctx) /\ verify(o, P1, Z1)
  <2> HIDE DEF P1, Z1
  <2> QED
    BY <1>2, <1>3, BytesVerdict, OkFacts
<1>9. Z1.challenge_c.of = proof.challenge_c.of
  BY <1>4 DEF ProofIn
<1>10. Z1 = [commitment_w |-> Z1.commitment_w,
             challenge_c |-> [of |-> Z1.challenge_c.of, poly |-> Z1.challenge_c.poly],
             response_z |-> Z1.response_z]
  BY DEF ProofIn
<1>11. Z1.response_z = proof.response_z
  <2>1. proof.response_z \in Vec
    BY DEF Proof
  <2>2. /\ VecWords(proof.response_z) \in Words(VEC_WORDS) /\ VecOf(VecWords(proof.response_z)) = proof.response_z
        /\ VEC_WORDS \in Nat
    BY <2>1, CodecAssumption
  <2>3. Len(z.body.response_z) = VEC_WORDS
    BY <1>3 DEF IsProofBody
  <2>4. z.body.response_z = VecWords(proof.response_z)
    BY <1>3, <2>2, <2>3, OtherFormsUnread DEF FormsOf
  <2> QED
    BY <2>2, <2>4 DEF ProofIn
<1>12. /\ proof = [commitment_w |-> proof.commitment_w,
                   challenge_c |-> [of |-> proof.challenge_c.of, poly |-> proof.challenge_c.poly],
                   response_z |-> proof.response_z]
       /\ proj = [tau |-> proj.tau, salt |-> proj.salt, public_b |-> proj.public_b]
  BY DEF Proof, Challenge, Projection
<1> HIDE DEF P1, Z1
<1>13. P1 = [tau |-> P1.tau, salt |-> P1.salt, public_b |-> P1.public_b]
  BY <1>6 DEF Projection
<1>14. /\ P1.public_b = proj.public_b /\ P1.tau = proj.tau /\ P1.salt = proj.salt
       /\ Z1.commitment_w = proof.commitment_w /\ Z1.challenge_c.poly = proof.challenge_c.poly
  BY <1>6, <1>8, <1>9, VerifyNamesTranscript
<1>15. P1 = proj /\ Z1 = proof
  BY <1>9, <1>10, <1>11, <1>12, <1>13, <1>14
<1> QED
  BY <1>2, <1>3, <1>6, <1>7, <1>8, <1>15 DEF encode_projection, encode_proof

LEMMA EncodingsAccepted ==
  ASSUME NEW o, NEW proj \in Projection, NEW proof \in Proof, verify(o, proj, proof),
         NEW ctx, proj.tau = Pad(ctx)
  PROVE  plp_verify_bytes(o, encode_projection(proj), encode_proof(proof), ctx) = Accepted
<1>1. /\ decode_projection(encode_projection(proj)) = Ok(proj)
      /\ decode_proof(encode_proof(proof)) = Ok(proof)
  BY ProjectionDecodes, ProofDecodes
<1> QED
  BY <1>1, OkFacts, BytesVerdict

(* What a host holds of a prover's and a projector's, and all it may alter *)
(* there, has this shape.                                                  *)
LEMMA AlteredShaped ==
  /\ \A p \in ProjectionBodies : \A a \in {encode_wit_projection(p)} \cup AlteredBytes(encode_wit_projection(p)) :
       projection_from_wit(p) = Ok(ProjectionIn(p)) /\ projection_to_bytes(ProjectionIn(p)) = p
         => Shaped(a, ProjectionBodies)
  /\ \A proof \in Proof : \A a \in {encode_proof(proof)} \cup AlteredBytes(encode_proof(proof)) :
       Shaped(a, FormsOf(proof))
<1>1. ASSUME NEW p \in ProjectionBodies,
             NEW a \in {encode_wit_projection(p)} \cup AlteredBytes(encode_wit_projection(p)),
             projection_from_wit(p) = Ok(ProjectionIn(p)), projection_to_bytes(ProjectionIn(p)) = p
      PROVE  Shaped(a, ProjectionBodies)
  <2>1. encode_wit_projection(p) = encode_envelope(Kind.Projection, p)
    BY <1>1, OkFacts DEF encode_wit_projection, encode_projection
  <2>2. HasHeader(a) => Envelope(a) /\ a.body \in {p} \cup AlteredBodies(p)
    BY <2>1, AlteredEnvelope, EnvelopeDecodes
  <2> QED
    BY <2>2, AlteredProjection DEF Shaped
<1>2. ASSUME NEW proof \in Proof, NEW a \in {encode_proof(proof)} \cup AlteredBytes(encode_proof(proof))
      PROVE  Shaped(a, FormsOf(proof))
  <2> DEFINE body == proof_to_bytes(proof)
  <2>1. HasHeader(a) => Envelope(a) /\ a.body \in {body} \cup AlteredBodies(body)
    BY AlteredEnvelope, EnvelopeDecodes DEF encode_proof
  <2>2. /\ body \in ProofBodies /\ body.transcript = proof.challenge_c.of
        /\ body.response_z = VecWords(proof.response_z)
    BY ProofRecord DEF proof_to_bytes
  <2> HIDE DEF body
  <2>3. {body} \cup AlteredBodies(body) \subseteq FormsOf(proof)
    BY <2>2, AlteredProof DEF FormsOf
  <2> QED
    BY <2>1, <2>3 DEF Shaped
<1> QED
  BY <1>1, <1>2

(* A verifier of bytes accepts one encoding of a proof and one of the      *)
(* projection it was made for, at a context of that tag, and no other form *)
(* of either; what it cannot decode is an error the interface names        *)
(* (verify_projection over the codecs of wire.rs and plp.rs).              *)
THEOREM EncodingsOnly == Spec => []AcceptedBytesAreEncodings
<1>1. ASSUME IInv, NEW projected \in ReturnedBy("project"), NEW proved \in ReturnedBy("prove"),
             NEW proj, proj = encode_wit_projection(projected.value),
             NEW zk, zk = encode_wit_proof(proved.value),
             NEW own, own = checked_project_at_context(oracle, proved.call.by, proved.call.ctx, proved.call.rho).ok,
             NEW bytes \in Pairs(proj, AlteredBytes(proj), zk, AlteredBytes(zk)), NEW ctx \in Context
      PROVE  plp_verify_bytes(oracle, bytes[1], bytes[2], ctx) = Accepted
               <=> bytes = <<encode_wit_projection(own), zk>> /\ Pad(ctx) = Pad(proved.call.ctx)
  <2> DEFINE P0 == project_at_context(oracle, proved.call.by, proved.call.ctx, proved.call.rho)
  <2>1. PICK proof \in Proof : /\ proved.value = proof_to_bytes(proof)
                               /\ verify(oracle, P0, proof) /\ P0 \in Projection
                               /\ P0.tau = Pad(proved.call.ctx)
    BY <1>1, ProvedFacts
  <2>2. own = projection_to_bytes(P0)
    <3>1. proved.call.rho \in LongEnough
      BY <1>1 DEF IInv, ReturnInv, ReturnedBy, ProveInv, InputsInv
    <3>2. ~ TooShort(proved.call.rho)
      BY <3>1, RandomnessFacts, BoundsAssumption
    <3> QED
      BY <1>1, <3>2, OkFacts DEF checked_project_at_context
  <2>3. PICK projected_P \in Projection : projected.value = projection_to_bytes(projected_P)
    BY <1>1, ProjectedFacts
  <2> HIDE DEF P0
  <2>4. encode_wit_projection(own) = encode_projection(P0) /\ zk = encode_proof(proof)
    BY <1>1, <2>1, <2>2, EncodedRecords
  <2>5. /\ bytes = <<bytes[1], bytes[2]>>
        /\ bytes[1] \in {proj} \cup AlteredBytes(proj) /\ bytes[2] \in {zk} \cup AlteredBytes(zk)
    BY <1>1 DEF Pairs
  <2>6. Shaped(bytes[1], ProjectionBodies)
    <3>1. projected.value \in ProjectionBodies
      BY <2>3, ProjectionRecord
    <3>2. /\ projection_from_wit(projected.value) = Ok(ProjectionIn(projected.value))
          /\ projection_to_bytes(ProjectionIn(projected.value)) = projected.value
      BY <2>3, ProjectionRecord DEF projection_from_wit
    <3> QED
      BY <1>1, <2>5, <3>1, <3>2, AlteredShaped
  <2>7. Shaped(bytes[2], FormsOf(proof))
    BY <2>4, <2>5, AlteredShaped
  <2>8. ASSUME plp_verify_bytes(oracle, bytes[1], bytes[2], ctx) = Accepted
        PROVE  bytes = <<encode_wit_projection(own), zk>> /\ Pad(ctx) = Pad(proved.call.ctx)
    <3>1. bytes[1] = encode_projection(P0) /\ bytes[2] = encode_proof(proof) /\ P0.tau = Pad(ctx)
      BY <2>1, <2>6, <2>7, <2>8, AcceptedAreEncodings
    <3> QED
      BY <2>1, <2>4, <2>5, <3>1
  <2>9. ASSUME bytes = <<encode_wit_projection(own), zk>>, Pad(ctx) = Pad(proved.call.ctx)
        PROVE  plp_verify_bytes(oracle, bytes[1], bytes[2], ctx) = Accepted
    <3>1. bytes[1] = encode_projection(P0) /\ bytes[2] = encode_proof(proof) /\ P0.tau = Pad(ctx)
      BY <2>1, <2>4, <2>9
    <3> QED
      BY <2>1, <3>1, EncodingsAccepted
  <2> QED
    BY <2>8, <2>9
<1>2. ASSUME IInv, NEW projected \in ReturnedBy("project"), NEW proved \in ReturnedBy("prove")
      PROVE  LET proj == encode_wit_projection(projected.value)
                 zk   == encode_wit_proof(proved.value)
                 in   == proved.call
                 own  == checked_project_at_context(oracle, in.by, in.ctx, in.rho).ok
             IN  \A bytes \in Pairs(proj, AlteredBytes(proj), zk, AlteredBytes(zk)), ctx \in Context :
                   LET verdict == plp_verify_bytes(oracle, bytes[1], bytes[2], ctx)
                   IN  /\ verdict = Ok(TRUE) <=>
                            bytes = <<encode_wit_projection(own), zk>> /\ Pad(ctx) = Pad(in.ctx)
                       /\ IsOk(verdict) \/ verdict.error \in WitErrors
  <2> DEFINE proj == encode_wit_projection(projected.value)
             zk   == encode_wit_proof(proved.value)
             own  == checked_project_at_context(oracle, proved.call.by, proved.call.ctx, proved.call.rho).ok
  <2>1. ASSUME NEW bytes \in Pairs(proj, AlteredBytes(proj), zk, AlteredBytes(zk)), NEW ctx \in Context
        PROVE  /\ plp_verify_bytes(oracle, bytes[1], bytes[2], ctx) = Accepted
                    <=> bytes = <<encode_wit_projection(own), zk>> /\ Pad(ctx) = Pad(proved.call.ctx)
               /\ \/ IsOk(plp_verify_bytes(oracle, bytes[1], bytes[2], ctx))
                  \/ plp_verify_bytes(oracle, bytes[1], bytes[2], ctx).error \in WitErrors
    <3>1. plp_verify_bytes(oracle, bytes[1], bytes[2], ctx) = Accepted
            <=> bytes = <<encode_wit_projection(own), zk>> /\ Pad(ctx) = Pad(proved.call.ctx)
      BY <1>1, <1>2, <2>1
    <3> QED
      BY <3>1, BytesError
  <2> QED
    BY <2>1, Zenon DEF Accepted
<1>3. IInv => AcceptedBytesAreEncodings
  BY <1>2, Zenon DEF AcceptedBytesAreEncodings
<1> QED
  BY <1>3, Inductive, PTL
-----------------------------------------------------------------------------
(* Records against bytes, altered or not.                                  *)
LEMMA ProjectionForms ==
  ASSUME NEW p \in ProjectionBodies
  PROVE  IF IsOk(projection_from_wit(p))
         THEN /\ projection_from_wit(p) = Ok(ProjectionIn(p)) /\ ProjectionIn(p) \in Projection
              /\ decode_projection(encode_wit_projection(p)) = Ok(ProjectionIn(p))
              /\ ProjectionIn(p).tau = p.tau
         ELSE ~ IsOk(decode_projection(encode_wit_projection(p)))
<1>1. CASE IsOk(projection_from_wit(p))
  <2>1. projection_from_wit(p) = Ok(ProjectionIn(p)) /\ IsProjectionBody(p) /\ Reduced(p.public_b)
    BY <1>1, OkFacts DEF projection_from_wit
  <2>2. ProjectionIn(p) \in Projection
    BY <2>1, ProjectionRead
  <2>3. encode_wit_projection(p) = encode_projection(ProjectionIn(p))
    BY <2>1, OkFacts DEF encode_wit_projection
  <2>4. ProjectionIn(p).tau = p.tau
    BY DEF ProjectionIn
  <2> QED
    BY <1>1, <2>1, <2>2, <2>3, <2>4, ProjectionDecodes
<1>2. CASE ~ IsOk(projection_from_wit(p))
  <2>1. encode_wit_projection(p) = EmptyBytes
    BY <1>2 DEF encode_wit_projection
  <2>2. ~ HasHeader(EmptyBytes)
    BY DEF HasHeader, EmptyBytes
  <2> QED
    BY <1>2, <2>1, <2>2, ProjectionDecoded
<1> QED
  BY <1>1, <1>2

(* A record's challenge may be any reduced polynomial; the codec wants one *)
(* that the sampler could return.                                          *)
LEMMA ProofForms ==
  ASSUME NEW z \in ProofBodies
  PROVE  IF IsOk(zk_proof_from_wit(z))
         THEN /\ zk_proof_from_wit(z) = Ok(ProofIn(z)) /\ ProofIn(z).commitment_w \in Vec
              /\ ProofIn(z).challenge_c.of = z.transcript
              /\ PolyWords(ProofIn(z).challenge_c.poly) = z.challenge_c
              /\ decode_proof(encode_wit_proof(z))
                   = IF ChallengeError(z.challenge_c) = "none" THEN Ok(ProofIn(z))
                     ELSE Err(ChallengeError(z.challenge_c))
         ELSE ~ IsOk(decode_proof(encode_wit_proof(z)))
<1>1. CASE IsOk(zk_proof_from_wit(z))
  <2>1. /\ zk_proof_from_wit(z) = Ok(ProofIn(z)) /\ IsProofBody(z)
        /\ Reduced(z.commitment_w) /\ Reduced(z.challenge_c) /\ Reduced(z.response_z)
    BY <1>1, OkFacts DEF zk_proof_from_wit
  <2>2. ProofIn(z).commitment_w \in Vec /\ proof_to_bytes(ProofIn(z)) = z
    BY <2>1, ProofRead
  <2>3. encode_wit_proof(z) = encode_envelope(Kind.Proof, z)
    BY <2>1, <2>2, OkFacts DEF encode_wit_proof, encode_proof
  <2>4. ProofIn(z).challenge_c.of = z.transcript
    BY DEF ProofIn
  <2>5. PolyWords(ProofIn(z).challenge_c.poly) = z.challenge_c
    <3>1. proof_to_bytes(ProofIn(z)).challenge_c = PolyWords(ProofIn(z).challenge_c.poly)
      BY DEF proof_to_bytes
    <3> QED
      BY <2>2, <3>1
  <2>6. decode_proof(encode_wit_proof(z)) = proof_from_bytes(z)
    BY <2>3, EnvelopeDecodes, OkFacts DEF decode_proof
  <2>7. proof_from_bytes(z) = IF ChallengeError(z.challenge_c) = "none" THEN Ok(ProofIn(z))
                              ELSE Err(ChallengeError(z.challenge_c))
    BY <2>1 DEF proof_from_bytes
  <2> QED
    BY <1>1, <2>1, <2>2, <2>4, <2>5, <2>6, <2>7
<1>2. CASE ~ IsOk(zk_proof_from_wit(z))
  <2>1. encode_wit_proof(z) = EmptyBytes
    BY <1>2 DEF encode_wit_proof
  <2>2. ~ HasHeader(EmptyBytes)
    BY DEF HasHeader, EmptyBytes
  <2> QED
    BY <1>2, <2>1, <2>2, ProofDecoded
<1> QED
  BY <1>1, <1>2

(* Every challenge that verifies is one the codec reads.                   *)
LEMMA ReadableChallenge ==
  ASSUME NEW o \in Oracle, NEW proj \in Projection, NEW proof, proof.commitment_w \in Vec,
         verify(o, proj, proof)
  PROVE  ChallengeError(PolyWords(proof.challenge_c.poly)) = "none"
<1>1. proj.public_b \in Vec /\ proj.tau \in Tag /\ proj.salt \in Salt
  BY DEF Projection
<1>2. proof.challenge_c \in Challenge
  BY <1>1, ChallengeTyped DEF verify
<1> QED
  BY <1>2, CodecAssumption DEF Challenge

(* A verifier that is given records and one that is given their encodings  *)
(* answer alike (plp_verify against plp_verify_bytes).                     *)
THEOREM TwoVerifiers == Spec => []BytesAgreeWithRecords
<1>1. ASSUME IInv, NEW p \in ProjectionBodies, NEW z \in ProofBodies, NEW ctx \in Context
      PROVE  plp_verify_bytes(oracle, encode_wit_projection(p), encode_wit_proof(z), ctx) = Accepted
               <=> plp_verify(oracle, p, z) = Accepted /\ p.tau = Pad(ctx)
  <2> DEFINE P == ProjectionIn(p)
             Z == ProofIn(z)
             Bytes == plp_verify_bytes(oracle, encode_wit_projection(p), encode_wit_proof(z), ctx) = Accepted
             Records == plp_verify(oracle, p, z) = Accepted
  <2>0. oracle \in Oracle
    BY <1>1 DEF IInv
  <2>1. CASE ~ IsOk(projection_from_wit(p)) \/ ~ IsOk(zk_proof_from_wit(z))
    <3>1. ~ Records
      BY <2>1, RecordsVerdict
    <3>2. ~ Bytes
      BY <2>1, BytesVerdict, ProjectionForms, ProofForms
    <3> QED
      BY <3>1, <3>2
  <2>2. CASE IsOk(projection_from_wit(p)) /\ IsOk(zk_proof_from_wit(z))
    <3>1. /\ projection_from_wit(p) = Ok(P) /\ P \in Projection /\ P.tau = p.tau
          /\ decode_projection(encode_wit_projection(p)) = Ok(P)
      BY <2>2, ProjectionForms
    <3>2. /\ zk_proof_from_wit(z) = Ok(Z) /\ Z.commitment_w \in Vec
          /\ PolyWords(Z.challenge_c.poly) = z.challenge_c
          /\ decode_proof(encode_wit_proof(z)) = IF ChallengeError(z.challenge_c) = "none" THEN Ok(Z)
                                                 ELSE Err(ChallengeError(z.challenge_c))
      BY <2>2, ProofForms
    <3> HIDE DEF P, Z
    <3>3. Records <=> verify(oracle, P, Z)
      BY <3>1, <3>2, RecordsVerdict, OkFacts
    <3>4. Bytes <=> ChallengeError(z.challenge_c) = "none" /\ P.tau = Pad(ctx) /\ verify(oracle, P, Z)
      BY <3>1, <3>2, BytesVerdict, OkFacts
    <3>5. verify(oracle, P, Z) => ChallengeError(z.challenge_c) = "none"
      BY <2>0, <3>1, <3>2, ReadableChallenge
    <3> QED
      BY <3>1, <3>3, <3>4, <3>5
  <2> QED
    BY <2>1, <2>2
<1>2. ASSUME IInv, NEW projected \in ReturnedBy("project"), NEW proved \in ReturnedBy("prove"),
             NEW records \in Pairs(projected.value, AlteredBodies(projected.value),
                                   proved.value, AlteredBodies(proved.value))
      PROVE  records[1] \in ProjectionBodies /\ records[2] \in ProofBodies
  <2>1. projected.value \in ProjectionBodies /\ proved.value \in ProofBodies
    BY <1>2, ProjectedFacts, ProvedFacts, ProjectionRecord, ProofRecord
  <2>2. /\ records[1] \in {projected.value} \cup AlteredBodies(projected.value)
        /\ records[2] \in {proved.value} \cup AlteredBodies(proved.value)
    BY <1>2 DEF Pairs
  <2> QED
    BY <2>1, <2>2, AlteredProjection, AlteredProof
<1>3. IInv => BytesAgreeWithRecords
  BY <1>1, <1>2 DEF BytesAgreeWithRecords, Accepted
<1> QED
  BY <1>3, Inductive, PTL
-----------------------------------------------------------------------------
(***************************************************************************)
(* Presentations.  Their lists of words are read back as the elements they *)
(* were made of.                                                           *)
(***************************************************************************)
LEMMA IndexOf ==
  ASSUME NEW N \in Nat \ {0}, NEW i \in Nat, NEW l \in 1 .. N
  PROVE  (i * N + l - 1) \div N = i /\ 1 + ((i * N + l - 1) % N) = l
<1>1. l - 1 \in 0 .. N - 1
  OBVIOUS
<1>2. ASSUME NEW k \in 0 .. N - 1 PROVE (i * N + k) \div N = i /\ (i * N + k) % N = k
  BY SMTT(30)
<1>3. (i * N + (l - 1)) \div N = i /\ (i * N + (l - 1)) % N = l - 1
  BY <1>1, <1>2
<1>4. i * N + l - 1 = i * N + (l - 1) /\ i * N \in Nat
  OBVIOUS
<1> QED
  BY <1>3, <1>4

LEMMA IndexInRange ==
  ASSUME NEW N \in Nat \ {0}, NEW K \in Nat, NEW i \in 0 .. K - 1, NEW l \in 1 .. N
  PROVE  i * N + l \in 1 .. K * N
<1>1. i * N + N = (i + 1) * N /\ i * N \in Nat
  OBVIOUS
<1>2. i + 1 <= K /\ i + 1 \in Nat
  OBVIOUS
<1>3. (i + 1) * N <= K * N
  BY <1>2
<1> QED
  BY <1>1, <1>3

(* Every position is some word of some element.                            *)
LEMMA PositionOf ==
  ASSUME NEW N \in Nat \ {0}, NEW K \in Nat, NEW j \in 1 .. K * N
  PROVE  \E i \in 0 .. K - 1, l \in 1 .. N : j = i * N + l
<1> DEFINE i == (j - 1) \div N
           l == 1 + ((j - 1) % N)
<1>1. j - 1 \in Nat
  OBVIOUS
<1>2. ASSUME NEW x \in Nat PROVE x \div N \in Nat /\ x % N \in 0 .. N - 1 /\ x = (x \div N) * N + (x % N)
  BY SMTT(30)
<1>3. i \in Nat /\ l \in 1 .. N /\ j = i * N + l
  BY <1>1, <1>2
<1> HIDE DEF i, l
<1>4. i < K
  <2>1. SUFFICES ASSUME K <= i PROVE FALSE
    BY <1>3
  <2>2. K * N <= i * N
    BY <1>3, <2>1
  <2> QED
    BY <1>3, <2>2
<1>5. i \in 0 .. K - 1
  BY <1>3, <1>4
<1> QED
  BY <1>3, <1>5

(* Element i of a list of words, where its words are, and how many words K *)
(* elements have.                                                          *)
Piece(flat, i) == SubSeq(flat, i * RING_N + 1, (i + 1) * RING_N)
Place(i, l)    == i * RING_N + l
Size(K)        == K * RING_N

LEMMA Places ==
  ASSUME NEW K \in Nat
  PROVE  /\ Size(K) \in Nat
         /\ \A i \in 0 .. K - 1, l \in 1 .. RING_N : Place(i, l) \in 1 .. Size(K)
         /\ \A j \in 1 .. Size(K) : \E i \in 0 .. K - 1, l \in 1 .. RING_N : j = Place(i, l)
<1>1. RING_N \in Nat \ {0}
  BY ElementAssumption
<1>2. ASSUME NEW i \in 0 .. K - 1, NEW l \in 1 .. RING_N PROVE Place(i, l) \in 1 .. Size(K)
  BY <1>1, IndexInRange DEF Place, Size
<1>3. ASSUME NEW j \in 1 .. Size(K) PROVE \E i \in 0 .. K - 1, l \in 1 .. RING_N : j = Place(i, l)
  BY <1>1, PositionOf DEF Place, Size
<1> QED
  BY <1>1, <1>2, <1>3 DEF Size

LEMMA Pieces ==
  ASSUME NEW K \in Nat, NEW S, NEW flat \in Seq(S), Len(flat) = Size(K), NEW i \in 0 .. K - 1
  PROVE  Piece(flat, i) \in [1 .. RING_N -> S]
         /\ \A l \in 1 .. RING_N : Piece(flat, i)[l] = flat[Place(i, l)]
<1> DEFINE a == i * RING_N
           b == (i + 1) * RING_N
<1>1. RING_N \in Nat \ {0}
  BY ElementAssumption
<1>2. a \in Nat /\ b = a + RING_N
  BY <1>1
<1>3. ASSUME NEW l \in 1 .. RING_N PROVE Place(i, l) = a + l /\ Place(i, l) \in 1 .. Len(flat)
  BY <1>1, Places DEF Place
<1>4. Piece(flat, i) = SubSeq(flat, a + 1, b)
  BY DEF Piece
<1> HIDE DEF a, b
<1>5. Piece(flat, i) = [x \in 1 .. RING_N |-> flat[a + x]]
  BY <1>1, <1>2, <1>3, <1>4
<1>6. \A l \in 1 .. RING_N : flat[a + l] \in S
  BY <1>3
<1> QED
  BY <1>3, <1>5, <1>6

LEMMA IsList ==
  ASSUME NEW S, NEW n \in Nat, NEW f \in [1 .. n -> S]
  PROVE  f \in Seq(S) /\ Len(f) = n
  OBVIOUS

(* Flattened elements are read back as they were.                          *)
LEMMA FlatWord ==
  ASSUME NEW K \in Nat, NEW polys, NEW i \in 0 .. K - 1, NEW l \in 1 .. RING_N
  PROVE  flatten(polys, 0 .. K - 1)[Place(i, l)] = RWords(polys[i])[l]
<1> DEFINE n == Place(i, l)
           total == Size(K)
<1>1. RING_N \in Nat \ {0}
  BY ElementAssumption
<1>2. n \in 1 .. total
  BY Places
<1>3. (n - 1) \div RING_N = i /\ 1 + ((n - 1) % RING_N) = l
  BY <1>1, IndexOf DEF Place
<1>4. Cardinality(0 .. K - 1) = K
  BY FS_Interval
<1>5. flatten(polys, 0 .. K - 1)
        = [j \in 1 .. total |-> RWords(polys[(j - 1) \div RING_N])[1 + ((j - 1) % RING_N)]]
  BY <1>4 DEF flatten, Size
<1> HIDE DEF n, total
<1>6. flatten(polys, 0 .. K - 1)[n] = RWords(polys[i])[l]
  BY <1>2, <1>3, <1>5
<1> QED
  BY <1>6 DEF n

LEMMA Flattened ==
  ASSUME NEW K \in Nat, NEW polys \in [0 .. K - 1 -> R],
         NEW flat, flat = flatten(polys, 0 .. K - 1)
  PROVE  /\ flat \in Seq(0 .. Q - 1) /\ Len(flat) = Size(K)
         /\ unflatten(K, flat) = Ok(polys)
<1>1. Cardinality(0 .. K - 1) = K
  BY FS_Interval
<1>2. flat = [j \in 1 .. Size(K) |-> flat[j]]
  BY <1>1 DEF flatten, Size
<1>3. ASSUME NEW i \in 0 .. K - 1
      PROVE  RWords(polys[i]) \in [1 .. RING_N -> 0 .. Q - 1] /\ ROf(RWords(polys[i])) = polys[i]
  BY ElementAssumption DEF Words
<1>4. ASSUME NEW j \in 1 .. Size(K) PROVE flat[j] \in 0 .. Q - 1
  <2>1. PICK i \in 0 .. K - 1, l \in 1 .. RING_N : j = Place(i, l)
    BY Places
  <2>2. flat[j] = RWords(polys[i])[l]
    BY <2>1, FlatWord
  <2> QED
    BY <1>3, <2>2
<1>5. flat \in [1 .. Size(K) -> 0 .. Q - 1]
  BY <1>2, <1>4
<1>6. flat \in Seq(0 .. Q - 1) /\ Len(flat) = Size(K)
  <2> DEFINE S == 0 .. Q - 1
  <2>1. Size(K) \in Nat /\ flat \in [1 .. Size(K) -> S]
    BY <1>5, Places
  <2> HIDE DEF S
  <2>2. flat \in Seq(S) /\ Len(flat) = Size(K)
    BY <2>1, IsList
  <2> QED
    BY <2>2 DEF S
<1>7. ASSUME NEW i \in 0 .. K - 1 PROVE ROf(Piece(flat, i)) = polys[i]
  <2> DEFINE c == Piece(flat, i)
             w == RWords(polys[i])
  <2>1. c \in [1 .. RING_N -> 0 .. Q - 1] /\ \A l \in 1 .. RING_N : c[l] = flat[Place(i, l)]
    <3> DEFINE S == 0 .. Q - 1
    <3>1. flat \in Seq(S) /\ Len(flat) = Size(K)
      BY <1>6
    <3> HIDE DEF S
    <3>2. c \in [1 .. RING_N -> S] /\ \A l \in 1 .. RING_N : c[l] = flat[Place(i, l)]
      BY <3>1, Pieces
    <3> QED
      BY <3>2 DEF S
  <2>2. \A l \in 1 .. RING_N : flat[Place(i, l)] = w[l]
    BY FlatWord
  <2>3. w \in [1 .. RING_N -> 0 .. Q - 1] /\ ROf(w) = polys[i]
    BY <1>3
  <2> HIDE DEF c, w
  <2>4. c = [l \in 1 .. RING_N |-> c[l]] /\ w = [l \in 1 .. RING_N |-> w[l]]
    BY <2>1, <2>3
  <2>5. \A l \in 1 .. RING_N : c[l] = w[l]
    BY <2>1, <2>2
  <2>6. c = w
    BY <2>4, <2>5
  <2> QED
    BY <2>3, <2>6 DEF c
<1>8. unflatten(K, flat) = Ok([i \in 0 .. K - 1 |-> ROf(Piece(flat, i))])
  BY <1>6 DEF unflatten, Piece, Size
<1>9. [i \in 0 .. K - 1 |-> ROf(Piece(flat, i))] = polys
  BY <1>7
<1> QED
  BY <1>6, <1>8, <1>9

(* No other words are read as the same elements, reduced or not.           *)
LEMMA UnflattenInjective ==
  ASSUME NEW K \in Nat, NEW u \in Seq(0 .. 2 * Q), NEW v \in Seq(0 .. 2 * Q),
         IsOk(unflatten(K, u)), IsOk(unflatten(K, v)), unflatten(K, u).ok = unflatten(K, v).ok
  PROVE  u = v
<1>1. /\ Len(u) = Size(K) /\ unflatten(K, u).ok = [i \in 0 .. K - 1 |-> ROf(Piece(u, i))]
      /\ Len(v) = Size(K) /\ unflatten(K, v).ok = [i \in 0 .. K - 1 |-> ROf(Piece(v, i))]
  BY OkFacts DEF unflatten, Piece, Size
<1>2. ASSUME NEW i \in 0 .. K - 1 PROVE Piece(u, i) = Piece(v, i)
  <2>1. Piece(u, i) \in [1 .. RING_N -> 0 .. 2 * Q] /\ Piece(v, i) \in [1 .. RING_N -> 0 .. 2 * Q]
    BY <1>1, Pieces
  <2>2. ROf(Piece(u, i)) = ROf(Piece(v, i))
    <3>1. [k \in 0 .. K - 1 |-> ROf(Piece(u, k))][i] = [k \in 0 .. K - 1 |-> ROf(Piece(v, k))][i]
      BY <1>1
    <3> QED
      BY <3>1
  <2> QED
    BY <2>1, <2>2, ElementAssumption
<1>3. ASSUME NEW j \in 1 .. Size(K) PROVE u[j] = v[j]
  <2>1. PICK i \in 0 .. K - 1, l \in 1 .. RING_N : j = Place(i, l)
    BY Places
  <2>2. Piece(u, i)[l] = u[j] /\ Piece(v, i)[l] = v[j]
    BY <1>1, <2>1, Pieces
  <2> QED
    BY <1>2, <2>2
<1> QED
  BY <1>1, <1>3, Places
-----------------------------------------------------------------------------
(* What presenting a credential computes, as a call of CredentialLemmas.   *)
CallOf(issuer, blinded, seed, tau, rho, disclosed, rand) ==
  [issuer |-> issuer, blinded |-> blinded, by |-> seed,
   proj |-> [by |-> seed, ctx |-> tau, rho |-> rho],
   ctx |-> tau, rho |-> rho, disclosed |-> disclosed, rand |-> rand]

LEMMA PresenterReturns ==
  ASSUME NEW o \in Oracle, NEW issuer \in Issuer, NEW blinded \in BlindedCredential,
         NEW seed \in Identity, NEW tau \in Context, NEW rho \in LongEnough,
         NEW disclosed \in SUBSET Attributes, NEW rand \in LongEnough,
         NEW in, in = CallOf(issuer, blinded, seed, tau, rho, disclosed, rand),
         NEW p, p = prove(o, issuer, blinded, seed, project_at_context(o, seed, tau, rho),
                          tau, rho, disclosed, rand),
         IsOk(p)
  PROVE  /\ in \in AnyCall(o)
         /\ \E i \in Nat : p.ok = PresentationAt(o, in, i) /\ ShortResponses(ResponsesAt(o, in, i))
<1> DEFINE proj == project_at_context(o, seed, tau, rho)
           values == DisclosedValues(blinded.m, disclosed)
           statement == Statement(issuer, blinded.t_blind, proj, tau, disclosed, values)
           A == derive_context_matrix(o, proj.tau, proj.salt)
           Attempts  == 0 .. MAX_REJECTION_ITERATIONS - 1
           y == [i \in Attempts |-> Masks(o, <<rand, statement, i>>)]
           c == [i \in Attempts |-> derive_challenge(o, Commitment(o, issuer, y[i].r, y[i].m),
                                                     Add(Apply(A, y[i].s), y[i].e), statement)]
           Response(e, y_i) ==
             [r |-> RVecAdd(y_i.r, RVecScale(e, blinded.r_star)),
              m |-> RVecAdd(y_i.m, RVecScale(e, Hidden(blinded.m, disclosed))),
              s |-> Add(y_i.s, Scale(e, SecretOf(o, seed))),
              e |-> Add(y_i.e, Scale(e, derive_error_tau(o, rho, tau)))]
           z == [i \in Attempts |-> Response(c[i].poly, y[i])]
           Acceptable == {i \in Attempts : ShortResponses(z[i])}
           first == FirstOf(Acceptable)
<1>1. /\ Acceptable # {}
      /\ p.ok = [disclosed |-> disclosed, values |-> values, challenge |-> c[first], z |-> z[first]]
  <2>1. p = IF TooShort(rand) THEN Err("InvalidInputLength")
            ELSE IF Acceptable = {} THEN Err("RejectionSamplingFailed")
            ELSE Ok([disclosed |-> disclosed, values |-> values, challenge |-> c[first], z |-> z[first]])
    BY Zenon DEF prove
  <2> HIDE DEF proj, values, statement, A, y, c, z, Acceptable, first
  <2> QED
    BY <2>1, OkFacts
<1>2. first \in Attempts /\ ShortResponses(z[first]) /\ first \in Nat
  <2>1. Acceptable \subseteq Nat
    <3>1. Acceptable \subseteq Attempts
      BY Zenon
    <3> HIDE DEF Acceptable
    <3>2. Attempts \subseteq Nat
      OBVIOUS
    <3> QED
      BY <3>1, <3>2
  <2>2. first \in Acceptable
    BY <1>1, <2>1, FirstOfLeast, ZenonT(30)
  <2>3. Attempts \subseteq Nat
    OBVIOUS
  <2> HIDE DEF z, first, Attempts
  <2> QED
    BY <2>2, <2>3
<1>3. /\ in.issuer = issuer /\ in.blinded = blinded /\ in.by = seed /\ in.ctx = tau /\ in.rho = rho
      /\ in.disclosed = disclosed /\ in.rand = rand
      /\ in.proj.by = seed /\ in.proj.ctx = tau /\ in.proj.rho = rho
  BY DEF CallOf
<1>4. proj = ProjectionAt(o, in) /\ statement = StatementAt(o, in) /\ A = MatrixOfCall(o, in)
  BY <1>3 DEF ProjectionAt, StatementAt, MatrixOfCall
<1>5. y[first] = MasksAt(o, in, first)
  BY <1>2, <1>3, <1>4 DEF MasksAt
<1>6. c[first] = derive_challenge(o, Commitment(o, issuer, y[first].r, y[first].m),
                                  Add(Apply(A, y[first].s), y[first].e), statement)
  BY <1>2
<1>7. z[first] = Response(c[first].poly, y[first])
  BY <1>2
<1> HIDE DEF proj, statement, A, y, c, z, first
<1>8. c[first] = ChallengeAt(o, in, first)
  BY <1>3, <1>4, <1>5, <1>6 DEF ChallengeAt
<1>9. z[first] = ResponsesAt(o, in, first)
  BY <1>3, <1>5, <1>7, <1>8 DEF ResponsesAt
<1>10. p.ok = PresentationAt(o, in, first)
  BY <1>1, <1>3, <1>8, <1>9 DEF PresentationAt
<1>11. in \in AnyCall(o)
  <2>1. derive_error_tau(o, rho, tau) \in Short
    BY OracleAssumption DEF derive_error_tau
  <2>2. [by |-> seed, ctx |-> tau, rho |-> rho] \in [by : Identity, ctx : Context, rho : LongEnough]
    OBVIOUS
  <2>3. rho \in Randomness /\ rand \in Randomness
    BY BoundsAssumption
  <2>4. in \in [issuer : Issuer, blinded : BlindedCredential, by : Identity,
                proj : [by : Identity, ctx : Context, rho : LongEnough],
                ctx : Context, rho : Randomness, disclosed : SUBSET Attributes, rand : Randomness]
    BY <2>2, <2>3 DEF CallOf
  <2> QED
    BY <1>3, <2>1, <2>4 DEF AnyCall
<1> QED
  BY <1>2, <1>9, <1>10, <1>11
-----------------------------------------------------------------------------
(* A credential opens after blinding as it did when it was issued.         *)
LEMMA BlindedOpens ==
  ASSUME NEW o \in Oracle, NEW issuer \in Issuer, NEW id \in Identity,
         NEW attributes \in [Attributes -> Value], NEW rand \in LongEnough, NEW blinding \in LongEnough,
         NEW b, b = blind(o, issuer, issue(o, issuer, id, attributes, rand), blinding)
  PROVE  /\ b \in BlindedCredential
         /\ b.t_blind = Commitment(o, issuer, b.r_star, b.m)
         /\ HoldsValues(b.m)
         /\ b.m[IDENTITY_SLOT] = First(SecretOf(o, id))
<1> DEFINE cred == issue(o, issuer, id, attributes, rand)
           x == BlindR(o, blinding)
<1>1. /\ cred \in [t_cred : [TRows -> R], r : RVec, m : Messages]
      /\ cred.m = [slot \in Slots |-> IF slot = IDENTITY_SLOT THEN First(SecretOf(o, id))
                                      ELSE Encode(attributes[slot])]
  BY IssueTyped
<1>2. cred.t_cred = Commitment(o, issuer, cred.r, cred.m)
  BY DEF issue
<1>3. x \in RVec
  BY IssuingAssumption
<1>4. b = [t_blind |-> RVecAdd(cred.t_cred, Mul(o, issuer, x)), r_star |-> RVecAdd(cred.r, x), m |-> cred.m]
  BY DEF blind
<1>5. b \in BlindedCredential
  BY <1>1, BlindTyped
<1> HIDE DEF cred, x
<1>6. ASSUME NEW row \in TRows
      PROVE  RAdd(RAdd(RowMul(o, issuer, row, cred.r), Lift(cred.m)[row]), RowMul(o, issuer, row, x))
               = RAdd(RowMul(o, issuer, row, RVecAdd(cred.r, x)), Lift(cred.m)[row])
  <2> DEFINE a == RowMul(o, issuer, row, cred.r)
             l == Lift(cred.m)[row]
             d == RowMul(o, issuer, row, x)
  <2>1. a \in R /\ d \in R /\ l \in R
    BY <1>1, <1>3, CommitmentAssumption, LiftTyped
  <2>2. RowMul(o, issuer, row, RVecAdd(cred.r, x)) = RAdd(a, d)
    BY <1>1, <1>3, CommitmentAssumption
  <2> HIDE DEF a, l, d
  <2>3. RAdd(RAdd(a, l), d) = RAdd(a, RAdd(l, d)) /\ RAdd(l, d) = RAdd(d, l)
        /\ RAdd(a, RAdd(d, l)) = RAdd(RAdd(a, d), l)
    BY <2>1, RingAssumption
  <2> QED
    BY <2>2, <2>3 DEF a, l, d
<1>7. b.t_blind = Commitment(o, issuer, b.r_star, b.m)
  <2>1. b.t_blind = [row \in TRows |-> RAdd(RAdd(RowMul(o, issuer, row, cred.r), Lift(cred.m)[row]),
                                            RowMul(o, issuer, row, x))]
    BY <1>2, <1>4, CommitmentRows DEF RVecAdd, Mul
  <2>2. Commitment(o, issuer, b.r_star, b.m)
          = [row \in TRows |-> RAdd(RowMul(o, issuer, row, RVecAdd(cred.r, x)), Lift(cred.m)[row])]
    BY <1>4, CommitmentRows
  <2> QED
    BY <1>6, <2>1, <2>2
<1>8. HoldsValues(b.m)
  <2>1. ASSUME NEW slot \in Attributes PROVE b.m[slot] = Encode(attributes[slot])
    <3>1. slot \in Slots /\ slot # IDENTITY_SLOT
      BY DEF Attributes, Slots, IDENTITY_SLOT
    <3> QED
      BY <1>1, <1>4, <3>1
  <2> QED
    BY <2>1 DEF HoldsValues
<1>9. b.m[IDENTITY_SLOT] = First(SecretOf(o, id))
  <2>1. IDENTITY_SLOT \in Slots
    BY SizesAssumption DEF Slots, IDENTITY_SLOT
  <2> QED
    BY <1>1, <1>4, <2>1
<1> QED
  BY <1>5, <1>7, <1>8, <1>9
-----------------------------------------------------------------------------
(* The presentation of attempt i, as the interface returns it, and what    *)
(* the interface reads in it.                                              *)
Shown(o, in, i) ==
  [tau              |-> in.ctx,
   disclosed        |-> in.disclosed,
   disclosed_values |-> DisclosedValues(in.blinded.m, in.disclosed),
   t_blind          |-> flatten(in.blinded.t_blind, TRows),
   challenge        |-> RWords(ChallengeAt(o, in, i).poly),
   transcript       |-> ChallengeAt(o, in, i).of,
   z_r              |-> flatten(ResponsesAt(o, in, i).r, LRows),
   z_m              |-> flatten(ResponsesAt(o, in, i).m, Slots),
   z_s              |-> VecWords(ResponsesAt(o, in, i).s),
   z_e              |-> VecWords(ResponsesAt(o, in, i).e)]

LEMMA RowsCounted ==
  /\ Cardinality(TRows) \in Nat /\ TRows = 0 .. Cardinality(TRows) - 1
  /\ Cardinality(Slots) \in Nat /\ Slots = 0 .. Cardinality(Slots) - 1
  /\ CRED_L \in Nat /\ LRows = 0 .. CRED_L - 1
<1>1. CRED_L \in Nat /\ CRED_ATTRIBUTES \in Nat
  BY SizesAssumption
<1>2. Cardinality(0 .. CRED_L + CRED_ATTRIBUTES) = CRED_L + CRED_ATTRIBUTES + 1
  <2>1. 0 \in Int /\ CRED_L + CRED_ATTRIBUTES \in Int
    BY <1>1
  <2> QED
    BY <1>1, <2>1, FS_Interval
<1>3. Cardinality(0 .. CRED_ATTRIBUTES) = CRED_ATTRIBUTES + 1
  BY <1>1, FS_Interval
<1> QED
  BY <1>1, <1>2, <1>3 DEF TRows, LRows, Slots

LEMMA ShownIsRead ==
  ASSUME NEW o \in Oracle, NEW in \in AnyCall(o), NEW i, NEW v, v = Shown(o, in, i)
  PROVE  /\ IsPresentation(v) /\ NativeOf(v) = PresentationAt(o, in, i)
         /\ unflatten(Cardinality(TRows), v.t_blind) = Ok(in.blinded.t_blind)
         /\ v.t_blind \in Seq(0 .. Q - 1) /\ v.z_m \in Seq(0 .. Q - 1)
         /\ unflatten(Cardinality(Slots), v.z_m) = Ok(ResponsesAt(o, in, i).m)
<1> DEFINE t == in.blinded.t_blind
           z == ResponsesAt(o, in, i)
           c == ChallengeAt(o, in, i)
           NT == Cardinality(TRows)
           NS == Cardinality(Slots)
<1>1. /\ t \in [TRows -> R] /\ c.poly \in ChalPoly
      /\ z.r \in [LRows -> R] /\ z.m \in [Slots -> R] /\ z.s \in Vec /\ z.e \in Vec
  BY AttemptTyped DEF AnyCall, BlindedCredential, MaskSet, RVec, Messages
<1>2. /\ v.disclosed = in.disclosed /\ v.disclosed_values = DisclosedValues(in.blinded.m, in.disclosed)
      /\ v.t_blind = flatten(t, TRows) /\ v.challenge = RWords(c.poly) /\ v.transcript = c.of
      /\ v.z_r = flatten(z.r, LRows) /\ v.z_m = flatten(z.m, Slots)
      /\ v.z_s = VecWords(z.s) /\ v.z_e = VecWords(z.e)
  BY DEF Shown
<1>3. c = [of |-> c.of, poly |-> c.poly]
  BY DEF ChallengeAt, derive_challenge
<1>4. z = [r |-> z.r, m |-> z.m, s |-> z.s, e |-> z.e]
  BY DEF ResponsesAt
<1>5. NT \in Nat /\ TRows = 0 .. NT - 1 /\ NS \in Nat /\ Slots = 0 .. NS - 1
      /\ CRED_L \in Nat /\ LRows = 0 .. CRED_L - 1
  BY RowsCounted
<1>6. PresentationAt(o, in, i) =
        [disclosed |-> in.disclosed, values |-> DisclosedValues(in.blinded.m, in.disclosed),
         challenge |-> c, z |-> z]
  BY DEF PresentationAt
<1> HIDE DEF t, z, c, NT, NS
<1>7. unflatten(NT, v.t_blind) = Ok(t) /\ v.t_blind \in Seq(0 .. Q - 1)
  BY <1>1, <1>2, <1>5, Flattened
<1>8. unflatten(NS, v.z_m) = Ok(z.m) /\ v.z_m \in Seq(0 .. Q - 1)
  BY <1>1, <1>2, <1>5, Flattened
<1>9. unflatten(CRED_L, v.z_r) = Ok(z.r)
  BY <1>1, <1>2, <1>5, Flattened
<1>10. /\ Len(v.z_s) = VEC_WORDS /\ VecOf(v.z_s) = z.s
       /\ Len(v.z_e) = VEC_WORDS /\ VecOf(v.z_e) = z.e
  <2>1. /\ VecWords(z.s) \in Words(VEC_WORDS) /\ VecOf(VecWords(z.s)) = z.s
        /\ VecWords(z.e) \in Words(VEC_WORDS) /\ VecOf(VecWords(z.e)) = z.e
        /\ VEC_WORDS \in Nat
    BY <1>1, CodecAssumption
  <2> QED
    BY <1>2, <2>1, WordsReduced
<1>11. Len(v.challenge) = RING_N /\ ROf(v.challenge) = c.poly
  <2>1. RWords(c.poly) \in Words(RING_N) /\ ROf(RWords(c.poly)) = c.poly /\ RING_N \in Nat
    BY <1>1, ElementAssumption
  <2> QED
    BY <1>2, <2>1, WordsReduced
<1>12. Len(v.disclosed_values) = CRED_ATTRIBUTES
  BY <1>2, SizesAssumption DEF DisclosedValues, Attributes
<1>13. IsPresentation(v)
  BY <1>7, <1>8, <1>9, <1>10, <1>11, <1>12, OkFacts DEF IsPresentation, NT, NS
<1>14. NativeOf(v) = PresentationAt(o, in, i)
  <2>1. NativeOf(v) =
          [disclosed |-> v.disclosed, values |-> v.disclosed_values,
           challenge |-> [of |-> v.transcript, poly |-> ROf(v.challenge)],
           z |-> [r |-> unflatten(CRED_L, v.z_r).ok, m |-> unflatten(NS, v.z_m).ok,
                  s |-> VecOf(v.z_s), e |-> VecOf(v.z_e)]]
    BY DEF NativeOf, NS
  <2>2. unflatten(CRED_L, v.z_r).ok = z.r /\ unflatten(NS, v.z_m).ok = z.m
    BY <1>8, <1>9, OkFacts
  <2>3. [r |-> unflatten(CRED_L, v.z_r).ok, m |-> unflatten(NS, v.z_m).ok,
         s |-> VecOf(v.z_s), e |-> VecOf(v.z_e)] = z
    BY <1>4, <1>10, <2>2
  <2>4. [of |-> v.transcript, poly |-> ROf(v.challenge)] = c
    BY <1>2, <1>3, <1>11
  <2> QED
    BY <1>2, <1>6, <2>1, <2>3, <2>4
<1> QED
  BY <1>7, <1>8, <1>13, <1>14 DEF t, z, NT, NS

(* What a host holds of a presentation.                                    *)
LEMMA PresentedFacts ==
  ASSUME IInv, NEW r \in ReturnedBy("present")
  PROVE  \E in \in AnyCall(oracle), i \in Nat :
           /\ r.value = Shown(oracle, in, i) /\ ShortResponses(ResponsesAt(oracle, in, i))
           /\ in.issuer = r.call.cred.owned.params /\ in.by = r.call.by
           /\ in.ctx = r.call.ctx /\ in.rho = r.call.rho
           /\ ProjectionAt(oracle, in) = project_at_context(oracle, r.call.by, r.call.ctx, r.call.rho)
           /\ in.blinded.t_blind = Commitment(oracle, in.issuer, in.blinded.r_star, in.blinded.m)
           /\ HoldsValues(in.blinded.m)
           /\ r.call.cred.to \in Identity
           /\ in.blinded.m[IDENTITY_SLOT] = First(SecretOf(oracle, r.call.cred.to))
<1> DEFINE call == r.call
           cred == r.call.cred
           params == cred.owned.params
<1>1. PresentInv(r) /\ oracle \in Oracle
  BY DEF IInv, ReturnInv, ReturnedBy
<1>2. /\ call.by \in Identity /\ call.ctx \in Context /\ call.rho \in LongEnough
      /\ call.disclosed \in SUBSET Attributes /\ CredentialInv(cred)
  BY <1>1 DEF PresentInv, InputsInv
<1>3. PICK blinding \in LongEnough, rand \in LongEnough :
        /\ IsOk(Presented(call, blinding, rand)) /\ r.value = Presented(call, blinding, rand).ok
  BY <1>1 DEF PresentInv
<1>4. /\ params \in Issuer /\ cred.to \in Identity /\ cred.attributes \in [Attributes -> Value]
      /\ \E seed \in LongEnough :
           cred.owned.credential = issue(oracle, params, cred.to, cred.attributes, seed)
  BY <1>2 DEF CredentialInv
<1> DEFINE b == blind(oracle, params, cred.owned.credential, blinding)
           proj == project_at_context(oracle, call.by, call.ctx, call.rho)
           p == prove(oracle, params, b, call.by, proj, call.ctx, call.rho, call.disclosed, rand)
           in == CallOf(params, b, call.by, call.ctx, call.rho, call.disclosed, rand)
<1>5. /\ IsOk(p)
      /\ r.value = [tau              |-> call.ctx,
                    disclosed        |-> call.disclosed,
                    disclosed_values |-> [i \in Attributes |-> p.ok.values[i]],
                    t_blind          |-> flatten(b.t_blind, TRows),
                    challenge        |-> RWords(p.ok.challenge.poly),
                    transcript       |-> p.ok.challenge.of,
                    z_r              |-> flatten(p.ok.z.r, LRows),
                    z_m              |-> flatten(p.ok.z.m, Slots),
                    z_s              |-> VecWords(p.ok.z.s),
                    z_e              |-> VecWords(p.ok.z.e)]
  <2> DEFINE made == [tau              |-> call.ctx,
                      disclosed        |-> call.disclosed,
                      disclosed_values |-> [i \in Attributes |-> p.ok.values[i]],
                      t_blind          |-> flatten(b.t_blind, TRows),
                      challenge        |-> RWords(p.ok.challenge.poly),
                      transcript       |-> p.ok.challenge.of,
                      z_r              |-> flatten(p.ok.z.r, LRows),
                      z_m              |-> flatten(p.ok.z.m, Slots),
                      z_s              |-> VecWords(p.ok.z.s),
                      z_e              |-> VecWords(p.ok.z.e)]
             holder == [plp_seed |-> call.by]
  <2>1. holder.plp_seed = call.by
    OBVIOUS
  <2> HIDE DEF holder
  <2>2. present(oracle, cred.owned, holder, call.ctx, call.rho, call.disclosed, blinding, rand)
          = IF TooShort(call.rho) \/ TooShort(blinding) THEN Err("InvalidInputLength")
            ELSE IF ~ IsOk(p) THEN p ELSE Ok(made)
    BY <2>1, Zenon DEF present
  <2>3. Presented(call, blinding, rand)
          = present(oracle, cred.owned, holder, call.ctx, call.rho, call.disclosed, blinding, rand)
    BY Zenon DEF Presented, holder
  <2> HIDE DEF p, made
  <2>4. IsOk(p) /\ r.value = made
    BY <1>3, <2>2, <2>3, OkFacts
  <2> QED
    BY <2>4 DEF made
<1>6. /\ b \in BlindedCredential /\ b.t_blind = Commitment(oracle, params, b.r_star, b.m)
      /\ HoldsValues(b.m) /\ b.m[IDENTITY_SLOT] = First(SecretOf(oracle, cred.to))
  <2> HIDE DEF params, cred
  <2> QED
    BY <1>1, <1>4, BlindedOpens
<1> HIDE DEF b
<1>7. /\ in.issuer = params /\ in.blinded = b /\ in.by = call.by /\ in.ctx = call.ctx /\ in.rho = call.rho
      /\ in.disclosed = call.disclosed
      /\ in.proj.by = call.by /\ in.proj.ctx = call.ctx /\ in.proj.rho = call.rho
  BY DEF CallOf
<1>8. /\ in \in AnyCall(oracle)
      /\ \E i \in Nat : p.ok = PresentationAt(oracle, in, i) /\ ShortResponses(ResponsesAt(oracle, in, i))
  <2>1. p = prove(oracle, params, b, call.by, project_at_context(oracle, call.by, call.ctx, call.rho),
                  call.ctx, call.rho, call.disclosed, rand)
        /\ in = CallOf(params, b, call.by, call.ctx, call.rho, call.disclosed, rand)
    OBVIOUS
  <2> DEFINE by == call.by
             ctx == call.ctx
             rho == call.rho
             disclosed == call.disclosed
  <2>2. /\ p = prove(oracle, params, b, by, project_at_context(oracle, by, ctx, rho), ctx, rho, disclosed, rand)
        /\ in = CallOf(params, b, by, ctx, rho, disclosed, rand)
        /\ by \in Identity /\ ctx \in Context /\ rho \in LongEnough /\ disclosed \in SUBSET Attributes
        /\ params \in Issuer /\ b \in BlindedCredential /\ IsOk(p)
    BY <1>2, <1>4, <1>5, <1>6, <2>1
  <2> HIDE DEF params, p, in, by, ctx, rho, disclosed
  <2> QED
    BY <1>1, <2>2, PresenterReturns
<1>9. PICK i \in Nat : p.ok = PresentationAt(oracle, in, i) /\ ShortResponses(ResponsesAt(oracle, in, i))
  BY <1>8
<1> HIDE DEF p, in
<1>10. /\ p.ok.values = DisclosedValues(in.blinded.m, in.disclosed)
       /\ p.ok.challenge = ChallengeAt(oracle, in, i) /\ p.ok.z = ResponsesAt(oracle, in, i)
  BY <1>9 DEF PresentationAt
<1>11. [j \in Attributes |-> p.ok.values[j]] = DisclosedValues(in.blinded.m, in.disclosed)
  BY <1>10 DEF DisclosedValues
<1>12. r.value = Shown(oracle, in, i)
  BY <1>5, <1>7, <1>10, <1>11 DEF Shown
<1>13. ProjectionAt(oracle, in) = proj
  BY <1>7 DEF ProjectionAt
<1> QED
  BY <1>4, <1>6, <1>7, <1>8, <1>9, <1>12, <1>13
-----------------------------------------------------------------------------
(* What it takes to be accepted.                                           *)
LEMMA PresentationVerdict ==
  ASSUME NEW o, NEW issuer, NEW v, NEW P \in Projection, NEW tau
  PROVE  saap_verify_presentation(o, issuer, v, projection_to_bytes(P), tau) = Accepted <=>
           /\ v.tau = tau /\ IsPresentation(v)
           /\ verify_presentation(o, issuer, NativeOf(v),
                unflatten(Cardinality(TRows), v.t_blind).ok, P, tau)
<1> DEFINE bytes == projection_to_bytes(P)
           made == verify_presentation(o, issuer, NativeOf(v), unflatten(Cardinality(TRows), v.t_blind).ok, P, tau)
           verdict == saap_verify_presentation(o, issuer, v, bytes, tau)
<1>1. made \in BOOLEAN
  BY DEF verify_presentation
<1>2. projection_from_wit(bytes) = Ok(P)
  BY ProjectionRecord DEF projection_from_wit
<1>3. verdict = IF v.tau # tau THEN Ok(FALSE)
                ELSE IF ~ IsOk(projection_from_wit(bytes)) THEN projection_from_wit(bytes)
                ELSE IF ~ IsPresentation(v) THEN Err("InvalidInputLength")
                ELSE Ok(verify_presentation(o, issuer, NativeOf(v),
                          unflatten(Cardinality(TRows), v.t_blind).ok, projection_from_wit(bytes).ok, tau))
  BY Zenon DEF saap_verify_presentation
<1> HIDE DEF bytes, verdict
<1>4. verdict = IF v.tau # tau THEN Ok(FALSE)
                ELSE IF ~ IsPresentation(v) THEN Err("InvalidInputLength") ELSE Ok(made)
  BY <1>2, <1>3, OkFacts
<1> HIDE DEF made
<1>5. (Ok(made) = Accepted <=> made) /\ Ok(FALSE) # Accepted /\ \A e : Err(e) # Accepted
  BY <1>1, AcceptedFacts
<1>6. verdict = Accepted <=> v.tau = tau /\ IsPresentation(v) /\ made
  BY <1>4, <1>5, Zenon
<1> QED
  BY <1>6 DEF verdict, bytes, made

(* Coefficients of any altered list are small enough to be told apart.     *)
LEMMA AlteredWordsBounded ==
  ASSUME NEW words \in Seq(0 .. Q - 1), NEW a \in AlteredWords(words)
  PROVE  a \in Seq(0 .. 2 * Q)
<1>1. Q \in Nat \ {0, 1} /\ DOMAIN words = 1 .. Len(words) /\ \A i \in DOMAIN words : words[i] \in 0 .. Q - 1
  BY CodecAssumption
<1>2. words \in Seq(0 .. 2 * Q) /\ 0 \in 0 .. 2 * Q
  BY <1>1
<1>3. ASSUME NEW i \in DOMAIN words, NEW x \in 0 .. 2 * Q PROVE [words EXCEPT ![i] = x] \in Seq(0 .. 2 * Q)
  BY <1>2
<1>4. ASSUME NEW i \in DOMAIN words
      PROVE  words[i] + Q \in 0 .. 2 * Q /\ words[i] + 1 \in 0 .. 2 * Q
  BY <1>1
<1>5. Append(words, 0) \in Seq(0 .. 2 * Q)
  BY <1>2
<1>6. Front(words) \in Seq(0 .. 2 * Q)
  <2> DEFINE S == 0 .. 2 * Q
  <2>1. words \in Seq(S)
    BY <1>2
  <2> HIDE DEF S
  <2>2. SubSeq(words, 1, Len(words) - 1) \in Seq(S)
    BY <2>1
  <2> QED
    BY <2>2 DEF S, Front
<1>7. a \in OtherForms(words) \/ \E i \in DOMAIN words : a = [words EXCEPT ![i] = words[i] + 1]
  BY DEF AlteredWords
<1>8. CASE \E i \in DOMAIN words : a = [words EXCEPT ![i] = words[i] + 1]
  BY <1>3, <1>4, <1>8
<1>9. CASE a \in OtherForms(words)
  BY <1>3, <1>4, <1>5, <1>6, <1>9, ZenonT(30) DEF OtherForms
<1> QED
  BY <1>7, <1>8, <1>9

(* A word more or less, and a list is not read.                            *)
LEMMA OtherLengths ==
  ASSUME NEW k, NEW S, NEW words \in Seq(S), Len(words) = k * RING_N,
         NEW a \in {Append(words, 0), Front(words)}, IsOk(unflatten(k, a))
  PROVE  a = words
<1>1. Len(a) = Len(words)
  BY OkFacts DEF unflatten
<1>2. a # Append(words, 0)
  BY <1>1
<1>3. a = SubSeq(words, 1, Len(words) - 1)
  BY <1>2 DEF Front
<1>4. CASE Len(words) = 0
  BY <1>3, <1>4
<1>5. CASE Len(words) # 0
  <2>1. Len(a) = Len(words) - 1
    BY <1>3, <1>5
  <2> QED
    BY <1>1, <2>1
<1> QED
  BY <1>4, <1>5

LEMMA ReadLength == ASSUME NEW k, NEW words, IsOk(unflatten(k, words)) PROVE Len(words) = k * RING_N
  BY OkFacts DEF unflatten

(* Altering changes one field, and only four of them.                      *)
LEMMA AlteredFields ==
  ASSUME NEW o, NEW in, NEW i, NEW v, v = Shown(o, in, i), NEW p \in AlteredPresentations(v)
  PROVE  /\ p.tau = v.tau /\ p.challenge = v.challenge /\ p.transcript = v.transcript
         /\ (p.disclosed = v.disclosed /\ p.disclosed_values = v.disclosed_values
             /\ p.t_blind = v.t_blind /\ p.z_m = v.z_m) => p = v
         /\ p.t_blind = v.t_blind \/ p.t_blind \in AlteredWords(v.t_blind)
         /\ p.z_m = v.z_m \/ p.z_m \in {Append(v.z_m, 0), Front(v.z_m)}
<1>1. v = [tau |-> v.tau, disclosed |-> v.disclosed, disclosed_values |-> v.disclosed_values,
           t_blind |-> v.t_blind, challenge |-> v.challenge, transcript |-> v.transcript,
           z_r |-> v.z_r, z_m |-> v.z_m, z_s |-> v.z_s, z_e |-> v.z_e]
  BY DEF Shown
<1>2. \/ \E x : p = [v EXCEPT !.disclosed = x]
      \/ \E x : p = [v EXCEPT !.disclosed_values = x]
      \/ \E x \in AlteredWords(v.t_blind) : p = [v EXCEPT !.t_blind = x]
      \/ \E x \in {Append(v.z_m, 0), Front(v.z_m)} : p = [v EXCEPT !.z_m = x]
  BY DEF AlteredPresentations
<1>3. \E d, dv, t, m :
        /\ p = [tau |-> v.tau, disclosed |-> d, disclosed_values |-> dv,
                t_blind |-> t, challenge |-> v.challenge, transcript |-> v.transcript,
                z_r |-> v.z_r, z_m |-> m, z_s |-> v.z_s, z_e |-> v.z_e]
        /\ t = v.t_blind \/ t \in AlteredWords(v.t_blind)
        /\ m = v.z_m \/ m \in {Append(v.z_m, 0), Front(v.z_m)}
  <2>1. CASE \E x : p = [v EXCEPT !.disclosed = x]
    BY <1>1, <2>1
  <2>2. CASE \E x : p = [v EXCEPT !.disclosed_values = x]
    BY <1>1, <2>2
  <2>3. CASE \E x \in AlteredWords(v.t_blind) : p = [v EXCEPT !.t_blind = x]
    BY <1>1, <2>3
  <2>4. CASE \E x \in {Append(v.z_m, 0), Front(v.z_m)} : p = [v EXCEPT !.z_m = x]
    BY <1>1, <2>4
  <2> QED
    BY <1>2, <2>1, <2>2, <2>3, <2>4
<1>4. PICK d, dv, t, m :
        /\ p = [tau |-> v.tau, disclosed |-> d, disclosed_values |-> dv,
                t_blind |-> t, challenge |-> v.challenge, transcript |-> v.transcript,
                z_r |-> v.z_r, z_m |-> m, z_s |-> v.z_s, z_e |-> v.z_e]
        /\ t = v.t_blind \/ t \in AlteredWords(v.t_blind)
        /\ m = v.z_m \/ m \in {Append(v.z_m, 0), Front(v.z_m)}
  BY <1>3
<1>5. /\ p.tau = v.tau /\ p.challenge = v.challenge /\ p.transcript = v.transcript
      /\ p.disclosed = d /\ p.disclosed_values = dv /\ p.t_blind = t /\ p.z_m = m
  BY <1>4
<1> QED
  BY <1>1, <1>4, <1>5

(* A presentation is accepted for its own context, projection and issuer,  *)
(* if its holder is the one the credential was issued to, and for nothing  *)
(* else (saap_verify_presentation over credential::verify_presentation).   *)
LEMMA AcceptedIff ==
  ASSUME IInv, NEW r \in ReturnedBy("present"), NEW issuer \in Issuer,
         NEW tau \in Context, NEW ctx \in Context, NEW by \in Identity, NEW rho \in LongEnough
  PROVE  saap_verify_presentation(oracle, issuer, r.value,
                                  projection_to_bytes(project_at_context(oracle, by, ctx, rho)), tau) = Accepted <=>
           /\ issuer = r.call.cred.owned.params /\ tau = r.call.ctx
           /\ projection_to_bytes(project_at_context(oracle, by, ctx, rho))
                = projection_to_bytes(project_at_context(oracle, r.call.by, r.call.ctx, r.call.rho))
           /\ First(SecretOf(oracle, r.call.by)) = First(SecretOf(oracle, r.call.cred.to))
<1>0. oracle \in Oracle
  BY DEF IInv
<1>1. PICK in \in AnyCall(oracle), i \in Nat :
        /\ r.value = Shown(oracle, in, i) /\ ShortResponses(ResponsesAt(oracle, in, i))
        /\ in.issuer = r.call.cred.owned.params /\ in.by = r.call.by
        /\ in.ctx = r.call.ctx /\ in.rho = r.call.rho
        /\ ProjectionAt(oracle, in) = project_at_context(oracle, r.call.by, r.call.ctx, r.call.rho)
        /\ in.blinded.t_blind = Commitment(oracle, in.issuer, in.blinded.r_star, in.blinded.m)
        /\ HoldsValues(in.blinded.m)
        /\ r.call.cred.to \in Identity
        /\ in.blinded.m[IDENTITY_SLOT] = First(SecretOf(oracle, r.call.cred.to))
  BY PresentedFacts
<1> DEFINE v == r.value
           P == project_at_context(oracle, by, ctx, rho)
           P0 == ProjectionAt(oracle, in)
           pres == PresentationAt(oracle, in, i)
           to == r.call.cred.to
<1>2. P \in Projection /\ P0 \in Projection
  BY <1>0, ProjectionTyped, CallProjection
<1>3. projection_to_bytes(P) = projection_to_bytes(P0) <=> P = P0
  BY <1>2, ProjectionRecord
<1>4. /\ IsPresentation(v) /\ NativeOf(v) = pres /\ v.tau = in.ctx
      /\ unflatten(Cardinality(TRows), v.t_blind).ok = in.blinded.t_blind
  <2>1. v.tau = in.ctx
    BY <1>1 DEF Shown
  <2> QED
    BY <1>0, <1>1, <2>1, ShownIsRead, OkFacts
<1>5. saap_verify_presentation(oracle, issuer, v, projection_to_bytes(P), tau) = Accepted <=>
        in.ctx = tau /\ verify_presentation(oracle, issuer, pres, in.blinded.t_blind, P, tau)
  <2> HIDE DEF v, P, pres
  <2> QED
    BY <1>2, <1>4, PresentationVerdict
<1>6. pres.challenge = ChallengeAt(oracle, in, i) /\ pres.z = ResponsesAt(oracle, in, i)
  BY DEF PresentationAt
<1>7. ASSUME in.ctx = tau, verify_presentation(oracle, issuer, pres, in.blinded.t_blind, P, tau)
      PROVE  issuer = in.issuer /\ P = P0 /\ First(SecretOf(oracle, in.by)) = First(SecretOf(oracle, to))
  <2> HIDE DEF pres
  <2>1. issuer = in.issuer /\ P.salt = P0.salt /\ P.public_b = P0.public_b /\ Linked(ResponsesAt(oracle, in, i))
    <3> HIDE DEF P
    <3> QED
      BY <1>6, <1>7, AcceptedNames
  <2>2. P = P0
    BY <2>1, SaltNamesTag
  <2> QED
    BY <1>0, <1>1, <2>1, <2>2, LinkedHolder
<1>8. ASSUME in.ctx = tau, issuer = in.issuer, P = P0,
             First(SecretOf(oracle, in.by)) = First(SecretOf(oracle, to))
      PROVE  verify_presentation(oracle, issuer, pres, in.blinded.t_blind, P, tau)
  <2>1. P0.public_b = Add(Apply(MatrixOfCall(oracle, in), SecretOf(oracle, in.by)),
                          derive_error_tau(oracle, in.rho, in.ctx))
    BY <1>1 DEF MatrixOfCall, project_at_context
  <2>2. OpensAt(oracle, in)
    BY <1>1, <1>8, <2>1 DEF OpensAt
  <2>3. verify_presentation(oracle, in.issuer, pres, in.blinded.t_blind, P0, in.ctx)
    BY <1>0, <1>1, <2>2, HonestCallVerifies
  <2> HIDE DEF P, P0, pres
  <2> QED
    BY <1>8, <2>3
<1> HIDE DEF P, P0, v, pres
<1>9. saap_verify_presentation(oracle, issuer, v, projection_to_bytes(P), tau) = Accepted <=>
        /\ issuer = in.issuer /\ tau = in.ctx /\ P = P0
        /\ First(SecretOf(oracle, in.by)) = First(SecretOf(oracle, to))
  BY <1>5, <1>7, <1>8
<1> QED
  BY <1>1, <1>3, <1>9 DEF v, P, P0

LEMMA AlteredRefused ==
  ASSUME IInv, NEW r \in ReturnedBy("present"), NEW p \in AlteredPresentations(r.value),
         saap_verify_presentation(oracle, r.call.cred.owned.params, p,
           projection_to_bytes(project_at_context(oracle, r.call.by, r.call.ctx, r.call.rho)), r.call.ctx) = Accepted
  PROVE  p = r.value
<1>0. oracle \in Oracle
  BY DEF IInv
<1>1. PICK in \in AnyCall(oracle), i \in Nat :
        /\ r.value = Shown(oracle, in, i)
        /\ in.issuer = r.call.cred.owned.params /\ in.ctx = r.call.ctx
        /\ ProjectionAt(oracle, in) = project_at_context(oracle, r.call.by, r.call.ctx, r.call.rho)
  BY PresentedFacts
<1> DEFINE v == r.value
           P0 == ProjectionAt(oracle, in)
           q == NativeOf(p)
           NT == Cardinality(TRows)
           NS == Cardinality(Slots)
<1>2. P0 \in Projection
  BY <1>0, CallProjection
<1>3. /\ IsPresentation(v) /\ NativeOf(v) = PresentationAt(oracle, in, i)
      /\ unflatten(NT, v.t_blind) = Ok(in.blinded.t_blind)
      /\ v.t_blind \in Seq(0 .. Q - 1) /\ v.z_m \in Seq(0 .. Q - 1)
      /\ unflatten(NS, v.z_m) = Ok(ResponsesAt(oracle, in, i).m)
  BY <1>0, <1>1, ShownIsRead
<1>4. /\ v.disclosed = in.disclosed /\ v.disclosed_values = DisclosedValues(in.blinded.m, in.disclosed)
  BY <1>1 DEF Shown
<1>5. /\ p.tau = v.tau /\ p.challenge = v.challenge /\ p.transcript = v.transcript
      /\ (p.disclosed = v.disclosed /\ p.disclosed_values = v.disclosed_values
          /\ p.t_blind = v.t_blind /\ p.z_m = v.z_m) => p = v
      /\ p.t_blind = v.t_blind \/ p.t_blind \in AlteredWords(v.t_blind)
      /\ p.z_m = v.z_m \/ p.z_m \in {Append(v.z_m, 0), Front(v.z_m)}
  BY <1>1, AlteredFields
<1>6. IsPresentation(p) /\ verify_presentation(oracle, in.issuer, q, unflatten(NT, p.t_blind).ok, P0, in.ctx)
  <2> HIDE DEF P0, q, NT
  <2>1. saap_verify_presentation(oracle, in.issuer, p, projection_to_bytes(P0), in.ctx) = Accepted
    BY <1>1 DEF P0
  <2> QED
    BY <1>2, <2>1, PresentationVerdict DEF q, NT
<1>7. q.challenge = ChallengeAt(oracle, in, i) /\ q.disclosed = p.disclosed /\ q.values = p.disclosed_values
  <2>1. q.challenge = [of |-> p.transcript, poly |-> ROf(p.challenge)]
        /\ q.disclosed = p.disclosed /\ q.values = p.disclosed_values
    BY DEF NativeOf
  <2>2. NativeOf(v).challenge = [of |-> v.transcript, poly |-> ROf(v.challenge)]
    BY DEF NativeOf
  <2>3. NativeOf(v).challenge = ChallengeAt(oracle, in, i)
    BY <1>3 DEF PresentationAt
  <2> HIDE DEF q
  <2> QED
    BY <1>5, <2>1, <2>2, <2>3
<1> HIDE DEF q, P0
<1>8. /\ unflatten(NT, p.t_blind).ok = in.blinded.t_blind
      /\ q.disclosed = in.disclosed /\ q.values = DisclosedValues(in.blinded.m, in.disclosed)
  BY <1>6, <1>7, AcceptedNames
<1>9. p.t_blind = v.t_blind
  <2>1. IsOk(unflatten(NT, p.t_blind)) /\ IsOk(unflatten(NT, v.t_blind))
    BY <1>3, <1>6 DEF IsPresentation
  <2>2. unflatten(NT, p.t_blind).ok = unflatten(NT, v.t_blind).ok
    BY <1>3, <1>8, OkFacts
  <2>3. v.t_blind \in Seq(0 .. 2 * Q)
    <3>1. Q \in Nat
      BY CodecAssumption
    <3> QED
      BY <1>3, <3>1
  <2>4. p.t_blind \in Seq(0 .. 2 * Q)
    BY <1>3, <1>5, <2>3, AlteredWordsBounded
  <2>5. NT \in Nat
    BY RowsCounted
  <2> HIDE DEF NT, v
  <2> QED
    BY <2>1, <2>2, <2>3, <2>4, <2>5, UnflattenInjective
<1>10. p.z_m = v.z_m
  <2>1. IsOk(unflatten(NS, p.z_m)) /\ IsOk(unflatten(NS, v.z_m))
    BY <1>3, <1>6, OkFacts DEF IsPresentation
  <2>2. Len(v.z_m) = NS * RING_N
    BY <2>1, ReadLength
  <2>3. CASE p.z_m \in {Append(v.z_m, 0), Front(v.z_m)}
    <3> DEFINE S == 0 .. Q - 1
               w == v.z_m
    <3>1. w \in Seq(S)
      BY <1>3
    <3> HIDE DEF S, NS
    <3> QED
      BY <2>1, <2>2, <2>3, <3>1, OtherLengths
  <2> QED
    BY <1>5, <2>3
<1> QED
  BY <1>4, <1>5, <1>7, <1>8, <1>9, <1>10

(* What a presentation is accepted for, and that no altered one is         *)
(* (present against saap_verify_presentation).                             *)
THEOREM Bound == Spec => []PresentationBound
<1>1. ASSUME IInv, NEW r \in ReturnedBy("present"), NEW issuer \in Issuer, NEW tau \in Context,
             NEW ctx \in Context, NEW by \in Identity, NEW rho \in LongEnough
      PROVE  saap_verify_presentation(oracle, issuer, r.value, ProjectionOf(by, ctx, rho), tau) = Accepted <=>
               /\ issuer = r.call.cred.owned.params /\ tau = r.call.ctx
               /\ ProjectionOf(by, ctx, rho) = ProjectionOf(r.call.by, r.call.ctx, r.call.rho)
               /\ First(SecretOf(oracle, r.call.by)) = First(SecretOf(oracle, r.call.cred.to))
  BY <1>1, AcceptedIff DEF ProjectionOf
<1>2. ASSUME IInv, NEW r \in ReturnedBy("present"), NEW p \in AlteredPresentations(r.value),
             saap_verify_presentation(oracle, r.call.cred.owned.params, p,
               ProjectionOf(r.call.by, r.call.ctx, r.call.rho), r.call.ctx) = Accepted
      PROVE  p = r.value
  BY <1>2, AlteredRefused DEF ProjectionOf
<1>3. IInv => PresentationBound
  BY <1>1, <1>2, Zenon DEF PresentationBound, Accepted
<1> QED
  BY <1>3, Inductive, PTL

(* What identities, the credential and returned values are.                *)
THEOREM Typing == Spec => []TypeOK
<1>1. ASSUME IInv, NEW h \in Live
      PROVE  /\ Length(identity[h].entropy) >= MIN_ENTROPY_BYTES
             /\ identity[h] = generate(identity[h].entropy).ok
  BY <1>1, LiveFacts DEF LongEntropy
<1>2. ASSUME IInv, credential # None
      PROVE  credential.owned.params \in Issuer /\ Len(credential.attributes) = CRED_ATTRIBUTES
  BY <1>2 DEF IInv, CredentialInv
<1>3. ASSUME IInv, NEW r \in ReturnedBy("project") PROVE IsProjectionBody(r.value) /\ r.call.rho \in LongEnough
  <2>1. IsProjectionBody(r.value)
    BY <1>3, ProjectedFacts, ProjectionRecord
  <2>2. r.call.rho \in LongEnough
    BY <1>3 DEF IInv, ReturnInv, ReturnedBy, ProjectInv, InputsInv
  <2> QED
    BY <2>1, <2>2
<1>4. ASSUME IInv, NEW r \in ReturnedBy("prove") PROVE IsProofBody(r.value) /\ r.call.rho \in LongEnough
  <2>1. IsProofBody(r.value)
    BY <1>4, ProvedFacts, ProofRecord
  <2>2. r.call.rho \in LongEnough
    BY <1>4 DEF IInv, ReturnInv, ReturnedBy, ProveInv, InputsInv
  <2> QED
    BY <2>1, <2>2
<1>5. ASSUME IInv, NEW r \in ReturnedBy("present") PROVE IsPresentation(r.value) /\ r.call.rho \in LongEnough
  <2>1. PICK in \in AnyCall(oracle), i \in Nat : r.value = Shown(oracle, in, i)
    BY <1>5, PresentedFacts
  <2>2. oracle \in Oracle /\ r.call.rho \in LongEnough
    BY <1>5 DEF IInv, ReturnInv, ReturnedBy, PresentInv, InputsInv
  <2>3. IsPresentation(r.value)
    BY <2>1, <2>2, ShownIsRead
  <2> QED
    BY <2>2, <2>3
<1>6. IInv => TypeOK
  BY <1>1, <1>2, <1>3, <1>4, <1>5 DEF TypeOK, IInv
<1> QED
  BY <1>6, Inductive, PTL
=============================================================================
