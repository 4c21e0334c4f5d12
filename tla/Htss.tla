-------------------------------- MODULE Htss --------------------------------
(***************************************************************************)
(* Threshold sharing of key material (SecretSharer in src/src/htss.rs).    *)
(*                                                                         *)
(* A dealer splits secrets and hands the shares to custodians.  A          *)
(* collector gathers shares in any order, some twice, some never, some     *)
(* altered on the way, from several sharings, and asks for a secret under  *)
(* a root it obtained from the dealer.  Splitting and reconstructing are   *)
(* pure calls; what has a state is the shares between them.                *)
(***************************************************************************)
EXTENDS Shamir, ShareTree, FiniteSets

CONSTANTS
  Base,                 \* values of a byte; the code's 256
  LEN_BYTES,            \* width of the payload's length prefix
  EVAL_BYTES,           \* LIMB_EVAL_BYTES, width of one limb evaluation
  MAX_SECRET_BYTES,
  Deals,                \* [secret, nonce] the dealer may be asked to split
  CoeffOf(_, _, _),     \* the coefficient derivation, a SHAKE-256 output
  Altered(_),           \* what a share may be turned into outside the library
  Within(_, _, _),      \* bound: deals split, shares altered, shares on the tray
  Foreign, NoAnswer

LIMB_BYTES == 2

ASSUME ShapeAssumption == THRESHOLD_K = 3 /\ TOTAL_SHARES = 5

(* A limb is a field element, an evaluation fits its bytes and a length    *)
(* its prefix.  The last conjunct is arithmetic, stated because the        *)
(* provers do not know exponentiation.                                     *)
ASSUME WidthAssumption ==
  /\ Base \in Nat /\ Base > 1 /\ LEN_BYTES \in Nat /\ EVAL_BYTES \in Nat \ {0} /\ MAX_SECRET_BYTES \in Nat
  /\ Base * Base <= MODULUS_Q /\ MODULUS_Q <= Base ^ EVAL_BYTES /\ MAX_SECRET_BYTES < Base ^ LEN_BYTES
  /\ Base ^ 0 = 1
  /\ \A k \in 0 .. LEN_BYTES + EVAL_BYTES : Base ^ k \in Nat /\ Base ^ (k + 1) = Base * Base ^ k

VARIABLES
  dealt,    \* deals that were split; their roots are known to the collector
  tray,     \* the list of shares the collector passes
  altered,  \* how many shares on the tray were altered on the way
  answer    \* what the last call returned

vars == <<dealt, tray, altered, answer>>

Ok(value)  == [ok |-> value]
Err(error) == [error |-> error]
IsOk(result) == "ok" \in DOMAIN result
-----------------------------------------------------------------------------
(* Little-endian conversions.                                              *)
ToBytes(n, width) == [i \in 1 .. width |-> (n \div Base ^ (i - 1)) % Base]
FromBytes(bytes)  == FoldRight(LAMBDA b, acc : b + Base * acc, bytes, 0)

(* payload = length, then the secret, padded to whole limbs.               *)
Payload(secret) ==
  LET bytes == ToBytes(Len(secret), LEN_BYTES) \o secret
  IN  IF Len(bytes) % LIMB_BYTES = 0 THEN bytes ELSE Append(bytes, 0)

Limbs(payload) ==
  [k \in 1 .. Len(payload) \div LIMB_BYTES |-> payload[2 * k - 1] + Base * payload[2 * k]]

(* Lengths are absorbed with the strings, so the key names both.           *)
derive_coeff_key(secret, nonce) == <<secret, nonce>>

Coefficients(secret, nonce, k) ==
  <<Limbs(Payload(secret))[k] % MODULUS_Q>>
    \o [i \in 1 .. THRESHOLD_K - 1 |-> CoeffOf(derive_coeff_key(secret, nonce), k, i)]

ShareValue(secret, nonce, index) ==
  FlattenSeq([k \in DOMAIN Limbs(Payload(secret)) |->
                ToBytes(Evaluate(Coefficients(secret, nonce, k), index), EVAL_BYTES)])

split_key_material(secret, nonce) ==
  IF secret = <<>> \/ Len(secret) > MAX_SECRET_BYTES THEN Err("InvalidInputLength")
  ELSE LET value  == [i \in 1 .. TOTAL_SHARES |-> ShareValue(secret, nonce, i)]
           leaves == [i \in 1 .. TOTAL_SHARES |-> merkle_leaf_hash(i, value[i])]
       IN  Ok([root   |-> Root(leaves),
               shares |-> [i \in 1 .. TOTAL_SHARES |->
                             [index |-> i, value |-> value[i],
                              path  |-> InclusionPath(leaves, i)]]])

(* Splitting is a function of its inputs.                                  *)
SplitOf == [d \in Deals |-> split_key_material(d.secret, d.nonce)]

Splittable == {d \in Deals : IsOk(SplitOf[d])}
-----------------------------------------------------------------------------
(* Limb k as the bytes that interpolation of the shares' k-th evaluations  *)
(* gives; only the low 16 bits of the field element are kept.              *)
LimbOf(shares, k) ==
  reconstruct_secret(
    [i \in DOMAIN shares |->
       <<shares[i].index,
         FromBytes(SubSeq(shares[i].value, (k - 1) * EVAL_BYTES + 1, k * EVAL_BYTES))>>])

Interpolated(shares) ==
  LET limb == [k \in 1 .. Len(shares[1].value) \div EVAL_BYTES |-> LimbOf(shares, k)]
  IN  IF \E k \in DOMAIN limb : limb[k] = NoInverse THEN Err("InvalidShareSet")
      ELSE Ok(FlattenSeq([k \in DOMAIN limb |->
                            <<limb[k] % Base, (limb[k] \div Base) % Base>>]))

(* A mutation: the padding is returned with the secret.                    *)
SecretIn_Untrimmed(payload) == Ok(SubSeq(payload, LEN_BYTES + 1, Len(payload)))

(* The length prefix says how much of the payload is the secret.           *)
SecretIn(payload) ==
  LET len == FromBytes(SubSeq(payload, 1, LEN_BYTES))
  IN  IF Len(payload) < LEN_BYTES \/ len = 0 \/ LEN_BYTES + len > Len(payload)
      THEN Err("SerializationError")
      ELSE Ok(SubSeq(payload, LEN_BYTES + 1, LEN_BYTES + len))

(* Mutations of the two checks that follow them.                           *)
TooFew_OffByOne(shares)      == Len(shares) < THRESHOLD_K - 1
AllInTree_First(shares, root) ==
  verify_share_in_tree(shares[1].index, shares[1].value, shares[1].path, root)

TooFew(shares) == Len(shares) < THRESHOLD_K

AllInTree(shares, root) ==
  \A i \in DOMAIN shares :
    verify_share_in_tree(shares[i].index, shares[i].value, shares[i].path, root)

(* One width for all, a whole number of evaluations; zero is no index.     *)
Malformed(shares) ==
  LET width == Len(shares[1].value)
  IN  \/ width = 0 \/ width % EVAL_BYTES # 0
      \/ \E i \in DOMAIN shares : Len(shares[i].value) # width \/ shares[i].index = 0

Repeated(shares) ==
  \E i, j \in DOMAIN shares : i # j /\ shares[i].index = shares[j].index

(* The checks on the list, in the code's order; "none" if all pass.        *)
SetError(shares, root) ==
  IF TooFew(shares)                                      THEN "ThresholdNotMet"
  ELSE IF Len(shares) > TOTAL_SHARES                     THEN "InvalidShareSet"
  ELSE IF Malformed(shares)                              THEN "SerializationError"
  ELSE IF Repeated(shares) \/ ~ AllInTree(shares, root)  THEN "InvalidShareSet"
  ELSE "none"

reconstruct_key_material(shares, root) ==
  LET error   == SetError(shares, root)
      payload == Interpolated(shares)
  IN  IF error # "none" THEN Err(error)
      ELSE IF IsOk(payload) THEN SecretIn(payload.ok) ELSE payload
-----------------------------------------------------------------------------
Bytes == 0 .. Base - 1

(* KeyMaterialShare: an index, bytes, and a list of digests.               *)
IsShare(s) == s \in [index : Nat, value : Seq(Bytes), path : Seq(ToSet(s.path))]

(* Secrets are bytes, and the coefficient derivation samples numbers.  It  *)
(* has no collisions: two nonces do not share one secret in one way.       *)
(* Outside the library a share remains a share.                            *)
ASSUME DealAssumption ==
  /\ \A d \in Deals : d.secret \in Seq(Bytes)
  /\ \A d \in Splittable : \A k \in DOMAIN Limbs(Payload(d.secret)), i \in 1 .. THRESHOLD_K - 1 :
       CoeffOf(derive_coeff_key(d.secret, d.nonce), k, i) \in Nat
  /\ \A d, e \in Splittable :
       d.secret = e.secret /\ SplitOf[d].ok.root = SplitOf[e].ok.root => d = e
  /\ \A d \in Splittable, i \in 1 .. TOTAL_SHARES :
       \A t \in Altered(SplitOf[d].ok.shares[i]) : IsShare(t)
  /\ Foreign \notin [deal : Deals, index : 1 .. TOTAL_SHARES]

Init ==
  /\ dealt = {}
  /\ tray = <<>> /\ altered = 0
  /\ answer = NoAnswer

(* The dealer splits a secret, or is refused.                              *)
Split(d) ==
  /\ Within(Cardinality(dealt \cup {d}), altered, Len(tray))
  /\ IF IsOk(SplitOf[d])
     THEN dealt' = dealt \cup {d} /\ answer' = NoAnswer
     ELSE dealt' = dealt /\ answer' = [of |-> d, result |-> SplitOf[d]]
  /\ UNCHANGED <<tray, altered>>

(* A share of a deal arrives, not necessarily for the first time.          *)
Collect(s) ==
  /\ Within(Cardinality(dealt), altered, Len(tray) + 1)
  /\ tray' = Append(tray, s)
  /\ answer' = NoAnswer
  /\ UNCHANGED <<dealt, altered>>

(* A share arrives that changed outside the library.                       *)
CollectAltered(s) ==
  /\ Within(Cardinality(dealt), altered + 1, Len(tray) + 1)
  /\ \E t \in Altered(s) : tray' = Append(tray, t)
  /\ altered' = altered + 1
  /\ answer' = NoAnswer
  /\ UNCHANGED dealt

Discard ==
  /\ tray # <<>>
  /\ tray' = <<>> /\ altered' = 0
  /\ answer' = NoAnswer
  /\ UNCHANGED dealt

(* The collector asks for the secret of deal d, by its root.               *)
Reconstruct(d) ==
  /\ answer' = [of |-> d, result |-> reconstruct_key_material(tray, SplitOf[d].ok.root)]
  /\ UNCHANGED <<dealt, tray, altered>>

Next ==
  \/ \E d \in Deals : Split(d)
  \/ \E d \in dealt : \E i \in 1 .. TOTAL_SHARES :
       Collect(SplitOf[d].ok.shares[i]) \/ CollectAltered(SplitOf[d].ok.shares[i])
  \/ Discard
  \/ \E d \in dealt : Reconstruct(d)

Spec == Init /\ [][Next]_vars
-----------------------------------------------------------------------------
(***************************************************************************)
(* Properties.                                                             *)
(***************************************************************************)
Errors  == {"InvalidInputLength", "ThresholdNotMet", "InvalidShareSet", "SerializationError"}
Secrets == UNION {[1 .. n -> Bytes] : n \in 1 .. MAX_SECRET_BYTES}

(* What is returned as a secret has a length the dealer would have split.  *)
TypeOK ==
  /\ dealt \subseteq Deals
  /\ altered \in Nat
  /\ \A i \in DOMAIN tray : IsShare(tray[i])
  /\ \/ answer = NoAnswer
     \/ /\ answer.of \in Deals
        /\ \/ DOMAIN answer.result = {"ok"} /\ answer.result.ok \in Secrets
           \/ DOMAIN answer.result = {"error"} /\ answer.result.error \in Errors

(* No share that is altered, or of another deal, or held twice is ever     *)
(* interpolated: a secret is returned under a root only from at least      *)
(* three shares with distinct indices, each with the value that the deal   *)
(* of that root gave to its index.                                         *)
OnlyGenuine ==
  answer # NoAnswer /\ IsOk(answer.result) =>
    /\ Len(tray) \in THRESHOLD_K .. TOTAL_SHARES
    /\ \A i \in DOMAIN tray :
         /\ tray[i].index \in 1 .. TOTAL_SHARES
         /\ tray[i].value = SplitOf[answer.of].ok.shares[tray[i].index].value
    /\ \A i, j \in DOMAIN tray : i # j => tray[i].index # tray[j].index

IsShareOf(s, d) ==
  /\ IsOk(SplitOf[d])
  /\ s.index \in 1 .. TOTAL_SHARES /\ s = SplitOf[d].ok.shares[s.index]

TokenOf(s) ==
  IF \E d \in Deals : IsShareOf(s, d)
  THEN [deal |-> CHOOSE d \in Deals : IsShareOf(s, d), index |-> s.index]
  ELSE Foreign

(* Sharing implements its promise (module ThresholdSharing): three or more *)
(* distinct shares of the asked deal and nothing else give its secret,     *)
(* whatever their order; anything else gives an error.                     *)
Promise ==
  INSTANCE ThresholdSharing
    WITH tray <- [i \in DOMAIN tray |-> TokenOf(tray[i])]
ImplementsPromise == Promise!Spec
=============================================================================
