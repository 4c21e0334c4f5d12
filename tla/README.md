# Aethel core: specification, model checking and proofs

TLA+ modules for the Rust crate in `src/`: a lattice identity that presents
itself to verifiers without a persistent public key, blind credentials on top
of it, threshold sharing of key material, and a WebAssembly component boundary.
Paths below are relative to the repository; line numbers are those of the
commit beside this directory.

Contents: [the system](#1-the-system), [what models what](#2-modules-and-code),
[the runs](#3-model-checking), [the proofs](#4-proofs),
[where code and text differ](#5-where-the-code-and-its-text-differ),
[what is not modelled](#6-not-modelled), [the plan](#7-plan).

## 1. The system

The crate is a library without threads of its own, clocks or I/O. What makes
it hard is not scheduling but *protocol*: values derived in one call must agree
with values derived in another one, by another party, possibly much later; loops
whose exit depends on a hash; lists of shares that pass through other hands.

| Component | State | Operations | Talks to |
|---|---|---|---|
| **PLP presentation** (`src/src/plp.rs`) | the master secret; per call: projection, mask, commitment, challenge, response, attempt counter | project at a context, prove (rejection loop), verify | ring arithmetic; driven by the identity handle and by the wire verifier |
| **Ring arithmetic** (`plp.rs`) | none | add, subtract, schoolbook and transform products, norms, samplers | used by PLP and by credentials |
| **Threshold sharing** (`src/src/htss.rs`) | none inside the library; the shares live with custodians | split, reconstruct, share tree | field arithmetic |
| **Hypercube routing** (`htss.rs`) | packets with position, route and next hop | compute routes, move packets | threshold shares as payload |
| **Identity handle** (`src/src/signing.rs`) | entropy, one signing key pair, the PLP seed | generate, project, prove, sign under a purpose, sealed export/import, drop | PLP, wire |
| **Wire envelopes** (`src/src/wire.rs`) | none | encode, decode (version, type, length), verify at the verifier's own context | PLP |
| **Credentials** (`src/src/credential.rs`) | none in the library; the holder keeps a credential and its blindings; per call: masks, challenge, responses, attempt | issue, blind, prove (a second rejection loop), verify | ring arithmetic, PLP projection |
| **Component boundary** (`src/src/component.rs`) | resource handles of identities, issuer parameters and credentials | all of the above over bytes and records | everything |
| **Standalone SAAP** (`src/src/saap.rs`) | none; per call: mask, commitment, challenge, response | prove, public key, two verifiers | ring arithmetic |
| **Fixed-time loop** (`src/src/sampling.rs`) | the caller's buffer; per call: capture mask, candidate, dummy buffer | a fixed number of candidates, conditional copies, wipe | a secret vector, which the PUF gives |
| **SRAM PUF** (`src/src/puf.rs`) | none; the device keeps helper data | enrol, reconstruct, expand a key to a vector; an error locator nothing calls | the fixed-time loop |

What makes each of them correct:

* *PLP.* The loop returns the first response in bound and no other value; a
  returned proof verifies with the projection that was published earlier, from
  independently repeated derivations, although the verifier cannot know the
  error term; it verifies with nothing else; nothing that blinds or reveals the
  secret survives the step that needs it; the call returns whatever the hash is.
* *Arithmetic.* The fast product is the reference product. A challenge times a
  short vector stays within the bound that prover and verifier build on.
* *Sharing.* Three genuine shares give back the secret in any order; two say
  nothing; anything altered, mixed or repeated gives an error, never a wrong
  secret.
* *Routing.* Packets of different routes meet nowhere between the endpoints;
  a call that returns has delivered every packet.
* *Credentials.* A presentation is accepted exactly if credential, identity,
  projection, context and randomness belong together, and then only for the
  statement it was made for; the attributes it shows are the issued ones; reusing
  randomness never gives one mask two challenges.
* *Sealing.* Two messages never share key and nonce; a blob opens as what was
  sealed, under its key and as its type, or not at all.
* *Signing and wire.* A signature names one purpose. One proof has one encoding
  that is accepted, and the verifiers of records and of bytes agree.
* *Fixed-time loop.* The caller gets the first acceptable response of its call
  or an empty buffer and an error, whatever the buffer held; never a rejected one.
* *PUF.* A reading yields the key that was enrolled with the helper data, or none.
* *SAAP.* A predicate proof verifies for its context, key and disclosed values only.

The places where this can go wrong and where a test would hardly look are the
`hazards` of `PROJECT.json`, each with its line and the properties that cover
it, or why none does yet.

## 2. Modules and code

`PROJECT.json`, under `map`, gives the lines behind every definition.

| Module | Models | Role |
|---|---|---|
| `PlpRing` | polynomials, vectors and matrices over Z_q[X]/(X^N+1) | pure operators |
| `Ntt` | the transform and its product | pure operators, extends `PlpRing` |
| `PlpCore` | derivations, projection, challenge, `verify`, `verify_projection` | pure operators over an abstract module |
| `Plp` | `Identity::prove` and `Prover::prove_identity` | state machine |
| `Presentation` | what a caller of `prove` may rely on | abstract specification of `Plp` |
| `Shamir` | sharing polynomial, extended Euclid, interpolation, the deprecated single-number calls | pure operators |
| `Input` | nothing: the input of operations without state | variable of `Sharing`, `NormMasks`, `ChallengeProduct`, `TransformProduct`, `SaapPromise` and `MCArith` |
| `Sharing` | the promises of one sharing polynomial | properties of `Shamir` over any polynomial |
| `ShareTree` | the five-leaf tree and inclusion paths | pure operators |
| `Htss` | `split_key_material`, `reconstruct_key_material`, custodians | state machine |
| `ShareBytes` | the byte form of share lists | pure operators, extends `Htss` |
| `ThresholdSharing` | what a collector of shares may rely on | abstract specification of `Htss` |
| `Hypercube` | `compute_orthogonal_paths`, `route_payload_shares` | state machine |
| `CredentialCore` | `issue`, blinding, the statement of a presentation, `verify` | pure operators over an abstract ring, extends `PlpCore` |
| `Credential` | the wallet's calls: issue, blind and the loop of `prove` | state machine |
| `Outcome` | results, errors and their conversion at the boundary | pure operators |
| `Signing` | key generation, purposes, sealing | pure operators |
| `Wire` | envelopes, the codecs of projections and proofs, the byte verifier, conversion of records | pure operators, extends `PlpCore` |
| `Exports` | the functions the component exports | pure operators over `CredentialCore`, `Wire`, `Signing` |
| `Component` | handles, and a host that calls in any order | state machine that composes all of these |
| `Centered` | centred coefficients and the norm masks of `saap.rs` and `sampling.rs` | pure operators, extends `Ntt` |
| `NormMasks` | the promises of the norm masks | properties of `Centered` over any word |
| `ChallengeProduct` | the bound of a challenge times a short polynomial | property of `PlpRing` over any such pair |
| `TransformProduct` | the fast products against the reference ones | properties of `Ntt` and `Centered` over any factors |
| `FixedTime` | `enclave_plp_prove_fixed_time` | state machine |
| `FirstAcceptable` | what a caller of it may rely on | abstract specification of `FixedTime` |
| `Puf` | enrolment, reconstruction, key expansion | pure operators |
| `Enclave` | a device that enrols, reconstructs and proves | composes `FixedTime` and `Puf` |
| `Bch` | syndromes, Berlekamp-Massey, root search | pure operators |
| `Saap` | `saap_prove` and both verifiers | pure operators |
| `SaapPromise` | what a predicate proof stands for | property of `Saap` over any call |
| `CredentialInstance` | the small ring under `Credential` and `Component` | model checking |
| `MCPlp`, `MCHtss`, `MCArith`, `MCCredential`, `MCComponent`, `MCEnclave` | small instances | model checking |
| `PlpProofs`, `HtssProofs`, `HypercubeProofs`, `CredentialProofs`, `ComponentProofs`, `EnclaveProofs` | theorems | proofs |
| `PlpCoreLemmas`, `CredentialLemmas` | lemmas about the operators of `PlpCore` and `CredentialCore` | proofs, used by the above |

### PLP

`PlpCore` takes the module arithmetic (`Vec`, `Mat`, `Add`, `Apply`, `Scale`,
`Norm`, ...) as constants with the laws the code relies on as assumptions:
linearity, `A(c.s) = c(A.s)`, `|-e| = |e|`, and `BetaAssumption`, which is what
the compile-time assertion on `BETA` stands for. `MCPlp` instantiates them with
`PlpRing`, and TLC evaluates every assumption there; that the code's ring satisfies
them for every degree, modulus and rank is proved (section 4, ring).

The SHAKE-256 derivations are functions of *exactly what the hasher absorbs*,
and which functions they are is a constant of the behaviour (`oracle`, any
member of `Oracle`). So a property that holds in the model holds whatever the
hash outputs are, as far as the members of `Oracle` differ in what matters to
it; the theorems hold for any set of such functions. Two derivations also carry
their input, which states that they have no collisions: the salt (SHAKE-256 of
rho and tag) and the challenge (`[of |-> transcript, poly |-> ...]`). In the
code the challenge is a polynomial alone; `of` stands for its being the hash of
that transcript. `AcceptIsAuthentic` is the property that depends on it.

`Plp` has, per holder, the call in progress: program counter, inputs, projection,
attempt and the four buffers of the loop body. The code is sequential, so the
split into `Commit`, `Respond`, `Accept`/`Reject`, `Exhausted` follows the
numbered steps of `prove_identity` and exists to see what the buffers hold in
between. `RefuseShort` is the early return of `Identity::prove`. `released` and
`refused` are what callers were given; properties about several calls read them.
`cs` is made and wiped within `Respond` and needs no buffer.

### Sharing

A share's `value` is a sequence of bytes and goes through the real conversions:
length prefix, padding, limbs, evaluation, four-byte (here three) encodings and
back. A digest is the term it hashes, so trees can be compared but not forged.
`Collect`, `CollectAltered` and `Discard` are the world outside the library; what
an altered share can become is the constant `Altered`. `reconstruct_key_material`
keeps the code's checks in the code's order, because each has its own error.
The root is one the dealer published: authenticating it is outside the library,
as its documentation says.

`ShareBytes` reads and writes the byte form cell by cell: a digest and the width
are one cell each, a byte is one. The reader goes out of step exactly as the
code's does, because the path's length follows from the index it has just read.
`BlobAgrees` compares, for every list a custodian can put together, what the byte
form gives with what the list form gave, and disturbs the frame: a cell too few or
too many, a cut header, a count or a width off by one. Only bytes of a list that has a byte
form are disturbed: where the last path is too long, one cell less may be right.

### Routing

`Hypercube` follows `route_payload_shares` hop by hop. A node is the set of
dimensions where its address has a one. Indexing past the end of a route ends a
Rust call in a panic, which is the action `OffRoute`.

### Credentials

`CredentialCore` adds to `PlpCore`'s vectors the ring of their components: slot 0
of a credential holds `First(s)`, the first component of the secret. `B1` is given
by the issuer's public seed through `RowMul`. The challenge carries its transcript
as in `PlpCore`; the statement, hashed once for the masks and absorbed again by
the challenge, is one record (`Statement`).

The wallet of `Credential` keeps one credential and its blindings, and *assembles
every argument of `prove` itself*: `Calls` combines any blinding with any identity,
projection, context, projection randomness and issuer. Nothing in the function
checks that these belong together, so whether they do must show in the verdict,
which is `VerifiesExactly`. Calls share no state and take no callbacks, so one is
in progress at a time. Randomness shorter than 32 bytes is refused before anything
is derived; `Issue`, `Blind` and `BeginProve` are disabled then.

### Identity, wire and component

A byte string in `Wire` is the record of what the decoders read in it: header
fields, body, and the body's coefficients as words that need not be reduced. In
`Signing`, an output of SHAKE-256 is what was absorbed, a signature is its key,
context and message, and a ciphertext is all inputs of the cipher; that is what
the two external crates promise, and no more is used.

`Component` is the composition. Handles own identities and one credential; what a
call returns goes into `returned` with the call that returned it, and the host may
hand it back whenever and wherever it likes: `Blobs` mixes parts of sealed blobs,
`AlteredBytes`, `AlteredBodies` and `AlteredPresentations` change one thing each.
A call that fails changes nothing and is not a step; the errors are covered by the
properties, which evaluate the verifying functions on every altered input. The
loops inside `plp_prove_identity` and `present` are one step here: `Plp` and
`Credential` model them one attempt at a time.

### Device: PUF and fixed-time loop

`FixedTime` has one action per iteration and keeps the code's mask arithmetic:
`ct_cond_copy` writes to the caller's buffer or to a dummy, under a mask made of
the norm check and of what was captured before. `Centered` computes those masks on
words of `WORD` bits with the wrap-around of a build without overflow checks, which is the
profile `release-wasm` (`Cargo.toml:168-172`; with
them the same inputs panic). The caller's buffer survives between calls, as a
reused buffer does. `Enclave` puts `Puf` in front of it: keys are symmetric
differences of hash outputs, which are the terms they absorb, so equal terms
cancel as bytes do under exclusive or.

### Predicate proofs and error location

`Saap` and `Bch` keep no state and are checked in `MCArith`. `Saap` keeps the two
forms of a context apart: the matrix sees all of it, mask and challenge its tag.
`SaapPromise` states what a proof stands for, whatever the ring and the hashes:
one statement and one tag, by the challenge; and by the equation one key and one
matrix, up to what the equation can tell: a key is refused unless the challenge
gives it the same product, a context of the same tag unless its matrix gives the
response the same image. `PredicateStands` says all of it with equalities, so it
also says what passes.
`Bch` follows the published iteration; positions count from the first bit.

## 3. Model checking

Run `tlc -config <cfg> <module>`.

| Run | Config | What it asks |
|---|---|---|
| `present` | `MCPlp_present` | Two holders, three contexts (two with one tag), all interleavings of their calls: `LoopInv`, `ReleasedInBound`, `ReleasedVerifies`, `AcceptIsAuthentic`, `NoResidue` |
| `promise` | `MCPlp_promise` | One holder, two values of randomness and a short one, eighteen hash functions: `ImplementsPromise`, `CallReturns` |
| `mask`, `context` | `MCPlp_mask`, `MCPlp_context` | see section 5 |
| `htss` | `MCHtss` | Two nonces for one secret and two secrets that are refused, any order, repetition and alteration of shares: `OnlyGenuine`, `BlobAgrees`, `ImplementsPromise` |
| `credential` | `MCCredential` | Three identities (two with one first component), two issuers, right and wrong arguments, one or two presentations: `ReleasedInBound`, `VerifiesExactly`, `AcceptIsAuthentic`, `SameMaskSameChallenge` |
| `wipe` | `MCCredential_wipe` | see section 5 |
| `component` | `MCComponent` | A host drives every export but threshold sharing, in any order: `NonceDeterminesMessage`, `OpensOnlyAsSealed`, `SignatureNamesPurpose`, `AcceptedBytesAreEncodings`, `BytesAgreeWithRecords`, `PresentationBound` |
| `enclave` | `MCEnclave` | Readings of three devices, three contexts, a buffer used again: `RejectedNeverOut`, `KeyIsEnrolled`, `ImplementsPromise` |
| `arith` | `MCArith` | `ProductsAgree`, `ChallengeBound`, `DistinctPointsReconstruct`, `RepeatedPointRefused`, `FewPointsHide`, `NormMasksExact`, `LocatesErrors`, `PredicateStands` |
| `routing` | `Hypercube_pass` | All pairs of the real five-dimensional cube, up to six shares: `RoutesDisjoint`, `ReturnsExactly`, `Terminates` |
| `routing_claim` | `Hypercube_claim` | see section 5 |

Each property of a passing run has a mutation in the module it is about
(operators named `<definition>_<change>`): a plausible mistake at that place in
the code, under which TLC finds the property violated.

**Bounds.** *PLP:* N = 2, q = 7, rank 1 (49 vectors), a challenge of weight 1,
short coefficients in -1..1, beta 1, gamma1 3, two attempts. The masks are chosen
so that a response is always, sometimes or never in bound, so every exit of the
loop is taken: accepted at first, accepted after a rejection, exhausted. Two
attempts are enough to distinguish the first acceptable one from any other and to
see residue between attempts. The code's 48 attempts, rank 4 and N = 256 are
covered by the theorems. *Sharing:* q = 7, one-bit bytes, a two-byte length
prefix, a three-byte secret, so a sharing has an odd payload, a padded last limb
and three limbs, and field elements above a limb exist as in the code. The
operator `Within` bounds the tray: one undisturbed sharing is collected past all
five shares, two sharings or an altered share up to four, one more than the
threshold. *Credentials:* Z_7
in rank 2, so that a secret has a component the credential does not hold, and
two identities that differ there only; one attribute slot, disclosed or not; two
attempts, with masks that are accepted always, sometimes or never. `MCCallWithin`
bounds the calls: the first has at most one argument out of place (`Slips`), which
gives every single way to be wrong and none to be excused by another; a second
call follows a call without slips and differs from it in one argument, which is
what the comparison of two uses of one randomness needs. `MaxBlinded` is 1.
*Arithmetic:* a transform of length 4 over Z_17 has two passes of
butterflies and a non-trivial bit reversal; a product's factors are 81 x 16
polynomials with zero, small and extreme coefficients; every polynomial of
degree two over Z_7 is shared, with a secret that may exceed the field, and every
list of two to four of five indices is tried. Words have six bits, and every word and
every bound is tried. The error locator works over GF(16) on words of fifteen bits
with every pattern of up to two errors, in the zero word and in the all-ones word;
the iteration is linear in the codeword, so these stand for all. Predicate proofs
have rank 2, two attempts and challenges of weight two, and are presented for
twelve statements beside their own; some first attempts are rejected. *Component:* two handles that are interchangeable (`HandleSymmetry`),
two identities and a third secret that agrees with one in its first component, and
in every kind of input one that is too short. `MCWithin` bounds the values the
host keeps to those some property relates: two sealed blobs, a projection and a
proof that differ in at most one argument (`Comparable`), or one of anything else.
Altered responses are other representations of the same residues and lists of
another length only: the verifier's tolerance admits neighbouring responses in a
ring this small, which in the code is a matter of lattices. *Enclave:* Z_17 with
N = 1 in rank 2, so every response, commitment and mask is a pair; three
iterations instead of sixteen. Over the nine calls the first candidate is accepted,
or only a later one, or several, or none, so a capture is followed by acceptable
and by rejected candidates.
*Routing:* no reduction; six shares make the sixth reuse the first route.

**Fairness.** `Plp` assumes weak fairness of each holder's `ProveStep`, and
`Hypercube` of the call's `Next`: a synchronous call, once entered, runs until
it returns; `Enclave` assumes it of the fixed-time loop's `Iterate` and `Return`,
which are bounded and wait for nothing. No fairness is assumed of callers, custodians or collectors. That
`CallReturns` needs nothing more shows that the loop's termination does not rest
on the hash being kind. `Hypercube` really stops when the call has ended,
so its configurations do not check for deadlock; every other run does.

## 4. Proofs

`tlapm <module>.tla` checks every step of a proof module. Each theorem below
holds for every value of the constants that satisfies the assumptions its
section names. The assumptions are those of the modules; TLC evaluates every one
of them on the instances of section 3.

### PLP (`PlpProofs`, `PlpCoreLemmas`)

For every set of holders, contexts and randomness, every ceiling, every module
with the stated laws and every hash:

| Theorem | Property |
|---|---|
| `TypeCorrect` | `TypeOK` |
| `LoopCorrect` | `LoopInv` |
| `BoundHolds` | `ReleasedInBound` |
| `Completeness` | `ReleasedVerifies` |
| `Binding` | `AcceptIsAuthentic` |
| `ResidueFree` | `NoResidue` |
| `Refinement` | `ImplementsPromise` |

The argument: none of the properties of returned proofs is inductive, because
they say nothing of the call in progress. The invariant is
`IInv == TypeOK /\ LoopInv`. `LoopInv` states what every buffer holds at every
point of the loop as a function of the call's inputs and the attempt number
(`MaskAt`, `CommitmentAt`, `ChallengeAt`, `ResponseAt`), that all earlier attempts
were out of bound, and the same for what was returned. Each action preserves it;
the properties follow without a further induction. *Completeness* is then the
computation `A.z - c.b - w = -(c.e)` from the module laws and `BetaAssumption`.
*Binding* follows from what the challenge carries. *Refinement* uses that two
attempts of one call which are both first acceptable are the same attempt, and
that acceptance and exhaustion exclude each other.

Assumptions: `BoundsAssumption`, `ClosureAssumption`, `ModuleAssumption`,
`BetaAssumption` and `OracleAssumption` of `PlpCore`.

### Sharing (`HtssProofs`)

| Theorem | Property | For every |
|---|---|---|
| `InverseExact` | | modulus above one and number: `mod_inverse` is the inverse below the modulus, or nothing, and nothing only with a common divisor |
| `InterpolationExact` | | prime field, polynomial and list of at least as many distinct points, in any order |
| `RepeatedPoint` | | field and list with two congruent points |
| `FewEvaluationsHide` | | prime field and set of fewer evaluation points than coefficients, none of them zero |
| `Reconstruction` | `DistinctPointsReconstruct` | prime field, threshold, number of shares, polynomial |
| `RepetitionRefused` | `RepeatedPointRefused` | the same |
| `Hiding` | `FewPointsHide` | the same |
| `Authenticity` | `OnlyGenuine` | field, set of deals, coefficient derivation and way to alter shares |
| `Typing` | `TypeOK` | the same, base and widths |
| `Refinement` | `ImplementsPromise` | the same: sharing implements `ThresholdSharing` |
| `ByteForm` | `BlobAgrees` | the same: both forms of a call agree, and no disturbed frame gives a secret |

*The inverse.* The invariant of extended Euclid is that both remainders are
multiples of the number modulo the modulus (`r = t a`, `newr = newt a`), that the
remainders keep every common divisor, and that the second one decreases; so the
loop ends with the greatest common divisor (`EuclidStarts`, `EuclidKeeps`,
`EuclidEnds`).

*Interpolation.* Over a list of points a value determines its *moment*: the sum of
the values times the Lagrange weights at zero. The code computes it modulo q
(`BasisExact`, `InterpolatesMoment`); every denominator is a product of differences
of distinct residues, so a prime modulus makes it invertible. Then the moment of
the constant 1 is 1 (`ZeroMoment`) and that of every power below the number of
points is 0 (`HigherMoment`), each by taking one point out: `MomentRemoval` says
how the weights of a set follow from those of the set without a point. A
polynomial's values are a combination of powers, so its moment is its first
coefficient (`PolynomialMoment`). *Repeated points* make one factor of a
denominator zero, hence the denominator, and zero has no inverse. *Hiding:* the
product of the `1 - x/r` over the known points vanishes at them and is 1 at zero
(`Vanishing`, built one factor at a time by `EvaluateFactor`); adding a multiple of
it changes the secret and none of the known shares.

*Authenticity.* Leaf and node terms are injective, so an inclusion path that folds
to the root of a deal ends in that deal's leaf of that index (`PathInTree`); hence a
list of shares that passes the checks has only genuine values (`OkMeansGenuine`).

*Refinement.* `IInv` only says what an answer was computed from; `TypeInv` adds that
everything on the tray is a share. Each call of `Reconstruct` then is one of two
cases (`ReconstructCases`): the list passes the checks and is a list of distinct
shares of the asked deal, index, value and path, or it does not and the error is one
of the three. In the first case what comes back is computed forwards through every
conversion: the payload frames the secret (`PayloadFramed`), its limbs are pairs of
bytes below the modulus (`LimbsAre`), a share's value is the evaluations of all
limbs' polynomials one after the other (`ShareValueIs`, which needs `Flattened` for
what `FlattenSeq` returns and `RoundTrip` for little-endian bytes), interpolation
gives each limb (`LimbRead`, from `InterpolationExact`), the pairs of their bytes are
the payload (`PairsOfLimbs`), and the length prefix finds the secret in it
(`SecretFound`). The refinement mapping names a share by its deal and index; that it
is well defined needs that a root has only one deal (`RootOfDeal`). This is itself a
consequence of the round trip: the same shares cannot give two secrets. That a list
of distinct tokens is no longer than the code's limit of five shares is the
pigeonhole principle (`AllTokens`).

*The byte form.* `Frame` says where the cells of each share lie in the bytes
(`EncodedIs`, which needs `FlatList` for lists of different lengths), and `Track` where
the reader stands after each share: `ReadShares` returns shares exactly if there is a
track (`TrackIsRead`, `ReadHasTrack`). On a list with a byte form the two coincide
(`FrameTrack`), so the list is read back as it is (`FrameRead`). Of any other list the
reader may go out of step with the shares. But if a secret comes out, every share that
was read is genuine (`GenuineRead`): its index and value were read from bytes and its
path from digests. Within a share no byte follows a digest (`NoTurn`), so the reader
cannot be inside one where it passes from one share to the next; by induction forwards it is never
behind, and by induction backwards from the common end never ahead (`InStep`).
Hence the list has a byte form after all (`OnlyFramable`). With a wrong count or
length the reader stops at the wrong place, because up to there it reads the same
(`SameTrack`, `WrongLength`); with a wrong width its first share holds a digest in its value or
a byte in its path (`WrongWidth`). The invariant of the state is `AnswerIs`: an answer
is what the call returns on the tray as it stands.

Assumptions: `FieldAssumption`; `PrimeAssumption` (the code's modulus 8380417 is
prime, and `mod_inverse` relies on it); `ShapeAssumption`, the five leaves and
threshold of the code, for the share tree; for `Typing`, `Refinement` and `ByteForm`
`WidthAssumption` (two bytes are below the modulus and it below what an evaluation's
bytes hold, 65536 <= 8380417 <= 256^4, and the longest secret fits the prefix, 65536
< 256^4) and `DealAssumption` (secrets are bytes, derived coefficients numbers, an
altered share has the type of a share, and two nonces do not share one secret in
the same way, which SHAKE-256 is taken to ensure).

### Routing (`HypercubeProofs`)

For every dimension, pair of endpoints and number of shares: `Typing` (`TypeOK`),
`Disjointness` (`RoutesDisjoint`), `ExactReturn` (`ReturnsExactly`). The invariant adds to
the types where a packet is: its node is the source with the first hops of its
route flipped (`OnRoute`), it has not passed the destination (`StopsAtDst`), packets
before the current one have arrived and later ones have not left (`InOrder`), and
what a call that ended has done (`Ended`). A node between the endpoints is then a
*window* of consecutive dimensions, and two windows that start at different
dimensions are different sets unless they are empty or everything
(`WindowsDiffer`). This holds also for calls that panic. Assumption:
`HypercubeAssumption`.

### Credentials (`CredentialProofs`, `CredentialLemmas`)

For every set of identities, issuers, contexts and values, every number of
attributes and attempts, every ring with the stated laws and every hash:

| Theorem | Property |
|---|---|
| `Typing` | `TypeOK` |
| `BoundRespected` | `ReleasedInBound` |
| `Completeness` | right witnesses are accepted: one half of `VerifiesExactly` |
| `Exactness` | `VerifiesExactly`, given `Cancels` |
| `Authenticity` | `AcceptIsAuthentic` |
| `MaskFixesChallenge` | `SameMaskSameChallenge` |

`IInv` says, as for PLP, what every buffer holds as a function of the arguments and
the attempt (`CallInv`), and besides what the wallet may combine: the credential was
issued to one identity with one list of attributes (`CredentialInv`), every blinding
is of it (`WalletInv`), every argument of a call comes from somewhere (`CallShape`).
`RowExact` and `ProjectionExact` are the algebra of a verifier: recomputing a
commitment from a response gives the commitment exactly if the opened value is the
committed one, in one direction by the ring laws and in the other by cancelling the
challenge. *Exactness* has that last step as a hypothesis on the challenges of the
attempt that was presented, `\E`-free and per challenge: in Z_q[X]/(X^N+1) a sparse
challenge need not be invertible, and a wrong witness whose difference is killed by
the challenge is accepted by the code. *Completeness* and *Authenticity* do not
need it: where the first component of an identity must be recovered, secrets are
short and `ShortCancellation` suffices, which is cancellation over the integers.

Assumptions, beside those of `PlpCore`: `SizesAssumption`, `RingAssumption`,
`VectorAssumption`, `CommitmentAssumption` (products with the issuer's matrix are
linear), `IssuingAssumption` (samplers and the limb encoding return what their
types say; an attribute decodes as it was encoded), `ShortCancellation`,
`LimitAssumption`, `ErrorAssumption`.

### Component (`ComponentProofs`)

For every host, that is every order of calls and every choice of arguments:

| Theorem | Property |
|---|---|
| `Typing` | `TypeOK` |
| `NonceUse` | `NonceDeterminesMessage` |
| `Opening` | `OpensOnlyAsSealed` |
| `SigningPurpose` | `SignatureNamesPurpose` |
| `EncodingsOnly` | `AcceptedBytesAreEncodings` |
| `TwoVerifiers` | `BytesAgreeWithRecords` |
| `Bound` | `PresentationBound` |

The invariant gives every returned value the function that made it
(`ReturnInv`), every live identity its entropy, the credential its issuing call.
*NonceUse* and *Opening* then need only that key streams, nonces and tags are the
terms they hash. *EncodingsOnly* follows the decoder: words of an accepted form are
reduced and as many as a vector has, so a form other than the encoding fails or
decodes to another vector, which the digest in the challenge refuses. *Bound* takes
a presentation through its words and back and uses the lemmas on
credentials for what comes out. Assumptions, beside those above: `InputAssumption`,
`ElementAssumption`, `CodecAssumption` (encoding and decoding are inverse on reduced
words), `PurposeAssumption`.

### Ring (`EnclaveProofs`, its second part)

For every degree, odd or even modulus above two, rank, challenge weight and short
bound, of the schoolbook arithmetic of `PlpRing`:

| Theorem | Property |
|---|---|
| `ProductWithinBound` | `ChallengeBound` |
| `RingIsClosed` | `ClosureAssumption` of `PlpCore` |
| `RingIsModule` | `ModuleAssumption` of `PlpCore` |
| `ShortProductBounded` | `BetaAssumption`, with Beta = Weight * Eta |
| `RingIsGroup` | `RingAssumption` of `CredentialCore` |
| `VectorsAreGroup` | `VectorAssumption` of `CredentialCore` |

So the theorems on presentations and credentials, which assume these laws of an
abstract module, hold of the code's ring. A coefficient of a product is two halves of
a convolution; `ProductRuns` makes it one sum over the first factor of `Turned`
coefficients of the second, those that wrap with their sign. *The bound:* a sum whose
first factor has `Weight` non-zero terms, each a sign times something within `Eta`,
is `Near` a value of that magnitude modulo Q (`ProductNear`), and the centred
representative of a residue is its smallest (`NearCentered`). *The laws* are
congruences of sums taken term by term (`SumAlike`, `SumPlus`, `SumTimes`) or in
another order (`SumExchange`); commuting a challenge with a matrix needs that turning a
product turns its terms (`TurnedProduct`, `Swaps`). Assumptions: `RingParameters` and
`ProductParameters`, which only say that the constants are numbers.

### Transform and predicate proofs (`EnclaveProofs`, its third part)

For every degree `2^BITS`, modulus, root and rank:

| Theorem | Property |
|---|---|
| `ProductsAreReference` | `ProductsAgree` |
| `TransformIsProduct` | its first part, of all reduced polynomials, without a state |
| `TransformRoundTrip` | `ntt_inverse` undoes `ntt_forward` |
| `CenteredProducts` | the other parts, of all centred polynomials |
| `PredicateStandsAlone` | `PredicateStands` |

*The transform.* After each pass the cells of a block hold the values, at powers of
the root, of the polynomial made of those input coefficients that bit reversal brought
into the block; this is the invariant of the passes (`PassStart`, `PassSplits`, `PassJoins`,
`PassStep`), and after the last pass it is the evaluation of the polynomial at
every power of the root (`CyclicIs`). With the weights the forward transform
evaluates at the odd powers of `PSI` (`ForwardIs`); evaluation there respects negacyclic
products, because `PSI^N = -1` (`EvalProduct`); and the odd powers are orthogonal: their sums
over a non-zero distance vanish, by halving the distance until it is odd
(`OddSumEmpty`, `OddSumsPick`), so the inverse returns the one polynomial with the
given values (`InverseIs`). Square-and-multiply is proved to be exponentiation
modulo `Q` (`PowModIs`) and bit reversal to be what the passes need (`RevGrows`,
`RevBelow`).

*Predicate proofs.* Centred and reduced coefficients are two forms of one ring
(`ToPlpIs`, `FromPlpIs`, `CenteredSums`, `CenteredProduct`), so the laws above carry over;
`ColumnKeeps` follows the three matrix products of prover, key and verifier column by
column, and `EquationIsExact` is the comment at `saap.rs:600-602`: with no error
term the verifier's equation is an equality. A challenge carries its transcript, so it
recurs only for the statement it was computed from (`ChallengeNames`); and since equal
terms cancel, the equation holds for another key or matrix exactly when the two
products are one (`EquationTells`, `DifferencesTell`).

Assumptions: `TransformParameters` (N is `2^BITS`, with the doubling law of powers of
two, which the provers do not know), `RootAssumption` (three facts of arithmetic about
the crate's 1753, 256 and 8380417: `PSI^N = -1`, `2N` divides `Q - 1`, and
`N^(Q-1) = 1`), `FactorAssumption` and `SaapAssumption` (what is multiplied is a
polynomial; samplers and secrets have centred coefficients).

### Device (`EnclaveProofs`)

For every ring, rank, word width, rejection bound and ceiling, every set of
readings and contexts and all hashes:

| Theorem | Property |
|---|---|
| `Typing` | `TypeOK` |
| `MasksExact` | `NormMasksExact` |
| `RejectedWithheld` | `RejectedNeverOut` |
| `BufferInBound` | the caller's buffer is in bound at every step of a call |
| `KeyAuthentic` | `KeyIsEnrolled` |
| `LoopImplementsPromise` | the steps of `FirstAcceptable`, which with the run's liveness is `ImplementsPromise` |

`RejectedNeverOut` is not inductive: it does not say why a captured response is the
first. The invariant `IInv` adds `LoopInv` (while the loop runs, the mask is zero
and every earlier candidate was rejected, or the buffer holds the first acceptable
one) and `KeyInv` (keys and helper data come from readings). Lemmas compute the
masks (`Captures`), show that the wiped buffer itself passes the norm check
(`NothingAcceptable`), and that helper data masked by one reading cannot give the
key of another (`OneHelperOneReading`). Assumptions: `WordAssumption`, three of
whose conjuncts are facts about powers of two that the provers do not know,
`FixedTimeAssumption`, `SamplerAssumption` and `EnclaveAssumption`.

### How folds are reasoned about

The library's induction theorems cannot be instantiated here, and the models sum
and multiply with the folds of the community modules. The proofs use two means.
A statement about all numbers or all finite sets is the emptiness of a set of
counterexamples, which has a least member (`LeastNatural`, `SubsetInduction`). A fold
is a function defined on the subsets of its domain (`FoldExists`), and what it
computes is a sequence of states, each of which the body makes of the one before
(`FoldInOrder`, `BasisRuns`, `EvaluateRuns`, `EuclidRuns`); an invariant of the
sequence then is an invariant of the fold (`Prefix`).

### Only model-checked

* Liveness: `CallReturns`, `Terminates` and the answer `FirstAcceptable` promises. The
  provers have no rule for fairness that they can apply here.
* Error location (`LocatesErrors`): the decoder is written with bitwise operations,
  which have no theory in the provers.
* That the assumptions hold of the instances, and which instances are interesting.

## 5. Where the code and its text differ

Four runs expect a violation; each states what a comment or document says.

* `mask` – `plp.rs:1136-1137` asks that the derivation of a deterministic mask
  bind what is being proven. It binds the holder, the tag and the attempt
  (`plp.rs:1127-1139`), not the salt or `b`: two projections at one tag share masks.
* `context` – `wire.rs:147-149` says a projection built for one context must not
  verify against another. The comparison is of 32-byte tags (`plp.rs:514-519`), so
  it separates tags, and `ReleasedVerifies` and `AcceptIsAuthentic` are stated
  for tags.
* `wipe` – `credential.rs:803-804` says a rejected response is wiped. `z_r` and `z_m`
  are (805-809), `z_s` and `z_e`, computed beside them at 772-777, are not.
* `routing_claim` – `docs/HTSS-TOPOLOGY.md:133,284` gives paths the length of the
  Hamming distance and delivers every packet. The routes ignore the endpoints
  (`htss.rs:958-968`). `ReturnsExactly` says exactly which calls return: those
  whose differing dimensions are a prefix of every rotation used.

Met while modelling, and not the subject of a run:

* `docs` of `reconstruct` (`puf.rs:347-348, 376-382`) promise that up to 55 flipped
  bits are corrected. The code compares the candidate with the key of the reading
  as it is (383-423), so only an identical reading returns a key, and
  `bch_decode_rust` (539-541), which passes zero helper data, never does:
  `KeyIsEnrolled` covers both.
* `verify` of `signing.rs` documents an error for input that does not parse
  (477-484); it returns `Ok(false)` for it.
* The associated data of a sealed blob holds the constant version, so an edited
  version byte is refused by comparison and not by the tag (`signing.rs:581-589`).
* Presentations are decoded with a check of lengths only (`credential.rs:927-936`),
  so `z_m` with `q` added to a coefficient is a second form of the same presentation;
  projections and proofs have one form, which `AcceptedBytesAreEncodings` shows.
* `generate_candidate_z` says the bound is met with equality (`sampling.rs:418-424`);
  the check is strict. `y`, `w` and `c` of that function are not wiped.
* SAAP proofs carry all attribute values, also the undisclosed ones
  (`saap.rs:93-108`), and `verify_saap_proof_against` binds neither those nor
  `commitment_hash`: in `PredicateStands` undisclosed values are altered and the proof
  still passes.
* Reusing `rho` is documented as safe for SAAP (`saap.rs:386-393`). The mask sees the
  32-byte tag and the matrix the whole context, so two contexts with one tag share
  a mask over two matrices.
* In a 32-bit build without overflow checks `off + width + path_len`
  (`htss.rs:700`) can wrap and the slice after it panics, where the documentation
  promises `SerializationError`.

## 6. Not modelled

* Time: constant-time code (`ct_verify.rs`, C helpers) has no meaning in a model
  of states.
* Probability: that masks are uniform, that attempts are rejected rarely, that
  distributions do not depend on the secret. The model has every outcome instead.
* Hardness: that hashes have no collisions is assumed, in the two places named
  in section 2 and in the tree; that lattice problems are hard plays no part.
* The limb encoding of attributes, and 32-bit `usize`.
* The C sources, the BCH encoder and generator polynomial (nothing calls them), and
  `htss-split` and `htss-reconstruct` of the component, which pass their arguments on.
* Zeroing by `Drop`, error texts, build, scripts and examples.

## 7. Plan

Done: PLP, sharing with its byte form, credentials, the component with identities,
signing, sealing and wire, the device, routing, predicate proofs, error location
and the arithmetic are modelled and checked; PLP, sharing and the device each
implement an abstract specification; all of them but error location are proved about.

Open: the limb encoding of attributes and threshold sharing through the component,
which are not modelled; error location, were the decoder's field arithmetic written
without bitwise operations.
