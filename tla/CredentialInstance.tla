------------------------- MODULE CredentialInstance -------------------------
(***************************************************************************)
(* A small instance of CredentialCore: the integers modulo 7 (N = 1) in    *)
(* rank 2, so a secret has two components of which a credential holds the  *)
(* first.  Challenges are 1 and -1, short elements -1..1, and a response   *)
(* is accepted up to norm 2.  Two of the three identities share the first  *)
(* component.                                                              *)
(***************************************************************************)
EXTENDS Integers, Sequences, FiniteSets

q == 7

Vector(a, b) == <<a, b>>

MCR        == 0 .. q - 1
MCVec      == MCR \X MCR
MCMat      == {<<Vector(2, 3), Vector(1, 5)>>, <<Vector(4, 1), Vector(6, 2)>>}
MCShort    == {0, 1, q - 1} \X {0, 1, q - 1}
MCChalPoly == {1, q - 1}
MCZero     == Vector(0, 0)
MCRZero    == 0

MCRAdd(a, b)  == (a + b) % q
MCRSub(a, b)  == (a - b) % q
MCRMul(a, b)  == (a * b) % q
MCRNorm(a)    == IF 2 * a > q THEN q - a ELSE a
MCAdd(u, v)   == Vector(MCRAdd(u[1], v[1]), MCRAdd(u[2], v[2]))
MCSub(u, v)   == Vector(MCRSub(u[1], v[1]), MCRSub(u[2], v[2]))
MCScale(c, v) == Vector(MCRMul(c, v[1]), MCRMul(c, v[2]))
MCApply(A, v) == LET row(i) == (A[i][1] * v[1] + A[i][2] * v[2]) % q IN Vector(row(1), row(2))
MCNorm(v)     == IF MCRNorm(v[1]) > MCRNorm(v[2]) THEN MCRNorm(v[1]) ELSE MCRNorm(v[2])
MCFirst(v)    == v[1]

MCPad(ctx) == IF ctx = "other" THEN "tag2" ELSE "tag"

(* An attribute below one limb is coefficient 0 of its polynomial.         *)
MCEncode(v) == v
MCDecode(p) == p

Number(x) ==
  CASE x \in {"alice", "issuer1", "ctx", "rho1", "tag"} -> 0
    [] x \in {"bob", "issuer2", "ctx padded", "rho2"} -> 1
    [] x \in {"twin", "other", "tag2"} -> 2
    [] x = "seed1" -> 3

MCOracle == {0}

MCSecretOf(o, id) ==
  CASE id = "alice" -> Vector(1, 6)
    [] id = "bob"   -> Vector(6, 1)
    [] id = "twin"  -> Vector(1, 0)

MCMatrixOf(o, x) == IF x[2][1] = "rho1" THEN <<Vector(2, 3), Vector(1, 5)>>
                                        ELSE <<Vector(4, 1), Vector(6, 2)>>
MCErrorOf(o, x)  == CASE x = <<"rho1", "ctx">>        -> Vector(1, 0)
                      [] x = <<"rho1", "ctx padded">> -> Vector(0, 6)
                      [] x = <<"rho2", "ctx">>        -> Vector(6, 6)
                      [] x = <<"rho2", "ctx padded">> -> Vector(0, 1)
                      [] x[2] = "other"               -> Vector(1, 1)

MCRowMul(o, issuer, row, v) == MCRMul((2 + 3 * Number(issuer) + 2 * row) % q, v[0])
MCIssueR(o, rand)  == [i \in {0} |-> 1]
MCBlindR(o, rand)  == [i \in {0} |-> IF rand = "rho1" THEN 0 ELSE 1]

(* What the masks of an attempt are: always, sometimes or never accepted.  *)
MaskKind(o, key) ==
  (o + key[Len(key)] + (IF Len(key) = 3 THEN key[2].t_blind[0] + key[2].b_tau[1]
                                              + Cardinality(key[2].disclosed) ELSE 0)) % 3

MCMaskR(o, key)    == [i \in {0} |-> IF MaskKind(o, key) = 2 THEN 1 ELSE 0]
MCMaskS(o, key)    == CASE MaskKind(o, key) = 0 -> Vector(1, 0)
                        [] MaskKind(o, key) = 1 -> Vector(2, 6)
                        [] MaskKind(o, key) = 2 -> Vector(0, 1)
MCMaskE(o, key)    == IF MaskKind(o, key) = 2 THEN Vector(3, 0) ELSE Vector(1, 6)
MCMaskM(o, key, slot) == (3 + 2 * MaskKind(o, key) + slot) % q

MCCredChallengeOf(o, t) ==
  IF (t.w1[0] + t.w2[1] + t.statement.b_tau[1] + t.statement.t_blind[1]
          + Number(t.statement.tau) + Cardinality(t.statement.disclosed)) % 2 = 0 THEN 1 ELSE 6

(* The masks of Plp's loop: in the three kinds too, over holders and tags. *)
MCMaskOf(o, key) ==
  <<Vector(1, 0), Vector(2, 6), Vector(3, 3)>>[1 + ((Number(key[1]) + Number(key[2]) + key[3]) % 3)]

MCChallengeOf(o, t) ==
  IF (t.w[1] + 2 * t.public_b[1] + t.public_b[2] + Number(t.tau)) % 2 = 0 THEN 1 ELSE 6
=============================================================================
