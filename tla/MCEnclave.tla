----------------------------- MODULE MCEnclave -----------------------------
(***************************************************************************)
(* Enclave over Z_17 (N = 1) in rank 2, with three iterations, masks       *)
(* of norm up to 4 and responses accepted below 4.  Of the calls some      *)
(* accept the first candidate, some only a later one, several, or none.    *)
(***************************************************************************)
EXTENDS Enclave

MCReading == {"r1", "r2", "r3"}
MCTau     == {"t1", "t2", "t3"}

Number(x) ==
  CASE x \in {"r1", "t1"} -> 1 [] x \in {"r2", "t2"} -> 2 [] x \in {"r3", "t3"} -> 3

(* A key with one term is a reading's; one with more only a bug makes.     *)
MCKeyStream(key) ==
  LET n == 5 * Cardinality(key) + MapThenSumSet(LAMBDA term : Number(term[2]), key)
  IN  [k \in Rows |-> [i \in Degrees |-> (7 * n + 5 * k + 3 * i) % 16]]

MCSecrets == {puf_seed_to_vector_k(seed_of(r)) : r \in MCReading}

MCMaskOf(tau, i) ==
  [k \in Rows |-> [d \in Degrees |-> ((3 * Number(tau) + (2 * i + 1) * (Number(tau) + k)) % 9) - 4]]

MCRowOf(tau, row) == [k \in Rows |-> [d \in Degrees |-> ((3 * Number(tau) + 5 * row + 7 * k + 8) % 17) - 8]]

MCChallengeAt(w, tau) == [d \in Degrees |-> IF (w[1][0] + Number(tau)) % 2 = 0 THEN 1 ELSE -1]
=============================================================================
