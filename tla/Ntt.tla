-------------------------------- MODULE Ntt --------------------------------
(***************************************************************************)
(* The fast multiplication of src/src/plp.rs: a negacyclic number          *)
(* theoretic transform built from a cyclic one by weighting coefficient i  *)
(* with PSI^i, where PSI^N = -1.  The crate fixes PSI = 1753 and 8 address *)
(* bits.                                                                   *)
(***************************************************************************)
EXTENDS PlpRing, SequencesExt

CONSTANTS
  PSI,     \* a primitive 2N-th root of unity
  BITS     \* N = 2^BITS

(* The second conjunct is arithmetic, stated because the provers do not    *)
(* know exponentiation.                                                    *)
ASSUME TransformParameters ==
  /\ BITS \in Nat /\ N = 2 ^ BITS /\ PSI \in Nat
  /\ 2 ^ 0 = 1 /\ \A s \in 1 .. BITS : 2 ^ s = 2 * 2 ^ (s - 1)

(* Square and multiply, lowest bit of the exponent first.                  *)
pow_mod(base, exp) ==
  FoldLeft(LAMBDA s, i :
             [result |-> IF s.exp % 2 = 1 THEN (s.result * s.base) % Q ELSE s.result,
              exp    |-> s.exp \div 2,
              base   |-> (s.base * s.base) % Q],
           [result |-> 1, exp |-> exp, base |-> base % Q], [i \in 1 .. exp |-> i]).result

(* What PSI is for: PSI^N = -1, and the modulus leaves room for a 2N-th    *)
(* root; N has an inverse, by Fermat's theorem.  Facts of the crate's      *)
(* 1753, 256 and 8380417.                                                  *)
ASSUME RootAssumption ==
  /\ pow_mod(PSI, N) = Q - 1
  /\ (Q - 1) % (2 * N) = 0
  /\ pow_mod(N, Q - 1) = 1

bit_reverse(x, bits) ==
  FoldLeft(LAMBDA s, i : [result |-> 2 * s.result + (s.x % 2), x |-> s.x \div 2],
           [result |-> 0, x |-> x], [i \in 1 .. bits |-> i]).result

(* One pass of butterflies over blocks of 2 * len cells.                   *)
Butterflies(a, len, root) ==
  LET w_len == pow_mod(root, N \div (2 * len))
  IN  [k \in Degrees |->
         LET low == k - (k % (2 * len)) + (k % len)
         IN  (a[low] + (IF k = low THEN 1 ELSE Q - 1) * a[low + len] * pow_mod(w_len, k % len)) % Q]

cyclic_ntt(a, root) ==
  FoldLeft(LAMBDA b, s : Butterflies(b, 2 ^ (s - 1), root),
           [i \in Degrees |-> a[bit_reverse(i, BITS)]], [s \in 1 .. BITS |-> s])

Omega == (PSI * PSI) % Q

(* A mutation: the transform is cyclic, without the weights.               *)
ntt_forward_Unweighted(p) == cyclic_ntt(p, Omega)

ntt_forward(p) == cyclic_ntt([i \in Degrees |-> (p[i] * pow_mod(PSI, i)) % Q], Omega)

Unweighted(a, n_inv, psi_inv) == [i \in Degrees |-> (a[i] * n_inv * pow_mod(psi_inv, i)) % Q]

ntt_inverse(p) ==
  Unweighted(cyclic_ntt(p, pow_mod(Omega, Q - 2)), pow_mod(N, Q - 2), pow_mod(PSI, Q - 2))

CellProducts(fa, fb) == [i \in Degrees |-> (fa[i] * fb[i]) % Q]

poly_mul_ntt(a, b) == ntt_inverse(CellProducts(ntt_forward(a), ntt_forward(b)))
=============================================================================
