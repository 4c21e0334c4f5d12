------------------------------- MODULE Shamir -------------------------------
(***************************************************************************)
(* The field arithmetic of the threshold scheme in src/src/htss.rs:        *)
(* evaluation of a sharing polynomial and Lagrange interpolation at zero   *)
(* over Z_q.  The crate fixes q = 8380417, a threshold of 3 and 5 shares.  *)
(***************************************************************************)
EXTENDS Integers, SequencesExt

CONSTANTS
  MODULUS_Q,     \* a prime above TOTAL_SHARES
  THRESHOLD_K,   \* shares that determine a secret
  TOTAL_SHARES   \* shares issued

ASSUME FieldAssumption ==
  /\ MODULUS_Q \in Nat /\ THRESHOLD_K \in Nat \ {0} /\ TOTAL_SHARES \in Nat
  /\ THRESHOLD_K <= TOTAL_SHARES /\ TOTAL_SHARES < MODULUS_Q

ASSUME PrimeAssumption == \A d \in 2 .. MODULUS_Q - 1 : MODULUS_Q % d # 0

Field == 0 .. MODULUS_Q - 1

(* A mutation: the power of x does not grow past x.                        *)
Evaluate_NoPower(coefficients, x) ==
  FoldLeft(LAMBDA acc, c : [y     |-> (acc.y + c * acc.x_pow) % MODULUS_Q,
                            x_pow |-> x % MODULUS_Q],
           [y |-> 0, x_pow |-> 1], coefficients).y

(* f(x) for the coefficients of f, lowest first, with a running power of x. *)
Evaluate(coefficients, x) ==
  FoldLeft(LAMBDA acc, c : [y     |-> (acc.y + c * acc.x_pow) % MODULUS_Q,
                            x_pow |-> (acc.x_pow * x) % MODULUS_Q],
           [y |-> 0, x_pow |-> 1], coefficients).y

NoInverse == -1

(* At most m steps of extended Euclid are ever needed.                     *)
Euclid(a, m) ==
  FoldLeft(LAMBDA e, i :
             IF e.newr = 0 THEN e
             ELSE LET quotient == e.r \div e.newr
                  IN  [t |-> e.newt, newt |-> e.t - quotient * e.newt,
                       r |-> e.newr, newr |-> e.r - quotient * e.newr],
           [t |-> 0, newt |-> 1, r |-> m, newr |-> a % m], [i \in 1 .. m |-> i])

(* Mutations: zero for "no inverse"; a negative inverse is not normalised. *)
mod_inverse_ZeroSentinel(a, m) ==
  LET e == Euclid(a, m) IN IF e.r > 1 THEN 0 ELSE e.t % m

mod_inverse_NoSign(a, m) ==
  LET e == Euclid(a, m) IN IF e.r > 1 THEN NoInverse ELSE IF e.t < 0 THEN - e.t ELSE e.t

mod_inverse(a, m) ==
  LET e == Euclid(a, m) IN IF e.r > 1 THEN NoInverse ELSE IF e.t < 0 THEN e.t + m ELSE e.t

(* Numerator and denominator of the i-th basis polynomial at zero.         *)
Basis(points, i) ==
  FoldLeft(LAMBDA b, j :
             IF j = i THEN b
             ELSE [num |-> (b.num * ((- points[j][1]) % MODULUS_Q)) % MODULUS_Q,
                   den |-> (b.den * ((points[i][1] - points[j][1]) % MODULUS_Q)) % MODULUS_Q],
           [num |-> 1, den |-> 1], [j \in DOMAIN points |-> j])

(* The value at zero of the polynomial through `points`, or NoInverse when *)
(* two of them share an evaluation point.                                  *)
reconstruct_secret(points) ==
  LET DenInverse(i) == mod_inverse(Basis(points, i).den, MODULUS_Q)
      Term(i) == ((points[i][2] % MODULUS_Q)
                    * ((Basis(points, i).num * DenInverse(i)) % MODULUS_Q)) % MODULUS_Q
  IN  IF \E i \in DOMAIN points : DenInverse(i) = NoInverse
      THEN NoInverse
      ELSE FoldLeft(LAMBDA sum, i : (sum + Term(i)) % MODULUS_Q,
                    0, [i \in DOMAIN points |-> i])
-----------------------------------------------------------------------------
(* The older calls for a single number, kept and deprecated: a secret      *)
(* above the field is cut, and `derived` are k - 1 coefficients from a     *)
(* 64-bit seed.                                                            *)
split_secret(secret, derived, n) ==
  LET coefficients == <<secret % MODULUS_Q>> \o [i \in DOMAIN derived |-> derived[i] % MODULUS_Q]
  IN  [x \in 1 .. n |-> <<x, Evaluate(coefficients, x)>>]

ThresholdNotMet == -2

reconstruct_secret_checked(points) ==
  IF Len(points) < THRESHOLD_K THEN ThresholdNotMet ELSE reconstruct_secret(points)
=============================================================================
