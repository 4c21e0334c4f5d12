-------------------------------- MODULE Bch --------------------------------
(***************************************************************************)
(* The error locator of src/src/puf.rs: syndromes of a received word, the  *)
(* Berlekamp-Massey iteration and the root search, over GF(2^BCH_M).  The  *)
(* crate fixes BCH_M = 10, GF_POLY = x^10 + x^3 + 1 and BCH_T = 55, and    *)
(* its extractor does not call them (see Puf).  Positions count bits from  *)
(* the first of the word.                                                  *)
(***************************************************************************)
EXTENDS Integers, SequencesExt, Bitwise

CONSTANTS
  BCH_M,     \* bits of a field element
  GF_POLY,   \* the field's polynomial
  BCH_T      \* errors corrected

ASSUME BchAssumption == BCH_M \in Nat /\ BCH_M > 1 /\ GF_POLY \in Nat /\ BCH_T \in Nat \ {0}

GF_SIZE == 2 ^ BCH_M
BCH_N   == GF_SIZE - 1

XorOver(terms) ==
  MapThenFoldSet(LAMBDA x, y : x ^^ y, 0, LAMBDA i : terms[i], LAMBDA T : CHOOSE i \in T : TRUE, DOMAIN terms)

(* Powers of the generator, each from the one before, and their inverse.   *)
gf_exp ==
  FoldLeft(LAMBDA powers, i :
             LET x == 2 * Last(powers)
             IN  Append(powers, IF x >= GF_SIZE THEN x ^^ GF_POLY ELSE x),
           <<1>>, [i \in 1 .. BCH_N - 1 |-> i])

gf_log == [x \in 1 .. BCH_N |-> CHOOSE i \in 0 .. BCH_N - 1 : gf_exp[i + 1] = x]

Alpha(i) == gf_exp[(i % BCH_N) + 1]

gf_mul(a, b) == IF a = 0 \/ b = 0 THEN 0 ELSE Alpha(gf_log[a] + gf_log[b])
gf_inv(a)    == IF a = 0 THEN 0 ELSE Alpha(BCH_N - gf_log[a])

(* `received` is the set of the positions whose bit is 1.                  *)
compute_syndromes(received) ==
  FoldLeft(LAMBDA found, alpha_pow :
             Append(found, XorOver([bit_pos \in received |-> Alpha(alpha_pow * bit_pos)])),
           <<>>, [i \in 1 .. 2 * BCH_T |-> i])

(* Polynomials of at most BCH_T + 1 coefficients, the lowest first.        *)
Truncate(p)     == SubSeq(p, 1, BCH_T + 1)

(* A mutation: by one place, whatever m is.                                *)
Shift_Once(p, m) == Truncate(<<0>> \o p)

Shift(p, m)     == Truncate([i \in 1 .. m |-> 0] \o p)
Scale(c, p)     == [i \in DOMAIN p |-> gf_mul(c, p[i])]
Subtract(p, r)  == Truncate([i \in DOMAIN p |-> p[i] ^^ r[i]])
One             == [i \in 1 .. BCH_T + 1 |-> IF i = 1 THEN 1 ELSE 0]

(* One syndrome more: the shift register grows only if it is short.        *)
Massey(st, n, syndromes) ==
  LET delta == syndromes[n + 1] ^^ XorOver([i \in (1 .. st.l) \cap (1 .. BCH_T) |->
                                             gf_mul(st.sigma[i + 1], syndromes[n + 1 - i])])
      sigma == Subtract(st.sigma, Scale(delta, Shift(st.b, st.m)))
  IN  IF delta = 0 THEN [st EXCEPT !.m = @ + 1]
      ELSE IF 2 * st.l <= n
      THEN [sigma |-> sigma, b |-> Scale(gf_inv(delta), st.sigma), l |-> n + 1 - st.l, m |-> 1]
      ELSE [st EXCEPT !.sigma = sigma, !.m = @ + 1]

berlekamp_massey(syndromes) ==
  FoldLeft(LAMBDA st, n : Massey(st, n - 1, syndromes),
           [sigma |-> One, b |-> One, l |-> 0, m |-> 1],
           [n \in 1 .. 2 * BCH_T |-> n]).sigma

(* The positions i at which sigma(alpha^-i) is 0.                          *)
chien_search(sigma) ==
  {i \in 0 .. BCH_N - 1 :
     XorOver([j \in DOMAIN sigma |-> gf_mul(sigma[j], Alpha(BCH_N - ((i * (j - 1)) % BCH_N)))]) = 0}
=============================================================================
