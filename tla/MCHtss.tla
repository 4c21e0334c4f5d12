------------------------------- MODULE MCHtss -------------------------------
(***************************************************************************)
(* Htss over Z_7 with bytes of one bit, a length prefix of two bytes (one  *)
(* limb) and secrets of at most three bytes.  A limb is below 4, so a      *)
(* field element above 3 would lose bits, as one above 65535 does in the   *)
(* code.                                                                   *)
(***************************************************************************)
EXTENDS ShareBytes

Deal(secret, nonce) == [secret |-> secret, nonce |-> nonce]

(* One secret under two nonces, and two that are refused.                  *)
MCDeals == {Deal(<<0, 1, 1>>, 0), Deal(<<0, 1, 1>>, 1), Deal(<<>>, 0), Deal(<<1, 1, 1, 1>>, 1)}

(* One undisturbed sharing is collected past its five shares; two sharings *)
(* or an altered share up to one share more than the threshold.            *)
MCWithin(deals, alterations, collected) ==
  /\ deals + alterations <= 2
  /\ collected <= IF deals + alterations <= 1 THEN 6 ELSE 4

MCCoeffOf(key, k, i) == (3 * k + 2 * i + 5 * key[2] + Len(key[1]) + key[1][1]) % MODULUS_Q

(* A share is relabelled, a byte of its value changes, its value or its    *)
(* path is cut short or extended, or a sibling is exchanged; at one place  *)
(* of each kind in the tree.                                               *)
MCAltered(s) ==
  IF s.index \notin {1, 4, 5} THEN {}
  ELSE {[s EXCEPT !.index = 0], [s EXCEPT !.index = 1 + (@ % 6)],
        [s EXCEPT !.value[1] = 1 - @], [s EXCEPT !.value = Front(@)],
        [s EXCEPT !.value = <<>>], [s EXCEPT !.value = Append(@, 0)],
        [s EXCEPT !.path = Append(@, @[1])],
        [s EXCEPT !.path = Tail(@)], [s EXCEPT !.path[1] = merkle_leaf_hash(s.index, s.value)]}
=============================================================================
