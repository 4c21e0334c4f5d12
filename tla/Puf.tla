-------------------------------- MODULE Puf --------------------------------
(***************************************************************************)
(* The fuzzy extractor of src/src/puf.rs: a key and its helper data from a *)
(* reading of the device, the key again from a later reading, and a secret *)
(* vector from the key.                                                    *)
(*                                                                         *)
(* Outputs of SHAKE-256 stand for what is absorbed.  64 bytes that are an  *)
(* exclusive or of such outputs are the set of them: equal terms cancel.   *)
(***************************************************************************)
EXTENDS Centered

CONSTANT KeyStream(_)   \* the bytes SHAKE-256 expands a key to, per vector cell

xor(a, b) == (a \cup b) \ (a \cap b)

seed_of(sram_response)     == {<<"AETHEL_PUF_SEED_V1", sram_response>>}
helper_mask(sram_response) == {<<"AETHEL_PUF_HELPER_V1", sram_response>>}

enroll(sram_response) ==
  LET key == seed_of(sram_response)
  IN  [key |-> key, helper_data |-> xor(key, helper_mask(sram_response))]

NoKey == {}

(* A mutation: the candidate is not compared with the reading's own key.   *)
reconstruct_Unchecked(sram_response, helper_data) == xor(helper_data, helper_mask(sram_response))

(* The word is not corrected: the candidate must be the key of the reading *)
(* as it is.                                                               *)
reconstruct(sram_response, helper_data) ==
  LET candidate_key == xor(helper_data, helper_mask(sram_response))
  IN  IF candidate_key = seed_of(sram_response) THEN candidate_key ELSE NoKey

(* Decoding is reconstructing with 64 zero bytes as helper data.           *)
bch_decode_rust(received) == reconstruct(received, {})

Bit(byte, i) == (byte \div 2 ^ i) % 2

(* One coefficient of the centred binomial distribution, from four bits.   *)
Cbd(byte) == (Bit(byte, 0) + Bit(byte, 1)) - (Bit(byte, 2) + Bit(byte, 3))

puf_seed_to_vector_k(key) ==
  [k \in Rows |-> [i \in Degrees |-> Cbd(KeyStream(key)[k][i])]]
=============================================================================
