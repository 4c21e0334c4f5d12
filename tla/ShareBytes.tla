----------------------------- MODULE ShareBytes -----------------------------
(***************************************************************************)
(* The byte form of a list of shares, for callers in other languages       *)
(* (split_key_material_bytes and reconstruct_key_material_bytes in         *)
(* src/src/htss.rs): root, count, width, and for every share its index,    *)
(* its value and its path.  The length of a path is not carried; it        *)
(* follows from the index.                                                 *)
(*                                                                         *)
(* Bytes are cells.  A digest and the width take one cell where the code   *)
(* has 32 and 4 bytes, and lengths add up without a limit, as in 64 bits.  *)
(***************************************************************************)
EXTENDS Htss

Byte(n)   == [byte |-> n]
Digest(h) == [digest |-> h]

(* What a digest's cell is when a byte is read there, and the reverse: no  *)
(* byte or index of a share, and no digest of a tree.                      *)
NoByte == -1
ByteIn(cell)   == IF "byte" \in DOMAIN cell THEN cell.byte ELSE NoByte
DigestIn(cell) == IF "digest" \in DOMAIN cell THEN cell.digest ELSE <<"byte", cell.byte>>

HEADER == 3

Cells(share) ==
  <<Byte(share.index)>> \o [i \in DOMAIN share.value |-> Byte(share.value[i])]
                        \o [i \in DOMAIN share.path |-> Digest(share.path[i])]

encode_shares(root, shares) ==
  <<Digest(root), Byte(Len(shares)), Byte(Len(shares[1].value))>>
    \o FlattenSeq([i \in DOMAIN shares |-> Cells(shares[i])])

split_key_material_bytes(secret, nonce) ==
  LET split == split_key_material(secret, nonce)
  IN  IF IsOk(split) THEN Ok(encode_shares(split.ok.root, split.ok.shares)) ELSE split

Unreadable == [off |-> -1, shares |-> <<>>]

(* One share read at an offset, or nothing: the index must have a path.    *)
ReadShare(bytes, width, st) ==
  IF st = Unreadable \/ st.off >= Len(bytes) THEN Unreadable
  ELSE LET index    == ByteIn(bytes[st.off + 1])
           path_len == merkle_proof_len(index)
           at_path  == st.off + 1 + width
       IN  IF path_len = 0 \/ at_path + path_len > Len(bytes) THEN Unreadable
           ELSE [off    |-> at_path + path_len,
                 shares |-> Append(st.shares,
                   [index |-> index,
                    value |-> [i \in 1 .. width |-> ByteIn(bytes[st.off + 1 + i])],
                    path  |-> [i \in 1 .. path_len |-> DigestIn(bytes[at_path + i])]])]

ReadShares(bytes, width, count) ==
  FoldLeft(LAMBDA st, i : ReadShare(bytes, width, st),
           [off |-> HEADER, shares |-> <<>>], [i \in 1 .. count |-> i])

(* A mutation: what follows the last share is ignored.                     *)
Complete_Trailing(bytes, read) == read # Unreadable

Complete(bytes, read) == read # Unreadable /\ read.off = Len(bytes)

reconstruct_key_material_bytes(bytes) ==
  IF Len(bytes) < HEADER THEN Err("SerializationError")
  ELSE LET count == ByteIn(bytes[2])
           width == ByteIn(bytes[3])
           read  == ReadShares(bytes, width, count)
       IN  IF count = 0 \/ width = 0 \/ ~ Complete(bytes, read) THEN Err("SerializationError")
           ELSE reconstruct_key_material(read.shares, DigestIn(bytes[1]))
-----------------------------------------------------------------------------
(***************************************************************************)
(* Properties.                                                             *)
(***************************************************************************)
(* The shares a reader of the bytes can find again.                        *)
Framable(shares) ==
  /\ shares # <<>> /\ shares[1].value # <<>>
  /\ \A i \in DOMAIN shares :
       /\ Len(shares[i].value) = Len(shares[1].value)
       /\ Len(shares[i].path) = merkle_proof_len(shares[i].index)
       /\ Len(shares[i].path) # 0

(* The bytes of such a list with a cell too few or too many at the end,    *)
(* cut inside the header, or with a count or a width that is off by one.   *)
Disturbed(bytes) ==
  {Front(bytes), Append(bytes, Last(bytes)), SubSeq(bytes, 1, HEADER - 1),
   [bytes EXCEPT ![2].byte = @ + 1], [bytes EXCEPT ![2].byte = @ - 1],
   [bytes EXCEPT ![3].byte = @ + 1], [bytes EXCEPT ![3].byte = @ - 1]}

(* A caller of the byte form learns what a caller of the list form learns, *)
(* from every list that has a byte form; from bytes of any other list, or  *)
(* with the frame disturbed, nobody gets a secret, and what the dealer's   *)
(* own bytes give back is what was split (docs of the two functions).      *)
BlobAgrees ==
  answer # NoAnswer =>
    LET d     == answer.of
        bytes == encode_shares(SplitOf[d].ok.root, tray)
    IN  IF ~ IsOk(SplitOf[d]) THEN split_key_material_bytes(d.secret, d.nonce) = answer.result
        ELSE IF tray = <<>>
        THEN reconstruct_key_material_bytes(split_key_material_bytes(d.secret, d.nonce).ok) = Ok(d.secret)
        ELSE IF Framable(tray)
        THEN /\ reconstruct_key_material_bytes(bytes) = answer.result
             /\ \A b \in Disturbed(bytes) : ~ IsOk(reconstruct_key_material_bytes(b))
        ELSE ~ IsOk(reconstruct_key_material_bytes(bytes))
=============================================================================
