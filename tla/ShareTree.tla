----------------------------- MODULE ShareTree -----------------------------
(***************************************************************************)
(* The fixed five-leaf Merkle tree that binds the shares of one sharing    *)
(* (src/src/htss.rs).  A digest is the term it is the hash of: SHA3-256 is *)
(* taken to be free of collisions, and the domain separators keep a leaf   *)
(* and a node apart.                                                       *)
(*                                                                         *)
(*                root = ((l1 l2) (l3 l4)) l5                              *)
(***************************************************************************)
EXTENDS Integers, Sequences

merkle_leaf_hash(index, value) == <<"leaf", index, value>>
merkle_node_hash(left, right)  == <<"node", left, right>>

(* Siblings on the way from a leaf to the root; no index has 0 of them.    *)
merkle_proof_len(index) ==
  CASE index \in 1 .. 4 -> 3
    [] index = 5        -> 1
    [] OTHER            -> 0

Root(leaves) ==
  LET n01 == merkle_node_hash(leaves[1], leaves[2])
      n23 == merkle_node_hash(leaves[3], leaves[4])
  IN  merkle_node_hash(merkle_node_hash(n01, n23), leaves[5])

InclusionPath(leaves, index) ==
  LET n01 == merkle_node_hash(leaves[1], leaves[2])
      n23 == merkle_node_hash(leaves[3], leaves[4])
  IN  CASE index = 1 -> <<leaves[2], n23, leaves[5]>>
        [] index = 2 -> <<leaves[1], n23, leaves[5]>>
        [] index = 3 -> <<leaves[4], n01, leaves[5]>>
        [] index = 4 -> <<leaves[3], n01, leaves[5]>>
        [] index = 5 -> <<merkle_node_hash(n01, n23)>>

(* Odd leaves are left children of their pair, pairs 1-2 of their quad.    *)
FoldPath(index, leaf, path) ==
  IF index = 5 THEN merkle_node_hash(path[1], leaf)
  ELSE LET pair == IF index \in {1, 3} THEN merkle_node_hash(leaf, path[1])
                                       ELSE merkle_node_hash(path[1], leaf)
           quad == IF index \in {1, 2} THEN merkle_node_hash(pair, path[2])
                                       ELSE merkle_node_hash(path[2], pair)
       IN  merkle_node_hash(quad, path[3])

verify_share_in_tree(index, value, path, root) ==
  /\ merkle_proof_len(index) # 0
  /\ Len(path) = merkle_proof_len(index)
  /\ FoldPath(index, merkle_leaf_hash(index, value), path) = root
=============================================================================
