------------------------------ MODULE MerkleTree ------------------------------
(***************************************************************************)
(* The Merkle tree over a batch of audit entries, core/receipts/merkle.py. *)
(*                                                                         *)
(* SHA-256 is taken as collision-free: the hash of a leaf is <<entry>> and *)
(* the hash of an interior node is the pair of its children, so two hashes *)
(* are equal exactly when they were computed from the same input.          *)
(* Hashes have one length, so that joining two of them is pairing, and the *)
(* JSON of an entry is never two hashes joined.                            *)
(***************************************************************************)
EXTENDS Integers, Sequences

LeafHash(entry) == <<entry>>
NodeHash(left, right) == <<left, right>>

\* One round of the while loop: an odd layer repeats its last node, then pairs
\* are hashed together.
Parents(layer) ==
  [i \in 1 .. (Len(layer) + 1) \div 2 |->
     NodeHash(layer[2 * i - 1],
              IF 2 * i <= Len(layer) THEN layer[2 * i] ELSE layer[2 * i - 1])]

\* The layer after k rounds; the loop stops when one node is left.
Layer(hashes, k) ==
  LET after[j \in 0 .. k] ==
        IF j = 0 THEN hashes
        ELSE IF Len(after[j - 1]) <= 1 THEN after[j - 1]
        ELSE Parents(after[j - 1])
  IN  after[k]

Rounds(hashes) ==
  CHOOSE k \in 0 .. Len(hashes) :
    /\ Len(Layer(hashes, k)) <= 1
    /\ \A j \in 0 .. k - 1 : Len(Layer(hashes, j)) > 1

\* merkle_root, for the batches that are sealed: never an empty one.
MerkleRoot(hashes) == Layer(hashes, Len(hashes))[1]

\* The place of leaf index after k rounds: idx //= 2, counted from one here.
Position(index, k) ==
  LET at[j \in 0 .. k] == IF j = 0 THEN index ELSE (at[j - 1] + 1) \div 2
  IN  at[k]

\* merkle_proof: the sibling of the node above leaf index, round by round.  A
\* last node without a partner is its own sibling.
MerkleProof(hashes, index) ==
  [k \in 1 .. Rounds(hashes) |->
     LET layer == Layer(hashes, k - 1)
         at    == Position(index, k - 1)
     IN  IF at % 2 = 0
         THEN [sibling |-> layer[at - 1], position |-> "left"]
         ELSE [sibling |-> IF at < Len(layer) THEN layer[at + 1] ELSE layer[at],
               position |-> "right"]]

\* verify_proof: replay the path from the leaf up.
VerifyProof(leaf, proof, root) ==
  LET up[k \in 0 .. Len(proof)] ==
        IF k = 0 THEN leaf
        ELSE IF proof[k].position = "right"
             THEN NodeHash(up[k - 1], proof[k].sibling)
             ELSE NodeHash(proof[k].sibling, up[k - 1])
  IN  up[Len(proof)] = root
===============================================================================
