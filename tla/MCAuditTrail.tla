----------------------------- MODULE MCAuditTrail -----------------------------
EXTENDS AuditTrail

MaxLeaves == 9
Leaves(n) == [k \in 1 .. n |-> LeafHash(k)]

\* The batches the runs seal are short, so the tree is checked on its own for
\* every size up to MaxLeaves: the proof made for a position verifies the leaf
\* at that position and no other.
ASSUME MerkleProofsVerify ==
  \A n \in 1 .. MaxLeaves : \A i, j \in 1 .. n :
    VerifyProof(LeafHash(j), MerkleProof(Leaves(n), i), MerkleRoot(Leaves(n)))
      <=> i = j

\* Repeating the last node of an odd layer never gives two batches of different
\* sizes the same root.
ASSUME MerkleRootsDiffer ==
  \A m, n \in 1 .. MaxLeaves :
    MerkleRoot(Leaves(m)) = MerkleRoot(Leaves(n)) <=> m = n
===============================================================================
