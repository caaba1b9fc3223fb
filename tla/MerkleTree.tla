------------------------------ MODULE MerkleTree ------------------------------
(***************************************************************************)
(* The Merkle trees of the ingestor and of MerkleProof.sol: keccak256 is a  *)
(* free constructor, so equal hashes mean equal trees.  A pair is sorted    *)
(* before it is hashed (its order is lost) and the odd node of a layer is   *)
(* promoted as it is.                                                       *)
(***************************************************************************)
EXTENDS Integers, Sequences, SequencesExt

HashLeaf(values)  == [leaf |-> values]
HashPair(a, b)    == [pair |-> {a, b}]

\* buildTree: the layers from the leaves to the root, one per entry.
NextLayer(layer) ==
    [i \in 1..((Len(layer) + 1) \div 2) |->
        IF 2 * i <= Len(layer) THEN HashPair(layer[2 * i - 1], layer[2 * i])
                               ELSE layer[2 * i - 1]]

Layers(leaves) ==
    LET layer[d \in 0..Len(leaves)] == IF d = 0 THEN leaves ELSE NextLayer(layer[d - 1])
        height == CHOOSE h \in 0..Len(leaves) :
                     Len(layer[h]) = 1 /\ \A e \in 0..(h - 1) : Len(layer[e]) > 1
    IN  [d \in 1..(height + 1) |-> layer[d - 1]]

Root(leaves) == Last(Layers(leaves))[1]

\* getProof: at each layer below the root the sibling, if there is one.
Sibling(index) == IF index % 2 = 1 THEN index - 1 ELSE index + 1

GetProof(leaves, leafIndex) ==
    LET tree == Layers(leaves)
        index[d \in 1..Len(tree)] == IF d = 1 THEN leafIndex - 1 ELSE index[d - 1] \div 2
        proof[d \in 1..Len(tree)] ==
            IF d = 1 THEN <<>>
            ELSE LET sibling == Sibling(index[d - 1])
                 IN  IF sibling < Len(tree[d - 1])
                     THEN Append(proof[d - 1], tree[d - 1][sibling + 1]) ELSE proof[d - 1]
    IN  proof[Len(tree)]

\* MerkleProof.verify, and verifyProof of merkle.js.
Verify(proof, root, leaf) == FoldLeft(HashPair, leaf, proof) = root
=============================================================================
