------------------------------- MODULE Merkle -------------------------------
(***************************************************************************)
(* The Merkle tree: the root over the hashes of a node's parents goes into *)
(* the hash of the node, the root over all transactions is what the Merkle *)
(* endpoint answers.                                                       *)
(*                                                                         *)
(* A hash is what is hashed, with the height of its tree: <<0, n>> is the  *)
(* hash of transaction n, whose number stands for the place of the hash in *)
(* the order of the strings, <<0, 0>> is the root of no leaves, and        *)
(* <<h, {a, b}>> is the hash of the pair of a and b in either order.       *)
(***************************************************************************)
EXTENDS Integers, Sequences, FiniteSets

CONSTANT
  LeafId       \* the transactions there can be

ASSUME MerkleAssumption == LeafId \subseteq Nat \ {0} /\ IsFiniteSet(LeafId)

VARIABLE
  leafIds      \* the transactions in the journal

-----------------------------------------------------------------------------

LeafHash(n) == <<0, n>>

SHA256Pair(a, b) == <<a[1] + 1, {a, b}>>

\* Mutant of NextLayer: a last hash without a neighbour is dropped.
NextLayerDropsLast(layer) ==
  [i \in 1 .. Len(layer) \div 2 |-> SHA256Pair(layer[2 * i - 1], layer[2 * i])]

NextLayer(layer) ==
  [i \in 1 .. (Len(layer) + 1) \div 2 |->
     SHA256Pair(layer[2 * i - 1],
                layer[IF 2 * i <= Len(layer) THEN 2 * i ELSE 2 * i - 1])]

\* sort.Strings: so many leaves as are up to it, is the place of a leaf.
SortedLeaves(ids) ==
  [i \in 1 .. Cardinality(ids) |->
     LeafHash(CHOOSE n \in ids : Cardinality({m \in ids : m <= n}) = i)]

\* The leaves are sorted, the layers above are left in their order.
MerkleRoot(ids) ==
  LET leaves == SortedLeaves(ids)
      layer[k \in 0 .. Len(leaves)] ==
        IF k = 0 THEN leaves
        ELSE IF Len(layer[k - 1]) = 1 THEN layer[k - 1]
        ELSE NextLayer(layer[k - 1])
  IN  IF leaves = <<>> THEN LeafHash(0) ELSE layer[Len(leaves)][1]

-----------------------------------------------------------------------------

MerkleInit == leafIds = {}

AddLeaf ==
  \E n \in LeafId \ leafIds : leafIds' = leafIds \cup {n}

ClearLeaves == leafIds' = {}

MerkleNext == AddLeaf \/ ClearLeaves

MerkleSpec == MerkleInit /\ [][MerkleNext]_leafIds

-----------------------------------------------------------------------------

\* No other set of transactions has the root of the journal, however many leaves
\* there are, and none of parents that of a node: the root can stand for the set
\* (hash.go 23-41, node.go 28-43, server.go 470-516).
RootNamesSet ==
  leafIds # {} =>
    \A ids \in SUBSET LeafId :
      MerkleRoot(ids) = MerkleRoot(leafIds) => ids = leafIds

=============================================================================
