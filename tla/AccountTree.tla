---------------------------- MODULE AccountTree ----------------------------
(***************************************************************************)
(* The account tree that MerkleTree.sol stores as one hash, seen as what    *)
(* the hash commits to: the vector of its leaves.  MiMC is taken to be      *)
(* collision free, so two roots are equal exactly when their leaves are,    *)
(* and a Merkle path verifies exactly when the leaf it starts from is the   *)
(* one at the position its helper bits spell.  Module MerkleTree checks     *)
(* this view against the hashes themselves.                                 *)
(***************************************************************************)
EXTENDS Integers, Sequences, FiniteSets

CONSTANTS
    Capacity,   \* number of leaves, 2^levels in MerkleTree.sol
    Keys,       \* EdDSA public keys
    NoKey       \* the key of no account

ASSUME CapacityAssumption == Capacity \in Nat \ {0}
ASSUME KeyAssumption == NoKey \notin Keys

Positions == 0..Capacity - 1

\* struct Account: what hashAccount commits to.
Account == [index : Positions, key : Keys, balance : Nat]

\* The leaf zeros(0): the hash of no account.
ZeroLeaf == [index |-> Capacity, key |-> NoKey, balance |-> 0]

Roots == [Positions -> Account \cup {ZeroLeaf}]

Occupied(root) == {p \in Positions : root[p].key # NoKey}

\* Mutated form of Verify: the helper bits are ignored.
VerifyAnywhere(root, p, leaf) == \E q \in Positions : root[q] = leaf

\* verify: the leaf lies on the path of position p.
Verify(root, p, leaf) == root[p] = leaf

\* computeRootFromPath, once the path of position p has verified.
RootFromPath(root, p, leaf) == [root EXCEPT ![p] = leaf]

\* insert: left siblings come from filledSubtrees, which remember the leaves
\* as they were inserted, and right siblings are zeros.
InsertedRoot(inserted) ==
    [p \in Positions |-> IF p < Len(inserted) THEN inserted[p + 1] ELSE ZeroLeaf]

EmptyRoot == InsertedRoot(<<>>)
============================================================================
