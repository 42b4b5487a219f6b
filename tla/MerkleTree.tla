----------------------------- MODULE MerkleTree -----------------------------
(***************************************************************************)
(* MerkleTree.sol on hashes.  A hash is the term of its preimage, so that   *)
(* equal hashes have equal preimages and nothing else is assumed of MiMC.   *)
(* committed is the vector of leaves that module AccountTree takes the root *)
(* to stand for.                                                            *)
(***************************************************************************)
EXTENDS Integers, Sequences

CONSTANTS
    Levels,     \* levels of the tree, 1..10
    Contents    \* account hashes

LevelAssumption == Levels \in 1..10

VARIABLES
    root,
    nextIndex,
    filledSubtrees,
    inserted,   \* the leaves in the order they were inserted
    committed   \* position -> leaf

vars == <<root, nextIndex, filledSubtrees, inserted, committed>>

\* Leaves below a node of height i.
Span[i \in Nat] == IF i = 0 THEN 1 ELSE 2 * Span[i - 1]
LeafCount == Span[Levels]
Positions == 0..LeafCount - 1

\* currentIndex on the way up from position: the nodes that its path passes,
\* numbered from the left at each height.
Above(position) ==
    LET node[i \in Nat] == IF i = 0 THEN position ELSE node[i - 1] \div 2
    IN  node

\* Whether the path of position comes from the right at height i.
FromRight(position, i) == Above(position)[i] % 2 = 1

Zero == <<"zero">>
Leaf(content) == <<"leaf", content>>
Leaves == {Leaf(c) : c \in Contents}
hashLeftRight(left, right) == <<"node", left, right>>

\* zeros(i): the root of an empty subtree of height i.
zeros[i \in 0..Levels] ==
    IF i = 0 THEN Zero ELSE hashLeftRight(zeros[i - 1], zeros[i - 1])

\* The hashes on the way up from leaf to the root.  The mutated form pairs a
\* left child with whatever was stored last at its height.
InsertPathStale(leaf) ==
    LET hash[i \in 0..Levels] ==
            IF i = 0 THEN leaf
            ELSE hashLeftRight(filledSubtrees[i - 1], hash[i - 1])
    IN hash

InsertPath(leaf) ==
    LET hash[i \in 0..Levels] ==
            IF i = 0 THEN leaf
            ELSE IF FromRight(nextIndex, i - 1)
                 THEN hashLeftRight(filledSubtrees[i - 1], hash[i - 1])
                 ELSE hashLeftRight(hash[i - 1], zeros[i - 1])
    IN hash

insert(leaf) ==
    LET path == InsertPath(leaf) IN
    /\ nextIndex # LeafCount
    /\ filledSubtrees' = [i \in 0..Levels - 1 |->
            IF FromRight(nextIndex, i) THEN filledSubtrees[i] ELSE path[i]]
    /\ root' = path[Levels]
    /\ nextIndex' = nextIndex + 1
    /\ inserted' = Append(inserted, leaf)
    /\ committed' = [p \in Positions |->
            IF p < Len(inserted') THEN inserted'[p + 1] ELSE Zero]

\* Mutated form of OnLeft: the helper bits are read in the other sense at
\* the lowest height.
OnLeftSwapped(helper, i) == IF i = 1 THEN helper[i] # 1 ELSE helper[i] = 1

\* A path is a leaf and its siblings from the bottom up; helper 1 says that
\* the path comes from the left.
OnLeft(helper, i) == helper[i] = 1

\* computeRootFromPath; verify compares its result with the root.
computeRootFromPath(leaf, siblings, helper) ==
    LET hash[i \in 0..Len(siblings)] ==
            IF i = 0 THEN leaf
            ELSE IF OnLeft(helper, i)
                 THEN hashLeftRight(hash[i - 1], siblings[i])
                 ELSE hashLeftRight(siblings[i], hash[i - 1])
    IN hash[Len(siblings)]

verify(leaf, siblings, helper) == computeRootFromPath(leaf, siblings, helper) = root

\* Reference: the hash of the node b at height i over the given leaves.
Subtree(leaves) ==
    LET hash[i \in 0..Levels] ==
            [b \in Nat |-> IF i = 0 THEN leaves[b]
                           ELSE hashLeftRight(hash[i - 1][2 * b], hash[i - 1][2 * b + 1])]
    IN  hash

TreeRoot(leaves) == Subtree(leaves)[Levels][0]

\* The other child of a node's parent.
Sibling(b) == IF b % 2 = 1 THEN b - 1 ELSE b + 1

\* MerkleProof of state.go, over the leaves that leaves holds.
HelperOf(position) == [i \in 1..Levels |-> IF FromRight(position, i - 1) THEN 0 ELSE 1]
SiblingsOf(leaves, position) ==
    [i \in 1..Levels |-> Subtree(leaves)[i - 1][Sibling(Above(position)[i - 1])]]

\* update, with a path that the caller took from the current tree.
update(position, leaf) ==
    LET siblings == SiblingsOf(committed, position)
        helper == HelperOf(position) IN
    /\ nextIndex = LeafCount
    /\ verify(committed[position], siblings, helper)
    /\ root' = computeRootFromPath(leaf, siblings, helper)
    /\ committed' = [committed EXCEPT ![position] = leaf]
    /\ UNCHANGED <<nextIndex, filledSubtrees, inserted>>

\* setRoot, with a root that a proof computed from the current one: here
\* the tree with another leaf at a registered position.
setRoot(position, leaf) ==
    /\ position < nextIndex
    /\ root' = TreeRoot([committed EXCEPT ![position] = leaf])
    /\ committed' = [committed EXCEPT ![position] = leaf]
    /\ UNCHANGED <<nextIndex, filledSubtrees, inserted>>

Init ==
    /\ root = zeros[Levels - 1]
    /\ nextIndex = 0
    /\ filledSubtrees = [i \in 0..Levels - 1 |-> zeros[i]]
    /\ inserted = <<>>
    /\ committed = [p \in Positions |-> Zero]

Next ==
    \/ \E leaf \in Leaves : insert(leaf)
    \/ \E position \in Positions, leaf \in Leaves : update(position, leaf)
    \/ \E position \in Positions, leaf \in Leaves : setRoot(position, leaf)

Spec == Init /\ [][Next]_vars
----------------------------------------------------------------------------
\* The root is the hash of the vector of leaves that the contract's model
\* takes it to stand for: an insert rebuilds it from the leaves as they were
\* inserted, update and setRoot change one leaf.  It holds from the first
\* insertion on; the constructor stores a root of a smaller tree.
RootCommits == nextIndex > 0 => root = TreeRoot(committed)

\* The position that helper bits spell.
PositionOf(helper) ==
    CHOOSE p \in Positions : \A i \in 1..Levels : helper[i] = HelperOf(p)[i]

\* Hashes a caller can know at height i of some tree.
Known(i) == {Subtree(committed)[i][b] : b \in 0..Span[Levels - i] - 1} \cup {zeros[i]}

\* A path built from any hashes of the tree verifies only for the leaf at the
\* position its helper bits spell, and the honest path does.
VerifyExact ==
    nextIndex > 0 =>
        \A helper \in [1..Levels -> {0, 1}], leaf \in Leaves :
            LET p == PositionOf(helper) IN
            /\ committed[p] = leaf => verify(leaf, SiblingsOf(committed, p), helper)
            /\ \A siblings \in [1..Levels -> UNION {Known(i) : i \in 0..Levels - 1}] :
                verify(leaf, siblings, helper) => committed[p] = leaf
============================================================================
