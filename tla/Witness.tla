------------------------------ MODULE Witness ------------------------------
(***************************************************************************)
(* What the two circuits share: the root they start from, the signatures a  *)
(* witness can hold, and how far the constraints of Define are laid out.    *)
(***************************************************************************)
EXTENDS Circuits

CONSTANTS
    Balances,   \* balances of the leaves before
    Request     \* public input

ASSUME BalanceAssumption == Balances \subseteq Nat

VARIABLES
    preRoot, votes,     \* state and signatures
    stage               \* constraints laid out so far

Leaves == [index : Positions, key : Keys, balance : Balances] \cup {ZeroLeaf}
Messages(hashes) == [index : Positions, key : Keys, request : {Request}, hash : hashes]

\* The path of position p opens in root: its leaf is hashed from index, key and
\* balance, so that it is no empty leaf.
Opens(root, p) == p \in Occupied(root)
============================================================================
