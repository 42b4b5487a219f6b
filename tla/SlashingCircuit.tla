-------------------------- MODULE SlashingCircuit --------------------------
(***************************************************************************)
(* The constraints of slashingCircuit.go in the order in which Define lays  *)
(* them out: the accused leaf is opened in the public root, its signature   *)
(* checked and the leaf emptied, the slasher's leaf is opened in the root   *)
(* that this leaves and credited, and only then the two hashes are          *)
(* compared.  A step is enabled when its constraints are satisfiable; the   *)
(* witness is accepted when the last step is taken.  Public inputs and      *)
(* witness are chosen in SlashingInit.                                              *)
(***************************************************************************)
EXTENDS Witness

CONSTANT Hashes

VARIABLES
    blockHash,                      \* public input: the stored answer
    accused, slasher, signedHash,   \* the witness: two positions, the hash signed
    leaf,                           \* the accused leaf as it was opened
    root                            \* the root computed so far

slashing == <<preRoot, votes, blockHash, accused, slasher, signedHash>>
slashingVars == <<slashing, stage, leaf, root>>

SlashingInit ==
    /\ preRoot \in [Positions -> Leaves]
    /\ votes \in SUBSET Messages(Hashes)
    /\ accused \in Positions /\ slasher \in Positions
    /\ blockHash \in Hashes /\ signedHash \in Hashes
    /\ stage = "accused" /\ leaf = ZeroLeaf /\ root = preRoot

\* The accused leaf is in the public root.
CheckIncluded ==
    /\ stage = "accused"
    /\ Opens(preRoot, accused)
    /\ leaf' = preRoot[accused]
    /\ stage' = "signature"
    /\ UNCHANGED <<slashing, root>>

\* eddsa.Verify of the message under the key of the accused leaf.
AccusedSigned == Vote(leaf, Request, signedHash) \in votes

VerifySignature ==
    /\ stage = "signature"
    /\ AccusedSigned
    /\ stage' = "slash"
    /\ UNCHANGED <<slashing, leaf, root>>

\* ComputeRootFromPath along the path of the accused leaf.
SlashValidator ==
    /\ stage = "slash"
    /\ root' = RootFromPath(preRoot, accused, [leaf EXCEPT !.balance = @ - @])
    /\ stage' = "slasher"
    /\ UNCHANGED <<slashing, leaf>>

\* Mutated form of SlasherBase: the slasher's leaf is opened in the public root.
SlasherBasePublic == preRoot

\* The root the slasher's leaf is opened in.
SlasherBase == root

RewardSlasher ==
    /\ stage = "slasher"
    /\ Opens(SlasherBase, slasher)
    /\ root' = RootFromPath(SlasherBase, slasher, [SlasherBase[slasher] EXCEPT !.balance = @ + leaf.balance])
    /\ stage' = "hashes"
    /\ UNCHANGED <<slashing, leaf>>

\* Mutated form of Differs: the two leaves must differ instead.
DiffersLeaves == accused # slasher /\ blockHash # signedHash

\* AssertIsDifferent(BlockHash, Validator.BlockHash).
Differs == blockHash # signedHash

\* PostStateRoot is what was computed.
AcceptSlashing ==
    /\ stage = "hashes"
    /\ Differs
    /\ stage' = "slashed"
    /\ UNCHANGED <<slashing, leaf, root>>

SlashingNext == CheckIncluded \/ VerifySignature \/ SlashValidator \/ RewardSlasher \/ AcceptSlashing

\* A satisfiable constraint is solved: the prover stops only at a failure.
SlashingSpec == SlashingInit /\ [][SlashingNext]_slashingVars /\ WF_slashingVars(SlashingNext)
----------------------------------------------------------------------------
\* The relation, for the hash that the witness carries.
SlashingStatement ==
    SlashingProof(preRoot, {v \in votes : v.hash = signedHash},
                  Request, blockHash, accused, slasher)

\* An accepted witness satisfies the relation of module Circuits, and the post
\* root is its net effect: the accused leaf is empty and its stake is with the
\* slasher, also when these are one leaf, which then keeps what it had.
SlashingSound ==
    stage = "slashed" => SlashingStatement /\ root = SlashedRoot(preRoot, accused, slasher)

\* A witness that satisfies the relation is accepted, a seat that slashes
\* itself included.
SlashingComplete == SlashingStatement ~> stage = "slashed"
============================================================================
