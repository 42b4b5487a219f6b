--------------------------- MODULE MCFoundations ---------------------------
(***************************************************************************)
(* What module ZKAudit takes for granted, for TLC: that the two circuits    *)
(* accept the relations of Circuits, that the verifier accepts the proofs   *)
(* of exactly these, that the contract hashes as the node does, and that    *)
(* the stored root stands for the leaves.  A behaviour runs one of these    *)
(* parts, while the variables of the others idle.                           *)
(***************************************************************************)
EXTENDS AggregationCircuit, SlashingCircuit, TLC

CONSTANTS
    PRIME_Q, Scalars, Inputs, Lifts,
    localQ, Width, round_count, Blocks, Words,
    Contents,
    MaxChanges  \* bound: leaves of the larger tree that differ from what was inserted

VARIABLES
    part,
    proof, input, lift, args, phase, added, vk_x,
    seeds, in_msgs, chained, r, rounds, in_x, reverted,
    treeRoot, nextIndex, filledSubtrees, inserted, committed

aggregationVars == <<index, a, V, n, intermediateRoot, validatorBits, digits>>
accusationVars == <<blockHash, accused, slasher, signedHash, leaf, root>>
circuitVars == <<preRoot, votes, stage, aggregationVars, accusationVars>>
verifierVars == <<proof, input, lift, args, phase, added, vk_x>>
hashVars == <<seeds, in_msgs, chained, r, rounds, in_x, reverted>>
treeVars == <<treeRoot, nextIndex, filledSubtrees, inserted, committed>>
allVars == <<part, circuitVars, verifierVars, hashVars, treeVars>>

MCKey == [alfa1 |-> 2, beta2 |-> 3, gamma2 |-> 5, delta2 |-> 7, IC |-> <<4, 1, 9>>]

Groth16 == INSTANCE Verifier WITH Key <- MCKey, stage <- phase, i <- added
Mimc == INSTANCE MiMC WITH i <- chained
Four == INSTANCE MerkleTree WITH Levels <- 2, root <- treeRoot
Eight == INSTANCE MerkleTree WITH Levels <- 3, root <- treeRoot

ASSUME VerifierAssumption ==
    /\ Groth16!OrderAssumption /\ Groth16!KeyAssumption /\ Groth16!ScalarAssumption
    /\ Groth16!LiftAssumption /\ Groth16!GroupAssumption
ASSUME HashAssumption ==
    Mimc!FieldAssumption /\ Mimc!RoundAssumption /\ Mimc!WordAssumption /\ Mimc!PowerAssumption
ASSUME TreeAssumption == Four!LevelAssumption /\ Eight!LevelAssumption

AggregationIdle ==
    /\ index = 0 /\ a = 0 /\ V = [v \in 1..NumAccounts |-> 0]
    /\ n = 0 /\ intermediateRoot = EmptyRoot /\ validatorBits = 0 /\ digits = <<>>
SlashingIdle ==
    /\ blockHash = Hash /\ signedHash = Hash /\ accused = 0 /\ slasher = 0
    /\ leaf = ZeroLeaf /\ root = EmptyRoot
CircuitsIdle ==
    /\ preRoot = EmptyRoot /\ votes = {} /\ stage = "idle"
    /\ AggregationIdle /\ SlashingIdle
VerifierIdle ==
    /\ proof = <<>> /\ input = <<>> /\ lift = 0 /\ args = <<>>
    /\ phase = "idle" /\ added = 0 /\ vk_x = <<>>
HashIdle ==
    /\ seeds = <<>> /\ in_msgs = <<>> /\ chained = 0 /\ r = <<>>
    /\ rounds = 0 /\ in_x = <<>> /\ reverted = FALSE
TreeIdle ==
    /\ treeRoot = <<>> /\ nextIndex = 0 /\ filledSubtrees = <<>>
    /\ inserted = <<>> /\ committed = <<>>

FoundationsInit ==
    \/ /\ part = "aggregation" /\ Init
       /\ SlashingIdle /\ VerifierIdle /\ HashIdle /\ TreeIdle
    \/ /\ part = "slashing" /\ SlashingInit
       /\ AggregationIdle /\ VerifierIdle /\ HashIdle /\ TreeIdle
    \/ /\ part = "verifier" /\ Groth16!Init
       /\ CircuitsIdle /\ HashIdle /\ TreeIdle
    \/ /\ part = "hash" /\ Mimc!Init
       /\ CircuitsIdle /\ VerifierIdle /\ TreeIdle
    \/ /\ part = "four" /\ Four!Init
       /\ CircuitsIdle /\ VerifierIdle /\ HashIdle
    \/ /\ part = "eight" /\ Eight!Init
       /\ CircuitsIdle /\ VerifierIdle /\ HashIdle

Aggregate == part = "aggregation" /\ Next /\ UNCHANGED <<accusationVars, verifierVars, hashVars, treeVars>>
Slash == part = "slashing" /\ SlashingNext /\ UNCHANGED <<aggregationVars, verifierVars, hashVars, treeVars>>
VerifyProof == part = "verifier" /\ Groth16!Next /\ UNCHANGED <<circuitVars, hashVars, treeVars>>
HashWords == part = "hash" /\ Mimc!Next /\ UNCHANGED <<circuitVars, verifierVars, treeVars>>
GrowFour == part = "four" /\ Four!Next /\ UNCHANGED <<circuitVars, verifierVars, hashVars>>
Changed == {p \in DOMAIN committed : p < nextIndex /\ committed[p] # inserted[p + 1]}
GrowEight ==
    /\ part = "eight" /\ Eight!Next /\ UNCHANGED <<circuitVars, verifierVars, hashVars>>
    /\ Cardinality(Changed') <= MaxChanges

FoundationsNext ==
    /\ UNCHANGED part
    /\ Aggregate \/ Slash \/ VerifyProof \/ HashWords \/ GrowFour \/ GrowEight

\* A satisfiable constraint is solved: the prover stops only at a failure.
FoundationsSpec ==
    /\ FoundationsInit
    /\ [][FoundationsNext]_allVars
    /\ WF_allVars(Aggregate /\ UNCHANGED part)
    /\ WF_allVars(Slash /\ UNCHANGED part)
----------------------------------------------------------------------------
\* What the verifier contract accepts satisfies the Groth16 equation for exactly
\* the inputs given, each a canonical word.
ProofSound == part = "verifier" => Groth16!Sound

\* What satisfies the equation, as the node encodes it, is accepted.
ProofComplete == part = "verifier" => Groth16!Complete

\* The rounds of MiMC lose nothing.
RoundsPermute == part = "hash" => Mimc!Permutes

\* The contract's hash is the node's, for words of any size.
HashAgrees == part = "hash" => Mimc!AgreesWithDigest

\* A path of a tree of four leaves verifies only for the leaf its bits lead to.
PathExact == part = "four" => Four!VerifyExact

\* The stored root is the hash of the vector of leaves, in either tree.
RootExact ==
    /\ part = "four" => Four!RootCommits
    /\ part = "eight" => Eight!RootCommits
============================================================================
