------------------------------ MODULE Circuits ------------------------------
(***************************************************************************)
(* The two statements the contract accepts zk-SNARK proofs of, as relations *)
(* between the root before, the public inputs and the root after.  A proof  *)
(* exists exactly when a witness satisfies the relation (Groth16 is taken   *)
(* to be complete and sound).  The witness of a signature is the membership *)
(* of the message in votes, the set of all messages ever signed.            *)
(*                                                                          *)
(* The aggregation circuit credits the aggregator first and then one        *)
(* validator after the other, each against the root its predecessor left.   *)
(* The relation here is its net effect; module AggregationCircuit runs the  *)
(* circuit's loop and shows that it computes this.                          *)
(***************************************************************************)
EXTENDS AccountTree

CONSTANTS
    NumAccounts,        \* votes that one aggregation proof carries
    AggregatorReward,
    ValidatorReward

ASSUME QuorumAssumption == NumAccounts \in Nat \ {0}
ASSUME RewardAssumption == AggregatorReward \in Nat /\ ValidatorReward \in Nat

\* The message a validator signs under its account's key.
Vote(account, request, hash) ==
    [index |-> account.index, key |-> account.key,
     request |-> request, hash |-> hash]

\* The array of validators in the witness, each given by its position.
Validators == [1..NumAccounts -> Positions]

AggregatorShare(a, p) == IF p = a THEN AggregatorReward ELSE 0
ValidatorShare(V, p) ==
    IF \E i \in 1..NumAccounts : V[i] = p THEN ValidatorReward ELSE 0

\* Mutated form of Rewarded: a validator's leaf is opened against the root
\* from before the aggregator was credited.
RewardedStale(root, a, V) ==
    [p \in Positions |-> [root[p] EXCEPT !.balance = @ +
        IF ValidatorShare(V, p) # 0 THEN ValidatorShare(V, p)
                                    ELSE AggregatorShare(a, p)]]

\* The root after the aggregator at a and the validators at V are credited.
Rewarded(root, a, V) ==
    [p \in Positions |-> [root[p] EXCEPT !.balance = @ +
        (AggregatorShare(a, p) + ValidatorShare(V, p))]]

\* Mutated form of Unlike: only neighbours in the array are compared, and
\* the comparison stops one short.
UnlikeIgnored(root, V) == \A i \in 1..NumAccounts - 2 : root[V[i]].index # root[V[i + 1]].index

\* Check for duplicates.
Unlike(root, V) ==
    \A i, j \in 1..NumAccounts : i # j => root[V[i]].index # root[V[j]].index

\* AggregationCircuit.
AggregationProof(root, votes, request, hash, index, a, V) ==
    /\ a \in Occupied(root)
    /\ root[a].index = index
    /\ Unlike(root, V)
    /\ \A i \in 1..NumAccounts : /\ V[i] \in Occupied(root)
                                 /\ Vote(root[V[i]], request, hash) \in votes

\* Mutated form of SlashingProof: the two hashes need not differ.
SlashingProofSame(root, votes, request, stored, accused, slasher) ==
    /\ {accused, slasher} \subseteq Occupied(root)
    /\ \E v \in votes : v = Vote(root[accused], request, v.hash)

\* SlashingCircuit: the accused signed another hash than the stored one.
SlashingProof(root, votes, request, stored, accused, slasher) ==
    /\ {accused, slasher} \subseteq Occupied(root)
    /\ \E v \in votes : /\ v.hash # stored
                        /\ v = Vote(root[accused], request, v.hash)

\* The accused leaf is emptied first, then the slasher's leaf, as that root
\* has it, is credited with what the accused held.
SlashedRoot(root, accused, slasher) ==
    LET emptied == [root EXCEPT ![accused].balance = 0]
    IN  [emptied EXCEPT ![slasher].balance = @ + root[accused].balance]
============================================================================
