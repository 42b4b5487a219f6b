--------------------------- MODULE OracleNetwork ---------------------------
(***************************************************************************)
(* ZKAudit with the time that passes between computing a proof and the      *)
(* transaction that carries it.  In module ZKAudit a proof is found and     *)
(* submitted in one step; here it is computed against the root and the seed *)
(* of that moment, is kept, and may be submitted at any later time, twice,  *)
(* or never (its node crashed).  Everything else is as in module ZKAudit.   *)
(***************************************************************************)
EXTENDS ZKAudit

CONSTANTS
    MaxProofs,      \* bound: aggregation proofs that are computed
    MaxAccusations  \* bound: slashing proofs that are computed

VARIABLES
    proofs,         \* aggregation proofs, with the public inputs they fix
    accusations     \* slashing proofs, with the public inputs they fix

netVars == <<vars, proofs, accusations>>

NetInit == Init /\ proofs = {} /\ accusations = {}
----------------------------------------------------------------------------
\* The root is that of State, the seed is read from the contract, and the
\* proof takes its time from there.  The node proves under its own index,
\* whether or not its seat is the one that was drawn.
ProcessVotes(r, hash, a, V) ==
    /\ Cardinality(proofs) < MaxProofs
    /\ AggregationProof(root, votes, r, hash, root[a].index, a, V)
    /\ proofs' = proofs \cup {[root |-> root, seed |-> seed, request |-> r,
                               hash |-> hash, a |-> a, V |-> V]}
    /\ UNCHANGED <<vars, accusations>>

\* Mutated form of Verifies: the contract's root is no public input of the
\* proof.
VerifiesAnyRoot(f) == f.seed = seed

\* verifyProof gets the contract's root and seed as public inputs.
Verifies(f) == f.root = root /\ f.seed = seed

submitProof(f, illegal) ==
    /\ getAggregator(f.request) = f.root[f.a].index
    /\ FromAggregator(f.request)
    /\ Pending(f.request)
    /\ Verifies(f)
    /\ blocks' = [blocks EXCEPT ![f.request] = f.hash]
    /\ seed' = NextSeed(f.seed, f.root[f.a].key)
    /\ root' = Rewarded(f.root, f.a, f.V)
    /\ illegalBlocks' = IF illegal THEN Append(illegalBlocks, f.hash) ELSE illegalBlocks
    /\ UNCHANGED <<nextRequest, requests, requestAggregators, illegalAggregators,
                   seatVars, exitVars, tokenVars, height, votes, proofs, accusations>>

\* A slasher proves against the answer he reads from the contract.
ProveSlashing(r, accused, slasher) ==
    /\ Cardinality(accusations) < MaxAccusations
    /\ ~Pending(r)
    /\ SlashingProof(root, votes, r, blocks[r], accused, slasher)
    /\ accusations' = accusations \cup {[root |-> root, request |-> r, stored |-> blocks[r],
                                         accused |-> accused, slasher |-> slasher]}
    /\ UNCHANGED <<vars, proofs>>

\* verifyProof gets the contract's root and stored answer as public inputs.
Convicts(f) == f.root = root /\ f.stored = blocks[f.request]

slashProof(f) ==
    /\ ~Pending(f.request)
    /\ Convicts(f)
    /\ root' = SlashedRoot(f.root, f.accused, f.slasher)
    /\ UNCHANGED <<ledgerVars, seatVars, exitVars, tokenVars, height, votes,
                   proofs, accusations>>

\* What needs no proof that takes time.
Unproved ==
    \/ \E number \in Numbers : getBlockByNumber(number)
    \/ \E p \in Positions, r \in Requests, hash \in Hashes : Sign(p, r, hash)
    \/ \E r \in Requests : submitInvalidProof(r)
    \/ Seating
    \/ Supplying
    \/ Mine

NetNext ==
    \/ \E r \in Requests, hash \in Hashes, a \in Positions, V \in Validators :
        ProcessVotes(r, hash, a, V)
    \/ \E f \in proofs, illegal \in BOOLEAN : submitProof(f, illegal)
    \/ \E r \in Requests, accused, slasher \in Positions :
        ProveSlashing(r, accused, slasher)
    \/ \E f \in accusations : slashProof(f)
    \/ Unproved /\ UNCHANGED <<proofs, accusations>>

NetSpec == NetInit /\ [][NetNext]_netVars
----------------------------------------------------------------------------
(* Properties. *)

\* The contract with proofs that arrive late, twice or never does what the
\* contract does when proof and transaction are one step: whatever was
\* answered, slashed, registered or replaced in between, no answer is stored
\* and no reward or penalty is paid that could not be proved at that moment,
\* also when seed and root have returned to what a proof was made for.
LateProofsHarmless == Spec
============================================================================
