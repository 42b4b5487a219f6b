----------------------------- MODULE Simulator -----------------------------
(***************************************************************************)
(* simulator.go: one client with one Ethereum account walks through every   *)
(* call of a freshly deployed contract, or only makes proofs, and keeps a   *)
(* State of its own beside the contract's tree.  A step is one function of  *)
(* the client, or one turn of its loop.  Files, compiled circuits and the   *)
(* measured costs are left out; values that the client sends along are the  *)
(* amounts that the contract's parameters name.                             *)
(***************************************************************************)
EXTENDS ZKAudit

CONSTANTS
    Modes,          \* OnlyContractCosts, OnlyAggregationProof, OnlySlashingProof
    Runs,           \* proofs that are made in the last two modes
    Honest,         \* the hash 4e20...
    Dissenting,     \* the hash 3e20...
    NewBalance      \* what the replaced account stakes

committeeSize == (NumAccounts - 1) * 2

ASSUME CommitteeAssumption == Capacity = committeeSize /\ NumAccounts > 1
ASSUME SimulationAssumption ==
    /\ Modes \subseteq {"OnlyContractCosts", "OnlyAggregationProof", "OnlySlashingProof"}
    /\ {Honest, Dissenting} \subseteq Hashes /\ Honest # Dissenting
    /\ NewBalance \in Nat

VARIABLES
    mode,
    at,                 \* the next step of the mode's script
    turn,               \* turns its loop has made
    run,                \* proofs made in this mode
    outcome,            \* "running", "done", or "failed" by an error or panic
    privateKeys,        \* seat -> key, drawn at random
    state,              \* the client's own leaves
    aggregatorIndex,
    witness             \* what the next proof is made from

simVars == <<mode, at, turn, run, outcome, privateKeys, state, aggregatorIndex, witness>>
allVars == <<vars, simVars>>

\* What each mode does, in order.
SimulateContracts ==
    <<"RegisterAccounts", "RequestBlockByNumber", "AssignVariables", "Prove", "SubmitBlock",
      "AssignVariablesSlashing", "Prove", "Slash", "ReplaceAccount", "ExitAccounts",
      "WithDrawAccounts">>
SimulateAggregation == <<"AssignVariables", "Prove">>
SimulateSlashing == <<"AssignVariablesSlashing", "Prove">>

Simulate ==
    CASE mode = "OnlyContractCosts" -> SimulateContracts
      [] mode = "OnlyAggregationProof" -> SimulateAggregation
      [] mode = "OnlySlashingProof" -> SimulateSlashing

\* Keys come from a clock: two seats may get the same.
generatePrivateKeys == [Positions -> Keys]

createAccounts(keys) == [p \in Positions |-> [index |-> p, key |-> keys[p], balance |-> 0]]

SimInit ==
    /\ Init
    /\ mode \in Modes
    /\ at = 1 /\ turn = 0 /\ run = 0
    /\ outcome = "running"
    /\ privateKeys \in generatePrivateKeys
    /\ state = createAccounts(privateKeys)
    /\ aggregatorIndex = 0
    /\ witness = <<>>

Doing(step) == outcome = "running" /\ Simulate[at] = step

\* One more turn of a loop over the committee.
Loop ==
    /\ IF turn + 1 < committeeSize THEN turn' = turn + 1 /\ at' = at
                                   ELSE turn' = 0 /\ at' = at + 1
    /\ UNCHANGED <<mode, run, privateKeys, aggregatorIndex, witness>>

Proceed == at' = at + 1 /\ UNCHANGED <<mode, turn, run, outcome, privateKeys>>
----------------------------------------------------------------------------
(* Witnesses.  A claim opens a leaf in the tree as it was when its path was *)
(* read and says what the circuit turns the leaf into.                      *)

\* Mutated form of Claim: the balance is not copied, and State's account,
\* which is credited next, shares it.
ClaimByReference(tree, p, after) == [tree |-> tree, p |-> p, leaf |-> after, after |-> after]

Claim(tree, p, after) == [tree |-> tree, p |-> p, leaf |-> tree[p], after |-> after]

Paid(account, amount) == [account EXCEPT !.balance = @ + amount]

\* The leaves after the account is written back to State.
WriteAccount(tree, account) == [tree EXCEPT ![account.index] = account]

\* The aggregator's balance is not read: it is taken to be zero.
AssignAggregatorConstraints(tree) ==
    LET unpaid == [tree[aggregatorIndex] EXCEPT !.balance = 0]
    IN  [tree |-> tree, p |-> aggregatorIndex, leaf |-> unpaid,
         after |-> Paid(unpaid, AggregatorReward)]

\* The first NumAccounts accounts vote, each credited before the next path.
AssignValidatorConstraints(tree) ==
    LET credited[n \in 0..NumAccounts] ==
            IF n = 0 THEN tree
            ELSE WriteAccount(credited[n - 1], Paid(credited[n - 1][n - 1], ValidatorReward))
    IN  [claims |-> [n \in 1..NumAccounts |->
                        Claim(credited[n - 1], n - 1, Paid(credited[n - 1][n - 1], ValidatorReward))],
         tree |-> credited[NumAccounts]]

AssignVariables ==
    LET paid == Paid(state[aggregatorIndex], AggregatorReward)
        assigned == AssignValidatorConstraints(WriteAccount(state, paid)) IN
    /\ Doing("AssignVariables")
    /\ aggregatorIndex \in DOMAIN privateKeys
    /\ state' = assigned.tree
    /\ votes' = votes \cup {Vote([index |-> p, key |-> privateKeys[p]], 0, Honest)
                            : p \in 0..NumAccounts - 1}
    /\ witness' = [pre |-> state, post |-> assigned.tree,
                   claims |-> <<AssignAggregatorConstraints(state)>> \o assigned.claims]
    /\ Proceed
    /\ UNCHANGED <<root, ledgerVars, seatVars, exitVars, tokenVars, height, aggregatorIndex>>

AssignSlashedValidatorConstraints(tree) == Claim(tree, 0, [tree[0] EXCEPT !.balance = 0])

AssignSlasherConstraints(tree, reward) == Claim(tree, 1, Paid(tree[1], reward))

\* The hash that the slashed seat signed.
SlashedHash == Dissenting

\* Account 1 slashes account 0.
AssignVariablesSlashing ==
    LET slashed == AssignSlashedValidatorConstraints(state)
        emptied == WriteAccount(state, slashed.after)
        slasher == AssignSlasherConstraints(emptied, state[0].balance) IN
    /\ Doing("AssignVariablesSlashing")
    /\ state' = WriteAccount(emptied, slasher.after)
    /\ votes' = votes \cup {Vote([index |-> 0, key |-> privateKeys[0]], 0, SlashedHash)}
    /\ witness' = [pre |-> state, post |-> state', claims |-> <<slashed, slasher>>]
    /\ Proceed
    /\ UNCHANGED <<root, ledgerVars, seatVars, exitVars, tokenVars, height, aggregatorIndex>>

\* The circuit's constraints: every leaf is in the tree its predecessors left.
Satisfied ==
    LET claims == witness.claims
        Opened(n) == claims[n].tree[claims[n].p] = claims[n].leaf
        Left(n) == RootFromPath(claims[n].tree, claims[n].p, claims[n].after) IN
    /\ claims[1].tree = witness.pre
    /\ \A n \in DOMAIN claims : Opened(n)
    /\ \A n \in 1..Len(claims) - 1 : claims[n + 1].tree = Left(n)
    /\ witness.post = Left(Len(claims))
    /\ IF Simulate[at - 1] = "AssignVariables"
       THEN AggregationProof(witness.pre, votes, 0, Honest, aggregatorIndex, aggregatorIndex,
                             [n \in 1..NumAccounts |-> n - 1])
       ELSE SlashingProof(witness.pre, votes, 0, Honest, 0, 1)

\* Mutated form of Made: the run does not count.
MadeAgain == run

\* Runs made with this one.
Made == run + 1

\* Proofs are verified where they are made when the contract is to take them;
\* the other modes start over with new keys and a new State.
Prove ==
    /\ Doing("Prove")
    /\ Satisfied
    /\ IF mode = "OnlyContractCosts"
       THEN Proceed /\ UNCHANGED <<state, votes, witness>>
       ELSE /\ run' = Made
            /\ IF run' < Runs
               THEN /\ at' = 1 /\ outcome' = outcome
                    /\ privateKeys' \in generatePrivateKeys
                    /\ state' = createAccounts(privateKeys')
               ELSE at' = at /\ outcome' = "done" /\ UNCHANGED <<privateKeys, state>>
            /\ votes' = {} /\ witness' = <<>>
            /\ UNCHANGED <<mode, turn>>
    /\ UNCHANGED <<root, ledgerVars, seatVars, exitVars, tokenVars, height, aggregatorIndex>>
----------------------------------------------------------------------------
(* Calls of the contract, all from the admin's account. *)

RegisterAccounts ==
    /\ Doing("RegisterAccounts")
    /\ register(Admin, privateKeys[turn], 0)
    /\ Loop
    /\ UNCHANGED <<outcome, state>>

\* The drawn aggregator is read right after the request.
RequestBlockByNumber ==
    /\ Doing("RequestBlockByNumber")
    /\ \E number \in Numbers : getBlockByNumber(number)
    /\ aggregatorIndex' = requestAggregators'[0]
    /\ Proceed
    /\ UNCHANGED <<state, witness>>

SubmitBlock ==
    /\ Doing("SubmitBlock")
    /\ witness.pre = root
    /\ submitBlock(0, Honest, FALSE)
    /\ root' = witness.post
    /\ Proceed
    /\ UNCHANGED <<state, aggregatorIndex, witness>>

Slash ==
    /\ Doing("Slash")
    /\ witness.pre = root
    /\ slash(0, 0, 1)
    /\ root' = witness.post
    /\ Proceed
    /\ UNCHANGED <<state, aggregatorIndex, witness>>

\* Seat 0 gets a new key, and the State the account that replaced it.
ReplaceAccount ==
    /\ Doing("ReplaceAccount")
    /\ \E key \in Keys :
        /\ replace(Admin, key, NewBalance, state[0], 0)
        /\ state' = WriteAccount(state, [index |-> 0, key |-> key, balance |-> NewBalance])
    /\ Proceed
    /\ UNCHANGED <<aggregatorIndex, witness>>

ExitAccounts ==
    /\ Doing("ExitAccounts")
    /\ Verify(root, turn, state[turn])
    /\ exit(Admin, turn)
    /\ Loop
    /\ UNCHANGED <<outcome, state>>

\* Mutated form of Withdrawn: the State keeps the balance.
WithdrawnKept(account) == account

Withdrawn(account) == [account EXCEPT !.balance = 0]

WithDrawAccounts ==
    /\ Doing("WithDrawAccounts")
    /\ Verify(root, turn, state[turn])
    /\ withdraw(Admin, turn)
    /\ state' = WriteAccount(state, Withdrawn(state[turn]))
    /\ Loop
    /\ outcome' = IF at' > Len(Simulate) THEN "done" ELSE outcome

Go == \/ AssignVariables \/ AssignVariablesSlashing \/ Prove
      \/ RegisterAccounts \/ RequestBlockByNumber \/ SubmitBlock \/ Slash
      \/ ReplaceAccount \/ ExitAccounts \/ WithDrawAccounts

\* Every step calls the chain, reads a file or computes with keys, and every
\* error, like an index out of range, ends the program: a call may fail
\* whatever it would have done, and one that would revert fails when its gas
\* is estimated.
Panic ==
    /\ outcome = "running"
    /\ outcome' = "failed"
    /\ UNCHANGED <<vars, mode, at, turn, run, privateKeys, state, aggregatorIndex, witness>>

SimNext == Go \/ Panic \/ (Mine /\ UNCHANGED simVars)

\* The program runs on by itself.
SimSpec == SimInit /\ [][SimNext]_allVars /\ WF_allVars(Go \/ Panic)
----------------------------------------------------------------------------
(* Properties. *)

\* Whenever the next step reads the contract's tree, the client's copy is
\* that tree: rewards, the slash, the replaced and the withdrawn accounts are
\* written as the contract writes them.
InStep ==
    outcome = "running" /\ Simulate[at] \in {"ReplaceAccount", "ExitAccounts", "WithDrawAccounts"}
        => state = root

\* What the client assigns satisfies the circuit, path after path, and the
\* root it ends with is the one that the relation demands.
Provable ==
    outcome = "running" /\ Simulate[at] = "Prove" =>
        /\ Satisfied
        /\ witness.post =
            IF Simulate[at - 1] = "AssignVariables"
            THEN Rewarded(witness.pre, aggregatorIndex, [n \in 1..NumAccounts |-> n - 1])
            ELSE SlashedRoot(witness.pre, 0, 1)

\* The simulation comes to an end.
SimulationEnds == <>(outcome # "running")
============================================================================
