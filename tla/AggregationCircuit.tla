------------------------- MODULE AggregationCircuit -------------------------
(***************************************************************************)
(* The constraints of aggregationCircuit.go in the order in which Define    *)
(* lays them out: the validators' indices differ, the aggregator is         *)
(* credited, then one validator after the other is credited against the     *)
(* root that the previous one left.  A step is enabled when its constraints *)
(* are satisfiable; the witness is accepted when the last step is taken.    *)
(* Public inputs and witness are chosen in Init.                            *)
(***************************************************************************)
EXTENDS Witness

CONSTANTS
    Hash,                   \* public input
    SNARK_SCALAR_FIELD,     \* modulus of the field the circuit computes in
    NbDigits                \* binary digits an exponent is decomposed into

VARIABLES
    index,                  \* public aggregator index
    a, V,                   \* positions the Merkle paths lead to
    n,                      \* validators credited so far
    intermediateRoot, validatorBits,
    digits                  \* the exponents that the prover's digits spell

given == <<preRoot, votes, index, a, V>>
vars == <<given, stage, n, intermediateRoot, validatorBits, digits>>

Init ==
    /\ preRoot \in [Positions -> Leaves]
    /\ votes \in SUBSET Messages({Hash})
    /\ index \in Positions /\ a \in Positions /\ V \in Validators
    /\ stage = "indices" /\ n = 0
    /\ intermediateRoot = preRoot
    /\ validatorBits = 0 /\ digits = <<>>

CheckDuplicates ==
    /\ stage = "indices"
    /\ Unlike(preRoot, V)
    /\ stage' = "aggregator"
    /\ UNCHANGED <<given, n, intermediateRoot, validatorBits, digits>>

\* The leaf at position p is written back credited.
Credited(root, p, reward) ==
    RootFromPath(root, p, [root[p] EXCEPT !.balance = @ + reward])

RewardAggregator ==
    /\ stage = "aggregator"
    /\ Opens(preRoot, a) /\ preRoot[a].index = index
    /\ intermediateRoot' = Credited(preRoot, a, AggregatorReward)
    /\ stage' = "validators"
    /\ UNCHANGED <<given, n, validatorBits, digits>>

\* Mutated form of Base: the root the validators' paths are opened in is the
\* public one throughout.
StaleBase == preRoot

\* The root the next validator's path is opened in.
Base == intermediateRoot

\* Mutated form of Pow: the output is not squared between two digits.
PowUnsquared(base, exponent) ==
    LET output[y \in 0..exponent] ==
            IF y = 0 THEN 1 ELSE output[y \div 2] * (IF y % 2 = 1 THEN base ELSE 1)
    IN  output[exponent]

\* pow.go, which takes the digits of the exponent from the highest: the digits
\* taken so far spell y, and a one multiplies.
Pow(base, exponent) ==
    LET output[y \in 0..exponent] ==
            IF y = 0 THEN 1
            ELSE output[y \div 2] * output[y \div 2] * (IF y % 2 = 1 THEN base ELSE 1)
    IN  output[exponent]

\* The account indices fit into a field element, one bit for each.
ASSUME FieldAssumption ==
    /\ SNARK_SCALAR_FIELD \in Nat \ {0} /\ NbDigits \in Nat
    /\ Pow(2, Capacity) <= SNARK_SCALAR_FIELD

\* What digits that a prover may supply for y can spell: the decomposition
\* holds them to be bits and their weighted sum to be y in the field, and there
\* are more of them than y needs.
Digits(y) == {e \in 0..2^NbDigits - 1 : e % SNARK_SCALAR_FIELD = y}

\* Mutated form of Signed: the signature is checked over the aggregator's
\* index instead of the validator's.
SignedByAggregator(leaf) == Vote([leaf EXCEPT !.index = index], Request, Hash) \in votes

\* eddsa.Verify of the message under the key in the validator's leaf.
Signed(leaf) == Vote(leaf, Request, Hash) \in votes

RewardValidator ==
    LET p == V[n + 1]
        leaf == Base[p] IN
    /\ stage = "validators" /\ n < NumAccounts
    /\ Opens(Base, p)
    /\ Signed(leaf)
    /\ intermediateRoot' = Credited(Base, p, ValidatorReward)
    /\ \E e \in Digits(leaf.index) :
        /\ digits' = Append(digits, e)
        /\ validatorBits' = (validatorBits + Pow(2, e)) % SNARK_SCALAR_FIELD
    /\ n' = n + 1
    /\ UNCHANGED <<given, stage>>

\* ValidatorBits and PostStateRoot are what the loop computed.
Accept ==
    /\ stage = "validators" /\ n = NumAccounts
    /\ stage' = "accepted"
    /\ UNCHANGED <<given, n, intermediateRoot, validatorBits, digits>>

Next == CheckDuplicates \/ RewardAggregator \/ RewardValidator \/ Accept

\* A satisfiable constraint is solved: the prover stops only at a failure.
Spec == Init /\ [][Next]_vars /\ WF_vars(Next)
----------------------------------------------------------------------------
Statement == AggregationProof(preRoot, votes, Request, Hash, index, a, V)

\* An accepted witness satisfies the relation of module Circuits, and the
\* post root is its net effect: each seat is credited once, in any order,
\* and the aggregator's reward survives when it is a validator, too.
Sound ==
    stage = "accepted" => Statement /\ intermediateRoot = Rewarded(preRoot, a, V)

\* A word without its s lowest bits.
Shifted(word, s) ==
    LET rest[k \in 0..s] == IF k = 0 THEN word ELSE rest[k - 1] \div 2
    IN  rest[s]

\* The digits that the solver itself computes are those of the index.
CanonicalDigits == \A i \in 1..NumAccounts : digits[i] = preRoot[V[i]].index

\* The bits that the event BlockSubmitted carries name the credited seats, one
\* bit for each and no carry, when the prover took the digits of the indices
\* themselves.  With other digits of the same field element they may not.
BitsNameValidators ==
    stage = "accepted" /\ CanonicalDigits =>
        \A s \in Positions : Shifted(validatorBits, s) % 2 = 1
                             <=> \E i \in 1..NumAccounts : preRoot[V[i]].index = s

\* A witness that satisfies the relation is accepted.
Complete == Statement ~> stage = "accepted"
============================================================================
