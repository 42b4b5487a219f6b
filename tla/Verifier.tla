------------------------------ MODULE Verifier ------------------------------
(***************************************************************************)
(* The way of a Groth16 proof from the prover to the answer of a verifier   *)
(* contract (proof.go, AggregationVerifier.sol, SlashingVerifier.sol,       *)
(* Pairing.sol).  The curve is y^2 = x^3 + 3 as in the contracts, over a    *)
(* small field in which it has a prime number of points.  Points of the     *)
(* second group are the multiples of its generator under coordinates that   *)
(* only tell them apart, and the pairing is the product of logarithms.  The *)
(* precompiled contracts for addition, multiplication and pairing fail for  *)
(* words that are no point.                                                 *)
(***************************************************************************)
EXTENDS Integers, Sequences, FiniteSets

F == INSTANCE Functions

CONSTANTS
    PRIME_Q, SNARK_SCALAR_FIELD,
    Key,        \* logarithms of the verifying key: alfa1, beta2, gamma2, delta2, IC
    Scalars,    \* logarithms of the proofs' points
    Inputs,     \* words that are given as public inputs
    Lifts       \* what a caller adds to a coordinate

OrderAssumption == {PRIME_Q, SNARK_SCALAR_FIELD} \subseteq Nat \ {0}
KeyAssumption ==
    /\ Key.IC \in Seq(0..SNARK_SCALAR_FIELD - 1) /\ Len(Key.IC) > 0
    /\ {Key.alfa1, Key.beta2, Key.gamma2, Key.delta2} \subseteq 0..SNARK_SCALAR_FIELD - 1
ScalarAssumption == Scalars \subseteq 0..SNARK_SCALAR_FIELD - 1 /\ Inputs \subseteq Nat

VARIABLES
    proof,      \* logarithms of the points of the proof
    input, lift,
    args,       \* the arguments a, b and c of verifyProof
    stage,      \* raw, range, inputs, true, false or reverted
    i, vk_x

given == <<proof, input, lift>>
vars == <<given, args, stage, i, vk_x>>

NumInputs == Len(Key.IC) - 1
----------------------------------------------------------------------------
(* The groups. *)

Field == 0..PRIME_Q - 1
Infinity == [X |-> 0, Y |-> 0]
G1 == {p \in [X : Field, Y : Field] : (p.Y * p.Y - p.X * p.X * p.X - 3) % PRIME_Q = 0} \cup {Infinity}

\* The precompiled contracts 6 and 7: the line through two points, or the
\* tangent, meets the curve in the negated sum.
Inverse == [x \in Field \ {0} |-> CHOOSE y \in Field : (x * y) % PRIME_Q = 1]
Third(p, q, slope) ==
    LET x == (slope * slope - p.X - q.X) % PRIME_Q
    IN  [X |-> x, Y |-> (slope * (p.X - x) - p.Y) % PRIME_Q]
Sum(p, q) ==
    CASE p = Infinity -> q
      [] q = Infinity -> p
      [] p.X = q.X /\ (p.Y + q.Y) % PRIME_Q = 0 -> Infinity
      [] p.X = q.X /\ p = q -> Third(p, q, 3 * p.X * p.X * Inverse[(2 * p.Y) % PRIME_Q])
      [] OTHER -> Third(p, q, (q.Y - p.Y) * Inverse[(q.X - p.X) % PRIME_Q])

\* Pairing.plus and Pairing.scalar_mul.
plus(p, q) == Sum(p, q)
scalar_mul(p, s) ==
    LET times[n \in 0..s] == IF n = 0 THEN Infinity ELSE Sum(times[n - 1], p)
    IN  times[s]

\* The points as multiples of the generator, the smallest point but infinity.
Generator == [X |-> 1, Y |-> 2]
Point1 == [s \in 0..SNARK_SCALAR_FIELD - 1 |-> scalar_mul(Generator, s)]
Point2 == [s \in 0..SNARK_SCALAR_FIELD - 1 |->
              [X |-> <<s % PRIME_Q, s \div PRIME_Q>>,
               Y |-> <<(s + 1) % PRIME_Q, (2 * s) % PRIME_Q>>]]
Logarithm(points, p) == {s \in DOMAIN points : points[s] = p}

\* What is lifted names the same element of the field.
LiftAssumption == Lifts \subseteq Nat /\ \A l \in Lifts : l % PRIME_Q = 0

negate(p) == IF p = Infinity THEN Infinity ELSE [X |-> p.X, Y |-> PRIME_Q - (p.Y % PRIME_Q)]

\* The multiples of the generator are a group of that order, and coordinates
\* suffice to tell the points of the second group apart.
GroupAssumption ==
    /\ \A s, t \in 0..SNARK_SCALAR_FIELD - 1 :
        /\ Sum(Point1[s], Point1[t]) = Point1[(s + t) % SNARK_SCALAR_FIELD]
        /\ Point1[s] = Point1[t] => s = t
    /\ \A s \in 0..SNARK_SCALAR_FIELD - 1 :
        /\ Point1[s] \in G1
        /\ negate(Point1[s]) = Point1[(SNARK_SCALAR_FIELD - s) % SNARK_SCALAR_FIELD]
    /\ SNARK_SCALAR_FIELD <= PRIME_Q * PRIME_Q

\* Pairing.pairing: the 24 words of four pairs are given to the precompiled
\* contract 8, which fails unless each is a pair of points.
pairing(pairs) ==
    LET logs == [k \in DOMAIN pairs |->
                    Logarithm(Point1, pairs[k][1]) \X Logarithm(Point2, pairs[k][2])]
        product(k) == LET pair == CHOOSE pair \in logs[k] : TRUE IN pair[1] * pair[2]
    IN  IF \E k \in DOMAIN pairs : logs[k] = {} THEN "reverted"
        ELSE IF (product(1) + product(2) + product(3) + product(4)) % SNARK_SCALAR_FIELD = 0
             THEN "true" ELSE "false"
----------------------------------------------------------------------------
(* The proof. *)

\* Proof.WriteRawTo: eight words, the imaginary part of a coordinate first.
Raw(p) ==
    <<Point1[p.a].X, Point1[p.a].Y, Point2[p.b].X[1], Point2[p.b].X[2],
      Point2[p.b].Y[1], Point2[p.b].Y[2], Point1[p.c].X, Point1[p.c].Y>>

Init ==
    /\ proof \in [a : Scalars, b : Scalars, c : 0..SNARK_SCALAR_FIELD - 1]
    /\ input \in [1..NumInputs -> Inputs]
    /\ lift \in Lifts
    /\ args = <<>>
    /\ stage = "raw"
    /\ i = 0
    /\ vk_x = Infinity

\* Mutated form of Halves: the real part first.
HalvesSwapped(w, k) == <<w[k + 1], w[k]>>

\* Two consecutive words as b[0] or b[1].
Halves(w, k) == <<w[k], w[k + 1]>>

\* ProofToEthereumProof, and the call, whose words anybody may choose.
ProofToEthereumProof ==
    /\ stage = "raw"
    /\ LET w == Raw(proof) IN
        args' = [A |-> [X |-> w[1], Y |-> w[2] + lift],
                 B |-> [X |-> Halves(w, 3), Y |-> Halves(w, 5)],
                 C |-> [X |-> w[7], Y |-> w[8]]]
    /\ stage' = "range"
    /\ UNCHANGED <<given, i, vk_x>>

Below(p) == {p.X, p.Y} \subseteq Field
Below2(p) == {p.X[1], p.Y[1], p.X[2], p.Y[2]} \subseteq Field

CheckRange ==
    /\ stage = "range"
    /\ stage' = IF Below(args.A) /\ Below2(args.B) /\ Below(args.C) THEN "inputs" ELSE "reverted"
    /\ UNCHANGED <<given, args, i, vk_x>>

\* verifyingKey: IC counts from 0.
IC(k) == Point1[Key.IC[k + 1]]

\* The point of the key that the input k is multiplied with.
Factor(k) == IC(k + 1)

\* Mutated form of Fits: inputs are not compared with the order of the group.
FitsAlways(word) == TRUE

\* Every input is less than the snark scalar field.
Fits(word) == word < SNARK_SCALAR_FIELD

AddInput ==
    /\ stage = "inputs" /\ i < NumInputs
    /\ IF Fits(input[i + 1])
       THEN /\ vk_x' = plus(vk_x, scalar_mul(Factor(i), input[i + 1]))
            /\ i' = i + 1
            /\ UNCHANGED stage
       ELSE stage' = "reverted" /\ UNCHANGED <<i, vk_x>>
    /\ UNCHANGED <<given, args>>

verifyProof ==
    /\ stage = "inputs" /\ i = NumInputs
    /\ vk_x' = plus(vk_x, IC(0))
    /\ stage' = pairing(<< <<negate(args.A), args.B>>,
                           <<Point1[Key.alfa1], Point2[Key.beta2]>>,
                           <<vk_x', Point2[Key.gamma2]>>,
                           <<args.C, Point2[Key.delta2]>> >>)
    /\ UNCHANGED <<given, args, i>>

Next == ProofToEthereumProof \/ CheckRange \/ AddInput \/ verifyProof

Spec == Init /\ [][Next]_vars
----------------------------------------------------------------------------
\* Groth16 for the statement that the inputs spell: the sum of IC, weighted.
Weighted == F!FoldFunction(+, Key.IC[1], [k \in 1..NumInputs |-> input[k] * Key.IC[k + 1]])
Equation ==
    (proof.a * proof.b - Key.alfa1 * Key.beta2 - Weighted * Key.gamma2 - proof.c * Key.delta2)
        % SNARK_SCALAR_FIELD = 0
Canonical == lift = 0 /\ \A k \in 1..NumInputs : input[k] < SNARK_SCALAR_FIELD

\* What is accepted satisfies the equation for exactly these inputs, each given
\* by its only representation in the field.
Sound == stage = "true" => Equation /\ Canonical

\* What satisfies the equation, as the node sends it, is neither refused nor
\* reverted.
Complete == Equation /\ Canonical => stage \notin {"false", "reverted"}
============================================================================
