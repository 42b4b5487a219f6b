-------------------------------- MODULE MiMC --------------------------------
(***************************************************************************)
(* MiMC.sol, one round at a time, over a small field in which the fifth     *)
(* power has an inverse as it has in the scalar field of the curve.  The    *)
(* round constants are hashes of hashes of a seed and are any numbers here. *)
(* Two messages are hashed side by side, so that what tells them apart can  *)
(* be followed.                                                             *)
(***************************************************************************)
EXTENDS Integers, Sequences

CONSTANTS
    localQ,         \* the scalar field
    Width,          \* bits of a word
    round_count,
    Blocks,         \* words of a message
    Words           \* the words that messages are made of

Fifth(t) == t * t * t * t * t

\* The fifth power loses nothing in the field, as in the scalar field of the
\* curve, whose order less one five does not divide.
PowerAssumption ==
    \A x, y \in 0..localQ - 1 : Fifth(x) % localQ = Fifth(y) % localQ => x = y
FieldAssumption == localQ \in Nat \ {0} /\ 3 * localQ < 2^Width
RoundAssumption == round_count \in Nat \ {0} /\ Blocks \in Nat \ {0}
WordAssumption == Words \subseteq 0..2^Width - 1

VARIABLES
    seeds,      \* the round constants
    in_msgs,    \* two messages
    i,          \* words chained so far
    r,          \* what they were chained to, for each message
    rounds,     \* rounds left for this word
    in_x,       \* the word as the rounds left it, for each message
    reverted

given == <<seeds, in_msgs>>
vars == <<given, i, r, rounds, in_x, reverted>>

Messages == 1..2
Word == 0..2^Width - 1

Init ==
    /\ seeds \in [1..round_count -> 0..localQ - 1]
    /\ in_msgs \in [Messages -> [1..Blocks -> Words]]
    /\ i = 0
    /\ r = [m \in Messages |-> 0]
    /\ rounds = round_count
    /\ in_x = [m \in Messages |-> in_msgs[m][1]]
    /\ reverted = FALSE

\* Mutated form of Power: the last factor is forgotten.
PowerFourth(t) == LET a == (t * t) % localQ IN (a * a) % localQ

\* The fifth power, from two squares.
Power(t) == LET a == (t * t) % localQ IN (((a * a) % localQ) * t) % localQ

\* One turn of the loop of MiMCpe5: the constant, the key, the power.
Round ==
    /\ rounds > 0 /\ ~reverted /\ i < Blocks
    /\ LET c == seeds[round_count - rounds + 1]
       IN  in_x' = [m \in Messages |-> Power((in_x[m] + c + r[m]) % localQ)]
    /\ rounds' = rounds - 1
    /\ UNCHANGED <<given, i, r, reverted>>

\* Mutated form of Whitened: the key is not added again.
WhitenedNot(x, key) == x

\* What MiMCpe5 returns: the key is added once more.
Whitened(x, key) == (x + key) % localQ

Chained(m) == r[m] + in_msgs[m][i + 1] + Whitened(in_x[m], r[m])

\* MiMCpe5_mp: the sum is of whole words and reverts when it overflows.
Chain ==
    /\ rounds = 0 /\ ~reverted /\ i < Blocks
    /\ IF \E m \in Messages : Chained(m) \notin Word
       THEN reverted' = TRUE /\ UNCHANGED <<i, r, rounds, in_x>>
       ELSE /\ r' = [m \in Messages |-> Chained(m) % localQ]
            /\ i' = i + 1
            /\ rounds' = round_count
            /\ in_x' = IF i' < Blocks THEN [m \in Messages |-> in_msgs[m][i' + 1]] ELSE in_x
            /\ UNCHANGED reverted
    /\ UNCHANGED given

Next == Round \/ Chain

Spec == Init /\ [][Next]_vars
----------------------------------------------------------------------------
(* Properties. *)

\* The rounds lose nothing: under one key two words that differ in the field
\* differ after every round, as long as the messages were the same before.
Permutes ==
    (r[1] = r[2] /\ i < Blocks) =>
        (in_x[1] % localQ = in_x[2] % localQ
            <=> in_msgs[1][i + 1] % localQ = in_msgs[2][i + 1] % localQ)

\* gnark's digest, which the node uses: the state is added to what encrypts
\* each word under it.  Cipher is the word after each round.
Cipher(x, key) ==
    LET e[n \in 0..round_count] ==
            IF n = 0 THEN x ELSE Fifth(e[n - 1] + seeds[n] + key) % localQ
    IN  e
Encrypted(x, key) == (Cipher(x, key)[round_count] + key) % localQ
Digest(msg) ==
    LET h[n \in 0..Blocks] ==
            IF n = 0 THEN 0 ELSE (h[n - 1] + msg[n] + Encrypted(msg[n] % localQ, h[n - 1])) % localQ
    IN  h

\* After each word the contract has what the node's digest has, for words of
\* any size: contract and node agree on every leaf and every message.
AgreesWithDigest == \A m \in Messages : r[m] = Digest(in_msgs[m])[i]
============================================================================
