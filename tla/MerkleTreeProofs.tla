-------------------------- MODULE MerkleTreeProofs --------------------------
(***************************************************************************)
(* The root that MerkleTree.sol stores is the hash of the vector of leaves, *)
(* and a path verifies exactly for the leaf at the position its bits spell, *)
(* for every number of levels.  The invariant is about the left siblings    *)
(* that insert keeps: those the next insertion will read are the hashes of  *)
(* the full subtrees to the left of its path.  The rest is an induction up  *)
(* the path, or, for a path that somebody else chose, down it.              *)
(***************************************************************************)
EXTENDS MerkleTree, DataLemmas

(* The nodes above a position. *)

LEMMA HalfType == \A n \in Nat : n \div 2 \in Nat
OBVIOUS

\* The nodes above a position are its halves.
LEMMA AboveStep ==
    ASSUME NEW position \in Nat
    PROVE  /\ Above(position) \in [Nat -> Nat]
           /\ Above(position)[0] = position
           /\ \A i \in Nat : Above(position)[i + 1] = Above(position)[i] \div 2
<1> DEFINE step == [i \in Nat |-> [n \in Nat |-> n \div 2]]
           Rule(f) == [i \in Nat |-> IF i = 0 THEN position ELSE f[i - 1] \div 2]
           above == CHOOSE f : f = Rule(f)
<1>1. \A i, n \in Nat : step[i][n] \in Nat
    BY HalfType
<1>2. PICK f : Recurs(f, Nat, position, step)
    <2> HIDE DEF step
    <2> QED BY <1>1, Recursion
<1>3. f = Rule(f)
    <2>1. \A i \in Nat : f[i] \in Nat /\ f[i + 1] = f[i] \div 2
        BY <1>2 DEF Recurs
    <2>2. \A i \in Nat : i # 0 => i - 1 \in Nat /\ (i - 1) + 1 = i
        OBVIOUS
    <2>3. \A i \in Nat : f[i] = IF i = 0 THEN position ELSE f[i - 1] \div 2
        BY <1>2, <2>1, <2>2 DEF Recurs
    <2>4. f = [i \in Nat |-> f[i]]
        BY <1>2 DEF Recurs
    <2> QED BY <2>3, <2>4
<1>4. above = Rule(above)
    <2> HIDE DEF Rule
    <2> QED BY <1>3
<1>5. above[0] = position /\ \A i \in Nat : above[i + 1] = above[i] \div 2
    <2> HIDE DEF above
    <2>1. \A i \in Nat : i + 1 \in Nat /\ i + 1 # 0 /\ (i + 1) - 1 = i
        OBVIOUS
    <2>2. \A i \in Nat : above[i] = IF i = 0 THEN position ELSE above[i - 1] \div 2
        BY <1>4
    <2> HIDE DEF Rule
    <2> QED BY <2>1, <2>2
<1>6. \A i \in Nat : above[i] \in Nat
    <2> DEFINE Holds == {i \in Nat : above[i] \in Nat}
    <2> HIDE DEF above
    <2>1. 0 \in Holds
        BY <1>5
    <2>2. \A i \in Nat : i \in Holds => i + 1 \in Holds
        BY <1>5, HalfType
    <2> HIDE DEF Holds
    <2>3. Nat \subseteq Holds
        BY <2>1, <2>2, Induction
    <2> QED BY <2>3 DEF Holds
<1>7. above \in [Nat -> Nat]
    <2> HIDE DEF above
    <2> QED BY <1>4, <1>6
<1>8. Above(position) = above
    BY DEF Above
<1> HIDE DEF above
<1> QED BY <1>5, <1>7, <1>8

LEMMA SpanStep ==
    /\ Span[0] = 1
    /\ \A i \in Nat : Span[i] \in Nat \ {0} /\ Span[i + 1] = 2 * Span[i]
<1> DEFINE step == [i \in Nat |-> [n \in Nat |-> 2 * n]]
           Rule(f) == [i \in Nat |-> IF i = 0 THEN 1 ELSE 2 * f[i - 1]]
<1>1. \A i, n \in Nat : step[i][n] \in Nat
    OBVIOUS
<1>2. PICK f : Recurs(f, Nat, 1, step)
    <2> HIDE DEF step
    <2> QED BY <1>1, Recursion
<1>3. f = Rule(f)
    <2>1. \A i \in Nat : f[i] \in Nat /\ f[i + 1] = 2 * f[i]
        BY <1>2 DEF Recurs
    <2>2. \A i \in Nat : i # 0 => i - 1 \in Nat /\ (i - 1) + 1 = i
        OBVIOUS
    <2>3. \A i \in Nat : f[i] = IF i = 0 THEN 1 ELSE 2 * f[i - 1]
        BY <1>2, <2>1, <2>2 DEF Recurs
    <2>4. f = [i \in Nat |-> f[i]]
        BY <1>2 DEF Recurs
    <2> QED BY <2>3, <2>4
<1>4. Span = Rule(Span)
    <2>1. Span = CHOOSE g : g = Rule(g)
        BY DEF Span
    <2> HIDE DEF Rule
    <2> QED BY <1>3, <2>1
<1>5. Span[0] = 1 /\ \A i \in Nat : Span[i + 1] = 2 * Span[i]
    <2>1. \A i \in Nat : i + 1 \in Nat /\ i + 1 # 0 /\ (i + 1) - 1 = i
        OBVIOUS
    <2>2. \A i \in Nat : Span[i] = IF i = 0 THEN 1 ELSE 2 * Span[i - 1]
        BY <1>4
    <2> HIDE DEF Rule
    <2> QED BY <2>1, <2>2
<1>6. \A i \in Nat : Span[i] \in Nat \ {0}
    <2> DEFINE Holds == {i \in Nat : Span[i] \in Nat \ {0}}
    <2>1. 0 \in Holds
        BY <1>5
    <2>2. \A i \in Nat : i \in Holds => i + 1 \in Holds
        BY <1>5
    <2> HIDE DEF Holds
    <2>3. Nat \subseteq Holds
        BY <2>1, <2>2, Induction
    <2> QED BY <2>3 DEF Holds
<1> QED BY <1>5, <1>6

\* What lies to the right stays to the right.
LEMMA AboveOrder ==
    ASSUME NEW p \in Nat, NEW q \in Nat, p <= q, NEW i \in Nat
    PROVE  Above(p)[i] <= Above(q)[i]
<1> DEFINE Holds == {j \in Nat : Above(p)[j] <= Above(q)[j]}
<1>1. 0 \in Holds
    BY AboveStep
<1>2. ASSUME NEW j \in Nat, j \in Holds PROVE j + 1 \in Holds
    <2>1. \A m, n \in Nat : m <= n => m \div 2 <= n \div 2
        OBVIOUS
    <2>2. /\ Above(p)[j] \in Nat /\ Above(p)[j + 1] = Above(p)[j] \div 2
          /\ Above(q)[j] \in Nat /\ Above(q)[j + 1] = Above(q)[j] \div 2
        BY AboveStep
    <2>3. Above(p)[j] \div 2 <= Above(q)[j] \div 2
        BY <1>2, <2>1, <2>2
    <2> QED BY <2>2, <2>3
<1>3. Nat \subseteq Holds
    <2>1. \A j \in Nat : j \in Holds => j + 1 \in Holds
        BY <1>2
    <2> HIDE DEF Holds
    <2> QED BY <1>1, <2>1, Induction
<1> QED BY <1>3

\* A position is in the tree when the nodes above it are.
LEMMA AboveBound ==
    ASSUME NEW n \in Nat, NEW p \in Nat, NEW i \in 0..n
    PROVE  p < Span[n] <=> Above(p)[i] < Span[n - i]
<1> DEFINE Holds == {j \in Nat : j <= n => (p < Span[n] <=> Above(p)[j] < Span[n - j])}
<1>1. 0 \in Holds
    <2>1. Above(p)[0] = p /\ n - 0 = n
        BY AboveStep
    <2> QED BY <2>1
<1>2. ASSUME NEW j \in Nat, j \in Holds PROVE j + 1 \in Holds
    <2> SUFFICES ASSUME j + 1 <= n PROVE p < Span[n] <=> Above(p)[j + 1] < Span[n - (j + 1)]
        OBVIOUS
    <2> DEFINE k == n - (j + 1)
    <2>1. k \in Nat /\ k + 1 = n - j /\ j <= n
        OBVIOUS
    <2>2. Span[n - j] = 2 * Span[k] /\ Span[k] \in Nat
        BY <2>1, SpanStep
    <2>3. \A x, y \in Nat : x < 2 * y <=> x \div 2 < y
        OBVIOUS
    <2>4. Above(p)[j] \in Nat /\ Above(p)[j + 1] = Above(p)[j] \div 2
        BY AboveStep
    <2> HIDE DEF k
    <2>5. p < Span[n] <=> Above(p)[j] < Span[n - j]
        BY <1>2, <2>1
    <2>6. Above(p)[j] < 2 * Span[k] <=> Above(p)[j] \div 2 < Span[k]
        BY <2>2, <2>3, <2>4
    <2> QED BY <2>2, <2>4, <2>5, <2>6 DEF k
<1>3. Nat \subseteq Holds
    <2>1. \A j \in Nat : j \in Holds => j + 1 \in Holds
        BY <1>2
    <2> HIDE DEF Holds
    <2> QED BY <1>1, <2>1, Induction
<1> QED BY <1>3

\* The next position is at the same node, or at the next one.
LEMMA AboveNext ==
    ASSUME NEW p \in Nat, NEW i \in Nat
    PROVE  Above(p + 1)[i] = Above(p)[i] \/ Above(p + 1)[i] = Above(p)[i] + 1
<1> DEFINE Close(j) == Above(p + 1)[j] = Above(p)[j] \/ Above(p + 1)[j] = Above(p)[j] + 1
           Holds == {j \in Nat : Close(j)}
<1>1. 0 \in Holds
    <2>1. p + 1 \in Nat /\ 0 \in Nat
        OBVIOUS
    <2>2. Above(p)[0] = p /\ Above(p + 1)[0] = p + 1
        BY <2>1, AboveStep
    <2> QED BY <2>2
<1>2. ASSUME NEW j \in Nat, j \in Holds PROVE j + 1 \in Holds
    <2>1. /\ Above(p)[j] \in Nat /\ Above(p)[j + 1] = Above(p)[j] \div 2
          /\ Above(p + 1)[j] \in Nat /\ Above(p + 1)[j + 1] = Above(p + 1)[j] \div 2
        <3>1. p + 1 \in Nat /\ j + 1 \in Nat
            OBVIOUS
        <3> QED BY <3>1, AboveStep
    <2>2. \A x, y \in Nat : y = x \/ y = x + 1 => y \div 2 = x \div 2 \/ y \div 2 = x \div 2 + 1
        OBVIOUS
    <2>3. Close(j)
        BY <1>2
    <2>4. Above(p + 1)[j] \div 2 = Above(p)[j] \div 2 \/ Above(p + 1)[j] \div 2 = Above(p)[j] \div 2 + 1
        BY <2>1, <2>2, <2>3
    <2>5. Close(j + 1)
        BY <2>1, <2>4
    <2> QED BY <2>5
<1>3. Nat \subseteq Holds
    <2>1. \A j \in Nat : j \in Holds => j + 1 \in Holds
        BY <1>2
    <2> HIDE DEF Holds
    <2> QED BY <1>1, <2>1, Induction
<1> QED BY <1>3

\* The two children of the parent of the node above p.
LEMMA Children ==
    ASSUME NEW p \in Nat, NEW i \in Nat
    PROVE  /\ Above(p)[i] \in Nat /\ Above(p)[i + 1] \in Nat
           /\ FromRight(p, i) => Above(p)[i] = 2 * Above(p)[i + 1] + 1
           /\ ~FromRight(p, i) => Above(p)[i] = 2 * Above(p)[i + 1]
<1>1. \A x \in Nat : (x % 2 = 1 => x = 2 * (x \div 2) + 1) /\ (~(x % 2 = 1) => x = 2 * (x \div 2))
    OBVIOUS
<1>2. Above(p)[i] \in Nat /\ Above(p)[i + 1] \in Nat /\ Above(p)[i + 1] = Above(p)[i] \div 2
    <2>1. i + 1 \in Nat
        OBVIOUS
    <2> QED BY <2>1, AboveStep
<1> QED BY <1>1, <1>2 DEF FromRight

\* The nodes above a position are those above its half, one lower.
LEMMA AboveHalf ==
    ASSUME NEW p \in Nat, NEW i \in Nat
    PROVE  Above(p)[i + 1] = Above(p \div 2)[i]
<1> DEFINE Holds == {j \in Nat : Above(p)[j + 1] = Above(p \div 2)[j]}
<1>1. p \div 2 \in Nat
    BY HalfType
<1>2. 0 \in Holds
    <2>1. Above(p)[0 + 1] = Above(p)[0] \div 2 /\ Above(p)[0] = p /\ Above(p \div 2)[0] = p \div 2
        <3>1. 0 \in Nat
            OBVIOUS
        <3> QED BY <1>1, <3>1, AboveStep
    <2> QED BY <2>1
<1>3. ASSUME NEW j \in Nat, j \in Holds PROVE j + 1 \in Holds
    <2>1. j + 1 \in Nat
        OBVIOUS
    <2>2. Above(p)[(j + 1) + 1] = Above(p)[j + 1] \div 2
        BY <2>1, AboveStep
    <2>3. Above(p \div 2)[j + 1] = Above(p \div 2)[j] \div 2
        BY <1>1, AboveStep
    <2>4. Above(p)[j + 1] = Above(p \div 2)[j]
        BY <1>3
    <2> QED BY <2>1, <2>2, <2>3, <2>4
<1>4. Nat \subseteq Holds
    <2>1. \A j \in Nat : j \in Holds => j + 1 \in Holds
        BY <1>3
    <2> HIDE DEF Holds
    <2> QED BY <1>2, <2>1, Induction
<1> QED BY <1>4
----------------------------------------------------------------------------
(* A walk up the tree, from the definitions by recursion. *)

\* h climbs from a leaf through n siblings.
Climbs(h, n, leaf, left, sibling) ==
    /\ h = [i \in 0..n |-> h[i]]
    /\ h[0] = leaf
    /\ \A i \in Nat : i < n =>
        h[i + 1] = IF left[i + 1] THEN hashLeftRight(h[i], sibling[i + 1])
                                  ELSE hashLeftRight(sibling[i + 1], h[i])

LEMMA ClimbExists ==
    ASSUME NEW n \in Nat, NEW leaf, NEW left, NEW sibling
    PROVE  \E h : Climbs(h, n, leaf, left, sibling)
<1> DEFINE Holds == {k \in Nat : \E h : Climbs(h, k, leaf, left, sibling)}
<1>1. 0 \in Holds
    <2>1. Climbs([i \in 0..0 |-> leaf], 0, leaf, left, sibling)
        BY DEF Climbs
    <2> QED BY <2>1
<1>2. ASSUME NEW k \in Nat, k \in Holds PROVE k + 1 \in Holds
    <2>1. PICK h : Climbs(h, k, leaf, left, sibling)
        BY <1>2
    <2> DEFINE top == IF left[k + 1] THEN hashLeftRight(h[k], sibling[k + 1])
                                     ELSE hashLeftRight(sibling[k + 1], h[k])
               more == [i \in 0..k + 1 |-> IF i = k + 1 THEN top ELSE h[i]]
    <2>2. \A i \in 0..k : i \in 0..k + 1 /\ i # k + 1
        OBVIOUS
    <2> HIDE DEF top
    <2>3. more[k + 1] = top /\ \A i \in 0..k : more[i] = h[i]
        BY <2>2
    <2>4. more = [i \in 0..k + 1 |-> more[i]]
        OBVIOUS
    <2> HIDE DEF more
    <2>5. more[0] = leaf
        BY <2>1, <2>3 DEF Climbs
    <2>6. ASSUME NEW i \in Nat, i < k + 1
          PROVE  more[i + 1] = IF left[i + 1] THEN hashLeftRight(more[i], sibling[i + 1])
                                              ELSE hashLeftRight(sibling[i + 1], more[i])
        <3>1. more[i] = h[i]
            BY <2>3, <2>6
        <3>2. CASE i = k
            BY <2>3, <3>1, <3>2 DEF top
        <3>3. CASE i < k
            <4>1. more[i + 1] = h[i + 1]
                BY <2>3, <3>3
            <4> QED BY <2>1, <3>1, <3>3, <4>1 DEF Climbs
        <3> QED BY <2>6, <3>2, <3>3
    <2>7. Climbs(more, k + 1, leaf, left, sibling)
        BY <2>4, <2>5, <2>6 DEF Climbs
    <2>8. k + 1 \in Nat
        OBVIOUS
    <2> QED BY <2>7, <2>8
<1>3. Nat \subseteq Holds
    <2>1. \A k \in Nat : k \in Holds => k + 1 \in Holds
        BY <1>2
    <2> HIDE DEF Holds
    <2> QED BY <1>1, <2>1, Induction
<1> QED BY <1>3

\* The definition of a climb by its values.
LEMMA ClimbEquation ==
    ASSUME NEW n \in Nat, NEW h, NEW leaf, NEW left, NEW sibling
    PROVE  Climbs(h, n, leaf, left, sibling) <=>
           h = [i \in 0..n |-> IF i = 0 THEN leaf
                               ELSE IF left[i] THEN hashLeftRight(h[i - 1], sibling[i])
                                               ELSE hashLeftRight(sibling[i], h[i - 1])]
<1> DEFINE Value(i) == IF i = 0 THEN leaf
                       ELSE IF left[i] THEN hashLeftRight(h[i - 1], sibling[i])
                                       ELSE hashLeftRight(sibling[i], h[i - 1])
<1>1. \A i \in Nat : i < n => i + 1 \in 0..n /\ i + 1 # 0 /\ (i + 1) - 1 = i
    OBVIOUS
<1>2. \A i \in 0..n : i # 0 => i - 1 \in Nat /\ i - 1 < n /\ (i - 1) + 1 = i
    OBVIOUS
<1>3. ASSUME h = [i \in 0..n |-> Value(i)] PROVE Climbs(h, n, leaf, left, sibling)
    <2>1. \A i \in 0..n : h[i] = Value(i)
        BY <1>3
    <2>2. h[0] = leaf
        BY <2>1
    <2>3. h = [i \in 0..n |-> h[i]]
        BY <1>3
    <2> QED BY <1>1, <2>1, <2>2, <2>3 DEF Climbs
<1>4. ASSUME Climbs(h, n, leaf, left, sibling) PROVE h = [i \in 0..n |-> Value(i)]
    <2>1. \A i \in 0..n : h[i] = Value(i)
        BY <1>2, <1>4 DEF Climbs
    <2>2. h = [i \in 0..n |-> h[i]]
        BY <1>4 DEF Climbs
    <2> HIDE DEF Value
    <2> QED BY <2>1, <2>2
<1> QED BY <1>3, <1>4

\* What insert computes on its way up.
LEMMA InsertClimbs ==
    ASSUME LevelAssumption, NEW leaf
    PROVE  Climbs(InsertPath(leaf), Levels, leaf,
                  [i \in 1..Levels |-> ~FromRight(nextIndex, i - 1)],
                  [i \in 1..Levels |-> IF FromRight(nextIndex, i - 1) THEN filledSubtrees[i - 1]
                                                                      ELSE zeros[i - 1]])
<1> DEFINE left == [i \in 1..Levels |-> ~FromRight(nextIndex, i - 1)]
           sibling == [i \in 1..Levels |-> IF FromRight(nextIndex, i - 1) THEN filledSubtrees[i - 1]
                                                                          ELSE zeros[i - 1]]
           Rule(h) == [i \in 0..Levels |->
                            IF i = 0 THEN leaf
                            ELSE IF FromRight(nextIndex, i - 1)
                                 THEN hashLeftRight(filledSubtrees[i - 1], h[i - 1])
                                 ELSE hashLeftRight(h[i - 1], zeros[i - 1])]
           path == CHOOSE h : h = Rule(h)
<1>1. Levels \in Nat
    BY DEF LevelAssumption
<1>2. ASSUME NEW h PROVE Rule(h) = [i \in 0..Levels |->
                                        IF i = 0 THEN leaf
                                        ELSE IF left[i] THEN hashLeftRight(h[i - 1], sibling[i])
                                                        ELSE hashLeftRight(sibling[i], h[i - 1])]
    <2>1. \A i \in 0..Levels : i # 0 => i \in 1..Levels
        BY <1>1
    <2>2. \A i \in 1..Levels : /\ left[i] = ~FromRight(nextIndex, i - 1)
                               /\ FromRight(nextIndex, i - 1) => sibling[i] = filledSubtrees[i - 1]
                               /\ ~FromRight(nextIndex, i - 1) => sibling[i] = zeros[i - 1]
        OBVIOUS
    <2> HIDE DEF left, sibling
    <2> QED BY <2>1, <2>2
<1> HIDE DEF left, sibling
<1>3. PICK h : Climbs(h, Levels, leaf, left, sibling)
    BY <1>1, ClimbExists
<1>4. h = Rule(h)
    <2> HIDE DEF Rule
    <2> QED BY <1>1, <1>2, <1>3, ClimbEquation
<1>5. path = Rule(path)
    <2> HIDE DEF Rule
    <2> QED BY <1>4
<1>6. Climbs(path, Levels, leaf, left, sibling)
    <2> HIDE DEF path, Rule
    <2> QED BY <1>1, <1>2, <1>5, ClimbEquation
<1>7. InsertPath(leaf) = path
    BY DEF InsertPath
<1> HIDE DEF path
<1> QED BY <1>6, <1>7 DEF left, sibling
----------------------------------------------------------------------------
(* The reference tree. *)

\* levels holds the n lowest levels of the tree over leaves.
Grows(levels, n, leaves) ==
    /\ levels = [i \in 0..n |-> levels[i]]
    /\ levels[0] = [b \in Nat |-> leaves[b]]
    /\ \A i \in Nat : i < n =>
        levels[i + 1] = [b \in Nat |-> hashLeftRight(levels[i][2 * b], levels[i][2 * b + 1])]

LEMMA GrowthExists ==
    ASSUME NEW n \in Nat, NEW leaves
    PROVE  \E levels : Grows(levels, n, leaves)
<1> DEFINE Holds == {k \in Nat : \E levels : Grows(levels, k, leaves)}
<1>1. 0 \in Holds
    <2>1. Grows([i \in 0..0 |-> [b \in Nat |-> leaves[b]]], 0, leaves)
        BY DEF Grows
    <2> QED BY <2>1
<1>2. ASSUME NEW k \in Nat, k \in Holds PROVE k + 1 \in Holds
    <2>1. PICK levels : Grows(levels, k, leaves)
        BY <1>2
    <2> DEFINE top == [b \in Nat |-> hashLeftRight(levels[k][2 * b], levels[k][2 * b + 1])]
               more == [i \in 0..k + 1 |-> IF i = k + 1 THEN top ELSE levels[i]]
    <2>2. \A i \in 0..k : i \in 0..k + 1 /\ i # k + 1
        OBVIOUS
    <2> HIDE DEF top
    <2>3. more[k + 1] = top /\ \A i \in 0..k : more[i] = levels[i]
        BY <2>2
    <2>4. more = [i \in 0..k + 1 |-> more[i]]
        OBVIOUS
    <2> HIDE DEF more
    <2>5. more[0] = [b \in Nat |-> leaves[b]]
        <3>1. levels[0] = [b \in Nat |-> leaves[b]]
            BY <2>1 DEF Grows
        <3>2. more[0] = levels[0]
            BY <2>3
        <3> QED BY <3>1, <3>2
    <2>6. ASSUME NEW i \in Nat, i < k + 1
          PROVE  more[i + 1] = [b \in Nat |-> hashLeftRight(more[i][2 * b], more[i][2 * b + 1])]
        <3>1. more[i] = levels[i]
            BY <2>3, <2>6
        <3>2. CASE i = k
            BY <2>3, <3>1, <3>2 DEF top
        <3>3. CASE i < k
            <4>1. more[i + 1] = levels[i + 1]
                BY <2>3, <3>3
            <4> QED BY <2>1, <3>1, <3>3, <4>1 DEF Grows
        <3> QED BY <2>6, <3>2, <3>3
    <2>7. Grows(more, k + 1, leaves)
        BY <2>4, <2>5, <2>6 DEF Grows
    <2>8. k + 1 \in Nat
        OBVIOUS
    <2> QED BY <2>7, <2>8
<1>3. Nat \subseteq Holds
    <2>1. \A k \in Nat : k \in Holds => k + 1 \in Holds
        BY <1>2
    <2> HIDE DEF Holds
    <2> QED BY <1>1, <2>1, Induction
<1> QED BY <1>3

\* A node of the reference tree hashes its children.
LEMMA SubtreeStep ==
    ASSUME LevelAssumption, NEW leaves
    PROVE  /\ \A b \in Nat : Subtree(leaves)[0][b] = leaves[b]
           /\ \A i \in 0..Levels - 1, b \in Nat :
                Subtree(leaves)[i + 1][b]
                    = hashLeftRight(Subtree(leaves)[i][2 * b], Subtree(leaves)[i][2 * b + 1])
<1> DEFINE Level(f, i) == [b \in Nat |-> IF i = 0 THEN leaves[b]
                               ELSE hashLeftRight(f[i - 1][2 * b], f[i - 1][2 * b + 1])]
           Rule(f) == [i \in 0..Levels |-> Level(f, i)]
           tree == CHOOSE f : f = Rule(f)
<1>1. Levels \in Nat
    BY DEF LevelAssumption
<1>2. PICK levels : Grows(levels, Levels, leaves)
    BY <1>1, GrowthExists
<1>3. levels = Rule(levels)
    <2>1. \A i \in 0..Levels : i # 0 => i - 1 \in Nat /\ i - 1 < Levels /\ (i - 1) + 1 = i
        BY <1>1
    <2>2. levels[0] = Level(levels, 0)
        BY <1>2 DEF Grows
    <2>3. ASSUME NEW i \in 0..Levels, i # 0 PROVE levels[i] = Level(levels, i)
        <3>1. levels[(i - 1) + 1] =
                [b \in Nat |-> hashLeftRight(levels[i - 1][2 * b], levels[i - 1][2 * b + 1])]
            BY <1>2, <2>1, <2>3 DEF Grows
        <3> QED BY <2>1, <2>3, <3>1
    <2>4. levels = [i \in 0..Levels |-> levels[i]]
        BY <1>2 DEF Grows
    <2> HIDE DEF Level
    <2> QED BY <2>2, <2>3, <2>4
<1>4. tree = Rule(tree)
    <2> HIDE DEF Rule
    <2> QED BY <1>3
<1>5. Subtree(leaves) = tree
    BY DEF Subtree
<1> HIDE DEF tree
<1>6. \A i \in 0..Levels : tree[i] = Level(tree, i)
    <2> HIDE DEF Level
    <2> QED BY <1>4
<1>7. \A b \in Nat : tree[0][b] = leaves[b]
    <2>1. 0 \in 0..Levels
        BY <1>1
    <2>2. tree[0] = Level(tree, 0)
        BY <1>6, <2>1
    <2> QED BY <2>2
<1>8. ASSUME NEW i \in 0..Levels - 1, NEW b \in Nat
      PROVE  tree[i + 1][b] = hashLeftRight(tree[i][2 * b], tree[i][2 * b + 1])
    <2>1. i + 1 \in 0..Levels /\ i + 1 # 0 /\ (i + 1) - 1 = i
        BY <1>1
    <2>2. tree[i + 1] = Level(tree, i + 1)
        BY <1>6, <2>1
    <2> QED BY <2>1, <2>2
<1> QED BY <1>5, <1>7, <1>8

\* The positions below the node b of height i.
Below(i, b) == {p \in Nat : Above(p)[i] = b}

\* The positions below a node are those below its children.
LEMMA BelowChildren ==
    ASSUME NEW i \in Nat, NEW b \in Nat
    PROVE  Below(i + 1, b) = Below(i, 2 * b) \cup Below(i, 2 * b + 1)
<1>1. \A x, y \in Nat : x \div 2 = y <=> x = 2 * y \/ x = 2 * y + 1
    OBVIOUS
<1>2. \A p \in Nat : Above(p)[i] \in Nat /\ Above(p)[i + 1] = Above(p)[i] \div 2
    BY AboveStep
<1>3. \A p \in Nat : Above(p)[i + 1] = b <=> Above(p)[i] = 2 * b \/ Above(p)[i] = 2 * b + 1
    <2> SUFFICES ASSUME NEW p \in Nat
                 PROVE  Above(p)[i + 1] = b <=> Above(p)[i] = 2 * b \/ Above(p)[i] = 2 * b + 1
        OBVIOUS
    <2>1. Above(p)[i] \in Nat /\ Above(p)[i + 1] = Above(p)[i] \div 2
        BY <1>2
    <2>2. Above(p)[i] \div 2 = b <=> Above(p)[i] = 2 * b \/ Above(p)[i] = 2 * b + 1
        BY <1>1, <2>1
    <2> QED BY <2>1, <2>2
<1> QED BY <1>3 DEF Below

\* x and y have the same leaves below the node b at height i.
Alike(x, y, i, b) == \A p \in Below(i, b) : x[p] = y[p]

\* A node is determined by the leaves below it.
LEMMA NodeLocal ==
    ASSUME LevelAssumption, NEW x, NEW y, NEW i \in 0..Levels, NEW b \in Nat,
           Alike(x, y, i, b)
    PROVE  Subtree(x)[i][b] = Subtree(y)[i][b]
<1> DEFINE Agree(j, c) == \A p \in Below(j, c) : x[p] = y[p]
           Same(j, c) == Subtree(x)[j][c] = Subtree(y)[j][c]
           Holds == {j \in Nat : j <= Levels => \A c \in Nat : Agree(j, c) => Same(j, c)}
<1>1. 0 \in Holds
    <2> SUFFICES ASSUME NEW c \in Nat, Agree(0, c) PROVE Same(0, c)
        OBVIOUS
    <2>1. c \in Below(0, c)
        BY AboveStep DEF Below
    <2> QED BY <2>1, SubtreeStep
<1>2. ASSUME NEW j \in Nat, j \in Holds PROVE j + 1 \in Holds
    <2> SUFFICES ASSUME j + 1 <= Levels, NEW c \in Nat, Agree(j + 1, c) PROVE Same(j + 1, c)
        OBVIOUS
    <2>1. j <= Levels /\ j \in 0..Levels - 1 /\ 2 * c \in Nat /\ 2 * c + 1 \in Nat
        BY DEF LevelAssumption
    <2>2. Agree(j, 2 * c) /\ Agree(j, 2 * c + 1)
        BY BelowChildren
    <2>3. Same(j, 2 * c) /\ Same(j, 2 * c + 1)
        <3> HIDE DEF Agree, Same
        <3> QED BY <1>2, <2>1, <2>2
    <2> QED BY <2>1, <2>3, SubtreeStep
<1>3. Nat \subseteq Holds
    <2>1. \A j \in Nat : j \in Holds => j + 1 \in Holds
        BY <1>2
    <2> HIDE DEF Holds
    <2> QED BY <1>1, <2>1, Induction
<1> QED BY <1>3 DEF LevelAssumption, Alike

\* The vector of empty leaves.
Empty == [p \in Nat |-> Zero]

\* An empty subtree of any height has the stored root of that height.
LEMMA ZerosStep ==
    ASSUME LevelAssumption
    PROVE  \A i \in 0..Levels, b \in Nat : Subtree(Empty)[i][b] = zeros[i]
<1> DEFINE Rule(f) == [i \in 0..Levels |-> IF i = 0 THEN Zero ELSE hashLeftRight(f[i - 1], f[i - 1])]
           Holds == {j \in Nat : j <= Levels => \A b \in Nat : Subtree(Empty)[j][b] = Subtree(Empty)[j][0]}
           nodes == [i \in 0..Levels |-> Subtree(Empty)[i][0]]
<1>1. 0 \in Holds
    BY SubtreeStep DEF Empty
<1>2. ASSUME NEW j \in Nat, j \in Holds PROVE j + 1 \in Holds
    <2> SUFFICES ASSUME j + 1 <= Levels, NEW b \in Nat
                 PROVE  Subtree(Empty)[j + 1][b] = Subtree(Empty)[j + 1][0]
        OBVIOUS
    <2>1. j <= Levels /\ j \in 0..Levels - 1
        BY DEF LevelAssumption
    <2>2. \A c \in Nat : Subtree(Empty)[j][c] = Subtree(Empty)[j][0]
        BY <1>2, <2>1
    <2>3. \A c \in Nat : Subtree(Empty)[j + 1][c]
                            = hashLeftRight(Subtree(Empty)[j][2 * c], Subtree(Empty)[j][2 * c + 1])
        BY <2>1, SubtreeStep
    <2>4. \A c \in Nat : 2 * c \in Nat /\ 2 * c + 1 \in Nat
        OBVIOUS
    <2>5. \A c \in Nat : Subtree(Empty)[j + 1][c]
                            = hashLeftRight(Subtree(Empty)[j][0], Subtree(Empty)[j][0])
        BY <2>2, <2>3, <2>4
    <2> QED BY <2>5
<1>3. Nat \subseteq Holds
    <2>1. \A j \in Nat : j \in Holds => j + 1 \in Holds
        BY <1>2
    <2> HIDE DEF Holds
    <2> QED BY <1>1, <2>1, Induction
<1>4. \A i \in 0..Levels, b \in Nat : Subtree(Empty)[i][b] = nodes[i]
    BY <1>3 DEF LevelAssumption
<1>5. nodes = Rule(nodes)
    <2>1. nodes[0] = Zero
        <3>1. 0 \in 0..Levels /\ 0 \in Nat
            BY DEF LevelAssumption
        <3>2. Subtree(Empty)[0][0] = Zero
            BY SubtreeStep DEF Empty
        <3> QED BY <3>1, <3>2
    <2>2. ASSUME NEW i \in 0..Levels, i # 0 PROVE nodes[i] = hashLeftRight(nodes[i - 1], nodes[i - 1])
        <3>1. i - 1 \in 0..Levels - 1 /\ i - 1 \in 0..Levels /\ (i - 1) + 1 = i
            BY <2>2 DEF LevelAssumption
        <3>2. Subtree(Empty)[(i - 1) + 1][0]
                = hashLeftRight(Subtree(Empty)[i - 1][2 * 0], Subtree(Empty)[i - 1][2 * 0 + 1])
            BY <3>1, SubtreeStep
        <3>3. 2 * 0 \in Nat /\ 2 * 0 + 1 \in Nat
            OBVIOUS
        <3>4. Subtree(Empty)[i][0] = hashLeftRight(nodes[i - 1], nodes[i - 1])
            <4> HIDE DEF nodes
            <4> QED BY <1>4, <3>1, <3>2, <3>3
        <3> QED BY <3>4
    <2>3. nodes = [i \in 0..Levels |-> nodes[i]]
        OBVIOUS
    <2> HIDE DEF nodes
    <2> QED BY <2>1, <2>2, <2>3
<1> HIDE DEF nodes
<1> DEFINE chosen == CHOOSE f : f = Rule(f)
<1>6. chosen = Rule(chosen)
    <2> HIDE DEF Rule
    <2> QED BY <1>5
<1>7. zeros = chosen
    BY DEF zeros
<1> HIDE DEF chosen
<1> DEFINE Equal == {j \in Nat : j <= Levels => nodes[j] = zeros[j]}
<1>8. 0 \in Equal
    BY <1>5, <1>6, <1>7 DEF LevelAssumption
<1>9. ASSUME NEW j \in Nat, j \in Equal PROVE j + 1 \in Equal
    <2> SUFFICES ASSUME j + 1 <= Levels PROVE nodes[j + 1] = zeros[j + 1]
        OBVIOUS
    <2>1. j + 1 \in 0..Levels /\ j + 1 # 0 /\ (j + 1) - 1 = j /\ nodes[j] = zeros[j]
        BY <1>9 DEF LevelAssumption
    <2>2. /\ nodes[j + 1] = hashLeftRight(nodes[j], nodes[j])
          /\ zeros[j + 1] = hashLeftRight(zeros[j], zeros[j])
        BY <1>5, <1>6, <1>7, <2>1
    <2> QED BY <2>1, <2>2
<1>10. Nat \subseteq Equal
    <2>1. \A j \in Nat : j \in Equal => j + 1 \in Equal
        BY <1>9
    <2> HIDE DEF Equal
    <2> QED BY <1>8, <2>1, Induction
<1> QED BY <1>4, <1>10 DEF LevelAssumption

\* A node without leaves below it has the root of an empty subtree.
LEMMA EmptyNode ==
    ASSUME LevelAssumption, NEW leaves, NEW i \in 0..Levels, NEW b \in Nat,
           \A p \in Below(i, b) : leaves[p] = Zero
    PROVE  Subtree(leaves)[i][b] = zeros[i]
<1>1. \A p \in Below(i, b) : leaves[p] = Empty[p]
    BY DEF Below, Empty
<1>2. Subtree(leaves)[i][b] = Subtree(Empty)[i][b]
    <2> DEFINE none == Empty
    <2>1. Alike(leaves, none, i, b)
        BY <1>1 DEF Alike
    <2> HIDE DEF none
    <2>2. Subtree(leaves)[i][b] = Subtree(none)[i][b]
        BY <2>1, NodeLocal
    <2> QED BY <2>2 DEF none
<1> QED BY <1>2, ZerosStep
----------------------------------------------------------------------------
(* Insertion. *)

\* All of the leaves, empty beyond what was inserted.
Padded(leaves) == [p \in Nat |-> IF p < Len(leaves) THEN leaves[p + 1] ELSE Zero]

\* What is kept for a left sibling on the way up from the next position is the
\* hash of the full subtree there.
FilledExact ==
    \A i \in 0..Levels - 1 :
        FromRight(nextIndex, i) =>
            filledSubtrees[i] = Subtree(Padded(inserted))[i][Above(nextIndex)[i] - 1]

TreeInv ==
    /\ inserted \in Seq(Leaves) /\ nextIndex = Len(inserted)
    /\ nextIndex <= LeafCount
    /\ committed \in [Positions -> Leaves \cup {Zero}]
    /\ FilledExact
    /\ RootCommits

\* An insertion leaves what is to the left of it alone.
LEMMA LeftOf ==
    ASSUME LevelAssumption, NEW S, NEW leaves \in Seq(S), NEW leaf,
           NEW i \in 0..Levels, NEW b \in Nat, b < Above(Len(leaves))[i]
    PROVE  Subtree(Padded(Append(leaves, leaf)))[i][b] = Subtree(Padded(leaves))[i][b]
<1> DEFINE new == Padded(Append(leaves, leaf))
           old == Padded(leaves)
<1>1. Len(leaves) \in Nat /\ i \in Nat
    BY DEF LevelAssumption
<1>2. ASSUME NEW p \in Below(i, b) PROVE new[p] = old[p]
    <2>1. p \in Nat /\ Above(p)[i] = b
        BY DEF Below
    <2>2. p < Len(leaves)
        <3> SUFFICES ASSUME Len(leaves) <= p PROVE FALSE
            BY <1>1, <2>1
        <3>1. Above(Len(leaves))[i] <= Above(p)[i]
            BY <1>1, <2>1, AboveOrder
        <3>2. Above(Len(leaves))[i] \in Nat
            BY <1>1, AboveStep
        <3> QED BY <2>1, <3>1, <3>2
    <2>3. Append(leaves, leaf)[p + 1] = leaves[p + 1] /\ Len(Append(leaves, leaf)) = Len(leaves) + 1
        BY <1>1, <2>1, <2>2
    <2> QED BY <1>1, <2>1, <2>2, <2>3 DEF Padded
<1> HIDE DEF new, old
<1>3. Alike(new, old, i, b)
    BY <1>2 DEF Alike
<1>4. Subtree(new)[i][b] = Subtree(old)[i][b]
    BY <1>3, NodeLocal
<1> QED BY <1>4 DEF new, old

\* The hashes that insert computes are those of the nodes above the new leaf.
LEMMA PathExactly ==
    ASSUME LevelAssumption, TreeInv, NEW leaf \in Leaves, NEW i \in 0..Levels
    PROVE  InsertPath(leaf)[i] = Subtree(Padded(Append(inserted, leaf)))[i][Above(nextIndex)[i]]
<1> DEFINE new == Padded(Append(inserted, leaf))
           Node(j) == Subtree(new)[j][Above(nextIndex)[j]]
           left == [j \in 1..Levels |-> ~FromRight(nextIndex, j - 1)]
           sibling == [j \in 1..Levels |-> IF FromRight(nextIndex, j - 1) THEN filledSubtrees[j - 1]
                                                                          ELSE zeros[j - 1]]
           path == InsertPath(leaf)
           Holds == {j \in Nat : j <= Levels => path[j] = Node(j)}
<1>1. Climbs(path, Levels, leaf, left, sibling)
    BY InsertClimbs
<1>2. /\ nextIndex \in Nat /\ inserted \in Seq(Leaves) /\ nextIndex = Len(inserted)
      /\ Levels \in Nat
    BY DEF TreeInv, LevelAssumption
<1>3. Append(inserted, leaf)[nextIndex + 1] = leaf /\ Len(Append(inserted, leaf)) = nextIndex + 1
    BY <1>2
<1>4. new[nextIndex] = leaf /\ \A p \in Nat : p > nextIndex => new[p] = Zero
    BY <1>2, <1>3 DEF Padded
<1> HIDE DEF path, left, sibling
<1>5. 0 \in Holds
    <2>1. Above(nextIndex)[0] = nextIndex
        BY <1>2, AboveStep
    <2>2. Subtree(new)[0][nextIndex] = new[nextIndex]
        <3> HIDE DEF new
        <3> QED BY <1>2, SubtreeStep
    <2>3. path[0] = leaf
        BY <1>1 DEF Climbs
    <2> HIDE DEF new
    <2> QED BY <1>4, <2>1, <2>2, <2>3
<1>6. ASSUME NEW j \in Nat, j \in Holds PROVE j + 1 \in Holds
    <2> SUFFICES ASSUME j + 1 <= Levels PROVE path[j + 1] = Node(j + 1)
        OBVIOUS
    <2> DEFINE parent == Above(nextIndex)[j + 1]
    <2>1. /\ j <= Levels /\ j \in 0..Levels - 1 /\ j \in 0..Levels /\ j < Levels
          /\ j + 1 \in 1..Levels /\ (j + 1) - 1 = j
        BY <1>2
    <2>2. path[j] = Node(j)
        BY <1>6, <2>1
    <2>3. /\ Above(nextIndex)[j] \in Nat /\ parent \in Nat
          /\ FromRight(nextIndex, j) => Above(nextIndex)[j] = 2 * parent + 1
          /\ ~FromRight(nextIndex, j) => Above(nextIndex)[j] = 2 * parent
        BY <1>2, Children
    <2>4. Node(j + 1) = hashLeftRight(Subtree(new)[j][2 * parent], Subtree(new)[j][2 * parent + 1])
        <3> HIDE DEF new
        <3> QED BY <2>1, <2>3, SubtreeStep
    <2>5. CASE FromRight(nextIndex, j)
        <3>1. path[j + 1] = hashLeftRight(filledSubtrees[j], path[j])
            <4>1. ~left[j + 1] /\ sibling[j + 1] = filledSubtrees[j]
                BY <2>1, <2>5 DEF left, sibling
            <4> QED BY <1>1, <2>1, <4>1 DEF Climbs
        <3>2. Above(nextIndex)[j] - 1 = 2 * parent /\ 2 * parent \in Nat /\ 2 * parent < Above(nextIndex)[j]
            <4> HIDE DEF parent
            <4> QED BY <2>3, <2>5
        <3>3. filledSubtrees[j] = Subtree(Padded(inserted))[j][2 * parent]
            BY <2>1, <2>5, <3>2 DEF TreeInv, FilledExact
        <3>4. Subtree(new)[j][2 * parent] = Subtree(Padded(inserted))[j][2 * parent]
            <4> HIDE DEF parent
            <4> QED BY <1>2, <2>1, <3>2, LeftOf
        <3> HIDE DEF new, parent
        <3> QED BY <2>2, <2>3, <2>4, <2>5, <3>1, <3>3, <3>4
    <2>6. CASE ~FromRight(nextIndex, j)
        <3>1. path[j + 1] = hashLeftRight(path[j], zeros[j])
            <4>1. left[j + 1] /\ sibling[j + 1] = zeros[j]
                BY <2>1, <2>6 DEF left, sibling
            <4> QED BY <1>1, <2>1, <4>1 DEF Climbs
        <3>2. ASSUME NEW p \in Below(j, 2 * parent + 1) PROVE new[p] = Zero
            <4>1. p \in Nat /\ Above(p)[j] = Above(nextIndex)[j] + 1
                <5> HIDE DEF parent
                <5> QED BY <2>3, <2>6 DEF Below
            <4>2. ~(p <= nextIndex)
                <5>1. p <= nextIndex => Above(p)[j] <= Above(nextIndex)[j]
                    BY <1>2, <4>1, AboveOrder
                <5> HIDE DEF parent
                <5> QED BY <2>3, <4>1, <5>1
            <4> HIDE DEF new
            <4> QED BY <1>2, <1>4, <4>1, <4>2
        <3>3. Subtree(new)[j][2 * parent + 1] = zeros[j]
            <4>1. 2 * parent + 1 \in Nat
                <5> HIDE DEF parent
                <5> QED BY <2>3
            <4> HIDE DEF new, parent
            <4> QED BY <2>1, <3>2, <4>1, EmptyNode
        <3> HIDE DEF new, parent
        <3> QED BY <2>2, <2>3, <2>4, <2>6, <3>1, <3>3
    <2> QED BY <2>5, <2>6
<1>7. Nat \subseteq Holds
    <2>1. \A j \in Nat : j \in Holds => j + 1 \in Holds
        BY <1>6
    <2> HIDE DEF Holds
    <2> QED BY <1>5, <2>1, Induction
<1>8. i \in Nat /\ i <= Levels
    BY <1>2
<1> QED BY <1>7, <1>8 DEF path

\* The positions of the tree are those below its nodes.
LEMMA InTree ==
    ASSUME LevelAssumption, NEW p \in Nat, NEW i \in 0..Levels
    PROVE  p \in Positions <=> Above(p)[i] < Span[Levels - i]
<1>1. Levels \in Nat /\ Span[Levels] \in Nat
    BY SpanStep DEF LevelAssumption
<1>2. p \in Positions <=> p < Span[Levels]
    BY <1>1 DEF Positions, LeafCount
<1> QED BY <1>1, <1>2, AboveBound

\* Above a position of the tree is its root.
LEMMA RootAbove ==
    ASSUME LevelAssumption
    PROVE  /\ Levels \in 0..Levels /\ 0 \in 0..Levels
           /\ \A p \in Nat : p \in Positions <=> Above(p)[Levels] = 0
           /\ Below(Levels, 0) = Positions
<1>1. Levels \in 0..Levels /\ 0 \in 0..Levels /\ Levels \in Nat /\ Levels - Levels = 0
    BY DEF LevelAssumption
<1>2. Span[0] = 1
    BY SpanStep
<1>3. ASSUME NEW p \in Nat PROVE p \in Positions <=> Above(p)[Levels] = 0
    <2>1. Above(p)[Levels] \in Nat
        BY <1>1, AboveStep
    <2>2. p \in Positions <=> Above(p)[Levels] < Span[Levels - Levels]
        BY <1>1, InTree
    <2> QED BY <1>1, <1>2, <2>1, <2>2
<1>4. Positions \subseteq Nat
    BY <1>1, SpanStep DEF Positions, LeafCount
<1> QED BY <1>1, <1>3, <1>4 DEF Below

\* The root depends on the positions of the tree alone.
LEMMA SameRoot ==
    ASSUME LevelAssumption, NEW x, NEW y, \A p \in Positions : x[p] = y[p]
    PROVE  Subtree(x)[Levels][0] = Subtree(y)[Levels][0]
<1>1. Alike(x, y, Levels, 0)
    BY RootAbove DEF Alike
<1> DEFINE height == Levels
<1>2. height \in 0..Levels /\ 0 \in Nat
    BY RootAbove
<1>3. Alike(x, y, height, 0)
    BY <1>1
<1> HIDE DEF height
<1>4. Subtree(x)[height][0] = Subtree(y)[height][0]
    BY <1>2, <1>3, NodeLocal
<1> QED BY <1>4 DEF height

\* After an insertion the stored left siblings are those of the next position.
LEMMA FilledStep ==
    ASSUME LevelAssumption, TreeInv, NEW leaf \in Leaves, insert(leaf)
    PROVE  FilledExact'
<1> DEFINE new == Padded(Append(inserted, leaf))
           path == InsertPath(leaf)
<1>1. /\ inserted' = Append(inserted, leaf) /\ nextIndex' = nextIndex + 1
      /\ filledSubtrees' = [i \in 0..Levels - 1 |->
            IF FromRight(nextIndex, i) THEN filledSubtrees[i] ELSE path[i]]
    BY DEF insert
<1>2. nextIndex \in Nat /\ inserted \in Seq(Leaves) /\ nextIndex = Len(inserted) /\ Levels \in Nat
    BY DEF TreeInv, LevelAssumption
<1>3. ASSUME NEW i \in 0..Levels - 1, FromRight(nextIndex + 1, i)
      PROVE  filledSubtrees'[i] = Subtree(new)[i][Above(nextIndex + 1)[i] - 1]
    <2>1. i \in Nat /\ i \in 0..Levels /\ nextIndex + 1 \in Nat
        BY <1>2
    <2> DEFINE b == Above(nextIndex)[i]
               c == Above(nextIndex + 1)[i]
    <2>2. b \in Nat /\ c \in Nat /\ (c = b \/ c = b + 1)
        BY <1>2, <2>1, AboveStep, AboveNext
    <2>3. c % 2 = 1 /\ (FromRight(nextIndex, i) <=> b % 2 = 1)
        BY <1>3 DEF FromRight
    <2> HIDE DEF b, c
    <2>4. CASE FromRight(nextIndex, i)
        <3>1. c = b /\ b - 1 \in Nat /\ b - 1 < b
            BY <2>2, <2>3, <2>4
        <3>2. filledSubtrees[i] = Subtree(Padded(inserted))[i][b - 1]
            BY <2>4 DEF TreeInv, FilledExact, b
        <3>3. Subtree(new)[i][b - 1] = Subtree(Padded(inserted))[i][b - 1]
            BY <1>2, <2>1, <3>1, LeftOf DEF b
        <3>4. filledSubtrees'[i] = filledSubtrees[i]
            BY <1>1, <2>4
        <3> HIDE DEF new
        <3> QED BY <3>1, <3>2, <3>3, <3>4 DEF c
    <2>5. CASE ~FromRight(nextIndex, i)
        <3>1. c - 1 = b
            BY <2>2, <2>3, <2>5
        <3>2. filledSubtrees'[i] = path[i]
            BY <1>1, <2>5
        <3>3. path[i] = Subtree(new)[i][b]
            BY <2>1, PathExactly DEF b
        <3> HIDE DEF new, path
        <3> QED BY <3>1, <3>2, <3>3 DEF c
    <2> QED BY <2>4, <2>5
<1> HIDE DEF path
<1> QED BY <1>1, <1>3 DEF FilledExact

\* After an insertion the root is the hash of all leaves.
LEMMA InsertStep ==
    ASSUME LevelAssumption, TreeInv, NEW leaf \in Leaves, insert(leaf)
    PROVE  TreeInv'
<1> DEFINE new == Padded(Append(inserted, leaf))
<1>1. /\ inserted' = Append(inserted, leaf) /\ nextIndex' = nextIndex + 1
      /\ nextIndex # LeafCount /\ root' = InsertPath(leaf)[Levels]
      /\ committed' = [p \in Positions |->
            IF p < Len(inserted') THEN inserted'[p + 1] ELSE Zero]
    BY DEF insert
<1>2. /\ nextIndex \in Nat /\ inserted \in Seq(Leaves) /\ nextIndex = Len(inserted)
      /\ Levels \in Nat /\ nextIndex <= LeafCount
    BY DEF TreeInv, LevelAssumption
<1>3. LeafCount \in Nat /\ nextIndex \in Positions /\ Positions \subseteq Nat
    <2>1. LeafCount \in Nat
        BY <1>2, SpanStep DEF LeafCount
    <2> QED BY <1>1, <1>2, <2>1 DEF Positions
<1>4. inserted' \in Seq(Leaves) /\ nextIndex' = Len(inserted') /\ nextIndex' <= LeafCount
    BY <1>1, <1>2, <1>3
<1>5. committed' \in [Positions -> Leaves \cup {Zero}]
    <2>1. \A p \in Positions : p < Len(inserted') => inserted'[p + 1] \in Leaves
        BY <1>3, <1>4
    <2> QED BY <1>1, <2>1
<1>6. \A p \in Positions : committed'[p] = new[p]
    BY <1>1, <1>3 DEF Padded
<1>7. root' = Subtree(committed')[Levels][0]
    <2>1. InsertPath(leaf)[Levels] = Subtree(new)[Levels][Above(nextIndex)[Levels]]
        BY RootAbove, PathExactly
    <2>2. Above(nextIndex)[Levels] = 0
        BY <1>2, <1>3, RootAbove
    <2> HIDE DEF new
    <2>3. Subtree(committed')[Levels][0] = Subtree(new)[Levels][0]
        BY <1>6, SameRoot
    <2> QED BY <1>1, <2>1, <2>2, <2>3
<1>8. RootCommits'
    BY <1>7 DEF RootCommits, TreeRoot
<1> QED BY <1>4, <1>5, <1>8, FilledStep DEF TreeInv
----------------------------------------------------------------------------
(* Paths from the bottom up and from the root down. *)

\* The heights at which a path comes from the left.
Lefts(helper) == [i \in 1..Levels |-> OnLeft(helper, i)]

\* What computeRootFromPath computes on its way up.
LEMMA RootClimbs ==
    ASSUME LevelAssumption, NEW leaf, NEW siblings, Len(siblings) = Levels, NEW helper
    PROVE  \E h : /\ Climbs(h, Levels, leaf, Lefts(helper), siblings)
                  /\ computeRootFromPath(leaf, siblings, helper) = h[Levels]
<1> DEFINE left == Lefts(helper)
           Rule(h) == [i \in 0..Len(siblings) |->
                            IF i = 0 THEN leaf
                            ELSE IF OnLeft(helper, i)
                                 THEN hashLeftRight(h[i - 1], siblings[i])
                                 ELSE hashLeftRight(siblings[i], h[i - 1])]
           path == CHOOSE h : h = Rule(h)
<1>1. Levels \in Nat
    BY DEF LevelAssumption
<1>2. ASSUME NEW h PROVE Rule(h) = [i \in 0..Levels |->
                                        IF i = 0 THEN leaf
                                        ELSE IF left[i] THEN hashLeftRight(h[i - 1], siblings[i])
                                                        ELSE hashLeftRight(siblings[i], h[i - 1])]
    <2>1. \A i \in 0..Levels : i # 0 => i \in 1..Levels
        BY <1>1
    <2>2. \A i \in 1..Levels : left[i] = OnLeft(helper, i)
        BY DEF Lefts
    <2> HIDE DEF left
    <2> QED BY <2>1, <2>2
<1> HIDE DEF left
<1>3. PICK h : Climbs(h, Levels, leaf, left, siblings)
    BY <1>1, ClimbExists
<1>4. h = Rule(h)
    <2> HIDE DEF Rule
    <2> QED BY <1>1, <1>2, <1>3, ClimbEquation
<1>5. path = Rule(path)
    <2> HIDE DEF Rule
    <2> QED BY <1>4
<1>6. Climbs(path, Levels, leaf, left, siblings)
    <2> HIDE DEF path, Rule
    <2> QED BY <1>1, <1>2, <1>5, ClimbEquation
<1>7. computeRootFromPath(leaf, siblings, helper) = path[Levels]
    BY DEF computeRootFromPath
<1> HIDE DEF path
<1> QED BY <1>6, <1>7 DEF left

\* The path of a position goes the way that the helper bits say.
Spells(helper, p) == \A i \in 1..Levels : helper[i] = HelperOf(p)[i]

\* One step up the path of p.
LEMMA PathStep ==
    ASSUME LevelAssumption, NEW p \in Nat, NEW helper, Spells(helper, p),
           NEW h, NEW leaf, NEW siblings, NEW i \in 0..Levels - 1,
           Climbs(h, Levels, leaf, Lefts(helper), siblings)
    PROVE  h[i + 1] = IF FromRight(p, i) THEN hashLeftRight(siblings[i + 1], h[i])
                                         ELSE hashLeftRight(h[i], siblings[i + 1])
<1>1. i \in Nat /\ i < Levels /\ i + 1 \in 1..Levels /\ (i + 1) - 1 = i
    BY DEF LevelAssumption
<1>2. helper[i + 1] = IF FromRight(p, i) THEN 0 ELSE 1
    BY <1>1 DEF Spells, HelperOf
<1>3. Lefts(helper)[i + 1] = ~FromRight(p, i)
    BY <1>1, <1>2 DEF OnLeft, Lefts
<1> QED BY <1>1, <1>3 DEF Climbs

\* The sibling on the path of p, and the parent of both.
LEMMA SiblingStep ==
    ASSUME LevelAssumption, NEW p \in Positions, NEW i \in 0..Levels - 1
    PROVE  /\ Sibling(Above(p)[i]) \in Nat
           /\ Sibling(Above(p)[i]) = 2 * Above(p)[i + 1] + (IF FromRight(p, i) THEN 0 ELSE 1)
           /\ \A q \in Below(i, Sibling(Above(p)[i])) : q \in Positions /\ q # p
<1>1. i \in Nat /\ i + 1 \in 0..Levels /\ p \in Nat
    BY RootAbove DEF LevelAssumption, Below
<1>2. /\ Above(p)[i] \in Nat /\ Above(p)[i + 1] \in Nat
      /\ FromRight(p, i) => Above(p)[i] = 2 * Above(p)[i + 1] + 1
      /\ ~FromRight(p, i) => Above(p)[i] = 2 * Above(p)[i + 1]
    BY <1>1, Children
<1> DEFINE b == Above(p)[i]
           c == Above(p)[i + 1]
<1>3. /\ Sibling(b) \in Nat
      /\ Sibling(b) = 2 * c + (IF FromRight(p, i) THEN 0 ELSE 1) /\ Sibling(b) # b
      /\ Sibling(b) = 2 * c \/ Sibling(b) = 2 * c + 1
    <2>1. FromRight(p, i) <=> b % 2 = 1
        BY DEF FromRight
    <2> HIDE DEF b, c
    <2>2. b \in Nat /\ c \in Nat /\ (FromRight(p, i) => b = 2 * c + 1) /\ (~FromRight(p, i) => b = 2 * c)
        BY <1>2 DEF b, c
    <2> QED BY <2>1, <2>2 DEF Sibling
<1>4. ASSUME NEW q \in Below(i, Sibling(b)) PROVE q \in Positions /\ q # p
    <2>1. q \in Nat /\ Above(q)[i] = Sibling(b)
        BY DEF Below
    <2>2. q \in Below(i + 1, c)
        <3>1. q \in Below(i, 2 * c) \cup Below(i, 2 * c + 1)
            <4> HIDE DEF b, c
            <4> QED BY <1>3, <2>1 DEF Below
        <3> QED BY <1>1, <1>2, <3>1, BelowChildren
    <2>3. Above(q)[i + 1] = Above(p)[i + 1]
        BY <2>2 DEF Below
    <2>4. q \in Positions
        BY <1>1, <2>1, <2>3, InTree
    <2> HIDE DEF c
    <2> QED BY <1>3, <2>1, <2>4
<1> HIDE DEF b, c
<1> QED BY <1>3, <1>4 DEF b, c

\* A change of the leaf at p leaves its siblings alone.
LEMMA SiblingSame ==
    ASSUME LevelAssumption, NEW p \in Positions, NEW i \in 0..Levels - 1,
           NEW old, NEW new, \A q \in Positions : q # p => new[q] = old[q]
    PROVE  Subtree(old)[i][Sibling(Above(p)[i])] = Subtree(new)[i][Sibling(Above(p)[i])]
<1> DEFINE s == Sibling(Above(p)[i])
<1>1. s \in Nat /\ \A q \in Below(i, s) : q \in Positions /\ q # p
    BY SiblingStep
<1>2. i \in 0..Levels
    BY DEF LevelAssumption
<1> HIDE DEF s
<1>3. Alike(old, new, i, s)
    BY <1>1 DEF Alike
<1>4. Subtree(old)[i][s] = Subtree(new)[i][s]
    BY <1>1, <1>2, <1>3, NodeLocal
<1> QED BY <1>4 DEF s

\* The siblings of a position lead from any leaf to the root of the tree with
\* that leaf there.
LEMMA PathUp ==
    ASSUME LevelAssumption, NEW p \in Positions, NEW helper, Spells(helper, p),
           NEW old, NEW new, \A q \in Positions : q # p => new[q] = old[q]
    PROVE  computeRootFromPath(new[p], SiblingsOf(old, p), helper) = TreeRoot(new)
<1> DEFINE siblings == SiblingsOf(old, p)
           leaf == new[p]
<1>1. Levels \in Nat /\ p \in Nat
    BY RootAbove DEF LevelAssumption, Below
<1>2. Len(siblings) = Levels
    BY <1>1 DEF SiblingsOf
<1> HIDE DEF siblings, leaf
<1>3. PICK h : /\ Climbs(h, Levels, leaf, Lefts(helper), siblings)
               /\ computeRootFromPath(leaf, siblings, helper) = h[Levels]
    BY <1>2, RootClimbs
<1> DEFINE Node(j) == Subtree(new)[j][Above(p)[j]]
           Holds == {j \in Nat : j <= Levels => h[j] = Node(j)}
<1>4. 0 \in Holds
    <2>1. Above(p)[0] = p /\ h[0] = new[p]
        BY <1>1, <1>3, AboveStep DEF Climbs, leaf
    <2>2. Subtree(new)[0][p] = new[p]
        BY <1>1, SubtreeStep
    <2> QED BY <2>1, <2>2
<1>5. ASSUME NEW j \in Nat, j \in Holds PROVE j + 1 \in Holds
    <2> SUFFICES ASSUME j + 1 <= Levels PROVE h[j + 1] = Node(j + 1)
        OBVIOUS
    <2> DEFINE c == Above(p)[j + 1]
               s == Sibling(Above(p)[j])
    <2>1. /\ j <= Levels /\ j \in 0..Levels - 1 /\ j \in 0..Levels
          /\ j + 1 \in 1..Levels /\ (j + 1) - 1 = j
        BY <1>1
    <2>2. h[j] = Node(j)
        BY <1>5, <2>1
    <2>3. /\ c \in Nat
          /\ FromRight(p, j) => Above(p)[j] = 2 * c + 1
          /\ ~FromRight(p, j) => Above(p)[j] = 2 * c
        BY <1>1, Children
    <2>4. Node(j + 1) = hashLeftRight(Subtree(new)[j][2 * c], Subtree(new)[j][2 * c + 1])
        BY <2>1, <2>3, SubtreeStep
    <2>5. siblings[j + 1] = Subtree(old)[j][s]
        BY <2>1 DEF siblings, SiblingsOf
    <2>6. /\ s \in Nat /\ s = 2 * c + (IF FromRight(p, j) THEN 0 ELSE 1)
          /\ \A q \in Below(j, s) : q \in Positions /\ q # p
        BY <2>1, SiblingStep
    <2> HIDE DEF s, c
    <2>7. Subtree(old)[j][s] = Subtree(new)[j][s]
        BY <2>1, SiblingSame DEF s
    <2>8. h[j + 1] = IF FromRight(p, j) THEN hashLeftRight(siblings[j + 1], h[j])
                                        ELSE hashLeftRight(h[j], siblings[j + 1])
        <3>1. Climbs(h, Levels, leaf, Lefts(helper), siblings)
            BY <1>3
        <3>2. p \in Nat /\ j \in 0..Levels - 1
            BY <1>1, <2>1
        <3> QED BY <3>1, <3>2, PathStep
    <2>9. CASE FromRight(p, j)
        <3>1. s = 2 * c
            BY <2>3, <2>6, <2>9
        <3> QED BY <2>2, <2>3, <2>4, <2>5, <2>7, <2>8, <2>9, <3>1
    <2>10. CASE ~FromRight(p, j)
        <3>1. s = 2 * c + 1
            BY <2>3, <2>6, <2>10
        <3> QED BY <2>2, <2>3, <2>4, <2>5, <2>7, <2>8, <2>10, <3>1
    <2> QED BY <2>9, <2>10
<1>6. Nat \subseteq Holds
    <2>1. \A j \in Nat : j \in Holds => j + 1 \in Holds
        BY <1>5
    <2> HIDE DEF Holds
    <2> QED BY <1>4, <2>1, Induction
<1>7. h[Levels] = Node(Levels)
    BY <1>1, <1>6
<1>8. Above(p)[Levels] = 0
    BY <1>1, RootAbove
<1> QED BY <1>3, <1>7, <1>8 DEF TreeRoot, siblings, leaf

\* A path that leads to the root starts with the leaf at its position: equal
\* hashes have equal preimages all the way down.
LEMMA PathDown ==
    ASSUME LevelAssumption, NEW p \in Positions, NEW helper, Spells(helper, p),
           NEW leaves, NEW leaf, NEW siblings, NEW h,
           Climbs(h, Levels, leaf, Lefts(helper), siblings), h[Levels] = TreeRoot(leaves)
    PROVE  leaf = leaves[p]
<1>1. Levels \in Nat /\ p \in Nat
    BY RootAbove DEF LevelAssumption, Below
<1> DEFINE Node(j) == Subtree(leaves)[j][Above(p)[j]]
           Holds == {k \in Nat : k <= Levels => h[Levels - k] = Node(Levels - k)}
<1>2. 0 \in Holds
    <2>1. Levels - 0 = Levels /\ Above(p)[Levels] = 0
        BY <1>1, RootAbove
    <2> QED BY <2>1 DEF TreeRoot
<1>3. ASSUME NEW k \in Nat, k \in Holds PROVE k + 1 \in Holds
    <2> SUFFICES ASSUME k + 1 <= Levels PROVE h[Levels - (k + 1)] = Node(Levels - (k + 1))
        OBVIOUS
    <2>1. PICK j \in Nat : /\ j = Levels - (k + 1) /\ j + 1 = Levels - k
                          /\ j \in 0..Levels - 1 /\ k <= Levels
        BY <1>1
    <2>0. j \in 0..Levels - 1
        BY <2>1
    <2> DEFINE c == Above(p)[j + 1]
    <2>2. h[j + 1] = Node(j + 1)
        BY <1>3, <2>1
    <2>3. /\ c \in Nat
          /\ FromRight(p, j) => Above(p)[j] = 2 * c + 1
          /\ ~FromRight(p, j) => Above(p)[j] = 2 * c
        BY <1>1, <2>1, Children
    <2>4. Node(j + 1) = hashLeftRight(Subtree(leaves)[j][2 * c], Subtree(leaves)[j][2 * c + 1])
        BY <2>0, <2>3, SubtreeStep
    <2>5. h[j + 1] = IF FromRight(p, j) THEN hashLeftRight(siblings[j + 1], h[j])
                                        ELSE hashLeftRight(h[j], siblings[j + 1])
        BY <1>1, <2>0, PathStep
    <2>6. \A x1, x2, y1, y2 : hashLeftRight(x1, y1) = hashLeftRight(x2, y2) => x1 = x2 /\ y1 = y2
        BY DEF hashLeftRight
    <2> HIDE DEF c
    <2>7. h[j] = Node(j)
        BY <2>2, <2>3, <2>4, <2>5, <2>6
    <2> QED BY <2>1, <2>7
<1>4. Nat \subseteq Holds
    <2>1. \A k \in Nat : k \in Holds => k + 1 \in Holds
        BY <1>3
    <2> HIDE DEF Holds
    <2> QED BY <1>2, <2>1, Induction
<1>5. h[0] = Node(0)
    <2>1. Levels - Levels = 0 /\ Levels <= Levels
        BY <1>1
    <2>2. h[Levels - Levels] = Node(Levels - Levels)
        BY <1>1, <1>4, <2>1
    <2> QED BY <2>1, <2>2
<1>6. h[0] = leaf /\ Above(p)[0] = p
    BY <1>1, AboveStep DEF Climbs
<1>7. Subtree(leaves)[0][p] = leaves[p]
    BY <1>1, SubtreeStep
<1> QED BY <1>5, <1>6, <1>7
----------------------------------------------------------------------------
(* The invariant. *)

LEMMA InitTree ==
    ASSUME LevelAssumption, Init
    PROVE  TreeInv
<1>1. LeafCount \in Nat
    BY SpanStep DEF LeafCount, LevelAssumption
<1>2. nextIndex = 0 /\ inserted = <<>> /\ committed = [p \in Positions |-> Zero]
    BY DEF Init
<1>3. ASSUME NEW i \in 0..Levels - 1 PROVE ~FromRight(0, i)
    <2>1. i \in Nat /\ i \in 0..i /\ 0 \in Nat /\ i - i = 0
        BY DEF LevelAssumption
    <2>2. Above(0)[i] \in Nat /\ Span[i] \in Nat /\ Span[i] # 0 /\ Span[0] = 1
        BY <2>1, AboveStep, SpanStep
    <2>3. 0 < Span[i] <=> Above(0)[i] < Span[i - i]
        BY <2>1, AboveBound
    <2>4. Above(0)[i] = 0
        BY <2>1, <2>2, <2>3
    <2> QED BY <2>4 DEF FromRight
<1> QED BY <1>1, <1>2, <1>3 DEF TreeInv, FilledExact, RootCommits

\* One leaf changes, and the root with it.
LEMMA ChangeStep ==
    ASSUME LevelAssumption, TreeInv, NEW position \in Positions, NEW leaf \in Leaves,
           update(position, leaf) \/ setRoot(position, leaf)
    PROVE  TreeInv'
<1>1. /\ committed' = [committed EXCEPT ![position] = leaf]
      /\ UNCHANGED <<nextIndex, filledSubtrees, inserted>>
    BY DEF update, setRoot
<1>2. committed \in [Positions -> Leaves \cup {Zero}]
    BY DEF TreeInv
<1>3. committed' \in [Positions -> Leaves \cup {Zero}]
    BY <1>1, <1>2
<1>4. root' = TreeRoot(committed')
    <2>1. CASE update(position, leaf)
        <3> DEFINE new == committed'
                   helper == HelperOf(position)
        <3>1. Spells(helper, position)
            BY DEF Spells
        <3>2. \A q \in Positions : q # position => new[q] = committed[q]
            BY <1>1, <1>2
        <3>3. new[position] = leaf
            BY <1>1, <1>2
        <3>4. root' = computeRootFromPath(leaf, SiblingsOf(committed, position), helper)
            BY <2>1 DEF update
        <3> HIDE DEF new, helper
        <3>5. computeRootFromPath(new[position], SiblingsOf(committed, position), helper) = TreeRoot(new)
            BY <3>1, <3>2, PathUp
        <3> QED BY <3>3, <3>4, <3>5 DEF new
    <2>2. CASE setRoot(position, leaf)
        BY <1>1, <2>2 DEF setRoot
    <2> QED BY <2>1, <2>2
<1>5. FilledExact'
    BY <1>1 DEF TreeInv, FilledExact
<1> QED BY <1>1, <1>3, <1>4, <1>5 DEF TreeInv, RootCommits

LEMMA NextTree ==
    ASSUME LevelAssumption, TreeInv, [Next]_vars
    PROVE  TreeInv'
<1>1. CASE UNCHANGED vars
    BY <1>1 DEF vars, TreeInv, FilledExact, RootCommits
<1> QED BY <1>1, InsertStep, ChangeStep DEF Next

\* The left siblings kept are exact and the root is the hash of the leaves.
THEOREM TreeInvariant == LevelAssumption /\ Spec => []TreeInv
<1>1. LevelAssumption /\ Init => TreeInv
    BY InitTree
<1>2. LevelAssumption /\ TreeInv /\ [Next]_vars => TreeInv'
    BY NextTree
<1>3. CASE LevelAssumption
    BY <1>1, <1>2, <1>3, PTL DEF Spec
<1> QED BY <1>3

\* The stored root stands for the vector of leaves that the contract's model
\* takes it to stand for.
THEOREM RootStands == LevelAssumption /\ Spec => []RootCommits
<1>1. TreeInv => RootCommits
    BY DEF TreeInv
<1> QED BY <1>1, TreeInvariant, PTL
----------------------------------------------------------------------------
(* Verification. *)

\* Whatever the helper bits are, they spell a position.
LEMMA EveryPath ==
    ASSUME LevelAssumption, NEW helper \in [1..Levels -> {0, 1}]
    PROVE  \E p \in Positions : Spells(helper, p)
<1> DEFINE Bit(b, j) == IF FromRight(b, j) THEN 0 ELSE 1
           Fits(b, k) == b < Span[k] /\ \A j \in Nat : j < k => helper[(Levels - k) + j + 1] = Bit(b, j)
           Holds == {k \in Nat : k <= Levels => \E b \in Nat : Fits(b, k)}
<1>1. Levels \in Nat /\ Positions \subseteq Nat /\ Span[Levels] \in Nat
    <2>1. Levels \in Nat
        BY DEF LevelAssumption
    <2>2. Positions \subseteq Nat
        BY RootAbove DEF Below
    <2> QED BY <2>1, <2>2, SpanStep
<1>2. 0 \in Holds
    <2>1. Fits(0, 0)
        BY SpanStep
    <2> HIDE DEF Fits
    <2> QED BY <2>1
<1>3. ASSUME NEW k \in Nat, k \in Holds PROVE k + 1 \in Holds
    <2> SUFFICES ASSUME k + 1 <= Levels PROVE \E b \in Nat : Fits(b, k + 1)
        OBVIOUS
    <2>1. PICK b \in Nat : Fits(b, k)
        BY <1>3, <1>1
    <2>2. Levels - k \in 1..Levels /\ helper[Levels - k] \in {0, 1}
        <3>1. Levels - k \in 1..Levels
            BY <1>1
        <3> QED BY <3>1
    <2> DEFINE q == 2 * b + (1 - helper[Levels - k])
    <2>3. q \in Nat /\ q \div 2 = b /\ (q % 2 = 1 <=> helper[Levels - k] = 0) /\ (q = 2 * b \/ q = 2 * b + 1)
        <3>1. CASE helper[Levels - k] = 0
            BY <3>1
        <3>2. CASE helper[Levels - k] = 1
            BY <3>2
        <3> QED BY <2>2, <3>1, <3>2
    <2> HIDE DEF q
    <2>4. q < Span[k + 1]
        <3>1. Span[k] \in Nat /\ Span[k + 1] = 2 * Span[k] /\ b < Span[k]
            BY <2>1, SpanStep
        <3> QED BY <2>3, <3>1
    <2>5. ASSUME NEW j \in Nat, j < k + 1
          PROVE  helper[(Levels - (k + 1)) + j + 1] = Bit(q, j)
        <3>1. CASE j = 0
            <4>1. Above(q)[0] = q
                BY <2>3, AboveStep
            <4>2. (Levels - (k + 1)) + 0 + 1 = Levels - k
                BY <1>1
            <4>3. Bit(q, 0) = helper[Levels - k]
                BY <2>2, <2>3, <4>1 DEF FromRight
            <4> QED BY <3>1, <4>2, <4>3
        <3>2. CASE j # 0
            <4>1. PICK i \in Nat : j = i + 1 /\ i < k
                <5>1. j - 1 \in Nat /\ j = (j - 1) + 1 /\ j - 1 < k
                    BY <2>5, <3>2
                <5> QED BY <5>1
            <4>2. Above(q)[i + 1] = Above(b)[i]
                BY <2>3, AboveHalf
            <4>3. Bit(q, i + 1) = Bit(b, i)
                BY <4>2 DEF FromRight
            <4>4. helper[(Levels - k) + i + 1] = Bit(b, i)
                BY <2>1, <4>1
            <4>5. (Levels - (k + 1)) + j + 1 = (Levels - k) + i + 1
                BY <1>1, <4>1
            <4> HIDE DEF Bit
            <4> QED BY <4>1, <4>3, <4>4, <4>5
        <3> QED BY <3>1, <3>2
    <2>6. Fits(q, k + 1)
        BY <2>4, <2>5
    <2> HIDE DEF Fits
    <2> QED BY <2>3, <2>6
<1>4. Nat \subseteq Holds
    <2>1. \A k \in Nat : k \in Holds => k + 1 \in Holds
        BY <1>3
    <2> HIDE DEF Holds
    <2> QED BY <1>2, <2>1, Induction
<1>5. PICK p \in Nat : Fits(p, Levels)
    BY <1>1, <1>4
<1>6. p \in Positions
    BY <1>1, <1>5 DEF Positions, LeafCount
<1>7. ASSUME NEW i \in 1..Levels PROVE helper[i] = HelperOf(p)[i]
    <2>1. i - 1 \in Nat /\ i - 1 < Levels /\ (Levels - Levels) + (i - 1) + 1 = i
        BY <1>1
    <2>2. helper[(Levels - Levels) + (i - 1) + 1] = Bit(p, i - 1)
        BY <1>5, <2>1
    <2> QED BY <2>1, <2>2 DEF HelperOf
<1> QED BY <1>6, <1>7 DEF Spells

\* A path verifies exactly for the leaf at the position its helper bits spell.
LEMMA PathsExact ==
    ASSUME LevelAssumption, TreeInv
    PROVE  VerifyExact
<1> SUFFICES ASSUME nextIndex > 0, NEW helper \in [1..Levels -> {0, 1}], NEW leaf \in Leaves
             PROVE  LET p == PositionOf(helper) IN
                    /\ committed[p] = leaf => verify(leaf, SiblingsOf(committed, p), helper)
                    /\ \A siblings \in [1..Levels -> UNION {Known(i) : i \in 0..Levels - 1}] :
                        verify(leaf, siblings, helper) => committed[p] = leaf
    BY DEF VerifyExact
<1> DEFINE p == PositionOf(helper)
<1>1. root = TreeRoot(committed)
    BY DEF TreeInv, RootCommits
<1>2. p \in Positions /\ Spells(helper, p)
    <2>1. \E q \in Positions : Spells(helper, q)
        BY EveryPath
    <2> QED BY <2>1 DEF PositionOf, Spells
<1> HIDE DEF p
<1>3. ASSUME committed[p] = leaf PROVE verify(leaf, SiblingsOf(committed, p), helper)
    <2> DEFINE leaves == committed
    <2>1. \A q \in Positions : q # p => leaves[q] = leaves[q]
        OBVIOUS
    <2> HIDE DEF leaves
    <2>2. computeRootFromPath(leaves[p], SiblingsOf(leaves, p), helper) = TreeRoot(leaves)
        BY <1>2, <2>1, PathUp
    <2> QED BY <1>1, <1>3, <2>2 DEF verify, leaves
<1>4. ASSUME NEW siblings \in [1..Levels -> UNION {Known(i) : i \in 0..Levels - 1}],
             verify(leaf, siblings, helper)
      PROVE  committed[p] = leaf
    <2>1. Len(siblings) = Levels
        <3>1. Levels \in Nat
            BY DEF LevelAssumption
        <3> DEFINE S == UNION {Known(i) : i \in 0..Levels - 1}
        <3> HIDE DEF S
        <3>2. siblings \in [1..Levels -> S]
            BY DEF S
        <3> QED BY <3>1, <3>2
    <2>2. PICK h : /\ Climbs(h, Levels, leaf, Lefts(helper), siblings)
                   /\ computeRootFromPath(leaf, siblings, helper) = h[Levels]
        BY <2>1, RootClimbs
    <2>3. h[Levels] = TreeRoot(committed)
        BY <1>1, <1>4, <2>2 DEF verify
    <2> DEFINE leaves == committed
    <2>4. h[Levels] = TreeRoot(leaves)
        BY <2>3
    <2> HIDE DEF leaves
    <2>5. leaf = leaves[p]
        BY <1>2, <2>2, <2>4, PathDown
    <2> QED BY <2>5 DEF leaves
<1> QED BY <1>3, <1>4 DEF p

\* In every state of a tree of any number of levels.
THEOREM PathsVerifyExactly == LevelAssumption /\ Spec => []VerifyExact
<1>1. LevelAssumption /\ TreeInv => VerifyExact
    BY PathsExact
<1>2. CASE LevelAssumption
    <2>1. TreeInv => VerifyExact
        BY <1>1, <1>2
    <2> QED BY <1>2, <2>1, TreeInvariant, PTL
<1> QED BY <1>2
=============================================================================
