----------------------------- MODULE DataLemmas -----------------------------
(***************************************************************************)
(* What the proofs need of recursive data.  An induction is stated over the *)
(* set of the values for which the claim holds, so that it is about a set   *)
(* and not about a predicate.  A recursive function exists because its      *)
(* approximations do.  Remainders follow from their range.                  *)
(***************************************************************************)
EXTENDS Integers, FiniteSets, Functions, FiniteSetTheorems, WellFoundedInduction, TLAPS

LEMMA Induction ==
    ASSUME NEW Holds, 0 \in Holds, \A n \in Nat : n \in Holds => n + 1 \in Holds
    PROVE  Nat \subseteq Holds
<1> DEFINE Fails == Nat \ Holds
           Less == OpToRel(<, Nat)
<1>1. \A m, n \in Nat : <<m, n>> \in Less <=> m < n
    BY DEF OpToRel
<1>2. ASSUME Fails # {} PROVE FALSE
    <2>1. IsWellFoundedOn(Less, Nat)
        BY NatLessThanWellFounded
    <2>2. Fails \subseteq Nat
        OBVIOUS
    <2> HIDE DEF Fails, Less
    <2>3. PICK n \in Fails : \A m \in Fails : ~(<<m, n>> \in Less)
        BY <1>2, <2>1, <2>2, WFMin
    <2>4. n \in Nat \ Holds /\ n # 0
        BY <2>3 DEF Fails
    <2>5. n - 1 \in Nat /\ <<n - 1, n>> \in Less
        BY <1>1, <2>4
    <2>6. n - 1 \in Holds
        BY <2>3, <2>5 DEF Fails
    <2>7. n - 1 + 1 \in Holds
        BY <2>5, <2>6
    <2> QED BY <2>4, <2>7
<1> QED BY <1>2
----------------------------------------------------------------------------
(* Sums over a finite set, as module Functions defines them. *)

\* The element that a sum takes next.
Picked(s) == CHOOSE x \in s : TRUE

\* total is what the sum of f makes of each of the sets in Parts.
Totals(total, f, Parts) ==
    \A s \in Parts : total[s] = IF s = {} THEN 0 ELSE f[Picked(s)] + total[s \ {Picked(s)}]

LEMMA TotalsOfNone ==
    ASSUME NEW S, NEW total, NEW f, Totals(total, f, SUBSET S)
    PROVE  total[{}] = 0
<1>1. {} \in SUBSET S
    OBVIOUS
<1> QED BY <1>1 DEF Totals

LEMMA PickedSmaller ==
    ASSUME NEW S, IsFiniteSet(S), NEW s \in SUBSET S, s # {}
    PROVE  /\ Picked(s) \in s /\ s \ {Picked(s)} \in SUBSET S
           /\ IsFiniteSet(s) /\ Cardinality(s) \in Nat \ {0}
           /\ Cardinality(s \ {Picked(s)}) = Cardinality(s) - 1
<1>1. Picked(s) \in s
    BY DEF Picked
<1>2. IsFiniteSet(s)
    BY FS_Subset
<1>3. Cardinality(s) \in Nat /\ Cardinality(s) # 0
    BY <1>2, FS_CardinalityType, FS_EmptySet
<1>4. Cardinality(s \ {Picked(s)}) = Cardinality(s) - 1
    BY <1>1, <1>2, FS_RemoveElement
<1> QED BY <1>1, <1>2, <1>3, <1>4

\* What holds of the empty set and passes from the rest of a set to the set
\* holds of every subset of a finite set.
LEMMA SetInduction ==
    ASSUME NEW S, IsFiniteSet(S), NEW Holds, {} \in Holds,
           \A s \in SUBSET S : s # {} /\ s \ {Picked(s)} \in Holds => s \in Holds
    PROVE  SUBSET S \subseteq Holds
<1> DEFINE Sizes == {n \in Nat : \A s \in SUBSET S : Cardinality(s) = n => s \in Holds}
<1>1. 0 \in Sizes
    <2>1. \A s \in SUBSET S : Cardinality(s) = 0 => s = {}
        BY FS_EmptySet, FS_Subset
    <2> QED BY <2>1
<1>2. ASSUME NEW n \in Nat, n \in Sizes PROVE n + 1 \in Sizes
    <2> SUFFICES ASSUME NEW s \in SUBSET S, Cardinality(s) = n + 1 PROVE s \in Holds
        OBVIOUS
    <2>1. s # {}
        BY FS_EmptySet
    <2>2. s \ {Picked(s)} \in SUBSET S /\ Cardinality(s \ {Picked(s)}) = n
        BY <2>1, PickedSmaller
    <2>3. s \ {Picked(s)} \in Holds
        BY <1>2, <2>2
    <2> QED BY <2>1, <2>3
<1>3. Nat \subseteq Sizes
    <2> HIDE DEF Sizes
    <2> QED BY <1>1, <1>2, Induction
<1>4. ASSUME NEW s \in SUBSET S PROVE s \in Holds
    <2>1. Cardinality(s) \in Nat
        BY FS_Subset, FS_CardinalityType
    <2> QED BY <1>3, <2>1
<1> QED BY <1>4

LEMMA TotalsExist ==
    ASSUME NEW S, IsFiniteSet(S), NEW f \in [S -> Int]
    PROVE  \E total \in [SUBSET S -> Int] : Totals(total, f, SUBSET S)
<1> DEFINE Small(n) == {s \in SUBSET S : Cardinality(s) <= n}
           Sizes == {n \in Nat : \E total \in [Small(n) -> Int] : Totals(total, f, Small(n))}
<1>1. 0 \in Sizes
    <2> DEFINE total == [s \in Small(0) |-> 0]
    <2>1. \A s \in Small(0) : s = {}
        BY FS_Subset, FS_CardinalityType, FS_EmptySet
    <2>2. total \in [Small(0) -> Int] /\ Totals(total, f, Small(0))
        BY <2>1 DEF Totals
    <2> QED BY <2>2
<1>2. ASSUME NEW n \in Nat, n \in Sizes PROVE n + 1 \in Sizes
    <2>1. PICK total \in [Small(n) -> Int] : Totals(total, f, Small(n))
        BY <1>2
    <2> DEFINE more == [s \in Small(n + 1) |->
                            IF s = {} THEN 0 ELSE f[Picked(s)] + total[s \ {Picked(s)}]]
    <2>2. \A s \in Small(n + 1) : s # {} => Picked(s) \in S /\ s \ {Picked(s)} \in Small(n)
        BY PickedSmaller
    <2>3. more \in [Small(n + 1) -> Int]
        BY <2>2
    <2>4. \A s \in Small(n) : s \in Small(n + 1) /\ more[s] = total[s]
        <3> SUFFICES ASSUME NEW s \in Small(n) PROVE s \in Small(n + 1) /\ more[s] = total[s]
            OBVIOUS
        <3>1. s \in Small(n + 1)
            BY FS_Subset, FS_CardinalityType
        <3> QED BY <2>1, <3>1 DEF Totals
    <2>5. Totals(more, f, Small(n + 1))
        BY <2>2, <2>4 DEF Totals
    <2>6. \E t \in [Small(n + 1) -> Int] : Totals(t, f, Small(n + 1))
        <3> HIDE DEF Small, more
        <3> QED BY <2>3, <2>5
    <2>7. n + 1 \in Nat
        OBVIOUS
    <2> HIDE DEF Small
    <2> QED BY <2>6, <2>7
<1>3. Cardinality(S) \in Sizes
    <2>1. Cardinality(S) \in Nat
        BY FS_CardinalityType
    <2>2. \A n \in Nat : n \in Sizes => n + 1 \in Sizes
        BY <1>2
    <2> HIDE DEF Sizes
    <2>3. Nat \subseteq Sizes
        BY <1>1, <2>2, Induction
    <2> QED BY <2>1, <2>3
<1>4. Small(Cardinality(S)) = SUBSET S
    BY FS_Subset
<1>5. PICK total \in [Small(Cardinality(S)) -> Int] : Totals(total, f, Small(Cardinality(S)))
    BY <1>3
<1> HIDE DEF Small
<1> QED BY <1>4, <1>5

\* The sum of f over its domain is what some total gives.
LEMMA SumTotal ==
    ASSUME NEW S, IsFiniteSet(S), NEW f \in [S -> Int]
    PROVE  \E total \in [SUBSET S -> Int] :
               Totals(total, f, SUBSET S) /\ SumFunction(f) = total[S]
<1> DEFINE Next(iter) == [s \in SUBSET DOMAIN f |->
                IF s = {} THEN 0 ELSE f[CHOOSE x \in s : TRUE] + iter[s \ {CHOOSE x \in s : TRUE}]]
           sum == CHOOSE iter : iter = Next(iter)
<1>1. SumFunction(f) = sum[DOMAIN f]
    BY Zenon DEF SumFunction, SumFunctionOnSet, FoldFunctionOnSet, MapThenFoldSet
<1>2. PICK total \in [SUBSET S -> Int] : Totals(total, f, SUBSET S)
    BY TotalsExist
<1>3. total = Next(total)
    <2>1. total = [s \in SUBSET S |-> total[s]]
        OBVIOUS
    <2>2. \A s \in SUBSET S : total[s] = IF s = {} THEN 0
                ELSE f[CHOOSE x \in s : TRUE] + total[s \ {CHOOSE x \in s : TRUE}]
        BY <1>2 DEF Totals, Picked
    <2> QED BY <2>1, <2>2
<1>4. sum = Next(sum)
    <2> HIDE DEF Next
    <2> QED BY <1>3
<1>5. Totals(sum, f, SUBSET S) /\ sum = [s \in SUBSET S |-> sum[s]]
    <2> HIDE DEF sum
    <2>1. sum = [s \in SUBSET S |-> IF s = {} THEN 0
                ELSE f[CHOOSE x \in s : TRUE] + sum[s \ {CHOOSE x \in s : TRUE}]]
        BY <1>4
    <2> QED BY <2>1 DEF Totals, Picked
<1>6. SUBSET S \subseteq {s \in SUBSET S : sum[s] \in Int}
    <2> DEFINE Holds == {s \in SUBSET S : sum[s] \in Int}
    <2>1. {} \in Holds
        <3>1. sum[{}] = 0
            <4> HIDE DEF sum
            <4> QED BY <1>5, TotalsOfNone
        <3> HIDE DEF sum
        <3> QED BY <3>1
    <2>2. ASSUME NEW s \in SUBSET S, s # {}, s \ {Picked(s)} \in Holds PROVE s \in Holds
        <3>1. sum[s] = f[Picked(s)] + sum[s \ {Picked(s)}]
            BY <1>5, <2>2 DEF Totals
        <3>2. Picked(s) \in S
            BY <2>2, PickedSmaller
        <3> QED BY <2>2, <3>1, <3>2
    <2>3. \A s \in SUBSET S : s # {} /\ s \ {Picked(s)} \in Holds => s \in Holds
        BY <2>2
    <2> HIDE DEF Holds
    <2>4. SUBSET S \subseteq Holds
        BY <2>1, <2>3, SetInduction
    <2> QED BY <2>4 DEF Holds
<1>7. sum \in [SUBSET S -> Int]
    <2> HIDE DEF sum
    <2> QED BY <1>5, <1>6
<1> HIDE DEF sum
<1> QED BY <1>1, <1>5, <1>7

LEMMA SumType ==
    ASSUME NEW S, IsFiniteSet(S), NEW f \in [S -> Int]
    PROVE  SumFunction(f) \in Int
<1>1. PICK total \in [SUBSET S -> Int] : SumFunction(f) = total[S]
    BY SumTotal
<1> QED BY <1>1

\* Sums add up term by term.
LEMMA SumAdds ==
    ASSUME NEW S, IsFiniteSet(S), NEW f \in [S -> Int], NEW g \in [S -> Int],
           NEW h \in [S -> Int], \A x \in S : h[x] = f[x] + g[x]
    PROVE  SumFunction(h) = SumFunction(f) + SumFunction(g)
<1>1. PICK tf \in [SUBSET S -> Int] : Totals(tf, f, SUBSET S) /\ SumFunction(f) = tf[S]
    BY SumTotal
<1>2. PICK tg \in [SUBSET S -> Int] : Totals(tg, g, SUBSET S) /\ SumFunction(g) = tg[S]
    BY SumTotal
<1>3. PICK th \in [SUBSET S -> Int] : Totals(th, h, SUBSET S) /\ SumFunction(h) = th[S]
    BY SumTotal
<1> DEFINE Holds == {s \in SUBSET S : th[s] = tf[s] + tg[s]}
<1>4. {} \in Holds
    <2>1. tf[{}] = 0 /\ tg[{}] = 0 /\ th[{}] = 0
        BY <1>1, <1>2, <1>3, TotalsOfNone
    <2> QED BY <2>1
<1>5. ASSUME NEW s \in SUBSET S, s # {}, s \ {Picked(s)} \in Holds PROVE s \in Holds
    <2>1. Picked(s) \in S /\ s \ {Picked(s)} \in SUBSET S
        BY <1>5, PickedSmaller
    <2>2. /\ tf[s] = f[Picked(s)] + tf[s \ {Picked(s)}]
          /\ tg[s] = g[Picked(s)] + tg[s \ {Picked(s)}]
          /\ th[s] = h[Picked(s)] + th[s \ {Picked(s)}]
        BY <1>1, <1>2, <1>3, <1>5 DEF Totals
    <2>3. th[s \ {Picked(s)}] = tf[s \ {Picked(s)}] + tg[s \ {Picked(s)}]
        BY <1>5
    <2> QED BY <2>1, <2>2, <2>3
<1>6. S \in Holds
    <2>1. \A s \in SUBSET S : s # {} /\ s \ {Picked(s)} \in Holds => s \in Holds
        BY <1>5
    <2>2. S \in SUBSET S
        OBVIOUS
    <2> HIDE DEF Holds
    <2>3. SUBSET S \subseteq Holds
        BY <1>4, <2>1, SetInduction
    <2> QED BY <2>2, <2>3
<1> QED BY <1>1, <1>2, <1>3, <1>6

\* A term that is c on T and zero elsewhere sums up to c for each element of T.
LEMMA SumConstant ==
    ASSUME NEW S, IsFiniteSet(S), NEW T \in SUBSET S, NEW c \in Int,
           NEW f \in [S -> Int], \A x \in S : f[x] = IF x \in T THEN c ELSE 0
    PROVE  SumFunction(f) = c * Cardinality(T)
<1>1. PICK total \in [SUBSET S -> Int] : Totals(total, f, SUBSET S) /\ SumFunction(f) = total[S]
    BY SumTotal
<1> DEFINE Holds == {s \in SUBSET S : total[s] = c * Cardinality(s \cap T)}
<1>2. {} \in Holds
    <2>1. {} \cap T = {} /\ Cardinality({}) = 0
        BY FS_EmptySet
    <2>2. total[{}] = 0
        BY <1>1 DEF Totals
    <2> QED BY <2>1, <2>2
<1>3. ASSUME NEW s \in SUBSET S, s # {}, s \ {Picked(s)} \in Holds PROVE s \in Holds
    <2> DEFINE rest == s \ {Picked(s)}
    <2>1. Picked(s) \in s /\ rest \in SUBSET S
        BY <1>3, PickedSmaller
    <2>2. total[s] = f[Picked(s)] + total[rest]
        BY <1>1, <1>3 DEF Totals
    <2>3. IsFiniteSet(s \cap T) /\ Cardinality(s \cap T) \in Nat
        BY FS_Subset, FS_CardinalityType
    <2>4. rest \cap T = (s \cap T) \ {Picked(s)}
        OBVIOUS
    <2>5. Cardinality(rest \cap T) = IF Picked(s) \in T THEN Cardinality(s \cap T) - 1
                                                       ELSE Cardinality(s \cap T)
        <3>1. CASE Picked(s) \in T
            <4>1. Picked(s) \in s \cap T
                BY <2>1, <3>1
            <4>2. Cardinality((s \cap T) \ {Picked(s)}) = Cardinality(s \cap T) - 1
                <5>1. ASSUME NEW part, IsFiniteSet(part), NEW x \in part
                      PROVE  Cardinality(part \ {x}) = Cardinality(part) - 1
                    BY <5>1, FS_RemoveElement
                <5> QED BY <2>3, <4>1, <5>1
            <4> QED BY <2>4, <3>1, <4>2
        <3>2. CASE Picked(s) \notin T
            <4>1. rest \cap T = s \cap T
                BY <3>2
            <4> QED BY <3>2, <4>1
        <3> QED BY <3>1, <3>2
    <2>6. total[rest] = c * Cardinality(rest \cap T)
        BY <1>3
    <2>7. CASE Picked(s) \in T
        <3>1. total[s] = c + c * (Cardinality(s \cap T) - 1)
            BY <2>1, <2>2, <2>5, <2>6, <2>7
        <3>2. \A n \in Nat : c + c * (n - 1) = c * n
            OBVIOUS
        <3> QED BY <2>3, <3>1, <3>2
    <2>8. CASE Picked(s) \notin T
        <3>1. f[Picked(s)] = 0 /\ total[rest] \in Int
            BY <2>1, <2>8
        <3> QED BY <2>2, <2>5, <2>6, <2>8, <3>1
    <2> QED BY <2>7, <2>8
<1>4. S \in Holds
    <2>1. \A s \in SUBSET S : s # {} /\ s \ {Picked(s)} \in Holds => s \in Holds
        BY <1>3
    <2>2. S \in SUBSET S
        OBVIOUS
    <2> HIDE DEF Holds
    <2>3. SUBSET S \subseteq Holds
        BY <1>2, <2>1, SetInduction
    <2> QED BY <2>2, <2>3
<1>5. S \cap T = T
    OBVIOUS
<1> QED BY <1>1, <1>4, <1>5

\* One term that grows makes the sum grow.
LEMMA SumOneMore ==
    ASSUME NEW S, IsFiniteSet(S), NEW x \in S, NEW c \in Int, NEW f \in [S -> Int],
           NEW h \in [S -> Int], \A y \in S : h[y] = IF y = x THEN f[y] + c ELSE f[y]
    PROVE  SumFunction(h) = SumFunction(f) + c
<1> DEFINE T == {x}
           only == [y \in S |-> IF y \in T THEN c ELSE 0]
<1>1. only \in [S -> Int] /\ \A y \in S : only[y] = IF y \in T THEN c ELSE 0
    OBVIOUS
<1>2. \A y \in S : h[y] = f[y] + only[y]
    OBVIOUS
<1>3. T \in SUBSET S /\ Cardinality(T) = 1
    BY FS_Singleton
<1> HIDE DEF only, T
<1>4. SumFunction(only) = c * Cardinality(T)
    BY <1>1, <1>3, SumConstant
<1>5. SumFunction(h) = SumFunction(f) + SumFunction(only)
    BY <1>1, <1>2, SumAdds
<1> QED BY <1>3, <1>4, <1>5

\* Folding with addition adds the sum to where it starts.
LEMMA FoldTotal ==
    ASSUME NEW S, IsFiniteSet(S), NEW f \in [S -> Int], NEW base \in Int
    PROVE  FoldFunction(+, base, f) = base + SumFunction(f)
<1> DEFINE Once(iter) == [s \in SUBSET DOMAIN f |->
                IF s = {} THEN base ELSE f[CHOOSE x \in s : TRUE] + iter[s \ {CHOOSE x \in s : TRUE}]]
           fold == CHOOSE iter : iter = Once(iter)
<1>1. FoldFunction(+, base, f) = fold[DOMAIN f]
    BY Zenon DEF FoldFunction, FoldFunctionOnSet, MapThenFoldSet
<1>2. PICK total \in [SUBSET S -> Int] : Totals(total, f, SUBSET S) /\ SumFunction(f) = total[S]
    BY SumTotal
<1> DEFINE more == [s \in SUBSET S |-> base + total[s]]
<1>3. more = Once(more)
    <2>1. ASSUME NEW s \in SUBSET S
          PROVE  more[s] = IF s = {} THEN base
                ELSE f[CHOOSE x \in s : TRUE] + more[s \ {CHOOSE x \in s : TRUE}]
        <3>1. CASE s = {}
            <4>1. total[s] = 0
                BY <1>2, <3>1, TotalsOfNone
            <4> QED BY <3>1, <4>1
        <3>2. CASE s # {}
            <4>1. Picked(s) \in S /\ s \ {Picked(s)} \in SUBSET S
                BY <3>2, PickedSmaller
            <4>2. total[s] = f[Picked(s)] + total[s \ {Picked(s)}]
                BY <1>2, <3>2 DEF Totals
            <4>3. f[Picked(s)] \in Int /\ total[s \ {Picked(s)}] \in Int
                BY <1>2, <4>1
            <4>4. more[s] = f[Picked(s)] + more[s \ {Picked(s)}]
                BY <4>1, <4>2, <4>3
            <4> HIDE DEF more
            <4> QED BY <3>2, <4>4 DEF Picked
        <3> QED BY <3>1, <3>2
    <2>2. more = [s \in SUBSET S |-> more[s]]
        OBVIOUS
    <2> QED BY <2>1, <2>2
<1>4. fold = Once(fold)
    <2> HIDE DEF Once, more
    <2> QED BY <1>3
<1> HIDE DEF fold
<1>5. \A s \in SUBSET S : fold[s] = IF s = {} THEN base ELSE f[Picked(s)] + fold[s \ {Picked(s)}]
    BY <1>4 DEF Picked
<1> DEFINE Holds == {s \in SUBSET S : fold[s] = more[s]}
<1>6. {} \in Holds
    <2>1. total[{}] = 0 /\ {} \in SUBSET S
        BY <1>2, TotalsOfNone
    <2>2. fold[{}] = base
        BY <1>5, <2>1
    <2>3. more[{}] = base
        BY <2>1
    <2> HIDE DEF more
    <2> QED BY <2>1, <2>2, <2>3
<1>7. ASSUME NEW s \in SUBSET S, s # {}, s \ {Picked(s)} \in Holds PROVE s \in Holds
    <2>1. Picked(s) \in S /\ s \ {Picked(s)} \in SUBSET S
        BY <1>7, PickedSmaller
    <2>2. total[s] = f[Picked(s)] + total[s \ {Picked(s)}]
        BY <1>2, <1>7 DEF Totals
    <2>3. f[Picked(s)] \in Int /\ total[s \ {Picked(s)}] \in Int
        BY <1>2, <2>1
    <2>4. fold[s] = f[Picked(s)] + fold[s \ {Picked(s)}]
        BY <1>5, <1>7
    <2>5. fold[s \ {Picked(s)}] = base + total[s \ {Picked(s)}]
        BY <1>7, <2>1
    <2> QED BY <2>2, <2>3, <2>4, <2>5
<1>8. S \in Holds
    <2>1. \A s \in SUBSET S : s # {} /\ s \ {Picked(s)} \in Holds => s \in Holds
        BY <1>7
    <2>2. S \in SUBSET S
        OBVIOUS
    <2> HIDE DEF Holds
    <2>3. SUBSET S \subseteq Holds
        BY <1>6, <2>1, SetInduction
    <2> QED BY <2>2, <2>3
<1>9. DOMAIN f = S /\ fold[S] = base + total[S]
    BY <1>8
<1>10. fold[DOMAIN f] = base + SumFunction(f)
    BY <1>2, <1>9
<1> QED BY <1>1, <1>10, Zenon
----------------------------------------------------------------------------
(* Functions defined by recursion on the naturals. *)

\* The values of f start with first, and step makes each of them from the last.
Recurs(f, S, first, step) ==
    f \in [Nat -> S] /\ f[0] = first /\ \A n \in Nat : f[n + 1] = step[n][f[n]]

LEMMA Recursion ==
    ASSUME NEW S, NEW first \in S, NEW step,
           \A n \in Nat, x \in S : step[n][x] \in S
    PROVE  \E f : Recurs(f, S, first, step)
<1> DEFINE IsPart(g, n) == /\ g \in [0..n -> S]
                           /\ g[0] = first
                           /\ \A m \in Nat : m < n => g[m + 1] = step[m][g[m]]
           Holds == {n \in Nat : \E g : IsPart(g, n)}
<1>1. 0 \in Holds
    <2>1. IsPart([m \in 0..0 |-> first], 0)
        OBVIOUS
    <2> QED BY <2>1
<1>2. ASSUME NEW n \in Nat, n \in Holds PROVE n + 1 \in Holds
    <2>1. PICK g : IsPart(g, n)
        BY <1>2
    <2> DEFINE more == [m \in 0..n + 1 |-> IF m = n + 1 THEN step[n][g[n]] ELSE g[m]]
    <2>2. more \in [0..n + 1 -> S]
        <3>1. \A m \in 0..n + 1 : m = n + 1 \/ m \in 0..n
            OBVIOUS
        <3>2. step[n][g[n]] \in S
            BY <2>1
        <3> QED BY <2>1, <3>1, <3>2
    <2>3. more[0] = first
        BY <2>1
    <2>4. ASSUME NEW m \in Nat, m < n + 1 PROVE more[m + 1] = step[m][more[m]]
        <3>1. CASE m = n
            BY <3>1
        <3>2. CASE m < n
            BY <2>1, <3>2
        <3> QED BY <2>4, <3>1, <3>2
    <2>5. IsPart(more, n + 1)
        BY <2>2, <2>3, <2>4
    <2>6. n + 1 \in Nat
        OBVIOUS
    <2> HIDE DEF IsPart
    <2> QED BY <2>5, <2>6
<1>3. Nat \subseteq Holds
    <2>1. \A n \in Nat : n \in Holds => n + 1 \in Holds
        BY <1>2
    <2> HIDE DEF Holds
    <2> QED BY <1>1, <2>1, Induction
<1> DEFINE Part(n) == CHOOSE g : IsPart(g, n)
           f == [n \in Nat |-> Part(n)[n]]
<1>4. \A n \in Nat : IsPart(Part(n), n)
    BY <1>3
<1>5. ASSUME NEW n \in Nat, NEW m \in Nat, m <= n PROVE Part(n + 1)[m] = Part(n)[m]
    <2> DEFINE Same == {k \in Nat : k <= n => Part(n + 1)[k] = Part(n)[k]}
    <2> HIDE DEF Part
    <2>1. 0 \in Same
        BY <1>4
    <2>2. ASSUME NEW k \in Nat, k \in Same PROVE k + 1 \in Same
        <3> SUFFICES ASSUME k + 1 <= n PROVE Part(n + 1)[k + 1] = Part(n)[k + 1]
            OBVIOUS
        <3>1. k <= n /\ k < n /\ k < n + 1
            OBVIOUS
        <3>2. Part(n + 1)[k + 1] = step[k][Part(n + 1)[k]] /\ Part(n)[k + 1] = step[k][Part(n)[k]]
            BY <1>4, <3>1
        <3> QED BY <2>2, <3>1, <3>2
    <2>3. Nat \subseteq Same
        <3>1. \A k \in Nat : k \in Same => k + 1 \in Same
            BY <2>2
        <3> HIDE DEF Same
        <3> QED BY <2>1, <3>1, Induction
    <2> QED BY <1>5, <2>3
<1> HIDE DEF Part
<1>6. f \in [Nat -> S] /\ f[0] = first
    BY <1>4
<1>7. ASSUME NEW n \in Nat PROVE f[n + 1] = step[n][f[n]]
    <2>1. Part(n + 1)[n + 1] = step[n][Part(n + 1)[n]]
        BY <1>4
    <2> QED BY <1>5, <2>1
<1> HIDE DEF f
<1> QED BY <1>6, <1>7 DEF Recurs
----------------------------------------------------------------------------
(* Remainders. *)

LEMMA DivMod ==
    ASSUME NEW a \in Nat, NEW q \in Nat \ {0}
    PROVE  a \div q \in Nat /\ a % q \in 0..q - 1 /\ a % q = a - q * (a \div q)
<1>1. a % q = a - q * (a \div q)
    OBVIOUS
<1>2. a % q \in 0..q - 1
    OBVIOUS
<1>3. a \div q \in Nat
    OBVIOUS
<1> QED BY <1>1, <1>2, <1>3

\* A remainder is told by its range.
LEMMA ModUnique ==
    ASSUME NEW q \in Nat \ {0}, NEW k \in Nat, NEW m \in 0..q - 1
    PROVE  (q * k + m) % q = m
OBVIOUS

\* Remainders can be taken before an addition,
LEMMA ModAdd ==
    ASSUME NEW q \in Nat \ {0}, NEW a \in Nat, NEW b \in Nat
    PROVE  ((a % q) + b) % q = (a + b) % q
<1> DEFINE m == a % q
           d == a \div q
           n == (m + b) % q
           k == (m + b) \div q
<1>1. m \in Nat /\ d \in Nat /\ m = a - q * d
    <2>1. a % q = a - q * (a \div q)
        OBVIOUS
    <2>2. a % q \in Nat /\ a \div q \in Nat
        OBVIOUS
    <2> QED BY <2>1, <2>2
<1>2. m + b \in Nat
    BY <1>1
<1>3. n \in 0..q - 1 /\ k \in Nat /\ n = (m + b) - q * k
    <2> HIDE DEF m, d
    <2> QED BY <1>2, DivMod
<1> HIDE DEF m, d, n, k
<1>4. d + k \in Nat /\ q * (d + k) = q * d + q * k
    BY <1>1, <1>3
<1>5. q * d \in Nat /\ q * k \in Nat
    BY <1>1, <1>3
<1>6. q * (d + k) + n = a + b
    BY <1>1, <1>3, <1>4, <1>5
<1>7. (q * (d + k) + n) % q = n
    BY <1>3, <1>4, ModUnique
<1> QED BY <1>6, <1>7 DEF n, m

\* and before a multiplication.
LEMMA ModMul ==
    ASSUME NEW q \in Nat \ {0}, NEW a \in Nat, NEW b \in Nat
    PROVE  ((a % q) * b) % q = (a * b) % q
<1> DEFINE m == a % q
           d == a \div q
           n == (m * b) % q
           k == (m * b) \div q
<1>1. m \in Nat /\ d \in Nat /\ m = a - q * d
    <2>1. a % q = a - q * (a \div q)
        OBVIOUS
    <2>2. a % q \in Nat /\ a \div q \in Nat
        OBVIOUS
    <2> QED BY <2>1, <2>2
<1>2. m * b \in Nat
    BY <1>1
<1>3. n \in 0..q - 1 /\ k \in Nat /\ n = (m * b) - q * k
    <2> HIDE DEF m, d
    <2> QED BY <1>2, DivMod
<1> HIDE DEF m, d, n, k
<1>4. d * b + k \in Nat /\ q * (d * b + k) = q * (d * b) + q * k
    BY <1>1, <1>3
<1>5. q * (d * b) = (q * d) * b /\ q * k \in Nat /\ q * d \in Nat /\ (q * d) * b \in Nat
    BY <1>1, <1>3
<1>6. a * b = (q * d) * b + m * b
    <2>1. a = q * d + m
        BY <1>1, <1>5
    <2> QED BY <1>1, <1>5, <2>1
<1>7. q * (d * b + k) + n = a * b
    BY <1>2, <1>3, <1>4, <1>5, <1>6
<1>8. (q * (d * b + k) + n) % q = n
    BY <1>3, <1>4, ModUnique
<1> QED BY <1>7, <1>8 DEF n, m

\* A multiple of q more makes no difference.
LEMMA ModShift ==
    ASSUME NEW q \in Nat \ {0}, NEW a \in Nat, NEW c \in Nat
    PROVE  (a + q * c) % q = a % q
<1> DEFINE m == a % q
           d == a \div q
<1>1. m \in 0..q - 1 /\ d \in Nat /\ m = a - q * d
    <2>1. a % q = a - q * (a \div q)
        OBVIOUS
    <2>2. a % q \in 0..q - 1 /\ a \div q \in Nat
        OBVIOUS
    <2> QED BY <2>1, <2>2
<1> HIDE DEF m, d
<1>2. d + c \in Nat /\ q * (d + c) = q * d + q * c /\ q * d \in Nat /\ q * c \in Nat
    BY <1>1
<1>3. q * (d + c) + m = a + q * c
    BY <1>1, <1>2
<1>4. (q * (d + c) + m) % q = m
    BY <1>1, <1>2, ModUnique
<1> QED BY <1>3, <1>4 DEF m
=============================================================================
