------------------------------- MODULE Counting -------------------------------
(* Lemmas on numbers and on functions that are defined by recursion on an    *)
(* interval, for the proofs of several components.                           *)
EXTENDS Integers, FiniteSetTheorems, WellFoundedInduction, TLAPS

-----------------------------------------------------------------------------
(* Least elements, and what is reached by counting.                          *)

\* Of the intervals that start at zero and end in T, one has no smaller one.
LEMMA LeastNumber ==
    ASSUME NEW T, T \subseteq Nat, T # {}
    PROVE  \E x \in T : \A y \in T : x <= y
<1> DEFINE below == { 0 .. m : m \in T }
<1>1. below # {} /\ below \subseteq FiniteSubsetsOf(Nat)
    <2>1. \A m \in T : IsFiniteSet(0 .. m) /\ (0 .. m) \subseteq Nat
        BY FS_Interval
    <2> QED
        BY <2>1 DEF FiniteSubsetsOf
<1>2. PICK c \in below : \A d \in below : <<d, c>> \notin StrictSubsetOrdering(Nat)
    <2>1. IsWellFoundedOn(StrictSubsetOrdering(Nat), FiniteSubsetsOf(Nat))
        BY FS_StrictSubsetOrderingWellFounded
    <2> HIDE DEF below
    <2> QED
        BY <1>1, <2>1, WFMin
<1>3. PICK x \in T : c = 0 .. x
    OBVIOUS
<1>4. ASSUME NEW y \in T, ~(x <= y) PROVE FALSE
    <2>1. /\ 0 .. y \in below /\ (0 .. y) \subseteq (0 .. x)
          /\ x \in 0 .. x /\ x \notin 0 .. y
        BY <1>4
    <2>2. (0 .. y) # (0 .. x) /\ (0 .. y) \in SUBSET Nat /\ (0 .. x) \in SUBSET Nat
        BY <2>1
    <2> HIDE DEF below
    <2>3. <<0 .. y, 0 .. x>> \in StrictSubsetOrdering(Nat)
        BY <2>1, <2>2 DEF StrictSubsetOrdering
    <2> QED
        BY <1>2, <1>3, <2>1, <2>3
<1> QED
    BY <1>4

\* What holds of zero and passes from each number to the next holds up to n.
LEMMA CountingUp ==
    ASSUME NEW n \in Nat, NEW G, 0 \in G, \A i \in 1 .. n : i - 1 \in G => i \in G
    PROVE  \A i \in 0 .. n : i \in G
<1> DEFINE Bad == { i \in 0 .. n : i \notin G }
<1> SUFFICES ASSUME Bad # {} PROVE FALSE
    OBVIOUS
<1>1. PICK x \in Bad : \A y \in Bad : x <= y
    <2>1. Bad \subseteq Nat
        OBVIOUS
    <2> HIDE DEF Bad
    <2> QED
        BY <2>1, LeastNumber
<1>2. x \in 1 .. n /\ x - 1 \in 0 .. n /\ ~(x <= x - 1)
    BY <1>1
<1> QED
    BY <1>1, <1>2

\* f goes from a on, step by step, in S.
Stepwise(f, n, S, a, step) ==
    /\ f \in [0 .. n -> S] /\ f[0] = a
    /\ \A i \in 1 .. n : f[i] = step[i][f[i - 1]]

\* A first value and a step give a function.
LEMMA StepwiseFunction ==
    ASSUME NEW n \in Nat, NEW S, NEW a \in S, NEW step \in [1 .. n -> [S -> S]]
    PROVE  \E f : Stepwise(f, n, S, a, step)
<1> DEFINE G == { m \in 0 .. n : \E f : Stepwise(f, m, S, a, step) }
<1>1. 0 \in G
    <2> DEFINE f == [i \in 0 .. 0 |-> a]
    <2>1. f \in [0 .. 0 -> S] /\ f[0] = a
        OBVIOUS
    <2>2. \A i \in 1 .. 0 : f[i] = step[i][f[i - 1]]
        OBVIOUS
    <2> HIDE DEF f
    <2>3. Stepwise(f, 0, S, a, step)
        BY <2>1, <2>2 DEF Stepwise
    <2>4. 0 \in 0 .. n
        OBVIOUS
    <2> QED
        BY <2>3, <2>4
<1>2. ASSUME NEW m \in 1 .. n, m - 1 \in G PROVE m \in G
    <2>0. PICK f : Stepwise(f, m - 1, S, a, step)
        BY <1>2
    <2>1. f \in [0 .. m - 1 -> S] /\ f[0] = a /\ \A i \in 1 .. m - 1 : f[i] = step[i][f[i - 1]]
        BY <2>0 DEF Stepwise
    <2> DEFINE last == step[m][f[m - 1]]
    <2>2. m - 1 \in 0 .. m - 1 /\ f[m - 1] \in S /\ last \in S
        BY <1>2, <2>1
    <2> DEFINE g == [i \in 0 .. m |-> IF i = m THEN last ELSE f[i]]
    <2>3. g \in [0 .. m -> S]
        <3> HIDE DEF last
        <3>1. \A i \in 0 .. m : i # m => i \in 0 .. m - 1
            BY <1>2
        <3> QED
            BY <2>1, <2>2, <3>1
    <2>4. /\ g[m] = last
          /\ \A i \in 0 .. m - 1 : g[i] = f[i]
        BY <1>2
    <2> HIDE DEF g
    <2>5. g[0] = a
        BY <1>2, <2>1, <2>4
    <2>6. \A i \in 1 .. m : g[i] = step[i][g[i - 1]]
        <3> TAKE i \in 1 .. m
        <3>1. g[i - 1] = f[i - 1]
            BY <1>2, <2>4
        <3>2. CASE i = m
            BY <2>4, <3>1, <3>2
        <3>3. CASE i # m
            <4>1. i \in 1 .. m - 1 /\ i \in 0 .. m - 1
                BY <1>2, <3>3
            <4> QED
                BY <2>1, <2>4, <3>1, <4>1
        <3> QED
            BY <3>2, <3>3
    <2>7. Stepwise(g, m, S, a, step)
        BY <2>3, <2>5, <2>6 DEF Stepwise
    <2>8. m \in 0 .. n
        BY <1>2
    <2> QED
        BY <2>7, <2>8
<1> HIDE DEF G
<1>3. \A i \in 1 .. n : i - 1 \in G => i \in G
    BY <1>2
<1>4. \A i \in 0 .. n : i \in G
    BY <1>1, <1>3, CountingUp
<1>5. n \in G
    BY <1>4
<1> QED
    BY <1>5 DEF G
===============================================================================
