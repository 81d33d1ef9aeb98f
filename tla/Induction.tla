----------------------------- MODULE Induction ------------------------------
(***************************************************************************)
(* Induction and recursion, stated of sets and functions: a set stands for *)
(* the predicate, and the body of a recursive definition is a function of  *)
(* the function it defines.  What the other modules need of numbers, JSON  *)
(* values and schemas, and loops over sequences follows from these.        *)
(***************************************************************************)
EXTENDS Integers, FiniteSetTheorems, TLAPS

\* A set of naturals that holds 0, and with each number the next, holds all.
LEMMA InductionOverNat ==
  ASSUME NEW S, 0 \in S, \A n \in Nat : n \in S => n + 1 \in S
  PROVE  Nat \subseteq S
<1>. SUFFICES ASSUME NEW m \in Nat, m \notin S
              PROVE  FALSE
  OBVIOUS
<1>. DEFINE R == StrictSubsetOrdering(0..m)
            T == {k..m : k \in S \cap (0..m)}
<1>1. IsWellFoundedOn(R, FiniteSubsetsOf(0..m))
  BY FS_StrictSubsetOrderingWellFounded
<1>2. T \subseteq FiniteSubsetsOf(0..m)
  <2>. SUFFICES ASSUME NEW k \in S \cap (0..m)
                PROVE  k..m \in FiniteSubsetsOf(0..m)
    OBVIOUS
  <2>1. IsFiniteSet(k..m)
    BY FS_Interval
  <2>. QED
    BY <2>1 DEF FiniteSubsetsOf
<1>3. 0..m \in T
  OBVIOUS
<1>. HIDE DEF T
<1>4. PICK x \in T : \A y \in T : ~ (<<y, x>> \in R)
  BY <1>1, <1>2, <1>3, WFMin
<1>5. PICK k \in S \cap (0..m) : x = k..m
  BY DEF T
<1>6. k + 1 \in S \cap (0..m)
  BY <1>5
<1>7. (k + 1)..m \in T
  BY <1>6 DEF T
<1>8. <<(k + 1)..m, k..m>> \in R
  <2>1. (k + 1)..m \in SUBSET (0..m) /\ k..m \in SUBSET (0..m)
    OBVIOUS
  <2>2. k \in k..m /\ k \notin (k + 1)..m
    OBVIOUS
  <2>3. (k + 1)..m \subseteq k..m /\ (k + 1)..m # k..m
    BY <2>2
  <2>. QED
    BY <2>1, <2>3 DEF StrictSubsetOrdering
<1>. QED
  BY <1>4, <1>5, <1>7, <1>8

\* A set of naturals that is not empty has a least element.
LEMMA Least ==
  ASSUME NEW S \in SUBSET Nat, S # {}
  PROVE  \E n \in S : \A m \in S : n <= m
<1>. SUFFICES ASSUME \A n \in S : \E m \in S : m < n
              PROVE  FALSE
  OBVIOUS
<1>. DEFINE U == {n \in Nat : \A m \in S : n < m}
<1>1. 0 \in U
  OBVIOUS
<1>2. \A n \in Nat : n \in U => n + 1 \in U
  <2>. SUFFICES ASSUME NEW n \in U, NEW m \in S, ~(n + 1 < m)
                PROVE  FALSE
    OBVIOUS
  <2>1. PICK k \in S : k < m
    OBVIOUS
  <2>. QED
    BY <2>1
<1>. HIDE DEF U
<1>3. Nat \subseteq U
  BY <1>1, <1>2, InductionOverNat
<1>4. PICK n \in S : TRUE
  OBVIOUS
<1>. QED
  BY <1>3, <1>4 DEF U

-----------------------------------------------------------------------------
(* Recursion.  below[x] is what the value at x is computed from.             *)

WellFounded(X, below) ==
  /\ below \in [X -> SUBSET X]
  /\ \A S \in SUBSET X : S # {} => \E x \in S : below[x] \cap S = {}

\* A set that holds an x as soon as it holds all that is below x holds all.
LEMMA InductionBelow ==
  ASSUME NEW X, NEW below, WellFounded(X, below),
         NEW S, \A x \in X : below[x] \subseteq S => x \in S
  PROVE  X \subseteq S
<1>. SUFFICES ASSUME X \ S # {} PROVE FALSE
  OBVIOUS
<1>1. PICK x \in X \ S : below[x] \cap (X \ S) = {}
  BY DEF WellFounded
<1>2. below[x] \subseteq X
  BY DEF WellFounded
<1>. QED
  BY <1>1, <1>2

AgreeOn(S, f, g) == \A x \in S : f[x] = g[x]
ClosedBelow(D, below) == \A x \in D : below[x] \subseteq D
Solves(D, G, f) == \A x \in D : f[x] = G[f][x]

\* The body of the definition: it looks at what is below x only.
Body(X, T, below, G) ==
  /\ G \in [[X -> T] -> [X -> T]]
  /\ \A x \in X : \A f, g \in [X -> T] :
       AgreeOn(below[x], f, g) => G[f][x] = G[g][x]

HasFixpoint(X, T, G) == \E f \in [X -> T] : \A x \in X : f[x] = G[f][x]

\* Two functions that solve the equation agree where both do.
LEMMA SolutionsAgree ==
  ASSUME NEW X, NEW T, NEW below, WellFounded(X, below),
         NEW G, Body(X, T, below, G),
         NEW D \in SUBSET X, ClosedBelow(D, below),
         NEW f \in [X -> T], NEW g \in [X -> T], Solves(D, G, f), Solves(D, G, g)
  PROVE  AgreeOn(D, f, g)
<1>. DEFINE S == {x \in X : x \in D => f[x] = g[x]}
<1>1. ASSUME NEW x \in X, below[x] \subseteq S
      PROVE  x \in S
  <2>. SUFFICES ASSUME x \in D PROVE f[x] = g[x]
    OBVIOUS
  <2>1. AgreeOn(below[x], f, g)
    BY <1>1 DEF AgreeOn, ClosedBelow
  <2>2. G[f][x] = G[g][x]
    BY <2>1 DEF Body
  <2>. QED
    BY <2>2 DEF Solves
<1>. HIDE DEF S
<1>2. X \subseteq S
  BY <1>1, InductionBelow
<1>. QED
  BY <1>2 DEF S, AgreeOn

\* A function defined by recursion along a well-founded order exists.
LEMMA Recursion ==
  ASSUME NEW X, NEW T, T # {}, NEW below, WellFounded(X, below),
         NEW G, Body(X, T, below, G)
  PROVE  HasFixpoint(X, T, G)
<1>. DEFINE Part(D, f) == D \subseteq X /\ ClosedBelow(D, below) /\ Solves(D, G, f)
            E == {x \in X : \E D \in SUBSET X : \E f \in [X -> T] : x \in D /\ Part(D, f)}
            at(x) == CHOOSE f \in [X -> T] : \E D \in SUBSET X : x \in D /\ Part(D, f)
<1>1. PICK t \in T : TRUE
  OBVIOUS
<1>. DEFINE h == [x \in X |-> IF x \in E THEN at(x)[x] ELSE t]
<1>2. ASSUME NEW x \in E
      PROVE  at(x) \in [X -> T] /\ \E D \in SUBSET X : x \in D /\ Part(D, at(x))
  <2>. HIDE DEF Part
  <2>1. \E f \in [X -> T] : \E D \in SUBSET X : x \in D /\ Part(D, f)
    OBVIOUS
  <2>. QED
    BY <2>1, Zenon
<1>3. h \in [X -> T]
  BY <1>1, <1>2
<1>4. \A x \in E : h[x] = at(x)[x]
  OBVIOUS
<1>5. ASSUME NEW x \in E, NEW D \in SUBSET X, NEW f \in [X -> T], x \in D, Part(D, f)
      PROVE  h[x] = f[x]
  <2>1. PICK C \in SUBSET X : x \in C /\ Part(C, at(x))
    BY <1>2
  <2>. DEFINE I == C \cap D
  <2>2. ClosedBelow(I, below) /\ Solves(I, G, f) /\ Solves(I, G, at(x))
    BY <1>5, <2>1 DEF ClosedBelow, Solves
  <2>3. at(x) \in [X -> T] /\ I \in SUBSET X
    BY <1>2
  <2>. HIDE DEF h, E, at
  <2>4. AgreeOn(I, f, at(x))
    <3>. HIDE DEF I
    <3>. QED
      BY <2>2, <2>3, SolutionsAgree
  <2>. QED
    BY <2>4, <2>1, <1>4, <1>5 DEF AgreeOn
<1>. HIDE DEF at, h
<1>6. Part(E, h)
  <2>1. ASSUME NEW x \in E
        PROVE  below[x] \subseteq E /\ h[x] = G[h][x]
    <3>1. PICK D \in SUBSET X, f \in [X -> T] : x \in D /\ Part(D, f)
      OBVIOUS
    <3>2. D \subseteq E
      BY <3>1
    <3>. HIDE DEF E
    <3>3. below[x] \subseteq D
      BY <3>1 DEF ClosedBelow
    <3>4. AgreeOn(below[x], h, f)
      BY <3>1, <3>2, <3>3, <1>5 DEF AgreeOn
    <3>5. G[h][x] = G[f][x]
      <4>1. x \in X
        BY <3>1
      <4>. QED
        BY <3>4, <4>1, <1>3 DEF Body
    <3>6. h[x] = f[x] /\ f[x] = G[f][x]
      BY <3>1, <1>5 DEF Solves
    <3>. QED
      BY <3>2, <3>3, <3>5, <3>6
  <2>. QED
    BY <2>1 DEF ClosedBelow, Solves
<1>7. X \subseteq E
  <2>1. ASSUME NEW x \in X, below[x] \subseteq E
        PROVE  x \in E
    <3>. DEFINE D == E \cup {x}
                f == [y \in X |-> IF y \in E THEN h[y] ELSE G[h][y]]
    <3>1. G[h] \in [X -> T]
      BY <1>3 DEF Body
    <3>2. f \in [X -> T]
      BY <3>1, <1>3
    <3>3. D \subseteq X /\ ClosedBelow(D, below)
      BY <1>6, <2>1 DEF ClosedBelow
    <3>4. ASSUME NEW y \in D
          PROVE  f[y] = G[f][y]
      <4>1. y \in X /\ below[y] \subseteq E
        BY <1>6, <2>1, <3>4 DEF ClosedBelow
      <4>2. AgreeOn(below[y], h, f)
        BY <4>1 DEF AgreeOn
      <4>3. f[y] = G[h][y]
        BY <4>1, <1>6 DEF Solves
      <4>. HIDE DEF f, D
      <4>4. G[h][y] = G[f][y]
        BY <4>1, <4>2, <3>2, <1>3 DEF Body
      <4>. QED
        BY <4>3, <4>4
    <3>. HIDE DEF f
    <3>5. Solves(D, G, f)
      BY <3>4 DEF Solves
    <3>. QED
      BY <3>2, <3>3, <3>5
  <2>. HIDE DEF E
  <2>. QED
    BY <2>1, InductionBelow
<1>. QED
  BY <1>3, <1>6, <1>7 DEF HasFixpoint, Solves

\* In a definition over the naturals, a value comes from those before it.
Before == [n \in Nat |-> 0..(n - 1)]

LEMMA BeforeWellFounded == WellFounded(Nat, Before)
<1>1. Before \in [Nat -> SUBSET Nat]
  BY DEF Before
<1>2. ASSUME NEW S \in SUBSET Nat, S # {}
      PROVE  \E n \in S : Before[n] \cap S = {}
  <2>1. PICK n \in S : \A m \in S : n <= m
    BY <1>2, Least
  <2>. QED
    BY <2>1 DEF Before
<1>. QED
  BY <1>1, <1>2 DEF WellFounded
=============================================================================
