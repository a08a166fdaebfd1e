----------------------------- MODULE SumLemmas ------------------------------
(***************************************************************************)
(* Facts about SumFunctionOnSet and SumFunction of the community modules,  *)
(* whatever function and finite set they are given.  Both are folds, that  *)
(* is, recursive functions on the subsets of a set.  That such a function  *)
(* exists, and every fact about it, is shown from a subset of least        *)
(* cardinality for which it would fail.                                    *)
(***************************************************************************)
EXTENDS Integers, Functions, Folds, FiniteSets, Sequences, TLAPS,
        WellFoundedInduction, FiniteSetTheorems

\* A non-empty set of naturals has a least element.
LEMMA LeastNat ==
  ASSUME NEW T, T \subseteq Nat, T # {}
  PROVE  \E m \in T : \A n \in T : m <= n
<1>1. IsWellFoundedOn({ss \in Nat \X Nat : ss[1] < ss[2]}, Nat)
  BY NatLessThanWellFounded, Zenon DEF OpToRel
<1>2. PICK x \in T : \A y \in T : <<y, x>> \notin {ss \in Nat \X Nat : ss[1] < ss[2]}
  BY <1>1, WFMin
<1>3. ASSUME NEW y \in T PROVE x <= y
  <2>1. <<y, x>> \in Nat \X Nat /\ <<y, x>>[1] = y /\ <<y, x>>[2] = x
    OBVIOUS
  <2>2. ~(y < x)
    BY <1>2, <2>1, Zenon
  <2>. QED
    BY <2>2
<1>. QED
  BY <1>3

\* A set of finite subsets that is not empty has one of least cardinality.
LEMMA LeastSubset ==
  ASSUME NEW S, IsFiniteSet(S), NEW T, T \subseteq SUBSET S, T # {}
  PROVE  \E s \in T : \A t \in T : Cardinality(s) <= Cardinality(t)
<1>. DEFINE Sizes == {Cardinality(s) : s \in T}
<1>1. Sizes \subseteq Nat /\ Sizes # {}
  BY FS_Subset, FS_CardinalityType
<1>2. \E m \in Sizes : \A n \in Sizes : m <= n
  <2>. HIDE DEF Sizes
  <2>. QED
    BY <1>1, LeastNat
<1>. QED
  BY <1>2

\* A subset without one of its elements is smaller by one.
LEMMA Smaller ==
  ASSUME NEW S, IsFiniteSet(S), NEW s \in SUBSET S, NEW x \in s
  PROVE  /\ IsFiniteSet(s) /\ s \ {x} \in SUBSET S
         /\ Cardinality(s) \in Nat /\ Cardinality(s \ {x}) \in Nat
         /\ Cardinality(s \ {x}) = Cardinality(s) - 1
BY FS_Subset, FS_CardinalityType, FS_RemoveElement

-----------------------------------------------------------------------------
(* The recursive function behind a sum.                                    *)

Chosen(s) == CHOOSE x \in s : TRUE

\* What g says of the sum over each subset in D, one element less being known.
SumStep(f, D, g) ==
  [s \in D |-> IF s = {} THEN 0 ELSE f[Chosen(s)] + g[s \ {Chosen(s)}]]

Sums(f, S) == CHOOSE g : g = SumStep(f, SUBSET S, g)

LEMMA SumIsFold ==
  ASSUME NEW f, NEW S
  PROVE  SumFunctionOnSet(f, S) = Sums(f, S)[S]
BY Zenon DEF SumFunctionOnSet, FoldFunctionOnSet, MapThenFoldSet, Sums, SumStep, Chosen

LEMMA ChosenIn == ASSUME NEW s, s # {} PROVE Chosen(s) \in s
BY DEF Chosen

\* The recursion has a solution: on the subsets of at most n elements for every
\* n, so on all of them.
LEMMA SumsExist ==
  ASSUME NEW f, NEW S, IsFiniteSet(S)
  PROVE  Sums(f, S) = SumStep(f, SUBSET S, Sums(f, S))
<1>. DEFINE Level(n) == {s \in SUBSET S : Cardinality(s) <= n}
            Solved(n) == \E g : g = SumStep(f, Level(n), g)
            Unsolved == {n \in Nat : ~Solved(n)}
<1>0. \A s \in SUBSET S : IsFiniteSet(s) /\ Cardinality(s) \in Nat
  BY FS_Subset, FS_CardinalityType
<1>1. Solved(0)
  <2>. DEFINE g == [s \in Level(0) |-> 0]
  <2>1. \A s \in Level(0) : s = {}
    BY <1>0, FS_EmptySet
  <2>2. g = SumStep(f, Level(0), g)
    BY <2>1 DEF SumStep
  <2>. QED
    BY <2>2
<1>2. ASSUME NEW n \in Nat, Solved(n)
      PROVE  Solved(n + 1)
  <2>1. PICK g : g = SumStep(f, Level(n), g)
    BY <1>2
  <2>. DEFINE h == SumStep(f, Level(n + 1), g)
  <2>2. \A s \in Level(n) : h[s] = g[s]
    <3>1. Level(n) \subseteq Level(n + 1)
      BY <1>0
    <3>2. \A s \in Level(n) :
            g[s] = IF s = {} THEN 0 ELSE f[Chosen(s)] + g[s \ {Chosen(s)}]
      <4>. HIDE DEF Level
      <4>. QED
        BY <2>1 DEF SumStep
    <3>. HIDE DEF Level
    <3>. QED
      BY <3>1, <3>2 DEF SumStep
  <2>3. ASSUME NEW s \in Level(n + 1), s # {}
        PROVE  s \ {Chosen(s)} \in Level(n)
    BY <2>3, <1>0, ChosenIn, Smaller
  <2>4. \A s \in Level(n + 1) : s # {} => h[s \ {Chosen(s)}] = g[s \ {Chosen(s)}]
    <3>. HIDE DEF Level, h
    <3>. QED
      BY <2>2, <2>3
  <2>5. h = SumStep(f, Level(n + 1), h)
    <3>1. SumStep(f, Level(n + 1), g) = SumStep(f, Level(n + 1), h)
      <4>. HIDE DEF Level, h
      <4>. QED
        BY <2>4 DEF SumStep
    <3>. QED
      BY <3>1
  <2>. QED
    BY <2>5
<1>3. Unsolved = {}
  <2>. SUFFICES ASSUME Unsolved # {} PROVE FALSE
    OBVIOUS
  <2>1. PICK m \in Unsolved : \A n \in Unsolved : m <= n
    <3>. HIDE DEF Solved
    <3>. QED
      BY LeastNat
  <2>2. m \in Nat /\ m # 0 /\ ~Solved(m)
    <3>. HIDE DEF Solved
    <3>. QED
      BY <1>1
  <2>3. m - 1 \in Nat /\ Solved(m - 1) /\ (m - 1) + 1 = m
    <3>. HIDE DEF Solved
    <3>. QED
      BY <2>1, <2>2
  <2>4. Solved((m - 1) + 1)
    <3>. HIDE DEF Solved
    <3>. QED
      BY <1>2, <2>3
  <2>. QED
    BY <2>2, <2>3, <2>4
<1>4. Level(Cardinality(S)) = SUBSET S
  BY FS_Subset, <1>0
<1>5. Cardinality(S) \in Nat
  BY <1>0
<1>6. Solved(Cardinality(S))
  <2>. HIDE DEF Solved
  <2>. QED
    BY <1>3, <1>5
<1>7. \E g : g = SumStep(f, SUBSET S, g)
  BY <1>4, <1>6
<1>. QED
  BY <1>7 DEF Sums

\* The sums over a subset do not depend on the set they were asked of.
LEMMA SumsEqual ==
  ASSUME NEW f, NEW S, IsFiniteSet(S), NEW T \in SUBSET S, NEW s \in SUBSET T
  PROVE  Sums(f, T)[s] = Sums(f, S)[s]
<1>. DEFINE Wrong == {u \in SUBSET T : Sums(f, T)[u] # Sums(f, S)[u]}
<1>0. IsFiniteSet(T)
  BY FS_Subset
<1>1. Wrong = {}
  <2>. SUFFICES ASSUME Wrong # {} PROVE FALSE
    OBVIOUS
  <2>1. PICK u \in Wrong : \A v \in Wrong : Cardinality(u) <= Cardinality(v)
    <3>1. Wrong \subseteq SUBSET T
      OBVIOUS
    <3>. HIDE DEF Wrong
    <3>. QED
      BY <1>0, <3>1, LeastSubset
  <2>. DEFINE v == u \ {Chosen(u)}
  <2>2. /\ Sums(f, T)[u] = IF u = {} THEN 0 ELSE f[Chosen(u)] + Sums(f, T)[v]
        /\ Sums(f, S)[u] = IF u = {} THEN 0 ELSE f[Chosen(u)] + Sums(f, S)[v]
    <3>1. u \in SUBSET T /\ u \in SUBSET S
      OBVIOUS
    <3>2. /\ Sums(f, T) = SumStep(f, SUBSET T, Sums(f, T))
          /\ Sums(f, S) = SumStep(f, SUBSET S, Sums(f, S))
      BY <1>0, SumsExist
    <3>3. /\ SumStep(f, SUBSET T, Sums(f, T))[u]
               = IF u = {} THEN 0 ELSE f[Chosen(u)] + Sums(f, T)[v]
          /\ SumStep(f, SUBSET S, Sums(f, S))[u]
               = IF u = {} THEN 0 ELSE f[Chosen(u)] + Sums(f, S)[v]
      BY <3>1 DEF SumStep
    <3>. QED
      BY <3>2, <3>3, Zenon
  <2>3. CASE u = {}
    BY <2>2, <2>3
  <2>4. CASE u # {}
    <3>1. v \in SUBSET T /\ Cardinality(v) < Cardinality(u)
      BY <1>0, <2>4, ChosenIn, Smaller
    <3>2. Cardinality(v) \in Nat /\ Cardinality(u) \in Nat
      BY <1>0, <2>4, ChosenIn, Smaller
    <3>3. v \notin Wrong
      <4>. HIDE DEF Wrong, v
      <4>. QED
        BY <2>1, <3>1, <3>2
    <3>. QED
      BY <2>2, <2>4, <3>1, <3>3
  <2>. QED
    BY <2>3, <2>4
<1>. QED
  BY <1>1

-----------------------------------------------------------------------------
(* The facts.                                                              *)

LEMMA SumEmpty == ASSUME NEW f PROVE SumFunctionOnSet(f, {}) = 0
<1>1. IsFiniteSet({}) /\ {} \in SUBSET {}
  BY FS_EmptySet
<1>2. Sums(f, {}) = SumStep(f, SUBSET {}, Sums(f, {}))
  BY <1>1, SumsExist
<1>3. SumStep(f, SUBSET {}, Sums(f, {}))[{}] = 0
  BY <1>1 DEF SumStep
<1>. QED
  BY <1>2, <1>3, SumIsFold, Zenon

\* The sum over a set is one of its values and the sum over the others.
LEMMA SumChosen ==
  ASSUME NEW f, NEW S, IsFiniteSet(S), S # {}
  PROVE  SumFunctionOnSet(f, S)
           = f[Chosen(S)] + SumFunctionOnSet(f, S \ {Chosen(S)})
<1>. DEFINE R == S \ {Chosen(S)}
<1>1. Sums(f, S) = SumStep(f, SUBSET S, Sums(f, S))
  BY SumsExist
<1>2. SumStep(f, SUBSET S, Sums(f, S))[S] = f[Chosen(S)] + Sums(f, S)[R]
  BY DEF SumStep
<1>3. Sums(f, S)[S] = f[Chosen(S)] + Sums(f, S)[R]
  BY <1>1, <1>2, Zenon
<1>4. Sums(f, S)[R] = Sums(f, R)[R]
  <2>1. R \in SUBSET S /\ R \in SUBSET R
    OBVIOUS
  <2>. HIDE DEF R
  <2>. QED
    BY <2>1, SumsEqual
<1>. QED
  BY <1>3, <1>4, SumIsFold, Zenon

\* A sum is in every set that holds its values and 0 and is closed under +.
LEMMA SumClosed ==
  ASSUME NEW T, 0 \in T, \A a, b \in T : a + b \in T,
         NEW f, NEW S, IsFiniteSet(S), \A x \in S : f[x] \in T
  PROVE  SumFunctionOnSet(f, S) \in T
<1>. DEFINE Wrong == {u \in SUBSET S : SumFunctionOnSet(f, u) \notin T}
<1>1. Wrong = {}
  <2>. SUFFICES ASSUME Wrong # {} PROVE FALSE
    OBVIOUS
  <2>1. PICK u \in Wrong : \A v \in Wrong : Cardinality(u) <= Cardinality(v)
    <3>1. Wrong \subseteq SUBSET S
      OBVIOUS
    <3>. HIDE DEF Wrong
    <3>. QED
      BY <3>1, LeastSubset
  <2>2. u # {}
    BY SumEmpty
  <2>. DEFINE v == u \ {Chosen(u)}
  <2>3. SumFunctionOnSet(f, u) = f[Chosen(u)] + SumFunctionOnSet(f, v)
    BY <2>2, SumChosen, FS_Subset
  <2>4. /\ v \in SUBSET S /\ Cardinality(v) < Cardinality(u) /\ f[Chosen(u)] \in T
        /\ Cardinality(v) \in Nat /\ Cardinality(u) \in Nat
    <3>1. u \in SUBSET S /\ Chosen(u) \in u
      BY <2>2, ChosenIn
    <3>2. f[Chosen(u)] \in T
      BY <3>1
    <3>3. /\ v \in SUBSET S /\ Cardinality(v) = Cardinality(u) - 1
          /\ Cardinality(v) \in Nat /\ Cardinality(u) \in Nat
      <4>. HIDE DEF Wrong
      <4>. QED
        BY <3>1, Smaller
    <3>. HIDE DEF v
    <3>. QED
      BY <3>2, <3>3
  <2>5. SumFunctionOnSet(f, v) \in T
    <3>1. v \notin Wrong
      <4>. HIDE DEF Wrong, v
      <4>. QED
        BY <2>1, <2>4
    <3>. QED
      BY <2>4, <3>1
  <2>6. f[Chosen(u)] + SumFunctionOnSet(f, v) \in T
    <3>. HIDE DEF v
    <3>. QED
      BY <2>4, <2>5
  <2>7. SumFunctionOnSet(f, u) \in T
    BY <2>3, <2>6, Zenon
  <2>. QED
    BY <2>7
<1>. QED
  BY <1>1

\* A sum of integers is an integer, and one of naturals a natural.
LEMMA SumType ==
  ASSUME NEW f, NEW S, IsFiniteSet(S)
  PROVE  /\ (\A x \in S : f[x] \in Int) => SumFunctionOnSet(f, S) \in Int
         /\ (\A x \in S : f[x] \in Nat) => SumFunctionOnSet(f, S) \in Nat
<1>1. ASSUME NEW T \in {Int, Nat}
      PROVE  0 \in T /\ \A a, b \in T : a + b \in T
  OBVIOUS
<1>. QED
  BY <1>1, SumClosed

\* Any element may be the one that is taken out.
LEMMA SumRemove ==
  ASSUME NEW f, NEW S, IsFiniteSet(S), \A x \in S : f[x] \in Int, NEW x \in S
  PROVE  /\ SumFunctionOnSet(f, S) = f[x] + SumFunctionOnSet(f, S \ {x})
         /\ SumFunctionOnSet(f, S \ {x}) \in Int
<1>. DEFINE Sum(u) == SumFunctionOnSet(f, u)
            Wrong == {u \in SUBSET S : \E y \in u : Sum(u) # f[y] + Sum(u \ {y})}
<1>0. \A u \in SUBSET S : Sum(u) \in Int
  <2>1. \A u \in SUBSET S : IsFiniteSet(u) /\ \A y \in u : f[y] \in Int
    BY FS_Subset
  <2>. QED
    BY <2>1, SumType
<1>1. Wrong = {}
  <2>. SUFFICES ASSUME Wrong # {} PROVE FALSE
    OBVIOUS
  <2>1. PICK u \in Wrong : \A v \in Wrong : Cardinality(u) <= Cardinality(v)
    <3>1. Wrong \subseteq SUBSET S
      OBVIOUS
    <3>. HIDE DEF Wrong
    <3>. QED
      BY <3>1, LeastSubset
  <2>2. PICK y \in u : Sum(u) # f[y] + Sum(u \ {y})
    OBVIOUS
  <2>. DEFINE c == Chosen(u)
              v == u \ {c}
  <2>3. u \in SUBSET S /\ c \in u
    BY <2>2, ChosenIn
  <2>4. Sum(u) = f[c] + Sum(v)
    BY <2>3, SumChosen, FS_Subset
  <2>5. c # y
    BY <2>2, <2>4
  <2>6. y \in v /\ c \in u \ {y} /\ v \ {y} = (u \ {y}) \ {c}
    BY <2>3, <2>5
  <2>7. v \notin Wrong /\ u \ {y} \notin Wrong
    <3>1. /\ Cardinality(v) < Cardinality(u) /\ Cardinality(v) \in Nat
          /\ Cardinality(u \ {y}) < Cardinality(u) /\ Cardinality(u \ {y}) \in Nat
          /\ Cardinality(u) \in Nat
      <4>1. /\ Cardinality(v) = Cardinality(u) - 1 /\ Cardinality(v) \in Nat
            /\ Cardinality(u \ {y}) = Cardinality(u) - 1 /\ Cardinality(u \ {y}) \in Nat
            /\ Cardinality(u) \in Nat
        <5>. HIDE DEF Wrong, c
        <5>. QED
          BY <2>3, Smaller
      <4>. HIDE DEF v
      <4>. QED
        BY <4>1
    <3>. HIDE DEF Wrong, v
    <3>. QED
      BY <2>1, <3>1
  <2>8. Sum(v) = f[y] + Sum(v \ {y})
    <3>1. v \in SUBSET S
      BY <2>3
    <3>. HIDE DEF Sum
    <3>. QED
      BY <2>6, <2>7, <3>1
  <2>9. Sum(u \ {y}) = f[c] + Sum(v \ {y})
    <3>1. u \ {y} \in SUBSET S
      BY <2>3
    <3>2. Sum(u \ {y}) = f[c] + Sum((u \ {y}) \ {c})
      <4>. HIDE DEF Sum, c
      <4>. QED
        BY <2>6, <2>7, <3>1
    <3>. QED
      BY <2>6, <3>2, Zenon
  <2>10. Sum(u) \in Int /\ Sum(v) \in Int /\ Sum(v \ {y}) \in Int /\ Sum(u \ {y}) \in Int
           /\ f[c] \in Int /\ f[y] \in Int
    BY <1>0, <2>3
  <2>. HIDE DEF Sum, c, v
  <2>. QED
    BY <2>2, <2>4, <2>8, <2>9, <2>10
<1>2. S \notin Wrong /\ S \in SUBSET S /\ S \ {x} \in SUBSET S
  BY <1>1
<1>3. Sum(S) = f[x] + Sum(S \ {x})
  <2>. HIDE DEF Sum
  <2>. QED
    BY <1>2
<1>. QED
  BY <1>0, <1>2, <1>3

LEMMA SumAdd ==
  ASSUME NEW f, NEW S, IsFiniteSet(S), NEW x, x \notin S, \A y \in S \union {x} : f[y] \in Int
  PROVE  /\ SumFunctionOnSet(f, S \union {x}) = SumFunctionOnSet(f, S) + f[x]
         /\ SumFunctionOnSet(f, S) \in Int
<1>. DEFINE T == S \union {x}
<1>1. IsFiniteSet(T) /\ x \in T /\ T \ {x} = S /\ f[x] \in Int
  BY FS_AddElement
<1>2. SumFunctionOnSet(f, T) = f[x] + SumFunctionOnSet(f, T \ {x})
        /\ SumFunctionOnSet(f, T \ {x}) \in Int
  <2>1. \A y \in T : f[y] \in Int
    OBVIOUS
  <2>. HIDE DEF T
  <2>. QED
    BY <1>1, <2>1, SumRemove
<1>3. SumFunctionOnSet(f, T) = f[x] + SumFunctionOnSet(f, S)
        /\ SumFunctionOnSet(f, S) \in Int
  BY <1>1, <1>2, Zenon
<1>. QED
  BY <1>1, <1>3

\* The sum depends on the values on the set only.
LEMMA SumSame ==
  ASSUME NEW f, NEW g, NEW S, IsFiniteSet(S), \A x \in S : f[x] = g[x]
  PROVE  SumFunctionOnSet(f, S) = SumFunctionOnSet(g, S)
<1>. DEFINE Wrong == {u \in SUBSET S : SumFunctionOnSet(f, u) # SumFunctionOnSet(g, u)}
<1>1. Wrong = {}
  <2>. SUFFICES ASSUME Wrong # {} PROVE FALSE
    OBVIOUS
  <2>1. PICK u \in Wrong : \A v \in Wrong : Cardinality(u) <= Cardinality(v)
    <3>1. Wrong \subseteq SUBSET S
      OBVIOUS
    <3>. HIDE DEF Wrong
    <3>. QED
      BY <3>1, LeastSubset
  <2>2. u # {}
    BY SumEmpty
  <2>. DEFINE v == u \ {Chosen(u)}
  <2>3. /\ SumFunctionOnSet(f, u) = f[Chosen(u)] + SumFunctionOnSet(f, v)
        /\ SumFunctionOnSet(g, u) = g[Chosen(u)] + SumFunctionOnSet(g, v)
    BY <2>2, SumChosen, FS_Subset
  <2>4. /\ v \in SUBSET S /\ Cardinality(v) < Cardinality(u) /\ f[Chosen(u)] = g[Chosen(u)]
        /\ Cardinality(v) \in Nat /\ Cardinality(u) \in Nat
    BY <2>2, ChosenIn, Smaller
  <2>5. SumFunctionOnSet(f, v) = SumFunctionOnSet(g, v)
    <3>1. v \notin Wrong
      <4>. HIDE DEF Wrong, v
      <4>. QED
        BY <2>1, <2>4
    <3>. QED
      BY <2>4, <3>1
  <2>6. SumFunctionOnSet(f, u) = SumFunctionOnSet(g, u)
    BY <2>3, <2>4, <2>5, Zenon
  <2>. QED
    BY <2>6
<1>. QED
  BY <1>1

\* One value changes: so does the sum, by the difference.
LEMMA SumChange ==
  ASSUME NEW f, NEW g, NEW S, IsFiniteSet(S), NEW x \in S,
         \A y \in S : f[y] \in Int, g[x] \in Int, \A y \in S : y # x => g[y] = f[y]
  PROVE  /\ SumFunctionOnSet(g, S) = SumFunctionOnSet(f, S) + (g[x] - f[x])
         /\ SumFunctionOnSet(f, S) \in Int
<1>. DEFINE R == S \ {x}
<1>1. IsFiniteSet(R) /\ \A y \in R : f[y] = g[y]
  BY FS_Subset
<1>2. SumFunctionOnSet(f, R) = SumFunctionOnSet(g, R)
  <2>. HIDE DEF R
  <2>. QED
    BY <1>1, SumSame
<1>3. \A y \in S : g[y] \in Int
  OBVIOUS
<1>4. SumFunctionOnSet(f, S) = f[x] + SumFunctionOnSet(f, R) /\ SumFunctionOnSet(f, R) \in Int
  BY SumRemove
<1>5. SumFunctionOnSet(g, S) = g[x] + SumFunctionOnSet(g, R) /\ SumFunctionOnSet(g, R) \in Int
  BY <1>3, SumRemove
<1>. HIDE DEF R
<1>. QED
  BY <1>2, <1>4, <1>5

\* Values of zero do not count.
LEMMA SumZero ==
  ASSUME NEW f, NEW S, IsFiniteSet(S), \A x \in S : f[x] = 0
  PROVE  SumFunctionOnSet(f, S) = 0
<1>. DEFINE Wrong == {u \in SUBSET S : SumFunctionOnSet(f, u) # 0}
<1>1. Wrong = {}
  <2>. SUFFICES ASSUME Wrong # {} PROVE FALSE
    OBVIOUS
  <2>1. PICK u \in Wrong : \A v \in Wrong : Cardinality(u) <= Cardinality(v)
    <3>1. Wrong \subseteq SUBSET S
      OBVIOUS
    <3>. HIDE DEF Wrong
    <3>. QED
      BY <3>1, LeastSubset
  <2>2. u # {}
    BY SumEmpty
  <2>. DEFINE v == u \ {Chosen(u)}
  <2>3. SumFunctionOnSet(f, u) = f[Chosen(u)] + SumFunctionOnSet(f, v)
    BY <2>2, SumChosen, FS_Subset
  <2>4. /\ v \in SUBSET S /\ Cardinality(v) < Cardinality(u) /\ f[Chosen(u)] = 0
        /\ Cardinality(v) \in Nat /\ Cardinality(u) \in Nat
    BY <2>2, ChosenIn, Smaller
  <2>5. SumFunctionOnSet(f, v) = 0
    <3>1. v \notin Wrong
      <4>. HIDE DEF Wrong, v
      <4>. QED
        BY <2>1, <2>4
    <3>. QED
      BY <2>4, <3>1
  <2>6. SumFunctionOnSet(f, u) = 0
    BY <2>3, <2>4, <2>5
  <2>. QED
    BY <2>6
<1>. QED
  BY <1>1

\* The sum does not depend on how the elements are named.
LEMMA SumRenamed ==
  ASSUME NEW S, IsFiniteSet(S), NEW f, NEW g, NEW b,
         \A x, y \in S : b[x] = b[y] => x = y,
         \A x \in S : g[x] = f[b[x]] /\ g[x] \in Int,
         NEW U, \A z : z \in U <=> \E x \in S : z = b[x]
  PROVE  SumFunctionOnSet(g, S) = SumFunctionOnSet(f, U)
<1>. DEFINE Image(u) == {b[x] : x \in u}
            Wrong == {u \in SUBSET S :
                        SumFunctionOnSet(g, u) # SumFunctionOnSet(f, Image(u))}
<1>0. ASSUME NEW u \in SUBSET S
      PROVE  IsFiniteSet(Image(u)) /\ IsFiniteSet(u) /\ \A z \in Image(u) : f[z] \in Int
  <2>1. IsFiniteSet(u)
    BY FS_Subset
  <2>2. IsFiniteSet(Image(u))
    <3>. DEFINE h == [x \in u |-> b[x]]
    <3>1. h \in Surjection(u, Image(u))
      BY DEF Surjection
    <3>. HIDE DEF h, Image
    <3>. QED
      BY <2>1, <3>1, FS_Surjection
  <2>. QED
    BY <2>1, <2>2
<1>1. Wrong = {}
  <2>. SUFFICES ASSUME Wrong # {} PROVE FALSE
    OBVIOUS
  <2>1. PICK u \in Wrong : \A v \in Wrong : Cardinality(u) <= Cardinality(v)
    <3>1. Wrong \subseteq SUBSET S
      OBVIOUS
    <3>. HIDE DEF Wrong
    <3>. QED
      BY <3>1, LeastSubset
  <2>2. u # {}
    <3>1. u = {} => Image(u) = {}
      OBVIOUS
    <3>. QED
      BY <3>1, SumEmpty, Zenon
  <2>. DEFINE c == Chosen(u)
              v == u \ {c}
  <2>3. u \in SUBSET S /\ c \in u /\ v \in SUBSET S
    BY <2>2, ChosenIn
  <2>4. SumFunctionOnSet(g, u) = g[c] + SumFunctionOnSet(g, v)
    BY <2>2, SumChosen, FS_Subset
  <2>5. Image(u) \ {b[c]} = Image(v) /\ b[c] \in Image(u)
    <3>. HIDE DEF c
    <3>. QED
      BY <2>3
  <2>6. SumFunctionOnSet(f, Image(u)) = f[b[c]] + SumFunctionOnSet(f, Image(v))
    <3>1. IsFiniteSet(Image(u)) /\ \A z \in Image(u) : f[z] \in Int
      BY <1>0, <2>3
    <3>2. SumFunctionOnSet(f, Image(u)) = f[b[c]] + SumFunctionOnSet(f, Image(u) \ {b[c]})
      <4>. HIDE DEF Image, c, v
      <4>. QED
        BY <2>5, <3>1, SumRemove
    <3>. QED
      BY <2>5, <3>2, Zenon
  <2>7. SumFunctionOnSet(g, v) = SumFunctionOnSet(f, Image(v))
    <3>1. /\ Cardinality(v) = Cardinality(u) - 1
          /\ Cardinality(v) \in Nat /\ Cardinality(u) \in Nat
      <4>. HIDE DEF Wrong, c
      <4>. QED
        BY <2>3, Smaller
    <3>2. v \notin Wrong
      <4>. HIDE DEF Wrong, v
      <4>. QED
        BY <2>1, <3>1
    <3>. QED
      BY <2>3, <3>2
  <2>8. g[c] = f[b[c]]
    BY <2>3
  <2>9. SumFunctionOnSet(g, u) = SumFunctionOnSet(f, Image(u))
    BY <2>4, <2>6, <2>7, <2>8, Zenon
  <2>. QED
    BY <2>9
<1>2. SumFunctionOnSet(g, S) = SumFunctionOnSet(f, Image(S))
  BY <1>1
<1>3. Image(S) = U
  OBVIOUS
<1>. QED
  BY <1>2, <1>3, Zenon

\* The sum of values of at least m each.
LEMMA SumAtLeast ==
  ASSUME NEW m \in Nat, NEW f, NEW S, IsFiniteSet(S), \A x \in S : f[x] \in Nat /\ f[x] >= m
  PROVE  SumFunctionOnSet(f, S) >= Cardinality(S) * m /\ SumFunctionOnSet(f, S) \in Nat
<1>. DEFINE Wrong == {u \in SUBSET S : ~(SumFunctionOnSet(f, u) >= Cardinality(u) * m)}
<1>0. ASSUME NEW u \in SUBSET S
      PROVE  IsFiniteSet(u) /\ SumFunctionOnSet(f, u) \in Nat /\ Cardinality(u) \in Nat
  <2>1. IsFiniteSet(u) /\ Cardinality(u) \in Nat /\ \A x \in u : f[x] \in Nat
    BY FS_Subset, FS_CardinalityType
  <2>. QED
    BY <2>1, SumType
<1>1. Wrong = {}
  <2>. SUFFICES ASSUME Wrong # {} PROVE FALSE
    OBVIOUS
  <2>1. PICK u \in Wrong : \A v \in Wrong : Cardinality(u) <= Cardinality(v)
    <3>1. Wrong \subseteq SUBSET S
      OBVIOUS
    <3>. HIDE DEF Wrong
    <3>. QED
      BY <3>1, LeastSubset
  <2>2. u # {}
    <3>1. u = {} => SumFunctionOnSet(f, u) = 0 /\ Cardinality(u) = 0
      BY SumEmpty, FS_EmptySet
    <3>. QED
      BY <3>1
  <2>. DEFINE c == Chosen(u)
              v == u \ {c}
  <2>3. u \in SUBSET S /\ c \in u /\ v \in SUBSET S
    BY <2>2, ChosenIn
  <2>4. SumFunctionOnSet(f, u) = f[c] + SumFunctionOnSet(f, v)
    BY <2>2, <2>3, <1>0, SumChosen
  <2>5. /\ Cardinality(v) = Cardinality(u) - 1
        /\ Cardinality(v) \in Nat /\ Cardinality(u) \in Nat
    <3>. HIDE DEF Wrong, c
    <3>. QED
      BY <2>3, Smaller
  <2>6. SumFunctionOnSet(f, v) >= Cardinality(v) * m
    <3>1. v \notin Wrong
      <4>. HIDE DEF Wrong, v
      <4>. QED
        BY <2>1, <2>5
    <3>. QED
      BY <2>3, <3>1
  <2>7. SumFunctionOnSet(f, v) \in Nat /\ f[c] \in Nat /\ f[c] >= m
    <3>1. f[c] \in Nat /\ f[c] >= m
      BY <2>3
    <3>2. SumFunctionOnSet(f, v) \in Nat
      <4>. HIDE DEF v
      <4>. QED
        BY <1>0, <2>3
    <3>. QED
      BY <3>1, <3>2
  <2>8. (Cardinality(u) - 1) * m = Cardinality(u) * m - m
    BY <2>5
  <2>9. Cardinality(u) * m \in Int
    BY <2>5
  <2>10. SumFunctionOnSet(f, u) >= Cardinality(u) * m
    <3>. HIDE DEF v, c
    <3>. QED
      BY <2>4, <2>5, <2>6, <2>7, <2>8, <2>9
  <2>. QED
    BY <2>10
<1>. QED
  BY <1>0, <1>1

\* The sums of two functions on a set that differ at x only.
LEMMA SumFunctionChange ==
  ASSUME NEW S, IsFiniteSet(S), NEW f \in [S -> Int], NEW g \in [S -> Int], NEW x \in S,
         \A y \in S : y # x => g[y] = f[y]
  PROVE  /\ SumFunction(g) = SumFunction(f) + (g[x] - f[x])
         /\ SumFunction(f) \in Int /\ SumFunction(g) \in Int
<1>1. SumFunctionOnSet(g, S) = SumFunctionOnSet(f, S) + (g[x] - f[x])
        /\ SumFunctionOnSet(f, S) \in Int /\ SumFunctionOnSet(g, S) \in Int
  BY SumChange, SumType
<1>2. DOMAIN f = S /\ DOMAIN g = S
  OBVIOUS
<1>. QED
  BY <1>1, <1>2, Zenon DEF SumFunction

\* A value more adds to the sum.
LEMMA SumOneMore ==
  ASSUME NEW n \in Nat, NEW s \in [1 .. n -> Int], NEW t \in [1 .. n + 1 -> Int],
         \A i \in 1 .. n : t[i] = s[i]
  PROVE  /\ SumFunction(t) = SumFunction(s) + t[n + 1]
         /\ SumFunction(s) \in Int
<1>. DEFINE D == 1 .. n
<1>1. /\ IsFiniteSet(D) /\ n + 1 \notin D /\ DOMAIN s = D /\ DOMAIN t = D \union {n + 1}
      /\ \A i \in D : s[i] \in Int /\ t[i] = s[i]
      /\ \A i \in D \union {n + 1} : t[i] \in Int
  <2>1. IsFiniteSet(D)
    BY FS_Interval
  <2>2. n + 1 \notin D /\ 1 .. n + 1 = D \union {n + 1}
    OBVIOUS
  <2>. QED
    BY <2>1, <2>2
<1>3. SumFunctionOnSet(t, D) = SumFunctionOnSet(s, D) /\ SumFunctionOnSet(s, D) \in Int
  <2>. HIDE DEF D
  <2>. QED
    BY <1>1, SumSame, SumType
<1>4. SumFunctionOnSet(t, D \union {n + 1}) = SumFunctionOnSet(t, D) + t[n + 1]
  <2>. HIDE DEF D
  <2>. QED
    BY <1>1, SumAdd
<1>. QED
  BY <1>1, <1>3, <1>4, Zenon DEF SumFunction

LEMMA SumAppend ==
  ASSUME NEW s \in Seq(Int), NEW x \in Int
  PROVE  /\ SumFunction(Append(s, x)) = SumFunction(s) + x
         /\ SumFunction(s) \in Int
<1>. DEFINE n == Len(s)
            t == Append(s, x)
<1>1. n \in Nat /\ s \in [1 .. n -> Int] /\ t \in [1 .. n + 1 -> Int] /\ t[n + 1] = x
      /\ \A i \in 1 .. n : t[i] = s[i]
  <2>1. n \in Nat /\ s \in [1 .. n -> Int]
    OBVIOUS
  <2>2. t \in Seq(Int) /\ Len(t) = n + 1 /\ t[n + 1] = x /\ \A i \in 1 .. n : t[i] = s[i]
    OBVIOUS
  <2>3. t \in [1 .. n + 1 -> Int]
    <3>. HIDE DEF t, n
    <3>. QED
      BY <2>2
  <2>. QED
    BY <2>1, <2>2, <2>3
<1>. HIDE DEF t, n
<1>2. SumFunction(t) = SumFunction(s) + t[n + 1] /\ SumFunction(s) \in Int
  BY <1>1, SumOneMore
<1>. QED
  BY <1>1, <1>2 DEF t
=============================================================================
