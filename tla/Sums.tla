-------------------------------- MODULE Sums --------------------------------
(***************************************************************************)
(* What the money figures of the other modules rest on: SumFunctionOnSet,  *)
(* the sum of a function over a finite set, adds every element once in     *)
(* whatever order it takes them.                                           *)
(*                                                                         *)
(* SumFunctionOnSet is a recursive function on the subsets of the set that *)
(* takes out one element, Pick, after another.  First that function is     *)
(* shown to exist; every fact after it is an induction over the subsets,   *)
(* in the form "a smallest subset on which it fails has none smaller".  The*)
(* same is then done for a recursion over 0 .. N, step by step.            *)
(***************************************************************************)
EXTENDS Functions, FiniteSetTheorems, TLAPS

Pick(s) == CHOOSE x \in s : TRUE
\* `it` adds f up over the subsets of S.
Adds(it, f, S) ==
    it = [s \in SUBSET S |-> IF s = {} THEN 0 ELSE f[Pick(s)] + it[s \ {Pick(s)}]]

\* The community module's sum is the value of such a function on the whole set.
LEMMA SumIsIterate ==
    ASSUME NEW f, NEW S
    PROVE  SumFunctionOnSet(f, S) = (CHOOSE it : Adds(it, f, S))[S]
  BY DEF SumFunctionOnSet, FoldFunctionOnSet, MapThenFoldSet, Adds, Pick

\* Induction over the subsets of a finite set: any family of them has a smallest.
LEMMA Smallest ==
    ASSUME NEW S, IsFiniteSet(S), NEW Q \in SUBSET SUBSET S, Q # {}
    PROVE  \E T \in Q : \A U \in Q : U \subseteq T => U = T
  <1>1. IsWellFoundedOn(StrictSubsetOrdering(S), FiniteSubsetsOf(S))
    BY FS_StrictSubsetOrderingWellFounded
  <1>2. Q \subseteq FiniteSubsetsOf(S)
    BY FS_FiniteSubsetsOfFinite
  <1>3. \E T \in Q : \A U \in Q : ~ (<<U, T>> \in StrictSubsetOrdering(S))
    BY <1>1, <1>2, WFMin
  <1> QED
    BY <1>3 DEF StrictSubsetOrdering

\* What is taken out of a set that is not empty is in it.
LEMMA PickIn == ASSUME NEW s, s # {} PROVE Pick(s) \in s
  BY DEF Pick

\* Two such functions agree on the subsets both are defined on.
LEMMA AddsEqual ==
    ASSUME NEW f, NEW S, IsFiniteSet(S), NEW it, Adds(it, f, S),
           NEW T \in SUBSET S, NEW jt, Adds(jt, f, T)
    PROVE  it[T] = jt[T]
  <1> DEFINE Q == {U \in SUBSET T : it[U] # jt[U]}
  <1>1. SUFFICES ASSUME Q # {} PROVE FALSE
    <2>1. T \notin Q
      BY <1>1
    <2> QED
      BY <2>1
  <1>2. Q \in SUBSET SUBSET S
    OBVIOUS
  <1> HIDE DEF Q
  <1>3. PICK U \in Q : \A V \in Q : V \subseteq U => V = U
    BY <1>1, <1>2, Smallest
  <1> USE DEF Q
  <1>4. /\ it[U] = (IF U = {} THEN 0 ELSE f[Pick(U)] + it[U \ {Pick(U)}])
        /\ jt[U] = (IF U = {} THEN 0 ELSE f[Pick(U)] + jt[U \ {Pick(U)}])
    BY DEF Adds
  <1>5. U # {}
    BY <1>4
  <1>6. U \ {Pick(U)} \notin Q
    BY <1>3, <1>5, PickIn
  <1>7. it[U \ {Pick(U)}] = jt[U \ {Pick(U)}]
    BY <1>6
  <1> QED
    BY <1>4, <1>5, <1>7

\* There is such a function for every finite set.
LEMMA AddsExists ==
    ASSUME NEW f, NEW S, IsFiniteSet(S)
    PROVE  \E it : Adds(it, f, S)
  <1> DEFINE Q == {T \in SUBSET S : ~ \E it : Adds(it, f, T)}
             at(T) == CHOOSE it : Adds(it, f, T)
  <1>1. SUFFICES ASSUME Q # {} PROVE FALSE
    <2>1. S \notin Q
      BY <1>1
    <2> QED
      BY <2>1
  <1>2. Q \in SUBSET SUBSET S
    OBVIOUS
  <1> HIDE DEF Q
  <1>3. PICK T \in Q : \A V \in Q : V \subseteq T => V = T
    BY <1>1, <1>2, Smallest
  <1>3a. T \in SUBSET S /\ IsFiniteSet(T)
    BY FS_Subset DEF Q
  <1>4. ASSUME NEW U \in SUBSET T, U # T PROVE Adds(at(U), f, U)
    BY <1>3, <1>3a, <1>4 DEF Q
  <1> HIDE DEF at
  <1> DEFINE it == [s \in SUBSET T |->
                      IF s = {} THEN 0 ELSE f[Pick(s)] + at(s \ {Pick(s)})[s \ {Pick(s)}]]
  <1>5. ASSUME NEW s \in SUBSET T, s # T
        PROVE  it[s] = at(s)[s]
    <2>1. at(s)[s] = (IF s = {} THEN 0 ELSE f[Pick(s)] + at(s)[s \ {Pick(s)}])
      BY <1>4, <1>5 DEF Adds
    <2>2. CASE s = {}
      BY <2>1, <2>2
    <2>3. CASE s # {}
      <3> DEFINE r == s \ {Pick(s)}
      <3>1. r \in SUBSET s /\ r # T
        BY <1>5
      <3>2. IsFiniteSet(s)
        BY <1>3a, FS_Subset
      <3>3. Adds(at(s), f, s) /\ Adds(at(r), f, r)
        BY <1>4, <1>5, <3>1
      <3>4. at(s)[r] = at(r)[r]
        BY <3>1, <3>2, <3>3, AddsEqual
      <3> QED
        BY <2>1, <2>3, <3>4
    <2> QED
      BY <2>2, <2>3
  <1>6. Adds(it, f, T)
    <2>1. ASSUME NEW s \in SUBSET T, s # {}
          PROVE  it[s \ {Pick(s)}] = at(s \ {Pick(s)})[s \ {Pick(s)}]
      BY <1>5, <2>1, PickIn
    <2> QED
      BY <2>1 DEF Adds
  <1> QED
    BY <1>3, <1>6 DEF Q

\* The defining equation of the sum.
LEMMA SumStep ==
    ASSUME NEW f, NEW S, IsFiniteSet(S), S # {}
    PROVE  SumFunctionOnSet(f, S) = f[Pick(S)] + SumFunctionOnSet(f, S \ {Pick(S)})
  <1> DEFINE r == S \ {Pick(S)}
             it == CHOOSE i : Adds(i, f, S)
             jt == CHOOSE i : Adds(i, f, r)
  <1>1. IsFiniteSet(r)
    BY FS_Subset
  <1>2. Adds(it, f, S) /\ Adds(jt, f, r)
    BY <1>1, AddsExists
  <1>3. SumFunctionOnSet(f, S) = it[S] /\ SumFunctionOnSet(f, r) = jt[r]
    BY SumIsIterate
  <1> HIDE DEF it, jt
  <1>4. it[S] = f[Pick(S)] + it[r]
    BY <1>2 DEF Adds
  <1>5. it[r] = jt[r]
    BY <1>2, AddsEqual
  <1> QED
    BY <1>3, <1>4, <1>5

\* Nothing adds up to nil.
LEMMA SumNone == ASSUME NEW f PROVE SumFunctionOnSet(f, {}) = 0
  <1>1. PICK it : Adds(it, f, {})
    BY FS_EmptySet, AddsExists
  <1>2. Adds(CHOOSE i : Adds(i, f, {}), f, {})
    BY <1>1
  <1> QED
    BY <1>2, SumIsIterate DEF Adds

\* A sum of integers is an integer.
LEMMA SumInt ==
    ASSUME NEW f, NEW S, IsFiniteSet(S), \A x \in S : f[x] \in Int
    PROVE  SumFunctionOnSet(f, S) \in Int
  <1> DEFINE Q == {T \in SUBSET S : SumFunctionOnSet(f, T) \notin Int}
  <1>1. SUFFICES ASSUME Q # {} PROVE FALSE
    <2>1. S \notin Q
      BY <1>1
    <2> QED
      BY <2>1
  <1>2. Q \in SUBSET SUBSET S
    OBVIOUS
  <1> HIDE DEF Q
  <1>3. PICK T \in Q : \A V \in Q : V \subseteq T => V = T
    BY <1>1, <1>2, Smallest
  <1> USE DEF Q
  <1>4. IsFiniteSet(T)
    BY FS_Subset
  <1>5. T # {}
    BY SumNone
  <1>6. Pick(T) \in T
    BY <1>5, PickIn
  <1>7. SumFunctionOnSet(f, T \ {Pick(T)}) \in Int
    BY <1>3, <1>6
  <1>8. f[Pick(T)] \in Int
    BY <1>6
  <1> QED
    BY <1>4, <1>5, <1>7, <1>8, SumStep

\* Any element may be taken out first: the order of the addition is no matter.
LEMMA SumWithout ==
    ASSUME NEW f, NEW S, IsFiniteSet(S), \A x \in S : f[x] \in Int, NEW y \in S
    PROVE  SumFunctionOnSet(f, S) = f[y] + SumFunctionOnSet(f, S \ {y})
  <1> DEFINE Sum(T) == SumFunctionOnSet(f, T)
             Q == {T \in SUBSET S : \E z \in T : Sum(T) # f[z] + Sum(T \ {z})}
  <1>1. SUFFICES ASSUME Q # {} PROVE FALSE
    <2>1. S \notin Q
      BY <1>1
    <2> QED
      BY <2>1
  <1>2. Q \in SUBSET SUBSET S
    OBVIOUS
  <1> HIDE DEF Q
  <1>3. PICK T \in Q : \A V \in Q : V \subseteq T => V = T
    BY <1>1, <1>2, Smallest
  <1>4. T \in SUBSET S
    BY DEF Q
  <1>4a. PICK z \in T : Sum(T) # f[z] + Sum(T \ {z})
    BY DEF Q
  <1> DEFINE p == Pick(T)
  <1>5. p \in T
    BY PickIn
  <1>6. ASSUME NEW U \in SUBSET T PROVE IsFiniteSet(U) /\ Sum(U) \in Int
    <2>1. IsFiniteSet(U) /\ \A x \in U : f[x] \in Int
      BY <1>4, FS_Subset
    <2> QED
      BY <2>1, SumInt
  <1>7. Sum(T) = f[p] + Sum(T \ {p})
    BY <1>4a, <1>6, SumStep
  <1>8. p # z
    BY <1>4a, <1>7
  <1> HIDE DEF p
  <1>9. Sum(T \ {p}) = f[z] + Sum((T \ {p}) \ {z})
    <2>1. T \ {p} \notin Q /\ z \in T \ {p}
      BY <1>3, <1>5, <1>8
    <2> QED
      BY <2>1, <1>4 DEF Q
  <1>10. Sum(T \ {z}) = f[p] + Sum((T \ {z}) \ {p})
    <2>1. T \ {z} \notin Q /\ p \in T \ {z}
      BY <1>3, <1>5, <1>8
    <2> QED
      BY <2>1, <1>4 DEF Q
  <1>11. (T \ {z}) \ {p} = (T \ {p}) \ {z}
    OBVIOUS
  <1>12. f[p] \in Int /\ f[z] \in Int /\ Sum((T \ {p}) \ {z}) \in Int
    BY <1>4, <1>5, <1>6
  <1>13. Sum((T \ {z}) \ {p}) = Sum((T \ {p}) \ {z})
    BY <1>11
  <1> HIDE DEF Sum
  <1> QED
    BY <1>4a, <1>7, <1>9, <1>10, <1>13, <1>12

\* The sum depends only on what the function is on the set.
LEMMA SumSame ==
    ASSUME NEW f, NEW g, NEW S, IsFiniteSet(S), \A x \in S : f[x] = g[x]
    PROVE  SumFunctionOnSet(f, S) = SumFunctionOnSet(g, S)
  <1> DEFINE Q == {T \in SUBSET S : SumFunctionOnSet(f, T) # SumFunctionOnSet(g, T)}
  <1>1. SUFFICES ASSUME Q # {} PROVE FALSE
    <2>1. S \notin Q
      BY <1>1
    <2> QED
      BY <2>1
  <1>2. Q \in SUBSET SUBSET S
    OBVIOUS
  <1> HIDE DEF Q
  <1>3. PICK T \in Q : \A V \in Q : V \subseteq T => V = T
    BY <1>1, <1>2, Smallest
  <1> USE DEF Q
  <1>4. IsFiniteSet(T)
    BY FS_Subset
  <1>5. T # {}
    BY SumNone
  <1>6. Pick(T) \in T
    BY <1>5, PickIn
  <1>7. SumFunctionOnSet(f, T \ {Pick(T)}) = SumFunctionOnSet(g, T \ {Pick(T)})
    BY <1>3, <1>6
  <1>8. f[Pick(T)] = g[Pick(T)]
    BY <1>6
  <1> QED
    BY <1>4, <1>5, <1>7, <1>8, SumStep

\* The sum of two functions, element by element, is the sum of their sums.
LEMMA SumBoth ==
    ASSUME NEW f, NEW g, NEW h, NEW S, IsFiniteSet(S),
           \A x \in S : f[x] \in Int /\ g[x] \in Int /\ h[x] = f[x] + g[x]
    PROVE  SumFunctionOnSet(h, S) = SumFunctionOnSet(f, S) + SumFunctionOnSet(g, S)
  <1> DEFINE Sf(T) == SumFunctionOnSet(f, T)
             Sg(T) == SumFunctionOnSet(g, T)
             Sh(T) == SumFunctionOnSet(h, T)
             Q == {T \in SUBSET S : Sh(T) # Sf(T) + Sg(T)}
  <1>1. SUFFICES ASSUME Q # {} PROVE FALSE
    <2>1. S \notin Q
      BY <1>1
    <2> QED
      BY <2>1
  <1>2. Q \in SUBSET SUBSET S
    OBVIOUS
  <1> HIDE DEF Q
  <1>3. PICK T \in Q : \A V \in Q : V \subseteq T => V = T
    BY <1>1, <1>2, Smallest
  <1>4. T \in SUBSET S /\ Sh(T) # Sf(T) + Sg(T)
    BY DEF Q
  <1>5. IsFiniteSet(T)
    BY <1>4, FS_Subset
  <1>6. T # {}
    <2>1. T = {} => Sf(T) = 0 /\ Sg(T) = 0 /\ Sh(T) = 0
      BY SumNone
    <2> HIDE DEF Sf, Sg, Sh
    <2> QED
      BY <2>1, <1>4
  <1> DEFINE p == Pick(T)
             r == T \ {p}
  <1>7. p \in T
    BY <1>6, PickIn
  <1>8. r \notin Q
    BY <1>3, <1>7
  <1>9. Sh(r) = Sf(r) + Sg(r)
    BY <1>8, <1>4 DEF Q
  <1>10. Sf(T) = f[p] + Sf(r) /\ Sg(T) = g[p] + Sg(r) /\ Sh(T) = h[p] + Sh(r)
    BY <1>5, <1>6, SumStep
  <1>11. f[p] \in Int /\ g[p] \in Int /\ h[p] = f[p] + g[p]
    BY <1>4, <1>7
  <1>12. Sf(r) \in Int /\ Sg(r) \in Int
    <2>1. IsFiniteSet(r) /\ \A x \in r : f[x] \in Int /\ g[x] \in Int
      BY <1>4, <1>5, FS_Subset
    <2> QED
      BY <2>1, SumInt
  <1> HIDE DEF Sf, Sg, Sh, p, r
  <1> QED
    BY <1>4, <1>9, <1>10, <1>11, <1>12

\* One more element adds its own figure.
LEMMA SumGrows ==
    ASSUME NEW f, NEW g, NEW S, IsFiniteSet(S), NEW y, y \notin S, g[y] \in Int,
           \A x \in S : f[x] \in Int /\ g[x] = f[x]
    PROVE  SumFunctionOnSet(g, S \union {y}) = SumFunctionOnSet(f, S) + g[y]
  <1>1. IsFiniteSet(S \union {y}) /\ \A x \in S \union {y} : g[x] \in Int
    BY FS_AddElement
  <1>2. SumFunctionOnSet(g, S \union {y}) = g[y] + SumFunctionOnSet(g, (S \union {y}) \ {y})
    BY <1>1, SumWithout
  <1>3. (S \union {y}) \ {y} = S
    OBVIOUS
  <1>4. SumFunctionOnSet(g, S) = SumFunctionOnSet(f, S) /\ SumFunctionOnSet(f, S) \in Int
    BY SumSame, SumInt
  <1>5. SumFunctionOnSet(g, S \union {y}) = g[y] + SumFunctionOnSet(g, S)
    BY <1>2, <1>3
  <1> QED
    BY <1>4, <1>5

\* A figure that changes changes the sum by as much.
LEMMA SumChanges ==
    ASSUME NEW f, NEW g, NEW S, IsFiniteSet(S), NEW y \in S, g[y] \in Int,
           \A x \in S : f[x] \in Int, \A x \in S \ {y} : g[x] = f[x]
    PROVE  SumFunctionOnSet(g, S) = SumFunctionOnSet(f, S) - f[y] + g[y]
  <1>1. IsFiniteSet(S \ {y}) /\ \A x \in S : g[x] \in Int
    BY FS_Subset
  <1>2. SumFunctionOnSet(g, S) = g[y] + SumFunctionOnSet(g, S \ {y})
    BY <1>1, SumWithout
  <1>3. SumFunctionOnSet(f, S) = f[y] + SumFunctionOnSet(f, S \ {y})
    BY SumWithout
  <1>4. SumFunctionOnSet(g, S \ {y}) = SumFunctionOnSet(f, S \ {y})
    BY <1>1, SumSame
  <1>5. SumFunctionOnSet(f, S \ {y}) \in Int
    BY <1>1, SumInt
  <1> QED
    BY <1>2, <1>3, <1>4, <1>5

\* Larger figures make a larger sum, figure by figure.
LEMMA SumAtMost ==
    ASSUME NEW f, NEW g, NEW S, IsFiniteSet(S),
           \A x \in S : f[x] \in Int /\ g[x] \in Int /\ f[x] <= g[x]
    PROVE  SumFunctionOnSet(f, S) <= SumFunctionOnSet(g, S)
  <1> DEFINE Q == {T \in SUBSET S : ~ SumFunctionOnSet(f, T) <= SumFunctionOnSet(g, T)}
  <1>1. SUFFICES ASSUME Q # {} PROVE FALSE
    <2>1. S \notin Q
      BY <1>1
    <2> QED
      BY <2>1
  <1>2. Q \in SUBSET SUBSET S
    OBVIOUS
  <1> HIDE DEF Q
  <1>3. PICK T \in Q : \A V \in Q : V \subseteq T => V = T
    BY <1>1, <1>2, Smallest
  <1> USE DEF Q
  <1>4. T \in SUBSET S /\ IsFiniteSet(T)
    BY FS_Subset
  <1>5. T # {}
    BY SumNone
  <1> DEFINE p == Pick(T)
             r == T \ {p}
  <1>6. p \in T
    BY <1>5, PickIn
  <1>7. SumFunctionOnSet(f, r) <= SumFunctionOnSet(g, r)
    BY <1>3, <1>6
  <1>8. /\ SumFunctionOnSet(f, T) = f[p] + SumFunctionOnSet(f, r)
        /\ SumFunctionOnSet(g, T) = g[p] + SumFunctionOnSet(g, r)
    BY <1>4, <1>5, SumStep
  <1>9. SumFunctionOnSet(f, r) \in Int /\ SumFunctionOnSet(g, r) \in Int
    <2>1. IsFiniteSet(r) /\ \A x \in r : f[x] \in Int /\ g[x] \in Int
      BY <1>4, FS_Subset
    <2> QED
      BY <2>1, SumInt
  <1>10. f[p] \in Int /\ g[p] \in Int /\ f[p] <= g[p]
    BY <1>4, <1>6
  <1>11. ~ SumFunctionOnSet(f, T) <= SumFunctionOnSet(g, T)
    OBVIOUS
  <1> HIDE DEF Q, p, r
  <1> QED
    BY <1>7, <1>8, <1>9, <1>10, <1>11

\* Nils add up to nil.
LEMMA SumOfNils ==
    ASSUME NEW f, NEW S, IsFiniteSet(S), \A x \in S : f[x] = 0
    PROVE  SumFunctionOnSet(f, S) = 0
  <1> DEFINE n == [x \in S |-> 0]
  <1>1. SumFunctionOnSet(n, S) = SumFunctionOnSet(n, S) + SumFunctionOnSet(n, S)
    BY SumBoth
  <1>2. SumFunctionOnSet(n, S) \in Int
    BY SumInt
  <1>3. SumFunctionOnSet(f, S) = SumFunctionOnSet(n, S)
    BY SumSame
  <1>4. SumFunctionOnSet(n, S) = 0
    <2> DEFINE sum == SumFunctionOnSet(n, S)
    <2>1. sum = sum + sum /\ sum \in Int
      BY <1>1, <1>2
    <2> HIDE DEF sum
    <2>2. sum = 0
      BY <2>1
    <2> QED
      BY <2>2 DEF sum
  <1> QED
    BY <1>3, <1>4

\* The same figure over and over adds up to so many times the figure.
LEMMA SumOfSame ==
    ASSUME NEW f, NEW S, IsFiniteSet(S), NEW c \in Int, \A x \in S : f[x] = c
    PROVE  SumFunctionOnSet(f, S) = c * Cardinality(S)
  <1> DEFINE Q == {T \in SUBSET S : SumFunctionOnSet(f, T) # c * Cardinality(T)}
  <1>1. SUFFICES ASSUME Q # {} PROVE FALSE
    <2>1. S \notin Q
      BY <1>1
    <2> QED
      BY <2>1
  <1>2. Q \in SUBSET SUBSET S
    OBVIOUS
  <1> HIDE DEF Q
  <1>3. PICK T \in Q : \A V \in Q : V \subseteq T => V = T
    BY <1>1, <1>2, Smallest
  <1> USE DEF Q
  <1>4. IsFiniteSet(T)
    BY FS_Subset
  <1>5. T # {}
    BY SumNone, FS_EmptySet
  <1>6. PICK y : y \in T
    BY <1>5
  <1>7. /\ IsFiniteSet(T \ {y})
        /\ Cardinality(T \ {y}) = Cardinality(T) - 1 /\ Cardinality(T) \in Nat
        /\ Cardinality(T \ {y}) \in Nat
    BY <1>4, <1>6, FS_RemoveElement, FS_CardinalityType
  <1>8. SumFunctionOnSet(f, T \ {y}) = c * Cardinality(T \ {y})
    BY <1>3, <1>6
  <1>9. SumFunctionOnSet(f, T) = f[y] + SumFunctionOnSet(f, T \ {y})
    <2>1. \A x \in T : f[x] \in Int
      OBVIOUS
    <2> QED
      BY <1>4, <1>6, <2>1, SumWithout
  <1>10. \A n \in Nat : c * n = c + c * (n - 1)
    OBVIOUS
  <1>11. SumFunctionOnSet(f, T) = c * Cardinality(T)
    BY <1>6, <1>7, <1>8, <1>9, <1>10
  <1> QED
    BY <1>11

\* Figures all times the same number add up to so many times their sum.
LEMMA SumScaled ==
    ASSUME NEW f, NEW g, NEW S, IsFiniteSet(S), NEW c \in Int,
           \A x \in S : f[x] \in Int /\ g[x] = c * f[x]
    PROVE  SumFunctionOnSet(g, S) = c * SumFunctionOnSet(f, S)
  <1> DEFINE Sf(T) == SumFunctionOnSet(f, T)
             Sg(T) == SumFunctionOnSet(g, T)
             Q == {T \in SUBSET S : Sg(T) # c * Sf(T)}
  <1>1. SUFFICES ASSUME Q # {} PROVE FALSE
    <2>1. S \notin Q
      BY <1>1
    <2> QED
      BY <2>1
  <1>2. Q \in SUBSET SUBSET S
    OBVIOUS
  <1> HIDE DEF Q
  <1>3. PICK T \in Q : \A V \in Q : V \subseteq T => V = T
    BY <1>1, <1>2, Smallest
  <1>4. T \in SUBSET S /\ Sg(T) # c * Sf(T)
    BY DEF Q
  <1>5. IsFiniteSet(T)
    BY <1>4, FS_Subset
  <1>6. T # {}
    <2>1. SUFFICES ASSUME T = {} PROVE FALSE
      OBVIOUS
    <2>2. Sf(T) = 0 /\ Sg(T) = 0
      BY <2>1, SumNone
    <2>3. c * 0 = 0
      OBVIOUS
    <2> QED
      BY <1>4, <2>2, <2>3
  <1>7. PICK y : y \in T
    BY <1>6
  <1>8. \A x \in S : g[x] \in Int
    <2>1. \A n \in Int : c * n \in Int
      OBVIOUS
    <2> QED
      BY <2>1
  <1>9. Sf(T) = f[y] + Sf(T \ {y}) /\ Sg(T) = g[y] + Sg(T \ {y})
    BY <1>4, <1>5, <1>7, <1>8, SumWithout
  <1>10. IsFiniteSet(T \ {y}) /\ T \ {y} \in SUBSET S
    BY <1>4, <1>5, FS_Subset
  <1>11. Sg(T \ {y}) = c * Sf(T \ {y})
    BY <1>3, <1>7, <1>10 DEF Q
  <1>12. Sf(T \ {y}) \in Int /\ f[y] \in Int /\ g[y] = c * f[y]
    BY <1>4, <1>7, <1>10, SumInt
  <1>13. \A m, n \in Int : c * (m + n) = c * m + c * n
    OBVIOUS
  <1> QED
    BY <1>4, <1>9, <1>11, <1>12, <1>13

\* Figures none of which is below nil add up to none below it, and to nil only
\* when each of them is.
LEMMA SumOfNaturals ==
    ASSUME NEW f, NEW S, IsFiniteSet(S), \A x \in S : f[x] \in Nat
    PROVE  /\ SumFunctionOnSet(f, S) \in Nat
           /\ SumFunctionOnSet(f, S) = 0 => \A x \in S : f[x] = 0
  <1> DEFINE n == [x \in S |-> 0]
  <1>1. ASSUME NEW T \in SUBSET S PROVE SumFunctionOnSet(f, T) \in Nat
    <2>1. IsFiniteSet(T)
      BY FS_Subset
    <2>2. SumFunctionOnSet(n, T) = 0
      BY <2>1, SumOfNils
    <2>3. SumFunctionOnSet(n, T) <= SumFunctionOnSet(f, T)
      BY <2>1, SumAtMost
    <2>4. SumFunctionOnSet(f, T) \in Int
      BY <2>1, SumInt
    <2> QED
      BY <2>2, <2>3, <2>4
  <1>2. ASSUME NEW x \in S, SumFunctionOnSet(f, S) = 0 PROVE f[x] = 0
    <2>1. SumFunctionOnSet(f, S) = f[x] + SumFunctionOnSet(f, S \ {x})
      BY SumWithout
    <2>2. SumFunctionOnSet(f, S \ {x}) \in Nat
      BY <1>1
    <2> QED
      BY <1>2, <2>1, <2>2
  <1> QED
    BY <1>1, <1>2

\* A sum is the sum over a part and the sum over the rest.
LEMMA SumParts ==
    ASSUME NEW f, NEW S, IsFiniteSet(S), \A x \in S : f[x] \in Int, NEW P \in SUBSET S
    PROVE  SumFunctionOnSet(f, S) = SumFunctionOnSet(f, P) + SumFunctionOnSet(f, S \ P)
  <1> DEFINE Sum(T) == SumFunctionOnSet(f, T)
             Q == {T \in SUBSET S : Sum(S) # Sum(T) + Sum(S \ T)}
  <1>1. SUFFICES ASSUME Q # {} PROVE FALSE
    <2>1. P \notin Q
      BY <1>1
    <2> QED
      BY <2>1
  <1>2. Q \in SUBSET SUBSET S
    OBVIOUS
  <1> HIDE DEF Q
  <1>3. PICK T \in Q : \A V \in Q : V \subseteq T => V = T
    BY <1>1, <1>2, Smallest
  <1>4. T \in SUBSET S /\ Sum(S) # Sum(T) + Sum(S \ T)
    BY DEF Q
  <1>5. ASSUME NEW U \in SUBSET S PROVE IsFiniteSet(U) /\ Sum(U) \in Int
    <2>1. IsFiniteSet(U) /\ \A x \in U : f[x] \in Int
      BY FS_Subset
    <2> QED
      BY <2>1, SumInt
  <1>6. T # {}
    <2>1. ASSUME T = {} PROVE FALSE
      <3>1. Sum(T) = 0 /\ S \ T = S
        BY <2>1, SumNone
      <3>2. Sum(S) \in Int
        BY <1>5
      <3> HIDE DEF Sum
      <3> QED
        BY <1>4, <3>1, <3>2
    <2> QED
      BY <2>1
  <1>7. PICK y \in T : TRUE
    BY <1>6
  <1> DEFINE V == T \ {y}
  <1>8. Sum(S) = Sum(V) + Sum(S \ V)
    <2>1. V \notin Q /\ V \in SUBSET S
      BY <1>3, <1>4
    <2> QED
      BY <2>1 DEF Q
  <1>9. Sum(T) = f[y] + Sum(V)
    <2>1. IsFiniteSet(T) /\ \A x \in T : f[x] \in Int
      BY <1>4, <1>5
    <2> QED
      BY <2>1, SumWithout
  <1>10. Sum(S \ V) = f[y] + Sum(S \ T)
    <2>1. IsFiniteSet(S \ V) /\ (\A x \in S \ V : f[x] \in Int) /\ y \in S \ V
      BY <1>4, <1>5
    <2>2. (S \ V) \ {y} = S \ T
      OBVIOUS
    <2>3. Sum(S \ V) = f[y] + Sum((S \ V) \ {y})
      BY <2>1, SumWithout
    <2> QED
      BY <2>2, <2>3
  <1>11. Sum(V) \in Int /\ Sum(S \ T) \in Int /\ f[y] \in Int
    <2>1. V \in SUBSET S /\ S \ T \in SUBSET S /\ y \in S
      BY <1>4
    <2> QED
      BY <2>1, <1>5
  <1> HIDE DEF Sum, V
  <1> QED
    BY <1>4, <1>8, <1>9, <1>10, <1>11

\* Two sums of which every term of one is a term of the other are the same.
LEMMA SumMatched ==
    ASSUME NEW f, NEW g, NEW S, NEW T, NEW h, IsFiniteSet(S), IsFiniteSet(T),
           \A x \in S : h[x] \in T /\ f[x] \in Int /\ g[h[x]] = f[x],
           \A x, y \in S : h[x] = h[y] => x = y,
           \A z \in T : \E x \in S : h[x] = z
    PROVE  SumFunctionOnSet(f, S) = SumFunctionOnSet(g, T)
  <1> DEFINE Terms(U) == {h[x] : x \in U}
             Q == {U \in SUBSET S : SumFunctionOnSet(f, U) # SumFunctionOnSet(g, Terms(U))}
  <1>1. SUFFICES ASSUME Q # {} PROVE FALSE
    <2>1. S \notin Q
      BY <1>1
    <2>2. Terms(S) = T
      OBVIOUS
    <2> QED
      BY <2>1, <2>2
  <1>2. Q \in SUBSET SUBSET S
    OBVIOUS
  <1> HIDE DEF Q
  <1>3. PICK U \in Q : \A V \in Q : V \subseteq U => V = U
    BY <1>1, <1>2, Smallest
  <1>4. U \in SUBSET S /\ SumFunctionOnSet(f, U) # SumFunctionOnSet(g, Terms(U))
    BY DEF Q
  <1>5. U # {}
    <2>1. ASSUME U = {} PROVE FALSE
      <3>1. Terms(U) = {}
        BY <2>1
      <3> QED
        BY <1>4, <2>1, <3>1, SumNone
    <2> QED
      BY <2>1
  <1>6. PICK y \in U : TRUE
    BY <1>5
  <1> DEFINE V == U \ {y}
  <1>7. SumFunctionOnSet(f, V) = SumFunctionOnSet(g, Terms(V))
    <2>1. V \notin Q /\ V \in SUBSET S
      BY <1>3, <1>4
    <2> QED
      BY <2>1 DEF Q
  <1>8. SumFunctionOnSet(f, U) = f[y] + SumFunctionOnSet(f, V)
    <2>1. IsFiniteSet(U) /\ \A x \in U : f[x] \in Int
      BY <1>4, FS_Subset
    <2> QED
      BY <2>1, SumWithout
  <1>9. SumFunctionOnSet(g, Terms(U)) = g[h[y]] + SumFunctionOnSet(g, Terms(V))
    <2>1. Terms(U) \subseteq T /\ h[y] \in Terms(U)
      BY <1>4
    <2>2. IsFiniteSet(Terms(U))
      BY <2>1, FS_Subset
    <2>3. \A z \in Terms(U) : g[z] \in Int
      BY <1>4
    <2>4. Terms(U) \ {h[y]} = Terms(V)
      BY <1>4
    <2> HIDE DEF Terms, V
    <2>5. SumFunctionOnSet(g, Terms(U)) = g[h[y]] + SumFunctionOnSet(g, Terms(U) \ {h[y]})
      BY <2>1, <2>2, <2>3, SumWithout
    <2> QED
      BY <2>4, <2>5
  <1>10. f[y] = g[h[y]]
    BY <1>4
  <1> QED
    BY <1>4, <1>7, <1>8, <1>9, <1>10

---------------------------------------------------------------------------
(* Figures worked out step by step: recursive functions on 0 .. N. *)
\* Induction over 0 .. N: any part of it has a least element.
LEMMA Least ==
    ASSUME NEW N \in Nat, NEW Q \in SUBSET (0 .. N), Q # {}
    PROVE  \E n \in Q : \A m \in Q : n <= m
  <1> DEFINE all == 0 .. N
             R   == {0 .. n : n \in Q}
  <1>1. IsFiniteSet(all)
    BY FS_Interval
  <1>2. R \in SUBSET SUBSET all
    <2>1. ASSUME NEW n \in Q PROVE 0 .. n \in SUBSET (0 .. N)
      OBVIOUS
    <2> QED
      BY <2>1
  <1>2a. R # {}
    OBVIOUS
  <1> HIDE DEF R, all
  <1>3. PICK T \in R : \A U \in R : U \subseteq T => U = T
    BY <1>1, <1>2, <1>2a, Smallest
  <1>4. PICK n \in Q : T = 0 .. n
    BY DEF R
  <1>5. ASSUME NEW m \in Q, m < n PROVE FALSE
    <2>1. 0 .. m \in R /\ 0 .. m \subseteq T /\ n \in T /\ n \notin 0 .. m
      BY <1>4, <1>5 DEF R
    <2> QED
      BY <1>3, <2>1
  <1> QED
    BY <1>5

\* Steps that stay in a set end in it.
LEMMA StepsStay ==
    ASSUME NEW N \in Nat, NEW A, NEW g, g[0] \in A,
           \A n \in 1 .. N : g[n - 1] \in A => g[n] \in A
    PROVE  \A n \in 0 .. N : g[n] \in A
  <1> DEFINE Q == {n \in 0 .. N : g[n] \notin A}
  <1>1. SUFFICES ASSUME Q # {} PROVE FALSE
    OBVIOUS
  <1>2. PICK n \in Q : \A m \in Q : n <= m
    BY <1>1, Least
  <1>3. n \in 1 .. N /\ n - 1 \in 0 .. N /\ n - 1 \notin Q
    BY <1>2
  <1> QED
    BY <1>3

\* Steps each of which is defined on a set are defined one after another.
Runs(g, n, A, base, step) ==
    /\ g \in [0 .. n -> A] /\ g[0] = base
    /\ \A k \in 1 .. n : g[k] = step[k][g[k - 1]]
LEMMA StepsExist ==
    ASSUME NEW N \in Nat, NEW A, NEW base \in A, NEW step \in [1 .. N -> [A -> A]]
    PROVE  \E g : Runs(g, N, A, base, step)
  <1> DEFINE Ends(g, n) == Runs(g, n, A, base, step)
             Q == {n \in 0 .. N : ~ \E g : Ends(g, n)}
  <1>1. SUFFICES ASSUME Q # {} PROVE FALSE
    <2>1. N \notin Q
      BY <1>1
    <2> QED
      BY <2>1
  <1>2. PICK n \in Q : \A m \in Q : n <= m
    BY <1>1, Least
  <1>3. n # 0
    <2>1. Ends([k \in 0 .. 0 |-> base], 0)
      BY DEF Runs
    <2> QED
      BY <2>1
  <1>4. n \in 1 .. N /\ n - 1 \in 0 .. N /\ n - 1 \notin Q
    <2>1. n \in 1 .. N
      BY <1>3
    <2> HIDE DEF Q
    <2> QED
      BY <1>2, <2>1
  <1>5. PICK g : Ends(g, n - 1)
    BY <1>4
  <1> DEFINE h == [k \in 0 .. n |-> IF k = n THEN step[n][g[n - 1]] ELSE g[k]]
  <1>6. Ends(h, n)
    <2>1. step[n][g[n - 1]] \in A
      BY <1>4, <1>5 DEF Runs
    <2>2. h \in [0 .. n -> A] /\ h[0] = base
      BY <1>3, <1>4, <1>5, <2>1 DEF Runs
    <2>3. ASSUME NEW k \in 1 .. n PROVE h[k] = step[k][h[k - 1]]
      <3>1. CASE k = n
        BY <1>4, <3>1
      <3>2. CASE k # n
        BY <1>4, <1>5, <3>2 DEF Runs
      <3> QED
        BY <3>1, <3>2
    <2> QED
      BY <2>2, <2>3 DEF Runs
  <1> QED
    BY <1>6

\* The sum of the figures with their signs turned is the sum with its sign turned.
LEMMA SumNegated ==
    ASSUME NEW f, NEW g, NEW S, IsFiniteSet(S), \A x \in S : f[x] \in Int /\ g[x] = - f[x]
    PROVE  SumFunctionOnSet(g, S) = - SumFunctionOnSet(f, S)
  <1> DEFINE n == [x \in S |-> 0]
             sf == SumFunctionOnSet(f, S)
             sg == SumFunctionOnSet(g, S)
  <1>1. SumFunctionOnSet(n, S) = sf + sg
    <2>1. \A x \in S : f[x] \in Int /\ g[x] \in Int /\ n[x] = f[x] + g[x]
      OBVIOUS
    <2> QED
      BY <2>1, SumBoth
  <1>2. SumFunctionOnSet(n, S) = 0
    BY SumOfNils
  <1>3. sf \in Int /\ sg \in Int
    BY SumInt
  <1>4. sg = - sf
    <2> HIDE DEF n, sf, sg
    <2> QED
      BY <1>1, <1>2, <1>3
  <1> QED
    BY <1>4

\* Figures sorted into groups add up, group by group, to their sum.
LEMMA SumGrouped ==
    ASSUME NEW f, NEW S, IsFiniteSet(S), \A x \in S : f[x] \in Int,
           NEW B, IsFiniteSet(B), NEW key, \A x \in S : key[x] \in B,
           NEW parts, \A b \in B : \A x : x \in parts[b] <=> x \in S /\ key[x] = b,
           NEW groups, \A b \in B : groups[b] = SumFunctionOnSet(f, parts[b])
    PROVE  SumFunctionOnSet(groups, B) = SumFunctionOnSet(f, S)
  <1> DEFINE Group(U, b) == {x \in U : key[x] = b}
             Of(U) == [b \in B |-> SumFunctionOnSet(f, Group(U, b))]
             Q == {U \in SUBSET S : SumFunctionOnSet(Of(U), B) # SumFunctionOnSet(f, U)}
  <1>0. SumFunctionOnSet(groups, B) = SumFunctionOnSet(Of(S), B)
    <2> DEFINE os == Of(S)
    <2>1. ASSUME NEW b \in B PROVE groups[b] = os[b]
      <3>1. parts[b] = Group(S, b)
        OBVIOUS
      <3> QED
        BY <3>1
    <2> HIDE DEF os
    <2>2. SumFunctionOnSet(groups, B) = SumFunctionOnSet(os, B)
      BY <2>1, SumSame
    <2> QED
      BY <2>2 DEF os
  <1>1. SUFFICES ASSUME Q # {} PROVE FALSE
    <2>1. S \notin Q
      BY <1>1
    <2> QED
      BY <2>1, <1>0
  <1>2. Q \in SUBSET SUBSET S
    OBVIOUS
  <1> HIDE DEF Q
  <1>3. PICK U \in Q : \A V \in Q : V \subseteq U => V = U
    BY <1>1, <1>2, Smallest
  <1>4. U \in SUBSET S /\ SumFunctionOnSet(Of(U), B) # SumFunctionOnSet(f, U)
    BY DEF Q
  <1>5. U # {}
    <2>1. ASSUME U = {} PROVE FALSE
      <3>1. \A b \in B : Group(U, b) = {}
        BY <2>1
      <3>2. \A b \in B : Of(U)[b] = 0
        BY <3>1, SumNone
      <3> QED
        BY <1>4, <2>1, <3>2, SumNone, SumOfNils
    <2> QED
      BY <2>1
  <1>6. PICK y \in U : TRUE
    BY <1>5
  <1> DEFINE V == U \ {y}
  <1>7. SumFunctionOnSet(Of(V), B) = SumFunctionOnSet(f, V)
    <2>1. V \notin Q /\ V \in SUBSET S
      BY <1>3, <1>4
    <2> QED
      BY <2>1 DEF Q
  <1>8. \A W \in SUBSET S : IsFiniteSet(W) /\ SumFunctionOnSet(f, W) \in Int
    <2>1. ASSUME NEW W \in SUBSET S PROVE IsFiniteSet(W) /\ \A x \in W : f[x] \in Int
      BY FS_Subset
    <2> QED
      BY <2>1, SumInt
  <1>9. SumFunctionOnSet(f, U) = f[y] + SumFunctionOnSet(f, V)
    <2>1. IsFiniteSet(U) /\ \A x \in U : f[x] \in Int
      BY <1>4, <1>8
    <2> QED
      BY <2>1, SumWithout
  <1>10. \A b \in B : Of(V)[b] \in Int
    BY <1>4, <1>8
  <1>11. Of(U)[key[y]] = f[y] + Of(V)[key[y]]
    <2> DEFINE G == Group(U, key[y])
    <2>1. G \in SUBSET S /\ y \in G /\ \A x \in G : f[x] \in Int
      BY <1>4
    <2>2. IsFiniteSet(G)
      BY <2>1, <1>8
    <2>3. G \ {y} = Group(V, key[y])
      OBVIOUS
    <2>4. key[y] \in B
      BY <1>4
    <2>5. SumFunctionOnSet(f, G) = f[y] + SumFunctionOnSet(f, G \ {y})
      BY <2>1, <2>2, SumWithout
    <2> QED
      BY <2>3, <2>4, <2>5
  <1>12. ASSUME NEW b \in B \ {key[y]} PROVE Of(U)[b] = Of(V)[b]
    <2>1. Group(U, b) = Group(V, b)
      OBVIOUS
    <2> QED
      BY <2>1
  <1>13. key[y] \in B /\ f[y] \in Int
    BY <1>4
  <1> DEFINE ou == Of(U)
             ov == Of(V)
  <1>14. ou[key[y]] \in Int
    BY <1>10, <1>11, <1>13
  <1>15. /\ \A b \in B : ov[b] \in Int
         /\ \A b \in B \ {key[y]} : ou[b] = ov[b]
         /\ ou[key[y]] = f[y] + ov[key[y]]
    BY <1>10, <1>11, <1>12
  <1>16. ov[key[y]] \in Int /\ SumFunctionOnSet(ov, B) \in Int
    BY <1>13, <1>15, SumInt
  <1>17. SumFunctionOnSet(ou, B) # SumFunctionOnSet(f, U) /\ SumFunctionOnSet(ov, B) = SumFunctionOnSet(f, V)
    BY <1>4, <1>7
  <1> HIDE DEF ou, ov, V
  <1>18. SumFunctionOnSet(ou, B) = SumFunctionOnSet(ov, B) - ov[key[y]] + ou[key[y]]
    BY <1>13, <1>14, <1>15, SumChanges
  <1> QED
    BY <1>9, <1>13, <1>15, <1>16, <1>17, <1>18

\* A table's rows and its columns add up to the same.
LEMMA SumSwapped ==
    ASSUME NEW f, NEW S, NEW T, IsFiniteSet(S), IsFiniteSet(T),
           \A x \in S : \A y \in T : f[x][y] \in Int,
           NEW rows, \A x \in S : rows[x] = SumFunctionOnSet(f[x], T),
           NEW turned, \A x \in S : \A y \in T : turned[y][x] = f[x][y],
           NEW columns, \A y \in T : columns[y] = SumFunctionOnSet(turned[y], S)
    PROVE  SumFunctionOnSet(rows, S) = SumFunctionOnSet(columns, T)
  <1> DEFINE Of(U) == [y \in T |-> SumFunctionOnSet(turned[y], U)]
             Q == {U \in SUBSET S : SumFunctionOnSet(Of(U), T) # SumFunctionOnSet(rows, U)}
  <1>0. SumFunctionOnSet(columns, T) = SumFunctionOnSet(Of(S), T)
    <2> DEFINE os == Of(S)
    <2>1. \A y \in T : columns[y] = os[y]
      OBVIOUS
    <2> HIDE DEF os
    <2>2. SumFunctionOnSet(columns, T) = SumFunctionOnSet(os, T)
      BY <2>1, SumSame
    <2> QED
      BY <2>2 DEF os
  <1>1. SUFFICES ASSUME Q # {} PROVE FALSE
    <2>1. S \notin Q
      BY <1>1
    <2> QED
      BY <2>1, <1>0
  <1>2. Q \in SUBSET SUBSET S
    OBVIOUS
  <1> HIDE DEF Q
  <1>3. PICK U \in Q : \A V \in Q : V \subseteq U => V = U
    BY <1>1, <1>2, Smallest
  <1>4. U \in SUBSET S /\ SumFunctionOnSet(Of(U), T) # SumFunctionOnSet(rows, U)
    BY DEF Q
  <1>5. U # {}
    <2>1. ASSUME U = {} PROVE FALSE
      <3>1. \A y \in T : Of(U)[y] = 0
        BY <2>1, SumNone
      <3>2. SumFunctionOnSet(Of(U), T) = 0
        BY <3>1, SumOfNils
      <3> QED
        BY <1>4, <2>1, <3>2, SumNone
    <2> QED
      BY <2>1
  <1>6. PICK p \in U : TRUE
    BY <1>5
  <1> DEFINE V == U \ {p}
  <1>7. SumFunctionOnSet(Of(V), T) = SumFunctionOnSet(rows, V)
    <2>1. V \notin Q /\ V \in SUBSET S
      BY <1>3, <1>4
    <2> QED
      BY <2>1 DEF Q
  <1>8. IsFiniteSet(U) /\ IsFiniteSet(V) /\ p \in S
    BY <1>4, FS_Subset
  <1>9. \A x \in S : rows[x] \in Int
    BY SumInt
  <1>10. SumFunctionOnSet(rows, U) = rows[p] + SumFunctionOnSet(rows, V)
    <2>1. \A x \in U : rows[x] \in Int
      BY <1>4, <1>9
    <2> QED
      BY <1>8, <2>1, SumWithout
  <1>11. ASSUME NEW y \in T
         PROVE  /\ Of(V)[y] \in Int
                /\ Of(U)[y] = f[p][y] + Of(V)[y]
    <2>1. (\A x \in U : turned[y][x] \in Int) /\ (\A x \in V : turned[y][x] \in Int) /\ turned[y][p] = f[p][y]
      BY <1>4, <1>8
    <2>2. SumFunctionOnSet(turned[y], U) = turned[y][p] + SumFunctionOnSet(turned[y], V)
      BY <1>8, <2>1, SumWithout
    <2>3. SumFunctionOnSet(turned[y], V) \in Int
      BY <1>8, <2>1, SumInt
    <2> QED
      BY <2>1, <2>2, <2>3
  <1> DEFINE ou == Of(U)
             ov == Of(V)
             fp == f[p]
  <1>12. \A y \in T : fp[y] \in Int /\ ov[y] \in Int /\ ou[y] = fp[y] + ov[y]
    BY <1>8, <1>11
  <1>13. /\ SumFunctionOnSet(ou, T) # SumFunctionOnSet(rows, U)
         /\ SumFunctionOnSet(ov, T) = SumFunctionOnSet(rows, V)
         /\ rows[p] = SumFunctionOnSet(fp, T)
    BY <1>4, <1>7, <1>8
  <1> HIDE DEF ou, ov, fp, V
  <1>14. SumFunctionOnSet(ou, T) = SumFunctionOnSet(fp, T) + SumFunctionOnSet(ov, T)
    BY <1>12, SumBoth
  <1> QED
    BY <1>10, <1>13, <1>14

=============================================================================
