----------------------------- MODULE FiniteProofs ---------------------------
(***************************************************************************)
(* Facts about finite sets that the other proofs need, for every finite    *)
(* set and function: what SumFunctionOnSet of the community modules        *)
(* returns, and that a set of numbers has a least one.                     *)
(*                                                                         *)
(* The sum is defined by recursion over the set, and the provers have no   *)
(* induction over an operator.  So the sum is counted instead: it is the   *)
(* number of units of all elements together, which the facts about         *)
(* cardinalities speak of.  In the same way an induction over numbers is   *)
(* an argument about the least number that is not in a set.                *)
(***************************************************************************)
EXTENDS Integers, FiniteSetsExt, FiniteSetTheorems, WellFoundedInduction, TLAPS

\* One pair for each unit that f counts for an element of S.
Units(f, S) == UNION {{x} \X (1..f[x]) : x \in S}

\* Nothing has no units.
LEMMA UnitsEmpty == ASSUME NEW f PROVE Units(f, {}) = {}
BY DEF Units

\* A finite set has finitely many units.
LEMMA UnitsFinite ==
    ASSUME NEW S, IsFiniteSet(S), NEW f, \A x \in S : f[x] \in Nat
    PROVE  IsFiniteSet(Units(f, S)) /\ Cardinality(Units(f, S)) \in Nat
<1> DEFINE cells == {{x} \X (1..f[x]) : x \in S}
           F == [x \in S |-> {x} \X (1..f[x])]
<1>1. F \in Surjection(S, cells)
  BY DEF Surjection
<1>2. IsFiniteSet(cells)
  BY <1>1, FS_Surjection
<1>3. \A T \in cells : IsFiniteSet(T)
  <2>1. ASSUME NEW x \in S PROVE IsFiniteSet({x} \X (1..f[x]))
    <3>1. IsFiniteSet({x})
      BY FS_Singleton
    <3>2. IsFiniteSet(1..f[x])
      BY FS_Interval
    <3> QED BY <3>1, <3>2, FS_Product
  <2> QED BY <2>1
<1>4. IsFiniteSet(Units(f, S))
  BY <1>2, <1>3, FS_UNION DEF Units
<1> QED BY <1>4, FS_CardinalityType

\* An element adds the units it has.
LEMMA UnitsAdd ==
    ASSUME NEW S, IsFiniteSet(S), NEW f, \A x \in S : f[x] \in Nat, NEW x \in S
    PROVE  Cardinality(Units(f, S)) = f[x] + Cardinality(Units(f, S \ {x}))
<1> DEFINE A == {x} \X (1..f[x])
           B == Units(f, S \ {x})
<1>1. IsFiniteSet(S \ {x})
  BY FS_RemoveElement
<1>2. IsFiniteSet(B) /\ Cardinality(B) \in Nat
  BY <1>1, UnitsFinite
<1>3. IsFiniteSet(A) /\ Cardinality(A) = f[x]
  <2>1. IsFiniteSet({x}) /\ Cardinality({x}) = 1
    BY FS_Singleton
  <2>2. IsFiniteSet(1..f[x]) /\ Cardinality(1..f[x]) = f[x]
    BY FS_Interval
  <2> QED BY <2>1, <2>2, FS_Product
<1>4. Units(f, S) = A \cup B
  BY DEF Units
<1>5. A \cap B = {}
  BY DEF Units
<1>6. Cardinality(A \cap B) = 0
  BY <1>5, FS_EmptySet
<1> HIDE DEF A, B
<1>7. Cardinality(A \cup B) = Cardinality(A) + Cardinality(B) - Cardinality(A \cap B)
  BY <1>2, <1>3, FS_Union
<1> QED BY <1>2, <1>3, <1>4, <1>6, <1>7 DEF A, B

\* The sum over a finite set is the number of its units.  (If it were not, some
\* smallest subset would have a wrong sum; taking an element away mends it.)
THEOREM SumIsUnits ==
    ASSUME NEW S, IsFiniteSet(S), NEW f, \A x \in S : f[x] \in Nat
    PROVE  SumFunctionOnSet(f, S) = Cardinality(Units(f, S))
<1> DEFINE Rec(g) == g = [T \in SUBSET S |->
                       IF T = {} THEN 0
                       ELSE LET x == CHOOSE x \in T : TRUE IN f[x] + g[T \ {x}]]
           count == [T \in SUBSET S |-> Cardinality(Units(f, T))]
           sum == CHOOSE g : Rec(g)
           Wrong == {T \in SUBSET S : sum[T] # Cardinality(Units(f, T))}
<1>1. SumFunctionOnSet(f, S) = sum[S]
  BY DEF SumFunctionOnSet, FoldFunctionOnSet, MapThenFoldSet
<1>2. Rec(count)
  <2>1. ASSUME NEW T \in SUBSET S, T # {}
        PROVE  LET x == CHOOSE x \in T : TRUE IN count[T] = f[x] + count[T \ {x}]
    <3> DEFINE x == CHOOSE x \in T : TRUE
    <3>1. x \in T
      BY <2>1
    <3>2. IsFiniteSet(T)
      BY FS_Subset
    <3> HIDE DEF x
    <3>3. Cardinality(Units(f, T)) = f[x] + Cardinality(Units(f, T \ {x}))
      BY <3>1, <3>2, UnitsAdd
    <3>4. count[T] = f[x] + count[T \ {x}]
      BY <3>1, <3>3
    <3> QED BY <3>4 DEF x
  <2>2. count[{}] = 0
    BY UnitsEmpty, FS_EmptySet
  <2> QED BY <2>1, <2>2
<1>3. Rec(sum)
  <2> HIDE DEF Rec
  <2> QED BY <1>2
<1>4. Wrong = {}
  <2> HIDE DEF sum
  <2>1. SUFFICES ASSUME Wrong # {} PROVE FALSE
    OBVIOUS
  <2>2. PICK T \in Wrong : \A U \in Wrong : ~(<<U, T>> \in StrictSubsetOrdering(S))
    <3>1. IsWellFoundedOn(StrictSubsetOrdering(S), FiniteSubsetsOf(S))
      BY FS_StrictSubsetOrderingWellFounded
    <3>2. Wrong \subseteq FiniteSubsetsOf(S)
      BY FS_Subset DEF FiniteSubsetsOf
    <3> QED BY <2>1, <3>1, <3>2, WFMin
  <2>3. T # {}
    BY <1>3, UnitsEmpty, FS_EmptySet
  <2> DEFINE x == CHOOSE x \in T : TRUE
  <2>4. x \in T
    BY <2>3
  <2>5. sum[T] = f[x] + sum[T \ {x}]
    BY <1>3, <2>3
  <2> HIDE DEF x
  <2>6. sum[T \ {x}] = Cardinality(Units(f, T \ {x}))
    <3>1. <<T \ {x}, T>> \in StrictSubsetOrdering(S)
      BY <2>4 DEF StrictSubsetOrdering
    <3> QED BY <2>2, <3>1
  <2>7. IsFiniteSet(T)
    BY FS_Subset
  <2>8. Cardinality(Units(f, T)) = f[x] + Cardinality(Units(f, T \ {x}))
    BY <2>4, <2>7, UnitsAdd
  <2> QED BY <2>5, <2>6, <2>8
<1> QED
  <2> HIDE DEF sum
  <2> QED BY <1>1, <1>4
-----------------------------------------------------------------------------
(* What the proofs about budgets and balances use.                         *)

\* A sum of natural numbers is one.
LEMMA SumType ==
    ASSUME NEW S, IsFiniteSet(S), NEW f, \A x \in S : f[x] \in Nat
    PROVE  SumFunctionOnSet(f, S) \in Nat
BY SumIsUnits, UnitsFinite

\* The sum over nothing is zero.
LEMMA SumEmpty == ASSUME NEW f PROVE SumFunctionOnSet(f, {}) = 0
<1>1. IsFiniteSet({}) /\ Cardinality({}) = 0
  BY FS_EmptySet
<1>2. SumFunctionOnSet(f, {}) = Cardinality(Units(f, {}))
  BY <1>1, SumIsUnits
<1> QED BY <1>1, <1>2, UnitsEmpty

\* The sum depends only on the values the function has in the set.
LEMMA SumSame ==
    ASSUME NEW S, IsFiniteSet(S), NEW f, NEW g,
           \A x \in S : f[x] \in Nat, \A x \in S : g[x] = f[x]
    PROVE  SumFunctionOnSet(g, S) = SumFunctionOnSet(f, S)
<1>1. Units(g, S) = Units(f, S)
  BY DEF Units
<1> QED BY <1>1, SumIsUnits

\* Taking an element away takes its value off the sum.
LEMMA SumRemove ==
    ASSUME NEW S, IsFiniteSet(S), NEW f, \A x \in S : f[x] \in Nat, NEW x \in S
    PROVE  /\ SumFunctionOnSet(f, S) = f[x] + SumFunctionOnSet(f, S \ {x})
           /\ SumFunctionOnSet(f, S \ {x}) \in Nat
<1>1. IsFiniteSet(S \ {x})
  BY FS_RemoveElement
<1>2. SumFunctionOnSet(f, S) = Cardinality(Units(f, S))
  BY SumIsUnits
<1>3. SumFunctionOnSet(f, S \ {x}) = Cardinality(Units(f, S \ {x}))
  BY <1>1, SumIsUnits
<1> QED BY <1>1, <1>2, <1>3, UnitsAdd, SumType

\* Putting a new element in adds its value.
LEMMA SumInsert ==
    ASSUME NEW S, IsFiniteSet(S), NEW f, NEW x, x \notin S,
           \A y \in S \cup {x} : f[y] \in Nat
    PROVE  SumFunctionOnSet(f, S \cup {x}) = f[x] + SumFunctionOnSet(f, S)
<1>1. IsFiniteSet(S \cup {x}) /\ (S \cup {x}) \ {x} = S
  BY FS_AddElement
<1> QED BY <1>1, SumRemove

\* A part sums to no more than the whole.
LEMMA SumSubset ==
    ASSUME NEW S, IsFiniteSet(S), NEW f, \A x \in S : f[x] \in Nat, NEW T \in SUBSET S
    PROVE  SumFunctionOnSet(f, T) <= SumFunctionOnSet(f, S)
<1>1. IsFiniteSet(T)
  BY FS_Subset
<1>2. Units(f, T) \subseteq Units(f, S)
  BY DEF Units
<1>3. Cardinality(Units(f, T)) <= Cardinality(Units(f, S))
  BY <1>2, UnitsFinite, FS_Subset
<1> QED BY <1>1, <1>3, SumIsUnits

\* Two parts that share nothing sum up to the sum of the whole.
LEMMA SumUnion ==
    ASSUME NEW S, IsFiniteSet(S), NEW T, IsFiniteSet(T), S \cap T = {},
           NEW f, \A x \in S \cup T : f[x] \in Nat
    PROVE  SumFunctionOnSet(f, S \cup T) = SumFunctionOnSet(f, S) + SumFunctionOnSet(f, T)
<1> DEFINE A == Units(f, S)
           B == Units(f, T)
<1>1. /\ IsFiniteSet(A) /\ Cardinality(A) \in Nat
      /\ IsFiniteSet(B) /\ Cardinality(B) \in Nat
  BY UnitsFinite
<1>2. Units(f, S \cup T) = A \cup B /\ A \cap B = {}
  BY DEF Units
<1>3. IsFiniteSet(S \cup T)
  BY FS_Union
<1>4. Cardinality(A \cap B) = 0
  BY <1>2, FS_EmptySet
<1>5. /\ SumFunctionOnSet(f, S \cup T) = Cardinality(Units(f, S \cup T))
      /\ SumFunctionOnSet(f, S) = Cardinality(A) /\ SumFunctionOnSet(f, T) = Cardinality(B)
  BY <1>3, SumIsUnits
<1> HIDE DEF A, B
<1>6. Cardinality(A \cup B) = Cardinality(A) + Cardinality(B) - Cardinality(A \cap B)
  BY <1>1, FS_Union
<1> QED BY <1>1, <1>2, <1>4, <1>5, <1>6

\* What is counted under one name each in a finite set sums up to no more there.
LEMMA SumInjects ==
    ASSUME NEW S, NEW T, IsFiniteSet(T), NEW f, NEW g, NEW h \in Injection(S, T),
           \A y \in T : g[y] \in Nat, \A x \in S : f[x] = g[h[x]]
    PROVE  IsFiniteSet(S) /\ SumFunctionOnSet(f, S) <= SumFunctionOnSet(g, T)
<1> DEFINE A == Units(f, S)
           B == Units(g, T)
           move == [u \in A |-> <<h[u[1]], u[2]>>]
<1>1. IsFiniteSet(S)
  BY FS_Injection
<1>2. /\ \A x \in S : h[x] \in T
      /\ \A x, y \in S : h[x] = h[y] => x = y
  BY DEF Injection, IsInjective
<1>3. \A x \in S : f[x] \in Nat
  BY <1>2
<1>4. \A u \in A : u = <<u[1], u[2]>> /\ u[1] \in S /\ u[2] \in 1..f[u[1]]
  BY DEF Units
<1>5. \A u \in A : move[u] \in B
  BY <1>2, <1>4 DEF Units
<1>6. ASSUME NEW u \in A, NEW v \in A, move[u] = move[v] PROVE u = v
  <2>1. h[u[1]] = h[v[1]] /\ u[2] = v[2]
    BY <1>6
  <2> QED BY <1>2, <1>4, <2>1
<1>7. move \in Injection(A, B)
  BY <1>5, <1>6 DEF Injection, IsInjective
<1>8. IsFiniteSet(B)
  BY UnitsFinite
<1>9. Cardinality(A) <= Cardinality(B)
  BY <1>7, <1>8, FS_Injection
<1> QED BY <1>1, <1>3, <1>9, SumIsUnits

-----------------------------------------------------------------------------
\* A finite set of numbers has a least one.
LEMMA HasLeast ==
    ASSUME NEW S, S \subseteq Nat, IsFiniteSet(S), S # {}
    PROVE  \E c \in S : \A other \in S : c <= other
  <1> DEFINE Below(c) == {n \in S : n < c}
             all == {Below(c) : c \in S}
  <1>1. IsWellFoundedOn(StrictSubsetOrdering(S), FiniteSubsetsOf(S))
    BY FS_StrictSubsetOrderingWellFounded
  <1>2. all \subseteq FiniteSubsetsOf(S)
    BY FS_Subset DEF FiniteSubsetsOf
  <1>3. PICK T \in all : \A U \in all : ~(<<U, T>> \in StrictSubsetOrdering(S))
    <2>1. all # {}  OBVIOUS
    <2> HIDE DEF all
    <2> QED  BY <1>1, <1>2, <2>1, WFMin
  <1>4. PICK c \in S : T = Below(c)
    BY <1>3
  <1>5. ASSUME NEW n \in S, n < c PROVE FALSE
    <2>1. Below(n) \in all /\ Below(n) \subseteq S /\ Below(c) \subseteq S
      OBVIOUS
    <2>2. Below(n) \subseteq Below(c) /\ Below(n) # Below(c)
      <3>1. n \in Below(c) /\ n \notin Below(n)
        BY <1>5
      <3>2. \A m \in S : m < n => m < c
        BY <1>5
      <3>3. Below(n) \subseteq Below(c)
        BY <3>2
      <3> HIDE DEF Below
      <3> QED  BY <3>1, <3>3
    <2> HIDE DEF Below, all
    <2>3. <<Below(n), Below(c)>> \in StrictSubsetOrdering(S)
      BY <2>1, <2>2 DEF StrictSubsetOrdering
    <2> QED  BY <1>3, <1>4, <2>1, <2>3
  <1> QED  BY <1>5

\* Induction over 1..n, for a set.
LEMMA UpTo ==
    ASSUME NEW n \in Nat, NEW Good, n > 0 => 1 \in Good,
           \A m \in 2..n : m - 1 \in Good => m \in Good
    PROVE  1..n \subseteq Good
  <1> DEFINE Wrong == (1..n) \ Good
  <1> SUFFICES ASSUME Wrong # {} PROVE FALSE
    OBVIOUS
  <1>1. Wrong \subseteq Nat /\ Wrong \subseteq 1..n /\ IsFiniteSet(1..n)
    BY FS_Interval
  <1>2. PICK m \in Wrong : \A other \in Wrong : m <= other
    <2> HIDE DEF Wrong
    <2>1. IsFiniteSet(Wrong)  BY <1>1, FS_Subset
    <2> QED  BY <1>1, <2>1, HasLeast
  <1>3. m \in 2..n /\ m - 1 \in 1..n /\ m \notin Good
    OBVIOUS
  <1>4. m - 1 \notin Wrong
    BY <1>2, <1>3
  <1> QED  BY <1>3, <1>4
=============================================================================
