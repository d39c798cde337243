----------------------------- MODULE SumTheorems -----------------------------
(***************************************************************************)
(* Facts about the sum of a function over a finite set, for the proofs     *)
(* about byte counts, budgets and tickets.  SumFunctionOnSet is a fold: a  *)
(* recursive function over the subsets.  Its value is the number of units  *)
(* the function hands out, w[x] of them to every x (SumIsUnits): counting  *)
(* the units satisfies the fold's equation, and a least set on which the   *)
(* two differ would violate it.  The other facts are facts about           *)
(* cardinalities then.                                                     *)
(***************************************************************************)
EXTENDS Naturals, Functions, FiniteSetTheorems, FunctionTheorems, TLAPS

\* The units w hands out to the members of T.
Units(w, T) == UNION {{x} \X (1..w[x]) : x \in T}

\* One member has as many units as its share.
LEMMA UnitsOfOne ==
    ASSUME NEW x, NEW n \in Nat
    PROVE  IsFiniteSet({x} \X (1..n)) /\ Cardinality({x} \X (1..n)) = n
<1>1. IsFiniteSet({x}) /\ Cardinality({x}) = 1
  BY FS_Singleton
<1>2. IsFiniteSet(1..n) /\ Cardinality(1..n) = n
  BY FS_Interval
<1>3. /\ IsFiniteSet({x} \X (1..n))
      /\ Cardinality({x} \X (1..n)) = Cardinality({x}) * Cardinality(1..n)
  BY <1>1, <1>2, FS_Product, Zenon
<1>4. 1 * n = n
  OBVIOUS
<1>. QED  BY <1>1, <1>2, <1>3, <1>4

\* A finite set has finitely many units.
LEMMA UnitsFinite ==
    ASSUME NEW T, IsFiniteSet(T), NEW w, \A x \in T : w[x] \in Nat
    PROVE  IsFiniteSet(Units(w, T)) /\ Cardinality(Units(w, T)) \in Nat
<1>. DEFINE f == [x \in T |-> {x} \X (1..w[x])]
            R == {{x} \X (1..w[x]) : x \in T}
<1>1. f \in Surjection(T, R)
  BY DEF Surjection
<1>2. IsFiniteSet(R)
  BY <1>1, FS_Surjection
<1>3. \A A \in R : IsFiniteSet(A)
  <2>. SUFFICES ASSUME NEW x \in T PROVE IsFiniteSet({x} \X (1..w[x]))
    OBVIOUS
  <2>. QED  BY UnitsOfOne
<1>4. IsFiniteSet(UNION R)
  BY <1>2, <1>3, FS_UNION
<1>. QED  BY <1>4, FS_CardinalityType DEF Units

\* The units of a set are those of one member and those of the others.
LEMMA UnitsAdd ==
    ASSUME NEW T, IsFiniteSet(T), NEW w, \A y \in T : w[y] \in Nat, NEW x \in T
    PROVE  Cardinality(Units(w, T)) = w[x] + Cardinality(Units(w, T \ {x}))
<1>. DEFINE A == {x} \X (1..w[x])
            B == Units(w, T \ {x})
<1>1. Units(w, T) = A \cup B
  BY Zenon DEF Units
<1>2. A \cap B = {}
  BY DEF Units
<1>3. IsFiniteSet(A) /\ Cardinality(A) = w[x]
  BY UnitsOfOne
<1>4. IsFiniteSet(B) /\ Cardinality(B) \in Nat
  <2>1. IsFiniteSet(T \ {x}) /\ \A y \in T \ {x} : w[y] \in Nat
    BY FS_RemoveElement
  <2>. QED  BY <2>1, UnitsFinite
<1>. HIDE DEF A, B
<1>5. Cardinality(A \cap B) = 0
  BY <1>2, FS_EmptySet
<1>6. Cardinality(A \cup B) = Cardinality(A) + Cardinality(B) - Cardinality(A \cap B)
  BY <1>3, <1>4, FS_Union
<1>. QED  BY <1>1, <1>3, <1>4, <1>5, <1>6 DEF B

\* The equation of the fold.
SumStep(w, S, g) ==
    g = [T \in SUBSET S |-> IF T = {} THEN 0
                            ELSE LET x == CHOOSE x \in T : TRUE IN w[x] + g[T \ {x}]]

\* A sum counts the units.
LEMMA SumIsUnits ==
    ASSUME NEW S, IsFiniteSet(S), NEW w, \A x \in S : w[x] \in Nat
    PROVE  SumFunctionOnSet(w, S) = Cardinality(Units(w, S))
<1>. DEFINE h == [T \in SUBSET S |-> Cardinality(Units(w, T))]
            it == CHOOSE g : SumStep(w, S, g)
<1>1. ASSUME NEW T \in SUBSET S
      PROVE  h[T] = IF T = {} THEN 0
                    ELSE LET x == CHOOSE x \in T : TRUE IN w[x] + h[T \ {x}]
  <2>1. CASE T = {}
    BY <2>1, FS_EmptySet DEF Units
  <2>2. CASE T # {}
    <3>. DEFINE x == CHOOSE x \in T : TRUE
    <3>1. x \in T
      BY <2>2
    <3>2. IsFiniteSet(T) /\ \A y \in T : w[y] \in Nat
      BY FS_Subset
    <3>. HIDE DEF x
    <3>3. h[T] = w[x] + h[T \ {x}]
      BY <3>1, <3>2, UnitsAdd
    <3>. QED  BY <2>2, <3>3 DEF x
  <2>. QED  BY <2>1, <2>2
<1>2. SumStep(w, S, h)
  BY <1>1, Zenon DEF SumStep
<1>3. SumStep(w, S, it)
  BY <1>2
<1>4. SumFunctionOnSet(w, S) = it[S]
  BY DEF SumFunctionOnSet, FoldFunctionOnSet, MapThenFoldSet, SumStep
<1>. HIDE DEF it
<1>5. \A T \in SUBSET S : it[T] = h[T]
  <2>. DEFINE bad == {T \in SUBSET S : it[T] # h[T]}
  <2>1. SUFFICES ASSUME bad # {} PROVE FALSE
    OBVIOUS
  <2>2. IsWellFoundedOn(StrictSubsetOrdering(S), SUBSET S)
    BY FS_StrictSubsetOrderingWellFounded, FS_FiniteSubsetsOfFinite
  <2>3. PICK T \in bad : \A U \in bad : <<U, T>> \notin StrictSubsetOrdering(S)
    BY <2>1, <2>2, WFMin
  <2>4. it[T] = IF T = {} THEN 0
                ELSE LET x == CHOOSE x \in T : TRUE IN w[x] + it[T \ {x}]
    BY <1>3, <2>3, Zenon DEF SumStep
  <2>5. T # {}
    BY <1>1, <2>3, <2>4
  <2>. DEFINE x == CHOOSE x \in T : TRUE
  <2>6. x \in T
    BY <2>5
  <2>7. it[T] = w[x] + it[T \ {x}] /\ h[T] = w[x] + h[T \ {x}]
    BY <1>1, <2>3, <2>4, <2>5
  <2>. HIDE DEF x, h
  <2>8. T \ {x} \in SUBSET S /\ <<T \ {x}, T>> \in StrictSubsetOrdering(S)
    BY <2>3, <2>6 DEF StrictSubsetOrdering
  <2>9. it[T \ {x}] = h[T \ {x}]
    BY <2>3, <2>8
  <2>. QED  BY <2>3, <2>7, <2>9
<1>. QED  BY <1>4, <1>5

-----------------------------------------------------------------------------
(***************************************************************************)
(* What the proofs cite.                                                   *)
(***************************************************************************)

\* A sum of naturals is a natural.
LEMMA SumType ==
    ASSUME NEW S, IsFiniteSet(S), NEW w, \A x \in S : w[x] \in Nat
    PROVE  SumFunctionOnSet(w, S) \in Nat
BY SumIsUnits, UnitsFinite

LEMMA SumEmpty ==
    ASSUME NEW w
    PROVE  SumFunctionOnSet(w, {}) = 0
<1>1. Units(w, {}) = {}
  BY DEF Units
<1>. QED  BY <1>1, SumIsUnits, FS_EmptySet

\* Only the values on the set count.
LEMMA SumSame ==
    ASSUME NEW S, IsFiniteSet(S), NEW w, NEW v,
           \A x \in S : w[x] \in Nat /\ v[x] = w[x]
    PROVE  SumFunctionOnSet(v, S) = SumFunctionOnSet(w, S)
<1>1. Units(w, S) = Units(v, S)
  BY DEF Units
<1>. QED  BY <1>1, SumIsUnits

\* One member's share, taken out.
LEMMA SumRemove ==
    ASSUME NEW S, IsFiniteSet(S), NEW w, \A y \in S : w[y] \in Nat, NEW x \in S
    PROVE  SumFunctionOnSet(w, S) = w[x] + SumFunctionOnSet(w, S \ {x})
<1>1. IsFiniteSet(S \ {x}) /\ \A y \in S \ {x} : w[y] \in Nat
  BY FS_RemoveElement
<1>. QED  BY <1>1, SumIsUnits, UnitsAdd

\* Changing one member's share changes the sum by as much.
LEMMA SumChange ==
    ASSUME NEW S, IsFiniteSet(S), NEW w, NEW v, NEW x \in S,
           \A y \in S : w[y] \in Nat /\ v[y] \in Nat,
           \A y \in S \ {x} : v[y] = w[y]
    PROVE  SumFunctionOnSet(v, S) + w[x] = SumFunctionOnSet(w, S) + v[x]
<1>. DEFINE R == S \ {x}
<1>1. IsFiniteSet(R) /\ SumFunctionOnSet(v, R) = SumFunctionOnSet(w, R)
  BY FS_RemoveElement, SumSame
<1>2. SumFunctionOnSet(w, R) \in Nat
  BY <1>1, SumType
<1>3. /\ SumFunctionOnSet(w, S) = w[x] + SumFunctionOnSet(w, R)
      /\ SumFunctionOnSet(v, S) = v[x] + SumFunctionOnSet(v, R)
  BY SumRemove
<1>. QED  BY <1>1, <1>2, <1>3

\* The sum over two disjoint sets.
LEMMA SumUnion ==
    ASSUME NEW A, NEW B, IsFiniteSet(A), IsFiniteSet(B), A \cap B = {},
           NEW w, \A x \in A \cup B : w[x] \in Nat
    PROVE  SumFunctionOnSet(w, A \cup B) = SumFunctionOnSet(w, A) + SumFunctionOnSet(w, B)
<1>1. Units(w, A \cup B) = Units(w, A) \cup Units(w, B)
  BY DEF Units
<1>2. Units(w, A) \cap Units(w, B) = {}
  BY DEF Units
<1>3. /\ IsFiniteSet(A \cup B)
      /\ IsFiniteSet(Units(w, A)) /\ Cardinality(Units(w, A)) \in Nat
      /\ IsFiniteSet(Units(w, B)) /\ Cardinality(Units(w, B)) \in Nat
  BY UnitsFinite, FS_Union
<1>4. Cardinality(Units(w, A) \cup Units(w, B))
        = Cardinality(Units(w, A)) + Cardinality(Units(w, B))
  <2>. DEFINE U == Units(w, A)
              V == Units(w, B)
  <2>1. Cardinality(U \cup V) = Cardinality(U) + Cardinality(V) - Cardinality(U \cap V)
    BY <1>3, FS_Union
  <2>2. Cardinality(U \cap V) = 0
    BY <1>2, FS_EmptySet
  <2>3. Cardinality(U) \in Nat /\ Cardinality(V) \in Nat
    BY <1>3
  <2>. HIDE DEF U, V
  <2>4. Cardinality(U \cup V) = Cardinality(U) + Cardinality(V)
    BY <2>1, <2>2, <2>3
  <2>. QED  BY <2>4 DEF U, V
<1>5. SumFunctionOnSet(w, A \cup B) = Cardinality(Units(w, A \cup B))
  BY <1>3, SumIsUnits
<1>6. /\ SumFunctionOnSet(w, A) = Cardinality(Units(w, A))
      /\ SumFunctionOnSet(w, B) = Cardinality(Units(w, B))
  BY SumIsUnits
<1>. QED  BY <1>1, <1>4, <1>5, <1>6, Zenon

\* A set of zeros.
LEMMA SumZero ==
    ASSUME NEW S, IsFiniteSet(S), NEW w, \A x \in S : w[x] = 0
    PROVE  SumFunctionOnSet(w, S) = 0
<1>1. Units(w, S) = {}
  BY DEF Units
<1>. QED  BY <1>1, SumIsUnits, FS_EmptySet

\* The same shares under other names.
LEMMA SumRename ==
    ASSUME NEW S, IsFiniteSet(S), NEW T, NEW f \in Bijection(S, T),
           NEW w, NEW v, \A x \in S : w[x] \in Nat /\ v[f[x]] = w[x]
    PROVE  SumFunctionOnSet(v, T) = SumFunctionOnSet(w, S)
<1>. DEFINE U == Units(w, S)
            V == Units(v, T)
            g == [u \in U |-> <<f[u[1]], u[2]>>]
<1>0. /\ f \in [S -> T] /\ \A a, b \in S : f[a] = f[b] => a = b
      /\ \A t \in T : \E s \in S : f[s] = t
  BY DEF Bijection, Injection, Surjection, IsInjective
<1>1. \A u : u \in U <=> \E x \in S : \E n \in 1..w[x] : u = <<x, n>>
  BY DEF Units
<1>2. \A u : u \in V <=> \E y \in T : \E n \in 1..v[y] : u = <<y, n>>
  BY DEF Units
<1>. HIDE DEF U, V
<1>3. g \in [U -> V]
  BY <1>0, <1>1, <1>2
<1>4. \A a, b \in U : g[a] = g[b] => a = b
  BY <1>0, <1>1
<1>5. \A b \in V : \E a \in U : g[a] = b
  <2>. SUFFICES ASSUME NEW b \in V PROVE \E a \in U : g[a] = b
    OBVIOUS
  <2>1. PICK y \in T : \E n \in 1..v[y] : b = <<y, n>>
    BY <1>2
  <2>0. PICK n \in 1..v[y] : b = <<y, n>>
    BY <2>1
  <2>2. PICK x \in S : f[x] = y
    BY <1>0
  <2>3. n \in 1..w[x] /\ <<x, n>> \in U
    BY <1>1, <2>2
  <2>4. g[<<x, n>>] = b
    BY <2>0, <2>2, <2>3
  <2>. QED  BY <2>3, <2>4
<1>6. g \in Bijection(U, V)
  BY <1>3, <1>4, <1>5 DEF Bijection, Injection, Surjection, IsInjective
<1>7. IsFiniteSet(U) /\ IsFiniteSet(T)
  BY UnitsFinite, FS_Surjection DEF U, Bijection
<1>8. Cardinality(U) = Cardinality(V)
  BY <1>6, <1>7, FS_Bijection, Zenon DEF ExistsBijection
<1>9. \A y \in T : v[y] \in Nat
  BY <1>0
<1>. QED  BY <1>7, <1>8, <1>9, SumIsUnits DEF U, V
===============================================================================
