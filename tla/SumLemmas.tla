------------------------------ MODULE SumLemmas ------------------------------
(***************************************************************************)
(* What SumFunctionOnSet, Min and Max of the community modules return for  *)
(* finite sets, and FoldFunction for products.  The recursion behind them  *)
(* takes the indices in an unknown order, and these lemmas say that the    *)
(* order does not matter.                                                  *)
(* Each induction is the search for a smallest set for which the claim     *)
(* fails, since the induction theorems of the library take an operator,    *)
(* with which the provers cannot deal.                                     *)
(***************************************************************************)
EXTENDS Integers, Functions, FiniteSetsExt, FiniteSetTheorems, WellFoundedInduction, TLAPS

\* Every family of subsets of a finite set has a smallest member.
LEMMA SmallestSubset ==
  ASSUME NEW S, IsFiniteSet(S), NEW B \in SUBSET SUBSET S, B # {}
  PROVE  \E m \in B : \A s \in B : s \subseteq m => s = m
<1>1. IsWellFoundedOn(StrictSubsetOrdering(S), FiniteSubsetsOf(S))
  BY FS_StrictSubsetOrderingWellFounded
<1>2. B \subseteq FiniteSubsetsOf(S)
  BY FS_FiniteSubsetsOfFinite
<1>3. PICK m \in B : \A s \in B : <<s, m>> \notin StrictSubsetOrdering(S)
  BY <1>1, <1>2, WFMin
<1> QED
  BY <1>3 DEF StrictSubsetOrdering

-----------------------------------------------------------------------------
(* The recursion.                                                          *)

Picked(s) == CHOOSE x \in s : TRUE

\* Sums and products are folds of the same kind.
Combine(op, x, y) == IF op = "sum" THEN x + y ELSE x * y
Neutral(op) == IF op = "sum" THEN 0 ELSE 1

Recursion(op, g, f, T) ==
    g = [s \in SUBSET T |->
            IF s = {} THEN Neutral(op) ELSE Combine(op, f[Picked(s)], g[s \ {Picked(s)}])]

TheFold(op, f, T) == CHOOSE g : Recursion(op, g, f, T)
Folded(op, f, T) == TheFold(op, f, T)[T]

LEMMA SumIsFold ==
  ASSUME NEW f, NEW S
  PROVE  SumFunctionOnSet(f, S) = Folded("sum", f, S)
<1> DEFINE R(g) ==
        g = [s \in SUBSET S |-> IF s = {} THEN 0 ELSE f[Picked(s)] + g[s \ {Picked(s)}]]
<1>1. SumFunctionOnSet(f, S) = (CHOOSE g : R(g))[S]
  BY Zenon DEF SumFunctionOnSet, FoldFunctionOnSet, MapThenFoldSet, Picked
<1>2. ASSUME NEW g PROVE R(g) <=> Recursion("sum", g, f, S)
  BY DEF Recursion, Combine, Neutral
<1> HIDE DEF R
<1>3. (CHOOSE g : R(g)) = (CHOOSE g : Recursion("sum", g, f, S))
  BY <1>2
<1> QED
  BY <1>1, <1>3 DEF TheFold, Folded

LEMMA PickedIsMember ==
  ASSUME NEW s, s # {}
  PROVE  Picked(s) \in s
  BY DEF Picked

LEMMA RecursionIsUnique ==
  ASSUME NEW op, NEW f, NEW T, IsFiniteSet(T), NEW g, Recursion(op, g, f, T), NEW h, Recursion(op, h, f, T)
  PROVE  g = h
<1> DEFINE B == {s \in SUBSET T : g[s] # h[s]}
<1>1. \A s \in SUBSET T :
        /\ g[s] = IF s = {} THEN Neutral(op) ELSE Combine(op, f[Picked(s)], g[s \ {Picked(s)}])
        /\ h[s] = IF s = {} THEN Neutral(op) ELSE Combine(op, f[Picked(s)], h[s \ {Picked(s)}])
  BY DEF Recursion
<1>2. B = {}
  <2>1. SUFFICES ASSUME B # {}
                 PROVE  FALSE
    OBVIOUS
  <2>2. PICK m \in B : \A s \in B : s \subseteq m => s = m
    <3>1. B \in SUBSET SUBSET T
      OBVIOUS
    <3> HIDE DEF B
    <3> QED
      BY <2>1, <3>1, SmallestSubset
  <2>3. m # {}
    BY <1>1, <2>2
  <2>4. Picked(m) \in m
    BY <2>3, PickedIsMember
  <2>5. m \ {Picked(m)} \notin B
    BY <2>2, <2>4
  <2> QED
    BY <1>1, <2>2, <2>3, <2>5
<1>3. g = [s \in SUBSET T |-> g[s]] /\ h = [s \in SUBSET T |-> h[s]]
  BY DEF Recursion
<1> QED
  BY <1>2, <1>3

LEMMA RecursionRestricts ==
  ASSUME NEW op, NEW f, NEW T, NEW g, Recursion(op, g, f, T), NEW U \in SUBSET T
  PROVE  Recursion(op, [s \in SUBSET U |-> g[s]], f, U)
<1> DEFINE r == [s \in SUBSET U |-> g[s]]
<1>1. \A s \in SUBSET U : g[s] = IF s = {} THEN Neutral(op) ELSE Combine(op, f[Picked(s)], g[s \ {Picked(s)}])
  BY DEF Recursion
<1>2. \A s \in SUBSET U : s \ {Picked(s)} \in SUBSET U
  OBVIOUS
<1>3. \A s \in SUBSET U : r[s] = IF s = {} THEN Neutral(op) ELSE Combine(op, f[Picked(s)], r[s \ {Picked(s)}])
  BY <1>1, <1>2
<1> QED
  BY <1>3 DEF Recursion

LEMMA RecursionExists ==
  ASSUME NEW op, NEW f, NEW D, IsFiniteSet(D)
  PROVE  \A T \in SUBSET D : Recursion(op, TheFold(op, f, T), f, T)
<1> DEFINE B == {T \in SUBSET D : ~Recursion(op, TheFold(op, f, T), f, T)}
<1>1. SUFFICES ASSUME B # {}
               PROVE  FALSE
  OBVIOUS
<1>2. PICK T \in B : \A s \in B : s \subseteq T => s = T
  <2>1. B \in SUBSET SUBSET D
    OBVIOUS
  <2> HIDE DEF B
  <2> QED
    BY <1>1, <2>1, SmallestSubset
<1>3. \A U \in SUBSET T : IsFiniteSet(U) /\ (U # T => Recursion(op, TheFold(op, f, U), f, U))
  BY <1>2, FS_Subset
<1> DEFINE below(s) == TheFold(op, f, s)[s]
           h == [s \in SUBSET T |->
                    IF s = {} THEN Neutral(op) ELSE Combine(op, f[Picked(s)], below(s \ {Picked(s)}))]
<1>4. ASSUME NEW s \in SUBSET T, s # T
      PROVE  below(s) = IF s = {} THEN Neutral(op) ELSE Combine(op, f[Picked(s)], below(s \ {Picked(s)}))
  <2> DEFINE u == s \ {Picked(s)}
  <2>1. Recursion(op, TheFold(op, f, s), f, s) /\ s \in SUBSET s /\ u \in SUBSET s
    BY <1>3, <1>4
  <2>2. TheFold(op, f, s)[s] = IF s = {} THEN Neutral(op) ELSE Combine(op, f[Picked(s)], TheFold(op, f, s)[u])
    BY <2>1 DEF Recursion
  <2>3. Recursion(op, [v \in SUBSET u |-> TheFold(op, f, s)[v]], f, u)
    <3> HIDE DEF u
    <3> QED
      BY <2>1, RecursionRestricts
  <2>4. u # T /\ IsFiniteSet(u) /\ Recursion(op, TheFold(op, f, u), f, u)
    BY <1>3, <1>4
  <2> HIDE DEF u
  <2>5. TheFold(op, f, u) = [v \in SUBSET u |-> TheFold(op, f, s)[v]]
    BY <2>3, <2>4, RecursionIsUnique
  <2>6. TheFold(op, f, u)[u] = TheFold(op, f, s)[u]
    BY <2>5
  <2> QED
    BY <2>2, <2>6 DEF u
<1>5. \A s \in SUBSET T : s # {} => s \ {Picked(s)} # T /\ s \ {Picked(s)} \in SUBSET T
  BY PickedIsMember
<1>6. \A s \in SUBSET T : s # T => below(s) = h[s]
  BY <1>4
<1> HIDE DEF below
<1>7. \A s \in SUBSET T :
        h[s] = IF s = {} THEN Neutral(op) ELSE Combine(op, f[Picked(s)], h[s \ {Picked(s)}])
  BY <1>5, <1>6
<1>8. Recursion(op, h, f, T)
  BY <1>7 DEF Recursion
<1> HIDE DEF h
<1>9. Recursion(op, TheFold(op, f, T), f, T)
  BY <1>8 DEF TheFold
<1> QED
  BY <1>2, <1>9

-----------------------------------------------------------------------------
(* Folds.                                                                  *)

LEMMA FoldOfNone ==
  ASSUME NEW op, NEW f
  PROVE  Folded(op, f, {}) = Neutral(op)
<1>1. Recursion(op, TheFold(op, f, {}), f, {})
  BY RecursionExists, FS_EmptySet
<1> QED
  BY <1>1 DEF Recursion, Folded

LEMMA FoldPicks ==
  ASSUME NEW op, NEW f, NEW S, IsFiniteSet(S), S # {}
  PROVE  Folded(op, f, S) = Combine(op, f[Picked(S)], Folded(op, f, S \ {Picked(S)}))
<1> DEFINE U == S \ {Picked(S)}
<1>1. Recursion(op, TheFold(op, f, S), f, S) /\ Recursion(op, TheFold(op, f, U), f, U)
  BY RecursionExists
<1>2. TheFold(op, f, S)[S] = Combine(op, f[Picked(S)], TheFold(op, f, S)[U])
  BY <1>1 DEF Recursion
<1>3. U \in SUBSET S /\ IsFiniteSet(U)
  BY FS_Subset
<1> HIDE DEF U
<1>4. Recursion(op, [s \in SUBSET U |-> TheFold(op, f, S)[s]], f, U)
  BY <1>1, <1>3, RecursionRestricts
<1>5. TheFold(op, f, U) = [s \in SUBSET U |-> TheFold(op, f, S)[s]]
  BY <1>1, <1>3, <1>4, RecursionIsUnique
<1>6. TheFold(op, f, U)[U] = TheFold(op, f, S)[U]
  BY <1>5
<1> QED
  BY <1>2, <1>6 DEF U, Folded

\* Folds of integers are integers.
LEMMA FoldIsInteger ==
  ASSUME NEW op, NEW f, NEW S, IsFiniteSet(S), \A x \in S : f[x] \in Int
  PROVE  Folded(op, f, S) \in Int
<1> DEFINE B == {s \in SUBSET S : Folded(op, f, s) \notin Int}
<1>1. SUFFICES ASSUME B # {}
               PROVE  FALSE
  OBVIOUS
<1>2. PICK m \in B : \A s \in B : s \subseteq m => s = m
  <2>1. B \in SUBSET SUBSET S
    OBVIOUS
  <2> HIDE DEF B
  <2> QED
    BY <1>1, <2>1, SmallestSubset
<1>3. m # {} /\ IsFiniteSet(m)
  <2>1. Folded(op, f, {}) \in Int
    BY FoldOfNone DEF Neutral
  <2> QED
    BY <1>2, <2>1, FS_Subset
<1>4. Picked(m) \in m
  BY <1>3, PickedIsMember
<1>5. Folded(op, f, m \ {Picked(m)}) \in Int
  BY <1>2, <1>4
<1> QED
  BY <1>2, <1>3, <1>4, <1>5, FoldPicks DEF Combine

\* Any index may be taken out of a fold.
LEMMA FoldTakesOut ==
  ASSUME NEW op, NEW f, NEW S, IsFiniteSet(S), \A x \in S : f[x] \in Int, NEW y \in S
  PROVE  Folded(op, f, S) = Combine(op, f[y], Folded(op, f, S \ {y}))
<1> DEFINE Fails(s, x) == Folded(op, f, s) # Combine(op, f[x], Folded(op, f, s \ {x}))
           B == {s \in SUBSET S : \E x \in s : Fails(s, x)}
<1>1. SUFFICES ASSUME B # {}
               PROVE  FALSE
  OBVIOUS
<1>2. PICK m \in B : \A s \in B : s \subseteq m => s = m
  <2>1. B \in SUBSET SUBSET S
    OBVIOUS
  <2> HIDE DEF B
  <2> QED
    BY <1>1, <2>1, SmallestSubset
<1>3. PICK x \in m : Fails(m, x)
  BY <1>2
<1> DEFINE p == Picked(m)
<1>4. IsFiniteSet(m) /\ p \in m
  BY <1>2, <1>3, FS_Subset, PickedIsMember
<1>5. Folded(op, f, m) = Combine(op, f[p], Folded(op, f, m \ {p}))
  BY <1>3, <1>4, FoldPicks
<1>6. x # p
  BY <1>3, <1>5
<1>7. m \ {p} \notin B /\ m \ {x} \notin B
  BY <1>2, <1>4
<1>8. Folded(op, f, m \ {p}) = Combine(op, f[x], Folded(op, f, (m \ {p}) \ {x}))
  BY <1>2, <1>6, <1>7
<1>9. Folded(op, f, m \ {x}) = Combine(op, f[p], Folded(op, f, (m \ {x}) \ {p}))
  BY <1>2, <1>4, <1>6, <1>7
<1>10. (m \ {p}) \ {x} = (m \ {x}) \ {p}
  OBVIOUS
<1>11. Folded(op, f, (m \ {p}) \ {x}) \in Int /\ f[x] \in Int /\ f[p] \in Int
  <2>1. (m \ {p}) \ {x} \in SUBSET S
    BY <1>2
  <2>2. IsFiniteSet((m \ {p}) \ {x}) /\ \A z \in (m \ {p}) \ {x} : f[z] \in Int
    BY <2>1, FS_Subset
  <2> QED
    BY <1>2, <1>3, <1>4, <2>2, FoldIsInteger
<1> DEFINE rest == Folded(op, f, (m \ {p}) \ {x})
<1>12. Combine(op, f[p], Combine(op, f[x], rest)) = Combine(op, f[x], Combine(op, f[p], rest))
  <2> HIDE DEF rest, p
  <2>1. rest \in Int /\ f[x] \in Int /\ f[p] \in Int
    BY <1>11 DEF rest
  <2> QED
    BY <2>1 DEF Combine
<1>13. Folded(op, f, m) = Combine(op, f[x], Folded(op, f, m \ {x}))
  BY <1>5, <1>8, <1>9, <1>10, <1>12
<1> QED
  BY <1>3, <1>13

\* Equal amounts have equal folds.
LEMMA FoldsAgree ==
  ASSUME NEW op, NEW f, NEW g, NEW S, IsFiniteSet(S), \A x \in S : f[x] = g[x]
  PROVE  Folded(op, f, S) = Folded(op, g, S)
<1> DEFINE B == {s \in SUBSET S : Folded(op, f, s) # Folded(op, g, s)}
<1>1. SUFFICES ASSUME B # {}
               PROVE  FALSE
  OBVIOUS
<1>2. PICK m \in B : \A s \in B : s \subseteq m => s = m
  <2>1. B \in SUBSET SUBSET S
    OBVIOUS
  <2> HIDE DEF B
  <2> QED
    BY <1>1, <2>1, SmallestSubset
<1>3. m # {} /\ IsFiniteSet(m)
  <2>1. Folded(op, f, {}) = Folded(op, g, {})
    BY FoldOfNone
  <2> QED
    BY <1>2, <2>1, FS_Subset
<1>4. Picked(m) \in m
  BY <1>3, PickedIsMember
<1>5. Folded(op, f, m \ {Picked(m)}) = Folded(op, g, m \ {Picked(m)})
  BY <1>2, <1>4
<1> QED
  BY <1>2, <1>3, <1>4, <1>5, FoldPicks

\* A fold over a larger function is that of the part.
LEMMA FoldsRestrict ==
  ASSUME NEW op, NEW f, NEW S, IsFiniteSet(S)
  PROVE  Folded(op, [x \in S |-> f[x]], S) = Folded(op, f, S)
BY FoldsAgree

-----------------------------------------------------------------------------
(* Products.                                                               *)

\* A product of positive numbers is positive.
LEMMA ProductIsPositive ==
  ASSUME NEW f, NEW S, IsFiniteSet(S), \A x \in S : f[x] \in Nat \ {0}
  PROVE  Folded("product", f, S) \in Nat \ {0}
<1> DEFINE B == {s \in SUBSET S : Folded("product", f, s) \notin Nat \ {0}}
<1>1. SUFFICES ASSUME B # {}
               PROVE  FALSE
  OBVIOUS
<1>2. PICK m \in B : \A s \in B : s \subseteq m => s = m
  <2>1. B \in SUBSET SUBSET S
    OBVIOUS
  <2> HIDE DEF B
  <2> QED
    BY <1>1, <2>1, SmallestSubset
<1>3. m # {} /\ IsFiniteSet(m)
  <2>1. Folded("product", f, {}) = 1
    BY FoldOfNone DEF Neutral
  <2>2. {} \notin B
    BY <2>1
  <2>3. m # {}
    BY <1>2, <2>2
  <2> HIDE DEF B
  <2>4. m \subseteq S
    BY <1>2 DEF B
  <2> QED
    BY <2>3, <2>4, FS_Subset
<1>4. Picked(m) \in m
  BY <1>3, PickedIsMember
<1>5. PICK a, b : a = f[Picked(m)] /\ b = Folded("product", f, m \ {Picked(m)})
  OBVIOUS
<1>6. a \in Nat \ {0} /\ b \in Nat \ {0}
  BY <1>2, <1>4, <1>5
<1>7. a * b \in Nat \ {0}
  BY <1>6
<1>8. Folded("product", f, m) = a * b
  BY <1>3, <1>5, FoldPicks DEF Combine
<1> QED
  BY <1>2, <1>7, <1>8

-----------------------------------------------------------------------------
(* Sums.                                                                   *)

LEMMA SumOfNone ==
  ASSUME NEW f
  PROVE  SumFunctionOnSet(f, {}) = 0
BY FoldOfNone, SumIsFold DEF Neutral

LEMMA SumPicks ==
  ASSUME NEW f, NEW S, IsFiniteSet(S), S # {}
  PROVE  SumFunctionOnSet(f, S) = f[Picked(S)] + SumFunctionOnSet(f, S \ {Picked(S)})
BY FoldPicks, SumIsFold DEF Combine

\* Sums of integers are integers.
LEMMA SumIsInteger ==
  ASSUME NEW f, NEW S, IsFiniteSet(S), \A x \in S : f[x] \in Int
  PROVE  SumFunctionOnSet(f, S) \in Int
BY FoldIsInteger, SumIsFold

\* Any index may be taken out of a sum.
LEMMA SumTakesOut ==
  ASSUME NEW f, NEW S, IsFiniteSet(S), \A x \in S : f[x] \in Int, NEW y \in S
  PROVE  SumFunctionOnSet(f, S) = f[y] + SumFunctionOnSet(f, S \ {y})
BY FoldTakesOut, SumIsFold DEF Combine

\* Equal amounts have equal sums.
LEMMA SumsAgree ==
  ASSUME NEW f, NEW g, NEW S, IsFiniteSet(S), \A x \in S : f[x] = g[x]
  PROVE  SumFunctionOnSet(f, S) = SumFunctionOnSet(g, S)
BY FoldsAgree, SumIsFold

\* A sum of naturals is a natural, and zero only when all of them are.
LEMMA SumIsNatural ==
  ASSUME NEW f, NEW S, IsFiniteSet(S), \A x \in S : f[x] \in Nat
  PROVE  /\ SumFunctionOnSet(f, S) \in Nat
         /\ SumFunctionOnSet(f, S) = 0 <=> \A x \in S : f[x] = 0
<1> DEFINE Good(s) == /\ SumFunctionOnSet(f, s) \in Nat
                      /\ SumFunctionOnSet(f, s) = 0 <=> \A x \in s : f[x] = 0
           B == {s \in SUBSET S : ~Good(s)}
<1>1. SUFFICES ASSUME B # {}
               PROVE  FALSE
  OBVIOUS
<1>2. PICK m \in B : \A s \in B : s \subseteq m => s = m
  <2>1. B \in SUBSET SUBSET S
    OBVIOUS
  <2> HIDE DEF B
  <2> QED
    BY <1>1, <2>1, SmallestSubset
<1>3. m # {} /\ IsFiniteSet(m)
  <2>1. SumFunctionOnSet(f, {}) = 0
    BY SumOfNone
  <2>2. Good({})
    BY <2>1
  <2> HIDE DEF Good
  <2> QED
    BY <1>2, <2>2, FS_Subset
<1>4. Picked(m) \in m
  BY <1>3, PickedIsMember
<1>5. Good(m \ {Picked(m)})
  BY <1>2, <1>4
<1> QED
  BY <1>2, <1>3, <1>4, <1>5, SumPicks

\* A sum of ones and zeros is at most the number of its indices.
LEMMA SumIsBounded ==
  ASSUME NEW f, NEW S, IsFiniteSet(S), \A x \in S : f[x] \in 0 .. 1
  PROVE  SumFunctionOnSet(f, S) \in 0 .. Cardinality(S)
<1> DEFINE Good(s) == SumFunctionOnSet(f, s) \in 0 .. Cardinality(s)
           B == {s \in SUBSET S : ~Good(s)}
<1>1. SUFFICES ASSUME B # {}
               PROVE  FALSE
  OBVIOUS
<1>2. PICK m \in B : \A s \in B : s \subseteq m => s = m
  <2>1. B \in SUBSET SUBSET S
    OBVIOUS
  <2> HIDE DEF B
  <2> QED
    BY <1>1, <2>1, SmallestSubset
<1>3. m # {} /\ IsFiniteSet(m) /\ m \subseteq S
  <2>1. SumFunctionOnSet(f, {}) = 0 /\ Cardinality({}) = 0
    BY SumOfNone, FS_EmptySet
  <2>2. Good({})
    BY <2>1
  <2> HIDE DEF Good
  <2> QED
    BY <1>2, <2>2, FS_Subset
<1>4. Picked(m) \in m
  BY <1>3, PickedIsMember
<1>5. Good(m \ {Picked(m)})
  BY <1>2, <1>4
<1>6. PICK n, r : n = Cardinality(m) /\ r = m \ {Picked(m)}
  OBVIOUS
<1>7. Cardinality(r) = n - 1 /\ n \in Nat
  <2>1. Cardinality(r) = n - 1
    BY <1>3, <1>4, <1>6, FS_RemoveElement
  <2>2. n \in Nat
    BY <1>3, <1>6, FS_CardinalityType
  <2> QED
    BY <2>1, <2>2
<1>8. SumFunctionOnSet(f, m) = f[Picked(m)] + SumFunctionOnSet(f, r)
  BY <1>3, <1>6, SumPicks
<1>9. SumFunctionOnSet(f, r) \in 0 .. n - 1
  BY <1>5, <1>6, <1>7
<1>10. f[Picked(m)] \in 0 .. 1
  BY <1>3, <1>4
<1>11. SumFunctionOnSet(f, m) \in 0 .. n
  BY <1>7, <1>8, <1>9, <1>10
<1> QED
  BY <1>2, <1>6, <1>11

-----------------------------------------------------------------------------
(* Extremes.                                                               *)

\* Of finitely many integers one is not exceeded.
LEMMA SomeHighest ==
  ASSUME NEW f, NEW S, IsFiniteSet(S), S # {}, \A x \in S : f[x] \in Int
  PROVE  \E z \in S : \A x \in S : f[x] <= f[z]
<1> DEFINE Good(s) == \E z \in s : \A x \in s : f[x] <= f[z]
           B == {s \in SUBSET S : s # {} /\ ~Good(s)}
<1>1. SUFFICES ASSUME B # {}
               PROVE  FALSE
  OBVIOUS
<1>2. PICK m \in B : \A s \in B : s \subseteq m => s = m
  <2>1. B \in SUBSET SUBSET S
    OBVIOUS
  <2> HIDE DEF B
  <2> QED
    BY <1>1, <2>1, SmallestSubset
<1>3. PICK x \in m : TRUE
  BY <1>2
<1>4. f[x] \in Int /\ \A y \in m : f[y] \in Int
  BY <1>2
<1>5. CASE m = {x}
  BY <1>2, <1>4, <1>5
<1>6. CASE m # {x}
  <2>1. m \ {x} # {} /\ m \ {x} # m /\ m \ {x} \in SUBSET S
    BY <1>2, <1>3, <1>6
  <2>2. m \ {x} \notin B
    BY <1>2, <2>1
  <2>3. Good(m \ {x})
    BY <2>1, <2>2
  <2>4. PICK z \in m \ {x} : \A y \in m \ {x} : f[y] <= f[z]
    BY <2>3
  <2>5. CASE f[x] <= f[z]
    BY <1>2, <1>4, <2>4, <2>5
  <2>6. CASE ~(f[x] <= f[z])
    <3>1. \A y \in m : f[y] <= f[x]
      BY <1>4, <2>4, <2>6
    <3> QED
      BY <1>2, <3>1
  <2> QED
    BY <2>5, <2>6
<1> QED
  BY <1>5, <1>6

\* The extremes of a finite set of integers are members that bound it.
LEMMA MaxIsGreatest ==
  ASSUME NEW S, IsFiniteSet(S), S # {}, \A x \in S : x \in Int
  PROVE  Max(S) \in S /\ \A x \in S : x <= Max(S)
<1> DEFINE f == [x \in S |-> x]
<1>1. \A x \in S : f[x] = x /\ f[x] \in Int
  OBVIOUS
<1> HIDE DEF f
<1>2. PICK z \in S : \A x \in S : z >= x
  <2>1. PICK z \in S : \A x \in S : f[x] <= f[z]
    BY <1>1, SomeHighest
  <2> QED
    BY <1>1, <2>1
<1>3. Max(S) \in S /\ \A x \in S : Max(S) >= x
  BY <1>2 DEF Max
<1> QED
  BY <1>3

LEMMA MinIsLeast ==
  ASSUME NEW S, IsFiniteSet(S), S # {}, \A x \in S : x \in Int
  PROVE  Min(S) \in S /\ \A x \in S : Min(S) <= x
<1> DEFINE f == [x \in S |-> -x]
<1>1. \A x \in S : f[x] = -x /\ f[x] \in Int
  OBVIOUS
<1> HIDE DEF f
<1>2. PICK z \in S : \A x \in S : z <= x
  <2>1. PICK z \in S : \A x \in S : f[x] <= f[z]
    BY <1>1, SomeHighest
  <2> QED
    BY <1>1, <2>1
<1>3. Min(S) \in S /\ \A x \in S : Min(S) <= x
  BY <1>2 DEF Min
<1> QED
  BY <1>3
=============================================================================
