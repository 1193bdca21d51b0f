---------------------------- MODULE SeasonProofs -----------------------------
(***************************************************************************)
(* Machine-checked proofs about Season and PrizeMath, for every finite set *)
(* of players and cards, every deadline and every price: sums over finite  *)
(* sets, the tally, the ranks, the counters of the GameWorld, the cards,   *)
(* the prizes and the solvency of the pool.                                *)
(***************************************************************************)
EXTENDS Season, FiniteSetTheorems, TLAPS

(***************************************************************************)
(* Sums over finite sets.  Induction over a finite set is done by its      *)
(* smallest counterexample: of the finite sets in Bad one has no member of *)
(* Bad among its proper subsets.                                           *)
(***************************************************************************)
LEMMA SmallestBad ==
  ASSUME NEW S, IsFiniteSet(S), NEW Bad \in SUBSET SUBSET S, Bad # {}
  PROVE  \E T \in Bad : \A U \in SUBSET T : U # T => U \notin Bad
<1>1. FiniteSubsetsOf(S) = SUBSET S
  BY FS_FiniteSubsetsOfFinite
<1>2. IsWellFoundedOn(StrictSubsetOrdering(S), FiniteSubsetsOf(S))
  BY FS_StrictSubsetOrderingWellFounded
<1>3. PICK T \in Bad : \A U \in Bad : <<U, T>> \notin StrictSubsetOrdering(S)
  BY <1>1, <1>2, WFMin
<1>4. \A U \in SUBSET T : U # T => U \notin Bad
  BY <1>3 DEF StrictSubsetOrdering
<1> QED BY <1>4

Take(s) == CHOOSE x \in s : TRUE

\* The recursive function the sum is the value of.
IsSum(f, S, g) ==
  g = [s \in SUBSET S |-> IF s = {} THEN 0 ELSE f[Take(s)] + g[s \ {Take(s)}]]

LEMMA SumIsChoice ==
  ASSUME NEW f, NEW S
  PROVE  SumFunctionOnSet(f, S) = (CHOOSE g : IsSum(f, S, g))[S]
BY DEF SumFunctionOnSet, FoldFunctionOnSet, MapThenFoldSet, IsSum, Take

LEMMA TakeTakes == \A s : s # {} => Take(s) \in s
BY DEF Take

\* At most one function satisfies the recursion.
LEMMA SumIsUnique ==
  ASSUME NEW f, NEW S, IsFiniteSet(S), NEW g, NEW h,
         IsSum(f, S, g), IsSum(f, S, h)
  PROVE  g = h
<1> DEFINE Bad == {s \in SUBSET S : g[s] # h[s]}
<1>1. \A s \in SUBSET S :
        /\ g[s] = IF s = {} THEN 0 ELSE f[Take(s)] + g[s \ {Take(s)}]
        /\ h[s] = IF s = {} THEN 0 ELSE f[Take(s)] + h[s \ {Take(s)}]
  BY DEF IsSum
<1>2. ASSUME Bad # {} PROVE FALSE
  <2>1. PICK T \in Bad : \A U \in SUBSET T : U # T => U \notin Bad
    <3>1. Bad \in SUBSET SUBSET S
      OBVIOUS
    <3> HIDE DEF Bad
    <3> QED BY <1>2, <3>1, SmallestBad
  <2>2. T # {}
    BY <1>1, <2>1
  <2>3. T \ {Take(T)} # T /\ T \ {Take(T)} \in SUBSET S
    BY <2>2, TakeTakes
  <2>4. g[T \ {Take(T)}] = h[T \ {Take(T)}]
    BY <2>1, <2>3
  <2> QED BY <1>1, <2>1, <2>2, <2>4
<1> QED BY <1>2 DEF IsSum

\* The sums of the subsets of a finite set are that function.
LEMMA SumsAreSum ==
  ASSUME NEW f, NEW S, IsFiniteSet(S)
  PROVE  IsSum(f, S, [s \in SUBSET S |-> SumFunctionOnSet(f, s)])
<1> DEFINE V(s) == SumFunctionOnSet(f, s)
           Rest(s) == s \ {Take(s)}
           G(T) == [s \in SUBSET T |-> V(s)]
           Bad == {T \in SUBSET S : ~IsSum(f, T, G(T))}
<1>1. SUFFICES ASSUME Bad # {} PROVE FALSE
  OBVIOUS
<1>2. PICK T \in Bad : \A U \in SUBSET T : U # T => U \notin Bad
  <2>1. Bad \in SUBSET SUBSET S
    OBVIOUS
  <2> HIDE DEF Bad
  <2> QED BY <1>1, <2>1, SmallestBad
<1>3. \A s : s # {} => Rest(s) # s /\ Rest(s) \subseteq s
  BY TakeTakes
<1>4. ASSUME NEW s \in SUBSET T, s # T
      PROVE  V(s) = IF s = {} THEN 0 ELSE f[Take(s)] + V(Rest(s))
  <2>1. IsSum(f, s, G(s))
    BY <1>2, <1>4
  <2>2. G(s)[s] = IF s = {} THEN 0 ELSE f[Take(s)] + G(s)[Rest(s)]
    <3> HIDE DEF V
    <3> QED BY <2>1 DEF IsSum
  <2> HIDE DEF V
  <2> QED BY <2>2
<1> DEFINE top == IF T = {} THEN 0 ELSE f[Take(T)] + V(Rest(T))
           g0 == [s \in SUBSET T |-> IF s = T THEN top ELSE V(s)]
<1>5. IsSum(f, T, g0)
  <2> HIDE DEF V
  <2>1. ASSUME NEW s \in SUBSET T
        PROVE  g0[s] = IF s = {} THEN 0 ELSE f[Take(s)] + g0[Rest(s)]
    <3>1. CASE s = T
      BY <1>3, <3>1
    <3>2. CASE s # T
      <4>1. s # {} => Rest(s) \in SUBSET T /\ Rest(s) # T
        BY <1>3, <3>2
      <4> QED BY <1>4, <3>2, <4>1
    <3> QED BY <3>1, <3>2
  <2> HIDE DEF top
  <2> QED BY <2>1 DEF IsSum
<1>6. IsFiniteSet(T)
  BY <1>2, FS_Subset
<1>7. V(T) = top
  <2>1. PICK h : h = (CHOOSE g : IsSum(f, T, g)) /\ IsSum(f, T, h)
    <3> HIDE DEF g0
    <3> QED BY <1>5
  <2>2. h = g0
    <3> HIDE DEF g0
    <3> QED BY <1>5, <1>6, <2>1, SumIsUnique
  <2>3. V(T) = h[T]
    BY <2>1, SumIsChoice
  <2> HIDE DEF V
  <2> QED BY <2>2, <2>3
<1>8. G(T) = g0
  <2> HIDE DEF V, top
  <2> QED BY <1>7
<1> HIDE DEF G, g0
<1> QED BY <1>2, <1>5, <1>8 DEF Bad

LEMMA SumEmpty == ASSUME NEW f PROVE SumFunctionOnSet(f, {}) = 0
<1>1. IsSum(f, {}, [s \in SUBSET {} |-> SumFunctionOnSet(f, s)])
  BY SumsAreSum, FS_EmptySet
<1> QED BY <1>1 DEF IsSum

LEMMA SumTakes ==
  ASSUME NEW f, NEW S, IsFiniteSet(S), S # {}
  PROVE  SumFunctionOnSet(f, S) = f[Take(S)] + SumFunctionOnSet(f, S \ {Take(S)})
<1>1. IsSum(f, S, [s \in SUBSET S |-> SumFunctionOnSet(f, s)])
  BY SumsAreSum
<1>2. [s \in SUBSET S |-> SumFunctionOnSet(f, s)][S] =
        f[Take(S)] + [s \in SUBSET S |-> SumFunctionOnSet(f, s)][S \ {Take(S)}]
  BY <1>1 DEF IsSum
<1> QED BY <1>2

LEMMA SumNat ==
  ASSUME NEW f, NEW S, IsFiniteSet(S), \A s \in S : f[s] \in Nat
  PROVE  SumFunctionOnSet(f, S) \in Nat
<1> DEFINE Bad == {T \in SUBSET S : SumFunctionOnSet(f, T) \notin Nat}
<1>1. SUFFICES ASSUME Bad # {} PROVE FALSE
  OBVIOUS
<1>2. PICK T \in Bad : \A U \in SUBSET T : U # T => U \notin Bad
  <2>1. Bad \in SUBSET SUBSET S
    OBVIOUS
  <2> HIDE DEF Bad
  <2> QED BY <1>1, <2>1, SmallestBad
<1>3. T # {} /\ IsFiniteSet(T)
  <2>1. SumFunctionOnSet(f, {}) \in Nat
    BY SumEmpty
  <2> QED BY <2>1, FS_Subset
<1>4. Take(T) \in T /\ SumFunctionOnSet(f, T \ {Take(T)}) \in Nat
  BY <1>2, <1>3, TakeTakes
<1> QED BY <1>2, <1>3, <1>4, SumTakes

\* Any element may be taken out of a sum.
LEMMA SumRemove ==
  ASSUME NEW f, NEW S, IsFiniteSet(S), \A s \in S : f[s] \in Nat, NEW x \in S
  PROVE  SumFunctionOnSet(f, S) = f[x] + SumFunctionOnSet(f, S \ {x})
<1> DEFINE V(T) == SumFunctionOnSet(f, T)
           Bad == {T \in SUBSET S : \E y \in T : V(T) # f[y] + V(T \ {y})}
<1>1. SUFFICES ASSUME Bad # {} PROVE FALSE
  OBVIOUS
<1>2. PICK T \in Bad : \A U \in SUBSET T : U # T => U \notin Bad
  <2>1. Bad \in SUBSET SUBSET S
    OBVIOUS
  <2> HIDE DEF Bad
  <2> QED BY <1>1, <2>1, SmallestBad
<1>3. PICK y \in T : V(T) # f[y] + V(T \ {y})
  BY <1>2
<1>4. \A U \in SUBSET S : V(U) \in Nat
  BY SumNat, FS_Subset
<1> DEFINE t == Take(T)
<1>5. t \in T /\ V(T) = f[t] + V(T \ {t})
  BY <1>3, SumTakes, TakeTakes, FS_Subset
<1>6. t # y
  BY <1>3, <1>5
<1>7. V(T \ {t}) = f[y] + V((T \ {t}) \ {y}) /\ V(T \ {y}) = f[t] + V((T \ {y}) \ {t})
  <2> HIDE DEF V, t
  <2> QED BY <1>2, <1>5, <1>6
<1>8. (T \ {t}) \ {y} = (T \ {y}) \ {t}
  OBVIOUS
<1>9. f[t] \in Nat /\ f[y] \in Nat /\ V((T \ {t}) \ {y}) \in Nat
  BY <1>4, <1>5
<1> HIDE DEF V, t
<1> QED BY <1>3, <1>5, <1>7, <1>8, <1>9

\* Disjoint sets add up.
LEMMA SumUnion ==
  ASSUME NEW f, NEW S, NEW T, IsFiniteSet(S), IsFiniteSet(T), S \cap T = {},
         \A s \in S \cup T : f[s] \in Nat
  PROVE  SumFunctionOnSet(f, S \cup T) = SumFunctionOnSet(f, S) + SumFunctionOnSet(f, T)
<1> DEFINE V(U) == SumFunctionOnSet(f, U)
           Bad == {U \in SUBSET T : V(S \cup U) # V(S) + V(U)}
<1>1. SUFFICES ASSUME Bad # {} PROVE FALSE
  OBVIOUS
<1>2. PICK U \in Bad : \A W \in SUBSET U : W # U => W \notin Bad
  <2>1. Bad \in SUBSET SUBSET T
    OBVIOUS
  <2> HIDE DEF Bad
  <2> QED BY <1>1, <2>1, SmallestBad
<1>3. IsFiniteSet(U) /\ IsFiniteSet(S \cup U)
  BY FS_Subset, FS_Union
<1>4. U # {}
  <2>1. V(S) \in Nat /\ V({}) = 0
    BY SumNat, SumEmpty
  <2>2. S \cup {} = S
    OBVIOUS
  <2>3. V(S \cup {}) = V(S) + V({})
    <3> HIDE DEF V
    <3> QED BY <2>1, <2>2
  <2> HIDE DEF V
  <2> QED BY <1>2, <2>3
<1>5. PICK x : x \in U
  BY <1>4
<1>6. V(U) = f[x] + V(U \ {x})
  BY <1>3, <1>5, SumRemove
<1>7. V(S \cup U) = f[x] + V((S \cup U) \ {x})
  BY <1>3, <1>5, SumRemove
<1>8. (S \cup U) \ {x} = S \cup (U \ {x})
  BY <1>5
<1>9. V(S \cup (U \ {x})) = V(S) + V(U \ {x})
  <2> HIDE DEF V
  <2> QED BY <1>2, <1>5
<1>10. f[x] \in Nat /\ V(S) \in Nat /\ V(U \ {x}) \in Nat
  BY <1>3, <1>5, SumNat, FS_RemoveElement
<1>11. V(S \cup U) # V(S) + V(U)
  BY <1>2
<1>12. V(S \cup U) = f[x] + (V(S) + V(U \ {x}))
  <2> HIDE DEF V
  <2> QED BY <1>7, <1>8, <1>9
<1> HIDE DEF V, Bad
<1> QED BY <1>6, <1>10, <1>11, <1>12

\* Equal summands give equal sums.
LEMMA SumSame ==
  ASSUME NEW f, NEW g, NEW S, IsFiniteSet(S),
         \A s \in S : f[s] \in Nat /\ f[s] = g[s]
  PROVE  SumFunctionOnSet(f, S) = SumFunctionOnSet(g, S)
<1> DEFINE V(U) == SumFunctionOnSet(f, U)
           W(U) == SumFunctionOnSet(g, U)
           Bad == {U \in SUBSET S : V(U) # W(U)}
<1>1. SUFFICES ASSUME Bad # {} PROVE FALSE
  OBVIOUS
<1>2. PICK T \in Bad : \A U \in SUBSET T : U # T => U \notin Bad
  <2>1. Bad \in SUBSET SUBSET S
    OBVIOUS
  <2> HIDE DEF Bad
  <2> QED BY <1>1, <2>1, SmallestBad
<1>3. IsFiniteSet(T) /\ T # {}
  BY FS_Subset, SumEmpty
<1>4. PICK x : x \in T
  BY <1>3
<1>5. V(T) = f[x] + V(T \ {x}) /\ W(T) = g[x] + W(T \ {x})
  BY <1>3, <1>4, SumRemove
<1>6. V(T \ {x}) = W(T \ {x})
  BY <1>2, <1>4
<1> HIDE DEF V, W
<1> QED BY <1>2, <1>4, <1>5, <1>6

\* A bound on every element, up to a common factor, bounds the sum.
LEMMA SumScaled ==
  ASSUME NEW f, NEW g, NEW S, IsFiniteSet(S), NEW k \in Nat, NEW B \in Nat,
         \A s \in S : f[s] \in Nat /\ g[s] \in Nat /\ f[s] * k <= B * g[s]
  PROVE  SumFunctionOnSet(f, S) * k <= B * SumFunctionOnSet(g, S)
<1> DEFINE V(U) == SumFunctionOnSet(f, U)
           W(U) == SumFunctionOnSet(g, U)
           Bad == {U \in SUBSET S : ~(V(U) * k <= B * W(U))}
<1>1. SUFFICES ASSUME Bad # {} PROVE FALSE
  OBVIOUS
<1>2. PICK T \in Bad : \A U \in SUBSET T : U # T => U \notin Bad
  <2>1. Bad \in SUBSET SUBSET S
    OBVIOUS
  <2> HIDE DEF Bad
  <2> QED BY <1>1, <2>1, SmallestBad
<1>3. IsFiniteSet(T) /\ T # {}
  <2>1. V({}) * k <= B * W({})
    BY SumEmpty
  <2> HIDE DEF V, W
  <2> QED BY <2>1, FS_Subset
<1>4. PICK x : x \in T
  BY <1>3
<1>5. V(T) = f[x] + V(T \ {x}) /\ W(T) = g[x] + W(T \ {x})
  BY <1>3, <1>4, SumRemove
<1>6. V(T \ {x}) * k <= B * W(T \ {x})
  BY <1>2, <1>4
<1>7. V(T \ {x}) \in Nat /\ W(T \ {x}) \in Nat /\ f[x] \in Nat /\ g[x] \in Nat
  BY <1>3, <1>4, SumNat, FS_RemoveElement
<1>8. f[x] * k <= B * g[x]
  BY <1>4
<1> HIDE DEF V, W
<1>9. (f[x] + V(T \ {x})) * k <= B * (g[x] + W(T \ {x}))
  <2>1. \A a, b, c, d \in Nat :
          a * k <= B * c /\ b * k <= B * d => (a + b) * k <= B * (c + d)
    OBVIOUS
  <2> QED BY <1>6, <1>7, <1>8, <2>1
<1> QED BY <1>2, <1>5, <1>9

\* A sum is positive exactly when one of its elements is.
LEMMA SumZero ==
  ASSUME NEW f, NEW S, IsFiniteSet(S), \A s \in S : f[s] \in Nat
  PROVE  SumFunctionOnSet(f, S) = 0 <=> \A s \in S : f[s] = 0
<1>1. ASSUME NEW s \in S PROVE SumFunctionOnSet(f, S) >= f[s]
  <2>1. SumFunctionOnSet(f, S) = f[s] + SumFunctionOnSet(f, S \ {s})
    BY SumRemove
  <2>2. SumFunctionOnSet(f, S \ {s}) \in Nat
    BY SumNat, FS_RemoveElement
  <2> QED BY <2>1, <2>2
<1>2. ASSUME \A s \in S : f[s] = 0 PROVE SumFunctionOnSet(f, S) = 0
  <2> DEFINE Bad == {T \in SUBSET S : SumFunctionOnSet(f, T) # 0}
  <2>1. SUFFICES ASSUME Bad # {} PROVE FALSE
    OBVIOUS
  <2>2. PICK T \in Bad : \A U \in SUBSET T : U # T => U \notin Bad
    <3>1. Bad \in SUBSET SUBSET S
      OBVIOUS
    <3> HIDE DEF Bad
    <3> QED BY <2>1, <3>1, SmallestBad
  <2>3. IsFiniteSet(T) /\ T # {}
    BY FS_Subset, SumEmpty
  <2>4. PICK x : x \in T
    BY <2>3
  <2>5. SumFunctionOnSet(f, T) = f[x] + SumFunctionOnSet(f, T \ {x})
    BY <2>3, <2>4, SumRemove
  <2>6. SumFunctionOnSet(f, T \ {x}) = 0
    BY <2>2, <2>4
  <2> QED BY <1>2, <2>2, <2>4, <2>5, <2>6
<1> QED BY <1>1, <1>2

\* Summands that are all c.
LEMMA SumConstant ==
  ASSUME NEW f, NEW S, IsFiniteSet(S), NEW c \in Nat, \A s \in S : f[s] = c
  PROVE  SumFunctionOnSet(f, S) = c * Cardinality(S)
<1> DEFINE V(U) == SumFunctionOnSet(f, U)
           Bad == {T \in SUBSET S : V(T) # c * Cardinality(T)}
<1>1. SUFFICES ASSUME Bad # {} PROVE FALSE
  OBVIOUS
<1>2. PICK T \in Bad : \A U \in SUBSET T : U # T => U \notin Bad
  <2>1. Bad \in SUBSET SUBSET S
    OBVIOUS
  <2> HIDE DEF Bad
  <2> QED BY <1>1, <2>1, SmallestBad
<1>3. IsFiniteSet(T) /\ T # {}
  BY FS_Subset, SumEmpty, FS_EmptySet
<1>4. PICK x : x \in T
  BY <1>3
<1>5. V(T) = f[x] + V(T \ {x})
  BY <1>3, <1>4, SumRemove
<1>6. V(T \ {x}) = c * Cardinality(T \ {x})
  BY <1>2, <1>4
<1>7. Cardinality(T) \in Nat /\ Cardinality(T \ {x}) = Cardinality(T) - 1
  BY <1>3, <1>4, FS_CardinalityType, FS_RemoveElement
<1> HIDE DEF V
<1>8. c + c * (Cardinality(T) - 1) = c * Cardinality(T)
  BY <1>7
<1> QED BY <1>2, <1>4, <1>5, <1>6, <1>7, <1>8

-----------------------------------------------------------------------------
(***************************************************************************)
(* A non-empty finite set of numbers has a greatest element, which Max     *)
(* names.  A smallest finite set without one, less any of its elements,    *)
(* has one (or is empty), and the larger of the two is the greatest.       *)
(***************************************************************************)
HasGreatest(S) == \E x \in S : \A y \in S : x >= y

LEMMA FiniteSetHasGreatest ==
  ASSUME NEW S \in SUBSET Nat, IsFiniteSet(S), S # {}
  PROVE  HasGreatest(S)
<1> DEFINE Bad == {T \in FiniteSubsetsOf(Nat) : T # {} /\ ~HasGreatest(T)}
<1>1. SUFFICES ASSUME Bad # {} PROVE FALSE
  BY DEF FiniteSubsetsOf
<1>2. PICK T \in Bad : \A U \in Bad : <<U, T>> \notin StrictSubsetOrdering(Nat)
  <2>1. IsWellFoundedOn(StrictSubsetOrdering(Nat), FiniteSubsetsOf(Nat))
    BY FS_StrictSubsetOrderingWellFounded
  <2>2. Bad \subseteq FiniteSubsetsOf(Nat)
    OBVIOUS
  <2>3. QED
    BY <1>1, <2>1, <2>2, WFMin
<1>3. T \subseteq Nat /\ IsFiniteSet(T) /\ T # {} /\ ~HasGreatest(T)
  BY DEF FiniteSubsetsOf
<1>4. PICK x : x \in T
  BY <1>3
<1> DEFINE U == T \ {x}
<1>5. IsFiniteSet(U) /\ U \subseteq Nat
  BY <1>3, FS_RemoveElement
<1>6. U \notin Bad
  BY <1>2, <1>3, <1>4, <1>5 DEF StrictSubsetOrdering, FiniteSubsetsOf
<1>7. U = {} \/ HasGreatest(U)
  BY <1>5, <1>6 DEF FiniteSubsetsOf
<1>8. CASE U = {}
  BY <1>3, <1>4, <1>8 DEF HasGreatest
<1>9. CASE HasGreatest(U)
  <2>1. PICK u \in U : \A y \in U : u >= y
    BY <1>9 DEF HasGreatest
  <2>2. CASE u >= x
    BY <1>3, <1>4, <2>1, <2>2 DEF HasGreatest
  <2>3. CASE x >= u
    BY <1>3, <1>4, <1>5, <2>1, <2>3 DEF HasGreatest
  <2>4. QED
    BY <1>3, <1>4, <1>5, <2>1, <2>2, <2>3
<1>10. QED
  BY <1>7, <1>8, <1>9

LEMMA MaxIsGreatest ==
  ASSUME NEW S \in SUBSET Nat, IsFiniteSet(S), S # {}
  PROVE  Max(S) \in S /\ \A y \in S : Max(S) >= y
BY FiniteSetHasGreatest DEF Max, HasGreatest

LEMMA PlayersAreFinite ==
  \A S \in SUBSET Players : IsFiniteSet(S) /\ Cardinality(S) \in Nat /\ S \subseteq Nat
BY SeasonAssumption, FS_Subset, FS_CardinalityType

-----------------------------------------------------------------------------
(***************************************************************************)
(* The tally of a set of players, as what it counts.                       *)
(***************************************************************************)
SizeType == [Players -> 0..FullCount]

\* An element no other exceeds is the one Max names.
LEMMA MaxIs ==
  ASSUME NEW S \in SUBSET Nat, IsFiniteSet(S), NEW m \in S, \A y \in S : m >= y
  PROVE  Max(S) = m
<1>1. Max(S) \in S /\ \A y \in S : Max(S) >= y
  BY MaxIsGreatest
<1>2. Max(S) \in Nat /\ m \in Nat /\ Max(S) >= m /\ m >= Max(S)
  BY <1>1
<1> QED BY <1>2

\* Who of S is tallied in a band, the largest size, and who has it.
InBand(S, size, b) == {p \in S : size[p] > 0 /\ BandOf(size[p]) = b}
Largest(S, size) == Max({0} \cup {size[p] : p \in S})
Leaders(S, size) == {p \in S : size[p] > 0 /\ size[p] = Largest(S, size)}

LEMMA SizesAreFinite ==
  ASSUME NEW S \in SUBSET Players, NEW size \in SizeType
  PROVE  /\ {size[p] : p \in S} \in SUBSET Nat
         /\ IsFiniteSet({size[p] : p \in S})
<1>1. {size[p] : p \in S} \subseteq 0..FullCount
  BY DEF SizeType
<1>2. IsFiniteSet(0..FullCount)
  BY PrizeAssumption, FS_Interval
<1>3. 0..FullCount \subseteq Nat
  BY PrizeAssumption
<1> DEFINE V == {size[p] : p \in S}
<1> HIDE DEF V
<1>4. V \in SUBSET Nat /\ IsFiniteSet(V)
  BY <1>1, <1>2, <1>3, FS_Subset DEF V
<1> QED BY <1>4 DEF V

LEMMA LargestIs ==
  ASSUME NEW S \in SUBSET Players, NEW size \in SizeType
  PROVE  /\ Largest(S, size) \in Nat
         /\ \A p \in S : Largest(S, size) >= size[p]
         /\ Largest(S, size) = 0 \/ \E p \in S : Largest(S, size) = size[p]
<1> DEFINE V == {size[p] : p \in S}
<1>1. V \in SUBSET Nat /\ IsFiniteSet(V)
  BY SizesAreFinite
<1>2. ({0} \cup V) \in SUBSET Nat /\ IsFiniteSet({0} \cup V) /\ {0} \cup V # {}
  <2>1. IsFiniteSet({0})
    BY FS_Singleton
  <2>2. ({0} \cup V) \in SUBSET Nat /\ {0} \cup V # {}
    BY <1>1
  <2>3. IsFiniteSet({0} \cup V)
    <3> HIDE DEF V
    <3> QED BY <1>1, <2>1, FS_Union
  <2> QED BY <2>2, <2>3
<1>3. Max({0} \cup V) \in ({0} \cup V) /\ \A y \in {0} \cup V : Max({0} \cup V) >= y
  <2> HIDE DEF V
  <2> QED BY <1>2, MaxIsGreatest
<1> QED BY <1>2, <1>3 DEF Largest

\* Conversely, a value with these properties is the largest.
LEMMA LargestIsUnique ==
  ASSUME NEW S \in SUBSET Players, NEW size \in SizeType, NEW m \in Nat,
         \A p \in S : m >= size[p], m = 0 \/ \E p \in S : m = size[p]
  PROVE  Largest(S, size) = m
<1>1. \A p \in S : size[p] \in Nat
  BY DEF SizeType
<1> QED BY <1>1, LargestIs

\* What one batch leaves in an empty tally.
LEMMA TallyOfBatch ==
  ASSUME NEW S \in SUBSET Players, NEW size \in SizeType
  PROVE  TallyBatch(EmptyTally, S, size) =
           [full |-> Cardinality(InBand(S, size, 1)),
            max |-> Largest(S, size),
            maxCount |-> Cardinality(Leaders(S, size)),
            band |-> [b \in Bands |-> SumFunctionOnSet(size, InBand(S, size, b))]]
<1> DEFINE N == {p \in S : size[p] > 0}
           I(b) == {p \in N : BandOf(size[p]) = b}
           L == {p \in N : size[p] = Largest(S, size)}
<1>1. \A b : I(b) = InBand(S, size, b)
  BY DEF InBand
<1>2. L = Leaders(S, size)
  BY DEF Leaders
<1>3. TallyBatch(EmptyTally, S, size) =
        [full |-> 0 + Cardinality(I(1)),
         max |-> Largest(S, size),
         maxCount |-> (IF 0 = Largest(S, size) THEN 0 ELSE 0) + Cardinality(L),
         band |-> [b \in Bands |-> EmptyTally.band[b] + SumFunctionOnSet(size, I(b))]]
  BY DEF TallyBatch, EmptyTally, Largest
<1>4. Cardinality(I(1)) \in Nat /\ Cardinality(L) \in Nat
  <2>1. I(1) \in SUBSET Players /\ L \in SUBSET Players
    OBVIOUS
  <2> HIDE DEF I, L
  <2> QED BY <2>1, PlayersAreFinite
<1>5. \A b \in Bands : EmptyTally.band[b] + SumFunctionOnSet(size, I(b)) =
                         SumFunctionOnSet(size, InBand(S, size, b))
  <2> SUFFICES ASSUME NEW b \in Bands
               PROVE  EmptyTally.band[b] + SumFunctionOnSet(size, I(b)) =
                        SumFunctionOnSet(size, InBand(S, size, b))
    OBVIOUS
  <2>1. EmptyTally.band[b] = 0
    BY DEF EmptyTally
  <2>2. IsFiniteSet(I(b)) /\ \A p \in I(b) : size[p] \in Nat
    <3>1. I(b) \in SUBSET Players
      OBVIOUS
    <3> HIDE DEF I
    <3> QED BY <3>1, PlayersAreFinite DEF SizeType
  <2>3. SumFunctionOnSet(size, I(b)) \in Nat
    <3> HIDE DEF I
    <3> QED BY <2>2, SumNat
  <2>4. I(b) = InBand(S, size, b)
    BY <1>1
  <2> HIDE DEF I
  <2> QED BY <2>1, <2>3, <2>4
<1> HIDE DEF I, L
<1> QED BY <1>1, <1>2, <1>3, <1>4, <1>5

LEMMA Parts ==
  ASSUME NEW size \in SizeType, NEW S \in SUBSET Players, NEW b
  PROVE  /\ InBand(S, size, b) \in SUBSET Players
         /\ Leaders(S, size) \in SUBSET Players
         /\ \A p \in Players : size[p] \in Nat /\ size[p] <= FullCount
BY PrizeAssumption DEF InBand, Leaders, SizeType

LEMMA DisjointCount ==
  ASSUME NEW A \in SUBSET Players, NEW B \in SUBSET Players, A \cap B = {}
  PROVE  Cardinality(A \cup B) = Cardinality(A) + Cardinality(B)
<1>1. Cardinality(A \cup B) = Cardinality(A) + Cardinality(B) - Cardinality({})
  BY PlayersAreFinite, FS_Union
<1>2. Cardinality(A) \in Nat /\ Cardinality(B) \in Nat /\ Cardinality({}) = 0
  BY PlayersAreFinite, FS_EmptySet
<1> QED BY <1>1, <1>2

\* Counting a second batch is counting both at once.
LEMMA TallyTwice ==
  ASSUME NEW size \in SizeType, NEW A \in SUBSET Players, NEW B \in SUBSET Players,
         A \cap B = {}
  PROVE  TallyBatch(TallyBatch(EmptyTally, A, size), B, size) =
           TallyBatch(EmptyTally, A \cup B, size)
<1> DEFINE t == TallyBatch(EmptyTally, A, size)
           u == TallyBatch(EmptyTally, A \cup B, size)
           N == {p \in B : size[p] > 0}
           I(b) == {p \in N : BandOf(size[p]) = b}
           top == Max({t.max} \cup {size[p] : p \in B})
           L == {p \in N : size[p] = top}
           all == Largest(A \cup B, size)
<1>1. /\ t.full = Cardinality(InBand(A, size, 1))
      /\ t.max = Largest(A, size)
      /\ t.maxCount = Cardinality(Leaders(A, size))
      /\ \A b \in Bands : t.band[b] = SumFunctionOnSet(size, InBand(A, size, b))
  BY TallyOfBatch
<1>2. u = [full |-> Cardinality(InBand(A \cup B, size, 1)),
           max |-> all,
           maxCount |-> Cardinality(Leaders(A \cup B, size)),
           band |-> [b \in Bands |-> SumFunctionOnSet(size, InBand(A \cup B, size, b))]]
  BY TallyOfBatch
<1>3. TallyBatch(t, B, size) =
        [full |-> t.full + Cardinality(I(1)),
         max |-> top,
         maxCount |-> (IF t.max = top THEN t.maxCount ELSE 0) + Cardinality(L),
         band |-> [b \in Bands |-> t.band[b] + SumFunctionOnSet(size, I(b))]]
  BY DEF TallyBatch
<1>4. \A b : /\ InBand(A \cup B, size, b) = InBand(A, size, b) \cup I(b)
             /\ InBand(A, size, b) \cap I(b) = {}
             /\ InBand(A, size, b) \in SUBSET Players /\ I(b) \in SUBSET Players
  BY DEF InBand
<1>5. t.full + Cardinality(I(1)) = u.full
  <2> HIDE DEF I, t, u
  <2>1. u.full = Cardinality(InBand(A, size, 1) \cup I(1))
    BY <1>2, <1>4
  <2> QED BY <1>1, <1>4, <2>1, DisjointCount
<1>6. \A b \in Bands : t.band[b] + SumFunctionOnSet(size, I(b)) = u.band[b]
  <2> SUFFICES ASSUME NEW b \in Bands
               PROVE  t.band[b] + SumFunctionOnSet(size, I(b)) = u.band[b]
    OBVIOUS
  <2>1. u.band[b] = SumFunctionOnSet(size, InBand(A, size, b) \cup I(b))
    <3> HIDE DEF I, u
    <3> QED BY <1>2, <1>4
  <2>2. \A p \in InBand(A, size, b) \cup I(b) : size[p] \in Nat
    BY <1>4, Parts
  <2>3. IsFiniteSet(InBand(A, size, b)) /\ IsFiniteSet(I(b))
    <3> HIDE DEF I
    <3> QED BY <1>4, PlayersAreFinite
  <2> HIDE DEF t, u, I
  <2> QED BY <1>1, <1>4, <2>1, <2>2, <2>3, SumUnion
<1>7. /\ t.max \in Nat
      /\ \A p \in A : t.max >= size[p]
      /\ t.max = 0 \/ \E p \in A : t.max = size[p]
  BY <1>1, LargestIs
<1>8. /\ top \in Nat /\ top >= t.max
      /\ \A p \in B : top >= size[p]
      /\ top = t.max \/ \E p \in B : top = size[p]
  <2> DEFINE V == {size[p] : p \in B}
  <2>1. V \in SUBSET Nat /\ IsFiniteSet(V)
    BY SizesAreFinite
  <2>2. IsFiniteSet({t.max} \cup V)
    <3> HIDE DEF t, V
    <3> QED BY <2>1, FS_Union, FS_Singleton
  <2>3. ({t.max} \cup V) \in SUBSET Nat /\ {t.max} \cup V # {}
    <3> HIDE DEF t, V
    <3> QED BY <1>7, <2>1
  <2>4. /\ Max({t.max} \cup V) \in {t.max} \cup V
        /\ \A y \in {t.max} \cup V : Max({t.max} \cup V) >= y
    <3> HIDE DEF t, V
    <3> QED BY <2>2, <2>3, MaxIsGreatest
  <2>5. top = Max({t.max} \cup V)
    OBVIOUS
  <2>6. top \in {t.max} \cup V /\ \A y \in {t.max} \cup V : top >= y
    <3> HIDE DEF V, top, t
    <3> QED BY <2>4, <2>5
  <2> HIDE DEF top, t
  <2> QED BY <1>7, <2>1, <2>6
<1>9. top = all
  <2> HIDE DEF top, t, all
  <2>1. \A p \in A \cup B : size[p] \in Nat
    BY Parts
  <2>2. \A p \in A \cup B : top >= size[p]
    BY <1>7, <1>8, <2>1
  <2>3. top = 0 \/ \E p \in A \cup B : top = size[p]
    BY <1>7, <1>8
  <2>4. Largest(A \cup B, size) = top
    BY <1>8, <2>2, <2>3, LargestIsUnique
  <2> QED BY <2>4 DEF all
<1>10. (IF t.max = top THEN t.maxCount ELSE 0) + Cardinality(L) = u.maxCount
  <2> DEFINE K == {p \in A : size[p] > 0 /\ size[p] = top}
  <2>1. u.maxCount = Cardinality(Leaders(A \cup B, size))
    BY <1>2
  <2>2. Leaders(A \cup B, size) = K \cup L
    <3> HIDE DEF top
    <3> QED BY <1>9 DEF Leaders
  <2>3. K \cap L = {} /\ K \in SUBSET Players /\ L \in SUBSET Players
    <3> HIDE DEF top
    <3> QED OBVIOUS
  <2>4. Cardinality(K \cup L) = Cardinality(K) + Cardinality(L)
    <3> HIDE DEF K, L
    <3> QED BY <2>3, DisjointCount
  <2>5. CASE t.max = top
    <3>1. K = Leaders(A, size)
      <4> HIDE DEF top, t
      <4> QED BY <1>1, <2>5 DEF Leaders
    <3> HIDE DEF K, L, top, t, u
    <3> QED BY <1>1, <2>1, <2>2, <2>4, <2>5, <3>1
  <2>6. CASE t.max # top
    <3>1. K = {}
      <4> HIDE DEF top, t
      <4>1. \A p \in A : size[p] \in Nat
        BY Parts
      <4> QED BY <1>7, <1>8, <2>6, <4>1
    <3>2. Cardinality(K) = 0
      BY <3>1, FS_EmptySet
    <3> HIDE DEF K, L, top, t, u
    <3> QED BY <2>1, <2>2, <2>4, <2>6, <3>2
  <2> QED BY <2>5, <2>6
<1> HIDE DEF t, I, L, top
<1>11. TallyBatch(t, B, size) = u
  BY <1>2, <1>3, <1>5, <1>6, <1>9, <1>10
<1> QED BY <1>11 DEF t

-----------------------------------------------------------------------------
(***************************************************************************)
(* The ranks PromisedPrize is about, and why the stored tally, once        *)
(* closed, holds just what they need: CloseTally takes the champions of a  *)
(* timeout out of their band, and the carry-over of empty bands in the     *)
(* code is that of PromisedPrize.                                          *)
(***************************************************************************)
Top(size) == Max({size[q] : q \in Players})
Tier(size, p) == IF size[p] = Top(size) THEN 1 ELSE BandOf(size[p])
Members(size, b) == {q \in Players : size[q] > 0 /\ Tier(size, q) = b}
Carried(size, b) == {a \in 1..b : \A e \in a..(b - 1) : Members(size, e) = {}}
TierPool(size, total, b) ==
  (total * SumFunctionOnSet(BandShare, Carried(size, b))) \div 100
Closed(S, size) == CloseTally(TallyBatch(EmptyTally, S, size))

\* PromisedPrize in these words.
LEMMA PromisedIs ==
  ASSUME NEW size, NEW total, NEW p
  PROVE  PromisedPrize(p, size, total) =
           IF size[p] = 0 THEN 0
           ELSE IF Tier(size, p) = 1
             THEN TierPool(size, total, Tier(size, p)) \div Cardinality(Members(size, 1))
           ELSE (TierPool(size, total, Tier(size, p)) * size[p])
                  \div SumFunctionOnSet(size, Members(size, Tier(size, p)))
BY DEF PromisedPrize, Top, Tier, Members, Carried, TierPool

\* Band 1 is that of the complete collections.
LEMMA BandOfIs ==
  \A v \in 0..FullCount : BandOf(v) \in 1..5 /\ (BandOf(v) = 1 <=> v = FullCount)
BY PrizeAssumption DEF BandOf

LEMMA TopIs ==
  ASSUME NEW size \in SizeType, Players # {}
  PROVE  /\ Top(size) \in 0..FullCount
         /\ \A q \in Players : Top(size) >= size[q]
         /\ \E q \in Players : Top(size) = size[q]
<1> DEFINE V == {size[q] : q \in Players}
<1>1. V \in SUBSET Nat /\ IsFiniteSet(V)
  BY SizesAreFinite
<1>2. V # {}
  OBVIOUS
<1>3. Max(V) \in V /\ \A y \in V : Max(V) >= y
  <2> HIDE DEF V
  <2> QED BY <1>1, <1>2, MaxIsGreatest
<1>4. \A q \in Players : size[q] \in 0..FullCount
  BY DEF SizeType
<1> QED BY <1>3, <1>4 DEF Top

\* The champions hold the largest of the sizes, all of which are counted.
Counted(S, size) == \A p \in Players \ S : size[p] = 0

LEMMA LargestIsTop ==
  ASSUME NEW size \in SizeType, NEW S \in SUBSET Players, Players # {}, Counted(S, size)
  PROVE  Largest(S, size) = Top(size)
<1>1. \A q \in Players : size[q] \in Nat
  BY Parts
<1>2. Top(size) \in Nat /\ \A p \in S : Top(size) >= size[p]
  BY TopIs, PrizeAssumption
<1>3. Top(size) = 0 \/ \E p \in S : Top(size) = size[p]
  BY TopIs DEF Counted
<1> QED BY <1>2, <1>3, LargestIsUnique

LEMMA TierIs ==
  ASSUME NEW size \in SizeType, NEW p \in Players
  PROVE  Tier(size, p) \in 1..5
BY BandOfIs DEF Tier, SizeType

LEMMA MembersAreFinite ==
  ASSUME NEW size \in SizeType, NEW b
  PROVE  /\ IsFiniteSet(Members(size, b)) /\ Cardinality(Members(size, b)) \in Nat
         /\ Members(size, b) \in SUBSET Players
         /\ Cardinality(Members(size, b)) > 0 <=> Members(size, b) # {}
         /\ \A p \in Members(size, b) : size[p] \in Nat /\ size[p] > 0
<1>1. Members(size, b) \in SUBSET Players /\ \A p \in Members(size, b) : size[p] > 0
  BY DEF Members
<1>2. IsFiniteSet(Members(size, b)) /\ Cardinality(Members(size, b)) \in Nat
  BY <1>1, PlayersAreFinite
<1>3. Cardinality(Members(size, b)) > 0 <=> Members(size, b) # {}
  BY <1>2, FS_EmptySet
<1> QED BY <1>1, <1>2, <1>3, Parts

\* CloseTally leaves the number of champions and the totals of the bands.
LEMMA ClosedTally ==
  ASSUME NEW size \in SizeType, NEW S \in SUBSET Players, Players # {}, Counted(S, size),
         NEW t, t = Closed(S, size)
  PROVE  /\ Champions(t) = Cardinality(Members(size, 1))
         /\ \A b \in Bands : t.band[b] = SumFunctionOnSet(size, Members(size, b))
         /\ \A p \in Players : size[p] > 0 =>
              (IsChampion(size[p], t) <=> Tier(size, p) = 1)
<1> DEFINE u == TallyBatch(EmptyTally, S, size)
<1>1. u = [full |-> Cardinality(InBand(S, size, 1)),
           max |-> Top(size),
           maxCount |-> Cardinality(Leaders(S, size)),
           band |-> [b \in Bands |-> SumFunctionOnSet(size, InBand(S, size, b))]]
  BY TallyOfBatch, LargestIsTop
<1>2. t = CloseTally(u)
  BY DEF Closed
<1>3. \A q \in Players : size[q] \in Nat /\ size[q] <= FullCount /\ size[q] <= Top(size)
  BY TopIs, Parts
<1>4. Top(size) \in Nat /\ Top(size) <= FullCount /\ FullCount \in Nat \ {0}
  BY TopIs, PrizeAssumption
<1>5. Leaders(S, size) = {q \in Players : size[q] > 0 /\ size[q] = Top(size)}
  BY LargestIsTop DEF Leaders, Counted
<1>6. \A b : InBand(S, size, b) = {q \in Players : size[q] > 0 /\ BandOf(size[q]) = b}
  BY DEF InBand, Counted
<1>7. \A q \in Players :
        BandOf(size[q]) \in 1..5 /\ (BandOf(size[q]) = 1 <=> size[q] = FullCount)
  BY BandOfIs DEF SizeType
<1> HIDE DEF u
<1>8. InBand(S, size, 1) # {} <=> Top(size) = FullCount
  <2>1. \E q \in Players : size[q] = Top(size)
    BY TopIs
  <2> QED BY <2>1, <1>3, <1>4, <1>6, <1>7
<1>9. /\ Cardinality(InBand(S, size, 1)) \in Nat
      /\ Cardinality(InBand(S, size, 1)) = 0 <=> InBand(S, size, 1) = {}
  BY Parts, PlayersAreFinite, FS_EmptySet
<1>10. u.full = 0 <=> Top(size) < FullCount
  BY <1>1, <1>4, <1>8, <1>9
<1>11. CASE Top(size) = FullCount
  <2>1. t = u /\ u.full # 0
    BY <1>2, <1>4, <1>10, <1>11 DEF CloseTally
  <2>2. \A b \in 1..5 : Members(size, b) = InBand(S, size, b)
    BY <1>6, <1>7, <1>11 DEF Members, Tier
  <2>3. Champions(t) = Cardinality(Members(size, 1))
    BY <1>1, <2>1, <2>2 DEF Champions
  <2>4. \A b \in Bands : t.band[b] = SumFunctionOnSet(size, Members(size, b))
    BY <1>1, <2>1, <2>2 DEF Bands
  <2>5. \A p \in Players : size[p] > 0 => (IsChampion(size[p], t) <=> Tier(size, p) = 1)
    BY <1>7, <1>11, <2>1 DEF IsChampion, Tier
  <2> QED BY <2>3, <2>4, <2>5
<1>12. CASE Top(size) # FullCount
  <2>1. u.full = 0 /\ u.max = Top(size) /\ u.maxCount = Cardinality(Leaders(S, size))
    BY <1>1, <1>4, <1>10, <1>12
  <2>2. \A q \in Players : BandOf(size[q]) # 1
    BY <1>3, <1>4, <1>7, <1>12
  <2>3. Members(size, 1) = Leaders(S, size)
    BY <1>5, <2>2 DEF Members, Tier
  <2>4. \A b \in Bands : InBand(S, size, b) =
             Members(size, b) \cup {q \in Leaders(S, size) : BandOf(size[q]) = b}
    BY <1>5, <1>6 DEF Members, Tier, Bands
  <2>5. /\ t.full = 0 /\ t.max = Top(size) /\ t.maxCount = Cardinality(Leaders(S, size))
    BY <1>1, <1>2, <2>1 DEF CloseTally
  <2>6. \A p \in Players : size[p] > 0 => (IsChampion(size[p], t) <=> Tier(size, p) = 1)
    BY <2>2, <2>5 DEF IsChampion, Tier
  <2>7. ASSUME NEW b \in Bands PROVE t.band[b] = SumFunctionOnSet(size, Members(size, b))
    <3>1. Top(size) = 0 => Leaders(S, size) = {}
      BY <1>5
    <3>2. CASE Top(size) = 0 \/ BandOf(Top(size)) # b
      <4>1. InBand(S, size, b) = Members(size, b)
        BY <1>5, <2>4, <3>1, <3>2
      <4>2. t.band[b] = u.band[b]
        BY <1>1, <1>2, <2>1, <3>2 DEF CloseTally, Bands
      <4> QED BY <1>1, <4>1, <4>2
    <3>3. CASE Top(size) > 0 /\ BandOf(Top(size)) = b
      <4> DEFINE C == Leaders(S, size)
                 sum == SumFunctionOnSet(size, Members(size, b))
      <4>1. InBand(S, size, b) = Members(size, b) \cup C /\ Members(size, b) \cap C = {}
        BY <1>5, <2>4, <3>3 DEF Members, Tier, Bands
      <4>2. IsFiniteSet(C) /\ Cardinality(C) \in Nat /\ IsFiniteSet(Members(size, b))
        BY Parts, PlayersAreFinite, MembersAreFinite
      <4>3. \A q \in C : size[q] = Top(size)
        BY <1>5
      <4>4. \A q \in Members(size, b) \cup C : size[q] \in Nat
        BY <1>3 DEF Members, Leaders
      <4>5. u.band[b] = sum + SumFunctionOnSet(size, C)
        BY <1>1, <4>1, <4>2, <4>4, SumUnion
      <4>6. SumFunctionOnSet(size, C) = Top(size) * Cardinality(C)
        BY <1>4, <4>2, <4>3, SumConstant
      <4>7. sum \in Nat
        BY <4>2, <4>4, SumNat
      <4>8. t.band[b] = Max({0, u.band[b] - Top(size) * Cardinality(C)})
        BY <1>1, <1>2, <2>1, <3>3 DEF CloseTally, Bands
      <4>9. Top(size) * Cardinality(C) \in Nat
        BY <1>4, <4>2
      <4>10. u.band[b] - Top(size) * Cardinality(C) = sum
        <5> HIDE DEF sum, C
        <5> QED BY <4>5, <4>6, <4>7, <4>9
      <4>11. Max({0, sum}) = sum
        <5> HIDE DEF sum
        <5>1. IsFiniteSet({0, sum})
          <6>1. IsFiniteSet({0})
            BY FS_Singleton
          <6>2. IsFiniteSet({0} \cup {sum})
            BY <6>1, FS_AddElement
          <6>3. {0, sum} = {0} \cup {sum}
            OBVIOUS
          <6> QED BY <6>2, <6>3
        <5> QED BY <4>7, <5>1, MaxIs
      <4> QED BY <4>8, <4>10, <4>11
    <3> QED BY <1>4, <3>2, <3>3
  <2>8. Champions(t) = Cardinality(Members(size, 1))
    BY <2>3, <2>5 DEF Champions
  <2> QED BY <2>6, <2>7, <2>8
<1> QED BY <1>11, <1>12

\* The prize of a vault is what its rank promises.
LEMMA PrizeIsPromised ==
  ASSUME NEW size \in SizeType, NEW S \in SUBSET Players, Counted(S, size),
         NEW t, t = Closed(S, size), NEW p \in Players, size[p] > 0, NEW total \in Nat
  PROVE  TierPrize(size[p], total, t) = PromisedPrize(p, size, total)
<1> DEFINE b == Tier(size, p)
<1>1. /\ Champions(t) = Cardinality(Members(size, 1))
      /\ \A e \in Bands : t.band[e] = SumFunctionOnSet(size, Members(size, e))
      /\ IsChampion(size[p], t) <=> b = 1
  BY ClosedTally
<1>2. b \in 1..5 /\ p \in Members(size, b)
  BY TierIs DEF Members
<1>3. \A e \in 1..5 : Populated(e, t) <=> Members(size, e) # {}
  <2> SUFFICES ASSUME NEW e \in 1..5 PROVE Populated(e, t) <=> Members(size, e) # {}
    OBVIOUS
  <2>1. CASE e = 1
    BY <1>1, <2>1, MembersAreFinite DEF Populated
  <2>2. CASE e # 1
    <3>1. t.band[e] = SumFunctionOnSet(size, Members(size, e))
      BY <1>1, <2>2 DEF Bands
    <3>2. SumFunctionOnSet(size, Members(size, e)) \in Nat
      BY MembersAreFinite, SumNat
    <3>3. SumFunctionOnSet(size, Members(size, e)) = 0 <=>
            \A q \in Members(size, e) : size[q] = 0
      BY MembersAreFinite, SumZero
    <3>4. \A q \in Members(size, e) : size[q] # 0
      BY MembersAreFinite
    <3> QED BY <2>2, <3>1, <3>2, <3>3, <3>4 DEF Populated
  <2> QED BY <2>1, <2>2
<1>4. b = IF IsChampion(size[p], t) THEN 1
          ELSE IF BandOf(size[p]) = 1 THEN 2 ELSE BandOf(size[p])
  <2>1. BandOf(size[p]) = 1 => b = 1
    BY DEF Tier
  <2>2. b # 1 => b = BandOf(size[p])
    BY DEF Tier
  <2> HIDE DEF b
  <2> QED BY <1>1, <2>1, <2>2
<1>5. {a \in 1..b : \A e \in a..(b - 1) : ~Populated(e, t)} = Carried(size, b)
  <2>1. \A a \in 1..b : \A e \in a..(b - 1) : e \in 1..5
    BY <1>2
  <2> HIDE DEF b
  <2> QED BY <1>3, <2>1 DEF Carried
<1>6. EffectiveShare(b, t) = SumFunctionOnSet(BandShare, Carried(size, b))
  BY <1>5 DEF EffectiveShare
<1>7. TierPrize(size[p], total, t) =
        IF b = 1 THEN TierPool(size, total, b) \div Champions(t)
        ELSE (TierPool(size, total, b) * size[p]) \div t.band[b]
  <2>1. Populated(b, t)
    BY <1>2, <1>3
  <2> HIDE DEF b
  <2> QED BY <1>4, <1>6, <2>1 DEF TierPrize, TierPool
<1>8. b # 1 => t.band[b] = SumFunctionOnSet(size, Members(size, b))
  BY <1>1, <1>2 DEF Bands
<1>9. PromisedPrize(p, size, total) =
        IF b = 1 THEN TierPool(size, total, b) \div Cardinality(Members(size, 1))
        ELSE (TierPool(size, total, b) * size[p])
               \div SumFunctionOnSet(size, Members(size, b))
  <2>1. size[p] # 0
    OBVIOUS
  <2> QED BY <2>1, PromisedIs
<1> HIDE DEF b
<1> QED BY <1>1, <1>7, <1>8, <1>9

\* The share of a tier, and what is promised to its members, are numbers.
LEMMA ShareIsNat ==
  ASSUME NEW size \in SizeType, NEW b \in 1..5
  PROVE  /\ Carried(size, b) \in SUBSET (1..5) /\ IsFiniteSet(Carried(size, b))
         /\ SumFunctionOnSet(BandShare, Carried(size, b)) \in Nat
<1>1. Carried(size, b) \in SUBSET (1..5)
  BY DEF Carried
<1>2. IsFiniteSet(1..5)
  BY FS_Interval, 1 \in Int, 5 \in Int
<1>3. IsFiniteSet(Carried(size, b))
  BY <1>1, <1>2, FS_Subset
<1>4. \A a \in Carried(size, b) : BandShare[a] \in Nat
  BY <1>1, PrizeAssumption
<1> QED BY <1>1, <1>3, <1>4, SumNat

LEMMA TierPoolIsNat ==
  ASSUME NEW size \in SizeType, NEW total \in Nat, NEW b \in 1..5
  PROVE  /\ TierPool(size, total, b) \in Nat
         /\ TierPool(size, total, b) * 100 <=
              total * SumFunctionOnSet(BandShare, Carried(size, b))
<1> DEFINE s == SumFunctionOnSet(BandShare, Carried(size, b))
<1>1. s \in Nat
  BY ShareIsNat
<1>2. total * s \in Nat
  <2> HIDE DEF s
  <2> QED BY <1>1
<1>3. \A n \in Nat : (n \div 100) \in Nat /\ (n \div 100) * 100 <= n
  OBVIOUS
<1> DEFINE n == total * s
<1>4. n \div 100 \in Nat /\ (n \div 100) * 100 <= n
  <2> HIDE DEF n
  <2> QED BY <1>2, <1>3 DEF n
<1> QED BY <1>4 DEF TierPool

\* Division rounds down.
LEMMA Floor ==
  ASSUME NEW n \in Nat, NEW d \in Nat, d > 0
  PROVE  n \div d \in Nat /\ (n \div d) * d <= n
OBVIOUS

\* What the members of a tier are promised: as much as its pool allows.
LEMMA PromiseOfMember ==
  ASSUME NEW size \in SizeType, NEW total \in Nat, NEW b \in 1..5,
         NEW p \in Members(size, b)
  PROVE  /\ PromisedPrize(p, size, total) \in Nat
         /\ b = 1 => PromisedPrize(p, size, total) * Cardinality(Members(size, 1))
                       <= TierPool(size, total, 1) * 1
         /\ b # 1 => PromisedPrize(p, size, total)
                       * SumFunctionOnSet(size, Members(size, b))
                       <= TierPool(size, total, b) * size[p]
<1>1. p \in Players /\ size[p] > 0 /\ Tier(size, p) = b /\ size[p] \in Nat
  BY MembersAreFinite DEF Members
<1>2. TierPool(size, total, b) \in Nat
  BY TierPoolIsNat
<1>3. PromisedPrize(p, size, total) =
        IF b = 1 THEN TierPool(size, total, b) \div Cardinality(Members(size, 1))
        ELSE (TierPool(size, total, b) * size[p])
               \div SumFunctionOnSet(size, Members(size, b))
  <2>1. size[p] # 0
    BY <1>1
  <2> QED BY <1>1, <2>1, PromisedIs
<1>4. CASE b = 1
  <2>1. Cardinality(Members(size, 1)) \in Nat /\ Cardinality(Members(size, 1)) > 0
    BY <1>4, MembersAreFinite
  <2> QED BY <1>2, <1>3, <1>4, <2>1, Floor
<1>5. CASE b # 1
  <2> DEFINE d == SumFunctionOnSet(size, Members(size, b))
  <2>1. d \in Nat /\ d # 0
    <3>1. d = 0 <=> \A q \in Members(size, b) : size[q] = 0
      BY MembersAreFinite, SumZero
    <3>2. d \in Nat
      BY MembersAreFinite, SumNat
    <3> QED BY <1>1, <3>1, <3>2
  <2>2. TierPool(size, total, b) * size[p] \in Nat
    BY <1>1, <1>2
  <2> HIDE DEF d
  <2>3. PromisedPrize(p, size, total) = (TierPool(size, total, b) * size[p]) \div d
    BY <1>3, <1>5 DEF d
  <2> DEFINE n == TierPool(size, total, b) * size[p]
  <2>4. n \div d \in Nat /\ (n \div d) * d <= n
    <3> HIDE DEF n
    <3> QED BY <2>1, <2>2, Floor DEF n
  <2> QED BY <1>5, <2>3, <2>4 DEF d
<1> QED BY <1>4, <1>5

LEMMA PromiseIsNat ==
  ASSUME NEW size \in SizeType, NEW total \in Nat, NEW p \in Players
  PROVE  PromisedPrize(p, size, total) \in Nat
<1>1. CASE size[p] = 0
  BY <1>1, PromisedIs
<1>2. CASE size[p] # 0
  <2>1. size[p] > 0
    BY <1>2, Parts
  <2>2. p \in Members(size, Tier(size, p)) /\ Tier(size, p) \in 1..5
    BY <2>1, TierIs DEF Members
  <2> QED BY <2>2, PromiseOfMember
<1> QED BY <1>1, <1>2

-----------------------------------------------------------------------------
(***************************************************************************)
(* The promises fit in the pool: each tier pays out no more than its part  *)
(* of it, rounding down, and the shares of the populated tiers are taken   *)
(* from different tiers, whose shares add up to at most 100 percent.       *)
(***************************************************************************)

\* A sum over five disjoint sets.
LEMMA SumOfParts ==
  ASSUME NEW f, NEW S, IsFiniteSet(S), \A x \in S : f[x] \in Nat,
         NEW A \in [1..5 -> SUBSET S],
         \A b, c \in 1..5 : b # c => A[b] \cap A[c] = {}
  PROVE  SumFunctionOnSet(f, A[1] \cup A[2] \cup A[3] \cup A[4] \cup A[5]) =
           SumFunctionOnSet(f, A[1]) + SumFunctionOnSet(f, A[2]) + SumFunctionOnSet(f, A[3])
             + SumFunctionOnSet(f, A[4]) + SumFunctionOnSet(f, A[5])
<1> DEFINE V(T) == SumFunctionOnSet(f, T)
<1>1. \A T, U \in SUBSET S : T \cap U = {} => V(T \cup U) = V(T) + V(U)
  BY SumUnion, FS_Subset
<1>2. \A T \in SUBSET S : V(T) \in Nat
  BY SumNat, FS_Subset
<1> HIDE DEF V
<1> DEFINE B2 == A[1] \cup A[2]
           B3 == B2 \cup A[3]
           B4 == B3 \cup A[4]
<1>3. /\ A[1] \in SUBSET S /\ A[2] \in SUBSET S /\ A[3] \in SUBSET S
      /\ A[4] \in SUBSET S /\ A[5] \in SUBSET S
  OBVIOUS
<1>4. /\ A[1] \cap A[2] = {} /\ A[1] \cap A[3] = {} /\ A[1] \cap A[4] = {}
      /\ A[1] \cap A[5] = {} /\ A[2] \cap A[3] = {} /\ A[2] \cap A[4] = {}
      /\ A[2] \cap A[5] = {} /\ A[3] \cap A[4] = {} /\ A[3] \cap A[5] = {}
      /\ A[4] \cap A[5] = {}
  OBVIOUS
<1>5. B2 \in SUBSET S /\ V(B2) = V(A[1]) + V(A[2])
  BY <1>1, <1>3, <1>4
<1>6. B3 \in SUBSET S /\ V(B3) = V(B2) + V(A[3])
  <2>1. B2 \cap A[3] = {}
    BY <1>4
  <2> HIDE DEF B2
  <2> QED BY <1>1, <1>3, <1>5, <2>1
<1>7. B4 \in SUBSET S /\ V(B4) = V(B3) + V(A[4])
  <2>1. B3 \cap A[4] = {}
    BY <1>4
  <2> HIDE DEF B3
  <2> QED BY <1>1, <1>3, <1>6, <2>1
<1>8. V(B4 \cup A[5]) = V(B4) + V(A[5])
  <2>1. B4 \cap A[5] = {}
    BY <1>4
  <2> HIDE DEF B4
  <2> QED BY <1>1, <1>3, <1>7, <2>1
<1>9. V(B4 \cup A[5]) = V(A[1]) + V(A[2]) + V(A[3]) + V(A[4]) + V(A[5])
  <2> HIDE DEF B4, B3, B2
  <2> QED BY <1>5, <1>6, <1>7, <1>8
<1> QED BY <1>9 DEF V

\* The shares of the populated tiers are taken from different tiers, and so they
\* add up to no more than the whole pool.
Share(size, b) == IF Members(size, b) = {} THEN {} ELSE Carried(size, b)

LEMMA SharesFit ==
  ASSUME NEW size \in SizeType
  PROVE  SumFunctionOnSet(BandShare, Share(size, 1))
           + SumFunctionOnSet(BandShare, Share(size, 2))
           + SumFunctionOnSet(BandShare, Share(size, 3))
           + SumFunctionOnSet(BandShare, Share(size, 4))
           + SumFunctionOnSet(BandShare, Share(size, 5)) <= 100
<1> DEFINE A == [b \in 1..5 |-> Share(size, b)]
           All == A[1] \cup A[2] \cup A[3] \cup A[4] \cup A[5]
           V(T) == SumFunctionOnSet(BandShare, T)
<1>1. IsFiniteSet(1..5) /\ \A a \in 1..5 : BandShare[a] \in Nat
  <2>1. IsFiniteSet(1..5)
    BY FS_Interval, 1 \in Int, 5 \in Int
  <2> QED BY <2>1, PrizeAssumption
<1>2. A \in [1..5 -> SUBSET (1..5)]
  BY DEF Share, Carried
<1>3. \A b, c \in 1..5 : b # c => A[b] \cap A[c] = {}
  <2>1. ASSUME NEW b \in 1..5, NEW c \in 1..5, b < c PROVE A[b] \cap A[c] = {}
    <3>1. SUFFICES ASSUME NEW a \in A[b] \cap A[c] PROVE FALSE
      OBVIOUS
    <3>2. Members(size, b) # {} /\ a \in Carried(size, b) /\ a \in Carried(size, c)
      BY <3>1 DEF Share
    <3>3. a \in 1..b /\ \A e \in a..(c - 1) : Members(size, e) = {}
      BY <3>2 DEF Carried
    <3>4. b \in a..(c - 1)
      BY <2>1, <3>3
    <3> QED BY <3>2, <3>3, <3>4
  <2> HIDE DEF A
  <2> QED BY <2>1
<1>4. V(All) = V(A[1]) + V(A[2]) + V(A[3]) + V(A[4]) + V(A[5])
  <2> HIDE DEF A
  <2> QED BY <1>1, <1>2, <1>3, SumOfParts
<1>5. V(All) <= 100
  <2>1. All \in SUBSET (1..5)
    <3> HIDE DEF A
    <3> QED BY <1>2
  <2>2. IsFiniteSet(All) /\ IsFiniteSet((1..5) \ All)
    <3> HIDE DEF All
    <3>1. (1..5) \ All \in SUBSET (1..5)
      OBVIOUS
    <3> QED BY <1>1, <2>1, <3>1, FS_Subset
  <2>3. All \cup ((1..5) \ All) = 1..5 /\ All \cap ((1..5) \ All) = {}
    <3> HIDE DEF All
    <3> QED BY <2>1
  <2>4. V(1..5) = V(All) + V((1..5) \ All)
    <3>1. \A a \in All \cup ((1..5) \ All) : BandShare[a] \in Nat
      <4> HIDE DEF All
      <4> QED BY <1>1, <2>3
    <3>2. V(All \cup ((1..5) \ All)) = V(All) + V((1..5) \ All)
      <4> HIDE DEF All
      <4> QED BY <2>2, <2>3, <3>1, SumUnion
    <3> HIDE DEF All, V
    <3> QED BY <2>3, <3>2
  <2>5. V(All) \in Nat /\ V((1..5) \ All) \in Nat
    <3>1. \A a \in All : BandShare[a] \in Nat
      <4> HIDE DEF All
      <4> QED BY <1>1, <2>1
    <3>2. \A a \in (1..5) \ All : BandShare[a] \in Nat
      BY <1>1
    <3> HIDE DEF All
    <3> QED BY <2>2, <3>1, <3>2, SumNat
  <2>6. V(1..5) <= 100 /\ V(1..5) \in Nat
    BY <1>1, PrizeAssumption, SumNat
  <2> HIDE DEF V, All
  <2> QED BY <2>4, <2>5, <2>6
<1>6. /\ A[1] = Share(size, 1) /\ A[2] = Share(size, 2) /\ A[3] = Share(size, 3)
      /\ A[4] = Share(size, 4) /\ A[5] = Share(size, 5)
  OBVIOUS
<1> HIDE DEF A, All
<1> QED BY <1>4, <1>5, <1>6

\* What a tier is paid fits in its part of the pool.
LEMMA TierFits ==
  ASSUME NEW size \in SizeType, NEW total \in Nat, NEW b \in 1..5, NEW f,
         \A p \in Members(size, b) : f[p] = PromisedPrize(p, size, total)
  PROVE  /\ SumFunctionOnSet(f, Members(size, b)) \in Nat
         /\ SumFunctionOnSet(BandShare, Share(size, b)) \in Nat
         /\ SumFunctionOnSet(f, Members(size, b)) * 100
              <= total * SumFunctionOnSet(BandShare, Share(size, b))
<1> DEFINE M == Members(size, b)
           x == SumFunctionOnSet(f, M)
           T == TierPool(size, total, b)
<1>1. IsFiniteSet(M) /\ \A p \in M : f[p] \in Nat
  BY MembersAreFinite, PromiseOfMember
<1>2. x \in Nat
  <2> HIDE DEF M
  <2> QED BY <1>1, SumNat
<1>3. CASE M = {}
  <2>1. x = 0 /\ SumFunctionOnSet(BandShare, Share(size, b)) = 0
    BY <1>3, SumEmpty DEF Share
  <2> QED BY <1>2, <2>1
<1>4. CASE M # {}
  <2> DEFINE s == SumFunctionOnSet(BandShare, Carried(size, b))
  <2>1. Share(size, b) = Carried(size, b) /\ s \in Nat
    BY <1>4, ShareIsNat DEF Share
  <2>2. T \in Nat /\ T * 100 <= total * s
    BY TierPoolIsNat
  <2>3. x <= T
    <3>1. CASE b = 1
      <4> DEFINE k == Cardinality(M)
                 g == [p \in M |-> 1]
      <4>1. k \in Nat /\ k > 0
        BY <1>4, MembersAreFinite
      <4>2. \A p \in M : f[p] \in Nat /\ g[p] \in Nat /\ f[p] * k <= T * g[p]
        BY <1>1, <3>1, PromiseOfMember
      <4>3. SumFunctionOnSet(g, M) = 1 * k
        <5>1. \A p \in M : g[p] = 1
          OBVIOUS
        <5> HIDE DEF g, M
        <5> QED BY <1>1, <5>1, SumConstant
      <4>4. x * k <= T * SumFunctionOnSet(g, M)
        <5> HIDE DEF g, M, T, k
        <5> QED BY <1>1, <2>2, <4>1, <4>2, SumScaled
      <4>5. \A c \in Nat : c * k <= T * k => c <= T
        <5> HIDE DEF T, k
        <5> QED BY <2>2, <4>1
      <4>6. 1 * k = k
        <5> HIDE DEF k
        <5> QED BY <4>1
      <4> HIDE DEF x, k, T, g, M
      <4> QED BY <1>2, <4>3, <4>4, <4>5, <4>6
    <3>2. CASE b # 1
      <4> DEFINE k == SumFunctionOnSet(size, M)
      <4>1. k \in Nat /\ k # 0
        <5>1. k \in Nat /\ (k = 0 <=> \A p \in M : size[p] = 0)
          BY MembersAreFinite, SumNat, SumZero
        <5> QED BY <1>4, <5>1, MembersAreFinite
      <4>2. \A p \in M : f[p] \in Nat /\ size[p] \in Nat /\ f[p] * k <= T * size[p]
        BY <1>1, <3>2, MembersAreFinite, PromiseOfMember
      <4>3. x * k <= T * k
        <5>1. x * k <= T * SumFunctionOnSet(size, M)
          <6> HIDE DEF M, T, k
          <6> QED BY <1>1, <2>2, <4>1, <4>2, SumScaled
        <5> QED BY <5>1
      <4>4. \A c \in Nat : c * k <= T * k => c <= T
        <5> HIDE DEF T, k
        <5> QED BY <2>2, <4>1
      <4> HIDE DEF x, k, T
      <4> QED BY <1>2, <4>3, <4>4
    <3> QED BY <3>1, <3>2
  <2>4. x * 100 <= T * 100
    <3> HIDE DEF x, T
    <3> QED BY <1>2, <2>2, <2>3
  <2>5. total * s \in Nat
    <3> HIDE DEF s
    <3> QED BY <2>1
  <2>6. x * 100 <= total * s
    <3> DEFINE w == total * s
    <3> HIDE DEF x, T, s, w
    <3>1. T * 100 <= w /\ w \in Nat
      BY <2>2, <2>5 DEF w
    <3>2. x * 100 <= w
      BY <1>2, <2>2, <2>4, <3>1
    <3> QED BY <3>2 DEF w
  <2> QED BY <1>2, <2>1, <2>6
<1> HIDE DEF x
<1> QED BY <1>3, <1>4 DEF x

\* All that is promised fits in the pool.
LEMMA PromisesFit ==
  ASSUME NEW size \in SizeType, NEW total \in Nat, NEW f,
         \A p \in Players : size[p] > 0 => f[p] = PromisedPrize(p, size, total)
  PROVE  SumFunctionOnSet(f, {p \in Players : size[p] > 0}) <= total
<1> DEFINE R == {p \in Players : size[p] > 0}
           A == [b \in 1..5 |-> Members(size, b)]
           x(b) == SumFunctionOnSet(f, Members(size, b))
           s(b) == SumFunctionOnSet(BandShare, Share(size, b))
<1>1. IsFiniteSet(R) /\ \A p \in R : f[p] \in Nat
  <2>1. R \in SUBSET Players
    OBVIOUS
  <2>2. \A p \in R : f[p] \in Nat
    BY PromiseIsNat
  <2> HIDE DEF R
  <2> QED BY <2>1, <2>2, PlayersAreFinite
<1>2. A \in [1..5 -> SUBSET R] /\ \A b, c \in 1..5 : b # c => A[b] \cap A[c] = {}
  BY DEF Members
<1>3. R = A[1] \cup A[2] \cup A[3] \cup A[4] \cup A[5]
  <2>1. \A p \in R : Tier(size, p) \in 1..5
    BY TierIs
  <2> QED BY <2>1 DEF Members
<1>4. SumFunctionOnSet(f, R) = x(1) + x(2) + x(3) + x(4) + x(5)
  <2>1. SumFunctionOnSet(f, A[1] \cup A[2] \cup A[3] \cup A[4] \cup A[5]) =
          SumFunctionOnSet(f, A[1]) + SumFunctionOnSet(f, A[2]) + SumFunctionOnSet(f, A[3])
            + SumFunctionOnSet(f, A[4]) + SumFunctionOnSet(f, A[5])
    <3> HIDE DEF A, R
    <3> QED BY <1>1, <1>2, SumOfParts
  <2>2. /\ A[1] = Members(size, 1) /\ A[2] = Members(size, 2) /\ A[3] = Members(size, 3)
        /\ A[4] = Members(size, 4) /\ A[5] = Members(size, 5)
    OBVIOUS
  <2> HIDE DEF A, R
  <2> QED BY <1>3, <2>1, <2>2
<1>5. \A b \in 1..5 : x(b) \in Nat /\ s(b) \in Nat /\ x(b) * 100 <= total * s(b)
  <2> SUFFICES ASSUME NEW b \in 1..5
               PROVE  x(b) \in Nat /\ s(b) \in Nat /\ x(b) * 100 <= total * s(b)
    OBVIOUS
  <2>1. \A p \in Members(size, b) : f[p] = PromisedPrize(p, size, total)
    BY DEF Members
  <2> QED BY <2>1, TierFits
<1>6. s(1) + s(2) + s(3) + s(4) + s(5) <= 100
  BY SharesFit
<1> HIDE DEF x, s
<1>7. (x(1) + x(2) + x(3) + x(4) + x(5)) * 100
        <= total * (s(1) + s(2) + s(3) + s(4) + s(5))
  BY <1>5
<1>8. total * (s(1) + s(2) + s(3) + s(4) + s(5)) <= total * 100
  <2> DEFINE w == s(1) + s(2) + s(3) + s(4) + s(5)
  <2>1. w \in Nat /\ w <= 100
    BY <1>5, <1>6
  <2> HIDE DEF w
  <2>2. total * w <= total * 100
    BY <2>1
  <2> QED BY <2>2 DEF w
<1>9. x(1) + x(2) + x(3) + x(4) + x(5) <= total
  BY <1>5, <1>7, <1>8
<1> QED BY <1>4, <1>9

-----------------------------------------------------------------------------
(***************************************************************************)
(* The inductive invariant behind NobodyLeftOut.  The counters of the      *)
(* GameWorld count real sets: total_participants the registered players,   *)
(* finalize_processed the tallied ones.  The tallied are not above the     *)
(* cursor, so an ascending batch holds nobody who was counted before.      *)
(***************************************************************************)
CountersCount ==
  /\ status \in 0..2
  /\ deposit \subseteq Players /\ tallied \subseteq Players
  /\ participants \in Nat /\ processed \in Nat /\ cursor \in Nat
  /\ processed = Cardinality(tallied)
  /\ \A p \in tallied : p <= cursor
  /\ status # 2 => tallied \subseteq deposit /\ participants = Cardinality(deposit)
  /\ status = 2 => deposit \subseteq tallied /\ participants = Cardinality(tallied)

LEMMA InitCountersCount == Init => CountersCount
BY FS_EmptySet DEF Init, CountersCount

\* Most actions leave the counters and what they count alone.
LEMMA CountersUntouched ==
  ASSUME CountersCount,
         UNCHANGED <<status, participants, processed, cursor, deposit, tallied>>
  PROVE  CountersCount'
BY DEF CountersCount

LEMMA RegisterKeepsCounters ==
  ASSUME CountersCount, NEW p \in Players, NEW s \in Starters, Register(p, s)
  PROVE  CountersCount'
<1>1. /\ deposit' = deposit \cup {p} /\ p \notin deposit
      /\ participants' = participants + 1 /\ status = 0
      /\ UNCHANGED <<status, processed, cursor, tallied>>
  BY DEF Register, tallyVars
<1>2. Cardinality(deposit') = Cardinality(deposit) + 1
  BY <1>1, PlayersAreFinite, FS_AddElement DEF CountersCount
<1>3. QED
  BY <1>1, <1>2 DEF CountersCount

LEMMA TallyKeepsCounters ==
  ASSUME CountersCount, NEW batch \in SUBSET Players, FinalizeSeasonTally(batch)
  PROVE  CountersCount'
<1>1. /\ status = 1 /\ batch # {} /\ batch \subseteq deposit
      /\ \A p \in batch : p > cursor
      /\ cursor' = Max(batch) /\ processed' = processed + Cardinality(batch)
      /\ tallied' = tallied \cup batch
      /\ UNCHANGED <<status, participants, deposit>>
  BY DEF FinalizeSeasonTally, BatchAllowed
<1>2. /\ IsFiniteSet(batch) /\ IsFiniteSet(tallied) /\ batch \subseteq Nat
      /\ Cardinality(batch) \in Nat /\ tallied \subseteq Nat
  BY PlayersAreFinite DEF CountersCount
<1>3. /\ Max(batch) \in Nat /\ \A p \in batch : p <= Max(batch)
      /\ Max(batch) > cursor
  BY <1>1, <1>2, MaxIsGreatest
<1>4. tallied \cap batch = {}
  BY <1>1, <1>2 DEF CountersCount
<1>5. Cardinality(tallied') = Cardinality(tallied) + Cardinality(batch)
  <2>1. Cardinality(tallied') =
          Cardinality(tallied) + Cardinality(batch) - Cardinality({})
    BY <1>1, <1>2, <1>4, FS_Union
  <2>2. QED
    BY <1>2, <2>1, FS_EmptySet, PlayersAreFinite DEF CountersCount
<1>6. \A p \in tallied' : p <= cursor'
  BY <1>1, <1>2, <1>3 DEF CountersCount
<1>7. QED
  BY <1>1, <1>2, <1>3, <1>5, <1>6 DEF CountersCount

\* Everybody registered is tallied when the season may end.
LEMMA AllTallied ==
  ASSUME CountersCount, status # 2, TallyComplete
  PROVE  tallied = deposit
<1>1. tallied \in SUBSET deposit /\ Cardinality(deposit) = Cardinality(tallied)
  BY DEF CountersCount, TallyComplete
<1>2. IsFiniteSet(deposit)
  BY PlayersAreFinite DEF CountersCount
<1> QED BY <1>1, <1>2, FS_Subset

LEMMA EndKeepsCounters ==
  ASSUME CountersCount, EndSeasonFinal
  PROVE  CountersCount'
<1>1. /\ status = 1 /\ processed = participants /\ status' = 2
      /\ UNCHANGED <<participants, processed, cursor, deposit, tallied>>
  BY DEF EndSeasonFinal, TallyComplete
<1>2. tallied = deposit
  BY <1>1, AllTallied DEF TallyComplete
<1>3. QED
  BY <1>1, <1>2 DEF CountersCount

\* A claim, or a cancellation after the end, takes a player out of deposit.
LEMMA ConsumedClaimKeepsCounters ==
  ASSUME CountersCount, status = 2, NEW p, deposit' = deposit \ {p},
         UNCHANGED <<status, participants, processed, cursor, tallied>>
  PROVE  CountersCount'
BY DEF CountersCount

LEMMA CancelKeepsCounters ==
  ASSUME CountersCount, NEW p \in Players, NEW c \in Cards, CancelListing(p, c)
  PROVE  CountersCount'
<1>1. UNCHANGED <<status, participants, processed, cursor, tallied>>
  BY DEF CancelListing, tallyVars
<1>2. CASE status = 2
  BY <1>1, <1>2, ConsumedClaimKeepsCounters DEF CancelListing, ConsumesZeroClaim
<1>3. CASE status # 2
  BY <1>1, <1>3, CountersUntouched DEF CancelListing
<1>4. QED
  BY <1>2, <1>3

LEMMA ClaimKeepsCounters ==
  ASSUME CountersCount, NEW p \in Players, ClaimPrizeV2(p)
  PROVE  CountersCount'
<1>1. /\ status = 2 /\ deposit' = deposit \ {p}
      /\ UNCHANGED <<status, participants, processed, cursor, tallied>>
  BY DEF ClaimPrizeV2, ConsumesClaim, tallyVars
<1>2. QED
  BY <1>1, ConsumedClaimKeepsCounters

LEMMA ActivateKeepsCounters ==
  ASSUME CountersCount, ActivateSeason
  PROVE  CountersCount'
BY DEF CountersCount, ActivateSeason, tallyVars

THEOREM NextKeepsCounters == CountersCount /\ [Next]_vars => CountersCount'
<1> SUFFICES ASSUME CountersCount, [Next]_vars PROVE CountersCount'
  OBVIOUS
<1>1. CASE \E p \in Players, s \in Starters : Register(p, s)
  BY <1>1, RegisterKeepsCounters
<1>2. CASE ActivateSeason
  BY <1>2, ActivateKeepsCounters
<1>3. CASE \E p \in Players, c \in Cards : CancelListing(p, c)
  BY <1>3, CancelKeepsCounters
<1>4. CASE \E batch \in SUBSET Players : FinalizeSeasonTally(batch)
  BY <1>4, TallyKeepsCounters
<1>5. CASE EndSeasonFinal
  BY <1>5, EndKeepsCounters
<1>6. CASE \E p \in Players : ClaimPrizeV2(p)
  BY <1>6, ClaimKeepsCounters
<1>7. CASE \/ \E t \in 0..Horizon : SetWaitlistDeadline(t)
           \/ \E p \in Players, draw \in PackDraws : BuyPack(p, draw)
           \/ Donate \/ Tick \/ UNCHANGED vars
  BY <1>7, CountersUntouched
     DEF SetWaitlistDeadline, BuyPack, Donate, Tick, vars, tallyVars
<1>8. CASE \/ \E p \in Players, c \in Cards : CreateListing(p, c)
           \/ \E p, q \in Players, c \in Cards :
                AcceptListing(q, p, c) \/ LootTransfer(p, q, c)
           \/ \E p \in Players, met \in SUBSET Legendary : CheckLegendary(p, met)
  BY <1>8, CountersUntouched
     DEF CreateListing, AcceptListing, LootTransfer, CheckLegendary, tallyVars
<1>9. QED
  BY <1>1, <1>2, <1>3, <1>4, <1>5, <1>6, <1>7, <1>8 DEF Next

\* When the season has ended everybody who registered was tallied, and the number
\* of the tallied is the number of the registered: nobody was left out by the
\* batches of finalize_season_tally, and nobody was counted twice.
THEOREM SeasonLeavesNobodyOut == Spec => []NobodyLeftOut
<1>1. CountersCount => NobodyLeftOut
  BY DEF CountersCount, NobodyLeftOut
<1>2. QED
  BY <1>1, InitCountersCount, NextKeepsCounters, PTL DEF Spec

-----------------------------------------------------------------------------
(***************************************************************************)
(* The pool covers what is on record until the season ends.                *)
(***************************************************************************)
PoolInv ==
  status # 2 => pool \in Nat /\ recorded \in Nat /\ pool - Rent >= recorded

LEMMA InitPoolInv == Init => PoolInv
BY SeasonAssumption DEF Init, PoolInv

\* A deposit or a sale adds as much to the pool as to the record.
LEMMA TakeInKeepsPool ==
  ASSUME PoolInv, NEW amount \in Nat, TakeIn(amount), status' = status
  PROVE  PoolInv'
BY SeasonAssumption DEF PoolInv, TakeIn

LEMMA PoolUntouched ==
  ASSUME PoolInv, UNCHANGED <<pool, recorded>>, status' = 2 => status = 2,
         status = 2 => status' = 2
  PROVE  PoolInv'
BY DEF PoolInv

LEMMA NextKeepsPool == PoolInv /\ [Next]_vars => PoolInv'
<1> SUFFICES ASSUME PoolInv, [Next]_vars PROVE PoolInv'
  OBVIOUS
<1>1. CASE \E p \in Players, s \in Starters : Register(p, s)
  BY <1>1, TakeInKeepsPool, SeasonAssumption DEF Register
<1>2. CASE \E p \in Players, draw \in PackDraws : BuyPack(p, draw)
  BY <1>2, TakeInKeepsPool, SeasonAssumption DEF BuyPack
<1>3. CASE Donate
  BY <1>3, SeasonAssumption DEF Donate, PoolInv
<1>4. CASE EndSeasonFinal \/ \E p \in Players : ClaimPrizeV2(p)
  BY <1>4 DEF EndSeasonFinal, ClaimPrizeV2, PoolInv
<1>5. CASE ActivateSeason
  BY <1>5, PoolUntouched DEF ActivateSeason, moneyVars
<1>6. CASE \/ \E t \in 0..Horizon : SetWaitlistDeadline(t)
           \/ \E batch \in SUBSET Players : FinalizeSeasonTally(batch)
           \/ Tick \/ UNCHANGED vars
  BY <1>6, PoolUntouched
     DEF SetWaitlistDeadline, FinalizeSeasonTally, Tick, vars, moneyVars
<1>7. CASE \/ \E p \in Players, c \in Cards :
                CreateListing(p, c) \/ CancelListing(p, c)
           \/ \E p, q \in Players, c \in Cards :
                AcceptListing(q, p, c) \/ LootTransfer(p, q, c)
           \/ \E p \in Players, met \in SUBSET Legendary : CheckLegendary(p, met)
  BY <1>7, PoolUntouched
     DEF CreateListing, CancelListing, AcceptListing, LootTransfer, CheckLegendary,
         moneyVars
<1>8. QED
  BY <1>1, <1>2, <1>3, <1>4, <1>5, <1>6, <1>7 DEF Next

\* Whatever registrations, sales and donations do, the account of the pool holds
\* what total_prize_pool records and the rent, until the season ends.
THEOREM SeasonPoolCoversRecord == Spec => []PoolCoversRecord
<1>1. PoolInv => PoolCoversRecord
  BY DEF PoolInv, PoolCoversRecord
<1>2. QED
  BY <1>1, InitPoolInv, NextKeepsPool, PTL DEF Spec

-----------------------------------------------------------------------------
(***************************************************************************)
(* Cards: only registered players own or list any until the season ends.   *)
(***************************************************************************)
CardsInv ==
  /\ vault \in [Players -> SUBSET Cards]
  /\ listed \subseteq Players \X Cards
  /\ status # 2 =>
       \A p \in Players \ deposit :
         vault[p] = {} /\ \A c \in Cards : <<p, c>> \notin listed

LEMMA SizesAreSizes == CardsInv => Sizes \in SizeType
<1> SUFFICES ASSUME CardsInv, NEW p \in Players PROVE Size(p) \in 0..FullCount
  BY DEF Sizes, SizeType
<1>1. vault[p] \in SUBSET Cards
  BY DEF CardsInv
<1>2. IsFiniteSet(Cards) /\ FullCount = Cardinality(Cards)
  BY SeasonAssumption
<1>3. IsFiniteSet(vault[p]) /\ Cardinality(vault[p]) <= Cardinality(Cards)
  BY <1>1, <1>2, FS_Subset
<1>4. Cardinality(vault[p]) \in Nat
  BY <1>3, FS_CardinalityType
<1> QED BY <1>2, <1>3, <1>4, PrizeAssumption DEF Size

LEMMA InitCards == Init => CardsInv
BY DEF Init, CardsInv

LEMMA CardsUntouched ==
  ASSUME CardsInv, UNCHANGED <<vault, listed, deposit>>, status' # 2 => status # 2
  PROVE  CardsInv'
BY DEF CardsInv

\* Cards move between registered players.
LEMMA TradeKeepsCards ==
  ASSUME CardsInv, status # 2, status' = status, deposit \subseteq deposit',
         vault' \in [Players -> SUBSET Cards], listed' \subseteq deposit' \X Cards,
         \A p \in Players \ deposit' : vault'[p] = vault[p], deposit' \subseteq Players
  PROVE  CardsInv'
BY DEF CardsInv

LEMMA ListersAreRegistered ==
  ASSUME CardsInv, status # 2
  PROVE  listed \subseteq deposit \X Cards
BY DEF CardsInv

LEMMA NextKeepsCards == CountersCount /\ CardsInv /\ [Next]_vars => CardsInv'
<1> SUFFICES ASSUME CountersCount, CardsInv, [Next]_vars PROVE CardsInv'
  OBVIOUS
<1>0. deposit \subseteq Players
  BY DEF CountersCount
<1>1. ASSUME NEW p \in Players, NEW s \in Starters, Register(p, s) PROVE CardsInv'
  <2>1. /\ status # 2 /\ status' = status /\ deposit' = deposit \cup {p}
        /\ vault' = [vault EXCEPT ![p] = s] /\ listed' = listed
    BY <1>1 DEF Register
  <2>2. s \in SUBSET Cards
    BY SeasonAssumption
  <2>3. listed' \subseteq deposit' \X Cards
    BY <2>1, ListersAreRegistered
  <2>4. vault' \in [Players -> SUBSET Cards]
    BY <2>1, <2>2 DEF CardsInv
  <2>5. \A q \in Players \ deposit' : vault'[q] = vault[q]
    BY <2>1 DEF CardsInv
  <2> QED BY <1>0, <2>1, <2>3, <2>4, <2>5, TradeKeepsCards
<1>2. ASSUME NEW p \in Players, NEW draw \in PackDraws, BuyPack(p, draw) PROVE CardsInv'
  <2>1. /\ status # 2 /\ status' = status /\ deposit' = deposit /\ p \in deposit
        /\ vault' = [vault EXCEPT ![p] = @ \cup draw] /\ listed' = listed
    BY <1>2 DEF BuyPack, CollectionOpen
  <2>2. draw \in SUBSET Cards
    BY SeasonAssumption
  <2>3. listed' \subseteq deposit' \X Cards
    BY <2>1, ListersAreRegistered
  <2>4. vault' \in [Players -> SUBSET Cards]
    BY <2>1, <2>2 DEF CardsInv
  <2>5. \A q \in Players \ deposit' : vault'[q] = vault[q]
    BY <2>1 DEF CardsInv
  <2> QED BY <1>0, <2>1, <2>3, <2>4, <2>5, TradeKeepsCards
<1>3. ASSUME NEW p \in Players, NEW c \in Cards, CreateListing(p, c) PROVE CardsInv'
  <2>1. /\ status # 2 /\ status' = status /\ deposit' = deposit /\ p \in deposit
        /\ vault' = [vault EXCEPT ![p] = @ \ {c}] /\ listed' = listed \cup {<<p, c>>}
    BY <1>3 DEF CreateListing, CollectionOpen
  <2>3. listed' \subseteq deposit' \X Cards
    BY <2>1, ListersAreRegistered
  <2>4. vault' \in [Players -> SUBSET Cards]
    BY <2>1 DEF CardsInv
  <2>5. \A q \in Players \ deposit' : vault'[q] = vault[q]
    BY <2>1 DEF CardsInv
  <2> QED BY <1>0, <2>1, <2>3, <2>4, <2>5, TradeKeepsCards
<1>4. ASSUME NEW p \in Players, NEW q \in Players, NEW c \in Cards,
             AcceptListing(q, p, c)
      PROVE  CardsInv'
  <2>1. /\ status # 2 /\ status' = status /\ deposit' = deposit /\ q \in deposit
        /\ vault' = [vault EXCEPT ![q] = @ \cup {c}] /\ listed' = listed \ {<<p, c>>}
    BY <1>4 DEF AcceptListing, CollectionOpen
  <2>3. listed' \subseteq deposit' \X Cards
    BY <2>1, ListersAreRegistered
  <2>4. vault' \in [Players -> SUBSET Cards]
    BY <2>1 DEF CardsInv
  <2>5. \A r \in Players \ deposit' : vault'[r] = vault[r]
    BY <2>1 DEF CardsInv
  <2> QED BY <1>0, <2>1, <2>3, <2>4, <2>5, TradeKeepsCards
<1>5. ASSUME NEW p \in Players, NEW q \in Players, NEW c \in Cards,
             LootTransfer(p, q, c)
      PROVE  CardsInv'
  <2>1. /\ status # 2 /\ status' = status /\ deposit' = deposit
        /\ p \in deposit /\ q \in deposit
        /\ vault' = [vault EXCEPT ![p] = @ \ {c}, ![q] = @ \cup {c}] /\ listed' = listed
    BY <1>5 DEF LootTransfer, CollectionOpen
  <2>3. listed' \subseteq deposit' \X Cards
    BY <2>1, ListersAreRegistered
  <2>4. vault' \in [Players -> SUBSET Cards]
    BY <2>1 DEF CardsInv
  <2>5. \A r \in Players \ deposit' : vault'[r] = vault[r]
    BY <2>1 DEF CardsInv
  <2> QED BY <1>0, <2>1, <2>3, <2>4, <2>5, TradeKeepsCards
<1>6. ASSUME NEW p \in Players, NEW met \in SUBSET Legendary, CheckLegendary(p, met)
      PROVE  CardsInv'
  <2>1. PICK won \in SUBSET Cards : vault' = [vault EXCEPT ![p] = @ \cup won]
    BY <1>6, SeasonAssumption DEF CheckLegendary
  <2>2. /\ status # 2 /\ status' = status /\ deposit' = deposit /\ p \in deposit
        /\ listed' = listed
    BY <1>6 DEF CheckLegendary, CollectionOpen
  <2>3. listed' \subseteq deposit' \X Cards
    BY <2>2, ListersAreRegistered
  <2>4. vault' \in [Players -> SUBSET Cards]
    BY <2>1 DEF CardsInv
  <2>5. \A r \in Players \ deposit' : vault'[r] = vault[r]
    BY <2>1, <2>2 DEF CardsInv
  <2> QED BY <1>0, <2>2, <2>3, <2>4, <2>5, TradeKeepsCards
<1>7. ASSUME NEW p \in Players, NEW c \in Cards, CancelListing(p, c) PROVE CardsInv'
  <2>1. /\ <<p, c>> \in listed /\ status' = status
        /\ vault' = [vault EXCEPT ![p] = @ \cup {c}] /\ listed' = listed \ {<<p, c>>}
    BY <1>7 DEF CancelListing
  <2>2. vault' \in [Players -> SUBSET Cards] /\ listed' \subseteq listed
    BY <2>1 DEF CardsInv
  <2>3. CASE status = 2
    BY <2>1, <2>2, <2>3 DEF CardsInv
  <2>4. CASE status # 2
    <3>1. deposit' = deposit
      BY <1>7, <2>4 DEF CancelListing
    <3>2. listed \subseteq deposit \X Cards
      BY <2>4, ListersAreRegistered
    <3>3. p \in deposit
      BY <2>1, <3>2
    <3>4. listed' \subseteq deposit' \X Cards
      BY <2>2, <3>1, <3>2
    <3>5. \A r \in Players \ deposit' : vault'[r] = vault[r]
      BY <2>1, <3>1, <3>3 DEF CardsInv
    <3> QED BY <1>0, <2>1, <2>2, <2>4, <3>1, <3>4, <3>5, TradeKeepsCards
  <2> QED BY <2>3, <2>4
<1>8. CASE EndSeasonFinal \/ \E p \in Players : ClaimPrizeV2(p)
  <2>1. status' = 2 /\ UNCHANGED <<vault, listed>>
    BY <1>8 DEF EndSeasonFinal, ClaimPrizeV2, cardVars
  <2> QED BY <2>1 DEF CardsInv
<1>9. CASE \/ \E t \in 0..Horizon : SetWaitlistDeadline(t)
           \/ ActivateSeason \/ Donate \/ Tick \/ UNCHANGED vars
           \/ \E batch \in SUBSET Players : FinalizeSeasonTally(batch)
  <2>1. UNCHANGED <<vault, listed, deposit>> /\ (status' # 2 => status # 2)
    BY <1>9 DEF SetWaitlistDeadline, ActivateSeason, Donate, Tick, vars,
                FinalizeSeasonTally, BatchAllowed, cardVars
  <2> QED BY <2>1, CardsUntouched
<1> QED BY <1>1, <1>2, <1>3, <1>4, <1>5, <1>6, <1>7, <1>8, <1>9 DEF Next

-----------------------------------------------------------------------------
(***************************************************************************)
(* The stored tally is a fresh count of the players counted so far: no     *)
(* card moves once anybody is counted, and a further batch adds what       *)
(* counting both at once would give.                                       *)
(***************************************************************************)
LEMMA TallyOfNobody ==
  ASSUME NEW size \in SizeType
  PROVE  TallyBatch(EmptyTally, {}, size) = EmptyTally
<1>1. \A b : InBand({}, size, b) = {}
  BY DEF InBand
<1>2. Leaders({}, size) = {}
  BY DEF Leaders
<1>3. Largest({}, size) = 0
  BY LargestIsUnique, {} \in SUBSET Players, 0 \in Nat
<1>4. Cardinality({}) = 0 /\ SumFunctionOnSet(size, {}) = 0
  BY FS_EmptySet, SumEmpty
<1>5. TallyBatch(EmptyTally, {}, size) =
        [full |-> Cardinality(InBand({}, size, 1)),
         max |-> Largest({}, size),
         maxCount |-> Cardinality(Leaders({}, size)),
         band |-> [b \in Bands |-> SumFunctionOnSet(size, InBand({}, size, b))]]
  BY TallyOfBatch, {} \in SUBSET Players
<1>6. [b \in Bands |-> SumFunctionOnSet(size, InBand({}, size, b))] = [b \in Bands |-> 0]
  BY <1>1, <1>4
<1> QED BY <1>1, <1>2, <1>3, <1>4, <1>5, <1>6 DEF EmptyTally

TallyInv ==
  /\ status = 0 => tallied = {}
  /\ status # 2 => tally = TallyBatch(EmptyTally, tallied, Sizes)
  /\ status = 2 => tally = Closed(tallied, finalSize)

LEMMA InitTally == Init => TallyInv
<1> SUFFICES ASSUME Init PROVE TallyInv
  OBVIOUS
<1>1. Sizes \in SizeType
  BY InitCards, SizesAreSizes
<1> QED BY <1>1, TallyOfNobody DEF Init, TallyInv

\* While nobody is counted the vaults do not matter.
LEMMA NobodyTallied ==
  ASSUME CardsInv, CardsInv', TallyInv, status # 2, status' = status, tallied = {},
         UNCHANGED <<tally, tallied>>
  PROVE  TallyInv'
<1>1. Sizes \in SizeType
  BY SizesAreSizes
<1>2. (Sizes \in SizeType)'
  BY SizesAreSizes, PTL
<1>3. /\ TallyBatch(EmptyTally, {}, Sizes') = EmptyTally
      /\ TallyBatch(EmptyTally, {}, Sizes) = EmptyTally
  BY <1>1, <1>2, TallyOfNobody DEF SizeType
<1> QED BY <1>3 DEF TallyInv

LEMMA TallyUntouched ==
  ASSUME TallyInv, UNCHANGED <<tally, tallied, finalSize, vault>>,
         status' = status \/ (status = 0 /\ status' = 1)
  PROVE  TallyInv'
<1>1. Sizes' = Sizes
  BY DEF Sizes, Size
<1> QED BY <1>1 DEF TallyInv, Closed

LEMMA OpenMeansNobody ==
  ASSUME CountersCount, processed = 0
  PROVE  tallied = {}
BY PlayersAreFinite, FS_EmptySet DEF CountersCount

LEMMA NextKeepsTally ==
  CountersCount /\ CardsInv /\ CardsInv' /\ TallyInv /\ [Next]_vars => TallyInv'
<1> SUFFICES ASSUME CountersCount, CardsInv, CardsInv', TallyInv, [Next]_vars
             PROVE  TallyInv'
  OBVIOUS
<1>1. ASSUME \/ \E p \in Players, s \in Starters : Register(p, s)
             \/ \E p \in Players, draw \in PackDraws : BuyPack(p, draw)
             \/ \E p \in Players, c \in Cards : CreateListing(p, c)
             \/ \E p, q \in Players, c \in Cards :
                  AcceptListing(q, p, c) \/ LootTransfer(p, q, c)
             \/ \E p \in Players, met \in SUBSET Legendary : CheckLegendary(p, met)
      PROVE  TallyInv'
  <2>1. (status = 0 \/ (status = 1 /\ processed = 0)) /\ status' = status
    BY <1>1 DEF Register, BuyPack, CreateListing, AcceptListing, LootTransfer,
                CheckLegendary, CollectionOpen
  <2>2. UNCHANGED <<tally, tallied>>
    BY <1>1 DEF Register, BuyPack, CreateListing, AcceptListing, LootTransfer,
                CheckLegendary, tallyVars
  <2>3. tallied = {}
    BY <2>1, OpenMeansNobody DEF TallyInv
  <2> QED BY <2>1, <2>2, <2>3, NobodyTallied
<1>2. ASSUME NEW p \in Players, NEW c \in Cards, CancelListing(p, c) PROVE TallyInv'
  <2>1. UNCHANGED <<status, tally, tallied, finalSize>>
    BY <1>2 DEF CancelListing, tallyVars
  <2>2. CASE status = 2
    BY <2>1, <2>2 DEF TallyInv, Closed
  <2>3. CASE status # 2
    <3>1. processed = 0
      BY <1>2, <2>3 DEF CancelListing, CollectionOpen
    <3> QED BY <2>1, <2>3, <3>1, OpenMeansNobody, NobodyTallied
  <2> QED BY <2>2, <2>3
<1>3. ASSUME NEW batch \in SUBSET Players, FinalizeSeasonTally(batch) PROVE TallyInv'
  <2>1. /\ status = 1 /\ status' = status /\ tallied' = tallied \cup batch
        /\ tally' = TallyBatch(tally, batch, Sizes) /\ vault' = vault
        /\ \A p \in batch : p > cursor
    BY <1>3 DEF FinalizeSeasonTally, BatchAllowed, cardVars
  <2>2. tallied \in SUBSET Players /\ tallied \cap batch = {}
    <3>1. \A p \in tallied : p \in Nat /\ p <= cursor
      BY SeasonAssumption DEF CountersCount
    <3> QED BY <2>1, <3>1 DEF CountersCount
  <2>3. Sizes \in SizeType /\ Sizes' = Sizes
    BY <2>1, SizesAreSizes DEF Sizes, Size
  <2>4. tally = TallyBatch(EmptyTally, tallied, Sizes)
    BY <2>1 DEF TallyInv
  <2>5. tally' = TallyBatch(EmptyTally, tallied', Sizes)
    BY <2>1, <2>2, <2>3, <2>4, TallyTwice
  <2> QED BY <2>1, <2>3, <2>5 DEF TallyInv
<1>4. ASSUME EndSeasonFinal PROVE TallyInv'
  <2>1. /\ status = 1 /\ status' = 2 /\ tally' = CloseTally(tally) /\ tallied' = tallied
        /\ finalSize' = Sizes
    BY <1>4 DEF EndSeasonFinal
  <2> QED BY <2>1 DEF TallyInv, Closed
<1>5. CASE \/ \E t \in 0..Horizon : SetWaitlistDeadline(t)
           \/ ActivateSeason \/ Donate \/ Tick \/ UNCHANGED vars
           \/ \E p \in Players : ClaimPrizeV2(p)
  <2>1. UNCHANGED <<tally, tallied, finalSize, vault>>
    BY <1>5 DEF SetWaitlistDeadline, ActivateSeason, Donate, Tick, vars, ClaimPrizeV2,
                tallyVars, cardVars
  <2>2. status' = status \/ (status = 0 /\ status' = 1)
    BY <1>5 DEF SetWaitlistDeadline, ActivateSeason, Donate, Tick, vars, ClaimPrizeV2
  <2> QED BY <2>1, <2>2, TallyUntouched
<1> QED BY <1>1, <1>2, <1>3, <1>4, <1>5 DEF Next

-----------------------------------------------------------------------------
(***************************************************************************)
(* Entitlements.  What a registered player is owed is fixed by the sizes   *)
(* and the pool at the end; whoever is no longer registered has been paid  *)
(* exactly that.                                                           *)
(***************************************************************************)
MoneyInv ==
  /\ pool \in Nat /\ recorded \in Nat
  /\ paid \in [Players -> Nat]
  /\ status # 2 => \A p \in Players : paid[p] = 0

Promised(p) == PromisedPrize(p, finalSize, recorded)

EntitlementsKept ==
  status = 2 =>
    /\ finalSize \in SizeType /\ Counted(tallied, finalSize)
    /\ \A p \in deposit : Size(p) = finalSize[p] /\ paid[p] = 0
    /\ \A p \in Players \ deposit : paid[p] = Promised(p)

LEMMA PrizeIsRank ==
  ASSUME CountersCount, TallyInv, MoneyInv, EntitlementsKept, status = 2,
         NEW p \in deposit, Size(p) > 0
  PROVE  Prize(p) = Promised(p) /\ Prize(p) \in Nat
<1>1. /\ finalSize \in SizeType /\ Counted(tallied, finalSize)
      /\ Size(p) = finalSize[p] /\ recorded \in Nat
  BY DEF EntitlementsKept, MoneyInv
<1>2. p \in Players /\ tallied \in SUBSET Players /\ tally = Closed(tallied, finalSize)
  BY DEF CountersCount, TallyInv
<1>3. TierPrize(finalSize[p], recorded, tally) = PromisedPrize(p, finalSize, recorded)
  BY <1>1, <1>2, PrizeIsPromised
<1>4. PromisedPrize(p, finalSize, recorded) \in Nat
  BY <1>1, <1>2, PromiseIsNat
<1> QED BY <1>1, <1>3, <1>4 DEF Prize, Promised

LEMMA InitMoney == Init => MoneyInv /\ EntitlementsKept
BY SeasonAssumption DEF Init, MoneyInv, EntitlementsKept

\* A cancellation after the end consumes no more than a claim of nothing.
LEMMA ZeroClaimConsumed ==
  ASSUME CountersCount, TallyInv, MoneyInv, EntitlementsKept, status = 2,
         NEW p \in deposit, Size(p) = 0 \/ Prize(p) = 0
  PROVE  Promised(p) = 0
<1>1. p \in Players /\ Size(p) = finalSize[p] /\ finalSize \in SizeType
  BY DEF CountersCount, EntitlementsKept
<1>2. CASE Size(p) = 0
  BY <1>1, <1>2, PromisedIs DEF Promised
<1>3. CASE Size(p) # 0
  <2>1. Size(p) > 0
    BY <1>1, <1>3, Parts
  <2> QED BY <1>3, <2>1, PrizeIsRank
<1> QED BY <1>2, <1>3

SeasonInv == CountersCount /\ CardsInv /\ TallyInv /\ MoneyInv /\ EntitlementsKept

LEMMA ClaimKeepsEnd ==
  ASSUME SeasonInv, NEW p \in Players, ClaimPrizeV2(p)
  PROVE  MoneyInv' /\ EntitlementsKept'
<1> USE DEF SeasonInv
<1>1. /\ status = 2 /\ status' = 2 /\ p \in deposit /\ deposit' = deposit \ {p}
      /\ Size(p) > 0 /\ pool - Rent >= Prize(p) /\ pool' = pool - Prize(p)
      /\ paid' = [paid EXCEPT ![p] = @ + Prize(p)]
      /\ UNCHANGED <<recorded, finalSize, tallied, vault>>
  BY DEF ClaimPrizeV2, ConsumesClaim, tallyVars, cardVars
<1>2. Prize(p) = Promised(p) /\ Prize(p) \in Nat
  BY <1>1, PrizeIsRank
<1>3. paid[p] = 0
  BY <1>1 DEF EntitlementsKept
<1>4. paid' = [paid EXCEPT ![p] = Promised(p)]
  <2>1. paid[p] + Prize(p) = Promised(p)
    BY <1>2, <1>3
  <2> QED BY <1>1, <2>1
<1>5. pool' \in Nat
  BY <1>1, <1>2, SeasonAssumption DEF MoneyInv
<1>6. MoneyInv'
  BY <1>1, <1>2, <1>4, <1>5 DEF MoneyInv
<1>7. \A q \in Players : Promised(q)' = Promised(q) /\ Size(q)' = Size(q)
  BY <1>1 DEF Promised, Size
<1>8. \A q \in Players \ deposit' : paid'[q] = Promised(q)
  BY <1>1, <1>4 DEF EntitlementsKept, MoneyInv
<1>9. \A q \in deposit' : Size(q) = finalSize[q] /\ paid'[q] = 0
  BY <1>1, <1>4 DEF EntitlementsKept, MoneyInv, CountersCount
<1>10. deposit' \subseteq Players
  BY <1>1 DEF CountersCount
<1>11. finalSize' \in SizeType /\ Counted(tallied', finalSize')
  BY <1>1 DEF EntitlementsKept
<1> QED BY <1>1, <1>6, <1>7, <1>8, <1>9, <1>10, <1>11 DEF EntitlementsKept

LEMMA CancelKeepsEnd ==
  ASSUME SeasonInv, NEW p \in Players, NEW c \in Cards, CancelListing(p, c)
  PROVE  MoneyInv' /\ EntitlementsKept'
<1> USE DEF SeasonInv
<1>1. /\ status' = status /\ vault' = [vault EXCEPT ![p] = @ \cup {c}]
      /\ UNCHANGED <<recorded, finalSize, tallied, pool, paid>>
  BY DEF CancelListing, moneyVars, tallyVars
<1>2. MoneyInv'
  BY <1>1 DEF MoneyInv
<1>3. CASE status # 2
  BY <1>1, <1>2, <1>3 DEF EntitlementsKept
<1>4. CASE status = 2
  <2>1. deposit' = deposit \ {p} /\ (p \in deposit => Size(p) = 0 \/ Prize(p) = 0)
    BY <1>4 DEF CancelListing, ConsumesZeroClaim
  <2>2. \A q \in Players : Promised(q)' = Promised(q)
    BY <1>1 DEF Promised
  <2>3. \A q \in deposit' : Size(q)' = Size(q)
    BY <1>1, <2>1 DEF Size, CardsInv, CountersCount
  <2>4. p \in deposit => paid[p] = Promised(p)
    BY <1>4, <2>1, ZeroClaimConsumed DEF EntitlementsKept
  <2>5. \A q \in Players \ deposit' : paid'[q] = Promised(q)'
    BY <1>1, <1>4, <2>1, <2>2, <2>4 DEF EntitlementsKept
  <2>6. \A q \in deposit' : Size(q)' = finalSize'[q] /\ paid'[q] = 0
    BY <1>1, <1>4, <2>1, <2>3 DEF EntitlementsKept
  <2>7. finalSize' \in SizeType /\ Counted(tallied', finalSize')
    BY <1>1, <1>4 DEF EntitlementsKept
  <2> QED BY <1>2, <2>5, <2>6, <2>7 DEF EntitlementsKept
<1> QED BY <1>3, <1>4

LEMMA EndKeepsEnd ==
  ASSUME SeasonInv, EndSeasonFinal
  PROVE  MoneyInv' /\ EntitlementsKept'
<1> USE DEF SeasonInv
<1>1. /\ status = 1 /\ status' = 2 /\ pool - Rent >= recorded /\ recorded' = pool - Rent
      /\ finalSize' = Sizes /\ UNCHANGED <<deposit, pool, paid, tallied, vault>>
  BY DEF EndSeasonFinal, cardVars
<1>2. recorded' \in Nat
  BY <1>1, SeasonAssumption DEF MoneyInv
<1>3. MoneyInv'
  BY <1>1, <1>2 DEF MoneyInv
<1>4. tallied = deposit /\ deposit \subseteq Players
  BY <1>1, AllTallied DEF EndSeasonFinal, CountersCount
<1>5. finalSize' \in SizeType
  BY <1>1, SizesAreSizes
<1>6. \A p \in Players \ deposit : finalSize'[p] = 0
  <2>1. \A p \in Players \ deposit : vault[p] = {}
    BY <1>1 DEF CardsInv
  <2> QED BY <1>1, <2>1, FS_EmptySet DEF Sizes, Size
<1>7. Counted(tallied', finalSize')
  BY <1>1, <1>4, <1>6 DEF Counted
<1>8. \A p \in deposit' : Size(p)' = finalSize'[p] /\ paid'[p] = 0
  BY <1>1, <1>4 DEF Sizes, Size, MoneyInv
<1>9. \A p \in Players \ deposit' : paid'[p] = Promised(p)'
  <2>1. ASSUME NEW p \in Players \ deposit'
        PROVE  paid'[p] = PromisedPrize(p, finalSize', recorded')
    <3>1. paid'[p] = 0 /\ finalSize'[p] = 0
      BY <1>1, <1>6 DEF MoneyInv
    <3> QED BY <3>1, PromisedIs
  <2> QED BY <2>1 DEF Promised
<1> QED BY <1>3, <1>5, <1>7, <1>8, <1>9 DEF EntitlementsKept

LEMMA InflowKeepsEnd ==
  ASSUME MoneyInv, status # 2, status' # 2, pool' \in Nat, recorded' \in Nat, paid' = paid
  PROVE  MoneyInv' /\ EntitlementsKept'
BY DEF MoneyInv, EntitlementsKept

LEMMA OthersKeepEnd ==
  ASSUME MoneyInv, EntitlementsKept, pool' \in Nat, status' = status,
         UNCHANGED <<recorded, paid>>,
         status = 2 => UNCHANGED <<finalSize, tallied, deposit, vault>>
  PROVE  MoneyInv' /\ EntitlementsKept'
<1>1. MoneyInv'
  BY DEF MoneyInv
<1>2. ASSUME status = 2 PROVE EntitlementsKept'
  BY <1>2 DEF EntitlementsKept, Promised, Size
<1> QED BY <1>1, <1>2 DEF EntitlementsKept

LEMMA NextKeepsEntitlements == SeasonInv /\ [Next]_vars => MoneyInv' /\ EntitlementsKept'
<1> SUFFICES ASSUME SeasonInv, [Next]_vars PROVE MoneyInv' /\ EntitlementsKept'
  OBVIOUS
<1>0. MoneyInv /\ EntitlementsKept /\ pool \in Nat /\ recorded \in Nat
  BY DEF SeasonInv, MoneyInv
<1>1. CASE \E p \in Players, s \in Starters : Register(p, s)
  <2>1. status # 2 /\ status' = status /\ paid' = paid
        /\ pool' = pool + PrizeShare /\ recorded' = recorded + PrizeShare
    BY <1>1 DEF Register, TakeIn
  <2> QED BY <1>0, <2>1, SeasonAssumption, InflowKeepsEnd
<1>2. CASE \E p \in Players, draw \in PackDraws : BuyPack(p, draw)
  <2>1. status # 2 /\ status' = status /\ paid' = paid
        /\ pool' = pool + PackShare /\ recorded' = recorded + PackShare
    BY <1>2 DEF BuyPack, CollectionOpen, TakeIn
  <2> QED BY <1>0, <2>1, SeasonAssumption, InflowKeepsEnd
<1>3. CASE ActivateSeason
  <2>1. status # 2 /\ status' # 2 /\ UNCHANGED <<pool, recorded, paid>>
    BY <1>3 DEF ActivateSeason, moneyVars
  <2> QED BY <1>0, <2>1, InflowKeepsEnd
<1>4. CASE Donate
  <2>1. pool' \in Nat
    BY <1>0, <1>4, SeasonAssumption DEF Donate
  <2>2. UNCHANGED <<status, recorded, paid, finalSize, tallied, deposit, vault>>
    BY <1>4 DEF Donate, tallyVars, cardVars
  <2> QED BY <1>0, <2>1, <2>2, OthersKeepEnd
<1>5. CASE \/ \E t \in 0..Horizon : SetWaitlistDeadline(t)
           \/ Tick \/ UNCHANGED vars
  <2>1. UNCHANGED <<status, pool, recorded, paid, finalSize, tallied, deposit, vault>>
    BY <1>5 DEF SetWaitlistDeadline, Tick, vars, moneyVars, tallyVars, cardVars
  <2> QED BY <1>0, <2>1, OthersKeepEnd
<1>6. CASE \/ \E p \in Players, c \in Cards : CreateListing(p, c)
           \/ \E p, q \in Players, c \in Cards :
                AcceptListing(q, p, c) \/ LootTransfer(p, q, c)
           \/ \E p \in Players, met \in SUBSET Legendary : CheckLegendary(p, met)
           \/ \E batch \in SUBSET Players : FinalizeSeasonTally(batch)
  <2>1. status = 1 /\ UNCHANGED <<status, pool, recorded, paid>>
    BY <1>6 DEF CreateListing, AcceptListing, LootTransfer, CheckLegendary,
                FinalizeSeasonTally, BatchAllowed, CollectionOpen, moneyVars
  <2> QED BY <1>0, <2>1, OthersKeepEnd
<1>7. CASE \E p \in Players, c \in Cards : CancelListing(p, c)
  BY <1>7, CancelKeepsEnd
<1>8. CASE EndSeasonFinal
  BY <1>8, EndKeepsEnd
<1>9. CASE \E p \in Players : ClaimPrizeV2(p)
  BY <1>9, ClaimKeepsEnd
<1> QED BY <1>1, <1>2, <1>3, <1>4, <1>5, <1>6, <1>7, <1>8, <1>9 DEF Next

LEMMA InitSeasonInv == Init => SeasonInv
BY InitCountersCount, InitCards, InitTally, InitMoney DEF SeasonInv

LEMMA NextKeepsSeasonInv == SeasonInv /\ [Next]_vars => SeasonInv'
<1> SUFFICES ASSUME SeasonInv, [Next]_vars PROVE SeasonInv'
  OBVIOUS
<1>1. CountersCount' /\ CardsInv'
  BY NextKeepsCounters, NextKeepsCards DEF SeasonInv
<1>2. TallyInv'
  BY <1>1, NextKeepsTally DEF SeasonInv
<1> QED BY <1>1, <1>2, NextKeepsEntitlements DEF SeasonInv

\* The invariant of the season is one: counters, cards, tally and entitlements.
THEOREM SeasonInvariance == Spec => []SeasonInv
BY InitSeasonInv, NextKeepsSeasonInv, PTL DEF Spec

\* However the crank batches the players, the tally finalize_season_tally stores is
\* what a fresh count of the same vaults gives, and end_season_final closes the
\* count of the sizes at the end.
THEOREM SeasonTallyIsTrue == Spec => []TallyMatchesVaults
<1>1. SeasonInv => TallyMatchesVaults
  BY DEF SeasonInv, TallyInv, TallyMatchesVaults, Closed
<1> QED BY <1>1, SeasonInvariance, PTL

\* Whoever has claimed has been paid what the player's rank at the end of the
\* season promises, and whoever has not would be paid that, whatever others claim
\* or take out of escrow before.
THEOREM SeasonPaysRanks == Spec => []PrizesFollowRank
<1>1. SeasonInv => PrizesFollowRank
  <2> SUFFICES ASSUME SeasonInv, status = 2, NEW p \in Players
               PROVE  LET promised == PromisedPrize(p, finalSize, recorded) IN
                      IF p \in deposit
                        THEN paid[p] = 0 /\ (Size(p) > 0 => Prize(p) = promised)
                        ELSE paid[p] = promised
    BY DEF PrizesFollowRank
  <2>1. CASE p \in deposit
    <3>1. paid[p] = 0
      BY <2>1 DEF SeasonInv, EntitlementsKept
    <3>2. Size(p) > 0 => Prize(p) = Promised(p)
      BY <2>1, PrizeIsRank DEF SeasonInv
    <3> QED BY <2>1, <3>1, <3>2 DEF Promised
  <2>2. CASE p \notin deposit
    BY <2>2 DEF SeasonInv, EntitlementsKept, Promised
  <2> QED BY <2>1, <2>2
<1> QED BY <1>1, SeasonInvariance, PTL

-----------------------------------------------------------------------------
(***************************************************************************)
(* Solvency: what is owed fits in the pool when the season ends, a claim   *)
(* takes as much from what is owed as from the pool, and a cancellation or *)
(* a donation can only widen the margin.                                   *)
(***************************************************************************)
Owed == SumFunctionOnSet([p \in Players |-> Promised(p)],
                         {p \in deposit : finalSize[p] > 0})
CanPay == status = 2 => Owed <= pool - Rent

LEMMA OwedTo ==
  ASSUME CountersCount, EntitlementsKept, MoneyInv, status = 2, NEW S \in SUBSET Players
  PROVE  /\ IsFiniteSet(S)
         /\ \A p \in Players : Promised(p) \in Nat
         /\ SumFunctionOnSet([p \in Players |-> Promised(p)], S) \in Nat
<1>1. \A p \in Players : Promised(p) \in Nat
  BY PromiseIsNat DEF EntitlementsKept, MoneyInv, Promised
<1>2. IsFiniteSet(S)
  BY PlayersAreFinite
<1>3. \A p \in S : [q \in Players |-> Promised(q)][p] \in Nat
  BY <1>1
<1> QED BY <1>1, <1>2, <1>3, SumNat

\* Once a claim is gone, less is owed by what it was worth.
LEMMA OwedAfter ==
  ASSUME SeasonInv, status = 2, NEW p \in Players, deposit' = deposit \ {p},
         UNCHANGED <<recorded, finalSize>>
  PROVE  /\ Owed \in Nat /\ Owed' \in Nat /\ Owed' <= Owed
         /\ p \in deposit /\ finalSize[p] > 0 => Owed = Owed' + Promised(p)
<1> USE DEF SeasonInv
<1> DEFINE f == [q \in Players |-> Promised(q)]
           S == {q \in deposit : finalSize[q] > 0}
<1>1. S \in SUBSET Players /\ (S \ {p}) \in SUBSET Players
  BY DEF CountersCount
<1>2. \A q \in S : f[q] \in Nat
  BY <1>1, OwedTo
<1>3. Owed' = SumFunctionOnSet(f, S \ {p})
  <2>1. \A q \in Players : Promised(q)' = Promised(q)
    BY DEF Promised
  <2>2. {q \in deposit' : finalSize'[q] > 0} = S \ {p}
    OBVIOUS
  <2>3. [q \in Players |-> Promised(q)'] = f
    BY <2>1
  <2> QED BY <2>2, <2>3 DEF Owed
<1>4. Owed = SumFunctionOnSet(f, S)
  BY DEF Owed
<1>5. /\ IsFiniteSet(S) /\ SumFunctionOnSet(f, S) \in Nat
      /\ SumFunctionOnSet(f, S \ {p}) \in Nat
  <2> HIDE DEF S
  <2> QED BY <1>1, OwedTo
<1>6. CASE p \in S
  <2>1. SumFunctionOnSet(f, S) = f[p] + SumFunctionOnSet(f, S \ {p})
    <3> HIDE DEF f, S
    <3> QED BY <1>2, <1>5, <1>6, SumRemove
  <2>2. f[p] = Promised(p) /\ f[p] \in Nat
    BY <1>2, <1>6
  <2> HIDE DEF f, S
  <2> QED BY <1>3, <1>4, <1>5, <2>1, <2>2
<1>7. CASE p \notin S
  <2>1. S \ {p} = S
    BY <1>7
  <2>2. ~(p \in deposit /\ finalSize[p] > 0)
    BY <1>7
  <2> HIDE DEF f, S
  <2> QED BY <1>3, <1>4, <1>5, <2>1, <2>2
<1> QED BY <1>6, <1>7

LEMMA EndCanPay ==
  ASSUME SeasonInv, SeasonInv', EndSeasonFinal
  PROVE  CanPay'
<1> USE DEF SeasonInv
<1>1. status' = 2 /\ recorded' = pool - Rent /\ pool' = pool
  BY DEF EndSeasonFinal
<1>2. deposit' \subseteq Players /\ finalSize' \in SizeType /\ recorded' \in Nat
  BY <1>1 DEF CountersCount, EntitlementsKept, MoneyInv
<1>3. \A p \in Players \ deposit' : finalSize'[p] = 0
  <2>1. tallied' = deposit'
    BY AllTallied DEF EndSeasonFinal
  <2> QED BY <1>1, <2>1 DEF EntitlementsKept, Counted
<1>4. {p \in deposit' : finalSize'[p] > 0} = {p \in Players : finalSize'[p] > 0}
  BY <1>2, <1>3
<1> DEFINE f == [p \in Players |-> PromisedPrize(p, finalSize', recorded')]
<1>5. \A p \in Players :
        finalSize'[p] > 0 => f[p] = PromisedPrize(p, finalSize', recorded')
  OBVIOUS
<1>6. SumFunctionOnSet(f, {p \in Players : finalSize'[p] > 0}) <= recorded'
  <2> HIDE DEF f
  <2> QED BY <1>2, <1>5, PromisesFit
<1>7. Owed' = SumFunctionOnSet(f, {p \in Players : finalSize'[p] > 0})
  BY <1>4 DEF Owed, Promised
<1> QED BY <1>1, <1>6, <1>7 DEF CanPay

LEMMA NextKeepsPay == SeasonInv /\ SeasonInv' /\ CanPay /\ [Next]_vars => CanPay'
<1> SUFFICES ASSUME SeasonInv, SeasonInv', CanPay, [Next]_vars PROVE CanPay'
  OBVIOUS
<1>0. pool \in Nat /\ pool' \in Nat /\ Rent \in Nat
  BY SeasonAssumption DEF SeasonInv, MoneyInv
<1>1. CASE EndSeasonFinal
  BY <1>1, EndCanPay
<1>2. ASSUME NEW p \in Players, ClaimPrizeV2(p) PROVE CanPay'
  <2>1. /\ status = 2 /\ p \in deposit /\ deposit' = deposit \ {p} /\ Size(p) > 0
        /\ pool' = pool - Prize(p) /\ UNCHANGED <<recorded, finalSize>>
    BY <1>2 DEF ClaimPrizeV2, ConsumesClaim, tallyVars
  <2>2. Prize(p) = Promised(p) /\ Prize(p) \in Nat /\ finalSize[p] > 0
    BY <2>1, PrizeIsRank DEF SeasonInv, EntitlementsKept
  <2>3. Owed \in Nat /\ Owed' \in Nat /\ Owed = Owed' + Promised(p)
    BY <2>1, <2>2, OwedAfter
  <2> QED BY <1>0, <2>1, <2>2, <2>3 DEF CanPay
<1>3. ASSUME NEW p \in Players, NEW c \in Cards, CancelListing(p, c) PROVE CanPay'
  <2>1. UNCHANGED <<status, pool, recorded, finalSize>>
    BY <1>3 DEF CancelListing, moneyVars, tallyVars
  <2>2. CASE status = 2
    <3>1. deposit' = deposit \ {p}
      BY <1>3, <2>2 DEF CancelListing, ConsumesZeroClaim
    <3>2. Owed \in Nat /\ Owed' \in Nat /\ Owed' <= Owed
      BY <2>1, <2>2, <3>1, OwedAfter
    <3> QED BY <1>0, <2>1, <3>2 DEF CanPay
  <2> QED BY <2>1, <2>2 DEF CanPay
<1>4. CASE \/ \E t \in 0..Horizon : SetWaitlistDeadline(t)
           \/ Donate \/ Tick \/ UNCHANGED vars
  <2>1. UNCHANGED <<status, recorded, finalSize, deposit>> /\ pool' >= pool
    BY <1>0, <1>4, SeasonAssumption
       DEF SetWaitlistDeadline, Donate, Tick, vars, moneyVars, tallyVars
  <2>2. Owed' = Owed
    BY <2>1 DEF Owed, Promised
  <2>3. status = 2 => Owed \in Nat
    <3>1. {p \in deposit : finalSize[p] > 0} \in SUBSET Players
      BY DEF SeasonInv, CountersCount
    <3> QED BY <3>1, OwedTo DEF SeasonInv, Owed
  <2> QED BY <1>0, <2>1, <2>2, <2>3 DEF CanPay
<1>5. CASE \/ \E p \in Players, s \in Starters : Register(p, s)
           \/ \E p \in Players, draw \in PackDraws : BuyPack(p, draw)
           \/ \E p \in Players, c \in Cards : CreateListing(p, c)
  <2>1. (status = 0 \/ status = 1) /\ status' = status
    BY <1>5 DEF Register, BuyPack, CreateListing, CollectionOpen
  <2> QED BY <2>1 DEF CanPay
<1>6. CASE \/ \E p, q \in Players, c \in Cards :
                AcceptListing(q, p, c) \/ LootTransfer(p, q, c)
           \/ \E p \in Players, met \in SUBSET Legendary : CheckLegendary(p, met)
           \/ \E batch \in SUBSET Players : FinalizeSeasonTally(batch)
  <2>1. status = 1 /\ status' = status
    BY <1>6 DEF AcceptListing, LootTransfer, CheckLegendary, FinalizeSeasonTally,
                BatchAllowed, CollectionOpen
  <2> QED BY <2>1 DEF CanPay
<1>7. CASE ActivateSeason
  BY <1>7 DEF ActivateSeason, CanPay
<1> QED BY <1>1, <1>2, <1>3, <1>4, <1>5, <1>6, <1>7 DEF Next

\* The pool holds the rent and the prizes of all who have not claimed, for any
\* number of players, any sizes of vaults and any shares of at most 100 percent:
\* claim_prize_v2 never fails with PrizeUnderfunded.
THEOREM SeasonIsSolvent == Spec => []Solvent
<1>1. Init => CanPay
  BY DEF Init, CanPay
<1>2. SeasonInv /\ CanPay => Solvent
  <2> SUFFICES ASSUME SeasonInv, CanPay, status = 2
               PROVE  SumFunctionOnSet([p \in Players |-> Prize(p)],
                        {p \in deposit : Size(p) > 0}) <= pool - Rent
    BY DEF Solvent
  <2> DEFINE S == {p \in deposit : Size(p) > 0}
             f == [p \in Players |-> Prize(p)]
             g == [p \in Players |-> Promised(p)]
  <2>1. S = {p \in deposit : finalSize[p] > 0} /\ S \in SUBSET Players
    BY DEF SeasonInv, EntitlementsKept, CountersCount
  <2>2. \A p \in S : f[p] \in Nat /\ f[p] = g[p]
    BY <2>1, PrizeIsRank DEF SeasonInv
  <2>3. SumFunctionOnSet(f, S) = SumFunctionOnSet(g, S)
    <3>1. IsFiniteSet(S)
      <4> HIDE DEF S
      <4> QED BY <2>1, PlayersAreFinite
    <3> HIDE DEF f, g, S
    <3> QED BY <2>2, <3>1, SumSame
  <2>4. SumFunctionOnSet(g, S) <= pool - Rent
    BY <2>1 DEF CanPay, Owed
  <2> QED BY <2>3, <2>4
<1>3. SeasonInv /\ SeasonInv' /\ CanPay /\ [Next]_vars => CanPay'
  BY NextKeepsPay
<1> QED BY <1>1, <1>2, <1>3, SeasonInvariance, PTL DEF Spec
=============================================================================
