----------------------------- MODULE SetLemmas -----------------------------
(***************************************************************************)
(* Facts about finite sets that the proofs need: the highest and the       *)
(* lowest of their elements, and sums over them.                           *)
(***************************************************************************)
EXTENDS Integers, FiniteSetsExt, Functions, FiniteSetTheorems, WellFoundedInduction, TLAPS

\* The library has induction over finite sets as a well-founded order: of the subsets that
\* do not have a property there is a least one
IsLeast(T, Bad, S) ==
  /\ T \in Bad /\ T \subseteq S /\ IsFiniteSet(T)
  /\ \A U \in SUBSET T : U # T => U \notin Bad
LEMMA LeastSubset ==
  ASSUME NEW S, NEW Bad, Bad \subseteq FiniteSubsetsOf(S), Bad # {}
  PROVE  \E T : IsLeast(T, Bad, S)
<1>1. PICK T \in Bad : \A U \in Bad : ~(<<U, T>> \in StrictSubsetOrdering(S))
  BY FS_StrictSubsetOrderingWellFounded, WFMin
<1>2. T \subseteq S /\ IsFiniteSet(T)
  BY DEF FiniteSubsetsOf
<1>3. ASSUME NEW U \in SUBSET T, U # T, U \in Bad PROVE FALSE
  <2>1. <<U, T>> \in StrictSubsetOrdering(S)
    BY <1>2, <1>3 DEF StrictSubsetOrdering
  <2> QED BY <1>1, <1>3, <2>1
<1> QED BY <1>2, <1>3 DEF IsLeast

LEMMA MaxIsHighest ==
  ASSUME NEW S, IsFiniteSet(S), S \subseteq Int, S # {}
  PROVE  Max(S) \in S /\ \A x \in S : Max(S) >= x
<1> DEFINE Top(T) == \E m \in T : \A x \in T : m >= x
           Bad == {T \in FiniteSubsetsOf(S) : T # {} /\ ~Top(T)}
<1>1. Bad = {}
  <2>1. SUFFICES ASSUME Bad # {} PROVE FALSE
    OBVIOUS
  <2>0. PICK T : IsLeast(T, Bad, S)
    <3>1. Bad \subseteq FiniteSubsetsOf(S)
      OBVIOUS
    <3> HIDE DEF Bad
    <3> QED BY <2>1, <3>1, LeastSubset
  <2>2. /\ T \in Bad /\ T \subseteq S /\ IsFiniteSet(T)
        /\ \A U \in SUBSET T : U # T => U \notin Bad
    BY <2>0 DEF IsLeast
  <2>3. T \subseteq S /\ IsFiniteSet(T) /\ T # {} /\ ~Top(T)
    BY <2>2
  <2>4. PICK x \in T : TRUE
    BY <2>3
  <2>5. T \ {x} \in FiniteSubsetsOf(S)
    BY <2>3, FS_RemoveElement DEF FiniteSubsetsOf
  <2>6. T \ {x} \notin Bad
    BY <2>2, <2>4
  <2>7. CASE T \ {x} = {}
    <3>1. \A y \in T : x >= y
      BY <2>3, <2>4, <2>7
    <3> QED BY <2>3, <2>4, <3>1
  <2>8. CASE Top(T \ {x})
    <3>1. PICK m \in T \ {x} : \A y \in T \ {x} : m >= y
      BY <2>8
    <3>2. m \in Int /\ x \in Int
      BY <2>3
    <3>3. CASE m >= x
      BY <2>3, <3>1, <3>3
    <3>4. CASE x > m
      <4>1. \A y \in T : x >= y
        BY <2>3, <3>1, <3>2, <3>4
      <4> QED BY <2>3, <4>1
    <3> QED BY <3>2, <3>3, <3>4
  <2> QED BY <2>5, <2>6, <2>7, <2>8
<1>2. Top(S)
  BY <1>1 DEF FiniteSubsetsOf
<1> QED BY <1>2 DEF Max

LEMMA MinIsLowest ==
  ASSUME NEW S, IsFiniteSet(S), S \subseteq Int, S # {}
  PROVE  Min(S) \in S /\ \A x \in S : Min(S) <= x
<1> DEFINE Low(T) == \E m \in T : \A x \in T : m <= x
           Bad == {T \in FiniteSubsetsOf(S) : T # {} /\ ~Low(T)}
<1>1. Bad = {}
  <2>1. SUFFICES ASSUME Bad # {} PROVE FALSE
    OBVIOUS
  <2>0. PICK T : IsLeast(T, Bad, S)
    <3>1. Bad \subseteq FiniteSubsetsOf(S)
      OBVIOUS
    <3> HIDE DEF Bad
    <3> QED BY <2>1, <3>1, LeastSubset
  <2>2. /\ T \in Bad /\ T \subseteq S /\ IsFiniteSet(T)
        /\ \A U \in SUBSET T : U # T => U \notin Bad
    BY <2>0 DEF IsLeast
  <2>3. T \subseteq S /\ IsFiniteSet(T) /\ T # {} /\ ~Low(T)
    BY <2>2
  <2>4. PICK x \in T : TRUE
    BY <2>3
  <2>5. T \ {x} \in FiniteSubsetsOf(S)
    BY <2>3, FS_RemoveElement DEF FiniteSubsetsOf
  <2>6. T \ {x} \notin Bad
    BY <2>2, <2>4
  <2>7. CASE T \ {x} = {}
    <3>1. \A y \in T : x <= y
      BY <2>3, <2>4, <2>7
    <3> QED BY <2>3, <2>4, <3>1
  <2>8. CASE Low(T \ {x})
    <3>1. PICK m \in T \ {x} : \A y \in T \ {x} : m <= y
      BY <2>8
    <3>2. m \in Int /\ x \in Int
      BY <2>3
    <3>3. CASE m <= x
      BY <2>3, <3>1, <3>3
    <3>4. CASE x < m
      <4>1. \A y \in T : x <= y
        BY <2>3, <3>1, <3>2, <3>4
      <4> QED BY <2>3, <4>1
    <3> QED BY <3>2, <3>3, <3>4
  <2> QED BY <2>5, <2>6, <2>7, <2>8
<1>2. Low(S)
  BY <1>1 DEF FiniteSubsetsOf
<1> QED BY <1>2 DEF Min

-----------------------------------------------------------------------------
(* Sums                                                                    *)

First(T) == CHOOSE x \in T : TRUE
Rest(T) == T \ {First(T)}

\* F has the sums of the subsets of a set, each from the sum of the rest of it
Sums(fun, F, S) ==
  F = [T \in SUBSET S |-> IF T = {} THEN 0 ELSE fun[First(T)] + F[Rest(T)]]
SumOver(fun, S) == FoldFunctionOnSet(+, 0, fun, S)

LEMMA FoldIsSum ==
  ASSUME NEW fun, NEW S
  PROVE  SumOver(fun, S) = (CHOOSE F : Sums(fun, F, S))[S]
BY DEF SumOver, FoldFunctionOnSet, MapThenFoldSet, Sums, First, Rest

LEMMA RestLess == ASSUME NEW T, T # {} PROVE First(T) \in T /\ Rest(T) \subseteq T /\ Rest(T) # T
BY DEF First, Rest

\* There is one such function at most
LEMMA SumsAgree ==
  ASSUME NEW fun, NEW S, IsFiniteSet(S), NEW U \in SUBSET S, NEW F, NEW G,
         Sums(fun, F, S), Sums(fun, G, U)
  PROVE  \A T \in SUBSET U : F[T] = G[T]
<1> DEFINE Bad == {T \in FiniteSubsetsOf(S) : T \subseteq U /\ F[T] # G[T]}
<1>1. Bad = {}
  <2>1. SUFFICES ASSUME Bad # {} PROVE FALSE
    OBVIOUS
  <2>0. PICK T : IsLeast(T, Bad, S)
    <3>1. Bad \subseteq FiniteSubsetsOf(S)
      OBVIOUS
    <3> HIDE DEF Bad
    <3> QED BY <2>1, <3>1, LeastSubset
  <2>2. /\ T \in Bad /\ T \subseteq S /\ IsFiniteSet(T)
        /\ \A V \in SUBSET T : V # T => V \notin Bad
    BY <2>0 DEF IsLeast
  <2>3. T # {}
    BY <2>2 DEF Sums
  <2>4. F[Rest(T)] = G[Rest(T)]
    <3>1. Rest(T) \subseteq T /\ Rest(T) # T /\ Rest(T) \in FiniteSubsetsOf(S)
      BY <2>2, <2>3, RestLess, FS_Subset DEF FiniteSubsetsOf
    <3> QED BY <2>2, <3>1
  <2>5. F[T] = fun[First(T)] + F[Rest(T)] /\ G[T] = fun[First(T)] + G[Rest(T)]
    BY <2>2, <2>3 DEF Sums
  <2> QED BY <2>2, <2>4, <2>5
<1>2. ASSUME NEW T \in SUBSET U PROVE T \in FiniteSubsetsOf(S)
  BY FS_Subset DEF FiniteSubsetsOf
<1> QED BY <1>1, <1>2

LEMMA SumsExist ==
  ASSUME NEW fun, NEW S, IsFiniteSet(S) PROVE \E F : Sums(fun, F, S)
<1> DEFINE Bad == {T \in FiniteSubsetsOf(S) : ~\E F : Sums(fun, F, T)}
<1>1. Bad = {}
  <2>1. SUFFICES ASSUME Bad # {} PROVE FALSE
    OBVIOUS
  <2>0. PICK T : IsLeast(T, Bad, S)
    <3>1. Bad \subseteq FiniteSubsetsOf(S)
      OBVIOUS
    <3> HIDE DEF Bad
    <3> QED BY <2>1, <3>1, LeastSubset
  <2>2. /\ T \in Bad /\ T \subseteq S /\ IsFiniteSet(T)
        /\ \A U \in SUBSET T : U # T => U \notin Bad
    BY <2>0 DEF IsLeast
  <2> DEFINE Sub(U) == CHOOSE F : Sums(fun, F, U)
             H == [U \in SUBSET T |-> IF U = {} THEN 0
                     ELSE fun[First(U)] + Sub(Rest(U))[Rest(U)]]
  <2>3. ASSUME NEW U \in SUBSET T, U # T PROVE IsFiniteSet(U) /\ Sums(fun, Sub(U), U)
    <3>1. U \in FiniteSubsetsOf(S) /\ IsFiniteSet(U)
      BY <2>2, FS_Subset DEF FiniteSubsetsOf
    <3>2. \E F : Sums(fun, F, U)
      BY <2>2, <2>3, <3>1
    <3> QED BY <3>1, <3>2
  <2>4. ASSUME NEW U \in SUBSET T, U # T PROVE H[U] = Sub(U)[U]
    <3>1. CASE U = {}
      <4>1. Sums(fun, Sub(U), U)
        BY <2>3, <2>4
      <4>2. H[U] = 0
        BY <3>1
      <4> HIDE DEF Sub, H
      <4> QED BY <3>1, <4>1, <4>2 DEF Sums
    <3>2. CASE U # {}
      <4>1. Rest(U) \in SUBSET U /\ Rest(U) # T /\ Rest(U) \in SUBSET T
        BY <2>4, <3>2, RestLess
      <4>2. Sub(U)[U] = fun[First(U)] + Sub(U)[Rest(U)]
        <5>1. Sums(fun, Sub(U), U)
          BY <2>3, <2>4
        <5> HIDE DEF Sub
        <5> QED BY <3>2, <5>1 DEF Sums
      <4>3. Sub(U)[Rest(U)] = Sub(Rest(U))[Rest(U)]
        <5>1. IsFiniteSet(U) /\ Sums(fun, Sub(U), U) /\ Sums(fun, Sub(Rest(U)), Rest(U))
          BY <2>3, <2>4, <4>1
        <5> HIDE DEF Sub
        <5> QED BY <4>1, <5>1, SumsAgree
      <4> HIDE DEF Sub
      <4> QED BY <3>2, <4>2, <4>3
    <3> QED BY <3>1, <3>2
  <2>5. ASSUME NEW U \in SUBSET T, U # {} PROVE H[U] = fun[First(U)] + H[Rest(U)]
    <3>1. Rest(U) \in SUBSET T /\ Rest(U) # T
      BY <2>5, RestLess
    <3>2. H[Rest(U)] = Sub(Rest(U))[Rest(U)]
      BY <2>4, <3>1
    <3> HIDE DEF Sub
    <3> QED BY <2>5, <3>2
  <2>6. H = [U \in SUBSET T |-> H[U]] /\ H[{}] = 0
    OBVIOUS
  <2>7. Sums(fun, H, T)
    <3> HIDE DEF H
    <3> QED BY <2>5, <2>6 DEF Sums
  <2> QED BY <2>2, <2>7
<1>2. S \in FiniteSubsetsOf(S)
  BY DEF FiniteSubsetsOf
<1> QED BY <1>1, <1>2

\* A sum is computed from the sum of the rest
LEMMA SumStep ==
  ASSUME NEW fun, NEW S, IsFiniteSet(S)
  PROVE  SumOver(fun, S) = IF S = {} THEN 0 ELSE fun[First(S)] + SumOver(fun, Rest(S))
<1> DEFINE All(U) == CHOOSE F : Sums(fun, F, U)
<1>1. Sums(fun, All(S), S)
  BY SumsExist
<1>2. SumOver(fun, S) = All(S)[S]
  BY FoldIsSum
<1>3. CASE S = {}
  <2> HIDE DEF All
  <2> QED BY <1>1, <1>2, <1>3 DEF Sums
<1>4. CASE S # {}
  <2>1. Rest(S) \in SUBSET S /\ IsFiniteSet(Rest(S))
    BY <1>4, RestLess, FS_Subset
  <2>2. Sums(fun, All(Rest(S)), Rest(S)) /\ SumOver(fun, Rest(S)) = All(Rest(S))[Rest(S)]
    BY <2>1, SumsExist, FoldIsSum
  <2> HIDE DEF All
  <2>3. All(S)[Rest(S)] = All(Rest(S))[Rest(S)]
    BY <1>1, <2>1, <2>2, SumsAgree
  <2>4. All(S)[S] = fun[First(S)] + All(S)[Rest(S)]
    BY <1>1, <1>4 DEF Sums
  <2> QED BY <1>2, <1>4, <2>2, <2>3, <2>4
<1> QED BY <1>3, <1>4

LEMMA SumIsNat ==
  ASSUME NEW fun, NEW S, IsFiniteSet(S), \A x \in S : fun[x] \in Nat
  PROVE  SumOver(fun, S) \in Nat
<1> DEFINE Bad == {T \in FiniteSubsetsOf(S) : SumOver(fun, T) \notin Nat}
<1>1. Bad = {}
  <2>1. SUFFICES ASSUME Bad # {} PROVE FALSE
    OBVIOUS
  <2>0. PICK T : IsLeast(T, Bad, S)
    <3>1. Bad \subseteq FiniteSubsetsOf(S)
      OBVIOUS
    <3> HIDE DEF Bad
    <3> QED BY <2>1, <3>1, LeastSubset
  <2>2. /\ T \in Bad /\ T \subseteq S /\ IsFiniteSet(T)
        /\ \A U \in SUBSET T : U # T => U \notin Bad
    BY <2>0 DEF IsLeast
  <2>3. CASE T = {}
    <3>1. SumOver(fun, T) = 0
      BY <2>2, <2>3, SumStep
    <3> QED BY <2>2, <3>1
  <2>4. CASE T # {}
    <3>1. First(T) \in T /\ Rest(T) \in SUBSET T /\ Rest(T) # T
      BY <2>4, RestLess
    <3>2. Rest(T) \in FiniteSubsetsOf(S)
      BY <2>2, <3>1, FS_Subset DEF FiniteSubsetsOf
    <3>3. SumOver(fun, Rest(T)) \in Nat
      BY <2>2, <3>1, <3>2
    <3>4. SumOver(fun, T) = fun[First(T)] + SumOver(fun, Rest(T)) /\ fun[First(T)] \in Nat
      BY <2>2, <2>4, <3>1, SumStep
    <3> QED BY <2>2, <3>3, <3>4
  <2> QED BY <2>3, <2>4
<1>2. S \in FiniteSubsetsOf(S)
  BY DEF FiniteSubsetsOf
<1> QED BY <1>1, <1>2

\* The sum over one element, and over none
LEMMA SumOfOne ==
  ASSUME NEW fun, NEW x, fun[x] \in Nat
  PROVE  SumOver(fun, {x}) = fun[x] /\ SumOver(fun, {}) = 0
<1>1. IsFiniteSet({x}) /\ IsFiniteSet({})
  BY FS_Singleton, FS_EmptySet
<1>2. First({x}) = x /\ Rest({x}) = {}
  BY DEF First, Rest
<1>3. SumOver(fun, {}) = 0
  BY <1>1, SumStep
<1>4. SumOver(fun, {x}) = fun[First({x})] + SumOver(fun, Rest({x}))
  BY <1>1, SumStep
<1> QED BY <1>2, <1>3, <1>4
=============================================================================
