---------------------------------- MODULE Sums ----------------------------------
(***************************************************************************)
(* Lemmas about the sums that the modules take over finite sets with       *)
(* SumFunctionOnSet.  Induction over the subsets of a finite set is by a   *)
(* least counterexample.                                                   *)
(***************************************************************************)
EXTENDS Integers, Functions, FiniteSetTheorems, TLAPS

LEMMA LeastSubset ==
    ASSUME NEW S, IsFiniteSet(S), NEW B \in SUBSET SUBSET S, B # {}
    PROVE  \E T \in B : \A U \in B : U \subseteq T => U = T
<1>1. IsWellFoundedOn(StrictSubsetOrdering(S), SUBSET S)
    BY FS_StrictSubsetOrderingWellFounded, FS_FiniteSubsetsOfFinite
<1>2. PICK T \in B : \A U \in B : <<U, T>> \notin StrictSubsetOrdering(S)
    BY <1>1, WFMin
<1>3. ASSUME NEW U \in B, U \subseteq T  PROVE U = T
    BY <1>2, <1>3 DEF StrictSubsetOrdering
<1> QED
    BY <1>3

-----------------------------------------------------------------------------
(* The equation of the fold has one solution.                              *)

Pick(s) == CHOOSE x \in s : TRUE
Adds(f, g, S) ==
    [s \in SUBSET S |-> IF s = {} THEN 0 ELSE f[Pick(s)] + g[s \ {Pick(s)}]]
Solution(f, S) == CHOOSE g : g = Adds(f, g, S)

LEMMA PickIn == \A s : s # {} => Pick(s) \in s
BY DEF Pick

LEMMA OneSolution ==
    ASSUME NEW f, NEW S, IsFiniteSet(S), NEW R, NEW g, NEW h, S \subseteq R,
           g = Adds(f, g, S), h = Adds(f, h, R)
    PROVE  \A s \in SUBSET S : g[s] = h[s]
<1> DEFINE Bad == {s \in SUBSET S : g[s] # h[s]}
<1> SUFFICES ASSUME Bad # {} PROVE FALSE
    OBVIOUS
<1>1. PICK T \in Bad : \A U \in Bad : U \subseteq T => U = T
  <2>1. Bad \in SUBSET SUBSET S
      OBVIOUS
  <2> HIDE DEF Bad
  <2> QED
      BY <2>1, LeastSubset
<1> DEFINE V == T \ {Pick(T)}
<1>2. T \in SUBSET S /\ T \in SUBSET R
    OBVIOUS
<1>3. g[T] = IF T = {} THEN 0 ELSE f[Pick(T)] + g[V]
    BY <1>2 DEF Adds
<1>4. h[T] = IF T = {} THEN 0 ELSE f[Pick(T)] + h[V]
    BY <1>2 DEF Adds
<1>5. CASE T = {}
    BY <1>3, <1>4, <1>5
<1>6. CASE T # {}
  <2>1. V \in SUBSET S /\ V \subseteq T /\ V # T
      BY <1>6, <1>2, PickIn
  <2>2. g[V] = h[V]
      BY <1>1, <2>1
  <2> QED
      BY <1>3, <1>4, <1>6, <2>2
<1> QED
    BY <1>5, <1>6

LEMMA SolutionExists ==
    ASSUME NEW f, NEW S, IsFiniteSet(S)
    PROVE  \A T \in SUBSET S : \E g : g = Adds(f, g, T)
<1> DEFINE Bad == {T \in SUBSET S : ~ \E g : g = Adds(f, g, T)}
<1> SUFFICES ASSUME Bad # {} PROVE FALSE
    OBVIOUS
<1>1. PICK T \in Bad : \A U \in Bad : U \subseteq T => U = T
  <2>1. Bad \in SUBSET SUBSET S
      OBVIOUS
  <2> HIDE DEF Bad
  <2> QED
      BY <2>1, LeastSubset
<1>2. T \in SUBSET S
    OBVIOUS
<1>3. ASSUME NEW U, U \subseteq T, U # T
      PROVE  Solution(f, U) = Adds(f, Solution(f, U), U) /\ IsFiniteSet(U)
  <2>1. \E g : g = Adds(f, g, U)
      BY <1>1, <1>2, <1>3
  <2>2. Solution(f, U) = Adds(f, Solution(f, U), U)
      BY <2>1 DEF Solution
  <2> QED
      BY <1>2, <1>3, <2>2, FS_Subset
<1> DEFINE g == [s \in SUBSET T |->
                    IF s = {} THEN 0
                    ELSE f[Pick(s)] + Solution(f, s \ {Pick(s)})[s \ {Pick(s)}]]
<1>4. ASSUME NEW U, U \subseteq T, U # T
      PROVE  g[U] = Solution(f, U)[U]
  <2>1. Solution(f, U)[U] = IF U = {} THEN 0 ELSE f[Pick(U)] + Solution(f, U)[U \ {Pick(U)}]
    <3>1. U \in SUBSET U
        OBVIOUS
    <3> HIDE DEF g
    <3> QED
      BY <1>3, <1>4, <3>1 DEF Adds
  <2>2. CASE U = {}
      BY <2>1, <2>2
  <2>3. CASE U # {}
    <3> DEFINE V == U \ {Pick(U)}
    <3>1. V \subseteq U /\ V \subseteq T /\ V # T
        BY <1>4
    <3>2. Solution(f, V) = Adds(f, Solution(f, V), V) /\ IsFiniteSet(V)
        BY <1>3, <3>1
    <3>3. Solution(f, U) = Adds(f, Solution(f, U), U)
        BY <1>3, <1>4
    <3>4. Solution(f, V)[V] = Solution(f, U)[V]
      <4>1. V \in SUBSET V
          OBVIOUS
      <4> HIDE DEF V, g
      <4> QED
        BY <3>1, <3>2, <3>3, <4>1, OneSolution
    <3>5. g[U] = f[Pick(U)] + Solution(f, V)[V]
        BY <1>4, <2>3
    <3> QED
        BY <3>5, <3>4, <2>1, <2>3
  <2> QED
      BY <2>2, <2>3
<1>5. ASSUME NEW s \in SUBSET T, s # {}
      PROVE  g[s \ {Pick(s)}] = Solution(f, s \ {Pick(s)})[s \ {Pick(s)}]
  <2>1. s \ {Pick(s)} \subseteq T /\ s \ {Pick(s)} # T
      BY <1>5, PickIn
  <2> QED
      BY <2>1, <1>4
<1>6. g = Adds(f, g, T)
  <2>1. ASSUME NEW s \in SUBSET T
        PROVE  g[s] = IF s = {} THEN 0 ELSE f[Pick(s)] + g[s \ {Pick(s)}]
    <3>1. CASE s = {}
        BY <3>1
    <3>2. CASE s # {}
      <4>1. g[s] = f[Pick(s)] + Solution(f, s \ {Pick(s)})[s \ {Pick(s)}]
          BY <3>2
      <4> HIDE DEF g
      <4> QED
        BY <4>1, <3>2, <1>5
    <3> QED
        BY <3>1, <3>2
  <2>2. g = [s \in SUBSET T |-> g[s]]
      OBVIOUS
  <2> HIDE DEF g
  <2> QED
      BY <2>1, <2>2 DEF Adds
<1> QED
    BY <1>6

-----------------------------------------------------------------------------
(* The sum, one element at a time.                                         *)

LEMMA SumIsSolution ==
    \A f, S : SumFunctionOnSet(f, S) = Solution(f, S)[S]
BY DEF SumFunctionOnSet, FoldFunctionOnSet, MapThenFoldSet, Solution, Adds, Pick

LEMMA SumUnfolds ==
    ASSUME NEW f, NEW S, IsFiniteSet(S)
    PROVE  SumFunctionOnSet(f, S) =
              IF S = {} THEN 0 ELSE f[Pick(S)] + SumFunctionOnSet(f, S \ {Pick(S)})
<1> DEFINE R == S \ {Pick(S)}
<1>1. Solution(f, S) = Adds(f, Solution(f, S), S)
    BY SolutionExists DEF Solution
<1>2. Solution(f, R) = Adds(f, Solution(f, R), R) /\ IsFiniteSet(R)
  <2>1. R \in SUBSET S /\ IsFiniteSet(R)
      BY FS_Subset
  <2> QED
      BY <2>1, SolutionExists DEF Solution
<1>3. Solution(f, S)[S] = IF S = {} THEN 0 ELSE f[Pick(S)] + Solution(f, S)[R]
  <2>1. S \in SUBSET S
      OBVIOUS
  <2> QED
      BY <1>1, <2>1 DEF Adds
<1>4. Solution(f, S)[R] = Solution(f, R)[R]
  <2>1. R \in SUBSET R /\ R \subseteq S
      OBVIOUS
  <2> HIDE DEF R
  <2> QED
      BY <1>1, <1>2, <2>1, OneSolution
<1> QED
    BY <1>3, <1>4, SumIsSolution

LEMMA SumEmpty == \A f : SumFunctionOnSet(f, {}) = 0
BY SumUnfolds, FS_EmptySet

LEMMA SumType ==
    ASSUME NEW f, NEW S, IsFiniteSet(S), \A x \in S : f[x] \in Int
    PROVE  SumFunctionOnSet(f, S) \in Int
<1> DEFINE Bad == {T \in SUBSET S : SumFunctionOnSet(f, T) \notin Int}
<1> SUFFICES ASSUME Bad # {} PROVE FALSE
    OBVIOUS
<1>1. PICK T \in Bad : \A U \in Bad : U \subseteq T => U = T
  <2>1. Bad \in SUBSET SUBSET S
      OBVIOUS
  <2> HIDE DEF Bad
  <2> QED
      BY <2>1, LeastSubset
<1>2. CASE T = {}
    BY <1>2, SumEmpty
<1>3. CASE T # {}
  <2>1. Pick(T) \in T /\ T \ {Pick(T)} \in SUBSET S /\ IsFiniteSet(T)
      BY <1>3, PickIn, FS_Subset
  <2>2. SumFunctionOnSet(f, T \ {Pick(T)}) \in Int
      BY <1>1, <2>1
  <2> QED
      BY <1>3, <2>1, <2>2, SumUnfolds
<1> QED
    BY <1>2, <1>3

LEMMA SumTakes ==
    ASSUME NEW f, NEW S, IsFiniteSet(S), \A x \in S : f[x] \in Int, NEW e \in S
    PROVE  SumFunctionOnSet(f, S) = f[e] + SumFunctionOnSet(f, S \ {e})
<1> DEFINE Bad == {T \in SUBSET S : \E x \in T :
                      SumFunctionOnSet(f, T) # f[x] + SumFunctionOnSet(f, T \ {x})}
<1> SUFFICES ASSUME Bad # {} PROVE FALSE
    OBVIOUS
<1>1. PICK T \in Bad : \A U \in Bad : U \subseteq T => U = T
  <2>1. Bad \in SUBSET SUBSET S
      OBVIOUS
  <2> HIDE DEF Bad
  <2> QED
      BY <2>1, LeastSubset
<1>2. PICK x \in T : SumFunctionOnSet(f, T) # f[x] + SumFunctionOnSet(f, T \ {x})
    OBVIOUS
<1> DEFINE p == Pick(T)
<1>3. p \in T /\ IsFiniteSet(T) /\ T \in SUBSET S
    BY <1>2, PickIn, FS_Subset
<1>4. SumFunctionOnSet(f, T) = f[p] + SumFunctionOnSet(f, T \ {p})
    BY <1>3, SumUnfolds
<1>5. x # p
    BY <1>2, <1>4
<1>6. SumFunctionOnSet(f, T \ {p}) = f[x] + SumFunctionOnSet(f, (T \ {p}) \ {x})
  <2>1. T \ {p} \notin Bad /\ T \ {p} \in SUBSET S /\ x \in T \ {p}
      BY <1>1, <1>3, <1>5
  <2> HIDE DEF p
  <2> QED
      BY <2>1
<1>7. SumFunctionOnSet(f, T \ {x}) = f[p] + SumFunctionOnSet(f, (T \ {x}) \ {p})
  <2>1. T \ {x} \notin Bad /\ T \ {x} \in SUBSET S /\ p \in T \ {x}
      BY <1>1, <1>3, <1>5
  <2> HIDE DEF p
  <2> QED
      BY <2>1
<1>8. (T \ {p}) \ {x} = (T \ {x}) \ {p} /\ IsFiniteSet((T \ {p}) \ {x})
    BY <1>3, FS_Subset
<1>9. SumFunctionOnSet(f, (T \ {p}) \ {x}) \in Int
    BY <1>8, SumType
<1> QED
  <2>1. f[x] \in Int /\ f[p] \in Int
      BY <1>3
  <2> HIDE DEF p
  <2> QED
      BY <1>2, <1>4, <1>6, <1>7, <1>8, <1>9, <2>1

LEMMA SumAdds ==
    ASSUME NEW f, NEW S, IsFiniteSet(S), NEW e, e \notin S,
           \A x \in S \cup {e} : f[x] \in Int
    PROVE  SumFunctionOnSet(f, S \cup {e}) = SumFunctionOnSet(f, S) + f[e]
<1>1. IsFiniteSet(S \cup {e}) /\ (S \cup {e}) \ {e} = S
    BY FS_AddElement
<1> QED
    BY <1>1, SumTakes, SumType

LEMMA SumSame ==
    ASSUME NEW f, NEW g, NEW S, IsFiniteSet(S), \A x \in S : f[x] = g[x]
    PROVE  SumFunctionOnSet(f, S) = SumFunctionOnSet(g, S)
<1> DEFINE Bad == {T \in SUBSET S : SumFunctionOnSet(f, T) # SumFunctionOnSet(g, T)}
<1> SUFFICES ASSUME Bad # {} PROVE FALSE
    OBVIOUS
<1>1. PICK T \in Bad : \A U \in Bad : U \subseteq T => U = T
  <2>1. Bad \in SUBSET SUBSET S
      OBVIOUS
  <2> HIDE DEF Bad
  <2> QED
      BY <2>1, LeastSubset
<1>2. CASE T = {}
    BY <1>2, SumEmpty
<1>3. CASE T # {}
  <2>1. Pick(T) \in T /\ T \ {Pick(T)} \in SUBSET S /\ IsFiniteSet(T)
      BY <1>3, PickIn, FS_Subset
  <2>2. SumFunctionOnSet(f, T \ {Pick(T)}) = SumFunctionOnSet(g, T \ {Pick(T)})
      BY <1>1, <2>1
  <2> QED
      BY <1>3, <2>1, <2>2, SumUnfolds
<1> QED
    BY <1>2, <1>3

(***************************************************************************)
(* One summand changes.                                                    *)
(***************************************************************************)
LEMMA SumChanges ==
    ASSUME NEW f, NEW g, NEW S, IsFiniteSet(S), NEW e \in S,
           \A x \in S : f[x] \in Int, g[e] \in Int,
           \A x \in S \ {e} : g[x] = f[x]
    PROVE  SumFunctionOnSet(g, S) = SumFunctionOnSet(f, S) - f[e] + g[e]
<1>1. IsFiniteSet(S \ {e})
    BY FS_Subset
<1>2. SumFunctionOnSet(f, S \ {e}) \in Int
    BY <1>1, SumType
<1>3. SumFunctionOnSet(g, S \ {e}) = SumFunctionOnSet(f, S \ {e})
    BY <1>1, SumSame
<1>4. SumFunctionOnSet(f, S) = f[e] + SumFunctionOnSet(f, S \ {e})
    BY SumTakes
<1>5. SumFunctionOnSet(g, S) = g[e] + SumFunctionOnSet(g, S \ {e})
  <2>1. \A x \in S : g[x] \in Int
      OBVIOUS
  <2> QED
      BY <2>1, SumTakes
<1> QED
    BY <1>2, <1>3, <1>4, <1>5

LEMMA SumIncreases ==
    ASSUME NEW f, NEW g, NEW S, IsFiniteSet(S), NEW e \in S, NEW amount \in Int,
           \A x \in S : f[x] \in Int, g[e] = f[e] + amount,
           \A x \in S \ {e} : g[x] = f[x]
    PROVE  /\ SumFunctionOnSet(f, S) \in Int
           /\ SumFunctionOnSet(g, S) = SumFunctionOnSet(f, S) + amount
<1>1. SumFunctionOnSet(f, S) \in Int
    BY SumType
<1>2. g[e] \in Int /\ f[e] \in Int
    OBVIOUS
<1>3. SumFunctionOnSet(g, S) = SumFunctionOnSet(f, S) - f[e] + g[e]
    BY <1>2, SumChanges
<1> QED
    BY <1>1, <1>2, <1>3

LEMMA SumAtMost ==
    ASSUME NEW f, NEW g, NEW S, IsFiniteSet(S),
           \A x \in S : f[x] \in Int /\ g[x] \in Int /\ f[x] <= g[x]
    PROVE  SumFunctionOnSet(f, S) <= SumFunctionOnSet(g, S)
<1> DEFINE Bad == {T \in SUBSET S : ~ (SumFunctionOnSet(f, T) <= SumFunctionOnSet(g, T))}
<1> SUFFICES ASSUME Bad # {} PROVE FALSE
    OBVIOUS
<1>1. PICK T \in Bad : \A U \in Bad : U \subseteq T => U = T
  <2>1. Bad \in SUBSET SUBSET S
      OBVIOUS
  <2> HIDE DEF Bad
  <2> QED
      BY <2>1, LeastSubset
<1>2. CASE T = {}
    BY <1>2, SumEmpty
<1>3. CASE T # {}
  <2> DEFINE R == T \ {Pick(T)}
  <2>1. Pick(T) \in T /\ R \in SUBSET S /\ IsFiniteSet(T) /\ IsFiniteSet(R)
      BY <1>3, PickIn, FS_Subset
  <2>2. SumFunctionOnSet(f, R) <= SumFunctionOnSet(g, R)
      BY <1>1, <2>1
  <2>3. SumFunctionOnSet(f, R) \in Int /\ SumFunctionOnSet(g, R) \in Int
      BY <2>1, SumType
  <2>4. /\ SumFunctionOnSet(f, T) = f[Pick(T)] + SumFunctionOnSet(f, R)
        /\ SumFunctionOnSet(g, T) = g[Pick(T)] + SumFunctionOnSet(g, R)
      BY <1>3, <2>1, SumUnfolds
  <2>5. f[Pick(T)] \in Int /\ g[Pick(T)] \in Int /\ f[Pick(T)] <= g[Pick(T)]
      BY <2>1
  <2> HIDE DEF R
  <2>6. SumFunctionOnSet(f, T) <= SumFunctionOnSet(g, T)
      BY <2>2, <2>3, <2>4, <2>5
  <2> QED
      BY <2>6
<1> QED
    BY <1>2, <1>3

LEMMA SumPlus ==
    ASSUME NEW f, NEW g, NEW h, NEW S, IsFiniteSet(S),
           \A x \in S : f[x] \in Int /\ g[x] \in Int /\ h[x] = f[x] + g[x]
    PROVE  SumFunctionOnSet(h, S) = SumFunctionOnSet(f, S) + SumFunctionOnSet(g, S)
<1> DEFINE Bad == {T \in SUBSET S : SumFunctionOnSet(h, T) #
                       SumFunctionOnSet(f, T) + SumFunctionOnSet(g, T)}
<1> SUFFICES ASSUME Bad # {} PROVE FALSE
    OBVIOUS
<1>1. PICK T \in Bad : \A U \in Bad : U \subseteq T => U = T
  <2>1. Bad \in SUBSET SUBSET S
      OBVIOUS
  <2> HIDE DEF Bad
  <2> QED
      BY <2>1, LeastSubset
<1>2. CASE T = {}
    BY <1>2, SumEmpty
<1>3. CASE T # {}
  <2> DEFINE R == T \ {Pick(T)}
  <2>1. Pick(T) \in T /\ R \in SUBSET S /\ IsFiniteSet(T) /\ IsFiniteSet(R)
      BY <1>3, PickIn, FS_Subset
  <2>2. SumFunctionOnSet(h, R) = SumFunctionOnSet(f, R) + SumFunctionOnSet(g, R)
      BY <1>1, <2>1
  <2>3. SumFunctionOnSet(f, R) \in Int /\ SumFunctionOnSet(g, R) \in Int
      BY <2>1, SumType
  <2>4. /\ SumFunctionOnSet(f, T) = f[Pick(T)] + SumFunctionOnSet(f, R)
        /\ SumFunctionOnSet(g, T) = g[Pick(T)] + SumFunctionOnSet(g, R)
        /\ SumFunctionOnSet(h, T) = h[Pick(T)] + SumFunctionOnSet(h, R)
      BY <1>3, <2>1, SumUnfolds
  <2>5. /\ f[Pick(T)] \in Int /\ g[Pick(T)] \in Int
        /\ h[Pick(T)] = f[Pick(T)] + g[Pick(T)]
      BY <2>1
  <2> HIDE DEF R
  <2>6. SumFunctionOnSet(h, T) = SumFunctionOnSet(f, T) + SumFunctionOnSet(g, T)
      BY <2>2, <2>3, <2>4, <2>5
  <2> QED
      BY <2>6
<1> QED
    BY <1>2, <1>3

LEMMA SumSplits ==
    ASSUME NEW f, NEW A, NEW B, IsFiniteSet(A), IsFiniteSet(B), A \cap B = {},
           \A x \in A \cup B : f[x] \in Int
    PROVE  SumFunctionOnSet(f, A \cup B) = SumFunctionOnSet(f, A) + SumFunctionOnSet(f, B)
<1> DEFINE Bad == {T \in SUBSET A : SumFunctionOnSet(f, T \cup B) #
                       SumFunctionOnSet(f, T) + SumFunctionOnSet(f, B)}
<1> SUFFICES ASSUME Bad # {} PROVE FALSE
    OBVIOUS
<1>1. PICK T \in Bad : \A U \in Bad : U \subseteq T => U = T
  <2>1. Bad \in SUBSET SUBSET A
      OBVIOUS
  <2> HIDE DEF Bad
  <2> QED
      BY <2>1, LeastSubset
<1>2. SumFunctionOnSet(f, B) \in Int
    BY SumType
<1>3. CASE T = {}
  <2>1. T \cup B = B
      BY <1>3
  <2> QED
      BY <1>2, <1>3, <2>1, SumEmpty
<1>4. CASE T # {}
  <2> DEFINE p == Pick(T)
             R == T \ {p}
  <2>1. p \in T /\ R \in SUBSET A /\ IsFiniteSet(T) /\ IsFiniteSet(R)
      BY <1>4, PickIn, FS_Subset
  <2>2. SumFunctionOnSet(f, R \cup B) = SumFunctionOnSet(f, R) + SumFunctionOnSet(f, B)
      BY <1>1, <2>1
  <2>3. /\ T \cup B = (R \cup B) \cup {p} /\ T = R \cup {p}
        /\ p \notin R \cup B /\ p \notin R /\ IsFiniteSet(R \cup B)
      BY <2>1, FS_Union
  <2>4. /\ \A x \in (R \cup B) \cup {p} : f[x] \in Int
        /\ \A x \in R \cup {p} : f[x] \in Int
      BY <2>1
  <2> HIDE DEF p, R
  <2>5. /\ SumFunctionOnSet(f, T \cup B) = SumFunctionOnSet(f, R \cup B) + f[p]
        /\ SumFunctionOnSet(f, T) = SumFunctionOnSet(f, R) + f[p]
      BY <2>1, <2>3, <2>4, SumAdds
  <2>6. SumFunctionOnSet(f, R) \in Int /\ f[p] \in Int
      BY <2>1, <2>4, SumType
  <2>7. SumFunctionOnSet(f, T \cup B) = SumFunctionOnSet(f, T) + SumFunctionOnSet(f, B)
      BY <1>2, <2>2, <2>5, <2>6
  <2> QED
      BY <2>7
<1> QED
    BY <1>3, <1>4

LEMMA SumZero ==
    ASSUME NEW f, NEW S, IsFiniteSet(S), \A x \in S : f[x] = 0
    PROVE  SumFunctionOnSet(f, S) = 0
<1> DEFINE Bad == {T \in SUBSET S : SumFunctionOnSet(f, T) # 0}
<1> SUFFICES ASSUME Bad # {} PROVE FALSE
    OBVIOUS
<1>1. PICK T \in Bad : \A U \in Bad : U \subseteq T => U = T
  <2>1. Bad \in SUBSET SUBSET S
      OBVIOUS
  <2> HIDE DEF Bad
  <2> QED
      BY <2>1, LeastSubset
<1>2. CASE T = {}
    BY <1>2, SumEmpty
<1>3. CASE T # {}
  <2>1. Pick(T) \in T /\ T \ {Pick(T)} \in SUBSET S /\ IsFiniteSet(T)
      BY <1>3, PickIn, FS_Subset
  <2>2. SumFunctionOnSet(f, T \ {Pick(T)}) = 0
      BY <1>1, <2>1
  <2>3. f[Pick(T)] = 0
      BY <2>1
  <2> QED
      BY <1>3, <2>1, <2>2, <2>3, SumUnfolds
<1> QED
    BY <1>2, <1>3

LEMMA SumNatural ==
    ASSUME NEW f, NEW S, IsFiniteSet(S), \A x \in S : f[x] \in Nat
    PROVE  SumFunctionOnSet(f, S) \in Nat
<1> DEFINE zeros == [x \in S |-> 0]
<1>1. SumFunctionOnSet(zeros, S) = 0
    BY SumZero
<1>2. SumFunctionOnSet(f, S) \in Int
    BY SumType
<1>3. \A x \in S : zeros[x] \in Int /\ f[x] \in Int /\ zeros[x] <= f[x]
    OBVIOUS
<1> HIDE DEF zeros
<1>4. SumFunctionOnSet(zeros, S) <= SumFunctionOnSet(f, S)
    BY <1>3, SumAtMost
<1> QED
    BY <1>1, <1>2, <1>4
=============================================================================
