-------------------------------- MODULE Sums --------------------------------
(***************************************************************************)
(* Sums over finite sets, for the proofs about what is paid and owed.      *)
(* SumFunctionOnSet of Functions is a fold that is defined by a recursive  *)
(* function; what it is for every finite set follows from the smallest     *)
(* set for which it would not be so.                                       *)
(***************************************************************************)
EXTENDS Integers, FiniteSets, Functions, FiniteSetTheorems, WellFoundedInduction, TLAPS

\* Among sets of subsets of a finite set, one is smallest.
LEMMA SmallestSubset ==
  ASSUME NEW S, IsFiniteSet(S), NEW C, C \subseteq SUBSET S, C # {}
  PROVE  \E T \in C : \A U \in SUBSET T : U # T => U \notin C
<1>1. C \subseteq FiniteSubsetsOf(S)
  BY FS_FiniteSubsetsOfFinite
<1>2. PICK T \in C : \A U \in C : <<U, T>> \notin StrictSubsetOrdering(S)
  BY <1>1, FS_StrictSubsetOrderingWellFounded, WFMin, Zenon
<1>3. ASSUME NEW U \in SUBSET T, U # T, U \in C
      PROVE  FALSE
  <2>1. <<U, T>> \in (SUBSET S) \X (SUBSET S)
    BY <1>3
  <2> QED
    BY <1>2, <1>3, <2>1 DEF StrictSubsetOrdering
<1> QED
  BY <1>3

\* What holds of nothing, and of a set with one element more, holds of a finite set.
LEMMA FiniteInduction ==
  ASSUME NEW S, IsFiniteSet(S), NEW P, {} \in P,
         \A T \in SUBSET S : \A x \in S \ T : T \in P => T \cup {x} \in P
  PROVE  S \in P
<1> DEFINE Bad == {T \in SUBSET S : T \notin P}
<1> SUFFICES ASSUME S \notin P PROVE FALSE
  OBVIOUS
<1>1. Bad # {} /\ Bad \subseteq SUBSET S
  OBVIOUS
<1>2. PICK T \in Bad : \A U \in SUBSET T : U # T => U \notin Bad
  <2> HIDE DEF Bad
  <2> QED
    BY <1>1, SmallestSubset
<1>3. PICK x \in T : TRUE
  BY <1>2
<1>4. T \ {x} \in P
  BY <1>2, <1>3
<1>5. T = (T \ {x}) \cup {x} /\ x \in S \ (T \ {x}) /\ T \ {x} \in SUBSET S
  BY <1>2, <1>3
<1> QED
  BY <1>2, <1>4, <1>5

\* The recursion that a sum is defined by.
IsSum(it, f, S) ==
  it = [T \in SUBSET S |->
          IF T = {} THEN 0 ELSE LET x == CHOOSE x \in T : TRUE IN f[x] + it[T \ {x}]]

\* A sum is the value, at the whole set, of the chosen solution of that recursion.
LEMMA SumIsChosen ==
  ASSUME NEW f, NEW S
  PROVE  SumFunctionOnSet(f, S) = (CHOOSE it : IsSum(it, f, S))[S]
BY DEF SumFunctionOnSet, FoldFunctionOnSet, MapThenFoldSet, IsSum

\* The element a sum takes next.
Pick(T) == CHOOSE x \in T : TRUE

\* It is one of those that are left.
LEMMA PickIn ==
  ASSUME NEW T, T # {}
  PROVE  Pick(T) \in T
BY DEF Pick

\* What the recursion says of one subset.
LEMMA IsSumStep ==
  ASSUME NEW f, NEW S, NEW it, IsSum(it, f, S), NEW T \in SUBSET S
  PROVE  it[T] = IF T = {} THEN 0 ELSE f[Pick(T)] + it[T \ {Pick(T)}]
BY Zenon DEF IsSum, Pick

\* Two solutions, one on a smaller set, agree where both are defined.
LEMMA IsSumUnique ==
  ASSUME NEW f, NEW S, IsFiniteSet(S), NEW A, A \subseteq S,
         NEW a, NEW b, IsSum(a, f, S), IsSum(b, f, A)
  PROVE  \A T \in SUBSET A : a[T] = b[T]
<1> DEFINE Bad == {T \in SUBSET A : a[T] # b[T]}
<1> SUFFICES ASSUME Bad # {} PROVE FALSE
  OBVIOUS
<1>1. Bad \subseteq SUBSET S
  OBVIOUS
<1>2. PICK T \in Bad : \A U \in SUBSET T : U # T => U \notin Bad
  <2> HIDE DEF Bad
  <2> QED
    BY <1>1, SmallestSubset
<1>3. T \in SUBSET S /\ T \in SUBSET A
  BY <1>2
<1>4. /\ a[T] = IF T = {} THEN 0 ELSE f[Pick(T)] + a[T \ {Pick(T)}]
      /\ b[T] = IF T = {} THEN 0 ELSE f[Pick(T)] + b[T \ {Pick(T)}]
  <2> HIDE DEF Bad
  <2>1. a[T] = IF T = {} THEN 0 ELSE f[Pick(T)] + a[T \ {Pick(T)}]
    BY <1>3, IsSumStep
  <2>2. b[T] = IF T = {} THEN 0 ELSE f[Pick(T)] + b[T \ {Pick(T)}]
    BY <1>3, IsSumStep
  <2> QED
    BY <2>1, <2>2
<1>5. CASE T = {}
  BY <1>2, <1>4, <1>5
<1>6. CASE T # {}
  <2>1. Pick(T) \in T
    BY <1>6, PickIn
  <2>2. T \ {Pick(T)} \notin Bad /\ T \ {Pick(T)} \in SUBSET A
    BY <1>2, <1>3, <2>1
  <2>3. a[T \ {Pick(T)}] = b[T \ {Pick(T)}]
    BY <2>2
  <2> QED
    BY <1>2, <1>4, <1>6, <2>3
<1> QED
  BY <1>5, <1>6

\* What a sum is, from the sum without the element it takes.
Unfolds(f, T) ==
  SumFunctionOnSet(f, T) =
    IF T = {} THEN 0 ELSE f[Pick(T)] + SumFunctionOnSet(f, T \ {Pick(T)})

\* A set whose smaller subsets unfold has a solution of the recursion.
LEMMA SumExists ==
  ASSUME NEW f, NEW T, \A U \in SUBSET T : U # T => Unfolds(f, U)
  PROVE  \E it : IsSum(it, f, T)
<1> DEFINE it == [U \in SUBSET T |->
                    IF U = {} THEN 0 ELSE f[Pick(U)] + SumFunctionOnSet(f, U \ {Pick(U)})]
<1>1. ASSUME NEW U \in SUBSET T, U # {}
      PROVE  it[U] = f[Pick(U)] + it[U \ {Pick(U)}]
  <2>1. Pick(U) \in U
    BY <1>1, PickIn
  <2> DEFINE W == U \ {Pick(U)}
  <2>2. W \in SUBSET T /\ W # T
    BY <2>1
  <2>3. it[W] = SumFunctionOnSet(f, W)
    <3>1. Unfolds(f, W)
      BY <2>2
    <3>2. it[W] = IF W = {} THEN 0 ELSE f[Pick(W)] + SumFunctionOnSet(f, W \ {Pick(W)})
      BY <2>2
    <3> QED
      BY <3>1, <3>2 DEF Unfolds
  <2>4. it[U] = f[Pick(U)] + SumFunctionOnSet(f, W)
    BY <1>1
  <2> QED
    BY <2>3, <2>4
<1>2. it = [U \in SUBSET T |->
              IF U = {} THEN 0 ELSE LET x == CHOOSE x \in U : TRUE IN f[x] + it[U \ {x}]]
  <2>1. \A U \in SUBSET T : it[U] = IF U = {} THEN 0 ELSE f[Pick(U)] + it[U \ {Pick(U)}]
    BY <1>1
  <2> HIDE DEF it
  <2>2. it = [U \in SUBSET T |-> it[U]]
    BY DEF it
  <2> QED
    BY <2>1, <2>2, Zenon DEF Pick
<1> QED
  BY <1>2 DEF IsSum

\* The sum unfolds.
LEMMA SumUnfolds ==
  ASSUME NEW f, NEW S, IsFiniteSet(S)
  PROVE  Unfolds(f, S)
<1> DEFINE Bad == {T \in SUBSET S : ~ Unfolds(f, T)}
<1> SUFFICES ASSUME ~ Unfolds(f, S) PROVE FALSE
  OBVIOUS
<1>1. Bad # {} /\ Bad \subseteq SUBSET S
  OBVIOUS
<1>2. PICK T \in Bad : \A U \in SUBSET T : U # T => U \notin Bad
  <2> HIDE DEF Bad
  <2> QED
    BY <1>1, SmallestSubset
<1>3. \A U \in SUBSET T : U # T => Unfolds(f, U)
  BY <1>2
<1> DEFINE c == CHOOSE it : IsSum(it, f, T)
<1>4. IsSum(c, f, T)
  BY <1>3, SumExists
<1> HIDE DEF c
<1>5. SumFunctionOnSet(f, T) = c[T]
  BY SumIsChosen DEF c
<1>6. c[T] = IF T = {} THEN 0 ELSE f[Pick(T)] + c[T \ {Pick(T)}]
  BY <1>4, IsSumStep
<1>7. CASE T # {}
  <2> DEFINE W == T \ {Pick(T)}
             d == CHOOSE it : IsSum(it, f, W)
  <2>1. W \subseteq T /\ W # T
    BY <1>7, PickIn
  <2>2. IsSum(d, f, W)
    <3>1. \A U \in SUBSET W : U # W => Unfolds(f, U)
      BY <1>3, <2>1
    <3> QED
      BY <3>1, SumExists
  <2>3. IsFiniteSet(T)
    BY FS_Subset, <1>2
  <2>4. SumFunctionOnSet(f, W) = d[W]
    BY SumIsChosen
  <2> HIDE DEF d, W
  <2>5. c[W] = d[W]
    <3>1. \A U \in SUBSET W : c[U] = d[U]
      BY <1>4, <2>1, <2>2, <2>3, IsSumUnique
    <3> QED
      BY <3>1
  <2>6. Unfolds(f, T)
    BY <1>5, <1>6, <1>7, <2>4, <2>5 DEF Unfolds, W
  <2> QED
    BY <1>2, <2>6
<1>8. CASE T = {}
  BY <1>2, <1>5, <1>6, <1>8 DEF Unfolds
<1> QED
  BY <1>7, <1>8

-----------------------------------------------------------------------------

\* The sum of nothing is zero.
LEMMA SumEmpty ==
  ASSUME NEW f
  PROVE  SumFunctionOnSet(f, {}) = 0
BY SumUnfolds, FS_EmptySet DEF Unfolds

\* A sum of integers is one.
LEMMA SumType ==
  ASSUME NEW f, NEW S, IsFiniteSet(S), \A x \in S : f[x] \in Int
  PROVE  SumFunctionOnSet(f, S) \in Int
<1> DEFINE Bad == {T \in SUBSET S : SumFunctionOnSet(f, T) \notin Int}
<1> SUFFICES ASSUME S \in Bad PROVE FALSE
  OBVIOUS
<1>1. PICK T \in Bad : \A U \in SUBSET T : U # T => U \notin Bad
  <2>1. Bad # {} /\ Bad \subseteq SUBSET S
    OBVIOUS
  <2> HIDE DEF Bad
  <2> QED
    BY <2>1, SmallestSubset
<1>2. Unfolds(f, T)
  BY FS_Subset, SumUnfolds
<1>3. T # {}
  BY <1>2 DEF Unfolds
<1>4. Pick(T) \in T
  BY <1>3, PickIn
<1>5. SumFunctionOnSet(f, T \ {Pick(T)}) \in Int
  BY <1>1, <1>4
<1> QED
  BY <1>2, <1>3, <1>4, <1>5 DEF Unfolds

\* Any summand can be taken out.
LEMMA SumRemove ==
  ASSUME NEW f, NEW S, IsFiniteSet(S), \A x \in S : f[x] \in Int, NEW y \in S
  PROVE  SumFunctionOnSet(f, S) = f[y] + SumFunctionOnSet(f, S \ {y})
<1> DEFINE Splits(T) == \A z \in T :
             SumFunctionOnSet(f, T) = f[z] + SumFunctionOnSet(f, T \ {z})
           Bad == {T \in SUBSET S : ~ Splits(T)}
<1> SUFFICES ASSUME S \in Bad PROVE FALSE
  OBVIOUS
<1>1. PICK T \in Bad : \A U \in SUBSET T : U # T => U \notin Bad
  <2>1. Bad # {} /\ Bad \subseteq SUBSET S
    OBVIOUS
  <2> HIDE DEF Bad
  <2> QED
    BY <2>1, SmallestSubset
<1>2. PICK z \in T : SumFunctionOnSet(f, T) # f[z] + SumFunctionOnSet(f, T \ {z})
  OBVIOUS
<1>3. Unfolds(f, T)
  BY FS_Subset, SumUnfolds
<1>4. Pick(T) \in T
  BY PickIn
<1>5. SumFunctionOnSet(f, T) = f[Pick(T)] + SumFunctionOnSet(f, T \ {Pick(T)})
  BY <1>3, <1>4 DEF Unfolds
<1>6. Pick(T) # z
  BY <1>2, <1>5
<1>7. Splits(T \ {Pick(T)}) /\ Splits(T \ {z})
  BY <1>1, <1>4
<1>8. SumFunctionOnSet(f, T \ {Pick(T)}) = f[z] + SumFunctionOnSet(f, (T \ {Pick(T)}) \ {z})
  BY <1>6, <1>7
<1> DEFINE w == SumFunctionOnSet(f, (T \ {Pick(T)}) \ {z})
<1>9. SumFunctionOnSet(f, T \ {z}) = f[Pick(T)] + w
  <2>1. (T \ {z}) \ {Pick(T)} = (T \ {Pick(T)}) \ {z}
    OBVIOUS
  <2> QED
    BY <1>4, <1>6, <1>7, <2>1
<1>10. f[z] \in Int /\ f[Pick(T)] \in Int /\ w \in Int
  BY <1>4, SumType, FS_Subset
<1>11. SumFunctionOnSet(f, T) = f[Pick(T)] + (f[z] + w)
  BY <1>5, <1>8
<1> HIDE DEF Bad, Splits, w
<1>12. f[Pick(T)] + (f[z] + w) = f[z] + (f[Pick(T)] + w)
  BY <1>10
<1> QED
  BY <1>2, <1>9, <1>11, <1>12

\* A further summand is added.
LEMMA SumAdd ==
  ASSUME NEW f, NEW S, IsFiniteSet(S), NEW y, y \notin S, \A x \in S \cup {y} : f[x] \in Int
  PROVE  SumFunctionOnSet(f, S \cup {y}) = f[y] + SumFunctionOnSet(f, S)
<1>1. IsFiniteSet(S \cup {y}) /\ (S \cup {y}) \ {y} = S
  BY FS_AddElement
<1> QED
  BY <1>1, SumRemove

\* A sum depends on its summands only.
LEMMA SumSame ==
  ASSUME NEW f, NEW g, NEW S, IsFiniteSet(S), \A x \in S : f[x] = g[x]
  PROVE  SumFunctionOnSet(f, S) = SumFunctionOnSet(g, S)
<1> DEFINE Bad == {T \in SUBSET S : SumFunctionOnSet(f, T) # SumFunctionOnSet(g, T)}
<1> SUFFICES ASSUME S \in Bad PROVE FALSE
  OBVIOUS
<1>1. PICK T \in Bad : \A U \in SUBSET T : U # T => U \notin Bad
  <2>1. Bad # {} /\ Bad \subseteq SUBSET S
    OBVIOUS
  <2> HIDE DEF Bad
  <2> QED
    BY <2>1, SmallestSubset
<1>2. Unfolds(f, T) /\ Unfolds(g, T)
  BY FS_Subset, SumUnfolds
<1>3. T # {}
  BY <1>2 DEF Unfolds
<1>4. Pick(T) \in T
  BY <1>3, PickIn
<1>5. SumFunctionOnSet(f, T \ {Pick(T)}) = SumFunctionOnSet(g, T \ {Pick(T)})
  BY <1>1, <1>4
<1>6. f[Pick(T)] = g[Pick(T)]
  BY <1>4
<1> QED
  BY <1>2, <1>3, <1>5, <1>6 DEF Unfolds

\* A sum of zeros is zero.
LEMMA SumZero ==
  ASSUME NEW f, NEW S, IsFiniteSet(S), \A x \in S : f[x] = 0
  PROVE  SumFunctionOnSet(f, S) = 0
<1> DEFINE Zero == {T \in SUBSET S : SumFunctionOnSet(f, T) = 0}
<1>1. {} \in Zero
  BY SumEmpty
<1>2. ASSUME NEW T \in SUBSET S, NEW x \in S \ T, T \in Zero
      PROVE  T \cup {x} \in Zero
  <2>1. IsFiniteSet(T)
    BY FS_Subset
  <2>2. SumFunctionOnSet(f, T \cup {x}) = f[x] + SumFunctionOnSet(f, T)
    BY <2>1, SumAdd
  <2> QED
    BY <1>2, <2>2
<1> HIDE DEF Zero
<1>3. S \in Zero
  BY <1>1, <1>2, FiniteInduction
<1> QED
  BY <1>3 DEF Zero

\* A sum changes with its summands.
LEMMA SumChange ==
  ASSUME NEW f, NEW g, NEW S, IsFiniteSet(S), NEW y \in S, NEW d \in Int,
         \A x \in S : f[x] \in Int, \A x \in S \ {y} : g[x] = f[x], g[y] = f[y] + d
  PROVE  SumFunctionOnSet(g, S) = SumFunctionOnSet(f, S) + d
<1>1. IsFiniteSet(S \ {y}) /\ \A x \in S : g[x] \in Int
  BY FS_Subset
<1>2. SumFunctionOnSet(f, S) = f[y] + SumFunctionOnSet(f, S \ {y})
  BY SumRemove
<1>3. SumFunctionOnSet(g, S) = g[y] + SumFunctionOnSet(g, S \ {y})
  BY <1>1, SumRemove
<1>4. SumFunctionOnSet(g, S \ {y}) = SumFunctionOnSet(f, S \ {y})
  BY <1>1, SumSame
<1>5. SumFunctionOnSet(f, S \ {y}) \in Int
  BY <1>1, SumType
<1> QED
  BY <1>2, <1>3, <1>4, <1>5

=============================================================================
