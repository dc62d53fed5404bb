----------------------------- MODULE QueriesProofs -----------------------------
(***************************************************************************)
(* On whatever rows a reader has read, the engines answer the queries *)
(* as EnginesDifferInBuckets has it: for any writes, any reads, any        *)
(* cutoffs, any length of a minute and any limit of Q2.                    *)
(***************************************************************************)
EXTENDS Queries, ServeProofs, FiniteSetTheorems

------------------------------------------------------------------------------
(* Sums over finite sets.                                                   *)

(* Induction on the subsets of a finite set, by the set of those for which  *)
(* a claim holds.                                                           *)
LEMMA SubsetInduction ==
  ASSUME NEW S, IsFiniteSet(S), NEW Holding,
         \A T \in SUBSET S : (\A U \in SUBSET T : U # T => U \in Holding) => T \in Holding
  PROVE  SUBSET S \subseteq Holding
<1> SUFFICES ASSUME (SUBSET S) \ Holding # {} PROVE FALSE
  OBVIOUS
<1> DEFINE Bad == (SUBSET S) \ Holding
<1>1. Bad \subseteq FiniteSubsetsOf(S) /\ Bad # {}
  BY FS_Subset DEF FiniteSubsetsOf
<1>2. IsWellFoundedOn(StrictSubsetOrdering(S), FiniteSubsetsOf(S))
  BY FS_StrictSubsetOrderingWellFounded
<1>3. PICK T \in Bad : \A U \in Bad : ~(<<U, T>> \in StrictSubsetOrdering(S))
  <2> HIDE DEF Bad
  <2> QED
    BY <1>1, <1>2, WFMin
<1>4. ASSUME NEW U \in SUBSET T, U # T
      PROVE  U \in Holding
  BY <1>3, <1>4 DEF StrictSubsetOrdering
<1> QED
  BY <1>3, <1>4

(* A sum over a set takes the elements in the order that CHOOSE has it.     *)
Pick(s) == CHOOSE x \in s : TRUE

Folding(g, f, S) ==
  g = [s \in SUBSET S |-> IF s = {} THEN 0 ELSE f[Pick(s)] + g[s \ {Pick(s)}]]

Sum(f, S) == MapThenSumSet(LAMBDA x : f[x], S)

(* The fold of the library is a recursive function, hence a CHOOSE.         *)
LEMMA SumIsFold ==
  ASSUME NEW f, NEW S
  PROVE  Sum(f, S) = (CHOOSE g : Folding(g, f, S))[S]
BY DEF Sum, MapThenSumSet, MapThenFoldSet, Folding, Pick

LEMMA PickIn ==
  ASSUME NEW s, s # {}
  PROVE  Pick(s) \in s /\ s \ {Pick(s)} \in SUBSET s /\ s \ {Pick(s)} # s
<1>1. Pick(s) \in s
  BY DEF Pick
<1> QED
  BY <1>1

(* The recursion has one solution on each finite set.                       *)
LEMMA FoldingIsUnique ==
  ASSUME NEW f, NEW S, NEW T \in SUBSET S, IsFiniteSet(T),
         NEW g, NEW h, Folding(g, f, S), Folding(h, f, T)
  PROVE  \A s \in SUBSET T : g[s] = h[s]
<1> DEFINE Holding == {s \in SUBSET T : g[s] = h[s]}
<1>1. ASSUME NEW s \in SUBSET T, \A u \in SUBSET s : u # s => u \in Holding
      PROVE  s \in Holding
  <2>1. /\ s \in SUBSET S
        /\ g[s] = IF s = {} THEN 0 ELSE f[Pick(s)] + g[s \ {Pick(s)}]
        /\ h[s] = IF s = {} THEN 0 ELSE f[Pick(s)] + h[s \ {Pick(s)}]
    BY DEF Folding
  <2>2. CASE s = {}
    BY <2>1, <2>2
  <2>3. CASE s # {}
    <3>1. s \ {Pick(s)} \in Holding
      BY <1>1, <2>3, PickIn
    <3> QED
      BY <2>1, <2>3, <3>1
  <2> QED
    BY <2>2, <2>3
<1> HIDE DEF Holding
<1>2. SUBSET T \subseteq Holding
  BY <1>1, SubsetInduction
<1> QED
  BY <1>2 DEF Holding

(* Restricted to a subset, the recursion is that of the subset, so its      *)
(* value there is the sum of the subset.                                    *)
LEMMA FoldingIsSum ==
  ASSUME NEW f, NEW S, IsFiniteSet(S), NEW g, Folding(g, f, S)
  PROVE  \A s \in SUBSET S : g[s] = Sum(f, s)
<1> SUFFICES ASSUME NEW s \in SUBSET S PROVE g[s] = Sum(f, s)
  OBVIOUS
<1> DEFINE h == [u \in SUBSET s |-> g[u]]
<1>1. IsFiniteSet(s)
  BY FS_Subset
<1>2. Folding(h, f, s)
  <2>1. ASSUME NEW u \in SUBSET s
        PROVE  h[u] = IF u = {} THEN 0 ELSE f[Pick(u)] + h[u \ {Pick(u)}]
    <3>1. u \in SUBSET S /\ u \ {Pick(u)} \in SUBSET s
      OBVIOUS
    <3>2. g[u] = IF u = {} THEN 0 ELSE f[Pick(u)] + g[u \ {Pick(u)}]
      BY <3>1 DEF Folding
    <3> QED
      BY <3>1, <3>2
  <2> QED
    BY <2>1 DEF Folding
<1> HIDE DEF h
<1>3. PICK c : c = (CHOOSE k : Folding(k, f, s)) /\ Folding(c, f, s)
  BY <1>2
<1>4. s \in SUBSET s
  OBVIOUS
<1>5. \A u \in SUBSET s : h[u] = c[u]
  BY <1>1, <1>2, <1>3, <1>4, FoldingIsUnique
<1>6. h[s] = g[s]
  BY <1>4 DEF h
<1> QED
  BY <1>3, <1>4, <1>5, <1>6, SumIsFold

LEMMA FoldingsAreSums ==
  \A f, S, g : IsFiniteSet(S) /\ Folding(g, f, S) => g[S] = Sum(f, S)
<1> TAKE f, S, g
<1> HAVE IsFiniteSet(S) /\ Folding(g, f, S)
<1>1. S \in SUBSET S
  OBVIOUS
<1> QED
  BY <1>1, FoldingIsSum

(* The recursion has a solution: the sums of the subsets themselves.        *)
LEMMA FoldingExists ==
  ASSUME NEW f, NEW S, IsFiniteSet(S)
  PROVE  \E g : Folding(g, f, S)
<1> DEFINE Holding == {T \in SUBSET S : \E g : Folding(g, f, T)}
<1>1. ASSUME NEW T \in SUBSET S, \A U \in SUBSET T : U # T => U \in Holding
      PROVE  T \in Holding
  <2> DEFINE g == [s \in SUBSET T |-> IF s = {} THEN 0 ELSE f[Pick(s)] + Sum(f, s \ {Pick(s)})]
  <2>1. ASSUME NEW s \in SUBSET T, s # T
        PROVE  Sum(f, s) = IF s = {} THEN 0 ELSE f[Pick(s)] + Sum(f, s \ {Pick(s)})
    <3>1. PICK k : Folding(k, f, s)
      BY <1>1, <2>1
    <3>2. IsFiniteSet(s)
      BY FS_Subset
    <3>3. \A u \in SUBSET s : k[u] = Sum(f, u)
      BY <3>1, <3>2, FoldingIsSum
    <3>4. k[s] = IF s = {} THEN 0 ELSE f[Pick(s)] + k[s \ {Pick(s)}]
      BY <3>1 DEF Folding
    <3>5. s \in SUBSET s /\ s \ {Pick(s)} \in SUBSET s
      OBVIOUS
    <3> QED
      BY <3>3, <3>4, <3>5
  <2>2. \A s \in SUBSET T : g[s] = IF s = {} THEN 0 ELSE f[Pick(s)] + Sum(f, s \ {Pick(s)})
    OBVIOUS
  <2>3. g = [s \in SUBSET T |-> g[s]]
    OBVIOUS
  <2> HIDE DEF g
  <2>4. ASSUME NEW s \in SUBSET T
        PROVE  g[s] = IF s = {} THEN 0 ELSE f[Pick(s)] + g[s \ {Pick(s)}]
    <3>1. CASE s = {}
      BY <2>2, <3>1
    <3>2. CASE s # {}
      <4>1. s \ {Pick(s)} \in SUBSET T /\ s \ {Pick(s)} # T
        BY <3>2, PickIn
      <4>2. g[s \ {Pick(s)}] = Sum(f, s \ {Pick(s)})
        BY <2>1, <2>2, <4>1
      <4> QED
        BY <2>2, <3>2, <4>2
    <3> QED
      BY <3>1, <3>2
  <2>5. Folding(g, f, T)
    BY <2>3, <2>4 DEF Folding
  <2> QED
    BY <2>5
<1>2. SUBSET S \subseteq Holding
  <2> HIDE DEF Holding
  <2> QED
    BY <1>1, SubsetInduction
<1> QED
  BY <1>2

(* The sum of a set, by the element that CHOOSE takes first.                *)
LEMMA SumUnfold ==
  ASSUME NEW f, NEW S, IsFiniteSet(S)
  PROVE  Sum(f, S) = IF S = {} THEN 0 ELSE f[Pick(S)] + Sum(f, S \ {Pick(S)})
<1>1. PICK g : Folding(g, f, S)
  BY FoldingExists
<1>2. \A u \in SUBSET S : g[u] = Sum(f, u)
  BY <1>1, FoldingIsSum
<1>3. g[S] = IF S = {} THEN 0 ELSE f[Pick(S)] + g[S \ {Pick(S)}]
  BY <1>1 DEF Folding
<1>4. S \in SUBSET S /\ S \ {Pick(S)} \in SUBSET S
  OBVIOUS
<1> QED
  BY <1>2, <1>3, <1>4

(* What the proofs below ask of integers, whatever sets they are sums of.   *)
LEMMA AddLeft ==
  ASSUME NEW s, NEW r, NEW x \in Int, NEW a, NEW b \in Int, NEW c \in Int,
         s = x + r, r = c + b, a = x + c
  PROVE  s = a + b
OBVIOUS

LEMMA AddRight ==
  ASSUME NEW s, NEW r, NEW x \in Int, NEW b, NEW a \in Int, NEW c \in Int,
         s = x + r, r = a + c, b = x + c
  PROVE  s = a + b
OBVIOUS

LEMMA AddSwap ==
  ASSUME NEW s, NEW r, NEW q, NEW x \in Int, NEW p \in Int, NEW c \in Int,
         s = p + r, r = x + c, q = p + c
  PROVE  s = x + q
OBVIOUS

LEMMA SumOfNone == ASSUME NEW f PROVE Sum(f, {}) = 0
BY SumUnfold, FS_EmptySet

LEMMA SumType ==
  ASSUME NEW f, NEW S, IsFiniteSet(S), \A x \in S : f[x] \in Int
  PROVE  \A T \in SUBSET S : Sum(f, T) \in Int
<1> DEFINE Holding == {T \in SUBSET S : Sum(f, T) \in Int}
<1>1. ASSUME NEW T \in SUBSET S, \A U \in SUBSET T : U # T => U \in Holding
      PROVE  T \in Holding
  <2>1. IsFiniteSet(T)
    BY FS_Subset
  <2>2. CASE T = {}
    BY <2>2, SumOfNone
  <2>3. CASE T # {}
    <3>1. Pick(T) \in T /\ T \ {Pick(T)} \in Holding
      BY <1>1, <2>3, PickIn
    <3>2. Sum(f, T) = f[Pick(T)] + Sum(f, T \ {Pick(T)})
      BY <2>1, <2>3, SumUnfold
    <3> QED
      BY <3>1, <3>2
  <2> QED
    BY <2>2, <2>3
<1> HIDE DEF Holding
<1>2. SUBSET S \subseteq Holding
  BY <1>1, SubsetInduction
<1> QED
  BY <1>2 DEF Holding

(* A sum does not depend on the element that is taken first.                *)
LEMMA SumRemove ==
  ASSUME NEW f, NEW S, IsFiniteSet(S), \A x \in S : f[x] \in Int
  PROVE  \A x \in S : Sum(f, S) = f[x] + Sum(f, S \ {x})
<1> DEFINE Holding == {T \in SUBSET S : \A x \in T : Sum(f, T) = f[x] + Sum(f, T \ {x})}
<1>0. \A T \in SUBSET S : Sum(f, T) \in Int
  BY SumType
<1>1. ASSUME NEW T \in SUBSET S, \A U \in SUBSET T : U # T => U \in Holding
      PROVE  T \in Holding
  <2> SUFFICES ASSUME NEW x \in T PROVE Sum(f, T) = f[x] + Sum(f, T \ {x})
    OBVIOUS
  <2>1. PICK p : p = Pick(T)
    OBVIOUS
  <2>2. p \in T
    BY <2>1, PickIn
  <2>3. Sum(f, T) = f[p] + Sum(f, T \ {p})
    BY <2>1, SumUnfold, FS_Subset
  <2>4. CASE x = p
    BY <2>3, <2>4
  <2>5. CASE x # p
    <3>1. /\ T \ {p} \in Holding /\ x \in T \ {p}
          /\ T \ {x} \in Holding /\ p \in T \ {x}
      BY <1>1, <2>2, <2>5
    <3>2. Sum(f, T \ {p}) = f[x] + Sum(f, (T \ {p}) \ {x})
      BY <3>1
    <3>3. Sum(f, T \ {x}) = f[p] + Sum(f, (T \ {x}) \ {p})
      BY <3>1
    <3>4. (T \ {x}) \ {p} = (T \ {p}) \ {x} /\ (T \ {p}) \ {x} \in SUBSET S
      OBVIOUS
    <3>5. f[x] \in Int /\ f[p] \in Int /\ Sum(f, (T \ {p}) \ {x}) \in Int
      BY <1>0, <2>2, <3>4
    <3>6. Sum(f, T \ {x}) = f[p] + Sum(f, (T \ {p}) \ {x})
      BY <3>3, <3>4, Zenon
    <3> QED
      BY <2>3, <3>2, <3>5, <3>6, AddSwap
  <2> QED
    BY <2>4, <2>5
<1> HIDE DEF Holding
<1>2. SUBSET S \subseteq Holding
  BY <1>1, SubsetInduction
<1>3. S \in Holding
  BY <1>2
<1> QED
  BY <1>3 DEF Holding

(* A sum is that of any part and of the rest.                               *)
LEMMA SumOfParts ==
  ASSUME NEW f, NEW S, IsFiniteSet(S), \A x \in S : f[x] \in Int,
         NEW A \in SUBSET S
  PROVE  Sum(f, S) = Sum(f, A) + Sum(f, S \ A)
<1> DEFINE Holding == {T \in SUBSET S : Sum(f, T) = Sum(f, T \cap A) + Sum(f, T \ A)}
<1>1. ASSUME NEW T \in SUBSET S, \A U \in SUBSET T : U # T => U \in Holding
      PROVE  T \in Holding
  <2>1. IsFiniteSet(T) /\ IsFiniteSet(T \cap A) /\ IsFiniteSet(T \ A)
    BY FS_Subset, FS_Intersection, FS_Difference
  <2>2. CASE T = {}
    <3>1. T \cap A = {} /\ T \ A = {}
      BY <2>2
    <3> QED
      BY <2>2, <3>1, SumOfNone
  <2>3. CASE T # {}
    <3>1. PICK p : p \in T
      BY <2>3
    <3>2. T \ {p} \in Holding
      BY <1>1, <3>1
    <3>3. Sum(f, T \ {p}) = Sum(f, (T \ {p}) \cap A) + Sum(f, (T \ {p}) \ A)
      BY <3>2
    <3>4. Sum(f, T) = f[p] + Sum(f, T \ {p})
      BY <2>1, <3>1, SumRemove
    <3>5. /\ f[p] \in Int /\ Sum(f, (T \ {p}) \cap A) \in Int /\ Sum(f, (T \ {p}) \ A) \in Int
          /\ Sum(f, T \cap A) \in Int /\ Sum(f, T \ A) \in Int
      <4>1. \A U \in SUBSET S : Sum(f, U) \in Int
        BY SumType
      <4> QED
        BY <3>1, <4>1
    <3>6. CASE p \in A
      <4>1. /\ (T \ {p}) \cap A = (T \cap A) \ {p} /\ (T \ {p}) \ A = T \ A
            /\ p \in T \cap A /\ \A x \in T \cap A : f[x] \in Int
        BY <3>1, <3>6
      <4>2. Sum(f, T \cap A) = f[p] + Sum(f, (T \cap A) \ {p})
        BY <2>1, <4>1, SumRemove
      <4>3. Sum(f, T \ {p}) = Sum(f, (T \cap A) \ {p}) + Sum(f, T \ A)
        BY <3>3, <4>1, Zenon
      <4>4. Sum(f, (T \cap A) \ {p}) \in Int
        BY <3>5, <4>1, Zenon
      <4>5. Sum(f, T) = Sum(f, T \cap A) + Sum(f, T \ A)
        BY <3>4, <3>5, <4>2, <4>3, <4>4, AddLeft
      <4> QED
        BY <4>5
    <3>7. CASE p \notin A
      <4>1. /\ (T \ {p}) \ A = (T \ A) \ {p} /\ (T \ {p}) \cap A = T \cap A
            /\ p \in T \ A /\ \A x \in T \ A : f[x] \in Int
        BY <3>1, <3>7
      <4>2. Sum(f, T \ A) = f[p] + Sum(f, (T \ A) \ {p})
        BY <2>1, <4>1, SumRemove
      <4>3. Sum(f, T \ {p}) = Sum(f, T \cap A) + Sum(f, (T \ A) \ {p})
        BY <3>3, <4>1, Zenon
      <4>4. Sum(f, (T \ A) \ {p}) \in Int
        BY <3>5, <4>1, Zenon
      <4>5. Sum(f, T) = Sum(f, T \cap A) + Sum(f, T \ A)
        BY <3>4, <3>5, <4>2, <4>3, <4>4, AddRight
      <4> QED
        BY <4>5
    <3> QED
      BY <3>6, <3>7
  <2> QED
    BY <2>2, <2>3
<1> HIDE DEF Holding
<1>2. S \in Holding
  BY <1>1, SubsetInduction
<1>3. S \cap A = A
  OBVIOUS
<1> QED
  BY <1>2, <1>3 DEF Holding

(* The sums of the groups of a key add up to the sum of them all.           *)
Group(S, key, k) == {x \in S : key[x] = k}
Groups(S, key, K) == {x \in S : key[x] \in K}

LEMMA SumOfGroups ==
  ASSUME NEW f, NEW S, IsFiniteSet(S), \A x \in S : f[x] \in Int,
         NEW key, NEW K, IsFiniteSet(K),
         NEW g, \A k \in K : g[k] = Sum(f, Group(S, key, k))
  PROVE  Sum(f, Groups(S, key, K)) = Sum(g, K)
<1> DEFINE In(T) == Groups(S, key, T)
           At(k) == Group(S, key, k)
           Holding == {T \in SUBSET K : Sum(f, In(T)) = Sum(g, T)}
<1>0. \A T \in SUBSET S : Sum(f, T) \in Int
  BY SumType
<1>1. ASSUME NEW T \in SUBSET K, \A U \in SUBSET T : U # T => U \in Holding
      PROVE  T \in Holding
  <2>1. CASE T = {}
    <3>1. In(T) = {}
      BY <2>1 DEF Groups
    <3> QED
      BY <2>1, <3>1, SumOfNone
  <2>2. CASE T # {}
    <3>1. PICK k : k = Pick(T)
      OBVIOUS
    <3>2. k \in T /\ T \ {k} \in Holding
      BY <1>1, <2>2, <3>1, PickIn
    <3>3. Sum(g, T) = g[k] + Sum(g, T \ {k})
      BY <2>2, <3>1, SumUnfold, FS_Subset
    <3>4. /\ At(k) \in SUBSET In(T) /\ In(T) \ At(k) = In(T \ {k})
          /\ In(T) \in SUBSET S /\ \A x \in In(T) : f[x] \in Int
      BY <3>2 DEF Group, Groups
    <3>5. Sum(f, In(T)) = Sum(f, At(k)) + Sum(f, In(T \ {k}))
      <4>1. IsFiniteSet(In(T))
        BY <3>4, FS_Subset
      <4>2. PICK R, A : R = In(T) /\ A = At(k) /\ R \ A = In(T \ {k})
        BY <3>4
      <4>3. IsFiniteSet(R) /\ A \in SUBSET R /\ \A x \in R : f[x] \in Int
        BY <3>4, <4>1, <4>2
      <4>4. Sum(f, R) = Sum(f, A) + Sum(f, R \ A)
        BY <4>3, SumOfParts
      <4> QED
        BY <4>2, <4>4
    <3>6. Sum(f, In(T \ {k})) = Sum(g, T \ {k}) /\ g[k] = Sum(f, At(k))
      BY <3>2
    <3>7. Sum(f, In(T)) = Sum(g, T)
      <4> HIDE DEF In, At, Holding
      <4> QED
        BY <3>3, <3>5, <3>6
    <3> QED
      BY <3>7
  <2> QED
    BY <2>1, <2>2
<1>2. K \in Holding
  <2> HIDE DEF Holding
  <2> QED
    BY <1>1, SubsetInduction
<1> QED
  BY <1>2

LEMMA SumOfOnes ==
  ASSUME NEW f, NEW S, IsFiniteSet(S), \A x \in S : f[x] = 1
  PROVE  Sum(f, S) = Cardinality(S)
<1> DEFINE Holding == {T \in SUBSET S : Sum(f, T) = Cardinality(T)}
<1>1. ASSUME NEW T \in SUBSET S, \A U \in SUBSET T : U # T => U \in Holding
      PROVE  T \in Holding
  <2>1. IsFiniteSet(T)
    BY FS_Subset
  <2>2. CASE T = {}
    BY <2>2, SumOfNone, FS_EmptySet
  <2>3. CASE T # {}
    <3>1. PICK p : p = Pick(T)
      OBVIOUS
    <3>2. p \in T /\ T \ {p} \in Holding
      BY <1>1, <2>3, <3>1, PickIn
    <3>3. Sum(f, T) = f[p] + Sum(f, T \ {p})
      BY <2>1, <2>3, <3>1, SumUnfold
    <3>4. Cardinality(T \ {p}) = Cardinality(T) - 1 /\ Cardinality(T) \in Nat
      BY <2>1, <3>2, FS_RemoveElement, FS_CardinalityType
    <3> QED
      BY <3>2, <3>3, <3>4
  <2> QED
    BY <2>2, <2>3
<1>2. S \in Holding
  <2> HIDE DEF Holding
  <2> QED
    BY <1>1, SubsetInduction
<1> QED
  BY <1>2

(* A sum of natural numbers is one.                                         *)
LEMMA SumOfNaturals ==
  ASSUME NEW f, NEW S, IsFiniteSet(S), \A x \in S : f[x] \in Nat
  PROVE  Sum(f, S) \in Nat
<1> DEFINE Holding == {T \in SUBSET S : Sum(f, T) \in Nat}
<1>1. ASSUME NEW T \in SUBSET S, \A U \in SUBSET T : U # T => U \in Holding
      PROVE  T \in Holding
  <2>1. IsFiniteSet(T)
    BY FS_Subset
  <2>2. CASE T = {}
    BY <2>2, SumOfNone
  <2>3. CASE T # {}
    <3>1. Pick(T) \in T /\ T \ {Pick(T)} \in Holding
      BY <1>1, <2>3, PickIn
    <3>2. Sum(f, T) = f[Pick(T)] + Sum(f, T \ {Pick(T)})
      BY <2>1, <2>3, SumUnfold
    <3> QED
      BY <3>1, <3>2
  <2> QED
    BY <2>2, <2>3
<1>2. S \in Holding
  <2> HIDE DEF Holding
  <2> QED
    BY <1>1, SubsetInduction
<1> QED
  BY <1>2

------------------------------------------------------------------------------
(* The aggregates of the queries are such sums.                             *)

(* A sum of the library, of an operator, is the sum of the function that    *)
(* the operator makes.                                                      *)
LEMMA CountIsSum ==
  ASSUME NEW S, IsFiniteSet(S), NEW f, \A x \in S : f[x] = Count(x)
  PROVE  MapThenSumSet(Count, S) = Sum(f, S)
<1> DEFINE Folds(g) ==
      g = [s \in SUBSET S |->
             IF s = {} THEN 0 ELSE Count(Pick(s)) + g[s \ {Pick(s)}]]
<1>1. MapThenSumSet(Count, S) = (CHOOSE g : Folds(g))[S]
  BY DEF MapThenSumSet, MapThenFoldSet, Pick
<1>2. \A s \in SUBSET S : s # {} => Count(Pick(s)) = f[Pick(s)]
  BY PickIn
<1>3. \A g : Folding(g, f, S) => Folds(g)
  BY <1>2 DEF Folding
<1>4. \A g : Folds(g) => Folding(g, f, S)
  BY <1>2 DEF Folding
<1> HIDE DEF Folds
<1>5. \E g : Folds(g)
  BY <1>3, FoldingExists
<1>6. PICK c : c = (CHOOSE g : Folds(g)) /\ Folds(c)
  BY <1>5, Zenon
<1>7. Folding(c, f, S)
  BY <1>4, <1>6
<1>8. c[S] = Sum(f, S)
  BY <1>7, FoldingsAreSums, Zenon
<1> QED
  BY <1>1, <1>6, <1>8, Zenon

LEMMA WeightedIsSum ==
  ASSUME NEW S, IsFiniteSet(S), NEW f, \A x \in S : f[x] = x.key.vwap * x.key.count
  PROVE  MapThenSumSet(LAMBDA r : r.key.vwap * r.key.count, S) = Sum(f, S)
<1> DEFINE Folds(g) ==
      g = [s \in SUBSET S |->
             IF s = {} THEN 0 ELSE Pick(s).key.vwap * Pick(s).key.count + g[s \ {Pick(s)}]]
<1>1. MapThenSumSet(LAMBDA r : r.key.vwap * r.key.count, S) = (CHOOSE g : Folds(g))[S]
  BY DEF MapThenSumSet, MapThenFoldSet, Pick
<1>2. \A s \in SUBSET S : s # {} => Pick(s).key.vwap * Pick(s).key.count = f[Pick(s)]
  BY PickIn
<1>3. \A g : Folding(g, f, S) => Folds(g)
  BY <1>2 DEF Folding
<1>4. \A g : Folds(g) => Folding(g, f, S)
  BY <1>2 DEF Folding
<1> HIDE DEF Folds
<1>5. \E g : Folds(g)
  BY <1>3, FoldingExists
<1>6. PICK c : c = (CHOOSE g : Folds(g)) /\ Folds(c)
  BY <1>5, Zenon
<1>7. Folding(c, f, S)
  BY <1>4, <1>6
<1>8. c[S] = Sum(f, S)
  BY <1>7, FoldingsAreSums, Zenon
<1> QED
  BY <1>1, <1>6, <1>8, Zenon

LEMMA OfiIsSum ==
  ASSUME NEW S, IsFiniteSet(S), NEW f, \A x \in S : f[x] = x.key.ofi
  PROVE  MapThenSumSet(LAMBDA r : r.key.ofi, S) = Sum(f, S)
<1> DEFINE Folds(g) ==
      g = [s \in SUBSET S |->
             IF s = {} THEN 0 ELSE Pick(s).key.ofi + g[s \ {Pick(s)}]]
<1>1. MapThenSumSet(LAMBDA r : r.key.ofi, S) = (CHOOSE g : Folds(g))[S]
  BY DEF MapThenSumSet, MapThenFoldSet, Pick
<1>2. \A s \in SUBSET S : s # {} => Pick(s).key.ofi = f[Pick(s)]
  BY PickIn
<1>3. \A g : Folding(g, f, S) => Folds(g)
  BY <1>2 DEF Folding
<1>4. \A g : Folds(g) => Folding(g, f, S)
  BY <1>2 DEF Folding
<1> HIDE DEF Folds
<1>5. \E g : Folds(g)
  BY <1>3, FoldingExists
<1>6. PICK c : c = (CHOOSE g : Folds(g)) /\ Folds(c)
  BY <1>5, Zenon
<1>7. Folding(c, f, S)
  BY <1>4, <1>6
<1>8. c[S] = Sum(f, S)
  BY <1>7, FoldingsAreSums, Zenon
<1> QED
  BY <1>1, <1>6, <1>8, Zenon

------------------------------------------------------------------------------
(* What is summed at each time of a minute.                                 *)

(* What the engines rely on in the rows they are given.                     *)
Measured(R) ==
  /\ IsFiniteSet(R)
  /\ \A r \in R : /\ r.key.ts \in Nat
                   /\ r.key.vwap \in Nat \cup {Null}
                   /\ r.key.count \in Nat /\ r.key.ofi \in Int

Times(R) == {r.key.ts : r \in R}
At(R, t) == {r \in R : r.key.ts = t}
Within(R, m) == {r \in R : Minute(r.key.ts) = m}

(* A finite set of rows has finitely many times.                            *)
LEMMA TimesFinite ==
  ASSUME NEW R, IsFiniteSet(R)
  PROVE  IsFiniteSet(Times(R))
<1> DEFINE f == [r \in R |-> r.key.ts]
<1>1. f \in Surjection(R, Times(R))
  BY DEF Times, Surjection
<1> QED
  BY <1>1, FS_Surjection

(* What is summed at each time of a minute adds up to its sum in the minute.*)
LEMMA MinuteAddsUp ==
  ASSUME NEW R, IsFiniteSet(R), NEW P \in SUBSET R,
         NEW f, \A r \in P : f[r] \in Int,
         NEW g, NEW m, \A t \in Times(R) : g[t] = Sum(f, At(P, t))
  PROVE  Sum(f, Within(P, m)) = Sum(g, {t \in Times(R) : Minute(t) = m})
<1> DEFINE key == [r \in P |-> r.key.ts]
           K == {t \in Times(R) : Minute(t) = m}
<1>1. IsFiniteSet(P) /\ IsFiniteSet(K)
  BY TimesFinite, FS_Subset
<1>2. \A t \in K : Group(P, key, t) = At(P, t)
  BY DEF At, Group
<1>3. Groups(P, key, K) = Within(P, m)
  BY DEF Within, Times, Groups
<1>4. \A t \in K : g[t] = Sum(f, Group(P, key, t))
  BY <1>2
<1> HIDE DEF key, K
<1>5. Sum(f, Groups(P, key, K)) = Sum(g, K)
  BY <1>1, <1>4, SumOfGroups
<1> QED
  BY <1>3, <1>5 DEF K

(* The buckets add up in each of the four numbers of Q1 and Q5; a lemma     *)
(* each, since a lemma cannot be about every operator at once.              *)
VwapsAddUp(duck, minutes) == AddUp(duck, minutes, LAMBDA b : OrZero(b.sum))

LEMMA SumsAddUp ==
  ASSUME NEW R, IsFiniteSet(R), NEW P \in SUBSET R, NEW f, \A r \in P : f[r] \in Int,
         NEW duck, DOMAIN duck = Times(R),
         \A t \in Times(R) : OrZero(duck[t].sum) = Sum(f, At(P, t)),
         NEW minutes, DOMAIN minutes = {Minute(t) : t \in Times(R)},
         \A m \in DOMAIN minutes : OrZero(minutes[m].sum) = Sum(f, Within(P, m))
  PROVE  VwapsAddUp(duck, minutes)
<1> SUFFICES ASSUME NEW m \in DOMAIN minutes
             PROVE  OrZero(minutes[m].sum) =
                      MapThenSumSet(LAMBDA t : OrZero(duck[t].sum),
                                    {t \in DOMAIN duck : Minute(t) = m})
  BY DEF AddUp, VwapsAddUp
<1>1. PICK K : K = {t \in Times(R) : Minute(t) = m}
  OBVIOUS
<1>2. PICK g : g = [t \in Times(R) |-> OrZero(duck[t].sum)]
  OBVIOUS
<1>3. Sum(f, Within(P, m)) = Sum(g, K)
  BY <1>1, <1>2, MinuteAddsUp
<1>4. IsFiniteSet(K) /\ \A t \in K : g[t] = OrZero(duck[t].sum)
  BY <1>1, <1>2, TimesFinite, FS_Subset
<1>5. MapThenSumSet(LAMBDA t : OrZero(duck[t].sum), K) = Sum(g, K)
  <2> DEFINE Folds(h) ==
        h = [s \in SUBSET K |->
               IF s = {} THEN 0 ELSE OrZero(duck[Pick(s)].sum) + h[s \ {Pick(s)}]]
  <2>1. MapThenSumSet(LAMBDA t : OrZero(duck[t].sum), K) = (CHOOSE h : Folds(h))[K]
    BY DEF MapThenSumSet, MapThenFoldSet, Pick
  <2>2. \A s \in SUBSET K : s # {} => OrZero(duck[Pick(s)].sum) = g[Pick(s)]
    BY <1>4, PickIn
  <2>3. \A h : Folding(h, g, K) => Folds(h)
    BY <2>2 DEF Folding
  <2>4. \A h : Folds(h) => Folding(h, g, K)
    BY <2>2 DEF Folding
  <2> HIDE DEF Folds
  <2>5. \E h : Folds(h)
    BY <1>4, <2>3, FoldingExists
  <2>6. PICK c : c = (CHOOSE h : Folds(h)) /\ Folds(c)
    BY <2>5, Zenon
  <2>7. Folding(c, g, K)
    BY <2>4, <2>6
  <2>8. c[K] = Sum(g, K)
    BY <1>4, <2>7, FoldingsAreSums, Zenon
  <2> QED
    BY <2>1, <2>6, <2>8, Zenon
<1>6. {t \in DOMAIN duck : Minute(t) = m} = K
  BY <1>1
<1> QED
  BY <1>3, <1>5, <1>6

OfAddUp(duck, minutes) == AddUp(duck, minutes, LAMBDA b : b.of)

LEMMA OfAddsUp ==
  ASSUME NEW R, IsFiniteSet(R), NEW P \in SUBSET R, NEW f, \A r \in P : f[r] \in Int,
         NEW duck, DOMAIN duck = Times(R),
         \A t \in Times(R) : duck[t].of = Sum(f, At(P, t)),
         NEW minutes, DOMAIN minutes = {Minute(t) : t \in Times(R)},
         \A m \in DOMAIN minutes : minutes[m].of = Sum(f, Within(P, m))
  PROVE  OfAddUp(duck, minutes)
<1> SUFFICES ASSUME NEW m \in DOMAIN minutes
             PROVE  minutes[m].of =
                      MapThenSumSet(LAMBDA t : duck[t].of, {t \in DOMAIN duck : Minute(t) = m})
  BY DEF AddUp, OfAddUp
<1>1. PICK K : K = {t \in Times(R) : Minute(t) = m}
  OBVIOUS
<1>2. PICK g : g = [t \in Times(R) |-> duck[t].of]
  OBVIOUS
<1>3. Sum(f, Within(P, m)) = Sum(g, K)
  BY <1>1, <1>2, MinuteAddsUp
<1>4. IsFiniteSet(K) /\ \A t \in K : g[t] = duck[t].of
  BY <1>1, <1>2, TimesFinite, FS_Subset
<1>5. MapThenSumSet(LAMBDA t : duck[t].of, K) = Sum(g, K)
  <2> DEFINE Folds(h) ==
        h = [s \in SUBSET K |->
               IF s = {} THEN 0 ELSE duck[Pick(s)].of + h[s \ {Pick(s)}]]
  <2>1. MapThenSumSet(LAMBDA t : duck[t].of, K) = (CHOOSE h : Folds(h))[K]
    BY DEF MapThenSumSet, MapThenFoldSet, Pick
  <2>2. \A s \in SUBSET K : s # {} => duck[Pick(s)].of = g[Pick(s)]
    BY <1>4, PickIn
  <2>3. \A h : Folding(h, g, K) => Folds(h)
    BY <2>2 DEF Folding
  <2>4. \A h : Folds(h) => Folding(h, g, K)
    BY <2>2 DEF Folding
  <2> HIDE DEF Folds
  <2>5. \E h : Folds(h)
    BY <1>4, <2>3, FoldingExists
  <2>6. PICK c : c = (CHOOSE h : Folds(h)) /\ Folds(c)
    BY <2>5, Zenon
  <2>7. Folding(c, g, K)
    BY <2>4, <2>6
  <2>8. c[K] = Sum(g, K)
    BY <1>4, <2>7, FoldingsAreSums, Zenon
  <2> QED
    BY <2>1, <2>6, <2>8, Zenon
<1>6. {t \in DOMAIN duck : Minute(t) = m} = K
  BY <1>1
<1> QED
  BY <1>3, <1>5, <1>6

OfiAddUp(duck, minutes) == AddUp(duck, minutes, LAMBDA b : b.ofi)

LEMMA OfiAddsUp ==
  ASSUME NEW R, IsFiniteSet(R), NEW P \in SUBSET R, NEW f, \A r \in P : f[r] \in Int,
         NEW duck, DOMAIN duck = Times(R),
         \A t \in Times(R) : duck[t].ofi = Sum(f, At(P, t)),
         NEW minutes, DOMAIN minutes = {Minute(t) : t \in Times(R)},
         \A m \in DOMAIN minutes : minutes[m].ofi = Sum(f, Within(P, m))
  PROVE  OfiAddUp(duck, minutes)
<1> SUFFICES ASSUME NEW m \in DOMAIN minutes
             PROVE  minutes[m].ofi =
                      MapThenSumSet(LAMBDA t : duck[t].ofi, {t \in DOMAIN duck : Minute(t) = m})
  BY DEF AddUp, OfiAddUp
<1>1. PICK K : K = {t \in Times(R) : Minute(t) = m}
  OBVIOUS
<1>2. PICK g : g = [t \in Times(R) |-> duck[t].ofi]
  OBVIOUS
<1>3. Sum(f, Within(P, m)) = Sum(g, K)
  BY <1>1, <1>2, MinuteAddsUp
<1>4. IsFiniteSet(K) /\ \A t \in K : g[t] = duck[t].ofi
  BY <1>1, <1>2, TimesFinite, FS_Subset
<1>5. MapThenSumSet(LAMBDA t : duck[t].ofi, K) = Sum(g, K)
  <2> DEFINE Folds(h) ==
        h = [s \in SUBSET K |->
               IF s = {} THEN 0 ELSE duck[Pick(s)].ofi + h[s \ {Pick(s)}]]
  <2>1. MapThenSumSet(LAMBDA t : duck[t].ofi, K) = (CHOOSE h : Folds(h))[K]
    BY DEF MapThenSumSet, MapThenFoldSet, Pick
  <2>2. \A s \in SUBSET K : s # {} => duck[Pick(s)].ofi = g[Pick(s)]
    BY <1>4, PickIn
  <2>3. \A h : Folding(h, g, K) => Folds(h)
    BY <2>2 DEF Folding
  <2>4. \A h : Folds(h) => Folding(h, g, K)
    BY <2>2 DEF Folding
  <2> HIDE DEF Folds
  <2>5. \E h : Folds(h)
    BY <1>4, <2>3, FoldingExists
  <2>6. PICK c : c = (CHOOSE h : Folds(h)) /\ Folds(c)
    BY <2>5, Zenon
  <2>7. Folding(c, g, K)
    BY <2>4, <2>6
  <2>8. c[K] = Sum(g, K)
    BY <1>4, <2>7, FoldingsAreSums, Zenon
  <2> QED
    BY <2>1, <2>6, <2>8, Zenon
<1>6. {t \in DOMAIN duck : Minute(t) = m} = K
  BY <1>1
<1> QED
  BY <1>3, <1>5, <1>6

NAddUp(duck, minutes) == AddUp(duck, minutes, LAMBDA b : b.n)

LEMMA NAddsUp ==
  ASSUME NEW R, IsFiniteSet(R), NEW P \in SUBSET R, NEW f, \A r \in P : f[r] \in Int,
         NEW duck, DOMAIN duck = Times(R),
         \A t \in Times(R) : duck[t].n = Sum(f, At(P, t)),
         NEW minutes, DOMAIN minutes = {Minute(t) : t \in Times(R)},
         \A m \in DOMAIN minutes : minutes[m].n = Sum(f, Within(P, m))
  PROVE  NAddUp(duck, minutes)
<1> SUFFICES ASSUME NEW m \in DOMAIN minutes
             PROVE  minutes[m].n =
                      MapThenSumSet(LAMBDA t : duck[t].n, {t \in DOMAIN duck : Minute(t) = m})
  BY DEF AddUp, NAddUp
<1>1. PICK K : K = {t \in Times(R) : Minute(t) = m}
  OBVIOUS
<1>2. PICK g : g = [t \in Times(R) |-> duck[t].n]
  OBVIOUS
<1>3. Sum(f, Within(P, m)) = Sum(g, K)
  BY <1>1, <1>2, MinuteAddsUp
<1>4. IsFiniteSet(K) /\ \A t \in K : g[t] = duck[t].n
  BY <1>1, <1>2, TimesFinite, FS_Subset
<1>5. MapThenSumSet(LAMBDA t : duck[t].n, K) = Sum(g, K)
  <2> DEFINE Folds(h) ==
        h = [s \in SUBSET K |->
               IF s = {} THEN 0 ELSE duck[Pick(s)].n + h[s \ {Pick(s)}]]
  <2>1. MapThenSumSet(LAMBDA t : duck[t].n, K) = (CHOOSE h : Folds(h))[K]
    BY DEF MapThenSumSet, MapThenFoldSet, Pick
  <2>2. \A s \in SUBSET K : s # {} => duck[Pick(s)].n = g[Pick(s)]
    BY <1>4, PickIn
  <2>3. \A h : Folding(h, g, K) => Folds(h)
    BY <2>2 DEF Folding
  <2>4. \A h : Folds(h) => Folding(h, g, K)
    BY <2>2 DEF Folding
  <2> HIDE DEF Folds
  <2>5. \E h : Folds(h)
    BY <1>4, <2>3, FoldingExists
  <2>6. PICK c : c = (CHOOSE h : Folds(h)) /\ Folds(c)
    BY <2>5, Zenon
  <2>7. Folding(c, g, K)
    BY <2>4, <2>6
  <2>8. c[K] = Sum(g, K)
    BY <1>4, <2>7, FoldingsAreSums, Zenon
  <2> QED
    BY <2>1, <2>6, <2>8, Zenon
<1>6. {t \in DOMAIN duck : Minute(t) = m} = K
  BY <1>1
<1> QED
  BY <1>3, <1>5, <1>6

Counts(R) == [r \in R |-> r.key.count]
Values(R) == [r \in R |-> r.key.vwap * r.key.count]
Flows(R) == [r \in R |-> r.key.ofi]

(* A row with a price has a value.                                          *)
LEMMA PricedType ==
  ASSUME NEW R, Measured(R)
  PROVE  \A r \in Priced(R) : r \in R /\ r.key.vwap \in Nat /\ Values(R)[r] \in Nat
<1> SUFFICES ASSUME NEW r \in Priced(R)
             PROVE  r \in R /\ r.key.vwap \in Nat /\ Values(R)[r] \in Nat
  OBVIOUS
<1>1. r \in R /\ r.key.vwap # Null
  BY DEF Priced
<1>2. r.key.vwap \in Nat \cup {Null} /\ r.key.count \in Nat
  BY <1>1 DEF Measured
<1>3. r.key.vwap \in Nat
  BY <1>1, <1>2
<1>4. r.key.vwap * r.key.count \in Nat
  BY <1>2, <1>3
<1> QED
  BY <1>1, <1>3, <1>4 DEF Values

(* Every number in a bucket is a sum over its rows, in SQL as in Polars.    *)
LEMMA AggregatesAreSums ==
  ASSUME NEW R, Measured(R), NEW X \in SUBSET R
  PROVE  /\ MapThenSumSet(Count, X) = Sum(Counts(R), X)
         /\ Weighted(X) = Sum(Values(R), Priced(X))
         /\ OrZero(SqlVwap(X).sum) = Sum(Values(R), Priced(X))
         /\ OrZero(PolarsVwap(X).sum) = Sum(Values(R), Priced(X))
         /\ SqlVwap(X).of = Sum(Counts(R), X)
         /\ PolarsVwap(X).of = Sum(Counts(R), X)
         /\ Flow(X).ofi = Sum(Flows(R), X)
         /\ Flow(X).n = Cardinality(X)
<1>1. /\ IsFiniteSet(X) /\ Priced(X) \in SUBSET X
      /\ IsFiniteSet(Priced(X)) /\ Priced(X) \in SUBSET Priced(R)
  <2>1. IsFiniteSet(X)
    BY FS_Subset DEF Measured
  <2>2. Priced(X) \in SUBSET X
    BY DEF Priced
  <2> QED
    BY <2>1, <2>2, FS_Subset DEF Priced
<1>2. MapThenSumSet(Count, X) = Sum(Counts(R), X)
  <2>1. \A r \in X : Counts(R)[r] = Count(r)
    BY DEF Counts, Count
  <2> QED
    BY <1>1, <2>1, CountIsSum
<1>3. Weighted(X) = Sum(Values(R), Priced(X))
  <2>1. \A r \in Priced(X) : Values(R)[r] = r.key.vwap * r.key.count
    BY <1>1 DEF Values
  <2>2. MapThenSumSet(LAMBDA r : r.key.vwap * r.key.count, Priced(X)) = Sum(Values(R), Priced(X))
    BY <1>1, <2>1, WeightedIsSum
  <2> QED
    BY <2>2 DEF Weighted
<1>4. Sum(Values(R), Priced(X)) \in Nat
  <2>1. \A r \in Priced(X) : Values(R)[r] \in Nat
    BY <1>1, PricedType
  <2> QED
    BY <1>1, <2>1, SumOfNaturals
<1>5. MapThenSumSet(LAMBDA r : r.key.ofi, X) = Sum(Flows(R), X)
  <2>1. \A r \in X : Flows(R)[r] = r.key.ofi
    BY DEF Flows
  <2> QED
    BY <1>1, <2>1, OfiIsSum
<1>6. Priced(X) = {} => Sum(Values(R), Priced(X)) = 0
  BY SumOfNone
<1>7. Flow(X).ofi = Sum(Flows(R), X)
  <2>1. Flow(X).ofi = MapThenSumSet(LAMBDA r : r.key.ofi, X)
    BY DEF Flow
  <2> QED
    BY <1>5, <2>1, Zenon
<1>8. /\ OrZero(SqlVwap(X).sum) = Sum(Values(R), Priced(X))
      /\ OrZero(PolarsVwap(X).sum) = Sum(Values(R), Priced(X))
  <2>1. /\ SqlVwap(X).sum = IF Priced(X) = {} THEN Null ELSE Weighted(X)
        /\ PolarsVwap(X).sum = Weighted(X)
    BY DEF SqlVwap, PolarsVwap
  <2> QED
    BY <1>3, <1>4, <1>6, <2>1 DEF OrZero, Null
<1>9. /\ SqlVwap(X).of = Sum(Counts(R), X)
      /\ PolarsVwap(X).of = Sum(Counts(R), X)
      /\ Flow(X).n = Cardinality(X)
  BY <1>2 DEF SqlVwap, PolarsVwap, Flow
<1> QED
  BY <1>2, <1>3, <1>7, <1>8, <1>9

Minutes(R) == {Minute(t) : t \in Times(R)}

DuckVwaps(R) == [t \in Times(R) |-> SqlVwap(At(R, t))]
DuckFlows(R) == [t \in Times(R) |-> Flow(At(R, t))]
SqlVwaps(R) == [m \in Minutes(R) |-> SqlVwap(Within(R, m))]
PolarsVwaps(R) == [m \in Minutes(R) |-> PolarsVwap(Within(R, m))]
PolarsFlows(R) == [m \in Minutes(R) |-> Flow(Within(R, m))]

(* What the engines answer, in the terms of the rows they filter.           *)
LEMMA AnswersByTime ==
  \A rows, s, cutoff :
    /\ DuckQ1(rows, s, cutoff) = DuckVwaps(Since(Of(rows, s), cutoff))
    /\ DuckQ5(rows, s, cutoff) = DuckFlows(Since(Of(rows, s), cutoff))
<1> TAKE rows, s, cutoff
<1>1. PICK R : R = Since(Of(rows, s), cutoff)
  OBVIOUS
<1>2. {DuckMinute(r) : r \in R} = Times(R) /\ \A t : {r \in R : DuckMinute(r) = t} = At(R, t)
  BY DEF DuckMinute, Times, At
<1>3. DuckQ1(rows, s, cutoff) = DuckVwaps(R)
  BY <1>1, <1>2 DEF GroupBy, DuckVwaps, DuckQ1
<1>4. DuckQ5(rows, s, cutoff) = DuckFlows(R)
  BY <1>1, <1>2 DEF GroupBy, DuckFlows, DuckQ5
<1> QED
  BY <1>1, <1>3, <1>4

(* The same of the engines that group by the minute.                        *)
LEMMA AnswersByMinute ==
  \A rows, s, cutoff :
    /\ PolarsQ1(rows, s, cutoff) = PolarsVwaps(Since(Of(rows, s), cutoff))
    /\ PolarsQ5(rows, s, cutoff) = PolarsFlows(Since(Of(rows, s), cutoff))
    /\ DataFusionQ1(rows, s) = SqlVwaps(Of(rows, s))
    /\ RustPolarsQ1(rows, s) = PolarsVwaps(Of(rows, s))
<1> TAKE rows, s, cutoff
<1>1. PICK R : R = Since(Of(rows, s), cutoff)
  OBVIOUS
<1>2. PICK Q : Q = Of(rows, s)
  OBVIOUS
<1>3. \A X : /\ {PolarsMinute(r) : r \in X} = Minutes(X)
             /\ \A m : {r \in X : PolarsMinute(r) = m} = Within(X, m)
             /\ {RustMinute(r) : r \in X} = Minutes(X)
             /\ \A m : {r \in X : RustMinute(r) = m} = Within(X, m)
  BY DEF PolarsMinute, RustMinute, Minutes, Times, Within
<1>4. PolarsQ1(rows, s, cutoff) = PolarsVwaps(R)
  BY <1>1, <1>3 DEF GroupBy, PolarsVwaps, PolarsQ1
<1>5. PolarsQ5(rows, s, cutoff) = PolarsFlows(R)
  BY <1>1, <1>3 DEF GroupBy, PolarsFlows, PolarsQ5
<1>6. DataFusionQ1(rows, s) = SqlVwaps(Q)
  BY <1>2, <1>3 DEF GroupBy, SqlVwaps, DataFusionQ1
<1>7. RustPolarsQ1(rows, s) = PolarsVwaps(Q)
  BY <1>2, <1>3 DEF GroupBy, PolarsVwaps, RustPolarsQ1
<1> QED
  BY <1>1, <1>2, <1>4, <1>5, <1>6, <1>7

(* To filter by price and by time is to filter by time and by price.        *)
LEMMA Parts ==
  ASSUME NEW R
  PROVE  \A t : /\ At(R, t) \in SUBSET R /\ Priced(At(R, t)) = At(Priced(R), t)
                /\ Within(R, t) \in SUBSET R /\ Priced(Within(R, t)) = Within(Priced(R), t)
BY DEF At, Within, Priced

(* Q1: the buckets of DuckDB add up to those of the others.                 *)
LEMMA Q1AddsUp ==
  ASSUME NEW R, Measured(R), NEW minutes \in {SqlVwaps(R), PolarsVwaps(R)}
  PROVE  /\ VwapsAddUp(DuckVwaps(R), minutes)
         /\ OfAddUp(DuckVwaps(R), minutes)
<1>1. PICK duck : duck = DuckVwaps(R)
  OBVIOUS
<1>2. DOMAIN duck = Times(R) /\ \A t \in Times(R) : duck[t] = SqlVwap(At(R, t))
  BY <1>1 DEF DuckVwaps
<1>3. /\ DOMAIN minutes = {Minute(t) : t \in Times(R)}
      /\ \A m \in DOMAIN minutes :
           minutes[m] = SqlVwap(Within(R, m)) \/ minutes[m] = PolarsVwap(Within(R, m))
  BY DEF SqlVwaps, PolarsVwaps, Minutes
<1>4. \A t \in Times(R) : /\ OrZero(duck[t].sum) = Sum(Values(R), At(Priced(R), t))
                          /\ duck[t].of = Sum(Counts(R), At(R, t))
  BY <1>2, AggregatesAreSums, Parts
<1>5. \A m \in DOMAIN minutes :
        /\ OrZero(minutes[m].sum) = Sum(Values(R), Within(Priced(R), m))
        /\ minutes[m].of = Sum(Counts(R), Within(R, m))
  BY <1>3, AggregatesAreSums, Parts
<1>6. /\ IsFiniteSet(R) /\ Priced(R) \in SUBSET R /\ R \in SUBSET R
      /\ \A r \in Priced(R) : Values(R)[r] \in Int
      /\ \A r \in R : Counts(R)[r] \in Int
  BY PricedType DEF Measured, Priced, Counts
<1>7. VwapsAddUp(duck, minutes)
  <2>1. PICK P, f : P = Priced(R) /\ f = Values(R)
    OBVIOUS
  <2>2. /\ P \in SUBSET R /\ \A r \in P : f[r] \in Int
        /\ \A t \in Times(R) : OrZero(duck[t].sum) = Sum(f, At(P, t))
        /\ \A m \in DOMAIN minutes : OrZero(minutes[m].sum) = Sum(f, Within(P, m))
    BY <1>4, <1>5, <1>6, <2>1
  <2>3. IsFiniteSet(R) /\ DOMAIN duck = Times(R) /\ DOMAIN minutes = {Minute(t) : t \in Times(R)}
    BY <1>2, <1>3, <1>6
  <2> QED
    BY <2>2, <2>3, SumsAddUp
<1>8. OfAddUp(duck, minutes)
  BY <1>2, <1>3, <1>4, <1>5, <1>6, OfAddsUp
<1> QED
  BY <1>1, <1>7, <1>8

(* Q5: the flows and the numbers of rows add up as well.                    *)
LEMMA Q5AddsUp ==
  ASSUME NEW R, Measured(R)
  PROVE  /\ OfiAddUp(DuckFlows(R), PolarsFlows(R))
         /\ NAddUp(DuckFlows(R), PolarsFlows(R))
<1>1. PICK duck, minutes : duck = DuckFlows(R) /\ minutes = PolarsFlows(R)
  OBVIOUS
<1>2. DOMAIN duck = Times(R) /\ \A t \in Times(R) : duck[t] = Flow(At(R, t))
  BY <1>1 DEF DuckFlows
<1>3. /\ DOMAIN minutes = {Minute(t) : t \in Times(R)}
      /\ \A m \in DOMAIN minutes : minutes[m] = Flow(Within(R, m))
  BY <1>1 DEF PolarsFlows, Minutes
<1>4. PICK one : one = [r \in R |-> 1]
  OBVIOUS
<1>5. \A X \in SUBSET R : Flow(X).n = Sum(one, X) /\ Flow(X).ofi = Sum(Flows(R), X)
  <2> TAKE X \in SUBSET R
  <2>1. IsFiniteSet(X) /\ \A r \in X : one[r] = 1
    BY <1>4, FS_Subset DEF Measured
  <2>2. Sum(one, X) = Cardinality(X)
    BY <2>1, SumOfOnes
  <2> QED
    BY <2>2, AggregatesAreSums
<1>6. \A t \in Times(R) : duck[t].ofi = Sum(Flows(R), At(R, t)) /\ duck[t].n = Sum(one, At(R, t))
  BY <1>2, <1>5, Parts
<1>7. \A m \in DOMAIN minutes : /\ minutes[m].ofi = Sum(Flows(R), Within(R, m))
                                /\ minutes[m].n = Sum(one, Within(R, m))
  BY <1>3, <1>5, Parts
<1>8. /\ IsFiniteSet(R) /\ R \in SUBSET R
      /\ \A r \in R : Flows(R)[r] \in Int /\ one[r] \in Int
  BY <1>4 DEF Measured, Flows
<1>9. OfiAddUp(duck, minutes)
  BY <1>2, <1>3, <1>6, <1>7, <1>8, OfiAddsUp
<1>10. NAddUp(duck, minutes)
  BY <1>2, <1>3, <1>6, <1>7, <1>8, NAddsUp
<1> QED
  BY <1>1, <1>9, <1>10

------------------------------------------------------------------------------
(* Q2.                                                                      *)

LEMMA DisjointUnion ==
  ASSUME NEW U, NEW X, NEW Y, IsFiniteSet(X), IsFiniteSet(Y), U = X \cup Y, X \cap Y = {}
  PROVE  Cardinality(U) = Cardinality(X) + Cardinality(Y) - Cardinality({})
<1>1. Cardinality(X \cup Y) = Cardinality(X) + Cardinality(Y) - Cardinality(X \cap Y)
  BY FS_Union
<1> QED
  BY <1>1

(* Whatever two choices Q2 makes among equals, they list as many of each    *)
(* total: the symbols that only one of them lists all have the total of     *)
(* those that only the other one lists.                                     *)
LEMMA TopsAgree ==
  ASSUME NEW all, IsFiniteSet(DOMAIN all), \A s \in DOMAIN all : all[s].total \in Int,
         NEW a \in Top(all), NEW b \in Top(all)
  PROVE  SameTop(a, b)
<1> DEFINE size == Min({TopN, Cardinality(DOMAIN all)})
           IsTop(T) == \A s \in T, t \in DOMAIN all \ T : all[s].total >= all[t].total
<1>1. PICK A \in SUBSET DOMAIN all : Cardinality(A) = size /\ IsTop(A) /\ a = [s \in A |-> all[s]]
  BY DEF Top, kSubset
<1>2. PICK B \in SUBSET DOMAIN all : Cardinality(B) = size /\ IsTop(B) /\ b = [s \in B |-> all[s]]
  BY DEF Top, kSubset
<1> HIDE DEF size
<1>3. IsFiniteSet(A) /\ IsFiniteSet(B)
  BY FS_Subset
<1>4. /\ IsFiniteSet(A \ B) /\ Cardinality(A \ B) \in Nat
      /\ IsFiniteSet(B \ A) /\ Cardinality(B \ A) = Cardinality(A \ B)
  <2>1. Cardinality(A \ B) = Cardinality(A) - Cardinality(A \cap B)
    BY <1>3, FS_Difference
  <2>2. Cardinality(B \ A) = Cardinality(B) - Cardinality(B \cap A)
    BY <1>3, FS_Difference
  <2>3. A \cap B = B \cap A
    OBVIOUS
  <2>4. IsFiniteSet(A \ B) /\ IsFiniteSet(B \ A)
    BY <1>3, FS_Difference
  <2>5. Cardinality(B \ A) = Cardinality(A \ B)
    BY <1>1, <1>2, <2>1, <2>2, <2>3, Zenon
  <2> QED
    BY <2>4, <2>5, FS_CardinalityType
<1>5. \A s \in A \ B, t \in B \ A : all[s].total = all[t].total
  <2> TAKE s \in A \ B, t \in B \ A
  <2>1. all[s].total >= all[t].total /\ all[t].total >= all[s].total
    BY <1>1, <1>2
  <2>2. all[s].total \in Int /\ all[t].total \in Int
    OBVIOUS
  <2> QED
    BY <2>1, <2>2
<1> DEFINE With(T, t) == {s \in T : all[s].total = t}
<1>6. ASSUME NEW t PROVE Cardinality(With(A, t)) = Cardinality(With(B, t))
  <2>1. /\ With(A, t) = With(A \cap B, t) \cup With(A \ B, t)
        /\ With(A \cap B, t) \cap With(A \ B, t) = {}
        /\ With(B, t) = With(A \cap B, t) \cup With(B \ A, t)
        /\ With(A \cap B, t) \cap With(B \ A, t) = {}
    OBVIOUS
  <2>2. /\ With(A \cap B, t) \in SUBSET A /\ With(A \ B, t) \in SUBSET (A \ B)
        /\ With(B \ A, t) \in SUBSET (B \ A)
    OBVIOUS
  <2>3. /\ IsFiniteSet(With(A \cap B, t))
        /\ IsFiniteSet(With(A \ B, t)) /\ IsFiniteSet(With(B \ A, t))
    BY <1>3, <1>4, <2>2, FS_Subset
  <2>4. Cardinality(With(A \ B, t)) = Cardinality(With(B \ A, t))
    <3>1. CASE A \ B = {} \/ B \ A = {}
      <4>1. A \ B = {} /\ B \ A = {}
        BY <1>4, <3>1, FS_EmptySet
      <4>2. With(A \ B, t) = {} /\ With(B \ A, t) = {}
        BY <4>1
      <4> QED
        BY <4>2, Zenon
    <3>2. CASE \E s \in A \ B, u \in B \ A : all[s].total = t \/ all[u].total = t
      <4>1. With(A \ B, t) = A \ B /\ With(B \ A, t) = B \ A
        BY <1>5, <3>2
      <4> QED
        BY <1>4, <4>1, Zenon
    <3>3. CASE ~(\E s \in A \ B, u \in B \ A : all[s].total = t \/ all[u].total = t)
               /\ A \ B # {} /\ B \ A # {}
      <4>1. With(A \ B, t) = {} /\ With(B \ A, t) = {}
        BY <3>3
      <4> QED
        BY <4>1, Zenon
    <3> QED
      BY <3>1, <3>2, <3>3
  <2> HIDE DEF With
  <2>5. PICK W, U, P, Q, R :
          /\ W = With(A \cap B, t)
          /\ U = With(A, t) /\ P = With(A \ B, t)
          /\ Q = With(B, t) /\ R = With(B \ A, t)
    BY Zenon
  <2>6. /\ IsFiniteSet(W) /\ IsFiniteSet(P) /\ IsFiniteSet(R) /\ Cardinality(P) = Cardinality(R)
        /\ U = W \cup P /\ W \cap P = {} /\ Q = W \cup R /\ W \cap R = {}
    BY <2>1, <2>3, <2>4, <2>5, Zenon
  <2>7. Cardinality(U) = Cardinality(W) + Cardinality(P) - Cardinality({})
    BY <2>6, DisjointUnion
  <2>8. Cardinality(Q) = Cardinality(W) + Cardinality(R) - Cardinality({})
    BY <2>6, DisjointUnion
  <2> QED
    BY <2>5, <2>6, <2>7, <2>8, Zenon
<1>7. \A s \in DOMAIN a \cap DOMAIN b : a[s] = b[s]
  BY <1>1, <1>2
<1>8. ASSUME NEW t
      PROVE  Cardinality({s \in DOMAIN a : a[s].total = t}) =
               Cardinality({s \in DOMAIN b : b[s].total = t})
  <2>1. /\ {s \in DOMAIN a : a[s].total = t} = With(A, t)
        /\ {s \in DOMAIN b : b[s].total = t} = With(B, t)
    BY <1>1, <1>2
  <2> HIDE DEF With
  <2> QED
    BY <1>6, <2>1, Zenon
<1> QED
  BY <1>7, <1>8 DEF SameTop

------------------------------------------------------------------------------
(* The rows of a reader are finitely many: each is of a write that was      *)
(* begun, and has a key of its call.                                        *)
LEMMA ReadRowsMeasured == ReadersInv => Measured(job.rows)
<1> SUFFICES ASSUME ReadersInv PROVE Measured(job.rows)
  OBVIOUS
<1>1. PICK R : R = job.rows
  OBVIOUS
<1>2. StorageTypeOK /\ R \subseteq ReadRows
  BY <1>1 DEF ReadersInv, StorageInv, JobInv, Jobs
<1>3. /\ Writer \in Nat /\ DOMAIN log = 1 .. Writer
      /\ \A w \in DOMAIN log : log[w].call \in Calls
  BY <1>2, WriterType
<1>4. \A r \in R : r.write \in DOMAIN log /\ r.key \in log[r.write].call.keys
  BY <1>1 DEF ReadersInv, JobInv
<1>5. IsFiniteSet(R)
  <2> DEFINE keys == [w \in DOMAIN log |-> log[w].call.keys]
             K == {keys[w] : w \in DOMAIN log}
             id == [r \in R |-> <<r.key, r.write>>]
  <2>1. IsFiniteSet(DOMAIN log)
    BY <1>3, FS_Interval
  <2>2. keys \in Surjection(DOMAIN log, K)
    BY DEF Surjection
  <2>3. \A X \in K : IsFiniteSet(X)
    BY <1>3, StorageAssumption
  <2>4. IsFiniteSet(K)
    BY <2>1, <2>2, FS_Surjection
  <2>5. IsFiniteSet(UNION K)
    BY <2>3, <2>4, FS_UNION
  <2>6. IsFiniteSet((UNION K) \X DOMAIN log)
    BY <2>1, <2>5, FS_Product
  <2>7. id \in [R -> (UNION K) \X DOMAIN log]
    BY <1>4
  <2>8. \A r, q \in R : id[r] = id[q] => r = q
    BY <1>2 DEF ReadRows
  <2>9. id \in Injection(R, (UNION K) \X DOMAIN log)
    BY <2>7, <2>8 DEF Injection, IsInjective
  <2> QED
    BY <2>6, <2>9, FS_Injection
<1>6. ASSUME NEW r \in R
      PROVE  /\ r.key.ts \in Nat /\ r.key.vwap \in Nat \cup {Null}
             /\ r.key.count \in Nat /\ r.key.ofi \in Int
  <2>1. PICK c \in Calls : r.key \in c.keys
    BY <1>3, <1>4
  <2> QED
    BY <2>1, StorageAssumption, QueriesAssumption
<1> QED
  BY <1>1, <1>5, <1>6 DEF Measured

(* So are the rows that a query filters.                                    *)
LEMMA PartsMeasured ==
  ASSUME NEW rows, Measured(rows)
  PROVE  \A s, cutoff : /\ Measured(Of(rows, s))
                        /\ Measured(Since(Of(rows, s), cutoff))
                        /\ Measured(Since(rows, cutoff))
<1>1. ASSUME NEW X \in SUBSET rows PROVE Measured(X)
  BY FS_Subset DEF Measured
<1>2. \A s, cutoff : Of(rows, s) \in SUBSET rows /\ Since(Of(rows, s), cutoff) \in SUBSET rows
                     /\ Since(rows, cutoff) \in SUBSET rows
  BY DEF Of, Since
<1> QED
  BY <1>1, <1>2

(* Two answers to Q2, of whichever engine, list symbols of the same totals. *)
LEMMA Q2SameTop ==
  ASSUME NEW rows, Measured(rows), NEW cutoff,
         NEW a \in DuckQ2(rows, cutoff), NEW b \in PolarsQ2(rows, cutoff)
  PROVE  SameTop(a, b)
<1>1. PICK R : R = Since(rows, cutoff)
  OBVIOUS
<1>2. PICK all : all = [s \in {Symbol(r) : r \in R} |-> Volume({r \in R : Symbol(r) = s})]
  OBVIOUS
<1>3. a \in Top(all) /\ b \in Top(all)
  BY <1>1, <1>2 DEF DuckQ2, PolarsQ2, GroupBy
<1>4. Measured(R)
  BY <1>1, PartsMeasured
<1>5. IsFiniteSet(DOMAIN all)
  <2> DEFINE f == [r \in R |-> Symbol(r)]
  <2>1. f \in Surjection(R, DOMAIN all)
    BY <1>2 DEF Surjection
  <2> QED
    BY <1>4, <2>1, FS_Surjection DEF Measured
<1>6. ASSUME NEW s \in DOMAIN all PROVE all[s].total \in Int
  <2>1. PICK X \in SUBSET R : X = {r \in R : Symbol(r) = s}
    OBVIOUS
  <2>2. all[s].total = MapThenSumSet(Count, X)
    BY <1>2, <2>1 DEF Volume
  <2>3. MapThenSumSet(Count, X) = Sum(Counts(R), X)
    BY <1>4, AggregatesAreSums
  <2>4. IsFiniteSet(X) /\ \A r \in X : Counts(R)[r] \in Nat
    BY <1>4, FS_Subset DEF Measured, Counts
  <2>5. Sum(Counts(R), X) \in Nat
    BY <2>4, SumOfNaturals
  <2> QED
    BY <2>2, <2>3, <2>5
<1> QED
  BY <1>3, <1>5, <1>6, TopsAgree

(* The parts of EnginesDifferInBuckets, one query at a time.                *)
LEMMA MeasuredEnginesDiffer ==
  ASSUME NEW rows, Measured(rows), rows = job.rows
  PROVE  EnginesDifferInBuckets
<1>1. ASSUME NEW cutoff
      PROVE  \A a \in DuckQ2(rows, cutoff), b \in PolarsQ2(rows, cutoff) : SameTop(a, b)
  BY Q2SameTop
<1>2. ASSUME NEW cutoff, NEW s
      PROVE  /\ VwapsAddUp(DuckQ1(rows, s, cutoff), PolarsQ1(rows, s, cutoff))
             /\ OfAddUp(DuckQ1(rows, s, cutoff), PolarsQ1(rows, s, cutoff))
             /\ OfiAddUp(DuckQ5(rows, s, cutoff), PolarsQ5(rows, s, cutoff))
             /\ NAddUp(DuckQ5(rows, s, cutoff), PolarsQ5(rows, s, cutoff))
  <2>1. PICK R : R = Since(Of(rows, s), cutoff) /\ Measured(R)
    BY PartsMeasured
  <2>2. /\ DuckQ1(rows, s, cutoff) = DuckVwaps(R) /\ DuckQ5(rows, s, cutoff) = DuckFlows(R)
        /\ PolarsQ1(rows, s, cutoff) = PolarsVwaps(R) /\ PolarsQ5(rows, s, cutoff) = PolarsFlows(R)
    BY <2>1, AnswersByTime, AnswersByMinute
  <2> QED
    BY <2>1, <2>2, Q1AddsUp, Q5AddsUp
<1>3. ASSUME NEW s, NEW answers \in {DataFusionQ1(rows, s), RustPolarsQ1(rows, s)}
      PROVE  /\ VwapsAddUp(DuckQ1(rows, s, 0), answers)
             /\ OfAddUp(DuckQ1(rows, s, 0), answers)
  <2>1. PICK R : R = Of(rows, s) /\ Measured(R)
    BY PartsMeasured
  <2>2. Since(R, 0) = R
    BY <2>1 DEF Since, Measured
  <2>3. DuckQ1(rows, s, 0) = DuckVwaps(R)
    BY <2>1, <2>2, AnswersByTime
  <2>4. answers \in {SqlVwaps(R), PolarsVwaps(R)}
    BY <2>1, AnswersByMinute
  <2> QED
    BY <2>1, <2>3, <2>4, Q1AddsUp
<1> QED
  BY <1>1, <1>2, <1>3 DEF EnginesDifferInBuckets, VwapsAddUp, OfAddUp, OfiAddUp, NAddUp

(* The engines differ in nothing but the buckets of Q1 and Q5, the NULL of  *)
(* a bucket without a price and the choice between symbols of equal totals: *)
(* whatever was written and read (query.py:37-182, datafusion_engine.rs:    *)
(* 35-45, polars_engine.rs:25-37).                                          *)
THEOREM EnginesDifferInBucketsCorrect == ReadersSpec => []EnginesDifferInBuckets
<1>1. ReadersInv => EnginesDifferInBuckets
  BY ReadRowsMeasured, MeasuredEnginesDiffer
<1> QED
  BY <1>1, ReadersInvariance, PTL

------------------------------------------------------------------------------
(* Why the tests see no difference.                                         *)

OncePerMinute(R) ==
  \A q, r \in R : Minute(q.key.ts) = Minute(r.key.ts) => q.key.ts = r.key.ts

AgreeSince(rows, s, cutoff) ==
  OncePerMinute(Since(Of(rows, s), cutoff)) =>
    \A r \in Since(Of(rows, s), cutoff) :
      /\ DuckQ5(rows, s, cutoff)[r.key.ts] = PolarsQ5(rows, s, cutoff)[Minute(r.key.ts)]
      /\ DuckQ1(rows, s, cutoff)[r.key.ts].of = PolarsQ1(rows, s, cutoff)[Minute(r.key.ts)].of
      /\ r.key.vwap # Null =>
           DuckQ1(rows, s, cutoff)[r.key.ts] = PolarsQ1(rows, s, cutoff)[Minute(r.key.ts)]

AgreeWithDataFusion(rows, s) ==
  OncePerMinute(Of(rows, s)) =>
    \A r \in Of(rows, s) :
      DuckQ1(rows, s, 0)[r.key.ts] = DataFusionQ1(rows, s)[Minute(r.key.ts)]

(* Where a symbol has one time in each minute, as the rows of test_query.py *)
(* have (lines 23-40), its buckets are the same but for their name and for  *)
(* the NULL of a bucket without a price.                                    *)
EnginesAgreeOncePerMinute ==
  reader.pc = "done" =>
    \A s \in {Symbol(r) : r \in job.rows} :
      /\ \A cutoff \in Cutoffs : AgreeSince(job.rows, s, cutoff)
      /\ AgreeWithDataFusion(job.rows, s)

(* With one time in each minute, the bucket of a time has the rows of the   *)
(* bucket of its minute.                                                    *)
LEMMA SameBuckets ==
  ASSUME NEW R, OncePerMinute(R), NEW r \in R
  PROVE  /\ DuckFlows(R)[r.key.ts] = PolarsFlows(R)[Minute(r.key.ts)]
         /\ DuckVwaps(R)[r.key.ts] = SqlVwaps(R)[Minute(r.key.ts)]
         /\ DuckVwaps(R)[r.key.ts].of = PolarsVwaps(R)[Minute(r.key.ts)].of
         /\ r.key.vwap # Null => DuckVwaps(R)[r.key.ts] = PolarsVwaps(R)[Minute(r.key.ts)]
<1>1. PICK t, m, X : t = r.key.ts /\ m = Minute(t) /\ X = At(R, t)
  OBVIOUS
<1>2. t \in Times(R) /\ m \in Minutes(R)
  BY <1>1 DEF Times, Minutes
<1>3. Within(R, m) = X
  BY <1>1 DEF Within, At, OncePerMinute
<1>4. r.key.vwap # Null => Priced(X) # {}
  BY <1>1 DEF At, Priced
<1>5. /\ DuckFlows(R)[t] = Flow(X) /\ PolarsFlows(R)[m] = Flow(X)
      /\ DuckVwaps(R)[t] = SqlVwap(X) /\ SqlVwaps(R)[m] = SqlVwap(X)
      /\ PolarsVwaps(R)[m] = PolarsVwap(X)
  BY <1>1, <1>2, <1>3 DEF DuckFlows, PolarsFlows, DuckVwaps, SqlVwaps, PolarsVwaps
<1>6. /\ SqlVwap(X).of = PolarsVwap(X).of
      /\ Priced(X) # {} => SqlVwap(X) = PolarsVwap(X)
  BY DEF SqlVwap, PolarsVwap
<1> QED
  BY <1>1, <1>4, <1>5, <1>6

(* On rows of one time a minute the answers of the tests are equal for      *)
(* every input, not only for theirs (query.py:37-182, test_query.py:23-40). *)
THEOREM EnginesAgreeCorrect == ReadersSpec => []EnginesAgreeOncePerMinute
<1>1. ReadersInv => EnginesAgreeOncePerMinute
  <2> SUFFICES ASSUME ReadersInv, NEW s
               PROVE  /\ \A cutoff : AgreeSince(job.rows, s, cutoff)
                      /\ AgreeWithDataFusion(job.rows, s)
    BY DEF EnginesAgreeOncePerMinute
  <2>1. PICK rows : rows = job.rows /\ Measured(rows)
    BY ReadRowsMeasured
  <2>2. ASSUME NEW cutoff PROVE AgreeSince(rows, s, cutoff)
    BY SameBuckets, AnswersByTime, AnswersByMinute DEF AgreeSince
  <2>3. AgreeWithDataFusion(rows, s)
    <3>1. Since(Of(rows, s), 0) = Of(rows, s)
      BY <2>1 DEF Since, Of, Measured
    <3> QED
      BY <3>1, SameBuckets, AnswersByTime, AnswersByMinute DEF AgreeWithDataFusion
  <2> QED
    BY <2>1, <2>2, <2>3
<1> QED
  BY <1>1, ReadersInvariance, PTL
==============================================================================
