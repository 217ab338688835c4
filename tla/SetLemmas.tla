------------------------------ MODULE SetLemmas ------------------------------
(***************************************************************************)
(* What the proofs about the data use of finite sets: smallest and largest *)
(* elements, images, and the sums and products of the community module     *)
(* Functions.                                                              *)
(*                                                                         *)
(* These are facts that one would prove by induction over a set.  Here it  *)
(* is a smallest counterexample that leads to a contradiction: strict      *)
(* inclusion of finite sets is well-founded, so that among the sets for    *)
(* which a fact fails there would be one that contains no other.           *)
(***************************************************************************)
EXTENDS Integers, FiniteSets, FiniteSetsExt, Functions, FiniteSetTheorems, WellFoundedInduction,
        TLAPS

\* Among finite sets, as long as there is one, there is one that contains no other.
LEMMA SmallestOf ==
    ASSUME NEW Bad, Bad # {}, \A T \in Bad : IsFiniteSet(T)
    PROVE  \E T \in Bad : \A U \in Bad : U \subseteq T => U = T
<1> DEFINE All == UNION Bad
<1>1. Bad \subseteq FiniteSubsetsOf(All)
  BY DEF FiniteSubsetsOf
<1>2. PICK T \in Bad : \A U \in Bad : <<U, T>> \notin StrictSubsetOrdering(All)
  BY <1>1, FS_StrictSubsetOrderingWellFounded, WFMin
<1>3. ASSUME NEW U \in Bad, U \subseteq T, U # T PROVE FALSE
  <2>1. U \in SUBSET All /\ T \in SUBSET All
    OBVIOUS
  <2>2. <<U, T>> \in StrictSubsetOrdering(All)
    BY <1>3, <2>1, Zenon DEF StrictSubsetOrdering
  <2> QED
    BY <1>2, <2>2
<1> QED
  BY <1>3

\* A set of natural numbers that is not empty has a least element.
LEMMA LeastOf == ASSUME NEW T \in SUBSET Nat, T # {} PROVE \E x \in T : \A y \in T : x <= y
<1> DEFINE Below == { 0 .. x : x \in T }
<1>1. Below # {} /\ \A b \in Below : IsFiniteSet(b)
  <2>1. ASSUME NEW x \in T PROVE IsFiniteSet(0 .. x)
    BY FS_Interval
  <2> QED
    BY <2>1
<1>2. PICK low \in Below : \A b \in Below : b \subseteq low => b = low
  <2> HIDE DEF Below
  <2> QED
    BY <1>1, SmallestOf
<1>3. PICK x \in T : low = 0 .. x
  OBVIOUS
<1>4. ASSUME NEW y \in T, y < x PROVE FALSE
  <2>1. 0 .. y \subseteq 0 .. x /\ 0 .. y \in Below
    BY <1>4
  <2>2. x \in 0 .. x /\ x \notin 0 .. y
    BY <1>4
  <2> QED
    BY <1>2, <1>3, <2>1, <2>2
<1> QED
  BY <1>4

LEMMA MinOf ==
    ASSUME NEW T \in SUBSET Nat, T # {}
    PROVE  Min(T) \in T /\ \A y \in T : Min(T) <= y
  BY LeastOf DEF Min

\* A set of natural numbers with a bound has a last one.
LEMMA MaxOf ==
    ASSUME NEW n \in Nat, NEW T \in SUBSET (0 .. n), T # {}
    PROVE  Max(T) \in T /\ \A y \in T : y <= Max(T)
<1> DEFINE Distances == { n - x : x \in T }
<1>1. Distances \in SUBSET Nat /\ Distances # {}
  <2>1. ASSUME NEW x \in T PROVE n - x \in Nat
    OBVIOUS
  <2> QED
    BY <2>1
<1>2. PICK low \in Distances : \A d \in Distances : low <= d
  BY <1>1, LeastOf
<1>3. PICK x \in T : low = n - x
  OBVIOUS
<1>4. ASSUME NEW y \in T PROVE x >= y
  <2>1. n - y \in Distances
    OBVIOUS
  <2>2. n - x <= n - y
    BY <1>2, <1>3, <2>1
  <2> QED
    BY <2>2
<1>5. Max(T) \in T /\ \A y \in T : Max(T) >= y
  BY <1>4 DEF Max
<1> QED
  BY <1>5

\* As more values are admitted, there are more of them.
LEMMA CountGrows ==
    ASSUME NEW S, IsFiniteSet(S), NEW T \in SUBSET S
    PROVE  Cardinality(T) \in Nat /\ Cardinality(T) <= Cardinality(S) /\ IsFiniteSet(T)
  BY FS_Subset, FS_CardinalityType

\* The image of a finite set is finite, and not larger; if nothing is confounded it
\* is as large.
LEMMA Image ==
    ASSUME NEW S, IsFiniteSet(S), NEW T, NEW f \in [S -> T], \A t \in T : \E x \in S : f[x] = t
    PROVE  /\ IsFiniteSet(T) /\ Cardinality(T) <= Cardinality(S)
           /\ (\A x, y \in S : f[x] = f[y] => x = y) => Cardinality(T) = Cardinality(S)
<1>1. f \in Surjection(S, T)
  BY DEF Surjection
<1>2. IsFiniteSet(T) /\ Cardinality(T) <= Cardinality(S)
  BY <1>1, FS_Surjection
<1>3. ASSUME \A x, y \in S : f[x] = f[y] => x = y PROVE Cardinality(T) = Cardinality(S)
  <2>1. f \in Injection(S, T)
    BY <1>3 DEF Injection, IsInjective
  <2> QED
    BY <1>1, <2>1, FS_Surjection
<1> QED
  BY <1>2, <1>3

-----------------------------------------------------------------------------
(* Folds *)


Pick(s) == CHOOSE x \in s : TRUE

\* g folds w over the subsets of S, from base, by step.
Folds(g, step, base, w, S) ==
    g = [s \in SUBSET S |-> IF s = {} THEN base ELSE step[<<w[Pick(s)], g[s \ {Pick(s)}]>>]]

LEMMA PickIn == ASSUME NEW s, s # {} PROVE Pick(s) \in s
  BY DEF Pick

\* A fold over a set says what a fold over a subset is.
LEMMA FoldsAgree ==
    ASSUME NEW g, NEW h, NEW step, NEW base, NEW w, NEW v, NEW S, NEW T,
           Folds(g, step, base, w, S), Folds(h, step, base, v, T), IsFiniteSet(T), T \subseteq S,
           \A x \in T : v[x] = w[x]
    PROVE  g[T] = h[T]
<1> DEFINE Bad == { s \in SUBSET T : g[s] # h[s] }
<1> SUFFICES ASSUME Bad # {} PROVE FALSE
  OBVIOUS
<1>1. \A s \in Bad : IsFiniteSet(s)
  BY FS_Subset
<1>2. PICK s \in Bad : \A u \in Bad : u \subseteq s => u = s
  <2> HIDE DEF Bad
  <2> QED
    BY <1>1, SmallestOf
<1>3. s \in SUBSET T /\ s \in SUBSET S /\ g[s] # h[s]
  OBVIOUS
<1>4. g[s] = IF s = {} THEN base ELSE step[<<w[Pick(s)], g[s \ {Pick(s)}]>>]
  BY <1>3 DEF Folds
<1>5. h[s] = IF s = {} THEN base ELSE step[<<v[Pick(s)], h[s \ {Pick(s)}]>>]
  BY <1>3 DEF Folds
<1>6. CASE s = {}
  BY <1>3, <1>4, <1>5, <1>6
<1>7. CASE s # {}
  <2>1. Pick(s) \in s
    BY <1>7, PickIn
  <2>2. s \ {Pick(s)} \notin Bad
    BY <1>2, <2>1
  <2>3. g[s \ {Pick(s)}] = h[s \ {Pick(s)}]
    BY <1>3, <2>2
  <2> QED
    BY <1>3, <1>4, <1>5, <1>7, <2>3
<1> QED
  BY <1>6, <1>7

\* There is a fold over every finite set.
LEMMA FoldsExist ==
    ASSUME NEW step, NEW base, NEW w, NEW S, IsFiniteSet(S)
    PROVE  \E g : Folds(g, step, base, w, S)
<1> DEFINE Bad == { s \in SUBSET S : ~\E g : Folds(g, step, base, w, s) }
<1> SUFFICES ASSUME Bad # {} PROVE FALSE
  OBVIOUS
<1>1. \A s \in Bad : IsFiniteSet(s)
  BY FS_Subset
<1>2. PICK T \in Bad : \A u \in Bad : u \subseteq T => u = T
  <2> HIDE DEF Bad
  <2> QED
    BY <1>1, SmallestOf
<1>3. T \in SUBSET S /\ IsFiniteSet(T)
  BY <1>1
<1> DEFINE Of(u) == (CHOOSE g : Folds(g, step, base, w, u))[u]
           f == [s \in SUBSET T |-> IF s = {} THEN base
                                    ELSE step[<<w[Pick(s)], Of(s \ {Pick(s)})>>]]
<1>4. ASSUME NEW u \in SUBSET T, u # T
      PROVE  Folds(CHOOSE g : Folds(g, step, base, w, u), step, base, w, u)
  <2>1. u \notin Bad
    BY <1>2, <1>4
  <2> QED
    BY <1>3, <1>4, <2>1
<1>5. ASSUME NEW u \in SUBSET T, u # T PROVE f[u] = Of(u)
  <2> DEFINE g == CHOOSE g : Folds(g, step, base, w, u)
  <2>1. Folds(g, step, base, w, u)
    BY <1>4, <1>5
  <2> HIDE DEF g
  <2>2. g[u] = IF u = {} THEN base ELSE step[<<w[Pick(u)], g[u \ {Pick(u)}]>>]
    BY <2>1 DEF Folds
  <2>3. CASE u = {}
    BY <2>2, <2>3 DEF g
  <2>4. CASE u # {}
    <3> DEFINE v == u \ {Pick(u)}
               h == CHOOSE h : Folds(h, step, base, w, v)
    <3>1. v \in SUBSET T /\ v # T /\ v \subseteq u /\ IsFiniteSet(v)
      BY <1>3, <1>5, <2>4, PickIn, FS_Subset
    <3>2. Folds(h, step, base, w, v)
      BY <1>4, <3>1
    <3> HIDE DEF h
    <3>3. g[v] = h[v]
      BY <2>1, <3>1, <3>2, FoldsAgree
    <3>4. f[u] = step[<<w[Pick(u)], Of(v)>>]
      BY <2>4
    <3> QED
      BY <2>2, <2>4, <3>3, <3>4 DEF g, h
  <2> QED
    BY <2>3, <2>4
<1>6. Folds(f, step, base, w, T)
  <2>1. ASSUME NEW s \in SUBSET T, s # {} PROVE Of(s \ {Pick(s)}) = f[s \ {Pick(s)}]
    <3>1. s \ {Pick(s)} \in SUBSET T /\ s \ {Pick(s)} # T
      BY <2>1, PickIn
    <3> HIDE DEF f, Of
    <3> QED
      BY <1>5, <3>1
  <2>2. \A s \in SUBSET T :
          (IF s = {} THEN base ELSE step[<<w[Pick(s)], Of(s \ {Pick(s)})>>])
            = IF s = {} THEN base ELSE step[<<w[Pick(s)], f[s \ {Pick(s)}]>>]
    <3> HIDE DEF f, Of
    <3> QED
      BY <2>1
  <2>3. f = [s \in SUBSET T |-> IF s = {} THEN base
                                 ELSE step[<<w[Pick(s)], f[s \ {Pick(s)}]>>]]
    <3> HIDE DEF Of
    <3>1. f = [s \in SUBSET T |-> IF s = {} THEN base
                                   ELSE step[<<w[Pick(s)], Of(s \ {Pick(s)})>>]]
      OBVIOUS
    <3> HIDE DEF f
    <3> QED
      BY <2>2, <3>1
  <2> QED
    BY <2>3 DEF Folds
<1> QED
  BY <1>6

\* A step in whose repetition the order does not matter.
Exchanges(step) ==
    /\ step \in [Nat \X Nat -> Nat]
    /\ \A x, y, z \in Nat : step[<<x, step[<<y, z>>]>>] = step[<<y, step[<<x, z>>]>>]

LEMMA FoldsTyped ==
    ASSUME NEW g, NEW step, NEW base \in Nat, NEW S, NEW w, \A x \in S : w[x] \in Nat,
           Folds(g, step, base, w, S), IsFiniteSet(S), Exchanges(step)
    PROVE  g \in [SUBSET S -> Nat]
<1> DEFINE Bad == { s \in SUBSET S : g[s] \notin Nat }
<1>1. Bad = {}
  <2> SUFFICES ASSUME Bad # {} PROVE FALSE
    OBVIOUS
  <2>1. \A s \in Bad : IsFiniteSet(s)
    BY FS_Subset
  <2>2. PICK s \in Bad : \A u \in Bad : u \subseteq s => u = s
    <3> HIDE DEF Bad
    <3> QED
      BY <2>1, SmallestOf
  <2>3. g[s] = IF s = {} THEN base ELSE step[<<w[Pick(s)], g[s \ {Pick(s)}]>>]
    BY DEF Folds
  <2>4. CASE s # {}
    <3>1. Pick(s) \in s
      BY <2>4, PickIn
    <3>2. g[s \ {Pick(s)}] \in Nat
      BY <2>2, <3>1
    <3>3. w[Pick(s)] \in Nat
      BY <3>1
    <3> QED
      BY <2>3, <2>4, <3>2, <3>3 DEF Exchanges
  <2> QED
    BY <2>3, <2>4
<1> QED
  BY <1>1 DEF Folds

\* Then any element may be the first.
LEMMA FoldsTakeAny ==
    ASSUME NEW g, NEW step, NEW base \in Nat, NEW S, NEW w, \A x \in S : w[x] \in Nat,
           Folds(g, step, base, w, S), IsFiniteSet(S), Exchanges(step), NEW a \in S
    PROVE  g[S] = step[<<w[a], g[S \ {a}]>>]
<1> DEFINE Bad == { s \in SUBSET S : \E b \in s : g[s] # step[<<w[b], g[s \ {b}]>>] }
<1>1. Bad = {}
  <2> SUFFICES ASSUME Bad # {} PROVE FALSE
    OBVIOUS
  <2>1. \A s \in Bad : IsFiniteSet(s)
    BY FS_Subset
  <2>2. PICK s \in Bad : \A u \in Bad : u \subseteq s => u = s
    <3> HIDE DEF Bad
    <3> QED
      BY <2>1, SmallestOf
  <2>3. PICK b \in s : g[s] # step[<<w[b], g[s \ {b}]>>]
    OBVIOUS
  <2> DEFINE x == Pick(s)
             rest == (s \ {x}) \ {b}
  <2>4. s \in SUBSET S /\ x \in s
    BY PickIn
  <2>5. g[s] = step[<<w[x], g[s \ {x}]>>]
    BY <2>4 DEF Folds
  <2>6. x # b
    BY <2>3, <2>5
  <2>7. s \ {x} \notin Bad /\ s \ {b} \notin Bad
    BY <2>2, <2>4
  <2>8. g[s \ {x}] = step[<<w[b], g[rest]>>]
    BY <2>4, <2>6, <2>7
  <2>9. g[s \ {b}] = step[<<w[x], g[(s \ {b}) \ {x}]>>]
    BY <2>4, <2>6, <2>7
  <2>10. (s \ {b}) \ {x} = rest /\ rest \in SUBSET S
    BY <2>4
  <2>11. w[x] \in Nat /\ w[b] \in Nat /\ g[rest] \in Nat
    <3>1. g \in [SUBSET S -> Nat]
      BY FoldsTyped
    <3>2. x \in S /\ b \in S
      BY <2>4
    <3> HIDE DEF x, rest
    <3> QED
      BY <2>10, <3>1, <3>2
  <2>12. g[s] = step[<<w[b], g[s \ {b}]>>]
    <3>1. step[<<w[x], step[<<w[b], g[rest]>>]>>] = step[<<w[b], step[<<w[x], g[rest]>>]>>]
      <4> HIDE DEF x, rest, Bad
      <4> QED
        BY <2>11 DEF Exchanges
    <3> QED
      BY <2>5, <2>8, <2>9, <2>10, <3>1
  <2> QED
    BY <2>3, <2>12
<1> QED
  BY <1>1

-----------------------------------------------------------------------------
Plus  == [p \in Nat \X Nat |-> p[1] + p[2]]
Times == [p \in Nat \X Nat |-> p[1] * p[2]]

LEMMA PlusExchanges == Exchanges(Plus)
<1>1. \A x, y \in Nat : Plus[<<x, y>>] = x + y /\ x + y \in Nat
  BY DEF Plus
<1>2. Plus \in [Nat \X Nat -> Nat]
  BY DEF Plus
<1> QED
  BY <1>1, <1>2 DEF Exchanges

LEMMA TimesExchanges == Exchanges(Times)
<1>1. \A x, y \in Nat : Times[<<x, y>>] = x * y /\ x * y \in Nat
  BY DEF Times
<1>2. Times \in [Nat \X Nat -> Nat]
  BY <1>1 DEF Times
<1>3. \A x, y, z \in Nat : x * (y * z) = y * (x * z)
  OBVIOUS
<1> QED
  BY <1>1, <1>2, <1>3 DEF Exchanges

Total(w, S) == SumFunctionOnSet(w, S)

LEMMA TotalIsFold ==
    ASSUME NEW S, NEW w, \A x \in S : w[x] \in Nat, IsFiniteSet(S)
    PROVE  \E g : Folds(g, Plus, 0, w, S) /\ Total(w, S) = g[S]
<1> DEFINE Eq(g) == g = [s \in SUBSET S |-> IF s = {} THEN 0 ELSE w[Pick(s)] + g[s \ {Pick(s)}]]
<1>1. PICK f : Folds(f, Plus, 0, w, S)
  BY FoldsExist
<1>2. f \in [SUBSET S -> Nat]
  BY <1>1, FoldsTyped, PlusExchanges
<1>3. Eq(f)
  <2>1. ASSUME NEW s \in SUBSET S, s # {} PROVE f[s] = w[Pick(s)] + f[s \ {Pick(s)}]
    <3>1. w[Pick(s)] \in Nat /\ f[s \ {Pick(s)}] \in Nat
      BY <1>2, <2>1, PickIn
    <3> QED
      BY <1>1, <2>1, <3>1 DEF Folds, Plus
  <2>2. f[{}] = 0
    BY <1>1 DEF Folds
  <2> QED
    BY <1>2, <2>1, <2>2
<1> DEFINE g == CHOOSE g : Eq(g)
<1>4. Eq(g)
  BY <1>3
<1>5. Total(w, S) = g[S]
  BY DEF Total, SumFunctionOnSet, FoldFunctionOnSet, MapThenFoldSet, Pick
<1> HIDE DEF g
<1>6. \A s \in SUBSET S : g[s] \in Nat
  <2> DEFINE Bad == { s \in SUBSET S : g[s] \notin Nat }
  <2> SUFFICES ASSUME Bad # {} PROVE FALSE
    OBVIOUS
  <2>1. \A s \in Bad : IsFiniteSet(s)
    BY FS_Subset
  <2>2. PICK s \in Bad : \A u \in Bad : u \subseteq s => u = s
    <3> HIDE DEF Bad
    <3> QED
      BY <2>1, SmallestOf
  <2>3. CASE s # {}
    <3>1. Pick(s) \in s
      BY <2>3, PickIn
    <3>2. g[s \ {Pick(s)}] \in Nat /\ w[Pick(s)] \in Nat
      BY <2>2, <3>1
    <3>3. g[s] = w[Pick(s)] + g[s \ {Pick(s)}]
      BY <1>4, <2>3
    <3> QED
      BY <3>2, <3>3
  <2>4. CASE s = {}
    BY <1>4, <2>4
  <2> QED
    BY <2>3, <2>4
<1>7. Folds(g, Plus, 0, w, S)
  <2>1. ASSUME NEW s \in SUBSET S, s # {}
        PROVE  w[Pick(s)] + g[s \ {Pick(s)}] = Plus[<<w[Pick(s)], g[s \ {Pick(s)}]>>]
    <3>1. w[Pick(s)] \in Nat /\ g[s \ {Pick(s)}] \in Nat
      BY <1>6, <2>1, PickIn
    <3> QED
      BY <3>1 DEF Plus
  <2> QED
    BY <1>4, <2>1 DEF Folds
<1> QED
  BY <1>5, <1>7

\* A total is that of all but one, and the one.
LEMMA TotalTakes ==
    ASSUME NEW S, NEW w, \A x \in S : w[x] \in Nat, IsFiniteSet(S)
    PROVE  /\ Total(w, S) \in Nat
           /\ S = {} => Total(w, S) = 0
           /\ \A a \in S : Total(w, S) = w[a] + Total(w, S \ {a})
<1>1. PICK g : Folds(g, Plus, 0, w, S) /\ Total(w, S) = g[S]
  BY TotalIsFold
<1>2. g \in [SUBSET S -> Nat]
  BY <1>1, FoldsTyped, PlusExchanges
<1>3. S = {} => g[S] = 0
  BY <1>1 DEF Folds
<1>4. ASSUME NEW a \in S PROVE g[S] = w[a] + Total(w, S \ {a})
  <2>1. IsFiniteSet(S \ {a}) /\ S \ {a} \subseteq S
    BY FS_Subset
  <2>2. PICK h : Folds(h, Plus, 0, w, S \ {a}) /\ Total(w, S \ {a}) = h[S \ {a}]
    BY <2>1, TotalIsFold
  <2>3. g[S \ {a}] = h[S \ {a}]
    BY <1>1, <2>1, <2>2, FoldsAgree
  <2>4. g[S] = Plus[<<w[a], g[S \ {a}]>>]
    BY <1>1, FoldsTakeAny, PlusExchanges
  <2>5. w[a] \in Nat /\ g[S \ {a}] \in Nat
    BY <1>2
  <2> QED
    BY <2>2, <2>3, <2>4, <2>5 DEF Plus
<1> QED
  BY <1>1, <1>2, <1>3, <1>4

\* Values elsewhere play no part.
LEMMA TotalSame ==
    ASSUME NEW S, NEW w, NEW v, \A x \in S : w[x] \in Nat /\ v[x] = w[x], IsFiniteSet(S)
    PROVE  Total(v, S) = Total(w, S)
<1>1. PICK g : Folds(g, Plus, 0, w, S) /\ Total(w, S) = g[S]
  BY TotalIsFold
<1>2. PICK h : Folds(h, Plus, 0, v, S) /\ Total(v, S) = h[S]
  BY TotalIsFold
<1> QED
  BY <1>1, <1>2, FoldsAgree

Multiplied(w, S) == FoldFunctionOnSet(LAMBDA x, y : x * y, 1, w, S)

LEMMA MultipliedIsFold ==
    ASSUME NEW S, NEW w, \A x \in S : w[x] \in Nat, IsFiniteSet(S)
    PROVE  \E g : Folds(g, Times, 1, w, S) /\ Multiplied(w, S) = g[S]
<1> DEFINE Eq(g) == g = [s \in SUBSET S |-> IF s = {} THEN 1 ELSE w[Pick(s)] * g[s \ {Pick(s)}]]
<1>1. PICK f : Folds(f, Times, 1, w, S)
  BY FoldsExist
<1>2. f \in [SUBSET S -> Nat]
  BY <1>1, FoldsTyped, TimesExchanges
<1>3. Eq(f)
  <2>1. ASSUME NEW s \in SUBSET S, s # {} PROVE f[s] = w[Pick(s)] * f[s \ {Pick(s)}]
    <3>1. w[Pick(s)] \in Nat /\ f[s \ {Pick(s)}] \in Nat
      BY <1>2, <2>1, PickIn
    <3> QED
      BY <1>1, <2>1, <3>1 DEF Folds, Times
  <2>2. f[{}] = 1
    BY <1>1 DEF Folds
  <2> QED
    BY <1>2, <2>1, <2>2
<1> DEFINE g == CHOOSE g : Eq(g)
<1>4. Eq(g)
  BY <1>3
<1>5. Multiplied(w, S) = g[S]
  BY DEF Multiplied, FoldFunctionOnSet, MapThenFoldSet, Pick
<1> HIDE DEF g
<1>6. \A s \in SUBSET S : g[s] \in Nat
  <2> DEFINE Bad == { s \in SUBSET S : g[s] \notin Nat }
  <2> SUFFICES ASSUME Bad # {} PROVE FALSE
    OBVIOUS
  <2>1. \A s \in Bad : IsFiniteSet(s)
    BY FS_Subset
  <2>2. PICK s \in Bad : \A u \in Bad : u \subseteq s => u = s
    <3> HIDE DEF Bad
    <3> QED
      BY <2>1, SmallestOf
  <2>3. CASE s # {}
    <3>1. Pick(s) \in s
      BY <2>3, PickIn
    <3>2. g[s \ {Pick(s)}] \in Nat /\ w[Pick(s)] \in Nat
      BY <2>2, <3>1
    <3>3. g[s] = w[Pick(s)] * g[s \ {Pick(s)}]
      BY <1>4, <2>3
    <3> QED
      BY <3>2, <3>3
  <2>4. CASE s = {}
    BY <1>4, <2>4
  <2> QED
    BY <2>3, <2>4
<1>7. Folds(g, Times, 1, w, S)
  <2>1. ASSUME NEW s \in SUBSET S, s # {}
        PROVE  w[Pick(s)] * g[s \ {Pick(s)}] = Times[<<w[Pick(s)], g[s \ {Pick(s)}]>>]
    <3>1. w[Pick(s)] \in Nat /\ g[s \ {Pick(s)}] \in Nat
      BY <1>6, <2>1, PickIn
    <3> QED
      BY <3>1 DEF Times
  <2> QED
    BY <1>4, <2>1 DEF Folds
<1> QED
  BY <1>5, <1>7

\* A product is that of all but one, times the one.
LEMMA MultipliedTakes ==
    ASSUME NEW S, NEW w, \A x \in S : w[x] \in Nat, IsFiniteSet(S)
    PROVE  /\ Multiplied(w, S) \in Nat
           /\ S = {} => Multiplied(w, S) = 1
           /\ \A a \in S : Multiplied(w, S) = w[a] * Multiplied(w, S \ {a})
<1>1. PICK g : Folds(g, Times, 1, w, S) /\ Multiplied(w, S) = g[S]
  BY MultipliedIsFold
<1>2. g \in [SUBSET S -> Nat]
  BY <1>1, FoldsTyped, TimesExchanges
<1>3. S = {} => g[S] = 1
  BY <1>1 DEF Folds
<1>4. ASSUME NEW a \in S PROVE g[S] = w[a] * Multiplied(w, S \ {a})
  <2>1. IsFiniteSet(S \ {a}) /\ S \ {a} \subseteq S
    BY FS_Subset
  <2>2. PICK h : Folds(h, Times, 1, w, S \ {a}) /\ Multiplied(w, S \ {a}) = h[S \ {a}]
    BY <2>1, MultipliedIsFold
  <2>3. g[S \ {a}] = h[S \ {a}]
    BY <1>1, <2>1, <2>2, FoldsAgree
  <2>4. g[S] = Times[<<w[a], g[S \ {a}]>>]
    BY <1>1, FoldsTakeAny, TimesExchanges
  <2>5. w[a] \in Nat /\ g[S \ {a}] \in Nat
    BY <1>2
  <2> QED
    BY <2>2, <2>3, <2>4, <2>5 DEF Times
<1> QED
  BY <1>1, <1>2, <1>3, <1>4

LEMMA MultipliedSame ==
    ASSUME NEW S, NEW w, NEW v, \A x \in S : w[x] \in Nat /\ v[x] = w[x], IsFiniteSet(S)
    PROVE  Multiplied(v, S) = Multiplied(w, S)
<1>1. PICK g : Folds(g, Times, 1, w, S) /\ Multiplied(w, S) = g[S]
  BY MultipliedIsFold
<1>2. PICK h : Folds(h, Times, 1, v, S) /\ Multiplied(v, S) = h[S]
  BY MultipliedIsFold
<1> QED
  BY <1>1, <1>2, FoldsAgree

LEMMA MultipliedPositive ==
    ASSUME NEW S, NEW w, \A x \in S : w[x] \in Nat \ {0}, IsFiniteSet(S)
    PROVE  Multiplied(w, S) \in Nat \ {0}
<1> DEFINE Bad == { s \in SUBSET S : Multiplied(w, s) \notin Nat \ {0} }
<1> SUFFICES ASSUME Bad # {} PROVE FALSE
  OBVIOUS
<1>1. \A s \in Bad : IsFiniteSet(s)
  BY FS_Subset
<1>2. PICK s \in Bad : \A u \in Bad : u \subseteq s => u = s
  <2> HIDE DEF Bad
  <2> QED
    BY <1>1, SmallestOf
<1>3. /\ s = {} => Multiplied(w, s) = 1
      /\ \A a \in s : Multiplied(w, s) = w[a] * Multiplied(w, s \ {a})
  BY <1>1, MultipliedTakes
<1>4. PICK a \in s : TRUE
  BY <1>3
<1>5. Multiplied(w, s \ {a}) \in Nat \ {0}
  BY <1>2
<1>6. w[a] \in Nat \ {0}
  OBVIOUS
<1>7. \A m, n \in Nat \ {0} : m * n \in Nat \ {0}
  OBVIOUS
<1> QED
  BY <1>3, <1>5, <1>6, <1>7

\* Larger values have a larger total.
LEMMA TotalGrows ==
    ASSUME NEW S, IsFiniteSet(S), NEW v, NEW w,
           \A x \in S : v[x] \in Nat /\ w[x] \in Nat /\ v[x] <= w[x]
    PROVE  Total(v, S) <= Total(w, S)
<1> DEFINE Bad == { s \in SUBSET S : ~(Total(v, s) <= Total(w, s)) }
<1> SUFFICES ASSUME Bad # {} PROVE FALSE
  OBVIOUS
<1>1. \A s \in Bad : IsFiniteSet(s)
  BY FS_Subset
<1>2. PICK s \in Bad : \A u \in Bad : u \subseteq s => u = s
  <2> HIDE DEF Bad
  <2> QED
    BY <1>1, SmallestOf
<1>3. /\ IsFiniteSet(s)
      /\ \A x \in s : v[x] \in Nat /\ w[x] \in Nat /\ v[x] <= w[x]
  BY <1>1
<1>4. s # {}
  <2>1. s = {} => Total(v, s) = 0 /\ Total(w, s) = 0
    BY <1>3, TotalTakes
  <2> QED
    BY <2>1
<1>5. PICK a \in s : TRUE
  BY <1>4
<1>6. IsFiniteSet(s \ {a})
  BY <1>3, FS_Subset
<1>7. /\ Total(v, s) = v[a] + Total(v, s \ {a})
      /\ Total(w, s) = w[a] + Total(w, s \ {a})
  BY <1>3, TotalTakes
<1>8. Total(v, s \ {a}) \in Nat /\ Total(w, s \ {a}) \in Nat
  BY <1>3, <1>6, TotalTakes
<1>9. Total(v, s \ {a}) <= Total(w, s \ {a})
  BY <1>2
<1> QED
  BY <1>3, <1>7, <1>8, <1>9

\* A common factor may be taken out.
LEMMA TotalScales ==
    ASSUME NEW S, IsFiniteSet(S), NEW v, NEW w, NEW k \in Nat,
           \A x \in S : v[x] \in Nat /\ w[x] = k * v[x]
    PROVE  Total(w, S) = k * Total(v, S)
<1> DEFINE Bad == { s \in SUBSET S : Total(w, s) # k * Total(v, s) }
<1> SUFFICES ASSUME Bad # {} PROVE FALSE
  OBVIOUS
<1>1. \A s \in Bad : IsFiniteSet(s)
  BY FS_Subset
<1>2. PICK s \in Bad : \A u \in Bad : u \subseteq s => u = s
  <2> HIDE DEF Bad
  <2> QED
    BY <1>1, SmallestOf
<1>3. /\ IsFiniteSet(s)
      /\ \A x \in s : v[x] \in Nat /\ w[x] \in Nat /\ w[x] = k * v[x]
  BY <1>1
<1>4. s # {}
  <2>1. s = {} => Total(v, s) = 0 /\ Total(w, s) = 0
    BY <1>3, TotalTakes
  <2> QED
    BY <2>1
<1>5. PICK a \in s : TRUE
  BY <1>4
<1>6. IsFiniteSet(s \ {a})
  BY <1>3, FS_Subset
<1>7. /\ Total(v, s) = v[a] + Total(v, s \ {a})
      /\ Total(w, s) = w[a] + Total(w, s \ {a})
  BY <1>3, TotalTakes
<1>8. Total(v, s \ {a}) \in Nat /\ v[a] \in Nat
  BY <1>3, <1>6, TotalTakes
<1>9. Total(w, s \ {a}) = k * Total(v, s \ {a})
  BY <1>2
<1>10. \A x, y \in Nat : k * (x + y) = k * x + k * y
  OBVIOUS
<1>11. Total(w, s) = k * Total(v, s)
  BY <1>3, <1>7, <1>8, <1>9, <1>10
<1> QED
  BY <1>11

\* A weighted total lies between the weight times the least and times the greatest.
LEMMA WeightsAverage ==
    ASSUME NEW S, IsFiniteSet(S), NEW c, NEW w, NEW v, NEW low \in Nat, NEW high \in Nat,
           \A p \in S : /\ c[p] \in Nat /\ low <= c[p] /\ c[p] <= high
                        /\ w[p] \in Nat /\ v[p] = c[p] * w[p]
    PROVE  low * Total(w, S) <= Total(v, S) /\ Total(v, S) <= high * Total(w, S)
<1> DEFINE l == [p \in S |-> low * w[p]]
           h == [p \in S |-> high * w[p]]
<1>1. \A a, b, x \in Nat : a <= b => a * x <= b * x
  OBVIOUS
<1>2. \A a, x \in Nat : a * x \in Nat
  OBVIOUS
<1>3. ASSUME NEW p \in S
      PROVE  l[p] \in Nat /\ v[p] \in Nat /\ h[p] \in Nat /\ l[p] <= v[p] /\ v[p] <= h[p]
  <2>1. /\ c[p] \in Nat /\ w[p] \in Nat /\ low <= c[p] /\ c[p] <= high
        /\ v[p] = c[p] * w[p] /\ l[p] = low * w[p] /\ h[p] = high * w[p]
    OBVIOUS
  <2>2. low * w[p] <= c[p] * w[p] /\ c[p] * w[p] <= high * w[p]
    BY <1>1, <2>1
  <2>3. low * w[p] \in Nat /\ c[p] * w[p] \in Nat /\ high * w[p] \in Nat
    BY <1>2, <2>1
  <2> QED
    BY <2>1, <2>2, <2>3
<1>4. \A p \in S : w[p] \in Nat /\ l[p] = low * w[p] /\ h[p] = high * w[p]
  OBVIOUS
<1> HIDE DEF l, h
<1>5. Total(l, S) <= Total(v, S) /\ Total(v, S) <= Total(h, S)
  BY <1>3, TotalGrows
<1>6. Total(l, S) = low * Total(w, S)
  BY <1>4, TotalScales
<1>7. Total(h, S) = high * Total(w, S)
  BY <1>4, TotalScales
<1> QED
  BY <1>5, <1>6, <1>7

\* The time-weighted average of a series.
=============================================================================
