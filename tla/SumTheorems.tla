---------------------------- MODULE SumTheorems ----------------------------
(***************************************************************************)
(* Sums over finite sets, for the theorems about balances, budgets and     *)
(* credits.  A total of naturals is the number of points under the graph,  *)
(* so that what a sum does follows from what cardinalities do.  The        *)
(* induction theorems of the library take an operator; here induction is   *)
(* over a set of sets, by well-foundedness of the strict subset order.     *)
(***************************************************************************)
EXTENDS Integers, FiniteSets, Functions, FiniteSetTheorems, TLAPS

Points(f, T) == {p \in T \X Nat : p[2] \in 1..f[p[1]]}
Total(f, T)  == Cardinality(Points(f, T))

\* A collection of subsets of a finite set that has a set whenever it has all the
\* strictly smaller ones has the whole set.
LEMMA StrongSubsetInduction ==
    ASSUME NEW S, IsFiniteSet(S), NEW P \in SUBSET (SUBSET S),
           \A T \in SUBSET S : (\A U \in (SUBSET T) \ {T} : U \in P) => T \in P
    PROVE  S \in P
<1> DEFINE R == StrictSubsetOrdering(S)
           Bad == {T \in FiniteSubsetsOf(S) : T \notin P}
<1>1. IsWellFoundedOn(R, FiniteSubsetsOf(S))
  BY FS_StrictSubsetOrderingWellFounded
<1>2. \A T \in SUBSET S : T \in FiniteSubsetsOf(S)
  BY FS_Subset DEF FiniteSubsetsOf
<1>3. SUFFICES ASSUME Bad # {} PROVE FALSE
  BY <1>2
<1>4. PICK T \in Bad : \A U \in Bad : <<U, T>> \notin R
  <2>1. Bad \subseteq FiniteSubsetsOf(S)
    OBVIOUS
  <2> HIDE DEF R, Bad
  <2>2. QED BY <1>1, <1>3, <2>1, WFMin
<1>5. T \in SUBSET S /\ T \notin P
  BY <1>4 DEF FiniteSubsetsOf
<1>6. PICK U \in (SUBSET T) \ {T} : U \notin P
  BY <1>5
<1>7. <<U, T>> \in R
  BY <1>5, <1>6 DEF StrictSubsetOrdering
<1>8. QED
  BY <1>2, <1>4, <1>5, <1>6, <1>7

\* ... and so has one that has the empty set and, with a set, every set that is
\* one element larger.
LEMMA SubsetInduction ==
    ASSUME NEW S, IsFiniteSet(S), NEW P \in SUBSET (SUBSET S), {} \in P,
           \A T \in P : \A x \in S \ T : T \cup {x} \in P
    PROVE  S \in P
<1>1. ASSUME NEW T \in SUBSET S, \A U \in (SUBSET T) \ {T} : U \in P
      PROVE  T \in P
  <2>1. CASE T = {}
    BY <2>1
  <2>2. CASE T # {}
    <3>1. PICK x \in T : TRUE
      BY <2>2
    <3>2. T \ {x} \in P /\ x \in S \ (T \ {x})
      BY <1>1, <3>1
    <3>3. T = (T \ {x}) \cup {x}
      BY <3>1
    <3>4. QED BY <3>2, <3>3
  <2>3. QED BY <2>1, <2>2
<1>2. QED
  BY <1>1, StrongSubsetInduction

LEMMA PointsFinite ==
    ASSUME NEW S, IsFiniteSet(S), NEW f, \A x \in S : f[x] \in Nat
    PROVE  IsFiniteSet(Points(f, S))
<1> DEFINE Column(x) == {x} \X (1..f[x])
           columns == {Column(x) : x \in S}
           column == [x \in S |-> Column(x)]
<1>1. column \in Surjection(S, columns)
  BY DEF Surjection
<1>2. IsFiniteSet(columns)
  BY <1>1, FS_Surjection
<1>3. ASSUME NEW x \in S PROVE IsFiniteSet(Column(x))
  <2>1. f[x] \in Int
    OBVIOUS
  <2>2. IsFiniteSet(1..f[x])
    BY <2>1, FS_Interval
  <2>3. IsFiniteSet({x})
    BY FS_Singleton
  <2>4. QED BY <2>2, <2>3, FS_Product
<1>4. \A C \in columns : IsFiniteSet(C)
  BY <1>3
<1>5. Points(f, S) \subseteq UNION columns
  BY DEF Points
<1>6. IsFiniteSet(UNION columns)
  <2> HIDE DEF columns
  <2> QED BY <1>2, <1>4, FS_UNION
<1>7. QED
  BY <1>5, <1>6, FS_Subset

LEMMA TotalType ==
    ASSUME NEW S, IsFiniteSet(S), NEW f, \A x \in S : f[x] \in Nat
    PROVE  Total(f, S) \in Nat
BY PointsFinite, FS_CardinalityType DEF Total

LEMMA TotalEmpty == ASSUME NEW f PROVE Total(f, {}) = 0
<1>1. Points(f, {}) = {}
  BY DEF Points
<1>2. QED
  BY <1>1, FS_EmptySet DEF Total

\* Whichever element is taken out, the total loses its value.
LEMMA TotalSplit ==
    ASSUME NEW S, IsFiniteSet(S), NEW f, \A x \in S : f[x] \in Nat, NEW x \in S
    PROVE  Total(f, S) = f[x] + Total(f, S \ {x})
<1> DEFINE column == {x} \X (1..f[x])
           rest == Points(f, S \ {x})
<1>1. Points(f, S) = column \cup rest
  BY DEF Points
<1>2. column \cap rest = {}
  BY DEF Points
<1>3. IsFiniteSet(column) /\ Cardinality(column) = f[x]
  <2>1. IsFiniteSet(1..f[x]) /\ Cardinality(1..f[x]) = f[x]
    BY FS_Interval
  <2>2. IsFiniteSet({x}) /\ Cardinality({x}) = 1
    BY FS_Singleton
  <2>3. Cardinality(column) = Cardinality({x}) * Cardinality(1..f[x]) /\ IsFiniteSet(column)
    BY <2>1, <2>2, FS_Product
  <2>4. QED BY <2>1, <2>2, <2>3
<1>4. IsFiniteSet(S \ {x})
  BY FS_RemoveElement
<1>5. IsFiniteSet(rest) /\ Cardinality(rest) \in Nat
  BY <1>4, PointsFinite, FS_CardinalityType
<1>6. Cardinality(column \cup rest) = Cardinality(column) + Cardinality(rest) - Cardinality({})
  <2> HIDE DEF column, rest
  <2> QED BY <1>2, <1>3, <1>5, FS_Union
<1>7. QED
  BY <1>1, <1>3, <1>5, <1>6, FS_EmptySet DEF Total

LEMMA TotalAdd ==
    ASSUME NEW S, IsFiniteSet(S), NEW f, \A x \in S : f[x] \in Nat,
           NEW T \in SUBSET S, NEW x \in S \ T
    PROVE  Total(f, T \cup {x}) = f[x] + Total(f, T) /\ Total(f, T) \in Nat
<1>1. IsFiniteSet(T \cup {x}) /\ IsFiniteSet(T)
  BY FS_Subset
<1>2. (T \cup {x}) \ {x} = T
  OBVIOUS
<1>3. QED
  BY <1>1, <1>2, TotalSplit, TotalType

\* A sum of sums bounds the sum of what each pair of values bounds.
LEMMA TotalSum ==
    ASSUME NEW S, IsFiniteSet(S), NEW f, NEW g, NEW h,
           \A x \in S : f[x] \in Nat /\ g[x] \in Nat /\ h[x] \in Nat /\ h[x] <= f[x] + g[x]
    PROVE  Total(h, S) <= Total(f, S) + Total(g, S)
<1> DEFINE P == {T \in SUBSET S : Total(h, T) <= Total(f, T) + Total(g, T)}
<1>1. {} \in P
  BY TotalEmpty
<1>2. ASSUME NEW T \in P, NEW x \in S \ T
      PROVE  T \cup {x} \in P
  <2> DEFINE Grows(v) == Total(v, T \cup {x}) = v[x] + Total(v, T) /\ Total(v, T) \in Nat
  <2>1. T \in SUBSET S
    BY <1>2
  <2>2. Grows(f)
    BY <2>1, TotalAdd
  <2>3. Grows(g)
    BY <2>1, TotalAdd
  <2>4. Grows(h)
    BY <2>1, TotalAdd
  <2>5. QED BY <1>2, <2>2, <2>3, <2>4
<1>3. S \in P
  <2>1. P \in SUBSET (SUBSET S)
    OBVIOUS
  <2> HIDE DEF P
  <2>2. QED BY <1>1, <1>2, <2>1, SubsetInduction
<1>4. QED BY <1>3

LEMMA TotalMonotone ==
    ASSUME NEW S, IsFiniteSet(S), NEW f, NEW g,
           \A x \in S : f[x] \in Nat /\ g[x] \in Nat /\ f[x] <= g[x]
    PROVE  Total(f, S) <= Total(g, S)
<1>1. Points(f, S) \subseteq Points(g, S)
  BY DEF Points
<1>2. QED
  BY <1>1, PointsFinite, FS_Subset DEF Total

LEMMA TotalBound ==
    ASSUME NEW S, IsFiniteSet(S), NEW f, NEW m \in Nat,
           \A x \in S : f[x] \in Nat /\ f[x] <= m
    PROVE  Total(f, S) <= m * Cardinality(S)
<1>1. Points(f, S) \subseteq S \X (1..m)
  BY DEF Points
<1>2. IsFiniteSet(1..m) /\ Cardinality(1..m) = m
  BY FS_Interval
<1>3. IsFiniteSet(S \X (1..m)) /\ Cardinality(S \X (1..m)) = Cardinality(S) * m
  BY <1>2, FS_Product
<1>4. Total(f, S) <= Cardinality(S) * m
  BY <1>1, <1>3, FS_Subset DEF Total
<1>5. Cardinality(S) \in Nat
  BY FS_CardinalityType
<1>6. QED BY <1>4, <1>5

\* A total depends on the values only, and values of 0 do not count.
LEMMA TotalSame ==
    ASSUME NEW T, NEW S \in SUBSET T, NEW f, NEW g,
           \A x \in S : f[x] = g[x], \A x \in T \ S : g[x] = 0
    PROVE  Total(f, S) = Total(g, T)
<1>1. Points(f, S) = Points(g, T)
  BY DEF Points
<1>2. QED BY <1>1 DEF Total

\* Where one value changes, the total changes by as much.
LEMMA TotalChange ==
    ASSUME NEW S, IsFiniteSet(S), NEW f, NEW g, NEW x \in S,
           \A y \in S : f[y] \in Nat /\ g[y] \in Nat, \A y \in S \ {x} : f[y] = g[y]
    PROVE  Total(g, S) = Total(f, S) - f[x] + g[x]
<1>1. Total(f, S) = f[x] + Total(f, S \ {x}) /\ Total(g, S) = g[x] + Total(g, S \ {x})
  BY TotalSplit
<1>2. Total(f, S \ {x}) = Total(g, S \ {x})
  BY TotalSame
<1>3. Total(f, S \ {x}) \in Nat
  BY FS_Subset, TotalType
<1>4. QED BY <1>1, <1>2, <1>3

\* The recursion of MapThenSumSet: one chosen element at a time.
Summing(f, S, g) ==
    [s \in SUBSET S |->
        IF s = {} THEN 0 ELSE LET x == CHOOSE x \in s : TRUE IN f[x] + g[s \ {x}]]

\* There is a function with that recursion, and every one comes to the total.
LEMMA SumExists ==
    ASSUME NEW S, IsFiniteSet(S), NEW f, \A x \in S : f[x] \in Nat
    PROVE  \E g : g = Summing(f, S, g)
<1> DEFINE sum == [T \in SUBSET S |-> Total(f, T)]
           Step(s) == LET x == CHOOSE x \in s : TRUE IN f[x] + sum[s \ {x}]
<1>1. ASSUME NEW s \in SUBSET S
      PROVE  sum[s] = IF s = {} THEN 0 ELSE Step(s)
  <2>1. CASE s = {}
    BY <2>1, TotalEmpty
  <2>2. CASE s # {}
    <3> DEFINE x == CHOOSE x \in s : TRUE
    <3>1. x \in s
      BY <2>2
    <3>2. sum[s] = Total(f, s) /\ sum[s \ {x}] = Total(f, s \ {x})
      OBVIOUS
    <3>3. Step(s) = f[x] + sum[s \ {x}]
      OBVIOUS
    <3> HIDE DEF x, Step, sum
    <3>4. Total(f, s) = f[x] + Total(f, s \ {x})
      BY <3>1, TotalSplit, FS_Subset
    <3>5. QED BY <2>2, <3>2, <3>3, <3>4
  <2>3. QED BY <2>1, <2>2
<1>2. sum = [s \in SUBSET S |-> sum[s]]
  OBVIOUS
<1>3. sum = Summing(f, S, sum)
  BY <1>1, <1>2 DEF Summing
<1> HIDE DEF sum
<1>4. QED BY <1>3

LEMMA SumIsTotal ==
    ASSUME NEW S, IsFiniteSet(S), NEW f, \A x \in S : f[x] \in Nat,
           NEW sum, sum = Summing(f, S, sum)
    PROVE  sum[S] = Total(f, S)
<1> DEFINE P == {T \in SUBSET S : sum[T] = Total(f, T)}
<1>1. ASSUME NEW T \in SUBSET S, \A U \in (SUBSET T) \ {T} : U \in P
      PROVE  T \in P
  <2>1. CASE T = {}
    <3>1. sum[{}] = 0
      BY DEF Summing
    <3>2. QED BY <2>1, <3>1, TotalEmpty
  <2>2. CASE T # {}
    <3> DEFINE x == CHOOSE x \in T : TRUE
    <3>1. x \in T
      BY <2>2
    <3>2. sum[T] = f[x] + sum[T \ {x}]
      BY <2>2 DEF Summing
    <3> HIDE DEF x
    <3>3. sum[T \ {x}] = Total(f, T \ {x})
      BY <1>1, <3>1
    <3>4. Total(f, T) = f[x] + Total(f, T \ {x})
      BY <3>1, TotalSplit, FS_Subset
    <3>5. QED BY <3>2, <3>3, <3>4
  <2>3. QED BY <2>1, <2>2
<1>2. S \in P
  <2>1. P \in SUBSET (SUBSET S)
    OBVIOUS
  <2> HIDE DEF P
  <2>2. QED BY <1>1, <2>1, StrongSubsetInduction
<1>3. QED BY <1>2

\* A set without two different elements is empty or has one.
LEMMA AtMostOne ==
    ASSUME NEW S, \A x, y \in S : x = y
    PROVE  Cardinality(S) <= 1
<1>1. CASE S = {}
  BY <1>1, FS_EmptySet
<1>2. CASE S # {}
  <2>1. PICK x \in S : S = {x}
    BY <1>2
  <2>2. QED BY <2>1, FS_Singleton
<1>3. QED BY <1>1, <1>2

\* A set of naturals that has the successor of each of its elements below m, and 0,
\* has all of them up to m.
LEMMA UpToInduction ==
    ASSUME NEW m \in Nat, NEW P, 0 \in P, \A i \in P : i \in 0..(m - 1) => i + 1 \in P
    PROVE  0..m \subseteq P
<1> DEFINE Bad == (0..m) \ P
<1>1. SUFFICES ASSUME Bad # {} PROVE FALSE
  OBVIOUS
<1>2. PICK i \in Bad : \A j \in Bad : ~ (j < i)
  <2> DEFINE Below == {p \in Nat \X Nat : p[1] < p[2]}
  <2>1. Bad \subseteq Nat
    OBVIOUS
  <2>2. IsWellFoundedOn(Below, Nat)
    BY NatLessThanWellFounded, Zenon DEF OpToRel
  <2>3. \A i, j \in Nat : j < i => <<j, i>> \in Below
    OBVIOUS
  <2> HIDE DEF Bad, Below
  <2>4. \E i \in Bad : \A j \in Bad : <<j, i>> \notin Below
    BY <1>1, <2>1, <2>2, WFMin
  <2>5. QED BY <2>1, <2>3, <2>4
<1>3. i \in 1..m
  BY <1>2
<1>4. i - 1 \in P /\ i - 1 \in 0..(m - 1)
  BY <1>2, <1>3
<1>5. QED
  BY <1>2, <1>3, <1>4

\* Totals of the same values, in one place each, are equal.
LEMMA TotalInjection ==
    ASSUME NEW S, NEW T, IsFiniteSet(T), NEW f, NEW g, NEW e \in Injection(S, T),
           \A x \in T : g[x] \in Nat, \A x \in S : f[x] = g[e[x]]
    PROVE  IsFiniteSet(S) /\ Total(f, S) <= Total(g, T)
<1> DEFINE move == [p \in Points(f, S) |-> <<e[p[1]], p[2]>>]
<1>1. e \in [S -> T] /\ \A x, y \in S : e[x] = e[y] => x = y
  BY DEF Injection, IsInjective
<1>2. \A p \in Points(f, S) : p = <<p[1], p[2]>> /\ p[1] \in S /\ p[2] \in Nat /\ p[2] \in 1..f[p[1]]
  BY DEF Points
<1>3. \A p \in Points(f, S) : move[p] \in Points(g, T)
  BY <1>1, <1>2 DEF Points
<1>4. \A p, q \in Points(f, S) : move[p] = move[q] => p = q
  <2> TAKE p, q \in Points(f, S)
  <2>1. HAVE move[p] = move[q]
  <2>2. e[p[1]] = e[q[1]] /\ p[2] = q[2]
    BY <2>1
  <2>3. QED BY <1>1, <1>2, <2>2
<1> HIDE DEF move
<1>5. move \in Injection(Points(f, S), Points(g, T))
  BY <1>3, <1>4 DEF Injection, IsInjective, move
<1>6. IsFiniteSet(Points(g, T))
  BY PointsFinite
<1>7. QED
  BY <1>5, <1>6, FS_Injection DEF Total

LEMMA TotalBijection ==
    ASSUME NEW S, NEW T, IsFiniteSet(T), NEW f, NEW g, NEW e \in Bijection(S, T),
           \A x \in T : g[x] \in Nat, \A x \in S : f[x] = g[e[x]]
    PROVE  IsFiniteSet(S) /\ Total(f, S) = Total(g, T)
<1> DEFINE back == [y \in T |-> CHOOSE x \in S : e[x] = y]
<1>1. e \in [S -> T] /\ e \in Injection(S, T) /\ \A y \in T : \E x \in S : e[x] = y
  BY DEF Bijection, Injection, Surjection
<1>2. \A y \in T : back[y] \in S /\ e[back[y]] = y
  BY <1>1
<1>3. IsFiniteSet(S) /\ Total(f, S) <= Total(g, T)
  BY <1>1, TotalInjection
<1>4. back \in Injection(T, S)
  BY <1>2 DEF Injection, IsInjective
<1> HIDE DEF back
<1>5. \A x \in S : f[x] \in Nat
  BY <1>1
<1>6. \A y \in T : g[y] = f[back[y]]
  BY <1>2
<1>7. Total(g, T) <= Total(f, S)
  BY <1>3, <1>4, <1>5, <1>6, TotalInjection
<1>8. Total(f, S) \in Nat /\ Total(g, T) \in Nat
  BY <1>3, <1>5, TotalType
<1>9. QED BY <1>3, <1>7, <1>8

LEMMA TotalEqual ==
    ASSUME NEW S, NEW f, NEW g, \A x \in S : f[x] = g[x]
    PROVE  Total(f, S) = Total(g, S)
BY TotalSame

LEMMA TotalSubset ==
    ASSUME NEW T, IsFiniteSet(T), NEW S \in SUBSET T, NEW f, \A x \in T : f[x] \in Nat
    PROVE  Total(f, S) <= Total(f, T)
<1>1. Points(f, S) \subseteq Points(f, T)
  BY DEF Points
<1>2. QED BY <1>1, PointsFinite, FS_Subset DEF Total

\* A finite set of integers that is not empty has a greatest element.
LEMMA GreatestExists ==
    ASSUME NEW S \in SUBSET Int, IsFiniteSet(S), S # {}
    PROVE  \E x \in S : \A y \in S : x >= y
<1> DEFINE P == {T \in SUBSET S : T = {} \/ \E x \in T : \A y \in T : x >= y}
<1>1. {} \in P
  OBVIOUS
<1>2. ASSUME NEW T \in P, NEW z \in S \ T PROVE T \cup {z} \in P
  <2>1. CASE T = {}
    BY <2>1
  <2>2. CASE T # {}
    <3>1. PICK x \in T : \A y \in T : x >= y
      BY <1>2, <2>2
    <3>2. T \in SUBSET S /\ x \in Int /\ z \in Int
      BY <1>2
    <3>3. CASE x >= z
      BY <3>1, <3>2, <3>3
    <3>4. CASE z > x
      <4>1. \A y \in T \cup {z} : z >= y
        BY <3>1, <3>2, <3>4
      <4>2. QED BY <3>2, <4>1
    <3>5. QED BY <3>2, <3>3, <3>4
  <2>3. QED BY <2>1, <2>2
<1>3. S \in P
  <2>1. P \in SUBSET (SUBSET S)
    OBVIOUS
  <2> HIDE DEF P
  <2>2. QED BY <1>1, <1>2, <2>1, SubsetInduction
<1>4. QED BY <1>3

\* The total over two sets that share nothing.
LEMMA TotalUnion ==
    ASSUME NEW S, IsFiniteSet(S), NEW T, IsFiniteSet(T), S \cap T = {},
           NEW f, \A x \in S \cup T : f[x] \in Nat
    PROVE  Total(f, S \cup T) = Total(f, S) + Total(f, T)
<1> DEFINE a == Points(f, S)
           b == Points(f, T)
<1>1. Points(f, S \cup T) = a \cup b /\ a \cap b = {}
  BY DEF Points
<1>2. IsFiniteSet(a) /\ IsFiniteSet(b)
  BY PointsFinite
<1>3. Cardinality(a) \in Nat /\ Cardinality(b) \in Nat /\ Cardinality({}) = 0
  BY <1>2, FS_CardinalityType, FS_EmptySet
<1>4. /\ Total(f, S \cup T) = Cardinality(a \cup b)
      /\ Total(f, S) = Cardinality(a) /\ Total(f, T) = Cardinality(b)
  BY <1>1 DEF Total
<1> HIDE DEF a, b
<1>5. Cardinality(a \cup b) = Cardinality(a) + Cardinality(b) - Cardinality(a \cap b)
  BY <1>2, FS_Union
<1>6. Cardinality(a \cup b) = Cardinality(a) + Cardinality(b)
  <2>1. a \cap b = {}
    BY <1>1
  <2>2. Cardinality(a \cap b) = 0
    BY <1>3, <2>1
  <2>3. QED BY <1>3, <1>5, <2>2
<1>7. QED
  BY <1>4, <1>6

\* The sum of a function that the community modules fold.
LEMMA SumFunctionIsTotal ==
    ASSUME NEW S, IsFiniteSet(S), NEW f, DOMAIN f = S, \A x \in S : f[x] \in Nat
    PROVE  SumFunction(f) = Total(f, S)
<1> DEFINE Summed(g) == [s \in SUBSET S |->
              IF s = {} THEN 0
              ELSE LET x == CHOOSE x \in s : TRUE IN f[x] + g[s \ {x}]]
           sum == CHOOSE g : g = Summed(g)
<1>1. SumFunction(f) = sum[S]
  BY DEF SumFunction, SumFunctionOnSet, FoldFunctionOnSet, MapThenFoldSet
<1>2. ASSUME NEW g PROVE Summing(f, S, g) = Summed(g)
  BY DEF Summing
<1> HIDE DEF Summed
<1>3. \E g : g = Summing(f, S, g)
  BY SumExists
<1>4. sum = Summing(f, S, sum)
  BY <1>2, <1>3
<1> HIDE DEF sum
<1>5. sum[S] = Total(f, S)
  BY <1>4, SumIsTotal
<1>6. QED BY <1>1, <1>5

=============================================================================
