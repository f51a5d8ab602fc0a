----------------------- MODULE PortfolioReportProofs -----------------------
(***************************************************************************)
(* Proofs about what the reports compute from the rows of a portfolio, for *)
(* any symbols, splits, prices, rates, stops and any number of rows: the   *)
(* fold over a symbol's rows (PortfolioFold) and the reports made of it    *)
(* (PortfolioReport).  Four things recur.                                  *)
(*   Sums over sets are taken one member at a time, in any order; a        *)
(*   sequence is the set of its positions.                                 *)
(*   The fold is a loop: a predicate Loop(P, ...) that holds at its start  *)
(*   and is preserved by every row holds at its end.  There is a first row *)
(*   at which it would fail, because a set of numbers has a least one.     *)
(*   Orders of a set of rows are made by putting one of its newest rows    *)
(*   behind an order of the others.                                        *)
(*   The reports are about finite books: finitely many requests have       *)
(*   committed a row.                                                      *)
(***************************************************************************)
EXTENDS PortfolioBookProofs, FiniteSetTheorems, WellFoundedInduction,
        SequenceTheorems, TLAPS

LEMMA LeastNat ==
  ASSUME NEW S \in SUBSET Nat, S # {}
  PROVE  \E n \in S : \A m \in S : n <= m
<1>1. OpToRel(<, Nat) = {ss \in Nat \X Nat : ss[1] < ss[2]}
  BY DEF OpToRel
<1>2. PICK n \in S : \A m \in S : ~(<<m, n>> \in OpToRel(<, Nat))
  BY NatLessThanWellFounded, WFMin
<1>3. ASSUME NEW m \in S, m < n
      PROVE  FALSE
  BY <1>1, <1>2, <1>3
<1> QED
  BY <1>3

\* Induction over the numbers, for a set of numbers.
LEMMA AllNumbers ==
  ASSUME NEW S \in SUBSET Nat, 0 \in S, \A n \in S : n + 1 \in S
  PROVE  S = Nat
<1> SUFFICES ASSUME Nat \ S # {}
             PROVE  FALSE
  OBVIOUS
<1>1. PICK n \in Nat \ S : \A m \in Nat \ S : n <= m
  BY LeastNat
<1>2. n - 1 \in Nat /\ n - 1 \notin Nat \ S
  BY <1>1
<1> QED
  BY <1>2

\* What removing an element does to a finite set.
LEMMA OneLess ==
  ASSUME NEW S, IsFiniteSet(S), NEW T \in SUBSET S, NEW x \in T
  PROVE  /\ IsFiniteSet(T) /\ Cardinality(T) \in Nat \ {0}
         /\ T \ {x} \in SUBSET S
         /\ IsFiniteSet(T \ {x}) /\ Cardinality(T \ {x}) = Cardinality(T) - 1
<1>1. IsFiniteSet(T)
  BY FS_Subset
<1>2. Cardinality(T) \in Nat /\ IsFiniteSet(T \ {x}) /\ Cardinality(T \ {x}) = Cardinality(T) - 1
  BY <1>1, FS_CardinalityType, FS_RemoveElement
<1>3. Cardinality(T \ {x}) \in Nat
  BY <1>2, FS_CardinalityType
<1> QED
  BY <1>1, <1>2, <1>3

\* Induction over a finite set, for a family of its subsets.
LEMMA AllSubsets ==
  ASSUME NEW S, IsFiniteSet(S), NEW F, {} \in F,
         \A T \in SUBSET S : T # {} /\ (\A x \in T : T \ {x} \in F) => T \in F
  PROVE  \A T \in SUBSET S : T \in F
<1> DEFINE N == {n \in Nat : \A T \in SUBSET S : Cardinality(T) = n => T \in F}
<1>1. 0 \in N
  <2>1. ASSUME NEW T \in SUBSET S, Cardinality(T) = 0, T # {}
        PROVE  FALSE
    BY <2>1, OneLess
  <2> QED
    BY <2>1
<1>2. ASSUME NEW n \in N
      PROVE  n + 1 \in N
  <2>1. ASSUME NEW T \in SUBSET S, Cardinality(T) = n + 1
        PROVE  T \in F
    <3>1. CASE T = {}
      BY <3>1
    <3>2. ASSUME NEW x \in T
          PROVE  T \ {x} \in F
      <4>1. T \ {x} \in SUBSET S /\ Cardinality(T \ {x}) = n
        BY <2>1, <1>2, OneLess
      <4> QED
        BY <4>1, <1>2
    <3> QED
      BY <3>1, <3>2
  <2> QED
    BY <2>1
<1>3. N = Nat
  BY <1>1, <1>2, AllNumbers
<1>4. \A T \in SUBSET S : Cardinality(T) \in Nat
  BY FS_Subset, FS_CardinalityType
<1> QED
  BY <1>3, <1>4

-----------------------------------------------------------------------------
\* g folds step over the subsets of S, taking the element nxt[T] off T.
IsFold(g, S, base, nxt, step) ==
  \A T \in SUBSET S : g[T] = IF T = {} THEN base ELSE step[<<nxt[T], g[T \ {nxt[T]}]>>]

Chooser(S) == {c \in [(SUBSET S) \ {{}} -> S] : \A T \in (SUBSET S) \ {{}} : c[T] \in T}

Numbers(f, S) == \A x \in S : f[x] \in Int
AddsAny(g, S, f) == \A T \in SUBSET S : \A x \in T : g[T] = f[x] + g[T \ {x}]
TakesAny(g, S, step) == \A T \in SUBSET S : \A x \in T : g[T] = step[<<x, g[T \ {x}]>>]
Commutes(step, S, V) ==
  \A x, y \in S : \A v \in V : step[<<x, step[<<y, v>>]>>] = step[<<y, step[<<x, v>>]>>]

LEMMA FoldExists ==
  ASSUME NEW S, IsFiniteSet(S), NEW V, NEW base \in V,
         NEW nxt \in Chooser(S), NEW step \in [S \X V -> V]
  PROVE  \E g \in [SUBSET S -> V] : IsFold(g, S, base, nxt, step)
<1>a. \A T \in SUBSET S : \A x \in T :
        Cardinality(T) \in Nat \ {0} /\ T \ {x} \in SUBSET S /\ Cardinality(T \ {x}) = Cardinality(T) - 1
  BY OneLess
<1> DEFINE D(n) == {T \in SUBSET S : Cardinality(T) <= n}
           Part(g, n) == \A T \in D(n) :
              g[T] = IF T = {} THEN base ELSE step[<<nxt[T], g[T \ {nxt[T]}]>>]
           N == {n \in Nat : \E g \in [D(n) -> V] : Part(g, n)}
<1>0. \A T \in SUBSET S : T # {} => nxt[T] \in T /\ nxt[T] \in S
  BY DEF Chooser
<1>1. 0 \in N
  <2>1. ASSUME NEW T \in D(0)
        PROVE  T = {}
    <3>1. T \in SUBSET S /\ Cardinality(T) <= 0
      OBVIOUS
    <3>2. ASSUME NEW x \in T
          PROVE  FALSE
      <4>1. Cardinality(T) \in Nat \ {0}
        BY <3>1, <3>2, <1>a
      <4> QED
        BY <4>1, <3>1
    <3> QED
      BY <3>2
  <2>2. [T \in D(0) |-> base] \in [D(0) -> V] /\ Part([T \in D(0) |-> base], 0)
    BY <2>1
  <2> QED
    BY <2>2
<1>2. ASSUME NEW n \in N
      PROVE  n + 1 \in N
  <2>1. PICK g \in [D(n) -> V] : Part(g, n)
    OBVIOUS
  <2>2. ASSUME NEW T \in D(n + 1), T # {}
        PROVE  T \ {nxt[T]} \in D(n)
    <3>1. T \in SUBSET S /\ Cardinality(T) <= n + 1 /\ nxt[T] \in T /\ n \in Nat
      BY <1>0, <2>2
    <3>2. T \ {nxt[T]} \in SUBSET S /\ Cardinality(T \ {nxt[T]}) <= n
      BY <3>1, <1>a
    <3> QED
      BY <3>2
  <2> DEFINE h == [T \in D(n + 1) |->
                     IF T = {} THEN base ELSE step[<<nxt[T], g[T \ {nxt[T]}]>>]]
  <2>3. h \in [D(n + 1) -> V]
    BY <1>0, <2>2
  <2>4. ASSUME NEW T \in D(n)
        PROVE  T \in D(n + 1) /\ h[T] = g[T]
    <3>1. T \in D(n + 1)
      BY FS_Subset, FS_CardinalityType
    <3> QED
      BY <3>1, <2>1
  <2>5. Part(h, n + 1)
    BY <2>2, <2>4
  <2> HIDE DEF h
  <2>6. \E f \in [D(n + 1) -> V] : Part(f, n + 1)
    BY <2>3, <2>5
  <2> QED
    BY <2>6, n + 1 \in Nat
<1>3. N = Nat
  <2> HIDE DEF N
  <2>1. N \in SUBSET Nat
    BY DEF N
  <2> QED
    BY <1>1, <1>2, <2>1, AllNumbers
<1>4. Cardinality(S) \in Nat /\ D(Cardinality(S)) = SUBSET S
  BY FS_Subset, FS_CardinalityType
<1>5. Cardinality(S) \in N
  BY <1>3, <1>4
<1>6. PICK g \in [D(Cardinality(S)) -> V] : Part(g, Cardinality(S))
  BY <1>5
<1> QED
  BY <1>4, <1>6 DEF IsFold

\* Where steps commute, any element may be taken off first.
LEMMA FoldAny ==
  ASSUME NEW S, IsFiniteSet(S), NEW V, NEW base \in V,
         NEW nxt \in Chooser(S), NEW step \in [S \X V -> V],
         Commutes(step, S, V), NEW g \in [SUBSET S -> V], IsFold(g, S, base, nxt, step)
  PROVE  TakesAny(g, S, step)
<1>a. \A T \in SUBSET S : \A x \in T :
        Cardinality(T) \in Nat \ {0} /\ T \ {x} \in SUBSET S /\ Cardinality(T \ {x}) = Cardinality(T) - 1
  BY OneLess
<1> DEFINE F == {T \in SUBSET S : \A x \in T : g[T] = step[<<x, g[T \ {x}]>>]}
<1>1. {} \in F
  OBVIOUS
<1>2. ASSUME NEW n \in Nat, \A T \in SUBSET S : Cardinality(T) = n => T \in F,
             NEW T \in SUBSET S, Cardinality(T) = n + 1, NEW x \in T
      PROVE  g[T] = step[<<x, g[T \ {x}]>>]
  <2> DEFINE c == nxt[T]
             U == T \ {c, x}
  <2>1. c \in T /\ g[T] = step[<<c, g[T \ {c}]>>]
    BY DEF Chooser, IsFold
  <2>2. CASE c = x
    BY <2>1, <2>2
  <2>3. CASE c # x
    <3>0. \A z \in T : T \ {z} \in SUBSET S /\ Cardinality(T \ {z}) = n
      BY <1>2, <1>a
    <3>1. T \ {c} \in F /\ T \ {x} \in F
      BY <3>0, <2>1, <1>2
    <3>2. (T \ {c}) \ {x} = U /\ (T \ {x}) \ {c} = U /\ U \in SUBSET S
      OBVIOUS
    <3>3. x \in T \ {c} /\ c \in T \ {x}
      BY <2>1, <2>3
    <3>4. g[T \ {c}] = step[<<x, g[U]>>]
      BY <3>1, <3>2, <3>3
    <3>5. g[T \ {x}] = step[<<c, g[U]>>]
      BY <3>1, <3>2, <3>3
    <3>6. g[U] \in V /\ x \in S /\ c \in S
      BY <2>1, <3>2
    <3> QED
      BY <2>1, <3>4, <3>5, <3>6 DEF Commutes
  <2> QED
    BY <2>2, <2>3
<1> DEFINE N == {n \in Nat : \A T \in SUBSET S : Cardinality(T) = n => T \in F}
<1>3. 0 \in N
  <2>1. ASSUME NEW T \in SUBSET S, Cardinality(T) = 0
        PROVE  T = {}
    BY <2>1, <1>a
  <2> QED
    BY <2>1, <1>1
<1>4. ASSUME NEW n \in N
      PROVE  n + 1 \in N
  <2>1. n \in Nat /\ \A T \in SUBSET S : Cardinality(T) = n => T \in F
    OBVIOUS
  <2>2. ASSUME NEW T \in SUBSET S, Cardinality(T) = n + 1
        PROVE  T \in F
    <3> HIDE DEF N
    <3>1. \A x \in T : g[T] = step[<<x, g[T \ {x}]>>]
      BY <2>1, <2>2, <1>2
    <3> QED
      BY <3>1
  <2> QED
    BY <2>1, <2>2
<1>5. N = Nat
  BY <1>3, <1>4, AllNumbers
<1>6. \A T \in SUBSET S : Cardinality(T) \in Nat
  BY FS_Subset, FS_CardinalityType
<1> QED
  BY <1>5, <1>6 DEF TakesAny
-----------------------------------------------------------------------------
(* Sums.                                                                   *)

AnyOf(S) == [T \in (SUBSET S) \ {{}} |-> CHOOSE x \in T : TRUE]

LEMMA AnyChooses == \A S : AnyOf(S) \in Chooser(S)
BY DEF AnyOf, Chooser

\* g adds up f over each subset of S.
Adds(g, S, f) ==
  \A T \in SUBSET S :
    g[T] = IF T = {} THEN 0
           ELSE f[CHOOSE x \in T : TRUE] + g[T \ {CHOOSE x \in T : TRUE}]

LEMMA AddsOnce ==
  ASSUME NEW S, IsFiniteSet(S), NEW f, NEW g, NEW h, Adds(g, S, f), Adds(h, S, f)
  PROVE  \A T \in SUBSET S : g[T] = h[T]
<1> DEFINE F == {T \in SUBSET S : g[T] = h[T]}
<1>1. {} \in F
  BY DEF Adds
<1>2. ASSUME NEW T \in SUBSET S, T # {}, \A x \in T : T \ {x} \in F
      PROVE  T \in F
  <2>1. T \ {CHOOSE x \in T : TRUE} \in F
    BY <1>2
  <2> QED
    BY <2>1, <1>2 DEF Adds
<1>3. \A T \in SUBSET S : T \in F
  <2> HIDE DEF F
  <2> QED
    BY <1>1, <1>2, AllSubsets
<1> QED
  BY <1>3

\* There is one, and any element may be added first.
LEMMA SumExists ==
  ASSUME NEW S, IsFiniteSet(S), NEW f, Numbers(f, S)
  PROVE  \E g \in [SUBSET S -> Int] : Adds(g, S, f) /\ AddsAny(g, S, f)
<1> DEFINE step == [p \in S \X Int |-> f[p[1]] + p[2]]
<1>1. step \in [S \X Int -> Int]
  BY DEF Numbers
<1>2. \A x \in S, v \in Int : step[<<x, v>>] = f[x] + v
  OBVIOUS
<1>3. Commutes(step, S, Int)
  BY <1>2 DEF Numbers, Commutes
<1> HIDE DEF step
<1>4. AnyOf(S) \in Chooser(S) /\ 0 \in Int
  BY AnyChooses
<1>5. PICK g \in [SUBSET S -> Int] : IsFold(g, S, 0, AnyOf(S), step)
  BY <1>1, <1>4, FoldExists
<1>6. TakesAny(g, S, step)
  BY <1>1, <1>3, <1>4, <1>5, FoldAny
<1>7. AddsAny(g, S, f)
  <2>1. \A T \in SUBSET S : \A x \in T : x \in S /\ T \ {x} \in SUBSET S
    OBVIOUS
  <2> QED
    BY <2>1, <1>6, <1>2 DEF AddsAny, TakesAny
<1>8. g[{}] = 0
  BY <1>5 DEF IsFold
<1>9. Adds(g, S, f)
  BY <1>7, <1>8 DEF Adds, AddsAny
<1> QED
  BY <1>7, <1>9

LEMMA SumValue ==
  ASSUME NEW S, IsFiniteSet(S), NEW f, NEW g \in [SUBSET S -> Int], Adds(g, S, f)
  PROVE  SumFunctionOnSet(f, S) = g[S]
<1> DEFINE Eq(i) == i = [s \in SUBSET S |->
              IF s = {} THEN 0
              ELSE f[CHOOSE x \in s : TRUE] + i[s \ {CHOOSE x \in s : TRUE}]]
           iter == CHOOSE i : Eq(i)
<1>1. Eq(g)
  BY DEF Adds
<1>2. Eq(iter)
  BY <1>1
<1>3. SumFunctionOnSet(f, S) = iter[S]
  BY DEF SumFunctionOnSet, FoldFunctionOnSet, MapThenFoldSet
<1> HIDE DEF iter
<1>4. Adds(iter, S, f)
  BY <1>2, SMTT(30) DEF Adds
<1> QED
  BY <1>3, <1>4, AddsOnce

-----------------------------------------------------------------------------
LEMMA SumEmpty == \A f : SumFunctionOnSet(f, {}) = 0
<1> SUFFICES ASSUME NEW f
             PROVE  SumFunctionOnSet(f, {}) = 0
  OBVIOUS
<1>1. IsFiniteSet({}) /\ Numbers(f, {})
  BY FS_EmptySet DEF Numbers
<1>2. PICK g \in [SUBSET {} -> Int] : Adds(g, {}, f)
  BY <1>1, SumExists
<1>3. g[{}] = 0
  BY <1>2 DEF Adds
<1> QED
  BY <1>1, <1>2, <1>3, SumValue

\* The sum is a number, and any element's part of it can be taken off.
LEMMA SumTake ==
  ASSUME NEW S, IsFiniteSet(S), NEW f, Numbers(f, S)
  PROVE  /\ SumFunctionOnSet(f, S) \in Int
         /\ \A x \in S : SumFunctionOnSet(f, S) = f[x] + SumFunctionOnSet(f, S \ {x})
<1>1. PICK g \in [SUBSET S -> Int] : Adds(g, S, f) /\ AddsAny(g, S, f)
  BY SumExists
<1>2. ASSUME NEW T \in SUBSET S
      PROVE  SumFunctionOnSet(f, T) = g[T]
  <2>1. IsFiniteSet(T)
    BY FS_Subset
  <2> DEFINE r == [U \in SUBSET T |-> g[U]]
  <2>2. r \in [SUBSET T -> Int] /\ Adds(r, T, f)
    BY <1>1 DEF Adds
  <2>3. r[T] = g[T]
    OBVIOUS
  <2> HIDE DEF r
  <2> QED
    BY <2>1, <2>2, <2>3, SumValue
<1>3. \A x \in S : S \ {x} \in SUBSET S
  OBVIOUS
<1> QED
  BY <1>1, <1>2, <1>3 DEF AddsAny

\* The same of each subset.
LEMMA SumTakes ==
  ASSUME NEW S, IsFiniteSet(S), NEW f, Numbers(f, S)
  PROVE  \A T \in SUBSET S :
           /\ SumFunctionOnSet(f, T) \in Int
           /\ \A x \in T : SumFunctionOnSet(f, T) = f[x] + SumFunctionOnSet(f, T \ {x})
<1> SUFFICES ASSUME NEW T \in SUBSET S
             PROVE  /\ SumFunctionOnSet(f, T) \in Int
                    /\ \A x \in T : SumFunctionOnSet(f, T) = f[x] + SumFunctionOnSet(f, T \ {x})
  OBVIOUS
<1>1. IsFiniteSet(T) /\ Numbers(f, T)
  BY FS_Subset DEF Numbers
<1> QED
  BY <1>1, SumTake

Less(f, g, S) == \A x \in S : f[x] <= g[x]

LEMMA SumLess ==
  ASSUME NEW S, IsFiniteSet(S), NEW f, NEW g, Numbers(f, S), Numbers(g, S), Less(f, g, S)
  PROVE  SumFunctionOnSet(f, S) <= SumFunctionOnSet(g, S)
<1> DEFINE F == {T \in SUBSET S : SumFunctionOnSet(f, T) <= SumFunctionOnSet(g, T)}
<1>1. {} \in F
  BY SumEmpty
<1>2. ASSUME NEW T \in SUBSET S, T # {}, \A x \in T : T \ {x} \in F
      PROVE  T \in F
  <2>1. PICK x \in T : TRUE
    BY <1>2
  <2>2. T \ {x} \in F /\ T \ {x} \in SUBSET S
    BY <1>2
  <2>3. f[x] \in Int /\ g[x] \in Int /\ f[x] <= g[x]
    BY DEF Numbers, Less
  <2>4. /\ SumFunctionOnSet(f, T) = f[x] + SumFunctionOnSet(f, T \ {x})
        /\ SumFunctionOnSet(f, T \ {x}) \in Int
    BY <2>2, SumTakes
  <2>5. /\ SumFunctionOnSet(g, T) = g[x] + SumFunctionOnSet(g, T \ {x})
        /\ SumFunctionOnSet(g, T \ {x}) \in Int
    BY <2>2, SumTakes
  <2> QED
    BY <2>2, <2>3, <2>4, <2>5
<1>3. S \in F
  <2> HIDE DEF F
  <2>1. \A T \in SUBSET S : T \in F
    BY <1>1, <1>2, AllSubsets
  <2> QED
    BY <2>1
<1> QED
  BY <1>3

LEMMA SumSame ==
  ASSUME NEW S, IsFiniteSet(S), NEW f, NEW g, Numbers(f, S), \A x \in S : f[x] = g[x]
  PROVE  SumFunctionOnSet(f, S) = SumFunctionOnSet(g, S)
<1>1. Numbers(g, S) /\ Less(f, g, S) /\ Less(g, f, S)
  BY DEF Numbers, Less
<1>2. SumFunctionOnSet(f, S) \in Int /\ SumFunctionOnSet(g, S) \in Int
  BY <1>1, SumTake
<1> QED
  BY <1>1, <1>2, SumLess

IsPlus(h, f, g, S) == \A x \in S : h[x] = f[x] + g[x]

LEMMA SumPlus ==
  ASSUME NEW S, IsFiniteSet(S), NEW f, NEW g, NEW h, Numbers(f, S), Numbers(g, S),
         IsPlus(h, f, g, S)
  PROVE  SumFunctionOnSet(h, S) = SumFunctionOnSet(f, S) + SumFunctionOnSet(g, S)
<1> DEFINE F == {T \in SUBSET S :
       SumFunctionOnSet(h, T) = SumFunctionOnSet(f, T) + SumFunctionOnSet(g, T)}
<1>0. Numbers(h, S)
  BY DEF Numbers, IsPlus
<1>1. {} \in F
  BY SumEmpty
<1>2. ASSUME NEW T \in SUBSET S, T # {}, \A x \in T : T \ {x} \in F
      PROVE  T \in F
  <2>1. PICK x \in T : TRUE
    BY <1>2
  <2>2. T \ {x} \in F /\ T \ {x} \in SUBSET S
    BY <1>2
  <2>3. f[x] \in Int /\ g[x] \in Int /\ h[x] = f[x] + g[x]
    BY DEF Numbers, IsPlus
  <2>4. /\ SumFunctionOnSet(f, T) = f[x] + SumFunctionOnSet(f, T \ {x})
        /\ SumFunctionOnSet(f, T \ {x}) \in Int
    BY <2>2, SumTakes
  <2>5. /\ SumFunctionOnSet(g, T) = g[x] + SumFunctionOnSet(g, T \ {x})
        /\ SumFunctionOnSet(g, T \ {x}) \in Int
    BY <2>2, SumTakes
  <2>6. SumFunctionOnSet(h, T) = h[x] + SumFunctionOnSet(h, T \ {x})
    BY <2>2, <1>0, SumTakes
  <2> QED
    BY <2>2, <2>3, <2>4, <2>5, <2>6
<1>3. S \in F
  <2> HIDE DEF F
  <2>1. \A T \in SUBSET S : T \in F
    BY <1>1, <1>2, AllSubsets
  <2> QED
    BY <2>1
<1> QED
  BY <1>3

\* A part and the rest.
LEMMA SumSplit ==
  ASSUME NEW S, IsFiniteSet(S), NEW f, Numbers(f, S), NEW U \in SUBSET S, NEW R, R = S \ U
  PROVE  /\ SumFunctionOnSet(f, U) \in Int /\ SumFunctionOnSet(f, R) \in Int
         /\ SumFunctionOnSet(f, S) = SumFunctionOnSet(f, U) + SumFunctionOnSet(f, R)
<1> DEFINE In == [T \in SUBSET S |-> T \cap U]
           Out == [T \in SUBSET S |-> T \ U]
           Sum == [T \in SUBSET S |-> SumFunctionOnSet(f, T)]
           F == {T \in SUBSET S : Sum[T] = Sum[In[T]] + Sum[Out[T]]}
<1>0. \A T \in SUBSET S : In[T] \in SUBSET S /\ Out[T] \in SUBSET S /\ Sum[T] \in Int
  BY SumTakes
<1>1. ASSUME NEW T \in SUBSET S, NEW x \in T
      PROVE  Sum[T] = f[x] + Sum[T \ {x}] /\ f[x] \in Int /\ T \ {x} \in SUBSET S
  BY SumTakes DEF Numbers
<1>2. ASSUME NEW T \in SUBSET S, NEW x \in T
      PROVE  IF x \in U THEN x \in In[T] /\ In[T \ {x}] = In[T] \ {x} /\ Out[T \ {x}] = Out[T]
             ELSE x \in Out[T] /\ Out[T \ {x}] = Out[T] \ {x} /\ In[T \ {x}] = In[T]
  BY <1>1
<1>3. {} \in F
  <2>1. In[{}] = {} /\ Out[{}] = {} /\ Sum[{}] = 0
    BY SumEmpty
  <2> QED
    BY <2>1
<1>a. In[S] = U /\ Out[S] = R /\ U \in SUBSET S /\ R \in SUBSET S
  OBVIOUS
<1>b. \A T \in SUBSET S : Sum[T] = SumFunctionOnSet(f, T)
  OBVIOUS
<1> HIDE DEF In, Out, Sum
<1>4. ASSUME NEW T \in SUBSET S, T # {}, \A x \in T : T \ {x} \in F
      PROVE  T \in F
  <2>1. PICK x \in T : TRUE
    BY <1>4
  <2>2. PICK V \in SUBSET S : V = T \ {x} /\ V \in F
    BY <1>4, <2>1
  <2>3. Sum[V] = Sum[In[V]] + Sum[Out[V]] /\ Sum[T] = f[x] + Sum[V] /\ f[x] \in Int
    BY <2>2, <1>1
  <2>4. In[T] \in SUBSET S /\ Out[T] \in SUBSET S /\ In[V] \in SUBSET S /\ Out[V] \in SUBSET S
    BY <1>0
  <2>5. Sum[In[T]] \in Int /\ Sum[Out[T]] \in Int /\ Sum[In[V]] \in Int /\ Sum[Out[V]] \in Int
    BY <2>4, <1>0
  <2>6. CASE x \in U
    <3>1. x \in In[T] /\ In[V] = In[T] \ {x} /\ Out[V] = Out[T]
      BY <2>2, <2>6, <1>2
    <3>2. Sum[In[T]] = f[x] + Sum[In[V]]
      BY <3>1, <2>4, <1>1
    <3>3. Sum[T] = Sum[In[T]] + Sum[Out[T]]
      BY <2>3, <2>5, <3>1, <3>2
    <3> QED
      BY <3>3
  <2>7. CASE x \notin U
    <3>1. x \in Out[T] /\ Out[V] = Out[T] \ {x} /\ In[V] = In[T]
      BY <2>2, <2>7, <1>2
    <3>2. Sum[Out[T]] = f[x] + Sum[Out[V]]
      BY <3>1, <2>4, <1>1
    <3>3. Sum[T] = Sum[In[T]] + Sum[Out[T]]
      BY <2>3, <2>5, <3>1, <3>2
    <3> QED
      BY <3>3
  <2> QED
    BY <2>6, <2>7
<1>5. S \in F
  <2> HIDE DEF F
  <2>1. \A T \in SUBSET S : T \in F
    BY <1>3, <1>4, AllSubsets
  <2> QED
    BY <2>1
<1> QED
  BY <1>0, <1>5, <1>a, <1>b

\* Where no number is negative, no sum is, and a part is no more than the whole.
Naturals0(f, S) == \A x \in S : f[x] \in Nat

LEMMA SumNat ==
  ASSUME NEW S, IsFiniteSet(S), NEW f, Naturals0(f, S), NEW U \in SUBSET S
  PROVE  /\ SumFunctionOnSet(f, S) \in Nat /\ SumFunctionOnSet(f, U) \in Nat
         /\ SumFunctionOnSet(f, U) <= SumFunctionOnSet(f, S)
         /\ \A x \in S : f[x] <= SumFunctionOnSet(f, S)
<1> DEFINE F == {T \in SUBSET S : SumFunctionOnSet(f, T) \in Nat}
<1>0. Numbers(f, S)
  BY DEF Numbers, Naturals0
<1>1. {} \in F
  BY SumEmpty
<1>2. ASSUME NEW T \in SUBSET S, T # {}, \A x \in T : T \ {x} \in F
      PROVE  T \in F
  <2>1. PICK x \in T : TRUE
    BY <1>2
  <2>2. T \ {x} \in F /\ f[x] \in Nat
    BY <1>2 DEF Naturals0
  <2>3. SumFunctionOnSet(f, T) = f[x] + SumFunctionOnSet(f, T \ {x})
    BY <1>0, SumTakes
  <2> QED
    BY <2>2, <2>3
<1>3. \A T \in SUBSET S : T \in F
  <2> HIDE DEF F
  <2> QED
    BY <1>1, <1>2, AllSubsets
<1>4. PICK R : R = S \ U
  OBVIOUS
<1>5. SumFunctionOnSet(f, S) = SumFunctionOnSet(f, U) + SumFunctionOnSet(f, R)
  BY <1>0, <1>4, SumSplit
<1>6. ASSUME NEW x \in S
      PROVE  f[x] <= SumFunctionOnSet(f, S)
  <2>1. SumFunctionOnSet(f, S) = f[x] + SumFunctionOnSet(f, S \ {x})
    BY <1>0, SumTake
  <2>2. S \ {x} \in F /\ f[x] \in Nat
    BY <1>3 DEF Naturals0
  <2> QED
    BY <2>1, <2>2
<1>7. /\ SumFunctionOnSet(f, U) \in Nat /\ SumFunctionOnSet(f, R) \in Nat
      /\ SumFunctionOnSet(f, S) \in Nat
  <2>1. U \in F /\ R \in F /\ S \in F
    BY <1>3, <1>4
  <2> QED
    BY <2>1
<1> HIDE DEF F
<1> QED
  BY <1>5, <1>6, <1>7

-----------------------------------------------------------------------------
(* Splits.                                                                 *)

Positive == Nat \ {0}

LEMMA TimesPositive == \A a, b \in Positive : a * b \in Positive
BY DEF Positive

LEMMA ProductPositive ==
  ASSUME NEW S, IsFiniteSet(S), NEW f, \A x \in S : f[x] \in Positive
  PROVE  FoldFunctionOnSet(LAMBDA x, y : x * y, 1, f, S) \in Positive
<1> DEFINE step == [p \in S \X Positive |-> f[p[1]] * p[2]]
           Eq(i) == i = [s \in SUBSET S |->
              IF s = {} THEN 1
              ELSE f[CHOOSE x \in s : TRUE] * i[s \ {CHOOSE x \in s : TRUE}]]
           iter == CHOOSE i : Eq(i)
<1>1. step \in [S \X Positive -> Positive]
  BY TimesPositive
<1>2. 1 \in Positive /\ AnyOf(S) \in Chooser(S)
  BY AnyChooses DEF Positive
<1>3. PICK g \in [SUBSET S -> Positive] : IsFold(g, S, 1, AnyOf(S), step)
  <2> HIDE DEF step
  <2> QED
    BY <1>1, <1>2, FoldExists
<1>4. Eq(g)
  BY <1>3 DEF IsFold, AnyOf
<1>5. Eq(iter)
  BY <1>4
<1>6. FoldFunctionOnSet(LAMBDA x, y : x * y, 1, f, S) = iter[S]
  BY DEF FoldFunctionOnSet, MapThenFoldSet
<1>7. \A T \in SUBSET S : iter[T] = IF T = {} THEN 1
              ELSE f[CHOOSE x \in T : TRUE] * iter[T \ {CHOOSE x \in T : TRUE}]
  BY <1>5
<1> DEFINE F == {T \in SUBSET S : iter[T] \in Positive}
<1> HIDE DEF iter
<1>8. {} \in F
  BY <1>2, <1>7
<1>9. ASSUME NEW T \in SUBSET S, T # {}, \A x \in T : T \ {x} \in F
      PROVE  T \in F
  <2>1. PICK c \in T : c = CHOOSE x \in T : TRUE
    BY <1>9
  <2>2. iter[T] = f[c] * iter[T \ {c}]
    BY <1>7, <1>9, <2>1
  <2>3. f[c] \in Positive /\ iter[T \ {c}] \in Positive
    BY <1>9
  <2> QED
    BY <2>2, <2>3, TimesPositive
<1>10. S \in F
  <2> HIDE DEF F
  <2>1. \A T \in SUBSET S : T \in F
    BY <1>8, <1>9, AllSubsets
  <2> QED
    BY <2>1
<1> QED
  BY <1>6, <1>10

\* A symbol's recorded corporate actions: finitely many, a ratio a quotient.
Actions ==
  {A \in SUBSET [action_type : STRING, ex_date : Nat, ratio : {None} \cup (Int \X Positive)] :
     IsFiniteSet(A)}

Factor == Positive \X Positive

LEMMA FactorPositive ==
  ASSUME NEW A \in Actions, NEW from, NEW as_of
  PROVE  split_factor(A, from, as_of) \in Factor
<1> DEFINE due == {a \in parse_actions(A).splits :
                     from < a.ex_date /\ (as_of = None \/ a.ex_date <= as_of)}
           f(j) == [a \in due |-> a.ratio[j]]
<1>1. due \in SUBSET A /\ \A a \in due : a.ratio # None /\ a.ratio[1] > 0
  BY DEF parse_actions
<1>2. \A a \in A : a.ratio # None => a.ratio \in Int \X Positive
  BY DEF Actions
<1>3. IsFiniteSet(due)
  BY <1>1, FS_Subset DEF Actions
<1> HIDE DEF due
<1>4. \A a \in due : a.ratio[1] \in Positive /\ a.ratio[2] \in Positive
  BY <1>1, <1>2 DEF Positive
<1>5. (\A a \in due : f(1)[a] \in Positive) /\ (\A a \in due : f(2)[a] \in Positive)
  BY <1>4
<1>6. /\ FoldFunctionOnSet(LAMBDA x, y : x * y, 1, f(1), due) \in Positive
      /\ FoldFunctionOnSet(LAMBDA x, y : x * y, 1, f(2), due) \in Positive
  <2> HIDE DEF f
  <2> QED
    BY <1>3, <1>5, ProductPositive
<1> QED
  BY <1>6 DEF split_factor, RatioProduct, due, Factor

\* The lot of a row in the units in force.
Lot(t, A, as_of) == restate(t, split_factor(A, t.date, as_of))

LEMMA LotTyped ==
  ASSUME NEW A \in Actions, NEW t \in Row, NEW as_of
  PROVE  Lot(t, A, as_of) \in [qty : Nat, price : Nat]
<1>1. PICK f \in Factor : f = split_factor(A, t.date, as_of)
  BY FactorPositive
<1>2. \A a, b \in Nat, c \in Positive : (a * b) \div c \in Nat
  <2>1. \A a, b \in Nat : a * b \in Nat
    OBVIOUS
  <2>2. \A a \in Nat, c \in Positive : a \div c \in Nat
    BY DEF Positive
  <2> QED
    BY <2>1, <2>2
<1>3. t.qty \in Nat /\ t.price \in Nat /\ f[1] \in Positive /\ f[2] \in Positive
  BY DEF Row, Factor
<1>4. f[1] \in Nat /\ f[2] \in Nat
  BY <1>3 DEF Positive
<1>5. (t.qty * f[2]) \div f[1] \in Nat /\ (t.price * f[1]) \div f[2] \in Nat
  BY <1>2, <1>3, <1>4
<1> QED
  BY <1>1, <1>5 DEF Lot, restate

-----------------------------------------------------------------------------
(* The loop over the rows.                                                 *)

\* The holding of s after k rows, from the one before.
NextHolding(book, s, A, as_of, k, h) ==
  IF book[k].symbol = s THEN FoldTxn(h, book[k], A, as_of) ELSE h

LEMMA Loop ==
  ASSUME NEW book, Len(book) \in Nat, NEW s, NEW A, NEW as_of
  PROVE  LET h == HoldingAfter(book, s, A, as_of)
         IN /\ h[0] = NewHolding
            /\ \A k \in 1 .. Len(book) : h[k] = NextHolding(book, s, A, as_of, k, h[k - 1])
<1> DEFINE Eq(g, n) == g = [k \in 0 .. n |->
              IF k = 0 THEN NewHolding
              ELSE IF book[k].symbol = s THEN FoldTxn(g[k - 1], book[k], A, as_of)
              ELSE g[k - 1]]
           N == {n \in Nat : \E g : Eq(g, n)}
           h == HoldingAfter(book, s, A, as_of)
<1>1. 0 \in N
  <2>1. Eq([k \in 0 .. 0 |-> NewHolding], 0)
    OBVIOUS
  <2> QED
    BY <2>1
<1>2. ASSUME NEW n \in N
      PROVE  n + 1 \in N
  <2>1. PICK g : Eq(g, n)
    OBVIOUS
  <2> DEFINE e == [k \in 0 .. n + 1 |->
              IF k = 0 THEN NewHolding
              ELSE IF book[k].symbol = s THEN FoldTxn(g[k - 1], book[k], A, as_of)
              ELSE g[k - 1]]
  <2>2. \A k \in 0 .. n : e[k] = g[k]
    BY <2>1
  <2>3. \A k \in 0 .. n + 1 : k # 0 => k - 1 \in 0 .. n
    OBVIOUS
  <2>4. Eq(e, n + 1)
    BY <2>2, <2>3
  <2> HIDE DEF e
  <2> QED
    BY <2>4
<1>3. Len(book) \in N
  <2> HIDE DEF N
  <2>1. N = Nat
    <3>1. N \in SUBSET Nat
      BY DEF N
    <3> QED
      BY <1>1, <1>2, <3>1, AllNumbers
  <2> QED
    BY <2>1
<1>4. h = CHOOSE g : Eq(g, Len(book))
  BY DEF HoldingAfter
<1>5. Eq(h, Len(book))
  BY <1>3, <1>4
<1> HIDE DEF h
<1>6. h[0] = NewHolding /\ \A k \in 1 .. Len(book) : h[k] = NextHolding(book, s, A, as_of, k, h[k - 1])
  BY <1>5 DEF NextHolding
<1> QED
  BY <1>6 DEF h

\* What holds before the loop and is kept by each row holds after each.
LEMMA LoopKeeps ==
  ASSUME NEW n \in Nat, NEW Good, 0 \in Good,
         \A k \in 1 .. n : k - 1 \in Good => k \in Good
  PROVE  \A k \in 0 .. n : k \in Good
<1> DEFINE N == {k \in Nat : k <= n => k \in Good}
<1>1. N \in SUBSET Nat /\ 0 \in N
  OBVIOUS
<1>2. ASSUME NEW k \in N
      PROVE  k + 1 \in N
  <2>1. CASE k + 1 <= n
    <3>1. k + 1 \in 1 .. n /\ (k + 1) - 1 = k /\ k \in Good
      BY <2>1
    <3> QED
      BY <3>1
  <2> QED
    BY <2>1
<1>3. N = Nat
  <2> HIDE DEF N
  <2> QED
    BY <1>1, <1>2, AllNumbers
<1> QED
  BY <1>3

-----------------------------------------------------------------------------
(* What a row does to a holding.                                           *)

Money == Int \cup {None}

Sale == [when : Nat, qty : Nat, proceeds : Int, cost_released : Int, fee : Nat,
         realized_pl : Int, cost_released_base : Money, fee_base : Money,
         realized_pl_base : Money, oversold : BOOLEAN]

ClosedTrade == [qty : Int, opened_on : Nat \cup {None}, closed_on : Nat, cost : Int,
                proceeds : Int, fees : Int, realized_pl : Int, realized_pl_base : Money,
                sales : Nat]

Holding ==
  [qty : Int, cost_basis : Int, cost_basis_base : Int, fx_complete : BOOLEAN,
   currencies : SUBSET {"THB", "USD"}, realized_fees : Nat, sales : Seq(Sale),
   closed_trades : Seq(ClosedTrade), opened_on : Nat \cup {None}, round_open_index : Nat,
   split_adjusted : BOOLEAN, rights_unstatable : BOOLEAN]

LEMMA NewTyped == NewHolding \in Holding
BY DEF NewHolding, Holding

LEMMA RateOfRow ==
  ASSUME NEW t \in Row
  PROVE  TxnFxRate(t) \in Positive \cup {None}
BY DEF Row, TxnFxRate, BASE_CURRENCY, Positive

\* The flags of a row, set before its lot is booked.
Flagged(h, t, A, as_of) ==
  LET f == split_factor(A, t.date, as_of)
  IN [h EXCEPT !.currencies = @ \cup {t.currency},
               !.split_adjusted = @ \/ f[1] # f[2],
               !.rights_unstatable = @ \/ parse_actions(A).has_rights]

LEMMA FlagsOnly ==
  ASSUME NEW h \in Holding, NEW t \in Row, NEW A, NEW as_of
  PROVE  LET g == Flagged(h, t, A, as_of)
         IN /\ g \in Holding
            /\ g.qty = h.qty /\ g.currencies = h.currencies \cup {t.currency}
            /\ g.cost_basis = h.cost_basis /\ g.cost_basis_base = h.cost_basis_base
            /\ g.fx_complete = h.fx_complete /\ g.opened_on = h.opened_on
            /\ g.sales = h.sales /\ g.closed_trades = h.closed_trades
            /\ g.round_open_index = h.round_open_index /\ g.realized_fees = h.realized_fees
<1> DEFINE f == split_factor(A, t.date, as_of)
<1>1. PICK c \in SUBSET {"THB", "USD"} : c = h.currencies \cup {t.currency}
  BY DEF Holding, Row
<1>2. PICK a \in BOOLEAN : a = (h.split_adjusted \/ f[1] # f[2])
  OBVIOUS
<1>3. PICK r \in BOOLEAN : r = (h.rights_unstatable \/ parse_actions(A).has_rights)
  OBVIOUS
<1>4. Flagged(h, t, A, as_of)
        = [h EXCEPT !.currencies = c, !.split_adjusted = a, !.rights_unstatable = r]
  BY <1>1, <1>2, <1>3 DEF Flagged
<1>5. PICK n \in Holding : n = [h EXCEPT !.currencies = c, !.split_adjusted = a]
  BY DEF Holding
<1>6. PICK g \in Holding : g = [n EXCEPT !.rights_unstatable = r]
  BY DEF Holding
<1>7. Flagged(h, t, A, as_of) = g
  BY <1>4, <1>5, <1>6 DEF Holding
<1>8. /\ g.qty = h.qty /\ g.currencies = c
      /\ g.cost_basis = h.cost_basis /\ g.cost_basis_base = h.cost_basis_base
      /\ g.fx_complete = h.fx_complete /\ g.opened_on = h.opened_on
      /\ g.sales = h.sales /\ g.closed_trades = h.closed_trades
      /\ g.round_open_index = h.round_open_index /\ g.realized_fees = h.realized_fees
  BY <1>5, <1>6 DEF Holding
<1> QED
  BY <1>1, <1>7, <1>8

LEMMA Bought ==
  ASSUME NEW h \in Holding, NEW t \in Row, t.type = "BUY", NEW A \in Actions, NEW as_of
  PROVE  LET n == FoldTxn(h, t, A, as_of)
             lot == Lot(t, A, as_of)
             rate == TxnFxRate(t)
         IN /\ n \in Holding
            /\ n.qty = h.qty + lot.qty
            /\ n.currencies = h.currencies \cup {t.currency}
            /\ n.cost_basis = h.cost_basis + lot_cost(lot, t)
            /\ n.cost_basis_base = IF rate = None THEN h.cost_basis_base
                                   ELSE h.cost_basis_base + lot_cost(lot, t) * rate
            /\ n.fx_complete = (h.fx_complete /\ rate # None)
            /\ n.opened_on = IF h.opened_on = None THEN t.date ELSE h.opened_on
            /\ n.sales = h.sales /\ n.closed_trades = h.closed_trades
            /\ n.round_open_index = h.round_open_index /\ n.realized_fees = h.realized_fees
<1>1. PICK lot \in [qty : Nat, price : Nat] : lot = Lot(t, A, as_of)
  BY LotTyped
<1>2. PICK rate \in Int \cup {None} : rate = TxnFxRate(t)
  <2>1. TxnFxRate(t) \in Positive \cup {None}
    BY RateOfRow
  <2>2. TxnFxRate(t) \in Int \cup {None}
    BY <2>1 DEF Positive
  <2> QED
    BY <2>2
<1>3. PICK cost \in Int : cost = lot_cost(lot, t)
  <2>1. lot.qty * lot.price \in Nat /\ t.fee \in Nat
    BY DEF Row
  <2> QED
    BY <2>1 DEF lot_cost
<1>4. PICK g : g = Flagged(h, t, A, as_of)
  OBVIOUS
<1>5. FoldTxn(h, t, A, as_of) = Buy(g, lot, t)
  BY <1>1, <1>4 DEF FoldTxn, Flagged, Lot
<1>6. /\ g \in Holding
      /\ g.qty = h.qty /\ g.currencies = h.currencies \cup {t.currency}
      /\ g.cost_basis = h.cost_basis /\ g.cost_basis_base = h.cost_basis_base
      /\ g.fx_complete = h.fx_complete /\ g.opened_on = h.opened_on
      /\ g.sales = h.sales /\ g.closed_trades = h.closed_trades
      /\ g.round_open_index = h.round_open_index /\ g.realized_fees = h.realized_fees
  BY <1>4, FlagsOnly
<1>7. PICK base \in Int : base = IF rate = None THEN h.cost_basis_base ELSE h.cost_basis_base + cost * rate
  <2>1. rate # None => cost * rate \in Int
    OBVIOUS
  <2> QED
    BY <2>1 DEF Holding
<1>8. PICK day \in Nat \cup {None} : day = IF h.opened_on = None THEN t.date ELSE h.opened_on
  BY DEF Holding, Row
<1>9. PICK fx \in BOOLEAN : fx = (h.fx_complete /\ rate # None)
  OBVIOUS
<1>10. PICK qty \in Int : qty = h.qty + lot.qty
  BY DEF Holding
<1>11. PICK sum \in Int : sum = h.cost_basis + cost
  BY DEF Holding
<1>12. Buy(g, lot, t) = [g EXCEPT !.opened_on = day, !.qty = qty, !.cost_basis = sum,
                                 !.cost_basis_base = base, !.fx_complete = fx]
  BY <1>2, <1>3, <1>6, <1>7, <1>8, <1>9, <1>10, <1>11 DEF Buy, complete_with
<1>13. PICK n1 \in Holding : n1 = [g EXCEPT !.opened_on = day, !.qty = qty]
  BY <1>6 DEF Holding
<1>14. PICK n2 \in Holding : n2 = [n1 EXCEPT !.cost_basis = sum, !.cost_basis_base = base]
  BY DEF Holding
<1>15. PICK n \in Holding : n = [n2 EXCEPT !.fx_complete = fx]
  BY DEF Holding
<1>16. FoldTxn(h, t, A, as_of) = n
  BY <1>5, <1>6, <1>12, <1>13, <1>14, <1>15 DEF Holding
<1>17. /\ n.qty = qty /\ n.currencies = g.currencies
       /\ n.cost_basis = sum /\ n.cost_basis_base = base /\ n.fx_complete = fx
       /\ n.opened_on = day /\ n.sales = g.sales /\ n.closed_trades = g.closed_trades
       /\ n.round_open_index = g.round_open_index /\ n.realized_fees = g.realized_fees
  BY <1>6, <1>13, <1>14, <1>15 DEF Holding
<1> QED
  BY <1>1, <1>2, <1>3, <1>6, <1>7, <1>8, <1>9, <1>10, <1>11, <1>16, <1>17

LEMMA SaleTyped ==
  ASSUME NEW h \in Holding, NEW t \in Row, NEW lot \in [qty : Nat, price : Nat]
  PROVE  /\ Released(h.cost_basis, lot.qty, h) \in Int
         /\ Released(h.cost_basis_base, lot.qty, h) \in Int
         /\ RealizedSale(h, lot, t) \in Sale
<1>1. \A c \in Int : Released(c, lot.qty, h) \in Int
  <2> SUFFICES ASSUME NEW c \in Int
               PROVE  Released(c, lot.qty, h) \in Int
    OBVIOUS
  <2>1. lot.qty * c \in Int /\ h.qty \in Int
    BY DEF Holding
  <2>2. \A a \in Int, b \in Positive : a \div b \in Int
    BY DEF Positive
  <2>3. h.qty > 0 => h.qty \in Positive
    BY <2>1 DEF Positive
  <2> QED
    BY <2>1, <2>2, <2>3 DEF Released
<1>2. PICK cost \in Int : cost = Released(h.cost_basis, lot.qty, h)
  BY <1>1 DEF Holding
<1>3. PICK base \in Int : base = Released(h.cost_basis_base, lot.qty, h)
  BY <1>1 DEF Holding
<1>4. PICK proceeds \in Int : proceeds = lot.qty * lot.price
  OBVIOUS
<1>5. TxnFxRate(t) \in Int \cup {None}
  <2>1. TxnFxRate(t) \in Positive \cup {None}
    BY RateOfRow
  <2> QED
    BY <2>1 DEF Positive
<1>6. PICK rate \in Int \cup {None} : rate = TxnFxRate(t)
  BY <1>5
<1>7. t.fee \in Nat /\ t.date \in Nat
  BY DEF Row
<1>8. PICK x \in Int, y \in Int : rate # None => x = proceeds * rate /\ y = t.fee * rate
  <2>1. rate # None => t.fee * rate \in Int /\ proceeds * rate \in Int
    BY <1>7
  <2> QED
    BY <2>1
<1> DEFINE ok == h.fx_complete /\ rate # None
<1>9. PICK a \in Money : a = IF ok THEN base ELSE None
  BY DEF Money
<1>10. PICK b \in Money : b = IF ok THEN y ELSE None
  BY DEF Money
<1>11. PICK z \in Int : z = x - base - y
  OBVIOUS
<1>14. PICK c \in Money : c = IF ok THEN z ELSE None
  BY DEF Money
<1>12. RealizedSale(h, lot, t) =
         [when |-> t.date, qty |-> lot.qty, proceeds |-> proceeds, cost_released |-> cost,
          fee |-> t.fee, realized_pl |-> proceeds - cost - t.fee,
          cost_released_base |-> a, fee_base |-> b, realized_pl_base |-> c,
          oversold |-> lot.qty > h.qty]
  BY <1>2, <1>3, <1>4, <1>6, <1>8, <1>9, <1>10, <1>11, <1>14 DEF RealizedSale
<1>13. PICK pl \in Int : pl = proceeds - cost - t.fee
  BY <1>7
<1> QED
  BY <1>2, <1>3, <1>7, <1>12, <1>13 DEF Sale

\* Domains of sequences are finite.
LEMMA DomainFinite ==
  ASSUME NEW T, NEW q \in Seq(T)
  PROVE  /\ Len(q) \in Nat /\ DOMAIN q = 1 .. Len(q) /\ IsFiniteSet(DOMAIN q)
         /\ \A i \in DOMAIN q : q[i] \in T
<1>1. Len(q) \in Nat /\ DOMAIN q = 1 .. Len(q) /\ \A i \in 1 .. Len(q) : q[i] \in T
  OBVIOUS
<1>2. IsFiniteSet(1 .. Len(q))
  BY <1>1, FS_Interval
<1> QED
  BY <1>1, <1>2

LEMMA TripTyped ==
  ASSUME NEW legs \in Seq(Sale), legs # <<>>, NEW day \in Nat \cup {None}
  PROVE  ClosedTradeOf(legs, day) \in ClosedTrade
<1> DEFINE D == DOMAIN legs
           f(F) == [i \in D |-> legs[i][F]]
<1>1. Len(legs) \in Nat \ {0} /\ D = 1 .. Len(legs) /\ IsFiniteSet(D) /\ \A i \in D : legs[i] \in Sale
  BY DomainFinite
<1>2. Last(legs).when \in Nat
  <2>1. legs[Len(legs)] \in Sale
    BY <1>1
  <2> QED
    BY <2>1 DEF Last, Sale
<1>3. /\ SumFunctionOnSet(f("qty"), D) \in Int /\ SumFunctionOnSet(f("cost_released"), D) \in Int
      /\ SumFunctionOnSet(f("proceeds"), D) \in Int /\ SumFunctionOnSet(f("fee"), D) \in Int
      /\ SumFunctionOnSet(f("realized_pl"), D) \in Int
  <2>1. /\ Numbers(f("qty"), D) /\ Numbers(f("cost_released"), D) /\ Numbers(f("proceeds"), D)
        /\ Numbers(f("fee"), D) /\ Numbers(f("realized_pl"), D)
    BY <1>1 DEF Sale, Numbers
  <2> HIDE DEF f, D
  <2> QED
    BY <2>1, <1>1, SumTake
<1>4. Convertible(legs) = D => SumFunctionOnSet(f("realized_pl_base"), D) \in Int
  <2>1. ASSUME Convertible(legs) = D
        PROVE  \A i \in D : f("realized_pl_base")[i] \in Int
    BY <1>1, <2>1 DEF Sale, Convertible, Money
  <2> HIDE DEF f, D
  <2> QED
    BY <2>1, <1>1, SumTake DEF Numbers
<1> QED
  BY <1>1, <1>2, <1>3, <1>4 DEF ClosedTradeOf, ClosedTrade, SumOver, SumOf, Money

\* A sale that leaves some of the position, and one that closes it.
Reduces(h, n, lot) ==
  /\ n.qty # 0
  /\ n.cost_basis = h.cost_basis - Released(h.cost_basis, lot.qty, h)
  /\ n.cost_basis_base = h.cost_basis_base - Released(h.cost_basis_base, lot.qty, h)
  /\ n.fx_complete = h.fx_complete /\ n.opened_on = h.opened_on
  /\ n.closed_trades = h.closed_trades
  /\ n.round_open_index = h.round_open_index
Closes(h, n, legs) ==
  /\ n.qty = 0 /\ n.cost_basis = 0 /\ n.cost_basis_base = 0 /\ n.fx_complete = TRUE
  /\ n.opened_on = None /\ n.round_open_index = Len(n.sales)
  /\ legs \in Seq(Sale) /\ legs # <<>>
  /\ n.closed_trades = Append(h.closed_trades, ClosedTradeOf(legs, h.opened_on))
SoldFrom(h, n, t, lot) ==
  /\ n \in Holding
  /\ n.qty = h.qty - lot.qty
  /\ n.currencies = h.currencies \cup {t.currency}
  /\ n.realized_fees = h.realized_fees + t.fee
  /\ n.sales = Append(h.sales, RealizedSale(h, lot, t))
  /\ \/ Reduces(h, n, lot)
     \/ Closes(h, n, SubSeq(n.sales, h.round_open_index + 1, Len(n.sales)))

LEMMA Sold ==
  ASSUME NEW h \in Holding, h.round_open_index <= Len(h.sales), NEW t \in Row, t.type # "BUY",
         NEW A \in Actions, NEW as_of
  PROVE  SoldFrom(h, FoldTxn(h, t, A, as_of), t, Lot(t, A, as_of))
<1>1. PICK lot \in [qty : Nat, price : Nat] : lot = Lot(t, A, as_of)
  BY LotTyped
<1>2. PICK g \in Holding :
        /\ g = Flagged(h, t, A, as_of)
        /\ g.qty = h.qty /\ g.currencies = h.currencies \cup {t.currency}
        /\ g.cost_basis = h.cost_basis /\ g.cost_basis_base = h.cost_basis_base
        /\ g.fx_complete = h.fx_complete /\ g.opened_on = h.opened_on
        /\ g.sales = h.sales /\ g.closed_trades = h.closed_trades
        /\ g.round_open_index = h.round_open_index /\ g.realized_fees = h.realized_fees
  BY FlagsOnly
<1>3. FoldTxn(h, t, A, as_of) = Sell(g, lot, t)
  BY <1>1, <1>2 DEF FoldTxn, Flagged, Lot
<1>4. PICK sale \in Sale : sale = RealizedSale(g, lot, t) /\ sale = RealizedSale(h, lot, t)
  <2>1. RealizedSale(g, lot, t) = RealizedSale(h, lot, t)
    BY <1>2 DEF RealizedSale, Released
  <2> QED
    BY <2>1, SaleTyped
<1>5. PICK cost \in Int : cost = g.cost_basis - Released(g.cost_basis, lot.qty, g)
                        /\ cost = h.cost_basis - Released(h.cost_basis, lot.qty, h)
  <2>1. Released(g.cost_basis, lot.qty, g) = Released(h.cost_basis, lot.qty, h)
    BY <1>2 DEF Released
  <2>2. Released(h.cost_basis, lot.qty, h) \in Int /\ h.cost_basis \in Int
    BY SaleTyped DEF Holding
  <2> QED
    BY <1>2, <2>1, <2>2
<1>6. PICK base \in Int : base = g.cost_basis_base - Released(g.cost_basis_base, lot.qty, g)
                        /\ base = h.cost_basis_base - Released(h.cost_basis_base, lot.qty, h)
  <2>1. Released(g.cost_basis_base, lot.qty, g) = Released(h.cost_basis_base, lot.qty, h)
    BY <1>2 DEF Released
  <2>2. Released(h.cost_basis_base, lot.qty, h) \in Int /\ h.cost_basis_base \in Int
    BY SaleTyped DEF Holding
  <2> QED
    BY <1>2, <2>1, <2>2
<1>7. PICK sales \in Seq(Sale) : sales = Append(h.sales, sale)
  <2>1. h.sales \in Seq(Sale)
    BY DEF Holding
  <2>2. Append(h.sales, sale) \in Seq(Sale)
    BY <2>1
  <2> QED
    BY <2>2
<1>8. PICK qty \in Int : qty = h.qty - lot.qty
  BY DEF Holding
<1>9. PICK fees \in Nat : fees = h.realized_fees + t.fee
  <2>1. h.realized_fees \in Nat /\ t.fee \in Nat
    BY DEF Holding, Row
  <2> QED
    BY <2>1
<1> DEFINE after == [g EXCEPT !.qty = @ - lot.qty,
                              !.cost_basis = @ - Released(@, lot.qty, g),
                              !.cost_basis_base = @ - Released(@, lot.qty, g),
                              !.realized_fees = @ + t.fee,
                              !.sales = Append(@, RealizedSale(g, lot, t))]
<1>10. PICK a1 \in Holding : a1 = [g EXCEPT !.qty = qty, !.cost_basis = cost]
  BY DEF Holding
<1>11. PICK a2 \in Holding : a2 = [a1 EXCEPT !.cost_basis_base = base, !.realized_fees = fees]
  BY DEF Holding
<1>12. PICK a \in Holding : a = [a2 EXCEPT !.sales = sales]
  BY DEF Holding
<1>13. after = [g EXCEPT !.qty = qty, !.cost_basis = cost, !.cost_basis_base = base,
                         !.realized_fees = fees, !.sales = sales]
  BY <1>2, <1>4, <1>5, <1>6, <1>7, <1>8, <1>9
<1>14. after = a
  <2> HIDE DEF after
  <2> QED
    BY <1>10, <1>11, <1>12, <1>13 DEF Holding
<1>19. Sell(g, lot, t) = IF a.qty # 0 THEN a ELSE _close_round_trip(Flat(a))
  BY <1>14 DEF Sell
<1> HIDE DEF after
<1>15. /\ a.qty = qty /\ a.currencies = h.currencies \cup {t.currency}
       /\ a.cost_basis = cost /\ a.cost_basis_base = base /\ a.fx_complete = h.fx_complete
       /\ a.opened_on = h.opened_on /\ a.sales = sales /\ a.closed_trades = h.closed_trades
       /\ a.round_open_index = h.round_open_index /\ a.realized_fees = fees
  BY <1>2, <1>10, <1>11, <1>12 DEF Holding
<1>16. Sell(g, lot, t) = IF qty # 0 THEN a ELSE _close_round_trip(Flat(a))
  BY <1>15, <1>19
<1>17. CASE qty # 0
  <2>1. /\ a.qty = h.qty - lot.qty /\ a.sales = Append(h.sales, RealizedSale(h, lot, t))
        /\ a.realized_fees = h.realized_fees + t.fee /\ Reduces(h, a, lot)
    BY <1>4, <1>5, <1>6, <1>7, <1>8, <1>9, <1>15, <1>17 DEF Reduces
  <2> QED
    BY <2>1, <1>1, <1>3, <1>15, <1>16, <1>17 DEF SoldFrom
<1>18. CASE qty = 0
  <2>0. PICK z \in Int : z = 0
    OBVIOUS
  <2>1. PICK b1 \in Holding : b1 = [a EXCEPT !.cost_basis = z, !.cost_basis_base = z]
    BY DEF Holding
  <2>2. PICK b \in Holding : b = [b1 EXCEPT !.fx_complete = TRUE]
    BY DEF Holding
  <2>3. Flat(a) = b
    BY <2>0, <2>1, <2>2 DEF Flat, Holding
  <2>4. /\ b.qty = qty /\ b.currencies = h.currencies \cup {t.currency}
        /\ b.cost_basis = 0 /\ b.cost_basis_base = 0 /\ b.fx_complete = TRUE
        /\ b.opened_on = h.opened_on /\ b.sales = sales /\ b.closed_trades = h.closed_trades
        /\ b.round_open_index = h.round_open_index /\ b.realized_fees = fees
    BY <1>15, <2>0, <2>1, <2>2 DEF Holding
  <2>5. PICK legs \in Seq(Sale) : legs = SubSeq(sales, h.round_open_index + 1, Len(sales)) /\ legs # <<>>
    <3>1. /\ Len(sales) = Len(h.sales) + 1 /\ h.round_open_index \in Nat /\ Len(h.sales) \in Nat
          /\ \A i \in 1 .. Len(sales) : sales[i] \in Sale
      <4>1. h.sales \in Seq(Sale) /\ h.round_open_index \in Nat
        BY DEF Holding
      <4> QED
        BY <1>7, <4>1
    <3>2. SubSeq(sales, h.round_open_index + 1, Len(sales)) \in Seq(Sale)
      BY <3>1
    <3>3. Len(SubSeq(sales, h.round_open_index + 1, Len(sales))) # 0
      BY <3>1
    <3>4. PICK legs : legs = SubSeq(sales, h.round_open_index + 1, Len(sales))
      OBVIOUS
    <3>5. legs \in Seq(Sale) /\ Len(legs) # 0
      BY <3>2, <3>3, <3>4
    <3>6. legs # <<>>
      BY <3>5
    <3> QED
      BY <3>4, <3>5, <3>6
  <2>6. PICK trips \in Seq(ClosedTrade) : trips = Append(h.closed_trades, ClosedTradeOf(legs, h.opened_on))
    <3>1. h.opened_on \in Nat \cup {None} /\ h.closed_trades \in Seq(ClosedTrade)
      BY DEF Holding
    <3>2. ClosedTradeOf(legs, h.opened_on) \in ClosedTrade
      BY <3>1, <2>5, TripTyped
    <3>3. Append(h.closed_trades, ClosedTradeOf(legs, h.opened_on)) \in Seq(ClosedTrade)
      BY <3>1, <3>2
    <3> QED
      BY <3>3
  <2>7. Len(sales) \in Nat
    OBVIOUS
  <2>8. PICK c1 \in Holding : c1 = [b EXCEPT !.opened_on = None, !.round_open_index = Len(sales)]
    BY <2>7 DEF Holding
  <2>9. PICK c \in Holding : c = [c1 EXCEPT !.closed_trades = trips]
    BY DEF Holding
  <2>10. /\ c1.closed_trades = h.closed_trades /\ legs_of(b) = legs
    BY <2>4, <2>5, <2>8 DEF Holding, legs_of
  <2>11. _close_round_trip(b) = c
    BY <2>4, <2>5, <2>6, <2>8, <2>9, <2>10 DEF _close_round_trip
  <2>12. /\ c.qty = qty /\ c.currencies = h.currencies \cup {t.currency}
         /\ c.cost_basis = 0 /\ c.cost_basis_base = 0 /\ c.fx_complete = TRUE
         /\ c.opened_on = None /\ c.sales = sales /\ c.closed_trades = trips
         /\ c.round_open_index = Len(sales) /\ c.realized_fees = fees
    BY <2>4, <2>8, <2>9 DEF Holding
  <2>13. FoldTxn(h, t, A, as_of) = c
    BY <1>3, <1>15, <1>16, <1>18, <2>3, <2>11
  <2>14. /\ c.qty = h.qty - lot.qty /\ c.realized_fees = h.realized_fees + t.fee
         /\ c.sales = Append(h.sales, RealizedSale(h, lot, t))
         /\ Closes(h, c, SubSeq(c.sales, h.round_open_index + 1, Len(c.sales)))
    BY <1>4, <1>7, <1>8, <1>9, <1>18, <2>5, <2>6, <2>12 DEF Closes
  <2> QED
    BY <1>1, <2>12, <2>13, <2>14 DEF SoldFrom
<1> QED
  BY <1>17, <1>18

-----------------------------------------------------------------------------
(* Every row of a book.                                                    *)

Sound(h) == h \in Holding /\ h.round_open_index <= Len(h.sales)

LEMMA NextSound ==
  ASSUME NEW h, Sound(h), NEW t \in Row, NEW A \in Actions, NEW as_of
  PROVE  Sound(FoldTxn(h, t, A, as_of))
<1> DEFINE n == FoldTxn(h, t, A, as_of)
<1>1. h \in Holding /\ h.round_open_index \in Nat /\ h.sales \in Seq(Sale)
  BY DEF Sound, Holding
<1>2. CASE t.type = "BUY"
  <2>1. n \in Holding /\ n.sales = h.sales /\ n.round_open_index = h.round_open_index
    BY <1>1, <1>2, Bought
  <2> QED
    BY <2>1 DEF Sound
<1>3. CASE t.type # "BUY"
  <2>1. PICK sale \in Sale : sale = RealizedSale(h, Lot(t, A, as_of), t)
    BY <1>1, SaleTyped, LotTyped
  <2>2. SoldFrom(h, n, t, Lot(t, A, as_of))
    BY <1>1, <1>3, Sold DEF Sound
  <2> HIDE DEF n
  <2>3. /\ n \in Holding /\ n.sales = Append(h.sales, sale)
        /\ n.round_open_index = h.round_open_index \/ n.round_open_index = Len(n.sales)
    BY <2>1, <2>2 DEF SoldFrom, Reduces, Closes
  <2>4. Len(n.sales) = Len(h.sales) + 1 /\ Len(h.sales) \in Nat
    BY <1>1, <2>3
  <2>5. n.round_open_index <= Len(n.sales)
    BY <1>1, <2>3, <2>4 DEF Sound
  <2>6. Sound(n)
    BY <2>3, <2>5 DEF Sound
  <2> QED
    BY <2>6 DEF n
<1> QED
  BY <1>2, <1>3

LEMMA AllSound ==
  ASSUME NEW book \in Seq(Row), NEW s, NEW A \in Actions, NEW as_of
  PROVE  \A k \in 0 .. Len(book) : Sound(HoldingAfter(book, s, A, as_of)[k])
<1> DEFINE h == HoldingAfter(book, s, A, as_of)
           Good == {k \in 0 .. Len(book) : Sound(h[k])}
<1>1. Len(book) \in Nat /\ \A k \in 1 .. Len(book) : book[k] \in Row
  OBVIOUS
<1>2. h[0] = NewHolding /\ \A k \in 1 .. Len(book) : h[k] = NextHolding(book, s, A, as_of, k, h[k - 1])
  BY <1>1, Loop
<1> HIDE DEF h
<1>3. 0 \in Good
  <2>1. NewHolding.sales = <<>> /\ NewHolding.round_open_index = 0
    BY DEF NewHolding
  <2> QED
    BY <1>1, <1>2, <2>1, NewTyped DEF Sound
<1>4. ASSUME NEW k \in 1 .. Len(book), k - 1 \in Good
      PROVE  k \in Good
  <2>1. Sound(h[k - 1]) /\ book[k] \in Row
    BY <1>1, <1>4
  <2>2. Sound(h[k])
    BY <2>1, <1>2, NextSound DEF NextHolding
  <2> QED
    BY <2>2
<1>5. \A k \in 0 .. Len(book) : k \in Good
  <2> HIDE DEF Good
  <2> QED
    BY <1>1, <1>3, <1>4, LoopKeeps
<1> QED
  BY <1>5 DEF h

\* What a loop's step is: nothing, a purchase or a sale.
LEMMA Steps ==
  ASSUME NEW book \in Seq(Row), NEW s, NEW A \in Actions, NEW as_of,
         NEW k \in 1 .. Len(book)
  PROVE  LET h == HoldingAfter(book, s, A, as_of)
         IN /\ Sound(h[k - 1]) /\ Sound(h[k]) /\ book[k] \in Row
            /\ h[k] = IF book[k].symbol = s THEN FoldTxn(h[k - 1], book[k], A, as_of)
                      ELSE h[k - 1]
<1>1. Len(book) \in Nat /\ book[k] \in Row /\ k - 1 \in 0 .. Len(book) /\ k \in 0 .. Len(book)
  OBVIOUS
<1> QED
  BY <1>1, Loop, AllSound DEF NextHolding

\* The rows of s among the first k.
RowsTo(book, s, k) == {j \in 1 .. k : book[j].symbol = s}

LEMMA NextRows ==
  ASSUME NEW book, NEW s, NEW k \in Nat \ {0}
  PROVE  /\ RowsTo(book, s, 0) = {} /\ IsFiniteSet(RowsTo(book, s, k))
         /\ book[k].symbol # s => RowsTo(book, s, k) = RowsTo(book, s, k - 1)
         /\ book[k].symbol = s =>
              /\ k \in RowsTo(book, s, k)
              /\ RowsTo(book, s, k) \ {k} = RowsTo(book, s, k - 1)
              /\ RowsTo(book, s, k) = RowsTo(book, s, k - 1) \cup {k}
<1>1. 1 .. k = (1 .. k - 1) \cup {k} /\ k \notin 1 .. k - 1 /\ k \in 1 .. k /\ 1 .. 0 = {}
  OBVIOUS
<1>2. IsFiniteSet(RowsTo(book, s, k))
  <2>1. IsFiniteSet(1 .. k) /\ RowsTo(book, s, k) \subseteq 1 .. k
    BY FS_Interval DEF RowsTo
  <2> QED
    BY <2>1, FS_Subset
<1> QED
  BY <1>1, <1>2 DEF RowsTo

\* A holding knows the currencies of its rows.
CurrenciesTo(book, s, k) == {book[j].currency : j \in RowsTo(book, s, k)}
LEMMA CurrenciesKnown ==
  ASSUME NEW book \in Seq(Row), NEW s, NEW A \in Actions, NEW as_of
  PROVE  \A k \in 0 .. Len(book) :
           HoldingAfter(book, s, A, as_of)[k].currencies = CurrenciesTo(book, s, k)
<1> DEFINE h == HoldingAfter(book, s, A, as_of)
           Good == {k \in 0 .. Len(book) : h[k].currencies = CurrenciesTo(book, s, k)}
<1>1. Len(book) \in Nat
  OBVIOUS
<1>2. 0 \in Good
  <2>1. h[0].currencies = {}
    BY <1>1, Loop DEF NewHolding
  <2>2. RowsTo(book, s, 0) = {}
    BY DEF RowsTo
  <2> QED
    BY <1>1, <2>1, <2>2 DEF CurrenciesTo
<1>3. ASSUME NEW k \in 1 .. Len(book), k - 1 \in Good
      PROVE  k \in Good
  <2> HIDE DEF h
  <2>1. /\ Sound(h[k - 1]) /\ book[k] \in Row
        /\ h[k] = IF book[k].symbol = s THEN FoldTxn(h[k - 1], book[k], A, as_of) ELSE h[k - 1]
    BY Steps DEF h
  <2>2. CASE book[k].symbol # s
    <3>1. RowsTo(book, s, k) = RowsTo(book, s, k - 1)
      BY <2>2, NextRows
    <3> QED
      BY <1>3, <2>1, <2>2, <3>1 DEF CurrenciesTo
  <2>3. CASE book[k].symbol = s
    <3>1. h[k].currencies = h[k - 1].currencies \cup {book[k].currency}
      <4>1. /\ h[k - 1] \in Holding /\ h[k - 1].round_open_index <= Len(h[k - 1].sales)
            /\ h[k] = FoldTxn(h[k - 1], book[k], A, as_of)
        BY <2>1, <2>3 DEF Sound
      <4>2. CASE book[k].type = "BUY"
        BY <2>1, <4>1, <4>2, Bought
      <4>3. CASE book[k].type # "BUY"
        BY <2>1, <4>1, <4>3, Sold DEF SoldFrom
      <4> QED
        BY <4>2, <4>3
    <3>2. RowsTo(book, s, k) = RowsTo(book, s, k - 1) \cup {k}
      BY <2>3, NextRows
    <3> QED
      BY <1>3, <3>1, <3>2 DEF CurrenciesTo
  <2> QED
    BY <2>2, <2>3
<1>4. \A k \in 0 .. Len(book) : k \in Good
  <2> HIDE DEF Good
  <2> QED
    BY <1>1, <1>2, <1>3, LoopKeeps
<1> QED
  BY <1>4

-----------------------------------------------------------------------------
(* The books.                                                              *)

\* The rows in one order of their dates.
IsBook(book) ==
  /\ book \in Seq(Row)
  /\ \A k \in 2 .. Len(book) : book[k - 1].date <= book[k].date

\* Finitely many requests have committed a row.
FinitelyMany == IsFiniteSet(Ids)

LEMMA InitFinite == Init => FinitelyMany
<1> SUFFICES ASSUME Init
             PROVE  IsFiniteSet(Ids)
  BY DEF FinitelyMany
<1>1. Ids = {}
  BY DEF Init, Ids
<1> QED
  BY <1>1, FS_EmptySet

LEMMA NextFinite == TypeOK /\ FinitelyMany /\ [Next]_vars => FinitelyMany'
<1> SUFFICES ASSUME TypeOK, FinitelyMany, [Next]_vars
             PROVE  IsFiniteSet(Ids')
  BY DEF FinitelyMany
<1>0. PICK old : old = Ids
  OBVIOUS
<1>1. ASSUME NEW i \in TxnId, Ids' \subseteq Ids \cup {i}
      PROVE  IsFiniteSet(Ids')
  <2>1. IsFiniteSet(old \cup {i}) /\ Ids' \in SUBSET (old \cup {i})
    BY <1>0, <1>1, FS_AddElement DEF FinitelyMany
  <2> QED
    BY <2>1, FS_Subset
<1>2. CASE UNCHANGED txns
  BY <1>2 DEF Ids, FinitelyMany
<1>3. ASSUME NEW i \in TxnId, NEW row, txns' = [txns EXCEPT ![i] = row]
      PROVE  IsFiniteSet(Ids')
  <2>1. Ids' \subseteq Ids \cup {i}
    BY <1>3 DEF Ids, TypeOK
  <2> QED
    BY <1>1, <2>1
<1>4. ASSUME NEW i \in TxnId, CommitAdd(i)
      PROVE  IsFiniteSet(Ids')
  BY <1>3, <1>4 DEF CommitAdd
<1>5. ASSUME NEW i \in TxnId, CommitUpdate(i)
      PROVE  IsFiniteSet(Ids')
  BY <1>3, <1>5 DEF CommitUpdate
<1>6. ASSUME NEW i \in TxnId, delete_transaction(i)
      PROVE  IsFiniteSet(Ids')
  BY <1>3, <1>6 DEF delete_transaction
<1> QED
  BY <1>2, <1>4, <1>5, <1>6 DEF Next, BeginAdd, BeginUpdate, Rollback, MarketMoves, vars

LEMMA BooksAreBooks ==
  ASSUME TypeOK, FinitelyMany
  PROVE  /\ \A book \in Books : IsBook(book)
         /\ market \in Market
<1> SUFFICES ASSUME NEW book \in Books
             PROVE  IsBook(book)
  BY DEF TypeOK
<1>1. PICK n \in Nat : n = Cardinality(Ids)
  BY FS_CardinalityType DEF FinitelyMany
<1>2. PICK p \in SetToSeqs(Ids) :
        /\ book = [k \in 1 .. n |-> txns[p[k]]]
        /\ \A k \in 2 .. n : txns[p[k - 1]].date <= txns[p[k]].date
  BY <1>1 DEF Books, OrdersOf
<1>3. \A k \in 1 .. n : p[k] \in Ids
  BY <1>1, <1>2 DEF SetToSeqs
<1>4. \A k \in 1 .. n : txns[p[k]] \in Row
  BY <1>3 DEF Ids, TypeOK
<1>5. book \in Seq(Row) /\ Len(book) = n /\ \A k \in 1 .. n : book[k] = txns[p[k]]
  BY <1>2, <1>4
<1>6. \A k \in 2 .. n : k \in 1 .. n /\ k - 1 \in 1 .. n
  OBVIOUS
<1> QED
  BY <1>2, <1>5, <1>6 DEF IsBook

LEMMA RowsAreTransactions ==
  ASSUME TypeOK, FinitelyMany, NEW book \in Books
  PROVE  \A j \in DOMAIN book : \E i \in Ids : book[j] = txns[i]
<1>1. PICK n \in Nat : n = Cardinality(Ids)
  BY FS_CardinalityType DEF FinitelyMany
<1>2. PICK p \in SetToSeqs(Ids) : book = [k \in 1 .. n |-> txns[p[k]]]
  BY <1>1 DEF Books, OrdersOf
<1>3. \A k \in 1 .. n : p[k] \in Ids
  BY <1>1, <1>2 DEF SetToSeqs
<1> QED
  BY <1>2, <1>3

-----------------------------------------------------------------------------
(* What a market holds.                                                    *)

LEMMA MarketTyped ==
  ASSUME NEW m \in Market
  PROVE  /\ m.fx_quote \in {None} \cup (Int \X (Nat \ {0}))
         /\ \A s \in Symbol : /\ m.actions[s] \in Actions
                              /\ usable_price(cached_quote(m, s)) \in Positive \cup {None}
                              /\ IsFiniteSet(m.stops[s]) /\ m.stops[s] \subseteq Nat
<1>1. ASSUME NEW s \in Symbol
      PROVE  m.actions[s] \in Actions
  BY MarketAssumption DEF Actions, Action, Positive
<1>2. ASSUME NEW s \in Symbol
      PROVE  usable_price(cached_quote(m, s)) \in Positive \cup {None}
  BY MarketAssumption DEF usable_price, cached_quote, Positive
<1> QED
  BY <1>1, <1>2, MarketAssumption

\* The greatest of finitely many numbers.
LEMMA MaxTyped ==
  ASSUME NEW S \in SUBSET Nat, IsFiniteSet(S), S # {}
  PROVE  Max(S) \in S /\ \A x \in S : x <= Max(S)
<1> DEFINE F == {T \in SUBSET S : T # {} => \E x \in T : \A y \in T : y <= x}
<1>1. {} \in F
  OBVIOUS
<1>2. ASSUME NEW T \in SUBSET S, T # {}, \A x \in T : T \ {x} \in F
      PROVE  T \in F
  <2>1. PICK x \in T : TRUE
    BY <1>2
  <2>2. x \in Nat /\ \A y \in T : y \in Nat
    OBVIOUS
  <2>3. CASE T \ {x} = {}
    <3>1. \A y \in T : y <= x
      BY <2>2, <2>3
    <3> QED
      BY <3>1
  <2>4. CASE T \ {x} # {}
    <3>1. PICK z \in T \ {x} : \A y \in T \ {x} : y <= z
      BY <1>2, <2>4
    <3>2. z \in T /\ z \in Nat
      BY <2>2
    <3>3. CASE x <= z
      BY <3>1, <3>2, <3>3
    <3>4. CASE z < x
      <4>1. \A y \in T : y <= x
        BY <2>2, <3>1, <3>2, <3>4
      <4> QED
        BY <4>1
    <3> QED
      BY <2>2, <3>2, <3>3, <3>4
  <2> QED
    BY <2>3, <2>4
<1>3. S \in F
  <2> HIDE DEF F
  <2>1. \A T \in SUBSET S : T \in F
    BY <1>1, <1>2, AllSubsets
  <2> QED
    BY <2>1
<1>4. \E x \in S : \A y \in S : y <= x
  BY <1>3
<1>5. \E x \in S : \A y \in S : x >= y
  BY <1>4
<1> QED
  BY <1>5 DEF Max

-----------------------------------------------------------------------------
(* Rates.                                                                  *)

\* The rows of a book.
LEMMA BookRows ==
  ASSUME NEW book, IsBook(book)
  PROVE  /\ Len(book) \in Nat /\ DOMAIN book = 1 .. Len(book) /\ IsFiniteSet(DOMAIN book)
         /\ \A k \in DOMAIN book : book[k] \in Row
  BY DomainFinite DEF IsBook

\* THB and USD always have a rate: the fallback, when no reading and no row has.
LEMMA RatesKnown ==
  ASSUME NEW book, IsBook(book), NEW m \in Market, NEW c \in {book[k].currency : k \in DOMAIN book}
  PROVE  LET rates == build_fx_rates(book, m.fx_quote)
         IN rates[c] # None /\ rates[c] \in Rate
<1> DEFINE live == IF c = "USD" THEN read_fx_quote(m.fx_quote) ELSE None
           last == last_known_rate(book, c)
<1>1. build_fx_rates(book, m.fx_quote)[c] = resolve_fx(c, live, last)
  BY DEF build_fx_rates
<1>2. c \in {"THB", "USD"}
  BY BookRows DEF Row
<1>3. live = None \/ live.rate \in Positive
  BY MarketTyped, ReadingTyped DEF Positive
<1>4. last = None \/ last \in Positive
  <2> DEFINE rated == {k \in DOMAIN book : book[k].currency = c /\ book[k].fx_rate # None}
  <2>1. rated \in SUBSET Nat /\ IsFiniteSet(rated)
    BY BookRows, FS_Subset
  <2>2. rated # {} => Max(rated) \in rated
    BY <2>1, MaxTyped
  <2>3. \A k \in rated : book[k].fx_rate \in Positive
    BY BookRows DEF Row, Positive
  <2> QED
    BY <2>2, <2>3 DEF last_known_rate
<1>5. FX_FALLBACK_RATE \in Positive /\ 1 \in Positive
  BY DEF FX_FALLBACK_RATE, Positive
<1>6. resolve_fx(c, live, last) \in Rate
  <2> HIDE DEF live, last
  <2> QED
    BY <1>2, <1>3, <1>4, <1>5 DEF resolve_fx, Rate, Positive, BASE_CURRENCY
<1> QED
  BY <1>1, <1>6, PortfolioAssumption

-----------------------------------------------------------------------------
(* The positions.                                                          *)

\* The symbols of a book are finitely many.
LEMMA SymbolsFinite ==
  ASSUME NEW book, IsBook(book)
  PROVE  IsFiniteSet(symbols_of(book)) /\ symbols_of(book) \subseteq Symbol
<1> DEFINE S == symbols_of(book)
           f == [k \in DOMAIN book |-> book[k].symbol]
<1>1. f \in Surjection(DOMAIN book, S)
  BY DEF Surjection, symbols_of
<1>2. IsFiniteSet(S)
  BY <1>1, BookRows, FS_Surjection
<1>3. S \subseteq Symbol
  BY BookRows DEF Row, symbols_of
<1> QED
  BY <1>2, <1>3

LEMMA HoldingsTyped ==
  ASSUME NEW book, IsBook(book), NEW m \in Market
  PROVE  LET holdings == build_holdings(book, m.actions, None)
         IN /\ DOMAIN holdings = symbols_of(book)
            /\ IsFiniteSet(active_holdings(holdings))
            /\ active_holdings(holdings) \subseteq symbols_of(book)
            /\ \A s \in symbols_of(book) :
                 /\ holdings[s] = HoldingAfter(book, s, m.actions[s], None)[Len(book)]
                 /\ holdings[s] \in Holding
                 /\ holdings[s].currencies # {}
                 /\ currency_of(holdings[s]) \in {book[k].currency : k \in DOMAIN book}
<1> DEFINE holdings == build_holdings(book, m.actions, None)
<1>1. DOMAIN holdings = symbols_of(book)
  BY DEF build_holdings
<1>2. active_holdings(holdings) \subseteq symbols_of(book)
  BY <1>1 DEF active_holdings
<1>3. IsFiniteSet(active_holdings(holdings))
  BY <1>2, SymbolsFinite, FS_Subset
<1>4. ASSUME NEW s \in symbols_of(book)
      PROVE  /\ holdings[s] = HoldingAfter(book, s, m.actions[s], None)[Len(book)]
             /\ holdings[s] \in Holding
             /\ holdings[s].currencies # {}
             /\ currency_of(holdings[s]) \in {book[k].currency : k \in DOMAIN book}
  <2>1. holdings[s] = HoldingAfter(book, s, m.actions[s], None)[Len(book)]
    BY DEF build_holdings
  <2>2. m.actions[s] \in Actions /\ book \in Seq(Row) /\ Len(book) \in 0 .. Len(book)
    BY SymbolsFinite, MarketTyped, BookRows DEF IsBook
  <2>3. holdings[s] \in Holding
    BY <2>1, <2>2, AllSound DEF Sound
  <2>4. holdings[s].currencies = CurrenciesTo(book, s, Len(book))
    BY <2>1, <2>2, CurrenciesKnown
  <2>5. RowsTo(book, s, Len(book)) = {k \in DOMAIN book : book[k].symbol = s}
    BY BookRows DEF RowsTo
  <2>6. PICK k \in DOMAIN book : book[k].symbol = s
    BY DEF symbols_of
  <2>7. holdings[s].currencies # {}
    BY <2>4, <2>5, <2>6 DEF CurrenciesTo
  <2>8. currency_of(holdings[s]) \in holdings[s].currencies
    BY <2>7 DEF currency_of
  <2>9. holdings[s].currencies \subseteq {book[j].currency : j \in DOMAIN book}
    BY <2>4, <2>5 DEF CurrenciesTo
  <2> QED
    BY <2>1, <2>3, <2>7, <2>8, <2>9
<1> QED
  BY <1>1, <1>2, <1>3, <1>4

\* A valued position: its value is known exactly when its price is and its rows
\* agree on a currency.
PositionOf(v, h) ==
  /\ v.qty = h.qty /\ v.qty \in Positive
  /\ v.conflict <=> currency_conflict(h)
  /\ v.split_adjusted = h.split_adjusted
  /\ v.conflict => v.price = None /\ v.rate = None
  /\ v.price \in Positive \cup {None}
  /\ ~v.conflict =>
       /\ v.rate # None /\ v.rate \in Rate
       /\ v.cost_basis_base \in Int
       /\ v.cost_basis_source = IF h.fx_complete THEN "historical" ELSE "current_rate"
       /\ v.price # None =>
            /\ v.value_base = v.price * v.qty * v.rate.rate /\ v.value_base \in Positive
            /\ v.market_pl_base = (v.price * v.qty - h.cost_basis) * v.rate.rate
            /\ v.market_pl_base \in Int
            /\ v.fx_pl_base = IF h.fx_complete THEN h.cost_basis * v.rate.rate - v.cost_basis_base
                              ELSE None

LEMMA ValueTyped ==
  ASSUME NEW h \in Holding, h.qty > 0, NEW price \in Positive \cup {None}, NEW rate \in Rate
  PROVE  PositionOf(value_holding(h, price, rate), h)
<1> DEFINE v == value_holding(h, price, rate)
           ok == ~currency_conflict(h)
<1>1. rate # None /\ rate.rate \in Positive
  BY PortfolioAssumption DEF Rate, Positive
<1>2. h.qty \in Positive /\ h.cost_basis \in Int /\ h.cost_basis_base \in Int
  BY DEF Holding, Positive
<1>3. PICK cost : cost = CostBase(h, rate)
  OBVIOUS
<1>4. cost \in Int
  <2>1. \A a \in Int, b \in Positive : a * b \in Int
    BY DEF Positive
  <2> QED
    BY <1>1, <1>2, <1>3, <2>1 DEF CostBase
<1>5. PICK x : x = price * h.qty * rate.rate
  OBVIOUS
<1>6. PICK y : y = (price * h.qty - h.cost_basis) * rate.rate
  OBVIOUS
<1>7. price # None => x \in Positive /\ y \in Int
  <2>1. price # None => price * h.qty \in Positive
    BY <1>2, TimesPositive
  <2>2. price # None => x \in Positive
    BY <1>1, <1>5, <2>1, TimesPositive
  <2>3. \A a \in Positive, b \in Int, c \in Positive : (a - b) * c \in Int
    BY DEF Positive
  <2> QED
    BY <1>1, <1>2, <1>6, <2>1, <2>2, <2>3
<1>8. PICK z : z = h.cost_basis * rate.rate - cost
  OBVIOUS
<1>9. /\ v.qty = h.qty /\ (v.conflict <=> ~ok) /\ v.split_adjusted = h.split_adjusted
      /\ v.cost_basis_source = IF h.fx_complete THEN "historical" ELSE "current_rate"
  BY DEF value_holding
<1>10. ~ok => v.price = None /\ v.rate = None
  BY DEF value_holding
<1>11. ok => v.price = price /\ v.rate = rate /\ v.cost_basis_base = cost
  BY <1>1, <1>3 DEF value_holding
<1>12. ok /\ price # None => v.value_base = x /\ v.market_pl_base = y
  BY <1>1, <1>5, <1>6 DEF value_holding
<1>13. ok => v.fx_pl_base = IF h.fx_complete THEN z ELSE None
  BY <1>1, <1>3, <1>8 DEF value_holding
<1> HIDE DEF v
<1>14. ok => v.price \in Positive \cup {None} /\ v.rate # None /\ v.rate \in Rate /\ v.cost_basis_base \in Int
  BY <1>1, <1>4, <1>11
<1>15. ok /\ price # None =>
         /\ v.value_base = v.price * v.qty * v.rate.rate /\ v.value_base \in Positive
         /\ v.market_pl_base = (v.price * v.qty - h.cost_basis) * v.rate.rate
         /\ v.market_pl_base \in Int
  BY <1>5, <1>6, <1>7, <1>9, <1>11, <1>12
<1>16. ok => v.fx_pl_base = IF h.fx_complete THEN h.cost_basis * v.rate.rate - v.cost_basis_base
                            ELSE None
  BY <1>8, <1>11, <1>13
<1>17. PositionOf(v, h)
  BY <1>2, <1>9, <1>10, <1>11, <1>14, <1>15, <1>16 DEF PositionOf
<1> QED
  BY <1>17 DEF v

\* Every position of a report.
IsValued(valued, holdings) ==
  /\ IsFiniteSet(DOMAIN valued) /\ DOMAIN valued \subseteq Symbol
  /\ \A s \in DOMAIN valued : holdings[s] \in Holding /\ PositionOf(valued[s], holdings[s])

LEMMA ValuedTyped ==
  ASSUME NEW book, IsBook(book), NEW m \in Market
  PROVE  LET holdings == build_holdings(book, m.actions, None)
             valued == value_holdings(holdings, active_holdings(holdings), m,
                                      build_fx_rates(book, m.fx_quote))
         IN IsValued(valued, holdings) /\ DOMAIN valued = active_holdings(holdings)
<1> DEFINE holdings == build_holdings(book, m.actions, None)
           active == active_holdings(holdings)
           rates == build_fx_rates(book, m.fx_quote)
           valued == value_holdings(holdings, active, m, rates)
<1>1. DOMAIN valued = active /\ IsFiniteSet(active) /\ active \subseteq Symbol
  <2>1. DOMAIN valued = active
    BY DEF value_holdings
  <2>2. IsFiniteSet(active) /\ active \subseteq Symbol
    BY HoldingsTyped, SymbolsFinite
  <2> QED
    BY <2>1, <2>2
<1>2. ASSUME NEW s \in active
      PROVE  holdings[s] \in Holding /\ PositionOf(valued[s], holdings[s])
  <2>1. s \in symbols_of(book) /\ s \in Symbol /\ holdings[s].qty > 0
    BY HoldingsTyped, SymbolsFinite DEF active_holdings
  <2>2. /\ holdings[s] \in Holding
        /\ currency_of(holdings[s]) \in {book[k].currency : k \in DOMAIN book}
    BY <2>1, HoldingsTyped
  <2>3. rates[currency_of(holdings[s])] \in Rate
    BY <2>2, RatesKnown
  <2>4. usable_price(cached_quote(m, s)) \in Positive \cup {None}
    BY <2>1, MarketTyped
  <2>5. valued[s] = value_holding(holdings[s], usable_price(cached_quote(m, s)),
                                  rates[currency_of(holdings[s])])
    BY DEF value_holdings
  <2> HIDE DEF holdings, rates, valued
  <2>6. PositionOf(valued[s], holdings[s])
    BY <2>1, <2>2, <2>3, <2>4, <2>5, ValueTyped
  <2> QED
    BY <2>2, <2>6
<1> QED
  BY <1>1, <1>2 DEF IsValued

\* The positions a total speaks for, and the ones it names.
Priced(valued) == {s \in DOMAIN valued : ~valued[s].conflict /\ valued[s].price # None}
Values(valued) == [s \in Priced(valued) |-> valued[s].value_base]

LEMMA TotalsKnown ==
  ASSUME NEW valued, NEW holdings, IsValued(valued, holdings)
  PROVE  LET totals == summarize(valued)
             priced == Priced(valued)
         IN /\ totals.priced_symbols = priced /\ IsFiniteSet(priced)
            /\ totals.currency_conflict_symbols = {s \in DOMAIN valued : valued[s].conflict}
            /\ totals.unpriced_symbols
                 = {s \in DOMAIN valued : ~valued[s].conflict /\ valued[s].price = None}
            /\ totals.fx_unavailable_symbols = {}
            /\ totals.total_value = SumFunctionOnSet(Values(valued), priced)
            /\ Naturals0(Values(valued), priced)
            /\ totals.total_value \in Nat
            /\ totals.total_value > 0 <=> priced # {}
<1> DEFINE totals == summarize(valued)
           priced == Priced(valued)
           f == Values(valued)
<1>1. \A s \in DOMAIN valued : PositionOf(valued[s], holdings[s])
  BY DEF IsValued
<1>2. \A s \in DOMAIN valued : ~valued[s].conflict => valued[s].rate # None
  BY <1>1 DEF PositionOf
<1>3. /\ totals.currency_conflict_symbols = {s \in DOMAIN valued : valued[s].conflict}
      /\ totals.unpriced_symbols
           = {s \in DOMAIN valued : ~valued[s].conflict /\ valued[s].price = None}
  BY DEF summarize
<1>4. totals.fx_unavailable_symbols = {}
  BY <1>2 DEF summarize
<1>5. totals.priced_symbols = priced
  BY <1>2 DEF summarize, Priced
<1>6. totals.total_value = SumFunctionOnSet(f, priced)
  BY <1>5 DEF summarize, SumOf, Values
<1>7. IsFiniteSet(priced)
  BY FS_Subset DEF Priced, IsValued
<1>8. \A s \in priced : f[s] \in Positive
  BY <1>1 DEF Priced, Values, PositionOf
<1>9. Naturals0(f, priced)
  BY <1>8 DEF Naturals0, Positive
<1> HIDE DEF totals, priced, f
<1>10. totals.total_value \in Nat /\ \A s \in priced : f[s] <= totals.total_value
  BY <1>6, <1>7, <1>9, SumNat
<1>11. priced = {} => totals.total_value = 0
  BY <1>6, SumEmpty
<1>12. priced # {} => totals.total_value > 0
  BY <1>8, <1>10 DEF Positive
<1> QED
  BY <1>3, <1>4, <1>5, <1>6, <1>7, <1>9, <1>10, <1>11, <1>12 DEF totals, priced, f

Named(valued) == DOMAIN valued \ Priced(valued)

LEMMA InheritedKnown ==
  ASSUME NEW valued, NEW holdings, IsValued(valued, holdings)
  PROVE  DOMAIN Inherited(summarize(valued)) = Named(valued)
<1> DEFINE totals == summarize(valued)
<1>1. DOMAIN Inherited(totals) = totals.currency_conflict_symbols \cup totals.unpriced_symbols
                                   \cup totals.fx_unavailable_symbols
  BY DEF Inherited
<1>2. /\ totals.currency_conflict_symbols = {s \in DOMAIN valued : valued[s].conflict}
      /\ totals.unpriced_symbols
           = {s \in DOMAIN valued : ~valued[s].conflict /\ valued[s].price = None}
      /\ totals.fx_unavailable_symbols = {}
  BY TotalsKnown
<1> QED
  BY <1>1, <1>2 DEF Named, Priced

LEMMA AllocationKnown ==
  ASSUME NEW valued, NEW holdings, IsValued(valued, holdings)
  PROVE  LET totals == summarize(valued)
             allocation == build_allocation(valued, totals)
         IN /\ DOMAIN allocation.slices = Priced(valued)
            /\ allocation.slices = Values(valued)
            /\ totals.total_value = SumFunctionOnSet(
                 [s \in DOMAIN allocation.slices |-> allocation.slices[s]], DOMAIN allocation.slices)
            /\ allocation.total_value = totals.total_value
            /\ allocation.excluded = Inherited(totals)
            /\ DOMAIN allocation.excluded = Named(valued)
<1> DEFINE totals == summarize(valued)
           allocation == build_allocation(valued, totals)
           priced == Priced(valued)
<1>1. /\ totals.priced_symbols = priced
      /\ totals.total_value = SumFunctionOnSet(Values(valued), priced)
      /\ totals.total_value \in Nat
      /\ totals.total_value > 0 <=> priced # {}
  BY TotalsKnown
<1>2. allocation.slices = [s \in priced |-> valued[s].value_base]
  <2>1. (IF totals.total_value > 0 THEN totals.priced_symbols ELSE {}) = priced
    BY <1>1
  <2> QED
    BY <2>1 DEF build_allocation
<1>3. allocation.slices = Values(valued) /\ DOMAIN allocation.slices = priced
  BY <1>2 DEF Values
<1>4. [s \in priced |-> allocation.slices[s]] = Values(valued)
  BY <1>2 DEF Values
<1>5. totals.total_value = SumFunctionOnSet(
        [s \in DOMAIN allocation.slices |-> allocation.slices[s]], DOMAIN allocation.slices)
  BY <1>1, <1>3, <1>4
<1> QED
  BY <1>3, <1>5, InheritedKnown DEF build_allocation

\* A trim is the quotient that brings the slice to the limit, rounded down.
LEMMA TrimLands ==
  ASSUME NEW value \in Int, NEW total \in Int, NEW trim, trim = Trim(value, total, Limit)
  PROVE  100 * (value - trim) - Limit * (total - trim) \in 0 .. 99 - Limit
<1>1. PICK d \in 1 .. 99 : d = 100 - Limit
  BY PortfolioAssumption
<1>2. PICK l \in 1 .. 99 : l = Limit
  BY PortfolioAssumption
<1>3. PICK x \in Int : x = 100 * value - l * total
  <2>1. l * total \in Int
    OBVIOUS
  <2>2. 100 * value - l * total \in Int
    BY <2>1
  <2> QED
    BY <2>2
<1>4. PICK q : q = x \div d
  OBVIOUS
<1>5. \A a \in Int, b \in Nat : b > 0 =>
         a \div b \in Int /\ b * (a \div b) <= a /\ a < b * (a \div b) + b
  OBVIOUS
<1>6. q \in Int /\ d * q <= x /\ x < d * q + d
  BY <1>4, <1>5
<1>7. trim = q
  BY <1>1, <1>2, <1>3, <1>4 DEF Trim
<1>8. 100 * (value - q) - l * (total - q) = x - d * q
  <2>1. l * (total - q) = l * total - l * q
    BY <1>6
  <2>2. d * q = 100 * q - l * q
    BY <1>1, <1>2, <1>6
  <2> QED
    BY <1>3, <1>6, <2>1, <2>2
<1>9. d * q \in Int
  BY <1>6
<1> QED
  BY <1>1, <1>2, <1>6, <1>7, <1>8, <1>9

\* Less than the value at the mark is lost at a stop below it.
LEMMA RiskBelowValue ==
  ASSUME NEW price \in Positive, NEW stop \in Nat, stop < price, NEW qty \in Positive, NEW rate \in Positive
  PROVE  /\ (price - stop) * qty * rate \in Positive
         /\ (price - stop) * qty * rate <= price * qty * rate
<1>1. PICK d \in Positive : d = price - stop
  BY DEF Positive
<1>2. PICK n \in Positive : n = qty * rate
  BY TimesPositive
<1>3. d <= price /\ d * n \in Positive
  BY <1>1, TimesPositive DEF Positive
<1>4. d * n <= price * n
  <2>1. \A a, b, c \in Nat : a <= b => a * c <= b * c
    OBVIOUS
  <2>2. d \in Nat /\ price \in Nat /\ n \in Nat
    BY DEF Positive
  <2> QED
    BY <1>3, <2>1, <2>2
<1>5. \A a, b, c \in Positive : a * b * c = a * (b * c)
  BY DEF Positive
<1>6. d * qty * rate = d * n /\ price * qty * rate = price * n
  BY <1>2, <1>5
<1> QED
  BY <1>1, <1>3, <1>4, <1>6

\* Finitely many stop levels for each position.
IsStops(stops, valued) ==
  \A s \in DOMAIN valued : IsFiniteSet(stops[s]) /\ stops[s] \subseteq Nat

\* A position with a risk figure has one stop, below its price.
LEMMA OneStop ==
  ASSUME NEW v, NEW levels, IsFiniteSet(levels), levels \subseteq Nat, v.price \in Positive,
         risk_exclusion(v, levels) = None
  PROVE  (CHOOSE l \in levels : TRUE) \in Nat /\ (CHOOSE l \in levels : TRUE) < v.price
<1>1. levels # {} /\ ~(Cardinality(levels) > 1) /\ ~(\A l \in levels : l >= v.price)
  <2>1. /\ "no_stop" # None /\ "ambiguous_stop" # None /\ "stop_units_unknown" # None
        /\ "stop_at_or_above_mark" # None
    BY PortfolioAssumption DEF RiskReason
  <2> QED
    BY <2>1 DEF risk_exclusion
<1>2. PICK c \in levels : c = CHOOSE l \in levels : TRUE
  BY <1>1
<1>3. PICK low \in levels : ~(low >= v.price)
  BY <1>1
<1>4. low = c
  <2>1. CASE low # c
    <3>1. IsFiniteSet({c}) /\ Cardinality({c}) = 1
      BY FS_Singleton
    <3>4. low \notin {c} /\ {c} \cup {low} \in SUBSET levels
      BY <2>1
    <3>5. Cardinality({c} \cup {low}) = Cardinality({c}) + 1
      BY <3>1, <3>4, FS_AddElement
    <3>2. Cardinality({c} \cup {low}) = 2
      BY <3>1, <3>5
    <3>3. 2 <= Cardinality(levels) /\ Cardinality(levels) \in Nat
      BY <3>2, <3>4, FS_Subset, FS_CardinalityType
    <3> QED
      BY <1>1, <3>3
  <2> QED
    BY <2>1
<1>5. low \in Nat /\ v.price \in Nat
  BY DEF Positive
<1> QED
  BY <1>2, <1>3, <1>4, <1>5

LEMMA RiskKnown ==
  ASSUME NEW valued, NEW holdings, IsValued(valued, holdings), NEW stops, IsStops(stops, valued)
  PROVE  LET totals == summarize(valued)
             risk == build_open_risk(valued, totals, stops)
         IN /\ DOMAIN risk.positions \cup DOMAIN risk.excluded = DOMAIN valued
            /\ DOMAIN risk.positions \cap DOMAIN risk.excluded = {}
            /\ \A s \in DOMAIN risk.positions : risk.positions[s] > 0
            /\ risk.open_risk <= risk.covered_value /\ risk.covered_value <= totals.total_value
<1> DEFINE totals == summarize(valued)
           risk == build_open_risk(valued, totals, stops)
           priced == Priced(valued)
           at == {s \in priced : risk_exclusion(valued[s], stops[s]) = None}
           Stop(s) == CHOOSE l \in stops[s] : TRUE
           loss == [s \in at |-> (valued[s].price - Stop(s)) * valued[s].qty * valued[s].rate.rate]
           worth == [s \in at |-> valued[s].value_base]
           all == Values(valued)
<1>1. /\ totals.priced_symbols = priced /\ IsFiniteSet(priced)
      /\ totals.total_value = SumFunctionOnSet(all, priced)
      /\ Naturals0(all, priced)
  BY TotalsKnown
<1>2. risk.positions = loss /\ DOMAIN risk.positions = at
  BY <1>1 DEF build_open_risk
<1>3. DOMAIN risk.excluded = Named(valued) \cup (priced \ at)
  BY <1>1, InheritedKnown DEF build_open_risk
<1>4. risk.open_risk = SumFunctionOnSet(loss, at) /\ risk.covered_value = SumFunctionOnSet(worth, at)
  BY <1>1 DEF build_open_risk, SumOf
<1>5. at \in SUBSET priced /\ IsFiniteSet(at)
  BY <1>1, FS_Subset
<1>6. ASSUME NEW s \in at
      PROVE  loss[s] \in Positive /\ worth[s] \in Positive /\ loss[s] <= worth[s] /\ all[s] = worth[s]
  <2>1. /\ s \in DOMAIN valued /\ ~valued[s].conflict /\ valued[s].price # None
        /\ PositionOf(valued[s], holdings[s])
    BY DEF IsValued, Priced
  <2>2. /\ valued[s].price \in Positive /\ valued[s].qty \in Positive
        /\ valued[s].rate.rate \in Positive
        /\ valued[s].value_base = valued[s].price * valued[s].qty * valued[s].rate.rate
        /\ valued[s].value_base \in Positive
    BY <2>1 DEF PositionOf, Rate, Positive
  <2>3. IsFiniteSet(stops[s]) /\ stops[s] \subseteq Nat
    BY <2>1 DEF IsStops
  <2>4. Stop(s) \in Nat /\ Stop(s) < valued[s].price
    BY <2>2, <2>3, OneStop
  <2> QED
    BY <2>2, <2>4, RiskBelowValue DEF Values
<1> HIDE DEF loss, worth, all, risk, totals, at
<1>7. Numbers(loss, at) /\ Numbers(worth, at) /\ Less(loss, worth, at)
  BY <1>6 DEF Numbers, Less, Positive
<1>8. risk.open_risk <= risk.covered_value
  BY <1>4, <1>5, <1>7, SumLess
<1>9. SumFunctionOnSet(worth, at) = SumFunctionOnSet(all, at)
  BY <1>5, <1>6, <1>7, SumSame
<1>10. SumFunctionOnSet(all, at) <= SumFunctionOnSet(all, priced)
  BY <1>1, <1>5, SumNat
<1>11. \A s \in DOMAIN risk.positions : risk.positions[s] > 0
  BY <1>2, <1>6 DEF Positive
<1>12. /\ DOMAIN risk.positions \cup DOMAIN risk.excluded = DOMAIN valued
       /\ DOMAIN risk.positions \cap DOMAIN risk.excluded = {}
  BY <1>2, <1>3, <1>5 DEF Named, Priced
<1> QED
  BY <1>1, <1>4, <1>8, <1>9, <1>10, <1>11, <1>12 DEF risk, totals

-----------------------------------------------------------------------------
(* What a report accounts for.                                             *)

LEMMA DashboardKnown ==
  ASSUME NEW book, IsBook(book), NEW m \in Market
  PROVE  LET totals == Analytics(book, m, Limit).totals
         IN Dashboard(book, m) = IF totals.total_value > 0 THEN totals ELSE None
<1> DEFINE holdings == build_holdings(book, m.actions, None)
           valued == value_holdings(holdings, active_holdings(holdings), m,
                                    build_fx_rates(book, m.fx_quote))
<1>1. Analytics(book, m, Limit).totals = summarize(valued)
  BY DEF Analytics
<1>2. IsValued(valued, holdings)
  BY ValuedTyped
<1>3. Dashboard(book, m) = IF Priced(valued) = {} THEN None ELSE summarize(valued)
  BY DEF Dashboard, Priced
<1> HIDE DEF valued, holdings
<1>4. summarize(valued).total_value > 0 <=> Priced(valued) # {}
  BY <1>2, TotalsKnown
<1> QED
  BY <1>1, <1>3, <1>4

\* What ExposureIsAccounted says of one report.
Accounted(report, m) ==
  LET total == report.totals.total_value
      slices == report.allocation.slices
      risk == report.open_risk
      named == DOMAIN report.allocation.excluded
      breaches == report.concentration.breaches
  IN /\ DOMAIN slices \cup named = DOMAIN report.valued
     /\ DOMAIN slices \cap named = {}
     /\ SumOf(DOMAIN slices, LAMBDA s : slices[s]) = total
     /\ Dashboard(report.book, m) = IF total > 0 THEN report.totals ELSE None
     /\ DOMAIN risk.positions \cup DOMAIN risk.excluded = DOMAIN report.valued
     /\ DOMAIN risk.positions \cap DOMAIN risk.excluded = {}
     /\ \A s \in DOMAIN risk.positions : risk.positions[s] > 0
     /\ risk.open_risk <= risk.covered_value /\ risk.covered_value <= total
     /\ DOMAIN report.concentration.not_checked = named
     /\ \A s \in DOMAIN breaches :
          100 * (slices[s] - breaches[s]) - Limit * (total - breaches[s]) \in 0 .. 99 - Limit

LEMMA ExposureOfBook ==
  ASSUME NEW book, IsBook(book), NEW m \in Market,
         NEW report, report = Analytics(book, m, Limit)
  PROVE  Accounted(report, m)
<1>1. PICK holdings : holdings = build_holdings(book, m.actions, None)
  OBVIOUS
<1>2. PICK valued : valued = value_holdings(holdings, active_holdings(holdings), m,
                                            build_fx_rates(book, m.fx_quote))
  OBVIOUS
<1>3. IsValued(valued, holdings) /\ DOMAIN valued = active_holdings(holdings)
  BY <1>1, <1>2, ValuedTyped
<1>4. PICK totals : totals = summarize(valued)
  OBVIOUS
<1>5. PICK allocation : allocation = build_allocation(valued, totals)
  OBVIOUS
<1>6. PICK stops : stops = _load_stops(m, active_holdings(holdings))
  OBVIOUS
<1>7. /\ report.book = book /\ report.valued = valued /\ report.totals = totals
      /\ report.allocation = allocation
      /\ report.concentration = build_concentration_check(allocation, Limit)
      /\ report.open_risk = build_open_risk(valued, totals, stops)
  BY <1>1, <1>2, <1>4, <1>5, <1>6 DEF Analytics
<1>8. IsStops(stops, valued)
  <2>1. \A s \in DOMAIN valued : stops[s] = m.stops[s] /\ s \in Symbol
    BY <1>3, <1>6 DEF _load_stops, IsValued
  <2> QED
    BY <2>1, MarketTyped DEF IsStops
<1>9. /\ DOMAIN allocation.slices = Priced(valued)
      /\ allocation.slices = Values(valued)
      /\ totals.total_value = SumFunctionOnSet(
           [s \in DOMAIN allocation.slices |-> allocation.slices[s]], DOMAIN allocation.slices)
      /\ allocation.total_value = totals.total_value
      /\ DOMAIN allocation.excluded = Named(valued)
  BY <1>3, <1>4, <1>5, AllocationKnown
<1>10. Priced(valued) \cup Named(valued) = DOMAIN valued /\ Priced(valued) \cap Named(valued) = {}
  BY DEF Priced, Named
<1>11. Dashboard(book, m) = IF totals.total_value > 0 THEN totals ELSE None
  BY <1>7, DashboardKnown
<1>12. LET risk == build_open_risk(valued, totals, stops)
       IN /\ DOMAIN risk.positions \cup DOMAIN risk.excluded = DOMAIN valued
          /\ DOMAIN risk.positions \cap DOMAIN risk.excluded = {}
          /\ \A s \in DOMAIN risk.positions : risk.positions[s] > 0
          /\ risk.open_risk <= risk.covered_value /\ risk.covered_value <= totals.total_value
  BY <1>3, <1>4, <1>8, RiskKnown
<1>13. report.concentration.not_checked = allocation.excluded
  BY <1>7 DEF build_concentration_check
<1>14. ASSUME NEW s \in DOMAIN report.concentration.breaches
       PROVE  100 * (allocation.slices[s] - report.concentration.breaches[s])
                - Limit * (totals.total_value - report.concentration.breaches[s]) \in 0 .. 99 - Limit
  <2>1. /\ s \in DOMAIN allocation.slices
        /\ report.concentration.breaches[s] = Trim(allocation.slices[s], allocation.total_value, Limit)
    BY <1>7 DEF build_concentration_check
  <2>2. allocation.slices[s] \in Int /\ totals.total_value \in Int
    BY <1>3, <1>4, <1>9, <2>1, TotalsKnown DEF Naturals0
  <2> QED
    BY <1>9, <2>1, <2>2, TrimLands
<1> QED
  BY <1>7, <1>9, <1>10, <1>11, <1>12, <1>13, <1>14 DEF Accounted, SumOf

\* Every open position is in the allocation or named with a reason, and so for
\* the open risk and the concentration check; the slices add up to the total, the
\* dashboard states that total, the risk is within it, and a trim lands on the
\* limit: of any book, any market and any limit.
THEOREM ExposureAccounted == Spec => []ExposureIsAccounted
<1>1. TypeOK /\ FinitelyMany => ExposureIsAccounted
  <2> SUFFICES ASSUME TypeOK, FinitelyMany, NEW report \in Reports
               PROVE  Accounted(report, market)
    BY DEF ExposureIsAccounted, Accounted
  <2>1. PICK book \in Books : report = Analytics(book, market, Limit)
    BY DEF Reports
  <2>2. IsBook(book) /\ market \in Market
    BY BooksAreBooks
  <2> QED
    BY <2>1, <2>2, ExposureOfBook
<1> QED
  BY <1>1, PortfolioTyped, InitFinite, NextFinite, PTL DEF Spec

-----------------------------------------------------------------------------
(* The rows since a position was last flat.                                *)

\* What each row adds, and the rows of a symbol up to one of them.
Signs(book, A) == [j \in DOMAIN book |-> Signed(book[j], A, None)]

LEMMA SignedTyped ==
  ASSUME NEW book, IsBook(book), NEW A \in Actions
  PROVE  /\ Numbers(Signs(book, A), DOMAIN book)
         /\ \A j \in DOMAIN book :
              Signs(book, A)[j] = IF book[j].type = "BUY" THEN Lot(book[j], A, None).qty
                                  ELSE -Lot(book[j], A, None).qty
<1>1. ASSUME NEW j \in DOMAIN book
      PROVE  /\ Signs(book, A)[j] = IF book[j].type = "BUY" THEN Lot(book[j], A, None).qty
                                    ELSE -Lot(book[j], A, None).qty
             /\ Signs(book, A)[j] \in Int
  <2>1. book[j] \in Row
    BY BookRows
  <2>2. Lot(book[j], A, None).qty \in Nat
    BY <2>1, LotTyped
  <2>3. Signs(book, A)[j] = IF book[j].type = "BUY" THEN Lot(book[j], A, None).qty
                            ELSE -Lot(book[j], A, None).qty
    BY DEF Signs, Signed, Lot
  <2> QED
    BY <2>2, <2>3
<1> QED
  BY <1>1 DEF Numbers

LEMMA NetKnown ==
  ASSUME NEW book, IsBook(book), NEW s, NEW A \in Actions
  PROVE  \A k \in 0 .. Len(book) :
           HoldingAfter(book, s, A, None)[k].qty
             = SumFunctionOnSet(Signs(book, A), RowsTo(book, s, k))
<1> DEFINE h == HoldingAfter(book, s, A, None)
           f == Signs(book, A)
           Good == {k \in 0 .. Len(book) : h[k].qty = SumFunctionOnSet(f, RowsTo(book, s, k))}
<1>1. Len(book) \in Nat /\ book \in Seq(Row) /\ DOMAIN book = 1 .. Len(book)
      /\ IsFiniteSet(DOMAIN book)
  BY BookRows DEF IsBook
<1>2. 0 \in Good
  <2>1. h[0].qty = 0
    BY <1>1, Loop DEF NewHolding
  <2>2. RowsTo(book, s, 0) = {}
    BY DEF RowsTo
  <2> QED
    <3>1. SumFunctionOnSet(f, {}) = 0
      BY SumEmpty
    <3>2. SumFunctionOnSet(f, RowsTo(book, s, 0)) = 0
      BY <2>2, <3>1
    <3>3. 0 \in 0 .. Len(book)
      BY <1>1
    <3> HIDE DEF h, f
    <3> QED
      BY <2>1, <3>2, <3>3
<1>3. ASSUME NEW k \in 1 .. Len(book), k - 1 \in Good
      PROVE  k \in Good
  <2> HIDE DEF h, f
  <2>1. /\ Sound(h[k - 1]) /\ book[k] \in Row
        /\ h[k] = IF book[k].symbol = s THEN FoldTxn(h[k - 1], book[k], A, None) ELSE h[k - 1]
    BY <1>1, Steps DEF h
  <2>2. CASE book[k].symbol # s
    <3>1. RowsTo(book, s, k) = RowsTo(book, s, k - 1)
      BY <2>2, NextRows
    <3> QED
      BY <1>3, <2>1, <2>2, <3>1
  <2>3. CASE book[k].symbol = s
    <3>1. k \in RowsTo(book, s, k) /\ RowsTo(book, s, k) \ {k} = RowsTo(book, s, k - 1)
      BY <2>3, NextRows
    <3>2. RowsTo(book, s, k) \in SUBSET DOMAIN book
      BY <1>1 DEF RowsTo
    <3>3. SumFunctionOnSet(f, RowsTo(book, s, k)) = f[k] + SumFunctionOnSet(f, RowsTo(book, s, k - 1))
      BY <1>1, <3>1, <3>2, SignedTyped, SumTakes DEF f
    <3>4. h[k].qty = h[k - 1].qty + f[k]
      <4>1. /\ h[k - 1] \in Holding /\ h[k - 1].round_open_index <= Len(h[k - 1].sales)
            /\ h[k - 1].qty \in Int /\ h[k] = FoldTxn(h[k - 1], book[k], A, None)
        BY <2>1, <2>3 DEF Sound, Holding
      <4>2. Lot(book[k], A, None).qty \in Nat
        BY <2>1, LotTyped
      <4>3. f[k] = IF book[k].type = "BUY" THEN Lot(book[k], A, None).qty ELSE -Lot(book[k], A, None).qty
        BY <1>1, SignedTyped DEF f
      <4>4. CASE book[k].type = "BUY"
        BY <2>1, <4>1, <4>2, <4>3, <4>4, Bought
      <4>5. CASE book[k].type # "BUY"
        <5>1. SoldFrom(h[k - 1], h[k], book[k], Lot(book[k], A, None))
          BY <2>1, <4>1, <4>5, Sold
        <5> QED
          BY <4>1, <4>2, <4>3, <4>5, <5>1 DEF SoldFrom
      <4> QED
        BY <4>4, <4>5
    <3>5. h[k - 1].qty \in Int /\ f[k] \in Int
      BY <1>1, <2>1, SignedTyped DEF Sound, Holding, Numbers, f
    <3> QED
      BY <1>3, <3>3, <3>4, <3>5
  <2> QED
    BY <2>2, <2>3
<1>4. \A k \in 0 .. Len(book) : k \in Good
  <2> HIDE DEF Good
  <2> QED
    BY <1>1, <1>2, <1>3, LoopKeeps
<1> QED
  BY <1>4

\* A row that brought the position to zero, and the rows after the last of them
\* before row k.
FlatAt(book, s, A, k) ==
  /\ k \in DOMAIN book /\ book[k].symbol = s /\ book[k].type = "SELL"
  /\ HoldingAfter(book, s, A, None)[k].qty = 0
OpenRows(book, s, A, k) ==
  {j \in RowsTo(book, s, k) : \A i \in RowsTo(book, s, k) : FlatAt(book, s, A, i) => i < j}
BuysRated(book, s, A, k) ==
  \A j \in OpenRows(book, s, A, k) : book[j].type = "BUY" => TxnFxRate(book[j]) # None

LEMMA CompleteKnown ==
  ASSUME NEW book, IsBook(book), NEW s, NEW A \in Actions
  PROVE  \A k \in 0 .. Len(book) :
           HoldingAfter(book, s, A, None)[k].fx_complete <=> BuysRated(book, s, A, k)
<1> DEFINE h == HoldingAfter(book, s, A, None)
           Good == {k \in 0 .. Len(book) : h[k].fx_complete <=> BuysRated(book, s, A, k)}
<1>1. Len(book) \in Nat /\ book \in Seq(Row) /\ DOMAIN book = 1 .. Len(book)
  BY BookRows DEF IsBook
<1>2. 0 \in Good
  <2>1. h[0].fx_complete
    BY <1>1, Loop DEF NewHolding
  <2>2. RowsTo(book, s, 0) = {}
    BY DEF RowsTo
  <2> QED
    BY <1>1, <2>1, <2>2 DEF BuysRated, OpenRows
<1>3. ASSUME NEW k \in 1 .. Len(book), k - 1 \in Good
      PROVE  k \in Good
  <2> DEFINE old == RowsTo(book, s, k - 1)
             now == RowsTo(book, s, k)
  <2>0. PICK flat : flat = {i \in DOMAIN book : FlatAt(book, s, A, i)}
    OBVIOUS
  <2>1. /\ Sound(h[k - 1]) /\ book[k] \in Row
        /\ h[k] = IF book[k].symbol = s THEN FoldTxn(h[k - 1], book[k], A, None) ELSE h[k - 1]
    BY <1>1, Steps
  <2>2. CASE book[k].symbol # s
    <3>1. old = now
      BY <2>2, NextRows
    <3> QED
      BY <1>3, <2>1, <2>2, <3>1 DEF BuysRated, OpenRows
  <2>3. CASE book[k].symbol = s
    <3>1. /\ now = old \cup {k} /\ \A j \in old : j \in 1 .. k - 1 /\ j < k /\ j \in DOMAIN book
      BY <1>1, <2>3, NextRows DEF RowsTo
    <3>2. /\ h[k - 1] \in Holding /\ h[k - 1].round_open_index <= Len(h[k - 1].sales)
          /\ h[k] = FoldTxn(h[k - 1], book[k], A, None)
      BY <2>1, <2>3 DEF Sound
    <3>3. (k \in flat) <=> book[k].type = "SELL" /\ h[k].qty = 0
      BY <1>1, <2>0, <2>3 DEF FlatAt
    <3>4. /\ BuysRated(book, s, A, k - 1) <=>
               \A j \in old : (\A i \in old : i \in flat => i < j) =>
                  (book[j].type = "BUY" => TxnFxRate(book[j]) # None)
          /\ BuysRated(book, s, A, k) <=>
               \A j \in now : (\A i \in now : i \in flat => i < j) =>
                  (book[j].type = "BUY" => TxnFxRate(book[j]) # None)
      <4>1. \A j \in now : j \in DOMAIN book
        BY <1>1, <3>1
      <4> QED
        BY <2>0, <3>1, <4>1 DEF BuysRated, OpenRows
    <3>5. h[k - 1].fx_complete <=> BuysRated(book, s, A, k - 1)
      BY <1>3
    <3> HIDE DEF h, old, now
    <3>6. CASE book[k].type = "BUY"
      <4>1. h[k].fx_complete <=> h[k - 1].fx_complete /\ TxnFxRate(book[k]) # None
        <5>1. h[k].fx_complete = (h[k - 1].fx_complete /\ TxnFxRate(book[k]) # None)
          BY <2>1, <3>2, <3>6, Bought
        <5> QED
          BY <5>1
      <4>2. k \notin flat
        BY <3>3, <3>6
      <4> QED
        BY <3>1, <3>4, <3>5, <3>6, <4>1, <4>2 DEF h
    <3>7. CASE book[k].type # "BUY"
      <4>1. book[k].type = "SELL"
        BY <2>1, <3>7 DEF Row
      <4>2. SoldFrom(h[k - 1], h[k], book[k], Lot(book[k], A, None))
        BY <2>1, <3>2, <3>7, Sold
      <4>3. CASE h[k].qty # 0
        <5>1. h[k].fx_complete = h[k - 1].fx_complete
          BY <4>2, <4>3 DEF SoldFrom, Reduces, Closes
        <5>2. k \notin flat
          BY <3>3, <4>3
        <5> QED
          BY <3>1, <3>4, <3>5, <3>7, <5>1, <5>2 DEF h
      <4>4. CASE h[k].qty = 0
        <5>1. h[k].fx_complete
          BY <4>2, <4>4 DEF SoldFrom, Reduces, Closes
        <5>2. k \in flat
          BY <3>3, <4>1, <4>4
        <5>3. \A j \in now : ~(k < j)
          BY <3>1
        <5>4. k \in now
          BY <3>1
        <5>5. BuysRated(book, s, A, k)
          BY <3>4, <5>2, <5>3, <5>4
        <5> QED
          BY <5>1, <5>5 DEF h
      <4> QED
        BY <4>3, <4>4
    <3> QED
      BY <3>6, <3>7
  <2> QED
    BY <2>2, <2>3
<1>4. \A k \in 0 .. Len(book) : k \in Good
  <2> HIDE DEF Good
  <2> QED
    BY <1>1, <1>2, <1>3, LoopKeeps
<1> QED
  BY <1>4

LEMMA SinceFlatKnown ==
  ASSUME NEW book, IsBook(book), NEW s, NEW A \in Actions, A = market.actions[s]
  PROVE  SinceFlat(book, s) = OpenRows(book, s, A, Len(book))
<1> DEFINE rows == RowsAt(book, s)
           upto(k) == {j \in rows : j <= k}
           Net(k) == SumFunctionOnSet([j \in upto(k) |-> Signed(book[j], A, None)], upto(k))
           flat == {k \in rows : book[k].type = "SELL" /\ Net(k) = 0}
<1>1. /\ Len(book) \in Nat /\ DOMAIN book = 1 .. Len(book) /\ IsFiniteSet(DOMAIN book)
      /\ rows = RowsTo(book, s, Len(book)) /\ rows \subseteq DOMAIN book
  BY BookRows DEF RowsAt, RowsTo
<1>2. SinceFlat(book, s) = {k \in rows : \A j \in flat : j < k}
  BY DEF SinceFlat, SumOf
<1>3. ASSUME NEW k \in rows
      PROVE  Net(k) = HoldingAfter(book, s, A, None)[k].qty
  <2>1. upto(k) = RowsTo(book, s, k) /\ upto(k) \in SUBSET DOMAIN book /\ k \in 0 .. Len(book)
    BY <1>1 DEF RowsAt, RowsTo
  <2>2. IsFiniteSet(upto(k))
    BY <1>1, <2>1, FS_Subset
  <2> DEFINE f == Signs(book, A)
             g == [j \in upto(k) |-> Signed(book[j], A, None)]
  <2>3. \A j \in upto(k) : f[j] = g[j]
    BY <2>1 DEF Signs
  <2>4. Numbers(f, upto(k))
    BY <2>1, SignedTyped DEF Numbers
  <2> HIDE DEF f, g
  <2>5. SumFunctionOnSet(f, upto(k)) = SumFunctionOnSet(g, upto(k))
    BY <2>2, <2>3, <2>4, SumSame
  <2>6. HoldingAfter(book, s, A, None)[k].qty = SumFunctionOnSet(f, upto(k))
    <3>1. HoldingAfter(book, s, A, None)[k].qty = SumFunctionOnSet(Signs(book, A), RowsTo(book, s, k))
      BY <2>1, NetKnown
    <3> HIDE DEF upto
    <3> QED
      BY <2>1, <3>1 DEF f
  <2> QED
    BY <2>5, <2>6 DEF g
<1>4. flat = {k \in rows : FlatAt(book, s, A, k)}
  <2> HIDE DEF Net
  <2> QED
    BY <1>1, <1>3 DEF FlatAt, RowsAt
<1> HIDE DEF flat, rows
<1>5. OpenRows(book, s, A, Len(book)) = {j \in rows : \A i \in rows : FlatAt(book, s, A, i) => i < j}
  BY <1>1 DEF OpenRows
<1> QED
  BY <1>2, <1>4, <1>5

\* The two parts of the profit, over the positions that the totals speak for.
LEMMA PartsKnown ==
  ASSUME NEW valued, NEW holdings, IsValued(valued, holdings)
  PROVE  LET totals == summarize(valued)
         IN /\ totals.fx_pl # None <=> \A s \in Priced(valued) : holdings[s].fx_complete
            /\ totals.fx_pl # None => totals.market_pl + totals.fx_pl = totals.unrealized_pl
<1> DEFINE totals == summarize(valued)
           priced == Priced(valued)
           value == Values(valued)
           cost == [s \in priced |-> valued[s].cost_basis_base]
           mkt == [s \in priced |-> valued[s].market_pl_base]
           fx == [s \in priced |-> valued[s].fx_pl_base]
           gain == [s \in priced |-> mkt[s] + fx[s]]
<1>1. totals.priced_symbols = priced /\ IsFiniteSet(priced)
  BY TotalsKnown
<1>2. /\ totals.total_value = SumFunctionOnSet(value, priced)
      /\ totals.unrealized_pl = SumFunctionOnSet(value, priced) - SumFunctionOnSet(cost, priced)
      /\ totals.market_pl = SumFunctionOnSet(mkt, priced)
      /\ totals.fx_pl = IF \E s \in priced : fx[s] = None THEN None
                        ELSE SumFunctionOnSet(fx, priced)
  BY <1>1 DEF summarize, SumOf, Values
<1>3. ASSUME NEW s \in priced
      PROVE  /\ value[s] \in Int /\ cost[s] \in Int /\ mkt[s] \in Int
             /\ fx[s] # None <=> holdings[s].fx_complete
             /\ holdings[s].fx_complete => fx[s] \in Int /\ value[s] = (mkt[s] + fx[s]) + cost[s]
  <2>1. /\ s \in DOMAIN valued /\ ~valued[s].conflict /\ valued[s].price # None
        /\ PositionOf(valued[s], holdings[s]) /\ holdings[s] \in Holding
    BY DEF IsValued, Priced
  <2>2. PICK h \in Holding : h = holdings[s]
    BY <2>1
  <2>3. PICK price \in Positive, qty \in Positive, rate \in Positive :
          price = valued[s].price /\ qty = valued[s].qty /\ rate = valued[s].rate.rate
    BY <2>1 DEF PositionOf, Rate, Positive
  <2>4. /\ valued[s].value_base = price * qty * rate /\ valued[s].value_base \in Positive
        /\ valued[s].market_pl_base = (price * qty - h.cost_basis) * rate
        /\ valued[s].market_pl_base \in Int
        /\ valued[s].cost_basis_base \in Int
        /\ valued[s].fx_pl_base = IF h.fx_complete THEN h.cost_basis * rate - valued[s].cost_basis_base
                                  ELSE None
    BY <2>1, <2>2, <2>3 DEF PositionOf
  <2>5. PICK basis \in Int : basis = h.cost_basis
    BY DEF Holding
  <2>6. PICK n \in Positive : n = price * qty
    BY TimesPositive
  <2>7. n * rate \in Int /\ basis * rate \in Int /\ (n - basis) * rate = n * rate - basis * rate
    BY DEF Positive
  <2>8. valued[s].value_base \in Int
    BY <2>4 DEF Positive
  <2>9. h.fx_complete => valued[s].fx_pl_base \in Int
    BY <2>4, <2>5, <2>7
  <2>10. fx[s] # None <=> h.fx_complete
    BY <2>4, <2>9, PortfolioAssumption
  <2>11. h.fx_complete => value[s] = (mkt[s] + fx[s]) + cost[s]
    BY <2>4, <2>5, <2>6, <2>7, <2>8, <2>9 DEF Values
  <2> QED
    BY <2>2, <2>4, <2>8, <2>9, <2>10, <2>11 DEF Values
<1> HIDE DEF value, cost, mkt, fx, totals, priced
<1>4. CASE ~(\A s \in priced : holdings[s].fx_complete)
  <2>1. totals.fx_pl = None
    BY <1>2, <1>3, <1>4
  <2> QED
    BY <1>4, <2>1 DEF priced, totals
<1>5. CASE \A s \in priced : holdings[s].fx_complete
  <2>1. Numbers(fx, priced) /\ Numbers(mkt, priced) /\ Numbers(cost, priced)
    BY <1>3, <1>5 DEF Numbers
  <2>2. IsPlus(gain, mkt, fx, priced) /\ Numbers(gain, priced)
    BY <2>1 DEF IsPlus, Numbers
  <2>3. IsPlus(value, gain, cost, priced)
    BY <1>3, <1>5 DEF IsPlus
  <2> HIDE DEF gain
  <2>4. SumFunctionOnSet(gain, priced) = SumFunctionOnSet(mkt, priced) + SumFunctionOnSet(fx, priced)
    BY <1>1, <2>1, <2>2, SumPlus
  <2>5. SumFunctionOnSet(value, priced) = SumFunctionOnSet(gain, priced) + SumFunctionOnSet(cost, priced)
    BY <1>1, <2>1, <2>2, <2>3, SumPlus
  <2>6. /\ SumFunctionOnSet(mkt, priced) \in Int /\ SumFunctionOnSet(fx, priced) \in Int
        /\ SumFunctionOnSet(cost, priced) \in Int
    BY <1>1, <2>1, SumTakes
  <2>7. totals.fx_pl = SumFunctionOnSet(fx, priced)
    BY <1>2, <1>3, <1>5
  <2>8. totals.fx_pl # None
    BY <2>6, <2>7, PortfolioAssumption
  <2>9. totals.market_pl + totals.fx_pl = totals.unrealized_pl
    BY <1>2, <2>4, <2>5, <2>6, <2>7
  <2> QED
    BY <1>5, <2>8, <2>9 DEF priced, totals
<1> QED
  BY <1>4, <1>5

\* What FxReturnIsKnown says of one report.
ReturnKnown(report) ==
  LET totals == report.totals
  IN /\ totals.fx_pl # None => totals.market_pl + totals.fx_pl = totals.unrealized_pl
     /\ totals.fx_pl # None <=>
          \A s \in totals.priced_symbols : \A k \in SinceFlat(report.book, s) :
            report.book[k].type = "BUY" => TxnFxRate(report.book[k]) # None

LEMMA ReturnOfBook ==
  ASSUME NEW book, IsBook(book), market \in Market,
         NEW report, report = Analytics(book, market, Limit)
  PROVE  ReturnKnown(report)
<1>0. PICK m \in Market : m = market
  OBVIOUS
<1>1. PICK holdings : holdings = build_holdings(book, m.actions, None)
  OBVIOUS
<1>2. PICK valued : valued = value_holdings(holdings, active_holdings(holdings), m,
                                            build_fx_rates(book, m.fx_quote))
  OBVIOUS
<1>3. IsValued(valued, holdings) /\ DOMAIN valued = active_holdings(holdings)
  BY <1>1, <1>2, ValuedTyped
<1>4. PICK totals : totals = summarize(valued)
  OBVIOUS
<1>5. report.book = book /\ report.totals = totals
  BY <1>0, <1>1, <1>2, <1>4 DEF Analytics
<1>6. totals.priced_symbols = Priced(valued)
  BY <1>3, <1>4, TotalsKnown
<1>7. ASSUME NEW s \in Priced(valued)
      PROVE  holdings[s].fx_complete <=>
               \A k \in SinceFlat(book, s) : book[k].type = "BUY" => TxnFxRate(book[k]) # None
  <2>1. s \in symbols_of(book) /\ s \in Symbol
    BY <1>1, <1>3, HoldingsTyped, SymbolsFinite DEF Priced
  <2>2. PICK A \in Actions : A = m.actions[s]
    BY <2>1, MarketTyped
  <2>3. holdings[s] = HoldingAfter(book, s, A, None)[Len(book)]
    BY <1>1, <2>1, <2>2, HoldingsTyped
  <2>4. Len(book) \in 0 .. Len(book)
    BY BookRows
  <2>5. holdings[s].fx_complete <=> BuysRated(book, s, A, Len(book))
    BY <2>3, <2>4, CompleteKnown
  <2>6. SinceFlat(book, s) = OpenRows(book, s, A, Len(book))
    BY <1>0, <2>2, SinceFlatKnown
  <2> QED
    BY <2>5, <2>6 DEF BuysRated
<1>8. /\ totals.fx_pl # None <=> \A s \in Priced(valued) : holdings[s].fx_complete
      /\ totals.fx_pl # None => totals.market_pl + totals.fx_pl = totals.unrealized_pl
  BY <1>3, <1>4, PartsKnown
<1> QED
  BY <1>5, <1>6, <1>7, <1>8 DEF ReturnKnown

\* The profit is split into a market and a currency part exactly when every lot
\* bought since its position was last flat has a rate, and the parts add up: for
\* any rows, splits and quotes.
THEOREM ReturnIsKnown == Spec => []FxReturnIsKnown
<1>1. TypeOK /\ FinitelyMany => FxReturnIsKnown
  <2> SUFFICES ASSUME TypeOK, FinitelyMany, NEW report \in Reports
               PROVE  ReturnKnown(report)
    BY DEF FxReturnIsKnown, ReturnKnown
  <2>1. PICK book \in Books : report = Analytics(book, market, Limit)
    BY DEF Reports
  <2>2. IsBook(book) /\ market \in Market
    BY BooksAreBooks
  <2> QED
    BY <2>1, <2>2, ReturnOfBook
<1> QED
  BY <1>1, PortfolioTyped, InitFinite, NextFinite, PTL DEF Spec

-----------------------------------------------------------------------------
(* The cost put in.                                                        *)

\* A field of the entries of a sequence, added up.
FieldSum(q, F) == SumFunctionOnSet([i \in DOMAIN q |-> q[i][F]], DOMAIN q)
Whole(q, F) == \A i \in DOMAIN q : q[i][F] \in Int

LEMMA FieldSumEmpty == \A F : FieldSum(<<>>, F) = 0 /\ Whole(<<>>, F)
<1> SUFFICES ASSUME NEW F
             PROVE  FieldSum(<<>>, F) = 0 /\ Whole(<<>>, F)
  OBVIOUS
<1>1. DOMAIN <<>> = {}
  OBVIOUS
<1>2. SumFunctionOnSet([i \in DOMAIN <<>> |-> <<>>[i][F]], {}) = 0
  BY SumEmpty
<1> QED
  BY <1>1, <1>2 DEF FieldSum, Whole

LEMMA FieldSumTyped ==
  ASSUME NEW T, NEW q \in Seq(T), NEW F, Whole(q, F)
  PROVE  FieldSum(q, F) \in Int
<1> DEFINE f == [i \in DOMAIN q |-> q[i][F]]
<1>1. IsFiniteSet(DOMAIN q)
  BY DomainFinite
<1>2. Numbers(f, DOMAIN q)
  BY DEF Numbers, Whole
<1> HIDE DEF f
<1>3. SumFunctionOnSet(f, DOMAIN q) \in Int
  BY <1>1, <1>2, SumTake
<1> QED
  BY <1>3 DEF FieldSum, f

LEMMA FieldSumAppend ==
  ASSUME NEW T, NEW q \in Seq(T), NEW x \in T, NEW F, Whole(q, F), x[F] \in Int
  PROVE  /\ Whole(Append(q, x), F) /\ FieldSum(q, F) \in Int
         /\ FieldSum(Append(q, x), F) = FieldSum(q, F) + x[F]
<1>1. PICK n \in Nat : n = Len(q)
  BY DomainFinite
<1>2. PICK a \in Seq(T) : a = Append(q, x)
  <2>1. Append(q, x) \in Seq(T)
    OBVIOUS
  <2> QED
    BY <2>1
<1>3. /\ DOMAIN q = 1 .. n /\ DOMAIN a = 1 .. n + 1 /\ Len(a) = n + 1
      /\ a[n + 1] = x /\ \A i \in 1 .. n : a[i] = q[i]
  BY <1>1, <1>2
<1>4. (1 .. n + 1) \ {n + 1} = 1 .. n /\ n + 1 \in 1 .. n + 1
  OBVIOUS
<1> DEFINE f == [i \in 1 .. n |-> q[i][F]]
           g == [i \in 1 .. n + 1 |-> a[i][F]]
<1>5. Numbers(f, 1 .. n)
  BY <1>3 DEF Numbers, Whole
<1>6. Numbers(g, 1 .. n + 1)
  <2>1. \A i \in 1 .. n : a[i][F] \in Int
    BY <1>3 DEF Whole
  <2>2. a[n + 1][F] \in Int
    BY <1>3
  <2>3. \A i \in 1 .. n + 1 : i \in 1 .. n \/ i = n + 1
    OBVIOUS
  <2> QED
    BY <2>1, <2>2, <2>3 DEF Numbers
<1>7. (\A i \in 1 .. n : f[i] = g[i]) /\ g[n + 1] = x[F]
  BY <1>3
<1>8. IsFiniteSet(1 .. n) /\ IsFiniteSet(1 .. n + 1)
  BY FS_Interval
<1>9. FieldSum(q, F) = SumFunctionOnSet(f, 1 .. n) /\ FieldSum(a, F) = SumFunctionOnSet(g, 1 .. n + 1)
  BY <1>3 DEF FieldSum
<1>10. Whole(a, F)
  BY <1>3, <1>6 DEF Numbers, Whole
<1> HIDE DEF f, g
<1>11. SumFunctionOnSet(g, 1 .. n + 1) = g[n + 1] + SumFunctionOnSet(g, 1 .. n)
  <2>1. SumFunctionOnSet(g, 1 .. n + 1) = g[n + 1] + SumFunctionOnSet(g, (1 .. n + 1) \ {n + 1})
    BY <1>4, <1>6, <1>8, SumTake
  <2> QED
    BY <1>4, <2>1
<1>12. SumFunctionOnSet(f, 1 .. n) = SumFunctionOnSet(g, 1 .. n)
  BY <1>5, <1>7, <1>8, SumSame
<1>13. SumFunctionOnSet(f, 1 .. n) \in Int
  BY <1>5, <1>8, SumTakes
<1> QED
  BY <1>2, <1>7, <1>9, <1>10, <1>11, <1>12, <1>13

\* A split restates a row to a whole quantity at a whole price: the model's
\* integers stand for the code's decimals where no division leaves a remainder.
IsExact(t, A) ==
  LET f == split_factor(A, t.date, None)
      lot == Lot(t, A, None)
  IN lot.qty * f[1] = t.qty * f[2] /\ lot.price * f[2] = t.price * f[1]

LEMMA Cancel ==
  ASSUME NEW x \in Int, NEW y \in Int, NEW c \in Positive, x * c = y * c
  PROVE  x = y
<1>1. \A a \in Int, b \in Positive : a > 0 => a * b > 0
  BY DEF Positive
<1>2. (x - y) * c = 0 /\ (y - x) * c = 0
  BY DEF Positive
<1>3. ~(x - y > 0) /\ ~(y - x > 0)
  BY <1>1, <1>2
<1> QED
  BY <1>3

LEMMA ExactLot ==
  ASSUME NEW t \in Row, NEW A \in Actions, IsExact(t, A)
  PROVE  LET lot == Lot(t, A, None)
         IN /\ lot \in [qty : Nat, price : Nat] /\ lot.qty \in Positive
            /\ lot.qty * lot.price = t.qty * t.price
<1>1. PICK f \in Factor : f = split_factor(A, t.date, None)
  BY FactorPositive
<1>2. PICK lot \in [qty : Nat, price : Nat] : lot = Lot(t, A, None)
  BY LotTyped
<1>3. PICK a \in Nat, b \in Nat : a = lot.qty /\ b = lot.price
  OBVIOUS
<1>4. PICK q \in Positive, p \in Nat : q = t.qty /\ p = t.price
  BY DEF Row, Positive
<1>5. PICK n \in Positive, d \in Positive : n = f[1] /\ d = f[2]
  BY DEF Factor
<1>6. a * n = q * d /\ b * d = p * n
  BY <1>1, <1>2, <1>3, <1>4, <1>5 DEF IsExact
<1>7. a # 0
  <2>1. q * d \in Positive
    BY TimesPositive
  <2>2. a = 0 => a * n = 0
    BY DEF Positive
  <2> QED
    BY <1>6, <2>1, <2>2 DEF Positive
<1>8. a * b = q * p
  <2>1. \A u, v, x, y \in Nat : (u * v) * (x * y) = (u * x) * (v * y)
    <3> SUFFICES ASSUME NEW u \in Nat, NEW v \in Nat, NEW x \in Nat, NEW y \in Nat
                 PROVE  (u * v) * (x * y) = (u * x) * (v * y)
      OBVIOUS
    <3> QED
      OBVIOUS
  <2>2. n \in Nat /\ d \in Nat /\ q \in Nat
    BY DEF Positive
  <2>3. (a * b) * (n * d) = (a * n) * (b * d)
    BY <2>1, <2>2
  <2>4. (q * p) * (d * n) = (q * d) * (p * n)
    BY <2>1, <2>2
  <2>5. n * d = d * n /\ n * d \in Positive
    BY <2>2, TimesPositive
  <2>6. a * b \in Int /\ q * p \in Int
    BY <2>2
  <2>7. (a * b) * (n * d) = (q * p) * (n * d)
    BY <1>6, <2>3, <2>4, <2>5
  <2> QED
    BY <2>5, <2>6, <2>7, Cancel
<1> QED
  BY <1>2, <1>3, <1>4, <1>7, <1>8 DEF Positive

\* What is released and what is held, when a sale takes some or all of it.
LEMMA ReleasedAll ==
  ASSUME NEW h \in Holding, NEW q \in Positive, h.qty = q, NEW c \in Int
  PROVE  Released(c, q, h) = c
<1>1. \A a \in Positive, b \in Int : (a * b) \div a = b
  <2> SUFFICES ASSUME NEW a \in Positive, NEW b \in Int
               PROVE  (a * b) \div a = b
    OBVIOUS
  <2>1. \A x \in Int, y \in Nat : y > 0 =>
           x \div y \in Int /\ y * (x \div y) <= x /\ x < y * (x \div y) + y
    OBVIOUS
  <2>2. PICK x \in Int : x = a * b
    BY DEF Positive
  <2>3. PICK d \in Int : d = x \div a
    BY <2>1 DEF Positive
  <2>4. a * d <= x /\ x < a * d + a /\ a \in Nat /\ a > 0
    BY <2>1, <2>3 DEF Positive
  <2>5. \A u \in Nat, v, w \in Int : u > 0 /\ u * v <= u * w => v <= w
    OBVIOUS
  <2>6. a * (d + 1) = a * d + a /\ a * (b + 1) = a * b + a /\ a * d \in Int /\ a * b \in Int
    BY <2>4
  <2>7. d <= b
    BY <2>2, <2>4, <2>5
  <2>8. b < d + 1
    <3>1. CASE d + 1 <= b
      <4>1. \A u \in Nat, v, w \in Int : v <= w => u * v <= u * w
        OBVIOUS
      <4>2. a * (d + 1) <= a * b
        BY <2>4, <3>1, <4>1
      <4> QED
        BY <2>2, <2>4, <2>6, <4>2
    <3> QED
      BY <3>1
  <2> QED
    BY <2>2, <2>3, <2>7, <2>8
<1> QED
  BY <1>1 DEF Released, Positive

\* A row adds its cost to what is held and what was released.
LEMMA CostStep ==
  ASSUME NEW h, Sound(h), NEW t \in Row, NEW A \in Actions, IsExact(t, A),
         NEW n, n = FoldTxn(h, t, A, None), Whole(h.sales, "cost_released")
  PROVE  /\ Whole(n.sales, "cost_released")
         /\ n.cost_basis + FieldSum(n.sales, "cost_released")
              = h.cost_basis + FieldSum(h.sales, "cost_released") + LotCost(t)
         /\ FieldSum(h.sales, "cost_released") \in Int
<1>1. h \in Holding /\ h.round_open_index <= Len(h.sales) /\ h.cost_basis \in Int /\ h.qty \in Int
  BY DEF Sound, Holding
<1>2. PICK lot \in [qty : Nat, price : Nat] : lot = Lot(t, A, None)
  BY LotTyped
<1>3. lot.qty \in Positive /\ lot.qty * lot.price = t.qty * t.price
  BY <1>2, ExactLot
<1>4. FieldSum(h.sales, "cost_released") \in Int
  BY <1>1, FieldSumTyped DEF Holding
<1>5. CASE t.type = "BUY"
  <2>1. n.cost_basis = h.cost_basis + lot_cost(lot, t) /\ n.sales = h.sales
    BY <1>1, <1>2, <1>5, Bought
  <2>2. lot_cost(lot, t) = LotCost(t) /\ lot_cost(lot, t) \in Int
    <3>1. t.qty \in Nat /\ t.price \in Nat /\ t.fee \in Nat
      BY DEF Row
    <3>2. t.qty * t.price + t.fee \in Int
      BY <3>1
    <3> QED
      BY <1>3, <1>5, <3>2 DEF lot_cost, LotCost
  <2> QED
    BY <1>1, <1>4, <2>1, <2>2
<1>6. CASE t.type # "BUY"
  <2>1. SoldFrom(h, n, t, lot)
    BY <1>1, <1>2, <1>6, Sold
  <2>2. PICK sale \in Sale : sale = RealizedSale(h, lot, t)
    BY <1>1, SaleTyped
  <2>3. PICK cost \in Int : cost = Released(h.cost_basis, lot.qty, h)
    BY <1>1, SaleTyped
  <2>4. sale.cost_released = cost /\ sale["cost_released"] = cost
    BY <2>2, <2>3 DEF RealizedSale
  <2>5. n.sales = Append(h.sales, sale) /\ h.sales \in Seq(Sale)
    BY <1>1, <2>1, <2>2 DEF SoldFrom, Holding
  <2>6. /\ Whole(n.sales, "cost_released")
        /\ FieldSum(n.sales, "cost_released") = FieldSum(h.sales, "cost_released") + cost
    BY <2>4, <2>5, FieldSumAppend
  <2>7. n.cost_basis = h.cost_basis - cost
    <3>1. CASE Reduces(h, n, lot)
      BY <2>3, <3>1 DEF Reduces
    <3>2. CASE n.qty = 0 /\ n.cost_basis = 0
      <4>1. h.qty = lot.qty
        BY <1>1, <1>3, <2>1, <3>2 DEF SoldFrom
      <4>2. cost = h.cost_basis
        BY <1>1, <1>3, <2>3, <4>1, ReleasedAll
      <4> QED
        BY <1>1, <3>2, <4>2
    <3> QED
      BY <2>1, <3>1, <3>2 DEF SoldFrom, Closes
  <2>8. LotCost(t) = 0
    BY <1>6 DEF LotCost
  <2> QED
    BY <1>1, <1>4, <2>6, <2>7, <2>8
<1> QED
  BY <1>5, <1>6, <1>4

\* The same in the base currency, where every lot and the row have a rate.
LEMMA BaseStep ==
  ASSUME NEW h, Sound(h), NEW t \in Row, NEW A \in Actions, IsExact(t, A),
         NEW n, n = FoldTxn(h, t, A, None), Whole(h.sales, "cost_released_base"),
         h.fx_complete, TxnFxRate(t) # None
  PROVE  /\ Whole(n.sales, "cost_released_base")
         /\ n.cost_basis_base + FieldSum(n.sales, "cost_released_base")
              = h.cost_basis_base + FieldSum(h.sales, "cost_released_base")
                  + LotCost(t) * TxnFxRate(t)
         /\ FieldSum(h.sales, "cost_released_base") \in Int
<1>1. h \in Holding /\ h.round_open_index <= Len(h.sales) /\ h.cost_basis_base \in Int /\ h.qty \in Int
  BY DEF Sound, Holding
<1>2. PICK lot \in [qty : Nat, price : Nat] : lot = Lot(t, A, None)
  BY LotTyped
<1>3. lot.qty \in Positive /\ lot.qty * lot.price = t.qty * t.price
  BY <1>2, ExactLot
<1>4. FieldSum(h.sales, "cost_released_base") \in Int
  BY <1>1, FieldSumTyped DEF Holding
<1>5. PICK rate \in Positive : rate = TxnFxRate(t)
  BY RateOfRow
<1>6. CASE t.type = "BUY"
  <2>1. n.cost_basis_base = h.cost_basis_base + lot_cost(lot, t) * rate /\ n.sales = h.sales
    BY <1>1, <1>2, <1>5, <1>6, Bought
  <2>2. PICK cost \in Int : cost = lot_cost(lot, t) /\ cost = LotCost(t)
    <3>1. t.qty \in Nat /\ t.price \in Nat /\ t.fee \in Nat
      BY DEF Row
    <3>2. t.qty * t.price + t.fee \in Int
      BY <3>1
    <3> QED
      BY <1>3, <1>6, <3>2 DEF lot_cost, LotCost
  <2>3. cost * rate \in Int
    BY DEF Positive
  <2> QED
    BY <1>1, <1>4, <1>5, <2>1, <2>2, <2>3
<1>7. CASE t.type # "BUY"
  <2>1. SoldFrom(h, n, t, lot)
    BY <1>1, <1>2, <1>7, Sold
  <2>2. PICK sale \in Sale : sale = RealizedSale(h, lot, t)
    BY <1>1, SaleTyped
  <2>3. PICK cost \in Int : cost = Released(h.cost_basis_base, lot.qty, h)
    BY <1>1, SaleTyped
  <2>4. sale.cost_released_base = cost /\ sale["cost_released_base"] = cost
    BY <2>2, <2>3 DEF RealizedSale
  <2>5. n.sales = Append(h.sales, sale) /\ h.sales \in Seq(Sale)
    BY <1>1, <2>1, <2>2 DEF SoldFrom, Holding
  <2>6. /\ Whole(n.sales, "cost_released_base")
        /\ FieldSum(n.sales, "cost_released_base") = FieldSum(h.sales, "cost_released_base") + cost
    BY <2>4, <2>5, FieldSumAppend
  <2>7. n.cost_basis_base = h.cost_basis_base - cost
    <3>1. CASE Reduces(h, n, lot)
      BY <2>3, <3>1 DEF Reduces
    <3>2. CASE n.qty = 0 /\ n.cost_basis_base = 0
      <4>1. h.qty = lot.qty
        BY <1>1, <1>3, <2>1, <3>2 DEF SoldFrom
      <4>2. cost = h.cost_basis_base
        BY <1>1, <1>3, <2>3, <4>1, ReleasedAll
      <4> QED
        BY <1>1, <3>2, <4>2
    <3> QED
      BY <2>1, <3>1, <3>2 DEF SoldFrom, Closes
  <2>8. LotCost(t) * rate = 0
    BY <1>7 DEF LotCost, Positive
  <2> QED
    BY <1>1, <1>4, <1>5, <2>6, <2>7, <2>8
<1> QED
  BY <1>4, <1>6, <1>7

Costs(book) == [j \in DOMAIN book |-> LotCost(book[j])]
BaseCosts(book) == [j \in DOMAIN book |-> LotCost(book[j]) * TxnFxRate(book[j])]
AllExact(book, s, A) == \A j \in DOMAIN book : book[j].symbol = s => IsExact(book[j], A)
AllRated(book, s) == \A j \in DOMAIN book : book[j].symbol = s => TxnFxRate(book[j]) # None

\* One more row of the symbol in a sum over its rows.
LEMMA RowsSum ==
  ASSUME NEW book, IsBook(book), NEW s, NEW f, NEW k \in 1 .. Len(book),
         Numbers(f, RowsTo(book, s, Len(book)))
  PROVE  /\ book[k].symbol # s =>
              SumFunctionOnSet(f, RowsTo(book, s, k)) = SumFunctionOnSet(f, RowsTo(book, s, k - 1))
         /\ book[k].symbol = s =>
              /\ SumFunctionOnSet(f, RowsTo(book, s, k))
                   = f[k] + SumFunctionOnSet(f, RowsTo(book, s, k - 1))
              /\ f[k] \in Int
         /\ SumFunctionOnSet(f, RowsTo(book, s, k - 1)) \in Int
<1>1. Len(book) \in Nat
  BY BookRows
<1>2. PICK all : all = RowsTo(book, s, Len(book))
  OBVIOUS
<1>3. RowsTo(book, s, k) \in SUBSET all /\ RowsTo(book, s, k - 1) \in SUBSET all
  BY <1>1, <1>2 DEF RowsTo
<1>4. IsFiniteSet(all)
  <2>1. Len(book) = 0 => all = {}
    BY <1>2 DEF RowsTo
  <2>2. Len(book) # 0 => IsFiniteSet(all)
    BY <1>1, <1>2, NextRows
  <2> QED
    BY <2>1, <2>2, FS_EmptySet
<1>5. Numbers(f, all)
  BY <1>2
<1>6. book[k].symbol # s => RowsTo(book, s, k) = RowsTo(book, s, k - 1)
  BY NextRows
<1>7. ASSUME book[k].symbol = s
      PROVE  /\ SumFunctionOnSet(f, RowsTo(book, s, k))
                  = f[k] + SumFunctionOnSet(f, RowsTo(book, s, k - 1))
             /\ f[k] \in Int
  <2>1. k \in RowsTo(book, s, k) /\ RowsTo(book, s, k) \ {k} = RowsTo(book, s, k - 1)
    BY <1>7, NextRows
  <2> QED
    BY <1>3, <1>4, <1>5, <2>1, SumTakes DEF Numbers
<1>8. SumFunctionOnSet(f, RowsTo(book, s, k - 1)) \in Int
  BY <1>3, <1>4, <1>5, SumTakes
<1> QED
  BY <1>6, <1>7, <1>8

\* What is held and what was released add up to what the rows cost.
InTotal(h, costs, rows) ==
  /\ Whole(h.sales, "cost_released")
  /\ h.cost_basis + FieldSum(h.sales, "cost_released") = SumFunctionOnSet(costs, rows)
BaseInTotal(h, costs, rows) ==
  /\ Whole(h.sales, "cost_released_base")
  /\ h.cost_basis_base + FieldSum(h.sales, "cost_released_base") = SumFunctionOnSet(costs, rows)

LEMMA LotCostTyped ==
  ASSUME NEW t \in Row
  PROVE  /\ LotCost(t) \in Int
         /\ TxnFxRate(t) # None => LotCost(t) * TxnFxRate(t) \in Int
<1>1. LotCost(t) \in Int
  <2>1. t.qty \in Nat /\ t.price \in Nat /\ t.fee \in Nat
    BY DEF Row
  <2>2. t.qty * t.price + t.fee \in Int
    BY <2>1
  <2> QED
    BY <2>2 DEF LotCost
<1>2. TxnFxRate(t) # None => TxnFxRate(t) \in Int
  BY RateOfRow DEF Positive
<1> QED
  BY <1>1, <1>2

LEMMA CostKnown ==
  ASSUME NEW book, IsBook(book), NEW s, NEW A \in Actions, AllExact(book, s, A)
  PROVE  \A k \in 0 .. Len(book) :
           InTotal(HoldingAfter(book, s, A, None)[k], Costs(book), RowsTo(book, s, k))
<1> DEFINE h == HoldingAfter(book, s, A, None)
           f == Costs(book)
           Good == {k \in 0 .. Len(book) : InTotal(h[k], f, RowsTo(book, s, k))}
<1>1. Len(book) \in Nat /\ book \in Seq(Row) /\ DOMAIN book = 1 .. Len(book)
  BY BookRows DEF IsBook
<1>2. Numbers(f, RowsTo(book, s, Len(book)))
  <2>1. \A j \in RowsTo(book, s, Len(book)) : j \in DOMAIN book /\ book[j] \in Row
    BY <1>1, BookRows DEF RowsTo
  <2>2. \A j \in RowsTo(book, s, Len(book)) : f[j] \in Int
    BY <2>1, LotCostTyped DEF Costs
  <2> QED
    BY <2>2 DEF Numbers
<1>3. 0 \in Good
  <2>1. h[0].cost_basis = 0 /\ h[0].sales = <<>>
    BY <1>1, Loop DEF NewHolding
  <2>2. RowsTo(book, s, 0) = {}
    BY DEF RowsTo
  <2>3. SumFunctionOnSet(f, {}) = 0
    BY SumEmpty
  <2>4. SumFunctionOnSet(f, RowsTo(book, s, 0)) = 0
    BY <2>2, <2>3
  <2>5. FieldSum(<<>>, "cost_released") = 0 /\ Whole(<<>>, "cost_released")
    BY FieldSumEmpty
  <2>6. 0 \in 0 .. Len(book)
    BY <1>1
  <2> HIDE DEF h, f
  <2>7. InTotal(h[0], f, RowsTo(book, s, 0))
    BY <2>1, <2>4, <2>5 DEF InTotal
  <2> QED
    BY <2>6, <2>7
<1>4. ASSUME NEW k \in 1 .. Len(book), k - 1 \in Good
      PROVE  k \in Good
  <2> HIDE DEF h, f
  <2>1. /\ Sound(h[k - 1]) /\ book[k] \in Row /\ k \in DOMAIN book
        /\ h[k] = IF book[k].symbol = s THEN FoldTxn(h[k - 1], book[k], A, None) ELSE h[k - 1]
    BY <1>1, Steps DEF h
  <2>2. InTotal(h[k - 1], f, RowsTo(book, s, k - 1))
    BY <1>4
  <2>3. CASE book[k].symbol # s
    <3>1. RowsTo(book, s, k) = RowsTo(book, s, k - 1)
      BY <2>3, NextRows
    <3> QED
      BY <2>1, <2>2, <2>3, <3>1
  <2>4. CASE book[k].symbol = s
    <3>1. /\ SumFunctionOnSet(f, RowsTo(book, s, k)) = f[k] + SumFunctionOnSet(f, RowsTo(book, s, k - 1))
          /\ f[k] \in Int /\ SumFunctionOnSet(f, RowsTo(book, s, k - 1)) \in Int
      BY <1>2, <2>4, RowsSum
    <3>2. h[k] = FoldTxn(h[k - 1], book[k], A, None) /\ IsExact(book[k], A)
      BY <2>1, <2>4 DEF AllExact
    <3>3. Whole(h[k - 1].sales, "cost_released")
      BY <2>2 DEF InTotal
    <3>4. f[k] = LotCost(book[k])
      BY <2>1 DEF f, Costs
    <3>6. /\ Whole(h[k].sales, "cost_released")
          /\ h[k].cost_basis + FieldSum(h[k].sales, "cost_released")
               = h[k - 1].cost_basis + FieldSum(h[k - 1].sales, "cost_released") + f[k]
      BY <2>1, <3>2, <3>3, <3>4, CostStep
    <3>7. InTotal(h[k], f, RowsTo(book, s, k))
      BY <2>2, <3>1, <3>6 DEF InTotal
    <3> QED
      BY <3>7
  <2> QED
    BY <2>3, <2>4
<1>5. \A k \in 0 .. Len(book) : k \in Good
  <2> HIDE DEF Good
  <2> QED
    BY <1>1, <1>3, <1>4, LoopKeeps
<1> QED
  BY <1>5

LEMMA BaseKnown ==
  ASSUME NEW book, IsBook(book), NEW s, NEW A \in Actions, AllExact(book, s, A),
         AllRated(book, s)
  PROVE  \A k \in 0 .. Len(book) :
           BaseInTotal(HoldingAfter(book, s, A, None)[k], BaseCosts(book), RowsTo(book, s, k))
<1> DEFINE h == HoldingAfter(book, s, A, None)
           f == BaseCosts(book)
           Good == {k \in 0 .. Len(book) : BaseInTotal(h[k], f, RowsTo(book, s, k))}
<1>1. Len(book) \in Nat /\ book \in Seq(Row) /\ DOMAIN book = 1 .. Len(book)
  BY BookRows DEF IsBook
<1>2. Numbers(f, RowsTo(book, s, Len(book)))
  <2>1. \A j \in RowsTo(book, s, Len(book)) :
          j \in DOMAIN book /\ book[j] \in Row /\ TxnFxRate(book[j]) # None
    BY <1>1, BookRows DEF RowsTo, AllRated
  <2>2. \A j \in RowsTo(book, s, Len(book)) : f[j] \in Int
    BY <2>1, LotCostTyped DEF BaseCosts
  <2> QED
    BY <2>2 DEF Numbers
<1>3. 0 \in Good
  <2>1. h[0].cost_basis_base = 0 /\ h[0].sales = <<>>
    BY <1>1, Loop DEF NewHolding
  <2>2. RowsTo(book, s, 0) = {}
    BY DEF RowsTo
  <2>3. SumFunctionOnSet(f, {}) = 0
    BY SumEmpty
  <2>4. SumFunctionOnSet(f, RowsTo(book, s, 0)) = 0
    BY <2>2, <2>3
  <2>5. FieldSum(<<>>, "cost_released_base") = 0 /\ Whole(<<>>, "cost_released_base")
    BY FieldSumEmpty
  <2>6. 0 \in 0 .. Len(book)
    BY <1>1
  <2> HIDE DEF h, f
  <2>7. BaseInTotal(h[0], f, RowsTo(book, s, 0))
    BY <2>1, <2>4, <2>5 DEF BaseInTotal
  <2> QED
    BY <2>6, <2>7
<1>4. ASSUME NEW k \in 1 .. Len(book), k - 1 \in Good
      PROVE  k \in Good
  <2> HIDE DEF h, f
  <2>1. /\ Sound(h[k - 1]) /\ book[k] \in Row /\ k \in DOMAIN book
        /\ h[k] = IF book[k].symbol = s THEN FoldTxn(h[k - 1], book[k], A, None) ELSE h[k - 1]
    BY <1>1, Steps DEF h
  <2>2. BaseInTotal(h[k - 1], f, RowsTo(book, s, k - 1))
    BY <1>4
  <2>3. CASE book[k].symbol # s
    <3>1. RowsTo(book, s, k) = RowsTo(book, s, k - 1)
      BY <2>3, NextRows
    <3> QED
      BY <2>1, <2>2, <2>3, <3>1
  <2>4. CASE book[k].symbol = s
    <3>1. /\ SumFunctionOnSet(f, RowsTo(book, s, k)) = f[k] + SumFunctionOnSet(f, RowsTo(book, s, k - 1))
          /\ f[k] \in Int /\ SumFunctionOnSet(f, RowsTo(book, s, k - 1)) \in Int
      BY <1>2, <2>4, RowsSum
    <3>2. h[k] = FoldTxn(h[k - 1], book[k], A, None) /\ IsExact(book[k], A)
      BY <2>1, <2>4 DEF AllExact
    <3>3. Whole(h[k - 1].sales, "cost_released_base")
      BY <2>2 DEF BaseInTotal
    <3>4. f[k] = LotCost(book[k]) * TxnFxRate(book[k]) /\ TxnFxRate(book[k]) # None
      BY <2>1, <2>4 DEF f, BaseCosts, AllRated
    <3>5. h[k - 1].fx_complete
      <4>1. k - 1 \in 0 .. Len(book)
        BY <1>1
      <4>2. BuysRated(book, s, A, k - 1)
        BY <1>1 DEF BuysRated, OpenRows, RowsTo, AllRated
      <4>3. h[k - 1].fx_complete <=> BuysRated(book, s, A, k - 1)
        BY <4>1, CompleteKnown DEF h
      <4> QED
        BY <4>2, <4>3
    <3>6. /\ Whole(h[k].sales, "cost_released_base")
          /\ h[k].cost_basis_base + FieldSum(h[k].sales, "cost_released_base")
               = h[k - 1].cost_basis_base + FieldSum(h[k - 1].sales, "cost_released_base") + f[k]
      BY <2>1, <3>2, <3>3, <3>4, <3>5, BaseStep
    <3>7. BaseInTotal(h[k], f, RowsTo(book, s, k))
      BY <2>2, <3>1, <3>6 DEF BaseInTotal
    <3> QED
      BY <3>7
  <2> QED
    BY <2>3, <2>4
<1>5. \A k \in 0 .. Len(book) : k \in Good
  <2> HIDE DEF Good
  <2> QED
    BY <1>1, <1>3, <1>4, LoopKeeps
<1> QED
  BY <1>5

\* What CostIsConserved says of one symbol of a book.
Conserved(book, h, rows) ==
  /\ SumOf(rows, LAMBDA k : LotCost(book[k]))
       = h.cost_basis + SumOver(h.sales, LAMBDA x : x.cost_released)
  /\ (\A k \in rows : TxnFxRate(book[k]) # None) =>
       SumOf(rows, LAMBDA k : LotCost(book[k]) * TxnFxRate(book[k]))
         = h.cost_basis_base + SumOver(h.sales, LAMBDA x : x.cost_released_base)

LEMMA ConservedOfBook ==
  ASSUME NEW book, IsBook(book), NEW m \in Market, NEW s \in symbols_of(book),
         AllExact(book, s, m.actions[s])
  PROVE  Conserved(book, build_holdings(book, m.actions, None)[s], RowsAt(book, s))
<1>0. /\ Len(book) \in Nat /\ DOMAIN book = 1 .. Len(book) /\ IsFiniteSet(DOMAIN book)
      /\ \A j \in DOMAIN book : book[j] \in Row
  BY BookRows
<1>1. PICK A \in Actions : A = m.actions[s]
  BY SymbolsFinite, MarketTyped
<1>2. PICK h \in Holding :
        /\ h = build_holdings(book, m.actions, None)[s]
        /\ h = HoldingAfter(book, s, A, None)[Len(book)]
  BY <1>1, HoldingsTyped
<1>3. PICK rows : rows = RowsAt(book, s)
  OBVIOUS
<1>4. rows = RowsTo(book, s, Len(book)) /\ rows \subseteq DOMAIN book /\ IsFiniteSet(rows)
  <2>1. rows = RowsTo(book, s, Len(book)) /\ rows \subseteq DOMAIN book
    BY <1>0, <1>3 DEF RowsAt, RowsTo
  <2> QED
    BY <1>0, <2>1, FS_Subset
<1>5. Len(book) \in 0 .. Len(book)
  BY <1>0
<1> DEFINE f == [k \in rows |-> LotCost(book[k])]
           g == [k \in rows |-> LotCost(book[k]) * TxnFxRate(book[k])]
<1>6. SumFunctionOnSet(f, rows) = h.cost_basis + FieldSum(h.sales, "cost_released")
  <2>1. InTotal(h, Costs(book), rows)
    BY <1>1, <1>2, <1>4, <1>5, CostKnown
  <2>2. \A k \in rows : k \in DOMAIN book /\ book[k] \in Row
    BY <1>0, <1>4
  <2>3. Numbers(f, rows) /\ \A k \in rows : f[k] = Costs(book)[k]
    BY <2>2, LotCostTyped DEF Numbers, Costs
  <2> HIDE DEF f
  <2>4. SumFunctionOnSet(f, rows) = SumFunctionOnSet(Costs(book), rows)
    BY <1>4, <2>3, SumSame
  <2> QED
    BY <2>1, <2>4 DEF InTotal
<1>7. ASSUME \A k \in rows : TxnFxRate(book[k]) # None
      PROVE  SumFunctionOnSet(g, rows) = h.cost_basis_base + FieldSum(h.sales, "cost_released_base")
  <2>0. AllRated(book, s)
    BY <1>3, <1>7 DEF AllRated, RowsAt
  <2>1. BaseInTotal(h, BaseCosts(book), rows)
    BY <1>1, <1>2, <1>4, <1>5, <2>0, BaseKnown
  <2>2. \A k \in rows : k \in DOMAIN book /\ book[k] \in Row
    BY <1>0, <1>4
  <2>3. Numbers(g, rows) /\ \A k \in rows : g[k] = BaseCosts(book)[k]
    BY <1>7, <2>2, LotCostTyped DEF Numbers, BaseCosts
  <2> HIDE DEF g
  <2>4. SumFunctionOnSet(g, rows) = SumFunctionOnSet(BaseCosts(book), rows)
    BY <1>4, <2>3, SumSame
  <2> QED
    BY <2>1, <2>4 DEF BaseInTotal
<1>8. Conserved(book, h, rows)
  BY <1>6, <1>7 DEF Conserved, SumOf, SumOver, FieldSum
<1> QED
  BY <1>2, <1>3, <1>8

\* Every split of the market restates every row of the symbol without a remainder.
RestatesExactly == \A i \in Ids : IsExact(txns[i], market.actions[txns[i].symbol])

LEMMA BookIsExact ==
  ASSUME RestatesExactly, TypeOK, FinitelyMany, NEW book \in Books
  PROVE  \A s : AllExact(book, s, market.actions[s])
<1>1. \A j \in DOMAIN book : \E i \in Ids : book[j] = txns[i]
  BY RowsAreTransactions
<1> QED
  BY <1>1 DEF RestatesExactly, AllExact

\* The cost released by the sales and the cost still held add up to the cost put
\* in, natively and, where every row has a rate, in the base currency: through
\* oversold positions, splits and positions closed and opened again.
THEOREM CostConserved == Spec => [](RestatesExactly => CostIsConserved)
<1>1. TypeOK /\ FinitelyMany => (RestatesExactly => CostIsConserved)
  <2> SUFFICES ASSUME TypeOK, FinitelyMany, RestatesExactly, NEW book \in Books,
                      NEW s \in symbols_of(book)
               PROVE  Conserved(book, build_holdings(book, market.actions, None)[s],
                                RowsAt(book, s))
    BY DEF CostIsConserved, Conserved, build_holdings
  <2>1. IsBook(book) /\ market \in Market
    BY BooksAreBooks
  <2>2. AllExact(book, s, market.actions[s])
    BY BookIsExact
  <2> QED
    BY <2>1, <2>2, ConservedOfBook
<1> QED
  BY <1>1, PortfolioTyped, InitFinite, NextFinite, PTL DEF Spec

LEMMA Window ==
  ASSUME NEW T, NEW a \in Seq(T), NEW m \in Nat, NEW e \in Nat, m >= 1, m <= e + 1, e <= Len(a)
  PROVE  /\ SubSeq(a, m, e) \in Seq(T) /\ Len(SubSeq(a, m, e)) = e - m + 1
         /\ \A i \in 1 .. e - m + 1 : SubSeq(a, m, e)[i] = a[m + i - 1]
<1>1. \A i \in m .. e : a[i] \in T
  OBVIOUS
<1>2. m \in Int /\ e \in Int
  OBVIOUS
<1>3. Len(SubSeq(a, m, e)) = IF m <= e THEN e - m + 1 ELSE 0
  BY <1>1, <1>2, SubSeqProperties
<1>4. \A i \in 1 .. e - m + 1 : SubSeq(a, m, e)[i] = a[m + i - 1]
  BY <1>1, <1>2, SubSeqProperties
<1>5. SubSeq(a, m, e) \in Seq(T)
  BY <1>1, <1>2, SubSeqProperties
<1> QED
  BY <1>3, <1>4, <1>5

\* The legs a sale closes are the open sales and itself.
Extends(T, q, r, a, x) ==
  /\ SubSeq(q, r + 1, Len(q)) \in Seq(T)
  /\ Len(SubSeq(q, r + 1, Len(q))) = Len(q) - r
  /\ SubSeq(a, r + 1, Len(a)) = Append(SubSeq(q, r + 1, Len(q)), x)
LEMMA LegsOf ==
  ASSUME NEW T, NEW q \in Seq(T), NEW x \in T, NEW r \in Nat, r <= Len(q),
         NEW a, a = Append(q, x)
  PROVE  Extends(T, q, r, a, x)
<1>1. PICK n \in Nat : n = Len(q)
  OBVIOUS
<1>2. a \in Seq(T) /\ Len(a) = n + 1 /\ a[n + 1] = x /\ \A i \in 1 .. n : a[i] = q[i]
  BY <1>1
<1>3. PICK o : o = SubSeq(q, r + 1, n)
  OBVIOUS
<1>4. \A i \in r + 1 .. n : q[i] \in T
  BY <1>1
<1>5. /\ o \in Seq(T) /\ Len(o) = n - r
      /\ \A i \in 1 .. n - r : o[i] = q[r + i]
  <2>1. /\ o \in Seq(T) /\ Len(o) = IF r + 1 <= n THEN n - (r + 1) + 1 ELSE 0
        /\ \A i \in 1 .. n - (r + 1) + 1 : o[i] = q[r + 1 + i - 1]
    BY <1>3, <1>4, SubSeqProperties
  <2>2. n - (r + 1) + 1 = n - r /\ (~(r + 1 <= n) => n - r = 0) /\ \A i \in Int : r + 1 + i - 1 = r + i
    BY <1>1
  <2> QED
    BY <2>1, <2>2
<1>6. PICK b : b = SubSeq(a, r + 1, n + 1)
  OBVIOUS
<1>7. /\ b \in Seq(T) /\ Len(b) = n - r + 1
      /\ \A i \in 1 .. n - r + 1 : b[i] = a[r + i]
  <2>1. PICK m \in Int, e \in Int : m = r + 1 /\ e = n + 1
    OBVIOUS
  <2>2. m \in Nat /\ e \in Nat /\ m >= 1 /\ m <= e + 1 /\ e <= Len(a)
    BY <1>1, <1>2, <2>1
  <2>3. /\ SubSeq(a, m, e) \in Seq(T) /\ Len(SubSeq(a, m, e)) = e - m + 1
        /\ \A i \in 1 .. e - m + 1 : SubSeq(a, m, e)[i] = a[m + i - 1]
    BY <1>2, <2>2, Window
  <2>4. b = SubSeq(a, m, e) /\ m <= e /\ e - m + 1 = n - r + 1
    BY <1>1, <1>6, <2>1
  <2>5. \A i \in 1 .. n - r + 1 : m + i - 1 = r + i
    BY <2>1
  <2>6. b \in Seq(T) /\ Len(b) = n - r + 1
    BY <2>3, <2>4
  <2>7. \A i \in 1 .. n - r + 1 : b[i] = a[m + i - 1]
    BY <2>3, <2>4
  <2>8. \A i \in 1 .. n - r + 1 : b[i] = a[r + i]
    BY <2>5, <2>7
  <2> QED
    BY <2>6, <2>8
<1>8. PICK c : c = Append(o, x)
  OBVIOUS
<1>9. /\ c \in Seq(T) /\ Len(c) = n - r + 1 /\ c[n - r + 1] = x
      /\ \A i \in 1 .. n - r : c[i] = o[i]
  BY <1>5, <1>8
<1>10. \A i \in 1 .. n - r + 1 : b[i] = c[i]
  <2> SUFFICES ASSUME NEW i \in 1 .. n - r + 1
               PROVE  b[i] = c[i]
    OBVIOUS
  <2>1. CASE i = n - r + 1
    <3>1. r + i = n + 1
      BY <1>1, <2>1
    <3> QED
      BY <1>2, <1>7, <1>9, <2>1, <3>1
  <2>2. CASE i # n - r + 1
    <3>1. i \in 1 .. n - r /\ r + i \in 1 .. n
      BY <1>1, <2>2
    <3> QED
      BY <1>2, <1>5, <1>7, <1>9, <3>1
  <2> QED
    BY <2>1, <2>2
<1>11. b = c
  BY <1>7, <1>9, <1>10
<1> QED
  BY <1>1, <1>2, <1>3, <1>5, <1>6, <1>8, <1>11 DEF Extends

LEMMA LegsOfSale ==
  ASSUME NEW h, Sound(h), NEW x \in Sale, NEW a, a = Append(h.sales, x)
  PROVE  Extends(Sale, h.sales, h.round_open_index, a, x)
<1>1. h.sales \in Seq(Sale) /\ h.round_open_index \in Nat /\ h.round_open_index <= Len(h.sales)
  BY DEF Sound, Holding
<1> QED
  BY <1>1, LegsOf

\* Of a field, the closed trips and the open sales add up to the sales.
Balances(trips, open, sales, F) ==
  /\ Whole(trips, F) /\ Whole(open, F) /\ Whole(sales, F)
  /\ FieldSum(trips, F) + FieldSum(open, F) = FieldSum(sales, F)

LEMMA BalanceStep ==
  ASSUME NEW trips \in Seq(ClosedTrade), NEW open \in Seq(Sale), NEW sales \in Seq(Sale),
         NEW F, Balances(trips, open, sales, F), NEW x \in Sale, x[F] \in Int
  PROVE  /\ Balances(trips, Append(open, x), Append(sales, x), F)
         /\ \A trip \in ClosedTrade :
              trip[F] = FieldSum(Append(open, x), F) =>
                Balances(Append(trips, trip), <<>>, Append(sales, x), F)
<1>1. /\ Whole(trips, F) /\ Whole(open, F) /\ Whole(sales, F)
      /\ FieldSum(trips, F) + FieldSum(open, F) = FieldSum(sales, F)
  BY DEF Balances
<1>2. PICK o \in Seq(Sale) : o = Append(open, x)
  <2>1. Append(open, x) \in Seq(Sale)
    OBVIOUS
  <2> QED
    BY <2>1
<1>3. PICK all \in Seq(Sale) : all = Append(sales, x)
  <2>1. Append(sales, x) \in Seq(Sale)
    OBVIOUS
  <2> QED
    BY <2>1
<1>4. /\ Whole(o, F) /\ FieldSum(open, F) \in Int /\ FieldSum(o, F) = FieldSum(open, F) + x[F]
  BY <1>1, <1>2, FieldSumAppend
<1>5. /\ Whole(all, F) /\ FieldSum(sales, F) \in Int /\ FieldSum(all, F) = FieldSum(sales, F) + x[F]
  BY <1>1, <1>3, FieldSumAppend
<1>6. FieldSum(trips, F) \in Int
  BY <1>1, FieldSumTyped
<1>7. FieldSum(trips, F) + FieldSum(o, F) = FieldSum(all, F)
  BY <1>1, <1>4, <1>5, <1>6
<1>8. ASSUME NEW trip \in ClosedTrade, trip[F] = FieldSum(o, F)
      PROVE  Balances(Append(trips, trip), <<>>, all, F)
  <2>1. FieldSum(o, F) \in Int
    BY <1>4, FieldSumTyped
  <2>2. /\ Whole(Append(trips, trip), F)
        /\ FieldSum(Append(trips, trip), F) = FieldSum(trips, F) + FieldSum(o, F)
    BY <1>1, <1>8, <2>1, FieldSumAppend
  <2>3. FieldSum(<<>>, F) = 0 /\ Whole(<<>>, F)
    BY FieldSumEmpty
  <2>4. FieldSum(all, F) \in Int
    BY <1>5, FieldSumTyped
  <2> QED
    BY <1>5, <1>7, <2>2, <2>3, <2>4 DEF Balances
<1> QED
  BY <1>1, <1>2, <1>3, <1>4, <1>5, <1>7, <1>8 DEF Balances

\* Every sale is in one closed trip or in the open one.
Partitioned(h) ==
  /\ FieldSum(h.closed_trades, "sales") = h.round_open_index
  /\ Balances(h.closed_trades, OpenSales(h), h.sales, "realized_pl")
  /\ Whole(h.sales, "realized_pl_base") =>
       Balances(h.closed_trades, OpenSales(h), h.sales, "realized_pl_base")

LEMMA TripTotals ==
  ASSUME NEW legs \in Seq(Sale), NEW day
  PROVE  LET trip == ClosedTradeOf(legs, day)
         IN /\ trip["sales"] = Len(legs)
            /\ trip["realized_pl"] = FieldSum(legs, "realized_pl")
            /\ Whole(legs, "realized_pl_base") =>
                 trip["realized_pl_base"] = FieldSum(legs, "realized_pl_base")
            /\ trip.opened_on = day /\ trip.closed_on = Last(legs).when
<1>1. Whole(legs, "realized_pl_base") => Convertible(legs) = DOMAIN legs
  BY PortfolioAssumption DEF Whole, Convertible
<1> QED
  BY <1>1 DEF ClosedTradeOf, SumOver, SumOf, FieldSum

LEMMA PartitionStep ==
  ASSUME NEW h, Sound(h), Partitioned(h), NEW t \in Row, NEW A \in Actions,
         NEW n, n = FoldTxn(h, t, A, None)
  PROVE  Partitioned(n)
<1>1. /\ h \in Holding /\ h.round_open_index <= Len(h.sales) /\ h.round_open_index \in Nat
      /\ h.sales \in Seq(Sale) /\ h.closed_trades \in Seq(ClosedTrade)
      /\ h.opened_on \in Nat \cup {None}
  BY DEF Sound, Holding
<1>2. PICK lot \in [qty : Nat, price : Nat] : lot = Lot(t, A, None)
  BY LotTyped
<1>3. CASE t.type = "BUY"
  <2>1. /\ n.sales = h.sales /\ n.closed_trades = h.closed_trades
        /\ n.round_open_index = h.round_open_index
    BY <1>1, <1>3, Bought
  <2>2. OpenSales(n) = OpenSales(h)
    BY <2>1 DEF OpenSales
  <2> QED
    BY <2>1, <2>2 DEF Partitioned
<1>4. CASE t.type # "BUY"
  <2>1. SoldFrom(h, n, t, lot)
    BY <1>1, <1>2, <1>4, Sold
  <2>2. PICK sale \in Sale : sale = RealizedSale(h, lot, t)
    BY <1>1, SaleTyped
  <2>4. n.sales = Append(h.sales, sale)
    BY <2>1, <2>2 DEF SoldFrom
  <2>12. /\ SubSeq(h.sales, h.round_open_index + 1, Len(h.sales)) \in Seq(Sale)
         /\ Len(SubSeq(h.sales, h.round_open_index + 1, Len(h.sales)))
              = Len(h.sales) - h.round_open_index
         /\ SubSeq(n.sales, h.round_open_index + 1, Len(n.sales))
              = Append(SubSeq(h.sales, h.round_open_index + 1, Len(h.sales)), sale)
    BY <2>2, <2>4, LegsOfSale DEF Extends
  <2>3. PICK open \in Seq(Sale) : open = OpenSales(h)
    BY <2>12 DEF OpenSales
  <2>5. PICK legs \in Seq(Sale) :
          legs = SubSeq(n.sales, h.round_open_index + 1, Len(n.sales)) /\ legs = Append(open, sale)
    <3>1. /\ SubSeq(n.sales, h.round_open_index + 1, Len(n.sales)) = Append(open, sale)
      BY <2>3, <2>12 DEF OpenSales
    <3>2. Append(open, sale) \in Seq(Sale)
      OBVIOUS
    <3> QED
      BY <3>1, <3>2
  <2>6. sale["realized_pl"] \in Int
    BY DEF Sale
  <2>7. /\ Balances(h.closed_trades, legs, n.sales, "realized_pl")
        /\ \A trip \in ClosedTrade :
              trip["realized_pl"] = FieldSum(legs, "realized_pl") =>
                Balances(Append(h.closed_trades, trip), <<>>, n.sales, "realized_pl")
    BY <1>1, <2>3, <2>4, <2>5, <2>6, BalanceStep DEF Partitioned
  <2>8. Whole(n.sales, "realized_pl_base") =>
          Whole(h.sales, "realized_pl_base") /\ sale["realized_pl_base"] \in Int
    <3>1. /\ DOMAIN h.sales \subseteq DOMAIN n.sales
          /\ \A i \in DOMAIN h.sales : n.sales[i] = h.sales[i]
          /\ Len(n.sales) \in DOMAIN n.sales /\ n.sales[Len(n.sales)] = sale
      BY <1>1, <2>4
    <3> QED
      BY <3>1 DEF Whole
  <2>9. ASSUME Whole(n.sales, "realized_pl_base")
        PROVE  /\ Balances(h.closed_trades, legs, n.sales, "realized_pl_base")
               /\ Whole(legs, "realized_pl_base")
               /\ \A trip \in ClosedTrade :
                    trip["realized_pl_base"] = FieldSum(legs, "realized_pl_base") =>
                      Balances(Append(h.closed_trades, trip), <<>>, n.sales, "realized_pl_base")
    <3>1. /\ Balances(h.closed_trades, open, h.sales, "realized_pl_base")
          /\ sale["realized_pl_base"] \in Int
      BY <2>3, <2>8, <2>9 DEF Partitioned
    <3>2. /\ Balances(h.closed_trades, legs, n.sales, "realized_pl_base")
          /\ \A trip \in ClosedTrade :
               trip["realized_pl_base"] = FieldSum(legs, "realized_pl_base") =>
                 Balances(Append(h.closed_trades, trip), <<>>, n.sales, "realized_pl_base")
      BY <1>1, <2>3, <2>4, <2>5, <3>1, BalanceStep
    <3> QED
      BY <3>2 DEF Balances
  <2>10. CASE Reduces(h, n, lot)
    <3>1. /\ n.closed_trades = h.closed_trades /\ n.round_open_index = h.round_open_index
      BY <2>10 DEF Reduces
    <3>2. OpenSales(n) = legs
      BY <2>5, <3>1 DEF OpenSales
    <3> QED
      BY <2>7, <2>9, <3>1, <3>2 DEF Partitioned
  <2>11. CASE Closes(h, n, legs)
    <3>1. PICK trip \in ClosedTrade : trip = ClosedTradeOf(legs, h.opened_on)
      BY <1>1, <2>11, TripTyped DEF Closes
    <3>2. n.closed_trades = Append(h.closed_trades, trip) /\ n.round_open_index = Len(n.sales)
      BY <2>11, <3>1 DEF Closes
    <3>3. OpenSales(n) = <<>>
      <4>1. Len(n.sales) \in Nat
        BY <1>1, <2>4
      <4> QED
        BY <3>2, <4>1, SubSeqEmpty DEF OpenSales
    <3>4. /\ trip["sales"] = Len(legs) /\ trip["realized_pl"] = FieldSum(legs, "realized_pl")
          /\ Whole(legs, "realized_pl_base") =>
               trip["realized_pl_base"] = FieldSum(legs, "realized_pl_base")
      BY <3>1, TripTotals
    <3>5. FieldSum(n.closed_trades, "sales") = n.round_open_index
      <4>1. Whole(h.closed_trades, "sales") /\ trip["sales"] \in Int
        <5>1. \A i \in DOMAIN h.closed_trades : h.closed_trades[i] \in ClosedTrade
          BY <1>1, DomainFinite
        <5>2. \A x \in ClosedTrade : x["sales"] \in Int
          BY DEF ClosedTrade
        <5> QED
          BY <5>1, <5>2 DEF Whole
      <4>2. FieldSum(n.closed_trades, "sales") = FieldSum(h.closed_trades, "sales") + trip["sales"]
        BY <1>1, <3>2, <4>1, FieldSumAppend
      <4>3. FieldSum(h.closed_trades, "sales") = h.round_open_index
        BY DEF Partitioned
      <4>4. Len(open) = Len(h.sales) - h.round_open_index
        BY <2>3, <2>12 DEF OpenSales
      <4>5. Len(legs) = Len(open) + 1 /\ Len(n.sales) = Len(h.sales) + 1 /\ Len(h.sales) \in Nat
        <5>1. \A u \in Seq(Sale) : Len(u) \in Nat /\ Len(Append(u, sale)) = Len(u) + 1
          OBVIOUS
        <5> QED
          BY <1>1, <2>4, <2>5, <5>1
      <4> QED
        BY <1>1, <3>2, <3>4, <4>2, <4>3, <4>4, <4>5
    <3> QED
      BY <2>7, <2>9, <3>2, <3>3, <3>4, <3>5 DEF Partitioned
  <2> QED
    BY <2>1, <2>5, <2>10, <2>11 DEF SoldFrom
<1> QED
  BY <1>3, <1>4

-----------------------------------------------------------------------------
(* Trips follow one another in time.                                       *)

\* Up to a day d: what is held was bought in the open trip, and of the trips
\* each was over when the next one opened.
InTime(h, d) ==
  /\ h.opened_on = None => h.qty <= 0
  /\ h.opened_on # None => h.opened_on <= d
  /\ \A k \in DOMAIN h.closed_trades :
       LET trip == h.closed_trades[k]
       IN /\ trip.opened_on \in Nat /\ trip.opened_on <= trip.closed_on
          /\ trip.closed_on <= d
          /\ h.opened_on # None => trip.closed_on <= h.opened_on
          /\ k > 1 => h.closed_trades[k - 1].closed_on <= trip.opened_on

LEMMA TimePasses ==
  ASSUME NEW h \in Holding, NEW d \in Nat, NEW e \in Nat, d <= e, InTime(h, d)
  PROVE  InTime(h, e)
<1>1. /\ h.opened_on \in Nat \cup {None}
      /\ \A k \in DOMAIN h.closed_trades : h.closed_trades[k].closed_on \in Nat
  <2>1. \A k \in DOMAIN h.closed_trades : h.closed_trades[k] \in ClosedTrade
    BY DomainFinite DEF Holding
  <2> QED
    BY <2>1 DEF Holding, ClosedTrade
<1> QED
  BY <1>1 DEF InTime

LEMMA TimeStep ==
  ASSUME NEW h, Sound(h), NEW t \in Row, InTime(h, t.date), NEW A \in Actions, IsExact(t, A),
         NEW n, n = FoldTxn(h, t, A, None)
  PROVE  InTime(n, t.date)
<1>0. None \notin Nat
  BY PortfolioAssumption
<1>1. /\ h \in Holding /\ h.round_open_index <= Len(h.sales)
      /\ h.closed_trades \in Seq(ClosedTrade) /\ h.sales \in Seq(Sale)
      /\ h.opened_on \in Nat \cup {None} /\ h.qty \in Int /\ t.date \in Nat
  BY DEF Sound, Holding, Row
<1>2. PICK lot \in [qty : Nat, price : Nat] : lot = Lot(t, A, None) /\ lot.qty \in Positive
  BY ExactLot
<1>3. /\ DOMAIN h.closed_trades = 1 .. Len(h.closed_trades) /\ Len(h.closed_trades) \in Nat
      /\ \A k \in DOMAIN h.closed_trades : h.closed_trades[k] \in ClosedTrade
  BY <1>1, DomainFinite
<1>4. \A k \in DOMAIN h.closed_trades : h.closed_trades[k].closed_on \in Nat
  BY <1>3 DEF ClosedTrade
<1>5. CASE t.type = "BUY"
  <2>1. /\ n.closed_trades = h.closed_trades
        /\ n.opened_on = IF h.opened_on = None THEN t.date ELSE h.opened_on
    BY <1>1, <1>5, Bought
  <2> QED
    BY <1>0, <1>1, <1>4, <2>1 DEF InTime
<1>6. CASE t.type # "BUY"
  <2>1. SoldFrom(h, n, t, lot)
    BY <1>1, <1>2, <1>6, Sold
  <2>2. PICK sale \in Sale : sale = RealizedSale(h, lot, t)
    BY <1>1, SaleTyped
  <2>3. n.sales = Append(h.sales, sale) /\ n.qty = h.qty - lot.qty /\ sale.when = t.date
    BY <2>1, <2>2 DEF SoldFrom, RealizedSale
  <2>4. CASE Reduces(h, n, lot)
    <3>1. n.opened_on = h.opened_on /\ n.closed_trades = h.closed_trades
      BY <2>4 DEF Reduces
    <3> QED
      BY <1>1, <2>3, <3>1 DEF InTime
  <2>5. CASE Closes(h, n, SubSeq(n.sales, h.round_open_index + 1, Len(n.sales)))
    <3>1. PICK open \in Seq(Sale), legs \in Seq(Sale) :
            /\ legs = SubSeq(n.sales, h.round_open_index + 1, Len(n.sales))
            /\ legs = Append(open, sale) /\ legs # <<>>
      <4>1. SubSeq(h.sales, h.round_open_index + 1, Len(h.sales)) \in Seq(Sale)
        BY <2>3, LegsOfSale DEF Extends
      <4>2. SubSeq(n.sales, h.round_open_index + 1, Len(n.sales))
              = Append(SubSeq(h.sales, h.round_open_index + 1, Len(h.sales)), sale)
        BY <2>3, LegsOfSale DEF Extends
      <4>3. /\ SubSeq(n.sales, h.round_open_index + 1, Len(n.sales)) \in Seq(Sale)
            /\ SubSeq(n.sales, h.round_open_index + 1, Len(n.sales)) # <<>>
        BY <2>5 DEF Closes
      <4> QED
        BY <4>1, <4>2, <4>3
    <3>2. h.opened_on \in Nat
      <4>1. PICK a \in Int, b \in Nat : a = h.qty /\ b = lot.qty /\ b > 0
        BY <1>1, <1>2 DEF Positive
      <4>2. a - b = 0
        BY <2>3, <2>5, <4>1 DEF Closes
      <4>3. ~(h.qty <= 0)
        BY <4>1, <4>2
      <4> QED
        BY <1>1, <4>3 DEF InTime
    <3>3. PICK trip \in ClosedTrade : trip = ClosedTradeOf(legs, h.opened_on)
      BY <3>1, <3>2, TripTyped
    <3>4. trip.opened_on = h.opened_on /\ trip.closed_on = t.date
      <4>1. Last(legs) = sale
        <5>1. \A u \in Seq(Sale) : /\ Len(u) \in Nat /\ Len(Append(u, sale)) = Len(u) + 1
                                    /\ Append(u, sale)[Len(u) + 1] = sale
          OBVIOUS
        <5> QED
          BY <3>1, <5>1 DEF Last
      <4>2. trip.opened_on = h.opened_on /\ trip.closed_on = Last(legs).when
        BY <3>3 DEF ClosedTradeOf
      <4> QED
        BY <2>3, <4>1, <4>2
    <3>5. /\ n.qty = 0 /\ n.opened_on = None
          /\ n.closed_trades = Append(h.closed_trades, trip)
      BY <2>5, <3>1, <3>3 DEF Closes
    <3>6. PICK l \in Nat : l = Len(h.closed_trades)
      BY <1>3
    <3>7. /\ DOMAIN n.closed_trades = 1 .. l + 1 /\ n.closed_trades[l + 1] = trip
          /\ \A k \in 1 .. l : n.closed_trades[k] = h.closed_trades[k]
      BY <1>1, <3>5, <3>6
    <3>8. /\ h.opened_on <= t.date
          /\ \A k \in 1 .. l :
               LET old == h.closed_trades[k]
               IN /\ old.opened_on \in Nat /\ old.opened_on <= old.closed_on
                  /\ old.closed_on <= t.date /\ old.closed_on <= h.opened_on
                  /\ k > 1 => h.closed_trades[k - 1].closed_on <= old.opened_on
      BY <1>0, <1>3, <3>2, <3>6 DEF InTime
    <3>9. ASSUME NEW k \in 1 .. l + 1
          PROVE  LET x == n.closed_trades[k]
                 IN /\ x.opened_on \in Nat /\ x.opened_on <= x.closed_on
                    /\ x.closed_on <= t.date
                    /\ k > 1 => n.closed_trades[k - 1].closed_on <= x.opened_on
      <4>1. CASE k = l + 1
        <5>1. k > 1 => k - 1 \in 1 .. l
          BY <4>1
        <5>2. n.closed_trades[k] = trip
          BY <3>7, <4>1
        <5>3. /\ trip.opened_on \in Nat /\ trip.opened_on <= trip.closed_on
              /\ trip.closed_on <= t.date
          BY <1>1, <3>2, <3>4, <3>8
        <5>4. ASSUME k > 1
              PROVE  n.closed_trades[k - 1].closed_on <= trip.opened_on
          <6>1. PICK i \in 1 .. l : i = k - 1
            BY <5>1, <5>4
          <6>2. n.closed_trades[i] = h.closed_trades[i] /\ h.closed_trades[i].closed_on <= h.opened_on
            BY <3>7, <3>8
          <6> QED
            BY <3>4, <6>1, <6>2
        <5> QED
          BY <5>2, <5>3, <5>4
      <4>2. CASE k # l + 1
        <5>1. k \in 1 .. l /\ (k > 1 => k - 1 \in 1 .. l)
          BY <4>2
        <5> QED
          BY <3>7, <3>8, <5>1
      <4> QED
        BY <4>1, <4>2
    <3> QED
      BY <3>5, <3>7, <3>9 DEF InTime
  <2> QED
    BY <2>1, <2>4, <2>5 DEF SoldFrom
<1> QED
  BY <1>5, <1>6

-----------------------------------------------------------------------------
(* Every row of a book.                                                    *)

DayOf(book, k) == IF k = 0 THEN 0 ELSE book[k].date

LEMMA TripsKnown ==
  ASSUME NEW book, IsBook(book), NEW s, NEW A \in Actions, AllExact(book, s, A)
  PROVE  \A k \in 0 .. Len(book) :
           LET h == HoldingAfter(book, s, A, None)[k]
           IN Partitioned(h) /\ InTime(h, DayOf(book, k))
<1> DEFINE h == HoldingAfter(book, s, A, None)
           Good == {k \in 0 .. Len(book) : Partitioned(h[k]) /\ InTime(h[k], DayOf(book, k))}
<1>1. Len(book) \in Nat /\ book \in Seq(Row) /\ DOMAIN book = 1 .. Len(book)
  BY BookRows DEF IsBook
<1>2. 0 \in Good
  <2>1. /\ h[0].sales = <<>> /\ h[0].closed_trades = <<>> /\ h[0].round_open_index = 0
        /\ h[0].opened_on = None /\ h[0].qty = 0
    BY <1>1, Loop DEF NewHolding
  <2> HIDE DEF h
  <2>2. OpenSales(h[0]) = <<>>
    BY <2>1, SubSeqEmpty DEF OpenSales
  <2>3. \A F : FieldSum(<<>>, F) = 0 /\ Whole(<<>>, F)
    BY FieldSumEmpty
  <2>4. \A F : Balances(<<>>, <<>>, <<>>, F)
    BY <2>3 DEF Balances
  <2>5. Partitioned(h[0])
    BY <2>1, <2>2, <2>3, <2>4 DEF Partitioned
  <2>6. InTime(h[0], DayOf(book, 0))
    BY <2>1 DEF InTime
  <2> QED
    BY <1>1, <2>5, <2>6
<1>3. ASSUME NEW k \in 1 .. Len(book), k - 1 \in Good
      PROVE  k \in Good
  <2> HIDE DEF h
  <2>1. /\ Sound(h[k - 1]) /\ book[k] \in Row /\ k \in DOMAIN book
        /\ h[k] = IF book[k].symbol = s THEN FoldTxn(h[k - 1], book[k], A, None) ELSE h[k - 1]
    BY <1>1, Steps DEF h
  <2>2. Partitioned(h[k - 1]) /\ InTime(h[k - 1], DayOf(book, k - 1))
    BY <1>3
  <2>3. DayOf(book, k) = book[k].date /\ book[k].date \in Nat
    BY <2>1 DEF DayOf, Row
  <2>4. DayOf(book, k - 1) \in Nat /\ DayOf(book, k - 1) <= book[k].date
    <3>1. CASE k = 1
      BY <2>3, <3>1 DEF DayOf
    <3>2. CASE k # 1
      <4>1. k \in 2 .. Len(book) /\ k - 1 \in 1 .. Len(book) /\ k - 1 # 0
        BY <3>2
      <4>2. book[k - 1] \in Row /\ book[k - 1].date <= book[k].date
        BY <1>1, <4>1 DEF IsBook
      <4> QED
        BY <4>1, <4>2 DEF DayOf, Row
    <3> QED
      BY <3>1, <3>2
  <2>5. InTime(h[k - 1], book[k].date)
    BY <2>1, <2>2, <2>3, <2>4, TimePasses DEF Sound
  <2>6. CASE book[k].symbol # s
    BY <2>1, <2>2, <2>3, <2>5, <2>6
  <2>7. CASE book[k].symbol = s
    <3>1. h[k] = FoldTxn(h[k - 1], book[k], A, None) /\ IsExact(book[k], A)
      BY <2>1, <2>7 DEF AllExact
    <3>2. Partitioned(h[k])
      BY <2>1, <2>2, <3>1, PartitionStep
    <3>3. InTime(h[k], book[k].date)
      BY <2>1, <2>5, <3>1, TimeStep
    <3> QED
      BY <2>3, <3>2, <3>3
  <2> QED
    BY <2>6, <2>7
<1>4. \A k \in 0 .. Len(book) : k \in Good
  <2> HIDE DEF Good
  <2> QED
    BY <1>1, <1>2, <1>3, LoopKeeps
<1> QED
  BY <1>4

-----------------------------------------------------------------------------
(* The reports of the book.                                                *)

LEMMA OpenTyped ==
  ASSUME NEW h, Sound(h)
  PROVE  OpenSales(h) \in Seq(Sale) /\ Len(OpenSales(h)) = Len(h.sales) - h.round_open_index
<1>1. PICK q \in Seq(Sale), r \in Nat : q = h.sales /\ r = h.round_open_index /\ r <= Len(q)
  BY DEF Sound, Holding
<1>2. PICK m \in Nat, e \in Nat : m = r + 1 /\ e = Len(q)
  OBVIOUS
<1>3. m >= 1 /\ m <= e + 1 /\ e <= Len(q) /\ e - m + 1 = Len(q) - r
  BY <1>1, <1>2
<1>4. SubSeq(q, m, e) \in Seq(Sale) /\ Len(SubSeq(q, m, e)) = e - m + 1
  BY <1>3, Window
<1> QED
  BY <1>1, <1>2, <1>3, <1>4 DEF OpenSales

\* What TripsPartitionSales says of one symbol.
TripsOf(h) ==
  LET trips == h.closed_trades
  IN /\ SumOver(trips, LAMBDA x : x.sales) + Len(OpenSales(h)) = Len(h.sales)
     /\ SumOver(trips, LAMBDA x : x.realized_pl) + SumOver(OpenSales(h), LAMBDA x : x.realized_pl)
          = SumOver(h.sales, LAMBDA x : x.realized_pl)
     /\ \A k \in DOMAIN trips :
          /\ trips[k].opened_on <= trips[k].closed_on
          /\ k > 1 => trips[k - 1].closed_on <= trips[k].opened_on

LEMMA TripsOfHolding ==
  ASSUME NEW h, Sound(h), Partitioned(h), NEW d, InTime(h, d)
  PROVE  TripsOf(h)
<1>1. /\ h.sales \in Seq(Sale) /\ h.round_open_index \in Nat /\ h.round_open_index <= Len(h.sales)
  BY DEF Sound, Holding
<1>4. Len(OpenSales(h)) = Len(h.sales) - h.round_open_index
  BY OpenTyped
<1>5. FieldSum(h.closed_trades, "sales") + Len(OpenSales(h)) = Len(h.sales)
  BY <1>1, <1>4 DEF Partitioned
<1>6. FieldSum(h.closed_trades, "realized_pl") + FieldSum(OpenSales(h), "realized_pl")
        = FieldSum(h.sales, "realized_pl")
  BY DEF Partitioned, Balances
<1>7. \A k \in DOMAIN h.closed_trades :
        /\ h.closed_trades[k].opened_on <= h.closed_trades[k].closed_on
        /\ k > 1 => h.closed_trades[k - 1].closed_on <= h.closed_trades[k].opened_on
  BY DEF InTime
<1> QED
  BY <1>5, <1>6, <1>7 DEF TripsOf, FieldSum, SumOver, SumOf

\* What TripsPartitionSales says of the realized side of a book.
RealizedSplits(holdings, realized) ==
  realized.realized_unavailable_symbols = {} =>
    realized.realized_pl = realized.closed_positions_pl
      + SumOf(DOMAIN holdings \ realized.currency_conflict_symbols,
          LAMBDA s : SumOver(OpenSales(holdings[s]), LAMBDA x : x.realized_pl_base))

LEMMA RealizedOfHoldings ==
  ASSUME NEW holdings, IsFiniteSet(DOMAIN holdings),
         \A s \in DOMAIN holdings : Sound(holdings[s]) /\ Partitioned(holdings[s])
  PROVE  RealizedSplits(holdings, build_realized(holdings))
<1> DEFINE realized == build_realized(holdings)
           stated == {s \in DOMAIN holdings : ~currency_conflict(holdings[s])}
           base == "realized_pl_base"
           all == [s \in stated |-> FieldSum(holdings[s].sales, base)]
           closed == [s \in stated |-> FieldSum(holdings[s].closed_trades, base)]
           open == [s \in stated |-> FieldSum(OpenSales(holdings[s]), base)]
<1>1. SUFFICES ASSUME realized.realized_unavailable_symbols = {}
               PROVE  realized.realized_pl = realized.closed_positions_pl
                        + SumOf(DOMAIN holdings \ realized.currency_conflict_symbols,
                            LAMBDA s : SumOver(OpenSales(holdings[s]), LAMBDA x : x.realized_pl_base))
  BY DEF RealizedSplits
<1>2. DOMAIN holdings \ realized.currency_conflict_symbols = stated /\ IsFiniteSet(stated)
  <2>1. IsFiniteSet(stated)
    BY FS_Subset
  <2> QED
    BY <2>1 DEF build_realized
<1>3. ASSUME NEW s \in stated
      PROVE  /\ Convertible(holdings[s].sales) = DOMAIN holdings[s].sales
             /\ Convertible(holdings[s].closed_trades) = DOMAIN holdings[s].closed_trades
             /\ all[s] \in Int /\ closed[s] \in Int /\ open[s] \in Int
             /\ all[s] = closed[s] + open[s]
  <2>1. PICK h \in Holding : h = holdings[s] /\ Sound(h) /\ Partitioned(h)
    BY DEF Sound
  <2>2. Convertible(h.sales) = DOMAIN h.sales
    BY <1>1, <2>1 DEF build_realized
  <2>3. h.sales \in Seq(Sale) /\ h.closed_trades \in Seq(ClosedTrade)
    BY <2>1 DEF Holding
  <2>4. Whole(h.sales, base)
    <3>1. \A i \in DOMAIN h.sales : h.sales[i] \in Sale /\ h.sales[i].realized_pl_base # None
      BY <2>2, <2>3, DomainFinite DEF Convertible
    <3> QED
      BY <3>1 DEF Whole, Sale, Money
  <2>5. Balances(h.closed_trades, OpenSales(h), h.sales, base)
    BY <2>1, <2>4 DEF Partitioned
  <2>6. Whole(h.closed_trades, base) /\ Whole(OpenSales(h), base)
    BY <2>5 DEF Balances
  <2>7. Convertible(h.closed_trades) = DOMAIN h.closed_trades
    BY <2>6, PortfolioAssumption DEF Whole, Convertible
  <2>8. OpenSales(h) \in Seq(Sale)
    BY <2>1, OpenTyped
  <2>9. /\ FieldSum(h.sales, base) \in Int /\ FieldSum(h.closed_trades, base) \in Int
        /\ FieldSum(OpenSales(h), base) \in Int
    BY <2>3, <2>4, <2>6, <2>8, FieldSumTyped
  <2>10. FieldSum(h.sales, base) = FieldSum(h.closed_trades, base) + FieldSum(OpenSales(h), base)
    BY <2>5, <2>9 DEF Balances
  <2> QED
    BY <2>1, <2>2, <2>7, <2>9, <2>10
<1>4. realized.realized_pl = SumFunctionOnSet(all, stated)
  <2>1. realized.realized_pl = SumFunctionOnSet(
          [s \in stated |-> SumFunctionOnSet([i \in Convertible(holdings[s].sales) |->
             holdings[s].sales[i].realized_pl_base], Convertible(holdings[s].sales))], stated)
    BY DEF build_realized, SumOf
  <2> QED
    BY <1>3, <2>1 DEF FieldSum
<1>5. realized.closed_positions_pl = SumFunctionOnSet(closed, stated)
  <2>1. realized.closed_positions_pl = SumFunctionOnSet(
          [s \in stated |-> SumFunctionOnSet([i \in Convertible(holdings[s].closed_trades) |->
             holdings[s].closed_trades[i].realized_pl_base], Convertible(holdings[s].closed_trades))],
          stated)
    BY DEF build_realized, SumOf
  <2> QED
    BY <1>3, <2>1 DEF FieldSum
<1>6. SumOf(stated, LAMBDA s : SumOver(OpenSales(holdings[s]), LAMBDA x : x.realized_pl_base))
        = SumFunctionOnSet(open, stated)
  BY DEF SumOf, SumOver, FieldSum
<1>7. Numbers(closed, stated) /\ Numbers(open, stated) /\ IsPlus(all, closed, open, stated)
  BY <1>3 DEF Numbers, IsPlus
<1>8. SumFunctionOnSet(all, stated) = SumFunctionOnSet(closed, stated) + SumFunctionOnSet(open, stated)
  <2> HIDE DEF all, closed, open, stated
  <2> QED
    BY <1>2, <1>7, SumPlus
<1> QED
  <2> HIDE DEF all, closed, open, stated, realized
  <2> QED
    BY <1>2, <1>4, <1>5, <1>6, <1>8

\* Every sale is in one closed trip or in the open one, each trip is over when
\* the next one opens, and what is realized beyond the closed trips is what the
\* sales of open positions made, where every sale converts: for every book whose
\* splits restate its rows without a remainder.
THEOREM TripsPartition == Spec => [](RestatesExactly => TripsPartitionSales)
<1>1. TypeOK /\ FinitelyMany => (RestatesExactly => TripsPartitionSales)
  <2> SUFFICES ASSUME TypeOK, FinitelyMany, RestatesExactly, NEW holdings \in Holdings
               PROVE  /\ \A s \in DOMAIN holdings : TripsOf(holdings[s])
                      /\ RealizedSplits(holdings, build_realized(holdings))
    BY DEF TripsPartitionSales, TripsOf, RealizedSplits
  <2>1. PICK book \in Books : holdings = build_holdings(book, market.actions, None)
    BY DEF Holdings
  <2>2. IsBook(book) /\ market \in Market
    BY BooksAreBooks
  <2>3. DOMAIN holdings = symbols_of(book) /\ IsFiniteSet(DOMAIN holdings)
    BY <2>1, <2>2, SymbolsFinite, HoldingsTyped
  <2>4. ASSUME NEW s \in DOMAIN holdings
        PROVE  /\ Sound(holdings[s]) /\ Partitioned(holdings[s])
               /\ InTime(holdings[s], DayOf(book, Len(book)))
    <3>1. market.actions[s] \in Actions
      BY <2>2, <2>3, SymbolsFinite, MarketTyped
    <3>2. AllExact(book, s, market.actions[s])
      BY BookIsExact
    <3>3. holdings[s] = HoldingAfter(book, s, market.actions[s], None)[Len(book)]
      BY <2>1, <2>2, <2>3, HoldingsTyped
    <3>4. Len(book) \in 0 .. Len(book) /\ book \in Seq(Row)
      BY <2>2, BookRows DEF IsBook
    <3>5. Sound(holdings[s])
      BY <3>1, <3>3, <3>4, AllSound
    <3>6. Partitioned(holdings[s]) /\ InTime(holdings[s], DayOf(book, Len(book)))
      BY <2>2, <3>1, <3>2, <3>3, <3>4, TripsKnown
    <3> QED
      BY <3>5, <3>6
  <2>5. \A s \in DOMAIN holdings : TripsOf(holdings[s])
    BY <2>4, TripsOfHolding
  <2>6. RealizedSplits(holdings, build_realized(holdings))
    BY <2>3, <2>4, RealizedOfHoldings
  <2> QED
    BY <2>1, <2>5, <2>6
<1> QED
  BY <1>1, PortfolioTyped, InitFinite, NextFinite, PTL DEF Spec

-----------------------------------------------------------------------------
(* The equity curve.                                                       *)

\* The rows of a symbol up to a day, what they add up to in the units of that
\* day, and the symbols held then.
UpTo(book, s, day) == {k \in DOMAIN book : book[k].date <= day /\ book[k].symbol = s}
Units(book, A, s, day) == [k \in UpTo(book, s, day) |-> Signed(book[k], A, day)]
NetOn(book, A, s, day) == SumFunctionOnSet(Units(book, A, s, day), UpTo(book, s, day))
Held(book, actions, day) == {s \in symbols_of(book) : NetOn(book, actions[s], s, day) > 0}

LEMMA QtyOn ==
  ASSUME NEW book, IsBook(book), NEW actions, NEW day
  PROVE  compute_holdings_on(book, actions, day)
           = [s \in Held(book, actions, day) |-> NetOn(book, actions[s], s, day)]
<1> DEFINE upto == {k \in DOMAIN book : book[k].date <= day}
           Rows(s) == {k \in upto : book[k].symbol = s}
           Net(s) == SumFunctionOnSet([k \in Rows(s) |-> Signed(book[k], actions[s], day)], Rows(s))
           held == {x \in {book[k].symbol : k \in upto} : Net(x) > 0}
<1>1. compute_holdings_on(book, actions, day) = [s \in held |-> Net(s)]
  BY DEF compute_holdings_on, SumOf
<1>2. \A s : Rows(s) = UpTo(book, s, day)
  BY DEF UpTo
<1>3. \A s : Net(s) = NetOn(book, actions[s], s, day)
  BY <1>2 DEF NetOn, Units
<1>4. held = Held(book, actions, day)
  <2>1. ASSUME NEW s \in symbols_of(book), s \notin {book[k].symbol : k \in upto}
        PROVE  ~(NetOn(book, actions[s], s, day) > 0)
    <3>1. UpTo(book, s, day) = {}
      BY <2>1 DEF UpTo
    <3>2. SumFunctionOnSet(Units(book, actions[s], s, day), {}) = 0
      BY SumEmpty
    <3>3. NetOn(book, actions[s], s, day) = 0
      BY <3>1, <3>2 DEF NetOn
    <3> QED
      BY <3>3
  <2>2. {book[k].symbol : k \in upto} \subseteq symbols_of(book)
    BY DEF symbols_of
  <2> HIDE DEF Net, upto
  <2> QED
    BY <1>3, <2>1, <2>2 DEF Held
<1> HIDE DEF Net, held
<1> QED
  BY <1>1, <1>3, <1>4

\* The rates of the curve, and when a day has a point.
PlanOf(book, m) ==
  curve_fx_plan(build_holdings(book, m.actions, None), build_fx_rates(book, m.fx_quote))
OnCurve(book, m, day) ==
  /\ Held(book, m.actions, day) # {}
  /\ \A s \in Held(book, m.actions, day) :
       s \in DOMAIN PlanOf(book, m) /\ close_on(m.closes, s, day) # None
Terms(book, m, day) ==
  [s \in Held(book, m.actions, day) |->
     close_on(m.closes, s, day) * NetOn(book, m.actions[s], s, day) * PlanOf(book, m)[s]]

LEMMA PointKnown ==
  ASSUME NEW book, IsBook(book), NEW m \in Market, NEW day
  PROVE  CurvePoint(book, m, day)
           = IF OnCurve(book, m, day)
             THEN SumFunctionOnSet(Terms(book, m, day), Held(book, m.actions, day)) ELSE None
<1>1. PICK held : held = Held(book, m.actions, day)
  OBVIOUS
<1>2. PICK plan : plan = PlanOf(book, m)
  OBVIOUS
<1>3. PICK qty : qty = compute_holdings_on(book, m.actions, day)
  OBVIOUS
<1>4. DOMAIN qty = held /\ \A s \in held : qty[s] = NetOn(book, m.actions[s], s, day)
  BY <1>1, <1>3, QtyOn
<1> DEFINE stated == {s \in held : s \in DOMAIN plan /\ close_on(m.closes, s, day) # None}
<1>5. CurvePoint(book, m, day)
        = IF ~statable(held, stated) THEN None
          ELSE SumFunctionOnSet([s \in stated |-> close_on(m.closes, s, day) * qty[s] * plan[s]], stated)
  BY <1>2, <1>3, <1>4 DEF CurvePoint, SumOf, PlanOf
<1>6. statable(held, stated) <=> OnCurve(book, m, day)
  BY <1>1, <1>2 DEF statable, OnCurve
<1>7. statable(held, stated) => stated = held
  BY DEF statable
<1>8. [s \in held |-> close_on(m.closes, s, day) * qty[s] * plan[s]] = Terms(book, m, day)
  BY <1>1, <1>2, <1>4 DEF Terms
<1> HIDE DEF stated
<1> QED
  BY <1>1, <1>5, <1>6, <1>7, <1>8

\* With no row and no split ahead, the units of today are those of the holdings.
NothingAhead(book, actions) ==
  /\ \A k \in DOMAIN book : book[k].date <= Today
  /\ \A s \in Symbol : \A a \in actions[s] : a.ex_date <= Today

LEMMA HeldToday ==
  ASSUME NEW book, IsBook(book), NEW m \in Market, NothingAhead(book, m.actions)
  PROVE  LET holdings == build_holdings(book, m.actions, None)
         IN /\ Held(book, m.actions, Today) = active_holdings(holdings)
            /\ \A s \in symbols_of(book) :
                 NetOn(book, m.actions[s], s, Today) = holdings[s].qty
<1>1. PICK holdings : holdings = build_holdings(book, m.actions, None)
  OBVIOUS
<1>2. ASSUME NEW s \in symbols_of(book)
      PROVE  NetOn(book, m.actions[s], s, Today) = holdings[s].qty
  <2>1. PICK A \in Actions : A = m.actions[s] /\ \A a \in A : a.ex_date <= Today
    BY SymbolsFinite, MarketTyped DEF NothingAhead
  <2>2. \A d : split_factor(A, d, Today) = split_factor(A, d, None)
    <3> SUFFICES ASSUME NEW d
                 PROVE  split_factor(A, d, Today) = split_factor(A, d, None)
      OBVIOUS
    <3>1. {a \in parse_actions(A).splits : d < a.ex_date /\ (Today = None \/ a.ex_date <= Today)}
            = {a \in parse_actions(A).splits : d < a.ex_date /\ (None = None \/ a.ex_date <= None)}
      BY <2>1 DEF parse_actions
    <3> QED
      BY <3>1 DEF split_factor
  <2>3. \A t : Signed(t, A, Today) = Signed(t, A, None)
    BY <2>2 DEF Signed
  <2>4. PICK rows : rows = RowsTo(book, s, Len(book))
    OBVIOUS
  <2>5. /\ UpTo(book, s, Today) = rows /\ rows \subseteq DOMAIN book /\ IsFiniteSet(rows)
        /\ Len(book) \in 0 .. Len(book)
    <3>1. UpTo(book, s, Today) = rows /\ rows \subseteq DOMAIN book
      BY <2>4, BookRows DEF UpTo, RowsTo, NothingAhead
    <3> QED
      BY <3>1, BookRows, FS_Subset
  <2>6. holdings[s].qty = SumFunctionOnSet(Signs(book, A), rows)
    <3>1. holdings[s] = HoldingAfter(book, s, A, None)[Len(book)]
      BY <1>1, <2>1, HoldingsTyped
    <3> QED
      BY <2>4, <2>5, <3>1, NetKnown
  <2>7. Numbers(Signs(book, A), rows) /\ \A k \in rows : Signs(book, A)[k] = Units(book, A, s, Today)[k]
    <3>1. Numbers(Signs(book, A), rows)
      BY <2>5, SignedTyped DEF Numbers
    <3>2. \A k \in rows : Signs(book, A)[k] = Units(book, A, s, Today)[k]
      BY <2>3, <2>5 DEF Signs, Units
    <3> QED
      BY <3>1, <3>2
  <2>8. SumFunctionOnSet(Signs(book, A), rows) = SumFunctionOnSet(Units(book, A, s, Today), rows)
    BY <2>5, <2>7, SumSame
  <2> QED
    BY <2>1, <2>5, <2>6, <2>8 DEF NetOn
<1>3. Held(book, m.actions, Today) = active_holdings(holdings)
  <2>1. DOMAIN holdings = symbols_of(book)
    BY <1>1, HoldingsTyped
  <2> QED
    BY <1>2, <2>1 DEF Held, active_holdings
<1> QED
  BY <1>1, <1>2, <1>3

\* What CurveEndsAtBook says of one report.
Marked(valued, m) ==
  \A s \in DOMAIN valued :
    LET close == close_on(m.closes, s, Today)
    IN close # None /\ usable_price(cached_quote(m, s)) = close
EndsAtBook(report, m) ==
  \A point \in {CurvePoint(report.book, m, Today)} :
    point # None /\ NothingAhead(report.book, m.actions) /\ Marked(report.valued, m)
      => point = report.totals.total_value /\ DOMAIN report.allocation.excluded = {}

LEMMA EndOfBook ==
  ASSUME NEW book, IsBook(book), NEW m \in Market,
         NEW report, report = Analytics(book, m, Limit)
  PROVE  EndsAtBook(report, m)
<1>1. PICK holdings : holdings = build_holdings(book, m.actions, None)
  OBVIOUS
<1>2. PICK rates : rates = build_fx_rates(book, m.fx_quote)
  OBVIOUS
<1>3. PICK active : active = active_holdings(holdings)
  OBVIOUS
<1>4. PICK valued : valued = value_holdings(holdings, active, m, rates)
  OBVIOUS
<1>5. PICK totals : totals = summarize(valued)
  OBVIOUS
<1>6. /\ report.book = book /\ report.valued = valued /\ report.totals = totals
      /\ report.allocation = build_allocation(valued, totals)
  BY <1>1, <1>2, <1>3, <1>4, <1>5 DEF Analytics
<1>7. IsValued(valued, holdings) /\ DOMAIN valued = active
  BY <1>1, <1>2, <1>3, <1>4, ValuedTyped
<1>8. SUFFICES ASSUME NEW point, point = CurvePoint(book, m, Today), point # None,
                      NothingAhead(book, m.actions), Marked(valued, m)
               PROVE  point = totals.total_value /\ DOMAIN report.allocation.excluded = {}
  BY <1>6 DEF EndsAtBook
<1>9. Held(book, m.actions, Today) = active /\ active \subseteq symbols_of(book)
  BY <1>1, <1>3, <1>8, HeldToday, HoldingsTyped
<1>10. /\ OnCurve(book, m, Today)
       /\ point = SumFunctionOnSet(Terms(book, m, Today), active)
  BY <1>8, <1>9, PointKnown
<1>11. ASSUME NEW s \in active
       PROVE  /\ ~valued[s].conflict /\ valued[s].price # None
              /\ Terms(book, m, Today)[s] = valued[s].value_base
  <2>1. PICK h \in Holding : h = holdings[s] /\ PositionOf(valued[s], h)
    BY <1>7 DEF IsValued
  <2>2. PICK plan : plan = PlanOf(book, m)
    OBVIOUS
  <2>3. s \in DOMAIN plan
    BY <1>9, <1>10, <2>2 DEF OnCurve
  <2>4. ~currency_conflict(h) /\ plan[s] = rates[currency_of(h)].rate /\ rates[currency_of(h)] # None
    BY <1>1, <1>2, <2>1, <2>2, <2>3 DEF PlanOf, curve_fx_plan
  <2>5. PICK close : close = close_on(m.closes, s, Today) /\ close # None
                     /\ usable_price(cached_quote(m, s)) = close
    BY <1>7, <1>8 DEF Marked
  <2>6. valued[s] = value_holding(h, close, rates[currency_of(h)])
    BY <1>4, <2>1, <2>5 DEF value_holdings
  <2>7. ~valued[s].conflict /\ valued[s].price = close /\ valued[s].rate = rates[currency_of(h)]
    BY <2>4, <2>5, <2>6 DEF value_holding
  <2>8. valued[s].value_base = close * h.qty * plan[s]
    BY <2>1, <2>4, <2>5, <2>7 DEF PositionOf
  <2>9. NetOn(book, m.actions[s], s, Today) = h.qty
    BY <1>1, <1>8, <1>9, <2>1, HeldToday
  <2>10. Terms(book, m, Today)[s] = close * h.qty * plan[s]
    BY <1>9, <2>2, <2>5, <2>9 DEF Terms
  <2> QED
    BY <2>5, <2>7, <2>8, <2>10
<1>12. Priced(valued) = active /\ Named(valued) = {}
  BY <1>7, <1>11 DEF Priced, Named
<1>13. totals.total_value = SumFunctionOnSet(Values(valued), active)
       /\ Naturals0(Values(valued), active) /\ IsFiniteSet(active)
  BY <1>5, <1>7, <1>12, TotalsKnown
<1>14. SumFunctionOnSet(Values(valued), active) = SumFunctionOnSet(Terms(book, m, Today), active)
  <2>1. Numbers(Values(valued), active)
    BY <1>13 DEF Numbers, Naturals0
  <2>2. \A s \in active : Values(valued)[s] = Terms(book, m, Today)[s]
    BY <1>11, <1>12 DEF Values
  <2> QED
    BY <1>13, <2>1, <2>2, SumSame
<1>15. DOMAIN report.allocation.excluded = {}
  BY <1>5, <1>6, <1>7, <1>12, AllocationKnown
<1> QED
  BY <1>10, <1>13, <1>14, <1>15

\* The curve and the holdings end on the same number, where no row and no split
\* lies ahead and the quotes are the closes, and a day on the curve speaks of the
\* whole book: of any book and any market.
THEOREM CurveEndsAtTotal == Spec => []CurveEndsAtBook
<1>1. TypeOK /\ FinitelyMany => CurveEndsAtBook
  <2> SUFFICES ASSUME TypeOK, FinitelyMany, NEW report \in Reports
               PROVE  EndsAtBook(report, market)
    BY DEF CurveEndsAtBook, EndsAtBook, NothingAhead, Marked
  <2>1. PICK book \in Books : report = Analytics(book, market, Limit)
    BY DEF Reports
  <2>2. IsBook(book) /\ market \in Market
    BY BooksAreBooks
  <2> QED
    BY <2>1, <2>2, EndOfBook
<1> QED
  BY <1>1, PortfolioTyped, InitFinite, NextFinite, PTL DEF Spec

-----------------------------------------------------------------------------
(* Products.                                                               *)

Product(f, S) == FoldFunctionOnSet(LAMBDA x, y : x * y, 1, f, S)
Positives(f, S) == \A x \in S : f[x] \in Positive

\* g multiplies f over each subset of S.
Multiplies(g, S, f) ==
  \A T \in SUBSET S :
    g[T] = IF T = {} THEN 1
           ELSE f[CHOOSE x \in T : TRUE] * g[T \ {CHOOSE x \in T : TRUE}]
MultipliesAny(g, S, f) == \A T \in SUBSET S : \A x \in T : g[T] = f[x] * g[T \ {x}]

LEMMA MultipliesOnce ==
  ASSUME NEW S, IsFiniteSet(S), NEW f, NEW g, NEW h, Multiplies(g, S, f), Multiplies(h, S, f)
  PROVE  \A T \in SUBSET S : g[T] = h[T]
<1> DEFINE F == {T \in SUBSET S : g[T] = h[T]}
<1>1. {} \in F
  BY DEF Multiplies
<1>2. ASSUME NEW T \in SUBSET S, T # {}, \A x \in T : T \ {x} \in F
      PROVE  T \in F
  <2>1. T \ {CHOOSE x \in T : TRUE} \in F
    BY <1>2
  <2> QED
    BY <2>1, <1>2 DEF Multiplies
<1>3. \A T \in SUBSET S : T \in F
  <2> HIDE DEF F
  <2> QED
    BY <1>1, <1>2, AllSubsets
<1> QED
  BY <1>3

LEMMA ProductExists ==
  ASSUME NEW S, IsFiniteSet(S), NEW f, Positives(f, S)
  PROVE  \E g \in [SUBSET S -> Positive] : Multiplies(g, S, f) /\ MultipliesAny(g, S, f)
<1> DEFINE step == [p \in S \X Positive |-> f[p[1]] * p[2]]
<1>1. step \in [S \X Positive -> Positive]
  BY TimesPositive DEF Positives
<1>2. \A x \in S, v \in Positive : step[<<x, v>>] = f[x] * v /\ step[<<x, v>>] \in Positive
  BY <1>1
<1>3. Commutes(step, S, Positive)
  <2> SUFFICES ASSUME NEW x \in S, NEW y \in S, NEW v \in Positive
               PROVE  step[<<x, step[<<y, v>>]>>] = step[<<y, step[<<x, v>>]>>]
    BY DEF Commutes
  <2>1. PICK a \in Positive, b \in Positive : a = f[x] /\ b = f[y]
    BY DEF Positives
  <2>2. step[<<x, step[<<y, v>>]>>] = a * (b * v) /\ step[<<y, step[<<x, v>>]>>] = b * (a * v)
    BY <1>2, <2>1
  <2>3. a * (b * v) = b * (a * v)
    BY DEF Positive
  <2> QED
    BY <2>2, <2>3
<1> HIDE DEF step
<1>4. AnyOf(S) \in Chooser(S) /\ 1 \in Positive
  BY AnyChooses DEF Positive
<1>5. PICK g \in [SUBSET S -> Positive] : IsFold(g, S, 1, AnyOf(S), step)
  BY <1>1, <1>4, FoldExists
<1>6. TakesAny(g, S, step)
  BY <1>1, <1>3, <1>4, <1>5, FoldAny
<1>7. MultipliesAny(g, S, f)
  <2>1. \A T \in SUBSET S : \A x \in T : x \in S /\ T \ {x} \in SUBSET S
    OBVIOUS
  <2> QED
    BY <2>1, <1>6, <1>2 DEF MultipliesAny, TakesAny
<1>8. g[{}] = 1
  BY <1>5 DEF IsFold
<1>9. Multiplies(g, S, f)
  BY <1>7, <1>8 DEF Multiplies, MultipliesAny
<1> QED
  BY <1>7, <1>9

LEMMA ProductValue ==
  ASSUME NEW S, IsFiniteSet(S), NEW f, NEW g \in [SUBSET S -> Positive], Multiplies(g, S, f)
  PROVE  Product(f, S) = g[S]
<1> DEFINE Eq(i) == i = [s \in SUBSET S |->
              IF s = {} THEN 1
              ELSE f[CHOOSE x \in s : TRUE] * i[s \ {CHOOSE x \in s : TRUE}]]
           iter == CHOOSE i : Eq(i)
<1>1. Eq(g)
  BY DEF Multiplies
<1>2. Eq(iter)
  BY <1>1
<1>3. Product(f, S) = iter[S]
  BY DEF Product, FoldFunctionOnSet, MapThenFoldSet
<1> HIDE DEF iter
<1>4. Multiplies(iter, S, f)
  BY <1>2, SMTT(30) DEF Multiplies
<1> QED
  BY <1>3, <1>4, MultipliesOnce

\* The product of nothing, and any element's part of the product of more.
LEMMA ProductTake ==
  ASSUME NEW S, IsFiniteSet(S), NEW f, Positives(f, S)
  PROVE  /\ Product(f, {}) = 1
         /\ \A T \in SUBSET S : /\ Product(f, T) \in Positive
                                /\ \A x \in T : Product(f, T) = f[x] * Product(f, T \ {x})
<1>1. PICK g \in [SUBSET S -> Positive] : Multiplies(g, S, f) /\ MultipliesAny(g, S, f)
  BY ProductExists
<1>2. ASSUME NEW T \in SUBSET S
      PROVE  Product(f, T) = g[T]
  <2>1. IsFiniteSet(T)
    BY FS_Subset
  <2> DEFINE r == [U \in SUBSET T |-> g[U]]
  <2>2. r \in [SUBSET T -> Positive] /\ Multiplies(r, T, f)
    BY <1>1 DEF Multiplies
  <2>3. r[T] = g[T]
    OBVIOUS
  <2> HIDE DEF r
  <2> QED
    BY <2>1, <2>2, <2>3, ProductValue
<1>3. \A T \in SUBSET S : \A x \in T : T \ {x} \in SUBSET S
  OBVIOUS
<1>4. {} \in SUBSET S /\ g[{}] = 1
  BY <1>1 DEF Multiplies
<1> QED
  BY <1>1, <1>2, <1>3, <1>4 DEF MultipliesAny

LEMMA ProductSplit ==
  ASSUME NEW S, IsFiniteSet(S), NEW f, Positives(f, S), NEW U \in SUBSET S, NEW R, R = S \ U
  PROVE  Product(f, S) = Product(f, U) * Product(f, R)
<1> DEFINE In == [T \in SUBSET S |-> T \cap U]
           Out == [T \in SUBSET S |-> T \ U]
           Pr == [T \in SUBSET S |-> Product(f, T)]
           F == {T \in SUBSET S : Pr[T] = Pr[In[T]] * Pr[Out[T]]}
<1>0. \A T \in SUBSET S : In[T] \in SUBSET S /\ Out[T] \in SUBSET S /\ Pr[T] \in Positive
  BY ProductTake
<1>1. ASSUME NEW T \in SUBSET S, NEW x \in T
      PROVE  Pr[T] = f[x] * Pr[T \ {x}] /\ f[x] \in Positive /\ T \ {x} \in SUBSET S
  BY ProductTake DEF Positives
<1>2. ASSUME NEW T \in SUBSET S, NEW x \in T
      PROVE  IF x \in U THEN x \in In[T] /\ In[T \ {x}] = In[T] \ {x} /\ Out[T \ {x}] = Out[T]
             ELSE x \in Out[T] /\ Out[T \ {x}] = Out[T] \ {x} /\ In[T \ {x}] = In[T]
  BY <1>1
<1>3. {} \in F
  <2>1. In[{}] = {} /\ Out[{}] = {} /\ Pr[{}] = 1
    BY ProductTake
  <2> QED
    BY <2>1
<1>a. In[S] = U /\ Out[S] = R /\ U \in SUBSET S /\ R \in SUBSET S
  OBVIOUS
<1>b. \A T \in SUBSET S : Pr[T] = Product(f, T)
  OBVIOUS
<1> HIDE DEF In, Out, Pr
<1>4. ASSUME NEW T \in SUBSET S, T # {}, \A x \in T : T \ {x} \in F
      PROVE  T \in F
  <2>1. PICK x \in T : TRUE
    BY <1>4
  <2>2. PICK V \in SUBSET S : V = T \ {x} /\ V \in F
    BY <1>4, <2>1
  <2>3. Pr[V] = Pr[In[V]] * Pr[Out[V]] /\ Pr[T] = f[x] * Pr[V] /\ f[x] \in Positive
    BY <2>2, <1>1
  <2>4. In[T] \in SUBSET S /\ Out[T] \in SUBSET S /\ In[V] \in SUBSET S /\ Out[V] \in SUBSET S
    BY <1>0
  <2>5. Pr[In[V]] \in Positive /\ Pr[Out[V]] \in Positive
    BY <2>4, <1>0
  <2>9. \A a, b, c \in Positive : a * (b * c) = (a * b) * c /\ a * (b * c) = b * (a * c)
    BY DEF Positive
  <2>6. CASE x \in U
    <3>1. x \in In[T] /\ In[V] = In[T] \ {x} /\ Out[V] = Out[T]
      BY <2>2, <2>6, <1>2
    <3>2. Pr[In[T]] = f[x] * Pr[In[V]]
      BY <3>1, <2>4, <1>1
    <3>3. Pr[T] = Pr[In[T]] * Pr[Out[T]]
      BY <2>3, <2>5, <2>9, <3>1, <3>2
    <3> QED
      BY <3>3
  <2>7. CASE x \notin U
    <3>1. x \in Out[T] /\ Out[V] = Out[T] \ {x} /\ In[V] = In[T]
      BY <2>2, <2>7, <1>2
    <3>2. Pr[Out[T]] = f[x] * Pr[Out[V]]
      BY <3>1, <2>4, <1>1
    <3>3. Pr[T] = Pr[In[T]] * Pr[Out[T]]
      BY <2>3, <2>5, <2>9, <3>1, <3>2
    <3> QED
      BY <3>3
  <2> QED
    BY <2>6, <2>7
<1>5. S \in F
  <2> HIDE DEF F
  <2>1. \A T \in SUBSET S : T \in F
    BY <1>3, <1>4, AllSubsets
  <2> QED
    BY <2>1
<1> QED
  BY <1>0, <1>5, <1>a, <1>b

LEMMA ProductSame ==
  ASSUME NEW S, IsFiniteSet(S), NEW f, NEW g, Positives(f, S), \A x \in S : f[x] = g[x]
  PROVE  Product(f, S) = Product(g, S)
<1>1. PICK p \in [SUBSET S -> Positive] : Multiplies(p, S, f)
  BY ProductExists
<1>2. Multiplies(p, S, g)
  BY <1>1 DEF Multiplies
<1> QED
  BY <1>1, <1>2, ProductValue

\* The splits due on one day and then on another are those due on the second.
LEMMA FactorSplit ==
  ASSUME NEW A \in Actions, NEW from \in Nat, NEW mid \in Nat, NEW to \in Nat,
         from <= mid, mid <= to
  PROVE  \A j \in {1, 2} :
           split_factor(A, from, to)[j]
             = split_factor(A, from, mid)[j] * split_factor(A, mid, to)[j]
<1>0. None \notin Nat
  BY PortfolioAssumption
<1> DEFINE Due(x, y) == {a \in parse_actions(A).splits :
                           x < a.ex_date /\ (y = None \/ a.ex_date <= y)}
<1>1. PICK S : S = Due(from, to)
  OBVIOUS
<1>2. PICK U : U = Due(from, mid)
  OBVIOUS
<1>3. PICK R : R = Due(mid, to)
  OBVIOUS
<1>4. parse_actions(A).splits \in SUBSET A /\ \A a \in A : a.ex_date \in Nat
  BY DEF parse_actions, Actions
<1>5. U \in SUBSET S /\ R = S \ U /\ R \in SUBSET S
  BY <1>0, <1>1, <1>2, <1>3, <1>4
<1>6. IsFiniteSet(S) /\ IsFiniteSet(U) /\ IsFiniteSet(R)
  <2>1. S \subseteq A /\ IsFiniteSet(A)
    BY <1>1, <1>4 DEF Actions
  <2> QED
    BY <1>5, <2>1, FS_Subset
<1>7. \A a \in S : a.ratio[1] \in Positive /\ a.ratio[2] \in Positive
  <2>1. \A a \in S : a \in A /\ a.ratio # None /\ a.ratio[1] > 0
    BY <1>1 DEF parse_actions
  <2>2. \A a \in A : a.ratio # None => a.ratio \in Int \X Positive
    BY DEF Actions
  <2> QED
    BY <2>1, <2>2 DEF Positive
<1> SUFFICES ASSUME NEW j \in {1, 2}
             PROVE  split_factor(A, from, to)[j]
                      = split_factor(A, from, mid)[j] * split_factor(A, mid, to)[j]
  OBVIOUS
<1> DEFINE f(T) == [a \in T |-> a.ratio[j]]
<1>8. /\ split_factor(A, from, to)[j] = Product(f(S), S)
      /\ split_factor(A, from, mid)[j] = Product(f(U), U)
      /\ split_factor(A, mid, to)[j] = Product(f(R), R)
  <2>1. \A T : RatioProduct(T)[j] = Product(f(T), T)
    <3> SUFFICES ASSUME NEW T
                 PROVE  RatioProduct(T)[j] = Product(f(T), T)
      OBVIOUS
    <3>1. CASE j = 1
      BY <3>1 DEF RatioProduct, Product
    <3>2. CASE j = 2
      BY <3>2 DEF RatioProduct, Product
    <3> QED
      BY <3>1, <3>2
  <2>2. /\ split_factor(A, from, to) = RatioProduct(S)
        /\ split_factor(A, from, mid) = RatioProduct(U)
        /\ split_factor(A, mid, to) = RatioProduct(R)
    BY <1>1, <1>2, <1>3 DEF split_factor
  <2> HIDE DEF f
  <2> QED
    BY <2>1, <2>2
<1>9. Positives(f(S), S) /\ Positives(f(U), U) /\ Positives(f(R), R)
  BY <1>5, <1>7 DEF Positives
<1>10. (\A a \in U : f(U)[a] = f(S)[a]) /\ (\A a \in R : f(R)[a] = f(S)[a])
  BY <1>5
<1> HIDE DEF f
<1>11. Product(f(U), U) = Product(f(S), U) /\ Product(f(R), R) = Product(f(S), R)
  BY <1>6, <1>9, <1>10, ProductSame
<1>12. Product(f(S), S) = Product(f(S), U) * Product(f(S), R)
  BY <1>5, <1>6, <1>9, ProductSplit
<1> QED
  BY <1>8, <1>11, <1>12

-----------------------------------------------------------------------------
(* A day with a split and no trade.                                        *)

IsTimes(h, f, c, S) == \A x \in S : h[x] = f[x] * c

LEMMA SumTimes ==
  ASSUME NEW S, IsFiniteSet(S), NEW f, NEW h, NEW c \in Int, Numbers(f, S), IsTimes(h, f, c, S)
  PROVE  SumFunctionOnSet(h, S) = SumFunctionOnSet(f, S) * c
<1> DEFINE F == {T \in SUBSET S : SumFunctionOnSet(h, T) = SumFunctionOnSet(f, T) * c}
<1>0. Numbers(h, S)
  BY DEF Numbers, IsTimes
<1>1. {} \in F
  <2>1. SumFunctionOnSet(h, {}) = 0 /\ SumFunctionOnSet(f, {}) = 0
    BY SumEmpty
  <2> QED
    BY <2>1
<1>2. ASSUME NEW T \in SUBSET S, T # {}, \A x \in T : T \ {x} \in F
      PROVE  T \in F
  <2>1. PICK x \in T : TRUE
    BY <1>2
  <2>2. T \ {x} \in F /\ T \ {x} \in SUBSET S
    BY <1>2
  <2>3. PICK a \in Int : a = f[x] /\ h[x] = a * c
    BY DEF Numbers, IsTimes
  <2>4. PICK b \in Int : b = SumFunctionOnSet(f, T \ {x}) /\ SumFunctionOnSet(f, T) = a + b
    <3>1. /\ SumFunctionOnSet(f, T) = f[x] + SumFunctionOnSet(f, T \ {x})
          /\ SumFunctionOnSet(f, T \ {x}) \in Int
      BY <2>2, SumTakes
    <3> QED
      BY <2>3, <3>1
  <2>5. SumFunctionOnSet(h, T) = h[x] + SumFunctionOnSet(h, T \ {x})
    BY <2>2, <1>0, SumTakes
  <2>6. SumFunctionOnSet(h, T \ {x}) = b * c
    BY <2>2, <2>4
  <2>7. a * c + b * c = (a + b) * c
    OBVIOUS
  <2> QED
    BY <2>3, <2>4, <2>5, <2>6, <2>7
<1>3. S \in F
  <2> HIDE DEF F
  <2>1. \A T \in SUBSET S : T \in F
    BY <1>1, <1>2, AllSubsets
  <2> QED
    BY <2>1
<1> QED
  BY <1>3

\* A row is a whole quantity in the units of a day.
IsWhole(t, A, day) ==
  LET f == split_factor(A, t.date, day) IN Lot(t, A, day).qty * f[1] = t.qty * f[2]
AllWhole(book, actions) ==
  \A j \in DOMAIN book, day \in 1 .. Today : IsWhole(book[j], actions[book[j].symbol], day)

LEMMA SignedMoves ==
  ASSUME NEW t \in Row, NEW A \in Actions, NEW day \in 2 .. Today, t.date <= day - 1,
         IsWhole(t, A, day - 1), IsWhole(t, A, day)
  PROVE  LET R == split_factor(A, day - 1, day)
         IN /\ Signed(t, A, day - 1) \in Int
            /\ Signed(t, A, day) * R[1] = Signed(t, A, day - 1) * R[2]
<1>1. PICK mid \in Nat, to \in Nat : mid = day - 1 /\ to = day /\ mid <= to
  BY PortfolioAssumption
<1>2. PICK d \in Nat, q \in Nat : d = t.date /\ q = t.qty /\ d <= mid
  BY <1>1 DEF Row
<1>3. PICK R1 \in Positive, R2 \in Positive :
        R1 = split_factor(A, mid, to)[1] /\ R2 = split_factor(A, mid, to)[2]
  BY FactorPositive DEF Factor
<1>4. PICK f1 \in Positive, f2 \in Positive :
        f1 = split_factor(A, d, mid)[1] /\ f2 = split_factor(A, d, mid)[2]
  BY FactorPositive DEF Factor
<1>5. split_factor(A, d, to)[1] = f1 * R1 /\ split_factor(A, d, to)[2] = f2 * R2
  BY <1>1, <1>2, <1>3, <1>4, FactorSplit
<1>6. PICK a \in Nat, b \in Nat : a = Lot(t, A, mid).qty /\ b = Lot(t, A, to).qty
  <2>1. Lot(t, A, mid).qty \in Nat /\ Lot(t, A, to).qty \in Nat
    BY LotTyped
  <2> QED
    BY <2>1
<1>7. a * f1 = q * f2 /\ b * (f1 * R1) = q * (f2 * R2)
  BY <1>1, <1>2, <1>4, <1>5, <1>6 DEF IsWhole
<1>8. b * R1 = a * R2
  <2>1. f1 \in Int /\ f2 \in Int /\ R1 \in Int /\ R2 \in Int /\ a \in Int /\ b \in Int /\ q \in Int
    BY DEF Positive
  <2>2. \A u, v, w \in Int : u * (v * w) = (u * v) * w /\ (u * v) * w = (u * w) * v
    OBVIOUS
  <2>3. (b * R1) * f1 = b * (f1 * R1)
    BY <2>1, <2>2
  <2>4. (a * R2) * f1 = (a * f1) * R2
    BY <2>1, <2>2
  <2>5. q * (f2 * R2) = (q * f2) * R2
    BY <2>1, <2>2
  <2>6. (b * R1) * f1 = (a * R2) * f1
    BY <1>7, <2>3, <2>4, <2>5
  <2>7. b * R1 \in Int /\ a * R2 \in Int
    BY <2>1
  <2> QED
    BY <2>6, <2>7, Cancel
<1>9. Signed(t, A, mid) = IF t.type = "BUY" THEN a ELSE -a
  BY <1>6 DEF Signed, Lot
<1>10. Signed(t, A, to) = IF t.type = "BUY" THEN b ELSE -b
  BY <1>6 DEF Signed, Lot
<1>11. (-b) * R1 = (-a) * R2
  <2>1. \A u, v \in Int : (-u) * v = -(u * v)
    OBVIOUS
  <2> QED
    BY <1>8, <2>1 DEF Positive
<1>12. Signed(t, A, to) * R1 = Signed(t, A, mid) * R2 /\ Signed(t, A, mid) \in Int
  BY <1>8, <1>9, <1>10, <1>11
<1> QED
  BY <1>1, <1>3, <1>12

LEMMA NetMoves ==
  ASSUME NEW book, IsBook(book), NEW m \in Market, AllWhole(book, m.actions),
         NEW day \in 2 .. Today, \A k \in DOMAIN book : book[k].date # day,
         NEW s \in symbols_of(book)
  PROVE  LET R == split_factor(m.actions[s], day - 1, day)
         IN /\ NetOn(book, m.actions[s], s, day - 1) \in Int
            /\ NetOn(book, m.actions[s], s, day) \in Int
            /\ NetOn(book, m.actions[s], s, day) * R[1] = NetOn(book, m.actions[s], s, day - 1) * R[2]
<1>1. PICK A \in Actions : A = m.actions[s]
  BY SymbolsFinite, MarketTyped
<1>2. PICK R1 \in Int, R2 \in Int :
        R1 = split_factor(A, day - 1, day)[1] /\ R2 = split_factor(A, day - 1, day)[2]
  BY FactorPositive DEF Factor, Positive
<1>3. PICK mid : mid = day - 1
  OBVIOUS
<1>4. PICK rows : rows = UpTo(book, s, mid)
  OBVIOUS
<1>5. UpTo(book, s, day) = rows /\ rows \subseteq DOMAIN book /\ IsFiniteSet(rows)
  <2>1. \A k \in DOMAIN book : book[k].date \in Nat /\ book[k].date # day
    BY BookRows DEF Row
  <2>2. \A n \in Nat : n # day => (n <= day <=> n <= mid)
    BY <1>3, PortfolioAssumption
  <2>3. UpTo(book, s, day) = rows /\ rows \subseteq DOMAIN book
    BY <1>4, <2>1, <2>2 DEF UpTo
  <2> QED
    BY <2>3, BookRows, FS_Subset
<1> DEFINE f == Units(book, A, s, mid)
           g == Units(book, A, s, day)
<1>6. ASSUME NEW k \in rows
      PROVE  f[k] \in Int /\ g[k] \in Int /\ g[k] * R1 = f[k] * R2
  <2>1. PICK t \in Row : t = book[k] /\ t.symbol = s /\ t.date <= day - 1
    BY <1>3, <1>4, <1>5, BookRows DEF UpTo
  <2>2. IsWhole(t, A, day - 1) /\ IsWhole(t, A, day)
    <3>1. day - 1 \in 1 .. Today /\ day \in 1 .. Today
      BY PortfolioAssumption
    <3> QED
      BY <1>1, <1>5, <2>1, <3>1 DEF AllWhole
  <2>3. f[k] = Signed(t, A, day - 1) /\ g[k] = Signed(t, A, day)
    BY <1>3, <1>4, <1>5, <2>1 DEF Units
  <2>4. Signed(t, A, day - 1) \in Int /\ Signed(t, A, day) * R1 = Signed(t, A, day - 1) * R2
    BY <1>2, <2>1, <2>2, SignedMoves
  <2>5. Signed(t, A, day) \in Int
    <3>1. Lot(t, A, day).qty \in Nat
      BY LotTyped
    <3> QED
      BY <3>1 DEF Signed, Lot
  <2> QED
    BY <2>3, <2>4, <2>5
<1> HIDE DEF f, g
<1>7. Numbers(f, rows) /\ Numbers(g, rows)
  BY <1>6 DEF Numbers
<1>8. PICK h : h = [k \in rows |-> g[k] * R1]
  OBVIOUS
<1>9. IsTimes(h, g, R1, rows) /\ IsTimes(h, f, R2, rows)
  BY <1>6, <1>8 DEF IsTimes
<1>10. /\ SumFunctionOnSet(h, rows) = SumFunctionOnSet(g, rows) * R1
       /\ SumFunctionOnSet(h, rows) = SumFunctionOnSet(f, rows) * R2
  BY <1>5, <1>7, <1>9, SumTimes
<1>11. SumFunctionOnSet(f, rows) \in Int /\ SumFunctionOnSet(g, rows) \in Int
  BY <1>5, <1>7, SumTake
<1>12. NetOn(book, A, s, mid) = SumFunctionOnSet(f, rows) /\ NetOn(book, A, s, day) = SumFunctionOnSet(g, rows)
  BY <1>4, <1>5 DEF NetOn, f, g
<1> QED
  BY <1>1, <1>2, <1>3, <1>10, <1>11, <1>12

LEMMA CloseTyped ==
  ASSUME NEW m \in Market, NEW s \in Symbol, NEW day
  PROVE  close_on(m.closes, s, day) \in Nat \cup {None}
<1> DEFINE known == {d \in DOMAIN m.closes[s] : d <= day /\ m.closes[s][d] # None}
<1>1. /\ IsFiniteSet(DOMAIN m.closes[s]) /\ DOMAIN m.closes[s] \subseteq Nat
      /\ \A d \in DOMAIN m.closes[s] : m.closes[s][d] \in Nat \cup {None}
  BY MarketAssumption
<1>2. known \in SUBSET Nat /\ IsFiniteSet(known)
  BY <1>1, FS_Subset
<1>3. known # {} => Max(known) \in known
  BY <1>2, MaxTyped
<1> QED
  BY <1>1, <1>3 DEF close_on

\* What NoStepAtSplit says of one day.
OnlySplits(book, m, day) ==
  /\ \A k \in DOMAIN book : book[k].date # day
  /\ \A s \in symbols_of(book) :
       LET R == split_factor(m.actions[s], day - 1, day)
       IN /\ close_on(m.closes, s, day - 1) # None /\ close_on(m.closes, s, day) # None
          /\ close_on(m.closes, s, day) * R[2] = close_on(m.closes, s, day - 1) * R[1]

\* A close and a quantity moved by a ratio, one against the other.
Moved(c, d, a, b, r, q) == d * q = c * r /\ b * r = a * q

LEMMA ValueStays ==
  ASSUME NEW c \in Int, NEW d \in Int, NEW a \in Int, NEW b \in Int,
         NEW r \in Positive, NEW q \in Positive, Moved(c, d, a, b, r, q)
  PROVE  d * b = c * a /\ (b > 0 <=> a > 0)
<1>1. r \in Int /\ q \in Int /\ r * q \in Positive
  BY TimesPositive DEF Positive
<1>2. \A u, v, w, x \in Int : (u * v) * (w * x) = (u * x) * (v * w)
  OBVIOUS
<1>3. (d * b) * (r * q) = (d * q) * (b * r)
  BY <1>1, <1>2
<1>4. (c * a) * (r * q) = (c * r) * (a * q)
  <2>1. (c * a) * (q * r) = (c * r) * (a * q)
    BY <1>1, <1>2
  <2>2. r * q = q * r
    BY <1>1
  <2> QED
    BY <2>1, <2>2
<1>5. d * b = c * a
  <2>1. d * b \in Int /\ c * a \in Int
    OBVIOUS
  <2>2. PICK x \in Int, y \in Int, z \in Positive : x = d * b /\ y = c * a /\ z = r * q
    BY <1>1, <2>1
  <2>3. (d * q) * (b * r) = (c * r) * (a * q)
    BY DEF Moved
  <2>4. x * z = y * z
    BY <1>3, <1>4, <2>2, <2>3
  <2>5. x = y
    BY <2>4, Cancel
  <2> QED
    BY <2>2, <2>5
<1>6. \A x \in Int, y \in Positive : x > 0 <=> x * y > 0
  BY DEF Positive
<1>7. b > 0 <=> a > 0
  BY <1>6 DEF Moved
<1> QED
  BY <1>5, <1>7

LEMMA NoStepOfBook ==
  ASSUME NEW book, IsBook(book), NEW m \in Market, AllWhole(book, m.actions),
         NEW day \in 2 .. Today, OnlySplits(book, m, day)
  PROVE  CurvePoint(book, m, day) = CurvePoint(book, m, day - 1)
<1>1. PICK mid : mid = day - 1
  OBVIOUS
<1>2. PICK plan : plan = PlanOf(book, m)
  OBVIOUS
<1>3. ASSUME NEW s \in symbols_of(book)
      PROVE  LET a == NetOn(book, m.actions[s], s, mid)
                 b == NetOn(book, m.actions[s], s, day)
                 c == close_on(m.closes, s, mid)
                 d == close_on(m.closes, s, day)
             IN /\ c # None /\ d # None /\ (b > 0 <=> a > 0)
                /\ a \in Int /\ b \in Int /\ c \in Int /\ d \in Int /\ d * b = c * a
  <2>1. PICK A \in Actions : A = m.actions[s]
    BY SymbolsFinite, MarketTyped
  <2>2. PICK r \in Positive, q \in Positive :
          r = split_factor(A, mid, day)[1] /\ q = split_factor(A, mid, day)[2]
    BY FactorPositive DEF Factor
  <2>3. PICK a \in Int, b \in Int :
          /\ a = NetOn(book, A, s, mid) /\ b = NetOn(book, A, s, day) /\ b * r = a * q
    <3>1. \A k \in DOMAIN book : book[k].date # day
      BY DEF OnlySplits
    <3> QED
      BY <1>1, <2>1, <2>2, <3>1, NetMoves
  <2>4. PICK c \in Int, d \in Int :
          /\ c = close_on(m.closes, s, mid) /\ d = close_on(m.closes, s, day)
          /\ c # None /\ d # None /\ d * q = c * r
    <3>1. close_on(m.closes, s, mid) \in Nat \cup {None} /\ close_on(m.closes, s, day) \in Nat \cup {None}
      BY SymbolsFinite, CloseTyped
    <3> QED
      BY <1>1, <2>1, <2>2, <3>1 DEF OnlySplits
  <2>5. d * b = c * a /\ (b > 0 <=> a > 0)
    <3>1. Moved(c, d, a, b, r, q)
      BY <2>3, <2>4 DEF Moved
    <3> QED
      BY <3>1, ValueStays
  <2> QED
    BY <2>1, <2>3, <2>4, <2>5
<1>4. PICK held : held = Held(book, m.actions, day)
  OBVIOUS
<1>5. Held(book, m.actions, mid) = held /\ held \subseteq symbols_of(book) /\ IsFiniteSet(held)
  <2>1. Held(book, m.actions, mid) = held /\ held \subseteq symbols_of(book)
    BY <1>3, <1>4 DEF Held
  <2> QED
    BY <2>1, SymbolsFinite, FS_Subset
<1>6. OnCurve(book, m, day) <=> OnCurve(book, m, mid)
  BY <1>3, <1>4, <1>5 DEF OnCurve
<1>7. ASSUME OnCurve(book, m, day)
      PROVE  SumFunctionOnSet(Terms(book, m, day), held) = SumFunctionOnSet(Terms(book, m, mid), held)
  <2>1. ASSUME NEW s \in held
        PROVE  /\ Terms(book, m, day)[s] \in Int
               /\ Terms(book, m, day)[s] = Terms(book, m, mid)[s]
    <3>1. s \in symbols_of(book) /\ s \in DOMAIN plan
      BY <1>2, <1>4, <1>5, <1>7 DEF OnCurve
    <3>2. PICK p \in Int : p = plan[s]
      <4>1. PICK holdings : holdings = build_holdings(book, m.actions, None)
        OBVIOUS
      <4>2. PICK rates : rates = build_fx_rates(book, m.fx_quote)
        OBVIOUS
      <4>3. plan[s] = rates[currency_of(holdings[s])].rate
        BY <1>2, <3>1, <4>1, <4>2 DEF PlanOf, curve_fx_plan
      <4>4. currency_of(holdings[s]) \in {book[k].currency : k \in DOMAIN book}
        BY <3>1, <4>1, HoldingsTyped
      <4>5. rates[currency_of(holdings[s])] \in Rate
        BY <4>2, <4>4, RatesKnown
      <4> QED
        BY <4>3, <4>5 DEF Rate
    <3>3. PICK a \in Int, b \in Int, c \in Int, d \in Int :
            /\ a = NetOn(book, m.actions[s], s, mid) /\ b = NetOn(book, m.actions[s], s, day)
            /\ c = close_on(m.closes, s, mid) /\ d = close_on(m.closes, s, day) /\ d * b = c * a
      BY <1>3, <3>1
    <3>4. Terms(book, m, day)[s] = d * b * p /\ Terms(book, m, mid)[s] = c * a * p
      BY <1>2, <1>4, <1>5, <3>2, <3>3 DEF Terms
    <3>5. d * b * p \in Int /\ d * b * p = c * a * p
      BY <3>3
    <3> QED
      BY <3>4, <3>5
  <2>2. Numbers(Terms(book, m, day), held)
    BY <2>1 DEF Numbers
  <2> QED
    BY <1>5, <2>1, <2>2, SumSame
<1>8. CurvePoint(book, m, day) = IF OnCurve(book, m, day)
        THEN SumFunctionOnSet(Terms(book, m, day), held) ELSE None
  BY <1>4, PointKnown
<1>9. CurvePoint(book, m, mid) = IF OnCurve(book, m, mid)
        THEN SumFunctionOnSet(Terms(book, m, mid), held) ELSE None
  BY <1>5, PointKnown
<1> QED
  BY <1>1, <1>6, <1>7, <1>8, <1>9

\* Every row is a whole quantity in the units of every day.
RestatesDaily ==
  \A i \in Ids, day \in 1 .. Today : IsWhole(txns[i], market.actions[txns[i].symbol], day)

\* A split alone puts no step into the curve: on its day, with closes that moved
\* by the ratio only and no trade, the value is that of the day before, of any
\* book whose rows are whole quantities on every day.
THEOREM SplitIsNoStep == Spec => [](RestatesDaily => NoStepAtSplit)
<1>1. TypeOK /\ FinitelyMany => (RestatesDaily => NoStepAtSplit)
  <2> SUFFICES ASSUME TypeOK, FinitelyMany, RestatesDaily, NEW book \in Books,
                      NEW day \in 2 .. Today, OnlySplits(book, market, day)
               PROVE  CurvePoint(book, market, day) = CurvePoint(book, market, day - 1)
    BY DEF NoStepAtSplit, OnlySplits
  <2>1. IsBook(book) /\ market \in Market
    BY BooksAreBooks
  <2>2. \A j \in DOMAIN book : \E i \in Ids : book[j] = txns[i]
    BY RowsAreTransactions
  <2>3. AllWhole(book, market.actions)
    BY <2>2 DEF AllWhole, RestatesDaily
  <2> QED
    BY <2>1, <2>3, NoStepOfBook
<1> QED
  BY <1>1, PortfolioTyped, InitFinite, NextFinite, PTL DEF Spec

-----------------------------------------------------------------------------
(* Two orders of one day's rows.                                           *)

\* What a holding amounts to; of its sales and trips the totals only.
Figures == [qty : Int, cost : Int, base : Int, rated : BOOLEAN, fees : Nat, pl : Int, trips : Nat]
FiguresOf(h) ==
  [qty |-> h.qty, cost |-> h.cost_basis, base |-> h.cost_basis_base, rated |-> h.fx_complete,
   fees |-> h.realized_fees, pl |-> FieldSum(h.sales, "realized_pl"),
   trips |-> Len(h.closed_trades)]

\* They are all a row needs to know of the rows before it.
Share(c, q, held) == IF held > 0 THEN (q * c) \div held ELSE 0
BookBuy(a, t, lot) ==
  [qty |-> a.qty + lot.qty, cost |-> a.cost + lot_cost(lot, t),
   base |-> IF TxnFxRate(t) = None THEN a.base ELSE a.base + lot_cost(lot, t) * TxnFxRate(t),
   rated |-> a.rated /\ TxnFxRate(t) # None,
   fees |-> a.fees, pl |-> a.pl, trips |-> a.trips]
BookSale(a, t, lot) ==
  LET flat == a.qty = lot.qty
      cost == Share(a.cost, lot.qty, a.qty)
  IN [qty |-> a.qty - lot.qty, cost |-> IF flat THEN 0 ELSE a.cost - cost,
      base |-> IF flat THEN 0 ELSE a.base - Share(a.base, lot.qty, a.qty),
      rated |-> flat \/ a.rated,
      fees |-> a.fees + t.fee, pl |-> a.pl + (lot.qty * lot.price - cost - t.fee),
      trips |-> IF flat THEN a.trips + 1 ELSE a.trips]
Booked(a, t, lot) == IF t.type = "BUY" THEN BookBuy(a, t, lot) ELSE BookSale(a, t, lot)

LEMMA FiguresTyped ==
  ASSUME NEW h, Sound(h)
  PROVE  /\ FiguresOf(h) \in Figures /\ Whole(h.sales, "realized_pl")
         /\ FieldSum(h.sales, "realized_pl") \in Int
<1>1. h \in Holding /\ h.sales \in Seq(Sale) /\ h.closed_trades \in Seq(ClosedTrade)
  BY DEF Sound, Holding
<1>2. Whole(h.sales, "realized_pl")
  <2>1. \A i \in DOMAIN h.sales : h.sales[i] \in Sale
    BY <1>1, DomainFinite
  <2>2. \A x \in Sale : x["realized_pl"] \in Int
    BY DEF Sale
  <2> QED
    BY <2>1, <2>2 DEF Whole
<1>3. FieldSum(h.sales, "realized_pl") \in Int
  BY <1>1, <1>2, FieldSumTyped
<1>4. Len(h.closed_trades) \in Nat
  BY <1>1
<1> QED
  BY <1>1, <1>2, <1>3, <1>4 DEF FiguresOf, Figures, Holding

LEMMA FiguresStep ==
  ASSUME NEW h, Sound(h), NEW t \in Row, NEW A \in Actions,
         NEW lot, lot = Lot(t, A, None), lot.qty \in Positive
  PROVE  FiguresOf(FoldTxn(h, t, A, None)) = Booked(FiguresOf(h), t, lot)
<1> DEFINE n == FoldTxn(h, t, A, None)
           a == FiguresOf(h)
<1>1. /\ h \in Holding /\ h.round_open_index <= Len(h.sales) /\ h.qty \in Int
      /\ h.sales \in Seq(Sale) /\ h.closed_trades \in Seq(ClosedTrade)
  BY DEF Sound, Holding
<1>2. lot \in [qty : Nat, price : Nat]
  BY LotTyped
<1>3. /\ a.qty = h.qty /\ a.cost = h.cost_basis /\ a.base = h.cost_basis_base
      /\ a.rated = h.fx_complete /\ a.fees = h.realized_fees
      /\ a.pl = FieldSum(h.sales, "realized_pl") /\ a.trips = Len(h.closed_trades)
  BY DEF FiguresOf
<1>4. CASE t.type = "BUY"
  <2>1. /\ n.qty = h.qty + lot.qty /\ n.cost_basis = h.cost_basis + lot_cost(lot, t)
        /\ n.cost_basis_base = IF TxnFxRate(t) = None THEN h.cost_basis_base
                               ELSE h.cost_basis_base + lot_cost(lot, t) * TxnFxRate(t)
        /\ n.fx_complete = (h.fx_complete /\ TxnFxRate(t) # None)
        /\ n.sales = h.sales /\ n.closed_trades = h.closed_trades
        /\ n.realized_fees = h.realized_fees
    BY <1>1, <1>4, Bought
  <2> HIDE DEF n, a
  <2>2. FiguresOf(n) = BookBuy(a, t, lot)
    BY <1>3, <2>1 DEF FiguresOf, BookBuy
  <2> QED
    BY <1>4, <2>2 DEF Booked, n, a
<1>5. CASE t.type # "BUY"
  <2>1. SoldFrom(h, n, t, lot)
    BY <1>1, <1>5, Sold
  <2>2. PICK sale \in Sale : sale = RealizedSale(h, lot, t)
    BY <1>1, <1>2, SaleTyped
  <2> HIDE DEF n, a
  <2>3. PICK cost : cost = Share(a.cost, lot.qty, a.qty)
    OBVIOUS
  <2>4. /\ Released(h.cost_basis, lot.qty, h) = cost
        /\ Released(h.cost_basis_base, lot.qty, h) = Share(a.base, lot.qty, a.qty)
    BY <1>3, <2>3 DEF Released, Share
  <2>5. sale["realized_pl"] = lot.qty * lot.price - cost - t.fee
    BY <2>2, <2>4 DEF RealizedSale
  <2>6. sale["realized_pl"] \in Int
    BY DEF Sale
  <2>7. n.sales = Append(h.sales, sale)
    BY <2>1, <2>2 DEF SoldFrom
  <2>8. FieldSum(n.sales, "realized_pl") = a.pl + (lot.qty * lot.price - cost - t.fee)
    BY <1>1, <1>3, <2>5, <2>6, <2>7, FiguresTyped, FieldSumAppend
  <2>9. n.qty = a.qty - lot.qty /\ n.realized_fees = a.fees + t.fee
    BY <1>3, <2>1 DEF SoldFrom
  <2>10. n.qty = 0 <=> a.qty = lot.qty
    BY <1>1, <1>2, <1>3, <2>9
  <2>11. CASE Reduces(h, n, lot)
    <3>1. /\ a.qty # lot.qty /\ n.cost_basis = a.cost - cost
          /\ n.cost_basis_base = a.base - Share(a.base, lot.qty, a.qty)
          /\ n.fx_complete = a.rated /\ Len(n.closed_trades) = a.trips
      BY <1>3, <2>4, <2>10, <2>11 DEF Reduces
    <3>2. a.rated \in BOOLEAN
      BY <1>1, <1>3 DEF Holding
    <3>3. FiguresOf(n) = BookSale(a, t, lot)
      BY <2>3, <2>8, <2>9, <3>1, <3>2 DEF FiguresOf, BookSale
    <3> QED
      BY <1>5, <3>3 DEF Booked, n, a
  <2>12. ASSUME NEW legs, Closes(h, n, legs)
         PROVE  FiguresOf(n) = Booked(a, t, lot)
    <3>1. /\ a.qty = lot.qty /\ n.cost_basis = 0 /\ n.cost_basis_base = 0
          /\ n.fx_complete = TRUE
      BY <2>10, <2>12 DEF Closes
    <3>2. Len(n.closed_trades) = a.trips + 1
      <4>1. n.closed_trades = Append(h.closed_trades, ClosedTradeOf(legs, h.opened_on))
        BY <2>12 DEF Closes
      <4>2. Len(Append(h.closed_trades, ClosedTradeOf(legs, h.opened_on))) = Len(h.closed_trades) + 1
        BY <1>1
      <4> QED
        BY <1>3, <4>1, <4>2
    <3>3. FiguresOf(n) = BookSale(a, t, lot)
      BY <2>3, <2>8, <2>9, <3>1, <3>2 DEF FiguresOf, BookSale
    <3> QED
      BY <1>5, <3>3 DEF Booked
  <2>13. Reduces(h, n, lot) \/ \E legs : Closes(h, n, legs)
    BY <2>1 DEF SoldFrom
  <2> QED
    BY <2>11, <2>12, <2>13 DEF n, a
<1> QED
  BY <1>4, <1>5

LEMMA BuysCommute ==
  ASSUME NEW a \in Figures, NEW x \in Row, NEW y \in Row,
         NEW v \in [qty : Nat, price : Nat], NEW w \in [qty : Nat, price : Nat]
  PROVE  BookBuy(BookBuy(a, x, v), y, w) = BookBuy(BookBuy(a, y, w), x, v)
<1>1. PICK r \in Int \cup {None}, s \in Int \cup {None} : r = TxnFxRate(x) /\ s = TxnFxRate(y)
  <2>1. TxnFxRate(x) \in Positive \cup {None} /\ TxnFxRate(y) \in Positive \cup {None}
    BY RateOfRow
  <2>2. TxnFxRate(x) \in Int \cup {None} /\ TxnFxRate(y) \in Int \cup {None}
    BY <2>1 DEF Positive
  <2> QED
    BY <2>2
<1>2. PICK c \in Int, d \in Int : c = lot_cost(v, x) /\ d = lot_cost(w, y)
  <2>1. v.qty * v.price \in Nat /\ w.qty * w.price \in Nat /\ x.fee \in Nat /\ y.fee \in Nat
    BY DEF Row
  <2> QED
    BY <2>1 DEF lot_cost
<1>3. (r # None => c * r \in Int) /\ (s # None => d * s \in Int)
  OBVIOUS
<1>4. PICK e \in Int, f \in Int : (r # None => e = c * r) /\ (s # None => f = d * s)
  BY <1>3
<1>5. PICK b : b = BookBuy(a, x, v)
  OBVIOUS
<1>6. PICK g : g = BookBuy(a, y, w)
  OBVIOUS
<1>7. /\ b.qty = a.qty + v.qty /\ b.cost = a.cost + c
      /\ b.base = IF r = None THEN a.base ELSE a.base + e
      /\ b.rated = (a.rated /\ r # None) /\ b.fees = a.fees /\ b.pl = a.pl /\ b.trips = a.trips
  BY <1>1, <1>2, <1>4, <1>5 DEF BookBuy
<1>8. /\ g.qty = a.qty + w.qty /\ g.cost = a.cost + d
      /\ g.base = IF s = None THEN a.base ELSE a.base + f
      /\ g.rated = (a.rated /\ s # None) /\ g.fees = a.fees /\ g.pl = a.pl /\ g.trips = a.trips
  BY <1>1, <1>2, <1>4, <1>6 DEF BookBuy
<1>9. /\ a.qty \in Int /\ a.cost \in Int /\ a.base \in Int /\ v.qty \in Nat /\ w.qty \in Nat
  BY DEF Figures
<1>10. b.qty + w.qty = g.qty + v.qty /\ b.cost + d = g.cost + c
  BY <1>7, <1>8, <1>9
<1>11. (IF s = None THEN b.base ELSE b.base + f) = (IF r = None THEN g.base ELSE g.base + e)
  BY <1>7, <1>8, <1>9
<1>12. (b.rated /\ s # None) = (g.rated /\ r # None)
  BY <1>7, <1>8
<1>13. BookBuy(b, y, w) =
         [qty |-> b.qty + w.qty, cost |-> b.cost + d,
          base |-> IF s = None THEN b.base ELSE b.base + f,
          rated |-> b.rated /\ s # None, fees |-> b.fees, pl |-> b.pl, trips |-> b.trips]
  BY <1>1, <1>2, <1>4 DEF BookBuy
<1>14. BookBuy(g, x, v) =
         [qty |-> g.qty + v.qty, cost |-> g.cost + c,
          base |-> IF r = None THEN g.base ELSE g.base + e,
          rated |-> g.rated /\ r # None, fees |-> g.fees, pl |-> g.pl, trips |-> g.trips]
  BY <1>1, <1>2, <1>4 DEF BookBuy
<1>15. BookBuy(b, y, w) = BookBuy(g, x, v)
  BY <1>7, <1>8, <1>10, <1>11, <1>12, <1>13, <1>14
<1> QED
  BY <1>5, <1>6, <1>15

\* What a sale releases at a cost that divides is the quantity at average cost:
\* a sale before it has left the average where it was.
AtAverage(r, v, c, q) == r * q = v * c
LEMMA SecondShare ==
  ASSUME NEW c \in Int, NEW q \in Int, NEW v \in Int, NEW w \in Int, v < q, q > 0,
         NEW r \in Int, AtAverage(r, v, c, q),
         NEW left \in Int, left = q - v, NEW rest \in Int, rest = c - r,
         NEW s \in Int, AtAverage(s, w, rest, left)
  PROVE  AtAverage(s, w, c, q)
<1>1. left = q - v /\ r * q = v * c /\ s * (q - v) = w * (c - r)
  BY DEF AtAverage
<1>2. left \in Positive
  BY <1>1 DEF Positive
<1>3. \A i, j, k \in Int : (i * j) * k = (i * k) * j /\ i * (j - k) = i * j - i * k
                         /\ (j - k) * i = j * i - k * i /\ i * j = j * i
                         /\ (i * j) * k = i * (j * k)
  OBVIOUS
<1>4. (s * q) * left = (s * left) * q
  BY <1>3
<1>5. (s * left) * q = (w * (c - r)) * q
  BY <1>1
<1>6. (w * (c - r)) * q = w * ((c - r) * q)
  BY <1>3
<1>7. (c - r) * q = c * left
  <2>1. (c - r) * q = c * q - r * q
    BY <1>3
  <2>2. c * left = c * q - c * v
    BY <1>1, <1>3
  <2>3. v * c = c * v
    BY <1>3
  <2> QED
    BY <1>1, <2>1, <2>2, <2>3
<1>8. w * (c * left) = (w * c) * left
  BY <1>3
<1>9. (s * q) * left = (w * c) * left
  BY <1>4, <1>5, <1>6, <1>7, <1>8
<1>10. s * q \in Int /\ w * c \in Int
  OBVIOUS
<1> QED
  BY <1>2, <1>9, <1>10, Cancel DEF AtAverage

\* A sale takes no more than is held, at an average cost without a remainder.
Divides(a, lot) ==
  /\ lot.qty <= a.qty
  /\ Share(a.cost, lot.qty, a.qty) * a.qty = lot.qty * a.cost
  /\ Share(a.base, lot.qty, a.qty) * a.qty = lot.qty * a.base

\* Two sales that do, one after the other.
BookBoth(a, x, v, y, w) ==
  LET flat == a.qty = v.qty + w.qty
      r == Share(a.cost, v.qty, a.qty)
      s == Share(a.cost, w.qty, a.qty)
      rb == Share(a.base, v.qty, a.qty)
      sb == Share(a.base, w.qty, a.qty)
  IN [qty |-> a.qty - (v.qty + w.qty), cost |-> IF flat THEN 0 ELSE a.cost - (r + s),
      base |-> IF flat THEN 0 ELSE a.base - (rb + sb), rated |-> flat \/ a.rated,
      fees |-> a.fees + (x.fee + y.fee),
      pl |-> a.pl + ((v.qty * v.price - r - x.fee) + (w.qty * w.price - s - y.fee)),
      trips |-> IF flat THEN a.trips + 1 ELSE a.trips]

LEMMA BothSymmetric ==
  ASSUME NEW a \in Figures, NEW x \in Row, NEW y \in Row,
         NEW v \in [qty : Positive, price : Nat], NEW w \in [qty : Positive, price : Nat],
         a.qty \in Positive
  PROVE  /\ BookBoth(a, x, v, y, w) = BookBoth(a, y, w, x, v)
         /\ \A c \in Int : /\ Share(c, v.qty, a.qty) \in Int
                           /\ Share(c, w.qty, a.qty) \in Int
<1>1. PICK q \in Positive, i \in Positive, j \in Positive : q = a.qty /\ i = v.qty /\ j = w.qty
  OBVIOUS
<1>2. \A n \in Int, m \in Positive : n \div m \in Int
  BY DEF Positive
<1>3. \A c \in Int : i * c \in Int /\ j * c \in Int
  BY DEF Positive
<1>4. q > 0
  BY DEF Positive
<1>5. \A c \in Int : Share(c, i, q) \in Int /\ Share(c, j, q) \in Int
  BY <1>2, <1>3, <1>4 DEF Share
<1>6. a.cost \in Int /\ a.base \in Int /\ a.pl \in Int /\ a.fees \in Int
  BY DEF Figures
<1>7. PICK r \in Int, s \in Int : r = Share(a.cost, i, q) /\ s = Share(a.cost, j, q)
  BY <1>5, <1>6
<1>8. PICK rb \in Int, sb \in Int : rb = Share(a.base, i, q) /\ sb = Share(a.base, j, q)
  BY <1>5, <1>6
<1>9. PICK u \in Int, z \in Int : u = x.fee /\ z = y.fee
  BY DEF Row
<1>10. PICK k \in Int, l \in Int : k = v.qty * v.price - r - x.fee /\ l = w.qty * w.price - s - y.fee
  <2>1. v.qty * v.price \in Int /\ w.qty * w.price \in Int
    BY DEF Positive
  <2> QED
    BY <2>1, <1>9
<1>11. i + j = j + i /\ r + s = s + r /\ rb + sb = sb + rb /\ u + z = z + u /\ k + l = l + k
  BY DEF Positive
<1>12. BookBoth(a, x, v, y, w) = BookBoth(a, y, w, x, v)
  BY <1>1, <1>7, <1>8, <1>9, <1>10, <1>11 DEF BookBoth
<1> QED
  BY <1>1, <1>5, <1>12

LEMMA BothBooked ==
  ASSUME NEW a \in Figures, NEW x \in Row, NEW y \in Row,
         NEW v \in [qty : Positive, price : Nat], NEW w \in [qty : Positive, price : Nat],
         Divides(a, v), Divides(a, w), Divides(BookSale(a, x, v), w)
  PROVE  BookSale(BookSale(a, x, v), y, w) = BookBoth(a, x, v, y, w)
<1>1. PICK q \in Int, i \in Positive, j \in Positive : q = a.qty /\ i = v.qty /\ j = w.qty
  BY DEF Figures
<1>2. i \in Int /\ j \in Int /\ i > 0 /\ j > 0
  BY DEF Positive
<1>3. i <= q /\ j <= q
  BY <1>1 DEF Divides
<1>4. q \in Positive
  BY <1>2, <1>3 DEF Positive
<1>5. a.cost \in Int /\ a.base \in Int /\ a.pl \in Int /\ a.fees \in Int
  BY DEF Figures
<1>6. PICK r \in Int, s \in Int : r = Share(a.cost, i, q) /\ s = Share(a.cost, j, q)
  BY <1>1, <1>4, <1>5, BothSymmetric
<1>7. PICK rb \in Int, sb \in Int : rb = Share(a.base, i, q) /\ sb = Share(a.base, j, q)
  BY <1>1, <1>4, <1>5, BothSymmetric
<1>8. PICK b : b = BookSale(a, x, v)
  OBVIOUS
<1>9. b.qty = q - i
  BY <1>1, <1>8 DEF BookSale
<1>10. j <= b.qty
  BY <1>1, <1>8 DEF Divides
<1>11. i < q /\ q # i
  BY <1>2, <1>9, <1>10
<1>12. /\ b.cost = a.cost - r /\ b.base = a.base - rb /\ b.rated = (FALSE \/ a.rated)
       /\ b.fees = a.fees + x.fee /\ b.trips = a.trips
       /\ b.pl = a.pl + (v.qty * v.price - r - x.fee)
  BY <1>1, <1>6, <1>7, <1>8, <1>11 DEF BookSale
<1>13. PICK e \in Int : e = q - i
  BY <1>2
<1>14. e \in Positive /\ e = b.qty
  BY <1>2, <1>9, <1>11, <1>13 DEF Positive
<1>15. Share(b.cost, j, e) \in Int /\ Share(b.base, j, e) \in Int
  <2>1. \A n \in Int : j * n \in Int
    BY <1>2
  <2>2. \A n \in Int : n \div e \in Int
    BY <1>14 DEF Positive
  <2>3. b.cost \in Int /\ b.base \in Int
    BY <1>5, <1>12
  <2>4. e > 0
    BY <1>14 DEF Positive
  <2> QED
    BY <2>1, <2>2, <2>3, <2>4 DEF Share
<1>16. PICK f \in Int, g \in Int : f = Share(b.cost, j, e) /\ g = Share(b.base, j, e)
  BY <1>15
<1>17. r * q = i * a.cost /\ s * q = j * a.cost /\ rb * q = i * a.base /\ sb * q = j * a.base
  BY <1>1, <1>6, <1>7 DEF Divides
<1>18. f * (q - i) = j * (a.cost - r) /\ g * (q - i) = j * (a.base - rb)
  BY <1>1, <1>8, <1>12, <1>13, <1>14, <1>16 DEF Divides
<1>19. f * q = j * a.cost /\ g * q = j * a.base
  <2>1. q > 0 /\ i \in Int /\ j \in Int /\ i < q /\ e = q - i
    BY <1>2, <1>4, <1>11, <1>13 DEF Positive
  <2>2. PICK c \in Int, d \in Int : c = a.cost /\ d = a.base
    BY <1>5
  <2>3. PICK cr \in Int, dr \in Int : cr = c - r /\ dr = d - rb
    OBVIOUS
  <2>4. AtAverage(r, i, c, q) /\ AtAverage(rb, i, d, q)
    BY <1>17, <2>2 DEF AtAverage
  <2>5. AtAverage(f, j, cr, e) /\ AtAverage(g, j, dr, e)
    BY <1>13, <1>18, <2>2, <2>3 DEF AtAverage
  <2>6. AtAverage(f, j, c, q)
    BY <2>1, <2>3, <2>4, <2>5, SecondShare
  <2>7. AtAverage(g, j, d, q)
    BY <2>1, <2>3, <2>4, <2>5, SecondShare
  <2> QED
    BY <2>2, <2>6, <2>7 DEF AtAverage
<1>20. f = s /\ g = sb
  <2>1. f * q = s * q /\ g * q = sb * q
    BY <1>17, <1>19
  <2> QED
    BY <1>4, <2>1, Cancel
<1>21. (b.qty = w.qty) = (a.qty = v.qty + w.qty)
  BY <1>1, <1>2, <1>9
<1>22. PICK k \in Int : k = v.qty * v.price - r - x.fee
  <2>1. v.qty * v.price \in Int /\ x.fee \in Int
    BY DEF Positive, Row
  <2> QED
    BY <2>1
<1>23. PICK l \in Int : l = w.qty * w.price - s - y.fee
  <2>1. w.qty * w.price \in Int /\ y.fee \in Int
    BY DEF Positive, Row
  <2> QED
    BY <2>1
<1>24. x.fee \in Int /\ y.fee \in Int
  BY DEF Row
<1>25. /\ b.qty - w.qty = a.qty - (v.qty + w.qty)
       /\ b.cost - f = a.cost - (r + s) /\ b.base - g = a.base - (rb + sb)
       /\ b.fees + y.fee = a.fees + (x.fee + y.fee)
       /\ b.pl + l = a.pl + (k + l)
  <2>1. b.qty - w.qty = a.qty - (v.qty + w.qty)
    BY <1>1, <1>2, <1>9
  <2>2. PICK c \in Int, d \in Int : c = a.cost /\ d = a.base
    BY <1>5
  <2>3. b.cost - f = c - (r + s) /\ b.base - g = d - (rb + sb)
    BY <1>12, <1>20, <2>2
  <2>4. b.fees + y.fee = a.fees + (x.fee + y.fee)
    BY <1>5, <1>12, <1>24
  <2>5. b.pl + l = a.pl + (k + l)
    BY <1>5, <1>12, <1>22
  <2> QED
    BY <2>1, <2>2, <2>3, <2>4, <2>5
<1>26. PICK flat \in BOOLEAN : flat = (b.qty = w.qty)
  OBVIOUS
<1>27. BookSale(b, y, w) =
         [qty |-> b.qty - w.qty, cost |-> IF flat THEN 0 ELSE b.cost - f,
          base |-> IF flat THEN 0 ELSE b.base - g, rated |-> flat \/ b.rated,
          fees |-> b.fees + y.fee, pl |-> b.pl + (w.qty * w.price - f - y.fee),
          trips |-> IF flat THEN b.trips + 1 ELSE b.trips]
  BY <1>1, <1>14, <1>16, <1>26 DEF BookSale
<1>28. BookBoth(a, x, v, y, w) =
         [qty |-> a.qty - (v.qty + w.qty), cost |-> IF flat THEN 0 ELSE a.cost - (r + s),
          base |-> IF flat THEN 0 ELSE a.base - (rb + sb), rated |-> flat \/ a.rated,
          fees |-> a.fees + (x.fee + y.fee), pl |-> a.pl + (k + l),
          trips |-> IF flat THEN a.trips + 1 ELSE a.trips]
  BY <1>1, <1>6, <1>7, <1>21, <1>22, <1>23, <1>26 DEF BookBoth
<1>29. (flat \/ b.rated) = (flat \/ a.rated)
  BY <1>12 DEF Figures
<1>30. b.pl + (w.qty * w.price - f - y.fee) = a.pl + (k + l)
  BY <1>20, <1>23, <1>25
<1>31. BookSale(b, y, w) = BookBoth(a, x, v, y, w)
  BY <1>12, <1>25, <1>27, <1>28, <1>29, <1>30
<1> QED
  BY <1>8, <1>31

LEMMA SalesCommute ==
  ASSUME NEW a \in Figures, NEW x \in Row, NEW y \in Row,
         NEW v \in [qty : Positive, price : Nat], NEW w \in [qty : Positive, price : Nat],
         Divides(a, v), Divides(a, w), Divides(BookSale(a, x, v), w), Divides(BookSale(a, y, w), v)
  PROVE  BookSale(BookSale(a, x, v), y, w) = BookSale(BookSale(a, y, w), x, v)
<1>1. a.qty \in Positive
  <2>1. a.qty \in Int /\ v.qty \in Int /\ v.qty > 0 /\ v.qty <= a.qty
    BY DEF Figures, Positive, Divides
  <2> QED
    BY <2>1 DEF Positive
<1> QED
  BY <1>1, BothBooked, BothSymmetric

-----------------------------------------------------------------------------
(* The orders of a set of rows.                                            *)

\* A row is folded after the rows before it, whatever comes behind.
Folded(b, s, A) == HoldingAfter(b, s, A, None)[Len(b)]

LEMMA FoldedNext ==
  ASSUME NEW b \in Seq(Row), NEW t \in Row, NEW A \in Actions, NEW s, t.symbol = s
  PROVE  /\ \A k \in 0 .. Len(b) :
              HoldingAfter(Append(b, t), s, A, None)[k] = HoldingAfter(b, s, A, None)[k]
         /\ Folded(Append(b, t), s, A) = FoldTxn(Folded(b, s, A), t, A, None)
         /\ Sound(Folded(b, s, A))
<1>1. PICK n \in Nat : n = Len(b)
  OBVIOUS
<1>2. PICK c \in Seq(Row) : c = Append(b, t)
  <2>1. Append(b, t) \in Seq(Row)
    OBVIOUS
  <2> QED
    BY <2>1
<1>3. Len(c) = n + 1 /\ c[n + 1] = t /\ \A k \in 1 .. n : c[k] = b[k]
  BY <1>1, <1>2
<1> DEFINE h == HoldingAfter(b, s, A, None)
           g == HoldingAfter(c, s, A, None)
           Good == {k \in 0 .. n : g[k] = h[k]}
<1>4. h[0] = NewHolding /\ \A k \in 1 .. n : h[k] = NextHolding(b, s, A, None, k, h[k - 1])
  BY <1>1, Loop
<1>5. g[0] = NewHolding /\ \A k \in 1 .. n + 1 : g[k] = NextHolding(c, s, A, None, k, g[k - 1])
  BY <1>3, Loop
<1>6. Sound(h[n])
  BY <1>1, AllSound
<1> HIDE DEF h, g
<1>7. \A k \in 0 .. n : k \in Good
  <2>1. 0 \in Good
    BY <1>4, <1>5
  <2>2. ASSUME NEW k \in 1 .. n, k - 1 \in Good
        PROVE  k \in Good
    <3>1. g[k - 1] = h[k - 1] /\ c[k] = b[k] /\ k \in 1 .. n + 1 /\ k \in 0 .. n
      BY <1>3, <2>2
    <3> QED
      BY <1>4, <1>5, <3>1 DEF NextHolding
  <2> HIDE DEF Good
  <2> QED
    BY <2>1, <2>2, LoopKeeps
<1>8. g[n + 1] = FoldTxn(h[n], t, A, None)
  <2>1. n + 1 \in 1 .. n + 1 /\ (n + 1) - 1 = n /\ n \in 0 .. n
    OBVIOUS
  <2>2. g[n] = h[n]
    BY <1>7, <2>1
  <2> QED
    BY <1>3, <1>5, <2>1, <2>2 DEF NextHolding
<1> QED
  BY <1>1, <1>2, <1>3, <1>6, <1>7, <1>8 DEF Folded, h, g

\* Among the rows of X none is of a later day.
Newest(y, X) == y \in X /\ \A x \in X : txns[x].date <= txns[y].date

LEMMA RowTyped ==
  ASSUME TypeOK, NEW i \in Ids
  PROVE  txns[i] \in Row /\ txns[i].date \in Nat
BY DEF Ids, TypeOK, Row

LEMMA OrderTyped ==
  ASSUME TypeOK, NEW X \in SUBSET Ids, IsFiniteSet(X), NEW b \in OrdersOf(X)
  PROVE  b \in Seq(Row) /\ Len(b) = Cardinality(X) /\ Len(b) \in Nat
<1>1. PICK n \in Nat : n = Cardinality(X)
  BY FS_CardinalityType
<1>2. PICK p \in SetToSeqs(X) : b = [k \in 1 .. n |-> txns[p[k]]]
  BY <1>1 DEF OrdersOf
<1>3. \A k \in 1 .. n : p[k] \in X
  BY <1>1, <1>2 DEF SetToSeqs
<1>4. \A k \in 1 .. n : txns[p[k]] \in Row
  BY <1>3, RowTyped
<1> QED
  BY <1>1, <1>2, <1>4

LEMMA TakeLast ==
  ASSUME TypeOK, NEW X \in SUBSET Ids, IsFiniteSet(X), X # {}, NEW b \in OrdersOf(X)
  PROVE  \E y \in X : \E c \in OrdersOf(X \ {y}) :
           /\ b = Append(c, txns[y])
           /\ c # <<>> => c[Len(c)].date <= txns[y].date
<1>1. PICK n \in Nat \ {0} : n = Cardinality(X)
  <2>1. PICK x \in X : TRUE
    OBVIOUS
  <2> QED
    BY <2>1, OneLess
<1>2. PICK p \in SetToSeqs(X) :
        /\ b = [k \in 1 .. n |-> txns[p[k]]]
        /\ \A k \in 2 .. n : txns[p[k - 1]].date <= txns[p[k]].date
  BY <1>1 DEF OrdersOf
<1>3. /\ p \in [1 .. n -> X]
      /\ \A i, j \in 1 .. n : i # j => p[i] # p[j]
  BY <1>1, <1>2 DEF SetToSeqs
<1>4. n \in 1 .. n /\ \A k \in 1 .. n - 1 : k \in 1 .. n /\ k # n
  OBVIOUS
<1>5. PICK y \in X : y = p[n]
  BY <1>3, <1>4
<1>6. Cardinality(X \ {y}) = n - 1
  BY <1>1, OneLess
<1>7. PICK q \in [1 .. n - 1 -> X \ {y}] : \A k \in 1 .. n - 1 : q[k] = p[k]
  <2>1. \A k \in 1 .. n - 1 : p[k] \in X \ {y}
    BY <1>3, <1>4, <1>5
  <2>2. [k \in 1 .. n - 1 |-> p[k]] \in [1 .. n - 1 -> X \ {y}]
    BY <2>1
  <2> QED
    BY <2>2
<1>8. q \in SetToSeqs(X \ {y})
  <2>1. \A i, j \in 1 .. n - 1 : i # j => q[i] # q[j]
    BY <1>3, <1>4, <1>7
  <2> QED
    BY <1>6, <1>7, <2>1 DEF SetToSeqs
<1>9. \A k \in 2 .. n - 1 : txns[q[k - 1]].date <= txns[q[k]].date
  <2>1. \A k \in 2 .. n - 1 : k \in 2 .. n /\ k - 1 \in 1 .. n - 1 /\ k \in 1 .. n - 1
    OBVIOUS
  <2> QED
    BY <1>2, <1>7, <2>1
<1>10. PICK c : c = [k \in 1 .. n - 1 |-> txns[q[k]]]
  OBVIOUS
<1>11. c \in OrdersOf(X \ {y})
  BY <1>6, <1>8, <1>9, <1>10 DEF OrdersOf
<1>12. \A k \in 1 .. n : txns[p[k]] \in Row
  BY <1>3, RowTyped
<1>13. c \in Seq(Row) /\ Len(c) = n - 1 /\ \A k \in 1 .. n - 1 : c[k] = txns[p[k]]
  <2>1. \A k \in 1 .. n - 1 : txns[q[k]] = txns[p[k]] /\ txns[q[k]] \in Row
    BY <1>4, <1>7, <1>12
  <2>2. n - 1 \in Nat
    OBVIOUS
  <2> QED
    BY <1>10, <2>1, <2>2
<1>14. b = Append(c, txns[y])
  <2>1. txns[y] \in Row
    BY <1>4, <1>5, <1>12
  <2>2. PICK d \in Seq(Row) : d = Append(c, txns[y])
    <3>1. Append(c, txns[y]) \in Seq(Row)
      BY <1>13, <2>1
    <3> QED
      BY <3>1
  <2>3. Len(d) = n /\ d[n] = txns[y] /\ \A k \in 1 .. n - 1 : d[k] = txns[p[k]]
    BY <1>13, <2>1, <2>2
  <2>4. b \in Seq(Row) /\ Len(b) = n /\ \A k \in 1 .. n : b[k] = txns[p[k]]
    BY <1>2, <1>12
  <2>5. \A k \in 1 .. n : k \in 1 .. n - 1 \/ k = n
    OBVIOUS
  <2>6. \A k \in 1 .. n : b[k] = d[k]
    BY <1>5, <2>3, <2>4, <2>5
  <2>7. b = d
    BY <2>2, <2>3, <2>4, <2>6
  <2> QED
    BY <2>2, <2>7
<1>15. c # <<>> => c[Len(c)].date <= txns[y].date
  <2>1. ASSUME c # <<>>
        PROVE  n \in 2 .. n /\ n - 1 \in 1 .. n - 1
    BY <1>13, <2>1
  <2> QED
    BY <1>2, <1>5, <1>13, <2>1
<1> QED
  BY <1>11, <1>14, <1>15

LEMMA PutLast ==
  ASSUME TypeOK, NEW X \in SUBSET Ids, IsFiniteSet(X), NEW y, Newest(y, X),
         NEW c \in OrdersOf(X \ {y})
  PROVE  Append(c, txns[y]) \in OrdersOf(X)
<1>1. y \in X /\ \A x \in X : txns[x].date <= txns[y].date
  BY DEF Newest
<1>2. PICK n \in Nat \ {0} : n = Cardinality(X) /\ Cardinality(X \ {y}) = n - 1
  <2>1. Cardinality(X) \in Nat \ {0} /\ Cardinality(X \ {y}) = Cardinality(X) - 1
    BY <1>1, OneLess
  <2> QED
    BY <2>1
<1>3. PICK q \in SetToSeqs(X \ {y}) :
        /\ c = [k \in 1 .. n - 1 |-> txns[q[k]]]
        /\ \A k \in 2 .. n - 1 : txns[q[k - 1]].date <= txns[q[k]].date
  BY <1>2 DEF OrdersOf
<1>4. /\ q \in [1 .. n - 1 -> X \ {y}]
      /\ \A i, j \in 1 .. n - 1 : i # j => q[i] # q[j]
  BY <1>2, <1>3 DEF SetToSeqs
<1>5. \A k \in 1 .. n : k \in 1 .. n - 1 \/ k = n
  OBVIOUS
<1>6. n \in 1 .. n /\ \A k \in 1 .. n - 1 : k \in 1 .. n /\ k # n
  OBVIOUS
<1>7. PICK p \in [1 .. n -> X] : p[n] = y /\ \A k \in 1 .. n - 1 : p[k] = q[k]
  <2> DEFINE f == [k \in 1 .. n |-> IF k = n THEN y ELSE q[k]]
  <2>1. f \in [1 .. n -> X]
    BY <1>1, <1>4, <1>5
  <2>2. f[n] = y /\ \A k \in 1 .. n - 1 : f[k] = q[k]
    BY <1>6
  <2> QED
    BY <2>1, <2>2
<1>8. p \in SetToSeqs(X)
  <2>1. \A k \in 1 .. n - 1 : p[k] # y
    BY <1>4, <1>7
  <2>2. \A i, j \in 1 .. n : i # j => p[i] # p[j]
    BY <1>4, <1>5, <1>7, <2>1
  <2> QED
    BY <1>2, <2>2 DEF SetToSeqs
<1>9. \A k \in 2 .. n : txns[p[k - 1]].date <= txns[p[k]].date
  <2> SUFFICES ASSUME NEW k \in 2 .. n
               PROVE  txns[p[k - 1]].date <= txns[p[k]].date
    OBVIOUS
  <2>1. k - 1 \in 1 .. n - 1 /\ k - 1 \in 1 .. n
    OBVIOUS
  <2>2. CASE k = n
    BY <1>1, <1>7, <2>1, <2>2
  <2>3. CASE k # n
    <3>1. k \in 2 .. n - 1 /\ k \in 1 .. n - 1
      BY <2>3
    <3> QED
      BY <1>3, <1>7, <2>1, <3>1
  <2> QED
    BY <2>2, <2>3
<1>10. PICK b : b = [k \in 1 .. n |-> txns[p[k]]]
  OBVIOUS
<1>11. b \in OrdersOf(X)
  BY <1>2, <1>8, <1>9, <1>10 DEF OrdersOf
<1>12. \A k \in 1 .. n : txns[p[k]] \in Row
  BY RowTyped
<1>13. b \in Seq(Row) /\ Len(b) = n /\ \A k \in 1 .. n : b[k] = txns[p[k]]
  BY <1>10, <1>12
<1>14. c \in Seq(Row) /\ Len(c) = n - 1 /\ \A k \in 1 .. n - 1 : c[k] = txns[p[k]]
  <2>1. \A k \in 1 .. n - 1 : txns[q[k]] = txns[p[k]] /\ txns[q[k]] \in Row
    BY <1>6, <1>7, <1>12
  <2>2. n - 1 \in Nat
    OBVIOUS
  <2>3. c = [k \in 1 .. n - 1 |-> txns[q[k]]]
    BY <1>3
  <2> QED
    BY <2>1, <2>2, <2>3
<1>15. b = Append(c, txns[y])
  <2>1. txns[y] \in Row
    BY <1>6, <1>7, <1>12
  <2>2. PICK d \in Seq(Row) : d = Append(c, txns[y])
    <3>1. Append(c, txns[y]) \in Seq(Row)
      BY <1>14, <2>1
    <3> QED
      BY <3>1
  <2>3. Len(d) = n /\ d[n] = txns[y] /\ \A k \in 1 .. n - 1 : d[k] = txns[p[k]]
    BY <1>14, <2>1, <2>2
  <2>4. \A k \in 1 .. n : b[k] = d[k]
    BY <1>5, <1>7, <1>13, <2>3
  <2>5. b = d
    BY <1>13, <2>2, <2>3, <2>4
  <2> QED
    BY <2>2, <2>5
<1> QED
  BY <1>11, <1>15

LEMMA HasNewest ==
  ASSUME TypeOK, NEW R \in SUBSET Ids, IsFiniteSet(R)
  PROVE  \A X \in SUBSET R : X # {} => \E y : Newest(y, X)
<1> DEFINE F == {X \in SUBSET R : X # {} => \E y : Newest(y, X)}
<1>1. {} \in F
  OBVIOUS
<1>2. ASSUME NEW X \in SUBSET R, X # {}, \A x \in X : X \ {x} \in F
      PROVE  X \in F
  <2>1. PICK x \in X : TRUE
    BY <1>2
  <2>2. \A i \in X : txns[i].date \in Nat
    BY RowTyped
  <2>3. CASE X \ {x} = {}
    <3>1. \A i \in X : i = x
      BY <2>3
    <3>2. Newest(x, X)
      BY <2>2, <3>1 DEF Newest
    <3> QED
      BY <3>2
  <2>4. CASE X \ {x} # {}
    <3>1. PICK z : Newest(z, X \ {x})
      BY <1>2, <2>4
    <3>2. z \in X /\ \A i \in X \ {x} : txns[i].date <= txns[z].date
      BY <3>1 DEF Newest
    <3>3. CASE txns[x].date <= txns[z].date
      BY <3>2, <3>3 DEF Newest
    <3>4. CASE txns[z].date < txns[x].date
      <4>1. \A i \in X : txns[i].date <= txns[x].date
        BY <2>2, <3>2, <3>4
      <4> QED
        BY <4>1 DEF Newest
    <3> QED
      BY <2>2, <3>2, <3>3, <3>4
  <2> QED
    BY <2>3, <2>4
<1>3. \A X \in SUBSET R : X \in F
  <2> HIDE DEF F
  <2> QED
    BY <1>1, <1>2, AllSubsets
<1> QED
  BY <1>3

LEMMA OrderExists ==
  ASSUME TypeOK, NEW R \in SUBSET Ids, IsFiniteSet(R)
  PROVE  \A X \in SUBSET R : OrdersOf(X) # {}
<1> DEFINE F == {X \in SUBSET R : OrdersOf(X) # {}}
<1>1. {} \in F
  <2>1. Cardinality({}) = 0
    BY FS_EmptySet
  <2>2. <<>> \in SetToSeqs({})
    BY <2>1 DEF SetToSeqs
  <2>3. \A k \in 2 .. 0 : FALSE
    OBVIOUS
  <2>4. OrdersOf({}) # {}
    BY <2>1, <2>2, <2>3 DEF OrdersOf
  <2> QED
    BY <2>4
<1>2. ASSUME NEW X \in SUBSET R, X # {}, \A x \in X : X \ {x} \in F
      PROVE  X \in F
  <2>1. PICK y : Newest(y, X)
    BY <1>2, HasNewest
  <2>2. PICK c : c \in OrdersOf(X \ {y})
    BY <1>2, <2>1 DEF Newest
  <2>3. IsFiniteSet(X)
    BY FS_Subset
  <2>4. Append(c, txns[y]) \in OrdersOf(X)
    BY <2>1, <2>2, <2>3, PutLast
  <2> QED
    BY <2>4
<1>3. \A X \in SUBSET R : X \in F
  <2> HIDE DEF F
  <2> QED
    BY <1>1, <1>2, AllSubsets
<1> QED
  BY <1>3

\* No row of a set is later than the last one of any of its orders.
EndsNewest(X) == \A b \in OrdersOf(X) : \A x \in X : txns[x].date <= b[Len(b)].date
LEMMA LastIsNewest ==
  ASSUME TypeOK, NEW R \in SUBSET Ids, IsFiniteSet(R)
  PROVE  \A X \in SUBSET R : EndsNewest(X)
<1> DEFINE F == {X \in SUBSET R : EndsNewest(X)}
<1>1. {} \in F
  BY DEF EndsNewest
<1>2. ASSUME NEW X \in SUBSET R, X # {}, \A x \in X : X \ {x} \in F
      PROVE  X \in F
  <2> SUFFICES ASSUME NEW b \in OrdersOf(X), NEW x \in X
               PROVE  txns[x].date <= b[Len(b)].date
    BY DEF EndsNewest
  <2>1. IsFiniteSet(X) /\ X \in SUBSET Ids
    BY FS_Subset
  <2>2. PICK y \in X : \E c \in OrdersOf(X \ {y}) :
          b = Append(c, txns[y]) /\ (c # <<>> => c[Len(c)].date <= txns[y].date)
    BY <1>2, <2>1, TakeLast
  <2>3. PICK c \in OrdersOf(X \ {y}) :
          b = Append(c, txns[y]) /\ (c # <<>> => c[Len(c)].date <= txns[y].date)
    BY <2>2
  <2>4. c \in Seq(Row) /\ Len(c) = Cardinality(X \ {y}) /\ Len(c) \in Nat
    <3>1. X \ {y} \in SUBSET Ids /\ IsFiniteSet(X \ {y})
      BY <2>1, FS_Subset
    <3> QED
      BY <3>1, OrderTyped
  <2>5. txns[x] \in Row /\ txns[y] \in Row /\ txns[x].date \in Nat /\ txns[y].date \in Nat
    BY <2>1, RowTyped
  <2>6. b[Len(b)] = txns[y]
    BY <2>3, <2>4, <2>5
  <2>7. CASE x = y
    BY <2>5, <2>6, <2>7
  <2>8. CASE x # y
    <3>1. EndsNewest(X \ {y})
      BY <1>2
    <3>2. txns[x].date <= c[Len(c)].date
      BY <2>8, <3>1 DEF EndsNewest
    <3>3. Len(c) # 0
      <4>1. Cardinality(X \ {y}) \in Nat \ {0}
        <5>1. PICK Z \in SUBSET X : Z = X \ {y} /\ x \in Z
          BY <2>8
        <5>2. Cardinality(Z) \in Nat \ {0}
          BY <2>1, <5>1, OneLess
        <5> QED
          BY <5>1, <5>2
      <4> QED
        BY <2>4, <4>1
    <3>4. c # <<>> /\ c[Len(c)].date \in Nat
      <4>1. Len(c) \in 1 .. Len(c)
        BY <2>4, <3>3
      <4>2. c[Len(c)] \in Row
        BY <2>4, <4>1
      <4> QED
        BY <3>3, <4>2 DEF Row
    <3> QED
      BY <2>3, <2>5, <2>6, <3>2, <3>4
  <2> QED
    BY <2>7, <2>8
<1>3. \A X \in SUBSET R : X \in F
  <2> HIDE DEF F
  <2> QED
    BY <1>1, <1>2, AllSubsets
<1> QED
  BY <1>3

\* So the last row of an order is one of the newest.
LEMMA EndsWithNewest ==
  ASSUME TypeOK, NEW X \in SUBSET Ids, IsFiniteSet(X), X # {}, NEW b \in OrdersOf(X)
  PROVE  \E y : Newest(y, X) /\ \E c \in OrdersOf(X \ {y}) : b = Append(c, txns[y])
<1>1. PICK y \in X : \E c \in OrdersOf(X \ {y}) :
        b = Append(c, txns[y]) /\ (c # <<>> => c[Len(c)].date <= txns[y].date)
  BY TakeLast
<1>2. PICK c \in OrdersOf(X \ {y}) : b = Append(c, txns[y])
  BY <1>1
<1>3. X \ {y} \in SUBSET Ids /\ IsFiniteSet(X \ {y})
  BY FS_Subset
<1>4. c \in Seq(Row) /\ txns[y] \in Row
  BY <1>3, OrderTyped, RowTyped
<1>5. b[Len(b)] = txns[y]
  BY <1>2, <1>4
<1>6. EndsNewest(X)
  BY LastIsNewest
<1>7. Newest(y, X)
  BY <1>5, <1>6 DEF EndsNewest, Newest
<1> QED
  BY <1>2, <1>7

-----------------------------------------------------------------------------
\* A sale of no more than is held leaves the average cost without a remainder.
Evenly(h, t, A) ==
  LET lot == Lot(t, A, None)
  IN lot.qty <= h.qty =>
       /\ Released(h.cost_basis, lot.qty, h) * h.qty = lot.qty * h.cost_basis
       /\ Released(h.cost_basis_base, lot.qty, h) * h.qty = lot.qty * h.cost_basis_base
ReleasesEvenly(b, s, A) ==
  \A k \in DOMAIN b : b[k].type # "BUY" => Evenly(HoldingAfter(b, s, A, None)[k - 1], b[k], A)
Covered(h) == \A x \in ToSet(h.sales) : ~x.oversold
Fair(b, s, A) == ReleasesEvenly(b, s, A) /\ Covered(Folded(b, s, A))

LEMMA FairNext ==
  ASSUME NEW b \in Seq(Row), NEW t \in Row, NEW A \in Actions, NEW s, t.symbol = s,
         Fair(Append(b, t), s, A)
  PROVE  /\ Fair(b, s, A)
         /\ t.type # "BUY" => Divides(FiguresOf(Folded(b, s, A)), Lot(t, A, None))
<1>1. PICK n \in Nat : n = Len(b)
  OBVIOUS
<1>2. PICK c \in Seq(Row) : c = Append(b, t)
  <2>1. Append(b, t) \in Seq(Row)
    OBVIOUS
  <2> QED
    BY <2>1
<1>3. /\ DOMAIN c = 1 .. n + 1 /\ DOMAIN b = 1 .. n /\ c[n + 1] = t
      /\ \A k \in 1 .. n : c[k] = b[k]
  BY <1>1, <1>2
<1>4. PICK h : h = Folded(b, s, A)
  OBVIOUS
<1>5. PICK m : m = Folded(c, s, A)
  OBVIOUS
<1>6. /\ m = FoldTxn(h, t, A, None) /\ Sound(h) /\ h = HoldingAfter(b, s, A, None)[n]
      /\ \A k \in 0 .. n : HoldingAfter(c, s, A, None)[k] = HoldingAfter(b, s, A, None)[k]
  BY <1>1, <1>2, <1>4, <1>5, FoldedNext DEF Folded
<1>7. ReleasesEvenly(c, s, A) /\ Covered(m)
  BY <1>2, <1>5 DEF Fair
<1>8. /\ h \in Holding /\ h.round_open_index <= Len(h.sales) /\ h.sales \in Seq(Sale)
      /\ h.qty \in Int
  BY <1>6 DEF Sound, Holding
<1>9. ReleasesEvenly(b, s, A)
  <2>1. \A k \in 1 .. n : k \in 1 .. n + 1 /\ k - 1 \in 0 .. n
    OBVIOUS
  <2> QED
    BY <1>3, <1>6, <1>7, <2>1 DEF ReleasesEvenly
<1>10. t.type # "BUY" => Evenly(h, t, A)
  <2>1. n + 1 \in 1 .. n + 1 /\ (n + 1) - 1 = n /\ n \in 0 .. n
    OBVIOUS
  <2>2. HoldingAfter(c, s, A, None)[n] = h
    BY <1>6, <2>1
  <2> QED
    BY <1>3, <1>7, <2>1, <2>2 DEF ReleasesEvenly
<1>11. PICK lot \in [qty : Nat, price : Nat] : lot = Lot(t, A, None)
  BY LotTyped
<1>12. CASE t.type = "BUY"
  <2>1. m.sales = h.sales
    BY <1>6, <1>8, <1>12, Bought
  <2>2. Covered(h)
    BY <1>7, <2>1 DEF Covered
  <2> QED
    BY <1>4, <1>9, <1>12, <2>2 DEF Fair
<1>13. CASE t.type # "BUY"
  <2>1. PICK sale \in Sale : sale = RealizedSale(h, lot, t)
    BY <1>8, SaleTyped
  <2>2. m.sales = Append(h.sales, sale)
    <3>1. SoldFrom(h, m, t, lot)
      BY <1>6, <1>8, <1>11, <1>13, Sold
    <3> QED
      BY <2>1, <3>1 DEF SoldFrom
  <2>3. /\ \A i \in DOMAIN h.sales : i \in DOMAIN m.sales /\ m.sales[i] = h.sales[i]
        /\ Len(m.sales) \in DOMAIN m.sales /\ m.sales[Len(m.sales)] = sale
    BY <1>8, <2>2
  <2>4. Covered(h) /\ ~sale.oversold
    BY <1>7, <2>3 DEF Covered, ToSet
  <2>5. sale.oversold = (lot.qty > h.qty)
    BY <2>1 DEF RealizedSale
  <2>6. lot.qty <= h.qty
    <3>1. ~(lot.qty > h.qty) /\ lot.qty \in Nat
      BY <2>4, <2>5
    <3> QED
      BY <1>8, <3>1
  <2>7. /\ Released(h.cost_basis, lot.qty, h) * h.qty = lot.qty * h.cost_basis
        /\ Released(h.cost_basis_base, lot.qty, h) * h.qty = lot.qty * h.cost_basis_base
    BY <1>10, <1>11, <1>13, <2>6 DEF Evenly
  <2>8. Divides(FiguresOf(h), lot)
    BY <2>6, <2>7 DEF Divides, FiguresOf, Share, Released
  <2> QED
    BY <1>4, <1>9, <1>11, <2>4, <2>8 DEF Fair
<1> QED
  BY <1>12, <1>13

FairOrders(X, s, A) == \A b \in OrdersOf(X) : Fair(b, s, A)
OneKindADay(X) == \A i, j \in X : txns[i].type # txns[j].type => txns[i].date # txns[j].date
WholeRow(t, s, A) == t \in Row /\ t.symbol = s /\ Lot(t, A, None) \in [qty : Positive, price : Nat]
Agree(X, s, A) ==
  FairOrders(X, s, A) =>
    \A b, c \in OrdersOf(X) : FiguresOf(Folded(b, s, A)) = FiguresOf(Folded(c, s, A))

\* A row behind an order of the others.
LEMMA OneMore ==
  ASSUME TypeOK, NEW X \in SUBSET Ids, IsFiniteSet(X), NEW s, NEW A \in Actions,
         \A i \in X : WholeRow(txns[i], s, A), NEW y, Newest(y, X), NEW c \in OrdersOf(X \ {y})
  PROVE  /\ c \in Seq(Row) /\ Append(c, txns[y]) \in OrdersOf(X)
         /\ Sound(Folded(c, s, A))
         /\ FiguresOf(Folded(c, s, A)) \in Figures
         /\ FiguresOf(Folded(Append(c, txns[y]), s, A))
              = Booked(FiguresOf(Folded(c, s, A)), txns[y], Lot(txns[y], A, None))
         /\ FairOrders(X, s, A) =>
              /\ Fair(c, s, A)
              /\ txns[y].type # "BUY" =>
                   Divides(FiguresOf(Folded(c, s, A)), Lot(txns[y], A, None))
<1>1. y \in X /\ X \ {y} \in SUBSET Ids /\ IsFiniteSet(X \ {y})
  BY FS_Subset DEF Newest
<1>2. c \in Seq(Row)
  BY <1>1, OrderTyped
<1>3. PICK t \in Row : t = txns[y] /\ t.symbol = s /\ Lot(t, A, None) \in [qty : Positive, price : Nat]
  BY <1>1 DEF WholeRow
<1>4. Append(c, t) \in OrdersOf(X)
  BY <1>3, PutLast
<1>5. /\ Folded(Append(c, t), s, A) = FoldTxn(Folded(c, s, A), t, A, None)
      /\ Sound(Folded(c, s, A))
  BY <1>2, <1>3, FoldedNext
<1>6. FiguresOf(Folded(c, s, A)) \in Figures
  BY <1>5, FiguresTyped
<1>7. FiguresOf(Folded(Append(c, t), s, A))
        = Booked(FiguresOf(Folded(c, s, A)), t, Lot(t, A, None))
  BY <1>3, <1>5, FiguresStep
<1>8. ASSUME FairOrders(X, s, A)
      PROVE  /\ Fair(c, s, A)
             /\ t.type # "BUY" => Divides(FiguresOf(Folded(c, s, A)), Lot(t, A, None))
  <2>1. Fair(Append(c, t), s, A)
    BY <1>4, <1>8 DEF FairOrders
  <2> QED
    BY <1>2, <1>3, <2>1, FairNext
<1> QED
  BY <1>2, <1>3, <1>4, <1>5, <1>6, <1>7, <1>8

\* Two rows of one kind in either order.
LEMMA EitherOrder ==
  ASSUME NEW a \in Figures, NEW x \in Row, NEW y \in Row, x.type = y.type,
         NEW v \in [qty : Positive, price : Nat], NEW w \in [qty : Positive, price : Nat],
         x.type # "BUY" =>
           /\ Divides(a, v) /\ Divides(a, w)
           /\ Divides(Booked(a, x, v), w) /\ Divides(Booked(a, y, w), v)
  PROVE  Booked(Booked(a, x, v), y, w) = Booked(Booked(a, y, w), x, v)
<1>1. CASE x.type = "BUY"
  <2>1. v \in [qty : Nat, price : Nat] /\ w \in [qty : Nat, price : Nat]
    BY DEF Positive
  <2>2. BookBuy(BookBuy(a, x, v), y, w) = BookBuy(BookBuy(a, y, w), x, v)
    BY <2>1, BuysCommute
  <2> QED
    BY <1>1, <2>2 DEF Booked
<1>2. CASE x.type # "BUY"
  <2>1. /\ Divides(a, v) /\ Divides(a, w)
        /\ Divides(BookSale(a, x, v), w) /\ Divides(BookSale(a, y, w), v)
    BY <1>2 DEF Booked
  <2>2. BookSale(BookSale(a, x, v), y, w) = BookSale(BookSale(a, y, w), x, v)
    BY <2>1, SalesCommute
  <2> QED
    BY <1>2, <2>2 DEF Booked
<1> QED
  BY <1>1, <1>2

LEMMA AllAgree ==
  ASSUME TypeOK, NEW R \in SUBSET Ids, IsFiniteSet(R), NEW s, NEW A \in Actions,
         \A i \in R : WholeRow(txns[i], s, A), OneKindADay(R)
  PROVE  \A X \in SUBSET R : Agree(X, s, A)
<1> DEFINE F == {X \in SUBSET R : Agree(X, s, A)}
           Fig(b) == FiguresOf(Folded(b, s, A))
           L(i) == Lot(txns[i], A, None)
<1>1. {} \in F
  <2>1. \A b \in OrdersOf({}) : b = <<>>
    <3> SUFFICES ASSUME NEW b \in OrdersOf({})
                 PROVE  b = <<>>
      OBVIOUS
    <3>1. b \in Seq(Row) /\ Len(b) = Cardinality({})
      BY OrderTyped, FS_EmptySet
    <3>2. Len(b) = 0
      BY <3>1, FS_EmptySet
    <3> QED
      BY <3>1, <3>2
  <2> QED
    BY <2>1 DEF Agree
<1>2. ASSUME NEW X \in SUBSET R, X # {}, \A x \in X : X \ {x} \in F
      PROVE  X \in F
  <2> SUFFICES ASSUME FairOrders(X, s, A), NEW b \in OrdersOf(X), NEW c \in OrdersOf(X)
               PROVE  Fig(b) = Fig(c)
    BY DEF Agree
  <2>1. /\ X \in SUBSET Ids /\ IsFiniteSet(X) /\ \A i \in X : WholeRow(txns[i], s, A)
        /\ \A i \in X : txns[i].date \in Nat
    BY FS_Subset, RowTyped
  <2>2. PICK y : Newest(y, X) /\ \E q \in OrdersOf(X \ {y}) : b = Append(q, txns[y])
    BY <1>2, <2>1, EndsWithNewest
  <2>3. PICK p \in OrdersOf(X \ {y}) : b = Append(p, txns[y])
    BY <2>2
  <2>4. PICK z : Newest(z, X) /\ \E q \in OrdersOf(X \ {z}) : c = Append(q, txns[z])
    BY <1>2, <2>1, EndsWithNewest
  <2>5. PICK q \in OrdersOf(X \ {z}) : c = Append(q, txns[z])
    BY <2>4
  <2>6. y \in X /\ z \in X
    BY <2>2, <2>4 DEF Newest
  <2>7. Fig(b) = Booked(Fig(p), txns[y], L(y)) /\ Fig(c) = Booked(Fig(q), txns[z], L(z))
    <3>1. Fig(b) = Booked(Fig(p), txns[y], L(y))
      BY <2>1, <2>2, <2>3, OneMore
    <3>2. Fig(c) = Booked(Fig(q), txns[z], L(z))
      BY <2>1, <2>4, <2>5, OneMore
    <3> QED
      BY <3>1, <3>2
  \* The orders of the others are fair as well, so they agree.
  <2>8. ASSUME NEW u, Newest(u, X)
        PROVE  \A d, e \in OrdersOf(X \ {u}) : Fig(d) = Fig(e)
    <3>1. FairOrders(X \ {u}, s, A)
      BY <2>1, <2>8, OneMore DEF FairOrders
    <3>2. Agree(X \ {u}, s, A)
      BY <1>2, <2>8 DEF Newest
    <3> QED
      BY <3>1, <3>2 DEF Agree
  <2>9. CASE y = z
    BY <2>2, <2>3, <2>5, <2>7, <2>8, <2>9
  <2>10. CASE y # z
    <3>1. Newest(z, X \ {y}) /\ Newest(y, X \ {z})
      BY <2>2, <2>4, <2>6, <2>10 DEF Newest
    <3>2. PICK Y \in SUBSET Ids : Y = X \ {y} /\ IsFiniteSet(Y) /\ \A i \in Y : WholeRow(txns[i], s, A)
      BY <2>1, FS_Subset
    <3>3. PICK Z \in SUBSET Ids : Z = X \ {z} /\ IsFiniteSet(Z) /\ \A i \in Z : WholeRow(txns[i], s, A)
      BY <2>1, FS_Subset
    <3>4. PICK W \in SUBSET X : W = Y \ {z} /\ W = Z \ {y}
      BY <3>2, <3>3
    <3>5. PICK o : o \in OrdersOf(W)
      BY <2>1, OrderExists
    <3>6. FairOrders(Y, s, A) /\ FairOrders(Z, s, A)
      BY <2>1, <2>2, <2>4, <3>2, <3>3, OneMore DEF FairOrders
    <3>7. PICK a \in Figures : a = Fig(o)
      BY <3>1, <3>2, <3>4, <3>5, OneMore
    <3>8. PICK d : d = Append(o, txns[z])
      OBVIOUS
    <3>9. PICK e : e = Append(o, txns[y])
      OBVIOUS
    <3>10. /\ d \in OrdersOf(X \ {y}) /\ Fig(d) = Booked(a, txns[z], L(z))
           /\ txns[z].type # "BUY" => Divides(a, L(z))
      BY <3>1, <3>2, <3>4, <3>5, <3>6, <3>7, <3>8, OneMore
    <3>11. /\ e \in OrdersOf(X \ {z}) /\ Fig(e) = Booked(a, txns[y], L(y))
           /\ txns[y].type # "BUY" => Divides(a, L(y))
      BY <3>1, <3>3, <3>4, <3>5, <3>6, <3>7, <3>9, OneMore
    <3>12. txns[y].type # "BUY" => Divides(Fig(d), L(y))
      BY <2>1, <2>2, <3>10, OneMore
    <3>13. txns[z].type # "BUY" => Divides(Fig(e), L(z))
      BY <2>1, <2>4, <3>11, OneMore
    <3>14. Fig(p) = Fig(d) /\ Fig(q) = Fig(e)
      BY <2>2, <2>3, <2>4, <2>5, <2>8, <3>10, <3>11
    <3>15. txns[y].date = txns[z].date
      BY <2>1, <2>2, <2>4, <2>6 DEF Newest
    <3>16. txns[y].type = txns[z].type
      BY <2>6, <3>15 DEF OneKindADay
    <3>17. PICK i \in Row : i = txns[y] /\ L(y) \in [qty : Positive, price : Nat]
      BY <2>1, <2>6 DEF WholeRow
    <3>18. PICK j \in Row : j = txns[z] /\ L(z) \in [qty : Positive, price : Nat]
      BY <2>1, <2>6 DEF WholeRow
    <3>19. PICK v \in [qty : Positive, price : Nat], w \in [qty : Positive, price : Nat] :
             v = L(y) /\ w = L(z)
      BY <3>17, <3>18
    <3> HIDE DEF L, Fig
    <3>20. i.type # "BUY" =>
             /\ Divides(a, v) /\ Divides(a, w)
             /\ Divides(Booked(a, i, v), w) /\ Divides(Booked(a, j, w), v)
      BY <3>10, <3>11, <3>12, <3>13, <3>16, <3>17, <3>18, <3>19
    <3>21. Booked(Booked(a, i, v), j, w) = Booked(Booked(a, j, w), i, v)
      BY <3>16, <3>17, <3>18, <3>20, EitherOrder
    <3> QED
      BY <2>7, <3>10, <3>11, <3>14, <3>17, <3>18, <3>19, <3>21
  <2> QED
    BY <2>9, <2>10
<1>3. \A X \in SUBSET R : X \in F
  <2> HIDE DEF F
  <2> QED
    BY <1>1, <1>2, AllSubsets
<1> QED
  BY <1>3

\* In every order of a symbol's rows the sales leave their average cost without a
\* remainder, as decimals do.
ReleasesExactly ==
  \A s \in Symbol : \A b \in OrdersOf(RowsOf(s)) : ReleasesEvenly(b, s, market.actions[s])

\* The sets and tuples of the property, for one symbol.
FoldsOf(s) == {build_holdings(b, market.actions, None)[s] : b \in OrdersOf(RowsOf(s))}
Amounts(h) ==
  <<h.qty, h.cost_basis, h.cost_basis_base, h.fx_complete, h.realized_fees,
    SumOver(h.sales, LAMBDA x : x.realized_pl), Len(h.closed_trades)>>
OneAnswer(s) ==
  (/\ RowsOf(s) # {}
   /\ OneKindADay(RowsOf(s))
   /\ \A h \in FoldsOf(s) : Covered(h))
  => Cardinality({Amounts(h) : h \in FoldsOf(s)}) = 1

LEMMA AmountsAreFigures ==
  ASSUME NEW g, NEW h, FiguresOf(g) = FiguresOf(h)
  PROVE  Amounts(g) = Amounts(h)
<1>1. /\ g.qty = h.qty /\ g.cost_basis = h.cost_basis /\ g.cost_basis_base = h.cost_basis_base
      /\ g.fx_complete = h.fx_complete /\ g.realized_fees = h.realized_fees
      /\ FieldSum(g.sales, "realized_pl") = FieldSum(h.sales, "realized_pl")
      /\ Len(g.closed_trades) = Len(h.closed_trades)
  BY DEF FiguresOf
<1>2. /\ SumOver(g.sales, LAMBDA x : x.realized_pl) = FieldSum(g.sales, "realized_pl")
      /\ SumOver(h.sales, LAMBDA x : x.realized_pl) = FieldSum(h.sales, "realized_pl")
  BY DEF SumOver, SumOf, FieldSum
<1> QED
  BY <1>1, <1>2 DEF Amounts

LEMMA OneAnswerForAll ==
  ASSUME TypeOK, FinitelyMany, RestatesExactly, ReleasesExactly, NEW s \in Symbol
  PROVE  OneAnswer(s)
<1> SUFFICES ASSUME RowsOf(s) # {}, OneKindADay(RowsOf(s)), \A h \in FoldsOf(s) : Covered(h)
             PROVE  Cardinality({Amounts(h) : h \in FoldsOf(s)}) = 1
  BY DEF OneAnswer
<1>1. PICK R \in SUBSET Ids : R = RowsOf(s)
  BY DEF RowsOf
<1>2. PICK A \in Actions : A = market.actions[s]
  <2>1. market \in Market
    BY DEF TypeOK
  <2> QED
    BY <2>1, MarketTyped
<1>3. IsFiniteSet(R)
  BY FS_Subset DEF FinitelyMany
<1>4. \A i \in R : WholeRow(txns[i], s, A)
  <2> SUFFICES ASSUME NEW i \in R
               PROVE  WholeRow(txns[i], s, A)
    OBVIOUS
  <2>1. txns[i] \in Row /\ txns[i].symbol = s /\ IsExact(txns[i], A)
    BY <1>1, <1>2, RowTyped DEF RowsOf, RestatesExactly
  <2>2. PICK lot \in [qty : Nat, price : Nat] :
          lot = Lot(txns[i], A, None) /\ lot.qty \in Positive
    BY <2>1, ExactLot
  <2>3. lot \in [qty : Positive, price : Nat]
    BY <2>2
  <2> QED
    BY <2>1, <2>2, <2>3 DEF WholeRow
\* An order of the rows of s has rows of s only.
<1>5. ASSUME NEW b \in OrdersOf(R)
      PROVE  build_holdings(b, market.actions, None)[s] = Folded(b, s, A)
  <2>1. PICK y \in R : \E c \in OrdersOf(R \ {y}) :
          b = Append(c, txns[y]) /\ (c # <<>> => c[Len(c)].date <= txns[y].date)
    BY <1>1, <1>3, <1>5, TakeLast
  <2>2. PICK c \in OrdersOf(R \ {y}) : b = Append(c, txns[y])
    BY <2>1
  <2>3. c \in Seq(Row) /\ txns[y] \in Row /\ txns[y].symbol = s
    <3>1. R \ {y} \in SUBSET Ids /\ IsFiniteSet(R \ {y})
      BY <1>3, FS_Subset
    <3> QED
      BY <1>4, <3>1, OrderTyped DEF WholeRow
  <2>4. Len(b) \in DOMAIN b /\ b[Len(b)] = txns[y]
    BY <2>2, <2>3
  <2>5. s \in symbols_of(b)
    BY <2>3, <2>4 DEF symbols_of
  <2> QED
    BY <1>2, <2>5 DEF build_holdings, Folded
<1>6. FoldsOf(s) = {Folded(b, s, A) : b \in OrdersOf(R)}
  BY <1>1, <1>5 DEF FoldsOf
<1>7. FairOrders(R, s, A)
  <2>1. \A b \in OrdersOf(R) : Covered(Folded(b, s, A)) /\ ReleasesEvenly(b, s, A)
    BY <1>1, <1>2, <1>6 DEF ReleasesExactly
  <2> QED
    BY <2>1 DEF FairOrders, Fair
<1>8. Agree(R, s, A)
  BY <1>1, <1>3, <1>4, AllAgree
<1>9. PICK b : b \in OrdersOf(R)
  BY <1>3, OrderExists
<1>10. \A h \in FoldsOf(s) : Amounts(h) = Amounts(Folded(b, s, A))
  BY <1>6, <1>7, <1>8, <1>9, AmountsAreFigures DEF Agree
<1>11. {Amounts(h) : h \in FoldsOf(s)} = {Amounts(Folded(b, s, A))}
  BY <1>6, <1>9, <1>10
<1> QED
  BY <1>11, FS_Singleton

\* Whichever of the orders of one day's rows the database returns, a position's
\* quantity, cost, fees, realized profit and number of round trips come out the
\* same, as long as no day has both a purchase and a sale and nothing is
\* oversold: average cost gives "the same number every time it is asked".
THEOREM OrderDoesNotMatter ==
  Spec => [](RestatesExactly /\ ReleasesExactly => AverageIgnoresSameDayOrder)
<1>1. TypeOK /\ FinitelyMany => (RestatesExactly /\ ReleasesExactly => AverageIgnoresSameDayOrder)
  <2> SUFFICES ASSUME TypeOK, FinitelyMany, RestatesExactly, ReleasesExactly
               PROVE  AverageIgnoresSameDayOrder
    OBVIOUS
  <2>1. \A s \in Symbol : OneAnswer(s)
    BY OneAnswerForAll
  <2> QED
    BY <2>1 DEF AverageIgnoresSameDayOrder, OneAnswer, OneKindADay, FoldsOf, Covered, Amounts
<1> QED
  BY <1>1, PortfolioTyped, InitFinite, NextFinite, PTL DEF Spec
=============================================================================
