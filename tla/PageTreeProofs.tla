-------------------------- MODULE PageTreeProofs --------------------------
(***************************************************************************)
(* Proofs about PageTree, for every set of nodes and documents and every   *)
(* bound.                                                                  *)
(*                                                                         *)
(* Trees are Kids arrays with a number of each node that falls on the way  *)
(* down.  Along it the recursive functions of PageTree exist, and what     *)
(* they say is proved: numbers of pages, what is below a node, the order   *)
(* of the pages, the two searches and the way up that consolidatePageTree  *)
(* takes.  Then the handlers and the operations, with TreeInv as the       *)
(* invariant.  The list of pages is the matter of PageListProofs.          *)
(***************************************************************************)
EXTENDS PageTree, SequenceFacts, FiniteSetTheorems

-----------------------------------------------------------------------------
(* Induction along a rank, with a set in the place of a predicate. *)
Falls(D, rank, X) == \A n \in D : (\A m \in D : rank[m] < rank[n] => m \in X) => n \in X

LEMMA RankInduction ==
  ASSUME NEW D, NEW rank \in [D -> Nat], NEW X, Falls(D, rank, X)
  PROVE  \A n \in D : n \in X
<1> DEFINE Bad == {i \in Nat : \E n \in D : n \notin X /\ rank[n] = i}
<1> SUFFICES ASSUME NEW z \in D, z \notin X PROVE FALSE
  OBVIOUS
<1>1. Bad \subseteq Nat /\ rank[z] \in Bad
  OBVIOUS
<1>2. PICK i \in Bad : \A j \in Bad : i <= j
  <2> HIDE DEF Bad
  <2> QED BY <1>1, LeastNat
<1>3. PICK n \in D : n \notin X /\ rank[n] = i
  OBVIOUS
<1>4. \A m \in D : rank[m] < rank[n] => m \in X
  <2> SUFFICES ASSUME NEW m \in D, rank[m] < rank[n], m \notin X PROVE FALSE
    OBVIOUS
  <2>1. rank[m] \in Bad /\ rank[m] \in Nat /\ i \in Nat
    OBVIOUS
  <2> HIDE DEF Bad
  <2>2. i <= rank[m]
    BY <1>2, <2>1
  <2> QED BY <1>3, <2>1, <2>2
<1> QED BY <1>3, <1>4 DEF Falls

-----------------------------------------------------------------------------
(* Sums. *)

(* f is the sum of g over each subset of S, taken in the order of CHOOSE.  *)
SumIter(f, S, g) ==
    f = [T \in SUBSET S |-> IF T = {} THEN 0
                            ELSE g[CHOOSE x \in T : TRUE] + f[T \ {CHOOSE x \in T : TRUE}]]

Chosen(f, S, g) ==
    /\ f \in [SUBSET S -> Int]
    /\ f[{}] = 0
    /\ \A T \in SUBSET S : T # {} =>
          f[T] = g[CHOOSE x \in T : TRUE] + f[T \ {CHOOSE x \in T : TRUE}]

LEMMA SumIs ==
  ASSUME NEW g
  PROVE  SumFunction(g) = (CHOOSE f : SumIter(f, DOMAIN g, g))[DOMAIN g]
BY DEF SumFunction, SumFunctionOnSet, FoldFunctionOnSet, MapThenFoldSet, SumIter

(* A subset without one of its elements is smaller. *)
LEMMA SmallerSet ==
  ASSUME NEW S, IsFiniteSet(S)
  PROVE  /\ \A T \in SUBSET S : Cardinality(T) \in Nat
         /\ \A T \in SUBSET S : \A x \in T :
               T \ {x} \in SUBSET S /\ Cardinality(T \ {x}) < Cardinality(T)
         /\ \A T \in SUBSET S : T # {} => (CHOOSE x \in T : TRUE) \in T
<1>1. ASSUME NEW T \in SUBSET S PROVE IsFiniteSet(T) /\ Cardinality(T) \in Nat
  BY FS_Subset, FS_CardinalityType
<1>2. ASSUME NEW T \in SUBSET S, NEW x \in T PROVE Cardinality(T \ {x}) < Cardinality(T)
  <2>1. Cardinality(T \ {x}) = Cardinality(T) - 1
    BY <1>1, FS_RemoveElement
  <2> QED BY <1>1, <2>1
<1>3. ASSUME NEW T \in SUBSET S, T # {} PROVE (CHOOSE x \in T : TRUE) \in T
  BY <1>3
<1> QED BY <1>1, <1>2, <1>3

(* Such sums exist. *)
LEMMA SumExists ==
  ASSUME NEW S, IsFiniteSet(S), NEW g \in [S -> Int]
  PROVE  \E f : SumIter(f, S, g) /\ Chosen(f, S, g)
<1> DEFINE pick(T) == CHOOSE x \in T : TRUE
<1> DEFINE Upto(f, i) == /\ f \in [SUBSET S -> Int]
                         /\ f[{}] = 0
                         /\ \A T \in SUBSET S : T # {} /\ Cardinality(T) <= i =>
                               f[T] = g[pick(T)] + f[T \ {pick(T)}]
<1> DEFINE n == Cardinality(S)
<1> DEFINE Good == {i \in 0..n : \E f : Upto(f, i)}
<1>1. n \in Nat
  BY FS_CardinalityType
<1>2. /\ \A T \in SUBSET S : Cardinality(T) \in Nat
      /\ \A T \in SUBSET S : \A x \in T :
            T \ {x} \in SUBSET S /\ Cardinality(T \ {x}) < Cardinality(T)
      /\ \A T \in SUBSET S : T # {} => pick(T) \in T
  BY SmallerSet
<1>3. \A T \in SUBSET S : T # {} => Cardinality(T) # 0
  BY FS_Subset, FS_EmptySet
<1>4. 0 \in Good
  <2> DEFINE f == [T \in SUBSET S |-> 0]
  <2>1. f \in [SUBSET S -> Int] /\ f[{}] = 0
    OBVIOUS
  <2>2. \A T \in SUBSET S : T # {} => ~(Cardinality(T) <= 0)
    BY <1>2, <1>3
  <2> HIDE DEF f, n
  <2> QED BY <1>1, <2>1, <2>2
<1>5. ASSUME NEW i \in 0..(n - 1), i \in Good PROVE i + 1 \in Good
  <2>1. PICK f : Upto(f, i)
    BY <1>5
  <2> HIDE DEF pick
  <2> DEFINE h == [T \in SUBSET S |-> IF T = {} THEN 0
                                      ELSE IF Cardinality(T) <= i + 1 THEN g[pick(T)] + f[T \ {pick(T)}]
                                      ELSE 0]
  <2>2. h \in [SUBSET S -> Int]
    <3>1. ASSUME NEW T \in SUBSET S, T # {} PROVE g[pick(T)] + f[T \ {pick(T)}] \in Int
      <4>1. pick(T) \in S /\ T \ {pick(T)} \in SUBSET S
        BY <1>2, <3>1
      <4>2. g[pick(T)] \in Int /\ f[T \ {pick(T)}] \in Int
        BY <2>1, <4>1
      <4> QED BY <4>2
    <3>2. \A T \in SUBSET S : (IF T = {} THEN 0
                               ELSE IF Cardinality(T) <= i + 1 THEN g[pick(T)] + f[T \ {pick(T)}]
                               ELSE 0) \in Int
      BY <3>1
    <3> QED BY <3>2, Zenon
  <2>3. h[{}] = 0
    OBVIOUS
  <2>4. ASSUME NEW T \in SUBSET S, Cardinality(T) <= i PROVE h[T] = f[T]
    <3>1. CASE T = {}
      BY <2>1, <3>1
    <3>2. CASE T # {}
      <4>1. Cardinality(T) <= i + 1
        BY <1>1, <1>2, <2>4
      <4>2. f[T] = g[pick(T)] + f[T \ {pick(T)}]
        BY <2>1, <2>4, <3>2
      <4> QED BY <3>2, <4>1, <4>2
    <3> QED BY <3>1, <3>2
  <2>5. ASSUME NEW T \in SUBSET S, T # {}, Cardinality(T) <= i + 1
        PROVE  h[T] = g[pick(T)] + h[T \ {pick(T)}]
    <3>1. h[T] = g[pick(T)] + f[T \ {pick(T)}]
      BY <2>5
    <3>2. T \ {pick(T)} \in SUBSET S /\ Cardinality(T \ {pick(T)}) < Cardinality(T)
      BY <1>2, <2>5
    <3>3. Cardinality(T \ {pick(T)}) <= i
      <4>1. Cardinality(T \ {pick(T)}) \in Nat /\ Cardinality(T) \in Nat
        BY <1>2, <3>2
      <4> QED BY <2>5, <3>2, <4>1
    <3>4. h[T \ {pick(T)}] = f[T \ {pick(T)}]
      BY <2>4, <3>2, <3>3
    <3> QED BY <3>1, <3>4
  <2>6. i + 1 \in 0..n
    BY <1>1
  <2> HIDE DEF h, n
  <2>7. Upto(h, i + 1)
    BY <2>2, <2>3, <2>5
  <2> QED BY <2>6, <2>7
<1>6. n \in Good
  <2> HIDE DEF Good
  <2>1. \A i \in 0..n : i \in Good
    BY <1>1, <1>4, <1>5, UpTo0
  <2> QED BY <1>1, <2>1
<1>7. PICK f : Upto(f, n)
  BY <1>6
<1>8. \A T \in SUBSET S : Cardinality(T) <= n
  BY FS_Subset
<1>9. Chosen(f, S, g)
  BY <1>7, <1>8 DEF Chosen
<1>10. f = [T \in SUBSET S |-> f[T]]
  BY <1>7
<1>11. SumIter(f, S, g)
  BY <1>9, <1>10 DEF Chosen, SumIter
<1> QED BY <1>9, <1>11

(* Whatever is defined like that is chosen like that. *)
LEMMA SumIterChosen ==
  ASSUME NEW S, IsFiniteSet(S), NEW g, NEW e, NEW f,
         SumIter(e, S, g), SumIter(f, S, g), Chosen(f, S, g)
  PROVE  Chosen(e, S, g)
<1> DEFINE rank == [T \in SUBSET S |-> Cardinality(T)]
<1> DEFINE X == {T \in SUBSET S : e[T] = f[T]}
<1>1. /\ \A T \in SUBSET S : Cardinality(T) \in Nat
      /\ \A T \in SUBSET S : \A x \in T :
            T \ {x} \in SUBSET S /\ Cardinality(T \ {x}) < Cardinality(T)
      /\ \A T \in SUBSET S : T # {} => (CHOOSE x \in T : TRUE) \in T
  BY SmallerSet
<1>2. rank \in [SUBSET S -> Nat]
  BY <1>1
<1>3. Falls(SUBSET S, rank, X)
  <2> SUFFICES ASSUME NEW T \in SUBSET S, \A R \in SUBSET S : rank[R] < rank[T] => R \in X
               PROVE  T \in X
    BY DEF Falls
  <2>1. CASE T = {}
    BY <2>1 DEF SumIter
  <2>2. CASE T # {}
    <3>1. PICK x \in T : x = CHOOSE y \in T : TRUE
      BY <1>1, <2>2
    <3>2. T \ {x} \in SUBSET S /\ rank[T \ {x}] < rank[T]
      BY <1>1
    <3>3. e[T \ {x}] = f[T \ {x}]
      BY <3>2
    <3>4. e[T] = g[x] + e[T \ {x}]
      BY <2>2, <3>1 DEF SumIter
    <3>5. f[T] = g[x] + f[T \ {x}]
      BY <2>2, <3>1 DEF SumIter
    <3> QED BY <3>3, <3>4, <3>5
  <2> QED BY <2>1, <2>2
<1> HIDE DEF rank, X
<1>4. \A T \in SUBSET S : T \in X
  BY <1>2, <1>3, RankInduction
<1>5. \A T \in SUBSET S : e[T] = f[T]
  BY <1>4 DEF X
<1>6. e = f
  BY <1>5 DEF SumIter
<1> QED BY <1>6

(* Chosen fixes the values. *)
LEMMA ChosenSame ==
  ASSUME NEW S, IsFiniteSet(S), NEW U \in SUBSET S, NEW g, NEW h, NEW e, NEW f,
         Chosen(e, S, g), Chosen(f, U, h), \A x \in U : g[x] = h[x]
  PROVE  \A T \in SUBSET U : e[T] = f[T]
<1> DEFINE rank == [T \in SUBSET U |-> Cardinality(T)]
<1> DEFINE X == {T \in SUBSET U : e[T] = f[T]}
<1>1. /\ \A T \in SUBSET S : Cardinality(T) \in Nat
      /\ \A T \in SUBSET S : \A x \in T :
            T \ {x} \in SUBSET S /\ Cardinality(T \ {x}) < Cardinality(T)
      /\ \A T \in SUBSET S : T # {} => (CHOOSE x \in T : TRUE) \in T
  BY SmallerSet
<1>2. rank \in [SUBSET U -> Nat]
  BY <1>1
<1>3. Falls(SUBSET U, rank, X)
  <2> SUFFICES ASSUME NEW T \in SUBSET U, \A R \in SUBSET U : rank[R] < rank[T] => R \in X
               PROVE  T \in X
    BY DEF Falls
  <2>1. CASE T = {}
    BY <2>1 DEF Chosen
  <2>2. CASE T # {}
    <3>1. PICK x \in T : x = CHOOSE y \in T : TRUE
      BY <1>1, <2>2
    <3>2. T \ {x} \in SUBSET U /\ rank[T \ {x}] < rank[T]
      BY <1>1
    <3>3. e[T \ {x}] = f[T \ {x}]
      BY <3>2
    <3>4. e[T] = g[x] + e[T \ {x}]
      BY <2>2, <3>1 DEF Chosen
    <3>5. f[T] = h[x] + f[T \ {x}]
      BY <2>2, <3>1 DEF Chosen
    <3> QED BY <3>3, <3>4, <3>5
  <2> QED BY <2>1, <2>2
<1> HIDE DEF rank, X
<1>4. \A T \in SUBSET U : T \in X
  BY <1>2, <1>3, RankInduction
<1> QED BY <1>4 DEF X

(* It makes no difference which element is taken out first. *)
TakesAny(f, S, g) == \A T \in SUBSET S : \A x \in T : f[T] = g[x] + f[T \ {x}]

LEMMA ChosenAny ==
  ASSUME NEW S, IsFiniteSet(S), NEW g \in [S -> Int], NEW f, Chosen(f, S, g)
  PROVE  TakesAny(f, S, g)
<1> DEFINE rank == [T \in SUBSET S |-> Cardinality(T)]
<1> DEFINE X == {T \in SUBSET S : \A x \in T : f[T] = g[x] + f[T \ {x}]}
<1>1. /\ \A T \in SUBSET S : Cardinality(T) \in Nat
      /\ \A T \in SUBSET S : \A x \in T :
            T \ {x} \in SUBSET S /\ Cardinality(T \ {x}) < Cardinality(T)
      /\ \A T \in SUBSET S : T # {} => (CHOOSE x \in T : TRUE) \in T
  BY SmallerSet
<1>2. rank \in [SUBSET S -> Nat]
  BY <1>1
<1>3. Falls(SUBSET S, rank, X)
  <2> SUFFICES ASSUME NEW T \in SUBSET S, \A R \in SUBSET S : rank[R] < rank[T] => R \in X,
                      NEW x \in T
               PROVE  f[T] = g[x] + f[T \ {x}]
    BY DEF Falls
  <2>1. PICK y \in T : y = CHOOSE z \in T : TRUE
    BY <1>1
  <2>2. f[T] = g[y] + f[T \ {y}]
    BY <2>1 DEF Chosen
  <2>3. CASE x = y
    BY <2>2, <2>3
  <2>4. CASE x # y
    <3>1. T \ {x} \in X /\ T \ {y} \in X
      BY <1>1
    <3>2. x \in T \ {y} /\ y \in T \ {x}
      BY <2>4
    <3>3. f[T \ {y}] = g[x] + f[(T \ {y}) \ {x}] /\ f[T \ {x}] = g[y] + f[(T \ {x}) \ {y}]
      BY <3>1, <3>2
    <3>4. (T \ {y}) \ {x} = (T \ {x}) \ {y}
      OBVIOUS
    <3>5. (T \ {y}) \ {x} \in SUBSET S
      OBVIOUS
    <3>6. g[x] \in Int /\ g[y] \in Int /\ f[(T \ {y}) \ {x}] \in Int
      BY <3>5 DEF Chosen
    <3>7. PICK a, b, c \in Int : a = g[x] /\ b = g[y] /\ c = f[(T \ {y}) \ {x}]
      BY <3>6
    <3>8. f[T] = b + (a + c)
      BY <2>2, <3>3, <3>7
    <3>9. f[T \ {x}] = b + c
      BY <3>3, <3>4, <3>7
    <3>10. b + (a + c) = a + (b + c)
      BY <3>7
    <3> QED BY <3>7, <3>8, <3>9, <3>10
  <2> QED BY <2>3, <2>4
<1> HIDE DEF rank, X
<1>4. \A T \in SUBSET S : T \in X
  BY <1>2, <1>3, RankInduction
<1> QED BY <1>4 DEF X, TakesAny

(* SumFunction of numbers by their places: the last one is added to the    *)
(* sum of the others.                                                      *)
LEMMA SumLast ==
  ASSUME NEW n \in Nat, NEW g \in [1..n -> Int]
  PROVE  /\ SumFunction(g) \in Int
         /\ n = 0 => SumFunction(g) = 0
         /\ n # 0 => SumFunction(g) = g[n] + SumFunction([i \in 1..(n - 1) |-> g[i]])
<1>1. IsFiniteSet(1..n) /\ IsFiniteSet(1..(n - 1))
  BY FS_Interval
<1>2. DOMAIN g = 1..n
  OBVIOUS
<1>3. PICK e : e = CHOOSE f : SumIter(f, 1..n, g)
  OBVIOUS
<1>4. SumIter(e, 1..n, g) /\ SumFunction(g) = e[1..n]
  <2>1. \E f : SumIter(f, 1..n, g)
    BY <1>1, SumExists
  <2>2. SumIter(e, 1..n, g)
    BY <1>3, <2>1
  <2> QED BY <1>2, <1>3, <2>2, SumIs
<1>5. Chosen(e, 1..n, g)
  <2>1. PICK f : SumIter(f, 1..n, g) /\ Chosen(f, 1..n, g)
    BY <1>1, SumExists
  <2> QED BY <1>1, <1>4, <2>1, SumIterChosen
<1>6. SumFunction(g) \in Int
  BY <1>4, <1>5 DEF Chosen
<1>7. ASSUME n = 0 PROVE SumFunction(g) = 0
  <2>1. 1..n = {}
    BY <1>7
  <2> QED BY <1>4, <1>5, <2>1 DEF Chosen
<1>8. ASSUME n # 0 PROVE SumFunction(g) = g[n] + SumFunction([i \in 1..(n - 1) |-> g[i]])
  <2> DEFINE h == [i \in 1..(n - 1) |-> g[i]]
  <2>1. h \in [1..(n - 1) -> Int] /\ DOMAIN h = 1..(n - 1)
    OBVIOUS
  <2>2. \A x \in 1..(n - 1) : g[x] = h[x]
    OBVIOUS
  <2> HIDE DEF h
  <2>3. PICK d : d = CHOOSE f : SumIter(f, 1..(n - 1), h)
    OBVIOUS
  <2>4. PICK f : SumIter(f, 1..(n - 1), h) /\ Chosen(f, 1..(n - 1), h)
    BY <1>1, <2>1, SumExists
  <2>5. SumIter(d, 1..(n - 1), h)
    BY <2>3, <2>4
  <2>6. SumFunction(h) = d[1..(n - 1)]
    BY <2>1, <2>3, SumIs
  <2>7. Chosen(d, 1..(n - 1), h)
    BY <1>1, <2>4, <2>5, SumIterChosen
  <2>8. 1..(n - 1) \in SUBSET (1..n) /\ n \in 1..n /\ (1..n) \ {n} = 1..(n - 1)
    BY <1>8
  <2>9. e[1..n] = g[n] + e[1..(n - 1)]
    <3>0. PICK S : S = 1..n
      OBVIOUS
    <3>a. IsFiniteSet(S) /\ g \in [S -> Int] /\ Chosen(e, S, g) /\ S \in SUBSET S /\ n \in S
      BY <1>1, <1>5, <2>8, <3>0
    <3>b. TakesAny(e, S, g)
      BY <3>a, ChosenAny
    <3>1. e[1..n] = g[n] + e[(1..n) \ {n}]
      BY <3>0, <3>a, <3>b DEF TakesAny
    <3> QED BY <2>8, <3>1
  <2>10. e[1..(n - 1)] = d[1..(n - 1)]
    <3>0. PICK S, U : S = 1..n /\ U = 1..(n - 1)
      OBVIOUS
    <3>a. /\ IsFiniteSet(S) /\ U \in SUBSET S /\ Chosen(e, S, g) /\ Chosen(d, U, h)
          /\ \A x \in U : g[x] = h[x]
      BY <1>1, <1>5, <2>2, <2>7, <2>8, <3>0
    <3>b. \A T \in SUBSET U : e[T] = d[T]
      BY <3>a, ChosenSame
    <3>1. \A T \in SUBSET (1..(n - 1)) : e[T] = d[T]
      BY <3>0, <3>b
    <3>2. 1..(n - 1) \in SUBSET (1..(n - 1))
      OBVIOUS
    <3> QED BY <3>1, <3>2, Zenon
  <2>11. SumFunction(g) = g[n] + SumFunction(h)
    BY <1>4, <2>6, <2>9, <2>10
  <2> QED BY <2>11 DEF h
<1> QED BY <1>6, <1>7, <1>8

(* The sum of natural numbers is one. *)
LEMMA SumNat ==
  ASSUME NEW n \in Nat, NEW g \in [1..n -> Nat]
  PROVE  SumFunction(g) \in Nat
<1> DEFINE part(m) == [i \in 1..m |-> g[i]]
<1> DEFINE X == {m \in 0..n : SumFunction(part(m)) \in Nat}
<1>1. \A m \in 0..n : part(m) \in [1..m -> Nat] /\ part(m) \in [1..m -> Int]
  OBVIOUS
<1>2. 0 \in X
  <2>1. part(0) \in [1..0 -> Int] /\ 0 \in Nat /\ 0 \in 0..n
    BY <1>1
  <2> HIDE DEF part
  <2>2. SumFunction(part(0)) = 0
    BY <2>1, SumLast
  <2> QED BY <2>1, <2>2
<1>3. ASSUME NEW m \in 0..(n - 1), m \in X PROVE m + 1 \in X
  <2>1. part(m + 1) \in [1..(m + 1) -> Int] /\ m + 1 \in Nat /\ m + 1 # 0 /\ m + 1 \in 0..n
    BY <1>1
  <2>2. [i \in 1..((m + 1) - 1) |-> part(m + 1)[i]] = part(m)
    BY SMTT(30)
  <2>3. part(m + 1)[m + 1] \in Nat
    BY <1>1, <2>1
  <2>4. SumFunction(part(m)) \in Nat
    BY <1>3
  <2> HIDE DEF part, X
  <2>5. SumFunction(part(m + 1)) =
          part(m + 1)[m + 1] + SumFunction([i \in 1..((m + 1) - 1) |-> part(m + 1)[i]])
    BY <2>1, SumLast
  <2>6. SumFunction(part(m + 1)) = part(m + 1)[m + 1] + SumFunction(part(m))
    BY <2>2, <2>5
  <2> QED BY <2>1, <2>3, <2>4, <2>6 DEF X
<1>4. n \in 0..n /\ part(n) = g
  OBVIOUS
<1> HIDE DEF X, part
<1>5. \A m \in 0..n : m \in X
  BY <1>2, <1>3, UpTo0
<1> QED BY <1>4, <1>5 DEF X

-----------------------------------------------------------------------------
(* Trees. *)

Typed(k) == k \in [Inner -> Seq(Leaves \cup Inters)]

(* The elements of the array of a node. *)
KidsOf(k, n) == {k[n][i] : i \in DOMAIN k[n]}

(* A number of each node that gets smaller on the way down. *)
Falling(k, rank) ==
    /\ rank \in [Nodes -> Nat]
    /\ \A n \in Inner : \A i \in DOMAIN k[n] : rank[k[n][i]] < rank[n]

LEMMA NodesApart ==
  /\ \A n \in Nodes : n \in Leaves \/ n \in Inner
  /\ \A n \in Inner : n \notin Leaves /\ n \in Nodes /\ n # NoNode
  /\ \A n \in Leaves : n \notin Inner /\ n \in Nodes /\ n # NoNode
  /\ Leaves \cup Inters \subseteq Nodes
BY PageTreeAssumption DEF Nodes, Inner

LEMMA KidsTyped ==
  ASSUME NEW k, Typed(k), NEW n \in Inner
  PROVE  /\ k[n] \in Seq(Leaves \cup Inters)
         /\ DOMAIN k[n] = 1..Len(k[n]) /\ Len(k[n]) \in Nat
         /\ \A i \in DOMAIN k[n] : k[n][i] \in Leaves \cup Inters /\ k[n][i] \in Nodes
<1>1. k[n] \in Seq(Leaves \cup Inters)
  BY DEF Typed
<1>2. PICK s \in Seq(Leaves \cup Inters) : s = k[n]
  BY <1>1
<1>3. DOMAIN s = 1..Len(s) /\ Len(s) \in Nat /\ \A i \in 1..Len(s) : s[i] \in Leaves \cup Inters
  BY LenProperties, ElementOfSeq
<1> QED BY <1>2, <1>3, NodesApart

-----------------------------------------------------------------------------
(* The numbers of pages. *)

SizeOf(f, k, c, n) ==
    IF n \in Leaves THEN 1
    ELSE IF n \in DOMAIN c THEN c[n]
    ELSE SumFunction([i \in DOMAIN k[n] |-> f[k[n][i]]])

Sizes(f, k, c) == f = [n \in Nodes |-> SizeOf(f, k, c, n)]

LEMMA KidsCountIs ==
  ASSUME NEW k, NEW c PROVE KidsCount(k, c) = CHOOSE f : Sizes(f, k, c)
BY DEF KidsCount, Sizes, SizeOf

(* What the children have decides. *)
LEMMA SizeOfSame ==
  ASSUME NEW k, NEW n \in Inner, NEW c, NEW f, NEW g,
         \A i \in DOMAIN k[n] : f[k[n][i]] = g[k[n][i]]
  PROVE  SizeOf(f, k, c, n) = SizeOf(g, k, c, n)
<1>1. [i \in DOMAIN k[n] |-> f[k[n][i]]] = [i \in DOMAIN k[n] |-> g[k[n][i]]]
  OBVIOUS
<1> QED BY <1>1, Zenon DEF SizeOf

LEMMA SizesExist ==
  ASSUME NEW k, Typed(k), NEW c, NEW N \in Nat, NEW rank \in [Nodes -> 0..N], Falling(k, rank)
  PROVE  Sizes(KidsCount(k, c), k, c)
<1> DEFINE Upto(f, j) == f = [n \in Nodes |-> IF rank[n] < j THEN SizeOf(f, k, c, n) ELSE 0]
<1> DEFINE Good == {j \in 0..(N + 1) : \E f : Upto(f, j)}
<1>1. 0 \in Good
  <2> DEFINE f == [n \in Nodes |-> 0]
  <2>1. \A n \in Nodes : ~(rank[n] < 0)
    OBVIOUS
  <2>2. Upto(f, 0)
    BY <2>1
  <2> QED BY <2>2
<1>2. ASSUME NEW j \in 0..N, j \in Good PROVE j + 1 \in Good
  <2>1. PICK f : Upto(f, j)
    BY <1>2
  <2> DEFINE g == [n \in Nodes |-> IF rank[n] < j + 1 THEN SizeOf(f, k, c, n) ELSE 0]
  <2>2. \A n \in Nodes : rank[n] < j => f[n] = SizeOf(f, k, c, n)
    BY <2>1
  <2>3. ASSUME NEW n \in Nodes, rank[n] < j PROVE g[n] = f[n]
    <3>1. rank[n] < j + 1
      BY <2>3
    <3> QED BY <2>2, <2>3, <3>1
  <2>g. g = [n \in Nodes |-> IF rank[n] < j + 1 THEN SizeOf(f, k, c, n) ELSE 0]
    OBVIOUS
  <2> HIDE DEF g
  <2>4. ASSUME NEW n \in Nodes, rank[n] < j + 1
        PROVE  SizeOf(f, k, c, n) = SizeOf(g, k, c, n)
    <3>1. CASE n \in Leaves
      BY <3>1 DEF SizeOf
    <3>2. CASE n \in Inner
      <4>1. ASSUME NEW i \in DOMAIN k[n] PROVE g[k[n][i]] = f[k[n][i]]
        <5>1. k[n][i] \in Nodes /\ rank[k[n][i]] < rank[n]
          BY <3>2, KidsTyped DEF Falling
        <5>2. rank[k[n][i]] < j
          BY <2>4, <5>1
        <5> QED BY <2>3, <5>1, <5>2
      <4> QED BY <3>2, <4>1, SizeOfSame
    <3> QED BY <3>1, <3>2, NodesApart
  <2>5. g = [n \in Nodes |-> IF rank[n] < j + 1 THEN SizeOf(g, k, c, n) ELSE 0]
    BY <2>g, <2>4
  <2>6. j + 1 \in 0..(N + 1)
    OBVIOUS
  <2> QED BY <2>5, <2>6
<1>3. N + 1 \in Good
  <2> HIDE DEF Good
  <2>1. PICK M \in Nat : M = N + 1
    OBVIOUS
  <2>2. \A j \in 0..(M - 1) : j \in Good => j + 1 \in Good
    BY <1>2, <2>1
  <2>3. \A j \in 0..M : j \in Good
    BY <1>1, <2>2, UpTo0
  <2> QED BY <2>1, <2>3
<1>4. PICK f : Upto(f, N + 1)
  BY <1>3
<1>5. \A n \in Nodes : rank[n] < N + 1
  OBVIOUS
<1>6. Sizes(f, k, c)
  BY <1>4, <1>5 DEF Sizes
<1> QED BY <1>6, KidsCountIs

LEMMA SizesFacts ==
  ASSUME NEW k, Typed(k), NEW c, NEW f, Sizes(f, k, c)
  PROVE  /\ \A n \in Leaves : f[n] = 1
         /\ \A n \in Inner : n \in DOMAIN c => f[n] = c[n]
         /\ \A n \in Inner : n \notin DOMAIN c =>
               f[n] = SumFunction([i \in DOMAIN k[n] |-> f[k[n][i]]])
BY NodesApart DEF Sizes, SizeOf

(* The numbers of pages are natural numbers, when the cache has such. *)
LEMMA SizesNat ==
  ASSUME NEW k, Typed(k), NEW c, NEW f, Sizes(f, k, c), NEW rank, Falling(k, rank),
         \A n \in DOMAIN c : c[n] \in Nat
  PROVE  f \in [Nodes -> Nat]
<1> DEFINE X == {n \in Nodes : f[n] \in Nat}
<1>1. Falls(Nodes, rank, X)
  <2> SUFFICES ASSUME NEW n \in Nodes, \A m \in Nodes : rank[m] < rank[n] => m \in X
               PROVE  n \in X
    BY DEF Falls
  <2>1. CASE n \in Leaves
    BY <2>1, SizesFacts
  <2>2. CASE n \in Inner /\ n \in DOMAIN c
    BY <2>2, SizesFacts
  <2>3. CASE n \in Inner /\ n \notin DOMAIN c
    <3>1. PICK l \in Nat : DOMAIN k[n] = 1..l
      BY <2>3, KidsTyped
    <3>2. \A i \in DOMAIN k[n] : f[k[n][i]] \in Nat
      BY <2>3, KidsTyped DEF Falling
    <3>3. [i \in DOMAIN k[n] |-> f[k[n][i]]] \in [1..l -> Nat]
      BY <3>1, <3>2
    <3>4. SumFunction([i \in DOMAIN k[n] |-> f[k[n][i]]]) \in Nat
      BY <3>3, SumNat
    <3> QED BY <2>3, <3>4, SizesFacts
  <2> QED BY <2>1, <2>2, <2>3, NodesApart
<1>2. rank \in [Nodes -> Nat]
  BY DEF Falling
<1> HIDE DEF X
<1>3. \A n \in Nodes : n \in X
  BY <1>1, <1>2, RankInduction
<1>4. f = [n \in Nodes |-> f[n]]
  BY DEF Sizes
<1> QED BY <1>3, <1>4 DEF X

-----------------------------------------------------------------------------
(* A node and all below it. *)

BelowOf(f, k, n) ==
    {n} \cup (IF n \in Leaves THEN {} ELSE UNION {f[k[n][i]] : i \in DOMAIN k[n]})

Belows(f, k) == f = [n \in Nodes |-> BelowOf(f, k, n)]

LEMMA SubtreeIs ==
  ASSUME NEW k
  PROVE  \A t : Subtree(k, t) = (CHOOSE f : Belows(f, k))[t]
BY DEF Subtree, Belows, BelowOf

(* A set of nodes with all that is below them. *)
Closed(k, T) == \A m \in Inner \cap T : \A i \in DOMAIN k[m] : k[m][i] \in T

(* The least such set with a node in it is a solution. *)
LEMMA BelowsExist ==
  ASSUME NEW k, Typed(k)
  PROVE  \E f : Belows(f, k)
<1> DEFINE Up(n) == {T \in SUBSET Nodes : n \in T /\ Closed(k, T)}
<1> DEFINE f == [n \in Nodes |-> {x \in Nodes : \A T \in Up(n) : x \in T}]
<1>1. ASSUME NEW n \in Nodes PROVE f[n] \in Up(n)
  <2>1. f[n] \in SUBSET Nodes /\ n \in f[n]
    OBVIOUS
  <2>2. ASSUME NEW m \in Inner \cap f[n], NEW i \in DOMAIN k[m] PROVE k[m][i] \in f[n]
    <3>1. k[m][i] \in Nodes
      BY KidsTyped
    <3>2. \A T \in Up(n) : k[m][i] \in T
      BY DEF Closed
    <3> QED BY <3>1, <3>2
  <2>3. Closed(k, f[n])
    BY <2>2 DEF Closed
  <2> QED BY <2>1, <2>3
<1>2. ASSUME NEW n \in Nodes, NEW T \in Up(n) PROVE f[n] \subseteq T
  OBVIOUS
<1>3. ASSUME NEW n \in Nodes PROVE f[n] = BelowOf(f, k, n)
  <2>1. CASE n \in Leaves
    <3>1. {n} \in Up(n)
      BY <2>1, NodesApart DEF Closed
    <3>2. f[n] = {n}
      BY <1>1, <1>2, <3>1
    <3> QED BY <2>1, <3>2 DEF BelowOf
  <2>2. CASE n \in Inner
    <3> DEFINE B == {n} \cup UNION {f[k[n][i]] : i \in DOMAIN k[n]}
    <3>1. ASSUME NEW i \in DOMAIN k[n] PROVE k[n][i] \in Nodes /\ f[k[n][i]] \subseteq f[n]
      <4>1. k[n][i] \in Nodes
        BY <2>2, KidsTyped
      <4>2. k[n][i] \in f[n] /\ f[n] \in SUBSET Nodes /\ Closed(k, f[n])
        BY <1>1, <2>2 DEF Closed
      <4>3. f[n] \in Up(k[n][i])
        BY <4>2
      <4> QED BY <1>2, <4>1, <4>3
    <3>2. B \subseteq f[n]
      <4>1. n \in f[n]
        BY <1>1
      <4> HIDE DEF f
      <4> QED BY <3>1, <4>1
    <3>3. \A i \in DOMAIN k[n] : /\ f[k[n][i]] \in SUBSET Nodes /\ k[n][i] \in f[k[n][i]]
                                 /\ Closed(k, f[k[n][i]])
      BY <1>1, <3>1
    <3>4. B \in Up(n)
      <4> HIDE DEF f
      <4>1. B \in SUBSET Nodes /\ n \in B
        BY <3>3
      <4>2. ASSUME NEW m \in Inner \cap B, NEW j \in DOMAIN k[m] PROVE k[m][j] \in B
        <5>1. CASE m = n
          BY <3>3, <5>1
        <5>2. CASE m # n
          <6>1. PICK i \in DOMAIN k[n] : m \in f[k[n][i]]
            BY <5>2
          <6>2. k[m][j] \in f[k[n][i]]
            BY <3>3, <6>1 DEF Closed
          <6> QED BY <6>2
        <5> QED BY <5>1, <5>2
      <4>3. Closed(k, B)
        BY <4>2 DEF Closed
      <4> QED BY <4>1, <4>3
    <3>5. f[n] = B
      <4>1. f[n] \subseteq B
        BY <1>2, <3>4
      <4> HIDE DEF f, B
      <4> QED BY <3>2, <4>1
    <3>6. n \notin Leaves
      BY <2>2, NodesApart
    <3> HIDE DEF f
    <3> QED BY <3>5, <3>6 DEF BelowOf
  <2> QED BY <2>1, <2>2, NodesApart
<1>4. f = [n \in Nodes |-> f[n]]
  OBVIOUS
<1> HIDE DEF f
<1>5. f = [n \in Nodes |-> BelowOf(f, k, n)]
  BY <1>3, <1>4
<1> QED BY <1>5 DEF Belows

LEMMA SubtreeOf ==
  ASSUME NEW k, Typed(k)
  PROVE  /\ \A t \in Leaves : Subtree(k, t) = {t}
         /\ \A t \in Inner : Subtree(k, t) = {t} \cup UNION {Subtree(k, k[t][i]) : i \in DOMAIN k[t]}
<1>1. PICK f : f = CHOOSE g : Belows(g, k)
  OBVIOUS
<1>2. Belows(f, k)
  BY <1>1, BelowsExist
<1>3. \A t : Subtree(k, t) = f[t]
  BY <1>1, SubtreeIs
<1>4. \A t \in Nodes : f[t] = BelowOf(f, k, t)
  BY <1>2 DEF Belows
<1>5. ASSUME NEW t \in Leaves PROVE Subtree(k, t) = {t}
  BY <1>3, <1>4, NodesApart DEF BelowOf
<1>6. ASSUME NEW t \in Inner
      PROVE  Subtree(k, t) = {t} \cup UNION {Subtree(k, k[t][i]) : i \in DOMAIN k[t]}
  <2>1. f[t] = {t} \cup UNION {f[k[t][i]] : i \in DOMAIN k[t]}
    BY <1>4, NodesApart DEF BelowOf
  <2> QED BY <1>3, <2>1
<1> QED BY <1>5, <1>6

(* x is found below t when it is t or below one of its children. *)
LEMMA SubtreeParts ==
  ASSUME NEW k, Typed(k)
  PROVE  /\ \A t \in Nodes : t \in Subtree(k, t)
         /\ \A t \in Inner : \A i \in DOMAIN k[t] :
               k[t][i] \in Nodes /\ Subtree(k, k[t][i]) \subseteq Subtree(k, t)
         /\ \A t \in Inner : \A x \in Subtree(k, t) :
               x = t \/ \E i \in DOMAIN k[t] : x \in Subtree(k, k[t][i])
<1>1. /\ \A t \in Leaves : Subtree(k, t) = {t}
      /\ \A t \in Inner : Subtree(k, t) = {t} \cup UNION {Subtree(k, k[t][i]) : i \in DOMAIN k[t]}
  BY SubtreeOf
<1>2. \A t \in Nodes : t \in Subtree(k, t)
  BY <1>1, NodesApart
<1>3. ASSUME NEW t \in Inner, NEW i \in DOMAIN k[t]
      PROVE  k[t][i] \in Nodes /\ Subtree(k, k[t][i]) \subseteq Subtree(k, t)
  BY <1>1, KidsTyped
<1>4. ASSUME NEW t \in Inner, NEW x \in Subtree(k, t)
      PROVE  x = t \/ \E i \in DOMAIN k[t] : x \in Subtree(k, k[t][i])
  BY <1>1
<1> QED BY <1>2, <1>3, <1>4

(* A closed set with t in it holds all that is below t. *)
LEMMA SubtreeLeast ==
  ASSUME NEW k, Typed(k), NEW rank, Falling(k, rank), NEW T, Closed(k, T)
  PROVE  \A t \in Nodes : t \in T => Subtree(k, t) \subseteq T
<1> DEFINE X == {t \in Nodes : t \in T => Subtree(k, t) \subseteq T}
<1>1. Falls(Nodes, rank, X)
  <2> SUFFICES ASSUME NEW t \in Nodes, \A m \in Nodes : rank[m] < rank[t] => m \in X, t \in T,
                      NEW x \in Subtree(k, t)
               PROVE  x \in T
    BY DEF Falls
  <2>1. CASE t \in Leaves
    BY <2>1, SubtreeOf
  <2>2. CASE t \in Inner
    <3>1. CASE x = t
      BY <3>1
    <3>2. CASE x # t
      <4>1. PICK i \in DOMAIN k[t] : x \in Subtree(k, k[t][i])
        BY <2>2, <3>2, SubtreeParts
      <4>2. k[t][i] \in Nodes /\ rank[k[t][i]] < rank[t]
        BY <2>2, KidsTyped DEF Falling
      <4>3. k[t][i] \in T
        BY <2>2 DEF Closed
      <4> QED BY <4>1, <4>2, <4>3
    <3> QED BY <3>1, <3>2
  <2> QED BY <2>1, <2>2, NodesApart
<1>2. rank \in [Nodes -> Nat]
  BY DEF Falling
<1> HIDE DEF X
<1>3. \A t \in Nodes : t \in X
  BY <1>1, <1>2, RankInduction
<1> QED BY <1>3 DEF X

(* What is below t is closed, is of nodes and has no greater rank. *)
LEMMA SubtreeClosed ==
  ASSUME NEW k, Typed(k), NEW rank, Falling(k, rank)
  PROVE  /\ \A t \in Nodes : Closed(k, Subtree(k, t))
         /\ \A t \in Nodes : Subtree(k, t) \subseteq Nodes
         /\ \A t \in Nodes : \A x \in Subtree(k, t) : x \in Nodes /\ rank[x] <= rank[t]
<1> DEFINE X == {t \in Nodes : Closed(k, Subtree(k, t))}
<1>1. Falls(Nodes, rank, X)
  <2> SUFFICES ASSUME NEW t \in Nodes, \A m \in Nodes : rank[m] < rank[t] => m \in X,
                      NEW m \in Inner \cap Subtree(k, t), NEW i \in DOMAIN k[m]
               PROVE  k[m][i] \in Subtree(k, t)
    BY DEF Falls, Closed
  <2>1. CASE t \in Leaves
    BY <2>1, SubtreeOf, NodesApart
  <2>2. CASE t \in Inner
    <3>1. CASE m = t
      BY <3>1, SubtreeParts
    <3>2. CASE m # t
      <4>1. PICK j \in DOMAIN k[t] : m \in Subtree(k, k[t][j])
        BY <2>2, <3>2, SubtreeParts
      <4>2. k[t][j] \in Nodes /\ rank[k[t][j]] < rank[t]
        BY <2>2, KidsTyped DEF Falling
      <4>3. Closed(k, Subtree(k, k[t][j]))
        BY <4>2
      <4>4. k[m][i] \in Subtree(k, k[t][j])
        BY <4>1, <4>3 DEF Closed
      <4> QED BY <2>2, <4>4, SubtreeParts
    <3> QED BY <3>1, <3>2
  <2> QED BY <2>1, <2>2, NodesApart
<1>2. rank \in [Nodes -> Nat]
  BY DEF Falling
<1>3. \A t \in Nodes : t \in X
  <2> HIDE DEF X
  <2> QED BY <1>1, <1>2, RankInduction
<1>4. ASSUME NEW t \in Nodes, NEW x \in Subtree(k, t) PROVE x \in Nodes /\ rank[x] <= rank[t]
  <2> DEFINE T == {y \in Nodes : rank[y] <= rank[t]}
  <2>1. t \in T
    BY <1>2
  <2>2. ASSUME NEW m \in Inner \cap T, NEW i \in DOMAIN k[m] PROVE k[m][i] \in T
    <3>1. k[m][i] \in Nodes /\ rank[k[m][i]] < rank[m]
      BY KidsTyped DEF Falling
    <3>2. rank[m] <= rank[t] /\ rank[m] \in Nat /\ rank[t] \in Nat /\ rank[k[m][i]] \in Nat
      BY <1>2, <3>1, NodesApart
    <3> QED BY <3>1, <3>2
  <2>3. Closed(k, T)
    BY <2>2 DEF Closed
  <2>4. Subtree(k, t) \subseteq T
    <3> HIDE DEF T
    <3> QED BY <2>1, <2>3, SubtreeLeast
  <2> QED BY <2>4
<1>5. ASSUME NEW t \in Nodes PROVE Subtree(k, t) \subseteq Nodes
  BY <1>4
<1> QED BY <1>3, <1>4, <1>5

(* What is below t is t itself or in the array of a node below t. *)
LEMMA SubtreeHolder ==
  ASSUME NEW k, Typed(k), NEW rank, Falling(k, rank), NEW t \in Nodes, NEW x \in Subtree(k, t),
         x # t
  PROVE  \E h \in Inner \cap Subtree(k, t) : \E i \in DOMAIN k[h] : x = k[h][i]
<1> DEFINE T == {y \in Subtree(k, t) :
                   y = t \/ \E h \in Inner \cap Subtree(k, t) : \E i \in DOMAIN k[h] : y = k[h][i]}
<1>1. t \in T
  BY SubtreeParts
<1>2. Closed(k, Subtree(k, t))
  BY SubtreeClosed
<1>3. Closed(k, T)
  BY <1>2 DEF Closed
<1>4. Subtree(k, t) \subseteq T
  <2> HIDE DEF T
  <2> QED BY <1>1, <1>3, SubtreeLeast
<1> QED BY <1>4

-----------------------------------------------------------------------------
(* The way up from a changed node. *)

RightParents(k, par) == \A m \in Inner : \A i \in DOMAIN k[m] : par[k[m][i]] = m

StopsAt(size, m) == size[m] = count[m] \/ m = root \/ parent[m] = NoNode

ClimbOf(f, size, m) == IF StopsAt(size, m) THEN {m} ELSE {m} \cup f[parent[m]]

Climbs(f, size) == f = [m \in Inner |-> ClimbOf(f, size, m)]

(* The nodes consolidatePageTree visits. *)
Visited(k, n) == (CHOOSE f : Climbs(f, TrueCount(k)))[n]

LEMMA ConsolidateIs ==
  ASSUME NEW k, NEW n, NEW size, size = TrueCount(k), NEW v, v = Visited(k, n)
  PROVE  /\ ConsolidatePageTree(k, n).count =
              [m \in Inner |-> IF m \in {x \in v : size[x] # count[x]} THEN size[m] ELSE count[m]]
         /\ ConsolidatePageTree(k, n).parent =
              [m \in Nodes |-> IF {p \in v : m \in ToSet(k[p])} = {} THEN parent[m]
                               ELSE CHOOSE p \in {q \in v : m \in ToSet(k[q])} : TRUE]
         /\ ConsolidatePageTree(k, n).discarded = {x \in v : size[x] # count[x]}
         /\ ConsolidatePageTree(k, n).kept = ({x \in v : size[x] # count[x]} # v)
BY DEF ConsolidatePageTree, Visited, Climbs, ClimbOf, StopsAt

LEMMA ClimbsExist ==
  ASSUME NEW size, parent \in [Nodes -> Inner \cup {NoNode}]
  PROVE  \E f : Climbs(f, size)
<1> DEFINE On(T) == \A x \in T : ~StopsAt(size, x) => parent[x] \in T
<1> DEFINE Up(m) == {T \in SUBSET Inner : m \in T /\ On(T)}
<1> DEFINE f == [m \in Inner |-> {x \in Inner : \A T \in Up(m) : x \in T}]
<1>1. \A x \in Inner : ~StopsAt(size, x) => parent[x] \in Inner
  BY NodesApart DEF StopsAt
<1>2. ASSUME NEW m \in Inner PROVE f[m] \in Up(m)
  <2>1. f[m] \in SUBSET Inner /\ m \in f[m]
    OBVIOUS
  <2>2. ASSUME NEW x \in f[m], ~StopsAt(size, x) PROVE parent[x] \in f[m]
    <3>1. parent[x] \in Inner
      BY <1>1, <2>2
    <3>2. \A T \in Up(m) : parent[x] \in T
      BY <2>2
    <3> QED BY <3>1, <3>2
  <2> QED BY <2>1, <2>2
<1>3. ASSUME NEW m \in Inner, NEW T \in Up(m) PROVE f[m] \subseteq T
  OBVIOUS
<1>4. ASSUME NEW m \in Inner PROVE f[m] = ClimbOf(f, size, m)
  <2>1. CASE StopsAt(size, m)
    <3>1. {m} \in Up(m)
      BY <2>1
    <3>2. f[m] = {m}
      <4>1. f[m] \subseteq {m} /\ f[m] \in Up(m)
        BY <1>2, <1>3, <3>1
      <4> HIDE DEF f
      <4> QED BY <4>1
    <3> QED BY <2>1, <3>2 DEF ClimbOf
  <2>2. CASE ~StopsAt(size, m)
    <3>1. parent[m] \in Inner
      BY <1>1, <2>2
    <3>2. f[parent[m]] \in Up(parent[m]) /\ f[m] \in Up(m)
      BY <1>2, <3>1
    <3>3. {m} \cup f[parent[m]] \in Up(m)
      <4> HIDE DEF f
      <4> QED BY <3>2
    <3>4. f[m] \in Up(parent[m])
      <4> HIDE DEF f
      <4> QED BY <2>2, <3>2
    <3>5. f[m] \subseteq {m} \cup f[parent[m]]
      <4> HIDE DEF f, Up
      <4> QED BY <1>3, <3>3
    <3>6. f[parent[m]] \subseteq f[m] /\ m \in f[m]
      <4>1. f[parent[m]] \subseteq f[m]
        BY <1>3, <3>1, <3>4
      <4> HIDE DEF f
      <4> QED BY <3>2, <4>1
    <3>7. f[m] = {m} \cup f[parent[m]]
      BY <3>5, <3>6, SMTT(60)
    <3> HIDE DEF f
    <3> QED BY <2>2, <3>7 DEF ClimbOf
  <2> QED BY <2>1, <2>2
<1>5. f = [m \in Inner |-> f[m]]
  OBVIOUS
<1> HIDE DEF f
<1>6. f = [m \in Inner |-> ClimbOf(f, size, m)]
  BY <1>4, <1>5
<1> QED BY <1>6 DEF Climbs

(* It goes from parent to parent, to the only node it stops at. *)
WayUp(k, v, size, n) ==
    /\ v \subseteq Inner /\ n \in v
    /\ \A x \in v : StopsAt(size, x) \/ parent[x] \in v
    /\ \E z \in v : StopsAt(size, z) /\ \A x \in v : StopsAt(size, x) => x = z
    /\ \A x \in v : n \in Subtree(k, x)

LEMMA VisitedWayUp ==
  ASSUME parent \in [Nodes -> Inner \cup {NoNode}], root \in Roots,
         Typed(kids), RightParents(kids, parent), NEW rank, Falling(kids, rank),
         NEW k, NEW n \in Inner, n \in TreeNodes(root, kids)
  PROVE  WayUp(kids, Visited(k, n), TrueCount(k), n)
<1>1. PICK size : size = TrueCount(k)
  OBVIOUS
<1>2. PICK f : f = CHOOSE g : Climbs(g, size)
  OBVIOUS
<1>3. Climbs(f, size)
  BY <1>2, ClimbsExist
<1>4. \A m \in Inner : f[m] = ClimbOf(f, size, m)
  BY <1>3 DEF Climbs
<1> DEFINE T == {m \in Nodes : m \in Inner => WayUp(kids, f[m], size, m)}
<1>5. ASSUME NEW m \in Inner, StopsAt(size, m) PROVE WayUp(kids, f[m], size, m)
  <2>1. f[m] = {m}
    BY <1>4, <1>5 DEF ClimbOf
  <2>2. m \in Subtree(kids, m)
    BY NodesApart, SubtreeParts
  <2> QED BY <1>5, <2>1, <2>2 DEF WayUp
<1>6. root \in T
  <2>1. root \in Inner /\ root \in Nodes
    BY NodesApart DEF Inner
  <2>2. StopsAt(size, root)
    BY DEF StopsAt
  <2> QED BY <1>5, <2>1, <2>2
<1>7. ASSUME NEW m \in Inner \cap T, NEW i \in DOMAIN kids[m] PROVE kids[m][i] \in T
  <2>1. PICK c \in Nodes : c = kids[m][i] /\ parent[c] = m
    BY KidsTyped DEF RightParents
  <2> SUFFICES ASSUME c \in Inner, ~StopsAt(size, c) PROVE WayUp(kids, f[c], size, c)
    BY <1>5, <2>1
  <2>2. f[c] = {c} \cup f[m]
    BY <1>4, <2>1 DEF ClimbOf
  <2>3. WayUp(kids, f[m], size, m)
    OBVIOUS
  <2>4. f[m] \subseteq Inner /\ m \in f[m] /\ \A x \in f[m] : StopsAt(size, x) \/ parent[x] \in f[m]
    BY <2>3 DEF WayUp
  <2>5. PICK z \in f[m] : StopsAt(size, z) /\ \A x \in f[m] : StopsAt(size, x) => x = z
    BY <2>3 DEF WayUp
  <2>6. f[c] \subseteq Inner /\ c \in f[c]
    BY <2>2, <2>4
  <2>7. \A x \in f[c] : StopsAt(size, x) \/ parent[x] \in f[c]
    BY <2>1, <2>2, <2>4
  <2>8. z \in f[c] /\ StopsAt(size, z) /\ \A x \in f[c] : StopsAt(size, x) => x = z
    BY <2>2, <2>5
  <2>9. ASSUME NEW x \in f[c] PROVE c \in Subtree(kids, x)
    <3>1. CASE x = c
      BY <3>1, SubtreeParts
    <3>2. CASE x \in f[m]
      <4>1. m \in Subtree(kids, x) /\ x \in Nodes
        BY <2>3, <2>4, <3>2, NodesApart DEF WayUp
      <4>2. Closed(kids, Subtree(kids, x))
        BY <4>1, SubtreeClosed
      <4> QED BY <2>1, <4>1, <4>2 DEF Closed
    <3> QED BY <2>2, <3>1, <3>2
  <2> QED BY <2>6, <2>7, <2>8, <2>9 DEF WayUp
<1>8. Subtree(kids, root) \subseteq T
  <2>1. Closed(kids, T)
    BY <1>7 DEF Closed
  <2>2. root \in Nodes
    BY NodesApart DEF Inner
  <2> HIDE DEF T
  <2> QED BY <1>6, <2>1, <2>2, SubtreeLeast
<1>9. n \in T
  <2>1. root # NoNode
    BY PageTreeAssumption DEF Nodes, Inner
  <2> HIDE DEF T
  <2> QED BY <1>8, <2>1 DEF TreeNodes
<1>10. Visited(k, n) = f[n]
  BY <1>1, <1>2 DEF Visited
<1> QED BY <1>1, <1>9, <1>10

-----------------------------------------------------------------------------
(* The correction of the tree. *)

(* The Count and Parent entries of the nodes are right. *)
RightCounts(k, cnt) == \A n \in Inner : cnt[n] = TrueCount(k)[n]

(* k is the arrays of a tree, with a number that falls on the way down. *)
Tree(k, N, rank) ==
    /\ Typed(k) /\ HeldOnce(k)
    /\ N \in Nat /\ rank \in [Nodes -> 0..N] /\ Falling(k, rank)

IsTree(k) == \E N, rank : Tree(k, N, rank)

(* What is true of all the nodes there are, in the tree and out of it.     *)
RightNodes(r, k, par, cnt) ==
    /\ r \in Roots \cup {NoNode}
    /\ IsTree(k)
    /\ par \in [Nodes -> Inner \cup {NoNode}]
    /\ RightParents(k, par)
    /\ RightCounts(k, cnt)

(* The arrays k differ from those there are in that of n alone. *)
ChangedAt(k, n) == \A m \in Inner : m # n => k[m] = kids[m]

LEMMA TrueSizes ==
  ASSUME NEW k, IsTree(k)
  PROVE  Sizes(TrueCount(k), k, NoEntries)
BY SizesExist DEF IsTree, Tree, TrueCount

(* Only nodes that were visited have another number of pages now.          *)
LEMMA UnvisitedKeep ==
  ASSUME RightNodes(root, kids, parent, count), NEW k, IsTree(k), NEW n \in Inner, ChangedAt(k, n),
         NEW v, WayUp(kids, v, TrueCount(k), n)
  PROVE  \A m \in Nodes : m \notin v => TrueCount(k)[m] = TrueCount(kids)[m]
<1>1. PICK size, old : size = TrueCount(k) /\ old = TrueCount(kids)
  OBVIOUS
<1>2. Sizes(size, k, NoEntries) /\ Sizes(old, kids, NoEntries) /\ Typed(k) /\ Typed(kids)
  BY <1>1, TrueSizes DEF RightNodes, IsTree, Tree
<1>3. PICK N, rank : N \in Nat /\ rank \in [Nodes -> 0..N] /\ Falling(k, rank)
  BY DEF IsTree, Tree
<1>4. /\ \A m \in Leaves : size[m] = 1 /\ old[m] = 1
      /\ \A m \in Inner : size[m] = SumFunction([i \in DOMAIN k[m] |-> size[k[m][i]]])
      /\ \A m \in Inner : old[m] = SumFunction([i \in DOMAIN kids[m] |-> old[kids[m][i]]])
  <2>1. DOMAIN NoEntries = {}
    BY DEF NoEntries
  <2> QED BY <1>2, <2>1, SizesFacts
<1> DEFINE X == {m \in Nodes : m \notin v => size[m] = old[m]}
<1>5. Falls(Nodes, rank, X)
  <2> SUFFICES ASSUME NEW m \in Nodes, \A c \in Nodes : rank[c] < rank[m] => c \in X, m \notin v
               PROVE  size[m] = old[m]
    BY DEF Falls
  <2>1. CASE m \in Leaves
    BY <1>4, <2>1
  <2>2. CASE m \in Inner
    <3>1. m # n /\ k[m] = kids[m]
      BY <2>2 DEF WayUp, ChangedAt
    <3>2. ASSUME NEW i \in DOMAIN k[m] PROVE size[k[m][i]] = old[k[m][i]]
      <4>1. PICK c \in Nodes : c = k[m][i] /\ c \in Leaves \cup Inters /\ rank[c] < rank[m]
        BY <1>2, <1>3, <2>2, KidsTyped DEF Falling
      <4>2. CASE c \notin v
        BY <4>1, <4>2
      <4>3. CASE c \in v
        <5>1. parent[c] = m
          BY <2>2, <3>1, <4>1 DEF RightNodes, RightParents
        <5>2. StopsAt(size, c) /\ c \in Inner
          BY <1>1, <4>3, <5>1 DEF WayUp
        <5>3. c # root /\ parent[c] # NoNode
          BY <2>2, <4>1, <5>1, <5>2, PageTreeAssumption, NodesApart DEF RightNodes
        <5>4. size[c] = count[c] /\ count[c] = old[c]
          BY <1>1, <5>2, <5>3 DEF StopsAt, RightNodes, RightCounts
        <5> QED BY <4>1, <5>4
      <4> QED BY <4>2, <4>3
    <3>3. [i \in DOMAIN k[m] |-> size[k[m][i]]] = [i \in DOMAIN kids[m] |-> old[kids[m][i]]]
      BY <3>1, <3>2
    <3> QED BY <1>4, <2>2, <3>3, ZenonT(60)
  <2> QED BY <2>1, <2>2, NodesApart
<1>6. rank \in [Nodes -> Nat]
  BY <1>3 DEF Falling
<1> HIDE DEF X
<1>7. \A m \in Nodes : m \in X
  BY <1>5, <1>6, RankInduction
<1> QED BY <1>1, <1>7 DEF X

(* Where the number of pages of a node is another now, the node is one of  *)
(* those consolidatePageTree corrects.                                     *)
LEMMA Consolidated ==
  ASSUME RightNodes(root, kids, parent, count), NEW k, IsTree(k), NEW n, IsSeen(n), n \in Inner,
         ChangedAt(k, n)
  PROVE  LET t == ConsolidatePageTree(k, n) IN
         /\ RightNodes(root, k, t.parent, t.count)
         /\ t.discarded = {m \in Inner : TrueCount(k)[m] # TrueCount(kids)[m]}
         /\ t.kept => TrueCount(k)[root] = TrueCount(kids)[root]
         /\ t.count = [m \in Inner |-> TrueCount(k)[m]]
<1>0. root \in Roots
  BY DEF IsSeen, TreeNodes, RightNodes
<1>1. PICK size, v, t : size = TrueCount(k) /\ v = Visited(k, n) /\ t = ConsolidatePageTree(k, n)
  OBVIOUS
<1>2. WayUp(kids, v, size, n)
  <2>1. PICK N, rank : Tree(kids, N, rank)
    BY DEF RightNodes, IsTree
  <2> QED BY <1>0, <1>1, <2>1, VisitedWayUp DEF RightNodes, Tree, IsSeen
<1>3. PICK w : w = {x \in v : size[x] # count[x]}
  OBVIOUS
<1>4. /\ t.count = [m \in Inner |-> IF m \in w THEN size[m] ELSE count[m]]
      /\ t.parent = [m \in Nodes |-> IF {p \in v : m \in ToSet(k[p])} = {} THEN parent[m]
                                     ELSE CHOOSE p \in {q \in v : m \in ToSet(k[q])} : TRUE]
      /\ t.discarded = w
      /\ t.kept = (w # v)
  BY <1>1, <1>3, ConsolidateIs
<1>5. \A m \in Inner : count[m] = TrueCount(kids)[m]
  BY DEF RightNodes, RightCounts
<1>6. \A m \in Inner : m \notin v => size[m] = count[m]
  BY <1>1, <1>2, <1>5, UnvisitedKeep, NodesApart
<1>7. \A m \in Inner : t.count[m] = size[m]
  BY <1>3, <1>4, <1>6
<1>8. t.count = [m \in Inner |-> size[m]]
  BY <1>4, <1>7
<1>9. w = {m \in Inner : TrueCount(k)[m] # TrueCount(kids)[m]}
  BY <1>1, <1>2, <1>3, <1>5, <1>6 DEF WayUp
<1>10. ASSUME w # v PROVE TrueCount(k)[root] = TrueCount(kids)[root]
  <2>1. PICK c \in v : size[c] = count[c]
    BY <1>3, <1>10
  <2>2. CASE root \in v
    <3>1. StopsAt(size, c) /\ StopsAt(size, root)
      BY <2>1 DEF StopsAt
    <3>2. c = root
      BY <1>2, <2>2, <3>1 DEF WayUp
    <3> QED BY <1>0, <1>1, <1>5, <2>1, <3>2 DEF Inner
  <2>3. CASE root \notin v
    BY <1>0, <1>1, <1>5, <1>6, <2>3 DEF Inner
  <2> QED BY <2>2, <2>3
<1>11. Typed(k) /\ HeldOnce(k)
  BY DEF IsTree, Tree
<1> DEFINE holders(m) == {p \in v : m \in ToSet(k[p])}
<1>12. \A p \in Inner : \A m : m \in ToSet(k[p]) <=> \E i \in DOMAIN k[p] : m = k[p][i]
  BY DEF ToSet
<1>13. v \subseteq Inner /\ n \in v
  BY <1>2 DEF WayUp
<1>14. \A m \in Nodes : t.parent[m] = IF holders(m) = {} THEN parent[m]
                                      ELSE CHOOSE p \in holders(m) : TRUE
  BY <1>4
<1>15. t.parent \in [Nodes -> Inner \cup {NoNode}]
  <2>1. ASSUME NEW m \in Nodes PROVE t.parent[m] \in Inner \cup {NoNode}
    <3>1. CASE holders(m) = {}
      BY <1>14, <3>1 DEF RightNodes
    <3>2. CASE holders(m) # {}
      <4>1. (CHOOSE p \in holders(m) : TRUE) \in holders(m)
        BY <3>2
      <4> QED BY <1>13, <1>14, <3>2, <4>1
    <3> QED BY <3>1, <3>2
  <2>2. t.parent = [m \in Nodes |-> t.parent[m]]
    BY <1>4
  <2> HIDE DEF holders
  <2> QED BY <2>1, <2>2
<1>16. ASSUME NEW p \in Inner, NEW i \in DOMAIN k[p] PROVE t.parent[k[p][i]] = p
  <2>1. PICK m \in Nodes : m = k[p][i]
    BY <1>11, KidsTyped
  <2>2. holders(m) \subseteq {p}
    BY <1>11, <1>12, <1>13, <2>1 DEF HeldOnce
  <2>3. CASE p \in v
    <3>1. holders(m) = {p}
      BY <1>12, <2>1, <2>2, <2>3
    <3>2. (CHOOSE q \in holders(m) : TRUE) = p
      BY <3>1
    <3> QED BY <1>14, <2>1, <3>1, <3>2
  <2>4. CASE p \notin v
    <3>1. holders(m) = {}
      BY <2>2, <2>4
    <3>2. k[p] = kids[p]
      BY <1>13, <2>4 DEF ChangedAt
    <3>3. parent[m] = p
      BY <2>1, <3>2 DEF RightNodes, RightParents
    <3> QED BY <1>14, <2>1, <3>1, <3>3
  <2> QED BY <2>3, <2>4
<1>17. RightNodes(root, k, t.parent, t.count)
  BY <1>1, <1>7, <1>15, <1>16 DEF RightNodes, RightParents, RightCounts
<1> QED BY <1>1, <1>4, <1>8, <1>9, <1>10, <1>17

-----------------------------------------------------------------------------
(* Edits of an array. *)

(* s can take the place of the array of n: nothing is in it twice, and     *)
(* each element was there or can be added.                                 *)
MayBecome(n, s) ==
    /\ s \in Seq(Leaves \cup Inters)
    /\ \A i \in DOMAIN s, j \in DOMAIN s : s[i] = s[j] => i = j
    /\ \A i \in DOMAIN s : MayAdd(n, s[i]) \/ s[i] \in ToSet(kids[n])

LEMMA EditTree ==
  ASSUME IsTree(kids), NEW n \in Inner, NEW s, MayBecome(n, s), NEW k, k = [kids EXCEPT ![n] = s]
  PROVE  IsTree(k) /\ ChangedAt(k, n) /\ k[n] = s
<1>1. PICK N, rank : Tree(kids, N, rank)
  BY DEF IsTree
<1>2. Typed(kids) /\ HeldOnce(kids) /\ Falling(kids, rank) /\ N \in Nat /\ rank \in [Nodes -> 0..N]
  BY <1>1 DEF Tree
<1>3. k[n] = s /\ \A m \in Inner : m # n => k[m] = kids[m]
  BY <1>2 DEF Typed
<1>4. Typed(k)
  BY <1>2 DEF Typed, MayBecome
<1>5. \A m \in Inner : \A x : x \in ToSet(kids[m]) <=> \E i \in DOMAIN kids[m] : x = kids[m][i]
  BY DEF ToSet
<1>6. HeldOnce(k)
  <2>1. ASSUME NEW m \in Inner, m # n, NEW i \in DOMAIN s, NEW j \in DOMAIN kids[m], s[i] = kids[m][j]
        PROVE  FALSE
    <3>1. CASE MayAdd(n, s[i])
      BY <1>5, <2>1, <3>1 DEF MayAdd, IsFree
    <3>2. CASE s[i] \in ToSet(kids[n])
      BY <1>2, <1>5, <2>1, <3>2 DEF HeldOnce
    <3> QED BY <3>1, <3>2 DEF MayBecome
  <2>2. \A i \in DOMAIN s, j \in DOMAIN s : s[i] = s[j] => i = j
    BY DEF MayBecome
  <2> QED BY <1>2, <1>3, <2>1, <2>2 DEF HeldOnce
<1> DEFINE U == UNION {Subtree(kids, s[i]) : i \in DOMAIN s}
<1>7. \A i \in DOMAIN s : s[i] \in Nodes
  BY <1>3, <1>4, KidsTyped
<1>8. \A i \in DOMAIN s : s[i] \in U
  BY <1>2, <1>7, SubtreeParts
<1>9. \A m \in Inner \cap U : \A i \in DOMAIN kids[m] : kids[m][i] \in U
  BY <1>2, <1>7, SubtreeClosed DEF Closed
<1>10. n \notin U
  <2> SUFFICES ASSUME NEW i \in DOMAIN s, n \in Subtree(kids, s[i]) PROVE FALSE
    OBVIOUS
  <2>1. s[i] \in ToSet(kids[n])
    BY DEF MayBecome, MayAdd
  <2>2. rank[s[i]] < rank[n]
    BY <1>2, <1>5, <2>1 DEF Falling
  <2>3. rank[n] <= rank[s[i]] /\ n \in Nodes
    BY <1>2, <1>7, SubtreeClosed
  <2>4. rank[n] \in Nat /\ rank[s[i]] \in Nat
    BY <1>2, <1>7, <2>3 DEF Falling
  <2> QED BY <2>2, <2>3, <2>4
<1> DEFINE high == [m \in Nodes |-> IF m \in U THEN rank[m] ELSE rank[m] + (N + 1)]
<1> HIDE DEF U
<1>11. \A m \in Nodes : rank[m] \in 0..N
  BY <1>2
<1>12. high \in [Nodes -> 0..(N + (N + 1))]
  BY <1>2, <1>11
<1>13. high \in [Nodes -> Nat]
  BY <1>2, <1>11
<1>14. ASSUME NEW m \in Inner, NEW i \in DOMAIN k[m] PROVE high[k[m][i]] < high[m]
  <2>1. PICK c \in Nodes : c = k[m][i]
    BY <1>4, KidsTyped
  <2>2. m \in Nodes
    BY NodesApart
  <2>3. rank[c] \in 0..N /\ rank[m] \in 0..N
    BY <1>11, <2>2
  <2>4. CASE m = n
    <3>1. c \in U /\ m \notin U
      BY <1>3, <1>8, <1>10, <2>1, <2>4
    <3>2. high[c] = rank[c] /\ high[m] = rank[m] + (N + 1)
      BY <2>2, <3>1
    <3> QED BY <1>2, <2>1, <2>3, <3>2
  <2>5. CASE m # n
    <3>1. k[m] = kids[m]
      BY <1>3, <2>5
    <3>2. rank[c] < rank[m]
      BY <1>2, <2>1, <3>1 DEF Falling
    <3>3. m \in U => c \in U
      BY <1>9, <2>1, <3>1
    <3> QED BY <1>2, <2>1, <2>2, <2>3, <3>2, <3>3
  <2> QED BY <2>4, <2>5
<1>15. Falling(k, high)
  <2> HIDE DEF high
  <2> QED BY <1>13, <1>14 DEF Falling
<1>16. N + (N + 1) \in Nat
  BY <1>2
<1>17. Tree(k, N + (N + 1), high)
  <2> HIDE DEF high
  <2> QED BY <1>4, <1>6, <1>12, <1>15, <1>16 DEF Tree
<1> QED BY <1>3, <1>17 DEF IsTree, ChangedAt

(* An array of a tree is one that can stay. *)
Distinct(s, l) ==
    /\ s \in Seq(Leaves \cup Inters) /\ l \in Nat /\ l = Len(s) /\ DOMAIN s = 1..l
    /\ \A i \in 1..l, j \in 1..l : s[i] = s[j] => i = j
    /\ \A x : x \in ToSet(s) <=> \E i \in 1..l : x = s[i]

LEMMA StaysThere ==
  ASSUME IsTree(kids), NEW n \in Inner
  PROVE  Distinct(kids[n], Len(kids[n]))
<1>1. Typed(kids) /\ HeldOnce(kids)
  BY DEF IsTree, Tree
<1>2. /\ kids[n] \in Seq(Leaves \cup Inters)
      /\ DOMAIN kids[n] = 1..Len(kids[n]) /\ Len(kids[n]) \in Nat
  BY <1>1, KidsTyped
<1> QED BY <1>1, <1>2 DEF HeldOnce, ToSet, Distinct

LEMMA RemoveEdit ==
  ASSUME IsTree(kids), NEW n \in Inner, NEW i \in DOMAIN kids[n]
  PROVE  MayBecome(n, RemoveAt(kids[n], i))
<1>s. PICK s : s = kids[n]
  OBVIOUS
<1>l. PICK l : l = Len(s)
  OBVIOUS
<1>d. Distinct(s, l)
  BY <1>s, <1>l, StaysThere
<1>1. s = kids[n] /\ l = Len(s) /\ l \in Nat /\ Distinct(s, l)
  BY <1>s, <1>l, <1>d DEF Distinct
<1>2. /\ s \in Seq(Leaves \cup Inters) /\ i \in 1..l
      /\ \A p \in 1..l, q \in 1..l : s[p] = s[q] => p = q
      /\ \A x : x \in ToSet(s) <=> \E p \in 1..l : x = s[p]
  BY <1>1 DEF Distinct
<1>3. PICK t : t = RemoveAt(s, i)
  OBVIOUS
<1>4. /\ t \in Seq(Leaves \cup Inters) /\ Len(t) = l - 1
      /\ \A j \in 1..(l - 1) : t[j] = IF j < i THEN s[j] ELSE s[j + 1]
  <2>1. i \in 1..Len(s)
    BY <1>1, <1>2
  <2>2. /\ t \in Seq(Leaves \cup Inters) /\ Len(t) = Len(s) - 1
        /\ \A j \in 1..(Len(s) - 1) : t[j] = IF j < i THEN s[j] ELSE s[j + 1]
    BY <1>2, <1>3, <2>1, RemoveAtFacts
  <2> QED BY <1>1, <2>2
<1>5. DOMAIN t = 1..(l - 1)
  BY <1>4, LenProperties
<1>6. ASSUME NEW p \in 1..(l - 1), NEW q \in 1..(l - 1), t[p] = t[q] PROVE p = q
  <2>1. p \in 1..l /\ p + 1 \in 1..l /\ q \in 1..l /\ q + 1 \in 1..l
    BY <1>1
  <2>2. PICK a, b \in 1..l : /\ a = IF p < i THEN p ELSE p + 1
                             /\ b = IF q < i THEN q ELSE q + 1
    BY <2>1
  <2>3. t[p] = s[a] /\ t[q] = s[b]
    BY <1>4, <2>2
  <2>4. a = b
    BY <1>2, <1>6, <2>3
  <2> QED BY <1>2, <2>2, <2>4
<1>7. ASSUME NEW p \in 1..(l - 1) PROVE t[p] \in ToSet(s)
  <2>1. p \in 1..l /\ p + 1 \in 1..l
    BY <1>1
  <2> QED BY <1>2, <1>4, <2>1
<1> QED BY <1>1, <1>3, <1>4, <1>5, <1>6, <1>7 DEF MayBecome

LEMMA InsertEdit ==
  ASSUME IsTree(kids), NEW n \in Inner, NEW i \in 1..(Len(kids[n]) + 1),
         NEW new \in Leaves \cup Inters, MayAdd(n, new)
  PROVE  MayBecome(n, InsertAt(kids[n], i, new))
<1>s. PICK s : s = kids[n]
  OBVIOUS
<1>l. PICK l : l = Len(s)
  OBVIOUS
<1>d. Distinct(s, l)
  BY <1>s, <1>l, StaysThere
<1>1. s = kids[n] /\ l = Len(s) /\ l \in Nat /\ Distinct(s, l)
  BY <1>s, <1>l, <1>d DEF Distinct
<1>2. /\ s \in Seq(Leaves \cup Inters) /\ i \in 1..(l + 1)
      /\ \A p \in 1..l, q \in 1..l : s[p] = s[q] => p = q
      /\ \A x : x \in ToSet(s) <=> \E p \in 1..l : x = s[p]
  BY <1>1 DEF Distinct
<1>3. new \notin ToSet(s)
  BY <1>1 DEF MayAdd, IsFree
<1>4. PICK t : t = InsertAt(s, i, new)
  OBVIOUS
<1>5. t \in Seq(Leaves \cup Inters) /\ Len(t) = l + 1 /\ t = InsertedSeq(s, l, i, new)
  <2>1. PICK S : S = Leaves \cup Inters
    OBVIOUS
  <2>2. s \in Seq(S) /\ l \in Nat /\ l = Len(s) /\ i \in 1..(l + 1) /\ new \in S
    BY <1>1, <1>2, <2>1
  <2>3. /\ InsertAt(s, i, new) \in Seq(S) /\ Len(InsertAt(s, i, new)) = l + 1
        /\ InsertAt(s, i, new) = InsertedSeq(s, l, i, new)
    BY <2>2, InsertAtFacts, SMTT(60)
  <2> QED BY <1>4, <2>1, <2>3
<1>6. \A j \in 1..(l + 1) : t[j] = IF j < i THEN s[j] ELSE IF j = i THEN new ELSE s[j - 1]
  BY <1>5 DEF InsertedSeq
<1>7. DOMAIN t = 1..(l + 1)
  BY <1>5, LenProperties
<1>8. \A p \in 1..(l + 1) : (p < i => p \in 1..l) /\ (p # i /\ ~(p < i) => p - 1 \in 1..l)
  BY <1>1, <1>2
<1>9. ASSUME NEW p \in 1..(l + 1) PROVE t[p] = new \/ t[p] \in ToSet(s)
  BY <1>2, <1>6, <1>8
<1>10. ASSUME NEW p \in 1..(l + 1), NEW q \in 1..(l + 1), t[p] = t[q] PROVE p = q
  <2>1. \A j \in 1..l : s[j] # new
    BY <1>2, <1>3
  <2>2. CASE p = i \/ q = i
    BY <1>6, <1>8, <1>10, <2>1, <2>2
  <2>3. CASE p # i /\ q # i
    <3>1. PICK a, b \in 1..l : /\ a = IF p < i THEN p ELSE p - 1
                               /\ b = IF q < i THEN q ELSE q - 1
      BY <1>8, <2>3
    <3>2. t[p] = s[a] /\ t[q] = s[b]
      BY <1>6, <2>3, <3>1
    <3>3. a = b
      BY <1>2, <1>10, <3>2
    <3> QED BY <1>2, <2>3, <3>1, <3>3
  <2> QED BY <2>2, <2>3
<1> QED BY <1>1, <1>4, <1>5, <1>7, <1>9, <1>10 DEF MayBecome

LEMMA ReplaceEdit ==
  ASSUME IsTree(kids), NEW n \in Inner, NEW i \in DOMAIN kids[n],
         NEW new \in Leaves \cup Inters, MayAdd(n, new)
  PROVE  MayBecome(n, ReplaceAt(kids[n], i, new))
<1>s. PICK s : s = kids[n]
  OBVIOUS
<1>l. PICK l : l = Len(s)
  OBVIOUS
<1>d. Distinct(s, l)
  BY <1>s, <1>l, StaysThere
<1>1. s = kids[n] /\ l = Len(s) /\ l \in Nat /\ Distinct(s, l)
  BY <1>s, <1>l, <1>d DEF Distinct
<1>2. /\ s \in Seq(Leaves \cup Inters) /\ i \in 1..l
      /\ \A p \in 1..l, q \in 1..l : s[p] = s[q] => p = q
      /\ \A x : x \in ToSet(s) <=> \E p \in 1..l : x = s[p]
  BY <1>1 DEF Distinct
<1>3. new \notin ToSet(s)
  BY <1>1 DEF MayAdd, IsFree
<1>4. PICK t : t = ReplaceAt(s, i, new)
  OBVIOUS
<1>5. t \in Seq(Leaves \cup Inters) /\ DOMAIN t = 1..l /\ \A j \in 1..l : t[j] = IF j = i THEN new ELSE s[j]
  BY <1>1, <1>2, <1>4 DEF ReplaceAt
<1>6. ASSUME NEW p \in 1..l PROVE t[p] = new \/ t[p] \in ToSet(s)
  BY <1>2, <1>5
<1>7. ASSUME NEW p \in 1..l, NEW q \in 1..l, t[p] = t[q] PROVE p = q
  <2>1. \A j \in 1..l : s[j] # new
    BY <1>2, <1>3
  <2> QED BY <1>2, <1>5, <1>7, <2>1
<1> QED BY <1>1, <1>4, <1>5, <1>6, <1>7 DEF MayBecome

-----------------------------------------------------------------------------
(* Places below a node. *)

LEMMA MinFacts ==
  ASSUME NEW S, S \subseteq Nat, S # {}
  PROVE  Min(S) \in S /\ \A x \in S : Min(S) <= x
<1>1. PICK m \in S : \A k \in S : m <= k
  BY LeastNat
<1> QED BY <1>1, Zenon DEF Min

(* The pages in front of a child, and in front of the next. *)
Fronts(k, size, n, l) ==
    /\ Before(k, size, n, 1) = 0
    /\ \A i \in 1..(l + 1) : Before(k, size, n, i) \in Nat
    /\ \A i \in 1..l : Before(k, size, n, i + 1) = Before(k, size, n, i) + size[k[n][i]]
    /\ SumFunction([i \in DOMAIN k[n] |-> size[k[n][i]]]) = Before(k, size, n, l + 1)

LEMMA FrontsHold ==
  ASSUME NEW k, Typed(k), NEW size \in [Nodes -> Nat], NEW n \in Inner,
         NEW l \in Nat, l = Len(k[n])
  PROVE  Fronts(k, size, n, l)
<1>1. DOMAIN k[n] = 1..l /\ \A i \in 1..l : k[n][i] \in Nodes /\ size[k[n][i]] \in Nat
  BY KidsTyped
<1> DEFINE g(i) == [j \in 1..(i - 1) |-> size[k[n][j]]]
<1>2. \A i : Before(k, size, n, i) = SumFunction(g(i))
  BY DEF Before
<1>3. \A i \in 1..(l + 1) : i - 1 \in Nat /\ g(i) \in [1..(i - 1) -> Nat] /\ g(i) \in [1..(i - 1) -> Int]
  BY <1>1
<1>4. Before(k, size, n, 1) = 0
  <2>1. 1 \in 1..(l + 1) /\ 1 - 1 = 0
    OBVIOUS
  <2>2. g(1) \in [1..0 -> Int]
    BY <1>3, <2>1
  <2> HIDE DEF g
  <2>3. SumFunction(g(1)) = 0
    BY <2>2, SumLast
  <2> QED BY <1>2, <2>3
<1>5. ASSUME NEW i \in 1..(l + 1) PROVE Before(k, size, n, i) \in Nat
  <2>1. PICK m \in Nat : m = i - 1
    BY <1>3
  <2>2. g(i) \in [1..m -> Nat]
    BY <1>3, <2>1
  <2> HIDE DEF g
  <2> QED BY <1>2, <2>1, <2>2, SumNat
<1>6. ASSUME NEW i \in 1..l
      PROVE  Before(k, size, n, i + 1) = Before(k, size, n, i) + size[k[n][i]]
  <2>1. i + 1 \in 1..(l + 1) /\ i \in 1..(l + 1) /\ i \in Nat /\ i # 0 /\ (i + 1) - 1 = i
    OBVIOUS
  <2>2. g(i + 1) \in [1..i -> Int]
    BY <1>3, <2>1
  <2>3. g(i + 1)[i] = size[k[n][i]]
    BY <2>1
  <2>4. [j \in 1..(i - 1) |-> g(i + 1)[j]] = g(i)
    <3>1. \A j \in 1..(i - 1) : j \in 1..((i + 1) - 1)
      OBVIOUS
    <3> QED BY <3>1
  <2> HIDE DEF g
  <2>5. SumFunction(g(i + 1)) = g(i + 1)[i] + SumFunction([j \in 1..(i - 1) |-> g(i + 1)[j]])
    BY <2>1, <2>2, SumLast
  <2>6. SumFunction(g(i + 1)) = size[k[n][i]] + SumFunction(g(i))
    BY <2>3, <2>4, <2>5
  <2>7. SumFunction(g(i)) \in Nat
    BY <1>2, <1>5, <2>1
  <2> QED BY <1>1, <1>2, <2>6, <2>7
<1>7. SumFunction([i \in DOMAIN k[n] |-> size[k[n][i]]]) = Before(k, size, n, l + 1)
  <2>1. (l + 1) - 1 = l
    OBVIOUS
  <2>2. [i \in DOMAIN k[n] |-> size[k[n][i]]] = g(l + 1)
    BY <1>1, <2>1
  <2> QED BY <1>2, <2>2
<1> QED BY <1>4, <1>5, <1>6, <1>7 DEF Fronts

(* More is in front of a later child. *)
LEMMA FrontsGrow ==
  ASSUME NEW k, Typed(k), NEW size \in [Nodes -> Nat], NEW n \in Inner,
         NEW l \in Nat, l = Len(k[n])
  PROVE  \A i \in 1..(l + 1), j \in 1..(l + 1) :
            i <= j => Before(k, size, n, i) <= Before(k, size, n, j)
<1>1. Fronts(k, size, n, l)
  BY FrontsHold
<1>2. \A i \in 1..l : size[k[n][i]] \in Nat
  BY KidsTyped
<1> SUFFICES ASSUME NEW i \in 1..(l + 1)
             PROVE  \A j \in 1..(l + 1) : i <= j => Before(k, size, n, i) <= Before(k, size, n, j)
  OBVIOUS
<1> DEFINE X == {j \in 0..(l + 1) : i <= j => Before(k, size, n, i) <= Before(k, size, n, j)}
<1>3. 0 \in X
  OBVIOUS
<1>4. ASSUME NEW j \in 0..l, j \in X PROVE j + 1 \in X
  <2>1. CASE i = j + 1
    BY <1>1, <2>1 DEF Fronts
  <2>2. CASE i > j + 1
    BY <2>2
  <2>3. CASE i <= j
    <3>1. j \in 1..l
      BY <2>3
    <3>2. Before(k, size, n, j + 1) = Before(k, size, n, j) + size[k[n][j]]
      BY <1>1, <3>1 DEF Fronts
    <3>3. Before(k, size, n, j) \in Nat /\ Before(k, size, n, i) \in Nat
      BY <1>1, <3>1 DEF Fronts
    <3> QED BY <1>2, <1>4, <2>3, <3>1, <3>2, <3>3
  <2> QED BY <2>1, <2>2, <2>3
<1> HIDE DEF X
<1>5. PICK m \in Nat : m = l + 1
  OBVIOUS
<1>6. \A j \in 0..(m - 1) : j \in X => j + 1 \in X
  BY <1>4, <1>5
<1>7. \A j \in 0..m : j \in X
  BY <1>3, <1>6, UpTo0
<1> QED BY <1>5, <1>7 DEF X

-----------------------------------------------------------------------------
(* The pages below a node, in their order. *)

OrderOf(f, k, n) ==
    IF n \in Leaves THEN <<n>> ELSE FlattenSeq([i \in DOMAIN k[n] |-> f[k[n][i]]])

Orders(f, k) == f = [n \in Nodes |-> OrderOf(f, k, n)]

(* The orders below all nodes. *)
OrderBelow(k) == CHOOSE f : Orders(f, k)

LEMMA PageOrderIs ==
  ASSUME NEW r, NEW k
  PROVE  PageOrder(r, k) = IF r = NoNode THEN <<>> ELSE OrderBelow(k)[r]
BY DEF PageOrder, Orders, OrderOf, OrderBelow

LEMMA OrderOfSame ==
  ASSUME NEW k, NEW n \in Inner, NEW f, NEW g, \A i \in DOMAIN k[n] : f[k[n][i]] = g[k[n][i]]
  PROVE  OrderOf(f, k, n) = OrderOf(g, k, n)
<1>1. [i \in DOMAIN k[n] |-> f[k[n][i]]] = [i \in DOMAIN k[n] |-> g[k[n][i]]]
  OBVIOUS
<1> QED BY <1>1, Zenon DEF OrderOf

LEMMA OrdersExist ==
  ASSUME NEW k, IsTree(k)
  PROVE  Orders(OrderBelow(k), k)
<1>0. PICK N, rank : Tree(k, N, rank)
  BY DEF IsTree
<1>a. Typed(k) /\ N \in Nat /\ rank \in [Nodes -> 0..N] /\ Falling(k, rank)
  BY <1>0 DEF Tree
<1> DEFINE Upto(f, j) == f = [n \in Nodes |-> IF rank[n] < j THEN OrderOf(f, k, n) ELSE 0]
<1> DEFINE Good == {j \in 0..(N + 1) : \E f : Upto(f, j)}
<1>1. 0 \in Good
  <2> DEFINE f == [n \in Nodes |-> 0]
  <2>1. \A n \in Nodes : ~(rank[n] < 0)
    BY <1>a
  <2>2. Upto(f, 0)
    BY <2>1
  <2> QED BY <1>a, <2>2
<1>2. ASSUME NEW j \in 0..N, j \in Good PROVE j + 1 \in Good
  <2>0. \A n \in Nodes : rank[n] \in 0..N
    BY <1>a
  <2>1. PICK f : Upto(f, j)
    BY <1>2
  <2> DEFINE g == [n \in Nodes |-> IF rank[n] < j + 1 THEN OrderOf(f, k, n) ELSE 0]
  <2>2. \A n \in Nodes : rank[n] < j => f[n] = OrderOf(f, k, n)
    BY <2>1
  <2>3. ASSUME NEW n \in Nodes, rank[n] < j PROVE g[n] = f[n]
    <3>1. rank[n] < j + 1
      BY <1>a, <2>0, <2>3
    <3> QED BY <2>2, <2>3, <3>1
  <2>g. g = [n \in Nodes |-> IF rank[n] < j + 1 THEN OrderOf(f, k, n) ELSE 0]
    OBVIOUS
  <2> HIDE DEF g
  <2>4. ASSUME NEW n \in Nodes, rank[n] < j + 1
        PROVE  OrderOf(f, k, n) = OrderOf(g, k, n)
    <3>1. CASE n \in Leaves
      BY <3>1 DEF OrderOf
    <3>2. CASE n \in Inner
      <4>1. ASSUME NEW i \in DOMAIN k[n] PROVE g[k[n][i]] = f[k[n][i]]
        <5>1. k[n][i] \in Nodes /\ rank[k[n][i]] < rank[n]
          BY <1>a, <3>2, KidsTyped DEF Falling
        <5>2. rank[k[n][i]] < j
          BY <1>a, <2>0, <2>4, <5>1
        <5> QED BY <2>3, <5>1, <5>2
      <4> QED BY <3>2, <4>1, OrderOfSame
    <3> QED BY <3>1, <3>2, NodesApart
  <2>5. g = [n \in Nodes |-> IF rank[n] < j + 1 THEN OrderOf(g, k, n) ELSE 0]
    BY <2>g, <2>4
  <2>6. j + 1 \in 0..(N + 1)
    BY <1>a
  <2> QED BY <2>5, <2>6
<1>3. N + 1 \in Good
  <2> HIDE DEF Good
  <2>1. PICK M \in Nat : M = N + 1
    BY <1>a
  <2>2. \A j \in 0..(M - 1) : j \in Good => j + 1 \in Good
    BY <1>2, <1>a, <2>1
  <2>3. \A j \in 0..M : j \in Good
    BY <1>1, <2>2, UpTo0
  <2> QED BY <2>1, <2>3
<1>4. PICK f : Upto(f, N + 1)
  BY <1>3
<1>5. \A n \in Nodes : rank[n] < N + 1
  BY <1>a
<1>6. Orders(f, k)
  BY <1>4, <1>5 DEF Orders
<1> QED BY <1>6 DEF OrderBelow

(* Sequences joined, by their places: off is what is in front of each. *)
Joined(t, ss, off, l) ==
    /\ Len(t) = off[l + 1]
    /\ \A i \in 1..l : \A p \in 1..Len(ss[i]) : t[off[i] + p] = ss[i][p]

(* What does not fall from one to the next does not fall further on. *)
LEMMA GrowsFrom ==
  ASSUME NEW l \in Nat, NEW off \in [1..(l + 1) -> Nat], \A i \in 1..l : off[i] <= off[i + 1],
         NEW i \in 1..(l + 1), NEW j \in 1..(l + 1), i <= j
  PROVE  off[i] <= off[j]
<1> DEFINE Y == {b \in 0..(l + 1) : i <= b => off[i] <= off[b]}
<1>1. 0 \in Y
  OBVIOUS
<1>2. ASSUME NEW b \in 0..l, b \in Y PROVE b + 1 \in Y
  <2>1. CASE i <= b
    <3>1. b \in 1..l /\ b + 1 \in 1..(l + 1)
      BY <2>1
    <3>2. off[b] <= off[b + 1] /\ off[i] <= off[b]
      BY <1>2, <2>1, <3>1
    <3>3. off[i] \in Nat /\ off[b] \in Nat /\ off[b + 1] \in Nat
      <4> HIDE DEF Y
      <4>1. b \in 1..(l + 1)
        BY <3>1
      <4> QED BY <3>1, <4>1, Zenon
    <3>4. off[i] <= off[b + 1]
      BY <3>2, <3>3
    <3> QED BY <3>4
  <2>2. CASE ~(i <= b)
    <3>1. i <= b + 1 => i = b + 1
      BY <2>2
    <3>2. i <= b + 1 => off[i] <= off[b + 1]
      BY <3>1
    <3> QED BY <3>2
  <2> QED BY <2>1, <2>2
<1> HIDE DEF Y
<1>3. l + 1 \in Nat /\ \A b \in 0..((l + 1) - 1) : b \in 0..l
  OBVIOUS
<1>4. \A b \in 0..(l + 1) : b \in Y
  BY <1>1, <1>2, <1>3, UpTo0
<1>5. j \in 0..(l + 1)
  OBVIOUS
<1> QED BY <1>4, <1>5 DEF Y

LEMMA FlattenAt ==
  ASSUME NEW S, NEW l \in Nat, NEW ss \in Seq(Seq(S)), Len(ss) = l,
         NEW off \in [1..(l + 1) -> Nat], off[1] = 0,
         \A i \in 1..l : off[i + 1] = off[i] + Len(ss[i])
  PROVE  FlattenSeq(ss) \in Seq(S) /\ Joined(FlattenSeq(ss), ss, off, l)
<1>1. CASE l = 0
  <2>1. ss = <<>> /\ FlattenSeq(ss) = <<>>
    BY <1>1, EmptySeq, FlattenFacts
  <2>2. Len(<<>>) = 0 /\ <<>> \in Seq(S) /\ l + 1 = 1
    BY <1>1, EmptySeq
  <2>3. \A i \in 1..l : FALSE
    BY <1>1
  <2> QED BY <2>1, <2>2, <2>3 DEF Joined
<1>2. CASE l # 0
  <2>1. l \in Nat \ {0}
    BY <1>2
  <2>2. PICK f \in [1..l -> Seq(S)] : Flattens(f, l, ss)
    BY <2>1, FlattensExists
  <2>3. FlattenSeq(ss) = f[l]
    BY <2>1, <2>2, FlattenIs
  <2>4. f[1] = ss[1] /\ \A i \in 2..l : f[i] = f[i - 1] \o ss[i]
    BY <2>2 DEF Flattens
  <2>5. \A i \in 1..l : ss[i] \in Seq(S) /\ Len(ss[i]) \in Nat
    BY ElementOfSeq, LenProperties
  <2>0. \A i \in 1..l : off[i] <= off[i + 1]
    <3> SUFFICES ASSUME NEW i \in 1..l PROVE off[i] <= off[i + 1]
      OBVIOUS
    <3>1. Len(ss[i]) \in Nat /\ off[i] \in Nat /\ off[i + 1] = off[i] + Len(ss[i])
      BY <2>5
    <3> QED BY <3>1
  <2> DEFINE Upto(j) == /\ Len(f[j]) = off[j + 1]
                        /\ \A i \in 1..j : \A p \in 1..Len(ss[i]) : f[j][off[i] + p] = ss[i][p]
  <2> DEFINE X == {j \in 0..l : j # 0 => Upto(j)}
  <2>6. 0 \in X
    OBVIOUS
  <2>7. ASSUME NEW j \in 0..(l - 1), j \in X PROVE j + 1 \in X
    <3>1. PICK a \in Nat : a = j + 1 /\ a \in 1..l
      OBVIOUS
    <3>2. off[a + 1] = off[a] + Len(ss[a]) /\ off[a] \in Nat /\ off[a + 1] \in Nat
      BY <3>1
    <3>3. CASE j = 0
      <4>1. f[a] = ss[a] /\ off[a] = 0 /\ 1..a = {a}
        BY <2>4, <3>1, <3>3
      <4>2. Len(f[a]) = off[a + 1]
        BY <2>5, <3>1, <3>2, <4>1
      <4>3. \A p \in 1..Len(ss[a]) : off[a] + p = p
        BY <2>5, <3>1, <4>1
      <4>4. Upto(a)
        BY <4>1, <4>2, <4>3
      <4>20. a \in 0..l
        BY <3>1
      <4>21. a \in X
        <5> HIDE DEF Upto
        <5> QED BY <4>4, <4>20
      <4> HIDE DEF X
      <4> QED BY <3>1, <4>21
    <3>4. CASE j # 0
      <4>1. j \in 1..l /\ a \in 2..l /\ a - 1 = j
        BY <3>1, <3>4
      <4>2. f[a] = f[j] \o ss[a]
        BY <2>4, <4>1
      <4>3. Len(f[j]) = off[a] /\ \A i \in 1..j : \A p \in 1..Len(ss[i]) : f[j][off[i] + p] = ss[i][p]
        BY <2>7, <3>1, <3>4
      <4>4. PICK u, w \in Seq(S) : u = f[j] /\ w = ss[a]
        BY <2>5, <3>1, <4>1
      <4>5. /\ Len(f[a]) = off[a] + Len(w)
            /\ \A q \in 1..(off[a] + Len(w)) :
                  f[a][q] = IF q <= off[a] THEN u[q] ELSE w[q - off[a]]
        <5>1. /\ Len(u \o w) = Len(u) + Len(w)
              /\ \A q \in 1..(Len(u) + Len(w)) :
                    (u \o w)[q] = IF q <= Len(u) THEN u[q] ELSE w[q - Len(u)]
          BY ConcatProperties
        <5> QED BY <4>2, <4>3, <4>4, <5>1, ZenonT(60)
      <4>6. Len(f[a]) = off[a + 1]
        BY <3>2, <4>4, <4>5
      <4>7. ASSUME NEW i \in 1..a, NEW p \in 1..Len(ss[i]) PROVE f[a][off[i] + p] = ss[i][p]
        <5>1. Len(ss[a]) \in Nat /\ Len(w) = Len(ss[a])
          BY <2>5, <3>1, <4>4
        <5>2. CASE i = a
          <6>1. /\ off[a] + p \in 1..(off[a] + Len(w)) /\ ~(off[a] + p <= off[a])
                /\ (off[a] + p) - off[a] = p
            <7>1. PICK x, y \in Nat : x = off[a] /\ y = Len(w)
              BY <3>2, <5>1
            <7>2. p \in 1..y
              BY <5>1, <5>2, <7>1
            <7>3. x + p \in 1..(x + y) /\ ~(x + p <= x) /\ (x + p) - x = p
              BY <7>2
            <7> QED BY <7>1, <7>3
          <6> QED BY <4>4, <4>5, <5>2, <6>1
        <5>3. CASE i \in 1..j
          <6>1. i \in 1..l /\ Len(ss[i]) \in Nat /\ off[i] \in Nat
            BY <2>5, <4>1, <5>3, SMTT(60)
          <6>2. off[i + 1] = off[i] + Len(ss[i]) /\ off[i + 1] <= off[a]
            <7>1. i + 1 \in 1..(l + 1) /\ a \in 1..(l + 1) /\ i + 1 <= a
              BY <3>1, <5>3
            <7>2. off[i + 1] <= off[a]
              BY <2>0, <7>1, GrowsFrom
            <7>3. off[i + 1] = off[i] + Len(ss[i])
              BY <6>1
            <7> QED BY <7>2, <7>3
          <6>3. off[i] + p \in 1..(off[a] + Len(w)) /\ off[i] + p <= off[a]
            <7>1. PICK x, y, z, q \in Nat : /\ x = off[a] /\ y = Len(w)
                                           /\ z = off[i] /\ q = Len(ss[i])
              BY <3>2, <5>1, <6>1
            <7>2. p \in 1..q /\ z + q <= x
              BY <6>2, <7>1
            <7>3. z + p \in 1..(x + y) /\ z + p <= x
              BY <7>2
            <7> QED BY <7>1, <7>3
          <6>4. f[a][off[i] + p] = u[off[i] + p]
            BY <4>5, <6>3
          <6>5. f[j][off[i] + p] = ss[i][p]
            BY <4>3, <5>3
          <6> QED BY <4>4, <6>4, <6>5
        <5> QED BY <3>1, <5>2, <5>3
      <4>8. Upto(a)
        BY <4>6, <4>7
      <4>20. a \in 0..l
        BY <3>1
      <4>21. a \in X
        <5> HIDE DEF Upto
        <5> QED BY <4>8, <4>20
      <4> HIDE DEF X
      <4> QED BY <3>1, <4>21
    <3> QED BY <3>3, <3>4
  <2> HIDE DEF X
  <2>8. \A j \in 0..l : j \in X
    BY <2>6, <2>7, UpTo0
  <2>9. Upto(l)
    BY <2>1, <2>8 DEF X
  <2>10. f[l] \in Seq(S)
    BY <2>1
  <2> QED BY <2>3, <2>9, <2>10 DEF Joined
<1> QED BY <1>1, <1>2

(* The order of a node is that of its children, one behind the other. *)
InOrder(k, order, size) ==
    /\ size \in [Nodes -> Nat]
    /\ \A n \in Leaves : order[n] = <<n>> /\ size[n] = 1
    /\ \A n \in Nodes : order[n] \in Seq(Leaves) /\ Len(order[n]) = size[n]
    /\ \A n \in Inner : Fronts(k, size, n, Len(k[n])) /\ size[n] = Before(k, size, n, Len(k[n]) + 1)
    /\ \A n \in Inner : \A i \in DOMAIN k[n] : \A p \in 1..size[k[n][i]] :
          order[n][Before(k, size, n, i) + p] = order[k[n][i]][p]

LEMMA OrderIs ==
  ASSUME NEW k, IsTree(k)
  PROVE  InOrder(k, OrderBelow(k), TrueCount(k))
<1>0. PICK order, size : order = OrderBelow(k) /\ size = TrueCount(k)
  OBVIOUS
<1>1. PICK N, rank : Tree(k, N, rank)
  BY DEF IsTree
<1>2. Typed(k) /\ Falling(k, rank) /\ rank \in [Nodes -> Nat]
  BY <1>1 DEF Tree, Falling
<1>3. Sizes(size, k, NoEntries) /\ Orders(order, k)
  BY <1>0, TrueSizes, OrdersExist
<1>4. DOMAIN NoEntries = {}
  BY DEF NoEntries
<1>5. size \in [Nodes -> Nat]
  BY <1>2, <1>3, <1>4, SizesNat
<1>6. /\ \A n \in Leaves : size[n] = 1
      /\ \A n \in Inner : size[n] = SumFunction([i \in DOMAIN k[n] |-> size[k[n][i]]])
  BY <1>2, <1>3, <1>4, SizesFacts
<1>7. \A n \in Leaves : order[n] = <<n>>
  BY <1>3, NodesApart DEF Orders, OrderOf
<1>8. \A n \in Inner : order[n] = FlattenSeq([i \in DOMAIN k[n] |-> order[k[n][i]]])
  BY <1>3, NodesApart DEF Orders, OrderOf
<1>9. \A n \in Inner : Fronts(k, size, n, Len(k[n]))
  BY <1>2, <1>5, FrontsHold, KidsTyped
<1>10. \A n \in Inner : size[n] = Before(k, size, n, Len(k[n]) + 1)
  BY <1>6, <1>9 DEF Fronts
<1> DEFINE Ok(n) == order[n] \in Seq(Leaves) /\ Len(order[n]) = size[n]
<1> DEFINE At(n) == \A i \in DOMAIN k[n] : \A p \in 1..size[k[n][i]] :
                       order[n][Before(k, size, n, i) + p] = order[k[n][i]][p]
<1>11. ASSUME NEW n \in Inner, \A i \in DOMAIN k[n] : Ok(k[n][i]) PROVE Ok(n) /\ At(n)
  <2>1. PICK l \in Nat : l = Len(k[n]) /\ DOMAIN k[n] = 1..l
    BY <1>2, KidsTyped
  <2>2. PICK ss : ss = [i \in 1..l |-> order[k[n][i]]]
    OBVIOUS
  <2>3. ss \in Seq(Seq(Leaves)) /\ Len(ss) = l /\ \A i \in 1..l : ss[i] = order[k[n][i]]
    <3>1. \A i \in 1..l : order[k[n][i]] \in Seq(Leaves)
      BY <1>11, <2>1
    <3>2. ss \in [1..l -> Seq(Leaves)]
      BY <2>2, <3>1
    <3> QED BY <2>1, <2>2, <3>2
  <2>4. PICK off : off = [i \in 1..(l + 1) |-> Before(k, size, n, i)]
    OBVIOUS
  <2>5. Fronts(k, size, n, l)
    BY <1>9, <2>1
  <2>6. off \in [1..(l + 1) -> Nat] /\ off[1] = 0
    BY <2>4, <2>5 DEF Fronts
  <2>7. ASSUME NEW i \in 1..l PROVE off[i + 1] = off[i] + Len(ss[i])
    <3>1. Len(ss[i]) = size[k[n][i]]
      BY <1>11, <2>1, <2>3
    <3>2. i \in 1..(l + 1) /\ i + 1 \in 1..(l + 1)
      OBVIOUS
    <3> QED BY <2>4, <2>5, <3>1, <3>2 DEF Fronts
  <2>8. PICK t : t = FlattenSeq(ss)
    OBVIOUS
  <2>9. t \in Seq(Leaves) /\ Joined(t, ss, off, l)
    BY <2>1, <2>3, <2>6, <2>7, <2>8, FlattenAt
  <2>10. order[n] = t
    BY <1>8, <2>1, <2>2, <2>8
  <2>11. Ok(n)
    <3>1. l + 1 \in 1..(l + 1)
      BY <2>1
    <3> QED BY <1>10, <2>1, <2>4, <2>9, <2>10, <3>1 DEF Joined
  <2>12. At(n)
    <3>1. ASSUME NEW i \in 1..l, NEW p \in 1..size[k[n][i]]
          PROVE  order[n][Before(k, size, n, i) + p] = order[k[n][i]][p]
      <4>1. Len(ss[i]) = size[k[n][i]]
        BY <1>11, <2>1, <2>3
      <4>2. i \in 1..(l + 1)
        OBVIOUS
      <4>3. t[off[i] + p] = ss[i][p]
        BY <2>9, <4>1 DEF Joined
      <4> QED BY <2>3, <2>4, <2>10, <4>2, <4>3
    <3> QED BY <2>1, <3>1
  <2> QED BY <2>11, <2>12
<1> DEFINE X == {n \in Nodes : Ok(n)}
<1>12. Falls(Nodes, rank, X)
  <2> SUFFICES ASSUME NEW n \in Nodes, \A m \in Nodes : rank[m] < rank[n] => m \in X
               PROVE  Ok(n)
    BY DEF Falls
  <2>1. CASE n \in Leaves
    <3>1. <<n>> \in Seq(Leaves) /\ Len(<<n>>) = 1
      BY <2>1
    <3> QED BY <1>6, <1>7, <2>1, <3>1
  <2>2. CASE n \in Inner
    <3>1. \A i \in DOMAIN k[n] : Ok(k[n][i])
      BY <1>2, <2>2, KidsTyped DEF Falling
    <3> HIDE DEF Ok
    <3> QED BY <1>11, <2>2, <3>1
  <2> QED BY <2>1, <2>2, NodesApart
<1>13. \A n \in Nodes : n \in X
  <2> HIDE DEF X
  <2> QED BY <1>2, <1>12, RankInduction
<1>14. ASSUME NEW n \in Inner PROVE At(n)
  <2>1. \A i \in DOMAIN k[n] : Ok(k[n][i])
    BY <1>2, <1>13, KidsTyped, SMTT(60)
  <2> HIDE DEF Ok, At
  <2> QED BY <1>11, <2>1
<1> QED BY <1>0, <1>5, <1>6, <1>7, <1>9, <1>10, <1>13, <1>14 DEF InOrder

-----------------------------------------------------------------------------
(* findPageDict. *)

Fits(k, size, pos, at) == {i \in DOMAIN k[at[1]] : at[2] + Before(k, size, at[1], i + 1) > pos}

(* What is found below the i-th child. *)
FoundIn(f, k, size, at, i) ==
    IF k[at[1]][i] \in Leaves THEN [leaf |-> k[at[1]][i], asked |-> ToSet(SubSeq(k[at[1]], 1, i))]
    ELSE [f[<<k[at[1]][i], at[2] + Before(k, size, at[1], i)>>]
            EXCEPT !.asked = @ \cup ToSet(SubSeq(k[at[1]], 1, i))]

FindOf(f, k, size, pos, at) ==
    IF Fits(k, size, pos, at) = {} THEN [leaf |-> NoNode, asked |-> ToSet(k[at[1]])]
    ELSE FoundIn(f, k, size, at, Min(Fits(k, size, pos, at)))

Finds(f, k, size, pos) == f = [at \in Inner \X Nat |-> FindOf(f, k, size, pos, at)]

StartOf(f, size, pos) == IF size[root] < pos THEN [leaf |-> NoNode, asked |-> {}] ELSE f[<<root, 1>>]

LEMMA FindPageIs ==
  ASSUME NEW k, NEW c, NEW pos, NEW size, size = KidsCount(k, c),
         NEW f, f = CHOOSE g : Finds(g, k, size, pos)
  PROVE  FindPage(k, c, pos) = [StartOf(f, size, pos) EXCEPT !.asked = @ \cup {root}]
BY DEF FindPage, Finds, FindOf, FoundIn, Fits, StartOf

(* The child that is entered. *)
LEMMA FitsFacts ==
  ASSUME NEW k, Typed(k), NEW size \in [Nodes -> Nat], NEW pos, NEW at \in Inner \X Nat,
         Fits(k, size, pos, at) # {}, NEW i, i = Min(Fits(k, size, pos, at))
  PROVE  /\ at[1] \in Inner /\ at[2] \in Nat
         /\ i \in Fits(k, size, pos, at) /\ \A j \in Fits(k, size, pos, at) : i <= j
         /\ i \in DOMAIN k[at[1]] /\ k[at[1]][i] \in Nodes
         /\ at[2] + Before(k, size, at[1], i) \in Nat
         /\ k[at[1]][i] \notin Leaves =>
              <<k[at[1]][i], at[2] + Before(k, size, at[1], i)>> \in Inner \X Nat
<1>1. at[1] \in Inner /\ at[2] \in Nat
  OBVIOUS
<1>2. PICK n \in Inner, start \in Nat : n = at[1] /\ start = at[2]
  BY <1>1
<1>3. PICK l \in Nat : l = Len(k[n]) /\ DOMAIN k[n] = 1..l
  BY KidsTyped
<1>4. Fits(k, size, pos, at) \subseteq DOMAIN k[n] /\ Fits(k, size, pos, at) \subseteq Nat
  BY <1>2, <1>3 DEF Fits
<1>5. i \in Fits(k, size, pos, at) /\ \A j \in Fits(k, size, pos, at) : i <= j
  BY <1>4, MinFacts
<1>6. i \in DOMAIN k[n] /\ k[n][i] \in Nodes
  BY <1>4, <1>5, KidsTyped
<1>7. Before(k, size, n, i) \in Nat
  <2>1. Fronts(k, size, n, l) /\ i \in 1..(l + 1)
    BY <1>3, <1>6, FrontsHold
  <2> QED BY <2>1 DEF Fronts
<1>8. start + Before(k, size, n, i) \in Nat
  BY <1>7
<1> QED BY <1>1, <1>2, <1>5, <1>6, <1>8, NodesApart

LEMMA FindOfSame ==
  ASSUME NEW k, Typed(k), NEW size \in [Nodes -> Nat], NEW pos, NEW at \in Inner \X Nat,
         NEW f, NEW g,
         \A i \in DOMAIN k[at[1]] : \A s \in Nat :
            k[at[1]][i] \in Inner => f[<<k[at[1]][i], s>>] = g[<<k[at[1]][i], s>>]
  PROVE  FindOf(f, k, size, pos, at) = FindOf(g, k, size, pos, at)
<1>1. CASE Fits(k, size, pos, at) = {}
  BY <1>1 DEF FindOf
<1>2. CASE Fits(k, size, pos, at) # {}
  <2>1. PICK i : i = Min(Fits(k, size, pos, at))
    OBVIOUS
  <2>2. /\ i \in DOMAIN k[at[1]] /\ k[at[1]][i] \in Nodes
        /\ at[2] + Before(k, size, at[1], i) \in Nat
    BY <1>2, <2>1, FitsFacts
  <2>3. PICK c, s : c = k[at[1]][i] /\ s = at[2] + Before(k, size, at[1], i)
    OBVIOUS
  <2>4. c \in Inner => f[<<c, s>>] = g[<<c, s>>]
    BY <2>2, <2>3
  <2>5. c \notin Leaves => c \in Inner
    BY <2>2, <2>3, NodesApart
  <2>6. FoundIn(f, k, size, at, i) = FoundIn(g, k, size, at, i)
    BY <2>3, <2>4, <2>5, Zenon DEF FoundIn
  <2> QED BY <1>2, <2>1, <2>6 DEF FindOf
<1> QED BY <1>1, <1>2

LEMMA FindsExist ==
  ASSUME NEW k, IsTree(k), NEW size \in [Nodes -> Nat], NEW pos
  PROVE  \E f : Finds(f, k, size, pos)
<1>0. PICK N, rank : Tree(k, N, rank)
  BY DEF IsTree
<1>a. Typed(k) /\ N \in Nat /\ rank \in [Nodes -> 0..N] /\ Falling(k, rank)
  BY <1>0 DEF Tree
<1>b. \A n \in Nodes : rank[n] \in 0..N
  BY <1>a
<1>c. \A at \in Inner \X Nat : at[1] \in Inner /\ at[1] \in Nodes /\ rank[at[1]] \in 0..N
  BY <1>b, NodesApart
<1> DEFINE Upto(f, j) ==
      f = [at \in Inner \X Nat |-> IF rank[at[1]] < j THEN FindOf(f, k, size, pos, at) ELSE 0]
<1> DEFINE Good == {j \in 0..(N + 1) : \E f : Upto(f, j)}
<1>1. 0 \in Good
  <2> DEFINE f == [at \in Inner \X Nat |-> 0]
  <2>1. \A at \in Inner \X Nat : ~(rank[at[1]] < 0)
    BY <1>a, <1>c
  <2>2. Upto(f, 0)
    BY <2>1
  <2>3. \E g : Upto(g, 0)
    <3> HIDE DEF f
    <3> QED BY <2>2
  <2> HIDE DEF f
  <2>4. 0 \in 0..(N + 1)
    BY <1>a
  <2> QED BY <2>3, <2>4
<1>2. ASSUME NEW j \in 0..N, j \in Good PROVE j + 1 \in Good
  <2>1. PICK f : Upto(f, j)
    BY <1>2
  <2> DEFINE g == [at \in Inner \X Nat |->
                     IF rank[at[1]] < j + 1 THEN FindOf(f, k, size, pos, at) ELSE 0]
  <2>2. \A at \in Inner \X Nat : rank[at[1]] < j => f[at] = FindOf(f, k, size, pos, at)
    BY <2>1
  <2>3. ASSUME NEW at \in Inner \X Nat, rank[at[1]] < j PROVE g[at] = f[at]
    <3>1. rank[at[1]] < j + 1
      BY <1>a, <1>c, <2>3
    <3> QED BY <2>2, <2>3, <3>1
  <2>g. g = [at \in Inner \X Nat |-> IF rank[at[1]] < j + 1 THEN FindOf(f, k, size, pos, at) ELSE 0]
    OBVIOUS
  <2> HIDE DEF g
  <2>4. ASSUME NEW at \in Inner \X Nat, rank[at[1]] < j + 1
        PROVE  FindOf(f, k, size, pos, at) = FindOf(g, k, size, pos, at)
    <3>1. PICK n \in Inner : n = at[1] /\ rank[n] < j + 1
      BY <1>c, <2>4
    <3>2. ASSUME NEW i \in DOMAIN k[n], NEW s \in Nat, k[n][i] \in Inner
          PROVE  f[<<k[n][i], s>>] = g[<<k[n][i], s>>]
      <4>1. k[n][i] \in Nodes /\ rank[k[n][i]] < rank[n]
        BY <1>a, <3>1, KidsTyped DEF Falling
      <4>2. rank[k[n][i]] < j
        BY <1>a, <1>b, <3>1, <4>1, NodesApart
      <4>3. PICK b : b = <<k[n][i], s>>
        OBVIOUS
      <4>4. b \in Inner \X Nat /\ b[1] = k[n][i]
        BY <3>2, <4>3
      <4> QED BY <2>3, <4>2, <4>3, <4>4
    <3> QED BY <1>a, <3>1, <3>2, FindOfSame
  <2>5. g = [at \in Inner \X Nat |-> IF rank[at[1]] < j + 1 THEN FindOf(g, k, size, pos, at) ELSE 0]
    BY <2>g, <2>4
  <2>6. j + 1 \in 0..(N + 1)
    BY <1>a
  <2> QED BY <2>5, <2>6
<1>3. N + 1 \in Good
  <2> HIDE DEF Good
  <2>1. PICK M \in Nat : M = N + 1
    BY <1>a
  <2>2. \A j \in 0..(M - 1) : j \in Good => j + 1 \in Good
    BY <1>2, <1>a, <2>1
  <2>3. \A j \in 0..M : j \in Good
    BY <1>1, <2>2, UpTo0
  <2> QED BY <2>1, <2>3
<1>4. PICK f : Upto(f, N + 1)
  BY <1>3
<1>5. \A at \in Inner \X Nat : rank[at[1]] < N + 1
  BY <1>a, <1>c
<1>6. Finds(f, k, size, pos)
  BY <1>4, <1>5 DEF Finds
<1> QED BY <1>6

(* It finds a page or nothing, and has counted nodes. *)
Lookup == [leaf : Leaves \cup {NoNode}, asked : SUBSET Nodes]

LEMMA FindsTyped ==
  ASSUME NEW k, IsTree(k), NEW size \in [Nodes -> Nat], NEW pos, NEW f, Finds(f, k, size, pos)
  PROVE  \A n \in Inner, start \in Nat : f[<<n, start>>] \in Lookup
<1>0. PICK N, rank : Tree(k, N, rank)
  BY DEF IsTree
<1>a. Typed(k) /\ rank \in [Nodes -> Nat] /\ Falling(k, rank)
  BY <1>0 DEF Tree, Falling
<1> DEFINE X == {n \in Nodes : n \in Inner => \A start \in Nat : f[<<n, start>>] \in Lookup}
<1>1. Falls(Nodes, rank, X)
  <2> SUFFICES ASSUME NEW n \in Nodes, \A m \in Nodes : rank[m] < rank[n] => m \in X, n \in Inner,
                      NEW start \in Nat
               PROVE  f[<<n, start>>] \in Lookup
    BY DEF Falls
  <2>0. PICK at : at = <<n, start>>
    OBVIOUS
  <2>1. at \in Inner \X Nat /\ at = <<n, start>> /\ at[1] = n /\ at[2] = start
    BY <2>0
  <2>2. f[at] = FindOf(f, k, size, pos, at)
    BY <2>1 DEF Finds
  <2>3. PICK l \in Nat : DOMAIN k[n] = 1..l /\ l = Len(k[n]) /\ k[n] \in Seq(Leaves \cup Inters)
    BY <1>a, KidsTyped
  <2>4. \A j \in DOMAIN k[n] : k[n][j] \in Nodes
    BY <1>a, KidsTyped
  <2>5. CASE Fits(k, size, pos, at) = {}
    <3>1. ToSet(k[n]) \subseteq Nodes
      BY <2>4 DEF ToSet
    <3> QED BY <2>1, <2>2, <2>5, <3>1 DEF FindOf, Lookup
  <2>6. CASE Fits(k, size, pos, at) # {}
    <3>1. PICK i : i = Min(Fits(k, size, pos, at))
      OBVIOUS
    <3>2. /\ i \in DOMAIN k[at[1]] /\ k[at[1]][i] \in Nodes
          /\ at[2] + Before(k, size, at[1], i) \in Nat
      BY <1>a, <2>1, <2>6, <3>1, FitsFacts
    <3>3. PICK S : S = ToSet(SubSeq(k[n], 1, i))
      OBVIOUS
    <3>4. S \subseteq Nodes
      <4>1. \A j \in 1..i : k[n][j] \in Leaves \cup Inters
        BY <1>a, <2>1, <2>3, <3>2, KidsTyped
      <4>2. 1 \in Int /\ i \in Int
        BY <2>1, <2>3, <3>2
      <4>3. SubSeq(k[n], 1, i) \in Seq(Leaves \cup Inters)
        BY <4>1, <4>2, SubSeqProperties
      <4>4. PICK u \in Seq(Leaves \cup Inters) : u = SubSeq(k[n], 1, i)
        BY <4>3
      <4>5. \A j \in DOMAIN u : u[j] \in Leaves \cup Inters
        BY ElementOfSeq, LenProperties
      <4> QED BY <3>3, <4>4, <4>5, NodesApart DEF ToSet
    <3>5. PICK c, s : c = k[n][i] /\ s = start + Before(k, size, n, i)
      OBVIOUS
    <3>6. c \in Nodes /\ rank[c] < rank[n] /\ s \in Nat
      BY <1>a, <2>1, <3>2, <3>5 DEF Falling
    <3>7. f[at] = IF c \in Leaves THEN [leaf |-> c, asked |-> S] ELSE [f[<<c, s>>] EXCEPT !.asked = @ \cup S]
      BY <2>1, <2>2, <2>6, <3>1, <3>3, <3>5 DEF FindOf, FoundIn
    <3>8. CASE c \in Leaves
      BY <2>1, <3>4, <3>7, <3>8 DEF Lookup
    <3>9. CASE c \in Inner
      <4>1. f[<<c, s>>] \in Lookup
        BY <3>6, <3>9
      <4>2. c \notin Leaves
        BY <3>9, NodesApart
      <4> QED BY <2>1, <3>4, <3>7, <4>1, <4>2 DEF Lookup
    <3> QED BY <3>6, <3>8, <3>9, NodesApart
  <2> QED BY <2>1, <2>5, <2>6
<1> HIDE DEF X
<1>2. \A n \in Nodes : n \in X
  BY <1>a, <1>1, RankInduction
<1> QED BY <1>2, NodesApart DEF X

(* With the right numbers it finds the page at the position. *)
LEMMA FindsRight ==
  ASSUME NEW k, IsTree(k), NEW size, NEW order, InOrder(k, order, size),
         NEW pos \in Nat, NEW f, Finds(f, k, size, pos)
  PROVE  \A n \in Inner, start \in Nat :
            start <= pos /\ pos < start + size[n] =>
              f[<<n, start>>].leaf = order[n][pos - start + 1]
<1>0. PICK N, rank : Tree(k, N, rank)
  BY DEF IsTree
<1>a. Typed(k) /\ rank \in [Nodes -> Nat] /\ Falling(k, rank) /\ size \in [Nodes -> Nat]
  BY <1>0 DEF Tree, Falling, InOrder
<1> DEFINE Found(n) == \A start \in Nat : start <= pos /\ pos < start + size[n] =>
                          f[<<n, start>>].leaf = order[n][pos - start + 1]
<1> DEFINE X == {n \in Nodes : n \in Inner => Found(n)}
<1>1. Falls(Nodes, rank, X)
  <2> SUFFICES ASSUME NEW n \in Nodes, \A m \in Nodes : rank[m] < rank[n] => m \in X, n \in Inner,
                      NEW start \in Nat, start <= pos, pos < start + size[n]
               PROVE  f[<<n, start>>].leaf = order[n][pos - start + 1]
    BY DEF Falls
  <2>0. PICK at : at = <<n, start>>
    OBVIOUS
  <2>1. at \in Inner \X Nat /\ at = <<n, start>> /\ at[1] = n /\ at[2] = start
    BY <2>0
  <2>2. f[at] = FindOf(f, k, size, pos, at)
    BY <2>1 DEF Finds
  <2>3. PICK l \in Nat : DOMAIN k[n] = 1..l /\ l = Len(k[n])
    BY <1>a, KidsTyped
  <2>4. Fronts(k, size, n, l) /\ size[n] = Before(k, size, n, l + 1)
    BY <2>3 DEF InOrder
  <2>5. l # 0
    BY <2>4 DEF Fronts
  <2>6. l \in Fits(k, size, pos, at)
    BY <2>1, <2>3, <2>4, <2>5 DEF Fits
  <2>7. PICK i : i = Min(Fits(k, size, pos, at))
    OBVIOUS
  <2>8. /\ i \in Fits(k, size, pos, at) /\ \A j \in Fits(k, size, pos, at) : i <= j
        /\ i \in DOMAIN k[at[1]] /\ k[at[1]][i] \in Nodes
        /\ at[2] + Before(k, size, at[1], i) \in Nat
    BY <1>a, <2>1, <2>6, <2>7, FitsFacts
  <2>9. i \in 1..l
    BY <2>1, <2>3, <2>8
  <2>10. PICK c \in Nodes : c = k[n][i]
    BY <2>1, <2>8
  <2>11. PICK b \in Nat, d \in Nat : b = Before(k, size, n, i) /\ d = size[c]
    BY <1>a, <2>4, <2>9 DEF Fronts
  <2>12. Before(k, size, n, i + 1) = b + d
    BY <2>4, <2>9, <2>10, <2>11 DEF Fronts
  <2>13. pos < start + (b + d)
    BY <2>1, <2>8, <2>12 DEF Fits
  <2>14. start + b <= pos
    <3>1. CASE i = 1
      BY <2>4, <2>11, <3>1 DEF Fronts
    <3>2. CASE i # 1
      <4>1. i - 1 \in 1..l /\ (i - 1) + 1 = i /\ ~(i <= i - 1)
        BY <2>9, <3>2
      <4>2. i - 1 \notin Fits(k, size, pos, at)
        BY <2>8, <4>1
      <4>3. ~(start + Before(k, size, n, i) > pos)
        BY <2>1, <2>3, <4>1, <4>2 DEF Fits
      <4> QED BY <2>11, <4>3
    <3> QED BY <3>1, <3>2
  <2>15. PICK p \in Nat : p = pos - (start + b) + 1
    BY <2>14
  <2>16. p \in 1..d /\ b + p = pos - start + 1
    BY <2>13, <2>14, <2>15
  <2>17. order[n][b + p] = order[c][p]
    BY <2>1, <2>8, <2>10, <2>11, <2>16, SMTT(60) DEF InOrder
  <2>18. PICK s \in Nat : s = start + b
    OBVIOUS
  <2>19. f[at].leaf = IF c \in Leaves THEN c ELSE f[<<c, s>>].leaf
    <3>1. c \in Leaves => f[at] = [leaf |-> c, asked |-> ToSet(SubSeq(k[n], 1, i))]
      BY <2>1, <2>2, <2>6, <2>7, <2>10 DEF FindOf, FoundIn
    <3>2. c \notin Leaves => f[at] = [f[<<c, s>>] EXCEPT !.asked = @ \cup ToSet(SubSeq(k[n], 1, i))]
      BY <2>1, <2>2, <2>6, <2>7, <2>10, <2>11, <2>18 DEF FindOf, FoundIn
    <3>3. c \notin Leaves => f[<<c, s>>] \in Lookup
      BY <1>a, FindsTyped, NodesApart
    <3> QED BY <3>1, <3>2, <3>3 DEF Lookup
  <2>20. CASE c \in Leaves
    <3>1. d = 1 /\ order[c] = <<c>>
      BY <2>11, <2>20 DEF InOrder
    <3>2. p = 1
      BY <2>16, <3>1
    <3> QED BY <2>1, <2>16, <2>17, <2>19, <2>20, <3>1, <3>2
  <2>21. CASE c \in Inner
    <3>1. rank[c] < rank[n]
      BY <1>a, <2>3, <2>9, <2>10 DEF Falling
    <3>2. s <= pos /\ pos < s + size[c]
      BY <2>11, <2>13, <2>14, <2>18
    <3>3. f[<<c, s>>].leaf = order[c][pos - s + 1]
      BY <2>21, <3>1, <3>2
    <3>4. pos - s + 1 = p
      BY <2>15, <2>18
    <3> QED BY <2>1, <2>16, <2>17, <2>19, <2>21, <3>3, <3>4, NodesApart
  <2> QED BY <2>20, <2>21, NodesApart
<1> HIDE DEF X, Found
<1>2. \A n \in Nodes : n \in X
  BY <1>a, <1>1, RankInduction
<1>3. \A n \in Inner : Found(n)
  BY <1>2, NodesApart DEF X
<1> QED BY <1>3 DEF Found

(* FindPage itself. *)
LEMMA FindPageTyped ==
  ASSUME NEW k, IsTree(k), NEW c, KidsCount(k, c) \in [Nodes -> Nat], root \in Roots, NEW pos
  PROVE  FindPage(k, c, pos) \in Lookup
<1>1. PICK size : size = KidsCount(k, c)
  OBVIOUS
<1>2. PICK f : f = CHOOSE g : Finds(g, k, size, pos)
  OBVIOUS
<1>3. Finds(f, k, size, pos)
  BY <1>1, <1>2, FindsExist
<1>4. root \in Inner /\ root \in Nodes
  BY NodesApart DEF Inner
<1>5. f[<<root, 1>>] \in Lookup
  BY <1>1, <1>3, <1>4, FindsTyped
<1>6. [leaf |-> NoNode, asked |-> {}] \in Lookup
  BY DEF Lookup
<1>7. PICK found \in Lookup : found = StartOf(f, size, pos)
  BY <1>5, <1>6 DEF StartOf
<1>8. FindPage(k, c, pos) = [found EXCEPT !.asked = @ \cup {root}]
  BY <1>1, <1>2, <1>7, FindPageIs
<1> QED BY <1>4, <1>8 DEF Lookup

LEMMA FindPageRight ==
  ASSUME NEW k, IsTree(k), NEW c, KidsCount(k, c) = TrueCount(k), root \in Roots,
         NEW pos \in 1..TrueCount(k)[root]
  PROVE  FindPage(k, c, pos).leaf = OrderBelow(k)[root][pos]
<1>1. PICK size, order : size = TrueCount(k) /\ order = OrderBelow(k)
  OBVIOUS
<1>2. InOrder(k, order, size)
  BY <1>1, OrderIs
<1>3. PICK f : f = CHOOSE g : Finds(g, k, size, pos)
  OBVIOUS
<1>4. size \in [Nodes -> Nat]
  BY <1>2 DEF InOrder
<1>5. Finds(f, k, size, pos)
  BY <1>3, <1>4, FindsExist
<1>6. root \in Inner /\ root \in Nodes
  BY NodesApart DEF Inner
<1>7. PICK z \in Nat : z = size[root]
  BY <1>4, <1>6
<1>8. pos \in 1..z /\ pos \in Nat
  BY <1>1, <1>7
<1>9. 1 <= pos /\ pos < 1 + z /\ pos - 1 + 1 = pos /\ ~(z < pos)
  BY <1>8
<1>10. f[<<root, 1>>].leaf = order[root][pos]
  <2>1. f[<<root, 1>>].leaf = order[root][pos - 1 + 1]
    BY <1>2, <1>5, <1>6, <1>7, <1>8, <1>9, FindsRight
  <2> QED BY <1>9, <2>1
<1>11. f[<<root, 1>>] \in Lookup
  BY <1>4, <1>5, <1>6, FindsTyped
<1>12. FindPage(k, c, pos) = [f[<<root, 1>>] EXCEPT !.asked = @ \cup {root}]
  <2>1. StartOf(f, size, pos) = f[<<root, 1>>]
    BY <1>7, <1>9 DEF StartOf
  <2>2. FindPage(k, c, pos) = [StartOf(f, size, pos) EXCEPT !.asked = @ \cup {root}]
    BY <1>1, <1>3, FindPageIs
  <2> QED BY <2>1, <2>2
<1> QED BY <1>1, <1>10, <1>11, <1>12 DEF Lookup

-----------------------------------------------------------------------------
(* getNodePosition. *)

Hits(k, node, n) == {i \in DOMAIN k[n] : node \in Subtree(k, k[n][i])}

FrontOf(k, n, i) == UNION {Subtree(k, k[n][j]) : j \in 1..(i - 1)}

DeepOf(f, k, node, n, i) == IF k[n][i] = node THEN [pos |-> 1, asked |-> {}] ELSE f[k[n][i]]

EnterAt(f, k, size, node, n, i) ==
    [pos |-> DeepOf(f, k, node, n, i).pos + Before(k, size, n, i),
     asked |-> DeepOf(f, k, node, n, i).asked \cup FrontOf(k, n, i)]

SearchOf(f, k, size, node, n) ==
    IF Hits(k, node, n) = {} THEN [pos |-> 0, asked |-> FrontOf(k, n, Len(k[n]) + 1)]
    ELSE EnterAt(f, k, size, node, n, Min(Hits(k, node, n)))

Searches(f, k, size, node) == f = [n \in Inner |-> SearchOf(f, k, size, node, n)]

LEMMA NodePositionIs ==
  ASSUME NEW k, NEW c, NEW node, NEW size, size = KidsCount(k, c),
         NEW f, f = CHOOSE g : Searches(g, k, size, node)
  PROVE  NodePosition(k, c, node) =
           IF root = NoNode THEN [pos |-> 0, asked |-> {}]
           ELSE IF node = root THEN [pos |-> 1, asked |-> {}]
           ELSE f[root]
BY DEF NodePosition, Searches, SearchOf, EnterAt, DeepOf, FrontOf, Hits

(* The child that is entered. *)
LEMMA HitsFacts ==
  ASSUME NEW k, Typed(k), NEW node, NEW n \in Inner, Hits(k, node, n) # {},
         NEW i, i = Min(Hits(k, node, n))
  PROVE  /\ i \in DOMAIN k[n] /\ k[n][i] \in Nodes
         /\ node \in Subtree(k, k[n][i])
         /\ k[n][i] = node \/ k[n][i] \in Inner
<1>1. PICK l \in Nat : l = Len(k[n]) /\ DOMAIN k[n] = 1..l
  BY KidsTyped
<1>2. Hits(k, node, n) \subseteq Nat
  BY <1>1 DEF Hits
<1>3. i \in Hits(k, node, n)
  BY <1>2, MinFacts
<1>4. i \in DOMAIN k[n] /\ k[n][i] \in Nodes /\ node \in Subtree(k, k[n][i])
  BY <1>3, KidsTyped DEF Hits
<1>5. k[n][i] \in Leaves => k[n][i] = node
  BY <1>4, SubtreeOf
<1> QED BY <1>4, <1>5, NodesApart

LEMMA SearchOfSame ==
  ASSUME NEW k, Typed(k), NEW size, NEW node, NEW n \in Inner, NEW f, NEW g,
         \A i \in DOMAIN k[n] : k[n][i] \in Inner => f[k[n][i]] = g[k[n][i]]
  PROVE  SearchOf(f, k, size, node, n) = SearchOf(g, k, size, node, n)
<1>1. CASE Hits(k, node, n) = {}
  BY <1>1 DEF SearchOf
<1>2. CASE Hits(k, node, n) # {}
  <2>1. PICK i : i = Min(Hits(k, node, n))
    OBVIOUS
  <2>2. i \in DOMAIN k[n] /\ (k[n][i] = node \/ k[n][i] \in Inner)
    BY <1>2, <2>1, HitsFacts
  <2>3. DeepOf(f, k, node, n, i) = DeepOf(g, k, node, n, i)
    BY <2>2 DEF DeepOf
  <2>4. EnterAt(f, k, size, node, n, i) = EnterAt(g, k, size, node, n, i)
    BY <2>3, Zenon DEF EnterAt
  <2> QED BY <1>2, <2>1, <2>4 DEF SearchOf
<1> QED BY <1>1, <1>2

LEMMA SearchesExist ==
  ASSUME NEW k, IsTree(k), NEW size, NEW node
  PROVE  \E f : Searches(f, k, size, node)
<1>0. PICK N, rank : Tree(k, N, rank)
  BY DEF IsTree
<1>a. Typed(k) /\ N \in Nat /\ rank \in [Nodes -> 0..N] /\ Falling(k, rank)
  BY <1>0 DEF Tree
<1>b. \A n \in Nodes : rank[n] \in 0..N
  BY <1>a
<1>c. \A n \in Inner : n \in Nodes /\ rank[n] \in 0..N
  BY <1>b, NodesApart
<1> DEFINE Upto(f, j) ==
      f = [n \in Inner |-> IF rank[n] < j THEN SearchOf(f, k, size, node, n) ELSE 0]
<1> DEFINE Good == {j \in 0..(N + 1) : \E f : Upto(f, j)}
<1>1. 0 \in Good
  <2> DEFINE f == [n \in Inner |-> 0]
  <2>1. \A n \in Inner : ~(rank[n] < 0)
    BY <1>a, <1>c
  <2>2. Upto(f, 0)
    BY <2>1
  <2>3. \E g : Upto(g, 0)
    <3> HIDE DEF f
    <3> QED BY <2>2
  <2> HIDE DEF f
  <2>4. 0 \in 0..(N + 1)
    BY <1>a
  <2> QED BY <2>3, <2>4
<1>2. ASSUME NEW j \in 0..N, j \in Good PROVE j + 1 \in Good
  <2>1. PICK f : Upto(f, j)
    BY <1>2
  <2> DEFINE g == [n \in Inner |-> IF rank[n] < j + 1 THEN SearchOf(f, k, size, node, n) ELSE 0]
  <2>2. \A n \in Inner : rank[n] < j => f[n] = SearchOf(f, k, size, node, n)
    BY <2>1
  <2>3. ASSUME NEW n \in Inner, rank[n] < j PROVE g[n] = f[n]
    <3>1. rank[n] < j + 1
      BY <1>a, <1>c, <2>3
    <3> QED BY <2>2, <2>3, <3>1
  <2>g. g = [n \in Inner |-> IF rank[n] < j + 1 THEN SearchOf(f, k, size, node, n) ELSE 0]
    OBVIOUS
  <2> HIDE DEF g
  <2>4. ASSUME NEW n \in Inner, rank[n] < j + 1
        PROVE  SearchOf(f, k, size, node, n) = SearchOf(g, k, size, node, n)
    <3>1. ASSUME NEW i \in DOMAIN k[n], k[n][i] \in Inner PROVE f[k[n][i]] = g[k[n][i]]
      <4>1. k[n][i] \in Nodes /\ rank[k[n][i]] < rank[n]
        BY <1>a, KidsTyped DEF Falling
      <4>2. rank[k[n][i]] < j
        BY <1>a, <1>b, <1>c, <2>4, <4>1
      <4> QED BY <2>3, <3>1, <4>2
    <3> QED BY <1>a, <3>1, SearchOfSame
  <2>5. g = [n \in Inner |-> IF rank[n] < j + 1 THEN SearchOf(g, k, size, node, n) ELSE 0]
    BY <2>g, <2>4
  <2>6. j + 1 \in 0..(N + 1)
    BY <1>a
  <2> QED BY <2>5, <2>6
<1>3. N + 1 \in Good
  <2> HIDE DEF Good
  <2>1. PICK M \in Nat : M = N + 1
    BY <1>a
  <2>2. \A j \in 0..(M - 1) : j \in Good => j + 1 \in Good
    BY <1>2, <1>a, <2>1
  <2>3. \A j \in 0..M : j \in Good
    BY <1>1, <2>2, UpTo0
  <2> QED BY <2>1, <2>3
<1>4. PICK f : Upto(f, N + 1)
  BY <1>3
<1>5. \A n \in Inner : rank[n] < N + 1
  BY <1>a, <1>c
<1>6. Searches(f, k, size, node)
  BY <1>4, <1>5 DEF Searches
<1> QED BY <1>6

(* It gives a number and nodes that have been counted. *)
Position == [pos : Nat, asked : SUBSET Nodes]

LEMMA FrontOfTyped ==
  ASSUME NEW k, IsTree(k), NEW n \in Inner
  PROVE  \A i \in 1..(Len(k[n]) + 1) : FrontOf(k, n, i) \subseteq Nodes
<1>0. PICK N, rank : Tree(k, N, rank)
  BY DEF IsTree
<1>1. Typed(k) /\ Falling(k, rank)
  BY <1>0 DEF Tree
<1>2. PICK l \in Nat : l = Len(k[n]) /\ DOMAIN k[n] = 1..l
  BY <1>1, KidsTyped
<1>3. ASSUME NEW i \in 1..(l + 1), NEW j \in 1..(i - 1) PROVE Subtree(k, k[n][j]) \subseteq Nodes
  <2>1. j \in 1..l
    OBVIOUS
  <2>2. k[n][j] \in Nodes
    BY <1>1, <1>2, <2>1, KidsTyped
  <2> QED BY <1>1, <2>2, SubtreeClosed
<1> QED BY <1>2, <1>3 DEF FrontOf

LEMMA SearchesTyped ==
  ASSUME NEW k, IsTree(k), NEW size \in [Nodes -> Nat], NEW node, NEW f, Searches(f, k, size, node)
  PROVE  \A n \in Inner : f[n] \in Position
<1>0. PICK N, rank : Tree(k, N, rank)
  BY DEF IsTree
<1>a. Typed(k) /\ rank \in [Nodes -> Nat] /\ Falling(k, rank)
  BY <1>0 DEF Tree, Falling
<1> DEFINE X == {n \in Nodes : n \in Inner => f[n] \in Position}
<1>1. Falls(Nodes, rank, X)
  <2> SUFFICES ASSUME NEW n \in Nodes, \A m \in Nodes : rank[m] < rank[n] => m \in X, n \in Inner
               PROVE  f[n] \in Position
    BY DEF Falls
  <2>1. f[n] = SearchOf(f, k, size, node, n)
    BY DEF Searches
  <2>2. PICK l \in Nat : l = Len(k[n]) /\ DOMAIN k[n] = 1..l
    BY <1>a, KidsTyped
  <2>3. \A i \in 1..(l + 1) : FrontOf(k, n, i) \subseteq Nodes
    BY <2>2, FrontOfTyped
  <2>4. CASE Hits(k, node, n) = {}
    <3>1. l + 1 \in 1..(l + 1)
      OBVIOUS
    <3> QED BY <2>1, <2>2, <2>3, <2>4, <3>1 DEF SearchOf, Position
  <2>5. CASE Hits(k, node, n) # {}
    <3>1. PICK i : i = Min(Hits(k, node, n))
      OBVIOUS
    <3>2. i \in DOMAIN k[n] /\ k[n][i] \in Nodes /\ (k[n][i] = node \/ k[n][i] \in Inner)
      BY <1>a, <2>5, <3>1, HitsFacts
    <3>3. rank[k[n][i]] < rank[n]
      BY <1>a, <3>2 DEF Falling
    <3>4. DeepOf(f, k, node, n, i) \in Position
      <4>1. CASE k[n][i] = node
        BY <4>1 DEF DeepOf, Position
      <4>2. CASE k[n][i] # node
        BY <3>2, <3>3, <4>2 DEF DeepOf
      <4> QED BY <4>1, <4>2
    <3>5. i \in 1..(l + 1)
      BY <2>2, <3>2
    <3>6. Before(k, size, n, i) \in Nat
      <4>1. Fronts(k, size, n, l)
        BY <1>a, <2>2, FrontsHold
      <4> QED BY <3>5, <4>1 DEF Fronts
    <3>7. PICK d \in Position : d = DeepOf(f, k, node, n, i)
      BY <3>4
    <3>8. f[n] = [pos |-> d.pos + Before(k, size, n, i), asked |-> d.asked \cup FrontOf(k, n, i)]
      BY <2>1, <2>5, <3>1, <3>7 DEF SearchOf, EnterAt
    <3>9. d.pos \in Nat /\ d.asked \subseteq Nodes
      BY DEF Position
    <3>10. d.pos + Before(k, size, n, i) \in Nat
      BY <3>6, <3>9
    <3> QED BY <2>3, <3>5, <3>8, <3>9, <3>10 DEF Position
  <2> QED BY <2>4, <2>5
<1> HIDE DEF X
<1>2. \A n \in Nodes : n \in X
  BY <1>a, <1>1, RankInduction
<1> QED BY <1>2, NodesApart DEF X

LEMMA NodePositionTyped ==
  ASSUME NEW k, IsTree(k), NEW c, KidsCount(k, c) \in [Nodes -> Nat], root \in Roots \cup {NoNode},
         NEW node
  PROVE  NodePosition(k, c, node) \in Position
<1>1. PICK size : size = KidsCount(k, c)
  OBVIOUS
<1>2. PICK f : f = CHOOSE g : Searches(g, k, size, node)
  OBVIOUS
<1>3. Searches(f, k, size, node)
  BY <1>2, SearchesExist
<1>4. NodePosition(k, c, node) =
           IF root = NoNode THEN [pos |-> 0, asked |-> {}]
           ELSE IF node = root THEN [pos |-> 1, asked |-> {}]
           ELSE f[root]
  BY <1>1, <1>2, NodePositionIs, ZenonT(60)
<1>5. root # NoNode => f[root] \in Position
  BY <1>1, <1>3, SearchesTyped DEF Inner
<1> QED BY <1>4, <1>5 DEF Position

(* The pages below a node are those of n from the position on. *)
PlacedAt(order, size, n, node, pos) ==
    /\ pos \in Nat /\ 1 <= pos /\ (pos - 1) + size[node] <= size[n]
    /\ \A p \in 1..size[node] : order[n][(pos - 1) + p] = order[node][p]

LEMMA SearchesRight ==
  ASSUME NEW k, IsTree(k), NEW size, NEW order, InOrder(k, order, size), NEW node \in Nodes,
         NEW f, Searches(f, k, size, node)
  PROVE  \A n \in Inner : n # node =>
            IF node \in Subtree(k, n) THEN PlacedAt(order, size, n, node, f[n].pos)
            ELSE f[n].pos = 0
<1>0. PICK N, rank : Tree(k, N, rank)
  BY DEF IsTree
<1>a. Typed(k) /\ rank \in [Nodes -> Nat] /\ Falling(k, rank) /\ size \in [Nodes -> Nat]
  BY <1>0 DEF Tree, Falling, InOrder
<1> DEFINE Ok(n) == IF node \in Subtree(k, n) THEN PlacedAt(order, size, n, node, f[n].pos)
                    ELSE f[n].pos = 0
<1> DEFINE X == {n \in Nodes : n \in Inner /\ n # node => Ok(n)}
<1>1. Falls(Nodes, rank, X)
  <2> SUFFICES ASSUME NEW n \in Nodes, \A m \in Nodes : rank[m] < rank[n] => m \in X, n \in Inner,
                      n # node
               PROVE  Ok(n)
    BY DEF Falls
  <2>1. f[n] = SearchOf(f, k, size, node, n)
    BY DEF Searches
  <2>2. PICK l \in Nat : l = Len(k[n]) /\ DOMAIN k[n] = 1..l
    BY <1>a, KidsTyped
  <2>3. node \in Subtree(k, n) <=> Hits(k, node, n) # {}
    BY <1>a, SubtreeParts DEF Hits
  <2>4. CASE Hits(k, node, n) = {}
    <3>1. f[n].pos = 0
      BY <2>1, <2>4 DEF SearchOf
    <3> QED BY <2>3, <2>4, <3>1
  <2>5. CASE Hits(k, node, n) # {}
    <3>1. PICK i : i = Min(Hits(k, node, n))
      OBVIOUS
    <3>2. /\ i \in DOMAIN k[n] /\ k[n][i] \in Nodes /\ (k[n][i] = node \/ k[n][i] \in Inner)
          /\ node \in Subtree(k, k[n][i])
      BY <1>a, <2>5, <3>1, HitsFacts
    <3>3. PICK c \in Nodes : c = k[n][i] /\ rank[c] < rank[n]
      BY <1>a, <3>2 DEF Falling
    <3>4. Fronts(k, size, n, l) /\ size[n] = Before(k, size, n, l + 1) /\ i \in 1..l
      BY <2>2, <3>2 DEF InOrder
    <3>5. PICK b, d \in Nat : b = Before(k, size, n, i) /\ d = size[c]
      BY <1>a, <3>4 DEF Fronts
    <3>6. b + d <= size[n]
      <4>1. i + 1 \in 1..(l + 1) /\ l + 1 \in 1..(l + 1) /\ i + 1 <= l + 1
        BY <3>4
      <4>2. Before(k, size, n, i + 1) <= Before(k, size, n, l + 1)
        BY <1>a, <2>2, <4>1, FrontsGrow
      <4> QED BY <3>3, <3>4, <3>5, <4>2 DEF Fronts
    <3>7. \A p \in 1..d : order[n][b + p] = order[c][p]
      BY <3>2, <3>3, <3>5 DEF InOrder
    <3>8. f[n].pos = DeepOf(f, k, node, n, i).pos + b
      BY <2>1, <2>5, <3>1, <3>5 DEF SearchOf, EnterAt
    <3>9. PICK q : q = DeepOf(f, k, node, n, i).pos
      OBVIOUS
    <3>10. PlacedAt(order, size, c, node, q)
      <4>1. CASE c = node
        <5>1. q = 1
          BY <3>3, <3>9, <4>1 DEF DeepOf
        <5>2. 1 \in Nat /\ 1 - 1 = 0 /\ \A p \in 1..d : (1 - 1) + p = p
          OBVIOUS
        <5> QED BY <3>5, <4>1, <5>1, <5>2 DEF PlacedAt
      <4>2. CASE c # node
        <5>1. c \in Inner /\ Ok(c)
          BY <3>2, <3>3, <4>2
        <5>2. q = f[c].pos
          BY <3>3, <3>9, <4>2 DEF DeepOf
        <5> QED BY <3>2, <3>3, <5>1, <5>2
      <4> QED BY <4>1, <4>2
    <3>11. PICK e \in Nat : e = size[node]
      BY <1>a
    <3>12. q \in Nat /\ 1 <= q /\ (q - 1) + e <= d
      BY <3>5, <3>10, <3>11 DEF PlacedAt
    <3>13. PICK z \in Nat : z = size[n]
      BY <1>a
    <3>14. q + b \in Nat /\ 1 <= q + b /\ ((q + b) - 1) + e <= z
      BY <3>6, <3>12, <3>13
    <3>15. ASSUME NEW p \in 1..e PROVE order[n][((q + b) - 1) + p] = order[node][p]
      <4>1. (q - 1) + p \in 1..d /\ b + ((q - 1) + p) = ((q + b) - 1) + p
        BY <3>12
      <4>2. order[c][(q - 1) + p] = order[node][p]
        BY <3>10, <3>11 DEF PlacedAt
      <4> QED BY <3>7, <4>1, <4>2
    <3>16. PlacedAt(order, size, n, node, q + b)
      BY <3>11, <3>13, <3>14, <3>15 DEF PlacedAt
    <3> QED BY <2>3, <2>5, <3>8, <3>9, <3>16
  <2> QED BY <2>4, <2>5
<1> HIDE DEF X
<1>2. \A n \in Nodes : n \in X
  BY <1>a, <1>1, RankInduction
<1> QED BY <1>2, NodesApart DEF X

(* The position of a node is that of its first page. *)
LEMMA NodePositionRight ==
  ASSUME NEW k, IsTree(k), NEW c, KidsCount(k, c) = TrueCount(k), root \in Roots, NEW node \in Nodes
  PROVE  IF node \in Subtree(k, root)
         THEN PlacedAt(OrderBelow(k), TrueCount(k), root, node, NodePosition(k, c, node).pos)
         ELSE NodePosition(k, c, node).pos = 0
<1>1. PICK size, order : size = TrueCount(k) /\ order = OrderBelow(k)
  OBVIOUS
<1>2. InOrder(k, order, size)
  BY <1>1, OrderIs
<1>3. PICK f : f = CHOOSE g : Searches(g, k, size, node)
  OBVIOUS
<1>4. Searches(f, k, size, node)
  BY <1>3, SearchesExist
<1>5. root \in Inner /\ root \in Nodes /\ root # NoNode
  BY NodesApart DEF Inner
<1>6. NodePosition(k, c, node) = IF node = root THEN [pos |-> 1, asked |-> {}] ELSE f[root]
  BY <1>1, <1>3, <1>5, NodePositionIs
<1>7. CASE node = root
  <2>1. root \in Subtree(k, root)
    BY <1>5, SubtreeParts DEF IsTree, Tree
  <2>2. NodePosition(k, c, node).pos = 1
    BY <1>6, <1>7
  <2>3. PICK z \in Nat : z = size[root]
    BY <1>2, <1>5 DEF InOrder
  <2>4. 1 \in Nat /\ (1 - 1) + z <= z /\ \A p \in 1..z : (1 - 1) + p = p
    OBVIOUS
  <2>5. PlacedAt(order, size, root, root, 1)
    BY <2>3, <2>4 DEF PlacedAt
  <2> QED BY <1>1, <1>7, <2>1, <2>2, <2>5
<1>8. CASE node # root
  <2>1. IF node \in Subtree(k, root) THEN PlacedAt(order, size, root, node, f[root].pos)
        ELSE f[root].pos = 0
    BY <1>2, <1>4, <1>5, <1>8, SearchesRight
  <2> QED BY <1>1, <1>6, <1>8, <2>1
<1> QED BY <1>7, <1>8

-----------------------------------------------------------------------------
(* The cache. *)

(* The nodes that are walked through. *)
WalkOf(f, k, c, n) ==
    IF n \in Leaves \cup DOMAIN c THEN {} ELSE {n} \cup UNION {f[k[n][i]] : i \in DOMAIN k[n]}

Walks(f, k, c) == f = [n \in Nodes |-> WalkOf(f, k, c, n)]

Learnt(k, c, asked) == UNION {(CHOOSE f : Walks(f, k, c))[n] : n \in asked}

LEMMA CountedIs ==
  ASSUME NEW k, NEW c, NEW asked
  PROVE  Counted(k, c, asked) = [n \in DOMAIN c \cup Learnt(k, c, asked) |-> KidsCount(k, c)[n]]
<1>1. PICK size : size = KidsCount(k, c)
  OBVIOUS
<1> QED BY <1>1 DEF Counted, Learnt, Walks, WalkOf

LEMMA WalkOfSame ==
  ASSUME NEW k, NEW n \in Inner, NEW c, NEW f, NEW g,
         \A i \in DOMAIN k[n] : f[k[n][i]] = g[k[n][i]]
  PROVE  WalkOf(f, k, c, n) = WalkOf(g, k, c, n)
<1>1. {f[k[n][i]] : i \in DOMAIN k[n]} = {g[k[n][i]] : i \in DOMAIN k[n]}
  OBVIOUS
<1> QED BY <1>1, Zenon DEF WalkOf

LEMMA WalksExist ==
  ASSUME NEW k, IsTree(k), NEW c
  PROVE  \E f : Walks(f, k, c)
<1>0. PICK N, rank : Tree(k, N, rank)
  BY DEF IsTree
<1>t. Typed(k) /\ Falling(k, rank) /\ N \in Nat /\ rank \in [Nodes -> 0..N]
  BY <1>0 DEF Tree
<1> DEFINE Upto(f, j) == f = [n \in Nodes |-> IF rank[n] < j THEN WalkOf(f, k, c, n) ELSE {}]
<1> DEFINE Good == {j \in 0..(N + 1) : \E f : Upto(f, j)}
<1>1. 0 \in Good
  <2> DEFINE f == [n \in Nodes |-> {}]
  <2>1. \A n \in Nodes : ~(rank[n] < 0)
    BY <1>t
  <2>2. Upto(f, 0)
    BY <2>1
  <2>3. 0 \in 0..(N + 1)
    BY <1>t
  <2> QED BY <2>2, <2>3
<1>2. ASSUME NEW j \in 0..N, j \in Good PROVE j + 1 \in Good
  <2>1. PICK f : Upto(f, j)
    BY <1>2
  <2> DEFINE g == [n \in Nodes |-> IF rank[n] < j + 1 THEN WalkOf(f, k, c, n) ELSE {}]
  <2>2. \A n \in Nodes : rank[n] < j => f[n] = WalkOf(f, k, c, n)
    BY <2>1
  <2>3. ASSUME NEW n \in Nodes, rank[n] < j PROVE g[n] = f[n]
    <3>1. rank[n] < j + 1
      BY <1>t, <2>3
    <3> QED BY <2>2, <2>3, <3>1
  <2>g. g = [n \in Nodes |-> IF rank[n] < j + 1 THEN WalkOf(f, k, c, n) ELSE {}]
    OBVIOUS
  <2> HIDE DEF g
  <2>4. ASSUME NEW n \in Nodes, rank[n] < j + 1
        PROVE  WalkOf(f, k, c, n) = WalkOf(g, k, c, n)
    <3>1. CASE n \in Leaves
      BY <3>1 DEF WalkOf
    <3>2. CASE n \in Inner
      <4>1. ASSUME NEW i \in DOMAIN k[n] PROVE g[k[n][i]] = f[k[n][i]]
        <5>1. k[n][i] \in Nodes /\ rank[k[n][i]] < rank[n]
          BY <1>t, <3>2, KidsTyped DEF Falling
        <5>2. rank[k[n][i]] < j
          BY <1>t, <2>4, <5>1
        <5> QED BY <2>3, <5>1, <5>2
      <4> QED BY <3>2, <4>1, WalkOfSame
    <3> QED BY <3>1, <3>2, NodesApart
  <2>5. g = [n \in Nodes |-> IF rank[n] < j + 1 THEN WalkOf(g, k, c, n) ELSE {}]
    BY <2>g, <2>4
  <2>6. j + 1 \in 0..(N + 1)
    BY <1>t
  <2> QED BY <2>5, <2>6
<1>3. N + 1 \in Good
  <2> HIDE DEF Good
  <2>1. PICK M \in Nat : M = N + 1
    BY <1>t
  <2>2. \A j \in 0..(M - 1) : j \in Good => j + 1 \in Good
    BY <1>t, <1>2, <2>1
  <2>3. \A j \in 0..M : j \in Good
    BY <1>1, <2>2, UpTo0
  <2> QED BY <2>1, <2>3
<1>4. PICK f : Upto(f, N + 1)
  BY <1>3
<1>5. \A n \in Nodes : rank[n] < N + 1
  BY <1>t
<1>6. Walks(f, k, c)
  BY <1>4, <1>5 DEF Walks
<1> QED BY <1>6

(* What is learnt are numbers of intermediate nodes the cache does not     *)
(* know.                                                                   *)
LEMMA LearntTyped ==
  ASSUME NEW k, IsTree(k), NEW c, NEW asked, asked \subseteq Nodes
  PROVE  Learnt(k, c, asked) \subseteq Inner \ DOMAIN c
<1>0. PICK N, rank : Tree(k, N, rank)
  BY DEF IsTree
<1>t. Typed(k) /\ Falling(k, rank) /\ rank \in [Nodes -> Nat]
  BY <1>0 DEF Tree, Falling
<1>1. PICK f : f = CHOOSE g : Walks(g, k, c)
  OBVIOUS
<1>2. Walks(f, k, c)
  BY <1>1, WalksExist
<1>3. \A n \in Nodes : f[n] = WalkOf(f, k, c, n)
  BY <1>2 DEF Walks
<1> DEFINE X == {n \in Nodes : f[n] \subseteq Inner \ DOMAIN c}
<1>4. Falls(Nodes, rank, X)
  <2> SUFFICES ASSUME NEW n \in Nodes, \A m \in Nodes : rank[m] < rank[n] => m \in X
               PROVE  f[n] \subseteq Inner \ DOMAIN c
    BY DEF Falls
  <2>1. CASE n \in Leaves \cup DOMAIN c
    BY <1>3, <2>1 DEF WalkOf
  <2>2. CASE n \in Inner /\ n \notin DOMAIN c
    <3>1. f[n] = {n} \cup UNION {f[k[n][i]] : i \in DOMAIN k[n]}
      BY <1>3, <2>2, NodesApart DEF WalkOf
    <3>2. \A i \in DOMAIN k[n] : f[k[n][i]] \subseteq Inner \ DOMAIN c
      BY <1>t, <2>2, KidsTyped DEF Falling
    <3> QED BY <2>2, <3>1, <3>2
  <2> QED BY <2>1, <2>2, NodesApart
<1>5. \A n \in Nodes : n \in X
  <2> HIDE DEF X
  <2> QED BY <1>t, <1>4, RankInduction
<1> QED BY <1>1, <1>5 DEF Learnt

(* The numbers of nodes that are known, and known rightly. *)
TrueCache(k, c) == DOMAIN c \subseteq Inner /\ \A n \in DOMAIN c : c[n] = TrueCount(k)[n]

LEMMA TrueNumbers ==
  ASSUME NEW k, IsTree(k)
  PROVE  /\ TrueCount(k) \in [Nodes -> Nat]
         /\ \A n \in Leaves : TrueCount(k)[n] = 1
         /\ \A n \in Inner :
               TrueCount(k)[n] = SumFunction([i \in DOMAIN k[n] |-> TrueCount(k)[k[n][i]]])
<1>0. PICK N, rank : Tree(k, N, rank)
  BY DEF IsTree
<1>1. Typed(k) /\ Falling(k, rank)
  BY <1>0 DEF Tree
<1>2. PICK size : size = TrueCount(k)
  OBVIOUS
<1>3. Sizes(size, k, NoEntries)
  BY <1>2, TrueSizes
<1>4. DOMAIN NoEntries = {}
  BY DEF NoEntries
<1>5. size \in [Nodes -> Nat]
  BY <1>1, <1>3, <1>4, SizesNat
<1>6. /\ \A n \in Leaves : size[n] = 1
      /\ \A n \in Inner : size[n] = SumFunction([i \in DOMAIN k[n] |-> size[k[n][i]]])
  BY <1>1, <1>3, <1>4, SizesFacts
<1> QED BY <1>2, <1>5, <1>6

(* A true cache changes nothing. *)
LEMMA TrueCacheCounts ==
  ASSUME NEW k, IsTree(k), NEW c, TrueCache(k, c)
  PROVE  KidsCount(k, c) = TrueCount(k)
<1>0. PICK N, rank : Tree(k, N, rank)
  BY DEF IsTree
<1>t. Typed(k) /\ Falling(k, rank) /\ rank \in [Nodes -> Nat] /\ N \in Nat /\ rank \in [Nodes -> 0..N]
  BY <1>0 DEF Tree, Falling
<1>1. PICK size, true : size = KidsCount(k, c) /\ true = TrueCount(k)
  OBVIOUS
<1>2. Sizes(size, k, c)
  BY <1>t, <1>1, SizesExist
<1>3. /\ true \in [Nodes -> Nat]
      /\ \A n \in Leaves : true[n] = 1
      /\ \A n \in Inner : true[n] = SumFunction([i \in DOMAIN k[n] |-> true[k[n][i]]])
  BY <1>1, TrueNumbers
<1>4. /\ \A n \in Leaves : size[n] = 1
      /\ \A n \in Inner : n \in DOMAIN c => size[n] = c[n]
      /\ \A n \in Inner : n \notin DOMAIN c =>
            size[n] = SumFunction([i \in DOMAIN k[n] |-> size[k[n][i]]])
  BY <1>t, <1>2, SizesFacts
<1> DEFINE X == {n \in Nodes : size[n] = true[n]}
<1>5. Falls(Nodes, rank, X)
  <2> SUFFICES ASSUME NEW n \in Nodes, \A m \in Nodes : rank[m] < rank[n] => m \in X
               PROVE  size[n] = true[n]
    BY DEF Falls
  <2>1. CASE n \in Leaves
    BY <1>3, <1>4, <2>1
  <2>2. CASE n \in Inner /\ n \in DOMAIN c
    BY <1>1, <1>4, <2>2 DEF TrueCache
  <2>3. CASE n \in Inner /\ n \notin DOMAIN c
    <3>1. \A i \in DOMAIN k[n] : size[k[n][i]] = true[k[n][i]]
      BY <1>t, <2>3, KidsTyped DEF Falling
    <3>2. [i \in DOMAIN k[n] |-> size[k[n][i]]] = [i \in DOMAIN k[n] |-> true[k[n][i]]]
      BY <3>1
    <3> QED BY <1>3, <1>4, <2>3, <3>2, ZenonT(60)
  <2> QED BY <2>1, <2>2, <2>3, NodesApart
<1>6. \A n \in Nodes : n \in X
  <2> HIDE DEF X
  <2> QED BY <1>t, <1>5, RankInduction
<1>7. \A n \in Nodes : size[n] = true[n]
  BY <1>6
<1>8. size = [n \in Nodes |-> size[n]]
  BY <1>2 DEF Sizes
<1> QED BY <1>1, <1>3, <1>7, <1>8

(* It stays true when more is counted. *)
LEMMA CountedTrue ==
  ASSUME NEW k, IsTree(k), NEW c, TrueCache(k, c), NEW asked, asked \subseteq Nodes
  PROVE  TrueCache(k, Counted(k, c, asked))
<1>1. PICK L : L = Learnt(k, c, asked)
  OBVIOUS
<1>2. L \subseteq Inner
  BY <1>1, LearntTyped
<1>3. Counted(k, c, asked) = [n \in DOMAIN c \cup L |-> TrueCount(k)[n]]
  BY <1>1, CountedIs, TrueCacheCounts
<1> QED BY <1>2, <1>3 DEF TrueCache

(* And when some of it is discarded. *)
LEMMA DiscardTrue ==
  ASSUME NEW k, NEW s, NEW list, NEW cache, s = Lists(list, cache), TrueCache(k, cache), NEW gone
  PROVE  /\ Discard(s, gone) = Lists(list, Restrict(cache, DOMAIN cache \ gone))
         /\ TrueCache(k, Restrict(cache, DOMAIN cache \ gone))
BY DEF Discard, Lists, Restrict, TrueCache

-----------------------------------------------------------------------------
(* A changed array and a cache of the numbers before. *)

(* Of two nodes with a node below both one is below the other. *)
LEMMA SubtreesNest ==
  ASSUME NEW k, NEW N, NEW rank, Tree(k, N, rank), NEW a \in Nodes, NEW b \in Nodes,
         NEW x \in Nodes, x \in Subtree(k, a), x \in Subtree(k, b)
  PROVE  a \in Subtree(k, b) \/ b \in Subtree(k, a)
<1>1. Typed(k) /\ HeldOnce(k) /\ Falling(k, rank) /\ N \in Nat /\ rank \in [Nodes -> 0..N]
  BY DEF Tree
<1> DEFINE up == [y \in Nodes |-> N - rank[y]]
<1> DEFINE X == {y \in Nodes : y \in Subtree(k, a) /\ y \in Subtree(k, b) =>
                                  a \in Subtree(k, b) \/ b \in Subtree(k, a)}
<1>2. up \in [Nodes -> Nat]
  <2>1. \A y \in Nodes : rank[y] \in 0..N
    BY <1>1
  <2>2. \A y \in Nodes : N - rank[y] \in Nat
    BY <1>1, <2>1
  <2> QED BY <2>2
<1>3. Falls(Nodes, up, X)
  <2> SUFFICES ASSUME NEW y \in Nodes, \A m \in Nodes : up[m] < up[y] => m \in X,
                      y \in Subtree(k, a), y \in Subtree(k, b), y # a, y # b
               PROVE  a \in Subtree(k, b) \/ b \in Subtree(k, a)
    BY DEF Falls
  <2>1. PICK h \in Inner \cap Subtree(k, a) : \E i \in DOMAIN k[h] : y = k[h][i]
    BY <1>1, SubtreeHolder
  <2>2. PICK g \in Inner \cap Subtree(k, b) : \E i \in DOMAIN k[g] : y = k[g][i]
    BY <1>1, SubtreeHolder
  <2>3. h = g
    BY <1>1, <2>1, <2>2, ZenonT(60) DEF HeldOnce
  <2>4. rank[y] < rank[h] /\ h \in Nodes
    BY <1>1, <2>1, NodesApart DEF Falling
  <2>5. rank[y] \in 0..N /\ rank[h] \in 0..N
    BY <1>1, <2>4
  <2>6. up[h] < up[y]
    BY <1>1, <2>4, <2>5
  <2> QED BY <2>1, <2>2, <2>3, <2>4, <2>6
<1>4. \A y \in Nodes : y \in X
  <2> HIDE DEF X, up
  <2> QED BY <1>2, <1>3, RankInduction
<1> QED BY <1>4

(* Two children of a node have nothing below both. *)
LEMMA SiblingsApart ==
  ASSUME NEW k, NEW N, NEW rank, Tree(k, N, rank), NEW m \in Inner,
         NEW i \in DOMAIN k[m], NEW j \in DOMAIN k[m],
         NEW x \in Nodes, x \in Subtree(k, k[m][i]), x \in Subtree(k, k[m][j])
  PROVE  i = j
<1>1. Typed(k) /\ HeldOnce(k) /\ Falling(k, rank) /\ rank \in [Nodes -> Nat]
  BY DEF Tree, Falling
<1>2. k[m][i] \in Nodes /\ k[m][j] \in Nodes /\ m \in Nodes
  BY <1>1, KidsTyped, NodesApart
<1>3. ASSUME NEW a \in DOMAIN k[m], NEW b \in DOMAIN k[m], k[m][a] \in Subtree(k, k[m][b])
      PROVE  a = b
  <2> SUFFICES ASSUME a # b PROVE FALSE
    OBVIOUS
  <2>1. k[m][a] # k[m][b]
    BY <1>1 DEF HeldOnce
  <2>2. k[m][b] \in Nodes
    BY <1>1, KidsTyped
  <2>3. PICK h \in Inner \cap Subtree(k, k[m][b]) : \E c \in DOMAIN k[h] : k[m][a] = k[h][c]
    BY <1>1, <1>3, <2>1, <2>2, SubtreeHolder
  <2>4. h = m
    BY <1>1, <2>3 DEF HeldOnce
  <2>5. rank[m] <= rank[k[m][b]]
    BY <1>1, <2>2, <2>3, <2>4, SubtreeClosed
  <2>6. rank[k[m][b]] < rank[m]
    BY <1>1 DEF Falling
  <2> QED BY <1>1, <1>2, <2>2, <2>5, <2>6
<1>4. k[m][i] \in Subtree(k, k[m][j]) \/ k[m][j] \in Subtree(k, k[m][i])
  BY <1>2, SubtreesNest
<1> QED BY <1>3, <1>4

(* A node is not below its children, with the other arrays as they were.   *)
LEMMA NotBelowKids ==
  ASSUME IsTree(kids), NEW k, IsTree(k), NEW n \in Inner, ChangedAt(k, n), NEW i \in DOMAIN k[n]
  PROVE  n \notin Subtree(kids, k[n][i])
<1>1. PICK N, rank : Tree(k, N, rank)
  BY DEF IsTree
<1>2. PICK M, high : Tree(kids, M, high)
  BY DEF IsTree
<1>3. Typed(k) /\ Falling(k, rank) /\ rank \in [Nodes -> Nat] /\ Typed(kids) /\ Falling(kids, high)
  BY <1>1, <1>2 DEF Tree, Falling
<1>4. k[n][i] \in Nodes /\ n \in Nodes /\ rank[k[n][i]] < rank[n]
  BY <1>3, KidsTyped, NodesApart DEF Falling
<1> DEFINE T == Subtree(k, k[n][i])
<1>5. n \notin T
  <2>1. n \in T => rank[n] <= rank[k[n][i]]
    BY <1>3, <1>4, SubtreeClosed
  <2> QED BY <1>3, <1>4, <2>1
<1>6. Closed(k, T) /\ k[n][i] \in T
  BY <1>3, <1>4, SubtreeClosed, SubtreeParts
<1>7. Closed(kids, T)
  BY <1>5, <1>6 DEF Closed, ChangedAt
<1>8. Subtree(kids, k[n][i]) \subseteq T
  <2> HIDE DEF T
  <2> QED BY <1>3, <1>4, <1>6, <1>7, SubtreeLeast
<1> QED BY <1>5, <1>8

(* With the cache of the numbers before, each number that is counted is    *)
(* that of now or that of before.                                          *)
LEMMA StaleCounts ==
  ASSUME RightNodes(root, kids, parent, count), NEW k, IsTree(k), NEW n \in Inner, IsSeen(n),
         ChangedAt(k, n), NEW c, TrueCache(kids, c)
  PROVE  /\ KidsCount(k, c) \in [Nodes -> Nat]
         /\ \A m \in Nodes : KidsCount(k, c)[m] \in {TrueCount(k)[m], TrueCount(kids)[m]}
<1>0. root \in Roots
  BY DEF IsSeen, TreeNodes, RightNodes
<1>1. PICK N, rank : Tree(k, N, rank)
  BY DEF IsTree
<1>2. PICK M, high : Tree(kids, M, high)
  BY DEF IsTree, RightNodes
<1>3. /\ Typed(k) /\ HeldOnce(k) /\ Falling(k, rank) /\ rank \in [Nodes -> Nat]
      /\ N \in Nat /\ rank \in [Nodes -> 0..N]
      /\ Typed(kids) /\ Falling(kids, high) /\ IsTree(kids)
  BY <1>1, <1>2 DEF Tree, Falling, RightNodes
<1>4. PICK size, new, old : size = KidsCount(k, c) /\ new = TrueCount(k) /\ old = TrueCount(kids)
  OBVIOUS
<1>5. PICK v : v = Visited(k, n)
  OBVIOUS
<1>6. WayUp(kids, v, new, n)
  BY <1>0, <1>3, <1>4, <1>5, VisitedWayUp DEF RightNodes, IsSeen
<1>7. \A m \in Nodes : m \notin v => new[m] = old[m]
  BY <1>4, <1>6, UnvisitedKeep
<1>8. \A m \in v : n \in Subtree(kids, m)
  BY <1>6 DEF WayUp
<1>9. Sizes(size, k, c)
  BY <1>3, <1>4, SizesExist
<1>10. /\ new \in [Nodes -> Nat]
       /\ \A m \in Leaves : new[m] = 1
       /\ \A m \in Inner : new[m] = SumFunction([i \in DOMAIN k[m] |-> new[k[m][i]]])
  BY <1>4, TrueNumbers
<1>11. /\ old \in [Nodes -> Nat]
       /\ \A m \in Inner : old[m] = SumFunction([i \in DOMAIN kids[m] |-> old[kids[m][i]]])
  BY <1>3, <1>4, TrueNumbers
<1>12. /\ \A m \in Leaves : size[m] = 1
       /\ \A m \in Inner : m \in DOMAIN c => size[m] = c[m]
       /\ \A m \in Inner : m \notin DOMAIN c =>
             size[m] = SumFunction([i \in DOMAIN k[m] |-> size[k[m][i]]])
  BY <1>3, <1>9, SizesFacts
<1>13. \A m \in DOMAIN c : m \in Inner /\ c[m] = old[m]
  BY <1>4 DEF TrueCache
<1> DEFINE X == {m \in Nodes : size[m] = new[m] \/ size[m] = old[m]}
<1>14. Falls(Nodes, rank, X)
  <2> SUFFICES ASSUME NEW m \in Nodes, \A x \in Nodes : rank[x] < rank[m] => x \in X
               PROVE  size[m] = new[m] \/ size[m] = old[m]
    BY DEF Falls
  <2>1. CASE m \in Leaves
    BY <1>10, <1>12, <2>1
  <2>2. CASE m \in Inner /\ m \in DOMAIN c
    BY <1>12, <1>13, <2>2
  <2>3. CASE m \in Inner /\ m \notin DOMAIN c
    <3>1. \A i \in DOMAIN k[m] : k[m][i] \in Nodes /\ k[m][i] \in X
      BY <1>3, <2>3, KidsTyped DEF Falling
    <3>2. CASE \A i \in DOMAIN k[m] : size[k[m][i]] = new[k[m][i]]
      <4>1. [i \in DOMAIN k[m] |-> size[k[m][i]]] = [i \in DOMAIN k[m] |-> new[k[m][i]]]
        BY <3>2
      <4> QED BY <1>10, <1>12, <2>3, <4>1, ZenonT(60)
    <3>3. ASSUME NEW i \in DOMAIN k[m], size[k[m][i]] # new[k[m][i]] PROVE size[m] = old[m]
      <4>1. size[k[m][i]] = old[k[m][i]] /\ k[m][i] \in v
        BY <1>7, <3>1, <3>3
      <4>2. n \in Subtree(kids, k[m][i])
        BY <1>8, <4>1
      <4>3. m # n
        BY <1>3, <4>2, NotBelowKids
      <4>4. k[m] = kids[m]
        BY <2>3, <4>3 DEF ChangedAt
      <4>5. ASSUME NEW j \in DOMAIN k[m] PROVE size[k[m][j]] = old[k[m][j]]
        <5>1. CASE j = i
          BY <4>1, <5>1
        <5>2. CASE j # i
          <6>1. k[m][j] \notin v
            <7> SUFFICES ASSUME k[m][j] \in v PROVE FALSE
              OBVIOUS
            <7>1. n \in Subtree(kids, kids[m][j]) /\ n \in Subtree(kids, kids[m][i]) /\ n \in Nodes
              BY <1>8, <4>2, <4>4, NodesApart
            <7>2. i \in DOMAIN kids[m] /\ j \in DOMAIN kids[m]
              BY <4>4
            <7> QED BY <1>2, <2>3, <5>2, <7>1, <7>2, SiblingsApart
          <6> QED BY <1>7, <3>1, <6>1
        <5> QED BY <5>1, <5>2
      <4>6. [j \in DOMAIN k[m] |-> size[k[m][j]]] = [j \in DOMAIN kids[m] |-> old[kids[m][j]]]
        BY <4>4, <4>5
      <4> QED BY <1>11, <1>12, <2>3, <4>6
    <3> QED BY <3>2, <3>3
  <2> QED BY <2>1, <2>2, <2>3, NodesApart
<1>15. \A m \in Nodes : m \in X
  <2> HIDE DEF X
  <2> QED BY <1>3, <1>14, RankInduction
<1>16. \A m \in Nodes : size[m] = new[m] \/ size[m] = old[m]
  BY <1>15
<1>17. size \in [Nodes -> Nat]
  <2>1. \A m \in Nodes : size[m] \in Nat
    BY <1>10, <1>11, <1>16
  <2>2. size = [m \in Nodes |-> size[m]]
    BY <1>9 DEF Sizes
  <2> QED BY <2>1, <2>2
<1> QED BY <1>4, <1>16, <1>17

(* Such a cache is true again when the numbers that have changed are       *)
(* discarded.                                                              *)
LEMMA StaleCacheMended ==
  ASSUME RightNodes(root, kids, parent, count), NEW k, IsTree(k), NEW n \in Inner, IsSeen(n),
         ChangedAt(k, n), NEW c, TrueCache(kids, c), NEW asked, asked \subseteq Nodes,
         NEW w, w = {m \in Inner : TrueCount(k)[m] # TrueCount(kids)[m]},
         NEW d, d = Counted(k, c, asked)
  PROVE  TrueCache(k, Restrict(d, DOMAIN d \ w)) /\ TrueCache(k, Restrict(c, DOMAIN c \ w))
<1>1. PICK L, size : L = Learnt(k, c, asked) /\ size = KidsCount(k, c)
  OBVIOUS
<1>2. d = [m \in DOMAIN c \cup L |-> size[m]]
  BY <1>1, CountedIs
<1>3. L \subseteq Inner /\ DOMAIN c \subseteq Inner
  BY <1>1, LearntTyped DEF TrueCache
<1>4. PICK new, old : new = TrueCount(k) /\ old = TrueCount(kids)
  OBVIOUS
<1>5. \A m \in Inner : size[m] = new[m] \/ size[m] = old[m]
  <2>1. \A m \in Nodes : size[m] \in {new[m], old[m]}
    BY <1>1, <1>4, StaleCounts
  <2> QED BY <2>1, NodesApart
<1>6. \A m \in Inner : m \notin w => new[m] = old[m]
  BY <1>4
<1>7. \A m \in DOMAIN c : c[m] = old[m]
  BY <1>4 DEF TrueCache
<1>8. TrueCache(k, Restrict(d, DOMAIN d \ w))
  BY <1>2, <1>3, <1>4, <1>5, <1>6 DEF TrueCache, Restrict
<1>9. TrueCache(k, Restrict(c, DOMAIN c \ w))
  BY <1>3, <1>4, <1>6, <1>7 DEF TrueCache, Restrict
<1> QED BY <1>8, <1>9

-----------------------------------------------------------------------------
(* The list and the cache while they are corrected. *)

PagesListed(list) == \A p \in DOMAIN list : p \in Nat /\ list[p] \in Leaves

(* The list has pages at positions and the cache is true for the arrays k. *)
Mending(k, u) ==
    /\ u = Lists(u.list, u.cache)
    /\ PagesListed(u.list) /\ TrueCache(k, u.cache)

LEMMA MendingIs ==
  ASSUME NEW k, NEW list, NEW cache, PagesListed(list), TrueCache(k, cache)
  PROVE  Mending(k, Lists(list, cache))
BY DEF Mending, Lists

LEMMA TrueCacheNat ==
  ASSUME NEW k, IsTree(k), NEW c, TrueCache(k, c)
  PROVE  /\ KidsCount(k, c) = TrueCount(k)
         /\ KidsCount(k, c) \in [Nodes -> Nat]
<1>1. KidsCount(k, c) = TrueCount(k)
  BY TrueCacheCounts
<1>2. PICK size : size = TrueCount(k)
  OBVIOUS
<1>3. size \in [Nodes -> Nat]
  BY <1>2, TrueNumbers
<1> QED BY <1>1, <1>2, <1>3

LEMMA PositionIs ==
  ASSUME NEW k, IsTree(k), NEW c, KidsCount(k, c) \in [Nodes -> Nat], root \in Roots \cup {NoNode},
         NEW node
  PROVE  /\ NodePosition(k, c, node).pos \in Nat
         /\ NodePosition(k, c, node).asked \subseteq Nodes
<1>1. PICK at : at = NodePosition(k, c, node)
  OBVIOUS
<1>2. at \in Position
  BY <1>1, NodePositionTyped
<1> QED BY <1>1, <1>2 DEF Position

LEMMA AskForMends ==
  ASSUME NEW k, IsTree(k), NEW u, Mending(k, u), NEW asked, asked \subseteq Nodes
  PROVE  Mending(k, AskFor(k, u, asked))
<1>1. PICK list, cache : u = Lists(list, cache) /\ PagesListed(list) /\ TrueCache(k, cache)
  BY DEF Mending
<1>2. AskFor(k, u, asked) = Lists(list, Counted(k, cache, asked))
  BY <1>1 DEF AskFor, Lists
<1>3. TrueCache(k, Counted(k, cache, asked))
  BY <1>1, CountedTrue
<1> QED BY <1>1, <1>2, <1>3, MendingIs

LEMMA RestrictListed ==
  ASSUME NEW list, PagesListed(list), NEW S, S \subseteq DOMAIN list
  PROVE  PagesListed(Restrict(list, S))
BY DEF PagesListed, Restrict

LEMMA MoveListed ==
  ASSUME NEW list, PagesListed(list), NEW to, DOMAIN to \subseteq DOMAIN list,
         \A p \in DOMAIN to : to[p] \in Nat
  PROVE  PagesListed(Move(list, to))
<1> DEFINE at(q) == {p \in DOMAIN to : to[p] = q}
<1> DEFINE moved == [q \in Range(to) |-> list[Min(at(q))]]
<1>1. ASSUME NEW q \in Range(to) PROVE q \in Nat /\ Min(at(q)) \in DOMAIN list
  <2>1. at(q) # {} /\ at(q) \subseteq Nat /\ at(q) \subseteq DOMAIN list /\ q \in Nat
    BY DEF Range, PagesListed
  <2> HIDE DEF at
  <2> QED BY <2>1, MinFacts
<1>2. PagesListed(moved)
  <2> HIDE DEF at
  <2> QED BY <1>1 DEF PagesListed
<1>3. PagesListed(Restrict(list, DOMAIN list \ DOMAIN to))
  BY RestrictListed
<1>4. Move(list, to) = Filled(Restrict(list, DOMAIN list \ DOMAIN to), moved)
  BY DEF Move
<1> HIDE DEF moved
<1> QED BY <1>2, <1>3, <1>4 DEF Filled, PagesListed

LEMMA ReassignMends ==
  ASSUME NEW k, IsTree(k), root \in Roots \cup {NoNode}, NEW u, Mending(k, u)
  PROVE  Mending(k, Reassign(k, u))
<1>1. PICK list, cache : u = Lists(list, cache) /\ PagesListed(list) /\ TrueCache(k, cache)
  BY DEF Mending
<1>2. u.list = list /\ u.cache = cache
  BY <1>1 DEF Lists
<1>3. PICK found : found = [p \in DOMAIN list |-> NodePosition(k, cache, list[p])]
  OBVIOUS
<1>4. PICK known : known = {p \in DOMAIN found : found[p].pos # 0}
  OBVIOUS
<1>5. PICK to : to = [p \in known |-> found[p].pos]
  OBVIOUS
<1>6. PICK asked : asked = UNION {found[p].asked : p \in DOMAIN found}
  OBVIOUS
<1>7. \A p \in DOMAIN found : found[p].pos \in Nat /\ found[p].asked \subseteq Nodes
  <2>1. KidsCount(k, cache) \in [Nodes -> Nat]
    BY <1>1, TrueCacheNat
  <2> QED BY <1>3, <2>1, PositionIs
<1>8. Reassign(k, u) = Lists(Move(Restrict(list, known), to), Counted(k, cache, asked))
  BY <1>2, <1>3, <1>4, <1>5, <1>6 DEF Reassign
<1>9. PagesListed(Move(Restrict(list, known), to))
  <2>1. PICK rest : rest = Restrict(list, known)
    OBVIOUS
  <2>2. known \subseteq DOMAIN list
    BY <1>3, <1>4
  <2>3. PagesListed(rest) /\ DOMAIN rest = known
    BY <1>1, <2>1, <2>2, RestrictListed DEF Restrict
  <2>4. DOMAIN to \subseteq DOMAIN rest /\ \A p \in DOMAIN to : to[p] \in Nat
    BY <1>4, <1>5, <1>7, <2>3
  <2>5. PagesListed(Move(rest, to))
    BY <2>3, <2>4, MoveListed
  <2> QED BY <2>1, <2>5
<1>10. asked \subseteq Nodes
  BY <1>6, <1>7
<1>11. TrueCache(k, Counted(k, cache, asked))
  BY <1>1, <1>10, CountedTrue
<1> QED BY <1>8, <1>9, <1>11, MendingIs

LEMMA ShiftedNat ==
  ASSUME NEW p \in Nat, NEW difference \in Int
  PROVE  Shifted(p, difference) \in Nat
<1>1. PICK s : s = SizeT
  OBVIOUS
<1>2. s \in Nat /\ s > 0
  BY <1>1 DEF SizeT
<1>3. (p + difference) \in Int
  OBVIOUS
<1>4. (p + difference) % s \in Nat
  BY <1>2, <1>3
<1> QED BY <1>1, <1>4 DEF Shifted

LEMMA MovedMends ==
  ASSUME NEW k, IsTree(k), root \in Roots \cup {NoNode}, NEW u, Mending(k, u), NEW minPos,
         NEW difference \in Int
  PROVE  Mending(k, Moved(k, u, minPos, difference))
<1>1. PICK list, cache : u = Lists(list, cache) /\ PagesListed(list) /\ TrueCache(k, cache)
  BY DEF Mending
<1>2. CASE difference = 0
  BY <1>2 DEF Moved
<1>3. CASE difference # 0 /\ minPos = 0
  BY <1>3, ReassignMends DEF Moved
<1>4. CASE difference # 0 /\ minPos # 0
  <2>1. PICK to : to = [p \in {q \in DOMAIN list : q >= minPos} |-> Shifted(p, difference)]
    OBVIOUS
  <2>2. Moved(k, u, minPos, difference) = Lists(Move(list, to), cache)
    BY <1>1, <1>4, <2>1 DEF Moved, Lists
  <2>3. DOMAIN to \subseteq DOMAIN list
    BY <2>1
  <2>4. \A p \in DOMAIN to : to[p] \in Nat
    BY <1>1, <2>1, ShiftedNat DEF PagesListed
  <2>5. PagesListed(Move(list, to))
    BY <1>1, <2>3, <2>4, MoveListed
  <2> QED BY <1>1, <2>2, <2>5, MendingIs
<1> QED BY <1>2, <1>3, <1>4

LEMMA CutOutListed ==
  ASSUME NEW par, NEW list, PagesListed(list), NEW old
  PROVE  CutOut(par, list, old) \subseteq DOMAIN list
<1> DEFINE at == {p \in DOMAIN list : list[p] = old}
<1>1. at # {} => Min(at) \in at
  <2>1. at \subseteq Nat
    BY DEF PagesListed
  <2> HIDE DEF at
  <2> QED BY <2>1, MinFacts
<1>2. at \subseteq DOMAIN list
  OBVIOUS
<1>3. CASE old \in Leaves
  <2>1. CutOut(par, list, old) = IF at = {} THEN {} ELSE {Min(at)}
    BY <1>3 DEF CutOut
  <2> HIDE DEF at
  <2> QED BY <1>1, <1>2, <2>1
<1>4. CASE old \notin Leaves
  BY <1>4 DEF CutOut
<1> QED BY <1>3, <1>4

LEMMA ListMends ==
  ASSUME NEW k, IsTree(k), root \in Roots \cup {NoNode}, NEW par, NEW u, Mending(k, u),
         NEW old \in Nodes \cup {NoNode}, NEW new \in Nodes \cup {NoNode}
  PROVE  Mending(k, ConsolidatePageList(k, par, u, old, new))
<1>1. PICK list, cache : u = Lists(list, cache) /\ PagesListed(list) /\ TrueCache(k, cache)
  BY DEF Mending
<1>2. u.list = list /\ u.cache = cache
  BY <1>1 DEF Lists
<1>3. PICK size : size = KidsCount(k, cache)
  OBVIOUS
<1>4. size \in [Nodes -> Nat]
  BY <1>1, <1>3, TrueCacheNat
<1>5. PICK cut : cut = IF old = NoNode THEN {} ELSE CutOut(par, list, old)
  OBVIOUS
<1>6. PICK rest : rest = Lists(Restrict(list, DOMAIN list \ cut), Counted(k, cache, {old, new} \cap Inner))
  OBVIOUS
<1>7. Mending(k, rest)
  <2>1. {old, new} \cap Inner \subseteq Nodes
    BY NodesApart
  <2>2. PICK asked : asked = {old, new} \cap Inner
    OBVIOUS
  <2>3. TrueCache(k, Counted(k, cache, asked))
    BY <1>1, <2>1, <2>2, CountedTrue
  <2>4. PagesListed(Restrict(list, DOMAIN list \ cut))
    BY <1>1, RestrictListed
  <2> QED BY <1>6, <2>2, <2>3, <2>4, MendingIs
<1>8. PICK place : place = IF new = NoNode THEN [pos |-> 0, asked |-> {}]
                           ELSE NodePosition(k, rest.cache, new)
  OBVIOUS
<1>9. place.asked \subseteq Nodes
  <2>1. CASE new = NoNode
    BY <1>8, <2>1
  <2>2. CASE new # NoNode
    <3>1. TrueCache(k, rest.cache)
      BY <1>7 DEF Mending
    <3>2. KidsCount(k, rest.cache) \in [Nodes -> Nat]
      BY <3>1, TrueCacheNat
    <3> QED BY <1>8, <2>2, <3>2, PositionIs
  <2> QED BY <2>1, <2>2
<1>10. PICK minPos : minPos = IF place.pos # 0 THEN place.pos ELSE IF cut = {} THEN 0 ELSE Max(cut)
  OBVIOUS
<1>11. PICK gone, come : /\ gone = IF old = NoNode THEN 0 ELSE size[old]
                         /\ come = IF new = NoNode THEN 0 ELSE size[new]
  OBVIOUS
<1>12. gone \in Nat /\ come \in Nat
  BY <1>4, <1>11
<1>13. come - gone \in Int
  BY <1>12
<1>14. ConsolidatePageList(k, par, u, old, new) =
         Moved(k, AskFor(k, rest, place.asked), minPos, come - gone)
  BY <1>2, <1>3, <1>5, <1>6, <1>8, <1>10, <1>11 DEF ConsolidatePageList
<1>15. Mending(k, AskFor(k, rest, place.asked))
  BY <1>7, <1>9, AskForMends
<1> QED BY <1>13, <1>14, <1>15, MovedMends

LEMMA LookedForMends ==
  ASSUME NEW k, IsTree(k), root \in Roots \cup {NoNode}, NEW list, PagesListed(list), NEW c,
         TrueCache(k, c), NEW node
  PROVE  Mending(k, Lists(list, LookedFor(k, c, node)))
<1>1. CASE node = NoNode
  BY <1>1, MendingIs DEF LookedFor
<1>2. CASE node # NoNode
  <2>1. KidsCount(k, c) \in [Nodes -> Nat]
    BY TrueCacheNat
  <2>2. PICK asked : asked = NodePosition(k, c, node).asked
    OBVIOUS
  <2>3. asked \subseteq Nodes
    BY <2>1, <2>2, PositionIs
  <2>4. LookedFor(k, c, node) = Counted(k, c, asked)
    BY <1>2, <2>2 DEF LookedFor
  <2>5. TrueCache(k, Counted(k, c, asked))
    BY <2>3, CountedTrue
  <2> QED BY <2>4, <2>5, MendingIs
<1> QED BY <1>1, <1>2

-----------------------------------------------------------------------------
(* The handlers of changes. *)

(* What a handler leaves behind for the arrays k. *)
Handled(k, h) ==
    /\ RightNodes(root, k, h.parent, h.count)
    /\ h.count = [m \in Inner |-> TrueCount(k)[m]]
    /\ h.kept => TrueCount(k)[root] = TrueCount(kids)[root]
    /\ PagesListed(h.list) /\ TrueCache(k, h.cache)

LEMMA CorrectedHandled ==
  ASSUME RightNodes(root, kids, parent, count), NEW k, IsTree(k), NEW n, IsSeen(n), n \in Inner,
         ChangedAt(k, n), NEW u, Mending(k, u)
  PROVE  Handled(k, Corrected(ConsolidatePageTree(k, n), u))
<1>1. PICK t : t = ConsolidatePageTree(k, n)
  OBVIOUS
<1>2. /\ RightNodes(root, k, t.parent, t.count)
      /\ t.kept => TrueCount(k)[root] = TrueCount(kids)[root]
      /\ t.count = [m \in Inner |-> TrueCount(k)[m]]
  BY <1>1, Consolidated
<1>3. PICK h : h = Corrected(t, u)
  OBVIOUS
<1>4. /\ h.count = t.count /\ h.parent = t.parent /\ h.kept = t.kept
      /\ h.list = u.list /\ h.cache = u.cache
  BY <1>3 DEF Corrected
<1>5. PagesListed(h.list) /\ TrueCache(k, h.cache)
  BY <1>4 DEF Mending
<1> QED BY <1>1, <1>2, <1>3, <1>4, <1>5 DEF Handled

LEMMA DiscardMends ==
  ASSUME NEW k, NEW u, Mending(k, u), NEW gone
  PROVE  Mending(k, Discard(u, gone))
<1>1. PICK list, cache : u = Lists(list, cache) /\ PagesListed(list) /\ TrueCache(k, cache)
  BY DEF Mending
<1>2. /\ Discard(u, gone) = Lists(list, Restrict(cache, DOMAIN cache \ gone))
      /\ TrueCache(k, Restrict(cache, DOMAIN cache \ gone))
  BY <1>1, DiscardTrue
<1> QED BY <1>1, <1>2, MendingIs

(* The numbers that have changed are discarded, and the rest is true.      *)
LEMMA StaleDiscarded ==
  ASSUME RightNodes(root, kids, parent, count), PagesListed(pageList), NEW k, IsTree(k),
         NEW n \in Inner, IsSeen(n), ChangedAt(k, n), NEW c, TrueCache(kids, c), NEW node,
         NEW t, t = ConsolidatePageTree(k, n)
  PROVE  /\ Mending(k, Discard(Lists(pageList, LookedFor(k, c, node)), t.discarded))
         /\ Mending(k, Discard(Lists(pageList, c), t.discarded))
<1>1. PICK w : w = {m \in Inner : TrueCount(k)[m] # TrueCount(kids)[m]}
  OBVIOUS
<1>2. t.discarded = w
  BY <1>1, Consolidated, ZenonT(60)
<1>3. KidsCount(k, c) \in [Nodes -> Nat]
  BY StaleCounts
<1>4. \A d, l : Discard(Lists(l, d), w) = Lists(l, Restrict(d, DOMAIN d \ w))
  BY DEF Discard, Lists
<1>5. TrueCache(k, Restrict(c, DOMAIN c \ w))
  BY <1>1, StaleCacheMended
<1>6. PICK d : d = LookedFor(k, c, node)
  OBVIOUS
<1>7. TrueCache(k, Restrict(d, DOMAIN d \ w))
  <2>1. CASE node = NoNode
    BY <1>5, <1>6, <2>1 DEF LookedFor
  <2>2. CASE node # NoNode
    <3>1. PICK asked : asked = NodePosition(k, c, node).asked
      OBVIOUS
    <3>2. asked \subseteq Nodes
      BY <1>3, <3>1, PositionIs DEF RightNodes
    <3>3. d = Counted(k, c, asked)
      BY <1>6, <2>2, <3>1 DEF LookedFor
    <3> QED BY <1>1, <3>2, <3>3, StaleCacheMended
  <2> QED BY <2>1, <2>2
<1>8. Mending(k, Lists(pageList, Restrict(d, DOMAIN d \ w)))
  BY <1>7, MendingIs
<1>9. Mending(k, Lists(pageList, Restrict(c, DOMAIN c \ w)))
  BY <1>5, MendingIs
<1> QED BY <1>2, <1>4, <1>6, <1>8, <1>9

(* PageTreeKidsObserver::notify. *)
LEMMA KidsNotifyHandles ==
  ASSUME RightNodes(root, kids, parent, count), PagesListed(pageList), NEW k, IsTree(k),
         NEW n \in Inner, IsSeen(n), ChangedAt(k, n), NEW c, TrueCache(kids, c),
         NEW old \in Nodes \cup {NoNode}, NEW new \in Nodes \cup {NoNode}
  PROVE  Handled(k, KidsNotify(k, n, old, new, c))
<1>1. PICK t : t = ConsolidatePageTree(k, n)
  OBVIOUS
<1>2. PICK s : s = Discard(Lists(pageList, LookedFor(k, c, old)), t.discarded)
  OBVIOUS
<1>3. PICK gone : gone = IF old = NoNode THEN {} ELSE Subtree(k, old)
  OBVIOUS
<1>4. PICK u : u = ConsolidatePageList(k, t.parent, s, old, new)
  OBVIOUS
<1>5. KidsNotify(k, n, old, new, c) = Corrected(t, Discard(u, gone))
  BY <1>1, <1>2, <1>3, <1>4 DEF KidsNotify
<1>6. Mending(k, s)
  BY <1>1, <1>2, StaleDiscarded
<1>7. Mending(k, u)
  BY <1>4, <1>6, ListMends DEF RightNodes
<1>8. Mending(k, Discard(u, gone))
  BY <1>7, DiscardMends
<1> QED BY <1>1, <1>5, <1>8, CorrectedHandled

-----------------------------------------------------------------------------
(* Another array: its elements go and come one by one. *)

GoesOut(k, par, u, old) ==
    ConsolidatePageList(k, par, Lists(u.list, LookedFor(k, u.cache, old)), old, NoNode)

OneStep(k, par, u, x, comes) ==
    IF comes THEN ConsolidatePageList(k, par, u, NoNode, x) ELSE GoesOut(k, par, u, x)

Folds(f, k, par, base, s, comes) ==
    f = [T \in SUBSET DOMAIN s |-> IF T = {} THEN base
                                   ELSE OneStep(k, par, f[T \ {Max(T)}], s[Max(T)], comes)]

AllSteps(k, par, base, s, comes) == (CHOOSE f : Folds(f, k, par, base, s, comes))[DOMAIN s]

LEMMA NodeNotifyIs ==
  ASSUME NEW k, NEW n, NEW c, NEW t, t = ConsolidatePageTree(k, n),
         NEW s, s = Discard(Lists(pageList, c), t.discarded)
  PROVE  NodeNotify(k, n, c) =
           Corrected(t, AllSteps(k, t.parent, AllSteps(k, t.parent, s, kids[n], FALSE), k[n], TRUE))
BY DEF NodeNotify, AllSteps, Folds, OneStep, GoesOut, FoldLeft, MapThenFoldSet

(* The last of some indices. *)
LEMMA LastIndex ==
  ASSUME NEW l \in Nat, NEW T \in SUBSET (1..l), T # {}
  PROVE  Max(T) \in T /\ \A x \in T : x <= Max(T)
<1> DEFINE B == {b \in Nat : \A x \in T : x <= b}
<1>1. l \in B
  OBVIOUS
<1>2. PICK b \in B : \A d \in B : b <= d
  <2> HIDE DEF B
  <2>1. B \subseteq Nat
    BY DEF B
  <2> QED BY <1>1, <2>1, LeastNat
<1>3. b \in T
  <2> SUFFICES ASSUME b \notin T PROVE FALSE
    OBVIOUS
  <2>1. \A x \in T : x \in Nat /\ x >= 1 /\ x <= b /\ x # b
    BY <1>2
  <2>0. PICK x \in T : TRUE
    OBVIOUS
  <2>2. b - 1 \in Nat /\ \A y \in T : y <= b - 1
    BY <2>0, <2>1
  <2>3. b - 1 \in B
    BY <2>2
  <2>4. b <= b - 1
    BY <1>2, <2>3
  <2> QED BY <1>2, <2>4
<1>4. \A x \in T : b >= x
  BY <1>2
<1>5. \A x \in T : (\A y \in T : x >= y) => x = b
  BY <1>2, <1>3
<1>6. Max(T) = b
  BY <1>3, <1>4, <1>5 DEF Max
<1> QED BY <1>2, <1>3, <1>6

LEMMA FoldsExist ==
  ASSUME NEW k, NEW par, NEW base, NEW l \in Nat, NEW s, DOMAIN s = 1..l, NEW comes
  PROVE  \E f : Folds(f, k, par, base, s, comes)
<1> DEFINE S == 1..l
<1> DEFINE StepTo(f, T) == OneStep(k, par, f[T \ {Max(T)}], s[Max(T)], comes)
<1> DEFINE Upto(f, i) == f = [T \in SUBSET S |-> IF T = {} \/ i < Cardinality(T) THEN base ELSE StepTo(f, T)]
<1> DEFINE Good == {i \in 0..l : \E f : Upto(f, i)}
<1>1. IsFiniteSet(S) /\ Cardinality(S) = l
  BY FS_Interval
<1>2. /\ \A T \in SUBSET S : Cardinality(T) \in Nat
      /\ \A T \in SUBSET S : \A x \in T :
            T \ {x} \in SUBSET S /\ Cardinality(T \ {x}) < Cardinality(T)
  BY <1>1, SmallerSet
<1>3. \A T \in SUBSET S : T # {} => Cardinality(T) # 0
  BY <1>1, FS_Subset, FS_EmptySet
<1>4. \A T \in SUBSET S : T # {} => Max(T) \in T
  BY LastIndex
<1> HIDE DEF StepTo, S
<1>5. 0 \in Good
  <2> DEFINE f == [T \in SUBSET S |-> base]
  <2>1. \A T \in SUBSET S : T = {} \/ 0 < Cardinality(T)
    BY <1>2, <1>3
  <2>2. Upto(f, 0)
    BY <2>1
  <2>3. 0 \in 0..l
    OBVIOUS
  <2> QED BY <2>2, <2>3
<1>6. ASSUME NEW i \in 0..(l - 1), i \in Good PROVE i + 1 \in Good
  <2>1. PICK f : Upto(f, i)
    BY <1>6
  <2> DEFINE h == [T \in SUBSET S |-> IF T = {} \/ i + 1 < Cardinality(T) THEN base ELSE StepTo(f, T)]
  <2>2. \A T \in SUBSET S : f[T] = IF T = {} \/ i < Cardinality(T) THEN base ELSE StepTo(f, T)
    BY <2>1
  <2>3. \A T \in SUBSET S : h[T] = IF T = {} \/ i + 1 < Cardinality(T) THEN base ELSE StepTo(f, T)
    OBVIOUS
  <2>h. h = [T \in SUBSET S |-> IF T = {} \/ i + 1 < Cardinality(T) THEN base ELSE StepTo(f, T)]
    OBVIOUS
  <2> HIDE DEF h
  <2>4. ASSUME NEW T \in SUBSET S, Cardinality(T) <= i PROVE h[T] = f[T]
    <3>1. Cardinality(T) \in Nat
      BY <1>2
    <3>2. ~(i < Cardinality(T)) /\ ~(i + 1 < Cardinality(T))
      BY <2>4, <3>1
    <3> QED BY <2>2, <2>3, <3>2
  <2>5. ASSUME NEW T \in SUBSET S, T # {}, ~(i + 1 < Cardinality(T)) PROVE StepTo(f, T) = StepTo(h, T)
    <3>1. Max(T) \in T
      BY <1>4, <2>5
    <3>2. T \ {Max(T)} \in SUBSET S /\ Cardinality(T \ {Max(T)}) < Cardinality(T)
      BY <1>2, <3>1
    <3>3. Cardinality(T) \in Nat /\ Cardinality(T \ {Max(T)}) \in Nat
      BY <1>2, <3>2
    <3>4. Cardinality(T \ {Max(T)}) <= i
      BY <2>5, <3>2, <3>3
    <3>5. f[T \ {Max(T)}] = h[T \ {Max(T)}]
      BY <2>4, <3>2, <3>4
    <3> QED BY <3>5, Zenon DEF StepTo
  <2>6. \A T \in SUBSET S : (IF T = {} \/ i + 1 < Cardinality(T) THEN base ELSE StepTo(f, T))
                          = (IF T = {} \/ i + 1 < Cardinality(T) THEN base ELSE StepTo(h, T))
    BY <2>5, Zenon
  <2>7. Upto(h, i + 1)
    BY <2>h, <2>6
  <2>8. i + 1 \in 0..l
    OBVIOUS
  <2> QED BY <2>7, <2>8
<1>7. l \in Good
  <2> HIDE DEF Good
  <2>1. \A i \in 0..l : i \in Good
    BY <1>5, <1>6, UpTo0
  <2> QED BY <2>1
<1>8. PICK f : Upto(f, l)
  BY <1>7
<1>9. \A T \in SUBSET S : ~(l < Cardinality(T))
  <2>1. \A T \in SUBSET S : Cardinality(T) <= l
    BY <1>1, FS_Subset
  <2> QED BY <1>2, <2>1
<1>10. f = [T \in SUBSET DOMAIN s |-> IF T = {} THEN base ELSE StepTo(f, T)]
  BY <1>8, <1>9 DEF S
<1> QED BY <1>10 DEF StepTo, Folds

LEMMA AllStepsMend ==
  ASSUME NEW k, IsTree(k), root \in Roots \cup {NoNode}, NEW par, NEW base, Mending(k, base),
         NEW l \in Nat, NEW s, DOMAIN s = 1..l, \A i \in 1..l : s[i] \in Nodes, NEW comes \in BOOLEAN
  PROVE  Mending(k, AllSteps(k, par, base, s, comes))
<1>1. PICK f : f = CHOOSE g : Folds(g, k, par, base, s, comes)
  OBVIOUS
<1>2. Folds(f, k, par, base, s, comes)
  BY <1>1, FoldsExist
<1>3. /\ f[{}] = base
      /\ \A T \in SUBSET (1..l) : T # {} =>
            f[T] = OneStep(k, par, f[T \ {Max(T)}], s[Max(T)], comes)
  BY <1>2 DEF Folds
<1>4. ASSUME NEW u, Mending(k, u), NEW x \in Nodes PROVE Mending(k, OneStep(k, par, u, x, comes))
  <2>1. CASE comes
    BY <1>4, <2>1, ListMends DEF OneStep
  <2>2. CASE ~comes
    <3>1. PICK v : v = Lists(u.list, LookedFor(k, u.cache, x))
      OBVIOUS
    <3>2. Mending(k, v)
      BY <1>4, <3>1, LookedForMends DEF Mending
    <3>3. Mending(k, ConsolidatePageList(k, par, v, x, NoNode))
      BY <3>2, ListMends
    <3> QED BY <2>2, <3>1, <3>3 DEF OneStep, GoesOut
  <2> QED BY <2>1, <2>2
<1> DEFINE size == [T \in SUBSET (1..l) |-> Cardinality(T)]
<1> DEFINE X == {T \in SUBSET (1..l) : Mending(k, f[T])}
<1>5. IsFiniteSet(1..l)
  BY FS_Interval
<1>6. /\ \A T \in SUBSET (1..l) : Cardinality(T) \in Nat
      /\ \A T \in SUBSET (1..l) : \A x \in T :
            T \ {x} \in SUBSET (1..l) /\ Cardinality(T \ {x}) < Cardinality(T)
  BY <1>5, SmallerSet, ZenonT(60)
<1>7. size \in [SUBSET (1..l) -> Nat]
  BY <1>6
<1>8. Falls(SUBSET (1..l), size, X)
  <2> SUFFICES ASSUME NEW T \in SUBSET (1..l),
                      \A U \in SUBSET (1..l) : size[U] < size[T] => U \in X
               PROVE  Mending(k, f[T])
    BY DEF Falls
  <2>1. CASE T = {}
    BY <1>3, <2>1
  <2>2. CASE T # {}
    <3>1. Max(T) \in T
      BY <2>2, LastIndex
    <3>2. T \ {Max(T)} \in SUBSET (1..l) /\ Cardinality(T \ {Max(T)}) < Cardinality(T)
      BY <1>6, <3>1
    <3>3. Mending(k, f[T \ {Max(T)}])
      BY <3>2
    <3>4. s[Max(T)] \in Nodes
      BY <3>1
    <3> QED BY <1>3, <1>4, <2>2, <3>3, <3>4
  <2> QED BY <2>1, <2>2
<1>9. \A T \in SUBSET (1..l) : T \in X
  <2> HIDE DEF X, size
  <2> QED BY <1>7, <1>8, RankInduction
<1>10. Mending(k, f[1..l])
  BY <1>9
<1> QED BY <1>1, <1>10 DEF AllSteps

(* PageTreeNodeObserver::notify. *)
LEMMA NodeNotifyHandles ==
  ASSUME RightNodes(root, kids, parent, count), PagesListed(pageList), NEW k, IsTree(k),
         NEW n \in Inner, IsSeen(n), ChangedAt(k, n), NEW c, TrueCache(kids, c)
  PROVE  Handled(k, NodeNotify(k, n, c))
<1>1. PICK t : t = ConsolidatePageTree(k, n)
  OBVIOUS
<1>2. PICK s : s = Discard(Lists(pageList, c), t.discarded)
  OBVIOUS
<1>3. Mending(k, s)
  BY <1>1, <1>2, StaleDiscarded
<1>4. Typed(k) /\ Typed(kids) /\ root \in Roots \cup {NoNode}
  BY DEF RightNodes, IsTree, Tree
<1>5. PICK u : u = AllSteps(k, t.parent, s, kids[n], FALSE)
  OBVIOUS
<1>6. Mending(k, u)
  <2>1. /\ DOMAIN kids[n] = 1..Len(kids[n]) /\ Len(kids[n]) \in Nat
        /\ \A i \in DOMAIN kids[n] : kids[n][i] \in Nodes
    BY <1>4, KidsTyped
  <2> QED BY <1>3, <1>4, <1>5, <2>1, AllStepsMend
<1>7. PICK v : v = AllSteps(k, t.parent, u, k[n], TRUE)
  OBVIOUS
<1>8. Mending(k, v)
  <2>1. /\ DOMAIN k[n] = 1..Len(k[n]) /\ Len(k[n]) \in Nat
        /\ \A i \in DOMAIN k[n] : k[n][i] \in Nodes
    BY <1>4, KidsTyped
  <2> QED BY <1>4, <1>6, <1>7, <2>1, AllStepsMend
<1>9. NodeNotify(k, n, c) = Corrected(t, v)
  BY <1>1, <1>2, <1>5, <1>7, NodeNotifyIs
<1> QED BY <1>1, <1>8, <1>9, CorrectedHandled

-----------------------------------------------------------------------------
(* The invariant. *)

(* All nodes there are have the right entries, not only those of the tree: *)
(* what is outside of it comes in again.                                   *)
TreeInv ==
    /\ RightNodes(root, kids, parent, count)
    /\ count \in [Inner -> Nat]
    /\ \A n \in Inner : Len(kids[n]) <= MaxKids
    /\ PagesListed(pageList)
    /\ pageCount \in Nat
    /\ pageCount # 0 => root # NoNode /\ pageCount = TrueCount(kids)[root]
    /\ TrueCache(kids, nodeCountCache)

(* What the theorems ask of the documents. *)
RightDocs == \A d \in Docs : RightEntries(d)

LEMMA DocIsTree ==
  ASSUME NEW d \in Docs
  PROVE  IsTree(d.kids)
<1>1. PICK k : k = d.kids
  OBVIOUS
<1>2. k \in [Inner -> Seq(Leaves \cup Inters)] /\ HeldOnce(k)
  BY <1>1, DocsAssumption
<1>3. PICK M \in Nat : M = Cardinality(Inner)
  <2>1. IsFiniteSet(Inner)
    BY PageTreeAssumption, FS_Subset DEF Nodes
  <2> QED BY <2>1, FS_CardinalityType
<1>4. PICK low \in [Inner -> 0..M] : Descends(k, low)
  BY <1>1, <1>3, DocsAssumption
<1>5. Typed(k)
  BY <1>2 DEF Typed
<1> DEFINE rank == [n \in Nodes |-> IF n \in Inner THEN low[n] + 1 ELSE 0]
<1>6. \A n \in Inner : low[n] \in 0..M
  BY <1>4
<1>7. rank \in [Nodes -> 0..(M + 1)] /\ rank \in [Nodes -> Nat]
  BY <1>6
<1>8. ASSUME NEW n \in Inner, NEW i \in DOMAIN k[n] PROVE rank[k[n][i]] < rank[n]
  <2>1. PICK c \in Nodes : c = k[n][i]
    BY <1>5, KidsTyped
  <2>2. rank[n] = low[n] + 1 /\ low[n] \in Nat
    BY <1>6, NodesApart
  <2>3. CASE c \in Inner
    <3>1. low[c] < low[n] /\ low[c] \in Nat
      BY <1>4, <1>6, <2>1, <2>3 DEF Descends
    <3>2. rank[c] = low[c] + 1
      BY <2>3
    <3> HIDE DEF rank
    <3> QED BY <2>1, <2>2, <3>1, <3>2
  <2>4. CASE c \notin Inner
    <3>1. rank[c] = 0
      BY <2>4
    <3> HIDE DEF rank
    <3> QED BY <2>1, <2>2, <3>1
  <2> QED BY <2>3, <2>4
<1>9. Falling(k, rank)
  <2> HIDE DEF rank
  <2> QED BY <1>7, <1>8 DEF Falling
<1>10. M + 1 \in Nat
  OBVIOUS
<1>11. Tree(k, M + 1, rank)
  <2> HIDE DEF rank
  <2> QED BY <1>2, <1>5, <1>7, <1>9, <1>10 DEF Tree
<1> QED BY <1>1, <1>11 DEF IsTree

LEMMA DocRight ==
  ASSUME RightDocs, NEW d \in Docs
  PROVE  /\ RightNodes(d.root, d.kids, d.parent, d.count)
         /\ d.count \in [Inner -> Nat] /\ \A n \in Inner : Len(d.kids[n]) <= MaxKids
<1>1. IsTree(d.kids)
  BY DocIsTree
<1>2. RightEntries(d)
  BY DEF RightDocs
<1>3. /\ d.root \in Roots \cup {NoNode} /\ d.parent \in [Nodes -> Inner \cup {NoNode}]
      /\ d.count \in [Inner -> Nat] /\ \A n \in Inner : Len(d.kids[n]) <= MaxKids
  BY DocsAssumption
<1> QED BY <1>1, <1>2, <1>3 DEF RightNodes, RightParents, RightCounts, RightEntries

LEMMA NothingKnown ==
  ASSUME NEW k
  PROVE  PagesListed(NoEntries) /\ TrueCache(k, NoEntries)
BY DEF PagesListed, TrueCache, NoEntries

LEMMA TreeInvInit ==
  ASSUME RightDocs, PageTreeInit
  PROVE  TreeInv
<1>1. PICK d \in Docs : root = d.root /\ kids = d.kids /\ parent = d.parent /\ count = d.count
  BY DEF PageTreeInit
<1>2. RightNodes(root, kids, parent, count)
  BY <1>1, DocRight
<1>3. count \in [Inner -> Nat] /\ \A n \in Inner : Len(kids[n]) <= MaxKids
  BY <1>1, DocRight
<1>4. PagesListed(pageList) /\ TrueCache(kids, nodeCountCache) /\ pageCount = 0
  BY NothingKnown DEF PageTreeInit
<1> QED BY <1>2, <1>3, <1>4 DEF TreeInv

(* What getPageCount and findPageDict give. *)
LEMMA KnownCount ==
  ASSUME TreeInv
  PROVE  /\ PageCount \in Nat
         /\ root # NoNode => PageCount = TrueCount(kids)[root]
         /\ root = NoNode => PageCount = 0
         /\ TrueCache(kids, CountedCache)
         /\ root # NoNode => root \in Roots /\ root \in Inner /\ root \in Nodes
<1>1. IsTree(kids) /\ TrueCache(kids, nodeCountCache)
  BY DEF TreeInv, RightNodes
<1>2. root # NoNode => root \in Roots /\ root \in Inner /\ root \in Nodes
  BY DEF TreeInv, RightNodes, Nodes, Inner
<1>3. KidsCount(kids, nodeCountCache) = TrueCount(kids)
  BY <1>1, TrueCacheCounts
<1>4. PICK true : true = TrueCount(kids)
  OBVIOUS
<1>5. true \in [Nodes -> Nat]
  BY <1>1, <1>4, TrueNumbers
<1>6. /\ root # NoNode => PageCount = true[root]
      /\ root = NoNode => PageCount = 0
  BY <1>3, <1>4 DEF PageCount, TreeInv
<1>7. PageCount \in Nat
  BY <1>2, <1>5, <1>6
<1>8. TrueCache(kids, CountedCache)
  <2>1. CASE pageCount # 0 \/ root = NoNode
    BY <1>1, <2>1 DEF CountedCache
  <2>2. CASE ~(pageCount # 0 \/ root = NoNode)
    <3>1. PICK asked : asked = {root}
      OBVIOUS
    <3>2. asked \subseteq Nodes
      BY <1>2, <2>2, <3>1
    <3>3. TrueCache(kids, Counted(kids, nodeCountCache, asked))
      BY <1>1, <3>2, CountedTrue
    <3> QED BY <2>2, <3>1, <3>3 DEF CountedCache
  <2> QED BY <2>1, <2>2
<1> QED BY <1>2, <1>4, <1>6, <1>7, <1>8

LEMMA FoundPage ==
  ASSUME TreeInv, root # NoNode, NEW pos
  PROVE  /\ FindPage(kids, CountedCache, pos).leaf \in Leaves \cup {NoNode}
         /\ TrueCache(kids, Counted(kids, CountedCache, FindPage(kids, CountedCache, pos).asked))
<1>1. PICK found : found = FindPage(kids, CountedCache, pos)
  OBVIOUS
<1>2. IsTree(kids) /\ TrueCache(kids, CountedCache) /\ root \in Roots
  BY KnownCount DEF TreeInv, RightNodes
<1>3. KidsCount(kids, CountedCache) \in [Nodes -> Nat]
  BY <1>2, TrueCacheNat
<1>4. found \in Lookup
  BY <1>1, <1>2, <1>3, FindPageTyped
<1>5. found.leaf \in Leaves \cup {NoNode} /\ found.asked \subseteq Nodes
  BY <1>4 DEF Lookup
<1>6. PICK asked : asked = found.asked
  OBVIOUS
<1>7. TrueCache(kids, Counted(kids, CountedCache, asked))
  BY <1>2, <1>5, <1>6, CountedTrue
<1> QED BY <1>1, <1>5, <1>6, <1>7

(* A change that a handler has corrected. *)
LEMMA ChangeKeeps ==
  ASSUME TreeInv, NEW k, IsTree(k), \A n \in Inner : Len(k[n]) <= MaxKids, NEW h, Handled(k, h),
         NEW known \in Nat, known # 0 => root # NoNode /\ known = TrueCount(kids)[root],
         NEW added, PagesListed(added), Change(k, h, known, added)
  PROVE  TreeInv'
<1>1. /\ kids' = k /\ count' = h.count /\ parent' = h.parent /\ root' = root
      /\ pageList' = Filled(h.list, added) /\ nodeCountCache' = h.cache
      /\ pageCount' = IF h.kept THEN known ELSE 0
  BY DEF Change
<1>2. /\ RightNodes(root, k, h.parent, h.count)
      /\ h.kept => TrueCount(k)[root] = TrueCount(kids)[root]
      /\ PagesListed(h.list) /\ TrueCache(k, h.cache)
  BY DEF Handled
<1>3. h.count \in [Inner -> Nat]
  <2>1. PICK true : true = TrueCount(k)
    OBVIOUS
  <2>2. true \in [Nodes -> Nat]
    BY <2>1, TrueNumbers
  <2>3. h.count = [m \in Inner |-> true[m]]
    BY <2>1 DEF Handled
  <2> QED BY <2>2, <2>3, NodesApart
<1>4. RightNodes(root', kids', parent', count')
  BY <1>1, <1>2
<1>5. PagesListed(pageList')
  BY <1>1, <1>2 DEF PagesListed, Filled
<1>6. TrueCache(kids', nodeCountCache')
  BY <1>1, <1>2
<1>7. pageCount' \in Nat /\ (pageCount' # 0 => root' # NoNode /\ pageCount' = TrueCount(kids')[root'])
  BY <1>1, <1>2
<1>8. count' \in [Inner -> Nat] /\ \A n \in Inner : Len(kids'[n]) <= MaxKids
  BY <1>1, <1>3
<1> QED BY <1>4, <1>5, <1>6, <1>7, <1>8 DEF TreeInv

(* A change of the array of a node of the tree. *)
LEMMA EditKeeps ==
  ASSUME TreeInv, NEW n \in Inner, IsSeen(n), NEW s, MayBecome(n, s), Len(s) <= MaxKids,
         NEW old \in Nodes \cup {NoNode}, NEW new \in Nodes \cup {NoNode}, NEW c, TrueCache(kids, c),
         NEW known \in Nat, known # 0 => root # NoNode /\ known = TrueCount(kids)[root],
         NEW added, PagesListed(added), EditKids(n, s, old, new, c, known, added)
  PROVE  TreeInv'
<1>1. PICK k : k = [kids EXCEPT ![n] = s]
  OBVIOUS
<1>2. RightNodes(root, kids, parent, count) /\ IsTree(kids) /\ PagesListed(pageList)
  BY DEF TreeInv, RightNodes
<1>3. IsTree(k) /\ ChangedAt(k, n) /\ k[n] = s
  BY <1>1, <1>2, EditTree
<1>4. \A m \in Inner : Len(k[m]) <= MaxKids
  BY <1>3 DEF ChangedAt, TreeInv
<1>5. PICK h : h = KidsNotify(k, n, old, new, c)
  OBVIOUS
<1>6. Handled(k, h)
  BY <1>2, <1>3, <1>5, KidsNotifyHandles
<1>7. Change(k, h, known, added)
  BY <1>1, <1>5 DEF EditKids
<1> QED BY <1>3, <1>4, <1>6, <1>7, ChangeKeeps

-----------------------------------------------------------------------------
(* The steps. *)

(* The lengths of edited arrays. *)
LEMMA EditLengths ==
  ASSUME IsTree(kids), NEW n \in Inner, NEW new \in Leaves \cup Inters
  PROVE  /\ \A i \in 1..(Len(kids[n]) + 1) : Len(InsertAt(kids[n], i, new)) = Len(kids[n]) + 1
         /\ \A i \in DOMAIN kids[n] : Len(RemoveAt(kids[n], i)) = Len(kids[n]) - 1
         /\ \A i \in DOMAIN kids[n] : Len(ReplaceAt(kids[n], i, new)) = Len(kids[n])
<1>0. Typed(kids)
  BY DEF IsTree, Tree
<1>1. PICK S : S = Leaves \cup Inters
  OBVIOUS
<1>2. PICK s : s = kids[n]
  OBVIOUS
<1>3. s \in Seq(S) /\ DOMAIN s = 1..Len(s) /\ Len(s) \in Nat
  BY <1>0, <1>1, <1>2, KidsTyped
<1>4. PICK l \in Nat : l = Len(s)
  BY <1>3
<1>5. ASSUME NEW i \in 1..(l + 1) PROVE Len(InsertAt(s, i, new)) = l + 1
  BY <1>1, <1>3, <1>4, InsertAtFacts, SMTT(60)
<1>6. ASSUME NEW i \in DOMAIN s PROVE Len(RemoveAt(s, i)) = l - 1
  BY <1>3, <1>4, RemoveAtFacts
<1>7. ASSUME NEW i \in DOMAIN s PROVE Len(ReplaceAt(s, i, new)) = l
  <2>1. PICK t : t = ReplaceAt(s, i, new)
    OBVIOUS
  <2>2. t = [j \in 1..l |-> IF j = i THEN new ELSE s[j]]
    BY <1>3, <1>4, <2>1 DEF ReplaceAt
  <2>3. t \in Seq(S) /\ DOMAIN t = 1..l
    <3>1. \A j \in 1..l : (IF j = i THEN new ELSE s[j]) \in S
      BY <1>1, <1>3, <1>4, ElementOfSeq
    <3> QED BY <2>2, <3>1
  <2> QED BY <1>4, <2>1, <2>3
<1> QED BY <1>2, <1>4, <1>5, <1>6, <1>7

LEMMA SeenNode ==
  ASSUME TreeInv, NEW n, n \in TreeNodes(root, kids)
  PROVE  n \in Nodes /\ root # NoNode
<1>1. PICK N, rank : Tree(kids, N, rank)
  BY DEF TreeInv, RightNodes, IsTree
<1>2. root # NoNode
  BY DEF TreeNodes
<1> QED BY <1>1, <1>2, KnownCount, SubtreeClosed DEF TreeNodes, Tree

(* A free leaf can be added anywhere. *)
LEMMA LeafMayBeAdded ==
  ASSUME TreeInv, NEW n \in Inner, NEW leaf \in Leaves, IsFree(leaf)
  PROVE  MayAdd(n, leaf)
<1>1. Typed(kids)
  BY DEF TreeInv, RightNodes, IsTree, Tree
<1> QED BY <1>1, SubtreeOf, NodesApart DEF MayAdd

LEMMA InsertLeafKeeps ==
  ASSUME TreeInv, NEW leaf \in Leaves, IsFree(leaf), NEW n \in Inner, IsSeen(n),
         NEW index \in 1..(Len(kids[n]) + 1), NEW c, TrueCache(kids, c), NEW position \in Nat,
         InsertLeaf(leaf, n, index, c, position)
  PROVE  TreeInv'
<1>1. PICK s : s = InsertAt(kids[n], index, leaf)
  OBVIOUS
<1>2. IsTree(kids) /\ Typed(kids)
  BY DEF TreeInv, RightNodes, IsTree, Tree
<1>3. leaf \in Leaves \cup Inters /\ leaf \in Nodes
  BY NodesApart
<1>4. MayBecome(n, s)
  BY <1>1, <1>2, <1>3, LeafMayBeAdded, InsertEdit
<1>5. Len(s) <= MaxKids
  <2>1. Len(s) = Len(kids[n]) + 1
    BY <1>1, <1>2, <1>3, EditLengths
  <2>2. Len(kids[n]) < MaxKids /\ Len(kids[n]) \in Nat /\ MaxKids \in Nat
    BY <1>2, KidsTyped, PageTreeAssumption DEF InsertLeaf
  <2> QED BY <2>1, <2>2
<1>6. PICK added : added = Entry(position, leaf)
  OBVIOUS
<1>7. PagesListed(added)
  BY <1>6 DEF PagesListed, Entry
<1>8. PICK known : known = PageCount
  OBVIOUS
<1>9. known \in Nat /\ (known # 0 => root # NoNode /\ known = TrueCount(kids)[root])
  BY <1>8, KnownCount
<1>10. EditKids(n, s, NoNode, leaf, c, known, added)
  BY <1>1, <1>6, <1>8 DEF InsertLeaf
<1> QED BY <1>3, <1>4, <1>5, <1>7, <1>9, <1>10, EditKeeps

(* The array that holds a leaf, and where. *)
LEMMA Holder ==
  ASSUME TreeInv, NEW leaf \in Leaves \cup {NoNode}, NEW n, n = HolderOf(leaf), IsHeldBy(leaf, n)
  PROVE  /\ leaf \in Leaves /\ n \in Inner /\ IsSeen(n)
         /\ Min(IndexOf(n, leaf)) \in DOMAIN kids[n]
         /\ Min(IndexOf(n, leaf)) \in 1..Len(kids[n])
         /\ kids[n][Min(IndexOf(n, leaf))] = leaf
<1>1. leaf \in Leaves /\ n \in TreeNodes(root, kids) /\ IndexOf(n, leaf) # {}
  BY DEF IsHeldBy
<1>2. n \in Inner
  <2>1. n \in Inner \cup {NoNode}
    BY <1>1, NodesApart DEF HolderOf, TreeInv, RightNodes
  <2>2. n # NoNode
    BY <1>1, SeenNode, PageTreeAssumption
  <2> QED BY <2>1, <2>2
<1>3. PICK I : I = IndexOf(n, leaf)
  OBVIOUS
<1>4. Typed(kids)
  BY DEF TreeInv, RightNodes, IsTree, Tree
<1>5. DOMAIN kids[n] = 1..Len(kids[n])
  BY <1>2, <1>4, KidsTyped
<1>6. I \subseteq Nat /\ I # {}
  BY <1>1, <1>3, <1>5 DEF IndexOf
<1>7. Min(I) \in I
  BY <1>6, MinFacts
<1>8. Min(I) \in DOMAIN kids[n] /\ kids[n][Min(I)] = leaf
  BY <1>3, <1>7 DEF IndexOf
<1> QED BY <1>1, <1>2, <1>3, <1>5, <1>8 DEF IsSeen

LEMMA InsertBesideKeeps ==
  ASSUME TreeInv, root # NoNode, NEW leaf \in Leaves, IsFree(leaf), NEW pos, NEW append \in {0, 1},
         NEW position \in Nat,
         InsertBeside(leaf, FindPage(kids, CountedCache, pos), append, position)
  PROVE  TreeInv'
<1>1. PICK found : found = FindPage(kids, CountedCache, pos)
  OBVIOUS
<1>2. found.leaf \in Leaves \cup {NoNode} /\ TrueCache(kids, Counted(kids, CountedCache, found.asked))
  BY <1>1, FoundPage
<1>3. PICK n : n = HolderOf(found.leaf)
  OBVIOUS
<1>4. PICK i : i = Min(IndexOf(n, found.leaf))
  OBVIOUS
<1>5. PICK c : c = Counted(kids, CountedCache, found.asked)
  OBVIOUS
<1>6. IsHeldBy(found.leaf, n) /\ InsertLeaf(leaf, n, i + append, c, position)
  BY <1>1, <1>3, <1>4, <1>5 DEF InsertBeside
<1>7. n \in Inner /\ IsSeen(n) /\ i \in 1..Len(kids[n])
  BY <1>2, <1>3, <1>4, <1>6, Holder
<1>8. i + append \in 1..(Len(kids[n]) + 1)
  <2>1. Typed(kids)
    BY DEF TreeInv, RightNodes, IsTree, Tree
  <2>2. PICK l \in Nat : l = Len(kids[n])
    BY <1>7, <2>1, KidsTyped
  <2> QED BY <1>7, <2>2
<1> QED BY <1>2, <1>5, <1>6, <1>7, <1>8, InsertLeafKeeps

LEMMA InsertPageKeeps ==
  ASSUME TreeInv, NEW leaf, NEW pos \in 1..(PageCount + 1), InsertPage(leaf, pos)
  PROVE  TreeInv'
<1>1. root # NoNode /\ leaf \in Leaves /\ IsFree(leaf)
  BY DEF InsertPage
<1>2. PageCount \in Nat /\ TrueCache(kids, CountedCache) /\ root \in Inner /\ root \in Nodes
  BY <1>1, KnownCount
<1>3. Typed(kids)
  BY DEF TreeInv, RightNodes, IsTree, Tree
<1>4. CASE PageCount = 0 /\ InsertLeaf(leaf, root, 1, CountedCache, 1)
  <2>1. IsSeen(root)
    BY <1>1, <1>2, <1>3, SubtreeParts DEF IsSeen, TreeNodes
  <2>2. PICK l \in Nat : l = Len(kids[root])
    BY <1>2, <1>3, KidsTyped
  <2>3. 1 \in 1..(Len(kids[root]) + 1)
    BY <2>2
  <2>4. InsertLeaf(leaf, root, 1, CountedCache, 1)
    BY <1>4
  <2> QED BY <1>1, <1>2, <2>1, <2>3, <2>4, InsertLeafKeeps
<1>5. CASE ~(PageCount = 0 /\ InsertLeaf(leaf, root, 1, CountedCache, 1))
  <2>1. PICK append : append = IF pos > PageCount THEN 1 ELSE 0
    OBVIOUS
  <2>2. PICK at : at = IF append = 1 THEN PageCount ELSE pos
    OBVIOUS
  <2>3. InsertBeside(leaf, FindPage(kids, CountedCache, at), append, at + append)
    BY <1>5, <2>1, <2>2 DEF InsertPage
  <2>4. append \in {0, 1} /\ at + append \in Nat
    BY <1>2, <2>1, <2>2
  <2> QED BY <1>1, <2>3, <2>4, InsertBesideKeeps
<1> QED BY <1>4, <1>5

LEMMA RemovePageKeeps ==
  ASSUME TreeInv, NEW pos, RemovePage(pos)
  PROVE  TreeInv'
<1>0. root # NoNode
  BY DEF RemovePage
<1>1. PICK found : found = FindPage(kids, CountedCache, pos)
  OBVIOUS
<1>2. found.leaf \in Leaves \cup {NoNode} /\ TrueCache(kids, Counted(kids, CountedCache, found.asked))
  BY <1>0, <1>1, FoundPage
<1>3. PICK n : n = HolderOf(found.leaf)
  OBVIOUS
<1>4. PICK i : i = Min(IndexOf(n, found.leaf))
  OBVIOUS
<1>5. PICK c, s : c = Counted(kids, CountedCache, found.asked) /\ s = RemoveAt(kids[n], i)
  OBVIOUS
<1>6. PICK known, old : known = PageCount /\ old = found.leaf
  OBVIOUS
<1>7. IsHeldBy(old, n) /\ EditKids(n, s, old, NoNode, c, known, NoEntries)
  BY <1>1, <1>3, <1>4, <1>5, <1>6 DEF RemovePage, RemoveFound
<1>8. n \in Inner /\ IsSeen(n) /\ i \in DOMAIN kids[n] /\ old \in Leaves
  BY <1>2, <1>3, <1>4, <1>6, <1>7, Holder
<1>9. IsTree(kids) /\ Typed(kids)
  BY DEF TreeInv, RightNodes, IsTree, Tree
<1>10. MayBecome(n, s)
  BY <1>5, <1>8, <1>9, RemoveEdit
<1>11. Len(s) <= MaxKids
  <2>1. Len(s) = Len(kids[n]) - 1
    BY <1>5, <1>8, <1>9, EditLengths
  <2>2. Len(kids[n]) \in Nat /\ Len(kids[n]) <= MaxKids /\ MaxKids \in Nat
    BY <1>8, <1>9, KidsTyped, PageTreeAssumption DEF TreeInv
  <2> QED BY <2>1, <2>2
<1>12. known \in Nat /\ (known # 0 => root # NoNode /\ known = TrueCount(kids)[root])
  BY <1>6, KnownCount
<1>13. PagesListed(NoEntries) /\ old \in Nodes \cup {NoNode} /\ TrueCache(kids, c)
  BY <1>2, <1>5, <1>8, NothingKnown, NodesApart
<1> QED BY <1>7, <1>8, <1>10, <1>11, <1>12, <1>13, EditKeeps

(* The program changes an array. *)
LEMMA ChangeKidsKeeps ==
  ASSUME TreeInv, NEW n \in Inner, IsSeen(n), NEW s, MayBecome(n, s), Len(s) <= MaxKids,
         NEW old \in Nodes \cup {NoNode}, NEW new \in Nodes \cup {NoNode},
         ChangeKids(n, s, old, new)
  PROVE  TreeInv'
<1>1. PICK known, c : known = pageCount /\ c = nodeCountCache
  OBVIOUS
<1>2. /\ known \in Nat /\ (known # 0 => root # NoNode /\ known = TrueCount(kids)[root])
      /\ TrueCache(kids, c)
  BY <1>1 DEF TreeInv
<1>3. EditKids(n, s, old, new, c, known, NoEntries)
  BY <1>1 DEF ChangeKids
<1> QED BY <1>2, <1>3, NothingKnown, EditKeeps

LEMMA AddKidKeeps ==
  ASSUME TreeInv, NEW n \in Inner, NEW i, NEW new \in Leaves \cup Inters, AddKid(n, i, new)
  PROVE  TreeInv'
<1>1. PICK s : s = InsertAt(kids[n], i, new)
  OBVIOUS
<1>2. /\ IsSeen(n) /\ MayAdd(n, new) /\ Len(kids[n]) < MaxKids /\ i \in 1..(Len(kids[n]) + 1)
      /\ ChangeKids(n, s, NoNode, new)
  BY <1>1 DEF AddKid
<1>3. IsTree(kids) /\ Typed(kids)
  BY DEF TreeInv, RightNodes, IsTree, Tree
<1>4. MayBecome(n, s)
  BY <1>1, <1>2, <1>3, InsertEdit
<1>5. Len(s) <= MaxKids
  <2>1. Len(s) = Len(kids[n]) + 1
    BY <1>1, <1>2, <1>3, EditLengths
  <2>2. Len(kids[n]) \in Nat /\ MaxKids \in Nat
    BY <1>3, KidsTyped, PageTreeAssumption
  <2> QED BY <1>2, <2>1, <2>2
<1> QED BY <1>2, <1>4, <1>5, NodesApart, ChangeKidsKeeps

LEMMA RemoveKidKeeps ==
  ASSUME TreeInv, NEW n \in Inner, NEW i, RemoveKid(n, i)
  PROVE  TreeInv'
<1>1. PICK s, old : s = RemoveAt(kids[n], i) /\ old = kids[n][i]
  OBVIOUS
<1>2. IsSeen(n) /\ i \in DOMAIN kids[n] /\ ChangeKids(n, s, old, NoNode)
  BY <1>1 DEF RemoveKid
<1>3. IsTree(kids) /\ Typed(kids)
  BY DEF TreeInv, RightNodes, IsTree, Tree
<1>4. MayBecome(n, s)
  BY <1>1, <1>2, <1>3, RemoveEdit
<1>5. old \in Leaves \cup Inters /\ old \in Nodes
  BY <1>1, <1>2, <1>3, KidsTyped
<1>6. Len(s) <= MaxKids
  <2>1. Len(s) = Len(kids[n]) - 1
    BY <1>1, <1>2, <1>3, <1>5, EditLengths
  <2>2. Len(kids[n]) \in Nat /\ Len(kids[n]) <= MaxKids /\ MaxKids \in Nat
    BY <1>3, KidsTyped, PageTreeAssumption DEF TreeInv
  <2> QED BY <2>1, <2>2
<1> QED BY <1>2, <1>4, <1>5, <1>6, ChangeKidsKeeps

LEMMA ReplaceKidKeeps ==
  ASSUME TreeInv, NEW n \in Inner, NEW i, NEW new \in Leaves \cup Inters, ReplaceKid(n, i, new)
  PROVE  TreeInv'
<1>1. PICK s, old : s = ReplaceAt(kids[n], i, new) /\ old = kids[n][i]
  OBVIOUS
<1>2. IsSeen(n) /\ MayAdd(n, new) /\ i \in DOMAIN kids[n] /\ ChangeKids(n, s, old, new)
  BY <1>1 DEF ReplaceKid
<1>3. IsTree(kids) /\ Typed(kids)
  BY DEF TreeInv, RightNodes, IsTree, Tree
<1>4. MayBecome(n, s)
  BY <1>1, <1>2, <1>3, ReplaceEdit
<1>5. old \in Nodes /\ new \in Nodes
  BY <1>1, <1>2, <1>3, KidsTyped, NodesApart
<1>6. Len(s) <= MaxKids
  <2>1. Len(s) = Len(kids[n])
    BY <1>1, <1>2, <1>3, EditLengths
  <2> QED BY <2>1 DEF TreeInv
<1> QED BY <1>2, <1>4, <1>5, <1>6, ChangeKidsKeeps

LEMMA SetKidsKeeps ==
  ASSUME TreeInv, NEW n \in Inner, NEW s \in Arrays, SetKids(n, s)
  PROVE  TreeInv'
<1>1. PICK k : k = [kids EXCEPT ![n] = s]
  OBVIOUS
<1>2. PICK h, known : h = NodeNotify(k, n, nodeCountCache) /\ known = pageCount
  OBVIOUS
<1>3. /\ IsSeen(n) /\ \A i \in DOMAIN s : MayAdd(n, s[i]) \/ s[i] \in ToSet(kids[n])
      /\ Change(k, h, known, NoEntries)
  BY <1>1, <1>2 DEF SetKids
<1>4. RightNodes(root, kids, parent, count) /\ IsTree(kids) /\ PagesListed(pageList)
  BY DEF TreeInv, RightNodes
<1>5. MayBecome(n, s)
  BY <1>3, ArraysAssumption DEF MayBecome
<1>6. IsTree(k) /\ ChangedAt(k, n) /\ k[n] = s
  BY <1>1, <1>4, <1>5, EditTree
<1>7. \A m \in Inner : Len(k[m]) <= MaxKids
  BY <1>6, ArraysAssumption DEF ChangedAt, TreeInv
<1>8. TrueCache(kids, nodeCountCache)
  BY DEF TreeInv
<1>9. Handled(k, h)
  BY <1>2, <1>3, <1>4, <1>6, <1>8, NodeNotifyHandles
<1>10. known \in Nat /\ (known # 0 => root # NoNode /\ known = TrueCount(kids)[root])
  BY <1>2 DEF TreeInv
<1> QED BY <1>3, <1>6, <1>7, <1>9, <1>10, NothingKnown, ChangeKeeps

LEMMA GetPageCountKeeps ==
  ASSUME TreeInv, GetPageCount
  PROVE  TreeInv'
<1>1. /\ pageCount' = PageCount /\ nodeCountCache' = CountedCache
      /\ root' = root /\ kids' = kids /\ parent' = parent /\ count' = count /\ pageList' = pageList
  BY DEF GetPageCount, tree
<1>2. /\ PageCount \in Nat /\ TrueCache(kids, CountedCache)
      /\ PageCount # 0 => root # NoNode /\ PageCount = TrueCount(kids)[root]
  BY KnownCount
<1>3. PICK known, c : known = PageCount /\ c = CountedCache
  OBVIOUS
<1>4. pageCount' = known /\ nodeCountCache' = c /\ known \in Nat /\ TrueCache(kids, c)
      /\ (known # 0 => root # NoNode /\ known = TrueCount(kids)[root])
  BY <1>1, <1>2, <1>3
<1> QED BY <1>1, <1>4 DEF TreeInv

LEMMA GetPageKeeps ==
  ASSUME TreeInv, NEW pos, GetPage(pos)
  PROVE  TreeInv'
<1>1. PICK found : found = FindPage(kids, CountedCache, pos)
  OBVIOUS
<1>2. PICK known, c : known = PageCount /\ c = Counted(kids, CountedCache, found.asked)
  OBVIOUS
<1>3. /\ root # NoNode /\ pos \in 1..PageCount
      /\ pageList' = IF found.leaf = NoNode THEN pageList ELSE Filled(pageList, Entry(pos, found.leaf))
      /\ pageCount' = known /\ nodeCountCache' = c
      /\ root' = root /\ kids' = kids /\ parent' = parent /\ count' = count
  BY <1>1, <1>2 DEF GetPage, tree
<1>4. known \in Nat /\ (known # 0 => root # NoNode /\ known = TrueCount(kids)[root])
  BY <1>2, KnownCount
<1>5. found.leaf \in Leaves \cup {NoNode} /\ TrueCache(kids, c)
  BY <1>1, <1>2, <1>3, FoundPage
<1>6. pos \in Nat
  BY <1>2, <1>3, <1>4
<1>7. PagesListed(pageList')
  BY <1>3, <1>5, <1>6 DEF PagesListed, Filled, Entry, TreeInv
<1> QED BY <1>3, <1>4, <1>5, <1>7 DEF TreeInv

LEMMA SetRootKeeps ==
  ASSUME TreeInv, NEW r, SetRoot(r)
  PROVE  TreeInv'
<1>1. /\ r \in Roots \cup {NoNode} /\ root' = r
      /\ pageList' = NoEntries /\ pageCount' = 0 /\ nodeCountCache' = NoEntries
      /\ kids' = kids /\ parent' = parent /\ count' = count
  BY DEF SetRoot
<1>2. RightNodes(root', kids', parent', count')
  BY <1>1 DEF TreeInv, RightNodes
<1> QED BY <1>1, <1>2, NothingKnown DEF TreeInv

LEMMA ShowRevisionKeeps ==
  ASSUME TreeInv, RightDocs, NEW d \in Docs, ShowRevision(d)
  PROVE  TreeInv'
<1>1. /\ root' = d.root /\ kids' = d.kids /\ parent' = d.parent /\ count' = d.count
      /\ pageList' = NoEntries /\ pageCount' = 0 /\ nodeCountCache' = NoEntries
  BY DEF ShowRevision
<1>2. /\ RightNodes(root', kids', parent', count')
      /\ count' \in [Inner -> Nat] /\ \A n \in Inner : Len(kids'[n]) <= MaxKids
  BY <1>1, DocRight
<1>3. PagesListed(pageList') /\ TrueCache(kids', nodeCountCache')
  BY <1>1, NothingKnown
<1> QED BY <1>1, <1>2, <1>3 DEF TreeInv

LEMMA TreeInvStep ==
  ASSUME RightDocs, TreeInv, [PageTreeNext]_treeVars
  PROVE  TreeInv'
<1>1. CASE UNCHANGED treeVars
  BY <1>1 DEF treeVars, tree, TreeInv
<1>2. CASE GetPageCount
  BY <1>2, GetPageCountKeeps
<1>3. CASE \E pos \in 1..PageCount : GetPage(pos)
  BY <1>3, GetPageKeeps
<1>4. CASE \E leaf \in Leaves : \E pos \in 1..(PageCount + 1) : InsertPage(leaf, pos)
  BY <1>4, InsertPageKeeps
<1>5. CASE \E pos \in 1..PageCount : RemovePage(pos)
  BY <1>5, RemovePageKeeps
<1>6. CASE \E n \in Inner : \E i \in 1..MaxKids : \E new \in Leaves \cup Inters : AddKid(n, i, new)
  BY <1>6, AddKidKeeps
<1>7. CASE \E n \in Inner : \E i \in 1..MaxKids : RemoveKid(n, i)
  BY <1>7, RemoveKidKeeps
<1>8. CASE \E n \in Inner : \E i \in 1..MaxKids : \E new \in Leaves \cup Inters : ReplaceKid(n, i, new)
  BY <1>8, ReplaceKidKeeps
<1>9. CASE \E n \in Inner : \E s \in Arrays : SetKids(n, s)
  BY <1>9, SetKidsKeeps
<1>10. CASE \E r \in Roots \cup {NoNode} : SetRoot(r)
  BY <1>10, SetRootKeeps
<1>11. CASE \E d \in Docs : ShowRevision(d)
  BY <1>11, ShowRevisionKeeps
<1> QED BY <1>1, <1>2, <1>3, <1>4, <1>5, <1>6, <1>7, <1>8, <1>9, <1>10, <1>11 DEF PageTreeNext

LEMMA TreeInvAlways ==
  ASSUME RightDocs
  PROVE  PageTreeSpec => []TreeInv
<1>1. PageTreeInit => TreeInv
  BY TreeInvInit
<1>2. TreeInv /\ [PageTreeNext]_treeVars => TreeInv'
  BY TreeInvStep
<1> QED BY <1>1, <1>2, PTL DEF PageTreeSpec

-----------------------------------------------------------------------------
(* The places of the pages. *)

(* A page below a node is one below one of its children. *)
LEMMA OrderPart ==
  ASSUME NEW k, IsTree(k), NEW order, NEW size, InOrder(k, order, size), NEW n \in Inner,
         NEW p \in 1..size[n]
  PROVE  \E i \in DOMAIN k[n] : \E q \in 1..size[k[n][i]] : p = Before(k, size, n, i) + q
<1>1. Typed(k)
  BY DEF IsTree, Tree
<1>2. PICK l \in Nat : l = Len(k[n]) /\ DOMAIN k[n] = 1..l
  BY <1>1, KidsTyped
<1>3. Fronts(k, size, n, l) /\ size[n] = Before(k, size, n, l + 1)
  BY <1>2 DEF InOrder
<1>4. size \in [Nodes -> Nat]
  BY DEF InOrder
<1>5. PICK b : b = [i \in 1..(l + 1) |-> Before(k, size, n, i)]
  OBVIOUS
<1>6. /\ b[1] = 0 /\ \A i \in 1..(l + 1) : b[i] \in Nat
      /\ \A i \in 1..l : b[i + 1] = b[i] + size[k[n][i]]
  <2>1. \A i \in 1..l : i \in 1..(l + 1) /\ i + 1 \in 1..(l + 1)
    OBVIOUS
  <2> QED BY <1>3, <1>5, <2>1 DEF Fronts
<1>7. size[n] = b[l + 1]
  BY <1>3, <1>5
<1> DEFINE I == {i \in 1..l : p <= b[i + 1]}
<1>8. l \in I
  <2>1. p \in Nat /\ 1 <= p /\ p <= b[l + 1]
    BY <1>6, <1>7
  <2>2. l # 0
    BY <1>6, <2>1
  <2> QED BY <2>1, <2>2
<1>9. PICK i \in I : \A j \in I : i <= j
  <2>1. I \subseteq Nat
    OBVIOUS
  <2> HIDE DEF I
  <2> QED BY <1>8, <2>1, LeastNat
<1>10. i \in 1..l /\ p <= b[i + 1] /\ p \in Nat /\ 1 <= p
  BY <1>6, <1>7, <1>9
<1>11. b[i] < p
  <2>1. CASE i = 1
    BY <1>6, <1>10, <2>1
  <2>2. CASE i # 1
    <3>1. i - 1 \in 1..l /\ ~(i <= i - 1)
      BY <1>10, <2>2
    <3>2. i - 1 \notin I
      BY <1>9, <3>1
    <3>3. ~(p <= b[i])
      BY <3>1, <3>2
    <3>4. b[i] \in Nat
      BY <1>6, <1>10
    <3> QED BY <1>10, <3>3, <3>4
  <2> QED BY <2>1, <2>2
<1>12. PICK x, y : x = b[i] /\ y = size[k[n][i]]
  OBVIOUS
<1>13. x \in Nat /\ y \in Nat /\ x < p /\ p <= x + y
  <2>1. k[n][i] \in Nodes
    BY <1>1, <1>2, <1>10, KidsTyped
  <2>2. y \in Nat
    BY <1>4, <1>12, <2>1
  <2> QED BY <1>6, <1>10, <1>11, <1>12, <2>2
<1>14. p - x \in 1..y /\ p = x + (p - x)
  BY <1>10, <1>13
<1>15. Before(k, size, n, i) = x
  BY <1>5, <1>10, <1>12
<1> QED BY <1>2, <1>10, <1>12, <1>14, <1>15

(* The pages of a node are below it. *)
LEMMA OrderBelongs ==
  ASSUME NEW k, IsTree(k), NEW order, NEW size, InOrder(k, order, size)
  PROVE  \A n \in Nodes : \A p \in 1..size[n] : order[n][p] \in Subtree(k, n) /\ order[n][p] \in Leaves
<1>0. PICK N, rank : Tree(k, N, rank)
  BY DEF IsTree
<1>1. Typed(k) /\ Falling(k, rank) /\ rank \in [Nodes -> Nat]
  BY <1>0 DEF Tree, Falling
<1> DEFINE X == {n \in Nodes : \A p \in 1..size[n] : order[n][p] \in Subtree(k, n) /\ order[n][p] \in Leaves}
<1>2. Falls(Nodes, rank, X)
  <2> SUFFICES ASSUME NEW n \in Nodes, \A m \in Nodes : rank[m] < rank[n] => m \in X,
                      NEW p \in 1..size[n]
               PROVE  order[n][p] \in Subtree(k, n) /\ order[n][p] \in Leaves
    BY DEF Falls
  <2>1. CASE n \in Leaves
    <3>1. order[n] = <<n>> /\ size[n] = 1
      BY <2>1 DEF InOrder
    <3>2. order[n][p] = n
      BY <3>1
    <3> QED BY <1>1, <2>1, <3>2, SubtreeParts
  <2>2. CASE n \in Inner
    <3>1. PICK i \in DOMAIN k[n] : \E q \in 1..size[k[n][i]] : p = Before(k, size, n, i) + q
      BY <2>2, OrderPart
    <3>2. PICK q \in 1..size[k[n][i]] : p = Before(k, size, n, i) + q
      BY <3>1
    <3>3. order[n][p] = order[k[n][i]][q]
      BY <2>2, <3>2 DEF InOrder
    <3>4. k[n][i] \in Nodes /\ rank[k[n][i]] < rank[n]
      BY <1>1, <2>2, KidsTyped DEF Falling
    <3>5. order[k[n][i]][q] \in Subtree(k, k[n][i]) /\ order[k[n][i]][q] \in Leaves
      BY <3>4
    <3> QED BY <1>1, <2>2, <3>3, <3>5, SubtreeParts
  <2> QED BY <2>1, <2>2, NodesApart
<1>3. \A n \in Nodes : n \in X
  <2> HIDE DEF X
  <2> QED BY <1>1, <1>2, RankInduction
<1> QED BY <1>3

(* No page is at two positions. *)
LEMMA OrderOnce ==
  ASSUME NEW k, IsTree(k), NEW order, NEW size, InOrder(k, order, size)
  PROVE  \A n \in Nodes : \A p \in 1..size[n], q \in 1..size[n] : order[n][p] = order[n][q] => p = q
<1>0. PICK N, rank : Tree(k, N, rank)
  BY DEF IsTree
<1>1. Typed(k) /\ Falling(k, rank) /\ rank \in [Nodes -> Nat]
  BY <1>0 DEF Tree, Falling
<1>2. \A n \in Nodes : \A p \in 1..size[n] : order[n][p] \in Subtree(k, n) /\ order[n][p] \in Leaves
  BY OrderBelongs
<1> DEFINE X == {n \in Nodes : \A p \in 1..size[n], q \in 1..size[n] : order[n][p] = order[n][q] => p = q}
<1>3. Falls(Nodes, rank, X)
  <2> SUFFICES ASSUME NEW n \in Nodes, \A m \in Nodes : rank[m] < rank[n] => m \in X,
                      NEW p \in 1..size[n], NEW q \in 1..size[n], order[n][p] = order[n][q]
               PROVE  p = q
    BY DEF Falls
  <2>1. CASE n \in Leaves
    <3>1. size[n] = 1
      BY <2>1 DEF InOrder
    <3> QED BY <3>1
  <2>2. CASE n \in Inner
    <3>1. PICK i \in DOMAIN k[n] : \E x \in 1..size[k[n][i]] : p = Before(k, size, n, i) + x
      BY <2>2, OrderPart
    <3>2. PICK x \in 1..size[k[n][i]] : p = Before(k, size, n, i) + x
      BY <3>1
    <3>3. PICK j \in DOMAIN k[n] : \E y \in 1..size[k[n][j]] : q = Before(k, size, n, j) + y
      BY <2>2, OrderPart
    <3>4. PICK y \in 1..size[k[n][j]] : q = Before(k, size, n, j) + y
      BY <3>3
    <3>5. order[n][p] = order[k[n][i]][x] /\ order[n][q] = order[k[n][j]][y]
      BY <2>2, <3>2, <3>4, SMTT(60) DEF InOrder
    <3>6. PICK leaf : leaf = order[n][p]
      OBVIOUS
    <3>7. /\ k[n][i] \in Nodes /\ rank[k[n][i]] < rank[n]
          /\ k[n][j] \in Nodes
      BY <1>1, <2>2, KidsTyped DEF Falling
    <3>8. leaf \in Subtree(k, k[n][i]) /\ leaf \in Subtree(k, k[n][j]) /\ leaf \in Nodes
      BY <1>2, <3>5, <3>6, <3>7, NodesApart
    <3>9. i = j
      BY <1>0, <2>2, <3>8, SiblingsApart
    <3>10. x = y
      BY <3>5, <3>7, <3>9
    <3> QED BY <3>2, <3>4, <3>9, <3>10
  <2> QED BY <2>1, <2>2, NodesApart
<1>4. \A n \in Nodes : n \in X
  <2> HIDE DEF X
  <2> QED BY <1>1, <1>3, RankInduction
<1> QED BY <1>4

(* What is known of the order of the pages of the document. *)
LEMMA PagesOf ==
  ASSUME TreeInv, root # NoNode, NEW order, order = PageOrder(root, kids)
  PROVE  /\ order = OrderBelow(kids)[root] /\ order \in Seq(Leaves)
         /\ Len(order) = TrueCount(kids)[root] /\ DOMAIN order = 1..TrueCount(kids)[root]
         /\ \A p \in DOMAIN order : order[p] \in Subtree(kids, root) /\ order[p] \in Leaves
         /\ \A p \in DOMAIN order, q \in DOMAIN order : order[p] = order[q] => p = q
<1>1. order = OrderBelow(kids)[root]
  BY PageOrderIs
<1>2. IsTree(kids) /\ root \in Nodes
  BY KnownCount DEF TreeInv, RightNodes
<1>3. PICK all, size : all = OrderBelow(kids) /\ size = TrueCount(kids)
  OBVIOUS
<1>4. InOrder(kids, all, size)
  BY <1>2, <1>3, OrderIs
<1>5. order \in Seq(Leaves) /\ Len(order) = size[root]
  BY <1>1, <1>2, <1>3, <1>4 DEF InOrder
<1>6. DOMAIN order = 1..size[root]
  BY <1>5
<1>7. \A p \in 1..size[root] : order[p] \in Subtree(kids, root) /\ order[p] \in Leaves
  BY <1>1, <1>2, <1>3, <1>4, OrderBelongs
<1>8. \A p \in 1..size[root], q \in 1..size[root] : order[p] = order[q] => p = q
  BY <1>1, <1>2, <1>3, <1>4, OrderOnce
<1> QED BY <1>1, <1>3, <1>5, <1>6, <1>7, <1>8

LEMMA NoPages ==
  ASSUME root = NoNode
  PROVE  PageOrder(root, kids) = <<>> /\ DOMAIN PageOrder(root, kids) = {}
BY PageOrderIs

-----------------------------------------------------------------------------
(* The theorems. *)

LEMMA TypesHold ==
  ASSUME TreeInv PROVE PageTreeTypeOK
<1>1. Typed(kids) /\ root \in Roots \cup {NoNode} /\ parent \in [Nodes -> Inner \cup {NoNode}]
  BY DEF TreeInv, RightNodes, IsTree, Tree
<1>2. \A n \in Inner : kids[n] \in Seq(Leaves \cup Inters) /\ Len(kids[n]) <= MaxKids
  BY <1>1, KidsTyped DEF TreeInv
<1>3. PICK true : true = TrueCount(kids)
  OBVIOUS
<1>4. true \in [Nodes -> Nat]
  BY <1>3, TrueNumbers DEF TreeInv, RightNodes
<1>5. \A n \in DOMAIN nodeCountCache : n \in Inner /\ nodeCountCache[n] \in Nat
  BY <1>3, <1>4, NodesApart DEF TreeInv, TrueCache
<1> QED BY <1>1, <1>2, <1>5 DEF TreeInv, PagesListed, PageTreeTypeOK

LEMMA EntriesHold ==
  ASSUME TreeInv PROVE TreeConsistent
<1>1. PICK N, rank : Tree(kids, N, rank)
  BY DEF TreeInv, RightNodes, IsTree
<1>2. ASSUME NEW n \in TreeNodes(root, kids) \ Leaves PROVE n \in Inner
  BY <1>2, SeenNode, NodesApart
<1> QED BY <1>2 DEF TreeInv, RightNodes, RightParents, RightCounts, TreeConsistent

LEMMA CountsHold ==
  ASSUME TreeInv PROVE RememberedCountsTrue
<1>1. ASSUME pageCount # 0 PROVE pageCount = Len(PageOrder(root, kids))
  <2>1. root # NoNode /\ pageCount = TrueCount(kids)[root]
    BY <1>1 DEF TreeInv
  <2> QED BY <2>1, PagesOf
<1> QED BY <1>1 DEF TreeInv, TrueCache, RememberedCountsTrue

LEMMA SearchesHold ==
  ASSUME TreeInv PROVE PagesAreFound
<1> SUFFICES ASSUME NEW p \in DOMAIN PageOrder(root, kids),
                    NEW leaf, leaf = PageOrder(root, kids)[p]
             PROVE  /\ FindPage(kids, CountedCache, p).leaf = leaf
                    /\ NodePosition(kids, CountedCache, leaf).pos = p
  BY Zenon DEF PagesAreFound
<1>1. root # NoNode
  BY NoPages
<1>2. PICK order, size : order = PageOrder(root, kids) /\ size = TrueCount(kids)
  OBVIOUS
<1>3. /\ order = OrderBelow(kids)[root] /\ order \in Seq(Leaves)
      /\ Len(order) = size[root] /\ DOMAIN order = 1..size[root]
      /\ \A q \in DOMAIN order : order[q] \in Subtree(kids, root) /\ order[q] \in Leaves
      /\ \A a \in DOMAIN order, b \in DOMAIN order : order[a] = order[b] => a = b
  BY <1>1, <1>2, PagesOf
<1>4. p \in 1..size[root] /\ leaf = order[p]
  BY <1>2, <1>3
<1>5. /\ IsTree(kids) /\ root \in Roots /\ root \in Nodes
      /\ KidsCount(kids, CountedCache) = size
  <2>1. IsTree(kids) /\ TrueCache(kids, CountedCache)
    BY KnownCount DEF TreeInv, RightNodes
  <2> QED BY <1>1, <1>2, <2>1, KnownCount, TrueCacheCounts
<1>6. FindPage(kids, CountedCache, p).leaf = leaf
  BY <1>2, <1>3, <1>4, <1>5, FindPageRight
<1>7. leaf \in Subtree(kids, root) /\ leaf \in Leaves /\ leaf \in Nodes
  BY <1>3, <1>4, NodesApart
<1>8. PICK at : at = NodePosition(kids, CountedCache, leaf).pos
  OBVIOUS
<1>9. PICK all : all = OrderBelow(kids)
  OBVIOUS
<1>10. PlacedAt(all, size, root, leaf, at)
  BY <1>2, <1>5, <1>7, <1>8, <1>9, NodePositionRight
<1>11. InOrder(kids, all, size)
  BY <1>2, <1>5, <1>9, OrderIs
<1>12. all[leaf] = <<leaf>> /\ size[leaf] = 1 /\ size[root] \in Nat
  BY <1>5, <1>7, <1>11 DEF InOrder
<1>13. /\ at \in Nat /\ 1 <= at /\ (at - 1) + 1 <= size[root]
       /\ all[root][(at - 1) + 1] = all[leaf][1]
  BY <1>10, <1>12 DEF PlacedAt
<1>14. at \in 1..size[root] /\ order[at] = leaf
  <2>1. (at - 1) + 1 = at
    BY <1>13
  <2> QED BY <1>3, <1>9, <1>12, <1>13, <2>1
<1>15. at = p
  BY <1>3, <1>4, <1>14
<1> QED BY <1>6, <1>8, <1>15

(* From documents whose entries are right the state has its types, for     *)
(* every set of nodes: a tree of known nodes, pages at positions (CPdf's   *)
(* pageList, pageCount and nodeCountCache).                                *)
THEOREM PageTreeTypes ==
  ASSUME RightDocs
  PROVE  PageTreeSpec => []PageTreeTypeOK
BY TreeInvAlways, TypesHold, PTL

(* Whatever is edited, Count and Parent of every node of the tree stay     *)
(* right: consolidatePageTree, which stops at the first Count that is      *)
(* right, leaves no wrong one behind.                                      *)
THEOREM TreeAlwaysConsistent ==
  ASSUME RightDocs
  PROVE  PageTreeSpec => []TreeConsistent
BY TreeInvAlways, EntriesHold, PTL

(* What is remembered of numbers of pages is always true, although the     *)
(* observers fill the cache from an array that has changed already:        *)
(* getPageCount and getKidsCount never give an old number.                 *)
THEOREM CountsAlwaysTrue ==
  ASSUME RightDocs
  PROVE  PageTreeSpec => []RememberedCountsTrue
BY TreeInvAlways, CountsHold, PTL

(* findPageDict and getNodePosition always agree with the tree, whatever   *)
(* the cache knows.                                                        *)
THEOREM PagesAlwaysFound ==
  ASSUME RightDocs
  PROVE  PageTreeSpec => []PagesAreFound
BY TreeInvAlways, SearchesHold, PTL

=============================================================================
