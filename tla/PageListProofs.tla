-------------------------- MODULE PageListProofs --------------------------
(***************************************************************************)
(* Proofs about the list of the pages that CPdf holds: the pages are in    *)
(* their places, and each step is one of PageSequence.                     *)
(*                                                                         *)
(* The list is right when its pages are those of the order of the tree, at *)
(* their positions.  An edit of an array leaves the order as it was but    *)
(* for a segment, at every node above it (Lifted), and the list is         *)
(* corrected by what that segment was (ListCorrected).  The invariant is   *)
(* TreePlaces, with TreeInv.                                               *)
(***************************************************************************)
EXTENDS PageTreeProofs

-----------------------------------------------------------------------------
(* The number of pages in front of a node. *)

(* Those below m and in front of x, which is below m. *)
Offset(k, m, x) ==
    IF m = x THEN 0 ELSE (CHOOSE f : Searches(f, k, TrueCount(k), x))[m].pos - 1

(* They are those in front of the child with x below it, and of x below    *)
(* the child.                                                              *)
LEMMA OffsetIs ==
  ASSUME NEW k, IsTree(k), NEW m \in Inner, NEW i \in DOMAIN k[m], NEW x \in Nodes,
         x \in Subtree(k, k[m][i])
  PROVE  /\ m # x
         /\ Offset(k, m, x) = Before(k, TrueCount(k), m, i) + Offset(k, k[m][i], x)
         /\ Before(k, TrueCount(k), m, i) \in Nat /\ Offset(k, k[m][i], x) \in Nat
<1>0. PICK N, rank : Tree(k, N, rank)
  BY DEF IsTree
<1>1. Typed(k) /\ Falling(k, rank) /\ rank \in [Nodes -> Nat]
  BY <1>0 DEF Tree, Falling
<1>2. PICK size : size = TrueCount(k)
  OBVIOUS
<1>3. PICK f : f = CHOOSE g : Searches(g, k, size, x)
  OBVIOUS
<1>4. Searches(f, k, size, x)
  BY <1>3, SearchesExist
<1>s. size \in [Nodes -> Nat]
  BY <1>2, TrueNumbers
<1>5. ASSUME NEW n \in Inner, NEW j \in DOMAIN k[n], x \in Subtree(k, k[n][j])
      PROVE  /\ n # x /\ k[n][j] \in Nodes /\ rank[k[n][j]] < rank[n]
             /\ f[n].pos = (IF k[n][j] = x THEN 1 ELSE f[k[n][j]].pos) + Before(k, size, n, j)
             /\ Before(k, size, n, j) \in Nat
  <2>1. k[n][j] \in Nodes /\ rank[k[n][j]] < rank[n] /\ n \in Nodes
    BY <1>1, KidsTyped, NodesApart DEF Falling
  <2>2. rank[x] <= rank[k[n][j]]
    BY <1>1, <1>5, <2>1, SubtreeClosed
  <2>3. n # x
    BY <1>1, <2>1, <2>2
  <2>4. PICK h : h = Min(Hits(k, x, n))
    OBVIOUS
  <2>5. Hits(k, x, n) # {}
    BY <1>5 DEF Hits
  <2>6. h \in DOMAIN k[n] /\ x \in Subtree(k, k[n][h])
    BY <1>1, <2>4, <2>5, HitsFacts
  <2>7. h = j
    BY <1>0, <1>5, <2>6, SiblingsApart
  <2>8. f[n] = SearchOf(f, k, size, x, n)
    BY <1>4 DEF Searches
  <2>9. f[n] = EnterAt(f, k, size, x, n, j)
    BY <2>4, <2>5, <2>7, <2>8 DEF SearchOf
  <2>10. f[n].pos = (IF k[n][j] = x THEN 1 ELSE f[k[n][j]].pos) + Before(k, size, n, j)
    BY <2>9 DEF EnterAt, DeepOf
  <2>11. Before(k, size, n, j) \in Nat
    <3>1. PICK l \in Nat : l = Len(k[n]) /\ DOMAIN k[n] = 1..l
      BY <1>1, KidsTyped
    <3>2. Fronts(k, size, n, l)
      BY <1>1, <1>s, <3>1, FrontsHold
    <3>3. j \in 1..(l + 1)
      BY <3>1
    <3> QED BY <3>2, <3>3 DEF Fronts
  <2> QED BY <2>1, <2>3, <2>10, <2>11
<1> DEFINE X == {n \in Nodes : n # x /\ x \in Subtree(k, n) => f[n].pos \in Nat /\ f[n].pos >= 1}
<1>6. Falls(Nodes, rank, X)
  <2> SUFFICES ASSUME NEW n \in Nodes, \A c \in Nodes : rank[c] < rank[n] => c \in X,
                      n # x, x \in Subtree(k, n)
               PROVE  f[n].pos \in Nat /\ f[n].pos >= 1
    BY DEF Falls
  <2>1. n \in Inner
    BY <1>1, SubtreeOf, NodesApart
  <2>2. PICK j \in DOMAIN k[n] : x \in Subtree(k, k[n][j])
    BY <1>1, <2>1, SubtreeParts
  <2>3. /\ k[n][j] \in Nodes /\ rank[k[n][j]] < rank[n]
        /\ f[n].pos = (IF k[n][j] = x THEN 1 ELSE f[k[n][j]].pos) + Before(k, size, n, j)
        /\ Before(k, size, n, j) \in Nat
    BY <1>5, <2>1, <2>2
  <2>4. k[n][j] # x => f[k[n][j]].pos \in Nat /\ f[k[n][j]].pos >= 1
    BY <2>2, <2>3
  <2>5. PICK a, b \in Nat : /\ a = Before(k, size, n, j)
                            /\ b = (IF k[n][j] = x THEN 1 ELSE f[k[n][j]].pos) /\ b >= 1
    BY <2>3, <2>4
  <2>6. f[n].pos = b + a
    BY <2>3, <2>5
  <2> QED BY <2>5, <2>6
<1>7. \A n \in Nodes : n \in X
  <2> HIDE DEF X
  <2> QED BY <1>1, <1>6, RankInduction
<1>8. PICK c : c = k[m][i]
  OBVIOUS
<1>9. /\ m # x /\ c \in Nodes
      /\ f[m].pos = (IF c = x THEN 1 ELSE f[c].pos) + Before(k, size, m, i)
      /\ Before(k, size, m, i) \in Nat
  BY <1>5, <1>8
<1>10. c # x => f[c].pos \in Nat /\ f[c].pos >= 1
  BY <1>7, <1>8, <1>9
<1>11. PICK a, b \in Nat : /\ a = Before(k, size, m, i)
                           /\ b = (IF c = x THEN 1 ELSE f[c].pos) /\ b >= 1
  BY <1>9, <1>10
<1>12. Offset(k, m, x) = f[m].pos - 1
  BY <1>2, <1>3, <1>9 DEF Offset
<1>13. Offset(k, c, x) = b - 1
  <2>1. CASE c = x
    BY <1>11, <2>1 DEF Offset
  <2>2. CASE c # x
    BY <1>2, <1>3, <1>11, <2>2 DEF Offset
  <2> QED BY <2>1, <2>2
<1>14. f[m].pos = b + a
  BY <1>9, <1>11
<1>15. Offset(k, m, x) = a + (b - 1) /\ b - 1 \in Nat
  BY <1>11, <1>12, <1>14
<1> QED BY <1>2, <1>8, <1>9, <1>11, <1>13, <1>15

LEMMA OffsetSelf ==
  ASSUME NEW k, NEW m PROVE Offset(k, m, m) = 0
BY DEF Offset

LEMMA OffsetNat ==
  ASSUME NEW k, IsTree(k), NEW m \in Nodes, NEW x \in Subtree(k, m)
  PROVE  Offset(k, m, x) \in Nat /\ x \in Nodes
<1>0. PICK N, rank : Tree(k, N, rank)
  BY DEF IsTree
<1>1. Typed(k) /\ Falling(k, rank)
  BY <1>0 DEF Tree
<1>2. x \in Nodes
  BY <1>1, SubtreeClosed
<1>3. CASE m = x
  BY <1>2, <1>3, OffsetSelf
<1>4. CASE m # x
  <2>1. m \in Inner
    BY <1>1, <1>4, SubtreeOf, NodesApart
  <2>2. PICK i \in DOMAIN k[m] : x \in Subtree(k, k[m][i])
    BY <1>1, <1>4, <2>1, SubtreeParts
  <2>3. PICK a \in Nat : a = Before(k, TrueCount(k), m, i)
    BY <1>2, <2>1, <2>2, OffsetIs
  <2>4. PICK b \in Nat : b = Offset(k, k[m][i], x)
    BY <1>2, <2>1, <2>2, OffsetIs
  <2>5. Offset(k, m, x) = a + b
    BY <1>2, <2>1, <2>2, <2>3, <2>4, OffsetIs
  <2> QED BY <1>2, <2>5
<1> QED BY <1>3, <1>4

(* A child of a node has the pages of its node in front of it, and those   *)
(* of the children in front of it.                                         *)
LEMMA OffsetOfKid ==
  ASSUME NEW k, IsTree(k), NEW n \in Inner, NEW i \in DOMAIN k[n]
  PROVE  \A m \in Nodes : n \in Subtree(k, m) =>
            /\ k[n][i] \in Subtree(k, m)
            /\ Offset(k, m, k[n][i]) = Offset(k, m, n) + Before(k, TrueCount(k), n, i)
<1>0. PICK N, rank : Tree(k, N, rank)
  BY DEF IsTree
<1>1. Typed(k) /\ Falling(k, rank) /\ rank \in [Nodes -> Nat]
  BY <1>0 DEF Tree, Falling
<1>2. PICK x \in Nodes : x = k[n][i]
  BY <1>1, KidsTyped
<1>3. n \in Nodes /\ x \in Subtree(k, x)
  BY <1>1, <1>2, SubtreeParts, NodesApart
<1>4. PICK e \in Nat : e = Before(k, TrueCount(k), n, i)
  BY <1>2, <1>3, OffsetIs
<1> DEFINE X == {m \in Nodes : n \in Subtree(k, m) =>
                    x \in Subtree(k, m) /\ Offset(k, m, x) = Offset(k, m, n) + e}
<1>5. Falls(Nodes, rank, X)
  <2> SUFFICES ASSUME NEW m \in Nodes, \A c \in Nodes : rank[c] < rank[m] => c \in X,
                      n \in Subtree(k, m)
               PROVE  x \in Subtree(k, m) /\ Offset(k, m, x) = Offset(k, m, n) + e
    BY DEF Falls
  <2>1. CASE m = n
    <3>1. x \in Subtree(k, n)
      BY <1>1, <1>2, <1>3, SubtreeParts
    <3>2. Offset(k, n, x) = e + Offset(k, x, x)
      BY <1>2, <1>3, <1>4, OffsetIs
    <3>3. Offset(k, x, x) = 0 /\ Offset(k, n, n) = 0
      BY OffsetSelf
    <3>4. Offset(k, n, x) = e /\ Offset(k, n, n) + e = e
      BY <3>2, <3>3
    <3> QED BY <2>1, <3>1, <3>4
  <2>2. CASE m # n
    <3>1. m \in Inner
      BY <1>1, <2>2, SubtreeOf, NodesApart
    <3>2. PICK j \in DOMAIN k[m] : n \in Subtree(k, k[m][j])
      BY <1>1, <2>2, <3>1, SubtreeParts
    <3>3. PICK c \in Nodes : c = k[m][j] /\ rank[c] < rank[m]
      BY <1>1, <3>1, KidsTyped DEF Falling
    <3>4. x \in Subtree(k, c) /\ Offset(k, c, x) = Offset(k, c, n) + e
      BY <3>2, <3>3
    <3>5. PICK a \in Nat : a = Before(k, TrueCount(k), m, j)
      BY <1>3, <3>1, <3>2, OffsetIs
    <3>6. PICK b \in Nat : b = Offset(k, c, n)
      BY <1>3, <3>2, <3>3, OffsetNat
    <3>7. Offset(k, m, n) = a + b
      BY <1>3, <3>1, <3>2, <3>3, <3>5, <3>6, OffsetIs
    <3>8. Offset(k, m, x) = a + (b + e)
      BY <3>1, <3>3, <3>4, <3>5, <3>6, OffsetIs
    <3>9. x \in Subtree(k, m)
      BY <1>1, <3>1, <3>3, <3>4, SubtreeParts
    <3> QED BY <3>7, <3>8, <3>9
  <2> QED BY <2>1, <2>2
<1>6. \A m \in Nodes : m \in X
  <2> HIDE DEF X
  <2> QED BY <1>1, <1>5, RankInduction
<1> QED BY <1>2, <1>4, <1>6

(* The pages of x are found there. *)
LEMMA OffsetPlaces ==
  ASSUME NEW k, IsTree(k), NEW order, NEW size, order = OrderBelow(k), size = TrueCount(k),
         NEW m \in Nodes, NEW x \in Subtree(k, m), NEW a, a = Offset(k, m, x)
  PROVE  /\ a \in Nat /\ a + size[x] <= size[m]
         /\ \A p \in 1..size[x] : order[m][a + p] = order[x][p]
<1>0. Typed(k)
  BY DEF IsTree, Tree
<1>1. InOrder(k, order, size)
  BY OrderIs
<1>2. x \in Nodes /\ a \in Nat
  BY OffsetNat
<1>3. size[x] \in Nat /\ size[m] \in Nat
  BY <1>1, <1>2 DEF InOrder
<1>4. CASE m = x
  <2>1. a = 0
    BY <1>4, OffsetSelf
  <2> QED BY <1>2, <1>3, <1>4, <2>1
<1>5. CASE m # x
  <2>1. m \in Inner
    BY <1>0, <1>5, SubtreeOf, NodesApart
  <2>2. PICK f : f = CHOOSE g : Searches(g, k, size, x)
    OBVIOUS
  <2>3. Searches(f, k, size, x)
    BY <2>2, SearchesExist
  <2>4. PlacedAt(order, size, m, x, f[m].pos)
    BY <1>1, <1>2, <1>5, <2>1, <2>3, SearchesRight
  <2>5. a = f[m].pos - 1
    BY <1>5, <2>2 DEF Offset
  <2>6. PICK pos \in Nat : pos = f[m].pos
    BY <2>4 DEF PlacedAt
  <2>7. a = pos - 1 /\ a + size[x] <= size[m]
        /\ \A p \in 1..size[x] : order[m][(pos - 1) + p] = order[x][p]
    BY <2>4, <2>5, <2>6 DEF PlacedAt
  <2> QED BY <1>2, <2>7
<1> QED BY <1>4, <1>5

(* getNodePosition gives the position behind them. *)
LEMMA PositionOffset ==
  ASSUME NEW k, IsTree(k), NEW c, KidsCount(k, c) = TrueCount(k), root \in Roots,
         NEW x \in Subtree(k, root)
  PROVE  NodePosition(k, c, x).pos = Offset(k, root, x) + 1
<1>1. root \in Inner /\ root \in Nodes /\ root # NoNode
  BY NodesApart DEF Inner
<1>2. PICK size : size = TrueCount(k)
  OBVIOUS
<1>3. PICK f : f = CHOOSE g : Searches(g, k, size, x)
  OBVIOUS
<1>4. NodePosition(k, c, x) = IF x = root THEN [pos |-> 1, asked |-> {}] ELSE f[root]
  BY <1>1, <1>2, <1>3, NodePositionIs
<1>5. CASE x = root
  <2>1. NodePosition(k, c, x).pos = 1
    BY <1>4, <1>5
  <2>2. Offset(k, root, x) = 0
    BY <1>5, OffsetSelf
  <2> QED BY <2>1, <2>2
<1>6. CASE x # root
  <2>1. NodePosition(k, c, x).pos = f[root].pos
    BY <1>4, <1>6
  <2>2. Offset(k, root, x) = f[root].pos - 1
    BY <1>2, <1>3, <1>6 DEF Offset
  <2>3. Offset(k, root, x) \in Nat
    BY <1>1, OffsetNat
  <2>4. x \in Nodes
    BY <1>1, OffsetNat
  <2>5. f[root].pos \in Nat
    <3>1. Searches(f, k, size, x)
      BY <1>3, SearchesExist
    <3>2. PICK order : order = OrderBelow(k)
      OBVIOUS
    <3>3. InOrder(k, order, size)
      BY <1>2, <3>2, OrderIs
    <3>4. PlacedAt(order, size, root, x, f[root].pos)
      BY <1>1, <1>6, <2>4, <3>1, <3>3, SearchesRight
    <3> QED BY <3>4 DEF PlacedAt
  <2> QED BY <2>1, <2>2, <2>5
<1> QED BY <1>5, <1>6

-----------------------------------------------------------------------------
(* What an edit of an array does to the order of the pages. *)

(* Sums of the numbers z: b[i] is that of those in front of the i-th. *)
Sums(b, z, l) ==
    /\ l \in Nat /\ b \in [1..(l + 1) -> Nat] /\ z \in [1..l -> Nat]
    /\ b[1] = 0 /\ \A i \in 1..l : b[i + 1] = b[i] + z[i]

(* From s0 to s1 the first d elements stay, and those behind e0 are behind *)
(* e1 now.                                                                 *)
Segment(s0, l0, s1, l1, d, e0, e1) ==
    /\ l0 \in Nat /\ l1 \in Nat /\ d \in Nat /\ e0 \in Nat /\ e1 \in Nat
    /\ d <= e0 /\ e0 <= l0 /\ d <= e1 /\ e1 <= l1 /\ l1 - e1 = l0 - e0
    /\ \A i \in 1..d : s1[i] = s0[i]
    /\ \A i \in 1..(l0 - e0) : s1[e1 + i] = s0[e0 + i]

(* The sums of the same numbers are the same, but for what is in front. *)
LEMMA SumsMoved ==
  ASSUME NEW l0, NEW l1, NEW d, NEW e0, NEW e1, NEW z0, NEW z1, NEW b0, NEW b1,
         Segment(z0, l0, z1, l1, d, e0, e1), Sums(b0, z0, l0), Sums(b1, z1, l1)
  PROVE  /\ \A i \in 0..d : b1[i + 1] = b0[i + 1]
         /\ \A i \in 0..(l0 - e0) : b1[(e1 + 1) + i] - b1[e1 + 1] = b0[(e0 + 1) + i] - b0[e0 + 1]
<1>1. /\ l0 \in Nat /\ l1 \in Nat /\ d \in Nat /\ e0 \in Nat /\ e1 \in Nat
      /\ d <= e0 /\ e0 <= l0 /\ d <= e1 /\ e1 <= l1 /\ l1 - e1 = l0 - e0 /\ l0 - e0 \in Nat
      /\ \A i \in 1..d : z1[i] = z0[i]
      /\ \A i \in 1..(l0 - e0) : z1[e1 + i] = z0[e0 + i]
  BY DEF Segment
<1>2. /\ b0 \in [1..(l0 + 1) -> Nat] /\ z0 \in [1..l0 -> Nat] /\ b0[1] = 0
      /\ \A i \in 1..l0 : b0[i + 1] = b0[i] + z0[i]
  BY DEF Sums
<1>3. /\ b1 \in [1..(l1 + 1) -> Nat] /\ z1 \in [1..l1 -> Nat] /\ b1[1] = 0
      /\ \A i \in 1..l1 : b1[i + 1] = b1[i] + z1[i]
  BY DEF Sums
<1>4. \A i \in 0..d : b1[i + 1] = b0[i + 1]
  <2> DEFINE X == {i \in 0..d : b1[i + 1] = b0[i + 1]}
  <2>1. 0 \in X
    BY <1>1, <1>2, <1>3
  <2>2. \A i \in 0..(d - 1) : i \in X => i + 1 \in X
    <3> SUFFICES ASSUME NEW i \in 0..(d - 1), i \in X PROVE i + 1 \in X
      OBVIOUS
    <3>1. i + 1 \in 1..d /\ i + 1 \in 1..l0 /\ i + 1 \in 1..l1
      BY <1>1
    <3>2. b1[i + 1] = b0[i + 1] /\ z1[i + 1] = z0[i + 1]
      BY <1>1, <3>1
    <3>3. b1[(i + 1) + 1] = b1[i + 1] + z1[i + 1] /\ b0[(i + 1) + 1] = b0[i + 1] + z0[i + 1]
      BY <1>2, <1>3, <3>1
    <3> QED BY <1>1, <3>1, <3>2, <3>3
  <2>3. \A i \in 0..d : i \in X
    <3> HIDE DEF X
    <3> QED BY <1>1, <2>1, <2>2, UpTo0
  <2> QED BY <2>3
<1>5. \A i \in 0..(l0 - e0) : b1[(e1 + 1) + i] - b1[e1 + 1] = b0[(e0 + 1) + i] - b0[e0 + 1]
  <2> DEFINE X == {i \in 0..(l0 - e0) : b1[(e1 + 1) + i] - b1[e1 + 1] = b0[(e0 + 1) + i] - b0[e0 + 1]}
  <2>1. 0 \in X
    <3>1. b1[e1 + 1] \in Nat /\ b0[e0 + 1] \in Nat
      BY <1>1, <1>2, <1>3
    <3>2. (e1 + 1) + 0 = e1 + 1 /\ (e0 + 1) + 0 = e0 + 1
      BY <1>1
    <3> QED BY <1>1, <3>1, <3>2
  <2>2. \A i \in 0..((l0 - e0) - 1) : i \in X => i + 1 \in X
    <3> SUFFICES ASSUME NEW i \in 0..((l0 - e0) - 1), i \in X PROVE i + 1 \in X
      OBVIOUS
    <3>1. PICK v, w : /\ v = (e0 + 1) + i /\ w = (e1 + 1) + i
                      /\ v \in 1..l0 /\ w \in 1..l1 /\ v = e0 + (i + 1) /\ w = e1 + (i + 1)
                      /\ v + 1 = (e0 + 1) + (i + 1) /\ w + 1 = (e1 + 1) + (i + 1)
                      /\ i + 1 \in 1..(l0 - e0)
      BY <1>1
    <3>2. z1[w] = z0[v]
      BY <1>1, <3>1
    <3>3. b1[w + 1] = b1[w] + z1[w] /\ b0[v + 1] = b0[v] + z0[v]
      BY <1>2, <1>3, <3>1
    <3>4. /\ b1[w] \in Nat /\ b0[v] \in Nat /\ z1[w] \in Nat /\ z0[v] \in Nat
          /\ b1[e1 + 1] \in Nat /\ b0[e0 + 1] \in Nat
      BY <1>1, <1>2, <1>3, <3>1
    <3>5. b1[w] - b1[e1 + 1] = b0[v] - b0[e0 + 1]
      BY <3>1
    <3>6. b1[w + 1] - b1[e1 + 1] = b0[v + 1] - b0[e0 + 1]
      BY <3>2, <3>3, <3>4, <3>5
    <3> QED BY <1>1, <3>1, <3>6
  <2>3. \A i \in 0..(l0 - e0) : i \in X
    <3> HIDE DEF X
    <3> QED BY <1>1, <2>1, <2>2, UpTo0
  <2> QED BY <2>3
<1> QED BY <1>4, <1>5

(* The numbers of pages of the children of m, and what is in front. *)
KidSums(k, size, m, b, z, l) ==
    /\ Sums(b, z, l) /\ l = Len(k[m]) /\ DOMAIN k[m] = 1..l
    /\ \A i \in 1..l : z[i] = size[k[m][i]]
    /\ \A i \in 1..(l + 1) : b[i] = Before(k, size, m, i)
    /\ size[m] = b[l + 1]

LEMMA KidSumsExist ==
  ASSUME NEW k, IsTree(k), NEW size, size = TrueCount(k), NEW m \in Inner
  PROVE  \E b, z : KidSums(k, size, m, b, z, Len(k[m]))
<1>1. Typed(k)
  BY DEF IsTree, Tree
<1>2. PICK order : order = OrderBelow(k)
  OBVIOUS
<1>3. InOrder(k, order, size)
  BY <1>2, OrderIs
<1>4. PICK l \in Nat : l = Len(k[m]) /\ DOMAIN k[m] = 1..l
  BY <1>1, KidsTyped
<1>5. Fronts(k, size, m, l) /\ size[m] = Before(k, size, m, l + 1) /\ size \in [Nodes -> Nat]
  BY <1>3, <1>4 DEF InOrder
<1>6. \A i \in 1..l : k[m][i] \in Nodes
  BY <1>1, <1>4, KidsTyped
<1>7. PICK b, z : /\ b = [i \in 1..(l + 1) |-> Before(k, size, m, i)]
                  /\ z = [i \in 1..l |-> size[k[m][i]]]
  OBVIOUS
<1>8. /\ \A i \in 1..(l + 1) : Before(k, size, m, i) \in Nat
      /\ \A i \in 1..l : Before(k, size, m, i + 1) = Before(k, size, m, i) + size[k[m][i]]
      /\ Before(k, size, m, 1) = 0
  BY <1>5 DEF Fronts
<1>9. b \in [1..(l + 1) -> Nat] /\ z \in [1..l -> Nat]
  BY <1>5, <1>6, <1>7, <1>8
<1>10. b[1] = 0 /\ \A i \in 1..l : b[i + 1] = b[i] + z[i]
  <2>1. \A i \in 1..l : i \in 1..(l + 1) /\ i + 1 \in 1..(l + 1)
    OBVIOUS
  <2>2. 1 \in 1..(l + 1)
    OBVIOUS
  <2> QED BY <1>7, <1>8, <2>1, <2>2
<1>11. l + 1 \in 1..(l + 1)
  OBVIOUS
<1>12. Sums(b, z, l)
  BY <1>9, <1>10 DEF Sums
<1> QED BY <1>4, <1>5, <1>7, <1>11, <1>12 DEF KidSums

(* The pages of m, by its children. *)
LEMMA KidPages ==
  ASSUME NEW k, IsTree(k), NEW order, NEW size, order = OrderBelow(k), size = TrueCount(k),
         NEW m \in Inner, NEW b, NEW z, NEW l, KidSums(k, size, m, b, z, l)
  PROVE  /\ \A i \in 1..l : \A q \in 1..z[i] : order[m][b[i] + q] = order[k[m][i]][q]
         /\ \A p \in 1..b[l + 1] : \E i \in 1..l : \E q \in 1..z[i] : p = b[i] + q
         /\ \A i \in 1..(l + 1), j \in 1..(l + 1) : i <= j => b[i] <= b[j]
<1>1. InOrder(k, order, size) /\ Typed(k)
  BY OrderIs DEF IsTree, Tree
<1>2. /\ l \in Nat /\ l = Len(k[m]) /\ DOMAIN k[m] = 1..l /\ size[m] = b[l + 1]
      /\ \A i \in 1..l : z[i] = size[k[m][i]]
      /\ \A i \in 1..(l + 1) : b[i] = Before(k, size, m, i)
  BY DEF KidSums, Sums
<1>3. \A i \in 1..l : i \in 1..(l + 1)
  BY <1>2
<1>4. \A i \in 1..l : \A q \in 1..z[i] : order[m][b[i] + q] = order[k[m][i]][q]
  BY <1>1, <1>2, <1>3 DEF InOrder
<1>5. \A p \in 1..b[l + 1] : \E i \in 1..l : \E q \in 1..z[i] : p = b[i] + q
  BY <1>1, <1>2, <1>3, OrderPart
<1>6. \A i \in 1..(l + 1), j \in 1..(l + 1) : i <= j => b[i] <= b[j]
  <2>1. size \in [Nodes -> Nat]
    BY <1>1 DEF InOrder
  <2> QED BY <1>1, <1>2, <2>1, FrontsGrow, SMTT(60)
<1> QED BY <1>4, <1>5, <1>6

(* The children that stay have the same pages below them. *)
KeptKids(s0, l0, d, e0, order0, size0, order1, size1) ==
    /\ \A i \in 1..d : order1[s0[i]] = order0[s0[i]] /\ size1[s0[i]] = size0[s0[i]]
    /\ \A i \in 1..(l0 - e0) :
          order1[s0[e0 + i]] = order0[s0[e0 + i]] /\ size1[s0[e0 + i]] = size0[s0[e0 + i]]

(* Where a part of an array is another, the pages below it are, and those  *)
(* behind move.                                                            *)
LEMMA SegmentPages ==
  ASSUME NEW k0, IsTree(k0), NEW k1, IsTree(k1), NEW m \in Inner,
         NEW order0, order0 = OrderBelow(k0), NEW size0, size0 = TrueCount(k0),
         NEW order1, order1 = OrderBelow(k1), NEW size1, size1 = TrueCount(k1),
         NEW b0, NEW z0, NEW l0, KidSums(k0, size0, m, b0, z0, l0),
         NEW b1, NEW z1, NEW l1, KidSums(k1, size1, m, b1, z1, l1),
         NEW d, NEW e0, NEW e1, Segment(k0[m], l0, k1[m], l1, d, e0, e1),
         KeptKids(k0[m], l0, d, e0, order0, size0, order1, size1)
  PROVE  /\ Segment(order0[m], size0[m], order1[m], size1[m], b0[d + 1], b0[e0 + 1], b1[e1 + 1])
         /\ b1[d + 1] = b0[d + 1]
<1>1. /\ l0 \in Nat /\ l1 \in Nat /\ d \in Nat /\ e0 \in Nat /\ e1 \in Nat
      /\ d <= e0 /\ e0 <= l0 /\ d <= e1 /\ e1 <= l1 /\ l1 - e1 = l0 - e0
      /\ \A i \in 1..d : k1[m][i] = k0[m][i]
      /\ \A i \in 1..(l0 - e0) : k1[m][e1 + i] = k0[m][e0 + i]
  BY DEF Segment
<1>2. /\ Sums(b0, z0, l0) /\ size0[m] = b0[l0 + 1]
      /\ \A i \in 1..l0 : z0[i] = size0[k0[m][i]]
  BY DEF KidSums
<1>3. /\ Sums(b1, z1, l1) /\ size1[m] = b1[l1 + 1]
      /\ \A i \in 1..l1 : z1[i] = size1[k1[m][i]]
  BY DEF KidSums
<1>4. /\ \A i \in 1..l0 : \A q \in 1..z0[i] : order0[m][b0[i] + q] = order0[k0[m][i]][q]
      /\ \A p \in 1..b0[l0 + 1] : \E i \in 1..l0 : \E q \in 1..z0[i] : p = b0[i] + q
      /\ \A i \in 1..(l0 + 1), j \in 1..(l0 + 1) : i <= j => b0[i] <= b0[j]
  BY KidPages
<1>5. /\ \A i \in 1..l1 : \A q \in 1..z1[i] : order1[m][b1[i] + q] = order1[k1[m][i]][q]
      /\ \A i \in 1..(l1 + 1), j \in 1..(l1 + 1) : i <= j => b1[i] <= b1[j]
  BY KidPages
<1>6. /\ \A i \in 1..d : order1[k1[m][i]] = order0[k0[m][i]] /\ z1[i] = z0[i]
      /\ \A i \in 1..(l0 - e0) : order1[k1[m][e1 + i]] = order0[k0[m][e0 + i]] /\ z1[e1 + i] = z0[e0 + i]
  <2>1. \A i \in 1..d : i \in 1..l0 /\ i \in 1..l1
    BY <1>1
  <2>2. \A i \in 1..(l0 - e0) : e0 + i \in 1..l0 /\ e1 + i \in 1..l1
    BY <1>1
  <2>3. \A i \in 1..d : order1[k1[m][i]] = order0[k0[m][i]] /\ z1[i] = z0[i]
    <3> SUFFICES ASSUME NEW i \in 1..d PROVE order1[k1[m][i]] = order0[k0[m][i]] /\ z1[i] = z0[i]
      OBVIOUS
    <3>1. order1[k0[m][i]] = order0[k0[m][i]] /\ size1[k0[m][i]] = size0[k0[m][i]]
      BY DEF KeptKids
    <3>2. k1[m][i] = k0[m][i]
      BY <1>1
    <3>3. z0[i] = size0[k0[m][i]] /\ z1[i] = size1[k1[m][i]]
      BY <1>2, <1>3, <2>1
    <3> QED BY <3>1, <3>2, <3>3
  <2>4. \A i \in 1..(l0 - e0) :
           order1[k1[m][e1 + i]] = order0[k0[m][e0 + i]] /\ z1[e1 + i] = z0[e0 + i]
    <3> SUFFICES ASSUME NEW i \in 1..(l0 - e0)
                 PROVE  order1[k1[m][e1 + i]] = order0[k0[m][e0 + i]] /\ z1[e1 + i] = z0[e0 + i]
      OBVIOUS
    <3>1. order1[k0[m][e0 + i]] = order0[k0[m][e0 + i]] /\ size1[k0[m][e0 + i]] = size0[k0[m][e0 + i]]
      BY DEF KeptKids
    <3>2. k1[m][e1 + i] = k0[m][e0 + i]
      BY <1>1
    <3>3. z0[e0 + i] = size0[k0[m][e0 + i]] /\ z1[e1 + i] = size1[k1[m][e1 + i]]
      BY <1>2, <1>3, <2>2
    <3> QED BY <3>1, <3>2, <3>3
  <2> QED BY <2>3, <2>4
<1>7. Segment(z0, l0, z1, l1, d, e0, e1)
  BY <1>1, <1>6 DEF Segment
<1>8. /\ \A i \in 0..d : b1[i + 1] = b0[i + 1]
      /\ \A i \in 0..(l0 - e0) : b1[(e1 + 1) + i] - b1[e1 + 1] = b0[(e0 + 1) + i] - b0[e0 + 1]
  BY <1>2, <1>3, <1>7, SumsMoved
<1>9. /\ b0 \in [1..(l0 + 1) -> Nat] /\ z0 \in [1..l0 -> Nat]
      /\ \A i \in 1..l0 : b0[i + 1] = b0[i] + z0[i]
      /\ b1 \in [1..(l1 + 1) -> Nat] /\ z1 \in [1..l1 -> Nat]
  BY <1>2, <1>3 DEF Sums
<1>10. PICK a \in Nat, c0 \in Nat, c1 \in Nat, L0 \in Nat, L1 \in Nat :
         a = b0[d + 1] /\ c0 = b0[e0 + 1] /\ c1 = b1[e1 + 1] /\ L0 = b0[l0 + 1] /\ L1 = b1[l1 + 1]
  <2>1. /\ d + 1 \in 1..(l0 + 1) /\ e0 + 1 \in 1..(l0 + 1) /\ l0 + 1 \in 1..(l0 + 1)
        /\ e1 + 1 \in 1..(l1 + 1) /\ l1 + 1 \in 1..(l1 + 1)
    BY <1>1
  <2>2. /\ b0[d + 1] \in Nat /\ b0[e0 + 1] \in Nat /\ b0[l0 + 1] \in Nat
        /\ b1[e1 + 1] \in Nat /\ b1[l1 + 1] \in Nat
    BY <1>9, <2>1
  <2> QED BY <2>2
<1>11. b1[d + 1] = a
  BY <1>1, <1>8, <1>10
<1>12. a <= c0 /\ c0 <= L0 /\ a <= c1 /\ c1 <= L1
  <2>1. d + 1 \in 1..(l0 + 1) /\ e0 + 1 \in 1..(l0 + 1) /\ l0 + 1 \in 1..(l0 + 1)
        /\ d + 1 <= e0 + 1 /\ e0 + 1 <= l0 + 1
    BY <1>1
  <2>2. d + 1 \in 1..(l1 + 1) /\ e1 + 1 \in 1..(l1 + 1) /\ l1 + 1 \in 1..(l1 + 1)
        /\ d + 1 <= e1 + 1 /\ e1 + 1 <= l1 + 1
    BY <1>1
  <2>3. a <= c0 /\ c0 <= L0
    BY <1>4, <1>10, <2>1
  <2>4. a <= c1 /\ c1 <= L1
    BY <1>5, <1>10, <1>11, <2>2
  <2> QED BY <2>3, <2>4
<1>13. L1 - c1 = L0 - c0
  <2>1. l0 - e0 \in 0..(l0 - e0) /\ (e1 + 1) + (l0 - e0) = l1 + 1 /\ (e0 + 1) + (l0 - e0) = l0 + 1
    BY <1>1
  <2>2. b1[(e1 + 1) + (l0 - e0)] - b1[e1 + 1] = b0[(e0 + 1) + (l0 - e0)] - b0[e0 + 1]
    BY <1>8, <2>1
  <2> QED BY <1>10, <2>1, <2>2
<1>14. ASSUME NEW p \in 1..a PROVE order1[m][p] = order0[m][p]
  <2>1. p \in 1..L0 /\ p \in Nat /\ p <= a
    BY <1>12
  <2>0. PICK i \in 1..l0 : \E q \in 1..z0[i] : p = b0[i] + q
    BY <1>4, <1>10, <2>1
  <2>2. PICK q \in 1..z0[i] : p = b0[i] + q
    BY <2>0
  <2>3. PICK v \in Nat, w \in Nat : v = b0[i] /\ w = z0[i]
    BY <1>1, <1>9, SMTT(60)
  <2>4. q \in Nat /\ 1 <= q /\ q <= w
    BY <2>3
  <2>5. i <= d
    <3> SUFFICES ASSUME d + 1 <= i PROVE FALSE
      BY <1>1
    <3>1. d + 1 \in 1..(l0 + 1) /\ i \in 1..(l0 + 1)
      BY <1>1
    <3>2. a <= v
      BY <1>4, <1>10, <2>3, <3>1
    <3> QED BY <2>1, <2>2, <2>3, <2>4, <3>2
  <2>6. i \in 1..d /\ i - 1 \in 0..d /\ (i - 1) + 1 = i /\ i \in 1..l1
    BY <1>1, <2>5
  <2>7. b1[i] = v
    BY <1>8, <2>3, <2>6
  <2>8. z1[i] = z0[i] /\ order1[k1[m][i]] = order0[k0[m][i]]
    BY <1>6, <2>6
  <2>9. order1[m][b1[i] + q] = order1[k1[m][i]][q]
    BY <1>5, <2>6, <2>8
  <2>10. order0[m][b0[i] + q] = order0[k0[m][i]][q]
    BY <1>4
  <2> QED BY <2>2, <2>3, <2>7, <2>8, <2>9, <2>10
<1>15. ASSUME NEW p \in 1..(L0 - c0) PROVE order1[m][c1 + p] = order0[m][c0 + p]
  <2>1. p \in Nat /\ 1 <= p /\ p <= L0 - c0 /\ c0 + p \in 1..L0
    BY <1>10, <1>12
  <2>0. PICK i \in 1..l0 : \E q \in 1..z0[i] : c0 + p = b0[i] + q
    BY <1>4, <1>10, <2>1
  <2>2. PICK q \in 1..z0[i] : c0 + p = b0[i] + q
    BY <2>0
  <2>3. PICK v \in Nat, w \in Nat : v = b0[i] /\ w = z0[i]
    BY <1>1, <1>9, SMTT(60)
  <2>4. q \in Nat /\ 1 <= q /\ q <= w
    BY <2>3
  <2>5. e0 + 1 <= i
    <3> SUFFICES ASSUME i <= e0 PROVE FALSE
      BY <1>1
    <3>1. i + 1 \in 1..(l0 + 1) /\ e0 + 1 \in 1..(l0 + 1) /\ i + 1 <= e0 + 1
      BY <1>1
    <3>2. b0[i + 1] <= c0
      BY <1>4, <1>10, <3>1
    <3>3. b0[i + 1] = v + w
      BY <1>9, <2>3
    <3> QED BY <2>1, <2>2, <2>3, <2>4, <3>2, <3>3
  <2>6. PICK j \in Nat : i = e0 + (j + 1)
    <3>1. i - (e0 + 1) \in Nat /\ i = e0 + ((i - (e0 + 1)) + 1)
      BY <1>1, <2>5
    <3> QED BY <3>1
  <2>7. /\ j \in 0..(l0 - e0) /\ j + 1 \in 1..(l0 - e0) /\ (e0 + 1) + j = i
        /\ (e1 + 1) + j = e1 + (j + 1) /\ e1 + (j + 1) \in 1..l1
    BY <1>1, <2>6
  <2>8. PICK h : h = e1 + (j + 1)
    OBVIOUS
  <2>9. h \in 1..l1 /\ b1[h] - c1 = v - c0
    BY <1>8, <1>10, <2>3, <2>7, <2>8
  <2>10. b1[h] \in Nat
    BY <1>1, <1>9, <2>9
  <2>11. z1[h] = z0[i] /\ order1[k1[m][h]] = order0[k0[m][i]]
    BY <1>6, <2>6, <2>7, <2>8
  <2>12. order1[m][b1[h] + q] = order1[k1[m][h]][q]
    BY <1>5, <2>9, <2>11
  <2>13. order0[m][b0[i] + q] = order0[k0[m][i]][q]
    BY <1>4
  <2>14. c1 + p = b1[h] + q
    BY <2>1, <2>2, <2>3, <2>4, <2>9, <2>10
  <2> QED BY <2>2, <2>11, <2>12, <2>13, <2>14
<1>16. size0[m] = L0 /\ size1[m] = L1
  BY <1>2, <1>3, <1>10
<1>17. Segment(order0[m], L0, order1[m], L1, a, c0, c1)
  BY <1>12, <1>13, <1>14, <1>15 DEF Segment
<1> QED BY <1>10, <1>11, <1>16, <1>17

(* A segment of a part is one of the whole. *)
LEMMA SegmentInner ==
  ASSUME NEW S0, NEW L0, NEW S1, NEW L1, NEW a \in Nat, NEW w0 \in Nat, NEW w1 \in Nat,
         Segment(S0, L0, S1, L1, a, a + w0, a + w1),
         NEW T0, NEW T1, NEW d, NEW e0, NEW e1, Segment(T0, w0, T1, w1, d, e0, e1),
         \A q \in 1..w0 : S0[a + q] = T0[q], \A q \in 1..w1 : S1[a + q] = T1[q]
  PROVE  Segment(S0, L0, S1, L1, a + d, a + e0, a + e1)
<1>1. /\ L0 \in Nat /\ L1 \in Nat /\ a + w0 <= L0 /\ a + w1 <= L1
      /\ L1 - (a + w1) = L0 - (a + w0)
      /\ \A i \in 1..a : S1[i] = S0[i]
      /\ \A i \in 1..(L0 - (a + w0)) : S1[(a + w1) + i] = S0[(a + w0) + i]
  BY DEF Segment
<1>2. /\ d \in Nat /\ e0 \in Nat /\ e1 \in Nat
      /\ d <= e0 /\ e0 <= w0 /\ d <= e1 /\ e1 <= w1 /\ w1 - e1 = w0 - e0
      /\ \A i \in 1..d : T1[i] = T0[i]
      /\ \A i \in 1..(w0 - e0) : T1[e1 + i] = T0[e0 + i]
  BY DEF Segment
<1>3. ASSUME NEW i \in 1..(a + d) PROVE S1[i] = S0[i]
  <2>1. CASE i <= a
    BY <1>1, <1>2, <2>1
  <2>2. CASE a < i
    <3>1. PICK q \in 1..d : i = a + q
      <4>1. i - a \in 1..d /\ i = a + (i - a)
        BY <1>2, <2>2
      <4> QED BY <4>1
    <3>2. q \in 1..w0 /\ q \in 1..w1
      BY <1>2
    <3> QED BY <1>2, <3>1, <3>2
  <2> QED BY <1>2, <2>1, <2>2
<1>4. ASSUME NEW i \in 1..(L0 - (a + e0)) PROVE S1[(a + e1) + i] = S0[(a + e0) + i]
  <2>1. CASE i <= w0 - e0
    <3>1. PICK q0, q1 : q0 = e0 + i /\ q1 = e1 + i
      OBVIOUS
    <3>2. /\ q0 \in 1..w0 /\ q1 \in 1..w1 /\ i \in 1..(w0 - e0)
          /\ (a + e0) + i = a + q0 /\ (a + e1) + i = a + q1
      BY <1>2, <2>1, <3>1
    <3> QED BY <1>2, <3>1, <3>2
  <2>2. CASE w0 - e0 < i
    <3>1. PICK q \in 1..(L0 - (a + w0)) : i = q + (w0 - e0)
      <4>1. i - (w0 - e0) \in 1..(L0 - (a + w0)) /\ i = (i - (w0 - e0)) + (w0 - e0)
        BY <1>1, <1>2, <2>2
      <4> QED BY <4>1
    <3>2. (a + e0) + i = (a + w0) + q /\ (a + e1) + i = (a + w1) + q
      BY <1>1, <1>2, <3>1
    <3> QED BY <1>1, <3>2
  <2> QED BY <1>1, <1>2, <2>1, <2>2
<1>5. /\ a + d \in Nat /\ a + e0 \in Nat /\ a + e1 \in Nat
      /\ a + d <= a + e0 /\ a + e0 <= L0 /\ a + d <= a + e1 /\ a + e1 <= L1
      /\ L1 - (a + e1) = L0 - (a + e0)
  BY <1>1, <1>2
<1> QED BY <1>1, <1>3, <1>4, <1>5 DEF Segment

(* What is below a node is as before when the changed node is not. *)
SameBelow(k, m) ==
    /\ OrderBelow(k)[m] = OrderBelow(kids)[m]
    /\ TrueCount(k)[m] = TrueCount(kids)[m]
    /\ Subtree(k, m) = Subtree(kids, m)

LEMMA SameBelowOthers ==
  ASSUME IsTree(kids), NEW k, IsTree(k), NEW n \in Inner, ChangedAt(k, n)
  PROVE  \A m \in Nodes : n \notin Subtree(kids, m) => SameBelow(k, m)
<1>0. PICK N, rank : Tree(kids, N, rank)
  BY DEF IsTree
<1>1. Typed(kids) /\ Typed(k) /\ Falling(kids, rank) /\ N \in Nat /\ rank \in [Nodes -> 0..N]
  BY <1>0 DEF Tree, IsTree
<1>2. PICK order0, order1 : order0 = OrderBelow(kids) /\ order1 = OrderBelow(k)
  OBVIOUS
<1>3. Orders(order0, kids) /\ Orders(order1, k)
  BY <1>2, OrdersExist
<1>4. PICK size0, size1 : size0 = TrueCount(kids) /\ size1 = TrueCount(k)
  OBVIOUS
<1>5. InOrder(kids, order0, size0) /\ InOrder(k, order1, size1)
  BY <1>2, <1>4, OrderIs
<1>6. \A m \in Nodes : Len(order0[m]) = size0[m] /\ Len(order1[m]) = size1[m]
  BY <1>5 DEF InOrder
<1> DEFINE Same(m) == order1[m] = order0[m] /\ Subtree(k, m) = Subtree(kids, m)
<1> DEFINE X == {m \in Nodes : n \notin Subtree(kids, m) => Same(m)}
<1>7. Falls(Nodes, rank, X)
  <2> SUFFICES ASSUME NEW m \in Nodes, \A x \in Nodes : rank[x] < rank[m] => x \in X,
                      n \notin Subtree(kids, m)
               PROVE  Same(m)
    BY DEF Falls
  <2>1. CASE m \in Leaves
    <3>1. order0[m] = <<m>> /\ order1[m] = <<m>>
      BY <1>5, <2>1 DEF InOrder
    <3>2. Subtree(k, m) = {m} /\ Subtree(kids, m) = {m}
      BY <1>1, <2>1, SubtreeOf
    <3> QED BY <3>1, <3>2
  <2>2. CASE m \in Inner
    <3>1. m # n
      BY <1>1, SubtreeParts
    <3>2. k[m] = kids[m]
      BY <2>2, <3>1 DEF ChangedAt
    <3>3. \A i \in DOMAIN kids[m] :
             kids[m][i] \in Nodes /\ rank[kids[m][i]] < rank[m] /\ n \notin Subtree(kids, kids[m][i])
      BY <1>1, <2>2, SubtreeParts DEF Falling
    <3>4. \A i \in DOMAIN kids[m] : Same(kids[m][i])
      BY <3>3
    <3> HIDE DEF X
    <3>5. order1[m] = OrderOf(order1, k, m) /\ order0[m] = OrderOf(order0, kids, m)
      BY <1>3 DEF Orders
    <3>6. m \notin Leaves
      BY <2>2, NodesApart
    <3>7. order1[m] = FlattenSeq([i \in DOMAIN k[m] |-> order1[k[m][i]]])
          /\ order0[m] = FlattenSeq([i \in DOMAIN kids[m] |-> order0[kids[m][i]]])
      BY <3>5, <3>6 DEF OrderOf
    <3>8. [i \in DOMAIN k[m] |-> order1[k[m][i]]] = [i \in DOMAIN kids[m] |-> order0[kids[m][i]]]
      BY <3>2, <3>4
    <3>9. order1[m] = order0[m]
      BY <3>7, <3>8
    <3>10. /\ Subtree(k, m) = {m} \cup UNION {Subtree(k, k[m][i]) : i \in DOMAIN k[m]}
           /\ Subtree(kids, m) = {m} \cup UNION {Subtree(kids, kids[m][i]) : i \in DOMAIN kids[m]}
      BY <1>1, <2>2, SubtreeOf
    <3>11. {Subtree(k, k[m][i]) : i \in DOMAIN k[m]} = {Subtree(kids, kids[m][i]) : i \in DOMAIN kids[m]}
      BY <3>2, <3>4
    <3>12. Subtree(k, m) = Subtree(kids, m)
      BY <3>10, <3>11
    <3> QED BY <3>9, <3>12
  <2> QED BY <2>1, <2>2, NodesApart
<1>8. rank \in [Nodes -> Nat]
  BY <1>1 DEF Falling
<1>9. \A m \in Nodes : m \in X
  <2> HIDE DEF X
  <2> QED BY <1>7, <1>8, RankInduction
<1>10. \A m \in Nodes : n \notin Subtree(kids, m) => Same(m) /\ size1[m] = size0[m]
  BY <1>6, <1>9
<1> QED BY <1>2, <1>4, <1>10 DEF SameBelow

(* The pages below m, which has n below it, are those before but for a     *)
(* segment: up to the d-th page below n they stay, and those behind the    *)
(* e0-th are behind the e1-th now.                                         *)
Lifted(k, n, m, d, e0, e1) ==
    /\ Segment(OrderBelow(kids)[m], TrueCount(kids)[m], OrderBelow(k)[m], TrueCount(k)[m],
               Offset(kids, m, n) + d, Offset(kids, m, n) + e0, Offset(kids, m, n) + e1)
    /\ n \in Subtree(k, m)
    /\ Offset(k, m, n) = Offset(kids, m, n)

(* From a child of m to m. *)
LEMMA LiftedOnce ==
  ASSUME IsTree(kids), NEW k, IsTree(k), NEW n \in Inner, ChangedAt(k, n), NEW d, NEW e0, NEW e1,
         NEW m \in Inner, m # n, NEW i \in DOMAIN kids[m], n \in Subtree(kids, kids[m][i]),
         Lifted(k, n, kids[m][i], d, e0, e1), d \in Nat, e0 \in Nat, e1 \in Nat
  PROVE  Lifted(k, n, m, d, e0, e1)
<1>0. PICK N, rank : Tree(kids, N, rank)
  BY DEF IsTree
<1>1. Typed(kids) /\ Typed(k) /\ n \in Nodes
  BY NodesApart DEF IsTree, Tree
<1>2. PICK order0, order1, size0, size1 :
        /\ order0 = OrderBelow(kids) /\ order1 = OrderBelow(k)
        /\ size0 = TrueCount(kids) /\ size1 = TrueCount(k)
  OBVIOUS
<1>3. k[m] = kids[m]
  BY DEF ChangedAt
<1>4. PICK l, x : l = Len(kids[m]) /\ x = kids[m][i]
  OBVIOUS
<1>5. PICK b0, z0 : KidSums(kids, size0, m, b0, z0, l)
  BY <1>2, <1>4, KidSumsExist
<1>6. PICK b1, z1 : KidSums(k, size1, m, b1, z1, l)
  BY <1>2, <1>3, <1>4, KidSumsExist
<1>7. /\ l \in Nat /\ i \in 1..l /\ DOMAIN kids[m] = 1..l
      /\ z0[i] = size0[x] /\ z1[i] = size1[x]
      /\ \A j \in 1..(l + 1) : b0[j] = Before(kids, size0, m, j) /\ b1[j] = Before(k, size1, m, j)
  BY <1>3, <1>4, <1>5, <1>6 DEF KidSums, Sums
<1>8. \A j \in 1..l : j # i => SameBelow(k, kids[m][j])
  <2> SUFFICES ASSUME NEW j \in 1..l, j # i PROVE SameBelow(k, kids[m][j])
    OBVIOUS
  <2>1. kids[m][j] \in Nodes
    BY <1>1, <1>7, KidsTyped
  <2>2. n \notin Subtree(kids, kids[m][j])
    BY <1>0, <1>1, <1>7, SiblingsApart
  <2> QED BY <2>1, <2>2, SameBelowOthers
<1>9. \A j \in 1..l : j # i =>
         order1[kids[m][j]] = order0[kids[m][j]] /\ size1[kids[m][j]] = size0[kids[m][j]]
  BY <1>2, <1>8 DEF SameBelow
<1>10. KeptKids(kids[m], l, i - 1, i, order0, size0, order1, size1)
  <2>1. \A j \in 1..(i - 1) : j \in 1..l /\ j # i
    BY <1>7
  <2>2. \A j \in 1..(l - i) : i + j \in 1..l /\ i + j # i
    BY <1>7
  <2> QED BY <1>9, <2>1, <2>2 DEF KeptKids
<1>11. Segment(kids[m], l, k[m], l, i - 1, i, i)
  BY <1>3, <1>7 DEF Segment
<1>12. /\ Segment(order0[m], size0[m], order1[m], size1[m], b0[i], b0[i + 1], b1[i + 1])
       /\ b1[i] = b0[i]
  <2>1. /\ Segment(order0[m], size0[m], order1[m], size1[m], b0[(i - 1) + 1], b0[i + 1], b1[i + 1])
        /\ b1[(i - 1) + 1] = b0[(i - 1) + 1]
    BY <1>2, <1>5, <1>6, <1>10, <1>11, SegmentPages
  <2>2. (i - 1) + 1 = i
    BY <1>7
  <2> QED BY <2>1, <2>2
<1>13. PICK a \in Nat, w0 \in Nat, w1 \in Nat :
         a = b0[i] /\ w0 = size0[x] /\ w1 = size1[x] /\ b0[i + 1] = a + w0 /\ b1[i + 1] = a + w1
  <2>1. /\ b0 \in [1..(l + 1) -> Nat] /\ z0 \in [1..l -> Nat] /\ b0[i + 1] = b0[i] + z0[i]
        /\ b1 \in [1..(l + 1) -> Nat] /\ z1 \in [1..l -> Nat] /\ b1[i + 1] = b1[i] + z1[i]
    BY <1>5, <1>6, <1>7 DEF KidSums, Sums
  <2>2. i \in 1..(l + 1)
    BY <1>7
  <2>3. b0[i] \in Nat /\ z0[i] \in Nat /\ z1[i] \in Nat
    BY <1>7, <2>1, <2>2
  <2> QED BY <1>7, <1>12, <2>1, <2>3
<1>14. Segment(order0[m], size0[m], order1[m], size1[m], a, a + w0, a + w1)
  BY <1>12, <1>13
<1>15. /\ \A q \in 1..w0 : order0[m][a + q] = order0[x][q]
       /\ \A q \in 1..w1 : order1[m][a + q] = order1[x][q]
  <2>1. \A q \in 1..z0[i] : order0[m][b0[i] + q] = order0[kids[m][i]][q]
    BY <1>2, <1>5, <1>7, KidPages
  <2>2. \A q \in 1..z1[i] : order1[m][b1[i] + q] = order1[k[m][i]][q]
    BY <1>2, <1>6, <1>7, KidPages
  <2> QED BY <1>3, <1>4, <1>7, <1>12, <1>13, <2>1, <2>2
<1>16. x \in Nodes
  BY <1>1, <1>4, KidsTyped
<1>17. PICK f \in Nat : f = Offset(kids, x, n)
  BY <1>4, <1>16, OffsetNat
<1>18. /\ Segment(order0[x], w0, order1[x], w1, f + d, f + e0, f + e1)
       /\ n \in Subtree(k, x) /\ Offset(k, x, n) = f
  BY <1>2, <1>4, <1>13, <1>17 DEF Lifted
<1>19. Segment(order0[m], size0[m], order1[m], size1[m], a + (f + d), a + (f + e0), a + (f + e1))
  <2>1. PICK S0, S1, L0, L1, T0, T1, g, h0, h1 :
          /\ S0 = order0[m] /\ S1 = order1[m] /\ L0 = size0[m] /\ L1 = size1[m]
          /\ T0 = order0[x] /\ T1 = order1[x] /\ g = f + d /\ h0 = f + e0 /\ h1 = f + e1
    OBVIOUS
  <2>2. Segment(S0, L0, S1, L1, a, a + w0, a + w1) /\ Segment(T0, w0, T1, w1, g, h0, h1)
    BY <1>14, <1>18, <2>1
  <2>3. (\A q \in 1..w0 : S0[a + q] = T0[q]) /\ (\A q \in 1..w1 : S1[a + q] = T1[q])
    BY <1>15, <2>1
  <2>4. Segment(S0, L0, S1, L1, a + g, a + h0, a + h1)
    BY <2>2, <2>3, SegmentInner
  <2> QED BY <2>1, <2>4
<1>20. i \in 1..(l + 1)
  BY <1>7
<1>21. Offset(kids, m, n) = a + f
  <2>1. n \in Nodes
    BY <1>1
  <2>2. Offset(kids, m, n) = Before(kids, TrueCount(kids), m, i) + Offset(kids, kids[m][i], n)
    BY <2>1, OffsetIs
  <2>3. Before(kids, TrueCount(kids), m, i) = a
    <3>1. b0[i] = Before(kids, size0, m, i) /\ a = b0[i]
      BY <1>7, <1>13, <1>20
    <3> QED BY <1>2, <3>1
  <2>4. Offset(kids, kids[m][i], n) = f
    BY <1>4, <1>17
  <2> QED BY <2>2, <2>3, <2>4
<1>22. Offset(k, m, n) = a + f
  <2>1. Offset(k, m, n) = Before(k, TrueCount(k), m, i) + Offset(k, k[m][i], n)
    <3>1. n \in Nodes /\ i \in DOMAIN k[m] /\ k[m][i] = x
      BY <1>1, <1>3, <1>4
    <3>2. n \in Subtree(k, k[m][i])
      BY <1>18, <3>1
    <3> QED BY <3>1, <3>2, OffsetIs
  <2>2. Before(k, TrueCount(k), m, i) = a
    <3>1. b1[i] = b0[i] /\ a = b0[i]
      BY <1>12, <1>13
    <3>2. b1[i] = Before(k, size1, m, i)
      BY <1>7, <1>20
    <3> QED BY <1>2, <3>1, <3>2
  <2>3. Offset(k, k[m][i], n) = f
    BY <1>3, <1>4, <1>18
  <2> QED BY <2>1, <2>2, <2>3
<1>23. n \in Subtree(k, m)
  BY <1>1, <1>3, <1>4, <1>18, SubtreeParts
<1>24. a + (f + d) = (a + f) + d /\ a + (f + e0) = (a + f) + e0 /\ a + (f + e1) = (a + f) + e1
  OBVIOUS
<1>25. Segment(order0[m], size0[m], order1[m], size1[m], (a + f) + d, (a + f) + e0, (a + f) + e1)
  BY <1>19, <1>24
<1> QED BY <1>2, <1>21, <1>22, <1>23, <1>25 DEF Lifted

(* From n up to every node above it. *)
LEMMA LiftedUp ==
  ASSUME IsTree(kids), NEW k, IsTree(k), NEW n \in Inner, ChangedAt(k, n),
         NEW d \in Nat, NEW e0 \in Nat, NEW e1 \in Nat, Lifted(k, n, n, d, e0, e1)
  PROVE  \A m \in Nodes : n \in Subtree(kids, m) => Lifted(k, n, m, d, e0, e1)
<1>0. PICK N, rank : Tree(kids, N, rank)
  BY DEF IsTree
<1>1. Typed(kids) /\ Falling(kids, rank) /\ rank \in [Nodes -> Nat]
  BY <1>0 DEF Tree, Falling
<1> DEFINE X == {m \in Nodes : n \in Subtree(kids, m) => Lifted(k, n, m, d, e0, e1)}
<1>2. Falls(Nodes, rank, X)
  <2> SUFFICES ASSUME NEW m \in Nodes, \A x \in Nodes : rank[x] < rank[m] => x \in X,
                      n \in Subtree(kids, m), m # n
               PROVE  Lifted(k, n, m, d, e0, e1)
    BY DEF Falls
  <2>1. m \in Inner
    BY <1>1, SubtreeOf, NodesApart
  <2>2. PICK i \in DOMAIN kids[m] : n \in Subtree(kids, kids[m][i])
    BY <1>1, <2>1, SubtreeParts
  <2>3. kids[m][i] \in Nodes /\ rank[kids[m][i]] < rank[m]
    BY <1>1, <2>1, SubtreeParts DEF Falling
  <2>4. Lifted(k, n, kids[m][i], d, e0, e1)
    BY <2>2, <2>3
  <2> HIDE DEF X
  <2> QED BY <2>1, <2>2, <2>4, LiftedOnce
<1>3. \A m \in Nodes : m \in X
  <2> HIDE DEF X
  <2> QED BY <1>1, <1>2, RankInduction
<1> QED BY <1>3

(* At n itself. *)
LEMMA LiftedAt ==
  ASSUME IsTree(kids), NEW k, IsTree(k), NEW n \in Inner, ChangedAt(k, n),
         NEW b0, NEW z0, NEW l0, KidSums(kids, TrueCount(kids), n, b0, z0, l0),
         NEW b1, NEW z1, NEW l1, KidSums(k, TrueCount(k), n, b1, z1, l1),
         NEW d, NEW e0, NEW e1, Segment(kids[n], l0, k[n], l1, d, e0, e1)
  PROVE  /\ Lifted(k, n, n, b0[d + 1], b0[e0 + 1], b1[e1 + 1])
         /\ b1[d + 1] = b0[d + 1]
         /\ b0[d + 1] \in Nat /\ b0[e0 + 1] \in Nat /\ b1[e1 + 1] \in Nat
<1>1. Typed(kids) /\ Typed(k) /\ n \in Nodes
  BY NodesApart DEF IsTree, Tree
<1>2. PICK order0, order1, size0, size1 :
        /\ order0 = OrderBelow(kids) /\ order1 = OrderBelow(k)
        /\ size0 = TrueCount(kids) /\ size1 = TrueCount(k)
  OBVIOUS
<1>3. ChangedAt(kids, n)
  BY DEF ChangedAt
<1>4. \A j \in DOMAIN kids[n] : SameBelow(k, kids[n][j])
  <2> SUFFICES ASSUME NEW j \in DOMAIN kids[n] PROVE SameBelow(k, kids[n][j])
    OBVIOUS
  <2>1. kids[n][j] \in Nodes
    BY <1>1, KidsTyped
  <2>2. n \notin Subtree(kids, kids[n][j])
    BY <1>3, NotBelowKids
  <2> QED BY <2>1, <2>2, SameBelowOthers
<1>5. \A j \in DOMAIN kids[n] :
         order1[kids[n][j]] = order0[kids[n][j]] /\ size1[kids[n][j]] = size0[kids[n][j]]
  BY <1>2, <1>4 DEF SameBelow
<1>6. l0 \in Nat /\ DOMAIN kids[n] = 1..l0
  BY DEF KidSums, Sums
<1>7. d \in Nat /\ e0 \in Nat /\ e1 \in Nat /\ d <= e0 /\ e0 <= l0 /\ d <= e1 /\ e1 <= l1 /\ l1 \in Nat
  BY DEF Segment
<1>8. KeptKids(kids[n], l0, d, e0, order0, size0, order1, size1)
  <2>1. \A j \in 1..d : j \in 1..l0
    BY <1>6, <1>7
  <2>2. \A j \in 1..(l0 - e0) : e0 + j \in 1..l0
    BY <1>6, <1>7
  <2> QED BY <1>5, <1>6, <2>1, <2>2 DEF KeptKids
<1>9. /\ Segment(order0[n], size0[n], order1[n], size1[n], b0[d + 1], b0[e0 + 1], b1[e1 + 1])
      /\ b1[d + 1] = b0[d + 1]
  BY <1>2, <1>8, SegmentPages
<1>10. b0[d + 1] \in Nat /\ b0[e0 + 1] \in Nat /\ b1[e1 + 1] \in Nat
  BY <1>9 DEF Segment
<1>11. Offset(kids, n, n) = 0 /\ Offset(k, n, n) = 0
  BY OffsetSelf
<1>12. n \in Subtree(k, n)
  BY <1>1, SubtreeParts
<1>13. 0 + b0[d + 1] = b0[d + 1] /\ 0 + b0[e0 + 1] = b0[e0 + 1] /\ 0 + b1[e1 + 1] = b1[e1 + 1]
  BY <1>10
<1>14. Segment(order0[n], size0[n], order1[n], size1[n], 0 + b0[d + 1], 0 + b0[e0 + 1], 0 + b1[e1 + 1])
  BY <1>9, <1>13
<1> QED BY <1>2, <1>9, <1>10, <1>11, <1>12, <1>14 DEF Lifted

-----------------------------------------------------------------------------
(* Edits of one element of an array.  In k the i-th element of n was old   *)
(* and is new now; either may be NoNode.                                   *)
From(x, i) == IF x = NoNode THEN i - 1 ELSE i

ArrayEdit(k, n, i, old, new) ==
    /\ IsTree(k) /\ ChangedAt(k, n) /\ i \in Nat \ {0}
    /\ Segment(kids[n], Len(kids[n]), k[n], Len(k[n]), i - 1, From(old, i), From(new, i))
    /\ old # NoNode => /\ i \in DOMAIN kids[n] /\ kids[n][i] = old
                       /\ \A j \in DOMAIN k[n] : k[n][j] # old
    /\ new # NoNode => i \in DOMAIN k[n] /\ k[n][i] = new /\ IsFree(new)

LEMMA RemoveArray ==
  ASSUME IsTree(kids), NEW n \in Inner, NEW i \in DOMAIN kids[n], NEW old, old = kids[n][i],
         NEW k, k = [kids EXCEPT ![n] = RemoveAt(kids[n], i)]
  PROVE  ArrayEdit(k, n, i, old, NoNode)
<1>1. PICK s, l, t : s = kids[n] /\ l = Len(s) /\ t = RemoveAt(s, i)
  OBVIOUS
<1>2. Distinct(s, l)
  BY <1>1, StaysThere
<1>3. /\ s \in Seq(Leaves \cup Inters) /\ l \in Nat /\ i \in 1..l /\ DOMAIN s = 1..l
      /\ \A p \in 1..l, q \in 1..l : s[p] = s[q] => p = q
  BY <1>1, <1>2 DEF Distinct
<1>4. IsTree(k) /\ ChangedAt(k, n) /\ k[n] = t
  BY <1>1, RemoveEdit, EditTree
<1>5. /\ t \in Seq(Leaves \cup Inters) /\ Len(t) = l - 1
      /\ \A j \in 1..(l - 1) : t[j] = IF j < i THEN s[j] ELSE s[j + 1]
  BY <1>1, <1>3, RemoveAtFacts, SMTT(60)
<1>6. DOMAIN t = 1..(l - 1)
  BY <1>5, LenProperties
<1>7. old \in Leaves \cup Inters
  BY <1>1, <1>3, ElementOfSeq
<1>8. old # NoNode
  BY <1>7, NodesApart
<1>9. \A j \in 1..(l - 1) : t[j] # old
  <2> SUFFICES ASSUME NEW j \in 1..(l - 1), t[j] = old PROVE FALSE
    OBVIOUS
  <2>1. CASE j < i
    <3>1. s[j] = s[i] /\ j \in 1..l
      BY <1>1, <1>3, <1>5, <2>1
    <3> QED BY <1>3, <2>1, <3>1
  <2>2. CASE ~(j < i)
    <3>1. s[j + 1] = s[i] /\ j + 1 \in 1..l
      BY <1>1, <1>3, <1>5, <2>2
    <3>2. j + 1 = i
      BY <1>3, <3>1
    <3> QED BY <1>3, <2>2, <3>2
  <2> QED BY <2>1, <2>2
<1>10. Segment(s, l, t, l - 1, i - 1, i, i - 1)
  <2>1. \A j \in 1..(i - 1) : t[j] = s[j]
    BY <1>3, <1>5
  <2>2. \A j \in 1..(l - i) : t[(i - 1) + j] = s[i + j]
    <3> SUFFICES ASSUME NEW j \in 1..(l - i) PROVE t[(i - 1) + j] = s[i + j]
      OBVIOUS
    <3>1. PICK h : h = (i - 1) + j
      OBVIOUS
    <3>2. h \in 1..(l - 1) /\ ~(h < i) /\ h + 1 = i + j
      BY <1>3, <3>1
    <3> QED BY <1>5, <3>1, <3>2
  <2> QED BY <1>3, <2>1, <2>2 DEF Segment
<1>11. i \in Nat \ {0}
  BY <1>3
<1> QED BY <1>1, <1>3, <1>4, <1>5, <1>6, <1>8, <1>9, <1>10, <1>11, ZenonT(60) DEF ArrayEdit, From

LEMMA InsertArray ==
  ASSUME IsTree(kids), NEW n \in Inner, NEW i \in 1..(Len(kids[n]) + 1),
         NEW new \in Leaves \cup Inters, MayAdd(n, new),
         NEW k, k = [kids EXCEPT ![n] = InsertAt(kids[n], i, new)]
  PROVE  ArrayEdit(k, n, i, NoNode, new)
<1>1. PICK s, l, t : s = kids[n] /\ l = Len(s) /\ t = InsertAt(s, i, new)
  OBVIOUS
<1>2. Distinct(s, l)
  BY <1>1, StaysThere
<1>3. s \in Seq(Leaves \cup Inters) /\ l \in Nat /\ i \in 1..(l + 1)
  BY <1>1, <1>2 DEF Distinct
<1>4. IsTree(k) /\ ChangedAt(k, n) /\ k[n] = t
  BY <1>1, InsertEdit, EditTree
<1>5. t \in Seq(Leaves \cup Inters) /\ Len(t) = l + 1 /\ t = InsertedSeq(s, l, i, new)
  <2>1. PICK S : S = Leaves \cup Inters
    OBVIOUS
  <2>2. s \in Seq(S) /\ l \in Nat /\ l = Len(s) /\ i \in 1..(l + 1) /\ new \in S
    BY <1>1, <1>3, <2>1
  <2>3. /\ InsertAt(s, i, new) \in Seq(S)
        /\ Len(InsertAt(s, i, new)) = l + 1
        /\ InsertAt(s, i, new) = InsertedSeq(s, l, i, new)
    BY <2>2, InsertAtFacts, SMTT(60)
  <2> QED BY <1>1, <2>1, <2>3
<1>6. DOMAIN t = 1..(l + 1)
  BY <1>5, LenProperties
<1>7. \A j \in 1..(l + 1) : t[j] = IF j < i THEN s[j] ELSE IF j = i THEN new ELSE s[j - 1]
  BY <1>5 DEF InsertedSeq
<1>8. new # NoNode
  BY NodesApart
<1>9. Segment(s, l, t, l + 1, i - 1, i - 1, i)
  <2>1. \A j \in 1..(i - 1) : t[j] = s[j]
    BY <1>3, <1>7
  <2>2. \A j \in 1..(l - (i - 1)) : t[i + j] = s[(i - 1) + j]
    <3> SUFFICES ASSUME NEW j \in 1..(l - (i - 1)) PROVE t[i + j] = s[(i - 1) + j]
      OBVIOUS
    <3>1. PICK h : h = i + j
      OBVIOUS
    <3>2. h \in 1..(l + 1) /\ ~(h < i) /\ h # i /\ h - 1 = (i - 1) + j
      BY <1>3, <3>1
    <3> QED BY <1>7, <3>1, <3>2
  <2>3. PICK L, d : L = l + 1 /\ d = i - 1
    OBVIOUS
  <2>4. /\ l \in Nat /\ L \in Nat /\ d \in Nat /\ i \in Nat /\ d <= d /\ d <= l /\ d <= i
        /\ i <= L /\ L - i = l - d
    BY <1>3, <2>3
  <2>5. (\A j \in 1..d : t[j] = s[j]) /\ (\A j \in 1..(l - d) : t[i + j] = s[d + j])
    BY <2>1, <2>2, <2>3
  <2>6. Segment(s, l, t, L, d, d, i)
    BY <2>4, <2>5 DEF Segment
  <2> QED BY <2>3, <2>6
<1>10. i \in Nat \ {0} /\ t[i] = new
  BY <1>3, <1>7
<1>11. IsFree(new)
  BY DEF MayAdd
<1> QED BY <1>1, <1>3, <1>4, <1>5, <1>6, <1>8, <1>9, <1>10, <1>11 DEF ArrayEdit, From

LEMMA ReplaceArray ==
  ASSUME IsTree(kids), NEW n \in Inner, NEW i \in DOMAIN kids[n], NEW old, old = kids[n][i],
         NEW new \in Leaves \cup Inters, MayAdd(n, new),
         NEW k, k = [kids EXCEPT ![n] = ReplaceAt(kids[n], i, new)]
  PROVE  ArrayEdit(k, n, i, old, new)
<1>1. PICK s, l, t : s = kids[n] /\ l = Len(s) /\ t = ReplaceAt(s, i, new)
  OBVIOUS
<1>2. Distinct(s, l)
  BY <1>1, StaysThere
<1>3. /\ s \in Seq(Leaves \cup Inters) /\ l \in Nat /\ i \in 1..l /\ DOMAIN s = 1..l
      /\ \A p \in 1..l, q \in 1..l : s[p] = s[q] => p = q
      /\ \A x : x \in ToSet(s) <=> \E p \in 1..l : x = s[p]
  BY <1>1, <1>2 DEF Distinct
<1>4. IsTree(k) /\ ChangedAt(k, n) /\ k[n] = t
  BY <1>1, ReplaceEdit, EditTree
<1>5. DOMAIN t = 1..l /\ \A j \in 1..l : t[j] = IF j = i THEN new ELSE s[j]
  BY <1>1, <1>3 DEF ReplaceAt
<1>6. Len(t) = l
  BY <1>1, <1>3, EditLengths
<1>7. old \in Leaves \cup Inters /\ old \in ToSet(s)
  BY <1>1, <1>3, ElementOfSeq
<1>8. old # NoNode /\ new # NoNode
  BY <1>7, NodesApart
<1>9. IsFree(new)
  BY DEF MayAdd
<1>10. old # new
  BY <1>1, <1>7, <1>9 DEF IsFree
<1>11. \A j \in 1..l : t[j] # old
  BY <1>1, <1>3, <1>5, <1>10
<1>12. Segment(s, l, t, l, i - 1, i, i)
  <2>1. \A j \in 1..(i - 1) : t[j] = s[j]
    BY <1>3, <1>5
  <2>2. \A j \in 1..(l - i) : t[i + j] = s[i + j]
    BY <1>3, <1>5
  <2> QED BY <1>3, <2>1, <2>2 DEF Segment
<1>13. i \in Nat \ {0} /\ t[i] = new
  BY <1>3, <1>5
<1> QED BY <1>1, <1>3, <1>4, <1>5, <1>6, <1>8, <1>9, <1>11, <1>12, <1>13 DEF ArrayEdit, From

(* What such an edit does to the pages of the document: behind the a-th,   *)
(* the w0 pages of old go and the w1 pages of new come.                    *)
Exchanged(k, old, new, a, w0, w1) ==
    /\ a \in Nat /\ w0 \in Nat /\ w1 \in Nat
    /\ Segment(OrderBelow(kids)[root], TrueCount(kids)[root], OrderBelow(k)[root], TrueCount(k)[root],
               a, a + w0, a + w1)
    /\ old = NoNode => w0 = 0
    /\ old # NoNode => /\ old \in Subtree(kids, root) /\ a = Offset(kids, root, old)
                       /\ w0 = TrueCount(kids)[old] /\ SameBelow(k, old)
    /\ new = NoNode => w1 = 0
    /\ new # NoNode => /\ new \in Subtree(k, root) /\ a = Offset(k, root, new)
                       /\ w1 = TrueCount(k)[new]

LEMMA EditExchanges ==
  ASSUME IsTree(kids), root \in Roots, NEW n \in Inner, IsSeen(n), NEW k, NEW i,
         NEW old \in Nodes \cup {NoNode}, NEW new \in Nodes \cup {NoNode},
         ArrayEdit(k, n, i, old, new), NEW a, a = Offset(kids, root, n) + Before(kids, TrueCount(kids), n, i)
  PROVE  \E w0, w1 : Exchanged(k, old, new, a, w0, w1)
<1>1. /\ IsTree(k) /\ ChangedAt(k, n) /\ i \in Nat \ {0}
      /\ Segment(kids[n], Len(kids[n]), k[n], Len(k[n]), i - 1, From(old, i), From(new, i))
      /\ old # NoNode => i \in DOMAIN kids[n] /\ kids[n][i] = old
      /\ new # NoNode => i \in DOMAIN k[n] /\ k[n][i] = new
  BY DEF ArrayEdit
<1>2. root \in Inner /\ root \in Nodes /\ root # NoNode /\ n \in Nodes
  BY NodesApart DEF Inner
<1>3. n \in Subtree(kids, root)
  BY <1>2 DEF IsSeen, TreeNodes
<1>4. Typed(kids) /\ Typed(k)
  BY <1>1 DEF IsTree, Tree
<1>5. PICK size0, size1, l0, l1, e0, e1 :
        /\ size0 = TrueCount(kids) /\ size1 = TrueCount(k) /\ l0 = Len(kids[n]) /\ l1 = Len(k[n])
        /\ e0 = From(old, i) /\ e1 = From(new, i)
  OBVIOUS
<1>6. PICK b0, z0 : KidSums(kids, size0, n, b0, z0, l0)
  BY <1>5, KidSumsExist
<1>7. PICK b1, z1 : KidSums(k, size1, n, b1, z1, l1)
  BY <1>1, <1>5, KidSumsExist
<1>8. Segment(kids[n], l0, k[n], l1, i - 1, e0, e1)
  BY <1>1, <1>5
<1>9. (i - 1) + 1 = i
  BY <1>1
<1>10. /\ Lifted(k, n, n, b0[i], b0[e0 + 1], b1[e1 + 1]) /\ b1[i] = b0[i]
       /\ b0[i] \in Nat /\ b0[e0 + 1] \in Nat /\ b1[e1 + 1] \in Nat
  <2>1. PICK d : d = i - 1
    OBVIOUS
  <2>2. /\ IsTree(kids) /\ IsTree(k) /\ n \in Inner /\ ChangedAt(k, n)
        /\ KidSums(kids, TrueCount(kids), n, b0, z0, l0) /\ KidSums(k, TrueCount(k), n, b1, z1, l1)
        /\ Segment(kids[n], l0, k[n], l1, d, e0, e1)
    BY <1>1, <1>5, <1>6, <1>7, <1>8, <2>1
  <2>3. /\ Lifted(k, n, n, b0[d + 1], b0[e0 + 1], b1[e1 + 1]) /\ b1[d + 1] = b0[d + 1]
        /\ b0[d + 1] \in Nat /\ b0[e0 + 1] \in Nat /\ b1[e1 + 1] \in Nat
    BY <2>2, LiftedAt
  <2>4. d + 1 = i
    BY <1>9, <2>1
  <2> QED BY <2>3, <2>4
<1>11. PICK d \in Nat, h0 \in Nat, h1 \in Nat : d = b0[i] /\ h0 = b0[e0 + 1] /\ h1 = b1[e1 + 1]
  BY <1>10
<1>12. PICK f \in Nat : f = Offset(kids, root, n)
  BY <1>2, <1>3, OffsetNat
<1>13. Lifted(k, n, root, d, h0, h1)
  <2>1. Lifted(k, n, n, d, h0, h1)
    BY <1>10, <1>11
  <2> QED BY <1>1, <1>2, <1>3, <2>1, LiftedUp
<1>14. /\ Segment(OrderBelow(kids)[root], TrueCount(kids)[root], OrderBelow(k)[root], TrueCount(k)[root],
                  f + d, f + h0, f + h1)
       /\ n \in Subtree(k, root) /\ Offset(k, root, n) = f
  BY <1>12, <1>13 DEF Lifted
<1>15. i \in 1..(l0 + 1) /\ i \in 1..(l1 + 1) /\ l0 \in Nat /\ l1 \in Nat
  BY <1>1, <1>8 DEF Segment
<1>16. a = f + d
  BY <1>5, <1>6, <1>11, <1>12, <1>15 DEF KidSums
<1>17. d <= h0 /\ d <= h1
  BY <1>11, <1>12, <1>14 DEF Segment
<1>18. PICK w0 \in Nat, w1 \in Nat : h0 = d + w0 /\ h1 = d + w1
  <2>1. h0 - d \in Nat /\ h1 - d \in Nat /\ h0 = d + (h0 - d) /\ h1 = d + (h1 - d)
    BY <1>17
  <2> QED BY <2>1
<1>19. Segment(OrderBelow(kids)[root], TrueCount(kids)[root], OrderBelow(k)[root], TrueCount(k)[root],
               a, a + w0, a + w1)
  <2>1. f + h0 = a + w0 /\ f + h1 = a + w1
    BY <1>16, <1>18
  <2> QED BY <1>14, <1>16, <2>1
<1>20. a \in Nat
  BY <1>16
<1>21. ASSUME old = NoNode PROVE w0 = 0
  <2>1. e0 = i - 1
    BY <1>5, <1>21 DEF From
  <2>2. h0 = d
    BY <1>9, <1>11, <2>1
  <2> QED BY <1>18, <2>2
<1>22. ASSUME new = NoNode PROVE w1 = 0
  <2>1. e1 = i - 1
    BY <1>5, <1>22 DEF From
  <2>2. h1 = d
    BY <1>9, <1>10, <1>11, <2>1
  <2> QED BY <1>18, <2>2
<1>23. ASSUME old # NoNode
       PROVE  /\ old \in Subtree(kids, root) /\ a = Offset(kids, root, old)
              /\ w0 = TrueCount(kids)[old] /\ SameBelow(k, old)
  <2>1. i \in DOMAIN kids[n] /\ kids[n][i] = old /\ e0 = i
    BY <1>1, <1>5, <1>23 DEF From
  <2>2. /\ old \in Subtree(kids, root)
        /\ Offset(kids, root, old) = Offset(kids, root, n) + Before(kids, TrueCount(kids), n, i)
    BY <1>2, <1>3, <2>1, OffsetOfKid
  <2>3. i \in 1..l0 /\ b0[i + 1] = b0[i] + z0[i] /\ z0[i] = size0[old] /\ z0[i] \in Nat
    BY <1>6, <2>1 DEF KidSums, Sums
  <2>4. w0 = TrueCount(kids)[old]
    <3>1. PICK w \in Nat : w = z0[i]
      BY <2>3
    <3>2. h0 = d + w
      BY <1>11, <2>1, <2>3, <3>1
    <3>3. w0 = w
      BY <1>18, <3>2
    <3> QED BY <1>5, <2>3, <3>1, <3>3
  <2>5. ChangedAt(kids, n)
    BY DEF ChangedAt
  <2>6. n \notin Subtree(kids, old)
    BY <2>1, <2>5, NotBelowKids
  <2>7. old \in Nodes
    BY <1>23
  <2>8. SameBelow(k, old)
    BY <1>1, <2>6, <2>7, SameBelowOthers
  <2> QED BY <2>2, <2>4, <2>8
<1>24. ASSUME new # NoNode
       PROVE  /\ new \in Subtree(k, root) /\ a = Offset(k, root, new)
              /\ w1 = TrueCount(k)[new]
  <2>1. i \in DOMAIN k[n] /\ k[n][i] = new /\ e1 = i
    BY <1>1, <1>5, <1>24 DEF From
  <2>2. /\ new \in Subtree(k, root)
        /\ Offset(k, root, new) = Offset(k, root, n) + Before(k, TrueCount(k), n, i)
    BY <1>1, <1>2, <1>14, <2>1, OffsetOfKid
  <2>3. i \in 1..l1 /\ b1[i + 1] = b1[i] + z1[i] /\ z1[i] = size1[new] /\ z1[i] \in Nat
    BY <1>7, <2>1 DEF KidSums, Sums
  <2>4. w1 = TrueCount(k)[new]
    <3>1. PICK w \in Nat : w = z1[i]
      BY <2>3
    <3>2. h1 = d + w
      BY <1>10, <1>11, <2>1, <2>3, <3>1
    <3>3. w1 = w
      BY <1>18, <3>2
    <3> QED BY <1>5, <2>3, <3>1, <3>3
  <2>5. Before(k, TrueCount(k), n, i) = b1[i]
    BY <1>5, <1>7, <1>15 DEF KidSums
  <2>6. Offset(k, root, new) = f + d
    BY <1>10, <1>11, <1>14, <2>2, <2>5
  <2> QED BY <1>16, <2>2, <2>4, <2>6
<1> QED BY <1>19, <1>20, <1>21, <1>22, <1>23, <1>24 DEF Exchanged

-----------------------------------------------------------------------------
(* The list of pages, and the positions its pages move to. *)

(* The pages listed are in their places in an order of l pages. *)
Placed(list, order, l) == \A p \in DOMAIN list : p \in 1..l /\ list[p] = order[p]

(* What is moved to where it belongs is in place, and nothing is lost. *)
LEMMA MoveInPlace ==
  ASSUME NEW list, NEW to, DOMAIN to \subseteq DOMAIN list, DOMAIN list \subseteq Nat,
         NEW order, NEW l,
         \A p \in DOMAIN list : p \notin DOMAIN to => p \in 1..l /\ list[p] = order[p],
         \A p \in DOMAIN to : to[p] \in 1..l /\ list[p] = order[to[p]]
  PROVE  Placed(Move(list, to), order, l) /\ Range(Move(list, to)) = Range(list)
<1> DEFINE at(q) == {p \in DOMAIN to : to[p] = q}
<1>1. PICK moved : moved = [q \in Range(to) |-> list[Min(at(q))]]
  OBVIOUS
<1>2. ASSUME NEW q \in Range(to) PROVE q \in 1..l /\ moved[q] = order[q] /\ moved[q] \in Range(list)
  <2>1. at(q) # {} /\ at(q) \subseteq Nat
    BY <1>2 DEF Range
  <2>2. Min(at(q)) \in at(q)
    <3> HIDE DEF at
    <3> QED BY <2>1, MinFacts
  <2>3. PICK m : m = Min(at(q))
    OBVIOUS
  <2>4. m \in DOMAIN to /\ to[m] = q /\ moved[q] = list[m]
    BY <1>1, <1>2, <2>2, <2>3
  <2> QED BY <2>4 DEF Range
<1>3. DOMAIN moved = Range(to)
  BY <1>1
<1>4. PICK rest : rest = [p \in DOMAIN list \ DOMAIN to |-> list[p]]
  OBVIOUS
<1>5. rest = Restrict(list, DOMAIN list \ DOMAIN to)
  BY <1>4 DEF Restrict
<1>6. Move(list, to) = Filled(rest, moved)
  BY <1>1, <1>5 DEF Move
<1>7. PICK list1 : list1 = Filled(rest, moved)
  OBVIOUS
<1>8. /\ DOMAIN list1 = (DOMAIN list \ DOMAIN to) \cup Range(to)
      /\ \A q \in DOMAIN list \ DOMAIN to : list1[q] = list[q]
      /\ \A q \in Range(to) : q \notin DOMAIN list \ DOMAIN to => list1[q] = moved[q]
  BY <1>3, <1>4, <1>7 DEF Filled
<1> HIDE DEF at
<1>9. Placed(list1, order, l)
  BY <1>2, <1>8 DEF Placed
<1>10. Range(list1) \subseteq Range(list)
  BY <1>2, <1>8 DEF Range
<1>11. ASSUME NEW p \in DOMAIN list PROVE list[p] \in Range(list1)
  <2>1. CASE p \notin DOMAIN to
    BY <1>8, <2>1 DEF Range
  <2>2. CASE p \in DOMAIN to
    <3>1. PICK q : q = to[p]
      OBVIOUS
    <3>2. q \in Range(to) /\ list[p] = order[q] /\ q \in DOMAIN list1
      BY <1>8, <2>2, <3>1 DEF Range
    <3>3. list1[q] = order[q]
      BY <1>9, <3>2 DEF Placed
    <3> QED BY <3>2, <3>3 DEF Range
  <2> QED BY <2>1, <2>2
<1>12. Range(list) \subseteq Range(list1)
  BY <1>11 DEF Range
<1> QED BY <1>6, <1>7, <1>9, <1>10, <1>12

(* Positions stay in the range of size_t. *)
LEMMA ShiftedExact ==
  ASSUME NEW p \in Nat, NEW d \in Int, NEW q, q = p + d, q \in Nat, q < SizeT
  PROVE  Shifted(p, d) = q
<1>1. PICK s : s = SizeT
  OBVIOUS
<1>2. s \in Nat /\ s > 0
  BY <1>1 DEF SizeT
<1>3. q < s
  BY <1>1
<1>4. q % s = q
  BY <1>2, <1>3
<1> QED BY <1>1, <1>4 DEF Shifted

(* The entries of a list that are not cut out. *)
Uncut(list, a, w) == {p \in DOMAIN list : p <= a \/ a + w < p}

Far(list, b) == {p \in DOMAIN list : p > b}
ShiftedFrom(far, d) == [p \in far |-> Shifted(p, d)]

(* Of the pages listed in the order s0 some are cut out, and those behind  *)
(* are to move by the difference in number.                                *)
ShiftCase(s0, l0, s1, l1, a, w0, w1, list, rest, far, d) ==
    /\ a \in Nat /\ w0 \in Nat /\ w1 \in Nat
    /\ Segment(s0, l0, s1, l1, a, a + w0, a + w1) /\ l1 < SizeT /\ Placed(list, s0, l0)
    /\ rest = Restrict(list, Uncut(list, a, w0)) /\ far = Far(rest, a + w0) /\ d = w1 - w0

(* Then what is left is in place.                                          *)
LEMMA ShiftInPlace ==
  ASSUME NEW s0, NEW l0, NEW s1, NEW l1, NEW a, NEW w0, NEW w1, NEW list, NEW rest, NEW far, NEW d,
         ShiftCase(s0, l0, s1, l1, a, w0, w1, list, rest, far, d)
  PROVE  /\ Placed(Move(rest, ShiftedFrom(far, d)), s1, l1)
         /\ Range(Move(rest, ShiftedFrom(far, d))) = Range(rest)
<1>1. PICK to : to = ShiftedFrom(far, d) /\ to = [p \in far |-> Shifted(p, d)]
  BY DEF ShiftedFrom
<1> USE DEF ShiftCase
<1>0. far = {p \in DOMAIN rest : p > a + w0}
  BY DEF Far
<1>2. /\ DOMAIN rest = Uncut(list, a, w0) /\ \A p \in DOMAIN rest : rest[p] = list[p]
      /\ DOMAIN to = far
  BY <1>0, <1>1 DEF Restrict, Uncut
<1>3. DOMAIN rest \subseteq DOMAIN list /\ DOMAIN to \subseteq DOMAIN rest
  BY <1>0, <1>2 DEF Uncut
<1>4. l0 \in Nat /\ l1 \in Nat
  BY DEF Segment
<1>5. \A p \in DOMAIN list : p \in Nat /\ p \in 1..l0 /\ list[p] = s0[p]
  BY <1>4 DEF Placed
<1>6. DOMAIN rest \subseteq Nat
  BY <1>3, <1>5
<1>7. ASSUME NEW p \in DOMAIN rest, p \notin DOMAIN to PROVE p \in 1..l1 /\ rest[p] = s1[p]
  <2>1. p \in 1..l0 /\ rest[p] = s0[p] /\ p <= a
    BY <1>0, <1>2, <1>3, <1>5, <1>7 DEF Uncut
  <2> QED BY <1>4, <2>1 DEF Segment
<1>8. ASSUME NEW p \in DOMAIN to PROVE to[p] \in 1..l1 /\ rest[p] = s1[to[p]]
  <2>1. p \in 1..l0 /\ rest[p] = s0[p] /\ a + w0 < p
    BY <1>0, <1>2, <1>3, <1>5, <1>8
  <2>2. PICK i : i = p - (a + w0)
    OBVIOUS
  <2>3. i \in 1..(l0 - (a + w0)) /\ p = (a + w0) + i
    BY <1>4, <2>1, <2>2
  <2>4. s1[(a + w1) + i] = s0[(a + w0) + i]
    BY <2>3 DEF Segment
  <2>5. (a + w1) + i \in 1..l1 /\ (a + w1) + i = p + d /\ p \in Nat /\ d \in Int
    BY <1>4, <2>3 DEF Segment
  <2>6. PICK q : q = (a + w1) + i
    OBVIOUS
  <2>7. q \in Nat /\ q = p + d /\ q <= l1
    BY <1>4, <2>5, <2>6
  <2>8. q < SizeT
    <3>1. PICK z : z = SizeT
      OBVIOUS
    <3>2. z \in Nat
      BY <3>1 DEF SizeT
    <3> QED BY <1>4, <2>7, <3>1, <3>2
  <2>9. Shifted(p, d) = q
    BY <2>5, <2>7, <2>8, ShiftedExact
  <2> QED BY <1>1, <1>2, <2>1, <2>3, <2>4, <2>5, <2>6, <2>9
<1> QED BY <1>1, <1>3, <1>6, <1>7, <1>8, MoveInPlace

(* The page at the position that getNodePosition finds. *)
LEMMA LeafPosition ==
  ASSUME NEW k, IsTree(k), NEW c, TrueCache(k, c), root \in Roots, NEW leaf \in Leaves,
         NEW p, p = NodePosition(k, c, leaf).pos
  PROVE  /\ p # 0 => p \in 1..TrueCount(k)[root] /\ OrderBelow(k)[root][p] = leaf
         /\ leaf \in Subtree(k, root) => p # 0
<1>1. KidsCount(k, c) = TrueCount(k)
  BY TrueCacheCounts
<1>2. leaf \in Nodes /\ root \in Nodes
  BY NodesApart DEF Inner
<1>3. IF leaf \in Subtree(k, root) THEN PlacedAt(OrderBelow(k), TrueCount(k), root, leaf, p) ELSE p = 0
  BY <1>1, <1>2, NodePositionRight
<1>4. PICK order, size : order = OrderBelow(k) /\ size = TrueCount(k)
  OBVIOUS
<1>5. InOrder(k, order, size)
  BY <1>4, OrderIs
<1>6. order[leaf] = <<leaf>> /\ size[leaf] = 1 /\ size[root] \in Nat
  BY <1>2, <1>5 DEF InOrder
<1>7. ASSUME leaf \in Subtree(k, root)
      PROVE  p # 0 /\ p \in 1..size[root] /\ order[root][p] = leaf
  <2>1. PlacedAt(order, size, root, leaf, p)
    BY <1>3, <1>4, <1>7
  <2>2. PICK n \in Nat : n = size[root]
    BY <1>6
  <2>3. /\ p \in Nat /\ 1 <= p /\ (p - 1) + 1 <= n
        /\ \A q \in 1..1 : order[root][(p - 1) + q] = order[leaf][q]
    BY <1>6, <2>1, <2>2 DEF PlacedAt
  <2>4. order[root][(p - 1) + 1] = order[leaf][1] /\ (p - 1) + 1 = p /\ p \in 1..n /\ p # 0
    BY <2>3
  <2> QED BY <1>6, <2>2, <2>4
<1> QED BY <1>3, <1>4, <1>7

LEMMA ReassignInPlace ==
  ASSUME NEW k, IsTree(k), root \in Roots, NEW u, Mending(k, u),
         NEW order, order = OrderBelow(k)[root], NEW l, l = TrueCount(k)[root]
  PROVE  /\ Placed(Reassign(k, u).list, order, l)
         /\ (\A p \in DOMAIN u.list : u.list[p] \in Subtree(k, root)) =>
               Range(Reassign(k, u).list) = Range(u.list)
<1>1. PICK list, cache : u = Lists(list, cache) /\ PagesListed(list) /\ TrueCache(k, cache)
  BY DEF Mending
<1>2. u.list = list /\ u.cache = cache
  BY <1>1 DEF Lists
<1>3. PICK found : found = [p \in DOMAIN list |-> NodePosition(k, cache, list[p])]
  OBVIOUS
<1>4. PICK known : known = {p \in DOMAIN found : found[p].pos # 0}
  OBVIOUS
<1>5. PICK to : to = [p \in known |-> found[p].pos]
  OBVIOUS
<1>6. PICK rest : rest = Restrict(list, known)
  OBVIOUS
<1>7. Reassign(k, u).list = Move(rest, to)
  BY <1>2, <1>3, <1>4, <1>5, <1>6 DEF Reassign, Lists
<1>8. /\ known \subseteq DOMAIN list /\ DOMAIN to = known
      /\ DOMAIN rest = known /\ \A p \in known : rest[p] = list[p]
  BY <1>3, <1>4, <1>5, <1>6 DEF Restrict
<1>9. \A p \in DOMAIN list : p \in Nat /\ list[p] \in Leaves
  BY <1>1 DEF PagesListed
<1>10. ASSUME NEW p \in known PROVE to[p] \in 1..l /\ rest[p] = order[to[p]]
  <2>1. PICK leaf \in Leaves : leaf = list[p]
    BY <1>8, <1>9
  <2>2. PICK q : q = NodePosition(k, cache, leaf).pos
    OBVIOUS
  <2>3. q # 0 /\ to[p] = q
    BY <1>3, <1>4, <1>5, <1>8, <2>1, <2>2
  <2>4. q \in 1..l /\ order[q] = leaf
    BY <1>1, <2>2, <2>3, LeafPosition
  <2> QED BY <1>8, <2>1, <2>3, <2>4
<1>11. /\ DOMAIN to \subseteq DOMAIN rest /\ DOMAIN rest \subseteq Nat
       /\ \A p \in DOMAIN rest : p \notin DOMAIN to => p \in 1..l /\ rest[p] = order[p]
       /\ \A p \in DOMAIN to : to[p] \in 1..l /\ rest[p] = order[to[p]]
  BY <1>8, <1>9, <1>10
<1>12. Placed(Move(rest, to), order, l) /\ Range(Move(rest, to)) = Range(rest)
  BY <1>11, MoveInPlace, ZenonT(60)
<1>13. ASSUME \A p \in DOMAIN list : list[p] \in Subtree(k, root) PROVE Range(rest) = Range(list)
  <2>1. ASSUME NEW p \in DOMAIN list PROVE p \in known
    <3>1. PICK leaf \in Leaves : leaf = list[p] /\ leaf \in Subtree(k, root)
      BY <1>9, <1>13
    <3>2. PICK q : q = NodePosition(k, cache, leaf).pos
      OBVIOUS
    <3>3. q # 0
      BY <1>1, <3>1, <3>2, LeafPosition
    <3> QED BY <1>3, <1>4, <3>1, <3>2, <3>3
  <2> QED BY <1>8, <2>1 DEF Range
<1> QED BY <1>2, <1>7, <1>12, <1>13

-----------------------------------------------------------------------------
(* The way up by the Parent entries. *)

(* The Parent of a node there may be. *)
Above(par, x) == IF x = NoNode THEN NoNode ELSE par[x]

(* f goes up from a node, l times. *)
Climb(f, par, node, l) ==
    /\ f \in [0..l -> Inner \cup {NoNode}] /\ f[0] = par[node]
    /\ \A i \in 1..l : f[i] = Above(par, f[i - 1])

LEMMA IsDescendantIs ==
  ASSUME NEW par, par \in [Nodes -> Inner \cup {NoNode}], NEW node \in Nodes,
         NEW l, l = Cardinality(Nodes)
  PROVE  l \in Nat /\ \E f : /\ Climb(f, par, node, l)
                             /\ \A top : IsDescendant(par, node, top) <=> \E i \in 0..l : f[i] = top
<1>1. l \in Nat
  BY PageTreeAssumption, FS_CardinalityType
<1>2. \A n \in Inner : n \in Nodes
  BY NodesApart
<1>3. PICK X : X = Inner \cup {NoNode}
  OBVIOUS
<1>4. PICK g : g = [i \in 1..l |-> [x \in X |-> Above(par, x)]]
  OBVIOUS
<1>5. g \in [1..l -> [X -> X]] /\ par[node] \in X
  <2>1. \A x \in X : Above(par, x) \in X
    BY <1>2, <1>3 DEF Above
  <2> QED BY <1>3, <1>4, <2>1
<1>6. PICK e : Iterates(e, l, X, par[node], g)
  BY <1>1, <1>5, IterateExists
<1> DEFINE Up(f) == f = [i \in 0..l |-> IF i = 0 THEN par[node]
                                        ELSE IF f[i - 1] = NoNode THEN NoNode ELSE par[f[i - 1]]]
<1>7. Up(e)
  <2>1. /\ e \in [0..l -> X] /\ e[0] = par[node] /\ \A i \in 1..l : e[i] = g[i][e[i - 1]]
    BY <1>6 DEF Iterates
  <2>2. ASSUME NEW i \in 1..l PROVE e[i] = IF e[i - 1] = NoNode THEN NoNode ELSE par[e[i - 1]]
    <3>1. i - 1 \in 0..l
      BY <1>1
    <3>2. PICK x : x = e[i - 1]
      OBVIOUS
    <3>3. x \in X
      BY <2>1, <3>1, <3>2
    <3>4. e[i] = Above(par, x)
      BY <1>4, <2>1, <3>2, <3>3
    <3> QED BY <3>2, <3>4 DEF Above
  <2>3. \A i \in 0..l : i = 0 \/ i \in 1..l
    BY <1>1
  <2>4. PICK f : f = [i \in 0..l |-> IF i = 0 THEN par[node]
                                     ELSE IF e[i - 1] = NoNode THEN NoNode ELSE par[e[i - 1]]]
    OBVIOUS
  <2>5. \A i \in 0..l : f[i] = e[i]
    BY <2>1, <2>2, <2>3, <2>4
  <2>6. f = e
    BY <2>1, <2>4, <2>5
  <2> QED BY <2>4, <2>6
<1>8. PICK up : up = CHOOSE f : Up(f)
  BY SMTT(60)
<1>9. Up(up)
  BY <1>7, <1>8
<1>10. \A top : IsDescendant(par, node, top) <=> \E i \in DOMAIN up : up[i] = top
  BY <1>8 DEF IsDescendant
<1>11. DOMAIN up = 0..l
  BY <1>9
<1>12. up[0] = par[node] /\ \A i \in 1..l : up[i] = Above(par, up[i - 1])
  <2>1. \A i \in 1..l : i \in 0..l /\ i # 0
    BY <1>1
  <2>2. 0 \in 0..l
    BY <1>1
  <2> QED BY <1>9, <2>1, <2>2 DEF Above
<1> HIDE DEF Up
<1>13. \A i \in 0..l : up[i] \in Inner \cup {NoNode}
  <2>1. PICK good : good = {i \in 0..l : up[i] \in Inner \cup {NoNode}}
    OBVIOUS
  <2>2. 0 \in good
    BY <1>1, <1>3, <1>5, <1>12, <2>1
  <2>3. ASSUME NEW i \in 0..(l - 1), i \in good PROVE i + 1 \in good
    <3>1. i + 1 \in 0..l /\ i + 1 \in 1..l /\ (i + 1) - 1 = i
      BY <1>1
    <3>2. up[i + 1] = Above(par, up[i]) /\ up[i] \in Inner \cup {NoNode}
      BY <1>12, <2>1, <2>3, <3>1
    <3> QED BY <1>2, <2>1, <3>1, <3>2 DEF Above
  <2>4. \A i \in 0..l : i \in good
    BY <1>1, <2>2, <2>3, UpTo0
  <2> QED BY <2>1, <2>4
<1>14. up = [i \in 0..l |-> up[i]]
  BY <1>9 DEF Up
<1>15. Climb(up, par, node, l)
  BY <1>11, <1>12, <1>13, <1>14 DEF Climb
<1> QED BY <1>1, <1>10, <1>11, <1>15

(* From a node up to another in fewer than l steps. *)
Reaches(par, x, top, l) ==
    \E i \in Nat : i < l /\ \E f : Climb(f, par, x, i) /\ f[i] = top

LEMMA ReachesOn ==
  ASSUME NEW par, NEW x, NEW h \in Inner, par[x] = h, NEW top, NEW m \in Nat, NEW l \in Nat, m < l,
         Reaches(par, h, top, m)
  PROVE  Reaches(par, x, top, l)
<1>1. PICK i \in Nat : i < m /\ \E f : Climb(f, par, h, i) /\ f[i] = top
  BY DEF Reaches
<1>2. PICK f : Climb(f, par, h, i) /\ f[i] = top
  BY <1>1
<1>3. PICK g : g = [j \in 0..(i + 1) |-> IF j = 0 THEN h ELSE f[j - 1]]
  OBVIOUS
<1>4. f \in [0..i -> Inner \cup {NoNode}] /\ f[0] = par[h] /\ \A j \in 1..i : f[j] = Above(par, f[j - 1])
  BY <1>2 DEF Climb
<1>5. g[0] = h /\ \A j \in 1..(i + 1) : j - 1 \in 0..i /\ g[j] = f[j - 1]
  BY <1>3
<1>6. g \in [0..(i + 1) -> Inner \cup {NoNode}]
  <2>1. \A j \in 0..(i + 1) : j = 0 \/ j \in 1..(i + 1)
    OBVIOUS
  <2>2. \A j \in 0..(i + 1) : g[j] \in Inner \cup {NoNode}
    BY <1>4, <1>5, <2>1
  <2> QED BY <1>3, <2>2
<1>7. ASSUME NEW j \in 1..(i + 1) PROVE g[j] = Above(par, g[j - 1])
  <2>1. CASE j = 1
    <3>1. g[j] = f[0] /\ g[j - 1] = h
      BY <1>5, <2>1
    <3>2. h # NoNode
      BY NodesApart
    <3> QED BY <1>4, <3>1, <3>2 DEF Above
  <2>2. CASE j # 1
    <3>1. j - 1 \in 1..i /\ j - 1 \in 1..(i + 1)
      BY <2>2
    <3>2. g[j] = f[j - 1] /\ g[j - 1] = f[(j - 1) - 1]
      BY <1>5, <3>1
    <3> QED BY <1>4, <3>1, <3>2
  <2> QED BY <2>1, <2>2
<1>8. Climb(g, par, x, i + 1)
  BY <1>5, <1>6, <1>7 DEF Climb
<1>9. g[i + 1] = top
  <2>1. i + 1 \in 1..(i + 1) /\ (i + 1) - 1 = i
    OBVIOUS
  <2> QED BY <1>2, <1>5, <2>1
<1>10. i + 1 \in Nat /\ i + 1 < l
  BY <1>1
<1> QED BY <1>8, <1>9, <1>10 DEF Reaches

LEMMA ReachesAtOnce ==
  ASSUME NEW par, NEW x, NEW top \in Inner, par[x] = top, NEW l \in Nat, 0 < l
  PROVE  Reaches(par, x, top, l)
<1>1. PICK f : f = [j \in 0..0 |-> top]
  OBVIOUS
<1>2. f \in [0..0 -> Inner \cup {NoNode}] /\ f[0] = top
  BY <1>1
<1>3. \A i \in 1..0 : f[i] = Above(par, f[i - 1])
  OBVIOUS
<1>4. Climb(f, par, x, 0)
  BY <1>2, <1>3 DEF Climb
<1> QED BY <1>2, <1>4 DEF Reaches

(* Below a node of a tree every way up leads to it, and is shorter than    *)
(* there are nodes.                                                        *)
LEMMA BelowReaches ==
  ASSUME NEW k, IsTree(k), NEW par, RightParents(k, par), NEW top \in Inner
  PROVE  \A x \in Nodes : x \in Subtree(k, top) /\ x # top => Reaches(par, x, top, Cardinality(Nodes))
<1>1. PICK N, rank : Tree(k, N, rank)
  BY DEF IsTree
<1>2. Typed(k) /\ Falling(k, rank) /\ N \in Nat /\ rank \in [Nodes -> 0..N]
  BY <1>1 DEF Tree
<1>3. IsFiniteSet(Nodes)
  BY PageTreeAssumption
<1> DEFINE Z(x) == Nodes \ Subtree(k, x)
<1>4. \A x \in Nodes : Cardinality(Z(x)) \in Nat /\ Cardinality(Z(x)) <= Cardinality(Nodes)
  BY <1>3, FS_Subset, FS_CardinalityType
<1> DEFINE Good == {x \in Nodes : x \in Subtree(k, top) /\ x # top => Reaches(par, x, top, Cardinality(Z(x)))}
<1>5. PICK high : high = [x \in Nodes |-> N - rank[x]]
  OBVIOUS
<1>6. high \in [Nodes -> Nat]
  BY <1>2, <1>5
<1>7. ASSUME NEW x \in Nodes, \A m \in Nodes : high[m] < high[x] => m \in Good
      PROVE  x \in Good
  <2>1. SUFFICES ASSUME x \in Subtree(k, top), x # top PROVE Reaches(par, x, top, Cardinality(Z(x)))
    OBVIOUS
  <2>2. top \in Nodes
    BY NodesApart
  <2>3. PICK h \in Inner \cap Subtree(k, top) : \E i \in DOMAIN k[h] : x = k[h][i]
    BY <1>2, <2>1, <2>2, SubtreeHolder
  <2>4. PICK i \in DOMAIN k[h] : x = k[h][i]
    BY <2>3
  <2>5. par[x] = h /\ h \in Nodes
    BY <2>3, <2>4, NodesApart DEF RightParents
  <2>6. rank[x] < rank[h]
    BY <1>2, <2>3, <2>4 DEF Falling
  <2>7. h \notin Subtree(k, x)
    <3>1. \A y \in Subtree(k, x) : rank[y] <= rank[x]
      BY <1>2, SubtreeClosed
    <3>2. rank[x] \in 0..N /\ rank[h] \in 0..N
      BY <1>2, <2>5
    <3> QED BY <2>6, <3>1, <3>2
  <2>8. Subtree(k, x) \subseteq Subtree(k, h)
    BY <1>2, <2>3, <2>4, SubtreeParts
  <2>9. PICK zx, zh : zx = Z(x) /\ zh = Z(h)
    OBVIOUS
  <2>10. h \in zx /\ zh \subseteq zx \ {h}
    <3>1. h \in Subtree(k, h)
      BY <1>2, <2>5, SubtreeParts
    <3> QED BY <2>5, <2>7, <2>8, <2>9, <3>1
  <2>11. Cardinality(zh) < Cardinality(zx) /\ Cardinality(zh) \in Nat /\ Cardinality(zx) \in Nat
    <3>1. zx \in SUBSET Nodes /\ zh \in SUBSET Nodes
      BY <2>9
    <3>2. Cardinality(zx \ {h}) < Cardinality(zx) /\ zx \ {h} \in SUBSET Nodes
      BY <1>3, <2>10, <3>1, SmallerSet
    <3>3. Cardinality(zx \ {h}) \in Nat /\ Cardinality(zx) \in Nat /\ Cardinality(zh) \in Nat
      BY <1>3, <3>1, <3>2, SmallerSet
    <3>4. Cardinality(zh) <= Cardinality(zx \ {h})
      <4>1. IsFiniteSet(zx \ {h})
        BY <1>3, <3>2, FS_Subset
      <4> QED BY <2>10, <4>1, FS_Subset
    <3> QED BY <3>2, <3>3, <3>4
  <2>12. CASE h = top
    BY <2>5, <2>9, <2>11, <2>12, ReachesAtOnce
  <2>13. CASE h # top
    <3>1. high[h] < high[x]
      BY <1>2, <1>5, <2>5, <2>6
    <3>2. h \in Good
      BY <1>7, <2>5, <3>1
    <3>3. Reaches(par, h, top, Cardinality(zh))
      BY <2>3, <2>9, <2>13, <3>2
    <3> QED BY <2>5, <2>9, <2>11, <3>3, ReachesOn
  <2> QED BY <2>12, <2>13
<1>8. \A x \in Nodes : x \in Good
  <2>1. Falls(Nodes, high, Good)
    BY <1>7 DEF Falls
  <2> HIDE DEF Good
  <2> QED BY <1>6, <2>1, RankInduction
<1>9. ASSUME NEW x \in Nodes, x \in Subtree(k, top), x # top
      PROVE  Reaches(par, x, top, Cardinality(Nodes))
  <2>1. Reaches(par, x, top, Cardinality(Z(x)))
    BY <1>8, <1>9
  <2>2. PICK m, l : m = Cardinality(Z(x)) /\ l = Cardinality(Nodes)
    OBVIOUS
  <2>3. m \in Nat /\ l \in Nat /\ m <= l
    BY <1>3, <1>4, <2>2, FS_CardinalityType
  <2>4. Reaches(par, x, top, m)
    BY <2>1, <2>2
  <2>5. Reaches(par, x, top, l)
    BY <2>3, <2>4 DEF Reaches
  <2> QED BY <2>2, <2>5
<1> QED BY <1>9

LEMMA ClimbsAgree ==
  ASSUME NEW par, NEW x, NEW l \in Nat, NEW i \in Nat, i < l,
         NEW f, Climb(f, par, x, l), NEW g, Climb(g, par, x, i)
  PROVE  f[i] = g[i]
<1>1. f[0] = g[0] /\ \A j \in 1..i : f[j] = Above(par, f[j - 1]) /\ g[j] = Above(par, g[j - 1])
  BY DEF Climb
<1>2. PICK good : good = {j \in 0..i : f[j] = g[j]}
  OBVIOUS
<1>3. 0 \in good
  BY <1>1, <1>2
<1>4. ASSUME NEW j \in 0..(i - 1), j \in good PROVE j + 1 \in good
  <2>1. j + 1 \in 1..i /\ j + 1 \in 0..i /\ (j + 1) - 1 = j
    OBVIOUS
  <2>2. f[j + 1] = Above(par, f[j]) /\ g[j + 1] = Above(par, g[j]) /\ f[j] = g[j]
    BY <1>1, <1>2, <1>4, <2>1
  <2> QED BY <1>2, <2>1, <2>2
<1>5. \A j \in 0..i : j \in good
  BY <1>3, <1>4, UpTo0
<1>6. i \in 0..i
  OBVIOUS
<1> QED BY <1>2, <1>5, <1>6

(* A node below another is its descendant. *)
LEMMA DescendantBelow ==
  ASSUME NEW k, IsTree(k), NEW par, par \in [Nodes -> Inner \cup {NoNode}], RightParents(k, par),
         NEW top \in Inner, NEW x \in Nodes, x \in Subtree(k, top), x # top
  PROVE  IsDescendant(par, x, top)
<1>1. PICK l : l = Cardinality(Nodes)
  OBVIOUS
<1>2. /\ l \in Nat
      /\ \E f : /\ Climb(f, par, x, l)
                /\ \A y : IsDescendant(par, x, y) <=> \E i \in 0..l : f[i] = y
  BY <1>1, IsDescendantIs
<1>3. PICK f : /\ Climb(f, par, x, l)
               /\ \A y : IsDescendant(par, x, y) <=> \E i \in 0..l : f[i] = y
  BY <1>2
<1>4. Reaches(par, x, top, l)
  BY <1>1, BelowReaches
<1>5. PICK i \in Nat : i < l /\ \E g : Climb(g, par, x, i) /\ g[i] = top
  BY <1>4 DEF Reaches
<1>6. PICK g : Climb(g, par, x, i) /\ g[i] = top
  BY <1>5
<1>7. f[i] = top
  BY <1>2, <1>3, <1>5, <1>6, ClimbsAgree
<1>8. i \in 0..l
  BY <1>2, <1>5
<1> QED BY <1>3, <1>7, <1>8

(* A node that is not in the tree has no descendants there. *)
LEMMA NoDescendants ==
  ASSUME NEW k, IsTree(k), NEW par, par \in [Nodes -> Inner \cup {NoNode}], RightParents(k, par),
         root \in Roots, par[root] = NoNode, NEW x \in Nodes, x \in Subtree(k, root),
         NEW old \in Nodes, old \notin Subtree(k, root)
  PROVE  ~ IsDescendant(par, x, old)
<1>1. PICK l : l = Cardinality(Nodes)
  OBVIOUS
<1>2. /\ l \in Nat
      /\ \E f : /\ Climb(f, par, x, l)
                /\ \A y : IsDescendant(par, x, y) <=> \E i \in 0..l : f[i] = y
  BY <1>1, IsDescendantIs
<1>3. PICK f : /\ Climb(f, par, x, l)
               /\ \A y : IsDescendant(par, x, y) <=> \E i \in 0..l : f[i] = y
  BY <1>2
<1>4. PICK N, rank : Tree(k, N, rank)
  BY DEF IsTree
<1>5. Typed(k) /\ Falling(k, rank) /\ root \in Nodes
  BY <1>4, NodesApart DEF Tree, Inner
<1>6. PICK T : T = Subtree(k, root)
  OBVIOUS
<1>7. ASSUME NEW y \in T PROVE par[y] \in T \cup {NoNode}
  <2>1. CASE y = root
    BY <2>1
  <2>2. CASE y # root
    <3>1. PICK h \in Inner \cap T : \E i \in DOMAIN k[h] : y = k[h][i]
      BY <1>5, <1>6, <2>2, SubtreeHolder
    <3> QED BY <3>1 DEF RightParents
  <2> QED BY <2>1, <2>2
<1>8. f[0] = par[x] /\ \A i \in 1..l : f[i] = Above(par, f[i - 1])
  BY <1>3 DEF Climb
<1>9. PICK good : good = {i \in 0..l : f[i] \in T \cup {NoNode}}
  OBVIOUS
<1>10. 0 \in good
  BY <1>2, <1>6, <1>7, <1>8, <1>9
<1>11. ASSUME NEW i \in 0..(l - 1), i \in good PROVE i + 1 \in good
  <2>1. i + 1 \in 1..l /\ i + 1 \in 0..l /\ (i + 1) - 1 = i
    BY <1>2
  <2>2. f[i + 1] = Above(par, f[i]) /\ f[i] \in T \cup {NoNode}
    BY <1>8, <1>9, <1>11, <2>1
  <2> QED BY <1>7, <1>9, <2>1, <2>2 DEF Above
<1>12. \A i \in 0..l : i \in good
  BY <1>2, <1>10, <1>11, UpTo0
<1>13. old # NoNode
  BY PageTreeAssumption
<1> QED BY <1>3, <1>6, <1>9, <1>12, <1>13

-----------------------------------------------------------------------------
(* The pages that are cut out, and the list after it. *)

(* The pages below a node of the tree are those from its offset on. *)
LEMMA PagesBelow ==
  ASSUME NEW k, IsTree(k), root \in Roots, NEW old \in Subtree(k, root), NEW a, a = Offset(k, root, old),
         NEW w, w = TrueCount(k)[old], NEW p \in 1..TrueCount(k)[root]
  PROVE  OrderBelow(k)[root][p] \in Subtree(k, old) <=> a < p /\ p <= a + w
<1>1. PICK order, size : order = OrderBelow(k) /\ size = TrueCount(k)
  OBVIOUS
<1>2. InOrder(k, order, size)
  BY <1>1, OrderIs
<1>3. root \in Nodes /\ root \in Inner
  BY NodesApart DEF Inner
<1>4. old \in Nodes
  BY <1>3, OffsetNat
<1>5. w \in Nat /\ size[root] \in Nat /\ size \in [Nodes -> Nat]
  BY <1>1, <1>2, <1>3, <1>4 DEF InOrder
<1>6. a \in Nat /\ a + w <= size[root] /\ \A q \in 1..w : order[root][a + q] = order[old][q]
  BY <1>1, <1>3, OffsetPlaces
<1>7. ASSUME a < p, p <= a + w PROVE order[root][p] \in Subtree(k, old)
  <2>1. PICK q : q = p - a
    OBVIOUS
  <2>2. q \in 1..w /\ p = a + q
    BY <1>5, <1>6, <1>7, <2>1
  <2>3. order[root][p] = order[old][q]
    BY <1>6, <2>2
  <2>4. order[old][q] \in Subtree(k, old)
    BY <1>1, <1>2, <1>4, <2>2, OrderBelongs
  <2> QED BY <2>3, <2>4
<1>8. ASSUME order[root][p] \in Subtree(k, old) PROVE a < p /\ p <= a + w
  <2>1. PICK x \in Leaves : x = order[root][p]
    BY <1>1, <1>2, <1>3, OrderBelongs
  <2>2. x \in Subtree(k, old) /\ x \in Nodes
    BY <1>8, <2>1, NodesApart
  <2>3. PICK b : b = Offset(k, old, x)
    OBVIOUS
  <2>4. /\ b \in Nat /\ b + size[x] <= size[old]
        /\ \A q \in 1..size[x] : order[old][b + q] = order[x][q]
    BY <1>1, <1>4, <2>2, <2>3, OffsetPlaces
  <2>5. size[x] = 1 /\ order[x] = <<x>>
    BY <1>2, <2>1 DEF InOrder
  <2>6. b + 1 \in 1..w /\ order[old][b + 1] = x
    <3>1. b + 1 <= w
      BY <1>1, <2>4, <2>5
    <3>2. order[old][b + 1] = order[x][1]
      BY <2>4, <2>5
    <3> QED BY <1>5, <2>4, <2>5, <3>1, <3>2
  <2>7. a + (b + 1) \in 1..size[root] /\ order[root][a + (b + 1)] = x
    BY <1>5, <1>6, <2>4, <2>6
  <2>8. p = a + (b + 1)
    BY <1>1, <1>2, <1>3, <2>1, <2>7, OrderOnce
  <2> QED BY <1>5, <1>6, <2>4, <2>6, <2>8
<1> QED BY <1>1, <1>7, <1>8

(* Nobody has the element that was taken out. *)
LEMMA GoneFromTree ==
  ASSUME IsTree(kids), root \in Roots, NEW n \in Inner, NEW k, NEW i, NEW old \in Nodes, NEW new,
         ArrayEdit(k, n, i, old, new)
  PROVE  old \notin Subtree(k, root)
<1>1. SUFFICES ASSUME old \in Subtree(k, root) PROVE FALSE
  OBVIOUS
<1>2. old # NoNode
  BY PageTreeAssumption
<1>3. /\ IsTree(k) /\ ChangedAt(k, n) /\ i \in DOMAIN kids[n] /\ kids[n][i] = old
      /\ \A j \in DOMAIN k[n] : k[n][j] # old
  BY <1>2 DEF ArrayEdit
<1>4. PICK N, rank : Tree(k, N, rank)
  BY <1>3 DEF IsTree
<1>5. Typed(k) /\ Falling(k, rank)
  BY <1>4 DEF Tree
<1>6. Typed(kids) /\ HeldOnce(kids)
  BY DEF IsTree, Tree
<1>7. root \in Nodes
  BY NodesApart DEF Inner
<1>8. old # root
  <2>1. old \in Leaves \cup Inters
    BY <1>3, <1>6, KidsTyped
  <2> QED BY <2>1, PageTreeAssumption DEF Inner
<1>9. PICK h \in Inner \cap Subtree(k, root) : \E j \in DOMAIN k[h] : old = k[h][j]
  BY <1>1, <1>5, <1>7, <1>8, SubtreeHolder
<1>10. PICK j \in DOMAIN k[h] : old = k[h][j]
  BY <1>9
<1>11. h # n
  BY <1>3, <1>10
<1>12. k[h] = kids[h]
  BY <1>3, <1>9, <1>11 DEF ChangedAt
<1>13. kids[h][j] = kids[n][i] /\ j \in DOMAIN kids[h]
  BY <1>3, <1>10, <1>12
<1> QED BY <1>3, <1>6, <1>9, <1>11, <1>13 DEF HeldOnce

(* The other pages stay in the tree. *)
LEMMA StillThere ==
  ASSUME root \in Roots, NEW k, IsTree(k), NEW old, NEW new, NEW a, NEW w0, NEW w1,
         Exchanged(k, old, new, a, w0, w1), NEW p \in 1..TrueCount(kids)[root], ~ (a < p /\ p <= a + w0)
  PROVE  OrderBelow(kids)[root][p] \in Subtree(k, root)
<1>1. PICK s0, l0, s1, l1 : /\ s0 = OrderBelow(kids)[root] /\ l0 = TrueCount(kids)[root]
                            /\ s1 = OrderBelow(k)[root] /\ l1 = TrueCount(k)[root]
  OBVIOUS
<1>2. a \in Nat /\ w0 \in Nat /\ w1 \in Nat /\ Segment(s0, l0, s1, l1, a, a + w0, a + w1)
  BY <1>1 DEF Exchanged
<1>3. \E q \in 1..l1 : s0[p] = s1[q]
  <2>1. CASE p <= a
    <3>1. p \in 1..a /\ p \in 1..l1
      BY <1>1, <1>2, <2>1 DEF Segment
    <3> QED BY <1>2, <3>1 DEF Segment
  <2>2. CASE a + w0 < p
    <3>1. PICK j : j = p - (a + w0)
      OBVIOUS
    <3>2. l0 \in Nat /\ l1 \in Nat /\ p \in 1..l0 /\ l1 - (a + w1) = l0 - (a + w0)
      BY <1>1, <1>2 DEF Segment
    <3>3. j \in 1..(l0 - (a + w0)) /\ p = (a + w0) + j /\ (a + w1) + j \in 1..l1
      BY <1>2, <2>2, <3>1, <3>2
    <3>4. s1[(a + w1) + j] = s0[(a + w0) + j]
      BY <1>2, <3>3 DEF Segment
    <3> QED BY <3>3, <3>4
  <2>3. l0 \in Nat
    BY <1>2 DEF Segment
  <2> QED BY <1>1, <1>2, <2>1, <2>2, <2>3
<1>4. PICK q \in 1..l1 : s0[p] = s1[q]
  BY <1>3
<1>5. root \in Nodes
  BY NodesApart DEF Inner
<1>6. s1[q] \in Subtree(k, root)
  <2>1. PICK order, size : order = OrderBelow(k) /\ size = TrueCount(k)
    OBVIOUS
  <2>2. InOrder(k, order, size)
    BY <2>1, OrderIs
  <2> QED BY <1>1, <1>5, <2>1, <2>2, OrderBelongs
<1> QED BY <1>1, <1>4, <1>6

(* The entries with pages below the node that goes. *)
LEMMA ListedBelow ==
  ASSUME IsTree(kids), root \in Roots, NEW k, NEW old \in Nodes, NEW new, NEW a, NEW w0, NEW w1,
         Exchanged(k, old, new, a, w0, w1), NEW list,
         Placed(list, OrderBelow(kids)[root], TrueCount(kids)[root])
  PROVE  /\ \A p \in DOMAIN list : list[p] \in Subtree(kids, old) <=> p \notin Uncut(list, a, w0)
         /\ IsTree(k) => \A p \in Uncut(list, a, w0) : list[p] \in Subtree(k, root)
<1>1. old # NoNode
  BY PageTreeAssumption
<1>2. old \in Subtree(kids, root) /\ a = Offset(kids, root, old) /\ w0 = TrueCount(kids)[old]
      /\ a \in Nat /\ w0 \in Nat
  BY <1>1 DEF Exchanged
<1>3. TrueCount(kids)[root] \in Nat
  <2>1. root \in Nodes
    BY NodesApart DEF Inner
  <2> QED BY <2>1, TrueNumbers
<1>4. \A p \in DOMAIN list : /\ p \in 1..TrueCount(kids)[root] /\ list[p] = OrderBelow(kids)[root][p]
                             /\ p \in Nat
  BY <1>3 DEF Placed
<1>5. ASSUME NEW p \in DOMAIN list PROVE list[p] \in Subtree(kids, old) <=> p \notin Uncut(list, a, w0)
  <2>1. list[p] \in Subtree(kids, old) <=> a < p /\ p <= a + w0
    BY <1>2, <1>4, PagesBelow
  <2> QED BY <1>2, <1>4, <2>1 DEF Uncut
<1>6. ASSUME IsTree(k), NEW p \in Uncut(list, a, w0) PROVE list[p] \in Subtree(k, root)
  <2>1. p \in DOMAIN list /\ (p <= a \/ a + w0 < p)
    BY <1>6 DEF Uncut
  <2>2. ~ (a < p /\ p <= a + w0) /\ p \in 1..TrueCount(kids)[root]
    BY <1>2, <1>4, <2>1
  <2>3. OrderBelow(kids)[root][p] \in Subtree(k, root)
    BY <1>6, <2>2, StillThere
  <2> QED BY <1>4, <2>1, <2>3
<1> QED BY <1>5, <1>6

LEMMA CutOutIs ==
  ASSUME IsTree(kids), root \in Roots, NEW n \in Inner, NEW k, NEW i, NEW old \in Nodes, NEW new,
         ArrayEdit(k, n, i, old, new), NEW a, NEW w0, NEW w1, Exchanged(k, old, new, a, w0, w1),
         NEW par, par \in [Nodes -> Inner \cup {NoNode}], RightParents(k, par), par[root] = NoNode,
         NEW list, PagesListed(list), Placed(list, OrderBelow(kids)[root], TrueCount(kids)[root])
  PROVE  CutOut(par, list, old) = DOMAIN list \ Uncut(list, a, w0)
<1>1. old # NoNode
  BY PageTreeAssumption
<1>2. IsTree(k)
  BY DEF ArrayEdit
<1>3. PICK out : out = DOMAIN list \ Uncut(list, a, w0)
  OBVIOUS
<1>4. /\ \A p \in DOMAIN list : list[p] \in Subtree(kids, old) <=> p \in out
      /\ \A p \in DOMAIN list \ out : list[p] \in Subtree(k, root)
      /\ out \subseteq DOMAIN list
  <2>1. /\ \A p \in DOMAIN list : list[p] \in Subtree(kids, old) <=> p \notin Uncut(list, a, w0)
        /\ \A p \in Uncut(list, a, w0) : list[p] \in Subtree(k, root)
    BY <1>2, ListedBelow
  <2>2. DOMAIN list \ out = Uncut(list, a, w0)
    BY <1>3 DEF Uncut
  <2> QED BY <1>3, <2>1, <2>2
<1>5. \A p \in DOMAIN list : p \in Nat /\ list[p] \in Leaves /\ list[p] \in Nodes
  BY NodesApart DEF PagesListed
<1>6. a \in Nat /\ w0 \in Nat /\ w0 = TrueCount(kids)[old] /\ SameBelow(k, old)
  BY <1>1 DEF Exchanged
<1>7. \A p \in out : a < p /\ p <= a + w0
  BY <1>3, <1>5, <1>6 DEF Uncut
<1>8. CASE old \in Leaves
  <2>1. Subtree(kids, old) = {old} /\ w0 = 1
    <3>1. Typed(kids)
      BY DEF IsTree, Tree
    <3>2. Subtree(kids, old) = {old}
      BY <1>8, <3>1, SubtreeOf
    <3>3. TrueCount(kids)[old] = 1
      BY <1>8, TrueNumbers
    <3> QED BY <1>6, <3>2, <3>3
  <2>2. PICK at : at = {p \in DOMAIN list : list[p] = old}
    OBVIOUS
  <2>3. at = out
    BY <1>4, <2>1, <2>2
  <2>4. \A p \in out : p = a + 1
    BY <1>5, <1>6, <1>7, <1>4, <2>1
  <2>5. at # {} => Min(at) \in at
    <3>1. at \subseteq Nat
      BY <1>5, <2>2
    <3> QED BY <3>1, MinFacts
  <2>6. (IF at = {} THEN {} ELSE {Min(at)}) = out
    BY <2>3, <2>4, <2>5
  <2> QED BY <1>3, <1>8, <2>2, <2>6 DEF CutOut
<1>9. CASE old \notin Leaves
  <2>1. old \in Inner
    BY <1>9, NodesApart
  <2>2. PICK below : below = {p \in DOMAIN list : IsDescendant(par, list[p], old)}
    OBVIOUS
  <2>3. ASSUME NEW p \in DOMAIN list, p \in out PROVE p \in below
    <3>1. PICK x \in Nodes : x = list[p] /\ x # old /\ x \in Subtree(k, old)
      <4>1. list[p] \in Subtree(k, old)
        BY <1>4, <1>6, <2>3 DEF SameBelow
      <4> QED BY <1>5, <1>9, <4>1
    <3>2. IsDescendant(par, x, old)
      BY <1>2, <2>1, <3>1, DescendantBelow
    <3> QED BY <2>2, <3>1, <3>2
  <2>4. ASSUME NEW p \in DOMAIN list, p \notin out PROVE p \notin below
    <3>1. PICK x \in Nodes : x = list[p] /\ x \in Subtree(k, root)
      BY <1>4, <1>5, <2>4
    <3>2. old \notin Subtree(k, root)
      BY GoneFromTree
    <3>3. ~ IsDescendant(par, x, old)
      BY <1>2, <3>1, <3>2, NoDescendants
    <3> QED BY <2>2, <3>1, <3>3
  <2>5. below = out
    BY <1>4, <2>2, <2>3, <2>4
  <2>6. \A p \in below : \A q \in (DOMAIN list) \ below : ~(Min(below) < q /\ q < p)
    <3>1. SUFFICES ASSUME NEW p \in below, NEW q \in (DOMAIN list) \ below
                   PROVE  ~(Min(below) < q /\ q < p)
      OBVIOUS
    <3>2. below \subseteq Nat /\ below # {}
      BY <1>5, <2>2, <3>1
    <3>3. PICK m : m = Min(below) /\ m \in below
      BY <3>2, MinFacts
    <3>4. a < m /\ m \in Nat /\ p <= a + w0 /\ p \in Nat
      BY <1>5, <1>7, <1>4, <2>5, <3>1, <3>3
    <3>5. q \in Nat /\ (q <= a \/ a + w0 < q)
      <4>1. q \in Uncut(list, a, w0)
        BY <1>3, <2>5, <3>1
      <4> QED BY <1>5, <3>1, <4>1 DEF Uncut
    <3>6. ~ (m < q /\ q < p)
      BY <1>6, <3>4, <3>5
    <3> QED BY <3>3, <3>6
  <2>7. {p \in below : \A q \in (DOMAIN list) \ below : ~(Min(below) < q /\ q < p)} = below
    BY <2>6
  <2>8. CutOut(par, list, old) = {p \in below : \A q \in (DOMAIN list) \ below : ~(Min(below) < q /\ q < p)}
    BY <1>9, <2>2 DEF CutOut
  <2> QED BY <1>3, <2>5, <2>7, <2>8
<1> QED BY <1>8, <1>9

(* From the order s0 to s1, old has gone and new has come behind the a-th  *)
(* page, in a tree that has its final shape.                               *)
Goes(k, u, par, old, a, w0) ==
    /\ old \in Nodes \cup {NoNode}
    /\ (IF old = NoNode THEN {} ELSE CutOut(par, u.list, old)) = DOMAIN u.list \ Uncut(u.list, a, w0)
    /\ old = NoNode => w0 = 0
    /\ old # NoNode => w0 = TrueCount(k)[old]

Comes(k, u, new, a, w0, w1, s1, l1) ==
    /\ new \in Nodes \cup {NoNode}
    /\ new = NoNode => /\ w1 = 0 /\ s1 = OrderBelow(k)[root] /\ l1 = TrueCount(k)[root]
                       /\ \A p \in Uncut(u.list, a, w0) : u.list[p] \in Subtree(k, root)
    /\ new # NoNode => new \in Subtree(k, root) /\ a = Offset(k, root, new) /\ w1 = TrueCount(k)[new]

(* Where what moves begins. *)
MovesFrom(k, list, a, w0, minPos, s1, l1) ==
    /\ minPos # 0 => a < minPos /\ (minPos = a + 1 \/ minPos <= a + w0)
    /\ minPos = 0 => /\ s1 = OrderBelow(k)[root] /\ l1 = TrueCount(k)[root]
                      /\ \A p \in Uncut(list, a, w0) : list[p] \in Subtree(k, root)

(* Each of the ways to move pages puts them in place. *)
LEMMA MovedInPlace ==
  ASSUME NEW k, IsTree(k), root \in Roots, NEW v, Mending(k, v),
         NEW s0, NEW l0, NEW s1, NEW l1, NEW a \in Nat, NEW w0 \in Nat, NEW w1 \in Nat,
         Segment(s0, l0, s1, l1, a, a + w0, a + w1), l1 < SizeT,
         NEW list, Placed(list, s0, l0), v.list = Restrict(list, Uncut(list, a, w0)),
         NEW dist, dist = w1 - w0,
         NEW minPos \in Nat, MovesFrom(k, list, a, w0, minPos, s1, l1)
  PROVE  /\ Placed(Moved(k, v, minPos, dist).list, s1, l1)
         /\ Range(Moved(k, v, minPos, dist).list) = Range(v.list)
<1>1. PICK rest, far, d : /\ rest = v.list /\ far = Far(rest, a + w0) /\ d = dist
  OBVIOUS
<1>2. /\ Placed(Move(rest, ShiftedFrom(far, d)), s1, l1)
      /\ Range(Move(rest, ShiftedFrom(far, d))) = Range(rest)
  <2>1. ShiftCase(s0, l0, s1, l1, a, w0, w1, list, rest, far, d)
    BY <1>1 DEF ShiftCase
  <2> QED BY <2>1, ShiftInPlace
<1>3. /\ DOMAIN rest = Uncut(list, a, w0) /\ \A p \in DOMAIN rest : rest[p] = list[p] /\ p \in DOMAIN list
  <2>1. Uncut(list, a, w0) \subseteq DOMAIN list
    BY DEF Uncut
  <2> QED BY <1>1, <2>1 DEF Restrict
<1>4. l0 \in Nat /\ l1 \in Nat
  BY DEF Segment
<1>5. \A p \in DOMAIN rest : p \in 1..l0 /\ p \in Nat /\ list[p] = s0[p] /\ (p <= a \/ a + w0 < p)
  BY <1>3, <1>4 DEF Placed, Uncut
<1>6. CASE d = 0
  <2>1. Moved(k, v, minPos, d) = v
    BY <1>6 DEF Moved
  <2>2. ASSUME NEW p \in DOMAIN rest PROVE p \in 1..l1 /\ rest[p] = s1[p]
    <3>1. w0 = w1 /\ l0 = l1
      BY <1>1, <1>4, <1>6 DEF Segment
    <3>2. CASE p <= a
      BY <1>3, <1>5, <3>1, <3>2 DEF Segment
    <3>3. CASE a + w0 < p
      <4>1. PICK i : i = p - (a + w0)
        OBVIOUS
      <4>2. i \in 1..(l0 - (a + w0)) /\ p = (a + w0) + i
        BY <1>4, <1>5, <3>3, <4>1
      <4>3. s1[(a + w1) + i] = s0[(a + w0) + i]
        BY <4>2 DEF Segment
      <4> QED BY <1>3, <1>5, <3>1, <4>2, <4>3
    <3> QED BY <1>5, <3>2, <3>3
  <2>3. Placed(rest, s1, l1)
    BY <2>2 DEF Placed
  <2> QED BY <1>1, <2>1, <2>3
<1>7. CASE d # 0 /\ minPos = 0
  <2>1. Moved(k, v, minPos, d) = Reassign(k, v)
    BY <1>7 DEF Moved
  <2>2. \A p \in DOMAIN v.list : v.list[p] \in Subtree(k, root)
    BY <1>1, <1>3, <1>7 DEF MovesFrom
  <2>3. s1 = OrderBelow(k)[root] /\ l1 = TrueCount(k)[root]
    BY <1>7 DEF MovesFrom
  <2>4. Placed(Reassign(k, v).list, s1, l1) /\ Range(Reassign(k, v).list) = Range(v.list)
    BY <2>2, <2>3, ReassignInPlace
  <2> QED BY <1>1, <2>1, <2>4
<1>8. CASE d # 0 /\ minPos # 0
  <2>1. {q \in DOMAIN rest : q >= minPos} = far
    <3>1. ASSUME NEW q \in DOMAIN rest PROVE q >= minPos <=> q > a + w0
      BY <1>5, <1>8 DEF MovesFrom
    <3> QED BY <1>1, <3>1 DEF Far
  <2>2. v = Lists(v.list, v.cache)
    BY DEF Mending
  <2>3. Moved(k, v, minPos, d).list =
          Move(rest, [p \in {q \in DOMAIN rest : q >= minPos} |-> Shifted(p, d)])
    BY <1>1, <1>8, <2>2 DEF Moved, Lists
  <2>4. Moved(k, v, minPos, d).list = Move(rest, ShiftedFrom(far, d))
    BY <2>1, <2>3 DEF ShiftedFrom
  <2> QED BY <1>1, <1>2, <2>4
<1> QED BY <1>6, <1>7, <1>8

LEMMA ListCorrected ==
  ASSUME NEW k, IsTree(k), root \in Roots, NEW u, Mending(k, u),
         NEW s0, NEW l0, NEW s1, NEW l1, NEW a \in Nat, NEW w0 \in Nat, NEW w1 \in Nat,
         Segment(s0, l0, s1, l1, a, a + w0, a + w1), l1 < SizeT, Placed(u.list, s0, l0),
         NEW par, NEW old, NEW new, Goes(k, u, par, old, a, w0), Comes(k, u, new, a, w0, w1, s1, l1)
  PROVE  /\ Placed(ConsolidatePageList(k, par, u, old, new).list, s1, l1)
         /\ Range(ConsolidatePageList(k, par, u, old, new).list) =
              Range(Restrict(u.list, Uncut(u.list, a, w0)))
<1>1. PICK list, cache : u = Lists(list, cache) /\ PagesListed(list) /\ TrueCache(k, cache)
  BY DEF Mending
<1>2. u.list = list /\ u.cache = cache
  BY <1>1 DEF Lists
<1>3. KidsCount(k, cache) = TrueCount(k) /\ TrueCount(k) \in [Nodes -> Nat]
  BY <1>1, TrueCacheNat
<1>4. PICK cut : cut = IF old = NoNode THEN {} ELSE CutOut(par, list, old)
  OBVIOUS
<1>5. PICK rest : rest = Lists(Restrict(list, DOMAIN list \ cut), Counted(k, cache, {old, new} \cap Inner))
  OBVIOUS
<1>6. cut = DOMAIN list \ Uncut(list, a, w0) /\ DOMAIN list \ cut = Uncut(list, a, w0)
  <2>1. cut = DOMAIN list \ Uncut(list, a, w0)
    BY <1>2, <1>4 DEF Goes
  <2>2. Uncut(list, a, w0) \subseteq DOMAIN list
    BY DEF Uncut
  <2> QED BY <2>1, <2>2
<1>7. Mending(k, rest) /\ rest.list = Restrict(list, Uncut(list, a, w0))
  <2>1. {old, new} \cap Inner \subseteq Nodes
    BY NodesApart
  <2>2. PICK asked : asked = {old, new} \cap Inner
    OBVIOUS
  <2>3. TrueCache(k, Counted(k, cache, asked))
    BY <1>1, <2>1, <2>2, CountedTrue
  <2>4. PagesListed(Restrict(list, DOMAIN list \ cut))
    BY <1>1, RestrictListed
  <2>5. Mending(k, rest)
    BY <1>5, <2>2, <2>3, <2>4, MendingIs
  <2>6. rest.list = Restrict(list, DOMAIN list \ cut)
    BY <1>5 DEF Lists
  <2> QED BY <1>6, <2>5, <2>6
<1>8. TrueCache(k, rest.cache)
  BY <1>7 DEF Mending
<1>9. PICK place : place = IF new = NoNode THEN [pos |-> 0, asked |-> {}]
                           ELSE NodePosition(k, rest.cache, new)
  OBVIOUS
<1>10. place.asked \subseteq Nodes
  <2>1. CASE new = NoNode
    BY <1>9, <2>1
  <2>2. CASE new # NoNode
    <3>1. KidsCount(k, rest.cache) \in [Nodes -> Nat]
      BY <1>8, TrueCacheNat
    <3> QED BY <1>9, <2>2, <3>1, PositionIs
  <2> QED BY <2>1, <2>2
<1>11. PICK minPos : minPos = IF place.pos # 0 THEN place.pos ELSE IF cut = {} THEN 0 ELSE Max(cut)
  OBVIOUS
<1>12. (IF new = NoNode THEN 0 ELSE TrueCount(k)[new]) = w1 /\ (IF old = NoNode THEN 0 ELSE TrueCount(k)[old]) = w0
  BY DEF Goes, Comes
<1>13. PICK v : v = AskFor(k, rest, place.asked)
  OBVIOUS
<1>0. PICK dist : dist = w1 - w0
  OBVIOUS
<1>14. ConsolidatePageList(k, par, u, old, new) = Moved(k, v, minPos, dist)
  BY <1>0, <1>2, <1>3, <1>4, <1>5, <1>9, <1>11, <1>12, <1>13 DEF ConsolidatePageList
<1>15. Mending(k, v) /\ v.list = rest.list
  <2>1. Mending(k, v)
    BY <1>7, <1>10, <1>13, AskForMends
  <2>2. rest = Lists(rest.list, rest.cache)
    BY <1>7 DEF Mending
  <2>3. v.list = rest.list
    BY <1>13, <2>2 DEF AskFor, Lists
  <2> QED BY <2>1, <2>3
<1>16. /\ minPos \in Nat /\ (minPos # 0 => a < minPos /\ (minPos = a + 1 \/ minPos <= a + w0))
       /\ minPos = 0 => new = NoNode
  <2>1. CASE new # NoNode
    <3>1. new \in Subtree(k, root) /\ a = Offset(k, root, new)
      BY <2>1 DEF Comes
    <3>2. KidsCount(k, rest.cache) = TrueCount(k)
      BY <1>8, TrueCacheCounts
    <3>3. place.pos = a + 1
      BY <1>9, <2>1, <3>1, <3>2, PositionOffset
    <3> QED BY <1>11, <2>1, <3>3
  <2>2. CASE new = NoNode
    <3>1. place.pos = 0
      BY <1>9, <2>2
    <3>2. minPos = IF cut = {} THEN 0 ELSE Max(cut)
      BY <1>11, <3>1
    <3>3. CASE cut = {}
      BY <2>2, <3>2, <3>3
    <3>4. CASE cut # {}
      <4>1. l0 \in Nat
        BY DEF Segment
      <4>2. cut \subseteq 1..l0
        BY <1>2, <1>6 DEF Placed
      <4>3. PICK m : m = Max(cut)
        OBVIOUS
      <4>4. m \in cut
        BY <3>4, <4>1, <4>2, <4>3, LastIndex
      <4>5. m \in Nat /\ a < m /\ m <= a + w0
        BY <1>6, <4>1, <4>2, <4>4 DEF Uncut
      <4> QED BY <2>2, <3>2, <3>4, <4>3, <4>5
    <3> QED BY <3>3, <3>4
  <2> QED BY <2>1, <2>2
<1>17. minPos = 0 => /\ s1 = OrderBelow(k)[root] /\ l1 = TrueCount(k)[root]
                     /\ \A p \in Uncut(list, a, w0) : list[p] \in Subtree(k, root)
  BY <1>2, <1>16 DEF Comes
<1>18. Placed(list, s0, l0) /\ v.list = Restrict(list, Uncut(list, a, w0))
  BY <1>2, <1>7, <1>15
<1>19. /\ Placed(Moved(k, v, minPos, dist).list, s1, l1)
       /\ Range(Moved(k, v, minPos, dist).list) = Range(v.list)
  <2>1. /\ IsTree(k) /\ root \in Roots /\ Mending(k, v)
        /\ a \in Nat /\ w0 \in Nat /\ w1 \in Nat
        /\ Segment(s0, l0, s1, l1, a, a + w0, a + w1) /\ l1 < SizeT
        /\ Placed(list, s0, l0) /\ v.list = Restrict(list, Uncut(list, a, w0))
        /\ dist = w1 - w0 /\ minPos \in Nat
        /\ MovesFrom(k, list, a, w0, minPos, s1, l1)
    BY <1>0, <1>15, <1>16, <1>17, <1>18 DEF MovesFrom
  <2> QED BY <2>1, MovedInPlace
<1> QED BY <1>2, <1>14, <1>18, <1>19

(* Fewer pages than there are positions. *)
FewPages == Cardinality(Leaves) < SizeT

LEMMA PagesBounded ==
  ASSUME FewPages, NEW k, IsTree(k), NEW m \in Nodes
  PROVE  TrueCount(k)[m] \in Nat /\ TrueCount(k)[m] < SizeT
<1>1. PICK order, size : order = OrderBelow(k) /\ size = TrueCount(k)
  OBVIOUS
<1>2. InOrder(k, order, size)
  BY <1>1, OrderIs
<1>3. size[m] \in Nat
  BY <1>2 DEF InOrder
<1>4. PICK l \in Nat : l = size[m]
  BY <1>3
<1>5. IsFiniteSet(Leaves)
  <2>1. Leaves \subseteq Nodes
    BY DEF Nodes
  <2> QED BY <2>1, PageTreeAssumption, FS_Subset
<1>6. PICK f : f = [p \in 1..l |-> order[m][p]]
  OBVIOUS
<1>7. f \in Injection(1..l, Leaves)
  <2>1. \A p \in 1..l : f[p] \in Leaves
    BY <1>1, <1>2, <1>4, <1>6, OrderBelongs
  <2>2. \A p \in 1..l, q \in 1..l : f[p] = f[q] => p = q
    BY <1>1, <1>2, <1>4, <1>6, OrderOnce
  <2>3. f \in [1..l -> Leaves] /\ DOMAIN f = 1..l
    BY <1>6, <2>1
  <2>4. IsInjective(f)
    BY <2>2, <2>3 DEF IsInjective
  <2> QED BY <2>3, <2>4 DEF Injection
<1>8. Cardinality(1..l) <= Cardinality(Leaves)
  BY <1>5, <1>7, FS_Injection
<1>9. Cardinality(1..l) = l
  BY <1>4, FS_Interval
<1>10. PICK c, z : c = Cardinality(Leaves) /\ z = SizeT
  OBVIOUS
<1>11. c \in Nat /\ z \in Nat /\ c < z
  BY <1>5, <1>10, FS_CardinalityType DEF FewPages, SizeT
<1> QED BY <1>1, <1>4, <1>8, <1>9, <1>10, <1>11

LEMMA RootsStayOnTop ==
  ASSUME RightNodes(root, kids, parent, count), RootsOnTop(parent), NEW k, IsTree(k),
         NEW n \in Inner, IsSeen(n)
  PROVE  RootsOnTop(ConsolidatePageTree(k, n).parent)
<1>0. PICK size : size = TrueCount(k)
  OBVIOUS
<1>1. PICK v, t : v = Visited(k, n) /\ t = ConsolidatePageTree(k, n)
  OBVIOUS
<1>5. PICK w : w = {x \in v : size[x] # count[x]}
  OBVIOUS
<1>2. /\ t.count = [m \in Inner |-> IF m \in w THEN size[m] ELSE count[m]]
      /\ t.parent = [m \in Nodes |-> IF {p \in v : m \in ToSet(k[p])} = {} THEN parent[m]
                                     ELSE CHOOSE p \in {q \in v : m \in ToSet(k[q])} : TRUE]
      /\ t.discarded = w
      /\ t.kept = (w # v)
  BY <1>0, <1>1, <1>5, ConsolidateIs
<1>3. v \subseteq Inner
  <2>1. root \in Roots /\ n \in TreeNodes(root, kids)
    BY DEF RightNodes, IsSeen, TreeNodes
  <2>2. PICK N, rank : Tree(kids, N, rank)
    BY DEF RightNodes, IsTree
  <2>3. Typed(kids) /\ Falling(kids, rank)
    BY <2>2 DEF Tree
  <2>4. WayUp(kids, v, size, n)
    BY <1>0, <1>1, <2>1, <2>3, VisitedWayUp DEF RightNodes
  <2> QED BY <2>4 DEF WayUp
<1>4. ASSUME NEW r \in Roots PROVE t.parent[r] = NoNode
  <2>1. r \in Nodes
    BY NodesApart DEF Inner
  <2>2. ASSUME NEW p \in v PROVE r \notin ToSet(k[p])
    <3>1. k[p] \in Seq(Leaves \cup Inters)
      BY <1>3, <2>2, KidsTyped DEF IsTree, Tree
    <3>2. \A x \in ToSet(k[p]) : x \in Leaves \cup Inters
      BY <3>1 DEF ToSet
    <3> QED BY <3>2, PageTreeAssumption DEF Inner
  <2>3. {p \in v : r \in ToSet(k[p])} = {}
    BY <2>2
  <2>4. t.parent[r] = parent[r]
    BY <1>2, <2>1, <2>3
  <2> QED BY <2>4 DEF RootsOnTop
<1> QED BY <1>1, <1>4 DEF RootsOnTop

(* A list is in place in the tree. *)
InPlace(k, list) == Placed(list, OrderBelow(k)[root], TrueCount(k)[root])

(* What list1 has are the pages of the list that are not cut out. *)
Left(list, a, w) == Range(Restrict(list, Uncut(list, a, w)))

(* One element of an array has become another. *)
LEMMA KidsNotifyPlaces ==
  ASSUME RightNodes(root, kids, parent, count), RootsOnTop(parent), FewPages, PagesListed(pageList),
         InPlace(kids, pageList), NEW n \in Inner, IsSeen(n), NEW k, NEW i,
         NEW old \in Nodes \cup {NoNode}, NEW new \in Nodes \cup {NoNode}, ArrayEdit(k, n, i, old, new),
         NEW c, TrueCache(kids, c), NEW a, NEW w0, NEW w1, Exchanged(k, old, new, a, w0, w1)
  PROVE  /\ InPlace(k, KidsNotify(k, n, old, new, c).list)
         /\ Range(KidsNotify(k, n, old, new, c).list) = Left(pageList, a, w0)
         /\ RootsOnTop(KidsNotify(k, n, old, new, c).parent)
<1>1. IsTree(kids) /\ IsTree(k) /\ ChangedAt(k, n)
  BY DEF RightNodes, ArrayEdit
<1>2. root \in Roots /\ root \in Nodes
  BY NodesApart DEF RightNodes, IsSeen, TreeNodes, Inner
<1>3. PICK t : t = ConsolidatePageTree(k, n)
  OBVIOUS
<1>4. PICK s : s = Discard(Lists(pageList, LookedFor(k, c, old)), t.discarded)
  OBVIOUS
<1>5. PICK gone : gone = IF old = NoNode THEN {} ELSE Subtree(k, old)
  OBVIOUS
<1>6. PICK u : u = ConsolidatePageList(k, t.parent, s, old, new)
  OBVIOUS
<1>7. KidsNotify(k, n, old, new, c) = Corrected(t, Discard(u, gone))
  BY <1>3, <1>4, <1>5, <1>6 DEF KidsNotify
<1>8. Mending(k, s)
  BY <1>1, <1>3, <1>4, StaleDiscarded
<1>9. s.list = pageList
  BY <1>4 DEF Discard, Lists
<1>10. Mending(k, u)
  BY <1>1, <1>2, <1>6, <1>8, ListMends
<1>11. Discard(u, gone).list = u.list
  <2>1. u = Lists(u.list, u.cache)
    BY <1>10 DEF Mending
  <2> QED BY <2>1 DEF Discard, Lists
<1>12. KidsNotify(k, n, old, new, c).list = u.list /\ KidsNotify(k, n, old, new, c).parent = t.parent
  BY <1>7, <1>11 DEF Corrected
<1>13. RootsOnTop(t.parent)
  BY <1>1, <1>3, RootsStayOnTop
<1>14. t.parent \in [Nodes -> Inner \cup {NoNode}] /\ RightParents(k, t.parent)
  <2>1. RightNodes(root, k, t.parent, t.count)
    BY <1>1, <1>3, Consolidated
  <2> QED BY <2>1 DEF RightNodes
<1>15. PICK s0, l0, s1, l1 : /\ s0 = OrderBelow(kids)[root] /\ l0 = TrueCount(kids)[root]
                             /\ s1 = OrderBelow(k)[root] /\ l1 = TrueCount(k)[root]
  OBVIOUS
<1>16. /\ a \in Nat /\ w0 \in Nat /\ w1 \in Nat /\ Segment(s0, l0, s1, l1, a, a + w0, a + w1)
       /\ Placed(s.list, s0, l0)
  BY <1>9, <1>15 DEF Exchanged, InPlace
<1>17. l1 < SizeT
  BY <1>1, <1>2, <1>15, PagesBounded
<1>18. ASSUME NEW p \in Uncut(pageList, a, w0) PROVE pageList[p] \in Subtree(k, root)
  <2>1. p \in DOMAIN pageList /\ (p <= a \/ a + w0 < p)
    BY <1>18 DEF Uncut
  <2>2. p \in 1..l0 /\ pageList[p] = s0[p] /\ l0 \in Nat
    BY <1>9, <1>16, <2>1 DEF Placed, Segment
  <2>3. ~ (a < p /\ p <= a + w0) /\ p \in 1..TrueCount(kids)[root]
    BY <1>15, <1>16, <2>1, <2>2
  <2>4. OrderBelow(kids)[root][p] \in Subtree(k, root)
    BY <1>1, <1>2, <2>3, StillThere
  <2> QED BY <1>15, <2>2, <2>4
<1>19. Goes(k, s, t.parent, old, a, w0)
  <2>1. CASE old = NoNode
    <3>1. w0 = 0
      BY <2>1 DEF Exchanged
    <3>2. Uncut(pageList, a, w0) = DOMAIN pageList
      <4>1. \A p \in DOMAIN pageList : p \in Nat
        BY DEF PagesListed
      <4>2. \A p \in DOMAIN pageList : p <= a \/ a + 0 < p
        BY <1>16, <4>1
      <4> QED BY <3>1, <4>2 DEF Uncut
    <3> QED BY <1>9, <2>1, <3>1, <3>2 DEF Goes
  <2>2. CASE old # NoNode
    <3>1. old \in Nodes /\ t.parent[root] = NoNode /\ Placed(pageList, s0, l0)
      BY <1>2, <1>9, <1>13, <1>16, <2>2 DEF RootsOnTop
    <3>2. CutOut(t.parent, pageList, old) = DOMAIN pageList \ Uncut(pageList, a, w0)
      BY <1>1, <1>2, <1>14, <1>15, <3>1, CutOutIs
    <3>3. w0 = TrueCount(k)[old]
      BY <2>2 DEF Exchanged, SameBelow
    <3> QED BY <1>9, <2>2, <3>1, <3>2, <3>3 DEF Goes
  <2> QED BY <2>1, <2>2
<1>20. Comes(k, s, new, a, w0, w1, s1, l1)
  BY <1>9, <1>15, <1>18 DEF Comes, Exchanged
<1>21. /\ Placed(u.list, s1, l1)
       /\ Range(u.list) = Range(Restrict(s.list, Uncut(s.list, a, w0)))
  BY <1>1, <1>2, <1>6, <1>8, <1>16, <1>17, <1>19, <1>20, ListCorrected
<1> QED BY <1>9, <1>12, <1>13, <1>15, <1>21 DEF InPlace, Left

-----------------------------------------------------------------------------
(* An array for a node that had none. *)

(* The elements of an array come one by one. *)
StepByStep(g, k, par, base, s, l) ==
    /\ g[0] = base
    /\ \A j \in 1..l : g[j] = ConsolidatePageList(k, par, g[j - 1], NoNode, s[j])

AllIn(k, par, base, s) == AllSteps(k, par, base, s, TRUE)
AllOut(k, par, base, s) == AllSteps(k, par, base, s, FALSE)

LEMMA StepsInOrder ==
  ASSUME NEW k, NEW par, NEW base, NEW l \in Nat, NEW s, DOMAIN s = 1..l
  PROVE  /\ \E g : StepByStep(g, k, par, base, s, l) /\ AllIn(k, par, base, s) = g[l]
         /\ l = 0 => AllOut(k, par, base, s) = base
<1>1. ASSUME NEW comes PROVE Folds(CHOOSE h : Folds(h, k, par, base, s, comes), k, par, base, s, comes)
  BY FoldsExist
<1>2. PICK f : f = CHOOSE h : Folds(h, k, par, base, s, TRUE)
  OBVIOUS
<1>3. Folds(f, k, par, base, s, TRUE)
  BY <1>1, <1>2
<1>4. /\ f[{}] = base
      /\ \A T \in SUBSET (1..l) : T # {} =>
            f[T] = OneStep(k, par, f[T \ {Max(T)}], s[Max(T)], TRUE)
  BY <1>3 DEF Folds
<1>5. PICK g : g = [j \in 0..l |-> f[1..j]]
  OBVIOUS
<1>6. g[0] = base /\ g[l] = f[1..l]
  <2>1. 1..0 = {} /\ 0 \in 0..l /\ l \in 0..l
    OBVIOUS
  <2> QED BY <1>4, <1>5, <2>1
<1>7. ASSUME NEW j \in 1..l PROVE g[j] = ConsolidatePageList(k, par, g[j - 1], NoNode, s[j])
  <2>1. 1..j \in SUBSET (1..l) /\ j \in 1..j /\ 1..j # {} /\ j \in 0..l /\ j - 1 \in 0..l
    OBVIOUS
  <2>2. Max(1..j) = j
    <3>1. PICK m : m = Max(1..j)
      OBVIOUS
    <3>2. m \in 1..j /\ j <= m
      BY <2>1, <3>1, LastIndex
    <3> QED BY <3>1, <3>2
  <2>3. (1..j) \ {j} = 1..(j - 1)
    OBVIOUS
  <2>4. f[1..j] = OneStep(k, par, f[1..(j - 1)], s[j], TRUE)
    BY <1>4, <2>1, <2>2, <2>3
  <2>5. g[j] = OneStep(k, par, g[j - 1], s[j], TRUE)
    BY <1>5, <2>1, <2>4
  <2> QED BY <2>5 DEF OneStep
<1>8. AllSteps(k, par, base, s, TRUE) = g[l]
  BY <1>2, <1>6 DEF AllSteps
<1>9. ASSUME l = 0 PROVE AllSteps(k, par, base, s, FALSE) = base
  <2>1. PICK e : e = CHOOSE h : Folds(h, k, par, base, s, FALSE)
    OBVIOUS
  <2>2. Folds(e, k, par, base, s, FALSE)
    BY <2>1, FoldsExist
  <2>3. e[{}] = base /\ DOMAIN s = {}
    BY <1>9, <2>2 DEF Folds
  <2> QED BY <2>1, <2>3 DEF AllSteps
<1>10. StepByStep(g, k, par, base, s, l)
  BY <1>6, <1>7 DEF StepByStep
<1>11. AllIn(k, par, base, s) = g[l] /\ (l = 0 => AllOut(k, par, base, s) = base)
  BY <1>8, <1>9 DEF AllIn, AllOut
<1> QED BY <1>10, <1>11

(* The pages of s0 when b of those of s1 have come in behind the a-th. *)
Brought(s0, l0, s1, a, b) ==
    [p \in 1..(l0 + b) |-> IF p <= a THEN s0[p] ELSE IF p <= a + b THEN s1[p] ELSE s0[p - b]]

LEMMA BroughtOn ==
  ASSUME NEW s0, NEW l0 \in Nat, NEW s1, NEW a \in Nat, a <= l0, NEW b \in Nat, NEW z \in Nat
  PROVE  Segment(Brought(s0, l0, s1, a, b), l0 + b, Brought(s0, l0, s1, a, b + z), l0 + (b + z),
                 a + b, (a + b) + 0, (a + b) + z)
<1>1. PICK t0, t1 : t0 = Brought(s0, l0, s1, a, b) /\ t1 = Brought(s0, l0, s1, a, b + z)
  OBVIOUS
<1>2. \A p \in 1..(a + b) : t1[p] = t0[p]
  <2>1. \A p \in 1..(a + b) : p \in 1..(l0 + b) /\ p \in 1..(l0 + (b + z)) /\ p <= a + b /\ p <= a + (b + z)
    OBVIOUS
  <2> QED BY <1>1, <2>1 DEF Brought
<1>3. ASSUME NEW i \in 1..((l0 + b) - ((a + b) + 0)) PROVE t1[((a + b) + z) + i] = t0[((a + b) + 0) + i]
  <2>1. PICK p, q : p = ((a + b) + 0) + i /\ q = ((a + b) + z) + i
    OBVIOUS
  <2>2. /\ p \in 1..(l0 + b) /\ ~(p <= a) /\ ~(p <= a + b) /\ p - b = a + i
        /\ q \in 1..(l0 + (b + z)) /\ ~(q <= a) /\ ~(q <= a + (b + z)) /\ q - (b + z) = a + i
    BY <2>1
  <2>3. t0[p] = s0[a + i]
    BY <1>1, <2>2 DEF Brought
  <2>4. t1[q] = s0[a + i]
    BY <1>1, <2>2 DEF Brought
  <2> QED BY <2>1, <2>3, <2>4
<1>4. /\ l0 + b \in Nat /\ l0 + (b + z) \in Nat /\ a + b \in Nat /\ (a + b) + 0 \in Nat /\ (a + b) + z \in Nat
      /\ a + b <= (a + b) + 0 /\ (a + b) + 0 <= l0 + b /\ a + b <= (a + b) + z /\ (a + b) + z <= l0 + (b + z)
      /\ (l0 + (b + z)) - ((a + b) + z) = (l0 + b) - ((a + b) + 0)
  OBVIOUS
<1> QED BY <1>1, <1>2, <1>3, <1>4 DEF Segment

(* The pages of an array that was empty come in behind those in front of   *)
(* its node.                                                               *)
LEMMA NewArrayAt ==
  ASSUME IsTree(kids), root \in Roots, NEW n \in Inner, IsSeen(n), NEW k, IsTree(k), ChangedAt(k, n),
         kids[n] = <<>>, NEW a, a = Offset(kids, root, n),
         NEW b, NEW z, NEW l, KidSums(k, TrueCount(k), n, b, z, l)
  PROVE  /\ a \in Nat
         /\ Segment(OrderBelow(kids)[root], TrueCount(kids)[root], OrderBelow(k)[root], TrueCount(k)[root],
                    a, a + 0, a + b[l + 1])
         /\ \A j \in 1..l : /\ k[n][j] \in Subtree(k, root) /\ k[n][j] \in Nodes
                            /\ Offset(k, root, k[n][j]) = a + b[j]
<1>1. root \in Nodes /\ n \in Nodes /\ n \in Subtree(kids, root)
  BY NodesApart DEF IsSeen, TreeNodes, Inner
<1>2. a \in Nat
  BY <1>1, OffsetNat
<1>3. PICK size0, l0 : size0 = TrueCount(kids) /\ l0 = Len(kids[n])
  OBVIOUS
<1>4. PICK b0, z0 : KidSums(kids, size0, n, b0, z0, l0)
  BY <1>3, KidSumsExist
<1>5. l0 = 0 /\ l \in Nat /\ DOMAIN k[n] = 1..l /\ b[l + 1] \in Nat
  <2>1. l \in Nat /\ b \in [1..(l + 1) -> Nat] /\ DOMAIN k[n] = 1..l
    BY DEF KidSums, Sums
  <2>2. l + 1 \in 1..(l + 1)
    BY <2>1
  <2> QED BY <1>3, <2>1, <2>2
<1>6. PICK d, e0, e1 : d = 0 /\ e0 = 0 /\ e1 = l
  OBVIOUS
<1>7. Segment(kids[n], l0, k[n], l, d, e0, e1)
  BY <1>5, <1>6 DEF Segment
<1>8. /\ IsTree(kids) /\ IsTree(k) /\ n \in Inner /\ ChangedAt(k, n)
      /\ KidSums(kids, TrueCount(kids), n, b0, z0, l0) /\ KidSums(k, TrueCount(k), n, b, z, l)
      /\ Segment(kids[n], l0, k[n], l, d, e0, e1)
  BY <1>3, <1>4, <1>7
<1>9. Lifted(k, n, n, b0[d + 1], b0[e0 + 1], b[e1 + 1])
  BY <1>8, LiftedAt
<1>10. b0[d + 1] = 0 /\ b0[e0 + 1] = 0 /\ b[e1 + 1] = b[l + 1]
  BY <1>4, <1>6 DEF KidSums, Sums
<1>11. PICK w \in Nat : w = b[l + 1]
  BY <1>5
<1>12. Lifted(k, n, n, 0, 0, w)
  BY <1>9, <1>10, <1>11
<1>13. Lifted(k, n, root, 0, 0, w)
  <2>1. 0 \in Nat
    OBVIOUS
  <2> QED BY <1>1, <1>11, <1>12, <2>1, LiftedUp
<1>14. /\ Segment(OrderBelow(kids)[root], TrueCount(kids)[root], OrderBelow(k)[root], TrueCount(k)[root],
                  a + 0, a + 0, a + w)
       /\ n \in Subtree(k, root) /\ Offset(k, root, n) = a
  BY <1>13 DEF Lifted
<1>15. a + 0 = a
  BY <1>2
<1>16. ASSUME NEW j \in 1..l
       PROVE  /\ k[n][j] \in Subtree(k, root) /\ k[n][j] \in Nodes
              /\ Offset(k, root, k[n][j]) = a + b[j]
  <2>1. j \in DOMAIN k[n] /\ j \in 1..(l + 1)
    BY <1>5
  <2>2. /\ k[n][j] \in Subtree(k, root)
        /\ Offset(k, root, k[n][j]) = Offset(k, root, n) + Before(k, TrueCount(k), n, j)
    BY <1>1, <1>14, <2>1, OffsetOfKid
  <2>3. Before(k, TrueCount(k), n, j) = b[j]
    BY <2>1 DEF KidSums
  <2>4. k[n][j] \in Nodes
    BY <2>1, KidsTyped DEF IsTree, Tree
  <2> QED BY <1>14, <2>2, <2>3, <2>4
<1> QED BY <1>2, <1>11, <1>14, <1>15, <1>16

(* Behind the a-th page those below the nodes of s are to come in. *)
Coming(k, s, a, b, z, l, e) ==
    /\ a \in Nat /\ Sums(b, z, l) /\ e = a + b[l + 1]
    /\ \A j \in 1..l : /\ s[j] \in Subtree(k, root) /\ s[j] \in Nodes /\ z[j] = TrueCount(k)[s[j]]
                       /\ Offset(k, root, s[j]) = a + b[j]
    /\ \A j \in 1..(l + 1) : b[j] <= b[l + 1]

LEMMA StepsPlace ==
  ASSUME NEW k, IsTree(k), root \in Roots, NEW par, NEW base, Mending(k, base), NEW s,
         NEW s0, NEW l0, NEW s1, NEW l1, Placed(base.list, s0, l0), l1 < SizeT, NEW a,
         NEW b, NEW z, NEW l, NEW e, Coming(k, s, a, b, z, l, e), Segment(s0, l0, s1, l1, a, a, e),
         NEW g, StepByStep(g, k, par, base, s, l)
  PROVE  Placed(g[l].list, s1, l1) /\ Range(g[l].list) = Range(base.list) /\ Mending(k, g[l])
<1>0. /\ a \in Nat /\ Sums(b, z, l) /\ e = a + b[l + 1]
      /\ \A j \in 1..l : /\ s[j] \in Subtree(k, root) /\ s[j] \in Nodes /\ z[j] = TrueCount(k)[s[j]]
                         /\ Offset(k, root, s[j]) = a + b[j]
      /\ \A j \in 1..(l + 1) : b[j] <= b[l + 1]
  BY DEF Coming
<1>1. /\ l \in Nat /\ b \in [1..(l + 1) -> Nat] /\ z \in [1..l -> Nat]
      /\ b[1] = 0 /\ \A j \in 1..l : b[j + 1] = b[j] + z[j]
  BY <1>0 DEF Sums
<1>2. l0 \in Nat /\ l1 \in Nat /\ a <= l0 /\ b[l + 1] \in Nat /\ l1 - e = l0 - a /\ a \in Nat
  <2>1. l + 1 \in 1..(l + 1)
    BY <1>1
  <2> QED BY <1>0, <1>1, <2>1 DEF Segment
<1>3. PICK w \in Nat : w = b[l + 1]
  BY <1>2
<1>4. l1 = l0 + w /\ e = a + w
  BY <1>0, <1>2, <1>3
<1>5. PICK good : good = {j \in 0..l : /\ Mending(k, g[j]) /\ Range(g[j].list) = Range(base.list)
                                       /\ Placed(g[j].list, Brought(s0, l0, s1, a, b[j + 1]), l0 + b[j + 1])}
  OBVIOUS
<1>6. 0 \in good
  <2>1. g[0] = base
    BY DEF StepByStep
  <2>2. PICK t : t = Brought(s0, l0, s1, a, 0)
    OBVIOUS
  <2>3. \A p \in 1..l0 : t[p] = s0[p]
    <3>1. \A p \in 1..l0 : p \in 1..(l0 + 0) /\ p - 0 = p /\ (p <= a + 0 => p <= a)
      BY <1>2
    <3> QED BY <2>2, <3>1 DEF Brought
  <2>4. l0 + 0 = l0
    BY <1>2
  <2>5. Placed(base.list, t, l0 + 0)
    BY <2>3, <2>4 DEF Placed
  <2>6. 0 \in 0..l /\ 0 + 1 = 1
    BY <1>1
  <2> QED BY <1>1, <1>5, <2>1, <2>2, <2>5, <2>6
<1>7. ASSUME NEW i \in 0..(l - 1), i \in good PROVE i + 1 \in good
  <2>1. PICK j \in 1..l : j = i + 1 /\ j - 1 = i /\ j \in 0..l /\ j \in 1..(l + 1) /\ j + 1 \in 1..(l + 1)
    BY <1>1
  <2>2. PICK u : u = g[i]
    OBVIOUS
  <2>3. PICK c \in Nat, y \in Nat : c = b[j] /\ y = z[j]
    BY <1>1, <2>1
  <2>4. b[j + 1] = c + y
    BY <1>1, <2>1, <2>3
  <2>5. PICK t0, t1, n0, n1, at : /\ t0 = Brought(s0, l0, s1, a, c) /\ t1 = Brought(s0, l0, s1, a, c + y)
                                  /\ n0 = l0 + c /\ n1 = l0 + (c + y) /\ at = a + c
    OBVIOUS
  <2>6. Mending(k, u) /\ Range(u.list) = Range(base.list) /\ Placed(u.list, t0, n0)
    BY <1>5, <1>7, <2>1, <2>2, <2>3, <2>5
  <2>7. Segment(t0, n0, t1, n1, at, at + 0, at + y)
    BY <1>2, <2>3, <2>5, BroughtOn
  <2>8. n1 < SizeT
    <3>1. c + y <= w
      BY <1>0, <1>3, <2>1, <2>4
    <3>2. PICK top : top = SizeT
      OBVIOUS
    <3>3. top \in Nat
      BY <3>2 DEF SizeT
    <3>4. n1 <= l1
      BY <1>2, <1>4, <2>3, <2>5, <3>1
    <3>5. n1 \in Nat
      BY <1>2, <2>3, <2>5
    <3> QED BY <1>2, <3>2, <3>3, <3>4, <3>5
  <2>9. at \in Nat /\ 0 \in Nat /\ y \in Nat
    BY <1>2, <2>3, <2>5
  <2>10. Uncut(u.list, at, 0) = DOMAIN u.list
    <3>1. \A p \in DOMAIN u.list : p \in Nat
      BY <2>6 DEF Mending, PagesListed
    <3>2. \A p \in DOMAIN u.list : p <= at \/ at + 0 < p
      BY <2>9, <3>1
    <3> QED BY <3>2 DEF Uncut
  <2>11. Goes(k, u, par, NoNode, at, 0)
    BY <2>10 DEF Goes
  <2>12. PICK x \in Nodes : x = s[j] /\ x # NoNode
    BY <1>0, <2>1, PageTreeAssumption
  <2>13. Comes(k, u, x, at, 0, y, t1, n1)
    BY <1>0, <2>1, <2>3, <2>5, <2>12 DEF Comes
  <2>14. PICK v : v = ConsolidatePageList(k, par, u, NoNode, x)
    OBVIOUS
  <2>15. PICK none, o : none = NoNode /\ o = 0
    OBVIOUS
  <2>16. /\ IsTree(k) /\ root \in Roots /\ Mending(k, u) /\ at \in Nat /\ o \in Nat /\ y \in Nat
         /\ Segment(t0, n0, t1, n1, at, at + o, at + y) /\ n1 < SizeT /\ Placed(u.list, t0, n0)
         /\ Goes(k, u, par, none, at, o) /\ Comes(k, u, x, at, o, y, t1, n1)
    BY <2>6, <2>7, <2>8, <2>9, <2>11, <2>13, <2>15
  <2>17. /\ Placed(ConsolidatePageList(k, par, u, none, x).list, t1, n1)
         /\ Range(ConsolidatePageList(k, par, u, none, x).list) =
              Range(Restrict(u.list, Uncut(u.list, at, o)))
    BY <2>16, ListCorrected
  <2>18. Placed(v.list, t1, n1) /\ Range(v.list) = Range(Restrict(u.list, DOMAIN u.list))
    BY <2>10, <2>14, <2>15, <2>17
  <2>19. Range(Restrict(u.list, DOMAIN u.list)) = Range(u.list)
    BY DEF Restrict, Range
  <2>20. Mending(k, v)
    BY <2>6, <2>12, <2>14, ListMends
  <2>21. g[j] = v
    BY <2>1, <2>2, <2>12, <2>14 DEF StepByStep
  <2> QED BY <1>5, <2>1, <2>4, <2>5, <2>6, <2>18, <2>19, <2>20, <2>21
<1>8. \A j \in 0..l : j \in good
  BY <1>1, <1>6, <1>7, UpTo0
<1>9. PICK t : t = Brought(s0, l0, s1, a, w)
  OBVIOUS
<1>10. Mending(k, g[l]) /\ Range(g[l].list) = Range(base.list) /\ Placed(g[l].list, t, l1)
  <2>1. l \in good
    BY <1>1, <1>8
  <2> QED BY <1>3, <1>4, <1>5, <1>9, <2>1
<1>11. ASSUME NEW p \in 1..l1 PROVE t[p] = s1[p]
  <2>1. p \in 1..(l0 + w)
    BY <1>4
  <2>2. CASE p <= a
    <3>1. t[p] = s0[p]
      BY <1>9, <2>1, <2>2 DEF Brought
    <3>2. p \in 1..a
      BY <1>2, <2>2
    <3> QED BY <3>1, <3>2 DEF Segment
  <2>3. CASE ~(p <= a) /\ p <= a + w
    BY <1>9, <2>1, <2>3 DEF Brought
  <2>4. CASE ~(p <= a) /\ ~(p <= a + w)
    <3>1. t[p] = s0[p - w]
      BY <1>9, <2>1, <2>4 DEF Brought
    <3>2. PICK i : i = p - (a + w)
      OBVIOUS
    <3>3. i \in 1..(l0 - a) /\ p = e + i /\ p - w = a + i
      BY <1>2, <1>4, <2>4, <3>2
    <3>4. s1[e + i] = s0[a + i]
      BY <3>3 DEF Segment
    <3> QED BY <3>1, <3>3, <3>4
  <2> QED BY <2>2, <2>3, <2>4
<1>12. Placed(g[l].list, s1, l1)
  BY <1>10, <1>11 DEF Placed
<1> QED BY <1>10, <1>12

(* A node that had no element has got an array. *)
LEMMA NodeNotifyPlaces ==
  ASSUME RightNodes(root, kids, parent, count), RootsOnTop(parent), FewPages, PagesListed(pageList),
         InPlace(kids, pageList), NEW n \in Inner, IsSeen(n), NEW k, IsTree(k), ChangedAt(k, n),
         kids[n] = <<>>, NEW c, TrueCache(kids, c)
  PROVE  /\ InPlace(k, NodeNotify(k, n, c).list)
         /\ Range(NodeNotify(k, n, c).list) = Range(pageList)
         /\ RootsOnTop(NodeNotify(k, n, c).parent)
         /\ \E a \in Nat, w \in Nat :
               Segment(OrderBelow(kids)[root], TrueCount(kids)[root], OrderBelow(k)[root], TrueCount(k)[root],
                       a, a + 0, a + w)
<1>1. IsTree(kids) /\ Typed(k)
  BY DEF RightNodes, IsTree, Tree
<1>2. root \in Roots /\ root \in Nodes
  BY NodesApart DEF RightNodes, IsSeen, TreeNodes, Inner
<1>3. PICK t : t = ConsolidatePageTree(k, n)
  OBVIOUS
<1>4. PICK base : base = Discard(Lists(pageList, c), t.discarded)
  OBVIOUS
<1>5. Mending(k, base) /\ base.list = pageList
  <2>1. Mending(k, base)
    BY <1>1, <1>3, <1>4, StaleDiscarded
  <2>2. base.list = pageList
    BY <1>4 DEF Discard, Lists
  <2> QED BY <2>1, <2>2
<1>6. PICK u : u = AllOut(k, t.parent, base, kids[n])
  OBVIOUS
<1>7. u = base
  <2>1. PICK o, s : o = 0 /\ s = kids[n]
    OBVIOUS
  <2>2. o \in Nat /\ DOMAIN s = 1..o
    BY <2>1
  <2>3. AllOut(k, t.parent, base, s) = base
    BY <2>1, <2>2, StepsInOrder
  <2> QED BY <1>6, <2>1, <2>3
<1>8. PICK size, s, l : size = TrueCount(k) /\ s = k[n] /\ l = Len(s)
  OBVIOUS
<1>9. PICK b, z : KidSums(k, size, n, b, z, l)
  BY <1>8, KidSumsExist
<1>10. /\ Sums(b, z, l) /\ l \in Nat /\ DOMAIN s = 1..l
       /\ \A j \in 1..l : z[j] = TrueCount(k)[s[j]]
  BY <1>8, <1>9 DEF KidSums, Sums
<1>11. PICK a : a = Offset(kids, root, n)
  OBVIOUS
<1>12. PICK s0, l0, s1, l1 : /\ s0 = OrderBelow(kids)[root] /\ l0 = TrueCount(kids)[root]
                             /\ s1 = OrderBelow(k)[root] /\ l1 = TrueCount(k)[root]
  OBVIOUS
<1>13. /\ a \in Nat
       /\ Segment(s0, l0, s1, l1, a, a + 0, a + b[l + 1])
       /\ \A j \in 1..l : /\ s[j] \in Subtree(k, root) /\ s[j] \in Nodes
                          /\ Offset(k, root, s[j]) = a + b[j]
  <2>1. KidSums(k, TrueCount(k), n, b, z, l)
    BY <1>8, <1>9
  <2>2. /\ a \in Nat
        /\ Segment(OrderBelow(kids)[root], TrueCount(kids)[root], OrderBelow(k)[root], TrueCount(k)[root],
                   a, a + 0, a + b[l + 1])
        /\ \A j \in 1..l : /\ k[n][j] \in Subtree(k, root) /\ k[n][j] \in Nodes
                           /\ Offset(k, root, k[n][j]) = a + b[j]
    BY <1>1, <1>2, <1>11, <2>1, NewArrayAt
  <2> QED BY <1>8, <1>12, <2>2
<1>14. \A j \in 1..(l + 1) : b[j] <= b[l + 1]
  <2>1. PICK order : order = OrderBelow(k)
    OBVIOUS
  <2>2. \A i \in 1..(l + 1), j \in 1..(l + 1) : i <= j => b[i] <= b[j]
    BY <1>8, <1>9, <2>1, KidPages
  <2>3. l + 1 \in 1..(l + 1) /\ \A j \in 1..(l + 1) : j <= l + 1
    BY <1>10
  <2> QED BY <2>2, <2>3
<1>15. l1 < SizeT
  BY <1>2, <1>12, PagesBounded
<1>16. PICK par : par = t.parent
  OBVIOUS
<1>17. PICK g : StepByStep(g, k, par, base, s, l) /\ AllIn(k, par, base, s) = g[l]
  BY <1>10, StepsInOrder
<1>18. Placed(base.list, s0, l0)
  BY <1>5, <1>12 DEF InPlace
<1>19. \A j \in 1..l : /\ s[j] \in Subtree(k, root) /\ s[j] \in Nodes /\ z[j] = TrueCount(k)[s[j]]
                       /\ Offset(k, root, s[j]) = a + b[j]
  BY <1>10, <1>13
<1>20. Placed(g[l].list, s1, l1) /\ Range(g[l].list) = Range(base.list)
  <2>0. PICK e : e = a + b[l + 1] /\ a + 0 = a
    BY <1>13
  <2>1. /\ IsTree(k) /\ root \in Roots /\ Mending(k, base) /\ Placed(base.list, s0, l0) /\ l1 < SizeT
        /\ Coming(k, s, a, b, z, l, e) /\ Segment(s0, l0, s1, l1, a, a, e)
        /\ StepByStep(g, k, par, base, s, l)
    BY <1>2, <1>5, <1>10, <1>13, <1>14, <1>15, <1>17, <1>18, <1>19, <2>0 DEF Coming
  <2> QED BY <2>1, StepsPlace
<1>21. NodeNotify(k, n, c) = Corrected(t, g[l])
  <2>1. NodeNotify(k, n, c) =
          Corrected(t, AllSteps(k, t.parent, AllSteps(k, t.parent, base, kids[n], FALSE), k[n], TRUE))
    BY <1>3, <1>4, NodeNotifyIs
  <2>2. AllSteps(k, t.parent, AllSteps(k, t.parent, base, kids[n], FALSE), k[n], TRUE) = g[l]
    BY <1>6, <1>7, <1>8, <1>16, <1>17 DEF AllIn, AllOut
  <2> QED BY <2>1, <2>2
<1>22. NodeNotify(k, n, c).list = g[l].list /\ NodeNotify(k, n, c).parent = t.parent
  BY <1>21 DEF Corrected
<1>23. RootsOnTop(t.parent)
  BY <1>3, RootsStayOnTop
<1>24. b[l + 1] \in Nat
  <2>1. l + 1 \in 1..(l + 1)
    BY <1>10
  <2> QED BY <1>10, <2>1 DEF Sums
<1> QED BY <1>5, <1>12, <1>13, <1>20, <1>22, <1>23, <1>24 DEF InPlace

-----------------------------------------------------------------------------
(* The steps: what they do to the pages and to the list. *)

(* What is below a node that nothing refers to is not in the tree. *)
LEMMA FreeApart ==
  ASSUME IsTree(kids), root \in Roots, NEW new \in Leaves \cup Inters, IsFree(new), NEW x \in Nodes,
         x \in Subtree(kids, new)
  PROVE  x \notin Subtree(kids, root)
<1>1. SUFFICES ASSUME x \in Subtree(kids, root) PROVE FALSE
  OBVIOUS
<1>2. PICK N, rank : Tree(kids, N, rank)
  BY DEF IsTree
<1>3. Typed(kids) /\ Falling(kids, rank)
  BY <1>2 DEF Tree
<1>4. new \in Nodes /\ root \in Nodes /\ new # root
  BY NodesApart, PageTreeAssumption DEF Inner
<1>5. CASE new \in Subtree(kids, root)
  <2>1. PICK h \in Inner \cap Subtree(kids, root) : \E j \in DOMAIN kids[h] : new = kids[h][j]
    BY <1>3, <1>4, <1>5, SubtreeHolder
  <2>2. h \in Inner /\ new \in ToSet(kids[h])
    BY <2>1 DEF ToSet
  <2> QED BY <2>2 DEF IsFree
<1>6. CASE root \in Subtree(kids, new)
  <2>1. PICK h \in Inner \cap Subtree(kids, new) : \E j \in DOMAIN kids[h] : root = kids[h][j]
    BY <1>3, <1>4, <1>6, SubtreeHolder
  <2>2. root \in Leaves \cup Inters
    BY <1>3, <2>1, KidsTyped
  <2> QED BY <2>2, PageTreeAssumption DEF Inner
<1> QED BY <1>1, <1>2, <1>4, <1>5, <1>6, SubtreesNest

(* The w pages of s1 behind the a-th are not among those of s0. *)
AllNew(s0, l0, s1, a, w) == \A q \in 1..w, p \in 1..l0 : s1[a + q] # s0[p]

(* No page of a new element was in the tree. *)
LEMMA EditBringsNew ==
  ASSUME IsTree(kids), root \in Roots, NEW n \in Inner, IsSeen(n), NEW k, NEW i,
         NEW old \in Nodes \cup {NoNode}, NEW new \in Nodes \cup {NoNode}, ArrayEdit(k, n, i, old, new),
         NEW a, NEW w0, NEW w1, Exchanged(k, old, new, a, w0, w1)
  PROVE  AllNew(OrderBelow(kids)[root], TrueCount(kids)[root], OrderBelow(k)[root], a, w1)
<1>0. root \in Nodes
  BY NodesApart DEF Inner
<1>1. CASE new = NoNode
  BY <1>1 DEF Exchanged, AllNew
<1>2. CASE new # NoNode
  <2>1. /\ IsTree(k) /\ ChangedAt(k, n) /\ i \in DOMAIN k[n] /\ k[n][i] = new /\ IsFree(new)
        /\ new \in Subtree(k, root) /\ a = Offset(k, root, new) /\ w1 = TrueCount(k)[new]
    BY <1>2 DEF ArrayEdit, Exchanged
  <2>2. new \in Leaves \cup Inters /\ new \in Nodes
    BY <1>2, <2>1, KidsTyped DEF IsTree, Tree
  <2>3. n \notin Subtree(kids, new)
    BY <2>1, NotBelowKids
  <2>4. Subtree(k, new) = Subtree(kids, new)
    BY <2>1, <2>2, <2>3, SameBelowOthers DEF SameBelow
  <2>5. PICK s0, l0, order, size : /\ s0 = OrderBelow(kids)[root] /\ l0 = TrueCount(kids)[root]
                                   /\ order = OrderBelow(k) /\ size = TrueCount(k)
    OBVIOUS
  <2>6. InOrder(k, order, size) /\ InOrder(kids, OrderBelow(kids), TrueCount(kids))
    BY <2>1, <2>5, OrderIs
  <2>7. ASSUME NEW q \in 1..w1, NEW p \in 1..l0 PROVE order[root][a + q] # s0[p]
    <3>1. q \in 1..size[new]
      BY <2>1, <2>5, <2>7
    <3>2. order[root][a + q] = order[new][q]
      BY <1>0, <2>1, <2>5, <3>1, OffsetPlaces
    <3>3. order[new][q] \in Subtree(k, new)
      BY <2>1, <2>2, <2>6, <3>1, OrderBelongs
    <3>4. p \in 1..TrueCount(kids)[root]
      BY <2>5, <2>7
    <3>5. s0[p] \in Subtree(kids, root) /\ s0[p] \in Leaves
      BY <1>0, <2>5, <2>6, <3>4, OrderBelongs
    <3>6. s0[p] \in Nodes
      BY <3>5, NodesApart
    <3>7. ASSUME order[root][a + q] = s0[p] PROVE FALSE
      <4>1. PICK x \in Nodes : x = s0[p]
        BY <3>6
      <4>2. x \in Subtree(kids, new) /\ x \in Subtree(kids, root)
        BY <2>4, <3>2, <3>3, <3>5, <3>7, <4>1
      <4> QED BY <2>1, <2>2, <4>2, FreeApart
    <3> QED BY <3>7
  <2> QED BY <2>5, <2>7 DEF AllNew
<1> QED BY <1>1, <1>2

(* When none has gone, those that have come were not there. *)
LEMMA OnlyNew ==
  ASSUME NEW s0, NEW l0, NEW s1, NEW l1, NEW a \in Nat, NEW w \in Nat,
         Segment(s0, l0, s1, l1, a, a + 0, a + w),
         \A p \in 1..l1, q \in 1..l1 : s1[p] = s1[q] => p = q
  PROVE  AllNew(s0, l0, s1, a, w)
<1>1. /\ l0 \in Nat /\ l1 \in Nat /\ a <= l0 /\ a + w <= l1 /\ l1 - (a + w) = l0 - a
      /\ \A i \in 1..a : s1[i] = s0[i]
      /\ \A i \in 1..(l0 - a) : s1[(a + w) + i] = s0[a + i]
  <2>1. a + 0 = a
    OBVIOUS
  <2> QED BY <2>1 DEF Segment
<1>2. ASSUME NEW q \in 1..w, NEW p \in 1..l0 PROVE s1[a + q] # s0[p]
  <2>1. CASE p <= a
    <3>1. p \in 1..a /\ p \in 1..l1 /\ a + q \in 1..l1 /\ p # a + q
      BY <1>1, <1>2, <2>1
    <3>2. s1[p] = s0[p]
      BY <1>1, <3>1
    <3> QED BY <3>1, <3>2
  <2>2. CASE a < p
    <3>1. PICK i : i = p - a
      OBVIOUS
    <3>2. i \in 1..(l0 - a) /\ a + i = p /\ (a + w) + i \in 1..l1 /\ a + q \in 1..l1 /\ (a + w) + i # a + q
      BY <1>1, <1>2, <2>2, <3>1
    <3>3. s1[(a + w) + i] = s0[p]
      BY <1>1, <3>2
    <3> QED BY <3>2, <3>3
  <2>3. p <= a \/ a < p
    BY <1>1, <1>2
  <2> QED BY <2>1, <2>2, <2>3
<1> QED BY <1>2 DEF AllNew

(* The pages that have come. *)
Came(s, a, w) == {s[a + q] : q \in 1..w}

(* The list is in place in the arrays k, which are an edit of those there  *)
(* are.                                                                    *)
EditTo(k, list) ==
    /\ InPlace(k, list)
    /\ \E a, w0, w1 :
          /\ a \in Nat /\ w0 \in Nat /\ w1 \in Nat
          /\ Segment(OrderBelow(kids)[root], TrueCount(kids)[root], OrderBelow(k)[root], TrueCount(k)[root],
                     a, a + w0, a + w1)
          /\ AllNew(OrderBelow(kids)[root], TrueCount(kids)[root], OrderBelow(k)[root], a, w1)
          /\ \/ Range(list) = Left(pageList, a, w0)
             \/ Range(list) = Left(pageList, a, w0) \cup Came(OrderBelow(k)[root], a, w1)

(* Another page is put in the list at its place. *)
LEMMA EntryPlaced ==
  ASSUME NEW list, NEW order, NEW l, Placed(list, order, l), NEW q \in 1..l, NEW x, order[q] = x
  PROVE  /\ Placed(Filled(list, Entry(q, x)), order, l)
         /\ Range(Filled(list, Entry(q, x))) = Range(list) \cup {x}
<1>1. PICK f : f = Filled(list, Entry(q, x))
  OBVIOUS
<1>2. /\ DOMAIN f = DOMAIN list \cup {q}
      /\ \A p \in DOMAIN f : f[p] = IF p \in DOMAIN list THEN list[p] ELSE x
  BY <1>1 DEF Filled, Entry
<1>3. Placed(f, order, l)
  BY <1>2 DEF Placed
<1>4. f[q] = x
  BY <1>2, <1>3 DEF Placed
<1>5. ASSUME NEW y \in Range(f) PROVE y \in Range(list) \cup {x}
  BY <1>2, <1>5 DEF Range
<1>6. ASSUME NEW y \in Range(list) \cup {x} PROVE y \in Range(f)
  BY <1>2, <1>4, <1>6 DEF Range
<1> QED BY <1>1, <1>3, <1>5, <1>6

LEMMA NothingFilled ==
  ASSUME NEW list, NEW order, NEW l, Placed(list, order, l)
  PROVE  /\ Placed(Filled(list, NoEntries), order, l)
         /\ Range(Filled(list, NoEntries)) = Range(list)
<1>1. PICK f : f = Filled(list, NoEntries)
  OBVIOUS
<1>2. DOMAIN f = DOMAIN list /\ \A p \in DOMAIN f : f[p] = list[p]
  BY <1>1 DEF Filled, NoEntries
<1>3. Range(f) = Range(list)
  BY <1>2 DEF Range
<1> QED BY <1>1, <1>2, <1>3 DEF Placed

(* The pages that have been returned are in their places, and the roots    *)
(* have nothing above them.                                                *)
TreePlaces ==
    /\ RootsOnTop(parent)
    /\ root # NoNode => InPlace(kids, pageList)
    /\ root = NoNode => DOMAIN pageList = {}

(* A leaf that has come is the page behind the a-th. *)
OnlyCame(k, leaf, a, w1) ==
    /\ a + 1 \in 1..TrueCount(k)[root] /\ OrderBelow(k)[root][a + 1] = leaf
    /\ Came(OrderBelow(k)[root], a, w1) = {leaf}

LEMMA CameLeaf ==
  ASSUME NEW k, IsTree(k), root \in Roots, NEW old, NEW new \in Leaves, NEW a, NEW w0, NEW w1,
         Exchanged(k, old, new, a, w0, w1)
  PROVE  OnlyCame(k, new, a, w1)
<1>1. new # NoNode /\ new \in Nodes /\ root \in Nodes
  BY NodesApart DEF Inner
<1>2. a \in Nat /\ new \in Subtree(k, root) /\ a = Offset(k, root, new) /\ w1 = TrueCount(k)[new]
  BY <1>1 DEF Exchanged
<1>3. PICK order, size : order = OrderBelow(k) /\ size = TrueCount(k)
  OBVIOUS
<1>4. InOrder(k, order, size)
  BY <1>3, OrderIs
<1>5. order[new] = <<new>> /\ size[new] = 1 /\ size[root] \in Nat
  BY <1>1, <1>4 DEF InOrder
<1>6. a + size[new] <= size[root] /\ \A p \in 1..size[new] : order[root][a + p] = order[new][p]
  BY <1>1, <1>2, <1>3, OffsetPlaces
<1>7. PICK l \in Nat : l = size[root]
  BY <1>5
<1>8. a + 1 \in 1..l /\ order[root][a + 1] = new /\ w1 = 1
  BY <1>2, <1>3, <1>5, <1>6, <1>7
<1>9. Came(order[root], a, w1) = {new}
  <2>1. 1..w1 = {1}
    BY <1>8
  <2> QED BY <1>8, <2>1 DEF Came
<1> QED BY <1>3, <1>7, <1>8, <1>9 DEF OnlyCame

LEMMA EditPlaces ==
  ASSUME TreeInv, TreePlaces, FewPages, NEW n \in Inner, IsSeen(n), NEW k, NEW i,
         NEW old \in Nodes \cup {NoNode}, NEW new \in Nodes \cup {NoNode}, ArrayEdit(k, n, i, old, new),
         NEW c, TrueCache(kids, c), NEW h, h = KidsNotify(k, n, old, new, c),
         NEW a, a = Offset(kids, root, n) + Before(kids, TrueCount(kids), n, i)
  PROVE  /\ root # NoNode /\ RootsOnTop(h.parent)
         /\ EditTo(k, Filled(h.list, NoEntries))
         /\ new \in Leaves => EditTo(k, Filled(h.list, Entry(a + 1, new)))
<1>1. root # NoNode /\ root \in Roots
  BY SeenNode, KnownCount DEF IsSeen
<1>2. /\ RightNodes(root, kids, parent, count) /\ RootsOnTop(parent) /\ PagesListed(pageList)
      /\ InPlace(kids, pageList) /\ IsTree(kids) /\ IsTree(k)
  BY <1>1 DEF TreeInv, TreePlaces, RightNodes, ArrayEdit
<1>3. PICK w0, w1 : Exchanged(k, old, new, a, w0, w1)
  BY <1>1, <1>2, EditExchanges
<1>4. InPlace(k, h.list) /\ Range(h.list) = Left(pageList, a, w0) /\ RootsOnTop(h.parent)
  BY <1>2, <1>3, KidsNotifyPlaces
<1>5. PICK s0, l0, s1, l1 : /\ s0 = OrderBelow(kids)[root] /\ l0 = TrueCount(kids)[root]
                            /\ s1 = OrderBelow(k)[root] /\ l1 = TrueCount(k)[root]
  OBVIOUS
<1>6. AllNew(s0, l0, s1, a, w1)
  BY <1>1, <1>2, <1>3, <1>5, EditBringsNew, SMTT(60)
<1>7. a \in Nat /\ w0 \in Nat /\ w1 \in Nat /\ Segment(s0, l0, s1, l1, a, a + w0, a + w1)
  BY <1>3, <1>5 DEF Exchanged
<1>8. Placed(h.list, s1, l1)
  BY <1>4, <1>5 DEF InPlace
<1>9. EditTo(k, Filled(h.list, NoEntries))
  <2>1. PICK f : f = Filled(h.list, NoEntries)
    OBVIOUS
  <2>2. Placed(f, s1, l1) /\ Range(f) = Left(pageList, a, w0)
    BY <1>4, <1>8, <2>1, NothingFilled
  <2> QED BY <1>5, <1>6, <1>7, <2>1, <2>2 DEF EditTo, InPlace
<1>10. ASSUME new \in Leaves PROVE EditTo(k, Filled(h.list, Entry(a + 1, new)))
  <2>0. OnlyCame(k, new, a, w1)
    <3>1. IsTree(k) /\ root \in Roots /\ new \in Leaves /\ Exchanged(k, old, new, a, w0, w1)
      BY <1>1, <1>2, <1>3, <1>10
    <3> QED BY <3>1, CameLeaf
  <2>1. a + 1 \in 1..l1 /\ s1[a + 1] = new /\ Came(s1, a, w1) = {new}
    BY <1>5, <2>0 DEF OnlyCame
  <2>2. PICK f, q : q = a + 1 /\ f = Filled(h.list, Entry(q, new))
    OBVIOUS
  <2>3. Placed(f, s1, l1) /\ Range(f) = Left(pageList, a, w0) \cup Came(s1, a, w1)
    BY <1>4, <1>8, <2>1, <2>2, EntryPlaced
  <2> QED BY <1>5, <1>6, <1>7, <2>2, <2>3 DEF EditTo, InPlace
<1> QED BY <1>1, <1>4, <1>9, <1>10

(* The pages of the document in front of the i-th child of a node. *)
InFrontOf(n, i) == Offset(kids, root, n) + Before(kids, TrueCount(kids), n, i)

(* The step is an edit. *)
EditStep ==
    /\ root # NoNode /\ root' = root
    /\ RootsOnTop(parent')
    /\ EditTo(kids', pageList')

LEMMA ChangeEdits ==
  ASSUME root # NoNode, NEW k, NEW h, RootsOnTop(h.parent), NEW added, EditTo(k, Filled(h.list, added)),
         NEW known, Change(k, h, known, added)
  PROVE  EditStep
<1>1. PICK list : list = Filled(h.list, added)
  OBVIOUS
<1>2. kids' = k /\ parent' = h.parent /\ pageList' = list /\ root' = root
  BY <1>1 DEF Change
<1> QED BY <1>1, <1>2 DEF EditStep

(* The page that findPageDict finds, where its node lists it. *)
FoundAt(n, i, append, at) ==
    InFrontOf(n, i + append) \in Nat /\ InFrontOf(n, i + append) + 1 = at + append

LEMMA FoundIsThere ==
  ASSUME TreeInv, root # NoNode, NEW at \in 1..PageCount,
         NEW leaf \in Leaves, leaf = FindPage(kids, CountedCache, at).leaf,
         NEW n \in Inner, IsSeen(n), NEW i \in DOMAIN kids[n], kids[n][i] = leaf, NEW append \in {0, 1}
  PROVE  FoundAt(n, i, append, at)
<1>1. /\ IsTree(kids) /\ PageCount = TrueCount(kids)[root] /\ PageCount \in Nat
      /\ TrueCache(kids, CountedCache) /\ root \in Roots /\ root \in Nodes
  BY KnownCount DEF TreeInv, RightNodes
<1>2. PICK order, size : order = OrderBelow(kids) /\ size = TrueCount(kids)
  OBVIOUS
<1>3. InOrder(kids, order, size)
  BY <1>1, <1>2, OrderIs
<1>4. leaf = order[root][at]
  <2>1. KidsCount(kids, CountedCache) = TrueCount(kids) /\ at \in 1..TrueCount(kids)[root]
    BY <1>1, TrueCacheCounts
  <2> QED BY <1>1, <1>2, <2>1, FindPageRight
<1>5. n \in Subtree(kids, root) /\ leaf \in Nodes
  BY NodesApart DEF IsSeen, TreeNodes
<1>6. leaf \in Subtree(kids, root) /\ Offset(kids, root, leaf) = InFrontOf(n, i)
  BY <1>1, <1>5, OffsetOfKid DEF InFrontOf
<1>7. PICK f : f = InFrontOf(n, i)
  OBVIOUS
<1>8. /\ f \in Nat /\ f + size[leaf] <= size[root]
      /\ \A p \in 1..size[leaf] : order[root][f + p] = order[leaf][p]
  BY <1>1, <1>2, <1>6, <1>7, OffsetPlaces
<1>9. order[leaf] = <<leaf>> /\ size[leaf] = 1 /\ size[root] \in Nat
  BY <1>1, <1>3 DEF InOrder
<1>10. f + 1 \in 1..size[root] /\ order[root][f + 1] = leaf
  BY <1>8, <1>9
<1>11. f + 1 = at
  <2>1. at \in 1..size[root]
    BY <1>1, <1>2
  <2> QED BY <1>1, <1>3, <1>4, <1>10, <2>1, OrderOnce
<1>12. CASE append = 0
  <2>1. PICK j : j = i + append
    OBVIOUS
  <2>2. Typed(kids)
    BY <1>1 DEF IsTree, Tree
  <2>3. DOMAIN kids[n] = 1..Len(kids[n]) /\ Len(kids[n]) \in Nat
    BY <2>2, KidsTyped
  <2>4. j = i
    BY <1>12, <2>1, <2>3
  <2>5. InFrontOf(n, j) = f
    BY <1>7, <2>4
  <2> QED BY <1>8, <1>11, <1>12, <2>1, <2>5 DEF FoundAt
<1>13. CASE append = 1
  <2>1. PICK x, y, b : x = Offset(kids, root, n) /\ y = Before(kids, size, n, i) /\ b = Before(kids, size, n, i + 1)
    OBVIOUS
  <2>2. x \in Nat
    BY <1>1, <1>5, <2>1, OffsetNat
  <2>3. Typed(kids)
    BY <1>1 DEF IsTree, Tree
  <2>4. PICK l \in Nat : l = Len(kids[n]) /\ DOMAIN kids[n] = 1..l
    BY <2>3, KidsTyped
  <2>5. Fronts(kids, size, n, l)
    BY <1>3, <2>4 DEF InOrder
  <2>6. y \in Nat /\ b = y + size[kids[n][i]]
    <3>1. i \in 1..l /\ i \in 1..(l + 1)
      BY <2>4
    <3> QED BY <2>1, <2>5, <3>1 DEF Fronts
  <2>7. b = y + 1
    BY <1>9, <2>6
  <2>8. f = x + y /\ InFrontOf(n, i + append) = x + b
    BY <1>2, <1>7, <1>13, <2>1 DEF InFrontOf
  <2>9. x + b \in Nat /\ (x + b) + 1 = at + append
    BY <1>8, <1>11, <1>13, <2>2, <2>6, <2>7, <2>8
  <2> QED BY <2>8, <2>9 DEF FoundAt
<1> QED BY <1>12, <1>13

LEMMA InsertLeafEdits ==
  ASSUME TreeInv, TreePlaces, FewPages, NEW leaf \in Leaves, IsFree(leaf), NEW n \in Inner, IsSeen(n),
         NEW index \in 1..(Len(kids[n]) + 1), NEW c, TrueCache(kids, c),
         NEW position, position = InFrontOf(n, index) + 1, InsertLeaf(leaf, n, index, c, position)
  PROVE  EditStep
<1>1. IsTree(kids)
  BY DEF TreeInv, RightNodes
<1>2. PICK k, s : k = [kids EXCEPT ![n] = s] /\ s = InsertAt(kids[n], index, leaf)
  OBVIOUS
<1>3. leaf \in Leaves \cup Inters /\ leaf \in Nodes /\ leaf \in Nodes \cup {NoNode}
  BY NodesApart
<1>4. ArrayEdit(k, n, index, NoNode, leaf)
  BY <1>1, <1>2, <1>3, LeafMayBeAdded, InsertArray
<1>5. PICK h, old, known : h = KidsNotify(k, n, NoNode, leaf, c) /\ old = NoNode /\ known = PageCount
  OBVIOUS
<1>6. PICK a : a = InFrontOf(n, index)
  OBVIOUS
<1>7. PICK added : added = Entry(position, leaf)
  OBVIOUS
<1>8. added = Entry(a + 1, leaf)
  BY <1>6, <1>7
<1>9. root # NoNode /\ RootsOnTop(h.parent) /\ EditTo(k, Filled(h.list, Entry(a + 1, leaf)))
  <2>1. /\ ArrayEdit(k, n, index, old, leaf) /\ h = KidsNotify(k, n, old, leaf, c)
        /\ old \in Nodes \cup {NoNode} /\ a = Offset(kids, root, n) + Before(kids, TrueCount(kids), n, index)
    BY <1>4, <1>5, <1>6 DEF InFrontOf
  <2>2. /\ root # NoNode /\ RootsOnTop(h.parent)
        /\ leaf \in Leaves => EditTo(k, Filled(h.list, Entry(a + 1, leaf)))
    BY <1>3, <2>1, EditPlaces
  <2> QED BY <2>2
<1>10. Change(k, h, known, added)
  BY <1>2, <1>5, <1>7 DEF InsertLeaf, EditKids
<1> QED BY <1>8, <1>9, <1>10, ChangeEdits

LEMMA InsertBesideEdits ==
  ASSUME TreeInv, TreePlaces, FewPages, root # NoNode, NEW leaf \in Leaves, IsFree(leaf),
         NEW at \in 1..PageCount, NEW append \in {0, 1}, NEW position, position = at + append,
         InsertBeside(leaf, FindPage(kids, CountedCache, at), append, position)
  PROVE  EditStep
<1>1. PICK found : found = FindPage(kids, CountedCache, at)
  OBVIOUS
<1>2. found.leaf \in Leaves \cup {NoNode} /\ TrueCache(kids, Counted(kids, CountedCache, found.asked))
  BY <1>1, FoundPage
<1>3. PICK n : n = HolderOf(found.leaf)
  OBVIOUS
<1>4. PICK i : i = Min(IndexOf(n, found.leaf))
  OBVIOUS
<1>5. PICK c : c = Counted(kids, CountedCache, found.asked)
  OBVIOUS
<1>6. IsHeldBy(found.leaf, n) /\ InsertLeaf(leaf, n, i + append, c, position)
  BY <1>1, <1>3, <1>4, <1>5 DEF InsertBeside
<1>7. /\ n \in Inner /\ IsSeen(n) /\ i \in 1..Len(kids[n])
      /\ found.leaf \in Leaves /\ i \in DOMAIN kids[n] /\ kids[n][i] = found.leaf
  BY <1>2, <1>3, <1>4, <1>6, Holder
<1>8. i + append \in 1..(Len(kids[n]) + 1)
  <2>1. Typed(kids)
    BY DEF TreeInv, RightNodes, IsTree, Tree
  <2>2. PICK l \in Nat : l = Len(kids[n])
    BY <1>7, <2>1, KidsTyped
  <2> QED BY <1>7, <2>2
<1>9. FoundAt(n, i, append, at)
  <2>1. PICK page : page = found.leaf
    OBVIOUS
  <2>2. page \in Leaves /\ page = FindPage(kids, CountedCache, at).leaf /\ kids[n][i] = page
    BY <1>1, <1>7, <2>1
  <2> QED BY <1>7, <2>2, FoundIsThere
<1>10. PICK index : index = i + append
  OBVIOUS
<1>11. position = InFrontOf(n, index) + 1
  BY <1>9, <1>10 DEF FoundAt
<1>12. /\ InsertLeaf(leaf, n, index, c, position) /\ index \in 1..(Len(kids[n]) + 1)
       /\ TrueCache(kids, c)
  BY <1>2, <1>5, <1>6, <1>8, <1>10
<1> QED BY <1>7, <1>11, <1>12, InsertLeafEdits

LEMMA InsertPageEdits ==
  ASSUME TreeInv, TreePlaces, FewPages, NEW leaf, NEW pos \in 1..(PageCount + 1), InsertPage(leaf, pos)
  PROVE  EditStep
<1>1. root # NoNode /\ leaf \in Leaves /\ IsFree(leaf)
  BY DEF InsertPage
<1>2. /\ PageCount \in Nat /\ TrueCache(kids, CountedCache) /\ root \in Inner /\ root \in Nodes
      /\ IsTree(kids)
  BY <1>1, KnownCount DEF TreeInv, RightNodes
<1>3. Typed(kids)
  BY DEF TreeInv, RightNodes, IsTree, Tree
<1>4. CASE PageCount = 0 /\ InsertLeaf(leaf, root, 1, CountedCache, 1)
  <2>1. IsSeen(root)
    BY <1>1, <1>2, <1>3, SubtreeParts DEF IsSeen, TreeNodes
  <2>2. PICK l \in Nat : l = Len(kids[root])
    BY <1>2, <1>3, KidsTyped
  <2>3. PICK index, position, c : index = 1 /\ position = 1 /\ c = CountedCache
    OBVIOUS
  <2>4. index \in 1..(Len(kids[root]) + 1) /\ InsertLeaf(leaf, root, index, c, position) /\ TrueCache(kids, c)
    BY <1>2, <1>4, <2>2, <2>3
  <2>5. position = InFrontOf(root, index) + 1
    <3>1. Offset(kids, root, root) = 0
      BY OffsetSelf
    <3>2. PICK order, size : order = OrderBelow(kids) /\ size = TrueCount(kids)
      OBVIOUS
    <3>3. InOrder(kids, order, size)
      BY <1>2, <3>2, OrderIs
    <3>4. Before(kids, size, root, 1) = 0
      BY <1>2, <3>3 DEF InOrder, Fronts
    <3>5. InFrontOf(root, index) = 0
      BY <2>3, <3>1, <3>2, <3>4 DEF InFrontOf
    <3> QED BY <2>3, <3>5
  <2> QED BY <1>1, <1>2, <2>1, <2>4, <2>5, InsertLeafEdits
<1>5. CASE ~(PageCount = 0 /\ InsertLeaf(leaf, root, 1, CountedCache, 1))
  <2>1. PICK append : append = IF pos > PageCount THEN 1 ELSE 0
    OBVIOUS
  <2>2. PICK at : at = IF append = 1 THEN PageCount ELSE pos
    OBVIOUS
  <2>3. PICK position : position = at + append
    OBVIOUS
  <2>4. PageCount # 0 /\ InsertBeside(leaf, FindPage(kids, CountedCache, at), append, position)
    BY <1>5, <2>1, <2>2, <2>3 DEF InsertPage
  <2>5. append \in {0, 1} /\ at \in 1..PageCount
    BY <1>2, <2>1, <2>2, <2>4
  <2> QED BY <1>1, <2>3, <2>4, <2>5, InsertBesideEdits
<1> QED BY <1>4, <1>5

(* An array that has become another without adding to the list. *)
LEMMA ArrayEdits ==
  ASSUME TreeInv, TreePlaces, FewPages, NEW n \in Inner, IsSeen(n), NEW s, NEW i,
         NEW old \in Nodes \cup {NoNode}, NEW new \in Nodes \cup {NoNode},
         NEW k, k = [kids EXCEPT ![n] = s], ArrayEdit(k, n, i, old, new),
         NEW c, TrueCache(kids, c), NEW known, EditKids(n, s, old, new, c, known, NoEntries)
  PROVE  EditStep
<1>1. PICK h : h = KidsNotify(k, n, old, new, c)
  OBVIOUS
<1>2. PICK a : a = Offset(kids, root, n) + Before(kids, TrueCount(kids), n, i)
  OBVIOUS
<1>3. root # NoNode /\ RootsOnTop(h.parent) /\ EditTo(k, Filled(h.list, NoEntries))
  BY <1>1, <1>2, EditPlaces
<1>4. PICK added : added = NoEntries
  OBVIOUS
<1>5. Change(k, h, known, added) /\ EditTo(k, Filled(h.list, added))
  BY <1>1, <1>3, <1>4 DEF EditKids
<1> QED BY <1>3, <1>5, ChangeEdits

LEMMA RemovePageEdits ==
  ASSUME TreeInv, TreePlaces, FewPages, NEW pos, RemovePage(pos)
  PROVE  EditStep
<1>0. root # NoNode
  BY DEF RemovePage
<1>1. PICK found : found = FindPage(kids, CountedCache, pos)
  OBVIOUS
<1>2. found.leaf \in Leaves \cup {NoNode} /\ TrueCache(kids, Counted(kids, CountedCache, found.asked))
  BY <1>0, <1>1, FoundPage
<1>3. PICK n : n = HolderOf(found.leaf)
  OBVIOUS
<1>4. PICK i : i = Min(IndexOf(n, found.leaf))
  OBVIOUS
<1>5. PICK c, s : c = Counted(kids, CountedCache, found.asked) /\ s = RemoveAt(kids[n], i)
  OBVIOUS
<1>6. PICK known, old, new : known = PageCount /\ old = found.leaf /\ new = NoNode
  OBVIOUS
<1>7. IsHeldBy(old, n) /\ EditKids(n, s, old, new, c, known, NoEntries)
  BY <1>1, <1>3, <1>4, <1>5, <1>6 DEF RemovePage, RemoveFound
<1>8. n \in Inner /\ IsSeen(n) /\ i \in DOMAIN kids[n] /\ kids[n][i] = old /\ old \in Leaves
  BY <1>2, <1>3, <1>4, <1>6, <1>7, Holder
<1>9. IsTree(kids)
  BY DEF TreeInv, RightNodes
<1>10. PICK k : k = [kids EXCEPT ![n] = s]
  OBVIOUS
<1>11. ArrayEdit(k, n, i, old, new)
  <2>1. k = [kids EXCEPT ![n] = RemoveAt(kids[n], i)] /\ old = kids[n][i]
    BY <1>5, <1>8, <1>10
  <2>2. ArrayEdit(k, n, i, old, NoNode)
    BY <1>8, <1>9, <2>1, RemoveArray
  <2> QED BY <1>6, <2>2
<1>12. old \in Nodes \cup {NoNode} /\ new \in Nodes \cup {NoNode} /\ TrueCache(kids, c)
  BY <1>2, <1>5, <1>6, <1>8, NodesApart
<1> QED BY <1>7, <1>8, <1>10, <1>11, <1>12, ArrayEdits

LEMMA ChangeKidsEdits ==
  ASSUME TreeInv, TreePlaces, FewPages, NEW n \in Inner, IsSeen(n), NEW s, NEW i,
         NEW old \in Nodes \cup {NoNode}, NEW new \in Nodes \cup {NoNode},
         NEW k, k = [kids EXCEPT ![n] = s], ArrayEdit(k, n, i, old, new), ChangeKids(n, s, old, new)
  PROVE  EditStep
<1>1. PICK known, c : known = pageCount /\ c = nodeCountCache
  OBVIOUS
<1>2. TrueCache(kids, c) /\ EditKids(n, s, old, new, c, known, NoEntries)
  BY <1>1 DEF TreeInv, ChangeKids
<1> QED BY <1>2, ArrayEdits

LEMMA AddKidEdits ==
  ASSUME TreeInv, TreePlaces, FewPages, NEW n \in Inner, NEW i, NEW new \in Leaves \cup Inters,
         AddKid(n, i, new)
  PROVE  EditStep
<1>1. PICK s, old, k : s = InsertAt(kids[n], i, new) /\ old = NoNode /\ k = [kids EXCEPT ![n] = s]
  OBVIOUS
<1>2. IsSeen(n) /\ MayAdd(n, new) /\ i \in 1..(Len(kids[n]) + 1) /\ ChangeKids(n, s, old, new)
  BY <1>1 DEF AddKid
<1>3. IsTree(kids)
  BY DEF TreeInv, RightNodes
<1>4. ArrayEdit(k, n, i, old, new)
  <2>1. k = [kids EXCEPT ![n] = InsertAt(kids[n], i, new)]
    BY <1>1
  <2>2. ArrayEdit(k, n, i, NoNode, new)
    BY <1>2, <1>3, <2>1, InsertArray
  <2> QED BY <1>1, <2>2
<1>5. old \in Nodes \cup {NoNode} /\ new \in Nodes \cup {NoNode}
  BY <1>1, NodesApart
<1> QED BY <1>1, <1>2, <1>4, <1>5, ChangeKidsEdits

LEMMA RemoveKidEdits ==
  ASSUME TreeInv, TreePlaces, FewPages, NEW n \in Inner, NEW i, RemoveKid(n, i)
  PROVE  EditStep
<1>1. PICK s, old, new, k : /\ s = RemoveAt(kids[n], i) /\ old = kids[n][i] /\ new = NoNode
                            /\ k = [kids EXCEPT ![n] = s]
  OBVIOUS
<1>2. IsSeen(n) /\ i \in DOMAIN kids[n] /\ ChangeKids(n, s, old, new)
  BY <1>1 DEF RemoveKid
<1>3. IsTree(kids) /\ Typed(kids)
  BY DEF TreeInv, RightNodes, IsTree, Tree
<1>4. ArrayEdit(k, n, i, old, new)
  <2>1. k = [kids EXCEPT ![n] = RemoveAt(kids[n], i)]
    BY <1>1
  <2>2. ArrayEdit(k, n, i, old, NoNode)
    BY <1>1, <1>2, <1>3, <2>1, RemoveArray
  <2> QED BY <1>1, <2>2
<1>5. old \in Nodes
  BY <1>1, <1>2, <1>3, KidsTyped
<1>6. old \in Nodes \cup {NoNode} /\ new \in Nodes \cup {NoNode}
  BY <1>1, <1>5
<1> QED BY <1>1, <1>2, <1>4, <1>6, ChangeKidsEdits

LEMMA ReplaceKidEdits ==
  ASSUME TreeInv, TreePlaces, FewPages, NEW n \in Inner, NEW i, NEW new \in Leaves \cup Inters,
         ReplaceKid(n, i, new)
  PROVE  EditStep
<1>1. PICK s, old, k : s = ReplaceAt(kids[n], i, new) /\ old = kids[n][i] /\ k = [kids EXCEPT ![n] = s]
  OBVIOUS
<1>2. IsSeen(n) /\ MayAdd(n, new) /\ i \in DOMAIN kids[n] /\ ChangeKids(n, s, old, new)
  BY <1>1 DEF ReplaceKid
<1>3. IsTree(kids) /\ Typed(kids)
  BY DEF TreeInv, RightNodes, IsTree, Tree
<1>4. ArrayEdit(k, n, i, old, new)
  <2>1. k = [kids EXCEPT ![n] = ReplaceAt(kids[n], i, new)]
    BY <1>1
  <2> QED BY <1>1, <1>2, <1>3, <2>1, ReplaceArray
<1>5. old \in Nodes /\ new \in Nodes
  BY <1>1, <1>2, <1>3, KidsTyped, NodesApart
<1>6. old \in Nodes \cup {NoNode} /\ new \in Nodes \cup {NoNode}
  BY <1>5
<1> QED BY <1>1, <1>2, <1>4, <1>6, ChangeKidsEdits

(* When nothing is cut out, all pages are left. *)
LEMMA AllLeft ==
  ASSUME NEW list, PagesListed(list), NEW a \in Nat
  PROVE  Left(list, a, 0) = Range(list)
<1>1. \A p \in DOMAIN list : p \in Nat
  BY DEF PagesListed
<1>2. \A p \in DOMAIN list : p <= a \/ a + 0 < p
  BY <1>1
<1>3. Uncut(list, a, 0) = DOMAIN list
  BY <1>2 DEF Uncut
<1>4. PICK f : f = Restrict(list, DOMAIN list)
  OBVIOUS
<1>5. DOMAIN f = DOMAIN list /\ \A p \in DOMAIN list : f[p] = list[p]
  BY <1>4 DEF Restrict
<1>6. Range(f) = Range(list)
  BY <1>5 DEF Range
<1> QED BY <1>3, <1>4, <1>6 DEF Left

LEMMA SetKidsEdits ==
  ASSUME TreeInv, TreePlaces, FewPages, MayReplace = FALSE, NEW n \in Inner, NEW s \in Arrays,
         SetKids(n, s)
  PROVE  EditStep
<1>1. PICK k : k = [kids EXCEPT ![n] = s]
  OBVIOUS
<1>2. PICK h, known, added, c : /\ h = NodeNotify(k, n, c) /\ known = pageCount /\ added = NoEntries
                                /\ c = nodeCountCache
  OBVIOUS
<1>3. /\ IsSeen(n) /\ \A i \in DOMAIN s : MayAdd(n, s[i]) \/ s[i] \in ToSet(kids[n])
      /\ kids[n] = <<>>
      /\ Change(k, h, known, added)
  BY <1>1, <1>2 DEF SetKids
<1>4. root # NoNode /\ root \in Roots
  BY <1>3, SeenNode, KnownCount DEF IsSeen
<1>5. /\ RightNodes(root, kids, parent, count) /\ IsTree(kids) /\ PagesListed(pageList)
      /\ RootsOnTop(parent) /\ InPlace(kids, pageList) /\ TrueCache(kids, c)
  BY <1>2, <1>4 DEF TreeInv, TreePlaces, RightNodes
<1>6. MayBecome(n, s)
  BY <1>3, ArraysAssumption DEF MayBecome
<1>7. IsTree(k) /\ ChangedAt(k, n)
  BY <1>1, <1>5, <1>6, EditTree
<1>8. PICK list, par : list = NodeNotify(k, n, c).list /\ par = NodeNotify(k, n, c).parent
  OBVIOUS
<1>9. /\ InPlace(k, list) /\ Range(list) = Range(pageList) /\ RootsOnTop(par)
      /\ \E a \in Nat, w \in Nat :
            Segment(OrderBelow(kids)[root], TrueCount(kids)[root], OrderBelow(k)[root], TrueCount(k)[root],
                    a, a + 0, a + w)
  BY <1>3, <1>5, <1>7, <1>8, NodeNotifyPlaces
<1>10. PICK s0, l0, s1, l1 : /\ s0 = OrderBelow(kids)[root] /\ l0 = TrueCount(kids)[root]
                             /\ s1 = OrderBelow(k)[root] /\ l1 = TrueCount(k)[root]
  OBVIOUS
<1>11. PICK a \in Nat, w \in Nat : Segment(s0, l0, s1, l1, a, a + 0, a + w)
  BY <1>9, <1>10
<1>12. \A p \in 1..l1, q \in 1..l1 : s1[p] = s1[q] => p = q
  <2>1. root \in Nodes
    BY <1>4, NodesApart DEF Inner
  <2>2. PICK order, size : order = OrderBelow(k) /\ size = TrueCount(k)
    OBVIOUS
  <2>3. InOrder(k, order, size)
    BY <1>7, <2>2, OrderIs
  <2> QED BY <1>7, <1>10, <2>1, <2>2, <2>3, OrderOnce
<1>13. AllNew(s0, l0, s1, a, w)
  BY <1>11, <1>12, OnlyNew
<1>14. PICK f : f = Filled(list, added)
  OBVIOUS
<1>15. Placed(f, s1, l1) /\ Range(f) = Range(list)
  BY <1>2, <1>9, <1>10, <1>14, NothingFilled DEF InPlace
<1>16. Range(f) = Left(pageList, a, 0)
  BY <1>5, <1>9, <1>15, AllLeft
<1>17. EditTo(k, f)
  BY <1>10, <1>11, <1>13, <1>15, <1>16 DEF EditTo, InPlace
<1>18. RootsOnTop(h.parent) /\ EditTo(k, Filled(h.list, added))
  BY <1>2, <1>8, <1>9, <1>14, <1>17
<1> QED BY <1>3, <1>4, <1>18, ChangeEdits

(* A page is returned. *)
HoldStep ==
    /\ root # NoNode /\ root' = root /\ kids' = kids /\ parent' = parent
    /\ InPlace(kids, pageList')
    /\ \E p \in 1..TrueCount(kids)[root] : Range(pageList') = Range(pageList) \cup {OrderBelow(kids)[root][p]}

(* Another tree takes the place of this one. *)
NewTreeStep == DOMAIN pageList' = {} /\ RootsOnTop(parent')

(* Neither the pages nor the list change. *)
SamePagesStep == root' = root /\ kids' = kids /\ parent' = parent /\ pageList' = pageList

LEMMA GetPageHolds ==
  ASSUME TreeInv, TreePlaces, NEW pos, GetPage(pos)
  PROVE  HoldStep
<1>1. PICK found : found = FindPage(kids, CountedCache, pos)
  OBVIOUS
<1>2. /\ root # NoNode /\ pos \in 1..PageCount
      /\ pageList' = IF found.leaf = NoNode THEN pageList ELSE Filled(pageList, Entry(pos, found.leaf))
      /\ root' = root /\ kids' = kids /\ parent' = parent
  BY <1>1 DEF GetPage, tree
<1>3. /\ IsTree(kids) /\ PageCount = TrueCount(kids)[root] /\ PageCount \in Nat
      /\ TrueCache(kids, CountedCache) /\ root \in Roots /\ root \in Nodes
  BY <1>2, KnownCount DEF TreeInv, RightNodes
<1>4. PICK order, size : order = OrderBelow(kids) /\ size = TrueCount(kids)
  OBVIOUS
<1>5. found.leaf = order[root][pos]
  <2>1. KidsCount(kids, CountedCache) = TrueCount(kids) /\ pos \in 1..TrueCount(kids)[root]
    BY <1>2, <1>3, TrueCacheCounts
  <2> QED BY <1>1, <1>3, <1>4, <2>1, FindPageRight
<1>6. PICK leaf : leaf = order[root][pos]
  OBVIOUS
<1>7. leaf \in Leaves /\ leaf # NoNode /\ pos \in 1..size[root]
  <2>1. InOrder(kids, order, size)
    BY <1>3, <1>4, OrderIs
  <2>2. pos \in 1..size[root]
    BY <1>2, <1>3, <1>4
  <2>3. leaf \in Leaves
    BY <1>3, <1>4, <1>6, <2>1, <2>2, OrderBelongs
  <2> QED BY <2>2, <2>3, NodesApart
<1>8. pageList' = Filled(pageList, Entry(pos, leaf))
  BY <1>2, <1>5, <1>6, <1>7
<1>9. Placed(pageList, order[root], size[root])
  BY <1>2, <1>4 DEF TreePlaces, InPlace
<1>10. PICK list, o, l : list = Filled(pageList, Entry(pos, leaf)) /\ o = order[root] /\ l = size[root]
  OBVIOUS
<1>11. Placed(list, o, l) /\ Range(list) = Range(pageList) \cup {leaf}
  <2>1. Placed(pageList, o, l) /\ pos \in 1..l /\ o[pos] = leaf
    BY <1>6, <1>7, <1>9, <1>10
  <2> QED BY <1>10, <2>1, EntryPlaced
<1>12. pageList' = list
  BY <1>8, <1>10
<1>13. InPlace(kids, pageList')
  BY <1>4, <1>10, <1>11, <1>12 DEF InPlace
<1>14. \E p \in 1..TrueCount(kids)[root] : Range(pageList') = Range(pageList) \cup {OrderBelow(kids)[root][p]}
  <2>1. pos \in 1..TrueCount(kids)[root] /\ leaf = OrderBelow(kids)[root][pos]
    BY <1>4, <1>6, <1>7
  <2> QED BY <1>11, <1>12, <2>1
<1> QED BY <1>2, <1>13, <1>14 DEF HoldStep

(* What the theorems about places ask beyond right entries. *)
TopDocs == \A d \in Docs : RootsOnTop(d.parent)

(* What each step is. *)
LEMMA StepKinds ==
  ASSUME TreeInv, TreePlaces, FewPages, MayReplace = FALSE, TopDocs, [PageTreeNext]_treeVars
  PROVE  SamePagesStep \/ HoldStep \/ NewTreeStep \/ EditStep
<1>1. CASE UNCHANGED treeVars
  BY <1>1 DEF treeVars, tree, SamePagesStep
<1>2. CASE GetPageCount
  BY <1>2 DEF GetPageCount, tree, SamePagesStep
<1>3. CASE \E pos \in 1..PageCount : GetPage(pos)
  BY <1>3, GetPageHolds
<1>4. CASE \E leaf \in Leaves : \E pos \in 1..(PageCount + 1) : InsertPage(leaf, pos)
  BY <1>4, InsertPageEdits
<1>5. CASE \E pos \in 1..PageCount : RemovePage(pos)
  BY <1>5, RemovePageEdits
<1>6. CASE \E n \in Inner : \E i \in 1..MaxKids : \E new \in Leaves \cup Inters : AddKid(n, i, new)
  BY <1>6, AddKidEdits
<1>7. CASE \E n \in Inner : \E i \in 1..MaxKids : RemoveKid(n, i)
  BY <1>7, RemoveKidEdits
<1>8. CASE \E n \in Inner : \E i \in 1..MaxKids : \E new \in Leaves \cup Inters : ReplaceKid(n, i, new)
  BY <1>8, ReplaceKidEdits
<1>9. CASE \E n \in Inner : \E s \in Arrays : SetKids(n, s)
  BY <1>9, SetKidsEdits
<1>10. CASE \E r \in Roots \cup {NoNode} : SetRoot(r)
  BY <1>10 DEF SetRoot, NewTreeStep, NoEntries, TreePlaces
<1>11. CASE \E d \in Docs : ShowRevision(d)
  <2>1. PICK d \in Docs : ShowRevision(d)
    BY <1>11
  <2>2. parent' = d.parent /\ pageList' = NoEntries
    BY <2>1 DEF ShowRevision
  <2>3. RootsOnTop(parent')
    BY <2>2 DEF TopDocs
  <2> QED BY <2>2, <2>3 DEF NewTreeStep, NoEntries
<1> QED BY <1>1, <1>2, <1>3, <1>4, <1>5, <1>6, <1>7, <1>8, <1>9, <1>10, <1>11 DEF PageTreeNext

LEMMA PlacesKept ==
  ASSUME TreePlaces, SamePagesStep \/ HoldStep \/ NewTreeStep \/ EditStep
  PROVE  TreePlaces'
<1>1. CASE SamePagesStep
  BY <1>1 DEF SamePagesStep, TreePlaces, InPlace
<1>2. CASE HoldStep
  BY <1>2 DEF HoldStep, TreePlaces, InPlace
<1>3. CASE NewTreeStep
  BY <1>3 DEF NewTreeStep, TreePlaces, InPlace, Placed
<1>4. CASE EditStep
  <2>1. root # NoNode /\ root' = root /\ RootsOnTop(parent') /\ InPlace(kids', pageList')
    BY <1>4 DEF EditStep, EditTo
  <2> QED BY <2>1 DEF TreePlaces, InPlace
<1> QED BY <1>1, <1>2, <1>3, <1>4

LEMMA PlacesInit ==
  ASSUME TopDocs, PageTreeInit
  PROVE  TreePlaces
<1>1. PICK d \in Docs : parent = d.parent
  BY DEF PageTreeInit
<1>2. RootsOnTop(parent)
  BY <1>1 DEF TopDocs
<1>3. DOMAIN pageList = {}
  BY DEF PageTreeInit, NoEntries
<1> QED BY <1>2, <1>3 DEF TreePlaces, InPlace, Placed

LEMMA PlacesHold ==
  ASSUME TreeInv, TreePlaces
  PROVE  PagesInPlace
<1>1. CASE root = NoNode
  BY <1>1 DEF TreePlaces, PagesInPlace
<1>2. CASE root # NoNode
  <2>1. PICK order : order = PageOrder(root, kids)
    OBVIOUS
  <2>2. order = OrderBelow(kids)[root] /\ DOMAIN order = 1..TrueCount(kids)[root]
    BY <1>2, <2>1, PagesOf
  <2>3. Placed(pageList, order, TrueCount(kids)[root])
    BY <1>2, <2>2 DEF TreePlaces, InPlace
  <2> QED BY <2>1, <2>2, <2>3 DEF Placed, PagesInPlace
<1> QED BY <1>1, <1>2

(* What is asked of the documents, and of the program. *)
RightTops ==
    /\ RightDocs /\ TopDocs
    /\ FewPages /\ MayReplace = FALSE

LEMMA PlacesAlways ==
  ASSUME RightTops
  PROVE  PageTreeSpec => [](TreeInv /\ TreePlaces)
<1>1. RightDocs /\ TopDocs /\ FewPages /\ MayReplace = FALSE
  BY DEF RightTops
<1>2. PageTreeInit => TreeInv /\ TreePlaces
  BY <1>1, TreeInvInit, PlacesInit
<1>3. (TreeInv /\ TreePlaces) /\ [PageTreeNext]_treeVars => (TreeInv /\ TreePlaces)'
  <2> SUFFICES ASSUME TreeInv, TreePlaces, [PageTreeNext]_treeVars PROVE TreeInv' /\ TreePlaces'
    OBVIOUS
  <2>1. TreeInv'
    BY <1>1, TreeInvStep
  <2>2. SamePagesStep \/ HoldStep \/ NewTreeStep \/ EditStep
    BY <1>1, StepKinds
  <2>3. TreePlaces'
    BY <2>2, PlacesKept
  <2> QED BY <2>1, <2>3
<1> QED BY <1>2, <1>3, PTL DEF PageTreeSpec

(* A page the program has got stays at the position CPdf says, whatever    *)
(* comes or goes in front of it, one node or whole parts of the tree, as   *)
(* long as no array is replaced by another (consolidatePageList).          *)
THEOREM PagesAlwaysInPlace ==
  ASSUME RightDocs, TopDocs, FewPages, MayReplace = FALSE
  PROVE  PageTreeSpec => []PagesInPlace
<1>1. RightTops
  BY DEF RightTops
<1> QED BY <1>1, PlacesAlways, PlacesHold, PTL

-----------------------------------------------------------------------------
(* The pages as a sequence. *)

(* A part of a sequence: the w elements of s behind the a-th. *)
IsPart(t, s, a, w) ==
    /\ Len(t) = w
    /\ \A q \in 1..w : t[q] = s[a + q]
    /\ ToSet(t) = Came(s, a, w)

LEMMA PartOf ==
  ASSUME NEW S, NEW s \in Seq(S), NEW a \in Nat, NEW w \in Nat, NEW b, b = a + 1,
         NEW e, e = a + w, e <= Len(s)
  PROVE  SubSeq(s, b, e) \in Seq(S) /\ IsPart(SubSeq(s, b, e), s, a, w)
<1>1. b \in Int /\ e \in Int /\ (e - b) + 1 = w /\ (~(b <= e) => w = 0)
  OBVIOUS
<1>2. \A i \in b..e : s[i] \in S
  <2> SUFFICES ASSUME NEW i \in b..e PROVE s[i] \in S
    OBVIOUS
  <2>1. i \in 1..Len(s)
    BY <1>1
  <2> QED BY <2>1, ElementOfSeq
<1>3. PICK t : t = SubSeq(s, b, e)
  OBVIOUS
<1>4. /\ t \in Seq(S)
      /\ Len(t) = (IF b <= e THEN (e - b) + 1 ELSE 0)
      /\ \A q \in 1..((e - b) + 1) : t[q] = s[(b + q) - 1]
  BY <1>1, <1>2, <1>3, SubSeqProperties
<1>5. Len(t) = w /\ \A q \in 1..w : t[q] = s[(b + q) - 1]
  BY <1>1, <1>4
<1>6. \A q \in 1..w : (b + q) - 1 = a + q
  OBVIOUS
<1>7. \A q \in 1..w : t[q] = s[a + q]
  BY <1>5, <1>6
<1>8. ToSet(t) = Came(s, a, w)
  <2>1. DOMAIN t = 1..w
    BY <1>4, <1>5, LenProperties
  <2> QED BY <1>7, <2>1 DEF ToSet, Came
<1> QED BY <1>3, <1>4, <1>5, <1>7, <1>8 DEF IsPart

LEMMA PartIs ==
  ASSUME NEW S, NEW s \in Seq(S), NEW a \in Nat, NEW w \in Nat, NEW b, b = a + 1,
         NEW e, e = a + w, e <= Len(s), NEW t, t = SubSeq(s, b, e)
  PROVE  t \in Seq(S) /\ IsPart(t, s, a, w)
BY PartOf

(* Three parts, one behind the other. *)
InTurn(t, x, y, z, a, b, c) ==
    /\ Len(t) = (a + b) + c
    /\ \A q \in 1..((a + b) + c) :
          t[q] = IF q <= a THEN x[q] ELSE IF q <= a + b THEN y[q - a] ELSE z[q - (a + b)]

LEMMA ThreeParts ==
  ASSUME NEW S, NEW x \in Seq(S), NEW y \in Seq(S), NEW z \in Seq(S),
         NEW a \in Nat, a = Len(x), NEW b \in Nat, b = Len(y), NEW c \in Nat, c = Len(z)
  PROVE  x \o y \o z \in Seq(S) /\ InTurn(x \o y \o z, x, y, z, a, b, c)
<1>1. PICK u, v : u = x \o y /\ v = u \o z
  OBVIOUS
<1>2. /\ u \in Seq(S) /\ Len(u) = a + b
      /\ \A q \in 1..(a + b) : u[q] = IF q <= a THEN x[q] ELSE y[q - a]
  BY <1>1, ConcatProperties
<1>3. PICK d \in Nat : d = a + b
  OBVIOUS
<1>4. /\ v \in Seq(S) /\ Len(v) = d + c
      /\ \A q \in 1..(d + c) : v[q] = IF q <= d THEN u[q] ELSE z[q - d]
  BY <1>1, <1>2, <1>3, ConcatProperties
<1>5. ASSUME NEW q \in 1..(d + c)
      PROVE  v[q] = IF q <= a THEN x[q] ELSE IF q <= d THEN y[q - a] ELSE z[q - d]
  <2>1. CASE q <= d
    <3>1. q \in 1..(a + b) /\ v[q] = u[q]
      BY <1>3, <1>4, <1>5, <2>1
    <3>2. u[q] = IF q <= a THEN x[q] ELSE y[q - a]
      BY <1>2, <3>1
    <3> QED BY <2>1, <3>1, <3>2
  <2>2. CASE ~(q <= d)
    <3>1. v[q] = z[q - d]
      BY <1>4, <1>5, <2>2
    <3>2. ~(q <= a)
      BY <1>3, <1>5, <2>2
    <3> QED BY <2>2, <3>1, <3>2
  <2> QED BY <2>1, <2>2
<1> QED BY <1>1, <1>3, <1>4, <1>5 DEF InTurn

(* The parts of s1: those of s0 in front and behind, and between them      *)
(* what has come.                                                          *)
SplicedAt(s0, l0, s1, a, w0, w1, j, e) ==
    /\ s1 = SubSeq(s0, 1, a) \o SubSeq(s1, a + 1, e) \o SubSeq(s0, j + 1, l0)
    /\ ToSet(SubSeq(s0, a + 1, j)) = Came(s0, a, w0)
    /\ ToSet(SubSeq(s1, a + 1, e)) = Came(s1, a, w1)

LEMMA SegmentParts ==
  ASSUME NEW S, NEW s0 \in Seq(S), NEW s1 \in Seq(S), NEW l0, l0 = Len(s0), NEW l1, l1 = Len(s1),
         NEW a \in Nat, NEW w0 \in Nat, NEW w1 \in Nat, Segment(s0, l0, s1, l1, a, a + w0, a + w1),
         NEW j, j = a + w0, NEW e, e = a + w1
  PROVE  SplicedAt(s0, l0, s1, a, w0, w1, j, e)
<1>1. /\ l0 \in Nat /\ l1 \in Nat /\ a <= j /\ j <= l0 /\ e <= l1 /\ l1 - e = l0 - j
      /\ \A i \in 1..a : s1[i] = s0[i]
      /\ \A i \in 1..(l0 - j) : s1[e + i] = s0[j + i]
  BY DEF Segment
<1>4. PICK c \in Nat : c = l0 - j
  <2>1. l0 - j \in Nat
    BY <1>1
  <2> QED BY <2>1
<1>5. j \in Nat /\ e \in Nat /\ j + c = l0 /\ e + c = l1
  <2>1. j \in Nat /\ e \in Nat /\ l0 \in Nat /\ l1 \in Nat /\ l1 - e = l0 - j
    BY <1>1
  <2> QED BY <1>4, <2>1, SMTT(60)
<1>13. PICK x, y, z : x = SubSeq(s0, 1, a) /\ y = SubSeq(s1, a + 1, e) /\ z = SubSeq(s0, j + 1, l0)
  OBVIOUS
<1>2. x \in Seq(S) /\ Len(x) = a /\ \A q \in 1..a : x[q] = s0[q]
  <2>1. PICK o, b : o = 0 /\ b = 1
    OBVIOUS
  <2>2. o \in Nat /\ b = o + 1 /\ a = o + a /\ a <= Len(s0) /\ x = SubSeq(s0, b, a)
    BY <1>1, <1>13, <2>1
  <2>3. x \in Seq(S) /\ IsPart(x, s0, o, a)
    BY <2>2, PartIs
  <2>4. Len(x) = a /\ \A q \in 1..a : x[q] = s0[o + q]
    BY <2>3 DEF IsPart
  <2>5. \A q \in 1..a : o + q = q
    BY <2>1
  <2> QED BY <2>3, <2>4, <2>5
<1>3. y \in Seq(S) /\ IsPart(y, s1, a, w1)
  <2>1. PICK b : b = a + 1
    OBVIOUS
  <2>2. e = a + w1 /\ e <= Len(s1) /\ y = SubSeq(s1, b, e)
    BY <1>1, <1>13, <2>1
  <2> QED BY <2>1, <2>2, PartIs
<1>6. z \in Seq(S) /\ IsPart(z, s0, j, c)
  <2>1. PICK b : b = j + 1
    OBVIOUS
  <2>2. j \in Nat /\ l0 = j + c /\ l0 <= Len(s0) /\ z = SubSeq(s0, b, l0)
    BY <1>1, <1>5, <1>13, <2>1
  <2> QED BY <2>1, <2>2, PartIs
<1>7. ToSet(SubSeq(s0, a + 1, j)) = Came(s0, a, w0)
  <2>1. PICK b, p : b = a + 1 /\ p = SubSeq(s0, b, j)
    OBVIOUS
  <2>2. j = a + w0 /\ j <= Len(s0)
    BY <1>1
  <2>3. p \in Seq(S) /\ IsPart(p, s0, a, w0)
    BY <2>1, <2>2, PartIs
  <2> QED BY <2>1, <2>3 DEF IsPart
<1>8. PICK t : t = x \o y \o z
  OBVIOUS
<1>9. t \in Seq(S) /\ InTurn(t, x, y, z, a, w1, c)
  <2>1. Len(x) = a /\ Len(y) = w1 /\ Len(z) = c
    BY <1>2, <1>3, <1>6 DEF IsPart
  <2>2. x \in Seq(S) /\ y \in Seq(S) /\ z \in Seq(S) /\ a = Len(x) /\ w1 = Len(y) /\ c = Len(z)
    BY <1>2, <1>3, <1>6, <2>1
  <2>3. x \o y \o z \in Seq(S) /\ InTurn(x \o y \o z, x, y, z, a, w1, c)
    BY <2>2, ThreeParts
  <2> QED BY <1>8, <2>3
<1>10. ASSUME NEW q \in 1..l1 PROVE t[q] = s1[q]
  <2>1. q \in 1..((a + w1) + c)
    BY <1>5, <1>10
  <2>2. CASE q <= a
    <3>1. q \in 1..a
      BY <2>1, <2>2
    <3>2. t[q] = x[q]
      BY <1>9, <2>1, <2>2 DEF InTurn
    <3> QED BY <1>1, <1>2, <3>1, <3>2
  <2>3. CASE ~(q <= a) /\ q <= e
    <3>1. PICK i : i = q - a
      OBVIOUS
    <3>2. i \in 1..w1 /\ a + i = q
      BY <2>1, <2>3, <3>1
    <3>3. t[q] = y[i]
      BY <1>9, <2>1, <2>3, <3>1 DEF InTurn
    <3> QED BY <1>3, <3>2, <3>3 DEF IsPart
  <2>4. CASE ~(q <= a) /\ ~(q <= e)
    <3>1. PICK i : i = q - e
      OBVIOUS
    <3>2. i \in 1..c /\ e + i = q
      BY <1>5, <1>10, <2>4, <3>1
    <3>3. t[q] = z[i]
      BY <1>9, <2>1, <2>4, <3>1 DEF InTurn
    <3>4. s1[e + i] = s0[j + i]
      BY <1>1, <1>4, <3>2
    <3> QED BY <1>6, <3>2, <3>3, <3>4 DEF IsPart
  <2> QED BY <2>2, <2>3, <2>4
<1>11. Len(t) = l1
  BY <1>5, <1>9 DEF InTurn
<1>12. t = s1
  BY <1>1, <1>9, <1>10, <1>11, SameSeq
<1> QED BY <1>3, <1>7, <1>8, <1>12, <1>13 DEF IsPart, SplicedAt

(* A sequence of different pages has as many as it is long. *)
LEMMA DifferentPages ==
  ASSUME NEW S, NEW s \in Seq(S), \A p \in DOMAIN s, q \in DOMAIN s : s[p] = s[q] => p = q
  PROVE  Cardinality(ToSet(s)) = Len(s)
<1>1. PICK l \in Nat : l = Len(s)
  OBVIOUS
<1>2. DOMAIN s = 1..l
  BY <1>1
<1>3. PICK T : T = ToSet(s)
  OBVIOUS
<1>4. T = {s[p] : p \in 1..l}
  BY <1>2, <1>3 DEF ToSet
<1>5. PICK f : f = [p \in 1..l |-> s[p]]
  OBVIOUS
<1>6. f \in [1..l -> T] /\ DOMAIN f = 1..l
  BY <1>4, <1>5
<1>7. IsInjective(f)
  <2>1. \A p \in 1..l, q \in 1..l : f[p] = f[q] => p = q
    BY <1>2, <1>5
  <2> QED BY <1>6, <2>1 DEF IsInjective
<1>8. \A t \in T : \E p \in 1..l : f[p] = t
  BY <1>4, <1>5
<1>9. f \in Bijection(1..l, T)
  BY <1>6, <1>7, <1>8 DEF Bijection, Injection, Surjection
<1>10. IsFiniteSet(1..l) /\ Cardinality(1..l) = l
  BY FS_Interval
<1>11. Cardinality(T) = Cardinality(1..l)
  <2>1. ExistsBijection(1..l, T)
    BY <1>9 DEF ExistsBijection
  <2> QED BY <1>10, <2>1, FS_Bijection
<1> QED BY <1>1, <1>3, <1>10, <1>11

(* What is known of the pages of a tree. *)
LEMMA PagesIn ==
  ASSUME NEW r \in Roots, NEW k, IsTree(k), NEW order, order = PageOrder(r, k)
  PROVE  /\ order = OrderBelow(k)[r] /\ order \in Seq(Leaves)
         /\ Len(order) = TrueCount(k)[r] /\ DOMAIN order = 1..TrueCount(k)[r]
         /\ \A p \in DOMAIN order, q \in DOMAIN order : order[p] = order[q] => p = q
<1>1. r \in Nodes /\ r # NoNode
  BY NodesApart DEF Inner
<1>2. order = OrderBelow(k)[r]
  BY <1>1, PageOrderIs
<1>3. PICK all, size : all = OrderBelow(k) /\ size = TrueCount(k)
  OBVIOUS
<1>4. InOrder(k, all, size)
  BY <1>3, OrderIs
<1>5. order \in Seq(Leaves) /\ Len(order) = size[r]
  BY <1>1, <1>2, <1>3, <1>4 DEF InOrder
<1>6. DOMAIN order = 1..size[r]
  BY <1>5
<1>7. \A p \in 1..size[r], q \in 1..size[r] : all[r][p] = all[r][q] => p = q
  BY <1>1, <1>4, OrderOnce
<1> QED BY <1>2, <1>3, <1>5, <1>6, <1>7

LEMMA PagesDocument ==
  ASSUME NEW r \in Roots \cup {NoNode}, NEW k, IsTree(k)
  PROVE  Sequence!IsDocument(PageOrder(r, k))
<1>1. PICK order : order = PageOrder(r, k)
  OBVIOUS
<1>2. order \in Seq(Leaves) /\ \A p \in DOMAIN order, q \in DOMAIN order : order[p] = order[q] => p = q
  <2>1. CASE r = NoNode
    <3>1. order = <<>>
      BY <1>1, <2>1, PageOrderIs
    <3>2. DOMAIN order = {}
      BY <3>1
    <3> QED BY <3>1, <3>2
  <2>2. CASE r # NoNode
    BY <1>1, <2>2, PagesIn
  <2> QED BY <2>1, <2>2
<1>3. Cardinality(ToSet(order)) = Len(order)
  BY <1>2, DifferentPages
<1>4. Sequence!ToSet(order) = ToSet(order)
  BY DEF Sequence!ToSet, ToSet
<1>5. Sequence!Cardinality(ToSet(order)) = Cardinality(ToSet(order))
  BY Zenon DEF Sequence!Cardinality, Cardinality
<1> QED BY <1>1, <1>2, <1>3, <1>4, <1>5 DEF Sequence!IsDocument

(* The pages that are left are those that are not cut out. *)
LEMMA LeftIs ==
  ASSUME NEW list, NEW s, NEW l \in Nat, Placed(list, s, l), NEW a \in Nat, NEW w \in Nat, NEW e, e = a + w,
         e <= l, \A p \in 1..l, q \in 1..l : s[p] = s[q] => p = q
  PROVE  Left(list, a, w) = Range(list) \ Came(s, a, w)
<1>1. PICK kept : kept = Uncut(list, a, w)
  OBVIOUS
<1>2. kept = {p \in DOMAIN list : p <= a \/ e < p}
  BY <1>1 DEF Uncut
<1>3. Left(list, a, w) = {list[p] : p \in kept}
  <2>1. PICK f : f = Restrict(list, kept)
    OBVIOUS
  <2>2. DOMAIN f = kept /\ \A p \in kept : f[p] = list[p]
    BY <2>1 DEF Restrict
  <2>3. Range(f) = {list[p] : p \in kept}
    BY <2>2 DEF Range
  <2> QED BY <1>1, <2>1, <2>3 DEF Left
<1>4. \A p \in DOMAIN list : p \in 1..l /\ list[p] = s[p]
  BY DEF Placed
<1>5. ASSUME NEW x \in Left(list, a, w) PROVE x \in Range(list) \ Came(s, a, w)
  <2>1. PICK p \in kept : x = list[p]
    BY <1>3, <1>5
  <2>2. p \in DOMAIN list /\ p \in 1..l /\ x = s[p] /\ (p <= a \/ e < p)
    BY <1>2, <1>4, <2>1
  <2>3. ASSUME NEW q \in 1..w PROVE x # s[a + q]
    <3>1. a + q \in 1..l /\ a + q # p
      BY <2>2, <2>3
    <3> QED BY <2>2, <3>1
  <2>4. x \in Range(list)
    BY <2>1, <2>2 DEF Range
  <2> QED BY <2>3, <2>4 DEF Came
<1>6. ASSUME NEW x \in Range(list) \ Came(s, a, w) PROVE x \in Left(list, a, w)
  <2>1. PICK p \in DOMAIN list : x = list[p]
    BY <1>6 DEF Range
  <2>2. p \in 1..l /\ x = s[p]
    BY <1>4, <2>1
  <2>3. ASSUME a < p, p <= e PROVE FALSE
    <3>1. PICK q : q = p - a
      OBVIOUS
    <3>2. q \in 1..w /\ a + q = p
      BY <2>2, <2>3, <3>1
    <3>3. x \in Came(s, a, w)
      BY <2>2, <3>2 DEF Came
    <3> QED BY <1>6, <3>3
  <2>4. p <= a \/ e < p
    BY <2>2, <2>3
  <2> QED BY <1>2, <1>3, <2>1, <2>4
<1> QED BY <1>5, <1>6

(* An edit of the tree is one of the sequence. *)
LEMMA EditIsEdit ==
  ASSUME TreeInv, TreeInv', TreePlaces, EditStep
  PROVE  Sequence!Edit
<1>1. root # NoNode /\ root' = root /\ EditTo(kids', pageList')
  BY DEF EditStep
<1>2. root \in Roots /\ IsTree(kids) /\ IsTree(kids') /\ InPlace(kids, pageList)
  BY <1>1 DEF TreeInv, RightNodes, TreePlaces
<1>3. PICK s0, l0, s1, l1 : /\ s0 = PageOrder(root, kids) /\ l0 = TrueCount(kids)[root]
                            /\ s1 = PageOrder(root, kids') /\ l1 = TrueCount(kids')[root]
  OBVIOUS
<1>4. /\ s0 = OrderBelow(kids)[root] /\ s0 \in Seq(Leaves) /\ Len(s0) = l0 /\ DOMAIN s0 = 1..l0
      /\ \A p \in DOMAIN s0, q \in DOMAIN s0 : s0[p] = s0[q] => p = q
  BY <1>2, <1>3, PagesIn
<1>5. s1 = OrderBelow(kids')[root] /\ s1 \in Seq(Leaves) /\ Len(s1) = l1
  <2>1. PICK k : k = kids'
    OBVIOUS
  <2>2. IsTree(k) /\ s1 = PageOrder(root, k)
    BY <1>2, <1>3, <2>1
  <2>3. s1 = OrderBelow(k)[root] /\ s1 \in Seq(Leaves) /\ Len(s1) = TrueCount(k)[root]
    BY <1>2, <2>2, PagesIn
  <2> QED BY <1>3, <2>1, <2>3
<1>6. PICK a, w0, w1 : /\ a \in Nat /\ w0 \in Nat /\ w1 \in Nat
                       /\ Segment(s0, l0, s1, l1, a, a + w0, a + w1) /\ AllNew(s0, l0, s1, a, w1)
                       /\ \/ Range(pageList') = Left(pageList, a, w0)
                          \/ Range(pageList') = Left(pageList, a, w0) \cup Came(s1, a, w1)
  BY <1>1, <1>3, <1>4, <1>5, ZenonT(60) DEF EditTo
<1>7. PICK j \in Nat, e \in Nat : j = a + w0 /\ e = a + w1
  BY <1>6
<1>8. SplicedAt(s0, l0, s1, a, w0, w1, j, e)
  <2>1. l0 = Len(s0) /\ l1 = Len(s1)
    BY <1>4, <1>5
  <2> QED BY <1>4, <1>5, <1>6, <1>7, <2>1, SegmentParts
<1>9. a \in 0..l0 /\ j \in a..l0 /\ (j + l1) - l0 = e /\ l0 \in Nat /\ l1 \in Nat
  <2>1. l0 \in Nat /\ l1 \in Nat /\ a <= j /\ j <= l0 /\ l1 - e = l0 - j
    BY <1>6, <1>7 DEF Segment
  <2> QED BY <1>6, <1>7, <2>1
<1>10. Left(pageList, a, w0) = Range(pageList) \ Came(s0, a, w0)
  <2>1. Placed(pageList, s0, l0)
    BY <1>2, <1>3, <1>4 DEF InPlace
  <2>2. j = a + w0 /\ j <= l0
    BY <1>7, <1>9
  <2>3. \A p \in 1..l0, q \in 1..l0 : s0[p] = s0[q] => p = q
    BY <1>4
  <2>4. a \in Nat /\ w0 \in Nat /\ l0 \in Nat
    BY <1>6, <1>9
  <2> QED BY <2>1, <2>2, <2>3, <2>4, LeftIs
<1>11. Came(s1, a, w1) \cap ToSet(s0) = {}
  <2>1. \A x \in ToSet(s0) : \E p \in 1..l0 : x = s0[p]
    BY <1>4 DEF ToSet
  <2>2. ASSUME NEW x \in Came(s1, a, w1), x \in ToSet(s0) PROVE FALSE
    <3>1. PICK q \in 1..w1 : x = s1[a + q]
      BY <2>2 DEF Came
    <3>2. PICK p \in 1..l0 : x = s0[p]
      BY <2>1, <2>2
    <3> QED BY <1>6, <3>1, <3>2 DEF AllNew
  <2> QED BY <2>2
<1>12. PICK cut, added : cut = SubSeq(s0, a + 1, j) /\ added = SubSeq(s1, a + 1, (j + l1) - l0)
  OBVIOUS
<1>13. /\ s1 = SubSeq(s0, 1, a) \o added \o SubSeq(s0, j + 1, l0)
       /\ ToSet(cut) = Came(s0, a, w0) /\ ToSet(added) = Came(s1, a, w1)
  BY <1>8, <1>9, <1>12 DEF SplicedAt
<1>14. PICK held, next : held = Range(pageList) /\ next = Range(pageList')
  OBVIOUS
<1>15. ToSet(added) \cap ToSet(s0) = {} /\ next \in {held \ ToSet(cut), (held \ ToSet(cut)) \cup ToSet(added)}
  BY <1>6, <1>10, <1>11, <1>13, <1>14
<1>16. \A t : Sequence!ToSet(t) = ToSet(t)
  BY DEF Sequence!ToSet, ToSet
<1>17. Sequence!IsSplice(s0, s1, a, j, added)
  BY <1>4, <1>13, <1>15, <1>16 DEF Sequence!IsSplice
<1>18. Sequence!SpliceOf(s0, s1)
  <2>1. a \in 0..Len(s0) /\ j \in a..Len(s0) /\ added = SubSeq(s1, a + 1, j + Len(s1) - Len(s0))
    BY <1>4, <1>5, <1>9, <1>12
  <2>2. Range(pageList)' \in {Range(pageList) \ Sequence!ToSet(SubSeq(s0, a + 1, j)),
                             (Range(pageList) \ Sequence!ToSet(SubSeq(s0, a + 1, j))) \cup Sequence!ToSet(added)}
    BY <1>12, <1>14, <1>15, <1>16
  <2> QED BY <1>17, <2>1, <2>2 DEF Sequence!SpliceOf
<1>19. PageOrder(root, kids)' = s1
  BY <1>1, <1>3
<1> QED BY <1>3, <1>18, <1>19 DEF Sequence!Edit

LEMMA HoldIsHold ==
  ASSUME TreeInv, HoldStep
  PROVE  Sequence!Hold
<1>1. root # NoNode /\ root' = root /\ kids' = kids
  BY DEF HoldStep
<1>2. root \in Roots /\ IsTree(kids)
  BY <1>1 DEF TreeInv, RightNodes
<1>3. PICK s, l : s = PageOrder(root, kids) /\ l = TrueCount(kids)[root]
  OBVIOUS
<1>4. s = OrderBelow(kids)[root] /\ DOMAIN s = 1..l
  BY <1>2, <1>3, PagesIn
<1>5. PICK p \in 1..l : Range(pageList') = Range(pageList) \cup {s[p]}
  BY <1>3, <1>4 DEF HoldStep
<1>6. s[p] \in Sequence!ToSet(s)
  BY <1>4 DEF Sequence!ToSet
<1>7. Range(pageList)' = Range(pageList) \cup {s[p]}
  BY <1>5
<1>8. PageOrder(root, kids)' = PageOrder(root, kids)
  BY <1>1
<1> QED BY <1>3, <1>6, <1>7, <1>8 DEF Sequence!Hold

LEMMA NoneHeld ==
  ASSUME NEW list, DOMAIN list = {}
  PROVE  Range(list) = {}
BY DEF Range

LEMMA NewTreeReplaces ==
  ASSUME TreeInv', NewTreeStep
  PROVE  Sequence!Replace
<1>1. DOMAIN pageList' = {}
  BY DEF NewTreeStep
<1>2. Range(pageList') = {}
  BY <1>1, NoneHeld
<1>3. root' \in Roots \cup {NoNode} /\ IsTree(kids')
  BY DEF TreeInv, RightNodes
<1>4. PICK r, k : r = root' /\ k = kids'
  OBVIOUS
<1>5. Sequence!IsDocument(PageOrder(r, k))
  BY <1>3, <1>4, PagesDocument
<1>6. Sequence!IsDocument(PageOrder(root, kids)')
  BY <1>4, <1>5
<1> QED BY <1>2, <1>6 DEF Sequence!Replace

LEMMA SamePagesStutter ==
  ASSUME SamePagesStep
  PROVE  UNCHANGED Sequence!pageVars
BY DEF SamePagesStep, Sequence!pageVars

LEMMA SequenceStep ==
  ASSUME RightTops, TreeInv /\ TreePlaces, (TreeInv /\ TreePlaces)', [PageTreeNext]_treeVars
  PROVE  [Sequence!PagesNext]_(Sequence!pageVars)
<1>1. RightDocs /\ TopDocs /\ FewPages /\ MayReplace = FALSE
  BY DEF RightTops
<1>2. SamePagesStep \/ HoldStep \/ NewTreeStep \/ EditStep
  BY <1>1, StepKinds
<1>3. TreeInv' /\ TreePlaces'
  OBVIOUS
<1>4. CASE SamePagesStep
  BY <1>4, SamePagesStutter
<1>5. CASE HoldStep
  BY <1>5, HoldIsHold DEF Sequence!PagesNext
<1>6. CASE NewTreeStep
  BY <1>3, <1>6, NewTreeReplaces DEF Sequence!PagesNext
<1>7. CASE EditStep
  BY <1>3, <1>7, EditIsEdit DEF Sequence!PagesNext
<1> QED BY <1>2, <1>4, <1>5, <1>6, <1>7

LEMMA SequenceInit ==
  ASSUME RightTops, PageTreeInit
  PROVE  Sequence!PagesInit
<1>1. TreeInv
  BY TreeInvInit DEF RightTops
<1>2. root \in Roots \cup {NoNode} /\ IsTree(kids)
  BY <1>1 DEF TreeInv, RightNodes
<1>3. DOMAIN pageList = {}
  BY DEF PageTreeInit, NoEntries
<1>4. Range(pageList) = {}
  BY <1>3, NoneHeld
<1> QED BY <1>2, <1>4, PagesDocument DEF Sequence!PagesInit

(* With its tree, its list and its caches CPdf is a sequence of pages:     *)
(* each operation and each notification cuts out or brings in one part of  *)
(* it and holds on to all other pages, or does nothing that can be seen.   *)
THEOREM ImplementsPageSequence ==
  ASSUME RightDocs, TopDocs, FewPages, MayReplace = FALSE
  PROVE  PageTreeSpec => ImplementsSequence
<1>1. PageTreeInit /\ RightTops => Sequence!PagesInit
  BY SequenceInit
<1>2. RightTops /\ (TreeInv /\ TreePlaces) /\ (TreeInv /\ TreePlaces)' /\ [PageTreeNext]_treeVars
        => [Sequence!PagesNext]_(Sequence!pageVars)
  BY SequenceStep
<1>3. RightTops
  BY DEF RightTops
<1>4. PageTreeSpec => [](TreeInv /\ TreePlaces)
  BY <1>3, PlacesAlways
<1> QED BY <1>1, <1>2, <1>3, <1>4, PTL DEF PageTreeSpec, ImplementsSequence, Sequence!PagesSpec

=============================================================================
