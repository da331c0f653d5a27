------------------------ MODULE ContentStreamProofs -------------------------
(***************************************************************************)
(* Proofs about content streams: what is read is a tree in which every     *)
(* operator hangs below an older one, the walk through it comes to an end  *)
(* and meets operators only, and every edit leaves such a tree.  The walk  *)
(* through what was read spells what was read (ParsedSpelled).             *)
(*                                                                         *)
(* An edit of CContentStream changes the kids of one operator and a few    *)
(* links, and nowhere says what it makes of the walk or of the word.  In   *)
(* the second half it is worked out, in this order:                        *)
(*   - the walk after a change of the kids of one operator is the walk     *)
(*     before it with one place changed, however deep that operator is     *)
(*     (PlaceChanged), and new operators are walked in the order of their  *)
(*     word;                                                               *)
(*   - links that lead along a sequence, edited at one place, lead along   *)
(*     the sequence edited there (ChainedPut), and the list that follows   *)
(*     them is that sequence: it ends, for ranks fall along it (ListAlong);*)
(*   - so each edit leaves a list that leads along the walk (Listed), and  *)
(*     the word changes in one place (DeletedWord and its like).           *)
(***************************************************************************)
EXTENDS ContentStream, SequenceFacts

-----------------------------------------------------------------------------
(* A word and the composites that are open in it.                          *)

(* b is what is open before each of the first k operators of w and behind  *)
(* them.                                                                   *)
Opened(b, w, k) ==
    /\ b \in Seq(Seq(Nat)) /\ Len(b) = k + 1
    /\ b[1] = <<>>
    /\ \A i \in 1..k : b[i + 1] = OpenAfter(b[i], w, i)
    /\ \A i \in 1..(k + 1) : b[i] \in Seq(1..(i - 1))

(* An operator opens or closes composites of those there are.              *)
LEMMA OpenAfterType ==
  ASSUME NEW T, NEW open \in Seq(T), NEW w, NEW i \in T
  PROVE  OpenAfter(open, w, i) \in Seq(T)
<1>1. Append(open, i) \in Seq(T)
  BY AppendProperties
<1>2. open # <<>> => Front(open) \in Seq(T)
  <2> SUFFICES ASSUME open # <<>> PROVE Front(open) \in Seq(T)
    OBVIOUS
  <2>1. PICK n \in Nat : n = Len(open)
    BY LenProperties
  <2>2. \A k \in 1..(n - 1) : open[k] \in T
    BY <2>1, ElementOfSeq
  <2>3. 1 \in Int /\ n - 1 \in Int
    BY <2>1
  <2> QED BY <2>1, <2>2, <2>3, SubSeqProperties DEF Front
<1> QED BY <1>1, <1>2 DEF OpenAfter

(* OpenBefore is a fixed point of this.                                    *)
BeforeStep(w, n, f) == [i \in 1..(n + 1) |-> IF i = 1 THEN << <<>> >> ELSE WithNext(f[i - 1], w, i - 1)]

(* There is one.                                                           *)
LEMMA BeforeExists ==
  ASSUME NEW w, NEW n \in Nat
  PROVE  \E h : h = BeforeStep(w, n, h)
<1> DEFINE X == Seq(Seq(Nat)) \ {<<>>}
<1> DEFINE g == [i \in 1..n |-> [b \in X |-> WithNext(b, w, i)]]
<1>1. << <<>> >> \in X
  OBVIOUS
<1>2. ASSUME NEW i \in 1..n, NEW b \in X PROVE WithNext(b, w, i) \in X
  <2>1. b \in Seq(Seq(Nat)) /\ Len(b) \in 1..Len(b)
    BY EmptySeq
  <2>2. Last(b) \in Seq(Nat)
    BY <2>1, ElementOfSeq DEF Last
  <2>3. OpenAfter(Last(b), w, i) \in Seq(Nat)
    BY <2>2, OpenAfterType
  <2>4. Append(b, OpenAfter(Last(b), w, i)) \in Seq(Seq(Nat))
    BY <2>1, <2>3, AppendProperties
  <2>5. Append(b, OpenAfter(Last(b), w, i)) # <<>>
    BY <2>1, <2>3, AppendProperties
  <2> QED BY <2>4, <2>5 DEF WithNext
<1>3. g \in [1..n -> [X -> X]]
  BY <1>2
<1>4. \A i \in 1..n, b \in X : g[i][b] = WithNext(b, w, i)
  OBVIOUS
<1> HIDE DEF g, X
<1>5. PICK f : Iterates(f, n, X, << <<>> >>, g)
  BY <1>1, <1>3, IterateExists
<1>6. f \in [0..n -> X] /\ f[0] = << <<>> >> /\ \A i \in 1..n : f[i] = g[i][f[i - 1]]
  BY <1>5 DEF Iterates
<1>7. ASSUME NEW i \in 1..n PROVE f[i] = WithNext(f[i - 1], w, i)
  <2>1. i - 1 \in 0..n
    OBVIOUS
  <2>2. f[i - 1] \in X
    BY <1>6, <2>1
  <2> QED BY <1>4, <1>6, <2>2
<1>8. PICK h : h = [i \in 1..(n + 1) |-> f[i - 1]]
  OBVIOUS
<1>9. ASSUME NEW i \in 1..(n + 1)
      PROVE  h[i] = IF i = 1 THEN << <<>> >> ELSE WithNext(h[i - 1], w, i - 1)
  <2>1. h[i] = f[i - 1]
    BY <1>8
  <2>2. CASE i = 1
    BY <1>6, <2>1, <2>2
  <2>3. CASE i # 1
    <3>1. i - 1 \in 1..n /\ i - 1 \in 1..(n + 1)
      BY <2>3
    <3>2. h[i - 1] = f[(i - 1) - 1]
      BY <1>8, <3>1
    <3>3. f[i - 1] = WithNext(f[(i - 1) - 1], w, i - 1)
      BY <1>7, <3>1
    <3> QED BY <2>1, <2>3, <3>2, <3>3
  <2> QED BY <2>2, <2>3
<1>10. h = [i \in 1..(n + 1) |-> h[i]]
  BY <1>8
<1>11. h = BeforeStep(w, n, h)
  BY <1>9, <1>10 DEF BeforeStep
<1> QED BY <1>11

(* Parsing can be told operator by operator.                               *)
LEMMA OpenBeforeOpened ==
  ASSUME NEW w \in Seq(Operators), NEW n \in Nat, Len(w) = n
  PROVE  Opened(OpenBefore(w), w, n)
<1> DEFINE c == CHOOSE h : h = BeforeStep(w, n, h)
<1>1. c = BeforeStep(w, n, c)
  BY BeforeExists
<1>2. OpenBefore(w) = c[n + 1]
  BY DEF OpenBefore, BeforeStep
<1> HIDE DEF c
<1>3. \A i \in 1..(n + 1) : c[i] = IF i = 1 THEN << <<>> >> ELSE WithNext(c[i - 1], w, i - 1)
  BY <1>1 DEF BeforeStep
<1> DEFINE X == {k \in 0..n : Opened(c[k + 1], w, k)}
<1>4. 0 \in X
  <2>1. PICK b : b = << <<>> >>
    OBVIOUS
  <2>2. b \in Seq(Seq(Nat)) /\ Len(b) = 0 + 1 /\ b[1] = <<>>
    BY <2>1
  <2>3. \A i \in 1..(0 + 1) : b[i] \in Seq(1..(i - 1))
    BY <2>2
  <2>4. Opened(b, w, 0)
    BY <2>2, <2>3 DEF Opened
  <2>5. c[0 + 1] = b
    BY <1>3, <2>1
  <2> QED BY <2>4, <2>5
<1>5. ASSUME NEW k \in 0..(n - 1), k \in X PROVE k + 1 \in X
  <2>1. PICK b : b = c[k + 1]
    OBVIOUS
  <2>2. Opened(b, w, k)
    BY <1>5, <2>1
  <2>3. /\ b \in Seq(Seq(Nat)) /\ Len(b) = k + 1 /\ b[1] = <<>>
        /\ \A i \in 1..k : b[i + 1] = OpenAfter(b[i], w, i)
        /\ \A i \in 1..(k + 1) : b[i] \in Seq(1..(i - 1))
    BY <2>2 DEF Opened
  <2>4. PICK e : e = OpenAfter(b[k + 1], w, k + 1)
    OBVIOUS
  <2>5. e \in Seq(1..(k + 1))
    <3>1. b[k + 1] \in Seq(1..k)
      <4>1. k + 1 \in 1..(k + 1) /\ (k + 1) - 1 = k
        OBVIOUS
      <4> QED BY <2>3, <4>1
    <3>2. 1..k \subseteq 1..(k + 1) /\ k + 1 \in 1..(k + 1)
      OBVIOUS
    <3>3. b[k + 1] \in Seq(1..(k + 1))
      BY <3>1, <3>2, SeqMonotonic
    <3> QED BY <2>4, <3>2, <3>3, OpenAfterType
  <2>6. e \in Seq(Nat)
    <3>1. 1..(k + 1) \subseteq Nat
      OBVIOUS
    <3> QED BY <2>5, <3>1, SeqMonotonic
  <2>7. PICK d : d = Append(b, e)
    OBVIOUS
  <2>8. /\ d \in Seq(Seq(Nat)) /\ Len(d) = (k + 1) + 1
        /\ \A i \in 1..(k + 1) : d[i] = b[i]
        /\ d[(k + 1) + 1] = e
    BY SMTT(30), <2>3, <2>6, <2>7, AppendProperties
  <2>9. c[(k + 1) + 1] = d
    <3>1. (k + 1) + 1 \in 1..(n + 1) /\ (k + 1) + 1 # 1 /\ ((k + 1) + 1) - 1 = k + 1
      OBVIOUS
    <3>2. c[(k + 1) + 1] = WithNext(c[k + 1], w, k + 1)
      BY <1>3, <3>1
    <3>3. Last(b) = b[k + 1]
      BY <2>3 DEF Last
    <3> QED BY <2>1, <2>4, <2>7, <3>2, <3>3 DEF WithNext
  <2>10. d[1] = <<>>
    BY <2>3, <2>8
  <2>11. ASSUME NEW i \in 1..(k + 1) PROVE d[i + 1] = OpenAfter(d[i], w, i)
    <3>1. d[i] = b[i]
      BY <2>8
    <3>2. CASE i = k + 1
      BY <2>4, <2>8, <3>1, <3>2
    <3>3. CASE i # k + 1
      <4>1. i \in 1..k /\ i + 1 \in 1..(k + 1)
        BY <3>3
      <4> QED BY <2>3, <2>8, <3>1, <4>1
    <3> QED BY <3>2, <3>3
  <2>12. ASSUME NEW i \in 1..((k + 1) + 1) PROVE d[i] \in Seq(1..(i - 1))
    <3>2. CASE i = (k + 1) + 1
      <4>1. i - 1 = k + 1
        BY <3>2
      <4> QED BY <2>5, <2>8, <3>2, <4>1
    <3>3. CASE i # (k + 1) + 1
      <4>1. i \in 1..(k + 1)
        BY <3>3
      <4> QED BY <2>3, <2>8, <4>1
    <3> QED BY <3>2, <3>3
  <2>13. Opened(d, w, k + 1)
    BY <2>8, <2>10, <2>11, <2>12 DEF Opened
  <2>14. k + 1 \in 0..n
    OBVIOUS
  <2> QED BY <2>9, <2>13, <2>14
<1> HIDE DEF X
<1>6. \A k \in 0..n : k \in X
  <2>1. \A k \in 0..(n - 1) : k \in X => k + 1 \in X
    BY <1>5
  <2> QED BY <1>4, <2>1, UpTo0
<1>7. n \in X
  <2>1. n \in 0..n
    OBVIOUS
  <2> QED BY <1>6, <2>1
<1> QED BY <1>2, <1>7 DEF X

-----------------------------------------------------------------------------
(* The word that is kept, and its tree.                                    *)

(* What is kept of a word is a word.                                       *)
LEMMA KeptType ==
  ASSUME NEW w \in Seq(Operators)
  PROVE  Kept(w) \in Seq(Operators)
<1>1. PICK n \in Nat : n = Len(w)
  BY LenProperties
<1>2. Opened(OpenBefore(w), w, n)
  BY <1>1, OpenBeforeOpened
<1>3. PICK open : open = OpenAtEnd(w)
  OBVIOUS
<1>4. open \in Seq(1..n)
  <2>1. PICK b : b = OpenBefore(w)
    OBVIOUS
  <2>2. Len(b) = n + 1 /\ \A i \in 1..(n + 1) : b[i] \in Seq(1..(i - 1))
    BY <1>2, <2>1 DEF Opened
  <2>3. n + 1 \in 1..(n + 1) /\ (n + 1) - 1 = n
    OBVIOUS
  <2>4. b[n + 1] \in Seq(1..n)
    BY <2>2, <2>3
  <2> QED BY <1>3, <2>1, <2>2, <2>4 DEF OpenAtEnd, Last
<1>5. ASSUME open # <<>> PROVE SubSeq(w, 1, open[1] - 1) \in Seq(Operators)
  <2>1. 1 \in 1..Len(open)
    BY <1>4, <1>5, EmptySeq
  <2>2. open[1] \in 1..n
    BY <1>4, <2>1, ElementOfSeq
  <2>3. \A k \in 1..(open[1] - 1) : w[k] \in Operators
    BY <1>1, <2>2, ElementOfSeq
  <2>4. 1 \in Int /\ open[1] - 1 \in Int
    BY <2>2
  <2> QED BY <2>3, <2>4, SubSeqProperties
<1> QED BY <1>3, <1>5 DEF Kept, UpTo

-----------------------------------------------------------------------------
(* f is how operators 1 to n come to hang below their parents.             *)
Hangings(f, n, parent) ==
    /\ f \in [0..n -> [0..n -> Seq(1..n)]]
    /\ f[0] = [p \in 0..n |-> <<>>]
    /\ \A i \in 1..n : f[i] = [f[i - 1] EXCEPT ![parent[i]] = Append(@, i)]

(* The tree as Hung builds it.                                             *)
HungStep(n, parent, f) ==
    [i \in 0..n |-> IF i = 0 THEN [p \in 0..n |-> <<>>]
                    ELSE [f[i - 1] EXCEPT ![parent[i]] = Append(@, i)]]

(* An operator is hung below another, or at the top.                       *)
LEMMA HangType ==
  ASSUME NEW n \in Nat, NEW t \in [0..n -> Seq(1..n)], NEW p \in 0..n, NEW i \in 1..n
  PROVE  [t EXCEPT ![p] = Append(@, i)] \in [0..n -> Seq(1..n)]
<1>1. Append(t[p], i) \in Seq(1..n)
  BY AppendProperties
<1> QED BY <1>1

(* There are such trees for every way to hang.                             *)
LEMMA HangingsExist ==
  ASSUME NEW n \in Nat, NEW parent, \A i \in 1..n : parent[i] \in 0..n
  PROVE  \E f : Hangings(f, n, parent)
<1> DEFINE X == [0..n -> Seq(1..n)]
<1> DEFINE g == [i \in 1..n |-> [t \in X |-> [t EXCEPT ![parent[i]] = Append(@, i)]]]
<1> DEFINE none == [p \in 0..n |-> <<>>]
<1>1. none \in X
  BY EmptySeq
<1>2. \A i \in 1..n, t \in X : [t EXCEPT ![parent[i]] = Append(@, i)] \in X
  BY HangType
<1>3. g \in [1..n -> [X -> X]]
  BY <1>2
<1>4. \A i \in 1..n, t \in X : g[i][t] = [t EXCEPT ![parent[i]] = Append(@, i)]
  OBVIOUS
<1>5. none = [p \in 0..n |-> <<>>]
  OBVIOUS
<1> HIDE DEF g, none
<1>6. X = [0..n -> Seq(1..n)]
  OBVIOUS
<1> HIDE DEF X
<1>7. PICK f : Iterates(f, n, X, none, g)
  BY <1>1, <1>3, IterateExists
<1>8. f \in [0..n -> X] /\ f[0] = none /\ \A i \in 1..n : f[i] = g[i][f[i - 1]]
  BY <1>7 DEF Iterates
<1>9. ASSUME NEW i \in 1..n PROVE f[i] = [f[i - 1] EXCEPT ![parent[i]] = Append(@, i)]
  <2>1. i - 1 \in 0..n
    OBVIOUS
  <2>2. f[i - 1] \in X
    BY <1>8, <2>1
  <2>3. f[i] = g[i][f[i - 1]]
    BY <1>8
  <2>4. g[i][f[i - 1]] = [f[i - 1] EXCEPT ![parent[i]] = Append(@, i)]
    BY <1>4, <2>2
  <2> QED BY <2>3, <2>4
<1>10. Hangings(f, n, parent)
  BY <1>5, <1>6, <1>8, <1>9 DEF Hangings
<1> QED BY <1>10

(* And the last of them is Hung.                                           *)
LEMMA HungHangings ==
  ASSUME NEW n \in Nat, NEW parent, \A i \in 1..n : parent[i] \in 0..n
  PROVE  \E f : Hangings(f, n, parent) /\ Hung(n, parent) = f[n]
<1>1. PICK f : Hangings(f, n, parent)
  BY HangingsExist
<1>2. /\ f \in [0..n -> [0..n -> Seq(1..n)]]
      /\ f[0] = [p \in 0..n |-> <<>>]
      /\ \A i \in 1..n : f[i] = [f[i - 1] EXCEPT ![parent[i]] = Append(@, i)]
  BY <1>1 DEF Hangings
<1>3. f = HungStep(n, parent, f)
  <2>1. ASSUME NEW i \in 0..n
        PROVE  f[i] = IF i = 0 THEN [p \in 0..n |-> <<>>]
                      ELSE [f[i - 1] EXCEPT ![parent[i]] = Append(@, i)]
    <3>1. CASE i = 0
      BY <1>2, <3>1
    <3>2. CASE i # 0
      <4>1. i \in 1..n
        BY <3>2
      <4> QED BY <1>2, <3>2, <4>1
    <3> QED BY <3>1, <3>2
  <2>2. f = [i \in 0..n |-> f[i]]
    BY <1>2
  <2> QED BY <2>1, <2>2 DEF HungStep
<1> DEFINE c == CHOOSE h : h = HungStep(n, parent, h)
<1>4. c = HungStep(n, parent, c)
  BY <1>3
<1>5. Hung(n, parent) = c[n]
  BY DEF Hung, HungStep
<1> HIDE DEF c
<1>6. \A i \in 0..n : c[i] = IF i = 0 THEN [p \in 0..n |-> <<>>]
                             ELSE [c[i - 1] EXCEPT ![parent[i]] = Append(@, i)]
  BY <1>4 DEF HungStep
<1> DEFINE X == {k \in 0..n : c[k] = f[k]}
<1>7. 0 \in X
  <2>1. 0 \in 0..n
    OBVIOUS
  <2>2. c[0] = [p \in 0..n |-> <<>>]
    BY <1>6, <2>1
  <2> QED BY <1>2, <2>1, <2>2
<1>8. ASSUME NEW k \in 0..(n - 1), k \in X PROVE k + 1 \in X
  <2>1. k + 1 \in 1..n /\ k + 1 \in 0..n /\ (k + 1) - 1 = k /\ k + 1 # 0
    OBVIOUS
  <2>2. c[k + 1] = [c[k] EXCEPT ![parent[k + 1]] = Append(@, k + 1)]
    BY <1>6, <2>1
  <2>3. f[k + 1] = [f[k] EXCEPT ![parent[k + 1]] = Append(@, k + 1)]
    BY <1>2, <2>1
  <2>4. c[k] = f[k]
    BY <1>8
  <2> QED BY <2>1, <2>2, <2>3, <2>4
<1> HIDE DEF X
<1>9. \A k \in 0..n : k \in X
  <2>1. \A k \in 0..(n - 1) : k \in X => k + 1 \in X
    BY <1>8
  <2> QED BY <1>7, <2>1, UpTo0
<1>10. c[n] = f[n]
  <2>1. n \in 0..n
    OBVIOUS
  <2>2. n \in X
    BY <1>9, <2>1
  <2> QED BY <2>2 DEF X
<1> QED BY <1>1, <1>5, <1>10

(* What hangs below an operator is of those that were hung, and has it as  *)
(* its parent.                                                             *)
HangsBelow(t, n, i, parent) ==
    \A p \in 0..n : \A k \in 1..Len(t[p]) : t[p][k] \in 1..i /\ parent[t[p][k]] = p

(* It is so in every tree on the way.                                      *)
LEMMA HangingsBelow ==
  ASSUME NEW n \in Nat, NEW parent, \A i \in 1..n : parent[i] \in 0..n,
         NEW f, Hangings(f, n, parent)
  PROVE  \A i \in 0..n : HangsBelow(f[i], n, i, parent)
<1>2. /\ f \in [0..n -> [0..n -> Seq(1..n)]]
      /\ f[0] = [p \in 0..n |-> <<>>]
      /\ \A i \in 1..n : f[i] = [f[i - 1] EXCEPT ![parent[i]] = Append(@, i)]
  BY DEF Hangings
<1> DEFINE X == {k \in 0..n : HangsBelow(f[k], n, k, parent)}
<1>3. 0 \in X
  <2>1. \A p \in 0..n : f[0][p] = <<>>
    BY <1>2
  <2>2. 1..Len(<<>>) = {}
    BY EmptySeq
  <2> QED BY <2>1, <2>2 DEF HangsBelow
<1>4. ASSUME NEW m \in 0..(n - 1), m \in X PROVE m + 1 \in X
  <2>1. PICK t, u : t = f[m] /\ u = f[m + 1]
    OBVIOUS
  <2>2. m \in 0..n /\ m + 1 \in 1..n /\ (m + 1) - 1 = m
    OBVIOUS
  <2>3. t \in [0..n -> Seq(1..n)] /\ HangsBelow(t, n, m, parent)
    BY <1>2, <1>4, <2>1, <2>2
  <2>4. PICK q \in 0..n : q = parent[m + 1]
    BY <2>2
  <2>5. u = [t EXCEPT ![q] = Append(@, m + 1)]
    BY <1>2, <2>1, <2>2, <2>4
  <2>6. ASSUME NEW p \in 0..n, NEW k \in 1..Len(u[p])
        PROVE  u[p][k] \in 1..(m + 1) /\ parent[u[p][k]] = p
    <3>1. CASE p # q
      <4>1. u[p] = t[p]
        BY <2>3, <2>5, <3>1
      <4>2. t[p][k] \in 1..m /\ parent[t[p][k]] = p
        BY <2>3, <4>1 DEF HangsBelow
      <4> QED BY <4>1, <4>2
    <3>2. CASE p = q
      <4>1. u[p] = Append(t[p], m + 1)
        BY <2>3, <2>5, <3>2
      <4>2. PICK l \in Nat : l = Len(t[p])
        BY <2>3, LenProperties
      <4>3. t[p] \in Seq(1..n)
        BY <2>3
      <4>4. /\ Len(u[p]) = l + 1 /\ u[p][l + 1] = m + 1
            /\ \A j \in 1..l : u[p][j] = t[p][j]
        BY <2>2, <4>1, <4>2, <4>3, AppendProperties
      <4>5. CASE k = l + 1
        BY <2>4, <3>2, <4>4, <4>5
      <4>6. CASE k # l + 1
        <5>1. k \in 1..l
          BY <4>4, <4>6
        <5>2. t[p][k] \in 1..m /\ parent[t[p][k]] = p
          BY <2>3, <4>2, <5>1 DEF HangsBelow
        <5> QED BY SMTT(30), <4>4, <5>1, <5>2
      <4> QED BY <4>5, <4>6
    <3> QED BY <3>1, <3>2
  <2>7. HangsBelow(u, n, m + 1, parent)
    BY <2>6 DEF HangsBelow
  <2>8. m + 1 \in 0..n
    OBVIOUS
  <2> QED BY <2>1, <2>7, <2>8
<1> HIDE DEF X
<1>9. \A k \in 0..n : k \in X
  <2>1. \A k \in 0..(n - 1) : k \in X => k + 1 \in X
    BY <1>4
  <2> QED BY <1>3, <2>1, UpTo0
<1> QED BY <1>9 DEF X

-----------------------------------------------------------------------------
(* The walk through a tree.                                                *)

(* A sequence of n elements is a function on 1..n.                         *)
LEMMA SeqIsFunction ==
  ASSUME NEW T, NEW n \in Nat
  PROVE  \A s : s \in [1..n -> T] <=> s \in Seq(T) /\ Len(s) = n
<1>1. ASSUME NEW s, s \in [1..n -> T] PROVE s \in Seq(T) /\ Len(s) = n
  <2>1. s \in Seq(T)
    BY <1>1, SeqDef
  <2>2. DOMAIN s = 1..n /\ DOMAIN s = 1..Len(s) /\ Len(s) \in Nat
    BY <1>1, <2>1, LenProperties
  <2> QED BY <2>1, <2>2
<1>2. ASSUME NEW s, s \in Seq(T), Len(s) = n PROVE s \in [1..n -> T]
  BY <1>2, LenProperties
<1> QED BY <1>1, <1>2

(* The parts of a content stream with n operators have their types, and    *)
(* what hangs below an operator is newer.                                  *)
PartsOK(c, n) ==
    /\ c.op \in [1..n -> Operators]
    /\ c.kids \in [0..n -> Seq(1..n)]
    /\ c.next \in [1..n -> 0..n]
    /\ c.prev \in [1..n -> 0..n]
    /\ c.own \subseteq 1..n

(* Below an operator hang only such as were made after it.                 *)
KidsNewer(kids, n) == \A p \in 0..n : \A k \in 1..Len(kids[p]) : kids[p][k] > p

(* A word that is read makes such parts.                                   *)
LEMMA ParentsType ==
  ASSUME NEW w \in Seq(Operators), NEW n \in Nat, Len(w) = n
  PROVE  \A i \in 1..n : /\ Parents(OpenBefore(w))[i] \in 0..(i - 1)
                         /\ Parents(OpenBefore(w))[i] =
                              IF OpenBefore(w)[i] = <<>> THEN 0 ELSE Last(OpenBefore(w)[i])
<1>1. PICK b : b = OpenBefore(w)
  OBVIOUS
<1>2. Opened(b, w, n)
  BY <1>1, OpenBeforeOpened
<1>3. Len(b) = n + 1 /\ \A i \in 1..(n + 1) : b[i] \in Seq(1..(i - 1))
  BY <1>2 DEF Opened
<1>4. ASSUME NEW i \in 1..n
      PROVE  /\ Parents(b)[i] \in 0..(i - 1)
             /\ Parents(b)[i] = IF b[i] = <<>> THEN 0 ELSE Last(b[i])
  <2>1. Len(b) - 1 = n
    BY <1>3
  <2>2. Parents(b)[i] = IF b[i] = <<>> THEN 0 ELSE Last(b[i])
    BY <2>1 DEF Parents
  <2>3. b[i] \in Seq(1..(i - 1))
    BY <1>3
  <2>4. b[i] # <<>> => Len(b[i]) \in 1..Len(b[i])
    BY <2>3, EmptySeq
  <2>5. b[i] # <<>> => Last(b[i]) \in 1..(i - 1)
    BY <2>3, <2>4, ElementOfSeq DEF Last
  <2>6. 1..(i - 1) \subseteq 0..(i - 1) /\ 0 \in 0..(i - 1)
    OBVIOUS
  <2> QED BY <2>2, <2>5, <2>6
<1> QED BY <1>1, <1>4

(* The tree of a word has such parts, and its operators are observed.      *)
LEMMA TreeOfParts ==
  ASSUME NEW w \in Seq(Operators), NEW n \in Nat, Len(w) = n
  PROVE  /\ PartsOK(TreeOf(w), n)
         /\ KidsNewer(TreeOf(w).kids, n)
         /\ TreeOf(w).own = 1..n
<1>1. PICK parent : parent = Parents(OpenBefore(w))
  OBVIOUS
<1>2. \A i \in 1..n : parent[i] \in 0..(i - 1)
  BY <1>1, ParentsType
<1>3. \A i \in 1..n : parent[i] \in 0..n
  BY <1>2
<1>4. PICK f : Hangings(f, n, parent) /\ Hung(n, parent) = f[n]
  BY <1>3, HungHangings
<1>5. f[n] \in [0..n -> Seq(1..n)]
  BY <1>4 DEF Hangings
<1>6. HangsBelow(f[n], n, n, parent)
  <2>1. \A i \in 0..n : HangsBelow(f[i], n, i, parent)
    BY <1>3, <1>4, HangingsBelow
  <2>2. n \in 0..n
    OBVIOUS
  <2> QED BY <2>1, <2>2
<1>7. KidsNewer(f[n], n)
  <2>1. ASSUME NEW p \in 0..n, NEW k \in 1..Len(f[n][p]) PROVE f[n][p][k] > p
    <3>1. f[n][p][k] \in 1..n /\ parent[f[n][p][k]] = p
      BY <1>6 DEF HangsBelow
    <3>2. p \in 0..(f[n][p][k] - 1)
      BY <1>2, <3>1
    <3> QED BY <3>1, <3>2
  <2> QED BY <2>1 DEF KidsNewer
<1>8. TreeOf(w) = [op   |-> w,
                   kids |-> f[n],
                   next |-> [i \in 1..n |-> IF i = n THEN 0 ELSE i + 1],
                   prev |-> [i \in 1..n |-> i - 1],
                   own  |-> 1..n]
  BY <1>1, <1>4 DEF TreeOf, Tree
<1>9. w \in [1..n -> Operators]
  BY SeqIsFunction
<1>10. /\ [i \in 1..n |-> IF i = n THEN 0 ELSE i + 1] \in [1..n -> 0..n]
       /\ [i \in 1..n |-> i - 1] \in [1..n -> 0..n]
  OBVIOUS
<1> QED BY <1>5, <1>7, <1>8, <1>9, <1>10 DEF PartsOK

-----------------------------------------------------------------------------
(* W is what walking below each operator gives.                            *)
KidWalks(W, kids, x) == [k \in 1..Len(kids[x]) |-> W[kids[x][k]]]

(* W[x] is the walk of x and what is below it.                             *)
Walks(W, kids, n) ==
    /\ W \in [0..n -> Seq(0..n)]
    /\ \A x \in 0..n : W[x] = <<x>> \o FlattenSeq(KidWalks(W, kids, x))

(* The operators that are hung can be walked.                              *)
LEMMA WalksExist ==
  ASSUME NEW n \in Nat, NEW kids \in [0..n -> Seq(1..n)], KidsNewer(kids, n)
  PROVE  \E W : Walks(W, kids, n)
<1> DEFINE X == [0..n -> Seq(0..n)]
<1> DEFINE Next1(W) == [x \in 0..n |-> <<x>> \o FlattenSeq(KidWalks(W, kids, x))]
<1> DEFINE g == [i \in 1..(n + 1) |-> [W \in X |-> Next1(W)]]
<1>1. ASSUME NEW W \in X, NEW x \in 0..n
      PROVE  /\ KidWalks(W, kids, x) \in Seq(Seq(0..n))
             /\ <<x>> \o FlattenSeq(KidWalks(W, kids, x)) \in Seq(0..n)
  <2>1. PICK m \in Nat : m = Len(kids[x])
    BY LenProperties
  <2>2. \A k \in 1..m : kids[x][k] \in 1..n
    BY <2>1, ElementOfSeq
  <2>3. \A k \in 1..m : W[kids[x][k]] \in Seq(0..n)
    <3>1. \A k \in 1..m : kids[x][k] \in 0..n
      BY <2>2
    <3> QED BY <3>1
  <2>4. KidWalks(W, kids, x) \in [1..m -> Seq(0..n)]
    BY <2>1, <2>3 DEF KidWalks
  <2>5. KidWalks(W, kids, x) \in Seq(Seq(0..n))
    BY <2>4, SeqIsFunction
  <2>6. FlattenSeq(KidWalks(W, kids, x)) \in Seq(0..n)
    BY <2>5, FlattenFacts
  <2>7. <<x>> \in Seq(0..n)
    OBVIOUS
  <2> QED BY <2>5, <2>6, <2>7, ConcatProperties
<1>2. \A W \in X : Next1(W) \in X
  BY <1>1
<1>3. g \in [1..(n + 1) -> [X -> X]]
  BY <1>2
<1>4. \A i \in 1..(n + 1), W \in X : g[i][W] = Next1(W)
  OBVIOUS
<1>5. PICK none : none = [x \in 0..n |-> <<>>]
  OBVIOUS
<1>6. none \in X
  BY <1>5, EmptySeq
<1> HIDE DEF g
<1>7. PICK f : Iterates(f, n + 1, X, none, g)
  <2> HIDE DEF X
  <2>1. n + 1 \in Nat
    OBVIOUS
  <2> QED BY <1>3, <1>6, <2>1, IterateExists
<1>8. f \in [0..(n + 1) -> X] /\ \A i \in 1..(n + 1) : f[i] = g[i][f[i - 1]]
  BY <1>7 DEF Iterates
<1>9. \A i \in 0..(n + 1) : f[i] \in X
  BY <1>8
<1>10. ASSUME NEW i \in 1..(n + 1), NEW x \in 0..n
       PROVE  f[i][x] = <<x>> \o FlattenSeq(KidWalks(f[i - 1], kids, x))
  <2>1. i - 1 \in 0..(n + 1)
    OBVIOUS
  <2>2. f[i - 1] \in X
    BY <1>9, <2>1
  <2>3. f[i] = Next1(f[i - 1])
    BY <1>4, <1>8, <2>2
  <2> QED BY <2>3
<1> HIDE DEF X
<1> DEFINE Y == {j \in 0..n : \A x \in 0..n : x > n - j => f[j + 1][x] = f[j][x]}
<1>11. 0 \in Y
  OBVIOUS
<1>12. ASSUME NEW j \in 0..(n - 1), j \in Y PROVE j + 1 \in Y
  <2>1. ASSUME NEW x \in 0..n, x > n - (j + 1) PROVE f[(j + 1) + 1][x] = f[j + 1][x]
    <3>1. /\ j + 1 \in 1..(n + 1) /\ (j + 1) - 1 = j
          /\ (j + 1) + 1 \in 1..(n + 1) /\ ((j + 1) + 1) - 1 = j + 1
      OBVIOUS
    <3>2. f[(j + 1) + 1][x] = <<x>> \o FlattenSeq(KidWalks(f[j + 1], kids, x))
      BY <1>10, <3>1
    <3>3. f[j + 1][x] = <<x>> \o FlattenSeq(KidWalks(f[j], kids, x))
      BY <1>10, <3>1
    <3>4. ASSUME NEW k \in 1..Len(kids[x]) PROVE f[j + 1][kids[x][k]] = f[j][kids[x][k]]
      <4>1. kids[x][k] \in 1..n
        BY ElementOfSeq
      <4>2. kids[x][k] > x
        BY DEF KidsNewer
      <4>3. kids[x][k] \in 0..n /\ kids[x][k] > n - j
        BY SMTT(30), <2>1, <4>1, <4>2
      <4>4. \A y \in 0..n : y > n - j => f[j + 1][y] = f[j][y]
        BY <1>12
      <4> QED BY <4>3, <4>4
    <3>5. KidWalks(f[j + 1], kids, x) = KidWalks(f[j], kids, x)
      BY <3>4 DEF KidWalks
    <3> QED BY <3>2, <3>3, <3>5
  <2> QED BY <2>1
<1> HIDE DEF Y
<1>13. \A j \in 0..n : j \in Y
  <2>1. \A j \in 0..(n - 1) : j \in Y => j + 1 \in Y
    BY <1>12
  <2> QED BY <1>11, <2>1, UpTo0
<1>14. n \in Y
  <2>1. n \in 0..n
    OBVIOUS
  <2> QED BY <1>13, <2>1
<1>15. \A x \in 0..n : x > 0 => f[n + 1][x] = f[n][x]
  BY <1>14 DEF Y
<1>16. ASSUME NEW x \in 0..n PROVE KidWalks(f[n + 1], kids, x) = KidWalks(f[n], kids, x)
  <2>1. ASSUME NEW k \in 1..Len(kids[x]) PROVE f[n + 1][kids[x][k]] = f[n][kids[x][k]]
    <3>1. kids[x][k] \in 1..n
      BY ElementOfSeq
    <3>2. kids[x][k] \in 0..n /\ kids[x][k] > 0
      BY SMTT(30), <3>1
    <3> QED BY <1>15, <3>2
  <2> QED BY <2>1 DEF KidWalks
<1>17. \A x \in 0..n : f[n + 1][x] = <<x>> \o FlattenSeq(KidWalks(f[n + 1], kids, x))
  <2>1. n + 1 \in 1..(n + 1) /\ (n + 1) - 1 = n
    OBVIOUS
  <2> QED BY <1>10, <1>16, <2>1
<1>18. f[n + 1] \in [0..n -> Seq(0..n)]
  <2>1. n + 1 \in 0..(n + 1)
    OBVIOUS
  <2> QED BY <1>9, <2>1 DEF X
<1> QED BY <1>17, <1>18 DEF Walks

(* The walks as Preorder defines them.                                     *)
WalkStep(W, kids, D) == [x \in D |-> <<x>> \o FlattenSeq(KidWalks(W, kids, x))]

(* The walks of some roots.                                                *)
RootWalks(W, roots) == [k \in 1..Len(roots) |-> W[roots[k]]]

(* W walks every operator and then its kids.                               *)
WalksEach(W, kids, n) ==
    \A x \in 0..n : W[x] = <<x>> \o FlattenSeq(KidWalks(W, kids, x))

(* w and V are the same walks.                                             *)
SameWalks(w, V, n) == \A x \in 0..n : w[x] = V[x]

(* An operator whose kids have one walk has one, so there is one of every  *)
(* operator.                                                               *)
LEMMA WalksSame ==
  ASSUME NEW n \in Nat, NEW kids \in [0..n -> Seq(1..n)], KidsNewer(kids, n),
         NEW w, WalksEach(w, kids, n), NEW V, WalksEach(V, kids, n)
  PROVE  SameWalks(w, V, n)
<1> DEFINE Y == {j \in 0..n : \A x \in 0..n : x >= n - j => w[x] = V[x]}
<1>8. ASSUME NEW x \in 0..n, \A y \in 0..n : y > x => w[y] = V[y] PROVE w[x] = V[x]
  <2>1. ASSUME NEW k \in 1..Len(kids[x]) PROVE w[kids[x][k]] = V[kids[x][k]]
    <3>1. kids[x][k] \in 1..n
      BY ElementOfSeq
    <3>2. kids[x][k] > x
      BY DEF KidsNewer
    <3> QED BY SMTT(30), <1>8, <3>1, <3>2
  <2>2. KidWalks(w, kids, x) = KidWalks(V, kids, x)
    BY <2>1 DEF KidWalks
  <2> QED BY <2>2 DEF WalksEach
<1>9. 0 \in Y
  <2>1. \A x \in 0..n : x >= n - 0 => \A y \in 0..n : ~(y > x)
    OBVIOUS
  <2> QED BY <1>8, <2>1
<1>10. ASSUME NEW j \in 0..(n - 1), j \in Y PROVE j + 1 \in Y
  <2>1. ASSUME NEW x \in 0..n, x >= n - (j + 1) PROVE w[x] = V[x]
    <3>1. \A y \in 0..n : y > x => y >= n - j
      BY <2>1
    <3>2. \A y \in 0..n : y >= n - j => w[y] = V[y]
      BY <1>10
    <3> QED BY <1>8, <3>1, <3>2
  <2>2. j + 1 \in 0..n
    OBVIOUS
  <2>3. \A x \in 0..n : x >= n - (j + 1) => w[x] = V[x]
    BY <2>1
  <2> QED BY <2>2, <2>3
<1> HIDE DEF Y
<1>11. \A j \in 0..n : j \in Y
  <2>1. \A j \in 0..(n - 1) : j \in Y => j + 1 \in Y
    BY <1>10
  <2> QED BY <1>9, <2>1, UpTo0
<1>12. n \in 0..n /\ \A x \in 0..n : x >= n - n
  OBVIOUS
<1>13. n \in Y
  BY <1>11, <1>12
<1> QED BY <1>12, <1>13 DEF Y, SameWalks

(* Preorder walks them.                                                    *)
LEMMA PreorderWalks ==
  ASSUME NEW n \in Nat, NEW c, c.kids \in [0..n -> Seq(1..n)], KidsNewer(c.kids, n)
  PROVE  \E W : /\ Walks(W, c.kids, n)
                /\ \A roots : Preorder(c, roots) = FlattenSeq(RootWalks(W, roots))
<1>1. DOMAIN c.kids = 0..n
  OBVIOUS
<1> DEFINE w == CHOOSE W : W = WalkStep(W, c.kids, DOMAIN c.kids)
<1>2. PICK V : Walks(V, c.kids, n)
  BY WalksExist
<1>3. V = WalkStep(V, c.kids, 0..n)
  <2>1. V = [x \in 0..n |-> V[x]]
    BY <1>2 DEF Walks
  <2> QED BY <1>2, <2>1 DEF Walks, WalkStep
<1>4. w = WalkStep(w, c.kids, 0..n)
  BY <1>1, <1>3
<1>5. ASSUME NEW roots PROVE Preorder(c, roots) = FlattenSeq(RootWalks(w, roots))
  BY DEF Preorder, WalkStep, RootWalks, KidWalks
<1> HIDE DEF w
<1>6. \A x \in 0..n : w[x] = <<x>> \o FlattenSeq(KidWalks(w, c.kids, x))
  BY <1>4 DEF WalkStep
<1>7. \A x \in 0..n : V[x] = <<x>> \o FlattenSeq(KidWalks(V, c.kids, x))
  BY <1>2 DEF Walks
<1>12. \A x \in 0..n : w[x] = V[x]
  <2>1. WalksEach(w, c.kids, n) /\ WalksEach(V, c.kids, n)
    BY <1>6, <1>7 DEF WalksEach
  <2>2. PICK kids : kids = c.kids
    OBVIOUS
  <2>3. /\ kids \in [0..n -> Seq(1..n)] /\ KidsNewer(kids, n)
        /\ WalksEach(w, kids, n) /\ WalksEach(V, kids, n)
    BY <2>1, <2>2
  <2>4. SameWalks(w, V, n)
    BY <2>3, WalksSame
  <2> QED BY <2>4 DEF SameWalks
<1>13. w = V
  <2>1. w = [x \in 0..n |-> w[x]]
    BY <1>4 DEF WalkStep
  <2>2. V = [x \in 0..n |-> V[x]]
    BY <1>2 DEF Walks
  <2> QED BY <1>12, <2>1, <2>2
<1> QED BY <1>2, <1>5, <1>13

(* A walk begins with the operator and goes on to newer ones.              *)
LEMMA WalkRange ==
  ASSUME NEW n \in Nat, NEW kids \in [0..n -> Seq(1..n)], KidsNewer(kids, n),
         NEW W, Walks(W, kids, n)
  PROVE  \A x \in 0..n : W[x] \in Seq(x..n) /\ W[x] # <<>>
<1>1. \A x \in 0..n : W[x] = <<x>> \o FlattenSeq(KidWalks(W, kids, x))
  BY DEF Walks
<1> DEFINE Good(x) == W[x] \in Seq(x..n) /\ W[x] # <<>>
<1>2. ASSUME NEW x \in 0..n, \A y \in 0..n : y > x => Good(y) PROVE Good(x)
  <2>1. PICK m \in Nat : m = Len(kids[x])
    BY LenProperties
  <2>2. ASSUME NEW k \in 1..m PROVE W[kids[x][k]] \in Seq(x..n)
    <3>1. kids[x][k] \in 1..n
      BY <2>1, ElementOfSeq
    <3>2. kids[x][k] > x
      BY <2>1 DEF KidsNewer
    <3>3. W[kids[x][k]] \in Seq(kids[x][k]..n)
      BY <1>2, <3>1, <3>2
    <3>4. kids[x][k]..n \subseteq x..n
      BY <3>1, <3>2
    <3> QED BY <3>3, <3>4, SeqMonotonic
  <2>3. KidWalks(W, kids, x) \in [1..m -> Seq(x..n)]
    BY <2>1, <2>2 DEF KidWalks
  <2>4. KidWalks(W, kids, x) \in Seq(Seq(x..n))
    BY <2>3, SeqIsFunction
  <2>5. FlattenSeq(KidWalks(W, kids, x)) \in Seq(x..n)
    BY <2>4, FlattenFacts
  <2>6. <<x>> \in Seq(x..n) /\ Len(<<x>>) = 1
    OBVIOUS
  <2>7. /\ <<x>> \o FlattenSeq(KidWalks(W, kids, x)) \in Seq(x..n)
        /\ Len(<<x>> \o FlattenSeq(KidWalks(W, kids, x))) =
              1 + Len(FlattenSeq(KidWalks(W, kids, x)))
    BY <2>5, <2>6, ConcatProperties
  <2>8. Len(FlattenSeq(KidWalks(W, kids, x))) \in Nat
    BY <2>5, LenProperties
  <2>9. Len(W[x]) # 0
    <3>1. W[x] = <<x>> \o FlattenSeq(KidWalks(W, kids, x))
      BY <1>1
    <3>2. Len(W[x]) = 1 + Len(FlattenSeq(KidWalks(W, kids, x)))
      BY <2>7, <3>1
    <3> QED BY <2>8, <3>2
  <2> QED BY <1>1, <2>7, <2>9, EmptySeq
<1> HIDE DEF Good
<1> DEFINE Y == {j \in 0..n : \A x \in 0..n : x >= n - j => Good(x)}
<1>3. 0 \in Y
  <2>1. \A x \in 0..n : x >= n - 0 => \A y \in 0..n : ~(y > x)
    OBVIOUS
  <2> QED BY <1>2, <2>1
<1>4. ASSUME NEW j \in 0..(n - 1), j \in Y PROVE j + 1 \in Y
  <2>1. ASSUME NEW x \in 0..n, x >= n - (j + 1) PROVE Good(x)
    <3>1. \A y \in 0..n : y > x => y >= n - j
      BY <2>1
    <3>2. \A y \in 0..n : y >= n - j => Good(y)
      BY <1>4
    <3> QED BY <1>2, <3>1, <3>2
  <2>2. j + 1 \in 0..n
    OBVIOUS
  <2>3. \A x \in 0..n : x >= n - (j + 1) => Good(x)
    BY <2>1
  <2> QED BY <2>2, <2>3
<1> HIDE DEF Y
<1>5. \A j \in 0..n : j \in Y
  <2>1. \A j \in 0..(n - 1) : j \in Y => j + 1 \in Y
    BY <1>4
  <2> QED BY <1>3, <2>1, UpTo0
<1>6. n \in 0..n /\ \A x \in 0..n : x >= n - n
  OBVIOUS
<1>7. n \in Y
  BY <1>5, <1>6
<1>8. \A x \in 0..n : Good(x)
  BY <1>6, <1>7 DEF Y
<1> QED BY <1>8 DEF Good

(* The operators below one are not older than it.                          *)
LEMMA BelowType ==
  ASSUME NEW n \in Nat, NEW c, c.kids \in [0..n -> Seq(1..n)], KidsNewer(c.kids, n),
         NEW x \in 0..n
  PROVE  Below(c, x) \in Seq(x..n) /\ Below(c, x) # <<>> /\ LastBelow(c, x) \in x..n
<1>1. PICK W : /\ Walks(W, c.kids, n)
               /\ \A roots : Preorder(c, roots) = FlattenSeq(RootWalks(W, roots))
  BY PreorderWalks
<1>2. W[x] \in Seq(x..n) /\ W[x] # <<>>
  BY <1>1, WalkRange
<1>3. RootWalks(W, <<x>>) = <<W[x]>>
  BY DEF RootWalks
<1>4. FlattenSeq(<<W[x]>>) = W[x]
  BY <1>2, FlattenConcat
<1>5. Below(c, x) = W[x]
  BY <1>1, <1>3, <1>4 DEF Below
<1>6. Len(W[x]) \in 1..Len(W[x])
  BY <1>2, EmptySeq
<1>7. W[x][Len(W[x])] \in x..n
  BY <1>2, <1>6, ElementOfSeq
<1> QED BY <1>2, <1>5, <1>7 DEF LastBelow, Last

(* The word of a tree is one.                                              *)
LEMMA AllOfType ==
  ASSUME NEW n \in Nat, NEW c, c.kids \in [0..n -> Seq(1..n)], KidsNewer(c.kids, n)
  PROVE  AllOf(c) \in Seq(1..n)
<1>1. PICK W : /\ Walks(W, c.kids, n)
               /\ \A roots : Preorder(c, roots) = FlattenSeq(RootWalks(W, roots))
  BY PreorderWalks
<1>2. PICK m \in Nat : m = Len(c.kids[0])
  BY LenProperties
<1>3. ASSUME NEW k \in 1..m PROVE W[c.kids[0][k]] \in Seq(1..n)
  <2>1. c.kids[0] \in Seq(1..n)
    OBVIOUS
  <2>2. c.kids[0][k] \in 1..n
    BY <1>2, <2>1, ElementOfSeq
  <2>a. \A x \in 0..n : W[x] \in Seq(x..n)
    BY <1>1, WalkRange
  <2>3. W[c.kids[0][k]] \in Seq(c.kids[0][k]..n)
    <3>1. c.kids[0][k] \in 0..n
      BY <2>2
    <3> QED BY <2>a, <3>1
  <2>4. c.kids[0][k]..n \subseteq 1..n
    BY <2>2
  <2> QED BY <2>3, <2>4, SeqMonotonic
<1>4. RootWalks(W, c.kids[0]) \in [1..m -> Seq(1..n)]
  BY <1>2, <1>3 DEF RootWalks
<1>5. RootWalks(W, c.kids[0]) \in Seq(Seq(1..n))
  BY <1>4, SeqIsFunction
<1>6. FlattenSeq(RootWalks(W, c.kids[0])) \in Seq(1..n)
  BY <1>5, FlattenFacts
<1> QED BY <1>1, <1>6 DEF AllOf

(* What is spelled is a word.                                              *)
LEMMA SpelledType ==
  ASSUME NEW n \in Nat, NEW c, PartsOK(c, n), KidsNewer(c.kids, n)
  PROVE  Spelled(c) \in Seq(Operators)
<1>1. c.kids \in [0..n -> Seq(1..n)] /\ c.op \in [1..n -> Operators]
  BY DEF PartsOK
<1>2. AllOf(c) \in Seq(1..n)
  BY <1>1, AllOfType
<1>3. PICK m \in Nat : m = Len(AllOf(c))
  BY <1>2, LenProperties
<1>4. \A k \in 1..m : AllOf(c)[k] \in 1..n
  BY <1>2, <1>3, ElementOfSeq
<1>5. Spelled(c) \in [1..m -> Operators]
  BY <1>1, <1>3, <1>4 DEF Spelled, WordOf
<1> QED BY <1>5, SeqIsFunction

-----------------------------------------------------------------------------
(* What is parsed spells the word it is parsed from.                       *)

(* What x has below it is all that has been hung there, in order.          *)
KidsInOrder(t, n, i, parent) ==
    \A p \in 0..n :
        /\ \A k \in 1..Len(t[p]) : \A l \in 1..Len(t[p]) : k < l => t[p][k] < t[p][l]
        /\ \A q \in 1..i : parent[q] = p => \E k \in 1..Len(t[p]) : t[p][k] = q

(* It is so in every tree that is made of them.                            *)
LEMMA HangingsInOrder ==
  ASSUME NEW n \in Nat, NEW parent, \A i \in 1..n : parent[i] \in 0..n,
         NEW f, Hangings(f, n, parent)
  PROVE  \A i \in 0..n : KidsInOrder(f[i], n, i, parent)
<1>1. /\ f \in [0..n -> [0..n -> Seq(1..n)]]
      /\ f[0] = [p \in 0..n |-> <<>>]
      /\ \A i \in 1..n : f[i] = [f[i - 1] EXCEPT ![parent[i]] = Append(@, i)]
  BY DEF Hangings
<1>2. \A i \in 0..n : HangsBelow(f[i], n, i, parent)
  BY HangingsBelow
<1> DEFINE X == {i \in 0..n : KidsInOrder(f[i], n, i, parent)}
<1>3. 0 \in X
  <2>1. \A p \in 0..n : f[0][p] = <<>> /\ Len(f[0][p]) = 0
    BY <1>1
  <2>2. KidsInOrder(f[0], n, 0, parent)
    BY <2>1 DEF KidsInOrder
  <2> QED BY <2>2
<1>4. ASSUME NEW i \in 0..(n - 1), i \in X PROVE i + 1 \in X
  <2>1. i + 1 \in 1..n /\ i \in 0..n /\ i + 1 \in 0..n /\ (i + 1) - 1 = i
    OBVIOUS
  <2>2. PICK s, t, a : s = f[i] /\ t = f[i + 1] /\ a = parent[i + 1]
    OBVIOUS
  <2>3. /\ s \in [0..n -> Seq(1..n)] /\ t = [s EXCEPT ![a] = Append(@, i + 1)] /\ a \in 0..n
        /\ KidsInOrder(s, n, i, parent) /\ HangsBelow(s, n, i, parent)
    BY <1>1, <1>2, <1>4, <2>1, <2>2
  <2>4. ASSUME NEW p \in 0..n
        PROVE  /\ \A k \in 1..Len(t[p]) : \A l \in 1..Len(t[p]) : k < l => t[p][k] < t[p][l]
               /\ \A q \in 1..(i + 1) : parent[q] = p => \E k \in 1..Len(t[p]) : t[p][k] = q
    <3>1. PICK m \in Nat : m = Len(s[p])
      BY <2>3, LenProperties
    <3>2. /\ \A k \in 1..m : \A l \in 1..m : k < l => s[p][k] < s[p][l]
          /\ \A q \in 1..i : parent[q] = p => \E k \in 1..m : s[p][k] = q
          /\ \A k \in 1..m : s[p][k] \in 1..i
      BY <2>3, <3>1 DEF KidsInOrder, HangsBelow
    <3>3. CASE p = a
      <4>1. t[p] = Append(s[p], i + 1) /\ s[p] \in Seq(1..n)
        BY <2>3, <3>3
      <4>2. /\ Len(t[p]) = m + 1 /\ t[p][m + 1] = i + 1
            /\ \A k \in 1..m : t[p][k] = s[p][k]
        BY <2>1, <3>1, <4>1, AppendProperties
      <4>3. ASSUME NEW k \in 1..(m + 1), NEW l \in 1..(m + 1), k < l PROVE t[p][k] < t[p][l]
        <5>1. k \in 1..m
          BY <4>3
        <5>2. CASE l = m + 1
          BY SMTT(60), <3>2, <4>2, <5>1, <5>2
        <5>3. CASE l # m + 1
          <6>1. l \in 1..m
            BY <5>3
          <6> QED BY <3>2, <4>2, <4>3, <5>1, <6>1
        <5> QED BY <5>2, <5>3
      <4>4. ASSUME NEW q \in 1..(i + 1), parent[q] = p PROVE \E k \in 1..(m + 1) : t[p][k] = q
        <5>1. CASE q = i + 1
          BY <4>2, <5>1
        <5>2. CASE q # i + 1
          <6>1. PICK k \in 1..m : s[p][k] = q
            BY <3>2, <4>4, <5>2
          <6>2. k \in 1..(m + 1) /\ t[p][k] = q
            BY <4>2, <6>1
          <6> QED BY <6>2
        <5> QED BY <5>1, <5>2
      <4> QED BY <4>2, <4>3, <4>4
    <3>4. CASE p # a
      <4>1. t[p] = s[p]
        BY <2>3, <3>4
      <4>2. \A q \in 1..(i + 1) : parent[q] = p => q \in 1..i
        BY <2>2, <3>4
      <4> QED BY <3>1, <3>2, <4>1, <4>2
    <3> QED BY <3>3, <3>4
  <2>5. KidsInOrder(t, n, i + 1, parent)
    BY <2>4 DEF KidsInOrder
  <2> QED BY <2>1, <2>2, <2>5
<1> HIDE DEF X
<1>5. \A i \in 0..n : i \in X
  BY <1>3, <1>4, UpTo0
<1> QED BY <1>5 DEF X

-----------------------------------------------------------------------------
(* Where the j-th of the composites that are open hangs.                   *)
Outer(open, j) == IF j = 1 THEN 0 ELSE open[j - 1]

(* The composites that are open after i operators, in the order of the     *)
(* word: each hangs below the one before it, and is the last that hangs    *)
(* there.                                                                  *)
OpenChain(open, i, parent) ==
    /\ open \in Seq(1..i)
    /\ \A j \in 1..Len(open) : \A k \in 1..Len(open) : j < k => open[j] < open[k]
    /\ \A j \in 1..Len(open) : parent[open[j]] = Outer(open, j)
    /\ \A j \in 1..Len(open) : \A q \in 1..i : parent[q] = Outer(open, j) => q <= open[j]

(* The innermost of them, or the top.                                      *)
Innermost(open) == IF open = <<>> THEN 0 ELSE Last(open)

(* The next operator, which hangs at the innermost, keeps it so.           *)
LEMMA OpenStaysChain ==
  ASSUME NEW w, NEW i \in Nat, NEW parent, NEW open, OpenChain(open, i, parent),
         \A q \in 1..i : parent[q] \in 0..(q - 1),
         parent[i + 1] = Innermost(open)
  PROVE  OpenChain(OpenAfter(open, w, i + 1), i + 1, parent)
<1>1. PICK m \in Nat : m = Len(open)
  BY LenProperties DEF OpenChain
<1>2. /\ open \in Seq(1..i) /\ Len(open) = m
      /\ \A j \in 1..m : open[j] \in 1..i
      /\ \A j \in 1..m : \A k \in 1..m : j < k => open[j] < open[k]
      /\ \A j \in 1..m : parent[open[j]] = Outer(open, j)
      /\ \A j \in 1..m : \A q \in 1..i : parent[q] = Outer(open, j) => q <= open[j]
  BY <1>1, ElementOfSeq DEF OpenChain
<1>3. open = <<>> <=> m = 0
  BY <1>2, EmptySeq
<1>4. parent[i + 1] = IF m = 0 THEN 0 ELSE open[m]
  BY <1>1, <1>3 DEF Innermost, Last
<1>5. \A j \in 1..m : Outer(open, j) # parent[i + 1]
  <2>1. ASSUME NEW j \in 1..m PROVE Outer(open, j) # open[m]
    <3>1. CASE j = 1
      <4>1. m \in 1..m
        OBVIOUS
      <4>2. open[m] \in 1..i
        BY <1>2, <4>1
      <4> QED BY <3>1, <4>2 DEF Outer
    <3>2. CASE j # 1
      <4>1. j - 1 \in 1..m /\ m \in 1..m /\ j - 1 < m
        BY <3>2
      <4>2. open[j - 1] < open[m] /\ open[m] \in 1..i /\ open[j - 1] \in 1..i
        BY <1>2, <4>1
      <4> QED BY <3>2, <4>2 DEF Outer
    <3> QED BY <3>1, <3>2
  <2> QED BY <1>4, <2>1
<1>6. OpenChain(open, i + 1, parent)
  <2>1. 1..i \subseteq 1..(i + 1)
    OBVIOUS
  <2>2. open \in Seq(1..(i + 1))
    BY <1>2, <2>1, SeqMonotonic
  <2>3. ASSUME NEW j \in 1..m, NEW q \in 1..(i + 1), parent[q] = Outer(open, j)
        PROVE  q <= open[j]
    <3>1. q \in 1..i
      BY <1>5, <2>3
    <3> QED BY <1>2, <2>3, <3>1
  <2> QED BY <1>1, <1>2, <2>2, <2>3 DEF OpenChain
<1>7. OpenChain(Append(open, i + 1), i + 1, parent)
  <2>1. PICK more : more = Append(open, i + 1)
    OBVIOUS
  <2>2. i + 1 \in 1..(i + 1) /\ open \in Seq(1..(i + 1))
    BY <1>6 DEF OpenChain
  <2>3. /\ more \in Seq(1..(i + 1)) /\ Len(more) = m + 1 /\ more[m + 1] = i + 1
        /\ \A j \in 1..m : more[j] = open[j]
    BY <1>1, <2>1, <2>2, AppendProperties
  <2>4. \A j \in 1..m : Outer(more, j) = Outer(open, j)
    <3>1. ASSUME NEW j \in 1..m PROVE Outer(more, j) = Outer(open, j)
      <4>1. j # 1 => j - 1 \in 1..m
        OBVIOUS
      <4> QED BY <2>3, <4>1 DEF Outer
    <3> QED BY <3>1
  <2>5. Outer(more, m + 1) = parent[i + 1]
    <3>1. m # 0 => m \in 1..m /\ (m + 1) - 1 = m /\ m + 1 # 1
      OBVIOUS
    <3> QED BY <1>4, <2>3, <3>1 DEF Outer
  <2>6. ASSUME NEW j \in 1..(m + 1), NEW k \in 1..(m + 1), j < k PROVE more[j] < more[k]
    <3>1. j \in 1..m
      BY <2>6
    <3>2. CASE k = m + 1
      BY <1>2, <2>3, <3>1, <3>2
    <3>3. CASE k # m + 1
      <4>1. k \in 1..m
        BY <3>3
      <4> QED BY <1>2, <2>3, <2>6, <3>1, <4>1
    <3> QED BY <3>2, <3>3
  <2>7. ASSUME NEW j \in 1..(m + 1) PROVE parent[more[j]] = Outer(more, j)
    <3>1. CASE j = m + 1
      BY <2>3, <2>5, <3>1
    <3>2. CASE j # m + 1
      <4>1. j \in 1..m
        BY <3>2
      <4> QED BY <1>2, <2>3, <2>4, <4>1
    <3> QED BY <3>1, <3>2
  <2>8. ASSUME NEW j \in 1..(m + 1), NEW q \in 1..(i + 1), parent[q] = Outer(more, j)
        PROVE  q <= more[j]
    <3>1. CASE j = m + 1
      BY <2>3, <3>1
    <3>2. CASE j # m + 1
      <4>1. j \in 1..m
        BY <3>2
      <4>2. q \in 1..i
        BY <1>5, <2>4, <2>8, <4>1
      <4> QED BY <1>2, <2>3, <2>4, <2>8, <4>1, <4>2
    <3> QED BY <3>1, <3>2
  <2>9. OpenChain(more, i + 1, parent)
    BY <2>3, <2>6, <2>7, <2>8 DEF OpenChain
  <2> QED BY <2>1, <2>9
<1>8. ASSUME open # <<>> PROVE OpenChain(Front(open), i + 1, parent)
  <2>1. PICK less : less = Front(open)
    OBVIOUS
  <2>2. m - 1 \in Nat
    BY <1>3, <1>8
  <2>3. /\ less \in Seq(1..(i + 1)) /\ Len(less) = m - 1
        /\ \A j \in 1..(m - 1) : j \in 1..m /\ less[j] = open[j]
    <3>1. PICK last : last = m - 1
      OBVIOUS
    <3>2. less = SubSeq(open, 1, last) /\ last \in Nat
      BY <1>1, <2>1, <2>2, <3>1 DEF Front
    <3>3. \A j \in 1..last : open[j] \in 1..(i + 1)
      <4>1. \A j \in 1..last : j \in 1..m
        BY <3>1
      <4>2. \A x \in 1..i : x \in 1..(i + 1)
        OBVIOUS
      <4> QED BY <1>2, <4>1, <4>2
    <3>4. 1 \in Int /\ last \in Int
      BY <3>2
    <3>5. /\ SubSeq(open, 1, last) \in Seq(1..(i + 1))
          /\ Len(SubSeq(open, 1, last)) = IF 1 <= last THEN last - 1 + 1 ELSE 0
          /\ \A j \in 1..(last - 1 + 1) : SubSeq(open, 1, last)[j] = open[1 + j - 1]
      BY <3>3, <3>4, SubSeqProperties
    <3>6. less \in Seq(1..(i + 1)) /\ Len(less) = last
      BY <3>2, <3>5
    <3>7. \A j \in 1..last : j \in 1..(last - 1 + 1) /\ 1 + j - 1 = j
      BY <3>2
    <3>8. \A j \in 1..last : less[j] = open[j]
      BY <3>2, <3>5, <3>7
    <3>9. \A j \in 1..last : j \in 1..m
      BY <3>1
    <3> QED BY <3>1, <3>6, <3>8, <3>9
  <2>4. \A j \in 1..(m - 1) : Outer(less, j) = Outer(open, j)
    <3>1. ASSUME NEW j \in 1..(m - 1) PROVE Outer(less, j) = Outer(open, j)
      <4>1. j # 1 => j - 1 \in 1..(m - 1)
        OBVIOUS
      <4> QED BY <2>3, <4>1 DEF Outer
    <3> QED BY <3>1
  <2>5. /\ \A j \in 1..m : \A k \in 1..m : j < k => open[j] < open[k]
        /\ \A j \in 1..m : parent[open[j]] = Outer(open, j)
        /\ \A j \in 1..m : \A q \in 1..(i + 1) : parent[q] = Outer(open, j) => q <= open[j]
    BY <1>1, <1>6 DEF OpenChain
  <2>6. OpenChain(less, i + 1, parent)
    BY <2>3, <2>4, <2>5 DEF OpenChain
  <2> QED BY <2>1, <2>6
<1> QED BY <1>6, <1>7, <1>8 DEF OpenAfter

(* The composites that are open, and the top, are the way from the top to  *)
(* the place where the next operator is hung.                              *)
OnWay(open) == {0} \cup Range(open)

(* A way that ends at end: of what hangs at a place before the end the     *)
(* last one, and no other, is on the way, and of what hangs at the end or  *)
(* beside the way nothing is.                                              *)
Spine(way, end, kids, n) ==
    /\ end \in way /\ way \subseteq 0..n
    /\ \A x \in 0..n : x \notin way \/ x = end =>
          \A k \in 1..Len(kids[x]) : kids[x][k] \notin way
    /\ \A x \in way \ {end} :
          /\ kids[x] # <<>>
          /\ \A k \in 1..Len(kids[x]) : kids[x][k] \in way <=> k = Len(kids[x])

(* The open composites are such a way.                                     *)
LEMMA ChainIsSpine ==
  ASSUME NEW n \in Nat, NEW i \in 0..n, NEW parent, NEW open, OpenChain(open, i, parent),
         NEW kids \in [0..n -> Seq(1..n)],
         KidsInOrder(kids, n, i, parent), HangsBelow(kids, n, i, parent)
  PROVE  Spine(OnWay(open), Innermost(open), kids, n)
<1>1. PICK m \in Nat : m = Len(open)
  BY LenProperties DEF OpenChain
<1>2. /\ open \in Seq(1..i) /\ Len(open) = m /\ DOMAIN open = 1..m
      /\ \A j \in 1..m : open[j] \in 1..i
      /\ \A j \in 1..m : \A k \in 1..m : j < k => open[j] < open[k]
      /\ \A j \in 1..m : parent[open[j]] = Outer(open, j)
      /\ \A j \in 1..m : \A q \in 1..i : parent[q] = Outer(open, j) => q <= open[j]
  BY <1>1, ElementOfSeq, LenProperties DEF OpenChain
<1>3. open = <<>> <=> m = 0
  BY <1>2, EmptySeq
<1>4. PICK way : way = OnWay(open)
  OBVIOUS
<1>5. PICK end : end = Innermost(open)
  OBVIOUS
<1>6. \A x : x \in way <=> x = 0 \/ \E j \in 1..m : x = open[j]
  BY <1>2, <1>4 DEF OnWay, Range
<1>7. end = IF m = 0 THEN 0 ELSE open[m]
  BY <1>1, <1>3, <1>5 DEF Innermost, Last
<1>8. \A j \in 1..m : Outer(open, j) \in way /\ Outer(open, j) # end
  <2>1. ASSUME NEW j \in 1..m PROVE Outer(open, j) \in way /\ Outer(open, j) # open[m]
    <3>0. m \in 1..m /\ open[m] \in 1..i
      BY <1>2
    <3>1. CASE j = 1
      BY <1>6, <3>0, <3>1 DEF Outer
    <3>2. CASE j # 1
      <4>1. j - 1 \in 1..m /\ j - 1 < m
        BY <3>2
      <4>2. open[j - 1] < open[m] /\ open[j - 1] \in 1..i
        BY <1>2, <3>0, <4>1
      <4>3. open[j - 1] # open[m]
        BY <3>0, <4>2
      <4> QED BY <1>6, <3>2, <4>1, <4>3 DEF Outer
    <3> QED BY <3>1, <3>2
  <2> QED BY <1>7, <2>1
<1>9. \A x \in way : x # end => \E j \in 1..m : x = Outer(open, j)
  <2>1. ASSUME NEW x \in way, x # end PROVE \E j \in 1..m : x = Outer(open, j)
    <3>1. CASE x = 0
      <4>1. m # 0
        BY <1>7, <2>1, <3>1
      <4>2. 1 \in 1..m /\ x = Outer(open, 1)
        BY <3>1, <4>1 DEF Outer
      <4> QED BY <4>2
    <3>2. CASE x # 0
      <4>1. PICK j \in 1..m : x = open[j]
        BY <1>6, <3>2
      <4>2. j # m
        BY <1>7, <2>1, <4>1
      <4>3. j + 1 \in 1..m /\ (j + 1) - 1 = j /\ j + 1 # 1
        BY <4>2
      <4>4. x = Outer(open, j + 1)
        BY <4>1, <4>3 DEF Outer
      <4> QED BY <4>3, <4>4
    <3> QED BY <3>1, <3>2
  <2> QED BY <2>1
<1>10. \A j \in 1..m : \A l \in 1..m : Outer(open, j) = Outer(open, l) => open[j] = open[l]
  <2>1. ASSUME NEW j \in 1..m, NEW l \in 1..m, Outer(open, j) = Outer(open, l)
        PROVE  open[j] = open[l]
    <3>1. open[j] \in 1..i /\ open[l] \in 1..i
      BY <1>2
    <3>2. open[j] <= open[l] /\ open[l] <= open[j]
      BY <1>2, <2>1, <3>1
    <3> QED BY <3>1, <3>2
  <2> QED BY <2>1
<1>11. end \in way
  <2>1. m # 0 => m \in 1..m
    OBVIOUS
  <2> QED BY <1>6, <1>7, <2>1
<1>12. way \subseteq 0..n
  <2>1. \A x \in 1..i : x \in 0..n
    OBVIOUS
  <2>2. 0 \in 0..n
    OBVIOUS
  <2>3. ASSUME NEW x \in way PROVE x \in 0..n
    <3>1. x = 0 \/ \E j \in 1..m : x = open[j]
      BY <1>6
    <3>2. x = 0 \/ x \in 1..i
      BY <1>2, <3>1
    <3> QED BY <2>1, <2>2, <3>2
  <2> QED BY <2>3
<1>13. \A x \in 0..n : \A k \in 1..Len(kids[x]) : kids[x][k] \in 1..i /\ parent[kids[x][k]] = x
  BY DEF HangsBelow
<1>14. ASSUME NEW x \in 0..n, NEW k \in 1..Len(kids[x]), kids[x][k] \in way
       PROVE  \E j \in 1..m : kids[x][k] = open[j] /\ x = Outer(open, j)
  <2>1. kids[x][k] # 0
    BY SMTT(30), <1>13
  <2>2. PICK j \in 1..m : kids[x][k] = open[j]
    BY <1>6, <1>14, <2>1
  <2>3. x = Outer(open, j)
    <3>1. parent[kids[x][k]] = x
      BY <1>13
    <3>2. parent[open[j]] = Outer(open, j)
      BY <1>2
    <3> QED BY <2>2, <3>1, <3>2
  <2> QED BY <2>2, <2>3
<1>15. ASSUME NEW x \in 0..n, x \notin way \/ x = end, NEW k \in 1..Len(kids[x])
       PROVE  kids[x][k] \notin way
  BY SMTT(30), <1>8, <1>14, <1>15
<1>16. ASSUME NEW x \in way \ {end}
       PROVE  /\ kids[x] # <<>>
              /\ \A k \in 1..Len(kids[x]) : kids[x][k] \in way <=> k = Len(kids[x])
  <2>1. PICK j \in 1..m : x = Outer(open, j)
    BY <1>9, <1>16
  <2>2. x \in 0..n
    BY <1>12, <1>16
  <2>3. PICK r \in Nat : r = Len(kids[x])
    BY <2>2, LenProperties
  <2>4. /\ \A k \in 1..r : \A l \in 1..r : k < l => kids[x][k] < kids[x][l]
        /\ \A q \in 1..i : parent[q] = x => \E k \in 1..r : kids[x][k] = q
    BY <2>2, <2>3 DEF KidsInOrder
  <2>5. \A k \in 1..r : kids[x][k] \in 1..i /\ parent[kids[x][k]] = x
    BY <1>13, <2>2, <2>3
  <2>6. open[j] \in 1..i /\ parent[open[j]] = x
    BY <1>2, <2>1
  <2>7. PICK h \in 1..r : kids[x][h] = open[j]
    BY <2>4, <2>6
  <2>8. h = r
    <3>1. r \in 1..r
      OBVIOUS
    <3>2. kids[x][r] <= open[j]
      BY <1>2, <2>1, <2>5, <3>1
    <3>3. h < r => open[j] < kids[x][r]
      BY <2>4, <2>7, <3>1
    <3>4. kids[x][r] \in 1..i
      BY <2>5, <3>1
    <3> QED BY SMTT(30), <2>6, <3>2, <3>3, <3>4
  <2>9. ASSUME NEW k \in 1..r, kids[x][k] \in way PROVE k = r
    <3>1. PICK l \in 1..m : kids[x][k] = open[l] /\ x = Outer(open, l)
      BY <1>14, <2>2, <2>3, <2>9
    <3>2. kids[x][k] = open[j]
      BY <1>10, <2>1, <3>1
    <3>3. k < r => kids[x][k] < kids[x][r]
      BY <2>4, <2>7, <2>8
    <3> QED BY <2>6, <2>7, <2>8, <3>2, <3>3
  <2>10. kids[x][r] \in way
    BY <1>6, <2>7, <2>8
  <2>11. kids[x] # <<>>
    <3>1. Len(kids[x]) # 0
      BY <2>3, <2>7
    <3> QED BY <3>1, EmptySeq
  <2> QED BY <2>3, <2>9, <2>10, <2>11
<1>17. Spine(way, end, kids, n)
  BY <1>11, <1>12, <1>15, <1>16 DEF Spine
<1> QED BY <1>4, <1>5, <1>17

(* What is open before an operator of a word is such a chain, and the      *)
(* operator hangs at its end.                                              *)
LEMMA OpenIsChain ==
  ASSUME NEW w \in Seq(Operators), NEW n \in Nat, Len(w) = n
  PROVE  \A i \in 0..n :
           /\ OpenChain(OpenBefore(w)[i + 1], i, Parents(OpenBefore(w)))
           /\ i < n => Parents(OpenBefore(w))[i + 1] = Innermost(OpenBefore(w)[i + 1])
<1>1. PICK b : b = OpenBefore(w)
  OBVIOUS
<1>2. PICK parent : parent = Parents(b)
  OBVIOUS
<1>3. /\ b[1] = <<>>
      /\ \A i \in 1..n : b[i + 1] = OpenAfter(b[i], w, i)
  BY <1>1, OpenBeforeOpened DEF Opened
<1>4. \A i \in 1..n : /\ parent[i] \in 0..(i - 1)
                      /\ parent[i] = Innermost(b[i])
  BY <1>1, <1>2, ParentsType DEF Innermost
<1> DEFINE X == {i \in 0..n : OpenChain(b[i + 1], i, parent)}
<1>5. 0 \in X
  <2>1. PICK none : none = b[0 + 1]
    OBVIOUS
  <2>2. none = <<>>
    BY <1>3, <2>1
  <2>3. none \in Seq(1..0) /\ Len(none) = 0
    BY <2>2, EmptySeq
  <2>4. OpenChain(none, 0, parent)
    BY <2>3 DEF OpenChain
  <2> QED BY <2>1, <2>4
<1>6. ASSUME NEW i \in 0..(n - 1), i \in X PROVE i + 1 \in X
  <2>1. i \in Nat /\ i + 1 \in 1..n /\ i + 1 \in 0..n
    OBVIOUS
  <2>2. PICK open : open = b[i + 1]
    OBVIOUS
  <2>3. OpenChain(open, i, parent)
    BY <1>6, <2>2
  <2>4. \A q \in 1..i : parent[q] \in 0..(q - 1)
    <3>1. \A q \in 1..i : q \in 1..n
      OBVIOUS
    <3> QED BY <1>4, <3>1
  <2>5. parent[i + 1] = Innermost(open)
    BY <1>4, <2>1, <2>2
  <2>6. OpenChain(OpenAfter(open, w, i + 1), i + 1, parent)
    BY <2>1, <2>3, <2>4, <2>5, OpenStaysChain
  <2>7. b[(i + 1) + 1] = OpenAfter(open, w, i + 1)
    BY <1>3, <2>1, <2>2
  <2> QED BY <2>1, <2>6, <2>7
<1> HIDE DEF X
<1>7. \A i \in 0..n : i \in X
  BY <1>5, <1>6, UpTo0
<1>8. \A i \in 0..n : OpenChain(b[i + 1], i, parent)
  BY <1>7 DEF X
<1>9. \A i \in 0..n : i < n => parent[i + 1] = Innermost(b[i + 1])
  <2>1. \A i \in 0..n : i < n => i + 1 \in 1..n
    OBVIOUS
  <2> QED BY <1>4, <2>1
<1> QED BY <1>1, <1>2, <1>8, <1>9

(* A walk of the kids is a sequence of walks.                              *)
LEMMA KidWalksType ==
  ASSUME NEW n \in Nat, NEW kids \in [0..n -> Seq(1..n)],
         NEW W \in [0..n -> Seq(0..n)], NEW x \in 0..n
  PROVE  /\ KidWalks(W, kids, x) \in Seq(Seq(0..n))
         /\ Len(KidWalks(W, kids, x)) = Len(kids[x])
         /\ FlattenSeq(KidWalks(W, kids, x)) \in Seq(0..n)
<1>1. PICK m \in Nat : m = Len(kids[x])
  BY LenProperties
<1>2. \A k \in 1..m : kids[x][k] \in 1..n
  BY <1>1, ElementOfSeq
<1>3. \A k \in 1..m : W[kids[x][k]] \in Seq(0..n)
  <2>1. \A k \in 1..m : kids[x][k] \in 0..n
    BY <1>2
  <2> QED BY <2>1
<1>4. KidWalks(W, kids, x) \in [1..m -> Seq(0..n)]
  BY <1>1, <1>3 DEF KidWalks
<1>5. KidWalks(W, kids, x) \in Seq(Seq(0..n)) /\ Len(KidWalks(W, kids, x)) = m
  BY <1>4, SeqIsFunction
<1>6. FlattenSeq(KidWalks(W, kids, x)) \in Seq(0..n)
  BY <1>5, FlattenFacts
<1> QED BY <1>1, <1>5, <1>6

(* A sequence whose last part grows grows by the same at its end.          *)
LEMMA FlattenGrows ==
  ASSUME NEW S, NEW r \in Seq(Seq(S)), NEW e \in Seq(S), NEW x \in S
  PROVE  FlattenSeq(Append(r, Append(e, x))) = FlattenSeq(Append(r, e)) \o <<x>>
<1>1. PICK a, one : a = FlattenSeq(r) /\ one = <<x>>
  OBVIOUS
<1>2. a \in Seq(S) /\ one \in Seq(S)
  BY <1>1, FlattenFacts
<1>3. Append(e, x) \in Seq(S) /\ Append(e, x) = e \o one
  BY <1>1, AppendProperties, AppendIsConcat
<1>4. FlattenSeq(Append(r, Append(e, x))) = a \o (e \o one)
  BY ZenonT(40), <1>1, <1>3, FlattenFacts
<1>5. FlattenSeq(Append(r, e)) = a \o e
  BY <1>1, FlattenFacts
<1>6. (a \o e) \o one = a \o (e \o one)
  BY SMTT(30), <1>2, ConcatAssociative
<1> QED BY <1>1, <1>4, <1>5, <1>6

(* The walks with operator new behind them, for the operators on the way.  *)
Walked(W, way, new, n) == [x \in 0..n |-> IF x \in way THEN Append(W[x], new) ELSE W[x]]

(* One more operator below end.                                            *)
HungAt(kids, end, new) == [kids EXCEPT ![end] = Append(@, new)]

(* An operator without kids that is hung at the end of the way comes last  *)
(* in the walks of those on the way.                                       *)
LEMMA WalksGrow ==
  ASSUME NEW n \in Nat, NEW kids \in [0..n -> Seq(1..n)],
         NEW W, Walks(W, kids, n), NEW way, NEW end, Spine(way, end, kids, n),
         NEW new \in 1..n, new \notin way, kids[new] = <<>>
  PROVE  Walks(Walked(W, way, new, n), HungAt(kids, end, new), n)
<1>1. PICK V : V = Walked(W, way, new, n)
  OBVIOUS
<1>2. PICK more : more = HungAt(kids, end, new)
  OBVIOUS
<1>3. W \in [0..n -> Seq(0..n)] /\ \A x \in 0..n : W[x] = <<x>> \o FlattenSeq(KidWalks(W, kids, x))
  BY DEF Walks
<1>4. /\ end \in way /\ way \subseteq 0..n
      /\ \A x \in 0..n : x \notin way \/ x = end =>
            \A k \in 1..Len(kids[x]) : kids[x][k] \notin way
      /\ \A x \in way \ {end} :
            /\ kids[x] # <<>>
            /\ \A k \in 1..Len(kids[x]) : kids[x][k] \in way <=> k = Len(kids[x])
  BY DEF Spine
<1>5. new \in 0..n
  OBVIOUS
<1>6. V \in [0..n -> Seq(0..n)]
  <2>1. \A x \in 0..n : Append(W[x], new) \in Seq(0..n)
    BY <1>3, <1>5, AppendProperties
  <2> QED BY <1>1, <1>3, <2>1 DEF Walked
<1>7. \A x \in 0..n : V[x] = IF x \in way THEN Append(W[x], new) ELSE W[x]
  BY <1>1 DEF Walked
<1>8. more \in [0..n -> Seq(1..n)]
  <2>1. Append(kids[end], new) \in Seq(1..n)
    BY <1>4, AppendProperties
  <2> QED BY <1>2, <2>1 DEF HungAt
<1>9. \A x \in 0..n : more[x] = IF x = end THEN Append(kids[x], new) ELSE kids[x]
  BY <1>2 DEF HungAt
<1>10. \A x \in 0..n : \A k \in 1..Len(kids[x]) : kids[x][k] \in 0..n
  <2>1. ASSUME NEW x \in 0..n, NEW k \in 1..Len(kids[x]) PROVE kids[x][k] \in 0..n
    <3>1. PICK y : y = kids[x][k]
      OBVIOUS
    <3>2. y \in 1..n
      BY <3>1, ElementOfSeq
    <3>3. y \in 0..n
      BY <3>2
    <3> QED BY <3>1, <3>3
  <2> QED BY <2>1
<1>11. \A x \in 0..n : x \in way => V[x] = <<x>> \o (FlattenSeq(KidWalks(W, kids, x)) \o <<new>>)
  <2>1. ASSUME NEW x \in 0..n, x \in way
        PROVE  V[x] = <<x>> \o (FlattenSeq(KidWalks(W, kids, x)) \o <<new>>)
    <3>1. PICK t : t = FlattenSeq(KidWalks(W, kids, x))
      OBVIOUS
    <3>2. t \in Seq(0..n) /\ <<x>> \in Seq(0..n) /\ <<new>> \in Seq(0..n)
      <4>1. t \in Seq(0..n)
        BY <1>3, <3>1, KidWalksType
      <4>2. <<x>> \in Seq(0..n)
        OBVIOUS
      <4>3. <<new>> \in Seq(0..n)
        BY <1>5
      <4> QED BY <4>1, <4>2, <4>3
    <3>3. V[x] = Append(W[x], new) /\ W[x] = <<x>> \o t /\ W[x] \in Seq(0..n)
      BY <1>3, <1>7, <2>1, <3>1
    <3>4. Append(W[x], new) = W[x] \o <<new>>
      BY <1>5, <3>3, AppendIsConcat
    <3>5. (<<x>> \o t) \o <<new>> = <<x>> \o (t \o <<new>>)
      BY SMTT(60), <3>2, ConcatAssociative
    <3> QED BY <3>1, <3>3, <3>4, <3>5
  <2> QED BY <2>1
<1>12. W[new] = <<new>>
  <2>1. PICK none : none = KidWalks(W, kids, new)
    OBVIOUS
  <2>2. none \in Seq(Seq(0..n)) /\ Len(none) = Len(kids[new])
    BY ZenonT(40), <1>3, <1>5, <2>1, KidWalksType
  <2>3. Len(none) = 0
    BY <2>2, EmptySeq
  <2>4. none = <<>>
    BY <2>2, <2>3, EmptySeq
  <2>5. FlattenSeq(none) = <<>>
    BY <2>4, FlattenFacts
  <2>6. W[new] = <<new>> \o <<>>
    BY <1>3, <1>5, <2>1, <2>5
  <2>7. <<new>> \in Seq(0..n)
    BY <1>5
  <2>8. <<new>> \o <<>> = <<new>>
    BY <2>7, ConcatEmptySeq
  <2> QED BY <2>6, <2>8
<1>13. ASSUME NEW x \in 0..n PROVE V[x] = <<x>> \o FlattenSeq(KidWalks(V, more, x))
  <2>1. PICK m \in Nat : m = Len(kids[x])
    BY LenProperties
  <2>2. PICK KW : KW = KidWalks(W, kids, x)
    OBVIOUS
  <2>3. PICK KV : KV = KidWalks(V, more, x)
    OBVIOUS
  <2>4. /\ KW \in Seq(Seq(0..n)) /\ Len(KW) = m /\ FlattenSeq(KW) \in Seq(0..n)
        /\ \A k \in 1..m : KW[k] = W[kids[x][k]]
    <3>0. W \in [0..n -> Seq(0..n)]
      BY <1>3
    <3>a. /\ KidWalks(W, kids, x) \in Seq(Seq(0..n))
          /\ Len(KidWalks(W, kids, x)) = Len(kids[x])
          /\ FlattenSeq(KidWalks(W, kids, x)) \in Seq(0..n)
      BY <3>0, KidWalksType
    <3>1. KW \in Seq(Seq(0..n)) /\ Len(KW) = m /\ FlattenSeq(KW) \in Seq(0..n)
      BY <2>1, <2>2, <3>a
    <3>2. \A k \in 1..m : KW[k] = W[kids[x][k]]
      BY <2>1, <2>2 DEF KidWalks
    <3> QED BY <3>1, <3>2
  <2>5. /\ KV \in Seq(Seq(0..n)) /\ Len(KV) = Len(more[x])
        /\ \A k \in 1..Len(more[x]) : KV[k] = V[more[x][k]]
    <3>1. KV \in Seq(Seq(0..n)) /\ Len(KV) = Len(more[x])
      BY ZenonT(40), <1>6, <1>8, <2>3, KidWalksType
    <3>2. \A k \in 1..Len(more[x]) : KV[k] = V[more[x][k]]
      BY <2>3 DEF KidWalks
    <3> QED BY <3>1, <3>2
  <2>6. CASE x \notin way
    <3>1. more[x] = kids[x]
      BY <1>4, <1>9, <2>6
    <3>2. \A k \in 1..m : V[kids[x][k]] = W[kids[x][k]]
      BY <1>4, <1>7, <1>10, <2>1, <2>6
    <3>3. KV = KW
      <4>1. \A k \in 1..m : KV[k] = KW[k]
        BY <2>1, <2>4, <2>5, <3>1, <3>2
      <4> QED BY <2>1, <2>4, <2>5, <3>1, <4>1, SameSeq
    <3> QED BY <1>3, <1>7, <2>2, <2>3, <2>6, <3>3
  <2>7. CASE x = end
    <3>1. more[x] = Append(kids[x], new) /\ kids[x] \in Seq(1..n)
      BY <1>9, <2>7
    <3>2. /\ Len(more[x]) = m + 1 /\ more[x][m + 1] = new
          /\ \A k \in 1..m : more[x][k] = kids[x][k]
      BY <2>1, <3>1, AppendProperties
    <3>3. \A k \in 1..m : V[kids[x][k]] = W[kids[x][k]]
      BY <1>4, <1>7, <1>10, <2>1, <2>7
    <3>4. V[new] = <<new>>
      BY <1>5, <1>7, <1>12
    <3>5. <<new>> \in Seq(0..n)
      BY <1>5
    <3>6. PICK KA : KA = Append(KW, <<new>>)
      OBVIOUS
    <3>7. /\ KA \in Seq(Seq(0..n)) /\ Len(KA) = m + 1 /\ KA[m + 1] = <<new>>
          /\ \A k \in 1..m : KA[k] = KW[k]
      <4>1. PICK S, one : S = Seq(0..n) /\ one = <<new>>
        OBVIOUS
      <4>2. KW \in Seq(S) /\ one \in S /\ KA = Append(KW, one) /\ Len(KW) = m
        BY <2>4, <3>5, <3>6, <4>1
      <4>3. /\ KA \in Seq(S) /\ Len(KA) = Len(KW) + 1 /\ KA[Len(KW) + 1] = one
            /\ \A k \in 1..Len(KW) : KA[k] = KW[k]
        BY SMTT(30), <4>2, AppendProperties
      <4> QED BY <4>1, <4>2, <4>3
    <3>8. \A k \in 1..(m + 1) : KV[k] = KA[k]
      <4>1. ASSUME NEW k \in 1..(m + 1) PROVE KV[k] = KA[k]
        <5>1. KV[k] = V[more[x][k]]
          BY <2>5, <3>2
        <5>2. CASE k = m + 1
          BY <3>2, <3>4, <3>7, <5>1, <5>2
        <5>3. CASE k # m + 1
          <6>1. k \in 1..m
            BY <5>3
          <6> QED BY ZenonT(40), <2>4, <3>2, <3>3, <3>7, <5>1, <6>1
        <5> QED BY <5>2, <5>3
      <4> QED BY <4>1
    <3>9. KV = KA
      BY <2>5, <3>2, <3>7, <3>8, SameSeq
    <3>10. FlattenSeq(KV) = FlattenSeq(KW) \o <<new>>
      BY <2>4, <3>5, <3>6, <3>9, FlattenFacts
    <3> QED BY <1>4, <1>11, <2>2, <2>3, <2>7, <3>10
  <2>8. CASE x \in way /\ x # end
    <3>1. more[x] = kids[x] /\ kids[x] \in Seq(1..n)
      BY <1>9, <2>8
    <3>2. kids[x] # <<>> /\ \A k \in 1..m : kids[x][k] \in way <=> k = m
      BY <1>4, <2>1, <2>8
    <3>3. m # 0
      BY <2>1, <3>1, <3>2, EmptySeq
    <3>4. KW # <<>>
      BY <2>4, <3>3, EmptySeq
    <3>a. PICK r \in Seq(Seq(0..n)), e \in Seq(0..n) : KW = Append(r, e)
      <4>1. PICK S : S = Seq(0..n)
        OBVIOUS
      <4>2. KW \in Seq(S)
        BY <2>4, <4>1
      <4>3. \E r \in Seq(S), e \in S : KW = Append(r, e)
        BY <3>4, <4>2, SequenceEmptyOrAppend
      <4> QED BY <4>1, <4>3
    <3>5. /\ Len(r) + 1 = m /\ KW[m] = e /\ \A k \in 1..(m - 1) : KW[k] = r[k]
      <4>1. Len(KW) = Len(r) + 1 /\ KW[Len(r) + 1] = e /\ \A k \in 1..Len(r) : KW[k] = r[k]
        BY <3>a, AppendProperties
      <4>2. Len(r) \in Nat
        BY LenProperties
      <4>3. Len(r) = m - 1
        BY <2>4, <4>1, <4>2
      <4> QED BY <2>4, <4>1, <4>3
    <3>6. PICK d : d = Append(e, new)
      OBVIOUS
    <3>7. d \in Seq(0..n) /\ d = e \o <<new>> /\ <<new>> \in Seq(0..n)
      BY SMTT(30), <1>5, <3>6, AppendProperties, AppendIsConcat
    <3>8. PICK KA : KA = Append(r, d)
      OBVIOUS
    <3>9. /\ KA \in Seq(Seq(0..n)) /\ Len(KA) = m /\ KA[m] = d
          /\ \A k \in 1..(m - 1) : KA[k] = r[k]
      <4>1. /\ KA \in Seq(Seq(0..n)) /\ Len(KA) = Len(r) + 1 /\ KA[Len(r) + 1] = d
            /\ \A k \in 1..Len(r) : KA[k] = r[k]
        <5>1. PICK S : S = Seq(0..n)
          OBVIOUS
        <5>2. r \in Seq(S) /\ d \in S
          BY <3>7, <5>1
        <5>3. /\ KA \in Seq(S) /\ Len(KA) = Len(r) + 1 /\ KA[Len(r) + 1] = d
              /\ \A k \in 1..Len(r) : KA[k] = r[k]
          BY <3>8, <5>2, AppendProperties
        <5> QED BY <5>1, <5>3
      <4>2. Len(r) = m - 1
        <5>1. Len(r) \in Nat
          BY LenProperties
        <5> QED BY <3>5, <5>1
      <4> QED BY <3>5, <4>1, <4>2
    <3>10. \A k \in 1..m : KV[k] = KA[k]
      <4>1. ASSUME NEW k \in 1..m PROVE KV[k] = KA[k]
        <5>1. KV[k] = V[kids[x][k]] /\ kids[x][k] \in 0..n
          BY <1>10, <2>1, <2>5, <3>1
        <5>2. KW[k] = W[kids[x][k]]
          BY <2>4
        <5>3. CASE k = m
          <6>1. V[kids[x][k]] = Append(W[kids[x][k]], new)
            BY <1>7, <3>2, <5>1, <5>3
          <6>2. W[kids[x][k]] = e
            BY <3>5, <5>2, <5>3
          <6> QED BY <3>6, <3>9, <5>1, <5>3, <6>1, <6>2
        <5>4. CASE k # m
          <6>1. V[kids[x][k]] = W[kids[x][k]]
            BY <1>7, <3>2, <5>1, <5>4
          <6>2. k \in 1..(m - 1)
            BY <5>4
          <6> QED BY <3>5, <3>9, <5>1, <5>2, <6>1, <6>2
        <5> QED BY <5>3, <5>4
      <4> QED BY <4>1
    <3>11. KV = KA
      BY <2>1, <2>5, <3>1, <3>9, <3>10, SameSeq
    <3>14. FlattenSeq(KV) = FlattenSeq(KW) \o <<new>>
      <4>1. KV = Append(r, Append(e, new)) /\ KW = Append(r, e)
        BY <3>a, <3>6, <3>8, <3>11
      <4>2. FlattenSeq(Append(r, Append(e, new))) = FlattenSeq(Append(r, e)) \o <<new>>
        BY ZenonT(40), <1>5, FlattenGrows
      <4> QED BY <4>1, <4>2
    <3> QED BY <1>11, <2>2, <2>3, <2>8, <3>14
  <2> QED BY <2>6, <2>7, <2>8
<1>14. Walks(V, more, n)
  BY <1>6, <1>13 DEF Walks
<1> QED BY <1>1, <1>2, <1>14

(* The first i + 1 numbers, in order.                                      *)
UpFrom0(i) == [k \in 1..(i + 1) |-> k - 1]

(* One more number behind them.                                            *)
LEMMA UpFrom0Grows ==
  ASSUME NEW i \in Nat
  PROVE  Append(UpFrom0(i), i + 1) = UpFrom0(i + 1)
<1>1. PICK s : s = UpFrom0(i)
  OBVIOUS
<1>2. PICK t : t = UpFrom0(i + 1)
  OBVIOUS
<1>3. /\ s \in Seq(Nat) /\ Len(s) = i + 1 /\ \A k \in 1..(i + 1) : s[k] = k - 1
  <2>1. s \in [1..(i + 1) -> Nat] /\ \A k \in 1..(i + 1) : s[k] = k - 1
    BY <1>1 DEF UpFrom0
  <2>2. i + 1 \in Nat
    OBVIOUS
  <2> QED BY <2>1, <2>2, SeqIsFunction
<1>4. /\ t \in Seq(Nat) /\ Len(t) = i + 2 /\ \A k \in 1..(i + 2) : t[k] = k - 1
  <2>1. t \in [1..(i + 2) -> Nat] /\ \A k \in 1..(i + 2) : t[k] = k - 1
    BY <1>2 DEF UpFrom0
  <2>2. i + 2 \in Nat
    OBVIOUS
  <2> QED BY <2>1, <2>2, SeqIsFunction
<1>5. PICK a : a = Append(s, i + 1)
  OBVIOUS
<1>6. /\ a \in Seq(Nat) /\ Len(a) = i + 2 /\ a[i + 2] = i + 1
      /\ \A k \in 1..(i + 1) : a[k] = s[k]
  BY <1>3, <1>5, AppendProperties
<1>7. \A k \in 1..(i + 2) : a[k] = t[k]
  <2>1. ASSUME NEW k \in 1..(i + 2) PROVE a[k] = t[k]
    <3>1. CASE k = i + 2
      BY <1>4, <1>6, <3>1
    <3>2. CASE k # i + 2
      BY <1>3, <1>4, <1>6, <3>2
    <3> QED BY <3>1, <3>2
  <2> QED BY <2>1
<1>8. i + 2 \in Nat
  OBVIOUS
<1>9. a = t
  BY <1>4, <1>6, <1>7, <1>8, SameSeq
<1> QED BY <1>1, <1>2, <1>5, <1>9

(* The walk from the top meets the operators that are hung in the order    *)
(* of the word.                                                            *)
InOrder(kids, n, i) == \E W : Walks(W, kids, n) /\ W[0] = UpFrom0(i)

(* So it is when all have been hung.                                       *)
LEMMA HangingsWalked ==
  ASSUME NEW w \in Seq(Operators), NEW n \in Nat, Len(w) = n,
         NEW f, Hangings(f, n, Parents(OpenBefore(w)))
  PROVE  InOrder(f[n], n, n)
<1>1. PICK parent : parent = Parents(OpenBefore(w))
  OBVIOUS
<1>2. PICK b : b = OpenBefore(w)
  OBVIOUS
<1>3. \A i \in 1..n : parent[i] \in 0..(i - 1)
  BY <1>1, ParentsType
<1>4. \A i \in 1..n : parent[i] \in 0..n
  BY <1>3
<1>5. Hangings(f, n, parent)
  BY <1>1
<1>6. /\ f \in [0..n -> [0..n -> Seq(1..n)]]
      /\ f[0] = [p \in 0..n |-> <<>>]
      /\ \A i \in 1..n : f[i] = HungAt(f[i - 1], parent[i], i)
  BY <1>5 DEF Hangings, HungAt
<1>7. \A i \in 0..n : HangsBelow(f[i], n, i, parent) /\ KidsInOrder(f[i], n, i, parent)
  BY <1>4, <1>5, HangingsBelow, HangingsInOrder
<1>8. \A i \in 0..n : OpenChain(b[i + 1], i, parent) /\ (i < n => parent[i + 1] = Innermost(b[i + 1]))
  BY <1>1, <1>2, OpenIsChain
<1> DEFINE X == {i \in 0..n : InOrder(f[i], n, i)}
<1>9. 0 \in X
  <2>1. PICK kids : kids = f[0]
    OBVIOUS
  <2>2. PICK W : W = [x \in 0..n |-> <<x>>]
    OBVIOUS
  <2>3. kids \in [0..n -> Seq(1..n)] /\ \A x \in 0..n : kids[x] = <<>>
    BY <1>6, <2>1, EmptySeq
  <2>4. W \in [0..n -> Seq(0..n)] /\ \A x \in 0..n : W[x] = <<x>>
    BY <2>2
  <2>5. ASSUME NEW x \in 0..n PROVE W[x] = <<x>> \o FlattenSeq(KidWalks(W, kids, x))
    <3>1. PICK none : none = KidWalks(W, kids, x)
      OBVIOUS
    <3>2. none \in Seq(Seq(0..n)) /\ Len(none) = Len(kids[x])
      BY <2>3, <2>4, <3>1, KidWalksType
    <3>3. Len(none) = 0
      BY <2>3, <3>2, EmptySeq
    <3>4. none = <<>>
      BY <3>2, <3>3, EmptySeq
    <3>5. FlattenSeq(none) = <<>>
      BY <3>4, FlattenFacts
    <3>6. <<x>> \o <<>> = <<x>>
      BY ConcatEmptySeq
    <3> QED BY <2>4, <3>1, <3>5, <3>6
  <2>6. W[0] = UpFrom0(0)
    <3>1. W[0] = <<0>>
      BY <2>4
    <3>2. UpFrom0(0) = <<0>>
      BY DEF UpFrom0
    <3> QED BY <3>1, <3>2
  <2>7. Walks(W, kids, n)
    BY <2>4, <2>5 DEF Walks
  <2>8. InOrder(kids, n, 0)
    BY <2>6, <2>7 DEF InOrder
  <2>9. 0 \in 0..n
    OBVIOUS
  <2> QED BY <2>1, <2>8, <2>9
<1>10. ASSUME NEW i \in 0..(n - 1), i \in X PROVE i + 1 \in X
  <2>1. i \in 0..n /\ i + 1 \in 0..n /\ i + 1 \in 1..n /\ (i + 1) - 1 = i /\ i < n /\ i \in Nat
    OBVIOUS
  <2>2. PICK kids : kids = f[i]
    OBVIOUS
  <2>3. PICK open : open = b[i + 1]
    OBVIOUS
  <2>4. PICK way, end : way = OnWay(open) /\ end = Innermost(open)
    OBVIOUS
  <2>5. PICK new : new = i + 1
    OBVIOUS
  <2>6. PICK W : Walks(W, kids, n) /\ W[0] = UpFrom0(i)
    <3>1. InOrder(kids, n, i)
      BY <1>10, <2>2
    <3> QED BY <3>1 DEF InOrder
  <2>7. kids \in [0..n -> Seq(1..n)]
    BY <1>6, <2>1, <2>2
  <2>8. OpenChain(open, i, parent) /\ end = parent[i + 1]
    BY <1>8, <2>1, <2>3, <2>4
  <2>9. HangsBelow(kids, n, i, parent) /\ KidsInOrder(kids, n, i, parent)
    BY <1>7, <2>1, <2>2
  <2>10. Spine(way, end, kids, n)
    BY <2>1, <2>4, <2>7, <2>8, <2>9, ChainIsSpine
  <2>11. new \in 1..n
    BY <2>1, <2>5
  <2>12. new \notin way /\ 0 \in way
    <3>1. open \in Seq(1..i)
      BY <2>8 DEF OpenChain
    <3>2. ASSUME NEW x \in Range(open) PROVE x \in 1..i
      <4>1. PICK j \in DOMAIN open : x = open[j]
        BY DEF Range
      <4>2. j \in 1..Len(open)
        BY <3>1, LenProperties
      <4> QED BY <3>1, <4>1, <4>2, ElementOfSeq
    <3>3. new # 0 /\ new \notin 1..i
      BY <2>5, <2>1
    <3> QED BY <2>4, <3>2, <3>3 DEF OnWay
  <2>13. kids[new] = <<>>
    <3>1. new \in 0..n
      BY <2>11
    <3>2. PICK m \in Nat : m = Len(kids[new])
      BY <2>7, <3>1, LenProperties
    <3>3. m = 0
      <4>1. SUFFICES ASSUME m # 0 PROVE FALSE
        OBVIOUS
      <4>2. 1 \in 1..m
        BY <4>1
      <4>3. PICK q : q = kids[new][1]
        OBVIOUS
      <4>4. q \in 1..i /\ parent[q] = new
        BY <2>9, <3>1, <3>2, <4>2, <4>3 DEF HangsBelow
      <4>5. q \in 1..n
        BY <2>1, <4>4
      <4>6. new \in 0..(q - 1)
        BY <1>3, <4>4, <4>5
      <4> QED BY <2>5, <4>4, <4>6
    <3> QED BY <2>7, <3>1, <3>2, <3>3, EmptySeq
  <2>14. Walks(Walked(W, way, new, n), HungAt(kids, end, new), n)
    BY <2>6, <2>7, <2>10, <2>11, <2>12, <2>13, WalksGrow
  <2>15. Walked(W, way, new, n)[0] = UpFrom0(i + 1)
    <3>1. Walked(W, way, new, n)[0] = Append(W[0], new)
      BY <2>12 DEF Walked
    <3> QED BY <2>1, <2>5, <2>6, <3>1, UpFrom0Grows
  <2>16. f[i + 1] = HungAt(kids, end, new)
    BY <1>6, <2>1, <2>2, <2>5, <2>8
  <2>17. InOrder(f[i + 1], n, i + 1)
    BY <2>14, <2>15, <2>16 DEF InOrder
  <2> QED BY <2>1, <2>17
<1> HIDE DEF X
<1>11. \A i \in 0..n : i \in X
  BY <1>9, <1>10, UpTo0
<1>12. n \in X
  <2>1. n \in 0..n
    OBVIOUS
  <2> QED BY <1>11, <2>1
<1> QED BY <1>12 DEF X

(* The walk through the tree of a word meets its operators in order.       *)
LEMMA TreeWalked ==
  ASSUME NEW w \in Seq(Operators), NEW n \in Nat, Len(w) = n
  PROVE  /\ AllOf(TreeOf(w)) \in Seq(0..n) /\ Len(AllOf(TreeOf(w))) = n
         /\ \A k \in 1..n : AllOf(TreeOf(w))[k] = k
<1>2. PICK c : c = TreeOf(w)
  OBVIOUS
<1>3. PartsOK(c, n) /\ KidsNewer(c.kids, n)
  BY <1>2, TreeOfParts
<1>4. PICK kids : kids = c.kids
  OBVIOUS
<1>5. kids \in [0..n -> Seq(1..n)] /\ KidsNewer(kids, n)
  BY <1>3, <1>4 DEF PartsOK
<1>6. PICK parent : parent = Parents(OpenBefore(w))
  OBVIOUS
<1>7. \A i \in 1..n : parent[i] \in 0..n
  <2>1. \A i \in 1..n : parent[i] \in 0..(i - 1)
    BY <1>6, ParentsType
  <2> QED BY <2>1
<1>8. PICK f : Hangings(f, n, parent) /\ Hung(n, parent) = f[n]
  BY <1>7, HungHangings
<1>9. kids = f[n] /\ c.op = w
  BY <1>2, <1>4, <1>6, <1>8 DEF TreeOf, Tree
<1>10. InOrder(kids, n, n)
  BY <1>6, <1>8, <1>9, HangingsWalked
<1>11. PICK V : Walks(V, kids, n) /\ V[0] = UpFrom0(n)
  BY <1>10 DEF InOrder
<1>12. PICK W : /\ Walks(W, kids, n)
                /\ \A roots : Preorder(c, roots) = FlattenSeq(RootWalks(W, roots))
  BY <1>4, <1>5, PreorderWalks
<1>13. W[0] = UpFrom0(n)
  <2>1. \A x \in 0..n : W[x] = V[x]
    <3>1. WalksEach(W, kids, n) /\ WalksEach(V, kids, n)
      BY <1>11, <1>12 DEF Walks, WalksEach
    <3>2. SameWalks(W, V, n)
      BY <1>5, <3>1, WalksSame
    <3> QED BY <3>2 DEF SameWalks
  <2>2. 0 \in 0..n
    OBVIOUS
  <2> QED BY <1>11, <2>1, <2>2
<1>14. PICK all : all = AllOf(c)
  OBVIOUS
<1>15. all = FlattenSeq(KidWalks(W, kids, 0))
  <2>1. all = Preorder(c, kids[0])
    BY <1>4, <1>14 DEF AllOf
  <2>2. RootWalks(W, kids[0]) = KidWalks(W, kids, 0)
    BY DEF RootWalks, KidWalks
  <2> QED BY <1>12, <2>1, <2>2
<1>16. W[0] = <<0>> \o all /\ all \in Seq(0..n)
  <2>1. 0 \in 0..n
    OBVIOUS
  <2>2. W \in [0..n -> Seq(0..n)] /\ W[0] = <<0>> \o FlattenSeq(KidWalks(W, kids, 0))
    BY <1>12, <2>1 DEF Walks
  <2>3. FlattenSeq(KidWalks(W, kids, 0)) \in Seq(0..n)
    BY <1>5, <2>1, <2>2, KidWalksType
  <2> QED BY <1>15, <2>2, <2>3
<1>17. PICK m \in Nat : m = Len(all)
  BY <1>16, LenProperties
<1>18. /\ Len(W[0]) = m + 1
       /\ \A k \in 1..(m + 1) : W[0][k] = IF k <= 1 THEN <<0>>[k] ELSE all[k - 1]
  <2>1. PICK one : one = <<0>>
    OBVIOUS
  <2>2. one \in Seq(0..n) /\ Len(one) = 1
    BY <2>1
  <2>3. /\ Len(one \o all) = Len(one) + Len(all)
        /\ \A k \in 1..(Len(one) + Len(all)) :
              (one \o all)[k] = IF k <= Len(one) THEN one[k] ELSE all[k - Len(one)]
    BY <1>16, <2>2, ConcatProperties
  <2> QED BY <1>16, <1>17, <2>1, <2>2, <2>3
<1>19. /\ Len(W[0]) = n + 1
       /\ \A k \in 1..(n + 1) : W[0][k] = k - 1
  <2>1. W[0] \in [1..(n + 1) -> 0..n] /\ \A k \in 1..(n + 1) : W[0][k] = k - 1
    BY <1>13 DEF UpFrom0
  <2>2. n + 1 \in Nat
    OBVIOUS
  <2>3. Len(W[0]) = n + 1
    BY <2>1, <2>2, SeqIsFunction
  <2> QED BY <2>1, <2>3
<1>20. m = n
  BY <1>18, <1>19
<1>21. \A k \in 1..n : all[k] = k
  <2>1. ASSUME NEW k \in 1..n PROVE all[k] = k
    <3>1. k + 1 \in 1..(n + 1) /\ (k + 1) - 1 = k /\ ~(k + 1 <= 1)
      OBVIOUS
    <3>2. W[0][k + 1] = all[k]
      BY <1>18, <1>20, <3>1
    <3>3. W[0][k + 1] = k
      BY <1>19, <3>1
    <3> QED BY <3>2, <3>3
  <2> QED BY <2>1
<1> QED BY <1>2, <1>14, <1>16, <1>17, <1>20, <1>21

(* So the tree of a word spells the word.                                  *)
LEMMA TreeSpelled ==
  ASSUME NEW w \in Seq(Operators)
  PROVE  Spelled(TreeOf(w)) = w
<1>1. PICK n \in Nat : n = Len(w)
  BY LenProperties
<1>2. PICK c, all : c = TreeOf(w) /\ all = AllOf(c)
  OBVIOUS
<1>3. Len(all) = n /\ \A k \in 1..n : all[k] = k
  BY <1>1, <1>2, TreeWalked
<1>4. c.op = w
  BY <1>2 DEF TreeOf, Tree
<1>5. Spelled(c) = [k \in 1..n |-> w[all[k]]]
  BY <1>2, <1>3, <1>4 DEF Spelled, WordOf
<1>6. Spelled(c) = [k \in 1..n |-> w[k]]
  BY <1>3, <1>5
<1>7. w = [k \in 1..n |-> w[k]]
  BY <1>1, LenProperties
<1> QED BY <1>2, <1>6, <1>7

(* What is parsed spells what is kept of the word.                         *)
LEMMA ParsedSpelled ==
  ASSUME NEW w \in Seq(Operators)
  PROVE  Spelled(Parsed(w)) = Kept(w)
BY KeptType, TreeSpelled DEF Parsed

-----------------------------------------------------------------------------
(* Edits.                                                                  *)

(* A content stream with n operators, whose streams are of T.              *)
ContentStreams(T, n) ==
    [streams : Seq(T), op : [1..n -> Operators], kids : [0..n -> Seq(1..n)],
     next : [1..n -> 0..n], prev : [1..n -> 0..n], own : SUBSET (1..n),
     dirty : BOOLEAN, cut : BOOLEAN]

Sound(c, T, n) == c \in ContentStreams(T, n) /\ KidsNewer(c.kids, n)

(* d is what an edit has made of c.                                        *)
EditOf(d, c, T, n) == Sound(d, T, n) /\ d.streams = c.streams

(* What Sound says of each part.                                           *)
LEMMA SoundParts ==
  ASSUME NEW T, NEW n \in Nat, NEW c, Sound(c, T, n)
  PROVE  /\ c \in ContentStreams(T, n)
         /\ c.streams \in Seq(T) /\ c.dirty \in BOOLEAN /\ c.cut \in BOOLEAN
         /\ c.op \in [1..n -> Operators] /\ c.kids \in [0..n -> Seq(1..n)]
         /\ c.next \in [1..n -> 0..n] /\ c.prev \in [1..n -> 0..n]
         /\ c.own \in SUBSET (1..n)
         /\ PartsOK(c, n) /\ KidsNewer(c.kids, n)
         /\ Len(c.op) = n
         /\ c = [streams |-> c.streams, op |-> c.op, kids |-> c.kids, next |-> c.next,
                 prev |-> c.prev, own |-> c.own, dirty |-> c.dirty, cut |-> c.cut]
<1>1. c \in ContentStreams(T, n) /\ KidsNewer(c.kids, n)
  BY DEF Sound
<1>2. /\ c.streams \in Seq(T) /\ c.dirty \in BOOLEAN /\ c.cut \in BOOLEAN
      /\ c.op \in [1..n -> Operators] /\ c.kids \in [0..n -> Seq(1..n)]
      /\ c.next \in [1..n -> 0..n] /\ c.prev \in [1..n -> 0..n]
      /\ c.own \in SUBSET (1..n)
  BY <1>1 DEF ContentStreams
<1>3. Len(c.op) = n
  BY <1>2, SeqIsFunction
<1>4. c = [streams |-> c.streams, op |-> c.op, kids |-> c.kids, next |-> c.next,
           prev |-> c.prev, own |-> c.own, dirty |-> c.dirty, cut |-> c.cut]
  BY <1>1 DEF ContentStreams
<1> QED BY <1>1, <1>2, <1>3, <1>4 DEF PartsOK

(* A link leads to an operator or nowhere.                                 *)
LEMMA LinkType ==
  ASSUME NEW n \in Nat, NEW links \in [1..n -> 0..n], NEW from \in 0..n, NEW to \in 0..n
  PROVE  Link(links, from, to) \in [1..n -> 0..n]
BY DEF Link

(* Children that stay, and newer ones, are newer still.                    *)
LEMMA KidsChange ==
  ASSUME NEW n \in Nat, NEW kids \in [0..n -> Seq(1..n)], KidsNewer(kids, n),
         NEW p \in 0..n, NEW s \in Seq(1..n),
         \A k \in 1..Len(s) : s[k] \in Range(kids[p]) \/ s[k] > p
  PROVE  /\ [kids EXCEPT ![p] = s] \in [0..n -> Seq(1..n)]
         /\ KidsNewer([kids EXCEPT ![p] = s], n)
<1>1. [kids EXCEPT ![p] = s] \in [0..n -> Seq(1..n)]
  OBVIOUS
<1>2. \A y \in Range(kids[p]) : y > p
  <2>1. DOMAIN kids[p] = 1..Len(kids[p])
    BY LenProperties
  <2> QED BY <2>1 DEF KidsNewer, Range
<1>3. ASSUME NEW q \in 0..n, NEW k \in 1..Len([kids EXCEPT ![p] = s][q])
      PROVE  [kids EXCEPT ![p] = s][q][k] > q
  <2>1. CASE q = p
    <3>1. [kids EXCEPT ![p] = s][q] = s
      BY <2>1
    <3> QED BY <1>2, <2>1, <3>1
  <2>2. CASE q # p
    <3>1. [kids EXCEPT ![p] = s][q] = kids[q]
      BY <2>2
    <3> QED BY <3>1 DEF KidsNewer
  <2> QED BY <2>1, <2>2
<1> QED BY <1>1, <1>3 DEF KidsNewer

(* A child is taken from its parent.                                       *)
LEMMA KidRemoved ==
  ASSUME NEW n \in Nat, NEW kids \in [0..n -> Seq(1..n)], KidsNewer(kids, n),
         NEW p \in 0..n, NEW x
  PROVE  /\ [kids EXCEPT ![p] = RemoveFirst(@, x)] \in [0..n -> Seq(1..n)]
         /\ KidsNewer([kids EXCEPT ![p] = RemoveFirst(@, x)], n)
<1>1. kids[p] \in Seq(1..n)
  OBVIOUS
<1>2. PICK s : s = RemoveFirst(kids[p], x)
  OBVIOUS
<1>3. s \in Seq(1..n) /\ Range(s) \subseteq Range(kids[p])
  BY <1>1, <1>2, RemoveFirstKeeps
<1>4. \A k \in 1..Len(s) : s[k] \in Range(kids[p])
  <2>1. DOMAIN s = 1..Len(s)
    BY <1>3, LenProperties
  <2> QED BY <1>3, <2>1 DEF Range
<1>5. [kids EXCEPT ![p] = RemoveFirst(@, x)] = [kids EXCEPT ![p] = s]
  BY <1>2
<1> QED BY <1>3, <1>4, <1>5, KidsChange

(* deleteOperator leaves a content stream.                                 *)
LEMMA DeletedSound ==
  ASSUME NEW T, NEW n \in Nat, NEW c, Sound(c, T, n), NEW x \in 1..n, NEW p \in 0..n
  PROVE  EditOf(Deleted(c, x, p), c, T, n)
<1>1. PICK last : last = LastBelow(c, x)
  OBVIOUS
<1>2. /\ c \in ContentStreams(T, n)
      /\ c.kids \in [0..n -> Seq(1..n)] /\ KidsNewer(c.kids, n)
      /\ c.next \in [1..n -> 0..n] /\ c.prev \in [1..n -> 0..n]
  BY SoundParts
<1>3. last \in 1..n
  <2>1. x \in 0..n
    OBVIOUS
  <2>2. LastBelow(c, x) \in x..n
    BY <1>2, <2>1, BelowType
  <2> QED BY <1>1, <2>2
<1>4. PICK kids : kids = [c.kids EXCEPT ![p] = RemoveFirst(@, x)]
  OBVIOUS
<1>5. kids \in [0..n -> Seq(1..n)] /\ KidsNewer(kids, n)
  BY <1>2, <1>4, KidRemoved
<1>6. PICK next : next = [Link(c.next, c.prev[x], c.next[last]) EXCEPT ![last] = 0]
  OBVIOUS
<1>7. next \in [1..n -> 0..n]
  <2>1. c.prev[x] \in 0..n /\ c.next[last] \in 0..n
    BY <1>2, <1>3
  <2>2. Link(c.next, c.prev[x], c.next[last]) \in [1..n -> 0..n]
    BY <1>2, <2>1, LinkType
  <2>3. PICK l \in [1..n -> 0..n] : l = Link(c.next, c.prev[x], c.next[last])
    BY <2>2
  <2>4. next = [l EXCEPT ![last] = 0]
    BY <1>6, <2>3
  <2>5. 0 \in 0..n
    OBVIOUS
  <2> QED BY <2>4, <2>5
<1>8. PICK prev : prev = [Link(c.prev, c.next[last], c.prev[x]) EXCEPT ![x] = 0]
  OBVIOUS
<1>9. prev \in [1..n -> 0..n]
  <2>1. c.prev[x] \in 0..n /\ c.next[last] \in 0..n
    BY <1>2, <1>3
  <2>2. Link(c.prev, c.next[last], c.prev[x]) \in [1..n -> 0..n]
    BY <1>2, <2>1, LinkType
  <2> QED BY <1>8, <2>2
<1>10. PICK d : d = Deleted(c, x, p)
  OBVIOUS
<1>11. d = [c EXCEPT !.kids = kids, !.next = next, !.prev = prev]
  <2>1. d = DeletedTo(c, x, p, last)
    BY <1>1, <1>10 DEF Deleted
  <2>2. DeletedTo(c, x, p, last) = [c EXCEPT !.kids = kids, !.next = next, !.prev = prev]
    BY <1>4, <1>6, <1>8, Zenon DEF DeletedTo
  <2> QED BY <2>1, <2>2
<1>12. d \in ContentStreams(T, n) /\ d.kids = kids /\ d.streams = c.streams
  BY <1>2, <1>5, <1>7, <1>9, <1>11 DEF ContentStreams
<1> QED BY <1>5, <1>10, <1>12 DEF EditOf, Sound

(* What is put after an element is there.                                  *)
LEMMA AfterType ==
  ASSUME NEW S, NEW s \in Seq(S), NEW x \in Range(s), NEW y \in S
  PROVE  /\ After(s, x, y) \in Seq(S)
         /\ \A k \in 1..Len(After(s, x, y)) : After(s, x, y)[k] \in Range(s) \cup {y}
<1>1. PICK n \in Nat : n = Len(s)
  BY LenProperties
<1>2. DOMAIN s = 1..n
  BY <1>1, LenProperties
<1>3. PICK i : i = CHOOSE j \in 1..n : s[j] = x
  OBVIOUS
<1>4. i \in 1..n
  <2>1. \E j \in 1..n : s[j] = x
    BY <1>2 DEF Range
  <2> QED BY <1>3, <2>1
<1>5. After(s, x, y) = InsertAt(s, i + 1, y)
  BY <1>1, <1>3 DEF After
<1>6. PICK r : r = InsertAt(s, i + 1, y)
  OBVIOUS
<1>7. r \in Seq(S) /\ Len(r) = n + 1 /\ r = InsertedSeq(s, n, i + 1, y)
  <2>1. i + 1 \in 1..(n + 1)
    BY <1>4
  <2> QED BY SMTT(30), <1>1, <1>6, <2>1, InsertAtFacts
<1>8. ASSUME NEW k \in 1..(n + 1) PROVE r[k] \in Range(s) \cup {y}
  <2>1. r[k] = IF k < i + 1 THEN s[k] ELSE IF k = i + 1 THEN y ELSE s[k - 1]
    BY <1>7 DEF InsertedSeq
  <2>2. CASE k < i + 1
    <3>1. k \in 1..n
      BY <1>4, <2>2
    <3> QED BY <1>2, <2>1, <2>2, <3>1 DEF Range
  <2>3. CASE k = i + 1
    BY <1>4, <2>1, <2>3
  <2>4. CASE k > i + 1
    <3>1. k - 1 \in 1..n /\ ~(k < i + 1) /\ k # i + 1
      BY <1>4, <2>4
    <3> QED BY <1>2, <2>1, <3>1 DEF Range
  <2> QED BY <1>4, <2>2, <2>3, <2>4
<1> QED BY <1>5, <1>6, <1>7, <1>8

(* Two functions over numbers one after the other.                         *)
LEMMA ConcatFunctions ==
  ASSUME NEW S, NEW m \in Nat, NEW n \in Nat, NEW s \in [1..m -> S], NEW t \in [1..n -> S]
  PROVE  s \o t \in [1..(m + n) -> S]
<1>1. s \in Seq(S) /\ Len(s) = m /\ t \in Seq(S) /\ Len(t) = n
  BY SeqIsFunction
<1>2. s \o t \in Seq(S) /\ Len(s \o t) = m + n
  BY <1>1, ConcatProperties
<1>a. PICK u : u = s \o t
  OBVIOUS
<1>3. PICK k \in Nat : k = m + n
  OBVIOUS
<1>4. u \in [1..k -> S]
  BY <1>a, <1>2, <1>3, SeqIsFunction
<1> QED BY <1>a, <1>3, <1>4

(* Numbers that are shifted beside the old ones.                           *)
LEMMA ShiftAllType ==
  ASSUME NEW n \in Nat, NEW m \in Nat, NEW l \in Nat
  PROVE  /\ \A xs \in [1..l -> 0..m] : ShiftAll(xs, n) \in [1..l -> 0..(n + m)]
         /\ \A xs \in Seq(1..m) :
              /\ ShiftAll(xs, n) \in Seq(1..(n + m))
              /\ Len(ShiftAll(xs, n)) = Len(xs)
              /\ \A k \in 1..Len(xs) : ShiftAll(xs, n)[k] = xs[k] + n
<1>1. \A x \in 0..m : Shift(x, n) \in 0..(n + m)
  BY DEF Shift
<1>2. \A x \in 1..m : Shift(x, n) \in 1..(n + m) /\ Shift(x, n) = x + n
  BY DEF Shift
<1>3. ASSUME NEW xs \in [1..l -> 0..m] PROVE ShiftAll(xs, n) \in [1..l -> 0..(n + m)]
  <2>1. Len(xs) = l
    BY SeqIsFunction
  <2> QED BY <1>1, <2>1 DEF ShiftAll
<1>4. ASSUME NEW xs \in Seq(1..m)
      PROVE  /\ ShiftAll(xs, n) \in Seq(1..(n + m))
             /\ Len(ShiftAll(xs, n)) = Len(xs)
             /\ \A k \in 1..Len(xs) : ShiftAll(xs, n)[k] = xs[k] + n
  <2>1. PICK j \in Nat : j = Len(xs)
    BY LenProperties
  <2>2. \A k \in 1..j : xs[k] \in 1..m
    BY <2>1, ElementOfSeq
  <2>3. ShiftAll(xs, n) \in [1..j -> 1..(n + m)]
    BY <1>2, <2>1, <2>2 DEF ShiftAll
  <2>4. \A k \in 1..j : ShiftAll(xs, n)[k] = xs[k] + n
    BY <1>2, <2>1, <2>2 DEF ShiftAll
  <2>5. ShiftAll(xs, n) \in Seq(1..(n + m)) /\ Len(ShiftAll(xs, n)) = j
    BY <2>3, SeqIsFunction
  <2> QED BY <2>1, <2>4, <2>5
<1> QED BY <1>3, <1>4

(* New operators beside those of c.                                        *)
NewBeside(c, w, T, n, m) ==
    /\ EditOf(WithNew(c, w), c, T, n + m)
    /\ EditOf(WithOwn(c, w), c, T, n + m)
    /\ \A p \in 0..n : /\ WithNew(c, w).kids[p] = c.kids[p]
                       /\ WithOwn(c, w).kids[p] = c.kids[p]
    /\ NewAt(c) = n + 1 /\ LastNewAt(c, w) = n + m

(* Both ways to put one beside it do so.                                   *)
LEMMA BesideSound ==
  ASSUME NEW T, NEW n \in Nat, NEW c, Sound(c, T, n),
         NEW w \in Seq(Operators), NEW m \in Nat, Len(w) = m
  PROVE  NewBeside(c, w, T, n, m)
<1>1. PICK new : new = TreeOf(w)
  OBVIOUS
<1>2. /\ new.op \in [1..m -> Operators] /\ new.kids \in [0..m -> Seq(1..m)]
      /\ new.next \in [1..m -> 0..m] /\ new.prev \in [1..m -> 0..m]
      /\ KidsNewer(new.kids, m)
  BY <1>1, TreeOfParts DEF PartsOK
<1>3. /\ c \in ContentStreams(T, n) /\ Len(c.op) = n
      /\ c.op \in [1..n -> Operators] /\ c.kids \in [0..n -> Seq(1..n)]
      /\ c.next \in [1..n -> 0..n] /\ c.prev \in [1..n -> 0..n]
      /\ c.own \in SUBSET (1..n) /\ KidsNewer(c.kids, n)
  BY SoundParts
<1>4. Len(new.op) = m
  BY <1>2, SeqIsFunction
<1>5. PICK op, next, prev : /\ op = c.op \o new.op
                            /\ next = c.next \o ShiftAll(new.next, n)
                            /\ prev = c.prev \o ShiftAll(new.prev, n)
  OBVIOUS
<1>6. /\ op \in [1..(n + m) -> Operators]
      /\ next \in [1..(n + m) -> 0..(n + m)]
      /\ prev \in [1..(n + m) -> 0..(n + m)]
  <2>1. /\ ShiftAll(new.next, n) \in [1..m -> 0..(n + m)]
        /\ ShiftAll(new.prev, n) \in [1..m -> 0..(n + m)]
    BY <1>2, ShiftAllType
  <2>2. c.next \in [1..n -> 0..(n + m)] /\ c.prev \in [1..n -> 0..(n + m)]
    <3>1. 0..n \subseteq 0..(n + m)
      OBVIOUS
    <3> QED BY <1>3, <3>1
  <2> QED BY <1>2, <1>3, <1>5, <2>1, <2>2, ConcatFunctions
<1>7. PICK kids : kids = [p \in 0..(n + m) |->
                            IF p <= n THEN c.kids[p] ELSE ShiftAll(new.kids[p - n], n)]
  OBVIOUS
<1>8. ASSUME NEW p \in 0..n
      PROVE  /\ kids[p] = c.kids[p] /\ kids[p] \in Seq(1..(n + m))
             /\ \A k \in 1..Len(kids[p]) : kids[p][k] > p
  <2>1. kids[p] = c.kids[p]
    BY <1>7
  <2>2. 1..n \subseteq 1..(n + m)
    OBVIOUS
  <2>3. c.kids[p] \in Seq(1..n)
    BY <1>3
  <2>4. c.kids[p] \in Seq(1..(n + m))
    BY <2>2, <2>3, SeqMonotonic
  <2> QED BY <1>3, <2>1, <2>4 DEF KidsNewer
<1>9. ASSUME NEW p \in (n + 1)..(n + m)
      PROVE  /\ kids[p] \in Seq(1..(n + m))
             /\ \A k \in 1..Len(kids[p]) : kids[p][k] > p
  <2>1. p - n \in 0..m /\ p \in 0..(n + m) /\ ~(p <= n)
    OBVIOUS
  <2>2. PICK xs : xs = new.kids[p - n]
    OBVIOUS
  <2>3. kids[p] = ShiftAll(xs, n)
    BY <1>7, <2>1, <2>2
  <2>4. xs \in Seq(1..m)
    BY <1>2, <2>1, <2>2
  <2>5. /\ kids[p] \in Seq(1..(n + m)) /\ Len(kids[p]) = Len(xs)
        /\ \A k \in 1..Len(xs) : kids[p][k] = xs[k] + n
    BY <2>3, <2>4, ShiftAllType
  <2>6. \A k \in 1..Len(xs) : xs[k] > p - n /\ xs[k] \in 1..m
    BY <1>2, <2>1, <2>2, <2>4, ElementOfSeq DEF KidsNewer
  <2>7. ASSUME NEW k \in 1..Len(xs) PROVE kids[p][k] > p
    BY <2>5, <2>6
  <2> QED BY <2>5, <2>7
<1>10. kids \in [0..(n + m) -> Seq(1..(n + m))] /\ KidsNewer(kids, n + m)
  <2>1. \A p \in 0..(n + m) : p \in 0..n \/ p \in (n + 1)..(n + m)
    OBVIOUS
  <2>2. \A p \in 0..(n + m) : /\ kids[p] \in Seq(1..(n + m))
                              /\ \A k \in 1..Len(kids[p]) : kids[p][k] > p
    BY <1>8, <1>9, <2>1
  <2>3. kids = [p \in 0..(n + m) |-> kids[p]]
    BY <1>7
  <2> QED BY <2>2, <2>3 DEF KidsNewer
<1>11. PICK d : d = WithNew(c, w)
  OBVIOUS
<1>12. d = [c EXCEPT !.op = op, !.kids = kids, !.next = next, !.prev = prev]
  <2>1. d = Beside(c, new, n)
    BY <1>1, <1>3, <1>11 DEF WithNew
  <2> QED BY <1>4, <1>5, <1>7, <2>1 DEF Beside
<1>13. /\ d \in ContentStreams(T, n + m) /\ d.kids = kids /\ d.streams = c.streams
       /\ d.own = c.own
  <2>1. c.own \in SUBSET (1..(n + m))
    BY <1>3
  <2>2. c.streams \in Seq(T) /\ c.dirty \in BOOLEAN /\ c.cut \in BOOLEAN
    BY SoundParts
  <2>3. d = [streams |-> c.streams, op |-> op, kids |-> kids, next |-> next,
             prev |-> prev, own |-> c.own, dirty |-> c.dirty, cut |-> c.cut]
    BY <1>3, <1>12 DEF ContentStreams
  <2> QED BY <1>6, <1>10, <2>1, <2>2, <2>3 DEF ContentStreams
<1>14. EditOf(d, c, T, n + m)
  BY <1>10, <1>13 DEF EditOf, Sound
<1>15. NewAt(c) = n + 1 /\ LastNewAt(c, w) = n + m
  BY <1>3 DEF NewAt, LastNewAt
<1>16. PICK o : o = WithOwn(c, w)
  OBVIOUS
<1>17. o = [d EXCEPT !.own = d.own \cup ((n + 1)..(n + m))]
  BY <1>11, <1>15, <1>16 DEF WithOwn
<1>18. /\ o \in ContentStreams(T, n + m) /\ o.kids = kids /\ o.streams = c.streams
  <2>1. d.own \cup ((n + 1)..(n + m)) \in SUBSET (1..(n + m))
    BY <1>3, <1>13
  <2> QED BY <1>13, <1>17, <2>1 DEF ContentStreams
<1>19. EditOf(o, c, T, n + m)
  BY <1>10, <1>18 DEF EditOf, Sound
<1> QED BY <1>8, <1>11, <1>13, <1>14, <1>15, <1>16, <1>18, <1>19 DEF NewBeside

(* A record whose parts are replaced by others of their types.             *)
LEMMA PartsReplaced ==
  ASSUME NEW T, NEW n \in Nat, NEW c, Sound(c, T, n),
         NEW kids \in [0..n -> Seq(1..n)], KidsNewer(kids, n),
         NEW next \in [1..n -> 0..n], NEW prev \in [1..n -> 0..n], NEW cut \in BOOLEAN
  PROVE  /\ EditOf([c EXCEPT !.kids = kids, !.next = next, !.prev = prev], c, T, n)
         /\ EditOf([c EXCEPT !.kids = kids, !.next = next, !.prev = prev, !.cut = cut], c, T, n)
<1>1. c \in ContentStreams(T, n)
  BY DEF Sound
<1>2. PICK d : d = [c EXCEPT !.kids = kids, !.next = next, !.prev = prev]
  OBVIOUS
<1>3. d \in ContentStreams(T, n) /\ d.kids = kids /\ d.streams = c.streams
  BY <1>1, <1>2 DEF ContentStreams
<1>4. PICK e : e = [c EXCEPT !.kids = kids, !.next = next, !.prev = prev, !.cut = cut]
  OBVIOUS
<1>5. e \in ContentStreams(T, n) /\ e.kids = kids /\ e.streams = c.streams
  BY <1>1, <1>4 DEF ContentStreams
<1> QED BY <1>2, <1>3, <1>4, <1>5 DEF EditOf, Sound

(* insertOperator leaves a content stream.                                 *)
LEMMA InsertedSound ==
  ASSUME NEW T, NEW n \in Nat, NEW c, Sound(c, T, n), NEW x \in 1..n, NEW p \in 0..n,
         x \in Range(c.kids[p]), NEW w \in Seq(Operators), NEW m \in Nat \ {0}, Len(w) = m
  PROVE  EditOf(Inserted(c, x, p, w), c, T, n + m)
<1>1. PICK N \in Nat : N = n + m
  OBVIOUS
<1>2. PICK d, new, cur, nxt, comp :
        /\ d = WithOwn(c, w) /\ new = NewAt(c) /\ cur = LastBelow(c, x)
        /\ nxt = c.next[cur] /\ comp = (Len(w) > 1)
  OBVIOUS
<1>3. /\ EditOf(d, c, T, N) /\ d.kids[p] = c.kids[p] /\ new = n + 1
  <2>1. NewBeside(c, w, T, n, m)
    BY BesideSound
  <2>2. 0 \in 0..n
    OBVIOUS
  <2> QED BY <1>1, <1>2, <2>1, <2>2 DEF NewBeside
<1>4. /\ Sound(d, T, N) /\ d.streams = c.streams
      /\ d.kids \in [0..N -> Seq(1..N)] /\ KidsNewer(d.kids, N)
      /\ d.next \in [1..N -> 0..N] /\ d.prev \in [1..N -> 0..N] /\ d.cut \in BOOLEAN
  <2>1. Sound(d, T, N) /\ d.streams = c.streams
    BY <1>3 DEF EditOf
  <2> QED BY <2>1, SoundParts
<1>5. cur \in 1..n /\ nxt \in 0..n
  <2>0. c.kids \in [0..n -> Seq(1..n)] /\ KidsNewer(c.kids, n) /\ c.next \in [1..n -> 0..n]
    BY SoundParts
  <2>1. x \in 0..n
    OBVIOUS
  <2>2. cur \in x..n
    BY <1>2, <2>0, <2>1, BelowType
  <2> QED BY <1>2, <2>0, <2>2
<1>6. new \in 1..N /\ cur \in 1..N /\ nxt \in 0..N /\ p \in 0..N /\ new > p /\ new \in 0..N
  BY <1>1, <1>3, <1>5
<1>7. PICK s : s = After(d.kids[p], x, new)
  OBVIOUS
<1>8. s \in Seq(1..N) /\ \A k \in 1..Len(s) : s[k] \in Range(d.kids[p]) \/ s[k] > p
  <2>1. d.kids[p] \in Seq(1..N) /\ x \in Range(d.kids[p])
    BY <1>3, <1>4, <1>6
  <2>2. s \in Seq(1..N) /\ \A k \in 1..Len(s) : s[k] \in Range(d.kids[p]) \cup {new}
    BY <1>6, <1>7, <2>1, AfterType
  <2> QED BY <1>6, <2>2
<1>9. PICK kids : kids = [d.kids EXCEPT ![p] = s]
  OBVIOUS
<1>10. kids \in [0..N -> Seq(1..N)] /\ KidsNewer(kids, N)
  BY <1>4, <1>6, <1>8, <1>9, KidsChange
<1>11. PICK next : next = IF nxt = 0 THEN [d.next EXCEPT ![cur] = new]
                          ELSE [d.next EXCEPT ![cur] = new, ![new] = nxt]
  OBVIOUS
<1>12. next \in [1..N -> 0..N]
  BY <1>4, <1>6, <1>11
<1>13. PICK prev : prev = [Link(d.prev, nxt, new) EXCEPT ![new] = cur]
  OBVIOUS
<1>14. prev \in [1..N -> 0..N]
  <2>1. PICK l : l = Link(d.prev, nxt, new)
    OBVIOUS
  <2>2. l \in [1..N -> 0..N]
    BY <1>4, <1>6, <2>1, LinkType
  <2>3. prev = [l EXCEPT ![new] = cur]
    BY <1>13, <2>1
  <2>4. cur \in 0..N
    BY <1>6
  <2> QED BY <2>2, <2>3, <2>4
<1>15. PICK cut : cut = (d.cut \/ (nxt # 0 /\ comp))
  OBVIOUS
<1>16. cut \in BOOLEAN
  BY <1>4, <1>15
<1>17. Inserted(c, x, p, w) = InsertedBehind(d, x, p, new, cur, nxt, comp)
  BY <1>2 DEF Inserted, InsertedAt
<1>18. InsertedBehind(d, x, p, new, cur, nxt, comp) =
         [d EXCEPT !.kids = kids, !.next = next, !.prev = prev, !.cut = cut]
  BY <1>7, <1>9, <1>11, <1>13, <1>15, Zenon DEF InsertedBehind
<1>19. EditOf([d EXCEPT !.kids = kids, !.next = next, !.prev = prev, !.cut = cut], d, T, N)
  BY <1>4, <1>10, <1>12, <1>14, <1>16, PartsReplaced
<1> QED BY <1>1, <1>4, <1>17, <1>18, <1>19 DEF EditOf

(* So does insertOperator with an invalid iterator.                        *)
LEMMA InsertedFirstSound ==
  ASSUME NEW T, NEW n \in Nat, NEW c, Sound(c, T, n),
         NEW w \in Seq(Operators), NEW m \in Nat \ {0}, Len(w) = m
  PROVE  EditOf(InsertedFirst(c, w), c, T, n + m)
<1>1. PICK N \in Nat : N = n + m
  OBVIOUS
<1>2. PICK d, new : d = WithNew(c, w) /\ new = NewAt(c)
  OBVIOUS
<1>3. EditOf(d, c, T, N) /\ new = n + 1
  <2>1. NewBeside(c, w, T, n, m)
    BY BesideSound
  <2> QED BY <1>1, <1>2, <2>1 DEF NewBeside
<1>4. /\ Sound(d, T, N) /\ d.streams = c.streams
      /\ d.kids \in [0..N -> Seq(1..N)] /\ KidsNewer(d.kids, N)
      /\ d.next \in [1..N -> 0..N] /\ d.prev \in [1..N -> 0..N]
      /\ d \in ContentStreams(T, N)
  <2>1. Sound(d, T, N) /\ d.streams = c.streams
    BY <1>3 DEF EditOf
  <2> QED BY <2>1, SoundParts
<1>5. new \in 1..N /\ 0 \in 0..N /\ new > 0
  BY <1>1, <1>3
<1>6. <<new>> \in Seq(1..N) /\ \A k \in 1..Len(<<new>>) : <<new>>[k] > 0
  BY <1>5
<1>7. PICK kids : kids = [d.kids EXCEPT ![0] = <<new>>]
  OBVIOUS
<1>8. kids \in [0..N -> Seq(1..N)] /\ KidsNewer(kids, N)
  BY <1>4, <1>5, <1>6, <1>7, KidsChange
<1>9. InsertedFirst(c, w) = [d EXCEPT !.kids = kids]
  BY <1>2, <1>7, Zenon DEF InsertedFirst
<1>10. [d EXCEPT !.kids = kids] = [d EXCEPT !.kids = kids, !.next = d.next, !.prev = d.prev]
  BY <1>4 DEF ContentStreams
<1>11. EditOf([d EXCEPT !.kids = kids, !.next = d.next, !.prev = d.prev], d, T, N)
  <2>1. PICK cut : cut = d.cut
    OBVIOUS
  <2>2. cut \in BOOLEAN
    BY <1>4, <2>1, SoundParts
  <2> QED BY <1>4, <1>8, <2>2, PartsReplaced
<1> QED BY <1>1, <1>4, <1>9, <1>10, <1>11 DEF EditOf

(* So does frontInsertOperator.                                            *)
LEMMA FrontInsertedSound ==
  ASSUME NEW T, NEW n \in Nat, NEW c, Sound(c, T, n),
         NEW w \in Seq(Operators), NEW m \in Nat \ {0}, Len(w) = m
  PROVE  EditOf(FrontInserted(c, w), c, T, n + m)
<1>1. PICK N \in Nat : N = n + m
  OBVIOUS
<1>2. PICK d, new, lastNew, second :
        /\ d = WithOwn(c, w) /\ new = NewAt(c)
        /\ lastNew = LastNewAt(c, w) /\ second = FirstOf(c)
  OBVIOUS
<1>3. EditOf(d, c, T, N) /\ new = n + 1 /\ lastNew = N /\ d.kids[0] = c.kids[0]
  <2>1. NewBeside(c, w, T, n, m)
    BY BesideSound
  <2>2. 0 \in 0..n
    OBVIOUS
  <2> QED BY <1>1, <1>2, <2>1, <2>2 DEF NewBeside
<1>4. /\ Sound(d, T, N) /\ d.streams = c.streams
      /\ d.kids \in [0..N -> Seq(1..N)] /\ KidsNewer(d.kids, N)
      /\ d.next \in [1..N -> 0..N] /\ d.prev \in [1..N -> 0..N] /\ d.cut \in BOOLEAN
  <2>1. Sound(d, T, N) /\ d.streams = c.streams
    BY <1>3 DEF EditOf
  <2> QED BY <2>1, SoundParts
<1>5. new \in 1..N /\ lastNew \in 1..N /\ 0 \in 0..N /\ new > 0
  BY <1>1, <1>3
<1>6. second \in 0..N
  <2>1. c.kids[0] \in Seq(1..n)
    <3>1. c.kids \in [0..n -> Seq(1..n)]
      BY SoundParts
    <3> QED BY <3>1
  <2>2. c.kids[0] # <<>> => Head(c.kids[0]) \in 1..n
    BY <2>1, HeadTailProperties
  <2> QED BY <1>1, <1>2, <2>2 DEF FirstOf
<1>7. PICK s : s = <<new>> \o d.kids[0]
  OBVIOUS
<1>8. s \in Seq(1..N) /\ \A k \in 1..Len(s) : s[k] \in Range(d.kids[0]) \/ s[k] > 0
  <2>1. d.kids[0] \in Seq(1..N) /\ <<new>> \in Seq(1..N)
    BY <1>4, <1>5
  <2>2. s \in Seq(1..N)
    BY <1>7, <2>1, ConcatProperties
  <2>3. \A k \in 1..Len(s) : s[k] \in 1..N
    BY <2>2, ElementOfSeq
  <2> QED BY <2>2, <2>3
<1>9. PICK kids : kids = [d.kids EXCEPT ![0] = s]
  OBVIOUS
<1>10. kids \in [0..N -> Seq(1..N)] /\ KidsNewer(kids, N)
  BY <1>4, <1>5, <1>8, <1>9, KidsChange
<1>11. PICK next : next = [d.next EXCEPT ![lastNew] = second]
  OBVIOUS
<1>12. next \in [1..N -> 0..N]
  BY <1>4, <1>5, <1>6, <1>11
<1>13. PICK prev : prev = Link(d.prev, second, lastNew)
  OBVIOUS
<1>14. prev \in [1..N -> 0..N]
  <2>1. lastNew \in 0..N
    BY <1>5
  <2> QED BY <1>4, <1>6, <1>13, <2>1, LinkType
<1>15. FrontInserted(c, w) = [d EXCEPT !.kids = kids, !.next = next, !.prev = prev]
  <2>1. FrontInserted(c, w) = InsertedBefore(d, second, new, lastNew)
    BY <1>2 DEF FrontInserted
  <2>2. InsertedBefore(d, second, new, lastNew) =
          [d EXCEPT !.kids = kids, !.next = next, !.prev = prev]
    BY <1>7, <1>9, <1>11, <1>13, Zenon DEF InsertedBefore
  <2> QED BY <2>1, <2>2
<1>16. EditOf([d EXCEPT !.kids = kids, !.next = next, !.prev = prev], d, T, N)
  BY <1>4, <1>10, <1>12, <1>14, PartsReplaced
<1> QED BY <1>1, <1>4, <1>15, <1>16 DEF EditOf

(* So does replaceOperator.                                                *)
LEMMA ReplacedSound ==
  ASSUME NEW T, NEW n \in Nat, NEW c, Sound(c, T, n), NEW x \in 1..n, NEW p \in 0..n,
         x \in Range(c.kids[p]), NEW w \in Seq(Operators), NEW m \in Nat \ {0}, Len(w) = m
  PROVE  EditOf(Replaced(c, x, p, w), c, T, n + m)
<1>1. PICK N \in Nat : N = n + m
  OBVIOUS
<1>2. PICK d, new, lastNew, last :
        /\ d = WithOwn(c, w) /\ new = NewAt(c) /\ last = LastBelow(c, x)
        /\ lastNew = LastNewAt(c, w)
  OBVIOUS
<1>3. EditOf(d, c, T, N) /\ d.kids[p] = c.kids[p] /\ new = n + 1 /\ lastNew = N
  <2>1. NewBeside(c, w, T, n, m)
    BY BesideSound
  <2>2. 0 \in 0..n
    OBVIOUS
  <2> QED BY <1>1, <1>2, <2>1, <2>2 DEF NewBeside
<1>4. /\ Sound(d, T, N) /\ d.streams = c.streams
      /\ d.kids \in [0..N -> Seq(1..N)] /\ KidsNewer(d.kids, N)
      /\ d.next \in [1..N -> 0..N] /\ d.prev \in [1..N -> 0..N] /\ d.cut \in BOOLEAN
  <2>1. Sound(d, T, N) /\ d.streams = c.streams
    BY <1>3 DEF EditOf
  <2> QED BY <2>1, SoundParts
<1>5. last \in 1..n
  <2>0. c.kids \in [0..n -> Seq(1..n)] /\ KidsNewer(c.kids, n)
    BY SoundParts
  <2>1. x \in 0..n
    OBVIOUS
  <2>2. last \in x..n
    BY <1>2, <2>0, <2>1, BelowType
  <2> QED BY <2>2
<1>6. /\ new \in 1..N /\ last \in 1..N /\ lastNew \in 1..N /\ p \in 0..N /\ new > p
      /\ new \in 0..N /\ lastNew \in 0..N /\ x \in 1..N /\ 0 \in 0..N
  BY <1>1, <1>3, <1>5
<1>7. PICK a, s : a = After(d.kids[p], x, new) /\ s = RemoveFirst(a, x)
  OBVIOUS
<1>8. s \in Seq(1..N) /\ \A k \in 1..Len(s) : s[k] \in Range(d.kids[p]) \/ s[k] > p
  <2>1. d.kids[p] \in Seq(1..N) /\ x \in Range(d.kids[p])
    BY <1>3, <1>4, <1>6
  <2>2. a \in Seq(1..N) /\ \A k \in 1..Len(a) : a[k] \in Range(d.kids[p]) \cup {new}
    BY <1>6, <1>7, <2>1, AfterType
  <2>3. s \in Seq(1..N) /\ Range(s) \subseteq Range(a)
    BY <1>7, <2>2, RemoveFirstKeeps
  <2>4. DOMAIN s = 1..Len(s) /\ DOMAIN a = 1..Len(a)
    BY <2>2, <2>3, LenProperties
  <2>5. Range(a) \subseteq Range(d.kids[p]) \cup {new}
    BY <2>2, <2>4 DEF Range
  <2>6. \A k \in 1..Len(s) : s[k] \in Range(s)
    BY <2>4 DEF Range
  <2> QED BY <1>6, <2>3, <2>5, <2>6
<1>9. PICK kids : kids = [d.kids EXCEPT ![p] = s]
  OBVIOUS
<1>10. kids \in [0..N -> Seq(1..N)] /\ KidsNewer(kids, N)
  BY <1>4, <1>6, <1>8, <1>9, KidsChange
<1>11. PICK next1, next :
         /\ next1 = Link([d.next EXCEPT ![lastNew] = d.next[last]], d.prev[x], new)
         /\ next = [next1 EXCEPT ![last] = 0]
  OBVIOUS
<1>12. d.next[last] \in 0..N /\ d.prev[x] \in 0..N
  BY <1>4, <1>6
<1>13. next \in [1..N -> 0..N]
  <2>1. [d.next EXCEPT ![lastNew] = d.next[last]] \in [1..N -> 0..N]
    BY <1>4, <1>6, <1>12
  <2>2. next1 \in [1..N -> 0..N]
    BY <1>6, <1>11, <1>12, <2>1, LinkType
  <2> QED BY <1>6, <1>11, <2>2
<1>14. PICK prev1, prev :
         /\ prev1 = Link([d.prev EXCEPT ![new] = d.prev[x]], d.next[last], lastNew)
         /\ prev = [prev1 EXCEPT ![x] = 0]
  OBVIOUS
<1>15. prev \in [1..N -> 0..N]
  <2>1. [d.prev EXCEPT ![new] = d.prev[x]] \in [1..N -> 0..N]
    BY <1>4, <1>6, <1>12
  <2>2. prev1 \in [1..N -> 0..N]
    BY <1>6, <1>12, <1>14, <2>1, LinkType
  <2> QED BY <1>6, <1>14, <2>2
<1>16. Replaced(c, x, p, w) = [d EXCEPT !.kids = kids, !.next = next, !.prev = prev]
  <2>1. Replaced(c, x, p, w) = ReplacedBy(d, x, p, last, new, lastNew)
    BY <1>2 DEF Replaced
  <2>2. ReplacedBy(d, x, p, last, new, lastNew) =
          [d EXCEPT !.kids = kids, !.next = next, !.prev = prev]
    BY <1>7, <1>9, <1>11, <1>14, Zenon DEF ReplacedBy
  <2> QED BY <2>1, <2>2
<1>17. EditOf([d EXCEPT !.kids = kids, !.next = next, !.prev = prev], d, T, N)
  BY <1>4, <1>10, <1>13, <1>15, PartsReplaced
<1> QED BY <1>1, <1>4, <1>16, <1>17 DEF EditOf

(* So does replaceText.                                                    *)
LEMMA WordsReplaced ==
  ASSUME NEW T, NEW n \in Nat, NEW c, Sound(c, T, n), NEW what \in Texts, NEW with \in Texts
  PROVE  EditOf(TextReplaced(c, what, with), c, T, n)
<1>1. /\ c \in ContentStreams(T, n) /\ KidsNewer(c.kids, n) /\ Len(c.op) = n
      /\ c.op \in [1..n -> Operators]
  BY SoundParts
<1>2. with \in Operators
  BY DEF Operators
<1>3. PICK d : d = TextReplaced(c, what, with)
  OBVIOUS
<1>4. d \in ContentStreams(T, n) /\ d.kids = c.kids /\ d.streams = c.streams
  <2>1. PICK op : op = [y \in 1..n |->
                          IF y \in Range(List(c)) /\ c.op[y] = what THEN with ELSE c.op[y]]
    OBVIOUS
  <2>2. op \in [1..n -> Operators]
    BY <1>1, <1>2, <2>1
  <2>3. d = [c EXCEPT !.op = op]
    BY <1>1, <1>3, <2>1 DEF TextReplaced
  <2> QED BY <1>1, <2>2, <2>3 DEF ContentStreams
<1> QED BY <1>1, <1>3, <1>4 DEF EditOf, Sound

(* So does the change of an operand.                                       *)
LEMMA WordsSound ==
  ASSUME NEW T, NEW n \in Nat, NEW c, Sound(c, T, n), NEW with \in Texts, NEW x \in 1..n
  PROVE  EditOf([c EXCEPT !.op[x] = with], c, T, n)
<1>1. /\ c \in ContentStreams(T, n) /\ KidsNewer(c.kids, n) /\ Len(c.op) = n
      /\ c.op \in [1..n -> Operators]
  BY SoundParts
<1>2. with \in Operators
  BY DEF Operators
<1>3. PICK e : e = [c EXCEPT !.op[x] = with]
  OBVIOUS
<1>4. e \in ContentStreams(T, n) /\ e.kids = c.kids /\ e.streams = c.streams
  <2>1. PICK op : op = [c.op EXCEPT ![x] = with]
    OBVIOUS
  <2>2. op \in [1..n -> Operators]
    BY <1>1, <1>2, <2>1
  <2>3. e = [c EXCEPT !.op = op]
    BY <1>3, <2>1, Zenon
  <2> QED BY <1>1, <2>2, <2>3 DEF ContentStreams
<1> QED BY <1>1, <1>3, <1>4 DEF EditOf, Sound

-----------------------------------------------------------------------------
(* How many streams a content stream takes.                                *)

(* The number of its stream for every operator.                            *)
Stamps(words) == [k \in 1..Len(words) |-> [j \in 1..Len(words[k]) |-> k]]

(* How many operators the first k of the words have.                       *)
Ahead(words, k) == Len(FlattenSeq(SubSeq(words, 1, k)))

(* The streams of the operators come one after the other, and those up to  *)
(* the k-th have the operators of the first k words.                       *)
Stamped(f, words) ==
    /\ f \in Seq(1..Len(words))
    /\ Len(f) = Len(FlattenSeq(words))
    /\ \A i \in 1..Len(f), j \in 1..Len(f) : i <= j => f[i] <= f[j]
    /\ \A k \in 0..Len(words) : \A i \in 1..Len(f) : f[i] <= k <=> i <= Ahead(words, k)

(* The first k of the words have as many, whatever is appended, and no     *)
(* more than all.                                                          *)
LEMMA AheadFacts ==
  ASSUME NEW S, NEW words \in Seq(Seq(S)), NEW n \in Nat, Len(words) = n
  PROVE  /\ \A k \in 0..n : Ahead(words, k) \in 0..Len(FlattenSeq(words))
         /\ Ahead(words, n) = Len(FlattenSeq(words))
         /\ \A k \in 0..n, e \in Seq(S) : Ahead(Append(words, e), k) = Ahead(words, k)
<1>1. ASSUME NEW k \in 0..n PROVE Ahead(words, k) \in 0..Len(FlattenSeq(words))
  <2>1. PICK a, b : a = SubSeq(words, 1, k) /\ b = SubSeq(words, k + 1, n)
    OBVIOUS
  <2>2. \A i \in 1..n : words[i] \in Seq(S)
    BY ElementOfSeq
  <2>3. a \in Seq(Seq(S)) /\ b \in Seq(Seq(S))
    <3>1. \A i \in 1..k : words[i] \in Seq(S)
      BY <2>2
    <3>2. \A i \in (k + 1)..n : words[i] \in Seq(S)
      BY <2>2
    <3>3. k \in Int /\ k + 1 \in Int /\ n \in Int /\ 1 \in Int
      OBVIOUS
    <3>4. SubSeq(words, 1, k) \in Seq(Seq(S))
      BY <3>1, <3>3, SubSeqProperties
    <3>5. SubSeq(words, k + 1, n) \in Seq(Seq(S))
      BY <3>2, <3>3, SubSeqProperties
    <3> QED BY <2>1, <3>4, <3>5
  <2>4. a \o b = words
    <3>1. 1 \in 1..(Len(words) + 1) /\ k \in (1 - 1)..Len(words) /\ n \in k..Len(words)
      OBVIOUS
    <3>2. SubSeq(words, 1, k) \o SubSeq(words, k + 1, n) = SubSeq(words, 1, n)
      BY <3>1, ConcatAdjacentSubSeq
    <3> QED BY <2>1, <3>2, SubSeqFull
  <2>5. FlattenSeq(words) = FlattenSeq(a) \o FlattenSeq(b)
    BY <2>3, <2>4, FlattenConcat
  <2>6. FlattenSeq(a) \in Seq(S) /\ FlattenSeq(b) \in Seq(S)
    BY <2>3, FlattenFacts
  <2>7. PICK c, d : c = FlattenSeq(a) /\ d = FlattenSeq(b)
    OBVIOUS
  <2>8. Len(c \o d) = Len(c) + Len(d) /\ Len(c) \in Nat /\ Len(d) \in Nat
    BY <2>6, <2>7, ConcatProperties, LenProperties
  <2>9. Len(FlattenSeq(words)) = Len(c) + Len(d)
    BY <2>5, <2>7, <2>8
  <2>10. Ahead(words, k) = Len(c)
    BY <2>1, <2>7 DEF Ahead
  <2> QED BY <2>8, <2>9, <2>10
<1>2. Ahead(words, n) = Len(FlattenSeq(words))
  BY SubSeqFull DEF Ahead
<1>3. ASSUME NEW k \in 0..n, NEW e \in Seq(S)
      PROVE  Ahead(Append(words, e), k) = Ahead(words, k)
  <2>1. PICK more : more = Append(words, e)
    OBVIOUS
  <2>2. /\ more \in Seq(Seq(S)) /\ Len(more) = n + 1
        /\ \A j \in 1..n : more[j] = words[j]
    BY <2>1, AppendProperties
  <2>3. \A i \in 1..k : words[i] \in Seq(S) /\ more[i] = words[i]
    <3>1. \A i \in 1..n : words[i] \in Seq(S)
      BY ElementOfSeq
    <3> QED BY <2>2, <3>1
  <2>4. k \in Int /\ 1 \in Int
    OBVIOUS
  <2>5. PICK a, b : a = SubSeq(words, 1, k) /\ b = SubSeq(more, 1, k)
    OBVIOUS
  <2>6. /\ a \in Seq(Seq(S)) /\ Len(a) = IF 1 <= k THEN k - 1 + 1 ELSE 0
        /\ \A i \in 1..(k - 1 + 1) : a[i] = words[1 + i - 1]
    BY <2>3, <2>4, <2>5, SubSeqProperties
  <2>7. /\ b \in Seq(Seq(S)) /\ Len(b) = IF 1 <= k THEN k - 1 + 1 ELSE 0
        /\ \A i \in 1..(k - 1 + 1) : b[i] = more[1 + i - 1]
    BY <2>3, <2>4, <2>5, SubSeqProperties
  <2>8. Len(a) = k /\ Len(b) = k
    BY <2>6, <2>7
  <2>9. \A i \in 1..k : a[i] = b[i]
    <3>1. \A i \in 1..k : i \in 1..(k - 1 + 1) /\ 1 + i - 1 = i
      OBVIOUS
    <3>2. ASSUME NEW i \in 1..k PROVE a[i] = b[i]
      <4>1. a[i] = words[1 + i - 1] /\ b[i] = more[1 + i - 1]
        BY <2>6, <2>7, <3>1
      <4> QED BY <2>3, <3>1, <4>1
    <3> QED BY <3>2
  <2>10. a = b
    <3>1. PICK T : T = Seq(S)
      OBVIOUS
    <3>2. a \in Seq(T) /\ b \in Seq(T)
      BY <2>6, <2>7, <3>1
    <3> QED BY <2>8, <2>9, <3>2, SameSeq
  <2> QED BY <2>1, <2>5, <2>10 DEF Ahead
<1> QED BY <1>1, <1>2, <1>3

(* So it is.                                                               *)
LEMMA StampsInOrder ==
  ASSUME NEW S
  PROVE  \A words \in Seq(Seq(S)) : Stamped(FlattenSeq(Stamps(words)), words)
<1> DEFINE X == {words \in Seq(Seq(S)) :
                   /\ Stamped(FlattenSeq(Stamps(words)), words)
                   /\ Stamps(words) \in Seq(Seq(1..Len(words)))}
<1>1. <<>> \in X
  <2>1. Len(<<>>) = 0 /\ <<>> \in Seq(Seq(S)) /\ FlattenSeq(<<>>) = <<>>
    BY EmptySeq, FlattenFacts
  <2>2. Stamps(<<>>) = <<>>
    BY <2>1 DEF Stamps
  <2>3. <<>> \in Seq(1..Len(<<>>)) /\ <<>> \in Seq(Seq(1..Len(<<>>)))
    BY EmptySeq
  <2>4. Stamped(<<>>, <<>>)
    <3>1. 1..Len(<<>>) = {}
      BY <2>1
    <3> QED BY <2>1, <2>3, <3>1 DEF Stamped
  <2> QED BY <2>1, <2>2, <2>3, <2>4
<1>2. ASSUME NEW words \in Seq(Seq(S)), NEW e \in Seq(S), words \in X
      PROVE  Append(words, e) \in X
  <2>1. PICK n \in Nat : n = Len(words)
    BY LenProperties
  <2>2. PICK m \in Nat : m = Len(e)
    BY LenProperties
  <2>3. PICK more : more = Append(words, e)
    OBVIOUS
  <2>4. /\ more \in Seq(Seq(S)) /\ Len(more) = n + 1 /\ more[n + 1] = e
        /\ \A k \in 1..n : more[k] = words[k]
    BY <2>1, <2>3, AppendProperties
  <2>5. PICK f : f = FlattenSeq(Stamps(words))
    OBVIOUS
  <2>6. PICK l \in Nat : l = Len(f)
    BY <1>2, <2>5, LenProperties DEF Stamped
  <2>7. /\ Stamps(words) \in Seq(Seq(1..n))
        /\ f \in Seq(1..n) /\ l = Len(FlattenSeq(words))
        /\ \A i \in 1..l, j \in 1..l : i <= j => f[i] <= f[j]
    BY <1>2, <2>1, <2>5, <2>6 DEF Stamped
  <2>8. PICK last : last = [j \in 1..m |-> n + 1]
    OBVIOUS
  <2>9. last \in Seq(1..(n + 1)) /\ Len(last) = m /\ \A j \in 1..m : last[j] = n + 1
    <3>1. last \in [1..m -> 1..(n + 1)]
      BY <2>8
    <3> QED BY <2>8, <3>1, SeqIsFunction
  <2>10. Stamps(words) \in Seq(Seq(1..(n + 1))) /\ f \in Seq(1..(n + 1))
    <3>1. 1..n \subseteq 1..(n + 1)
      OBVIOUS
    <3>2. f \in Seq(1..(n + 1))
      BY <2>7, <3>1, SeqMonotonic
    <3>3. Seq(1..n) \subseteq Seq(1..(n + 1))
      BY <3>1, SeqMonotonic
    <3> QED BY <2>7, <3>2, <3>3, SeqMonotonic
  <2>11. Stamps(more) = Append(Stamps(words), last)
    <3>1. PICK a : a = Append(Stamps(words), last)
      OBVIOUS
    <3>2. Len(Stamps(words)) = n
      <4>1. DOMAIN Stamps(words) = 1..n
        BY <2>1 DEF Stamps
      <4>2. DOMAIN Stamps(words) = 1..Len(Stamps(words)) /\ Len(Stamps(words)) \in Nat
        BY <2>7, LenProperties
      <4> QED BY <4>1, <4>2
    <3>3. /\ a \in Seq(Seq(1..(n + 1))) /\ Len(a) = n + 1 /\ a[n + 1] = last
          /\ \A k \in 1..n : a[k] = Stamps(words)[k]
      BY <2>9, <2>10, <3>1, <3>2, AppendProperties
    <3>4. ASSUME NEW k \in 1..(n + 1) PROVE a[k] = [j \in 1..Len(more[k]) |-> k]
      <4>1. CASE k = n + 1
        BY <2>2, <2>4, <2>8, <3>3, <4>1
      <4>2. CASE k # n + 1
        <5>1. k \in 1..n
          BY <4>2
        <5>2. Stamps(words)[k] = [j \in 1..Len(words[k]) |-> k]
          BY <2>1, <5>1 DEF Stamps
        <5> QED BY <2>4, <3>3, <5>1, <5>2
      <4> QED BY <4>1, <4>2
    <3>5. a = [k \in 1..(n + 1) |-> a[k]]
      <4>1. a \in [1..(n + 1) -> Seq(1..(n + 1))]
        BY <3>3, LenProperties
      <4> QED BY <4>1
    <3>6. a = [k \in 1..(n + 1) |-> [j \in 1..Len(more[k]) |-> k]]
      BY <3>4, <3>5
    <3> QED BY <2>4, <3>1, <3>6 DEF Stamps
  <2>12. PICK g : g = FlattenSeq(Stamps(more))
    OBVIOUS
  <2>13. g = f \o last
    BY <2>5, <2>9, <2>10, <2>11, <2>12, FlattenFacts
  <2>14. /\ g \in Seq(1..(n + 1)) /\ Len(g) = l + m
         /\ \A i \in 1..(l + m) : g[i] = IF i <= l THEN f[i] ELSE last[i - l]
    <3>1. /\ f \o last \in Seq(1..(n + 1)) /\ Len(f \o last) = Len(f) + Len(last)
          /\ \A i \in 1..(Len(f) + Len(last)) :
                (f \o last)[i] = IF i <= Len(f) THEN f[i] ELSE last[i - Len(f)]
      BY ZenonT(40), <2>9, <2>10, ConcatProperties
    <3> QED BY <2>6, <2>9, <2>13, <3>1
  <2>15. Len(FlattenSeq(more)) = l + m
    <3>1. FlattenSeq(more) = FlattenSeq(words) \o e /\ FlattenSeq(words) \in Seq(S)
      BY <2>3, FlattenFacts
    <3>2. Len(FlattenSeq(words) \o e) = Len(FlattenSeq(words)) + Len(e)
      BY <3>1, ConcatProperties
    <3> QED BY <2>2, <2>7, <3>1, <3>2
  <2>16. \A i \in 1..l : f[i] \in 1..n
    BY <2>6, <2>7, ElementOfSeq
  <2>17. ASSUME NEW i \in 1..(l + m), NEW j \in 1..(l + m), i <= j PROVE g[i] <= g[j]
    <3>1. CASE j <= l
      <4>1. i \in 1..l /\ j \in 1..l /\ i <= l
        BY <2>17, <3>1
      <4>2. g[i] = f[i] /\ g[j] = f[j]
        BY <2>14, <3>1, <4>1
      <4>3. f[i] <= f[j]
        BY <2>7, <2>17, <4>1
      <4> QED BY <4>2, <4>3
    <3>2. CASE ~(j <= l)
      <4>1. j - l \in 1..m
        BY <3>2
      <4>2. g[j] = n + 1
        BY <2>9, <2>14, <3>2, <4>1
      <4>3. CASE i <= l
        <5>0. i \in 1..l
          BY <4>3
        <5>1. g[i] \in 1..n
          BY <2>14, <2>16, <4>3, <5>0
        <5> QED BY <4>2, <5>1
      <4>4. CASE ~(i <= l)
        <5>1. i - l \in 1..m
          BY <4>4
        <5> QED BY <2>9, <2>14, <4>2, <4>4, <5>1
      <4> QED BY <4>3, <4>4
    <3> QED BY <3>1, <3>2
  <2>18. ASSUME NEW k \in 0..(n + 1), NEW i \in 1..(l + m)
         PROVE  g[i] <= k <=> i <= Ahead(more, k)
    <3>1. CASE k = n + 1
      <4>1. Ahead(more, k) = l + m
        BY SMTT(30), <2>4, <2>15, <3>1, AheadFacts
      <4>2. g[i] \in 1..(n + 1)
        BY <2>14, ElementOfSeq
      <4> QED BY <3>1, <4>1, <4>2
    <3>2. CASE k # n + 1
      <4>1. k \in 0..n
        BY <3>2
      <4>2. Ahead(more, k) = Ahead(words, k) /\ Ahead(words, k) \in 0..l
        BY <2>1, <2>3, <2>7, <4>1, AheadFacts
      <4>3. CASE i <= l
        <5>1. i \in 1..l
          BY <4>3
        <5>2. \A x \in 0..Len(words) : \A y \in 1..Len(f) : f[y] <= x <=> y <= Ahead(words, x)
          BY <1>2, <2>5 DEF Stamped
        <5>3. f[i] <= k <=> i <= Ahead(words, k)
          BY <2>1, <2>6, <4>1, <5>1, <5>2
        <5> QED BY <2>14, <4>2, <4>3, <5>3
      <4>4. CASE ~(i <= l)
        <5>1. i - l \in 1..m
          BY <4>4
        <5>2. g[i] = n + 1
          BY <2>9, <2>14, <4>4, <5>1
        <5> QED BY <4>1, <4>2, <4>4, <5>2
      <4> QED BY <4>3, <4>4
    <3> QED BY <3>1, <3>2
  <2>19. Stamped(g, more)
    BY <2>4, <2>14, <2>15, <2>17, <2>18 DEF Stamped
  <2>20. Stamps(more) \in Seq(Seq(1..(n + 1)))
    BY <2>9, <2>10, <2>11, AppendProperties
  <2> QED BY <2>3, <2>4, <2>12, <2>19, <2>20
<1> HIDE DEF X
<1>3. \A words \in Seq(Seq(S)) : words \in X
  BY <1>1, <1>2, SeqInduction
<1> QED BY <1>3 DEF X

(* The streams of l operators, and behind them the end.                    *)
Placed(at, words, n, l) ==
    /\ \A i \in 1..l : at[i] \in 1..n
    /\ \A i \in 1..l, j \in 1..l : i <= j => at[i] <= at[j]
    /\ \A k \in 0..n, i \in 1..l : at[i] <= k <=> i <= Ahead(words, k)
    /\ at[l + 1] = n + 1

(* StreamAt tells them.                                                    *)
LEMMA StreamAtPlaces ==
  ASSUME NEW S, NEW words \in Seq(Seq(S)), NEW n \in Nat, Len(words) = n,
         NEW l \in Nat, Len(FlattenSeq(words)) = l
  PROVE  Placed(StreamAt(words), words, n, l)
<1>1. PICK f : f = FlattenSeq(Stamps(words))
  OBVIOUS
<1>2. /\ f \in Seq(1..n) /\ Len(f) = l
      /\ \A i \in 1..l, j \in 1..l : i <= j => f[i] <= f[j]
      /\ \A k \in 0..n, i \in 1..l : f[i] <= k <=> i <= Ahead(words, k)
  BY <1>1, StampsInOrder DEF Stamped
<1>3. PICK at : at = StreamAt(words)
  OBVIOUS
<1>4. at = f \o <<n + 1, n + 1>>
  BY <1>1, <1>3 DEF StreamAt, Stamps
<1>5. /\ \A i \in 1..l : at[i] = f[i]
      /\ at[l + 1] = n + 1
  <2>1. PICK e : e = <<n + 1, n + 1>>
    OBVIOUS
  <2>2. e \in Seq(1..(n + 1)) /\ Len(e) = 2 /\ e[1] = n + 1
    BY <2>1
  <2>3. f \in Seq(1..(n + 1))
    <3>1. 1..n \subseteq 1..(n + 1)
      OBVIOUS
    <3> QED BY <1>2, <3>1, SeqMonotonic
  <2>4. \A i \in 1..(Len(f) + Len(e)) :
           (f \o e)[i] = IF i <= Len(f) THEN f[i] ELSE e[i - Len(f)]
    BY ZenonT(40), <2>2, <2>3, ConcatProperties
  <2>5. \A i \in 1..(l + 2) : at[i] = IF i <= l THEN f[i] ELSE e[i - l]
    BY <1>2, <1>4, <2>1, <2>2, <2>4
  <2>6. l + 1 \in 1..(l + 2) /\ ~(l + 1 <= l) /\ (l + 1) - l = 1
    OBVIOUS
  <2> QED BY <2>2, <2>5, <2>6
<1>6. \A i \in 1..l : f[i] \in 1..n
  BY <1>2, ElementOfSeq
<1> QED BY <1>2, <1>3, <1>5, <1>6 DEF Placed

(* The first of some operators is one of them.                             *)
LEMMA MinIsLeast ==
  ASSUME NEW S, S \subseteq Nat, S # {}
  PROVE  Min(S) \in S /\ \A x \in S : Min(S) <= x
<1>1. \E x \in S : \A y \in S : x <= y
  BY LeastNat
<1> QED BY <1>1, Zenon DEF Min

(* A content stream takes at least one stream, and none that is not there. *)
LEMMA TakenType ==
  ASSUME NEW S, NEW words \in Seq(Seq(S)), NEW n \in Nat \ {0}, Len(words) = n
  PROVE  Taken(words) \in 1..n
<1>1. PICK w, at : w = FlattenSeq(words) /\ at = StreamAt(words)
  OBVIOUS
<1>2. PICK l \in Nat : l = Len(w)
  <2>1. w \in Seq(S)
    BY <1>1, FlattenFacts
  <2> QED BY <2>1, LenProperties
<1>3. /\ \A i \in 1..l : at[i] \in 1..n
      /\ \A i \in 1..l, j \in 1..l : i <= j => at[i] <= at[j]
      /\ at[l + 1] = n + 1
  BY <1>1, <1>2, StreamAtPlaces DEF Placed
<1>4. PICK breaks : breaks = Breaks(w, at, OpenBefore(w))
  OBVIOUS
<1>5. breaks \subseteq 1..l /\ \A i \in breaks : at[i + 1] # at[i]
  BY <1>2, <1>4 DEF Breaks, EndSeen
<1>6. Taken(words) = TakenUpTo(breaks, at, n)
  BY <1>1, <1>4 DEF Taken, TakenOf
<1>7. CASE breaks = {}
  BY <1>6, <1>7 DEF TakenUpTo
<1>8. CASE breaks # {}
  <2>1. PICK i : i = Min(breaks)
    OBVIOUS
  <2>2. i \in breaks
    <3>1. breaks \subseteq Nat
      BY <1>5
    <3> QED BY <1>8, <2>1, <3>1, MinIsLeast
  <2>3. i \in 1..l /\ at[i + 1] # at[i]
    BY <1>5, <2>2
  <2>4. at[i] \in 1..n
    BY <1>3, <2>3
  <2>5. at[i + 1] \in 1..(n + 1) /\ at[i + 1] >= at[i]
    <3>1. CASE i = l
      BY <1>3, <2>4, <3>1
    <3>2. CASE i # l
      <4>1. i + 1 \in 1..l
        BY <2>3, <3>2
      <4>2. at[i] <= at[i + 1] /\ at[i + 1] \in 1..n
        BY <1>3, <2>3, <4>1
      <4> QED BY <2>4, <4>2
    <3> QED BY <3>1, <3>2
  <2>6. at[i + 1] - 1 \in 1..n
    BY <2>3, <2>4, <2>5
  <2>7. Taken(words) = at[i + 1] - 1
    BY <1>6, <1>8, <2>1 DEF TakenUpTo
  <2> QED BY <2>6, <2>7
<1> QED BY <1>7, <1>8

-----------------------------------------------------------------------------
(* A word that begins where nothing is open.                               *)

(* Places in a word, n further on.                                         *)
Raised(xs, n) == [k \in 1..Len(xs) |-> xs[k] + n]

(* Raising goes with opening and closing.                                  *)
LEMMA RaisedFacts ==
  ASSUME NEW xs \in Seq(Nat), NEW n \in Nat
  PROVE  /\ Raised(xs, n) \in Seq(Nat) /\ Len(Raised(xs, n)) = Len(xs)
         /\ Raised(xs, n) = <<>> <=> xs = <<>>
         /\ xs # <<>> => /\ Last(Raised(xs, n)) = Last(xs) + n
                         /\ Raised(Front(xs), n) = Front(Raised(xs, n))
         /\ \A i \in Nat : Raised(Append(xs, i), n) = Append(Raised(xs, n), i + n)
<1>1. PICK l \in Nat : l = Len(xs)
  BY LenProperties
<1>2. PICK ys : ys = Raised(xs, n)
  OBVIOUS
<1>3. \A k \in 1..l : xs[k] \in Nat
  BY <1>1, ElementOfSeq
<1>4. ys = [k \in 1..l |-> xs[k] + n]
  BY <1>1, <1>2 DEF Raised
<1>5. ys \in Seq(Nat) /\ Len(ys) = l /\ \A k \in 1..l : ys[k] = xs[k] + n
  <2>1. ys \in [1..l -> Nat]
    BY <1>3, <1>4
  <2> QED BY <1>4, <2>1, SeqIsFunction
<1>6. ys = <<>> <=> xs = <<>>
  BY <1>1, <1>5, EmptySeq
<1>7. ASSUME xs # <<>>
      PROVE  Last(ys) = Last(xs) + n /\ Raised(Front(xs), n) = Front(ys)
  <2>1. l # 0
    BY <1>1, <1>7, EmptySeq
  <2>2. l \in 1..l
    BY <2>1
  <2>3. Last(ys) = Last(xs) + n
    BY <1>1, <1>5, <2>2 DEF Last
  <2>4. PICK a, b : a = Front(xs) /\ b = Front(ys)
    OBVIOUS
  <2>5. a = SubSeq(xs, 1, l - 1) /\ b = SubSeq(ys, 1, l - 1)
    BY <1>1, <1>5, <2>4 DEF Front
  <2>6. 1 \in Int /\ l - 1 \in Int
    OBVIOUS
  <2>7. \A k \in 1..(l - 1) : xs[k] \in Nat /\ ys[k] \in Nat
    BY <1>3, <1>5
  <2>8. /\ a \in Seq(Nat) /\ Len(a) = IF 1 <= l - 1 THEN (l - 1) - 1 + 1 ELSE 0
        /\ \A k \in 1..((l - 1) - 1 + 1) : a[k] = xs[1 + k - 1]
    BY <2>5, <2>6, <2>7, SubSeqProperties
  <2>9. /\ b \in Seq(Nat) /\ Len(b) = IF 1 <= l - 1 THEN (l - 1) - 1 + 1 ELSE 0
        /\ \A k \in 1..((l - 1) - 1 + 1) : b[k] = ys[1 + k - 1]
    BY <2>5, <2>6, <2>7, SubSeqProperties
  <2>10. PICK m \in Nat : m = l - 1
    BY <2>1
  <2>11. Len(a) = m /\ Len(b) = m
    BY <2>8, <2>9, <2>10
  <2>12. ASSUME NEW k \in 1..m PROVE b[k] = a[k] + n
    <3>1. k \in 1..((l - 1) - 1 + 1) /\ 1 + k - 1 = k /\ k \in 1..l
      BY <2>10
    <3>2. a[k] = xs[k] /\ b[k] = ys[k]
      BY <2>8, <2>9, <3>1
    <3> QED BY <1>5, <3>1, <3>2
  <2>13. b = [k \in 1..m |-> b[k]]
    <3>1. b \in [1..m -> Nat]
      BY <2>9, <2>11, LenProperties
    <3> QED BY <3>1
  <2>14. b = Raised(a, n)
    BY <2>11, <2>12, <2>13 DEF Raised
  <2> QED BY <2>3, <2>4, <2>14
<1>8. ASSUME NEW i \in Nat PROVE Raised(Append(xs, i), n) = Append(ys, i + n)
  <2>1. PICK a, b : a = Append(xs, i) /\ b = Append(ys, i + n)
    OBVIOUS
  <2>2. a \in Seq(Nat) /\ Len(a) = l + 1 /\ a[l + 1] = i /\ \A k \in 1..l : a[k] = xs[k]
    BY <1>1, <2>1, AppendProperties
  <2>3. i + n \in Nat
    OBVIOUS
  <2>4. b \in Seq(Nat) /\ Len(b) = l + 1 /\ b[l + 1] = i + n /\ \A k \in 1..l : b[k] = ys[k]
    BY SMTT(30), <1>5, <2>1, <2>3, AppendProperties
  <2>5. \A k \in 1..(l + 1) : b[k] = a[k] + n
    <3>1. \A k \in 1..(l + 1) : k = l + 1 \/ k \in 1..l
      OBVIOUS
    <3> QED BY <1>5, <2>2, <2>4, <3>1
  <2>6. b = [k \in 1..(l + 1) |-> b[k]]
    <3>1. b \in [1..(l + 1) -> Nat]
      BY <2>4, LenProperties
    <3> QED BY <3>1
  <2>7. b = [k \in 1..(l + 1) |-> a[k] + n]
    BY <2>5, <2>6
  <2> QED BY <2>1, <2>2, <2>7 DEF Raised
<1> QED BY <1>1, <1>2, <1>5, <1>6, <1>7, <1>8

(* What an operator opens and closes does not depend on where it stands.   *)
LEMMA OpenAfterRaised ==
  ASSUME NEW w, NEW v, NEW n \in Nat, NEW i \in Nat \ {0}, NEW open \in Seq(1..(i - 1)),
         \A j \in 1..i : w[j + n] = v[j]
  PROVE  OpenAfter(Raised(open, n), w, i + n) = Raised(OpenAfter(open, v, i), n)
<1>1. open \in Seq(Nat)
  <2>1. 1..(i - 1) \subseteq Nat
    OBVIOUS
  <2> QED BY <2>1, SeqMonotonic
<1>2. PICK raised : raised = Raised(open, n)
  OBVIOUS
<1>3. /\ raised = <<>> <=> open = <<>>
      /\ open # <<>> => Last(raised) = Last(open) + n /\ Raised(Front(open), n) = Front(raised)
      /\ Raised(Append(open, i), n) = Append(raised, i + n)
  BY <1>1, <1>2, RaisedFacts
<1>4. w[i + n] = v[i]
  OBVIOUS
<1>5. open # <<>> => w[Last(raised)] = v[Last(open)]
  <2> SUFFICES ASSUME open # <<>> PROVE w[Last(raised)] = v[Last(open)]
    OBVIOUS
  <2>1. Len(open) \in 1..Len(open)
    BY <1>1, LenProperties, EmptySeq
  <2>2. Last(open) \in 1..(i - 1)
    BY <2>1, ElementOfSeq DEF Last
  <2>3. PICK k \in 1..i : k = Last(open)
    BY <2>2
  <2>4. Last(raised) = k + n
    BY <1>3, <2>3
  <2> QED BY <2>3, <2>4
<1>6. CASE v[i] \in Openers
  BY <1>2, <1>3, <1>4, <1>6 DEF OpenAfter
<1>7. CASE v[i] \notin Openers
  <2>1. open # <<>> /\ v[i] = EndTag[v[Last(open)]] <=>
          raised # <<>> /\ w[i + n] = EndTag[w[Last(raised)]]
    BY <1>3, <1>4, <1>5
  <2>2. CASE open # <<>> /\ v[i] = EndTag[v[Last(open)]]
    <3>1. OpenAfter(open, v, i) = Front(open)
      BY <1>7, <2>2 DEF OpenAfter
    <3>2. OpenAfter(raised, w, i + n) = Front(raised)
      BY <1>4, <1>7, <2>1, <2>2 DEF OpenAfter
    <3> QED BY <1>2, <1>3, <2>2, <3>1, <3>2
  <2>3. CASE ~(open # <<>> /\ v[i] = EndTag[v[Last(open)]])
    <3>1. OpenAfter(open, v, i) = open
      BY <1>7, <2>3 DEF OpenAfter
    <3>2. OpenAfter(raised, w, i + n) = raised
      BY <1>4, <1>7, <2>1, <2>3 DEF OpenAfter
    <3> QED BY <1>2, <3>1, <3>2
  <2> QED BY <2>2, <2>3
<1> QED BY <1>6, <1>7

(* Where nothing is open at some place, it is as if the word began there.  *)
LEMMA OpenRestarts ==
  ASSUME NEW u \in Seq(Operators), NEW v \in Seq(Operators), NEW n \in Nat, NEW m \in Nat,
         Len(u) = n, Len(v) = m
  PROVE  /\ OpenBefore(Cat(u, v))[n + 1] = <<>> <=> Complete(u)
         /\ Complete(u) => (Complete(Cat(u, v)) <=> Complete(v))
<1>1. PICK w : w = Cat(u, v)
  OBVIOUS
<1>2. /\ w \in Seq(Operators) /\ Len(w) = n + m
      /\ \A i \in 1..(n + m) : w[i] = IF i <= n THEN u[i] ELSE v[i - n]
  <2>1. /\ u \o v \in Seq(Operators) /\ Len(u \o v) = Len(u) + Len(v)
        /\ \A i \in 1..(Len(u) + Len(v)) : (u \o v)[i] = IF i <= Len(u) THEN u[i] ELSE v[i - Len(u)]
    BY ZenonT(40), ConcatProperties
  <2> QED BY <1>1, <2>1 DEF Cat
<1>3. PICK b, c, d : b = OpenBefore(w) /\ c = OpenBefore(u) /\ d = OpenBefore(v)
  OBVIOUS
<1>4. Opened(c, u, n) /\ Opened(d, v, m)
  BY <1>3, OpenBeforeOpened
<1>5. Opened(b, w, n + m)
  <2>1. n + m \in Nat
    OBVIOUS
  <2> QED BY <1>2, <1>3, <2>1, OpenBeforeOpened
<1>6. /\ b \in Seq(Seq(Nat)) /\ Len(b) = n + m + 1 /\ b[1] = <<>>
      /\ \A i \in 1..(n + m) : b[i + 1] = OpenAfter(b[i], w, i)
      /\ \A i \in 1..(n + m + 1) : b[i] \in Seq(1..(i - 1))
  BY <1>5 DEF Opened
<1>7. /\ c \in Seq(Seq(Nat)) /\ Len(c) = n + 1 /\ c[1] = <<>>
      /\ \A i \in 1..n : c[i + 1] = OpenAfter(c[i], u, i)
      /\ \A i \in 1..(n + 1) : c[i] \in Seq(1..(i - 1))
  BY <1>4 DEF Opened
<1>8. /\ d \in Seq(Seq(Nat)) /\ Len(d) = m + 1 /\ d[1] = <<>>
      /\ \A i \in 1..m : d[i + 1] = OpenAfter(d[i], v, i)
      /\ \A i \in 1..(m + 1) : d[i] \in Seq(1..(i - 1))
  BY <1>4 DEF Opened
<1> DEFINE X == {k \in 0..n : b[k + 1] = c[k + 1]}
<1>9. 0 \in X
  BY <1>6, <1>7
<1>10. ASSUME NEW k \in 0..(n - 1), k \in X PROVE k + 1 \in X
  <2>1. PICK i \in 1..n : i = k + 1
    OBVIOUS
  <2>2. i \in 1..(n + m)
    OBVIOUS
  <2>3. b[i + 1] = OpenAfter(b[i], w, i) /\ c[i + 1] = OpenAfter(c[i], u, i)
    BY <1>6, <1>7, <2>2
  <2>4. b[i] = c[i]
    BY <1>10, <2>1
  <2>5. PICK open : open = c[i]
    OBVIOUS
  <2>6. open \in Seq(1..(i - 1))
    BY <1>7, <2>5
  <2>7. \A j \in 1..i : w[j] = u[j]
    BY <1>2
  <2>8. open # <<>> => w[Last(open)] = u[Last(open)]
    <3>1. open # <<>> => Len(open) \in 1..Len(open)
      BY <2>6, LenProperties, EmptySeq
    <3>2. open # <<>> => Last(open) \in 1..(i - 1)
      BY <2>6, <3>1, ElementOfSeq DEF Last
    <3>3. 1..(i - 1) \subseteq 1..i
      OBVIOUS
    <3> QED BY <2>7, <3>2, <3>3
  <2>9. w[i] = u[i]
    BY <2>7
  <2>10. OpenAfter(open, w, i) = OpenAfter(open, u, i)
    BY Zenon, <2>8, <2>9 DEF OpenAfter
  <2> QED BY <2>1, <2>3, <2>4, <2>5, <2>10
<1>11. b[n + 1] = c[n + 1]
  <2> HIDE DEF X
  <2>1. \A k \in 0..(n - 1) : k \in X => k + 1 \in X
    BY <1>10
  <2>2. \A k \in 0..n : k \in X
    BY <1>9, <2>1, UpTo0
  <2>3. n \in 0..n
    OBVIOUS
  <2> QED BY <2>2, <2>3 DEF X
<1>12. Complete(u) <=> c[n + 1] = <<>>
  BY <1>3, <1>7 DEF Complete, OpenAtEnd, Last
<1>13. Complete(v) <=> d[m + 1] = <<>>
  BY <1>3, <1>8 DEF Complete, OpenAtEnd, Last
<1>14. Complete(w) <=> b[n + m + 1] = <<>>
  BY <1>3, <1>6 DEF Complete, OpenAtEnd, Last
<1>15. ASSUME b[n + 1] = <<>> PROVE b[n + m + 1] = <<>> <=> d[m + 1] = <<>>
  <2> DEFINE Y == {k \in 0..m : b[(k + 1) + n] = Raised(d[k + 1], n)}
  <2>1. \A k \in 1..(m + 1) : d[k] \in Seq(Nat)
    BY <1>8, ElementOfSeq
  <2>2. 0 \in Y
    <3>1. d[1] \in Seq(Nat)
      BY <2>1
    <3>2. Raised(d[1], n) = <<>>
      BY <1>8, <3>1, RaisedFacts
    <3>3. (0 + 1) + n = n + 1
      OBVIOUS
    <3> QED BY <1>15, <3>2, <3>3
  <2>3. ASSUME NEW k \in 0..(m - 1), k \in Y PROVE k + 1 \in Y
    <3>1. PICK i \in 1..m : i = k + 1
      OBVIOUS
    <3>2. i + n \in 1..(n + m) /\ (i + 1) + n = (i + n) + 1
      OBVIOUS
    <3>3. b[(i + 1) + n] = OpenAfter(b[i + n], w, i + n)
      BY <1>6, <3>2
    <3>4. b[i + n] = Raised(d[i], n)
      BY <2>3, <3>1
    <3>5. \A j \in 1..i : w[j + n] = v[j]
      <4>1. ASSUME NEW j \in 1..i PROVE w[j + n] = v[j]
        <5>1. j + n \in 1..(n + m) /\ ~(j + n <= n) /\ (j + n) - n = j
          OBVIOUS
        <5> QED BY <1>2, <5>1
      <4> QED BY <4>1
    <3>6. PICK open : open = d[i]
      OBVIOUS
    <3>7. open \in Seq(1..(i - 1)) /\ d[i + 1] = OpenAfter(open, v, i)
      BY <1>8, <3>6
    <3>8. i \in Nat \ {0}
      OBVIOUS
    <3>9. OpenAfter(Raised(open, n), w, i + n) = Raised(OpenAfter(open, v, i), n)
      BY <3>5, <3>7, <3>8, OpenAfterRaised
    <3> QED BY <3>1, <3>3, <3>4, <3>6, <3>7, <3>9
  <2> HIDE DEF Y
  <2>4. m \in Y
    <3>1. \A k \in 0..(m - 1) : k \in Y => k + 1 \in Y
      BY <2>3
    <3>2. \A k \in 0..m : k \in Y
      BY <2>2, <3>1, UpTo0
    <3>3. m \in 0..m
      OBVIOUS
    <3> QED BY <3>2, <3>3
  <2>5. b[(m + 1) + n] = Raised(d[m + 1], n)
    BY <2>4 DEF Y
  <2>6. (m + 1) + n = n + m + 1 /\ m + 1 \in 1..(m + 1)
    OBVIOUS
  <2>7. Raised(d[m + 1], n) = <<>> <=> d[m + 1] = <<>>
    BY <2>1, <2>6, RaisedFacts
  <2> QED BY <2>5, <2>6, <2>7
<1> QED BY <1>1, <1>3, <1>11, <1>12, <1>13, <1>14, <1>15

-----------------------------------------------------------------------------
(* Where the streams of a content stream end.                              *)

(* The words from the i-th to the j-th, one after the other.               *)
PartOf(words, i, j) == FlattenSeq(SubSeq(words, i, j))

(* They are put together of parts.                                         *)
LEMMA PartsJoined ==
  ASSUME NEW S, NEW words \in Seq(Seq(S)), NEW n \in Nat, Len(words) = n
  PROVE  /\ \A i \in 1..(n + 1), j \in 0..n : PartOf(words, i, j) \in Seq(S)
         /\ \A i \in 1..(n + 1) : \A j \in (i - 1)..n : \A k \in j..n :
               PartOf(words, i, k) = Cat(PartOf(words, i, j), PartOf(words, j + 1, k))
         /\ PartOf(words, 1, n) = FlattenSeq(words)
         /\ \A k \in 1..n : PartOf(words, k, k) = words[k]
<1>1. PICK T : T = Seq(S)
  OBVIOUS
<1>2. \A k \in 1..n : words[k] \in T
  BY <1>1, ElementOfSeq
<1>3. ASSUME NEW i \in 1..(n + 1), NEW j \in 0..n PROVE SubSeq(words, i, j) \in Seq(T)
  <2>1. \A k \in i..j : words[k] \in T
    BY <1>2
  <2>2. i \in Int /\ j \in Int
    OBVIOUS
  <2> QED BY <2>1, <2>2, SubSeqProperties
<1>4. \A i \in 1..(n + 1), j \in 0..n : PartOf(words, i, j) \in Seq(S)
  BY <1>1, <1>3, FlattenFacts DEF PartOf
<1>5. ASSUME NEW i \in 1..(n + 1), NEW j \in (i - 1)..n, NEW k \in j..n
      PROVE  PartOf(words, i, k) = Cat(PartOf(words, i, j), PartOf(words, j + 1, k))
  <2>1. PICK a, b, c : a = SubSeq(words, i, j) /\ b = SubSeq(words, j + 1, k) /\ c = SubSeq(words, i, k)
    OBVIOUS
  <2>2. j \in 0..n /\ j + 1 \in 1..(n + 1) /\ k \in 0..n
    OBVIOUS
  <2>3. a \in Seq(Seq(S)) /\ b \in Seq(Seq(S))
    BY <1>1, <1>3, <2>1, <2>2
  <2>4. a \o b = c
    <3>1. i \in 1..(Len(words) + 1) /\ j \in (i - 1)..Len(words) /\ k \in j..Len(words)
      OBVIOUS
    <3>2. SubSeq(words, i, j) \o SubSeq(words, j + 1, k) = SubSeq(words, i, k)
      BY <3>1, ConcatAdjacentSubSeq
    <3> QED BY <2>1, <3>2
  <2>5. FlattenSeq(c) = FlattenSeq(a) \o FlattenSeq(b)
    BY <2>3, <2>4, FlattenConcat
  <2> QED BY <2>1, <2>5 DEF PartOf, Cat
<1>6. PartOf(words, 1, n) = FlattenSeq(words)
  BY SubSeqFull DEF PartOf
<1>7. ASSUME NEW k \in 1..n PROVE PartOf(words, k, k) = words[k]
  <2>1. k \in 1..Len(words) /\ k \in k..Len(words)
    OBVIOUS
  <2>2. SubSeq(words, k, k) = << words[k] >> \o SubSeq(words, k + 1, k)
    BY <2>1, SubSeqRecursiveFirst
  <2>3. SubSeq(words, k + 1, k) = <<>>
    <3>1. k + 1 \in Int /\ k \in Int /\ k < k + 1
      OBVIOUS
    <3> QED BY <3>1, SubSeqEmpty
  <2>4. PICK e : e = words[k]
    OBVIOUS
  <2>5. e \in Seq(S) /\ <<e>> \in Seq(T)
    BY <1>1, <1>2, <2>4
  <2>6. SubSeq(words, k, k) = <<e>>
    BY <2>2, <2>3, <2>4, <2>5, ConcatEmptySeq
  <2>7. FlattenSeq(<<e>>) = e
    BY <2>5, FlattenConcat
  <2> QED BY <2>4, <2>6, <2>7 DEF PartOf
<1> QED BY <1>4, <1>5, <1>6, <1>7

(* Parsing that has read so much stops before a change of ours: nothing is *)
(* open, and it is long enough for its end to be seen.                     *)
Stops(u) == Complete(u) /\ u # <<>> /\ (Len(u) > 1 \/ u[1] \notin OneToken)

(* Once the next word begins with the tag of a change, a content stream    *)
(* takes no more than the m words before it.  If it takes less, it has     *)
(* left for the next one what parsing stops after, too.                    *)
LEMMA TakenStops ==
  ASSUME NEW words \in Seq(Seq(Operators)), NEW n \in Nat, Len(words) = n,
         NEW m \in 1..(n - 1), words[m + 1] # <<>>, words[m + 1][1] = ChangeTag,
         Stops(PartOf(words, 1, m))
  PROVE  /\ Taken(words) \in 1..m
         /\ Taken(words) < m => Stops(PartOf(words, Taken(words) + 1, m))
<1>1. PICK w, at : w = FlattenSeq(words) /\ at = StreamAt(words)
  OBVIOUS
<1>2. w \in Seq(Operators)
  BY <1>1, FlattenFacts
<1>3. PICK l \in Nat : l = Len(w)
  BY <1>2, LenProperties
<1>4. /\ \A i \in 1..l : at[i] \in 1..n
      /\ \A i \in 1..l, j \in 1..l : i <= j => at[i] <= at[j]
      /\ \A k \in 0..n, i \in 1..l : at[i] <= k <=> i <= Ahead(words, k)
      /\ at[l + 1] = n + 1
  BY <1>1, <1>3, StreamAtPlaces DEF Placed
<1>5. PICK u, v, e, z : /\ u = PartOf(words, 1, m) /\ v = PartOf(words, m + 1, n)
                        /\ e = words[m + 1] /\ z = PartOf(words, m + 2, n)
  OBVIOUS
<1>6. /\ u \in Seq(Operators) /\ v \in Seq(Operators) /\ z \in Seq(Operators)
      /\ e \in Seq(Operators)
  <2>1. 1 \in 1..(n + 1) /\ m \in 0..n /\ n \in 0..n /\ m + 1 \in 1..(n + 1) /\ m + 2 \in 1..(n + 1)
    OBVIOUS
  <2>2. m + 1 \in 1..Len(words)
    OBVIOUS
  <2>3. e \in Seq(Operators)
    BY <1>5, <2>2, ElementOfSeq
  <2> QED BY <1>5, <2>1, <2>3, PartsJoined
<1>7. w = Cat(u, v)
  <2>1. 1 \in 1..(n + 1) /\ m \in (1 - 1)..n /\ n \in m..n
    OBVIOUS
  <2>2. PartOf(words, 1, n) = Cat(PartOf(words, 1, m), PartOf(words, m + 1, n))
    BY <2>1, PartsJoined
  <2> QED BY <1>1, <1>5, <2>2, PartsJoined
<1>8. v = Cat(e, z)
  <2>1. m + 1 \in 1..(n + 1) /\ m + 1 \in ((m + 1) - 1)..n /\ n \in (m + 1)..n /\ (m + 1) + 1 = m + 2
        /\ m + 1 \in 1..n
    BY SMTT(30)
  <2>2. PartOf(words, m + 1, n) = Cat(PartOf(words, m + 1, m + 1), PartOf(words, (m + 1) + 1, n))
    BY SMTT(30), <2>1, PartsJoined
  <2>3. PartOf(words, m + 1, m + 1) = words[m + 1]
    BY <2>1, PartsJoined
  <2> QED BY <1>5, <2>1, <2>2, <2>3
<1>9. PICK p \in Nat : p = Len(u) /\ p = Ahead(words, m)
  <2>1. Len(u) \in Nat
    BY <1>6, LenProperties
  <2> QED BY <1>5, <2>1 DEF Ahead, PartOf
<1>10. PICK q \in Nat : q = Len(e) /\ q > 0
  <2>1. Len(e) \in Nat
    BY <1>6, LenProperties
  <2>2. Len(e) # 0
    BY <1>5, <1>6, EmptySeq
  <2> QED BY <2>1, <2>2
<1>11. PICK r \in Nat : r = Len(z)
  BY <1>6, LenProperties
<1>12. Len(v) = q + r /\ v[1] = ChangeTag
  <2>1. /\ Len(e \o z) = Len(e) + Len(z)
        /\ \A i \in 1..(Len(e) + Len(z)) : (e \o z)[i] = IF i <= Len(e) THEN e[i] ELSE z[i - Len(e)]
    BY ZenonT(40), <1>6, ConcatProperties
  <2>2. /\ Len(v) = q + r
        /\ \A i \in 1..(q + r) : v[i] = IF i <= q THEN e[i] ELSE z[i - q]
    BY <1>8, <1>10, <1>11, <2>1 DEF Cat
  <2>3. 1 \in 1..(q + r) /\ 1 <= q
    BY <1>10
  <2>4. v[1] = e[1]
    BY <2>2, <2>3
  <2> QED BY <1>5, <2>2, <2>4
<1>13. /\ l = p + q + r
       /\ \A i \in 1..p : w[i] = u[i]
       /\ w[p + 1] = ChangeTag
  <2>1. /\ Len(u \o v) = Len(u) + Len(v)
        /\ \A i \in 1..(Len(u) + Len(v)) : (u \o v)[i] = IF i <= Len(u) THEN u[i] ELSE v[i - Len(u)]
    BY ZenonT(40), <1>6, ConcatProperties
  <2>2. /\ Len(w) = p + (q + r)
        /\ \A i \in 1..(p + (q + r)) : w[i] = IF i <= p THEN u[i] ELSE v[i - p]
    BY <1>7, <1>9, <1>12, <2>1 DEF Cat
  <2>3. p + 1 \in 1..(p + (q + r)) /\ ~(p + 1 <= p) /\ (p + 1) - p = 1
    BY <1>10
  <2>4. w[p + 1] = v[1]
    BY <2>2, <2>3
  <2>5. \A i \in 1..p : i \in 1..(p + (q + r)) /\ i <= p
    OBVIOUS
  <2> QED BY <1>3, <1>12, <2>2, <2>4, <2>5
<1>14. Complete(u) /\ u # <<>> /\ (Len(u) > 1 \/ u[1] \notin OneToken)
  BY <1>5 DEF Stops
<1>15. p > 0
  <2>1. u # <<>>
    BY <1>14
  <2>2. Len(u) # 0
    BY <1>6, <2>1, EmptySeq
  <2> QED BY <1>9, <2>2
<1>16. p \in 1..l /\ p + 1 \in 1..l /\ p < l
  BY <1>10, <1>13, <1>15
<1>17. at[p] <= m /\ at[p + 1] = m + 1
  <2>1. m \in 0..n /\ m + 1 \in 0..n
    OBVIOUS
  <2>2. at[p] <= m
    BY <1>4, <1>9, <1>16, <2>1
  <2>3. ~(at[p + 1] <= m)
    BY SMTT(30), <1>4, <1>9, <1>16, <2>1
  <2>4. Ahead(words, m + 1) = p + q
    <3>1. 1 \in 1..(n + 1) /\ m \in (1 - 1)..n /\ m + 1 \in m..n /\ m + 1 \in 1..n
      OBVIOUS
    <3>2. PartOf(words, 1, m + 1) = Cat(PartOf(words, 1, m), PartOf(words, m + 1, m + 1))
      BY <3>1, PartsJoined
    <3>3. PartOf(words, m + 1, m + 1) = words[m + 1]
      BY <3>1, PartsJoined
    <3>4. PartOf(words, 1, m + 1) = u \o e
      BY <1>5, <3>2, <3>3 DEF Cat
    <3>5. Len(u \o e) = Len(u) + Len(e)
      BY <1>6, ConcatProperties
    <3>6. Ahead(words, m + 1) = Len(u \o e)
      BY <3>4 DEF Ahead, PartOf
    <3> QED BY <1>9, <1>10, <3>5, <3>6
  <2>5. at[p + 1] <= m + 1
    <3>1. p + 1 <= p + q
      BY <1>10
    <3> QED BY <1>4, <1>16, <2>1, <2>4, <3>1
  <2>6. at[p + 1] \in 1..n
    BY <1>4, <1>16
  <2> QED BY <2>2, <2>3, <2>5, <2>6
<1>18. PICK before : before = OpenBefore(w)
  OBVIOUS
<1>19. PICK breaks : breaks = Breaks(w, at, before)
  OBVIOUS
<1>20. p \in breaks
  <2>1. before[p + 1] = <<>>
    <3>1. Len(v) \in Nat
      BY <1>6, LenProperties
    <3> QED BY <1>6, <1>7, <1>9, <1>14, <1>18, <3>1, OpenRestarts
  <2>2. at[p + 1] # at[p]
    <3>1. at[p] \in 1..n
      BY <1>4, <1>16
    <3> QED BY <1>17, <3>1
  <2>3. ChangeTag \notin OneToken
    BY OperatorsAssumption DEF OneToken
  <2>4. p > 1 \/ w[1] \notin OneToken
    <3>1. 1 \in 1..p
      BY <1>15
    <3>2. w[1] = u[1]
      BY <1>13, <3>1
    <3> QED BY <1>9, <1>14, <3>2
  <2>5. EndSeen(w, at, p)
    BY <1>13, <2>2, <2>3, <2>4 DEF EndSeen
  <2> QED BY <1>3, <1>13, <1>16, <1>19, <2>1, <2>5 DEF Breaks
<1>21. PICK b : b = Min(breaks)
  OBVIOUS
<1>22. breaks \subseteq 1..l
  BY <1>3, <1>19 DEF Breaks
<1>23. b \in breaks /\ b \in 1..l /\ b <= p
  <2>1. breaks \subseteq Nat /\ breaks # {}
    BY <1>20, <1>22
  <2> QED BY <1>20, <1>21, <1>22, <2>1, MinIsLeast
<1>24. PICK k : k = Taken(words)
  OBVIOUS
<1>25. k = at[b + 1] - 1
  <2>1. Taken(words) = TakenUpTo(breaks, at, n)
    BY <1>1, <1>18, <1>19 DEF Taken, TakenOf
  <2>2. breaks # {}
    BY <1>20
  <2> QED BY <1>21, <1>24, <2>1, <2>2 DEF TakenUpTo
<1>26. b + 1 \in 1..l /\ at[b + 1] \in 1..n /\ at[b + 1] <= m + 1
  <2>1. b + 1 \in 1..l /\ b + 1 <= p + 1
    BY <1>16, <1>23
  <2>2. at[b + 1] <= at[p + 1]
    BY <1>4, <1>16, <2>1
  <2> QED BY <1>4, <1>17, <2>1, <2>2
<1>27. k \in 1..m
  <2>1. k \in 1..n
    <3>1. n \in Nat \ {0}
      OBVIOUS
    <3> QED BY <1>24, <3>1, TakenType
  <2> QED BY <1>25, <1>26, <2>1
<1>28. before[b + 1] = <<>> /\ EndSeen(w, at, b)
  BY <1>19, <1>23 DEF Breaks
<1>29. ASSUME k < m PROVE Stops(PartOf(words, k + 1, m))
  <2>1. at[b + 1] = k + 1
    BY SMTT(30), <1>25, <1>26
  <2>2. b < p
    <3>1. b # p
      <4>1. k + 1 # m + 1
        BY <1>27, <1>29
      <4> QED BY <1>17, <2>1, <4>1
    <3> QED BY <1>23, <3>1
  <2>3. at[b] <= k
    <3>1. at[b + 1] # at[b]
      BY <1>28 DEF EndSeen
    <3>2. at[b] <= at[b + 1] /\ at[b] \in 1..n
      BY <1>4, <1>23, <1>26
    <3> QED BY <1>27, <2>1, <3>1, <3>2
  <2>4. PICK x, y, t : /\ x = PartOf(words, 1, k) /\ y = PartOf(words, k + 1, m)
                       /\ t = PartOf(words, k + 1, n)
    OBVIOUS
  <2>5. x \in Seq(Operators) /\ y \in Seq(Operators) /\ t \in Seq(Operators)
    <3>1. 1 \in 1..(n + 1) /\ k \in 0..n /\ k + 1 \in 1..(n + 1) /\ m \in 0..n /\ n \in 0..n
      BY SMTT(30), <1>27
    <3> QED BY <2>4, <3>1, PartsJoined
  <2>6. Len(x) = b
    <3>1. k \in 0..n
      BY <1>27
    <3>2. b <= Ahead(words, k)
      BY <1>4, <1>23, <2>3, <3>1
    <3>3. ~(b + 1 <= Ahead(words, k))
      <4>1. ~(at[b + 1] <= k)
        BY <1>27, <2>1
      <4> QED BY <1>4, <1>26, <3>1, <4>1
    <3>4. Ahead(words, k) = Len(x)
      BY <2>4 DEF Ahead, PartOf
    <3>5. Len(x) \in Nat
      BY <2>5, LenProperties
    <3> QED BY <1>23, <3>2, <3>3, <3>4, <3>5
  <2>7. u = Cat(x, y) /\ w = Cat(x, t)
    <3>1. 1 \in 1..(n + 1) /\ k \in (1 - 1)..n /\ m \in k..n /\ n \in k..n
      BY <1>27
    <3>2. PartOf(words, 1, m) = Cat(PartOf(words, 1, k), PartOf(words, k + 1, m))
      BY <3>1, PartsJoined
    <3>3. PartOf(words, 1, n) = Cat(PartOf(words, 1, k), PartOf(words, k + 1, n))
      BY <3>1, PartsJoined
    <3> QED BY <1>1, <1>5, <2>4, <3>2, <3>3, PartsJoined
  <2>8. PICK o \in Nat, s \in Nat : o = Len(y) /\ s = Len(t)
    BY <2>5, LenProperties
  <2>9. Complete(x)
    <3>1. b \in Nat
      BY <1>23
    <3>2. OpenBefore(Cat(x, t))[b + 1] = <<>>
      BY <1>18, <1>28, <2>7
    <3> QED BY <2>5, <2>6, <2>8, <3>1, <3>2, OpenRestarts
  <2>10. Complete(y)
    <3>1. b \in Nat
      BY <1>23
    <3>2. Complete(Cat(x, y))
      BY <1>14, <2>7
    <3> QED BY <2>5, <2>6, <2>8, <2>9, <3>1, <3>2, OpenRestarts
  <2>11. p = b + o /\ \A i \in 1..o : y[i] = u[b + i]
    <3>1. /\ Len(x \o y) = Len(x) + Len(y)
          /\ \A i \in 1..(Len(x) + Len(y)) : (x \o y)[i] = IF i <= Len(x) THEN x[i] ELSE y[i - Len(x)]
      BY ZenonT(40), <2>5, ConcatProperties
    <3>2. /\ Len(u) = b + o
          /\ \A i \in 1..(b + o) : u[i] = IF i <= b THEN x[i] ELSE y[i - b]
      BY <2>6, <2>7, <2>8, <3>1 DEF Cat
    <3>3. ASSUME NEW i \in 1..o PROVE y[i] = u[b + i]
      <4>1. b + i \in 1..(b + o) /\ ~(b + i <= b) /\ (b + i) - b = i
        BY <1>23
      <4> QED BY <3>2, <4>1
    <3> QED BY <1>9, <3>2, <3>3
  <2>12. o > 0
    BY <1>23, <2>2, <2>11
  <2>13. y # <<>>
    BY <2>8, <2>12, EmptySeq
  <2>14. ASSUME ~(o > 1) PROVE y[1] \notin OneToken
    <3>1. o = 1 /\ p = b + 1
      BY <1>23, <2>11, <2>12, <2>14
    <3>2. y[1] = w[b + 1]
      <4>1. 1 \in 1..o /\ b + 1 \in 1..p
        BY <1>15, <3>1
      <4> QED BY <1>13, <2>11, <4>1
    <3>3. b < Len(w) /\ w[b + 1] \in OneToken => at[b + 2] = at[b + 1]
      BY <1>28 DEF EndSeen
    <3>4. b < Len(w)
      BY <1>3, <1>16, <1>23
    <3>5. b + 2 = p + 1
      BY <1>23, <3>1
    <3>6. at[b + 2] # at[b + 1]
      BY <1>17, <1>27, <1>29, <2>1, <3>5
    <3> QED BY <3>2, <3>3, <3>4, <3>6
  <2> QED BY <2>4, <2>8, <2>10, <2>13, <2>14 DEF Stops
<1> QED BY <1>24, <1>27, <1>29

-----------------------------------------------------------------------------
(* What is said of two sequences that are joined.                          *)
JoinedRange(a, b) == Range(Cat(a, b)) = Range(a) \cup Range(b)
JoinedApart(a, b) ==
    IsInjective(Cat(a, b)) <=> /\ IsInjective(a) /\ IsInjective(b)
                               /\ Range(a) \cap Range(b) = {}

(* Both are so of all sequences over one set.                              *)
LEMMA JoinedFacts ==
  ASSUME NEW S
  PROVE  \A a, b \in Seq(S) : Cat(a, b) \in Seq(S) /\ JoinedRange(a, b) /\ JoinedApart(a, b)
<1>1. \A a, b \in Seq(S) : JoinedRange(a, b)
  BY Zenon, CatFacts DEF JoinedRange
<1>2. \A a, b \in Seq(S) : JoinedApart(a, b)
  BY Zenon, CatFacts DEF JoinedApart
<1>3. \A a, b \in Seq(S) : Cat(a, b) \in Seq(S)
  BY Zenon, CatFacts
<1> QED BY Zenon, <1>1, <1>2, <1>3

(* Sequences of sequences, around one of them.                             *)

(* s is a, then e, and then b; e is its element number i.                  *)
PartsAt(s, i, e, a, b, S) ==
    a \in Seq(S) /\ b \in Seq(S) /\ s = (a \o <<e>>) \o b /\ Len(a) = i - 1

(* A sequence around one of its elements.                                  *)
LEMMA AroundOne ==
  ASSUME NEW S, NEW s \in Seq(S), NEW n \in Nat, Len(s) = n, NEW i \in 1..n, NEW e, e = s[i]
  PROVE  \E a, b : PartsAt(s, i, e, a, b, S)
<1>1. i \in 1..Len(s)
  OBVIOUS
<1>2. PICK a \in Seq(S), b \in Seq(S) : s = (a \o <<s[i]>>) \o b /\ Len(a) = i - 1
  BY ZenonT(90), <1>1, AroundElement
<1> QED BY Zenon, <1>2 DEF PartsAt

(* What a sequence has joined is what its elements have.                   *)
LEMMA FlattenHas ==
  ASSUME NEW S, NEW ss \in Seq(Seq(S))
  PROVE  /\ \A k \in 1..Len(ss) : Range(ss[k]) \subseteq Range(FlattenSeq(ss))
         /\ \A x \in Range(FlattenSeq(ss)) : \E k \in 1..Len(ss) : x \in Range(ss[k])
<1>1. ASSUME NEW k \in 1..Len(ss) PROVE Range(ss[k]) \subseteq Range(FlattenSeq(ss))
  <2>0. PICK T : T = Seq(S)
    OBVIOUS
  <2>1. PICK e : e = ss[k]
    OBVIOUS
  <2>2. ss \in Seq(T) /\ e \in T /\ e \in Seq(S)
    BY <2>0, <2>1, ElementOfSeq
  <2>13. PICK n \in Nat : n = Len(ss)
    BY <2>2, LenProperties
  <2>14. PICK a, b : PartsAt(ss, k, e, a, b, T)
    BY <2>1, <2>2, <2>13, AroundOne
  <2>3. a \in Seq(T) /\ b \in Seq(T) /\ ss = (a \o <<e>>) \o b
    BY <2>14 DEF PartsAt
  <2>4. <<e>> \in Seq(T)
    BY <2>2
  <2>5. PICK ae : ae = a \o <<e>>
    OBVIOUS
  <2>6. ae \in Seq(T)
    BY <2>3, <2>4, <2>5, ConcatProperties
  <2>7. PICK A, B : A = FlattenSeq(a) /\ B = FlattenSeq(b)
    OBVIOUS
  <2>8. A \in Seq(S) /\ B \in Seq(S)
    BY <2>0, <2>3, <2>7, FlattenFacts
  <2>12. FlattenSeq(ss) = (A \o e) \o B
    <3>1. FlattenSeq(ss) = FlattenSeq(ae) \o B
      BY <2>0, <2>3, <2>5, <2>6, <2>7, FlattenConcat
    <3>2. FlattenSeq(ae) = A \o FlattenSeq(<<e>>)
      BY <2>0, <2>3, <2>4, <2>5, <2>7, FlattenConcat
    <3>3. FlattenSeq(<<e>>) = e
      BY <2>2, FlattenConcat
    <3> QED BY <3>1, <3>2, <3>3
  <2>9. A \o e \in Seq(S)
    BY <2>2, <2>8, ConcatProperties
  <2>10. Range((A \o e) \o B) = Range(A \o e) \cup Range(B)
    <3>1. PICK u : u = A \o e
      OBVIOUS
    <3>2. u \in Seq(S)
      BY <2>9, <3>1
    <3>3. Range(u \o B) = Range(u) \cup Range(B)
      BY <2>8, <3>2, ConcatInjective
    <3> QED BY <3>1, <3>3
  <2>11. Range(A \o e) = Range(A) \cup Range(e)
    BY <2>2, <2>8, ConcatInjective
  <2> QED BY <2>1, <2>10, <2>11, <2>12
<1> DEFINE X == {tt \in Seq(Seq(S)) :
                   \A x \in Range(FlattenSeq(tt)) : \E k \in 1..Len(tt) : x \in Range(tt[k])}
<1>2. <<>> \in X
  <2>1. Range(FlattenSeq(<<>>)) = {}
    BY FlattenFacts DEF Range
  <2> QED BY <2>1, EmptySeq
<1>3. ASSUME NEW tt \in Seq(Seq(S)), NEW e \in Seq(S), tt \in X PROVE Append(tt, e) \in X
  <2>1. PICK n \in Nat : n = Len(tt)
    BY LenProperties
  <2>2. PICK u : u = Append(tt, e)
    OBVIOUS
  <2>3. /\ u \in Seq(Seq(S)) /\ Len(u) = n + 1 /\ u[n + 1] = e
        /\ \A k \in 1..n : u[k] = tt[k]
    BY <2>1, <2>2
  <2>4. FlattenSeq(u) = FlattenSeq(tt) \o e /\ FlattenSeq(tt) \in Seq(S)
    BY <2>2, FlattenFacts
  <2>5. Range(FlattenSeq(u)) = Range(FlattenSeq(tt)) \cup Range(e)
    BY <2>4, ConcatInjective
  <2>6. ASSUME NEW x \in Range(FlattenSeq(u)) PROVE \E k \in 1..(n + 1) : x \in Range(u[k])
    <3>1. CASE x \in Range(e)
      <4>1. n + 1 \in 1..(n + 1)
        OBVIOUS
      <4> QED BY <2>3, <3>1, <4>1
    <3>2. CASE x \in Range(FlattenSeq(tt))
      <4>1. PICK k \in 1..n : x \in Range(tt[k])
        BY <1>3, <2>1, <3>2
      <4>2. k \in 1..(n + 1)
        OBVIOUS
      <4> QED BY <2>3, <4>1, <4>2
    <3> QED BY <2>5, <3>1, <3>2
  <2> QED BY <2>2, <2>3, <2>6
<1> HIDE DEF X
<1>4. \A tt \in Seq(Seq(S)) : tt \in X
  BY <1>2, <1>3, SeqInduction
<1>5. ss \in X
  BY <1>4
<1> QED BY <1>1, <1>5 DEF X

(* What is left of a number is one number.                                 *)
LEMMA RestSame == \A j, m, l \in Nat : j + m = j + l => m = l
OBVIOUS

(* Joined, ss is its element j between A and B, which have what is in the  *)
(* other elements, and tt is its own.                                      *)
JoinedAround(ss, tt, j, n, A, B) ==
    /\ FlattenSeq(ss) = Cat(Cat(A, ss[j]), B)
    /\ FlattenSeq(tt) = Cat(Cat(A, tt[j]), B)
    /\ \A k \in 1..n : k # j => Range(ss[k]) \subseteq Range(A) \cup Range(B)

(* Two sequences that differ in one element only, joined.                  *)
LEMMA FlattenAround ==
  ASSUME NEW S, NEW ss \in Seq(Seq(S)), NEW tt \in Seq(Seq(S)), NEW n \in Nat,
         Len(ss) = n, Len(tt) = n,
         NEW j \in 1..n, \A k \in 1..n : k # j => tt[k] = ss[k]
  PROVE  \E A, B \in Seq(S) : JoinedAround(ss, tt, j, n, A, B)
<1>0. PICK T : T = Seq(S)
  OBVIOUS
<1>21. ss \in Seq(T) /\ tt \in Seq(T) /\ j \in 1..Len(ss) /\ j \in 1..Len(tt)
  BY <1>0
<1>22. PICK p, q : p = ss[j] /\ q = tt[j]
  OBVIOUS
<1>25. PICK a, b : PartsAt(ss, j, p, a, b, T)
  BY <1>21, <1>22, AroundOne
<1>26. PICK d, e : PartsAt(tt, j, q, d, e, T)
  BY <1>21, <1>22, AroundOne
<1>1. a \in Seq(T) /\ b \in Seq(T) /\ ss = (a \o <<p>>) \o b /\ Len(a) = j - 1
  BY <1>25 DEF PartsAt
<1>2. d \in Seq(T) /\ e \in Seq(T) /\ tt = (d \o <<q>>) \o e /\ Len(d) = j - 1
  BY <1>26 DEF PartsAt
<1>3. p \in T /\ q \in T
  BY <1>21, <1>22, ElementOfSeq
<1>4. <<p>> \in Seq(T) /\ Len(<<p>>) = 1 /\ <<q>> \in Seq(T) /\ Len(<<q>>) = 1
  BY <1>3
<1>5. PICK ap, dq : ap = a \o <<p>> /\ dq = d \o <<q>>
  OBVIOUS
<1>6. PICK m \in Nat, l \in Nat : m = Len(b) /\ l = Len(e)
  BY <1>1, <1>2, LenProperties
<1>7. ap \in Seq(T) /\ Len(ap) = j /\ \A k \in 1..(j - 1) : ap[k] = a[k]
  <2>1. /\ ap \in Seq(T) /\ Len(ap) = Len(a) + Len(<<p>>)
        /\ \A k \in 1..(Len(a) + Len(<<p>>)) : ap[k] = IF k <= Len(a) THEN a[k] ELSE <<p>>[k - Len(a)]
    BY ZenonT(40), <1>1, <1>2, <1>4, <1>5, ConcatProperties
  <2> QED BY <1>1, <1>4, <2>1
<1>8. dq \in Seq(T) /\ Len(dq) = j /\ \A k \in 1..(j - 1) : dq[k] = d[k]
  <2>1. /\ dq \in Seq(T) /\ Len(dq) = Len(d) + Len(<<q>>)
        /\ \A k \in 1..(Len(d) + Len(<<q>>)) : dq[k] = IF k <= Len(d) THEN d[k] ELSE <<q>>[k - Len(d)]
    BY ZenonT(40), <1>1, <1>2, <1>4, <1>5, ConcatProperties
  <2> QED BY <1>2, <1>4, <2>1
<1>9. /\ n = j + m
      /\ \A k \in 1..j : ss[k] = ap[k]
      /\ \A k \in 1..m : ss[j + k] = b[k]
  <2>1. /\ Len(ss) = Len(ap) + Len(b)
        /\ \A k \in 1..(Len(ap) + Len(b)) : ss[k] = IF k <= Len(ap) THEN ap[k] ELSE b[k - Len(ap)]
    BY SMTT(30), <1>1, <1>5, <1>7, ConcatProperties
  <2>2. /\ n = j + m
        /\ \A k \in 1..(j + m) : ss[k] = IF k <= j THEN ap[k] ELSE b[k - j]
    BY <1>6, <1>7, <2>1
  <2>3. \A k \in 1..m : j + k \in 1..(j + m) /\ ~(j + k <= j) /\ (j + k) - j = k
    OBVIOUS
  <2>4. \A k \in 1..m : ss[j + k] = b[k]
    BY <2>2, <2>3
  <2> QED BY SMTT(30), <2>2, <2>4
<1>10. /\ n = j + l
       /\ \A k \in 1..j : tt[k] = dq[k]
       /\ \A k \in 1..l : tt[j + k] = e[k]
  <2>1. /\ Len(tt) = Len(dq) + Len(e)
        /\ \A k \in 1..(Len(dq) + Len(e)) : tt[k] = IF k <= Len(dq) THEN dq[k] ELSE e[k - Len(dq)]
    BY SMTT(30), <1>2, <1>5, <1>8, ConcatProperties
  <2>2. /\ n = j + l
        /\ \A k \in 1..(j + l) : tt[k] = IF k <= j THEN dq[k] ELSE e[k - j]
    BY <1>6, <1>8, <2>1
  <2>3. \A k \in 1..l : j + k \in 1..(j + l) /\ ~(j + k <= j) /\ (j + k) - j = k
    OBVIOUS
  <2>4. \A k \in 1..l : tt[j + k] = e[k]
    BY <2>2, <2>3
  <2> QED BY <2>2, <2>4
<1>11. \A k \in 1..(j - 1) : ss[k] = a[k] /\ tt[k] = d[k] /\ k \in 1..n /\ k # j
  BY <1>7, <1>8, <1>9, <1>10
<1>23. m = l
  <2>1. n = j + m /\ n = j + l
    BY <1>9, <1>10
  <2>2. j \in Nat /\ m \in Nat /\ l \in Nat
    BY <1>6
  <2> QED BY <2>1, <2>2, RestSame
<1>12. \A k \in 1..m : ss[j + k] = b[k] /\ tt[j + k] = e[k] /\ j + k \in 1..n /\ j + k # j
  BY SMTT(30), <1>9, <1>10, <1>23
<1>13. d = a
  <2>1. j - 1 \in Nat
    OBVIOUS
  <2>2. \A k \in 1..(j - 1) : d[k] = a[k]
    BY <1>11
  <2> QED BY <1>1, <1>2, <2>1, <2>2, SameSeq
<1>14. e = b
  <2>1. \A k \in 1..m : e[k] = b[k]
    BY <1>12
  <2> QED BY <1>1, <1>2, <1>6, <1>23, <2>1, SameSeq
<1>24. /\ a \in Seq(Seq(S)) /\ b \in Seq(Seq(S)) /\ <<p>> \in Seq(Seq(S)) /\ <<q>> \in Seq(Seq(S))
       /\ p \in Seq(S) /\ q \in Seq(S) /\ a \o <<p>> \in Seq(Seq(S)) /\ a \o <<q>> \in Seq(Seq(S))
  BY <1>0, <1>1, <1>2, <1>3, <1>4, <1>5, <1>7, <1>8, <1>13
<1>15. PICK A, B : A = FlattenSeq(a) /\ B = FlattenSeq(b)
  OBVIOUS
<1>16. A \in Seq(S) /\ B \in Seq(S)
  BY <1>15, <1>24, FlattenFacts
<1>17. ASSUME NEW r \in Seq(S), <<r>> \in Seq(Seq(S)), a \o <<r>> \in Seq(Seq(S))
       PROVE  FlattenSeq((a \o <<r>>) \o b) = (A \o r) \o B
  <2>1. FlattenSeq((a \o <<r>>) \o b) = FlattenSeq(a \o <<r>>) \o B
    BY <1>15, <1>17, <1>24, FlattenConcat
  <2>2. FlattenSeq(a \o <<r>>) = A \o FlattenSeq(<<r>>)
    BY <1>15, <1>17, <1>24, FlattenConcat
  <2>3. FlattenSeq(<<r>>) = r
    BY <1>17, FlattenConcat
  <2> QED BY <2>1, <2>2, <2>3
<1>18. FlattenSeq(ss) = (A \o p) \o B
  BY <1>1, <1>17, <1>24
<1>19. FlattenSeq(tt) = (A \o q) \o B
  BY <1>2, <1>13, <1>14, <1>17, <1>24
<1>20. ASSUME NEW k \in 1..n, k # j PROVE Range(ss[k]) \subseteq Range(A) \cup Range(B)
  <2>1. CASE k < j
    <3>1. k \in 1..(j - 1)
      BY <2>1
    <3>2. Range(a[k]) \subseteq Range(A)
      <4>1. k \in 1..Len(a)
        BY <1>1, <3>1
      <4> QED BY <1>15, <1>24, <4>1, FlattenHas
    <3> QED BY <1>11, <3>1, <3>2
  <2>2. CASE k > j
    <3>1. PICK i \in 1..m : k = j + i
      <4>1. k - j \in 1..m /\ k = j + (k - j)
        BY <1>9, <2>2
      <4> QED BY <4>1
    <3>2. Range(b[i]) \subseteq Range(B)
      BY <1>6, <1>15, <1>24, FlattenHas
    <3> QED BY <1>12, <3>1, <3>2
  <2> QED BY <1>20, <2>1, <2>2
<1>27. FlattenSeq(ss) = Cat(Cat(A, ss[j]), B) /\ FlattenSeq(tt) = Cat(Cat(A, tt[j]), B)
  BY <1>18, <1>19, <1>22 DEF Cat
<1> QED BY <1>16, <1>20, <1>27 DEF JoinedAround

(* Element j of a sequence of sequences is injective, and has nothing that *)
(* another one has.                                                        *)
PartApart(ss, j, n) ==
    /\ IsInjective(ss[j])
    /\ \A k \in 1..n : k # j => Range(ss[k]) \cap Range(ss[j]) = {}

(* So it is when they are injective together.                              *)
LEMMA FlattenApart ==
  ASSUME NEW S, NEW ss \in Seq(Seq(S)), NEW n \in Nat, Len(ss) = n,
         IsInjective(FlattenSeq(ss)), NEW j \in 1..n
  PROVE  PartApart(ss, j, n)
<1>8. PICK A \in Seq(S), B \in Seq(S) : JoinedAround(ss, ss, j, n, A, B)
  BY FlattenAround
<1>1. /\ FlattenSeq(ss) = Cat(Cat(A, ss[j]), B)
      /\ \A k \in 1..n : k # j => Range(ss[k]) \subseteq Range(A) \cup Range(B)
  BY <1>8 DEF JoinedAround
<1>2. PICK e : e = ss[j]
  OBVIOUS
<1>3. e \in Seq(S)
  BY <1>2, ElementOfSeq
<1>4. PICK u : u = Cat(A, e)
  OBVIOUS
<1>9. \A a, b \in Seq(S) : Cat(a, b) \in Seq(S) /\ JoinedRange(a, b) /\ JoinedApart(a, b)
  BY JoinedFacts
<1>5. u \in Seq(S) /\ IsInjective(Cat(u, B))
  BY Zenon, <1>1, <1>2, <1>3, <1>4, <1>9
<1>6. IsInjective(u) /\ Range(u) \cap Range(B) = {}
  <2>1. JoinedApart(u, B)
    BY Zenon, <1>5, <1>9
  <2> QED BY Zenon, <1>5, <2>1 DEF JoinedApart
<1>7. IsInjective(e) /\ Range(A) \cap Range(e) = {} /\ Range(u) = Range(A) \cup Range(e)
  <2>1. JoinedApart(A, e) /\ JoinedRange(A, e)
    BY Zenon, <1>3, <1>9
  <2> QED BY Zenon, <1>4, <1>6, <2>1 DEF JoinedApart, JoinedRange
<1> QED BY <1>1, <1>2, <1>6, <1>7 DEF PartApart

-----------------------------------------------------------------------------
(* One place of a sequence.                                                *)

(* u is x with something before and behind it, and v is y with the same.   *)
Around(S, u, v, x, y) == \E A, B \in Seq(S) : u = Cat(Cat(A, x), B) /\ v = Cat(Cat(A, y), B)

(* A place in a place is one.                                              *)
LEMMA AroundNested ==
  ASSUME NEW S, NEW u, NEW v, NEW s, NEW t, NEW x \in Seq(S), NEW y \in Seq(S),
         Around(S, u, v, s, t), Around(S, s, t, x, y)
  PROVE  Around(S, u, v, x, y)
<1>1. PICK A \in Seq(S), B \in Seq(S) : u = Cat(Cat(A, s), B) /\ v = Cat(Cat(A, t), B)
  BY Zenon DEF Around
<1>2. PICK C \in Seq(S), D \in Seq(S) : s = Cat(Cat(C, x), D) /\ t = Cat(Cat(C, y), D)
  BY Zenon DEF Around
<1>3. \A a, b \in Seq(S) : Cat(a, b) \in Seq(S)
  BY Zenon, CatFacts
<1>4. \A a, b, c \in Seq(S) : Joins(a, b, c)
  BY JoinsAll
<1>5. ASSUME NEW z \in Seq(S)
      PROVE  Cat(Cat(A, Cat(Cat(C, z), D)), B) = Cat(Cat(Cat(A, C), z), Cat(D, B))
  <2>1. Cat(C, z) \in Seq(S)
    BY Zenon, <1>3
  <2>2. Cat(A, Cat(C, z)) \in Seq(S)
    BY Zenon, <1>3, <2>1
  <2>3. Joins(A, Cat(C, z), D)
    BY Zenon, <1>4, <2>1
  <2>4. Joins(Cat(A, Cat(C, z)), D, B)
    BY Zenon, <1>4, <2>2
  <2>5. Joins(A, C, z)
    BY Zenon, <1>4
  <2> QED BY Zenon, <2>3, <2>4, <2>5 DEF Joins
<1>6. Cat(A, C) \in Seq(S) /\ Cat(D, B) \in Seq(S)
  BY Zenon, <1>3
<1>7. u = Cat(Cat(Cat(A, C), x), Cat(D, B))
  BY Zenon, <1>1, <1>2, <1>5
<1>8. v = Cat(Cat(Cat(A, C), y), Cat(D, B))
  BY Zenon, <1>1, <1>2, <1>5
<1> QED BY Zenon, <1>6, <1>7, <1>8 DEF Around

(* f gives something of T for all of S.                                    *)
Gives(f, S, T) == \A x \in S : f[x] \in T

(* What a sequence has, mapped.                                            *)
LEMMA MapType ==
  ASSUME NEW S, NEW T, NEW f, Gives(f, S, T)
  PROVE  \A s \in Seq(S) : RootWalks(f, s) \in Seq(T) /\ Len(RootWalks(f, s)) = Len(s)
<1>0. \A x \in S : f[x] \in T
  BY DEF Gives
<1>1. ASSUME NEW s \in Seq(S) PROVE RootWalks(f, s) \in Seq(T) /\ Len(RootWalks(f, s)) = Len(s)
  <2>1. PICK n \in Nat : n = Len(s)
    BY LenProperties
  <2>2. \A k \in 1..n : f[s[k]] \in T
    BY <1>0, <2>1, ElementOfSeq
  <2>3. RootWalks(f, s) \in [1..n -> T]
    BY <2>1, <2>2 DEF RootWalks
  <2> QED BY <2>1, <2>3, SeqIsFunction
<1> QED BY <1>1

(* One sequence and another, mapped.                                       *)
LEMMA MapConcat ==
  ASSUME NEW S, NEW T, NEW f, Gives(f, S, T), NEW a \in Seq(S), NEW b \in Seq(S)
  PROVE  RootWalks(f, Cat(a, b)) = Cat(RootWalks(f, a), RootWalks(f, b))
<1>1. \A s \in Seq(S) : RootWalks(f, s) \in Seq(T) /\ Len(RootWalks(f, s)) = Len(s)
  BY MapType
<1>2. PICK m \in Nat, n \in Nat : m = Len(a) /\ n = Len(b)
  BY LenProperties
<1>3. PICK u, v : u = RootWalks(f, a) /\ v = RootWalks(f, b)
  OBVIOUS
<1>4. u \in Seq(T) /\ v \in Seq(T) /\ Len(u) = m /\ Len(v) = n
  BY <1>1, <1>2, <1>3
<1>5. PICK ab, uv : ab = a \o b /\ uv = u \o v
  OBVIOUS
<1>6. /\ ab \in Seq(S) /\ Len(ab) = m + n
      /\ \A k \in 1..(m + n) : ab[k] = IF k <= m THEN a[k] ELSE b[k - m]
  BY <1>2, <1>5, ConcatProperties
<1>7. /\ uv \in Seq(T) /\ Len(uv) = m + n
      /\ \A k \in 1..(m + n) : uv[k] = IF k <= m THEN u[k] ELSE v[k - m]
  BY <1>4, <1>5, ConcatProperties
<1>8. PICK w : w = RootWalks(f, ab)
  OBVIOUS
<1>9. w \in Seq(T) /\ Len(w) = m + n
  BY <1>1, <1>6, <1>8
<1>10. ASSUME NEW k \in 1..(m + n) PROVE w[k] = uv[k]
  <2>1. w[k] = f[ab[k]]
    BY <1>6, <1>8 DEF RootWalks
  <2>2. CASE k <= m
    <3>1. k \in 1..m
      BY <2>2
    <3>2. u[k] = f[a[k]]
      BY <1>2, <1>3, <3>1 DEF RootWalks
    <3>3. ab[k] = a[k] /\ uv[k] = u[k]
      BY <1>6, <1>7, <2>2
    <3> QED BY <2>1, <3>2, <3>3
  <2>3. CASE ~(k <= m)
    <3>1. k - m \in 1..n
      BY <2>3
    <3>2. v[k - m] = f[b[k - m]]
      BY <1>2, <1>3, <3>1 DEF RootWalks
    <3>3. ab[k] = b[k - m] /\ uv[k] = v[k - m]
      BY <1>6, <1>7, <2>3
    <3> QED BY <2>1, <3>2, <3>3
  <2> QED BY <2>2, <2>3
<1>11. w = uv
  <2>1. m + n \in Nat
    OBVIOUS
  <2> QED BY <1>7, <1>9, <1>10, <2>1, SameSeq
<1> QED BY <1>3, <1>5, <1>8, <1>11 DEF Cat

(* The walks of several operators, one after the other.                    *)
WalksOf(W, s) == FlattenSeq(RootWalks(W, s))

(* Those of one operator.                                                  *)
LEMMA WalksOfOne ==
  ASSUME NEW W, NEW x, NEW T, W[x] \in Seq(T)
  PROVE  WalksOf(W, <<x>>) = W[x]
<1>1. PICK e : e = W[x]
  OBVIOUS
<1>2. e \in Seq(T)
  BY <1>1
<1>3. RootWalks(W, <<x>>) = <<e>>
  <2>1. Len(<<x>>) = 1 /\ <<x>>[1] = x
    OBVIOUS
  <2>2. RootWalks(W, <<x>>) = [k \in 1..1 |-> e]
    BY <1>1, <2>1 DEF RootWalks
  <2>3. <<e>> = [k \in 1..1 |-> e]
    OBVIOUS
  <2> QED BY <2>2, <2>3
<1>4. FlattenSeq(<<e>>) = e
  BY <1>2, FlattenConcat
<1> QED BY <1>1, <1>3, <1>4 DEF WalksOf

(* They come one after the other as the operators do.                      *)
WalksJoined(W, S, T) ==
    /\ \A s \in Seq(S) : WalksOf(W, s) \in Seq(T)
    /\ \A x \in S : WalksOf(W, <<x>>) = W[x]
    /\ \A a, b \in Seq(S) : WalksOf(W, Cat(a, b)) = Cat(WalksOf(W, a), WalksOf(W, b))

(* Walks over the operators of S come so.                                  *)
LEMMA WalksOfConcat ==
  ASSUME NEW S, NEW T, NEW W, Gives(W, S, Seq(T))
  PROVE  WalksJoined(W, S, T)
<1>1. PICK U : U = Seq(T)
  OBVIOUS
<1>2. Gives(W, S, U)
  BY <1>1 DEF Gives
<1>3. \A s \in Seq(S) : RootWalks(W, s) \in Seq(U)
  BY Zenon, <1>2, MapType
<1>7. \A a \in Seq(S), b \in Seq(S) : RootWalks(W, Cat(a, b)) = Cat(RootWalks(W, a), RootWalks(W, b))
  <2>1. TAKE a \in Seq(S), b \in Seq(S)
  <2> QED BY <1>2, MapConcat
<1>4. \A s \in Seq(S) : WalksOf(W, s) \in Seq(T)
  BY <1>1, <1>3, FlattenFacts DEF WalksOf
<1>5. \A x \in S : WalksOf(W, <<x>>) = W[x]
  BY WalksOfOne DEF Gives
<1>6. ASSUME NEW a \in Seq(S), NEW b \in Seq(S)
      PROVE  WalksOf(W, Cat(a, b)) = Cat(WalksOf(W, a), WalksOf(W, b))
  <2>1. RootWalks(W, Cat(a, b)) = Cat(RootWalks(W, a), RootWalks(W, b))
    BY <1>7
  <2>2. PICK s, t : s = RootWalks(W, a) /\ t = RootWalks(W, b)
    OBVIOUS
  <2>3. s \in Seq(Seq(T)) /\ t \in Seq(Seq(T))
    BY <1>1, <1>3, <2>2
  <2>4. FlattenSeq(Cat(s, t)) = Cat(FlattenSeq(s), FlattenSeq(t))
    BY <2>3, FlattenConcat DEF Cat
  <2> QED BY <2>1, <2>2, <2>4 DEF WalksOf
<1> QED BY <1>4, <1>5, <1>6 DEF WalksJoined

-----------------------------------------------------------------------------
(* One operator with other kids.                                           *)

(* The walk of an operator is the operator and the walks of its kids.      *)
LEMMA WalkIs ==
  ASSUME NEW n \in Nat, NEW N \in Nat, n <= N, NEW kids \in [0..n -> Seq(1..n)],
         NEW W, Walks(W, kids, n)
  PROVE  /\ Gives(W, 0..n, Seq(0..N))
         /\ \A x \in 0..n :
              /\ kids[x] \in Seq(0..n)
              /\ W[x] \in Seq(0..N) /\ WalksOf(W, kids[x]) \in Seq(0..N)
              /\ W[x] = Cat(<<x>>, WalksOf(W, kids[x]))
              /\ Range(W[x]) = {x} \cup Range(WalksOf(W, kids[x]))
              /\ IsInjective(W[x]) => IsInjective(WalksOf(W, kids[x]))
<1>1. \A x \in 0..n : W[x] \in Seq(0..N)
  <2>1. 0..n \subseteq 0..N
    OBVIOUS
  <2>2. \A x \in 0..n : W[x] \in Seq(0..n)
    BY DEF Walks
  <2> QED BY <2>1, <2>2, SeqMonotonic
<1>2. Gives(W, 0..n, Seq(0..N))
  BY <1>1 DEF Gives
<1>3. ASSUME NEW x \in 0..n
      PROVE  /\ kids[x] \in Seq(0..n) /\ WalksOf(W, kids[x]) \in Seq(0..N)
             /\ W[x] = Cat(<<x>>, WalksOf(W, kids[x]))
             /\ Range(W[x]) = {x} \cup Range(WalksOf(W, kids[x]))
             /\ IsInjective(W[x]) => IsInjective(WalksOf(W, kids[x]))
  <2>1. kids[x] \in Seq(0..n)
    <3>1. 1..n \subseteq 0..n
      OBVIOUS
    <3>2. kids[x] \in Seq(1..n)
      OBVIOUS
    <3> QED BY <3>1, <3>2, SeqMonotonic
  <2>2. WalksOf(W, kids[x]) \in Seq(0..N)
    <3>1. WalksJoined(W, 0..n, 0..N)
      BY <1>2, WalksOfConcat
    <3> QED BY <2>1, <3>1 DEF WalksJoined
  <2>3. W[x] = Cat(<<x>>, WalksOf(W, kids[x]))
    BY Zenon DEF Walks, WalksOf, RootWalks, KidWalks, Cat
  <2>4. PICK one, e : one = <<x>> /\ e = WalksOf(W, kids[x])
    OBVIOUS
  <2>5. one \in Seq(0..N) /\ Range(one) = {x}
    <3>1. one = [k \in 1..1 |-> x] /\ x \in 0..N
      BY <2>4
    <3> QED BY <2>4, <3>1 DEF Range
  <2>8. e \in Seq(0..N)
    BY <2>2, <2>4
  <2>9. JoinedRange(one, e) /\ JoinedApart(one, e)
    BY <2>5, <2>8, JoinedFacts
  <2>6. Range(Cat(one, e)) = Range(one) \cup Range(e)
    BY Zenon, <2>9 DEF JoinedRange
  <2>7. IsInjective(Cat(one, e)) => IsInjective(e)
    BY Zenon, <2>9 DEF JoinedApart
  <2> QED BY <2>1, <2>2, <2>3, <2>4, <2>5, <2>6, <2>7
<1> QED BY Zenon, <1>1, <1>2, <1>3

(* The walk of x is x and the walks of its kids.                           *)
WalkedFrom(W, kids, x, n) ==
    /\ kids[x] \in Seq(0..n)
    /\ W[x] \in Seq(0..n) /\ WalksOf(W, kids[x]) \in Seq(0..n)
    /\ W[x] = Cat(<<x>>, WalksOf(W, kids[x]))
    /\ Range(W[x]) = {x} \cup Range(WalksOf(W, kids[x]))

(* So it is for all of them.                                               *)
LEMMA WalkAlone ==
  ASSUME NEW n \in Nat, NEW kids \in [0..n -> Seq(1..n)], NEW W, Walks(W, kids, n)
  PROVE  Gives(W, 0..n, Seq(0..n)) /\ \A x \in 0..n : WalkedFrom(W, kids, x, n)
<1>1. n <= n
  OBVIOUS
<1>2. /\ Gives(W, 0..n, Seq(0..n))
      /\ \A x \in 0..n :
           /\ kids[x] \in Seq(0..n)
           /\ W[x] \in Seq(0..n) /\ WalksOf(W, kids[x]) \in Seq(0..n)
           /\ W[x] = Cat(<<x>>, WalksOf(W, kids[x]))
           /\ Range(W[x]) = {x} \cup Range(WalksOf(W, kids[x]))
           /\ IsInjective(W[x]) => IsInjective(WalksOf(W, kids[x]))
  BY Zenon, <1>1, WalkIs
<1> QED BY <1>2 DEF WalkedFrom

(* What the walk of r becomes when p has other kids.                       *)
Near(W, V, kids, kids2, p, r, N) ==
    /\ p \notin Range(W[r]) => V[r] = W[r]
    /\ IsInjective(W[r]) /\ p \in Range(W[r]) =>
         Around(0..N, WalksOf(W, kids[r]), WalksOf(V, kids2[r]),
                WalksOf(W, kids[p]), WalksOf(V, kids2[p]))

(* Nothing before and behind it.                                           *)
LEMMA AroundSelf ==
  ASSUME NEW S, NEW u \in Seq(S), NEW v \in Seq(S)
  PROVE  Around(S, u, v, u, v)
<1>1. <<>> \in Seq(S) /\ Cat(Cat(<<>>, u), <<>>) = u /\ Cat(Cat(<<>>, v), <<>>) = v
  BY EmptySeq, CatFacts
<1> QED BY <1>1 DEF Around

(* One element before it.                                                  *)
LEMMA AroundBehind ==
  ASSUME NEW S, NEW h \in Seq(S), NEW u \in Seq(S), NEW v \in Seq(S)
  PROVE  Around(S, Cat(h, u), Cat(h, v), u, v)
<1>1. <<>> \in Seq(S) /\ Cat(Cat(h, u), <<>>) = Cat(h, u) /\ Cat(Cat(h, v), <<>>) = Cat(h, v)
  BY EmptySeq, CatFacts
<1> QED BY <1>1 DEF Around

(* Sequences that differ in one element only differ there when joined.     *)
LEMMA FlattenChanged ==
  ASSUME NEW S, NEW ss \in Seq(Seq(S)), NEW tt \in Seq(Seq(S)), NEW n \in Nat,
         Len(ss) = n, Len(tt) = n,
         NEW j \in 1..n, \A k \in 1..n : k # j => tt[k] = ss[k]
  PROVE  Around(S, FlattenSeq(ss), FlattenSeq(tt), ss[j], tt[j])
<1>1. PICK A \in Seq(S), B \in Seq(S) : JoinedAround(ss, tt, j, n, A, B)
  BY FlattenAround
<1> QED BY <1>1 DEF Around, JoinedAround

(* An operator whose kids have become so has become so.                    *)
LEMMA NearStep ==
  ASSUME NEW n \in Nat, NEW N \in Nat, n <= N,
         NEW kids \in [0..n -> Seq(1..n)], KidsNewer(kids, n),
         NEW kids2 \in [0..N -> Seq(1..N)],
         NEW p \in 0..n, \A x \in 0..n : x # p => kids2[x] = kids[x],
         NEW W, Walks(W, kids, n), NEW V, Walks(V, kids2, N),
         NEW r \in 0..n, \A q \in 0..n : q > r => Near(W, V, kids, kids2, p, q, N)
  PROVE  Near(W, V, kids, kids2, p, r, N)
<1>1. /\ \A x \in 0..n :
           /\ kids[x] \in Seq(0..n)
           /\ W[x] \in Seq(0..N) /\ WalksOf(W, kids[x]) \in Seq(0..N)
           /\ W[x] = Cat(<<x>>, WalksOf(W, kids[x]))
           /\ Range(W[x]) = {x} \cup Range(WalksOf(W, kids[x]))
           /\ IsInjective(W[x]) => IsInjective(WalksOf(W, kids[x]))
  BY WalkIs
<1>2. /\ \A x \in 0..N :
           /\ V[x] \in Seq(0..N) /\ WalksOf(V, kids2[x]) \in Seq(0..N)
           /\ V[x] = Cat(<<x>>, WalksOf(V, kids2[x]))
  <2>1. N <= N
    OBVIOUS
  <2> QED BY ZenonT(40), <2>1, WalkIs
<1>3. \A x \in 0..n : x \in 0..N
  OBVIOUS
<1>4. CASE r = p
  <2>1. p \in Range(W[r])
    BY <1>1, <1>4
  <2>2. WalksOf(W, kids[p]) \in Seq(0..N) /\ WalksOf(V, kids2[p]) \in Seq(0..N)
    BY <1>1, <1>2, <1>3
  <2>3. Around(0..N, WalksOf(W, kids[p]), WalksOf(V, kids2[p]),
               WalksOf(W, kids[p]), WalksOf(V, kids2[p]))
    BY <2>2, AroundSelf
  <2> QED BY <1>4, <2>1, <2>3 DEF Near
<1>5. CASE r # p
  <2>1. PICK s : s = kids[r]
    OBVIOUS
  <2>2. s = kids2[r] /\ s \in Seq(1..n)
    BY <1>5, <2>1
  <2>3. PICK l \in Nat : l = Len(s)
    BY <2>2, LenProperties
  <2>4. \A k \in 1..l : s[k] \in 0..n /\ s[k] \in 0..N /\ s[k] > r
    <3>1. \A k \in 1..l : s[k] \in 1..n
      BY <2>2, <2>3, ElementOfSeq
    <3>2. \A k \in 1..l : s[k] > r
      BY <2>1, <2>3 DEF KidsNewer
    <3>3. \A y \in 1..n : y \in 0..n /\ y \in 0..N
      OBVIOUS
    <3> QED BY <3>1, <3>2, <3>3
  <2>5. \A k \in 1..l : Near(W, V, kids, kids2, p, s[k], N)
    BY <2>4
  <2>6. PICK ss, tt : ss = RootWalks(W, s) /\ tt = RootWalks(V, s)
    OBVIOUS
  <2>7. /\ ss \in Seq(Seq(0..N)) /\ Len(ss) = l /\ tt \in Seq(Seq(0..N)) /\ Len(tt) = l
        /\ \A k \in 1..l : ss[k] = W[s[k]] /\ tt[k] = V[s[k]]
    <3>1. \A k \in 1..l : ss[k] = W[s[k]] /\ tt[k] = V[s[k]]
      BY <2>3, <2>6 DEF RootWalks
    <3>2. PICK T : T = Seq(0..N)
      OBVIOUS
    <3>3. \A k \in 1..l : W[s[k]] \in T /\ V[s[k]] \in T
      BY <1>1, <1>2, <2>4, <3>2
    <3>4. ss \in [1..l -> T] /\ tt \in [1..l -> T]
      BY <2>3, <2>6, <3>3 DEF RootWalks
    <3>5. ss \in Seq(T) /\ Len(ss) = l /\ tt \in Seq(T) /\ Len(tt) = l
      BY <3>4, SeqIsFunction
    <3> QED BY <3>1, <3>2, <3>5
  <2>8. WalksOf(W, kids[r]) = FlattenSeq(ss) /\ WalksOf(V, kids2[r]) = FlattenSeq(tt)
    BY <2>1, <2>2, <2>6 DEF WalksOf
  <2>9. ASSUME p \notin Range(W[r]) PROVE V[r] = W[r]
    <3>1. p \notin Range(FlattenSeq(ss))
      BY <1>1, <2>8, <2>9
    <3>2. \A k \in 1..l : p \notin Range(ss[k])
      BY <2>7, <3>1, FlattenHas
    <3>3. \A k \in 1..l : tt[k] = ss[k]
      BY ZenonT(40), <2>5, <2>7, <3>2 DEF Near
    <3>4. tt = ss
      <4>1. PICK T : T = Seq(0..N)
        OBVIOUS
      <4>2. ss \in Seq(T) /\ tt \in Seq(T)
        BY <2>7, <4>1
      <4> QED BY ZenonT(40), <2>7, <3>3, <4>2, SameSeq
    <3> QED BY <1>1, <1>2, <1>3, <2>8, <3>4
  <2>10. ASSUME IsInjective(W[r]), p \in Range(W[r])
         PROVE  Around(0..N, WalksOf(W, kids[r]), WalksOf(V, kids2[r]),
                       WalksOf(W, kids[p]), WalksOf(V, kids2[p]))
    <3>1. IsInjective(FlattenSeq(ss)) /\ p \in Range(FlattenSeq(ss))
      BY <1>1, <1>5, <2>8, <2>10
    <3>2. PICK j \in 1..l : p \in Range(ss[j])
      BY <2>7, <3>1, FlattenHas
    <3>3. PartApart(ss, j, l)
      BY <2>7, <3>1, FlattenApart
    <3>4. \A k \in 1..l : k # j => tt[k] = ss[k]
      <4>1. \A k \in 1..l : k # j => p \notin Range(ss[k])
        BY <3>2, <3>3 DEF PartApart
      <4> QED BY ZenonT(90), <2>5, <2>7, <4>1 DEF Near
    <3>5. Around(0..N, FlattenSeq(ss), FlattenSeq(tt), ss[j], tt[j])
      BY <2>7, <3>4, FlattenChanged
    <3>6. PICK y : y = s[j]
      OBVIOUS
    <3>7. y \in 0..n /\ y \in 0..N /\ ss[j] = W[y] /\ tt[j] = V[y]
      BY <2>4, <2>7, <3>6
    <3>8. PICK u, v : u = WalksOf(W, kids[y]) /\ v = WalksOf(V, kids2[y])
      OBVIOUS
    <3>9. u \in Seq(0..N) /\ v \in Seq(0..N) /\ W[y] = Cat(<<y>>, u) /\ V[y] = Cat(<<y>>, v)
      BY <1>1, <1>2, <3>7, <3>8
    <3>10. <<y>> \in Seq(0..N)
      BY <3>7
    <3>11. Around(0..N, W[y], V[y], u, v)
      BY <3>9, <3>10, AroundBehind
    <3>12. Around(0..N, u, v, WalksOf(W, kids[p]), WalksOf(V, kids2[p]))
      <4>1. IsInjective(W[y])
        BY <3>3, <3>7 DEF PartApart
      <4> QED BY <2>5, <3>2, <3>6, <3>7, <3>8, <4>1 DEF Near
    <3>13. PICK a, b : a = WalksOf(W, kids[p]) /\ b = WalksOf(V, kids2[p])
      OBVIOUS
    <3>14. a \in Seq(0..N) /\ b \in Seq(0..N)
      BY <1>1, <1>2, <1>3, <3>13
    <3>15. Around(0..N, W[y], V[y], a, b)
      BY <3>9, <3>11, <3>12, <3>13, <3>14, AroundNested
    <3>16. Around(0..N, FlattenSeq(ss), FlattenSeq(tt), a, b)
      BY <3>5, <3>7, <3>14, <3>15, AroundNested
    <3> QED BY <2>8, <3>13, <3>16
  <2> QED BY <2>9, <2>10 DEF Near
<1> QED BY <1>4, <1>5

(* So all walks become.                                                    *)
LEMMA ChangeAt ==
  ASSUME NEW n \in Nat, NEW N \in Nat, n <= N,
         NEW kids \in [0..n -> Seq(1..n)], KidsNewer(kids, n),
         NEW kids2 \in [0..N -> Seq(1..N)],
         NEW p \in 0..n, \A x \in 0..n : x # p => kids2[x] = kids[x],
         NEW W, Walks(W, kids, n), NEW V, Walks(V, kids2, N)
  PROVE  \A r \in 0..n : Near(W, V, kids, kids2, p, r, N)
<1> DEFINE Y == {j \in 0..n : \A x \in 0..n : x >= n - j => Near(W, V, kids, kids2, p, x, N)}
<1>1. ASSUME NEW r \in 0..n, \A q \in 0..n : q > r => Near(W, V, kids, kids2, p, q, N)
      PROVE  Near(W, V, kids, kids2, p, r, N)
  BY <1>1, NearStep
<1>2. 0 \in Y
  <2>1. \A x \in 0..n : x >= n - 0 => \A y \in 0..n : ~(y > x)
    OBVIOUS
  <2> QED BY <1>1, <2>1
<1>3. ASSUME NEW j \in 0..(n - 1), j \in Y PROVE j + 1 \in Y
  <2>1. ASSUME NEW x \in 0..n, x >= n - (j + 1) PROVE Near(W, V, kids, kids2, p, x, N)
    <3>1. \A y \in 0..n : y > x => y >= n - j
      BY <2>1
    <3>2. \A y \in 0..n : y >= n - j => Near(W, V, kids, kids2, p, y, N)
      BY <1>3
    <3>3. \A y \in 0..n : y > x => Near(W, V, kids, kids2, p, y, N)
      BY <3>1, <3>2
    <3> QED BY <1>1, <3>3
  <2>2. j + 1 \in 0..n
    OBVIOUS
  <2> QED BY <2>1, <2>2
<1> HIDE DEF Y
<1>4. \A j \in 0..n : j \in Y
  <2>1. \A j \in 0..(n - 1) : j \in Y => j + 1 \in Y
    BY <1>3
  <2> QED BY <1>2, <2>1, UpTo0
<1>5. n \in 0..n /\ \A x \in 0..n : x >= n - n
  OBVIOUS
<1>6. n \in Y
  BY <1>4, <1>5
<1> QED BY <1>5, <1>6 DEF Y

(* The same operators have the same walks where each has.                  *)
LEMMA WalksOfSame ==
  ASSUME NEW S, NEW a \in Seq(S), NEW W, NEW V, \A x \in Range(a) : W[x] = V[x]
  PROVE  WalksOf(W, a) = WalksOf(V, a)
<1>1. \A k \in 1..Len(a) : W[a[k]] = V[a[k]]
  BY DEF Range
<1> QED BY <1>1 DEF WalksOf, RootWalks

(* The kids of p were x, between a and b, and are z; those of the others   *)
(* are what they were, and there may be more operators.                    *)
KidsPut(kids, kids2, n, N, p, x, a, b, z) ==
    /\ kids \in [0..n -> Seq(1..n)] /\ KidsNewer(kids, n) /\ kids2 \in [0..N -> Seq(1..N)]
    /\ p \in 0..n /\ \A y \in 0..n : y # p => kids2[y] = kids[y]
    /\ x \in 0..n /\ a \in Seq(0..n) /\ b \in Seq(0..n) /\ z \in Seq(0..N)
    /\ kids[p] = Cat(Cat(a, <<x>>), b) /\ kids2[p] = Cat(Cat(a, z), b)

(* Then the walk of all has the walks of z in the place of that of x.      *)
LEMMA PlaceChanged ==
  ASSUME NEW n \in Nat, NEW N \in Nat, n <= N, NEW kids, NEW kids2,
         NEW p, NEW x, NEW a, NEW b, NEW z, KidsPut(kids, kids2, n, N, p, x, a, b, z),
         NEW W, Walks(W, kids, n), NEW V, Walks(V, kids2, N),
         IsInjective(W[0]), p \in Range(W[0])
  PROVE  /\ Around(0..N, WalksOf(W, kids[0]), WalksOf(V, kids2[0]), W[x], WalksOf(V, z))
         /\ V[x] = W[x]
<1>0. /\ kids \in [0..n -> Seq(1..n)] /\ KidsNewer(kids, n) /\ kids2 \in [0..N -> Seq(1..N)]
      /\ p \in 0..n /\ \A y \in 0..n : y # p => kids2[y] = kids[y]
      /\ x \in 0..n /\ a \in Seq(0..n) /\ b \in Seq(0..n) /\ z \in Seq(0..N)
      /\ kids[p] = Cat(Cat(a, <<x>>), b) /\ kids2[p] = Cat(Cat(a, z), b)
  BY DEF KidsPut
<1> USE <1>0
<1>1. \A r \in 0..n : Near(W, V, kids, kids2, p, r, N)
  BY ChangeAt
<1>2. Around(0..N, WalksOf(W, kids[0]), WalksOf(V, kids2[0]),
             WalksOf(W, kids[p]), WalksOf(V, kids2[p]))
  <2>1. 0 \in 0..n
    OBVIOUS
  <2> QED BY <1>1, <2>1 DEF Near
<1>3. PICK one : one = <<x>>
  OBVIOUS
<1>4. one \in Seq(0..n)
  BY <1>3
<1>5. a \in Seq(0..N) /\ b \in Seq(0..N) /\ one \in Seq(0..N)
  <2>1. 0..n \subseteq 0..N
    OBVIOUS
  <2> QED BY <1>4, <2>1, SeqMonotonic
<1>6. Gives(W, 0..n, Seq(0..N)) /\ Gives(V, 0..N, Seq(0..N))
  <2>1. N <= N
    OBVIOUS
  <2> QED BY <2>1, WalkIs
<1>7. PICK A, B, C, z2 : /\ A = WalksOf(W, a) /\ B = WalksOf(W, b)
                         /\ C = W[x] /\ z2 = WalksOf(V, z)
  OBVIOUS
<1>16. WalksJoined(W, 0..n, 0..N) /\ WalksJoined(V, 0..N, 0..N)
  BY <1>6, WalksOfConcat
<1>8. A \in Seq(0..N) /\ B \in Seq(0..N) /\ C \in Seq(0..N) /\ z2 \in Seq(0..N)
  <2>1. A \in Seq(0..N) /\ B \in Seq(0..N)
    BY <1>7, <1>16 DEF WalksJoined
  <2>2. z2 \in Seq(0..N)
    BY <1>7, <1>16 DEF WalksJoined
  <2> QED BY <1>6, <1>7, <2>1, <2>2 DEF Gives
<1>9. WalksOf(W, kids[p]) = Cat(Cat(A, C), B)
  <2>1. \A s, t \in Seq(0..n) : WalksOf(W, Cat(s, t)) = Cat(WalksOf(W, s), WalksOf(W, t))
    BY <1>16 DEF WalksJoined
  <2>2. Cat(a, one) \in Seq(0..n)
    BY <1>4, CatFacts
  <2>3. WalksOf(W, one) = C
    <3>1. W[x] \in Seq(0..N)
      BY <1>6 DEF Gives
    <3>2. WalksOf(W, <<x>>) = W[x]
      BY <3>1, WalksOfOne
    <3> QED BY <1>3, <1>7, <3>2
  <2>4. WalksOf(W, Cat(Cat(a, one), b)) = Cat(WalksOf(W, Cat(a, one)), B)
    BY Zenon, <1>7, <2>1, <2>2
  <2>5. WalksOf(W, Cat(a, one)) = Cat(A, C)
    BY Zenon, <1>4, <1>7, <2>1, <2>3
  <2> QED BY Zenon, <1>3, <2>4, <2>5
<1>10. WalksOf(V, kids2[p]) = Cat(Cat(WalksOf(V, a), z2), WalksOf(V, b))
  <2>1. \A s, t \in Seq(0..N) : WalksOf(V, Cat(s, t)) = Cat(WalksOf(V, s), WalksOf(V, t))
    BY <1>16 DEF WalksJoined
  <2>2. Cat(a, z) \in Seq(0..N)
    BY <1>5, CatFacts
  <2> QED BY Zenon, <1>5, <1>7, <2>1, <2>2
<1>11. \A y \in Range(kids[p]) : W[y] = V[y]
  <2>1. ASSUME NEW y \in Range(kids[p]) PROVE W[y] = V[y]
    <3>1. PICK k \in 1..Len(kids[p]) : y = kids[p][k]
      <4>1. kids[p] \in Seq(1..n)
        OBVIOUS
      <4>2. DOMAIN kids[p] = 1..Len(kids[p])
        BY <4>1, LenProperties
      <4> QED BY <4>2 DEF Range
    <3>2. y \in 1..n /\ y > p
      <4>1. kids[p] \in Seq(1..n)
        OBVIOUS
      <4>2. y \in 1..n
        BY <3>1, <4>1, ElementOfSeq
      <4> QED BY <3>1, <4>2 DEF KidsNewer
    <3>3. W[y] \in Seq(y..n)
      <4>1. y \in 0..n
        BY <3>2
      <4> QED BY <4>1, WalkRange
    <3>4. p \notin Range(W[y])
      <4>1. \A l \in 1..Len(W[y]) : W[y][l] \in y..n
        BY <3>3, ElementOfSeq
      <4>2. \A e \in y..n : e # p
        BY <3>2
      <4>3. \A l \in 1..Len(W[y]) : W[y][l] # p
        BY <4>1, <4>2
      <4>4. DOMAIN W[y] = 1..Len(W[y])
        BY <3>3, LenProperties
      <4> QED BY Zenon, <4>3, <4>4 DEF Range
    <3>5. y \in 0..n
      BY <3>2
    <3> QED BY <1>1, <3>4, <3>5 DEF Near
  <2> QED BY <2>1
<1>12. Range(a) \subseteq Range(kids[p]) /\ Range(b) \subseteq Range(kids[p]) /\ x \in Range(kids[p])
  <2>1. \A s, t \in Seq(0..n) : Cat(s, t) \in Seq(0..n) /\ Range(Cat(s, t)) = Range(s) \cup Range(t)
    BY SMTT(30), CatFacts
  <2>2. Range(kids[p]) = (Range(a) \cup Range(one)) \cup Range(b)
    <3>1. Cat(a, one) \in Seq(0..n) /\ Range(Cat(a, one)) = Range(a) \cup Range(one)
      BY Zenon, <1>4, <2>1
    <3>2. Range(Cat(Cat(a, one), b)) = Range(Cat(a, one)) \cup Range(b)
      BY Zenon, <2>1, <3>1
    <3> QED BY Zenon, <1>3, <3>1, <3>2
  <2>3. x \in Range(one)
    <3>1. one = [k \in 1..1 |-> x]
      BY <1>3
    <3> QED BY <3>1 DEF Range
  <2> QED BY Zenon, <2>2, <2>3
<1>13. WalksOf(V, a) = A /\ WalksOf(V, b) = B
  <2>1. \A y \in Range(a) : W[y] = V[y]
    BY <1>11, <1>12
  <2>2. \A y \in Range(b) : W[y] = V[y]
    BY <1>11, <1>12
  <2>3. WalksOf(W, a) = WalksOf(V, a)
    BY <2>1, WalksOfSame
  <2>4. WalksOf(W, b) = WalksOf(V, b)
    BY <2>2, WalksOfSame
  <2> QED BY <1>7, <2>3, <2>4
<1>14. Around(0..N, WalksOf(W, kids[p]), WalksOf(V, kids2[p]), C, z2)
  BY <1>8, <1>9, <1>10, <1>13 DEF Around
<1>15. Around(0..N, WalksOf(W, kids[0]), WalksOf(V, kids2[0]), C, z2)
  BY <1>2, <1>8, <1>14, AroundNested
<1> QED BY <1>7, <1>11, <1>12, <1>15

-----------------------------------------------------------------------------
(* The walk through new operators.                                         *)

(* What is joined, mapped, is what is mapped, joined.                      *)
LEMMA FlattenMap ==
  ASSUME NEW S, NEW T, NEW f, Gives(f, S, T)
  PROVE  \A ss \in Seq(Seq(S)) :
            FlattenSeq([k \in 1..Len(ss) |-> RootWalks(f, ss[k])]) = RootWalks(f, FlattenSeq(ss))
<1> DEFINE M(ss) == [k \in 1..Len(ss) |-> RootWalks(f, ss[k])]
<1> DEFINE X == {ss \in Seq(Seq(S)) : FlattenSeq(M(ss)) = RootWalks(f, FlattenSeq(ss))}
<1>1. \A s \in Seq(S) : RootWalks(f, s) \in Seq(T)
  BY MapType
<1>2. \A a, b \in Seq(S) : RootWalks(f, Cat(a, b)) = Cat(RootWalks(f, a), RootWalks(f, b))
  BY MapConcat
<1>3. <<>> \in X
  <2>1. M(<<>>) = <<>>
    OBVIOUS
  <2>2. FlattenSeq(<<>>) = <<>>
    BY FlattenFacts
  <2>3. RootWalks(f, <<>>) = <<>>
    BY DEF RootWalks
  <2>4. <<>> \in Seq(Seq(S))
    BY EmptySeq
  <2> HIDE DEF M
  <2> QED BY <2>1, <2>2, <2>3, <2>4
<1>4. ASSUME NEW ss \in Seq(Seq(S)), NEW e \in Seq(S), ss \in X PROVE Append(ss, e) \in X
  <2>1. PICK n \in Nat : n = Len(ss)
    BY LenProperties
  <2>2. PICK u : u = Append(ss, e)
    OBVIOUS
  <2>3. u \in Seq(Seq(S)) /\ Len(u) = n + 1 /\ u[n + 1] = e /\ \A k \in 1..n : u[k] = ss[k]
    BY <2>1, <2>2
  <2>4. PICK a, b, c : a = M(ss) /\ b = M(u) /\ c = RootWalks(f, e)
    OBVIOUS
  <2>5. c \in Seq(T)
    BY <1>1, <2>4
  <2>6. a \in Seq(Seq(T)) /\ Len(a) = n /\ \A k \in 1..n : a[k] = RootWalks(f, ss[k])
    <3>1. PICK U : U = Seq(T)
      OBVIOUS
    <3>2. \A k \in 1..n : ss[k] \in Seq(S)
      BY <2>1, ElementOfSeq
    <3>3. a \in [1..n -> U] /\ \A k \in 1..n : a[k] = RootWalks(f, ss[k])
      BY <1>1, <2>1, <2>4, <3>1, <3>2
    <3> QED BY <3>1, <3>3, SeqIsFunction
  <2>7. b = Append(a, c)
    <3>1. PICK U : U = Seq(T)
      OBVIOUS
    <3>2. PICK d : d = Append(a, c)
      OBVIOUS
    <3>3. d \in Seq(U) /\ Len(d) = n + 1 /\ d[n + 1] = c /\ \A k \in 1..n : d[k] = a[k]
      <4>1. a \in Seq(U) /\ c \in U
        BY <2>5, <2>6, <3>1
      <4> QED BY <2>6, <3>2, <4>1, AppendProperties
    <3>4. \A k \in 1..(n + 1) : u[k] \in Seq(S)
      BY <2>3, ElementOfSeq
    <3>5. b \in [1..(n + 1) -> U] /\ \A k \in 1..(n + 1) : b[k] = RootWalks(f, u[k])
      BY <1>1, <2>3, <2>4, <3>1, <3>4
    <3>6. n + 1 \in Nat
      OBVIOUS
    <3>7. b \in Seq(U) /\ Len(b) = n + 1
      BY <3>5, <3>6, SeqIsFunction
    <3>8. ASSUME NEW k \in 1..(n + 1) PROVE b[k] = d[k]
      <4>1. CASE k <= n
        <5>1. k \in 1..n
          BY <4>1
        <5> QED BY <2>3, <2>6, <3>3, <3>5, <5>1
      <4>2. CASE ~(k <= n)
        <5>1. k = n + 1
          BY <4>2
        <5> QED BY <2>3, <2>4, <3>3, <3>5, <5>1
      <4> QED BY <4>1, <4>2
    <3> QED BY <3>2, <3>3, <3>6, <3>7, <3>8, SameSeq
  <2>8. FlattenSeq(b) = Cat(FlattenSeq(a), c)
    BY <2>5, <2>6, <2>7, FlattenFacts DEF Cat
  <2>9. FlattenSeq(u) = Cat(FlattenSeq(ss), e) /\ FlattenSeq(ss) \in Seq(S)
    BY <2>2, FlattenFacts DEF Cat
  <2>10. FlattenSeq(a) = RootWalks(f, FlattenSeq(ss))
    BY <1>4, <2>4
  <2>11. FlattenSeq(b) = RootWalks(f, FlattenSeq(u))
    BY <1>2, <2>4, <2>8, <2>9, <2>10
  <2> HIDE DEF M
  <2> QED BY <2>2, <2>3, <2>4, <2>11
<1> HIDE DEF X
<1>5. \A ss \in Seq(Seq(S)) : ss \in X
  BY <1>3, <1>4, SeqInduction
<1> QED BY <1>5 DEF X

(* Numbers below m, shifted.                                               *)
ShiftBy(n, m) == [x \in 0..m |-> Shift(x, n)]

(* The first m numbers behind n.                                           *)
NewOnes(n, m) == [k \in 1..m |-> n + k]

(* ShiftAll shifts each of them.                                           *)
LEMMA ShiftIsMap ==
  ASSUME NEW n \in Nat, NEW m \in Nat
  PROVE  /\ Gives(ShiftBy(n, m), 0..m, 0..(n + m))
         /\ \A xs \in Seq(0..m) : ShiftAll(xs, n) = RootWalks(ShiftBy(n, m), xs)
         /\ \A q \in 1..m : RootWalks(ShiftBy(n, m), <<q>>) = <<n + q>>
<1>1. \A x \in 0..m : Shift(x, n) \in 0..(n + m) /\ (x # 0 => Shift(x, n) = n + x)
  BY DEF Shift
<1>2. PICK f : f = ShiftBy(n, m)
  OBVIOUS
<1>3. \A x \in 0..m : f[x] = Shift(x, n)
  BY <1>2 DEF ShiftBy
<1>4. Gives(f, 0..m, 0..(n + m))
  BY <1>1, <1>3 DEF Gives
<1>5. ASSUME NEW xs \in Seq(0..m) PROVE ShiftAll(xs, n) = RootWalks(f, xs)
  <2>1. \A k \in 1..Len(xs) : xs[k] \in 0..m
    BY ElementOfSeq
  <2>2. \A k \in 1..Len(xs) : Shift(xs[k], n) = f[xs[k]]
    BY <1>3, <2>1
  <2> QED BY <2>2 DEF ShiftAll, RootWalks
<1>6. ASSUME NEW q \in 1..m PROVE RootWalks(f, <<q>>) = <<n + q>>
  <2>1. q \in 0..m /\ q # 0
    OBVIOUS
  <2>2. f[q] = n + q
    BY <1>1, <1>3, <2>1
  <2>3. Len(<<q>>) = 1 /\ <<q>>[1] = q
    OBVIOUS
  <2>4. RootWalks(f, <<q>>) = [k \in 1..1 |-> n + q]
    BY <2>2, <2>3 DEF RootWalks
  <2>5. <<n + q>> = [k \in 1..1 |-> n + q]
    OBVIOUS
  <2> QED BY <2>4, <2>5
<1> QED BY <1>2, <1>4, <1>5, <1>6

(* Behind the first n operators are m that have the kids they had alone.   *)
KidsShifted(kids, kids2, n, m, N) ==
    /\ N = n + m
    /\ kids \in [0..m -> Seq(1..m)] /\ KidsNewer(kids, m) /\ kids2 \in [0..N -> Seq(1..N)]
    /\ \A q \in 1..m : kids2[n + q] = ShiftAll(kids[q], n)

(* New operators are walked beside the old ones as they were alone.        *)
LEMMA NewWalk ==
  ASSUME NEW n \in Nat, NEW m \in Nat, NEW N \in Nat, NEW kids, NEW kids2,
         KidsShifted(kids, kids2, n, m, N),
         NEW U, Walks(U, kids, m), NEW V, Walks(V, kids2, N)
  PROVE  \A q \in 1..m : V[n + q] = ShiftAll(U[q], n)
<1>0. /\ N = n + m
      /\ kids \in [0..m -> Seq(1..m)] /\ KidsNewer(kids, m) /\ kids2 \in [0..N -> Seq(1..N)]
      /\ \A q \in 1..m : kids2[n + q] = ShiftAll(kids[q], n)
  BY DEF KidsShifted
<1> USE <1>0
<1>1. /\ Gives(U, 0..m, Seq(0..m))
      /\ \A x \in 0..m : /\ kids[x] \in Seq(0..m) /\ U[x] \in Seq(0..m)
                         /\ WalksOf(U, kids[x]) \in Seq(0..m)
                         /\ U[x] = Cat(<<x>>, WalksOf(U, kids[x]))
  <2>1. Gives(U, 0..m, Seq(0..m)) /\ \A x \in 0..m : WalkedFrom(U, kids, x, m)
    BY WalkAlone
  <2> QED BY <2>1 DEF WalkedFrom
<1>2. \A x \in 0..N : V[x] = Cat(<<x>>, WalksOf(V, kids2[x]))
  BY Zenon DEF Walks, WalksOf, RootWalks, KidWalks, Cat
<1>3. PICK f : f = ShiftBy(n, m)
  OBVIOUS
<1>4. /\ Gives(f, 0..m, 0..(n + m))
      /\ \A xs \in Seq(0..m) : ShiftAll(xs, n) = RootWalks(f, xs)
      /\ \A q \in 1..m : RootWalks(f, <<q>>) = <<n + q>>
  BY <1>3, ShiftIsMap
<1>5. ASSUME NEW q \in 1..m, \A r \in 1..m : r > q => V[n + r] = ShiftAll(U[r], n)
      PROVE  V[n + q] = ShiftAll(U[q], n)
  <2>1. PICK s, t : s = kids[q] /\ t = ShiftAll(s, n)
    OBVIOUS
  <2>2. q \in 0..m /\ n + q \in 0..N
    OBVIOUS
  <2>3. s \in Seq(1..m) /\ s \in Seq(0..m)
    BY <1>1, <2>1, <2>2
  <2>4. PICK l \in Nat : l = Len(s)
    BY <2>3, LenProperties
  <2>5. Len(t) = l /\ \A k \in 1..l : t[k] = n + s[k] /\ s[k] \in 1..m /\ s[k] > q
    <3>1. Len(t) = l /\ \A k \in 1..l : t[k] = s[k] + n
      BY ZenonT(90), <2>1, <2>3, <2>4, ShiftAllType
    <3>2. \A k \in 1..l : s[k] \in 1..m
      BY <2>3, <2>4, ElementOfSeq
    <3>3. \A k \in 1..l : s[k] > q
      BY <2>1, <2>2, <2>4 DEF KidsNewer
    <3>4. \A k \in 1..l : s[k] + n = n + s[k]
      BY <3>2
    <3> QED BY <3>1, <3>2, <3>3, <3>4
  <2>6. PICK ss : ss = RootWalks(U, s)
    OBVIOUS
  <2>7. ss \in Seq(Seq(0..m)) /\ Len(ss) = l
    BY <1>1, <2>3, <2>4, <2>6, MapType
  <2>8. \A k \in 1..l : ss[k] = U[s[k]]
    BY <2>4, <2>6 DEF RootWalks
  <2>9. \A k \in 1..l : V[t[k]] = RootWalks(f, ss[k])
    <3>1. ASSUME NEW k \in 1..l PROVE V[t[k]] = RootWalks(f, ss[k])
      <4>1. PICK y : y = s[k]
        OBVIOUS
      <4>2. y \in 1..m /\ y > q /\ t[k] = n + y /\ ss[k] = U[y]
        BY <2>5, <2>8, <4>1
      <4>3. V[n + y] = ShiftAll(U[y], n)
        BY <1>5, <4>2
      <4>4. U[y] \in Seq(0..m)
        <5>1. y \in 0..m
          BY <4>2
        <5> QED BY <1>1, <5>1
      <4> QED BY <1>4, <4>2, <4>3, <4>4
    <3> QED BY <3>1
  <2>10. RootWalks(V, t) = [k \in 1..Len(ss) |-> RootWalks(f, ss[k])]
    BY <2>5, <2>7, <2>9 DEF RootWalks
  <2>11. FlattenSeq([k \in 1..Len(ss) |-> RootWalks(f, ss[k])]) = RootWalks(f, FlattenSeq(ss))
    <3>1. PICK S, T : S = 0..m /\ T = 0..(n + m)
      OBVIOUS
    <3>2. Gives(f, S, T) /\ ss \in Seq(Seq(S))
      BY <1>4, <2>7, <3>1
    <3> QED BY <3>2, FlattenMap
  <2>12. WalksOf(V, t) = RootWalks(f, WalksOf(U, s))
    BY <2>6, <2>10, <2>11 DEF WalksOf
  <2>13. V[n + q] = Cat(<<n + q>>, WalksOf(V, t))
    <3>1. kids2[n + q] = t
      BY <2>1
    <3> QED BY <1>2, <2>2, <3>1
  <2>14. PICK one, e : one = <<q>> /\ e = WalksOf(U, s)
    OBVIOUS
  <2>15. one \in Seq(0..m) /\ e \in Seq(0..m) /\ U[q] = Cat(one, e) /\ U[q] \in Seq(0..m)
    <3>1. U[q] \in Seq(0..m) /\ e \in Seq(0..m) /\ U[q] = Cat(<<q>>, e)
      BY <1>1, <2>1, <2>2, <2>14
    <3>2. <<q>> \in Seq(0..m)
      BY <2>2
    <3> QED BY <2>14, <3>1, <3>2
  <2>16. RootWalks(f, Cat(one, e)) = Cat(RootWalks(f, one), RootWalks(f, e))
    BY <1>4, <2>15, MapConcat
  <2>17. RootWalks(f, one) = <<n + q>>
    BY <1>4, <2>14
  <2>18. ShiftAll(U[q], n) = RootWalks(f, U[q])
    BY <1>4, <2>15
  <2> QED BY <2>12, <2>13, <2>14, <2>15, <2>16, <2>17, <2>18
<1> DEFINE Y == {j \in 0..m : \A q \in 1..m : q > m - j => V[n + q] = ShiftAll(U[q], n)}
<1>6. 0 \in Y
  OBVIOUS
<1>7. ASSUME NEW j \in 0..(m - 1), j \in Y PROVE j + 1 \in Y
  <2>1. ASSUME NEW q \in 1..m, q > m - (j + 1) PROVE V[n + q] = ShiftAll(U[q], n)
    <3>1. \A r \in 1..m : r > q => r > m - j
      BY <2>1
    <3>2. \A r \in 1..m : r > m - j => V[n + r] = ShiftAll(U[r], n)
      BY <1>7
    <3>3. \A r \in 1..m : r > q => V[n + r] = ShiftAll(U[r], n)
      BY <3>1, <3>2
    <3> QED BY <1>5, <3>3
  <2>2. j + 1 \in 0..m
    OBVIOUS
  <2> QED BY <2>1, <2>2
<1> HIDE DEF Y
<1>8. \A j \in 0..m : j \in Y
  <2>1. \A j \in 0..(m - 1) : j \in Y => j + 1 \in Y
    BY <1>7
  <2> QED BY <1>6, <2>1, UpTo0
<1>9. m \in 0..m /\ \A q \in 1..m : q > m - m
  OBVIOUS
<1>10. m \in Y
  BY <1>8, <1>9
<1> QED BY <1>9, <1>10 DEF Y

-----------------------------------------------------------------------------
(* An element of a sequence goes, and others come in its place.            *)

(* s is x between a and b, and what the edits of a list of kids make of it *)
(* is between a and b as well.                                             *)
SplicedAt(s, x, y, a, b) ==
    /\ s = Cat(Cat(a, <<x>>), b)
    /\ RemoveFirst(s, x) = Cat(Cat(a, <<>>), b)
    /\ After(s, x, y) = Cat(Cat(a, <<x, y>>), b)
    /\ RemoveFirst(After(s, x, y), x) = Cat(Cat(a, <<y>>), b)

(* An element that is there once is so.                                    *)
LEMMA Spliced ==
  ASSUME NEW S, NEW s \in Seq(S), NEW x \in Range(s), IsInjective(s), NEW y
  PROVE  \E a, b \in Seq(S) : SplicedAt(s, x, y, a, b)
<1>1. PICK n \in Nat : n = Len(s)
  BY LenProperties
<1>2. DOMAIN s = 1..n /\ \A k \in 1..n : s[k] \in S
  BY <1>1, LenProperties, ElementOfSeq
<1>3. PICK i \in 1..n : s[i] = x
  BY <1>2 DEF Range
<1>4. \A k \in 1..n : s[k] = x => k = i
  BY Zenon, <1>2, <1>3 DEF IsInjective
<1>5. PICK a, b, d : a = SubSeq(s, 1, i - 1) /\ b = SubSeq(s, i + 1, n) /\ d = SubSeq(s, 1, i)
  OBVIOUS
<1>6. a \in Seq(S) /\ b \in Seq(S)
  <2>1. \A k \in 1..(i - 1) : s[k] \in S
    BY <1>2
  <2>2. \A k \in (i + 1)..n : s[k] \in S
    BY <1>2
  <2>3. 1 \in Int /\ i - 1 \in Int /\ i + 1 \in Int /\ n \in Int
    OBVIOUS
  <2> QED BY <1>5, <2>1, <2>2, <2>3, SubSeqProperties
<1>7. d = Cat(a, <<x>>)
  <2>1. d = SubSeq(s, 1, i - 1) \o <<s[i]>>
    <3>1. 1 \in 1..n /\ i \in 1..n
      OBVIOUS
    <3> QED BY <1>1, <1>5, <3>1, SubSeqRecursiveSecond
  <2> QED BY <1>3, <1>5, <2>1 DEF Cat
<1>8. s = Cat(d, b)
  <2>1. SubSeq(s, 1, n) = s
    BY <1>1, SubSeqFull
  <2>2. SubSeq(s, 1, n) = SubSeq(s, 1, i) \o SubSeq(s, i + 1, n)
    <3>1. 1 \in 1..(n + 1) /\ i \in (1 - 1)..n /\ n \in i..n
      OBVIOUS
    <3> QED BY <1>1, <3>1, ConcatAdjacentSubSeq
  <2> QED BY <1>5, <2>1, <2>2 DEF Cat
<1>9. RemoveFirst(s, x) = Cat(a, b)
  <2>1. RemoveFirst(s, s[i]) = RemoveAt(s, i)
    <3>1. i \in 1..Len(s) /\ \A j \in 1..(i - 1) : s[j] # s[i]
      BY <1>1, <1>3, <1>4
    <3> QED BY <3>1, FirstRemoved
  <2>2. RemoveAt(s, i) = Cat(a, b)
    BY <1>1, <1>5 DEF RemoveAt, Cat
  <2> QED BY <1>3, <2>1, <2>2
<1>10. After(s, x, y) = Cat(Cat(d, <<y>>), b)
  <2>1. i = CHOOSE j \in 1..n : s[j] = x
    BY <1>3, <1>4
  <2>2. After(s, x, y) = InsertAt(s, i + 1, y)
    BY <1>1, <2>1 DEF After
  <2>3. (i + 1) - 1 = i
    OBVIOUS
  <2> QED BY <1>1, <1>5, <2>2, <2>3 DEF InsertAt, Cat
<1>11. PICK T : T = S \cup {y}
  OBVIOUS
<1>12. PICK one, new : one = <<x>> /\ new = <<y>>
  OBVIOUS
<1>13. a \in Seq(T) /\ b \in Seq(T) /\ one \in Seq(T) /\ new \in Seq(T) /\ <<>> \in Seq(T) /\ x \in T
  <2>1. S \subseteq T
    BY <1>11
  <2>2. a \in Seq(T) /\ b \in Seq(T)
    BY <1>6, <2>1, SeqMonotonic
  <2>3. x \in T /\ y \in T
    BY <1>2, <1>3, <1>11
  <2>4. one \in Seq(T) /\ new \in Seq(T)
    BY <1>12, <2>3
  <2> QED BY <2>2, <2>3, <2>4, EmptySeq
<1>14. /\ \A u, v \in Seq(T) : Cat(u, v) \in Seq(T)
       /\ \A u \in Seq(T) : Cat(u, <<>>) = u
  BY Zenon, CatFacts
<1>23. \A u, v, w \in Seq(T) : Joins(u, v, w)
  BY JoinsAll
<1>15. Cat(one, new) = <<x, y>>
  <2>1. PICK u, v : u = Cat(one, new) /\ v = <<x, y>>
    OBVIOUS
  <2>2. y \in T /\ Len(one) = 1 /\ Len(new) = 1 /\ one[1] = x /\ new[1] = y
    BY <1>11, <1>12
  <2>3. v \in Seq(T) /\ Len(v) = 2 /\ v[1] = x /\ v[2] = y
    BY <1>13, <2>1, <2>2
  <2>4. /\ u \in Seq(T) /\ Len(u) = Len(one) + Len(new)
        /\ \A k \in 1..(Len(one) + Len(new)) :
              u[k] = IF k <= Len(one) THEN one[k] ELSE new[k - Len(one)]
    BY <1>13, <2>1, ConcatProperties DEF Cat
  <2>5. u \in Seq(T) /\ Len(u) = 2 /\ u[1] = x /\ u[2] = y
    BY <2>2, <2>4
  <2>6. \A k \in 1..2 : u[k] = v[k]
    BY <2>3, <2>5
  <2> QED BY <2>1, <2>3, <2>5, <2>6, SameSeq
<1>16. x \notin Range(a)
  <2>1. IsInjective(Cat(d, b)) /\ d \in Seq(T)
    BY <1>7, <1>8, <1>12, <1>13, <1>14
  <2>2. IsInjective(d)
    BY <1>13, <2>1, CatFacts
  <2>3. Range(a) \cap Range(one) = {}
    BY <1>7, <1>12, <1>13, <2>2, CatFacts
  <2>4. x \in Range(one)
    <3>1. one = [k \in 1..1 |-> x]
      BY <1>12
    <3> QED BY <3>1 DEF Range
  <2> QED BY <2>3, <2>4
<1>17. After(s, x, y) = Cat(Cat(a, <<x, y>>), b)
  <2>1. Joins(a, one, new)
    BY Zenon, <1>13, <1>23
  <2>2. After(s, x, y) = Cat(Cat(Cat(a, one), new), b)
    BY Zenon, <1>7, <1>10, <1>12
  <2> QED BY Zenon, <1>15, <2>1, <2>2 DEF Joins
<1>18. After(s, x, y) = Cat(Cat(a, one), Cat(new, b))
  <2>1. Cat(a, one) \in Seq(T)
    BY Zenon, <1>13, <1>14
  <2>2. Joins(Cat(a, one), new, b)
    BY Zenon, <1>13, <1>23, <2>1
  <2> QED BY Zenon, <1>7, <1>10, <1>12, <2>2 DEF Joins
<1>19. RemoveFirst(After(s, x, y), x) = Cat(a, Cat(new, b))
  <2>1. PICK c : c = Cat(new, b)
    OBVIOUS
  <2>2. c \in Seq(T)
    BY Zenon, <1>13, <1>14, <2>1
  <2>3. RemoveFirst((a \o <<x>>) \o c, x) = a \o c
    BY <1>13, <1>16, <2>2, RemoveMiddle
  <2> QED BY <1>12, <1>18, <2>1, <2>3 DEF Cat
<1>20. RemoveFirst(After(s, x, y), x) = Cat(Cat(a, <<y>>), b)
  <2>1. Joins(a, new, b)
    BY Zenon, <1>13, <1>23
  <2> QED BY Zenon, <1>12, <1>19, <2>1 DEF Joins
<1>21. RemoveFirst(s, x) = Cat(Cat(a, <<>>), b)
  BY Zenon, <1>9, <1>13, <1>14
<1>22. s = Cat(Cat(a, <<x>>), b)
  BY <1>7, <1>8
<1> QED BY Zenon, <1>6, <1>17, <1>20, <1>21, <1>22 DEF SplicedAt

-----------------------------------------------------------------------------
(* The walks of a content stream.                                          *)

(* W has the walks of all its operators.                                   *)
WalkNamed(W, c, n) ==
    /\ Walks(W, c.kids, n)
    /\ AllOf(c) = WalksOf(W, c.kids[0])
    /\ \A x \in 0..n : Below(c, x) = W[x]

(* There are some, and no others.                                          *)
LEMMA WalkNames ==
  ASSUME NEW n \in Nat, NEW c, c.kids \in [0..n -> Seq(1..n)], KidsNewer(c.kids, n)
  PROVE  /\ \E W : WalkNamed(W, c, n)
         /\ \A V : Walks(V, c.kids, n) => WalkNamed(V, c, n)
<1>1. PICK W : /\ Walks(W, c.kids, n)
               /\ \A roots : Preorder(c, roots) = FlattenSeq(RootWalks(W, roots))
  BY PreorderWalks
<1>2. AllOf(c) = WalksOf(W, c.kids[0])
  BY <1>1 DEF AllOf, WalksOf
<1>3. ASSUME NEW x \in 0..n PROVE Below(c, x) = W[x]
  <2>1. W[x] \in Seq(0..n)
    BY <1>1 DEF Walks
  <2>2. WalksOf(W, <<x>>) = W[x]
    BY <2>1, WalksOfOne
  <2> QED BY <1>1, <2>2 DEF Below, WalksOf
<1>4. WalkNamed(W, c, n)
  BY <1>1, <1>2, <1>3 DEF WalkNamed
<1>5. ASSUME NEW V, Walks(V, c.kids, n) PROVE WalkNamed(V, c, n)
  <2>1. PICK kids : kids = c.kids
    OBVIOUS
  <2>2. WalksEach(W, kids, n) /\ WalksEach(V, kids, n)
    BY <1>1, <1>5, <2>1 DEF Walks, WalksEach
  <2>3. kids \in [0..n -> Seq(1..n)] /\ KidsNewer(kids, n)
    BY <2>1
  <2>4. SameWalks(W, V, n)
    BY <2>2, <2>3, WalksSame
  <2>5. \A x \in 0..n : W[x] = V[x]
    BY <2>4 DEF SameWalks
  <2>6. W = V
    <3>1. W \in [0..n -> Seq(0..n)] /\ V \in [0..n -> Seq(0..n)]
      BY <1>1, <1>5 DEF Walks
    <3> QED BY <2>5, <3>1
  <2> QED BY <1>4, <2>6
<1> QED BY <1>4, <1>5

(* A content stream whose operators are each in one place.                 *)
Once(c) == IsInjective(AllOf(c))

(* Then the kids of one that is met are each in one place.                 *)
LEMMA OnceHung ==
  ASSUME NEW n \in Nat, NEW c, c.kids \in [0..n -> Seq(1..n)], KidsNewer(c.kids, n),
         NEW W, WalkNamed(W, c, n), Once(c),
         NEW p \in 0..n, p = 0 \/ p \in Range(AllOf(c))
  PROVE  /\ IsInjective(W[0]) /\ p \in Range(W[0])
         /\ IsInjective(c.kids[p])
<1>1. PICK kids, all : kids = c.kids /\ all = AllOf(c)
  OBVIOUS
<1>2. /\ kids \in [0..n -> Seq(1..n)] /\ KidsNewer(kids, n) /\ Walks(W, kids, n)
      /\ all = WalksOf(W, kids[0]) /\ IsInjective(all)
  BY <1>1 DEF WalkNamed, Once
<1>3. all \in Seq(1..n)
  BY <1>1, AllOfType
<1>4. /\ Gives(W, 0..n, Seq(0..n))
      /\ \A x \in 0..n :
           /\ kids[x] \in Seq(0..n)
           /\ W[x] \in Seq(0..n) /\ WalksOf(W, kids[x]) \in Seq(0..n)
           /\ W[x] = Cat(<<x>>, WalksOf(W, kids[x]))
           /\ Range(W[x]) = {x} \cup Range(WalksOf(W, kids[x]))
  <2>1. kids \in [0..n -> Seq(1..n)] /\ Walks(W, kids, n)
    BY <1>2
  <2>2. Gives(W, 0..n, Seq(0..n)) /\ \A x \in 0..n : WalkedFrom(W, kids, x, n)
    BY <2>1, WalkAlone
  <2> QED BY <2>2 DEF WalkedFrom
<1>5. 0 \in 0..n
  OBVIOUS
<1>6. 0 \notin Range(all)
  <2>1. DOMAIN all = 1..Len(all) /\ \A k \in 1..Len(all) : all[k] \in 1..n
    BY <1>3, LenProperties, ElementOfSeq
  <2>2. \A k \in 1..Len(all) : all[k] # 0
    BY <2>1
  <2> QED BY Zenon, <2>1, <2>2 DEF Range
<1>7. IsInjective(W[0]) /\ p \in Range(W[0])
  <2>1. PICK one : one = <<0>>
    OBVIOUS
  <2>2. one \in Seq(0..n) /\ IsInjective(one) /\ Range(one) = {0}
    <3>1. one = [k \in 1..1 |-> 0]
      BY <2>1
    <3>2. one \in Seq(0..n)
      BY <1>5, <2>1
    <3> QED BY <3>1, <3>2 DEF IsInjective, Range
  <2>3. all \in Seq(0..n) /\ W[0] = Cat(one, all)
    BY <1>2, <1>4, <1>5, <2>1
  <2>4. IsInjective(Cat(one, all)) <=> /\ IsInjective(one) /\ IsInjective(all)
                                       /\ Range(one) \cap Range(all) = {}
    BY <2>2, <2>3, CatFacts
  <2>5. IsInjective(W[0])
    BY <1>2, <1>6, <2>2, <2>3, <2>4
  <2>6. Range(W[0]) = {0} \cup Range(all)
    BY <1>2, <1>4, <1>5
  <2> QED BY <1>1, <2>5, <2>6
<1>8. Around(0..n, WalksOf(W, kids[0]), WalksOf(W, kids[0]), WalksOf(W, kids[p]), WalksOf(W, kids[p]))
  <2>1. n <= n
    OBVIOUS
  <2>2. \A r \in 0..n : Near(W, W, kids, kids, p, r, n)
    BY <1>2, <2>1, ChangeAt
  <2> QED BY <1>5, <1>7, <2>2 DEF Near
<1>9. IsInjective(WalksOf(W, kids[p]))
  <2>1. PICK v : v = WalksOf(W, kids[p])
    OBVIOUS
  <2>2. v \in Seq(0..n)
    BY <1>4, <2>1
  <2>3. PICK A \in Seq(0..n), B \in Seq(0..n) : all = Cat(Cat(A, v), B)
    BY Zenon, <1>2, <1>8, <2>1 DEF Around
  <2>4. Cat(A, v) \in Seq(0..n)
    BY <2>2, CatFacts
  <2>5. IsInjective(Cat(A, v))
    BY <1>2, <2>3, <2>4, CatFacts
  <2>6. IsInjective(v)
    BY <2>2, <2>5, CatFacts
  <2> QED BY <2>1, <2>6
<1>10. IsInjective(kids[p])
  <2>1. PICK s, ss : s = kids[p] /\ ss = RootWalks(W, s)
    OBVIOUS
  <2>2. s \in Seq(0..n)
    BY <1>4, <2>1
  <2>3. PICK l \in Nat : l = Len(s)
    BY <2>2, LenProperties
  <2>4. ss \in Seq(Seq(0..n)) /\ Len(ss) = l
    <3>1. PICK T : T = Seq(0..n)
      OBVIOUS
    <3>2. Gives(W, 0..n, T)
      BY <1>4, <3>1
    <3>3. ss \in Seq(T) /\ Len(ss) = Len(s)
      BY <2>1, <2>2, <3>2, MapType
    <3> QED BY <2>3, <3>1, <3>3
  <2>5. IsInjective(FlattenSeq(ss))
    BY <1>9, <2>1 DEF WalksOf
  <2>6. \A k \in 1..l : s[k] \in 0..n /\ ss[k] = W[s[k]]
    <3>1. \A k \in 1..l : s[k] \in 0..n
      BY <2>2, <2>3, ElementOfSeq
    <3>2. \A k \in 1..l : ss[k] = W[s[k]]
      BY <2>1, <2>3 DEF RootWalks
    <3> QED BY <3>1, <3>2
  <2>7. \A k \in 1..l : s[k] \in Range(ss[k])
    BY <1>4, <2>6
  <2>8. ASSUME NEW i \in 1..l, NEW j \in 1..l, s[i] = s[j] PROVE i = j
    <3>1. PartApart(ss, j, l)
      BY <2>4, <2>5, FlattenApart
    <3>2. s[i] \in Range(ss[i]) /\ s[i] \in Range(ss[j])
      BY <2>7, <2>8
    <3> QED BY <3>1, <3>2 DEF PartApart
  <2>9. DOMAIN s = 1..l
    BY <2>2, <2>3, LenProperties
  <2>10. IsInjective(s)
    BY Zenon, <2>8, <2>9 DEF IsInjective
  <2> QED BY <2>1, <2>10
<1> QED BY <1>1, <1>7, <1>10

(* p is where an edit may be made: at the top, or below an operator that   *)
(* is walked.                                                              *)
Met(c, p) == p = 0 \/ p \in Range(AllOf(c))

(* An edit of the kids of p in a content stream that has each operator in  *)
(* one place, and the walks that are left.                                 *)
ChangeOf(V, c, d, n, N, p, x, a, b, z) ==
    /\ Once(c) /\ Met(c, p) /\ n <= N
    /\ KidsPut(c.kids, d.kids, n, N, p, x, a, b, z) /\ WalkNamed(V, d, N)

(* An edit of the kids of p in a content stream that has each operator in  *)
(* one place changes the walk of all in one place.                         *)
LEMMA AllChanged ==
  ASSUME NEW n \in Nat, NEW N \in Nat, NEW c, NEW d, NEW p, NEW x, NEW a, NEW b, NEW z,
         NEW V, ChangeOf(V, c, d, n, N, p, x, a, b, z)
  PROVE  /\ Around(0..N, AllOf(c), AllOf(d), Below(c, x), WalksOf(V, z))
         /\ V[x] = Below(c, x)
<1>0. /\ c.kids \in [0..n -> Seq(1..n)] /\ KidsNewer(c.kids, n)
      /\ p \in 0..n /\ x \in 0..n
  BY DEF ChangeOf, KidsPut
<1>7. /\ n <= N /\ Once(c) /\ WalkNamed(V, d, N)
      /\ p = 0 \/ p \in Range(AllOf(c))
      /\ KidsPut(c.kids, d.kids, n, N, p, x, a, b, z)
  BY DEF ChangeOf, Met
<1>1. PICK W : WalkNamed(W, c, n)
  BY <1>0, WalkNames
<1>2. PICK kids, kids2 : kids = c.kids /\ kids2 = d.kids
  OBVIOUS
<1>3. /\ Walks(W, kids, n) /\ AllOf(c) = WalksOf(W, kids[0]) /\ Below(c, x) = W[x]
      /\ Walks(V, kids2, N) /\ AllOf(d) = WalksOf(V, kids2[0])
  BY <1>0, <1>1, <1>2, <1>7 DEF WalkNamed
<1>4. IsInjective(W[0]) /\ p \in Range(W[0])
  BY <1>0, <1>1, <1>7, OnceHung
<1>5. KidsPut(kids, kids2, n, N, p, x, a, b, z)
  BY <1>2, <1>7
<1>6. /\ Around(0..N, WalksOf(W, kids[0]), WalksOf(V, kids2[0]), W[x], WalksOf(V, z))
      /\ V[x] = W[x]
  BY <1>3, <1>4, <1>5, <1>7, PlaceChanged
<1> QED BY <1>3, <1>6

(* w is one operator, with all that is below it.                           *)
OneOperator(w) == TreeOf(w).kids[0] = <<1>>

(* There are m more than n.                                                *)
More(n, m, N) == N = n + m

(* It has been put behind the first n operators.                           *)
NewKids(d, w, n, m) == \A q \in 1..m : d.kids[n + q] = ShiftAll(TreeOf(w).kids[q], n)

(* The walk through it is of all of its numbers, behind those there were.  *)
LEMMA NewOnesWalked ==
  ASSUME NEW n \in Nat, NEW m \in Nat \ {0}, NEW w \in Seq(Operators), Len(w) = m, OneOperator(w),
         NEW N \in Nat, More(n, m, N), NEW d, d.kids \in [0..N -> Seq(1..N)],
         NewKids(d, w, n, m), NEW V, WalkNamed(V, d, N)
  PROVE  V[n + 1] = NewOnes(n, m)
<1>1. PICK t : t = TreeOf(w)
  OBVIOUS
<1>2. PICK kids : kids = t.kids
  OBVIOUS
<1>3. kids \in [0..m -> Seq(1..m)] /\ KidsNewer(kids, m)
  BY <1>1, <1>2, TreeOfParts DEF PartsOK
<1>4. AllOf(t) \in Seq(0..m) /\ Len(AllOf(t)) = m /\ \A k \in 1..m : AllOf(t)[k] = k
  BY <1>1, TreeWalked
<1>5. PICK U : WalkNamed(U, t, m)
  BY <1>2, <1>3, WalkNames
<1>6. Walks(U, kids, m) /\ AllOf(t) = WalksOf(U, kids[0]) /\ kids[0] = <<1>>
  BY <1>1, <1>2, <1>5 DEF WalkNamed, OneOperator
<1>7. AllOf(t) = U[1]
  <2>1. 1 \in 0..m
    OBVIOUS
  <2>2. U[1] \in Seq(0..m)
    BY <1>6, <2>1 DEF Walks
  <2>3. WalksOf(U, <<1>>) = U[1]
    BY <2>2, WalksOfOne
  <2> QED BY <1>6, <2>3
<1>8. PICK kids2 : kids2 = d.kids
  OBVIOUS
<1>9. Walks(V, kids2, N) /\ kids2 \in [0..N -> Seq(1..N)]
  BY <1>8 DEF WalkNamed
<1>10. \A q \in 1..m : kids2[n + q] = ShiftAll(kids[q], n)
  BY <1>1, <1>2, <1>8 DEF NewKids
<1>11. \A q \in 1..m : V[n + q] = ShiftAll(U[q], n)
  <2>1. KidsShifted(kids, kids2, n, m, N)
    BY <1>3, <1>9, <1>10 DEF KidsShifted, More
  <2> QED BY <1>6, <1>9, <2>1, NewWalk
<1>12. V[n + 1] = ShiftAll(AllOf(t), n)
  <2>1. 1 \in 1..m
    OBVIOUS
  <2> QED BY <1>7, <1>11, <2>1
<1>13. \A k \in 1..m : Shift(AllOf(t)[k], n) = n + k
  BY <1>4 DEF Shift
<1>14. ShiftAll(AllOf(t), n) = [k \in 1..m |-> n + k]
  BY <1>4, <1>13 DEF ShiftAll
<1> QED BY <1>12, <1>14 DEF NewOnes

-----------------------------------------------------------------------------
(* What the edits make of the parts.                                       *)

(* d is c with the operators of w behind its own.                          *)
BesideOf(d, c, w, n, m) ==
    /\ \A y \in 0..n : d.kids[y] = c.kids[y]
    /\ \A q \in 1..m : d.kids[n + q] = ShiftAll(TreeOf(w).kids[q], n)
    /\ \A y \in 1..n : d.next[y] = c.next[y] /\ d.prev[y] = c.prev[y] /\ d.op[y] = c.op[y]
    /\ \A k \in 1..m : /\ d.next[n + k] = (IF k = m THEN 0 ELSE n + k + 1)
                       /\ d.prev[n + k] = (IF k = 1 THEN 0 ELSE n + k - 1)
                       /\ d.op[n + k] = w[k]
    /\ d.cut = c.cut

(* u has m elements of s, and then n of t.                                 *)
JoinsAt(u, s, t, m, n) ==
    /\ \A k \in 1..m : u[k] = s[k]
    /\ \A k \in 1..n : u[m + k] = t[k]

(* One sequence and another.                                               *)
LEMMA ConcatAt ==
  ASSUME NEW S, NEW s \in Seq(S), NEW t \in Seq(S), NEW m \in Nat, NEW n \in Nat,
         Len(s) = m, Len(t) = n
  PROVE  JoinsAt(s \o t, s, t, m, n) /\ Len(s \o t) = m + n
<1>1. PICK u : u = s \o t
  OBVIOUS
<1>2. /\ Len(u) = m + n
      /\ \A k \in 1..(m + n) : u[k] = IF k <= m THEN s[k] ELSE t[k - m]
  BY <1>1, ConcatProperties
<1>3. \A k \in 1..m : k \in 1..(m + n) /\ k <= m
  OBVIOUS
<1>4. \A k \in 1..n : m + k \in 1..(m + n) /\ ~(m + k <= m) /\ (m + k) - m = k
  OBVIOUS
<1>5. \A k \in 1..m : u[k] = s[k]
  BY <1>2, <1>3
<1>6. \A k \in 1..n : u[m + k] = t[k]
  BY ZenonT(40), <1>2, <1>4
<1> QED BY <1>1, <1>2, <1>5, <1>6 DEF JoinsAt

(* WithNew and WithOwn do that.                                            *)
LEMMA BesideParts ==
  ASSUME NEW T, NEW n \in Nat, NEW c, Sound(c, T, n),
         NEW w \in Seq(Operators), NEW m \in Nat, Len(w) = m
  PROVE  BesideOf(WithNew(c, w), c, w, n, m) /\ BesideOf(WithOwn(c, w), c, w, n, m)
<1>1. PICK new : new = TreeOf(w)
  OBVIOUS
<1>2. /\ new.op = w
      /\ new.next = [i \in 1..m |-> IF i = m THEN 0 ELSE i + 1]
      /\ new.prev = [i \in 1..m |-> i - 1]
  BY <1>1 DEF TreeOf, Tree
<1>3. /\ c \in ContentStreams(T, n) /\ Len(c.op) = n
      /\ c.op \in [1..n -> Operators]
      /\ c.next \in [1..n -> 0..n] /\ c.prev \in [1..n -> 0..n]
  BY SoundParts
<1>4. PICK nexts, prevs, op, next, prev :
        /\ nexts = ShiftAll(new.next, n) /\ prevs = ShiftAll(new.prev, n)
        /\ op = c.op \o w /\ next = c.next \o nexts /\ prev = c.prev \o prevs
  OBVIOUS
<1>5. /\ nexts \in [1..m -> 0..(n + m)] /\ prevs \in [1..m -> 0..(n + m)]
      /\ \A k \in 1..m : /\ nexts[k] = (IF k = m THEN 0 ELSE n + k + 1)
                         /\ prevs[k] = (IF k = 1 THEN 0 ELSE n + k - 1)
  <2>1. new.next \in [1..m -> 0..m] /\ new.prev \in [1..m -> 0..m]
    BY <1>2
  <2>2. Len(new.next) = m /\ Len(new.prev) = m
    BY <2>1, SeqIsFunction
  <2>3. nexts \in [1..m -> 0..(n + m)] /\ prevs \in [1..m -> 0..(n + m)]
    BY <1>4, <2>1, ShiftAllType
  <2>4. \A k \in 1..m : nexts[k] = Shift(new.next[k], n) /\ prevs[k] = Shift(new.prev[k], n)
    BY <1>4, <2>2 DEF ShiftAll
  <2>5. \A k \in 1..m : /\ new.next[k] = (IF k = m THEN 0 ELSE k + 1)
                        /\ new.prev[k] = k - 1
    BY <1>2
  <2>6. ASSUME NEW k \in 1..m PROVE nexts[k] = (IF k = m THEN 0 ELSE n + k + 1)
    <3>1. CASE k = m
      BY <2>4, <2>5, <3>1 DEF Shift
    <3>2. CASE k # m
      <4>1. nexts[k] = Shift(k + 1, n)
        BY <2>4, <2>5, <3>2
      <4> QED BY <3>2, <4>1 DEF Shift
    <3> QED BY <3>1, <3>2
  <2>7. ASSUME NEW k \in 1..m PROVE prevs[k] = (IF k = 1 THEN 0 ELSE n + k - 1)
    <3>1. prevs[k] = Shift(k - 1, n)
      BY <2>4, <2>5
    <3>2. Shift(k - 1, n) = (IF k = 1 THEN 0 ELSE n + k - 1)
      BY DEF Shift
    <3> QED BY <3>1, <3>2
  <2> QED BY <2>3, <2>6, <2>7
<1>6. /\ \A y \in 1..n : next[y] = c.next[y] /\ prev[y] = c.prev[y] /\ op[y] = c.op[y]
      /\ \A k \in 1..m : next[n + k] = nexts[k] /\ prev[n + k] = prevs[k] /\ op[n + k] = w[k]
  <2>1. PICK S : S = 0..(n + m)
    OBVIOUS
  <2>2. c.next \in [1..n -> S] /\ c.prev \in [1..n -> S] /\ nexts \in [1..m -> S] /\ prevs \in [1..m -> S]
    <3>1. 0..n \subseteq S
      BY <2>1
    <3> QED BY <1>3, <1>5, <2>1, <3>1
  <2>3. PICK cn, cp, co : cn = c.next /\ cp = c.prev /\ co = c.op
    OBVIOUS
  <2>4. cn \in Seq(S) /\ Len(cn) = n /\ nexts \in Seq(S) /\ Len(nexts) = m
    BY <2>2, <2>3, SeqIsFunction
  <2>5. cp \in Seq(S) /\ Len(cp) = n /\ prevs \in Seq(S) /\ Len(prevs) = m
    BY <2>2, <2>3, SeqIsFunction
  <2>6. co \in Seq(Operators) /\ Len(co) = n
    BY <1>3, <2>3, SeqIsFunction
  <2>7. (\A y \in 1..n : next[y] = cn[y]) /\ \A k \in 1..m : next[n + k] = nexts[k]
    <3>1. JoinsAt(next, cn, nexts, n, m)
      BY <1>4, <2>3, <2>4, ConcatAt
    <3> QED BY Zenon, <3>1 DEF JoinsAt
  <2>8. (\A y \in 1..n : prev[y] = cp[y]) /\ \A k \in 1..m : prev[n + k] = prevs[k]
    <3>1. JoinsAt(prev, cp, prevs, n, m)
      BY <1>4, <2>3, <2>5, ConcatAt
    <3> QED BY Zenon, <3>1 DEF JoinsAt
  <2>9. (\A y \in 1..n : op[y] = co[y]) /\ \A k \in 1..m : op[n + k] = w[k]
    <3>1. JoinsAt(op, co, w, n, m)
      BY <1>4, <2>3, <2>6, ConcatAt
    <3> QED BY Zenon, <3>1 DEF JoinsAt
  <2> QED BY <2>3, <2>7, <2>8, <2>9
<1>7. PICK kids : kids = [p \in 0..(n + m) |->
                            IF p <= n THEN c.kids[p] ELSE ShiftAll(new.kids[p - n], n)]
  OBVIOUS
<1>8. /\ \A y \in 0..n : kids[y] = c.kids[y]
      /\ \A q \in 1..m : kids[n + q] = ShiftAll(new.kids[q], n)
  <2>1. \A q \in 1..m : n + q \in 0..(n + m) /\ ~(n + q <= n) /\ (n + q) - n = q
    OBVIOUS
  <2>2. \A y \in 0..n : y \in 0..(n + m) /\ y <= n
    OBVIOUS
  <2>3. \A q \in 1..m : kids[n + q] = ShiftAll(new.kids[q], n)
    BY <1>7, <2>1
  <2>4. \A y \in 0..n : kids[y] = c.kids[y]
    BY <1>7, <2>2
  <2> QED BY <2>3, <2>4
<1>9. PICK d : d = WithNew(c, w)
  OBVIOUS
<1>10. d = [c EXCEPT !.op = op, !.kids = kids, !.next = next, !.prev = prev]
  <2>1. d = Beside(c, new, n)
    BY <1>1, <1>3, <1>9 DEF WithNew
  <2> QED BY <1>2, <1>4, <1>7, <2>1 DEF Beside
<1>11. d.op = op /\ d.kids = kids /\ d.next = next /\ d.prev = prev /\ d.cut = c.cut
  BY <1>3, <1>10 DEF ContentStreams
<1>12. BesideOf(d, c, w, n, m)
  BY <1>1, <1>5, <1>6, <1>8, <1>11 DEF BesideOf
<1>13. PICK e, own : own = d.own \cup (NewAt(c)..LastNewAt(c, w)) /\ e = [d EXCEPT !.own = own]
  OBVIOUS
<1>14. e = WithOwn(c, w)
  BY Zenon, <1>9, <1>13 DEF WithOwn
<1>15. e.op = d.op /\ e.kids = d.kids /\ e.next = d.next /\ e.prev = d.prev /\ e.cut = d.cut
  BY <1>3, <1>10, <1>13 DEF ContentStreams
<1>16. BesideOf(e, c, w, n, m)
  BY <1>12, <1>15 DEF BesideOf
<1> QED BY <1>9, <1>12, <1>14, <1>16

-----------------------------------------------------------------------------
(* The list of the operators.                                              *)

(* Element j, or 0 where there is none.                                    *)
At(s, j) == IF j \in 1..Len(s) THEN s[j] ELSE 0

(* The links lead through s, and back.                                     *)
Linked(next, prev, s) ==
    \A i \in 1..Len(s) : next[s[i]] = At(s, i + 1) /\ prev[s[i]] = At(s, i - 1)

(* u is s with n + 1 to n + m in the place of l elements behind the first  *)
(* a.                                                                      *)
NumbersPut(s, u, a, l, b, n, m) ==
    /\ Len(s) = a + l + b /\ Len(u) = a + m + b
    /\ \A i \in 1..a : u[i] = s[i]
    /\ \A k \in 1..m : u[a + k] = n + k
    /\ \A i \in 1..b : u[a + m + i] = s[a + l + i]

(* So have links been put.                                                 *)
LinksPut(next, prev, next2, prev2, s, a, l, b, n, m) ==
    /\ \A i \in 1..(a - 1) : next2[s[i]] = next[s[i]]
    /\ a # 0 => next2[s[a]] = (IF m # 0 THEN n + 1 ELSE At(s, a + l + 1))
    /\ \A k \in 1..m : next2[n + k] = (IF k # m THEN n + k + 1 ELSE At(s, a + l + 1))
    /\ \A i \in 1..b : next2[s[a + l + i]] = next[s[a + l + i]]
    /\ \A i \in 1..a : prev2[s[i]] = prev[s[i]]
    /\ \A k \in 1..m : prev2[n + k] = (IF k # 1 THEN n + k - 1 ELSE At(s, a))
    /\ b # 0 => prev2[s[a + l + 1]] = (IF m # 0 THEN n + m ELSE At(s, a))
    /\ \A i \in 2..b : prev2[s[a + l + i]] = prev[s[a + l + i]]

(* What is there in either sequence.                                       *)
NumbersThere(s, u, a, l, b, n, m) ==
    /\ At(s, 0) = 0 /\ At(u, 0) = 0 /\ At(s, a + l + b + 1) = 0 /\ At(u, a + m + b + 1) = 0
    /\ \A i \in 1..a : At(u, i) = s[i] /\ At(s, i) = s[i]
    /\ \A k \in 1..m : At(u, a + k) = n + k
    /\ \A i \in 1..b : At(u, a + m + i) = s[a + l + i] /\ At(s, a + l + i) = s[a + l + i]

(* It is.                                                                  *)
LEMMA NumbersAt ==
  ASSUME NEW s, NEW u, NEW a \in Nat, NEW l \in Nat, NEW b \in Nat, NEW n \in Nat, NEW m \in Nat,
         NumbersPut(s, u, a, l, b, n, m)
  PROVE  NumbersThere(s, u, a, l, b, n, m)
<1>1. Len(s) = a + l + b /\ Len(u) = a + m + b
  BY DEF NumbersPut
<1>2. At(s, 0) = 0 /\ At(u, 0) = 0 /\ At(s, a + l + b + 1) = 0 /\ At(u, a + m + b + 1) = 0
  BY <1>1 DEF At
<1>3. ASSUME NEW i \in 1..a PROVE At(u, i) = s[i] /\ At(s, i) = s[i]
  <2>1. i \in 1..Len(s) /\ i \in 1..Len(u)
    BY <1>1
  <2> QED BY <2>1 DEF At, NumbersPut
<1>4. ASSUME NEW k \in 1..m PROVE At(u, a + k) = n + k
  <2>1. a + k \in 1..Len(u)
    BY <1>1
  <2> QED BY <2>1 DEF At, NumbersPut
<1>5. ASSUME NEW i \in 1..b PROVE At(u, a + m + i) = s[a + l + i] /\ At(s, a + l + i) = s[a + l + i]
  <2>1. a + l + i \in 1..Len(s) /\ a + m + i \in 1..Len(u)
    BY <1>1
  <2> QED BY <2>1 DEF At, NumbersPut
<1> QED BY <1>2, <1>3, <1>4, <1>5 DEF NumbersThere

(* The list leads through what was put in.                                 *)
LEMMA LinkedPut ==
  ASSUME NEW s, NEW u, NEW a \in Nat, NEW l \in Nat, NEW b \in Nat, NEW n \in Nat, NEW m \in Nat,
         NumbersPut(s, u, a, l, b, n, m),
         NEW next, NEW prev, Linked(next, prev, s),
         NEW next2, NEW prev2, LinksPut(next, prev, next2, prev2, s, a, l, b, n, m)
  PROVE  Linked(next2, prev2, u)
<1>1. Len(s) = a + l + b /\ Len(u) = a + m + b
  BY DEF NumbersPut
<1>2. /\ \A i \in 1..a : u[i] = s[i]
      /\ \A k \in 1..m : u[a + k] = n + k
      /\ \A i \in 1..b : u[a + m + i] = s[a + l + i]
  BY DEF NumbersPut
<1>3. /\ At(s, 0) = 0 /\ At(u, 0) = 0 /\ At(s, a + l + b + 1) = 0 /\ At(u, a + m + b + 1) = 0
      /\ \A i \in 1..a : At(u, i) = s[i] /\ At(s, i) = s[i]
      /\ \A k \in 1..m : At(u, a + k) = n + k
      /\ \A i \in 1..b : At(u, a + m + i) = s[a + l + i] /\ At(s, a + l + i) = s[a + l + i]
  <2>1. NumbersThere(s, u, a, l, b, n, m)
    BY NumbersAt
  <2> QED BY <2>1 DEF NumbersThere
<1>4. \A i \in 1..(a + l + b) : next[s[i]] = At(s, i + 1) /\ prev[s[i]] = At(s, i - 1)
  BY <1>1 DEF Linked
<1>5. /\ \A i \in 1..(a - 1) : next2[s[i]] = next[s[i]]
      /\ a # 0 => next2[s[a]] = (IF m # 0 THEN n + 1 ELSE At(s, a + l + 1))
      /\ \A k \in 1..m : next2[n + k] = (IF k # m THEN n + k + 1 ELSE At(s, a + l + 1))
      /\ \A i \in 1..b : next2[s[a + l + i]] = next[s[a + l + i]]
  BY DEF LinksPut
<1>6. /\ \A i \in 1..a : prev2[s[i]] = prev[s[i]]
      /\ \A k \in 1..m : prev2[n + k] = (IF k # 1 THEN n + k - 1 ELSE At(s, a))
      /\ b # 0 => prev2[s[a + l + 1]] = (IF m # 0 THEN n + m ELSE At(s, a))
      /\ \A i \in 2..b : prev2[s[a + l + i]] = prev[s[a + l + i]]
  BY DEF LinksPut
<1>7. At(s, a + l + 1) = At(u, a + m + 1)
  <2>1. CASE b = 0
    <3>1. a + l + b + 1 = a + l + 1 /\ a + m + b + 1 = a + m + 1
      BY <2>1
    <3> QED BY <1>3, <3>1
  <2>2. CASE b # 0
    <3>1. 1 \in 1..b
      BY <2>2
    <3> QED BY <1>3, <3>1
  <2> QED BY <2>1, <2>2
<1>8. At(s, a) = At(u, a)
  <2>1. CASE a = 0
    BY <1>3, <2>1
  <2>2. CASE a # 0
    <3>1. a \in 1..a
      BY <2>2
    <3> QED BY <1>3, <3>1
  <2> QED BY <2>1, <2>2
<1>9. ASSUME NEW i \in 1..a PROVE next2[u[i]] = At(u, i + 1)
  <2>1. CASE i # a
    <3>1. i \in 1..(a - 1) /\ i + 1 \in 1..a /\ i \in 1..(a + l + b)
      BY <2>1
    <3>2. next2[u[i]] = At(s, i + 1)
      BY <1>2, <1>4, <1>5, <3>1
    <3> QED BY <1>3, <3>1, <3>2
  <2>2. CASE i = a /\ m # 0
    <3>1. 1 \in 1..m
      BY <2>2
    <3>2. next2[u[i]] = n + 1
      BY <1>2, <1>5, <2>2
    <3> QED BY <1>3, <2>2, <3>1, <3>2
  <2>3. CASE i = a /\ m = 0
    <3>1. next2[u[i]] = At(s, a + l + 1)
      BY <1>2, <1>5, <2>3
    <3>2. a + m + 1 = i + 1
      BY <2>3
    <3> QED BY <1>7, <3>1, <3>2
  <2> QED BY <2>1, <2>2, <2>3
<1>10. ASSUME NEW i \in 1..a PROVE prev2[u[i]] = At(u, i - 1)
  <2>1. i \in 1..(a + l + b)
    OBVIOUS
  <2>2. prev2[u[i]] = At(s, i - 1)
    BY <1>2, <1>4, <1>6, <2>1
  <2>3. CASE i = 1
    BY <1>3, <2>2, <2>3
  <2>4. CASE i # 1
    <3>1. i - 1 \in 1..a
      BY <2>4
    <3> QED BY <1>3, <2>2, <3>1
  <2> QED BY <2>3, <2>4
<1>11. ASSUME NEW k \in 1..m PROVE next2[u[a + k]] = At(u, a + k + 1)
  <2>1. next2[u[a + k]] = (IF k # m THEN n + k + 1 ELSE At(s, a + l + 1))
    BY <1>2, <1>5
  <2>2. CASE k # m
    <3>1. k + 1 \in 1..m /\ a + (k + 1) = a + k + 1 /\ n + (k + 1) = n + k + 1
      BY <2>2
    <3>2. At(u, a + (k + 1)) = n + (k + 1)
      BY <1>3, <3>1
    <3> QED BY <2>1, <2>2, <3>1, <3>2
  <2>3. CASE k = m
    BY <1>7, <2>1, <2>3
  <2> QED BY <2>2, <2>3
<1>12. ASSUME NEW k \in 1..m PROVE prev2[u[a + k]] = At(u, a + k - 1)
  <2>1. prev2[u[a + k]] = (IF k # 1 THEN n + k - 1 ELSE At(s, a))
    BY <1>2, <1>6
  <2>2. CASE k # 1
    <3>1. k - 1 \in 1..m /\ a + (k - 1) = a + k - 1 /\ n + (k - 1) = n + k - 1
      BY <2>2
    <3>2. At(u, a + (k - 1)) = n + (k - 1)
      BY <1>3, <3>1
    <3> QED BY <2>1, <2>2, <3>1, <3>2
  <2>3. CASE k = 1
    <3>1. a + k - 1 = a
      BY <2>3
    <3> QED BY <1>8, <2>1, <2>3, <3>1
  <2> QED BY <2>2, <2>3
<1>13. ASSUME NEW i \in 1..b PROVE next2[u[a + m + i]] = At(u, a + m + i + 1)
  <2>1. a + l + i \in 1..(a + l + b)
    OBVIOUS
  <2>2. next2[u[a + m + i]] = At(s, a + l + i + 1)
    BY <1>2, <1>4, <1>5, <2>1
  <2>3. CASE i = b
    BY <1>3, <2>2, <2>3
  <2>4. CASE i # b
    <3>1. i + 1 \in 1..b /\ a + l + (i + 1) = a + l + i + 1 /\ a + m + (i + 1) = a + m + i + 1
      BY <2>4
    <3>2. At(u, a + m + (i + 1)) = At(s, a + l + (i + 1))
      BY <1>3, <3>1
    <3> QED BY <2>2, <3>1, <3>2
  <2> QED BY <2>3, <2>4
<1>14. ASSUME NEW i \in 1..b PROVE prev2[u[a + m + i]] = At(u, a + m + i - 1)
  <2>1. a + l + i \in 1..(a + l + b)
    OBVIOUS
  <2>2. CASE i = 1 /\ m # 0
    <3>1. prev2[u[a + m + i]] = n + m
      BY <1>2, <1>6, <2>2
    <3>2. m \in 1..m /\ a + m + i - 1 = a + m
      BY <2>2
    <3> QED BY <1>3, <3>1, <3>2
  <2>3. CASE i = 1 /\ m = 0
    <3>1. prev2[u[a + m + i]] = At(s, a)
      BY <1>2, <1>6, <2>3
    <3>2. a + m + i - 1 = a
      BY <2>3
    <3> QED BY <1>8, <3>1, <3>2
  <2>4. CASE i # 1
    <3>1. i \in 2..b /\ i - 1 \in 1..b /\ a + l + (i - 1) = a + l + i - 1 /\ a + m + (i - 1) = a + m + i - 1
      BY <2>4
    <3>2. prev2[u[a + m + i]] = At(s, a + l + i - 1)
      <4>1. prev2[u[a + m + i]] = prev2[s[a + l + i]]
        BY <1>2
      <4>2. prev2[s[a + l + i]] = prev[s[a + l + i]]
        BY <1>6, <3>1
      <4>3. prev[s[a + l + i]] = At(s, (a + l + i) - 1)
        BY <1>4, <2>1
      <4> QED BY <4>1, <4>2, <4>3
    <3>3. At(u, a + m + (i - 1)) = At(s, a + l + (i - 1))
      BY <1>3, <3>1
    <3> QED BY <3>1, <3>2, <3>3
  <2> QED BY <2>2, <2>3, <2>4
<1>15. ASSUME NEW j \in 1..Len(u)
       PROVE  next2[u[j]] = At(u, j + 1) /\ prev2[u[j]] = At(u, j - 1)
  <2>1. CASE j <= a
    <3>1. j \in 1..a
      BY <1>1, <2>1
    <3> QED BY <1>9, <1>10, <3>1
  <2>2. CASE a < j /\ j <= a + m
    <3>1. PICK k \in 1..m : j = a + k
      <4>1. j - a \in 1..m /\ j = a + (j - a)
        BY <1>1, <2>2
      <4> QED BY <4>1
    <3>2. next2[u[a + k]] = At(u, a + k + 1) /\ prev2[u[a + k]] = At(u, a + k - 1)
      BY <1>11, <1>12
    <3> QED BY <3>1, <3>2
  <2>3. CASE a + m < j
    <3>1. PICK i \in 1..b : j = a + m + i
      <4>1. j - (a + m) \in 1..b /\ j = a + m + (j - (a + m))
        BY <1>1, <2>3
      <4> QED BY <4>1
    <3>2. next2[u[a + m + i]] = At(u, a + m + i + 1) /\ prev2[u[a + m + i]] = At(u, a + m + i - 1)
      BY <1>13, <1>14
    <3> QED BY <3>1, <3>2
  <2> QED BY <1>1, <2>1, <2>2, <2>3
<1> QED BY <1>15 DEF Linked

-----------------------------------------------------------------------------
(* The list comes to an end.                                               *)

(* Every operator, on the list or not, has a higher rank than the next.    *)
Ranks(R, B, next, n) ==
    /\ B \in Nat /\ R \in [0..n -> 0..B] /\ R[0] = 0
    /\ \A y \in 1..n : next[y] \in 0..n /\ R[next[y]] < R[y]

Ranked(next, n) == \E B, R : Ranks(R, B, next, n)

(* The ranks fall from each element of s to all behind it, and to the end. *)
RanksFall(R, s) ==
    \A i \in 1..Len(s) : \A j \in (i + 1)..(Len(s) + 1) : R[At(s, j)] < R[s[i]]

(* They do along the list.                                                 *)
LEMMA RanksFallAlong ==
  ASSUME NEW n \in Nat, NEW s \in Seq(1..n), NEW next, NEW prev, Linked(next, prev, s),
         NEW R, NEW B, Ranks(R, B, next, n)
  PROVE  RanksFall(R, s)
<1>1. PICK L \in Nat : L = Len(s)
  BY LenProperties
<1>2. \A i \in 1..L : s[i] \in 1..n
  BY <1>1, ElementOfSeq
<1>3. \A j \in 1..L : At(s, j) = s[j]
  BY <1>1 DEF At
<1>4. \A j \in 1..(L + 1) : At(s, j) \in 0..n
  BY <1>1, <1>2 DEF At
<1>5. \A y \in 0..n : R[y] \in Int
  BY DEF Ranks
<1>6. \A i \in 1..L : R[At(s, i + 1)] < R[s[i]]
  BY <1>1, <1>2 DEF Linked, Ranks
<1> DEFINE X == {d \in Nat : \A i \in 1..L : i + d + 1 <= L + 1 => R[At(s, i + d + 1)] < R[s[i]]}
<1>7. 0 \in X
  <2>1. \A i \in 1..L : i + 0 + 1 = i + 1
    OBVIOUS
  <2> QED BY <1>6, <2>1
<1>8. ASSUME NEW d \in 0..(L - 1), d \in X PROVE d + 1 \in X
  <2>1. ASSUME NEW i \in 1..L, i + (d + 1) + 1 <= L + 1 PROVE R[At(s, i + (d + 1) + 1)] < R[s[i]]
    <3>1. /\ i + 1 \in 1..L /\ (i + 1) + d + 1 <= L + 1 /\ (i + 1) + d + 1 = i + (d + 1) + 1
          /\ (i + 1) + d + 1 \in 1..(L + 1)
      BY <2>1
    <3>2. R[At(s, (i + 1) + d + 1)] < R[s[i + 1]]
      BY <1>8, <3>1
    <3>3. R[s[i + 1]] < R[s[i]]
      BY <1>3, <1>6, <3>1
    <3>4. R[At(s, (i + 1) + d + 1)] \in Int /\ R[s[i + 1]] \in Int /\ R[s[i]] \in Int
      BY SMTT(30), <1>2, <1>4, <1>5, <3>1
    <3> QED BY SMTT(30), <3>1, <3>2, <3>3, <3>4
  <2> QED BY <2>1
<1> HIDE DEF X
<1>9. \A d \in 0..L : d \in X
  BY <1>7, <1>8, UpTo0
<1>10. ASSUME NEW i \in 1..L, NEW j \in (i + 1)..(L + 1) PROVE R[At(s, j)] < R[s[i]]
  <2>1. PICK d \in 0..L : i + d + 1 = j
    <3>1. j - i - 1 \in 0..L /\ i + (j - i - 1) + 1 = j
      OBVIOUS
    <3> QED BY <3>1
  <2>2. i + d + 1 <= L + 1 => R[At(s, i + d + 1)] < R[s[i]]
    BY <1>9 DEF X
  <2> QED BY <2>1, <2>2
<1> QED BY <1>1, <1>10 DEF RanksFall

(* m new operators come before behind, and what was before leads to them.  *)
NextPut(next, next2, n, m, before, behind) ==
    /\ before \in 0..n /\ behind \in 0..n
    /\ \A y \in 1..n : \/ next2[y] = next[y]
                       \/ next2[y] = 0
                       \/ y = before /\ next2[y] = (IF m = 0 THEN behind ELSE n + 1)
    /\ \A k \in 1..m : next2[n + k] = (IF k = m THEN behind ELSE n + k + 1)

(* A list that came to an end does so then.                                *)
LEMMA RanksPut ==
  ASSUME NEW n \in Nat, NEW m \in Nat, NEW next, NEW next2, NEW before, NEW behind,
         NextPut(next, next2, n, m, before, behind),
         NEW R, NEW B, Ranks(R, B, next, n), before # 0 => R[behind] < R[before]
  PROVE  Ranked(next2, n + m)
<1>1. B \in Nat /\ R \in [0..n -> 0..B] /\ R[0] = 0
  BY DEF Ranks
<1>2. \A y \in 1..n : next[y] \in 0..n /\ R[next[y]] < R[y]
  BY DEF Ranks
<1>3. before \in 0..n /\ behind \in 0..n
  BY DEF NextPut
<1>4. \A y \in 1..n : \/ next2[y] = next[y]
                      \/ next2[y] = 0
                      \/ y = before /\ next2[y] = (IF m = 0 THEN behind ELSE n + 1)
  BY DEF NextPut
<1>5. \A k \in 1..m : next2[n + k] = (IF k = m THEN behind ELSE n + k + 1)
  BY DEF NextPut
<1>6. PICK t \in 1..(B + 1) : t = R[behind] + 1
  <2>1. R[behind] \in 0..B
    BY <1>1, <1>3
  <2>2. R[behind] + 1 \in 1..(B + 1)
    BY <1>1, <2>1
  <2> QED BY <2>2
<1> DEFINE Q == [y \in 0..(n + m) |->
                   IF y <= n THEN (IF R[y] >= t THEN R[y] + m ELSE R[y]) ELSE t + (m - (y - n))]
<1>7. ASSUME NEW y \in 0..n PROVE Q[y] = IF R[y] >= t THEN R[y] + m ELSE R[y]
  OBVIOUS
<1>8. ASSUME NEW k \in 1..m PROVE Q[n + k] = t + (m - k)
  <2>1. n + k \in 0..(n + m) /\ ~(n + k <= n) /\ (n + k) - n = k
    OBVIOUS
  <2> QED BY <2>1
<1>9. Q \in [0..(n + m) -> 0..(B + 1 + m)]
  <2>1. ASSUME NEW y \in 0..(n + m), y <= n PROVE Q[y] \in 0..(B + 1 + m)
    <3>1. y \in 0..n /\ R[y] \in 0..B
      BY <1>1, <2>1
    <3> QED BY <1>1, <1>7, <3>1
  <2>2. ASSUME NEW y \in 0..(n + m), ~(y <= n) PROVE Q[y] \in 0..(B + 1 + m)
    <3>1. y - n \in 1..m
      BY <2>2
    <3>2. Q[y] = t + (m - (y - n))
      BY <2>2
    <3> QED BY <1>1, <3>1, <3>2
  <2> HIDE DEF Q
  <2>3. \A y \in 0..(n + m) : Q[y] \in 0..(B + 1 + m)
    BY <2>1, <2>2
  <2> QED BY <2>3 DEF Q
<1> HIDE DEF Q
<1>10. Q[0] = 0
  <2>1. 0 \in 0..n
    OBVIOUS
  <2> QED BY <1>1, <1>6, <1>7, <2>1
<1>11. ASSUME NEW y \in 1..n PROVE next2[y] \in 0..(n + m) /\ Q[next2[y]] < Q[y]
  <2>1. y \in 0..n /\ R[y] \in 0..B /\ next[y] \in 0..n /\ R[next[y]] \in 0..B /\ R[next[y]] < R[y]
    BY <1>1, <1>2
  <2>2. Q[y] = IF R[y] >= t THEN R[y] + m ELSE R[y]
    BY <1>7, <2>1
  <2>3. CASE next2[y] = next[y]
    <3>1. Q[next[y]] = IF R[next[y]] >= t THEN R[next[y]] + m ELSE R[next[y]]
      BY <1>7, <2>1
    <3>2. Q[next[y]] < Q[y]
      BY <2>1, <2>2, <3>1
    <3>3. next[y] \in 0..(n + m)
      BY <2>1
    <3> QED BY <2>3, <3>2, <3>3
  <2>4. CASE next2[y] = 0
    BY <1>10, <2>1, <2>2, <2>4
  <2>5. CASE y = before /\ next2[y] = (IF m = 0 THEN behind ELSE n + 1)
    <3>1. R[behind] \in 0..B /\ R[behind] < R[y] /\ R[y] >= t /\ Q[y] = R[y] + m
      BY <1>1, <1>3, <1>6, <2>1, <2>2, <2>5
    <3>2. CASE m = 0
      <4>1. Q[behind] = R[behind]
        BY <1>3, <1>6, <1>7, <3>1
      <4>2. behind \in 0..(n + m)
        BY <1>3
      <4> QED BY <2>1, <2>5, <3>1, <3>2, <4>1, <4>2
    <3>3. CASE m # 0
      <4>1. 1 \in 1..m /\ n + 1 \in 0..(n + m)
        BY <3>3
      <4>2. Q[n + 1] = t + (m - 1)
        BY <1>8, <4>1
      <4> QED BY <2>1, <2>5, <3>1, <3>3, <4>1, <4>2
    <3> QED BY <3>2, <3>3
  <2> QED BY <1>4, <2>3, <2>4, <2>5
<1>12. ASSUME NEW k \in 1..m PROVE next2[n + k] \in 0..(n + m) /\ Q[next2[n + k]] < Q[n + k]
  <2>1. Q[n + k] = t + (m - k)
    BY <1>8
  <2>2. CASE k = m
    <3>1. next2[n + k] = behind
      BY <1>5, <2>2
    <3>2. R[behind] \in 0..B /\ Q[behind] = R[behind]
      BY <1>1, <1>3, <1>6, <1>7
    <3>3. behind \in 0..(n + m)
      BY <1>3
    <3> QED BY <1>6, <2>1, <2>2, <3>1, <3>2, <3>3
  <2>3. CASE k # m
    <3>1. k + 1 \in 1..m /\ n + (k + 1) = n + k + 1 /\ n + k + 1 \in 0..(n + m)
      BY <2>3
    <3>2. Q[n + (k + 1)] = t + (m - (k + 1))
      BY <1>8, <3>1
    <3>3. next2[n + k] = n + k + 1
      BY <1>5, <2>3
    <3> QED BY <2>1, <3>1, <3>2, <3>3
  <2> QED BY <2>2, <2>3
<1>13. ASSUME NEW y \in 1..(n + m) PROVE next2[y] \in 0..(n + m) /\ Q[next2[y]] < Q[y]
  <2>1. CASE y <= n
    <3>1. y \in 1..n
      BY <2>1
    <3> QED BY <1>11, <3>1
  <2>2. CASE ~(y <= n)
    <3>1. PICK k \in 1..m : y = n + k
      <4>1. y - n \in 1..m /\ y = n + (y - n)
        BY <2>2
      <4> QED BY <4>1
    <3>2. next2[n + k] \in 0..(n + m) /\ Q[next2[n + k]] < Q[n + k]
      BY <1>12
    <3> QED BY <3>1, <3>2
  <2> QED BY <2>1, <2>2
<1>14. B + 1 + m \in Nat
  BY <1>1
<1>15. Ranks(Q, B + 1 + m, next2, n + m)
  BY <1>9, <1>10, <1>13, <1>14 DEF Ranks
<1> QED BY <1>15 DEF Ranked

-----------------------------------------------------------------------------
(* The list as List walks it.                                              *)

(* What f has behind x, and x.                                             *)
From(f, next, x) == IF x = 0 THEN <<>> ELSE <<x>> \o f[next[x]]

(* f is where the list leads from each of n operators, and from nowhere.   *)
Leads(f, next, n) == f = [x \in 0..n |-> From(f, next, x)]

(* There is such a function when the ranks fall.                           *)
LEMMA LeadsExist ==
  ASSUME NEW n \in Nat, NEW next, NEW R, NEW B, Ranks(R, B, next, n)
  PROVE  \E f : Leads(f, next, n)
<1>1. B \in Nat /\ R \in [0..n -> 0..B]
  BY DEF Ranks
<1>2. \A y \in 1..n : next[y] \in 0..n /\ R[next[y]] < R[y]
  BY DEF Ranks
<1> DEFINE X == [0..n -> Seq(1..n)]
<1> DEFINE Next1(f) == [x \in 0..n |-> From(f, next, x)]
<1> DEFINE g == [i \in 1..(B + 2) |-> [f \in X |-> Next1(f)]]
<1>3. ASSUME NEW f \in X, NEW x \in 0..n PROVE From(f, next, x) \in Seq(1..n)
  <2>1. CASE x = 0
    BY <2>1, EmptySeq DEF From
  <2>2. CASE x # 0
    <3>1. f[next[x]] \in Seq(1..n)
      BY <1>2, <2>2
    <3>2. <<x>> \in Seq(1..n)
      BY <2>2
    <3>3. <<x>> \o f[next[x]] \in Seq(1..n)
      BY <3>1, <3>2, ConcatProperties
    <3> QED BY <2>2, <3>3 DEF From
  <2> QED BY <2>1, <2>2
<1>4. \A f \in X : Next1(f) \in X
  BY <1>3
<1>5. g \in [1..(B + 2) -> [X -> X]]
  BY <1>4
<1>6. \A i \in 1..(B + 2), f \in X : g[i][f] = Next1(f)
  OBVIOUS
<1>7. PICK none : none = [x \in 0..n |-> <<>>]
  OBVIOUS
<1>8. none \in X
  BY <1>7, EmptySeq
<1> HIDE DEF g
<1>9. PICK f : Iterates(f, B + 2, X, none, g)
  <2> HIDE DEF X
  <2>1. B + 2 \in Nat
    BY <1>1
  <2> QED BY <1>5, <1>8, <2>1, IterateExists
<1>10. f \in [0..(B + 2) -> X] /\ \A i \in 1..(B + 2) : f[i] = g[i][f[i - 1]]
  BY <1>9 DEF Iterates
<1>11. \A i \in 0..(B + 2) : f[i] \in X
  BY <1>10
<1>12. ASSUME NEW i \in 1..(B + 2) PROVE f[i] = Next1(f[i - 1])
  <2>1. i - 1 \in 0..(B + 2)
    BY <1>1
  <2>2. f[i - 1] \in X
    BY <1>11, <2>1
  <2> QED BY <1>6, <1>10, <2>2
<1>13. ASSUME NEW i \in 1..(B + 2), NEW x \in 0..n PROVE f[i][x] = From(f[i - 1], next, x)
  BY <1>12
<1> HIDE DEF X
<1> DEFINE Y == {j \in 0..(B + 1) : \A x \in 0..n : R[x] < j => f[j + 1][x] = f[j][x]}
<1>14. 0 \in Y
  <2>1. \A x \in 0..n : ~(R[x] < 0)
    BY <1>1
  <2>2. 0 \in 0..(B + 1)
    BY <1>1
  <2> QED BY <2>1, <2>2
<1>15. ASSUME NEW j \in 0..((B + 1) - 1), j \in Y PROVE j + 1 \in Y
  <2>1. ASSUME NEW x \in 0..n, R[x] < j + 1 PROVE f[(j + 1) + 1][x] = f[j + 1][x]
    <3>1. /\ j + 1 \in 1..(B + 2) /\ (j + 1) - 1 = j
          /\ (j + 1) + 1 \in 1..(B + 2) /\ ((j + 1) + 1) - 1 = j + 1
      BY <1>1
    <3>2. f[(j + 1) + 1][x] = From(f[j + 1], next, x)
      BY <1>13, <3>1
    <3>3. f[j + 1][x] = From(f[j], next, x)
      BY <1>13, <3>1
    <3>4. CASE x = 0
      BY <3>2, <3>3, <3>4 DEF From
    <3>5. CASE x # 0
      <4>1. next[x] \in 0..n /\ R[next[x]] < R[x]
        BY <1>2, <3>5
      <4>2. R[next[x]] \in 0..B /\ R[x] \in 0..B
        BY <1>1, <4>1
      <4>3. R[next[x]] < j
        BY <2>1, <4>1, <4>2
      <4>4. f[j + 1][next[x]] = f[j][next[x]]
        BY <1>15, <4>1, <4>3
      <4> QED BY <3>2, <3>3, <4>4 DEF From
    <3> QED BY <3>4, <3>5
  <2>2. j + 1 \in 0..(B + 1)
    BY <1>1
  <2> QED BY <2>1, <2>2
<1> HIDE DEF Y
<1>16. \A j \in 0..(B + 1) : j \in Y
  <2>1. \A j \in 0..((B + 1) - 1) : j \in Y => j + 1 \in Y
    BY <1>15
  <2>2. B + 1 \in Nat
    BY <1>1
  <2> QED BY <1>14, <2>1, <2>2, UpTo0
<1>17. B + 1 \in Y
  <2>1. B + 1 \in 0..(B + 1)
    BY <1>1
  <2> QED BY <1>16, <2>1
<1>18. \A x \in 0..n : f[B + 2][x] = f[B + 1][x]
  <2>1. \A x \in 0..n : R[x] < B + 1
    BY <1>1
  <2>2. (B + 1) + 1 = B + 2
    BY <1>1
  <2> QED BY <1>17, <2>1, <2>2 DEF Y
<1>19. f[B + 2] = f[B + 1]
  <2>1. f[B + 2] \in [0..n -> Seq(1..n)] /\ f[B + 1] \in [0..n -> Seq(1..n)]
    <3>1. B + 2 \in 0..(B + 2) /\ B + 1 \in 0..(B + 2)
      BY <1>1
    <3> QED BY <1>11, <3>1 DEF X
  <2> QED BY <1>18, <2>1
<1>20. f[B + 2] = Next1(f[B + 2])
  <2>1. B + 2 \in 1..(B + 2) /\ (B + 2) - 1 = B + 1
    BY <1>1
  <2> QED BY <1>12, <1>19, <2>1
<1> QED BY <1>20 DEF Leads

(* s from its element i on.                                                *)
Tail1(s, i, L) == [k \in 1..(L - i + 1) |-> s[i + k - 1]]

(* An element and the tail behind it.                                      *)
LEMMA TailGrows ==
  ASSUME NEW n \in Nat, NEW s \in Seq(1..n), NEW L \in Nat, Len(s) = L, NEW i \in 1..L
  PROVE  <<s[i]>> \o Tail1(s, i + 1, L) = Tail1(s, i, L)
<1>1. PICK d \in Nat : d = L - i
  OBVIOUS
<1>2. ASSUME NEW j \in 1..L PROVE s[j] \in 1..n
  BY <1>2, ElementOfSeq
<1>3. PICK t : t = Tail1(s, i + 1, L)
  OBVIOUS
<1>4. t \in Seq(1..n) /\ Len(t) = d /\ \A k \in 1..d : t[k] = s[i + k]
  <2>1. t = [k \in 1..d |-> s[i + k]]
    <3>1. L - (i + 1) + 1 = d /\ \A k \in 1..d : (i + 1) + k - 1 = i + k
      BY <1>1
    <3> QED BY <1>3, <3>1 DEF Tail1
  <2>2. \A k \in 1..d : i + k \in 1..L
    BY <1>1
  <2>3. t \in [1..d -> 1..n]
    BY <1>2, <2>1, <2>2
  <2> QED BY ZenonT(40), <2>1, <2>3, SeqIsFunction
<1>5. PICK u : u = Tail1(s, i, L)
  OBVIOUS
<1>6. u \in Seq(1..n) /\ Len(u) = d + 1 /\ \A k \in 1..(d + 1) : u[k] = s[i + k - 1]
  <2>1. u = [k \in 1..(d + 1) |-> s[i + k - 1]]
    <3>1. L - i + 1 = d + 1
      BY <1>1
    <3> QED BY <1>5, <3>1 DEF Tail1
  <2>2. \A k \in 1..(d + 1) : i + k - 1 \in 1..L
    BY <1>1
  <2>3. u \in [1..(d + 1) -> 1..n]
    BY <1>2, <2>1, <2>2
  <2>4. PICK e \in Nat : e = d + 1
    OBVIOUS
  <2>5. u \in [1..e -> 1..n]
    BY <2>3, <2>4
  <2>6. u \in Seq(1..n) /\ Len(u) = e
    BY <2>5, SeqIsFunction
  <2> QED BY <2>1, <2>4, <2>6
<1>7. PICK h : h = <<s[i]>>
  OBVIOUS
<1>8. h \in Seq(1..n) /\ Len(h) = 1 /\ h[1] = s[i]
  BY <1>2, <1>7
<1>9. PICK v : v = h \o t
  OBVIOUS
<1>10. JoinsAt(v, h, t, 1, d) /\ Len(v) = 1 + d /\ v \in Seq(1..n)
  <2>1. JoinsAt(h \o t, h, t, 1, d) /\ Len(h \o t) = 1 + d
    <3>1. PICK o \in Nat : o = 1
      OBVIOUS
    <3>3. PICK S : S = 1..n
      OBVIOUS
    <3>4. h \in Seq(S) /\ t \in Seq(S) /\ Len(h) = o /\ Len(t) = d
      BY <1>4, <1>8, <3>1, <3>3
    <3>2. JoinsAt(h \o t, h, t, o, d) /\ Len(h \o t) = o + d
      BY <3>4, ConcatAt
    <3> QED BY <3>1, <3>2
  <2> QED BY <1>4, <1>8, <1>9, <2>1, ConcatProperties
<1>11. v[1] = s[i] /\ \A k \in 1..d : v[1 + k] = s[i + k]
  <2>1. 1 \in 1..1
    OBVIOUS
  <2> QED BY <1>4, <1>8, <1>10, <2>1 DEF JoinsAt
<1>12. ASSUME NEW k \in 1..(d + 1) PROVE v[k] = u[k]
  <2>1. CASE k = 1
    <3>1. i + k - 1 = i
      BY <2>1
    <3> QED BY <1>6, <1>11, <2>1, <3>1
  <2>2. CASE k # 1
    <3>1. PICK l \in 1..d : k = 1 + l
      <4>1. k - 1 \in 1..d /\ k = 1 + (k - 1)
        BY <2>2
      <4> QED BY <4>1
    <3>2. i + k - 1 = i + l
      BY <3>1
    <3> QED BY <1>6, <1>11, <3>1, <3>2
  <2> QED BY <2>1, <2>2
<1>13. v = u
  <2>1. d + 1 \in Nat /\ 1 + d = d + 1
    OBVIOUS
  <2> QED BY <1>6, <1>10, <1>12, <2>1, SameSeq
<1> QED BY <1>3, <1>5, <1>7, <1>9, <1>13

(* Where there is a list along s, it is s from there on.                   *)
LEMMA LeadsAlong ==
  ASSUME NEW n \in Nat, NEW s \in Seq(1..n), NEW next, NEW prev, Linked(next, prev, s),
         NEW f, Leads(f, next, n), s # <<>>
  PROVE  f[s[1]] = s
<1>1. PICK L \in Nat \ {0} : L = Len(s)
  BY EmptySeq, LenProperties
<1>2. \A x \in 0..n : f[x] = From(f, next, x)
  <2>1. f = [x \in 0..n |-> From(f, next, x)]
    BY DEF Leads
  <2> QED BY <2>1
<1>3. \A i \in 1..L : s[i] \in 1..n /\ next[s[i]] = At(s, i + 1)
  BY <1>1, ElementOfSeq DEF Linked
<1> DEFINE X == {d \in 0..L : f[At(s, L + 1 - d)] = Tail1(s, L + 1 - d, L)}
<1>4. 0 \in X
  <2>1. L + 1 - 0 = L + 1 /\ L - (L + 1) + 1 = 0 /\ 0 \in 0..n
    OBVIOUS
  <2>2. At(s, L + 1) = 0
    BY <1>1 DEF At
  <2>3. f[0] = <<>>
    BY <1>2, <2>1 DEF From
  <2>4. Tail1(s, L + 1, L) = <<>>
    BY <2>1 DEF Tail1
  <2> QED BY <2>1, <2>2, <2>3, <2>4
<1>5. ASSUME NEW d \in 0..(L - 1), d \in X PROVE d + 1 \in X
  <2>1. PICK i \in 1..L : i = L - d
    OBVIOUS
  <2>2. L + 1 - d = i + 1 /\ L + 1 - (d + 1) = i /\ d + 1 \in 0..L
    BY <2>1
  <2>3. f[At(s, i + 1)] = Tail1(s, i + 1, L)
    BY <1>5, <2>2
  <2>4. At(s, i) = s[i] /\ s[i] \in 0..n /\ s[i] # 0 /\ next[s[i]] = At(s, i + 1)
    BY <1>1, <1>3 DEF At
  <2>5. f[s[i]] = <<s[i]>> \o f[next[s[i]]]
    BY <1>2, <2>4 DEF From
  <2>6. <<s[i]>> \o Tail1(s, i + 1, L) = Tail1(s, i, L)
    BY <1>1, TailGrows
  <2>7. f[At(s, i)] = Tail1(s, i, L)
    BY <2>3, <2>4, <2>5, <2>6
  <2> QED BY <2>2, <2>7
<1> HIDE DEF X
<1>6. L \in X
  <2>1. \A d \in 0..L : d \in X
    BY <1>4, <1>5, UpTo0
  <2> QED BY <2>1
<1>7. f[At(s, 1)] = Tail1(s, 1, L)
  <2>1. L + 1 - L = 1
    OBVIOUS
  <2> QED BY <1>6, <2>1 DEF X
<1>8. At(s, 1) = s[1]
  BY <1>1 DEF At
<1>9. Tail1(s, 1, L) = s
  <2>1. s = [k \in 1..L |-> s[k]]
    BY <1>1, LenProperties
  <2>2. L - 1 + 1 = L /\ \A k \in 1..L : 1 + k - 1 = k
    OBVIOUS
  <2> QED BY <2>1, <2>2 DEF Tail1
<1> QED BY <1>7, <1>8, <1>9

(* The operators as the list leads through them are those in s.            *)
LEMMA ListAlong ==
  ASSUME NEW n \in Nat, NEW c, Len(c.op) = n, NEW s \in Seq(1..n),
         Linked(c.next, c.prev, s), Ranked(c.next, n),
         c.kids[0] = <<>> <=> s = <<>>, s # <<>> => Head(c.kids[0]) = s[1]
  PROVE  List(c) = s
<1> DEFINE w == CHOOSE f : f = [x \in 0..Len(c.op) |-> From(f, c.next, x)]
<1>1. PICK R, B : Ranks(R, B, c.next, n)
  BY DEF Ranked
<1>2. PICK h : Leads(h, c.next, n)
  BY <1>1, LeadsExist
<1>3. w = [x \in 0..n |-> From(w, c.next, x)]
  BY <1>2 DEF Leads
<1>4. List(c) = IF c.kids[0] = <<>> THEN <<>> ELSE w[Head(c.kids[0])]
  BY DEF List, From
<1> HIDE DEF w
<1>5. CASE s = <<>>
  BY <1>4, <1>5
<1>6. CASE s # <<>>
  <2>1. Leads(w, c.next, n)
    BY <1>3 DEF Leads
  <2>2. PICK next, prev : next = c.next /\ prev = c.prev
    OBVIOUS
  <2>3. Linked(next, prev, s) /\ Leads(w, next, n)
    BY <2>1, <2>2
  <2>4. w[s[1]] = s
    BY <1>6, <2>3, LeadsAlong
  <2> QED BY <1>4, <1>6, <2>4
<1> QED BY <1>5, <1>6

-----------------------------------------------------------------------------
(* What an edit does to the list.                                          *)

(* What leads from first to last goes, and m new operators are linked      *)
(* between before and behind.                                              *)
LinksEdited(next, prev, next2, prev2, n, m, before, behind, first, last) ==
    /\ \A y \in 1..n :
         /\ next2[y] = (IF y = last THEN 0
                        ELSE IF y = before THEN (IF m = 0 THEN behind ELSE n + 1)
                        ELSE next[y])
         /\ prev2[y] = (IF y = first THEN 0
                        ELSE IF y = behind THEN (IF m = 0 THEN before ELSE n + m)
                        ELSE prev[y])
    /\ \A k \in 1..m : /\ next2[n + k] = (IF k = m THEN behind ELSE n + k + 1)
                       /\ prev2[n + k] = (IF k = 1 THEN before ELSE n + k - 1)

(* It does that where s has l elements behind the first a, and leaves u.   *)
EditAt(next, prev, next2, prev2, s, u, n, m, a, l, b) ==
    /\ NumbersPut(s, u, a, l, b, n, m)
    /\ LinksEdited(next, prev, next2, prev2, n, m, At(s, a), At(s, a + l + 1),
                   IF l = 0 THEN 0 ELSE s[a + 1], IF l = 0 THEN 0 ELSE s[a + l])

(* The links are a list that leads through s, each element once.           *)
Chained(next, prev, s, n) == IsInjective(s) /\ Linked(next, prev, s) /\ Ranked(next, n)

(* The sequence that is left has no element twice.                         *)
LEMMA InjectivePut ==
  ASSUME NEW n \in Nat, NEW m \in Nat, NEW s \in Seq(1..n), IsInjective(s), NEW u,
         NEW T, u \in Seq(T),
         NEW a \in Nat, NEW l \in Nat, NEW b \in Nat, NumbersPut(s, u, a, l, b, n, m)
  PROVE  IsInjective(u)
<1>1. /\ Len(s) = a + l + b /\ Len(u) = a + m + b
      /\ \A i \in 1..a : u[i] = s[i]
      /\ \A k \in 1..m : u[a + k] = n + k
      /\ \A i \in 1..b : u[a + m + i] = s[a + l + i]
  BY DEF NumbersPut
<1> DEFINE old(j) == IF j <= a THEN j ELSE (j - m) + l
<1>2. ASSUME NEW j \in 1..(a + m + b), j <= a \/ a + m < j
      PROVE  old(j) \in 1..(a + l + b) /\ u[j] = s[old(j)] /\ u[j] \in 1..n
  <2>1. old(j) \in 1..(a + l + b)
    BY <1>2
  <2>2. u[j] = s[old(j)]
    <3>1. CASE j <= a
      <4>1. j \in 1..a
        BY <3>1
      <4> QED BY <1>1, <3>1, <4>1
    <3>2. CASE a + m < j
      <4>1. PICK i \in 1..b : j = a + m + i
        <5>1. j - (a + m) \in 1..b /\ j = a + m + (j - (a + m))
          BY <3>2
        <5> QED BY <5>1
      <4>2. u[j] = s[a + l + i]
        BY <1>1, <4>1
      <4>3. old(j) = a + l + i
        BY <4>1
      <4> QED BY <4>2, <4>3
    <3> QED BY <1>2, <3>1, <3>2
  <2>3. s[old(j)] \in 1..n
    BY <1>1, <2>1, ElementOfSeq
  <2> QED BY <2>1, <2>2, <2>3
<1>6. ASSUME NEW j \in 1..(a + m + b), ~(j <= a \/ a + m < j)
      PROVE  u[j] = n + (j - a) /\ u[j] > n
  <2>1. PICK k \in 1..m : j = a + k
    <3>1. j - a \in 1..m /\ j = a + (j - a)
      BY <1>6
    <3> QED BY <3>1
  <2>2. u[j] = n + k
    BY <1>1, <2>1
  <2> QED BY <2>1, <2>2
<1>3. \A i, j \in 1..(a + l + b) : s[i] = s[j] => i = j
  BY <1>1, LenProperties DEF IsInjective
<1>4. ASSUME NEW i \in 1..(a + m + b), NEW j \in 1..(a + m + b), u[i] = u[j] PROVE i = j
  <2>1. CASE (i <= a \/ a + m < i) /\ (j <= a \/ a + m < j)
    <3>1. old(i) \in 1..(a + l + b) /\ u[i] = s[old(i)]
      BY <1>2, <2>1
    <3>2. old(j) \in 1..(a + l + b) /\ u[j] = s[old(j)]
      BY <1>2, <2>1
    <3> HIDE DEF old
    <3>3. old(i) = old(j)
      BY <1>3, <1>4, <3>1, <3>2
    <3> QED BY <2>1, <3>3 DEF old
  <2>2. CASE ~(i <= a \/ a + m < i) /\ ~(j <= a \/ a + m < j)
    <3> HIDE DEF old
    <3>1. u[i] = n + (i - a) /\ u[j] = n + (j - a)
      BY <1>6, <2>2
    <3>2. n + (i - a) = n + (j - a)
      BY <1>4, <3>1
    <3>3. i \in Int /\ j \in Int
      OBVIOUS
    <3> QED BY <3>2, <3>3
  <2>3. CASE (i <= a \/ a + m < i) /\ ~(j <= a \/ a + m < j)
    <3>1. u[i] \in 1..n /\ u[j] > n
      BY <1>2, <1>6, <2>3
    <3> QED BY <1>4, <3>1
  <2>4. CASE ~(i <= a \/ a + m < i) /\ (j <= a \/ a + m < j)
    <3>1. u[j] \in 1..n /\ u[i] > n
      BY <1>2, <1>6, <2>4
    <3> QED BY <1>4, <3>1
  <2> QED BY <2>1, <2>2, <2>3, <2>4
<1>5. DOMAIN u = 1..(a + m + b)
  BY <1>1, LenProperties
<1> QED BY <1>4, <1>5 DEF IsInjective

(* The links that are left lead along the sequence that is left.           *)
LEMMA LinksOfEdit ==
  ASSUME NEW n \in Nat, NEW m \in Nat, NEW s \in Seq(1..n), IsInjective(s),
         NEW next, NEW prev, NEW next2, NEW prev2, NEW u,
         NEW a \in Nat, NEW l \in Nat, NEW b \in Nat,
         EditAt(next, prev, next2, prev2, s, u, n, m, a, l, b)
  PROVE  LinksPut(next, prev, next2, prev2, s, a, l, b, n, m)
<1>1. Len(s) = a + l + b
  BY DEF EditAt, NumbersPut
<1>2. \A i \in 1..(a + l + b) : s[i] \in 1..n
  BY <1>1, ElementOfSeq
<1>3. \A i, j \in 1..(a + l + b) : s[i] = s[j] => i = j
  BY <1>1, LenProperties DEF IsInjective
<1>4. PICK before, behind, first, last :
        /\ before = At(s, a) /\ behind = At(s, a + l + 1)
        /\ first = (IF l = 0 THEN 0 ELSE s[a + 1]) /\ last = (IF l = 0 THEN 0 ELSE s[a + l])
  OBVIOUS
<1>5. LinksEdited(next, prev, next2, prev2, n, m, before, behind, first, last)
  BY <1>4 DEF EditAt
<1>6. \A y \in 1..n :
         /\ next2[y] = (IF y = last THEN 0
                        ELSE IF y = before THEN (IF m = 0 THEN behind ELSE n + 1)
                        ELSE next[y])
         /\ prev2[y] = (IF y = first THEN 0
                        ELSE IF y = behind THEN (IF m = 0 THEN before ELSE n + m)
                        ELSE prev[y])
  BY <1>5 DEF LinksEdited
<1>7. \A k \in 1..m : /\ next2[n + k] = (IF k = m THEN behind ELSE n + k + 1)
                      /\ prev2[n + k] = (IF k = 1 THEN before ELSE n + k - 1)
  BY <1>5 DEF LinksEdited
<1>8. \/ a = 0 /\ before = 0
      \/ a \in 1..(a + l + b) /\ before = s[a]
  <2>1. a = 0 \/ a \in 1..(a + l + b)
    OBVIOUS
  <2>2. CASE a = 0
    <3>1. ~(a \in 1..Len(s))
      BY <2>2
    <3>2. At(s, a) = 0
      BY <3>1 DEF At
    <3> QED BY <1>4, <2>2, <3>2
  <2>3. CASE a \in 1..(a + l + b)
    BY <1>1, <1>4, <2>3 DEF At
  <2> QED BY <2>1, <2>2, <2>3
<1>9. \/ b = 0 /\ behind = 0
      \/ b # 0 /\ a + l + 1 \in 1..(a + l + b) /\ behind = s[a + l + 1]
  <2>1. CASE b = 0
    <3>1. ~(a + l + 1 \in 1..Len(s))
      BY <1>1, <2>1
    <3>2. At(s, a + l + 1) = 0
      BY <3>1 DEF At
    <3> QED BY <1>4, <2>1, <3>2
  <2>2. CASE b # 0
    <3>1. a + l + 1 \in 1..(a + l + b)
      BY <2>2
    <3> QED BY <1>1, <1>4, <2>2, <3>1 DEF At
  <2> QED BY <2>1, <2>2
<1>10. \/ l = 0 /\ first = 0 /\ last = 0
       \/ /\ l # 0 /\ first = s[a + 1] /\ last = s[a + l]
          /\ a + 1 \in 1..(a + l + b) /\ a + l \in 1..(a + l + b)
  BY <1>4
<1>11. ASSUME NEW i \in 1..(a + l + b)
       PROVE  /\ s[i] = before <=> a # 0 /\ i = a
              /\ s[i] = behind <=> b # 0 /\ i = a + l + 1
              /\ s[i] = first <=> l # 0 /\ i = a + 1
              /\ s[i] = last <=> l # 0 /\ i = a + l
  <2>1. s[i] \in 1..n /\ s[i] # 0
    BY <1>2
  <2>2. s[i] = before <=> a # 0 /\ i = a
    BY <1>3, <1>8, <2>1
  <2>3. s[i] = behind <=> b # 0 /\ i = a + l + 1
    BY <1>3, <1>9, <2>1
  <2>4. s[i] = first <=> l # 0 /\ i = a + 1
    BY <1>3, <1>10, <2>1
  <2>5. s[i] = last <=> l # 0 /\ i = a + l
    BY <1>3, <1>10, <2>1
  <2> QED BY <2>2, <2>3, <2>4, <2>5
<1>12. ASSUME NEW i \in 1..(a + l + b)
       PROVE  /\ next2[s[i]] = (IF l # 0 /\ i = a + l THEN 0
                                ELSE IF a # 0 /\ i = a THEN (IF m = 0 THEN behind ELSE n + 1)
                                ELSE next[s[i]])
              /\ prev2[s[i]] = (IF l # 0 /\ i = a + 1 THEN 0
                                ELSE IF b # 0 /\ i = a + l + 1 THEN (IF m = 0 THEN before ELSE n + m)
                                ELSE prev[s[i]])
  <2>1. s[i] \in 1..n
    BY <1>2
  <2> QED BY <1>6, <1>11, <2>1
<1>13. \A i \in 1..(a - 1) : next2[s[i]] = next[s[i]]
  <2>1. \A i \in 1..(a - 1) : i \in 1..(a + l + b) /\ ~(l # 0 /\ i = a + l) /\ ~(a # 0 /\ i = a)
    OBVIOUS
  <2> QED BY <1>12, <2>1
<1>14. a # 0 => next2[s[a]] = (IF m # 0 THEN n + 1 ELSE At(s, a + l + 1))
  <2>1. a # 0 => a \in 1..(a + l + b) /\ ~(l # 0 /\ a = a + l)
    OBVIOUS
  <2> QED BY <1>4, <1>12, <2>1
<1>15. \A i \in 1..b : next2[s[a + l + i]] = next[s[a + l + i]]
  <2>1. \A i \in 1..b : /\ a + l + i \in 1..(a + l + b) /\ ~(l # 0 /\ a + l + i = a + l)
                        /\ ~(a # 0 /\ a + l + i = a)
    OBVIOUS
  <2> QED BY <1>12, <2>1
<1>16. \A i \in 1..a : prev2[s[i]] = prev[s[i]]
  <2>1. \A i \in 1..a : /\ i \in 1..(a + l + b) /\ ~(l # 0 /\ i = a + 1)
                        /\ ~(b # 0 /\ i = a + l + 1)
    OBVIOUS
  <2> QED BY <1>12, <2>1
<1>17. b # 0 => prev2[s[a + l + 1]] = (IF m # 0 THEN n + m ELSE At(s, a))
  <2>1. b # 0 => a + l + 1 \in 1..(a + l + b) /\ ~(l # 0 /\ a + l + 1 = a + 1)
    OBVIOUS
  <2> QED BY <1>4, <1>12, <2>1
<1>18. \A i \in 2..b : prev2[s[a + l + i]] = prev[s[a + l + i]]
  <2>1. \A i \in 2..b : /\ a + l + i \in 1..(a + l + b) /\ ~(l # 0 /\ a + l + i = a + 1)
                        /\ ~(b # 0 /\ a + l + i = a + l + 1)
    OBVIOUS
  <2> QED BY <1>12, <2>1
<1>19. \A k \in 1..m : next2[n + k] = (IF k # m THEN n + k + 1 ELSE At(s, a + l + 1))
  BY <1>4, <1>7
<1>20. \A k \in 1..m : prev2[n + k] = (IF k # 1 THEN n + k - 1 ELSE At(s, a))
  BY <1>4, <1>7
<1> QED BY <1>13, <1>14, <1>15, <1>16, <1>17, <1>18, <1>19, <1>20 DEF LinksPut

(* So the list stays one.                                                  *)
LEMMA ChainedPut ==
  ASSUME NEW n \in Nat, NEW m \in Nat, NEW s \in Seq(1..n),
         NEW next, NEW prev, Chained(next, prev, s, n),
         NEW next2, NEW prev2, NEW T, NEW u \in Seq(T),
         NEW a \in Nat, NEW l \in Nat, NEW b \in Nat,
         EditAt(next, prev, next2, prev2, s, u, n, m, a, l, b)
  PROVE  Chained(next2, prev2, u, n + m)
<1>1. IsInjective(s) /\ Linked(next, prev, s) /\ Ranked(next, n)
  BY DEF Chained
<1>2. NumbersPut(s, u, a, l, b, n, m)
  BY DEF EditAt
<1>3. IsInjective(u)
  BY <1>1, <1>2, InjectivePut
<1>4. Linked(next2, prev2, u)
  <2>1. LinksPut(next, prev, next2, prev2, s, a, l, b, n, m)
    BY <1>1, LinksOfEdit
  <2> QED BY <1>1, <1>2, <2>1, LinkedPut
<1>5. PICK before, behind, first, last :
        /\ before = At(s, a) /\ behind = At(s, a + l + 1)
        /\ first = (IF l = 0 THEN 0 ELSE s[a + 1]) /\ last = (IF l = 0 THEN 0 ELSE s[a + l])
  OBVIOUS
<1>6. LinksEdited(next, prev, next2, prev2, n, m, before, behind, first, last)
  BY <1>5 DEF EditAt
<1>7. Len(s) = a + l + b
  BY <1>2 DEF NumbersPut
<1>8. before \in 0..n /\ behind \in 0..n
  <2>1. \A i \in 1..(a + l + b) : s[i] \in 1..n
    BY <1>7, ElementOfSeq
  <2> QED BY SMTT(30), <1>5, <1>7, <2>1 DEF At
<1>9. NextPut(next, next2, n, m, before, behind)
  <2>1. ASSUME NEW y \in 1..n
        PROVE  \/ next2[y] = next[y]
               \/ next2[y] = 0
               \/ y = before /\ next2[y] = (IF m = 0 THEN behind ELSE n + 1)
    BY <1>6 DEF LinksEdited
  <2>2. \A k \in 1..m : next2[n + k] = (IF k = m THEN behind ELSE n + k + 1)
    BY <1>6 DEF LinksEdited
  <2> QED BY <1>8, <2>1, <2>2 DEF NextPut
<1>10. PICK R, B : Ranks(R, B, next, n)
  BY <1>1 DEF Ranked
<1>11. ASSUME before # 0 PROVE R[behind] < R[before]
  <2>1. a \in 1..(a + l + b) /\ before = s[a]
    BY <1>5, <1>7, <1>11 DEF At
  <2>2. a + l + 1 \in (a + 1)..(a + l + b + 1)
    OBVIOUS
  <2>3. RanksFall(R, s)
    BY <1>1, <1>10, RanksFallAlong
  <2>4. R[At(s, a + l + 1)] < R[s[a]]
    BY <1>7, <2>1, <2>2, <2>3 DEF RanksFall
  <2> QED BY <1>5, <2>1, <2>4
<1>12. Ranked(next2, n + m)
  BY <1>8, <1>9, <1>10, <1>11, RanksPut
<1> QED BY <1>3, <1>4, <1>12 DEF Chained

-----------------------------------------------------------------------------
(* The list after an edit of one place.                                    *)

(* Sequences around one place, number by number.                           *)
PlacedAt(s, u, X, a, l, b, n, m) ==
    /\ a \in Nat /\ l \in Nat /\ b \in Nat /\ l = Len(X)
    /\ NumbersPut(s, u, a, l, b, n, m)
    /\ \A i \in 1..l : s[a + i] = X[i]

(* What is around a place is so.                                           *)
LEMMA PlacedNumbers ==
  ASSUME NEW n \in Nat, NEW m \in Nat, NEW S, NEW A \in Seq(S), NEW X \in Seq(S), NEW B \in Seq(S),
         NEW Y \in Seq(S), Y = NewOnes(n, m)
  PROVE  \E a, l, b : /\ PlacedAt(Cat(Cat(A, X), B), Cat(Cat(A, Y), B), X, a, l, b, n, m)
                      /\ a = Len(A)
<1>1. PICK a \in Nat, l \in Nat, b \in Nat : a = Len(A) /\ l = Len(X) /\ b = Len(B)
  BY LenProperties
<1>2. Len(Y) = m /\ \A k \in 1..m : Y[k] = n + k
  <2>1. DOMAIN Y = 1..m
    BY DEF NewOnes
  <2>2. Len(Y) \in Nat /\ DOMAIN Y = 1..Len(Y)
    BY LenProperties
  <2>3. Len(Y) = m
    BY <2>1, <2>2
  <2> QED BY <2>3 DEF NewOnes
<1>3. ASSUME NEW Z \in Seq(S), NEW d \in Nat, Len(Z) = d
      PROVE  /\ Len(Cat(Cat(A, Z), B)) = a + d + b
             /\ \A i \in 1..a : Cat(Cat(A, Z), B)[i] = A[i]
             /\ \A k \in 1..d : Cat(Cat(A, Z), B)[a + k] = Z[k]
             /\ \A i \in 1..b : Cat(Cat(A, Z), B)[a + d + i] = B[i]
  <2>1. PICK v, w : v = A \o Z /\ w = v \o B
    OBVIOUS
  <2>2. v \in Seq(S)
    BY <2>1, ConcatProperties
  <2>3. JoinsAt(A \o Z, A, Z, a, d) /\ Len(A \o Z) = a + d
    <3>1. A \in Seq(S) /\ Z \in Seq(S) /\ a \in Nat /\ d \in Nat /\ Len(A) = a /\ Len(Z) = d
      BY <1>1, <1>3
    <3> QED BY <3>1, ConcatAt
  <2>4. JoinsAt(v, A, Z, a, d) /\ Len(v) = a + d
    BY <2>1, <2>3
  <2>5. PICK e \in Nat : e = a + d
    OBVIOUS
  <2>6. JoinsAt(v \o B, v, B, e, b) /\ Len(v \o B) = e + b
    <3>1. v \in Seq(S) /\ B \in Seq(S) /\ e \in Nat /\ b \in Nat /\ Len(v) = e /\ Len(B) = b
      BY <1>1, <2>2, <2>4, <2>5
    <3> QED BY <3>1, ConcatAt
  <2>7. JoinsAt(w, v, B, e, b) /\ Len(w) = e + b
    BY <2>1, <2>6
  <2>8. w = Cat(Cat(A, Z), B)
    BY <2>1 DEF Cat
  <2>9. \A i \in 1..a : w[i] = A[i]
    BY SMTT(30), <2>4, <2>5, <2>7 DEF JoinsAt
  <2>10. \A k \in 1..d : w[a + k] = Z[k]
    <3>1. \A k \in 1..d : a + k \in 1..e
      BY <2>5
    <3> QED BY <2>4, <2>7, <3>1 DEF JoinsAt
  <2>11. \A i \in 1..b : w[a + d + i] = B[i]
    BY <2>5, <2>7 DEF JoinsAt
  <2> QED BY <2>5, <2>7, <2>8, <2>9, <2>10, <2>11
<1>4. PICK s, u : s = Cat(Cat(A, X), B) /\ u = Cat(Cat(A, Y), B)
  OBVIOUS
<1>5. /\ Len(s) = a + l + b
      /\ \A i \in 1..a : s[i] = A[i]
      /\ \A k \in 1..l : s[a + k] = X[k]
      /\ \A i \in 1..b : s[a + l + i] = B[i]
  BY ZenonT(90), <1>1, <1>3, <1>4
<1>6. /\ Len(u) = a + m + b
      /\ \A i \in 1..a : u[i] = A[i]
      /\ \A k \in 1..m : u[a + k] = Y[k]
      /\ \A i \in 1..b : u[a + m + i] = B[i]
  BY <1>2, <1>3, <1>4
<1>7. NumbersPut(s, u, a, l, b, n, m)
  BY <1>2, <1>5, <1>6 DEF NumbersPut
<1>8. PlacedAt(s, u, X, a, l, b, n, m)
  BY <1>1, <1>5, <1>7 DEF PlacedAt
<1> QED BY <1>1, <1>4, <1>8

(* New operators come in the place of some, or they go.                    *)
LEMMA ReplacedChained ==
  ASSUME NEW n \in Nat, NEW m \in Nat, NEW s \in Seq(1..n),
         NEW next, NEW prev, Chained(next, prev, s, n), NEW next2, NEW prev2, NEW u,
         NEW S, NEW X \in Seq(S), X # <<>>, NEW Y \in Seq(S), Y = NewOnes(n, m),
         Around(S, s, u, X, Y), NEW first, NEW last, first = X[1], last = Last(X),
         LinksEdited(next, prev, next2, prev2, n, m, prev[first], next[last], first, last)
  PROVE  Chained(next2, prev2, u, n + m)
<1>1. PICK A \in Seq(S), B \in Seq(S) : s = Cat(Cat(A, X), B) /\ u = Cat(Cat(A, Y), B)
  BY Zenon DEF Around
<1>2. PICK a, l, b : PlacedAt(s, u, X, a, l, b, n, m)
  BY <1>1, PlacedNumbers
<1>3. /\ a \in Nat /\ l \in Nat /\ b \in Nat /\ l = Len(X)
      /\ NumbersPut(s, u, a, l, b, n, m)
      /\ \A i \in 1..l : s[a + i] = X[i]
  BY <1>2 DEF PlacedAt
<1>4. l # 0
  BY <1>3, EmptySeq
<1>5. u \in Seq(S)
  <2>1. \A v, w \in Seq(S) : Cat(v, w) \in Seq(S)
    BY Zenon, CatFacts
  <2> QED BY Zenon, <1>1, <2>1
<1>6. first = s[a + 1] /\ last = s[a + l]
  <2>1. 1 \in 1..l /\ l \in 1..l
    BY <1>3, <1>4
  <2>2. Last(X) = X[l]
    BY <1>3 DEF Last
  <2> QED BY <1>3, <2>1, <2>2
<1>7. Len(s) = a + l + b
  BY <1>3 DEF NumbersPut
<1>8. prev[first] = At(s, a) /\ next[last] = At(s, a + l + 1)
  <2>1. \A i \in 1..Len(s) : next[s[i]] = At(s, i + 1) /\ prev[s[i]] = At(s, i - 1)
    BY DEF Chained, Linked
  <2>2. a + 1 \in 1..Len(s) /\ a + l \in 1..Len(s) /\ (a + 1) - 1 = a
    BY <1>3, <1>4, <1>7
  <2> QED BY <1>6, <2>1, <2>2
<1>9. EditAt(next, prev, next2, prev2, s, u, n, m, a, l, b)
  BY <1>3, <1>4, <1>6, <1>8 DEF EditAt
<1> QED BY <1>3, <1>5, <1>9, ChainedPut

(* New operators come behind some.                                         *)
LEMMA InsertedChained ==
  ASSUME NEW n \in Nat, NEW m \in Nat, NEW s \in Seq(1..n),
         NEW next, NEW prev, Chained(next, prev, s, n), NEW next2, NEW prev2, NEW u,
         NEW S, NEW X \in Seq(S), X # <<>>, NEW Y \in Seq(S), Y = NewOnes(n, m),
         Around(S, s, u, X, Cat(X, Y)), NEW last, last = Last(X),
         LinksEdited(next, prev, next2, prev2, n, m, last, next[last], 0, 0)
  PROVE  Chained(next2, prev2, u, n + m)
<1>1. PICK A \in Seq(S), B \in Seq(S) : s = Cat(Cat(A, X), B) /\ u = Cat(Cat(A, Cat(X, Y)), B)
  BY Zenon DEF Around
<1>2. \A v, w \in Seq(S) : Cat(v, w) \in Seq(S)
  BY Zenon, CatFacts
<1>3. Joins(A, X, Y)
  BY Zenon, JoinsAll
<1>4. \A v \in Seq(S) : Cat(v, <<>>) = v
  BY Zenon, CatFacts
<1>5. PICK C : C = Cat(A, X)
  OBVIOUS
<1>6. C \in Seq(S) /\ u \in Seq(S)
  BY Zenon, <1>1, <1>2, <1>5
<1>7. s = Cat(Cat(C, <<>>), B) /\ u = Cat(Cat(C, Y), B)
  BY Zenon, <1>1, <1>3, <1>4, <1>5, <1>6 DEF Joins
<1>8. PICK a, l, b : PlacedAt(s, u, <<>>, a, l, b, n, m) /\ a = Len(C)
  <2>1. PICK none \in Seq(S) : none = <<>>
    BY EmptySeq
  <2>2. s = Cat(Cat(C, none), B)
    BY Zenon, <1>7, <2>1
  <2>3. PICK a, l, b : PlacedAt(s, u, none, a, l, b, n, m) /\ a = Len(C)
    BY SMTT(30), <1>6, <1>7, <2>2, PlacedNumbers
  <2> QED BY <2>1, <2>3
<1>9. a \in Nat /\ l = 0 /\ l \in Nat /\ b \in Nat /\ NumbersPut(s, u, a, l, b, n, m)
  BY <1>8 DEF PlacedAt
<1>10. a # 0 /\ s[a] = last
  <2>1. PICK i \in Nat, j \in Nat : i = Len(A) /\ j = Len(X)
    BY LenProperties
  <2>2. j # 0
    BY <2>1, EmptySeq
  <2>3. JoinsAt(A \o X, A, X, i, j) /\ Len(A \o X) = i + j
    BY <2>1, ConcatAt
  <2>4. JoinsAt(C, A, X, i, j) /\ Len(C) = i + j
    BY <1>5, <2>3 DEF Cat
  <2>5. C[a] = X[j]
    <3>1. j \in 1..j /\ a = i + j
      BY <1>8, <2>2, <2>4
    <3> QED BY <2>4, <3>1 DEF JoinsAt
  <2>6. X[j] = last
    BY <2>1 DEF Last
  <2>7. s = C \o B
    BY <1>1, <1>5 DEF Cat
  <2>8. PICK k \in Nat : k = Len(B)
    BY LenProperties
  <2>9. JoinsAt(C \o B, C, B, a, k)
    BY <1>6, <1>8, <1>9, <2>8, ConcatAt
  <2>10. a \in 1..a
    BY <1>9, <1>8, <2>2, <2>4
  <2>11. s[a] = C[a]
    BY <2>7, <2>9, <2>10 DEF JoinsAt
  <2> QED BY <2>5, <2>6, <2>10, <2>11
<1>11. Len(s) = a + b
  BY <1>9 DEF NumbersPut
<1>12. last = At(s, a) /\ next[last] = At(s, a + l + 1)
  <2>1. \A i \in 1..Len(s) : next[s[i]] = At(s, i + 1) /\ prev[s[i]] = At(s, i - 1)
    BY DEF Chained, Linked
  <2>2. a \in 1..Len(s) /\ a + l + 1 = a + 1
    BY <1>9, <1>10, <1>11
  <2> QED BY SMTT(30), <1>10, <2>1, <2>2 DEF At
<1>13. EditAt(next, prev, next2, prev2, s, u, n, m, a, l, b)
  BY <1>9, <1>12 DEF EditAt
<1> QED BY <1>6, <1>9, <1>13, ChainedPut

(* New operators come before all.                                          *)
LEMMA FrontChained ==
  ASSUME NEW n \in Nat, NEW m \in Nat, NEW S, NEW s \in Seq(1..n), s \in Seq(S),
         NEW next, NEW prev, Chained(next, prev, s, n), NEW next2, NEW prev2, NEW u,
         NEW Y \in Seq(S), Y = NewOnes(n, m), u = Cat(Y, s),
         LinksEdited(next, prev, next2, prev2, n, m, 0, At(s, 1), 0, 0)
  PROVE  Chained(next2, prev2, u, n + m)
<1>1. PICK none \in Seq(S) : none = <<>>
  BY EmptySeq
<1>2. \A v, w \in Seq(S) : Cat(v, w) \in Seq(S)
  BY Zenon, CatFacts
<1>3. \A v \in Seq(S) : Cat(<<>>, v) = v
  BY Zenon, CatFacts
<1>4. s = Cat(Cat(none, none), s) /\ u = Cat(Cat(none, Y), s)
  BY Zenon, <1>1, <1>3
<1>5. PICK a, l, b : PlacedAt(s, u, none, a, l, b, n, m) /\ a = Len(none)
  BY <1>4, PlacedNumbers
<1>6. a = 0 /\ l = 0 /\ a \in Nat /\ l \in Nat /\ b \in Nat /\ NumbersPut(s, u, a, l, b, n, m)
  BY <1>1, <1>5 DEF PlacedAt
<1>7. At(s, a) = 0 /\ a + l + 1 = 1
  BY <1>6 DEF At
<1>8. EditAt(next, prev, next2, prev2, s, u, n, m, a, l, b)
  BY <1>6, <1>7 DEF EditAt
<1>9. u \in Seq(S)
  BY Zenon, <1>2
<1> QED BY <1>6, <1>8, <1>9, ChainedPut

-----------------------------------------------------------------------------
(* The parts of a content stream after each of the edits.                  *)

(* d is c with other kids of p and the operators of w behind its own.  If  *)
(* the list is not cut, they are linked between before and behind, and     *)
(* what leads from first to last has gone.                                 *)
EditParts(d, c, w, n, m, p, ks, before, behind, first, last) ==
    /\ d.kids[p] = ks /\ \A y \in 0..n : y # p => d.kids[y] = c.kids[y]
    /\ \A q \in 1..m : d.kids[n + q] = ShiftAll(TreeOf(w).kids[q], n)
    /\ \A y \in 1..n : d.op[y] = c.op[y]
    /\ \A k \in 1..m : d.op[n + k] = w[k]
    /\ ~d.cut => /\ ~c.cut
                 /\ LinksEdited(c.next, c.prev, d.next, d.prev, n, m, before, behind, first, last)

(* l is links with one more.                                               *)
LinkPut(l, links, from, to, n) ==
    /\ l \in [1..n -> 0..n]
    /\ \A y \in 1..n : l[y] = IF y = from THEN to ELSE links[y]

(* Link puts it there.                                                     *)
LEMMA LinkAt ==
  ASSUME NEW n \in Nat, NEW links \in [1..n -> 0..n], NEW from \in 0..n, NEW to \in 0..n
  PROVE  LinkPut(Link(links, from, to), links, from, to, n)
<1>1. CASE from = 0
  BY <1>1 DEF Link, LinkPut
<1>2. CASE from # 0
  BY <1>2 DEF Link, LinkPut
<1> QED BY <1>1, <1>2

(* Those of deleteOperator.                                                *)
LEMMA DeletedParts ==
  ASSUME NEW T, NEW n \in Nat, NEW c, Sound(c, T, n), NEW x \in 1..n, NEW p \in 0..n,
         NEW last, last = LastBelow(c, x)
  PROVE  EditParts(Deleted(c, x, p), c, <<>>, n, 0, p, RemoveFirst(c.kids[p], x),
                   c.prev[x], c.next[last], x, last)
<1>2. /\ c \in ContentStreams(T, n)
      /\ c.kids \in [0..n -> Seq(1..n)] /\ KidsNewer(c.kids, n)
      /\ c.next \in [1..n -> 0..n] /\ c.prev \in [1..n -> 0..n]
  BY SoundParts
<1>3. last \in 1..n
  <2>1. x \in 0..n
    OBVIOUS
  <2>2. LastBelow(c, x) \in x..n
    BY <1>2, <2>1, BelowType
  <2> QED BY <2>2
<1>4. PICK kids, next, prev, before, behind, cn, cp :
        /\ before = c.prev[x] /\ behind = c.next[last] /\ cn = c.next /\ cp = c.prev
        /\ kids = [c.kids EXCEPT ![p] = RemoveFirst(@, x)]
        /\ next = [Link(c.next, c.prev[x], c.next[last]) EXCEPT ![last] = 0]
        /\ prev = [Link(c.prev, c.next[last], c.prev[x]) EXCEPT ![x] = 0]
  OBVIOUS
<1>5. before \in 0..n /\ behind \in 0..n /\ cn \in [1..n -> 0..n] /\ cp \in [1..n -> 0..n]
  BY <1>2, <1>3, <1>4
<1>6. \A y \in 1..n : next[y] = (IF y = last THEN 0 ELSE IF y = before THEN behind ELSE cn[y])
  <2>1. PICK l : l = Link(cn, before, behind)
    OBVIOUS
  <2>2. l \in [1..n -> 0..n] /\ \A y \in 1..n : l[y] = IF y = before THEN behind ELSE cn[y]
    <3>1. LinkPut(l, cn, before, behind, n)
      BY <1>5, <2>1, LinkAt
    <3> QED BY <3>1 DEF LinkPut
  <2>3. next = [l EXCEPT ![last] = 0]
    BY <1>4, <2>1
  <2> QED BY <2>2, <2>3
<1>7. \A y \in 1..n : prev[y] = (IF y = x THEN 0 ELSE IF y = behind THEN before ELSE cp[y])
  <2>1. PICK l : l = Link(cp, behind, before)
    OBVIOUS
  <2>2. l \in [1..n -> 0..n] /\ \A y \in 1..n : l[y] = IF y = behind THEN before ELSE cp[y]
    <3>1. LinkPut(l, cp, behind, before, n)
      BY <1>5, <2>1, LinkAt
    <3> QED BY <3>1 DEF LinkPut
  <2>3. prev = [l EXCEPT ![x] = 0]
    BY <1>4, <2>1
  <2> QED BY <2>2, <2>3
<1>8. PICK d : d = Deleted(c, x, p)
  OBVIOUS
<1>9. d = [c EXCEPT !.kids = kids, !.next = next, !.prev = prev]
  <2>1. d = DeletedTo(c, x, p, last)
    BY <1>8 DEF Deleted
  <2>2. DeletedTo(c, x, p, last) = [c EXCEPT !.kids = kids, !.next = next, !.prev = prev]
    BY <1>4, Zenon DEF DeletedTo
  <2> QED BY <2>1, <2>2
<1>10. d.kids = kids /\ d.next = next /\ d.prev = prev /\ d.op = c.op /\ d.cut = c.cut
  BY <1>2, <1>9 DEF ContentStreams
<1>11. LinksEdited(cn, cp, next, prev, n, 0, before, behind, x, last)
  BY <1>6, <1>7 DEF LinksEdited
<1>12. kids[p] = RemoveFirst(c.kids[p], x) /\ \A y \in 0..n : y # p => kids[y] = c.kids[y]
  BY <1>2, <1>4
<1> QED BY <1>4, <1>8, <1>10, <1>11, <1>12 DEF EditParts

(* Those of replaceOperator.                                               *)
LEMMA ReplacedParts ==
  ASSUME NEW T, NEW n \in Nat, NEW c, Sound(c, T, n), NEW x \in 1..n, NEW p \in 0..n,
         NEW w \in Seq(Operators), NEW m \in Nat \ {0}, Len(w) = m,
         NEW last, last = LastBelow(c, x)
  PROVE  EditParts(Replaced(c, x, p, w), c, w, n, m, p, RemoveFirst(After(c.kids[p], x, n + 1), x),
                   c.prev[x], c.next[last], x, last)
<1>1. PICK N \in Nat : N = n + m
  OBVIOUS
<1>2. /\ c.kids \in [0..n -> Seq(1..n)] /\ KidsNewer(c.kids, n)
      /\ c.next \in [1..n -> 0..n] /\ c.prev \in [1..n -> 0..n]
  BY SoundParts
<1>3. last \in 1..n
  <2>1. x \in 0..n
    OBVIOUS
  <2>2. LastBelow(c, x) \in x..n
    BY <1>2, <2>1, BelowType
  <2> QED BY <2>2
<1>4. PICK e : e = WithOwn(c, w)
  OBVIOUS
<1>5. BesideOf(e, c, w, n, m)
  BY <1>4, BesideParts
<1>6. EditOf(e, c, T, N) /\ NewAt(c) = n + 1 /\ LastNewAt(c, w) = N
  <2>1. NewBeside(c, w, T, n, m)
    BY BesideSound
  <2> QED BY <1>1, <1>4, <2>1 DEF NewBeside
<1>7. /\ e \in ContentStreams(T, N) /\ e.kids \in [0..N -> Seq(1..N)]
      /\ e.next \in [1..N -> 0..N] /\ e.prev \in [1..N -> 0..N]
  <2>1. Sound(e, T, N)
    BY <1>6 DEF EditOf
  <2> QED BY <2>1, SoundParts
<1>8. PICK en, ep, cn, cp, before, behind :
        /\ en = e.next /\ ep = e.prev /\ cn = c.next /\ cp = c.prev
        /\ before = c.prev[x] /\ behind = c.next[last]
  OBVIOUS
<1>9. /\ \A y \in 1..n : en[y] = cn[y] /\ ep[y] = cp[y]
      /\ \A k \in 1..m : /\ en[n + k] = (IF k = m THEN 0 ELSE n + k + 1)
                         /\ ep[n + k] = (IF k = 1 THEN 0 ELSE n + k - 1)
  BY <1>5, <1>8 DEF BesideOf
<1>10. /\ en \in [1..N -> 0..N] /\ ep \in [1..N -> 0..N]
       /\ before \in 0..n /\ behind \in 0..n /\ before = ep[x] /\ behind = en[last]
       /\ before \in 0..N /\ behind \in 0..N
  <2>1. en \in [1..N -> 0..N] /\ ep \in [1..N -> 0..N]
    BY <1>7, <1>8
  <2>2. before = ep[x] /\ behind = en[last]
    BY <1>3, <1>8, <1>9
  <2>3. before \in 0..n /\ behind \in 0..n
    BY <1>2, <1>3, <1>8
  <2>4. before \in 0..N /\ behind \in 0..N
    BY <1>1, <2>3
  <2> QED BY <2>1, <2>2, <2>3, <2>4
<1>11. n + 1 \in 1..N /\ N \in 1..N /\ n + 1 \in 0..N /\ N \in 0..N /\ last \in 1..N /\ x \in 1..N
  BY <1>1, <1>3
<1>12. PICK kids, next, prev :
        /\ kids = [e.kids EXCEPT ![p] = RemoveFirst(After(@, x, n + 1), x)]
        /\ next = [Link([e.next EXCEPT ![N] = e.next[last]], e.prev[x], n + 1) EXCEPT ![last] = 0]
        /\ prev = [Link([e.prev EXCEPT ![n + 1] = e.prev[x]], e.next[last], N) EXCEPT ![x] = 0]
  OBVIOUS
<1>13. \A y \in 1..N : next[y] = (IF y = last THEN 0 ELSE IF y = before THEN n + 1
                                  ELSE IF y = N THEN behind ELSE en[y])
  <2>1. PICK f, l : f = [en EXCEPT ![N] = behind] /\ l = Link(f, before, n + 1)
    OBVIOUS
  <2>2. f \in [1..N -> 0..N] /\ \A y \in 1..N : f[y] = IF y = N THEN behind ELSE en[y]
    BY <1>10, <2>1
  <2>3. l \in [1..N -> 0..N] /\ \A y \in 1..N : l[y] = IF y = before THEN n + 1 ELSE f[y]
    <3>1. LinkPut(l, f, before, n + 1, N)
      BY <1>10, <1>11, <2>1, <2>2, LinkAt
    <3> QED BY <3>1 DEF LinkPut
  <2>4. next = [l EXCEPT ![last] = 0]
    BY <1>8, <1>10, <1>12, <2>1
  <2> QED BY <2>2, <2>3, <2>4
<1>14. \A y \in 1..N : prev[y] = (IF y = x THEN 0 ELSE IF y = behind THEN N
                                  ELSE IF y = n + 1 THEN before ELSE ep[y])
  <2>1. PICK f, l : f = [ep EXCEPT ![n + 1] = before] /\ l = Link(f, behind, N)
    OBVIOUS
  <2>2. f \in [1..N -> 0..N] /\ \A y \in 1..N : f[y] = IF y = n + 1 THEN before ELSE ep[y]
    BY <1>10, <2>1
  <2>3. l \in [1..N -> 0..N] /\ \A y \in 1..N : l[y] = IF y = behind THEN N ELSE f[y]
    <3>1. LinkPut(l, f, behind, N, N)
      BY <1>10, <1>11, <2>1, <2>2, LinkAt
    <3> QED BY <3>1 DEF LinkPut
  <2>4. prev = [l EXCEPT ![x] = 0]
    BY <1>8, <1>10, <1>12, <2>1
  <2> QED BY <2>2, <2>3, <2>4
<1>15. LinksEdited(cn, cp, next, prev, n, m, before, behind, x, last)
  <2>1. ASSUME NEW y \in 1..n
        PROVE  /\ next[y] = (IF y = last THEN 0
                             ELSE IF y = before THEN (IF m = 0 THEN behind ELSE n + 1)
                             ELSE cn[y])
               /\ prev[y] = (IF y = x THEN 0
                             ELSE IF y = behind THEN (IF m = 0 THEN before ELSE n + m)
                             ELSE cp[y])
    <3>1. y \in 1..N /\ y # N /\ y # n + 1
      BY <1>1
    <3> QED BY <1>1, <1>9, <1>13, <1>14, <3>1
  <2>2. ASSUME NEW k \in 1..m
        PROVE  /\ next[n + k] = (IF k = m THEN behind ELSE n + k + 1)
               /\ prev[n + k] = (IF k = 1 THEN before ELSE n + k - 1)
    <3>1. /\ n + k \in 1..N /\ n + k # last /\ n + k # x /\ n + k # before /\ n + k # behind
          /\ (n + k = N <=> k = m) /\ (n + k = n + 1 <=> k = 1)
      BY SMTT(30), <1>1, <1>3, <1>10
    <3> QED BY <1>9, <1>13, <1>14, <3>1
  <2> QED BY <2>1, <2>2 DEF LinksEdited
<1>16. PICK d : d = Replaced(c, x, p, w)
  OBVIOUS
<1>17. d = [e EXCEPT !.kids = kids, !.next = next, !.prev = prev]
  <2>1. d = ReplacedBy(e, x, p, last, n + 1, N)
    BY <1>4, <1>6, <1>16 DEF Replaced
  <2>2. ReplacedBy(e, x, p, last, n + 1, N) =
          [e EXCEPT !.kids = kids, !.next = next, !.prev = prev]
    BY <1>12, Zenon DEF ReplacedBy
  <2> QED BY <2>1, <2>2
<1>18. d.kids = kids /\ d.next = next /\ d.prev = prev /\ d.op = e.op /\ d.cut = e.cut
  BY <1>7, <1>17 DEF ContentStreams
<1>19. /\ kids[p] = RemoveFirst(After(c.kids[p], x, n + 1), x)
       /\ \A y \in 0..n : y # p => kids[y] = c.kids[y]
       /\ \A q \in 1..m : kids[n + q] = ShiftAll(TreeOf(w).kids[q], n)
  <2>1. \A y \in 0..n : y \in 0..N /\ e.kids[y] = c.kids[y]
    BY <1>1, <1>5 DEF BesideOf
  <2>2. \A q \in 1..m : n + q \in 0..N /\ n + q # p /\ e.kids[n + q] = ShiftAll(TreeOf(w).kids[q], n)
    BY <1>1, <1>5 DEF BesideOf
  <2>3. \A y \in 0..N : kids[y] = IF y = p THEN RemoveFirst(After(e.kids[p], x, n + 1), x) ELSE e.kids[y]
    BY <1>7, <1>12
  <2> QED BY <2>1, <2>2, <2>3
<1>20. /\ \A y \in 1..n : d.op[y] = c.op[y]
       /\ \A k \in 1..m : d.op[n + k] = w[k]
       /\ d.cut = c.cut
  BY <1>5, <1>18 DEF BesideOf
<1> QED BY <1>8, <1>15, <1>16, <1>18, <1>19, <1>20 DEF EditParts

(* Those of insertOperator.                                                *)
LEMMA InsertedParts ==
  ASSUME NEW T, NEW n \in Nat, NEW c, Sound(c, T, n), NEW x \in 1..n, NEW p \in 0..n,
         NEW w \in Seq(Operators), NEW m \in Nat \ {0}, Len(w) = m,
         NEW last, last = LastBelow(c, x)
  PROVE  EditParts(Inserted(c, x, p, w), c, w, n, m, p, After(c.kids[p], x, n + 1),
                   last, c.next[last], 0, 0)
<1>1. PICK N \in Nat : N = n + m
  OBVIOUS
<1>2. /\ c.kids \in [0..n -> Seq(1..n)] /\ KidsNewer(c.kids, n)
      /\ c.next \in [1..n -> 0..n] /\ c.prev \in [1..n -> 0..n]
  BY SoundParts
<1>3. last \in 1..n
  <2>1. x \in 0..n
    OBVIOUS
  <2>2. LastBelow(c, x) \in x..n
    BY <1>2, <2>1, BelowType
  <2> QED BY <2>2
<1>4. PICK e : e = WithOwn(c, w)
  OBVIOUS
<1>5. BesideOf(e, c, w, n, m)
  BY <1>4, BesideParts
<1>6. EditOf(e, c, T, N) /\ NewAt(c) = n + 1
  <2>1. NewBeside(c, w, T, n, m)
    BY BesideSound
  <2> QED BY <1>1, <1>4, <2>1 DEF NewBeside
<1>7. /\ e \in ContentStreams(T, N) /\ e.kids \in [0..N -> Seq(1..N)]
      /\ e.next \in [1..N -> 0..N] /\ e.prev \in [1..N -> 0..N]
  <2>1. Sound(e, T, N)
    BY <1>6 DEF EditOf
  <2> QED BY <2>1, SoundParts
<1>8. PICK en, ep, cn, cp, nxt, comp :
        /\ en = e.next /\ ep = e.prev /\ cn = c.next /\ cp = c.prev
        /\ nxt = c.next[last] /\ comp = (Len(w) > 1)
  OBVIOUS
<1>9. /\ \A y \in 1..n : en[y] = cn[y] /\ ep[y] = cp[y]
      /\ \A k \in 1..m : /\ en[n + k] = (IF k = m THEN 0 ELSE n + k + 1)
                         /\ ep[n + k] = (IF k = 1 THEN 0 ELSE n + k - 1)
  BY <1>5, <1>8 DEF BesideOf
<1>10. en \in [1..N -> 0..N] /\ ep \in [1..N -> 0..N] /\ nxt \in 0..n /\ nxt \in 0..N
  <2>1. en \in [1..N -> 0..N] /\ ep \in [1..N -> 0..N]
    BY <1>7, <1>8
  <2>2. nxt \in 0..n
    BY <1>2, <1>3, <1>8
  <2> QED BY SMTT(30), <1>1, <2>1, <2>2
<1>11. n + 1 \in 1..N /\ n + 1 \in 0..N /\ last \in 1..N /\ last # n + 1
  BY <1>1, <1>3
<1>12. PICK kids, next, prev, cut :
        /\ kids = [e.kids EXCEPT ![p] = After(@, x, n + 1)]
        /\ next = (IF nxt = 0 THEN [e.next EXCEPT ![last] = n + 1]
                   ELSE [e.next EXCEPT ![last] = n + 1, ![n + 1] = nxt])
        /\ prev = [Link(e.prev, nxt, n + 1) EXCEPT ![n + 1] = last]
        /\ cut = (e.cut \/ (nxt # 0 /\ comp))
  OBVIOUS
<1>13. \A y \in 1..N : next[y] = (IF y = last THEN n + 1
                                  ELSE IF y = n + 1 /\ nxt # 0 THEN nxt ELSE en[y])
  <2>1. CASE nxt = 0
    <3>1. next = [en EXCEPT ![last] = n + 1]
      BY <1>8, <1>12, <2>1
    <3> QED BY <1>10, <2>1, <3>1
  <2>2. CASE nxt # 0
    <3>1. next = [en EXCEPT ![last] = n + 1, ![n + 1] = nxt]
      BY <1>8, <1>12, <2>2
    <3> QED BY <1>10, <1>11, <2>2, <3>1
  <2> QED BY <2>1, <2>2
<1>14. \A y \in 1..N : prev[y] = (IF y = n + 1 THEN last ELSE IF y = nxt THEN n + 1 ELSE ep[y])
  <2>1. PICK l : l = Link(ep, nxt, n + 1)
    OBVIOUS
  <2>2. l \in [1..N -> 0..N] /\ \A y \in 1..N : l[y] = IF y = nxt THEN n + 1 ELSE ep[y]
    <3>1. LinkPut(l, ep, nxt, n + 1, N)
      BY <1>10, <1>11, <2>1, LinkAt
    <3> QED BY <3>1 DEF LinkPut
  <2>3. prev = [l EXCEPT ![n + 1] = last]
    BY <1>8, <1>12, <2>1
  <2> QED BY <2>2, <2>3
<1>15. ASSUME ~cut PROVE LinksEdited(cn, cp, next, prev, n, m, last, nxt, 0, 0)
  <2>0. nxt = 0 \/ m = 1
    <3>1. ~(nxt # 0 /\ comp)
      BY Zenon, <1>12, <1>15
    <3>2. m > 1 => comp
      BY <1>8
    <3>3. nxt # 0 => ~comp
      BY Zenon, <3>1
    <3>4. nxt # 0 => ~(m > 1)
      BY Zenon, <3>2, <3>3
    <3> QED BY <3>4
  <2>1. ASSUME NEW y \in 1..n
        PROVE  /\ next[y] = (IF y = 0 THEN 0
                             ELSE IF y = last THEN (IF m = 0 THEN nxt ELSE n + 1)
                             ELSE cn[y])
               /\ prev[y] = (IF y = 0 THEN 0
                             ELSE IF y = nxt THEN (IF m = 0 THEN last ELSE n + m)
                             ELSE cp[y])
    <3>1. y \in 1..N /\ y # n + 1 /\ y # 0
      BY <1>1
    <3>2. y = nxt => n + m = n + 1
      BY <2>0, <3>1
    <3> QED BY <1>9, <1>13, <1>14, <3>1, <3>2
  <2>2. ASSUME NEW k \in 1..m
        PROVE  /\ next[n + k] = (IF k = m THEN nxt ELSE n + k + 1)
               /\ prev[n + k] = (IF k = 1 THEN last ELSE n + k - 1)
    <3>1. /\ n + k \in 1..N /\ n + k # last /\ n + k # nxt
          /\ (n + k = n + 1 <=> k = 1)
      BY <1>1, <1>3, <1>10
    <3>2. prev[n + k] = (IF k = 1 THEN last ELSE n + k - 1)
      BY <1>9, <1>14, <3>1
    <3>3. next[n + k] = (IF k = m THEN nxt ELSE n + k + 1)
      BY <1>9, <1>13, <2>0, <3>1
    <3> QED BY <3>2, <3>3
  <2> QED BY <2>1, <2>2 DEF LinksEdited
<1>16. PICK d : d = Inserted(c, x, p, w)
  OBVIOUS
<1>17. d = [e EXCEPT !.kids = kids, !.next = next, !.prev = prev, !.cut = cut]
  <2>1. d = InsertedBehind(e, x, p, n + 1, last, nxt, comp)
    BY <1>4, <1>6, <1>8, <1>16 DEF Inserted, InsertedAt
  <2>2. InsertedBehind(e, x, p, n + 1, last, nxt, comp) =
          [e EXCEPT !.kids = kids, !.next = next, !.prev = prev, !.cut = cut]
    BY <1>12, Zenon DEF InsertedBehind
  <2> QED BY <2>1, <2>2
<1>18. d.kids = kids /\ d.next = next /\ d.prev = prev /\ d.op = e.op /\ d.cut = cut
  BY <1>7, <1>17 DEF ContentStreams
<1>19. /\ kids[p] = After(c.kids[p], x, n + 1)
       /\ \A y \in 0..n : y # p => kids[y] = c.kids[y]
       /\ \A q \in 1..m : kids[n + q] = ShiftAll(TreeOf(w).kids[q], n)
  <2>1. \A y \in 0..n : y \in 0..N /\ e.kids[y] = c.kids[y]
    BY <1>1, <1>5 DEF BesideOf
  <2>2. \A q \in 1..m : n + q \in 0..N /\ n + q # p /\ e.kids[n + q] = ShiftAll(TreeOf(w).kids[q], n)
    BY <1>1, <1>5 DEF BesideOf
  <2>3. \A y \in 0..N : kids[y] = IF y = p THEN After(e.kids[p], x, n + 1) ELSE e.kids[y]
    BY <1>7, <1>12
  <2> QED BY <2>1, <2>2, <2>3
<1>20. /\ \A y \in 1..n : d.op[y] = c.op[y]
       /\ \A k \in 1..m : d.op[n + k] = w[k]
       /\ ~d.cut => ~c.cut
  <2>1. e.cut = c.cut /\ \A y \in 1..n : e.op[y] = c.op[y]
    BY <1>5 DEF BesideOf
  <2>2. \A k \in 1..m : e.op[n + k] = w[k]
    BY <1>5 DEF BesideOf
  <2> QED BY <1>12, <1>18, <2>1, <2>2
<1> QED BY <1>8, <1>15, <1>16, <1>18, <1>19, <1>20 DEF EditParts

(* Those of frontInsertOperator.                                           *)
LEMMA FrontParts ==
  ASSUME NEW T, NEW n \in Nat, NEW c, Sound(c, T, n),
         NEW w \in Seq(Operators), NEW m \in Nat \ {0}, Len(w) = m
  PROVE  EditParts(FrontInserted(c, w), c, w, n, m, 0, <<n + 1>> \o c.kids[0], 0, FirstOf(c), 0, 0)
<1>1. PICK N \in Nat : N = n + m
  OBVIOUS
<1>2. /\ c.kids \in [0..n -> Seq(1..n)] /\ KidsNewer(c.kids, n)
      /\ c.next \in [1..n -> 0..n] /\ c.prev \in [1..n -> 0..n]
  BY SoundParts
<1>3. PICK second \in 0..n : second = FirstOf(c)
  <2>1. c.kids[0] \in Seq(1..n)
    BY <1>2
  <2>2. c.kids[0] # <<>> => Head(c.kids[0]) \in 1..n
    BY <2>1, HeadTailProperties
  <2> QED BY <2>2 DEF FirstOf
<1>4. PICK e : e = WithOwn(c, w)
  OBVIOUS
<1>5. BesideOf(e, c, w, n, m)
  BY <1>4, BesideParts
<1>6. EditOf(e, c, T, N) /\ NewAt(c) = n + 1 /\ LastNewAt(c, w) = N
  <2>1. NewBeside(c, w, T, n, m)
    BY BesideSound
  <2> QED BY <1>1, <1>4, <2>1 DEF NewBeside
<1>7. /\ e \in ContentStreams(T, N) /\ e.kids \in [0..N -> Seq(1..N)]
      /\ e.next \in [1..N -> 0..N] /\ e.prev \in [1..N -> 0..N]
  <2>1. Sound(e, T, N)
    BY <1>6 DEF EditOf
  <2> QED BY <2>1, SoundParts
<1>8. PICK en, ep, cn, cp : en = e.next /\ ep = e.prev /\ cn = c.next /\ cp = c.prev
  OBVIOUS
<1>9. /\ \A y \in 1..n : en[y] = cn[y] /\ ep[y] = cp[y]
      /\ \A k \in 1..m : /\ en[n + k] = (IF k = m THEN 0 ELSE n + k + 1)
                         /\ ep[n + k] = (IF k = 1 THEN 0 ELSE n + k - 1)
  BY <1>5, <1>8 DEF BesideOf
<1>10. en \in [1..N -> 0..N] /\ ep \in [1..N -> 0..N] /\ second \in 0..N /\ N \in 1..N /\ N \in 0..N
  BY <1>1, <1>7, <1>8
<1>12. PICK kids, next, prev :
        /\ kids = [e.kids EXCEPT ![0] = <<n + 1>> \o @]
        /\ next = [e.next EXCEPT ![N] = second]
        /\ prev = Link(e.prev, second, N)
  OBVIOUS
<1>13. \A y \in 1..N : next[y] = (IF y = N THEN second ELSE en[y])
  BY <1>8, <1>10, <1>12
<1>14. \A y \in 1..N : prev[y] = (IF y = second THEN N ELSE ep[y])
  <2>1. LinkPut(prev, ep, second, N, N)
    BY <1>8, <1>10, <1>12, LinkAt
  <2> QED BY <2>1 DEF LinkPut
<1>15. LinksEdited(cn, cp, next, prev, n, m, 0, second, 0, 0)
  <2>1. ASSUME NEW y \in 1..n
        PROVE  /\ next[y] = (IF y = 0 THEN 0
                             ELSE IF y = 0 THEN (IF m = 0 THEN second ELSE n + 1)
                             ELSE cn[y])
               /\ prev[y] = (IF y = 0 THEN 0
                             ELSE IF y = second THEN (IF m = 0 THEN 0 ELSE n + m)
                             ELSE cp[y])
    <3>1. y \in 1..N /\ y # N /\ y # 0
      BY <1>1
    <3> QED BY <1>1, <1>9, <1>13, <1>14, <3>1
  <2>2. ASSUME NEW k \in 1..m
        PROVE  /\ next[n + k] = (IF k = m THEN second ELSE n + k + 1)
               /\ prev[n + k] = (IF k = 1 THEN 0 ELSE n + k - 1)
    <3>1. n + k \in 1..N /\ n + k # second /\ (n + k = N <=> k = m)
      BY <1>1
    <3> QED BY <1>9, <1>13, <1>14, <3>1
  <2> QED BY <2>1, <2>2 DEF LinksEdited
<1>16. PICK d : d = FrontInserted(c, w)
  OBVIOUS
<1>17. d = [e EXCEPT !.kids = kids, !.next = next, !.prev = prev]
  <2>1. d = InsertedBefore(e, second, n + 1, N)
    BY <1>3, <1>4, <1>6, <1>16 DEF FrontInserted
  <2>2. InsertedBefore(e, second, n + 1, N) = [e EXCEPT !.kids = kids, !.next = next, !.prev = prev]
    BY <1>12, Zenon DEF InsertedBefore
  <2> QED BY <2>1, <2>2
<1>18. d.kids = kids /\ d.next = next /\ d.prev = prev /\ d.op = e.op /\ d.cut = e.cut
  BY <1>7, <1>17 DEF ContentStreams
<1>19. /\ kids[0] = <<n + 1>> \o c.kids[0]
       /\ \A y \in 0..n : y # 0 => kids[y] = c.kids[y]
       /\ \A q \in 1..m : kids[n + q] = ShiftAll(TreeOf(w).kids[q], n)
  <2>1. \A y \in 0..n : y \in 0..N /\ e.kids[y] = c.kids[y]
    BY <1>1, <1>5 DEF BesideOf
  <2>2. \A q \in 1..m : n + q \in 0..N /\ n + q # 0 /\ e.kids[n + q] = ShiftAll(TreeOf(w).kids[q], n)
    BY <1>1, <1>5 DEF BesideOf
  <2>3. \A y \in 0..N : kids[y] = IF y = 0 THEN <<n + 1>> \o e.kids[0] ELSE e.kids[y]
    BY <1>7, <1>12
  <2>4. 0 \in 0..n /\ 0 \in 0..N
    OBVIOUS
  <2>5. kids[0] = <<n + 1>> \o c.kids[0]
    BY <2>1, <2>3, <2>4
  <2>6. \A y \in 0..n : y # 0 => kids[y] = c.kids[y]
    BY <2>1, <2>3
  <2>7. \A q \in 1..m : kids[n + q] = ShiftAll(TreeOf(w).kids[q], n)
    BY <2>2, <2>3
  <2> QED BY <2>5, <2>6, <2>7
<1>20. /\ \A y \in 1..n : d.op[y] = c.op[y]
       /\ \A k \in 1..m : d.op[n + k] = w[k]
       /\ d.cut = c.cut
  BY <1>5, <1>18 DEF BesideOf
<1> QED BY <1>3, <1>8, <1>15, <1>16, <1>18, <1>19, <1>20 DEF EditParts

(* Those of insertOperator where there is none.                            *)
LEMMA FirstParts ==
  ASSUME NEW T, NEW n \in Nat, NEW c, Sound(c, T, n),
         NEW w \in Seq(Operators), NEW m \in Nat \ {0}, Len(w) = m
  PROVE  EditParts(InsertedFirst(c, w), c, w, n, m, 0, <<n + 1>>, 0, 0, 0, 0)
<1>1. PICK N \in Nat : N = n + m
  OBVIOUS
<1>4. PICK e : e = WithNew(c, w)
  OBVIOUS
<1>5. BesideOf(e, c, w, n, m)
  BY <1>4, BesideParts
<1>6. EditOf(e, c, T, N) /\ NewAt(c) = n + 1
  <2>1. NewBeside(c, w, T, n, m)
    BY BesideSound
  <2> QED BY <1>1, <1>4, <2>1 DEF NewBeside
<1>7. /\ e \in ContentStreams(T, N) /\ e.kids \in [0..N -> Seq(1..N)]
  <2>1. Sound(e, T, N)
    BY <1>6 DEF EditOf
  <2> QED BY <2>1, SoundParts
<1>8. PICK kids : kids = [e.kids EXCEPT ![0] = <<n + 1>>]
  OBVIOUS
<1>9. PICK d : d = InsertedFirst(c, w)
  OBVIOUS
<1>10. d = [e EXCEPT !.kids = kids]
  BY <1>4, <1>6, <1>8, <1>9, Zenon DEF InsertedFirst
<1>11. d.kids = kids /\ d.next = e.next /\ d.prev = e.prev /\ d.op = e.op /\ d.cut = e.cut
  BY <1>7, <1>10 DEF ContentStreams
<1>12. /\ kids[0] = <<n + 1>>
       /\ \A y \in 0..n : y # 0 => kids[y] = c.kids[y]
       /\ \A q \in 1..m : kids[n + q] = ShiftAll(TreeOf(w).kids[q], n)
  <2>1. \A y \in 0..n : y \in 0..N /\ e.kids[y] = c.kids[y]
    BY <1>1, <1>5 DEF BesideOf
  <2>2. \A q \in 1..m : n + q \in 0..N /\ n + q # 0 /\ e.kids[n + q] = ShiftAll(TreeOf(w).kids[q], n)
    BY <1>1, <1>5 DEF BesideOf
  <2>3. \A y \in 0..N : kids[y] = IF y = 0 THEN <<n + 1>> ELSE e.kids[y]
    BY <1>7, <1>8
  <2>4. 0 \in 0..N
    OBVIOUS
  <2>5. \A y \in 0..n : y # 0 => kids[y] = c.kids[y]
    BY <2>1, <2>3
  <2>6. \A q \in 1..m : kids[n + q] = ShiftAll(TreeOf(w).kids[q], n)
    BY <2>2, <2>3
  <2> QED BY <2>3, <2>4, <2>5, <2>6
<1>13. PICK cn, cp, en, ep : cn = c.next /\ cp = c.prev /\ en = e.next /\ ep = e.prev
  OBVIOUS
<1>14. LinksEdited(cn, cp, en, ep, n, m, 0, 0, 0, 0)
  <2>1. /\ \A y \in 1..n : en[y] = cn[y] /\ ep[y] = cp[y]
        /\ \A k \in 1..m : /\ en[n + k] = (IF k = m THEN 0 ELSE n + k + 1)
                           /\ ep[n + k] = (IF k = 1 THEN 0 ELSE n + k - 1)
    BY <1>5, <1>13 DEF BesideOf
  <2>2. \A y \in 1..n : y # 0
    OBVIOUS
  <2> QED BY <2>1, <2>2 DEF LinksEdited
<1>15. /\ \A y \in 1..n : d.op[y] = c.op[y]
       /\ \A k \in 1..m : d.op[n + k] = w[k]
       /\ d.cut = c.cut
  BY <1>5, <1>11 DEF BesideOf
<1> QED BY <1>9, <1>11, <1>12, <1>13, <1>14, <1>15 DEF EditParts

-----------------------------------------------------------------------------
(* The walk after each of the edits.                                       *)

(* A new operator behind the others, and the walks that are left.          *)
NewBehind(V, d, w, n, m, N) ==
    /\ w \in Seq(Operators) /\ Len(w) = m /\ OneOperator(w)
    /\ d.kids \in [0..N -> Seq(1..N)] /\ NewKids(d, w, n, m) /\ WalkNamed(V, d, N)

(* The walk of the first new operator is the new operators in order.       *)
LEMMA NewOnesBehind ==
  ASSUME NEW n \in Nat, NEW m \in Nat \ {0}, NEW N \in Nat, More(n, m, N),
         NEW d, NEW w, NEW V, NewBehind(V, d, w, n, m, N)
  PROVE  V[n + 1] = NewOnes(n, m)
<1>1. w \in Seq(Operators)
  BY DEF NewBehind
<1>2. Len(w) = m
  BY DEF NewBehind
<1>3. OneOperator(w)
  BY DEF NewBehind
<1>4. d.kids \in [0..N -> Seq(1..N)]
  BY DEF NewBehind
<1>5. NewKids(d, w, n, m)
  BY DEF NewBehind
<1>6. WalkNamed(V, d, N)
  BY DEF NewBehind
<1> QED BY <1>1, <1>2, <1>3, <1>4, <1>5, <1>6, NewOnesWalked

(* What an edit of the kids of p that puts z in the place of x makes of    *)
(* the walks; V are those that are left.                                   *)
WalksPut(V, c, d, x, z, n, m, N) ==
    /\ WalkNamed(V, d, N)
    /\ V[x] = Below(c, x) /\ V[x] \in Seq(0..N)
    /\ Around(0..N, AllOf(c), AllOf(d), Below(c, x), WalksOf(V, z))
    /\ m # 0 => V[n + 1] = NewOnes(n, m) /\ V[n + 1] \in Seq(0..N)

(* It makes this of them.                                                  *)
LEMMA WalksOfEdit ==
  ASSUME NEW T, NEW n \in Nat, NEW m \in Nat, NEW N \in Nat, More(n, m, N),
         NEW c, Sound(c, T, n), Once(c), NEW d, Sound(d, T, N),
         NEW x \in 1..n, NEW p \in 0..n, Met(c, p),
         NEW w \in Seq(Operators), Len(w) = m, m # 0 => OneOperator(w),
         NEW ks, NEW before, NEW behind, NEW first, NEW last,
         EditParts(d, c, w, n, m, p, ks, before, behind, first, last),
         NEW a \in Seq(0..n), NEW b \in Seq(0..n), NEW z \in Seq(0..N),
         c.kids[p] = Cat(Cat(a, <<x>>), b), ks = Cat(Cat(a, z), b)
  PROVE  \E V : WalksPut(V, c, d, x, z, n, m, N)
<1>1. c.kids \in [0..n -> Seq(1..n)] /\ KidsNewer(c.kids, n)
  BY SoundParts
<1>2. d.kids \in [0..N -> Seq(1..N)] /\ KidsNewer(d.kids, N)
  BY SoundParts
<1>3. PICK V : WalkNamed(V, d, N)
  BY <1>2, WalkNames
<1>4. /\ d.kids[p] = ks /\ \A y \in 0..n : y # p => d.kids[y] = c.kids[y]
      /\ \A q \in 1..m : d.kids[n + q] = ShiftAll(TreeOf(w).kids[q], n)
  BY DEF EditParts
<1>5. KidsPut(c.kids, d.kids, n, N, p, x, a, b, z)
  <2>1. x \in 0..n
    OBVIOUS
  <2> QED BY <1>1, <1>2, <1>4, <2>1 DEF KidsPut
<1>6. /\ Around(0..N, AllOf(c), AllOf(d), Below(c, x), WalksOf(V, z))
      /\ V[x] = Below(c, x)
  <2>1. n <= N
    BY DEF More
  <2>2. ChangeOf(V, c, d, n, N, p, x, a, b, z)
    BY <1>3, <1>5, <2>1 DEF ChangeOf
  <2> QED BY <2>2, AllChanged
<1>7. \A y \in 0..N : V[y] \in Seq(0..N)
  BY <1>3 DEF WalkNamed, Walks
<1>8. m # 0 => V[n + 1] = NewOnes(n, m) /\ n + 1 \in 0..N
  <2>1. SUFFICES ASSUME m # 0 PROVE V[n + 1] = NewOnes(n, m) /\ n + 1 \in 0..N
    OBVIOUS
  <2>2. m \in Nat \ {0}
    BY <2>1
  <2>3. NewKids(d, w, n, m)
    BY <1>4 DEF NewKids
  <2>4. V[n + 1] = NewOnes(n, m)
    <3>1. NewBehind(V, d, w, n, m, N)
      BY <1>2, <1>3, <2>1, <2>3 DEF NewBehind
    <3> QED BY <2>2, <3>1, NewOnesBehind
  <2> QED BY <2>1, <2>4 DEF More
<1>9. x \in 0..N
  BY DEF More
<1> QED BY <1>3, <1>6, <1>7, <1>8, <1>9 DEF WalksPut

(* The kids of p around x.                                                 *)
LEMMA KidsSpliced ==
  ASSUME NEW T, NEW n \in Nat, NEW c, Sound(c, T, n), Once(c),
         NEW p \in 0..n, Met(c, p), NEW x \in Range(c.kids[p]), NEW y
  PROVE  /\ \E a, b \in Seq(0..n) : SplicedAt(c.kids[p], x, y, a, b)
         /\ x \in 1..n
<1>1. c.kids \in [0..n -> Seq(1..n)] /\ KidsNewer(c.kids, n)
  BY SoundParts
<1>2. PICK W : WalkNamed(W, c, n)
  BY <1>1, WalkNames
<1>3. IsInjective(c.kids[p])
  BY <1>1, <1>2, OnceHung DEF Met
<1>4. PICK s : s = c.kids[p]
  OBVIOUS
<1>5. s \in Seq(1..n)
  BY <1>1, <1>4
<1>6. s \in Seq(0..n)
  <2>1. 1..n \subseteq 0..n
    OBVIOUS
  <2> QED BY <1>5, <2>1, SeqMonotonic
<1>7. PICK S : S = 0..n
  OBVIOUS
<1>8. \E a, b \in Seq(S) : SplicedAt(s, x, y, a, b)
  BY <1>3, <1>4, <1>6, <1>7, Spliced
<1>9. x \in 1..n
  BY <1>4, <1>5, ElementOfSeq, LenProperties DEF Range
<1> QED BY <1>4, <1>7, <1>8, <1>9

(* What deleteOperator leaves of the walk.                                 *)
LEMMA DeletedPlace ==
  ASSUME NEW T, NEW n \in Nat, NEW c, Sound(c, T, n), Once(c),
         NEW p \in 0..n, Met(c, p), NEW x \in Range(c.kids[p])
  PROVE  Around(0..n, AllOf(c), AllOf(Deleted(c, x, p)), Below(c, x), NewOnes(n, 0))
<1>1. PICK a \in Seq(0..n), b \in Seq(0..n) : SplicedAt(c.kids[p], x, 0, a, b)
  BY KidsSpliced
<1>2. x \in 1..n
  BY KidsSpliced
<1>3. PICK d, last, w, z, ks, m :
        /\ d = Deleted(c, x, p) /\ last = LastBelow(c, x) /\ w = <<>> /\ z = <<>>
        /\ ks = RemoveFirst(c.kids[p], x) /\ m = 0
  OBVIOUS
<1>4. EditParts(d, c, w, n, m, p, ks, c.prev[x], c.next[last], x, last)
  BY <1>2, <1>3, DeletedParts
<1>5. Sound(d, T, n)
  BY <1>2, <1>3, DeletedSound DEF EditOf
<1>6. w \in Seq(Operators) /\ Len(w) = m /\ (m # 0 => OneOperator(w)) /\ z \in Seq(0..n) /\ m \in Nat
  BY <1>3, EmptySeq
<1>7. c.kids[p] = Cat(Cat(a, <<x>>), b) /\ ks = Cat(Cat(a, z), b)
  BY <1>1, <1>3 DEF SplicedAt
<1>8. PICK before, behind : before = c.prev[x] /\ behind = c.next[last]
  OBVIOUS
<1>9. EditParts(d, c, w, n, m, p, ks, before, behind, x, last)
  BY <1>4, <1>8
<1>10. More(n, m, n)
  BY <1>3 DEF More
<1>11. PICK V : WalksPut(V, c, d, x, z, n, m, n)
  BY <1>2, <1>5, <1>6, <1>7, <1>9, <1>10, WalksOfEdit
<1>12. WalksOf(V, z) = NewOnes(n, 0)
  <2>1. RootWalks(V, <<>>) = <<>>
    BY DEF RootWalks
  <2>2. FlattenSeq(<<>>) = <<>>
    BY FlattenFacts
  <2>3. NewOnes(n, 0) = <<>>
    BY DEF NewOnes
  <2> QED BY <1>3, <2>1, <2>2, <2>3 DEF WalksOf
<1> QED BY <1>3, <1>11, <1>12 DEF WalksPut

(* What replaceOperator leaves: the walk of the new operator in the place  *)
(* of that of the old one.                                                 *)
LEMMA ReplacedPlace ==
  ASSUME NEW T, NEW n \in Nat, NEW c, Sound(c, T, n), Once(c),
         NEW p \in 0..n, Met(c, p), NEW x \in Range(c.kids[p]),
         NEW w \in Seq(Operators), NEW m \in Nat \ {0}, Len(w) = m, OneOperator(w)
  PROVE  Around(0..(n + m), AllOf(c), AllOf(Replaced(c, x, p, w)), Below(c, x), NewOnes(n, m))
<1>0. PICK N \in Nat, y \in Nat : N = n + m /\ y = n + 1
  OBVIOUS
<1>1. PICK a \in Seq(0..n), b \in Seq(0..n) : SplicedAt(c.kids[p], x, y, a, b)
  BY KidsSpliced
<1>2. x \in 1..n
  BY KidsSpliced
<1>3. PICK d, last, z, ks, before, behind :
        /\ d = Replaced(c, x, p, w) /\ last = LastBelow(c, x) /\ z = <<y>>
        /\ ks = RemoveFirst(After(c.kids[p], x, y), x)
        /\ before = c.prev[x] /\ behind = c.next[last]
  OBVIOUS
<1>4. EditParts(d, c, w, n, m, p, ks, before, behind, x, last)
  BY <1>0, <1>2, <1>3, ReplacedParts
<1>5. Sound(d, T, N)
  BY <1>0, <1>2, <1>3, ReplacedSound DEF EditOf
<1>6. y \in 0..N /\ z \in Seq(0..N)
  BY <1>0, <1>3
<1>7. c.kids[p] = Cat(Cat(a, <<x>>), b) /\ ks = Cat(Cat(a, z), b)
  BY <1>1, <1>3 DEF SplicedAt
<1>8. More(n, m, N)
  BY <1>0 DEF More
<1>9. PICK V : WalksPut(V, c, d, x, z, n, m, N)
  BY <1>2, <1>4, <1>5, <1>6, <1>7, <1>8, WalksOfEdit
<1>10. V[y] = NewOnes(n, m) /\ V[y] \in Seq(0..N)
  BY <1>0, <1>9 DEF WalksPut
<1>11. WalksOf(V, z) = NewOnes(n, m)
  BY <1>3, <1>10, WalksOfOne
<1> QED BY <1>0, <1>3, <1>9, <1>11 DEF WalksPut

(* The walks of two operators.                                             *)
LEMMA WalksOfTwo ==
  ASSUME NEW T, NEW W, NEW S, Gives(W, S, Seq(T)), NEW x \in S, NEW y \in S,
         NEW z, z = <<x, y>>
  PROVE  WalksOf(W, z) = Cat(W[x], W[y])
<1>3. <<x>> \in Seq(S) /\ <<y>> \in Seq(S)
  OBVIOUS
<1>4. <<x, y>> = Cat(<<x>>, <<y>>)
  <2>1. PICK s, t, o, u, v : s = <<x>> /\ t = <<y>> /\ o = 1 /\ u = s \o t /\ v = <<x, y>>
    OBVIOUS
  <2>2. s \in Seq(S) /\ t \in Seq(S) /\ Len(s) = o /\ Len(t) = o /\ s[1] = x /\ t[1] = y /\ o \in Nat
    BY <1>3, <2>1
  <2>3. JoinsAt(s \o t, s, t, o, o) /\ s \o t \in Seq(S) /\ Len(s \o t) = o + o
    BY <2>2, ConcatAt
  <2>4. u \in Seq(S) /\ Len(u) = 2 /\ u[1] = x /\ u[2] = y
    <3>1. 1 \in 1..o /\ o + 1 = 2 /\ o + o = 2
      BY <2>1
    <3>2. u[1] = s[1] /\ u[o + 1] = t[1]
      BY <2>1, <2>3, <3>1 DEF JoinsAt
    <3> QED BY <2>1, <2>2, <2>3, <3>1, <3>2
  <2>5. v \in Seq(S) /\ Len(v) = 2 /\ v[1] = x /\ v[2] = y
    BY <1>3, <2>1
  <2>6. u = v
    <3>1. Len(u) = Len(v) /\ \A k \in 1..Len(u) : u[k] = v[k]
      BY <2>4, <2>5
    <3> QED BY <2>4, <2>5, <3>1, SameSeq
  <2> QED BY <2>1, <2>6 DEF Cat
<1>5. WalksOf(W, Cat(<<x>>, <<y>>)) = Cat(WalksOf(W, <<x>>), WalksOf(W, <<y>>))
  <2>1. WalksJoined(W, S, T)
    BY WalksOfConcat
  <2> QED BY <1>3, <2>1 DEF WalksJoined
<1>6. WalksOf(W, <<x>>) = W[x] /\ WalksOf(W, <<y>>) = W[y]
  <2>1. WalksJoined(W, S, T)
    BY WalksOfConcat
  <2> QED BY <2>1 DEF WalksJoined
<1> QED BY <1>4, <1>5, <1>6

(* What insertOperator leaves: the walk of the new operator behind that of *)
(* the one it comes after.                                                 *)
LEMMA InsertedPlace ==
  ASSUME NEW T, NEW n \in Nat, NEW c, Sound(c, T, n), Once(c),
         NEW p \in 0..n, Met(c, p), NEW x \in Range(c.kids[p]),
         NEW w \in Seq(Operators), NEW m \in Nat \ {0}, Len(w) = m, OneOperator(w)
  PROVE  Around(0..(n + m), AllOf(c), AllOf(Inserted(c, x, p, w)), Below(c, x),
                Cat(Below(c, x), NewOnes(n, m)))
<1>0. PICK N \in Nat, y \in Nat : N = n + m /\ y = n + 1
  OBVIOUS
<1>1. PICK a \in Seq(0..n), b \in Seq(0..n) : SplicedAt(c.kids[p], x, y, a, b)
  BY KidsSpliced
<1>2. x \in 1..n
  BY KidsSpliced
<1>3. PICK d, last, z, ks, behind, none :
        /\ d = Inserted(c, x, p, w) /\ last = LastBelow(c, x) /\ z = <<x, y>>
        /\ ks = After(c.kids[p], x, y) /\ behind = c.next[last] /\ none = 0
  OBVIOUS
<1>4. EditParts(d, c, w, n, m, p, ks, last, behind, none, none)
  BY <1>0, <1>2, <1>3, InsertedParts
<1>5. Sound(d, T, N)
  BY <1>0, <1>2, <1>3, InsertedSound DEF EditOf
<1>6. y \in 0..N /\ x \in 0..N /\ z \in Seq(0..N)
  BY <1>0, <1>2, <1>3
<1>7. c.kids[p] = Cat(Cat(a, <<x>>), b) /\ ks = Cat(Cat(a, z), b)
  BY <1>1, <1>3 DEF SplicedAt
<1>8. More(n, m, N)
  BY <1>0 DEF More
<1>9. PICK V : WalksPut(V, c, d, x, z, n, m, N)
  BY <1>2, <1>4, <1>5, <1>6, <1>7, <1>8, WalksOfEdit
<1>10. /\ V[y] = NewOnes(n, m) /\ V[y] \in Seq(0..N)
       /\ V[x] = Below(c, x) /\ V[x] \in Seq(0..N)
  BY <1>0, <1>9 DEF WalksPut
<1>11. WalksOf(V, z) = Cat(V[x], V[y])
  <2>1. PICK S : S = 0..N
    OBVIOUS
  <2>2. PICK P : P = {x, y}
    OBVIOUS
  <2>3. Gives(V, P, Seq(S)) /\ x \in P /\ y \in P
    BY <1>10, <2>1, <2>2 DEF Gives
  <2> QED BY <1>3, <2>3, WalksOfTwo
<1>12. Around(0..N, AllOf(c), AllOf(d), Below(c, x), WalksOf(V, z))
  BY <1>9 DEF WalksPut
<1> QED BY <1>0, <1>3, <1>10, <1>11, <1>12

(* What comes before all others is walked first.                           *)
FrontEdit(d, c, w, n, m, N, T) ==
    /\ Sound(c, T, n) /\ Sound(d, T, N)
    /\ w \in Seq(Operators) /\ Len(w) = m /\ OneOperator(w)
    /\ d.kids[0] = Cat(<<n + 1>>, c.kids[0])
    /\ \A y \in 0..n : y # 0 => d.kids[y] = c.kids[y]
    /\ NewKids(d, w, n, m)

(* Then the walk is the new operators, and the walk before the edit.       *)
LEMMA FrontOfEdit ==
  ASSUME NEW T, NEW n \in Nat, NEW m \in Nat \ {0}, NEW N \in Nat, More(n, m, N),
         NEW c, NEW d, NEW w, FrontEdit(d, c, w, n, m, N, T)
  PROVE  AllOf(d) = Cat(NewOnes(n, m), AllOf(c))
<1>1. c.kids \in [0..n -> Seq(1..n)] /\ KidsNewer(c.kids, n)
  <2>1. Sound(c, T, n)
    BY DEF FrontEdit
  <2> QED BY <2>1, SoundParts
<1>2. d.kids \in [0..N -> Seq(1..N)] /\ KidsNewer(d.kids, N)
  <2>1. Sound(d, T, N)
    BY DEF FrontEdit
  <2> QED BY <2>1, SoundParts
<1>3. PICK V : WalkNamed(V, d, N)
  BY <1>2, WalkNames
<1>4. PICK W : WalkNamed(W, c, n)
  BY <1>1, WalkNames
<1>5. /\ d.kids[0] = Cat(<<n + 1>>, c.kids[0]) /\ \A y \in 0..n : y # 0 => d.kids[y] = c.kids[y]
      /\ NewKids(d, w, n, m) /\ w \in Seq(Operators) /\ Len(w) = m /\ OneOperator(w)
  BY DEF FrontEdit
<1>6. PICK kids, kids2, o : kids = c.kids /\ kids2 = d.kids /\ o = 0
  OBVIOUS
<1>7. /\ kids \in [0..n -> Seq(1..n)] /\ KidsNewer(kids, n) /\ kids2 \in [0..N -> Seq(1..N)]
      /\ Walks(W, kids, n) /\ Walks(V, kids2, N) /\ n <= N /\ o \in 0..n
      /\ \A y \in 0..n : y # o => kids2[y] = kids[y]
  BY <1>1, <1>2, <1>3, <1>4, <1>5, <1>6 DEF WalkNamed, More
<1>8. \A r \in 0..n : Near(W, V, kids, kids2, o, r, N)
  BY <1>7, ChangeAt
<1>9. \A r \in 1..n : V[r] = W[r]
  <2>1. TAKE r \in 1..n
  <2>2. W[r] \in Seq(r..n)
    <3>1. \A y \in 0..n : W[y] \in Seq(y..n) /\ W[y] # <<>>
      BY <1>7, WalkRange
    <3> QED BY <3>1
  <2>3. o \notin Range(W[r])
    <3>1. PICK s : s = W[r]
      OBVIOUS
    <3>2. \A k \in DOMAIN s : s[k] \in r..n
      BY <2>2, <3>1, ElementOfSeq, LenProperties
    <3>3. \A k \in DOMAIN s : s[k] # o
      BY <1>6, <3>2
    <3> QED BY Zenon, <3>1, <3>3 DEF Range
  <2>4. r \in 0..n
    OBVIOUS
  <2> QED BY <1>8, <2>3, <2>4 DEF Near
<1>10. PICK s \in Seq(1..n) : s = kids[0]
  BY <1>7
<1>11. WalksOf(V, s) = AllOf(c)
  <2>1. \A y \in Range(s) : V[y] = W[y]
    <3>1. \A k \in DOMAIN s : s[k] \in 1..n
      BY ElementOfSeq, LenProperties
    <3>2. \A k \in DOMAIN s : V[s[k]] = W[s[k]]
      BY <1>9, <3>1
    <3> QED BY Zenon, <3>2 DEF Range
  <2>2. WalksOf(V, s) = WalksOf(W, s)
    BY <2>1, WalksOfSame
  <2> QED BY <1>4, <1>6, <1>10, <2>2 DEF WalkNamed
<1>12. PICK y \in Nat : y = n + 1
  OBVIOUS
<1>13. V[y] = NewOnes(n, m)
  <2>1. NewBehind(V, d, w, n, m, N)
    BY <1>2, <1>3, <1>5 DEF NewBehind
  <2> QED BY <1>12, <2>1, NewOnesBehind
<1>14. y \in 0..N /\ s \in Seq(0..N) /\ <<y>> \in Seq(0..N)
  <2>1. y \in 0..N /\ 1..n \subseteq 0..N
    BY <1>12 DEF More
  <2> QED BY SMTT(30), <2>1, SeqMonotonic
<1>15. PICK S, U : S = 0..N /\ U = Seq(S)
  OBVIOUS
<1>16. Gives(V, S, Seq(S))
  <2>1. V \in [0..N -> Seq(0..N)]
    BY <1>7 DEF Walks
  <2> QED BY <1>15, <2>1 DEF Gives
<1>17. WalksOf(V, Cat(<<y>>, s)) = Cat(V[y], WalksOf(V, s))
  <2>1. y \in S /\ s \in Seq(S) /\ <<y>> \in Seq(S)
    BY <1>14, <1>15
  <2>0. WalksJoined(V, S, S)
    BY <1>16, WalksOfConcat
  <2>2. WalksOf(V, Cat(<<y>>, s)) = Cat(WalksOf(V, <<y>>), WalksOf(V, s))
    BY <2>0, <2>1 DEF WalksJoined
  <2>3. WalksOf(V, <<y>>) = V[y]
    BY <2>0, <2>1 DEF WalksJoined
  <2> QED BY <2>2, <2>3
<1>18. AllOf(d) = WalksOf(V, Cat(<<y>>, s))
  BY <1>3, <1>5, <1>6, <1>10, <1>12 DEF WalkNamed
<1> QED BY <1>11, <1>13, <1>17, <1>18

(* What frontInsertOperator leaves.                                        *)
LEMMA FrontPlace ==
  ASSUME NEW T, NEW n \in Nat, NEW c, Sound(c, T, n),
         NEW w \in Seq(Operators), NEW m \in Nat \ {0}, Len(w) = m, OneOperator(w)
  PROVE  AllOf(FrontInserted(c, w)) = Cat(NewOnes(n, m), AllOf(c))
<1>0. PICK N \in Nat : N = n + m
  OBVIOUS
<1>1. PICK d, ks, second, none :
        /\ d = FrontInserted(c, w) /\ ks = <<n + 1>> \o c.kids[0]
        /\ second = FirstOf(c) /\ none = 0
  OBVIOUS
<1>2. EditParts(d, c, w, n, m, 0, ks, none, second, none, none)
  BY <1>1, FrontParts
<1>3. Sound(d, T, N)
  BY <1>0, <1>1, FrontInsertedSound DEF EditOf
<1>4. More(n, m, N) /\ ks = Cat(<<n + 1>>, c.kids[0])
  BY <1>0, <1>1 DEF More, Cat
<1>5. FrontEdit(d, c, w, n, m, N, T)
  BY <1>2, <1>3, <1>4 DEF EditParts, FrontEdit, NewKids
<1>6. AllOf(d) = Cat(NewOnes(n, m), AllOf(c))
  BY <1>1, <1>4, <1>5, FrontOfEdit
<1> QED BY <1>1, <1>6

(* What insertOperator leaves where there is none.                         *)
LEMMA FirstPlace ==
  ASSUME NEW T, NEW n \in Nat, NEW c, Sound(c, T, n), c.kids[0] = <<>>,
         NEW w \in Seq(Operators), NEW m \in Nat \ {0}, Len(w) = m, OneOperator(w)
  PROVE  AllOf(InsertedFirst(c, w)) = Cat(NewOnes(n, m), AllOf(c))
<1>0. PICK N \in Nat : N = n + m
  OBVIOUS
<1>1. PICK d, ks, none : d = InsertedFirst(c, w) /\ ks = <<n + 1>> /\ none = 0
  OBVIOUS
<1>2. EditParts(d, c, w, n, m, 0, ks, none, none, none, none)
  BY <1>1, FirstParts
<1>3. Sound(d, T, N)
  BY <1>0, <1>1, InsertedFirstSound DEF EditOf
<1>4. More(n, m, N) /\ ks = Cat(<<n + 1>>, c.kids[0])
  <2>1. ks \in Seq(Nat)
    BY <1>1
  <2>2. Cat(ks, <<>>) = ks
    BY <2>1, CatFacts
  <2> QED BY <1>0, <1>1, <2>2 DEF More
<1>5. FrontEdit(d, c, w, n, m, N, T)
  BY <1>2, <1>3, <1>4 DEF EditParts, FrontEdit, NewKids
<1>6. AllOf(d) = Cat(NewOnes(n, m), AllOf(c))
  BY <1>1, <1>4, <1>5, FrontOfEdit
<1> QED BY <1>1, <1>6

-----------------------------------------------------------------------------
(* The list after each of the edits.                                       *)

(* The list of a content stream leads along the walk of its operators, if  *)
(* no insert has cut it.                                                   *)
Listed(c, n) == ~c.cut => Chained(c.next, c.prev, AllOf(c), n)

(* What begins with h.                                                     *)
LEMMA FirstOfCat ==
  ASSUME NEW S, NEW h \in S, NEW t \in Seq(S)
  PROVE  Cat(<<h>>, t) # <<>> /\ Cat(<<h>>, t)[1] = h
<1>1. PICK s, o, u, l : s = <<h>> /\ o = 1 /\ u = s \o t /\ l = Len(t)
  OBVIOUS
<1>2. s \in Seq(S) /\ Len(s) = o /\ s[1] = h /\ o \in Nat /\ l \in Nat /\ 1 \in 1..o
  BY <1>1, LenProperties
<1>3. JoinsAt(s \o t, s, t, o, l) /\ Len(s \o t) = o + l
  <2>1. Len(t) = l
    BY <1>1
  <2> QED BY <1>2, <2>1, ConcatAt
<1>4. u[1] = h /\ Len(u) = 1 + l
  BY <1>1, <1>2, <1>3 DEF JoinsAt
<1>5. u # <<>>
  BY <1>2, <1>4
<1> QED BY <1>1, <1>4, <1>5 DEF Cat

(* The walk of all begins with the first operator, and that of x with x.   *)
Begins(c, n) ==
    /\ c.kids[0] = <<>> => AllOf(c) = <<>>
    /\ c.kids[0] # <<>> => AllOf(c) # <<>> /\ AllOf(c)[1] = Head(c.kids[0])
    /\ \A x \in 0..n : Below(c, x) \in Seq(0..n) /\ Below(c, x) # <<>> /\ Below(c, x)[1] = x

(* So it is in every tree.                                                 *)
LEMMA WalksBegin ==
  ASSUME NEW n \in Nat, NEW c, c.kids \in [0..n -> Seq(1..n)], KidsNewer(c.kids, n)
  PROVE  Begins(c, n)
<1>1. PICK W : WalkNamed(W, c, n)
  BY WalkNames
<1>2. PICK kids : kids = c.kids
  OBVIOUS
<1>3. kids \in [0..n -> Seq(1..n)] /\ Walks(W, kids, n)
  BY <1>1, <1>2 DEF WalkNamed
<1>4. Gives(W, 0..n, Seq(0..n)) /\ \A x \in 0..n : WalkedFrom(W, kids, x, n)
  BY <1>3, WalkAlone
<1>5. PICK S : S = 0..n
  OBVIOUS
<1>6. ASSUME NEW x \in S
      PROVE  \E t \in Seq(S) : W[x] = Cat(<<x>>, t)
  BY <1>4, <1>5 DEF WalkedFrom
<1>7. \A x \in S : W[x] \in Seq(S) /\ W[x] # <<>> /\ W[x][1] = x
  <2>1. TAKE x \in S
  <2>2. PICK t \in Seq(S) : W[x] = Cat(<<x>>, t)
    BY <1>6
  <2>3. Cat(<<x>>, t) # <<>> /\ Cat(<<x>>, t)[1] = x
    BY FirstOfCat
  <2>4. W[x] \in Seq(S)
    BY <1>4, <1>5 DEF Gives
  <2> QED BY <2>2, <2>3, <2>4
<1>8. \A x \in 0..n : Below(c, x) \in Seq(0..n) /\ Below(c, x) # <<>> /\ Below(c, x)[1] = x
  BY <1>1, <1>5, <1>7 DEF WalkNamed
<1>9. PICK s : s = kids[0]
  OBVIOUS
<1>10. s \in Seq(S) /\ AllOf(c) = WalksOf(W, s) /\ WalksJoined(W, S, S)
  <2>1. s \in Seq(1..n) /\ 1..n \subseteq 0..n
    BY <1>3, <1>9
  <2>2. s \in Seq(S)
    BY <1>5, <2>1, SeqMonotonic
  <2>3. Gives(W, S, Seq(S))
    BY <1>4, <1>5
  <2>4. WalksJoined(W, S, S)
    BY <2>3, WalksOfConcat
  <2> QED BY <1>1, <1>2, <1>9, <2>2, <2>4 DEF WalkNamed
<1>11. CASE s = <<>>
  <2>1. RootWalks(W, <<>>) = <<>>
    BY DEF RootWalks
  <2>2. FlattenSeq(<<>>) = <<>>
    BY FlattenFacts
  <2>3. AllOf(c) = <<>>
    BY <1>10, <1>11, <2>1, <2>2 DEF WalksOf
  <2> QED BY <1>2, <1>8, <1>9, <1>11, <2>3 DEF Begins
<1>12. CASE s # <<>>
  <2>1. PICK h : h = s[1]
    OBVIOUS
  <2>2. PICK t \in Seq(S) : h \in S /\ s = <<h>> \o t
    <3>1. 1 \in 1..Len(s)
      BY <1>10, <1>12, EmptySeq
    <3>2. PICK a \in Seq(S), b \in Seq(S) : s = (a \o <<s[1]>>) \o b /\ Len(a) = 1 - 1
      BY ZenonT(90), <1>10, <3>1, AroundElement
    <3>3. a = <<>>
      BY <3>2, EmptySeq
    <3>4. h \in S /\ <<h>> \in Seq(S)
      BY <1>10, <2>1, <3>1, ElementOfSeq
    <3>5. a \o <<h>> = <<h>>
      BY <3>3, <3>4, ConcatEmptySeq
    <3> QED BY <2>1, <3>2, <3>4, <3>5
  <2>3. <<h>> \in Seq(S)
    BY <2>2
  <2>4. WalksOf(W, Cat(<<h>>, t)) = Cat(WalksOf(W, <<h>>), WalksOf(W, t))
    BY <1>10, <2>2, <2>3 DEF WalksJoined
  <2>5. WalksOf(W, <<h>>) = W[h] /\ WalksOf(W, t) \in Seq(S)
    BY <1>10, <2>2 DEF WalksJoined
  <2>6. PICK r \in Seq(S) : W[h] = Cat(<<h>>, r)
    BY <1>6, <2>2
  <2>7. PICK v : v = WalksOf(W, t)
    OBVIOUS
  <2>8. v \in Seq(S) /\ Cat(r, v) \in Seq(S)
    BY <2>5, <2>7, CatFacts
  <2>9. Cat(Cat(<<h>>, r), v) = Cat(<<h>>, Cat(r, v))
    <3>1. \A a, b, e \in Seq(S) : Cat(Cat(a, b), e) = Cat(a, Cat(b, e))
      BY Zenon, CatFacts
    <3> QED BY <2>3, <2>8, <3>1
  <2>10. AllOf(c) = Cat(<<h>>, Cat(r, v))
    BY <1>10, <2>2, <2>4, <2>5, <2>6, <2>7, <2>9 DEF Cat
  <2>11. AllOf(c) # <<>> /\ AllOf(c)[1] = h
    BY <2>2, <2>8, <2>10, FirstOfCat
  <2>12. Head(s) = h
    BY <1>10, <1>12, <2>1
  <2> QED BY <1>2, <1>8, <1>9, <1>12, <2>11, <2>12 DEF Begins
<1> QED BY <1>11, <1>12

(* Then the list is the walk.                                              *)
LEMMA ListOf ==
  ASSUME NEW T, NEW n \in Nat, NEW c, Sound(c, T, n), Listed(c, n), ~c.cut
  PROVE  List(c) = AllOf(c)
<1>1. c.kids \in [0..n -> Seq(1..n)] /\ KidsNewer(c.kids, n) /\ Len(c.op) = n
  BY SoundParts
<1>2. PICK s : s = AllOf(c)
  OBVIOUS
<1>3. s \in Seq(1..n)
  BY <1>1, <1>2, AllOfType
<1>4. Linked(c.next, c.prev, s) /\ Ranked(c.next, n)
  BY <1>2 DEF Listed, Chained
<1>5. Begins(c, n)
  BY <1>1, WalksBegin
<1>6. (c.kids[0] = <<>> <=> s = <<>>) /\ (s # <<>> => Head(c.kids[0]) = s[1])
  BY <1>2, <1>5 DEF Begins
<1> QED BY <1>1, <1>2, <1>3, <1>4, <1>6, ListAlong

(* Where an edit is made.                                                  *)
LEMMA FoundMet ==
  ASSUME NEW T, NEW n \in Nat, NEW c, Sound(c, T, n), Listed(c, n), ~c.cut,
         NEW x, NEW p \in Found(c, x)
  PROVE  Met(c, p) /\ Once(c)
<1>1. p = 0 \/ p \in Range(List(c))
  BY DEF Found
<1>2. List(c) = AllOf(c)
  BY ListOf
<1>3. Once(c)
  BY DEF Listed, Chained, Once
<1> QED BY <1>1, <1>2, <1>3 DEF Met

(* It is made at an operator that hangs below p.                           *)
LEMMA FoundAt ==
  ASSUME NEW T, NEW n \in Nat, NEW c, Sound(c, T, n), NEW x, NEW p \in Found(c, x)
  PROVE  p \in 0..n /\ x \in Range(c.kids[p]) /\ x \in 1..n
<1>1. c.kids \in [0..n -> Seq(1..n)]
  BY SoundParts
<1>2. p \in 0..n /\ x \in Range(c.kids[p])
  BY <1>1 DEF Found
<1>3. x \in 1..n
  <2>1. c.kids[p] \in Seq(1..n)
    BY <1>1, <1>2
  <2>2. PICK s : s = c.kids[p]
    OBVIOUS
  <2>3. \A k \in DOMAIN s : s[k] \in 1..n
    BY <2>1, <2>2, ElementOfSeq, LenProperties
  <2> QED BY Zenon, <1>2, <2>2, <2>3 DEF Range
<1> QED BY <1>2, <1>3

(* What an edit that puts Y in the place of X makes of links that lead     *)
(* along s.                                                                *)
PutFor(next, prev, next2, prev2, s, u, n, m, S, X, Y, first, last) ==
    /\ s \in Seq(1..n) /\ Chained(next, prev, s, n)
    /\ X \in Seq(S) /\ X # <<>> /\ Y \in Seq(S) /\ Y = NewOnes(n, m)
    /\ Around(S, s, u, X, Y) /\ first = X[1] /\ last = Last(X)
    /\ LinksEdited(next, prev, next2, prev2, n, m, prev[first], next[last], first, last)

(* They lead along the sequence with Y in the place of X.                  *)
LEMMA PutForChained ==
  ASSUME NEW n \in Nat, NEW m \in Nat, NEW next, NEW prev, NEW next2, NEW prev2,
         NEW s, NEW u, NEW S, NEW X, NEW Y, NEW first, NEW last,
         PutFor(next, prev, next2, prev2, s, u, n, m, S, X, Y, first, last)
  PROVE  Chained(next2, prev2, u, n + m)
<1>1. s \in Seq(1..n) /\ Chained(next, prev, s, n)
  BY DEF PutFor
<1>2. X \in Seq(S) /\ X # <<>> /\ Y \in Seq(S) /\ Y = NewOnes(n, m)
  BY DEF PutFor
<1>3. Around(S, s, u, X, Y) /\ first = X[1] /\ last = Last(X)
  BY DEF PutFor
<1>4. LinksEdited(next, prev, next2, prev2, n, m, prev[first], next[last], first, last)
  BY DEF PutFor
<1> QED BY <1>1, <1>2, <1>3, <1>4, ReplacedChained

(* The numbers of new operators.                                           *)
LEMMA NewOnesType ==
  ASSUME NEW n \in Nat, NEW m \in Nat
  PROVE  NewOnes(n, m) \in Seq(0..(n + m))
<1>1. \A k \in 1..m : n + k \in 0..(n + m)
  OBVIOUS
<1> QED BY <1>1 DEF NewOnes

(* deleteOperator leaves a list that leads along the walk.                 *)
LEMMA DeletedListed ==
  ASSUME NEW T, NEW n \in Nat, NEW c, Sound(c, T, n), Listed(c, n),
         NEW x, NEW p \in Found(c, x)
  PROVE  Listed(Deleted(c, x, p), n)
<1>1. p \in 0..n /\ x \in Range(c.kids[p]) /\ x \in 1..n
  BY FoundAt
<1>2. PICK d, last, m, w, ks, u : /\ d = Deleted(c, x, p) /\ last = LastBelow(c, x) /\ m = 0
                                  /\ w = <<>> /\ ks = RemoveFirst(c.kids[p], x) /\ u = AllOf(d)
  OBVIOUS
<1>3. SUFFICES ASSUME ~d.cut PROVE Chained(d.next, d.prev, u, n)
  BY <1>2 DEF Listed
<1>4. EditParts(d, c, w, n, m, p, ks, c.prev[x], c.next[last], x, last)
  BY <1>1, <1>2, DeletedParts
<1>5. ~c.cut /\ LinksEdited(c.next, c.prev, d.next, d.prev, n, m, c.prev[x], c.next[last], x, last)
  BY <1>3, <1>4 DEF EditParts
<1>6. Met(c, p) /\ Once(c)
  BY <1>5, FoundMet
<1>7. PICK S, X, Y, s : S = 0..n /\ X = Below(c, x) /\ Y = NewOnes(n, 0) /\ s = AllOf(c)
  OBVIOUS
<1>8. Around(S, s, u, X, Y)
  BY <1>1, <1>2, <1>6, <1>7, DeletedPlace
<1>9. c.kids \in [0..n -> Seq(1..n)] /\ KidsNewer(c.kids, n)
  BY SoundParts
<1>10. X \in Seq(S) /\ X # <<>> /\ X[1] = x /\ last = Last(X)
  <2>1. Begins(c, n)
    BY <1>9, WalksBegin
  <2>2. last = Last(X)
    BY <1>2, <1>7 DEF LastBelow
  <2> QED BY <1>1, <1>7, <2>1, <2>2 DEF Begins
<1>11. s \in Seq(1..n) /\ Chained(c.next, c.prev, s, n)
  BY <1>5, <1>7, <1>9, AllOfType DEF Listed
<1>12. Y \in Seq(S) /\ Y = NewOnes(n, m) /\ m \in Nat /\ n + m = n
  BY <1>2, <1>7, NewOnesType
<1>13. PutFor(c.next, c.prev, d.next, d.prev, s, u, n, m, S, X, Y, x, last)
  BY <1>5, <1>8, <1>10, <1>11, <1>12 DEF PutFor
<1>14. Chained(d.next, d.prev, u, n + m)
  BY <1>12, <1>13, PutForChained
<1> QED BY <1>12, <1>14

(* replaceOperator does so too.                                            *)
LEMMA ReplacedListed ==
  ASSUME NEW T, NEW n \in Nat, NEW c, Sound(c, T, n), Listed(c, n),
         NEW x, NEW p \in Found(c, x),
         NEW w \in Seq(Operators), NEW m \in Nat \ {0}, Len(w) = m, OneOperator(w)
  PROVE  Listed(Replaced(c, x, p, w), n + m)
<1>0. PICK N \in Nat : N = n + m
  OBVIOUS
<1>1. p \in 0..n /\ x \in Range(c.kids[p]) /\ x \in 1..n
  BY FoundAt
<1>2. PICK d, last, ks, u : /\ d = Replaced(c, x, p, w) /\ last = LastBelow(c, x)
                            /\ ks = RemoveFirst(After(c.kids[p], x, n + 1), x) /\ u = AllOf(d)
  OBVIOUS
<1>3. SUFFICES ASSUME ~d.cut PROVE Chained(d.next, d.prev, u, N)
  BY <1>0, <1>2 DEF Listed
<1>4. EditParts(d, c, w, n, m, p, ks, c.prev[x], c.next[last], x, last)
  BY <1>1, <1>2, ReplacedParts
<1>5. ~c.cut /\ LinksEdited(c.next, c.prev, d.next, d.prev, n, m, c.prev[x], c.next[last], x, last)
  BY <1>3, <1>4 DEF EditParts
<1>6. Met(c, p) /\ Once(c)
  BY <1>5, FoundMet
<1>7. PICK S, X, Y, s : S = 0..N /\ X = Below(c, x) /\ Y = NewOnes(n, m) /\ s = AllOf(c)
  OBVIOUS
<1>8. Around(S, s, u, X, Y)
  BY <1>0, <1>1, <1>2, <1>6, <1>7, ReplacedPlace
<1>9. c.kids \in [0..n -> Seq(1..n)] /\ KidsNewer(c.kids, n)
  BY SoundParts
<1>10. X \in Seq(S) /\ X # <<>> /\ X[1] = x /\ last = Last(X)
  <2>1. Begins(c, n)
    BY <1>9, WalksBegin
  <2>2. last = Last(X)
    BY <1>2, <1>7 DEF LastBelow
  <2>3. X \in Seq(0..n) /\ X # <<>> /\ X[1] = x
    <3>1. x \in 0..n
      BY <1>1
    <3>2. Below(c, x) \in Seq(0..n) /\ Below(c, x) # <<>> /\ Below(c, x)[1] = x
      BY Zenon, <2>1, <3>1 DEF Begins
    <3> QED BY <1>7, <3>2
  <2>4. 0..n \subseteq S
    BY <1>0, <1>7
  <2> QED BY <2>2, <2>3, <2>4, SeqMonotonic
<1>11. s \in Seq(1..n) /\ Chained(c.next, c.prev, s, n)
  BY <1>5, <1>7, <1>9, AllOfType DEF Listed
<1>12. Y \in Seq(S)
  BY <1>0, <1>7, NewOnesType
<1>13. PutFor(c.next, c.prev, d.next, d.prev, s, u, n, m, S, X, Y, x, last)
  BY <1>5, <1>7, <1>8, <1>10, <1>11, <1>12 DEF PutFor
<1>14. Chained(d.next, d.prev, u, n + m)
  BY <1>13, PutForChained
<1> QED BY <1>0, <1>14

(* What an edit that puts Y behind X makes of links that lead along s.     *)
PutBehind(next, prev, next2, prev2, s, u, n, m, S, X, Y, last) ==
    /\ s \in Seq(1..n) /\ Chained(next, prev, s, n)
    /\ X \in Seq(S) /\ X # <<>> /\ Y \in Seq(S) /\ Y = NewOnes(n, m)
    /\ Around(S, s, u, X, Cat(X, Y)) /\ last = Last(X)
    /\ LinksEdited(next, prev, next2, prev2, n, m, last, next[last], 0, 0)

(* They lead along the sequence with Y behind X.                           *)
LEMMA PutBehindChained ==
  ASSUME NEW n \in Nat, NEW m \in Nat, NEW next, NEW prev, NEW next2, NEW prev2,
         NEW s, NEW u, NEW S, NEW X, NEW Y, NEW last,
         PutBehind(next, prev, next2, prev2, s, u, n, m, S, X, Y, last)
  PROVE  Chained(next2, prev2, u, n + m)
<1>1. s \in Seq(1..n) /\ Chained(next, prev, s, n)
  BY DEF PutBehind
<1>2. X \in Seq(S) /\ X # <<>> /\ Y \in Seq(S) /\ Y = NewOnes(n, m)
  BY DEF PutBehind
<1>3. Around(S, s, u, X, Cat(X, Y)) /\ last = Last(X)
  BY DEF PutBehind
<1>4. LinksEdited(next, prev, next2, prev2, n, m, last, next[last], 0, 0)
  BY DEF PutBehind
<1> QED BY <1>1, <1>2, <1>3, <1>4, InsertedChained

(* insertOperator does so, unless it cuts the list.                        *)
LEMMA InsertedListed ==
  ASSUME NEW T, NEW n \in Nat, NEW c, Sound(c, T, n), Listed(c, n),
         NEW x, NEW p \in Found(c, x),
         NEW w \in Seq(Operators), NEW m \in Nat \ {0}, Len(w) = m, OneOperator(w)
  PROVE  Listed(Inserted(c, x, p, w), n + m)
<1>0. PICK N \in Nat : N = n + m
  OBVIOUS
<1>1. p \in 0..n /\ x \in Range(c.kids[p]) /\ x \in 1..n
  BY FoundAt
<1>2. PICK d, last, ks, u : /\ d = Inserted(c, x, p, w) /\ last = LastBelow(c, x)
                            /\ ks = After(c.kids[p], x, n + 1) /\ u = AllOf(d)
  OBVIOUS
<1>3. SUFFICES ASSUME ~d.cut PROVE Chained(d.next, d.prev, u, N)
  BY <1>0, <1>2 DEF Listed
<1>4. EditParts(d, c, w, n, m, p, ks, last, c.next[last], 0, 0)
  BY <1>1, <1>2, InsertedParts
<1>5. ~c.cut /\ LinksEdited(c.next, c.prev, d.next, d.prev, n, m, last, c.next[last], 0, 0)
  BY <1>3, <1>4 DEF EditParts
<1>6. Met(c, p) /\ Once(c)
  BY <1>5, FoundMet
<1>7. PICK S, X, Y, s : S = 0..N /\ X = Below(c, x) /\ Y = NewOnes(n, m) /\ s = AllOf(c)
  OBVIOUS
<1>8. Around(S, s, u, X, Cat(X, Y))
  BY <1>0, <1>1, <1>2, <1>6, <1>7, InsertedPlace
<1>9. c.kids \in [0..n -> Seq(1..n)] /\ KidsNewer(c.kids, n)
  BY SoundParts
<1>10. X \in Seq(S) /\ X # <<>> /\ last = Last(X)
  <2>1. Begins(c, n)
    BY <1>9, WalksBegin
  <2>2. last = Last(X)
    BY <1>2, <1>7 DEF LastBelow
  <2>3. X \in Seq(0..n) /\ X # <<>>
    BY <1>1, <1>7, <2>1 DEF Begins
  <2>4. 0..n \subseteq S
    BY <1>0, <1>7
  <2> QED BY <2>2, <2>3, <2>4, SeqMonotonic
<1>11. s \in Seq(1..n) /\ Chained(c.next, c.prev, s, n)
  BY <1>5, <1>7, <1>9, AllOfType DEF Listed
<1>12. Y \in Seq(S)
  BY <1>0, <1>7, NewOnesType
<1>13. PutBehind(c.next, c.prev, d.next, d.prev, s, u, n, m, S, X, Y, last)
  BY <1>5, <1>7, <1>8, <1>10, <1>11, <1>12 DEF PutBehind
<1>14. Chained(d.next, d.prev, u, n + m)
  BY <1>13, PutBehindChained
<1> QED BY <1>0, <1>14

(* What an edit that puts new operators before s makes of its links.       *)
LEMMA PutBeforeChained ==
  ASSUME NEW T, NEW n \in Nat, NEW c, Sound(c, T, n), Listed(c, n), ~c.cut,
         NEW m \in Nat, NEW d, AllOf(d) = Cat(NewOnes(n, m), AllOf(c)),
         NEW second, second = FirstOf(c),
         LinksEdited(c.next, c.prev, d.next, d.prev, n, m, 0, second, 0, 0)
  PROVE  Listed(d, n + m)
<1>1. c.kids \in [0..n -> Seq(1..n)] /\ KidsNewer(c.kids, n)
  BY SoundParts
<1>2. PICK S, Y, s, u : S = 0..(n + m) /\ Y = NewOnes(n, m) /\ s = AllOf(c) /\ u = AllOf(d)
  OBVIOUS
<1>3. s \in Seq(1..n) /\ Chained(c.next, c.prev, s, n)
  BY <1>1, <1>2, AllOfType DEF Listed
<1>4. s \in Seq(S) /\ Y \in Seq(S) /\ u = Cat(Y, s)
  <2>1. 1..n \subseteq S
    BY <1>2
  <2>2. s \in Seq(S)
    BY <1>3, <2>1, SeqMonotonic
  <2> QED BY <1>2, <2>2, NewOnesType
<1>5. second = At(s, 1)
  <2>1. Begins(c, n)
    BY <1>1, WalksBegin
  <2>2. CASE c.kids[0] = <<>>
    <3>1. s = <<>>
      BY <1>2, <2>1, <2>2 DEF Begins
    <3>2. At(s, 1) = 0
      BY <3>1 DEF At
    <3> QED BY <2>2, <3>2 DEF FirstOf
  <2>3. CASE c.kids[0] # <<>>
    <3>1. s # <<>> /\ s[1] = Head(c.kids[0])
      BY <1>2, <2>1, <2>3 DEF Begins
    <3>2. 1 \in 1..Len(s)
      BY <1>3, <3>1, EmptySeq
    <3> QED BY <2>3, <3>1, <3>2 DEF FirstOf, At
  <2> QED BY <2>2, <2>3
<1>6. PICK next, prev, next2, prev2 :
        next = c.next /\ prev = c.prev /\ next2 = d.next /\ prev2 = d.prev
  OBVIOUS
<1>7. /\ Chained(next, prev, s, n) /\ Y = NewOnes(n, m)
      /\ LinksEdited(next, prev, next2, prev2, n, m, 0, At(s, 1), 0, 0)
  BY <1>2, <1>3, <1>5, <1>6
<1>8. Chained(next2, prev2, u, n + m)
  BY <1>3, <1>4, <1>7, FrontChained
<1> QED BY <1>2, <1>6, <1>8 DEF Listed

(* frontInsertOperator does so.                                            *)
LEMMA FrontInsertedListed ==
  ASSUME NEW T, NEW n \in Nat, NEW c, Sound(c, T, n), Listed(c, n),
         NEW w \in Seq(Operators), NEW m \in Nat \ {0}, Len(w) = m, OneOperator(w)
  PROVE  Listed(FrontInserted(c, w), n + m)
<1>1. PICK d, second, ks : d = FrontInserted(c, w) /\ second = FirstOf(c) /\ ks = <<n + 1>> \o c.kids[0]
  OBVIOUS
<1>2. SUFFICES ASSUME ~d.cut PROVE Listed(d, n + m)
  BY <1>1 DEF Listed
<1>3. EditParts(d, c, w, n, m, 0, ks, 0, second, 0, 0)
  BY <1>1, FrontParts
<1>4. ~c.cut /\ LinksEdited(c.next, c.prev, d.next, d.prev, n, m, 0, second, 0, 0)
  BY <1>2, <1>3 DEF EditParts
<1>5. AllOf(d) = Cat(NewOnes(n, m), AllOf(c))
  BY <1>1, FrontPlace
<1> QED BY <1>1, <1>4, <1>5, PutBeforeChained

(* insertOperator does so where there is none.                             *)
LEMMA InsertedFirstListed ==
  ASSUME NEW T, NEW n \in Nat, NEW c, Sound(c, T, n), Listed(c, n), c.kids[0] = <<>>,
         NEW w \in Seq(Operators), NEW m \in Nat \ {0}, Len(w) = m, OneOperator(w)
  PROVE  Listed(InsertedFirst(c, w), n + m)
<1>1. PICK d, second, ks : d = InsertedFirst(c, w) /\ second = 0 /\ ks = <<n + 1>>
  OBVIOUS
<1>2. SUFFICES ASSUME ~d.cut PROVE Listed(d, n + m)
  BY <1>1 DEF Listed
<1>3. EditParts(d, c, w, n, m, 0, ks, 0, second, 0, 0)
  BY <1>1, FirstParts
<1>4. ~c.cut /\ LinksEdited(c.next, c.prev, d.next, d.prev, n, m, 0, second, 0, 0)
  BY <1>2, <1>3 DEF EditParts
<1>5. AllOf(d) = Cat(NewOnes(n, m), AllOf(c))
  BY <1>1, FirstPlace
<1>6. second = FirstOf(c)
  BY <1>1 DEF FirstOf
<1> QED BY <1>1, <1>4, <1>5, <1>6, PutBeforeChained

(* A content stream that has been parsed has such a list.                  *)
LEMMA TreeListed ==
  ASSUME NEW w \in Seq(Operators), NEW n \in Nat, Len(w) = n,
         NEW c, c.kids = TreeOf(w).kids, c.next = TreeOf(w).next, c.prev = TreeOf(w).prev
  PROVE  Listed(c, n)
<1>1. PICK t, s : t = TreeOf(w) /\ s = AllOf(t)
  OBVIOUS
<1>2. s \in Seq(0..n) /\ Len(s) = n /\ \A k \in 1..n : s[k] = k
  BY <1>1, TreeWalked
<1>3. AllOf(c) = s
  <2>1. c.kids = t.kids
    BY <1>1
  <2>2. \A roots : Preorder(c, roots) = Preorder(t, roots)
    BY <2>1 DEF Preorder
  <2> QED BY <1>1, <2>1, <2>2 DEF AllOf
<1>4. PICK next, prev : next = c.next /\ prev = c.prev
  OBVIOUS
<1>5. /\ \A i \in 1..n : next[i] = IF i = n THEN 0 ELSE i + 1
      /\ \A i \in 1..n : prev[i] = i - 1
  BY <1>1, <1>4 DEF TreeOf, Tree
<1>6. IsInjective(s)
  <2>1. DOMAIN s = 1..n
    BY <1>2, LenProperties
  <2> QED BY <1>2, <2>1 DEF IsInjective
<1>7. Linked(next, prev, s)
  <2>1. ASSUME NEW i \in 1..n PROVE next[i] = At(s, i + 1) /\ prev[i] = At(s, i - 1)
    <3>1. At(s, i + 1) = IF i = n THEN 0 ELSE i + 1
      BY <1>2 DEF At
    <3>2. At(s, i - 1) = i - 1
      BY <1>2 DEF At
    <3> QED BY <1>5, <3>1, <3>2
  <2> QED BY <1>2, <2>1 DEF Linked
<1>8. Ranked(next, n)
  <2>1. PICK R : R = [i \in 0..n |-> IF i = 0 THEN 0 ELSE n + 1 - i]
    OBVIOUS
  <2>2. n + 1 \in Nat /\ R \in [0..n -> 0..(n + 1)] /\ R[0] = 0
    BY <2>1
  <2>3. \A y \in 1..n : next[y] \in 0..n /\ R[next[y]] < R[y]
    BY SMTT(30), <1>5, <2>1
  <2>4. Ranks(R, n + 1, next, n)
    BY <2>2, <2>3 DEF Ranks
  <2> QED BY <2>4 DEF Ranked
<1> QED BY <1>3, <1>4, <1>6, <1>7, <1>8 DEF Listed, Chained

(* What changes neither the tree nor the list keeps it so.                 *)
LEMMA SameListed ==
  ASSUME NEW n, NEW c, Listed(c, n), NEW d,
         d.kids = c.kids, d.next = c.next, d.prev = c.prev, d.cut = c.cut
  PROVE  Listed(d, n)
<1>1. \A roots : Preorder(d, roots) = Preorder(c, roots)
  BY DEF Preorder
<1>2. AllOf(d) = AllOf(c)
  BY <1>1 DEF AllOf
<1> QED BY <1>2 DEF Listed

-----------------------------------------------------------------------------
(* What the edits make of the word.                                        *)

(* The parts of a sequence of three.                                       *)
CutInto(s, a, b, e, k, l) ==
    /\ SubSeq(s, 1, k) = a
    /\ SubSeq(s, k + l + 1, Len(s)) = e
    /\ Len(s) = k + l + Len(e) /\ Len(e) \in Nat
    /\ l # 0 => s[k + 1] = b[1]

(* A sequence that is joined of three has these parts.                     *)
LEMMA ThreeParts ==
  ASSUME NEW S, NEW a \in Seq(S), NEW b \in Seq(S), NEW e \in Seq(S),
         NEW s, s = Cat(Cat(a, b), e), NEW k \in Nat, k = Len(a), NEW l \in Nat, l = Len(b)
  PROVE  CutInto(s, a, b, e, k, l)
<1>1. PICK m \in Nat : m = Len(e)
  BY LenProperties
<1>2. PICK u : u = a \o b
  OBVIOUS
<1>3. u \in Seq(S) /\ s = u \o e
  <2>1. Cat(a, b) \in Seq(S)
    BY CatFacts
  <2> QED BY <1>2, <2>1 DEF Cat
<1>4. JoinsAt(u, a, b, k, l) /\ Len(u) = k + l
  BY <1>1, <1>2, ConcatAt
<1>5. PICK kl \in Nat : kl = k + l
  OBVIOUS
<1>6. JoinsAt(s, u, e, kl, m) /\ Len(s) = kl + m
  <2>1. Len(u) = kl /\ Len(e) = m
    BY <1>1, <1>4, <1>5
  <2> QED BY <1>3, <2>1, ConcatAt
<1>7. s \in Seq(S)
  BY <1>3, ConcatProperties
<1>8. \A i \in 1..(kl + m) : s[i] \in S
  BY <1>6, <1>7, ElementOfSeq
<1>9. SubSeq(s, 1, k) = a
  <2>1. PICK v : v = SubSeq(s, 1, k)
    OBVIOUS
  <2>2. \A i \in 1..k : s[i] \in S
    BY <1>5, <1>8
  <2>3. v \in Seq(S) /\ Len(v) = k /\ \A i \in 1..k : v[i] = s[i]
    <3>1. /\ v \in Seq(S) /\ Len(v) = (IF 1 <= k THEN k - 1 + 1 ELSE 0)
          /\ \A i \in 1..(k - 1 + 1) : v[i] = s[1 + i - 1]
      BY <2>1, <2>2, SubSeqProperties
    <3> QED BY <3>1
  <2>4. \A i \in 1..k : v[i] = a[i]
    <3>1. \A i \in 1..k : i \in 1..kl
      BY <1>5
    <3>2. \A i \in 1..k : s[i] = u[i]
      BY <1>6, <3>1 DEF JoinsAt
    <3>3. \A i \in 1..k : u[i] = a[i]
      BY <1>4 DEF JoinsAt
    <3> QED BY <2>3, <3>2, <3>3
  <2> QED BY <2>1, <2>3, <2>4, SameSeq
<1>10. SubSeq(s, kl + 1, kl + m) = e
  <2>1. PICK v, x, y : v = SubSeq(s, x, y) /\ x = kl + 1 /\ y = kl + m
    OBVIOUS
  <2>2. x \in Int /\ y \in Int /\ y - x + 1 = m
    BY <2>1
  <2>3. \A i \in x..y : s[i] \in S
    BY <1>8, <2>1
  <2>4. /\ v \in Seq(S) /\ Len(v) = (IF x <= y THEN y - x + 1 ELSE 0)
        /\ \A i \in 1..(y - x + 1) : v[i] = s[x + i - 1]
    BY <2>1, <2>2, <2>3, SubSeqProperties
  <2>5. Len(v) = m
    BY <2>1, <2>2, <2>4
  <2>6. \A i \in 1..m : v[i] = e[i]
    <3>1. \A i \in 1..m : x + i - 1 = kl + i
      BY <2>1
    <3>2. \A i \in 1..m : s[kl + i] = e[i]
      BY <1>6 DEF JoinsAt
    <3>3. \A i \in 1..m : v[i] = s[x + i - 1]
      BY <2>2, <2>4
    <3> QED BY <3>1, <3>2, <3>3
  <2>7. v = e
    BY <1>1, <2>4, <2>5, <2>6, SameSeq
  <2> QED BY <2>1, <2>7
<1>11. l # 0 => s[k + 1] = b[1]
  <2>1. SUFFICES ASSUME l # 0 PROVE s[k + 1] = b[1]
    OBVIOUS
  <2>2. 1 \in 1..l /\ k + 1 \in 1..kl
    BY <1>5, <2>1
  <2>3. u[k + 1] = b[1] /\ s[k + 1] = u[k + 1]
    BY <1>4, <1>6, <2>2 DEF JoinsAt
  <2> QED BY <2>3
<1> QED BY <1>1, <1>5, <1>6, <1>9, <1>10, <1>11 DEF CutInto

(* An operator, with all that is below it, cuts the word into three.       *)
WordCut(f, s, i, A, X, B) ==
    /\ SubSeq(RootWalks(f, s), 1, i - 1) = RootWalks(f, A)
    /\ SubSeq(RootWalks(f, s), i + Len(X), Len(RootWalks(f, s))) = RootWalks(f, B)

(* So it is with the word of a walk that has X in the middle.              *)
LEMMA WordsCut ==
  ASSUME NEW n \in Nat, NEW s \in Seq(1..n), IsInjective(s), NEW i \in 1..Len(s), NEW f,
         NEW S, NEW A \in Seq(S), NEW B \in Seq(S), NEW X \in Seq(S), X # <<>>,
         s = Cat(Cat(A, X), B), s[i] = X[1]
  PROVE  WordCut(f, s, i, A, X, B)
<1>1. PICK k \in Nat, l \in Nat : k = Len(A) /\ l = Len(X)
  BY LenProperties
<1>2. l # 0
  BY <1>1, EmptySeq
<1>3. Len(s) = k + l + Len(B) /\ s[k + 1] = X[1] /\ Len(B) \in Nat
  <2>1. CutInto(s, A, X, B, k, l)
    BY <1>1, ThreeParts
  <2> QED BY <1>2, <2>1 DEF CutInto
<1>4. i = k + 1
  <2>1. DOMAIN s = 1..Len(s)
    BY LenProperties
  <2>2. k + 1 \in 1..Len(s)
    BY <1>2, <1>3
  <2> QED BY <1>3, <2>1, <2>2 DEF IsInjective
<1>5. PICK T : T = {f[x] : x \in S}
  OBVIOUS
<1>6. Gives(f, S, T)
  BY <1>5 DEF Gives
<1>7. PICK a, x, b, w : /\ a = RootWalks(f, A) /\ x = RootWalks(f, X)
                        /\ b = RootWalks(f, B) /\ w = RootWalks(f, s)
  OBVIOUS
<1>8. /\ a \in Seq(T) /\ x \in Seq(T) /\ b \in Seq(T)
      /\ Len(a) = k /\ Len(x) = l
  <2>1. \A t \in Seq(S) : RootWalks(f, t) \in Seq(T) /\ Len(RootWalks(f, t)) = Len(t)
    BY <1>6, MapType
  <2> QED BY <1>1, <1>7, <2>1
<1>9. w = Cat(Cat(a, x), b)
  <2>1. Cat(A, X) \in Seq(S)
    BY CatFacts
  <2>2. RootWalks(f, Cat(A, X)) = Cat(a, x)
    BY <1>6, <1>7, MapConcat
  <2>3. PICK AX : AX = Cat(A, X)
    OBVIOUS
  <2>4. AX \in Seq(S)
    BY <2>1, <2>3
  <2>5. RootWalks(f, Cat(AX, B)) = Cat(RootWalks(f, AX), RootWalks(f, B))
    BY <1>6, <2>4, MapConcat
  <2> QED BY <1>7, <2>2, <2>3, <2>5
<1>10. SubSeq(w, 1, k) = a /\ SubSeq(w, k + l + 1, Len(w)) = b
  <2>1. CutInto(w, a, x, b, k, l)
    BY <1>8, <1>9, ThreeParts
  <2> QED BY <2>1 DEF CutInto
<1>11. i - 1 = k /\ i + Len(X) = k + l + 1
  BY <1>1, <1>4
<1> QED BY <1>7, <1>10, <1>11 DEF WordCut

(* The same operators are spelled the same.                                *)
Agree(f, g, S) == \A x \in S : f[x] = g[x]

(* Then all walks over S have the same words.                              *)
LEMMA SameWords ==
  ASSUME NEW S, NEW f, NEW g, Agree(f, g, S)
  PROVE  \A a \in Seq(S) : RootWalks(f, a) = RootWalks(g, a)
<1> TAKE a \in Seq(S)
<1>1. \A k \in 1..Len(a) : f[a[k]] = g[a[k]]
  BY ElementOfSeq DEF Agree
<1> QED BY <1>1 DEF RootWalks

(* A sequence is one of what it holds.                                     *)
LEMMA SeqInRange ==
  ASSUME NEW S, NEW s, s \in Seq(S), NEW T, Range(s) \subseteq T
  PROVE  s \in Seq(T)
<1>0. Len(s) \in Nat /\ DOMAIN s = 1..Len(s)
  BY LenProperties
<1>1. PICK n \in Nat : n = Len(s)
  BY <1>0
<1>2. DOMAIN s = 1..n
  BY <1>0, <1>1
<1>3. \A k \in 1..n : s[k] \in T
  BY Zenon, <1>2 DEF Range
<1>4. s \in [1..n -> T]
  BY <1>1, <1>2, <1>3, SeqIsFunction
<1>5. s \in Seq(T) /\ Len(s) = n
  BY <1>4, SeqIsFunction
<1> QED BY <1>5

(* What an edit that puts Y in the place of X, found at i, makes of the    *)
(* word: f was what the operators are, g is what they have become.         *)
WordEdit(f, g, s, u, i, S, X, Y, before, after) ==
    /\ before = SubSeq(RootWalks(f, s), 1, i - 1)
    /\ after = SubSeq(RootWalks(f, s), i + Len(X), Len(RootWalks(f, s)))
    /\ RootWalks(g, u) = Cat(Cat(before, RootWalks(g, Y)), after)
    /\ RootWalks(g, X) = RootWalks(f, X)
    /\ \E T : Gives(g, S, T) /\ before \in Seq(T) /\ after \in Seq(T)

(* What that is about.                                                     *)
WordPut(f, g, n, s, u, i, S, X, Y) ==
    /\ s \in Seq(1..n) /\ IsInjective(s) /\ i \in 1..Len(s) /\ s[i] = X[1]
    /\ \A y \in 1..n : g[y] = f[y]
    /\ X \in Seq(S) /\ X # <<>> /\ Y \in Seq(S)
    /\ Around(S, s, u, X, Y)

(* The word of the edited walk has the same before and after.              *)
LEMMA WordEdited ==
  ASSUME NEW n \in Nat, NEW f, NEW g, NEW s, NEW u, NEW i, NEW S, NEW X, NEW Y,
         WordPut(f, g, n, s, u, i, S, X, Y)
  PROVE  \E before, after : WordEdit(f, g, s, u, i, S, X, Y, before, after)
<1>1. /\ s \in Seq(1..n) /\ IsInjective(s) /\ i \in 1..Len(s) /\ s[i] = X[1]
      /\ \A y \in 1..n : g[y] = f[y]
      /\ X \in Seq(S) /\ X # <<>> /\ Y \in Seq(S)
  BY DEF WordPut
<1>2. PICK A \in Seq(S), B \in Seq(S) : s = Cat(Cat(A, X), B) /\ u = Cat(Cat(A, Y), B)
  BY Zenon DEF WordPut, Around
<1>3. WordCut(f, s, i, A, X, B)
  BY <1>1, <1>2, WordsCut
<1>4. A \in Seq(1..n) /\ X \in Seq(1..n) /\ B \in Seq(1..n)
  <2>1. PICK AX : AX = Cat(A, X)
    OBVIOUS
  <2>2. \A a, b \in Seq(S) : Cat(a, b) \in Seq(S) /\ Range(Cat(a, b)) = Range(a) \cup Range(b)
    BY CatFacts
  <2>3. AX \in Seq(S) /\ Range(AX) = Range(A) \cup Range(X)
    BY <1>1, <2>1, <2>2
  <2>4. Range(s) = Range(AX) \cup Range(B)
    BY <1>2, <2>1, <2>2, <2>3
  <2>5. Range(s) \subseteq 1..n
    <3>1. \A k \in DOMAIN s : s[k] \in 1..n
      BY <1>1, ElementOfSeq, LenProperties
    <3> QED BY Zenon, <3>1 DEF Range
  <2>6. Range(A) \subseteq 1..n /\ Range(X) \subseteq 1..n /\ Range(B) \subseteq 1..n
    BY <2>3, <2>4, <2>5
  <2> QED BY <1>1, <2>6, SeqInRange
<1>5. RootWalks(g, A) = RootWalks(f, A) /\ RootWalks(g, X) = RootWalks(f, X) /\ RootWalks(g, B) = RootWalks(f, B)
  <2>1. \A y \in 1..n : g[y] = f[y]
    BY <1>1
  <2>2. \A t \in Seq(1..n) : RootWalks(g, t) = RootWalks(f, t)
    <3>1. Agree(g, f, 1..n)
      BY <2>1 DEF Agree
    <3> QED BY <3>1, SameWords
  <2> QED BY <1>4, <2>2
<1>6. PICK T : T = {g[x] : x \in S}
  OBVIOUS
<1>7. Gives(g, S, T)
  BY <1>6 DEF Gives
<1>8. RootWalks(g, u) = Cat(Cat(RootWalks(g, A), RootWalks(g, Y)), RootWalks(g, B))
  <2>1. Cat(A, Y) \in Seq(S)
    BY <1>1, CatFacts
  <2>2. RootWalks(g, Cat(A, Y)) = Cat(RootWalks(g, A), RootWalks(g, Y))
    BY <1>1, <1>7, MapConcat
  <2>3. PICK AY : AY = Cat(A, Y)
    OBVIOUS
  <2>4. AY \in Seq(S)
    BY <2>1, <2>3
  <2>5. RootWalks(g, Cat(AY, B)) = Cat(RootWalks(g, AY), RootWalks(g, B))
    BY <1>7, <2>4, MapConcat
  <2> QED BY <1>2, <2>2, <2>3, <2>5
<1>9. PICK before, after : /\ before = SubSeq(RootWalks(f, s), 1, i - 1)
                           /\ after = SubSeq(RootWalks(f, s), i + Len(X), Len(RootWalks(f, s)))
  OBVIOUS
<1>10. before = RootWalks(f, A) /\ after = RootWalks(f, B)
  BY <1>3, <1>9 DEF WordCut
<1>11. RootWalks(g, u) = Cat(Cat(before, RootWalks(g, Y)), after)
  BY Zenon, <1>5, <1>8, <1>10
<1>12. before \in Seq(T) /\ after \in Seq(T)
  <2>1. \A t \in Seq(S) : RootWalks(g, t) \in Seq(T) /\ Len(RootWalks(g, t)) = Len(t)
    BY <1>7, MapType
  <2> QED BY <1>5, <1>10, <2>1
<1> QED BY Zenon, <1>5, <1>7, <1>9, <1>11, <1>12 DEF WordEdit

(* The operator at i, its place in the tree and what is below it.          *)
EditedAt(c, n, i, x, p, X) ==
    /\ i \in 1..Len(AllOf(c)) /\ x = AllOf(c)[i] /\ p \in Found(c, x)
    /\ X = Below(c, x)

(* It is met by the walk, and is the first of what is below it.            *)
LEMMA OperatorAt ==
  ASSUME NEW T, NEW n \in Nat, NEW c, Sound(c, T, n), Listed(c, n), ~c.cut,
         NEW i, NEW x, NEW p, NEW X, EditedAt(c, n, i, x, p, X)
  PROVE  /\ p \in 0..n /\ x \in Range(c.kids[p]) /\ x \in 1..n /\ Met(c, p) /\ Once(c)
         /\ AllOf(c) \in Seq(1..n) /\ AllOf(c)[i] = X[1] /\ i \in 1..Len(AllOf(c))
         /\ X \in Seq(0..n) /\ X # <<>>
<1>1. /\ i \in 1..Len(AllOf(c)) /\ x = AllOf(c)[i] /\ p \in Found(c, x)
      /\ X = Below(c, x)
  BY DEF EditedAt
<1>2. p \in 0..n /\ x \in Range(c.kids[p]) /\ x \in 1..n
  BY <1>1, FoundAt
<1>3. Met(c, p) /\ Once(c)
  BY <1>1, FoundMet
<1>4. c.kids \in [0..n -> Seq(1..n)] /\ KidsNewer(c.kids, n)
  BY SoundParts
<1>5. AllOf(c) \in Seq(1..n)
  BY <1>4, AllOfType
<1>6. X \in Seq(0..n) /\ X # <<>> /\ X[1] = x
  <2>1. Begins(c, n)
    BY <1>4, WalksBegin
  <2>2. x \in 0..n
    BY <1>2
  <2>3. Below(c, x) \in Seq(0..n) /\ Below(c, x) # <<>> /\ Below(c, x)[1] = x
    BY Zenon, <2>1, <2>2 DEF Begins
  <2> QED BY <1>1, <2>3
<1> QED BY <1>1, <1>2, <1>3, <1>5, <1>6

(* The word of the operators s.                                            *)
LEMMA WordIs ==
  ASSUME NEW c, NEW f, f = c.op, NEW s
  PROVE  WordOf(c, s) = RootWalks(f, s)
BY DEF WordOf, RootWalks

(* New operators are spelled as the word they are made of.                 *)
LEMMA NewOnesSpelled ==
  ASSUME NEW n \in Nat, NEW m \in Nat, NEW S, NEW w \in Seq(S), Len(w) = m,
         NEW g, \A k \in 1..m : g[n + k] = w[k]
  PROVE  RootWalks(g, NewOnes(n, m)) = w
<1>1. PICK s : s = NewOnes(n, m)
  OBVIOUS
<1>2. Len(s) = m /\ \A k \in 1..m : s[k] = n + k
  BY <1>1 DEF NewOnes
<1>3. RootWalks(g, s) = [k \in 1..m |-> w[k]]
  BY <1>2 DEF RootWalks
<1>4. w = [k \in 1..m |-> w[k]]
  BY LenProperties
<1> QED BY <1>1, <1>3, <1>4

(* What the edits make of the word: X is what is below the i-th operator.  *)
DeletedSpells(c, i, x, p, X) ==
    Spelled(Deleted(c, x, p)) =
      SubSeq(Spelled(c), 1, i - 1) \o SubSeq(Spelled(c), i + Len(X), Len(Spelled(c)))

ReplacedSpells(c, i, x, p, X, w) ==
    Spelled(Replaced(c, x, p, w)) =
      SubSeq(Spelled(c), 1, i - 1) \o w \o SubSeq(Spelled(c), i + Len(X), Len(Spelled(c)))

InsertedSpells(c, i, x, p, X, w) ==
    Spelled(Inserted(c, x, p, w)) =
      SubSeq(Spelled(c), 1, i - 1) \o WordOf(c, X) \o w
        \o SubSeq(Spelled(c), i + Len(X), Len(Spelled(c)))

(* deleteOperator takes the operator and all that is below it.             *)
LEMMA DeletedWord ==
  ASSUME NEW T, NEW n \in Nat, NEW c, Sound(c, T, n), Listed(c, n), ~c.cut,
         NEW i, NEW x, NEW p, NEW X, EditedAt(c, n, i, x, p, X)
  PROVE  DeletedSpells(c, i, x, p, X)
<1>1. /\ p \in 0..n /\ x \in Range(c.kids[p]) /\ x \in 1..n /\ Met(c, p) /\ Once(c)
      /\ AllOf(c) \in Seq(1..n) /\ AllOf(c)[i] = X[1] /\ i \in 1..Len(AllOf(c))
      /\ X \in Seq(0..n) /\ X # <<>>
  BY OperatorAt
<1>2. PICK d, last, m, w, ks, u : /\ d = Deleted(c, x, p) /\ last = LastBelow(c, x) /\ m = 0
                                  /\ w = <<>> /\ ks = RemoveFirst(c.kids[p], x) /\ u = AllOf(d)
  OBVIOUS
<1>3. EditParts(d, c, w, n, m, p, ks, c.prev[x], c.next[last], x, last)
  BY <1>1, <1>2, DeletedParts
<1>4. PICK f, g, s, S, Y : f = c.op /\ g = d.op /\ s = AllOf(c) /\ S = 0..n /\ Y = NewOnes(n, 0)
  OBVIOUS
<1>5. \A y \in 1..n : g[y] = f[y]
  BY <1>3, <1>4 DEF EditParts
<1>6. Around(S, s, u, X, Y)
  <2>1. X = Below(c, x)
    BY DEF EditedAt
  <2> QED BY <1>1, <1>2, <1>4, <2>1, DeletedPlace
<1>7. Y = <<>> /\ Y \in Seq(S)
  <2>1. Y = <<>>
    BY <1>4 DEF NewOnes
  <2> QED BY <2>1, EmptySeq
<1>8. s \in Seq(1..n) /\ IsInjective(s) /\ i \in 1..Len(s) /\ s[i] = X[1] /\ X \in Seq(S)
  BY <1>1, <1>4 DEF Once
<1>9. WordPut(f, g, n, s, u, i, S, X, Y)
  BY <1>1, <1>5, <1>6, <1>7, <1>8 DEF WordPut
<1>10. PICK before, after : WordEdit(f, g, s, u, i, S, X, Y, before, after)
  BY <1>9, WordEdited
<1>11. /\ before = SubSeq(RootWalks(f, s), 1, i - 1)
       /\ after = SubSeq(RootWalks(f, s), i + Len(X), Len(RootWalks(f, s)))
       /\ RootWalks(g, u) = Cat(Cat(before, RootWalks(g, Y)), after)
  BY Zenon, <1>10 DEF WordEdit
<1>12. PICK U : before \in Seq(U) /\ after \in Seq(U)
  BY <1>10 DEF WordEdit
<1>13. RootWalks(g, Y) = <<>>
  BY <1>7 DEF RootWalks
<1>14. Cat(before, <<>>) = before
  BY <1>12, CatFacts
<1>15. RootWalks(g, u) = before \o after
  BY <1>11, <1>13, <1>14 DEF Cat
<1>16. Spelled(c) = RootWalks(f, s) /\ Spelled(d) = RootWalks(g, u)
  BY <1>2, <1>4, WordIs DEF Spelled
<1> QED BY <1>2, <1>11, <1>15, <1>16 DEF DeletedSpells

(* replaceOperator puts the new word in the place of it.                   *)
LEMMA ReplacedWord ==
  ASSUME NEW T, NEW n \in Nat, NEW c, Sound(c, T, n), Listed(c, n), ~c.cut,
         NEW i, NEW x, NEW p, NEW X, EditedAt(c, n, i, x, p, X),
         NEW w \in Seq(Operators), NEW m \in Nat \ {0}, Len(w) = m, OneOperator(w)
  PROVE  ReplacedSpells(c, i, x, p, X, w)
<1>0. PICK N \in Nat : N = n + m
  OBVIOUS
<1>1. /\ p \in 0..n /\ x \in Range(c.kids[p]) /\ x \in 1..n /\ Met(c, p) /\ Once(c)
      /\ AllOf(c) \in Seq(1..n) /\ AllOf(c)[i] = X[1] /\ i \in 1..Len(AllOf(c))
      /\ X \in Seq(0..n) /\ X # <<>>
  BY OperatorAt
<1>2. PICK d, last, ks, u : /\ d = Replaced(c, x, p, w) /\ last = LastBelow(c, x)
                            /\ ks = RemoveFirst(After(c.kids[p], x, n + 1), x) /\ u = AllOf(d)
  OBVIOUS
<1>3. EditParts(d, c, w, n, m, p, ks, c.prev[x], c.next[last], x, last)
  BY <1>1, <1>2, ReplacedParts
<1>4. PICK f, g, s, S, Y : f = c.op /\ g = d.op /\ s = AllOf(c) /\ S = 0..N /\ Y = NewOnes(n, m)
  OBVIOUS
<1>5. (\A y \in 1..n : g[y] = f[y]) /\ \A k \in 1..m : g[n + k] = w[k]
  BY <1>3, <1>4 DEF EditParts
<1>6. Around(S, s, u, X, Y)
  <2>1. X = Below(c, x)
    BY DEF EditedAt
  <2> QED BY <1>0, <1>1, <1>2, <1>4, <2>1, ReplacedPlace
<1>7. Y \in Seq(S) /\ X \in Seq(S)
  <2>1. 0..n \subseteq S
    BY <1>0, <1>4
  <2>2. X \in Seq(S)
    BY <1>1, <2>1, SeqMonotonic
  <2> QED BY <1>0, <1>4, <2>2, NewOnesType
<1>8. s \in Seq(1..n) /\ IsInjective(s) /\ i \in 1..Len(s) /\ s[i] = X[1]
  BY <1>1, <1>4 DEF Once
<1>9. WordPut(f, g, n, s, u, i, S, X, Y)
  BY <1>1, <1>5, <1>6, <1>7, <1>8 DEF WordPut
<1>10. PICK before, after : WordEdit(f, g, s, u, i, S, X, Y, before, after)
  BY <1>9, WordEdited
<1>11. /\ before = SubSeq(RootWalks(f, s), 1, i - 1)
       /\ after = SubSeq(RootWalks(f, s), i + Len(X), Len(RootWalks(f, s)))
       /\ RootWalks(g, u) = Cat(Cat(before, RootWalks(g, Y)), after)
  BY Zenon, <1>10 DEF WordEdit
<1>13. RootWalks(g, Y) = w
  <2>1. \A k \in 1..m : g[n + k] = w[k]
    BY <1>5
  <2> QED BY <1>4, <2>1, NewOnesSpelled
<1>15. RootWalks(g, u) = before \o w \o after
  BY <1>11, <1>13 DEF Cat
<1>16. Spelled(c) = RootWalks(f, s) /\ Spelled(d) = RootWalks(g, u)
  BY <1>2, <1>4, WordIs DEF Spelled
<1> QED BY <1>2, <1>11, <1>15, <1>16 DEF ReplacedSpells

(* insertOperator puts the new word behind it.                             *)
LEMMA InsertedWord ==
  ASSUME NEW T, NEW n \in Nat, NEW c, Sound(c, T, n), Listed(c, n), ~c.cut,
         NEW i, NEW x, NEW p, NEW X, EditedAt(c, n, i, x, p, X),
         NEW w \in Seq(Operators), NEW m \in Nat \ {0}, Len(w) = m, OneOperator(w)
  PROVE  InsertedSpells(c, i, x, p, X, w)
<1>0. PICK N \in Nat : N = n + m
  OBVIOUS
<1>1. /\ p \in 0..n /\ x \in Range(c.kids[p]) /\ x \in 1..n /\ Met(c, p) /\ Once(c)
      /\ AllOf(c) \in Seq(1..n) /\ AllOf(c)[i] = X[1] /\ i \in 1..Len(AllOf(c))
      /\ X \in Seq(0..n) /\ X # <<>>
  BY OperatorAt
<1>2. PICK d, last, ks, u : /\ d = Inserted(c, x, p, w) /\ last = LastBelow(c, x)
                            /\ ks = After(c.kids[p], x, n + 1) /\ u = AllOf(d)
  OBVIOUS
<1>3. EditParts(d, c, w, n, m, p, ks, last, c.next[last], 0, 0)
  BY <1>1, <1>2, InsertedParts
<1>4. PICK f, g, s, S, Z : f = c.op /\ g = d.op /\ s = AllOf(c) /\ S = 0..N /\ Z = NewOnes(n, m)
  OBVIOUS
<1>5. (\A y \in 1..n : g[y] = f[y]) /\ \A k \in 1..m : g[n + k] = w[k]
  BY <1>3, <1>4 DEF EditParts
<1>20. PICK Y : Y = Cat(X, Z)
  OBVIOUS
<1>6. Around(S, s, u, X, Y)
  <2>1. X = Below(c, x)
    BY DEF EditedAt
  <2> QED BY <1>0, <1>1, <1>2, <1>4, <1>20, <2>1, InsertedPlace
<1>7. Z \in Seq(S) /\ X \in Seq(S) /\ Y \in Seq(S)
  <2>1. 0..n \subseteq S
    BY <1>0, <1>4
  <2>2. X \in Seq(S)
    BY <1>1, <2>1, SeqMonotonic
  <2>3. Z \in Seq(S)
    BY <1>0, <1>4, NewOnesType
  <2> QED BY <1>20, <2>2, <2>3, CatFacts
<1>8. s \in Seq(1..n) /\ IsInjective(s) /\ i \in 1..Len(s) /\ s[i] = X[1]
  BY <1>1, <1>4 DEF Once
<1>9. WordPut(f, g, n, s, u, i, S, X, Y)
  BY <1>1, <1>5, <1>6, <1>7, <1>8 DEF WordPut
<1>10. PICK before, after : WordEdit(f, g, s, u, i, S, X, Y, before, after)
  BY <1>9, WordEdited
<1>11. /\ before = SubSeq(RootWalks(f, s), 1, i - 1)
       /\ after = SubSeq(RootWalks(f, s), i + Len(X), Len(RootWalks(f, s)))
       /\ RootWalks(g, u) = Cat(Cat(before, RootWalks(g, Y)), after)
       /\ RootWalks(g, X) = RootWalks(f, X)
  BY Zenon, <1>10 DEF WordEdit
<1>12. PICK U : Gives(g, S, U) /\ before \in Seq(U) /\ after \in Seq(U)
  BY Zenon, <1>10 DEF WordEdit
<1>13. RootWalks(g, Z) = w
  <2>1. \A k \in 1..m : g[n + k] = w[k]
    BY <1>5
  <2> QED BY <1>4, <2>1, NewOnesSpelled
<1>14. PICK sub : sub = RootWalks(f, X)
  OBVIOUS
<1>15. RootWalks(g, Y) = Cat(sub, w)
  <2>1. RootWalks(g, Cat(X, Z)) = Cat(RootWalks(g, X), RootWalks(g, Z))
    BY <1>7, <1>12, MapConcat
  <2> QED BY <1>11, <1>13, <1>14, <1>20, <2>1
<1>16. sub \in Seq(U) /\ w \in Seq(U)
  <2>1. \A t \in Seq(S) : RootWalks(g, t) \in Seq(U) /\ Len(RootWalks(g, t)) = Len(t)
    BY <1>12, MapType
  <2> QED BY <1>7, <1>11, <1>13, <1>14, <2>1
<1>17. Cat(before, Cat(sub, w)) = Cat(Cat(before, sub), w)
  <2>1. \A a, b, e \in Seq(U) : Cat(Cat(a, b), e) = Cat(a, Cat(b, e))
    BY Zenon, CatFacts
  <2> QED BY <1>12, <1>16, <2>1
<1>18. RootWalks(g, u) = before \o sub \o w \o after
  BY <1>11, <1>15, <1>17 DEF Cat
<1>19. Spelled(c) = RootWalks(f, s) /\ Spelled(d) = RootWalks(g, u) /\ WordOf(c, X) = sub
  BY <1>2, <1>4, <1>14, WordIs DEF Spelled
<1> QED BY <1>2, <1>11, <1>18, <1>19 DEF InsertedSpells

(* A text that is replaced by another one is spelled nowhere any more.     *)
LEMMA TextGone ==
  ASSUME NEW T, NEW n \in Nat, NEW c, Sound(c, T, n), Listed(c, n), ~c.cut,
         NEW t, NEW u, u # t
  PROVE  t \notin Range(Spelled(TextReplaced(c, t, u)))
<1>1. PICK d, s : d = TextReplaced(c, t, u) /\ s = AllOf(c)
  OBVIOUS
<1>2. c \in ContentStreams(T, n) /\ c.kids \in [0..n -> Seq(1..n)] /\ KidsNewer(c.kids, n) /\ Len(c.op) = n
  BY SoundParts
<1>3. d.kids = c.kids /\ \A x \in 1..n : x \in Range(List(c)) => d.op[x] # t
  BY <1>1, <1>2 DEF TextReplaced, ContentStreams
<1>4. AllOf(d) = s
  <2>1. \A roots : Preorder(d, roots) = Preorder(c, roots)
    BY <1>3 DEF Preorder
  <2> QED BY <1>1, <1>3, <2>1 DEF AllOf
<1>5. List(c) = s
  BY <1>1, ListOf
<1>6. s \in Seq(1..n)
  BY <1>1, <1>2, AllOfType
<1>7. \A k \in 1..Len(s) : s[k] \in 1..n /\ s[k] \in Range(s)
  BY <1>6, ElementOfSeq, LenProperties DEF Range
<1>8. \A k \in 1..Len(s) : d.op[s[k]] # t
  BY <1>3, <1>5, <1>7
<1>9. Spelled(d) = [k \in 1..Len(s) |-> d.op[s[k]]]
  BY <1>4 DEF Spelled, WordOf
<1> QED BY <1>1, <1>8, <1>9 DEF Range

=============================================================================
