--------------------------- MODULE SequenceFacts ----------------------------
(***************************************************************************)
(* Facts about sequences that the proofs about annotations and contents of *)
(* a page use: the operators of SequencesExt that change one place or join *)
(* sequences, and induction.                                               *)
(* SequenceTheorems has an induction rule too, but its parameter is an     *)
(* operator.                                                               *)
(***************************************************************************)
EXTENDS Integers, SequencesExt, SequenceTheorems, WellFoundedInduction, TLAPS

(* Every non-empty set of natural numbers has a least element.             *)
LEMMA LeastNat ==
  ASSUME NEW S, S \subseteq Nat, S # {}
  PROVE  \E x \in S : \A y \in S : x <= y
<1> DEFINE Less == {ss \in Nat \X Nat : ss[1] < ss[2]}
<1>1. IsWellFoundedOn(Less, Nat)
  BY NatLessThanWellFounded DEF OpToRel
<1>2. PICK x \in S : \A y \in S : ~(<<y, x>> \in Less)
  <2> HIDE DEF Less
  <2> QED BY <1>1, WFMin
<1>3. ASSUME NEW y \in S PROVE x <= y
  <2>1. <<y, x>> \notin Less
    BY <1>2
  <2>2. y \in Nat /\ x \in Nat
    OBVIOUS
  <2> QED BY <2>1, <2>2
<1> QED BY <1>3

(* RemoveAt, pointwise.                                                    *)
LEMMA RemoveAtFacts ==
  ASSUME NEW S, NEW s \in Seq(S), NEW i \in 1..Len(s)
  PROVE  /\ RemoveAt(s, i) \in Seq(S)
         /\ Len(RemoveAt(s, i)) = Len(s) - 1
         /\ \A j \in 1..(Len(s) - 1) : RemoveAt(s, i)[j] = IF j < i THEN s[j] ELSE s[j + 1]
<1>1. PICK n \in Nat : n = Len(s)
  OBVIOUS
<1>2. \A j \in 1..n : s[j] \in S
  BY <1>1, ElementOfSeq
<1>3. PICK b : b = SubSeq(s, 1, i - 1)
  OBVIOUS
<1>4. /\ b \in Seq(S) /\ Len(b) = i - 1
      /\ \A j \in 1..(i - 1) : b[j] = s[j]
  <2>1. \A j \in 1..(i - 1) : s[j] \in S
    BY <1>1, <1>2
  <2>2. 1 \in Int /\ i - 1 \in Int
    BY <1>1
  <2>3. /\ b \in Seq(S) /\ Len(b) = IF 1 <= i - 1 THEN (i - 1) - 1 + 1 ELSE 0
        /\ \A j \in 1..((i - 1) - 1 + 1) : b[j] = s[1 + j - 1]
    BY <1>3, <2>1, <2>2, SubSeqProperties
  <2> QED BY <1>1, <2>3
<1>5. PICK e : e = SubSeq(s, i + 1, n)
  OBVIOUS
<1>6. /\ e \in Seq(S) /\ Len(e) = n - i
      /\ \A j \in 1..(n - i) : e[j] = s[i + j]
  <2>1. \A j \in (i + 1)..n : s[j] \in S
    BY <1>1, <1>2
  <2>2. i + 1 \in Int /\ n \in Int
    BY <1>1
  <2>3. /\ e \in Seq(S) /\ Len(e) = IF i + 1 <= n THEN n - (i + 1) + 1 ELSE 0
        /\ \A j \in 1..(n - (i + 1) + 1) : e[j] = s[(i + 1) + j - 1]
    BY <1>5, <2>1, <2>2, SubSeqProperties
  <2>4. i \in 1..n /\ n - (i + 1) + 1 = n - i /\ (~(i + 1 <= n) => n - i = 0)
    BY <1>1
  <2>5. Len(e) = n - i
    BY <2>3, <2>4
  <2>6. \A j \in 1..(n - i) : e[j] = s[i + j]
    <3>1. \A j \in 1..(n - i) : (i + 1) + j - 1 = i + j
      BY <2>4
    <3> QED BY <2>3, <2>4, <3>1
  <2> QED BY <2>3, <2>5, <2>6
<1>7. RemoveAt(s, i) = b \o e
  BY <1>1, <1>3, <1>5 DEF RemoveAt
<1>8. /\ b \o e \in Seq(S) /\ Len(b \o e) = (i - 1) + (n - i)
      /\ \A j \in 1..((i - 1) + (n - i)) : (b \o e)[j] = IF j <= i - 1 THEN b[j] ELSE e[j - (i - 1)]
  <2>1. /\ b \o e \in Seq(S) /\ Len(b \o e) = Len(b) + Len(e)
        /\ \A j \in 1..(Len(b) + Len(e)) :
              (b \o e)[j] = IF j <= Len(b) THEN b[j] ELSE e[j - Len(b)]
    BY <1>4, <1>6, ConcatProperties
  <2> QED BY <1>4, <1>6, <2>1
<1>9. ASSUME NEW j \in 1..(n - 1) PROVE (b \o e)[j] = IF j < i THEN s[j] ELSE s[j + 1]
  <2>1. (b \o e)[j] = IF j <= i - 1 THEN b[j] ELSE e[j - (i - 1)]
    <3>1. j \in 1..((i - 1) + (n - i))
      BY <1>1
    <3> QED BY <1>8, <3>1
  <2>2. CASE j < i
    BY <1>1, <1>4, <2>1, <2>2
  <2>3. CASE ~(j < i)
    <3>1. j - (i - 1) \in 1..(n - i) /\ i + (j - (i - 1)) = j + 1 /\ ~(j <= i - 1)
      BY <1>1, <2>3
    <3> QED BY <1>6, <2>1, <2>3, <3>1
  <2> QED BY <2>2, <2>3
<1> QED BY <1>1, <1>7, <1>8, <1>9

(* InsertAt, pointwise, in a sequence of length n.                         *)
InsertedSeq(s, n, i, x) ==
    [j \in 1..(n + 1) |-> IF j < i THEN s[j] ELSE IF j = i THEN x ELSE s[j - 1]]

(* That is what InsertAt gives.                                            *)
LEMMA InsertAtFacts ==
  ASSUME NEW S, NEW s \in Seq(S), NEW n \in Nat, n = Len(s),
         NEW i \in 1..(n + 1), NEW x \in S
  PROVE  /\ InsertAt(s, i, x) \in Seq(S)
         /\ Len(InsertAt(s, i, x)) = n + 1
         /\ InsertAt(s, i, x) = InsertedSeq(s, n, i, x)
<1>1. n = Len(s)
  OBVIOUS
<1>2. \A j \in 1..n : s[j] \in S
  BY <1>1, ElementOfSeq
<1>3. PICK b : b = SubSeq(s, 1, i - 1)
  OBVIOUS
<1>4. /\ b \in Seq(S) /\ Len(b) = i - 1
      /\ \A j \in 1..(i - 1) : b[j] = s[j]
  <2>1. \A j \in 1..(i - 1) : s[j] \in S
    BY <1>1, <1>2
  <2>2. 1 \in Int /\ i - 1 \in Int
    BY <1>1
  <2>3. /\ b \in Seq(S) /\ Len(b) = IF 1 <= i - 1 THEN (i - 1) - 1 + 1 ELSE 0
        /\ \A j \in 1..((i - 1) - 1 + 1) : b[j] = s[1 + j - 1]
    BY <1>3, <2>1, <2>2, SubSeqProperties
  <2> QED BY <1>1, <2>3
<1>5. PICK e : e = SubSeq(s, i, n)
  OBVIOUS
<1>6. /\ e \in Seq(S) /\ Len(e) = n - i + 1
      /\ \A j \in 1..(n - i + 1) : e[j] = s[i + j - 1]
  <2>1. \A j \in i..n : s[j] \in S
    BY <1>1, <1>2
  <2>2. i \in Int /\ n \in Int
    BY <1>1
  <2>3. /\ e \in Seq(S) /\ Len(e) = IF i <= n THEN n - i + 1 ELSE 0
        /\ \A j \in 1..(n - i + 1) : e[j] = s[i + j - 1]
    BY <1>5, <2>1, <2>2, SubSeqProperties
  <2> QED BY <1>1, <2>3
<1>7. InsertAt(s, i, x) = Append(b, x) \o e
  <2>1. b \o <<x>> = Append(b, x)
    BY <1>4, AppendIsConcat
  <2> QED BY <1>1, <1>3, <1>5, <2>1 DEF InsertAt
<1>8. PICK c : c = Append(b, x)
  OBVIOUS
<1>9. /\ c \in Seq(S) /\ Len(c) = i
      /\ \A j \in 1..(i - 1) : c[j] = s[j]
      /\ c[i] = x
  <2>1. /\ c \in Seq(S) /\ Len(c) = (i - 1) + 1
        /\ \A j \in 1..(i - 1) : c[j] = b[j]
        /\ c[(i - 1) + 1] = x
    BY <1>4, <1>8, AppendProperties
  <2>2. (i - 1) + 1 = i
    BY <1>1
  <2> QED BY <1>4, <2>1, <2>2
<1>10. /\ c \o e \in Seq(S) /\ Len(c \o e) = i + (n - i + 1)
       /\ \A j \in 1..(i + (n - i + 1)) : (c \o e)[j] = IF j <= i THEN c[j] ELSE e[j - i]
  <2>1. /\ c \o e \in Seq(S) /\ Len(c \o e) = Len(c) + Len(e)
        /\ \A j \in 1..(Len(c) + Len(e)) :
              (c \o e)[j] = IF j <= Len(c) THEN c[j] ELSE e[j - Len(c)]
    BY <1>6, <1>9, ConcatProperties
  <2> QED BY <1>6, <1>9, <2>1
<1>11. ASSUME NEW j \in 1..(n + 1)
       PROVE  (c \o e)[j] = IF j < i THEN s[j] ELSE IF j = i THEN x ELSE s[j - 1]
  <2>1. (c \o e)[j] = IF j <= i THEN c[j] ELSE e[j - i]
    BY <1>1, <1>10
  <2>2. CASE j <= i
    BY <1>1, <1>9, <2>1, <2>2
  <2>3. CASE ~(j <= i)
    <3>1. j - i \in 1..(n - i + 1) /\ i + (j - i) - 1 = j - 1 /\ ~(j < i) /\ j # i
      BY <1>1, <2>3
    <3> QED BY <1>6, <2>1, <2>3, <3>1
  <2> QED BY <2>2, <2>3
<1>12. PICK t : t = c \o e
  OBVIOUS
<1>13. t \in Seq(S) /\ Len(t) = n + 1
  BY <1>1, <1>10, <1>12
<1>14. t = [j \in 1..(n + 1) |-> t[j]]
  <2>1. t \in [1..(n + 1) -> S]
    BY <1>13, LenProperties
  <2> QED BY <2>1, Zenon
<1>15. t = InsertedSeq(s, n, i, x)
  BY <1>11, <1>12, <1>14 DEF InsertedSeq
<1> QED BY <1>7, <1>8, <1>12, <1>13, <1>15

(* RemoveFirst removes the first occurrence, or there is none.             *)
LEMMA RemoveFirstFacts ==
  ASSUME NEW S, NEW s \in Seq(S), NEW e
  PROVE  \/ /\ \A i \in 1..Len(s) : s[i] # e
            /\ RemoveFirst(s, e) = s
         \/ \E i \in 1..Len(s) : /\ s[i] = e
                                 /\ \A j \in 1..(i - 1) : s[j] # e
                                 /\ RemoveFirst(s, e) = RemoveAt(s, i)
<1>1. CASE \A i \in 1..Len(s) : s[i] # e
  BY <1>1 DEF RemoveFirst
<1>2. CASE \E i \in 1..Len(s) : s[i] = e
  <2> DEFINE I == {k \in 1..Len(s) : s[k] = e}
  <2>1. RemoveFirst(s, e) = RemoveAt(s, SelectInSeq(s, LAMBDA v : v = e))
    BY <1>2 DEF RemoveFirst
  <2>2. SelectInSeq(s, LAMBDA v : v = e) = Min(I)
    BY <1>2 DEF SelectInSeq
  <2>3. I \subseteq Nat /\ I # {}
    BY <1>2
  <2>4. PICK m \in I : \A k \in I : m <= k
    BY <2>3, LeastNat
  <2>5. Min(I) \in I /\ \A k \in I : Min(I) <= k
    BY <2>4, Zenon DEF Min
  <2>6. \A j \in 1..(Min(I) - 1) : s[j] # e
    BY <2>5
  <2>7. RemoveFirst(s, e) = RemoveAt(s, Min(I))
    BY <2>1, <2>2
  <2> QED BY <2>5, <2>6, <2>7
<1> QED BY <1>1, <1>2

(* Sequences that agree in length and at every position are one.           *)
LEMMA SameSeq ==
  ASSUME NEW S, NEW s \in Seq(S), NEW t \in Seq(S), NEW n \in Nat,
         Len(s) = n, Len(t) = n, \A i \in 1..n : s[i] = t[i]
  PROVE  s = t
BY SeqEqual

(* RemoveAt undoes InsertAt.                                               *)
LEMMA RemoveInserted ==
  ASSUME NEW S, NEW s \in Seq(S), NEW i \in 1..(Len(s) + 1), NEW x \in S
  PROVE  RemoveAt(InsertAt(s, i, x), i) = s
<1>1. PICK n, t : n \in Nat /\ n = Len(s) /\ t = InsertAt(s, i, x)
  OBVIOUS
<1>2. /\ t \in Seq(S) /\ Len(t) = n + 1
      /\ \A j \in 1..(n + 1) : t[j] = IF j < i THEN s[j] ELSE IF j = i THEN x ELSE s[j - 1]
  <2>1. t \in Seq(S) /\ Len(t) = n + 1 /\ t = InsertedSeq(s, n, i, x)
    BY SMTT(30), <1>1, InsertAtFacts
  <2> QED BY <2>1 DEF InsertedSeq
<1>3. PICK r : r = RemoveAt(t, i)
  OBVIOUS
<1>4. i \in 1..Len(t)
  BY <1>1, <1>2
<1>5. /\ r \in Seq(S) /\ Len(r) = n
      /\ \A j \in 1..n : r[j] = IF j < i THEN t[j] ELSE t[j + 1]
  <2>1. /\ r \in Seq(S) /\ Len(r) = Len(t) - 1
        /\ \A j \in 1..(Len(t) - 1) : r[j] = IF j < i THEN t[j] ELSE t[j + 1]
    BY <1>2, <1>3, <1>4, RemoveAtFacts
  <2>2. Len(t) - 1 = n
    BY <1>1, <1>2
  <2> QED BY <2>1, <2>2
<1>6. ASSUME NEW j \in 1..n PROVE r[j] = s[j]
  <2>1. j \in 1..(n + 1) /\ j + 1 \in 1..(n + 1) /\ j + 1 - 1 = j
    BY <1>1
  <2> QED BY <1>1, <1>2, <1>5, <2>1
<1> QED BY <1>1, <1>3, <1>5, <1>6, SameSeq

(* RemoveAt takes the last element, or one before what was appended.       *)
LEMMA RemoveAtAppend ==
  ASSUME NEW S, NEW s \in Seq(S), NEW e \in S
  PROVE  /\ RemoveAt(Append(s, e), Len(s) + 1) = s
         /\ \A i \in 1..Len(s) : RemoveAt(Append(s, e), i) = Append(RemoveAt(s, i), e)
<1>1. PICK n \in Nat : n = Len(s)
  OBVIOUS
<1>2. PICK t : t = Append(s, e)
  OBVIOUS
<1>3. /\ t \in Seq(S) /\ Len(t) = n + 1
      /\ \A k \in 1..n : t[k] = s[k]
      /\ t[n + 1] = e
  BY <1>1, <1>2, AppendProperties
<1>4. ASSUME NEW i \in 1..(n + 1)
      PROVE  /\ RemoveAt(t, i) \in Seq(S) /\ Len(RemoveAt(t, i)) = n
             /\ \A j \in 1..n : RemoveAt(t, i)[j] = IF j < i THEN t[j] ELSE t[j + 1]
  <2>1. Len(t) - 1 = n /\ i \in 1..Len(t)
    BY <1>3
  <2>2. /\ RemoveAt(t, i) \in Seq(S) /\ Len(RemoveAt(t, i)) = Len(t) - 1
        /\ \A j \in 1..(Len(t) - 1) : RemoveAt(t, i)[j] = IF j < i THEN t[j] ELSE t[j + 1]
    BY <1>3, <2>1, RemoveAtFacts
  <2> QED BY <2>1, <2>2
<1>5. RemoveAt(t, n + 1) = s
  <2>1. n + 1 \in 1..(n + 1) /\ \A j \in 1..n : j < n + 1
    OBVIOUS
  <2>2. PICK r : r = RemoveAt(t, n + 1)
    OBVIOUS
  <2>3. r \in Seq(S) /\ Len(r) = n /\ \A j \in 1..n : r[j] = s[j]
    BY <1>3, <1>4, <2>1, <2>2
  <2> QED BY <1>1, <2>2, <2>3, SameSeq
<1>6. ASSUME NEW i \in 1..n PROVE RemoveAt(t, i) = Append(RemoveAt(s, i), e)
  <2>1. PICK r : r = RemoveAt(t, i)
    OBVIOUS
  <2>2. i \in 1..(n + 1)
    OBVIOUS
  <2>3. /\ r \in Seq(S) /\ Len(r) = n
        /\ \A j \in 1..n : r[j] = IF j < i THEN t[j] ELSE t[j + 1]
    BY <1>4, <2>1, <2>2
  <2>4. PICK q : q = RemoveAt(s, i)
    OBVIOUS
  <2>5. /\ q \in Seq(S) /\ Len(q) = n - 1
        /\ \A j \in 1..(n - 1) : q[j] = IF j < i THEN s[j] ELSE s[j + 1]
    BY <1>1, <2>4, RemoveAtFacts
  <2>6. PICK u : u = Append(q, e)
    OBVIOUS
  <2>7. /\ u \in Seq(S) /\ Len(u) = n
        /\ \A j \in 1..(n - 1) : u[j] = q[j]
        /\ u[n] = e
    <3>1. n - 1 + 1 = n
      OBVIOUS
    <3>2. /\ u \in Seq(S) /\ Len(u) = Len(q) + 1
          /\ \A j \in 1..Len(q) : u[j] = q[j]
          /\ u[Len(q) + 1] = e
      BY <2>5, <2>6, AppendProperties
    <3> QED BY <2>5, <3>1, <3>2
  <2>8. ASSUME NEW j \in 1..n PROVE r[j] = u[j]
    <3>1. CASE j = n
      <4>1. ~(n < i)
        OBVIOUS
      <4> QED BY <1>3, <2>3, <2>7, <3>1, <4>1
    <3>2. CASE j \in 1..(n - 1)
      <4>1. j \in 1..n /\ j + 1 \in 1..n
        BY <3>2
      <4> QED BY <1>3, <2>3, <2>5, <2>7, <3>2, <4>1
    <3> QED BY <3>1, <3>2
  <2> QED BY <2>1, <2>3, <2>4, <2>6, <2>7, <2>8, SameSeq
<1> QED BY <1>1, <1>2, <1>5, <1>6

(* RemoveFirst removes at the position that is known to be the first.      *)
LEMMA FirstRemoved ==
  ASSUME NEW S, NEW s \in Seq(S), NEW i \in 1..Len(s), \A j \in 1..(i - 1) : s[j] # s[i]
  PROVE  RemoveFirst(s, s[i]) = RemoveAt(s, i)
<1>1. PICK k \in 1..Len(s) : /\ s[k] = s[i]
                             /\ \A j \in 1..(k - 1) : s[j] # s[i]
                             /\ RemoveFirst(s, s[i]) = RemoveAt(s, k)
  BY RemoveFirstFacts
<1>2. ~(k < i) /\ ~(i < k)
  BY <1>1
<1> QED BY <1>1, <1>2

-----------------------------------------------------------------------------
(* Induction over sequences, with a set in the place of a predicate: what  *)
(* the empty sequence has, and Append passes on, all have.                 *)
LEMMA SeqInduction ==
  ASSUME NEW S, NEW X, << >> \in X,
         \A s \in Seq(S), e \in S : s \in X => Append(s, e) \in X
  PROVE  \A s \in Seq(S) : s \in X
<1> DEFINE Bad == {n \in Nat : \E s \in Seq(S) : Len(s) = n /\ s \notin X}
<1>1. Bad = {}
  <2> SUFFICES ASSUME Bad # {} PROVE FALSE
    OBVIOUS
  <2>1. PICK n \in Bad : \A k \in Bad : n <= k
    <3>1. Bad \subseteq Nat
      OBVIOUS
    <3> HIDE DEF Bad
    <3> QED BY <3>1, LeastNat
  <2>2. PICK s \in Seq(S) : Len(s) = n /\ s \notin X
    OBVIOUS
  <2>3. PICK r \in Seq(S), e \in S : s = Append(r, e)
    BY <2>2, SequenceEmptyOrAppend
  <2>4. Len(r) \in Nat /\ n = Len(r) + 1
    BY <2>2, <2>3, AppendProperties
  <2>5. Len(r) \notin Bad
    BY SMTT(30), <2>1, <2>4
  <2> QED BY <2>2, <2>3, <2>4, <2>5
<1>2. \A s \in Seq(S) : Len(s) \in Nat
  BY LenProperties
<1> QED BY <1>1, <1>2

-----------------------------------------------------------------------------
(* Recursive functions of a bounded number, and FlattenSeq, which is one.  *)

(* Induction up to a bound. *)
LEMMA UpTo0 ==
  ASSUME NEW n \in Nat, NEW X, 0 \in X, \A k \in 0..(n - 1) : k \in X => k + 1 \in X
  PROVE  \A k \in 0..n : k \in X
<1> DEFINE Bad == {k \in 0..n : k \notin X}
<1> SUFFICES ASSUME Bad # {} PROVE FALSE
  OBVIOUS
<1>1. PICK k \in Bad : \A y \in Bad : k <= y
  <2>1. Bad \subseteq Nat
    OBVIOUS
  <2> HIDE DEF Bad
  <2> QED BY <2>1, LeastNat
<1>2. k # 0 /\ k \in 0..n
  OBVIOUS
<1>3. k - 1 \in 0..(n - 1) /\ k - 1 \notin Bad
  BY <1>1, <1>2
<1>4. k - 1 \in X
  BY <1>3
<1>5. (k - 1) + 1 \in X
  BY <1>3, <1>4
<1> QED BY <1>2, <1>5

(* f is what repeated application of g makes of b. *)
Iterates(f, n, X, b, g) ==
    f \in [0..n -> X] /\ f[0] = b /\ \A i \in 1..n : f[i] = g[i][f[i - 1]]

(* There is such a function. *)
LEMMA IterateExists ==
  ASSUME NEW n \in Nat, NEW X, NEW b \in X, NEW g \in [1..n -> [X -> X]]
  PROVE  \E f : Iterates(f, n, X, b, g)
<1> DEFINE Good == {k \in 0..n : \E f \in [0..k -> X] :
                       f[0] = b /\ \A i \in 1..k : f[i] = g[i][f[i - 1]]}
<1>1. 0 \in Good
  <2> DEFINE h == [i \in 0..0 |-> b]
  <2>1. h \in [0..0 -> X] /\ h[0] = b
    OBVIOUS
  <2> HIDE DEF h
  <2>2. \A i \in 1..0 : h[i] = g[i][h[i - 1]]
    OBVIOUS
  <2>3. 0 \in 0..n
    OBVIOUS
  <2> QED BY <2>1, <2>2, <2>3
<1>2. ASSUME NEW k \in 0..(n - 1), k \in Good PROVE k + 1 \in Good
  <2>1. PICK f \in [0..k -> X] : f[0] = b /\ \A i \in 1..k : f[i] = g[i][f[i - 1]]
    BY <1>2
  <2> DEFINE h == [i \in 0..(k + 1) |-> IF i = k + 1 THEN g[i][f[k]] ELSE f[i]]
  <2>2. f[k] \in X /\ k + 1 \in 1..n
    OBVIOUS
  <2>3. g[k + 1][f[k]] \in X
    BY <2>2
  <2>4. h \in [0..(k + 1) -> X]
    BY <2>3
  <2>5. \A i \in 0..k : h[i] = f[i]
    OBVIOUS
  <2>6. h[k + 1] = g[k + 1][h[k]]
    OBVIOUS
  <2> HIDE DEF h
  <2>7. \A i \in 1..(k + 1) : h[i] = g[i][h[i - 1]]
    BY <2>1, <2>5, <2>6
  <2>8. h[0] = b
    BY <2>1, <2>5
  <2> QED BY SMTT(30), <2>4, <2>7, <2>8
<1> HIDE DEF Good
<1>3. \A k \in 0..n : k \in Good
  BY <1>1, <1>2, UpTo0
<1>4. n \in Good
  BY <1>3
<1> QED BY <1>4 DEF Good, Iterates

(* FlattenSeq is the last of the sequences joined one after the other. *)
FlattenStep(seqs, n, f) == [i \in 1..n |-> IF i = 1 THEN seqs[i] ELSE f[i - 1] \o seqs[i]]

Flattens(f, n, seqs) == f[1] = seqs[1] /\ \A i \in 2..n : f[i] = f[i - 1] \o seqs[i]

LEMMA FlattenIs ==
  ASSUME NEW seqs, NEW n \in Nat \ {0}, Len(seqs) = n, NEW f, Flattens(f, n, seqs)
  PROVE  FlattenSeq(seqs) = f[n]
<1>0. f[1] = seqs[1] /\ \A i \in 2..n : f[i] = f[i - 1] \o seqs[i]
  BY DEF Flattens
<1> DEFINE c == CHOOSE x : x = FlattenStep(seqs, n, x)
<1>1. c = FlattenStep(seqs, n, c)
  <2> DEFINE d == [i \in 1..n |-> f[i]]
  <2>1. d = FlattenStep(seqs, n, d)
    <3>1. \A i \in 1..n : d[i] = IF i = 1 THEN seqs[i] ELSE d[i - 1] \o seqs[i]
      <4>1. \A i \in 1..n : i # 1 => i - 1 \in 1..n /\ i \in 2..n
        OBVIOUS
      <4> QED BY <1>0, <4>1
    <3>2. d = [i \in 1..n |-> d[i]]
      OBVIOUS
    <3> HIDE DEF d
    <3> QED BY <3>1, <3>2 DEF FlattenStep
  <2> QED BY <2>1
<1>2. FlattenSeq(seqs) = c[n]
  BY DEF FlattenSeq, FlattenStep
<1> HIDE DEF c
<1> DEFINE X == {k \in 0..n : k # 0 => c[k] = f[k]}
<1>3. 0 \in X
  OBVIOUS
<1>4. ASSUME NEW k \in 0..(n - 1), k \in X PROVE k + 1 \in X
  <2>1. k + 1 \in 1..n
    OBVIOUS
  <2>2. c[k + 1] = IF k + 1 = 1 THEN seqs[k + 1] ELSE c[(k + 1) - 1] \o seqs[k + 1]
    BY <1>1, <2>1 DEF FlattenStep
  <2>3. CASE k = 0
    BY <1>0, <2>2, <2>3
  <2>4. CASE k # 0
    <3>1. c[k] = f[k] /\ k + 1 \in 2..n /\ (k + 1) - 1 = k /\ k + 1 # 1
      BY <1>4, <2>4
    <3>2. c[k + 1] = c[k] \o seqs[k + 1]
      BY <2>2, <3>1
    <3>3. f[k + 1] = f[k] \o seqs[k + 1]
      BY <1>0, <3>1
    <3>4. c[k + 1] = f[k + 1]
      BY <3>1, <3>2, <3>3
    <3> QED BY <2>1, <3>4
  <2> QED BY <2>3, <2>4
<1> HIDE DEF X
<1>5. \A k \in 0..n : k \in X
  <2>1. \A k \in 0..(n - 1) : k \in X => k + 1 \in X
    BY <1>4
  <2>2. n \in Nat
    OBVIOUS
  <2> QED BY <1>3, <2>1, <2>2, UpTo0
<1>6. n \in X
  <2>1. n \in 0..n
    OBVIOUS
  <2> QED BY <1>5, <2>1
<1> QED BY <1>2, <1>6 DEF X

(* FlattenSeq of no sequence, and of one more. *)
LEMMA FlattensExists ==
  ASSUME NEW S, NEW ss \in Seq(Seq(S)), NEW n \in Nat \ {0}, n = Len(ss)
  PROVE  \E f \in [1..n -> Seq(S)] : Flattens(f, n, ss)
<1>1. \A i \in 1..n : ss[i] \in Seq(S)
  BY ElementOfSeq
<1> DEFINE g == [i \in 1..n |-> [x \in Seq(S) |-> x \o ss[i]]]
<1>2. g \in [1..n -> [Seq(S) -> Seq(S)]]
  BY <1>1, ConcatProperties
<1>3. <<>> \in Seq(S)
  BY EmptySeq
<1>4. PICK f : Iterates(f, n, Seq(S), <<>>, g)
  <2> HIDE DEF g
  <2> QED BY <1>2, <1>3, IterateExists
<1>5. f \in [0..n -> Seq(S)] /\ f[0] = <<>>
  BY <1>4 DEF Iterates
<1>6. ASSUME NEW i \in 1..n PROVE f[i] = f[i - 1] \o ss[i]
  <2>1. i - 1 \in 0..n
    OBVIOUS
  <2>2. f[i - 1] \in Seq(S)
    BY <1>5, <2>1
  <2>3. f[i] = g[i][f[i - 1]]
    BY <1>4 DEF Iterates
  <2> QED BY <2>2, <2>3
<1>7. f[1] = ss[1]
  <2>1. 1 \in 1..n /\ 1 - 1 = 0
    OBVIOUS
  <2>2. f[1] = f[1 - 1] \o ss[1]
    BY <1>6, <2>1
  <2>3. f[1] = <<>> \o ss[1]
    BY <1>5, <2>1, <2>2
  <2>4. ss[1] \in Seq(S)
    BY <1>1, <2>1
  <2> QED BY <2>3, <2>4, ConcatEmptySeq
<1>8. PICK h : h = [i \in 1..n |-> f[i]]
  OBVIOUS
<1>9. h \in [1..n -> Seq(S)] /\ \A i \in 1..n : h[i] = f[i]
  BY <1>5, <1>8
<1>10. ASSUME NEW i \in 2..n PROVE h[i] = h[i - 1] \o ss[i]
  <2>1. i - 1 \in 1..n /\ i \in 1..n
    OBVIOUS
  <2>2. f[i] = f[i - 1] \o ss[i]
    BY <1>6, <2>1
  <2> QED BY <1>9, <2>1, <2>2
<1>11. h[1] = ss[1]
  <2>1. 1 \in 1..n
    OBVIOUS
  <2> QED BY <1>7, <1>9, <2>1
<1>12. Flattens(h, n, ss)
  BY <1>10, <1>11 DEF Flattens
<1> QED BY <1>9, <1>12

(* FlattenSeq of no sequence, and of one more. *)
LEMMA FlattenFacts ==
  ASSUME NEW S
  PROVE  /\ FlattenSeq(<<>>) = <<>>
         /\ \A ss \in Seq(Seq(S)) : FlattenSeq(ss) \in Seq(S)
         /\ \A ss \in Seq(Seq(S)), e \in Seq(S) :
               FlattenSeq(Append(ss, e)) = FlattenSeq(ss) \o e
<1>1. FlattenSeq(<<>>) = <<>>
  BY EmptySeq DEF FlattenSeq
<1>3. ASSUME NEW ss \in Seq(Seq(S)) PROVE FlattenSeq(ss) \in Seq(S)
  <2>1. PICK n \in Nat : n = Len(ss)
    BY LenProperties
  <2>2. CASE n = 0
    BY <1>1, <2>1, <2>2, EmptySeq
  <2>3. CASE n # 0
    <3>1. n \in Nat \ {0} /\ Len(ss) = n
      BY <2>1, <2>3
    <3>2. PICK f \in [1..n -> Seq(S)] : Flattens(f, n, ss)
      BY <3>1, FlattensExists
    <3>3. FlattenSeq(ss) = f[n]
      BY <3>1, <3>2, FlattenIs
    <3>4. n \in 1..n
      BY <3>1
    <3> QED BY <3>2, <3>3, <3>4
  <2> QED BY <2>2, <2>3
<1>4. ASSUME NEW ss \in Seq(Seq(S)), NEW e \in Seq(S)
      PROVE  FlattenSeq(Append(ss, e)) = FlattenSeq(ss) \o e
  <2>1. PICK n \in Nat : n = Len(ss)
    BY LenProperties
  <2>2. PICK t : t = Append(ss, e)
    OBVIOUS
  <2>3. /\ t \in Seq(Seq(S)) /\ Len(t) = n + 1 /\ t[n + 1] = e
        /\ \A i \in 1..n : t[i] = ss[i]
    BY <2>1, <2>2
  <2>4. PICK m \in Nat \ {0} : m = n + 1
    OBVIOUS
  <2>5. Len(t) = m
    BY <2>3, <2>4
  <2>6. PICK f \in [1..m -> Seq(S)] : Flattens(f, m, t)
    BY <2>3, <2>5, FlattensExists
  <2>7. FlattenSeq(t) = f[m]
    BY <2>5, <2>6, FlattenIs
  <2>8. f[1] = t[1] /\ \A i \in 2..m : f[i] = f[i - 1] \o t[i]
    BY <2>6 DEF Flattens
  <2>9. CASE n = 0
    <3>1. ss = <<>>
      BY <2>1, <2>9, EmptySeq
    <3>2. FlattenSeq(t) = e
      BY <2>3, <2>4, <2>7, <2>8, <2>9
    <3> QED BY <1>1, <2>2, <3>1, <3>2, ConcatEmptySeq
  <2>10. CASE n # 0
    <3>1. n \in Nat \ {0} /\ 1 \in 1..n /\ Len(ss) = n
      BY <2>1, <2>10
    <3>2. f[1] = ss[1]
      BY <2>3, <2>8, <3>1
    <3>3. \A i \in 2..n : f[i] = f[i - 1] \o ss[i]
      <4>1. \A i \in 2..n : i \in 1..n /\ i \in 2..m
        BY <2>4, <3>1
      <4> QED BY <2>3, <2>8, <4>1
    <3>a. Flattens(f, n, ss)
      BY <3>2, <3>3 DEF Flattens
    <3>4. FlattenSeq(ss) = f[n]
      BY <3>1, <3>a, FlattenIs
    <3>5. f[m] = f[n] \o e
      <4>1. m \in 2..m /\ m - 1 = n
        BY <2>4, <3>1
      <4>2. f[m] = f[m - 1] \o t[m]
        BY <2>8, <4>1
      <4> QED BY <2>3, <2>4, <4>1, <4>2
    <3> QED BY <2>2, <2>7, <3>4, <3>5
  <2> QED BY <2>9, <2>10
<1> QED BY <1>1, <1>3, <1>4

(* FlattenSeq of sequences one after the other.                            *)
LEMMA FlattenConcat ==
  ASSUME NEW S
  PROVE  /\ \A e \in Seq(S) : FlattenSeq(<<e>>) = e
         /\ \A s, t \in Seq(Seq(S)) : FlattenSeq(s \o t) = FlattenSeq(s) \o FlattenSeq(t)
<1>1. ASSUME NEW e \in Seq(S) PROVE FlattenSeq(<<e>>) = e
  <2>1. <<>> \in Seq(Seq(S)) /\ <<e>> = Append(<<>>, e)
    BY EmptySeq
  <2>2. FlattenSeq(<<e>>) = FlattenSeq(<<>>) \o e
    BY <2>1, FlattenFacts
  <2> QED BY <2>2, FlattenFacts, ConcatEmptySeq
<1>2. ASSUME NEW s \in Seq(Seq(S))
      PROVE  \A t \in Seq(Seq(S)) : FlattenSeq(s \o t) = FlattenSeq(s) \o FlattenSeq(t)
  <2> DEFINE X == {t \in Seq(Seq(S)) : FlattenSeq(s \o t) = FlattenSeq(s) \o FlattenSeq(t)}
  <2>0. FlattenSeq(s) \in Seq(S)
    BY FlattenFacts
  <2>1. <<>> \in X
    <3>1. <<>> \in Seq(Seq(S)) /\ s \o <<>> = s
      BY EmptySeq, ConcatEmptySeq
    <3>2. FlattenSeq(<<>>) = <<>> /\ FlattenSeq(s) \o <<>> = FlattenSeq(s)
      BY <2>0, FlattenFacts, ConcatEmptySeq
    <3> QED BY <3>1, <3>2
  <2>2. ASSUME NEW t \in Seq(Seq(S)), NEW e \in Seq(S), t \in X PROVE Append(t, e) \in X
    <3>1. s \o t \in Seq(Seq(S)) /\ Append(t, e) \in Seq(Seq(S))
      BY ConcatProperties, AppendProperties
    <3>2. s \o Append(t, e) = Append(s \o t, e)
      <4>0. <<e>> \in Seq(Seq(S))
        OBVIOUS
      <4>1. Append(t, e) = t \o <<e>> /\ Append(s \o t, e) = (s \o t) \o <<e>>
        BY <3>1, AppendIsConcat
      <4>2. (s \o t) \o <<e>> = s \o (t \o <<e>>)
        BY SMTT(60), <4>0, ConcatAssociative
      <4> QED BY <4>1, <4>2
    <3>3. FlattenSeq(Append(s \o t, e)) = FlattenSeq(s \o t) \o e
      BY <3>1, FlattenFacts
    <3>4. FlattenSeq(Append(t, e)) = FlattenSeq(t) \o e /\ FlattenSeq(t) \in Seq(S)
      BY FlattenFacts
    <3>5. FlattenSeq(s \o t) = FlattenSeq(s) \o FlattenSeq(t)
      BY <2>2
    <3>6. (FlattenSeq(s) \o FlattenSeq(t)) \o e = FlattenSeq(s) \o (FlattenSeq(t) \o e)
      BY SMTT(30), <2>0, <3>4, ConcatAssociative
    <3>7. FlattenSeq(s \o Append(t, e)) = FlattenSeq(s) \o FlattenSeq(Append(t, e))
      BY <3>2, <3>3, <3>4, <3>5, <3>6
    <3> QED BY <3>1, <3>7
  <2> HIDE DEF X
  <2>3. \A t \in Seq(Seq(S)) : t \in X
    BY <2>1, <2>2, SeqInduction
  <2> QED BY <2>3 DEF X
<1> QED BY <1>1, <1>2

(* Of sequences of which all but the first are empty the first is left.    *)
LEMMA FlattenFirst ==
  ASSUME NEW S, NEW s \in Seq(Seq(S)), NEW n \in Nat \ {0}, Len(s) = n,
         \A k \in 2..n : s[k] = <<>>
  PROVE  FlattenSeq(s) = s[1]
<1>1. PICK f \in [1..n -> Seq(S)] : Flattens(f, n, s)
  BY FlattensExists
<1>2. f[1] = s[1] /\ \A i \in 2..n : f[i] = f[i - 1] \o s[i]
  BY <1>1 DEF Flattens
<1>3. \A i \in 2..n : f[i] = f[i - 1]
  <2>1. ASSUME NEW i \in 2..n PROVE f[i] = f[i - 1]
    <3>1. PICK a : a = f[i - 1]
      OBVIOUS
    <3>2. a \in Seq(S)
      <4>1. i - 1 \in 1..n
        BY SMTT(30)
      <4> QED BY <3>1, <4>1
    <3>3. f[i] = a \o <<>>
      BY <1>2, <3>1
    <3>4. a \o <<>> = a
      BY <3>2, ConcatEmptySeq
    <3> QED BY <3>1, <3>3, <3>4
  <2> QED BY <2>1
<1> DEFINE X == {i \in 0..(n - 1) : f[i + 1] = s[1]}
<1>4. 0 \in X
  BY <1>2
<1>5. ASSUME NEW i \in 0..(n - 1 - 1), i \in X PROVE i + 1 \in X
  <2>1. (i + 1) + 1 \in 2..n /\ ((i + 1) + 1) - 1 = i + 1 /\ i + 1 \in 0..(n - 1)
    BY SMTT(30)
  <2> QED BY <1>3, <1>5, <2>1
<1> HIDE DEF X
<1>6. n - 1 \in Nat
  OBVIOUS
<1>7. \A i \in 0..(n - 1) : i \in X
  <2>1. PICK m \in Nat : m = n - 1
    BY <1>6
  <2>2. \A i \in 0..(m - 1) : i \in X => i + 1 \in X
    BY <1>5, <2>1
  <2>3. \A i \in 0..m : i \in X
    BY <1>4, <2>2, UpTo0
  <2> QED BY <2>1, <2>3
<1>8. n - 1 \in 0..(n - 1) /\ (n - 1) + 1 = n
  OBVIOUS
<1>9. f[n] = s[1]
  BY <1>7, <1>8 DEF X
<1> QED BY <1>1, <1>9, FlattenIs

(* Sequences none of which is empty make one that is as long, at least.    *)
LEMMA FlattenLen ==
  ASSUME NEW S
  PROVE  \A ss \in Seq(Seq(S) \ {<<>>}) :
            ss \in Seq(Seq(S)) /\ Len(ss) \in Nat /\ Len(FlattenSeq(ss)) \in Nat
              /\ Len(FlattenSeq(ss)) >= Len(ss)
<1> DEFINE T == Seq(S) \ {<<>>}
<1> DEFINE X == {ss \in Seq(Seq(S)) : Len(FlattenSeq(ss)) >= Len(ss)}
<1>1. <<>> \in X
  BY EmptySeq, FlattenFacts
<1>2. ASSUME NEW ss \in Seq(T), NEW e \in T, ss \in X PROVE Append(ss, e) \in X
  <2>1. ss \in Seq(Seq(S)) /\ e \in Seq(S) /\ e # <<>>
    BY <1>2
  <2>2. FlattenSeq(Append(ss, e)) = FlattenSeq(ss) \o e /\ FlattenSeq(ss) \in Seq(S)
    BY <2>1, FlattenFacts
  <2>3. Len(FlattenSeq(ss) \o e) = Len(FlattenSeq(ss)) + Len(e)
    BY <2>1, <2>2, ConcatProperties
  <2>4. Len(e) \in Nat \ {0} /\ Len(FlattenSeq(ss)) \in Nat /\ Len(ss) \in Nat
    BY <2>1, <2>2, EmptySeq, LenProperties
  <2>5. Append(ss, e) \in Seq(Seq(S)) /\ Len(Append(ss, e)) = Len(ss) + 1
    BY <2>1, AppendProperties
  <2>6. Len(FlattenSeq(ss)) >= Len(ss)
    BY <1>2
  <2> QED BY <2>2, <2>3, <2>4, <2>5, <2>6
<1> HIDE DEF X, T
<1>3. \A ss \in Seq(T) : ss \in X
  BY <1>1, <1>2, SeqInduction
<1>4. \A ss \in Seq(T) : FlattenSeq(ss) \in Seq(S) /\ ss \in Seq(Seq(S))
  BY <1>3, FlattenFacts DEF X
<1> QED BY <1>3, <1>4, LenProperties DEF X, T

-----------------------------------------------------------------------------
(* A sequence around one of its elements, and RemoveAt there.              *)
LEMMA AroundElement ==
  ASSUME NEW S, NEW s \in Seq(S), NEW i \in 1..Len(s)
  PROVE  \E a, b \in Seq(S) : /\ s = (a \o <<s[i]>>) \o b
                              /\ RemoveAt(s, i) = a \o b
                              /\ Len(a) = i - 1
<1>0. PICK n \in Nat : n = Len(s)
  BY LenProperties
<1>1. PICK a : a = SubSeq(s, 1, i - 1)
  OBVIOUS
<1>2. PICK b : b = SubSeq(s, i + 1, n)
  OBVIOUS
<1>3. a \in Seq(S) /\ Len(a) = i - 1
  <2>1. \A k \in 1..(i - 1) : s[k] \in S
    BY <1>0, ElementOfSeq
  <2>2. 1 \in Int /\ i - 1 \in Int
    BY <1>0
  <2>3. a \in Seq(S) /\ Len(a) = IF 1 <= i - 1 THEN (i - 1) - 1 + 1 ELSE 0
    BY <1>1, <2>1, <2>2, SubSeqProperties
  <2> QED BY <1>0, <2>3
<1>4. b \in Seq(S)
  <2>1. \A k \in (i + 1)..n : s[k] \in S
    BY <1>0, ElementOfSeq
  <2>2. i + 1 \in Int /\ n \in Int
    BY <1>0
  <2> QED BY <1>2, <2>1, <2>2, SubSeqProperties
<1>5. SubSeq(s, 1, n) = s
  BY <1>0, SubSeqFull
<1>6. SubSeq(s, 1, n) = SubSeq(s, 1, i) \o SubSeq(s, i + 1, n)
  <2>1. 1 \in 1..(n + 1) /\ i \in (1 - 1)..n /\ n \in i..n
    BY <1>0
  <2> QED BY <1>0, <2>1, ConcatAdjacentSubSeq
<1>7. SubSeq(s, 1, i) = SubSeq(s, 1, i - 1) \o <<s[i]>>
  <2>1. 1 \in 1..n /\ i \in 1..n
    BY <1>0
  <2> QED BY <1>0, <2>1, SubSeqRecursiveSecond
<1>8. RemoveAt(s, i) = a \o b
  BY <1>0, <1>1, <1>2 DEF RemoveAt
<1> QED BY <1>1, <1>2, <1>3, <1>4, <1>5, <1>6, <1>7, <1>8

(* A concatenation has an element twice only if one of its parts has, or   *)
(* both have it.                                                           *)
LEMMA ConcatInjective ==
  ASSUME NEW S, NEW s \in Seq(S), NEW t \in Seq(S)
  PROVE  /\ IsInjective(s \o t) <=>
              /\ IsInjective(s) /\ IsInjective(t)
              /\ Range(s) \cap Range(t) = {}
         /\ Range(s \o t) = Range(s) \cup Range(t)
<1>0. PICK m \in Nat, n \in Nat : m = Len(s) /\ n = Len(t)
  BY LenProperties
<1>1. PICK u : u = s \o t
  OBVIOUS
<1>2. /\ u \in Seq(S) /\ Len(u) = m + n
      /\ \A i \in 1..(m + n) : u[i] = IF i <= m THEN s[i] ELSE t[i - m]
  BY <1>0, <1>1, ConcatProperties
<1>3. DOMAIN s = 1..m /\ DOMAIN t = 1..n /\ DOMAIN u = 1..(m + n)
  BY <1>0, <1>2, LenProperties
<1>4. \A i \in 1..m : u[i] = s[i] /\ i \in 1..(m + n)
  BY <1>2
<1>5. \A j \in 1..n : u[m + j] = t[j] /\ m + j \in 1..(m + n)
  <2> SUFFICES ASSUME NEW j \in 1..n PROVE u[m + j] = t[j] /\ m + j \in 1..(m + n)
    OBVIOUS
  <2>1. m + j \in 1..(m + n) /\ ~(m + j <= m) /\ (m + j) - m = j
    OBVIOUS
  <2> QED BY <1>2, <2>1
<1>6. ASSUME IsInjective(u)
      PROVE  IsInjective(s) /\ IsInjective(t) /\ Range(s) \cap Range(t) = {}
  <2>1. \A i, j \in 1..(m + n) : u[i] = u[j] => i = j
    BY <1>3, <1>6 DEF IsInjective
  <2>2. IsInjective(s)
    BY <1>3, <1>4, <2>1 DEF IsInjective
  <2>3. \A i, j \in 1..n : t[i] = t[j] => i = j
    <3>1. \A i, j \in 1..n : t[i] = t[j] => m + i = m + j
      BY <1>5, <2>1
    <3> QED BY <3>1
  <2>4. IsInjective(t)
    BY <1>3, <2>3 DEF IsInjective
  <2>5. \A i \in 1..m, j \in 1..n : s[i] # t[j]
    <3> SUFFICES ASSUME NEW i \in 1..m, NEW j \in 1..n, s[i] = t[j] PROVE FALSE
      OBVIOUS
    <3>1. i = m + j
      BY <1>4, <1>5, <2>1
    <3> QED BY <3>1
  <2>6. Range(s) \cap Range(t) = {}
    BY <1>3, <2>5 DEF Range
  <2> QED BY <2>2, <2>4, <2>6
<1>7. ASSUME IsInjective(s), IsInjective(t), Range(s) \cap Range(t) = {}
      PROVE  IsInjective(u)
  <2>1. \A i, j \in 1..m : s[i] = s[j] => i = j
    BY <1>3, <1>7 DEF IsInjective
  <2>2. \A i, j \in 1..n : t[i] = t[j] => i = j
    BY <1>3, <1>7 DEF IsInjective
  <2>3. \A i \in 1..m, j \in 1..n : s[i] # t[j]
    BY <1>3, <1>7 DEF Range
  <2>4. ASSUME NEW i \in 1..(m + n), NEW j \in 1..(m + n), u[i] = u[j] PROVE i = j
    <3>1. CASE i <= m /\ j <= m
      BY <1>2, <2>1, <2>4, <3>1
    <3>2. CASE i <= m /\ ~(j <= m)
      <4>1. j - m \in 1..n /\ i \in 1..m
        BY <3>2
      <4> QED BY <1>2, <2>3, <2>4, <3>2, <4>1
    <3>3. CASE ~(i <= m) /\ j <= m
      <4>1. i - m \in 1..n /\ j \in 1..m
        BY <3>3
      <4>2. u[i] = t[i - m] /\ u[j] = s[j]
        BY <1>2, <3>3
      <4> QED BY <2>3, <2>4, <4>1, <4>2
    <3>4. CASE ~(i <= m) /\ ~(j <= m)
      <4>1. i - m \in 1..n /\ j - m \in 1..n
        BY <3>4
      <4>2. i - m = j - m
        BY <1>2, <2>2, <2>4, <3>4, <4>1
      <4> QED BY <4>2
    <3> QED BY <3>1, <3>2, <3>3, <3>4
  <2> QED BY <1>3, <2>4 DEF IsInjective
<1>8. Range(u) = Range(s) \cup Range(t)
  <2>1. ASSUME NEW x \in Range(u) PROVE x \in Range(s) \cup Range(t)
    <3>1. PICK i \in 1..(m + n) : x = u[i]
      BY <1>3 DEF Range
    <3>2. CASE i <= m
      <4>1. i \in 1..m
        BY <3>2
      <4> QED BY <1>3, <1>4, <3>1, <4>1 DEF Range
    <3>3. CASE ~(i <= m)
      <4>1. i - m \in 1..n
        BY <3>3
      <4> QED BY <1>2, <1>3, <3>1, <3>3, <4>1 DEF Range
    <3> QED BY <3>2, <3>3
  <2>2. ASSUME NEW x \in Range(s) PROVE x \in Range(u)
    <3>1. PICK i \in 1..m : x = s[i]
      BY <1>3 DEF Range
    <3> QED BY <1>3, <1>4, <3>1 DEF Range
  <2>3. ASSUME NEW x \in Range(t) PROVE x \in Range(u)
    <3>1. PICK i \in 1..n : x = t[i]
      BY <1>3 DEF Range
    <3> QED BY <1>3, <1>5, <3>1 DEF Range
  <2> QED BY <2>1, <2>2, <2>3
<1> QED BY <1>1, <1>6, <1>7, <1>8

(* RemoveFirst finds an element that nothing before it equals.             *)
LEMMA RemoveMiddle ==
  ASSUME NEW S, NEW a \in Seq(S), NEW b \in Seq(S), NEW e \in S, e \notin Range(a)
  PROVE  RemoveFirst((a \o <<e>>) \o b, e) = a \o b
<1>1. PICK m \in Nat : m = Len(a)
  BY LenProperties
<1>2. PICK ae : ae = a \o <<e>>
  OBVIOUS
<1>3. ae = Append(a, e)
  BY <1>2, AppendIsConcat
<1>4. /\ ae \in Seq(S) /\ Len(ae) = m + 1 /\ ae[m + 1] = e
      /\ \A j \in 1..m : ae[j] = a[j]
  BY <1>1, <1>3, AppendProperties
<1>5. PICK s : s = ae \o b
  OBVIOUS
<1>6. /\ s \in Seq(S) /\ Len(s) = (m + 1) + Len(b)
      /\ \A j \in 1..((m + 1) + Len(b)) : s[j] = IF j <= m + 1 THEN ae[j] ELSE b[j - (m + 1)]
  <2>1. /\ ae \o b \in Seq(S) /\ Len(ae \o b) = Len(ae) + Len(b)
        /\ \A j \in 1..(Len(ae) + Len(b)) :
              (ae \o b)[j] = IF j <= Len(ae) THEN ae[j] ELSE b[j - Len(ae)]
    BY <1>4, ConcatProperties
  <2> QED BY <1>4, <1>5, <2>1
<1>7. Len(b) \in Nat
  BY LenProperties
<1>8. m + 1 \in 1..Len(s) /\ s[m + 1] = e
  BY <1>4, <1>6, <1>7
<1>9. \A j \in 1..m : s[j] = a[j] /\ s[j] # e
  <2>1. ASSUME NEW j \in 1..m PROVE s[j] = a[j]
    <3>1. j \in 1..((m + 1) + Len(b)) /\ j <= m + 1
      BY <1>7
    <3> QED BY <1>4, <1>6, <3>1
  <2>2. DOMAIN a = 1..m
    BY <1>1, LenProperties
  <2> QED BY <2>1, <2>2 DEF Range
<1>10. RemoveFirst(s, e) = RemoveAt(s, m + 1)
  <2>1. \A j \in 1..((m + 1) - 1) : s[j] # s[m + 1]
    BY <1>8, <1>9
  <2>2. RemoveFirst(s, s[m + 1]) = RemoveAt(s, m + 1)
    BY <1>6, <1>8, <2>1, FirstRemoved
  <2> QED BY <1>8, <2>2
<1>11. PICK c \in Seq(S), d \in Seq(S) : /\ s = (c \o <<e>>) \o d
                                         /\ RemoveAt(s, m + 1) = c \o d
                                         /\ Len(c) = m
  <2>1. (m + 1) - 1 = m
    OBVIOUS
  <2>2. \E c, d \in Seq(S) : /\ s = (c \o <<s[m + 1]>>) \o d
                             /\ RemoveAt(s, m + 1) = c \o d
                             /\ Len(c) = (m + 1) - 1
    BY <1>6, <1>8, AroundElement
  <2> QED BY <1>8, <2>1, <2>2
<1>12. PICK ce : ce = c \o <<e>>
  OBVIOUS
<1>13. /\ ce \in Seq(S) /\ Len(ce) = m + 1
       /\ \A j \in 1..m : ce[j] = c[j]
  <2>1. ce = Append(c, e)
    BY <1>12, AppendIsConcat
  <2> QED BY <1>11, <2>1, AppendProperties
<1>14. \A j \in 1..m : s[j] = c[j]
  <2>1. \A j \in 1..((m + 1) + Len(d)) : (ce \o d)[j] = IF j <= m + 1 THEN ce[j] ELSE d[j - (m + 1)]
    BY <1>13, ConcatProperties
  <2>2. Len(d) \in Nat
    BY LenProperties
  <2>3. ASSUME NEW j \in 1..m PROVE s[j] = c[j]
    <3>1. j \in 1..((m + 1) + Len(d)) /\ j <= m + 1
      BY <2>2
    <3> QED BY <1>11, <1>12, <1>13, <2>1, <3>1
  <2> QED BY <2>3
<1>15. c = a
  BY SMTT(30), <1>1, <1>9, <1>11, <1>14, SameSeq
<1>16. ae \o b = ae \o d
  BY <1>2, <1>5, <1>11, <1>15
<1>17. b = d
  BY <1>4, <1>16, ConcatSimplifications
<1> QED BY <1>2, <1>5, <1>10, <1>11, <1>15, <1>17

(* RemoveFirst leaves no element twice that was there once.                *)
LEMMA RemoveFirstKeeps ==
  ASSUME NEW S, NEW s \in Seq(S), NEW e
  PROVE  /\ RemoveFirst(s, e) \in Seq(S)
         /\ Range(RemoveFirst(s, e)) \subseteq Range(s)
         /\ IsInjective(s) => IsInjective(RemoveFirst(s, e))
<1>1. CASE RemoveFirst(s, e) = s
  BY <1>1
<1>2. CASE \E i \in 1..Len(s) : RemoveFirst(s, e) = RemoveAt(s, i)
  <2>1. PICK i \in 1..Len(s) : RemoveFirst(s, e) = RemoveAt(s, i)
    BY <1>2
  <2>2. PICK a \in Seq(S), b \in Seq(S) : /\ s = (a \o <<s[i]>>) \o b
                                         /\ RemoveAt(s, i) = a \o b
                                         /\ Len(a) = i - 1
    BY ZenonT(90), AroundElement
  <2>3. <<s[i]>> \in Seq(S) /\ a \o <<s[i]>> \in Seq(S) /\ a \o b \in Seq(S)
    <3>1. s[i] \in S
      BY ElementOfSeq
    <3>2. <<s[i]>> \in Seq(S)
      BY <3>1
    <3> QED BY <3>2, ConcatProperties
  <2>4. /\ IsInjective(s) <=> /\ IsInjective(a \o <<s[i]>>) /\ IsInjective(b)
                              /\ Range(a \o <<s[i]>>) \cap Range(b) = {}
        /\ Range(s) = Range(a \o <<s[i]>>) \cup Range(b)
    <3>1. PICK u : u = a \o <<s[i]>>
      OBVIOUS
    <3>2. u \in Seq(S) /\ s = u \o b
      BY <2>2, <2>3, <3>1
    <3>3. /\ IsInjective(u \o b) <=> /\ IsInjective(u) /\ IsInjective(b)
                                     /\ Range(u) \cap Range(b) = {}
          /\ Range(u \o b) = Range(u) \cup Range(b)
      BY <3>2, ConcatInjective
    <3> QED BY <3>1, <3>2, <3>3
  <2>5. /\ IsInjective(a \o <<s[i]>>) => IsInjective(a)
        /\ Range(a \o <<s[i]>>) = Range(a) \cup Range(<<s[i]>>)
    BY ZenonT(40), <2>3, ConcatInjective
  <2>6. /\ IsInjective(a \o b) <=> /\ IsInjective(a) /\ IsInjective(b)
                                   /\ Range(a) \cap Range(b) = {}
        /\ Range(a \o b) = Range(a) \cup Range(b)
    BY ConcatInjective
  <2> QED BY <2>1, <2>2, <2>3, <2>4, <2>5, <2>6
<1>3. RemoveFirst(s, e) = s \/ \E i \in 1..Len(s) : RemoveFirst(s, e) = RemoveAt(s, i)
  BY RemoveFirstFacts
<1> QED BY <1>1, <1>2, <1>3

(* RemoveAt too.                                                           *)
LEMMA RemoveAtKeeps ==
  ASSUME NEW S, NEW s \in Seq(S), NEW i \in 1..Len(s)
  PROVE  /\ RemoveAt(s, i) \in Seq(S)
         /\ Range(RemoveAt(s, i)) \subseteq Range(s)
         /\ IsInjective(s) => IsInjective(RemoveAt(s, i))
<1>2. PICK a \in Seq(S), b \in Seq(S) : /\ s = (a \o <<s[i]>>) \o b
                                       /\ RemoveAt(s, i) = a \o b
                                       /\ Len(a) = i - 1
  BY ZenonT(40), AroundElement
<1>3. <<s[i]>> \in Seq(S) /\ a \o <<s[i]>> \in Seq(S) /\ a \o b \in Seq(S)
  <2>1. s[i] \in S
    BY ElementOfSeq
  <2>2. <<s[i]>> \in Seq(S)
    BY <2>1
  <2> QED BY <2>2, ConcatProperties
<1>4. /\ IsInjective(s) <=> /\ IsInjective(a \o <<s[i]>>) /\ IsInjective(b)
                            /\ Range(a \o <<s[i]>>) \cap Range(b) = {}
      /\ Range(s) = Range(a \o <<s[i]>>) \cup Range(b)
  <2>1. PICK u : u = a \o <<s[i]>>
    OBVIOUS
  <2>2. u \in Seq(S) /\ s = u \o b
    BY <1>2, <1>3, <2>1
  <2>3. /\ IsInjective(u \o b) <=> /\ IsInjective(u) /\ IsInjective(b)
                                   /\ Range(u) \cap Range(b) = {}
        /\ Range(u \o b) = Range(u) \cup Range(b)
    BY <2>2, ConcatInjective
  <2> QED BY <2>1, <2>2, <2>3
<1>5. /\ IsInjective(a \o <<s[i]>>) => IsInjective(a)
      /\ Range(a \o <<s[i]>>) = Range(a) \cup Range(<<s[i]>>)
  BY <1>3, ConcatInjective
<1>6. /\ IsInjective(a \o b) <=> /\ IsInjective(a) /\ IsInjective(b)
                                 /\ Range(a) \cap Range(b) = {}
      /\ Range(a \o b) = Range(a) \cup Range(b)
  BY ConcatInjective
<1> QED BY <1>2, <1>3, <1>4, <1>5, <1>6

(* Parts that change places, and a part that goes, leave no element twice. *)
LEMMA PartsInjective ==
  ASSUME NEW S, NEW a \in Seq(S), NEW x \in Seq(S), NEW y \in Seq(S), NEW b \in Seq(S)
  PROVE  /\ IsInjective(((a \o x) \o y) \o b) <=> IsInjective(((a \o y) \o x) \o b)
         /\ IsInjective((a \o x) \o b) => IsInjective(a \o b)
<1>1. \A s, t \in Seq(S) :
        /\ s \o t \in Seq(S)
        /\ Range(s \o t) = Range(s) \cup Range(t)
        /\ IsInjective(s \o t) <=> /\ IsInjective(s) /\ IsInjective(t)
                                   /\ Range(s) \cap Range(t) = {}
  BY ConcatInjective, ConcatProperties
<1>2. /\ a \o x \in Seq(S) /\ a \o y \in Seq(S)
      /\ (a \o x) \o y \in Seq(S) /\ (a \o y) \o x \in Seq(S)
  <2>1. a \o x \in Seq(S) /\ a \o y \in Seq(S)
    BY ConcatProperties
  <2> QED BY <2>1, ConcatProperties
<1>3. /\ Range(a \o x) = Range(a) \cup Range(x) /\ Range(a \o y) = Range(a) \cup Range(y)
      /\ Range((a \o x) \o y) = Range(a) \cup Range(x) \cup Range(y)
      /\ Range((a \o y) \o x) = Range(a) \cup Range(x) \cup Range(y)
  <2>1. /\ Range(a \o x) = Range(a) \cup Range(x) /\ Range(a \o y) = Range(a) \cup Range(y)
    BY ConcatInjective
  <2>2. /\ Range((a \o x) \o y) = Range(a \o x) \cup Range(y)
        /\ Range((a \o y) \o x) = Range(a \o y) \cup Range(x)
    <3>1. PICK ax, ay : ax = a \o x /\ ay = a \o y
      OBVIOUS
    <3>2. ax \in Seq(S) /\ ay \in Seq(S)
      BY <1>2, <3>1
    <3>3. Range(ax \o y) = Range(ax) \cup Range(y)
      BY <3>2, ConcatInjective
    <3>4. Range(ay \o x) = Range(ay) \cup Range(x)
      BY <3>2, ConcatInjective
    <3> QED BY <3>1, <3>3, <3>4
  <2> QED BY <2>1, <2>2
<1>4. IsInjective((a \o x) \o b) => IsInjective(a \o b)
  <2>1. IsInjective((a \o x) \o b) =>
          IsInjective(a \o x) /\ IsInjective(b) /\ Range(a \o x) \cap Range(b) = {}
    <3>1. PICK ax : ax = a \o x
      OBVIOUS
    <3>2. IsInjective(ax \o b) =>
            IsInjective(ax) /\ IsInjective(b) /\ Range(ax) \cap Range(b) = {}
      BY <1>2, <3>1, ConcatInjective
    <3> QED BY <3>1, <3>2
  <2>2. IsInjective(a \o x) => IsInjective(a)
    BY <1>1
  <2> QED BY <1>1, <1>3, <2>1, <2>2
<1>5. /\ IsInjective(a \o x) <=> /\ IsInjective(a) /\ IsInjective(x) /\ Range(a) \cap Range(x) = {}
      /\ IsInjective(a \o y) <=> /\ IsInjective(a) /\ IsInjective(y) /\ Range(a) \cap Range(y) = {}
  BY <1>1
<1>6. /\ IsInjective((a \o x) \o y) <=> /\ IsInjective(a \o x) /\ IsInjective(y)
                                       /\ Range(a \o x) \cap Range(y) = {}
      /\ IsInjective((a \o y) \o x) <=> /\ IsInjective(a \o y) /\ IsInjective(x)
                                       /\ Range(a \o y) \cap Range(x) = {}
  BY <1>2, ConcatInjective
<1>7. IsInjective((a \o x) \o y) <=> IsInjective((a \o y) \o x)
  BY <1>3, <1>5, <1>6
<1>8. /\ IsInjective(((a \o x) \o y) \o b) <=> /\ IsInjective((a \o x) \o y) /\ IsInjective(b)
                                              /\ Range((a \o x) \o y) \cap Range(b) = {}
      /\ IsInjective(((a \o y) \o x) \o b) <=> /\ IsInjective((a \o y) \o x) /\ IsInjective(b)
                                              /\ Range((a \o y) \o x) \cap Range(b) = {}
  BY <1>2, ConcatInjective
<1> QED BY <1>3, <1>4, <1>7, <1>8

-----------------------------------------------------------------------------
(* Joining, named: citing facts about it needs no instance of \o.         *)

(* a, and then b.                                                          *)
Cat(a, b) == a \o b

(* Sequences are joined in either order, and are what they were with the   *)
(* empty one.                                                              *)
LEMMA CatFacts ==
  ASSUME NEW S
  PROVE  /\ \A a, b \in Seq(S) : Cat(a, b) \in Seq(S)
         /\ \A a, b, c \in Seq(S) : Cat(Cat(a, b), c) = Cat(a, Cat(b, c))
         /\ \A a \in Seq(S) : Cat(a, <<>>) = a /\ Cat(<<>>, a) = a
         /\ \A a, b \in Seq(S) : Range(Cat(a, b)) = Range(a) \cup Range(b)
         /\ \A a, b \in Seq(S) :
               IsInjective(Cat(a, b)) <=> /\ IsInjective(a) /\ IsInjective(b)
                                          /\ Range(a) \cap Range(b) = {}
<1>1. ASSUME NEW a \in Seq(S), NEW b \in Seq(S) PROVE Cat(a, b) \in Seq(S)
  BY ConcatProperties DEF Cat
<1>2. ASSUME NEW a \in Seq(S), NEW b \in Seq(S), NEW c \in Seq(S)
      PROVE  Cat(Cat(a, b), c) = Cat(a, Cat(b, c))
  BY SMTT(30), ConcatAssociative DEF Cat
<1>3. ASSUME NEW a \in Seq(S) PROVE Cat(a, <<>>) = a /\ Cat(<<>>, a) = a
  BY ConcatEmptySeq DEF Cat
<1>4. ASSUME NEW a \in Seq(S), NEW b \in Seq(S) PROVE Range(Cat(a, b)) = Range(a) \cup Range(b)
  BY ConcatInjective DEF Cat
<1>5. ASSUME NEW a \in Seq(S), NEW b \in Seq(S)
      PROVE  IsInjective(Cat(a, b)) <=> /\ IsInjective(a) /\ IsInjective(b)
                                        /\ Range(a) \cap Range(b) = {}
  BY ConcatInjective DEF Cat
<1> QED BY Zenon, <1>1, <1>2, <1>3, <1>4, <1>5

(* Three sequences are joined in either order.                             *)
Joins(a, b, c) == Cat(Cat(a, b), c) = Cat(a, Cat(b, c))

(* So it is with all sequences over one set.                               *)
LEMMA JoinsAll ==
  ASSUME NEW S
  PROVE  \A a, b, c \in Seq(S) : Joins(a, b, c)
BY Zenon, CatFacts DEF Joins

=============================================================================
