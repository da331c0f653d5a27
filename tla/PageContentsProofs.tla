------------------------- MODULE PageContentsProofs -------------------------
(***************************************************************************)
(* Proofs about the contents of a page: the content streams are what they  *)
(* should be, their lists lead along their trees and edits change one      *)
(* place of them, Contents names their streams in their order, the streams *)
(* hold what the operators spell, and a change of ours begins a content    *)
(* stream.                                                                 *)
(*                                                                         *)
(* The first three follow from TypeInv: every content stream is Whole, its *)
(* operators hang in a tree (Sound) and are linked along it (Listed), and  *)
(* ContentStreamProofs shows that every edit leaves such.                  *)
(* That Contents names the streams needs that no stream is there twice:    *)
(* removeContentStream takes the first reference to each stream it         *)
(* removes, which is the right one only then.  It is so after every parse  *)
(* of distinct streams, and adding, removing and moving keep it;           *)
(* ContentsInv says both at once.  What the streams hold is HoldInv, which *)
(* adds to that what every stream holds.  Where a change of ours begins is *)
(* a matter of parsing alone (GroupsBeginAfter): a content stream that is  *)
(* cut earlier leaves something whose end will be seen (TakenStops).       *)
(***************************************************************************)
EXTENDS PageContents, ContentStreamProofs, FiniteSetTheorems, TLAPS

-----------------------------------------------------------------------------
(* Parsing: the streams are cut where the content streams begin.           *)

(* A sequence is cut where jump says; f is what follows from each place.   *)
Cut(ss, jump, n, f) ==
    [k \in 1..(n + 1) |-> IF k > n THEN <<>>
                          ELSE <<SubSeq(ss, k, jump[k] - 1)>> \o f[jump[k]]]

(* Every group has a stream at least, and none beyond the last.            *)
Jumps(jump, n) == \A k \in 1..n : jump[k] \in (k + 1)..(n + 1)

(* The streams can be cut so.                                              *)
LEMMA CutExists ==
  ASSUME NEW S, NEW ss \in Seq(S), NEW n \in Nat, Len(ss) = n, NEW jump, Jumps(jump, n)
  PROVE  \E f : f = Cut(ss, jump, n, f)
<1> DEFINE X == [1..(n + 1) -> Seq(Seq(S))]
<1> DEFINE g == [i \in 1..(n + 1) |-> [f \in X |-> Cut(ss, jump, n, f)]]
<1>1. ASSUME NEW f \in X, NEW k \in 1..n
      PROVE  <<SubSeq(ss, k, jump[k] - 1)>> \o f[jump[k]] \in Seq(Seq(S))
  <2>1. jump[k] \in (k + 1)..(n + 1)
    BY DEF Jumps
  <2>2. \A j \in k..(jump[k] - 1) : ss[j] \in S
    BY SMTT(30), <2>1, ElementOfSeq
  <2>3. k \in Int /\ jump[k] - 1 \in Int
    BY <2>1
  <2>4. SubSeq(ss, k, jump[k] - 1) \in Seq(S)
    BY <2>2, <2>3, SubSeqProperties
  <2>5. <<SubSeq(ss, k, jump[k] - 1)>> \in Seq(Seq(S))
    BY <2>4
  <2>6. f[jump[k]] \in Seq(Seq(S))
    <3>1. jump[k] \in 1..(n + 1)
      BY <2>1
    <3> QED BY <3>1
  <2> QED BY <2>5, <2>6, ConcatProperties
<1>2. ASSUME NEW f \in X PROVE Cut(ss, jump, n, f) \in X
  <2>1. \A k \in 1..(n + 1) : k \in 1..n \/ k > n
    OBVIOUS
  <2>2. <<>> \in Seq(Seq(S))
    BY EmptySeq
  <2> QED BY <1>1, <2>1, <2>2 DEF Cut
<1>3. g \in [1..(n + 1) -> [X -> X]]
  BY <1>2
<1>4. \A i \in 1..(n + 1), f \in X : g[i][f] = Cut(ss, jump, n, f)
  OBVIOUS
<1>5. PICK none : none = [k \in 1..(n + 1) |-> <<>>]
  OBVIOUS
<1>6. none \in X
  BY <1>5, EmptySeq
<1> HIDE DEF g
<1>7. PICK f : Iterates(f, n + 1, X, none, g)
  <2> HIDE DEF X
  <2>1. n + 1 \in Nat
    OBVIOUS
  <2> QED BY <1>3, <1>6, <2>1, IterateExists
<1>8. f \in [0..(n + 1) -> X] /\ \A i \in 1..(n + 1) : f[i] = g[i][f[i - 1]]
  BY <1>7 DEF Iterates
<1>9. \A i \in 0..(n + 1) : f[i] \in X
  BY <1>8
<1>10. ASSUME NEW i \in 1..(n + 1) PROVE f[i] = Cut(ss, jump, n, f[i - 1])
  <2>1. i - 1 \in 0..(n + 1)
    OBVIOUS
  <2>2. f[i - 1] \in X
    BY <1>9, <2>1
  <2> QED BY <1>4, <1>8, <2>2
<1> HIDE DEF X
<1>11. ASSUME NEW i \in 1..(n + 1), NEW k \in 1..(n + 1)
       PROVE  f[i][k] = IF k > n THEN <<>>
                        ELSE <<SubSeq(ss, k, jump[k] - 1)>> \o f[i - 1][jump[k]]
  BY ZenonT(90), <1>10 DEF Cut
<1> DEFINE Z == {j \in 0..n : \A k \in 1..(n + 1) : k >= n + 1 - j =>
                                \A i \in (j + 1)..(n + 1) : f[i][k] = f[j + 1][k]}
<1>13. 0 \in Z
  <2>1. ASSUME NEW k \in 1..(n + 1), k >= n + 1 - 0, NEW i \in (0 + 1)..(n + 1)
        PROVE  f[i][k] = f[0 + 1][k]
    <3>1. k > n /\ i \in 1..(n + 1) /\ 0 + 1 \in 1..(n + 1)
      BY <2>1
    <3> QED BY <1>11, <3>1
  <2>2. 0 \in 0..n
    OBVIOUS
  <2> QED BY <2>1, <2>2
<1>14. ASSUME NEW j \in 0..(n - 1), j \in Z PROVE j + 1 \in Z
  <2>1. ASSUME NEW k \in 1..(n + 1), k >= n + 1 - (j + 1), NEW i \in ((j + 1) + 1)..(n + 1)
        PROVE  f[i][k] = f[(j + 1) + 1][k]
    <3>0. i \in 1..(n + 1) /\ (j + 1) + 1 \in 1..(n + 1) /\ ((j + 1) + 1) - 1 = j + 1
      OBVIOUS
    <3>1. CASE k > n
      BY <1>11, <3>0, <3>1
    <3>2. CASE ~(k > n)
      <4>1. k \in 1..n /\ jump[k] \in (k + 1)..(n + 1)
        BY <3>2 DEF Jumps
      <4>2. jump[k] \in 1..(n + 1) /\ jump[k] >= n + 1 - j
        BY <2>1, <4>1
      <4>3. i - 1 \in (j + 1)..(n + 1) /\ j + 1 \in (j + 1)..(n + 1)
        OBVIOUS
      <4>4. f[i - 1][jump[k]] = f[j + 1][jump[k]]
        BY <1>14, <4>2, <4>3
      <4>5. f[i][k] = <<SubSeq(ss, k, jump[k] - 1)>> \o f[i - 1][jump[k]]
        BY <1>11, <3>0, <3>2
      <4>6. f[(j + 1) + 1][k] = <<SubSeq(ss, k, jump[k] - 1)>> \o f[j + 1][jump[k]]
        BY ZenonT(40), <1>11, <3>0, <3>2
      <4> QED BY <4>4, <4>5, <4>6
    <3> QED BY <3>1, <3>2
  <2>2. j + 1 \in 0..n
    OBVIOUS
  <2> QED BY <2>1, <2>2
<1> HIDE DEF Z
<1>15. \A j \in 0..n : j \in Z
  <2>1. \A j \in 0..(n - 1) : j \in Z => j + 1 \in Z
    BY <1>14
  <2> QED BY <1>13, <2>1, UpTo0
<1>16. ASSUME NEW k \in 1..n PROVE f[n][jump[k]] = f[n + 1][jump[k]]
  <2>1. jump[k] \in (k + 1)..(n + 1)
    BY DEF Jumps
  <2>2. n - 1 \in 0..n
    OBVIOUS
  <2>3. n - 1 \in Z
    BY <1>15, <2>2
  <2>4. (n - 1) + 1 = n /\ n + 1 - (n - 1) = 2 /\ jump[k] \in 1..(n + 1) /\ jump[k] >= 2
    BY <2>1
  <2>5. \A i \in n..(n + 1) : f[i][jump[k]] = f[n][jump[k]]
    BY <2>3, <2>4 DEF Z
  <2>6. n + 1 \in n..(n + 1)
    OBVIOUS
  <2> QED BY <2>5, <2>6
<1>17. PICK h : h = f[n + 1]
  OBVIOUS
<1>18. ASSUME NEW k \in 1..(n + 1)
       PROVE  h[k] = IF k > n THEN <<>> ELSE <<SubSeq(ss, k, jump[k] - 1)>> \o h[jump[k]]
  <2>1. n + 1 \in 1..(n + 1) /\ (n + 1) - 1 = n
    OBVIOUS
  <2>2. h[k] = IF k > n THEN <<>> ELSE <<SubSeq(ss, k, jump[k] - 1)>> \o f[n][jump[k]]
    BY <1>11, <1>17, <2>1
  <2>3. CASE k > n
    BY <2>2, <2>3
  <2>4. CASE ~(k > n)
    <3>1. k \in 1..n
      BY <2>4
    <3> QED BY <1>16, <1>17, <2>2, <2>4, <3>1
  <2> QED BY <2>3, <2>4
<1>19. h = [k \in 1..(n + 1) |-> h[k]]
  <2>1. n + 1 \in 0..(n + 1)
    OBVIOUS
  <2>2. h \in [1..(n + 1) -> Seq(Seq(S))]
    BY <1>9, <1>17, <2>1 DEF X
  <2> QED BY <2>2
<1>20. h = Cut(ss, jump, n, h)
  BY <1>18, <1>19 DEF Cut
<1> QED BY <1>20

(* The parts are not empty, and make the sequence.                         *)
CutOf(f, ss, n, S) ==
    \A k \in 1..(n + 1) : /\ f[k] \in Seq(Seq(S) \ {<<>>})
                          /\ FlattenSeq(f[k]) = SubSeq(ss, k, n)

(* Every cut does that.                                                    *)
LEMMA CutParts ==
  ASSUME NEW S, NEW ss \in Seq(S), NEW n \in Nat, Len(ss) = n, NEW jump, Jumps(jump, n),
         NEW f, f = Cut(ss, jump, n, f)
  PROVE  CutOf(f, ss, n, S)
<1> DEFINE P == Seq(S) \ {<<>>}
<1> DEFINE Good(k) == f[k] \in Seq(P) /\ FlattenSeq(f[k]) = SubSeq(ss, k, n)
<1>1. \A k \in 1..(n + 1) : f[k] = IF k > n THEN <<>>
                                   ELSE <<SubSeq(ss, k, jump[k] - 1)>> \o f[jump[k]]
  BY DEF Cut
<1>2. Good(n + 1)
  <2>1. n + 1 \in 1..(n + 1) /\ n + 1 > n
    OBVIOUS
  <2>2. f[n + 1] = <<>>
    BY <1>1, <2>1
  <2>3. SubSeq(ss, n + 1, n) = <<>>
    BY <2>1, SubSeqEmpty
  <2>4. <<>> \in Seq(P) /\ FlattenSeq(<<>>) = <<>>
    BY EmptySeq, FlattenFacts
  <2> QED BY <2>2, <2>3, <2>4
<1>3. ASSUME NEW k \in 1..n, Good(jump[k]) PROVE Good(k)
  <2>1. jump[k] \in (k + 1)..(n + 1)
    BY DEF Jumps
  <2>2. PICK j \in k..n : j = jump[k] - 1 /\ j + 1 = jump[k]
    BY <2>1
  <2>3. PICK a, b : a = SubSeq(ss, k, j) /\ b = f[j + 1]
    OBVIOUS
  <2>4. a \in Seq(S) /\ a # <<>>
    <3>1. \A i \in k..j : ss[i] \in S
      BY ElementOfSeq
    <3>2. k \in Int /\ j \in Int /\ k <= j
      OBVIOUS
    <3>3. a \in Seq(S) /\ Len(a) = IF k <= j THEN j - k + 1 ELSE 0
      BY <2>3, <3>1, <3>2, SubSeqProperties
    <3>4. Len(a) # 0
      BY <3>2, <3>3
    <3> QED BY <3>3, <3>4, EmptySeq
  <2>5. b \in Seq(P) /\ FlattenSeq(b) = SubSeq(ss, j + 1, n)
    BY <1>3, <2>2, <2>3
  <2>6. f[k] = <<a>> \o b
    <3>1. k \in 1..(n + 1) /\ ~(k > n)
      OBVIOUS
    <3>2. f[k] = <<SubSeq(ss, k, jump[k] - 1)>> \o f[jump[k]]
      BY <1>1, <3>1
    <3> QED BY <2>2, <2>3, <3>2
  <2>7. <<a>> \in Seq(P) /\ <<a>> \in Seq(Seq(S))
    BY <2>4
  <2>8. f[k] \in Seq(P)
    BY <2>5, <2>6, <2>7, ConcatProperties
  <2>9. b \in Seq(Seq(S))
    <3>1. P \subseteq Seq(S)
      OBVIOUS
    <3> HIDE DEF P
    <3> QED BY <2>5, <3>1, SeqMonotonic
  <2>10. FlattenSeq(f[k]) = a \o SubSeq(ss, j + 1, n)
    <3>1. FlattenSeq(<<a>> \o b) = FlattenSeq(<<a>>) \o FlattenSeq(b)
      BY <2>7, <2>9, FlattenConcat
    <3>2. FlattenSeq(<<a>>) = a
      BY <2>4, FlattenConcat
    <3> QED BY <2>5, <2>6, <3>1, <3>2
  <2>11. a \o SubSeq(ss, j + 1, n) = SubSeq(ss, k, n)
    <3>1. k \in 1..(Len(ss) + 1) /\ j \in (k - 1)..Len(ss) /\ n \in j..Len(ss)
      BY <2>2
    <3> QED BY <2>3, <3>1, ConcatAdjacentSubSeq
  <2> QED BY <2>8, <2>10, <2>11
<1> HIDE DEF Good
<1> DEFINE Y == {j \in 0..n : \A k \in 1..(n + 1) : k >= n + 1 - j => Good(k)}
<1>4. 0 \in Y
  <2>1. \A k \in 1..(n + 1) : k >= n + 1 - 0 => k = n + 1
    OBVIOUS
  <2> QED BY <1>2, <2>1
<1>5. ASSUME NEW j \in 0..(n - 1), j \in Y PROVE j + 1 \in Y
  <2>1. ASSUME NEW k \in 1..(n + 1), k >= n + 1 - (j + 1) PROVE Good(k)
    <3>1. CASE k = n + 1
      BY <1>2, <3>1
    <3>2. CASE k # n + 1
      <4>1. k \in 1..n
        BY <3>2
      <4>2. jump[k] \in (k + 1)..(n + 1)
        BY <4>1 DEF Jumps
      <4>3. jump[k] \in 1..(n + 1) /\ jump[k] >= n + 1 - j
        BY <2>1, <4>1, <4>2
      <4>4. Good(jump[k])
        BY <1>5, <4>3
      <4> QED BY <1>3, <4>1, <4>4
    <3> QED BY <3>1, <3>2
  <2>2. j + 1 \in 0..n
    OBVIOUS
  <2>3. \A k \in 1..(n + 1) : k >= n + 1 - (j + 1) => Good(k)
    BY <2>1
  <2> QED BY <2>2, <2>3
<1> HIDE DEF Y
<1>6. \A j \in 0..n : j \in Y
  <2>1. \A j \in 0..(n - 1) : j \in Y => j + 1 \in Y
    BY <1>5
  <2> QED BY <1>4, <2>1, UpTo0
<1>7. n \in Y
  <2>1. n \in 0..n
    OBVIOUS
  <2> QED BY <1>6, <2>1
<1>8. \A k \in 1..(n + 1) : Good(k)
  <2>1. \A k \in 1..(n + 1) : k >= n + 1 - n
    OBVIOUS
  <2> QED BY <1>7, <2>1 DEF Y
<1> QED BY <1>8 DEF Good, CutOf

(* The groups as Groups defines them.                                      *)
GroupStep(t, ss, f) ==
    [k \in 1..(Len(ss) + 1) |->
        IF k > Len(ss) THEN <<>>
        ELSE LET n == Taken(WordsFrom(t, ss, k)) IN <<SubSeq(ss, k, k + n - 1)>> \o f[k + n]]

(* What is taken at each place, and what follows; f[1] are the groups.     *)
GroupedBy(t, ss, f, n, S) ==
    /\ Groups(t, ss) = f[1]
    /\ CutOf(f, ss, n, S)
    /\ f[n + 1] = <<>>
    /\ \A k \in 1..n :
         LET taken == Taken(WordsFrom(t, ss, k))
         IN /\ taken \in 1..(n - k + 1)
            /\ f[k] = Cat(<<SubSeq(ss, k, k + taken - 1)>>, f[k + taken])

(* So parsing takes the streams.                                           *)
LEMMA GroupsCut ==
  ASSUME NEW S, NEW ss \in Seq(S), NEW t, \A s \in S : t[s] \in Seq(Operators)
  PROVE  \E f : GroupedBy(t, ss, f, Len(ss), S)
<1>1. PICK n \in Nat : n = Len(ss)
  BY LenProperties
<1>2. PICK jump : jump = [k \in 1..n |-> k + Taken(WordsFrom(t, ss, k))]
  OBVIOUS
<1>12. ASSUME NEW k \in 1..n PROVE Taken(WordsFrom(t, ss, k)) \in 1..(n - k + 1)
  <2>1. PICK m \in Nat \ {0} : m = n - k + 1
    OBVIOUS
  <2>2. PICK words : words = WordsFrom(t, ss, k)
    OBVIOUS
  <2>3. words = [j \in 1..m |-> t[ss[k + j - 1]]]
    BY <1>1, <2>1, <2>2 DEF WordsFrom
  <2>4. \A j \in 1..m : t[ss[k + j - 1]] \in Seq(Operators)
    <3>1. \A i \in 1..n : ss[i] \in S
      BY <1>1, ElementOfSeq
    <3>2. \A j \in 1..m : k + j - 1 \in 1..n
      BY <2>1
    <3> QED BY <3>1, <3>2
  <2>5. words \in [1..m -> Seq(Operators)]
    BY <2>3, <2>4
  <2>6. words \in Seq(Seq(Operators)) /\ Len(words) = m
    BY <2>5, SeqIsFunction
  <2>7. Taken(words) \in 1..m
    BY <2>6, TakenType
  <2> QED BY <2>1, <2>2, <2>7
<1>3. Jumps(jump, n)
  <2>1. \A k \in 1..n : jump[k] \in (k + 1)..(n + 1)
    BY SMTT(60), <1>2, <1>12
  <2> QED BY <2>1 DEF Jumps
<1>4. ASSUME NEW f PROVE GroupStep(t, ss, f) = Cut(ss, jump, n, f)
  <2>2. \A k \in 1..n : jump[k] = k + Taken(WordsFrom(t, ss, k))
    BY <1>2
  <2>1. \A k \in 1..n : jump[k] - 1 = k + Taken(WordsFrom(t, ss, k)) - 1
    <3>1. ASSUME NEW k \in 1..n PROVE jump[k] - 1 = k + Taken(WordsFrom(t, ss, k)) - 1
      <4>1. PICK m \in Nat : m = Taken(WordsFrom(t, ss, k))
        BY <1>12
      <4>2. jump[k] = k + m
        BY <2>2, <4>1
      <4> QED BY <4>1, <4>2
    <3> QED BY <3>1
  <2>3. \A k \in 1..(n + 1) : ~(k > n) => k \in 1..n
    OBVIOUS
  <2>4. \A k \in 1..(n + 1) :
          (IF k > n THEN <<>>
           ELSE <<SubSeq(ss, k, k + Taken(WordsFrom(t, ss, k)) - 1)>>
                  \o f[k + Taken(WordsFrom(t, ss, k))])
          = (IF k > n THEN <<>> ELSE <<SubSeq(ss, k, jump[k] - 1)>> \o f[jump[k]])
    BY <2>1, <2>2, <2>3
  <2> QED BY <1>1, <2>4 DEF GroupStep, Cut
<1>5. \E f : f = GroupStep(t, ss, f)
  <2>1. PICK f : f = Cut(ss, jump, n, f)
    BY <1>1, <1>3, CutExists
  <2> QED BY <1>4, <2>1
<1>6. PICK from : from = (CHOOSE f : f = GroupStep(t, ss, f))
  OBVIOUS
<1>7. from = GroupStep(t, ss, from)
  BY <1>5, <1>6
<1>8. Groups(t, ss) = from[1]
  BY <1>6 DEF Groups, GroupStep
<1>9. CutOf(from, ss, n, S)
  <2>1. from = Cut(ss, jump, n, from)
    BY <1>4, <1>7
  <2> QED BY <1>1, <1>3, <2>1, CutParts
<1>10. \A k \in 1..(n + 1) :
          from[k] = IF k > n THEN <<>>
                    ELSE <<SubSeq(ss, k, k + Taken(WordsFrom(t, ss, k)) - 1)>>
                           \o from[k + Taken(WordsFrom(t, ss, k))]
  BY Zenon, <1>1, <1>7 DEF GroupStep
<1>11. ASSUME NEW k \in 1..n, NEW taken, taken = Taken(WordsFrom(t, ss, k))
       PROVE  from[k] = Cat(<<SubSeq(ss, k, k + taken - 1)>>, from[k + taken])
  <2>1. k \in 1..(n + 1) /\ ~(k > n)
    OBVIOUS
  <2> QED BY Zenon, <1>10, <1>11, <2>1 DEF Cat
<1>13. from[n + 1] = <<>>
  <2>1. n + 1 \in 1..(n + 1) /\ n + 1 > n
    OBVIOUS
  <2> QED BY Zenon, <1>10, <2>1
<1>14. GroupedBy(t, ss, from, n, S)
  BY Zenon, <1>8, <1>9, <1>11, <1>12, <1>13 DEF GroupedBy
<1> QED BY <1>1, <1>14

(* Parsing distributes the streams: no content stream is without one, and  *)
(* one after the other they have them all.                                 *)
LEMMA GroupsParts ==
  ASSUME NEW S, NEW ss \in Seq(S), NEW t, \A s \in S : t[s] \in Seq(Operators)
  PROVE  /\ Groups(t, ss) \in Seq(Seq(S) \ {<<>>})
         /\ FlattenSeq(Groups(t, ss)) = ss
<1>1. PICK n \in Nat : n = Len(ss)
  BY LenProperties
<1>2. PICK f : GroupedBy(t, ss, f, n, S)
  BY <1>1, GroupsCut
<1>3. f[1] \in Seq(Seq(S) \ {<<>>}) /\ FlattenSeq(f[1]) = SubSeq(ss, 1, n)
  <2>1. 1 \in 1..(n + 1)
    OBVIOUS
  <2> QED BY <1>2, <2>1 DEF GroupedBy, CutOf
<1>4. SubSeq(ss, 1, n) = ss
  BY <1>1, SubSeqFull
<1> QED BY <1>2, <1>3, <1>4 DEF GroupedBy

-----------------------------------------------------------------------------
(* Numbers of content streams, and streams that are taken out.             *)

(* The numbers of parsed content streams differ, and none is that of the   *)
(* one that is kept.                                                       *)
LEMMA NewIdsType ==
  ASSUME NEW n \in Nat, NEW h \in Nat, h = held
  PROVE  /\ NewIds(n) \in Seq(Nat \ {0}) /\ Len(NewIds(n)) = n
         /\ IsInjective(NewIds(n)) /\ h \notin Range(NewIds(n))
<1>1. PICK ids : ids = NewIds(n)
  OBVIOUS
<1>2. ids = [k \in 1..n |-> IF h = 0 \/ k < h THEN k ELSE k + 1]
  BY <1>1 DEF NewIds
<1>3. ids \in [1..n -> Nat \ {0}]
  BY <1>2
<1>4. ids \in Seq(Nat \ {0}) /\ Len(ids) = n
  BY <1>3, SeqIsFunction
<1>5. IsInjective(ids)
  <2>1. \A a, b \in 1..n : ids[a] = ids[b] => a = b
    BY <1>2
  <2> QED BY <1>3, <2>1 DEF IsInjective
<1>6. h \notin Range(ids)
  <2>1. \A k \in 1..n : ids[k] # h
    BY <1>2
  <2>2. DOMAIN ids = 1..n
    BY <1>3
  <2> QED BY <2>1, <2>2 DEF Range
<1> QED BY <1>1, <1>4, <1>5, <1>6

(* There is a number that is not used.                                     *)
LEMMA FreshIdType ==
  ASSUME NEW used, IsFiniteSet(used)
  PROVE  FreshId(used) \in Nat \ {0} /\ FreshId(used) \notin used
<1>1. PICK n \in Nat : n = Cardinality(used)
  BY FS_CardinalityType
<1>2. IsFiniteSet(1..(n + 1)) /\ Cardinality(1..(n + 1)) = n + 1
  <2>1. 1 \in Int /\ n + 1 \in Int /\ ~(1 > n + 1) /\ (n + 1) - 1 + 1 = n + 1
    OBVIOUS
  <2>2. Cardinality(1..(n + 1)) = (n + 1) - 1 + 1
    BY <2>1, FS_Interval
  <2>3. IsFiniteSet(1..(n + 1))
    BY <2>1, FS_Interval
  <2> QED BY <2>1, <2>2, <2>3
<1>3. ~(1..(n + 1) \subseteq used)
  <2>1. ASSUME 1..(n + 1) \subseteq used PROVE FALSE
    <3>1. 1..(n + 1) \in SUBSET used
      BY <2>1
    <3>2. Cardinality(1..(n + 1)) <= Cardinality(used)
      BY <3>1, FS_Subset
    <3> QED BY <1>1, <1>2, <3>2
  <2> QED BY <2>1
<1>4. \E c \in 1..(n + 1) : c \notin used
  BY <1>3
<1>5. FreshId(used) = CHOOSE c \in 1..(n + 1) : c \notin used
  BY <1>1 DEF FreshId
<1>6. FreshId(used) \in 1..(n + 1) /\ FreshId(used) \notin used
  BY <1>4, <1>5, Zenon
<1> QED BY <1>6

-----------------------------------------------------------------------------
(* What is left when streams go, one after the other.                      *)
LeftStep(ss, gone, left) ==
    [k \in 0..Len(gone) |-> IF k = 0 THEN ss ELSE RemoveFirst(left[k - 1], gone[k])]

(* f[i] is what is left when i streams are gone.                           *)
Leaves(f, ss, gone, n) ==
    f[0] = ss /\ \A i \in 1..n : f[i] = RemoveFirst(f[i - 1], gone[i])

(* Without is the last of them.                                            *)
LEMMA WithoutIs ==
  ASSUME NEW ss, NEW gone, NEW n \in Nat, Len(gone) = n, NEW f, Leaves(f, ss, gone, n)
  PROVE  Without(ss, gone) = f[n]
<1>1. \E left : left = LeftStep(ss, gone, left)
  <2> DEFINE d == [i \in 0..n |-> f[i]]
  <2>1. ASSUME NEW i \in 0..n
        PROVE  d[i] = IF i = 0 THEN ss ELSE RemoveFirst(d[i - 1], gone[i])
    <3>1. CASE i = 0
      BY <3>1 DEF Leaves
    <3>2. CASE i # 0
      <4>1. i \in 1..n /\ i - 1 \in 0..n
        BY <3>2
      <4> QED BY <3>2, <4>1 DEF Leaves
    <3> QED BY <3>1, <3>2
  <2>2. d = [i \in 0..n |-> d[i]]
    OBVIOUS
  <2> HIDE DEF d
  <2>3. d = LeftStep(ss, gone, d)
    BY <2>1, <2>2 DEF LeftStep
  <2> QED BY <2>3
<1>2. PICK left : left = (CHOOSE l : l = LeftStep(ss, gone, l))
  OBVIOUS
<1>3. left = LeftStep(ss, gone, left)
  BY <1>1, <1>2
<1>4. \A k \in 0..n : left[k] = IF k = 0 THEN ss ELSE RemoveFirst(left[k - 1], gone[k])
  BY <1>3 DEF LeftStep
<1>5. Without(ss, gone) = left[n]
  BY <1>2 DEF Without, LeftStep
<1> DEFINE X == {k \in 0..n : left[k] = f[k]}
<1>6. 0 \in X
  <2>1. 0 \in 0..n
    OBVIOUS
  <2> QED BY <1>4, <2>1 DEF Leaves
<1>7. \A k \in 0..(n - 1) : k \in X => k + 1 \in X
  <2>1. ASSUME NEW k \in 0..(n - 1), k \in X PROVE k + 1 \in X
    <3>1. k + 1 \in 0..n /\ k + 1 \in 1..n /\ k + 1 # 0 /\ (k + 1) - 1 = k
      OBVIOUS
    <3>2. left[k + 1] = RemoveFirst(left[k], gone[k + 1])
      BY <1>4, <3>1
    <3>3. f[k + 1] = RemoveFirst(f[k], gone[k + 1])
      BY <3>1 DEF Leaves
    <3> QED BY <2>1, <3>1, <3>2, <3>3
  <2> QED BY <2>1
<1> HIDE DEF X
<1>8. \A k \in 0..n : k \in X
  BY <1>6, <1>7, UpTo0
<1>9. n \in X
  <2>1. n \in 0..n
    OBVIOUS
  <2> QED BY <1>8, <2>1
<1> QED BY <1>5, <1>9 DEF X

(* There are such.                                                         *)
LEMMA LeavesExist ==
  ASSUME NEW S, NEW ss \in Seq(S), NEW gone, NEW n \in Nat
  PROVE  \E f \in [0..n -> Seq(S)] : Leaves(f, ss, gone, n)
<1> DEFINE g == [i \in 1..n |-> [s \in Seq(S) |-> RemoveFirst(s, gone[i])]]
<1>1. g \in [1..n -> [Seq(S) -> Seq(S)]]
  BY RemoveFirstKeeps
<1>2. PICK f : Iterates(f, n, Seq(S), ss, g)
  <2> HIDE DEF g
  <2> QED BY <1>1, IterateExists
<1>3. f \in [0..n -> Seq(S)] /\ f[0] = ss
  BY <1>2 DEF Iterates
<1>4. ASSUME NEW i \in 1..n PROVE f[i] = RemoveFirst(f[i - 1], gone[i])
  <2>1. i - 1 \in 0..n
    OBVIOUS
  <2>2. f[i - 1] \in Seq(S)
    BY <1>3, <2>1
  <2>3. f[i] = g[i][f[i - 1]]
    BY <1>2 DEF Iterates
  <2> QED BY <2>2, <2>3
<1> QED BY <1>3, <1>4 DEF Leaves

(* Nothing goes, or one more.                                              *)
LEMMA WithoutFacts ==
  ASSUME NEW S
  PROVE  /\ \A ss \in Seq(S) : Without(ss, <<>>) = ss
         /\ \A ss \in Seq(S), gone \in Seq(S), e \in S :
               Without(ss, Append(gone, e)) = RemoveFirst(Without(ss, gone), e)
<1>1. ASSUME NEW ss \in Seq(S) PROVE Without(ss, <<>>) = ss
  <2>1. PICK f \in [0..0 -> Seq(S)] : Leaves(f, ss, <<>>, 0)
    BY LeavesExist
  <2>2. Len(<<>>) = 0 /\ 0 \in Nat
    OBVIOUS
  <2>3. Without(ss, <<>>) = f[0]
    BY <2>1, <2>2, WithoutIs
  <2> QED BY <2>1, <2>3 DEF Leaves
<1>2. ASSUME NEW ss \in Seq(S), NEW gone \in Seq(S), NEW e \in S
      PROVE  Without(ss, Append(gone, e)) = RemoveFirst(Without(ss, gone), e)
  <2>1. PICK n \in Nat : n = Len(gone)
    BY LenProperties
  <2>2. PICK more : more = Append(gone, e)
    OBVIOUS
  <2>3. Len(more) = n + 1 /\ more[n + 1] = e /\ \A i \in 1..n : more[i] = gone[i]
    BY <2>1, <2>2, AppendProperties
  <2>4. n + 1 \in Nat
    OBVIOUS
  <2>5. PICK f \in [0..(n + 1) -> Seq(S)] : Leaves(f, ss, more, n + 1)
    BY <2>4, LeavesExist
  <2>6. Without(ss, more) = f[n + 1]
    BY <2>3, <2>4, <2>5, WithoutIs
  <2>7. Leaves(f, ss, gone, n)
    <3>1. \A i \in 1..n : i \in 1..(n + 1)
      OBVIOUS
    <3> QED BY <2>3, <2>5, <3>1 DEF Leaves
  <2>8. Without(ss, gone) = f[n]
    BY <2>1, <2>7, WithoutIs
  <2>9. f[n + 1] = RemoveFirst(f[n], e)
    <3>1. n + 1 \in 1..(n + 1) /\ (n + 1) - 1 = n
      OBVIOUS
    <3> QED BY <2>3, <2>5, <3>1 DEF Leaves
  <2> QED BY <2>2, <2>6, <2>8, <2>9
<1> QED BY <1>1, <1>2

(* What is left are streams, and no stream is there twice.                 *)
LEMMA WithoutKeeps ==
  ASSUME NEW S, NEW ss \in Seq(S)
  PROVE  \A gone \in Seq(S) : /\ Without(ss, gone) \in Seq(S)
                              /\ IsInjective(ss) => IsInjective(Without(ss, gone))
<1> DEFINE X == {gone \in Seq(S) : /\ Without(ss, gone) \in Seq(S)
                                   /\ IsInjective(ss) => IsInjective(Without(ss, gone))}
<1>1. <<>> \in X
  BY EmptySeq, WithoutFacts
<1>2. ASSUME NEW gone \in Seq(S), NEW e \in S, gone \in X PROVE Append(gone, e) \in X
  <2>1. PICK left : left = Without(ss, gone)
    OBVIOUS
  <2>2. left \in Seq(S) /\ (IsInjective(ss) => IsInjective(left))
    BY <1>2, <2>1
  <2>3. Without(ss, Append(gone, e)) = RemoveFirst(left, e)
    BY <2>1, WithoutFacts
  <2>4. /\ RemoveFirst(left, e) \in Seq(S)
        /\ IsInjective(left) => IsInjective(RemoveFirst(left, e))
    BY <2>2, RemoveFirstKeeps
  <2>5. Append(gone, e) \in Seq(S)
    BY AppendProperties
  <2> QED BY <2>2, <2>3, <2>4, <2>5
<1> HIDE DEF X
<1>3. \A gone \in Seq(S) : gone \in X
  BY <1>1, <1>2, SeqInduction
<1> QED BY <1>3 DEF X

(* Streams that stand together and are nowhere else go as one.             *)
LEMMA WithoutMiddle ==
  ASSUME NEW S, NEW a \in Seq(S)
  PROVE  \A b \in Seq(S) : \A c \in Seq(S) :
            IsInjective((a \o b) \o c) => Without((a \o b) \o c, b) = a \o c
<1> DEFINE X == {b \in Seq(S) : \A c \in Seq(S) :
                   IsInjective((a \o b) \o c) => Without((a \o b) \o c, b) = a \o c}
<1>1. <<>> \in X
  <2>1. ASSUME NEW c \in Seq(S) PROVE Without((a \o <<>>) \o c, <<>>) = a \o c
    <3>1. a \o <<>> = a
      BY ConcatEmptySeq
    <3>2. PICK ac : ac = a \o c
      OBVIOUS
    <3>3. ac \in Seq(S)
      BY <3>2, ConcatProperties
    <3>4. Without(ac, <<>>) = ac
      BY <3>3, WithoutFacts
    <3> QED BY <3>1, <3>2, <3>4
  <2> QED BY <2>1, EmptySeq
<1>2. ASSUME NEW b \in Seq(S), NEW e \in S, b \in X PROVE Append(b, e) \in X
  <2>1. ASSUME NEW c \in Seq(S), IsInjective((a \o Append(b, e)) \o c)
        PROVE  Without((a \o Append(b, e)) \o c, Append(b, e)) = a \o c
    <3>1. PICK one : one = <<e>>
      OBVIOUS
    <3>2. one \in Seq(S) /\ Append(b, e) = b \o one
      BY <3>1, AppendIsConcat
    <3>3. PICK ab, ec, all : ab = a \o b /\ ec = one \o c /\ all = (a \o Append(b, e)) \o c
      OBVIOUS
    <3>4. ab \in Seq(S) /\ ec \in Seq(S)
      BY <3>2, <3>3, ConcatProperties
    <3>5. a \o Append(b, e) = ab \o one
      BY SMTT(60), <3>2, <3>3, ConcatAssociative
    <3>6. all = ab \o ec
      BY SMTT(30), <3>2, <3>3, <3>4, <3>5, ConcatAssociative
    <3>7. IsInjective(ab \o ec)
      BY <2>1, <3>3, <3>6
    <3>8. Without(all, b) = a \o ec
      BY <1>2, <3>3, <3>4, <3>6, <3>7
    <3>9. all \in Seq(S)
      BY <3>4, <3>6, ConcatProperties
    <3>10. Without(all, Append(b, e)) = RemoveFirst(a \o ec, e)
      <4>1. Without(all, Append(b, e)) = RemoveFirst(Without(all, b), e)
        BY <3>9, WithoutFacts
      <4> QED BY <3>8, <4>1
    <3>11. a \o ec = (a \o <<e>>) \o c
      BY SMTT(30), <3>1, <3>2, <3>3, ConcatAssociative
    <3>12. e \notin Range(a)
      <4>1. Range(ab) \cap Range(ec) = {}
        BY <3>4, <3>7, ConcatInjective
      <4>2. Range(ab) = Range(a) \cup Range(b)
        BY <3>3, ConcatInjective
      <4>3. Range(ec) = Range(one) \cup Range(c)
        BY <3>2, <3>3, ConcatInjective
      <4>4. e \in Range(one)
        <5>1. one[1] = e /\ 1 \in DOMAIN one
          BY <3>1
        <5> QED BY <5>1 DEF Range
      <4> QED BY <4>1, <4>2, <4>3, <4>4
    <3>13. RemoveFirst((a \o <<e>>) \o c, e) = a \o c
      BY <3>12, RemoveMiddle
    <3> QED BY <3>3, <3>10, <3>11, <3>13
  <2>2. Append(b, e) \in Seq(S)
    BY AppendProperties
  <2> QED BY <2>1, <2>2
<1> HIDE DEF X
<1>3. \A b \in Seq(S) : b \in X
  BY <1>1, <1>2, SeqInduction
<1> QED BY <1>3 DEF X

-----------------------------------------------------------------------------
(* Content streams and pages.                                              *)

(* All streams of T hold words.                                            *)
HoldWords(t, T) == \A s \in T : t[s] \in Seq(Operators)

(* The operators of a content stream hang in a tree, and are linked along  *)
(* the walk through it.                                                    *)
Whole(c, T, n) == Sound(c, T, n) /\ Listed(c, n)

(* A content stream of the page: it has a stream at least.                 *)
StreamOver(c, T) == c.streams # <<>> /\ \E n \in Nat : Whole(c, T, n)

(* What the whole is.                                                      *)
LEMMA WholeParts ==
  ASSUME NEW c, NEW T, StreamOver(c, T)
  PROVE  /\ c.streams # <<>> /\ \E n \in Nat : Sound(c, T, n)
         /\ c.streams \in Seq(T)
<1>1. PICK n \in Nat : Sound(c, T, n)
  BY DEF StreamOver, Whole
<1> QED BY <1>1, SoundParts DEF StreamOver

(* A page whose content streams have streams of T.                         *)
PageOver(page, T) ==
    /\ page.ccs \in Seq(Nat \ {0}) /\ IsInjective(page.ccs)
    /\ DOMAIN page.css = Live(page.ccs, held)
    /\ \A c \in DOMAIN page.css : StreamOver(page.css[c], T)

(* What streams hold is a word.                                            *)
LEMMA JoinedType ==
  ASSUME NEW T, NEW t, HoldWords(t, T), NEW ss \in Seq(T)
  PROVE  Joined(t, ss) \in Seq(Operators)
<1>1. PICK n \in Nat : n = Len(ss)
  BY LenProperties
<1>2. PICK words : words = [k \in 1..n |-> t[ss[k]]]
  OBVIOUS
<1>3. \A k \in 1..n : t[ss[k]] \in Seq(Operators)
  <2>1. \A k \in 1..n : ss[k] \in T
    BY <1>1, ElementOfSeq
  <2> QED BY <2>1 DEF HoldWords
<1>4. words \in [1..n -> Seq(Operators)]
  BY <1>2, <1>3
<1>5. words \in Seq(Seq(Operators))
  BY <1>4, SeqIsFunction
<1>6. FlattenSeq(words) \in Seq(Operators)
  BY <1>5, FlattenFacts
<1> QED BY <1>1, <1>2, <1>6 DEF Joined

(* One of the groups begins when x streams are before it.                  *)
GroupBegins(groups, x) == \E k \in 1..Len(groups) : Len(PartOf(groups, 1, k - 1)) = x

(* With one more group before, as many more are.                           *)
LEMMA GroupBeginsLater ==
  ASSUME NEW S, NEW groups \in Seq(Seq(S)), NEW a \in Seq(S), NEW x \in Nat,
         GroupBegins(groups, x)
  PROVE  GroupBegins(Cat(<<a>>, groups), Len(a) + x)
<1>1. PICK n \in Nat : n = Len(groups)
  BY LenProperties
<1>2. PICK k \in 1..n : Len(PartOf(groups, 1, k - 1)) = x
  BY <1>1 DEF GroupBegins
<1>3. PICK more : more = Cat(<<a>>, groups)
  OBVIOUS
<1>4. PICK T : T = Seq(S)
  OBVIOUS
<1>5. <<a>> \in Seq(T) /\ groups \in Seq(T) /\ Len(<<a>>) = 1 /\ <<a>>[1] = a
  BY <1>4
<1>6. more \in Seq(Seq(S)) /\ Len(more) = n + 1 /\ more[1] = a
  <2>0. PICK one : one = <<a>>
    OBVIOUS
  <2>1. /\ one \o groups \in Seq(T) /\ Len(one \o groups) = Len(one) + Len(groups)
        /\ \A i \in 1..(Len(one) + Len(groups)) :
              (one \o groups)[i] = IF i <= Len(one) THEN one[i] ELSE groups[i - Len(one)]
    BY ZenonT(40), <1>5, <2>0, ConcatProperties
  <2>2. /\ more \in Seq(T) /\ Len(more) = 1 + n
        /\ \A i \in 1..(1 + n) : more[i] = IF i <= 1 THEN one[i] ELSE groups[i - 1]
    BY <1>1, <1>3, <1>5, <2>0, <2>1 DEF Cat
  <2>3. more[1] = one[1]
    BY <2>2
  <2> QED BY <1>4, <1>5, <2>0, <2>2, <2>3
<1>7. PICK m \in Nat : m = n + 1
  OBVIOUS
<1>8. PICK u, v : u = PartOf(more, 1, 1) /\ v = PartOf(more, 1 + 1, k)
  OBVIOUS
<1>9. PartOf(more, 1, k) = Cat(u, v) /\ u = a /\ v \in Seq(S)
  <2>1. 1 \in 1..(m + 1) /\ 1 \in (1 - 1)..m /\ k \in 1..m /\ 1 \in 1..m
    BY <1>7
  <2>2. PartOf(more, 1, k) = Cat(PartOf(more, 1, 1), PartOf(more, 1 + 1, k))
    BY <1>6, <1>7, <2>1, PartsJoined
  <2>3. PartOf(more, 1, 1) = more[1]
    BY <1>6, <1>7, <2>1, PartsJoined
  <2>4. 1 + 1 \in 1..(m + 1) /\ k \in 0..m
    BY <1>7
  <2>5. PartOf(more, 1 + 1, k) \in Seq(S)
    BY <1>6, <1>7, <2>4, PartsJoined
  <2> QED BY <1>6, <1>8, <2>2, <2>3, <2>5
<1>10. v = PartOf(groups, 1, k - 1)
  <2>1. CASE k = 1
    <3>1. SubSeq(more, 1 + 1, k) = <<>> /\ SubSeq(groups, 1, k - 1) = <<>>
      <4>1. 1 + 1 \in Int /\ k \in Int /\ k < 1 + 1 /\ 1 \in Int /\ k - 1 \in Int /\ k - 1 < 1
        BY <2>1
      <4> QED BY <4>1, SubSeqEmpty
    <3> QED BY <1>8, <3>1 DEF PartOf
  <2>2. CASE k # 1
    <3>1. /\ 1 + 1 \in (Len(<<a>>) + 1)..(Len(<<a>>) + Len(groups))
          /\ k \in (Len(<<a>>) + 1)..(Len(<<a>>) + Len(groups))
          /\ (1 + 1) - Len(<<a>>) = 1 /\ k - Len(<<a>>) = k - 1
      BY <1>1, <1>5, <2>2
    <3>2. SubSeq(<<a>> \o groups, 1 + 1, k) =
            SubSeq(groups, (1 + 1) - Len(<<a>>), k - Len(<<a>>))
      BY <1>5, <3>1, SubSeqOfConcat2
    <3>3. SubSeq(more, 1 + 1, k) = SubSeq(groups, 1, k - 1)
      BY <1>3, <3>1, <3>2 DEF Cat
    <3> QED BY <1>8, <3>3 DEF PartOf
  <2> QED BY <2>1, <2>2
<1>11. Len(PartOf(more, 1, k)) = Len(a) + x
  <2>1. Len(a \o v) = Len(a) + Len(v)
    BY <1>9, ConcatProperties
  <2>2. PartOf(more, 1, k) = a \o v
    BY <1>9 DEF Cat
  <2> QED BY <1>2, <1>10, <2>1, <2>2
<1>12. k + 1 \in 1..Len(more) /\ (k + 1) - 1 = k
  BY <1>6
<1> QED BY <1>3, <1>11, <1>12 DEF GroupBegins

(* These are the words of the streams from the k-th on; W are all words.   *)
WordsAre(words, W, t, ss, k, n) ==
    /\ words \in Seq(Seq(Operators)) /\ Len(words) = n - k + 1
    /\ \A j \in 1..(n - k + 1) : words[j] = t[ss[k + j - 1]]
    /\ \A i \in 1..(n - k + 2), j \in 0..(n - k + 1) :
          PartOf(words, i, j) = PartOf(W, k + i - 1, k + j - 1)
    /\ \A i \in 1..(n + 1), j \in 0..n : PartOf(W, i, j) = Joined(t, SubSeq(ss, i, j))

(* WordsFrom takes them.                                                   *)
LEMMA WordsFromFacts ==
  ASSUME NEW S, NEW ss \in Seq(S), NEW t, HoldWords(t, S), NEW n \in Nat, Len(ss) = n,
         NEW k \in 1..n
  PROVE  WordsAre(WordsFrom(t, ss, k), WordsFrom(t, ss, 1), t, ss, k, n)
<1>1. PICK T : T = Seq(Operators)
  OBVIOUS
<1>2. \A i \in 1..n : ss[i] \in S
  BY ElementOfSeq
<1>3. \A i \in 1..n : t[ss[i]] \in T
  BY <1>1, <1>2 DEF HoldWords
<1>4. ASSUME NEW x \in 1..n
      PROVE  /\ WordsFrom(t, ss, x) \in Seq(T) /\ Len(WordsFrom(t, ss, x)) = n - x + 1
             /\ \A j \in 1..(n - x + 1) : WordsFrom(t, ss, x)[j] = t[ss[x + j - 1]]
  <2>1. PICK m \in Nat : m = n - x + 1
    OBVIOUS
  <2>2. PICK f : f = WordsFrom(t, ss, x)
    OBVIOUS
  <2>3. f = [j \in 1..m |-> t[ss[x + j - 1]]]
    BY <2>1, <2>2 DEF WordsFrom
  <2>4. \A j \in 1..m : x + j - 1 \in 1..n
    BY <2>1
  <2>5. f \in [1..m -> T]
    BY <1>3, <2>3, <2>4
  <2>6. f \in Seq(T) /\ Len(f) = m
    BY <2>5, SeqIsFunction
  <2>7. \A j \in 1..m : f[j] = t[ss[x + j - 1]]
    BY <2>3
  <2> QED BY <2>1, <2>2, <2>6, <2>7
<1>5. 1 \in 1..n
  OBVIOUS
<1>6. PICK f, g : f = WordsFrom(t, ss, k) /\ g = WordsFrom(t, ss, 1)
  OBVIOUS
<1>7. /\ g \in Seq(T) /\ Len(g) = n /\ \A j \in 1..n : g[j] = t[ss[j]]
  <2>1. /\ g \in Seq(T) /\ Len(g) = n - 1 + 1
        /\ \A j \in 1..(n - 1 + 1) : g[j] = t[ss[1 + j - 1]]
    BY <1>4, <1>5, <1>6
  <2>2. n - 1 + 1 = n /\ \A j \in 1..n : 1 + j - 1 = j
    OBVIOUS
  <2> QED BY <2>1, <2>2
<1>8. /\ f \in Seq(T) /\ Len(f) = n - k + 1
      /\ \A j \in 1..(n - k + 1) : f[j] = t[ss[k + j - 1]]
  BY <1>4, <1>6
<1>9. ASSUME NEW i \in 1..(n - k + 2), NEW j \in 0..(n - k + 1)
      PROVE  PartOf(f, i, j) = PartOf(g, k + i - 1, k + j - 1)
  <2>1. PICK x, y : x = SubSeq(f, i, j) /\ y = SubSeq(g, k + i - 1, k + j - 1)
    OBVIOUS
  <2>2. i \in Int /\ j \in Int /\ k + i - 1 \in Int /\ k + j - 1 \in Int
    OBVIOUS
  <2>3. \A z \in i..j : f[z] \in T
    <3>1. \A z \in i..j : z \in 1..(n - k + 1)
      OBVIOUS
    <3> QED BY <1>8, <3>1, ElementOfSeq
  <2>4. \A z \in (k + i - 1)..(k + j - 1) : g[z] \in T
    <3>1. \A z \in (k + i - 1)..(k + j - 1) : z \in 1..n
      OBVIOUS
    <3> QED BY <1>7, <3>1, ElementOfSeq
  <2>5. /\ x \in Seq(T) /\ Len(x) = IF i <= j THEN j - i + 1 ELSE 0
        /\ \A z \in 1..(j - i + 1) : x[z] = f[i + z - 1]
    BY <2>1, <2>2, <2>3, SubSeqProperties
  <2>6. PICK i2 \in Int, j2 \in Int : i2 = k + i - 1 /\ j2 = k + j - 1
    BY <2>2
  <2>7. /\ y \in Seq(T) /\ Len(y) = IF i2 <= j2 THEN j2 - i2 + 1 ELSE 0
        /\ \A z \in 1..(j2 - i2 + 1) : y[z] = g[i2 + z - 1]
    BY <2>1, <2>4, <2>6, SubSeqProperties
  <2>8. PICK m \in Nat : m = IF i <= j THEN j - i + 1 ELSE 0
    <3>1. i <= j => j - i + 1 \in Nat
      OBVIOUS
    <3>2. (IF i <= j THEN j - i + 1 ELSE 0) \in Nat
      <4>1. CASE i <= j
        BY <3>1, <4>1
      <4>2. CASE ~(i <= j)
        BY <4>2
      <4> QED BY <4>1, <4>2
    <3> QED BY <3>2
  <2>9. Len(x) = m /\ Len(y) = m
    BY <2>5, <2>6, <2>7, <2>8
  <2>10. ASSUME NEW z \in 1..m PROVE x[z] = y[z]
    <3>1. /\ z \in 1..(j - i + 1) /\ z \in 1..(j2 - i2 + 1)
          /\ i + z - 1 \in 1..(n - k + 1) /\ i2 + z - 1 \in 1..n
          /\ k + (i + z - 1) - 1 = i2 + z - 1
      BY <2>6, <2>8
    <3>2. x[z] = f[i + z - 1] /\ y[z] = g[i2 + z - 1]
      BY <2>5, <2>7, <3>1
    <3>3. f[i + z - 1] = t[ss[k + (i + z - 1) - 1]]
      BY <1>8, <3>1
    <3>4. g[i2 + z - 1] = t[ss[i2 + z - 1]]
      BY <1>7, <3>1
    <3> QED BY <3>1, <3>2, <3>3, <3>4
  <2>11. x = y
    BY <2>5, <2>7, <2>9, <2>10, SameSeq
  <2> QED BY <2>1, <2>11 DEF PartOf
<1>10. ASSUME NEW i \in 1..(n + 1), NEW j \in 0..n
       PROVE  PartOf(g, i, j) = Joined(t, SubSeq(ss, i, j))
  <2>1. PICK x, y : x = SubSeq(g, i, j) /\ y = SubSeq(ss, i, j)
    OBVIOUS
  <2>2. i \in Int /\ j \in Int
    OBVIOUS
  <2>3. \A z \in i..j : g[z] \in T /\ ss[z] \in S
    <3>1. \A z \in i..j : z \in 1..n
      OBVIOUS
    <3> QED BY <1>2, <1>7, <3>1, ElementOfSeq
  <2>4. /\ x \in Seq(T) /\ Len(x) = IF i <= j THEN j - i + 1 ELSE 0
        /\ \A z \in 1..(j - i + 1) : x[z] = g[i + z - 1]
    BY <2>1, <2>2, <2>3, SubSeqProperties
  <2>5. /\ y \in Seq(S) /\ Len(y) = IF i <= j THEN j - i + 1 ELSE 0
        /\ \A z \in 1..(j - i + 1) : y[z] = ss[i + z - 1]
    BY <2>1, <2>2, <2>3, SubSeqProperties
  <2>6. PICK m \in Nat : m = IF i <= j THEN j - i + 1 ELSE 0
    <3>1. i <= j => j - i + 1 \in Nat
      OBVIOUS
    <3>2. (IF i <= j THEN j - i + 1 ELSE 0) \in Nat
      <4>1. CASE i <= j
        BY <3>1, <4>1
      <4>2. CASE ~(i <= j)
        BY <4>2
      <4> QED BY <4>1, <4>2
    <3> QED BY <3>2
  <2>7. \A z \in 1..m : z \in 1..(j - i + 1) /\ i + z - 1 \in 1..n
    BY <2>6
  <2>8. ASSUME NEW z \in 1..m PROVE x[z] = t[y[z]]
    <3>1. x[z] = g[i + z - 1] /\ y[z] = ss[i + z - 1]
      BY <2>4, <2>5, <2>7
    <3>2. g[i + z - 1] = t[ss[i + z - 1]]
      BY <1>7, <2>7
    <3> QED BY <3>1, <3>2
  <2>9. Len(x) = m /\ Len(y) = m
    BY <2>4, <2>5, <2>6
  <2>10. x = [z \in 1..m |-> x[z]]
    <3>1. x \in [1..m -> T]
      BY <2>4, <2>9, LenProperties
    <3> QED BY <3>1
  <2>11. x = [z \in 1..Len(y) |-> t[y[z]]]
    BY <2>8, <2>9, <2>10
  <2> QED BY <2>1, <2>11 DEF PartOf, Joined
<1> QED BY <1>1, <1>6, <1>8, <1>9, <1>10 DEF WordsAre

(* What comes before a change of ours, from the first stream on, is        *)
(* something parsing stops after: then a content stream begins with it.    *)
LEMMA GroupsBeginAfter ==
  ASSUME NEW S, NEW ss \in Seq(S), NEW t, HoldWords(t, S), NEW n \in Nat, Len(ss) = n,
         NEW i \in 2..n, t[ss[i]] # <<>>, t[ss[i]][1] = ChangeTag,
         Stops(Joined(t, SubSeq(ss, 1, i - 1)))
  PROVE  GroupBegins(Groups(t, ss), i - 1)
<1>1. PICK f : GroupedBy(t, ss, f, n, S)
  BY GroupsCut DEF HoldWords
<1>2. /\ Groups(t, ss) = f[1]
      /\ CutOf(f, ss, n, S)
      /\ \A k \in 1..n : Taken(WordsFrom(t, ss, k)) \in 1..(n - k + 1)
      /\ \A k \in 1..n : f[k] = Cat(<<SubSeq(ss, k, k + Taken(WordsFrom(t, ss, k)) - 1)>>,
                                    f[k + Taken(WordsFrom(t, ss, k))])
  BY <1>1 DEF GroupedBy
<1>3. \A k \in 1..(n + 1) : /\ f[k] \in Seq(Seq(S) \ {<<>>}) /\ f[k] \in Seq(Seq(S))
                            /\ FlattenSeq(f[k]) = SubSeq(ss, k, n)
  <2>1. Seq(S) \ {<<>>} \subseteq Seq(S)
    OBVIOUS
  <2>2. Seq(Seq(S) \ {<<>>}) \subseteq Seq(Seq(S))
    BY <2>1, SeqMonotonic
  <2> QED BY <1>2, <2>2 DEF CutOf
<1>4. PICK W : W = WordsFrom(t, ss, 1)
  OBVIOUS
<1> DEFINE Good(k) == k = i \/ Stops(PartOf(W, k, i - 1)) => GroupBegins(f[k], i - k)
<1>5. Good(i)
  <2>1. i \in 1..(n + 1) /\ i - i = 0 /\ i \in 1..n
    OBVIOUS
  <2>2. f[i] # <<>>
    <3>1. FlattenSeq(f[i]) = SubSeq(ss, i, n)
      BY <1>3, <2>1
    <3>2. \A j \in i..n : ss[j] \in S
      BY ElementOfSeq
    <3>3. i \in Int /\ n \in Int /\ i <= n
      OBVIOUS
    <3>4. Len(SubSeq(ss, i, n)) = n - i + 1
      BY <3>2, <3>3, SubSeqProperties
    <3>5. n - i + 1 # Len(<<>>)
      BY <3>3, EmptySeq
    <3>6. FlattenSeq(f[i]) # <<>>
      BY <3>1, <3>4, <3>5
    <3> QED BY <3>6, FlattenFacts
  <2>3. 1 \in 1..Len(f[i])
    <3>1. f[i] \in Seq(Seq(S))
      BY <1>3, <2>1
    <3>2. Len(f[i]) # 0 /\ Len(f[i]) \in Nat
      BY <2>2, <3>1, EmptySeq, LenProperties
    <3> QED BY <3>2
  <2>4. Len(PartOf(f[i], 1, 1 - 1)) = 0
    <3>1. SubSeq(f[i], 1, 1 - 1) = <<>>
      <4>1. 1 \in Int /\ 1 - 1 \in Int /\ 1 - 1 < 1
        OBVIOUS
      <4> QED BY <4>1, SubSeqEmpty
    <3>2. PartOf(f[i], 1, 1 - 1) = <<>>
      BY <3>1, FlattenFacts DEF PartOf
    <3> QED BY <3>2, EmptySeq
  <2>5. GroupBegins(f[i], i - i)
    BY <2>1, <2>3, <2>4 DEF GroupBegins
  <2> QED BY <2>5
<1>6. ASSUME NEW k \in 1..(i - 1), \A j \in (k + 1)..i : Good(j)
      PROVE  Good(k)
  <2> SUFFICES ASSUME Stops(PartOf(W, k, i - 1)) PROVE GroupBegins(f[k], i - k)
    OBVIOUS
  <2>1. PICK words, taken : words = WordsFrom(t, ss, k) /\ taken = Taken(words)
    OBVIOUS
  <2>2. PICK l \in Nat, m \in Nat : l = n - k + 1 /\ m = i - k
    OBVIOUS
  <2>3. m \in 1..(l - 1) /\ k \in 1..n /\ i \in 1..n
    BY <2>2
  <2>4. /\ words \in Seq(Seq(Operators)) /\ Len(words) = l
        /\ \A j \in 1..l : words[j] = t[ss[k + j - 1]]
        /\ \A x \in 1..(l + 1), y \in 0..l :
              PartOf(words, x, y) = PartOf(W, k + x - 1, k + y - 1)
    <3>1. n - k + 2 = l + 1
      BY <2>2
    <3>2. /\ words \in Seq(Seq(Operators)) /\ Len(words) = n - k + 1
          /\ \A j \in 1..(n - k + 1) : words[j] = t[ss[k + j - 1]]
          /\ \A x \in 1..(n - k + 2), y \in 0..(n - k + 1) :
                PartOf(words, x, y) = PartOf(W, k + x - 1, k + y - 1)
      <4>1. WordsAre(words, W, t, ss, k, n)
        BY <1>4, <2>1, <2>3, WordsFromFacts
      <4> QED BY <4>1 DEF WordsAre
    <3> QED BY <2>2, <3>1, <3>2
  <2>5. words[m + 1] = t[ss[i]]
    <3>1. m + 1 \in 1..l /\ k + (m + 1) - 1 = i
      BY <2>2, <2>3
    <3> QED BY <2>4, <3>1
  <2>6. PartOf(words, 1, m) = PartOf(W, k, i - 1)
    <3>1. 1 \in 1..(l + 1) /\ m \in 0..l /\ k + 1 - 1 = k /\ k + m - 1 = i - 1
      BY <2>2, <2>3
    <3>2. PartOf(words, 1, m) = PartOf(W, k + 1 - 1, k + m - 1)
      BY <2>4, <3>1
    <3> QED BY <3>1, <3>2
  <2>7. taken \in 1..m /\ (taken < m => Stops(PartOf(words, taken + 1, m)))
    <3>1. words[m + 1] # <<>> /\ words[m + 1][1] = ChangeTag
      BY <2>5
    <3>2. Stops(PartOf(words, 1, m))
      BY <2>6
    <3> QED BY <2>1, <2>3, <2>4, <3>1, <3>2, TakenStops
  <2>8. PICK j \in (k + 1)..i : j = k + taken
    BY <2>2, <2>7
  <2>9. j = i \/ Stops(PartOf(W, j, i - 1))
    <3> SUFFICES ASSUME j # i PROVE Stops(PartOf(W, j, i - 1))
      OBVIOUS
    <3>1. taken < m
      BY <2>2, <2>7, <2>8
    <3>2. /\ taken + 1 \in 1..(l + 1) /\ m \in 0..l
          /\ k + (taken + 1) - 1 = j /\ k + m - 1 = i - 1
      BY <2>2, <2>3, <2>7, <2>8
    <3>3. PartOf(words, taken + 1, m) = PartOf(W, k + (taken + 1) - 1, k + m - 1)
      BY <2>4, <3>2
    <3>4. PartOf(words, taken + 1, m) = PartOf(W, j, i - 1)
      BY <3>2, <3>3
    <3> QED BY <2>7, <3>1, <3>4
  <2>10. GroupBegins(f[j], i - j)
    BY <1>6, <2>9
  <2>11. PICK a : a = SubSeq(ss, k, j - 1)
    OBVIOUS
  <2>12. a \in Seq(S) /\ Len(a) = j - k
    <3>1. \A x \in k..(j - 1) : ss[x] \in S
      BY ElementOfSeq
    <3>2. k \in Int /\ j - 1 \in Int /\ k <= j - 1 /\ (j - 1) - k + 1 = j - k
      OBVIOUS
    <3> QED BY <2>11, <3>1, <3>2, SubSeqProperties
  <2>13. f[k] = Cat(<<a>>, f[j])
    <3>1. f[k] = Cat(<<SubSeq(ss, k, k + taken - 1)>>, f[k + taken])
      BY <1>2, <2>1, <2>3
    <3>2. k + taken - 1 = j - 1
      BY <2>7, <2>8
    <3> QED BY <2>8, <2>11, <3>1, <3>2
  <2>14. f[j] \in Seq(Seq(S)) /\ i - j \in Nat
    <3>1. j \in 1..(n + 1)
      OBVIOUS
    <3> QED BY <1>3, <3>1
  <2>15. GroupBegins(Cat(<<a>>, f[j]), Len(a) + (i - j))
    BY <2>10, <2>12, <2>14, GroupBeginsLater
  <2>16. Len(a) + (i - j) = i - k
    BY <2>12
  <2> QED BY <2>13, <2>15, <2>16
<1> HIDE DEF Good
<1> DEFINE Y == {d \in 0..(i - 1) : \A k \in 1..i : k >= i - d => Good(k)}
<1>7. 0 \in Y
  <2>1. \A k \in 1..i : k >= i - 0 => k = i
    OBVIOUS
  <2>2. 0 \in 0..(i - 1)
    OBVIOUS
  <2> QED BY <1>5, <2>1, <2>2
<1>8. ASSUME NEW d \in 0..((i - 1) - 1), d \in Y PROVE d + 1 \in Y
  <2>1. ASSUME NEW k \in 1..i, k >= i - (d + 1) PROVE Good(k)
    <3>1. CASE k = i
      BY <1>5, <3>1
    <3>2. CASE k # i
      <4>1. k \in 1..(i - 1)
        BY <3>2
      <4>2. \A j \in (k + 1)..i : j \in 1..i /\ j >= i - d
        BY <2>1
      <4>3. \A j \in (k + 1)..i : Good(j)
        BY <1>8, <4>2
      <4> QED BY <1>6, <4>1, <4>3
    <3> QED BY <3>1, <3>2
  <2>2. d + 1 \in 0..(i - 1)
    OBVIOUS
  <2> QED BY <2>1, <2>2
<1> HIDE DEF Y
<1>9. i - 1 \in Y
  <2>1. \A d \in 0..((i - 1) - 1) : d \in Y => d + 1 \in Y
    BY <1>8
  <2>2. i - 1 \in Nat
    OBVIOUS
  <2>3. \A d \in 0..(i - 1) : d \in Y
    BY <1>7, <2>1, <2>2, UpTo0
  <2>4. i - 1 \in 0..(i - 1)
    OBVIOUS
  <2> QED BY <2>3, <2>4
<1>10. Good(1)
  <2>1. 1 \in 1..i /\ 1 >= i - (i - 1)
    OBVIOUS
  <2> QED BY <1>9, <2>1 DEF Y
<1>11. Stops(PartOf(W, 1, i - 1))
  <2>1. 1 \in 1..n /\ 1 \in 1..(n + 1) /\ i - 1 \in 0..n
    OBVIOUS
  <2>2. WordsAre(W, W, t, ss, 1, n)
    BY <1>4, <2>1, WordsFromFacts
  <2>3. PartOf(W, 1, i - 1) = Joined(t, SubSeq(ss, 1, i - 1))
    BY <2>1, <2>2 DEF WordsAre
  <2> QED BY <2>3
<1> QED BY <1>2, <1>10, <1>11 DEF Good

(* setStreams makes a content stream of streams.                           *)
LEMMA ContentStreamOfType ==
  ASSUME NEW T, NEW t, HoldWords(t, T), NEW ss \in Seq(T)
  PROVE  /\ ContentStreamOf(t, ss).streams = ss
         /\ ContentStreamOf(t, ss).dirty = FALSE
         /\ ss # <<>> => StreamOver(ContentStreamOf(t, ss), T)
<1>1. PICK w : w = Kept(Joined(t, ss))
  OBVIOUS
<1>2. w \in Seq(Operators)
  BY <1>1, JoinedType, KeptType
<1>3. PICK n \in Nat : n = Len(w)
  BY <1>2, LenProperties
<1>4. PICK tree : tree = TreeOf(w)
  OBVIOUS
<1>5. PartsOK(tree, n) /\ KidsNewer(tree.kids, n)
  BY <1>2, <1>3, <1>4, TreeOfParts
<1>6. PICK c : c = ContentStreamOf(t, ss)
  OBVIOUS
<1>7. c = [streams |-> ss, op |-> tree.op, kids |-> tree.kids, next |-> tree.next,
           prev |-> tree.prev, own |-> tree.own, dirty |-> FALSE, cut |-> FALSE]
  BY <1>1, <1>4, <1>6 DEF ContentStreamOf, Parsed, Record
<1>8. Sound(c, T, n)
  BY <1>5, <1>7 DEF Sound, ContentStreams, PartsOK
<1>9. Listed(c, n)
  <2>1. c.kids = TreeOf(w).kids /\ c.next = TreeOf(w).next /\ c.prev = TreeOf(w).prev
    BY <1>4, <1>7
  <2> QED BY <1>2, <1>3, <2>1, TreeListed
<1> QED BY <1>6, <1>7, <1>8, <1>9 DEF StreamOver, Whole

(* More streams there are, and the content streams stay such.              *)
LEMMA SoundMore ==
  ASSUME NEW T, NEW U, T \subseteq U
  PROVE  \A c : StreamOver(c, T) => StreamOver(c, U)
<1>1. Seq(T) \subseteq Seq(U)
  BY SeqMonotonic
<1>2. \A n \in Nat : \A c : Sound(c, T, n) => Sound(c, U, n)
  BY <1>1 DEF Sound, ContentStreams
<1> QED BY <1>2 DEF StreamOver, Whole

(* A page with one content stream for every group.                         *)
GroupedAs(page, t, groups, T) ==
    /\ PageOver(page, T)
    /\ page.ccs = NewIds(Len(groups))
    /\ \A k \in 1..Len(groups) : page.css[page.ccs[k]] = ContentStreamOf(t, groups[k])

(* A page that is parsed has content streams.                              *)
LEMMA PageGroupedOver ==
  ASSUME NEW T, NEW t, HoldWords(t, T), held \in Nat,
         held # 0 => StreamOver(css[held], T),
         NEW groups \in Seq(Seq(T) \ {<<>>})
  PROVE  GroupedAs(PageGrouped(t, groups), t, groups, T)
<1>10. PICK n \in Nat : n = Len(groups)
  BY LenProperties
<1>1. PICK ids, page : n = Len(groups) /\ ids = NewIds(n) /\ page = PageGrouped(t, groups)
  BY <1>10
<1>2. /\ ids \in Seq(Nat \ {0}) /\ Len(ids) = n
      /\ IsInjective(ids) /\ held \notin Range(ids)
  <2>1. PICK h \in Nat : h = held
    OBVIOUS
  <2> QED BY <1>1, <2>1, NewIdsType
<1>3. page = [ccs |-> ids,
              css |-> [c \in Range(ids) \cup ({held} \ {0}) |->
                         IF c = held THEN css[c]
                         ELSE ContentStreamOf(t, groups[CHOOSE k \in 1..Len(ids) : ids[k] = c])]]
  BY <1>1 DEF PageGrouped, PageOf
<1>4. DOMAIN ids = 1..n
  BY <1>2, LenProperties
<1>5. ASSUME NEW k \in 1..n PROVE page.css[ids[k]] = ContentStreamOf(t, groups[k])
  <2>1. ids[k] \in Range(ids)
    BY <1>4 DEF Range
  <2>2. ids[k] # held
    BY <1>2, <2>1
  <2>3. PICK i : i = CHOOSE j \in 1..Len(ids) : ids[j] = ids[k]
    OBVIOUS
  <2>4. i = k
    <3>1. i \in 1..n /\ ids[i] = ids[k]
      BY <1>2, <2>3
    <3> QED BY <1>2, <1>4, <3>1 DEF IsInjective
  <2> QED BY <1>3, <2>1, <2>2, <2>3, <2>4
<1>6. ASSUME NEW c \in DOMAIN page.css PROVE StreamOver(page.css[c], T)
  <2>1. CASE c \in Range(ids)
    <3>1. PICK k \in 1..n : c = ids[k]
      BY <1>4, <2>1 DEF Range
    <3>2. groups[k] \in Seq(T) \ {<<>>}
      BY <1>1, ElementOfSeq
    <3>3. StreamOver(ContentStreamOf(t, groups[k]), T)
      BY <3>2, ContentStreamOfType
    <3> QED BY <1>5, <3>1, <3>3
  <2>2. CASE c \notin Range(ids)
    <3>1. c = held /\ held # 0
      BY <1>3, <2>2
    <3>2. page.css[c] = css[held]
      BY <1>3, <3>1
    <3> QED BY <3>1, <3>2
  <2> QED BY <2>1, <2>2
<1>7. DOMAIN page.css = Live(page.ccs, held)
  BY <1>3 DEF Live
<1>8. page.ccs = ids
  BY <1>3
<1>9. PageOver(page, T)
  BY <1>2, <1>6, <1>7, <1>8 DEF PageOver
<1> QED BY <1>1, <1>5, <1>8, <1>9 DEF GroupedAs

(* The streams of the content streams of a page, one after the other.      *)
StreamsOf(page) == [k \in 1..Len(page.ccs) |-> page.css[page.ccs[k]].streams]
Flat(page) == FlattenSeq(StreamsOf(page))

(* A page that is parsed holds the streams it was parsed from.             *)
LEMMA PageParsedOver ==
  ASSUME NEW T, NEW t, HoldWords(t, T), held \in Nat,
         held # 0 => StreamOver(css[held], T), NEW ss \in Seq(T)
  PROVE  PageOver(PageParsed(t, ss), T) /\ Flat(PageParsed(t, ss)) = ss
<1>1. PICK groups : groups = Groups(t, ss)
  OBVIOUS
<1>2. groups \in Seq(Seq(T) \ {<<>>}) /\ FlattenSeq(groups) = ss
  BY <1>1, GroupsParts DEF HoldWords
<1>10. PICK n \in Nat : n = Len(groups)
  BY <1>2, LenProperties
<1>3. PICK page : n = Len(groups) /\ page = PageGrouped(t, groups)
  BY <1>10
<1>4. /\ PageOver(page, T) /\ page.ccs = NewIds(n)
      /\ \A k \in 1..n : page.css[page.ccs[k]] = ContentStreamOf(t, groups[k])
  <2>1. GroupedAs(page, t, groups, T)
    BY <1>2, <1>3, PageGroupedOver
  <2> QED BY <1>3, <2>1 DEF GroupedAs
<1>5. Len(page.ccs) = n
  <2>1. PICK h \in Nat : h = held
    OBVIOUS
  <2> QED BY <1>4, <2>1, NewIdsType
<1>6. \A k \in 1..n : page.css[page.ccs[k]].streams = groups[k]
  <2>1. ASSUME NEW k \in 1..n PROVE page.css[page.ccs[k]].streams = groups[k]
    <3>1. groups[k] \in Seq(T)
      BY <1>2, <1>3, ElementOfSeq
    <3>2. ContentStreamOf(t, groups[k]).streams = groups[k]
      BY ZenonT(40), <3>1, ContentStreamOfType
    <3>3. page.css[page.ccs[k]] = ContentStreamOf(t, groups[k])
      BY <1>4
    <3> QED BY <3>2, <3>3, Zenon
  <2> QED BY <2>1
<1>7. StreamsOf(page) = groups
  <2>1. StreamsOf(page) = [k \in 1..n |-> groups[k]]
    BY <1>5, <1>6 DEF StreamsOf
  <2>2. groups = [k \in 1..n |-> groups[k]]
    BY <1>2, <1>3, LenProperties
  <2> QED BY <2>1, <2>2
<1>8. PageParsed(t, ss) = page
  BY <1>1, <1>3 DEF PageParsed
<1> QED BY <1>2, <1>4, <1>7, <1>8 DEF Flat

(* The operators that are inserted have a first.                           *)
LEMMA NewOperatorsType ==
  ASSUME PageContentsAssumption, NEW w \in NewOperators
  PROVE  w \in Seq(Operators) /\ Len(w) \in Nat \ {0} /\ OneOperator(w)
<1>1. w \in Seq(Operators) /\ Complete(w) /\ Parsed(w).kids[0] = <<1>>
  BY DEF PageContentsAssumption
<1>2. Kept(w) = w
  BY <1>1 DEF Kept, UpTo, Complete
<1>3. PICK n \in Nat : n = Len(w)
  BY <1>1, LenProperties
<1>4. PartsOK(TreeOf(w), n)
  BY <1>1, <1>3, TreeOfParts
<1>5. <<1>> \in Seq(1..n)
  <2>1. TreeOf(w).kids \in [0..n -> Seq(1..n)]
    BY <1>4 DEF PartsOK
  <2>2. 0 \in 0..n
    OBVIOUS
  <2>3. TreeOf(w).kids[0] = <<1>>
    BY <1>1, <1>2 DEF Parsed
  <2> QED BY <2>1, <2>2, <2>3
<1>6. 1 \in 1..n
  <2>1. PICK s : s = <<1>>
    OBVIOUS
  <2>2. s \in Seq(1..n) /\ Len(s) = 1 /\ s[1] = 1
    BY <1>5, <2>1
  <2>3. 1 \in 1..Len(s)
    BY <2>2
  <2>4. s[1] \in 1..n
    BY <2>2, <2>3, ElementOfSeq
  <2> QED BY <2>2, <2>4
<1>7. OneOperator(w)
  BY <1>1, <1>2 DEF Parsed, OneOperator
<1> QED BY <1>1, <1>3, <1>6, <1>7

-----------------------------------------------------------------------------
(* The types, and the edits of one content stream.                         *)

(* What the steps keep.                                                    *)
TypeInv ==
    /\ text \in [Streams -> Seq(Operators) \cup {NoStream}]
    /\ contents \in [kind : Kinds, streams : Seq(Exists)]
    /\ contents.kind = "stream" => Len(contents.streams) <= 1
    /\ held \in Nat
    /\ PageOver(PageAsIs, Exists)
    /\ unseen \in BOOLEAN /\ twice \in BOOLEAN
    /\ steps \in 0..MaxSteps

(* It is more than the type.                                               *)
LEMMA TypeInvImpliesType == TypeInv => PageContentsTypeOK
<1> SUFFICES ASSUME TypeInv PROVE PageContentsTypeOK
  OBVIOUS
<1>1. /\ ccs \in Seq(Nat \ {0}) /\ IsInjective(ccs)
      /\ DOMAIN css = Live(ccs, held)
      /\ \A c \in DOMAIN css : StreamOver(css[c], Exists)
  BY DEF TypeInv, PageOver, PageAsIs
<1>2. ASSUME NEW c \in DOMAIN css
      PROVE  /\ css[c].streams \in Seq(Exists) \ {<<>>}
             /\ css[c].op \in Seq(Operators)
             /\ DOMAIN css[c].kids = 0..Len(css[c].op)
             /\ \A p \in DOMAIN css[c].kids : css[c].kids[p] \in Seq(1..Len(css[c].op))
             /\ css[c].next \in Seq(0..Len(css[c].op)) /\ Len(css[c].next) = Len(css[c].op)
             /\ css[c].prev \in Seq(0..Len(css[c].op)) /\ Len(css[c].prev) = Len(css[c].op)
             /\ css[c].own \subseteq 1..Len(css[c].op)
  <2>10. PICK n \in Nat : Sound(css[c], Exists, n) /\ css[c].streams # <<>>
    BY <1>1, WholeParts
  <2>1. PICK cs, T : cs = css[c] /\ T = Exists /\ Sound(cs, T, n) /\ cs.streams # <<>>
    BY <2>10
  <2>2. /\ cs.streams \in Seq(T)
        /\ cs.op \in [1..n -> Operators] /\ cs.kids \in [0..n -> Seq(1..n)]
        /\ cs.next \in [1..n -> 0..n] /\ cs.prev \in [1..n -> 0..n]
        /\ cs.own \in SUBSET (1..n) /\ Len(cs.op) = n
    BY <2>1, SoundParts
  <2>3. cs.op \in Seq(Operators)
    BY <2>2, SeqIsFunction
  <2>4. cs.next \in Seq(0..n) /\ Len(cs.next) = n
    BY <2>2, SeqIsFunction
  <2>5. cs.prev \in Seq(0..n) /\ Len(cs.prev) = n
    BY <2>2, SeqIsFunction
  <2>6. /\ cs.streams \in Seq(T) \ {<<>>}
        /\ DOMAIN cs.kids = 0..Len(cs.op)
        /\ \A p \in DOMAIN cs.kids : cs.kids[p] \in Seq(1..Len(cs.op))
        /\ cs.own \subseteq 1..Len(cs.op)
    BY <2>1, <2>2
  <2> QED BY <2>1, <2>2, <2>3, <2>4, <2>5, <2>6
<1>3. contents.kind \in Kinds /\ contents.streams \in Seq(Exists)
  BY DEF TypeInv
<1> QED BY <1>1, <1>2, <1>3 DEF TypeInv, PageContentsTypeOK

(* Then the list is the walk through the tree.                             *)
LEMMA TypeInvIteration == TypeInv => IterationIsTree
<1> SUFFICES ASSUME TypeInv, NEW c \in DOMAIN css, ~css[c].cut
             PROVE  /\ List(css[c]) = AllOf(css[c])
                    /\ \A i \in 1..Len(List(css[c])) :
                         css[c].prev[List(css[c])[i]] = IF i = 1 THEN 0 ELSE List(css[c])[i - 1]
  BY DEF IterationIsTree
<1>1. StreamOver(css[c], Exists)
  BY DEF TypeInv, PageOver, PageAsIs
<1>2. PICK cs, T : cs = css[c] /\ T = Exists
  OBVIOUS
<1>3. PICK n \in Nat : Sound(cs, T, n) /\ Listed(cs, n) /\ ~cs.cut
  BY <1>1, <1>2 DEF StreamOver, Whole
<1>4. List(cs) = AllOf(cs)
  BY <1>3, ListOf
<1>5. PICK s : s = AllOf(cs)
  OBVIOUS
<1>6. Linked(cs.next, cs.prev, s) /\ s \in Seq(1..n)
  <2>1. cs.kids \in [0..n -> Seq(1..n)] /\ KidsNewer(cs.kids, n)
    BY <1>3, SoundParts
  <2> QED BY <1>3, <1>5, <2>1, AllOfType DEF Listed, Chained
<1>7. ASSUME NEW i \in 1..Len(s) PROVE cs.prev[s[i]] = IF i = 1 THEN 0 ELSE s[i - 1]
  <2>1. cs.prev[s[i]] = At(s, i - 1)
    BY <1>6 DEF Linked
  <2>2. Len(s) \in Nat
    BY <1>6, LenProperties
  <2>3. i - 1 \in 1..Len(s) <=> i # 1
    BY <2>2
  <2> QED BY <2>1, <2>3 DEF At
<1> QED BY <1>2, <1>4, <1>5, <1>7

(* x is the i-th operator that is walked through, and X all that is below. *)
PlaceOf(c, i, x, X) == i \in 1..Len(AllOf(c)) /\ x = AllOf(c)[i] /\ X = Below(c, x)

(* The edits of one operator change one place.                             *)
LEMMA EditsOfWhole ==
  ASSUME PageContentsAssumption, NEW T, NEW n \in Nat, NEW cs, Sound(cs, T, n), Listed(cs, n), ~cs.cut,
         NEW i, NEW x, NEW X, PlaceOf(cs, i, x, X)
  PROVE  EditsAt(cs, x, SubSeq(Spelled(cs), 1, i - 1), WordOf(cs, X),
                 SubSeq(Spelled(cs), i + Len(X), Len(Spelled(cs))))
<1>1. PICK a, b, z : /\ a = SubSeq(Spelled(cs), 1, i - 1) /\ z = WordOf(cs, X)
                     /\ b = SubSeq(Spelled(cs), i + Len(X), Len(Spelled(cs)))
  OBVIOUS
<1>2. ASSUME NEW p \in Found(cs, x)
      PROVE  /\ Spelled(Deleted(cs, x, p)) = a \o b
             /\ \A w \in NewOperators :
                  /\ Spelled(Inserted(cs, x, p, w)) = a \o z \o w \o b
                  /\ Spelled(Replaced(cs, x, p, w)) = a \o w \o b
  <2>1. EditedAt(cs, n, i, x, p, X)
    BY <1>2 DEF EditedAt, PlaceOf
  <2>2. Spelled(Deleted(cs, x, p)) = a \o b
    <3>1. Spelled(Deleted(cs, x, p)) =
            SubSeq(Spelled(cs), 1, i - 1) \o SubSeq(Spelled(cs), i + Len(X), Len(Spelled(cs)))
      <4>1. DeletedSpells(cs, i, x, p, X)
        BY <2>1, DeletedWord
      <4> QED BY <4>1 DEF DeletedSpells
    <3> QED BY <1>1, <3>1, Zenon
  <2>3. ASSUME NEW w \in NewOperators
        PROVE  /\ Spelled(Inserted(cs, x, p, w)) = a \o z \o w \o b
               /\ Spelled(Replaced(cs, x, p, w)) = a \o w \o b
    <3>1. w \in Seq(Operators) /\ Len(w) \in Nat \ {0} /\ OneOperator(w)
      BY NewOperatorsType
    <3>2. PICK m \in Nat \ {0} : Len(w) = m
      BY <3>1
    <3>3. Spelled(Inserted(cs, x, p, w)) = a \o z \o w \o b
      <4>1. Spelled(Inserted(cs, x, p, w)) =
              SubSeq(Spelled(cs), 1, i - 1) \o WordOf(cs, X) \o w
                \o SubSeq(Spelled(cs), i + Len(X), Len(Spelled(cs)))
        <5>1. InsertedSpells(cs, i, x, p, X, w)
          BY <2>1, <3>1, <3>2, InsertedWord
        <5> QED BY <5>1 DEF InsertedSpells
      <4> QED BY <1>1, <4>1, Zenon
    <3>4. Spelled(Replaced(cs, x, p, w)) = a \o w \o b
      <4>1. Spelled(Replaced(cs, x, p, w)) =
              SubSeq(Spelled(cs), 1, i - 1) \o w
                \o SubSeq(Spelled(cs), i + Len(X), Len(Spelled(cs)))
        <5>1. ReplacedSpells(cs, i, x, p, X, w)
          BY <2>1, <3>1, <3>2, ReplacedWord
        <5> QED BY <5>1 DEF ReplacedSpells
      <4> QED BY <1>1, <4>1, Zenon
    <3> QED BY <3>3, <3>4
  <2> QED BY <2>2, <2>3
<1>3. EditsAt(cs, x, a, z, b)
  BY <1>2 DEF EditsAt
<1> QED BY <1>1, <1>3

(* So do all edits that can be made.                                       *)
LEMMA TypeInvEdits == TypeInv => EditsChangeOnePlace
<1> SUFFICES ASSUME TypeInv, NEW c \in DOMAIN css, ~css[c].cut
             PROVE  /\ EditsIn(css[c], AllOf(css[c]), Spelled(css[c]))
                    /\ \A t \in Texts : \A u \in Texts \ {t} :
                         t \notin Range(Spelled(TextReplaced(css[c], t, u)))
  BY DEF EditsChangeOnePlace
<1>1. StreamOver(css[c], Exists)
  BY DEF TypeInv, PageOver, PageAsIs
<1>2. PICK cs, T : cs = css[c] /\ T = Exists
  OBVIOUS
<1>3. PICK n \in Nat : Sound(cs, T, n) /\ Listed(cs, n) /\ ~cs.cut
  BY <1>1, <1>2 DEF StreamOver, Whole
<1>4. PICK all, word : all = AllOf(cs) /\ word = Spelled(cs)
  OBVIOUS
<1>5. ASSUME NEW i \in 1..Len(all)
      PROVE  EditsAt(cs, all[i], SubSeq(word, 1, i - 1), WordOf(cs, Below(cs, all[i])),
                     SubSeq(word, i + Len(Below(cs, all[i])), Len(word)))
  <2>1. PICK x, X : x = all[i] /\ X = Below(cs, x)
    OBVIOUS
  <2>2. EditsAt(cs, x, SubSeq(word, 1, i - 1), WordOf(cs, X), SubSeq(word, i + Len(X), Len(word)))
    <3>1. PlaceOf(cs, i, x, X)
      BY <1>4, <2>1 DEF PlaceOf
    <3> QED BY <1>3, <1>4, <3>1, EditsOfWhole, PageContentsAssumption
  <2> QED BY <2>1, <2>2
<1>6. EditsIn(cs, all, word)
  BY <1>5 DEF EditsIn
<1>7. \A t \in Texts : \A u \in Texts \ {t} : t \notin Range(Spelled(TextReplaced(cs, t, u)))
  BY <1>3, TextGone
<1> QED BY <1>2, <1>4, <1>6, <1>7

(* The streams that are there hold words.                                  *)
LEMMA ExistsHolds ==
  ASSUME text \in [Streams -> Seq(Operators) \cup {NoStream}]
  PROVE  HoldWords(text, Exists)
BY DEF HoldWords, Exists

(* What TypeInv says of each variable.                                     *)
LEMMA TypeInvFacts ==
  ASSUME TypeInv
  PROVE  /\ text \in [Streams -> Seq(Operators) \cup {NoStream}]
         /\ contents \in [kind : Kinds, streams : Seq(Exists)]
         /\ contents.kind = "stream" => Len(contents.streams) <= 1
         /\ contents.kind \in Kinds /\ contents.streams \in Seq(Exists)
         /\ HoldWords(text, Exists)
         /\ held \in Nat
         /\ ccs \in Seq(Nat \ {0}) /\ IsInjective(ccs)
         /\ DOMAIN css = Live(ccs, held)
         /\ \A c \in DOMAIN css : StreamOver(css[c], Exists)
         /\ held # 0 => StreamOver(css[held], Exists)
         /\ unseen \in BOOLEAN /\ twice \in BOOLEAN /\ steps \in 0..MaxSteps
<1>1. text \in [Streams -> Seq(Operators) \cup {NoStream}]
  BY DEF TypeInv
<1>2. HoldWords(text, Exists)
  BY <1>1, ExistsHolds
<1>3. /\ ccs \in Seq(Nat \ {0}) /\ IsInjective(ccs)
      /\ DOMAIN css = Live(ccs, held)
      /\ \A c \in DOMAIN css : StreamOver(css[c], Exists)
  BY DEF TypeInv, PageOver, PageAsIs
<1>4. held # 0 => held \in DOMAIN css
  BY <1>3 DEF Live
<1> QED BY <1>1, <1>2, <1>3, <1>4 DEF TypeInv

(* Words stay words, and streams stay.                                     *)
TextKept ==
    /\ text' \in [Streams -> Seq(Operators) \cup {NoStream}]
    /\ Exists' = Exists

(* The content streams stay where they are, and stay content streams.      *)
StreamsKept ==
    /\ DOMAIN css' = DOMAIN css
    /\ \A c \in DOMAIN css : /\ StreamOver(css'[c], Exists)
                             /\ css'[c].streams = css[c].streams

(* Every change of ours begins a content stream when the page is parsed.   *)
LEMMA TypeInvChanges == TypeInv => ChangesBeginStreams
<1> SUFFICES ASSUME TypeInv PROVE ChangesBegin(contents.streams, Groups(text, contents.streams))
  BY DEF ChangesBeginStreams
<1>1. PICK ss, t, S : ss = contents.streams /\ t = text /\ S = Exists
  OBVIOUS
<1>2. ss \in Seq(S) /\ HoldWords(t, S)
  BY <1>1, TypeInvFacts
<1>3. PICK n \in Nat : n = Len(ss)
  BY <1>2, LenProperties
<1>4. ASSUME NEW i \in 2..n, t[ss[i]] # <<>>, Head(t[ss[i]]) = ChangeTag,
             NEW earlier, earlier = Joined(t, SubSeq(ss, 1, i - 1)),
             Complete(earlier), Len(earlier) > 1
      PROVE  BeginsAt(Groups(t, ss), i)
  <2>1. i \in 1..Len(ss)
    BY <1>3
  <2>2. t[ss[i]] \in Seq(Operators)
    <3>1. ss[i] \in S
      BY <1>2, <2>1, ElementOfSeq
    <3> QED BY <1>2, <3>1 DEF HoldWords
  <2>3. t[ss[i]][1] = ChangeTag
    BY <1>4, <2>2, HeadTailProperties
  <2>4. earlier # <<>>
    BY <1>4, EmptySeq
  <2>5. Stops(Joined(t, SubSeq(ss, 1, i - 1)))
    BY <1>4, <2>4 DEF Stops
  <2>6. GroupBegins(Groups(t, ss), i - 1)
    BY <1>2, <1>3, <1>4, <2>3, <2>5, GroupsBeginAfter
  <2> QED BY <2>6 DEF GroupBegins, BeginsAt, PartOf
<1>5. ASSUME NEW i \in 2..n
      PROVE  ChangeBegins(ss, Groups(t, ss), i, Joined(t, SubSeq(ss, 1, i - 1)))
  BY <1>1, <1>4 DEF ChangeBegins
<1> QED BY <1>1, <1>3, <1>5 DEF ChangesBegin

(* Such steps keep the types.                                              *)
LEMMA KeptIsType ==
  ASSUME TypeInv, TextKept, StreamsKept, PageKept, steps' \in 0..MaxSteps
  PROVE  TypeInv'
<1>1. /\ ccs' = ccs /\ contents' = contents /\ held' = held
      /\ unseen' = unseen /\ twice' = twice
  BY DEF PageKept
<1>2. /\ ccs \in Seq(Nat \ {0}) /\ IsInjective(ccs) /\ DOMAIN css = Live(ccs, held)
  BY TypeInvFacts
<1>3. PICK T : T = Exists /\ T = Exists'
  BY DEF TextKept
<1>4. \A c \in DOMAIN css' : StreamOver(css'[c], T)
  BY <1>3 DEF StreamsKept
<1>5. PageOver(PageAsIs, T)'
  BY <1>1, <1>2, <1>4 DEF PageOver, StreamsKept, Live, PageAsIs
<1>6. PageOver(PageAsIs, Exists)'
  BY <1>3, <1>5
<1> QED BY <1>1, <1>3, <1>6 DEF TypeInv, TextKept

(* An edit is noted, or written.                                           *)
LEMMA DirtyOver ==
  ASSUME NEW T, NEW c, StreamOver(c, T), NEW b \in BOOLEAN
  PROVE  /\ StreamOver([c EXCEPT !.dirty = b], T)
         /\ [c EXCEPT !.dirty = b].streams = c.streams
<1>1. PICK n \in Nat : Sound(c, T, n) /\ Listed(c, n) /\ c.streams # <<>>
  BY DEF StreamOver, Whole
<1>2. PICK d : d = [c EXCEPT !.dirty = b]
  OBVIOUS
<1>3. /\ d \in ContentStreams(T, n) /\ d.kids = c.kids /\ d.streams = c.streams
      /\ d.next = c.next /\ d.prev = c.prev /\ d.cut = c.cut
  BY <1>1, <1>2 DEF ContentStreams, Sound
<1>4. Sound(d, T, n)
  BY <1>1, <1>3 DEF Sound
<1>5. Listed(d, n)
  BY <1>1, <1>3, SameListed
<1> QED BY <1>1, <1>2, <1>3, <1>4, <1>5 DEF StreamOver, Whole

(* Those that are told of a change are read anew.                          *)
LEMMA NotifiedOver ==
  ASSUME NEW T, NEW t, HoldWords(t, T), NEW changed, NEW but,
         \A c \in DOMAIN css : StreamOver(css[c], T)
  PROVE  /\ DOMAIN Notified(t, changed, but) = DOMAIN css
         /\ \A c \in DOMAIN css : /\ StreamOver(Notified(t, changed, but)[c], T)
                                  /\ Notified(t, changed, but)[c].streams = css[c].streams
<1>1. PICK f : f = Notified(t, changed, but)
  OBVIOUS
<1>2. f = [c \in DOMAIN css |->
             IF c # but /\ Range(css[c].streams) \cap changed # {}
             THEN ContentStreamOf(t, css[c].streams) ELSE css[c]]
  BY <1>1 DEF Notified
<1>3. ASSUME NEW c \in DOMAIN css
      PROVE  StreamOver(f[c], T) /\ f[c].streams = css[c].streams
  <2>1. css[c].streams \in Seq(T) /\ css[c].streams # <<>>
    BY WholeParts
  <2>2. PICK ss : ss = css[c].streams
    OBVIOUS
  <2>3. StreamOver(ContentStreamOf(t, ss), T) /\ ContentStreamOf(t, ss).streams = ss
    BY ZenonT(90), <2>1, <2>2, ContentStreamOfType
  <2> QED BY <1>2, <2>2, <2>3
<1>4. DOMAIN f = DOMAIN css
  BY <1>2
<1> QED BY <1>1, <1>3, <1>4

(* An edit of one content stream, and what it writes, changes none of this. *)
LEMMA ChangedKeeps ==
  ASSUME TypeInv, NEW c \in DOMAIN css, NEW now, StreamOver(now, Exists),
         now.streams = css[c].streams, NEW b \in BOOLEAN, Changed(c, now, b)
  PROVE  TextKept /\ StreamsKept
<1>1. PICK T : T = Exists
  OBVIOUS
<1>2. /\ text \in [Streams -> Seq(Operators) \cup {NoStream}]
      /\ \A d \in DOMAIN css : StreamOver(css[d], T)
      /\ T \subseteq Streams /\ \A s \in Streams : s \in T <=> text[s] # NoStream
  BY <1>1, TypeInvFacts DEF Exists
<1>3. /\ StreamOver([now EXCEPT !.dirty = ~b], T)
      /\ [now EXCEPT !.dirty = ~b].streams = css[c].streams
  BY <1>1, DirtyOver
<1>4. CASE b = FALSE
  <2>1. css' = [css EXCEPT ![c] = [now EXCEPT !.dirty = TRUE]] /\ text' = text
    BY <1>4 DEF Changed
  <2>2. TextKept
    BY <1>2, <2>1 DEF TextKept, Exists
  <2>3. PICK e : e = [now EXCEPT !.dirty = TRUE]
    OBVIOUS
  <2>4. StreamOver(e, T) /\ e.streams = css[c].streams
    BY <1>1, <2>3, DirtyOver
  <2>5. css' = [css EXCEPT ![c] = e]
    BY <2>1, <2>3
  <2>6. DOMAIN css' = DOMAIN css
    BY <2>5
  <2>7. \A d \in DOMAIN css : css'[d] = IF d = c THEN e ELSE css[d]
    BY <2>5
  <2> QED BY <1>1, <1>2, <2>2, <2>4, <2>6, <2>7 DEF StreamsKept
<1>5. CASE b = TRUE
  <2>1. PICK t, w, ss : t = Written(ss, w) /\ w = Spelled(now) /\ ss = now.streams
    OBVIOUS
  <2>2. text' = t /\ css' = [Notified(t, Range(ss), c) EXCEPT ![c] = [now EXCEPT !.dirty = FALSE]]
    BY <1>5, <2>1 DEF Changed, WrittenAs
  <2>3. PICK n \in Nat : Sound(now, T, n)
    BY <1>1, WholeParts
  <2>4. w \in Seq(Operators) /\ ss \in Seq(T)
    BY <2>1, <2>3, SoundParts, SpelledType
  <2>5. Range(ss) \subseteq T
    <3>1. DOMAIN ss = 1..Len(ss)
      BY <2>4, LenProperties
    <3>2. \A k \in 1..Len(ss) : ss[k] \in T
      BY <2>4, ElementOfSeq
    <3> QED BY <3>1, <3>2 DEF Range
  <2>6. <<>> \in Seq(Operators)
    BY EmptySeq
  <2>7. t = [s \in Streams |->
               IF s \notin Range(ss) THEN text[s]
               ELSE IF \A k \in 2..Len(ss) : ss[k] # s THEN w ELSE <<>>]
    BY <2>1 DEF Written
  <2>8. t \in [Streams -> Seq(Operators) \cup {NoStream}]
    BY <1>2, <2>4, <2>6, <2>7
  <2>9. \A s \in Streams : s \in T <=> t[s] # NoStream
    <3>1. NoStream \notin Seq(Operators)
      BY PageContentsAssumption
    <3>2. ASSUME NEW s \in Streams PROVE s \in T <=> t[s] # NoStream
      <4>1. CASE s \in Range(ss)
        <5>1. t[s] \in Seq(Operators)
          BY <2>4, <2>6, <2>7, <4>1
        <5> QED BY <2>5, <3>1, <4>1, <5>1
      <4>2. CASE s \notin Range(ss)
        BY <1>2, <2>7, <4>2
      <4> QED BY <4>1, <4>2
    <3> QED BY <3>2
  <2>10. HoldWords(t, T)
    BY <1>2, <2>8, <2>9 DEF HoldWords
  <2>11. TextKept
    <3>1. Exists' = {s \in Streams : t[s] # NoStream}
      BY <2>2 DEF Exists, Streams
    <3>2. Exists' = T
      BY <1>2, <2>9, <3>1
    <3> QED BY <1>1, <2>2, <2>8, <3>2 DEF TextKept
  <2>12. PICK f, e : f = Notified(t, Range(ss), c) /\ e = [now EXCEPT !.dirty = FALSE]
    OBVIOUS
  <2>13. StreamOver(e, T) /\ e.streams = css[c].streams
    BY <1>1, <2>12, DirtyOver
  <2>14. /\ DOMAIN f = DOMAIN css
         /\ \A d \in DOMAIN css : StreamOver(f[d], T) /\ f[d].streams = css[d].streams
    BY <1>2, <2>10, <2>12, NotifiedOver
  <2>15. css' = [f EXCEPT ![c] = e]
    BY <2>2, <2>12
  <2>16. DOMAIN css' = DOMAIN css
    BY <2>14, <2>15
  <2>17. \A d \in DOMAIN css : css'[d] = IF d = c THEN e ELSE f[d]
    BY <2>14, <2>15
  <2> QED BY <1>1, <2>11, <2>13, <2>14, <2>16, <2>17 DEF StreamsKept
<1> QED BY <1>4, <1>5

(* An edit makes now of content stream c.                                  *)
EditMade(c, now, b) ==
    /\ c \in DOMAIN css /\ b \in BOOLEAN
    /\ StreamOver(now, Exists) /\ now.streams = css[c].streams
    /\ Changed(c, now, b)

(* Any such edit.                                                          *)
SomeEdit == \E c, now, b : EditMade(c, now, b)

(* An edit of the operators leaves the streams.                            *)
LEMMA EditOver ==
  ASSUME NEW T, NEW n \in Nat, NEW c, NEW d, c.streams # <<>>, EditOf(d, c, T, n), Listed(d, n)
  PROVE  StreamOver(d, T) /\ d.streams = c.streams
BY DEF EditOf, StreamOver, Whole

(* Every edit is of a content stream with parts in order, and leaves such. *)
LEMMA EditIsMade ==
  ASSUME TypeInv, EditContentStream
  PROVE  SomeEdit /\ PageKept /\ steps' \in 0..MaxSteps
<1>1. PICK c \in Live(ccs, held) :
        \/ \E x \in Range(AllOf(css[c])) :
             \/ \E b \in BOOLEAN : DeleteOperator(c, x, b)
             \/ \E w \in NewOperators, b \in BOOLEAN : InsertOperator(c, x, w, b)
             \/ \E w \in NewOperators, b \in BOOLEAN : ReplaceOperator(c, x, w, b)
             \/ \E t \in Texts : SetOperand(c, x, t)
        \/ \E w \in NewOperators : InsertFirst(c, w)
        \/ \E w \in NewOperators, b \in BOOLEAN : FrontInsertOperator(c, w, b)
        \/ SaveChange(c)
        \/ \E what, with \in Texts : ReplaceText(c, what, with)
  BY DEF EditContentStream
<1>2. c \in DOMAIN css /\ StreamOver(css[c], Exists) /\ steps \in 0..MaxSteps
  BY TypeInvFacts
<1>3. MaxSteps \in Nat
  BY PageContentsAssumption
<1>4. ASSUME Step PROVE steps' \in 0..MaxSteps
  BY <1>2, <1>3, <1>4 DEF Step
<1>5. PICK cs, T : cs = css[c] /\ T = Exists
  OBVIOUS
<1>6. PICK n \in Nat : Sound(cs, T, n) /\ Listed(cs, n) /\ cs.streams # <<>>
  BY <1>2, <1>5 DEF StreamOver, Whole
<1>7. /\ cs.kids \in [0..n -> Seq(1..n)] /\ KidsNewer(cs.kids, n)
  BY <1>6, SoundParts
<1>8. ASSUME NEW now, NEW b \in BOOLEAN, NEW m \in Nat, EditOf(now, cs, T, m), Listed(now, m),
             Changed(c, now, b)
      PROVE  SomeEdit
  <2>1. StreamOver(now, T) /\ now.streams = cs.streams
    BY <1>6, <1>8, EditOver
  <2> QED BY <1>2, <1>5, <1>8, <2>1 DEF SomeEdit, EditMade
<1>9. \A w \in NewOperators : w \in Seq(Operators) /\ Len(w) \in Nat \ {0} /\ OneOperator(w)
  BY PageContentsAssumption, NewOperatorsType
<1>10. ASSUME NEW x \in Range(AllOf(css[c])),
              \/ \E b \in BOOLEAN : DeleteOperator(c, x, b)
              \/ \E w \in NewOperators, b \in BOOLEAN : InsertOperator(c, x, w, b)
              \/ \E w \in NewOperators, b \in BOOLEAN : ReplaceOperator(c, x, w, b)
              \/ \E t \in Texts : SetOperand(c, x, t)
       PROVE  SomeEdit /\ PageKept /\ steps' \in 0..MaxSteps
  <2>1. x \in 1..n
    <3>1. PICK all : all = AllOf(cs)
      OBVIOUS
    <3>2. all \in Seq(1..n)
      BY <1>7, <3>1, AllOfType
    <3>3. DOMAIN all = 1..Len(all) /\ \A k \in 1..Len(all) : all[k] \in 1..n
      BY <3>2, LenProperties, ElementOfSeq
    <3> QED BY <1>5, <3>1, <3>3 DEF Range
  <2>2. \A p \in Found(cs, x) : p \in 0..n /\ x \in Range(cs.kids[p])
    BY <1>7 DEF Found
  <2>3. ASSUME NEW b \in BOOLEAN, DeleteOperator(c, x, b)
        PROVE  SomeEdit /\ PageKept /\ steps' \in 0..MaxSteps
    <3>1. PICK p \in Found(cs, x) : Changed(c, Deleted(cs, x, p), b)
      BY <1>5, <2>3 DEF DeleteOperator
    <3>2. PICK now : now = Deleted(cs, x, p)
      OBVIOUS
    <3>3. EditOf(now, cs, T, n)
      BY <1>6, <2>1, <2>2, <3>2, DeletedSound
    <3>30. Listed(now, n)
      BY <1>6, <3>1, <3>2, DeletedListed
    <3>4. SomeEdit
      BY <1>8, <3>1, <3>2, <3>3, <3>30
    <3> QED BY <1>4, <2>3, <3>4 DEF DeleteOperator
  <2>4. ASSUME NEW w \in NewOperators, NEW b \in BOOLEAN, InsertOperator(c, x, w, b)
        PROVE  SomeEdit /\ PageKept /\ steps' \in 0..MaxSteps
    <3>1. PICK p \in Found(cs, x) : Changed(c, Inserted(cs, x, p, w), b)
      BY <1>5, <2>4 DEF InsertOperator
    <3>2. PICK now : now = Inserted(cs, x, p, w)
      OBVIOUS
    <3>20. PICK m \in Nat \ {0}, l \in Nat : m = Len(w) /\ l = n + m
      BY <1>9
    <3>3. EditOf(now, cs, T, l)
      BY <1>6, <1>9, <2>1, <2>2, <3>2, <3>20, InsertedSound
    <3>30. Listed(now, l)
      BY <1>6, <1>9, <3>1, <3>2, <3>20, InsertedListed
    <3>4. SomeEdit
      BY <1>8, <3>1, <3>2, <3>3, <3>30
    <3> QED BY <1>4, <2>4, <3>4 DEF InsertOperator
  <2>5. ASSUME NEW w \in NewOperators, NEW b \in BOOLEAN, ReplaceOperator(c, x, w, b)
        PROVE  SomeEdit /\ PageKept /\ steps' \in 0..MaxSteps
    <3>1. PICK p \in Found(cs, x) : Changed(c, Replaced(cs, x, p, w), b)
      BY <1>5, <2>5 DEF ReplaceOperator
    <3>2. PICK now : now = Replaced(cs, x, p, w)
      OBVIOUS
    <3>20. PICK m \in Nat \ {0}, l \in Nat : m = Len(w) /\ l = n + m
      BY <1>9
    <3>3. EditOf(now, cs, T, l)
      BY <1>6, <1>9, <2>1, <2>2, <3>2, <3>20, ReplacedSound
    <3>30. Listed(now, l)
      BY <1>6, <1>9, <3>1, <3>2, <3>20, ReplacedListed
    <3>4. SomeEdit
      BY <1>8, <3>1, <3>2, <3>3, <3>30
    <3> QED BY <1>4, <2>5, <3>4 DEF ReplaceOperator
  <2>6. ASSUME NEW t \in Texts, SetOperand(c, x, t)
        PROVE  SomeEdit /\ PageKept /\ steps' \in 0..MaxSteps
    <3>1. PICK now : now = [css[c] EXCEPT !.op[x] = t]
      OBVIOUS
    <3>2. Changed(c, now, x \in css[c].own)
      BY <2>6, <3>1 DEF SetOperand
    <3>3. EditOf(now, cs, T, n)
      <4>1. now = [cs EXCEPT !.op[x] = t]
        BY <1>5, <3>1
      <4> QED BY <1>6, <2>1, <4>1, WordsSound
    <3>30. Listed(now, n)
      <4>1. now = [cs EXCEPT !.op[x] = t]
        BY <1>5, <3>1
      <4>2. cs \in ContentStreams(T, n)
        BY <1>6, SoundParts
      <4>3. now.kids = cs.kids /\ now.next = cs.next /\ now.prev = cs.prev /\ now.cut = cs.cut
        BY <4>1, <4>2 DEF ContentStreams
      <4> QED BY <1>6, <4>3, SameListed
    <3>4. SomeEdit
      <4>1. CASE x \in css[c].own
        <5>1. Changed(c, now, TRUE)
          BY <3>2, <4>1 DEF Changed
        <5> QED BY <1>8, <3>3, <3>30, <5>1
      <4>2. CASE x \notin css[c].own
        <5>1. Changed(c, now, FALSE)
          BY <3>2, <4>2 DEF Changed
        <5> QED BY <1>8, <3>3, <3>30, <5>1
      <4> QED BY <4>1, <4>2
    <3> QED BY <1>4, <2>6, <3>4 DEF SetOperand
  <2> QED BY <1>10, <2>3, <2>4, <2>5, <2>6
<1>11. ASSUME NEW w \in NewOperators, InsertFirst(c, w)
       PROVE  SomeEdit /\ PageKept /\ steps' \in 0..MaxSteps
  <2>1. PICK now : now = InsertedFirst(cs, w)
    OBVIOUS
  <2>20. PICK m \in Nat \ {0}, l \in Nat : m = Len(w) /\ l = n + m
    BY <1>9
  <2>2. Changed(c, now, FALSE)
    BY <1>5, <1>11, <2>1 DEF InsertFirst
  <2>3. EditOf(now, cs, T, l)
    BY <1>6, <1>9, <2>1, <2>20, InsertedFirstSound
  <2>30. Listed(now, l)
    <3>1. cs.kids[0] = <<>>
      BY <1>5, <1>11 DEF InsertFirst
    <3> QED BY <1>6, <1>9, <2>1, <2>20, <3>1, InsertedFirstListed
  <2>4. SomeEdit
    BY <1>8, <2>2, <2>3, <2>30
  <2> QED BY <1>4, <1>11, <2>4 DEF InsertFirst
<1>12. ASSUME NEW w \in NewOperators, NEW b \in BOOLEAN, FrontInsertOperator(c, w, b)
       PROVE  SomeEdit /\ PageKept /\ steps' \in 0..MaxSteps
  <2>1. PICK now : now = FrontInserted(cs, w)
    OBVIOUS
  <2>20. PICK m \in Nat \ {0}, l \in Nat : m = Len(w) /\ l = n + m
    BY <1>9
  <2>2. Changed(c, now, b)
    BY <1>5, <1>12, <2>1 DEF FrontInsertOperator
  <2>3. EditOf(now, cs, T, l)
    BY <1>6, <1>9, <2>1, <2>20, FrontInsertedSound
  <2>30. Listed(now, l)
    BY <1>6, <1>9, <2>1, <2>20, FrontInsertedListed
  <2>4. SomeEdit
    BY <1>8, <2>2, <2>3, <2>30
  <2> QED BY <1>4, <1>12, <2>4 DEF FrontInsertOperator
<1>13. ASSUME SaveChange(c) PROVE SomeEdit /\ PageKept /\ steps' \in 0..MaxSteps
  <2>1. Changed(c, cs, TRUE)
    BY <1>5, <1>13 DEF SaveChange
  <2>2. EditOf(cs, cs, T, n)
    BY <1>6 DEF EditOf
  <2>3. SomeEdit
    BY <1>6, <1>8, <2>1, <2>2
  <2> QED BY <1>4, <1>13, <2>3 DEF SaveChange
<1>14. ASSUME NEW what \in Texts, NEW with \in Texts, ReplaceText(c, what, with)
       PROVE  SomeEdit /\ PageKept /\ steps' \in 0..MaxSteps
  <2>1. PICK now : now = TextReplaced(cs, what, with)
    OBVIOUS
  <2>2. Changed(c, now, TRUE)
    BY <1>5, <1>14, <2>1 DEF ReplaceText
  <2>3. EditOf(now, cs, T, n)
    BY <1>6, <2>1, WordsReplaced
  <2>30. Listed(now, n)
    <3>1. cs \in ContentStreams(T, n)
      BY <1>6, SoundParts
    <3>2. now.kids = cs.kids /\ now.next = cs.next /\ now.prev = cs.prev /\ now.cut = cs.cut
      BY <2>1, <3>1 DEF ContentStreams, TextReplaced
    <3> QED BY <1>6, <3>2, SameListed
  <2>4. SomeEdit
    BY <1>8, <2>2, <2>3, <2>30
  <2> QED BY <1>4, <1>14, <2>4 DEF ReplaceText
<1> QED BY <1>1, <1>10, <1>11, <1>12, <1>13, <1>14

(* Edits keep the types, and all streams.                                  *)
LEMMA EditKeeps ==
  ASSUME TypeInv, EditContentStream
  PROVE  TypeInv' /\ TextKept /\ StreamsKept /\ PageKept
<1>1. SomeEdit /\ PageKept /\ steps' \in 0..MaxSteps
  BY EditIsMade
<1>2. PICK c, now, b : EditMade(c, now, b)
  BY <1>1 DEF SomeEdit
<1>3. TextKept /\ StreamsKept
  BY <1>2, ChangedKeeps DEF EditMade
<1>4. TypeInv'
  BY <1>1, <1>3, KeptIsType
<1> QED BY <1>1, <1>3, <1>4

-----------------------------------------------------------------------------
(* The content streams hold what Contents names.                           *)

(* The content streams of a page have streams of T.                        *)
LEMMA StreamsOfType ==
  ASSUME NEW T, NEW page, PageOver(page, T)
  PROVE  /\ StreamsOf(page) \in Seq(Seq(T) \ {<<>>})
         /\ StreamsOf(page) \in Seq(Seq(T))
         /\ Len(StreamsOf(page)) = Len(page.ccs)
         /\ \A k \in 1..Len(page.ccs) :
              /\ page.ccs[k] \in Range(page.ccs) /\ page.ccs[k] \in DOMAIN page.css
              /\ StreamsOf(page)[k] = page.css[page.ccs[k]].streams
         /\ Flat(page) \in Seq(T)
<1>1. PICK n \in Nat : n = Len(page.ccs)
  BY LenProperties DEF PageOver
<1>2. DOMAIN page.ccs = 1..n
  BY <1>1, LenProperties DEF PageOver
<1>3. \A k \in 1..n : page.ccs[k] \in Range(page.ccs) /\ page.ccs[k] \in DOMAIN page.css
  BY <1>2 DEF Range, PageOver, Live
<1>4. \A k \in 1..n : page.css[page.ccs[k]].streams \in Seq(T) \ {<<>>}
  BY <1>3, WholeParts DEF PageOver
<1>5. PICK s : s = StreamsOf(page)
  OBVIOUS
<1>6. s = [k \in 1..n |-> page.css[page.ccs[k]].streams]
  BY <1>1, <1>5 DEF StreamsOf
<1>7. s \in [1..n -> Seq(T) \ {<<>>}]
  BY <1>4, <1>6
<1>8. s \in Seq(Seq(T) \ {<<>>}) /\ Len(s) = n
  BY <1>7, SeqIsFunction
<1>9. s \in Seq(Seq(T))
  <2>1. s \in [1..n -> Seq(T)]
    BY <1>7
  <2> QED BY <2>1, SeqIsFunction
<1>10. FlattenSeq(s) \in Seq(T)
  BY <1>9, FlattenFacts
<1> QED BY <1>1, <1>3, <1>5, <1>6, <1>8, <1>9, <1>10 DEF Flat

(* A page whose content streams keep their streams.                        *)
LEMMA StreamsOfSame ==
  ASSUME NEW T, NEW page, PageOver(page, T), NEW page2, page2.ccs = page.ccs,
         \A c \in Range(page.ccs) : page2.css[c].streams = page.css[c].streams
  PROVE  Flat(page2) = Flat(page)
<1>1. \A k \in 1..Len(page.ccs) : page.ccs[k] \in Range(page.ccs)
  BY StreamsOfType
<1>2. StreamsOf(page2) = StreamsOf(page)
  BY <1>1 DEF StreamsOf
<1> QED BY <1>2 DEF Flat

(* Contents names what the content streams hold.                           *)
ContentsInv ==
    ccs # <<>> /\ ~twice =>
        /\ IsInjective(Flat(PageAsIs))
        /\ ~unseen => contents.streams = Flat(PageAsIs)

(* The inductive invariant.                                                *)
PageInv == TypeInv /\ ContentsInv

(* The same of a page after init, if there was nothing before.             *)
Initialised(page) ==
    /\ PageOver(page, Exists)
    /\ page.ccs # <<>> /\ ~TwiceInit =>
         /\ IsInjective(Flat(page))
         /\ ~(unseen /\ ccs # <<>>) => contents.streams = Flat(page)

(* The page as it is, and after init, are so.                              *)
LEMMA PagesInitialised ==
  ASSUME PageInv
  PROVE  Initialised(PageAsIs) /\ Initialised(PageInit(text, contents.streams))
<1>1. TypeInv /\ ContentsInv
  BY DEF PageInv
<1>2. Initialised(PageAsIs)
  <2>1. PageOver(PageAsIs, Exists)
    BY <1>1 DEF TypeInv
  <2>2. ASSUME PageAsIs.ccs # <<>>, ~TwiceInit
        PROVE  /\ IsInjective(Flat(PageAsIs))
               /\ ~(unseen /\ ccs # <<>>) => contents.streams = Flat(PageAsIs)
    <3>1. ccs # <<>>
      BY <2>2 DEF PageAsIs
    <3>2. ~twice
      BY <2>2, <3>1 DEF TwiceInit
    <3> QED BY <1>1, <3>1, <3>2 DEF ContentsInv
  <2> QED BY <2>1, <2>2 DEF Initialised
<1>3. Initialised(PageInit(text, contents.streams))
  <2>1. CASE ccs # <<>>
    BY <1>2, <2>1 DEF PageInit
  <2>2. CASE ccs = <<>>
    <3>1. PICK T, page : T = Exists /\ page = PageParsed(text, contents.streams)
      OBVIOUS
    <3>2. /\ HoldWords(text, T) /\ held \in Nat /\ contents.streams \in Seq(T)
          /\ held # 0 => StreamOver(css[held], T)
      BY <1>1, <3>1, TypeInvFacts
    <3>3. PageOver(page, T) /\ Flat(page) = contents.streams
      BY <3>1, <3>2, PageParsedOver
    <3>4. PageInit(text, contents.streams) = page
      BY <2>2, <3>1 DEF PageInit
    <3>5. TwiceInit = ~IsInjective(contents.streams)
      BY <2>2 DEF TwiceInit
    <3> QED BY <3>1, <3>3, <3>4, <3>5 DEF Initialised
  <2> QED BY <2>1, <2>2
<1> QED BY <1>2, <1>3

-----------------------------------------------------------------------------
(* A parse: Contents names what is parsed.                                 *)
LEMMA ParseKeeps ==
  ASSUME TypeInv, TextKept, held' = held, NEW ss \in Seq(Exists), HoldWords(text', Exists),
         ParseAgain(text', ss), contents' \in [kind : Kinds, streams : Seq(Exists)],
         contents'.streams = ss, contents'.kind = "stream" => Len(ss) <= 1,
         steps' \in 0..MaxSteps
  PROVE  PageInv'
<1>1. PICK T, t, page : T = Exists /\ t = text' /\ page = PageParsed(t, ss)
  OBVIOUS
<1>2. /\ held \in Nat
      /\ held # 0 => StreamOver(css[held], T)
      /\ HoldWords(t, T) /\ ss \in Seq(T)
  BY <1>1, TypeInvFacts
<1>3. PageOver(page, T) /\ Flat(page) = ss
  BY <1>1, <1>2, PageParsedOver
<1>4. /\ ccs' = page.ccs /\ css' = page.css
      /\ unseen' = FALSE /\ twice' = ~IsInjective(ss)
  BY <1>1 DEF ParseAgain, BecomesPage
<1>5. PageOver(PageAsIs, T)'
  BY <1>3, <1>4 DEF PageOver, PageAsIs, Live
<1>6. Exists' = T
  BY <1>1 DEF TextKept
<1>7. PageOver(PageAsIs, Exists)'
  BY <1>5, <1>6
<1>8. Flat(PageAsIs)' = ss
  BY <1>3, <1>4 DEF Flat, StreamsOf, PageAsIs
<1>9. TypeInv'
  BY <1>1, <1>2, <1>4, <1>6, <1>7 DEF TypeInv, TextKept
<1>10. ContentsInv'
  BY <1>4, <1>8 DEF ContentsInv
<1> QED BY <1>9, <1>10 DEF PageInv

(* Steps after which the content streams of the page hold what they held.  *)
LEMMA SameContents ==
  ASSUME PageInv, ccs' = ccs, contents' = contents, unseen' = unseen, twice' = twice,
         \A c \in Range(ccs) : css'[c].streams = css[c].streams
  PROVE  ContentsInv'
<1>1. PICK T, page, page2 : T = Exists /\ page = PageAsIs /\ page2 = [ccs |-> ccs', css |-> css']
  OBVIOUS
<1>2. PageOver(page, T)
  BY <1>1 DEF PageInv, TypeInv
<1>3. page2.ccs = page.ccs /\ \A c \in Range(page.ccs) : page2.css[c].streams = page.css[c].streams
  BY <1>1 DEF PageAsIs
<1>4. Flat(page2) = Flat(page)
  BY <1>2, <1>3, StreamsOfSame
<1>5. Flat(PageAsIs)' = Flat(page2)
  BY <1>1 DEF Flat, StreamsOf, PageAsIs
<1> QED BY <1>1, <1>4, <1>5 DEF PageInv, ContentsInv

(* Edits keep the invariant.                                               *)
LEMMA EditKeepsInv ==
  ASSUME PageInv, EditContentStream
  PROVE  PageInv'
<1>1. TypeInv' /\ StreamsKept /\ PageKept
  BY EditKeeps DEF PageInv
<1>2. \A c \in Range(ccs) : css'[c].streams = css[c].streams
  <2>1. Range(ccs) \subseteq DOMAIN css
    BY TypeInvFacts DEF PageInv, Live
  <2> QED BY <1>1, <2>1 DEF StreamsKept
<1>3. ContentsInv'
  BY <1>1, <1>2, SameContents DEF PageKept
<1> QED BY <1>1, <1>3 DEF PageInv

-----------------------------------------------------------------------------
(* A content stream is added.                                              *)

(* A sequence of one.                                                      *)
LEMMA OneSeq ==
  ASSUME NEW S, NEW e \in S
  PROVE  /\ <<e>> \in Seq(S) /\ Len(<<e>>) = 1 /\ <<e>>[1] = e
         /\ IsInjective(<<e>>) /\ Range(<<e>>) = {e}
<1>1. PICK s : s = <<e>>
  OBVIOUS
<1>2. s \in Seq(S) /\ Len(s) = 1 /\ s[1] = e /\ DOMAIN s = 1..1
  BY <1>1
<1>3. IsInjective(s) /\ Range(s) = {e}
  BY <1>2 DEF IsInjective, Range
<1> QED BY <1>1, <1>2, <1>3

(* The page after put: the new content stream is the first or the last.    *)
LEMMA PutKeeps ==
  ASSUME NEW T, NEW page, PageOver(page, T), NEW id \in Nat \ {0}, id \notin DOMAIN page.css,
         NEW s \in T, NEW t, HoldWords(t, T), NEW atFront \in BOOLEAN,
         Put(s, t, id, atFront, page), held' = held
  PROVE  /\ PageOver(PageAsIs, T)'
         /\ Flat(PageAsIs)' = IF atFront THEN <<s>> \o Flat(page) ELSE Append(Flat(page), s)
         /\ ccs' # <<>>
<1>1. PICK ids : ids = IF atFront THEN <<id>> \o page.ccs ELSE Append(page.ccs, id)
  OBVIOUS
<1>2. PICK n \in Nat : n = Len(page.ccs)
  BY LenProperties DEF PageOver
<1>3. page.ccs \in Seq(Nat \ {0}) /\ IsInjective(page.ccs) /\ DOMAIN page.css = Live(page.ccs, held)
  BY DEF PageOver
<1>4. /\ <<id>> \in Seq(Nat \ {0}) /\ Len(<<id>>) = 1 /\ <<id>>[1] = id
      /\ IsInjective(<<id>>) /\ Range(<<id>>) = {id}
  BY OneSeq
<1>5. Range(page.ccs) \cap {id} = {}
  BY <1>3 DEF Live
<1>6. /\ ids \in Seq(Nat \ {0}) /\ IsInjective(ids)
      /\ Range(ids) = Range(page.ccs) \cup {id} /\ Len(ids) = n + 1
      /\ \A k \in 1..(n + 1) :
            ids[k] = IF atFront THEN IF k = 1 THEN id ELSE page.ccs[k - 1]
                     ELSE IF k = n + 1 THEN id ELSE page.ccs[k]
  <2>1. PICK one, old, N : one = <<id>> /\ old = page.ccs /\ N = Nat \ {0}
    OBVIOUS
  <2>2. /\ one \in Seq(N) /\ old \in Seq(N) /\ Len(one) = 1 /\ Len(old) = n
        /\ one[1] = id /\ IsInjective(one) /\ IsInjective(old) /\ Range(one) = {id}
        /\ Range(old) \cap Range(one) = {}
    BY <1>2, <1>3, <1>4, <1>5, <2>1
  <2>20. one \in Seq(N) /\ old \in Seq(N)
    BY <2>2
  <2>3. CASE atFront = TRUE
    <3>1. ids = one \o old
      BY <1>1, <2>1, <2>3
    <3>2. /\ one \o old \in Seq(N) /\ Len(one \o old) = 1 + n
          /\ \A k \in 1..(1 + n) : (one \o old)[k] = IF k <= 1 THEN one[k] ELSE old[k - 1]
      <4>1. /\ one \o old \in Seq(N) /\ Len(one \o old) = Len(one) + Len(old)
            /\ \A k \in 1..(Len(one) + Len(old)) :
                  (one \o old)[k] = IF k <= Len(one) THEN one[k] ELSE old[k - Len(one)]
        BY <2>20, ConcatProperties
      <4> QED BY <2>2, <4>1
    <3>3. IsInjective(one \o old) /\ Range(one \o old) = Range(one) \cup Range(old)
      BY <2>2, ConcatInjective
    <3>4. \A k \in 1..(n + 1) : ids[k] = IF k = 1 THEN id ELSE page.ccs[k - 1]
      BY <2>1, <2>2, <3>1, <3>2
    <3> QED BY <2>1, <2>2, <2>3, <3>1, <3>2, <3>3, <3>4
  <2>4. CASE atFront = FALSE
    <3>1. ids = old \o one
      BY <1>1, <2>1, <2>2, <2>4, AppendIsConcat
    <3>2. /\ old \o one \in Seq(N) /\ Len(old \o one) = n + 1
          /\ \A k \in 1..(n + 1) : (old \o one)[k] = IF k <= n THEN old[k] ELSE one[k - n]
      <4>1. /\ old \o one \in Seq(N) /\ Len(old \o one) = Len(old) + Len(one)
            /\ \A k \in 1..(Len(old) + Len(one)) :
                  (old \o one)[k] = IF k <= Len(old) THEN old[k] ELSE one[k - Len(old)]
        BY <2>20, ConcatProperties
      <4> QED BY <2>2, <4>1
    <3>3. IsInjective(old \o one) /\ Range(old \o one) = Range(old) \cup Range(one)
      BY <2>2, ConcatInjective
    <3>4. \A k \in 1..(n + 1) : ids[k] = IF k = n + 1 THEN id ELSE page.ccs[k]
      <4>1. \A k \in 1..(n + 1) : ~(k <= n) => k = n + 1 /\ k - n = 1
        OBVIOUS
      <4> QED BY <2>1, <2>2, <3>1, <3>2, <4>1
    <3> QED BY <2>1, <2>2, <2>4, <3>1, <3>2, <3>3, <3>4
  <2> QED BY <2>3, <2>4
<1>7. PICK new, css2, page2 :
        /\ new = ContentStreamOf(t, <<s>>)
        /\ css2 = [c \in DOMAIN page.css \cup {id} |-> IF c = id THEN new ELSE page.css[c]]
        /\ page2 = [ccs |-> ids, css |-> css2]
  OBVIOUS
<1>8. ccs' = page2.ccs /\ css' = page2.css
  BY <1>1, <1>7 DEF Put
<1>9. StreamOver(new, T) /\ new.streams = <<s>>
  <2>1. PICK ss : ss = <<s>>
    OBVIOUS
  <2>2. ss \in Seq(T) /\ ss # <<>>
    BY <2>1
  <2> QED BY ZenonT(40), <1>7, <2>1, <2>2, ContentStreamOfType
<1>10. PageOver(page2, T)
  <2>1. DOMAIN css2 = Live(ids, held)
    BY <1>3, <1>6, <1>7 DEF Live
  <2>2. \A c \in DOMAIN css2 : StreamOver(css2[c], T)
    BY <1>7, <1>9 DEF PageOver
  <2> QED BY <1>6, <1>7, <2>1, <2>2 DEF PageOver
<1>11. PICK old, one, s2 : old = StreamsOf(page) /\ one = << <<s>> >> /\ s2 = StreamsOf(page2)
  OBVIOUS
<1>12. /\ old \in Seq(Seq(T)) /\ Len(old) = n
       /\ \A k \in 1..n : /\ page.ccs[k] \in DOMAIN page.css
                          /\ old[k] = page.css[page.ccs[k]].streams
  BY <1>2, <1>11, StreamsOfType
<1>13. one \in Seq(Seq(T)) /\ Len(one) = 1 /\ one[1] = <<s>>
  <2>1. <<s>> \in Seq(T)
    OBVIOUS
  <2> QED BY <1>11, <2>1
<1>14. /\ s2 \in Seq(Seq(T)) /\ Len(s2) = n + 1
       /\ \A k \in 1..(n + 1) : s2[k] = css2[ids[k]].streams
  <2>1. /\ s2 \in Seq(Seq(T)) /\ Len(s2) = Len(page2.ccs)
        /\ \A k \in 1..Len(page2.ccs) : s2[k] = page2.css[page2.ccs[k]].streams
    BY <1>10, <1>11, StreamsOfType
  <2> QED BY ZenonT(40), <1>6, <1>7, <2>1
<1>15. css2[id].streams = <<s>> /\ \A k \in 1..n : css2[page.ccs[k]].streams = old[k]
  BY <1>7, <1>9, <1>12
<1>18. PageOver(PageAsIs, T)' /\ ccs' # <<>>
  <2>1. PageOver(PageAsIs, T)'
    BY <1>8, <1>10 DEF PageOver, PageAsIs, Live
  <2>2. ids # <<>>
    <3>1. Len(ids) # 0
      BY <1>6
    <3> QED BY <3>1, EmptySeq
  <2> QED BY <1>7, <1>8, <2>1, <2>2
<1>16. CASE atFront = TRUE
  <2>1. s2 = one \o old
    <3>1. PICK e : e = one \o old
      OBVIOUS
    <3>2. /\ one \o old \in Seq(Seq(T)) /\ Len(one \o old) = 1 + n
          /\ \A k \in 1..(1 + n) : (one \o old)[k] = IF k <= 1 THEN one[k] ELSE old[k - 1]
      <4>1. /\ one \o old \in Seq(Seq(T)) /\ Len(one \o old) = Len(one) + Len(old)
            /\ \A k \in 1..(Len(one) + Len(old)) :
                  (one \o old)[k] = IF k <= Len(one) THEN one[k] ELSE old[k - Len(one)]
        BY ZenonT(40), <1>12, <1>13, ConcatProperties
      <4> QED BY <1>12, <1>13, <4>1
    <3>3. \A k \in 1..(n + 1) : s2[k] = e[k]
      <4>1. ASSUME NEW k \in 1..(n + 1) PROVE s2[k] = e[k]
        <5>1. CASE k = 1
          <6>1. s2[1] = <<s>>
            <7>1. ids[1] = id /\ 1 \in 1..(n + 1)
              BY <1>6, <1>16
            <7>2. s2[1] = css2[ids[1]].streams
              BY <1>14, <7>1
            <7> QED BY <1>15, <7>1, <7>2
          <6>2. e[1] = <<s>>
            <7>1. 1 \in 1..(1 + n) /\ 1 <= 1
              OBVIOUS
            <7>2. e[1] = one[1]
              BY <3>1, <3>2, <7>1
            <7> QED BY <1>13, <7>2
          <6> QED BY <5>1, <6>1, <6>2
        <5>2. CASE k # 1
          <6>1. k - 1 \in 1..n /\ ~(k <= 1) /\ k \in 1..(1 + n)
            BY <5>2
          <6>2. ids[k] = page.ccs[k - 1]
            BY <1>6, <1>16, <5>2
          <6>3. s2[k] = old[k - 1]
            BY <1>14, <1>15, <6>1, <6>2
          <6>4. e[k] = old[k - 1]
            BY <3>1, <3>2, <6>1
          <6> QED BY <6>3, <6>4
        <5> QED BY <5>1, <5>2
      <4> QED BY <4>1
    <3>4. e \in Seq(Seq(T)) /\ Len(e) = n + 1
      BY <3>1, <3>2
    <3>5. s2 = e
      BY <1>14, <3>3, <3>4, SameSeq
    <3> QED BY <3>1, <3>5
  <2>2. FlattenSeq(one \o old) = FlattenSeq(one) \o FlattenSeq(old)
    BY <1>12, <1>13, FlattenConcat
  <2>3. FlattenSeq(one) = <<s>>
    <3>1. <<s>> \in Seq(T)
      OBVIOUS
    <3> QED BY <1>11, <3>1, FlattenConcat
  <2>4. Flat(page2) = <<s>> \o Flat(page)
    BY <1>11, <2>1, <2>2, <2>3 DEF Flat
  <2>5. Flat(PageAsIs)' = Flat(page2)
    BY <1>8 DEF Flat, StreamsOf, PageAsIs
  <2> QED BY <1>16, <1>18, <2>4, <2>5
<1>17. CASE atFront = FALSE
  <2>1. s2 = old \o one
    <3>1. PICK e : e = old \o one
      OBVIOUS
    <3>2. /\ old \o one \in Seq(Seq(T)) /\ Len(old \o one) = n + 1
          /\ \A k \in 1..(n + 1) : (old \o one)[k] = IF k <= n THEN old[k] ELSE one[k - n]
      <4>1. /\ old \o one \in Seq(Seq(T)) /\ Len(old \o one) = Len(old) + Len(one)
            /\ \A k \in 1..(Len(old) + Len(one)) :
                  (old \o one)[k] = IF k <= Len(old) THEN old[k] ELSE one[k - Len(old)]
        BY ZenonT(40), <1>12, <1>13, ConcatProperties
      <4> QED BY <1>12, <1>13, <4>1
    <3>3. \A k \in 1..(n + 1) : s2[k] = e[k]
      <4>1. ASSUME NEW k \in 1..(n + 1) PROVE s2[k] = e[k]
        <5>1. CASE k = n + 1
          <6>1. k - n = 1 /\ ~(k <= n)
            BY <5>1
          <6>2. s2[k] = <<s>>
            <7>1. ids[k] = id
              BY <1>6, <1>17, <5>1
            <7>2. s2[k] = css2[ids[k]].streams
              BY <1>14
            <7> QED BY <1>15, <7>1, <7>2
          <6>3. e[k] = <<s>>
            BY <1>13, <3>1, <3>2, <6>1
          <6> QED BY <6>2, <6>3
        <5>2. CASE k # n + 1
          <6>1. k \in 1..n /\ k <= n
            BY <5>2
          <6>2. ids[k] = page.ccs[k]
            BY <1>6, <1>17, <5>2
          <6>3. s2[k] = old[k]
            BY <1>14, <1>15, <6>1, <6>2
          <6>4. e[k] = old[k]
            BY <3>1, <3>2, <6>1
          <6> QED BY <6>3, <6>4
        <5> QED BY <5>1, <5>2
      <4> QED BY <4>1
    <3>4. e \in Seq(Seq(T)) /\ Len(e) = n + 1
      BY <3>1, <3>2
    <3>5. s2 = e
      BY <1>14, <3>3, <3>4, SameSeq
    <3> QED BY <3>1, <3>5
  <2>2. FlattenSeq(old \o one) = FlattenSeq(old) \o FlattenSeq(one)
    BY <1>12, <1>13, FlattenConcat
  <2>3. FlattenSeq(one) = <<s>>
    <3>1. <<s>> \in Seq(T)
      OBVIOUS
    <3> QED BY <1>11, <3>1, FlattenConcat
  <2>4. PICK flat : flat = Flat(page)
    OBVIOUS
  <2>5. flat \in Seq(T)
    BY <2>4, StreamsOfType
  <2>6. Flat(page2) = Append(flat, s)
    <3>1. Flat(page2) = flat \o <<s>>
      BY <1>11, <2>1, <2>2, <2>3, <2>4 DEF Flat
    <3> QED BY <2>5, <3>1, AppendIsConcat
  <2>7. Flat(PageAsIs)' = Flat(page2)
    BY <1>8 DEF Flat, StreamsOf, PageAsIs
  <2> QED BY <1>17, <1>18, <2>4, <2>6, <2>7
<1> QED BY <1>16, <1>17

(* Only finitely many content streams are there.                           *)
LEMMA LiveFinite ==
  ASSUME NEW S, NEW ids \in Seq(S), NEW h
  PROVE  IsFiniteSet(Live(ids, h))
<1>1. PICK R, n : R = Range(ids) /\ n = Len(ids)
  OBVIOUS
<1>2. n \in Nat /\ DOMAIN ids = 1..n
  BY <1>1, LenProperties
<1>3. R = {ids[k] : k \in 1..n}
  BY <1>1, <1>2 DEF Range
<1>4. ids \in Seq(R) /\ Len(ids) = n
  <2>1. ids = [k \in 1..n |-> ids[k]]
    BY <1>1, LenProperties
  <2>2. ids \in [1..n -> R]
    BY <1>3, <2>1
  <2> QED BY <1>2, <2>2, SeqIsFunction
<1>5. \A e \in R : \E k \in 1..Len(ids) : ids[k] = e
  BY <1>3, <1>4
<1>6. IsFiniteSet(R)
  BY <1>4, <1>5 DEF IsFiniteSet
<1>7. IsFiniteSet(R \cup {h})
  BY <1>6, FS_AddElement
<1>8. Live(ids, h) \in SUBSET (R \cup {h})
  BY <1>1 DEF Live
<1> QED BY <1>7, <1>8, FS_Subset

(* The new stream was not there.                                           *)
LEMMA NextStreamType ==
  ASSUME CanAdd, text \in [Streams -> Seq(Operators) \cup {NoStream}]
  PROVE  NextStream \in Streams /\ text[NextStream] = NoStream
<1>1. PICK free : free = {s \in Streams : text[s] = NoStream}
  OBVIOUS
<1>2. free # {}
  BY <1>1 DEF CanAdd, Range
<1>3. free \subseteq Nat
  BY <1>1 DEF Streams
<1>4. \E x \in free : \A y \in free : x <= y
  BY <1>2, <1>3, LeastNat
<1>5. NextStream = Min(free)
  BY <1>1 DEF NextStream
<1>6. NextStream \in free
  BY <1>4, <1>5, Zenon DEF Min
<1> QED BY <1>1, <1>6

(* addToFront, addToBack and those that call them.                         *)
LEMMA AddKeeps ==
  ASSUME PageInv, CanAdd, NEW w \in Seq(Operators), NEW atFront \in BOOLEAN,
         NEW page, Initialised(page), AddContentStream(NextStream, w, atFront, page),
         steps' \in 0..MaxSteps
  PROVE  PageInv'
<1>1. PICK s, T, U : s = NextStream /\ T = Exists /\ U = T \cup {s}
  OBVIOUS
<1>2. /\ text \in [Streams -> Seq(Operators) \cup {NoStream}]
      /\ contents.kind \in Kinds /\ contents.streams \in Seq(T)
      /\ HoldWords(text, T) /\ held \in Nat
      /\ held # 0 => StreamOver(css[held], T)
      /\ unseen \in BOOLEAN /\ twice \in BOOLEAN
  BY <1>1, TypeInvFacts DEF PageInv
<1>3. s \in Streams /\ text[s] = NoStream /\ s \notin T
  BY <1>1, <1>2, NextStreamType DEF Exists
<1>4. PICK t, now : t = [text EXCEPT ![s] = <<ChangeTag>> \o w] /\ now = ContentsWith(s, atFront)
  OBVIOUS
<1>5. AddStream(s, t, atFront, now, page)
  BY <1>1, <1>4 DEF AddContentStream
<1>6. text' = t /\ contents' = now /\ held' = held
  BY <1>5 DEF AddStream
<1>7. <<ChangeTag>> \o w \in Seq(Operators)
  <2>1. <<ChangeTag>> \in Seq(Operators)
    BY OneSeq DEF Operators
  <2> QED BY <2>1, ConcatProperties
<1>8. /\ t \in [Streams -> Seq(Operators) \cup {NoStream}]
      /\ t[s] \in Seq(Operators) /\ \A x \in Streams \ {s} : t[x] = text[x]
  BY <1>2, <1>3, <1>4, <1>7
<1>9. U = {x \in Streams : t[x] # NoStream}
  <2>1. t[s] # NoStream
    BY <1>8, PageContentsAssumption
  <2> QED BY <1>1, <1>3, <1>8, <2>1 DEF Exists
<1>10. Exists' = U
  BY <1>6, <1>9 DEF Exists, Streams
<1>11. HoldWords(t, U)
  BY <1>8, <1>9 DEF HoldWords
<1>12. PICK flat : flat = contents.streams
  OBVIOUS
<1>13. flat \in Seq(U) /\ T \subseteq U /\ s \in U
  BY <1>1, <1>2, <1>12, SeqMonotonic
<1>14. /\ now.kind \in Kinds /\ now.kind # "stream"
       /\ now.streams = IF atFront THEN <<s>> \o flat ELSE Append(flat, s)
       /\ now \in [kind : Kinds, streams : Seq(U)]
  <2>1. <<s>> \o flat \in Seq(U)
    <3>1. <<s>> \in Seq(U)
      BY <1>13, OneSeq
    <3> QED BY <1>13, <3>1, ConcatProperties
  <2>2. Append(flat, s) \in Seq(U)
    BY <1>13, AppendProperties
  <2>3. now = [kind    |-> IF contents.kind = "ref" THEN "ref" ELSE "array",
               streams |-> IF atFront THEN <<s>> \o flat ELSE Append(flat, s)]
    BY <1>4, <1>12 DEF ContentsWith
  <2> QED BY <2>1, <2>2, <2>3 DEF Kinds
<1>15. PICK page2 : page2 = IF page.ccs = <<>> THEN PageParsed(t, now.streams) ELSE page
  OBVIOUS
<1>16. PageOver(page2, U)
  <2>1. \A c : StreamOver(c, T) => StreamOver(c, U)
    BY <1>13, SoundMore
  <2>2. CASE page.ccs = <<>>
    <3>1. PICK ss : ss = now.streams
      OBVIOUS
    <3>2. ss \in Seq(U)
      BY <1>14, <3>1
    <3>3. held # 0 => StreamOver(css[held], U)
      BY <1>2, <2>1
    <3>4. PageOver(PageParsed(t, ss), U)
      BY <1>2, <1>11, <3>2, <3>3, PageParsedOver
    <3> QED BY <1>15, <2>2, <3>1, <3>4
  <2>3. CASE page.ccs # <<>>
    <3>1. PageOver(page, T)
      BY <1>1 DEF Initialised
    <3>2. PageOver(page, U)
      BY <2>1, <3>1 DEF PageOver
    <3> QED BY <1>15, <2>3, <3>2
  <2> QED BY <2>2, <2>3
<1>17. PICK used, id : used = DOMAIN page2.css /\ id = FreshId(used)
  OBVIOUS
<1>18. id \in Nat \ {0} /\ id \notin used
  <2>1. PICK ids, h : ids = page2.ccs /\ h = held
    OBVIOUS
  <2>2. ids \in Seq(Nat \ {0}) /\ used = Live(ids, h)
    BY <1>16, <1>17, <2>1 DEF PageOver
  <2>3. IsFiniteSet(used)
    BY <2>2, LiveFinite
  <2> QED BY <1>17, <2>3, FreshIdType
<1>19. Put(s, t, id, atFront, page2)
  BY <1>5, <1>15, <1>17 DEF AddStream, PutInto
<1>20. /\ PageOver(PageAsIs, U)'
       /\ Flat(PageAsIs)' = IF atFront THEN <<s>> \o Flat(page2) ELSE Append(Flat(page2), s)
  BY <1>6, <1>11, <1>13, <1>16, <1>17, <1>18, <1>19, PutKeeps
<1>21. twice' = (page.ccs = <<>> \/ TwiceInit) /\ unseen' = (unseen /\ ccs # <<>>)
  BY <1>5 DEF AddStream
<1>22. unseen' \in BOOLEAN /\ twice' \in BOOLEAN
  BY <1>21
<1>23. TypeInv'
  BY <1>2, <1>6, <1>8, <1>10, <1>14, <1>20, <1>22 DEF TypeInv
<1>24. ContentsInv'
  <2>1. ASSUME ~twice' PROVE IsInjective(Flat(PageAsIs)') /\ (~unseen' => contents'.streams = Flat(PageAsIs)')
    <3>1. page.ccs # <<>> /\ ~TwiceInit
      BY <1>21, <2>1
    <3>2. page2 = page
      BY <1>15, <3>1
    <3>3. PICK f : f = Flat(page)
      OBVIOUS
    <3>4. /\ IsInjective(f) /\ f \in Seq(T)
          /\ ~unseen' => flat = f
      <4>1. PageOver(page, T)
        BY <1>1 DEF Initialised
      <4>2. f \in Seq(T)
        BY <3>3, <4>1, StreamsOfType
      <4> QED BY <1>12, <1>21, <3>1, <3>3, <4>2 DEF Initialised
    <3>5. f \in Seq(U) /\ s \notin Range(f)
      <4>1. \A k \in 1..Len(f) : f[k] \in T
        BY <3>4, ElementOfSeq
      <4>2. DOMAIN f = 1..Len(f)
        BY <3>4, LenProperties
      <4>3. s \notin Range(f)
        BY <1>3, <4>1, <4>2 DEF Range
      <4>4. f \in Seq(U)
        BY <1>13, <3>4, SeqMonotonic
      <4> QED BY <4>3, <4>4
    <3>6. PICK one : one = <<s>>
      OBVIOUS
    <3>7. one \in Seq(U) /\ IsInjective(one) /\ Range(one) = {s}
      BY <1>13, <3>6, OneSeq
    <3>8. Range(one) \cap Range(f) = {} /\ Range(f) \cap Range(one) = {}
      BY <3>5, <3>7
    <3>9. IsInjective(one \o f)
      BY <3>4, <3>5, <3>7, <3>8, ConcatInjective
    <3>10. IsInjective(f \o one)
      BY <3>4, <3>5, <3>7, <3>8, ConcatInjective
    <3>11. Append(f, s) = f \o one
      BY <1>13, <3>5, <3>6, AppendIsConcat
    <3>12. PICK g : g = IF atFront THEN <<s>> \o f ELSE Append(f, s)
      OBVIOUS
    <3>13. IsInjective(g)
      BY <3>6, <3>9, <3>10, <3>11, <3>12
    <3>14. Flat(PageAsIs)' = g
      BY <1>20, <3>2, <3>3, <3>12
    <3>15. ~unseen' => contents'.streams = g
      BY <1>6, <1>14, <3>4, <3>12
    <3> QED BY <3>13, <3>14, <3>15
  <2> QED BY <2>1 DEF ContentsInv
<1> QED BY <1>23, <1>24 DEF PageInv

-----------------------------------------------------------------------------
(* One is removed.                                                         *)

(* removeContentStream.                                                    *)
LEMMA RemoveKeeps ==
  ASSUME PageInv, NEW page, Initialised(page), NEW k \in Nat \ {0}, RemoveOf(page, k),
         unseen' = (unseen /\ ccs # <<>>), twice' = TwiceInit, text' = text, held' = held,
         steps' \in 0..MaxSteps
  PROVE  PageInv'
<1>1. PICK T, n, ids : T = Exists /\ n = Len(page.ccs) /\ ids = page.ccs
  OBVIOUS
<1>2. /\ text \in [Streams -> Seq(Operators) \cup {NoStream}]
      /\ contents \in [kind : Kinds, streams : Seq(T)]
      /\ contents.kind = "stream" => Len(contents.streams) <= 1
      /\ held \in Nat /\ unseen \in BOOLEAN /\ twice \in BOOLEAN
  BY <1>1, TypeInvFacts DEF PageInv
<1>3. /\ PageOver(page, T) /\ ids \in Seq(Nat \ {0}) /\ IsInjective(ids)
      /\ DOMAIN page.css = Live(ids, held)
  BY <1>1 DEF Initialised, PageOver
<1>4. n \in Nat /\ k \in 1..n /\ Len(ids) = n
  <2>1. n \in Nat
    BY <1>1, <1>3, LenProperties
  <2> QED BY <1>1, <2>1 DEF RemoveOf, RemoveFrom
<1>5. PICK left : left = RemoveAt(ids, k)
  OBVIOUS
<1>6. /\ left \in Seq(Nat \ {0}) /\ Len(left) = n - 1 /\ IsInjective(left)
      /\ Range(left) \subseteq Range(ids)
      /\ \A j \in 1..(n - 1) : left[j] = IF j < k THEN ids[j] ELSE ids[j + 1]
  <2>1. k \in 1..Len(ids)
    BY <1>4
  <2>2. left \in Seq(Nat \ {0}) /\ Range(left) \subseteq Range(ids) /\ IsInjective(left)
    BY <1>3, <1>5, <2>1, RemoveAtKeeps
  <2>3. /\ Len(left) = Len(ids) - 1
        /\ \A j \in 1..(Len(ids) - 1) : left[j] = IF j < k THEN ids[j] ELSE ids[j + 1]
    BY <1>3, <1>5, <2>1, RemoveAtFacts
  <2> QED BY <1>4, <2>2, <2>3
<1>7. PICK old : old = StreamsOf(page)
  OBVIOUS
<1>8. /\ old \in Seq(Seq(T)) /\ Len(old) = n /\ old \in Seq(Seq(T) \ {<<>>})
      /\ \A j \in 1..n : old[j] = page.css[ids[j]].streams
  BY ZenonT(40), <1>1, <1>3, <1>7, StreamsOfType
<1>9. PICK ss, all : ss = old[k] /\ all = contents.streams
  OBVIOUS
<1>10. ss \in Seq(T) /\ all \in Seq(T)
  BY <1>2, <1>4, <1>8, <1>9, ElementOfSeq
<1>11. /\ contents' = IF contents.kind = "stream" THEN [kind |-> "array", streams |-> <<>>]
                      ELSE [contents EXCEPT !.streams = Without(all, ss)]
       /\ ccs' = left /\ css' = [c \in Live(left, held) |-> page.css[c]]
  <2>1. page.css[page.ccs[k]].streams = ss
    BY <1>1, <1>4, <1>8, <1>9
  <2>2. [contents EXCEPT !.streams = Without(@, ss)] = [contents EXCEPT !.streams = Without(all, ss)]
    BY <1>9
  <2> QED BY <1>1, <1>5, <2>1, <2>2 DEF RemoveOf, RemoveFrom
<1>12. contents' \in [kind : Kinds, streams : Seq(T)] /\ contents'.kind # "stream"
  <2>1. CASE contents.kind = "stream"
    <3>1. <<>> \in Seq(T) /\ "array" \in Kinds
      BY EmptySeq DEF Kinds
    <3> QED BY <1>11, <2>1, <3>1
  <2>2. CASE contents.kind # "stream"
    <3>1. Without(all, ss) \in Seq(T)
      BY <1>10, WithoutKeeps
    <3> QED BY <1>2, <1>11, <2>2, <3>1
  <2> QED BY <2>1, <2>2
<1>13. PICK css2, page2 : css2 = [c \in Live(left, held) |-> page.css[c]]
                          /\ page2 = [ccs |-> left, css |-> css2]
  OBVIOUS
<1>14. PageOver(page2, T)
  <2>1. \A c \in Live(left, held) : c \in DOMAIN page.css
    BY <1>3, <1>6 DEF Live
  <2> QED BY <1>3, <1>6, <1>13, <2>1 DEF PageOver
<1>15. PageOver(PageAsIs, T)'
  BY <1>11, <1>13, <1>14 DEF PageOver, PageAsIs, Live
<1>16. Exists' = T
  BY <1>1 DEF Exists, Streams
<1>17. TypeInv'
  BY <1>2, <1>12, <1>15, <1>16 DEF TypeInv, TwiceInit
<1>18. PICK s2 : s2 = StreamsOf(page2)
  OBVIOUS
<1>19. s2 = RemoveAt(old, k)
  <2>1. PICK e : e = RemoveAt(old, k)
    OBVIOUS
  <2>2. k \in 1..Len(old)
    BY <1>4, <1>8
  <2>3. /\ e \in Seq(Seq(T)) /\ Len(e) = Len(old) - 1
        /\ \A j \in 1..(Len(old) - 1) : e[j] = IF j < k THEN old[j] ELSE old[j + 1]
    BY <1>8, <2>1, <2>2, RemoveAtFacts
  <2>4. /\ e \in Seq(Seq(T)) /\ Len(e) = n - 1
        /\ \A j \in 1..(n - 1) : e[j] = IF j < k THEN old[j] ELSE old[j + 1]
    BY <1>8, <2>3
  <2>5. /\ s2 \in Seq(Seq(T)) /\ Len(s2) = n - 1
        /\ \A j \in 1..(n - 1) : left[j] \in Range(left) /\ s2[j] = css2[left[j]].streams
    <3>1. /\ s2 \in Seq(Seq(T)) /\ Len(s2) = Len(page2.ccs)
          /\ \A j \in 1..Len(page2.ccs) : /\ page2.ccs[j] \in Range(page2.ccs)
                                          /\ s2[j] = page2.css[page2.ccs[j]].streams
      BY <1>14, <1>18, StreamsOfType
    <3> QED BY <1>6, <1>13, <3>1
  <2>6. ASSUME NEW j \in 1..(n - 1) PROVE s2[j] = e[j]
    <3>1. css2[left[j]] = page.css[left[j]]
      BY <1>13, <2>5 DEF Live
    <3>2. CASE j < k
      <4>1. left[j] = ids[j] /\ j \in 1..n
        BY <1>4, <1>6, <3>2
      <4> QED BY ZenonT(40), <1>8, <2>4, <2>5, <3>1, <3>2, <4>1
    <3>3. CASE ~(j < k)
      <4>1. left[j] = ids[j + 1] /\ j + 1 \in 1..n
        BY <1>4, <1>6, <3>3
      <4> QED BY ZenonT(90), <1>8, <2>4, <2>5, <3>1, <3>3, <4>1
    <3> QED BY <3>2, <3>3
  <2>7. n - 1 \in Nat
    BY <1>4
  <2>8. s2 = e
    BY SMTT(30), <2>4, <2>5, <2>6, <2>7, SameSeq
  <2> QED BY <2>1, <2>8
<1>20. Flat(PageAsIs)' = Flat(page2)
  BY <1>11, <1>13 DEF Flat, StreamsOf, PageAsIs
<1>21. PICK a \in Seq(Seq(T)), b \in Seq(Seq(T)) : old = (a \o <<ss>>) \o b /\ s2 = a \o b
  <2>1. k \in 1..Len(old)
    BY <1>4, <1>8
  <2>2. \E a, b \in Seq(Seq(T)) : /\ old = (a \o <<old[k]>>) \o b
                                  /\ RemoveAt(old, k) = a \o b
                                  /\ Len(a) = k - 1
    BY <1>8, <2>1, AroundElement
  <2> QED BY <1>9, <1>19, <2>2
<1>22. PICK fa, fb : fa = FlattenSeq(a) /\ fb = FlattenSeq(b)
  OBVIOUS
<1>23. fa \in Seq(T) /\ fb \in Seq(T)
  BY <1>21, <1>22, FlattenFacts
<1>24. Flat(page2) = fa \o fb
  <2>1. FlattenSeq(a \o b) = FlattenSeq(a) \o FlattenSeq(b)
    BY <1>21, FlattenConcat
  <2> QED BY <1>18, <1>21, <1>22, <2>1 DEF Flat
<1>25. Flat(page) = (fa \o ss) \o fb
  <2>1. PICK one, ao : one = <<ss>> /\ ao = a \o one
    OBVIOUS
  <2>2. one \in Seq(Seq(T)) /\ FlattenSeq(one) = ss
    BY <1>10, <2>1, FlattenConcat
  <2>3. ao \in Seq(Seq(T)) /\ FlattenSeq(ao) = fa \o ss
    <3>1. FlattenSeq(a \o one) = FlattenSeq(a) \o FlattenSeq(one)
      BY <1>21, <2>2, FlattenConcat
    <3>2. a \o one \in Seq(Seq(T))
      BY <1>21, <2>2, ConcatProperties
    <3> QED BY <1>22, <2>1, <2>2, <3>1, <3>2
  <2>4. FlattenSeq(ao \o b) = FlattenSeq(ao) \o FlattenSeq(b)
    BY <1>21, <2>3, FlattenConcat, ZenonT(60)
  <2> QED BY <1>7, <1>21, <1>22, <2>1, <2>3, <2>4 DEF Flat
<1>26. ContentsInv'
  <2>1. ASSUME ccs' # <<>>, ~twice'
        PROVE  IsInjective(Flat(PageAsIs)') /\ (~unseen' => contents'.streams = Flat(PageAsIs)')
    <3>1. page.ccs # <<>>
      <4>1. Len(page.ccs) # 0
        BY <1>1, <1>4
      <4>2. Len(<<>>) = 0
        OBVIOUS
      <4> QED BY <4>1, <4>2
    <3>2. /\ IsInjective((fa \o ss) \o fb)
          /\ ~unseen' => all = (fa \o ss) \o fb
      BY <1>9, <1>25, <2>1, <3>1 DEF Initialised
    <3>3. IsInjective(fa \o fb)
      BY <1>10, <1>23, <3>2, PartsInjective
    <3>4. ASSUME ~unseen' PROVE contents'.streams = fa \o fb
      <4>1. all = (fa \o ss) \o fb
        BY <3>2, <3>4
      <4>2. contents.kind # "stream"
        <5>1. ASSUME contents.kind = "stream" PROVE FALSE
          <6>1. FlattenSeq(old) = all
            BY <1>7, <1>25, <4>1 DEF Flat
          <6>2. Len(old) <= 1
            <7>1. Len(FlattenSeq(old)) >= Len(old) /\ Len(old) \in Nat /\ Len(FlattenSeq(old)) \in Nat
              BY <1>8, FlattenLen
            <7>2. Len(all) <= 1
              BY <1>2, <1>9, <5>1
            <7> QED BY <6>1, <7>1, <7>2
          <6>3. Len(left) = 0
            BY <1>4, <1>6, <1>8, <6>2
          <6>4. left = <<>>
            BY <1>6, <6>3, EmptySeq
          <6> QED BY <1>11, <2>1, <6>4
        <5> QED BY <5>1
      <4>3. Without((fa \o ss) \o fb, ss) = fa \o fb
        BY <1>10, <1>23, <3>2, WithoutMiddle
      <4>4. contents'.streams = Without(all, ss)
        BY <1>2, <1>11, <4>2
      <4> QED BY <4>1, <4>3, <4>4
    <3> QED BY <1>20, <1>24, <3>3, <3>4
  <2> QED BY <2>1 DEF ContentsInv
<1> QED BY <1>17, <1>26 DEF PageInv

-----------------------------------------------------------------------------
(* Two of them are swapped.                                                *)

(* Two elements between two sequences.                                     *)
Between(e, a, x, y, d, p, q, S) ==
    /\ e \in Seq(S) /\ Len(e) = p + 2 + q
    /\ \A j \in 1..(p + 2 + q) :
          e[j] = IF j <= p THEN a[j] ELSE IF j = p + 1 THEN x
                 ELSE IF j = p + 2 THEN y ELSE d[j - (p + 2)]

(* Two elements between two sequences, element by element.                 *)
LEMMA TwoBetween ==
  ASSUME NEW S, NEW a \in Seq(S), NEW d \in Seq(S), NEW x \in S, NEW y \in S,
         NEW p \in Nat, NEW q \in Nat, Len(a) = p, Len(d) = q,
         NEW e, e = ((a \o <<x>>) \o <<y>>) \o d
  PROVE  Between(e, a, x, y, d, p, q, S)
<1>1. PICK ax, ay : ax = Append(a, x) /\ ay = Append(ax, y)
  OBVIOUS
<1>2. /\ ax \in Seq(S) /\ Len(ax) = p + 1 /\ ax[p + 1] = x
      /\ \A j \in 1..p : ax[j] = a[j]
  BY <1>1, AppendProperties
<1>3. /\ ay \in Seq(S) /\ Len(ay) = p + 2 /\ ay[p + 2] = y
      /\ \A j \in 1..(p + 1) : ay[j] = ax[j]
  <2>1. /\ ay \in Seq(S) /\ Len(ay) = Len(ax) + 1 /\ ay[Len(ax) + 1] = y
        /\ \A j \in 1..Len(ax) : ay[j] = ax[j]
    BY <1>1, <1>2, AppendProperties
  <2> QED BY <1>2, <2>1
<1>4. e = ay \o d
  <2>1. ax = a \o <<x>>
    BY <1>1, AppendIsConcat
  <2>2. ay = ax \o <<y>>
    BY <1>1, <1>2, AppendIsConcat
  <2> QED BY <2>1, <2>2
<1>5. /\ ay \o d \in Seq(S) /\ Len(ay \o d) = Len(ay) + Len(d)
      /\ \A j \in 1..(Len(ay) + Len(d)) :
            (ay \o d)[j] = IF j <= Len(ay) THEN ay[j] ELSE d[j - Len(ay)]
  BY <1>3, ConcatProperties
<1>6. /\ e \in Seq(S) /\ Len(e) = p + 2 + q
      /\ \A j \in 1..(p + 2 + q) : e[j] = IF j <= p + 2 THEN ay[j] ELSE d[j - (p + 2)]
  BY <1>3, <1>4, <1>5
<1>7. ASSUME NEW j \in 1..(p + 2)
      PROVE  ay[j] = IF j <= p THEN a[j] ELSE IF j = p + 1 THEN x ELSE y
  <2>1. CASE j <= p
    <3>1. j \in 1..p /\ j \in 1..(p + 1)
      BY <2>1
    <3> QED BY <1>2, <1>3, <2>1, <3>1
  <2>2. CASE j = p + 1
    <3>1. j \in 1..(p + 1) /\ ~(j <= p)
      BY <2>2
    <3> QED BY <1>2, <1>3, <2>2, <3>1
  <2>3. CASE j = p + 2
    <3>1. ~(j <= p) /\ j # p + 1
      BY <2>3
    <3> QED BY <1>3, <2>3, <3>1
  <2> QED BY <2>1, <2>2, <2>3
<1>8. ASSUME NEW j \in 1..(p + 2 + q)
      PROVE  e[j] = IF j <= p THEN a[j] ELSE IF j = p + 1 THEN x
                    ELSE IF j = p + 2 THEN y ELSE d[j - (p + 2)]
  <2>1. CASE j <= p + 2
    <3>1. j \in 1..(p + 2)
      BY <2>1
    <3>2. ~(j <= p) /\ j # p + 1 => j = p + 2
      BY <2>1
    <3> QED BY <1>6, <1>7, <2>1, <3>1, <3>2
  <2>2. CASE ~(j <= p + 2)
    <3>1. ~(j <= p) /\ j # p + 1 /\ j # p + 2
      BY <2>2
    <3> QED BY <1>6, <2>2, <3>1
  <2> QED BY <2>1, <2>2
<1> QED BY <1>6, <1>8 DEF Between

(* Two neighbours change places.                                           *)
Swapped(s, k) == [s EXCEPT ![k] = s[k + 1], ![k + 1] = s[k]]

(* What that does to every element.                                        *)
SwappedAs(t, s, k, n, S) ==
    /\ t \in Seq(S) /\ Len(t) = n
    /\ \A j \in 1..n : t[j] = IF j = k THEN s[k + 1] ELSE IF j = k + 1 THEN s[k] ELSE s[j]
    /\ Range(t) = Range(s)
    /\ IsInjective(s) => IsInjective(t)

(* It does.                                                                *)
LEMMA SwappedFacts ==
  ASSUME NEW S, NEW s \in Seq(S), NEW n \in Nat, Len(s) = n, NEW k \in 1..(n - 1)
  PROVE  SwappedAs(Swapped(s, k), s, k, n, S)
<1>1. PICK t : t = Swapped(s, k)
  OBVIOUS
<1>2. s \in [1..n -> S] /\ DOMAIN s = 1..n
  BY LenProperties
<1>3. /\ DOMAIN t = 1..n
      /\ \A j \in 1..n : t[j] = IF j = k THEN s[k + 1] ELSE IF j = k + 1 THEN s[k] ELSE s[j]
  BY <1>1, <1>2 DEF Swapped
<1>4. k \in 1..n /\ k + 1 \in 1..n
  OBVIOUS
<1>5. t \in [1..n -> S]
  <2>1. t = [j \in 1..n |-> t[j]]
    BY <1>1, <1>2, <1>3 DEF Swapped
  <2>2. \A j \in 1..n : t[j] \in S
    BY <1>2, <1>3, <1>4
  <2> QED BY <2>1, <2>2
<1>6. t \in Seq(S) /\ Len(t) = n
  BY <1>5, SeqIsFunction
<1>7. Range(t) = Range(s)
  <2>1. \A j \in 1..n : t[j] \in Range(s)
    BY <1>2, <1>3, <1>4 DEF Range
  <2>2. \A j \in 1..n : s[j] \in Range(t)
    <3>1. ASSUME NEW j \in 1..n PROVE \E i \in 1..n : t[i] = s[j]
      <4>1. CASE j = k
        <5>1. t[k + 1] = s[k]
          BY <1>3, <1>4
        <5> QED BY <1>4, <4>1, <5>1
      <4>2. CASE j = k + 1
        <5>1. t[k] = s[k + 1]
          BY <1>3, <1>4
        <5> QED BY <1>4, <4>2, <5>1
      <4>3. CASE j # k /\ j # k + 1
        BY <1>3, <4>3
      <4> QED BY <4>1, <4>2, <4>3
    <3> QED BY <1>3, <3>1 DEF Range
  <2> QED BY <1>2, <1>3, <2>1, <2>2 DEF Range
<1>8. ASSUME IsInjective(s) PROVE IsInjective(t)
  <2>1. \A i, j \in 1..n : s[i] = s[j] => i = j
    BY <1>2, <1>8 DEF IsInjective
  <2>2. ASSUME NEW i \in 1..n, NEW j \in 1..n, t[i] = t[j] PROVE i = j
    <3>1. PICK u \in 1..n : u = IF i = k THEN k + 1 ELSE IF i = k + 1 THEN k ELSE i
      BY <1>4
    <3>2. PICK v \in 1..n : v = IF j = k THEN k + 1 ELSE IF j = k + 1 THEN k ELSE j
      BY <1>4
    <3>3. t[i] = s[u] /\ t[j] = s[v]
      BY <1>3, <3>1, <3>2
    <3>4. u = v
      BY <2>1, <2>2, <3>3
    <3> QED BY <3>1, <3>2, <3>4
  <2> QED BY <1>3, <2>2 DEF IsInjective
<1> QED BY <1>1, <1>3, <1>6, <1>7, <1>8 DEF SwappedAs

(* What was apart is apart when two neighbours have changed places.        *)
LEMMA FlattenSwapped ==
  ASSUME NEW S, NEW s \in Seq(Seq(S)), NEW n \in Nat, Len(s) = n, NEW k \in 1..(n - 1),
         IsInjective(FlattenSeq(s))
  PROVE  IsInjective(FlattenSeq(Swapped(s, k)))
<1>0. PICK R : R = Seq(S)
  OBVIOUS
<1>1. PICK x, y : x = s[k] /\ y = s[k + 1]
  OBVIOUS
<1>2. x \in Seq(S) /\ y \in Seq(S)
  <2>1. k \in 1..Len(s) /\ k + 1 \in 1..Len(s)
    OBVIOUS
  <2> QED BY <1>1, <2>1, ElementOfSeq
<1>3. PICK p \in Nat, q \in Nat : p = k - 1 /\ q = n - (k + 1)
  OBVIOUS
<1>4. PICK a, d : a = SubSeq(s, 1, p) /\ d = SubSeq(s, k + 2, n)
  OBVIOUS
<1>5. /\ a \in Seq(Seq(S)) /\ Len(a) = p /\ \A j \in 1..p : a[j] = s[j]
      /\ d \in Seq(Seq(S)) /\ Len(d) = q /\ \A j \in 1..q : d[j] = s[p + 2 + j]
  <2>1. \A j \in 1..n : s[j] \in Seq(S)
    BY ElementOfSeq
  <2>2. \A j \in 1..p : s[j] \in Seq(S)
    BY <1>3, <2>1
  <2>3. \A j \in (k + 2)..n : s[j] \in Seq(S)
    BY <2>1
  <2>4. p \in Int /\ 1 \in Int /\ k + 2 \in Int /\ n \in Int
    OBVIOUS
  <2>5. /\ a \in Seq(Seq(S)) /\ Len(a) = (IF 1 <= p THEN p - 1 + 1 ELSE 0)
        /\ \A j \in 1..(p - 1 + 1) : a[j] = s[1 + j - 1]
    BY <1>4, <2>2, <2>4, SubSeqProperties
  <2>6. /\ d \in Seq(Seq(S)) /\ Len(d) = (IF k + 2 <= n THEN n - (k + 2) + 1 ELSE 0)
        /\ \A j \in 1..(n - (k + 2) + 1) : d[j] = s[(k + 2) + j - 1]
    <3>1. PICK i \in Int : i = k + 2
      OBVIOUS
    <3>2. \A j \in i..n : s[j] \in Seq(S)
      BY <2>3, <3>1
    <3>3. /\ SubSeq(s, i, n) \in Seq(Seq(S))
          /\ Len(SubSeq(s, i, n)) = (IF i <= n THEN n - i + 1 ELSE 0)
          /\ \A j \in 1..(n - i + 1) : SubSeq(s, i, n)[j] = s[i + j - 1]
      BY <2>4, <3>2, SubSeqProperties
    <3> QED BY <1>4, <3>1, <3>3
  <2>7. Len(a) = p /\ p - 1 + 1 = p /\ \A j \in 1..p : 1 + j - 1 = j
    BY <2>5
  <2>8. Len(d) = q /\ n - (k + 2) + 1 = q /\ \A j \in 1..q : (k + 2) + j - 1 = p + 2 + j
    BY <1>3, <2>6
  <2> QED BY ZenonT(40), <2>5, <2>6, <2>7, <2>8
<1>6. PICK e, f : e = ((a \o <<x>>) \o <<y>>) \o d /\ f = ((a \o <<y>>) \o <<x>>) \o d
  OBVIOUS
<1>7. p + 2 + q = n
  BY <1>3
<1>20. a \in Seq(R) /\ d \in Seq(R) /\ x \in R /\ y \in R
  BY <1>0, <1>2, <1>5
<1>8. /\ e \in Seq(Seq(S)) /\ Len(e) = n
      /\ \A j \in 1..n : e[j] = IF j <= p THEN a[j] ELSE IF j = p + 1 THEN x
                                ELSE IF j = p + 2 THEN y ELSE d[j - (p + 2)]
  <2>1. e = ((a \o <<x>>) \o <<y>>) \o d /\ Len(a) = p /\ Len(d) = q
    BY <1>5, <1>6
  <2>2. Between(e, a, x, y, d, p, q, R)
    BY <1>20, <2>1, TwoBetween
  <2> QED BY <1>0, <1>7, <2>2 DEF Between
<1>9. /\ f \in Seq(Seq(S)) /\ Len(f) = n
      /\ \A j \in 1..n : f[j] = IF j <= p THEN a[j] ELSE IF j = p + 1 THEN y
                                ELSE IF j = p + 2 THEN x ELSE d[j - (p + 2)]
  <2>1. f = ((a \o <<y>>) \o <<x>>) \o d /\ Len(a) = p /\ Len(d) = q
    BY <1>5, <1>6
  <2>2. Between(f, a, y, x, d, p, q, R)
    BY <1>20, <2>1, TwoBetween
  <2> QED BY <1>0, <1>7, <2>2 DEF Between
<1>10. \A j \in 1..n : ~(j <= p) /\ j # p + 1 /\ j # p + 2 =>
          j - (p + 2) \in 1..q /\ p + 2 + (j - (p + 2)) = j
  BY <1>7
<1>11. \A j \in 1..n : j <= p => j \in 1..p /\ j # k /\ j # k + 1
  BY <1>3
<1>12. p + 1 = k /\ p + 2 = k + 1
  BY <1>3
<1>13. s = e
  <2>1. \A j \in 1..n : s[j] = e[j]
    <3>1. ASSUME NEW j \in 1..n PROVE s[j] = e[j]
      <4>1. CASE j <= p
        BY <1>5, <1>8, <1>11, <4>1
      <4>2. CASE j = k
        BY <1>1, <1>8, <1>11, <1>12, <4>2
      <4>3. CASE j = k + 1
        BY <1>1, <1>8, <1>11, <1>12, <4>3
      <4>4. CASE ~(j <= p) /\ j # p + 1 /\ j # p + 2
        BY ZenonT(40), <1>5, <1>8, <1>10, <4>4
      <4> QED BY <1>12, <4>1, <4>2, <4>3, <4>4
    <3> QED BY <3>1
  <2> QED BY <1>8, <2>1, SameSeq
<1>14. Swapped(s, k) = f
  <2>1. PICK g : g = Swapped(s, k)
    OBVIOUS
  <2>2. /\ g \in Seq(Seq(S)) /\ Len(g) = n
        /\ \A j \in 1..n : g[j] = IF j = k THEN s[k + 1] ELSE IF j = k + 1 THEN s[k] ELSE s[j]
    <3>1. s \in Seq(R)
      BY <1>0
    <3>2. SwappedAs(Swapped(s, k), s, k, n, R)
      BY <3>1, SwappedFacts
    <3> QED BY <1>0, <2>1, <3>2 DEF SwappedAs
  <2>3. \A j \in 1..n : g[j] = f[j]
    <3>1. ASSUME NEW j \in 1..n PROVE g[j] = f[j]
      <4>1. CASE j <= p
        BY <1>5, <1>9, <1>11, <2>2, <4>1
      <4>2. CASE j = k
        BY <1>1, <1>9, <1>11, <1>12, <2>2, <4>2
      <4>3. CASE j = k + 1
        <5>1. j # k /\ ~(j <= p)
          BY <1>11, <4>3
        <5> QED BY <1>1, <1>9, <1>12, <2>2, <4>3, <5>1
      <4>4. CASE ~(j <= p) /\ j # p + 1 /\ j # p + 2
        BY ZenonT(90), <1>5, <1>9, <1>10, <1>12, <2>2, <4>4
      <4> QED BY <1>12, <4>1, <4>2, <4>3, <4>4
    <3> QED BY <3>1
  <2> QED BY <1>9, <2>1, <2>2, <2>3, SameSeq
<1>15. PICK fa, fd : fa = FlattenSeq(a) /\ fd = FlattenSeq(d)
  OBVIOUS
<1>16. fa \in Seq(S) /\ fd \in Seq(S)
  BY <1>5, <1>15, FlattenFacts
<1>17. ASSUME NEW u \in Seq(S), NEW v \in Seq(S)
       PROVE  FlattenSeq(((a \o <<u>>) \o <<v>>) \o d) = ((fa \o u) \o v) \o fd
  <2>1. PICK ou, ov : ou = <<u>> /\ ov = <<v>>
    OBVIOUS
  <2>2. ou \in Seq(Seq(S)) /\ ov \in Seq(Seq(S)) /\ FlattenSeq(ou) = u /\ FlattenSeq(ov) = v
    <3>1. ou \in Seq(Seq(S)) /\ ov \in Seq(Seq(S))
      BY <2>1
    <3> QED BY <2>1, <3>1, FlattenConcat
  <2>3. PICK au : au = a \o ou
    OBVIOUS
  <2>4. au \in Seq(Seq(S)) /\ FlattenSeq(au) = fa \o u
    <3>1. FlattenSeq(a \o ou) = FlattenSeq(a) \o FlattenSeq(ou)
      BY ZenonT(40), <1>5, <2>2, FlattenConcat
    <3>2. a \o ou \in Seq(Seq(S))
      BY <1>5, <2>2, ConcatProperties
    <3> QED BY <1>15, <2>2, <2>3, <3>1, <3>2
  <2>5. PICK auv : auv = au \o ov
    OBVIOUS
  <2>6. auv \in Seq(Seq(S)) /\ FlattenSeq(auv) = (fa \o u) \o v
    <3>1. FlattenSeq(au \o ov) = FlattenSeq(au) \o FlattenSeq(ov)
      BY <2>2, <2>4, FlattenConcat, ZenonT(60)
    <3>2. au \o ov \in Seq(Seq(S))
      BY <2>2, <2>4, ConcatProperties
    <3> QED BY <2>2, <2>4, <2>5, <3>1, <3>2
  <2>7. FlattenSeq(auv \o d) = FlattenSeq(auv) \o FlattenSeq(d)
    BY <1>5, <2>6, FlattenConcat
  <2> QED BY <1>15, <2>1, <2>3, <2>5, <2>6, <2>7
<1>18. FlattenSeq(e) = ((fa \o x) \o y) \o fd
  BY <1>2, <1>6, <1>17
<1>19. FlattenSeq(f) = ((fa \o y) \o x) \o fd
  BY <1>2, <1>6, <1>17
<1> QED BY <1>2, <1>13, <1>14, <1>16, <1>18, <1>19, PartsInjective

-----------------------------------------------------------------------------
(* What others do.                                                         *)

(* moveAbove and moveBelow.                                                *)
LEMMA MoveKeeps ==
  ASSUME PageInv, NEW page, Initialised(page), NEW k \in Nat \ {0}, MoveOf(page, k),
         unseen' = FALSE, twice' = TwiceInit, text' = text, held' = held,
         steps' \in 0..MaxSteps
  PROVE  PageInv'
<1>1. PICK T, n, ids : T = Exists /\ n = Len(page.ccs) /\ ids = page.ccs
  OBVIOUS
<1>2. /\ text \in [Streams -> Seq(Operators) \cup {NoStream}]
      /\ held \in Nat /\ twice \in BOOLEAN
  BY TypeInvFacts DEF PageInv
<1>3. /\ PageOver(page, T) /\ ids \in Seq(Nat \ {0}) /\ IsInjective(ids)
      /\ DOMAIN page.css = Live(ids, held)
  BY <1>1 DEF Initialised, PageOver
<1>4. n \in Nat /\ k \in 1..(n - 1) /\ Len(ids) = n
  <2>1. n \in Nat
    BY <1>1, <1>3, LenProperties
  <2> QED BY <1>1, <2>1 DEF MoveOf
<1>5. PICK moved : moved = Swapped(ids, k)
  OBVIOUS
<1>6. /\ moved \in Seq(Nat \ {0}) /\ Len(moved) = n /\ IsInjective(moved)
      /\ Range(moved) = Range(ids)
      /\ \A j \in 1..n : moved[j] = IF j = k THEN ids[k + 1]
                                    ELSE IF j = k + 1 THEN ids[k] ELSE ids[j]
  <2>1. SwappedAs(Swapped(ids, k), ids, k, n, Nat \ {0})
    BY <1>3, <1>4, SwappedFacts
  <2> QED BY <1>3, <1>5, <2>1 DEF SwappedAs
<1>7. PICK page2 : page2 = [ccs |-> moved, css |-> page.css]
  OBVIOUS
<1>8. PageOver(page2, T)
  BY <1>3, <1>6, <1>7 DEF PageOver, Live
<1>9. /\ ccs' = page2.ccs /\ css' = page2.css
      /\ contents' = [kind |-> "array", streams |-> Flat(page2)]
  BY <1>1, <1>5, <1>7 DEF MoveOf, SetPage, Swapped, Flat, StreamsOf
<1>10. Flat(PageAsIs)' = Flat(page2)
  BY <1>9 DEF Flat, StreamsOf, PageAsIs
<1>11. PageOver(PageAsIs, T)'
  BY <1>8, <1>9 DEF PageOver, PageAsIs, Live
<1>12. Exists' = T
  BY <1>1 DEF Exists, Streams
<1>13. contents' \in [kind : Kinds, streams : Seq(T)] /\ contents'.kind # "stream"
  <2>1. PICK f : f = Flat(page2)
    OBVIOUS
  <2>2. f \in Seq(T)
    BY <1>8, <2>1, StreamsOfType
  <2> QED BY <1>9, <2>1, <2>2 DEF Kinds
<1>14. TypeInv'
  BY <1>2, <1>11, <1>12, <1>13 DEF TypeInv, TwiceInit
<1>15. PICK old, s2 : old = StreamsOf(page) /\ s2 = StreamsOf(page2)
  OBVIOUS
<1>16. /\ old \in Seq(Seq(T)) /\ Len(old) = n
       /\ \A j \in 1..n : old[j] = page.css[ids[j]].streams
  BY ZenonT(40), <1>1, <1>3, <1>15, StreamsOfType
<1>17. s2 = Swapped(old, k)
  <2>1. PICK e, R : e = Swapped(old, k) /\ R = Seq(T)
    OBVIOUS
  <2>2. /\ e \in Seq(R) /\ Len(e) = n
        /\ \A j \in 1..n : e[j] = IF j = k THEN old[k + 1] ELSE IF j = k + 1 THEN old[k] ELSE old[j]
    <3>1. old \in Seq(R)
      BY <1>16, <2>1
    <3>2. SwappedAs(Swapped(old, k), old, k, n, R)
      BY <1>4, <1>16, <3>1, SwappedFacts
    <3> QED BY <2>1, <3>2 DEF SwappedAs
  <2>3. /\ s2 \in Seq(R) /\ Len(s2) = n
        /\ \A j \in 1..n : s2[j] = page.css[moved[j]].streams
    <3>1. /\ s2 \in Seq(Seq(T)) /\ Len(s2) = Len(page2.ccs)
          /\ \A j \in 1..Len(page2.ccs) : s2[j] = page2.css[page2.ccs[j]].streams
      BY <1>8, <1>15, StreamsOfType
    <3> QED BY <1>6, <1>7, <2>1, <3>1
  <2>4. k \in 1..n /\ k + 1 \in 1..n
    BY <1>4
  <2>5. ASSUME NEW j \in 1..n PROVE s2[j] = e[j]
    <3>1. CASE j = k
      BY ZenonT(40), <1>6, <1>16, <2>2, <2>3, <2>4, <3>1
    <3>2. CASE j = k + 1
      <4>1. j # k
        BY <2>4, <3>2
      <4> QED BY ZenonT(40), <1>6, <1>16, <2>2, <2>3, <2>4, <3>2, <4>1
    <3>3. CASE j # k /\ j # k + 1
      BY ZenonT(40), <1>6, <1>16, <2>2, <2>3, <3>3
    <3> QED BY <3>1, <3>2, <3>3
  <2>6. s2 = e
    BY <1>4, <2>2, <2>3, <2>5, SameSeq
  <2> QED BY <2>1, <2>6
<1>18. ContentsInv'
  <2>1. ASSUME ~twice' PROVE IsInjective(Flat(PageAsIs)') /\ contents'.streams = Flat(PageAsIs)'
    <3>1. page.ccs # <<>>
      <4>1. Len(page.ccs) # 0
        BY <1>1, <1>4
      <4>2. Len(<<>>) = 0
        OBVIOUS
      <4> QED BY <4>1, <4>2
    <3>2. IsInjective(FlattenSeq(old))
      BY <1>15, <2>1, <3>1 DEF Initialised, Flat
    <3>3. IsInjective(FlattenSeq(Swapped(old, k)))
      BY <1>4, <1>16, <3>2, FlattenSwapped
    <3> QED BY <1>9, <1>10, <1>15, <1>17, <3>3 DEF Flat
  <2> QED BY <2>1 DEF ContentsInv
<1> QED BY <1>14, <1>18 DEF PageInv

(* A client keeps another content stream.                                  *)
LEMMA HoldKeeps ==
  ASSUME PageInv, NEW k \in 1..Len(ccs), Hold(k)
  PROVE  PageInv'
<1>1. PICK T, c : T = Exists /\ c = ccs[k]
  OBVIOUS
<1>2. /\ ccs \in Seq(Nat \ {0}) /\ IsInjective(ccs)
      /\ DOMAIN css = Live(ccs, held)
      /\ \A d \in DOMAIN css : StreamOver(css[d], T)
  BY <1>1, TypeInvFacts DEF PageInv
<1>3. /\ ccs' = ccs /\ held' = c /\ css' = [d \in Range(ccs) |-> css[d]]
      /\ text' = text /\ contents' = contents /\ unseen' = unseen /\ twice' = twice
      /\ steps' = steps
  BY <1>1 DEF Hold
<1>4. c \in Range(ccs) /\ c \in Nat \ {0}
  <2>1. k \in DOMAIN ccs
    BY <1>2, LenProperties
  <2>2. c \in Nat \ {0}
    BY <1>1, <1>2, ElementOfSeq
  <2> QED BY <1>1, <2>1, <2>2 DEF Range
<1>5. Exists' = T
  BY <1>1, <1>3 DEF Exists, Streams
<1>6. PageOver(PageAsIs, T)'
  <2>1. Range(ccs) \subseteq DOMAIN css
    BY <1>2 DEF Live
  <2>2. Live(ccs, c) = Range(ccs)
    BY <1>4 DEF Live
  <2>3. DOMAIN css' = Live(ccs', held')
    BY <1>3, <2>2
  <2>4. \A d \in DOMAIN css' : StreamOver(css'[d], T)
    BY <1>2, <1>3, <2>1
  <2> QED BY <1>2, <1>3, <2>3, <2>4 DEF PageOver, PageAsIs
<1>7. TypeInv'
  BY <1>1, <1>3, <1>4, <1>5, <1>6 DEF PageInv, TypeInv
<1>8. ContentsInv'
  <2>1. \A d \in Range(ccs) : css'[d].streams = css[d].streams
    BY <1>3
  <2> QED BY <1>3, <2>1, SameContents
<1> QED BY <1>7, <1>8 DEF PageInv

(* Steps that write nothing.                                               *)
LEMMA TextStays ==
  ASSUME PageInv, text' = text
  PROVE  TextKept /\ HoldWords(text', Exists)
<1>1. text \in [Streams -> Seq(Operators) \cup {NoStream}] /\ HoldWords(text, Exists)
  BY TypeInvFacts DEF PageInv
<1>2. Exists' = Exists
  BY DEF Exists, Streams
<1> QED BY <1>1, <1>2 DEF TextKept

(* The number of steps stays within its bound.                             *)
LEMMA StepType ==
  ASSUME PageInv, Step
  PROVE  steps' \in 0..MaxSteps
<1>1. steps \in 0..MaxSteps /\ MaxSteps \in Nat
  BY TypeInvFacts, PageContentsAssumption DEF PageInv
<1> QED BY <1>1 DEF Step

(* Contents is set, and parsed.                                            *)
LEMMA SetContentsKeeps ==
  ASSUME PageInv, NEW entry \in [kind : Kinds, streams : Seq(Exists)],
         entry.kind = "stream" => Len(entry.streams) <= 1, SetContents(entry)
  PROVE  PageInv'
<1>1. TextKept /\ HoldWords(text', Exists)
  BY TextStays DEF SetContents
<1>2. PICK ss : ss = entry.streams
  OBVIOUS
<1>3. /\ ss \in Seq(Exists) /\ contents' = entry /\ ParseAgain(text', ss) /\ held' = held
      /\ contents'.streams = ss
      /\ contents'.kind = "stream" => Len(ss) <= 1
  BY <1>2 DEF SetContents
<1>4. steps' \in 0..MaxSteps
  BY StepType DEF SetContents
<1> QED BY <1>1, <1>3, <1>4, ParseKeeps DEF PageInv

(* The array that Contents is, is changed by somebody else.                *)
LEMMA EditArrayKeeps ==
  ASSUME PageInv, NEW ss \in Seq(Exists), EditArray(ss)
  PROVE  PageInv'
<1>1. TextKept /\ HoldWords(text', Exists)
  BY TextStays DEF EditArray
<1>2. steps' \in 0..MaxSteps
  BY StepType DEF EditArray
<1>3. PICK T : T = Exists
  OBVIOUS
<1>4. /\ contents \in [kind : Kinds, streams : Seq(T)] /\ contents.kind # "stream"
      /\ contents' = [contents EXCEPT !.streams = ss] /\ held' = held /\ text' = text
  BY <1>3, TypeInvFacts DEF PageInv, EditArray
<1>5. /\ contents' \in [kind : Kinds, streams : Seq(T)]
      /\ contents'.streams = ss /\ contents'.kind # "stream"
  BY <1>3, <1>4
<1>6. CASE contents.kind = "array"
  <2>1. ParseAgain(text', ss)
    BY <1>4, <1>6 DEF EditArray
  <2> QED BY <1>1, <1>2, <1>3, <1>4, <1>5, <2>1, ParseKeeps DEF PageInv
<1>7. CASE contents.kind # "array"
  <2>1. unseen' = (ccs # <<>>) /\ ccs' = ccs /\ css' = css /\ twice' = twice
    BY <1>7 DEF EditArray
  <2>2. Exists' = T
    BY <1>1, <1>3 DEF TextKept
  <2>3. /\ PageOver(PageAsIs, T) /\ held \in Nat /\ twice \in BOOLEAN
        /\ text \in [Streams -> Seq(Operators) \cup {NoStream}]
    BY <1>3 DEF PageInv, TypeInv
  <2>4. PageOver(PageAsIs, T)'
    BY <1>4, <2>1, <2>3 DEF PageOver, PageAsIs, Live
  <2>5. TypeInv'
    BY <1>2, <1>4, <1>5, <2>1, <2>2, <2>3, <2>4 DEF TypeInv
  <2>6. ContentsInv'
    <3>1. Flat(PageAsIs)' = Flat(PageAsIs)
      BY <2>1 DEF Flat, StreamsOf, PageAsIs
    <3> QED BY <2>1, <3>1 DEF PageInv, ContentsInv
  <2> QED BY <2>5, <2>6 DEF PageInv
<1> QED BY <1>6, <1>7

(* A client writes into a stream.                                          *)
LEMMA SetBufferKeeps ==
  ASSUME PageInv, NEW s \in Exists, NEW w \in Seq(Operators), SetBuffer(s, w)
  PROVE  PageInv' /\ TextKept /\ StreamsKept
<1>1. PICK T, t : T = Exists /\ t = [text EXCEPT ![s] = w]
  OBVIOUS
<1>2. /\ text \in [Streams -> Seq(Operators) \cup {NoStream}]
      /\ \A d \in DOMAIN css : StreamOver(css[d], T)
  BY <1>1, TypeInvFacts DEF PageInv
<1>3. text' = t /\ css' = Notified(t, {s}, 0) /\ PageKept
  BY <1>1 DEF SetBuffer
<1>4. s \in Streams /\ text[s] # NoStream
  BY DEF Exists
<1>5. t \in [Streams -> Seq(Operators) \cup {NoStream}]
  BY <1>1, <1>2
<1>6. Exists' = T
  <2>1. w # NoStream
    BY PageContentsAssumption
  <2>2. \A x \in Streams : t[x] # NoStream <=> text[x] # NoStream
    BY <1>1, <1>2, <1>4, <2>1
  <2> QED BY <1>1, <1>3, <2>2 DEF Exists, Streams
<1>7. TextKept
  BY <1>1, <1>3, <1>5, <1>6 DEF TextKept
<1>8. HoldWords(t, T)
  <2>1. T = {x \in Streams : t[x] # NoStream}
    BY <1>3, <1>6 DEF Exists, Streams
  <2> QED BY <1>5, <2>1 DEF HoldWords
<1>9. StreamsKept
  <2>1. /\ DOMAIN Notified(t, {s}, 0) = DOMAIN css
        /\ \A c \in DOMAIN css : /\ StreamOver(Notified(t, {s}, 0)[c], T)
                                 /\ Notified(t, {s}, 0)[c].streams = css[c].streams
    BY <1>2, <1>8, NotifiedOver
  <2> QED BY <1>1, <1>3, <2>1 DEF StreamsKept
<1>10. TypeInv'
  <2>1. steps' \in 0..MaxSteps
    BY StepType DEF SetBuffer
  <2> QED BY <1>3, <1>7, <1>9, <2>1, KeptIsType DEF PageInv
<1>11. ContentsInv'
  <2>1. Range(ccs) \subseteq DOMAIN css
    BY TypeInvFacts DEF PageInv, Live
  <2>2. \A c \in Range(ccs) : css'[c].streams = css[c].streams
    BY <1>9, <2>1 DEF StreamsKept
  <2> QED BY <1>3, <2>2, SameContents DEF PageKept
<1> QED BY <1>7, <1>9, <1>10, <1>11 DEF PageInv

(* What others do keeps the invariant.                                     *)
LEMMA OthersKeep ==
  ASSUME PageInv, Others
  PROVE  PageInv'
<1>1. PICK T : T = Exists
  OBVIOUS
<1>2. contents \in [kind : Kinds, streams : Seq(T)] /\ contents.streams \in Seq(T)
  BY <1>1, TypeInvFacts DEF PageInv
<1>3. ASSUME NEW k \in 1..Len(ccs), Hold(k) PROVE PageInv'
  BY <1>3, HoldKeeps
<1>4. ASSUME SetContents([kind |-> "none", streams |-> <<>>]) PROVE PageInv'
  <2>1. PICK entry : entry = [kind |-> "none", streams |-> <<>>]
    OBVIOUS
  <2>2. entry \in [kind : Kinds, streams : Seq(Exists)] /\ entry.kind # "stream"
    BY <2>1, EmptySeq DEF Kinds
  <2> QED BY <1>4, <2>1, <2>2, SetContentsKeeps
<1>5. ASSUME NEW s \in Exists, SetContents([kind |-> "stream", streams |-> <<s>>])
      PROVE  PageInv'
  <2>1. PICK entry : entry = [kind |-> "stream", streams |-> <<s>>]
    OBVIOUS
  <2>2. entry \in [kind : Kinds, streams : Seq(Exists)] /\ Len(entry.streams) <= 1
    <3>1. <<s>> \in Seq(Exists) /\ Len(<<s>>) = 1
      BY OneSeq
    <3> QED BY <2>1, <3>1 DEF Kinds
  <2> QED BY <1>5, <2>1, <2>2, SetContentsKeeps
<1>6. ASSUME NEW k \in 1..Len(contents.streams), EditArray(RemoveAt(contents.streams, k))
      PROVE  PageInv'
  <2>1. PICK ss, all : all = contents.streams /\ ss = RemoveAt(all, k)
    OBVIOUS
  <2>2. all \in Seq(T) /\ k \in 1..Len(all)
    BY <1>2, <2>1
  <2>3. ss \in Seq(T)
    BY <2>1, <2>2, RemoveAtKeeps
  <2> QED BY <1>1, <1>6, <2>1, <2>3, EditArrayKeeps
<1>7. ASSUME NEW s \in Exists, EditArray(Append(contents.streams, s)) PROVE PageInv'
  <2>1. PICK ss, all : all = contents.streams /\ ss = Append(all, s)
    OBVIOUS
  <2>2. all \in Seq(T)
    BY <1>2, <2>1
  <2>3. ss \in Seq(T)
    BY <1>1, <2>1, <2>2, AppendProperties
  <2> QED BY <1>1, <1>7, <2>1, <2>3, EditArrayKeeps
<1>8. ASSUME NEW s \in Exists, NEW w \in Buffers, SetBuffer(s, w) PROVE PageInv'
  <2>1. w \in Seq(Operators)
    BY PageContentsAssumption
  <2> QED BY <1>8, <2>1, SetBufferKeeps
<1> QED BY <1>3, <1>4, <1>5, <1>6, <1>7, <1>8 DEF Others

-----------------------------------------------------------------------------
(* Every step, from the document that is opened.                           *)

(* A document that is opened.                                              *)
LEMMA InitInv == Init => PageInv
<1> SUFFICES ASSUME Init PROVE PageInv
  OBVIOUS
<1>1. PICK pg \in Pages :
        /\ text = [s \in Streams |-> IF s <= Len(pg.words) THEN pg.words[s] ELSE NoStream]
        /\ contents = [kind |-> pg.kind, streams |-> [s \in 1..Len(pg.words) |-> s]]
        /\ ccs = <<>> /\ css = <<>> /\ held = 0
        /\ unseen = FALSE /\ twice = FALSE /\ steps = 0
  BY DEF Init
<1>2. PICK n, words, W : n = Len(pg.words) /\ words = pg.words /\ W = Seq(Operators)
  OBVIOUS
<1>3. /\ words \in Seq(W) /\ n <= MaxStreams /\ pg.kind \in Kinds
      /\ pg.kind = "stream" => n = 1
      /\ NoStream \notin W /\ MaxSteps \in Nat /\ MaxStreams \in Nat
  BY <1>2, PageContentsAssumption
<1>4. n \in Nat /\ \A s \in 1..n : words[s] \in W
  <2>1. n = Len(words)
    BY <1>2
  <2> QED BY <1>3, <2>1, LenProperties, ElementOfSeq
<1>5. text = [s \in Streams |-> IF s <= n THEN words[s] ELSE NoStream]
  BY <1>1, <1>2
<1>6. text \in [Streams -> W \cup {NoStream}]
  BY <1>4, <1>5 DEF Streams
<1>7. Exists = 1..n
  BY <1>3, <1>4, <1>5 DEF Exists, Streams
<1>8. PICK ss : ss = [s \in 1..n |-> s]
  OBVIOUS
<1>9. ss \in [1..n -> 1..n]
  BY <1>8
<1>10. ss \in Seq(1..n) /\ Len(ss) = n
  BY <1>4, <1>9, SeqIsFunction
<1>11. contents = [kind |-> pg.kind, streams |-> ss]
  BY <1>1, <1>2, <1>8
<1>12. /\ contents \in [kind : Kinds, streams : Seq(Exists)]
       /\ contents.kind = "stream" => Len(contents.streams) <= 1
  BY <1>3, <1>7, <1>10, <1>11
<1>13. PageOver(PageAsIs, Exists)
  <2>1. DOMAIN ccs = {} /\ DOMAIN css = {}
    BY <1>1
  <2>2. ccs \in Seq(Nat \ {0}) /\ IsInjective(ccs)
    BY <1>1, <2>1, EmptySeq DEF IsInjective
  <2>3. DOMAIN css = Live(ccs, held)
    BY <1>1, <2>1 DEF Live, Range
  <2> QED BY <2>1, <2>2, <2>3 DEF PageOver, PageAsIs
<1>14. TypeInv
  <2>1. text \in [Streams -> Seq(Operators) \cup {NoStream}]
    BY <1>2, <1>6
  <2>2. held \in Nat /\ unseen \in BOOLEAN /\ twice \in BOOLEAN /\ steps \in 0..MaxSteps
    <3>1. held = 0 /\ unseen = FALSE /\ twice = FALSE /\ steps = 0
      BY <1>1
    <3>2. MaxSteps \in Nat
      BY <1>3
    <3>3. held \in Nat /\ steps \in 0..MaxSteps
      BY <3>1, <3>2
    <3>4. unseen \in BOOLEAN /\ twice \in BOOLEAN
      BY <3>1, Zenon
    <3> QED BY <3>3, <3>4
  <2> QED BY <1>12, <1>13, <2>1, <2>2 DEF TypeInv
<1>15. ContentsInv
  BY <1>1 DEF ContentsInv
<1> QED BY <1>14, <1>15 DEF PageInv

(* getContentStreams parses what Contents names.                           *)
LEMMA GetKeeps ==
  ASSUME PageInv, GetContentStreams
  PROVE  PageInv'
<1>1. PICK ss : ss = contents.streams
  OBVIOUS
<1>2. /\ TypeInv /\ contents' = contents /\ held' = held /\ text' = text /\ steps' = steps
      /\ ParseAgain(text', ss)
  BY <1>1 DEF PageInv, GetContentStreams
<1>3. TextKept /\ HoldWords(text', Exists)
  BY <1>2, TextStays
<1>4. /\ contents' \in [kind : Kinds, streams : Seq(Exists)] /\ contents'.streams = ss
      /\ contents'.kind = "stream" => Len(ss) <= 1
      /\ ss \in Seq(Exists) /\ steps' \in 0..MaxSteps
  BY <1>1, <1>2, TypeInvFacts
<1> QED BY <1>2, <1>3, <1>4, ParseKeeps

(* Every step keeps the invariant.                                         *)
LEMMA NextKeeps == PageInv /\ [Next]_vars => PageInv'
<1> SUFFICES ASSUME PageInv, [Next]_vars PROVE PageInv'
  OBVIOUS
<1>0. /\ Initialised(PageAsIs) /\ Initialised(PageInit(text, contents.streams))
      /\ NewContents \subseteq Seq(Operators)
      /\ Len(ccs) \in Nat /\ Len(contents.streams) \in Nat
  <2>1. ccs \in Seq(Nat \ {0}) /\ contents.streams \in Seq(Exists)
    BY TypeInvFacts DEF PageInv
  <2> QED BY <2>1, PagesInitialised, PageContentsAssumption, LenProperties
<1>1. ASSUME EditContentStream PROVE PageInv'
  BY <1>1, EditKeepsInv
<1>2. ASSUME NEW w \in NewContents, NEW atFront \in BOOLEAN, AddTo(w, atFront) PROVE PageInv'
  <2>1. PICK page : page = PageAsIs
    OBVIOUS
  <2>2. /\ CanAdd /\ AddContentStream(NextStream, w, atFront, page) /\ Step
        /\ w \in Seq(Operators) /\ Initialised(page)
    BY <1>0, <1>2, <2>1 DEF AddTo
  <2>3. steps' \in 0..MaxSteps
    BY <2>2, StepType
  <2> QED BY <2>2, <2>3, AddKeeps
<1>3. ASSUME NEW w \in NewContents, AddText(w) PROVE PageInv'
  <2>1. PICK page : page = PageInit(text, contents.streams)
    OBVIOUS
  <2>2. /\ CanAdd /\ AddContentStream(NextStream, w, FALSE, page) /\ Step
        /\ w \in Seq(Operators) /\ Initialised(page)
    BY <1>0, <1>3, <2>1 DEF AddText
  <2>3. steps' \in 0..MaxSteps
    BY <2>2, StepType
  <2> QED BY <2>2, <2>3, AddKeeps
<1>4. ASSUME NEW k \in 1..(Len(ccs) + Len(contents.streams)), RemoveStream(k) PROVE PageInv'
  <2>1. PICK page : page = PageInit(text, contents.streams)
    OBVIOUS
  <2>2. /\ Initialised(page) /\ RemoveOf(page, k) /\ Step
        /\ unseen' = (unseen /\ ccs # <<>>) /\ twice' = TwiceInit
        /\ text' = text /\ held' = held
    BY <1>0, <1>4, <2>1 DEF RemoveStream
  <2>3. steps' \in 0..MaxSteps
    BY <2>2, StepType
  <2>4. k \in Nat \ {0}
    BY <1>0
  <2> QED BY <2>2, <2>3, <2>4, RemoveKeeps
<1>5. ASSUME NEW k \in 1..(Len(ccs) + Len(contents.streams)), MoveAbove(k) PROVE PageInv'
  <2>1. PICK page : page = PageInit(text, contents.streams)
    OBVIOUS
  <2>2. /\ Initialised(page) /\ MoveOf(page, k) /\ Step
        /\ unseen' = FALSE /\ twice' = TwiceInit
        /\ text' = text /\ held' = held
    BY <1>0, <1>5, <2>1 DEF MoveAbove
  <2>3. steps' \in 0..MaxSteps
    BY <2>2, StepType
  <2>4. k \in Nat \ {0}
    BY <1>0
  <2> QED BY <2>2, <2>3, <2>4, MoveKeeps
<1>6. ASSUME GetContentStreams PROVE PageInv'
  BY <1>6, GetKeeps
<1>7. ASSUME Others PROVE PageInv'
  BY <1>7, OthersKeep
<1>8. ASSUME UNCHANGED vars PROVE PageInv'
  <2>1. /\ text' = text /\ contents' = contents /\ ccs' = ccs /\ css' = css /\ held' = held
        /\ unseen' = unseen /\ twice' = twice /\ steps' = steps
    BY <1>8 DEF vars
  <2>2. Exists' = Exists
    BY <2>1 DEF Exists, Streams
  <2>3. PageOver(PageAsIs, Exists)'
    BY <2>1, <2>2 DEF PageInv, TypeInv, PageOver, PageAsIs, Live
  <2>4. TypeInv'
    BY <2>1, <2>2, <2>3 DEF PageInv, TypeInv
  <2>5. ContentsInv'
    BY <2>1, SameContents
  <2> QED BY <2>4, <2>5 DEF PageInv
<1> QED BY <1>1, <1>2, <1>3, <1>4, <1>5, <1>6, <1>7, <1>8 DEF Next

(* So it always holds.                                                     *)
LEMMA PageInvAlways == Spec => []PageInv
<1> QED BY InitInv, NextKeeps, PTL DEF Spec

-----------------------------------------------------------------------------
(* What the streams hold is what the operators spell.                      *)

(* The streams of a content stream hold what its operators spell, when     *)
(* they are as t.                                                          *)
Agrees(c, t) ==
    ~c.dirty /\ IsInjective(c.streams) =>
        Spelled(c) \in {Joined(t, c.streams), Kept(Joined(t, c.streams))}

(* So it is of all of them.                                                *)
AllAgree(cs, t) == \A c \in DOMAIN cs : Agrees(cs[c], t)

(* The same operators in the same tree spell the same.                     *)
LEMMA SpelledSame ==
  ASSUME NEW c, NEW d, c.kids = d.kids, c.op = d.op
  PROVE  Spelled(c) = Spelled(d)
BY DEF Spelled, WordOf, AllOf, Preorder

(* What is read agrees.                                                    *)
LEMMA ReadAgrees ==
  ASSUME NEW T, NEW t, HoldWords(t, T), NEW ss \in Seq(T)
  PROVE  Agrees(ContentStreamOf(t, ss), t)
<1>1. PICK w : w = Joined(t, ss)
  OBVIOUS
<1>2. w \in Seq(Operators)
  BY <1>1, JoinedType
<1>3. Spelled(Parsed(w)) = Kept(w)
  BY <1>2, ParsedSpelled
<1>4. PICK c, tree : c = ContentStreamOf(t, ss) /\ tree = Parsed(w)
  OBVIOUS
<1>5. c.kids = tree.kids /\ c.op = tree.op /\ c.streams = ss
  BY <1>1, <1>4 DEF ContentStreamOf, Record
<1>6. Spelled(c) = Kept(Joined(t, c.streams))
  BY <1>1, <1>3, <1>4, <1>5, SpelledSame
<1> QED BY <1>4, <1>6 DEF Agrees

(* Streams that hold the same hold the same one after the other.           *)
LEMMA JoinedSame ==
  ASSUME NEW T, NEW ss \in Seq(T), NEW t, NEW u, \A s \in Range(ss) : t[s] = u[s]
  PROVE  Joined(t, ss) = Joined(u, ss)
<1>1. DOMAIN ss = 1..Len(ss)
  BY LenProperties
<1>2. \A k \in 1..Len(ss) : ss[k] \in Range(ss)
  BY <1>1 DEF Range
<1>3. [k \in 1..Len(ss) |-> t[ss[k]]] = [k \in 1..Len(ss) |-> u[ss[k]]]
  BY <1>2
<1> QED BY <1>3 DEF Joined

(* A content stream whose streams hold what they held agrees as before.    *)
LEMMA AgreesSame ==
  ASSUME NEW T, NEW c, c.streams \in Seq(T), NEW t, Agrees(c, t),
         NEW u, \A s \in Range(c.streams) : t[s] = u[s]
  PROVE  Agrees(c, u)
<1>1. PICK ss : ss = c.streams
  OBVIOUS
<1>2. Joined(t, ss) = Joined(u, ss)
  BY <1>1, JoinedSame
<1> QED BY <1>1, <1>2 DEF Agrees

(* A page that is parsed agrees.                                           *)
LEMMA ParsedAgree ==
  ASSUME NEW T, NEW t, HoldWords(t, T), held \in Nat,
         held # 0 => StreamOver(css[held], T) /\ Agrees(css[held], t), NEW ss \in Seq(T)
  PROVE  AllAgree(PageParsed(t, ss).css, t)
<1>1. PICK groups : groups = Groups(t, ss)
  OBVIOUS
<1>2. groups \in Seq(Seq(T) \ {<<>>})
  BY <1>1, GroupsParts DEF HoldWords
<1>3. PICK page, n : page = PageGrouped(t, groups) /\ n = Len(groups)
  OBVIOUS
<1>4. /\ PageOver(page, T) /\ page.ccs = NewIds(n)
      /\ \A k \in 1..n : page.css[page.ccs[k]] = ContentStreamOf(t, groups[k])
  <2>1. held # 0 => StreamOver(css[held], T)
    OBVIOUS
  <2>2. GroupedAs(page, t, groups, T)
    BY <1>2, <1>3, <2>1, PageGroupedOver
  <2> QED BY <1>3, <2>2 DEF GroupedAs
<1>5. n \in Nat /\ DOMAIN page.ccs = 1..n
  <2>1. n \in Nat
    BY <1>2, <1>3, LenProperties
  <2>2. page.ccs = [k \in 1..n |-> IF held = 0 \/ k < held THEN k ELSE k + 1]
    BY <1>4 DEF NewIds
  <2> QED BY <2>1, <2>2
<1>6. ASSUME NEW c \in DOMAIN page.css PROVE Agrees(page.css[c], t)
  <2>1. c \in Range(page.ccs) \/ (c = held /\ held # 0)
    BY <1>4 DEF PageOver, Live
  <2>2. CASE c \in Range(page.ccs)
    <3>1. PICK k \in 1..n : c = page.ccs[k]
      BY <1>5, <2>2 DEF Range
    <3>2. PICK g : g = groups[k]
      OBVIOUS
    <3>3. g \in Seq(T)
      BY <1>2, <1>3, <3>2, ElementOfSeq
    <3>4. page.css[c] = ContentStreamOf(t, g)
      BY <1>4, <3>1, <3>2
    <3> QED BY <3>3, <3>4, ReadAgrees
  <2>3. CASE c = held /\ held # 0
    <3>1. page.css[c] = css[held]
      BY <1>3, <2>3 DEF PageGrouped, PageOf
    <3> QED BY <2>3, <3>1
  <2> QED BY <2>1, <2>2, <2>3
<1>7. PageParsed(t, ss) = page
  BY <1>1, <1>3 DEF PageParsed
<1> QED BY <1>6, <1>7 DEF AllAgree

(* Streams change, and all content streams but one are told.               *)
LEMMA NotifiedAgree ==
  ASSUME NEW T, NEW t, HoldWords(t, T), NEW changed, NEW but, AllAgree(css, text),
         \A c \in DOMAIN css : StreamOver(css[c], T),
         \A s \in T \ changed : t[s] = text[s]
  PROVE  \A c \in DOMAIN css : c # but => Agrees(Notified(t, changed, but)[c], t)
<1>1. PICK f : f = Notified(t, changed, but)
  OBVIOUS
<1>2. f = [c \in DOMAIN css |->
             IF c # but /\ Range(css[c].streams) \cap changed # {}
             THEN ContentStreamOf(t, css[c].streams) ELSE css[c]]
  BY <1>1 DEF Notified
<1>3. ASSUME NEW c \in DOMAIN css, c # but PROVE Agrees(f[c], t)
  <2>1. PICK ss : ss = css[c].streams
    OBVIOUS
  <2>2. ss \in Seq(T)
    BY <2>1, WholeParts
  <2>3. CASE Range(ss) \cap changed # {}
    <3>1. f[c] = ContentStreamOf(t, ss)
      BY <1>2, <1>3, <2>1, <2>3
    <3> QED BY <2>2, <3>1, ReadAgrees
  <2>4. CASE Range(ss) \cap changed = {}
    <3>1. f[c] = css[c]
      BY <1>2, <2>1, <2>4
    <3>2. Range(ss) \subseteq T
      <4>1. DOMAIN ss = 1..Len(ss)
        BY <2>2, LenProperties
      <4>2. \A k \in 1..Len(ss) : ss[k] \in T
        BY <2>2, ElementOfSeq
      <4> QED BY <4>1, <4>2 DEF Range
    <3>3. \A s \in Range(ss) : text[s] = t[s]
      BY <2>4, <3>2
    <3>4. PICK d : d = css[c]
      OBVIOUS
    <3>5. d.streams \in Seq(T) /\ Agrees(d, text) /\ \A s \in Range(d.streams) : text[s] = t[s]
      BY <2>1, <2>2, <3>3, <3>4 DEF AllAgree
    <3>6. Agrees(d, t)
      BY <3>5, AgreesSame
    <3> QED BY <3>1, <3>4, <3>6
  <2> QED BY <2>3, <2>4
<1> QED BY <1>1, <1>3

(* What is written to streams that are all different is what they hold.    *)
LEMMA WrittenJoined ==
  ASSUME NEW ss \in Seq(Streams), ss # <<>>, IsInjective(ss), NEW w \in Seq(Operators)
  PROVE  Joined(Written(ss, w), ss) = w
<1>1. PICK n \in Nat : n = Len(ss)
  BY LenProperties
<1>2. n # 0 /\ DOMAIN ss = 1..n /\ \A k \in 1..n : ss[k] \in Streams /\ ss[k] \in Range(ss)
  BY <1>1, EmptySeq, LenProperties, ElementOfSeq DEF Range
<1>3. \A j \in 1..n : \A k \in 1..n : ss[j] = ss[k] => j = k
  BY <1>2 DEF IsInjective
<1>4. PICK t : t = Written(ss, w)
  OBVIOUS
<1>5. \A k \in 1..n : t[ss[k]] = IF \A j \in 2..n : ss[j] # ss[k] THEN w ELSE <<>>
  BY <1>1, <1>2, <1>4 DEF Written
<1>6. t[ss[1]] = w
  <2>1. 1 \in 1..n /\ \A j \in 2..n : j \in 1..n /\ j # 1
    BY <1>2
  <2>2. \A j \in 2..n : ss[j] # ss[1]
    BY <1>3, <2>1
  <2> QED BY <1>5, <2>1, <2>2
<1>7. \A k \in 2..n : t[ss[k]] = <<>>
  <2>1. \A k \in 2..n : k \in 1..n
    OBVIOUS
  <2> QED BY <1>5, <2>1
<1>8. PICK words : words = [k \in 1..n |-> t[ss[k]]]
  OBVIOUS
<1>9. words \in [1..n -> Seq(Operators)]
  <2>1. <<>> \in Seq(Operators)
    BY EmptySeq
  <2>2. \A k \in 1..n : t[ss[k]] \in Seq(Operators)
    BY <1>5, <2>1
  <2> QED BY <1>8, <2>2
<1>10. words \in Seq(Seq(Operators)) /\ Len(words) = n
  BY <1>9, SeqIsFunction
<1>11. words[1] = w /\ \A k \in 2..n : words[k] = <<>>
  <2>1. 1 \in 1..n /\ \A k \in 2..n : k \in 1..n
    BY <1>2
  <2> QED BY <1>6, <1>7, <1>8, <2>1
<1>12. n \in Nat \ {0}
  BY <1>2
<1>13. FlattenSeq(words) = w
  BY <1>10, <1>11, <1>12, FlattenFirst
<1>14. Joined(t, ss) = FlattenSeq(words)
  BY <1>1, <1>8 DEF Joined
<1> QED BY <1>4, <1>13, <1>14

(* Noting that an edit is written, or not, changes no operators.           *)
LEMMA DirtySpells ==
  ASSUME NEW T, NEW c, StreamOver(c, T), NEW b \in BOOLEAN
  PROVE  /\ Spelled([c EXCEPT !.dirty = b]) = Spelled(c)
         /\ [c EXCEPT !.dirty = b].dirty = b
         /\ [c EXCEPT !.dirty = b].streams = c.streams
<1>1. PICK n \in Nat : Sound(c, T, n)
  BY WholeParts
<1>2. PICK d : d = [c EXCEPT !.dirty = b]
  OBVIOUS
<1>3. d.kids = c.kids /\ d.op = c.op /\ d.dirty = b /\ d.streams = c.streams
  BY <1>1, <1>2 DEF ContentStreams, Sound
<1> QED BY <1>2, <1>3, SpelledSame

(* The streams that are there hold words after a step, too.                *)
LEMMA TextKeptHolds ==
  ASSUME TextKept
  PROVE  HoldWords(text', Exists)
<1>1. Exists = {s \in Streams : text'[s] # NoStream}
  BY DEF TextKept, Exists, Streams
<1> QED BY <1>1 DEF TextKept, HoldWords

(* An edit that is written is what the streams hold, and is no news to     *)
(* nobody: the others that share a stream read it.                         *)
LEMMA ChangedAgrees ==
  ASSUME TypeInv, AllAgree(css, text), NEW c, NEW now, NEW b, EditMade(c, now, b), TextKept
  PROVE  AllAgree(css', text')
<1>1. PICK T : T = Exists
  OBVIOUS
<1>2. /\ c \in DOMAIN css /\ b \in BOOLEAN /\ StreamOver(now, T)
      /\ now.streams = css[c].streams /\ Changed(c, now, b)
      /\ \A d \in DOMAIN css : StreamOver(css[d], T)
  BY <1>1, TypeInvFacts DEF EditMade
<1>3. CASE b = FALSE
  <2>1. css' = [css EXCEPT ![c] = [now EXCEPT !.dirty = TRUE]] /\ text' = text
    BY <1>2, <1>3 DEF Changed
  <2>2. PICK e : e = [now EXCEPT !.dirty = TRUE]
    OBVIOUS
  <2>3. e.dirty = TRUE
    BY <1>2, <2>2, DirtySpells
  <2>4. Agrees(e, text)
    BY <2>3 DEF Agrees
  <2>5. DOMAIN css' = DOMAIN css /\ \A d \in DOMAIN css : css'[d] = IF d = c THEN e ELSE css[d]
    BY <2>1, <2>2
  <2> QED BY <2>1, <2>4, <2>5 DEF AllAgree
<1>4. CASE b = TRUE
  <2>1. PICK t, w, ss : t = Written(ss, w) /\ w = Spelled(now) /\ ss = now.streams
    OBVIOUS
  <2>2. text' = t /\ css' = [Notified(t, Range(ss), c) EXCEPT ![c] = [now EXCEPT !.dirty = FALSE]]
    BY <1>2, <1>4, <2>1 DEF Changed, WrittenAs
  <2>3. PICK n \in Nat : Sound(now, T, n) /\ now.streams # <<>>
    BY <1>2, WholeParts
  <2>4. w \in Seq(Operators) /\ ss \in Seq(T) /\ ss # <<>>
    BY <2>1, <2>3, SoundParts, SpelledType
  <2>5. T \subseteq Streams
    BY <1>1 DEF Exists
  <2>6. HoldWords(t, T)
    BY <1>1, <2>2, TextKeptHolds
  <2>7. \A s \in T \ Range(ss) : t[s] = text[s]
    BY <2>1, <2>5 DEF Written
  <2>8. PICK f, e : f = Notified(t, Range(ss), c) /\ e = [now EXCEPT !.dirty = FALSE]
    OBVIOUS
  <2>9. /\ DOMAIN f = DOMAIN css
        /\ \A d \in DOMAIN css : d # c => Agrees(f[d], t)
    <3>1. DOMAIN f = DOMAIN css
      BY <2>8 DEF Notified
    <3>2. \A d \in DOMAIN css : d # c => Agrees(f[d], t)
      BY <1>2, <2>6, <2>7, <2>8, NotifiedAgree
    <3> QED BY <3>1, <3>2
  <2>10. Agrees(e, t)
    <3>1. Spelled(e) = w /\ e.streams = ss
      BY <1>2, <2>1, <2>8, DirtySpells
    <3>2. ss \in Seq(Streams)
      BY <2>4, <2>5, SeqMonotonic
    <3>3. IsInjective(ss) => Joined(t, ss) = w
      BY <2>1, <2>4, <3>2, WrittenJoined
    <3> QED BY <3>1, <3>3 DEF Agrees
  <2>11. DOMAIN css' = DOMAIN css /\ \A d \in DOMAIN css : css'[d] = IF d = c THEN e ELSE f[d]
    BY <1>2, <2>2, <2>8, <2>9
  <2> QED BY <2>2, <2>9, <2>10, <2>11 DEF AllAgree
<1> QED BY <1>2, <1>3, <1>4

(* The content streams of a page agree, and those of one that is kept.     *)
LEMMA HeldAgrees ==
  ASSUME TypeInv, AllAgree(css, text)
  PROVE  held # 0 => StreamOver(css[held], Exists) /\ Agrees(css[held], text)
<1>1. held # 0 => held \in DOMAIN css
  BY TypeInvFacts DEF Live
<1> QED BY <1>1, TypeInvFacts DEF AllAgree

(* A page after init agrees.                                               *)
LEMMA InitAgrees ==
  ASSUME TypeInv, AllAgree(css, text)
  PROVE  /\ AllAgree(PageAsIs.css, text)
         /\ AllAgree(PageInit(text, contents.streams).css, text)
<1>1. AllAgree(PageAsIs.css, text)
  BY DEF PageAsIs
<1>2. PICK T, ss : T = Exists /\ ss = contents.streams
  OBVIOUS
<1>3. /\ HoldWords(text, T) /\ held \in Nat /\ ss \in Seq(T)
      /\ held # 0 => StreamOver(css[held], T) /\ Agrees(css[held], text)
  BY <1>2, TypeInvFacts, HeldAgrees
<1>4. AllAgree(PageParsed(text, ss).css, text)
  BY <1>3, ParsedAgree
<1> QED BY <1>1, <1>2, <1>4 DEF PageInit

(* A parse of streams that hold what they held.                            *)
LEMMA ParseAgrees ==
  ASSUME TypeInv, AllAgree(css, text), NEW ss \in Seq(Exists),
         ParseAgain(text, ss), text' = text
  PROVE  AllAgree(css', text')
<1>1. PICK T : T = Exists
  OBVIOUS
<1>2. /\ HoldWords(text, T) /\ held \in Nat /\ ss \in Seq(T)
      /\ held # 0 => StreamOver(css[held], T) /\ Agrees(css[held], text)
  BY <1>1, TypeInvFacts, HeldAgrees
<1>3. AllAgree(PageParsed(text, ss).css, text)
  BY <1>2, ParsedAgree
<1> QED BY <1>3 DEF ParseAgain, BecomesPage

(* A stream is added that no content stream has.                           *)
LEMMA AddAgrees ==
  ASSUME TypeInv, AllAgree(css, text), CanAdd, NEW w \in Seq(Operators), NEW atFront \in BOOLEAN,
         NEW page, PageOver(page, Exists), AllAgree(page.css, text),
         AddContentStream(NextStream, w, atFront, page)
  PROVE  AllAgree(css', text')
<1>1. PICK s, T, U : s = NextStream /\ T = Exists /\ U = T \cup {s}
  OBVIOUS
<1>2. /\ text \in [Streams -> Seq(Operators) \cup {NoStream}]
      /\ contents.streams \in Seq(T) /\ HoldWords(text, T) /\ held \in Nat
      /\ held # 0 => StreamOver(css[held], T) /\ Agrees(css[held], text)
  BY <1>1, TypeInvFacts, HeldAgrees
<1>3. s \in Streams /\ text[s] = NoStream /\ s \notin T
  BY <1>1, <1>2, NextStreamType DEF Exists
<1>4. PICK t, now : t = [text EXCEPT ![s] = <<ChangeTag>> \o w] /\ now = ContentsWith(s, atFront)
  OBVIOUS
<1>5. AddStream(s, t, atFront, now, page)
  BY <1>1, <1>4 DEF AddContentStream
<1>6. <<ChangeTag>> \o w \in Seq(Operators)
  <2>1. <<ChangeTag>> \in Seq(Operators)
    BY OneSeq DEF Operators
  <2> QED BY <2>1, ConcatProperties
<1>7. t[s] \in Seq(Operators) /\ \A x \in T : t[x] = text[x]
  BY <1>1, <1>2, <1>3, <1>4, <1>6 DEF Exists
<1>8. HoldWords(t, U)
  BY <1>1, <1>2, <1>7 DEF HoldWords
<1>9. T \subseteq U /\ s \in U
  BY <1>1
<1>10. ASSUME NEW c, StreamOver(c, T), Agrees(c, text) PROVE Agrees(c, t)
  <2>1. c.streams \in Seq(T)
    BY <1>10, WholeParts
  <2>2. \A x \in Range(c.streams) : text[x] = t[x]
    <3>1. DOMAIN c.streams = 1..Len(c.streams) /\ \A k \in 1..Len(c.streams) : c.streams[k] \in T
      BY <2>1, LenProperties, ElementOfSeq
    <3> QED BY <1>7, <3>1 DEF Range
  <2> QED BY <1>10, <2>1, <2>2, AgreesSame
<1>11. PICK flat, ss : flat = contents.streams /\ ss = now.streams
  OBVIOUS
<1>12. ss \in Seq(U)
  <2>1. flat \in Seq(U)
    BY <1>2, <1>9, <1>11, SeqMonotonic
  <2>2. <<s>> \o flat \in Seq(U)
    <3>1. <<s>> \in Seq(U)
      BY <1>9, OneSeq
    <3> QED BY <2>1, <3>1, ConcatProperties
  <2>3. Append(flat, s) \in Seq(U)
    BY <1>9, <2>1, AppendProperties
  <2>4. ss = IF atFront THEN <<s>> \o flat ELSE Append(flat, s)
    BY <1>4, <1>11 DEF ContentsWith
  <2> QED BY <2>2, <2>3, <2>4
<1>13. PICK page2 : page2 = IF page.ccs = <<>> THEN PageParsed(t, ss) ELSE page
  OBVIOUS
<1>14. AllAgree(page2.css, t)
  <2>1. CASE page.ccs = <<>>
    <3>1. \A c : StreamOver(c, T) => StreamOver(c, U)
      BY <1>9, SoundMore
    <3>2. held # 0 => StreamOver(css[held], U) /\ Agrees(css[held], t)
      BY <1>2, <1>10, <3>1
    <3>3. AllAgree(PageParsed(t, ss).css, t)
      BY <1>2, <1>8, <1>12, <3>2, ParsedAgree
    <3> QED BY <1>13, <2>1, <3>3
  <2>2. CASE page.ccs # <<>>
    <3>1. \A c \in DOMAIN page.css : StreamOver(page.css[c], T) /\ Agrees(page.css[c], text)
      BY <1>1 DEF PageOver, AllAgree
    <3>2. \A c \in DOMAIN page.css : Agrees(page.css[c], t)
      BY <1>10, <3>1
    <3> QED BY <1>13, <2>2, <3>2 DEF AllAgree
  <2> QED BY <2>1, <2>2
<1>15. PICK id, one : id = FreshId(DOMAIN page2.css) /\ one = <<s>>
  OBVIOUS
<1>16. /\ text' = t
       /\ css' = [c \in DOMAIN page2.css \cup {id} |->
                    IF c = id THEN ContentStreamOf(t, one) ELSE page2.css[c]]
  BY <1>5, <1>11, <1>13, <1>15 DEF AddStream, PutInto, Put
<1>17. Agrees(ContentStreamOf(t, one), t)
  <2>1. one \in Seq(U)
    BY <1>9, <1>15, OneSeq
  <2> QED BY <1>8, <2>1, ReadAgrees
<1> QED BY <1>14, <1>16, <1>17 DEF AllAgree

(* A client writes into a stream: all that have it are told.               *)
LEMMA SetBufferAgrees ==
  ASSUME PageInv, AllAgree(css, text), NEW s \in Exists, NEW w \in Seq(Operators), SetBuffer(s, w)
  PROVE  AllAgree(css', text')
<1>1. PICK T, t : T = Exists /\ t = [text EXCEPT ![s] = w]
  OBVIOUS
<1>2. /\ text \in [Streams -> Seq(Operators) \cup {NoStream}]
      /\ held \in Nat /\ ccs \in Seq(Nat \ {0})
      /\ DOMAIN css = Live(ccs, held)
      /\ \A d \in DOMAIN css : StreamOver(css[d], T)
  BY <1>1, TypeInvFacts DEF PageInv
<1>3. text' = t /\ css' = Notified(t, {s}, 0)
  BY <1>1 DEF SetBuffer
<1>4. HoldWords(t, T)
  <2>1. TextKept
    BY SetBufferKeeps
  <2> QED BY <1>1, <1>3, <2>1, TextKeptHolds
<1>5. \A x \in T \ {s} : t[x] = text[x]
  BY <1>1, <1>2 DEF Exists
<1>6. \A c \in DOMAIN css : c # 0
  <2>1. DOMAIN ccs = 1..Len(ccs) /\ \A k \in 1..Len(ccs) : ccs[k] \in Nat \ {0}
    BY <1>2, LenProperties, ElementOfSeq
  <2>2. \A c \in Range(ccs) : c # 0
    BY <2>1 DEF Range
  <2> QED BY <1>2, <2>2 DEF Live
<1>7. PICK f, S : f = Notified(t, S, 0) /\ S = {s}
  OBVIOUS
<1>8. DOMAIN f = DOMAIN css
  BY <1>7 DEF Notified
<1>9. \A c \in DOMAIN css : c # 0 => Agrees(f[c], t)
  BY <1>2, <1>4, <1>5, <1>7, NotifiedAgree
<1> QED BY <1>3, <1>6, <1>7, <1>8, <1>9 DEF AllAgree

(* The invariant, with what the streams hold.                              *)
HoldInv == PageInv /\ AllAgree(css, text)

(* Content streams are removed, moved or forgotten: the others stay.       *)
LEMMA FewerAgree ==
  ASSUME NEW few, NEW cs, AllAgree(cs, text), few \subseteq DOMAIN cs,
         css' = [c \in few |-> cs[c]], text' = text
  PROVE  AllAgree(css', text')
BY DEF AllAgree

(* What others do.                                                         *)
LEMMA OthersAgree ==
  ASSUME HoldInv, Others
  PROVE  AllAgree(css', text')
<1>1. PICK T : T = Exists
  OBVIOUS
<1>2. /\ TypeInv /\ PageInv /\ AllAgree(css, text)
      /\ contents.streams \in Seq(T) /\ DOMAIN css = Live(ccs, held)
  BY <1>1, TypeInvFacts DEF HoldInv, PageInv
<1>3. ASSUME NEW k \in 1..Len(ccs), Hold(k) PROVE AllAgree(css', text')
  <2>1. PICK few : few = Range(ccs)
    OBVIOUS
  <2>2. few \subseteq DOMAIN css /\ css' = [c \in few |-> css[c]] /\ text' = text
    BY <1>2, <1>3, <2>1 DEF Hold, Live
  <2> QED BY <1>2, <2>2, FewerAgree
<1>4. ASSUME NEW entry, NEW ss \in Seq(T), ss = entry.streams, SetContents(entry)
      PROVE  AllAgree(css', text')
  <2>1. ParseAgain(text, ss) /\ text' = text
    BY <1>4 DEF SetContents
  <2> QED BY <1>1, <1>2, <2>1, ParseAgrees
<1>5. ASSUME NEW ss \in Seq(T), EditArray(ss) PROVE AllAgree(css', text')
  <2>1. text' = text
    BY <1>5 DEF EditArray
  <2>2. CASE contents.kind = "array"
    <3>1. ParseAgain(text, ss)
      BY <1>5, <2>2 DEF EditArray
    <3> QED BY <1>1, <1>2, <2>1, <3>1, ParseAgrees
  <2>3. CASE contents.kind # "array"
    <3>1. css' = css
      BY <1>5, <2>3 DEF EditArray
    <3> QED BY <1>2, <2>1, <3>1
  <2> QED BY <2>2, <2>3
<1>6. ASSUME SetContents([kind |-> "none", streams |-> <<>>]) PROVE AllAgree(css', text')
  <2>1. PICK entry, ss : entry = [kind |-> "none", streams |-> <<>>] /\ ss = <<>>
    OBVIOUS
  <2>2. ss \in Seq(T) /\ ss = entry.streams /\ SetContents(entry)
    BY <1>6, <2>1, EmptySeq
  <2> QED BY <1>4, <2>2
<1>7. ASSUME NEW s \in Exists, SetContents([kind |-> "stream", streams |-> <<s>>])
      PROVE  AllAgree(css', text')
  <2>1. PICK entry, ss : entry = [kind |-> "stream", streams |-> <<s>>] /\ ss = <<s>>
    OBVIOUS
  <2>2. ss \in Seq(T)
    BY <1>1, <2>1, OneSeq
  <2>3. ss = entry.streams /\ SetContents(entry)
    BY <1>7, <2>1
  <2> QED BY <1>4, <2>2, <2>3
<1>8. ASSUME NEW k \in 1..Len(contents.streams), EditArray(RemoveAt(contents.streams, k))
      PROVE  AllAgree(css', text')
  <2>1. PICK ss, all : all = contents.streams /\ ss = RemoveAt(all, k)
    OBVIOUS
  <2>2. all \in Seq(T) /\ k \in 1..Len(all)
    BY <1>2, <2>1
  <2>3. ss \in Seq(T)
    BY <2>1, <2>2, RemoveAtKeeps
  <2> QED BY <1>5, <1>8, <2>1, <2>3
<1>9. ASSUME NEW s \in Exists, EditArray(Append(contents.streams, s)) PROVE AllAgree(css', text')
  <2>1. PICK ss, all : all = contents.streams /\ ss = Append(all, s)
    OBVIOUS
  <2>2. all \in Seq(T)
    BY <1>2, <2>1
  <2>3. ss \in Seq(T)
    BY <1>1, <2>1, <2>2, AppendProperties
  <2> QED BY <1>5, <1>9, <2>1, <2>3
<1>10. ASSUME NEW s \in Exists, NEW w \in Buffers, SetBuffer(s, w) PROVE AllAgree(css', text')
  <2>1. w \in Seq(Operators)
    BY PageContentsAssumption
  <2> QED BY <1>2, <1>10, <2>1, SetBufferAgrees
<1> QED BY <1>3, <1>6, <1>7, <1>8, <1>9, <1>10 DEF Others

(* Every step keeps it.                                                    *)
LEMMA NextHolds == HoldInv /\ [Next]_vars => HoldInv'
<1> SUFFICES ASSUME HoldInv, [Next]_vars PROVE HoldInv'
  OBVIOUS
<1>1. PageInv'
  BY NextKeeps DEF HoldInv
<1>2. TypeInv /\ PageInv /\ AllAgree(css, text)
  BY DEF HoldInv, PageInv
<1>3. PICK page : page = PageInit(text, contents.streams)
  OBVIOUS
<1>4. /\ PageOver(PageAsIs, Exists) /\ PageOver(page, Exists)
      /\ AllAgree(PageAsIs.css, text) /\ AllAgree(page.css, text)
  BY <1>2, <1>3, PagesInitialised, InitAgrees DEF Initialised
<1>5. NewContents \subseteq Seq(Operators) /\ FALSE \in BOOLEAN
  BY PageContentsAssumption
<1>6. ASSUME EditContentStream PROVE AllAgree(css', text')
  <2>1. SomeEdit /\ TextKept
    BY <1>2, <1>6, EditIsMade, EditKeeps
  <2>2. PICK c, now, b : EditMade(c, now, b)
    BY <2>1 DEF SomeEdit
  <2> QED BY <1>2, <2>1, <2>2, ChangedAgrees
<1>7. ASSUME NEW w \in NewContents, NEW atFront \in BOOLEAN, AddTo(w, atFront)
      PROVE  AllAgree(css', text')
  <2>1. PICK p : p = PageAsIs
    OBVIOUS
  <2>2. /\ CanAdd /\ AddContentStream(NextStream, w, atFront, p)
        /\ w \in Seq(Operators) /\ PageOver(p, Exists) /\ AllAgree(p.css, text)
    BY <1>4, <1>5, <1>7, <2>1 DEF AddTo
  <2> QED BY <1>2, <2>2, AddAgrees
<1>8. ASSUME NEW w \in NewContents, AddText(w) PROVE AllAgree(css', text')
  <2>1. /\ CanAdd /\ AddContentStream(NextStream, w, FALSE, page) /\ w \in Seq(Operators)
    BY <1>3, <1>5, <1>8 DEF AddText
  <2> QED BY <1>2, <1>4, <1>5, <2>1, AddAgrees
<1>9. ASSUME NEW k \in 1..(Len(ccs) + Len(contents.streams)), RemoveStream(k)
      PROVE  AllAgree(css', text')
  <2>1. RemoveOf(page, k) /\ text' = text
    BY <1>3, <1>9 DEF RemoveStream
  <2>2. PICK ids, R, left : ids = page.ccs /\ R = Range(ids) /\ left = RemoveAt(ids, k)
    OBVIOUS
  <2>3. k <= Len(ids) /\ css' = [c \in Live(left, held) |-> page.css[c]]
    BY <2>1, <2>2 DEF RemoveOf, RemoveFrom
  <2>4. ids \in Seq(Nat \ {0}) /\ DOMAIN page.css = Live(ids, held)
    BY <1>4, <2>2 DEF PageOver
  <2>5. k \in 1..Len(ids)
    <3>1. ccs \in Seq(Nat \ {0}) /\ contents.streams \in Seq(Exists)
      BY <1>2, TypeInvFacts
    <3>2. PICK m, n \in Nat : m = Len(ccs) /\ n = Len(contents.streams)
      BY <3>1, LenProperties
    <3> QED BY <2>3, <2>4, <3>2, LenProperties
  <2>6. Range(left) \subseteq R
    BY <2>2, <2>4, <2>5, RemoveAtKeeps
  <2>8. PICK few : few = Live(left, held)
    OBVIOUS
  <2>9. few \subseteq DOMAIN page.css /\ css' = [c \in few |-> page.css[c]]
    BY <2>2, <2>3, <2>4, <2>6, <2>8 DEF Live
  <2> QED BY <1>4, <2>1, <2>9, FewerAgree
<1>10. ASSUME NEW k \in 1..(Len(ccs) + Len(contents.streams)), MoveAbove(k)
       PROVE  AllAgree(css', text')
  <2>1. css' = page.css /\ text' = text
    BY <1>3, <1>10 DEF MoveAbove, MoveOf, SetPage
  <2> QED BY <1>4, <2>1, SMTT(60)
<1>11. ASSUME GetContentStreams PROVE AllAgree(css', text')
  <2>1. PICK ss : ss = contents.streams
    OBVIOUS
  <2>2. ParseAgain(text, ss) /\ text' = text
    BY <1>11, <2>1 DEF GetContentStreams
  <2>3. ss \in Seq(Exists)
    BY <1>2, <2>1, TypeInvFacts
  <2> QED BY <1>2, <2>2, <2>3, ParseAgrees
<1>12. ASSUME Others PROVE AllAgree(css', text')
  BY <1>12, OthersAgree
<1>13. ASSUME UNCHANGED vars PROVE AllAgree(css', text')
  <2>1. text' = text /\ css' = css
    BY <1>13 DEF vars
  <2> QED BY <1>2, <2>1
<1>14. AllAgree(css', text')
  BY <1>6, <1>7, <1>8, <1>9, <1>10, <1>11, <1>12, <1>13 DEF Next
<1> QED BY <1>1, <1>14 DEF HoldInv

(* A document that is opened has no content streams.                       *)
LEMMA InitHolds == Init => HoldInv
<1> SUFFICES ASSUME Init PROVE HoldInv
  OBVIOUS
<1>1. css = <<>>
  BY DEF Init
<1>2. AllAgree(css, text)
  BY <1>1 DEF AllAgree
<1> QED BY <1>2, InitInv DEF HoldInv


-----------------------------------------------------------------------------
(* The theorems.                                                           *)

(* Every content stream of a page has a stream that is there, its          *)
(* operators hang in a tree of its own operators, and its links lead to    *)
(* operators of it, whatever is parsed, edited, added, removed or moved    *)
(* (CPageContents and CContentStream).                                     *)
THEOREM TypeCorrect == Spec => []PageContentsTypeOK
<1>1. PageInv => PageContentsTypeOK
  BY TypeInvImpliesType DEF PageInv
<1> QED BY <1>1, PageInvAlways, PTL

(* Contents names the streams that the content streams hold, in their      *)
(* order, however calls of the page and changes by others follow each      *)
(* other (cc_add, removeContentStream, setContents and                     *)
(* ContentsWatchDog::notify of src/src/kernel/cpagecontents.cc), for every *)
(* number of streams and every page.                                       *)
THEOREM ContentsStayAsStreams == Spec => []ContentsAsStreams
<1>1. PageInv => ContentsAsStreams
  BY DEF PageInv, ContentsInv, ContentsAsStreams, Flat, StreamsOf, PageAsIs
<1> QED BY <1>1, PageInvAlways, PTL

(* What the streams of every content stream hold is what its operators     *)
(* spell, or what could be parsed of it, whoever wrote the streams last:   *)
(* this content stream (_objectChanged of                                  *)
(* src/src/kernel/ccontentstream.cc), another that shares one of them, or  *)
(* a client who set a buffer (CStreamObserver::notify).  Not so an edit    *)
(* that is not written yet, and streams that are named twice.              *)
THEOREM StreamsAlwaysHold == Spec => []StreamsHoldOperators
<1>1. HoldInv => StreamsHoldOperators
  BY DEF HoldInv, AllAgree, Agrees, StreamsHoldOperators
<1> QED BY <1>1, InitHolds, NextHolds, PTL DEF Spec

(* The list of the operators of every content stream leads along its tree, *)
(* and back, after every edit (operatorSetNext and operatorSetPrev of      *)
(* src/src/kernel/ccontentstream.cc), but where insertOperator has cut it. *)
THEOREM IterationAlwaysTree == Spec => []IterationIsTree
<1>1. PageInv => IterationIsTree
  BY TypeInvIteration DEF PageInv
<1> QED BY <1>1, PageInvAlways, PTL

(* An operator that is deleted, inserted or replaced changes its own place *)
(* in what is spelled, and no other, at any depth of the tree, and a text  *)
(* that is replaced is gone (deleteOperator, insertOperator,               *)
(* replaceOperator and replaceText of src/src/kernel/ccontentstream.cc).   *)
THEOREM EditsAlwaysChangeOnePlace == Spec => []EditsChangeOnePlace
<1>1. PageInv => EditsChangeOnePlace
  BY TypeInvEdits DEF PageInv
<1> QED BY <1>1, PageInvAlways, PTL

(* Whenever the page is parsed, a stream this program has added begins a   *)
(* content stream, if what comes before it is complete and not a single    *)
(* operator (parse of src/src/kernel/cpagecontents.cc,                     *)
(* CContentStream::parse with its lookahead), whatever the streams before  *)
(* it hold and however many of them are empty or were cut earlier.         *)
THEOREM ChangesAlwaysBegin == Spec => []ChangesBeginStreams
<1>1. PageInv => ChangesBeginStreams
  BY TypeInvChanges DEF PageInv
<1> QED BY <1>1, PageInvAlways, PTL

=============================================================================
