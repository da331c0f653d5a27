-------------------------- MODULE PageAnnotsProofs --------------------------
(***************************************************************************)
(* Proofs about PageAnnots: that the properties its run checks hold for    *)
(* any dictionaries, arrays and lengths.                                   *)
(*                                                                         *)
(* _annotations and the array are two sequences that are changed by        *)
(* different rules: the array at a position, _annotations where a value is *)
(* first found, and at its end. Counting relates them: each edit moves the *)
(* number of occurrences of each dictionary by the same in both. It does   *)
(* so only if the watchdog is told of the edit, which is what              *)
(* WatchersFollow says; so the two are proved together (Kept), with the    *)
(* order for as long as it is kept.                                        *)
(***************************************************************************)
EXTENDS PageAnnots, SequenceFacts, FiniteSetTheorems

-----------------------------------------------------------------------------
(* How often a target occurs *)

(* Where d occurs.                                                         *)
Places(d, s) == {i \in 1..Len(s) : s[i] = d}

(* The number of occurrences is a natural number, and none means none.     *)
LEMMA OccurrencesType ==
  ASSUME NEW S, NEW s \in Seq(S), NEW d
  PROVE  /\ Occurrences(d, s) = Cardinality(Places(d, s))
         /\ IsFiniteSet(Places(d, s))
         /\ Occurrences(d, s) \in Nat
         /\ Occurrences(d, s) = 0 <=> \A i \in 1..Len(s) : s[i] # d
<1>1. Occurrences(d, s) = Cardinality(Places(d, s))
  <2>1. DOMAIN s = 1..Len(s)
    BY LenProperties
  <2> QED BY <2>1 DEF Occurrences, Places
<1>2. IsFiniteSet(1..Len(s))
  BY FS_Interval
<1>3. IsFiniteSet(Places(d, s))
  BY <1>2, FS_Subset DEF Places
<1>4. Cardinality(Places(d, s)) \in Nat /\ (Cardinality(Places(d, s)) = 0 <=> Places(d, s) = {})
  BY <1>3, FS_CardinalityType, FS_EmptySet
<1>5. Places(d, s) = {} <=> \A i \in 1..Len(s) : s[i] # d
  BY DEF Places
<1> QED BY <1>1, <1>3, <1>4, <1>5

(* One more when it is appended.                                           *)
LEMMA OccurrencesAppend ==
  ASSUME NEW S, NEW s \in Seq(S), NEW e \in S, NEW d
  PROVE  Occurrences(d, Append(s, e)) = Occurrences(d, s) + (IF e = d THEN 1 ELSE 0)
<1>0. PICK n \in Nat : n = Len(s)
  OBVIOUS
<1>1. PICK t : t = Append(s, e)
  OBVIOUS
<1>2. /\ t \in Seq(S) /\ Len(t) = n + 1
      /\ \A j \in 1..n : t[j] = s[j]
      /\ t[n + 1] = e
  BY <1>0, <1>1, AppendProperties
<1>3. Places(d, t) = IF e = d THEN Places(d, s) \cup {n + 1} ELSE Places(d, s)
  BY <1>0, <1>2 DEF Places
<1>4. n + 1 \notin Places(d, s)
  BY <1>0 DEF Places
<1>5. Cardinality(Places(d, s) \cup {n + 1}) = Cardinality(Places(d, s)) + 1
  BY <1>4, OccurrencesType, FS_AddElement
<1>6. /\ Occurrences(d, t) = Cardinality(Places(d, t))
      /\ Occurrences(d, s) = Cardinality(Places(d, s))
      /\ Occurrences(d, s) \in Nat
  BY <1>2, OccurrencesType
<1> QED BY <1>1, <1>3, <1>5, <1>6

(* One less and one more when one element is exchanged for another.        *)
LEMMA OccurrencesExcept ==
  ASSUME NEW S, NEW s \in Seq(S), NEW i \in 1..Len(s), NEW e \in S, NEW d
  PROVE  Occurrences(d, [s EXCEPT ![i] = e])
           = Occurrences(d, s) - (IF s[i] = d THEN 1 ELSE 0) + (IF e = d THEN 1 ELSE 0)
<1>0. PICK n \in Nat : n = Len(s)
  OBVIOUS
<1>1. PICK t : t = [s EXCEPT ![i] = e]
  OBVIOUS
<1>2. /\ t \in Seq(S) /\ Len(t) = n
      /\ \A j \in 1..n : t[j] = IF j = i THEN e ELSE s[j]
  BY <1>0, <1>1, ExceptSeq
<1>3. Places(d, t) = IF e = d THEN (Places(d, s) \ {i}) \cup {i} ELSE Places(d, s) \ {i}
  BY <1>0, <1>2 DEF Places
<1>4. /\ IsFiniteSet(Places(d, s) \ {i})
      /\ Cardinality(Places(d, s) \ {i})
           = Cardinality(Places(d, s)) - (IF s[i] = d THEN 1 ELSE 0)
      /\ Cardinality(Places(d, s)) \in Nat
  <2>1. i \in Places(d, s) <=> s[i] = d
    BY DEF Places
  <2> QED BY <2>1, OccurrencesType, FS_RemoveElement
<1>5. Cardinality((Places(d, s) \ {i}) \cup {i}) = Cardinality(Places(d, s) \ {i}) + 1
  BY <1>4, FS_AddElement
<1>6. /\ Occurrences(d, t) = Cardinality(Places(d, t))
      /\ Occurrences(d, s) = Cardinality(Places(d, s))
  BY <1>2, OccurrencesType
<1>7. Occurrences(d, t) = Cardinality(Places(d, s) \ {i}) + (IF e = d THEN 1 ELSE 0)
  BY <1>3, <1>4, <1>5, <1>6, FS_CardinalityType
<1> QED BY <1>1, <1>4, <1>6, <1>7

(* One less when it is removed.                                            *)
LEMMA OccurrencesRemoveAt ==
  ASSUME NEW S, NEW s \in Seq(S), NEW i \in 1..Len(s), NEW d
  PROVE  Occurrences(d, RemoveAt(s, i)) = Occurrences(d, s) - (IF s[i] = d THEN 1 ELSE 0)
<1>1. PICK n, t : n \in Nat /\ n = Len(s) /\ t = RemoveAt(s, i)
  OBVIOUS
<1>2. /\ t \in Seq(S) /\ Len(t) = n - 1
      /\ \A j \in 1..(n - 1) : t[j] = IF j < i THEN s[j] ELSE s[j + 1]
  BY <1>1, RemoveAtFacts
<1> DEFINE T == Places(d, t)
           P == Places(d, s) \ {i}
           f == [j \in T |-> IF j < i THEN j ELSE j + 1]
<1>3. T = {j \in 1..(n - 1) : (IF j < i THEN s[j] ELSE s[j + 1]) = d}
  BY <1>2 DEF Places
<1>4. P = {j \in 1..n : s[j] = d /\ j # i}
  BY <1>1 DEF Places
<1>5. f \in Bijection(T, P)
  <2>1. f \in [T -> P]
    BY <1>1, <1>3, <1>4
  <2>2. \A j, k \in T : f[j] = f[k] => j = k
    BY <1>3
  <2>3. ASSUME NEW k \in P PROVE \E j \in T : f[j] = k
    <3>1. CASE k < i
      BY <1>1, <1>3, <1>4, <3>1
    <3>2. CASE k > i
      <4>1. k - 1 \in T /\ f[k - 1] = k
        BY <1>1, <1>3, <1>4, <3>2
      <4> QED BY <4>1
    <3> QED BY <1>1, <1>4, <3>1, <3>2
  <2> HIDE DEF f
  <2> QED BY <2>1, <2>2, <2>3 DEF Bijection, Injection, Surjection, IsInjective
<1>6. ExistsBijection(T, P)
  BY <1>5 DEF ExistsBijection
<1>7. IsFiniteSet(T) /\ Occurrences(d, t) = Cardinality(T)
  BY <1>2, OccurrencesType
<1>8. Cardinality(P) = Cardinality(T)
  <2> HIDE DEF T, P
  <2> QED BY <1>6, <1>7, FS_Bijection
<1>9. Cardinality(P) = Cardinality(Places(d, s)) - (IF s[i] = d THEN 1 ELSE 0)
  <2>1. i \in Places(d, s) <=> s[i] = d
    BY DEF Places
  <2>2. IsFiniteSet(Places(d, s))
    BY OccurrencesType
  <2>3. Cardinality(Places(d, s) \ {i})
          = IF i \in Places(d, s) THEN Cardinality(Places(d, s)) - 1 ELSE Cardinality(Places(d, s))
    BY <2>2, FS_RemoveElement
  <2>4. Cardinality(Places(d, s)) \in Nat
    BY OccurrencesType
  <2> QED BY <2>1, <2>3, <2>4
<1> QED BY <1>1, <1>7, <1>8, <1>9, OccurrencesType

(* One more when it is inserted.                                           *)
LEMMA OccurrencesInsertAt ==
  ASSUME NEW S, NEW s \in Seq(S), NEW i \in 1..(Len(s) + 1), NEW e \in S, NEW d
  PROVE  Occurrences(d, InsertAt(s, i, e)) = Occurrences(d, s) + (IF e = d THEN 1 ELSE 0)
<1>1. PICK t : t = InsertAt(s, i, e)
  OBVIOUS
<1>2. t \in Seq(S) /\ i \in 1..Len(t) /\ t[i] = e
  <2>1. PICK n \in Nat : n = Len(s)
    OBVIOUS
  <2>2. i \in 1..(n + 1)
    BY <2>1
  <2>3. t \in Seq(S) /\ Len(t) = n + 1 /\ t = InsertedSeq(s, n, i, e)
    BY SMTT(30), <1>1, <2>1, <2>2, InsertAtFacts
  <2> QED BY <2>2, <2>3 DEF InsertedSeq
<1>3. RemoveAt(t, i) = s
  BY <1>1, RemoveInserted
<1>4. Occurrences(d, s) = Occurrences(d, t) - (IF e = d THEN 1 ELSE 0)
  BY <1>2, <1>3, OccurrencesRemoveAt
<1> QED BY <1>1, <1>2, <1>4, OccurrencesType

(* One less when the first occurrence is removed, if there is one.         *)
LEMMA OccurrencesRemoveFirst ==
  ASSUME NEW S, NEW s \in Seq(S), NEW e, NEW d
  PROVE  /\ RemoveFirst(s, e) \in Seq(S)
         /\ Occurrences(d, RemoveFirst(s, e))
              = Occurrences(d, s) - (IF e = d /\ Occurrences(d, s) # 0 THEN 1 ELSE 0)
<1>1. CASE (\A i \in 1..Len(s) : s[i] # e) /\ RemoveFirst(s, e) = s
  BY <1>1, OccurrencesType
<1>2. ASSUME NEW i \in 1..Len(s), s[i] = e, RemoveFirst(s, e) = RemoveAt(s, i)
      PROVE  /\ RemoveFirst(s, e) \in Seq(S)
             /\ Occurrences(d, RemoveFirst(s, e))
                  = Occurrences(d, s) - (IF e = d /\ Occurrences(d, s) # 0 THEN 1 ELSE 0)
  <2>1. e = d => Occurrences(d, s) # 0
    BY <1>2, OccurrencesType
  <2> QED BY <1>2, <2>1, RemoveAtFacts, OccurrencesRemoveAt
<1> QED BY <1>1, <1>2, RemoveFirstFacts

-----------------------------------------------------------------------------
(* The dictionaries of a sequence *)

(* What SelectDicts is defined from: the dictionaries up to each position, *)
(* from c.                                                                 *)
DictsStep(s, n, c) ==
    [k \in 0..n |-> IF k = 0 THEN <<>>
                    ELSE IF IsDict(s[k]) THEN Append(c[k - 1], s[k]) ELSE c[k - 1]]

(* There is a function that is defined by recursion over the positions.    *)
LEMMA DictsExist ==
  ASSUME NEW s \in Seq(Targets)
  PROVE  \E c : c = DictsStep(s, Len(s), c)
<1> DEFINE X == {t \in Seq(Targets) : \E c : c = DictsStep(t, Len(t), c)}
<1>1. << >> \in X
  <2> DEFINE c == [k \in 0..0 |-> << >>]
  <2>1. << >> \in Seq(Targets) /\ Len(<< >>) = 0
    BY EmptySeq
  <2>2. c = DictsStep(<< >>, 0, c)
    BY DEF DictsStep
  <2> HIDE DEF c
  <2> QED BY <2>1, <2>2
<1>2. ASSUME NEW t \in Seq(Targets), NEW e \in Targets, t \in X PROVE Append(t, e) \in X
  <2>1. PICK n \in Nat : n = Len(t)
    OBVIOUS
  <2>2. PICK u : u = Append(t, e)
    OBVIOUS
  <2>3. /\ u \in Seq(Targets) /\ Len(u) = n + 1
        /\ \A k \in 1..n : u[k] = t[k]
        /\ u[n + 1] = e
    BY <2>1, <2>2, AppendProperties
  <2>4. PICK c : c = DictsStep(t, n, c)
    BY <1>2, <2>1
  <2> DEFINE last == IF IsDict(e) THEN Append(c[n], e) ELSE c[n]
             d == [k \in 0..(n + 1) |-> IF k = n + 1 THEN last ELSE c[k]]
  <2>5. d[n + 1] = last /\ \A k \in 0..n : d[k] = c[k]
    OBVIOUS
  <2>6. d = [k \in 0..(n + 1) |-> d[k]]
    OBVIOUS
  <2> HIDE DEF d
  <2>7. ASSUME NEW k \in 0..(n + 1)
        PROVE  d[k] = IF k = 0 THEN <<>>
                      ELSE IF IsDict(u[k]) THEN Append(d[k - 1], u[k]) ELSE d[k - 1]
    <3>1. CASE k = n + 1
      <4>1. k # 0 /\ k - 1 = n /\ n \in 0..n
        BY <3>1
      <4>2. d[k - 1] = c[n] /\ u[k] = e /\ d[k] = last
        BY <2>3, <2>5, <3>1, <4>1
      <4> QED BY <4>1, <4>2
    <3>2. CASE k = 0
      BY <2>4, <2>5, <3>2 DEF DictsStep
    <3>3. CASE k \in 1..n
      <4>1. k \in 0..n /\ k - 1 \in 0..n /\ k # 0
        BY <3>3
      <4>2. c[k] = IF IsDict(t[k]) THEN Append(c[k - 1], t[k]) ELSE c[k - 1]
        BY <2>4, <4>1 DEF DictsStep
      <4>3. d[k] = c[k] /\ d[k - 1] = c[k - 1] /\ u[k] = t[k]
        BY <2>3, <2>5, <3>3, <4>1
      <4> QED BY <4>1, <4>2, <4>3
    <3> QED BY <3>1, <3>2, <3>3
  <2>8. d = DictsStep(u, n + 1, d)
    BY <2>6, <2>7 DEF DictsStep
  <2> QED BY <2>2, <2>3, <2>8
<1> HIDE DEF X
<1>3. s \in X
  BY <1>1, <1>2, SeqInduction
<1> QED BY <1>3 DEF X

(* SelectDicts is its last value.                                          *)
LEMMA DictsFixedPoint ==
  ASSUME NEW s \in Seq(Targets)
  PROVE  \E c : c = DictsStep(s, Len(s), c) /\ SelectDicts(s) = c[Len(s)]
<1> DEFINE c == CHOOSE x : x = DictsStep(s, Len(s), x)
<1>1. c = DictsStep(s, Len(s), c)
  BY DictsExist
<1>2. SelectDicts(s) = c[Len(s)]
  BY DEF SelectDicts, DictsStep
<1> QED BY <1>1, <1>2

(* There are no dictionaries in the empty sequence.                        *)
LEMMA DictsOfEmpty == SelectDicts(<< >>) = << >>
<1>1. << >> \in Seq(Targets) /\ Len(<< >>) = 0
  BY EmptySeq
<1>2. PICK c : c = DictsStep(<< >>, 0, c) /\ SelectDicts(<< >>) = c[0]
  BY <1>1, DictsFixedPoint
<1> QED BY <1>2 DEF DictsStep

(* SelectDicts follows Append.                                             *)
LEMMA DictsOfAppend ==
  ASSUME NEW s \in Seq(Targets), NEW e \in Targets
  PROVE  SelectDicts(Append(s, e))
           = IF IsDict(e) THEN Append(SelectDicts(s), e) ELSE SelectDicts(s)
<1>1. PICK n \in Nat : n = Len(s)
  OBVIOUS
<1>2. PICK t : t = Append(s, e)
  OBVIOUS
<1>3. /\ t \in Seq(Targets) /\ Len(t) = n + 1
      /\ \A k \in 1..n : t[k] = s[k]
      /\ t[n + 1] = e
  BY <1>1, <1>2, AppendProperties
<1>4. PICK c : c = DictsStep(s, n, c) /\ SelectDicts(s) = c[n]
  BY <1>1, DictsFixedPoint
<1>5. PICK d : d = DictsStep(t, n + 1, d) /\ SelectDicts(t) = d[n + 1]
  BY <1>3, DictsFixedPoint
<1> DEFINE Bad == {k \in 0..n : d[k] # c[k]}
<1>6. Bad = {}
  <2> SUFFICES ASSUME Bad # {} PROVE FALSE
    OBVIOUS
  <2>1. PICK k \in Bad : \A j \in Bad : k <= j
    <3>1. Bad \subseteq Nat
      OBVIOUS
    <3> HIDE DEF Bad
    <3> QED BY <3>1, LeastNat
  <2>2. k # 0
    BY <1>4, <1>5 DEF DictsStep
  <2>3. k \in 1..n /\ k \in 0..n /\ k \in 0..(n + 1) /\ k - 1 \in 0..n /\ k - 1 \notin Bad
    BY <2>1, <2>2
  <2>4. c[k] = IF IsDict(s[k]) THEN Append(c[k - 1], s[k]) ELSE c[k - 1]
    BY <1>4, <2>2, <2>3 DEF DictsStep
  <2>5. d[k] = IF IsDict(t[k]) THEN Append(d[k - 1], t[k]) ELSE d[k - 1]
    BY <1>5, <2>2, <2>3 DEF DictsStep
  <2>6. d[k - 1] = c[k - 1] /\ t[k] = s[k]
    BY <1>3, <2>3
  <2> QED BY <2>1, <2>4, <2>5, <2>6
<1>7. d[n] = c[n]
  BY <1>6
<1>8. n + 1 \in 0..(n + 1) /\ n + 1 # 0 /\ n + 1 - 1 = n
  OBVIOUS
<1>9. d[n + 1] = IF IsDict(t[n + 1]) THEN Append(d[n], t[n + 1]) ELSE d[n]
  <2>1. \A k \in 0..(n + 1) :
           k # 0 => d[k] = IF IsDict(t[k]) THEN Append(d[k - 1], t[k]) ELSE d[k - 1]
    BY <1>5 DEF DictsStep
  <2> QED BY <1>8, <2>1
<1> QED BY <1>2, <1>3, <1>4, <1>5, <1>7, <1>9

(* SelectDicts keeps dictionaries only, and each as often as it was there. *)
LEMMA DictsOccurrences ==
  ASSUME NEW s \in Seq(Targets)
  PROVE  /\ SelectDicts(s) \in Seq(Dicts \cup Inline)
         /\ \A d \in Dicts \cup Inline : Occurrences(d, SelectDicts(s)) = Occurrences(d, s)
<1> DEFINE X == {t \in Seq(Targets) :
                   /\ SelectDicts(t) \in Seq(Dicts \cup Inline)
                   /\ \A d \in Dicts \cup Inline :
                        Occurrences(d, SelectDicts(t)) = Occurrences(d, t)}
<1>1. << >> \in X
  BY DictsOfEmpty, EmptySeq
<1>2. ASSUME NEW t \in Seq(Targets), NEW e \in Targets, t \in X PROVE Append(t, e) \in X
  <2>1. PICK q : q = SelectDicts(t) /\ q \in Seq(Dicts \cup Inline)
                 /\ \A d \in Dicts \cup Inline : Occurrences(d, q) = Occurrences(d, t)
    BY <1>2
  <2>2. PICK u : u = Append(t, e)
    OBVIOUS
  <2>3. u \in Seq(Targets)
    BY <2>2, AppendProperties
  <2>4. \A d : Occurrences(d, u) = Occurrences(d, t) + (IF e = d THEN 1 ELSE 0)
    BY <2>2, OccurrencesAppend
  <2>5. SelectDicts(u) = IF IsDict(e) THEN Append(q, e) ELSE q
    BY <2>1, <2>2, DictsOfAppend
  <2>6. \A d : Occurrences(d, t) \in Nat
    BY OccurrencesType
  <2>7. CASE IsDict(e)
    <3>1. e \in Dicts \cup Inline
      BY <2>7 DEF IsDict
    <3>2. Append(q, e) \in Seq(Dicts \cup Inline)
      BY <2>1, <3>1, AppendProperties
    <3>3. \A d : Occurrences(d, Append(q, e)) = Occurrences(d, q) + (IF e = d THEN 1 ELSE 0)
      BY <2>1, <3>1, OccurrencesAppend
    <3> QED BY <2>1, <2>2, <2>3, <2>4, <2>5, <2>7, <3>2, <3>3
  <2>8. CASE ~IsDict(e)
    <3>1. \A d \in Dicts \cup Inline : Occurrences(d, u) = Occurrences(d, t)
      BY <2>4, <2>6, <2>8 DEF IsDict
    <3> QED BY <2>1, <2>2, <2>3, <2>5, <2>8, <3>1
  <2> QED BY <2>7, <2>8
<1> HIDE DEF X
<1>3. s \in X
  BY <1>1, <1>2, SeqInduction
<1> QED BY <1>3 DEF X

(* It keeps a sequence of dictionaries as it is.                           *)
LEMMA DictsOfDicts ==
  ASSUME NEW s \in Seq(Targets), \A i \in 1..Len(s) : IsDict(s[i])
  PROVE  SelectDicts(s) = s
<1> DEFINE X == {t \in Seq(Targets) :
                   (\A i \in 1..Len(t) : IsDict(t[i])) => SelectDicts(t) = t}
<1>1. << >> \in X
  BY DictsOfEmpty, EmptySeq
<1>2. ASSUME NEW t \in Seq(Targets), NEW e \in Targets, t \in X PROVE Append(t, e) \in X
  <2>1. PICK n \in Nat : n = Len(t)
    OBVIOUS
  <2>2. PICK u : u = Append(t, e)
    OBVIOUS
  <2>3. /\ u \in Seq(Targets) /\ Len(u) = n + 1
        /\ \A k \in 1..n : u[k] = t[k]
        /\ u[n + 1] = e
    BY <2>1, <2>2, AppendProperties
  <2>4. ASSUME \A i \in 1..(n + 1) : IsDict(u[i]) PROVE SelectDicts(u) = u
    <3>1. \A i \in 1..n : IsDict(t[i])
      <4>1. \A i \in 1..n : i \in 1..(n + 1)
        OBVIOUS
      <4> QED BY <2>3, <2>4, <4>1
    <3>2. IsDict(e)
      <4>1. n + 1 \in 1..(n + 1)
        OBVIOUS
      <4> QED BY <2>3, <2>4, <4>1
    <3>3. SelectDicts(t) = t
      BY <1>2, <2>1, <3>1
    <3> QED BY <2>2, <3>2, <3>3, DictsOfAppend
  <2> QED BY <2>2, <2>3, <2>4
<1> HIDE DEF X
<1>3. s \in X
  BY <1>1, <1>2, SeqInduction
<1> QED BY <1>3 DEF X

(* The first occurrence in what was appended to is the one before, if      *)
(* there was one.                                                          *)
LEMMA RemoveFirstAppend ==
  ASSUME NEW S, NEW s \in Seq(S), NEW e \in S, NEW x \in S
  PROVE  /\ Occurrences(x, s) # 0
              => RemoveFirst(Append(s, e), x) = Append(RemoveFirst(s, x), e)
         /\ Occurrences(x, s) = 0 => RemoveFirst(Append(s, x), x) = s
<1>1. PICK n \in Nat : n = Len(s)
  OBVIOUS
<1>2. ASSUME NEW y \in S
      PROVE  /\ Append(s, y) \in Seq(S) /\ Len(Append(s, y)) = n + 1
             /\ \A k \in 1..n : Append(s, y)[k] = s[k]
             /\ Append(s, y)[n + 1] = y
  BY <1>1, AppendProperties
<1>3. ASSUME Occurrences(x, s) # 0
      PROVE  RemoveFirst(Append(s, e), x) = Append(RemoveFirst(s, x), e)
  <2>1. PICK i \in 1..n : /\ s[i] = x /\ (\A j \in 1..(i - 1) : s[j] # x)
                          /\ RemoveFirst(s, x) = RemoveAt(s, i)
    BY <1>1, <1>3, OccurrencesType, RemoveFirstFacts
  <2>2. PICK t : t = Append(s, e)
    OBVIOUS
  <2>3. t \in Seq(S) /\ i \in 1..Len(t) /\ t[i] = x /\ \A j \in 1..(i - 1) : t[j] # x
    BY <1>2, <2>1, <2>2
  <2>4. RemoveFirst(t, x) = RemoveAt(t, i)
    BY <2>3, FirstRemoved
  <2> QED BY <1>1, <2>1, <2>2, <2>4, RemoveAtAppend
<1>4. ASSUME Occurrences(x, s) = 0
      PROVE  RemoveFirst(Append(s, x), x) = s
  <2>1. \A j \in 1..n : s[j] # x
    BY <1>1, <1>4, OccurrencesType
  <2>2. PICK t : t = Append(s, x)
    OBVIOUS
  <2>3. /\ t \in Seq(S) /\ n + 1 \in 1..Len(t) /\ t[n + 1] = x
        /\ \A j \in 1..(n + 1 - 1) : t[j] # x
    BY <1>2, <2>1, <2>2
  <2>4. RemoveFirst(t, x) = RemoveAt(t, n + 1)
    BY <2>3, FirstRemoved
  <2> QED BY <1>1, <2>2, <2>4, RemoveAtAppend
<1> QED BY <1>3, <1>4

(* To remove the first element with its target from an array is to remove  *)
(* the first such dictionary from its dictionaries.                        *)
LEMMA DictsOfRemoved ==
  ASSUME NEW s \in Seq(Targets), NEW i \in 1..Len(s), \A j \in 1..(i - 1) : s[j] # s[i]
  PROVE  SelectDicts(RemoveAt(s, i))
           = IF IsDict(s[i]) THEN RemoveFirst(SelectDicts(s), s[i]) ELSE SelectDicts(s)
<1> DEFINE Good(t, k) == SelectDicts(RemoveAt(t, k))
                           = IF IsDict(t[k]) THEN RemoveFirst(SelectDicts(t), t[k])
                             ELSE SelectDicts(t)
           X == {t \in Seq(Targets) :
                   \A k \in 1..Len(t) : (\A j \in 1..(k - 1) : t[j] # t[k]) => Good(t, k)}
<1>1. << >> \in X
  <2>1. << >> \in Seq(Targets) /\ Len(<< >>) = 0
    BY EmptySeq
  <2> QED BY <2>1
<1>2. ASSUME NEW t \in Seq(Targets), NEW e \in Targets, t \in X PROVE Append(t, e) \in X
  <2>1. PICK n \in Nat : n = Len(t)
    OBVIOUS
  <2>2. PICK u : u = Append(t, e)
    OBVIOUS
  <2>3. /\ u \in Seq(Targets) /\ Len(u) = n + 1
        /\ \A k \in 1..n : u[k] = t[k]
        /\ u[n + 1] = e
    BY <2>1, <2>2, AppendProperties
  <2>4. PICK q : /\ q = SelectDicts(t) /\ q \in Seq(Dicts \cup Inline)
                 /\ \A d \in Dicts \cup Inline : Occurrences(d, q) = Occurrences(d, t)
    BY DictsOccurrences
  <2>5. SelectDicts(u) = IF IsDict(e) THEN Append(q, e) ELSE q
    BY <2>2, <2>4, DictsOfAppend
  <2>6. ASSUME NEW k \in 1..(n + 1), \A j \in 1..(k - 1) : u[j] # u[k]
        PROVE  Good(u, k)
    <3>1. CASE k = n + 1
      <4>1. RemoveAt(u, k) = t
        BY <2>1, <2>2, <3>1, RemoveAtAppend
      <4>2. ASSUME IsDict(e) PROVE RemoveFirst(Append(q, e), e) = q
        <5>1. \A j \in 1..n : t[j] # e
          BY <2>3, <2>6, <3>1
        <5>2. e \in Dicts \cup Inline
          BY <4>2 DEF IsDict
        <5>3. Occurrences(e, t) = 0
          BY <2>1, <5>1, OccurrencesType
        <5> QED BY SMTT(30), <2>4, <5>2, <5>3, RemoveFirstAppend
      <4> QED BY <2>3, <2>4, <2>5, <3>1, <4>1, <4>2
    <3>2. CASE k \in 1..n
      <4>1. PICK r : r = RemoveAt(t, k)
        OBVIOUS
      <4>2. RemoveAt(u, k) = Append(r, e) /\ r \in Seq(Targets) /\ u[k] = t[k]
        BY SMTT(30), <2>1, <2>2, <2>3, <3>2, <4>1, RemoveAtAppend, RemoveAtFacts
      <4>3. \A j \in 1..(k - 1) : t[j] # t[k]
        BY <2>3, <2>6, <3>2
      <4>4. SelectDicts(r) = IF IsDict(t[k]) THEN RemoveFirst(q, t[k]) ELSE q
        BY <1>2, <2>1, <2>4, <3>2, <4>1, <4>3
      <4>5. SelectDicts(Append(r, e))
              = IF IsDict(e) THEN Append(SelectDicts(r), e) ELSE SelectDicts(r)
        BY <4>2, DictsOfAppend
      <4>6. ASSUME IsDict(t[k]), IsDict(e)
            PROVE  RemoveFirst(Append(q, e), t[k]) = Append(RemoveFirst(q, t[k]), e)
        <5>1. t[k] \in Dicts \cup Inline /\ e \in Dicts \cup Inline
          BY <4>6 DEF IsDict
        <5>2. Occurrences(t[k], t) # 0
          BY <2>1, <3>2, OccurrencesType
        <5> QED BY ZenonT(40), <2>4, <5>1, <5>2, RemoveFirstAppend
      <4> QED BY <2>5, <4>2, <4>4, <4>5, <4>6
    <3> QED BY <3>1, <3>2
  <2> HIDE DEF Good
  <2> QED BY <2>2, <2>3, <2>6
<1> HIDE DEF X
<1>3. s \in X
  BY <1>1, <1>2, SeqInduction
<1> QED BY <1>3 DEF X

-----------------------------------------------------------------------------
(* Arrays *)

(* The watchdog is on an array and its references, or on none of them.     *)
Follows(arr, on) ==
    /\ arr.watched = on
    /\ \A i \in 1..Len(arr.elems) : arr.elems[i].watched = (on /\ IsRef(arr.elems[i].to))

(* The targets of an array are a sequence as long as it.                   *)
LEMMA ArrayFacts ==
  ASSUME NEW arr \in Array
  PROVE  /\ arr.elems \in Seq(Element) /\ Len(arr.elems) \in Nat
         /\ DOMAIN arr.elems = 1..Len(arr.elems)
         /\ \A i \in 1..Len(arr.elems) : arr.elems[i] \in Element
         /\ TargetsOf(arr) \in Seq(Targets)
         /\ Len(TargetsOf(arr)) = Len(arr.elems)
         /\ \A i \in 1..Len(arr.elems) :
               TargetsOf(arr)[i] = arr.elems[i].to /\ arr.elems[i].to \in Targets
<1>1. PICK s \in Seq(Element) : s = arr.elems
  BY DEF Array
<1>2. PICK n \in Nat : n = Len(s)
  OBVIOUS
<1>3. DOMAIN s = 1..n /\ \A i \in 1..n : s[i] \in Element
  BY <1>2, LenProperties, ElementOfSeq
<1>4. PICK t : t = [i \in 1..n |-> s[i].to]
  OBVIOUS
<1>5. TargetsOf(arr) = t
  BY <1>1, <1>3, <1>4 DEF TargetsOf
<1>6. \A i \in 1..n : s[i].to \in Targets
  BY <1>3 DEF Element
<1>7. t \in [1..n -> Targets]
  BY <1>4, <1>6
<1>8. t \in Seq(Targets) /\ Len(t) = n
  BY <1>7
<1> QED BY <1>1, <1>2, <1>3, <1>4, <1>5, <1>6, <1>8

(* An array made from targets has them, and no watchdog.                   *)
LEMMA UnwatchedFacts ==
  ASSUME NEW s \in Seq(Targets)
  PROVE  /\ Unwatched(s) \in Array /\ TargetsOf(Unwatched(s)) = s
         /\ Len(Unwatched(s).elems) = Len(s)
         /\ Follows(Unwatched(s), FALSE)
<1>1. PICK n \in Nat : n = Len(s)
  OBVIOUS
<1>2. DOMAIN s = 1..n /\ \A i \in 1..n : s[i] \in Targets
  BY <1>1, LenProperties, ElementOfSeq
<1>3. PICK e : e = [i \in 1..n |-> [to |-> s[i], watched |-> FALSE]]
  OBVIOUS
<1>4. \A i \in 1..n : [to |-> s[i], watched |-> FALSE] \in Element
  BY <1>2 DEF Element
<1>5. e \in [1..n -> Element]
  BY <1>3, <1>4
<1>6. e \in Seq(Element) /\ Len(e) = n
  BY <1>5
<1>7. Unwatched(s) = [elems |-> e, watched |-> FALSE]
  BY <1>2, <1>3 DEF Unwatched
<1>8. Unwatched(s) \in Array
  BY <1>6, <1>7 DEF Array
<1>9. \A i \in 1..n : e[i].to = s[i] /\ e[i].watched = FALSE
  BY <1>3
<1>10. PICK t : t = TargetsOf(Unwatched(s))
  OBVIOUS
<1>11. t \in Seq(Targets) /\ Len(t) = n /\ \A i \in 1..n : t[i] = s[i]
  BY ZenonT(40), <1>6, <1>7, <1>8, <1>9, <1>10, ArrayFacts
<1>12. t = s
  BY <1>1, <1>11, SameSeq
<1>13. Follows(Unwatched(s), FALSE)
  <2>1. \A i \in 1..n : e[i].watched = (FALSE /\ IsRef(e[i].to))
    BY <1>9
  <2> QED BY <1>6, <1>7, <2>1 DEF Follows
<1>14. Len(Unwatched(s).elems) = n
  BY <1>6, <1>7
<1> QED BY <1>1, <1>8, <1>10, <1>12, <1>13, <1>14

(* Unregistering leaves no watchdog and changes no target.                 *)
LEMMA UnregisteredFacts ==
  ASSUME NEW arr \in Array
  PROVE  /\ UnregisteredFrom(arr) \in Array /\ TargetsOf(UnregisteredFrom(arr)) = TargetsOf(arr)
         /\ Len(UnregisteredFrom(arr).elems) = Len(arr.elems)
         /\ Follows(UnregisteredFrom(arr), FALSE)
BY ArrayFacts, UnwatchedFacts DEF UnregisteredFrom

(* Registering leaves a watchdog everywhere and changes no target.         *)
LEMMA RegisteredFacts ==
  ASSUME NEW arr \in Array, Follows(arr, FALSE)
  PROVE  /\ RegisteredOn(arr) \in Array /\ TargetsOf(RegisteredOn(arr)) = TargetsOf(arr)
         /\ Len(RegisteredOn(arr).elems) = Len(arr.elems)
         /\ Follows(RegisteredOn(arr), TRUE)
<1>1. PICK n \in Nat : n = Len(arr.elems)
  BY ArrayFacts
<1>2. DOMAIN arr.elems = 1..n /\ \A i \in 1..n : arr.elems[i] \in Element
  BY <1>1, ArrayFacts
<1>3. PICK e : e = RegisteredOn(arr).elems
  OBVIOUS
<1>4. e = [i \in 1..n |-> [arr.elems[i] EXCEPT !.watched = @ \/ IsRef(arr.elems[i].to)]]
  BY <1>2, <1>3 DEF RegisteredOn
<1>5. ASSUME NEW i \in 1..n
      PROVE  /\ e[i] \in Element /\ e[i].to = arr.elems[i].to
             /\ e[i].watched = IsRef(arr.elems[i].to)
  <2>1. PICK x \in Element : x = arr.elems[i]
    BY <1>2
  <2>2. e[i] = [x EXCEPT !.watched = x.watched \/ IsRef(x.to)]
    BY <1>4, <2>1
  <2>3. x.watched = FALSE
    BY <1>1, <2>1 DEF Follows
  <2>4. IsRef(x.to) \in BOOLEAN
    BY DEF IsRef
  <2> QED BY <2>1, <2>2, <2>3, <2>4 DEF Element
<1>6. e \in [1..n -> Element]
  BY <1>4, <1>5
<1>7. e \in Seq(Element) /\ Len(e) = n
  BY <1>6
<1>8. RegisteredOn(arr) = [elems |-> e, watched |-> TRUE]
  BY <1>3 DEF RegisteredOn
<1>9. RegisteredOn(arr) \in Array
  BY <1>7, <1>8 DEF Array
<1>10. PICK t : t = TargetsOf(RegisteredOn(arr))
  OBVIOUS
<1>11. PICK u : u = TargetsOf(arr)
  OBVIOUS
<1>12. /\ t \in Seq(Targets) /\ Len(t) = n /\ \A i \in 1..n : t[i] = e[i].to
       /\ u \in Seq(Targets) /\ Len(u) = n /\ \A i \in 1..n : u[i] = arr.elems[i].to
  BY ZenonT(40), <1>1, <1>7, <1>8, <1>9, <1>10, <1>11, ArrayFacts
<1>13. t = u
  BY <1>5, <1>12, SameSeq
<1>14. Follows(RegisteredOn(arr), TRUE)
  <2>1. \A i \in 1..n : e[i].watched = (TRUE /\ IsRef(e[i].to))
    BY <1>5 DEF IsRef
  <2> QED BY <1>7, <1>8, <2>1 DEF Follows
<1>15. Len(RegisteredOn(arr).elems) = n
  BY <1>7, <1>8
<1> QED BY <1>1, <1>9, <1>10, <1>11, <1>13, <1>14, <1>15

(* An array with an element more.                                          *)
LEMMA ElementAdded ==
  ASSUME NEW arr \in Array, NEW i \in 1..(Len(arr.elems) + 1), NEW x \in Element,
         NEW new, new = [arr EXCEPT !.elems = InsertAt(@, i, x)]
  PROVE  /\ new \in Array /\ Len(new.elems) = Len(arr.elems) + 1
         /\ TargetsOf(new) = InsertAt(TargetsOf(arr), i, x.to)
         /\ \A on \in BOOLEAN : Follows(arr, on) /\ x.watched = (on /\ IsRef(x.to))
                                  => Follows(new, on)
<1>1. PICK s : s = arr.elems
  OBVIOUS
<1>2. s \in Seq(Element)
  BY <1>1, ArrayFacts
<1>3. PICK n \in Nat : n = Len(s)
  BY <1>2
<1>0. i \in 1..(n + 1)
  BY <1>1, <1>3
<1>4. PICK r : r = InsertAt(s, i, x)
  OBVIOUS
<1>5. /\ r \in Seq(Element) /\ Len(r) = n + 1
      /\ \A j \in 1..(n + 1) : r[j] = IF j < i THEN s[j] ELSE IF j = i THEN x ELSE s[j - 1]
  <2>1. r \in Seq(Element) /\ Len(r) = n + 1 /\ r = InsertedSeq(s, n, i, x)
    BY SMTT(30), <1>0, <1>2, <1>3, <1>4, InsertAtFacts
  <2> QED BY <2>1 DEF InsertedSeq
<1>6. new.elems = r /\ new.watched = arr.watched /\ new \in Array
  BY <1>1, <1>4, <1>5 DEF Array
<1>7. PICK t : t = TargetsOf(new)
  OBVIOUS
<1>8. t \in Seq(Targets) /\ Len(t) = n + 1 /\ \A j \in 1..(n + 1) : t[j] = r[j].to
  BY <1>5, <1>6, <1>7, ArrayFacts
<1>9. PICK u : u = TargetsOf(arr)
  OBVIOUS
<1>10. u \in Seq(Targets) /\ Len(u) = n /\ \A j \in 1..n : u[j] = s[j].to
  BY <1>1, <1>3, <1>9, ArrayFacts
<1>11. x.to \in Targets
  BY DEF Element
<1>12. PICK v : v = InsertAt(u, i, x.to)
  OBVIOUS
<1>13. /\ v \in Seq(Targets) /\ Len(v) = n + 1
       /\ \A j \in 1..(n + 1) : v[j] = IF j < i THEN u[j] ELSE IF j = i THEN x.to ELSE u[j - 1]
  <2>1. v \in Seq(Targets) /\ Len(v) = n + 1 /\ v = InsertedSeq(u, n, i, x.to)
    BY <1>0, <1>10, <1>11, <1>12, InsertAtFacts
  <2> QED BY <2>1 DEF InsertedSeq
<1>14. ASSUME NEW j \in 1..(n + 1) PROVE t[j] = v[j]
  <2>1. j < i => j \in 1..n
    BY <1>1, <1>3
  <2>2. ~(j < i) /\ j # i => j - 1 \in 1..n
    BY <1>1, <1>3
  <2> QED BY SMTT(30), <1>5, <1>8, <1>10, <1>13, <2>1, <2>2
<1>15. t = v
  BY <1>8, <1>13, <1>14, SameSeq
<1>16. ASSUME NEW on \in BOOLEAN, Follows(arr, on), x.watched = (on /\ IsRef(x.to))
       PROVE  Follows(new, on)
  <2>1. \A j \in 1..n : s[j].watched = (on /\ IsRef(s[j].to))
    BY <1>1, <1>3, <1>16 DEF Follows
  <2>2. ASSUME NEW j \in 1..(n + 1) PROVE r[j].watched = (on /\ IsRef(r[j].to))
    <3>1. j < i => j \in 1..n
      BY <1>1, <1>3
    <3>2. ~(j < i) /\ j # i => j - 1 \in 1..n
      BY <1>1, <1>3
    <3>3. CASE j < i
      BY <1>5, <2>1, <3>1, <3>3
    <3>4. CASE j = i
      BY <1>5, <1>16, <3>4
    <3>5. CASE ~(j < i) /\ j # i
      BY <1>5, <2>1, <3>2, <3>5
    <3> QED BY <3>3, <3>4, <3>5
  <2> QED BY <1>5, <1>6, <1>16, <2>2 DEF Follows
<1> QED BY <1>1, <1>3, <1>5, <1>6, <1>7, <1>9, <1>12, <1>15, <1>16

(* An array with an element less.                                          *)
LEMMA ElementRemoved ==
  ASSUME NEW arr \in Array, NEW i \in 1..Len(arr.elems),
         NEW new, new = [arr EXCEPT !.elems = RemoveAt(@, i)]
  PROVE  /\ new \in Array /\ Len(new.elems) = Len(arr.elems) - 1
         /\ TargetsOf(new) = RemoveAt(TargetsOf(arr), i)
         /\ \A on \in BOOLEAN : Follows(arr, on) => Follows(new, on)
<1>1. PICK s : s = arr.elems
  OBVIOUS
<1>2. s \in Seq(Element)
  BY <1>1, ArrayFacts
<1>3. PICK n \in Nat : n = Len(s)
  BY <1>2
<1>4. PICK r : r = RemoveAt(s, i)
  OBVIOUS
<1>5. /\ r \in Seq(Element) /\ Len(r) = n - 1
      /\ \A j \in 1..(n - 1) : r[j] = IF j < i THEN s[j] ELSE s[j + 1]
  BY <1>1, <1>2, <1>3, <1>4, RemoveAtFacts
<1>6. new.elems = r /\ new.watched = arr.watched /\ new \in Array
  BY <1>1, <1>4, <1>5 DEF Array
<1>7. PICK t : t = TargetsOf(new)
  OBVIOUS
<1>8. t \in Seq(Targets) /\ Len(t) = n - 1 /\ \A j \in 1..(n - 1) : t[j] = r[j].to
  BY <1>5, <1>6, <1>7, ArrayFacts
<1>9. PICK u : u = TargetsOf(arr)
  OBVIOUS
<1>10. u \in Seq(Targets) /\ Len(u) = n /\ \A j \in 1..n : u[j] = s[j].to
  BY <1>1, <1>3, <1>9, ArrayFacts
<1>11. PICK v : v = RemoveAt(u, i)
  OBVIOUS
<1>12. /\ v \in Seq(Targets) /\ Len(v) = n - 1
       /\ \A j \in 1..(n - 1) : v[j] = IF j < i THEN u[j] ELSE u[j + 1]
  BY SMTT(30), <1>1, <1>3, <1>10, <1>11, RemoveAtFacts
<1>13. n - 1 \in Nat /\ \A j \in 1..(n - 1) : j \in 1..n /\ j + 1 \in 1..n
  BY <1>1, <1>3
<1>14. \A j \in 1..(n - 1) : t[j] = v[j]
  BY <1>5, <1>8, <1>10, <1>12, <1>13
<1>15. t = v
  BY <1>8, <1>12, <1>13, <1>14, SameSeq
<1>16. ASSUME NEW on \in BOOLEAN, Follows(arr, on) PROVE Follows(new, on)
  <2>1. \A j \in 1..n : s[j].watched = (on /\ IsRef(s[j].to))
    BY <1>1, <1>3, <1>16 DEF Follows
  <2>2. ASSUME NEW j \in 1..(n - 1) PROVE r[j].watched = (on /\ IsRef(r[j].to))
    <3>1. CASE j < i
      BY <1>5, <1>13, <2>1, <3>1
    <3>2. CASE ~(j < i)
      BY <1>5, <1>13, <2>1, <3>2
    <3> QED BY <3>1, <3>2
  <2> QED BY <1>5, <1>6, <1>16, <2>2 DEF Follows
<1> QED BY <1>1, <1>3, <1>5, <1>6, <1>7, <1>9, <1>11, <1>15, <1>16

(* An array with another element at i.                                     *)
LEMMA ElementSet ==
  ASSUME NEW arr \in Array, NEW i \in 1..Len(arr.elems), NEW x \in Element,
         NEW new, new = [arr EXCEPT !.elems = [@ EXCEPT ![i] = x]]
  PROVE  /\ new \in Array /\ Len(new.elems) = Len(arr.elems)
         /\ TargetsOf(new) = [TargetsOf(arr) EXCEPT ![i] = x.to]
         /\ \A on \in BOOLEAN : Follows(arr, on) /\ x.watched = (on /\ IsRef(x.to))
                                  => Follows(new, on)
<1>1. PICK s : s = arr.elems
  OBVIOUS
<1>2. s \in Seq(Element)
  BY <1>1, ArrayFacts
<1>3. PICK n \in Nat : n = Len(s)
  BY <1>2
<1>4. PICK r : r = [s EXCEPT ![i] = x]
  OBVIOUS
<1>5. /\ r \in Seq(Element) /\ Len(r) = n
      /\ \A j \in 1..n : r[j] = IF j = i THEN x ELSE s[j]
  BY <1>1, <1>2, <1>3, <1>4, ExceptSeq
<1>6. new.elems = r /\ new.watched = arr.watched /\ new \in Array
  BY <1>1, <1>4, <1>5 DEF Array
<1>7. PICK t : t = TargetsOf(new)
  OBVIOUS
<1>8. t \in Seq(Targets) /\ Len(t) = n /\ \A j \in 1..n : t[j] = r[j].to
  BY <1>5, <1>6, <1>7, ArrayFacts
<1>9. PICK u : u = TargetsOf(arr)
  OBVIOUS
<1>10. u \in Seq(Targets) /\ Len(u) = n /\ \A j \in 1..n : u[j] = s[j].to
  BY <1>1, <1>3, <1>9, ArrayFacts
<1>11. x.to \in Targets
  BY DEF Element
<1>12. PICK v : v = [u EXCEPT ![i] = x.to]
  OBVIOUS
<1>13. /\ v \in Seq(Targets) /\ Len(v) = n
       /\ \A j \in 1..n : v[j] = IF j = i THEN x.to ELSE u[j]
  BY <1>1, <1>3, <1>10, <1>11, <1>12, ExceptSeq
<1>14. \A j \in 1..n : t[j] = v[j]
  BY <1>5, <1>8, <1>10, <1>13
<1>15. t = v
  BY <1>8, <1>13, <1>14, SameSeq
<1>16. ASSUME NEW on \in BOOLEAN, Follows(arr, on), x.watched = (on /\ IsRef(x.to))
       PROVE  Follows(new, on)
  <2>1. \A j \in 1..n : s[j].watched = (on /\ IsRef(s[j].to))
    BY <1>1, <1>3, <1>16 DEF Follows
  <2>2. ASSUME NEW j \in 1..n PROVE r[j].watched = (on /\ IsRef(r[j].to))
    BY <1>5, <1>16, <2>1
  <2> QED BY <1>5, <1>6, <1>16, <2>2 DEF Follows
<1> QED BY <1>1, <1>3, <1>5, <1>6, <1>7, <1>9, <1>12, <1>15, <1>16

-----------------------------------------------------------------------------
(* The annotations of an array *)

(* consolidate takes one occurrence of the old dictionary from             *)
(* _annotations, and puts the new one at the end.                          *)
LEMMA ConsolidatedFacts ==
  ASSUME annots \in Seq(Dicts \cup Inline), NEW old, NEW new
  PROVE  /\ Consolidated(old, new) \in Seq(Dicts \cup Inline)
         /\ \A d \in Dicts :
               Occurrences(d, Consolidated(old, new))
                 = Occurrences(d, annots)
                   - (IF old = d /\ Occurrences(d, annots) # 0 THEN 1 ELSE 0)
                   + (IF new = d THEN 1 ELSE 0)
         /\ Consolidated(old, new)
              = LET left == IF old \in Dicts THEN RemoveFirst(annots, old) ELSE annots
                IN IF new \in Dicts THEN Append(left, new) ELSE left
<1>1. PICK s : s = IF old \in Dicts THEN RemoveFirst(annots, old) ELSE annots
  OBVIOUS
<1>2. /\ s \in Seq(Dicts \cup Inline)
      /\ \A d \in Dicts :
            Occurrences(d, s) = Occurrences(d, annots)
                                - (IF old = d /\ Occurrences(d, annots) # 0 THEN 1 ELSE 0)
  <2>1. CASE old \in Dicts
    BY <1>1, <2>1, OccurrencesRemoveFirst
  <2>2. CASE old \notin Dicts
    <3>1. \A d \in Dicts : Occurrences(d, annots) \in Nat /\ old # d
      BY <2>2, OccurrencesType
    <3> QED BY <1>1, <2>2, <3>1
  <2> QED BY <2>1, <2>2
<1>3. Consolidated(old, new) = IF new \in Dicts THEN Append(s, new) ELSE s
  <2>1. s \o <<new>> = Append(s, new)
    BY <1>2, AppendIsConcat
  <2>2. s \o << >> = s
    BY <1>2, ConcatEmptySeq
  <2> QED BY <1>1, <2>1, <2>2 DEF Consolidated
<1>4. CASE new \in Dicts
  <2>1. \A d \in Dicts : Occurrences(d, Append(s, new))
                           = Occurrences(d, s) + (IF new = d THEN 1 ELSE 0)
    BY <1>2, <1>4, OccurrencesAppend
  <2>2. Append(s, new) \in Seq(Dicts \cup Inline)
    BY <1>2, <1>4, AppendProperties
  <2> QED BY <1>1, <1>2, <1>3, <1>4, <2>1, <2>2
<1>5. CASE new \notin Dicts
  <2>1. \A d \in Dicts : new # d /\ Occurrences(d, s) \in Nat
    BY <1>2, <1>5, OccurrencesType
  <2>2. \A d \in Dicts : Occurrences(d, s) = Occurrences(d, s) + (IF new = d THEN 1 ELSE 0)
    BY <2>1
  <2> QED BY <1>1, <1>2, <1>3, <1>5, <2>2
<1> QED BY <1>4, <1>5

(* _annotations as collectAnnotations makes them.                          *)
AnnotsOf(e, as) == IF HasArray(e) THEN Collected(as[e]) ELSE <<>>

(* Made anew they are in step with the array.                              *)
LEMMA AnnotsOfFacts ==
  ASSUME NEW e, NEW as \in [ArrayRefs \cup {Direct} -> Array]
  PROVE  /\ AnnotsOf(e, as) \in Seq(Dicts \cup Inline)
         /\ \A d \in Dicts :
               Occurrences(d, AnnotsOf(e, as))
                 = IF HasArray(e) THEN Occurrences(d, TargetsOf(as[e])) ELSE 0
<1>1. CASE HasArray(e)
  <2>1. as[e] \in Array
    BY <1>1 DEF HasArray
  <2>2. TargetsOf(as[e]) \in Seq(Targets)
    BY <2>1, ArrayFacts
  <2> QED BY <1>1, <2>2, DictsOccurrences DEF AnnotsOf, Collected
<1>2. CASE ~HasArray(e)
  <2>1. << >> \in Seq(Dicts \cup Inline) /\ Len(<< >>) = 0
    BY EmptySeq
  <2>2. ASSUME NEW d \in Dicts PROVE Occurrences(d, << >>) = 0
    <3>1. \A i \in 1..Len(<< >>) : << >>[i] # d
      BY <2>1
    <3> QED BY <2>1, <3>1, OccurrencesType
  <2> QED BY <1>2, <2>1, <2>2 DEF AnnotsOf
<1> QED BY <1>1, <1>2

-----------------------------------------------------------------------------
(* The invariant *)

(* What holds as long as the program runs: the watchdogs are on what       *)
(* Annots refers to and on the array it leads to, nothing else is watched, *)
(* _annotations has as many of each dictionary as the array, and is what   *)
(* would be collected unless edits have drifted.                           *)
Kept(e, ew, as, an, dr) ==
    /\ e \in ArrayRefs \cup {Odd, Direct, NoEntry}
    /\ ew = IF IsReference(e) THEN {"PropWatchDog"} ELSE {}
    /\ as \in [ArrayRefs \cup {Direct} -> Array]
    /\ \A a \in ArrayRefs \cup {Direct} : Len(as[a].elems) <= MaxLen /\ Follows(as[a], a = e)
    /\ e # Direct => as[Direct] = Unwatched(<<>>)
    /\ an \in Seq(Dicts \cup Inline)
    /\ dr \in BOOLEAN
    /\ \A d \in Dicts :
          Occurrences(d, an) = IF HasArray(e) THEN Occurrences(d, TargetsOf(as[e])) ELSE 0
    /\ ~dr => an = AnnotsOf(e, as)

(* The invariant. After the end of the program there are only types.       *)
IInv == PageAnnotsTypeOK /\ (alive => Kept(entry, entryWatched, arrays, annots, drifted))

(* It has all the types.                                                   *)
LEMMA KeptIsTyped ==
  ASSUME Kept(entry, entryWatched, arrays, annots, drifted), alive \in BOOLEAN
  PROVE  IInv
BY DEF Kept, IInv, PageAnnotsTypeOK

(* The same after a step.                                                  *)
LEMMA KeptIsTypedNext ==
  ASSUME Kept(entry', entryWatched', arrays', annots', drifted'), alive' \in BOOLEAN
  PROVE  IInv'
BY DEF Kept, IInv, PageAnnotsTypeOK

(* It implies the invariants of the run.                                   *)
LEMMA InvImplies == IInv => PageAnnotsTypeOK /\ WatchersFollow /\ AnnotsInStep /\ AnnotsInOrder
<1> SUFFICES ASSUME IInv PROVE PageAnnotsTypeOK /\ WatchersFollow /\ AnnotsInStep /\ AnnotsInOrder
  OBVIOUS
<1>1. PageAnnotsTypeOK
  BY DEF IInv
<1>2. WatchersFollow
  <2> SUFFICES ASSUME alive PROVE WatchersFollow
    BY DEF WatchersFollow
  <2>1. Kept(entry, entryWatched, arrays, annots, drifted)
    BY DEF IInv
  <2>2. DOMAIN arrays = ArrayRefs \cup {Direct}
    BY <2>1 DEF Kept
  <2>3. ASSUME NEW a \in DOMAIN arrays
        PROVE  /\ arrays[a].watched = (a = entry)
               /\ \A i \in DOMAIN arrays[a].elems :
                     arrays[a].elems[i].watched = (a = entry /\ IsRef(arrays[a].elems[i].to))
    <3>1. arrays[a] \in Array /\ Follows(arrays[a], a = entry)
      BY <2>1, <2>2 DEF Kept
    <3> QED BY <3>1, ArrayFacts DEF Follows
  <2>4. entryWatched = IF IsReference(entry) THEN {"PropWatchDog"} ELSE {}
    BY <2>1 DEF Kept
  <2> QED BY <2>3, <2>4 DEF WatchersFollow
<1>3. AnnotsInStep
  BY DEF IInv, Kept, AnnotsInStep
<1>4. AnnotsInOrder
  BY DEF IInv, Kept, AnnotsInOrder, AnnotsOf
<1> QED BY <1>1, <1>2, <1>3, <1>4

-----------------------------------------------------------------------------
(* Changes of an array *)

(* What an edit of one array does: the array a becomes new, and            *)
(* _annotations is told that old has gone and nw has come when a is the    *)
(* array of the page.                                                      *)
Changed(a, new, old, nw) ==
    /\ new \in Array /\ Len(new.elems) <= MaxLen /\ Follows(new, a = entry)
    /\ UNCHANGED <<entry, entryWatched>> /\ arrays' = [arrays EXCEPT ![a] = new]
    /\ annots' = IF a = entry THEN Consolidated(old, nw) ELSE annots
    /\ drifted' \in BOOLEAN /\ (drifted => drifted') /\ (a # entry => drifted' = drifted)
    /\ old \in Dicts => Occurrences(old, TargetsOf(arrays[a])) # 0
    /\ \A d \in Dicts : Occurrences(d, TargetsOf(new))
                            = Occurrences(d, TargetsOf(arrays[a]))
                              - (IF old = d THEN 1 ELSE 0) + (IF nw = d THEN 1 ELSE 0)
    /\ a = entry /\ ~drifted' /\ annots = Collected(arrays[a])
           => Consolidated(old, nw) = Collected(new)

(* Such an edit keeps the invariant.                                       *)
LEMMA ElementChanged ==
  ASSUME IInv, alive, NEW a \in Reachable, NEW new, NEW old, NEW nw, Changed(a, new, old, nw)
  PROVE  Kept(entry', entryWatched', arrays', annots', drifted')
<1> USE DEF Changed
<1>1. Kept(entry, entryWatched, arrays, annots, drifted)
  BY DEF IInv
<1>2. a \in ArrayRefs \cup {Direct} /\ HasArray(a) /\ (a = Direct => entry = Direct)
  BY PageAnnotsAssumption DEF Reachable, HasArray
<1>3. /\ arrays' \in [ArrayRefs \cup {Direct} -> Array]
      /\ arrays'[a] = new /\ \A b \in ArrayRefs \cup {Direct} : b # a => arrays'[b] = arrays[b]
  BY <1>1, <1>2 DEF Kept
<1>4. /\ \A b \in ArrayRefs \cup {Direct} :
            Len(arrays'[b].elems) <= MaxLen /\ Follows(arrays'[b], b = entry)
      /\ entry # Direct => arrays'[Direct] = Unwatched(<<>>)
  BY <1>1, <1>2, <1>3 DEF Kept
<1>5. CASE a = entry
  <2>1. annots \in Seq(Dicts \cup Inline)
    BY <1>1 DEF Kept
  <2>2. annots' = Consolidated(old, nw)
    BY <1>5
  <2>3. annots' \in Seq(Dicts \cup Inline)
    BY <2>1, <2>2, ConsolidatedFacts
  <2>4. ASSUME NEW d \in Dicts
        PROVE  Occurrences(d, annots') = Occurrences(d, TargetsOf(arrays'[entry]))
    <3>1. Occurrences(d, annots) = Occurrences(d, TargetsOf(arrays[a]))
      BY <1>1, <1>2, <1>5 DEF Kept
    <3>2. Occurrences(d, annots') = Occurrences(d, annots)
                   - (IF old = d /\ Occurrences(d, annots) # 0 THEN 1 ELSE 0)
                   + (IF nw = d THEN 1 ELSE 0)
      BY <2>1, <2>2, ConsolidatedFacts
    <3>3. old = d => Occurrences(d, annots) # 0
      BY <3>1
    <3> QED BY <1>3, <1>5, <3>1, <3>2, <3>3
  <2>5. ~drifted' => annots' = AnnotsOf(entry, arrays')
    <3> SUFFICES ASSUME ~drifted' PROVE annots' = AnnotsOf(entry, arrays')
      OBVIOUS
    <3>1. ~drifted
      OBVIOUS
    <3>2. annots = Collected(arrays[a])
      BY <1>1, <1>2, <1>5, <3>1 DEF Kept, AnnotsOf
    <3> QED BY <1>2, <1>3, <1>5, <2>2, <3>1, <3>2 DEF AnnotsOf
  <2> QED BY <1>1, <1>2, <1>3, <1>4, <1>5, <2>3, <2>4, <2>5 DEF Kept
<1>6. CASE a # entry
  <2>1. annots' = annots /\ drifted' = drifted
    BY <1>6
  <2>2. HasArray(entry) => arrays'[entry] = arrays[entry]
    BY <1>3, <1>6 DEF HasArray
  <2>3. AnnotsOf(entry, arrays') = AnnotsOf(entry, arrays)
    BY <2>2 DEF AnnotsOf
  <2> QED BY <1>1, <1>3, <1>4, <2>1, <2>2, <2>3 DEF Kept
<1> QED BY <1>5, <1>6

(* What a client can reach is an array with its watchdogs.                 *)
LEMMA ReachableFacts ==
  ASSUME IInv, alive, NEW a \in Reachable
  PROVE  /\ a \in ArrayRefs \cup {Direct} /\ arrays[a] \in Array
         /\ Len(arrays[a].elems) <= MaxLen /\ Follows(arrays[a], a = entry)
BY DEF IInv, Kept, Reachable

(* addProperty of an array: appended elements keep the order.              *)
LEMMA AddElementKeeps ==
  ASSUME IInv, NEW a \in Reachable, NEW i \in 1..(MaxLen + 1), NEW t \in Targets,
         AddElement(a, i, t)
  PROVE  Kept(entry', entryWatched', arrays', annots', drifted') /\ alive'
<1>1. alive /\ alive'
  BY DEF AddElement
<1>2. PICK arr : arr = arrays[a]
  OBVIOUS
<1>3. arr \in Array /\ Follows(arr, a = entry) /\ arr.watched = (a = entry)
  BY <1>1, <1>2, ReachableFacts DEF Follows
<1>4. PICK x : x = [to |-> t, watched |-> arrays[a].watched /\ IsRef(t)]
  OBVIOUS
<1>5. x \in Element /\ x.to = t /\ x.watched = (a = entry /\ IsRef(x.to))
  BY <1>2, <1>3, <1>4 DEF Element, IsRef
<1>6. PICK new : new = [arr EXCEPT !.elems = InsertAt(@, i, x)]
  OBVIOUS
<1>7. PICK n, u : n \in Nat /\ n = Len(arr.elems) /\ u = TargetsOf(arr)
  BY <1>3, ArrayFacts
<1>8. i \in 1..(Len(arr.elems) + 1) /\ n < MaxLen
  BY <1>2, <1>7 DEF AddElement
<1>9. /\ new \in Array /\ Len(new.elems) = n + 1
      /\ TargetsOf(new) = InsertAt(u, i, t)
      /\ Follows(new, a = entry)
  <2>1. /\ new \in Array /\ Len(new.elems) = Len(arr.elems) + 1
        /\ TargetsOf(new) = InsertAt(TargetsOf(arr), i, x.to)
    BY <1>3, <1>5, <1>6, <1>8, ElementAdded
  <2>2. (a = entry) \in BOOLEAN
    OBVIOUS
  <2>3. Follows(new, a = entry)
    <3>1. \A on \in BOOLEAN : Follows(arr, on) /\ x.watched = (on /\ IsRef(x.to))
                               => Follows(new, on)
      BY <1>3, <1>5, <1>6, <1>8, ElementAdded
    <3> QED BY <1>3, <1>5, <2>2, <3>1, Zenon
  <2> QED BY <1>5, <1>7, <2>1, <2>3
<1>10. arrays' = [arrays EXCEPT ![a] = new] /\ UNCHANGED <<entry, entryWatched>>
  BY <1>2, <1>4, <1>6 DEF AddElement
<1> DEFINE moved == i <= n \/ t \in Inline
<1>11. moved \in BOOLEAN
  OBVIOUS
<1>12. /\ annots' = IF a = entry THEN Consolidated(NoEntry, t) ELSE annots
       /\ drifted' = (drifted \/ (a = entry /\ moved))
  BY <1>2, <1>3, <1>7 DEF AddElement, Notified
<1>13. u \in Seq(Targets) /\ Len(u) = n
  BY <1>3, <1>7, ArrayFacts
<1>14. NoEntry \notin Dicts
  BY PageAnnotsAssumption DEF Targets
<1>15. \A d \in Dicts : Occurrences(d, TargetsOf(new))
                            = Occurrences(d, u)
                              - (IF NoEntry = d THEN 1 ELSE 0) + (IF t = d THEN 1 ELSE 0)
  <2>1. i \in 1..(Len(u) + 1)
    BY <1>7, <1>8, <1>13
  <2>2. \A d \in Dicts : Occurrences(d, TargetsOf(new))
                          = Occurrences(d, u) + (IF t = d THEN 1 ELSE 0)
    BY <1>9, <1>13, <2>1, OccurrencesInsertAt
  <2>3. \A d \in Dicts : Occurrences(d, u) \in Nat /\ NoEntry # d
    BY <1>13, <1>14, OccurrencesType
  <2> QED BY <2>2, <2>3
<1>16. ASSUME ~moved, annots = Collected(arr) PROVE Consolidated(NoEntry, t) = Collected(new)
  <2>1. annots \in Seq(Dicts \cup Inline)
    BY <1>1 DEF IInv, PageAnnotsTypeOK
  <2>2. i = n + 1 /\ t \notin Inline
    BY <1>7, <1>8, <1>16
  <2>3. TargetsOf(new) = Append(u, t)
    <3>1. PICK v : v = Append(u, t)
      OBVIOUS
    <3>2. /\ v \in Seq(Targets) /\ Len(v) = n + 1
          /\ \A j \in 1..n : v[j] = u[j]
          /\ v[n + 1] = t
      BY <1>13, <3>1, AppendProperties
    <3>3. PICK w : w = InsertAt(u, i, t)
      OBVIOUS
    <3>4. /\ w \in Seq(Targets) /\ Len(w) = n + 1
          /\ \A j \in 1..(n + 1) : w[j] = IF j < i THEN u[j] ELSE IF j = i THEN t ELSE u[j - 1]
      <4>1. w \in Seq(Targets) /\ Len(w) = n + 1 /\ w = InsertedSeq(u, n, i, t)
        BY <1>13, <2>2, <3>3, InsertAtFacts
      <4> QED BY <4>1 DEF InsertedSeq
    <3>5. \A j \in 1..(n + 1) : v[j] = w[j]
      BY <1>7, <2>2, <3>2, <3>4
    <3>6. v = w
      BY <1>7, <3>2, <3>4, <3>5, SameSeq
    <3> QED BY <1>9, <3>1, <3>3, <3>6
  <2>4. Collected(new) = IF IsDict(t) THEN Append(annots, t) ELSE annots
    BY <1>7, <1>13, <1>16, <2>3, DictsOfAppend DEF Collected
  <2>5. IsDict(t) <=> t \in Dicts
    BY <2>2 DEF IsDict
  <2> QED BY <1>14, <2>1, <2>4, <2>5, ConsolidatedFacts
<1> HIDE DEF moved
<1>17. Len(new.elems) <= MaxLen
  BY <1>7, <1>8, <1>9, PageAnnotsAssumption
<1>18. NoEntry \in Dicts => Occurrences(NoEntry, TargetsOf(arrays[a])) # 0
  BY <1>14
<1>19. \A d \in Dicts : Occurrences(d, TargetsOf(new))
                            = Occurrences(d, TargetsOf(arrays[a]))
                              - (IF NoEntry = d THEN 1 ELSE 0) + (IF t = d THEN 1 ELSE 0)
  BY <1>2, <1>7, <1>15
<1>20. a = entry /\ ~drifted' /\ annots = Collected(arrays[a])
         => Consolidated(NoEntry, t) = Collected(new)
  BY <1>2, <1>12, <1>16
<1>23. drifted' \in BOOLEAN /\ (drifted => drifted') /\ (a # entry => drifted' = drifted)
  BY <1>11, <1>12 DEF IInv, PageAnnotsTypeOK
<1>24. annots' = IF a = entry THEN Consolidated(NoEntry, t) ELSE annots
  BY <1>12
<1>21. new \in Array /\ Follows(new, a = entry)
  BY <1>9
<1>22. Changed(a, new, NoEntry, t)
  BY <1>10, <1>17, <1>18, <1>19, <1>20, <1>21, <1>23, <1>24 DEF Changed
<1> QED BY <1>1, <1>22, ElementChanged

(* delProperty of an array: the watchdog is on the element it is           *)
(* unregistered from, and the first with its value keeps the order.        *)
LEMMA DelElementKeeps ==
  ASSUME IInv, NEW a \in Reachable, NEW i \in DOMAIN arrays[a].elems, DelElement(a, i)
  PROVE  Kept(entry', entryWatched', arrays', annots', drifted') /\ alive'
<1>1. alive
  BY DEF DelElement
<1>2. PICK arr : arr = arrays[a]
  OBVIOUS
<1>3. /\ arr \in Array /\ Follows(arr, a = entry) /\ arr.watched = (a = entry)
      /\ Len(arr.elems) <= MaxLen
  BY <1>1, <1>2, ReachableFacts DEF Follows
<1>4. PICK n, u : n \in Nat /\ n = Len(arr.elems) /\ u = TargetsOf(arr)
  BY <1>3, ArrayFacts
<1>5. i \in 1..Len(arr.elems) /\ i \in 1..n
  BY <1>2, <1>3, <1>4, ArrayFacts
<1>6. PICK old : old = arr.elems[i].to
  OBVIOUS
<1>7. /\ u \in Seq(Targets) /\ Len(u) = n /\ u[i] = old /\ old \in Targets
      /\ \A j \in 1..n : u[j] = arr.elems[j].to
  BY <1>3, <1>4, <1>5, <1>6, ArrayFacts
<1>8. alive'
  <2>1. arr.elems[i].watched = (a = entry /\ IsRef(old))
    BY <1>3, <1>5, <1>6 DEF Follows
  <2>2. alive' = (arr.watched /\ IsRef(old) => arr.elems[i].watched)
    BY <1>2, <1>6 DEF DelElement
  <2> QED BY <1>3, <2>1, <2>2
<1>9. PICK new : new = [arr EXCEPT !.elems = RemoveAt(@, i)]
  OBVIOUS
<1>10. new \in Array /\ Len(new.elems) = n - 1 /\ TargetsOf(new) = RemoveAt(u, i)
  BY <1>3, <1>4, <1>5, <1>9, ElementRemoved
<1>11. Follows(new, a = entry)
  <2>1. \A on \in BOOLEAN : Follows(arr, on) => Follows(new, on)
    BY <1>3, <1>5, <1>9, ElementRemoved
  <2>2. (a = entry) \in BOOLEAN
    OBVIOUS
  <2> QED BY <1>3, <2>1, <2>2, Zenon
<1>12. arrays' = [arrays EXCEPT ![a] = new] /\ UNCHANGED <<entry, entryWatched>>
  BY <1>2, <1>9 DEF DelElement
<1> DEFINE moved == ~IsFirst(arr, i) \/ old \in Inline
<1>13. moved \in BOOLEAN
  OBVIOUS
<1>14. /\ annots' = IF a = entry THEN Consolidated(old, NoEntry) ELSE annots
       /\ drifted' = (drifted \/ (a = entry /\ moved))
  BY <1>2, <1>3, <1>6 DEF DelElement, Notified
<1>15. NoEntry \notin Dicts
  BY PageAnnotsAssumption DEF Targets
<1>16. old \in Dicts => Occurrences(old, TargetsOf(arrays[a])) # 0
  BY <1>2, <1>4, <1>5, <1>7, OccurrencesType
<1>17. \A d \in Dicts : Occurrences(d, TargetsOf(new))
                            = Occurrences(d, TargetsOf(arrays[a]))
                              - (IF old = d THEN 1 ELSE 0) + (IF NoEntry = d THEN 1 ELSE 0)
  <2>1. \A d \in Dicts : Occurrences(d, TargetsOf(new))
                          = Occurrences(d, u) - (IF old = d THEN 1 ELSE 0)
    BY <1>5, <1>7, <1>10, OccurrencesRemoveAt
  <2>2. \A d \in Dicts : Occurrences(d, u) \in Nat /\ NoEntry # d
    BY <1>7, <1>15, OccurrencesType
  <2> QED BY <1>2, <1>4, <2>1, <2>2
<1>18. ASSUME ~moved, annots = Collected(arr) PROVE Consolidated(old, NoEntry) = Collected(new)
  <2>1. annots \in Seq(Dicts \cup Inline)
    BY <1>1 DEF IInv, PageAnnotsTypeOK
  <2>2. \A j \in 1..(i - 1) : u[j] # u[i]
    <3>1. \A j \in 1..(i - 1) : arr.elems[j].to # arr.elems[i].to
      BY <1>18 DEF IsFirst
    <3> QED BY <1>5, <1>6, <1>7, <3>1
  <2>3. Collected(new) = IF IsDict(old) THEN RemoveFirst(annots, old) ELSE annots
    BY <1>4, <1>5, <1>7, <1>10, <1>18, <2>2, DictsOfRemoved DEF Collected
  <2>4. IsDict(old) <=> old \in Dicts
    BY <1>18 DEF IsDict
  <2> QED BY <1>15, <2>1, <2>3, <2>4, ConsolidatedFacts
<1>19. a = entry /\ ~drifted' /\ annots = Collected(arrays[a])
         => Consolidated(old, NoEntry) = Collected(new)
  BY <1>2, <1>14, <1>18
<1> HIDE DEF moved
<1>20. drifted' \in BOOLEAN /\ (drifted => drifted') /\ (a # entry => drifted' = drifted)
  BY <1>13, <1>14 DEF IInv, PageAnnotsTypeOK
<1>21. annots' = IF a = entry THEN Consolidated(old, NoEntry) ELSE annots
  BY <1>14
<1>22. Len(new.elems) <= MaxLen
  BY <1>3, <1>4, <1>10, PageAnnotsAssumption
<1>23. Changed(a, new, old, NoEntry)
  BY <1>10, <1>11, <1>12, <1>16, <1>17, <1>19, <1>20, <1>21, <1>22 DEF Changed
<1> QED BY <1>1, <1>8, <1>23, ElementChanged

(* One element exchanged for another.                                      *)
LEMMA ReplacedKeeps ==
  ASSUME IInv, alive, NEW a \in Reachable, NEW i \in DOMAIN arrays[a].elems, NEW x \in Element,
         x.watched = (a = entry /\ IsRef(x.to)),
         UNCHANGED <<entry, entryWatched>>,
         arrays' = [arrays EXCEPT ![a] =
                     [arrays[a] EXCEPT !.elems = [arrays[a].elems EXCEPT ![i] = x]]],
         annots' = IF a = entry THEN Consolidated(arrays[a].elems[i].to, x.to) ELSE annots,
         drifted' = (drifted \/ a = entry)
  PROVE  Kept(entry', entryWatched', arrays', annots', drifted')
<1>2. PICK arr : arr = arrays[a]
  OBVIOUS
<1>3. arr \in Array /\ Follows(arr, a = entry) /\ Len(arr.elems) <= MaxLen
  BY <1>2, ReachableFacts
<1>4. PICK n, u : n \in Nat /\ n = Len(arr.elems) /\ u = TargetsOf(arr)
  BY <1>3, ArrayFacts
<1>5. i \in 1..Len(arr.elems) /\ i \in 1..n
  BY <1>2, <1>3, <1>4, ArrayFacts
<1>6. PICK old : old = arr.elems[i].to
  OBVIOUS
<1>7. u \in Seq(Targets) /\ Len(u) = n /\ u[i] = old
  BY <1>3, <1>4, <1>5, <1>6, ArrayFacts
<1>8. PICK s : s = [arr.elems EXCEPT ![i] = x]
  OBVIOUS
<1>9. PICK new : new = [arr EXCEPT !.elems = s]
  OBVIOUS
<1>10. new \in Array /\ Len(new.elems) = n /\ TargetsOf(new) = [u EXCEPT ![i] = x.to]
  BY <1>3, <1>4, <1>5, <1>8, <1>9, ElementSet
<1>11. Follows(new, a = entry)
  <2>1. \A on \in BOOLEAN : Follows(arr, on) /\ x.watched = (on /\ IsRef(x.to))
                              => Follows(new, on)
    BY <1>3, <1>5, <1>8, <1>9, ElementSet
  <2>2. (a = entry) \in BOOLEAN
    OBVIOUS
  <2> QED BY <1>3, <2>1, <2>2, Zenon
<1>12. arrays' = [arrays EXCEPT ![a] = new]
  BY <1>2, <1>8, <1>9, Zenon
<1>16. old \in Dicts => Occurrences(old, TargetsOf(arrays[a])) # 0
  BY <1>2, <1>4, <1>5, <1>7, OccurrencesType
<1>17. \A d \in Dicts : Occurrences(d, TargetsOf(new))
                            = Occurrences(d, TargetsOf(arrays[a]))
                              - (IF old = d THEN 1 ELSE 0) + (IF x.to = d THEN 1 ELSE 0)
  <2>1. x.to \in Targets
    BY DEF Element
  <2>2. i \in 1..Len(u)
    BY <1>5, <1>7
  <2> QED BY <1>2, <1>4, <1>7, <1>10, <2>1, <2>2, OccurrencesExcept
<1>20. drifted' \in BOOLEAN /\ (drifted => drifted') /\ (a # entry => drifted' = drifted)
  BY DEF IInv, PageAnnotsTypeOK
<1>21. annots' = IF a = entry THEN Consolidated(old, x.to) ELSE annots
  BY <1>2, <1>6
<1>22. Len(new.elems) <= MaxLen
  BY <1>3, <1>4, <1>10
<1>23. Changed(a, new, old, x.to)
  BY <1>10, <1>11, <1>12, <1>16, <1>17, <1>20, <1>21, <1>22 DEF Changed
<1> QED BY <1>23, ElementChanged

(* setProperty of an array: the watchdog is on the element it is           *)
(* unregistered from.                                                      *)
LEMMA SetElementKeeps ==
  ASSUME IInv, NEW a \in Reachable, NEW t \in Targets, NEW i \in DOMAIN arrays[a].elems,
         SetElement(a, i, t)
  PROVE  Kept(entry', entryWatched', arrays', annots', drifted') /\ alive'
<1>1. alive
  BY DEF SetElement
<1>2. /\ arrays[a] \in Array /\ i \in 1..Len(arrays[a].elems)
      /\ arrays[a].watched = (a = entry)
      /\ arrays[a].elems[i].watched = (a = entry /\ IsRef(arrays[a].elems[i].to))
      /\ a \in DOMAIN arrays
  <2>1. arrays[a] \in Array /\ Follows(arrays[a], a = entry) /\ a \in DOMAIN arrays
    BY <1>1, ReachableFacts DEF IInv, PageAnnotsTypeOK
  <2>2. i \in 1..Len(arrays[a].elems)
    BY <2>1, ArrayFacts
  <2> QED BY <2>1, <2>2 DEF Follows
<1>3. PICK x : x = [to |-> t, watched |-> arrays[a].watched /\ IsRef(t)]
  OBVIOUS
<1>4. x \in Element /\ x.to = t /\ x.watched = (a = entry /\ IsRef(x.to))
  BY <1>2, <1>3 DEF Element, IsRef
<1>5. arrays' = [arrays EXCEPT ![a] =
                  [arrays[a] EXCEPT !.elems = [arrays[a].elems EXCEPT ![i] = x]]]
  BY <1>3 DEF SetElement
<1>6. /\ annots' = IF a = entry THEN Consolidated(arrays[a].elems[i].to, x.to) ELSE annots
      /\ drifted' = (drifted \/ a = entry)
  BY <1>2, <1>4 DEF SetElement, Notified
<1>7. alive'
  BY <1>2 DEF SetElement
<1>8. UNCHANGED <<entry, entryWatched>>
  BY DEF SetElement
<1> QED BY <1>1, <1>4, <1>5, <1>6, <1>7, <1>8, ReplacedKeeps

(* A reference in the array that gets another value: the watchdog stays on *)
(* it, and is told when that array is the one of the page.                 *)
LEMMA SetReferenceKeeps ==
  ASSUME IInv, NEW a \in Reachable, NEW t \in Dicts \cup {Odd},
         NEW i \in DOMAIN arrays[a].elems, SetReference(a, i, t)
  PROVE  Kept(entry', entryWatched', arrays', annots', drifted') /\ alive'
<1>1. alive /\ alive'
  BY DEF SetReference
<1>2. PICK old \in Element : /\ old = arrays[a].elems[i] /\ IsRef(old.to)
                             /\ old.watched = (a = entry)
  <2>1. arrays[a] \in Array /\ Follows(arrays[a], a = entry)
    BY <1>1, ReachableFacts
  <2>2. i \in 1..Len(arrays[a].elems) /\ arrays[a].elems[i] \in Element
    BY <2>1, ArrayFacts
  <2>3. IsRef(arrays[a].elems[i].to)
    BY DEF SetReference
  <2> QED BY <2>1, <2>2, <2>3 DEF Follows
<1>3. PICK x : x = [old EXCEPT !.to = t]
  OBVIOUS
<1>4. x \in Element /\ x.to = t /\ x.watched = (a = entry /\ IsRef(x.to))
  BY <1>2, <1>3 DEF Element, IsRef, Targets
<1>5. arrays' = [arrays EXCEPT ![a] =
                  [arrays[a] EXCEPT !.elems = [arrays[a].elems EXCEPT ![i] = x]]]
  BY <1>2, <1>3 DEF SetReference
<1>6. /\ annots' = IF a = entry THEN Consolidated(arrays[a].elems[i].to, x.to) ELSE annots
      /\ drifted' = (drifted \/ a = entry)
  BY <1>2, <1>4 DEF SetReference, Notified
<1>8. UNCHANGED <<entry, entryWatched>>
  BY DEF SetReference
<1> QED BY <1>1, <1>4, <1>5, <1>6, <1>8, ReplacedKeeps

-----------------------------------------------------------------------------
(* Changes of the entry *)

(* The watchdogs are registered on the array of the entry e, and           *)
(* _annotations made anew, when none was on any array.                     *)
LEMMA MovedKeeps ==
  ASSUME NEW e \in ArrayRefs \cup {Odd, Direct, NoEntry},
         NEW as \in [ArrayRefs \cup {Direct} -> Array],
         \A a \in ArrayRefs \cup {Direct} : Len(as[a].elems) <= MaxLen /\ Follows(as[a], FALSE),
         e # Direct => as[Direct] = Unwatched(<<>>)
  PROVE  Kept(e, IF IsReference(e) THEN {"PropWatchDog"} ELSE {},
              Moved(e, as), AnnotsOf(e, as), FALSE)
<1>1. PICK new : new = Moved(e, as)
  OBVIOUS
<1>2. /\ new \in [ArrayRefs \cup {Direct} -> Array]
      /\ \A a \in ArrayRefs \cup {Direct} :
            Len(new[a].elems) <= MaxLen /\ Follows(new[a], a = e)
      /\ e # Direct => new[Direct] = Unwatched(<<>>)
      /\ AnnotsOf(e, new) = AnnotsOf(e, as)
  <2>1. CASE HasArray(e)
    <3>1. e \in ArrayRefs \cup {Direct}
      BY <2>1 DEF HasArray
    <3>2. PICK r : r = RegisteredOn(as[e])
      OBVIOUS
    <3>3. /\ r \in Array /\ Len(r.elems) <= MaxLen /\ Follows(r, TRUE)
          /\ TargetsOf(r) = TargetsOf(as[e])
      BY <3>1, <3>2, RegisteredFacts
    <3>4. new = [as EXCEPT ![e] = r]
      BY <1>1, <2>1, <3>2 DEF Moved
    <3>5. /\ new \in [ArrayRefs \cup {Direct} -> Array]
          /\ new[e] = r /\ \A a \in ArrayRefs \cup {Direct} : a # e => new[a] = as[a]
      BY <3>1, <3>3, <3>4
    <3>6. AnnotsOf(e, new) = AnnotsOf(e, as)
      BY <3>3, <3>5 DEF AnnotsOf, Collected
    <3>7. ASSUME NEW a \in ArrayRefs \cup {Direct}
          PROVE  Len(new[a].elems) <= MaxLen /\ Follows(new[a], a = e)
      <4>1. CASE a = e
        BY <3>3, <3>5, <4>1
      <4>2. CASE a # e
        BY <3>5, <4>2
      <4> QED BY <4>1, <4>2
    <3> QED BY <3>5, <3>6, <3>7
  <2>2. CASE ~HasArray(e)
    <3>1. new = as /\ \A a \in ArrayRefs \cup {Direct} : a # e
      BY <1>1, <2>2 DEF Moved, HasArray
    <3>2. \A a \in ArrayRefs \cup {Direct} : Follows(new[a], a = e)
      BY <3>1
    <3> QED BY <3>1, <3>2
  <2> QED BY <2>1, <2>2
<1>3. PICK an : an = AnnotsOf(e, as)
  OBVIOUS
<1>4. an = AnnotsOf(e, new)
  BY <1>2, <1>3
<1>5. /\ an \in Seq(Dicts \cup Inline)
      /\ \A d \in Dicts :
            Occurrences(d, an) = IF HasArray(e) THEN Occurrences(d, TargetsOf(new[e])) ELSE 0
  <2>1. new \in [ArrayRefs \cup {Direct} -> Array]
    BY <1>2
  <2>2. /\ AnnotsOf(e, new) \in Seq(Dicts \cup Inline)
        /\ \A d \in Dicts :
              Occurrences(d, AnnotsOf(e, new))
                = IF HasArray(e) THEN Occurrences(d, TargetsOf(new[e])) ELSE 0
    BY <2>1, AnnotsOfFacts
  <2> QED BY <1>4, <2>2
<1>6. Kept(e, IF IsReference(e) THEN {"PropWatchDog"} ELSE {}, new, an, FALSE)
  BY <1>2, <1>4, <1>5 DEF Kept
<1> QED BY <1>1, <1>3, <1>6

(* Unregistered from the array of the entry there are no watchdogs left,   *)
(* and it is possible.                                                     *)
LEMMA WithoutOldFacts ==
  ASSUME IInv, alive
  PROVE  /\ WithoutOld \in [ArrayRefs \cup {Direct} -> Array]
         /\ \A a \in ArrayRefs \cup {Direct} :
               /\ Len(WithoutOld[a].elems) <= MaxLen /\ Follows(WithoutOld[a], FALSE)
               /\ TargetsOf(WithoutOld[a]) = TargetsOf(arrays[a])
         /\ entry # Direct => WithoutOld[Direct] = Unwatched(<<>>)
         /\ HasArray(entry) => CanUnregister(arrays[entry])
<1>1. Kept(entry, entryWatched, arrays, annots, drifted)
  BY DEF IInv
<1>2. PICK old : old = WithoutOld
  OBVIOUS
<1>3. CASE HasArray(entry)
  <2>1. entry \in ArrayRefs \cup {Direct}
    BY <1>3 DEF HasArray
  <2>2. PICK r : r = UnregisteredFrom(arrays[entry])
    OBVIOUS
  <2>3. arrays[entry] \in Array /\ Len(arrays[entry].elems) <= MaxLen
    BY <1>1, <2>1 DEF Kept
  <2>4. /\ r \in Array /\ Len(r.elems) <= MaxLen /\ Follows(r, FALSE)
        /\ TargetsOf(r) = TargetsOf(arrays[entry])
    BY <2>2, <2>3, UnregisteredFacts
  <2>5. old = [arrays EXCEPT ![entry] = r]
    BY <1>2, <1>3, <2>2 DEF WithoutOld
  <2>6. /\ old \in [ArrayRefs \cup {Direct} -> Array]
        /\ old[entry] = r /\ \A a \in ArrayRefs \cup {Direct} : a # entry => old[a] = arrays[a]
    BY <1>1, <2>1, <2>4, <2>5 DEF Kept
  <2>7. ASSUME NEW a \in ArrayRefs \cup {Direct}
        PROVE  /\ Len(old[a].elems) <= MaxLen /\ Follows(old[a], FALSE)
               /\ TargetsOf(old[a]) = TargetsOf(arrays[a])
    <3>1. CASE a = entry
      BY <2>4, <2>6, <3>1
    <3>2. CASE a # entry
      <4>1. Len(arrays[a].elems) <= MaxLen /\ Follows(arrays[a], FALSE)
        BY <1>1, <3>2 DEF Kept
      <4> QED BY <2>6, <3>2, <4>1
    <3> QED BY <3>1, <3>2
  <2>8. entry # Direct => old[Direct] = Unwatched(<<>>)
    BY <1>1, <2>6 DEF Kept
  <2>9. CanUnregister(arrays[entry])
    <3>1. Follows(arrays[entry], TRUE)
      BY <1>1, <2>1 DEF Kept
    <3>2. DOMAIN arrays[entry].elems = 1..Len(arrays[entry].elems)
      BY <2>3, ArrayFacts
    <3> QED BY <3>1, <3>2 DEF CanUnregister, Follows
  <2> QED BY <1>2, <2>6, <2>7, <2>8, <2>9
<1>4. CASE ~HasArray(entry)
  <2>1. old = arrays /\ \A a \in ArrayRefs \cup {Direct} : a # entry
    BY <1>2, <1>4 DEF WithoutOld, HasArray
  <2>2. \A a \in ArrayRefs \cup {Direct} : Len(old[a].elems) <= MaxLen /\ Follows(old[a], FALSE)
    BY <1>1, <2>1 DEF Kept
  <2>3. /\ old \in [ArrayRefs \cup {Direct} -> Array]
        /\ entry # Direct => old[Direct] = Unwatched(<<>>)
    BY <1>1, <2>1 DEF Kept
  <2> QED BY <1>2, <1>4, <2>1, <2>2, <2>3
<1> QED BY <1>3, <1>4

(* Annots is replaced in the page dictionary. Only for a reference the     *)
(* program ends.                                                           *)
LEMMA PutEntryKeeps ==
  ASSUME IInv, alive, NEW e \in ArrayRefs \cup {Odd, Direct, NoEntry},
         NEW s \in Seq(Targets), Len(s) <= MaxLen, e # Direct => s = <<>>, PutEntry(e, s)
  PROVE  IInv' /\ (alive' \/ IsReference(entry))
<1>1. Kept(entry, entryWatched, arrays, annots, drifted)
  BY DEF IInv
<1>2. CASE IsReference(entry) /\ "ArrayWatchDog" \notin entryWatched
  <2>1. /\ entry' = e /\ alive' = FALSE
        /\ UNCHANGED <<entryWatched, arrays, annots, drifted>>
    BY <1>2 DEF PutEntry
  <2>2. IInv'
    BY <2>1 DEF IInv, PageAnnotsTypeOK
  <2> QED BY <1>2, <2>2
<1>3. CASE ~(IsReference(entry) /\ "ArrayWatchDog" \notin entryWatched)
  <2>1. PICK as : as = [WithoutOld EXCEPT ![Direct] = Unwatched(s)]
    OBVIOUS
  <2>2. /\ as \in [ArrayRefs \cup {Direct} -> Array]
        /\ \A a \in ArrayRefs \cup {Direct} : Len(as[a].elems) <= MaxLen /\ Follows(as[a], FALSE)
        /\ as[Direct] = Unwatched(s)
    <3>1. /\ WithoutOld \in [ArrayRefs \cup {Direct} -> Array]
          /\ \A a \in ArrayRefs \cup {Direct} :
                Len(WithoutOld[a].elems) <= MaxLen /\ Follows(WithoutOld[a], FALSE)
      BY WithoutOldFacts
    <3>2. PICK u : u = Unwatched(s)
      OBVIOUS
    <3>3. u \in Array /\ Len(u.elems) <= MaxLen /\ Follows(u, FALSE)
      BY <3>2, UnwatchedFacts
    <3> HIDE DEF WithoutOld
    <3> QED BY <2>1, <3>1, <3>2, <3>3
  <2>3. /\ entry' = e
        /\ entryWatched' = IF IsReference(e) THEN {"PropWatchDog"} ELSE {}
        /\ arrays' = Moved(e, as) /\ annots' = AnnotsOf(e, as) /\ drifted' = FALSE
        /\ alive' = (HasArray(entry) => CanUnregister(arrays[entry]))
    BY <1>3, <2>1 DEF PutEntry, Recollect, AnnotsOf
  <2>4. Kept(e, IF IsReference(e) THEN {"PropWatchDog"} ELSE {},
             Moved(e, as), AnnotsOf(e, as), FALSE)
    BY <2>2, MovedKeeps
  <2>5. Kept(entry', entryWatched', arrays', annots', drifted')
    BY <2>3, <2>4
  <2>6. alive'
    BY <2>3, WithoutOldFacts
  <2>7. alive' = TRUE
    BY <2>3, <2>6
  <2> QED BY <2>5, <2>7, KeptIsTypedNext
<1> QED BY <1>2, <1>3

(* The reference in Annots gets another value.                             *)
LEMMA SetEntryReferenceKeeps ==
  ASSUME IInv, NEW e \in ArrayRefs \cup {Odd}, SetEntryReference(e)
  PROVE  IInv' /\ alive'
<1>1. alive
  BY DEF SetEntryReference
<1>2. Kept(entry, entryWatched, arrays, annots, drifted)
  BY <1>1 DEF IInv
<1>3. PICK as : as = WithoutOld
  OBVIOUS
<1>4. /\ as \in [ArrayRefs \cup {Direct} -> Array]
      /\ \A a \in ArrayRefs \cup {Direct} :
            /\ Len(as[a].elems) <= MaxLen /\ Follows(as[a], FALSE)
            /\ TargetsOf(as[a]) = TargetsOf(arrays[a])
      /\ entry # Direct => as[Direct] = Unwatched(<<>>)
      /\ HasArray(entry) => CanUnregister(arrays[entry])
  BY <1>1, <1>3, WithoutOldFacts
<1>5. entry # Direct /\ IsReference(entry) /\ IsReference(e)
  BY PageAnnotsAssumption DEF SetEntryReference, IsReference
<1>6. AnnotsOf(e, as) = AnnotsOf(e, arrays)
  BY <1>4 DEF AnnotsOf, Collected, HasArray
<1>7. /\ entry' = e /\ entryWatched' = {"PropWatchDog"}
      /\ arrays' = Moved(e, as) /\ annots' = AnnotsOf(e, as) /\ drifted' = FALSE
  <2>1. entry' = e /\ entryWatched' = entryWatched /\ arrays' = Moved(e, as)
    BY <1>3 DEF SetEntryReference
  <2>2. annots' = AnnotsOf(e, arrays) /\ drifted' = FALSE
    BY DEF SetEntryReference, Recollect, AnnotsOf
  <2>3. entryWatched = {"PropWatchDog"}
    BY <1>2, <1>5 DEF Kept
  <2> QED BY <1>6, <2>1, <2>2, <2>3
<1>8. Kept(e, IF IsReference(e) THEN {"PropWatchDog"} ELSE {}, Moved(e, as), AnnotsOf(e, as), FALSE)
  BY <1>4, <1>5, MovedKeeps
<1>9. Kept(entry', entryWatched', arrays', annots', drifted')
  BY <1>5, <1>7, <1>8
<1>10. alive' = TRUE
  <2>1. alive' = (HasArray(entry) => CanUnregister(arrays[entry]))
    BY DEF SetEntryReference
  <2> QED BY <1>4, <2>1
<1> QED BY <1>9, <1>10, KeptIsTypedNext

(* The page is opened again.                                               *)
LEMMA ReopenPageKeeps ==
  ASSUME IInv, ReopenPage
  PROVE  IInv' /\ alive'
<1>1. alive /\ alive' = TRUE
  BY DEF ReopenPage, IInv, PageAnnotsTypeOK
<1>2. Kept(entry, entryWatched, arrays, annots, drifted)
  BY <1>1 DEF IInv
<1>3. PICK as : as = [a \in DOMAIN arrays |-> UnregisteredFrom(arrays[a])]
  OBVIOUS
<1>4. as = [a \in ArrayRefs \cup {Direct} |-> UnregisteredFrom(arrays[a])]
  BY <1>2, <1>3 DEF Kept
<1>5. ASSUME NEW a \in ArrayRefs \cup {Direct}
      PROVE  /\ as[a] \in Array /\ Len(as[a].elems) <= MaxLen /\ Follows(as[a], FALSE)
             /\ TargetsOf(as[a]) = TargetsOf(arrays[a])
  <2>1. as[a] = UnregisteredFrom(arrays[a])
    BY <1>4
  <2>2. arrays[a] \in Array /\ Len(arrays[a].elems) <= MaxLen
    BY <1>2 DEF Kept
  <2> QED BY <2>1, <2>2, UnregisteredFacts
<1>6. as \in [ArrayRefs \cup {Direct} -> Array]
  BY <1>4, <1>5
<1>7. ASSUME entry # Direct PROVE as[Direct] = Unwatched(<<>>)
  <2>1. arrays[Direct] = Unwatched(<<>>)
    BY <1>2, <1>7 DEF Kept
  <2>2. TargetsOf(Unwatched(<<>>)) = <<>>
    BY EmptySeq, UnwatchedFacts
  <2> QED BY <1>4, <2>1, <2>2 DEF UnregisteredFrom
<1>8. AnnotsOf(entry, as) = AnnotsOf(entry, arrays)
  BY <1>5 DEF AnnotsOf, Collected, HasArray
<1>9. /\ entry' = entry
      /\ entryWatched' = IF IsReference(entry) THEN {"PropWatchDog"} ELSE {}
      /\ arrays' = Moved(entry, as) /\ annots' = AnnotsOf(entry, as) /\ drifted' = FALSE
  <2>1. /\ entry' = entry /\ arrays' = Moved(entry, as)
        /\ entryWatched' = IF IsReference(entry) THEN {"PropWatchDog"} ELSE {}
    BY <1>3 DEF ReopenPage
  <2>2. annots' = AnnotsOf(entry, arrays) /\ drifted' = FALSE
    BY DEF ReopenPage, Recollect, AnnotsOf
  <2> QED BY <1>8, <2>1, <2>2
<1>10. entry \in ArrayRefs \cup {Odd, Direct, NoEntry}
  BY <1>2 DEF Kept
<1>11. Kept(entry, IF IsReference(entry) THEN {"PropWatchDog"} ELSE {},
            Moved(entry, as), AnnotsOf(entry, as), FALSE)
  BY <1>5, <1>6, <1>7, <1>10, MovedKeeps
<1>12. Kept(entry', entryWatched', arrays', annots', drifted')
  BY <1>9, <1>11
<1> QED BY <1>1, <1>12, KeptIsTypedNext

(* add, with an Annots entry or without.                                   *)
LEMMA AddAnnotationKeeps ==
  ASSUME IInv, NEW d \in Dicts, AddAnnotation(d)
  PROVE  IInv' /\ alive'
<1>1. alive
  BY DEF AddAnnotation
<1>2. Kept(entry, entryWatched, arrays, annots, drifted)
  BY <1>1 DEF IInv
<1>3. d \in Targets
  BY DEF Targets
<1>4. CASE entry = NoEntry
  <2>1. PICK one : one = <<d>>
    OBVIOUS
  <2>2. one \in Seq(Targets) /\ Len(one) = 1 /\ one[1] = d
    BY <1>3, <2>1
  <2>3. SelectDicts(one) = one
    <3>1. \A i \in 1..Len(one) : IsDict(one[i])
      BY <2>2 DEF IsDict
    <3> QED BY <2>2, <3>1, DictsOfDicts
  <2>4. PICK u : u = Unwatched(one)
    OBVIOUS
  <2>5. /\ u \in Array /\ Len(u.elems) = 1 /\ TargetsOf(u) = one /\ Follows(u, FALSE)
    BY <2>2, <2>4, UnwatchedFacts
  <2>6. PICK as : as = [arrays EXCEPT ![Direct] = u]
    OBVIOUS
  <2>7. /\ \A a \in ArrayRefs \cup {Direct} :
              Len(arrays[a].elems) <= MaxLen /\ Follows(arrays[a], FALSE)
        /\ arrays \in [ArrayRefs \cup {Direct} -> Array]
    <3>1. \A a \in ArrayRefs \cup {Direct} : a # entry
      BY <1>4, PageAnnotsAssumption
    <3> QED BY <1>2, <3>1 DEF Kept
  <2>8. /\ as \in [ArrayRefs \cup {Direct} -> Array]
        /\ \A a \in ArrayRefs \cup {Direct} : Len(as[a].elems) <= MaxLen /\ Follows(as[a], FALSE)
        /\ as[Direct] = u
    <3>1. 1 <= MaxLen
      BY PageAnnotsAssumption
    <3> QED BY <2>5, <2>6, <2>7, <3>1
  <2>9. HasArray(Direct) /\ ~IsReference(Direct)
    BY PageAnnotsAssumption DEF HasArray, IsReference
  <2>10. Moved(Direct, as) = [arrays EXCEPT ![Direct] = RegisteredOn(u)]
    <3>1. PICK r : r = RegisteredOn(u)
      OBVIOUS
    <3>2. Moved(Direct, as) = [as EXCEPT ![Direct] = r]
      BY <2>8, <2>9, <3>1 DEF Moved
    <3> QED BY <2>6, <2>7, <3>1, <3>2
  <2>11. AnnotsOf(Direct, as) = one
    BY <2>3, <2>5, <2>8, <2>9 DEF AnnotsOf, Collected
  <2>12. /\ entry' = Direct /\ entryWatched' = {} /\ arrays' = Moved(Direct, as)
         /\ annots' = AnnotsOf(Direct, as) /\ drifted' = FALSE /\ alive' = alive
    <3>1. /\ entry' = Direct /\ entryWatched' = entryWatched /\ alive' = alive
          /\ arrays' = [arrays EXCEPT ![Direct] = RegisteredOn(u)]
          /\ annots' = one /\ drifted' = FALSE
      BY <1>4, <2>1, <2>4 DEF AddAnnotation
    <3>2. entryWatched = {}
      BY <1>2, <1>4, PageAnnotsAssumption DEF Kept, IsReference
    <3> QED BY <2>10, <2>11, <3>1, <3>2
  <2>13. Kept(Direct, IF IsReference(Direct) THEN {"PropWatchDog"} ELSE {},
              Moved(Direct, as), AnnotsOf(Direct, as), FALSE)
    BY <2>8, MovedKeeps
  <2>14. Kept(entry', entryWatched', arrays', annots', drifted')
    BY <2>9, <2>12, <2>13
  <2>15. alive' = TRUE
    BY <1>1, <2>12 DEF IInv, PageAnnotsTypeOK
  <2> QED BY <2>14, <2>15, KeptIsTypedNext
<1>5. CASE entry # NoEntry
  <2>1. HasArray(entry) /\ AddElement(entry, Len(arrays[entry].elems) + 1, d)
    BY <1>5 DEF AddAnnotation
  <2>2. entry \in Reachable
    BY <2>1 DEF HasArray, Reachable
  <2>3. Len(arrays[entry].elems) + 1 \in 1..(MaxLen + 1)
    <3>1. arrays[entry] \in Array /\ Len(arrays[entry].elems) <= MaxLen
      BY <1>1, <2>2, ReachableFacts
    <3>2. PICK n \in Nat : n = Len(arrays[entry].elems)
      BY <3>1, ArrayFacts
    <3>3. MaxLen \in Nat /\ n <= MaxLen
      BY <3>1, <3>2, PageAnnotsAssumption
    <3>4. n + 1 \in 1..(MaxLen + 1)
      BY <3>3
    <3> QED BY <3>2, <3>4
  <2>4. Kept(entry', entryWatched', arrays', annots', drifted') /\ alive'
    BY <1>3, <2>1, <2>2, <2>3, AddElementKeeps
  <2>5. alive' \in BOOLEAN
    BY <2>1 DEF AddElement, IInv, PageAnnotsTypeOK
  <2> QED BY <2>4, <2>5, KeptIsTypedNext
<1> QED BY <1>4, <1>5

-----------------------------------------------------------------------------
(* Every step *)

(* A page that was just opened satisfies the invariant.                    *)
LEMMA InitInv == Init => IInv
<1> SUFFICES ASSUME Init PROVE IInv
  OBVIOUS
<1>1. PICK held \in [ArrayRefs \cup {Direct} -> NewArrays \cup {<<>>}] :
        LET as == [a \in DOMAIN held |-> Unwatched(held[a])] IN
        /\ entry # Direct => held[Direct] = <<>>
        /\ arrays = Moved(entry, as)
        /\ annots = IF HasArray(entry) THEN Collected(as[entry]) ELSE <<>>
  BY DEF Init
<1>2. PICK as : as = [a \in ArrayRefs \cup {Direct} |-> Unwatched(held[a])]
  OBVIOUS
<1>3. ASSUME NEW a \in ArrayRefs \cup {Direct}
      PROVE  as[a] \in Array /\ Len(as[a].elems) <= MaxLen /\ Follows(as[a], FALSE)
  <2>1. held[a] \in Seq(Targets) /\ Len(held[a]) <= MaxLen
    <3>1. << >> \in Seq(Targets) /\ Len(<< >>) <= MaxLen
      BY EmptySeq, PageAnnotsAssumption
    <3> QED BY <3>1, PageAnnotsAssumption
  <2>2. as[a] = Unwatched(held[a])
    BY <1>2
  <2> QED BY <2>1, <2>2, UnwatchedFacts
<1>4. as \in [ArrayRefs \cup {Direct} -> Array]
  BY <1>2, <1>3
<1>5. entry # Direct => as[Direct] = Unwatched(<<>>)
  BY <1>1, <1>2
<1>6. entry \in ArrayRefs \cup {Odd, Direct, NoEntry} /\ alive = TRUE /\ drifted = FALSE
      /\ entryWatched = IF IsReference(entry) THEN {"PropWatchDog"} ELSE {}
  BY DEF Init
<1>7. arrays = Moved(entry, as) /\ annots = AnnotsOf(entry, as)
  <2>1. DOMAIN held = ArrayRefs \cup {Direct}
    OBVIOUS
  <2> QED BY <1>1, <1>2, <2>1 DEF AnnotsOf
<1>8. Kept(entry, IF IsReference(entry) THEN {"PropWatchDog"} ELSE {},
           Moved(entry, as), AnnotsOf(entry, as), FALSE)
  BY <1>3, <1>4, <1>5, <1>6, MovedKeeps
<1>9. Kept(entry, entryWatched, arrays, annots, drifted)
  BY <1>6, <1>7, <1>8
<1> QED BY <1>6, <1>9, KeptIsTyped

(* For the edits of an array.                                              *)
LEMMA ElementStep ==
  ASSUME IInv, Kept(entry', entryWatched', arrays', annots', drifted'), alive', alive' \in BOOLEAN
  PROVE  IInv' /\ alive'
BY KeptIsTypedNext

(* Every step keeps the invariant, and none but a change of an Annots      *)
(* entry that is a reference ends the program.                             *)
LEMMA NextInv ==
  ASSUME IInv, Next
  PROVE  IInv' /\ (alive' \/ IsReference(entry))
<1>1. ASSUME NEW a \in Reachable, NEW i \in 1..(MaxLen + 1), NEW t \in Targets,
             AddElement(a, i, t)
      PROVE  IInv' /\ alive'
  <2>1. alive' \in BOOLEAN
    BY <1>1 DEF AddElement, IInv, PageAnnotsTypeOK
  <2> QED BY <1>1, <2>1, AddElementKeeps, ElementStep
<1>2. ASSUME NEW a \in Reachable, NEW i \in DOMAIN arrays[a].elems, DelElement(a, i)
      PROVE  IInv' /\ alive'
  <2>1. alive' \in BOOLEAN
    BY <1>2 DEF DelElement
  <2> QED BY <1>2, <2>1, DelElementKeeps, ElementStep
<1>3. ASSUME NEW a \in Reachable, NEW t \in Targets, NEW i \in DOMAIN arrays[a].elems,
             SetElement(a, i, t)
      PROVE  IInv' /\ alive'
  <2>1. alive' \in BOOLEAN
    BY <1>3 DEF SetElement
  <2> QED BY <1>3, <2>1, SetElementKeeps, ElementStep
<1>4. ASSUME NEW a \in Reachable, NEW t \in Dicts \cup {Odd},
             NEW i \in DOMAIN arrays[a].elems, SetReference(a, i, t)
      PROVE  IInv' /\ alive'
  <2>1. alive' \in BOOLEAN
    BY <1>4 DEF SetReference, IInv, PageAnnotsTypeOK
  <2> QED BY <1>4, <2>1, SetReferenceKeeps, ElementStep
<1>5. ASSUME NEW e \in ArrayRefs \cup {Odd, NoEntry}, SetEntry(e)
      PROVE  IInv' /\ (alive' \/ IsReference(entry))
  <2>1. << >> \in Seq(Targets) /\ Len(<< >>) <= MaxLen
    BY EmptySeq, PageAnnotsAssumption
  <2>2. alive /\ PutEntry(e, <<>>)
    BY <1>5 DEF SetEntry
  <2> QED BY <2>1, <2>2, PutEntryKeeps
<1>6. ASSUME NEW s \in NewArrays, SetDirectEntry(s)
      PROVE  IInv' /\ (alive' \/ IsReference(entry))
  <2>1. s \in Seq(Targets) /\ Len(s) <= MaxLen
    BY PageAnnotsAssumption
  <2>2. alive /\ PutEntry(Direct, s)
    BY <1>6 DEF SetDirectEntry
  <2> QED BY <2>1, <2>2, PutEntryKeeps
<1>7. ASSUME NEW e \in ArrayRefs \cup {Odd}, SetEntryReference(e)
      PROVE  IInv' /\ alive'
  BY <1>7, SetEntryReferenceKeeps
<1>8. ASSUME NEW d \in Dicts, AddAnnotation(d)
      PROVE  IInv' /\ alive'
  BY <1>8, AddAnnotationKeeps
<1>9. ASSUME NEW k \in DOMAIN annots, DelAnnotation(k)
      PROVE  IInv' /\ alive'
  <2>1. entry \in Reachable /\ k \in DOMAIN arrays[entry].elems /\ DelElement(entry, k)
    BY <1>9 DEF DelAnnotation, HasArray, Reachable
  <2> QED BY <1>2, <2>1
<1>10. ASSUME ReopenPage
       PROVE  IInv' /\ alive'
  BY <1>10, ReopenPageKeeps
<1> QED BY <1>1, <1>2, <1>3, <1>4, <1>5, <1>6, <1>7, <1>8, <1>9, <1>10 DEF Next

(* So do steps that change nothing.                                        *)
LEMMA StepInv == IInv /\ [Next]_vars => IInv'
<1>1. ASSUME IInv, UNCHANGED vars PROVE IInv'
  BY <1>1 DEF IInv, PageAnnotsTypeOK, Kept, vars
<1> QED BY <1>1, NextInv

(* It holds in every reachable state.                                      *)
LEMMA Invariant == Spec => []IInv
BY InitInv, StepInv, PTL DEF Spec

(* Every variable of CPageAnnots has its type, and what add and the        *)
(* clients insert never makes an array longer than it may be.              *)
THEOREM TypeCorrect == Spec => []PageAnnotsTypeOK
<1>1. IInv => PageAnnotsTypeOK
  BY InvImplies
<1> QED BY <1>1, Invariant, PTL

(* The watchdogs of CPageAnnots are where its annotations come from and    *)
(* nowhere else: unregistering always finds them, and an array that was    *)
(* left tells nothing.                                                     *)
THEOREM WatchersAlwaysFollow == Spec => []WatchersFollow
<1>1. IInv => WatchersFollow
  BY InvImplies
<1> QED BY <1>1, Invariant, PTL

(* _annotations has each annotation as often as the array that Annots      *)
(* leads to refers to it, after any edits of the array, of the references  *)
(* in it and of Annots.                                                    *)
THEOREM AnnotsAlwaysInStep == Spec => []AnnotsInStep
<1>1. IInv => AnnotsInStep
  BY InvImplies
<1> QED BY <1>1, Invariant, PTL

(* _annotations is in the order of the array as long as references are     *)
(* only appended and elements deleted that are the first with their value. *)
THEOREM AnnotsAlwaysInOrder == Spec => []AnnotsInOrder
<1>1. IInv => AnnotsInOrder
  BY InvImplies
<1> QED BY <1>1, Invariant, PTL

(* No call of the page, its dictionary or its array ends the program but   *)
(* one that replaces an Annots entry that is a reference.                  *)
THEOREM OnlyReferencesEnd == Spec => EndsOnlyFromReference
<1>1. IInv /\ [Next]_vars => [alive' \/ IsReference(entry)]_vars
  BY NextInv
<1> QED BY <1>1, Invariant, PTL DEF Spec, EndsOnlyFromReference

(* When _annotations is what would be collected and the array holds        *)
(* dictionaries only, a position is the same in both.                      *)
LEMMA DelStep ==
  ASSUME IInv, NEW k \in DOMAIN annots, alive, DelAnnotation(k), ~drifted,
         Odd \notin Range(TargetsOf(arrays[entry]))
  PROVE  TargetsOf(arrays'[entry]) = RemoveAt(annots, k)
<1>1. HasArray(entry) /\ k \in DOMAIN arrays[entry].elems /\ DelElement(entry, k)
  BY DEF DelAnnotation
<1>2. Kept(entry, entryWatched, arrays, annots, drifted)
  BY DEF IInv
<1>3. PICK arr \in Array : arr = arrays[entry]
  BY <1>1, <1>2 DEF Kept, HasArray
<1>4. PICK u : u = TargetsOf(arr)
  OBVIOUS
<1>5. u \in Seq(Targets) /\ k \in 1..Len(arr.elems) /\ Len(u) = Len(arr.elems)
  BY <1>1, <1>3, <1>4, ArrayFacts
<1>6. annots = u
  <2>1. annots = SelectDicts(u)
    BY <1>1, <1>2, <1>3, <1>4 DEF Kept, AnnotsOf, Collected
  <2>2. ASSUME NEW i \in 1..Len(u) PROVE IsDict(u[i])
    <3>1. u[i] \in Targets /\ u[i] \in Range(u)
      BY <1>5, ElementOfSeq, LenProperties DEF Range
    <3> QED BY <1>3, <1>4, <3>1 DEF Targets, IsDict
  <2> QED BY <1>5, <2>1, <2>2, DictsOfDicts
<1>7. PICK new : new = [arr EXCEPT !.elems = RemoveAt(@, k)]
  OBVIOUS
<1>8. TargetsOf(new) = RemoveAt(u, k)
  BY <1>4, <1>5, <1>7, ElementRemoved
<1>9. arrays'[entry] = new
  <2>1. entry \in DOMAIN arrays
    BY <1>1, <1>2 DEF Kept, HasArray
  <2>2. arrays' = [arrays EXCEPT ![entry] = new]
    BY <1>1, <1>3, <1>7 DEF DelElement
  <2> QED BY <1>2, <2>1, <2>2 DEF Kept
<1> QED BY <1>6, <1>8, <1>9

(* del removes the annotation it was given from the array, while the array *)
(* holds nothing but annotations in the order of _annotations.             *)
THEOREM DelTakesTheGiven == Spec => DelTakesGiven
<1>1. IInv => [\A k \in DOMAIN annots :
                  alive /\ DelAnnotation(k) /\ ~drifted
                  /\ Odd \notin Range(TargetsOf(arrays[entry]))
                      => TargetsOf(arrays'[entry]) = RemoveAt(annots, k)]_vars
  BY DelStep
<1> QED BY <1>1, Invariant, PTL DEF DelTakesGiven

=============================================================================
