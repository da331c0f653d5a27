------------------------- MODULE CPdfDocumentProofs -------------------------
(***************************************************************************)
(* Proofs about the file, about XRefWriter and about CPdfDocument, for     *)
(* every document, every number of objects, generations, values and saves, *)
(* and every bound.                                                        *)
(*                                                                         *)
(* First the operators of PdfFile: the chain of sections a table starts    *)
(* exists and leads backwards, the table parsed from a section depends on  *)
(* nothing behind that section, and so does the document shown.  Then the  *)
(* writer that appends to the file.  Then the document: that the           *)
(* properties its run checks, and the refinement of VersionedStore, hold.  *)
(*                                                                         *)
(* What is said of CPdfDocument for any documents is the invariant of      *)
(* XRefWriter, that the list of revisions ends with the last one saved,    *)
(* and the mode kept.  The rest needs documents without keywords.  There   *)
(* the properties need each other and more: a save shows in the file what  *)
(* was being worked on (SavedShowsWorking) only if no two pending          *)
(* references have one number (PendingKnown, with the newest table), if no *)
(* save left the writer with offsets (NoCommands), and if nothing is       *)
(* behind the newest revision unless it is pending (SavedIsLast). Whether  *)
(* a setter is refused depends on the encryption of the revision looked    *)
(* at, which has to be that of the newest one (EncryptKept).               *)
(*                                                                         *)
(* Induction over the natural numbers is done by least counterexample.     *)
(***************************************************************************)
EXTENDS CPdfDocument, SequenceTheorems, WellFoundedInduction, TLAPS

(* Every non-empty set of natural numbers has a least element. *)
LEMMA LeastNat ==
  ASSUME NEW S, S \subseteq Nat, S # {}
  PROVE  \E x \in S : \A y \in S : x <= y
<1> DEFINE Less == {ss \in Nat \X Nat : ss[1] < ss[2]}
<1>1. IsWellFoundedOn(Less, Nat)
  BY NatLessThanWellFounded DEF OpToRel
<1>2. PICK x \in S : \A y \in S : ~(<<y, x>> \in Less)
  <2> HIDE DEF Less
  <2> QED BY <1>1, WFMin
<1>3. ASSUME NEW y \in S PROVE x <= y
  <2>1. <<y, x>> \notin Less
    BY <1>2
  <2>2. y \in Nat /\ x \in Nat
    OBVIOUS
  <2>3. ~(y < x)
    BY <2>1, <2>2
  <2> QED BY <2>2, <2>3
<1> QED BY <1>2, <1>3

(* The greatest element of a non-empty bounded set of natural numbers is   *)
(* what Newest chooses.                                                    *)
LEMMA NewestIsGreatest ==
  ASSUME NEW p \in Nat, NEW S, S \subseteq 0..p, S # {}
  PROVE  Newest(S) \in S /\ \A x \in S : x <= Newest(S)
<1> DEFINE Bounds == {b \in Nat : \A x \in S : x <= b}
<1>1. p \in Bounds
  OBVIOUS
<1>2. PICK b \in Bounds : \A y \in Bounds : b <= y
  BY <1>1, LeastNat
<1>3. b \in S
  <2> SUFFICES ASSUME b \notin S PROVE FALSE
    OBVIOUS
  <2>1. \A x \in S : x \in Nat /\ x <= b /\ x # b
    OBVIOUS
  <2>2. PICK x \in S : TRUE
    OBVIOUS
  <2>3. b \in Nat /\ b > 0
    BY <2>1, <2>2
  <2>4. \A y \in S : y <= b - 1
    BY <2>1, <2>3
  <2>5. b - 1 \in Bounds
    BY <2>3, <2>4
  <2> QED BY <1>2, <2>3, <2>5
<1>4. \A x \in S : x <= b
  OBVIOUS
<1> QED BY <1>3, <1>4 DEF Newest

-----------------------------------------------------------------------------
(* The table of every section continues a section before it. *)
Backward(f, p) == \A q \in 1..p : f[q].trailer.prev \in 0..(q - 1)

(* One unfolding of the recursion that Chain stands for. *)
ChainStep(f, p, c) ==
    [q \in 0..p |-> IF q = 0 THEN {} ELSE {q} \cup c[f[q].trailer.prev]]

(* When tables lead backwards the recursive function in Chain exists. *)
LEMMA ChainExists ==
  ASSUME NEW f, NEW p \in Nat, Backward(f, p)
  PROVE  \E c : c = ChainStep(f, p, c)
<1> DEFINE Bad == {k \in 0..p : ~\E c : c = ChainStep(f, k, c)}
<1> SUFFICES ASSUME Bad # {} PROVE FALSE
  OBVIOUS
<1>1. PICK k \in Bad : \A y \in Bad : k <= y
  <2>1. Bad \subseteq Nat
    OBVIOUS
  <2> HIDE DEF Bad
  <2> QED BY <2>1, LeastNat
<1>2. CASE k = 0
  <2> DEFINE c == [q \in 0..0 |-> {}]
  <2>1. c = ChainStep(f, 0, c)
    BY DEF ChainStep
  <2> QED BY <1>2, <2>1
<1>3. CASE k # 0
  <2>1. k - 1 \in 0..p /\ k - 1 \notin Bad
    BY <1>1, <1>3
  <2>2. PICK c : c = ChainStep(f, k - 1, c)
    BY <2>1
  <2> DEFINE d == [q \in 0..k |-> IF q = k THEN {k} \cup c[f[k].trailer.prev] ELSE c[q]]
  <2>3. k \in 1..p /\ f[k].trailer.prev \in 0..(k - 1)
    BY <1>3 DEF Backward
  <2>4. \A q \in 0..(k - 1) : d[q] = c[q]
    BY <2>3
  <2>5. d[k] = {k} \cup d[f[k].trailer.prev]
    BY <2>3, <2>4
  <2>6. ASSUME NEW q \in 0..(k - 1)
        PROVE  d[q] = IF q = 0 THEN {} ELSE {q} \cup d[f[q].trailer.prev]
    <3>1. c[q] = IF q = 0 THEN {} ELSE {q} \cup c[f[q].trailer.prev]
      BY <2>2, <2>3 DEF ChainStep
    <3>2. q # 0 => f[q].trailer.prev \in 0..(k - 1)
      BY <2>3 DEF Backward
    <3> HIDE DEF d
    <3>3. q # 0 => d[f[q].trailer.prev] = c[f[q].trailer.prev]
      BY <2>4, <3>2
    <3>4. d[q] = c[q]
      BY <2>4
    <3> QED BY <3>1, <3>3, <3>4
  <2>7. d = ChainStep(f, k, d)
    <3>1. d = [q \in 0..k |-> d[q]]
      OBVIOUS
    <3> HIDE DEF d
    <3>2. 0..k = {k} \cup 0..(k - 1)
      BY <2>3
    <3>3. \A q \in 0..k : d[q] = IF q = 0 THEN {} ELSE {q} \cup d[f[q].trailer.prev]
      BY <1>3, <2>5, <2>6, <3>2
    <3> QED BY <3>1, <3>3 DEF ChainStep
  <2> QED BY <2>7
<1> QED BY <1>2, <1>3

(* Chain takes some fixed point of that unfolding. *)
LEMMA ChainIsFixedPoint ==
  ASSUME NEW f, NEW p \in Nat, Backward(f, p)
  PROVE  \E c : c = ChainStep(f, p, c) /\ Chain(f, p) = c[p]
<1> DEFINE c == CHOOSE x : x = ChainStep(f, p, x)
<1>1. c = ChainStep(f, p, c)
  BY ChainExists
<1>2. Chain(f, p) = c[p]
  BY DEF Chain, ChainStep
<1> QED BY <1>1, <1>2

(* All sections a section continues are before it or that section itself. *)
LEMMA ChainLeadsBackwards ==
  ASSUME NEW f, NEW p \in Nat, Backward(f, p)
  PROVE  Chain(f, p) \subseteq 1..p
<1>1. PICK c : c = ChainStep(f, p, c) /\ Chain(f, p) = c[p]
  BY ChainIsFixedPoint
<1> DEFINE Bad == {q \in 0..p : ~(c[q] \subseteq 1..q)}
<1>2. Bad = {}
  <2> SUFFICES ASSUME Bad # {} PROVE FALSE
    OBVIOUS
  <2>1. PICK q \in Bad : \A y \in Bad : q <= y
    <3>1. Bad \subseteq Nat
      BY SMTT(30)
    <3> HIDE DEF Bad
    <3> QED BY <3>1, LeastNat
  <2>2. c[q] = IF q = 0 THEN {} ELSE {q} \cup c[f[q].trailer.prev]
    BY <1>1 DEF ChainStep
  <2>3. q # 0
    BY <2>2
  <2>4. f[q].trailer.prev \in 0..(q - 1)
    BY <2>3 DEF Backward
  <2>5. c[f[q].trailer.prev] \subseteq 1..f[q].trailer.prev
    BY <2>1, <2>4
  <2> QED BY <2>2, <2>3, <2>4, <2>5
<1> QED BY <1>1, <1>2

(* The chain of a section is that section and the chain of the one it      *)
(* continues, though the two are defined by different recursive functions. *)
LEMMA ChainUnfolds ==
  ASSUME NEW f, NEW p \in Nat \ {0}, Backward(f, p)
  PROVE  Chain(f, p) = {p} \cup Chain(f, f[p].trailer.prev)
<1>1. PICK q \in 0..(p - 1) : q = f[p].trailer.prev
  BY DEF Backward
<1>2. Backward(f, q)
  BY <1>1 DEF Backward
<1>3. PICK c : c = ChainStep(f, p, c) /\ Chain(f, p) = c[p]
  BY ChainIsFixedPoint
<1>4. PICK d : d = ChainStep(f, q, d) /\ Chain(f, q) = d[q]
  BY <1>2, ChainIsFixedPoint
<1> DEFINE Bad == {x \in 0..q : c[x] # d[x]}
<1>5. Bad = {}
  <2> SUFFICES ASSUME Bad # {} PROVE FALSE
    OBVIOUS
  <2>1. PICK k \in Bad : \A y \in Bad : k <= y
    <3>1. Bad \subseteq Nat
      OBVIOUS
    <3> QED BY <3>1, LeastNat
  <2>2. k # 0
    BY <1>3, <1>4 DEF ChainStep
  <2>3. PICK m \in 0..(k - 1) : m = f[k].trailer.prev
    BY <2>2 DEF Backward
  <2>4. c[m] = d[m]
    BY <2>1, <2>3
  <2>5. k \in 0..q /\ k \in 0..p
    BY SMTT(60)
  <2>6. c[k] = {k} \cup c[m]
    BY <1>3, <2>2, <2>3, <2>5, SMTT(60) DEF ChainStep
  <2>7. d[k] = {k} \cup d[m]
    BY <1>4, <2>2, <2>3, <2>5 DEF ChainStep
  <2> QED BY <2>4, <2>6, <2>7
<1>6. c[q] = d[q]
  BY <1>5
<1>7. c[p] = {p} \cup c[q]
  BY <1>1, <1>3 DEF ChainStep
<1> QED BY <1>1, <1>3, <1>4, <1>6, <1>7

(* The chain of a section depends on nothing behind the section. *)
LEMMA ChainOfPrefix ==
  ASSUME NEW f, NEW g, NEW p \in Nat, \A q \in 1..p : f[q] = g[q]
  PROVE  Chain(f, p) = Chain(g, p)
<1>1. \A c : ChainStep(f, p, c) = ChainStep(g, p, c)
  <2>1. \A q \in 0..p : q # 0 => f[q] = g[q]
    OBVIOUS
  <2> QED BY <2>1 DEF ChainStep
<1>2. Chain(f, p) = (CHOOSE c : c = ChainStep(f, p, c))[p]
  BY DEF Chain, ChainStep
<1>3. Chain(g, p) = (CHOOSE c : c = ChainStep(g, p, c))[p]
  BY DEF Chain, ChainStep
<1>4. (CHOOSE c : c = ChainStep(f, p, c)) = (CHOOSE c : c = ChainStep(g, p, c))
  BY <1>1
<1> QED BY <1>2, <1>3, <1>4

-----------------------------------------------------------------------------
(* Every row of a table is of the right type and leads to the section of   *)
(* the table or to one before it.                                          *)
RowsBackward(f, p) ==
    \A q \in 1..p : /\ f[q].table \in [Nums -> Entry]
                     /\ \A n \in Nums : f[q].table[n].off <= q

(* The table parsed from a section has a row of the right type for every   *)
(* number, and no row leads behind the section.                            *)
LEMMA LoadEntriesType ==
  ASSUME NEW f, NEW p \in Nat, Backward(f, p), RowsBackward(f, p)
  PROVE  /\ LoadEntries(f, p) \in [Nums -> Entry]
         /\ \A n \in Nums : LoadEntries(f, p)[n].off <= p
<1> DEFINE chain == Chain(f, p)
<1>1. chain \subseteq 1..p
  BY ChainLeadsBackwards
<1>2. FreeEntry \in Entry /\ FreeEntry.off <= p
  BY ConstantsAssumption DEF FreeEntry, Entry, Gens
<1>3. ASSUME NEW n \in Nums
      PROVE  /\ LoadEntries(f, p)[n] \in Entry
             /\ LoadEntries(f, p)[n].off <= p
  <2>1. CASE RowsFor(f, chain, n) = {}
    <3>1. LoadEntries(f, p)[n] = FreeEntry
      BY <1>3, <2>1 DEF LoadEntries
    <3> QED BY <1>2, <3>1
  <2>2. CASE RowsFor(f, chain, n) # {}
    <3> DEFINE q == Newest(RowsFor(f, chain, n))
    <3>1. q \in RowsFor(f, chain, n)
      <4>1. RowsFor(f, chain, n) \subseteq 0..p
        BY <1>1 DEF RowsFor
      <4> HIDE DEF chain
      <4> QED BY <2>2, <4>1, NewestIsGreatest
    <3>2. LoadEntries(f, p)[n] = f[q].table[n]
      BY <1>3, <2>2 DEF LoadEntries
    <3>3. q \in 1..p
      BY <1>1, <3>1 DEF RowsFor
    <3>4. f[q].table[n] \in Entry /\ f[q].table[n].off <= q
      BY <1>3, <3>3 DEF RowsBackward
    <3> HIDE DEF q
    <3>5. f[q].table[n].off \in Nat
      BY <3>4 DEF Entry
    <3> QED BY <3>2, <3>3, <3>4, <3>5
  <2> QED BY <2>1, <2>2
<1>4. LoadEntries(f, p) = [n \in Nums |-> LoadEntries(f, p)[n]]
  BY DEF LoadEntries
<1> QED BY <1>3, <1>4

(* The table parsed from a section has the rows of that section, and those *)
(* of the table it continues where it has none.                            *)
LEMMA LoadEntriesUnfolds ==
  ASSUME NEW f, NEW p \in Nat \ {0}, Backward(f, p), NEW n \in Nums
  PROVE  LoadEntries(f, p)[n] = IF f[p].table[n].type # "none"
                                THEN f[p].table[n]
                                ELSE LoadEntries(f, f[p].trailer.prev)[n]
<1> DEFINE q == f[p].trailer.prev
           rows == RowsFor(f, Chain(f, p), n)
<1>1. Chain(f, p) = {p} \cup Chain(f, q) /\ Chain(f, p) \subseteq 1..p
  BY ChainUnfolds, ChainLeadsBackwards
<1>2. CASE f[p].table[n].type # "none"
  <2>1. p \in rows /\ rows \subseteq 0..p
    BY <1>1, <1>2 DEF RowsFor
  <2>2. Newest(rows) \in 0..p /\ Newest(rows) >= p
    <3> HIDE DEF rows
    <3> QED BY <2>1, NewestIsGreatest
  <2>3. Newest(rows) = p
    BY <2>2
  <2> QED BY <1>2, <2>1, <2>3 DEF LoadEntries
<1>3. CASE f[p].table[n].type = "none"
  <2>1. rows = RowsFor(f, Chain(f, q), n)
    BY <1>1, <1>3 DEF RowsFor
  <2> QED BY <1>3, <2>1 DEF LoadEntries
<1> QED BY <1>2, <1>3

(* The highest number in use is a number, or 0. *)
LEMMA LoadMaxObjType ==
  ASSUME NEW loaded
  PROVE  LoadMaxObj(loaded) \in 0..MaxNum
<1>1. CASE Used(loaded) = {}
  BY <1>1, ConstantsAssumption DEF LoadMaxObj
<1>2. CASE Used(loaded) # {}
  <2>1. Used(loaded) \subseteq 0..MaxNum
    BY DEF Used, Nums
  <2>2. Newest(Used(loaded)) \in Used(loaded)
    BY <1>2, <2>1, NewestIsGreatest, ConstantsAssumption
  <2> QED BY <1>2, <2>1, <2>2 DEF LoadMaxObj
<1> QED BY <1>1, <1>2

(* The table parsed from a section depends on nothing behind the section:  *)
(* what is written behind changes no older revision.                       *)
LEMMA LoadEntriesOfPrefix ==
  ASSUME NEW f, NEW g, NEW p \in Nat, Backward(f, p), \A q \in 1..p : f[q] = g[q]
  PROVE  LoadEntries(f, p) = LoadEntries(g, p)
<1> DEFINE chain == Chain(f, p)
<1>1. Chain(g, p) = chain /\ chain \subseteq 1..p
  BY ChainOfPrefix, ChainLeadsBackwards
<1>2. ASSUME NEW n \in Nums
      PROVE  RowsFor(f, chain, n) = RowsFor(g, chain, n)
  BY <1>1 DEF RowsFor
<1>3. ASSUME NEW n \in Nums, RowsFor(f, chain, n) # {}
      PROVE  f[Newest(RowsFor(f, chain, n))] = g[Newest(RowsFor(f, chain, n))]
  <2>1. RowsFor(f, chain, n) \subseteq 0..p
    BY <1>1 DEF RowsFor
  <2>2. Newest(RowsFor(f, chain, n)) \in RowsFor(f, chain, n)
    <3> HIDE DEF chain
    <3> QED BY <1>3, <2>1, NewestIsGreatest
  <2> QED BY <1>1, <2>2 DEF RowsFor
<1> QED BY <1>1, <1>2, <1>3 DEF LoadEntries

(* A document shown from a section depends on nothing behind the section. *)
LEMMA ContentOfPrefix ==
  ASSUME NEW f \in Seq(Section), NEW g \in Seq(Section), NEW p \in Nat \ {0},
         p <= Len(f), p <= Len(g),
         Backward(f, p), RowsBackward(f, p), \A q \in 1..p : f[q] = g[q]
  PROVE  Content(f, p) = Content(g, p)
<1> DEFINE loaded == LoadEntries(f, p)
<1>1. LoadEntries(g, p) = loaded
  BY LoadEntriesOfPrefix
<1>2. loaded \in [Nums -> Entry] /\ \A n \in Nums : loaded[n].off <= p
  BY LoadEntriesType
<1>3. f[p].trailer.root = g[p].trailer.root
  OBVIOUS
<1>4. ASSUME NEW r \in Refs
      PROVE  Lookup(f, loaded, r) = Lookup(g, loaded, r)
  <2> HIDE DEF loaded
  <2>1. r.num \in Nums
    BY DEF Refs
  <2>2. loaded[r.num].off \in 0..p
    BY <1>2, <2>1 DEF Entry
  <2>3. DOMAIN f = 1..Len(f) /\ DOMAIN g = 1..Len(g)
    OBVIOUS
  <2>4. loaded[r.num].off \in DOMAIN f <=> loaded[r.num].off \in DOMAIN g
    BY <2>2, <2>3
  <2>5. loaded[r.num].off \in DOMAIN f => f[loaded[r.num].off] = g[loaded[r.num].off]
    BY <2>2, <2>3
  <2> QED BY <2>4, <2>5 DEF Lookup
<1> QED BY <1>1, <1>3, <1>4 DEF Content


-----------------------------------------------------------------------------
(* The writer *)

(* A row that is written for a number is one of the objects of that number. *)
LEMMA RowRefChosen ==
  ASSUME NEW refs \in SUBSET Refs, NEW n, \E r \in refs : r.num = n
  PROVE  RowRef(refs, n) \in refs /\ RowRef(refs, n).num = n
<1> DEFINE gens == {r.gen : r \in {s \in refs : s.num = n}}
<1>1. gens \subseteq Nat /\ gens # {}
  BY ConstantsAssumption DEF Refs, Gens
<1>2. PICK g \in gens : \A h \in gens : g <= h
  <2> HIDE DEF gens
  <2> QED BY <1>1, LeastNat
<1>3. PICK r \in refs : r.num = n /\ r.gen = g
  OBVIOUS
<1>4. \A s \in refs : s.num = n => r.gen <= s.gen
  BY <1>2, <1>3
<1> QED BY <1>3, <1>4 DEF RowRef

(* The trailer written for a set of references is a trailer with the same  *)
(* root, it continues the given table and its size is above all of them.   *)
LEMMA WrittenTrailerType ==
  ASSUME NEW trailer \in Trailer, NEW refs \in SUBSET Refs, refs # {},
         NEW prevPos \in Nat, NEW entriesNum \in Nat
  PROVE  LET t == WrittenTrailer(trailer, refs, prevPos, entriesNum) IN
         /\ t \in Trailer
         /\ t.root = trailer.root
         /\ t.prev = prevPos
         /\ t.size >= entriesNum
         /\ \A r \in refs : r.num < t.size
<1> DEFINE nums == {r.num : r \in refs}
<1>1. nums \subseteq 0..MaxNum /\ nums # {}
  BY DEF Refs, Nums
<1>2. Newest(nums) \in nums /\ \A x \in nums : x <= Newest(nums)
  <2> HIDE DEF nums
  <2> QED BY <1>1, NewestIsGreatest, ConstantsAssumption
<1>3. MaxObjNum(refs) \in 0..MaxNum /\ \A r \in refs : r.num <= MaxObjNum(refs)
  BY <1>1, <1>2 DEF MaxObjNum
<1>4. \A r \in refs : r.num \in Nat
  BY ConstantsAssumption DEF Refs, Nums
<1> HIDE DEF nums
<1> DEFINE m == IF MaxObjNum(refs) + 1 > entriesNum THEN MaxObjNum(refs) + 1 ELSE entriesNum
<1>5. m \in Nat /\ m >= entriesNum /\ m > MaxObjNum(refs)
  BY <1>3, ConstantsAssumption
<1>6. \A r \in refs : r.num < m
  BY <1>3, <1>4, <1>5, ConstantsAssumption
<1>7. WrittenTrailer(trailer, refs, prevPos, entriesNum)
        = [trailer EXCEPT !.prev = prevPos, !.size = m]
  BY DEF WrittenTrailer
<1> HIDE DEF m
<1> QED BY <1>5, <1>6, <1>7 DEF Trailer

(* What is written behind pos - 1 sections is a section, it continues the  *)
(* given table and its rows do not lead behind it.                         *)
LEMMA WriteSectionType ==
  ASSUME NEW w \in Writer, NEW changed \in [Refs -> Value \cup {NoValue}],
         SectionRefs(w, changed) # {},
         NEW trailer \in Trailer, NEW prevPos \in Nat, NEW entriesNum \in Nat,
         NEW pos \in Nat
  PROVE  LET s == WriteSection(w, changed, trailer, prevPos, entriesNum, pos) IN
         /\ s \in Section
         /\ s.trailer = WrittenTrailer(trailer, SectionRefs(w, changed), prevPos, entriesNum)
         /\ \A n \in Nums : s.table[n].off <= pos
<1> DEFINE s == WriteSection(w, changed, trailer, prevPos, entriesNum, pos)
           refs == SectionRefs(w, changed)
<1>1. refs \in SUBSET Refs
  BY DEF SectionRefs, Registered, Writer
<1>2. s.trailer = WrittenTrailer(trailer, refs, prevPos, entriesNum) /\ s.trailer \in Trailer
  BY <1>1, WrittenTrailerType DEF WriteSection
<1>3. s.objs \in [Refs -> Value \cup {NoValue}]
  BY DEF WriteSection
<1>4. s.decoded \in BOOLEAN
  BY DEF WriteSection, Writer
<1>5. ASSUME NEW n \in Nums
      PROVE  s.table[n] \in Entry /\ s.table[n].off <= pos
  <2>1. CASE \E r \in refs : r.num = n
    <3>1. RowRef(refs, n) \in Refs
      BY <1>1, <2>1, RowRefChosen
    <3>2. s.table[n] = [type |-> "n", gen |-> RowRef(refs, n).gen,
                        off |-> IF RowRef(refs, n) \in w.offTable THEN 0 ELSE pos]
      BY <1>5, <2>1 DEF WriteSection
    <3> HIDE DEF refs
    <3> QED BY <3>1, <3>2 DEF Entry, Refs
  <2>2. CASE ~\E r \in refs : r.num = n
    <3>1. s.table[n] = NoEntry
      BY <1>5, <2>2 DEF WriteSection
    <3> QED BY <3>1, ConstantsAssumption DEF NoEntry, Entry, Gens
  <2> QED BY <2>1, <2>2
<1>6. s.table \in [Nums -> Entry]
  <2>1. s.table = [n \in Nums |-> s.table[n]]
    BY DEF WriteSection
  <2> HIDE DEF s
  <2> QED BY <1>5, <2>1
<1>7. s = [table |-> s.table, objs |-> s.objs, trailer |-> s.trailer, decoded |-> s.decoded]
  BY DEF WriteSection
<1> HIDE DEF s
<1>8. s \in Section
  BY <1>2, <1>3, <1>4, <1>6, <1>7 DEF Section
<1> QED BY <1>2, <1>5, <1>8 DEF s

-----------------------------------------------------------------------------
(* The inductive invariant *)

(* The newest revision, and the table parsed from it. *)
NewestTable == LoadEntries(file, revisions[Len(revisions)])

(* The root of the parsed trailer is the one in the file, though a save    *)
(* writes Prev and Size into the trailer that was parsed.                  *)
TrailerOfRevision == trailerDict.root = file[lastXRefPos].trailer.root

(* A reference handed out is one of a number the newest revision does not  *)
(* use, and its generation is the only one reserveRef can give.            *)
NewRefsOfTable ==
    \A r \in NewRefs :
        /\ NewestTable[r.num].type # "n"
        /\ IF \E j \in Used(NewestTable) : j > r.num
           THEN r.gen = NewestTable[r.num].gen
           ELSE r.gen = 0

IInv ==
    /\ TypeOK
    /\ WellFormed(file)
    /\ TableOfRevision
    /\ TrailerOfRevision
    /\ NewRefsOfTable

(* Tables and rows of a file that can be opened lead backwards. *)
LEMMA WellFormedLeadsBackwards ==
  ASSUME NEW f, WellFormed(f), NEW p \in 0..Len(f)
  PROVE  Backward(f, p) /\ RowsBackward(f, p)
<1>1. f \in Seq(Section) /\ Len(f) \in Nat /\ DOMAIN f = 1..Len(f)
  BY DEF WellFormed
<1>2. ASSUME NEW q \in 1..p
      PROVE  /\ f[q].trailer.prev \in 0..(q - 1)
             /\ f[q].table \in [Nums -> Entry]
             /\ \A n \in Nums : f[q].table[n].off <= q
  <2>1. q \in DOMAIN f
    BY <1>1
  <2>2. f[q] \in Section
    BY <1>1, <2>1
  <2>3. f[q].table \in [Nums -> Entry] /\ f[q].trailer.prev \in Nat
    BY <2>2 DEF Section, Trailer
  <2>4. f[q].trailer.prev < q /\ \A n \in Nums : f[q].table[n].off <= q
    BY <2>1 DEF WellFormed
  <2> QED BY <2>3, <2>4
<1> QED BY <1>2 DEF Backward, RowsBackward

(* The trailer in effect is a trailer. *)
LEMMA TrailerDictType ==
  ASSUME TypeOK
  PROVE  TrailerDict \in Trailer
BY DEF TypeOK, TrailerDict

(* What a save appends is a section of the current revision. *)
LEMMA NewSectionType ==
  ASSUME IInv, SectionRefs(writer, changedStorage) # {}
  PROVE  /\ NewSection \in Section
         /\ NewSection.trailer \in Trailer
         /\ NewSection.trailer.root = TrailerDict.root
         /\ NewSection.trailer.prev = lastXRefPos
         /\ \A n \in Nums : NewSection.table[n].off <= storePos + 1
<1>1. /\ TrailerDict \in Trailer
      /\ writer \in Writer
      /\ changedStorage \in [Refs -> Value \cup {NoValue}]
      /\ lastXRefPos \in Nat /\ maxObj + 1 \in Nat /\ storePos + 1 \in Nat
  BY TrailerDictType, ConstantsAssumption DEF IInv, TypeOK
<1>2. SectionRefs(writer, changedStorage) \in SUBSET Refs
  BY <1>1 DEF SectionRefs, Registered, Writer
<1>3. /\ NewSection \in Section
      /\ NewSection.trailer = WrittenTrailer(TrailerDict, SectionRefs(writer, changedStorage),
                                             lastXRefPos, maxObj + 1)
      /\ \A n \in Nums : NewSection.table[n].off <= storePos + 1
  BY <1>1, WriteSectionType DEF NewSection
<1> QED BY <1>1, <1>2, <1>3, WrittenTrailerType

(* A save keeps all that is committed and the file remains one that can be *)
(* opened.                                                                 *)
LEMMA SavedFileFacts ==
  ASSUME IInv, SectionRefs(writer, changedStorage) # {}
  PROVE  /\ WellFormed(SavedFile)
         /\ Len(SavedFile) = storePos + 1
         /\ \A q \in 1..storePos : SavedFile[q] = file[q]
         /\ SavedFile[storePos + 1] = NewSection
<1> DEFINE kept == SubSeq(file, 1, storePos)
<1>1. file \in Seq(Section) /\ storePos \in 1..Len(file) /\ Len(file) \in Nat
      /\ lastXRefPos \in 1..storePos
  BY DEF IInv, TypeOK
<1>2. /\ kept \in Seq(Section)
      /\ Len(kept) = storePos
      /\ \A q \in 1..storePos : kept[q] = file[q]
  BY <1>1, SubSeqProperties
<1>3. /\ NewSection \in Section
      /\ NewSection.trailer.prev = lastXRefPos
      /\ \A n \in Nums : NewSection.table[n].off <= storePos + 1
  BY NewSectionType
<1> HIDE DEF kept
<1>4. /\ SavedFile = Append(kept, NewSection)
      /\ SavedFile \in Seq(Section)
      /\ Len(SavedFile) = storePos + 1
      /\ \A q \in 1..storePos : SavedFile[q] = kept[q]
      /\ SavedFile[storePos + 1] = NewSection
  <2>1. SavedFile = Append(kept, NewSection)
    BY DEF SavedFile, kept
  <2> QED BY <1>1, <1>2, <1>3, <2>1, AppendProperties
<1>5. ASSUME NEW i \in DOMAIN SavedFile
      PROVE  /\ SavedFile[i].trailer.prev < i
             /\ \A n \in Nums : SavedFile[i].table[n].off <= i
  <2>1. i \in 1..(storePos + 1)
    BY <1>4
  <2>2. CASE i = storePos + 1
    BY <1>1, <1>3, <1>4, <2>2
  <2>3. CASE i \in 1..storePos
    <3>1. i \in DOMAIN file /\ SavedFile[i] = file[i]
      BY <1>1, <1>2, <1>4, <2>3
    <3> QED BY <3>1 DEF IInv, WellFormed
  <2> QED BY <1>1, <2>1, <2>2, <2>3
<1>6. WellFormed(SavedFile)
  BY <1>1, <1>4, <1>5 DEF WellFormed
<1> QED BY <1>2, <1>4, <1>6

(* The parts of the invariant are kept when what they speak of is. *)
LEMMA TablesUnchanged ==
  ASSUME IInv, UNCHANGED <<streamVars, revision, entries, maxObj, lastXRefPos>>,
         trailerDict'.root = trailerDict.root, NewRefs' \subseteq NewRefs
  PROVE  WellFormed(file)' /\ TableOfRevision' /\ TrailerOfRevision' /\ NewRefsOfTable'
<1>1. WellFormed(file)' /\ TableOfRevision' /\ TrailerOfRevision'
  BY DEF IInv, WellFormed, TableOfRevision, TrailerOfRevision, streamVars
<1>2. NewRefsOfTable'
  <2>1. NewestTable' = NewestTable
    BY DEF NewestTable, streamVars
  <2> QED BY <2>1 DEF IInv, NewRefsOfTable
<1> QED BY <1>1, <1>2

(* The documents that can be opened satisfy the invariant, and the newest  *)
(* revision is all there is in them.                                       *)
LEMMA OpenFileInv ==
  ASSUME OpenFile, mode \in {"paranoid", "easy"}
  PROVE  IInv /\ revisions[Len(revisions)] = storePos
<1>1. PICK d \in Docs :
          /\ file = d.file
          /\ linearized = d.linearized
          /\ storePos = Len(d.file)
          /\ revisions \in IF d.linearized THEN {<<Len(d.file)>>}
                                           ELSE Histories(d.file, Len(d.file))
  BY DEF OpenFile
<1>2. WellFormed(file) /\ linearized \in BOOLEAN
  BY <1>1, DocsAssumption
<1>3. file \in Seq(Section) /\ Len(file) \in Nat \ {0} /\ storePos = Len(file)
  BY <1>1, <1>2 DEF WellFormed
<1>4. revisions \in Seq(1..storePos) /\ Len(revisions) > 0
      /\ revisions[Len(revisions)] = storePos
  <2>1. CASE d.linearized
    <3>1. revisions = <<storePos>> /\ storePos \in 1..storePos
      BY <1>1, <1>3, <2>1
    <3>2. <<storePos>> \in Seq(1..storePos) /\ Len(<<storePos>>) = 1
          /\ <<storePos>>[1] = storePos
      BY <3>1
    <3> QED BY <3>1, <3>2
  <2>2. CASE ~d.linearized
    <3>1. PICK k \in 1..storePos : revisions \in [1..k -> 1..storePos]
      BY <1>1, <1>3, <2>2 DEF Histories
    <3>2. revisions \in Seq(1..storePos)
      BY <1>3, <3>1
    <3>3. Len(revisions) = k
      BY <1>3, <3>1, <3>2
    <3>4. revisions[Len(revisions)] = storePos
      BY <1>1, <1>3, <2>2 DEF Histories, IsHistory
    <3> QED BY <1>3, <3>1, <3>2, <3>3, <3>4
  <2> QED BY <2>1, <2>2
<1>5. Backward(file, storePos) /\ RowsBackward(file, storePos)
  BY <1>2, <1>3, WellFormedLeadsBackwards
<1>6. entries \in [Nums -> Entry] /\ maxObj \in 0..MaxNum
  BY <1>3, <1>5, LoadEntriesType, LoadMaxObjType DEF OpenFile
<1>7. trailerDict \in Trailer /\ encrypted \in BOOLEAN
  <2>1. file[storePos] \in Section
    BY <1>3
  <2> QED BY <2>1 DEF OpenFile, Section, Trailer
<1>8. revision \in 0..(Len(revisions) - 1) /\ revision + 1 = Len(revisions)
  BY <1>4 DEF OpenFile
<1>9. /\ changedStorage \in [Refs -> Value \cup {NoValue}]
      /\ newStorage \in [Refs -> {"unused", "reserved", "initialized"}]
      /\ NewRefs = {}
  BY DEF OpenFile, NothingChanged, NothingNew, NewRefs
<1>10. writer \in Writer /\ currTrailer = NoTrailer
       /\ readOnly \in BOOLEAN /\ needsCredentials = encrypted /\ lastXRefPos = storePos
  BY DEF OpenFile, NewWriter, Writer
<1>11. TypeOK
  BY <1>2, <1>3, <1>4, <1>6, <1>7, <1>8, <1>9, <1>10 DEF TypeOK
<1>12. TableOfRevision /\ TrailerOfRevision
  BY <1>4, <1>8 DEF OpenFile, TableOfRevision, TrailerOfRevision
<1>13. NewRefsOfTable
  BY <1>9 DEF NewRefsOfTable
<1> QED BY <1>2, <1>4, <1>11, <1>12, <1>13 DEF IInv

(* So do the initial states. *)
LEMMA InitInv ==
  ASSUME Init
  PROVE  IInv
BY OpenFileInv DEF Init

-----------------------------------------------------------------------------
(* The steps *)

(* A save may put a trailer with the same root in effect. *)
LEMMA SetTrailerFacts ==
  ASSUME TypeOK, NEW t \in Trailer, t.root = TrailerDict.root, SetTrailer(t)
  PROVE  /\ trailerDict' \in Trailer
         /\ currTrailer' \in Trailer \cup {NoTrailer}
         /\ trailerDict'.root = trailerDict.root
<1>1. CASE IsLatest /\ currTrailer # NoTrailer
  BY <1>1 DEF SetTrailer, TypeOK
<1>2. CASE ~(IsLatest /\ currTrailer # NoTrailer)
  BY <1>2 DEF SetTrailer, TypeOK, TrailerDict
<1> QED BY <1>1, <1>2

(* A save changes no committed table and no committed document. *)
LEMMA SavedFileKeeps ==
  ASSUME IInv, SectionRefs(writer, changedStorage) # {}, NEW p \in 1..storePos
  PROVE  /\ LoadEntries(SavedFile, p) = LoadEntries(file, p)
         /\ Content(SavedFile, p) = Content(file, p)
<1>1. /\ file \in Seq(Section) /\ storePos \in 1..Len(file) /\ Len(file) \in Nat
      /\ WellFormed(file)
  BY DEF IInv, TypeOK
<1>2. /\ SavedFile \in Seq(Section)
      /\ Len(SavedFile) = storePos + 1
      /\ \A q \in 1..p : file[q] = SavedFile[q]
  BY <1>1, SavedFileFacts DEF WellFormed
<1>3. p \in Nat \ {0} /\ p \in 0..Len(file) /\ p <= Len(SavedFile)
  BY <1>1, <1>2
<1>4. Backward(file, p) /\ RowsBackward(file, p)
  BY <1>1, <1>3, WellFormedLeadsBackwards
<1> QED BY <1>1, <1>2, <1>3, <1>4, LoadEntriesOfPrefix, ContentOfPrefix

(* The table of a saved section has a row for each object written, and is  *)
(* the table it continues for all other numbers.                           *)
LEMMA SavedEntries ==
  ASSUME IInv, SectionRefs(writer, changedStorage) # {}, NEW n \in Nums
  PROVE  LoadEntries(SavedFile, storePos + 1)[n]
           = IF \E r \in SectionRefs(writer, changedStorage) : r.num = n
             THEN NewSection.table[n] ELSE entries[n]
<1>1. PICK p \in Nat \ {0} : p = storePos + 1
  BY DEF IInv, TypeOK
<1>2. /\ WellFormed(SavedFile) /\ p \in 0..Len(SavedFile)
      /\ SavedFile[p] = NewSection
      /\ SavedFile[p].trailer.prev = lastXRefPos
  BY <1>1, SavedFileFacts, NewSectionType
<1>3. Backward(SavedFile, p)
  BY <1>2, WellFormedLeadsBackwards
<1>4. LoadEntries(SavedFile, lastXRefPos) = entries
  BY SavedFileKeeps DEF IInv, TypeOK, TableOfRevision
<1>5. LoadEntries(SavedFile, p)[n] = IF NewSection.table[n].type # "none"
                                     THEN NewSection.table[n] ELSE entries[n]
  BY <1>1, <1>2, <1>3, <1>4, LoadEntriesUnfolds
<1>6. NewSection.table[n].type # "none"
        <=> \E r \in SectionRefs(writer, changedStorage) : r.num = n
  BY DEF NewSection, WriteSection, NoEntry
<1> QED BY <1>1, <1>5, <1>6

(* Every listed revision is a committed section of the file. *)
LEMMA RevisionsCommitted ==
  ASSUME TypeOK, NEW i \in DOMAIN revisions
  PROVE  /\ revisions[i] \in 1..storePos
         /\ revisions[i] \in 0..Len(file)
         /\ file[revisions[i]].trailer \in Trailer
<1>1. revisions[i] \in 1..storePos /\ storePos \in 1..Len(file) /\ file \in Seq(Section)
  BY DEF TypeOK
<1>2. file[revisions[i]] \in Section
  BY <1>1
<1> QED BY <1>1, <1>2 DEF Section

(* The lowest of some numbers is one of them. *)
LEMMA LowestIsOne ==
  ASSUME NEW S, S \subseteq Nums, S # {}
  PROVE  Lowest(S) \in S
<1>1. S \subseteq Nat
  BY ConstantsAssumption DEF Nums
<1>2. \E x \in S : \A y \in S : x <= y
  BY <1>1, LeastNat
<1> QED BY <1>2 DEF Lowest

(* The reference reserveRef chooses is one the newest revision allows, and *)
(* it is not handed out.                                                   *)
LEMMA NextRefOfTable ==
  ASSUME IInv, IsLatest, Reusable # {} \/ Fresh # {}
  PROVE  /\ NextRef \in Refs
         /\ newStorage[NextRef] = "unused"
         /\ entries[NextRef.num].type # "n"
         /\ IF \E j \in Used(entries) : j > NextRef.num
            THEN NextRef.gen = entries[NextRef.num].gen
            ELSE NextRef.gen = 0
<1>1. CASE Reusable # {}
  <2>1. Lowest(Reusable) \in Reusable
    BY <1>1, LowestIsOne DEF Reusable
  <2>2. NextRef = [num |-> Lowest(Reusable), gen |-> entries[Lowest(Reusable)].gen]
    BY <1>1 DEF NextRef
  <2>3. entries[Lowest(Reusable)].gen \in Gens
    BY <2>1 DEF Reusable, IInv, TypeOK, Entry
  <2> QED BY <2>1, <2>2, <2>3 DEF Reusable, Refs
<1>2. CASE Reusable = {}
  <2>1. Lowest(Fresh) \in Fresh
    BY <1>2, LowestIsOne DEF Fresh
  <2>2. NextRef = [num |-> Lowest(Fresh), gen |-> 0]
    BY <1>2 DEF NextRef
  <2>3. /\ NextRef.num \in Nums /\ \A j \in Used(entries) : j < NextRef.num
        /\ newStorage[NextRef] = "unused"
    BY <2>1, <2>2 DEF Fresh
  <2>4. \A j \in Used(entries) : j \in Nat /\ ~(j > NextRef.num)
    BY <2>3, ConstantsAssumption DEF Used, Nums
  <2>5. NextRef.num \notin Used(entries)
    BY <2>3, ConstantsAssumption DEF Nums
  <2>6. entries[NextRef.num].type # "n"
    BY <2>3, <2>5 DEF Used
  <2>7. NextRef \in Refs
    BY <2>2, <2>3, ConstantsAssumption DEF Refs, Gens
  <2> QED BY <2>2, <2>3, <2>4, <2>6, <2>7
<1> QED BY <1>1, <1>2

(* Going to another revision parses the table of that revision. *)
LEMMA ChangeRevisionInv ==
  ASSUME IInv, NEW n \in 0..MaxSections, ChangeRevision(n)
  PROVE  IInv'
<1> DEFINE p == revisions[n + 1]
<1>1. n + 1 \in DOMAIN revisions /\ n \in 0..(Len(revisions) - 1)
  BY DEF ChangeRevision, IInv, TypeOK
<1>2. p \in 1..storePos /\ p \in 0..Len(file) /\ file[p].trailer \in Trailer
  BY <1>1, RevisionsCommitted DEF IInv
<1>3. /\ UNCHANGED <<streamVars, modeVars, writer, changeVars>>
      /\ revision' = n
      /\ entries' = LoadEntries(file, p) /\ maxObj' = LoadMaxObj(entries')
      /\ trailerDict' = file[p].trailer /\ lastXRefPos' = p
      /\ encrypted' = IF IsLatest /\ currTrailer' # NoTrailer
                      THEN currTrailer'.encrypt ELSE file[p].trailer.encrypt
      /\ needsCredentials' = encrypted'
  BY DEF ChangeRevision, Reopen
<1> HIDE DEF p
<1>4. entries' \in [Nums -> Entry] /\ maxObj' \in 0..MaxNum
  <2>1. Backward(file, p) /\ RowsBackward(file, p)
    BY <1>2, WellFormedLeadsBackwards DEF IInv
  <2> QED BY <1>2, <1>3, <2>1, LoadEntriesType, LoadMaxObjType
<1>5. trailerDict' \in Trailer /\ encrypted' \in BOOLEAN
  BY <1>2, <1>3 DEF IInv, TypeOK, changeVars, Trailer
<1>6. TypeOK'
  BY <1>1, <1>2, <1>3, <1>4, <1>5
  DEF IInv, TypeOK, streamVars, modeVars, changeVars
<1>7. WellFormed(file)'
  BY <1>3 DEF IInv, WellFormed, streamVars
<1>8. TableOfRevision' /\ TrailerOfRevision'
  BY <1>3 DEF TableOfRevision, TrailerOfRevision, streamVars, p
<1>9. NewRefsOfTable'
  <2>1. NewestTable' = NewestTable /\ NewRefs' = NewRefs
    BY <1>3 DEF NewestTable, NewRefs, streamVars, changeVars
  <2> QED BY <2>1 DEF IInv, NewRefsOfTable
<1> QED BY <1>6, <1>7, <1>8, <1>9 DEF IInv

(* Handing out a reference, with or without an object for it. *)
LEMMA HandOutInv ==
  ASSUME IInv, IsLatest, Reusable # {} \/ Fresh # {},
         NEW s \in {"reserved", "initialized"},
         newStorage' = [newStorage EXCEPT ![NextRef] = s],
         changedStorage' \in [Refs -> Value \cup {NoValue}],
         UNCHANGED <<streamVars, xrefVars, currTrailer, modeVars, revision, writer>>
  PROVE  IInv'
<1>1. /\ IsLatest /\ (Reusable # {} \/ Fresh # {})
      /\ newStorage' = [newStorage EXCEPT ![NextRef] = s]
      /\ changedStorage' \in [Refs -> Value \cup {NoValue}]
      /\ UNCHANGED <<streamVars, xrefVars, currTrailer, modeVars, revision, writer>>
  OBVIOUS
<1>2. newStorage' \in [Refs -> {"unused", "reserved", "initialized"}]
  BY <1>1 DEF IInv, TypeOK
<1>3. TypeOK'
  BY <1>1, <1>2 DEF IInv, TypeOK, streamVars, xrefVars, modeVars
<1>4. WellFormed(file)' /\ TableOfRevision' /\ TrailerOfRevision'
  BY <1>1
  DEF IInv, WellFormed, TableOfRevision, TrailerOfRevision, streamVars, xrefVars
<1>5. entries = NewestTable
  BY <1>1 DEF IInv, TypeOK, TableOfRevision, IsLatest, NewestTable
<1>6. NewestTable' = NewestTable
  BY <1>1 DEF NewestTable, streamVars
<1>7. ASSUME NEW r \in NewRefs'
      PROVE  r \in NewRefs \/ r = NextRef
  BY <1>1, <1>7 DEF IInv, TypeOK, NewRefs
<1>8. NewRefsOfTable'
  <2>1. \A r \in NewRefs' :
          /\ NewestTable[r.num].type # "n"
          /\ IF \E j \in Used(NewestTable) : j > r.num
             THEN r.gen = NewestTable[r.num].gen ELSE r.gen = 0
    BY <1>1, <1>5, <1>7, NextRefOfTable DEF IInv, NewRefsOfTable
  <2> QED BY <1>6, <2>1 DEF NewRefsOfTable
<1> QED BY <1>3, <1>4, <1>8 DEF IInv

(* reserveRef hands out a reference without an object. *)
LEMMA ReserveRefInv ==
  ASSUME IInv, ReserveRef
  PROVE  IInv'
<1>1. changedStorage' \in [Refs -> Value \cup {NoValue}]
  BY DEF ReserveRef, IInv, TypeOK
<1> QED BY <1>1, HandOutInv DEF ReserveRef, ChangesAllowed

(* Changing an object hands out no reference. *)
LEMMA ChangeObjectInv ==
  ASSUME IInv, NEW r \in Refs, NEW v \in DirectValue, ChangeObject(r, v)
  PROVE  IInv'
<1>1. /\ changedStorage' = [changedStorage EXCEPT ![r] = v]
      /\ newStorage' = IF newStorage[r] # "unused"
                       THEN [newStorage EXCEPT ![r] = "initialized"] ELSE newStorage
      /\ UNCHANGED <<streamVars, xrefVars, currTrailer, modeVars, revision, writer>>
  BY DEF ChangeObject
<1>2. changedStorage' \in [Refs -> Value \cup {NoValue}]
  BY <1>1 DEF IInv, TypeOK, DirectValue, Value
<1>3. newStorage' \in [Refs -> {"unused", "reserved", "initialized"}]
  BY <1>1 DEF IInv, TypeOK
<1>4. TypeOK'
  BY <1>1, <1>2, <1>3 DEF IInv, TypeOK, streamVars, xrefVars, modeVars
<1>5. NewRefs' \subseteq NewRefs
  BY <1>1 DEF IInv, TypeOK, NewRefs
<1>6. WellFormed(file)' /\ TableOfRevision' /\ TrailerOfRevision' /\ NewRefsOfTable'
  BY <1>1, <1>5, TablesUnchanged DEF xrefVars
<1> QED BY <1>4, <1>6 DEF IInv

(* A new revision: the section written becomes the newest revision, and    *)
(* nothing that was handed out for the old one is left.                    *)
LEMMA SaveNewRevisionInv ==
  ASSUME IInv, SaveNewRevision
  PROVE  IInv'
<1> DEFINE p == storePos + 1
<1>1. /\ file' = SavedFile /\ storePos' = p
      /\ changedStorage' = NothingChanged /\ newStorage' = NothingNew
      /\ currTrailer' = NoTrailer
      /\ entries' = LoadEntries(file', p) /\ maxObj' = LoadMaxObj(entries')
      /\ trailerDict' = file'[p].trailer /\ lastXRefPos' = p
      /\ encrypted' = file'[p].trailer.encrypt /\ needsCredentials' = encrypted'
      /\ revisions' = Append(revisions, p)
      /\ revision' = Len(revisions)
      /\ writer' = Reset(writer)
      /\ UNCHANGED modeVars
  BY DEF SaveNewRevision, Reopen
<1>2. SectionRefs(writer, changedStorage) # {}
  BY DEF SaveNewRevision, SectionRefs
<1>3. /\ storePos \in Nat \ {0} /\ p \in Nat
      /\ revisions \in Seq(1..storePos) /\ Len(revisions) \in Nat \ {0}
      /\ writer \in Writer
  BY DEF IInv, TypeOK
<1>4. /\ WellFormed(file') /\ file' \in Seq(Section) /\ Len(file') = p
      /\ file'[p].trailer \in Trailer
  BY <1>1, <1>2, SavedFileFacts, NewSectionType DEF WellFormed
<1>5. /\ revisions' \in Seq(1..p)
      /\ Len(revisions') = Len(revisions) + 1
      /\ revisions'[Len(revisions')] = p
  <2>1. revisions \in Seq(1..p) /\ p \in 1..p
    BY <1>3
  <2> HIDE DEF p
  <2> QED BY <1>1, <1>3, <2>1, AppendProperties
<1>6. entries' \in [Nums -> Entry] /\ maxObj' \in 0..MaxNum
  <2>1. p \in 0..Len(file')
    BY <1>3, <1>4
  <2> HIDE DEF p
  <2>2. Backward(file', p) /\ RowsBackward(file', p)
    BY <1>4, <2>1, WellFormedLeadsBackwards
  <2> QED BY <1>1, <1>3, <2>2, LoadEntriesType, LoadMaxObjType
<1>7. writer' \in Writer
  BY <1>1, <1>3 DEF Reset, Writer
<1>8. /\ changedStorage' \in [Refs -> Value \cup {NoValue}]
      /\ newStorage' \in [Refs -> {"unused", "reserved", "initialized"}]
      /\ NewRefs' = {}
  BY <1>1 DEF NothingChanged, NothingNew, NewRefs
<1>9. encrypted' \in BOOLEAN /\ needsCredentials' \in BOOLEAN
  BY <1>1, <1>4 DEF Trailer
<1>10. /\ storePos' \in 1..Len(file') /\ Len(file') <= storePos' + 1
       /\ lastXRefPos' \in 1..storePos'
       /\ revision' \in 0..(Len(revisions') - 1) /\ revision' + 1 = Len(revisions')
  BY <1>1, <1>3, <1>4, <1>5
<1> HIDE DEF p
<1>11. TypeOK'
  BY SMTT(30), <1>1, <1>3, <1>4, <1>5, <1>6, <1>7, <1>8, <1>9, <1>10 DEF IInv, TypeOK, modeVars
<1>12. WellFormed(file)' /\ TableOfRevision' /\ TrailerOfRevision'
  BY <1>1, <1>4, <1>5, <1>10 DEF WellFormed, TableOfRevision, TrailerOfRevision
<1>13. NewRefsOfTable'
  BY <1>8 DEF NewRefsOfTable
<1> QED BY <1>11, <1>12, <1>13 DEF IInv

(* Saving behind the committed sections changes no table of a revision. *)
LEMMA SaveChangesInv ==
  ASSUME IInv, SaveChanges
  PROVE  IInv'
<1>1. /\ file' = SavedFile
      /\ SetTrailer(NewSection.trailer)
      /\ writer' = Reset(writer)
      /\ UNCHANGED <<storePos, revisions, entries, maxObj, lastXRefPos, encrypted,
                     needsCredentials, changedStorage, newStorage, modeVars, revision>>
  BY DEF SaveChanges
<1>2. SectionRefs(writer, changedStorage) # {}
  BY DEF SaveChanges, SectionRefs
<1>3. /\ storePos \in Nat \ {0} /\ lastXRefPos \in 1..storePos
      /\ revisions \in Seq(1..storePos) /\ Len(revisions) \in Nat \ {0}
      /\ writer \in Writer
  BY DEF IInv, TypeOK
<1>4. /\ WellFormed(file') /\ file' \in Seq(Section) /\ Len(file') = storePos + 1
      /\ \A q \in 1..storePos : file'[q] = file[q]
  BY <1>1, <1>2, SavedFileFacts DEF WellFormed
<1>5. /\ trailerDict' \in Trailer /\ currTrailer' \in Trailer \cup {NoTrailer}
      /\ trailerDict'.root = trailerDict.root
  BY <1>1, <1>2, NewSectionType, SetTrailerFacts DEF IInv
<1>6. writer' \in Writer
  BY <1>1, <1>3 DEF Reset, Writer
<1>7. storePos \in 1..Len(file') /\ Len(file') <= storePos + 1
  BY <1>3, <1>4
<1>8. TypeOK'
  BY <1>1, <1>4, <1>5, <1>6, <1>7 DEF IInv, TypeOK, modeVars
<1>9. \A q \in 1..storePos : LoadEntries(file', q) = LoadEntries(file, q)
  BY <1>1, <1>2, SavedFileKeeps
<1>10. WellFormed(file)' /\ TableOfRevision' /\ TrailerOfRevision'
  BY <1>1, <1>3, <1>4, <1>5, <1>9 DEF IInv, WellFormed, TableOfRevision, TrailerOfRevision
<1>11. NewRefsOfTable'
  <2>1. revisions[Len(revisions)] \in 1..storePos
    BY <1>3
  <2>2. NewestTable' = NewestTable /\ NewRefs' = NewRefs
    BY <1>1, <1>9, <2>1 DEF NewestTable, NewRefs
  <2> QED BY <2>2 DEF IInv, NewRefsOfTable
<1> QED BY <1>8, <1>10, <1>11 DEF IInv

(* A copy of the document leaves the file and its table alone. *)
LEMMA SaveToNewInv ==
  ASSUME IInv, SaveToNew
  PROVE  IInv'
<1>1. /\ SectionRefs(writer, changedStorage) # {}
      /\ SetTrailer(NewSection.trailer)
      /\ writer' = Reset(writer)
      /\ UNCHANGED <<streamVars, entries, maxObj, lastXRefPos, encrypted, needsCredentials,
                     changedStorage, newStorage, modeVars, revision>>
  BY DEF SaveToNew
<1>2. /\ trailerDict' \in Trailer /\ currTrailer' \in Trailer \cup {NoTrailer}
      /\ trailerDict'.root = trailerDict.root
  BY <1>1, NewSectionType, SetTrailerFacts DEF IInv
<1>3. writer' \in Writer
  BY <1>1 DEF Reset, Writer, IInv, TypeOK
<1>4. TypeOK'
  BY <1>1, <1>2, <1>3 DEF IInv, TypeOK, streamVars, modeVars
<1>5. NewRefs' \subseteq NewRefs
  BY <1>1 DEF NewRefs
<1>6. WellFormed(file)' /\ TableOfRevision' /\ TrailerOfRevision' /\ NewRefsOfTable'
  BY <1>1, <1>2, <1>5, TablesUnchanged
<1> QED BY <1>4, <1>6 DEF IInv

(* So does a decoded copy, finished or left by an exception. *)
LEMMA SaveDecodedInv ==
  ASSUME IInv, SaveDecoded
  PROVE  IInv'
<1>1. UNCHANGED <<streamVars, entries, maxObj, lastXRefPos, encrypted, needsCredentials,
                  changedStorage, newStorage, modeVars, revision>>
  BY DEF SaveDecoded
<1>2. TrailerDict \in Trailer /\ writer \in Writer
  BY TrailerDictType DEF IInv, TypeOK
<1>3. PICK S \in ReachableRefs :
          IF Unreadable(S)
          THEN /\ writer' = [writer EXCEPT !.ignoreStream = TRUE]
               /\ UNCHANGED <<trailerDict, currTrailer>>
          ELSE IF Unwritable(S) # {}
          THEN /\ \E b \in Unwritable(S), done \in SUBSET (S \ Unwritable(S)) :
                     writer' = [offTable |-> writer.offTable \cup done \cup {b},
                                ignoreStream |-> TRUE]
               /\ UNCHANGED <<trailerDict, currTrailer>>
          ELSE /\ SetTrailer(WrittenTrailer(TrailerDict, writer.offTable \cup S, 0, 0))
               /\ writer' = NewWriter
  BY DEF SaveDecoded
<1>4. S \in SUBSET Refs /\ S # {}
  <2>1. TrailerDict.root \in Refs
    BY <1>2 DEF Trailer
  <2> QED BY <2>1, ConstantsAssumption DEF ReachableRefs
<1>5. /\ writer' \in Writer
      /\ trailerDict' \in Trailer /\ currTrailer' \in Trailer \cup {NoTrailer}
      /\ trailerDict'.root = trailerDict.root
  <2>1. CASE Unreadable(S)
    <3>1. writer' = [writer EXCEPT !.ignoreStream = TRUE]
          /\ UNCHANGED <<trailerDict, currTrailer>>
      BY <1>3, <2>1
    <3>2. writer' \in Writer
      BY <1>2, <3>1 DEF Writer
    <3> QED BY <3>1, <3>2 DEF IInv, TypeOK
  <2>2. CASE ~Unreadable(S) /\ Unwritable(S) # {}
    <3>1. UNCHANGED <<trailerDict, currTrailer>>
      BY <1>3, <2>2
    <3>2. PICK b \in Unwritable(S), done \in SUBSET (S \ Unwritable(S)) :
             writer' = [offTable |-> writer.offTable \cup done \cup {b},
                        ignoreStream |-> TRUE]
      BY <1>3, <2>2
    <3>3. writer.offTable \cup done \cup {b} \in SUBSET Refs
      BY <1>2, <1>4 DEF Writer, Unwritable
    <3>4. writer' \in Writer
      BY <3>2, <3>3 DEF Writer
    <3> QED BY <3>1, <3>4 DEF IInv, TypeOK
  <2>3. CASE ~Unreadable(S) /\ Unwritable(S) = {}
    <3> DEFINE refs == writer.offTable \cup S
               t == WrittenTrailer(TrailerDict, refs, 0, 0)
    <3>1. refs \in SUBSET Refs /\ refs # {}
      BY <1>2, <1>4 DEF Writer
    <3>2. t \in Trailer /\ t.root = TrailerDict.root
      <4> HIDE DEF refs
      <4> QED BY <1>2, <3>1, WrittenTrailerType
    <3>3. SetTrailer(t) /\ writer' = NewWriter
      BY <1>3, <2>3
    <3> HIDE DEF t
    <3> QED BY <3>2, <3>3, SetTrailerFacts DEF IInv, NewWriter, Writer
  <2> QED BY <2>1, <2>2, <2>3
<1>6. TypeOK'
  BY <1>1, <1>5 DEF IInv, TypeOK, streamVars, modeVars
<1>7. NewRefs' \subseteq NewRefs
  BY <1>1 DEF NewRefs
<1>8. WellFormed(file)' /\ TableOfRevision' /\ TrailerOfRevision' /\ NewRefsOfTable'
  BY <1>1, <1>5, <1>7, TablesUnchanged
<1> QED BY <1>6, <1>8 DEF IInv

(* No step leaves the invariant. *)
LEMMA StepInv ==
  ASSUME IInv, [Next]_vars
  PROVE  IInv'
<1>1. CASE SetCredentials
  <2>1. TypeOK'
    BY <1>1 DEF SetCredentials, IInv, TypeOK, streamVars, changeVars, modeVars
  <2>2. NewRefs' \subseteq NewRefs
    BY <1>1 DEF SetCredentials, NewRefs, changeVars
  <2> QED BY <1>1, <2>1, <2>2, TablesUnchanged DEF SetCredentials, IInv
<1>2. ASSUME NEW m \in Modes, SetMode(m) PROVE IInv'
  <2>1. TypeOK'
    BY <1>2, DocsAssumption
    DEF SetMode, IInv, TypeOK, streamVars, xrefVars, changeVars
  <2>2. NewRefs' \subseteq NewRefs
    BY <1>2 DEF SetMode, NewRefs, changeVars
  <2> QED BY <1>2, <2>1, <2>2, TablesUnchanged DEF SetMode, IInv, xrefVars
<1>3. ASSUME NEW n \in 0..MaxSections, ChangeRevision(n) PROVE IInv'
  BY <1>3, ChangeRevisionInv
<1>4. CASE ReserveRef \/ CreateObject
  BY <1>4, ReserveRefInv DEF CreateObject
<1>5. ASSUME NEW r \in Refs, NEW v \in DirectValue, ChangeObject(r, v) PROVE IInv'
  BY <1>5, ChangeObjectInv
<1>6. ASSUME NEW r \in Refs, ChangeTrailer(r) PROVE IInv'
  <2>1. currTrailer' \in Trailer
    <3>1. TrailerDict \in Trailer
      BY TrailerDictType DEF IInv
    <3> QED BY <1>6, <3>1 DEF ChangeTrailer, Trailer
  <2>2. TypeOK'
    BY <1>6, <2>1 DEF ChangeTrailer, IInv, TypeOK, streamVars, xrefVars, modeVars
  <2>3. NewRefs' \subseteq NewRefs
    BY <1>6 DEF ChangeTrailer, NewRefs
  <2> QED BY <1>6, <2>2, <2>3, TablesUnchanged DEF ChangeTrailer, IInv, xrefVars
<1>7. CASE SaveNewRevision
  BY <1>7, SaveNewRevisionInv
<1>8. CASE SaveChanges
  BY <1>8, SaveChangesInv
<1>9. CASE SaveToNew
  BY <1>9, SaveToNewInv
<1>10. CASE SaveDecoded
  BY <1>10, SaveDecodedInv
<1>11. CASE UNCHANGED vars
  <2>1. TypeOK'
    BY <1>11 DEF IInv, TypeOK, vars, streamVars, xrefVars, changeVars, modeVars
  <2>2. NewRefs' \subseteq NewRefs
    BY <1>11 DEF NewRefs, vars, changeVars
  <2> QED BY <1>11, <2>1, <2>2, TablesUnchanged DEF IInv, vars, xrefVars
<1> QED
  BY <1>1, <1>2, <1>3, <1>4, <1>5, <1>6, <1>7, <1>8, <1>9, <1>10, <1>11 DEF Next

-----------------------------------------------------------------------------
(* Sizes *)

(* The Size of every section is above all numbers in use there.            *)
Covered(f) == \A p \in 1..Len(f) : LoadMaxObj(LoadEntries(f, p)) < f[p].trailer.size

(* Documents whose sizes are right. *)
SizesAreRight == \A d \in Docs : Covered(d.file)

(* The highest number in use is not below any number in use, and is one of *)
(* them when there are any.                                                *)
LEMMA LoadMaxObjIsGreatest ==
  ASSUME NEW table
  PROVE  /\ \A n \in Used(table) : n <= LoadMaxObj(table)
         /\ Used(table) # {} => LoadMaxObj(table) \in Used(table)
         /\ Used(table) = {} => LoadMaxObj(table) = 0
<1>1. Used(table) \subseteq 0..MaxNum
  BY DEF Used, Nums
<1> QED BY <1>1, NewestIsGreatest, ConstantsAssumption DEF LoadMaxObj

(* The size of what is written is above the numbers written, and above all *)
(* of the table it continues.                                              *)
LEMMA SavedFileCovers ==
  ASSUME IInv, SectionRefs(writer, changedStorage) # {}, Covered(file)
  PROVE  Covered(SavedFile)
<1> DEFINE refs == SectionRefs(writer, changedStorage)
<1>1. PICK p \in Nat \ {0} : p = storePos + 1
  BY DEF IInv, TypeOK
<1>2. PICK table : table = LoadEntries(SavedFile, p)
  OBVIOUS
<1>3. PICK size \in Nat : /\ size = NewSection.trailer.size
                          /\ size >= maxObj + 1
                          /\ \A r \in refs : r.num < size
  <2>1. /\ TrailerDict \in Trailer /\ lastXRefPos \in Nat /\ maxObj + 1 \in Nat
        /\ refs \in SUBSET Refs /\ refs # {}
    BY TrailerDictType, ConstantsAssumption
    DEF IInv, TypeOK, SectionRefs, Registered, Writer
  <2>2. NewSection.trailer = WrittenTrailer(TrailerDict, refs, lastXRefPos, maxObj + 1)
    BY DEF NewSection, WriteSection
  <2> HIDE DEF refs
  <2>3. /\ NewSection.trailer \in Trailer
        /\ NewSection.trailer.size >= maxObj + 1
        /\ \A r \in refs : r.num < NewSection.trailer.size
    BY <2>1, <2>2, WrittenTrailerType
  <2> QED BY <2>3 DEF Trailer
<1>4. maxObj \in Nat /\ maxObj = LoadMaxObj(entries)
  BY ConstantsAssumption DEF IInv, TypeOK, TableOfRevision
<1>5. ASSUME NEW n \in Used(table) PROVE n < size
  <2>1. n \in Nums /\ n \in Nat /\ table[n].type = "n"
    BY ConstantsAssumption DEF Used, Nums
  <2>2. CASE \E r \in refs : r.num = n
    BY <1>3, <2>2
  <2>3. CASE ~\E r \in refs : r.num = n
    <3>1. table[n] = entries[n]
      BY <1>1, <1>2, <2>1, <2>3, SavedEntries
    <3>2. n \in Used(entries)
      BY <2>1, <3>1 DEF Used
    <3>3. n <= maxObj
      BY <1>4, <3>2, LoadMaxObjIsGreatest
    <3> QED BY <1>3, <1>4, <2>1, <3>3
  <2> QED BY <2>2, <2>3
<1>6. LoadMaxObj(table) < size
  <2>1. CASE Used(table) # {}
    BY <1>5, <2>1, LoadMaxObjIsGreatest
  <2>2. CASE Used(table) = {}
    BY <1>3, <1>4, <2>2, LoadMaxObjIsGreatest
  <2> QED BY <2>1, <2>2
<1>7. ASSUME NEW q \in 1..Len(SavedFile)
      PROVE  LoadMaxObj(LoadEntries(SavedFile, q)) < SavedFile[q].trailer.size
  <2>1. storePos \in Nat /\ storePos <= Len(file) /\ Len(file) \in Nat /\ q \in 1..(storePos + 1)
    BY SMTT(30), SavedFileFacts DEF IInv, TypeOK
  <2>2. CASE q = storePos + 1
    BY <1>1, <1>2, <1>3, <1>6, <2>2, SavedFileFacts
  <2>3. CASE q \in 1..storePos
    <3>1. LoadEntries(SavedFile, q) = LoadEntries(file, q) /\ SavedFile[q] = file[q]
      BY <2>3, SavedFileKeeps, SavedFileFacts
    <3>2. q \in 1..Len(file)
      BY <2>1, <2>3
    <3> QED BY <3>1, <3>2 DEF Covered
  <2> QED BY <2>1, <2>2, <2>3
<1> QED BY <1>7 DEF Covered

(* Sections that follow from the invariant cover what a reader starts from. *)
LEMMA CoveredIsSizeCoversAll ==
  ASSUME TypeOK, Covered(file)
  PROVE  SizeCoversAll
<1>1. Len(file) \in 1..Len(file)
  BY DEF TypeOK
<1>2. ASSUME NEW i \in DOMAIN revisions PROVE revisions[i] \in 1..Len(file)
  BY RevisionsCommitted DEF TypeOK
<1> QED BY <1>1, <1>2 DEF Covered, SizeCoversAll

-----------------------------------------------------------------------------
(* Theorems *)

(* The invariant holds in every state of every execution. *)
THEOREM Invariance == Spec => []IInv
<1>1. Init => IInv
  BY InitInv
<1>2. IInv /\ [Next]_vars => IInv'
  BY StepInv
<1> QED BY <1>1, <1>2, PTL DEF Spec

(* Every variable keeps its type; the revisions are committed sections of  *)
(* the file and at most one uncommitted section follows them.              *)
THEOREM TypeCorrect == Spec => []TypeOK
<1>1. IInv => TypeOK
  BY DEF IInv
<1> QED BY <1>1, Invariance, PTL

(* XRef always holds the table of the current revision, whatever was saved *)
(* or visited: the reopens of saveChanges and changeRevision suffice.      *)
THEOREM TableIsOfRevision == Spec => []TableOfRevision
<1>1. IInv => TableOfRevision
  BY DEF IInv
<1> QED BY <1>1, Invariance, PTL

(* An older revision shows exactly what a fresh parse of the file from its *)
(* section shows, nothing of what is pending; so does the newest one when  *)
(* nothing is pending.                                                     *)
THEOREM RevisionIsShown == Spec => []RevisionShown
<1>1. IInv => RevisionShown
  <2> SUFFICES ASSUME IInv,
                      ~IsLatest \/ (Registered(changedStorage) = {} /\ currTrailer = NoTrailer)
               PROVE  Shown = Content(file, revisions[revision + 1])
    BY DEF RevisionShown
  <2>1. /\ lastXRefPos = revisions[revision + 1]
        /\ entries = LoadEntries(file, lastXRefPos)
        /\ trailerDict.root = file[lastXRefPos].trailer.root
    BY DEF IInv, TableOfRevision, TrailerOfRevision
  <2>2. TrailerDict = trailerDict
    BY DEF TrailerDict
  <2>3. ASSUME NEW r \in Refs PROVE Fetch(r) = Lookup(file, entries, r)
    BY DEF Fetch, CXrefFetch, XRefFetch, Registered
  <2> QED BY <2>1, <2>2, <2>3 DEF Shown, Content
<1> QED BY <1>1, Invariance, PTL

(* No call writes into what is committed. *)
THEOREM CommittedIsKept == Spec => CommittedKept
<1>1. IInv /\ [Next]_vars =>
        [/\ storePos' >= storePos
         /\ SubSeq(file', 1, storePos) = SubSeq(file, 1, storePos)]_vars
  <2> SUFFICES ASSUME IInv, Next
               PROVE  /\ storePos' >= storePos
                      /\ SubSeq(file', 1, storePos) = SubSeq(file, 1, storePos)
    OBVIOUS
  <2>1. storePos \in Nat \ {0} /\ storePos \in 1..Len(file) /\ file \in Seq(Section)
    BY DEF IInv, TypeOK
  <2>2. CASE UNCHANGED streamVars
    BY <2>1, <2>2 DEF streamVars
  <2>3. CASE SaveNewRevision \/ SaveChanges
    <3>1. file' = SavedFile /\ storePos' \in {storePos, storePos + 1}
      BY <2>3 DEF SaveNewRevision, SaveChanges
    <3>2. /\ SavedFile \in Seq(Section) /\ Len(SavedFile) = storePos + 1
          /\ \A q \in 1..storePos : SavedFile[q] = file[q]
      BY <2>3, SavedFileFacts
      DEF SaveNewRevision, SaveChanges, SectionRefs, WellFormed
    <3>3. SubSeq(SavedFile, 1, storePos) = SubSeq(file, 1, storePos)
      BY <2>1, <3>2, SubSeqProperties
    <3> QED BY <2>1, <3>1, <3>3
  <2> QED BY <2>2, <2>3
          DEF Next, SetCredentials, SetMode, ChangeRevision, ReserveRef, CreateObject,
              ChangeObject, ChangeTrailer, SaveToNew, SaveDecoded
<1> QED BY <1>1, Invariance, PTL DEF Spec, CommittedKept

(* Steps that write nothing, and saves, keep the revisions that are there. *)
LEMMA RevisionsKeptByStep ==
  ASSUME IInv, UNCHANGED streamVars \/ SaveNewRevision \/ SaveChanges,
         NEW i \in DOMAIN revisions
  PROVE  /\ i \in DOMAIN revisions'
         /\ revisions'[i] = revisions[i]
         /\ Content(file', revisions'[i]) = Content(file, revisions[i])
<1>1. revisions[i] \in 1..storePos /\ revisions \in Seq(1..storePos)
  BY RevisionsCommitted DEF IInv, TypeOK
<1>2. CASE UNCHANGED streamVars
  BY <1>2 DEF streamVars
<1>3. CASE SaveNewRevision \/ SaveChanges
  <2>1. file' = SavedFile /\ revisions' \in {revisions, Append(revisions, storePos + 1)}
    BY <1>3 DEF SaveNewRevision, SaveChanges
  <2>2. i \in DOMAIN revisions' /\ revisions'[i] = revisions[i]
    BY <1>1, <2>1
  <2>3. SectionRefs(writer, changedStorage) # {}
    BY <1>3 DEF SaveNewRevision, SaveChanges, SectionRefs
  <2> QED BY <1>1, <2>1, <2>2, <2>3, SavedFileKeeps
<1> QED BY <1>2, <1>3

(* A revision that was listed once keeps its number and its document for   *)
(* ever, though sections are written and overwritten behind it.            *)
THEOREM RevisionsAreKept == Spec => RevisionsKept
<1>1. IInv /\ [Next]_vars =>
        [\A i \in DOMAIN revisions :
            /\ i \in DOMAIN revisions'
            /\ revisions'[i] = revisions[i]
            /\ Content(file', revisions'[i]) = Content(file, revisions[i])]_vars
  BY RevisionsKeptByStep
  DEF Next, SetCredentials, SetMode, ChangeRevision, ReserveRef, CreateObject,
      ChangeObject, ChangeTrailer, SaveToNew, SaveDecoded
<1> QED BY <1>1, Invariance, PTL DEF Spec, RevisionsKept

(* The generation the table gives to a reference handed out makes it the   *)
(* only one of its number.                                                 *)
LEMMA FreshOfInvariant ==
  ASSUME IInv
  PROVE  NewRefsFresh
<1> SUFFICES ASSUME NEW r \in NewRefs
             PROVE  /\ NewestTable[r.num].type # "n"
                    /\ \A s \in NewRefs : s.num = r.num => s = r
  BY DEF NewRefsFresh, NewestTable
<1>1. NewestTable[r.num].type # "n"
  BY DEF IInv, NewRefsOfTable
<1>2. ASSUME NEW s \in NewRefs, s.num = r.num PROVE s = r
  <2>1. s.gen = r.gen
    BY <1>2 DEF IInv, NewRefsOfTable
  <2> QED BY <1>2, <2>1 DEF NewRefs, Refs
<1> QED BY <1>1, <1>2

(* References that were handed out and not yet forgotten have different    *)
(* numbers, none of them the number of an object of the newest revision.   *)
THEOREM NewRefsAreFresh == Spec => []NewRefsFresh
<1>1. IInv => NewRefsFresh
  BY FreshOfInvariant
<1> QED BY <1>1, Invariance, PTL

(* In documents whose sizes are right, every Size ever written is above    *)
(* all numbers a reader finds in use from there.                           *)
THEOREM SizesCoverAll ==
  ASSUME SizesAreRight
  PROVE  Spec => []SizeCoversAll
<1>1. Init => Covered(file)
  BY DEF SizesAreRight, Init, OpenFile
<1>2. IInv /\ Covered(file) /\ [Next]_vars => Covered(file)'
  <2> SUFFICES ASSUME IInv, Covered(file), [Next]_vars
               PROVE  Covered(file')
    OBVIOUS
  <2>1. CASE SaveNewRevision \/ SaveChanges
    BY <2>1, SavedFileCovers DEF SaveNewRevision, SaveChanges, SectionRefs
  <2>2. CASE file' = file
    BY <2>2
  <2> QED BY <2>1, <2>2
          DEF Next, SetCredentials, SetMode, ChangeRevision, ReserveRef, CreateObject,
              ChangeObject, ChangeTrailer, SaveToNew, SaveDecoded, vars, streamVars
<1>3. IInv /\ Covered(file) => SizeCoversAll
  BY CoveredIsSizeCoversAll DEF IInv
<1> QED BY <1>1, <1>2, <1>3, Invariance, PTL DEF Spec

-----------------------------------------------------------------------------
(* CPdfDocument, for all documents *)

(* Where the newest revision has its section.                              *)
Last == revisions[Len(revisions)]

(* What CPdf keeps of the mode it was opened in. *)
ModeKept ==
    /\ readOnly = (pdfMode = "ReadOnly")
    /\ linearized => readOnly
    /\ pdfMode = "ReadWrite" => mode = "paranoid"

(* The invariant for any documents.                                        *)
PdfBase ==
    /\ IInv
    /\ PdfTypeOK
    /\ Last = storePos
    /\ ReopenFindsRevisions
    /\ ModeKept

(* Steps of CPdf are steps of its XRefWriter, or none of them, or new      *)
(* objects.                                                                *)
LEMMA PdfStepIsStep ==
  ASSUME [PdfNext]_pdfVars
  PROVE  [Next]_vars \/ \E v \in DirectValue : AddIndirectProperty(v)
<1>1. ASSUME NEW r \in Refs, NEW v \in DirectValue, SetProperty(r, v) PROVE [Next]_vars
  BY <1>1 DEF SetProperty, Next
<1>2. ASSUME NEW r \in Refs, NEW v \in DirectValue, ChangeIndirectProperty(r, v) PROVE [Next]_vars
  BY <1>2 DEF ChangeIndirectProperty, Next
<1>3. ASSUME NEW new \in BOOLEAN, Save(new) PROVE [Next]_vars
  BY <1>3 DEF Save, Next
<1>4. ASSUME NEW n \in 0..MaxSections, PdfChangeRevision(n) PROVE [Next]_vars
  BY <1>4 DEF PdfChangeRevision, Next
<1>5. ASSUME NEW r \in Refs, ChangeTrailerEntry(r) PROVE [Next]_vars
  BY <1>5 DEF ChangeTrailerEntry, Next
<1>6. CASE PdfSetCredentials
  BY <1>6 DEF PdfSetCredentials, Next
<1>7. CASE SaveElsewhere
  BY <1>7 DEF SaveElsewhere, Next
<1>8. ASSUME NEW r \in Refs, GetIndirectProperty(r) PROVE [Next]_vars
  BY <1>8 DEF GetIndirectProperty
<1>9. CASE UNCHANGED pdfVars
  BY <1>9 DEF pdfVars
<1> QED BY <1>1, <1>2, <1>3, <1>4, <1>5, <1>6, <1>7, <1>8, <1>9 DEF PdfNext

(* addIndirectProperty takes a reference that was unused, with no object   *)
(* in the newest table; only an encrypted document leaves it without one.  *)
LEMMA AddIndirectFacts ==
  ASSUME IInv, NEW v \in DirectValue, AddIndirectProperty(v)
  PROVE  /\ IInv'
         /\ UNCHANGED <<streamVars, xrefVars, currTrailer, modeVars, revision, writer,
                        pdfMode, indMap>>
         /\ IsLatest /\ NextRef \in Refs /\ newStorage[NextRef] = "unused"
         /\ ~readOnly
         /\ NewestTable[NextRef.num].type # "n"
         /\ newStorage' = [newStorage EXCEPT
                             ![NextRef] = IF encrypted THEN "reserved" ELSE "initialized"]
         /\ IF encrypted THEN UNCHANGED <<changedStorage, change>>
            ELSE changedStorage' = [changedStorage EXCEPT ![NextRef] = v] /\ change' = TRUE
<1>1. /\ ChangesAllowed /\ IsLatest /\ ~readOnly
      /\ Reusable # {} \/ Fresh # {}
      /\ newStorage' = [newStorage EXCEPT
                          ![NextRef] = IF encrypted THEN "reserved" ELSE "initialized"]
      /\ IF encrypted THEN UNCHANGED <<changedStorage, change>>
         ELSE changedStorage' = [changedStorage EXCEPT ![NextRef] = v] /\ change' = TRUE
      /\ UNCHANGED <<streamVars, xrefVars, currTrailer, modeVars, revision, writer,
                     pdfMode, indMap>>
  BY DEF AddIndirectProperty, ChangesAllowed
<1>2. v \in Value
  BY DEF DirectValue, Value
<1>3. changedStorage' \in [Refs -> Value \cup {NoValue}]
  BY <1>1, <1>2 DEF IInv, TypeOK
<1>4. IInv'
  BY <1>1, <1>3, HandOutInv
<1>5. NextRef \in Refs /\ newStorage[NextRef] = "unused" /\ entries[NextRef.num].type # "n"
  BY <1>1, NextRefOfTable
<1>6. entries = NewestTable
  BY <1>1 DEF IInv, TypeOK, TableOfRevision, IsLatest, NewestTable
<1> QED BY <1>1, <1>4, <1>5, <1>6

(* The invariant of XRefWriter holds for its use by CPdf: what CPdf adds   *)
(* to its steps, addIndirectProperty, keeps it too.                        *)
LEMMA PdfStepInv ==
  ASSUME IInv, [PdfNext]_pdfVars
  PROVE  IInv'
BY PdfStepIsStep, StepInv, AddIndirectFacts

(* What is written, and when. *)
LEMMA PdfStepStream ==
  ASSUME IInv, [PdfNext]_pdfVars
  PROVE  \/ UNCHANGED streamVars
         \/ /\ IsLatest /\ ~linearized
            /\ SaveNewRevision \/ SaveChanges
BY AddIndirectFacts
DEF PdfNext, GetIndirectProperty, SetProperty, ChangeIndirectProperty, ChangeTrailerEntry,
            PdfChangeRevision, PdfSetCredentials, SaveElsewhere, pdfVars, vars, ChangeObject,
            ChangeTrailer, ChangeRevision, SetCredentials, SaveToNew, SaveDecoded, Save
(* The type of an object decides whether it gets a mapping. *)
(* The values that are mapped.                                             *)
Properties == Dicts \cup Plains \cup Links

(* The mapping only gets properties.                                       *)
LEMMA MappedType ==
  ASSUME NEW m \in [Refs -> Properties \cup {NoValue}], NEW r, NEW v
  PROVE  Mapped(m, r, v) \in [Refs -> Properties \cup {NoValue}]
BY DEF Mapped, Properties

(* Only dictionaries and plain values have a value of the same type that a *)
(* setter could give.                                                      *)
LEMMA TypesApart ==
  ASSUME NEW v \in DirectValue, NEW w \in Properties, TypeOf(v) = TypeOf(w)
  PROVE  v \in Dicts \cup Plains /\ w \in Dicts \cup Plains
BY ConstantsAssumption DEF DirectValue, Properties, TypeOf

(* A document that was just opened satisfies it.                           *)
LEMMA PdfInitBase ==
  ASSUME PdfInit
  PROVE  PdfBase
<1>1. IInv /\ Last = storePos
  BY OpenFileInv DEF PdfInit, Last
<1>2. PICK m \in OpenModes : /\ pdfMode = IF linearized THEN "ReadOnly" ELSE m
                            /\ mode = IF m = "Advanced" THEN "easy" ELSE "paranoid"
  BY DEF PdfInit
<1>3. ModeKept /\ pdfMode \in {"ReadOnly", "ReadWrite", "Advanced"}
  BY <1>2, OpenModesAssumption DEF ModeKept, PdfInit
<1>4. PdfTypeOK
  <2>1. NoProperties \in [Refs -> Properties \cup {NoValue}]
    BY DEF NoProperties
  <2>2. RootProperty \in [Refs -> Properties \cup {NoValue}]
    BY <2>1, MappedType DEF RootProperty
  <2>3. indMap \in [Refs -> Properties \cup {NoValue}] /\ change \in BOOLEAN
    BY <2>1, <2>2 DEF PdfInit
  <2> QED BY <1>1, <1>3, <2>3 DEF PdfTypeOK, IInv, Properties
<1>5. ReopenFindsRevisions
  <2> SUFFICES ASSUME ~linearized PROVE IsHistory(file, Last, revisions)
    BY DEF ReopenFindsRevisions, Last
  <2>1. revisions \in Histories(file, storePos)
    BY DEF PdfInit, OpenFile
  <2> QED BY <1>1, <2>1 DEF Histories
<1> QED BY <1>1, <1>3, <1>4, <1>5 DEF PdfBase

(* A save writes something, and none of the sections of a revision.        *)
LEMMA RevisionsOfSave ==
  ASSUME PdfBase, SaveNewRevision \/ SaveChanges
  PROVE  /\ file' = SavedFile
         /\ SectionRefs(writer, changedStorage) # {}
         /\ Registered(changedStorage) # {}
         /\ \A i \in DOMAIN revisions : revisions[i] \in 1..storePos
         /\ \A i \in DOMAIN revisions : SavedFile[revisions[i]] = file[revisions[i]]
BY SavedFileFacts, RevisionsCommitted
DEF SaveNewRevision, SaveChanges, SectionRefs, PdfBase, IInv

(* The revisions stay those found in the file: a save continues the newest *)
(* one, a section that is written over is that of no revision, and a new   *)
(* revision adds the position its section was written at.                  *)
LEMMA HistoryStep ==
  ASSUME PdfBase, [PdfNext]_pdfVars
  PROVE  ReopenFindsRevisions' /\ Last' = storePos'
<1>1. revisions \in Seq(1..storePos) /\ Len(revisions) \in Nat \ {0}
  BY DEF PdfBase, IInv, TypeOK
<1>2. linearized' = linearized
  BY AddIndirectFacts
  DEF PdfNext, GetIndirectProperty, SetProperty, ChangeIndirectProperty, ChangeTrailerEntry,
      PdfChangeRevision, PdfSetCredentials, SaveElsewhere, pdfVars, vars, ChangeObject, PdfBase,
      ChangeTrailer, ChangeRevision, SetCredentials, SaveToNew, SaveDecoded, Save, modeVars,
      SaveNewRevision, SaveChanges
<1>3. CASE UNCHANGED streamVars
  BY <1>2, <1>3 DEF streamVars, PdfBase, ReopenFindsRevisions, IsHistory, Last
<1>4. CASE SaveChanges
  <2>1. UNCHANGED <<revisions, storePos>>
    BY <1>4 DEF SaveChanges
  <2>2. \A i \in DOMAIN revisions : file'[revisions[i]] = file[revisions[i]]
    BY <1>4, RevisionsOfSave
  <2> QED BY <1>1, <1>2, <2>1, <2>2 DEF PdfBase, ReopenFindsRevisions, IsHistory, Last
<1>5. CASE SaveNewRevision /\ IsLatest
  <2>1. revisions' = Append(revisions, storePos + 1) /\ storePos' = storePos + 1
    BY <1>5 DEF SaveNewRevision
  <2>2. PICK k \in Nat \ {0} : k = Len(revisions)
    BY <1>1
  <2>3. /\ Len(revisions') = k + 1
        /\ \A i \in 1..k : revisions'[i] = revisions[i]
        /\ revisions'[k + 1] = storePos + 1
    BY <1>1, <2>1, <2>2, AppendProperties
  <2>4. Last' = storePos'
    BY <2>1, <2>3 DEF Last
  <2>5. \A i \in 1..k : file'[revisions[i]] = file[revisions[i]]
    BY <1>1, <1>5, <2>2, RevisionsOfSave
  <2>6. file'[storePos + 1].trailer.prev = revisions[k]
    <3>1. file'[storePos + 1] = NewSection
      BY <1>5, RevisionsOfSave, SavedFileFacts DEF PdfBase
    <3>2. NewSection.trailer.prev = lastXRefPos
      BY <1>5, RevisionsOfSave, NewSectionType DEF PdfBase
    <3>3. lastXRefPos = revisions[k]
      BY <1>5, <2>2 DEF PdfBase, IInv, TableOfRevision, IsLatest, TypeOK
    <3> QED BY <3>1, <3>2, <3>3
  <2>7. ASSUME ~linearized PROVE IsHistory(file', Last', revisions')
    <3>1. /\ revisions[k] = Last
          /\ file[revisions[1]].trailer.prev = 0
          /\ \A i \in 1..(k - 1) : file[revisions[i + 1]].trailer.prev = revisions[i]
      BY <2>2, <2>7 DEF PdfBase, ReopenFindsRevisions, IsHistory, Last
    <3>2. file'[revisions'[1]].trailer.prev = 0
      BY <2>2, <2>3, <2>5, <3>1
    <3>3. ASSUME NEW i \in 1..k
          PROVE  file'[revisions'[i + 1]].trailer.prev = revisions'[i]
      <4>1. CASE i = k
        BY <2>3, <2>6, <4>1
      <4>2. CASE i \in 1..(k - 1)
        <5>1. i + 1 \in 1..k
          BY <4>2
        <5> QED BY <2>3, <2>5, <3>1, <4>2, <5>1
      <4> QED BY <2>2, <4>1, <4>2
    <3> QED BY <2>3, <3>2, <3>3 DEF IsHistory, Last
  <2> QED BY <1>2, <2>4, <2>7 DEF ReopenFindsRevisions, Last
<1> QED BY <1>3, <1>4, <1>5, PdfStepStream DEF PdfBase

(* The modes. *)
LEMMA ModeStep ==
  ASSUME PdfBase, [PdfNext]_pdfVars
  PROVE  ModeKept' /\ pdfMode' = pdfMode
<1>1. UNCHANGED <<modeVars, pdfMode>>
  BY AddIndirectFacts
  DEF PdfNext, GetIndirectProperty, SetProperty, ChangeIndirectProperty, ChangeTrailerEntry,
      PdfChangeRevision, PdfSetCredentials, SaveElsewhere, pdfVars, vars, ChangeObject, PdfBase,
      ChangeTrailer, ChangeRevision, SetCredentials, SaveToNew, SaveDecoded, Save,
      SaveNewRevision, SaveChanges
<1> QED BY <1>1 DEF PdfBase, ModeKept, modeVars

(* Every step keeps the types.                                             *)
LEMMA PdfTypeStep ==
  ASSUME PdfBase, [PdfNext]_pdfVars
  PROVE  PdfTypeOK'
<1> DEFINE Maps == [Refs -> Properties \cup {NoValue}]
<1>1. TypeOK' /\ pdfMode' \in {"ReadOnly", "ReadWrite", "Advanced"}
  BY PdfStepInv, ModeStep DEF PdfBase, IInv, PdfTypeOK
<1>2. indMap \in Maps /\ change \in BOOLEAN
  BY DEF PdfBase, PdfTypeOK, Properties
<1>3. change' \in BOOLEAN
  BY <1>2, AddIndirectFacts
  DEF PdfNext, GetIndirectProperty, SetProperty, ChangeIndirectProperty, ChangeTrailerEntry,
      PdfChangeRevision, PdfSetCredentials, SaveElsewhere, pdfVars, Save, PdfBase
<1>4. NoProperties \in Maps
  BY DEF NoProperties
<1>5. RootProperty' \in Maps
  <2>1. PICK r, v : RootProperty' = Mapped(NoProperties, r, v)
    BY DEF RootProperty
  <2> QED BY <1>4, <2>1, MappedType
<1>6. indMap' \in Maps
  <2>1. CASE indMap' = indMap
    BY <1>2, <2>1
  <2>2. CASE InitRevisionSpecific
    BY <1>2, <1>5, <2>2 DEF InitRevisionSpecific
  <2>3. ASSUME NEW r \in Refs, GetIndirectProperty(r) PROVE indMap' \in Maps
    BY <1>2, <2>3, MappedType DEF GetIndirectProperty
  <2>4. ASSUME NEW r \in Refs, NEW v \in DirectValue, SetProperty(r, v) PROVE indMap' \in Maps
    <3>1. v \in Properties
      BY <1>2, <2>4, TypesApart DEF SetProperty, Properties
    <3> QED BY <1>2, <2>4, <3>1 DEF SetProperty
  <2>5. ASSUME NEW r \in Refs, NEW v \in DirectValue, ChangeIndirectProperty(r, v)
        PROVE  indMap' \in Maps
    BY <1>2, <2>5 DEF ChangeIndirectProperty
  <2> QED BY <2>1, <2>2, <2>3, <2>4, <2>5
          DEF PdfNext, AddIndirectProperty, ChangeTrailerEntry, PdfChangeRevision,
              PdfSetCredentials, SaveElsewhere, pdfVars, Save
<1> QED BY <1>1, <1>3, <1>6 DEF PdfTypeOK, Properties

(* Every step keeps the invariant for any documents.                       *)
LEMMA PdfStepBase ==
  ASSUME PdfBase, [PdfNext]_pdfVars
  PROVE  PdfBase'
BY PdfStepInv, HistoryStep, ModeStep, PdfTypeStep DEF PdfBase

(* It holds in every reachable state.                                      *)
THEOREM PdfInvariance == PdfSpec => []PdfBase
BY PdfInitBase, PdfStepBase, PTL DEF PdfSpec

(* Every variable of a CPdf has its type, the mapping holds properties and *)
(* no null, reference or keyword.                                          *)
THEOREM PdfTypeCorrect == PdfSpec => []PdfTypeOK
<1>1. PdfBase => PdfTypeOK
  BY DEF PdfBase
<1> QED BY <1>1, PdfInvariance, PTL

(* The list of revisions in memory is the chain of sections                *)
(* collectRevisions finds when the file is opened again at the newest one: *)
(* no order of saves, new revisions, copies to other files and looks at    *)
(* older revisions makes a branch.                                         *)
THEOREM HistoryIsFound == PdfSpec => []ReopenFindsRevisions
<1>1. PdfBase => ReopenFindsRevisions
  BY DEF PdfBase
<1> QED BY <1>1, PdfInvariance, PTL

(* No step of a CPdf changes what a revision in its list shows, or where   *)
(* it is.                                                                  *)
THEOREM PdfRevisionsAreKept == PdfSpec => RevisionsKept
<1>1. PdfBase /\ [PdfNext]_pdfVars =>
        [\A i \in DOMAIN revisions :
            /\ i \in DOMAIN revisions'
            /\ revisions'[i] = revisions[i]
            /\ Content(file', revisions'[i]) = Content(file, revisions[i])]_vars
  BY PdfStepStream, RevisionsKeptByStep DEF PdfBase
<1> QED BY <1>1, PdfInvariance, PTL DEF PdfSpec, RevisionsKept

(* The references that addIndirectProperty hands out are those of no       *)
(* object, and no two that are alive have one number.                      *)
THEOREM PdfNewRefsAreFresh == PdfSpec => []NewRefsFresh
<1>1. PdfBase => NewRefsFresh
  BY FreshOfInvariant DEF PdfBase
<1> QED BY <1>1, PdfInvariance, PTL

(* Where the files opened say their sizes right, every trailer a CPdf      *)
(* writes does.                                                            *)
THEOREM PdfSizesCoverAll ==
  ASSUME SizesAreRight
  PROVE  PdfSpec => []SizeCoversAll
<1>1. PdfInit => Covered(file)
  BY DEF SizesAreRight, PdfInit, OpenFile
<1>2. PdfBase /\ Covered(file) /\ [PdfNext]_pdfVars => Covered(file)'
  <2> SUFFICES ASSUME PdfBase, Covered(file), [PdfNext]_pdfVars
               PROVE  Covered(file')
    OBVIOUS
  <2>1. CASE SaveNewRevision \/ SaveChanges
    BY <2>1, SavedFileCovers, RevisionsOfSave DEF PdfBase
  <2>2. CASE file' = file
    BY <2>2
  <2> QED BY <2>1, <2>2, PdfStepStream DEF streamVars, PdfBase
<1>3. PdfBase /\ Covered(file) => SizeCoversAll
  BY CoveredIsSizeCoversAll DEF PdfBase, IInv
<1> QED BY <1>1, <1>2, <1>3, PdfInvariance, PTL DEF PdfSpec

-----------------------------------------------------------------------------
(* Documents without keywords *)

(* No object of a file opened is a bare keyword.  Such an object stops     *)
(* saveDecodedStreams half way, and leaves its writer with offsets of      *)
(* another file.                                                           *)
NoKeywords ==
    \A d \in Docs : \A i \in DOMAIN d.file : \A r \in Refs : d.file[i].objs[r] \notin Cmds

(* Keywords stay out of the file and of what is pending, and the writer is *)
(* left with no offsets between two saves.                                 *)
NoCommands ==
    /\ \A i \in DOMAIN file : \A r \in Refs : file[i].objs[r] \notin Cmds
    /\ \A r \in Refs : changedStorage[r] \notin Cmds
    /\ writer.offTable = {}

(* Every pending value is that of an object the newest revision has, or of *)
(* a reference handed out, which is reserved until it gets one.            *)
PendingKnown ==
    \A r \in Refs :
        /\ changedStorage[r] # NoValue
              => \/ newStorage[r] = "initialized"
                 \/ NewestTable[r.num].type = "n" /\ NewestTable[r.num].gen = r.gen
        /\ newStorage[r] = "reserved" => changedStorage[r] = NoValue

(* What there is behind storePos are pending changes. *)
SavedIsLast == Registered(changedStorage) = {} => Len(file) = storePos

(* Encryption is that of the newest revision while that is looked at, and  *)
(* no trailer in memory differs.                                           *)
EncryptKept ==
    /\ trailerDict.encrypt = file[lastXRefPos].trailer.encrypt
    /\ currTrailer # NoTrailer => currTrailer.encrypt = file[Last].trailer.encrypt
    /\ IsLatest => encrypted = file[Last].trailer.encrypt
    /\ needsCredentials => encrypted

(* The invariant without keywords.                                         *)
PdfInv ==
    /\ PdfBase
    /\ NoCommands
    /\ PendingKnown
    /\ SavedIsLast
    /\ EncryptKept
    /\ PropertyShowsObject
    /\ UnchangedIsSaved

-----------------------------------------------------------------------------
(* The document being worked on *)

(* What is looked at in the newest revision is the working document. *)
LEMMA WorkingIsShown ==
  ASSUME PdfBase, IsLatest
  PROVE  /\ Working.root = TrailerDict.root
         /\ \A r \in Refs : Working.objs[r] = Fetch(r)
<1>1. Last = lastXRefPos /\ entries = LoadEntries(file, lastXRefPos)
  BY DEF PdfBase, IInv, TypeOK, TableOfRevision, IsLatest, Last
<1>2. trailerDict.root = file[Last].trailer.root
  BY <1>1 DEF PdfBase, IInv, TrailerOfRevision
<1>3. Working.root = TrailerDict.root
  BY <1>2 DEF Working, TrailerDict, Last
<1>4. ASSUME NEW r \in Refs PROVE Working.objs[r] = Fetch(r)
  BY <1>1 DEF Working, Fetch, CXrefFetch, XRefFetch, Last
<1> QED BY <1>3, <1>4

(* A value of the file, null, or damaged. *)
LEMMA LookupType ==
  ASSUME NEW f \in Seq(Section), NEW table \in [Nums -> Entry], NEW r \in Refs
  PROVE  /\ Lookup(f, table, r) \in Value \cup {Damaged}
         /\ (\A i \in DOMAIN f : f[i].objs[r] \notin Cmds) => Lookup(f, table, r) \notin Cmds
         /\ Lookup(f, table, r) # Null => table[r.num].type = "n" /\ table[r.num].gen = r.gen
<1>1. Null \in Value \ Cmds /\ Damaged \notin Cmds
  BY ConstantsAssumption DEF Value
<1>2. \A i \in DOMAIN f : f[i].objs[r] \in Value \cup {NoValue}
  <2>1. \A i \in DOMAIN f : f[i] \in Section
    OBVIOUS
  <2> QED BY <2>1 DEF Section
<1> QED BY <1>1, <1>2 DEF Lookup

(* The table of the newest revision, which is the one in memory while that *)
(* is looked at.                                                           *)
LEMMA NewestTableType ==
  ASSUME PdfBase
  PROVE  /\ NewestTable \in [Nums -> Entry]
         /\ NewestTable = LoadEntries(file, storePos)
         /\ \A n \in Nums : NewestTable[n].off <= storePos
         /\ IsLatest => entries = NewestTable /\ lastXRefPos = storePos
<1>1. storePos \in Nat /\ storePos \in 0..Len(file)
  BY DEF PdfBase, IInv, TypeOK
<1>2. Backward(file, storePos) /\ RowsBackward(file, storePos)
  BY <1>1, WellFormedLeadsBackwards DEF PdfBase, IInv
<1>3. NewestTable = LoadEntries(file, storePos)
  BY DEF NewestTable, PdfBase, Last
<1>4. IsLatest => entries = NewestTable /\ lastXRefPos = storePos
  BY DEF PdfBase, IInv, TypeOK, TableOfRevision, IsLatest, NewestTable, Last
<1> QED BY <1>1, <1>2, <1>3, <1>4, LoadEntriesType

(* The values a document can show. *)
LEMMA WorkingType ==
  ASSUME PdfBase
  PROVE  /\ Working.root \in Refs
         /\ Working.objs \in [Refs -> Value \cup {Damaged}]
<1>1. file[Last].trailer.root \in Refs
  <2>1. Len(revisions) \in DOMAIN revisions
    BY DEF PdfBase, IInv, TypeOK
  <2>2. file[Last].trailer \in Trailer
    BY <2>1, RevisionsCommitted DEF PdfBase, IInv, Last
  <2> QED BY <2>2 DEF Trailer
<1>2. Working.root \in Refs
  BY <1>1 DEF Working, Last, PdfBase, IInv, TypeOK, Trailer
<1>3. ASSUME NEW r \in Refs
      PROVE  Working.objs[r] \in Value \cup {Damaged}
  <2>1. Lookup(file, NewestTable, r) \in Value \cup {Damaged}
    BY NewestTableType, LookupType DEF PdfBase, IInv, TypeOK
  <2>2. changedStorage[r] \in Value \cup {NoValue}
    BY DEF PdfBase, IInv, TypeOK
  <2> QED BY <2>1, <2>2 DEF Working, NewestTable
<1>4. Working.objs = [r \in Refs |-> Working.objs[r]]
  BY DEF Working
<1> QED BY <1>2, <1>3, <1>4

(* Pending references have numbers of their own. *)
LEMMA PendingApart ==
  ASSUME PdfBase, PendingKnown, NEW r \in Registered(changedStorage),
         NEW s \in Refs, s.num = r.num, s # r
  PROVE  /\ s \notin Registered(changedStorage)
         /\ Lookup(file, NewestTable, s) = Null
<1>1. NewRefsFresh
  BY FreshOfInvariant DEF PdfBase
<1>2. r.gen # s.gen
  BY DEF Registered, Refs
<1>3. CASE newStorage[r] = "initialized"
  <2>1. r \in NewRefs /\ NewestTable[r.num].type # "n"
    BY <1>1, <1>3 DEF NewRefs, NewRefsFresh, NewestTable, Registered
  <2>2. newStorage[s] # "initialized"
    BY <1>1, <2>1 DEF NewRefs, NewRefsFresh
  <2> QED BY <2>1, <2>2 DEF PendingKnown, Lookup, Registered
<1>4. CASE NewestTable[r.num].type = "n" /\ NewestTable[r.num].gen = r.gen
  <2>1. newStorage[s] # "initialized"
    BY <1>1, <1>4 DEF NewRefs, NewRefsFresh, NewestTable
  <2> QED BY <1>2, <1>4, <2>1 DEF PendingKnown, Lookup, Registered
<1> QED BY <1>3, <1>4 DEF PendingKnown, Registered

(* A saved section shows the document that was being worked on.            *)
LEMMA SavedShowsWorking ==
  ASSUME PdfBase, NoCommands, PendingKnown, IsLatest, Registered(changedStorage) # {}
  PROVE  Content(SavedFile, storePos + 1) = Working
<1> DEFINE refs == Registered(changedStorage)
<1>1. PICK p \in Nat \ {0} : p = storePos + 1
  BY DEF PdfBase, IInv, TypeOK
<1>2. SectionRefs(writer, changedStorage) = refs /\ refs # {} /\ refs \in SUBSET Refs
  BY DEF NoCommands, SectionRefs, Registered
<1>3. /\ SavedFile \in Seq(Section) /\ Len(SavedFile) = p
      /\ SavedFile[p] = NewSection
      /\ \A q \in 1..storePos : SavedFile[q] = file[q]
  BY <1>1, <1>2, SavedFileFacts DEF PdfBase, WellFormed
<1>4. NewSection.objs = changedStorage
  BY DEF NewSection, WriteSection, NoCommands, PdfBase, IInv, TypeOK
<1>5. ASSUME NEW n \in Nums, NEW r \in refs, r.num = n
      PROVE  NewSection.table[n] = [type |-> "n", gen |-> r.gen, off |-> p]
  <2>1. RowRef(refs, n) \in refs /\ RowRef(refs, n).num = n
    BY <1>2, <1>5, RowRefChosen
  <2>2. RowRef(refs, n) = r
    BY <1>2, <1>5, <2>1, PendingApart
  <2>3. NewSection.table[n] = [type |-> "n", gen |-> RowRef(refs, n).gen, off |-> p]
    BY <1>1, <1>2, <1>5 DEF NewSection, WriteSection, NoCommands
  <2> QED BY <2>2, <2>3
<1>6. PICK table : table = LoadEntries(SavedFile, p)
  OBVIOUS
<1>7. \A n \in Nums : table[n] = IF \E r \in refs : r.num = n THEN NewSection.table[n]
                                 ELSE NewestTable[n]
  BY <1>1, <1>2, <1>6, SavedEntries, NewestTableType DEF PdfBase
<1>8. ASSUME NEW r \in Refs
      PROVE  Lookup(SavedFile, table, r) = Working.objs[r]
  <2>1. r.num \in Nums /\ Working.objs[r] = IF changedStorage[r] # NoValue THEN changedStorage[r]
                                            ELSE Lookup(file, NewestTable, r)
    BY DEF Working, NewestTable, Refs
  <2>2. CASE r \in refs
    <3>1. table[r.num] = [type |-> "n", gen |-> r.gen, off |-> p]
      BY <1>5, <1>7, <2>1, <2>2
    <3>2. p \in DOMAIN SavedFile /\ SavedFile[p].objs[r] = changedStorage[r]
      BY <1>3, <1>4
    <3> QED BY <2>1, <2>2, <3>1, <3>2 DEF Lookup, Registered
  <2>3. CASE r \notin refs /\ \E s \in refs : s.num = r.num
    <3>1. PICK s \in refs : s.num = r.num
      BY <2>3
    <3>2. Lookup(file, NewestTable, r) = Null
      BY <2>3, <3>1, PendingApart
    <3>3. table[r.num].gen = s.gen
      <4>1. table[r.num] = NewSection.table[r.num]
        BY <1>7, <2>1, <2>3
      <4>2. NewSection.table[r.num] = [type |-> "n", gen |-> s.gen, off |-> p]
        BY <1>5, <2>1, <3>1
      <4> QED BY <4>1, <4>2
    <3>4. s.gen # r.gen
      BY <1>2, <2>3, <3>1 DEF Refs
    <3> QED BY <2>1, <2>3, <3>2, <3>3, <3>4 DEF Lookup, Registered
  <2>4. CASE ~\E s \in refs : s.num = r.num
    <3>1. table[r.num] = NewestTable[r.num]
      BY <1>7, <2>1, <2>4
    <3>2. PICK e \in Entry : e = NewestTable[r.num] /\ e.off <= storePos
      BY <2>1, NewestTableType
    <3>3. storePos \in 1..Len(file) /\ Len(file) \in Nat /\ file \in Seq(Section)
      BY DEF PdfBase, IInv, TypeOK
    <3>4. e.off \in DOMAIN SavedFile <=> e.off \in DOMAIN file
      BY <1>1, <1>3, <3>2, <3>3 DEF Entry
    <3>5. e.off \in DOMAIN file => SavedFile[e.off] = file[e.off]
      BY <1>3, <3>2, <3>3
    <3>6. Lookup(SavedFile, table, r) = Lookup(file, NewestTable, r)
      BY <3>1, <3>2, <3>4, <3>5 DEF Lookup
    <3>7. r \notin refs
      BY <2>4
    <3> QED BY <2>1, <3>6, <3>7 DEF Registered
  <2> QED BY <2>2, <2>3, <2>4
<1>9. SavedFile[p].trailer.root = Working.root
  BY <1>2, <1>3, NewSectionType, WorkingIsShown DEF PdfBase
<1>10. Content(SavedFile, p) = [root |-> Working.root, objs |-> [r \in Refs |-> Working.objs[r]]]
  BY <1>6, <1>8, <1>9 DEF Content
<1>11. Working = [root |-> Working.root, objs |-> [r \in Refs |-> Working.objs[r]]]
  BY DEF Working
<1> QED BY <1>1, <1>10, <1>11

(* The working document depends on these, and on nothing else.             *)
LEMMA WorkingUnchanged ==
  ASSUME UNCHANGED <<file, revisions, changedStorage>>,
         \/ currTrailer' = currTrailer
         \/ /\ currTrailer # NoTrailer /\ currTrailer' # NoTrailer
            /\ currTrailer'.root = currTrailer.root
  PROVE  Working' = Working
BY DEF Working

(* A trailer that a save puts in effect has the root and the encryption of *)
(* the one it was.                                                         *)
LEMMA SetTrailerKeeps ==
  ASSUME PdfBase, NEW t \in Trailer, t.root = TrailerDict.root, t.encrypt = TrailerDict.encrypt,
         SetTrailer(t)
  PROVE  /\ \/ currTrailer' = currTrailer
            \/ /\ currTrailer # NoTrailer /\ currTrailer' # NoTrailer
               /\ currTrailer'.root = currTrailer.root
               /\ currTrailer'.encrypt = currTrailer.encrypt
         /\ trailerDict'.root = trailerDict.root
         /\ trailerDict'.encrypt = trailerDict.encrypt
<1>1. t # NoTrailer
  BY DocsAssumption
<1> QED BY <1>1 DEF SetTrailer, TrailerDict

(* A trailer is written as encrypted as it was.                            *)
LEMMA WrittenEncrypt ==
  ASSUME NEW t \in Trailer, NEW refs, NEW prevPos, NEW entriesNum
  PROVE  WrittenTrailer(t, refs, prevPos, entriesNum).encrypt = t.encrypt
BY DEF WrittenTrailer, Trailer

(* A save puts a trailer like the one before in effect.                    *)
LEMMA NewTrailerKeeps ==
  ASSUME PdfBase, SectionRefs(writer, changedStorage) # {}
  PROVE  /\ NewSection.trailer \in Trailer
         /\ NewSection.trailer.root = TrailerDict.root
         /\ NewSection.trailer.encrypt = TrailerDict.encrypt
<1>1. NewSection.trailer = WrittenTrailer(TrailerDict, SectionRefs(writer, changedStorage),
                                          lastXRefPos, maxObj + 1)
  BY DEF NewSection, WriteSection
<1>2. TrailerDict \in Trailer
  BY TrailerDictType DEF PdfBase, IInv
<1> QED BY <1>1, <1>2, WrittenEncrypt, NewSectionType DEF PdfBase

(* A save to another file changes no more than that.                       *)
LEMMA ElsewhereKeeps ==
  ASSUME PdfBase, NoCommands, SaveElsewhere
  PROVE  /\ \/ currTrailer' = currTrailer
            \/ /\ currTrailer # NoTrailer /\ currTrailer' # NoTrailer
               /\ currTrailer'.root = currTrailer.root
               /\ currTrailer'.encrypt = currTrailer.encrypt
         /\ trailerDict'.root = trailerDict.root
         /\ trailerDict'.encrypt = trailerDict.encrypt
         /\ writer'.offTable = {}
         /\ UNCHANGED <<streamVars, entries, maxObj, lastXRefPos, encrypted, needsCredentials,
                        changedStorage, newStorage, modeVars, revision, pdfMode, indMap, change>>
<1>1. UNCHANGED <<streamVars, entries, maxObj, lastXRefPos, encrypted, needsCredentials,
                  changedStorage, newStorage, modeVars, revision, pdfMode, indMap, change>>
  BY DEF SaveElsewhere, SaveToNew, SaveDecoded
<1>2. CASE SaveToNew
  <2>1. SetTrailer(NewSection.trailer) /\ SectionRefs(writer, changedStorage) # {}
        /\ writer' = Reset(writer)
    BY <1>2 DEF SaveToNew
  <2>2. writer'.offTable = {}
    BY <2>1 DEF Reset, PdfBase, IInv, TypeOK, Writer
  <2> QED BY <1>1, <2>1, <2>2, NewTrailerKeeps, SetTrailerKeeps
<1>3. CASE SaveDecoded
  <2>1. PICK S \in ReachableRefs :
          IF Unreadable(S)
          THEN /\ writer' = [writer EXCEPT !.ignoreStream = TRUE]
               /\ UNCHANGED <<trailerDict, currTrailer>>
          ELSE IF Unwritable(S) # {}
          THEN /\ \E b \in Unwritable(S), done \in SUBSET (S \ Unwritable(S)) :
                     writer' = [offTable |-> writer.offTable \cup done \cup {b},
                                ignoreStream |-> TRUE]
               /\ UNCHANGED <<trailerDict, currTrailer>>
          ELSE /\ SetTrailer(WrittenTrailer(TrailerDict, writer.offTable \cup S, 0, 0))
               /\ writer' = NewWriter
    BY <1>3 DEF SaveDecoded
  <2>2. TrailerDict \in Trailer /\ writer \in Writer /\ writer.offTable = {}
    BY TrailerDictType DEF PdfBase, IInv, TypeOK, NoCommands
  <2>3. S \in SUBSET Refs /\ S # {}
    <3>1. TrailerDict.root \in Refs
      BY <2>2 DEF Trailer
    <3> QED BY <3>1, ConstantsAssumption DEF ReachableRefs
  <2>4. Unwritable(S) = {}
    <3> SUFFICES ASSUME NEW r \in Refs PROVE CXrefFetch(r) \notin Cmds
      BY <2>3 DEF Unwritable, DecodedValue
    <3>1. file \in Seq(Section) /\ entries \in [Nums -> Entry]
      BY DEF PdfBase, IInv, TypeOK
    <3>2. Lookup(file, entries, r) \notin Cmds
      BY <3>1, LookupType DEF NoCommands
    <3> QED BY <3>2 DEF CXrefFetch, XRefFetch, NoCommands
  <2>5. CASE Unreadable(S)
    <3>1. writer' = [writer EXCEPT !.ignoreStream = TRUE] /\ UNCHANGED <<trailerDict, currTrailer>>
      BY <2>1, <2>5
    <3>2. writer'.offTable = {}
      BY <2>2, <3>1 DEF Writer
    <3> QED BY <1>1, <3>1, <3>2
  <2>6. CASE ~Unreadable(S)
    <3>1. PICK t : /\ t = WrittenTrailer(TrailerDict, writer.offTable \cup S, 0, 0)
                   /\ SetTrailer(t) /\ writer' = NewWriter
      BY <2>1, <2>4, <2>6
    <3>2. writer.offTable \cup S \in SUBSET Refs /\ writer.offTable \cup S # {}
      BY <2>2, <2>3
    <3>3. t \in Trailer /\ t.root = TrailerDict.root /\ t.encrypt = TrailerDict.encrypt
      BY <2>2, <3>1, <3>2, WrittenTrailerType, WrittenEncrypt
    <3> QED BY <1>1, <3>1, <3>3, SetTrailerKeeps DEF NewWriter
  <2> QED BY <2>5, <2>6
<1> QED BY <1>2, <1>3 DEF SaveElsewhere

(* Documents and pending values keep being without keywords.               *)
LEMMA SavedNoCommands ==
  ASSUME PdfBase, NoCommands, SectionRefs(writer, changedStorage) # {}
  PROVE  \A i \in DOMAIN SavedFile : \A r \in Refs : SavedFile[i].objs[r] \notin Cmds
<1>1. /\ DOMAIN SavedFile = 1..(storePos + 1)
      /\ \A q \in 1..storePos : SavedFile[q] = file[q]
      /\ SavedFile[storePos + 1] = NewSection
      /\ storePos \in Nat
  BY SavedFileFacts DEF PdfBase, WellFormed, IInv, TypeOK
<1>2. DOMAIN file = 1..Len(file) /\ storePos \in 1..Len(file) /\ Len(file) \in Nat
  BY DEF PdfBase, IInv, TypeOK
<1>3. \A r \in Refs : NewSection.objs[r] \notin Cmds
  BY ConstantsAssumption DEF NewSection, WriteSection, NoCommands
<1>4. ASSUME NEW i \in DOMAIN SavedFile, NEW r \in Refs
      PROVE  SavedFile[i].objs[r] \notin Cmds
  <2>1. CASE i = storePos + 1
    BY <1>1, <1>3, <2>1
  <2>2. CASE i \in 1..storePos
    <3>1. i \in DOMAIN file /\ SavedFile[i] = file[i]
      BY <1>1, <1>2, <2>2
    <3> QED BY <3>1 DEF NoCommands
  <2> QED BY <1>1, <2>1, <2>2
<1> QED BY <1>4

(* A new revision shows what was being worked on, and nothing is pending.  *)
LEMMA NewRevisionFacts ==
  ASSUME PdfInv, IsLatest, SaveNewRevision
  PROVE  /\ Working' = Working
         /\ Content(file', storePos + 1) = Working
         /\ storePos' = storePos + 1 /\ Len(file') = storePos + 1
         /\ revisions' = Append(revisions, storePos + 1)
         /\ revision' = Len(revisions) /\ IsLatest'
         /\ \A r \in Refs : changedStorage'[r] = NoValue /\ newStorage'[r] = "unused"
         /\ encrypted' = encrypted
         /\ NoCommands' /\ EncryptKept'
<1>1. /\ file' = SavedFile /\ storePos' = storePos + 1
      /\ Registered(changedStorage) # {} /\ SectionRefs(writer, changedStorage) # {}
      /\ revisions' = Append(revisions, storePos + 1) /\ revision' = Len(revisions)
      /\ changedStorage' = NothingChanged /\ newStorage' = NothingNew /\ currTrailer' = NoTrailer
      /\ trailerDict' = SavedFile[storePos + 1].trailer /\ lastXRefPos' = storePos + 1
      /\ encrypted' = trailerDict'.encrypt /\ needsCredentials' = encrypted'
      /\ writer' = Reset(writer)
  BY DEF SaveNewRevision, Reopen, SectionRefs
<1>2. /\ PdfBase /\ NoCommands /\ PendingKnown /\ EncryptKept
      /\ revisions \in Seq(1..storePos) /\ Len(revisions) \in Nat \ {0} /\ storePos \in Nat
      /\ writer \in Writer
  BY DEF PdfInv, PdfBase, IInv, TypeOK
<1>3. Content(SavedFile, storePos + 1) = Working
  BY <1>1, <1>2, SavedShowsWorking
<1>4. /\ Len(revisions') = Len(revisions) + 1
      /\ revisions'[Len(revisions')] = storePos + 1
  BY <1>1, <1>2, AppendProperties
<1>5. /\ Len(SavedFile) = storePos + 1
      /\ SavedFile[storePos + 1].trailer = NewSection.trailer
      /\ NewSection.trailer.encrypt = TrailerDict.encrypt
  BY <1>1, <1>2, SavedFileFacts, NewTrailerKeeps DEF PdfBase
<1>6. \A r \in Refs : changedStorage'[r] = NoValue /\ newStorage'[r] = "unused"
  BY <1>1 DEF NothingChanged, NothingNew
<1>7. Working' = Content(file', storePos + 1)
  BY <1>1, <1>4, <1>6 DEF Working, Content
<1>8. TrailerDict.encrypt = encrypted
  BY <1>2, NewestTableType DEF EncryptKept, TrailerDict, PdfBase
<1>9. NoCommands'
  <2>1. \A i \in DOMAIN file' : \A r \in Refs : file'[i].objs[r] \notin Cmds
    BY <1>1, <1>2, SavedNoCommands
  <2>2. writer'.offTable = {}
    BY <1>1, <1>2 DEF Reset, Writer
  <2> QED BY <1>6, <2>1, <2>2, ConstantsAssumption DEF NoCommands, Value
<1>10. Last' = storePos + 1
  BY <1>4 DEF Last
<1>11. EncryptKept'
  BY <1>1, <1>10 DEF EncryptKept
<1>12. IsLatest'
  BY <1>1, <1>2, <1>4 DEF IsLatest
<1> QED BY <1>1, <1>3, <1>5, <1>6, <1>7, <1>8, <1>9, <1>11, <1>12

(* Overwriting the last save writes what is being worked on, and keeps it  *)
(* pending.                                                                *)
LEMMA SaveChangesFacts ==
  ASSUME PdfInv, IsLatest, SaveChanges
  PROVE  /\ Working' = Working
         /\ Content(file', storePos + 1) = Working
         /\ Len(file') = storePos + 1
         /\ Registered(changedStorage) # {}
         /\ UNCHANGED <<storePos, revisions, revision, changedStorage, newStorage, encrypted>>
         /\ IsLatest'
         /\ NewestTable' = NewestTable
         /\ NoCommands' /\ EncryptKept'
<1>1. /\ file' = SavedFile
      /\ Registered(changedStorage) # {} /\ SectionRefs(writer, changedStorage) # {}
      /\ SetTrailer(NewSection.trailer) /\ writer' = Reset(writer)
      /\ UNCHANGED <<storePos, revisions, entries, maxObj, lastXRefPos, encrypted,
                     needsCredentials, changedStorage, newStorage, modeVars, revision>>
  BY DEF SaveChanges, SectionRefs
<1>2. /\ PdfBase /\ NoCommands /\ PendingKnown /\ EncryptKept
      /\ revisions \in Seq(1..storePos) /\ Len(revisions) \in Nat \ {0}
      /\ writer \in Writer /\ storePos \in Nat \ {0} /\ lastXRefPos \in 1..storePos
  BY DEF PdfInv, PdfBase, IInv, TypeOK
<1>3. Content(SavedFile, storePos + 1) = Working /\ Len(SavedFile) = storePos + 1
  BY <1>1, <1>2, SavedShowsWorking, SavedFileFacts DEF PdfBase
<1>4. /\ LoadEntries(SavedFile, storePos) = LoadEntries(file, storePos)
      /\ Content(SavedFile, storePos) = Content(file, storePos)
  BY <1>1, <1>2, SavedFileKeeps DEF PdfBase
<1>5. Last = storePos /\ Last' = storePos
  BY <1>1, <1>2 DEF PdfBase, Last
<1>6. /\ \/ currTrailer' = currTrailer
         \/ /\ currTrailer # NoTrailer /\ currTrailer' # NoTrailer
            /\ currTrailer'.root = currTrailer.root
            /\ currTrailer'.encrypt = currTrailer.encrypt
      /\ trailerDict'.encrypt = trailerDict.encrypt
  BY <1>1, <1>2, NewTrailerKeeps, SetTrailerKeeps
<1>7. \A q \in 1..storePos : SavedFile[q] = file[q]
  BY <1>1, <1>2, SavedFileFacts DEF PdfBase
<1>8. Working' = Working
  <2>1. ASSUME NEW r \in Refs
        PROVE  Lookup(SavedFile, LoadEntries(SavedFile, storePos), r)
                 = Lookup(file, LoadEntries(file, storePos), r)
    <3>1. Content(SavedFile, storePos).objs[r] = Content(file, storePos).objs[r]
      BY <1>4
    <3> QED BY <3>1 DEF Content
  <2>2. SavedFile[storePos].trailer.root = file[storePos].trailer.root
    BY <1>2, <1>7
  <2>3. Working'.root = Working.root
    BY <1>1, <1>5, <1>6, <2>2 DEF Working, Last
  <2>4. Working'.objs = Working.objs
    BY <1>1, <1>5, <2>1 DEF Working, Last
  <2> QED BY <2>3, <2>4 DEF Working
<1>9. NewestTable' = NewestTable
  BY <1>1, <1>4, <1>5 DEF NewestTable, Last
<1>10. NoCommands'
  <2>1. \A i \in DOMAIN file' : \A r \in Refs : file'[i].objs[r] \notin Cmds
    BY <1>1, <1>2, SavedNoCommands
  <2>2. writer'.offTable = {}
    BY <1>1, <1>2 DEF Reset, Writer
  <2> QED BY <1>1, <1>2, <2>1, <2>2 DEF NoCommands
<1>11. IsLatest'
  BY <1>1 DEF IsLatest
<1>12. EncryptKept'
  <2>1. /\ file'[lastXRefPos].trailer = file[lastXRefPos].trailer
        /\ file'[Last].trailer = file[Last].trailer
    BY <1>1, <1>2, <1>5, <1>7
  <2> QED BY <1>1, <1>2, <1>5, <1>6, <1>11, <2>1 DEF EncryptKept
<1> QED BY <1>1, <1>3, <1>8, <1>9, <1>10, <1>11, <1>12

-----------------------------------------------------------------------------
(* The invariant is kept *)

(* What the steps need to keep besides PdfBase and the two properties.     *)
StoreInv == NoCommands /\ PendingKnown /\ SavedIsLast /\ EncryptKept

(* Where nothing is pending the file shows what is being worked on.        *)
LEMMA NothingPending ==
  ASSUME PdfBase, SavedIsLast, Registered(changedStorage) = {}, NEW r \in Refs
  PROVE  Content(file, Len(file)).objs[r] = Working.objs[r]
<1>1. Len(file) = Last /\ changedStorage[r] = NoValue
  BY DEF PdfBase, SavedIsLast, Registered
<1> QED BY <1>1 DEF Content, Working, Last

(* A document that was just opened satisfies the invariant.                *)
LEMMA PdfInitInv ==
  ASSUME NoKeywords, PdfInit
  PROVE  PdfInv
<1>1. PdfBase
  BY PdfInitBase
<1>2. \A r \in Refs : changedStorage[r] = NoValue /\ newStorage[r] = "unused"
  BY DEF PdfInit, OpenFile, NothingChanged, NothingNew
<1>3. NoCommands
  <2>1. \A i \in DOMAIN file : \A r \in Refs : file[i].objs[r] \notin Cmds
    BY DEF NoKeywords, PdfInit, OpenFile
  <2>2. writer.offTable = {}
    BY DEF PdfInit, OpenFile, NewWriter
  <2> QED BY <1>2, <2>1, <2>2, ConstantsAssumption DEF NoCommands, Value
<1>4. PendingKnown
  BY <1>2 DEF PendingKnown
<1>5. SavedIsLast
  BY DEF SavedIsLast, PdfInit, OpenFile
<1>6. EncryptKept
  <2>1. Last = lastXRefPos
    BY <1>1 DEF PdfInit, OpenFile, PdfBase
  <2> QED BY <2>1 DEF EncryptKept, PdfInit, OpenFile
<1>7. PropertyShowsObject
  BY DEF PropertyShowsObject, PdfInit, OpenFile, RootProperty, NoProperties, Mapped
<1>8. UnchangedIsSaved
  BY <1>1, <1>2, <1>5, NothingPending DEF UnchangedIsSaved, Registered
<1> QED BY <1>1, <1>3, <1>4, <1>5, <1>6, <1>7, <1>8 DEF PdfInv

(* What fetch depends on.                                                  *)
LEMMA FetchUnchanged ==
  ASSUME UNCHANGED <<file, entries, changedStorage, revision, revisions>>, NEW r \in Refs
  PROVE  Fetch(r)' = Fetch(r)
BY DEF Fetch, CXrefFetch, XRefFetch, IsLatest

(* A mapped object is one that a change may be stored for.                 *)
LEMMA MappedKnown ==
  ASSUME PdfInv, IsLatest, ~encrypted, NEW r \in Refs, indMap[r] # NoValue
  PROVE  /\ Fetch(r) = indMap[r] /\ indMap[r] \in Properties
         /\ \/ newStorage[r] = "initialized"
            \/ NewestTable[r.num].type = "n" /\ NewestTable[r.num].gen = r.gen
<1>1. Fetch(r) = indMap[r] /\ indMap[r] \in Properties
  BY DEF PdfInv, PropertyShowsObject, PdfBase, PdfTypeOK, Properties
<1>2. Fetch(r) # Null
  BY <1>1, ConstantsAssumption DEF Properties
<1>3. CASE changedStorage[r] # NoValue
  BY <1>1, <1>3 DEF PdfInv, PendingKnown
<1>4. CASE changedStorage[r] = NoValue
  <2>1. file \in Seq(Section) /\ entries \in [Nums -> Entry] /\ entries = NewestTable
    BY NewestTableType DEF PdfInv, PdfBase, IInv, TypeOK
  <2>2. Lookup(file, entries, r) # Null
    BY <1>2, <1>4 DEF Fetch, CXrefFetch, XRefFetch
  <2> QED BY <1>1, <2>1, <2>2, LookupType
<1> QED BY <1>3, <1>4, <1>1

(* An object is stored as pending.                                         *)
LEMMA PutObject ==
  ASSUME PdfInv, IsLatest, NEW r \in Refs, NEW v \in DirectValue,
         changedStorage' = [changedStorage EXCEPT ![r] = v],
         \A s \in Refs : s # r => newStorage'[s] = newStorage[s],
         \/ newStorage'[r] = "initialized"
         \/ /\ newStorage'[r] # "reserved"
            /\ NewestTable[r.num].type = "n" /\ NewestTable[r.num].gen = r.gen,
         UNCHANGED <<streamVars, xrefVars, currTrailer, modeVars, revision, writer>>
  PROVE  /\ StoreInv'
         /\ \A s \in Refs : Fetch(s)' = IF s = r THEN v ELSE Fetch(s)
         /\ Working' = [Working EXCEPT !.objs = [Working.objs EXCEPT ![r] = v]]
<1>1. v \in Value /\ v \notin Cmds /\ v # NoValue
  BY ConstantsAssumption DEF DirectValue, Value
<1>2. \A s \in Refs : changedStorage'[s] = IF s = r THEN v ELSE changedStorage[s]
  BY DEF PdfInv, PdfBase, IInv, TypeOK
<1>3. NewestTable' = NewestTable /\ Last' = Last
  BY DEF NewestTable, Last, streamVars
<1>4. NoCommands'
  BY <1>1, <1>2 DEF PdfInv, NoCommands, streamVars
<1>5. PendingKnown'
  <2>1. ASSUME NEW s \in Refs
        PROVE  /\ changedStorage'[s] # NoValue
                    => \/ newStorage'[s] = "initialized"
                       \/ NewestTable'[s.num].type = "n" /\ NewestTable'[s.num].gen = s.gen
               /\ newStorage'[s] = "reserved" => changedStorage'[s] = NoValue
    BY <1>2, <1>3 DEF PdfInv, PendingKnown
  <2> QED BY <2>1 DEF PendingKnown
<1>6. SavedIsLast'
  BY <1>1, <1>2 DEF SavedIsLast, Registered
<1>7. EncryptKept'
  BY <1>3 DEF PdfInv, EncryptKept, streamVars, xrefVars, IsLatest
<1>8. \A s \in Refs : Fetch(s)' = IF s = r THEN v ELSE Fetch(s)
  BY <1>1, <1>2 DEF Fetch, CXrefFetch, XRefFetch, IsLatest, streamVars, xrefVars
<1>9. Working' = [Working EXCEPT !.objs = [Working.objs EXCEPT ![r] = v]]
  <2>1. Working'.root = Working.root
    BY DEF Working, streamVars
  <2>2. \A s \in Refs : Working'.objs[s] = IF s = r THEN v ELSE Working.objs[s]
    BY <1>1, <1>2 DEF Working, streamVars
  <2>3. /\ Working.objs = [s \in Refs |-> Working.objs[s]]
        /\ Working'.objs = [s \in Refs |-> Working'.objs[s]]
    BY DEF Working
  <2>4. Working'.objs = [Working.objs EXCEPT ![r] = v]
    BY <2>2, <2>3
  <2>5. /\ Working = [root |-> Working.root, objs |-> Working.objs]
        /\ Working' = [root |-> Working'.root, objs |-> Working'.objs]
    BY DEF Working
  <2> QED BY <2>1, <2>4, <2>5
<1> QED BY <1>4, <1>5, <1>6, <1>7, <1>8, <1>9 DEF StoreInv

(* A change of an object that is mapped.                                   *)
LEMMA ChangeMappedObject ==
  ASSUME PdfInv, NEW r \in Refs, NEW v \in DirectValue, ChangeObject(r, v), indMap[r] # NoValue
  PROVE  /\ StoreInv' /\ IsLatest /\ ~readOnly /\ encrypted' = encrypted
         /\ \A s \in Refs : Fetch(s)' = IF s = r THEN v ELSE Fetch(s)
         /\ Working' = [Working EXCEPT !.objs = [Working.objs EXCEPT ![r] = v]]
<1>1. /\ IsLatest /\ ~readOnly /\ ~encrypted
      /\ changedStorage' = [changedStorage EXCEPT ![r] = v]
      /\ newStorage' = IF newStorage[r] # "unused"
                       THEN [newStorage EXCEPT ![r] = "initialized"] ELSE newStorage
      /\ UNCHANGED <<streamVars, xrefVars, currTrailer, modeVars, revision, writer>>
  BY DEF ChangeObject, ChangesAllowed
<1>2. newStorage \in [Refs -> {"unused", "reserved", "initialized"}]
  BY DEF PdfInv, PdfBase, IInv, TypeOK
<1>3. \/ newStorage[r] = "initialized"
      \/ NewestTable[r.num].type = "n" /\ NewestTable[r.num].gen = r.gen
  BY <1>1, MappedKnown
<1>4. \A s \in Refs : s # r => newStorage'[s] = newStorage[s]
  BY <1>1, <1>2
<1>5. \/ newStorage'[r] = "initialized"
      \/ /\ newStorage'[r] # "reserved"
         /\ NewestTable[r.num].type = "n" /\ NewestTable[r.num].gen = r.gen
  BY <1>1, <1>2, <1>3
<1> QED BY <1>1, <1>4, <1>5, PutObject DEF xrefVars

(* An object for a new reference.                                          *)
LEMMA AddNewObject ==
  ASSUME PdfInv, NEW v \in DirectValue, AddIndirectProperty(v), ~encrypted
  PROVE  /\ StoreInv' /\ IsLatest /\ ~readOnly /\ NextRef \in Refs /\ encrypted' = encrypted
         /\ Fetch(NextRef) = Null
         /\ \A s \in Refs : Fetch(s)' = IF s = NextRef THEN v ELSE Fetch(s)
         /\ Working' = [Working EXCEPT !.objs = [Working.objs EXCEPT ![NextRef] = v]]
<1>1. PICK r \in Refs : r = NextRef
  BY AddIndirectFacts DEF PdfInv, PdfBase
<1>2. /\ IsLatest /\ ~readOnly /\ newStorage[r] = "unused" /\ NewestTable[r.num].type # "n"
      /\ changedStorage' = [changedStorage EXCEPT ![r] = v]
      /\ newStorage' = [newStorage EXCEPT ![r] = "initialized"]
      /\ UNCHANGED <<streamVars, xrefVars, currTrailer, modeVars, revision, writer>>
  BY <1>1, AddIndirectFacts DEF PdfInv, PdfBase
<1>3. newStorage \in [Refs -> {"unused", "reserved", "initialized"}]
  BY DEF PdfInv, PdfBase, IInv, TypeOK
<1>4. (\A s \in Refs : s # r => newStorage'[s] = newStorage[s]) /\ newStorage'[r] = "initialized"
  BY <1>2, <1>3
<1>5. Fetch(r) = Null
  <2>1. changedStorage[r] = NoValue
    BY <1>2 DEF PdfInv, PendingKnown
  <2>2. entries = NewestTable
    BY <1>2, NewestTableType DEF PdfInv
  <2> QED BY <1>2, <2>1, <2>2 DEF Fetch, CXrefFetch, XRefFetch, Lookup
<1>6. /\ StoreInv'
      /\ \A s \in Refs : Fetch(s)' = IF s = r THEN v ELSE Fetch(s)
      /\ Working' = [Working EXCEPT !.objs = [Working.objs EXCEPT ![r] = v]]
  BY <1>2, <1>4, PutObject
<1> QED BY <1>1, <1>2, <1>5, <1>6 DEF xrefVars

(* Steps that leave what is pending and what is saved alone.               *)
LEMMA StoreUnchanged ==
  ASSUME PdfInv, UNCHANGED <<streamVars, changedStorage, newStorage>>,
         writer'.offTable = {}, EncryptKept'
  PROVE  StoreInv'
<1>1. NewestTable' = NewestTable
  BY DEF NewestTable, streamVars
<1> QED BY <1>1 DEF StoreInv, PdfInv, NoCommands, PendingKnown, SavedIsLast, Registered, streamVars

(* Steps that leave all of XRefWriter alone.                               *)
LEMMA VarsUnchanged ==
  ASSUME PdfInv, UNCHANGED vars
  PROVE  /\ StoreInv' /\ Working' = Working
         /\ \A s \in Refs : Fetch(s)' = Fetch(s)
<1>1. EncryptKept'
  BY DEF PdfInv, EncryptKept, vars, streamVars, xrefVars, changeVars, IsLatest, Last
<1>2. writer'.offTable = {} /\ UNCHANGED <<streamVars, changedStorage, newStorage>>
  BY DEF PdfInv, NoCommands, vars, changeVars
<1>3. Working' = Working
  BY WorkingUnchanged DEF vars, streamVars, changeVars
<1> QED BY <1>1, <1>2, <1>3, StoreUnchanged, FetchUnchanged
        DEF vars, streamVars, xrefVars, changeVars

(* In an encrypted document a reference is handed out and left empty.      *)
LEMMA AddEncrypted ==
  ASSUME PdfInv, NEW v \in DirectValue, AddIndirectProperty(v), encrypted
  PROVE  /\ StoreInv' /\ Working' = Working /\ encrypted' = encrypted
         /\ \A s \in Refs : Fetch(s)' = Fetch(s)
<1>1. PICK r \in Refs : r = NextRef
  BY AddIndirectFacts DEF PdfInv, PdfBase
<1>2. /\ newStorage[r] = "unused" /\ NewestTable[r.num].type # "n"
      /\ newStorage' = [newStorage EXCEPT ![r] = "reserved"]
      /\ UNCHANGED <<streamVars, xrefVars, changedStorage, currTrailer, modeVars, revision, writer>>
  BY <1>1, AddIndirectFacts DEF PdfInv, PdfBase
<1>3. \A s \in Refs : newStorage'[s] = IF s = r THEN "reserved" ELSE newStorage[s]
  BY <1>2 DEF PdfInv, PdfBase, IInv, TypeOK
<1>4. NewestTable' = NewestTable /\ changedStorage[r] = NoValue
  BY <1>2 DEF NewestTable, streamVars, PdfInv, PendingKnown
<1>5. PendingKnown'
  BY <1>2, <1>3, <1>4 DEF PdfInv, PendingKnown
<1>6. EncryptKept' /\ NoCommands' /\ SavedIsLast'
  BY <1>2 DEF PdfInv, EncryptKept, NoCommands, SavedIsLast, Registered, streamVars, xrefVars,
              IsLatest, Last
<1>7. Working' = Working
  BY <1>2, WorkingUnchanged DEF streamVars
<1> QED BY <1>2, <1>5, <1>6, <1>7, FetchUnchanged DEF StoreInv, streamVars, xrefVars

(* Another root in the trailer.                                            *)
LEMMA TrailerStep ==
  ASSUME PdfInv, NEW r \in Refs, ChangeTrailerEntry(r)
  PROVE  /\ StoreInv' /\ Working' = [Working EXCEPT !.root = r] /\ encrypted' = encrypted
         /\ IsLatest
         /\ \A s \in Refs : Fetch(s)' = Fetch(s)
<1>1. /\ currTrailer' = [TrailerDict EXCEPT !.root = r] /\ IsLatest
      /\ UNCHANGED <<streamVars, xrefVars, changedStorage, newStorage, modeVars, revision, writer>>
  BY DEF ChangeTrailerEntry, ChangeTrailer, ChangesAllowed
<1>2. TrailerDict \in Trailer
  BY TrailerDictType DEF PdfInv, PdfBase, IInv
<1>3. /\ currTrailer' \in Trailer /\ currTrailer'.root = r
      /\ currTrailer'.encrypt = TrailerDict.encrypt
  BY <1>1, <1>2 DEF Trailer
<1>4. currTrailer' # NoTrailer
  BY <1>3, DocsAssumption
<1>5. TrailerDict.encrypt = file[Last].trailer.encrypt
  BY <1>1, NewestTableType DEF TrailerDict, PdfInv, EncryptKept, PdfBase
<1>6. EncryptKept'
  BY <1>1, <1>3, <1>5 DEF PdfInv, EncryptKept, streamVars, xrefVars, IsLatest, Last
<1>7. Working'.root = r /\ Working'.objs = Working.objs
  BY <1>1, <1>3, <1>4 DEF Working, streamVars
<1>8. Working' = [Working EXCEPT !.root = r]
  <2>1. /\ Working = [root |-> Working.root, objs |-> Working.objs]
        /\ Working' = [root |-> Working'.root, objs |-> Working'.objs]
    BY DEF Working
  <2> QED BY <1>7, <2>1
<1> QED BY <1>1, <1>6, <1>8, StoreUnchanged, FetchUnchanged
        DEF PdfInv, NoCommands, streamVars, xrefVars

(* Another revision is looked at.                                          *)
LEMMA RevisionStep ==
  ASSUME PdfInv, NEW n \in 0..MaxSections, PdfChangeRevision(n)
  PROVE  StoreInv' /\ Working' = Working /\ n + 1 \in DOMAIN revisions /\ revision' = n
         /\ UNCHANGED <<file, revisions>>
<1>1. /\ UNCHANGED <<streamVars, modeVars, writer, changeVars>>
      /\ revision' = n /\ n # revision /\ n < Len(revisions)
      /\ trailerDict' = file[revisions[n + 1]].trailer /\ lastXRefPos' = revisions[n + 1]
      /\ encrypted' = IF IsLatest /\ currTrailer' # NoTrailer
                      THEN currTrailer'.encrypt ELSE file[revisions[n + 1]].trailer.encrypt
      /\ needsCredentials' = encrypted'
  BY DEF PdfChangeRevision, ChangeRevision, Reopen
<1>2. EncryptKept'
  <2>1. Last' = Last /\ file' = file /\ currTrailer' = currTrailer
    BY <1>1 DEF Last, streamVars, changeVars
  <2>2. ASSUME IsLatest' PROVE encrypted' = file[Last].trailer.encrypt
    <3>1. n = Len(revisions) - 1 /\ ~IsLatest
      BY <1>1, <2>2 DEF IsLatest, streamVars
    <3>2. revisions[n + 1] = Last
      BY <3>1 DEF Last, PdfInv, PdfBase, IInv, TypeOK
    <3> QED BY <1>1, <3>1, <3>2
  <2> QED BY <1>1, <2>1, <2>2 DEF PdfInv, EncryptKept
<1>3. Working' = Working
  BY <1>1, WorkingUnchanged DEF streamVars, changeVars
<1>4. n + 1 \in DOMAIN revisions
  BY <1>1 DEF PdfInv, PdfBase, IInv, TypeOK
<1> QED BY <1>1, <1>2, <1>3, <1>4, StoreUnchanged DEF PdfInv, NoCommands, streamVars, changeVars

(* Credentials are given.                                                  *)
LEMMA CredentialsStep ==
  ASSUME PdfInv, PdfSetCredentials
  PROVE  /\ StoreInv' /\ Working' = Working
         /\ UNCHANGED <<streamVars, changeVars, revision, encrypted>>
         /\ \A s \in Refs : Fetch(s)' = Fetch(s)
<1>1. /\ needsCredentials' = FALSE
      /\ UNCHANGED <<streamVars, entries, maxObj, trailerDict, lastXRefPos, encrypted,
                     changeVars, modeVars, revision, writer>>
  BY DEF PdfSetCredentials, SetCredentials
<1>2. EncryptKept'
  BY <1>1 DEF PdfInv, EncryptKept, streamVars, changeVars, IsLatest, Last
<1>3. Working' = Working
  BY <1>1, WorkingUnchanged DEF streamVars, changeVars
<1> QED BY <1>1, <1>2, <1>3, StoreUnchanged, FetchUnchanged
        DEF PdfInv, NoCommands, streamVars, changeVars

(* A save to another file.                                                 *)
LEMMA ElsewhereStep ==
  ASSUME PdfInv, SaveElsewhere
  PROVE  /\ StoreInv' /\ Working' = Working
         /\ UNCHANGED <<streamVars, revision, encrypted, changedStorage, indMap, change>>
         /\ \A s \in Refs : Fetch(s)' = Fetch(s)
<1>1. /\ \/ currTrailer' = currTrailer
         \/ /\ currTrailer # NoTrailer /\ currTrailer' # NoTrailer
            /\ currTrailer'.root = currTrailer.root
            /\ currTrailer'.encrypt = currTrailer.encrypt
      /\ trailerDict'.root = trailerDict.root
      /\ trailerDict'.encrypt = trailerDict.encrypt
      /\ writer'.offTable = {}
      /\ UNCHANGED <<streamVars, entries, maxObj, lastXRefPos, encrypted, needsCredentials,
                     changedStorage, newStorage, modeVars, revision, pdfMode, indMap, change>>
  BY ElsewhereKeeps DEF PdfInv
<1>2. EncryptKept'
  BY <1>1 DEF PdfInv, EncryptKept, streamVars, IsLatest, Last
<1>3. Working' = Working
  BY <1>1, WorkingUnchanged DEF streamVars
<1> QED BY <1>1, <1>2, <1>3, StoreUnchanged, FetchUnchanged DEF streamVars

(* A save.                                                                 *)
LEMMA SaveStep ==
  ASSUME PdfInv, NEW new \in BOOLEAN, Save(new)
  PROVE  /\ StoreInv' /\ Working' = Working /\ IsLatest /\ IsLatest'
         /\ encrypted' = encrypted /\ change' = FALSE /\ indMap' = indMap
         /\ \/ UNCHANGED vars /\ Registered(changedStorage) = {}
            \/ /\ Content(file', storePos + 1) = Working /\ Len(file') = storePos + 1
               /\ \/ UNCHANGED <<revisions, revision>>
                  \/ /\ revisions' = Append(revisions, storePos + 1)
                     /\ revision' = Len(revisions)
<1>1. /\ IsLatest /\ change' = FALSE /\ indMap' = indMap
      /\ \/ UNCHANGED vars /\ Registered(changedStorage) = {}
         \/ SaveNewRevision
         \/ SaveChanges
  BY DEF Save
<1>2. CASE UNCHANGED vars /\ Registered(changedStorage) = {}
  BY <1>1, <1>2, VarsUnchanged DEF vars, streamVars, xrefVars, IsLatest
<1>3. CASE SaveNewRevision
  <2>1. PendingKnown'
    BY <1>1, <1>3, NewRevisionFacts DEF PendingKnown
  <2>2. SavedIsLast'
    BY <1>1, <1>3, NewRevisionFacts DEF SavedIsLast
  <2> QED BY <1>1, <1>3, <2>1, <2>2, NewRevisionFacts DEF StoreInv
<1>4. CASE SaveChanges
  <2>1. PendingKnown'
    BY <1>1, <1>4, SaveChangesFacts DEF PdfInv, PendingKnown
  <2>2. SavedIsLast'
    BY <1>1, <1>4, SaveChangesFacts DEF SavedIsLast, Registered
  <2> QED BY <1>1, <1>4, <2>1, <2>2, SaveChangesFacts DEF StoreInv
<1> QED BY <1>1, <1>2, <1>3, <1>4

(* What is true of the newest revision in any state is true after a step.  *)
LEMMA ShownAfter == (PdfBase /\ IsLatest => \A r \in Refs : Working.objs[r] = Fetch(r))'
<1>1. PdfBase /\ IsLatest => \A r \in Refs : Working.objs[r] = Fetch(r)
  BY WorkingIsShown
<1> QED BY <1>1, PTL

(* After a look at another revision the mapping has the root at most, as   *)
(* it is there.                                                            *)
LEMMA RootAfter == (\A r \in Refs : RootProperty[r] # NoValue => RootProperty[r] = Fetch(r))'
<1>1. \A r \in Refs : RootProperty[r] # NoValue => RootProperty[r] = Fetch(r)
  BY DEF RootProperty, NoProperties, Mapped
<1> QED BY <1>1, PTL

(* A setter of a mapped property is refused because of encryption only.    *)
LEMMA SetterAccepted ==
  ASSUME PdfInv, IsLatest, ~encrypted, NEW r \in Refs, NEW v \in DirectValue,
         indMap[r] # NoValue, TypeOf(v) = TypeOf(indMap[r])
  PROVE  ParanoidCheck(r, v)
<1>1. /\ Fetch(r) = indMap[r] /\ indMap[r] \in Properties
      /\ \/ newStorage[r] = "initialized"
         \/ NewestTable[r.num].type = "n" /\ NewestTable[r.num].gen = r.gen
  BY MappedKnown
<1>2. v \in Dicts \cup Plains /\ Fetch(r) \in Dicts \cup Plains
  BY <1>1, TypesApart
<1>3. TypeSafe(Fetch(r), v)
  BY <1>1, <1>2, ConstantsAssumption DEF TypeSafe, Direct, Value
<1>4. entries = NewestTable
  BY NewestTableType DEF PdfInv
<1>5. KnowsRef(r) # "unused"
  BY <1>1, <1>4 DEF KnowsRef, XRefKnowsRef
<1> QED BY <1>3, <1>5 DEF ParanoidCheck

(* Every step keeps the mapping in accord with what fetch gives.  A setter *)
(* of a property is accepted, or the document is encrypted;                *)
(* changeIndirectProperty takes the object off the mapping; a save leaves  *)
(* every value as it was; looking at another revision leaves the root at   *)
(* most.                                                                   *)
LEMMA PropertyStep ==
  ASSUME PdfInv, [PdfNext]_pdfVars
  PROVE  PropertyShowsObject'
<1>0. PropertyShowsObject /\ PdfBase
  BY DEF PdfInv
<1>1. CASE indMap' = indMap /\ encrypted' = encrypted /\ \A s \in Refs : Fetch(s)' = Fetch(s)
  BY <1>0, <1>1 DEF PropertyShowsObject
<1>2. CASE InitRevisionSpecific /\ EncryptKept'
  BY <1>2, RootAfter DEF InitRevisionSpecific, PropertyShowsObject, EncryptKept
<1>3. ASSUME NEW r \in Refs, GetIndirectProperty(r) PROVE PropertyShowsObject'
  <2>1. UNCHANGED vars /\ indMap' = Mapped(indMap, r, Fetch(r))
    BY <1>3 DEF GetIndirectProperty
  <2>2. (\A s \in Refs : Fetch(s)' = Fetch(s)) /\ encrypted' = encrypted
    BY <2>1, VarsUnchanged DEF vars, xrefVars
  <2>3. indMap \in [Refs -> Properties \cup {NoValue}]
    BY <1>0 DEF PdfBase, PdfTypeOK, Properties
  <2> QED BY <1>0, <2>1, <2>2, <2>3 DEF PropertyShowsObject, Mapped
<1>4. ASSUME NEW r \in Refs, NEW v \in DirectValue, SetProperty(r, v) PROVE PropertyShowsObject'
  <2>1. /\ indMap' = [indMap EXCEPT ![r] = v] /\ IsLatest
        /\ indMap[r] # NoValue /\ TypeOf(v) = TypeOf(indMap[r])
    BY <1>4 DEF SetProperty, CanChange, GetMode
  <2>2. CASE encrypted
    BY <1>4, <2>2 DEF SetProperty, PropertyShowsObject, vars, xrefVars
  <2>3. CASE ~encrypted
    <3>1. ChangeObject(r, v)
      BY <1>4, <2>1, <2>3, SetterAccepted DEF SetProperty
    <3>2. /\ \A s \in Refs : Fetch(s)' = IF s = r THEN v ELSE Fetch(s)
          /\ encrypted' = encrypted
      BY <2>1, <3>1, ChangeMappedObject
    <3>3. indMap \in [Refs -> Properties \cup {NoValue}]
      BY <1>0 DEF PdfBase, PdfTypeOK, Properties
    <3> QED BY <1>0, <2>1, <3>2, <3>3 DEF PropertyShowsObject
  <2> QED BY <2>2, <2>3
<1>5. ASSUME NEW r \in Refs, NEW v \in DirectValue, ChangeIndirectProperty(r, v)
      PROVE  PropertyShowsObject'
  <2>1. indMap' = [indMap EXCEPT ![r] = NoValue] /\ ChangeObject(r, v) /\ indMap[r] # NoValue
    BY <1>5 DEF ChangeIndirectProperty
  <2>2. /\ \A s \in Refs : Fetch(s)' = IF s = r THEN v ELSE Fetch(s)
        /\ encrypted' = encrypted
    BY <2>1, ChangeMappedObject
  <2>3. indMap \in [Refs -> Properties \cup {NoValue}]
    BY <1>0 DEF PdfBase, PdfTypeOK, Properties
  <2> QED BY <1>0, <2>1, <2>2, <2>3 DEF PropertyShowsObject
<1>6. ASSUME NEW v \in DirectValue, AddIndirectProperty(v) PROVE PropertyShowsObject'
  <2>1. indMap' = indMap
    BY <1>6 DEF AddIndirectProperty
  <2>2. CASE encrypted
    BY <1>1, <1>6, <2>1, <2>2, AddEncrypted
  <2>3. CASE ~encrypted
    <3>1. /\ NextRef \in Refs /\ Fetch(NextRef) = Null /\ encrypted' = encrypted /\ IsLatest
          /\ \A s \in Refs : Fetch(s)' = IF s = NextRef THEN v ELSE Fetch(s)
      BY <1>6, <2>3, AddNewObject
    <3>2. indMap[NextRef] = NoValue
      BY <2>3, <3>1, MappedKnown, ConstantsAssumption DEF Properties
    <3> QED BY <1>0, <2>1, <3>1, <3>2 DEF PropertyShowsObject
  <2> QED BY <2>2, <2>3
<1>7. ASSUME NEW r \in Refs, ChangeTrailerEntry(r) PROVE PropertyShowsObject'
  BY <1>1, <1>7, TrailerStep DEF ChangeTrailerEntry
<1>8. ASSUME NEW new \in BOOLEAN, Save(new) PROVE PropertyShowsObject'
  <2>1. /\ Working' = Working /\ IsLatest /\ IsLatest'
        /\ encrypted' = encrypted /\ indMap' = indMap
    BY <1>8, SaveStep
  <2>2. PdfBase'
    BY <1>0, PdfStepBase
  <2>3. \A r \in Refs : Working'.objs[r] = Fetch(r)'
    BY <2>1, <2>2, ShownAfter
  <2>4. \A r \in Refs : Working.objs[r] = Fetch(r)
    BY <1>0, <2>1, WorkingIsShown
  <2> QED BY <1>1, <2>1, <2>3, <2>4
<1>9. ASSUME NEW n \in 0..MaxSections, PdfChangeRevision(n) PROVE PropertyShowsObject'
  BY <1>2, <1>9, RevisionStep DEF PdfChangeRevision, StoreInv
<1>10. CASE PdfSetCredentials
  BY <1>2, <1>10, CredentialsStep DEF PdfSetCredentials, StoreInv
<1>11. CASE SaveElsewhere
  BY <1>1, <1>11, ElsewhereStep
<1>12. CASE UNCHANGED pdfVars
  BY <1>1, <1>12, VarsUnchanged DEF pdfVars, vars, xrefVars
<1> QED BY <1>3, <1>4, <1>5, <1>6, <1>7, <1>8, <1>9, <1>10, <1>11, <1>12 DEF PdfNext

(* Every step that stores a change sets the flag, and the one that clears  *)
(* it leaves nothing pending.                                              *)
LEMMA UnchangedStep ==
  ASSUME PdfInv, [PdfNext]_pdfVars
  PROVE  UnchangedIsSaved' /\ StoreInv'
<1>0. UnchangedIsSaved /\ PdfBase /\ SavedIsLast
  BY DEF PdfInv
<1>1. CASE change' = change /\ file' = file /\ Working'.objs = Working.objs /\ StoreInv'
  BY <1>0, <1>1 DEF UnchangedIsSaved
<1>2. CASE change' = TRUE /\ StoreInv'
  BY <1>2 DEF UnchangedIsSaved
<1>3. CASE UNCHANGED vars /\ change' = change
  BY <1>1, <1>3, VarsUnchanged DEF vars, streamVars
<1>4. ASSUME NEW r \in Refs, NEW v \in DirectValue, SetProperty(r, v)
      PROVE  UnchangedIsSaved' /\ StoreInv'
  BY <1>2, <1>3, <1>4, ChangeMappedObject DEF SetProperty
<1>5. ASSUME NEW r \in Refs, NEW v \in DirectValue, ChangeIndirectProperty(r, v)
      PROVE  UnchangedIsSaved' /\ StoreInv'
  BY <1>2, <1>5, ChangeMappedObject DEF ChangeIndirectProperty
<1>6. ASSUME NEW v \in DirectValue, AddIndirectProperty(v)
      PROVE  UnchangedIsSaved' /\ StoreInv'
  <2>1. CASE encrypted
    BY <1>1, <1>6, <2>1, AddEncrypted DEF AddIndirectProperty, streamVars
  <2>2. CASE ~encrypted
    BY <1>2, <1>6, <2>2, AddNewObject DEF AddIndirectProperty
  <2> QED BY <2>1, <2>2
<1>7. ASSUME NEW r \in Refs, ChangeTrailerEntry(r) PROVE UnchangedIsSaved' /\ StoreInv'
  <2>1. /\ StoreInv' /\ Working' = [Working EXCEPT !.root = r]
        /\ file' = file /\ change' = change
    BY <1>7, TrailerStep DEF ChangeTrailerEntry, ChangeTrailer, streamVars
  <2>2. Working'.objs = Working.objs
    BY <2>1 DEF Working
  <2> QED BY <1>1, <2>1, <2>2
<1>8. ASSUME NEW new \in BOOLEAN, Save(new) PROVE UnchangedIsSaved' /\ StoreInv'
  <2>1. StoreInv' /\ Working' = Working
    BY <1>8, SaveStep
  <2>2. CASE UNCHANGED vars /\ Registered(changedStorage) = {}
    <3>1. file' = file
      BY <2>2 DEF vars, streamVars
    <3>2. \A r \in Refs : Content(file, Len(file)).objs[r] = Working.objs[r]
      BY <1>0, <2>2, NothingPending
    <3> QED BY <2>1, <3>1, <3>2 DEF UnchangedIsSaved
  <2>3. CASE Content(file', storePos + 1) = Working /\ Len(file') = storePos + 1
    BY <2>1, <2>3 DEF UnchangedIsSaved
  <2> QED BY <1>8, <2>2, <2>3, SaveStep
<1>9. ASSUME NEW n \in 0..MaxSections, PdfChangeRevision(n) PROVE UnchangedIsSaved' /\ StoreInv'
  BY <1>1, <1>9, RevisionStep DEF PdfChangeRevision
<1>10. CASE PdfSetCredentials
  BY <1>1, <1>10, CredentialsStep DEF PdfSetCredentials, streamVars
<1>11. CASE SaveElsewhere
  BY <1>1, <1>11, ElsewhereStep DEF streamVars
<1> QED BY <1>3, <1>4, <1>5, <1>6, <1>7, <1>8, <1>9, <1>10, <1>11
        DEF PdfNext, GetIndirectProperty, pdfVars

(* Every step keeps the invariant.                                         *)
LEMMA PdfStepInvariant ==
  ASSUME PdfInv, [PdfNext]_pdfVars
  PROVE  PdfInv'
BY PdfStepBase, PropertyStep, UnchangedStep DEF PdfInv, StoreInv

(* It holds in every reachable state.                                      *)
THEOREM StoreInvariance ==
  ASSUME NoKeywords
  PROVE  PdfSpec => []PdfInv
BY PdfInitInv, PdfStepInvariant, PTL DEF PdfSpec

(* A property in the mapping has the value XRefWriter gives for its        *)
(* reference, unless the document is encrypted.                            *)
THEOREM PropertiesShowObjects ==
  ASSUME NoKeywords
  PROVE  PdfSpec => []PropertyShowsObject
<1>1. PdfInv => PropertyShowsObject
  BY DEF PdfInv
<1> QED BY <1>1, StoreInvariance, PTL

(* Once isChanged says no, every object is in the file as it is shown.     *)
THEOREM UnchangedMeansSaved ==
  ASSUME NoKeywords
  PROVE  PdfSpec => []UnchangedIsSaved
<1>1. PdfInv => UnchangedIsSaved
  BY DEF PdfInv
<1> QED BY <1>1, StoreInvariance, PTL

-----------------------------------------------------------------------------
(* The root *)

(* The root of an encrypted document cannot be looked at when it is opened. *)
EncryptedRootsAreDicts ==
    \A d \in Docs :
        LET p == Len(d.file) IN
        d.file[p].trailer.encrypt
            => TypeOf(Content(d.file, p).objs[d.file[p].trailer.root]) = "dict"

(* The document being worked on has a dictionary as its root, whichever    *)
(* revision is looked at.                                                  *)
RootInv == pdfMode # "Advanced" => TypeOf(Working.objs[Working.root]) = "dict"

(* Opening a document looks at the root unless credentials are missing.    *)
LEMMA RootInit ==
  ASSUME NoKeywords, EncryptedRootsAreDicts, PdfInit
  PROVE  RootInv
<1>1. PdfInv /\ PdfBase /\ IsLatest
  BY PdfInitInv DEF PdfInit, OpenFile, IsLatest, PdfInv
<1>2. CASE ~needsCredentials
  <2>1. TrailerDict.root \in Refs
    BY <1>1, TrailerDictType DEF PdfBase, IInv, Trailer
  <2> QED BY <1>1, <1>2, <2>1, WorkingIsShown DEF PdfInit, RootInv
<1>3. CASE needsCredentials
  <2>1. PICK d \in Docs : file = d.file /\ storePos = Len(d.file)
    BY DEF PdfInit, OpenFile
  <2>2. /\ lastXRefPos = storePos /\ trailerDict = file[storePos].trailer /\ trailerDict.encrypt
        /\ currTrailer = NoTrailer /\ Registered(changedStorage) = {}
    BY <1>3 DEF PdfInit, OpenFile, Registered, NothingChanged
  <2>3. Working.root = file[storePos].trailer.root
    BY <1>1, <2>2 DEF Working, PdfBase, Last
  <2>4. Working.root \in Refs
    BY <1>1, WorkingType
  <2>5. Content(file, storePos).objs[Working.root] = Working.objs[Working.root]
    BY <1>1, <2>1, <2>2, <2>4, NothingPending DEF PdfInv
  <2> QED BY <2>1, <2>2, <2>3, <2>5 DEF EncryptedRootsAreDicts, RootInv
<1> QED BY <1>2, <1>3

(* A dictionary is replaced by a dictionary.                               *)
LEMMA DictStaysDict ==
  ASSUME PdfInv, pdfMode # "Advanced", NEW r \in Refs, NEW v \in DirectValue,
         ChangeObject(r, v), indMap[r] # NoValue, TypeOf(Fetch(r)) = "dict"
  PROVE  TypeOf(v) = "dict"
<1>1. IsLatest /\ ~readOnly /\ ~encrypted /\ ParanoidCheck(r, v)
  BY DEF ChangeObject, ChangesAllowed
<1>2. mode = "paranoid"
  BY <1>1 DEF PdfInv, PdfBase, PdfTypeOK, ModeKept
<1>3. \/ newStorage[r] = "initialized"
      \/ NewestTable[r.num].type = "n" /\ NewestTable[r.num].gen = r.gen
  BY <1>1, MappedKnown
<1>4. NewRefsFresh /\ entries = NewestTable
  BY <1>1, FreshOfInvariant, NewestTableType DEF PdfInv, PdfBase
<1>5. KnowsRef(r) = "initialized"
  BY <1>3, <1>4 DEF KnowsRef, XRefKnowsRef, NewRefsFresh, NewRefs, NewestTable
<1>6. TypeSafe(Fetch(r), v)
  BY <1>1, <1>2, <1>5 DEF ParanoidCheck
<1>7. Fetch(r) \in Dicts /\ Fetch(r) \notin Links /\ v \notin Links
  BY ConstantsAssumption DEF TypeOf, DirectValue
<1> QED BY <1>6, <1>7 DEF TypeSafe, Direct

(* The root is exchanged for what has its type, and the trailer is changed *)
(* to a root that is a dictionary.                                         *)
LEMMA RootStep ==
  ASSUME PdfInv, RootInv, [PdfNext]_pdfVars
  PROVE  RootInv'
<1>0. PdfBase /\ pdfMode' = pdfMode /\ Working.root \in Refs
  BY ModeStep, WorkingType DEF PdfInv
<1>1. CASE Working' = Working
  BY <1>0, <1>1 DEF RootInv
<1>2. CASE UNCHANGED vars
  BY <1>1, <1>2, VarsUnchanged
<1>3. ASSUME NEW r \in Refs, NEW v \in DirectValue, ChangeObject(r, v), indMap[r] # NoValue
      PROVE  RootInv'
  <2>1. IsLatest /\ Working' = [Working EXCEPT !.objs = [Working.objs EXCEPT ![r] = v]]
    BY <1>3, ChangeMappedObject
  <2>2. /\ Working'.root = Working.root
        /\ Working'.objs[Working.root] = IF r = Working.root THEN v ELSE Working.objs[Working.root]
    BY ZenonT(90), <1>0, <2>1 DEF Working
  <2>3. Working.objs[r] = Fetch(r)
    BY <1>0, <2>1, WorkingIsShown
  <2> QED BY <1>0, <1>3, <2>2, <2>3, DictStaysDict DEF RootInv
<1>4. ASSUME NEW v \in DirectValue, AddIndirectProperty(v) PROVE RootInv'
  <2>1. CASE encrypted
    BY <1>1, <1>4, <2>1, AddEncrypted
  <2>2. CASE ~encrypted
    <3>1. /\ NextRef \in Refs /\ Fetch(NextRef) = Null /\ IsLatest
          /\ Working' = [Working EXCEPT !.objs = [Working.objs EXCEPT ![NextRef] = v]]
      BY <1>4, <2>2, AddNewObject
    <3>2. Working.objs[NextRef] = Null
      BY <1>0, <3>1, WorkingIsShown
    <3>3. TypeOf(Null) # "dict"
      BY ConstantsAssumption DEF TypeOf
    <3>4. /\ Working'.root = Working.root
          /\ Working'.objs[Working.root]
                 = IF NextRef = Working.root THEN v ELSE Working.objs[Working.root]
      BY ZenonT(90), <1>0, <3>1 DEF Working
    <3> QED BY <1>0, <3>2, <3>3, <3>4 DEF RootInv
  <2> QED BY <2>1, <2>2
<1>5. ASSUME NEW r \in Refs, ChangeTrailerEntry(r) PROVE RootInv'
  <2>1. IsLatest /\ Working' = [Working EXCEPT !.root = r]
    BY <1>5, TrailerStep
  <2>2. Working'.root = r /\ Working'.objs[r] = Fetch(r)
    BY <1>0, <2>1, WorkingIsShown DEF Working
  <2>3. ~readOnly /\ (mode = "paranoid" => TypeOf(Fetch(r)) = "dict")
    BY <1>5 DEF ChangeTrailerEntry, ChangeTrailer, ChangesAllowed
  <2> QED BY <1>0, <2>2, <2>3 DEF RootInv, PdfBase, PdfTypeOK, ModeKept
<1>6. ASSUME NEW new \in BOOLEAN, Save(new) PROVE RootInv'
  BY <1>1, <1>6, SaveStep
<1>7. ASSUME NEW n \in 0..MaxSections, PdfChangeRevision(n) PROVE RootInv'
  BY <1>1, <1>7, RevisionStep
<1>8. CASE PdfSetCredentials
  BY <1>1, <1>8, CredentialsStep
<1>9. CASE SaveElsewhere
  BY <1>1, <1>9, ElsewhereStep
<1> QED BY <1>2, <1>3, <1>4, <1>5, <1>6, <1>7, <1>8, <1>9
        DEF PdfNext, GetIndirectProperty, SetProperty, ChangeIndirectProperty, pdfVars

(* The root of a document stays a dictionary in the modes that check       *)
(* types.                                                                  *)
THEOREM RootIsDict ==
  ASSUME NoKeywords, EncryptedRootsAreDicts
  PROVE  PdfSpec => []RootStaysDict
<1>1. PdfInit => RootInv
  BY RootInit
<1>2. PdfInv /\ RootInv /\ [PdfNext]_pdfVars => RootInv'
  BY RootStep
<1>3. PdfInv /\ RootInv => RootStaysDict
  <2> SUFFICES ASSUME PdfInv, RootInv, IsLatest, pdfMode # "Advanced"
               PROVE  TypeOf(Fetch(TrailerDict.root)) = "dict"
    BY DEF RootStaysDict
  <2> QED BY WorkingIsShown, WorkingType DEF PdfInv, RootInv
<1> QED BY <1>1, <1>2, <1>3, StoreInvariance, PTL DEF PdfSpec

-----------------------------------------------------------------------------
(* CPdf implements the store of versions *)

(* The document of each revision.                                          *)
History == [i \in DOMAIN revisions |-> Content(file, revisions[i])]

(* What a section shows is a document.                                     *)
LEMMA ContentType ==
  ASSUME PdfBase, NEW p \in 1..storePos
  PROVE  Content(file, p) \in Store!Document
<1>1. /\ file \in Seq(Section) /\ Len(file) \in Nat /\ storePos \in 1..Len(file)
      /\ WellFormed(file)
  BY DEF PdfBase, IInv, TypeOK
<1>2. p \in Nat /\ p \in 0..Len(file) /\ p \in DOMAIN file
  BY <1>1
<1>3. LoadEntries(file, p) \in [Nums -> Entry]
  BY <1>1, <1>2, WellFormedLeadsBackwards, LoadEntriesType
<1>4. \A r \in Refs : Lookup(file, LoadEntries(file, p), r) \in Value \cup {Damaged}
  BY <1>1, <1>3, LookupType
<1>5. file[p].trailer.root \in Refs
  <2>1. file[p] \in Section
    BY <1>1, <1>2
  <2> QED BY <2>1 DEF Section, Trailer
<1> QED BY <1>4, <1>5 DEF Content, Store!Document

(* Every revision in the list is one, and the newest is looked at when the *)
(* view is on the last.                                                    *)
LEMMA HistoryType ==
  ASSUME PdfBase
  PROVE  /\ History \in Seq(Store!Document)
         /\ Len(History) = Len(revisions) /\ Len(History) > 0
         /\ DOMAIN History = DOMAIN revisions
         /\ IsLatest <=> revision + 1 = Len(History)
<1>1. revisions \in Seq(1..storePos) /\ Len(revisions) \in Nat \ {0}
      /\ DOMAIN revisions = 1..Len(revisions) /\ revision \in Nat
  BY DEF PdfBase, IInv, TypeOK
<1>2. ASSUME NEW i \in 1..Len(revisions)
      PROVE  Content(file, revisions[i]) \in Store!Document
  <2>1. PICK S, q : S = 1..storePos /\ q = revisions /\ q \in Seq(S)
                                  /\ Len(q) = Len(revisions)
    BY <1>1
  <2>2. q[i] \in S
    BY <2>1, ElementOfSeq
  <2> QED BY <2>1, <2>2, ContentType
<1>3. History \in [1..Len(revisions) -> Store!Document]
  BY <1>1, <1>2 DEF History
<1>4. History \in Seq(Store!Document)
  BY <1>1, <1>3
<1>5. Len(History) = Len(revisions)
  BY <1>1, <1>3, <1>4
<1> QED BY <1>1, <1>3, <1>4, <1>5 DEF IsLatest

(* A document just opened is a store that starts.                          *)
LEMMA StoreStarts ==
  ASSUME NoKeywords, PdfInit
  PROVE  Store!StoreInit
<1>1. PdfInv /\ PdfBase
  BY PdfInitInv DEF PdfInv
<1>2. /\ Len(file) = Last /\ revision = Len(revisions) - 1
      /\ currTrailer = NoTrailer /\ \A r \in Refs : changedStorage[r] = NoValue
  BY <1>1 DEF PdfInit, OpenFile, PdfBase, NothingChanged
<1>3. Working = Content(file, Last)
  BY <1>2 DEF Working, Content, Last
<1>4. Len(revisions) \in DOMAIN revisions /\ Len(revisions) \in Nat
  BY <1>1 DEF PdfBase, IInv, TypeOK
<1>5. History[Len(History)] = Content(file, Last)
  BY <1>1, <1>4, HistoryType DEF History, Last
<1>6. revision + 1 = Len(History)
  BY <1>1, <1>2, <1>4, HistoryType
<1> QED BY <1>1, <1>2, <1>3, <1>5, <1>6, HistoryType DEF Store!StoreInit, Store!Newest, History

(* The revisions there are stay the same documents.                        *)
LEMMA HistoryKept ==
  ASSUME PdfBase, [PdfNext]_pdfVars, UNCHANGED revisions
  PROVE  History' = History
<1>1. \A i \in DOMAIN revisions : Content(file', revisions'[i]) = Content(file, revisions[i])
  BY PdfStepStream, RevisionsKeptByStep DEF PdfBase
<1> QED BY <1>1 DEF History

(* One object of the working document is exchanged.                        *)
LEMMA EditIsOneEdit ==
  ASSUME PdfBase, NEW r \in Refs, NEW v \in DirectValue,
         Working' = [Working EXCEPT !.objs = [Working.objs EXCEPT ![r] = v]]
  PROVE  Store!OneEdit(Working, Working')
<1>1. Working'.root = Working.root /\ Working'.objs = [Working.objs EXCEPT ![r] = v]
  BY DEF Working
<1>2. Working.objs \in [Refs -> Value \cup {Damaged}] /\ v \in Value
  BY WorkingType DEF DirectValue, Value
<1> QED BY <1>1, <1>2 DEF Store!OneEdit

(* Append, pointwise.                                                      *)
LEMMA AppendAsFunction ==
  ASSUME NEW S, NEW s \in Seq(S), NEW e, NEW k \in Nat, Len(s) = k
  PROVE  Append(s, e) = [i \in 1..(k + 1) |-> IF i = k + 1 THEN e ELSE s[i]]
<1>1. s \in Seq(S \cup {e}) /\ e \in S \cup {e}
  <2>1. s \in [1..k -> S]
    OBVIOUS
  <2> QED BY <2>1
<1>2. Append(s, e) \in Seq(S \cup {e}) /\ Len(Append(s, e)) = k + 1
  BY <1>1, AppendProperties
<1>3. DOMAIN Append(s, e) = 1..(k + 1)
  BY <1>2
<1>4. ASSUME NEW i \in 1..(k + 1)
      PROVE  Append(s, e)[i] = IF i = k + 1 THEN e ELSE s[i]
  BY <1>1, AppendProperties
<1>5. PICK T, a : T = S \cup {e} /\ a = Append(s, e) /\ a \in Seq(T) /\ Len(a) = k + 1
  BY <1>2
<1>6. a \in [1..(k + 1) -> T]
  BY <1>5, LenProperties
<1>7. a = [i \in 1..(k + 1) |-> a[i]]
  BY <1>6, Zenon
<1> QED BY <1>4, <1>5, <1>7

(* Every step of CPdf is one of the store: a change and a new object are   *)
(* an edit of one object, another root is one of the root, save is a       *)
(* checkpoint, a new revision commits what is being worked on,             *)
(* changeRevision is a look, and what stays in memory, the copies to other *)
(* files and everything refused is a stutter.                              *)
LEMMA StoreStep ==
  ASSUME PdfInv, [PdfNext]_pdfVars
  PROVE  [Store!StoreNext]_(Store!storeVars)
<1> DEFINE Durable == Content(file, Len(file))
<1>0. PdfBase
  BY DEF PdfInv
<1>1. CASE UNCHANGED <<file, revisions, revision>> /\ Working' = Working
  BY <1>1 DEF Store!storeVars
<1>2. CASE UNCHANGED vars
  BY <1>1, <1>2, VarsUnchanged DEF vars, streamVars
<1>3. CASE /\ UNCHANGED <<file, revisions, revision>> /\ IsLatest
           /\ Store!OneEdit(Working, Working')
  BY <1>0, <1>3, HistoryType DEF Store!StoreNext, Store!Edit, History
<1>4. ASSUME NEW r \in Refs, NEW v \in DirectValue, ChangeObject(r, v), indMap[r] # NoValue
      PROVE  [Store!StoreNext]_(Store!storeVars)
  <2>1. UNCHANGED <<file, revisions, revision>>
    BY <1>4 DEF ChangeObject, streamVars
  <2> QED BY <1>0, <1>3, <1>4, <2>1, ChangeMappedObject, EditIsOneEdit
<1>5. ASSUME NEW v \in DirectValue, AddIndirectProperty(v)
      PROVE  [Store!StoreNext]_(Store!storeVars)
  <2>1. UNCHANGED <<file, revisions, revision>>
    BY <1>5 DEF AddIndirectProperty, streamVars
  <2>2. CASE encrypted
    BY <1>1, <1>5, <2>1, <2>2, AddEncrypted
  <2>3. CASE ~encrypted
    BY <1>0, <1>3, <1>5, <2>1, <2>3, AddNewObject, EditIsOneEdit
  <2> QED BY <2>2, <2>3
<1>6. ASSUME NEW r \in Refs, ChangeTrailerEntry(r)
      PROVE  [Store!StoreNext]_(Store!storeVars)
  <2>1. UNCHANGED <<file, revisions, revision>>
    BY <1>6 DEF ChangeTrailerEntry, ChangeTrailer, streamVars
  <2>2. IsLatest /\ Working' = [Working EXCEPT !.root = r]
    BY <1>6, TrailerStep
  <2>3. Working'.root = r /\ Working'.objs = Working.objs
    BY <2>2 DEF Working
  <2>4. Store!OneEdit(Working, Working')
    BY <2>3 DEF Store!OneEdit
  <2> QED BY <1>3, <2>1, <2>2, <2>4
<1>7. ASSUME NEW new \in BOOLEAN, Save(new)
      PROVE  [Store!StoreNext]_(Store!storeVars)
  <2>1. Working' = Working /\ IsLatest
    BY <1>7, SaveStep
  <2>2. CASE UNCHANGED vars
    BY <1>2, <2>2
  <2>3. CASE /\ Content(file', storePos + 1) = Working /\ Len(file') = storePos + 1
             /\ UNCHANGED <<revisions, revision>>
    <3>1. History' = History
      BY <1>0, <2>3, HistoryKept
    <3>2. revision + 1 = Len(History)
      BY <1>0, <2>1, HistoryType
    <3> QED BY <2>1, <2>3, <3>1, <3>2 DEF Store!StoreNext, Store!Checkpoint, History
  <2>4. CASE /\ Content(file', storePos + 1) = Working /\ Len(file') = storePos + 1
             /\ revisions' = Append(revisions, storePos + 1)
             /\ revision' = Len(revisions)
    <3>1. PICK k \in Nat \ {0} : /\ k = Len(revisions) /\ DOMAIN revisions = 1..k
                                 /\ revisions \in Seq(1..storePos) /\ storePos \in Nat
      BY <1>0 DEF PdfBase, IInv, TypeOK
    <3>2. /\ DOMAIN revisions' = 1..(k + 1)
          /\ revisions'[k + 1] = storePos + 1
      BY <2>4, <3>1, AppendProperties
    <3>3. \A i \in 1..k : Content(file', revisions'[i]) = Content(file, revisions[i])
      BY <1>0, <3>1, PdfStepStream, RevisionsKeptByStep DEF PdfBase
    <3>4. History \in Seq(Store!Document) /\ Len(History) = k /\ DOMAIN History = 1..k
      BY <1>0, <3>1, HistoryType
    <3>5. History' = Append(History, Working)
      <4>1. Append(History, Working)
              = [i \in 1..(k + 1) |-> IF i = k + 1 THEN Working ELSE History[i]]
        BY <3>4, AppendAsFunction
      <4>2. ASSUME NEW i \in 1..(k + 1)
            PROVE  Content(file', revisions'[i]) = IF i = k + 1 THEN Working ELSE History[i]
        BY <2>4, <3>1, <3>2, <3>3 DEF History
      <4>3. History' = [i \in 1..(k + 1) |-> Content(file', revisions'[i])]
        BY <3>2 DEF History
      <4> QED BY <4>1, <4>2, <4>3
    <3>6. revision + 1 = Len(History) /\ revision' + 1 = revision + 1 + 1
      BY <1>0, <2>1, <2>4, <3>1, <3>4, HistoryType
    <3> QED BY <2>1, <2>4, <3>5, <3>6 DEF Store!StoreNext, Store!Commit, History
  <2> QED BY <1>7, <2>2, <2>3, <2>4, SaveStep
<1>8. ASSUME NEW n \in 0..MaxSections, PdfChangeRevision(n)
      PROVE  [Store!StoreNext]_(Store!storeVars)
  BY <1>0, <1>8, RevisionStep, HistoryType DEF Store!StoreNext, Store!Look, History
<1>9. CASE PdfSetCredentials
  BY <1>1, <1>9, CredentialsStep DEF streamVars
<1>10. CASE SaveElsewhere
  BY <1>1, <1>10, ElsewhereStep DEF streamVars
<1> QED BY <1>2, <1>4, <1>5, <1>6, <1>7, <1>8, <1>9, <1>10
        DEF PdfNext, GetIndirectProperty, SetProperty, ChangeIndirectProperty, pdfVars

(* CPdf is a store of versions: only the newest revision is edited, one    *)
(* object at a time, save makes durable exactly what is being worked on, a *)
(* new revision is that document, and no look at another revision loses    *)
(* what is pending.                                                        *)
THEOREM ImplementsVersionedStore ==
  ASSUME NoKeywords
  PROVE  PdfSpec => ImplementsStore
<1>1. PdfInit => Store!StoreInit
  BY StoreStarts
<1>2. PdfInv /\ [PdfNext]_pdfVars => [Store!StoreNext]_(Store!storeVars)
  BY StoreStep
<1> QED BY <1>1, <1>2, StoreInvariance, PTL DEF PdfSpec, ImplementsStore, Store!StoreSpec

=============================================================================
