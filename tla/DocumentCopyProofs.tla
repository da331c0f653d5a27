------------------------- MODULE DocumentCopyProofs -------------------------
(***************************************************************************)
(* Proofs about DocumentCopy: that the invariants and the action property  *)
(* its runs check hold for every number of references, documents,          *)
(* addresses and nested calls.                                             *)
(*                                                                         *)
(* CopiesComplete is not inductive: it says nothing of the calls that are  *)
(* under way, which is where a copy gets its references, and a copy that   *)
(* was complete stops being so when the entry of an object it refers to is *)
(* set back to new. IInv adds what each call has done so far (FrameInv),   *)
(* that the numbers of the mapping are apart and taken (EntryInv,          *)
(* ApartInv), and that the only entry that can be set back is that of the  *)
(* first call, when it does not follow references; no object relies on     *)
(* that one (Settled).  So what an object refers to has been copied or its *)
(* call is still to return, but where an exception has ended that call     *)
(* (ResolvingInv, SettledIsCopied).                                        *)
(*                                                                         *)
(* CopyEnds is a liveness property and stays with TLC.                     *)
(***************************************************************************)
EXTENDS DocumentCopy, SequenceTheorems, WellFoundedInduction, TLAPS

(* A call of addProperty that has not returned.                            *)
Frame == [src    : SrcRefs \cup {NoRef},
          ref    : Nums,
          obj    : SourceObject,
          follow : BOOLEAN,
          todo   : Seq(SrcRefs),
          done   : Seq(Nums)]

(* A number that reserveRef will not hand out; the entry of an object, its *)
(* number here and its state.                                              *)
Taken(n) == newStorage[n] # "unused" \/ saved[n] # Nothing
Mapped(a, s) == resolved[a][s] # NoEntry
RefOf(a, s) == resolved[a][s].ref
StateOf(a, s) == resolved[a][s].state

(* The calls have their type and no two are for the same object.  Where    *)
(* there are several of them all follow references: only the first one may *)
(* be a call without followRefs, and it makes no others.                   *)
StackInv ==
    /\ stack \in Seq(Frame)
    /\ Len(stack) > 1 =>
          from \in Addresses /\ \A i \in DOMAIN stack : stack[i].follow
    /\ \A i, j \in DOMAIN stack : stack[i].src = stack[j].src => i = j

(* The references a call has put in are those its object's references are  *)
(* mapped to, and what they lead to is being copied or has been, where the *)
(* call follows them.                                                      *)
Replaced(c) ==
    \A j \in 1..Len(c.done) :
        /\ Mapped(from, c.obj.refs[j])
        /\ RefOf(from, c.obj.refs[j]) = c.done[j]
        /\ c.follow /\ from # NoPdf => StateOf(from, c.obj.refs[j]) # "new"

(* What a call has put in and what it has still to do make up the          *)
(* references of its object.                                               *)
Split(c) ==
    /\ Len(c.done) + Len(c.todo) = Len(c.obj.refs)
    /\ \A j \in 1..Len(c.todo) : c.todo[j] = c.obj.refs[Len(c.done) + j]

(* The number reserved for the copy of a property of no document shows     *)
(* nothing and is that of no entry of the mapping.                         *)
LooseApart(n) ==
    n \notin lost =>
        /\ Taken(n)
        /\ Shown(n) = Nothing
        /\ \A a \in Sources, s \in SrcRefs : Mapped(a, s) => RefOf(a, s) # n

(* What is true of a call while it runs.                                   *)
FrameOK(c) ==
    /\ Split(c)
    /\ Replaced(c)
    /\ IF c.src = NoRef THEN from = NoPdf /\ LooseApart(c.ref)
       ELSE from \in Addresses /\ c.obj = docs[from][c.src]

FrameInv == \A i \in DOMAIN stack : FrameOK(stack[i])

(* What the store shows is at a number that is taken.                      *)
StoreInv ==
    \A n \in Nums :
        /\ newStorage[n] = "initialized" => Shown(n) # Nothing
        /\ n \notin lost /\ Shown(n) # Nothing => Taken(n)

(* An entry is of an open document, its number is taken, and shows         *)
(* nothing, a copy of the entry's own object, or that copy edited: what    *)
(* registerIndirectProperty may write over.                                *)
EntryInv ==
    \A a \in Sources, s \in SrcRefs :
        Mapped(a, s) =>
            /\ a \in Addresses => docs[a] # NoDoc
            /\ RefOf(a, s) \notin lost =>
                  /\ Taken(RefOf(a, s))
                  /\ Shown(RefOf(a, s)) # Nothing =>
                        a \in Addresses /\ Shown(RefOf(a, s)).of \in {docs[a][s], Edited}

(* Two entries have two numbers.                                           *)
ApartInv ==
    \A a, b \in Sources, s, t \in SrcRefs :
        Mapped(a, s) /\ Mapped(b, t) /\ RefOf(a, s) = RefOf(b, t) /\ RefOf(a, s) \notin lost
            => a = b /\ s = t

(* An object that is being resolved has a call that runs, unless a copy    *)
(* from its document has thrown.                                           *)
ResolvingInv ==
    \A a \in Sources \ failed, s \in SrcRefs :
        Mapped(a, s) /\ StateOf(a, s) = "resolving"
            => from = a /\ \E i \in DOMAIN stack : stack[i].src = s

(* The object has been copied, or its copy is under way and will not be    *)
(* set back: StateAfter sets back what is copied without following, and    *)
(* that is always the first call.                                          *)
Settled(a, t) ==
    /\ Mapped(a, t)
    /\ StateOf(a, t) # "new"
    /\ Running /\ from = a /\ stack[1].src = t => stack[1].follow

(* The copy of an object is edited, or is complete with settled objects    *)
(* behind its references.                                                  *)
Whole(a, s) ==
    /\ Shown(RefOf(a, s)) # Nothing
    /\ Shown(RefOf(a, s)).of # Edited =>
          /\ docs[a][s] \in SourceObject
          /\ Len(Shown(RefOf(a, s)).refs) = Len(docs[a][s].refs)
          /\ \A i \in DOMAIN docs[a][s].refs :
                /\ Settled(a, docs[a][s].refs[i])
                /\ RefOf(a, docs[a][s].refs[i]) = Shown(RefOf(a, s)).refs[i]

(* What the mapping says is resolved is whole.                             *)
CompleteInv ==
    \A a \in Addresses, s \in SrcRefs :
        Mapped(a, s) /\ StateOf(a, s) = "resolved" /\ RefOf(a, s) \notin lost => Whole(a, s)

(* The inductive invariant.                                                *)
IInv ==
    /\ CopyTypeOK
    /\ StackInv
    /\ FrameInv
    /\ StoreInv
    /\ EntryInv
    /\ ApartInv
    /\ ResolvingInv
    /\ CompleteInv

-----------------------------------------------------------------------------
(* reserveRef finds a free number whenever there is one: the smallest      *)
(* exists because the numbers are well founded.                            *)
LEMMA NextNumFree ==
  ASSUME Free # {}
  PROVE  NextNum \in Free /\ NextNum \in Nums
<1> DEFINE Less == {ss \in Nat \X Nat : ss[1] < ss[2]}
<1>1. Free \subseteq Nat /\ Free \subseteq Nums
  BY CopyAssumption DEF Free, Nums
<1>2. IsWellFoundedOn(Less, Nat)
  BY NatLessThanWellFounded DEF OpToRel
<1>3. PICK n \in Free : \A m \in Free : ~(<<m, n>> \in Less)
  <2> HIDE DEF Less
  <2> QED BY <1>1, <1>2, WFMin
<1>4. \A m \in Free : n <= m
  <2> SUFFICES ASSUME NEW m \in Free PROVE n <= m
    OBVIOUS
  <2>1. n \in Nat /\ m \in Nat /\ ~(m < n)
    BY <1>1, <1>3
  <2> QED BY <2>1
<1> QED BY <1>1, <1>3, <1>4 DEF NextNum

(* A document that was just opened satisfies the invariant.                *)
LEMMA InitInv == Init => IInv
<1> SUFFICES ASSUME Init PROVE IInv
  OBVIOUS
<1> USE DEF Init
<1>0. 1 \in Nums /\ \A n \in Nums : n \in Nat
  BY CopyAssumption DEF Nums
<1>1. CopyTypeOK
  <2>1. [type |-> "dict", of |-> Own, refs |-> <<>>] \in Copied
    BY DEF Copied
  <2> QED BY <1>0, <2>1, CopyAssumption DEF CopyTypeOK, Sources, NoMapping
<1>2. StackInv /\ FrameInv
  BY DEF StackInv, FrameInv
<1>3. StoreInv
  BY CopyAssumption DEF StoreInv, Shown, Taken
<1>4. EntryInv /\ ApartInv /\ ResolvingInv /\ CompleteInv
  BY DEF EntryInv, ApartInv, ResolvingInv, CompleteInv, Mapped, NoMapping, Sources
<1> QED BY <1>1, <1>2, <1>3, <1>4 DEF IInv

(* A step between two copies that changes only the store keeps the         *)
(* invariant when what was shown at a number that was taken is still shown *)
(* there, or edited.                                                       *)
LEMMA StoreStep ==
  ASSUME IInv, ~Running, UNCHANGED <<docs, resolved, stack, from, failed>>,
         lost \subseteq lost', lost' \subseteq Nums,
         changed' \in [Nums -> Copied \cup {Nothing}],
         saved' \in [Nums -> Copied \cup {Nothing}],
         newStorage' \in [Nums -> {"unused", "reserved", "initialized"}],
         mode' = mode,
         StoreInv',
         \A n \in Nums : n \notin lost' /\ Taken(n) =>
            /\ Taken(n)'
            /\ Shown(n)' # Nothing <=> Shown(n) # Nothing
            /\ \/ Shown(n)' = Shown(n)
               \/ Shown(n)'.of = Edited
  PROVE  IInv'
<1>1. CopyTypeOK'
  BY DEF IInv, CopyTypeOK, Running
<1>2. StackInv' /\ FrameInv'
  BY DEF IInv, StackInv, FrameInv, Running
<1>3. EntryInv'
  BY DEF IInv, EntryInv, Mapped, RefOf, CopyTypeOK, Entry
<1>4. ApartInv' /\ ResolvingInv'
  BY SMTT(60) DEF IInv, ApartInv, ResolvingInv, Mapped, RefOf, StateOf, CopyTypeOK, Entry
<1>5. CompleteInv'
  BY DEF IInv, CompleteInv, Whole, EntryInv, Mapped, RefOf, StateOf, CopyTypeOK, Entry, Settled, Running, Sources
<1> QED BY <1>1, <1>2, <1>3, <1>4, <1>5 DEF IInv

(* addIndirectProperty of an own property takes a number that was free.    *)
LEMMA AddOwnInv ==
  ASSUME IInv, NEW type \in {"dict", "plain"}, AddOwn(type)
  PROVE  IInv'
<1> DEFINE obj == [type |-> type, of |-> Own, refs |-> <<>>]
<1>1. NextNum \in Nums /\ saved[NextNum] = Nothing /\ newStorage[NextNum] = "unused"
  BY NextNumFree DEF AddOwn, Free
<1>2. obj \in Copied
  BY DEF Copied
<1>3. /\ newStorage' = [newStorage EXCEPT ![NextNum] = "initialized"]
      /\ changed' = [changed EXCEPT ![NextNum] = obj]
      /\ ~Running /\ UNCHANGED <<docs, resolved, stack, from, failed, lost, saved, mode>>
  BY DEF AddOwn
<1>4. StoreInv'
  BY <1>1, <1>2, <1>3, CopyAssumption DEF IInv, StoreInv, Shown, Taken, CopyTypeOK
<1>5. ASSUME NEW n \in Nums, Taken(n)
      PROVE  Taken(n)' /\ Shown(n)' = Shown(n)
  BY <1>1, <1>3, <1>5 DEF Taken, Shown, IInv, CopyTypeOK
<1> QED BY <1>1, <1>2, <1>3, <1>4, <1>5, StoreStep DEF IInv, CopyTypeOK

(* A setter of a copy changes what is shown to an edited copy.             *)
LEMMA EditCopyInv ==
  ASSUME IInv, NEW n \in Nums, EditCopy(n)
  PROVE  IInv'
<1> DEFINE obj == [type |-> Shown(n).type, of |-> Edited, refs |-> <<>>]
<1>0. Shown(n) \in Copied /\ Shown(n) # Nothing
  BY DEF EditCopy, Shown, IInv, CopyTypeOK
<1>1. obj \in Copied /\ obj # Nothing /\ obj.of = Edited
  <2>1. Shown(n).type \in {"dict", "plain", "null"}
    BY <1>0 DEF Copied
  <2>2. obj \in Copied
    BY <2>1 DEF Copied
  <2> QED BY <2>2, CopyAssumption
<1>2. /\ changed' = [changed EXCEPT ![n] = obj]
      /\ newStorage' = IF newStorage[n] # "unused"
                       THEN [newStorage EXCEPT ![n] = "initialized"] ELSE newStorage
      /\ ~Running /\ UNCHANGED <<docs, resolved, stack, from, failed, lost, saved, mode>>
  BY DEF EditCopy, ChangeObject
<1> HIDE DEF obj
<1>3. /\ Shown(n)' = obj
      /\ \A m \in Nums : m # n => Shown(m)' = Shown(m)
      /\ \A m \in Nums : /\ Taken(m)' <=> Taken(m)
                         /\ newStorage'[m] = "initialized" => m = n \/ newStorage[m] = newStorage'[m]
  BY <1>0, <1>1, <1>2 DEF Taken, Shown, IInv, CopyTypeOK
<1>4. StoreInv'
  <2> SUFFICES ASSUME NEW m \in Nums
               PROVE  /\ newStorage'[m] = "initialized" => Shown(m)' # Nothing
                      /\ m \notin lost /\ Shown(m)' # Nothing => Taken(m)'
    BY <1>2 DEF StoreInv
  <2>1. CASE m = n
    BY <2>1, <1>0, <1>1, <1>3 DEF IInv, StoreInv
  <2>2. CASE m # n
    BY <2>2, <1>3 DEF IInv, StoreInv
  <2> QED BY <2>1, <2>2
<1>5. /\ changed' \in [Nums -> Copied \cup {Nothing}]
      /\ newStorage' \in [Nums -> {"unused", "reserved", "initialized"}]
  BY <1>1, <1>2 DEF IInv, CopyTypeOK
<1>6. ASSUME NEW m \in Nums, Taken(m), m \notin lost
      PROVE  /\ Taken(m)'
             /\ Shown(m)' # Nothing <=> Shown(m) # Nothing
             /\ Shown(m)' = Shown(m) \/ Shown(m)'.of = Edited
  BY <1>0, <1>1, <1>3, <1>6
<1> QED BY <1>2, <1>4, <1>5, <1>6, StoreStep DEF IInv, CopyTypeOK

(* A new revision shows what the one before showed, and forgets no number  *)
(* but those recorded in lost.                                             *)
LEMMA NewRevisionInv ==
  ASSUME IInv, NewRevision
  PROVE  IInv'
<1>1. /\ saved' = [n \in Nums |-> Shown(n)]
      /\ changed' = [n \in Nums |-> Nothing]
      /\ newStorage' = [n \in Nums |-> "unused"]
      /\ lost' = lost \cup {n \in Nums : newStorage[n] = "reserved"}
      /\ ~Running /\ UNCHANGED <<docs, resolved, mode, stack, from, failed>>
  BY DEF NewRevision
<1>2. \A n \in Nums : Shown(n)' = Shown(n) /\ Shown(n) \in Copied \cup {Nothing}
  BY <1>1 DEF Shown, IInv, CopyTypeOK
<1>3. StoreInv'
  BY <1>1, <1>2 DEF IInv, StoreInv, Taken, Shown
<1>4. ASSUME NEW n \in Nums, Taken(n), n \notin lost'
      PROVE  Taken(n)'
  BY <1>1, <1>2, <1>4 DEF Taken, Shown, IInv, StoreInv, CopyTypeOK
<1> QED BY <1>1, <1>2, <1>3, <1>4, StoreStep DEF IInv, CopyTypeOK

(* An exception leaves the mapping and the store as they are; the document *)
(* it is thrown from is recorded in failed.                                *)
LEMMA ThrowInv ==
  ASSUME IInv, Throw
  PROVE  IInv'
<1>1. /\ stack' = <<>> /\ failed' = failed \cup {from}
      /\ UNCHANGED <<docs, resolved, storeVars, from, lost>>
  BY DEF Throw
<1> USE <1>1 DEF storeVars
<1>2. CopyTypeOK'
  BY DEF IInv, CopyTypeOK
<1>3. StackInv' /\ FrameInv'
  BY DEF StackInv, FrameInv
<1>4. StoreInv' /\ EntryInv' /\ ApartInv'
  BY DEF IInv, StoreInv, EntryInv, ApartInv, Shown, Taken, Mapped, RefOf
<1>5. ResolvingInv'
  BY SMTT(60) DEF IInv, ResolvingInv, Mapped, StateOf
<1>6. CompleteInv'
  BY DEF IInv, CompleteInv, Whole, Mapped, RefOf, StateOf, Shown, Settled, Running
<1> QED BY <1>2, <1>3, <1>4, <1>5, <1>6 DEF IInv

(* No entry is left at an address where no document is.                    *)
LEMMA OpenSourceInv ==
  ASSUME IInv, NEW a \in Addresses, NEW d \in SourceFiles, OpenSource(a, d)
  PROVE  IInv'
<1>1. /\ stack = <<>> /\ docs[a] = NoDoc /\ docs' = [docs EXCEPT ![a] = d]
      /\ UNCHANGED <<resolved, storeVars, stack, from, lost, failed>>
  BY DEF OpenSource, Running
<1> USE <1>1 DEF storeVars
<1>2. CopyTypeOK'
  BY DEF IInv, CopyTypeOK
<1>3. StackInv' /\ FrameInv'
  BY DEF StackInv, FrameInv
<1>4. StoreInv' /\ ApartInv' /\ ResolvingInv'
  BY DEF IInv, StoreInv, ApartInv, ResolvingInv, Shown, Taken, Mapped, RefOf, StateOf
<1>5. \A b \in Addresses, s \in SrcRefs : Mapped(b, s) => docs'[b] = docs[b] /\ docs[b] # NoDoc
  BY DEF IInv, EntryInv, CopyTypeOK, Sources
<1>6. EntryInv'
  BY SMTT(30), <1>5 DEF IInv, EntryInv, Mapped, RefOf, Shown, Taken
<1>7. CompleteInv'
  BY <1>5 DEF IInv, CompleteInv, Whole, Mapped, RefOf, StateOf, Shown, Settled, Running
<1> QED BY <1>2, <1>3, <1>4, <1>6, <1>7 DEF IInv

(* releasePdfId takes the entries of the document away with it.            *)
LEMMA CloseSourceInv ==
  ASSUME IInv, NEW a \in Addresses, CloseSource(a)
  PROVE  IInv'
<1>1. /\ stack = <<>> /\ docs' = [docs EXCEPT ![a] = NoDoc]
      /\ resolved' = [resolved EXCEPT ![a] = NoMapping]
      /\ failed' = failed \ {a}
      /\ UNCHANGED <<storeVars, stack, from, lost>>
  BY DEF CloseSource, Running
<1> USE <1>1 DEF storeVars
<1>2. CopyTypeOK'
  BY DEF IInv, CopyTypeOK, NoMapping, Sources
<1>3. StackInv' /\ FrameInv'
  BY DEF StackInv, FrameInv
<1>4. \A b \in Sources, s \in SrcRefs :
         /\ Mapped(b, s)' => b # a
         /\ b # a => resolved'[b] = resolved[b]
  BY DEF IInv, CopyTypeOK, Mapped, NoMapping
<1>5. \A b \in Addresses : b # a => docs'[b] = docs[b] /\ b \in Sources
  BY DEF IInv, CopyTypeOK, Sources
<1>6. StoreInv' /\ ApartInv' /\ ResolvingInv'
  BY <1>4 DEF IInv, StoreInv, ApartInv, ResolvingInv, Shown, Taken, Mapped, RefOf, StateOf
<1>7. EntryInv'
  BY <1>4, <1>5 DEF IInv, EntryInv, Mapped, RefOf, Shown, Taken
<1>8. CompleteInv'
  <2> SUFFICES ASSUME NEW b \in Addresses, NEW s \in SrcRefs, Mapped(b, s)',
                      StateOf(b, s)' = "resolved", RefOf(b, s)' \notin lost
               PROVE  Whole(b, s)'
    BY DEF CompleteInv
  <2>1. b # a /\ resolved'[b] = resolved[b] /\ docs'[b] = docs[b]
    BY <1>4, <1>5 DEF Sources
  <2>2. Whole(b, s)
    BY <2>1 DEF IInv, CompleteInv, Mapped, StateOf, RefOf
  <2> QED BY ZenonT(90), <2>1, <2>2 DEF Whole, Mapped, RefOf, StateOf, Shown, Settled, Running
<1> QED BY <1>2, <1>3, <1>6, <1>7, <1>8 DEF IInv

(* A step that sets one entry, to one that is not resolved, and shows      *)
(* nothing new: the number of a new entry was free, that of an old one     *)
(* stays.                                                                  *)
LEMMA EntriesStep ==
  ASSUME IInv, UNCHANGED <<docs, changed, saved, lost>>,
         NEW a \in Sources, NEW s \in SrcRefs, NEW e \in Entry,
         resolved' = [resolved EXCEPT ![a][s] = e],
         a \in Addresses => docs[a] # NoDoc,
         e.state # "resolved",
         Mapped(a, s) => StateOf(a, s) # "resolved" /\ e.ref = RefOf(a, s),
         ~Mapped(a, s) /\ e.ref \notin lost => ~Taken(e.ref) /\ Taken(e.ref)',
         \A n \in Nums : /\ Taken(n) => Taken(n)'
                         /\ newStorage'[n] = "initialized" => newStorage[n] = "initialized",
         \A b \in Addresses, t \in SrcRefs : Settled(b, t) => Settled(b, t)'
  PROVE  StoreInv' /\ EntryInv' /\ ApartInv' /\ CompleteInv'
<1>0. e.ref \in Nums /\ e # NoEntry
  BY CopyAssumption DEF Entry
<1>1. /\ Mapped(a, s)' /\ RefOf(a, s)' = e.ref /\ StateOf(a, s)' = e.state
      /\ \A b \in Sources, t \in SrcRefs :
            b # a \/ t # s => resolved'[b][t] = resolved[b][t]
      /\ \A n \in Nums : Shown(n)' = Shown(n)
  BY <1>0 DEF IInv, CopyTypeOK, Mapped, RefOf, StateOf, Shown
<1>2. StoreInv'
  BY <1>1 DEF IInv, StoreInv
<1>3. \A b \in Sources, t \in SrcRefs : Mapped(b, t) => RefOf(b, t) \in Nums
  BY DEF IInv, CopyTypeOK, Mapped, RefOf, Entry
<1>4. \A b \in Sources, t \in SrcRefs :
         (b # a \/ t # s) /\ Mapped(b, t)' =>
            /\ Mapped(b, t) /\ RefOf(b, t)' = RefOf(b, t) /\ StateOf(b, t)' = StateOf(b, t)
  BY <1>1 DEF Mapped, RefOf, StateOf
<1>5. ASSUME ~Mapped(a, s), e.ref \notin lost
      PROVE  Shown(e.ref) = Nothing
  BY <1>0, <1>5 DEF IInv, StoreInv
<1>6. EntryInv'
  <2> SUFFICES ASSUME NEW b \in Sources, NEW t \in SrcRefs, Mapped(b, t)'
               PROVE  /\ b \in Addresses => docs[b] # NoDoc
                      /\ RefOf(b, t)' \notin lost =>
                          /\ Taken(RefOf(b, t))'
                          /\ Shown(RefOf(b, t))' # Nothing =>
                               b \in Addresses /\ Shown(RefOf(b, t))'.of \in {docs[b][t], Edited}
    BY DEF EntryInv
  <2>1. CASE b = a /\ t = s
    <3>1. CASE Mapped(a, s)
      <4>1. RefOf(b, t)' = RefOf(b, t) /\ RefOf(b, t) \in Nums /\ Mapped(b, t)
        BY <2>1, <3>1, <1>1, <1>3
      <4>2. Shown(RefOf(b, t))' = Shown(RefOf(b, t)) /\ (Taken(RefOf(b, t)) => Taken(RefOf(b, t))')
        BY <4>1, <1>1 DEF Shown, Taken
      <4> QED BY <4>1, <4>2 DEF IInv, EntryInv
    <3>2. CASE ~Mapped(a, s)
      <4>1. RefOf(b, t)' = e.ref
        BY <2>1, <1>1
      <4>2. Shown(RefOf(b, t))' = Shown(e.ref) /\ (Taken(RefOf(b, t))' <=> Taken(e.ref)')
        BY <4>1, <1>0, <1>1 DEF Shown, Taken
      <4> QED BY <2>1, <3>2, <4>1, <4>2, <1>5
    <3> QED BY <3>1, <3>2
  <2>2. CASE b # a \/ t # s
    <3>1. RefOf(b, t)' = RefOf(b, t) /\ RefOf(b, t) \in Nums /\ Mapped(b, t)
      BY <2>2, <1>3, <1>4
    <3>2. Shown(RefOf(b, t))' = Shown(RefOf(b, t)) /\ (Taken(RefOf(b, t)) => Taken(RefOf(b, t))')
      BY <3>1, <1>1 DEF Shown, Taken
    <3> QED BY <3>1, <3>2 DEF IInv, EntryInv
  <2> QED BY <2>1, <2>2
<1>7. ApartInv'
  <2>1. ASSUME NEW b \in Sources, NEW t \in SrcRefs, b # a \/ t # s, Mapped(b, t)',
               RefOf(b, t)' = e.ref, e.ref \notin lost
        PROVE  FALSE
    <3>1. Mapped(b, t) /\ RefOf(b, t) = e.ref
      BY <2>1, <1>4
    <3>2. Taken(e.ref)
      BY <2>1, <3>1 DEF IInv, EntryInv
    <3>3. Mapped(a, s) /\ RefOf(a, s) = e.ref
      BY <2>1, <3>2
    <3> QED BY <2>1, <3>1, <3>3 DEF IInv, ApartInv
  <2> SUFFICES ASSUME NEW b \in Sources, NEW c \in Sources, NEW t \in SrcRefs, NEW u \in SrcRefs,
                      Mapped(b, t)', Mapped(c, u)', RefOf(b, t)' = RefOf(c, u)',
                      RefOf(b, t)' \notin lost
               PROVE  b = c /\ t = u
    BY DEF ApartInv
  <2>2. CASE b = a /\ t = s
    BY <2>1, <2>2, <1>1
  <2>3. CASE c = a /\ u = s
    BY <2>1, <2>3, <1>1
  <2>4. CASE (b # a \/ t # s) /\ (c # a \/ u # s)
    BY <2>4, <1>4 DEF IInv, ApartInv
  <2> QED BY <2>2, <2>3, <2>4
<1>8. CompleteInv'
  <2> SUFFICES ASSUME NEW b \in Addresses, NEW t \in SrcRefs, Mapped(b, t)',
                      StateOf(b, t)' = "resolved", RefOf(b, t)' \notin lost
               PROVE  Whole(b, t)'
    BY DEF CompleteInv
  <2>0. b \in Sources
    BY DEF Sources
  <2>1. /\ Mapped(b, t) /\ StateOf(b, t) = "resolved"
        /\ RefOf(b, t)' = RefOf(b, t) /\ RefOf(b, t) \in Nums
    BY <2>0, <1>1, <1>3, <1>4
  <2>2. Whole(b, t) /\ Shown(RefOf(b, t))' = Shown(RefOf(b, t))
    BY <2>1, <1>1 DEF IInv, CompleteInv, Shown
  <2>3. SUFFICES ASSUME Shown(RefOf(b, t)).of # Edited, NEW i \in DOMAIN docs[b][t].refs
                 PROVE  /\ Settled(b, docs[b][t].refs[i])'
                        /\ RefOf(b, docs[b][t].refs[i])' = Shown(RefOf(b, t)).refs[i]
    BY ZenonT(40), <2>1, <2>2 DEF Whole, Settled, Mapped, StateOf, RefOf
  <2>4. docs[b][t].refs[i] \in SrcRefs
    BY <2>2, <2>3 DEF Whole, SourceObject
  <2>5. Settled(b, docs[b][t].refs[i]) /\ RefOf(b, docs[b][t].refs[i]) = Shown(RefOf(b, t)).refs[i]
    BY <2>2, <2>3 DEF Whole
  <2>6. RefOf(b, docs[b][t].refs[i])' = RefOf(b, docs[b][t].refs[i])
    BY <2>0, <2>4, <2>5, <1>1, <1>4 DEF Settled, Mapped, RefOf
  <2> QED BY <2>4, <2>5, <2>6 DEF Settled, Mapped, StateOf
<1> QED BY <1>2, <1>6, <1>7, <1>8

(* A call that has just been made has put in nothing yet.                  *)
LEMMA CallFrame ==
  ASSUME NEW src \in SrcRefs \cup {NoRef}, NEW ref \in Nums, NEW obj \in SourceObject,
         NEW follow \in BOOLEAN
  PROVE  /\ Call(src, ref, obj, follow) \in Frame
         /\ Split(Call(src, ref, obj, follow))
         /\ Replaced(Call(src, ref, obj, follow))
BY DEF Call, Frame, SourceObject, Split, Replaced

(* An object of an open document that parses is one.                       *)
LEMMA SourceRead ==
  ASSUME CopyTypeOK, NEW a \in Addresses, NEW s \in SrcRefs, docs[a] # NoDoc, docs[a][s] # Damaged
  PROVE  docs[a][s] \in SourceObject
BY CopyAssumption DEF CopyTypeOK

(* A copy that starts adds an entry, or takes up one that no copy relies   *)
(* on because it was still new.                                            *)
LEMMA StartCopyInv ==
  ASSUME IInv, NEW a \in Addresses, NEW s \in SrcRefs, NEW follow \in BOOLEAN,
         StartCopy(a, s, follow)
  PROVE  IInv'
<1>1. /\ stack = <<>> /\ docs[a] # NoDoc /\ docs[a][s] \in SourceObject /\ a \in Sources
      /\ from' = a /\ UNCHANGED <<docs, changed, saved, mode, lost, failed>>
  BY SourceRead DEF IInv, StartCopy, StartNew, StartKnown, Running, Sources
<1>2. PICK k \in Nums :
         /\ stack' = <<Call(s, k, docs[a][s], follow)>>
         /\ resolved' = [resolved EXCEPT ![a][s] = [ref |-> k, state |-> "resolving"]]
         /\ Mapped(a, s) => StateOf(a, s) = "new" /\ RefOf(a, s) = k
         /\ ~Mapped(a, s) => ~Taken(k) /\ Taken(k)'
         /\ \A n \in Nums : /\ Taken(n) => Taken(n)'
                            /\ newStorage'[n] = "initialized" => newStorage[n] = "initialized"
         /\ newStorage' \in [Nums -> {"unused", "reserved", "initialized"}]
  <2>1. CASE StartNew(a, s, follow)
    <3>1. PICK k \in Nums : k = NextNum /\ k \in Free
      BY <2>1, NextNumFree DEF StartNew
    <3>2. newStorage' = [newStorage EXCEPT ![k] = "reserved"]
      BY <2>1, <3>1 DEF StartNew, Reserve
    <3>3. ~Taken(k) /\ Taken(k)' /\ \A n \in Nums : Taken(n) => Taken(n)'
      BY <1>1, <3>1, <3>2 DEF Taken, Free, IInv, CopyTypeOK
    <3> QED BY <2>1, <3>1, <3>2, <3>3 DEF StartNew, Mapped, IInv, CopyTypeOK
  <2>2. CASE StartKnown(a, s, follow)
    <3>1. PICK k \in Nums : k = resolved[a][s].ref /\ resolved[a][s] = [ref |-> k, state |-> "new"]
      BY <1>1, <2>2 DEF StartKnown, IInv, CopyTypeOK, Entry
    <3>2. [resolved[a][s] EXCEPT !.state = "resolving"] = [ref |-> k, state |-> "resolving"]
      BY <3>1
    <3> QED BY <1>1, <2>2, <3>1, <3>2
            DEF StartKnown, Mapped, StateOf, RefOf, Taken, IInv, CopyTypeOK
  <2> QED BY <2>1, <2>2 DEF StartCopy
<1>3. PICK e \in Entry : e = [ref |-> k, state |-> "resolving"]
  BY <1>2 DEF Entry
<1>4. resolved' = [resolved EXCEPT ![a][s] = e]
  BY <1>2, <1>3
<1>5. PICK c \in Frame : /\ c = Call(s, k, docs[a][s], follow) /\ c.src = s /\ c.ref = k
                         /\ c.obj = docs[a][s] /\ c.done = <<>> /\ c.todo = c.obj.refs
  BY <1>1, <1>2, CallFrame DEF Call
<1>6. resolved' \in [Sources -> [SrcRefs -> Entry \cup {NoEntry}]] /\ resolved'[a][s] = e
  BY <1>1, <1>3, <1>4 DEF IInv, CopyTypeOK
<1>7. CopyTypeOK'
  BY <1>1, <1>2, <1>3, <1>5, <1>6 DEF IInv, CopyTypeOK
<1>8. StackInv'
  BY <1>1, <1>2, <1>5 DEF StackInv
<1>9. FrameInv'
  <2>1. Split(c)' /\ Replaced(c)'
    BY <1>5 DEF Split, Replaced, Frame
  <2> QED BY <1>1, <1>2, <1>5, <2>1, CopyAssumption DEF FrameInv, FrameOK
<1>10. ResolvingInv'
  <2> SUFFICES ASSUME NEW b \in Sources \ failed, NEW t \in SrcRefs, Mapped(b, t)',
                      StateOf(b, t)' = "resolving"
               PROVE  from' = b /\ \E i \in DOMAIN stack' : stack'[i].src = t
    BY <1>1 DEF ResolvingInv
  <2>1. CASE b = a /\ t = s
    BY <1>1, <1>2, <1>5, <2>1
  <2>2. CASE b # a \/ t # s
    <3>1. resolved'[b][t] = resolved[b][t]
      BY <2>2, <1>4 DEF IInv, CopyTypeOK
    <3> QED BY <3>1, <1>1 DEF IInv, ResolvingInv, Mapped, StateOf
  <2> QED BY <2>1, <2>2
<1>11. ASSUME NEW b \in Addresses, NEW t \in SrcRefs, Settled(b, t)
       PROVE  Settled(b, t)'
  <2>1. b # a \/ t # s
    BY <1>1, <1>2, <1>11 DEF Settled
  <2>2. resolved'[b][t] = resolved[b][t]
    BY <2>1, <1>4 DEF IInv, CopyTypeOK, Sources
  <2> QED BY <1>1, <1>2, <1>5, <1>11, <2>1, <2>2 DEF Settled, Mapped, StateOf
<1>12. StoreInv' /\ EntryInv' /\ ApartInv' /\ CompleteInv'
  BY ZenonT(40), <1>1, <1>2, <1>3, <1>4, <1>11, EntriesStep
<1> QED BY <1>7, <1>8, <1>9, <1>10, <1>12 DEF IInv

(* The copy of a property of no document takes a number that no entry has. *)
LEMMA StartLooseInv ==
  ASSUME IInv, NEW obj \in Loose, NEW follow \in BOOLEAN, StartLoose(obj, follow)
  PROVE  IInv'
<1>1. PICK k \in Nums : k = NextNum /\ ~Taken(k)
  BY NextNumFree DEF StartLoose, Free, Taken
<1>2. /\ stack = <<>> /\ stack' = <<Call(NoRef, k, obj, follow)>> /\ from' = NoPdf
      /\ newStorage' = [newStorage EXCEPT ![k] = "reserved"]
      /\ UNCHANGED <<docs, resolved, changed, saved, mode, lost, failed>>
  BY <1>1 DEF StartLoose, Reserve, Running
<1>3. PICK c \in Frame : /\ c = Call(NoRef, k, obj, follow) /\ c.src = NoRef /\ c.ref = k
                         /\ c.done = <<>> /\ c.todo = c.obj.refs
  <2>1. obj \in SourceObject
    BY CopyAssumption
  <2>2. Call(NoRef, k, obj, follow) \in Frame
    BY <2>1, <1>1, CallFrame
  <2> QED BY <2>2 DEF Call
<1>4. \A n \in Nums : Shown(n)' = Shown(n) /\ (Taken(n)' <=> Taken(n) \/ n = k)
  BY <1>1, <1>2 DEF Shown, Taken, IInv, CopyTypeOK
<1>5. CopyTypeOK'
  BY <1>1, <1>2, <1>3, CopyAssumption DEF IInv, CopyTypeOK, Sources
<1>6. \A a \in Sources, s \in SrcRefs :
         /\ Mapped(a, s) => RefOf(a, s) \in Nums
         /\ Mapped(a, s)' <=> Mapped(a, s)
         /\ RefOf(a, s)' = RefOf(a, s)
  BY <1>2 DEF IInv, CopyTypeOK, Mapped, RefOf, Entry
<1>7. StackInv'
  BY <1>2, <1>3 DEF StackInv
<1>8. FrameInv'
  <2>1. Split(c)' /\ Replaced(c)'
    BY <1>3 DEF Split, Replaced, Frame
  <2>2. LooseApart(k)'
    <3>1. ASSUME k \notin lost
          PROVE  /\ Taken(k)' /\ Shown(k)' = Nothing
                 /\ \A a \in Sources, s \in SrcRefs : Mapped(a, s)' => RefOf(a, s)' # k
      BY <1>1, <1>4, <1>6, <3>1 DEF IInv, StoreInv, EntryInv
    <3> QED BY <1>2, <3>1 DEF LooseApart
  <2> QED BY <1>2, <1>3, <2>1, <2>2 DEF FrameInv, FrameOK
<1>9. StoreInv'
  <2>1. \A n \in Nums : newStorage'[n] = "initialized" => newStorage[n] = "initialized"
    BY <1>2 DEF IInv, CopyTypeOK
  <2> QED BY <1>2, <1>4, <2>1 DEF IInv, StoreInv
<1>10. EntryInv'
  <2> SUFFICES ASSUME NEW a \in Sources, NEW s \in SrcRefs, Mapped(a, s)'
               PROVE  /\ a \in Addresses => docs[a] # NoDoc
                      /\ RefOf(a, s)' \notin lost =>
                          /\ Taken(RefOf(a, s))'
                          /\ Shown(RefOf(a, s))' # Nothing =>
                               a \in Addresses /\ Shown(RefOf(a, s))'.of \in {docs[a][s], Edited}
    BY <1>2 DEF EntryInv
  <2>1. Mapped(a, s) /\ RefOf(a, s)' = RefOf(a, s) /\ RefOf(a, s) \in Nums
    BY <1>6
  <2>2. Shown(RefOf(a, s))' = Shown(RefOf(a, s)) /\ (Taken(RefOf(a, s)) => Taken(RefOf(a, s))')
    BY <2>1, <1>2, <1>4 DEF Shown, Taken
  <2> QED BY <2>1, <2>2 DEF IInv, EntryInv
<1>11. ApartInv' /\ ResolvingInv'
  BY SMTT(30), <1>2 DEF IInv, ApartInv, ResolvingInv, Mapped, RefOf, StateOf
<1>12. CompleteInv'
  BY <1>2, CopyAssumption DEF IInv, CompleteInv, Whole, Settled, Shown, Mapped, RefOf, StateOf, Running
<1> QED BY <1>5, <1>7, <1>8, <1>9, <1>10, <1>11, <1>12 DEF IInv

(* What a call that runs is, from the conjuncts of the invariant.          *)
LEMMA CallFacts ==
  ASSUME IInv, NEW i \in DOMAIN stack
  PROVE  /\ stack[i] \in Frame /\ FrameOK(stack[i])
         /\ stack[i].src \in SrcRefs \cup {NoRef} /\ stack[i].ref \in Nums
         /\ stack[i].src \in SrcRefs =>
              /\ from \in Addresses /\ docs[from] # NoDoc
              /\ resolved[from][stack[i].src] = [ref |-> stack[i].ref, state |-> "resolving"]
<1>1. stack[i] \in Frame
  BY DEF IInv, StackInv
<1>2. FrameOK(stack[i])
  BY DEF IInv, FrameInv
<1>3. stack[i].src \in SrcRefs \cup {NoRef} /\ stack[i].ref \in Nums
  BY <1>1 DEF Frame
<1>4. ASSUME stack[i].src \in SrcRefs
      PROVE  /\ from \in Addresses /\ docs[from] # NoDoc
             /\ resolved[from][stack[i].src] = [ref |-> stack[i].ref, state |-> "resolving"]
  BY <1>2, <1>4, CopyAssumption DEF FrameOK, IInv, CopyTypeOK
<1> QED BY <1>1, <1>2, <1>3, <1>4

(* The same for the call that goes on.                                     *)
LEMMA TopFacts ==
  ASSUME IInv, Running
  PROVE  /\ Len(stack) \in Nat \ {0} /\ DOMAIN stack = 1..Len(stack)
         /\ Top \in Frame /\ Len(stack) \in DOMAIN stack /\ FrameOK(Top)
         /\ from \in Addresses => docs[from] # NoDoc /\ \A i \in DOMAIN stack : stack[i].src \in SrcRefs
         /\ Top.src \in SrcRefs =>
              from \in Addresses /\ resolved[from][Top.src] = [ref |-> Top.ref, state |-> "resolving"]
<1>1. Len(stack) \in Nat \ {0} /\ DOMAIN stack = 1..Len(stack) /\ Top \in Frame
  BY DEF IInv, StackInv, Running, Top
<1>2. from \in Addresses => \A i \in DOMAIN stack : stack[i].src \in SrcRefs
  BY CallFacts, CopyAssumption DEF FrameOK
<1>3. Len(stack) \in DOMAIN stack
  BY <1>1
<1>4. FrameOK(Top)
  BY <1>3, CallFacts DEF Top
<1>5. from \in Addresses => docs[from] # NoDoc
  BY <1>2, <1>3, CallFacts
<1>6. Top.src \in SrcRefs =>
         from \in Addresses /\ resolved[from][Top.src] = [ref |-> Top.ref, state |-> "resolving"]
  BY <1>3, CallFacts DEF Top
<1> QED BY <1>1, <1>2, <1>3, <1>4, <1>5, <1>6

(* The reference met next is one of the document copied from.              *)
LEMMA MetFacts ==
  ASSUME IInv, Running, Top.todo # <<>>
  PROVE  Met \in SrcRefs /\ Met = Top.todo[1] /\ from \in Sources
BY TopFacts DEF Met, Frame, IInv, CopyTypeOK

(* createMapping takes a free number for an object that had no entry.      *)
LEMMA CreateMappingInv ==
  ASSUME IInv, CreateMapping
  PROVE  IInv'
<1>1. PICK k \in Nums : k = NextNum /\ ~Taken(k) /\ newStorage[k] = "unused"
  BY NextNumFree DEF CreateMapping, Free, Taken
<1>2. PICK s \in SrcRefs : s = Met
  BY MetFacts DEF CreateMapping
<1>3. PICK e \in Entry : e = [ref |-> k, state |-> "new"]
  BY <1>1 DEF Entry
<1>4. /\ newStorage' = [newStorage EXCEPT ![k] = "reserved"]
      /\ resolved' = [resolved EXCEPT ![from][s] = e]
      /\ Running /\ ~Mapped(from, s)
      /\ UNCHANGED <<docs, changed, saved, mode, stack, from, lost, failed>>
  BY <1>1, <1>2, <1>3 DEF CreateMapping, Reserve, SetEntry, MetEntry, Mapped
<1>5. PICK a \in Sources : a = from
  BY DEF IInv, CopyTypeOK
<1>6. /\ resolved' \in [Sources -> [SrcRefs -> Entry \cup {NoEntry}]]
      /\ resolved'[a][s] = e
      /\ \A b \in Sources, t \in SrcRefs : Mapped(b, t) => resolved'[b][t] = resolved[b][t]
      /\ \A b \in Sources, t \in SrcRefs : b # a \/ t # s => resolved'[b][t] = resolved[b][t]
  BY <1>4, <1>5 DEF IInv, CopyTypeOK, Mapped
<1>7. \A n \in Nums : /\ Shown(n)' = Shown(n)
                      /\ Taken(n) => Taken(n)'
                      /\ newStorage'[n] = "initialized" => newStorage[n] = "initialized"
  BY <1>1, <1>4 DEF Shown, Taken, IInv, CopyTypeOK
<1>8. Taken(k)'
  BY <1>1, <1>4 DEF Taken, IInv, CopyTypeOK
<1>9. CopyTypeOK'
  <2>1. newStorage' \in [Nums -> {"unused", "reserved", "initialized"}]
    BY <1>1, <1>4 DEF IInv, CopyTypeOK
  <2>2. ASSUME NEW i \in DOMAIN stack, stack[i].src # NoRef
        PROVE  /\ docs[from] # NoDoc
               /\ resolved'[from][stack[i].src] = [ref |-> stack[i].ref, state |-> "resolving"]
    <3>1. stack[i].src \in SrcRefs
      BY <2>2, CallFacts
    <3>2. /\ docs[from] # NoDoc
          /\ resolved[from][stack[i].src] = [ref |-> stack[i].ref, state |-> "resolving"]
      BY <3>1, CallFacts
    <3>3. resolved[from][stack[i].src] # NoEntry
      BY <3>2, CallFacts, CopyAssumption DEF Entry
    <3> QED BY <3>1, <3>2, <3>3, <1>5, <1>6 DEF Mapped
  <2> QED BY <2>1, <2>2, <1>4, <1>6 DEF IInv, CopyTypeOK
<1>10. StackInv'
  BY <1>4 DEF IInv, StackInv
<1>11. FrameInv'
  <2> SUFFICES ASSUME NEW i \in DOMAIN stack PROVE FrameOK(stack[i])'
    BY <1>4 DEF FrameInv
  <2> PICK c \in Frame : c = stack[i]
    BY DEF IInv, StackInv
  <2>1. FrameOK(c)
    BY DEF IInv, FrameInv
  <2>2. Replaced(c)'
    <3>1. \A j \in 1..Len(c.done) : c.obj.refs[j] \in SrcRefs
      BY <2>1 DEF FrameOK, Split, Frame, SourceObject
    <3> QED BY <2>1, <3>1, <1>4, <1>5, <1>6 DEF FrameOK, Replaced, Mapped, RefOf, StateOf
  <2>3. LooseApart(c.ref) => LooseApart(c.ref)'
    <3> SUFFICES ASSUME LooseApart(c.ref), c.ref \notin lost
                 PROVE  /\ Taken(c.ref)' /\ Shown(c.ref)' = Nothing
                        /\ \A b \in Sources, t \in SrcRefs : Mapped(b, t)' => RefOf(b, t)' # c.ref
      BY <1>4 DEF LooseApart
    <3>1. c.ref \in Nums /\ c.ref # k
      BY <1>1 DEF LooseApart, Frame
    <3>2. Taken(c.ref)' /\ Shown(c.ref)' = Nothing
      BY <3>1, <1>7 DEF LooseApart
    <3> QED BY <3>1, <3>2, <1>3, <1>6 DEF LooseApart, Mapped, RefOf
  <2>4. FrameOK(c)'
    BY <2>1, <2>2, <2>3, <1>4 DEF FrameOK, Split
  <2> QED BY <2>4, <1>4
<1>12. ResolvingInv'
  <2> SUFFICES ASSUME NEW b \in Sources \ failed, NEW t \in SrcRefs, Mapped(b, t)',
                      StateOf(b, t)' = "resolving"
               PROVE  from = b /\ \E i \in DOMAIN stack : stack[i].src = t
    BY <1>4 DEF ResolvingInv
  <2>1. b # a \/ t # s
    BY <1>3, <1>6 DEF StateOf
  <2> QED BY <2>1, <1>6 DEF IInv, ResolvingInv, Mapped, StateOf
<1>13. ASSUME NEW b \in Addresses, NEW t \in SrcRefs, Settled(b, t)
       PROVE  Settled(b, t)'
  BY <1>13, <1>4, <1>6 DEF Settled, Mapped, StateOf, Running, Sources
<1>14. StoreInv' /\ EntryInv' /\ ApartInv' /\ CompleteInv'
  BY <1>1, <1>3, <1>4, <1>5, <1>7, <1>8, <1>13, TopFacts, EntriesStep
<1> QED BY <1>9, <1>10, <1>11, <1>12, <1>14 DEF IInv

(* Nothing changes.                                                        *)
LEMMA StutterInv ==
  ASSUME IInv, UNCHANGED vars
  PROVE  IInv'
<1>1. UNCHANGED <<docs, resolved, newStorage, changed, saved, mode, stack, from, lost, failed>>
  BY DEF vars, storeVars
<1>2. CopyTypeOK' /\ StackInv'
  BY <1>1 DEF IInv, CopyTypeOK, StackInv
<1>3. FrameInv'
  BY ZenonT(90), <1>1 DEF IInv, FrameInv, FrameOK, Split, Replaced, LooseApart, Mapped, RefOf, StateOf, Shown, Taken
<1>4. StoreInv' /\ EntryInv' /\ ApartInv' /\ ResolvingInv'
  BY <1>1 DEF IInv, StoreInv, EntryInv, ApartInv, ResolvingInv, Mapped, RefOf, StateOf, Shown, Taken
<1>5. CompleteInv'
  BY <1>1 DEF IInv, CompleteInv, Whole, Settled, Mapped, RefOf, StateOf, Shown, Running
<1> QED BY <1>2, <1>3, <1>4, <1>5 DEF IInv

(* A reference is followed only from a call that follows, to an object     *)
(* whose entry was new: that object has no call yet, and no complete copy  *)
(* relies on it.                                                           *)
LEMMA FollowRefInv ==
  ASSUME IInv, FollowRef
  PROVE  IInv'
<1>1. CASE ~(Len(stack) < MaxDepth)
  BY <1>1, StutterInv DEF FollowRef, vars, storeVars
<1>2. CASE Len(stack) < MaxDepth
  <2>1. PICK s \in SrcRefs : s = Met
    BY MetFacts DEF FollowRef
  <2>2. PICK a \in Addresses : a = from
    BY DEF FollowRef, Follows, IInv, CopyTypeOK, Sources
  <2>3. PICK k \in Nums : resolved[a][s] = [ref |-> k, state |-> "new"]
    BY <2>1, <2>2 DEF FollowRef, Follows, MetEntry, IInv, CopyTypeOK, Sources, Entry
  <2>4. docs[a] # NoDoc /\ docs[a][s] \in SourceObject
    BY <2>1, <2>2, SourceRead, TopFacts DEF FollowRef, IInv
  <2>5. PICK c \in Frame : /\ c = Call(s, k, docs[a][s], TRUE) /\ c.src = s /\ c.ref = k
                           /\ c.obj = docs[a][s] /\ c.follow /\ c.done = <<>> /\ c.todo = c.obj.refs
    <3>1. Call(s, k, docs[a][s], TRUE) \in Frame
      BY <2>3, <2>4, CallFrame
    <3> QED BY <3>1 DEF Call
  <2>6. PICK e \in Entry : e = [ref |-> k, state |-> "resolving"]
    BY <2>3 DEF Entry
  <2>7. /\ stack' = Append(stack, c) /\ Top.follow /\ Running
        /\ UNCHANGED <<docs, newStorage, changed, saved, mode, from, lost, failed>>
    <3>1. MetEntry.ref = k
      BY <2>1, <2>2, <2>3 DEF MetEntry
    <3>2. stack' = Append(stack, Call(Met, MetEntry.ref, docs[from][Met], TRUE))
      BY <1>2 DEF FollowRef
    <3>3. stack' = Append(stack, c)
      BY <2>1, <2>2, <2>5, <3>1, <3>2
    <3> QED BY <1>2, <3>3 DEF FollowRef, Follows, storeVars
  <2>8. resolved' = [resolved EXCEPT ![a][s] = e]
    <3>1. [resolved[a][s] EXCEPT !.state = "resolving"] = e
      BY <2>3, <2>6
    <3>2. resolved' = [resolved EXCEPT ![a][s].state = "resolving"]
      BY <1>2, <2>1, <2>2 DEF FollowRef, SetState
    <3> QED BY <3>1, <3>2
  <2>9. /\ Len(stack) \in Nat \ {0} /\ DOMAIN stack = 1..Len(stack)
        /\ DOMAIN stack' = 1..(Len(stack) + 1)
        /\ stack' \in Seq(Frame) /\ stack'[Len(stack) + 1] = c
        /\ \A i \in DOMAIN stack : stack'[i] = stack[i] /\ i \in DOMAIN stack'
        /\ \A i \in DOMAIN stack' : i \in DOMAIN stack \/ i = Len(stack) + 1
    BY <2>7, TopFacts DEF IInv, StackInv
  <2>10. \A i \in DOMAIN stack : stack[i].src \in SrcRefs /\ stack[i].src # s
    <3> SUFFICES ASSUME NEW i \in DOMAIN stack PROVE stack[i].src \in SrcRefs /\ stack[i].src # s
      OBVIOUS
    <3>1. stack[i].src \in SrcRefs
      BY <2>2, <2>7, TopFacts
    <3>2. resolved[a][stack[i].src] = [ref |-> stack[i].ref, state |-> "resolving"]
      BY <2>2, <3>1, CallFacts
    <3> QED BY <2>3, <3>1, <3>2
  <2>11. /\ resolved' \in [Sources -> [SrcRefs -> Entry \cup {NoEntry}]]
         /\ resolved'[a][s] = e
         /\ \A b \in Sources, t \in SrcRefs : b # a \/ t # s => resolved'[b][t] = resolved[b][t]
         /\ a \in Sources
    BY <2>8 DEF IInv, CopyTypeOK, Sources
  <2>12. CopyTypeOK'
    <3>1. \A i \in DOMAIN stack' :
             /\ docs[from] # NoDoc
             /\ resolved'[from][stack'[i].src] = [ref |-> stack'[i].ref, state |-> "resolving"]
      <4> SUFFICES ASSUME NEW i \in DOMAIN stack'
                   PROVE  resolved'[a][stack'[i].src] = [ref |-> stack'[i].ref, state |-> "resolving"]
        BY <2>2, <2>4
      <4>1. CASE i \in DOMAIN stack
        <5>1. resolved[a][stack[i].src] = [ref |-> stack[i].ref, state |-> "resolving"]
          BY <2>2, <2>10, <4>1, CallFacts
        <5>2. resolved'[a][stack[i].src] = resolved[a][stack[i].src]
          BY <2>10, <2>11, <4>1
        <5> QED BY <2>9, <4>1, <5>1, <5>2
      <4>2. CASE i = Len(stack) + 1
        BY <2>5, <2>6, <2>9, <2>11, <4>2
      <4> QED BY <2>9, <4>1, <4>2
    <3> QED BY <2>7, <2>11, <3>1 DEF IInv, CopyTypeOK
  <2>13. StackInv'
    <3>1. \A i \in DOMAIN stack : stack[i].follow
      BY <2>7, <2>9 DEF IInv, StackInv, Top
    <3>2. \A i, j \in DOMAIN stack' : stack'[i].src = stack'[j].src => i = j
      <4>1. \A i, j \in DOMAIN stack : stack[i].src = stack[j].src => i = j
        BY DEF IInv, StackInv
      <4>2. \A i \in DOMAIN stack : stack'[i].src = stack[i].src /\ stack'[i].src # stack'[Len(stack) + 1].src
        BY <2>5, <2>9, <2>10
      <4> QED BY <2>9, <4>1, <4>2
    <3>3. \A i \in DOMAIN stack' : stack'[i].follow
      BY <2>5, <2>9, <3>1
    <3> QED BY <2>2, <2>7, <2>9, <3>2, <3>3 DEF StackInv
  <2>14. FrameInv'
    <3>1. ASSUME NEW i \in DOMAIN stack
          PROVE  FrameOK(stack[i])'
      <4>1. PICK d \in Frame : d = stack[i] /\ d.src \in SrcRefs /\ FrameOK(d)
        BY <2>10, CallFacts
      <4>2. \A j \in 1..Len(d.done) : d.obj.refs[j] \in SrcRefs
        BY <4>1 DEF FrameOK, Split, Frame, SourceObject
      <4>3. Replaced(d)'
        <5>1. \A t \in SrcRefs : Mapped(a, t) => /\ Mapped(a, t)'
                                                 /\ RefOf(a, t)' = RefOf(a, t)
                                                 /\ StateOf(a, t) # "new" => StateOf(a, t)' # "new"
          BY <2>3, <2>6, <2>11, CopyAssumption DEF Mapped, RefOf, StateOf
        <5> QED BY SMTT(30), <2>2, <2>7, <4>1, <4>2, <5>1 DEF FrameOK, Replaced, Mapped, RefOf, StateOf
      <4>4. FrameOK(d)'
        BY <2>7, <4>1, <4>3, CopyAssumption DEF FrameOK, Split
      <4> QED BY <2>9, <4>1, <4>4
    <3>2. FrameOK(c)'
      <4>1. Split(c)' /\ Replaced(c)'
        <5>1. c.done = <<>> /\ c.todo = c.obj.refs /\ c.obj.refs \in Seq(SrcRefs)
          BY <2>5 DEF Frame, SourceObject
        <5> QED BY <5>1 DEF Split, Replaced
      <4> QED BY <2>2, <2>5, <2>7, <4>1, CopyAssumption DEF FrameOK
    <3> QED BY <2>9, <3>1, <3>2 DEF FrameInv
  <2>15. ResolvingInv'
    <3> SUFFICES ASSUME NEW b \in Sources \ failed, NEW t \in SrcRefs, Mapped(b, t)',
                        StateOf(b, t)' = "resolving"
                 PROVE  from = b /\ \E i \in DOMAIN stack' : stack'[i].src = t
      BY <2>7 DEF ResolvingInv
    <3>1. CASE b = a /\ t = s
      <4>1. Len(stack) + 1 \in DOMAIN stack'
        BY <2>9
      <4>2. stack'[Len(stack) + 1].src = s
        BY <2>5, <2>9
      <4> QED BY <2>2, <3>1, <4>1, <4>2
    <3>2. CASE b # a \/ t # s
      BY <3>2, <2>9, <2>11 DEF IInv, ResolvingInv, Mapped, StateOf
    <3> QED BY <3>1, <3>2
  <2>16. ASSUME NEW b \in Addresses, NEW t \in SrcRefs, Settled(b, t)
         PROVE  Settled(b, t)'
    <3>1. b # a \/ t # s
      BY <2>3, <2>16 DEF Settled, StateOf
    <3>2. resolved'[b][t] = resolved[b][t]
      BY <3>1, <2>11 DEF Sources
    <3>3. stack'[1] = stack[1]
      BY <2>9
    <3> QED BY <2>7, <2>16, <3>2, <3>3 DEF Settled, Mapped, StateOf
  <2>17. StoreInv' /\ EntryInv' /\ ApartInv' /\ CompleteInv'
    <3>1. Mapped(a, s) /\ StateOf(a, s) = "new" /\ RefOf(a, s) = k
      BY <2>3, CopyAssumption DEF Mapped, StateOf, RefOf, Entry
    <3>2. \A n \in Nums : Taken(n)' <=> Taken(n)
      BY <2>7 DEF Taken
    <3>3. e.ref = k /\ e.state = "resolving"
      BY <2>6
    <3>4. UNCHANGED <<docs, changed, saved, lost>> /\ newStorage' = newStorage
      BY <2>7
    <3> QED BY <2>4, <2>8, <2>11, <2>16, <3>1, <3>2, <3>3, <3>4, EntriesStep
  <2> QED BY <2>12, <2>13, <2>14, <2>15, <2>17 DEF IInv
<1> QED BY <1>1, <1>2

(* The references that have been replaced are references of the object.    *)
LEMMA DoneRefs ==
  ASSUME NEW c \in Frame, FrameOK(c)
  PROVE  \A j \in 1..Len(c.done) : c.obj.refs[j] \in SrcRefs
<1>1. PICK done \in Seq(Nums), todo \in Seq(SrcRefs), refs \in Seq(SrcRefs) :
         done = c.done /\ todo = c.todo /\ refs = c.obj.refs
  BY DEF Frame, SourceObject
<1>2. Len(done) + Len(todo) = Len(refs)
  BY <1>1 DEF FrameOK, Split
<1>3. \A j \in 1..Len(done) : j \in 1..Len(refs)
  BY <1>2
<1>4. \A j \in 1..Len(done) : refs[j] \in SrcRefs
  BY <1>3
<1> QED BY <1>1, <1>4

(* A call that is not touched stays what it was.                           *)
LEMMA FrameKept ==
  ASSUME NEW c, FrameOK(c), UNCHANGED <<docs, resolved, newStorage, changed, saved, from, lost>>
  PROVE  FrameOK(c)'
BY DEF FrameOK, Split, Replaced, LooseApart, Mapped, RefOf, StateOf, Shown, Taken

(* Copies stay whole when only the calls change.                           *)
LEMMA CompleteKept ==
  ASSUME IInv, UNCHANGED <<docs, resolved, changed, saved, lost>>,
         \A a \in Addresses, t \in SrcRefs : Settled(a, t) => Settled(a, t)'
  PROVE  CompleteInv'
<1> SUFFICES ASSUME NEW a \in Addresses, NEW s \in SrcRefs, Mapped(a, s),
                    StateOf(a, s) = "resolved", RefOf(a, s) \notin lost
             PROVE  Whole(a, s)'
  BY DEF CompleteInv, Mapped, StateOf, RefOf
<1>1. Whole(a, s)
  BY DEF IInv, CompleteInv
<1>2. ASSUME Shown(RefOf(a, s)).of # Edited, NEW i \in DOMAIN docs[a][s].refs
      PROVE  docs[a][s].refs[i] \in SrcRefs
  BY <1>1, <1>2 DEF Whole, SourceObject
<1> QED BY <1>1, <1>2 DEF Whole, Shown, RefOf

(* The two fields PutRef sets, and the others it leaves.                   *)
LEMMA CallReplaced ==
  ASSUME NEW c \in Frame, NEW t \in Seq(SrcRefs), NEW d \in Seq(Nums)
  PROVE  [c EXCEPT !.todo = t, !.done = d]
         = [src |-> c.src, ref |-> c.ref, obj |-> c.obj, follow |-> c.follow,
            todo |-> t, done |-> d]
<1>1. PICK src, ref, obj, follow, todo, done :
         /\ c = [src |-> src, ref |-> ref, obj |-> obj, follow |-> follow, todo |-> todo, done |-> done]
         /\ src = c.src /\ ref = c.ref /\ obj = c.obj /\ follow = c.follow
  BY DEF Frame
<1> DEFINE R(x, y) == [src |-> src, ref |-> ref, obj |-> obj, follow |-> follow,
                       todo |-> x, done |-> y]
<1>2. [R(todo, done) EXCEPT !.todo = t] = R(t, done)
  OBVIOUS
<1>3. [R(t, done) EXCEPT !.done = d] = R(t, d)
  OBVIOUS
<1>4. c = R(todo, done)
  BY <1>1
<1> HIDE DEF R
<1>5. [c EXCEPT !.todo = t, !.done = d] = [[c EXCEPT !.todo = t] EXCEPT !.done = d]
  OBVIOUS
<1>6. [c EXCEPT !.todo = t, !.done = d] = R(t, d)
  BY <1>2, <1>3, <1>4, <1>5
<1> QED BY <1>1, <1>6 DEF R

(* What was to do first has been done.                                     *)
LEMMA SplitShift ==
  ASSUME NEW todo \in Seq(SrcRefs), NEW done \in Seq(Nums), NEW refs \in Seq(SrcRefs),
         NEW r \in Nums,
         todo # <<>>,
         Len(done) + Len(todo) = Len(refs),
         \A j \in 1..Len(todo) : todo[j] = refs[Len(done) + j]
  PROVE  /\ Len(Append(done, r)) + Len(Tail(todo)) = Len(refs)
         /\ \A j \in 1..Len(Tail(todo)) : Tail(todo)[j] = refs[Len(Append(done, r)) + j]
         /\ refs[Len(done) + 1] = todo[1]
<1>1. /\ Len(done) \in Nat /\ Len(todo) \in Nat \ {0}
      /\ Len(Tail(todo)) = Len(todo) - 1 /\ Len(Append(done, r)) = Len(done) + 1
  OBVIOUS
<1>2. ASSUME NEW j \in 1..Len(Tail(todo))
      PROVE  Tail(todo)[j] = refs[Len(Append(done, r)) + j]
  <2>1. j \in Nat /\ j + 1 \in 1..Len(todo) /\ Len(done) + (j + 1) = Len(Append(done, r)) + j
    BY <1>1
  <2>2. Tail(todo)[j] = todo[j + 1]
    BY <1>1
  <2> QED BY <2>1, <2>2
<1>3. 1 \in 1..Len(todo)
  BY <1>1
<1> QED BY <1>1, <1>2, <1>3

(* The reference put in is the one the object met is mapped to, and where  *)
(* the call follows references that object is no longer new.               *)
LEMMA PutRefInv ==
  ASSUME IInv, PutRef
  PROVE  IInv'
<1>1. PICK n \in Nat \ {0} : n = Len(stack) /\ DOMAIN stack = 1..n /\ n \in DOMAIN stack
  BY TopFacts DEF PutRef
<1>2. PICK c \in Frame : c = stack[n] /\ FrameOK(c)
  BY <1>1, TopFacts DEF PutRef, Top
<1>3. PICK s \in SrcRefs : s = Met /\ s = c.todo[1] /\ c.todo # <<>>
  BY <1>1, <1>2, MetFacts DEF PutRef, Top
<1>4. PICK e \in Entry : e = resolved[from][s] /\ (c.follow /\ from # NoPdf => e.state # "new")
  BY <1>1, <1>2, <1>3, CopyAssumption
     DEF PutRef, MetEntry, Follows, Top, IInv, CopyTypeOK
<1>5. PICK d \in Frame :
         /\ d = [c EXCEPT !.todo = Tail(c.todo), !.done = Append(c.done, e.ref)]
         /\ d.src = c.src /\ d.ref = c.ref /\ d.obj = c.obj /\ d.follow = c.follow
         /\ d.todo = Tail(c.todo) /\ d.done = Append(c.done, e.ref)
  <2>1. c.todo \in Seq(SrcRefs) /\ c.done \in Seq(Nums) /\ e.ref \in Nums
    BY DEF Frame, Entry
  <2>2. Tail(c.todo) \in Seq(SrcRefs) /\ Append(c.done, e.ref) \in Seq(Nums)
    BY <1>3, <2>1
  <2>4. [c EXCEPT !.todo = Tail(c.todo), !.done = Append(c.done, e.ref)]
          = [src |-> c.src, ref |-> c.ref, obj |-> c.obj, follow |-> c.follow,
             todo |-> Tail(c.todo), done |-> Append(c.done, e.ref)]
    BY <2>2, CallReplaced
  <2>5. [c EXCEPT !.todo = Tail(c.todo), !.done = Append(c.done, e.ref)] \in Frame
    BY <2>2, <2>4 DEF Frame
  <2> QED BY <2>4, <2>5
<1>6. /\ stack' = [stack EXCEPT ![n] = d]
      /\ UNCHANGED <<docs, resolved, newStorage, changed, saved, mode, from, lost, failed>>
  <2>1. stack' = [stack EXCEPT ![n] = [stack[n] EXCEPT !.todo = Tail(@), !.done = Append(@, e.ref)]]
    BY <1>1, <1>2, <1>3, <1>4 DEF PutRef, MetEntry, IInv, StackInv
  <2> QED BY <2>1, <1>2, <1>5 DEF PutRef, storeVars
<1>7. /\ stack' \in Seq(Frame) /\ Len(stack') = n /\ DOMAIN stack' = 1..n
      /\ stack'[n] = d
      /\ \A i \in 1..n : /\ i # n => stack'[i] = stack[i]
                         /\ stack'[i].src = stack[i].src /\ stack'[i].ref = stack[i].ref
                         /\ stack'[i].follow = stack[i].follow
  <2>1. stack \in Seq(Frame)
    BY DEF IInv, StackInv
  <2>2. stack' \in Seq(Frame) /\ Len(stack') = n /\ DOMAIN stack' = 1..n
    BY <2>1, <1>1, <1>6
  <2>3. stack'[n] = d /\ \A i \in 1..n : i # n => stack'[i] = stack[i]
    BY <2>1, <1>1, <1>6
  <2> QED BY <2>2, <2>3, <1>2, <1>5
<1>8. CopyTypeOK'
  BY <1>1, <1>6, <1>7 DEF IInv, CopyTypeOK
<1>9. StackInv'
  BY <1>1, <1>6, <1>7 DEF IInv, StackInv
<1>10. FrameInv'
  <2>1. ASSUME NEW i \in 1..n, i # n
        PROVE  FrameOK(stack[i])'
    <3>1. stack'[i] = stack[i] /\ FrameOK(stack[i])
      BY <2>1, <1>1, <1>7, CallFacts
    <3>2. PICK b : b = stack[i]
      OBVIOUS
    <3>3. FrameOK(b)'
      BY <3>1, <3>2, <1>6, FrameKept
    <3> QED BY <3>1, <3>2, <3>3
  <2>2. FrameOK(d)'
    <3>1. /\ c.todo \in Seq(SrcRefs) /\ c.done \in Seq(Nums) /\ e.ref \in Nums
          /\ Len(d.done) = Len(c.done) + 1 /\ d.done[Len(c.done) + 1] = e.ref
          /\ \A j \in 1..Len(c.done) : d.done[j] = c.done[j]
          /\ Len(c.todo) \in Nat \ {0} /\ Len(d.todo) = Len(c.todo) - 1
          /\ \A j \in 1..Len(d.todo) : d.todo[j] = c.todo[j + 1]
      BY <1>3, <1>5 DEF Frame, Entry
    <3>2. Split(d) /\ c.obj.refs[Len(c.done) + 1] = s
      <4>1. /\ c.todo \in Seq(SrcRefs) /\ c.done \in Seq(Nums) /\ c.obj.refs \in Seq(SrcRefs)
            /\ e.ref \in Nums
        BY DEF Frame, SourceObject, Entry
      <4>2. /\ Len(c.done) + Len(c.todo) = Len(c.obj.refs)
            /\ \A j \in 1..Len(c.todo) : c.todo[j] = c.obj.refs[Len(c.done) + j]
        <5>1. Split(c)
          BY <1>2 DEF FrameOK
        <5> QED BY <5>1 DEF Split
      <4>3. /\ Len(Append(c.done, e.ref)) + Len(Tail(c.todo)) = Len(c.obj.refs)
            /\ \A j \in 1..Len(Tail(c.todo)) :
                  Tail(c.todo)[j] = c.obj.refs[Len(Append(c.done, e.ref)) + j]
            /\ c.obj.refs[Len(c.done) + 1] = c.todo[1]
        BY <1>3, <4>1, <4>2, SplitShift
      <4> QED BY <1>3, <1>5, <4>3 DEF Split
    <3>4. Replaced(d)
      <4> SUFFICES ASSUME NEW j \in 1..Len(d.done)
                   PROVE  /\ Mapped(from, c.obj.refs[j])
                          /\ RefOf(from, c.obj.refs[j]) = d.done[j]
                          /\ c.follow /\ from # NoPdf => StateOf(from, c.obj.refs[j]) # "new"
        BY <1>5 DEF Replaced
      <4>1. CASE j \in 1..Len(c.done)
        BY <1>2, <3>1, <4>1 DEF FrameOK, Replaced
      <4>2. CASE j = Len(c.done) + 1
        BY <1>4, <3>1, <3>2, <4>2, CopyAssumption DEF Mapped, RefOf, StateOf
      <4> QED BY <3>1, <4>1, <4>2
    <3>5. FrameOK(d)
      BY <1>2, <1>5, <3>2, <3>4 DEF FrameOK
    <3> QED BY <1>6, <3>5, FrameKept
  <2> QED BY <1>7, <2>1, <2>2 DEF FrameInv
<1>11. StoreInv' /\ EntryInv' /\ ApartInv'
  BY <1>6 DEF IInv, StoreInv, EntryInv, ApartInv, Mapped, RefOf, Shown, Taken
<1>12. ResolvingInv'
  BY <1>1, <1>6, <1>7 DEF IInv, ResolvingInv, Mapped, StateOf
<1>13. CompleteInv'
  <2>1. \A a \in Addresses, t \in SrcRefs : Settled(a, t) => Settled(a, t)'
    BY SMTT(30), <1>1, <1>6, <1>7 DEF Settled, Running, Mapped, StateOf, PutRef
  <2> QED BY <2>1, <1>6, CompleteKept
<1> QED BY <1>8, <1>9, <1>10, <1>11, <1>12, <1>13 DEF IInv

(* What registerIndirectProperty and the return of addProperty change, in  *)
(* terms of the call that ends.                                            *)
LEMMA RegisterFacts ==
  ASSUME IInv, Register
  PROVE  \E n \in Nat \ {0}, c \in Frame, o \in Copied :
           /\ n = Len(stack) /\ DOMAIN stack = 1..n
           /\ c = stack[n] /\ c = Top /\ FrameOK(c) /\ c.todo = <<>> /\ c.ref \in Nums
           /\ o # Nothing /\ o.of = c.obj /\ o.refs = c.done
           /\ stack' \in Seq(Frame) /\ Len(stack') = n - 1 /\ DOMAIN stack' = 1..(n - 1)
           /\ \A i \in 1..(n - 1) : stack'[i] = stack[i]
           /\ UNCHANGED <<docs, saved, mode, from, lost, failed>>
           /\ changed' \in [Nums -> Copied \cup {Nothing}]
           /\ newStorage' \in [Nums -> {"unused", "reserved", "initialized"}]
           /\ Shown(c.ref)' = o
           /\ \A m \in Nums : /\ m # c.ref => Shown(m)' = Shown(m) /\ newStorage'[m] = newStorage[m]
                              /\ Taken(m)' <=> Taken(m)
           /\ c.src \in SrcRefs =>
                /\ from \in Addresses
                /\ resolved[from][c.src] = [ref |-> c.ref, state |-> "resolving"]
                /\ resolved' = [resolved EXCEPT ![from][c.src] =
                                  [ref |-> c.ref, state |-> IF c.follow THEN "resolved" ELSE "new"]]
           /\ c.src \notin SrcRefs => c.src = NoRef /\ from = NoPdf /\ resolved' = resolved
<1>1. PICK n \in Nat \ {0} : n = Len(stack) /\ DOMAIN stack = 1..n /\ n \in DOMAIN stack
  BY TopFacts DEF Register
<1>2. PICK c \in Frame : c = stack[n] /\ c = Top /\ FrameOK(c)
  BY <1>1, TopFacts DEF Register, Top
<1>3. c.todo = <<>> /\ c.ref \in Nums /\ c.src \in SrcRefs \cup {NoRef}
  BY <1>2 DEF Register, Frame
<1>4. PICK o \in Copied : /\ o = [type |-> c.obj.type, of |-> c.obj, refs |-> c.done]
                          /\ o # Nothing /\ o.of = c.obj /\ o.refs = c.done
  <2>1. c.obj \in SourceObject /\ c.obj.type \in {"dict", "plain", "null"} /\ c.done \in Seq(Nums)
    BY DEF Frame, SourceObject
  <2>2. [type |-> c.obj.type, of |-> c.obj, refs |-> c.done] \in Copied
    BY <2>1 DEF Copied
  <2> QED BY <2>2, CopyAssumption
<1>5. /\ changed' = [changed EXCEPT ![c.ref] = o]
      /\ newStorage' = IF newStorage[c.ref] # "unused"
                       THEN [newStorage EXCEPT ![c.ref] = "initialized"] ELSE newStorage
      /\ UNCHANGED <<docs, saved, mode, from, lost, failed>>
      /\ stack' = SubSeq(stack, 1, n - 1)
  BY <1>1, <1>2, <1>4 DEF Register, ChangeObject, Below
<1>6. /\ stack' \in Seq(Frame) /\ Len(stack') = n - 1 /\ DOMAIN stack' = 1..(n - 1)
      /\ \A i \in 1..(n - 1) : stack'[i] = stack[i]
  BY <1>1, <1>5 DEF IInv, StackInv
<1>7. /\ changed' \in [Nums -> Copied \cup {Nothing}]
      /\ newStorage' \in [Nums -> {"unused", "reserved", "initialized"}]
      /\ Shown(c.ref)' = o
      /\ \A m \in Nums : /\ m # c.ref => Shown(m)' = Shown(m) /\ newStorage'[m] = newStorage[m]
                         /\ Taken(m)' <=> Taken(m)
  BY <1>3, <1>4, <1>5 DEF Shown, Taken, IInv, CopyTypeOK
<1>8. ASSUME c.src \in SrcRefs
      PROVE  /\ from \in Addresses
             /\ resolved[from][c.src] = [ref |-> c.ref, state |-> "resolving"]
             /\ resolved' = [resolved EXCEPT ![from][c.src] =
                               [ref |-> c.ref, state |-> IF c.follow THEN "resolved" ELSE "new"]]
  <2>1. from \in Addresses /\ resolved[from][c.src] = [ref |-> c.ref, state |-> "resolving"]
    BY <1>2, <1>8, TopFacts DEF Register
  <2>2. resolved' = [resolved EXCEPT ![from][c.src].state = IF c.follow THEN "resolved" ELSE "new"]
    BY <1>2, <1>8, CopyAssumption DEF Register, SetState, StateAfter
  <2>3. \A st : [resolved[from][c.src] EXCEPT !.state = st] = [ref |-> c.ref, state |-> st]
    BY <2>1
  <2> QED BY <2>1, <2>2, <2>3
<1>9. ASSUME c.src \notin SrcRefs
      PROVE  c.src = NoRef /\ from = NoPdf /\ resolved' = resolved
  BY <1>2, <1>3, <1>9 DEF Register, FrameOK
<1> WITNESS n \in Nat \ {0}, c \in Frame, o \in Copied
<1> QED BY <1>1, <1>2, <1>3, <1>4, <1>5, <1>6, <1>7, <1>8, <1>9

(* The copy registered is whole: its call has replaced every reference. It *)
(* is written over nothing but an earlier copy of the same object. An      *)
(* entry that is set back to new is that of a call without followRefs, on  *)
(* which nothing that is resolved relies.                                  *)
LEMMA RegisterInv ==
  ASSUME IInv, Register
  PROVE  IInv'
<1>0. PICK n \in Nat \ {0}, c \in Frame, o \in Copied :
         /\ n = Len(stack) /\ DOMAIN stack = 1..n
         /\ c = stack[n] /\ c = Top /\ FrameOK(c) /\ c.todo = <<>> /\ c.ref \in Nums
         /\ o # Nothing /\ o.of = c.obj /\ o.refs = c.done
         /\ stack' \in Seq(Frame) /\ Len(stack') = n - 1 /\ DOMAIN stack' = 1..(n - 1)
         /\ \A i \in 1..(n - 1) : stack'[i] = stack[i]
         /\ UNCHANGED <<docs, saved, mode, from, lost, failed>>
         /\ changed' \in [Nums -> Copied \cup {Nothing}]
         /\ newStorage' \in [Nums -> {"unused", "reserved", "initialized"}]
         /\ Shown(c.ref)' = o
         /\ \A m \in Nums : /\ m # c.ref => Shown(m)' = Shown(m) /\ newStorage'[m] = newStorage[m]
                            /\ Taken(m)' <=> Taken(m)
         /\ c.src \in SrcRefs =>
              /\ from \in Addresses
              /\ resolved[from][c.src] = [ref |-> c.ref, state |-> "resolving"]
              /\ resolved' = [resolved EXCEPT ![from][c.src] =
                                [ref |-> c.ref, state |-> IF c.follow THEN "resolved" ELSE "new"]]
         /\ c.src \notin SrcRefs => c.src = NoRef /\ from = NoPdf /\ resolved' = resolved
  BY RegisterFacts
<1>1. \A a \in Sources, s \in SrcRefs : Mapped(a, s) => RefOf(a, s) \in Nums
  BY DEF IInv, CopyTypeOK, Mapped, RefOf, Entry
<1>2. /\ resolved' \in [Sources -> [SrcRefs -> Entry \cup {NoEntry}]]
      /\ \A a \in Sources, s \in SrcRefs :
            /\ a # from \/ s # c.src => resolved'[a][s] = resolved[a][s]
            /\ Mapped(a, s)' <=> Mapped(a, s)
            /\ Mapped(a, s) => RefOf(a, s)' = RefOf(a, s)
      /\ c.src \in SrcRefs =>
            /\ Mapped(from, c.src) /\ RefOf(from, c.src) = c.ref
            /\ StateOf(from, c.src)' \in {"resolved", "new"}
            /\ c.follow <=> StateOf(from, c.src)' = "resolved"
  <2>1. CASE c.src \in SrcRefs
    <3>1. PICK e \in Entry : e = [ref |-> c.ref, state |-> IF c.follow THEN "resolved" ELSE "new"]
      BY <1>0 DEF Entry
    <3>2. PICK f \in Entry : f = [ref |-> c.ref, state |-> "resolving"]
      BY <1>0 DEF Entry
    <3>3. /\ resolved' = [resolved EXCEPT ![from][c.src] = e] /\ resolved[from][c.src] = f
          /\ from \in Sources /\ e # NoEntry /\ f # NoEntry
      BY <1>0, <2>1, <3>1, <3>2, CopyAssumption DEF Sources
    <3>4. /\ resolved' \in [Sources -> [SrcRefs -> Entry \cup {NoEntry}]] /\ resolved'[from][c.src] = e
          /\ \A a \in Sources, s \in SrcRefs :
                a # from \/ s # c.src => resolved'[a][s] = resolved[a][s]
      BY <2>1, <3>3 DEF IInv, CopyTypeOK
    <3>5. Mapped(from, c.src) /\ RefOf(from, c.src) = c.ref /\ StateOf(from, c.src)' = e.state
      BY <1>0, <3>2, <3>3, <3>4 DEF Mapped, RefOf, StateOf
    <3>6. e.state \in {"resolved", "new"} /\ (c.follow <=> e.state = "resolved")
      BY <3>1
    <3>7. e.ref = f.ref
      BY <3>1, <3>2
    <3>8. ASSUME NEW a \in Sources, NEW s \in SrcRefs
          PROVE  /\ Mapped(a, s)' <=> Mapped(a, s)
                 /\ Mapped(a, s) => RefOf(a, s)' = RefOf(a, s)
      BY <3>3, <3>4, <3>7 DEF Mapped, RefOf
    <3> QED BY <3>4, <3>5, <3>6, <3>8
  <2>2. CASE c.src \notin SrcRefs
    BY <1>0, <2>2 DEF IInv, CopyTypeOK, Mapped, RefOf
  <2> QED BY <2>1, <2>2
<1>3. c.ref \notin lost => Taken(c.ref)
  <2>1. CASE c.src \in SrcRefs
    BY <1>0, <1>2, <2>1 DEF IInv, EntryInv, Sources
  <2>2. CASE c.src \notin SrcRefs
    BY <1>0, <2>2, CopyAssumption DEF FrameOK, LooseApart
  <2> QED BY <2>1, <2>2
<1>4. ASSUME NEW a \in Sources, NEW s \in SrcRefs, Mapped(a, s), RefOf(a, s) \notin lost,
             RefOf(a, s) = c.ref
      PROVE  a = from /\ s = c.src
  <2>1. CASE c.src \in SrcRefs
    <3>1. from \in Sources /\ Mapped(from, c.src) /\ RefOf(from, c.src) = c.ref
      BY <1>0, <1>2, <2>1 DEF Sources
    <3> QED BY <1>4, <2>1, <3>1 DEF IInv, ApartInv
  <2>2. CASE c.src \notin SrcRefs
    BY <1>0, <1>4, <2>2, CopyAssumption DEF FrameOK, LooseApart
  <2> QED BY <2>1, <2>2
<1>5. n > 1 => /\ \A i \in 1..n : stack[i].follow
               /\ c.follow /\ c.src \in SrcRefs /\ from \in Addresses
  <2> SUFFICES ASSUME n > 1 PROVE /\ \A i \in 1..n : stack[i].follow
                                  /\ c.follow /\ c.src \in SrcRefs /\ from \in Addresses
    OBVIOUS
  <2>1. Len(stack) > 1 /\ DOMAIN stack = 1..n /\ n \in 1..n
    BY <1>0
  <2>2. from \in Addresses /\ \A i \in 1..n : stack[i].follow
    BY <2>1 DEF IInv, StackInv
  <2>3. c.follow
    BY <1>0, <2>1, <2>2
  <2>4. c.src \in SrcRefs
    BY <1>0, <2>2, CopyAssumption
  <2> QED BY <2>2, <2>3, <2>4
<1>6. \A i \in 1..(n - 1) : /\ i \in 1..n /\ stack[i].src # c.src
                            /\ stack[i].src \in SrcRefs
  <2> SUFFICES ASSUME NEW i \in 1..(n - 1)
               PROVE  i \in 1..n /\ stack[i].src # c.src /\ stack[i].src \in SrcRefs
    OBVIOUS
  <2>1. i \in 1..n /\ n \in 1..n /\ i # n /\ n > 1
    OBVIOUS
  <2>2. stack[i].src # c.src
    <3>1. c = stack[n] /\ DOMAIN stack = 1..n
      BY <1>0
    <3>2. \A k, j \in DOMAIN stack : stack[k].src = stack[j].src => k = j
      BY DEF IInv, StackInv
    <3> QED BY <2>1, <3>1, <3>2
  <2>3. stack[i].src \in SrcRefs
    BY <1>0, <1>5, <2>1, TopFacts DEF Register
  <2> QED BY <2>1, <2>2, <2>3
<1>7. CopyTypeOK'
  <2>1. ASSUME NEW i \in DOMAIN stack'
        PROVE  /\ docs[from] # NoDoc
               /\ resolved'[from][stack'[i].src] = [ref |-> stack'[i].ref, state |-> "resolving"]
    <3>1. i \in 1..(n - 1) /\ stack'[i] = stack[i] /\ i \in DOMAIN stack
      BY <1>0, <1>6, <2>1
    <3>2. /\ docs[from] # NoDoc /\ from \in Sources
          /\ resolved[from][stack[i].src] = [ref |-> stack[i].ref, state |-> "resolving"]
      BY <1>6, <3>1, CallFacts DEF Sources
    <3>3. resolved'[from][stack[i].src] = resolved[from][stack[i].src]
      BY <1>2, <1>6, <3>1, <3>2
    <3> QED BY <3>1, <3>2, <3>3
  <2> QED BY <1>0, <1>2, <2>1 DEF IInv, CopyTypeOK
<1>8. StackInv'
  <2>1. \A i, j \in DOMAIN stack' : stack'[i].src = stack'[j].src => i = j
    BY <1>0, <1>6 DEF IInv, StackInv
  <2>2. Len(stack') > 1 => from \in Addresses /\ \A i \in DOMAIN stack' : stack'[i].follow
    BY <1>0, <1>5, <1>6
  <2> QED BY <1>0, <2>1, <2>2 DEF StackInv
<1>9. FrameInv'
  <2> SUFFICES ASSUME NEW i \in DOMAIN stack' PROVE FrameOK(stack[i])'
    BY DEF FrameInv
  <2>1. i \in 1..(n - 1) /\ stack'[i] = stack[i] /\ i \in DOMAIN stack /\ n > 1
    BY <1>0, <1>6
  <2>2. PICK d \in Frame : d = stack[i] /\ FrameOK(d) /\ d.src \in SrcRefs
    BY <1>6, <2>1, CallFacts
  <2>3. \A j \in 1..Len(d.done) : d.obj.refs[j] \in SrcRefs
    BY <2>2, DoneRefs
  <2>4. Replaced(d)'
    <3>0. from \in Sources /\ c.follow /\ c.src \in SrcRefs
      BY <1>5, <2>1 DEF Sources
    <3>1. from \in Sources /\ \A t \in SrcRefs : Mapped(from, t) =>
             /\ Mapped(from, t)' /\ RefOf(from, t)' = RefOf(from, t)
             /\ StateOf(from, t) # "new" => StateOf(from, t)' # "new"
      <4> SUFFICES ASSUME NEW t \in SrcRefs, Mapped(from, t)
                   PROVE  /\ Mapped(from, t)' /\ RefOf(from, t)' = RefOf(from, t)
                          /\ StateOf(from, t) # "new" => StateOf(from, t)' # "new"
        BY <3>0
      <4>1. Mapped(from, t)' /\ RefOf(from, t)' = RefOf(from, t)
        BY <1>0, <1>2, <3>0
      <4>2. CASE t = c.src
        BY <1>2, <3>0, <4>1, <4>2
      <4>3. CASE t # c.src
        BY <1>0, <1>2, <3>0, <4>1, <4>3 DEF StateOf
      <4> QED BY <4>1, <4>2, <4>3
    <3> QED BY SMTT(60), <1>0, <2>2, <2>3, <3>1 DEF FrameOK, Replaced, Mapped, RefOf, StateOf
  <2>5. FrameOK(d)'
    BY <1>0, <2>2, <2>4, CopyAssumption DEF FrameOK, Split
  <2> QED BY <2>1, <2>2, <2>5
<1>10. StoreInv'
  <2> SUFFICES ASSUME NEW m \in Nums
               PROVE  /\ newStorage'[m] = "initialized" => Shown(m)' # Nothing
                      /\ m \notin lost /\ Shown(m)' # Nothing => Taken(m)'
    BY <1>0 DEF StoreInv
  <2>1. CASE m = c.ref
    BY <1>0, <1>3, <2>1
  <2>2. CASE m # c.ref
    BY <1>0, <2>2 DEF IInv, StoreInv
  <2> QED BY <2>1, <2>2
<1>11. EntryInv'
  <2> SUFFICES ASSUME NEW a \in Sources, NEW s \in SrcRefs, Mapped(a, s)'
               PROVE  /\ a \in Addresses => docs[a] # NoDoc
                      /\ RefOf(a, s)' \notin lost =>
                          /\ Taken(RefOf(a, s))'
                          /\ Shown(RefOf(a, s))' # Nothing =>
                               a \in Addresses /\ Shown(RefOf(a, s))'.of \in {docs[a][s], Edited}
    BY <1>0 DEF EntryInv
  <2>1. PICK r \in Nums : r = RefOf(a, s) /\ r = RefOf(a, s)' /\ Mapped(a, s)
    BY <1>1, <1>2
  <2>2. /\ Shown(RefOf(a, s))' = Shown(r)' /\ Taken(RefOf(a, s))' = Taken(r)'
        /\ Taken(r)' <=> Taken(r)
    BY <1>0, <2>1 DEF Shown, Taken
  <2>3. CASE r # c.ref
    <3>1. Shown(r)' = Shown(r)
      BY <1>0, <2>3
    <3> QED BY <2>1, <2>2, <3>1 DEF IInv, EntryInv
  <2>4. CASE r = c.ref /\ r \notin lost
    <3>1. a = from /\ s = c.src
      BY <1>4, <2>1, <2>4
    <3>2. from \in Addresses /\ c.obj = docs[from][c.src]
      BY <1>0, <3>1, CopyAssumption DEF FrameOK
    <3>3. Shown(r)' = o /\ o.of = docs[a][s]
      BY <1>0, <2>4, <3>1, <3>2
    <3> QED BY <1>3, <2>1, <2>2, <2>4, <3>1, <3>2, <3>3 DEF IInv, EntryInv
  <2>5. CASE r \in lost
    BY <2>1, <2>5 DEF IInv, EntryInv
  <2> QED BY <2>3, <2>4, <2>5
<1>12. ApartInv'
  BY <1>0, <1>2 DEF IInv, ApartInv
<1>13. ResolvingInv'
  <2> SUFFICES ASSUME NEW a \in Sources \ failed, NEW s \in SrcRefs, Mapped(a, s)',
                      StateOf(a, s)' = "resolving"
               PROVE  from = a /\ \E i \in DOMAIN stack' : stack'[i].src = s
    BY <1>0 DEF ResolvingInv
  <2>1. a # from \/ s # c.src
    <3>1. ASSUME a = from, s = c.src PROVE FALSE
      BY <1>0, <1>2, <3>1
    <3> QED BY <3>1
  <2>2. Mapped(a, s) /\ StateOf(a, s) = "resolving"
    BY <1>2, <2>1 DEF Mapped, StateOf
  <2>3. from = a /\ \E i \in DOMAIN stack : stack[i].src = s
    BY <2>2 DEF IInv, ResolvingInv
  <2>4. PICK i \in 1..n : stack[i].src = s
    BY <1>0, <2>3
  <2>5. i \in 1..(n - 1)
    <3>1. i # n
      BY <1>0, <2>1, <2>3, <2>4
    <3> QED BY <2>4, <3>1
  <2> QED BY <1>0, <2>3, <2>4, <2>5
<1>14. ASSUME NEW a \in Addresses, NEW t \in SrcRefs, Settled(a, t)
       PROVE  Settled(a, t)'
  <2>0. a \in Sources
    BY DEF Sources
  <2>1. Mapped(a, t)'
    BY <1>2, <1>14, <2>0 DEF Settled
  <2>2. StateOf(a, t)' # "new"
    <3>1. CASE a # from \/ t # c.src
      BY <1>2, <1>14, <2>0, <3>1 DEF Settled, StateOf
    <3>2. CASE a = from /\ t = c.src
      <4>1. CASE n > 1
        <5>1. c.follow
          BY <1>5, <4>1
        <5> QED BY <1>0, <1>2, <3>2, <5>1
      <4>2. CASE n = 1
        <5>1. Running /\ from = a /\ stack[1].src = t
          BY <1>0, <3>2, <4>2 DEF Register
        <5>2. stack[1].follow
          BY <1>14, <5>1 DEF Settled
        <5>3. c.follow
          BY <1>0, <4>2, <5>2
        <5> QED BY <1>0, <1>2, <3>2, <5>3
      <4> QED BY <4>1, <4>2
    <3> QED BY <3>1, <3>2
  <2>3. Running' => stack'[1].follow
    <3>1. Running' => 1 \in 1..(n - 1)
      BY <1>0 DEF Running
    <3>2. 1 \in 1..(n - 1) => stack'[1] = stack[1] /\ n > 1 /\ 1 \in 1..n
      BY <1>0
    <3> QED BY <1>5, <3>1, <3>2
  <2> QED BY <2>1, <2>2, <2>3 DEF Settled
<1>15. CompleteInv'
  <2> SUFFICES ASSUME NEW a \in Addresses, NEW s \in SrcRefs, Mapped(a, s)',
                      StateOf(a, s)' = "resolved", RefOf(a, s)' \notin lost
               PROVE  Whole(a, s)'
    BY <1>0 DEF CompleteInv
  <2>0. a \in Sources
    BY DEF Sources
  <2>1. PICK r \in Nums : r = RefOf(a, s) /\ r = RefOf(a, s)' /\ Mapped(a, s)
    BY <2>0, <1>1, <1>2
  <2>2. Shown(RefOf(a, s))' = Shown(r)'
    BY <2>1 DEF Shown
  <2>3. CASE a = from /\ s = c.src
    <3>1. c.follow /\ r = c.ref
      <4>1. c.src \in SrcRefs /\ StateOf(from, c.src)' = "resolved" /\ RefOf(from, c.src) = r
        BY <1>0, <2>1, <2>3
      <4> QED BY <1>2, <4>1
    <3>2. c.obj = docs[a][s] /\ from \in Addresses /\ Split(c) /\ Replaced(c)
      BY <2>3, <1>0, CopyAssumption DEF FrameOK
    <3>3. Shown(r)' = o /\ o # Nothing /\ o.refs = c.done
      BY <1>0, <3>1
    <3>4. docs[a][s] \in SourceObject /\ docs[a][s].refs \in Seq(SrcRefs) /\ c.done \in Seq(Nums)
      BY <3>2 DEF Frame, SourceObject
    <3>5. Len(c.done) = Len(docs[a][s].refs)
      BY <1>0, <3>2, <3>4 DEF Split
    <3>6. ASSUME NEW i \in DOMAIN docs[a][s].refs
          PROVE  /\ Settled(a, docs[a][s].refs[i])'
                 /\ RefOf(a, docs[a][s].refs[i])' = c.done[i]
      <4>1. PICK t \in SrcRefs : t = docs[a][s].refs[i] /\ t = c.obj.refs[i]
        BY <3>2, <3>4
      <4>2. i \in 1..Len(c.done)
        BY <3>4, <3>5
      <4>3. Mapped(a, t) /\ RefOf(a, t) = c.done[i] /\ StateOf(a, t) # "new"
        BY <2>3, <3>1, <3>2, <4>1, <4>2, CopyAssumption DEF Replaced
      <4>4. Mapped(a, t)' /\ RefOf(a, t)' = c.done[i]
        BY <2>0, <4>3, <1>2
      <4>5. StateOf(a, t)' # "new"
        BY <2>0, <2>3, <3>1, <4>3, <1>2 DEF StateOf
      <4>6. Running' => stack'[1].follow
        <5>1. Running' => 1 \in 1..(n - 1)
          BY <1>0 DEF Running
        <5>2. 1 \in 1..(n - 1) => stack'[1] = stack[1] /\ n > 1 /\ 1 \in 1..n
          BY <1>0
        <5> QED BY <1>5, <5>1, <5>2
      <4>7. Settled(a, t)'
        BY <4>4, <4>5, <4>6 DEF Settled
      <4> QED BY <1>0, <4>1, <4>4, <4>7 DEF Settled, Mapped, StateOf, RefOf
    <3> QED BY <1>0, <2>2, <3>3, <3>4, <3>5, <3>6 DEF Whole
  <2>4. CASE a # from \/ s # c.src
    <3>1. StateOf(a, s) = "resolved" /\ r \notin lost
      BY <2>0, <2>1, <2>4, <1>2 DEF StateOf
    <3>2. Whole(a, s)
      BY <2>1, <3>1 DEF IInv, CompleteInv
    <3>3. r # c.ref
      BY <2>0, <2>1, <2>4, <3>1, <1>4
    <3>4. Shown(r)' = Shown(r)
      BY <1>0, <3>3
    <3>5. ASSUME Shown(r).of # Edited, NEW i \in DOMAIN docs[a][s].refs
          PROVE  /\ Settled(a, docs[a][s].refs[i])'
                 /\ RefOf(a, docs[a][s].refs[i])' = Shown(r).refs[i]
      <4>1. PICK t \in SrcRefs : t = docs[a][s].refs[i]
        BY <2>1, <3>2, <3>5 DEF Whole, SourceObject
      <4>2. Settled(a, t) /\ RefOf(a, t) = Shown(r).refs[i]
        BY <2>1, <3>2, <3>5, <4>1 DEF Whole
      <4>3. Settled(a, t)' /\ RefOf(a, t)' = Shown(r).refs[i]
        BY <2>0, <4>2, <1>2, <1>14 DEF Settled
      <4> QED BY <1>0, <4>1, <4>3 DEF Settled, Mapped, StateOf, RefOf
    <3> QED BY <1>0, <2>1, <2>2, <3>2, <3>4, <3>5 DEF Whole
  <2> QED BY <2>3, <2>4
<1> QED BY <1>7, <1>8, <1>9, <1>10, <1>11, <1>12, <1>13, <1>15 DEF IInv

(* Every step keeps the invariant.                                         *)
LEMMA NextInv ==
  ASSUME IInv, [Next]_vars
  PROVE  IInv'
<1>1. CASE \E a \in Addresses, s \in SrcRefs, f \in BOOLEAN : StartCopy(a, s, f)
  BY <1>1, StartCopyInv
<1>2. CASE \E obj \in Loose, f \in BOOLEAN : StartLoose(obj, f)
  BY <1>2, StartLooseInv
<1>3. CASE CopyStep
  BY <1>3, CreateMappingInv, FollowRefInv, PutRefInv, RegisterInv, ThrowInv DEF CopyStep
<1>4. CASE \E type \in {"dict", "plain"} : AddOwn(type)
  BY <1>4, AddOwnInv
<1>5. CASE \E n \in Nums : EditCopy(n)
  BY <1>5, EditCopyInv
<1>6. CASE NewRevision
  BY <1>6, NewRevisionInv
<1>7. CASE \E a \in Addresses, d \in SourceFiles : OpenSource(a, d)
  BY <1>7, OpenSourceInv
<1>8. CASE \E a \in Addresses : CloseSource(a)
  BY <1>8, CloseSourceInv
<1>9. CASE UNCHANGED vars
  BY <1>9, StutterInv
<1> QED BY <1>1, <1>2, <1>3, <1>4, <1>5, <1>6, <1>7, <1>8, <1>9 DEF Next

(* The invariant holds in every reachable state.                           *)
THEOREM Invariance == Spec => []IInv
BY InitInv, NextInv, PTL DEF Spec

(* Every variable has its type, and every call that runs is for an entry   *)
(* of an open document that is being resolved.                             *)
THEOREM TypeCorrect == Spec => []CopyTypeOK
<1>1. IInv => CopyTypeOK
  BY DEF IInv
<1> QED BY <1>1, Invariance, PTL

(* An object that is settled has been copied, will have been when the call *)
(* that copies it returns, or was left by an exception.                    *)
LEMMA SettledIsCopied ==
  ASSUME IInv, NEW a \in Sources, NEW t \in SrcRefs, Settled(a, t)
  PROVE  IsCopied(a, t) \/ IsLeftResolving(a, t)
<1>1. Mapped(a, t) /\ resolved[a][t].state \in {"resolving", "resolved"}
  BY DEF IInv, CopyTypeOK, Settled, Mapped, StateOf, Entry
<1> SUFFICES ASSUME resolved[a][t].state = "resolving", a \notin failed
             PROVE  IsCopied(a, t)
  BY <1>1 DEF IsCopied, IsLeftResolving
<1>2. PICK i \in DOMAIN stack : from = a /\ stack[i].src = t
  BY <1>1 DEF IInv, ResolvingInv, StateOf
<1>3. stack \in Seq(Frame) /\ DOMAIN stack = 1..Len(stack) /\ Len(stack) \in Nat
  BY DEF IInv, StackInv
<1>4. CASE Len(stack) > 1
  BY <1>2, <1>4 DEF IInv, StackInv, IsCopied
<1>5. CASE ~(Len(stack) > 1)
  <2>1. i = 1 /\ stack # <<>>
    BY <1>2, <1>3, <1>5
  <2> QED BY <1>2, <2>1 DEF Settled, Running, IsCopied
<1> QED BY <1>4, <1>5

(* A whole copy is what CopiesComplete asks for.                           *)
LEMMA IInvComplete == IInv => CopiesComplete
<1> SUFFICES ASSUME IInv, NEW a \in Addresses, NEW s \in SrcRefs,
                    resolved[a][s] # NoEntry, resolved[a][s].state = "resolved",
                    resolved[a][s].ref \notin lost
             PROVE  /\ docs[a] # NoDoc
                    /\ Shown(resolved[a][s].ref) # Nothing
                    /\ Shown(resolved[a][s].ref).of # Edited
                          => IsCopyOf(Shown(resolved[a][s].ref), a, s)
  BY DEF CopiesComplete
<1>0. a \in Sources
  BY DEF Sources
<1>1. PICK n \in Nums : n = resolved[a][s].ref /\ n = RefOf(a, s) /\ n \notin lost
  BY <1>0 DEF RefOf, IInv, CopyTypeOK, Entry
<1>2. Whole(a, s)
  BY <1>1 DEF IInv, CompleteInv, Mapped, StateOf
<1>3. docs[a] # NoDoc /\ Shown(n) # Nothing /\ Shown(n).of \in {docs[a][s], Edited}
  BY <1>0, <1>1, <1>2 DEF IInv, EntryInv, Mapped, Whole
<1>4. ASSUME Shown(n).of # Edited
      PROVE  IsCopyOf(Shown(n), a, s)
  <2>1. PICK c \in Copied : c = Shown(n)
    BY <1>3 DEF IInv, CopyTypeOK, Shown
  <2>2. DOMAIN c.refs = 1..Len(c.refs) /\ DOMAIN docs[a][s].refs = 1..Len(docs[a][s].refs)
    BY <1>1, <1>2, <1>4 DEF Whole, Copied, SourceObject
  <2>3. /\ Len(c.refs) = Len(docs[a][s].refs)
        /\ \A i \in DOMAIN docs[a][s].refs :
              /\ Settled(a, docs[a][s].refs[i])
              /\ RefOf(a, docs[a][s].refs[i]) = c.refs[i]
    BY <1>1, <1>2, <1>4, <2>1, SMTT(60) DEF Whole
  <2>4. ASSUME NEW i \in DOMAIN c.refs, NEW t, t = docs[a][s].refs[i]
        PROVE  /\ resolved[a][t] # NoEntry
               /\ resolved[a][t].ref = c.refs[i]
               /\ IsCopied(a, t) \/ IsLeftResolving(a, t)
    <3>1. i \in DOMAIN docs[a][s].refs
      BY <2>2, <2>3, <2>4
    <3>2. Settled(a, t) /\ RefOf(a, t) = c.refs[i]
      BY <2>3, <2>4, <3>1
    <3>3. docs[a][s].refs \in Seq(SrcRefs)
      BY <1>1, <1>2, <1>4 DEF Whole, SourceObject
    <3>4. t \in SrcRefs
      BY <2>2, <2>4, <3>1, <3>3, ElementOfSeq
    <3> QED BY <1>0, <3>2, <3>4, SettledIsCopied DEF Settled, Mapped, RefOf
  <2> QED BY <1>3, <1>4, <2>1, <2>3, <2>4 DEF IsCopyOf
<1> QED BY <1>1, <1>3, <1>4

(* A resolved entry leads to a complete copy of the object at that         *)
(* address, and each reference in it to the copy of the object it led to   *)
(* there, whatever documents, objects, numbers and copies there are, and   *)
(* however copying, editing, saving and closing alternate.  Two things are *)
(* excepted: the object a reference leads to was being copied when a copy  *)
(* from that document threw, and what is at numbers that were reserved and *)
(* then forgotten by a new revision.                                       *)
THEOREM ResolvedIsComplete == Spec => []CopiesComplete
BY Invariance, IInvComplete, PTL

(* No two objects are mapped to the same reference, and none to that of an *)
(* object that is no copy.                                                 *)
THEOREM ObjectsAreApart == Spec => []MappedApart
<1>1. IInv => MappedApart
  <2> SUFFICES ASSUME IInv, NEW a \in Sources, NEW b \in Sources, NEW s \in SrcRefs, NEW t \in SrcRefs,
                      Mapped(a, s), Mapped(b, t), RefOf(a, s) = RefOf(b, t), RefOf(a, s) \notin lost
               PROVE  /\ a = b /\ s = t
                      /\ Shown(RefOf(a, s)) # Nothing => Shown(RefOf(a, s)).of # Own
    BY DEF MappedApart, Mapped, RefOf
  <2>1. a = b /\ s = t
    BY DEF IInv, ApartInv
  <2>2. ASSUME Shown(RefOf(a, s)) # Nothing
        PROVE  Shown(RefOf(a, s)).of # Own
    <3>1. a \in Addresses /\ docs[a] # NoDoc /\ Shown(RefOf(a, s)).of \in {docs[a][s], Edited}
      BY <2>2 DEF IInv, EntryInv
    <3>2. docs[a][s] \in SourceObject \cup {Damaged}
      BY <3>1, CopyAssumption DEF IInv, CopyTypeOK
    <3> QED BY <3>1, <3>2, CopyAssumption
  <2> QED BY <2>1, <2>2
<1> QED BY <1>1, Invariance, PTL

(* Between two copies nothing is left half done, unless a copy from that   *)
(* document has thrown.                                                    *)
THEOREM SettledUnlessFailed == Spec => []CopiesSettled
<1>1. IInv => CopiesSettled
  BY DEF IInv, ResolvingInv, CopiesSettled, Mapped, StateOf, Running
<1> QED BY <1>1, Invariance, PTL

(* Only registerIndirectProperty changes what is shown while a copy runs.  *)
LEMMA OverwriteStep ==
  ASSUME IInv, Next, NEW n \in Nums \ lost, Running, Shown(n) # Nothing, Shown(n)' # Shown(n)
  PROVE  n = Top.ref /\ Shown(n).of \in {Top.obj, Edited}
<1>1. CASE Register
  <2>1. PICK c \in Frame :
           /\ c = Top /\ FrameOK(c) /\ c.ref = n
           /\ c.src \in SrcRefs => /\ from \in Addresses
                                   /\ resolved[from][c.src] = [ref |-> c.ref, state |-> "resolving"]
           /\ c.src \notin SrcRefs => c.src = NoRef
    BY ZenonT(40), <1>1, RegisterFacts
  <2>2. CASE c.src \in SrcRefs
    <3>1. /\ from \in Sources /\ Mapped(from, c.src) /\ RefOf(from, c.src) = n
          /\ c.obj = docs[from][c.src]
      BY <2>1, <2>2, CopyAssumption DEF Sources, Mapped, RefOf, FrameOK, Entry, Frame
    <3> QED BY <2>1, <2>2, <3>1 DEF IInv, EntryInv
  <2>3. CASE c.src \notin SrcRefs
    BY <2>1, <2>3 DEF FrameOK, LooseApart
  <2> QED BY <2>2, <2>3
<1>2. CASE ~Register
  <2>1. UNCHANGED <<changed, saved>>
    BY <1>2 DEF Next, CopyStep, CreateMapping, FollowRef, PutRef, Throw, storeVars,
                StartCopy, StartLoose, AddOwn, EditCopy, NewRevision, OpenSource, CloseSource
  <2> QED BY <2>1 DEF Shown
<1> QED BY <1>1, <1>2

(* A copy writes over nothing but an earlier copy of the same object.      *)
THEOREM CopiesOverwriteNothing == Spec => NothingOverwritten
<1> DEFINE Kept == \A n \in Nums \ lost :
                      Running /\ Shown(n) # Nothing /\ Shown(n)' # Shown(n)
                          => n = Top.ref /\ Shown(n).of \in {Top.obj, Edited}
<1>1. IInv /\ [Next]_vars => [Kept]_vars
  BY OverwriteStep
<1> QED BY <1>1, Invariance, PTL DEF Spec, NothingOverwritten

=============================================================================
