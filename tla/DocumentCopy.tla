---------------------------- MODULE DocumentCopy ----------------------------
(***************************************************************************)
(* Copies of objects from other documents: CPdf::addIndirectProperty of a  *)
(* property that belongs to another CPdf, or to none.                      *)
(*                                                                         *)
(* The document that is copied to remembers, for each document that is     *)
(* copied from (known by its address), the reference each object there has *)
(* got here and how far its copy has come.  The references an object holds *)
(* are replaced one after the other; with followRefs the objects they lead *)
(* to are copied on the way, recursively, and the mapping keeps cycles     *)
(* from going on for ever.                                                 *)
(*                                                                         *)
(* A step is one turn of that recursion or one call of something else.     *)
(* Nothing else happens while a copy runs: there is one thread.            *)
(*                                                                         *)
(* An object is told apart by its type and by the references it holds, in  *)
(* the order in which subsReferencies meets them.  The document copied to  *)
(* has numbers of generation 0: nothing is ever removed from it.           *)
(***************************************************************************)
EXTENDS Integers, Sequences, FiniteSets

CONSTANTS
    MaxNum,       \* MAXOBJNUM - 1: the highest number here
    SrcRefs,      \* the references of a document that is copied from
    Addresses,    \* where such documents live in memory
    SourceFiles,  \* those that can be opened
    Loose,        \* properties that belong to no document
    OpenModes,    \* the modes this document is opened in
    MaxDepth,     \* bound: deeper calls of addProperty never return
    NoDoc, NoPdf, NoRef, NoEntry, Nothing, Damaged, Own, Edited

VARIABLES
    docs,        \* the document at each address
    resolved,    \* resolvedRefMapping: for each address an entry per reference
    newStorage,  \* XRefWriter: the state of the numbers handed out
    changed,     \* XRefWriter: the pending values
    saved,       \* what the newest revision of the file holds
    mode,        \* "paranoid" or "easy", see XRefWriter
    stack,       \* the calls of addProperty that have not returned
    from,        \* the address they copy from
    lost,        \* history: the numbers reserved for a copy that a new
                 \* revision has forgotten before there was an object
    failed       \* history: the addresses a copy from which has thrown

storeVars == <<newStorage, changed, saved, mode>>
vars == <<docs, resolved, storeVars, stack, from, lost, failed>>

Nums == 1..MaxNum
Sources == Addresses \cup {NoPdf}

(* An object elsewhere, and one here: its type, what it was copied from,   *)
(* and the references in it.                                               *)
SourceObject == [type : {"dict", "plain", "null"}, refs : Seq(SrcRefs)]
NullObject == [refs |-> <<>>, type |-> "null"]
Copied == [type : {"dict", "plain", "null"},
           of   : SourceObject \cup {Own, Edited},
           refs : Seq(Nums)]

Entry == [ref : Nums, state : {"new", "resolving", "resolved"}]

ASSUME CopyAssumption ==
    /\ MaxNum \in Nat \ {0} /\ MaxDepth \in Nat \ {0}
    /\ OpenModes \subseteq {"paranoid", "easy"}
    /\ \A d \in SourceFiles, s \in SrcRefs : d[s] \in SourceObject \cup {Damaged}
    /\ Loose \subseteq SourceObject
    /\ NoDoc \notin SourceFiles /\ NoPdf \notin Addresses /\ NoRef \notin SrcRefs
    /\ NoEntry \notin Entry /\ Nothing \notin Copied
    /\ Damaged \notin SourceObject \cup {Own} /\ Own # Edited
    /\ {Own, Edited} \cap SourceObject = {}

-----------------------------------------------------------------------------
(* The store copied to, see XRefWriter *)

Shown(n) == IF changed[n] # Nothing THEN changed[n] ELSE saved[n]

TypeShown(n) == IF Shown(n) = Nothing THEN "null" ELSE Shown(n).type

KnowsRef(n) ==
    IF newStorage[n] # "unused" THEN newStorage[n]
    ELSE IF saved[n] # Nothing THEN "initialized" ELSE "unused"

(* A fault: what the numbers hold since the last save is not looked at. *)
FreeWhereNotSaved == {n \in Nums : saved[n] = Nothing}

(* A fault: only the numbers handed out since the last save are taken. *)
FreeWhereNotNew == {n \in Nums : newStorage[n] = "unused"}

(* reserveRef *)
Free == {n \in Nums : saved[n] = Nothing /\ newStorage[n] = "unused"}
NextNum == CHOOSE n \in Free : \A m \in Free : n <= m

(* What changeObject does not refuse. *)
Accepts(n, type) ==
    mode = "paranoid" =>
        /\ KnowsRef(n) # "unused"
        /\ KnowsRef(n) = "initialized" => TypeShown(n) = type

Reserve(n) == newStorage' = [newStorage EXCEPT ![n] = "reserved"]

ChangeObject(n, obj) ==
    /\ Accepts(n, obj.type)
    /\ changed' = [changed EXCEPT ![n] = obj]
    /\ newStorage' = IF newStorage[n] # "unused"
                     THEN [newStorage EXCEPT ![n] = "initialized"] ELSE newStorage

-----------------------------------------------------------------------------
(* The recursion *)

Running == stack # <<>>
Top == stack[Len(stack)]
Below == SubSeq(stack, 1, Len(stack) - 1)

(* A call of addProperty: the object it copies, where it is there and      *)
(* here, the references in it still to be replaced and those put in.       *)
Call(src, ref, obj, follow) ==
    [src |-> src, ref |-> ref, obj |-> obj, follow |-> follow,
     todo |-> obj.refs, done |-> <<>>]

(* The reference to be replaced next and its entry. *)
Met == Head(Top.todo)
MetEntry == resolved[from][Met]

SetEntry(s, e) == resolved' = [resolved EXCEPT ![from][s] = e]
SetState(s, st) == resolved' = [resolved EXCEPT ![from][s].state = st]

NoMapping == [s \in SrcRefs |-> NoEntry]

(* addIndirectProperty of an indirect object that was not copied from      *)
(* there before.                                                           *)
StartNew(a, s, follow) ==
    /\ resolved[a][s] = NoEntry
    /\ Free # {}
    /\ Reserve(NextNum)
    /\ resolved' = [resolved EXCEPT ![a][s] = [ref |-> NextNum, state |-> "resolving"]]
    /\ stack' = <<Call(s, NextNum, docs[a][s], follow)>>

(* A fault: the entry is not marked before the recursion. *)
StartKnownUnmarked(a, s, follow) ==
    /\ resolved[a][s] # NoEntry
    /\ resolved[a][s].state = "new"
    /\ stack' = <<Call(s, resolved[a][s].ref, docs[a][s], follow)>>
    /\ UNCHANGED <<resolved, newStorage>>

(* A number was reserved for it before.  When its copy is resolved its     *)
(* reference is returned and nothing changes; one that is being resolved   *)
(* fails an assertion.                                                     *)
StartKnown(a, s, follow) ==
    /\ resolved[a][s] # NoEntry
    /\ resolved[a][s].state = "new"
    /\ resolved' = [resolved EXCEPT ![a][s].state = "resolving"]
    /\ stack' = <<Call(s, resolved[a][s].ref, docs[a][s], follow)>>
    /\ UNCHANGED newStorage

StartCopy(a, s, follow) ==
    /\ ~Running
    /\ docs[a] # NoDoc
    /\ docs[a][s] \notin {Damaged, NullObject}
    /\ StartNew(a, s, follow) \/ StartKnown(a, s, follow)
    /\ from' = a
    /\ UNCHANGED <<docs, changed, saved, mode, lost, failed>>

(* addIndirectProperty of a property of no document: no entry for itself.  *)
StartLoose(obj, follow) ==
    /\ ~Running
    /\ Free # {}
    /\ Reserve(NextNum)
    /\ stack' = <<Call(NoRef, NextNum, obj, follow)>>
    /\ from' = NoPdf
    /\ UNCHANGED <<docs, resolved, changed, saved, mode, lost, failed>>

(* subsReferencies meets a reference for the first time: createMapping.    *)
CreateMapping ==
    /\ Running /\ Top.todo # <<>>
    /\ MetEntry = NoEntry
    /\ Free # {}
    /\ Reserve(NextNum)
    /\ SetEntry(Met, [ref |-> NextNum, state |-> "new"])
    /\ UNCHANGED <<docs, changed, saved, mode, stack, from, lost, failed>>

(* A fault: whatever is not resolved yet is followed. *)
FollowsUnresolved(e) == Top.follow /\ from # NoPdf /\ e.state # "resolved"

(* Whether the object a reference leads to is copied now. *)
Follows(e) == Top.follow /\ from # NoPdf /\ e.state = "new"

(* The object is read from the other document and copied; what it holds is *)
(* always followed, for addProperty is handed the object where it expects  *)
(* the flag.                                                               *)
FollowRef ==
    /\ Running /\ Top.todo # <<>>
    /\ MetEntry # NoEntry
    /\ Follows(MetEntry)
    /\ docs[from][Met] # Damaged
    /\ IF Len(stack) < MaxDepth
       THEN /\ SetState(Met, "resolving")
            /\ stack' = Append(stack, Call(Met, MetEntry.ref, docs[from][Met], TRUE))
       ELSE UNCHANGED <<resolved, stack>>
    /\ UNCHANGED <<docs, storeVars, from, lost, failed>>

(* The reference in the clone is replaced. *)
PutRef ==
    /\ Running /\ Top.todo # <<>>
    /\ MetEntry # NoEntry
    /\ ~Follows(MetEntry)
    /\ stack' = [stack EXCEPT ![Len(stack)].todo = Tail(@),
                              ![Len(stack)].done = Append(@, MetEntry.ref)]
    /\ UNCHANGED <<docs, resolved, storeVars, from, lost, failed>>

(* A fault: what was not followed is left as it was. *)
StateUnlessFollowed(follow) == IF follow THEN "resolved" ELSE "resolving"

(* What has been copied without following is taken for not copied. *)
StateAfter(follow) == IF follow THEN "resolved" ELSE "new"

(* registerIndirectProperty, and addProperty returns. *)
Register ==
    /\ Running /\ Top.todo = <<>>
    /\ ChangeObject(Top.ref, [type |-> Top.obj.type, of |-> Top.obj, refs |-> Top.done])
    /\ IF Top.src = NoRef THEN UNCHANGED resolved
       ELSE SetState(Top.src, StateAfter(Top.follow))
    /\ stack' = Below
    /\ UNCHANGED <<docs, saved, mode, from, lost, failed>>

(* An exception ends all the calls: no number is left, the object does not *)
(* parse, or changeObject refuses.  The entries stay as they are.          *)
Throw ==
    /\ Running
    /\ \/ Top.todo # <<>> /\ MetEntry = NoEntry /\ Free = {}
       \/ Top.todo # <<>> /\ MetEntry # NoEntry /\ Follows(MetEntry) /\ docs[from][Met] = Damaged
       \/ Top.todo = <<>> /\ ~Accepts(Top.ref, Top.obj.type)
    /\ stack' = <<>>
    /\ failed' = failed \cup {from}
    /\ UNCHANGED <<docs, resolved, storeVars, from, lost>>

CopyStep == CreateMapping \/ FollowRef \/ PutRef \/ Register \/ Throw

-----------------------------------------------------------------------------
(* Between two copies *)

(* addIndirectProperty of a property of this document. *)
AddOwn(type) ==
    /\ ~Running
    /\ Free # {}
    /\ newStorage' = [newStorage EXCEPT ![NextNum] = "initialized"]
    /\ changed' = [changed EXCEPT ![NextNum] = [type |-> type, of |-> Own, refs |-> <<>>]]
    /\ UNCHANGED <<docs, resolved, saved, mode, stack, from, lost, failed>>

(* A copy is edited by a setter of its property, and its references go. *)
EditCopy(n) ==
    /\ ~Running
    /\ Shown(n) # Nothing
    /\ Shown(n).type # "null" /\ Shown(n).of # Own
    /\ ChangeObject(n, [type |-> Shown(n).type, of |-> Edited, refs |-> <<>>])
    /\ UNCHANGED <<docs, resolved, saved, mode, stack, from, lost, failed>>

(* save(true): CXref::reopen drops what is pending and what is reserved. *)
NewRevision ==
    /\ ~Running
    /\ \E n \in Nums : changed[n] # Nothing
    /\ saved' = [n \in Nums |-> Shown(n)]
    /\ changed' = [n \in Nums |-> Nothing]
    /\ newStorage' = [n \in Nums |-> "unused"]
    /\ lost' = lost \cup {n \in Nums : newStorage[n] = "reserved"}
    /\ UNCHANGED <<docs, resolved, mode, stack, from, failed>>

OpenSource(a, d) ==
    /\ ~Running
    /\ docs[a] = NoDoc
    /\ docs' = [docs EXCEPT ![a] = d]
    /\ UNCHANGED <<resolved, storeVars, stack, from, lost, failed>>

(* releasePdfId: the address may be that of another document soon. *)
CloseSource(a) ==
    /\ ~Running
    /\ docs[a] # NoDoc
    /\ docs' = [docs EXCEPT ![a] = NoDoc]
    /\ resolved' = [resolved EXCEPT ![a] = NoMapping]
    /\ failed' = failed \ {a}
    /\ UNCHANGED <<storeVars, stack, from, lost>>

-----------------------------------------------------------------------------
Init ==
    /\ docs = [a \in Addresses |-> NoDoc]
    /\ resolved = [a \in Sources |-> NoMapping]
    /\ newStorage = [n \in Nums |-> "unused"]
    /\ changed = [n \in Nums |-> Nothing]
    /\ saved = [n \in Nums |-> IF n = 1 THEN [type |-> "dict", of |-> Own, refs |-> <<>>]
                                        ELSE Nothing]
    /\ mode \in OpenModes
    /\ stack = <<>>
    /\ from = NoPdf
    /\ lost = {}
    /\ failed = {}

Next ==
    \/ \E a \in Addresses, s \in SrcRefs, f \in BOOLEAN : StartCopy(a, s, f)
    \/ \E obj \in Loose, f \in BOOLEAN : StartLoose(obj, f)
    \/ CopyStep
    \/ \E type \in {"dict", "plain"} : AddOwn(type)
    \/ \E n \in Nums : EditCopy(n)
    \/ NewRevision
    \/ \E a \in Addresses, d \in SourceFiles : OpenSource(a, d)
    \/ \E a \in Addresses : CloseSource(a)

(* A call that was made goes on: its own steps are fair, and no others. *)
Spec == Init /\ [][Next]_vars /\ WF_vars(CopyStep)

-----------------------------------------------------------------------------
(* Properties *)

(* Every variable has its type, and the calls that run are of one document *)
(* that is open, each for an entry that is being resolved.                 *)
CopyTypeOK ==
    /\ docs \in [Addresses -> SourceFiles \cup {NoDoc}]
    /\ resolved \in [Sources -> [SrcRefs -> Entry \cup {NoEntry}]]
    /\ newStorage \in [Nums -> {"unused", "reserved", "initialized"}]
    /\ changed \in [Nums -> Copied \cup {Nothing}]
    /\ saved \in [Nums -> Copied \cup {Nothing}]
    /\ mode \in {"paranoid", "easy"}
    /\ from \in Sources /\ lost \subseteq Nums /\ failed \subseteq Sources
    /\ \A i \in DOMAIN stack :
          stack[i].src # NoRef =>
              /\ docs[from] # NoDoc
              /\ resolved[from][stack[i].src] = [ref |-> stack[i].ref, state |-> "resolving"]

(* Object t of the document at address a has been copied, or a call that   *)
(* runs copies it and will have it resolved.                               *)
IsCopied(a, t) ==
    \/ resolved[a][t].state = "resolved"
    \/ from = a /\ \E i \in DOMAIN stack : stack[i].src = t /\ stack[i].follow

(* A copy from that document has thrown and left the entry as it was: what *)
(* was reserved for the object may hold nothing, and will stay so.         *)
IsLeftResolving(a, t) == resolved[a][t].state = "resolving" /\ a \in failed

(* The copy of object s of the document at address a is complete: it is a  *)
(* copy of that very object, and each reference in it is the one the       *)
(* object it leads to has got here, which is copied as well, unless an     *)
(* exception has ended its copy.                                           *)
IsCopyOf(c, a, s) ==
    /\ c.of = docs[a][s]
    /\ Len(c.refs) = Len(docs[a][s].refs)
    /\ \A i \in DOMAIN c.refs :
          LET t == docs[a][s].refs[i] IN
          /\ resolved[a][t] # NoEntry
          /\ resolved[a][t].ref = c.refs[i]
          /\ IsCopied(a, t) \/ IsLeftResolving(a, t)

(* What the mapping says is resolved is there and refers to what is copied *)
(* as well, whatever was copied, edited or saved since, in whatever order, *)
(* and also when another document has come to the address of one that was  *)
(* closed.  There are two exceptions.  An object whose copy was ended by   *)
(* an exception stays as it was (IsLeftResolving), and copies made later   *)
(* refer to it all the same.  And nothing is said of what a number holds   *)
(* that was reserved and then forgotten by a new revision (lost).          *)
CopiesComplete ==
    \A a \in Addresses, s \in SrcRefs :
        LET e == resolved[a][s] IN
        e # NoEntry /\ e.state = "resolved" /\ e.ref \notin lost =>
            /\ docs[a] # NoDoc
            /\ Shown(e.ref) # Nothing
            /\ Shown(e.ref).of # Edited => IsCopyOf(Shown(e.ref), a, s)

(* No two objects are mapped to the same reference, and none to that of an *)
(* object that is no copy.                                                 *)
MappedApart ==
    \A a, b \in Sources, s, t \in SrcRefs :
        LET e == resolved[a][s]  f == resolved[b][t] IN
        e # NoEntry /\ f # NoEntry /\ e.ref = f.ref /\ e.ref \notin lost =>
            /\ a = b /\ s = t
            /\ Shown(e.ref) # Nothing => Shown(e.ref).of # Own

(* A copy overwrites nothing but an earlier copy of the same object.       *)
NothingOverwritten ==
    [][\A n \in Nums \ lost :
          Running /\ Shown(n) # Nothing /\ Shown(n)' # Shown(n)
              => n = Top.ref /\ Shown(n).of \in {Top.obj, Edited}]_vars

(* When no copy has failed, none is left half done: the next one may rely  *)
(* on it (the assertion in addIndirectProperty).                           *)
CopiesSettled ==
    ~Running =>
        \A a \in Sources \ failed, s \in SrcRefs :
            resolved[a][s] # NoEntry => resolved[a][s].state # "resolving"

(* A copy comes to an end, however the objects refer to each other.        *)
CopyEnds == Running ~> ~Running

-----------------------------------------------------------------------------
(* What comments in the code say, and the code does not do *)

(* The assertion of addIndirectProperty: "entry state must not be          *)
(* resolving, because we are starting resolution".                         *)
NoneLeftResolving ==
    ~Running =>
        \A a \in Sources, s \in SrcRefs :
            resolved[a][s] # NoEntry => resolved[a][s].state # "resolving"

=============================================================================
