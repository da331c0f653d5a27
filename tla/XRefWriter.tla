----------------------------- MODULE XRefWriter -----------------------------
(***************************************************************************)
(* XRef, CXref and XRefWriter: one open file and the changes made to it.   *)
(*                                                                         *)
(* XRef keeps the parsed cross reference table of one section of the file. *)
(* CXref lays the pending changes of objects and trailer over it and hands *)
(* out references for new objects.  XRefWriter knows the revisions of the  *)
(* file, allows changes in the newest one only and writes the pending      *)
(* changes behind the last committed section, either to be overwritten by  *)
(* the next save or as a new revision.                                     *)
(*                                                                         *)
(* An action is one call that takes effect; a call that is refused leaves  *)
(* the state alone and is no step.                                         *)
(***************************************************************************)
EXTENDS OldStylePdfWriter, FiniteSets

CONSTANTS
    Docs,        \* the files that can be opened
    NoTrailer,   \* the empty currTrailer pointer
    Modes,       \* the modes setMode is called with
    MaxSections  \* bound: no save beyond this many sections

VARIABLES
    \* XRef
    file,             \* the stream, behind its last section nothing
    entries,          \* the parsed table of the current revision
    maxObj,           \* the highest number in use in entries
    trailerDict,      \* the trailer of the current revision
    lastXRefPos,      \* the section entries was parsed from
    encrypted, needsCredentials,
    \* CXref
    changedStorage,   \* pending values of objects
    newStorage,       \* the state of the references handed out
    currTrailer,      \* the pending trailer
    \* XRefWriter
    mode,             \* "paranoid" or "easy"
    readOnly,         \* the CPdf above is in ReadOnly mode
    linearized,
    revisions,        \* the section of each revision, oldest first
    revision,         \* the current one, counted from 0
    storePos,         \* the last committed section
    writer            \* the OldStylePdfWriter

streamVars  == <<file, storePos, revisions>>
xrefVars    == <<entries, maxObj, trailerDict, lastXRefPos, encrypted, needsCredentials>>
changeVars  == <<changedStorage, newStorage, currTrailer>>
modeVars    == <<mode, readOnly, linearized>>
vars == <<streamVars, xrefVars, changeVars, modeVars, revision, writer>>

ASSUME DocsAssumption ==
    /\ MaxSections \in Nat
    /\ Modes \subseteq {"paranoid", "easy"}
    /\ NoTrailer \notin Trailer
    /\ \A d \in Docs : WellFormed(d.file) /\ d.linearized \in BOOLEAN

-----------------------------------------------------------------------------
(* Reading *)

(* utils::isLatestRevision *)
IsLatest == revision = Len(revisions) - 1

(* XRefWriter::getTrailerDict *)
TrailerDict == IF IsLatest /\ currTrailer # NoTrailer THEN currTrailer ELSE trailerDict

(* XRef::fetch *)
XRefFetch(r) == Lookup(file, entries, r)

(* CXref::fetch: a pending value hides the one in the file. *)
CXrefFetch(r) == IF changedStorage[r] # NoValue THEN changedStorage[r] ELSE XRefFetch(r)

(* A fault: pending values are seen from every revision. *)
FetchPendingAlways(r) == CXrefFetch(r)

(* XRefWriter::fetch.  Damaged stands for the exception of CXref::fetch;   *)
(* XRef::fetch gives the null object with the error code set instead.      *)
Fetch(r) == IF IsLatest THEN CXrefFetch(r) ELSE XRefFetch(r)

(* XRef::knowsRef and CXref::knowsRef *)
XRefKnowsRef(r) ==
    IF entries[r.num].type = "n" /\ entries[r.num].gen = r.gen THEN "initialized" ELSE "unused"
KnowsRef(r) == IF newStorage[r] # "unused" THEN newStorage[r] ELSE XRefKnowsRef(r)

-----------------------------------------------------------------------------
(* Opening *)

(* XRefWriter::collectRevisions follows Prev from the newest section p. *)
IsHistory(f, p, s) ==
    /\ s[Len(s)] = p
    /\ f[s[1]].trailer.prev = 0
    /\ \A i \in 1..(Len(s) - 1) : f[s[i + 1]].trailer.prev = s[i]

Histories(f, p) ==
    {s \in UNION {[1..k -> 1..p] : k \in 1..p} : IsHistory(f, p, s)}

NothingChanged == [r \in Refs |-> NoValue]
NothingNew == [r \in Refs |-> "unused"]

OpenFile ==
    /\ \E d \in Docs :
          /\ file = d.file
          /\ linearized = d.linearized
          /\ storePos = Len(d.file)
          /\ revisions \in IF d.linearized THEN {<<Len(d.file)>>}
                                           ELSE Histories(d.file, Len(d.file))
    /\ revision = Len(revisions) - 1
    /\ lastXRefPos = storePos
    /\ entries = LoadEntries(file, lastXRefPos)
    /\ maxObj = LoadMaxObj(entries)
    /\ trailerDict = file[lastXRefPos].trailer
    /\ encrypted = trailerDict.encrypt
    /\ needsCredentials = encrypted
    /\ changedStorage = NothingChanged
    /\ newStorage = NothingNew
    /\ currTrailer = NoTrailer
    /\ readOnly \in BOOLEAN
    /\ writer = NewWriter

Init == OpenFile /\ mode = "paranoid"

(* A fault: the new position of the table is not kept. *)
ReopenForgetsPosition(f, off, dropChanges) ==
    /\ IF dropChanges
       THEN /\ changedStorage' = NothingChanged
            /\ newStorage' = NothingNew
            /\ currTrailer' = NoTrailer
       ELSE UNCHANGED changeVars
    /\ entries' = LoadEntries(f, off)
    /\ maxObj' = LoadMaxObj(entries')
    /\ trailerDict' = f[off].trailer
    /\ encrypted' = f[off].trailer.encrypt
    /\ needsCredentials' = encrypted'
    /\ UNCHANGED lastXRefPos

(* CXref::reopen: all that depends on the revision is parsed again from    *)
(* section off of f.  checkEncryptedContent asks the virtual               *)
(* getTrailerDict, which still goes by the revision that is being left.    *)
Reopen(f, off, dropChanges) ==
    /\ IF dropChanges
       THEN /\ changedStorage' = NothingChanged
            /\ newStorage' = NothingNew
            /\ currTrailer' = NoTrailer
       ELSE UNCHANGED changeVars
    /\ entries' = LoadEntries(f, off)
    /\ maxObj' = LoadMaxObj(entries')
    /\ trailerDict' = f[off].trailer
    /\ lastXRefPos' = off
    /\ encrypted' = IF IsLatest /\ currTrailer' # NoTrailer
                    THEN currTrailer'.encrypt ELSE f[off].trailer.encrypt
    /\ needsCredentials' = encrypted'

(* CXref::setCredentials with credentials the security handler accepts. *)
SetCredentials ==
    /\ needsCredentials
    /\ needsCredentials' = FALSE
    /\ UNCHANGED <<streamVars, entries, maxObj, trailerDict, lastXRefPos, encrypted,
                   changeVars, modeVars, revision, writer>>

SetMode(m) ==
    /\ mode' = m
    /\ UNCHANGED <<streamVars, xrefVars, changeVars, readOnly, linearized, revision, writer>>

(* XRefWriter::changeRevision keeps the pending changes. *)
ChangeRevision(n) ==
    /\ ~needsCredentials
    /\ n # revision
    /\ ~linearized
    /\ n < Len(revisions)
    /\ Reopen(file, revisions[n + 1], FALSE)
    /\ revision' = n
    /\ UNCHANGED <<streamVars, modeVars, writer>>

-----------------------------------------------------------------------------
(* Changing *)

(* The refusals that the methods of XRefWriter that change content share. *)
ChangesAllowed == ~needsCredentials /\ IsLatest /\ ~readOnly

(* A free entry that can be used again: there is one in use behind it, its *)
(* generation is not exhausted and it is not handed out already.           *)
Reusable ==
    {i \in Nums :
        /\ entries[i].type # "n"
        /\ \E j \in Used(entries) : j > i
        /\ entries[i].gen < MaxGen
        /\ newStorage[[num |-> i, gen |-> entries[i].gen]] = "unused"}

(* A fault: off by one, the last number in use is taken for a new one. *)
FreshFromLast ==
    {i \in Nums :
        /\ \A j \in Used(entries) : j <= i
        /\ newStorage[[num |-> i, gen |-> 0]] = "unused"}

(* Otherwise a number behind all that are in use, with generation 0. *)
Fresh ==
    {i \in Nums :
        /\ \A j \in Used(entries) : j < i
        /\ newStorage[[num |-> i, gen |-> 0]] = "unused"}

Lowest(S) == CHOOSE i \in S : \A j \in S : i <= j

NextRef ==
    IF Reusable # {}
    THEN [num |-> Lowest(Reusable), gen |-> entries[Lowest(Reusable)].gen]
    ELSE [num |-> Lowest(Fresh), gen |-> 0]

(* CXref::reserveRef throws IndirectObjectsExhausted when both are empty. *)
ReserveRef ==
    /\ ChangesAllowed
    /\ Reusable # {} \/ Fresh # {}
    /\ newStorage' = [newStorage EXCEPT ![NextRef] = "reserved"]
    /\ UNCHANGED <<streamVars, xrefVars, changedStorage, currTrailer, modeVars, revision, writer>>

(* The object createObject returns is the caller's, not yet the store's. *)
CreateObject == ~encrypted /\ ReserveRef

(* One step of dereferencing. *)
Direct(v) == IF v \in Links THEN Fetch(LinkTarget) ELSE v

(* A fault: every value is as good as another. *)
TypeUnchecked(old, new) == TRUE

TypeSafe(old, new) ==
    /\ Damaged \notin {old, Direct(old)}
    /\ \/ TypeOf(Direct(old)) = TypeOf(Direct(new))
       \/ old \in Links /\ Direct(old) = Null

ParanoidCheck(r, v) ==
    mode = "paranoid" =>
        /\ KnowsRef(r) # "unused"
        /\ KnowsRef(r) = "initialized" => TypeSafe(Fetch(r), v)

(* changeObject is given direct values, and of types IProperty knows. *)
DirectValue == Dicts \cup Plains \cup {Null}

ChangeObject(r, v) ==
    /\ ChangesAllowed
    /\ ~encrypted
    /\ ParanoidCheck(r, v)
    /\ changedStorage' = [changedStorage EXCEPT ![r] = v]
    /\ newStorage' = IF newStorage[r] # "unused"
                     THEN [newStorage EXCEPT ![r] = "initialized"] ELSE newStorage
    /\ UNCHANGED <<streamVars, xrefVars, currTrailer, modeVars, revision, writer>>

(* changeTrailer of an entry that must lead to a dictionary (Root, Info).  *)
(* The first change copies the trailer; the copy shares its Dict with      *)
(* trailerDict, which nothing reads until the next reopen replaces it.     *)
ChangeTrailer(r) ==
    /\ ChangesAllowed
    /\ ~encrypted
    /\ mode = "paranoid" => TypeOf(Fetch(r)) = "dict"
    /\ currTrailer' = [TrailerDict EXCEPT !.root = r]
    /\ UNCHANGED <<streamVars, xrefVars, changedStorage, newStorage, modeVars, revision, writer>>

-----------------------------------------------------------------------------
(* Saving *)

(* writeTrailer changes the trailer object in memory as well. *)
SetTrailer(t) ==
    IF IsLatest /\ currTrailer # NoTrailer
    THEN currTrailer' = t /\ UNCHANGED trailerDict
    ELSE trailerDict' = t /\ UNCHANGED currTrailer

(* What a save writes behind the last committed section. *)
NewSection ==
    WriteSection(writer, changedStorage, TrailerDict, lastXRefPos, maxObj + 1, storePos + 1)

(* Faults: the section is put behind an uncommitted one, and the objects   *)
(* are written where their old values are as well.                         *)
SavedBehindAll == Append(file, NewSection)
SavedInPlace ==
    Append([SubSeq(file, 1, storePos) EXCEPT
               ![lastXRefPos].objs = [r \in Refs |-> IF changedStorage[r] # NoValue
                                                     THEN changedStorage[r] ELSE @[r]]],
           NewSection)
SavedFile == Append(SubSeq(file, 1, storePos), NewSection)

(* saveChanges(true): the section is committed and becomes a revision. *)
SaveNewRevision ==
    /\ storePos < MaxSections
    /\ ~needsCredentials
    /\ Registered(changedStorage) # {}
    /\ file' = SavedFile
    /\ storePos' = storePos + 1
    /\ Reopen(SavedFile, storePos + 1, TRUE)
    /\ revisions' = Append(revisions, storePos + 1)
    /\ revision' = Len(revisions)
    /\ writer' = Reset(writer)
    /\ UNCHANGED modeVars

(* saveChanges(false): the changes stay pending and the next save writes   *)
(* over the section again.                                                 *)
SaveChanges ==
    /\ storePos < MaxSections
    /\ ~needsCredentials
    /\ Registered(changedStorage) # {}
    /\ file' = SavedFile
    /\ SetTrailer(NewSection.trailer)
    /\ writer' = Reset(writer)
    /\ UNCHANGED <<storePos, revisions, entries, maxObj, lastXRefPos, encrypted,
                   needsCredentials, changedStorage, newStorage, modeVars, revision>>

(* saveToNew: a copy of the file with what saveChanges would append.  When *)
(* there is nothing to append writeTrailer returns at once.                *)
SaveToNew ==
    /\ ~needsCredentials
    /\ ~encrypted
    /\ SectionRefs(writer, changedStorage) # {}
    /\ SetTrailer(NewSection.trailer)
    /\ writer' = Reset(writer)
    /\ UNCHANGED <<streamVars, entries, maxObj, lastXRefPos, encrypted, needsCredentials,
                   changedStorage, newStorage, modeVars, revision>>

(* collectReachableRefs: the root and what it leads to.  Which references  *)
(* a dictionary holds is not told apart, so any objects may be reached.    *)
ReachableRefs ==
    {S \in SUBSET ({TrailerDict.root, LinkTarget} \cup {r \in Refs : Fetch(r) # Null}) :
        /\ TrailerDict.root \in S
        /\ (\E r \in S : Fetch(r) \in Links) => LinkTarget \in S}

(* fillObjectList: the value saveDecoded writes for a reachable object. *)
DecodedValue(r) == CXrefFetch(r)

Unreadable(S) == \E r \in S : Damaged \in {Fetch(r), XRefFetch(r)}
Unwritable(S) == {r \in S : DecodedValue(r) \in Cmds}

(* saveDecoded writes the reachable objects to another file.  It tells the *)
(* writer to ignore filters first and to use them again last: an exception *)
(* in between leaves the flag set, and the offset table with the objects   *)
(* written so far when it comes from the object being written.             *)
SaveDecoded ==
    /\ ~needsCredentials
    /\ ~encrypted
    /\ \E S \in ReachableRefs :
          IF Unreadable(S)
          THEN /\ writer' = [writer EXCEPT !.ignoreStream = TRUE]
               /\ UNCHANGED <<trailerDict, currTrailer>>
          ELSE IF Unwritable(S) # {}
          THEN /\ \E b \in Unwritable(S), done \in SUBSET (S \ Unwritable(S)) :
                     writer' = [offTable |-> writer.offTable \cup done \cup {b},
                                ignoreStream |-> TRUE]
               /\ UNCHANGED <<trailerDict, currTrailer>>
          ELSE /\ SetTrailer(WrittenTrailer(TrailerDict, writer.offTable \cup S, 0, 0))
               /\ writer' = NewWriter
    /\ UNCHANGED <<streamVars, entries, maxObj, lastXRefPos, encrypted, needsCredentials,
                   changedStorage, newStorage, modeVars, revision>>

-----------------------------------------------------------------------------
Next ==
    \/ SetCredentials
    \/ \E m \in Modes : SetMode(m)
    \/ \E n \in 0..MaxSections : ChangeRevision(n)
    \/ ReserveRef
    \/ CreateObject
    \/ \E r \in Refs, v \in DirectValue : ChangeObject(r, v)
    \/ \E r \in Refs : ChangeTrailer(r)
    \/ SaveNewRevision
    \/ SaveChanges
    \/ SaveToNew
    \/ SaveDecoded

Spec == Init /\ [][Next]_vars

-----------------------------------------------------------------------------
(* Properties *)

(* Every variable has its type; storePos and the revisions are sections of *)
(* the file, and at most one uncommitted section follows storePos.         *)
TypeOK ==
    /\ file \in Seq(Section)
    /\ storePos \in 1..Len(file) /\ Len(file) <= storePos + 1
    /\ revisions \in Seq(1..storePos) /\ Len(revisions) > 0
    /\ revision \in 0..(Len(revisions) - 1)
    /\ entries \in [Nums -> Entry] /\ maxObj \in 0..MaxNum
    /\ trailerDict \in Trailer /\ currTrailer \in Trailer \cup {NoTrailer}
    /\ lastXRefPos \in 1..storePos
    /\ encrypted \in BOOLEAN /\ needsCredentials \in BOOLEAN
    /\ changedStorage \in [Refs -> Value \cup {NoValue}]
    /\ newStorage \in [Refs -> {"unused", "reserved", "initialized"}]
    /\ mode \in {"paranoid", "easy"}
    /\ readOnly \in BOOLEAN /\ linearized \in BOOLEAN
    /\ writer \in Writer

(* The parsed table is the one of the current revision, whatever was saved *)
(* or visited since: saveChanges and changeRevision reopen at the right    *)
(* section and nothing else touches what XRef parsed.                      *)
TableOfRevision ==
    /\ lastXRefPos = revisions[revision + 1]
    /\ entries = LoadEntries(file, lastXRefPos)
    /\ maxObj = LoadMaxObj(entries)

(* No call ever writes into what is committed (storePos only moves         *)
(* forward and every write starts behind it).                              *)
CommittedKept ==
    [][/\ storePos' >= storePos
       /\ SubSeq(file', 1, storePos) = SubSeq(file, 1, storePos)]_vars

(* A revision that was listed once stays at its number and shows the same  *)
(* document for ever: same root, same value of every reference, when the   *)
(* file is parsed from its section.                                        *)
RevisionsKept ==
    [][\A i \in DOMAIN revisions :
          /\ i \in DOMAIN revisions'
          /\ revisions'[i] = revisions[i]
          /\ Content(file', revisions'[i]) = Content(file, revisions[i])]_vars

(* The references reserveRef has handed out, and not yet forgotten, have   *)
(* pairwise different numbers, and none of them is the number of an object *)
(* of the newest revision.                                                 *)
NewRefs == {r \in Refs : newStorage[r] # "unused"}
NewRefsFresh ==
    \A r \in NewRefs :
        /\ LoadEntries(file, revisions[Len(revisions)])[r.num].type # "n"
        /\ \A s \in NewRefs : s.num = r.num => s = r

(* The Size of every section a reader may start from is above all the      *)
(* numbers in use there; Size comes from two maxima, one of the changed    *)
(* objects and one of the parsed table.                                    *)
SizeCoversAll ==
    \A p \in {revisions[i] : i \in DOMAIN revisions} \cup {Len(file)} :
        LoadMaxObj(LoadEntries(file, p)) < file[p].trailer.size

(* What a user of XRefWriter sees. *)
Shown == [root |-> TrailerDict.root, objs |-> [r \in Refs |-> Fetch(r)]]

(* An older revision shows what is in the file and nothing of what is      *)
(* pending; so does the newest one when nothing is pending.                *)
RevisionShown ==
    ~IsLatest \/ (Registered(changedStorage) = {} /\ currTrailer = NoTrailer)
        => Shown = Content(file, revisions[revision + 1])

(* Saving a new revision changes nothing of what is seen, though the       *)
(* pending changes are dropped and everything is parsed again.             *)
NewRevisionShowsSame ==
    [][IsLatest /\ Len(revisions') > Len(revisions) => Shown' = Shown]_vars

-----------------------------------------------------------------------------
(* What comments in the code say, and the code does not do *)

(* checkEncryptedContent: "Checks whether document is encrypted and if so, *)
(* sets needs_credentials and encrypted fields to true."                   *)
EncryptionSeen == encrypted = file[lastXRefPos].trailer.encrypt

=============================================================================
