---------------------------- MODULE CPdfDocument ----------------------------
(***************************************************************************)
(* CPdf over its XRefWriter: the document as the program uses it.  CPdf    *)
(* adds the refusals that XRefWriter leaves to its caller, the mapping     *)
(* from references to the one IProperty that stands for each object, and   *)
(* the flag that says whether there is anything to save.                   *)
(*                                                                         *)
(* Page tree, pages and copies between documents are not here.             *)
(***************************************************************************)
EXTENDS XRefWriter

CONSTANTS OpenModes  \* the modes getInstance is called with

VARIABLES
    pdfMode,  \* CPdf::mode: "ReadOnly", "ReadWrite" or "Advanced"
    indMap,   \* the value of the property mapped to each reference
    change    \* isChanged

pdfVars == <<vars, pdfMode, indMap, change>>

ASSUME OpenModesAssumption == OpenModes \subseteq {"ReadOnly", "ReadWrite", "Advanced"}

NoProperties == [r \in Refs |-> NoValue]

(* A fault: the null object gets a mapping too. *)
MappedAlways(m, r, v) == [m EXCEPT ![r] = v]

(* getIndirectProperty creates no mapping for the null object.  A fetch    *)
(* that throws, and a value no IProperty exists for, leave none either.    *)
Mapped(m, r, v) == IF v \in Dicts \cup Plains \cup Links THEN [m EXCEPT ![r] = v] ELSE m

RootProperty == Mapped(NoProperties, TrailerDict.root, Fetch(TrailerDict.root))

(* CPdf::getMode is ReadOnly in an older revision. *)
GetMode == IF IsLatest THEN pdfMode ELSE "ReadOnly"

-----------------------------------------------------------------------------
(* getInstance: opening fails when the root cannot be looked at or is not  *)
(* a dictionary.                                                           *)
PdfInit ==
    /\ OpenFile
    /\ \E m \in OpenModes :
          /\ pdfMode = IF linearized THEN "ReadOnly" ELSE m
          /\ mode = IF m = "Advanced" THEN "easy" ELSE "paranoid"
    /\ readOnly = (pdfMode = "ReadOnly")
    /\ ~needsCredentials => TypeOf(Fetch(TrailerDict.root)) = "dict"
    /\ indMap = IF needsCredentials THEN NoProperties ELSE RootProperty
    /\ change = FALSE

(* A fault: the mapping of the revision that was left is kept. *)
InitKeepsMapping == UNCHANGED indMap

(* initRevisionSpecific, for the state after the step.  Without            *)
(* credentials it returns before it cleans up.  It throws when the root is *)
(* not a dictionary; by then the mapping is that of the new revision.      *)
InitRevisionSpecific ==
    indMap' = IF needsCredentials' THEN indMap ELSE RootProperty'

GetIndirectProperty(r) ==
    /\ ~needsCredentials
    /\ indMap[r] = NoValue
    /\ indMap' = Mapped(indMap, r, Fetch(r))
    /\ UNCHANGED <<vars, pdfMode, change>>

(* A property the mapping holds is changed by one of its setters, which    *)
(* asks canChange, takes the new value and dispatches the change, which    *)
(* ends in changeIndirectProperty.  canChange does not know of encryption, *)
(* so there the value has changed when the exception comes.                *)
CanChange == ~needsCredentials /\ ~linearized /\ GetMode # "ReadOnly"

SetProperty(r, v) ==
    /\ CanChange
    /\ indMap[r] # NoValue /\ TypeOf(v) = TypeOf(indMap[r])
    /\ indMap' = [indMap EXCEPT ![r] = v]
    /\ IF encrypted \/ ~ParanoidCheck(r, v)
       THEN UNCHANGED <<vars, change>>
       ELSE ChangeObject(r, v) /\ change' = TRUE
    /\ UNCHANGED pdfMode

(* A fault: the mapping to the old property stays. *)
ChangeKeepsMapping(r, v) ==
    /\ GetMode # "ReadOnly"
    /\ indMap[r] # NoValue
    /\ ChangeObject(r, v)
    /\ change' = TRUE
    /\ UNCHANGED <<pdfMode, indMap>>

(* changeIndirectProperty with another property for the same reference:    *)
(* the mapping is dropped and made anew by the next getIndirectProperty.   *)
ChangeIndirectProperty(r, v) ==
    /\ GetMode # "ReadOnly"
    /\ indMap[r] # NoValue
    /\ ChangeObject(r, v)
    /\ indMap' = [indMap EXCEPT ![r] = NoValue]
    /\ change' = TRUE
    /\ UNCHANGED pdfMode

(* A fault: the new object does not set the change flag. *)
AddWithoutFlag(v) ==
    /\ GetMode # "ReadOnly"
    /\ ChangesAllowed
    /\ ~encrypted
    /\ Reusable # {} \/ Fresh # {}
    /\ newStorage' = [newStorage EXCEPT ![NextRef] = "initialized"]
    /\ changedStorage' = [changedStorage EXCEPT ![NextRef] = v]
    /\ UNCHANGED <<streamVars, xrefVars, currTrailer, modeVars, revision, writer,
                   pdfMode, indMap, change>>

(* addIndirectProperty with a property that is of no other document:       *)
(* reserveRef and then changeObject, which takes any value for a reserved  *)
(* reference and refuses an encrypted document.                            *)
AddIndirectProperty(v) ==
    /\ GetMode # "ReadOnly"
    /\ ChangesAllowed
    /\ Reusable # {} \/ Fresh # {}
    /\ IF encrypted
       THEN /\ newStorage' = [newStorage EXCEPT ![NextRef] = "reserved"]
            /\ UNCHANGED <<changedStorage, change>>
       ELSE /\ newStorage' = [newStorage EXCEPT ![NextRef] = "initialized"]
            /\ changedStorage' = [changedStorage EXCEPT ![NextRef] = v]
            /\ change' = TRUE
    /\ UNCHANGED <<streamVars, xrefVars, currTrailer, modeVars, revision, writer, pdfMode, indMap>>

(* CPdf::changeTrailer only delegates. *)
ChangeTrailerEntry(r) ==
    /\ ChangeTrailer(r)
    /\ UNCHANGED <<pdfMode, indMap, change>>

(* A fault: save does not look at the revision. *)
SaveAnywhere(newRevision) ==
    /\ ~linearized
    /\ pdfMode # "ReadOnly"
    /\ IF Registered(changedStorage) = {}
       THEN ~needsCredentials /\ UNCHANGED vars
       ELSE IF newRevision THEN SaveNewRevision ELSE SaveChanges
    /\ change' = FALSE
    /\ UNCHANGED <<pdfMode, indMap>>

(* CPdf::save.  XRefWriter does nothing when no object has changed. *)
Save(newRevision) ==
    /\ ~linearized
    /\ GetMode # "ReadOnly"
    /\ IsLatest
    /\ IF Registered(changedStorage) = {}
       THEN ~needsCredentials /\ UNCHANGED vars
       ELSE IF newRevision THEN SaveNewRevision ELSE SaveChanges
    /\ change' = FALSE
    /\ UNCHANGED <<pdfMode, indMap>>

PdfChangeRevision(n) ==
    /\ ChangeRevision(n)
    /\ InitRevisionSpecific
    /\ UNCHANGED <<pdfMode, change>>

PdfSetCredentials ==
    /\ SetCredentials
    /\ InitRevisionSpecific
    /\ UNCHANGED <<pdfMode, change>>

(* saveChangesToNew and saveDecoded only delegate. *)
SaveElsewhere ==
    /\ SaveToNew \/ SaveDecoded
    /\ UNCHANGED <<pdfMode, indMap, change>>

PdfNext ==
    \/ \E r \in Refs : GetIndirectProperty(r)
    \/ \E r \in Refs, v \in DirectValue : SetProperty(r, v)
    \/ \E r \in Refs, v \in DirectValue : ChangeIndirectProperty(r, v)
    \/ \E v \in DirectValue : AddIndirectProperty(v)
    \/ \E r \in Refs : ChangeTrailerEntry(r)
    \/ \E new \in BOOLEAN : Save(new)
    \/ \E n \in 0..MaxSections : PdfChangeRevision(n)
    \/ PdfSetCredentials
    \/ SaveElsewhere

PdfSpec == PdfInit /\ [][PdfNext]_pdfVars

-----------------------------------------------------------------------------
(* Properties *)

(* CPdf keeps its mode, a value for each mapped reference and the flag. *)
PdfTypeOK ==
    /\ TypeOK
    /\ pdfMode \in {"ReadOnly", "ReadWrite", "Advanced"}
    /\ indMap \in [Refs -> Dicts \cup Plains \cup Links \cup {NoValue}]
    /\ change \in BOOLEAN

(* The document being worked on: the newest revision with what is pending. *)
Working ==
    LET last == revisions[Len(revisions)]
        saved == LoadEntries(file, last) IN
    [root |-> IF currTrailer # NoTrailer THEN currTrailer.root ELSE file[last].trailer.root,
     objs |-> [r \in Refs |-> IF changedStorage[r] # NoValue
                              THEN changedStorage[r] ELSE Lookup(file, saved, r)]]

(* A saved document is the file parsed from a section, and what is found   *)
(* in the file is the document of its last section.                        *)
Store == INSTANCE VersionedStore
    WITH StoreRefs <- Refs,
         StoreValues <- Value \cup {Damaged},
         history <- [i \in DOMAIN revisions |-> Content(file, revisions[i])],
         working <- Working,
         durable <- Content(file, Len(file)),
         view <- revision + 1

(* CPdf is a store of versions: only the newest revision is edited, save   *)
(* makes durable exactly the document being worked on, a new revision is   *)
(* that document and the older ones stay, and changing the revision back   *)
(* and forth loses nothing that is pending.                                *)
ImplementsStore == Store!StoreSpec

(* A property that getIndirectProperty returned from its mapping has the   *)
(* value XRefWriter gives for its reference, however the object was        *)
(* changed, saved or left for another revision since.  (A setter of an     *)
(* encrypted document breaks this, see SetProperty.)                       *)
PropertyShowsObject ==
    \A r \in Refs : indMap[r] # NoValue /\ ~encrypted => indMap[r] = Fetch(r)

(* The revisions in memory are those collectRevisions would find when the  *)
(* file is opened again at its newest revision: no save makes a branch.    *)
ReopenFindsRevisions ==
    ~linearized => IsHistory(file, revisions[Len(revisions)], revisions)

(* Once isChanged says no, the file has all the changes made to objects.   *)
(* It may say no while the trailer has changed: changeTrailer does not set *)
(* the flag.                                                               *)
UnchangedIsSaved ==
    ~change => \A r \in Refs : Content(file, Len(file)).objs[r] = Working.objs[r]

(* In the mode that checks types the root of the document stays a          *)
(* dictionary, whatever is changed, added, saved or looked at.             *)
RootStaysDict ==
    pdfMode # "Advanced" /\ IsLatest /\ ~needsCredentials
        => TypeOf(Fetch(TrailerDict.root)) = "dict"

-----------------------------------------------------------------------------
(* What comments in the code say, and the code does not do *)

(* The assertion in every setter, "Should not happen.. Condition must be   *)
(* included in CPdf::canChange()": what canChange allows is not refused.   *)
SetterNotRefused ==
    \A r \in Refs, v \in DirectValue :
        CanChange /\ indMap[r] # NoValue /\ TypeOf(v) = TypeOf(indMap[r])
            => ~encrypted /\ ParanoidCheck(r, v)

=============================================================================
