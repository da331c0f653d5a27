---------------------------- MODULE MCXRefWriter ----------------------------
(***************************************************************************)
(* XRefWriter with the files to open and a bound on what is pending.       *)
(***************************************************************************)
EXTENDS XRefWriter, MCDocuments

CONSTANTS MaxChanged, MaxNew

HistoryDocs == {TwoRevisions, EncryptedDoc}
ReferenceDocs == {FreedDoc, ExhaustedDoc}
AllDocs == HistoryDocs \cup ReferenceDocs \cup {LinearizedDoc, DamagedDoc, KeywordDoc}
KeywordDocs == {KeywordDoc}
OnceEncryptedDocs == {OnceEncryptedDoc}

(* Bounds on the changed objects and the references handed out. *)
FewChanges ==
    /\ Cardinality(Registered(changedStorage)) <= MaxChanged
    /\ Cardinality(NewRefs) <= MaxNew

(* The file that is open was one of these. *)
Began(docs) ==
    \E d \in docs : Len(d.file) <= Len(file) /\ SubSeq(file, 1, Len(d.file)) = d.file

(* More references are handed out in the documents with numbers to be used *)
(* again, more sections are written behind those with a history.           *)
NewWhereReused == Cardinality(NewRefs) <= 1 \/ Began(ReferenceDocs)
SavesWhereHistory == Len(file') = MaxSections => Began(HistoryDocs)

(* Where there are many states, two values are given. *)
FewValues ==
    Began({TwoRevisions, KeywordDoc}) => \A r \in Refs : changedStorage'[r] \notin {d1, Null}

=============================================================================
