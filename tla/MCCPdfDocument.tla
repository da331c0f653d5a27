--------------------------- MODULE MCCPdfDocument ---------------------------
(***************************************************************************)
(* CPdfDocument with the files to open and a bound on what is pending.     *)
(***************************************************************************)
EXTENDS CPdfDocument, MCDocuments

CONSTANTS MaxChanged, MaxNew

MainDocs == {LinearizedDoc, LinkDoc, BadRootDoc}
RevisionDocs == {TwoRevisions, EncryptedDoc}
AllDocs == MainDocs \cup RevisionDocs \cup {RootOnly}
EncryptedDocs == {EncryptedDoc}
RootOnlyDocs == {RootOnly}

(* Bounds on the changed objects and the references handed out. *)
FewChanges ==
    /\ Cardinality(Registered(changedStorage)) <= MaxChanged
    /\ Cardinality(NewRefs) <= MaxNew

(* The document with the root alone is the one opened in the advanced      *)
(* mode.                                                                   *)
IsRootOnly == file[1].objs = RootOnly.file[1].objs /\ ~file[1].trailer.encrypt
AdvancedOnRootOnly == (mode = "easy") = IsRootOnly

(* The advanced mode accepts so much that what it is told of is kept to    *)
(* two numbers, the trailer to first generations and to before the first   *)
(* save, and Null is not given.                                            *)
FewInAdvanced ==
    mode = "easy" =>
        /\ \A r \in Registered(changedStorage') \cup NewRefs' : r.num <= 2
        /\ \A r \in Refs : changedStorage'[r] # Null
        /\ TrailerDict.root'.num <= 2 /\ TrailerDict.root'.gen = 0
        /\ TrailerDict.root' # TrailerDict.root => Len(file) = 1 /\ change'

(* The second dictionary is a new value in LinkDoc only, where without it  *)
(* no object could change, and the trailer changes in the others.          *)
IsLinkDoc == file[1].objs = LinkDoc.file[1].objs
FewValues ==
    IF IsLinkDoc THEN currTrailer' = NoTrailer
    ELSE \A r \in Refs : changedStorage'[r] # d2

(* More sections are written behind the documents with a history, those    *)
(* that began as one of RevisionDocs.                                      *)
SavesWhereHistory ==
    Len(file') = MaxSections
        => \E d \in RevisionDocs : SubSeq(file, 1, Len(d.file)) = d.file

=============================================================================
