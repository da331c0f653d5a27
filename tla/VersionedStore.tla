--------------------------- MODULE VersionedStore ---------------------------
(***************************************************************************)
(* What CPdf promises the user of a document with revisions, free of       *)
(* files, tables and pending changes.                                      *)
(*                                                                         *)
(* There is a history of documents, one for each revision, and the         *)
(* document being worked on, which starts as the newest one.  The user     *)
(* edits it one object at a time while looking at the newest revision,     *)
(* saves it over the last save (checkpoint) or as a new revision (commit), *)
(* and looks at any revision.  What somebody who opens the file finds is   *)
(* what was saved last.                                                    *)
(***************************************************************************)
EXTENDS Integers, Sequences

CONSTANTS StoreRefs, StoreValues

Document == [root : StoreRefs, objs : [StoreRefs -> StoreValues]]

VARIABLES
    history,  \* the document of each revision, oldest first
    working,  \* the document the user edits
    durable,  \* the document found in the file
    view      \* the revision the user looks at

storeVars == <<history, working, durable, view>>

Newest(h) == h[Len(h)]

StoreInit ==
    /\ history \in Seq(Document) /\ Len(history) > 0
    /\ working = Newest(history)
    /\ durable = Newest(history)
    /\ view = Len(history)

(* The documents differ in the root, or in one object. *)
OneEdit(old, new) ==
    \/ new.root \in StoreRefs /\ new.objs = old.objs
    \/ /\ new.root = old.root
       /\ DOMAIN new.objs = StoreRefs
       /\ \E r \in StoreRefs :
             /\ new.objs[r] \in StoreValues
             /\ \A s \in StoreRefs \ {r} : new.objs[s] = old.objs[s]

Look ==
    /\ view' \in DOMAIN history
    /\ UNCHANGED <<working, durable, history>>

Edit ==
    /\ view = Len(history)
    /\ OneEdit(working, working')
    /\ UNCHANGED <<view, durable, history>>

Checkpoint ==
    /\ view = Len(history)
    /\ durable' = working
    /\ UNCHANGED <<view, working, history>>

Commit ==
    /\ view = Len(history)
    /\ view' = view + 1
    /\ history' = Append(history, working)
    /\ durable' = working
    /\ UNCHANGED working

StoreNext == Edit \/ Look \/ Checkpoint \/ Commit

StoreSpec == StoreInit /\ [][StoreNext]_storeVars

=============================================================================
