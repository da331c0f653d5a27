--------------------------- MODULE MCDocumentCopy ---------------------------
(***************************************************************************)
(* DocumentCopy with documents to copy from, and bounds on what the copies *)
(* leave.                                                                  *)
(***************************************************************************)
EXTENDS DocumentCopy, TLC

CONSTANTS r1, r2, r3, MaxOwn, MaxLost

Dict(refs) == [refs |-> refs, type |-> "dict"]

(* A cycle of two objects that both refer to a third. *)
Cycle == r1 :> Dict(<<r2, r3>>) @@ r2 :> Dict(<<r3, r1>>)
         @@ r3 :> [refs |-> <<>>, type |-> "plain"]

(* An object that refers to itself, to one that does not parse and to one  *)
(* that is not there.                                                      *)
Broken == r1 :> Dict(<<r1, r3, r2>>) @@ r2 :> Damaged @@ r3 :> NullObject

TwoFiles == {Cycle, Broken}
LooseDict == {Dict(<<r1>>)}

(* Bounds on the objects that are no copies and the copies edited, and on  *)
(* the numbers new revisions have forgotten.                               *)
FewOthers ==
    Cardinality({n \in Nums \ {1} : Shown(n) # Nothing /\ Shown(n).of \in {Own, Edited}}) <= MaxOwn
FewLost == Cardinality(lost) <= MaxLost

=============================================================================
