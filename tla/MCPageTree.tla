----------------------------- MODULE MCPageTree -----------------------------
(***************************************************************************)
(* PageTree with the trees to start from.                                  *)
(***************************************************************************)
EXTENDS PageTree, TLC

CONSTANTS r, x, y, p1, p2, p3

(* A tree from its Kids arrays, with right Count and Parent entries. *)
RightTree(k) ==
    [root |-> r,
     kids |-> k,
     parent |-> [n \in Nodes |-> IF \E m \in Inner : n \in ToSet(k[m])
                                 THEN CHOOSE m \in Inner : n \in ToSet(k[m])
                                 ELSE NoNode],
     count |-> [n \in Inner |-> TrueCount(k)[n]]]

(* Pages on two levels; a flat document and nodes to add; a chain. *)
TwoLevels == r :> <<x, p3>> @@ x :> <<p1, p2>> @@ y :> <<>>
Flat == r :> <<p1, p2, p3>> @@ x :> <<>> @@ y :> <<>>
Chain == r :> <<x>> @@ x :> <<p1, y>> @@ y :> <<p2, p3>>

(* Leaves, and intermediate nodes but the root, may change places in all   *)
(* of this, which makes them symmetric.                                    *)
Renamings ==
    {f @@ g @@ (r :> r) : f \in Permutations(Leaves), g \in Permutations(Inters)}
NameSymmetry ==
    {f @@ g : f \in Permutations(Leaves), g \in Permutations(Inters)}

RenamedArray(f, s) == [i \in DOMAIN s |-> f[s[i]]]
Renamed(f, k) == [n \in Inner |-> RenamedArray(f, k[CHOOSE m \in Inner : f[m] = n])]

EditDocs == {RightTree(Renamed(f, k)) : f \in Renamings, k \in {TwoLevels, Flat, Chain}}

(* What the theorems ask of the documents that are opened. *)
ASSUME EditDocsAssumption == \A d \in EditDocs : RightEntries(d) /\ RootsOnTop(d.parent)

NewArrays == {RenamedArray(f, s) : f \in Renamings, s \in {<<p2, p1>>, <<y, p3>>}}

(* A document whose Count entries are wrong. *)
WrongCount == [RightTree(TwoLevels) EXCEPT !.count = [n \in Inner |-> 2]]
WrongDocs == {WrongCount}

=============================================================================
