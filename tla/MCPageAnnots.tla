---------------------------- MODULE MCPageAnnots -----------------------------
(***************************************************************************)
(* PageAnnots with what the arrays of a page may hold.                     *)
(***************************************************************************)
EXTENDS PageAnnots

CONSTANTS d1, d2, x1

(* Two annotations, one twice, one that is no indirect object, and one     *)
(* behind an element that is no annotation.                                *)
SomeArrays == {<<d1, d2>>, <<d1, d1>>, <<x1>>, <<Odd, d1>>}
=============================================================================
