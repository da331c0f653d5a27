---------------------------- MODULE PageSequence ----------------------------
(***************************************************************************)
(* What CPdf promises about the pages of a document, free of the tree they *)
(* are kept in and of its caches.                                          *)
(*                                                                         *)
(* A document is a sequence of different pages.  The program holds some of *)
(* them.  An edit replaces a part of the sequence by pages that were not   *)
(* in it; the program loses the pages that are cut out and no others, and  *)
(* may get hold of those that come in.                                     *)
(***************************************************************************)
EXTENDS Integers, Sequences, SequencesExt

CONSTANT AllPages

VARIABLES
    pages,  \* the pages of the document in their order
    held    \* the pages the program holds

pageVars == <<pages, held>>

IsDocument(s) == s \in Seq(AllPages) /\ Cardinality(ToSet(s)) = Len(s)

PagesInit ==
    /\ IsDocument(pages)
    /\ held = {}

Hold ==
    /\ UNCHANGED pages
    /\ \E p \in ToSet(pages) : held' = held \cup {p}

(* In new the pages of old behind the i-th, up to the j-th, are cut out and *)
(* others, that were not in it, have come in.                              *)
IsSplice(old, new, i, j, added) ==
    /\ new = SubSeq(old, 1, i) \o added \o SubSeq(old, j + 1, Len(old))
    /\ ToSet(added) \cap ToSet(old) = {}

SpliceOf(old, new) ==
    \E i \in 0..Len(old) : \E j \in i..Len(old) :
       LET cut == ToSet(SubSeq(old, i + 1, j))
           added == SubSeq(new, i + 1, j + Len(new) - Len(old))
       IN /\ IsSplice(old, new, i, j, added)
          /\ held' \in {held \ cut, (held \ cut) \cup ToSet(added)}

Edit == SpliceOf(pages, pages')

(* Another tree takes the place of this one: all pages are let go. *)
Replace ==
    /\ held' = {}
    /\ IsDocument(pages')

PagesNext == Hold \/ Replace \/ Edit

PagesSpec == PagesInit /\ [][PagesNext]_pageVars

=============================================================================
