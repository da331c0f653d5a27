-------------------------- MODULE OldStylePdfWriter --------------------------
(***************************************************************************)
(* OldStylePdfWriter, the IPdfWriter that XRefWriter uses.  Between calls  *)
(* it holds the offset table of the section it is collecting, which is     *)
(* empty once writeTrailer has finished a section and is not when a        *)
(* writeContent was left by an exception, and the flag that makes it write *)
(* streams without their filters.  maxObjNum is the highest number of the  *)
(* offset table: both are updated and reset together.                      *)
(***************************************************************************)
EXTENDS PdfFile

Writer == [offTable : SUBSET Refs, ignoreStream : BOOLEAN]
NewWriter == [offTable |-> {}, ignoreStream |-> FALSE]

(* Objects registered in a changed storage. *)
Registered(changed) == {r \in Refs : changed[r] # NoValue}

(* The refs of a section: writeContent skips an object whose ref is in the *)
(* offset table already, so what was left there stays.                     *)
SectionRefs(w, changed) == w.offTable \cup Registered(changed)

(* Rows are written in the order of number and generation, and a reader    *)
(* keeps the first row of a number: of two generations the lower one.      *)
RowRef(refs, n) ==
    CHOOSE r \in refs : r.num = n /\ \A s \in refs : s.num = n => r.gen <= s.gen

MaxObjNum(refs) == Newest({r.num : r \in refs})

(* Faults: Prev is not set, and Size is the highest number itself. *)
TrailerWithoutPrev(trailer, refs, prevPos, entriesNum) ==
    [trailer EXCEPT !.prev = 0,
                    !.size = IF MaxObjNum(refs) + 1 > entriesNum
                             THEN MaxObjNum(refs) + 1 ELSE entriesNum]
TrailerShortSize(trailer, refs, prevPos, entriesNum) ==
    [trailer EXCEPT !.prev = prevPos,
                    !.size = IF MaxObjNum(refs) > entriesNum
                             THEN MaxObjNum(refs) ELSE entriesNum]

(* writeTrailer stores Prev and Size into the trailer object it is given. *)
WrittenTrailer(trailer, refs, prevPos, entriesNum) ==
    [trailer EXCEPT !.prev = prevPos,
                    !.size = IF MaxObjNum(refs) + 1 > entriesNum
                             THEN MaxObjNum(refs) + 1 ELSE entriesNum]

(* writeContent followed by writeTrailer: the section at index pos.  The   *)
(* offsets left in the table belong to another stream and lead nowhere in  *)
(* this one (0).                                                           *)
WriteSection(w, changed, trailer, prevPos, entriesNum, pos) ==
    LET refs == SectionRefs(w, changed) IN
    [table   |-> [n \in Nums |->
                    IF \E r \in refs : r.num = n
                    THEN [type |-> "n", gen |-> RowRef(refs, n).gen,
                          off |-> IF RowRef(refs, n) \in w.offTable THEN 0 ELSE pos]
                    ELSE NoEntry],
     objs    |-> [r \in Refs |-> IF r \in w.offTable THEN NoValue ELSE changed[r]],
     trailer |-> WrittenTrailer(trailer, refs, prevPos, entriesNum),
     decoded |-> w.ignoreStream]

(* reset, at the end of writeTrailer. *)
Reset(w) == [w EXCEPT !.offTable = {}]

=============================================================================
