------------------------------- MODULE PdfFile -------------------------------
(***************************************************************************)
(* A PDF file as PDFedit sees it: a sequence of sections.  A section is    *)
(* what one incremental update appends - objects, a cross reference table  *)
(* and a trailer - and its index stands for the file offset of its table.  *)
(* A table entry gives the generation of an object number and the section  *)
(* the object was written in (its offset).  The trailer's prev is the      *)
(* table it continues, 0 when there is none.                               *)
(*                                                                         *)
(* Object values are told apart by the type that the checks of the code    *)
(* look at, and nothing else.                                              *)
(***************************************************************************)
EXTENDS Integers, Sequences

CONSTANTS
    MaxNum,     \* MAXOBJNUM - 1: the highest object number
    MaxGen,     \* MAXOBJGEN: a free entry with this generation is not reused
    Dicts,      \* values of type dictionary
    Plains,     \* values of one other type
    Links,      \* values that are a reference to LinkTarget
    Cmds,       \* values the parser reads but no IProperty exists for
    Null,       \* the pdf null object
    LinkTarget, \* the reference a value of Links holds
    NoValue,    \* "no object is stored here"
    Damaged     \* the outcome of fetching an object that does not parse

Nums == 1..MaxNum
Gens == 0..MaxGen
Refs == [num : Nums, gen : Gens]

Value == Dicts \cup Plains \cup Links \cup Cmds \cup {Null}

ASSUME ConstantsAssumption ==
    /\ MaxNum \in Nat \ {0}
    /\ MaxGen \in Nat \ {0}
    /\ LinkTarget \in Refs
    /\ NoValue \notin Value
    /\ Damaged \notin Value \cup {NoValue}
    /\ Null \notin Dicts \cup Plains \cup Links \cup Cmds
    /\ Dicts \cap (Plains \cup Links \cup Cmds) = {}
    /\ Plains \cap (Links \cup Cmds) = {}
    /\ Links \cap Cmds = {}

(* The type a value has for XRef, CXref and IProperty. *)
TypeOf(v) ==
    CASE v \in Dicts  -> "dict"
      [] v \in Plains -> "plain"
      [] v \in Links  -> "ref"
      [] v \in Cmds   -> "cmd"
      [] OTHER        -> "null"

(* One row of a cross reference table: in use "n", free "f", or no row at  *)
(* all for this number.                                                    *)
Entry == [type : {"n", "f", "none"}, gen : Gens, off : Nat]
NoEntry == [type |-> "none", gen |-> 0, off |-> 0]
FreeEntry == [type |-> "f", gen |-> 0, off |-> 0]

Trailer == [root : Refs, encrypt : BOOLEAN, prev : Nat, size : Nat]

Section == [table   : [Nums -> Entry],
            objs    : [Refs -> Value \cup {NoValue}],
            trailer : Trailer,
            decoded : BOOLEAN]

(* The sections XRef::initInternals reads from the table at p: it follows  *)
(* the Prev fields until there is none.                                    *)
Chain(f, p) ==
    LET upTo[q \in 0..p] == IF q = 0 THEN {} ELSE {q} \cup upTo[f[q].trailer.prev]
    IN  upTo[p]

(* The sections of a set that have a row for number n, and the last one. *)
RowsFor(f, S, n) == {q \in S : f[q].table[n].type # "none"}

Newest(S) == CHOOSE q \in S : \A x \in S : x <= q

(* XRef::readXRefTable keeps the first row it meets for a number, and the  *)
(* chain is read from the newest table to the oldest; a number without a   *)
(* row stays the free entry the array was filled with.                     *)
LoadEntries(f, p) ==
    LET chain == Chain(f, p) IN
    [n \in Nums |-> IF RowsFor(f, chain, n) = {}
                    THEN FreeEntry
                    ELSE f[Newest(RowsFor(f, chain, n))].table[n]]

(* The numbers in use, and XRef::maxObj. *)
Used(entries) == {n \in Nums : entries[n].type = "n"}
LoadMaxObj(entries) == IF Used(entries) = {} THEN 0 ELSE Newest(Used(entries))

(* XRef::fetch: a free entry or another generation is the null object, an  *)
(* entry that does not lead to that very object is damaged.                *)
Lookup(f, entries, r) ==
    LET e == entries[r.num] IN
    IF e.type # "n" \/ e.gen # r.gen THEN Null
    ELSE IF e.off \in DOMAIN f /\ f[e.off].objs[r] # NoValue
         THEN f[e.off].objs[r]
         ELSE Damaged

(* The document a fresh parse of file f from the table at p shows. *)
Content(f, p) ==
    LET entries == LoadEntries(f, p) IN
    [root |-> f[p].trailer.root,
     objs |-> [r \in Refs |-> Lookup(f, entries, r)]]

(***************************************************************************)
(* Files the program can be given: every table continues an older one, and *)
(* every row leads into the part of the file written before it (0 leads    *)
(* nowhere: a broken row).                                                 *)
(***************************************************************************)
WellFormed(f) ==
    /\ f \in Seq(Section)
    /\ Len(f) > 0
    /\ \A i \in DOMAIN f :
          /\ f[i].trailer.prev < i
          /\ \A n \in Nums : f[i].table[n].off <= i

=============================================================================
