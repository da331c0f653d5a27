---------------------------- MODULE PageContents -----------------------------
(***************************************************************************)
(* CPageContents: the Contents entry of a page, the streams it names and   *)
(* the content streams they are parsed to, under the edits of one page.    *)
(*                                                                         *)
(* The Contents entry says what the page paints.  _ccs is a second account *)
(* of it, made by the first call that needs it and kept in step by hand,   *)
(* and the operators of each content stream are a third, kept in step by   *)
(* the observers a content stream has on its streams.  The watchdog makes  *)
(* _ccs anew when somebody else changes the Contents entry.                *)
(*                                                                         *)
(* A client may keep a content stream (an operator leads to its content    *)
(* stream) that the page has parsed anew or removed; here it keeps one.    *)
(***************************************************************************)
EXTENDS ContentStream, FiniteSets

CONSTANTS
    MaxStreams,      \* bound: streams of the document, numbered from 1
    MaxLength,       \* bound: operators a content stream has had
    MaxSteps,        \* bound: calls that change something
    Pages,           \* what a page may hold when it is opened
    NewOperators,    \* words of operators that are inserted
    NewContents,     \* words that are added as content streams of their own
    Buffers,         \* words a client writes into a stream
    NoStream         \* the stream is not there yet

VARIABLES
    text,        \* CStream: the word in the buffer of each stream
    contents,    \* the Contents entry: its kind and the streams it names
    ccs,         \* _ccs, as numbers of content streams
    css,         \* the content streams that are there
    held,        \* the one a client keeps, or 0
    unseen,      \* history: Contents has changed behind an indirect
                 \* reference since _ccs was made
    twice,       \* history: a stream was added to an empty _ccs
    steps

vars == <<text, contents, ccs, css, held, unseen, twice, steps>>

Streams == 1..MaxStreams

(* "ref" is an array behind an indirect reference. *)
Kinds == {"none", "stream", "array", "ref"}

ASSUME PageContentsAssumption ==
    /\ MaxStreams \in Nat /\ MaxLength \in Nat /\ MaxSteps \in Nat
    /\ NoStream \notin Seq(Operators)
    /\ NewOperators \cup NewContents \cup Buffers \subseteq Seq(Operators)
    /\ \A pg \in Pages :
         /\ pg.kind \in Kinds
         /\ pg.words \in Seq(Seq(Operators)) /\ Len(pg.words) <= MaxStreams
         /\ pg.kind = "none" => Len(pg.words) = 0
         /\ pg.kind = "stream" => Len(pg.words) = 1
    /\ \A w \in NewOperators : Complete(w) /\ Parsed(w).kids[0] = <<1>>
    /\ \A w \in NewContents : Complete(w)

Live(cs, h) == Range(cs) \cup ({h} \ {0})

-----------------------------------------------------------------------------
(* Content streams and their streams; t is what the streams hold. *)

Joined(t, ss) == FlattenSeq([k \in 1..Len(ss) |-> t[ss[k]]])

Record(ss, tree) ==
    [streams |-> ss, op |-> tree.op, kids |-> tree.kids, next |-> tree.next,
     prev |-> tree.prev, own |-> tree.own,
     dirty |-> FALSE,   \* history: an edit has not been written
     cut   |-> FALSE]   \* history: see Inserted

(* setStreams, and reparse *)
ContentStreamOf(t, ss) == Record(ss, Parsed(Joined(t, ss)))

(* parse: the streams of each content stream, one after the other. *)
WordsFrom(t, ss, k) == [j \in 1..(Len(ss) - k + 1) |-> t[ss[k + j - 1]]]

Groups(t, ss) ==
    LET from[k \in 1..(Len(ss) + 1)] ==
          IF k > Len(ss) THEN <<>>
          ELSE LET n == Taken(WordsFrom(t, ss, k)) IN <<SubSeq(ss, k, k + n - 1)>> \o from[k + n]
    IN from[1]

(* Numbers for n content streams beside the one that is kept.              *)
NewIds(n) == [k \in 1..n |-> IF held = 0 \/ k < held THEN k ELSE k + 1]

(* A fault: a content stream that somebody keeps goes with the others. *)
PageOfOwn(t, groups, ids) ==
    [ccs |-> ids,
     css |-> [c \in Range(ids) |->
                ContentStreamOf(t, groups[CHOOSE k \in 1..Len(ids) : ids[k] = c])]]

(* parse of the page when the streams hold t and Contents names ss: the    *)
(* old content streams go, but for the one that is kept.                   *)
PageOf(t, groups, ids) ==
    [ccs |-> ids,
     css |-> [c \in Range(ids) \cup ({held} \ {0}) |->
                IF c = held THEN css[c]
                ELSE ContentStreamOf(t, groups[CHOOSE k \in 1..Len(ids) : ids[k] = c])]]

PageGrouped(t, groups) == PageOf(t, groups, NewIds(Len(groups)))

PageParsed(t, ss) == PageGrouped(t, Groups(t, ss))

PageAsIs == [ccs |-> ccs, css |-> css]

(* init *)
PageInit(t, ss) == IF ccs = <<>> THEN PageParsed(t, ss) ELSE PageAsIs

(* Whether a stream may be there twice, after init. *)
TwiceInit == IF ccs = <<>> THEN ~IsInjective(contents.streams) ELSE twice

BecomesPage(page) ==
    /\ ccs' = page.ccs
    /\ css' = page.css

(* A parse ends what was unseen. *)
ParseAgain(t, ss) ==
    /\ BecomesPage(PageParsed(t, ss))
    /\ unseen' = FALSE
    /\ twice' = ~IsInjective(ss)

(* What _objectChanged writes when the operators spell w: everything into  *)
(* the first of the streams, nothing into the others, one after the other. *)
Written(ss, w) ==
    [s \in Streams |->
        IF s \notin Range(ss) THEN text[s]
        ELSE IF \A k \in 2..Len(ss) : ss[k] # s THEN w ELSE <<>>]

(* A fault: a content stream that shares a stream is not told of it. *)
NotNotified(t, changedStreams, but) == css

(* CStreamObserver::notify of all content streams but one that hold any of *)
(* the streams; the last of the notifications finds them as t.             *)
Notified(t, changedStreams, but) ==
    [c \in DOMAIN css |->
        IF c # but /\ Range(css[c].streams) \cap changedStreams # {}
        THEN ContentStreamOf(t, css[c].streams) ELSE css[c]]

(* The streams are written when the change is to be seen, see              *)
(* _objectChanged.                                                         *)
WrittenAs(c, now, t) ==
    /\ text' = t
    /\ css' = [Notified(t, Range(now.streams), c) EXCEPT ![c] = [now EXCEPT !.dirty = FALSE]]

Changed(c, now, indicateChange) ==
    IF indicateChange THEN WrittenAs(c, now, Written(now.streams, Spelled(now)))
    ELSE css' = [css EXCEPT ![c] = [now EXCEPT !.dirty = TRUE]] /\ UNCHANGED text

Step == steps < MaxSteps /\ steps' = steps + 1

-----------------------------------------------------------------------------
(* Edits of one content stream, by whoever has an operator of it *)

Room(c, w) == Len(css[c].op) + Len(w) <= MaxLength

PageKept == UNCHANGED <<contents, ccs, held, unseen, twice>>

DeleteOperator(c, x, indicateChange) ==
    /\ Step
    /\ \E p \in Found(css[c], x) : Changed(c, Deleted(css[c], x, p), indicateChange)
    /\ PageKept

InsertOperator(c, x, w, indicateChange) ==
    /\ Step
    /\ Room(c, w)
    /\ \E p \in Found(css[c], x) : Changed(c, Inserted(css[c], x, p, w), indicateChange)
    /\ PageKept

(* The iterator is invalid.  It returns before indicateChange is looked at.*)
InsertFirst(c, w) ==
    /\ Step
    /\ Room(c, w)
    /\ css[c].kids[0] = <<>>
    /\ Changed(c, InsertedFirst(css[c], w), FALSE)
    /\ PageKept

FrontInsertOperator(c, w, indicateChange) ==
    /\ Step
    /\ Room(c, w)
    /\ Changed(c, FrontInserted(css[c], w), indicateChange)
    /\ PageKept

ReplaceOperator(c, x, w, indicateChange) ==
    /\ Step
    /\ Room(c, w)
    /\ \E p \in Found(css[c], x) : Changed(c, Replaced(css[c], x, p, w), indicateChange)
    /\ PageKept

(* An operand is changed: OperandObserver::notify writes it, unless the    *)
(* operator is not observed.                                               *)
SetOperand(c, x, t) ==
    /\ Step
    /\ css[c].op[x] \in Texts \ {t}
    /\ Changed(c, [css[c] EXCEPT !.op[x] = t], x \in css[c].own)
    /\ PageKept

SaveChange(c) ==
    /\ Step
    /\ css[c].dirty
    /\ Changed(c, css[c], TRUE)
    /\ PageKept

ReplaceText(c, what, with) ==
    /\ Step
    /\ TextReplaced(css[c], what, with) # css[c]
    /\ Changed(c, TextReplaced(css[c], what, with), TRUE)
    /\ PageKept

EditContentStream ==
    \E c \in Live(ccs, held) :
        \/ \E x \in Range(AllOf(css[c])) :
             \/ \E b \in BOOLEAN : DeleteOperator(c, x, b)
             \/ \E w \in NewOperators, b \in BOOLEAN : InsertOperator(c, x, w, b)
             \/ \E w \in NewOperators, b \in BOOLEAN : ReplaceOperator(c, x, w, b)
             \/ \E t \in Texts : SetOperand(c, x, t)
        \/ \E w \in NewOperators : InsertFirst(c, w)
        \/ \E w \in NewOperators, b \in BOOLEAN : FrontInsertOperator(c, w, b)
        \/ SaveChange(c)
        \/ \E what, with \in Texts : ReplaceText(c, what, with)

-----------------------------------------------------------------------------
(* Content streams are added, removed and moved *)

NextStream == Min({s \in Streams : text[s] = NoStream})

(* A fault: the new stream comes last in Contents wherever it is to be. *)
ContentsWithLast(s, atFront) ==
    [kind    |-> IF contents.kind = "ref" THEN "ref" ELSE "array",
     streams |-> Append(contents.streams, s)]

(* cc_add *)
ContentsWith(s, atFront) ==
    [kind    |-> IF contents.kind = "ref" THEN "ref" ELSE "array",
     streams |-> IF atFront THEN <<s>> \o contents.streams
                 ELSE Append(contents.streams, s)]

(* addToFront and addToBack.  Contents changes first, then a page that has *)
(* no content streams is parsed, and then the new one is put beside those  *)
(* found: when there were none it is there twice.                          *)
Put(s, t, id, atFront, page) ==
    /\ ccs' = IF atFront THEN <<id>> \o page.ccs ELSE Append(page.ccs, id)
    /\ css' = [c \in DOMAIN page.css \cup {id} |->
                 IF c = id THEN ContentStreamOf(t, <<s>>) ELSE page.css[c]]

FreshId(used) == CHOOSE c \in 1..(Cardinality(used) + 1) : c \notin used

PutInto(s, t, atFront, page) == Put(s, t, FreshId(DOMAIN page.css), atFront, page)

AddStream(s, t, atFront, now, page) ==
    /\ text' = t
    /\ contents' = now
    /\ PutInto(s, t, atFront,
               IF page.ccs = <<>> THEN PageParsed(t, now.streams) ELSE page)
    /\ twice' = (page.ccs = <<>> \/ TwiceInit)
    /\ unseen' = (unseen /\ ccs # <<>>)
    /\ UNCHANGED held

AddContentStream(s, w, atFront, page) ==
    AddStream(s, [text EXCEPT ![s] = <<ChangeTag>> \o w], atFront, ContentsWith(s, atFront), page)

CanAdd == NoStream \in Range(text)

AddTo(w, atFront) ==
    /\ Step
    /\ CanAdd
    /\ AddContentStream(NextStream, w, atFront, PageAsIs)

(* addText and addInlineImage parse the page first. *)
AddText(w) ==
    /\ Step
    /\ CanAdd
    /\ AddContentStream(NextStream, w, FALSE, PageInit(text, contents.streams))

(* Each of the streams goes once. *)
Without(ss, gone) ==
    LET left[k \in 0..Len(gone)] ==
          IF k = 0 THEN ss ELSE RemoveFirst(left[k - 1], gone[k])
    IN left[Len(gone)]

RemoveFrom(page, k, left) ==
    /\ k <= Len(page.ccs)
    /\ contents' =
         IF contents.kind = "stream" THEN [kind |-> "array", streams |-> <<>>]
         ELSE [contents EXCEPT !.streams = Without(@, page.css[page.ccs[k]].streams)]
    /\ ccs' = left
    /\ css' = [c \in Live(left, held) |-> page.css[c]]

RemoveOf(page, k) == RemoveFrom(page, k, RemoveAt(page.ccs, k))

RemoveStream(k) ==
    /\ Step
    /\ contents.kind # "none"
    /\ RemoveOf(PageInit(text, contents.streams), k)
    /\ unseen' = (unseen /\ ccs # <<>>)
    /\ twice' = TwiceInit
    /\ UNCHANGED <<text, held>>

(* moveAbove of k and moveBelow of k + 1, with setContents. *)
SetPage(page, moved) ==
    /\ ccs' = moved
    /\ css' = page.css
    /\ contents' = [kind |-> "array",
                    streams |-> FlattenSeq([j \in 1..Len(moved) |-> page.css[moved[j]].streams])]

MoveOf(page, k) ==
    /\ k < Len(page.ccs)
    /\ SetPage(page, [page.ccs EXCEPT ![k] = page.ccs[k + 1], ![k + 1] = page.ccs[k]])

MoveAbove(k) ==
    /\ Step
    /\ MoveOf(PageInit(text, contents.streams), k)
    /\ unseen' = FALSE
    /\ twice' = TwiceInit
    /\ UNCHANGED <<text, held>>

(* getContentStreams: init for one who only looks. *)
GetContentStreams ==
    /\ ccs = <<>> /\ contents.streams # <<>>
    /\ ParseAgain(text, contents.streams)
    /\ UNCHANGED <<text, contents, held, steps>>

-----------------------------------------------------------------------------
(* What others do *)

Exists == {s \in Streams : text[s] # NoStream}

(* A client keeps another content stream. *)
Hold(k) ==
    /\ held # ccs[k]
    /\ held' = ccs[k]
    /\ css' = [c \in Range(ccs) |-> css[c]]
    /\ UNCHANGED <<text, contents, ccs, unseen, twice, steps>>

(* Contents of the page dictionary is set or removed: the watchdog parses. *)
SetContents(entry) ==
    /\ Step
    /\ entry # contents
    /\ contents' = entry
    /\ ParseAgain(text, entry.streams)
    /\ UNCHANGED <<text, held>>

(* An entry of the array is removed, or one is added.  The watchdog is     *)
(* told by an array in the page dictionary; behind a reference nobody is   *)
(* told.                                                                   *)
EditArray(ss) ==
    /\ Step
    /\ contents.kind \in {"array", "ref"}
    /\ contents' = [contents EXCEPT !.streams = ss]
    /\ IF contents.kind = "array" THEN ParseAgain(text, ss)
       ELSE unseen' = (ccs # <<>>) /\ UNCHANGED <<ccs, css, twice>>
    /\ UNCHANGED <<text, held>>

(* setBuffer *)
SetBuffer(s, w) ==
    /\ Step
    /\ w # text[s]
    /\ text' = [text EXCEPT ![s] = w]
    /\ css' = Notified(text', {s}, 0)
    /\ PageKept

Others ==
    \/ \E k \in 1..Len(ccs) : Hold(k)
    \/ SetContents([kind |-> "none", streams |-> <<>>])
    \/ \E s \in Exists : SetContents([kind |-> "stream", streams |-> <<s>>])
    \/ \E k \in 1..Len(contents.streams) : EditArray(RemoveAt(contents.streams, k))
    \/ \E s \in Exists \ Range(contents.streams) : EditArray(Append(contents.streams, s))
    \/ \E s \in Exists, w \in Buffers : SetBuffer(s, w)

-----------------------------------------------------------------------------
Init ==
    \E pg \in Pages :
        /\ text = [s \in Streams |-> IF s <= Len(pg.words) THEN pg.words[s] ELSE NoStream]
        /\ contents = [kind |-> pg.kind, streams |-> [s \in 1..Len(pg.words) |-> s]]
        /\ ccs = <<>> /\ css = <<>> /\ held = 0
        /\ unseen = FALSE /\ twice = FALSE /\ steps = 0

Next ==
    \/ EditContentStream
    \/ \E w \in NewContents, atFront \in BOOLEAN : AddTo(w, atFront)
    \/ \E w \in NewContents : AddText(w)
    \/ \E k \in 1..(Len(ccs) + Len(contents.streams)) : RemoveStream(k) \/ MoveAbove(k)
    \/ GetContentStreams
    \/ Others

Spec == Init /\ [][Next]_vars

-----------------------------------------------------------------------------
(* The second and the third account are of the streams and the operators   *)
(* there are.                                                              *)
PageContentsTypeOK ==
    /\ text \in [Streams -> Seq(Operators) \cup {NoStream}]
    /\ contents.kind \in Kinds /\ contents.streams \in Seq(Exists)
    /\ held \in Nat
    /\ ccs \in Seq(Nat \ {0}) /\ IsInjective(ccs)
    /\ DOMAIN css = Live(ccs, held)
    /\ \A c \in DOMAIN css :
         LET cs == css[c]
         IN /\ cs.streams \in Seq(Exists) \ {<<>>}
            /\ cs.op \in Seq(Operators)
            /\ DOMAIN cs.kids = 0..Len(cs.op)
            /\ \A p \in DOMAIN cs.kids : cs.kids[p] \in Seq(1..Len(cs.op))
            /\ cs.next \in Seq(0..Len(cs.op)) /\ Len(cs.next) = Len(cs.op)
            /\ cs.prev \in Seq(0..Len(cs.op)) /\ Len(cs.prev) = Len(cs.op)
            /\ cs.own \subseteq 1..Len(cs.op)
    /\ unseen \in BOOLEAN /\ twice \in BOOLEAN
    /\ steps \in 0..MaxSteps

(* The list of every content stream leads through the operators of its     *)
(* tree in the order they are written in, and back the same way: deletes,  *)
(* inserts and replacements of single operators and of composites, at any  *)
(* depth, relink both (src/src/kernel/ccontentstream.h:377).  Where        *)
(* insertOperator has put a composite before another operator it does not. *)
IterationIsTree ==
    \A c \in DOMAIN css :
        ~css[c].cut =>
            LET list == List(css[c])
            IN /\ list = AllOf(css[c])
               /\ \A i \in 1..Len(list) :
                    css[c].prev[list[i]] = IF i = 1 THEN 0 ELSE list[i - 1]

(* What a content stream's streams hold is what its operators spell, or    *)
(* all that could be parsed of it, whoever wrote them last: this content   *)
(* stream, another one that shares a stream with it, or a client that has  *)
(* set a buffer.  Excepted are edits that were not to be seen yet.         *)
StreamsHoldOperators ==
    \A c \in DOMAIN css :
        ~css[c].dirty /\ IsInjective(css[c].streams) =>
            Spelled(css[c]) \in {Joined(text, css[c].streams),
                                 Kept(Joined(text, css[c].streams))}

(* The content streams of a page hold, in their order, the streams that    *)
(* Contents names, whatever was added, removed and moved and whoever set   *)
(* Contents.  Excepted are an array behind a reference that a client has   *)
(* changed, and the stream that was added to a page with none parsed.      *)
ContentsAsStreams ==
    ccs # <<>> /\ ~unseen /\ ~twice =>
        contents.streams = FlattenSeq([k \in 1..Len(ccs) |-> css[ccs[k]].streams])

(* What edits make of the tree is what the same edits make of the word:    *)
(* an operator that is deleted, put in or replaced takes its whole         *)
(* composite with it and leaves everything before and after it.  And a     *)
(* text that is replaced is gone from every depth.  (Edits of the states    *)
(* in which one may still be made.)                                        *)
EditsAt(cs, x, before, sub, after) ==
    \A p \in Found(cs, x) :
        /\ Spelled(Deleted(cs, x, p)) = before \o after
        /\ \A w \in NewOperators :
             /\ Spelled(Inserted(cs, x, p, w)) = before \o sub \o w \o after
             /\ Spelled(Replaced(cs, x, p, w)) = before \o w \o after

EditsIn(cs, all, word) ==
    \A i \in 1..Len(all) :
        EditsAt(cs, all[i], SubSeq(word, 1, i - 1), WordOf(cs, Below(cs, all[i])),
                SubSeq(word, i + Len(Below(cs, all[i])), Len(word)))

EditsChangeOnePlace ==
    \A c \in DOMAIN css :
        steps < MaxSteps /\ ~css[c].cut =>
            /\ EditsIn(css[c], AllOf(css[c]), Spelled(css[c]))
            /\ \A t \in Texts : \A u \in Texts \ {t} :
                 t \notin Range(Spelled(TextReplaced(css[c], t, u)))

(* A stream this program has added begins a content stream of its own      *)
(* whenever the page is parsed, "to separate our changes from original     *)
(* content stream" (src/src/kernel/cpagecontents.h:160), if what comes     *)
(* before it is complete.  A single operator without operands before it is *)
(* too short for its end to be seen.                                       *)
BeginsAt(groups, i) ==
    \E k \in 1..Len(groups) : Len(FlattenSeq(SubSeq(groups, 1, k - 1))) = i - 1

ChangeBegins(ss, groups, i, earlier) ==
    /\ text[ss[i]] # <<>> /\ Head(text[ss[i]]) = ChangeTag
    /\ Complete(earlier) /\ Len(earlier) > 1
    => BeginsAt(groups, i)

ChangesBegin(ss, groups) ==
    \A i \in 2..Len(ss) : ChangeBegins(ss, groups, i, Joined(text, SubSeq(ss, 1, i - 1)))

ChangesBeginStreams == ChangesBegin(contents.streams, Groups(text, contents.streams))

=============================================================================
