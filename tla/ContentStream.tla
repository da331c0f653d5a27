---------------------------- MODULE ContentStream ----------------------------
(***************************************************************************)
(* CContentStream: the operators that paint a page, and what the edits of  *)
(* them do.  Nothing here has state: the operators below work on a record  *)
(* that stands for one content stream, PageContents holds such records.    *)
(*                                                                         *)
(* The operators are kept twice.  They form a tree, where a composite has  *)
(* what follows it up to its end tag, end tag included, as children.  And  *)
(* they are items of a doubly linked list, in the order in which they are  *)
(* written, that every search and every change of texts walks along.       *)
(*                                                                         *)
(* An operator is told apart by its name, and one that shows text by the   *)
(* text; all other operands are left out, as are bounding boxes.  What is  *)
(* written in a stream is the sequence of its operators: a word.           *)
(***************************************************************************)
EXTENDS Integers, Sequences, SequencesExt, FiniteSetsExt

CONSTANTS
    EndTag,      \* for each operator that opens a composite, its end tag
    Texts,       \* operators that show a text
    ChangeTag    \* ContentsChangeTag: marks a stream this program has added

Openers == DOMAIN EndTag
Closers == {EndTag[o] : o \in Openers}
Operators == Openers \cup Closers \cup Texts \cup {ChangeTag}

ASSUME OperatorsAssumption ==
    /\ Openers \cap Closers = {} /\ Texts \cap (Openers \cup Closers) = {}
    /\ ChangeTag \notin Openers \cup Closers \cup Texts

-----------------------------------------------------------------------------
(* Parsing *)

(* parseOp: what operator i does to the composites that are open, the      *)
(* innermost last.  Only the end tag of the innermost one is looked for.   *)
OpenAfter(open, w, i) ==
    IF w[i] \in Openers THEN Append(open, i)
    ELSE IF open # <<>> /\ w[i] = EndTag[w[Last(open)]] THEN Front(open)
    ELSE open

WithNext(before, w, i) == Append(before, OpenAfter(Last(before), w, i))

(* The composites open before each operator of a word, and at its end.     *)
OpenBefore(w) ==
    LET before[i \in 1..(Len(w) + 1)] ==
          IF i = 1 THEN << <<>> >> ELSE WithNext(before[i - 1], w, i - 1)
    IN before[Len(w) + 1]

OpenAtEnd(w) == Last(OpenBefore(w))

Complete(w) == OpenAtEnd(w) = <<>>

UpTo(w, open) == IF open = <<>> THEN w ELSE SubSeq(w, 1, open[1] - 1)

(* What is left when parsing stops: a composite without its end tag throws *)
(* and goes, with all that follows.                                        *)
Kept(w) == UpTo(w, OpenAtEnd(w))

(* The operators of a word as a tree and as a list: operator i is the i-th *)
(* of the word.  kids[0] are those in no composite, CContentStream::       *)
(* operators; next and prev are 0 where the list ends.  own are the        *)
(* operators that know their content stream and are observed by it.        *)
Parents(before) ==
    [i \in 1..(Len(before) - 1) |-> IF before[i] = <<>> THEN 0 ELSE Last(before[i])]

Hung(n, parent) ==
    LET hung[i \in 0..n] ==
          IF i = 0 THEN [p \in 0..n |-> <<>>]
          ELSE [hung[i - 1] EXCEPT ![parent[i]] = Append(@, i)]
    IN hung[n]

Tree(w, parent) ==
    [op   |-> w,
     kids |-> Hung(Len(w), parent),
     next |-> [i \in 1..Len(w) |-> IF i = Len(w) THEN 0 ELSE i + 1],
     prev |-> [i \in 1..Len(w) |-> i - 1],
     own  |-> 1..Len(w)]

TreeOf(w) == Tree(w, Parents(OpenBefore(w)))

Parsed(word) == TreeOf(Kept(word))

-----------------------------------------------------------------------------
(* Where one content stream ends and the next one begins *)

(* The reader is two tokens ahead.  These operators have no operands: they *)
(* are one token, all others are more.                                     *)
OneToken == Openers \cup Closers

(* The stream each operator of the words stands in; behind them the end.   *)
StreamAt(words) ==
    FlattenSeq([k \in 1..Len(words) |-> [j \in 1..Len(words[k]) |-> k]])
        \o <<Len(words) + 1, Len(words) + 1>>

(* eofOfActualStream after operator i: the token that follows is the first *)
(* of another stream and the one behind it is of that stream too.  The     *)
(* first two tokens are read before anybody looks.                         *)
EndSeen(w, at, i) ==
    /\ at[i + 1] # at[i]
    /\ i < Len(w) /\ w[i + 1] \in OneToken => at[i + 2] = at[i + 1]
    /\ i > 1 \/ w[1] \notin OneToken

(* A change of ours stands in no composite before or at operator i. *)
ChangeSeen(w, before, i) == \E j \in 1..i : w[j] = ChangeTag /\ before[j] = <<>>

(* A fault: parsing does not stop where a change of ours begins. *)
BreaksAfterChange(w, at, before) ==
    {i \in 1..Len(w) : before[i + 1] = <<>> /\ EndSeen(w, at, i) /\ ChangeSeen(w, before, i)}

(* Operators after which the first parse may stop: the streams read so far *)
(* hold a change of ours, or the next one begins with the tag of one.      *)
Breaks(w, at, before) ==
    {i \in 1..Len(w) :
        /\ before[i + 1] = <<>>
        /\ EndSeen(w, at, i)
        /\ ChangeSeen(w, before, i) \/ (i < Len(w) /\ w[i + 1] = ChangeTag)}

TakenUpTo(breaks, at, n) == IF breaks = {} THEN n ELSE at[Min(breaks) + 1] - 1

TakenOf(w, at, n) == TakenUpTo(Breaks(w, at, OpenBefore(w)), at, n)

(* How many of the streams the first content stream takes. *)
Taken(words) == TakenOf(FlattenSeq(words), StreamAt(words), Len(words))

-----------------------------------------------------------------------------
(* Walking *)

(* The operators below and including some, in the order they are written   *)
(* in.                                                                     *)
Preorder(c, roots) ==
    LET walk[x \in DOMAIN c.kids] ==
          <<x>> \o FlattenSeq([k \in 1..Len(c.kids[x]) |-> walk[c.kids[x][k]]])
    IN FlattenSeq([k \in 1..Len(roots) |-> walk[roots[k]]])

Below(c, x) == Preorder(c, <<x>>)
AllOf(c) == Preorder(c, c.kids[0])

(* getStringRepresentation *)
WordOf(c, xs) == [k \in 1..Len(xs) |-> c.op[xs[k]]]
Spelled(c) == WordOf(c, AllOf(c))

(* getLastOperator *)
LastBelow(c, x) == Last(Below(c, x))

(* The list, forwards from the first of the operators. *)
List(c) ==
    LET from[x \in 0..Len(c.op)] == IF x = 0 THEN <<>> ELSE <<x>> \o from[c.next[x]]
    IN IF c.kids[0] = <<>> THEN <<>> ELSE from[Head(c.kids[0])]

(* findCompositeOfPdfOperator: where x hangs, as far as the list leads     *)
(* there; nothing when it throws.                                          *)
Found(c, x) ==
    {p \in DOMAIN c.kids : x \in Range(c.kids[p]) /\ (p = 0 \/ p \in Range(List(c)))}

-----------------------------------------------------------------------------
(* Edits *)

Link(links, from, to) == IF from = 0 THEN links ELSE [links EXCEPT ![from] = to]

After(s, x, y) == LET i == CHOOSE j \in 1..Len(s) : s[j] = x IN InsertAt(s, i + 1, y)

(* A new operator, made of the word w, beside those of c: its items are    *)
(* linked with each other only.                                            *)
NewAt(c) == Len(c.op) + 1
LastNewAt(c, w) == Len(c.op) + Len(w)

Shift(x, n) == IF x = 0 THEN 0 ELSE x + n
ShiftAll(xs, n) == [k \in 1..Len(xs) |-> Shift(xs[k], n)]

Beside(c, new, n) ==
    [c EXCEPT
       !.op   = @ \o new.op,
       !.kids = [p \in 0..(n + Len(new.op)) |->
                   IF p <= n THEN c.kids[p] ELSE ShiftAll(new.kids[p - n], n)],
       !.next = @ \o ShiftAll(new.next, n),
       !.prev = @ \o ShiftAll(new.prev, n)]

WithNew(c, w) == Beside(c, TreeOf(w), Len(c.op))

(* With opsSetPdfRefCs. *)
WithOwn(c, w) == [WithNew(c, w) EXCEPT !.own = @ \cup (NewAt(c)..LastNewAt(c, w))]

(* A fault: the list is closed behind the composite, not behind its last   *)
(* operator.                                                               *)
DeletedUpTo(c, x, p, last) ==
    [c EXCEPT !.kids[p] = RemoveFirst(@, x),
              !.next = [Link(@, c.prev[x], c.next[x]) EXCEPT ![last] = 0],
              !.prev = [Link(@, c.next[x], c.prev[x]) EXCEPT ![x] = 0]]

(* deleteOperator of x, which hangs below p; last is the last operator of  *)
(* x.                                                                      *)
DeletedTo(c, x, p, last) ==
    [c EXCEPT !.kids[p] = RemoveFirst(@, x),
              !.next = [Link(@, c.prev[x], c.next[last]) EXCEPT ![last] = 0],
              !.prev = [Link(@, c.next[last], c.prev[x]) EXCEPT ![x] = 0]]

Deleted(c, x, p) == DeletedTo(c, x, p, LastBelow(c, x))

(* insertOperator of new after x, which hangs below p and ends with cur.   *)
(* What is linked with the next operator is the new one itself, not its    *)
(* last operator: cut records that a composite has lost its children in    *)
(* the list so.                                                            *)
InsertedBehind(c, x, p, new, cur, nxt, composite) ==
    [c EXCEPT
       !.kids[p] = After(@, x, new),
       !.next = IF nxt = 0 THEN [@ EXCEPT ![cur] = new]
                ELSE [@ EXCEPT ![cur] = new, ![new] = nxt],
       !.prev = [Link(@, nxt, new) EXCEPT ![new] = cur],
       !.cut  = @ \/ (nxt # 0 /\ composite)]

InsertedAt(c, x, p, w, cur) ==
    InsertedBehind(WithOwn(c, w), x, p, NewAt(c), cur, c.next[cur], Len(w) > 1)

Inserted(c, x, p, w) == InsertedAt(c, x, p, w, LastBelow(c, x))

(* insertOperator where there is none: it returns at once, and the new     *)
(* operator is neither observed nor told its content stream.               *)
InsertedFirst(c, w) == [WithNew(c, w) EXCEPT !.kids[0] = <<NewAt(c)>>]

(* frontInsertOperator before second, if there is one. *)
InsertedBefore(c, second, new, lastNew) ==
    [c EXCEPT !.kids[0] = <<new>> \o @,
              !.next = [@ EXCEPT ![lastNew] = second],
              !.prev = Link(@, second, lastNew)]

FirstOf(c) == IF c.kids[0] = <<>> THEN 0 ELSE Head(c.kids[0])

FrontInserted(c, w) == InsertedBefore(WithOwn(c, w), FirstOf(c), NewAt(c), LastNewAt(c, w))

(* replaceOperator of x, which hangs below p and ends with last, by what   *)
(* reaches from new to lastNew.                                            *)
ReplacedBy(c, x, p, last, new, lastNew) ==
    [c EXCEPT
       !.kids[p] = RemoveFirst(After(@, x, new), x),
       !.next = [Link([@ EXCEPT ![lastNew] = c.next[last]], c.prev[x], new) EXCEPT ![last] = 0],
       !.prev = [Link([@ EXCEPT ![new] = c.prev[x]], c.next[last], lastNew) EXCEPT ![x] = 0]]

(* A fault: the old operator stays where it was. *)
ReplacedBehind(c, x, p, w) == Inserted(c, x, p, w)

Replaced(c, x, p, w) ==
    ReplacedBy(WithOwn(c, w), x, p, LastBelow(c, x), NewAt(c), LastNewAt(c, w))

(* replaceText, which walks along the list. *)
TextReplaced(c, what, with) ==
    [c EXCEPT !.op = [x \in 1..Len(c.op) |->
        IF x \in Range(List(c)) /\ c.op[x] = what THEN with ELSE c.op[x]]]

=============================================================================
