--------------------------- MODULE MCPageContents ----------------------------
(***************************************************************************)
(* PageContents with pages to edit.                                        *)
(***************************************************************************)
EXTENDS PageContents, TLC

CONSTANTS q, Q, BT, ET, a, b

EndTags == q :> Q @@ BT :> ET

(* Composites in composites, one that begins in one stream and ends in the *)
(* next, streams of one operator each, and nothing.                        *)
Nested == [kind |-> "stream", words |-> <<<<q, BT, a, ET, Q>>>>]
Split == [kind |-> "ref", words |-> <<<<q, a>>, <<Q, b>>>>]
Wrapped == [kind |-> "array", words |-> <<<<q>>, <<a>>, <<Q>>>>]
Blank == [kind |-> "none", words |-> <<>>]

AllPages == {Nested, Split, Wrapped, Blank}

Simple == <<b>>
Composite == <<q, b, Q>>

SimpleAndComposite == {Simple, Composite}
OnlySimple == {Simple}
OpenComposite == {<<q>>}

(* Bounds: a client keeps one content stream, before the first call, and   *)
(* what is not to be seen yet is edited first.                             *)
OneHeld == held' # held => held = 0 /\ steps = 0
UnseenFirst ==
    (\E c \in DOMAIN css' \cap DOMAIN css :
        css'[c].dirty /\ ~css[c].dirty /\ css[c].kids[0] # <<>>) => steps' = 1

=============================================================================
