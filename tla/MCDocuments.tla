---------------------------- MODULE MCDocuments ----------------------------
(***************************************************************************)
(* Files to open in the model checking, each for a case of the code.  A    *)
(* file is given by what its sections say: the objects they hold, the      *)
(* entries they free (a function from number to generation) and the        *)
(* trailer.                                                                *)
(***************************************************************************)
EXTENDS PdfFile, TLC

CONSTANTS d1, d2, p1, k1, c1

Ref(n, g) == [num |-> n, gen |-> g]

MCLinkTarget == Ref(2, 0)

Sect(pos, objs, freed, root, prev, size, enc) ==
    [table |-> [n \in Nums |->
                  IF \E r \in DOMAIN objs : r.num = n
                  THEN [type |-> "n", gen |-> (CHOOSE r \in DOMAIN objs : r.num = n).gen,
                        off |-> IF objs[CHOOSE r \in DOMAIN objs : r.num = n] = Damaged
                                THEN 0 ELSE pos]
                  ELSE IF n \in DOMAIN freed
                  THEN [type |-> "f", gen |-> freed[n], off |-> 0]
                  ELSE NoEntry],
     objs |-> [r \in Refs |-> IF r \in DOMAIN objs /\ objs[r] # Damaged
                              THEN objs[r] ELSE NoValue],
     trailer |-> [root |-> root, encrypt |-> enc, prev |-> prev, size |-> size],
     decoded |-> FALSE]

None == [x \in {} |-> x]
Opened(f) == [file |-> f, linearized |-> FALSE]

(* One revision: the root and one more object. *)
First == Sect(1, (Ref(1, 0) :> d1) @@ (Ref(2, 0) :> p1), None, Ref(1, 0), 0, 3, FALSE)
OneRevision == Opened(<<First>>)

(* One revision with the root alone. *)
RootOnly == Opened(<<Sect(1, Ref(1, 0) :> d1, None, Ref(1, 0), 0, 2, FALSE)>>)

(* A second revision: 2 was removed, so its number can be used again with  *)
(* generation 1, and 3 was added.                                          *)
TwoRevisions ==
    Opened(<<First, Sect(2, Ref(3, 0) :> d2, 2 :> 1, Ref(1, 0), 1, 4, FALSE)>>)

(* 1 was removed and can be used again, 2 is the root. *)
FreedDoc ==
    Opened(<<Sect(1, Ref(2, 0) :> d1, 1 :> 1, Ref(2, 0), 0, 3, FALSE)>>)

(* An encrypted document, and one with a Linearized dictionary. *)
EncryptedDoc ==
    Opened(<<Sect(1, Ref(1, 0) :> d1, None, Ref(1, 0), 0, 2, TRUE)>>)
LinearizedDoc == [file |-> <<First>>, linearized |-> TRUE]

(* 1 was removed until its generation was exhausted, 2 is the root. *)
ExhaustedDoc ==
    Opened(<<Sect(1, Ref(2, 0) :> d1, 1 :> MaxGen, Ref(2, 0), 0, 3, FALSE)>>)

(* The root is a reference to an object. *)
LinkDoc ==
    Opened(<<Sect(1, (Ref(1, 0) :> d1) @@ (Ref(2, 0) :> p1) @@ (Ref(3, 0) :> k1),
                  None, Ref(1, 0), 0, 4, FALSE)>>)

(* Object 2 does not parse, or is a bare keyword. *)
DamagedDoc ==
    Opened(<<Sect(1, (Ref(1, 0) :> d1) @@ (Ref(2, 0) :> Damaged), None, Ref(1, 0), 0, 3, FALSE)>>)
KeywordDoc ==
    Opened(<<Sect(1, (Ref(1, 0) :> d1) @@ (Ref(2, 0) :> c1), None, Ref(1, 0), 0, 3, FALSE)>>)

(* The oldest revision is encrypted, the newest is not. *)
OnceEncryptedDoc ==
    Opened(<<Sect(1, Ref(1, 0) :> d1, None, Ref(1, 0), 0, 2, TRUE),
             Sect(2, Ref(1, 0) :> d2, None, Ref(1, 0), 1, 2, FALSE)>>)

(* The root of the oldest revision is not a dictionary. *)
BadRootDoc ==
    Opened(<<Sect(1, Ref(1, 0) :> d1, None, Ref(2, 0), 0, 2, FALSE),
             Sect(2, Ref(2, 0) :> d2, None, Ref(2, 0), 1, 3, FALSE)>>)
=============================================================================
