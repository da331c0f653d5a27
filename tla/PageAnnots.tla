----------------------------- MODULE PageAnnots ------------------------------
(***************************************************************************)
(* CPageAnnots: the annotations of a page, kept beside the Annots entry of *)
(* its dictionary by two watchdogs.                                        *)
(*                                                                         *)
(* PropWatchDog is registered on the dictionary and on the Annots entry    *)
(* when that is a reference; it makes _annotations anew when Annots names  *)
(* another array.  ArrayWatchDog is registered on the array and on each    *)
(* reference in it; it takes one annotation out of _annotations and puts   *)
(* one in for each change of the array.  Both are observers of properties, *)
(* to be registered and unregistered as properties come and go: one that   *)
(* is unregistered where it is not registered throws, and notify may throw *)
(* nothing, so that the program ends.                                      *)
(*                                                                         *)
(* A client edits the page through addAnnotation and delAnnotation, and    *)
(* the dictionary and the arrays directly.                                 *)
(***************************************************************************)
EXTENDS Integers, FiniteSets, SequencesExt

CONSTANTS
    Dicts,      \* dictionaries that are indirect objects
    Inline,     \* dictionaries written into the array itself
    Odd,        \* an indirect object that is neither dictionary nor array
    ArrayRefs,  \* indirect objects that are arrays
    NewArrays,  \* what an array may hold that is new to the page
    NoEntry,    \* there is no Annots entry, no value
    Direct,     \* the array that is the Annots entry itself
    MaxLen      \* bound: the elements of an array

VARIABLES
    entry,         \* what Annots refers to: an indirect object or Direct
    entryWatched,  \* the watchdogs registered on a reference in Annots
    arrays,        \* the arrays, each with the watchdogs on it
    annots,        \* _annotations: the dictionary of each
    alive,         \* the program has not ended
    drifted        \* history: edits since _annotations was made have put
                   \* elements where _annotations does not have them

vars == <<entry, entryWatched, arrays, annots, alive, drifted>>

Targets == Dicts \cup Inline \cup {Odd}

(* An element of the array: what it refers to, or is, and whether          *)
(* ArrayWatchDog is registered on it.                                      *)
Element == [to : Targets, watched : BOOLEAN]
Array == [elems : Seq(Element), watched : BOOLEAN]

ASSUME PageAnnotsAssumption ==
    /\ MaxLen \in Nat \ {0}
    /\ NewArrays \subseteq Seq(Targets) /\ \A s \in NewArrays : Len(s) <= MaxLen
    /\ Dicts \cap Inline = {} /\ Odd \notin Dicts \cup Inline
    /\ {NoEntry, Direct} \cap (ArrayRefs \cup {Odd}) = {} /\ NoEntry # Direct
    /\ Odd \notin ArrayRefs /\ NoEntry \notin Targets

IsRef(t) == t \in Dicts \cup {Odd}
IsDict(t) == t \in Dicts \cup Inline

IsReference(e) == e \in ArrayRefs \cup {Odd}
HasArray(e) == e \in ArrayRefs \cup {Direct}

Unwatched(s) == [elems |-> [i \in DOMAIN s |-> [to |-> s[i], watched |-> FALSE]], watched |-> FALSE]
TargetsOf(arr) == [i \in DOMAIN arr.elems |-> arr.elems[i].to]

-----------------------------------------------------------------------------
(* Helpers of CPageAnnots *)

(* A fault: elements that lead to no dictionary are not ignored. *)
CollectedAll(arr) == TargetsOf(arr)

(* The dictionaries of a sequence: SelectSeq, which proofs cannot unfold. *)
SelectDicts(s) ==
    LET upTo[n \in 0..Len(s)] ==
            IF n = 0 THEN <<>>
            ELSE IF IsDict(s[n]) THEN Append(upTo[n - 1], s[n]) ELSE upTo[n - 1]
    IN upTo[Len(s)]

(* collectAnnotations: dictionaries, whether referred to or not. *)
Collected(arr) == SelectDicts(TargetsOf(arr))

(* A fault: the references in the array are not observed. *)
RegisteredArrayOnly(arr) == [arr EXCEPT !.watched = TRUE]

(* egister_annots with reg_annots, for an array. *)
RegisteredOn(arr) ==
    [elems |-> [i \in DOMAIN arr.elems |->
                  [arr.elems[i] EXCEPT !.watched = @ \/ IsRef(arr.elems[i].to)]],
     watched |-> TRUE]

(* egister_annots with unreg_annots: it throws unless the watchdog is      *)
(* registered on all of them.                                              *)
CanUnregister(arr) ==
    arr.watched /\ \A i \in DOMAIN arr.elems : IsRef(arr.elems[i].to) => arr.elems[i].watched

UnregisteredFrom(arr) == Unwatched(TargetsOf(arr))

(* A fault: the old one is looked for only when there is no new one. *)
ConsolidatedOneSide(old, new) ==
    IF new \in Dicts THEN Append(annots, new)
    ELSE IF old \in Dicts THEN RemoveFirst(annots, old) ELSE annots

(* A fault: the new one is put in front. *)
ConsolidatedInFront(old, new) ==
    (IF new \in Dicts THEN <<new>> ELSE <<>>)
    \o (IF old \in Dicts THEN RemoveFirst(annots, old) ELSE annots)

(* consolidate: dictionaries that are no indirect objects are passed over. *)
Consolidated(old, new) ==
    (IF old \in Dicts THEN RemoveFirst(annots, old) ELSE annots)
    \o (IF new \in Dicts THEN <<new>> ELSE <<>>)

(* _annotations is made anew for the entry e and the arrays as. *)
Recollect(e, as) ==
    /\ annots' = IF HasArray(e) THEN Collected(as[e]) ELSE <<>>
    /\ drifted' = FALSE

-----------------------------------------------------------------------------
(* Changes of an array.  ArrayWatchDog is told of them when it is          *)
(* registered on the array, or for the value of a reference on that.       *)

(* The array, or an element of it, has a watchdog that is told: one        *)
(* element is replaced by another in _annotations.  moved says whether     *)
(* that leaves _annotations in another order than the array.               *)
Notified(told, old, new, moved) ==
    /\ annots' = IF told THEN Consolidated(old, new) ELSE annots
    /\ drifted' = (drifted \/ (told /\ moved))

(* The first element with that target is the one consolidate takes out. *)
IsFirst(arr, i) == \A j \in 1..(i - 1) : arr.elems[j].to # arr.elems[i].to

AddElement(a, i, t) ==
    /\ alive
    /\ Len(arrays[a].elems) < MaxLen
    /\ i \in 1..(Len(arrays[a].elems) + 1)
    /\ arrays' = [arrays EXCEPT ![a].elems =
                    InsertAt(@, i, [to |-> t, watched |-> arrays[a].watched /\ IsRef(t)])]
    /\ Notified(arrays[a].watched, NoEntry, t,
                i <= Len(arrays[a].elems) \/ t \in Inline)
    /\ UNCHANGED <<entry, entryWatched, alive>>

(* CArray::delProperty.  The watchdog is unregistered from the element. *)
DelElement(a, i) ==
    LET old == arrays[a].elems[i] IN
    /\ alive
    /\ arrays' = [arrays EXCEPT ![a].elems = RemoveAt(@, i)]
    /\ Notified(arrays[a].watched, old.to, NoEntry, ~IsFirst(arrays[a], i) \/ old.to \in Inline)
    /\ alive' = (arrays[a].watched /\ IsRef(old.to) => old.watched)
    /\ UNCHANGED <<entry, entryWatched>>

(* CArray::setProperty *)
SetElement(a, i, t) ==
    LET old == arrays[a].elems[i] IN
    /\ alive
    /\ arrays' = [arrays EXCEPT ![a].elems[i] =
                    [to |-> t, watched |-> arrays[a].watched /\ IsRef(t)]]
    /\ Notified(arrays[a].watched, old.to, t, TRUE)
    /\ alive' = (arrays[a].watched /\ IsRef(old.to) => old.watched)
    /\ UNCHANGED <<entry, entryWatched>>

(* A reference in the array gets another value. *)
SetReference(a, i, t) ==
    LET old == arrays[a].elems[i] IN
    /\ alive
    /\ IsRef(old.to)
    /\ arrays' = [arrays EXCEPT ![a].elems[i].to = t]
    /\ Notified(old.watched, old.to, t, TRUE)
    /\ UNCHANGED <<entry, entryWatched, alive>>

-----------------------------------------------------------------------------
(* Changes of the Annots entry *)

(* The watchdogs move to the array of the new entry e; as are the arrays   *)
(* without the watchdogs on the old one.                                   *)
Moved(e, as) == IF HasArray(e) THEN [as EXCEPT ![e] = RegisteredOn(@)] ELSE as

(* A fault: the array that is left is observed as before. *)
StillWatched == arrays

WithoutOld == IF HasArray(entry) THEN [arrays EXCEPT ![entry] = UnregisteredFrom(@)] ELSE arrays

(* Annots is added, replaced or deleted in the page dictionary.  From a    *)
(* reference PropWatchDog unregisters the other watchdog, which is not     *)
(* registered there.                                                       *)
PutEntry(e, s) ==
    /\ entry' = e
    /\ IF IsReference(entry) /\ "ArrayWatchDog" \notin entryWatched
       THEN alive' = FALSE /\ UNCHANGED <<entryWatched, arrays, annots, drifted>>
       ELSE LET as == [WithoutOld EXCEPT ![Direct] = Unwatched(s)] IN
            /\ entryWatched' = IF IsReference(e) THEN {"PropWatchDog"} ELSE {}
            /\ arrays' = Moved(e, as)
            /\ Recollect(e, as)
            /\ alive' = (HasArray(entry) => CanUnregister(arrays[entry]))

SetEntry(e) ==
    /\ alive
    /\ IsReference(e) \/ (e = NoEntry /\ entry # NoEntry)
    /\ PutEntry(e, <<>>)

SetDirectEntry(s) == alive /\ PutEntry(Direct, s)

(* The reference in Annots gets another value. *)
SetEntryReference(e) ==
    /\ alive
    /\ IsReference(entry) /\ "PropWatchDog" \in entryWatched
    /\ entry' = e
    /\ arrays' = Moved(e, WithoutOld)
    /\ Recollect(e, arrays)
    /\ alive' = (HasArray(entry) => CanUnregister(arrays[entry]))
    /\ UNCHANGED entryWatched

-----------------------------------------------------------------------------
(* The page *)

(* add: a copy of the dictionary becomes a new indirect object, and a      *)
(* reference to it the last element.  When Annots is missing an empty      *)
(* array is added first, of which PropWatchDog is told.  An Annots entry   *)
(* that leads to no array makes it throw before anything has changed.      *)
AddAnnotation(d) ==
    /\ alive
    /\ \A a \in DOMAIN arrays : d \notin Range(TargetsOf(arrays[a]))
    /\ IF entry = NoEntry
       THEN /\ entry' = Direct
            /\ arrays' = [arrays EXCEPT ![Direct] = RegisteredOn(Unwatched(<<d>>))]
            /\ annots' = <<d>>
            /\ drifted' = FALSE
            /\ UNCHANGED <<entryWatched, alive>>
       ELSE /\ HasArray(entry)
            /\ AddElement(entry, Len(arrays[entry].elems) + 1, d)

(* A fault: positions count from one. *)
DelNextAnnotation(k) ==
    /\ HasArray(entry)
    /\ k + 1 \in DOMAIN arrays[entry].elems
    /\ DelElement(entry, k + 1)

(* del: the position of the annotation in _annotations is taken for the    *)
(* one of its reference in the array; behind the end delProperty throws.   *)
DelAnnotation(k) ==
    /\ HasArray(entry)
    /\ k \in DOMAIN arrays[entry].elems
    /\ DelElement(entry, k)

(* The page is released, which leaves its watchdogs inactive, and opened   *)
(* again.                                                                  *)
ReopenPage ==
    /\ alive
    /\ LET as == [a \in DOMAIN arrays |-> UnregisteredFrom(arrays[a])] IN
       arrays' = Moved(entry, as)
    /\ entryWatched' = IF IsReference(entry) THEN {"PropWatchDog"} ELSE {}
    /\ Recollect(entry, arrays)
    /\ UNCHANGED <<entry, alive>>

-----------------------------------------------------------------------------
(* A page of a document that may be changed: its CPageAnnots has just been *)
(* made.                                                                   *)
Init ==
    /\ entry \in ArrayRefs \cup {Odd, Direct, NoEntry}
    /\ entryWatched = IF IsReference(entry) THEN {"PropWatchDog"} ELSE {}
    /\ \E held \in [ArrayRefs \cup {Direct} -> NewArrays \cup {<<>>}] :
          LET as == [a \in DOMAIN held |-> Unwatched(held[a])] IN
          /\ entry # Direct => held[Direct] = <<>>
          /\ arrays = Moved(entry, as)
          /\ annots = IF HasArray(entry) THEN Collected(as[entry]) ELSE <<>>
    /\ alive = TRUE
    /\ drifted = FALSE

(* The arrays a client can reach. *)
Reachable == ArrayRefs \cup ({entry} \cap {Direct})

Next ==
    \/ \E a \in Reachable, i \in 1..(MaxLen + 1), t \in Targets : AddElement(a, i, t)
    \/ \E a \in Reachable : \E i \in DOMAIN arrays[a].elems : DelElement(a, i)
    \/ \E a \in Reachable, t \in Targets : \E i \in DOMAIN arrays[a].elems : SetElement(a, i, t)
    \/ \E a \in Reachable, t \in Dicts \cup {Odd} :
          \E i \in DOMAIN arrays[a].elems : SetReference(a, i, t)
    \/ \E e \in ArrayRefs \cup {Odd, NoEntry} : SetEntry(e)
    \/ \E s \in NewArrays : SetDirectEntry(s)
    \/ \E e \in ArrayRefs \cup {Odd} : SetEntryReference(e)
    \/ \E d \in Dicts : AddAnnotation(d)
    \/ \E k \in DOMAIN annots : alive /\ DelAnnotation(k)
    \/ ReopenPage

Spec == Init /\ [][Next]_vars

-----------------------------------------------------------------------------
(* Properties *)

(* Every variable has its type, and a page without an array of its own has *)
(* none to be edited.                                                      *)
PageAnnotsTypeOK ==
    /\ entry \in ArrayRefs \cup {Odd, Direct, NoEntry}
    /\ entryWatched \subseteq {"PropWatchDog", "ArrayWatchDog"}
    /\ arrays \in [ArrayRefs \cup {Direct} -> Array]
    /\ \A a \in DOMAIN arrays : Len(arrays[a].elems) <= MaxLen
    /\ alive \in BOOLEAN /\ drifted \in BOOLEAN
    /\ annots \in Seq(Dicts \cup Inline)
    /\ alive /\ entry # Direct => arrays[Direct] = Unwatched(<<>>)

Occurrences(d, s) == Cardinality({i \in DOMAIN s : s[i] = d})

(* The page has an annotation for each reference to a dictionary in the    *)
(* array Annots leads to and no more, whatever was done to the array, to   *)
(* the references in it and to Annots itself.                              *)
AnnotsInStep ==
    alive =>
        \A d \in Dicts :
            Occurrences(d, annots)
                = IF HasArray(entry) THEN Occurrences(d, TargetsOf(arrays[entry])) ELSE 0

(* The watchdogs are where the next change of the annotations will come    *)
(* from, and nowhere else: an array that was left, whose elements change   *)
(* later, has none, and one that is unregistered is registered.            *)
WatchersFollow ==
    alive =>
        /\ entryWatched = IF IsReference(entry) THEN {"PropWatchDog"} ELSE {}
        /\ \A a \in DOMAIN arrays :
              /\ arrays[a].watched = (a = entry)
              /\ \A i \in DOMAIN arrays[a].elems :
                    arrays[a].elems[i].watched = (a = entry /\ IsRef(arrays[a].elems[i].to))

(* As long as references are only appended, and elements deleted that are  *)
(* the first with their value, annotations are in the order of the array:  *)
(* del goes by it.                                                         *)
AnnotsInOrder ==
    alive /\ ~drifted =>
        annots = IF HasArray(entry) THEN Collected(arrays[entry]) ELSE <<>>

(* del takes the annotation it was given, no other, while the array holds  *)
(* nothing but annotations in the order of _annotations.                   *)
DelTakesGiven ==
    [][\A k \in DOMAIN annots :
          alive /\ DelAnnotation(k) /\ ~drifted /\ Odd \notin Range(TargetsOf(arrays[entry]))
              => TargetsOf(arrays'[entry]) = RemoveAt(annots, k)]_vars

(* Nothing ends the program but that the page dictionary gets another      *)
(* value for an Annots entry that is a reference, see NeverEnds.           *)
EndsOnlyFromReference == [][alive' \/ IsReference(entry)]_vars

-----------------------------------------------------------------------------
(* What comments in the code say, and the code does not do *)

(* PropWatchDog: "If it is reference, unregisters this observer from it."  *)
NeverEnds == alive

=============================================================================
