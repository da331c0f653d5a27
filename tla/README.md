# PDFedit: a TLA+ verification project

PDFedit edits PDF files in place. A PDF file is extended by *incremental
updates*: each save appends changed objects, a cross reference table and a
trailer that points back (`Prev`) to the table it continues, so every save can
be a *revision* that is still readable later. The core of the program is the
object store that reads such a file, keeps changes pending over it, lets the
user walk through the revisions and writes the changes behind the last
committed section. Above it lie the page tree, whose pages the program holds, inserts and
removes, copies of objects from other documents, the content streams, which
hold the operators that paint a page, and its annotations. This project models
all five, checks them with TLC and proves part of them with TLAPS.

All paths are relative to the repository; `kernel/` is `src/kernel/`.

## 1. Inventory

| component | state | operations | properties that make it correct |
|---|---|---|---|
| `XRef` (`src/xpdf/xpdf/XRef.cc`) | `entries`, `maxObj`, `trailerDict`, `lastXRefPos` | parse from a table, `fetch`, `knowsRef` | the table is that of the current revision; the newest row of a number wins |
| `CXref` (`kernel/cxref.cc`) | `changedStorage`, `newStorage`, `currTrailer`, encryption flags | `changeObject`, `changeTrailer`, `reserveRef`, `createObject`, `reopen`, `setCredentials` | references handed out are new; pending values hide those of the file |
| `XRefWriter` (`kernel/xrefwriter.cc`) | `revisions`, `revision`, `storePos`, `mode`, the writer | the same behind checks, `changeRevision`, `saveChanges`, `saveToNew`, `saveDecoded` | revisions never change; older revisions show nothing pending; a new revision shows what was pending |
| `OldStylePdfWriter` (`kernel/pdfwriter.cc`) | `offTable`, `maxObjNum`, `ignore_stream_` | `writeContent`, `writeTrailer`, `reset` | rows lead to the objects; `Prev` and `Size` are right; nothing is left for the next section |
| `CPdf` objects (`kernel/cpdf.cc`) | `indMap`, `mode`, `change` | `getInstance`, `getIndirectProperty`, `changeIndirectProperty`, `addIndirectProperty`, `save`, `changeRevision`, `setCredentials` | it is a store of versions; the mapping and the change flag never lie |
| `CPdf` pages (`kernel/cpdf.cc` 2374-3106) | `pageList`, `pageCount`, `nodeCountCache`, observers on the page tree | `getPage`, `insertPage`, `removePage`, `consolidatePageList`, `consolidatePageTree` | positions of the pages held agree with the tree; `Count` of a node is the number of its leaves |
| copies between documents (`kernel/cpdf.cc` 1661-2207) | `resolvedRefMapping` | `addIndirectProperty` of a foreign property, `subsReferencies`, `registerIndirectProperty` | a copy is complete and its references lead to copies; each object is copied once; cycles end; nothing else is overwritten |
| properties and observers (`kernel/iproperty.cc`, `cdict.cc`, `carray.cc`, `utils/observer.h`) | values, parents, observer lists with priorities | setters, `dispatchChange`, `notifyObservers` | the indirect parent hears of each change once |
| content streams (`kernel/ccontentstream.cc`, `pdfoperators*.cc`, `stateupdater.cc`) | operators as a tree and as a list, the streams they are read from, observers on both | parse, delete, insert, replace, replace a text, save | tree and list agree; an edit changes one place; what the streams hold is what the operators spell |
| contents of a page (`kernel/cpagecontents.cc`) | `_ccs`, the watchdog on `Contents` | add to front and back, add text and images, remove, move | `_ccs` and `Contents` name the same streams in the same order; added streams stay apart |
| annotations of a page (`kernel/cpageannots.cc`) | `_annotations`, a watchdog on the page dictionary and `Annots`, one on the array and its references | add, delete, the two `notify` | the page has an annotation for each reference in the array; the watchdogs are where the next change comes from; `del` takes the one it is given |
| `Delinearizator`, `Flattener` | one document copied object by object | `writeDocument` | all that is reachable is copied |
| stream writers, xpdf renderer, GUI, tools, utilities | - | - | out of scope: I/O, third party code, user interface |

The components call each other from the top: properties dispatch a change to
`CPdf`, which registers it in `XRefWriter`, which checks it and stores it in
`CXref`, which lies over `XRef`. Saving goes the other way: `XRefWriter` hands
clones of the pending objects to the writer, and reopens `XRef` on what was
written. Page caches are kept in step by observers that run inside a setter.

What is hard in this code is not concurrency: there is one thread and nothing
waits. It is the *order of legal calls* (save, save as a revision, look at an old
revision, change, save again), *stale state* (mapping, flags, tables and a writer
that outlive the revision or the save they were made for, a mapping of references
that is kept for ever, content streams a client keeps), *second accounts* that
observers keep in step with what they describe, *failures half way* (an exception
in a save to another file, in the middle of a recursive copy, a change of revision
that fails after the revision has changed), *recursion that must end*, and
*boundaries* (the last number in use, exhausted generations, the size of a table,
a reader that is two tokens ahead). `PROJECT.json` lists the hazards with their
lines.

Smaller hazards, which are in no model: a stream whose encoding yields no bytes is
not written while its row is (`kernel/pdfwriter.cc:336`); a reference `0 0 R` in an
object that is copied has no entry and a null pointer is followed
(`kernel/cpdf.cc:2029`); a direct property carries the reference of the object it
lies in, so that adding one from another document maps that object to the copy of
a part (`kernel/cpdf.cc:2185`); `registerIndirectProperty` leaves a property of an
earlier copy mapped (`kernel/cpdf.cc:1895`); a second instance of a page is
inserted again (`kernel/cpdf.cc:3022`); a stream that one content stream names
twice is emptied after it was written (`kernel/ccontentstream.cc:730`);
`removePage` and `insertPage` take the first position of the page in the `Kids` of its
`Parent` without asking whether there is one (`kernel/cpdf.cc:3102`); `docCatalog`
stays when `Root` is changed in the trailer (`kernel/cpdf.cc:1638`); of two
generations of one number that are pending in easy mode one is lost
(`kernel/pdfwriter.cc:642`); `addProperty` of an array counts its position down to
0 before it tells the observers where the element is (`kernel/carray.cc:223`); a
property kept from before a change of revision dispatches its change to the object
that is mapped now, and the change is lost (`kernel/iproperty.cc:106`);
`moveAbove` has changed `_ccs` when `setContents` throws
(`kernel/cpagecontents.cc:1012`); the time of a change is looked for in the first
operand of its tag, where the name is (`kernel/contentschangetag.cc:92`).

## 2. Plan

1. **Object store and revisions** (done): `PdfFile`, `OldStylePdfWriter`,
   `XRefWriter`, `CPdfDocument`, and the abstract `VersionedStore` that
   `CPdfDocument` implements; `CPdfDocumentProofs`.
2. **Page tree** (done, but for what section 5 leaves out): `PageTree`, the tree
   with `Kids`, `Count` and `Parent` and the caches of `CPdf` over it, and the
   abstract `PageSequence` it implements; `PageTreeProofs`, `PageListProofs`. Still to
   come: nodes that are in the tree twice, wrong `Parent` entries, and `docCatalog`, which ties the tree to
   the object store.
3. **Copies between documents** (done): `DocumentCopy`, `DocumentCopyProofs`. Still
   to come: the same over `CPdfDocument`, whose mapping to properties a repeated
   copy passes by.
4. **Content streams** (done, but for what section 5 leaves out):
   `ContentStream`, `PageContents`, `ContentStreamProofs`, `PageContentsProofs`.
5. **Annotations** (done): `PageAnnots`, `PageAnnotsProofs`. Still to come: an
   `Annots` array that is replaced as an indirect object, which nothing observes.
6. **Observers and properties**: parents, properties that are detached or left
   behind by another revision.
7. **Proofs** of all modules (done, but for what section 6 lists as only
   model-checked).

## 3. Modules

* `PdfFile` - a file is a sequence of sections; a section has a table, the
  objects written and a trailer, and its index stands for its offset. `Chain`,
  `LoadEntries`, `LoadMaxObj` and `Lookup` are what `XRef` makes of it when it
  parses from a table; `Content(f, p)` is the document a fresh parse shows.
  Object values are model values told apart by type: dictionaries, plain
  values, references, keywords (values the parser accepts and the writer does
  not) and null. `WellFormed` says which files can be opened: `Prev` leads
  backwards, rows lead backwards or nowhere.
* `OldStylePdfWriter` - operators for the state of the writer between calls and
  for the section that `writeContent` and `writeTrailer` produce from it. An
  object whose reference is in the offset table already is skipped.
* `XRefWriter` - `XRef`, `CXref` and `XRefWriter` in one module, because they
  are one object by inheritance: `reopen`, `fetch` and `getTrailerDict` of the
  lower classes call virtual methods of the upper ones. One variable per field,
  one action per call that takes effect. A call that is refused leaves the
  state alone and is no step; where a refusal *does* change state
  (`SaveDecoded`, and `SetProperty`, `AddIndirectProperty` of an encrypted
  document) it is part of the action.
* `VersionedStore` - what a user is promised: a history of documents, a working
  document, what is durable, and the revision looked at. Four actions: `Look`,
  `Edit`, `Checkpoint`, `Commit`.
* `CPdfDocument` - `CPdf` on top of `XRefWriter`. `Store` maps it to
  `VersionedStore`: a revision is the content parsed from its section, the
  working document is the newest revision with what is pending over it, the
  durable document is the content of the last section of the file.
* `PageSequence` - a document is a sequence of different pages and the program
  holds some of them. An edit cuts out a part of the sequence or brings one in,
  or both in one place, and exactly the pages that are cut out are let go.
* `PageTree` - the nodes of the tree with the entries `Kids`, `Parent` and
  `Count`, the pages held by position (`pageList`) and the two caches
  (`pageCount`, `nodeCountCache`). The operations are `getPageCount`, `getPage`,
  `insertPage`, `removePage`, the edits of a `Kids` array that the program makes
  itself, a new array for a node, another root, and another revision. Each edit
  includes what the observers do during it: `KidsNotify` is
  `PageTreeKidsObserver::notify`, `NodeNotify` is `PageTreeNodeObserver::notify`,
  and both use `ConsolidatePageTree` and `ConsolidatePageList`. The searches
  (`FindPage`, `NodePosition`) say, beside what they find, which nodes they
  counted on the way, because the cache learns those (`Counted`), and what the
  cache has learnt is what later answers are made of. `Sequence` maps the
  module to `PageSequence`.
* `DocumentCopy` - the document that is copied to (its store reduced to numbers of
  generation 0), and documents that come and go at addresses. A copy is a
  recursion, and each turn of it is a step: `stack` holds the calls of
  `addProperty` that have not returned, with the references of the object still
  to be replaced (`todo`) and those put in (`done`); `resolved` is
  `resolvedRefMapping` with the states *new*, *resolving* and *resolved*. Nothing
  else happens while a copy runs. Two history variables name what the code loses
  sight of: `lost`, the numbers reserved for a copy that a new revision has
  forgotten, and `failed`, the documents a copy from which has thrown.
* `ContentStream` - no state; operators over a record that stands for one content
  stream: its word of operators, the tree (`kids`), the list (`next`, `prev`) and
  the operators that are observed (`own`). Parsing, where one content stream ends
  and the next begins (`Breaks`, which knows that the reader is two tokens ahead),
  and the edits as `CContentStream` makes them, relinking tree and list one by one.
* `PageContents` - the words in the streams, the `Contents` entry, `_ccs`, and the
  content streams there are, those of the page and one a client keeps (`held`).
  An action is one call: an edit of a content stream with the writing and the
  notifications it causes (`Changed`, `Written`, `Notified`), a content stream that
  is added, removed or moved, and what clients do to `Contents` and to streams,
  with the watchdog's answer. History: `dirty`, edits that were not to be seen yet;
  `cut`, a composite that `insertOperator` has put before another operator;
  `unseen`, an array behind a reference was changed; `twice`, a stream was added to a
  page without parsed content streams, or was twice in `Contents` when the page was
  parsed. Each is an exception in one property, which fails without it.
* `PageAnnots` - the `Annots` entry, the arrays it may lead to with the elements and
  whether the watchdogs are registered on each, and `_annotations`. One action per
  change of an array (`AddElement`, `DelElement`, `SetElement`), of a reference in it
  (`SetReference`), of the entry (`SetEntry`, `SetDirectEntry`) and of a reference
  there (`SetEntryReference`); each includes what the watchdog does (`Notified`,
  `PutEntry`). `AddAnnotation` and `DelAnnotation` are `add` and `del`. `alive` is
  false once an exception has left a `notify`, which is declared to throw nothing.
  History: `drifted`, an edit has put an element where `_annotations`, which only
  appends, does not have it.
* `MCDocuments`, `MCXRefWriter`, `MCCPdfDocument`, `MCPageTree`, `MCDocumentCopy`,
  `MCPageContents`, `MCPageAnnots` - files, trees, documents and pages to open, and bounds.
* `CPdfDocumentProofs` (with what it needs of `PdfFile` and `XRefWriter`),
  `PageTreeProofs`, `DocumentCopyProofs`, `PageAnnotsProofs`, `ContentStreamProofs`,
  `PageContentsProofs` - lemmas and proofs, each about the module it is named after;
  `PageListProofs` - about the list of pages of `PageTree`, and `PageSequence`;
  `SequenceFacts` - lemmas about sequences. See section 6.

Operators whose comment starts with "A fault" are variants of the operator next
to them with a mistake in it. They are used by nothing; putting one in the
place of its neighbour shows that the properties notice.

## 4. Runs

| run | documents | what it shows |
|---|---|---|
| `XRefWriter_history` | two revisions with a freed number; encrypted; linearized; a freed and an exhausted number; an object that does not parse; a keyword as an object | the parsed table is the one of the current revision; older revisions show nothing pending; revisions never change; numbers handed out are in use nowhere; `Size` covers all numbers; the dirty writer a failed `saveDecoded` leaves harms no revision |
| `CPdfDocument_edit` | two revisions; linearized; encrypted; references as objects; a revision without a usable root; the root alone in the advanced mode | `CPdf` implements `VersionedStore`, in the mode that checks types and in the one that checks nothing and takes a trailer to anywhere; mapping, change flag and root are right; the revisions found by opening again are those in memory; numbers handed out are new, `Size` covers all |
| `PageTree_edits` | a flat tree, two levels, a chain, under all names of leaves and nodes | each page held is where `CPdf` says, the searches agree with the tree, remembered numbers are true, `Count` and `Parent` are right, and `CPdf` implements `PageSequence` |
| `DocumentCopy_copies` | one with a cycle; one whose objects refer to themselves, to one that does not parse and to none; a property of no document | what is mapped as resolved is complete, and so is what it refers to, but where a copy has thrown or a number was forgotten; no two objects share a reference, a copy overwrites nothing else, a copy that throws nothing leaves nothing half done, and every copy ends |
| `PageAnnots_edits` | `Annots` is an array, a reference to one or to something else, or missing; the arrays hold two annotations, one twice, one written inline, or one behind another object | each annotation in the array is an annotation of the page, as often; the watchdogs are where they belong and nowhere else; the orders agree until an edit is named that parts them, and `del` takes the one it is given |
| `PageContents_edits` | one stream with nested composites; two streams with a composite over the border, behind a reference; three streams of one operator; none | tree and list agree, an edit changes one place, streams hold what operators spell, `_ccs` is `Contents`, added streams stay apart |

Bounds: `MaxNum` object numbers (2 or 3), `MaxGen` generations, `MaxSections`
(no save beyond that many sections: two saves behind a document with one
revision, one behind two), `MaxChanged` and `MaxNew` (pending objects and
references handed out). They are small, and enough for what can go wrong here:
a section needs one predecessor and one successor, the rule that the first row
of a number wins needs two sections with a row for it, a reference is handed out
wrongly when one number is free, one in use and one behind all, and two
generations suffice for "used again" and "exhausted". One pending object at a
time is enough because objects do not interact except over `LinkTarget`, and
uncommitted sections still mix old and new objects. Two references are handed
out at a time in the documents with numbers to be used again only
(`NewWhereReused`), and the last section is written behind documents with a
history only (`SavesWhereHistory`); in the two documents of `XRefWriter_history`
with the most states two values are given (`FewValues`). In `CPdfDocument_edit`
the second dictionary is a new value only where an object is a link to the first,
and the trailer changes in the other documents (`FewValues`). The advanced mode
opens the document with the root alone (`AdvancedOnRootOnly`); it changes two
numbers there, and the trailer before the first save (`FewInAdvanced`): what it
adds is that nothing is refused, which more objects do not add to. These
constraints cut behaviours, they excuse no property.

`PageTree_edits` has three leaves, a root and two more intermediate nodes, and
arrays of three elements. That is enough for a node in a node, an empty node, a
page in front of, below and behind a node that is cut out, a node that goes
out of the tree with its pages and comes back elsewhere, and every subset of
pages held and of numbers cached in between. One leaf fewer would leave nothing
behind a node with two pages; a fourth adds no new relation between positions,
which move by one difference. Leaves may be renamed, and nodes other than the
root, which is the symmetry the run uses. `MayReplace` is false: the program edits
nodes of the tree one element at a time, and gives an array only to a node that
has none; the disagreement below lets it replace arrays as a whole.

`DocumentCopy_copies` has three references in a document and one address. Three are
a cycle with something beside it; one address is enough for a document that is
closed and another that comes to its place. Four numbers here are one for the
root, and three for copies: one too few when an object of the document itself is
added, so that copies also fail for want of numbers. `MaxOwn = 1` bounds objects
that are no copies and copies that were edited, `MaxLost = 1` the numbers that new
revisions have forgotten. `MaxDepth = 4` is never reached:
calls on the stack are for different references. It is there so that a recursion
without end would be found as a behaviour that goes on for ever.

`PageContents_edits` has three calls, four streams and content streams of up to six
operators; three calls are an edit that is not to be seen, a change by somebody
else and an edit of what came of it, or a stream that is added, moved and parsed
again. What is inserted is an operator or a composite of three. A client keeps one
content stream, chosen before the first call (`OneHeld`), and edits that are not
to be seen begin with the first call (`UnseenFirst`). `EditsChangeOnePlace` tries
every edit in the states in which one may still be made. The number of calls is
bounded, so this system stops, and deadlock is not checked.

`PageAnnots_edits` has arrays of up to three elements over two dictionaries, one
inline dictionary and one other object: the array of the entry itself and one
behind a reference. Three elements are enough for one in front of, at, and behind
the place of an edit, with one twice. The program may end, so deadlock is not
checked. The other systems never stop, and deadlock is checked in every run of theirs.

*Fairness.* `DocumentCopy` assumes weak fairness of `CopyStep`: a call that was made
goes on, for there is one thread and it is in that call. Nothing is assumed of
the user, nor of anything in the other modules, where each call is one step and
nothing has to happen eventually.

### Disagreements with the documentation

Each is a run of its own that TLC refutes; `PROJECT.json` quotes the sentences.

* `XRefWriter_NewRevisionShowsSame` - the property that holds in
  `XRefWriter_history` fails for a document with an object the writer cannot
  write: the exception in `saveDecoded` leaves the objects written so far in
  the offset table, and the next save skips them and writes rows with offsets
  of the other file. The shared writer is never reset on the way out.
* `XRefWriter_EncryptionSeen` - `changeRevision` reads `Encrypt` through
  the virtual `getTrailerDict` before the revision number has changed.
* `CPdfDocument_SetterNotRefused` - `canChange` knows nothing of encryption, so
  that a setter changes its value and fails afterwards.

* `PageTree_PagesInPlace` - when a node gets another `Kids` array in the place of
  the one it has, the observer takes the old elements out and puts the new ones
  in, one after the other, in a tree that has its final shape from the start. A
  step with no position to go by looks the pages held up in that tree, and the
  next steps move them once more.

* `DocumentCopy_NoneLeftResolving` - an entry is set to *resolving* before the
  recursion, and when an object of the other document does not parse nothing puts
  it back. The next copy of the object fails an assertion, and copies of others
  that refer to it get a reference with nothing behind it. These are the references
  `CopiesComplete` excepts (`IsLeftResolving`); it shows that there are no others.

* `PageAnnots_NeverEnds` - when the page dictionary gets another value for an
  `Annots` that is a reference, the watchdog of the entry unregisters the watchdog
  of the array from it, which is not registered there. The exception leaves a
  function declared `throw()`, and the program ends. `EndsOnlyFromReference` shows
  that nothing else in the bookkeeping of the watchdogs does this.

Seen with `CPdfDocument` and not kept as a run: a change of the trailer does not set
the change flag (`kernel/cpdf.cc:3177`), and `saveChanges` writes nothing when only
the trailer has changed, so that `isChanged` says no while a change is pending,
though `kernel/cpdf.h:846` says that it is true if and only if changes have not been
saved. `UnchangedIsSaved` therefore speaks of objects.

Seen with `PageTree` and not kept as a run: with `Docs <- WrongDocs` in
`PageTree_edits.cfg`, a document whose `Count` entries are wrong,
`RememberedCountsTrue` fails. A page more or less can make the number equal to
the wrong `Count`, `consolidatePageTree` then finds nothing to change and
reports that the number of pages is kept (`kernel/cpdf.cc:2899`), and
`pageCount` stays, although `kernel/cpdf.h:901` says that it is set to 0 with
every such change.

Seen with `DocumentCopy`: without the exception for `lost`, `MappedApart` and
`NothingOverwritten` fail. A copy that follows no references reserves numbers for
what it refers to; saving as a new revision forgets them (`kernel/cxref.cc:112`)
while `resolvedRefMapping` goes on naming them; they are handed out to others, and
in easy mode a later copy overwrites these objects. `CopiesComplete` says nothing of
what such a number holds either: a copy that is complete may refer to one, and an
object of the document itself be there. And a copy without its
references that is edited and copied again is overwritten, where
`kernel/cpdf.h:1136` says that no object is added.

Seen with `PageContents`, as the exceptions of its properties: `insertOperator` of a
composite before another operator links its head with that operator and leaves its
children out of the list (`kernel/ccontentstream.cc:919`), so that later edits of
them throw; `insertOperator` into a content stream without operators writes
nothing, where `kernel/ccontentstream.h:399` says that the change is written if
`indicateChange` is true; `addToFront` and `addToBack` put the new content stream
into `_ccs` twice when the page was not parsed yet (`kernel/cpagecontents.cc:299`),
and a later move writes the stream twice into `Contents`. Once a stream is there
twice - and the next parse does not end it - `remove` of a content stream takes the
first references to its streams out of `Contents`, which may be those of another
content stream (`kernel/cpagecontents.cc:790`), and the write of a content stream
that has it twice empties it again (`kernel/ccontentstream.cc:730`); an array behind a
reference may change without the watchdog; and a stream that was added behind a
page of one operator without operands becomes a part of the content stream before
it, though `kernel/cpagecontents.h:160` promises to separate changes.

Seen with `PageAnnots`, as the condition `drifted`: `del` finds the annotation in
`_annotations`, of which `kernel/cpageannots.cc:407` says that it is synchronized
with the array, and deletes the element at that position
(`kernel/cpageannots.cc:423`). After an element was inserted, set or deleted by
somebody else the orders may differ, and it takes another annotation out of the
page.

Read in the code and not kept as runs: `CAnnotation::invalidate` never clears `valid`
(`kernel/cannotation.cc:276`), and `del` calls it twice; in `subsReferencies` the followed property
is passed where the flag to follow is expected, so that what lies deeper is always
followed (`kernel/cpdf.cc:2044`); a property of a document that was closed and one
of no document share the entry of no document (`kernel/cpdf.cc:2137`);
`getNumObjects` takes revision 0 for the
newest one (`kernel/xrefwriter.h:620`); `XRefWriter::saveChanges` does not look
at the revision (`kernel/xrefwriter.cc:773`, `CPdf::save` does); `saveDecoded`
writes pending values in older revisions (`kernel/xrefwriter.cc:582`);
`reserveRef` hands out an exhausted number behind the last one in use
(`kernel/cxref.cc:309`); a node of the page tree that is changed while it is out
of the tree comes back with its old `Count`, for `consolidatePageTree` sets the
`Parent` of the children and no more (`kernel/cpdf.cc:2801`), where
`kernel/cpdf.h:625` says that it consolidates them as well.

## 5. What is assumed and what is left out

* In `DocumentCopy` an object is its type and the references in it. Objects that are
  themselves references, and the reference `0 0 R`, are left out. Properties of the
  target are not there: `EditCopy` is a setter seen from the store.
* In `ContentStream` operators are told apart by name, and by text where they show
  one. Bounding boxes, the graphical state, other operands, bytes of inline images
  and operands without an operator are left out; so are pages whose `Contents` names
  a stream twice, `CPageChanges`, and documents that do not allow changes.
* In `PageAnnots` dictionaries have no content, and `add` makes a new one. The `Annots`
  array is changed through its own methods: one that is replaced as an indirect
  object is left out. Watchdogs of a page that was released are inactive and not
  in the state.
* Input files use cross reference tables. Cross reference streams, object
  streams and the reconstruction of broken tables are not modelled; nor is
  decryption, beyond the two flags.
* Dictionaries have no content. `saveDecoded` may therefore reach any set of
  objects that contains the root, and a change of an object is a new value of
  it. Of the trailer only `Root`, `Encrypt`, `Prev` and `Size` are there, and
  only `Root` is changed by `changeTrailer`.
* All numbers lie inside the array `entries` (its size grows by 1024).
* A save happens as a whole. A crash in the middle of one, and failures of the
  operating system, are not modelled.
* `CPdfDocument` has no pages and `PageTree` no object store: each has the part of
  `initRevisionSpecific` that concerns it. `docCatalog` is not modelled, the root
  of the page tree is a variable of `PageTree`.
* In `PageTree` every element of a `Kids` array is a reference to a node, every
  node has its type, no node is in the tree twice, and the program changes nodes of
  the tree only. So
  `AmbiguousPageTreeException`, missing or mistyped entries and the assertion in
  `consolidatePageList` are out of reach. `Kids` arrays are direct: the cache of
  indirect ones (`pageTreeKidsParentCache`) is not there. Observers sit on the
  nodes of the tree and nowhere else, as registering and unregistering keeps
  them as long as no node is in the tree twice. Instances of `CPage` are
  identified with their dictionaries; a page that is let go is invalid.
  `insertPage` takes a dictionary nothing refers to: a copy of a page of another
  document, or a page that was removed.

## 6. Proofs

`tlapm` checks every step of `CPdfDocumentProofs`, `PageTreeProofs`,
`PageListProofs`, `DocumentCopyProofs`, `PageAnnotsProofs`, `ContentStreamProofs`,
`PageContentsProofs` and `SequenceFacts`. The theorems hold
for every set of documents, every number of objects, generations, sections,
references, nodes and pages, arrays, streams, operators and calls, and for all modes. What is
assumed of the constants is

* `ConstantsAssumption`: there is at least one number and one generation above 0,
  the kinds of values are apart, and the special values are none of them;
* `DocsAssumption`: the files that are opened satisfy `WellFormed` (`Prev` and rows
  lead backwards); `OpenModesAssumption`: the modes are those there are;
* `CopyAssumption`: the objects of the documents copied from are objects, and the
  special values are apart;
* `PageTreeAssumption`, `ArraysAssumption`, `DocsAssumption`: there are finitely many
  nodes, leaves and intermediate ones are apart, the `Kids` arrays of a document that
  is opened hold no node twice and make trees of any depth, and no array is longer
  than `MaxKids`;
* `PageAnnotsAssumption`: arrays have at least one place, new arrays fit into it,
  and dictionaries, inline dictionaries and other objects are apart;
* `PageContentsAssumption`: pages name streams that are there, one where `Contents` is
  a stream; streams and insertions are words of operators, the insertions complete
  composites.

TLC evaluates them in every run. Some theorems have a hypothesis about the files
opened, because the code is wrong, or says nothing, without it:

* `NoKeywords`: no object is a bare keyword. The exception such an object causes in
  `saveDecoded` leaves offsets of another file in the writer, and what is saved next
  is not what was worked on (`XRefWriter_NewRevisionShowsSame`). The theorems that
  say nothing of *new* revisions do not need it.
* `SizesAreRight`: the `Size` of a trailer is above the numbers in use. It is taken
  from the file and only ever raised.
* `RightDocs`: in the page trees that are opened `Count` and `Parent` are right.
  `consolidatePageTree` takes a `Count` that is right after an edit for one the edit
  has not touched, and then leaves `pageCount` as it was.
* `TopDocs`: in them nothing is above a root. The way up along `Parent`, which
  `isNodeDescendant` takes to find out whether a page held was below what has been cut
  out, would go on above it.
* `FewPages`: there are fewer pages than positions. A position is a `size_t` that
  wraps when it is moved (`SizeT`, 2^20 in the model in the place of the width).
* `MayReplace = FALSE`: no node gets another `Kids` array in the place of one that
  has elements (`PageTree_PagesInPlace`, section 5); a node that has none may get any.
* `EncryptedRootsAreDicts`: the root of an encrypted document is a dictionary. It
  cannot be looked at before there are credentials, and `initRevisionSpecific`
  throws when it is looked at then.

| module | theorem | says of every behaviour |
|---|---|---|
| `CPdfDocumentProofs` | `TypeCorrect` | `TypeOK`: types, revisions inside the committed part, one uncommitted section at most |
| | `TableIsOfRevision` | `TableOfRevision`: what XRef parsed is the table of the current revision |
| | `RevisionIsShown` | `RevisionShown`: old revisions show the file and nothing pending |
| | `RevisionsAreKept` | `RevisionsKept`: a listed revision keeps its number and its document |
| | `CommittedIsKept` | `CommittedKept`: nothing is written into the committed part |
| | `NewRefsAreFresh` | `NewRefsFresh`: references handed out are new and differ in their numbers |
| | `SizesCoverAll` | `SizeCoversAll`: every trailer written has a `Size` above all numbers (`SizesAreRight`) |
| | `PdfTypeCorrect` | `PdfTypeOK`: types, and no null, reference or keyword is mapped to a property |
| | `HistoryIsFound` | `ReopenFindsRevisions`: the revisions in memory are those a parse finds |
| | `PdfRevisionsAreKept`, `PdfNewRefsAreFresh`, `PdfSizesCoverAll` | the same of `XRefWriter` under the calls of `CPdf` |
| | `PropertiesShowObjects` | `PropertyShowsObject`: a mapped property has the value of its object (`NoKeywords`) |
| | `UnchangedMeansSaved` | `UnchangedIsSaved`: without the change flag the file has what is worked on (`NoKeywords`) |
| | `RootIsDict` | `RootStaysDict`, in the modes that check types (`NoKeywords`, `EncryptedRootsAreDicts`) |
| | `ImplementsVersionedStore` | `ImplementsStore`: each step is one of `VersionedStore` or a stutter (`NoKeywords`) |
| `PageTreeProofs` | `PageTreeTypes` | `PageTreeTypeOK`: the tree stays a tree, pages held are leaves (`RightDocs`) |
| | `TreeAlwaysConsistent` | `TreeConsistent`: `Count` and `Parent` are right after every edit (`RightDocs`) |
| | `CountsAlwaysTrue` | `RememberedCountsTrue`: the numbers remembered are those of the tree (`RightDocs`) |
| | `PagesAlwaysFound` | `PagesAreFound`: the searches agree with the tree, whatever they remember (`RightDocs`) |
| `PageListProofs` | `PagesAlwaysInPlace` | `PagesInPlace`: pages held are where `CPdf` says (`RightDocs`, `TopDocs`, `FewPages`, `MayReplace = FALSE`) |
| | `ImplementsPageSequence` | `ImplementsSequence`: each step is one of `PageSequence` or a stutter (the same) |
| `DocumentCopyProofs` | `TypeCorrect` | `CopyTypeOK`: types, and a call that runs is for an entry that is being resolved |
| | `ResolvedIsComplete` | `CopiesComplete`: what is resolved is complete and refers to what is copied as well, but for entries an exception has left resolving, and forgotten numbers |
| | `ObjectsAreApart` | `MappedApart`: no two objects are copied to one number |
| | `SettledUnlessFailed` | `CopiesSettled`: nothing is left half done but by an exception |
| | `CopiesOverwriteNothing` | `NothingOverwritten`: a copy writes over earlier copies of the object only |
| `PageAnnotsProofs` | `TypeCorrect` | `PageAnnotsTypeOK` |
| | `AnnotsAlwaysInStep` | `AnnotsInStep`: each annotation as often as the array refers to it |
| | `WatchersAlwaysFollow` | `WatchersFollow`: the watchdogs are where the next change comes from |
| | `AnnotsAlwaysInOrder` | `AnnotsInOrder`: until an edit parts the orders, they agree |
| | `DelTakesTheGiven` | `DelTakesGiven`: and `del` takes the one it is given |
| | `OnlyReferencesEnd` | `EndsOnlyFromReference`: the program ends from nothing else |
| `PageContentsProofs` | `TypeCorrect` | `PageContentsTypeOK`: types, no content stream without a stream, links within it |
| | `ContentsStayAsStreams` | `ContentsAsStreams`: `Contents` names what the content streams hold, in order |
| | `StreamsAlwaysHold` | `StreamsHoldOperators`: streams hold what the operators spell, whoever wrote them last |
| | `IterationAlwaysTree` | `IterationIsTree`: the links lead along the tree and back, but where `insertOperator` cuts them |
| | `EditsAlwaysChangeOnePlace` | `EditsChangeOnePlace`: an edit changes one place of the word, at any depth |
| | `ChangesAlwaysBegin` | `ChangesBeginStreams`: a stream this program has added begins a content stream when the page is parsed |

*The file.* The first part of `CPdfDocumentProofs` is about pure operators. The recursive function
in `Chain` exists for a file whose tables lead backwards (`ChainExists`), it
stays inside the file (`ChainLeadsBackwards`) and depends only on the sections up
to the one it starts from (`ChainOfPrefix`). So a table, and the document shown
through it, depend on nothing written behind (`LoadEntriesOfPrefix`,
`ContentOfPrefix`): this is the reason why an incremental update is safe. And the
table of a section is its rows over that of its `Prev` (`LoadEntriesUnfolds`). The
library's induction theorems take an operator as a parameter; the lemmas use a
least counterexample instead (`LeastNat`, from the well-foundedness of `<`).

*`XRefWriter`.* What the writer produces is a section which leads backwards
(`WriteSectionType`, `SavedFileFacts`), even with a writer an exception has left
dirty; then the invariant `IInv` is proved action by action. None of the
properties is inductive alone:

* `TypeOK` needs `WellFormed(file)`, because the type of a parsed table depends
  on `Prev` and the rows leading backwards, and saving has to keep that;
* `RevisionShown` needs `TableOfRevision`, and `TrailerOfRevision`, because a save
  writes `Prev` and `Size` into the parsed trailer and only `Root` survives;
* `NewRefsFresh` needs `NewRefsOfTable`, which fixes the generation of each
  reference handed out: two of the same number would have the same generation.
  It speaks of the *newest* table, not of the parsed one, because references
  survive a visit to an older revision.

*`CPdfDocument`.* A step of `CPdf` is a step of `XRefWriter`, of the part below it,
or a new object (`PdfStepIsStep`), so that `IInv` comes along. The other properties
go round in a circle and are proved together in `PdfInv`:

* a property shows its object after a save, and the flag may be cleared, because
  the section saved shows the document that was worked on (`SavedShowsWorking`);
* it does if each pending value is of an object there is or of a reference handed
  out (`PendingKnown`): of two pending generations of one number the section would
  have one;
* and if the writer has no offsets of an earlier save (`NoCommands`), and there is
  nothing behind the newest revision but what is pending (`SavedIsLast`);
* what is refused depends on the encryption of the revision looked at, which has to
  be that of the newest one when something is changed (`EncryptKept`).

`ImplementsVersionedStore` then maps each action: setters and additions to `Edit`,
`Save` to `Checkpoint` or `Commit`, a change of revision to `Look`, and what is
refused to a stutter, though it may have changed a setter's own value. `RootStaysDict`
needs that the *newest* document has a dictionary as its root, whichever revision
is looked at (`RootInv`).

*`DocumentCopy`.* `CopiesComplete` says nothing of the calls under way, which is where a
copy gets its references. `IInv` adds what each call has put in so far (`FrameInv`),
that numbers in the mapping are taken (`EntryInv`) and apart (`ApartInv`), and which
entries are being resolved (`ResolvingInv`). A copy that was complete would stop to
be so when an entry behind it is set back to *new*. `Settled` is the reason why it
is not: only the first call may be one that follows no references, it makes no
others, and so no object relies on the entry it sets back. What an object refers to
is therefore resolved or its call is still to return (`SettledIsCopied`), except where
an exception has ended that call: then the entry stays *resolving* for as long as the
other document is open.

*`PageTree`.* A tree is a set of `Kids` arrays with a number of each node that falls
on the way down (`IsTree`); along it each recursive function exists and can be
unfolded (`SizesExist`, `OrdersExist`, `FindsExist` and the like). The two searches go
by numbers; with numbers that are true they meet each page where the order of the
pages has it (`FindPageRight`, `NodePositionRight`), and a cache that is true gives
true numbers (`TrueCacheCounts`) and learns them (`CountedTrue`). An edit of one array
changes the numbers of the nodes above it and of no other (`EditTree`), because no
node is held twice. `consolidatePageTree` goes up along `Parent` and stops at the first
`Count` that is right already; those above it are right then too (`Consolidated`). The
observers ask for numbers in the new tree with the cache of the old one, which is true
of neither. But every number they get is that of one of the two trees
(`StaleCounts`), so that those that have not changed are true, and the others are
discarded (`StaleCacheMended`) before the list is touched. From there the cache is
true of the new tree (`Mending`), also through the folds in which
`PageTreeNodeObserver` takes out the elements of the old array and puts in the new
ones (`AllStepsMend`).

`PagesAlwaysInPlace` and `ImplementsPageSequence` rest on one lemma about the tree: an
edit of one array leaves the order of the pages as it was but for a segment
(`Segment`: so many pages stay in front, so many are cut out, so many have come, the
rest follows), and this is so at the edited node and at every node above it, with the
segment moved by the number of pages in front (`SegmentPages`, `LiftedUp`; the induction
is along the ranks of the tree). `consolidatePageList` never sees the segment. It sees
an element that has gone or come and asks the tree where it was, and moves what is
behind it by the number of pages below it. `EditExchanges` says that these are the
borders of the segment, `MoveInPlace`, `ShiftInPlace` and `ReassignInPlace` that a list
that was right is right after it. A page that was below what has gone is found by
going up from it along `Parent`, in the new tree: the part that was cut out still
has its entries, so that the climb reaches its top, and a page that is still there
climbs to the root past it (`DescendantBelow`, `NoDescendants`, `CutOutIs`). This needs
that nothing is above a root, also not above one that has been set by an edit
(`RootsStayOnTop`); `TreePlaces` says this and that the list is right, and is proved
together with `TreeInv`. A node that had no array gets its elements one after the other
in a tree that has all of them already; after so many steps the list is the one with
the parts of so many elements brought in (`StepsPlace`). Each operation is then one of four
(`StepKinds`): nothing changes, a page gets held, another tree takes the place of this
one, or one segment is exchanged and exactly the pages in it are let go; these are
a stutter, `Hold`, `Replace` and `Edit` of `PageSequence`.

*`PageAnnots`.* `_annotations` and the array are changed by different rules, the one
where a value is first found and at its end, the other at a position. Counting
relates them: an edit moves the number of occurrences of each dictionary by the
same in both (`Kept`). It does so only if the watchdog hears of it, so that
`WatchersFollow` and `AnnotsInStep` are proved together. `SelectDicts` is written
out as a recursive function because the provers know nothing of `SelectSeq`;
induction over sequences is over a *set* of sequences (`SeqInduction`).

*`PageContents`.* The operators are made of recursive functions, and each has to be
shown to exist before it can be unfolded: the composites that are open
(`OpenBeforeOpened`), the tree that is built (`HungHangings`), the walk through it
(`PreorderWalks`), the groups of streams (`GroupsParts`), the streams that are left
(`WithoutFacts`). The walk comes to an end because operators are numbered when they
are made and hang below older ones only (`KidsNewer`); every edit keeps that, also
those that put a composite where it does not belong (`InsertedSound`,
`ReplacedSound`). Parsing leaves no stream out and takes none twice, whatever
it makes of the borders (`CutParts`). `ContentsAsStreams` alone is not inductive:
`removeContentStream` takes the first reference to each stream it removes, which is
the right one only if no stream is there twice. `ContentsInv` adds that, and says
it also where an array behind a reference was changed, because `setContents` ends
that exception. `RemoveKeeps`, `AddKeeps` and `MoveKeeps` are the three ways in which
`Contents` and `_ccs` are changed by hand.

`StreamsAlwaysHold` has two halves. What is parsed spells the word it was parsed from,
or what is kept of it (`ParsedSpelled`): while the tree is built, the composites that
are open form a way from the root, along which the walk grows at its end with each
operator (`HangingsWalked`); and the walk that `Preorder` chooses is that one, since a
tree has one only (`WalksSame`). The other half is about the streams: `HoldInv` says
of every content stream that is not edited and names no stream twice that its
operators spell what its streams hold one after the other. An edit that is written
puts everything into the first stream and empties the others, which joins to the word
only because they are distinct; and it changes what another content stream holds when
they share a stream, which then reads its streams again because it observes them
(`ChangedAgrees`, `NotifiedAgree`).

`EditsAlwaysChangeOnePlace` and `IterationAlwaysTree` rest on the second half of
`ContentStreamProofs`. An edit of the code changes the kids of one operator and a few links, and says nowhere
what it makes of the walk. The walk after it is worked out from below: operators
that do not lead to the changed one are walked as before, those that do have the
change in one place of their walk, and so up to the root (`PlaceChanged`, by
induction over the numbers from the last down, which `KidsNewer` makes possible).
This needs that the walk meets no operator twice (`Once`). What the links lead along
is the walk before the edit (`Linked`); the edited links lead along the walk after it
(`ChainedPut`), because what the code takes for the last operator below the edited
one is the last of its walk. `List` follows the links and stops at 0; that it stops
is not visible in the links of one state, so `Listed` has ranks that fall along them
(`Ranked`), and each edit makes ranks anew. Where `insertOperator` puts a composite
before another operator the list is cut, and `Listed` says nothing; this is the
exception `IterationIsTree` has too (`cut`).

`ChangesAlwaysBegin` is about one parse of whatever the streams hold. Parsing may
stop early, and then begins anew in the middle; what has to be known is that this
does not spoil the border of a change of ours further on. A content stream ends
where no composite is open, so that what follows is read as if the page began there
(`OpenRestarts`: the open composites of the rest are those of the whole, moved by
`Raised`). And what it leaves before the change is long enough for its end to be
seen (`TakenStops`): it is not empty, and it is not a single operator without
operands, because then the end of the content stream before it would not have been
seen either. So the tag of the change is reached at the border of a content stream,
by induction from its stream backwards (`GroupsBeginAfter`). The exception the
property makes, a single operator before the change, is needed for the first
content stream only.

*Only model-checked.* `CopyEnds`, because it is a liveness property. The properties the code violates, of course, which are
`NewRevisionShowsSame`, `EncryptionSeen`, `SetterNotRefused`, `NoneLeftResolving`,
`NeverEnds`, and `PagesInPlace` where arrays are replaced. No module declares a
`RECURSIVE` operator.
