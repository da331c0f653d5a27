------------------------------ MODULE PageTree ------------------------------
(***************************************************************************)
(* The page tree of CPdf, the list of the pages it has returned and the    *)
(* numbers of pages it remembers.                                          *)
(*                                                                         *)
(* The pages of a document are the leaves of a tree of dictionaries.  An   *)
(* intermediate node lists its children in Kids and the number of its      *)
(* leaves in Count, and each child names its node in Parent.  The program  *)
(* can change any Kids array; observers on the nodes then correct Count    *)
(* and Parent (consolidatePageTree) and the list of pages                  *)
(* (consolidatePageList) while the change is under way.                    *)
(*                                                                         *)
(* Observers are registered on a subtree that comes into the tree and      *)
(* unregistered from one that is not found in it any more, so they sit on  *)
(* the nodes of the tree.  Left out are changes of nodes that are not in   *)
(* it, which are seen by nobody, trees that hold a node twice, and         *)
(* elements of Kids that are no references to nodes.                       *)
(***************************************************************************)
EXTENDS Integers, Sequences, FiniteSets, SequencesExt

CONSTANTS
    Leaves,     \* the page dictionaries there can be
    Roots,      \* the nodes Pages of the document catalog can refer to
    Inters,     \* the other intermediate nodes
    NoNode,     \* no reference: a missing Parent, root or element
    Docs,       \* the trees of the documents and revisions to open
    Arrays,     \* the Kids arrays the program sets as a whole
    MaxKids,    \* a bound on the length of a Kids array
    MayReplace  \* whether a node gets an array in the place of another

Inner == Roots \cup Inters
Nodes == Inner \cup Leaves

ASSUME PageTreeAssumption ==
    /\ NoNode \notin Nodes
    /\ Roots \cap Inters = {} /\ Inner \cap Leaves = {}
    /\ IsFiniteSet(Nodes)
    /\ MayReplace \in BOOLEAN /\ MaxKids \in Nat

(* A Kids array there can be. *)
ASSUME ArraysAssumption ==
    \A s \in Arrays :
       /\ s \in Seq(Leaves \cup Inters) /\ Len(s) <= MaxKids
       /\ \A i \in DOMAIN s, j \in DOMAIN s : s[i] = s[j] => i = j

(* No node is held twice by the arrays k, and on the way down a number     *)
(* falls: they are those of trees.                                         *)
HeldOnce(k) ==
    \A m \in Inner, n \in Inner : \A i \in DOMAIN k[m], j \in DOMAIN k[n] :
       k[m][i] = k[n][j] => m = n /\ i = j

Descends(k, rank) ==
    \A n \in Inner : \A i \in DOMAIN k[n] : k[n][i] \in Inner => rank[k[n][i]] < rank[n]

ASSUME DocsAssumption ==
    \A d \in Docs :
       /\ d.root \in Roots \cup {NoNode}
       /\ d.kids \in [Inner -> Seq(Leaves \cup Inters)]
       /\ \A n \in Inner : Len(d.kids[n]) <= MaxKids
       /\ HeldOnce(d.kids)
       /\ \E rank \in [Inner -> 0..Cardinality(Inner)] : Descends(d.kids, rank)
       /\ d.parent \in [Nodes -> Inner \cup {NoNode}]
       /\ d.count \in [Inner -> Nat]

VARIABLES
    root,            \* the node Pages of the catalog refers to
    kids,            \* the Kids array of each intermediate node
    parent,          \* the Parent entry of each node
    count,           \* the Count entry of each intermediate node
    pageList,        \* the valid pages returned, by position
    pageCount,       \* the number of pages, 0 when it is not known
    nodeCountCache   \* the number of pages below a node, where it is known

tree == <<root, kids, parent, count>>
treeVars == <<tree, pageList, pageCount, nodeCountCache>>

NoEntries == [x \in {} |-> 0]

(* A map with the entries of another where it has none, as of insert. *)
Filled(f, g) == [x \in DOMAIN f \cup DOMAIN g |-> IF x \in DOMAIN f THEN f[x] ELSE g[x]]
Entry(position, leaf) == [p \in {position} |-> leaf]

-----------------------------------------------------------------------------
(* Numbers of pages and positions.  k stands for the Kids arrays and c for *)
(* the cache they are looked up in.                                        *)

(* getKidsCount, for each node. *)
KidsCount(k, c) ==
    LET size[n \in Nodes] ==
          IF n \in Leaves THEN 1
          ELSE IF n \in DOMAIN c THEN c[n]
          ELSE SumFunction([i \in DOMAIN k[n] |-> size[k[n][i]]])
    IN size

(* The numbers counted without the cache. *)
TrueCount(k) == KidsCount(k, NoEntries)

(* The cache after the nodes of asked have been counted: it has learnt the *)
(* numbers of the nodes that had to be walked through.                     *)
Counted(k, c, asked) ==
    LET walked[n \in Nodes] ==
          IF n \in Leaves \cup DOMAIN c THEN {}
          ELSE {n} \cup UNION {walked[k[n][i]] : i \in DOMAIN k[n]}
        learnt == UNION {walked[n] : n \in asked}
        size == KidsCount(k, c)
    IN [n \in DOMAIN c \cup learnt |-> size[n]]

(* A node and all below it. *)
Subtree(k, top) ==
    LET below[n \in Nodes] ==
          {n} \cup (IF n \in Leaves THEN {}
                    ELSE UNION {below[k[n][i]] : i \in DOMAIN k[n]})
    IN below[top]

(* The nodes of the tree, and its leaves in their order. *)
TreeNodes(r, k) == IF r = NoNode THEN {} ELSE Subtree(k, r)

PageOrder(r, k) ==
    LET order[n \in Nodes] ==
          IF n \in Leaves THEN <<n>>
          ELSE FlattenSeq([i \in DOMAIN k[n] |-> order[k[n][i]]])
    IN IF r = NoNode THEN <<>> ELSE order[r]

(* A fault: the first child is not counted. *)
BeforeButFirst(k, size, n, i) == SumFunction([j \in 2..(i - 1) |-> size[k[n][j]]])

(* The pages in front of the i-th child of n. *)
Before(k, size, n, i) == SumFunction([j \in 1..(i - 1) |-> size[k[n][j]]])

(* A fault: the child that holds the position is taken for the page.       *)
FindChild(k, c, pos) ==
    LET size == KidsCount(k, c)
        fits == {i \in DOMAIN k[root] : 1 + Before(k, size, root, i + 1) > pos}
    IN [leaf |-> IF fits = {} THEN NoNode ELSE k[root][Min(fits)], asked |-> {root}]

(* findPageDict: the leaf at a position, or NoNode when the numbers lead   *)
(* nowhere, and the nodes that were counted on the way.                    *)
FindPage(k, c, pos) ==
    LET size == KidsCount(k, c)
        find[at \in Inner \X Nat] ==
          LET n == at[1]
              start == at[2]
              Enter(i) ==
                IF k[n][i] \in Leaves THEN [leaf |-> k[n][i], asked |-> ToSet(SubSeq(k[n], 1, i))]
                ELSE [find[<<k[n][i], start + Before(k, size, n, i)>>]
                        EXCEPT !.asked = @ \cup ToSet(SubSeq(k[n], 1, i))]
              fits == {i \in DOMAIN k[n] : start + Before(k, size, n, i + 1) > pos}
          IN IF fits = {} THEN [leaf |-> NoNode, asked |-> ToSet(k[n])] ELSE Enter(Min(fits))
        found == IF size[root] < pos THEN [leaf |-> NoNode, asked |-> {}] ELSE find[<<root, 1>>]
    IN [found EXCEPT !.asked = @ \cup {root}]

(* getNodePosition: the position of a node, 0 when it is not in the tree,  *)
(* and the nodes that were counted on the way, which are all those in      *)
(* front of it.                                                            *)
NodePosition(k, c, node) ==
    LET size == KidsCount(k, c)
        InFront(n, i) == UNION {Subtree(k, k[n][j]) : j \in 1..(i - 1)}
        search[n \in Inner] ==
          LET Enter(i) ==
                LET deep == IF k[n][i] = node THEN [pos |-> 1, asked |-> {}] ELSE search[k[n][i]]
                IN [pos |-> deep.pos + Before(k, size, n, i), asked |-> deep.asked \cup InFront(n, i)]
              hits == {i \in DOMAIN k[n] : node \in Subtree(k, k[n][i])}
          IN IF hits = {} THEN [pos |-> 0, asked |-> InFront(n, Len(k[n]) + 1)] ELSE Enter(Min(hits))
    IN IF root = NoNode THEN [pos |-> 0, asked |-> {}]
       ELSE IF node = root THEN [pos |-> 1, asked |-> {}]
       ELSE search[root]

(* isNodeDescendant follows the Parent entries. *)
IsDescendant(par, node, top) ==
    LET up[i \in 0..Cardinality(Nodes)] ==
          IF i = 0 THEN par[node]
          ELSE IF up[i - 1] = NoNode THEN NoNode ELSE par[up[i - 1]]
    IN \E i \in DOMAIN up : up[i] = top

-----------------------------------------------------------------------------
(* The correction of the tree: n is the node whose Kids array has become   *)
(* k[n].                                                                   *)

(* A fault: only the node itself is corrected. *)
ConsolidateNode(k, n) ==
    LET size == TrueCount(k)
    IN [count |-> [count EXCEPT ![n] = size[n]],
        parent |-> [m \in Nodes |-> IF m \in ToSet(k[n]) THEN n ELSE parent[m]],
        discarded |-> {n},
        kept |-> size[n] = count[n]]

(* consolidatePageTree corrects Count of the node and goes on at its       *)
(* Parent as long as it finds a Count to correct.  The nodes it visits     *)
(* become the Parent of their children.  It says whether the last Count it *)
(* looked at was right, and then the number of pages is taken to be known  *)
(* still.                                                                  *)
ConsolidatePageTree(k, n) ==
    LET size == TrueCount(k)
        climb[m \in Inner] ==
          IF size[m] = count[m] \/ m = root \/ parent[m] = NoNode THEN {m}
          ELSE {m} \cup climb[parent[m]]
        visited == climb[n]
        wrong == {m \in visited : size[m] # count[m]}
        visitedParents(m) == {p \in visited : m \in ToSet(k[p])}
    IN [count |-> [m \in Inner |-> IF m \in wrong THEN size[m] ELSE count[m]],
        parent |-> [m \in Nodes |-> IF visitedParents(m) = {} THEN parent[m]
                                    ELSE CHOOSE p \in visitedParents(m) : TRUE],
        discarded |-> wrong,
        kept |-> wrong # visited]

(* The list and the cache while they are being corrected. *)
Lists(list, cache) == [list |-> list, cache |-> cache]

AskFor(k, s, asked) == [s EXCEPT !.cache = Counted(k, @, asked)]

(* discardKidsCountCache. *)
Discard(s, nodes) == [s EXCEPT !.cache = Restrict(@, DOMAIN @ \ nodes)]

(* Pages of the list are taken out of it and put in again where the        *)
(* function to says; an entry that is there already stays.                 *)
Move(list, to) ==
    Filled(Restrict(list, DOMAIN list \ DOMAIN to),
           [q \in Range(to) |-> list[Min({p \in DOMAIN to : to[p] = q})]])

(* A fault: the pages move the other way. *)
ShiftedBack(p, difference) == (p - difference) % 2^20

(* Positions are size_t: below 0 they start again from the top. *)
SizeT == 2^20
Shifted(p, difference) == (p + difference) % SizeT

(* Nothing is known about the position: each page is looked up in the      *)
(* tree.  A page that is not found, which an assertion denies, drops out   *)
(* of the list and stays valid.                                            *)
Reassign(k, s) ==
    LET Place(found) ==
          LET known == {p \in DOMAIN found : found[p].pos # 0}
          IN Lists(Move(Restrict(s.list, known), [p \in known |-> found[p].pos]),
                   Counted(k, s.cache, UNION {found[p].asked : p \in DOMAIN found}))
    IN Place([p \in DOMAIN s.list |-> NodePosition(k, s.cache, s.list[p])])

(* A fault: one page is cut out and no more. *)
CutOutOne(par, list, old) ==
    LET below == {p \in DOMAIN list : list[p] = old \/ IsDescendant(par, list[p], old)}
    IN {p \in below : \A q \in below : p <= q}

(* The positions of the pages below a node that is cut out: the first run  *)
(* of them in the list.                                                    *)
CutOut(par, list, old) ==
    LET at == {p \in DOMAIN list : list[p] = old}
        below == {p \in DOMAIN list : IsDescendant(par, list[p], old)}
        first == Min(below)
    IN IF old \in Leaves
       THEN IF at = {} THEN {} ELSE {Min(at)}
       ELSE {p \in below : \A q \in (DOMAIN list) \ below : ~(first < q /\ q < p)}

(* The pages from a position on move by a difference in number. *)
Moved(k, s, minPos, difference) ==
    IF difference = 0 THEN s
    ELSE IF minPos = 0 THEN Reassign(k, s)
    ELSE [s EXCEPT !.list = Move(@, [p \in {q \in DOMAIN @ : q >= minPos} |->
                                       Shifted(p, difference)])]

(* consolidatePageList: old has gone from the tree and new has come in,    *)
(* either may be NoNode.  The position behind which pages move is that of  *)
(* new, or else that of the last page cut out, or else unknown.            *)
ConsolidatePageList(k, par, s, old, new) ==
    LET size == KidsCount(k, s.cache)
        Pages(n) == IF n = NoNode THEN 0 ELSE size[n]
        cut == IF old = NoNode THEN {} ELSE CutOut(par, s.list, old)
        rest == Lists(Restrict(s.list, DOMAIN s.list \ cut),
                      Counted(k, s.cache, {old, new} \cap Inner))
        place == IF new = NoNode THEN [pos |-> 0, asked |-> {}]
                 ELSE NodePosition(k, rest.cache, new)
        minPos == IF place.pos # 0 THEN place.pos
                  ELSE IF cut = {} THEN 0 ELSE Max(cut)
    IN Moved(k, AskFor(k, rest, place.asked), minPos, Pages(new) - Pages(old))

(* The cache after unregisterPageTreeObservers has looked for a node. *)
LookedFor(k, c, node) ==
    IF node = NoNode THEN c ELSE Counted(k, c, NodePosition(k, c, node).asked)

(* What a handler leaves behind. *)
Corrected(t, s) ==
    [count |-> t.count, parent |-> t.parent, list |-> s.list, cache |-> s.cache, kept |-> t.kept]

(* PageTreeKidsObserver::notify: in the array of n, old became new.  The   *)
(* numbers below old are needed until the list is right.                   *)
KidsNotify(k, n, old, new, c) ==
    LET t == ConsolidatePageTree(k, n)
        s == Discard(Lists(pageList, LookedFor(k, c, old)), t.discarded)
        gone == IF old = NoNode THEN {} ELSE Subtree(k, old)
    IN Corrected(t, Discard(ConsolidatePageList(k, t.parent, s, old, new), gone))

(* PageTreeNodeObserver::notify: n has got another array.  Its elements go *)
(* and come one by one, in a tree that has its final shape already.        *)
NodeNotify(k, n, c) ==
    LET t == ConsolidatePageTree(k, n)
        s == Discard(Lists(pageList, c), t.discarded)
        Remove1(u, old) ==
          ConsolidatePageList(k, t.parent, Lists(u.list, LookedFor(k, u.cache, old)), old, NoNode)
        Add1(u, new) == ConsolidatePageList(k, t.parent, u, NoNode, new)
    IN Corrected(t, FoldLeft(Add1, FoldLeft(Remove1, s, kids[n]), k[n]))

-----------------------------------------------------------------------------
(* The operations. *)

PageTreeInit ==
    /\ \E d \in Docs : root = d.root /\ kids = d.kids /\ parent = d.parent /\ count = d.count
    /\ pageList = NoEntries
    /\ pageCount = 0
    /\ nodeCountCache = NoEntries

(* A fault: the numbers of the tree before are kept. *)
ShowWithNumbers(d) ==
    /\ root' = d.root /\ kids' = d.kids /\ parent' = d.parent /\ count' = d.count
    /\ pageList' = NoEntries
    /\ UNCHANGED <<pageCount, nodeCountCache>>

(* initRevisionSpecific: another tree, and nothing known of it. *)
ShowRevision(d) ==
    /\ root' = d.root /\ kids' = d.kids /\ parent' = d.parent /\ count' = d.count
    /\ pageList' = NoEntries
    /\ pageCount' = 0
    /\ nodeCountCache' = NoEntries

(* getPageCount, and the cache after it. *)
PageCount ==
    IF pageCount # 0 THEN pageCount
    ELSE IF root = NoNode THEN 0 ELSE KidsCount(kids, nodeCountCache)[root]

CountedCache ==
    IF pageCount # 0 \/ root = NoNode THEN nodeCountCache
    ELSE Counted(kids, nodeCountCache, {root})

GetPageCount ==
    /\ pageCount' = PageCount
    /\ nodeCountCache' = CountedCache
    /\ UNCHANGED <<tree, pageList>>

(* getPage of a page that is not listed.  When the numbers lead nowhere it *)
(* is refused, but has counted.                                            *)
GetPage(pos) ==
    LET found == FindPage(kids, CountedCache, pos) IN
    /\ root # NoNode
    /\ pos \in (1..PageCount) \ DOMAIN pageList
    /\ pageList' = IF found.leaf = NoNode THEN pageList ELSE Filled(pageList, Entry(pos, found.leaf))
    /\ pageCount' = PageCount
    /\ nodeCountCache' = Counted(kids, CountedCache, found.asked)
    /\ UNCHANGED tree

(* The state after a change of the Kids arrays to k that handler h has     *)
(* corrected.  known is what was known of the number of pages, and added   *)
(* the pages that are listed at the end.                                   *)
Change(k, h, known, added) ==
    /\ kids' = k
    /\ count' = h.count
    /\ parent' = h.parent
    /\ pageList' = Filled(h.list, added)
    /\ pageCount' = IF h.kept THEN known ELSE 0
    /\ nodeCountCache' = h.cache
    /\ UNCHANGED root

(* The array of n becomes s, where old became new; c is the cache. *)
EditKids(n, s, old, new, c, known, added) ==
    LET k == [kids EXCEPT ![n] = s]
    IN Change(k, KidsNotify(k, n, old, new, c), known, added)

(* insertPage and removePage look for the array that holds the leaf at a   *)
(* position by its Parent.                                                 *)
HolderOf(leaf) == parent[leaf]
IndexOf(n, leaf) == {i \in DOMAIN kids[n] : kids[n][i] = leaf}

IsHeldBy(leaf, n) ==
    /\ leaf # NoNode
    /\ n \in TreeNodes(root, kids) /\ IndexOf(n, leaf) # {}

(* A page can be inserted when nothing refers to its dictionary: the clone *)
(* of a page of another document, or a page that was removed before.       *)
IsFree(n) == \A m \in Inner : n \notin ToSet(kids[m])

InsertLeaf(leaf, n, index, c, position) ==
    /\ Len(kids[n]) < MaxKids
    /\ EditKids(n, InsertAt(kids[n], index, leaf), NoNode, leaf, c, PageCount, Entry(position, leaf))

(* insertPage next to the page that FindPage has found. *)
InsertBeside(leaf, current, append, position) ==
    LET n == HolderOf(current.leaf) IN
    /\ IsHeldBy(current.leaf, n)
    /\ InsertLeaf(leaf, n, Min(IndexOf(n, current.leaf)) + append,
                  Counted(kids, CountedCache, current.asked), position)

(* insertPage in front of the page at pos, or behind the last one. *)
InsertPage(leaf, pos) ==
    LET append == IF pos > PageCount THEN 1 ELSE 0
        storePosition == IF append = 1 THEN PageCount ELSE pos
    IN
    /\ root # NoNode
    /\ leaf \in Leaves /\ IsFree(leaf)
    /\ \/ PageCount = 0 /\ InsertLeaf(leaf, root, 1, CountedCache, 1)
       \/ /\ PageCount # 0
          /\ InsertBeside(leaf, FindPage(kids, CountedCache, storePosition),
                          append, storePosition + append)

RemoveFound(current) ==
    LET n == HolderOf(current.leaf) IN
    /\ IsHeldBy(current.leaf, n)
    /\ EditKids(n, RemoveAt(kids[n], Min(IndexOf(n, current.leaf))), current.leaf, NoNode,
                Counted(kids, CountedCache, current.asked), PageCount, NoEntries)

RemovePage(pos) ==
    /\ root # NoNode
    /\ pos \in 1..PageCount
    /\ RemoveFound(FindPage(kids, CountedCache, pos))

-----------------------------------------------------------------------------
(* Changes of the Kids arrays of the tree by the program. *)

IsSeen(n) == n \in TreeNodes(root, kids)

MayAdd(n, new) == IsFree(new) /\ n \notin Subtree(kids, new)

(* The array of n becomes s, where old became new. *)
ChangeKids(n, s, old, new) ==
    EditKids(n, s, old, new, nodeCountCache, pageCount, NoEntries)

AddKid(n, i, new) ==
    /\ IsSeen(n) /\ MayAdd(n, new)
    /\ Len(kids[n]) < MaxKids /\ i \in 1..(Len(kids[n]) + 1)
    /\ ChangeKids(n, InsertAt(kids[n], i, new), NoNode, new)

RemoveKid(n, i) ==
    /\ IsSeen(n)
    /\ i \in DOMAIN kids[n]
    /\ ChangeKids(n, RemoveAt(kids[n], i), kids[n][i], NoNode)

ReplaceKid(n, i, new) ==
    /\ IsSeen(n) /\ MayAdd(n, new)
    /\ i \in DOMAIN kids[n]
    /\ ChangeKids(n, ReplaceAt(kids[n], i, new), kids[n][i], new)

(* The node gets a Kids array, in the place of the one it has. *)
SetKids(n, s) ==
    LET k == [kids EXCEPT ![n] = s] IN
    /\ IsSeen(n)
    /\ kids[n] = <<>> \/ MayReplace
    /\ \A i \in DOMAIN s : MayAdd(n, s[i]) \/ s[i] \in ToSet(kids[n])
    /\ Change(k, NodeNotify(k, n, nodeCountCache), pageCount, NoEntries)

(* PageTreeRootObserver::notify: Pages is removed, or refers to a root. *)
SetRoot(r) ==
    /\ r \in (Roots \cup {NoNode}) \ {root}
    /\ root' = r
    /\ pageList' = NoEntries
    /\ pageCount' = 0
    /\ nodeCountCache' = NoEntries
    /\ UNCHANGED <<kids, parent, count>>

PageTreeNext ==
    \/ GetPageCount
    \/ \E pos \in 1..PageCount : GetPage(pos)
    \/ \E leaf \in Leaves : \E pos \in 1..(PageCount + 1) : InsertPage(leaf, pos)
    \/ \E pos \in 1..PageCount : RemovePage(pos)
    \/ \E n \in Inner : \E i \in 1..MaxKids : \E new \in Leaves \cup Inters : AddKid(n, i, new)
    \/ \E n \in Inner : \E i \in 1..MaxKids : RemoveKid(n, i)
    \/ \E n \in Inner : \E i \in 1..MaxKids : \E new \in Leaves \cup Inters : ReplaceKid(n, i, new)
    \/ \E n \in Inner : \E s \in Arrays : SetKids(n, s)
    \/ \E r \in Roots \cup {NoNode} : SetRoot(r)
    \/ \E d \in Docs : ShowRevision(d)

PageTreeSpec == PageTreeInit /\ [][PageTreeNext]_treeVars

(* A document whose Count and Parent entries are right: what the theorems  *)
(* ask of those that are opened.                                           *)
RightEntries(d) ==
    \A n \in Inner :
       /\ d.count[n] = TrueCount(d.kids)[n]
       /\ \A i \in DOMAIN d.kids[n] : d.parent[d.kids[n][i]] = n

(* Above a root there is nothing. *)
RootsOnTop(par) == \A r \in Roots : par[r] = NoNode

-----------------------------------------------------------------------------
(* The types: a tree of known nodes, pages at positions.                   *)
PageTreeTypeOK ==
    /\ root \in Roots \cup {NoNode}
    /\ \A n \in Inner : kids[n] \in Seq(Leaves \cup Inters) /\ Len(kids[n]) <= MaxKids
    /\ parent \in [Nodes -> Inner \cup {NoNode}]
    /\ count \in [Inner -> Nat]
    /\ \A p \in DOMAIN pageList : p \in Nat /\ pageList[p] \in Leaves
    /\ pageCount \in Nat
    /\ \A n \in DOMAIN nodeCountCache : n \in Inner /\ nodeCountCache[n] \in Nat

(* A page the program has got is at the position CPdf says, whatever came  *)
(* and went in front of it, below whichever node (consolidatePageList).    *)
PagesInPlace ==
    \A p \in DOMAIN pageList :
       /\ p \in DOMAIN PageOrder(root, kids)
       /\ pageList[p] = PageOrder(root, kids)[p]

(* The two searches agree with the tree, with whatever the cache knows:    *)
(* findPageDict goes down to the page at a position, getNodePosition finds *)
(* the position of a page.  getPage, insertPage and removePage act on what *)
(* they find.                                                              *)
PagesAreFound ==
    \A p \in DOMAIN PageOrder(root, kids) :
       LET leaf == PageOrder(root, kids)[p] IN
       /\ FindPage(kids, CountedCache, p).leaf = leaf
       /\ NodePosition(kids, CountedCache, leaf).pos = p

(* What is remembered of numbers of pages is true: the number of pages of  *)
(* the document, and that below each node of the cache                     *)
(* (consolidatePageTree discards what has changed).                        *)
RememberedCountsTrue ==
    /\ pageCount # 0 => pageCount = Len(PageOrder(root, kids))
    /\ \A n \in DOMAIN nodeCountCache : nodeCountCache[n] = TrueCount(kids)[n]

(* Each node of the tree says how many leaves it has, and each child names *)
(* its node: this is what is saved, and what insertPage, removePage and    *)
(* isNodeDescendant go by.                                                 *)
TreeConsistent ==
    \A n \in TreeNodes(root, kids) \ Leaves :
       /\ count[n] = TrueCount(kids)[n]
       /\ \A i \in DOMAIN kids[n] : parent[kids[n][i]] = n

(* With its caches and observers CPdf is a sequence of pages: an edit cuts *)
(* out or brings in one part of it, and every page that is not cut out is  *)
(* held on to.                                                             *)
Sequence == INSTANCE PageSequence WITH
    AllPages <- Leaves,
    pages <- PageOrder(root, kids),
    held <- Range(pageList)

ImplementsSequence == Sequence!PagesSpec

=============================================================================
