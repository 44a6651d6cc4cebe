------------------------------ MODULE PageTree ------------------------------
(***************************************************************************)
(* The walk over the page tree (internal/pdfcore/pageindex.go) that numbers *)
(* the pages of a document and lists what is wrong with the tree.           *)
(*                                                                          *)
(* A document is any graph of dictionaries: nodes that other nodes refer to *)
(* by object number (Objects) and direct dictionaries, which sit in one     *)
(* /Kids array each (Directs).  A /Kids entry may also be no dictionary at  *)
(* all.  Reading any node may panic inside pdfcpu, which the walk *)
(* survives.  A step visits one /Kids entry, or returns from a node.  What  *)
(* a page's row says of its boxes, rotation and contents is left out.       *)
(***************************************************************************)
EXTENDS Naturals, Sequences, FiniteSets

CONSTANTS
    Objects,     \* dictionaries with an object number
    Directs,     \* direct dictionaries
    Types,       \* the values of /Type in an instance
    Owns,        \* how an attribute's own entry may resolve in an instance
    MaxKids,     \* bound on the length of a /Kids array
    MaxDepth,    \* maxPageTreeDepth
    None         \* no node (nil in the code)

Nodes == Objects \cup Directs

ASSUME NodesAssumption ==
    /\ Objects \cap Directs = {}
    /\ None \notin Nodes
    /\ "noNode" \notin Nodes
    /\ IsFiniteSet(Nodes)

ASSUME BoundsAssumption ==
    /\ Types \subseteq {"Page", "Pages", "none"}
    /\ Owns \subseteq {"absent", "value", "null", "error"}
    /\ MaxKids \in Nat /\ MaxDepth \in Nat

(* A /Kids entry that is no page-tree node: a null, a dangling reference, or an  *)
(* object that is not a dictionary.                                              *)
NotNodes == {"noNode"}

(* A node's /Type, whether it has /Kids and what is in them, and how its own    *)
(* entry of an inheritable attribute resolves.  The four attributes are picked  *)
(* alike; /Resources, followed here, also keeps the error of a failed resolve.  *)
KidsArrays == UNION {[1..k -> Nodes \cup NotNodes] : k \in 0..MaxKids}
Dicts == [type : Types, has : {"array"}, kids : KidsArrays, own : Owns]
         \cup [type : Types, has : {"nothing", "noArray"}, kids : {<<>>}, own : Owns]

VARIABLES
    pdf,        \* the dictionary of each node
    root,       \* the catalog's /Pages: a node, or None
    pc,         \* "start", "root", "walk" or "done"
    stack,      \* the calls of visitIntermediate, innermost last
    entries,    \* the rows, in the order they are added
    leaves,     \* the numbered pages
    next,       \* the number of the last page
    depth,
    onPath, walked,
    firstPage,  \* the page number an object first got, 0 if none
    skipped,    \* has a subtree been left out?
    failed,     \* pageTree.err: the walk failed outside any node
    seen        \* history: the nodes the walk has come to

walker == <<entries, leaves, next, depth, onPath, walked, firstPage, skipped>>
vars == <<pdf, root, pc, stack, walker, failed, seen>>

HasKids(n) == pdf[n].has # "nothing"
IsArray(n) == pdf[n].has = "array"
Kids(n) == pdf[n].kids

(* pageAttrs of one attribute: the node whose value is in effect, the node      *)
(* whose entry resolves to nothing, and the one whose entry failed to resolve.  *)
NoAttrs == [value |-> None, unresolvedAt |-> None, resourcesErr |-> None]
PageAttrs == [value : Nodes \cup {None}, unresolvedAt : Nodes \cup {None},
              resourcesErr : Nodes \cup {None}]

RowKinds == {"page", "shared", "cycle", "noKids", "kidsNoArray", "noNode", "deep", "unread"}

Frames == [node : Nodes, i : Nat, attrs : PageAttrs]
Rows == [kind : RowKinds, node : Nodes \cup NotNodes, page : Nat, again : BOOLEAN]
Leaves == [node : Nodes, attrs : PageAttrs, unread : BOOLEAN, path : Seq(Nodes)]

(* The walker's state has its types; in particular depth stays within its cap.  *)
(* A leaf also has the path it was reached by, which the code does not keep.    *)
TypeOK ==
    /\ pdf \in [Nodes -> Dicts] /\ root \in Nodes \cup {None}
    /\ pc \in {"start", "root", "walk", "done"}
    /\ stack \in Seq(Frames)
    /\ entries \in Seq(Rows) /\ leaves \in Seq(Leaves)
    /\ next \in Nat /\ depth \in 0..MaxDepth
    /\ onPath \subseteq Objects /\ walked \subseteq Objects
    /\ firstPage \in [Objects -> Nat]
    /\ skipped \in BOOLEAN /\ failed \in BOOLEAN
    /\ seen \subseteq Nodes

(* How often a direct dictionary occurs in the arrays of a document. *)
Occurrences(p, d) ==
    {at \in Nodes \X (1..MaxKids) :
        at[2] \in DOMAIN p[at[1]].kids /\ p[at[1]].kids[at[2]] = d}

Init ==
    /\ pdf \in [Nodes -> Dicts]
    /\ root \in Nodes \cup {None}
    /\ \A d \in Directs : Cardinality(Occurrences(pdf, d)) <= IF d = root THEN 0 ELSE 1
    /\ pc = "start" /\ stack = <<>>
    /\ entries = <<>> /\ leaves = <<>>
    /\ next = 0 /\ depth = 0
    /\ onPath = {} /\ walked = {}
    /\ firstPage = [o \in Objects |-> 0]
    /\ skipped = FALSE /\ failed = FALSE
    /\ seen = {}

-----------------------------------------------------------------------------
(* Starting the walk *)

(* walk: no catalog, no /Pages, or one that is no dictionary. *)
NoPages ==
    /\ pc = "start" /\ root = None
    /\ pc' = "done"
    /\ UNCHANGED <<pdf, root, stack, walker, failed, seen>>

(* A panic in the catalog or in /Pages itself fails the whole walk. *)
WalkFails ==
    /\ pc = "start"
    /\ pc' = "done" /\ failed' = TRUE
    /\ UNCHANGED <<pdf, root, stack, walker, seen>>

WalkStarts ==
    /\ pc = "start" /\ root # None
    /\ pc' = "root"
    /\ UNCHANGED <<pdf, root, stack, walker, failed, seen>>

-----------------------------------------------------------------------------
(* Visiting a node *)

Top == stack[Len(stack)]

AtKid == pc = "walk" /\ Top.i <= Len(Kids(Top.node))

(* The entry the walk is at, and the attributes it inherits. *)
Visited == IF pc = "root" THEN root ELSE Kids(Top.node)[Top.i]
Inherited == IF pc = "root" THEN NoAttrs ELSE Top.attrs

Advanced == IF pc = "root" THEN stack ELSE [stack EXCEPT ![Len(stack)].i = @ + 1]

Comes == seen' = seen \cup ({Visited} \cap Nodes)

(* The visit is over: on to the next /Kids entry. *)
Proceeds ==
    /\ pc' = IF pc = "root" THEN "done" ELSE pc
    /\ stack' = Advanced
    /\ Comes

Row(kind, node, page, again) == [kind |-> kind, node |-> node, page |-> page, again |-> again]

AddsRow(kind) == entries' = Append(entries, Row(kind, Visited, 0, FALSE))

(* errorRow: an unnumbered row, and nothing else. *)
ErrorRow(kind) ==
    /\ AddsRow(kind)
    /\ Proceeds
    /\ UNCHANGED <<leaves, next, depth, onPath, walked, firstPage, skipped>>

(* skip: the row of a subtree that is not walked. *)
Skip(kind) ==
    /\ AddsRow(kind)
    /\ skipped' = TRUE
    /\ Proceeds
    /\ UNCHANGED <<leaves, next, depth, onPath, firstPage>>

(* visitKid: entries that are no dictionary, and the ancestors of the node. *)
KidIsNoNode ==
    /\ AtKid /\ Visited \in NotNodes
    /\ ErrorRow("noNode")
    /\ UNCHANGED <<pdf, root, failed>>

Ancestor(n) == n \in onPath

KidIsAncestor ==
    /\ AtKid /\ Ancestor(Visited)
    /\ ErrorRow("cycle")
    /\ UNCHANGED <<pdf, root, failed>>

AtNode == (pc = "root" \/ AtKid) /\ Visited \in Nodes /\ ~(AtKid /\ Ancestor(Visited))

(* visitNode: /Type /Page is a page even with /Kids; a node with /Kids is none;  *)
(* without them, everything but /Type /Pages is.                                 *)
IsLeaf(n) == pdf[n].type = "Page" \/ (~HasKids(n) /\ pdf[n].type # "Pages")

IsIntermediate(n) == ~IsLeaf(n) /\ HasKids(n)

(* Fault: an entry that resolves to nothing hides the ancestor's value. *)
EffectiveAttrsOwnOnly(n, inherited) ==
    LET own == pdf[n].own
    IN  [value |-> IF own = "absent" THEN inherited.value ELSE IF own = "value" THEN n ELSE None,
         unresolvedAt |-> IF own \in {"null", "error"} THEN n ELSE IF own = "value" THEN None ELSE inherited.unresolvedAt,
         resourcesErr |-> IF own = "error" THEN n ELSE IF own = "value" THEN None ELSE inherited.resourcesErr]

(* effectiveAttrs: the own value, else the ancestor's; an own entry that         *)
(* resolves to nothing counts as absent but is remembered.                       *)
EffectiveAttrs(n, inherited) ==
    LET own == pdf[n].own
    IN  [value |-> IF own = "value" THEN n ELSE inherited.value,
         unresolvedAt |-> CASE own = "value"  -> None
                            [] own = "absent" -> inherited.unresolvedAt
                            [] OTHER          -> n,
         resourcesErr |-> CASE own = "value" -> None
                            [] own = "error" -> n
                            [] OTHER         -> inherited.resourcesErr]

Path == [i \in 1..Len(stack) |-> stack[i].node]

Leaf(n, attrs, unread) ==
    [node |-> n, attrs |-> attrs, unread |-> unread, path |-> Append(Path, n)]

(* The page gets the next number whatever is wrong with it. *)
Numbers(n, leaf, again) ==
    /\ next' = next + 1
    /\ leaves' = Append(leaves, leaf)
    /\ entries' = Append(entries, Row("page", n, next + 1, again))
    /\ Proceeds
    /\ UNCHANGED <<depth, onPath, walked, skipped>>

(* fillLeaf's bookkeeping of repeated page objects. *)
FirstSeen(n) == IF n \in Objects /\ firstPage[n] = 0
                THEN [firstPage EXCEPT ![n] = next + 1] ELSE firstPage
Again(n) == n \in Objects /\ firstPage[n] # 0

(* Fault: a page that cannot be read gets no number, yet counts. *)
LeafPanicsUnlisted ==
    /\ AtNode /\ IsLeaf(Visited)
    /\ next' = next + 1
    /\ AddsRow("unread")
    /\ Proceeds
    /\ UNCHANGED <<pdf, root, failed, leaves, depth, onPath, walked, firstPage, skipped>>

VisitLeaf ==
    /\ AtNode /\ IsLeaf(Visited)
    /\ Numbers(Visited, Leaf(Visited, EffectiveAttrs(Visited, Inherited), FALSE), Again(Visited))
    /\ firstPage' = FirstSeen(Visited)
    /\ UNCHANGED <<pdf, root, failed>>

(* A panic while the page is read, before or after its attributes were kept:     *)
(* the page keeps its number.                                                    *)
LeafPanics ==
    /\ AtNode /\ IsLeaf(Visited)
    /\ \/ /\ Numbers(Visited, Leaf(Visited, NoAttrs, TRUE), FALSE)
          /\ UNCHANGED firstPage
       \/ /\ Numbers(Visited, Leaf(Visited, EffectiveAttrs(Visited, Inherited), TRUE), FALSE)
          /\ firstPage' = FirstSeen(Visited)
    /\ UNCHANGED <<pdf, root, failed>>

(* /Type /Pages without /Kids. *)
NoKids ==
    /\ AtNode /\ ~IsLeaf(Visited) /\ ~HasKids(Visited)
    /\ ErrorRow("noKids")
    /\ UNCHANGED <<pdf, root, failed>>

(* Fault: one level too many. *)
DeepByOne == depth > MaxDepth

Deep == depth >= MaxDepth

TooDeep ==
    /\ AtNode /\ IsIntermediate(Visited)
    /\ Deep
    /\ Skip("deep")
    /\ UNCHANGED <<pdf, root, failed, walked>>

(* Fault: a subtree is walked again for every parent. *)
SharedNever(n) == n # n

Shared(n) == n \in walked

SharedNode ==
    /\ AtNode /\ IsIntermediate(Visited)
    /\ ~Deep
    /\ Shared(Visited)
    /\ ErrorRow("shared")
    /\ UNCHANGED <<pdf, root, failed>>

Entered(n) == {n} \cap Objects

Fresh == AtNode /\ IsIntermediate(Visited) /\ ~Deep /\ ~Shared(Visited)

(* /Kids that is no array: the node counts as walked all the same. *)
KidsNoArray ==
    /\ Fresh /\ ~IsArray(Visited)
    /\ AddsRow("kidsNoArray")
    /\ walked' = walked \cup Entered(Visited)
    /\ Proceeds
    /\ UNCHANGED <<pdf, root, failed, leaves, next, depth, onPath, firstPage, skipped>>

(* visitIntermediate goes down into the node. *)
Descend ==
    /\ Fresh /\ IsArray(Visited)
    /\ depth' = depth + 1
    /\ walked' = walked \cup Entered(Visited)
    /\ onPath' = onPath \cup Entered(Visited)
    /\ stack' = Append(Advanced, [node |-> Visited, i |-> 1,
                                  attrs |-> EffectiveAttrs(Visited, Inherited)])
    /\ pc' = "walk"
    /\ Comes
    /\ UNCHANGED <<pdf, root, failed, entries, leaves, next, firstPage, skipped>>

(* Fault: the guard adds an ordinary error row. *)
NodePanicsQuietly ==
    /\ AtNode
    /\ ErrorRow("unread")
    /\ UNCHANGED <<pdf, root, failed>>

(* A panic while the node's type, /Kids or attributes are read: the guard around *)
(* the entry adds a row; the deferred calls restore depth and onPath, while a    *)
(* node already marked walked stays marked.                                      *)
NodePanics ==
    /\ AtNode
    /\ Skip("unread")
    /\ \/ UNCHANGED walked
       \/ Fresh /\ walked' = walked \cup Entered(Visited)
    /\ UNCHANGED <<pdf, root, failed>>

(* Fault: a node stays on the path after the walk has left it. *)
ReturnKeepsPath ==
    /\ pc = "walk" /\ ~AtKid
    /\ stack' = SubSeq(stack, 1, Len(stack) - 1)
    /\ depth' = depth - 1
    /\ pc' = IF Len(stack) = 1 THEN "done" ELSE pc
    /\ UNCHANGED <<pdf, root, failed, seen, entries, leaves, next, walked, firstPage, skipped, onPath>>

(* visitIntermediate returns after its last kid. *)
Return ==
    /\ pc = "walk" /\ ~AtKid
    /\ stack' = SubSeq(stack, 1, Len(stack) - 1)
    /\ depth' = depth - 1
    /\ onPath' = onPath \ {Top.node}
    /\ pc' = IF Len(stack) = 1 THEN "done" ELSE pc
    /\ UNCHANGED <<pdf, root, failed, seen, entries, leaves, next, walked, firstPage, skipped>>

-----------------------------------------------------------------------------
(* The specification *)

Next ==
    \/ NoPages \/ WalkFails \/ WalkStarts
    \/ KidIsNoNode \/ KidIsAncestor \/ VisitLeaf \/ LeafPanics \/ NoKids
    \/ TooDeep \/ SharedNode \/ KidsNoArray \/ Descend \/ NodePanics \/ Return

Spec == Init /\ [][Next]_vars

-----------------------------------------------------------------------------
(* Properties *)

IsPage(i) == entries[i].kind = "page"

(* visitLeaf and findPage: page n of the index is the n-th leaf, so a page       *)
(* resolves by number exactly when the index lists it, read or not.              *)
NumberedInOrder ==
    /\ next = Len(leaves)
    /\ \A n \in DOMAIN leaves : \E i \in DOMAIN entries : IsPage(i) /\ entries[i].page = n
    /\ \A i \in DOMAIN entries : IsPage(i) =>
        /\ entries[i].page \in DOMAIN leaves
        /\ entries[i].node = leaves[entries[i].page].node
        /\ \A j \in DOMAIN entries : IsPage(j) /\ i < j => entries[i].page < entries[j].page

(* The walker keeps its types, goes no deeper than maxPageTreeDepth, and page n *)
(* of the index is the n-th leaf.                                               *)
PagesNumbered == TypeOK /\ NumberedInOrder

(* Nodes the page tree reaches: the least set that has the root and the kids of  *)
(* its intermediate nodes.                                                       *)
Closed(S) ==
    \A n \in S : IsIntermediate(n) =>
        \A i \in DOMAIN Kids(n) : Kids(n)[i] \in Nodes => Kids(n)[i] \in S

Reachable == {n \in Nodes : \A S \in SUBSET Nodes : root \in S /\ Closed(S) => n \in S}

(* pageTree.skipped: unless it says that a subtree is missing, every page the    *)
(* tree reaches is numbered, however often its nodes are shared, cyclic or       *)
(* malformed; and nothing else ever is.                                          *)
PagesComplete ==
    LET listed == {leaves[n].node : n \in DOMAIN leaves}
        pages == IF root = None THEN {} ELSE {n \in Reachable : IsLeaf(n)}
    IN  /\ listed \subseteq pages
        /\ pc = "done" /\ ~skipped /\ ~failed => pages \subseteq listed

(* onPath and walked: a row calls a node an ancestor exactly when it is one of   *)
(* the nodes being visited, and a node reached from a second parent otherwise.   *)
CycleMeansAncestor ==
    AtKid /\ Visited \in Objects => (Visited \in onPath <=> \E i \in DOMAIN stack : stack[i].node = Visited)

(* walked: a shared subtree is not walked again, so every /Kids entry of the    *)
(* file, and the root, is used up once: by a row, or by going down into an      *)
(* object, whatever the sharing.  (A node that panics may be marked walked and  *)
(* get a row.)                                                                   *)
RowsBounded ==
    LET all == {at \in Nodes \X (1..MaxKids) : at[2] \in DOMAIN Kids(at[1])}
        rows == {i \in DOMAIN entries : entries[i].kind # "unread"}
        entered == {n \in walked : IsArray(n)}
    IN  /\ Len(entries) <= 1 + Cardinality(all)
        /\ Cardinality(rows) + Cardinality(entered) <= 1 + Cardinality(all)

(* fillLeaf: of the pages one object is listed as, the later ones are marked, as *)
(* long as the object could be read.                                             *)
RepeatsAreMarked ==
    \A i, j \in DOMAIN entries :
        /\ i < j /\ IsPage(i) /\ IsPage(j)
        /\ entries[i].node = entries[j].node /\ entries[j].node \in Objects
        /\ ~leaves[entries[i].page].unread /\ ~leaves[entries[j].page].unread
        => entries[j].again

(* What a row says of a node that was met before is true: an ancestor is one,    *)
(* and a page listed before is marked.                                           *)
RowsAreRight == CycleMeansAncestor /\ RepeatsAreMarked

(* The last node of a path whose own entry is one of kinds, or None. *)
Nearest(path, kinds) ==
    LET hits == {i \in DOMAIN path : pdf[path[i]].own \in kinds}
    IN  IF hits = {} THEN None ELSE path[CHOOSE i \in hits : \A j \in hits : j <= i]

(* The nearest node whose own entry is one of kinds, unless a nearer one has a   *)
(* value.                                                                        *)
Blames(path, kinds) ==
    LET m == Nearest(path, kinds \cup {"value"})
    IN  IF m # None /\ pdf[m].own \in kinds THEN m ELSE None

(* pageAttrs: a page's attribute is its own or that of the nearest ancestor that *)
(* has one; the node named in an error is the nearest one whose entry resolves   *)
(* to nothing, unless a nearer one has a value.                                  *)
AttrsInherited ==
    \A n \in DOMAIN leaves : ~leaves[n].unread =>
        LET path == leaves[n].path
            attrs == leaves[n].attrs
        IN  /\ attrs.value = Nearest(path, {"value"})
            /\ attrs.unresolvedAt = Blames(path, {"null", "error"})
            /\ attrs.resourcesErr = Blames(path, {"error"})

(* The rows: page n of the index is the n-th leaf, what a row says of a node     *)
(* that was met before is true, every /Kids entry of the file is used up once,   *)
(* whatever the sharing, and a page has the nearest value of an attribute and    *)
(* blames the nearest broken one.                                                *)
PageRowsSound == PagesNumbered /\ RowsAreRight /\ RowsBounded /\ AttrsInherited

=============================================================================
