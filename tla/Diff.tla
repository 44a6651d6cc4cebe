-------------------------------- MODULE Diff --------------------------------
(***************************************************************************)
(* The structural diff of src/internal/pdfcore/diff.go: two documents are  *)
(* walked in step from their catalogs, following references, and every     *)
(* place where they differ becomes a row.  A reference on the current path *)
(* is cut, a pair of references met before is cut, and so is everything    *)
(* below maxResolveDepth; a cut is compared by its shallow summary.        *)
(*                                                                         *)
(* A document is [root, nodes, facts]: its catalog, its values, and what   *)
(* the summary reads off the walk.  A node is [k, raw, e]: the kind, the   *)
(* stored bytes of a scalar, and the entries of a container, a function    *)
(* from key numbers (array positions for an array) to items [n, ref]: a    *)
(* reference to node n, or n written where it is used.  An object that the *)
(* document does not define is a node of kind "ref".  The close of a       *)
(* document during the walk is in InspectorCalls.                          *)
(*                                                                         *)
(* The walk is a depth-first recursion; its containers under way are the   *)
(* frames [id, key, l, r, binary, depth, todo, changed], the catalogs'     *)
(* first.  A row is [below, key, node], below being the id of the          *)
(* container it is in.                                                     *)
(***************************************************************************)
EXTENDS Integers, Sequences, FiniteSets, SequencesExt

CONSTANTS maxResolveDepth,   \* depth cap of the walk; 32 in the code
          ContentsKey,       \* the number that stands for the key /Contents
          ByteRangeKey,      \* and for /ByteRange
          Text(_),           \* the decoded form of a scalar's stored bytes
          DiffDocs           \* the documents that may be compared

VARIABLES
  diffDocs,   \* the documents, [left, right]
  diffWalk,   \* the diffContext, its frames and the rows so far
  diffAt      \* the pair of values a reader of both documents has come to

diffVars == <<diffDocs, diffWalk, diffAt>>

NoRef == 0          \* no reference
NoPair == <<NoRef, NoRef>>

Entries(doc) == [n : DOMAIN doc.nodes, ref : BOOLEAN]

ASSUME DiffAssumption ==
  /\ maxResolveDepth \in Nat \ {0}
  /\ \A doc \in DiffDocs :
       /\ NoRef \notin DOMAIN doc.nodes
       /\ doc.root \in DOMAIN doc.nodes /\ doc.nodes[doc.root].k = "dict"
       /\ \A n \in DOMAIN doc.nodes :
            /\ doc.nodes[n].k \in {"scalar", "ref", "dict", "array", "stream"}
            /\ doc.nodes[n].k \in {"scalar", "ref"} => DOMAIN doc.nodes[n].e = {}
            /\ DOMAIN doc.nodes[n].e \subseteq Nat
            /\ \A key \in DOMAIN doc.nodes[n].e : doc.nodes[n].e[key] \in Entries(doc)

Catalog(doc) == [n |-> doc.root, ref |-> TRUE]

dereferenceIfRef(doc, item) == doc.nodes[item.n]
asDict(doc, item) == dereferenceIfRef(doc, item).e

refVisitKeyOf(item) == IF item.ref THEN item.n ELSE NoRef

isSignatureDict(d) == ByteRangeKey \in DOMAIN d
binaryStringKey(d, key) == key = ContentsKey /\ isSignatureDict(d)

(***************************************************************************)
(* Summaries.  A summary is the kind of a value and one token for every    *)
(* entry, one level deep, with the number of a reference left out.  The    *)
(* mode is the renderer: "show" decodes, "compare" is byte-exact, "fall"   *)
(* is byte-exact with the stand-in for a binary string kept.               *)
(***************************************************************************)
renderScalar(raw, binary, mode) ==
  IF binary /\ mode # "compare" THEN <<"scalar", "binary">>
  ELSE <<"scalar", IF mode = "show" THEN Text(raw) ELSE raw>>

shallowValue(doc, item, binary, mode) ==
  LET v == doc.nodes[item.n]
  IN  IF item.ref THEN <<"ref", "value">>
      ELSE IF v.k = "scalar" THEN renderScalar(v.raw, binary, mode)
      ELSE <<IF v.k = "stream" THEN "dict" ELSE v.k, "value">>

summarizeWith(doc, item, binary, mode) ==
  LET v == dereferenceIfRef(doc, item)
      Mark(key) == IF v.k = "array" THEN binary ELSE binaryStringKey(v.e, key)
  IN  [k |-> v.k,
       parts |-> IF v.k = "scalar" THEN [x \in {0} |-> renderScalar(v.raw, binary, mode)]
                 ELSE [x \in DOMAIN v.e |-> shallowValue(doc, v.e[x], Mark(x), mode)]]

diffSummarize(doc, item, binary) == summarizeWith(doc, item, binary, "show")
diffCompare(doc, item) == summarizeWith(doc, item, FALSE, "compare")

(***************************************************************************)
(* Rows.  NoSide is the summary of the side a row does not have.           *)
(***************************************************************************)
NoSide == [k |-> "none", parts |-> <<>>]

DiffRow(status, kind, left, right) ==
  [status |-> status, kind |-> kind, left |-> left, right |-> right, id |-> 0, leaf |-> TRUE,
   changedKeys |-> {}, truncated |-> FALSE, capRefPair |-> NoPair]

\* Fault: the decoded summaries decide whether two values differ.
scalarLeafByText(docs, kind, l, r, binary) ==
  DiffRow(IF diffSummarize(docs.left, l, binary) = diffSummarize(docs.right, r, binary)
          THEN "unchanged" ELSE "changed",
          kind, diffSummarize(docs.left, l, binary), diffSummarize(docs.right, r, binary))

scalarLeaf(docs, kind, l, r, binary) ==
  LET same  == diffCompare(docs.left, l) = diffCompare(docs.right, r)
      alike == diffSummarize(docs.left, l, binary) = diffSummarize(docs.right, r, binary)
      mode  == IF ~same /\ alike THEN "fall" ELSE "show"
  IN  DiffRow(IF same THEN "unchanged" ELSE "changed", kind,
              summarizeWith(docs.left, l, binary, mode), summarizeWith(docs.right, r, binary, mode))

singleSided(doc, item, binary, status) ==
  LET text == diffSummarize(doc, item, binary)
  IN  IF status = "added" THEN DiffRow(status, text.k, NoSide, text)
      ELSE DiffRow(status, text.k, text, NoSide)

(***************************************************************************)
(* The walk.  Besides what the code keeps it has, for the properties, the  *)
(* pairs cut as back edges and the pairs that were compared entry by entry.*)
(***************************************************************************)
DiffStart == [frames |-> <<>>, opened |-> 0, visitedPairs |-> {}, rows |-> {},
              backEdges |-> {}, compared |-> {}]

\* A row below the innermost container, which is changed by one that is not
\* "unchanged".
told(w, key, node) ==
  LET last == Len(w.frames)
      row  == [below |-> IF last = 0 THEN 0 ELSE w.frames[last].id, key |-> key, node |-> node]
      open == IF last = 0 \/ node.status = "unchanged" THEN w.frames
              ELSE [w.frames EXCEPT ![last].changed = @ \cup {key}]
  IN  [w EXCEPT !.rows = @ \cup {row}, !.frames = open]

diffPresent(docs, w, key, l, r, binary, depth) ==
  LET a  == dereferenceIfRef(docs.left, l)
      b  == dereferenceIfRef(docs.right, r)
      w1 == [w EXCEPT !.compared = @ \cup {<<l, r>>}]
  IN  IF a.k # b.k
      THEN told(w1, key, DiffRow("changed", b.k, diffSummarize(docs.left, l, binary),
                                 diffSummarize(docs.right, r, binary)))
      ELSE IF a.k \in {"scalar", "ref"} THEN told(w1, key, scalarLeaf(docs, a.k, l, r, binary))
      ELSE [w1 EXCEPT !.opened = @ + 1,
                      !.frames = Append(@, [id |-> w.opened + 1, key |-> key, l |-> l, r |-> r,
                                            binary |-> binary, depth |-> depth,
                                            todo |-> DOMAIN a.e \cup DOMAIN b.e, changed |-> {}])]

\* A reference on the path to the innermost container, of either side.
OnPath(w, l, r) ==
  \E i \in DOMAIN w.frames : \/ l.ref /\ w.frames[i].l = l
                             \/ r.ref /\ w.frames[i].r = r

diffChild(docs, w, key, l, r, binary, depth) ==
  LET pair == <<refVisitKeyOf(l), refVisitKeyOf(r)>>
      full == l.ref /\ r.ref
      leaf == scalarLeaf(docs, "ref", l, r, binary)
  IN  IF OnPath(w, l, r) THEN told([w EXCEPT !.backEdges = @ \cup {pair}], key, leaf)
      ELSE IF depth + 1 > maxResolveDepth
      THEN told(w, key, [leaf EXCEPT !.truncated = TRUE,
                                     !.capRefPair = IF full THEN pair ELSE NoPair])
      ELSE IF full /\ pair \in w.visitedPairs THEN told(w, key, leaf)
      ELSE diffPresent(docs, IF full THEN [w EXCEPT !.visitedPairs = @ \cup {pair}] ELSE w,
                       key, l, r, binary, depth + 1)

\* One key of the innermost container: a round of diffDict, or of diffArray,
\* whose elements inherit the array's binary mark.
diffEntry(docs, w, key) ==
  LET f    == Last(w.frames)
      w1   == [w EXCEPT !.frames[Len(w.frames)].todo = @ \ {key}]
      le   == asDict(docs.left, f.l)
      re   == asDict(docs.right, f.r)
      mark == IF dereferenceIfRef(docs.left, f.l).k = "array" THEN f.binary
              ELSE binaryStringKey(le, key) \/ binaryStringKey(re, key)
  IN  IF key \notin DOMAIN re
      THEN told(w1, key, singleSided(docs.left, le[key], mark, "removed"))
      ELSE IF key \notin DOMAIN le
      THEN told(w1, key, singleSided(docs.right, re[key], mark, "added"))
      ELSE diffChild(docs, w1, key, le[key], re[key], mark, f.depth)

\* The row of the innermost container, once its entries are through.
ContainerRow(docs, f) ==
  LET v == dereferenceIfRef(docs.left, f.l)
  IN  [DiffRow(IF f.changed = {} THEN "unchanged" ELSE "changed", v.k, NoSide, NoSide)
       EXCEPT !.id = f.id,
              !.leaf = DOMAIN v.e \cup DOMAIN asDict(docs.right, f.r) = {},
              !.changedKeys = IF v.k = "array" THEN {} ELSE f.changed]

diffEnds(docs, w) ==
  LET f == Last(w.frames)
  IN  told([w EXCEPT !.frames = Front(@)], f.key, ContainerRow(docs, f))

Comparing == diffWalk.frames # <<>>

DiffStarts ==
  /\ diffWalk = diffPresent(diffDocs, DiffStart, 0, Catalog(diffDocs.left),
                            Catalog(diffDocs.right), FALSE, 0)
  /\ diffAt = <<Catalog(diffDocs.left), Catalog(diffDocs.right)>>

DiffInit == diffDocs \in [left : DiffDocs, right : DiffDocs] /\ DiffStarts

DiffsEntry ==
  /\ Comparing
  /\ \E key \in Last(diffWalk.frames).todo :
       /\ \A k \in Last(diffWalk.frames).todo : key <= k
       /\ diffWalk' = diffEntry(diffDocs, diffWalk, key)
  /\ UNCHANGED <<diffDocs, diffAt>>

DiffsContainer ==
  /\ Comparing /\ Last(diffWalk.frames).todo = {}
  /\ diffWalk' = diffEnds(diffDocs, diffWalk)
  /\ UNCHANGED <<diffDocs, diffAt>>

(***************************************************************************)
(* After the walk: marks on pairs entered elsewhere are cleared, and the   *)
(* leaves of the tree are counted.  A counter is the set of its rows.      *)
(***************************************************************************)
reconcileTruncation(node, entered) ==
  [node EXCEPT !.truncated =
     @ /\ ~(node.capRefPair # NoPair /\ node.capRefPair \in entered)]

countDelta(w) ==
  LET Of(status) == {x \in w.rows : x.node.status = status}
  IN  [added   |-> Of("added"),
       removed |-> Of("removed"),
       changed |-> {x \in Of("changed") : x.node.leaf},
       truncatedSubtrees |->
         {x \in w.rows : reconcileTruncation(x.node, w.visitedPairs).truncated}]

\* Page counts, /Version, /Encrypt, /Info and the XMP packet are read beside
\* the walk; the model has one value for the ones that decide the verdict.
fillSummary(docs) == [factsChanged |-> docs.left.facts # docs.right.facts]

diffIsIdentical(docs, w) ==
  LET count == countDelta(w)
  IN  /\ count.added = {} /\ count.removed = {} /\ count.changed = {}
      /\ ~fillSummary(docs).factsChanged
      /\ count.truncatedSubtrees = {}

\* A reader who is told that the documents are identical follows the same
\* keys through both.
ReadsOn ==
  /\ ~Comparing /\ diffIsIdentical(diffDocs, diffWalk)
  /\ LET le == asDict(diffDocs.left, diffAt[1])
         re == asDict(diffDocs.right, diffAt[2])
     IN  \E key \in DOMAIN le \cap DOMAIN re : diffAt' = <<le[key], re[key]>>
  /\ UNCHANGED <<diffDocs, diffWalk>>

DiffNext == DiffsEntry \/ DiffsContainer \/ ReadsOn

DiffSpec == DiffInit /\ [][DiffNext]_diffVars

(***************************************************************************)
(* What the comparison promises.                                           *)
(***************************************************************************)
\* Two values that are not the same, references followed and numbers
\* forgotten: what a reader sees of them without reading on.
Differ(docs, l, r) ==
  LET a == dereferenceIfRef(docs.left, l)
      b == dereferenceIfRef(docs.right, r)
  IN  \/ a.k # b.k
      \/ a.k = "scalar" /\ a.raw # b.raw
      \/ DOMAIN a.e # DOMAIN b.e

\* Every back edge was cut at a pair the walk entered (the catalogs at the
\* least), so both sides went back to objects that were compared.
BackEdgesAligned(docs, w) ==
  w.backEdges \subseteq w.visitedPairs \cup {<<docs.left.root, docs.right.root>>}

\* "identical" is true: no cut, shared pair or cleared mark hid a difference,
\* when the back edges are aligned.
IdenticalIsTrue ==
  ~Comparing /\ diffIsIdentical(diffDocs, diffWalk) /\ BackEdgesAligned(diffDocs, diffWalk) =>
    ~Differ(diffDocs, diffAt[1], diffAt[2])

\* The right document is the left one with node n numbered to[n]; two nodes
\* that are alike may have become one.
Renumbered(docs, to) ==
  /\ to[docs.left.root] = docs.right.root
  /\ \A n \in DOMAIN docs.left.nodes :
       LET a == docs.left.nodes[n]
           b == docs.right.nodes[to[n]]
       IN  /\ a.k = b.k /\ a.raw = b.raw /\ DOMAIN a.e = DOMAIN b.e
           /\ \A key \in DOMAIN a.e : b.e[key] = [n |-> to[a.e[key].n], ref |-> a.e[key].ref]

\* A renumbered copy shows no difference, whatever is shared, cyclic or
\* capped.
NoFalseDelta ==
  ~Comparing /\ (\E x \in diffWalk.rows : x.node.status # "unchanged") =>
    \A to \in [DOMAIN diffDocs.left.nodes -> DOMAIN diffDocs.right.nodes] :
      ~Renumbered(diffDocs, to)

\* A changed row shows two texts that differ, unless a binary string stands
\* in for both; a container is changed exactly when a row in it is.
RowsTellApart ==
  \A x \in diffWalk.rows :
    /\ x.node.status = "changed" /\ x.node.leaf /\ x.node.left = x.node.right =>
         \E p \in DOMAIN x.node.left.parts : x.node.left.parts[p] = <<"scalar", "binary">>
    /\ x.node.id # 0 =>
         /\ x.node.status = "changed"
              <=> \E y \in diffWalk.rows : y.below = x.node.id /\ y.node.status # "unchanged"
         /\ \A key \in x.node.changedKeys :
              \E y \in diffWalk.rows : /\ y.below = x.node.id /\ y.key = key
                                       /\ y.node.status # "unchanged"

\* diffDocuments: no row says changed where a renumbered copy is compared,
\* "identical" is only said of documents that are, and rows that differ can
\* be told apart.
ComparisonsAreRight == IdenticalIsTrue /\ NoFalseDelta /\ RowsTellApart

\* diffChild's comment: the target of a back edge "is fully accounted for by
\* its first visit", so that comparing it by its summary hides no difference.
BackEdgesHideNothing ==
  ~Comparing /\ diffIsIdentical(diffDocs, diffWalk) => ~Differ(diffDocs, diffAt[1], diffAt[2])
=============================================================================
