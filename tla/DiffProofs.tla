----------------------------- MODULE DiffProofs -----------------------------
(***************************************************************************)
(* The comparison of two documents of any shape: "identical" is said of no *)
(* two documents that differ, wherever back edges are aligned; a copy with *)
(* other object numbers shows no difference; and a row that says changed   *)
(* shows it, as does every container around it.                            *)
(*                                                                         *)
(* DiffInv is the inductive invariant: the frames of the walk are in order *)
(* (CmpShape), every pair that was compared is alike or counted and every  *)
(* key of it accounted for or still to come (CmpCovered), a renumbered     *)
(* copy has shown nothing yet (CmpCopies), the rows and the frames agree   *)
(* on what is changed (CmpRows), and the reader is at a pair that was      *)
(* compared (CmpReader).                                                   *)
(***************************************************************************)
EXTENDS Diff, SequenceTheorems, FiniteSetTheorems, TLAPS

(* The documents of the comparison. *)
CmpDocs(docs) == docs \in [left : DiffDocs, right : DiffDocs]

\* The keys of a container, of either side.
CmpKeys(docs, l, r) == DOMAIN asDict(docs.left, l) \cup DOMAIN asDict(docs.right, r)

\* A container under way.
CmpFrame(id, key, l, r, binary, depth, todo, changed) ==
  [id |-> id, key |-> key, l |-> l, r |-> r, binary |-> binary, depth |-> depth,
   todo |-> todo, changed |-> changed]

CmpFrames(docs) ==
  [id : Nat, key : Nat, l : Entries(docs.left), r : Entries(docs.right), binary : BOOLEAN,
   depth : Nat, todo : SUBSET Nat, changed : SUBSET Nat]

\* The walk, field by field.
CmpWalk(frames, opened, visitedPairs, rows, backEdges, compared) ==
  [frames |-> frames, opened |-> opened, visitedPairs |-> visitedPairs, rows |-> rows,
   backEdges |-> backEdges, compared |-> compared]

\* Each frame's keys are keys of its container, and its own key is one of
\* the container around it.
CmpShape(docs, w) ==
  /\ w = CmpWalk(w.frames, w.opened, w.visitedPairs, w.rows, w.backEdges, w.compared)
  /\ w.frames \in Seq(CmpFrames(docs))
  /\ w.opened \in Nat
  /\ \A i \in 1..Len(w.frames) :
       LET f == w.frames[i]
       IN  /\ f.todo \subseteq CmpKeys(docs, f.l, f.r)
           /\ f.changed \subseteq CmpKeys(docs, f.l, f.r)
           /\ i # 1 => f.key \in CmpKeys(docs, w.frames[i - 1].l, w.frames[i - 1].r)

(***************************************************************************)
(* That "identical" is true: every pair of values that was compared is     *)
(* alike and every entry of it accounted for, or a leaf row counts a       *)
(* difference.                                                             *)
(***************************************************************************)
HasDelta(w) ==
  \E x \in w.rows : \/ x.node.status \in {"added", "removed"}
                    \/ x.node.status = "changed" /\ x.node.leaf

\* Of the same kind, and of the same bytes if scalars.
SameSort(docs, l, r) ==
  LET a == dereferenceIfRef(docs.left, l)
      b == dereferenceIfRef(docs.right, r)
  IN  a.k = b.k /\ (a.k = "scalar" => a.raw = b.raw)

\* Where the entries l and r of one key are read: at a pair that was
\* compared, was entered before, closed a cycle or met the cap.
Reached(w, l, r) ==
  LET pair == <<refVisitKeyOf(l), refVisitKeyOf(r)>>
  IN  \/ <<l, r>> \in w.compared
      \/ l.ref /\ r.ref /\ pair \in w.visitedPairs
      \/ pair \in w.backEdges
      \/ \E x \in w.rows : /\ x.node.truncated
                           /\ x.node.capRefPair = IF l.ref /\ r.ref THEN pair ELSE NoPair

\* The key is on both sides and accounted for, or a row counts a difference.
KeyDone(docs, w, l, r, key) ==
  LET le == asDict(docs.left, l)
      re == asDict(docs.right, r)
  IN  \/ HasDelta(w)
      \/ key \in DOMAIN le /\ key \in DOMAIN re /\ Reached(w, le[key], re[key])

\* The key of l and r is still to come, in a container under way.
StillTodo(w, l, r, key) ==
  \E i \in 1..Len(w.frames) : w.frames[i].l = l /\ w.frames[i].r = r /\ key \in w.frames[i].todo

CmpCovered(docs, w) ==
  /\ w.compared \subseteq Entries(docs.left) \X Entries(docs.right)
  /\ <<Catalog(docs.left), Catalog(docs.right)>> \in w.compared
  /\ \A p \in w.visitedPairs :
       \E c \in w.compared : c[1].ref /\ c[2].ref /\ p = <<c[1].n, c[2].n>>
  /\ \A c \in w.compared :
       /\ SameSort(docs, c[1], c[2]) \/ HasDelta(w)
       /\ \A key \in CmpKeys(docs, c[1], c[2]) :
            KeyDone(docs, w, c[1], c[2], key) \/ StillTodo(w, c[1], c[2], key)

(***************************************************************************)
(* That a renumbered copy shows no difference.                             *)
(***************************************************************************)
\* Where the numbering takes an item.
ImageOf(to, item) == [n |-> to[item.n], ref |-> item.ref]

CmpCopies(docs, w) ==
  \A to \in [DOMAIN docs.left.nodes -> DOMAIN docs.right.nodes] :
    Renumbered(docs, to) =>
      /\ \A i \in 1..Len(w.frames) : /\ w.frames[i].r = ImageOf(to, w.frames[i].l)
                                     /\ w.frames[i].changed = {}
      /\ \A x \in w.rows : x.node.status = "unchanged"

(***************************************************************************)
(* That rows tell apart, and a container is changed by the rows in it.     *)
(***************************************************************************)
\* The node of a row is one of diffNode's, and one that is changed shows it.
NodeRight(node) ==
  /\ "truncated" \in DOMAIN node
  /\ node.status = "changed" /\ node.leaf /\ node.left = node.right =>
       \E p \in DOMAIN node.left.parts : node.left.parts[p] = <<"scalar", "binary">>

ChangedBelow(w, id, key) ==
  \E y \in w.rows : y.below = id /\ y.key = key /\ y.node.status # "unchanged"

CmpRows(w) ==
  /\ \A i \in 1..Len(w.frames) :
       /\ w.frames[i].id \in 1..w.opened
       /\ \A j \in 1..Len(w.frames) : i < j => w.frames[i].id < w.frames[j].id
       /\ \A key : key \in w.frames[i].changed <=> ChangedBelow(w, w.frames[i].id, key)
  /\ \A x \in w.rows :
       /\ x.below \in 0..w.opened /\ x.node.id \in 0..w.opened
       /\ \A i \in 1..Len(w.frames) : x.node.id # w.frames[i].id
       /\ NodeRight(x.node)
       /\ x.node.id # 0 =>
            /\ x.node.status = "changed" <=> \E key : ChangedBelow(w, x.node.id, key)
            /\ \A key \in x.node.changedKeys : ChangedBelow(w, x.node.id, key)

\* Once "identical" was said, the reader is at a pair that was compared.
CmpReader(docs, w, at) ==
  \/ at = <<Catalog(docs.left), Catalog(docs.right)>>
  \/ w.frames = <<>> /\ (diffIsIdentical(docs, w) /\ BackEdgesAligned(docs, w) => at \in w.compared)

\* The inductive invariant.
DiffInv ==
  /\ CmpDocs(diffDocs)
  /\ CmpShape(diffDocs, diffWalk)
  /\ CmpCovered(diffDocs, diffWalk)
  /\ CmpCopies(diffDocs, diffWalk)
  /\ CmpRows(diffWalk)
  /\ CmpReader(diffDocs, diffWalk, diffAt)

\* What DiffAssumption says of a document.
GoodDoc(doc) ==
  /\ NoRef \notin DOMAIN doc.nodes
  /\ doc.root \in DOMAIN doc.nodes /\ doc.nodes[doc.root].k = "dict"
  /\ \A n \in DOMAIN doc.nodes :
       /\ doc.nodes[n].k \in {"scalar", "ref", "dict", "array", "stream"}
       /\ doc.nodes[n].k \in {"scalar", "ref"} => DOMAIN doc.nodes[n].e = {}
       /\ DOMAIN doc.nodes[n].e \subseteq Nat
       /\ \A key \in DOMAIN doc.nodes[n].e : doc.nodes[n].e[key] \in Entries(doc)

(* Both documents of a comparison are what DiffAssumption says. *)
LEMMA BothAreGood ==
  ASSUME NEW docs, CmpDocs(docs)
  PROVE  GoodDoc(docs.left) /\ GoodDoc(docs.right)
BY DiffAssumption DEF CmpDocs, GoodDoc

(* The entries of a value: their keys are numbers, and scalars have none. *)
LEMMA EntriesAreItems ==
  ASSUME NEW doc, GoodDoc(doc), NEW item \in Entries(doc)
  PROVE  /\ DOMAIN asDict(doc, item) \subseteq Nat
         /\ \A key \in DOMAIN asDict(doc, item) : asDict(doc, item)[key] \in Entries(doc)
         /\ dereferenceIfRef(doc, item).k \in {"scalar", "ref", "dict", "array", "stream"}
         /\ dereferenceIfRef(doc, item).k \in {"scalar", "ref"} => DOMAIN asDict(doc, item) = {}
BY DEF GoodDoc, Entries, asDict, dereferenceIfRef

(* The catalog is a value of the document. *)
LEMMA CatalogIsItem ==
  ASSUME NEW doc, GoodDoc(doc)
  PROVE  /\ Catalog(doc) \in Entries(doc) /\ Catalog(doc).ref /\ Catalog(doc).n = doc.root
         /\ dereferenceIfRef(doc, Catalog(doc)).k = "dict"
BY DEF GoodDoc, Entries, Catalog, dereferenceIfRef

(* Two references to the same object are the same item. *)
LEMMA SameReference ==
  ASSUME NEW doc, NEW x \in Entries(doc), NEW y \in Entries(doc), x.ref, y.ref, x.n = y.n
  PROVE  x = y
BY DEF Entries

(* The number that stands for a reference on the path is never NoRef. *)
LEMMA ReferenceNumber ==
  ASSUME NEW doc, GoodDoc(doc), NEW x \in Entries(doc)
  PROVE  refVisitKeyOf(x) # NoRef <=> x.ref
BY DEF GoodDoc, Entries, refVisitKeyOf

(***************************************************************************)
(* The innermost frame with other marks.                                   *)
(***************************************************************************)
Marked(s, todo, changed) ==
  [i \in 1..Len(s) |->
     IF i = Len(s) THEN CmpFrame(s[i].id, s[i].key, s[i].l, s[i].r, s[i].binary, s[i].depth, todo, changed)
     ELSE s[i]]

(* A frame's marks, written as EXCEPT. *)
LEMMA FrameExcept ==
  ASSUME NEW docs, NEW f \in CmpFrames(docs), NEW key
  PROVE  /\ [f EXCEPT !.todo = f.todo \ {key}]
               = CmpFrame(f.id, f.key, f.l, f.r, f.binary, f.depth, f.todo \ {key}, f.changed)
         /\ [f EXCEPT !.changed = f.changed \cup {key}]
               = CmpFrame(f.id, f.key, f.l, f.r, f.binary, f.depth, f.todo, f.changed \cup {key})
<1>1. f = CmpFrame(f.id, f.key, f.l, f.r, f.binary, f.depth, f.todo, f.changed)
  BY DEF CmpFrame, CmpFrames
<1> QED
  BY <1>1 DEF CmpFrame

(* Only the last frame's marks are other ones. *)
LEMMA MarkedIs ==
  ASSUME NEW docs, NEW s \in Seq(CmpFrames(docs)), s # <<>>, NEW todo \in SUBSET Nat,
         NEW changed \in SUBSET Nat
  PROVE  /\ Marked(s, todo, changed) \in Seq(CmpFrames(docs))
         /\ Len(Marked(s, todo, changed)) = Len(s) /\ Len(s) \in Nat \ {0}
         /\ \A i \in 1..Len(s) :
              LET f == Marked(s, todo, changed)[i]
              IN  /\ f.id = s[i].id /\ f.key = s[i].key /\ f.l = s[i].l /\ f.r = s[i].r
                  /\ f.binary = s[i].binary /\ f.depth = s[i].depth
                  /\ f.todo = IF i = Len(s) THEN todo ELSE s[i].todo
                  /\ f.changed = IF i = Len(s) THEN changed ELSE s[i].changed
<1>1. Len(s) \in Nat \ {0} /\ DOMAIN s = 1..Len(s)
  BY EmptySeq, LenProperties
<1>2. \A i \in 1..Len(s) : s[i] \in CmpFrames(docs)
  BY <1>1, ElementOfSeq
<1> DEFINE u == Marked(s, todo, changed)
<1>3. DOMAIN u = 1..Len(s)
  BY DEF Marked
<1>4. \A i \in 1..Len(s) :
        u[i] = IF i = Len(s)
               THEN CmpFrame(s[i].id, s[i].key, s[i].l, s[i].r, s[i].binary, s[i].depth, todo, changed)
               ELSE s[i]
  BY DEF Marked
<1>5. ASSUME NEW i \in 1..Len(s)
      PROVE  /\ u[i] \in CmpFrames(docs)
             /\ u[i].id = s[i].id /\ u[i].key = s[i].key /\ u[i].l = s[i].l /\ u[i].r = s[i].r
             /\ u[i].binary = s[i].binary /\ u[i].depth = s[i].depth
             /\ u[i].todo = IF i = Len(s) THEN todo ELSE s[i].todo
             /\ u[i].changed = IF i = Len(s) THEN changed ELSE s[i].changed
  <2> HIDE DEF u
  <2>1. CASE i = Len(s)
    <3>1. s[i] \in CmpFrames(docs)
      BY <1>2
    <3>2. u[i] = CmpFrame(s[i].id, s[i].key, s[i].l, s[i].r, s[i].binary, s[i].depth, todo, changed)
      BY <1>4, <2>1
    <3> DEFINE f == s[i]
               g == u[i]
    <3>3. f \in CmpFrames(docs) /\ g = CmpFrame(f.id, f.key, f.l, f.r, f.binary, f.depth, todo, changed)
      BY <3>1, <3>2
    <3> HIDE DEF f, g
    <3>4. /\ g \in CmpFrames(docs)
          /\ g.id = f.id /\ g.key = f.key /\ g.l = f.l /\ g.r = f.r
          /\ g.binary = f.binary /\ g.depth = f.depth /\ g.todo = todo /\ g.changed = changed
      BY <3>3 DEF CmpFrame, CmpFrames
    <3> QED
      BY <2>1, <3>4 DEF f, g
  <2>2. CASE i # Len(s)
    BY <1>2, <1>4, <2>2
  <2> QED
    BY <2>1, <2>2
<1>6. u = [i \in 1..Len(s) |-> u[i]]
  BY <1>3 DEF Marked
<1> HIDE DEF u
<1>7. u \in Seq(CmpFrames(docs)) /\ Len(u) = Len(s)
  BY <1>1, <1>3, <1>5, <1>6, SeqDef, LenProperties
<1> QED
  BY <1>1, <1>5, <1>7 DEF u

\* A walk whose frames are frames.
HasFrames(docs, w) ==
  /\ w = CmpWalk(w.frames, w.opened, w.visitedPairs, w.rows, w.backEdges, w.compared)
  /\ w.frames \in Seq(CmpFrames(docs)) /\ w.frames # <<>>

\* The walk when the innermost container's key is taken up, and more pairs
\* have been met.
Taken(w, key, V, B, C) ==
  CmpWalk(Marked(w.frames, Last(w.frames).todo \ {key}, Last(w.frames).changed), w.opened,
          w.visitedPairs \cup V, w.rows, w.backEdges \cup B, w.compared \cup C)

\* And when its row is written.
Reported(w, key, node, V, B, C) ==
  CmpWalk(Marked(w.frames, Last(w.frames).todo \ {key},
                 Last(w.frames).changed \cup (IF node.status = "unchanged" THEN {} ELSE {key})),
          w.opened, w.visitedPairs \cup V,
          w.rows \cup {[below |-> Last(w.frames).id, key |-> key, node |-> node]},
          w.backEdges \cup B, w.compared \cup C)

\* Or when the containers l and r under it are gone into.
WentInto(docs, w, key, l, r, binary, depth, V) ==
  CmpWalk(Append(Marked(w.frames, Last(w.frames).todo \ {key}, Last(w.frames).changed),
                 CmpFrame(w.opened + 1, key, l, r, binary, depth, CmpKeys(docs, l, r), {})),
          w.opened + 1, w.visitedPairs \cup V, w.rows, w.backEdges, w.compared \cup {<<l, r>>})

(* The innermost frame is a frame. *)
LEMMA InnermostIsFrame ==
  ASSUME NEW docs, NEW w, HasFrames(docs, w)
  PROVE  /\ Len(w.frames) \in Nat \ {0} /\ DOMAIN w.frames = 1..Len(w.frames)
         /\ \A i \in 1..Len(w.frames) : w.frames[i] \in CmpFrames(docs)
         /\ Last(w.frames) = w.frames[Len(w.frames)] /\ Last(w.frames) \in CmpFrames(docs)
<1>1. w.frames \in Seq(CmpFrames(docs)) /\ w.frames # <<>>
  BY DEF HasFrames
<1> DEFINE s == w.frames
<1> HIDE DEF s
<1>2. s \in Seq(CmpFrames(docs)) /\ s # <<>>
  BY <1>1 DEF s
<1>3. Len(s) \in Nat \ {0} /\ DOMAIN s = 1..Len(s) /\ Len(s) \in 1..Len(s)
  BY <1>2, EmptySeq, LenProperties
<1>4. \A i \in 1..Len(s) : s[i] \in CmpFrames(docs)
  BY <1>2, <1>3, ElementOfSeq
<1> QED
  BY <1>3, <1>4 DEF s, Last

(* A key of the innermost container is taken up as diffEntry writes it. *)
LEMMA KeyIsTaken ==
  ASSUME NEW docs, NEW w, HasFrames(docs, w), NEW key
  PROVE  [w EXCEPT !.frames[Len(w.frames)].todo = @ \ {key}] = Taken(w, key, {}, {}, {})
<1> DEFINE s == w.frames
           last == Len(w.frames)
           t == [s EXCEPT ![last].todo = @ \ {key}]
<1>1. w = CmpWalk(w.frames, w.opened, w.visitedPairs, w.rows, w.backEdges, w.compared)
  BY DEF HasFrames
<1>2. /\ last \in Nat \ {0} /\ DOMAIN s = 1..last /\ last \in 1..last
      /\ s[last] \in CmpFrames(docs) /\ Last(s) = s[last]
      /\ s = [i \in 1..last |-> s[i]]
  BY InnermostIsFrame DEF HasFrames
<1>3. [s[last] EXCEPT !.todo = @ \ {key}]
        = CmpFrame(s[last].id, s[last].key, s[last].l, s[last].r, s[last].binary,
                   s[last].depth, s[last].todo \ {key}, s[last].changed)
  BY <1>2, FrameExcept
<1>4. t = Marked(s, Last(s).todo \ {key}, Last(s).changed)
  BY <1>2, <1>3 DEF Marked
<1>5. [w EXCEPT !.frames[last].todo = @ \ {key}] = [w EXCEPT !.frames = t]
  BY <1>1 DEF CmpWalk
<1> HIDE DEF t
<1>6. [w EXCEPT !.frames = t]
        = CmpWalk(t, w.opened, w.visitedPairs \cup {}, w.rows, w.backEdges \cup {}, w.compared \cup {})
  BY <1>1 DEF CmpWalk
<1> QED
  BY <1>4, <1>5, <1>6 DEF Taken

\* The walk after one more pair, as diffChild and diffPresent write it.
WithVisited(u, p)  == [u EXCEPT !.visitedPairs = @ \cup {p}]
WithBack(u, p)     == [u EXCEPT !.backEdges = @ \cup {p}]
WithCompared(u, p) == [u EXCEPT !.compared = @ \cup {p}]

(* A pair that is entered, after a key is taken up. *)
LEMMA PairIsVisited ==
  ASSUME NEW w, NEW key, NEW p
  PROVE  WithVisited(Taken(w, key, {}, {}, {}), p) = Taken(w, key, {p}, {}, {})
<1> DEFINE fr == Marked(w.frames, Last(w.frames).todo \ {key}, Last(w.frames).changed)
           op == w.opened
           ro == w.rows
           vv == w.visitedPairs \cup {}
           bb == w.backEdges \cup {}
           cc == w.compared \cup {}
           vv2 == vv \cup {p}
           u == CmpWalk(fr, op, vv, ro, bb, cc)
<1>1. w.visitedPairs \cup {p} = vv2
  OBVIOUS
<1>2. [u EXCEPT !.visitedPairs = vv2] = CmpWalk(fr, op, vv2, ro, bb, cc)
  <2> HIDE DEF fr, op, vv, ro, bb, cc, vv2
  <2> QED
    BY DEF CmpWalk
<1>3. WithVisited(u, p) = [u EXCEPT !.visitedPairs = vv2]
  <2>1. u.visitedPairs = vv
    BY DEF CmpWalk
  <2> HIDE DEF u
  <2> QED
    BY <2>1 DEF WithVisited
<1> QED
  BY <1>1, <1>2, <1>3 DEF Taken

(* A pair that closes a cycle. *)
LEMMA PairIsBack ==
  ASSUME NEW w, NEW key, NEW p
  PROVE  WithBack(Taken(w, key, {}, {}, {}), p) = Taken(w, key, {}, {p}, {})
<1> DEFINE fr == Marked(w.frames, Last(w.frames).todo \ {key}, Last(w.frames).changed)
           op == w.opened
           ro == w.rows
           vv == w.visitedPairs \cup {}
           bb == w.backEdges \cup {}
           cc == w.compared \cup {}
           bb2 == bb \cup {p}
           u == CmpWalk(fr, op, vv, ro, bb, cc)
<1>1. w.backEdges \cup {p} = bb2
  OBVIOUS
<1>2. [u EXCEPT !.backEdges = bb2] = CmpWalk(fr, op, vv, ro, bb2, cc)
  <2> HIDE DEF fr, op, vv, ro, bb, cc, bb2
  <2> QED
    BY DEF CmpWalk
<1>3. WithBack(u, p) = [u EXCEPT !.backEdges = bb2]
  <2>1. u.backEdges = bb
    BY DEF CmpWalk
  <2> HIDE DEF u
  <2> QED
    BY <2>1 DEF WithBack
<1> QED
  BY <1>1, <1>2, <1>3 DEF Taken

(* A pair that is compared. *)
LEMMA PairIsCompared ==
  ASSUME NEW w, NEW key, NEW V, NEW p
  PROVE  WithCompared(Taken(w, key, V, {}, {}), p) = Taken(w, key, V, {}, {p})
<1> DEFINE fr == Marked(w.frames, Last(w.frames).todo \ {key}, Last(w.frames).changed)
           op == w.opened
           ro == w.rows
           vv == w.visitedPairs \cup V
           bb == w.backEdges \cup {}
           cc == w.compared \cup {}
           cc2 == cc \cup {p}
           u == CmpWalk(fr, op, vv, ro, bb, cc)
<1>1. w.compared \cup {p} = cc2
  OBVIOUS
<1>2. [u EXCEPT !.compared = cc2] = CmpWalk(fr, op, vv, ro, bb, cc2)
  <2> HIDE DEF fr, op, vv, ro, bb, cc, cc2
  <2> QED
    BY DEF CmpWalk
<1>3. WithCompared(u, p) = [u EXCEPT !.compared = cc2]
  <2>1. u.compared = cc
    BY DEF CmpWalk
  <2> HIDE DEF u
  <2> QED
    BY <2>1 DEF WithCompared
<1> QED
  BY <1>1, <1>2, <1>3 DEF Taken

\* The innermost frame with key among its changed ones, as told writes it.
ChangedToo(fr, key) == [fr EXCEPT ![Len(fr)].changed = @ \cup {key}]

\* The frames and the rows after a row is told.
ToldFrames(fr, key, node) == IF node.status = "unchanged" THEN fr ELSE ChangedToo(fr, key)

WithRow(rows, id, key, node) == rows \cup {[below |-> id, key |-> key, node |-> node]}

(* What telling a row does to the fields of a walk. *)
LEMMA ToldIs ==
  ASSUME NEW fr, Len(fr) # 0, NEW op, NEW vi, NEW ro, NEW ba, NEW co, NEW key, NEW node
  PROVE  told(CmpWalk(fr, op, vi, ro, ba, co), key, node)
           = CmpWalk(ToldFrames(fr, key, node), op, vi, WithRow(ro, fr[Len(fr)].id, key, node), ba, co)
<1> DEFINE u == CmpWalk(fr, op, vi, ro, ba, co)
           more == WithRow(ro, fr[Len(fr)].id, key, node)
           top == ToldFrames(fr, key, node)
<1>1. u.frames = fr /\ u.rows = ro
  BY DEF CmpWalk
<1>2. told(u, key, node) = [[u EXCEPT !.rows = more] EXCEPT !.frames = top]
  <2> HIDE DEF u
  <2> QED
    BY <1>1 DEF told, ToldFrames, ChangedToo, WithRow
<1> HIDE DEF more, top
<1>3. [u EXCEPT !.rows = more] = CmpWalk(fr, op, vi, more, ba, co)
  BY DEF CmpWalk
<1>4. [CmpWalk(fr, op, vi, more, ba, co) EXCEPT !.frames = top] = CmpWalk(top, op, vi, more, ba, co)
  BY DEF CmpWalk
<1> QED
  BY <1>2, <1>3, <1>4 DEF more, top

(* A key among the changed ones is a mark of the innermost frame. *)
LEMMA ChangedTooIs ==
  ASSUME NEW docs, NEW s \in Seq(CmpFrames(docs)), s # <<>>, NEW todo \in SUBSET Nat,
         NEW changed \in SUBSET Nat, NEW key \in Nat,
         NEW t, t = Marked(s, todo, changed)
  PROVE  /\ Len(t) = Len(s) /\ Len(t) # 0 /\ t[Len(t)].id = s[Len(s)].id
         /\ ChangedToo(t, key) = Marked(s, todo, changed \cup {key})
<1> DEFINE last == Len(s)
           f == s[last]
           g == CmpFrame(f.id, f.key, f.l, f.r, f.binary, f.depth, todo, changed)
           h == CmpFrame(f.id, f.key, f.l, f.r, f.binary, f.depth, todo, changed \cup {key})
           more == ChangedToo(t, key)
<1>1. Len(t) = last /\ last \in Nat \ {0}
  BY MarkedIs
<1>2. /\ DOMAIN t = 1..last /\ t = [i \in 1..last |-> t[i]]
      /\ \A i \in 1..last : i # last => t[i] = s[i]
  BY <1>1 DEF Marked
<1>3. t[last] = g
  <2>1. last \in 1..last
    BY <1>1
  <2>2. t[last] = IF last = Len(s) THEN g ELSE s[last]
    BY <2>1 DEF Marked
  <2> QED
    BY <2>2
<1>4. g.id = f.id /\ g.changed = changed /\ [g EXCEPT !.changed = @ \cup {key}] = h
  <2> DEFINE more2 == changed \cup {key}
  <2>1. g.id = f.id /\ g.changed = changed
    BY DEF CmpFrame
  <2>2. [g EXCEPT !.changed = more2] = CmpFrame(f.id, f.key, f.l, f.r, f.binary, f.depth, todo, more2)
    <3> HIDE DEF f, more2
    <3> QED
      BY DEF CmpFrame
  <2> QED
    BY <2>1, <2>2
<1> HIDE DEF g, h, f, last
<1>5. more = [t EXCEPT ![last] = h]
  <2>1. more = [t EXCEPT ![last] = [t[last] EXCEPT !.changed = t[last].changed \cup {key}]]
    BY <1>1 DEF ChangedToo
  <2>2. [t[last] EXCEPT !.changed = t[last].changed \cup {key}] = h
    BY <1>3, <1>4
  <2> QED
    BY <2>1, <2>2
<1>6. [t EXCEPT ![last] = h] = [i \in 1..last |-> IF i = last THEN h ELSE s[i]]
  BY <1>1, <1>2
<1>7. Marked(s, todo, changed \cup {key}) = [i \in 1..last |-> IF i = last THEN h ELSE s[i]]
  BY DEF Marked, h, f, last
<1> QED
  BY <1>1, <1>3, <1>4, <1>5, <1>6, <1>7 DEF last, f

(* Telling a row of the key that was taken up. *)
LEMMA RowIsTold ==
  ASSUME NEW docs, NEW w, HasFrames(docs, w), NEW key \in Nat, NEW node, NEW V, NEW B, NEW C
  PROVE  told(Taken(w, key, V, B, C), key, node) = Reported(w, key, node, V, B, C)
<1> DEFINE s       == w.frames
           todo    == Last(w.frames).todo \ {key}
           changed == Last(w.frames).changed
           t       == Marked(s, todo, changed)
           id      == Last(w.frames).id
           op == w.opened
           ro == w.rows
           vv == w.visitedPairs \cup V
           bb == w.backEdges \cup B
           cc == w.compared \cup C
<1>1. /\ s \in Seq(CmpFrames(docs)) /\ s # <<>> /\ todo \in SUBSET Nat /\ changed \in SUBSET Nat
      /\ id = s[Len(s)].id
  BY InnermostIsFrame DEF CmpFrames, HasFrames
<1>2. /\ Len(t) # 0 /\ t[Len(t)].id = id
      /\ ChangedToo(t, key) = Marked(s, todo, changed \cup {key})
  <2> HIDE DEF s, todo, changed, id
  <2> QED
    BY <1>1, ChangedTooIs
<1>3. Taken(w, key, V, B, C) = CmpWalk(t, op, vv, ro, bb, cc)
  BY DEF Taken
<1>4. told(CmpWalk(t, op, vv, ro, bb, cc), key, node)
        = CmpWalk(ToldFrames(t, key, node), op, vv, WithRow(ro, t[Len(t)].id, key, node), bb, cc)
  <2> HIDE DEF t, op, ro, vv, bb, cc
  <2> QED
    BY <1>2, ToldIs
<1>5. CASE node.status = "unchanged"
  <2>1. Reported(w, key, node, V, B, C)
          = CmpWalk(Marked(s, todo, changed \cup {}), op, vv,
                    ro \cup {[below |-> id, key |-> key, node |-> node]}, bb, cc)
    BY <1>5 DEF Reported
  <2>2. changed \cup {} = changed
    OBVIOUS
  <2> HIDE DEF op, ro, vv, bb, cc, todo, changed, id
  <2> QED
    BY <1>2, <1>3, <1>4, <1>5, <2>1, <2>2 DEF ToldFrames, WithRow
<1>6. CASE node.status # "unchanged"
  <2>1. Reported(w, key, node, V, B, C)
          = CmpWalk(Marked(s, todo, changed \cup {key}), op, vv,
                    ro \cup {[below |-> id, key |-> key, node |-> node]}, bb, cc)
    BY <1>6 DEF Reported
  <2> HIDE DEF op, ro, vv, bb, cc, todo, changed, id, t
  <2> QED
    BY <1>2, <1>3, <1>4, <1>6, <2>1 DEF ToldFrames, WithRow
<1> QED
  BY <1>5, <1>6

(* Going into the containers under the key that was taken up. *)
LEMMA ContainersAreEntered ==
  ASSUME NEW docs, NEW w, NEW key, NEW l, NEW r, NEW binary, NEW depth, NEW V
  PROVE  LET u == Taken(w, key, V, {}, {<<l, r>>})
         IN  [u EXCEPT !.opened = @ + 1,
                       !.frames = Append(@, [id |-> u.opened + 1, key |-> key, l |-> l, r |-> r,
                                             binary |-> binary, depth |-> depth,
                                             todo |-> CmpKeys(docs, l, r), changed |-> {}])]
               = WentInto(docs, w, key, l, r, binary, depth, V)
<1> DEFINE u  == Taken(w, key, V, {}, {<<l, r>>})
           t  == Marked(w.frames, Last(w.frames).todo \ {key}, Last(w.frames).changed)
           op == w.opened
           ro == w.rows
           vv == w.visitedPairs \cup V
           bb == w.backEdges
           cc == w.compared \cup {<<l, r>>}
           g  == CmpFrame(op + 1, key, l, r, binary, depth, CmpKeys(docs, l, r), {})
           more == Append(t, g)
           up == op + 1
<1>1. u = CmpWalk(t, op, vv, ro, bb, cc)
  BY DEF Taken
<1>2. u.opened = op /\ u.frames = t
  BY <1>1 DEF CmpWalk
<1>3. g = [id |-> u.opened + 1, key |-> key, l |-> l, r |-> r, binary |-> binary, depth |-> depth,
           todo |-> CmpKeys(docs, l, r), changed |-> {}]
  BY <1>2 DEF CmpFrame
<1>4. WentInto(docs, w, key, l, r, binary, depth, V) = CmpWalk(more, up, vv, ro, bb, cc)
  BY DEF WentInto
<1> HIDE DEF u, t, op, ro, vv, bb, cc, g, more, up
<1>5. [u EXCEPT !.opened = up] = CmpWalk(t, up, vv, ro, bb, cc)
  BY <1>1 DEF CmpWalk
<1>6. [CmpWalk(t, up, vv, ro, bb, cc) EXCEPT !.frames = more] = CmpWalk(more, up, vv, ro, bb, cc)
  BY DEF CmpWalk
<1>7. [u EXCEPT !.opened = @ + 1, !.frames = Append(@, g)] = [[u EXCEPT !.opened = up] EXCEPT !.frames = more]
  BY <1>2 DEF up, more
<1> QED
  BY <1>3, <1>4, <1>5, <1>6, <1>7 DEF u

(***************************************************************************)
(* The rows that diffEntry tells.                                          *)
(***************************************************************************)
\* The row of two values compared by their byte-exact summaries.
LeafRow(docs, l, r, node) ==
  /\ node.id = 0 /\ node.leaf /\ node.changedKeys = {} /\ NodeRight(node)
  /\ node.status = IF diffCompare(docs.left, l) = diffCompare(docs.right, r)
                   THEN "unchanged" ELSE "changed"

\* The row of one side, or of two kinds.
OddRow(node) ==
  /\ node.id = 0 /\ node.leaf /\ node.changedKeys = {} /\ NodeRight(node)
  /\ node.status \in {"added", "removed", "changed"}

(* Where no binary string is left out, the summary that keeps the stand-in *)
(* is the byte-exact one.                                                  *)
LEMMA FallIsExact ==
  ASSUME NEW doc, NEW item, NEW binary,
         \A p \in DOMAIN summarizeWith(doc, item, binary, "fall").parts :
           summarizeWith(doc, item, binary, "fall").parts[p] # <<"scalar", "binary">>
  PROVE  summarizeWith(doc, item, binary, "fall") = diffCompare(doc, item)
<1> DEFINE v == dereferenceIfRef(doc, item)
           MarkF(x) == IF v.k = "array" THEN binary ELSE binaryStringKey(v.e, x)
           MarkC(x) == IF v.k = "array" THEN FALSE ELSE binaryStringKey(v.e, x)
           fall == summarizeWith(doc, item, binary, "fall")
           exact == summarizeWith(doc, item, FALSE, "compare")
<1>1. CASE v.k = "scalar"
  <2>1. fall = [k |-> v.k, parts |-> [x \in {0} |-> renderScalar(v.raw, binary, "fall")]]
        /\ exact = [k |-> v.k, parts |-> [x \in {0} |-> renderScalar(v.raw, FALSE, "compare")]]
    BY <1>1 DEF summarizeWith
  <2>2. fall.parts[0] = renderScalar(v.raw, binary, "fall") /\ 0 \in DOMAIN fall.parts
    BY <2>1
  <2>3. renderScalar(v.raw, binary, "fall") = renderScalar(v.raw, FALSE, "compare")
    BY <2>2 DEF renderScalar
  <2> QED
    BY <2>1, <2>3 DEF diffCompare
<1>2. CASE v.k # "scalar"
  <2>1. /\ fall = [k |-> v.k, parts |-> [x \in DOMAIN v.e |-> shallowValue(doc, v.e[x], MarkF(x), "fall")]]
        /\ exact = [k |-> v.k, parts |-> [x \in DOMAIN v.e |-> shallowValue(doc, v.e[x], MarkC(x), "compare")]]
    BY <1>2 DEF summarizeWith
  <2>2. ASSUME NEW x \in DOMAIN v.e
        PROVE  shallowValue(doc, v.e[x], MarkF(x), "fall") = shallowValue(doc, v.e[x], MarkC(x), "compare")
    <3>1. fall.parts[x] = shallowValue(doc, v.e[x], MarkF(x), "fall") /\ x \in DOMAIN fall.parts
      BY <2>1
    <3>2. shallowValue(doc, v.e[x], MarkF(x), "fall") # <<"scalar", "binary">>
      BY <3>1
    <3> HIDE DEF v, MarkF, MarkC
    <3> QED
      BY <3>2 DEF shallowValue, renderScalar
  <2> HIDE DEF MarkF, MarkC, v
  <2> QED
    BY <2>1, <2>2 DEF diffCompare
<1> QED
  BY <1>1, <1>2

(* The row of two values compared by their summaries. *)
LEMMA ScalarLeafIs ==
  ASSUME NEW docs, NEW kind, NEW l, NEW r, NEW binary, NEW node, node = scalarLeaf(docs, kind, l, r, binary)
  PROVE  /\ LeafRow(docs, l, r, node)
         /\ node = DiffRow(node.status, kind, node.left, node.right)
<1> DEFINE same  == diffCompare(docs.left, l) = diffCompare(docs.right, r)
           alike == diffSummarize(docs.left, l, binary) = diffSummarize(docs.right, r, binary)
           mode  == IF ~same /\ alike THEN "fall" ELSE "show"
           ls == summarizeWith(docs.left, l, binary, mode)
           rs == summarizeWith(docs.right, r, binary, mode)
           st == IF same THEN "unchanged" ELSE "changed"
<1>1. node = DiffRow(st, kind, ls, rs)
  BY DEF scalarLeaf
<1>2. ASSUME ~same, ls = rs PROVE \E p \in DOMAIN ls.parts : ls.parts[p] = <<"scalar", "binary">>
  <2>1. alike
    BY <1>2 DEF diffSummarize
  <2>2. mode = "fall"
    BY <1>2, <2>1
  <2> SUFFICES ASSUME \A p \in DOMAIN ls.parts : ls.parts[p] # <<"scalar", "binary">>
               PROVE  FALSE
    OBVIOUS
  <2>3. ls = diffCompare(docs.left, l)
    BY <2>2, FallIsExact
  <2>4. rs = diffCompare(docs.right, r)
    BY <1>2, <2>2, FallIsExact
  <2> QED
    BY <1>2, <2>3, <2>4
<1> HIDE DEF ls, rs, mode
<1>3. /\ node.id = 0 /\ node.leaf /\ node.changedKeys = {} /\ node.status = st
      /\ node.left = ls /\ node.right = rs /\ "truncated" \in DOMAIN node
  BY <1>1 DEF DiffRow
<1>4. NodeRight(node)
  BY <1>2, <1>3 DEF NodeRight
<1> QED
  BY <1>1, <1>3, <1>4 DEF LeafRow

\* A row that the cap cut, as diffChild writes it.
Capped(node, cut) == [node EXCEPT !.truncated = TRUE, !.capRefPair = cut]

(* And when it is cut by the cap. *)
LEMMA CapLeafIs ==
  ASSUME NEW docs, NEW kind, NEW l, NEW r, NEW binary, NEW cut,
         NEW node, node = Capped(scalarLeaf(docs, kind, l, r, binary), cut)
  PROVE  LeafRow(docs, l, r, node) /\ node.truncated /\ node.capRefPair = cut
<1> DEFINE leaf == scalarLeaf(docs, kind, l, r, binary)
<1>1. LeafRow(docs, l, r, leaf) /\ leaf = DiffRow(leaf.status, kind, leaf.left, leaf.right)
  BY ScalarLeafIs
<1>2. node = [leaf EXCEPT !.truncated = TRUE, !.capRefPair = cut]
  BY DEF Capped
<1> HIDE DEF leaf
<1>3. /\ node.status = leaf.status /\ node.left = leaf.left /\ node.right = leaf.right
      /\ node.id = leaf.id /\ node.leaf = leaf.leaf /\ node.changedKeys = leaf.changedKeys
      /\ node.truncated = TRUE /\ node.capRefPair = cut /\ "truncated" \in DOMAIN node
  <2> DEFINE st == leaf.status
             ll == leaf.left
             rr == leaf.right
  <2>1. leaf = DiffRow(st, kind, ll, rr)
    BY <1>1
  <2> HIDE DEF st, ll, rr
  <2>2. /\ node.status = st /\ node.left = ll /\ node.right = rr
        /\ node.id = 0 /\ node.leaf = TRUE /\ node.changedKeys = {}
        /\ node.truncated = TRUE /\ node.capRefPair = cut /\ "truncated" \in DOMAIN node
        /\ leaf.id = 0 /\ leaf.leaf = TRUE /\ leaf.changedKeys = {}
    BY <1>2, <2>1 DEF DiffRow
  <2> QED
    BY <2>2 DEF st, ll, rr
<1>4. NodeRight(node)
  BY <1>1, <1>3 DEF NodeRight, LeafRow
<1> QED
  BY <1>1, <1>3, <1>4 DEF LeafRow

(* A row of one side, and one of two kinds. *)
LEMMA OddRowsAre ==
  ASSUME NEW docs, NEW l, NEW r, NEW binary, NEW doc
  PROVE  /\ \A status \in {"added", "removed"} :
              LET node == singleSided(doc, l, binary, status)
              IN  OddRow(node) /\ node.status = status
         /\ dereferenceIfRef(docs.left, l).k # dereferenceIfRef(docs.right, r).k =>
              LET node == DiffRow("changed", dereferenceIfRef(docs.right, r).k,
                                  diffSummarize(docs.left, l, binary), diffSummarize(docs.right, r, binary))
              IN  OddRow(node) /\ node.status = "changed"
<1>1. ASSUME NEW status \in {"added", "removed"}
      PROVE  LET node == singleSided(doc, l, binary, status)
             IN  OddRow(node) /\ node.status = status
  <2> DEFINE text == diffSummarize(doc, l, binary)
             node == singleSided(doc, l, binary, status)
  <2>1. node = IF status = "added" THEN DiffRow(status, text.k, NoSide, text)
               ELSE DiffRow(status, text.k, text, NoSide)
    BY DEF singleSided
  <2> HIDE DEF text, node
  <2>2. /\ node.id = 0 /\ node.leaf = TRUE /\ node.changedKeys = {} /\ node.status = status
        /\ "truncated" \in DOMAIN node
    <3>1. CASE status = "added"
      BY <2>1, <3>1 DEF DiffRow
    <3>2. CASE status # "added"
      BY <2>1, <3>2 DEF DiffRow
    <3> QED
      BY <3>1, <3>2
  <2>3. OddRow(node)
    BY <2>2 DEF OddRow, NodeRight
  <2> QED
    BY <2>2, <2>3 DEF node
<1>2. ASSUME dereferenceIfRef(docs.left, l).k # dereferenceIfRef(docs.right, r).k
      PROVE  LET node == DiffRow("changed", dereferenceIfRef(docs.right, r).k,
                                  diffSummarize(docs.left, l, binary), diffSummarize(docs.right, r, binary))
             IN  OddRow(node) /\ node.status = "changed"
  <2> DEFINE kind == dereferenceIfRef(docs.right, r).k
             ls == diffSummarize(docs.left, l, binary)
             rs == diffSummarize(docs.right, r, binary)
             node == DiffRow("changed", kind, ls, rs)
  <2>1. ls.k = dereferenceIfRef(docs.left, l).k /\ rs.k = dereferenceIfRef(docs.right, r).k
    BY DEF diffSummarize, summarizeWith
  <2>2. ls # rs
    BY <1>2, <2>1
  <2> HIDE DEF kind, ls, rs
  <2>3. /\ node.id = 0 /\ node.leaf = TRUE /\ node.changedKeys = {} /\ node.status = "changed"
        /\ node.left = ls /\ node.right = rs /\ "truncated" \in DOMAIN node
    BY DEF DiffRow
  <2>4. OddRow(node)
    BY <2>2, <2>3 DEF OddRow, NodeRight
  <2> QED
    BY <2>3, <2>4 DEF kind, ls, rs
<1> QED
  BY <1>1, <1>2

\* What diffPresent does after the key was taken up.
Presented(docs, w, key, l, r, binary, depth, V, after) ==
  LET a == dereferenceIfRef(docs.left, l)
      b == dereferenceIfRef(docs.right, r)
  IN  \/ a.k = b.k /\ a.k # "scalar" /\ after = WentInto(docs, w, key, l, r, binary, depth, V)
      \/ \E node : /\ after = Reported(w, key, node, V, {}, {<<l, r>>})
                   /\ \/ a.k = b.k /\ a.k \in {"scalar", "ref"} /\ LeafRow(docs, l, r, node)
                      \/ a.k # b.k /\ OddRow(node) /\ node.status = "changed"

(* diffPresent goes as Presented says. *)
LEMMA PresentGoes ==
  ASSUME NEW docs, NEW w, HasFrames(docs, w), NEW key \in Nat, NEW l, NEW r, NEW binary, NEW depth, NEW V
  PROVE  Presented(docs, w, key, l, r, binary, depth, V,
                   diffPresent(docs, Taken(w, key, V, {}, {}), key, l, r, binary, depth))
<1> DEFINE a == dereferenceIfRef(docs.left, l)
           b == dereferenceIfRef(docs.right, r)
           u == Taken(w, key, V, {}, {})
           v == [u EXCEPT !.compared = @ \cup {<<l, r>>}]
           after == diffPresent(docs, u, key, l, r, binary, depth)
           C == {<<l, r>>}
           odd == DiffRow("changed", b.k, diffSummarize(docs.left, l, binary), diffSummarize(docs.right, r, binary))
           leaf == scalarLeaf(docs, a.k, l, r, binary)
<1>1. v = Taken(w, key, V, {}, C)
  <2>1. v = WithCompared(u, <<l, r>>)
    BY DEF WithCompared
  <2> QED
    BY <2>1, PairIsCompared
<1>2. CASE a.k # b.k
  <2>1. after = told(v, key, odd)
    BY <1>2 DEF diffPresent
  <2>2. OddRow(odd) /\ odd.status = "changed"
    BY <1>2, OddRowsAre
  <2> HIDE DEF v, odd, C
  <2>3. after = Reported(w, key, odd, V, {}, C)
    BY <1>1, <2>1, RowIsTold
  <2> QED
    BY <1>2, <2>2, <2>3 DEF Presented, C
<1>3. CASE a.k = b.k /\ a.k \in {"scalar", "ref"}
  <2>1. after = told(v, key, leaf)
    BY <1>3 DEF diffPresent
  <2>2. LeafRow(docs, l, r, leaf)
    BY ScalarLeafIs
  <2> HIDE DEF v, leaf, C
  <2>3. after = Reported(w, key, leaf, V, {}, C)
    BY <1>1, <2>1, RowIsTold
  <2> QED
    BY <1>3, <2>2, <2>3 DEF Presented, C
<1>4. CASE a.k = b.k /\ a.k \notin {"scalar", "ref"}
  <2>1. after = [v EXCEPT !.opened = @ + 1,
                          !.frames = Append(@, [id |-> u.opened + 1, key |-> key, l |-> l, r |-> r,
                                                binary |-> binary, depth |-> depth,
                                                todo |-> CmpKeys(docs, l, r), changed |-> {}])]
    BY <1>4 DEF diffPresent, CmpKeys, asDict
  <2>2. u.opened = v.opened
    BY <1>1 DEF Taken, CmpWalk
  <2>3. after = WentInto(docs, w, key, l, r, binary, depth, V)
    <3> DEFINE x == Taken(w, key, V, {}, {<<l, r>>})
    <3>1. v = x
      BY <1>1
    <3> HIDE DEF v, u, x
    <3>2. after = [x EXCEPT !.opened = @ + 1,
                            !.frames = Append(@, [id |-> x.opened + 1, key |-> key, l |-> l, r |-> r,
                                                  binary |-> binary, depth |-> depth,
                                                  todo |-> CmpKeys(docs, l, r), changed |-> {}])]
      BY <2>1, <2>2, <3>1
    <3> QED
      BY <3>2, ContainersAreEntered DEF x
  <2> QED
    BY <1>4, <2>3 DEF Presented
<1> QED
  BY <1>2, <1>3, <1>4

\* What the row of an entry that both sides have, or what was met on the way
\* to it, says of the entry.
Accounts(docs, w, l, r, node, V, B, C) ==
  LET a    == dereferenceIfRef(docs.left, l)
      b    == dereferenceIfRef(docs.right, r)
      pair == <<refVisitKeyOf(l), refVisitKeyOf(r)>>
      full == l.ref /\ r.ref
  IN  \/ V = {} /\ B = {pair} /\ C = {} /\ LeafRow(docs, l, r, node)
      \/ /\ V = {} /\ B = {} /\ C = {} /\ LeafRow(docs, l, r, node)
         /\ node.truncated /\ node.capRefPair = IF full THEN pair ELSE NoPair
      \/ /\ V = {} /\ B = {} /\ C = {} /\ LeafRow(docs, l, r, node)
         /\ full /\ pair \in w.visitedPairs
      \/ /\ V = (IF full THEN {pair} ELSE {}) /\ B = {} /\ C = {<<l, r>>}
         /\ \/ a.k = b.k /\ a.k \in {"scalar", "ref"} /\ LeafRow(docs, l, r, node)
            \/ a.k # b.k /\ OddRow(node) /\ node.status = "changed"

\* What diffChild does after the key was taken up.
ChildGoes(docs, w, key, l, r, after) ==
  \/ \E node, V, B, C : /\ Accounts(docs, w, l, r, node, V, B, C)
                        /\ after = Reported(w, key, node, V, B, C)
  \/ \E binary, depth :
       /\ dereferenceIfRef(docs.left, l).k = dereferenceIfRef(docs.right, r).k
       /\ dereferenceIfRef(docs.left, l).k # "scalar"
       /\ binary \in BOOLEAN /\ depth \in Nat
       /\ after = WentInto(docs, w, key, l, r, binary, depth,
                          IF l.ref /\ r.ref THEN {<<refVisitKeyOf(l), refVisitKeyOf(r)>>} ELSE {})

(* And diffChild as ChildGoes says. *)
LEMMA ChildIs ==
  ASSUME NEW docs, NEW w, HasFrames(docs, w), NEW key \in Nat, NEW l, NEW r, NEW binary \in BOOLEAN,
         NEW depth \in Nat
  PROVE  ChildGoes(docs, w, key, l, r,
                   diffChild(docs, Taken(w, key, {}, {}, {}), key, l, r, binary, depth))
<1> DEFINE u    == Taken(w, key, {}, {}, {})
           pair == <<refVisitKeyOf(l), refVisitKeyOf(r)>>
           full == l.ref /\ r.ref
           leaf == scalarLeaf(docs, "ref", l, r, binary)
           cut  == IF full THEN pair ELSE NoPair
           capped == Capped(leaf, cut)
           after == diffChild(docs, u, key, l, r, binary, depth)
<1>1. LeafRow(docs, l, r, leaf)
  BY ScalarLeafIs
<1>2. LeafRow(docs, l, r, capped) /\ capped.truncated /\ capped.capRefPair = cut
  BY CapLeafIs
<1>3. u.visitedPairs = w.visitedPairs \cup {}
  BY DEF Taken, CmpWalk
<1>4. CASE OnPath(u, l, r)
  <2>1. after = told(WithBack(u, pair), key, leaf)
    BY <1>4 DEF diffChild, WithBack
  <2>2. WithBack(u, pair) = Taken(w, key, {}, {pair}, {})
    <3> HIDE DEF pair
    <3> QED
      BY PairIsBack
  <2> HIDE DEF leaf, pair, u, after
  <2>4. after = Reported(w, key, leaf, {}, {pair}, {})
    BY <2>1, <2>2, RowIsTold
  <2>5. Accounts(docs, w, l, r, leaf, {}, {pair}, {})
    BY <1>1 DEF Accounts, pair
  <2> QED
    BY <2>4, <2>5 DEF ChildGoes, after, u
<1>5. CASE ~OnPath(u, l, r) /\ depth + 1 > maxResolveDepth
  <2>1. after = told(u, key, capped)
    BY <1>5 DEF diffChild, Capped
  <2>2. Accounts(docs, w, l, r, capped, {}, {}, {})
    BY <1>2 DEF Accounts
  <2> HIDE DEF capped, after
  <2>3. after = Reported(w, key, capped, {}, {}, {})
    BY <2>1, RowIsTold
  <2> QED
    BY <2>2, <2>3 DEF ChildGoes, after
<1>6. CASE ~OnPath(u, l, r) /\ ~(depth + 1 > maxResolveDepth) /\ full /\ pair \in u.visitedPairs
  <2>1. after = told(u, key, leaf)
    BY <1>6 DEF diffChild
  <2>2. Accounts(docs, w, l, r, leaf, {}, {}, {})
    BY <1>1, <1>3, <1>6 DEF Accounts
  <2> HIDE DEF leaf, after
  <2>3. after = Reported(w, key, leaf, {}, {}, {})
    BY <2>1, RowIsTold
  <2> QED
    BY <2>2, <2>3 DEF ChildGoes, after
<1>7. CASE ~OnPath(u, l, r) /\ ~(depth + 1 > maxResolveDepth) /\ ~(full /\ pair \in u.visitedPairs)
  <2> DEFINE V == IF full THEN {pair} ELSE {}
             v == IF full THEN WithVisited(u, pair) ELSE u
  <2>1. after = diffPresent(docs, v, key, l, r, binary, depth + 1)
    BY <1>7 DEF diffChild, WithVisited
  <2>2. v = Taken(w, key, V, {}, {})
    <3>1. WithVisited(u, pair) = Taken(w, key, {pair}, {}, {})
      <4> HIDE DEF pair
      <4> QED
        BY PairIsVisited
    <3> QED
      BY <3>1
  <2> HIDE DEF v, V, after, u
  <2>3. Presented(docs, w, key, l, r, binary, depth + 1, V, after)
    BY <2>1, <2>2, PresentGoes
  <2>4. CASE after = WentInto(docs, w, key, l, r, binary, depth + 1, V)
             /\ dereferenceIfRef(docs.left, l).k = dereferenceIfRef(docs.right, r).k
             /\ dereferenceIfRef(docs.left, l).k # "scalar"
    <3>1. depth + 1 \in Nat
      OBVIOUS
    <3> QED
      BY <2>4, <3>1 DEF ChildGoes, V, after, u
  <2>5. ASSUME NEW node, after = Reported(w, key, node, V, {}, {<<l, r>>}),
               LET a == dereferenceIfRef(docs.left, l)
                   b == dereferenceIfRef(docs.right, r)
               IN  \/ a.k = b.k /\ a.k \in {"scalar", "ref"} /\ LeafRow(docs, l, r, node)
                   \/ a.k # b.k /\ OddRow(node) /\ node.status = "changed"
        PROVE  ChildGoes(docs, w, key, l, r, after)
    <3>1. Accounts(docs, w, l, r, node, V, {}, {<<l, r>>})
      BY <2>5 DEF Accounts, V
    <3> QED
      BY <2>5, <3>1 DEF ChildGoes
  <2> QED
    BY <2>3, <2>4, <2>5 DEF Presented, after, u
<1> QED
  BY <1>4, <1>5, <1>6, <1>7

\* What a step of the innermost container does with its key.
EntryGoes(docs, w, key, after) ==
  LET f  == Last(w.frames)
      le == asDict(docs.left, f.l)
      re == asDict(docs.right, f.r)
  IN  \/ /\ ~(key \in DOMAIN le /\ key \in DOMAIN re)
         /\ \E node : /\ OddRow(node) /\ node.status \in {"added", "removed"}
                      /\ after = Reported(w, key, node, {}, {}, {})
      \/ /\ key \in DOMAIN le /\ key \in DOMAIN re
         /\ ChildGoes(docs, w, key, le[key], re[key], after)

(* And diffEntry as EntryGoes says. *)
LEMMA EntryIs ==
  ASSUME NEW docs, NEW w, HasFrames(docs, w), NEW key \in Nat
  PROVE  EntryGoes(docs, w, key, diffEntry(docs, w, key))
<1> DEFINE f  == Last(w.frames)
           le == asDict(docs.left, f.l)
           re == asDict(docs.right, f.r)
           u  == Taken(w, key, {}, {}, {})
           mark == IF dereferenceIfRef(docs.left, f.l).k = "array" THEN f.binary
                   ELSE binaryStringKey(le, key) \/ binaryStringKey(re, key)
           after == diffEntry(docs, w, key)
<1>1. [w EXCEPT !.frames[Len(w.frames)].todo = @ \ {key}] = u
  BY KeyIsTaken
<1>2. f.binary \in BOOLEAN /\ f.depth \in Nat
  BY InnermostIsFrame DEF CmpFrames
<1>3. mark \in BOOLEAN
  BY <1>2 DEF binaryStringKey
<1>4. after = IF key \notin DOMAIN re THEN told(u, key, singleSided(docs.left, le[key], mark, "removed"))
              ELSE IF key \notin DOMAIN le THEN told(u, key, singleSided(docs.right, re[key], mark, "added"))
              ELSE diffChild(docs, u, key, le[key], re[key], mark, f.depth)
  BY <1>1 DEF diffEntry
<1> HIDE DEF mark, after
<1>5. CASE key \notin DOMAIN re
  <2> DEFINE node == singleSided(docs.left, le[key], mark, "removed")
  <2>1. OddRow(node) /\ node.status = "removed"
    BY OddRowsAre
  <2> HIDE DEF node
  <2>2. after = Reported(w, key, node, {}, {}, {})
    BY <1>4, <1>5, RowIsTold DEF node
  <2> QED
    BY <1>5, <2>1, <2>2 DEF EntryGoes, after
<1>6. CASE key \in DOMAIN re /\ key \notin DOMAIN le
  <2> DEFINE node == singleSided(docs.right, re[key], mark, "added")
  <2>1. OddRow(node) /\ node.status = "added"
    BY OddRowsAre
  <2> HIDE DEF node
  <2>2. after = Reported(w, key, node, {}, {}, {})
    BY <1>4, <1>6, RowIsTold DEF node
  <2> QED
    BY <1>6, <2>1, <2>2 DEF EntryGoes, after
<1>7. CASE key \in DOMAIN re /\ key \in DOMAIN le
  <2> DEFINE l == le[key]
             r == re[key]
             depth == f.depth
  <2>1. after = diffChild(docs, u, key, l, r, mark, depth) /\ depth \in Nat
    BY <1>2, <1>4, <1>7
  <2>2. ChildGoes(docs, w, key, l, r, after)
    <3> HIDE DEF l, r, depth
    <3> QED
      BY <1>3, <2>1, ChildIs
  <2> QED
    BY <1>7, <2>2 DEF EntryGoes, after
<1> QED
  BY <1>5, <1>6, <1>7

(***************************************************************************)
(* The walk after a step, field by field.                                  *)
(***************************************************************************)
SamePlace(f, g) == f.id = g.id /\ f.key = g.key /\ f.l = g.l /\ f.r = g.r

\* The changed keys of a container after a row in it is told.
AlsoChanged(changed, key, node) == changed \cup (IF node.status = "unchanged" THEN {} ELSE {key})

\* The frames fr after the innermost one took up its key.
FramesTaken(w, fr, key, changed) ==
  /\ Len(w.frames) \in Nat /\ Len(fr) \in Nat /\ Len(w.frames) \in 1..Len(fr)
  /\ \A i \in 1..Len(w.frames) :
       /\ SamePlace(fr[i], w.frames[i])
       /\ fr[i].todo = IF i = Len(w.frames) THEN w.frames[i].todo \ {key} ELSE w.frames[i].todo
       /\ fr[i].changed = IF i = Len(w.frames) THEN changed ELSE w.frames[i].changed

(* A walk of this shape with a container under way has frames. *)
LEMMA ShapeHasFrames ==
  ASSUME NEW docs, NEW w, CmpShape(docs, w), w.frames # <<>>
  PROVE  /\ HasFrames(docs, w) /\ Len(w.frames) \in Nat \ {0}
         /\ Last(w.frames) = w.frames[Len(w.frames)] /\ Last(w.frames) \in CmpFrames(docs)
         /\ \A i \in 1..Len(w.frames) : w.frames[i] \in CmpFrames(docs)
<1>1. HasFrames(docs, w)
  BY DEF CmpShape, HasFrames
<1> QED
  BY <1>1, InnermostIsFrame

(* The keys of a container are numbers. *)
LEMMA KeysAreNumbers ==
  ASSUME NEW docs, CmpDocs(docs), NEW l \in Entries(docs.left), NEW r \in Entries(docs.right)
  PROVE  CmpKeys(docs, l, r) \subseteq Nat
BY BothAreGood, EntriesAreItems DEF CmpKeys

\* The walk v after the row of the key was written.
AfterRow(docs, w, key, node, V, B, C, v) ==
  /\ CmpShape(docs, v) /\ v.opened = w.opened
  /\ v.visitedPairs = w.visitedPairs \cup V /\ v.backEdges = w.backEdges \cup B
  /\ v.compared = w.compared \cup C
  /\ v.rows = WithRow(w.rows, Last(w.frames).id, key, node)
  /\ Len(v.frames) = Len(w.frames)
  /\ FramesTaken(w, v.frames, key, AlsoChanged(Last(w.frames).changed, key, node))

(* After a row is written the innermost frame is without its key. *)
LEMMA ReportedIs ==
  ASSUME NEW docs, NEW w, CmpShape(docs, w), w.frames # <<>>,
         NEW key, key \in Last(w.frames).todo, NEW node, NEW V, NEW B, NEW C,
         NEW v, v = Reported(w, key, node, V, B, C)
  PROVE  AfterRow(docs, w, key, node, V, B, C, v)
<1> DEFINE s == w.frames
           last == Len(w.frames)
           f == s[last]
           todo == f.todo \ {key}
           changed == AlsoChanged(f.changed, key, node)
           t == Marked(s, todo, changed)
<1>1. /\ last \in Nat \ {0} /\ Last(s) = f /\ f \in CmpFrames(docs) /\ s \in Seq(CmpFrames(docs)) /\ s # <<>>
      /\ last \in 1..last
  BY ShapeHasFrames DEF HasFrames
<1>2. /\ f.todo \subseteq CmpKeys(docs, f.l, f.r) /\ f.changed \subseteq CmpKeys(docs, f.l, f.r)
  BY <1>1 DEF CmpShape
<1>3. todo \in SUBSET Nat /\ changed \in SUBSET Nat
  BY <1>1 DEF CmpFrames, AlsoChanged
<1>4. todo \subseteq CmpKeys(docs, f.l, f.r) /\ changed \subseteq CmpKeys(docs, f.l, f.r)
  BY <1>1, <1>2 DEF AlsoChanged
<1>5. /\ t \in Seq(CmpFrames(docs)) /\ Len(t) = last
      /\ \A i \in 1..last :
           /\ t[i].id = s[i].id /\ t[i].key = s[i].key /\ t[i].l = s[i].l /\ t[i].r = s[i].r
           /\ t[i].todo = IF i = last THEN todo ELSE s[i].todo
           /\ t[i].changed = IF i = last THEN changed ELSE s[i].changed
  <2>1. t = Marked(s, todo, changed) /\ last = Len(s)
    OBVIOUS
  <2> HIDE DEF s, todo, t, last, changed
  <2>2. Marked(s, todo, changed) \in Seq(CmpFrames(docs)) /\ Len(Marked(s, todo, changed)) = Len(s)
    BY <1>1, <1>3, MarkedIs
  <2>3. ASSUME NEW i \in 1..last
        PROVE  /\ t[i].id = s[i].id /\ t[i].key = s[i].key /\ t[i].l = s[i].l /\ t[i].r = s[i].r
               /\ t[i].todo = IF i = last THEN todo ELSE s[i].todo
               /\ t[i].changed = IF i = last THEN changed ELSE s[i].changed
    BY <1>1, <1>3, <2>1, MarkedIs
  <2> QED
    BY <2>1, <2>2, <2>3
<1>6. v = CmpWalk(t, w.opened, w.visitedPairs \cup V,
                  WithRow(w.rows, f.id, key, node), w.backEdges \cup B, w.compared \cup C)
  BY <1>1 DEF Reported, WithRow, AlsoChanged
<1> HIDE DEF t, changed
<1>7. /\ v.frames = t /\ v.opened = w.opened
      /\ v.visitedPairs = w.visitedPairs \cup V /\ v.backEdges = w.backEdges \cup B
      /\ v.compared = w.compared \cup C
      /\ v.rows = WithRow(w.rows, f.id, key, node)
      /\ v = CmpWalk(v.frames, v.opened, v.visitedPairs, v.rows, v.backEdges, v.compared)
  BY <1>6 DEF CmpWalk
<1>8. FramesTaken(w, t, key, changed)
  BY <1>1, <1>5 DEF FramesTaken, SamePlace
<1>9. CmpShape(docs, v)
  <2>1. w.opened \in Nat
    BY DEF CmpShape
  <2>2. ASSUME NEW i \in 1..last
        PROVE  /\ t[i].todo \subseteq CmpKeys(docs, t[i].l, t[i].r)
               /\ t[i].changed \subseteq CmpKeys(docs, t[i].l, t[i].r)
               /\ i # 1 => t[i].key \in CmpKeys(docs, t[i - 1].l, t[i - 1].r)
    <3>1. /\ s[i].todo \subseteq CmpKeys(docs, s[i].l, s[i].r)
          /\ s[i].changed \subseteq CmpKeys(docs, s[i].l, s[i].r)
          /\ i # 1 => s[i].key \in CmpKeys(docs, s[i - 1].l, s[i - 1].r)
      BY DEF CmpShape
    <3>2. i # 1 => i - 1 \in 1..last
      BY <1>1
    <3> HIDE DEF s, todo, last
    <3> QED
      BY <1>4, <1>5, <3>1, <3>2
  <2> QED
    BY <1>5, <1>7, <2>1, <2>2 DEF CmpShape
<1> QED
  BY <1>1, <1>5, <1>7, <1>8, <1>9 DEF changed, AfterRow

\* And after two containers are gone into.
AfterGoingIn(docs, w, key, l, r, V, v) ==
  LET new == Len(w.frames) + 1
  IN  /\ CmpShape(docs, v) /\ v.opened = w.opened + 1 /\ v.rows = w.rows
      /\ v.visitedPairs = w.visitedPairs \cup V /\ v.backEdges = w.backEdges
      /\ v.compared = w.compared \cup {<<l, r>>}
      /\ Len(v.frames) = new /\ FramesTaken(w, v.frames, key, Last(w.frames).changed)
      /\ v.frames[new].id = w.opened + 1 /\ v.frames[new].l = l /\ v.frames[new].r = r
      /\ v.frames[new].todo = CmpKeys(docs, l, r) /\ v.frames[new].changed = {}

(* Going into two containers adds their frame. *)
LEMMA WentIntoIs ==
  ASSUME NEW docs, CmpDocs(docs), NEW w, CmpShape(docs, w), w.frames # <<>>,
         NEW key, key \in Last(w.frames).todo, NEW l \in Entries(docs.left), NEW r \in Entries(docs.right),
         NEW binary \in BOOLEAN, NEW depth \in Nat, NEW V,
         NEW v, v = WentInto(docs, w, key, l, r, binary, depth, V)
  PROVE  AfterGoingIn(docs, w, key, l, r, V, v)
<1> DEFINE s == w.frames
           last == Len(w.frames)
           new == last + 1
           changed == Last(w.frames).changed
           f == s[last]
           todo == f.todo \ {key}
           t == Marked(s, todo, changed)
           keys == CmpKeys(docs, l, r)
           up == w.opened + 1
           g == CmpFrame(up, key, l, r, binary, depth, keys, {})
           u == Append(t, g)
<1>1. /\ last \in Nat \ {0} /\ Last(s) = f /\ f \in CmpFrames(docs) /\ s \in Seq(CmpFrames(docs)) /\ s # <<>>
      /\ last \in 1..last
  BY ShapeHasFrames DEF HasFrames
<1>2. f.todo \subseteq CmpKeys(docs, f.l, f.r) /\ f.changed \subseteq CmpKeys(docs, f.l, f.r)
  BY <1>1 DEF CmpShape
<1>3. todo \in SUBSET Nat /\ changed \in SUBSET Nat /\ key \in Nat
  BY <1>1 DEF CmpFrames
<1>4. /\ todo \subseteq CmpKeys(docs, f.l, f.r) /\ changed \subseteq CmpKeys(docs, f.l, f.r)
      /\ key \in CmpKeys(docs, f.l, f.r)
  BY <1>1, <1>2
<1>5. w.opened \in Nat /\ up \in Nat
  BY DEF CmpShape
<1>6. keys \in SUBSET Nat
  BY KeysAreNumbers
<1>7. g \in CmpFrames(docs) /\ g.id = up /\ g.key = key /\ g.l = l /\ g.r = r /\ g.todo = keys /\ g.changed = {}
  <2> HIDE DEF up, keys
  <2> QED
    BY <1>3, <1>5, <1>6 DEF CmpFrame, CmpFrames
<1>8. /\ t \in Seq(CmpFrames(docs)) /\ Len(t) = last
      /\ \A i \in 1..last :
           /\ t[i].id = s[i].id /\ t[i].key = s[i].key /\ t[i].l = s[i].l /\ t[i].r = s[i].r
           /\ t[i].todo = IF i = last THEN todo ELSE s[i].todo
           /\ t[i].changed = IF i = last THEN changed ELSE s[i].changed
  <2>1. t = Marked(s, todo, changed) /\ last = Len(s)
    OBVIOUS
  <2> HIDE DEF s, todo, t, last, changed
  <2>2. Marked(s, todo, changed) \in Seq(CmpFrames(docs)) /\ Len(Marked(s, todo, changed)) = Len(s)
    BY <1>1, <1>3, MarkedIs
  <2>3. ASSUME NEW i \in 1..last
        PROVE  /\ t[i].id = s[i].id /\ t[i].key = s[i].key /\ t[i].l = s[i].l /\ t[i].r = s[i].r
               /\ t[i].todo = IF i = last THEN todo ELSE s[i].todo
               /\ t[i].changed = IF i = last THEN changed ELSE s[i].changed
    BY <1>1, <1>3, <2>1, MarkedIs
  <2> QED
    BY <2>1, <2>2, <2>3
<1>9. v = CmpWalk(u, up, w.visitedPairs \cup V, w.rows, w.backEdges, w.compared \cup {<<l, r>>})
  BY <1>1 DEF WentInto
<1> HIDE DEF t, g, u
<1>10. /\ u \in Seq(CmpFrames(docs)) /\ Len(u) = new /\ u[new] = g
       /\ \A i \in 1..last : u[i] = t[i]
  BY <1>1, <1>7, <1>8, AppendProperties DEF u
<1>11. /\ v.frames = u /\ v.opened = up /\ v.rows = w.rows
       /\ v.visitedPairs = w.visitedPairs \cup V /\ v.backEdges = w.backEdges
       /\ v.compared = w.compared \cup {<<l, r>>}
       /\ v = CmpWalk(v.frames, v.opened, v.visitedPairs, v.rows, v.backEdges, v.compared)
  <2> HIDE DEF up
  <2> QED
    BY <1>9 DEF CmpWalk
<1>12. FramesTaken(w, u, key, changed)
  <2>1. last \in Nat /\ Len(u) \in Nat /\ last \in 1..Len(u)
    BY <1>1, <1>10
  <2> QED
    BY <1>8, <1>10, <2>1, ZenonT(60) DEF FramesTaken, SamePlace
<1>13. CmpShape(docs, v)
  <2>1. ASSUME NEW i \in 1..new
        PROVE  /\ u[i].todo \subseteq CmpKeys(docs, u[i].l, u[i].r)
               /\ u[i].changed \subseteq CmpKeys(docs, u[i].l, u[i].r)
               /\ i # 1 => u[i].key \in CmpKeys(docs, u[i - 1].l, u[i - 1].r)
    <3>1. CASE i = new
      <4>1. i - 1 = last /\ u[i - 1] = t[last] /\ u[i] = g
        BY <1>1, <1>10, <3>1
      <4>2. t[last].l = f.l /\ t[last].r = f.r
        BY <1>1, <1>8
      <4> HIDE DEF f, last, keys
      <4> QED
        BY <1>4, <1>7, <4>1, <4>2 DEF keys
    <3>2. CASE i # new
      <4>1. i \in 1..last /\ (i # 1 => i - 1 \in 1..last)
        BY <1>1, <3>2
      <4>2. /\ s[i].todo \subseteq CmpKeys(docs, s[i].l, s[i].r)
            /\ s[i].changed \subseteq CmpKeys(docs, s[i].l, s[i].r)
            /\ i # 1 => s[i].key \in CmpKeys(docs, s[i - 1].l, s[i - 1].r)
        BY <4>1 DEF CmpShape
      <4> HIDE DEF s, todo, last
      <4> QED
        BY <1>4, <1>8, <1>10, <4>1, <4>2
    <3> QED
      BY <3>1, <3>2
  <2> QED
    BY <1>5, <1>10, <1>11, <2>1 DEF CmpShape
<1> QED
  BY <1>1, <1>7, <1>10, <1>11, <1>12, <1>13 DEF AfterGoingIn

(* A frame is its fields. *)
LEMMA FrameIsFields ==
  ASSUME NEW docs, NEW f \in CmpFrames(docs)
  PROVE  f = CmpFrame(f.id, f.key, f.l, f.r, f.binary, f.depth, f.todo, f.changed)
BY DEF CmpFrame, CmpFrames

(* A sequence of frames is itself with its own marks. *)
LEMMA MarkedItself ==
  ASSUME NEW docs, NEW s \in Seq(CmpFrames(docs)), s # <<>>
  PROVE  s = Marked(s, s[Len(s)].todo, s[Len(s)].changed)
<1>1. Len(s) \in Nat \ {0} /\ DOMAIN s = 1..Len(s) /\ s = [i \in 1..Len(s) |-> s[i]]
  BY EmptySeq, LenProperties
<1>2. ASSUME NEW i \in 1..Len(s)
      PROVE  s[i] = CmpFrame(s[i].id, s[i].key, s[i].l, s[i].r, s[i].binary, s[i].depth, s[i].todo, s[i].changed)
  <2>1. s[i] \in CmpFrames(docs)
    BY <1>1, ElementOfSeq
  <2> QED
    BY <2>1, FrameIsFields
<1> QED
  BY <1>1, <1>2 DEF Marked

(* The frames after a row is told. *)
LEMMA ToldFramesAre ==
  ASSUME NEW docs, NEW fr \in Seq(CmpFrames(docs)), fr # <<>>, NEW key \in Nat, NEW node,
         NEW t, t = ToldFrames(fr, key, node)
  PROVE  /\ t \in Seq(CmpFrames(docs)) /\ Len(t) = Len(fr)
         /\ \A i \in 1..Len(fr) :
              /\ t[i].id = fr[i].id /\ t[i].key = fr[i].key /\ t[i].l = fr[i].l /\ t[i].r = fr[i].r
              /\ t[i].todo = fr[i].todo
              /\ t[i].changed = IF i = Len(fr) THEN AlsoChanged(fr[i].changed, key, node) ELSE fr[i].changed
<1> DEFINE last == Len(fr)
           todo == fr[last].todo
           old == fr[last].changed
           changed == AlsoChanged(old, key, node)
<1>1. last \in Nat \ {0} /\ last \in 1..last /\ fr[last] \in CmpFrames(docs)
  BY EmptySeq, LenProperties, ElementOfSeq
<1>2. todo \in SUBSET Nat /\ old \in SUBSET Nat /\ changed \in SUBSET Nat
  BY <1>1 DEF CmpFrames, AlsoChanged
<1>3. t = Marked(fr, todo, changed)
  <2>1. fr = Marked(fr, todo, old)
    BY MarkedItself
  <2>2. CASE node.status = "unchanged"
    <3>1. changed = old
      BY <2>2 DEF AlsoChanged
    <3> QED
      BY <2>1, <2>2, <3>1 DEF ToldFrames
  <2>3. CASE node.status # "unchanged"
    <3>1. changed = old \cup {key} /\ t = ChangedToo(fr, key)
      BY <2>3 DEF ToldFrames, AlsoChanged
    <3> HIDE DEF todo, old, last, changed
    <3> QED
      BY <1>2, <2>1, <3>1, ChangedTooIs
  <2> QED
    BY <2>2, <2>3
<1> HIDE DEF todo, old, changed
<1>4. Marked(fr, todo, changed) \in Seq(CmpFrames(docs)) /\ Len(Marked(fr, todo, changed)) = last
  BY <1>2, MarkedIs
<1>5. ASSUME NEW i \in 1..last
      PROVE  /\ t[i].id = fr[i].id /\ t[i].key = fr[i].key /\ t[i].l = fr[i].l /\ t[i].r = fr[i].r
             /\ t[i].todo = IF i = last THEN todo ELSE fr[i].todo
             /\ t[i].changed = IF i = last THEN changed ELSE fr[i].changed
  BY <1>2, <1>3, MarkedIs
<1> QED
  BY <1>3, <1>4, <1>5 DEF todo, changed, old

(* Telling the catalogs' row, when no container is left under way. *)
LEMMA ToldAlone ==
  ASSUME NEW fr, Len(fr) = 0, NEW op, NEW vi, NEW ro, NEW ba, NEW co, NEW key, NEW node
  PROVE  told(CmpWalk(fr, op, vi, ro, ba, co), key, node)
           = CmpWalk(fr, op, vi, WithRow(ro, 0, key, node), ba, co)
<1> DEFINE u == CmpWalk(fr, op, vi, ro, ba, co)
           more == WithRow(ro, 0, key, node)
<1>1. u.frames = fr /\ u.rows = ro
  BY DEF CmpWalk
<1>2. told(u, key, node) = [[u EXCEPT !.rows = more] EXCEPT !.frames = fr]
  <2> HIDE DEF u
  <2> QED
    BY <1>1 DEF told, WithRow
<1> HIDE DEF more
<1>3. [u EXCEPT !.rows = more] = CmpWalk(fr, op, vi, more, ba, co)
  BY DEF CmpWalk
<1>4. [CmpWalk(fr, op, vi, more, ba, co) EXCEPT !.frames = fr] = CmpWalk(fr, op, vi, more, ba, co)
  BY DEF CmpWalk
<1> QED
  BY <1>2, <1>3, <1>4 DEF more

\* The frames that are left when the innermost container's row is told.
FramesLeft(w, fr, key, node) ==
  \A i \in 1..Len(w.frames) - 1 :
    /\ SamePlace(fr[i], w.frames[i]) /\ fr[i].todo = w.frames[i].todo
    /\ fr[i].changed = IF i = Len(w.frames) - 1 /\ node.status # "unchanged"
                       THEN w.frames[i].changed \cup {key} ELSE w.frames[i].changed

\* The walk v after the innermost container's row is in the one around it.
AfterEnd(docs, w, node, v) ==
  /\ CmpShape(docs, v) /\ v.opened = w.opened /\ v.visitedPairs = w.visitedPairs
  /\ v.backEdges = w.backEdges /\ v.compared = w.compared
  /\ v.rows = WithRow(w.rows, IF Len(w.frames) = 1 THEN 0 ELSE w.frames[Len(w.frames) - 1].id,
                      Last(w.frames).key, node)
  /\ Len(v.frames) = Len(w.frames) - 1 /\ FramesLeft(w, v.frames, Last(w.frames).key, node)

(* After the innermost container is through its row is in the one around it. *)
LEMMA EndedIs ==
  ASSUME NEW docs, CmpDocs(docs), NEW w, CmpShape(docs, w), w.frames # <<>>,
         NEW node, node = ContainerRow(docs, Last(w.frames)), NEW v, v = diffEnds(docs, w)
  PROVE  AfterEnd(docs, w, node, v)
<1> DEFINE s == w.frames
           last == Len(s)
           f == s[last]
           fr == SubSeq(s, 1, last - 1)
           key == f.key
           op == w.opened
           vi == w.visitedPairs
           ro == w.rows
           ba == w.backEdges
           co == w.compared
           u == [w EXCEPT !.frames = Front(@)]
           top == IF last = 1 THEN fr ELSE ToldFrames(fr, key, node)
           below == IF last = 1 THEN 0 ELSE s[last - 1].id
           more == WithRow(ro, below, key, node)
<1>1. /\ last \in Nat \ {0} /\ Last(w.frames) = f /\ f \in CmpFrames(docs)
      /\ s \in Seq(CmpFrames(docs)) /\ s # <<>> /\ key \in Nat
  BY ShapeHasFrames DEF HasFrames, CmpFrames
<1>3. w = CmpWalk(s, op, vi, ro, ba, co) /\ op \in Nat
  BY DEF CmpShape
<1>13. \A i \in 1..last : /\ s[i].todo \subseteq CmpKeys(docs, s[i].l, s[i].r)
                          /\ s[i].changed \subseteq CmpKeys(docs, s[i].l, s[i].r)
                          /\ i # 1 => s[i].key \in CmpKeys(docs, s[i - 1].l, s[i - 1].r)
  BY DEF CmpShape
<1>4. u = CmpWalk(fr, op, vi, ro, ba, co)
  <2>1. Front(w.frames) = fr
    BY DEF Front
  <2>2. u = [w EXCEPT !.frames = fr]
    BY <2>1
  <2> HIDE DEF s, fr, op, vi, ro, ba, co, u
  <2> QED
    BY <1>3, <2>2 DEF CmpWalk
<1>5. v = told(u, key, node)
  BY <1>1 DEF diffEnds
<1>2. fr \in Seq(CmpFrames(docs)) /\ Len(fr) = last - 1 /\ \A i \in 1..last - 1 : fr[i] = s[i]
  <2>1. last = Len(s) /\ 1 \in 1..last + 1 /\ last - 1 \in 0..last
    BY <1>1
  <2> HIDE DEF s, last
  <2> QED
    BY <1>1, <2>1, SubSeqProperties
<1>14. node = ContainerRow(docs, f) /\ last \in 1..last
  BY <1>1
<1>15. \A x : FramesLeft(w, x, key, node) <=>
        \A i \in 1..last - 1 :
          /\ SamePlace(x[i], s[i]) /\ x[i].todo = s[i].todo
          /\ x[i].changed = IF i = last - 1 /\ node.status # "unchanged"
                            THEN s[i].changed \cup {key} ELSE s[i].changed
  BY DEF FramesLeft
<1> HIDE DEF last, f
<1> HIDE DEF u, fr, key, s, op, vi, ro, ba, co
<1>6. v = CmpWalk(top, op, vi, more, ba, co)
  <2>1. CASE last = 1
    <3>1. Len(fr) = 0
      BY <1>1, <1>2, <2>1
    <3>2. told(CmpWalk(fr, op, vi, ro, ba, co), key, node)
            = CmpWalk(fr, op, vi, WithRow(ro, 0, key, node), ba, co)
      BY <3>1, ToldAlone
    <3> QED
      BY <1>4, <1>5, <2>1, <3>2
  <2>2. CASE last # 1
    <3>1. Len(fr) # 0 /\ fr[Len(fr)] = s[last - 1]
      BY <1>1, <1>2, <2>2
    <3>2. told(CmpWalk(fr, op, vi, ro, ba, co), key, node)
            = CmpWalk(ToldFrames(fr, key, node), op, vi, WithRow(ro, fr[Len(fr)].id, key, node), ba, co)
      BY <3>1, ToldIs
    <3> QED
      BY <1>4, <1>5, <2>2, <3>1, <3>2
  <2> QED
    BY <2>1, <2>2
<1>7. /\ top \in Seq(CmpFrames(docs)) /\ Len(top) = last - 1
      /\ \A i \in 1..last - 1 :
           /\ top[i].id = s[i].id /\ top[i].key = s[i].key /\ top[i].l = s[i].l /\ top[i].r = s[i].r
           /\ top[i].todo = s[i].todo
           /\ top[i].changed = IF i = last - 1 /\ node.status # "unchanged"
                               THEN s[i].changed \cup {key} ELSE s[i].changed
  <2>1. CASE last = 1
    BY <1>1, <1>2, <2>1
  <2>2. CASE last # 1
    <3> DEFINE changed == AlsoChanged(fr[Len(fr)].changed, key, node)
    <3>1. fr # <<>> /\ Len(fr) = last - 1
      BY <1>1, <1>2, <2>2, EmptySeq
    <3>2. top = ToldFrames(fr, key, node)
      BY <2>2
    <3>3. changed = IF node.status # "unchanged" THEN s[last - 1].changed \cup {key} ELSE s[last - 1].changed
      <4>1. last - 1 \in 1..last - 1
        BY <1>1, <2>2
      <4> QED
        BY <1>2, <4>1 DEF AlsoChanged
    <3> HIDE DEF top
    <3>4. top \in Seq(CmpFrames(docs)) /\ Len(top) = last - 1
      BY <1>1, <1>2, <3>1, <3>2, ToldFramesAre
    <3>5. ASSUME NEW i \in 1..last - 1
          PROVE  /\ top[i].id = fr[i].id /\ top[i].key = fr[i].key /\ top[i].l = fr[i].l /\ top[i].r = fr[i].r
                 /\ top[i].todo = fr[i].todo
                 /\ top[i].changed = IF i = last - 1 THEN changed ELSE fr[i].changed
      BY <1>1, <1>2, <3>1, <3>2, ToldFramesAre
    <3> QED
      BY <1>2, <3>3, <3>4, <3>5, ZenonT(60)
  <2> QED
    BY <2>1, <2>2
<1> HIDE DEF top, more
<1>8. /\ v.frames = top /\ v.opened = op /\ v.visitedPairs = vi /\ v.rows = more
      /\ v.backEdges = ba /\ v.compared = co
      /\ v = CmpWalk(v.frames, v.opened, v.visitedPairs, v.rows, v.backEdges, v.compared)
  BY <1>6 DEF CmpWalk
<1>9. FramesLeft(w, top, key, node)
  BY <1>7, <1>15 DEF SamePlace
<1>10. CmpShape(docs, v)
  <2>1. ASSUME NEW i \in 1..last - 1
        PROVE  /\ top[i].todo \subseteq CmpKeys(docs, top[i].l, top[i].r)
               /\ top[i].changed \subseteq CmpKeys(docs, top[i].l, top[i].r)
               /\ i # 1 => top[i].key \in CmpKeys(docs, top[i - 1].l, top[i - 1].r)
    <3>1. /\ s[i].todo \subseteq CmpKeys(docs, s[i].l, s[i].r)
          /\ s[i].changed \subseteq CmpKeys(docs, s[i].l, s[i].r)
          /\ i # 1 => s[i].key \in CmpKeys(docs, s[i - 1].l, s[i - 1].r)
      BY <1>1, <1>13
    <3>2. i # 1 => i - 1 \in 1..last - 1
      BY <1>1
    <3>3. i = last - 1 => key \in CmpKeys(docs, s[i].l, s[i].r)
      <4>1. last # 1 => s[last].key \in CmpKeys(docs, s[last - 1].l, s[last - 1].r)
        BY <1>13, <1>14
      <4> QED
        BY <1>1, <4>1 DEF key, f
    <3> QED
      BY <1>7, <3>1, <3>2, <3>3
  <2> QED
    BY <1>3, <1>7, <1>8, <2>1 DEF CmpShape
<1> QED
  BY <1>1, <1>7, <1>8, <1>9, <1>10 DEF AfterEnd, more, key, below, last, s, op, vi, ro, ba, co

(***************************************************************************)
(* "identical" is true: what is accounted for stays so.                    *)
(***************************************************************************)
Growing(w, v) ==
  /\ w.visitedPairs \subseteq v.visitedPairs /\ w.rows \subseteq v.rows
  /\ w.backEdges \subseteq v.backEdges /\ w.compared \subseteq v.compared

(* What was accounted for stays so. *)
LEMMA DoneStays ==
  ASSUME NEW docs, NEW w, NEW v, Growing(w, v), NEW l, NEW r, NEW key
  PROVE  /\ HasDelta(w) => HasDelta(v)
         /\ KeyDone(docs, w, l, r, key) => KeyDone(docs, v, l, r, key)
<1>1. HasDelta(w) => HasDelta(v)
  BY DEF Growing, HasDelta
<1>2. \A x, y : Reached(w, x, y) => Reached(v, x, y)
  BY DEF Growing, Reached
<1> QED
  BY <1>1, <1>2 DEF KeyDone

(* A step that accounts for what it takes up and for the pairs it compares. *)
LEMMA CoveredStays ==
  ASSUME NEW docs, NEW w, NEW v, CmpCovered(docs, w), Growing(w, v),
         v.compared \subseteq Entries(docs.left) \X Entries(docs.right),
         \A p \in v.visitedPairs : p \notin w.visitedPairs =>
           \E c \in v.compared : c[1].ref /\ c[2].ref /\ p = <<c[1].n, c[2].n>>,
         \A c \in v.compared : c \notin w.compared =>
           /\ SameSort(docs, c[1], c[2]) \/ HasDelta(v)
           /\ \A key \in CmpKeys(docs, c[1], c[2]) :
                KeyDone(docs, v, c[1], c[2], key) \/ StillTodo(v, c[1], c[2], key),
         \A l, r, key : StillTodo(w, l, r, key) => StillTodo(v, l, r, key) \/ KeyDone(docs, v, l, r, key)
  PROVE  CmpCovered(docs, v)
<1>1. <<Catalog(docs.left), Catalog(docs.right)>> \in v.compared
  BY DEF CmpCovered, Growing
<1>2. ASSUME NEW p \in v.visitedPairs
      PROVE  \E c \in v.compared : c[1].ref /\ c[2].ref /\ p = <<c[1].n, c[2].n>>
  <2>1. CASE p \in w.visitedPairs
    BY <2>1 DEF CmpCovered, Growing
  <2>2. CASE p \notin w.visitedPairs
    BY <2>2
  <2> QED
    BY <2>1, <2>2
<1>3. ASSUME NEW c \in v.compared
      PROVE  /\ SameSort(docs, c[1], c[2]) \/ HasDelta(v)
             /\ \A key \in CmpKeys(docs, c[1], c[2]) :
                  KeyDone(docs, v, c[1], c[2], key) \/ StillTodo(v, c[1], c[2], key)
  <2>1. CASE c \in w.compared
    <3>1. SameSort(docs, c[1], c[2]) \/ HasDelta(w)
      BY <2>1 DEF CmpCovered
    <3>2. SameSort(docs, c[1], c[2]) \/ HasDelta(v)
      BY <3>1, DoneStays
    <3>3. ASSUME NEW key \in CmpKeys(docs, c[1], c[2])
          PROVE  KeyDone(docs, v, c[1], c[2], key) \/ StillTodo(v, c[1], c[2], key)
      <4>1. KeyDone(docs, w, c[1], c[2], key) \/ StillTodo(w, c[1], c[2], key)
        BY <2>1 DEF CmpCovered
      <4> QED
        BY <4>1, DoneStays
    <3> QED
      BY <3>2, <3>3
  <2>2. CASE c \notin w.compared
    BY <2>2
  <2> QED
    BY <2>1, <2>2
<1> QED
  BY <1>1, <1>2, <1>3 DEF CmpCovered

\* Only the key of the innermost container of w is no longer to come in v.
OnlyTaken(w, v, key) ==
  \A l, r, k : StillTodo(w, l, r, k) =>
    \/ StillTodo(v, l, r, k)
    \/ k = key /\ l = w.frames[Len(w.frames)].l /\ r = w.frames[Len(w.frames)].r

(* Only the key that was taken up is no longer still to come. *)
LEMMA StillAfter ==
  ASSUME NEW w, NEW v, NEW key, NEW changed, FramesTaken(w, v.frames, key, changed)
  PROVE  OnlyTaken(w, v, key)
<1> SUFFICES ASSUME NEW l, NEW r, NEW k, StillTodo(w, l, r, k), ~StillTodo(v, l, r, k)
             PROVE  k = key /\ l = w.frames[Len(w.frames)].l /\ r = w.frames[Len(w.frames)].r
  BY DEF OnlyTaken
<1> DEFINE last == Len(w.frames)
           more == Len(v.frames)
<1>1. PICK i \in 1..last : w.frames[i].l = l /\ w.frames[i].r = r /\ k \in w.frames[i].todo
  BY DEF StillTodo
<1>2. /\ v.frames[i].l = l /\ v.frames[i].r = r
      /\ v.frames[i].todo = IF i = last THEN w.frames[i].todo \ {key} ELSE w.frames[i].todo
  BY <1>1 DEF FramesTaken, SamePlace
<1>3. last \in Nat /\ more \in Nat /\ last \in 1..more
  BY DEF FramesTaken
<1>4. ~(k \in v.frames[i].todo /\ i \in 1..more)
  BY <1>2 DEF StillTodo
<1> HIDE DEF last, more
<1>5. i \in 1..more
  BY <1>3
<1>6. i = last /\ k = key
  BY <1>1, <1>2, <1>4, <1>5
<1> QED
  BY <1>1, <1>6 DEF last

(* Equal byte-exact summaries of scalars are of equal bytes. *)
LEMMA SameTextSameBytes ==
  ASSUME NEW docs, NEW l, NEW r, diffCompare(docs.left, l) = diffCompare(docs.right, r),
         dereferenceIfRef(docs.left, l).k = dereferenceIfRef(docs.right, r).k
  PROVE  SameSort(docs, l, r)
<1> DEFINE a == dereferenceIfRef(docs.left, l)
           b == dereferenceIfRef(docs.right, r)
<1>1. ASSUME a.k = "scalar" PROVE a.raw = b.raw
  <2>1. /\ diffCompare(docs.left, l).parts = [x \in {0} |-> renderScalar(a.raw, FALSE, "compare")]
        /\ diffCompare(docs.right, r).parts = [x \in {0} |-> renderScalar(b.raw, FALSE, "compare")]
    BY <1>1 DEF diffCompare, summarizeWith
  <2>2. renderScalar(a.raw, FALSE, "compare") = renderScalar(b.raw, FALSE, "compare")
    <3> HIDE DEF a, b
    <3>1. [x \in {0} |-> renderScalar(a.raw, FALSE, "compare")][0]
            = [x \in {0} |-> renderScalar(b.raw, FALSE, "compare")][0]
      BY <2>1
    <3> QED
      BY <3>1
  <2> QED
    BY <2>2 DEF renderScalar
<1> QED
  BY <1>1 DEF SameSort

(* The entry whose row was written is accounted for. *)
LEMMA AccountsDone ==
  ASSUME NEW docs, NEW w, NEW f, NEW key, NEW node, NEW V, NEW B, NEW C, NEW v, NEW row,
         key \in DOMAIN asDict(docs.left, f.l), key \in DOMAIN asDict(docs.right, f.r),
         Accounts(docs, w, asDict(docs.left, f.l)[key], asDict(docs.right, f.r)[key], node, V, B, C),
         v.visitedPairs = w.visitedPairs \cup V, v.backEdges = w.backEdges \cup B,
         v.compared = w.compared \cup C, row \in v.rows, row.node = node
  PROVE  KeyDone(docs, v, f.l, f.r, key)
<1> DEFINE l == asDict(docs.left, f.l)[key]
           r == asDict(docs.right, f.r)[key]
<1>1. Reached(v, l, r)
  <2> HIDE DEF l, r
  <2>1. Accounts(docs, w, l, r, node, V, B, C)
    BY DEF l, r
  <2> QED
    BY <2>1 DEF Accounts, Reached
<1> QED
  BY <1>1 DEF KeyDone

(* The entries of the two values under one key are values. *)
LEMMA KidsAreItems ==
  ASSUME NEW docs, CmpDocs(docs), NEW l \in Entries(docs.left), NEW r \in Entries(docs.right), NEW key,
         key \in DOMAIN asDict(docs.left, l), key \in DOMAIN asDict(docs.right, r)
  PROVE  /\ asDict(docs.left, l)[key] \in Entries(docs.left)
         /\ asDict(docs.right, r)[key] \in Entries(docs.right)
<1>1. GoodDoc(docs.left) /\ GoodDoc(docs.right)
  BY BothAreGood
<1> QED
  BY <1>1, EntriesAreItems

(* Scalars and undefined objects have no keys. *)
LEMMA LeavesHaveNoKeys ==
  ASSUME NEW docs, CmpDocs(docs), NEW l \in Entries(docs.left), NEW r \in Entries(docs.right),
         dereferenceIfRef(docs.left, l).k = dereferenceIfRef(docs.right, r).k,
         dereferenceIfRef(docs.left, l).k \in {"scalar", "ref"}
  PROVE  CmpKeys(docs, l, r) = {}
<1>1. GoodDoc(docs.left) /\ GoodDoc(docs.right)
  BY BothAreGood
<1>2. DOMAIN asDict(docs.left, l) = {} /\ DOMAIN asDict(docs.right, r) = {}
  BY <1>1, EntriesAreItems
<1> QED
  BY <1>2 DEF CmpKeys

(* Writing the row of a key that one side has alone. *)
LEMMA OddKeepsCovered ==
  ASSUME NEW docs, CmpDocs(docs), NEW w, CmpShape(docs, w), CmpCovered(docs, w), w.frames # <<>>,
         NEW key, key \in Last(w.frames).todo, NEW node, OddRow(node), node.status \in {"added", "removed"},
         NEW v, v = Reported(w, key, node, {}, {}, {})
  PROVE  CmpCovered(docs, v)
<1> DEFINE row == [below |-> Last(w.frames).id, key |-> key, node |-> node]
<1>1. /\ v.visitedPairs = w.visitedPairs \cup {} /\ v.backEdges = w.backEdges \cup {}
      /\ v.compared = w.compared \cup {} /\ v.rows = WithRow(w.rows, Last(w.frames).id, key, node)
  <2>1. AfterRow(docs, w, key, node, {}, {}, {}, v)
    BY ReportedIs
  <2> QED
    BY <2>1 DEF AfterRow
<1>2. Growing(w, v)
  BY <1>1 DEF Growing, WithRow
<1>3. HasDelta(v)
  <2>1. row \in v.rows /\ row.node = node
    BY <1>1 DEF WithRow
  <2> HIDE DEF row
  <2> QED
    BY <2>1 DEF HasDelta
<1>4. \A l, r, k : KeyDone(docs, v, l, r, k)
  BY <1>3 DEF KeyDone
<1>5. v.compared = w.compared /\ v.visitedPairs = w.visitedPairs
  BY <1>1
<1>6. v.compared \subseteq Entries(docs.left) \X Entries(docs.right)
  BY <1>5 DEF CmpCovered
<1> QED
  BY <1>2, <1>4, <1>5, <1>6, CoveredStays

(* Writing the row of a key that both sides have. *)
LEMMA LeafKeepsCovered ==
  ASSUME NEW docs, CmpDocs(docs), NEW w, CmpShape(docs, w), CmpCovered(docs, w), w.frames # <<>>,
         NEW key, key \in Last(w.frames).todo,
         NEW l, NEW r, l = asDict(docs.left, Last(w.frames).l)[key], r = asDict(docs.right, Last(w.frames).r)[key],
         key \in DOMAIN asDict(docs.left, Last(w.frames).l), key \in DOMAIN asDict(docs.right, Last(w.frames).r),
         NEW node, NEW V, NEW B, NEW C, Accounts(docs, w, l, r, node, V, B, C),
         NEW v, v = Reported(w, key, node, V, B, C)
  PROVE  CmpCovered(docs, v)
<1> DEFINE f == Last(w.frames)
           changed == AlsoChanged(f.changed, key, node)
           row == [below |-> f.id, key |-> key, node |-> node]
           a == dereferenceIfRef(docs.left, l)
           b == dereferenceIfRef(docs.right, r)
           pair == <<refVisitKeyOf(l), refVisitKeyOf(r)>>
           full == l.ref /\ r.ref
<1>1. /\ v.visitedPairs = w.visitedPairs \cup V /\ v.backEdges = w.backEdges \cup B
      /\ v.compared = w.compared \cup C /\ v.rows = WithRow(w.rows, f.id, key, node)
      /\ Len(v.frames) = Len(w.frames) /\ FramesTaken(w, v.frames, key, changed)
  <2>1. AfterRow(docs, w, key, node, V, B, C, v)
    BY ReportedIs
  <2> QED
    BY <2>1 DEF AfterRow
<1>2. Growing(w, v) /\ row \in v.rows /\ row.node = node
  BY <1>1 DEF Growing, WithRow
<1>3. f \in CmpFrames(docs) /\ Len(w.frames) \in Nat \ {0} /\ f = w.frames[Len(w.frames)]
  BY ShapeHasFrames
<1>4. l \in Entries(docs.left) /\ r \in Entries(docs.right)
  <2>1. f.l \in Entries(docs.left) /\ f.r \in Entries(docs.right)
    BY <1>3 DEF CmpFrames
  <2> QED
    BY <2>1, KidsAreItems
<1>5. KeyDone(docs, v, f.l, f.r, key)
  <2> HIDE DEF f, row
  <2> QED
    BY <1>1, <1>2, AccountsDone DEF f
<1>6. /\ (C = {} /\ V = {}) \/ (C = {<<l, r>>} /\ V = (IF full THEN {pair} ELSE {}))
      /\ C # {} => \/ a.k = b.k /\ a.k \in {"scalar", "ref"} /\ LeafRow(docs, l, r, node)
                   \/ a.k # b.k /\ OddRow(node) /\ node.status = "changed"
  BY DEF Accounts
<1>7. v.compared \subseteq Entries(docs.left) \X Entries(docs.right)
  BY <1>1, <1>4, <1>6 DEF CmpCovered
<1>8. ASSUME NEW p \in v.visitedPairs, p \notin w.visitedPairs
      PROVE  \E c \in v.compared : c[1].ref /\ c[2].ref /\ p = <<c[1].n, c[2].n>>
  <2>1. p = pair /\ full /\ <<l, r>> \in v.compared
    BY <1>1, <1>6, <1>8
  <2>2. pair = <<l.n, r.n>>
    BY <2>1 DEF refVisitKeyOf
  <2> QED
    BY <2>1, <2>2
<1>9. ASSUME NEW c \in v.compared, c \notin w.compared
      PROVE  /\ SameSort(docs, c[1], c[2]) \/ HasDelta(v)
             /\ \A k \in CmpKeys(docs, c[1], c[2]) :
                  KeyDone(docs, v, c[1], c[2], k) \/ StillTodo(v, c[1], c[2], k)
  <2>1. c = <<l, r>> /\ C # {} /\ c[1] = l /\ c[2] = r
    BY <1>1, <1>6, <1>9
  <2>2. row \in v.rows /\ row.node = node
    BY <1>2
  <2>3. CASE a.k = b.k /\ a.k \in {"scalar", "ref"} /\ LeafRow(docs, l, r, node)
    <3>1. CmpKeys(docs, l, r) = {}
      BY <1>4, <2>3, LeavesHaveNoKeys
    <3>2. CASE diffCompare(docs.left, l) = diffCompare(docs.right, r)
      BY <2>1, <2>3, <3>1, <3>2, SameTextSameBytes
    <3>3. CASE diffCompare(docs.left, l) # diffCompare(docs.right, r)
      <4>1. HasDelta(v)
        BY <2>2, <2>3, <3>3 DEF HasDelta, LeafRow
      <4> QED
        BY <2>1, <3>1, <4>1
    <3> QED
      BY <3>2, <3>3
  <2>4. CASE a.k # b.k /\ OddRow(node) /\ node.status = "changed"
    <3>1. HasDelta(v)
      BY <2>2, <2>4 DEF HasDelta, OddRow
    <3> QED
      BY <3>1 DEF KeyDone
  <2> QED
    BY <1>6, <2>1, <2>3, <2>4
<1>10. ASSUME NEW x, NEW y, NEW k, StillTodo(w, x, y, k), ~StillTodo(v, x, y, k)
       PROVE  KeyDone(docs, v, x, y, k)
  <2>1. k = key /\ x = w.frames[Len(w.frames)].l /\ y = w.frames[Len(w.frames)].r
    <3>1. OnlyTaken(w, v, key)
      BY <1>1, StillAfter
    <3> QED
      BY <1>10, <3>1 DEF OnlyTaken
  <2> QED
    BY <1>3, <1>5, <2>1
<1> QED
  BY <1>2, <1>7, <1>8, <1>9, <1>10, CoveredStays

(* Going into the containers under a key. *)
LEMMA GoingInKeepsCovered ==
  ASSUME NEW docs, CmpDocs(docs), NEW w, CmpShape(docs, w), CmpCovered(docs, w), w.frames # <<>>,
         NEW key, key \in Last(w.frames).todo,
         NEW l, NEW r, l = asDict(docs.left, Last(w.frames).l)[key], r = asDict(docs.right, Last(w.frames).r)[key],
         key \in DOMAIN asDict(docs.left, Last(w.frames).l), key \in DOMAIN asDict(docs.right, Last(w.frames).r),
         dereferenceIfRef(docs.left, l).k = dereferenceIfRef(docs.right, r).k,
         dereferenceIfRef(docs.left, l).k # "scalar",
         l \in Entries(docs.left), r \in Entries(docs.right),
         NEW V, V = IF l.ref /\ r.ref THEN {<<refVisitKeyOf(l), refVisitKeyOf(r)>>} ELSE {},
         NEW v, AfterGoingIn(docs, w, key, l, r, V, v)
  PROVE  CmpCovered(docs, v)
<1> DEFINE f == Last(w.frames)
           new == Len(w.frames) + 1
<1>1. /\ v.visitedPairs = w.visitedPairs \cup V /\ v.backEdges = w.backEdges /\ v.rows = w.rows
      /\ v.compared = w.compared \cup {<<l, r>>}
      /\ Len(v.frames) = new /\ FramesTaken(w, v.frames, key, f.changed)
      /\ v.frames[new].l = l /\ v.frames[new].r = r /\ v.frames[new].todo = CmpKeys(docs, l, r)
  BY DEF AfterGoingIn
<1>2. Growing(w, v) /\ <<l, r>> \in v.compared
  BY <1>1 DEF Growing
<1>3. f = w.frames[Len(w.frames)] /\ Len(w.frames) \in Nat \ {0}
  BY ShapeHasFrames
<1>4. KeyDone(docs, v, f.l, f.r, key)
  BY <1>2 DEF KeyDone, Reached
<1>5. v.compared \subseteq Entries(docs.left) \X Entries(docs.right)
  BY <1>1 DEF CmpCovered
<1>6. ASSUME NEW p \in v.visitedPairs, p \notin w.visitedPairs
      PROVE  \E c \in v.compared : c[1].ref /\ c[2].ref /\ p = <<c[1].n, c[2].n>>
  <2>1. p = <<refVisitKeyOf(l), refVisitKeyOf(r)>> /\ l.ref /\ r.ref
    BY <1>1, <1>6
  <2>2. p = <<l.n, r.n>>
    BY <2>1 DEF refVisitKeyOf
  <2> QED
    BY <1>2, <2>1, <2>2
<1>7. ASSUME NEW c \in v.compared, c \notin w.compared
      PROVE  /\ SameSort(docs, c[1], c[2]) \/ HasDelta(v)
             /\ \A k \in CmpKeys(docs, c[1], c[2]) :
                  KeyDone(docs, v, c[1], c[2], k) \/ StillTodo(v, c[1], c[2], k)
  <2>1. c[1] = l /\ c[2] = r
    BY <1>1, <1>7
  <2>2. SameSort(docs, l, r)
    BY DEF SameSort
  <2>3. new \in 1..new
    BY <1>3
  <2> HIDE DEF new
  <2>4. \A k \in CmpKeys(docs, l, r) : StillTodo(v, l, r, k)
    BY <1>1, <2>3 DEF StillTodo
  <2> QED
    BY <2>1, <2>2, <2>4
<1>8. ASSUME NEW x, NEW y, NEW k, StillTodo(w, x, y, k), ~StillTodo(v, x, y, k)
      PROVE  KeyDone(docs, v, x, y, k)
  <2>1. OnlyTaken(w, v, key)
    BY <1>1, StillAfter
  <2>2. k = key /\ x = f.l /\ y = f.r
    BY <1>3, <1>8, <2>1 DEF OnlyTaken
  <2> QED
    BY <1>4, <2>2
<1> QED
  BY <1>2, <1>5, <1>6, <1>7, <1>8, CoveredStays

(* A container whose entries are through. *)
LEMMA EndKeepsCovered ==
  ASSUME NEW docs, NEW w, CmpShape(docs, w), CmpCovered(docs, w), w.frames # <<>>,
         Last(w.frames).todo = {}, NEW node, NEW v, AfterEnd(docs, w, node, v)
  PROVE  CmpCovered(docs, v)
<1> DEFINE last == Len(w.frames)
           key == Last(w.frames).key
           below == IF last = 1 THEN 0 ELSE w.frames[last - 1].id
<1>1. /\ v.visitedPairs = w.visitedPairs /\ v.backEdges = w.backEdges /\ v.compared = w.compared
      /\ v.rows = WithRow(w.rows, below, key, node)
      /\ Len(v.frames) = last - 1 /\ FramesLeft(w, v.frames, key, node)
  BY DEF AfterEnd
<1>2. Last(w.frames) = w.frames[last] /\ last \in Nat \ {0}
  BY ShapeHasFrames
<1>3. Growing(w, v)
  BY <1>1 DEF Growing, WithRow
<1>4. ASSUME NEW x, NEW y, NEW k, StillTodo(w, x, y, k) PROVE StillTodo(v, x, y, k)
  <2>1. PICK i \in 1..last : w.frames[i].l = x /\ w.frames[i].r = y /\ k \in w.frames[i].todo
    BY <1>4 DEF StillTodo
  <2>2. i # last
    BY <1>2, <2>1
  <2>3. i \in 1..last - 1
    <3> HIDE DEF last
    <3> QED
      BY <1>2, <2>2
  <2>4. v.frames[i].l = x /\ v.frames[i].r = y /\ k \in v.frames[i].todo
    BY <1>1, <2>1, <2>3 DEF FramesLeft, SamePlace
  <2> QED
    BY <1>1, <2>3, <2>4 DEF StillTodo
<1>5. v.compared \subseteq Entries(docs.left) \X Entries(docs.right)
  BY <1>1 DEF CmpCovered
<1> QED
  BY <1>1, <1>3, <1>4, <1>5, CoveredStays

(***************************************************************************)
(* A renumbered copy shows no difference.                                  *)
(***************************************************************************)
Numberings(docs) == [DOMAIN docs.left.nodes -> DOMAIN docs.right.nodes]

\* Nothing tells l and r apart.
Alike(docs, to, l, r) ==
  /\ dereferenceIfRef(docs.left, l).k = dereferenceIfRef(docs.right, r).k
  /\ DOMAIN asDict(docs.left, l) = DOMAIN asDict(docs.right, r)
  /\ \A key \in DOMAIN asDict(docs.left, l) :
       asDict(docs.right, r)[key] = ImageOf(to, asDict(docs.left, l)[key])
  /\ diffCompare(docs.left, l) = diffCompare(docs.right, r)

(* A value and its image have the same kind, keys, entries and summary. *)
LEMMA ImageIsAlike ==
  ASSUME NEW docs, CmpDocs(docs), NEW to \in Numberings(docs), Renumbered(docs, to),
         NEW l \in Entries(docs.left), NEW r, r = ImageOf(to, l)
  PROVE  Alike(docs, to, l, r)
<1> DEFINE a == docs.left.nodes[l.n]
           b == docs.right.nodes[to[l.n]]
<1>1. l.n \in DOMAIN docs.left.nodes /\ r.n = to[l.n] /\ r.ref = l.ref
  BY DEF Entries, ImageOf
<1>2. /\ a.k = b.k /\ a.raw = b.raw /\ DOMAIN a.e = DOMAIN b.e
      /\ \A key \in DOMAIN a.e : b.e[key] = [n |-> to[a.e[key].n], ref |-> a.e[key].ref]
  BY <1>1 DEF Renumbered
<1>3. /\ dereferenceIfRef(docs.left, l) = a /\ dereferenceIfRef(docs.right, r) = b
      /\ asDict(docs.left, l) = a.e /\ asDict(docs.right, r) = b.e
  BY <1>1 DEF dereferenceIfRef, asDict
<1>4. ASSUME NEW key \in DOMAIN a.e
      PROVE  b.e[key] = ImageOf(to, a.e[key])
  BY <1>2 DEF ImageOf
<1>5. ASSUME NEW key \in DOMAIN a.e, NEW mark
      PROVE  shallowValue(docs.left, a.e[key], mark, "compare")
               = shallowValue(docs.right, b.e[key], mark, "compare")
  <2> DEFINE x == a.e[key]
             y == b.e[key]
  <2>1. x \in Entries(docs.left)
    <3>1. GoodDoc(docs.left)
      BY BothAreGood
    <3> QED
      BY <1>1, <1>5, <3>1 DEF GoodDoc
  <2>5. y = ImageOf(to, x)
    BY <1>4, <1>5
  <2>2. y.n = to[x.n] /\ y.ref = x.ref /\ x.n \in DOMAIN docs.left.nodes
    <3> HIDE DEF x, y
    <3> QED
      BY <2>1, <2>5 DEF ImageOf, Entries
  <2>3. docs.left.nodes[x.n].k = docs.right.nodes[y.n].k /\ docs.left.nodes[x.n].raw = docs.right.nodes[y.n].raw
    BY <2>2 DEF Renumbered
  <2> HIDE DEF x, y
  <2>4. shallowValue(docs.left, x, mark, "compare") = shallowValue(docs.right, y, mark, "compare")
    BY <2>2, <2>3 DEF shallowValue
  <2> QED
    BY <2>4 DEF x, y
<1>6. binaryStringKey(a.e, ContentsKey) = binaryStringKey(b.e, ContentsKey)
      /\ \A key : binaryStringKey(a.e, key) = binaryStringKey(b.e, key)
  BY <1>2 DEF binaryStringKey, isSignatureDict
<1>7. diffCompare(docs.left, l) = diffCompare(docs.right, r)
  <2> DEFINE MarkA(x) == IF a.k = "array" THEN FALSE ELSE binaryStringKey(a.e, x)
             MarkB(x) == IF b.k = "array" THEN FALSE ELSE binaryStringKey(b.e, x)
  <2>1. diffCompare(docs.left, l)
          = [k |-> a.k,
             parts |-> IF a.k = "scalar" THEN [x \in {0} |-> renderScalar(a.raw, FALSE, "compare")]
                       ELSE [x \in DOMAIN a.e |-> shallowValue(docs.left, a.e[x], MarkA(x), "compare")]]
    BY <1>3 DEF diffCompare, summarizeWith
  <2>2. diffCompare(docs.right, r)
          = [k |-> b.k,
             parts |-> IF b.k = "scalar" THEN [x \in {0} |-> renderScalar(b.raw, FALSE, "compare")]
                       ELSE [x \in DOMAIN b.e |-> shallowValue(docs.right, b.e[x], MarkB(x), "compare")]]
    BY <1>3 DEF diffCompare, summarizeWith
  <2>3. \A x : MarkA(x) = MarkB(x)
    BY <1>2, <1>6
  <2> HIDE DEF MarkA, MarkB, a, b
  <2>4. [x \in DOMAIN a.e |-> shallowValue(docs.left, a.e[x], MarkA(x), "compare")]
          = [x \in DOMAIN b.e |-> shallowValue(docs.right, b.e[x], MarkB(x), "compare")]
    BY <1>2, <1>5, <2>3
  <2> QED
    BY <1>2, <2>1, <2>2, <2>4
<1> QED
  BY <1>2, <1>3, <1>4, <1>7 DEF Alike

\* In a comparison with a renumbered copy.
CopyHolds(w, to) ==
  /\ \A i \in 1..Len(w.frames) : w.frames[i].r = ImageOf(to, w.frames[i].l) /\ w.frames[i].changed = {}
  /\ \A x \in w.rows : x.node.status = "unchanged"

\* Both sides of the frame f have the key, with a copy under it.
InnermostCopy(docs, to, f, key) ==
  /\ f.changed = {}
  /\ key \in DOMAIN asDict(docs.left, f.l) /\ key \in DOMAIN asDict(docs.right, f.r)
  /\ asDict(docs.right, f.r)[key] = ImageOf(to, asDict(docs.left, f.l)[key])
  /\ asDict(docs.left, f.l)[key] \in Entries(docs.left)

(* The values under a key of the innermost container. *)
LEMMA InnermostImage ==
  ASSUME NEW docs, CmpDocs(docs), NEW w, CmpShape(docs, w), w.frames # <<>>,
         NEW to \in Numberings(docs), Renumbered(docs, to), CopyHolds(w, to),
         NEW key, key \in Last(w.frames).todo, NEW f, f = Last(w.frames)
  PROVE  InnermostCopy(docs, to, f, key)
<1> DEFINE last == Len(w.frames)
<1>1. f = w.frames[last] /\ last \in 1..last /\ f \in CmpFrames(docs)
  BY ShapeHasFrames
<1>2. f.r = ImageOf(to, f.l) /\ f.changed = {}
  BY <1>1 DEF CopyHolds
<1>3. key \in CmpKeys(docs, f.l, f.r)
  BY <1>1 DEF CmpShape
<1>4. f.l \in Entries(docs.left) /\ f.r \in Entries(docs.right)
  BY <1>1 DEF CmpFrames
<1>5. /\ DOMAIN asDict(docs.left, f.l) = DOMAIN asDict(docs.right, f.r)
      /\ \A k \in DOMAIN asDict(docs.left, f.l) :
           asDict(docs.right, f.r)[k] = ImageOf(to, asDict(docs.left, f.l)[k])
  <2> DEFINE fl == f.l
             fr == f.r
  <2>1. fr = ImageOf(to, fl) /\ fl \in Entries(docs.left)
    BY <1>2, <1>4
  <2> HIDE DEF fl, fr
  <2>2. Alike(docs, to, fl, fr)
    BY <2>1, ImageIsAlike
  <2> QED
    BY <2>2 DEF fl, fr, Alike
<1>6. key \in DOMAIN asDict(docs.left, f.l)
  BY <1>3, <1>5 DEF CmpKeys
<1>7. asDict(docs.left, f.l)[key] \in Entries(docs.left)
  <2>1. GoodDoc(docs.left)
    BY BothAreGood
  <2> QED
    BY <1>4, <1>6, <2>1, EntriesAreItems
<1> QED
  BY <1>2, <1>4, <1>5, <1>6, <1>7 DEF InnermostCopy

(* A row that says unchanged leaves the comparison with a copy as it is. *)
LEMMA UnchangedKeepsCopies ==
  ASSUME NEW docs, NEW w, NEW to, CopyHolds(w, to), Last(w.frames).changed = {}, NEW key, NEW node,
         node.status = "unchanged", NEW V, NEW B, NEW C, NEW v, AfterRow(docs, w, key, node, V, B, C, v)
  PROVE  CopyHolds(v, to)
<1>1. /\ v.rows = WithRow(w.rows, Last(w.frames).id, key, node) /\ Len(v.frames) = Len(w.frames)
      /\ FramesTaken(w, v.frames, key, AlsoChanged(Last(w.frames).changed, key, node))
  BY DEF AfterRow
<1>2. AlsoChanged(Last(w.frames).changed, key, node) = {}
  BY DEF AlsoChanged
<1>3. FramesTaken(w, v.frames, key, {})
  BY <1>1, <1>2
<1>4. ASSUME NEW i \in 1..Len(v.frames)
      PROVE  v.frames[i].r = ImageOf(to, v.frames[i].l) /\ v.frames[i].changed = {}
  BY <1>1, <1>3 DEF FramesTaken, SamePlace, CopyHolds
<1>5. ASSUME NEW x \in v.rows PROVE x.node.status = "unchanged"
  BY <1>1 DEF WithRow, CopyHolds
<1> QED
  BY <1>4, <1>5 DEF CopyHolds

(* The row of a container that was gone through. *)
LEMMA ContainerRowIs ==
  ASSUME NEW docs, NEW f, NEW node, node = ContainerRow(docs, f)
  PROVE  /\ node.id = f.id /\ node.status = IF f.changed = {} THEN "unchanged" ELSE "changed"
         /\ node.changedKeys \subseteq f.changed /\ "truncated" \in DOMAIN node
         /\ node.leaf <=> CmpKeys(docs, f.l, f.r) = {}
<1> DEFINE v == dereferenceIfRef(docs.left, f.l)
           st == IF f.changed = {} THEN "unchanged" ELSE "changed"
           id == f.id
           leaf == DOMAIN v.e \cup DOMAIN asDict(docs.right, f.r) = {}
           changed == IF v.k = "array" THEN {} ELSE f.changed
           kind == v.k
<1>1. node = [DiffRow(st, kind, NoSide, NoSide) EXCEPT !.id = id, !.leaf = leaf, !.changedKeys = changed]
  BY DEF ContainerRow
<1>2. leaf <=> CmpKeys(docs, f.l, f.r) = {}
  BY DEF CmpKeys, asDict
<1>3. changed \subseteq f.changed
  OBVIOUS
<1> HIDE DEF st, id, leaf, changed, kind
<1>4. /\ node.id = id /\ node.status = st /\ node.leaf = leaf /\ node.changedKeys = changed
      /\ "truncated" \in DOMAIN node
  BY <1>1 DEF DiffRow
<1> QED
  BY <1>2, <1>3, <1>4 DEF st, id

(* What CmpCopies says of one numbering. *)
LEMMA CopiesHold ==
  ASSUME NEW docs, NEW w
  PROVE  CmpCopies(docs, w) <=> \A to \in Numberings(docs) : Renumbered(docs, to) => CopyHolds(w, to)
BY DEF CmpCopies, Numberings, CopyHolds

(* A renumbered copy has no key on one side alone. *)
LEMMA OddKeepsCopies ==
  ASSUME NEW docs, CmpDocs(docs), NEW w, CmpShape(docs, w), CmpCopies(docs, w), w.frames # <<>>,
         NEW key, key \in Last(w.frames).todo,
         ~(key \in DOMAIN asDict(docs.left, Last(w.frames).l) /\ key \in DOMAIN asDict(docs.right, Last(w.frames).r)),
         NEW v
  PROVE  CmpCopies(docs, v)
<1>1. ASSUME NEW to \in Numberings(docs), Renumbered(docs, to) PROVE FALSE
  <2>1. CopyHolds(w, to)
    BY <1>1, CopiesHold
  <2> DEFINE f == Last(w.frames)
  <2>2. f = Last(w.frames)
    OBVIOUS
  <2> HIDE DEF f
  <2>3. InnermostCopy(docs, to, f, key)
    BY <1>1, <2>1, <2>2, InnermostImage
  <2> QED
    BY <2>2, <2>3 DEF InnermostCopy
<1> QED
  BY <1>1, CopiesHold

(* Nor a row that says changed of a key of both. *)
LEMMA LeafKeepsCopies ==
  ASSUME NEW docs, CmpDocs(docs), NEW w, CmpShape(docs, w), CmpCopies(docs, w), w.frames # <<>>,
         NEW key, key \in Last(w.frames).todo,
         NEW l, NEW r, l = asDict(docs.left, Last(w.frames).l)[key], r = asDict(docs.right, Last(w.frames).r)[key],
         NEW node, NEW V, NEW B, NEW C, Accounts(docs, w, l, r, node, V, B, C),
         NEW v, AfterRow(docs, w, key, node, V, B, C, v)
  PROVE  CmpCopies(docs, v)
<1>1. ASSUME NEW to \in Numberings(docs), Renumbered(docs, to) PROVE CopyHolds(v, to)
  <2>1. CopyHolds(w, to)
    BY <1>1, CopiesHold
  <2> DEFINE f == Last(w.frames)
  <2>2. f = Last(w.frames)
    OBVIOUS
  <2> HIDE DEF f
  <2>3. InnermostCopy(docs, to, f, key)
    BY <1>1, <2>1, <2>2, InnermostImage
  <2>4. r = ImageOf(to, l) /\ l \in Entries(docs.left) /\ f.changed = {}
    BY <2>2, <2>3 DEF InnermostCopy
  <2>5. Alike(docs, to, l, r)
    BY <1>1, <2>4, ImageIsAlike
  <2>6. /\ dereferenceIfRef(docs.left, l).k = dereferenceIfRef(docs.right, r).k
        /\ diffCompare(docs.left, l) = diffCompare(docs.right, r)
    BY <2>5 DEF Alike
  <2>7. LeafRow(docs, l, r, node)
    BY <2>6 DEF Accounts
  <2>8. node.status = "unchanged"
    BY <2>6, <2>7 DEF LeafRow
  <2> QED
    BY <2>1, <2>2, <2>4, <2>8, UnchangedKeepsCopies
<1> QED
  BY <1>1, CopiesHold

(* Two containers that are gone into are copies of each other too. *)
LEMMA GoingInKeepsCopies ==
  ASSUME NEW docs, CmpDocs(docs), NEW w, CmpShape(docs, w), CmpCopies(docs, w), w.frames # <<>>,
         NEW key, key \in Last(w.frames).todo,
         NEW l, NEW r, l = asDict(docs.left, Last(w.frames).l)[key], r = asDict(docs.right, Last(w.frames).r)[key],
         NEW V, NEW v, AfterGoingIn(docs, w, key, l, r, V, v)
  PROVE  CmpCopies(docs, v)
<1>1. ASSUME NEW to \in Numberings(docs), Renumbered(docs, to) PROVE CopyHolds(v, to)
  <2>1. CopyHolds(w, to)
    BY <1>1, CopiesHold
  <2> DEFINE f == Last(w.frames)
             last == Len(w.frames)
             new == last + 1
  <2>2. f = Last(w.frames) /\ last \in Nat \ {0} /\ f = w.frames[last]
    BY ShapeHasFrames
  <2>3. /\ v.rows = w.rows /\ Len(v.frames) = new /\ FramesTaken(w, v.frames, key, f.changed)
        /\ v.frames[new].l = l /\ v.frames[new].r = r /\ v.frames[new].changed = {}
    BY DEF AfterGoingIn
  <2>4. \A i \in 1..last : /\ w.frames[i].r = ImageOf(to, w.frames[i].l) /\ w.frames[i].changed = {}
                           /\ SamePlace(v.frames[i], w.frames[i])
                           /\ v.frames[i].changed = IF i = last THEN f.changed ELSE w.frames[i].changed
    BY <2>1, <2>3 DEF CopyHolds, FramesTaken
  <2> HIDE DEF f
  <2>5. InnermostCopy(docs, to, f, key)
    BY <1>1, <2>1, <2>2, InnermostImage
  <2>6. r = ImageOf(to, l) /\ f.changed = {}
    BY <2>2, <2>5 DEF InnermostCopy
  <2> HIDE DEF last
  <2>7. ASSUME NEW i \in 1..new
        PROVE  v.frames[i].r = ImageOf(to, v.frames[i].l) /\ v.frames[i].changed = {}
    <3>1. CASE i = new
      BY <2>3, <2>6, <3>1
    <3>2. CASE i # new
      <4>1. i \in 1..last
        BY <2>2, <3>2
      <4> QED
        BY <2>4, <2>6, <4>1 DEF SamePlace
    <3> QED
      BY <3>1, <3>2
  <2> QED
    BY <2>1, <2>3, <2>7 DEF CopyHolds
<1> QED
  BY <1>1, CopiesHold

(* And their row says unchanged. *)
LEMMA EndKeepsCopies ==
  ASSUME NEW docs, CmpDocs(docs), NEW w, CmpShape(docs, w), CmpCopies(docs, w), w.frames # <<>>,
         NEW node, node = ContainerRow(docs, Last(w.frames)), NEW v, AfterEnd(docs, w, node, v)
  PROVE  CmpCopies(docs, v)
<1>1. ASSUME NEW to \in Numberings(docs), Renumbered(docs, to) PROVE CopyHolds(v, to)
  <2>1. CopyHolds(w, to)
    BY <1>1, CopiesHold
  <2> DEFINE f == Last(w.frames)
             last == Len(w.frames)
             below == IF last = 1 THEN 0 ELSE w.frames[last - 1].id
  <2>2. last \in Nat \ {0} /\ f = w.frames[last] /\ last \in 1..last
    BY ShapeHasFrames
  <2>3. f.changed = {}
    BY <2>1, <2>2 DEF CopyHolds
  <2>4. node.status = "unchanged"
    <3>1. node = ContainerRow(docs, f)
      OBVIOUS
    <3> HIDE DEF f
    <3> QED
      BY <2>3, <3>1, ContainerRowIs
  <2>5. /\ v.rows = WithRow(w.rows, below, f.key, node) /\ Len(v.frames) = last - 1
        /\ FramesLeft(w, v.frames, f.key, node)
    BY DEF AfterEnd
  <2>6. ASSUME NEW i \in 1..last - 1
        PROVE  v.frames[i].r = ImageOf(to, v.frames[i].l) /\ v.frames[i].changed = {}
    <3>1. SamePlace(v.frames[i], w.frames[i]) /\ v.frames[i].changed = w.frames[i].changed
      BY <2>4, <2>5 DEF FramesLeft
    <3>2. w.frames[i].r = ImageOf(to, w.frames[i].l) /\ w.frames[i].changed = {}
      <4> HIDE DEF last
      <4>1. i \in 1..last
        BY <2>2
      <4> QED
        BY <2>1, <4>1 DEF CopyHolds, last
    <3> QED
      BY <3>1, <3>2 DEF SamePlace
  <2>7. ASSUME NEW x \in v.rows PROVE x.node.status = "unchanged"
    BY <2>1, <2>4, <2>5 DEF WithRow, CopyHolds
  <2> QED
    BY <2>5, <2>6, <2>7 DEF CopyHolds
<1> QED
  BY <1>1, CopiesHold

(***************************************************************************)
(* Rows tell apart, and a container is changed by the rows in it.          *)
(***************************************************************************)
\* What is changed in v is what is changed in w, and the row of node.
BelowToo(w, v, id, key, node) ==
  \A x, k : ChangedBelow(v, x, k) <=> ChangedBelow(w, x, k) \/ (x = id /\ k = key /\ node.status # "unchanged")

(* What is changed below a container, with one more row. *)
LEMMA BelowWithRow ==
  ASSUME NEW w, NEW v, NEW id, NEW key, NEW node, v.rows = WithRow(w.rows, id, key, node)
  PROVE  BelowToo(w, v, id, key, node)
<1> DEFINE row == [below |-> id, key |-> key, node |-> node]
<1>1. v.rows = w.rows \cup {row} /\ row.below = id /\ row.key = key /\ row.node = node
  BY DEF WithRow
<1> HIDE DEF row
<1> QED
  BY <1>1 DEF ChangedBelow, BelowToo

\* A row whose node is as CmpRows says, in a walk w.
RowRight(w, x) ==
  /\ x.below \in 0..w.opened /\ x.node.id \in 0..w.opened
  /\ \A i \in 1..Len(w.frames) : x.node.id # w.frames[i].id
  /\ NodeRight(x.node)
  /\ x.node.id # 0 =>
       /\ x.node.status = "changed" <=> \E key : ChangedBelow(w, x.node.id, key)
       /\ \A key \in x.node.changedKeys : ChangedBelow(w, x.node.id, key)

FrameRight(w, i) ==
  /\ w.frames[i].id \in 1..w.opened
  /\ \A j \in 1..Len(w.frames) : i < j => w.frames[i].id < w.frames[j].id
  /\ \A key : key \in w.frames[i].changed <=> ChangedBelow(w, w.frames[i].id, key)

(* CmpRows, row by row. *)
LEMMA RowsRight ==
  ASSUME NEW w
  PROVE  CmpRows(w) <=> (\A i \in 1..Len(w.frames) : FrameRight(w, i)) /\ (\A x \in w.rows : RowRight(w, x))
BY DEF CmpRows, RowRight, FrameRight

(* The row of an entry changes the container it is in. *)
LEMMA RowKeepsRows ==
  ASSUME NEW docs, NEW w, CmpShape(docs, w), CmpRows(w), w.frames # <<>>,
         NEW key, NEW node, node.id = 0, NodeRight(node),
         NEW V, NEW B, NEW C, NEW v, AfterRow(docs, w, key, node, V, B, C, v)
  PROVE  CmpRows(v)
<1> DEFINE last == Len(w.frames)
           id == w.frames[last].id
           row == [below |-> id, key |-> key, node |-> node]
           changed == AlsoChanged(w.frames[last].changed, key, node)
<1>12. last \in Nat \ {0} /\ Last(w.frames) = w.frames[last] /\ w.opened \in Nat
  BY ShapeHasFrames DEF CmpShape
<1>1. last \in Nat \ {0} /\ Last(w.frames) = w.frames[last] /\ w.opened \in Nat /\ last \in 1..last
  <2> HIDE DEF last
  <2> QED
    BY <1>12
<1>2. /\ v.opened = w.opened /\ v.rows = WithRow(w.rows, id, key, node) /\ Len(v.frames) = last
      /\ FramesTaken(w, v.frames, key, changed)
  BY <1>1 DEF AfterRow
<1>3. \A i \in 1..last : /\ v.frames[i].id = w.frames[i].id
                         /\ v.frames[i].changed = IF i = last THEN changed ELSE w.frames[i].changed
  BY <1>2 DEF FramesTaken, SamePlace
<1>4. \A x, k : ChangedBelow(v, x, k) <=> ChangedBelow(w, x, k) \/ (x = id /\ k = key /\ node.status # "unchanged")
  <2>1. BelowToo(w, v, id, key, node)
    BY <1>2, BelowWithRow
  <2> QED
    BY <2>1 DEF BelowToo
<1>5. \A i \in 1..last : FrameRight(w, i)
  BY RowsRight
<1>6. \A x \in w.rows : RowRight(w, x)
  BY RowsRight
<1>7. id \in 1..w.opened
  BY <1>1, <1>5 DEF FrameRight
<1>8. v.rows = w.rows \cup {row} /\ row.below = id /\ row.node = node
  BY <1>2 DEF WithRow
<1>9. \A k : k \in changed <=> k \in w.frames[last].changed \/ (k = key /\ node.status # "unchanged")
  BY DEF AlsoChanged
<1> HIDE DEF last, id, row, changed
<1>10. ASSUME NEW i \in 1..last PROVE FrameRight(v, i)
  <2>1. /\ w.frames[i].id \in 1..w.opened
        /\ \A j \in 1..last : i < j => w.frames[i].id < w.frames[j].id
        /\ \A k : k \in w.frames[i].changed <=> ChangedBelow(w, w.frames[i].id, k)
    BY <1>5 DEF FrameRight, last
  <2>2. ASSUME NEW k
        PROVE  k \in v.frames[i].changed <=> ChangedBelow(v, v.frames[i].id, k)
    <3>1. CASE i = last
      <4>1. w.frames[i].id = id
        BY <3>1 DEF id, last
      <4>2. v.frames[i].changed = changed /\ v.frames[i].id = id
        BY <1>3, <3>1, <4>1
      <4> QED
        BY <1>4, <1>9, <2>1, <3>1, <4>1, <4>2
    <3>2. CASE i # last
      <4>1. w.frames[i].id # id
        <5>1. w.frames[i].id < w.frames[last].id
          BY <1>1, <2>1, <3>2
        <5>2. w.frames[i].id \in Int
          BY <1>1, <2>1
        <5> QED
          BY <1>1, <1>7, <5>1, <5>2 DEF id
      <4> QED
        BY <1>3, <1>4, <2>1, <3>2, <4>1
    <3> QED
      BY <3>1, <3>2
  <2>3. \A j \in 1..last : i < j => v.frames[i].id < v.frames[j].id
    BY <1>3, <2>1
  <2> QED
    BY <1>2, <1>3, <2>1, <2>2, <2>3 DEF FrameRight
<1>11. ASSUME NEW x \in v.rows PROVE RowRight(v, x)
  <2>1. CASE x \in w.rows
    <3>1. RowRight(w, x)
      BY <1>6, <2>1
    <3>2. x.node.id # id
      BY <1>1, <3>1 DEF RowRight, id, last
    <3>3. \A k : ChangedBelow(v, x.node.id, k) <=> ChangedBelow(w, x.node.id, k)
      BY <1>4, <3>2
    <3>4. \A i \in 1..Len(v.frames) : x.node.id # v.frames[i].id
      BY <1>2, <1>3, <3>1 DEF RowRight, last
    <3> QED
      BY <1>2, <3>1, <3>3, <3>4 DEF RowRight
  <2>2. CASE x = row
    <3>1. x.below = id /\ x.node.id = 0 /\ NodeRight(x.node)
      BY <1>8, <2>2
    <3>2. ASSUME NEW i \in 1..Len(v.frames) PROVE x.node.id # v.frames[i].id
      <4>1. v.frames[i].id \in 1..w.opened
        BY <1>2, <1>3, <1>5, <3>2 DEF FrameRight
      <4> QED
        BY <1>1, <3>1, <4>1
    <3> QED
      BY <1>1, <1>2, <1>7, <3>1, <3>2 DEF RowRight
  <2> QED
    BY <1>8, <2>1, <2>2
<1> QED
  BY <1>2, <1>10, <1>11, RowsRight

(* No row is below a container that was just gone into. *)
LEMMA GoingInKeepsRows ==
  ASSUME NEW docs, NEW w, CmpShape(docs, w), CmpRows(w), w.frames # <<>>,
         NEW key, NEW l, NEW r, NEW V, NEW v, AfterGoingIn(docs, w, key, l, r, V, v)
  PROVE  CmpRows(v)
<1> DEFINE last == Len(w.frames)
           new == last + 1
<1>1. last \in Nat \ {0} /\ Last(w.frames) = w.frames[last] /\ w.opened \in Nat
  BY ShapeHasFrames DEF CmpShape
<1>2. /\ v.opened = w.opened + 1 /\ v.rows = w.rows /\ Len(v.frames) = new
      /\ v.frames[new].id = w.opened + 1 /\ v.frames[new].changed = {}
  BY DEF AfterGoingIn
<1>3. \A i \in 1..last : v.frames[i].id = w.frames[i].id /\ v.frames[i].changed = w.frames[i].changed
  <2>1. FramesTaken(w, v.frames, key, w.frames[last].changed)
    BY <1>1 DEF AfterGoingIn
  <2> QED
    BY <2>1 DEF FramesTaken, SamePlace
<1>4. \A x, k : ChangedBelow(v, x, k) <=> ChangedBelow(w, x, k)
  BY <1>2 DEF ChangedBelow
<1>5. \A i \in 1..last : FrameRight(w, i)
  BY RowsRight
<1>6. \A x \in w.rows : RowRight(w, x)
  BY RowsRight
<1>11. \A i \in 1..last : \A j \in 1..last : i < j => w.frames[i].id < w.frames[j].id
  BY <1>5 DEF FrameRight
<1> HIDE DEF last
<1>7. \A i \in 1..new : i \in 1..last \/ i = new
  BY <1>1
<1>8. ASSUME NEW i \in 1..new PROVE FrameRight(v, i)
  <2>1. CASE i \in 1..last
    <3>1. /\ w.frames[i].id \in 1..w.opened
          /\ \A k : k \in w.frames[i].changed <=> ChangedBelow(w, w.frames[i].id, k)
      BY <1>5, <2>1 DEF FrameRight
    <3>2. ASSUME NEW j \in 1..new, i < j PROVE v.frames[i].id < v.frames[j].id
      <4>1. CASE j \in 1..last
        BY <1>3, <1>11, <2>1, <3>2, <4>1
      <4>2. CASE j = new
        BY <1>1, <1>2, <1>3, <2>1, <3>1, <4>2
      <4> QED
        BY <1>7, <4>1, <4>2
    <3>3. v.frames[i].id \in 1..v.opened
      <4>1. w.frames[i].id \in 1..w.opened + 1
        BY <1>1, <3>1
      <4> QED
        BY <1>2, <1>3, <2>1, <4>1
    <3>4. \A k : k \in v.frames[i].changed <=> ChangedBelow(v, v.frames[i].id, k)
      BY <1>3, <1>4, <2>1, <3>1
    <3> QED
      BY <1>2, <3>2, <3>3, <3>4 DEF FrameRight
  <2>2. CASE i = new
    <3>1. ASSUME NEW k PROVE ~ChangedBelow(w, w.opened + 1, k)
      <4>1. \A x \in w.rows : x.below \in 0..w.opened
        BY <1>6 DEF RowRight
      <4>2. \A x \in w.rows : x.below # w.opened + 1
        BY <1>1, <4>1
      <4> QED
        BY <4>2 DEF ChangedBelow
    <3>2. v.frames[i].id \in 1..v.opened
      BY <1>1, <1>2, <2>2
    <3>3. \A j \in 1..new : ~(i < j)
      BY <1>1, <2>2
    <3>4. \A k : k \in v.frames[i].changed <=> ChangedBelow(v, v.frames[i].id, k)
      BY <1>2, <1>4, <2>2, <3>1
    <3> QED
      BY <1>2, <3>2, <3>3, <3>4 DEF FrameRight
  <2> QED
    BY <1>7, <2>1, <2>2
<1>9. ASSUME NEW x \in v.rows PROVE RowRight(v, x)
  <2>1. RowRight(w, x)
    BY <1>2, <1>6
  <2>2. x.below \in 0..w.opened /\ x.node.id \in 0..w.opened
    BY <2>1 DEF RowRight
  <2>3. x.below \in 0..v.opened /\ x.node.id \in 0..v.opened
    BY <1>1, <1>2, <2>2
  <2>4. ASSUME NEW i \in 1..new PROVE x.node.id # v.frames[i].id
    <3>1. CASE i \in 1..last
      BY <1>3, <2>1, <3>1 DEF RowRight, last
    <3>2. CASE i = new
      BY <1>1, <1>2, <2>2, <3>2
    <3> QED
      BY <1>7, <3>1, <3>2
  <2> QED
    BY <1>2, <1>4, <2>1, <2>3, <2>4 DEF RowRight
<1> QED
  BY <1>2, <1>8, <1>9, RowsRight

(* The row of a container says whether a row in it is changed. *)
LEMMA EndKeepsRows ==
  ASSUME NEW docs, NEW w, CmpShape(docs, w), CmpRows(w), w.frames # <<>>,
         NEW node, node = ContainerRow(docs, Last(w.frames)), NEW v, AfterEnd(docs, w, node, v)
  PROVE  CmpRows(v)
<1> DEFINE last == Len(w.frames)
           f == w.frames[last]
           key == f.key
           below == IF last = 1 THEN 0 ELSE w.frames[last - 1].id
           row == [below |-> below, key |-> key, node |-> node]
<1>21. last \in Nat \ {0} /\ Last(w.frames) = f /\ w.opened \in Nat
  BY ShapeHasFrames DEF CmpShape
<1>1. last \in Nat \ {0} /\ Last(w.frames) = f /\ w.opened \in Nat /\ last \in 1..last
  <2> HIDE DEF last
  <2> QED
    BY <1>21
<1>2. /\ v.opened = w.opened /\ v.rows = WithRow(w.rows, below, key, node) /\ Len(v.frames) = last - 1
      /\ FramesLeft(w, v.frames, key, node)
  BY <1>1 DEF AfterEnd
<1>3. \A i \in 1..last - 1 :
        /\ v.frames[i].id = w.frames[i].id
        /\ v.frames[i].changed = IF i = last - 1 /\ node.status # "unchanged"
                                 THEN w.frames[i].changed \cup {key} ELSE w.frames[i].changed
  BY <1>2 DEF FramesLeft, SamePlace
<1>4. \A x, k : ChangedBelow(v, x, k) <=> ChangedBelow(w, x, k) \/ (x = below /\ k = key /\ node.status # "unchanged")
  <2>1. BelowToo(w, v, below, key, node)
    <3> HIDE DEF below, key
    <3> QED
      BY <1>2, BelowWithRow
  <2> QED
    BY <2>1 DEF BelowToo
<1>5. \A i \in 1..last : FrameRight(w, i)
  BY RowsRight
<1>6. \A x \in w.rows : RowRight(w, x)
  BY RowsRight
<1>7. /\ node.id = f.id /\ node.status = IF f.changed = {} THEN "unchanged" ELSE "changed"
      /\ node.changedKeys \subseteq f.changed /\ "truncated" \in DOMAIN node
      /\ node.leaf <=> CmpKeys(docs, f.l, f.r) = {}
  <2>1. node = ContainerRow(docs, f)
    BY <1>1
  <2> HIDE DEF f
  <2> QED
    BY <2>1, ContainerRowIs
<1>8. f.changed \subseteq CmpKeys(docs, f.l, f.r)
  BY <1>1 DEF CmpShape
<1>9. v.rows = w.rows \cup {row} /\ row.below = below /\ row.node = node
  BY <1>2 DEF WithRow
<1>10. FrameRight(w, last)
  BY <1>1, <1>5
<1>11. f.id \in 1..w.opened /\ \A k : k \in f.changed <=> ChangedBelow(w, f.id, k)
  BY <1>10 DEF FrameRight
<1>12. \A i \in 1..last : \A j \in 1..last : i < j => w.frames[i].id < w.frames[j].id
  BY <1>5 DEF FrameRight
<1>13. \A i \in 1..last : w.frames[i].id \in 1..w.opened
  BY <1>5 DEF FrameRight
<1>14. \A i \in 1..last - 1 : w.frames[i].id < f.id
  <2>1. \A i \in 1..last - 1 : i \in 1..last /\ i < last
    BY <1>1
  <2> HIDE DEF last
  <2> QED
    BY <1>1, <1>12, <2>1
<1>15. below \in 0..w.opened /\ below # f.id
  <2>1. CASE last = 1
    BY <1>1, <1>11, <2>1
  <2>2. CASE last # 1
    <3>1. last - 1 \in 1..last /\ last - 1 \in 1..last - 1
      <4> HIDE DEF last
      <4> QED
        BY <1>1, <2>2
    <3>2. below = w.frames[last - 1].id
      BY <2>2
    <3>3. below < f.id /\ below \in 1..w.opened
      BY <1>13, <1>14, <3>1, <3>2
    <3> QED
      BY <1>1, <1>11, <3>3
  <2> QED
    BY <2>1, <2>2
<1>16. \A i \in 1..last - 1 : i \in 1..last
  BY <1>1
<1>17. last - 1 \in 1..last - 1 => below = w.frames[last - 1].id
  BY <1>1
<1>18. \A i \in 1..last - 1 : i # last - 1 => w.frames[i].id # below
  <2>1. SUFFICES ASSUME NEW i \in 1..last - 1, i # last - 1 PROVE w.frames[i].id # below
    OBVIOUS
  <2>2. last - 1 \in 1..last /\ i \in 1..last /\ i < last - 1 /\ last - 1 \in 1..last - 1
    BY <1>1, <2>1
  <2>3. below = w.frames[last - 1].id
    BY <1>17, <2>2
  <2>4. w.frames[i].id < below /\ w.frames[i].id \in 1..w.opened
    BY <1>12, <1>13, <2>2, <2>3
  <2> QED
    BY <1>1, <1>15, <2>4
<1> HIDE DEF below, row, key
<1>19. ASSUME NEW i \in 1..last - 1 PROVE FrameRight(v, i)
  <2>1. /\ w.frames[i].id \in 1..w.opened
        /\ \A k : k \in w.frames[i].changed <=> ChangedBelow(w, w.frames[i].id, k)
    BY <1>5, <1>16 DEF FrameRight
  <2>2. \A j \in 1..last - 1 : i < j => v.frames[i].id < v.frames[j].id
    BY <1>3, <1>12, <1>16
  <2>3. ASSUME NEW k
        PROVE  k \in v.frames[i].changed <=> ChangedBelow(v, v.frames[i].id, k)
    <3> HIDE DEF last, f
    <3>1. CASE i = last - 1
      <4>1. w.frames[i].id = below
        BY <1>17, <3>1
      <4>2. v.frames[i].changed = IF node.status # "unchanged" THEN w.frames[i].changed \cup {key}
                                  ELSE w.frames[i].changed
        BY <1>3, <3>1
      <4>3. v.frames[i].id = below
        BY <1>3, <4>1
      <4> QED
        BY <1>4, <2>1, <4>1, <4>2, <4>3
    <3>2. CASE i # last - 1
      <4>1. v.frames[i].changed = w.frames[i].changed /\ v.frames[i].id = w.frames[i].id
        BY <1>3, <3>2
      <4>2. w.frames[i].id # below
        BY <1>18, <3>2
      <4> QED
        BY <1>4, <2>1, <4>1, <4>2
    <3> QED
      BY <3>1, <3>2
  <2> QED
    BY <1>2, <1>3, <2>1, <2>2, <2>3 DEF FrameRight
<1>20. ASSUME NEW x \in v.rows PROVE RowRight(v, x)
  <2>1. CASE x \in w.rows
    <3>1. RowRight(w, x)
      BY <1>6, <2>1
    <3>2. x.node.id # 0 => x.node.id # below
      <4>1. CASE last = 1
        BY <4>1 DEF below
      <4>2. CASE last # 1
        <5>1. last - 1 \in 1..last
          <6> HIDE DEF last
          <6> QED
            BY <1>1, <4>2
        <5> QED
          BY <3>1, <4>2, <5>1 DEF below, RowRight
      <4> QED
        BY <4>1, <4>2
    <3>3. x.node.id # 0 => \A k : ChangedBelow(v, x.node.id, k) <=> ChangedBelow(w, x.node.id, k)
      BY <1>4, <3>2
    <3>4. \A i \in 1..Len(v.frames) : x.node.id # v.frames[i].id
      BY <1>2, <1>3, <1>16, <3>1 DEF RowRight
    <3> QED
      BY <1>2, <3>1, <3>3, <3>4 DEF RowRight
  <2>2. CASE x = row
    <3>1. x.below = below /\ x.node = node
      BY <1>9, <2>2
    <3>2. NodeRight(node)
      BY <1>7, <1>8 DEF NodeRight
    <3>3. \A i \in 1..Len(v.frames) : node.id # v.frames[i].id
      <4>1. \A i \in 1..last - 1 : w.frames[i].id # f.id
        BY <1>1, <1>11, <1>13, <1>14, <1>16
      <4> QED
        BY <1>2, <1>3, <1>7, <4>1
    <3>4. \A k : ChangedBelow(v, node.id, k) <=> k \in f.changed
      BY <1>4, <1>7, <1>11, <1>15
    <3>5. node.id \in 0..w.opened
      BY <1>1, <1>7, <1>11
    <3> QED
      BY <1>2, <1>7, <1>15, <3>1, <3>2, <3>3, <3>4, <3>5 DEF RowRight
  <2> QED
    BY <1>9, <2>1, <2>2
<1> QED
  BY <1>2, <1>19, <1>20, RowsRight

(***************************************************************************)
(* The steps of the walk and of the reader.                                *)
(***************************************************************************)
\* What holds of the walk.
CmpRight(docs, w) == CmpShape(docs, w) /\ CmpCovered(docs, w) /\ CmpCopies(docs, w) /\ CmpRows(w)

(* The row of a key that one side has alone. *)
LEMMA OddStep ==
  ASSUME NEW docs, CmpDocs(docs), NEW w, CmpRight(docs, w), w.frames # <<>>,
         NEW key, key \in Last(w.frames).todo,
         ~(key \in DOMAIN asDict(docs.left, Last(w.frames).l) /\ key \in DOMAIN asDict(docs.right, Last(w.frames).r)),
         NEW node, OddRow(node), node.status \in {"added", "removed"},
         NEW v, v = Reported(w, key, node, {}, {}, {})
  PROVE  CmpRight(docs, v)
<1>1. CmpShape(docs, w) /\ CmpCovered(docs, w) /\ CmpCopies(docs, w) /\ CmpRows(w)
  BY DEF CmpRight
<1>2. AfterRow(docs, w, key, node, {}, {}, {}, v)
  BY <1>1, ReportedIs
<1>3. CmpShape(docs, v)
  BY <1>2 DEF AfterRow
<1>4. CmpCovered(docs, v)
  BY <1>1, OddKeepsCovered
<1>5. CmpCopies(docs, v)
  BY <1>1, OddKeepsCopies
<1>6. node.id = 0 /\ NodeRight(node)
  BY DEF OddRow
<1>7. CmpRows(v)
  BY <1>1, <1>2, <1>6, RowKeepsRows
<1> QED
  BY <1>3, <1>4, <1>5, <1>7 DEF CmpRight

(* The row of a key that both sides have. *)
LEMMA LeafStep ==
  ASSUME NEW docs, CmpDocs(docs), NEW w, CmpRight(docs, w), w.frames # <<>>,
         NEW key, key \in Last(w.frames).todo,
         NEW l, NEW r, l = asDict(docs.left, Last(w.frames).l)[key], r = asDict(docs.right, Last(w.frames).r)[key],
         key \in DOMAIN asDict(docs.left, Last(w.frames).l), key \in DOMAIN asDict(docs.right, Last(w.frames).r),
         NEW node, NEW V, NEW B, NEW C, Accounts(docs, w, l, r, node, V, B, C),
         NEW v, v = Reported(w, key, node, V, B, C)
  PROVE  CmpRight(docs, v)
<1>1. CmpShape(docs, w) /\ CmpCovered(docs, w) /\ CmpCopies(docs, w) /\ CmpRows(w)
  BY DEF CmpRight
<1>2. AfterRow(docs, w, key, node, V, B, C, v)
  BY <1>1, ReportedIs
<1>3. CmpShape(docs, v)
  BY <1>2 DEF AfterRow
<1>4. CmpCovered(docs, v)
  BY <1>1, LeafKeepsCovered
<1>5. CmpCopies(docs, v)
  BY <1>1, <1>2, LeafKeepsCopies
<1>6. node.id = 0 /\ NodeRight(node)
  BY DEF Accounts, OddRow, LeafRow
<1>7. CmpRows(v)
  BY <1>1, <1>2, <1>6, RowKeepsRows
<1> QED
  BY <1>3, <1>4, <1>5, <1>7 DEF CmpRight

(* Going into the containers under a key. *)
LEMMA GoingInStep ==
  ASSUME NEW docs, CmpDocs(docs), NEW w, CmpRight(docs, w), w.frames # <<>>,
         NEW key, key \in Last(w.frames).todo,
         NEW l, NEW r, l = asDict(docs.left, Last(w.frames).l)[key], r = asDict(docs.right, Last(w.frames).r)[key],
         key \in DOMAIN asDict(docs.left, Last(w.frames).l), key \in DOMAIN asDict(docs.right, Last(w.frames).r),
         dereferenceIfRef(docs.left, l).k = dereferenceIfRef(docs.right, r).k,
         dereferenceIfRef(docs.left, l).k # "scalar",
         NEW binary \in BOOLEAN, NEW depth \in Nat,
         NEW V, V = IF l.ref /\ r.ref THEN {<<refVisitKeyOf(l), refVisitKeyOf(r)>>} ELSE {},
         NEW v, v = WentInto(docs, w, key, l, r, binary, depth, V)
  PROVE  CmpRight(docs, v)
<1>1. CmpShape(docs, w) /\ CmpCovered(docs, w) /\ CmpCopies(docs, w) /\ CmpRows(w)
  BY DEF CmpRight
<1>2. l \in Entries(docs.left) /\ r \in Entries(docs.right)
  <2>1. Last(w.frames) \in CmpFrames(docs)
    BY <1>1, ShapeHasFrames
  <2>2. Last(w.frames).l \in Entries(docs.left) /\ Last(w.frames).r \in Entries(docs.right)
    BY <2>1 DEF CmpFrames
  <2> QED
    BY <2>2, KidsAreItems
<1>3. AfterGoingIn(docs, w, key, l, r, V, v)
  BY <1>1, <1>2, WentIntoIs
<1>4. CmpShape(docs, v)
  BY <1>3 DEF AfterGoingIn
<1>5. CmpCovered(docs, v)
  BY <1>1, <1>2, <1>3, GoingInKeepsCovered
<1>6. CmpCopies(docs, v)
  BY <1>1, <1>3, GoingInKeepsCopies
<1>7. CmpRows(v)
  BY <1>1, <1>3, GoingInKeepsRows
<1> QED
  BY <1>4, <1>5, <1>6, <1>7 DEF CmpRight

(* A key of the innermost container. *)
LEMMA EntryStep ==
  ASSUME NEW docs, CmpDocs(docs), NEW w, CmpRight(docs, w), w.frames # <<>>,
         NEW key, key \in Last(w.frames).todo, NEW v, v = diffEntry(docs, w, key)
  PROVE  CmpRight(docs, v)
<1> DEFINE f  == Last(w.frames)
           le == asDict(docs.left, f.l)
           re == asDict(docs.right, f.r)
<1>1. HasFrames(docs, w) /\ f \in CmpFrames(docs)
  BY ShapeHasFrames DEF CmpRight
<1>2. key \in Nat
  BY <1>1 DEF CmpFrames
<1>3. EntryGoes(docs, w, key, v)
  BY <1>1, <1>2, EntryIs
<1>4. CASE /\ ~(key \in DOMAIN le /\ key \in DOMAIN re)
           /\ \E node : /\ OddRow(node) /\ node.status \in {"added", "removed"}
                        /\ v = Reported(w, key, node, {}, {}, {})
  BY <1>4, OddStep
<1>5. CASE key \in DOMAIN le /\ key \in DOMAIN re /\ ChildGoes(docs, w, key, le[key], re[key], v)
  <2> DEFINE l == le[key]
             r == re[key]
             V == IF l.ref /\ r.ref THEN {<<refVisitKeyOf(l), refVisitKeyOf(r)>>} ELSE {}
  <2>1. ASSUME NEW node, NEW W, NEW B, NEW C, Accounts(docs, w, l, r, node, W, B, C),
               v = Reported(w, key, node, W, B, C)
        PROVE  CmpRight(docs, v)
    <3>1. l = asDict(docs.left, Last(w.frames).l)[key] /\ r = asDict(docs.right, Last(w.frames).r)[key]
      OBVIOUS
    <3> HIDE DEF l, r
    <3> QED
      BY <1>5, <2>1, <3>1, LeafStep
  <2>2. ASSUME NEW binary \in BOOLEAN, NEW depth \in Nat,
               dereferenceIfRef(docs.left, l).k = dereferenceIfRef(docs.right, r).k,
               dereferenceIfRef(docs.left, l).k # "scalar",
               v = WentInto(docs, w, key, l, r, binary, depth, V)
        PROVE  CmpRight(docs, v)
    <3>1. l = asDict(docs.left, Last(w.frames).l)[key] /\ r = asDict(docs.right, Last(w.frames).r)[key]
      OBVIOUS
    <3>2. V = IF l.ref /\ r.ref THEN {<<refVisitKeyOf(l), refVisitKeyOf(r)>>} ELSE {}
      OBVIOUS
    <3> HIDE DEF l, r, V
    <3> QED
      BY <1>5, <2>2, <3>1, <3>2, GoingInStep, ZenonT(60)
  <2>3. ChildGoes(docs, w, key, l, r, v)
    BY <1>5
  <2>4. V = IF l.ref /\ r.ref THEN {<<refVisitKeyOf(l), refVisitKeyOf(r)>>} ELSE {}
    OBVIOUS
  <2> HIDE DEF l, r, V
  <2> QED
    BY <2>1, <2>2, <2>3, <2>4 DEF ChildGoes
<1> QED
  BY <1>3, <1>4, <1>5 DEF EntryGoes

(* The end of the innermost container. *)
LEMMA EndStep ==
  ASSUME NEW docs, CmpDocs(docs), NEW w, CmpRight(docs, w), w.frames # <<>>,
         Last(w.frames).todo = {}, NEW v, v = diffEnds(docs, w)
  PROVE  CmpRight(docs, v)
<1> DEFINE node == ContainerRow(docs, Last(w.frames))
<1>1. CmpShape(docs, w) /\ CmpCovered(docs, w) /\ CmpCopies(docs, w) /\ CmpRows(w)
  BY DEF CmpRight
<1>2. node = ContainerRow(docs, Last(w.frames))
  OBVIOUS
<1> HIDE DEF node
<1>3. AfterEnd(docs, w, node, v)
  BY <1>1, <1>2, EndedIs
<1>4. CmpShape(docs, v)
  BY <1>3 DEF AfterEnd
<1>5. CmpCovered(docs, v)
  BY <1>1, <1>3, EndKeepsCovered
<1>6. CmpCopies(docs, v)
  BY <1>1, <1>2, <1>3, EndKeepsCopies
<1>7. CmpRows(v)
  BY <1>1, <1>2, <1>3, EndKeepsRows
<1> QED
  BY <1>4, <1>5, <1>6, <1>7 DEF CmpRight

(* "identical" means that no leaf row counts a difference, and every mark of *)
(* the cap was cleared.                                                      *)
LEMMA IdenticalHasNoDelta ==
  ASSUME NEW docs, NEW w, CmpRows(w), diffIsIdentical(docs, w)
  PROVE  /\ ~HasDelta(w)
         /\ \A x \in w.rows : x.node.truncated => x.node.capRefPair # NoPair /\ x.node.capRefPair \in w.visitedPairs
<1>1. countDelta(w).added = {x \in w.rows : x.node.status = "added"}
  BY DEF countDelta
<1>2. countDelta(w).removed = {x \in w.rows : x.node.status = "removed"}
  BY DEF countDelta
<1>3. countDelta(w).changed = {x \in {y \in w.rows : y.node.status = "changed"} : x.node.leaf}
  BY DEF countDelta
<1>4. countDelta(w).truncatedSubtrees = {x \in w.rows : reconcileTruncation(x.node, w.visitedPairs).truncated}
  BY DEF countDelta
<1>5. /\ countDelta(w).added = {} /\ countDelta(w).removed = {} /\ countDelta(w).changed = {}
      /\ countDelta(w).truncatedSubtrees = {}
  BY DEF diffIsIdentical
<1>6. ~HasDelta(w)
  BY <1>1, <1>2, <1>3, <1>5 DEF HasDelta
<1>7. ASSUME NEW x \in w.rows, x.node.truncated, ~(x.node.capRefPair # NoPair /\ x.node.capRefPair \in w.visitedPairs)
      PROVE  FALSE
  <2> DEFINE node == x.node
             mark == reconcileTruncation(node, w.visitedPairs)
  <2>1. ~mark.truncated
    BY <1>4, <1>5
  <2>2. mark = [node EXCEPT !.truncated = @ /\ ~(node.capRefPair # NoPair /\ node.capRefPair \in w.visitedPairs)]
    BY DEF reconcileTruncation
  <2>3. node.truncated /\ ~(node.capRefPair # NoPair /\ node.capRefPair \in w.visitedPairs)
    BY <1>7
  <2>4. "truncated" \in DOMAIN node
    BY DEF CmpRows, NodeRight
  <2> HIDE DEF node, mark
  <2> QED
    BY <2>1, <2>2, <2>3, <2>4
<1> QED
  BY <1>6, <1>7

(* Where "identical" was said, the entries of a pair that was compared were *)
(* compared too, or are the same references as a pair that was.             *)
LEMMA ReachedIsCompared ==
  ASSUME NEW docs, CmpDocs(docs), NEW w, CmpCovered(docs, w), CmpRows(w), diffIsIdentical(docs, w),
         BackEdgesAligned(docs, w), NEW l \in Entries(docs.left), NEW r \in Entries(docs.right), Reached(w, l, r)
  PROVE  <<l, r>> \in w.compared
<1> DEFINE pair == <<refVisitKeyOf(l), refVisitKeyOf(r)>>
<1>1. GoodDoc(docs.left) /\ GoodDoc(docs.right)
  BY BothAreGood
<1>2. ASSUME pair \in w.visitedPairs PROVE <<l, r>> \in w.compared
  <2>1. PICK c \in w.compared : c[1].ref /\ c[2].ref /\ pair = <<c[1].n, c[2].n>>
    BY <1>2 DEF CmpCovered
  <2>2. c = <<c[1], c[2]>> /\ c[1] \in Entries(docs.left) /\ c[2] \in Entries(docs.right)
    BY DEF CmpCovered
  <2> DEFINE x == c[1]
             y == c[2]
  <2>3. x \in Entries(docs.left) /\ y \in Entries(docs.right) /\ x.ref /\ y.ref
    BY <2>1, <2>2
  <2>4. refVisitKeyOf(l) = x.n /\ refVisitKeyOf(r) = y.n
    BY <2>1
  <2>5. c = <<x, y>>
    BY <2>2
  <2> HIDE DEF x, y
  <2>6. x.n # NoRef /\ y.n # NoRef
    BY <1>1, <2>3 DEF GoodDoc, Entries
  <2>7. l.ref /\ r.ref /\ l.n = x.n /\ r.n = y.n
    BY <2>4, <2>6 DEF refVisitKeyOf
  <2>8. l = x /\ r = y
    BY <2>3, <2>7 DEF Entries
  <2> QED
    BY <2>5, <2>8
<1>3. ASSUME pair = <<docs.left.root, docs.right.root>> PROVE <<l, r>> \in w.compared
  <2>1. refVisitKeyOf(l) = docs.left.root /\ refVisitKeyOf(r) = docs.right.root
    BY <1>3
  <2>2. docs.left.root # NoRef /\ docs.right.root # NoRef
    BY <1>1 DEF GoodDoc
  <2>3. l.ref /\ r.ref /\ l.n = docs.left.root /\ r.n = docs.right.root
    BY <2>1, <2>2 DEF refVisitKeyOf
  <2>4. l = Catalog(docs.left) /\ r = Catalog(docs.right)
    BY <2>3 DEF Catalog, Entries
  <2> QED
    BY <2>4 DEF CmpCovered
<1>4. ASSUME NEW x \in w.rows, x.node.truncated, x.node.capRefPair = IF l.ref /\ r.ref THEN pair ELSE NoPair
      PROVE  pair \in w.visitedPairs
  <2>1. x.node.capRefPair # NoPair /\ x.node.capRefPair \in w.visitedPairs
    BY <1>4, IdenticalHasNoDelta
  <2> QED
    BY <1>4, <2>1
<1>5. pair \in w.backEdges => pair \in w.visitedPairs \/ pair = <<docs.left.root, docs.right.root>>
  BY DEF BackEdgesAligned
<1> HIDE DEF pair
<1> QED
  BY <1>2, <1>3, <1>4, <1>5 DEF Reached, pair

\* The pair at was compared, and what a reader sees of it is the same.
SeenSame(docs, w, at) ==
  /\ at \in w.compared /\ ~Differ(docs, at[1], at[2])
  /\ \A key \in DOMAIN asDict(docs.left, at[1]) \cap DOMAIN asDict(docs.right, at[2]) :
       <<asDict(docs.left, at[1])[key], asDict(docs.right, at[2])[key]>> \in w.compared

(* A pair that was compared where "identical" was said. *)
LEMMA ComparedIsSame ==
  ASSUME NEW docs, CmpDocs(docs), NEW w, CmpCovered(docs, w), CmpRows(w), w.frames = <<>>,
         diffIsIdentical(docs, w), BackEdgesAligned(docs, w), NEW at, at \in w.compared
  PROVE  SeenSame(docs, w, at)
<1> DEFINE l == at[1]
           r == at[2]
<1>1. l \in Entries(docs.left) /\ r \in Entries(docs.right)
  BY DEF CmpCovered
<1>2. ~HasDelta(w)
  BY IdenticalHasNoDelta
<1>3. \A key : ~StillTodo(w, l, r, key)
  BY DEF StillTodo
<1>4. /\ SameSort(docs, l, r) \/ HasDelta(w)
      /\ \A key \in CmpKeys(docs, l, r) : KeyDone(docs, w, l, r, key) \/ StillTodo(w, l, r, key)
  BY DEF CmpCovered
<1> HIDE DEF l, r
<1>5. \A key \in CmpKeys(docs, l, r) :
        /\ key \in DOMAIN asDict(docs.left, l) /\ key \in DOMAIN asDict(docs.right, r)
        /\ Reached(w, asDict(docs.left, l)[key], asDict(docs.right, r)[key])
  BY <1>2, <1>3, <1>4 DEF KeyDone
<1>6. DOMAIN asDict(docs.left, l) = DOMAIN asDict(docs.right, r)
  BY <1>5 DEF CmpKeys
<1>7. ~Differ(docs, l, r)
  BY <1>2, <1>4, <1>6 DEF SameSort, Differ, asDict
<1>8. ASSUME NEW key \in DOMAIN asDict(docs.left, l) \cap DOMAIN asDict(docs.right, r)
      PROVE  <<asDict(docs.left, l)[key], asDict(docs.right, r)[key]>> \in w.compared
  <2> DEFINE x == asDict(docs.left, l)[key]
             y == asDict(docs.right, r)[key]
  <2>1. x \in Entries(docs.left) /\ y \in Entries(docs.right)
    BY <1>1, <1>8, KidsAreItems
  <2>2. Reached(w, x, y)
    BY <1>5, <1>8 DEF CmpKeys
  <2> HIDE DEF x, y
  <2>3. <<x, y>> \in w.compared
    BY <2>1, <2>2, ReachedIsCompared
  <2> QED
    BY <2>3 DEF x, y
<1> QED
  BY <1>7, <1>8 DEF SeenSame, l, r
(***************************************************************************)
(* The catalogs' frame, and the theorems.                                  *)
(***************************************************************************)
\* The walk with the catalogs' frame alone.
AtStart(docs, w) ==
  LET l == Catalog(docs.left)
      r == Catalog(docs.right)
  IN  w = CmpWalk(<<CmpFrame(1, 0, l, r, FALSE, 0, CmpKeys(docs, l, r), {})>>, 1, {}, {}, {}, {<<l, r>>})

(* The walk starts in the catalogs. *)
LEMMA StartIs ==
  ASSUME NEW docs, CmpDocs(docs), NEW w,
         w = diffPresent(docs, DiffStart, 0, Catalog(docs.left), Catalog(docs.right), FALSE, 0)
  PROVE  AtStart(docs, w)
<1> DEFINE l == Catalog(docs.left)
           r == Catalog(docs.right)
           a == dereferenceIfRef(docs.left, l)
           b == dereferenceIfRef(docs.right, r)
           pair == <<l, r>>
           none == {}
           some == {} \cup {pair}
           no == <<>>
           u == [DiffStart EXCEPT !.compared = @ \cup {<<l, r>>}]
           keys == CmpKeys(docs, l, r)
           g == CmpFrame(1, 0, l, r, FALSE, 0, keys, {})
           frames == Append(no, g)
           h == [id |-> DiffStart.opened + 1, key |-> 0, l |-> l, r |-> r,
                 binary |-> FALSE, depth |-> 0, todo |-> keys, changed |-> {}]
<1>1. a.k = "dict" /\ b.k = "dict"
  BY BothAreGood, CatalogIsItem
<1>2. DiffStart = CmpWalk(no, 0, none, none, none, none) /\ DiffStart.opened = 0 /\ DiffStart.compared = none
  <2>1. DiffStart = CmpWalk(no, 0, none, none, none, none)
    BY DEF DiffStart, CmpWalk
  <2> HIDE DEF no, none
  <2> QED
    BY <2>1 DEF CmpWalk
<1>3. w = [u EXCEPT !.opened = @ + 1, !.frames = Append(@, h)]
  BY <1>1 DEF diffPresent, CmpKeys, asDict
<1>4. g = h
  <2>1. DiffStart.opened + 1 = 1
    BY <1>2
  <2> HIDE DEF l, r, keys
  <2> QED
    BY <2>1 DEF CmpFrame
<1>5. u = [DiffStart EXCEPT !.compared = some]
  BY <1>2
<1> HIDE DEF g, h, u, some, none, no, l, r, pair
<1>6. u = CmpWalk(no, 0, none, none, none, some)
  BY <1>2, <1>5 DEF CmpWalk
<1>7. u.opened = 0 /\ u.frames = no
  BY <1>6 DEF CmpWalk
<1>8. w = [[u EXCEPT !.opened = 1] EXCEPT !.frames = frames]
  <2> DEFINE first == u.opened + 1
             more == Append(u.frames, h)
  <2>1. w = [[u EXCEPT !.opened = first] EXCEPT !.frames = more]
    BY <1>3, <1>6 DEF CmpWalk
  <2>2. first = 1 /\ more = frames
    BY <1>4, <1>7
  <2> HIDE DEF first, more, frames
  <2> QED
    BY <2>1, <2>2
<1> HIDE DEF frames
<1>9. [u EXCEPT !.opened = 1] = CmpWalk(no, 1, none, none, none, some)
  BY <1>6 DEF CmpWalk
<1>10. [CmpWalk(no, 1, none, none, none, some) EXCEPT !.frames = frames]
         = CmpWalk(frames, 1, none, none, none, some)
  BY DEF CmpWalk
<1>11. w = CmpWalk(frames, 1, none, none, none, some)
  BY <1>8, <1>9, <1>10
<1>12. frames = <<g>> /\ some = {pair}
  BY DEF frames, no, some
<1>13. w = CmpWalk(<<g>>, 1, {}, {}, {}, {pair})
  BY <1>11, <1>12 DEF none
<1> QED
  BY <1>13 DEF AtStart, g, pair, l, r

(* And everything holds of it. *)
LEMMA StartIsRight ==
  ASSUME NEW docs, CmpDocs(docs), NEW w, AtStart(docs, w)
  PROVE  CmpRight(docs, w)
<1> DEFINE l == Catalog(docs.left)
           r == Catalog(docs.right)
           keys == CmpKeys(docs, l, r)
           g == CmpFrame(1, 0, l, r, FALSE, 0, keys, {})
           frames == <<g>>
           pair == <<l, r>>
<1>1. /\ l \in Entries(docs.left) /\ r \in Entries(docs.right)
      /\ dereferenceIfRef(docs.left, l).k = "dict" /\ dereferenceIfRef(docs.right, r).k = "dict"
      /\ l.n = docs.left.root /\ r.n = docs.right.root /\ l.ref = TRUE /\ r.ref = TRUE
  BY BothAreGood, CatalogIsItem DEF Catalog
<1>2. keys \subseteq Nat
  BY <1>1, KeysAreNumbers
<1>3. w = CmpWalk(frames, 1, {}, {}, {}, {pair})
  BY DEF AtStart
<1>4. /\ g \in CmpFrames(docs) /\ g.id = 1 /\ g.key = 0 /\ g.l = l /\ g.r = r
      /\ g.todo = keys /\ g.changed = {}
  <2> HIDE DEF l, r, keys
  <2> QED
    BY <1>1, <1>2 DEF CmpFrame, CmpFrames
<1> HIDE DEF g
<1>5. frames \in Seq(CmpFrames(docs)) /\ Len(frames) = 1 /\ frames[1] = g
  BY <1>4
<1> HIDE DEF frames
<1>6. /\ w.frames = frames /\ w.opened = 1 /\ w.visitedPairs = {} /\ w.rows = {} /\ w.backEdges = {}
      /\ w.compared = {pair}
      /\ w = CmpWalk(w.frames, w.opened, w.visitedPairs, w.rows, w.backEdges, w.compared)
  <2> HIDE DEF pair
  <2> QED
    BY <1>3 DEF CmpWalk
<1>7. \A i \in 1..Len(w.frames) : i = 1 /\ w.frames[i] = g
  <2>1. \A i \in 1..1 : i = 1
    OBVIOUS
  <2>2. 1..Len(w.frames) = 1..1 /\ w.frames[1] = g
    BY <1>5, <1>6
  <2> QED
    BY <2>1, <2>2
<1>8. CmpShape(docs, w)
  <2>1. g.todo \subseteq CmpKeys(docs, g.l, g.r) /\ g.changed \subseteq CmpKeys(docs, g.l, g.r)
    BY <1>4
  <2> HIDE DEF keys
  <2> QED
    BY <1>5, <1>6, <1>7, <2>1 DEF CmpShape
<1>9. CmpCovered(docs, w)
  <2>1. SameSort(docs, l, r)
    BY <1>1 DEF SameSort
  <2>2. \A key \in keys : StillTodo(w, l, r, key)
    <3>1. 1 \in 1..Len(w.frames) /\ w.frames[1] = g
      BY <1>5, <1>6
    <3> HIDE DEF keys, l, r
    <3> QED
      BY <1>4, <3>1 DEF StillTodo
  <2>3. \A c \in w.compared : c[1] = l /\ c[2] = r
    BY <1>6
  <2> QED
    BY <1>1, <1>6, <2>1, <2>2, <2>3 DEF CmpCovered
<1>10. CmpCopies(docs, w)
  <2>1. ASSUME NEW to \in Numberings(docs), Renumbered(docs, to) PROVE CopyHolds(w, to)
    <3>1. to[docs.left.root] = docs.right.root
      BY <2>1 DEF Renumbered
    <3>2. r = ImageOf(to, l)
      BY <3>1 DEF Catalog, ImageOf
    <3> HIDE DEF l, r
    <3> QED
      BY <1>4, <1>6, <1>7, <3>2 DEF CopyHolds
  <2> QED
    BY <2>1, CopiesHold
<1>11. CmpRows(w)
  <2>1. \A x, k : ~ChangedBelow(w, x, k)
    BY <1>6 DEF ChangedBelow
  <2>2. \A i \in 1..Len(w.frames) : w.frames[i] = g /\ \A j \in 1..Len(w.frames) : ~(i < j)
    BY <1>7
  <2>3. g.id \in 1..w.opened
    BY <1>4, <1>6
  <2> HIDE DEF keys, l, r
  <2> QED
    BY <1>4, <1>6, <2>1, <2>2, <2>3 DEF CmpRows
<1> QED
  BY <1>8, <1>9, <1>10, <1>11 DEF CmpRight

(* DiffInv is that the walk is right and the reader where it was compared. *)
LEMMA DiffInvIs ==
  DiffInv <=> /\ CmpDocs(diffDocs) /\ CmpRight(diffDocs, diffWalk)
              /\ CmpReader(diffDocs, diffWalk, diffAt)
BY DEF DiffInv, CmpRight

(* The walk comes to a container's key, or to its end. *)
LEMMA WalkStep ==
  ASSUME NEW docs, CmpDocs(docs), NEW w, CmpRight(docs, w), w.frames # <<>>, NEW at,
         CmpReader(docs, w, at), NEW v, CmpRight(docs, v)
  PROVE  CmpReader(docs, v, at)
BY DEF CmpReader

(* The reader goes on to a pair that was compared, where back edges are     *)
(* aligned.                                                                 *)
LEMMA ReaderStep ==
  ASSUME NEW docs, CmpDocs(docs), NEW w, CmpRight(docs, w), w.frames = <<>>, diffIsIdentical(docs, w),
         NEW at, CmpReader(docs, w, at),
         NEW key \in DOMAIN asDict(docs.left, at[1]) \cap DOMAIN asDict(docs.right, at[2]),
         NEW next, next = <<asDict(docs.left, at[1])[key], asDict(docs.right, at[2])[key]>>
  PROVE  CmpReader(docs, w, next)
<1>1. CmpCovered(docs, w) /\ CmpRows(w)
  BY DEF CmpRight
<1>2. ASSUME BackEdgesAligned(docs, w) PROVE next \in w.compared
  <2>1. at \in w.compared
    BY <1>1, <1>2 DEF CmpReader, CmpCovered
  <2>2. SeenSame(docs, w, at)
    BY <1>1, <1>2, <2>1, ComparedIsSame
  <2> QED
    BY <2>2 DEF SeenSame
<1> QED
  BY <1>2 DEF CmpReader

(* DiffInv is an invariant of the comparison: every pair that was compared  *)
(* is alike or counted, and every key of it accounted for or still to come, *)
(* so that no back edge, shared pair or cap hides one (diffChild).          *)
THEOREM DiffInductive == DiffSpec => []DiffInv
<1>1. ASSUME DiffInit PROVE DiffInv
  <2>1. CmpDocs(diffDocs)
    BY <1>1 DEF DiffInit, CmpDocs
  <2>2. diffWalk = diffPresent(diffDocs, DiffStart, 0, Catalog(diffDocs.left), Catalog(diffDocs.right), FALSE, 0)
        /\ diffAt = <<Catalog(diffDocs.left), Catalog(diffDocs.right)>>
    BY <1>1 DEF DiffInit, DiffStarts
  <2>3. AtStart(diffDocs, diffWalk)
    BY <2>1, <2>2, StartIs
  <2>4. CmpRight(diffDocs, diffWalk)
    BY <2>1, <2>3, StartIsRight
  <2>5. CmpReader(diffDocs, diffWalk, diffAt)
    BY <2>2 DEF CmpReader
  <2> QED
    BY <2>1, <2>4, <2>5, DiffInvIs
<1>2. ASSUME DiffInv, [DiffNext]_diffVars PROVE DiffInv'
  <2>1. CmpDocs(diffDocs) /\ CmpRight(diffDocs, diffWalk) /\ CmpReader(diffDocs, diffWalk, diffAt)
    BY <1>2, DiffInvIs
  <2>2. ASSUME diffDocs' = diffDocs, CmpRight(diffDocs, diffWalk'), CmpReader(diffDocs, diffWalk', diffAt')
        PROVE  DiffInv'
    <3>1. CmpDocs(diffDocs') /\ CmpRight(diffDocs', diffWalk') /\ CmpReader(diffDocs', diffWalk', diffAt')
      BY <2>1, <2>2
    <3> QED
      BY <3>1 DEF DiffInv, CmpRight
  <2>3. CASE DiffsEntry
    <3>1. PICK key \in Last(diffWalk.frames).todo : diffWalk' = diffEntry(diffDocs, diffWalk, key)
      BY <2>3 DEF DiffsEntry
    <3>2. diffDocs' = diffDocs /\ diffAt' = diffAt /\ diffWalk.frames # <<>>
      BY <2>3 DEF DiffsEntry, Comparing
    <3>3. CmpRight(diffDocs, diffWalk')
      BY <2>1, <3>1, <3>2, EntryStep
    <3>4. CmpReader(diffDocs, diffWalk', diffAt')
      BY <2>1, <3>2, <3>3, WalkStep
    <3> QED
      BY <2>2, <3>2, <3>3, <3>4
  <2>4. CASE DiffsContainer
    <3>1. /\ diffDocs' = diffDocs /\ diffAt' = diffAt /\ diffWalk.frames # <<>>
          /\ Last(diffWalk.frames).todo = {} /\ diffWalk' = diffEnds(diffDocs, diffWalk)
      BY <2>4 DEF DiffsContainer, Comparing
    <3>2. CmpRight(diffDocs, diffWalk')
      BY <2>1, <3>1, EndStep
    <3>3. CmpReader(diffDocs, diffWalk', diffAt')
      BY <2>1, <3>1, <3>2, WalkStep
    <3> QED
      BY <2>2, <3>1, <3>2, <3>3
  <2>5. CASE ReadsOn
    <3>1. /\ diffDocs' = diffDocs /\ diffWalk' = diffWalk /\ diffWalk.frames = <<>>
          /\ diffIsIdentical(diffDocs, diffWalk)
      BY <2>5 DEF ReadsOn, Comparing
    <3>2. PICK key \in DOMAIN asDict(diffDocs.left, diffAt[1]) \cap DOMAIN asDict(diffDocs.right, diffAt[2]) :
            diffAt' = <<asDict(diffDocs.left, diffAt[1])[key], asDict(diffDocs.right, diffAt[2])[key]>>
      BY <2>5 DEF ReadsOn
    <3>3. CmpReader(diffDocs, diffWalk, diffAt')
      BY <2>1, <3>1, <3>2, ReaderStep
    <3>4. CmpRight(diffDocs, diffWalk') /\ CmpReader(diffDocs, diffWalk', diffAt')
      BY <2>1, <3>1, <3>3
    <3> QED
      BY <2>2, <3>1, <3>4
  <2>6. CASE UNCHANGED diffVars
    BY <2>1, <2>2, <2>6 DEF diffVars
  <2> QED
    BY <1>2, <2>3, <2>4, <2>5, <2>6 DEF DiffNext
<1> QED
  BY <1>1, <1>2, PTL DEF DiffSpec

(* "identical" is true. *)
LEMMA IdenticalHolds ==
  ASSUME DiffInv PROVE IdenticalIsTrue
<1>1. CmpDocs(diffDocs) /\ CmpRight(diffDocs, diffWalk) /\ CmpReader(diffDocs, diffWalk, diffAt)
  BY DiffInvIs
<1>2. CmpCovered(diffDocs, diffWalk) /\ CmpRows(diffWalk)
  BY <1>1 DEF CmpRight
<1>3. ASSUME diffWalk.frames = <<>>, diffIsIdentical(diffDocs, diffWalk), BackEdgesAligned(diffDocs, diffWalk)
      PROVE  ~Differ(diffDocs, diffAt[1], diffAt[2])
  <2>1. diffAt \in diffWalk.compared
    BY <1>1, <1>2, <1>3 DEF CmpReader, CmpCovered
  <2>2. SeenSame(diffDocs, diffWalk, diffAt)
    BY <1>1, <1>2, <1>3, <2>1, ComparedIsSame
  <2> QED
    BY <2>2 DEF SeenSame
<1> QED
  BY <1>3 DEF IdenticalIsTrue, Comparing

(* A renumbered copy shows no difference. *)
LEMMA CopiesShowNone ==
  ASSUME DiffInv PROVE NoFalseDelta
<1>1. CmpCopies(diffDocs, diffWalk)
  BY DEF DiffInv
<1>2. \A to \in Numberings(diffDocs) : Renumbered(diffDocs, to) => CopyHolds(diffWalk, to)
  BY <1>1, CopiesHold
<1> QED
  BY <1>2 DEF NoFalseDelta, Numberings, CopyHolds

(* Rows that differ can be told apart. *)
LEMMA RowsAreToldApart ==
  ASSUME DiffInv PROVE RowsTellApart
<1>1. CmpRows(diffWalk)
  BY DEF DiffInv
<1>2. ASSUME NEW x \in diffWalk.rows
      PROVE  /\ x.node.status = "changed" /\ x.node.leaf /\ x.node.left = x.node.right =>
                  \E p \in DOMAIN x.node.left.parts : x.node.left.parts[p] = <<"scalar", "binary">>
             /\ x.node.id # 0 =>
                  /\ x.node.status = "changed"
                       <=> \E y \in diffWalk.rows : y.below = x.node.id /\ y.node.status # "unchanged"
                  /\ \A key \in x.node.changedKeys :
                       \E y \in diffWalk.rows : /\ y.below = x.node.id /\ y.key = key
                                                /\ y.node.status # "unchanged"
  <2>1. /\ NodeRight(x.node)
        /\ x.node.id # 0 =>
             /\ x.node.status = "changed" <=> \E key : ChangedBelow(diffWalk, x.node.id, key)
             /\ \A key \in x.node.changedKeys : ChangedBelow(diffWalk, x.node.id, key)
    BY <1>1 DEF CmpRows
  <2> QED
    BY <2>1 DEF NodeRight, ChangedBelow
<1> QED
  BY <1>2 DEF RowsTellApart

(* The comparison of diffDocuments promises what ComparisonsAreRight says:  *)
(* "identical" is only said of documents that are, where back edges are     *)
(* aligned, a renumbered copy shows no difference, and rows tell apart.     *)
THEOREM ComparisonsSound == DiffSpec => []ComparisonsAreRight
<1>1. DiffInv => ComparisonsAreRight
  BY IdenticalHolds, CopiesShowNone, RowsAreToldApart DEF ComparisonsAreRight
<1> QED
  BY <1>1, DiffInductive, PTL
=============================================================================
