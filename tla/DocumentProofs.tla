-------------------------- MODULE DocumentProofs --------------------------
(***************************************************************************)
(* The page walk of PageTree numbers every page it should, on documents of *)
(* any size and shape, and the signature list of Signatures says what the  *)
(* bytes of the document bear out, whatever happens to its file meanwhile; *)
(* exporting them overwrites neither the document nor one another.  The    *)
(* walk of a number tree loses no key without saying so, on trees of any   *)
(* shape.                                                                  *)
(***************************************************************************)
EXTENDS PageTree, Signatures, SignatureExport, NumberTree, SequenceTheorems, FiniteSetTheorems,
        WellFoundedInduction, TLAPS

(* The stack holds the nodes being visited: depth is its height, onPath its   *)
(* objects, each of which is on it once and counts as walked.                 *)
StackInv ==
    /\ pc = "walk" <=> stack # <<>>
    /\ pc \in {"root", "walk"} => root \in Nodes
    /\ depth = Len(stack)
    /\ \A i \in 1..Len(stack) : stack[i].node \in Objects => stack[i].node \in onPath
    /\ \A o \in onPath : \E i \in 1..Len(stack) : stack[i].node = o
    /\ \A i, j \in 1..Len(stack) :
        stack[i].node \in Objects /\ stack[i].node = stack[j].node => i = j
    /\ \A i \in 1..Len(stack) : IsIntermediate(stack[i].node)
    /\ \A i \in 1..Len(stack) : stack[i].i \in 1..Len(Kids(stack[i].node)) + 1
    /\ onPath \subseteq walked

KidsSeenUpTo(n, k) == \A j \in 1..k : Kids(n)[j] \in Nodes => Kids(n)[j] \in seen

IsListed(n) == \E m \in 1..Len(leaves) : leaves[m].node = n

OnStack(n) == \E i \in 1..Len(stack) : stack[i].node = n

(* What the walk has come to is accounted for: a page is listed, and the kids  *)
(* of an intermediate node have been come to, or still will be.                *)
SeenInv ==
    /\ walked \subseteq seen
    /\ pc = "walk" \/ (pc = "done" /\ ~failed) => root = None \/ root \in seen
    /\ \A i \in 1..Len(stack) : KidsSeenUpTo(stack[i].node, stack[i].i - 1)
    /\ skipped \/ \A n \in seen : IsLeaf(n) => IsListed(n)
    /\ skipped \/ \A n \in seen : IsIntermediate(n) =>
                      OnStack(n) \/ KidsSeenUpTo(n, Len(Kids(n)))

(* The walk only comes to nodes of the page tree. *)
ReachInv ==
    /\ leaves = <<>> \/ root \in Nodes
    /\ \A i \in 1..Len(stack) : stack[i].node \in Reachable
    /\ \A m \in 1..Len(leaves) : leaves[m].node \in Reachable /\ IsLeaf(leaves[m].node)

(* The inductive invariant. *)
IInv == TypeOK /\ StackInv /\ SeenInv /\ ReachInv /\ NumberedInOrder

-----------------------------------------------------------------------------
(* The /Kids array of a node is a sequence, empty when it is no array. *)
LEMMA KidsSeq ==
  ASSUME TypeOK, NEW n \in Nodes
  PROVE  /\ Kids(n) \in Seq(Nodes \cup NotNodes)
         /\ ~IsArray(n) => Kids(n) = <<>>
<1>1. pdf[n] \in Dicts
  BY DEF TypeOK
<1>2. pdf[n].kids \in KidsArrays \/ pdf[n].kids = <<>>
  BY <1>1 DEF Dicts
<1>3. KidsArrays \subseteq Seq(Nodes \cup NotNodes)
  BY SeqDef, BoundsAssumption DEF KidsArrays
<1>4. ~IsArray(n) => Kids(n) = <<>>
  BY <1>1 DEF Dicts, IsArray, Kids
<1>5. <<>> \in Seq(Nodes \cup NotNodes)
  BY EmptySeq
<1>6. Kids(n) \in Seq(Nodes \cup NotNodes)
  BY <1>2, <1>3, <1>5 DEF Kids
<1> QED
  BY <1>4, <1>6

(* A frame of the stack has its types, and its node a sequence of kids. *)
LEMMA FrameFacts ==
  ASSUME TypeOK, NEW i \in 1..Len(stack)
  PROVE  /\ stack[i].node \in Nodes /\ stack[i].i \in Nat /\ stack[i].attrs \in PageAttrs
         /\ Kids(stack[i].node) \in Seq(Nodes \cup NotNodes)
         /\ Len(Kids(stack[i].node)) \in Nat
<1>1. stack[i] \in Frames
  BY ElementOfSeq DEF TypeOK
<1>2. stack[i].node \in Nodes /\ stack[i].i \in Nat /\ stack[i].attrs \in PageAttrs
  BY <1>1 DEF Frames
<1>3. Kids(stack[i].node) \in Seq(Nodes \cup NotNodes)
  BY <1>2, KidsSeq
<1> QED
  BY <1>2, <1>3, LenProperties

(* What the walk is at, and how the stack moves on from it. *)
LEMMA VisitFacts ==
  ASSUME TypeOK, StackInv, pc = "root" \/ AtKid
  PROVE  /\ Visited \in Nodes \cup NotNodes
         /\ Inherited \in PageAttrs
         /\ Advanced \in Seq(Frames) /\ Len(Advanced) = Len(stack)
         /\ \A i \in 1..Len(stack) :
              /\ Advanced[i].node = stack[i].node
              /\ Advanced[i].i = IF i = Len(stack) THEN stack[i].i + 1 ELSE stack[i].i
         /\ AtKid => /\ pc = "walk" /\ Len(stack) \in 1..Len(stack)
                     /\ Top = stack[Len(stack)] /\ Top.i \in 1..Len(Kids(Top.node))
                     /\ Visited = Kids(Top.node)[Top.i]
         /\ pc = "root" => stack = <<>> /\ Visited = root /\ root \in Nodes
<1>0. stack \in Seq(Frames) /\ NoAttrs \in PageAttrs
  BY DEF TypeOK, NoAttrs, PageAttrs
<1>1. CASE pc = "root"
  <2>1. stack = <<>> /\ root \in Nodes
    BY <1>1 DEF StackInv
  <2> QED
    BY <1>0, <1>1, <2>1 DEF Visited, Inherited, Advanced, AtKid
<1>2. CASE AtKid
  <2>1. pc = "walk" /\ stack # <<>> /\ Len(stack) \in 1..Len(stack)
    BY <1>0, <1>2 DEF AtKid, StackInv
  <2>2. Top \in Frames /\ Top = stack[Len(stack)]
    BY <1>0, <2>1 DEF Top
  <2>3. Top.node \in Nodes /\ Top.i \in Nat /\ Top.attrs \in PageAttrs
    BY <2>2 DEF Frames
  <2>4. Kids(Top.node) \in Seq(Nodes \cup NotNodes)
    BY <2>3, KidsSeq
  <2>5. Top.i \in 1..Len(Kids(Top.node))
    BY <1>2, <2>1, <2>2, <2>3, <2>4 DEF AtKid, StackInv
  <2>6. Visited = Kids(Top.node)[Top.i] /\ Visited \in Nodes \cup NotNodes
    BY <2>1, <2>4, <2>5 DEF Visited
  <2>7. Inherited \in PageAttrs
    BY <2>1, <2>3 DEF Inherited
  <2>8. Advanced = [stack EXCEPT ![Len(stack)].i = @ + 1]
    BY <2>1 DEF Advanced
  <2>9. [stack[Len(stack)] EXCEPT !.i = @ + 1] \in Frames
    BY <2>2, <2>3 DEF Frames
  <2>10. Advanced \in Seq(Frames) /\ Len(Advanced) = Len(stack)
    BY <1>0, <2>1, <2>8, <2>9
  <2>11. \A i \in 1..Len(stack) :
              /\ Advanced[i].node = stack[i].node
              /\ Advanced[i].i = IF i = Len(stack) THEN stack[i].i + 1 ELSE stack[i].i
    BY <1>0, <2>1, <2>2, <2>8 DEF Frames
  <2> QED
    BY <2>1, <2>2, <2>5, <2>6, <2>7, <2>10, <2>11
<1> QED
  BY <1>1, <1>2

(* The dictionaries themselves never change, nor does what a node is. *)
LEMMA Rigid ==
  ASSUME pdf' = pdf
  PROVE  /\ \A n : IsLeaf(n)' = IsLeaf(n) /\ IsIntermediate(n)' = IsIntermediate(n)
         /\ \A n : Kids(n)' = Kids(n) /\ HasKids(n)' = HasKids(n)
         /\ root' = root => Reachable' = Reachable
BY DEF IsLeaf, IsIntermediate, Kids, HasKids, Reachable, Closed

(* The root is reachable. *)
LEMMA RootReached ==
  ASSUME root \in Nodes
  PROVE  root \in Reachable
BY DEF Reachable

(* The kids of a reachable intermediate node are reachable. *)
LEMMA KidReached ==
  ASSUME TypeOK, NEW n \in Reachable, IsIntermediate(n), NEW j \in 1..Len(Kids(n)),
         Kids(n)[j] \in Nodes
  PROVE  Kids(n)[j] \in Reachable
<1>1. n \in Nodes /\ DOMAIN Kids(n) = 1..Len(Kids(n))
  BY KidsSeq DEF Reachable
<1> QED
  BY <1>1 DEF Reachable, Closed

(* A node the walk is at is reachable. *)
LEMMA VisitedReached ==
  ASSUME IInv, pc = "root" \/ AtKid, Visited \in Nodes
  PROVE  Visited \in Reachable
<1>1. CASE pc = "root"
  BY <1>1, VisitFacts, RootReached DEF IInv
<1>2. CASE AtKid
  <2>1. Top.node \in Reachable /\ IsIntermediate(Top.node)
    BY <1>2, VisitFacts DEF IInv, ReachInv, StackInv
  <2> QED
    BY <1>2, <2>1, VisitFacts, KidReached DEF IInv
<1> QED
  BY <1>1, <1>2

-----------------------------------------------------------------------------
(* A visit that ends without going down keeps the stack and what is seen in    *)
(* order, as long as it accounts for the node it was at.                       *)
LEMMA ProceedStep ==
  ASSUME IInv, pc = "root" \/ AtKid, Proceeds,
         UNCHANGED <<pdf, root, failed, depth, onPath>>,
         walked \subseteq walked', walked' \subseteq walked \cup ({Visited} \cap Nodes),
         skipped => skipped',
         \A n : IsListed(n) => IsListed(n)',
         \/ skipped'
         \/ Visited \notin Nodes
         \/ /\ \A n : n = Visited /\ IsLeaf(n) => IsListed(n)'
            /\ IsIntermediate(Visited) => Visited \in seen \/ Kids(Visited) = <<>>
  PROVE  StackInv' /\ SeenInv'
<1>0. TypeOK /\ StackInv /\ SeenInv
  BY DEF IInv
<1>1. /\ stack' = Advanced /\ Len(stack') = Len(stack)
      /\ \A i \in 1..Len(stack) :
           /\ stack'[i].node = stack[i].node
           /\ stack'[i].i = IF i = Len(stack) THEN stack[i].i + 1 ELSE stack[i].i
  BY <1>0, VisitFacts DEF Proceeds
<1>2. stack \in Seq(Frames) /\ stack' \in Seq(Frames) /\ Len(stack) \in Nat
  BY <1>0, <1>1, VisitFacts DEF TypeOK
<1>3. seen' = seen \cup ({Visited} \cap Nodes)
  BY DEF Proceeds, Comes
<1>4. /\ \A n : IsLeaf(n)' = IsLeaf(n) /\ IsIntermediate(n)' = IsIntermediate(n)
      /\ \A n : Kids(n)' = Kids(n)
  BY Rigid
<1>5. \A n : OnStack(n)' <=> OnStack(n)
  BY <1>1 DEF OnStack
<1>6. StackInv'
  <2>1. (pc = "walk" <=> stack # <<>>)' /\ (pc \in {"root", "walk"} => root \in Nodes)'
    BY <1>0, <1>1, <1>2, VisitFacts DEF StackInv, Proceeds
  <2>2. \A i \in 1..Len(stack) : stack[i].i \in Nat
    BY <1>0, FrameFacts
  <2>3. \A i \in 1..Len(stack)' : stack'[i].i \in 1..Len(Kids(stack'[i].node)) + 1
    <3>1. SUFFICES ASSUME NEW i \in 1..Len(stack)
                   PROVE  stack'[i].i \in 1..Len(Kids(stack[i].node)) + 1
      BY <1>1
    <3>2. Kids(stack[i].node) \in Seq(Nodes \cup NotNodes)
      BY <1>0, FrameFacts
    <3>3. CASE i = Len(stack)
      <4>1. AtKid
        BY <1>0, <1>2, <3>1, <3>3, VisitFacts
      <4>2. stack[i].i \in 1..Len(Kids(stack[i].node)) /\ stack'[i].i = stack[i].i + 1
        BY <1>0, <1>1, <3>3, <4>1, VisitFacts
      <4> QED
        BY <3>2, <4>2
    <3>4. CASE i # Len(stack)
      BY <1>0, <1>1, <3>4 DEF StackInv
    <3> QED
      BY <3>3, <3>4
  <2>4. (onPath \subseteq walked)' /\ (depth = Len(stack))'
    BY <1>0, <1>1 DEF StackInv
  <2>5. (\A i \in 1..Len(stack) : stack[i].node \in Objects => stack[i].node \in onPath)'
    BY <1>0, <1>1 DEF StackInv
  <2>6. (\A o \in onPath : \E i \in 1..Len(stack) : stack[i].node = o)'
    BY SMTT(60), <1>0, <1>1 DEF StackInv
  <2>7. (\A i, j \in 1..Len(stack) :
            stack[i].node \in Objects /\ stack[i].node = stack[j].node => i = j)'
    <3>1. SUFFICES ASSUME NEW i \in 1..Len(stack), NEW j \in 1..Len(stack),
                          stack[i].node \in Objects, stack[i].node = stack[j].node
                   PROVE  i = j
      BY <1>1
    <3> QED
      BY <1>0, <3>1 DEF StackInv
  <2>8. (\A i \in 1..Len(stack) : IsIntermediate(stack[i].node))'
    BY <1>0, <1>1, <1>4 DEF StackInv
  <2>9. (\A i \in 1..Len(stack) : stack[i].i \in 1..Len(Kids(stack[i].node)) + 1)'
    BY <1>4, <2>3
  <2> QED
    BY <2>1, <2>4, <2>5, <2>6, <2>7, <2>8, <2>9 DEF StackInv
<1>7. SeenInv'
  <2>1. walked' \subseteq seen'
    BY <1>0, <1>3 DEF SeenInv
  <2>2. (pc = "walk" \/ (pc = "done" /\ ~failed) => root = None \/ root \in seen)'
    BY <1>0, <1>3, VisitFacts DEF SeenInv, Proceeds, AtKid
  <2>3. \A n, k : KidsSeenUpTo(n, k) => KidsSeenUpTo(n, k)'
    BY <1>3, <1>4 DEF KidsSeenUpTo
  <2>4. (\A i \in 1..Len(stack) : KidsSeenUpTo(stack[i].node, stack[i].i - 1))'
    <3>1. SUFFICES ASSUME NEW i \in 1..Len(stack), NEW j \in 1..stack'[i].i - 1,
                          Kids(stack[i].node)[j] \in Nodes
                   PROVE  Kids(stack[i].node)[j] \in seen'
      BY <1>1, <1>4 DEF KidsSeenUpTo
    <3>2. stack[i].i \in Nat /\ stack'[i].i \in Nat
      BY <1>0, <1>1, FrameFacts
    <3>3. CASE j \in 1..stack[i].i - 1
      BY <1>0, <1>3, <3>1, <3>3 DEF SeenInv, KidsSeenUpTo
    <3>4. CASE j \notin 1..stack[i].i - 1
      <4>1. i = Len(stack) /\ j = stack[i].i
        BY <1>1, <3>2, <3>4
      <4>2. AtKid /\ Top = stack[i]
        BY <1>0, <1>2, <3>1, <4>1, VisitFacts
      <4>3. Visited = Kids(stack[i].node)[j]
        BY <1>0, <4>1, <4>2, VisitFacts
      <4> QED
        BY <1>3, <3>1, <4>3
    <3> QED
      BY <3>3, <3>4
  <2>5. (skipped \/ \A n \in seen : IsLeaf(n) => IsListed(n))'
    BY <1>0, <1>3, <1>4 DEF SeenInv
  <2>6. (skipped \/ \A n \in seen : IsIntermediate(n) =>
                      OnStack(n) \/ KidsSeenUpTo(n, Len(Kids(n))))'
    <3>1. SUFFICES ASSUME ~skipped', NEW n \in seen', IsIntermediate(n)
                   PROVE  OnStack(n)' \/ KidsSeenUpTo(n, Len(Kids(n)))'
      BY <1>4
    <3>2. CASE n \in seen
      <4>1. OnStack(n) \/ KidsSeenUpTo(n, Len(Kids(n)))
        BY <1>0, <3>1, <3>2 DEF SeenInv
      <4>2. KidsSeenUpTo(n, Len(Kids(n))) => KidsSeenUpTo(n, Len(Kids(n)))'
        BY <1>3, <1>4 DEF KidsSeenUpTo
      <4> QED
        BY <1>5, <4>1, <4>2
    <3>3. CASE n \notin seen
      <4>1. n = Visited /\ Kids(n) = <<>>
        BY <1>3, <3>1, <3>3
      <4> QED
        BY <1>4, <4>1 DEF KidsSeenUpTo
    <3> QED
      BY <3>2, <3>3
  <2> QED
    BY <2>1, <2>2, <2>4, <2>5, <2>6 DEF SeenInv
<1> QED
  BY <1>6, <1>7

(* An unnumbered row leaves the numbering alone. *)
LEMMA RowStep ==
  ASSUME IInv, pc = "root" \/ AtKid, NEW kind \in RowKinds \ {"page"}, AddsRow(kind),
         UNCHANGED <<leaves, next>>
  PROVE  entries' \in Seq(Rows) /\ NumberedInOrder'
<1>1. entries \in Seq(Rows) /\ NumberedInOrder /\ Visited \in Nodes \cup NotNodes
  BY VisitFacts DEF IInv, TypeOK
<1> DEFINE row == Row(kind, Visited, 0, FALSE)
<1>2. row \in Rows /\ row.kind # "page"
  BY <1>1 DEF Rows, Row
<1>3. entries' = Append(entries, row)
  BY DEF AddsRow
<1> HIDE DEF row
<1>4. /\ entries' \in Seq(Rows) /\ Len(entries') = Len(entries) + 1
      /\ \A i \in 1..Len(entries) : entries'[i] = entries[i]
      /\ entries'[Len(entries) + 1] = row
  BY <1>1, <1>2, <1>3
<1>5. DOMAIN entries = 1..Len(entries) /\ DOMAIN entries' = 1..Len(entries) + 1 /\ Len(entries) \in Nat
  BY <1>1, <1>4
<1>6. \A i \in DOMAIN entries' : IsPage(i)' => i \in DOMAIN entries /\ IsPage(i) /\ entries'[i] = entries[i]
  BY <1>2, <1>4, <1>5 DEF IsPage
<1>7. \A i \in DOMAIN entries : i \in DOMAIN entries' /\ entries'[i] = entries[i] /\ (IsPage(i) => IsPage(i)')
  BY <1>4, <1>5 DEF IsPage
<1>8. NumberedInOrder'
  BY <1>1, <1>6, <1>7 DEF NumberedInOrder
<1> QED
  BY <1>4, <1>8

(* A visit that ends with an unnumbered row preserves the invariant. *)
LEMMA ErrorStep ==
  ASSUME IInv, pc = "root" \/ AtKid, NEW kind \in RowKinds \ {"page"}, AddsRow(kind), Proceeds,
         UNCHANGED <<pdf, root, failed, leaves, next, depth, onPath, firstPage>>,
         walked \subseteq walked', walked' \subseteq walked \cup Entered(Visited),
         skipped' \in BOOLEAN, skipped => skipped',
         \/ skipped'
         \/ Visited \notin Nodes
         \/ ~IsLeaf(Visited) /\ (IsIntermediate(Visited) => Visited \in seen \/ Kids(Visited) = <<>>)
  PROVE  IInv'
<1>1. TypeOK /\ StackInv /\ ReachInv
  BY DEF IInv
<1>2. entries' \in Seq(Rows) /\ NumberedInOrder'
  BY RowStep
<1>3. StackInv' /\ SeenInv'
  <2>1. Entered(Visited) \subseteq {Visited} \cap Nodes
    BY DEF Entered, Nodes
  <2>2. \A n : IsListed(n) => IsListed(n)'
    BY DEF IsListed
  <2>3. walked' \subseteq walked \cup ({Visited} \cap Nodes)
    BY <2>1
  <2> QED
    BY <2>2, <2>3, ProceedStep
<1>4. stack' \in Seq(Frames) /\ pc' \in {"start", "root", "walk", "done"} /\ seen' \subseteq Nodes
  BY <1>1, VisitFacts DEF Proceeds, Comes, TypeOK
<1>5. TypeOK'
  BY <1>1, <1>2, <1>4 DEF TypeOK, Entered
<1>6. ReachInv'
  <2>1. Len(stack') = Len(stack) /\ \A i \in 1..Len(stack) : stack'[i].node = stack[i].node
    BY <1>1, VisitFacts DEF Proceeds
  <2>2. Reachable' = Reachable /\ \A n : IsLeaf(n)' = IsLeaf(n)
    BY Rigid
  <2> QED
    BY <1>1, <2>1, <2>2 DEF ReachInv
<1> QED
  BY <1>2, <1>3, <1>5, <1>6 DEF IInv

(* A /Kids entry that is no node gets an unnumbered row. *)
LEMMA KidIsNoNodeStep ==
  ASSUME IInv, KidIsNoNode
  PROVE  IInv'
<1>1. Visited \notin Nodes
  BY NodesAssumption DEF KidIsNoNode, NotNodes
<1> QED
  BY <1>1, ErrorStep DEF KidIsNoNode, ErrorRow, RowKinds, IInv, TypeOK

(* So does an ancestor, which has been come to. *)
LEMMA KidIsAncestorStep ==
  ASSUME IInv, KidIsAncestor
  PROVE  IInv'
<1>1. Visited \in onPath
  BY DEF KidIsAncestor, Ancestor
<1>2. IsIntermediate(Visited) /\ ~IsLeaf(Visited) /\ Visited \in seen
  BY <1>1 DEF IInv, StackInv, SeenInv, IsIntermediate
<1> QED
  BY <1>2, ErrorStep DEF KidIsAncestor, ErrorRow, RowKinds, IInv, TypeOK

(* A /Type /Pages node without /Kids is neither a page nor walked. *)
LEMMA NoKidsStep ==
  ASSUME IInv, NoKids
  PROVE  IInv'
<1>1. ~IsLeaf(Visited) /\ ~IsIntermediate(Visited)
  BY DEF NoKids, IsIntermediate
<1> QED
  BY <1>1, ErrorStep DEF NoKids, AtNode, ErrorRow, RowKinds, IInv, TypeOK

(* A node walked before has been come to. *)
LEMMA SharedNodeStep ==
  ASSUME IInv, SharedNode
  PROVE  IInv'
<1>1. Visited \in seen /\ ~IsLeaf(Visited)
  BY DEF SharedNode, Shared, IInv, SeenInv, IsIntermediate
<1> QED
  BY <1>1, ErrorStep DEF SharedNode, AtNode, ErrorRow, RowKinds, IInv, TypeOK

(* /Kids that is no array has no kids to come to. *)
LEMMA KidsNoArrayStep ==
  ASSUME IInv, KidsNoArray
  PROVE  IInv'
<1>1. Visited \in Nodes /\ ~IsLeaf(Visited) /\ Kids(Visited) = <<>>
  BY KidsSeq DEF KidsNoArray, Fresh, AtNode, IsIntermediate, IInv
<1> QED
  BY <1>1, ErrorStep DEF KidsNoArray, Fresh, AtNode, RowKinds, IInv, TypeOK

(* A subtree below the depth cap is skipped. *)
LEMMA TooDeepStep ==
  ASSUME IInv, TooDeep
  PROVE  IInv'
BY ErrorStep DEF TooDeep, AtNode, Skip, RowKinds, IInv, TypeOK

(* A node that panics is skipped, walked or not. *)
LEMMA NodePanicsStep ==
  ASSUME IInv, NodePanics
  PROVE  IInv'
<1>1. walked \subseteq walked' /\ walked' \subseteq walked \cup Entered(Visited)
  BY DEF NodePanics
<1> QED
  BY <1>1, ErrorStep DEF NodePanics, AtNode, Skip, RowKinds, IInv, TypeOK

-----------------------------------------------------------------------------
(* Attributes are inherited within their type. *)
LEMMA AttrsTyped ==
  ASSUME NEW n \in Nodes, NEW a \in PageAttrs
  PROVE  EffectiveAttrs(n, a) \in PageAttrs /\ NoAttrs \in PageAttrs
<1>1. NoAttrs \in PageAttrs
  BY DEF NoAttrs, PageAttrs
<1>2. EffectiveAttrs(n, a) \in PageAttrs
  BY DEF EffectiveAttrs, PageAttrs
<1> QED
  BY <1>1, <1>2

(* The path to a node is a sequence of nodes. *)
LEMMA PathTyped ==
  ASSUME TypeOK, NEW n \in Nodes
  PROVE  Append(Path, n) \in Seq(Nodes)
<1>1. \A i \in 1..Len(stack) : stack[i].node \in Nodes
  BY FrameFacts
<1>2. Len(stack) \in Nat
  BY DEF TypeOK
<1>3. Path \in Seq(Nodes)
  BY <1>1, <1>2, SeqDef DEF Path
<1> QED
  BY <1>3

(* A page, read or not, gets the next number. *)
LEMMA NumbersStep ==
  ASSUME IInv, AtNode, IsLeaf(Visited), NEW attrs \in PageAttrs, NEW unread \in BOOLEAN,
         NEW again \in BOOLEAN, Numbers(Visited, Leaf(Visited, attrs, unread), again),
         firstPage' \in [Objects -> Nat], UNCHANGED <<pdf, root, failed>>
  PROVE  IInv'
<1> DEFINE leaf == Leaf(Visited, attrs, unread)
           row == Row("page", Visited, next + 1, again)
<1>1. TypeOK /\ StackInv /\ ReachInv /\ NumberedInOrder /\ Visited \in Nodes /\ (pc = "root" \/ AtKid)
  BY DEF IInv, AtNode
<1>2. next = Len(leaves) /\ next \in Nat /\ leaves \in Seq(Leaves) /\ entries \in Seq(Rows)
  BY <1>1 DEF NumberedInOrder, TypeOK
<1>3. leaf \in Leaves /\ leaf.node = Visited
  BY <1>1, PathTyped DEF Leaf, Leaves
<1>4. row \in Rows /\ row.kind = "page" /\ row.node = Visited /\ row.page = next + 1
  BY <1>1, <1>2 DEF Row, Rows, RowKinds
<1>5. leaves' = Append(leaves, leaf) /\ entries' = Append(entries, row) /\ next' = next + 1
  BY DEF Numbers
<1> HIDE DEF leaf, row
<1>6. /\ leaves' \in Seq(Leaves) /\ Len(leaves') = next + 1 /\ leaves'[next + 1] = leaf
      /\ \A m \in 1..next : leaves'[m] = leaves[m]
  BY <1>2, <1>3, <1>5
<1>7. /\ entries' \in Seq(Rows) /\ Len(entries') = Len(entries) + 1
      /\ entries'[Len(entries) + 1] = row
      /\ \A i \in 1..Len(entries) : entries'[i] = entries[i]
  BY <1>2, <1>4, <1>5
<1>8. /\ DOMAIN entries = 1..Len(entries) /\ DOMAIN entries' = 1..Len(entries) + 1
      /\ DOMAIN leaves = 1..next /\ DOMAIN leaves' = 1..next + 1 /\ Len(entries) \in Nat
  BY <1>2, <1>6, <1>7
<1>9. NumberedInOrder'
  <2>1. \A i \in 1..Len(entries) : (IsPage(i)' <=> IsPage(i)) /\ entries'[i] = entries[i]
    BY <1>7 DEF IsPage
  <2>2. \A i : i = Len(entries) + 1 => IsPage(i)' /\ entries'[i].page = next + 1
    BY <1>4, <1>7 DEF IsPage
  <2>3. \A n \in 1..next : \E i \in 1..Len(entries) : IsPage(i) /\ entries[i].page = n
    BY <1>1, <1>8 DEF NumberedInOrder
  <2>4. (\A n \in DOMAIN leaves : \E i \in DOMAIN entries : IsPage(i) /\ entries[i].page = n)'
    <3>1. SUFFICES ASSUME NEW n \in 1..next + 1
                   PROVE  \E i \in 1..Len(entries) + 1 : IsPage(i)' /\ entries'[i].page = n
      BY <1>8
    <3>2. CASE n = next + 1
      BY <1>8, <2>2, <3>2
    <3>3. CASE n # next + 1
      <4>1. n \in 1..next
        BY <1>2, <3>3
      <4>2. PICK i \in 1..Len(entries) : IsPage(i) /\ entries[i].page = n
        BY <2>3, <4>1
      <4> QED
        BY <1>8, <2>1, <4>2
    <3> QED
      BY <3>2, <3>3
  <2>5. \A i \in 1..Len(entries) : IsPage(i) =>
          /\ entries[i].page \in 1..next
          /\ entries[i].node = leaves[entries[i].page].node
          /\ \A j \in 1..Len(entries) : IsPage(j) /\ i < j => entries[i].page < entries[j].page
    BY <1>1, <1>8 DEF NumberedInOrder
  <2>6. \A i \in 1..Len(entries) + 1 : IsPage(i)' =>
          /\ entries'[i].page \in 1..next + 1
          /\ entries'[i].node = leaves'[entries'[i].page].node
    <3>1. SUFFICES ASSUME NEW i \in 1..Len(entries) + 1, IsPage(i)'
                   PROVE  /\ entries'[i].page \in 1..next + 1
                          /\ entries'[i].node = leaves'[entries'[i].page].node
      OBVIOUS
    <3>2. CASE i = Len(entries) + 1
      BY <1>2, <1>3, <1>4, <1>6, <1>7, <3>2
    <3>3. CASE i \in 1..Len(entries)
      BY <1>2, <1>6, <2>1, <2>5, <3>1, <3>3
    <3> QED
      BY <1>8, <3>2, <3>3
  <2>7. \A i, j \in 1..Len(entries) + 1 : IsPage(i)' /\ IsPage(j)' /\ i < j => entries'[i].page < entries'[j].page
    <3>1. SUFFICES ASSUME NEW i \in 1..Len(entries) + 1, NEW j \in 1..Len(entries) + 1,
                          IsPage(i)', IsPage(j)', i < j
                   PROVE  entries'[i].page < entries'[j].page
      OBVIOUS
    <3>2. i \in 1..Len(entries) /\ entries[i].page \in 1..next
      BY <1>8, <2>1, <2>5, <3>1
    <3>3. CASE j = Len(entries) + 1
      BY <1>2, <1>4, <1>7, <3>2, <3>3
    <3>4. CASE j \in 1..Len(entries)
      BY <2>1, <2>5, <3>1, <3>2, <3>4
    <3> QED
      BY <1>8, <3>3, <3>4
  <2> QED
    BY <1>5, <1>6, <1>8, <2>4, <2>6, <2>7 DEF NumberedInOrder
<1>10. \A n : IsListed(n) => IsListed(n)'
  BY <1>2, <1>6 DEF IsListed
<1>11. \A n : n = Visited => IsListed(n)'
  BY <1>2, <1>3, <1>6 DEF IsListed
<1>12. StackInv' /\ SeenInv'
  <2>1. ~IsIntermediate(Visited)
    BY DEF IsIntermediate
  <2> QED
    BY <1>1, <1>10, <1>11, <2>1, ProceedStep DEF Numbers
<1>13. TypeOK'
  <2>1. stack' \in Seq(Frames) /\ pc' \in {"start", "root", "walk", "done"} /\ seen' \subseteq Nodes
    BY <1>1, VisitFacts DEF Numbers, Proceeds, Comes, TypeOK
  <2> QED
    BY <1>1, <1>2, <1>5, <1>6, <1>7, <2>1 DEF TypeOK, Numbers
<1>14. ReachInv'
  <2>1. Len(stack') = Len(stack) /\ \A i \in 1..Len(stack) : stack'[i].node = stack[i].node
    BY <1>1, VisitFacts DEF Numbers, Proceeds
  <2>2. Reachable' = Reachable /\ \A n : IsLeaf(n)' = IsLeaf(n)
    BY Rigid
  <2>3. Visited \in Reachable
    BY <1>1, VisitedReached
  <2>4. \A m \in 1..Len(leaves') : leaves'[m].node \in Reachable /\ IsLeaf(leaves'[m].node)
    <3>1. SUFFICES ASSUME NEW m \in 1..next + 1
                   PROVE  leaves'[m].node \in Reachable /\ IsLeaf(leaves'[m].node)
      BY <1>6
    <3>2. CASE m = next + 1
      BY <1>3, <1>6, <2>3, <3>2
    <3>3. CASE m \in 1..next
      BY <1>1, <1>2, <1>6, <3>3 DEF ReachInv
    <3> QED
      BY <1>2, <3>2, <3>3
  <2>5. root \in Nodes
    BY <1>1 DEF StackInv, AtKid
  <2> QED
    BY <1>1, <2>1, <2>2, <2>4, <2>5 DEF ReachInv
<1> QED
  BY <1>9, <1>12, <1>13, <1>14 DEF IInv

(* The book of first page numbers keeps its type. *)
LEMMA FirstSeenTyped ==
  ASSUME TypeOK, NEW n
  PROVE  FirstSeen(n) \in [Objects -> Nat] /\ Again(n) \in BOOLEAN
BY DEF TypeOK, FirstSeen, Again

(* A page that is read preserves the invariant. *)
LEMMA VisitLeafStep ==
  ASSUME IInv, VisitLeaf
  PROVE  IInv'
<1>1. TypeOK /\ AtNode /\ IsLeaf(Visited) /\ Visited \in Nodes
  BY DEF IInv, VisitLeaf, AtNode
<1>2. EffectiveAttrs(Visited, Inherited) \in PageAttrs
  BY <1>1, VisitFacts, AttrsTyped DEF IInv, AtNode
<1> QED
  BY <1>1, <1>2, FirstSeenTyped, NumbersStep DEF VisitLeaf

(* So does a page whose reading panics. *)
LEMMA LeafPanicsStep ==
  ASSUME IInv, LeafPanics
  PROVE  IInv'
<1>1. TypeOK /\ AtNode /\ IsLeaf(Visited) /\ Visited \in Nodes /\ UNCHANGED <<pdf, root, failed>>
  BY DEF IInv, LeafPanics, AtNode
<1>2. EffectiveAttrs(Visited, Inherited) \in PageAttrs /\ NoAttrs \in PageAttrs
  BY <1>1, VisitFacts, AttrsTyped DEF IInv, AtNode
<1>3. CASE Numbers(Visited, Leaf(Visited, NoAttrs, TRUE), FALSE) /\ UNCHANGED firstPage
  <2>1. firstPage' \in [Objects -> Nat]
    BY <1>1, <1>3 DEF TypeOK
  <2> QED
    BY <1>1, <1>2, <1>3, <2>1, NumbersStep
<1>4. CASE /\ Numbers(Visited, Leaf(Visited, EffectiveAttrs(Visited, Inherited), TRUE), FALSE)
           /\ firstPage' = FirstSeen(Visited)
  BY <1>1, <1>2, <1>4, FirstSeenTyped, NumbersStep
<1> QED
  BY <1>3, <1>4 DEF LeafPanics

-----------------------------------------------------------------------------
(* Going down into a node not walked before. *)
LEMMA DescendStep ==
  ASSUME IInv, Descend
  PROVE  IInv'
<1> DEFINE frame == [node |-> Visited, i |-> 1, attrs |-> EffectiveAttrs(Visited, Inherited)]
<1>1. /\ TypeOK /\ StackInv /\ SeenInv /\ ReachInv /\ NumberedInOrder
      /\ Visited \in Nodes /\ IsIntermediate(Visited) /\ ~IsLeaf(Visited)
      /\ Visited \notin walked /\ depth < MaxDepth /\ (pc = "root" \/ AtKid)
      /\ root \in Nodes
  BY BoundsAssumption DEF IInv, Descend, Fresh, AtNode, AtKid, Shared, Deep, IsIntermediate, TypeOK, StackInv
<1>2. frame \in Frames /\ frame.node = Visited /\ frame.i = 1
  BY <1>1, VisitFacts, AttrsTyped DEF Frames
<1>3. /\ Advanced \in Seq(Frames) /\ Len(Advanced) = Len(stack)
      /\ \A i \in 1..Len(stack) :
           /\ Advanced[i].node = stack[i].node
           /\ Advanced[i].i = IF i = Len(stack) THEN stack[i].i + 1 ELSE stack[i].i
  BY <1>1, VisitFacts
<1>4. stack' = Append(Advanced, frame) /\ pc' = "walk" /\ depth' = depth + 1
  BY DEF Descend
<1> HIDE DEF frame
<1>5. Len(stack) \in Nat /\ depth = Len(stack)
  BY <1>1 DEF TypeOK, StackInv
<1>6. /\ stack' \in Seq(Frames) /\ Len(stack') = Len(stack) + 1
      /\ stack'[Len(stack) + 1].node = Visited /\ stack'[Len(stack) + 1].i = 1
      /\ \A i \in 1..Len(stack) :
           /\ stack'[i].node = stack[i].node
           /\ stack'[i].i = IF i = Len(stack) THEN stack[i].i + 1 ELSE stack[i].i
  BY <1>2, <1>3, <1>4, <1>5
<1>7. \A i \in 1..Len(stack') : i \in 1..Len(stack) \/ i = Len(stack) + 1
  BY <1>5, <1>6
<1>8. /\ walked' = walked \cup Entered(Visited) /\ onPath' = onPath \cup Entered(Visited)
      /\ seen' = seen \cup {Visited}
      /\ UNCHANGED <<pdf, root, failed, entries, leaves, next, firstPage, skipped>>
  BY <1>1 DEF Descend, Comes
<1>9. /\ \A n : IsLeaf(n)' = IsLeaf(n) /\ IsIntermediate(n)' = IsIntermediate(n)
      /\ \A n : Kids(n)' = Kids(n)
      /\ Reachable' = Reachable
  BY <1>8, Rigid
<1>10. Entered(Visited) \subseteq Objects /\ \A o \in Entered(Visited) : o = Visited
  BY DEF Entered
<1>11. \A i \in 1..Len(stack) : AtKid /\ i = Len(stack) =>
           /\ Top = stack[i] /\ stack[i].i \in 1..Len(Kids(stack[i].node))
           /\ Visited = Kids(stack[i].node)[stack[i].i]
  BY <1>1, VisitFacts
<1>12. \A i \in 1..Len(stack) : AtKid
  BY <1>1, <1>5, VisitFacts
<1>13. TypeOK'
  BY <1>1, <1>4, <1>5, <1>6, <1>8, <1>10, BoundsAssumption DEF TypeOK
<1>14. StackInv'
  <2>1. (pc = "walk" <=> stack # <<>>)' /\ (pc \in {"root", "walk"} => root \in Nodes)' /\ (depth = Len(stack))'
    BY <1>1, <1>4, <1>5, <1>6, <1>8
  <2>2. (\A i \in 1..Len(stack) : stack[i].node \in Objects => stack[i].node \in onPath)'
    BY <1>1, <1>6, <1>7, <1>8 DEF StackInv, Entered
  <2>3. (\A o \in onPath : \E i \in 1..Len(stack) : stack[i].node = o)'
    <3>1. SUFFICES ASSUME NEW o \in onPath'
                   PROVE  \E i \in 1..Len(stack) + 1 : stack'[i].node = o
      BY <1>6
    <3>2. CASE o \in onPath
      <4>1. PICK i \in 1..Len(stack) : stack[i].node = o
        BY <1>1, <3>2 DEF StackInv
      <4> QED
        BY <1>5, <1>6, <4>1
    <3>3. CASE o = Visited
      BY <1>5, <1>6, <3>3
    <3> QED
      BY <1>8, <1>10, <3>2, <3>3
  <2>4. (\A i, j \in 1..Len(stack) :
            stack[i].node \in Objects /\ stack[i].node = stack[j].node => i = j)'
    <3>1. \A i \in 1..Len(stack) : stack[i].node \in Objects => stack[i].node # Visited
      BY <1>1 DEF StackInv
    <3> QED
      BY <1>1, <1>6, <1>7, <3>1 DEF StackInv
  <2>5. (\A i \in 1..Len(stack) : IsIntermediate(stack[i].node))'
    BY <1>1, <1>6, <1>7, <1>9 DEF StackInv
  <2>6. (\A i \in 1..Len(stack) : stack[i].i \in 1..Len(Kids(stack[i].node)) + 1)'
    <3>1. SUFFICES ASSUME NEW i \in 1..Len(stack')
                   PROVE  stack'[i].i \in 1..Len(Kids(stack'[i].node)) + 1
      BY <1>9
    <3>2. CASE i = Len(stack) + 1
      <4>1. Len(Kids(Visited)) \in Nat
        BY <1>1, KidsSeq, LenProperties
      <4> QED
        BY <1>6, <3>2, <4>1
    <3>3. CASE i \in 1..Len(stack)
      <4>1. stack[i].i \in 1..Len(Kids(stack[i].node)) + 1
        BY <1>1, <3>3 DEF StackInv
      <4>2. Len(Kids(stack[i].node)) \in Nat
        BY <1>1, <3>3, FrameFacts
      <4> QED
        BY <1>6, <1>11, <1>12, <3>3, <4>1, <4>2
    <3> QED
      BY <1>7, <3>2, <3>3
  <2>7. (onPath \subseteq walked)'
    BY <1>1, <1>8 DEF StackInv
  <2> QED
    BY <2>1, <2>2, <2>3, <2>4, <2>5, <2>6, <2>7 DEF StackInv
<1>15. SeenInv'
  <2>1. walked' \subseteq seen' /\ root \in seen'
    <3>1. walked' \subseteq seen'
      BY <1>1, <1>8, <1>10 DEF SeenInv
    <3>2. CASE pc = "root"
      BY <1>1, <1>8, <3>1, <3>2, VisitFacts
    <3>3. CASE AtKid
      <4>1. root \in seen \/ root = None
        BY <1>1, <3>3 DEF SeenInv, AtKid
      <4>2. root # None
        BY <1>1, <3>3, NodesAssumption DEF StackInv, AtKid
      <4> QED
        BY <1>8, <3>1, <4>1, <4>2
    <3> QED
      BY <1>1, <3>1, <3>2, <3>3
  <2>2. (\A i \in 1..Len(stack) : KidsSeenUpTo(stack[i].node, stack[i].i - 1))'
    <3>1. SUFFICES ASSUME NEW i \in 1..Len(stack'), NEW j \in 1..stack'[i].i - 1,
                          Kids(stack'[i].node)[j] \in Nodes
                   PROVE  Kids(stack'[i].node)[j] \in seen'
      BY <1>9 DEF KidsSeenUpTo
    <3>2. CASE i = Len(stack) + 1
      BY <1>6, <3>1, <3>2
    <3>3. CASE i \in 1..Len(stack)
      <4>1. stack[i].i \in Nat
        BY <1>1, <3>3, FrameFacts
      <4>2. CASE j \in 1..stack[i].i - 1
        BY <1>1, <1>6, <1>8, <3>1, <3>3, <4>2 DEF SeenInv, KidsSeenUpTo
      <4>3. CASE j \notin 1..stack[i].i - 1
        <5>1. i = Len(stack) /\ j = stack[i].i
          BY <1>6, <3>1, <3>3, <4>1, <4>3
        <5> QED
          BY <1>6, <1>8, <1>11, <1>12, <3>3, <5>1
      <4> QED
        BY <4>2, <4>3
    <3> QED
      BY <1>7, <3>2, <3>3
  <2>3. \A n : IsListed(n)' = IsListed(n)
    BY <1>8 DEF IsListed
  <2>4. (skipped \/ \A n \in seen : IsLeaf(n) => IsListed(n))'
    BY <1>1, <1>8, <1>9, <2>3 DEF SeenInv
  <2>5. \A n : OnStack(n) \/ n = Visited => OnStack(n)'
    BY <1>5, <1>6 DEF OnStack
  <2>6. \A n, k : KidsSeenUpTo(n, k) => KidsSeenUpTo(n, k)'
    BY <1>8, <1>9 DEF KidsSeenUpTo
  <2>7. (skipped \/ \A n \in seen : IsIntermediate(n) =>
                      OnStack(n) \/ KidsSeenUpTo(n, Len(Kids(n))))'
    <3>1. SUFFICES ASSUME ~skipped', NEW n \in seen', IsIntermediate(n)
                   PROVE  OnStack(n)' \/ KidsSeenUpTo(n, Len(Kids(n)))'
      BY <1>9
    <3>2. CASE n = Visited
      BY <2>5, <3>2
    <3>3. CASE n \in seen
      <4>1. OnStack(n) \/ KidsSeenUpTo(n, Len(Kids(n)))
        BY <1>1, <1>8, <3>1, <3>3 DEF SeenInv
      <4>2. KidsSeenUpTo(n, Len(Kids(n))) => KidsSeenUpTo(n, Len(Kids(n)))'
        BY <1>8, <1>9 DEF KidsSeenUpTo
      <4> QED
        BY <2>5, <4>1, <4>2
    <3> QED
      BY <1>8, <3>2, <3>3
  <2> QED
    BY <1>8, <2>1, <2>2, <2>4, <2>7 DEF SeenInv
<1>16. ReachInv'
  <2>1. Visited \in Reachable
    BY <1>1, VisitedReached
  <2> QED
    BY <1>1, <1>6, <1>7, <1>8, <1>9, <2>1 DEF ReachInv
<1>17. NumberedInOrder'
  BY <1>1, <1>8 DEF NumberedInOrder, IsPage
<1> QED
  BY <1>13, <1>14, <1>15, <1>16, <1>17 DEF IInv

(* Returning from a node after its last kid. *)
LEMMA ReturnStep ==
  ASSUME IInv, Return
  PROVE  IInv'
<1>1. /\ TypeOK /\ StackInv /\ SeenInv /\ ReachInv /\ NumberedInOrder
      /\ pc = "walk" /\ ~AtKid /\ stack \in Seq(Frames) /\ stack # <<>>
  BY DEF IInv, Return, StackInv, TypeOK
<1>2. Len(stack) \in Nat /\ Len(stack) \in 1..Len(stack) /\ depth = Len(stack)
  BY <1>1 DEF StackInv
<1>3. /\ stack' = SubSeq(stack, 1, Len(stack) - 1) /\ depth' = depth - 1
      /\ onPath' = onPath \ {stack[Len(stack)].node}
      /\ pc' = IF Len(stack) = 1 THEN "done" ELSE "walk"
      /\ UNCHANGED <<pdf, root, failed, seen, entries, leaves, next, walked, firstPage, skipped>>
  BY <1>1 DEF Return, Top
<1>4. /\ stack' \in Seq(Frames) /\ Len(stack') = Len(stack) - 1
      /\ \A i \in 1..Len(stack) - 1 : stack'[i] = stack[i]
  BY <1>1, <1>2, <1>3, SubSeqProperties
<1>5. /\ \A n : IsLeaf(n)' = IsLeaf(n) /\ IsIntermediate(n)' = IsIntermediate(n)
      /\ \A n : Kids(n)' = Kids(n)
      /\ Reachable' = Reachable
  BY <1>3, Rigid
<1>6. \A i \in 1..Len(stack') : i \in 1..Len(stack) /\ i # Len(stack) /\ stack'[i] = stack[i]
  BY <1>2, <1>4
<1>7. TypeOK'
  <2>1. depth' \in 0..MaxDepth /\ onPath' \subseteq Objects /\ pc' \in {"start", "root", "walk", "done"}
    BY <1>1, <1>2, <1>3, BoundsAssumption DEF TypeOK
  <2> QED
    BY <1>1, <1>3, <1>4, <2>1 DEF TypeOK
<1>8. StackInv'
  <2>1. (pc = "walk" <=> stack # <<>>)' /\ (pc \in {"root", "walk"} => root \in Nodes)' /\ (depth = Len(stack))'
    <3>1. stack' = <<>> <=> Len(stack) = 1
      BY <1>2, <1>4, EmptySeq
    <3>2. root \in Nodes
      BY <1>1 DEF StackInv
    <3> QED
      BY <1>2, <1>3, <1>4, <3>1, <3>2
  <2>2. (\A i \in 1..Len(stack) : stack[i].node \in Objects => stack[i].node \in onPath)'
    <3>1. SUFFICES ASSUME NEW i \in 1..Len(stack'), stack'[i].node \in Objects
                   PROVE  stack'[i].node \in onPath'
      OBVIOUS
    <3>2. i \in 1..Len(stack) /\ i # Len(stack) /\ stack'[i] = stack[i]
      BY <1>6
    <3>3. stack[i].node \in onPath /\ stack[i].node # stack[Len(stack)].node
      BY <1>1, <1>2, <3>1, <3>2 DEF StackInv
    <3> QED
      BY <1>3, <3>2, <3>3
  <2>3. (\A o \in onPath : \E i \in 1..Len(stack) : stack[i].node = o)'
    <3>1. SUFFICES ASSUME NEW o \in onPath'
                   PROVE  \E i \in 1..Len(stack') : stack'[i].node = o
      OBVIOUS
    <3>2. PICK i \in 1..Len(stack) : stack[i].node = o
      BY <1>1, <1>3 DEF StackInv
    <3>3. i \in 1..Len(stack')
      BY <1>2, <1>3, <1>4, <3>2
    <3> QED
      BY <1>6, <3>2, <3>3
  <2>4. (\A i, j \in 1..Len(stack) :
            stack[i].node \in Objects /\ stack[i].node = stack[j].node => i = j)'
    BY <1>1, <1>6 DEF StackInv
  <2>5. (\A i \in 1..Len(stack) : IsIntermediate(stack[i].node))'
    BY <1>1, <1>5, <1>6 DEF StackInv
  <2>6. (\A i \in 1..Len(stack) : stack[i].i \in 1..Len(Kids(stack[i].node)) + 1)'
    BY <1>1, <1>5, <1>6 DEF StackInv
  <2>7. (onPath \subseteq walked)'
    BY <1>1, <1>3 DEF StackInv
  <2> QED
    BY <2>1, <2>2, <2>3, <2>4, <2>5, <2>6, <2>7 DEF StackInv
<1>9. SeenInv'
  <2> DEFINE left == stack[Len(stack)].node
  <2>1. KidsSeenUpTo(left, Len(Kids(left)))
    <3>1. stack[Len(stack)].i = Len(Kids(left)) + 1 /\ Len(Kids(left)) \in Nat
      BY <1>1, <1>2, FrameFacts DEF AtKid, Top, StackInv
    <3>2. KidsSeenUpTo(left, stack[Len(stack)].i - 1)
      BY <1>1, <1>2 DEF SeenInv
    <3> QED
      BY <3>1, <3>2 DEF KidsSeenUpTo
  <2>2. \A n, k : KidsSeenUpTo(n, k)' = KidsSeenUpTo(n, k)
    BY <1>3, <1>5 DEF KidsSeenUpTo
  <2>3. \A n : IsListed(n)' = IsListed(n)
    BY <1>3 DEF IsListed
  <2>4. \A n : OnStack(n) => OnStack(n)' \/ n = left
    <3>1. SUFFICES ASSUME NEW n, OnStack(n), n # left
                   PROVE  \E i \in 1..Len(stack') : stack'[i].node = n
      BY DEF OnStack
    <3>2. PICK i \in 1..Len(stack) : stack[i].node = n
      BY <3>1 DEF OnStack
    <3>3. i \in 1..Len(stack')
      BY <1>2, <1>4, <3>1, <3>2
    <3> QED
      BY <1>6, <3>2, <3>3
  <2> HIDE DEF left
  <2>5. (\A i \in 1..Len(stack) : KidsSeenUpTo(stack[i].node, stack[i].i - 1))'
    <3>1. SUFFICES ASSUME NEW i \in 1..Len(stack'), NEW j \in 1..stack'[i].i - 1,
                          Kids(stack'[i].node)[j] \in Nodes
                   PROVE  Kids(stack'[i].node)[j] \in seen'
      BY <1>5 DEF KidsSeenUpTo
    <3> QED
      BY <1>1, <1>3, <1>6, <3>1 DEF SeenInv, KidsSeenUpTo
  <2>6. (skipped \/ \A n \in seen : IsLeaf(n) => IsListed(n))'
    BY <1>1, <1>3, <1>5, <2>3 DEF SeenInv
  <2>7. (skipped \/ \A n \in seen : IsIntermediate(n) =>
                      OnStack(n) \/ KidsSeenUpTo(n, Len(Kids(n))))'
    <3>1. SUFFICES ASSUME ~skipped, NEW n \in seen, IsIntermediate(n)
                   PROVE  OnStack(n)' \/ KidsSeenUpTo(n, Len(Kids(n)))'
      BY <1>3, <1>5
    <3>2. OnStack(n) \/ KidsSeenUpTo(n, Len(Kids(n)))
      BY <1>1, <3>1 DEF SeenInv
    <3>3. KidsSeenUpTo(n, Len(Kids(n)))' = KidsSeenUpTo(n, Len(Kids(n)))
      BY <1>3, <1>5 DEF KidsSeenUpTo
    <3> QED
      BY <2>1, <2>4, <3>2, <3>3
  <2> QED
    BY <1>1, <1>3, <2>5, <2>6, <2>7 DEF SeenInv
<1>10. ReachInv'
  BY <1>1, <1>3, <1>5, <1>6 DEF ReachInv
<1>11. NumberedInOrder'
  BY <1>1, <1>3 DEF NumberedInOrder, IsPage
<1> QED
  BY <1>7, <1>8, <1>9, <1>10, <1>11 DEF IInv

-----------------------------------------------------------------------------
(* Starting the walk, or failing to, and doing nothing. *)
LEMMA StartStep ==
  ASSUME IInv, \/ NoPages \/ WalkFails \/ WalkStarts \/ UNCHANGED vars
  PROVE  IInv'
<1>1. /\ UNCHANGED <<pdf, root, stack, entries, leaves, next, depth, onPath, walked, firstPage, skipped, seen>>
      /\ \/ pc = "start" /\ pc' = "done" /\ (failed' = TRUE \/ root = None) /\ failed' \in BOOLEAN
         \/ pc = "start" /\ pc' = "root" /\ root # None /\ failed' = failed
         \/ UNCHANGED <<pc, failed>>
  BY DEF NoPages, WalkFails, WalkStarts, vars, walker, IInv, TypeOK
<1>2. /\ \A n : IsLeaf(n)' = IsLeaf(n) /\ IsIntermediate(n)' = IsIntermediate(n)
      /\ \A n : Kids(n)' = Kids(n)
      /\ Reachable' = Reachable
  BY <1>1, Rigid
<1>3. TypeOK'
  BY <1>1 DEF IInv, TypeOK
<1>4. StackInv'
  BY <1>1, <1>2 DEF IInv, TypeOK, StackInv
<1>5. SeenInv'
  <2>1. /\ \A n, k : KidsSeenUpTo(n, k)' = KidsSeenUpTo(n, k)
        /\ \A n : IsListed(n)' = IsListed(n) /\ OnStack(n)' = OnStack(n)
    BY <1>1, <1>2 DEF KidsSeenUpTo, IsListed, OnStack
  <2>2. (pc = "walk" \/ (pc = "done" /\ ~failed) => root = None \/ root \in seen)'
    BY <1>1 DEF IInv, SeenInv
  <2>3. (\A i \in 1..Len(stack) : KidsSeenUpTo(stack[i].node, stack[i].i - 1))'
    BY <1>1, <1>2 DEF IInv, SeenInv, KidsSeenUpTo
  <2>4. (skipped \/ \A n \in seen : IsLeaf(n) => IsListed(n))'
    BY <1>1, <1>2, <2>1 DEF IInv, SeenInv
  <2>5. (skipped \/ \A n \in seen : IsIntermediate(n) =>
                      OnStack(n) \/ KidsSeenUpTo(n, Len(Kids(n))))'
    BY <1>1, <1>2 DEF IInv, SeenInv, OnStack, KidsSeenUpTo
  <2> QED
    BY <1>1, <2>2, <2>3, <2>4, <2>5 DEF IInv, SeenInv
<1>6. ReachInv' /\ NumberedInOrder'
  BY <1>1, <1>2 DEF IInv, ReachInv, NumberedInOrder, IsPage
<1> QED
  BY <1>3, <1>4, <1>5, <1>6 DEF IInv

(* The invariant holds when the walk starts. *)
LEMMA InitIInv == Init => IInv
<1>1. SUFFICES ASSUME Init
               PROVE  IInv
  OBVIOUS
<1>2. stack = <<>> /\ entries = <<>> /\ leaves = <<>> /\ Len(<<>>) = 0
  BY <1>1 DEF Init
<1>3. TypeOK
  <2>1. entries \in Seq(Rows) /\ leaves \in Seq(Leaves) /\ stack \in Seq(Frames)
    BY <1>2
  <2>2. depth \in 0..MaxDepth /\ next \in Nat /\ firstPage \in [Objects -> Nat]
    BY <1>1, BoundsAssumption DEF Init
  <2> QED
    BY <1>1, <2>1, <2>2 DEF Init, TypeOK
<1>4. StackInv
  BY <1>1, <1>2 DEF Init, StackInv
<1>5. SeenInv /\ ReachInv
  BY <1>1, <1>2 DEF Init, SeenInv, ReachInv
<1>6. NumberedInOrder
  BY <1>1, <1>2 DEF Init, NumberedInOrder
<1> QED
  BY <1>3, <1>4, <1>5, <1>6 DEF IInv

(* Every step of the walk preserves the invariant. *)
LEMMA NextIInv == IInv /\ [Next]_vars => IInv'
BY StartStep, KidIsNoNodeStep, KidIsAncestorStep, VisitLeafStep, LeafPanicsStep, NoKidsStep,
   TooDeepStep, SharedNodeStep, KidsNoArrayStep, DescendStep, NodePanicsStep, ReturnStep
   DEF Next

(* The invariant is inductive. *)
THEOREM Inductive == Spec => []IInv
BY InitIInv, NextIInv, PTL DEF Spec

(* The walker keeps its types, and never goes deeper than maxPageTreeDepth. *)
THEOREM TypeCorrect == Spec => []TypeOK
<1>1. IInv => TypeOK
  BY DEF IInv
<1> QED
  BY <1>1, Inductive, PTL

(* Page n of the index is the n-th leaf: a page resolves by number exactly    *)
(* when the index lists it, whatever panics on the way.                       *)
THEOREM NumberedCorrectly == Spec => []NumberedInOrder
<1>1. IInv => NumberedInOrder
  BY DEF IInv
<1> QED
  BY <1>1, Inductive, PTL

(* Both together: the walk stays within its bounds and numbers what it lists. *)
THEOREM WalkIsNumbered == Spec => []PagesNumbered
BY TypeCorrect, NumberedCorrectly, PTL DEF PagesNumbered

(* When the walk is over and skipped nothing, what it has come to is closed   *)
(* under kids, so every page the tree reaches is listed.                      *)
LEMMA CompleteAtEnd == IInv => PagesComplete
<1>1. SUFFICES ASSUME IInv
               PROVE  PagesComplete
  OBVIOUS
<1>2. leaves \in Seq(Leaves) /\ DOMAIN leaves = 1..Len(leaves)
  BY <1>1 DEF IInv, TypeOK
<1>3. root = None => leaves = <<>>
  BY <1>1, NodesAssumption DEF IInv, ReachInv
<1>4. CASE root = None
  BY <1>2, <1>3, <1>4 DEF PagesComplete
<1>5. CASE root # None
  <2>1. {leaves[n].node : n \in DOMAIN leaves} \subseteq {n \in Reachable : IsLeaf(n)}
    BY <1>1, <1>2 DEF IInv, ReachInv
  <2>2. ASSUME pc = "done", ~skipped, ~failed, NEW n \in Reachable, IsLeaf(n)
        PROVE  n \in {leaves[m].node : m \in DOMAIN leaves}
    <3>1. stack = <<>> /\ root \in seen /\ seen \in SUBSET Nodes
      BY <1>1, <1>5, <2>2 DEF IInv, StackInv, SeenInv, TypeOK
    <3>2. Closed(seen)
      <4>1. SUFFICES ASSUME NEW k \in seen, IsIntermediate(k), NEW i \in DOMAIN Kids(k),
                            Kids(k)[i] \in Nodes
                     PROVE  Kids(k)[i] \in seen
        BY DEF Closed
      <4>2. KidsSeenUpTo(k, Len(Kids(k)))
        BY <1>1, <2>2, <3>1, <4>1 DEF IInv, SeenInv, OnStack
      <4>3. DOMAIN Kids(k) = 1..Len(Kids(k))
        BY <1>1, <3>1, KidsSeq DEF IInv
      <4> QED
        BY <4>1, <4>2, <4>3 DEF KidsSeenUpTo
    <3>3. n \in seen
      BY <2>2, <3>1, <3>2 DEF Reachable
    <3>4. IsListed(n)
      BY <1>1, <2>2, <3>3 DEF IInv, SeenInv
    <3> QED
      BY <1>2, <3>4 DEF IsListed
  <2> QED
    BY <1>5, <2>1, <2>2 DEF PagesComplete
<1> QED
  BY <1>4, <1>5

(* Unless the walk says that a subtree is missing, every page the tree        *)
(* reaches is numbered, and nothing else is.                                  *)
THEOREM PagesAreComplete == Spec => []PagesComplete
BY CompleteAtEnd, Inductive, PTL

(* A row calls a node an ancestor exactly when the walk is inside it.         *)
THEOREM CycleRowsAreCycles == Spec => []CycleMeansAncestor
<1>1. IInv => CycleMeansAncestor
  <2>1. SUFFICES ASSUME IInv, Visited \in Objects
                 PROVE  Visited \in onPath <=> \E i \in DOMAIN stack : stack[i].node = Visited
    BY DEF CycleMeansAncestor
  <2>2. DOMAIN stack = 1..Len(stack)
    BY <2>1 DEF IInv, TypeOK
  <2> QED
    BY <2>1, <2>2 DEF IInv, StackInv
<1> QED
  BY <1>1, Inductive, PTL

-----------------------------------------------------------------------------
(* What the rows say.                                                      *)

(* Nearest, Blames and AttrsInherited of a document p, one path at a time. *)
NearestIn(p, path, kinds) ==
    LET hits == {i \in DOMAIN path : p[path[i]].own \in kinds}
    IN  IF hits = {} THEN None ELSE path[CHOOSE i \in hits : \A j \in hits : j <= i]

BlamesIn(p, path, kinds) ==
    LET m == NearestIn(p, path, kinds \cup {"value"})
    IN  IF m # None /\ p[m].own \in kinds THEN m ELSE None

AttrsOn(p, path, attrs) ==
    /\ attrs.value = NearestIn(p, path, {"value"})
    /\ attrs.unresolvedAt = BlamesIn(p, path, {"null", "error"})
    /\ attrs.resourcesErr = BlamesIn(p, path, {"error"})

PathIn(st, k) == [i \in 1..k |-> st[i].node]

(* The attributes a frame of the stack hands on are those of its path. *)
AttrsInv ==
    /\ \A i \in 1..Len(stack) : AttrsOn(pdf, PathIn(stack, i), stack[i].attrs)
    /\ \A m \in 1..Len(leaves) : ~leaves[m].unread => AttrsOn(pdf, leaves[m].path, leaves[m].attrs)

(* A page that was read is remembered in firstPage. *)
RepeatInv ==
    /\ \A m \in 1..Len(leaves) :
        leaves[m].node \in Objects /\ ~leaves[m].unread => firstPage[leaves[m].node] # 0
    /\ RepeatsAreMarked

(* The /Kids entries of a document, and the nodes in them. *)
Positions(p) == {at \in Nodes \X (1..MaxKids) : at[2] \in DOMAIN p[at[1]].kids}
KidAt(p, at) == p[at[1]].kids[at[2]]

(* The entries the walk will not come to again: those it has passed in the   *)
(* nodes on the stack, and those of the nodes it has left.                   *)
Used(p, st, wk, sn) ==
    {at \in Positions(p) :
        \/ \E i \in 1..Len(st) : st[i].node = at[1] /\ at[2] < st[i].i
        \/ /\ \A i \in 1..Len(st) : st[i].node # at[1]
           /\ at[1] \in wk \cup (sn \cap Directs)}

UsedNow == Used(pdf, stack, walked, seen)

(* A direct dictionary is in one /Kids array, and the walk comes to it once. *)
DirectsInv ==
    /\ \A d \in Directs : \A at, bt \in Positions(pdf) :
        KidAt(pdf, at) = d /\ KidAt(pdf, bt) = d => at = bt /\ d # root
    /\ \A i \in 1..Len(stack) : stack[i].node \in Directs => stack[i].node \in seen
    /\ \A i, j \in 1..Len(stack) : stack[i].node = stack[j].node => i = j
    /\ \A d \in Directs \cap seen : d = root \/ \E at \in UsedNow : KidAt(pdf, at) = d

RowIndices == {i \in 1..Len(entries) : entries[i].kind # "unread"}
EnteredNodes == {n \in walked : IsArray(n)}

(* Every row and every descent has used up an entry, or the root. *)
CountInv ==
    IF pc \in {"start", "root"}
    THEN entries = <<>> /\ walked = {} /\ seen = {}
    ELSE /\ Len(entries) <= 1 + Cardinality(UsedNow)
         /\ Cardinality(RowIndices) + Cardinality(EnteredNodes) <= 1 + Cardinality(UsedNow)

RowsInv == AttrsInv /\ RepeatInv /\ DirectsInv /\ CountInv

(* A set of natural numbers up to n that is not empty has a greatest one. *)
LEMMA GreatestExists ==
  ASSUME NEW n \in Nat, NEW S \in SUBSET (1..n), S # {}
  PROVE  \E i \in S : \A j \in S : j <= i
<1> DEFINE T == {n - i : i \in S}
<1>1. \A i \in S : i \in 1..n /\ n - i \in Nat
  OBVIOUS
<1>2. T \subseteq Nat
  BY <1>1
<1>3. T # {}
  <2>1. PICK i : i \in S
    OBVIOUS
  <2> QED
    BY <2>1
<1>4. PICK x \in T : \A y \in T : ~ (<<y, x>> \in OpToRel(<, Nat))
  BY <1>2, <1>3, NatLessThanWellFounded, WFMin
<1>5. \A y \in T : y \in Nat /\ x \in Nat /\ ~ (y < x)
  <2>1. SUFFICES ASSUME NEW y \in T, y < x PROVE FALSE
    BY <1>2
  <2>2. <<y, x>> \in OpToRel(<, Nat)
    BY <1>2, <2>1 DEF OpToRel
  <2> QED
    BY <1>4, <2>2
<1>6. PICK i \in S : x = n - i
  OBVIOUS
<1>7. \A j \in S : n - j \in T
  OBVIOUS
<1> HIDE DEF T
<1>8. \A j \in S : j <= i
  BY <1>1, <1>5, <1>6, <1>7
<1> QED
  BY <1>8

(* The nearest node of a path that goes on to n is n, or that of the path. *)
LEMMA NearestAppend ==
  ASSUME NEW path \in Seq(Nodes), NEW n \in Nodes, NEW p, NEW kinds
  PROVE  NearestIn(p, Append(path, n), kinds) =
            IF p[n].own \in kinds THEN n ELSE NearestIn(p, path, kinds)
<1> DEFINE longer == Append(path, n)
           hits == {i \in DOMAIN path : p[path[i]].own \in kinds}
           more == {i \in DOMAIN longer : p[longer[i]].own \in kinds}
           Lowest(S) == CHOOSE i \in S : \A j \in S : j <= i
<1>1. /\ DOMAIN path = 1..Len(path) /\ DOMAIN longer = 1..(Len(path) + 1) /\ Len(path) \in Nat
      /\ \A i \in 1..Len(path) : longer[i] = path[i]
      /\ longer[Len(path) + 1] = n
  OBVIOUS
<1> HIDE DEF longer
<1>2. CASE p[n].own \in kinds
  <2>1. Len(path) + 1 \in more /\ \A j \in more : j \in Nat /\ j <= Len(path) + 1
    BY <1>1, <1>2
  <2>2. Lowest(more) \in more /\ \A j \in more : j <= Lowest(more)
    BY <2>1
  <2>3. Lowest(more) = Len(path) + 1
    BY <2>1, <2>2
  <2>4. NearestIn(p, longer, kinds) = longer[Lowest(more)]
    BY <2>1 DEF NearestIn
  <2> QED
    BY <1>1, <1>2, <2>3, <2>4 DEF longer
<1>3. CASE p[n].own \notin kinds
  <2>1. more = hits
    BY <1>1, <1>3
  <2>2. CASE hits = {}
    BY <1>3, <2>1, <2>2 DEF NearestIn, longer
  <2>3. CASE hits # {}
    <3>1. \E i \in hits : \A j \in hits : j <= i
      BY <1>1, <2>3, GreatestExists
    <3>2. Lowest(hits) \in 1..Len(path)
      BY <1>1, <3>1
    <3>3. NearestIn(p, longer, kinds) = longer[Lowest(hits)] /\ NearestIn(p, path, kinds) = path[Lowest(hits)]
      BY <2>1, <2>3 DEF NearestIn
    <3> QED
      BY <1>1, <1>3, <3>2, <3>3 DEF longer
  <2> QED
    BY <2>2, <2>3
<1> QED
  BY <1>2, <1>3

(* effectiveAttrs hands on what the longer path says. *)
LEMMA EffectiveIsInherited ==
  ASSUME TypeOK, NEW path \in Seq(Nodes), NEW n \in Nodes, NEW inherited \in PageAttrs,
         AttrsOn(pdf, path, inherited)
  PROVE  AttrsOn(pdf, Append(path, n), EffectiveAttrs(n, inherited))
<1> DEFINE own == pdf[n].own
           longer == Append(path, n)
<1>1. own \in {"absent", "value", "null", "error"} /\ n # None
  BY BoundsAssumption, NodesAssumption DEF TypeOK, Dicts
<1>2. \A kinds : NearestIn(pdf, longer, kinds) = IF own \in kinds THEN n ELSE NearestIn(pdf, path, kinds)
  BY NearestAppend
<1> HIDE DEF own, longer
<1>3. \A kinds : "value" \notin kinds =>
        BlamesIn(pdf, longer, kinds) =
          IF own \in kinds THEN n ELSE IF own = "value" THEN None ELSE BlamesIn(pdf, path, kinds)
  <2>1. SUFFICES ASSUME NEW kinds, "value" \notin kinds
                 PROVE  BlamesIn(pdf, longer, kinds) =
                          IF own \in kinds THEN n
                          ELSE IF own = "value" THEN None ELSE BlamesIn(pdf, path, kinds)
    OBVIOUS
  <2>2. NearestIn(pdf, longer, kinds \cup {"value"}) =
          IF own \in kinds \/ own = "value" THEN n ELSE NearestIn(pdf, path, kinds \cup {"value"})
    BY <1>2
  <2> QED
    BY <1>1, <2>1, <2>2 DEF BlamesIn, own
<1>4. EffectiveAttrs(n, inherited) =
        [value |-> IF own = "value" THEN n ELSE inherited.value,
         unresolvedAt |-> IF own = "value" THEN None ELSE IF own = "absent" THEN inherited.unresolvedAt ELSE n,
         resourcesErr |-> IF own = "value" THEN None ELSE IF own = "error" THEN n ELSE inherited.resourcesErr]
  BY <1>1 DEF EffectiveAttrs, own
<1>5. /\ NearestIn(pdf, longer, {"value"}) = IF own = "value" THEN n ELSE inherited.value
      /\ BlamesIn(pdf, longer, {"null", "error"}) =
           IF own = "value" THEN None ELSE IF own = "absent" THEN inherited.unresolvedAt ELSE n
      /\ BlamesIn(pdf, longer, {"error"}) =
           IF own = "value" THEN None ELSE IF own = "error" THEN n ELSE inherited.resourcesErr
  BY <1>1, <1>2, <1>3 DEF AttrsOn
<1> QED
  BY <1>4, <1>5 DEF AttrsOn, longer

(* Nothing is inherited at the root. *)
LEMMA NothingInherited ==
  ASSUME NEW p
  PROVE  AttrsOn(p, <<>>, NoAttrs)
BY DEF AttrsOn, NoAttrs, NearestIn, BlamesIn

-----------------------------------------------------------------------------
(* The kinds of steps.                                                     *)

(* A visit that ends with a row and no page number. *)
ErrorVisit(kind) ==
    /\ pc = "root" \/ AtKid
    /\ AddsRow(kind)
    /\ \/ walked' = walked
       \/ /\ Fresh /\ walked' = walked \cup Entered(Visited)
          /\ kind = "unread" \/ ~IsArray(Visited)
    /\ Proceeds
    /\ UNCHANGED <<pdf, root, leaves, next, firstPage>>

(* A visit that numbers a page. *)
LeafVisit(attrs, unread, again) ==
    /\ AtNode
    /\ Numbers(Visited, Leaf(Visited, attrs, unread), again)
    /\ attrs \in PageAttrs /\ unread \in BOOLEAN /\ again \in BOOLEAN
    /\ ~unread => /\ attrs = EffectiveAttrs(Visited, Inherited)
                  /\ again = Again(Visited) /\ firstPage' = FirstSeen(Visited)
    /\ firstPage' \in {firstPage, FirstSeen(Visited)}
    /\ UNCHANGED <<pdf, root>>

(* A step that is no visit, or none at all. *)
Pauses ==
    /\ pc' = pc \/ (pc = "start" /\ pc' \in {"root", "done"})
    /\ UNCHANGED <<pdf, root, stack, entries, leaves, next, walked, firstPage, seen>>

(* The attributes in effect at a node have their type. *)
LEMMA EffectiveType ==
  ASSUME TypeOK, NEW n \in Nodes, NEW inherited \in PageAttrs
  PROVE  EffectiveAttrs(n, inherited) \in PageAttrs
BY DEF EffectiveAttrs, PageAttrs

(* Every step is one of these, a descent or a return. *)
LEMMA StepKinds ==
  ASSUME IInv, [Next]_vars
  PROVE  \/ \E kind \in RowKinds \ {"page"} : ErrorVisit(kind)
         \/ \E attrs, unread, again : LeafVisit(attrs, unread, again)
         \/ Descend
         \/ Return
         \/ Pauses
<1>1. TypeOK /\ StackInv
  BY DEF IInv
<1>2. CASE NoPages \/ WalkFails \/ WalkStarts \/ UNCHANGED vars
  BY <1>2 DEF NoPages, WalkFails, WalkStarts, vars, walker, Pauses
<1>3. CASE KidIsNoNode
  BY <1>3 DEF KidIsNoNode, ErrorRow, ErrorVisit, RowKinds
<1>4. CASE KidIsAncestor
  BY <1>4 DEF KidIsAncestor, ErrorRow, ErrorVisit, RowKinds
<1>5. CASE NoKids
  BY <1>5 DEF NoKids, AtNode, ErrorRow, ErrorVisit, RowKinds
<1>6. CASE TooDeep
  BY <1>6 DEF TooDeep, AtNode, Skip, ErrorVisit, RowKinds
<1>7. CASE SharedNode
  BY <1>7 DEF SharedNode, AtNode, ErrorRow, ErrorVisit, RowKinds
<1>8. CASE KidsNoArray
  <2>1. ErrorVisit("kidsNoArray")
    BY <1>8 DEF KidsNoArray, Fresh, AtNode, ErrorVisit
  <2> QED
    BY <2>1 DEF RowKinds
<1>9. CASE NodePanics
  <2>1. ErrorVisit("unread")
    BY <1>9 DEF NodePanics, Fresh, AtNode, Skip, ErrorVisit
  <2> QED
    BY <2>1 DEF RowKinds
<1>10. CASE VisitLeaf
  <2>1. Inherited \in PageAttrs /\ Visited \in Nodes
    BY <1>1, <1>10, VisitFacts DEF VisitLeaf, AtNode
  <2>2. EffectiveAttrs(Visited, Inherited) \in PageAttrs /\ Again(Visited) \in BOOLEAN
    BY <1>1, <2>1, EffectiveType DEF Again
  <2>3. LeafVisit(EffectiveAttrs(Visited, Inherited), FALSE, Again(Visited))
    BY <1>10, <2>2 DEF VisitLeaf, LeafVisit
  <2> QED
    BY <2>3
<1>11. CASE LeafPanics
  <2>1. Inherited \in PageAttrs /\ Visited \in Nodes
    BY <1>1, <1>11, VisitFacts DEF LeafPanics, AtNode
  <2>2. EffectiveAttrs(Visited, Inherited) \in PageAttrs /\ NoAttrs \in PageAttrs
    BY <1>1, <2>1, EffectiveType DEF NoAttrs, PageAttrs
  <2>3. \/ LeafVisit(NoAttrs, TRUE, FALSE)
        \/ LeafVisit(EffectiveAttrs(Visited, Inherited), TRUE, FALSE)
    BY <1>11, <2>2 DEF LeafPanics, LeafVisit
  <2> QED
    BY <2>3
<1> QED
  BY <1>2, <1>3, <1>4, <1>5, <1>6, <1>7, <1>8, <1>9, <1>10, <1>11 DEF Next

-----------------------------------------------------------------------------
(* The stack moves on with its attributes, and its paths stay. *)
LEMMA AdvancedAttrs ==
  ASSUME TypeOK, StackInv, pc = "root" \/ AtKid
  PROVE  /\ \A i \in 1..Len(stack) : Advanced[i].attrs = stack[i].attrs
         /\ \A i \in 0..Len(stack) : PathIn(Advanced, i) = PathIn(stack, i)
<1>1. stack \in Seq(Frames) /\ \A i \in 1..Len(stack) : Advanced[i].node = stack[i].node
  BY VisitFacts DEF TypeOK
<1>2. \A i \in 1..Len(stack) : Advanced[i].attrs = stack[i].attrs
  <2>1. CASE pc = "root"
    BY <2>1 DEF Advanced
  <2>2. CASE AtKid
    <3>1. Advanced = [stack EXCEPT ![Len(stack)].i = @ + 1] /\ Len(stack) \in 1..Len(stack)
      BY <2>2, VisitFacts DEF Advanced, AtKid
    <3> QED
      BY <1>1, <3>1 DEF Frames
  <2> QED
    BY <2>1, <2>2
<1>3. \A i \in 0..Len(stack) : PathIn(Advanced, i) = PathIn(stack, i)
  BY <1>1 DEF PathIn
<1> QED
  BY <1>2, <1>3

(* The attributes the visited node inherits are those of the path to it. *)
LEMMA InheritedOn ==
  ASSUME IInv, AttrsInv, pc = "root" \/ AtKid
  PROVE  /\ Path \in Seq(Nodes) /\ Path = PathIn(stack, Len(stack)) /\ Inherited \in PageAttrs
         /\ AttrsOn(pdf, Path, Inherited)
<1>1. TypeOK /\ StackInv /\ stack \in Seq(Frames) /\ Len(stack) \in Nat
  BY DEF IInv, TypeOK
<1>2. Path = PathIn(stack, Len(stack))
  BY DEF Path, PathIn
<1>3. \A i \in 1..Len(stack) : stack[i].node \in Nodes
  BY <1>1, FrameFacts
<1>4. Path \in Seq(Nodes)
  BY <1>1, <1>3, SeqDef DEF Path
<1>5. Inherited \in PageAttrs
  BY <1>1, VisitFacts
<1>6. AttrsOn(pdf, Path, Inherited)
  <2>1. CASE pc = "root"
    <3>1. stack = <<>> /\ Inherited = NoAttrs
      BY <1>1, <2>1 DEF StackInv, Inherited
    <3>2. Path = <<>>
      BY <1>1, <1>4, <3>1, EmptySeq DEF Path
    <3> QED
      BY <3>1, <3>2, NothingInherited
  <2>2. CASE AtKid
    <3>1. Len(stack) \in 1..Len(stack) /\ Inherited = stack[Len(stack)].attrs
      BY <1>1, <2>2, VisitFacts DEF Inherited, AtKid
    <3> QED
      BY <1>2, <3>1 DEF AttrsInv
  <2> QED
    BY <2>1, <2>2
<1> QED
  BY <1>2, <1>4, <1>5, <1>6

(* The stack without its last frame. *)
LEMMA FrontOfStack ==
  ASSUME NEW st \in Seq(Frames), st # <<>>
  PROVE  /\ Len(st) \in 1..Len(st) /\ Len(SubSeq(st, 1, Len(st) - 1)) = Len(st) - 1
         /\ \A i \in 1..Len(st) - 1 : SubSeq(st, 1, Len(st) - 1)[i] = st[i]
<1>1. Len(st) \in 1..Len(st) /\ Len(st) \in Nat
  BY EmptySeq
<1>2. \A i \in 1..Len(st) - 1 : st[i] \in Frames
  BY <1>1, ElementOfSeq
<1>3. PICK n \in Nat : n = Len(st) - 1
  BY <1>1
<1>4. 1 \in Int /\ n \in Int /\ \A i \in 1..n : st[i] \in Frames
  BY <1>2, <1>3
<1>5. /\ Len(SubSeq(st, 1, n)) = IF 1 <= n THEN n - 1 + 1 ELSE 0
      /\ \A i \in 1..n - 1 + 1 : SubSeq(st, 1, n)[i] = st[1 + i - 1]
  BY <1>4, SubSeqProperties
<1>6. Len(SubSeq(st, 1, n)) = n /\ \A i \in 1..n : SubSeq(st, 1, n)[i] = st[i]
  BY <1>3, <1>5
<1> QED
  BY <1>1, <1>3, <1>6

(* Every step keeps AttrsInv. *)
LEMMA AttrsStep ==
  ASSUME IInv, AttrsInv, [Next]_vars
  PROVE  AttrsInv'
<1>1. TypeOK /\ StackInv /\ stack \in Seq(Frames) /\ leaves \in Seq(Leaves) /\ Len(stack) \in Nat
  BY DEF IInv, TypeOK
<1>2. CASE \E kind \in RowKinds \ {"page"} : ErrorVisit(kind)
  <2>1. /\ pc = "root" \/ AtKid
        /\ UNCHANGED <<pdf, leaves>> /\ stack' = Advanced
    BY <1>2 DEF ErrorVisit, Proceeds
  <2>2. Len(stack') = Len(stack)
    BY <1>1, <2>1, VisitFacts
  <2>3. \A i \in 1..Len(stack) : stack'[i].attrs = stack[i].attrs /\ PathIn(stack', i) = PathIn(stack, i)
    BY <1>1, <2>1, AdvancedAttrs
  <2> QED
    BY <2>1, <2>2, <2>3 DEF AttrsInv
<1>3. ASSUME NEW attrs, NEW unread, NEW again, LeafVisit(attrs, unread, again)
      PROVE  AttrsInv'
  <2>1. /\ pc = "root" \/ AtKid
        /\ Visited \in Nodes /\ pdf' = pdf /\ stack' = Advanced
        /\ leaves' = Append(leaves, Leaf(Visited, attrs, unread))
    BY <1>3 DEF LeafVisit, AtNode, Numbers, Proceeds
  <2>2. Len(stack') = Len(stack)
    BY <1>1, <2>1, VisitFacts
  <2>3. \A i \in 1..Len(stack) : stack'[i].attrs = stack[i].attrs /\ PathIn(stack', i) = PathIn(stack, i)
    BY <1>1, <2>1, AdvancedAttrs
  <2>4. ~unread => AttrsOn(pdf, Append(Path, Visited), attrs)
    BY <1>1, <1>3, <2>1, InheritedOn, EffectiveIsInherited DEF LeafVisit
  <2>5. PICK leaf : leaf = Leaf(Visited, attrs, unread)
    OBVIOUS
  <2>6. leaf.unread = unread /\ leaf.path = Append(Path, Visited) /\ leaf.attrs = attrs
    BY <2>5 DEF Leaf
  <2>7. /\ Len(leaves') = Len(leaves) + 1 /\ leaves'[Len(leaves) + 1] = leaf /\ Len(leaves) \in Nat
        /\ \A m \in 1..Len(leaves) : leaves'[m] = leaves[m]
    BY <1>1, <2>1, <2>5
  <2>8. \A m \in 1..Len(leaves') : ~leaves'[m].unread => AttrsOn(pdf, leaves'[m].path, leaves'[m].attrs)
    <3>1. SUFFICES ASSUME NEW m \in 1..Len(leaves'), ~leaves'[m].unread
                   PROVE  AttrsOn(pdf, leaves'[m].path, leaves'[m].attrs)
      OBVIOUS
    <3>2. CASE m = Len(leaves) + 1
      BY <2>4, <2>6, <2>7, <3>1, <3>2
    <3>3. CASE m \in 1..Len(leaves)
      BY <2>7, <3>1, <3>3 DEF AttrsInv
    <3> QED
      BY <2>7, <3>2, <3>3
  <2>9. \A i \in 1..Len(stack') : AttrsOn(pdf, PathIn(stack', i), stack'[i].attrs)
    BY <2>2, <2>3 DEF AttrsInv
  <2> QED
    BY <2>1, <2>8, <2>9 DEF AttrsInv
<1>4. CASE Descend
  <2>1. /\ pc = "root" \/ AtKid
        /\ Visited \in Nodes /\ UNCHANGED <<pdf, leaves>>
        /\ stack' = Append(Advanced, [node |-> Visited, i |-> 1, attrs |-> EffectiveAttrs(Visited, Inherited)])
    BY <1>4 DEF Descend, Fresh, AtNode
  <2>2. Advanced \in Seq(Frames) /\ Len(Advanced) = Len(stack)
    BY <1>1, <2>1, VisitFacts
  <2>3. /\ Len(stack') = Len(stack) + 1
        /\ \A i \in 1..Len(stack) : stack'[i] = Advanced[i]
        /\ stack'[Len(stack) + 1] = [node |-> Visited, i |-> 1, attrs |-> EffectiveAttrs(Visited, Inherited)]
    BY <1>1, <2>1, <2>2
  <2>4. \A i \in 1..Len(stack) : stack'[i].attrs = stack[i].attrs /\ stack'[i].node = stack[i].node
    BY <1>1, <2>1, <2>3, VisitFacts, AdvancedAttrs
  <2>5. \A i \in 0..Len(stack) : PathIn(stack', i) = PathIn(stack, i)
    BY <2>4 DEF PathIn
  <2>6. PathIn(stack', Len(stack) + 1) = Append(Path, Visited)
    <3>1. Path \in Seq(Nodes) /\ Len(Path) = Len(stack) /\ \A i \in 1..Len(stack) : Path[i] = stack[i].node
      BY <1>1, <2>1, InheritedOn DEF Path
    <3>2. /\ DOMAIN Append(Path, Visited) = 1..Len(stack) + 1
          /\ \A i \in 1..Len(stack) + 1 : Append(Path, Visited)[i] = stack'[i].node
      BY <1>1, <2>3, <2>4, <3>1
    <3>3. Append(Path, Visited) \in Seq(Nodes) /\ Len(Append(Path, Visited)) = Len(stack) + 1
      BY <2>1, <3>1
    <3>4. /\ PathIn(stack', Len(stack) + 1) \in Seq(Nodes)
          /\ Len(PathIn(stack', Len(stack) + 1)) = Len(stack) + 1
      <4>1. \A i \in 1..Len(stack) + 1 : stack'[i].node \in Nodes
        BY <3>2, <3>3
      <4> QED
        BY <1>1, <4>1 DEF PathIn
    <3>5. \A i \in 1..Len(stack) + 1 : PathIn(stack', Len(stack) + 1)[i] = stack'[i].node
      BY DEF PathIn
    <3> QED
      BY <3>2, <3>3, <3>4, <3>5, SeqEqual
  <2>7. AttrsOn(pdf, Append(Path, Visited), EffectiveAttrs(Visited, Inherited))
    BY <1>1, <2>1, InheritedOn, EffectiveIsInherited
  <2>8. \A i \in 1..Len(stack') : AttrsOn(pdf, PathIn(stack', i), stack'[i].attrs)
    <3>1. SUFFICES ASSUME NEW i \in 1..Len(stack')
                   PROVE  AttrsOn(pdf, PathIn(stack', i), stack'[i].attrs)
      OBVIOUS
    <3>2. CASE i = Len(stack) + 1
      <4>1. stack'[i].attrs = EffectiveAttrs(Visited, Inherited)
        BY <2>3, <3>2
      <4>2. PathIn(stack', i) = Append(Path, Visited)
        BY <2>6, <3>2
      <4> QED
        BY <2>7, <4>1, <4>2
    <3>3. CASE i \in 1..Len(stack)
      <4>1. AttrsOn(pdf, PathIn(stack, i), stack[i].attrs)
        BY <3>3 DEF AttrsInv
      <4>2. PathIn(stack', i) = PathIn(stack, i) /\ stack'[i].attrs = stack[i].attrs
        BY <1>1, <2>4, <2>5, <3>3
      <4> QED
        BY <4>1, <4>2
    <3>4. i = Len(stack) + 1 \/ i \in 1..Len(stack)
      BY <1>1, <2>3
    <3> QED
      BY <3>2, <3>3, <3>4
  <2> QED
    BY <2>1, <2>8 DEF AttrsInv
<1>5. CASE Return
  <2>1. stack' = SubSeq(stack, 1, Len(stack) - 1) /\ UNCHANGED <<pdf, leaves>> /\ stack # <<>>
    BY <1>1, <1>5 DEF Return, StackInv
  <2>2. Len(stack') = Len(stack) - 1 /\ \A i \in 1..Len(stack) - 1 : stack'[i] = stack[i]
    BY <1>1, <2>1, FrontOfStack
  <2>3. \A i \in 1..Len(stack') : i \in 1..Len(stack) /\ stack'[i] = stack[i] /\ PathIn(stack', i) = PathIn(stack, i)
    BY <1>1, <2>2 DEF PathIn
  <2> QED
    BY <2>1, <2>3 DEF AttrsInv
<1>6. CASE Pauses
  BY <1>6 DEF Pauses, AttrsInv
<1> QED
  BY <1>2, <1>3, <1>4, <1>5, <1>6, StepKinds

-----------------------------------------------------------------------------
(* Every step keeps RepeatInv. *)
LEMMA RepeatStep ==
  ASSUME IInv, RepeatInv, [Next]_vars
  PROVE  RepeatInv'
<1>1. /\ TypeOK /\ NumberedInOrder /\ RepeatsAreMarked
      /\ entries \in Seq(Rows) /\ leaves \in Seq(Leaves) /\ next = Len(leaves)
      /\ DOMAIN entries = 1..Len(entries) /\ DOMAIN leaves = 1..Len(leaves)
      /\ Len(entries) \in Nat /\ Len(leaves) \in Nat /\ firstPage \in [Objects -> Nat]
  BY DEF IInv, TypeOK, RepeatInv, NumberedInOrder
<1>2. ASSUME NEW kind \in RowKinds \ {"page"}, ErrorVisit(kind)
      PROVE  RepeatInv'
  <2>1. UNCHANGED <<leaves, firstPage>> /\ entries' = Append(entries, Row(kind, Visited, 0, FALSE))
    BY <1>2 DEF ErrorVisit, AddsRow
  <2>2. /\ Len(entries') = Len(entries) + 1 /\ DOMAIN entries' = 1..Len(entries) + 1
        /\ \A i \in 1..Len(entries) : entries'[i] = entries[i]
        /\ entries'[Len(entries) + 1].kind = kind
    BY <1>1, <2>1 DEF Row
  <2>3. \A i \in DOMAIN entries' : IsPage(i)' => i \in DOMAIN entries /\ IsPage(i) /\ entries'[i] = entries[i]
    BY <1>1, <2>2 DEF IsPage
  <2>4. RepeatsAreMarked'
    BY ZenonT(60), <1>1, <2>1, <2>3 DEF RepeatsAreMarked
  <2> QED
    BY <2>1, <2>4 DEF RepeatInv
<1>3. ASSUME NEW attrs, NEW unread, NEW again, LeafVisit(attrs, unread, again)
      PROVE  RepeatInv'
  <2>1. /\ Visited \in Nodes /\ again \in BOOLEAN
        /\ leaves' = Append(leaves, Leaf(Visited, attrs, unread))
        /\ entries' = Append(entries, Row("page", Visited, next + 1, again))
    BY <1>3 DEF LeafVisit, AtNode, Numbers
  <2>2. /\ Len(leaves') = Len(leaves) + 1 /\ DOMAIN leaves' = 1..Len(leaves) + 1
        /\ \A m \in 1..Len(leaves) : leaves'[m] = leaves[m]
        /\ leaves'[Len(leaves) + 1].node = Visited /\ leaves'[Len(leaves) + 1].unread = unread
    BY <1>1, <2>1 DEF Leaf
  <2>3. /\ Len(entries') = Len(entries) + 1 /\ DOMAIN entries' = 1..Len(entries) + 1
        /\ \A i \in 1..Len(entries) : entries'[i] = entries[i]
        /\ entries'[Len(entries) + 1] = Row("page", Visited, next + 1, again)
    BY <1>1, <2>1
  <2>4. /\ \A o \in Objects : firstPage[o] # 0 => firstPage'[o] # 0
        /\ ~unread /\ Visited \in Objects => firstPage'[Visited] # 0
    BY <1>1, <1>3 DEF LeafVisit, FirstSeen
  <2>5. \A m \in 1..Len(leaves') :
          leaves'[m].node \in Objects /\ ~leaves'[m].unread => firstPage'[leaves'[m].node] # 0
    BY <1>1, <2>2, <2>4 DEF RepeatInv
  <2>6. \A i \in 1..Len(entries) : IsPage(i) =>
          /\ entries[i].page \in 1..Len(leaves) /\ leaves'[entries[i].page] = leaves[entries[i].page]
          /\ entries[i].node = leaves[entries[i].page].node
    BY <1>1, <2>2 DEF NumberedInOrder
  <2>7. RepeatsAreMarked'
    <3>1. SUFFICES ASSUME NEW i \in 1..Len(entries'), NEW j \in 1..Len(entries'), i < j,
                          entries'[i].kind = "page", entries'[j].kind = "page",
                          entries'[i].node = entries'[j].node, entries'[j].node \in Objects,
                          ~leaves'[entries'[i].page].unread, ~leaves'[entries'[j].page].unread
                   PROVE  entries'[j].again
      BY <2>3 DEF RepeatsAreMarked, IsPage
    <3>2. i \in 1..Len(entries) /\ entries'[i] = entries[i] /\ IsPage(i)
      BY <1>1, <2>3, <3>1 DEF IsPage
    <3>3. CASE j = Len(entries) + 1
      <4>1. entries'[j].page = Len(leaves) + 1 /\ entries'[j].node = Visited /\ entries'[j].again = again
        BY <1>1, <2>3, <3>3 DEF Row
      <4>2. ~unread /\ Visited \in Objects
        BY <2>2, <3>1, <4>1
      <4>3. again = Again(Visited)
        BY <1>3, <4>2 DEF LeafVisit
      <4>4. leaves[entries[i].page].node = Visited /\ ~leaves[entries[i].page].unread /\ entries[i].page \in 1..Len(leaves)
        BY <2>6, <3>1, <3>2, <4>1
      <4>5. firstPage[Visited] # 0
        BY <4>2, <4>4 DEF RepeatInv
      <4> QED
        BY <4>1, <4>2, <4>3, <4>5 DEF Again
    <3>4. CASE j # Len(entries) + 1
      <4>1. j \in 1..Len(entries) /\ entries'[j] = entries[j] /\ IsPage(j)
        BY <1>1, <2>3, <3>1, <3>4 DEF IsPage
      <4>2. ~leaves[entries[i].page].unread /\ ~leaves[entries[j].page].unread
        BY <2>6, <3>1, <3>2, <4>1
      <4> QED
        BY <1>1, <3>1, <3>2, <4>1, <4>2 DEF RepeatsAreMarked
    <3> QED
      BY <3>3, <3>4
  <2> QED
    BY <2>5, <2>7 DEF RepeatInv
<1>4. CASE UNCHANGED <<entries, leaves, firstPage>>
  BY <1>4 DEF RepeatInv, RepeatsAreMarked, IsPage
<1> QED
  BY <1>2, <1>3, <1>4, StepKinds DEF Descend, Return, Pauses

-----------------------------------------------------------------------------
(* The entries of a document are finitely many. *)
LEMMA PositionsFinite == ASSUME NEW p PROVE IsFiniteSet(Positions(p))
<1>1. IsFiniteSet(1..MaxKids)
  BY FS_Interval, BoundsAssumption
<1>2. IsFiniteSet(Nodes \X (1..MaxKids))
  BY <1>1, FS_Product, NodesAssumption
<1>3. Positions(p) \in SUBSET (Nodes \X (1..MaxKids))
  BY DEF Positions
<1> QED
  BY <1>2, <1>3, FS_Subset

(* So are the used ones. *)
LEMMA UsedFinite ==
  ASSUME NEW p, NEW st, NEW wk, NEW sn
  PROVE  /\ IsFiniteSet(Used(p, st, wk, sn)) /\ Cardinality(Used(p, st, wk, sn)) \in Nat
         /\ Used(p, st, wk, sn) \subseteq Positions(p)
         /\ Cardinality(Used(p, st, wk, sn)) <= Cardinality(Positions(p))
<1>1. Used(p, st, wk, sn) \in SUBSET Positions(p)
  BY DEF Used
<1> QED
  BY <1>1, PositionsFinite, FS_Subset, FS_CardinalityType

(* The entry the walk is at. *)
Current == <<Top.node, Top.i>>

LEMMA CurrentFacts ==
  ASSUME IInv, DirectsInv, AtKid
  PROVE  /\ Current \in Positions(pdf) /\ KidAt(pdf, Current) = Visited
         /\ Current \notin UsedNow
<1>1. TypeOK /\ StackInv
  BY DEF IInv
<1>2. /\ Len(stack) \in 1..Len(stack) /\ Top = stack[Len(stack)]
      /\ Top.i \in 1..Len(Kids(Top.node)) /\ Visited = Kids(Top.node)[Top.i]
  BY <1>1, VisitFacts
<1>3. Top.node \in Nodes /\ Kids(Top.node) \in Seq(Nodes \cup NotNodes)
  BY <1>1, <1>2, FrameFacts
<1>4. DOMAIN Kids(Top.node) = 1..Len(Kids(Top.node)) /\ DOMAIN Kids(Top.node) \subseteq 1..MaxKids
  <2>1. pdf[Top.node] \in Dicts
    BY <1>1, <1>3 DEF TypeOK
  <2>2. pdf[Top.node].kids \in KidsArrays \/ pdf[Top.node].kids = <<>>
    BY <2>1 DEF Dicts
  <2>3. \A ks \in KidsArrays : DOMAIN ks \subseteq 1..MaxKids
    BY BoundsAssumption DEF KidsArrays
  <2>4. DOMAIN Kids(Top.node) \subseteq 1..MaxKids
    BY <2>2, <2>3 DEF Kids
  <2> QED
    BY <1>3, <2>4
<1>5. Current \in Positions(pdf) /\ KidAt(pdf, Current) = Visited
  BY <1>2, <1>3, <1>4 DEF Positions, KidAt, Current, Kids
<1>6. Current \notin UsedNow
  <2>1. SUFFICES ASSUME NEW i \in 1..Len(stack), stack[i].node = Top.node, Top.i < stack[i].i
                 PROVE  FALSE
    BY <1>2 DEF UsedNow, Used, Current
  <2>2. i = Len(stack)
    BY <1>2, <2>1 DEF DirectsInv
  <2> QED
    BY <1>1, <1>2, <2>1, <2>2, FrameFacts
<1> QED
  BY <1>5, <1>6

(* A node the walk enters was not entered before: not an object, which would *)
(* be walked, and not a direct dictionary, whose only entry is this one.     *)
LEMMA EnteredOnce ==
  ASSUME IInv, DirectsInv, CountInv, Fresh
  PROVE  /\ Visited \in Nodes /\ \A i \in 1..Len(stack) : stack[i].node # Visited
         /\ Visited \notin walked \cup (seen \cap Directs)
<1>1. /\ TypeOK /\ StackInv /\ Visited \in Nodes /\ Visited \notin walked
      /\ pc = "root" \/ AtKid
  BY DEF IInv, Fresh, AtNode, Shared
<1>2. CASE Visited \in Objects
  <2>1. Visited \notin Directs
    BY <1>2, NodesAssumption
  <2>2. \A i \in 1..Len(stack) : stack[i].node # Visited
    BY <1>1, <1>2 DEF StackInv
  <2> QED
    BY <1>1, <2>1, <2>2
<1>3. CASE Visited \in Directs
  <2>1. Visited \notin seen
    <3>1. CASE pc = "root"
      BY <3>1 DEF CountInv
    <3>2. CASE AtKid
      BY <1>3, <3>2, CurrentFacts DEF DirectsInv, UsedNow, Used
    <3> QED
      BY <1>1, <3>1, <3>2
  <2> QED
    BY <1>1, <1>3, <2>1 DEF DirectsInv
<1> QED
  BY <1>1, <1>2, <1>3 DEF Nodes

(* What a visit does to the stack, to walked and to seen. *)
Visits ==
    /\ pc = "root" \/ AtKid
    /\ UNCHANGED <<pdf, root>> /\ pc' \notin {"start", "root"}
    /\ walked \subseteq walked' /\ seen' = seen \cup ({Visited} \cap Nodes)
    /\ \A i \in 1..Len(stack) :
        /\ stack'[i].node = stack[i].node
        /\ stack'[i].i = IF i = Len(stack) THEN stack[i].i + 1 ELSE stack[i].i
    /\ \/ Len(stack') = Len(stack)
       \/ Len(stack') = Len(stack) + 1 /\ Fresh /\ stack'[Len(stack) + 1].node = Visited

(* The entries a visit uses: those used before, and the current one. *)
LEMMA VisitUses ==
  ASSUME IInv, DirectsInv, CountInv, Visits
  PROVE  UsedNow \subseteq UsedNow' /\ (AtKid => Current \in UsedNow')
<1>1. TypeOK /\ StackInv /\ Len(stack) \in Nat /\ pdf' = pdf
  BY DEF IInv, TypeOK, Visits
<1>2. \A i \in 1..Len(stack) : i \in 1..Len(stack') /\ stack[i].i \in Nat
  BY <1>1, FrameFacts DEF Visits
<1>3. ASSUME NEW at \in UsedNow
      PROVE  at \in UsedNow'
  <2>1. at \in Positions(pdf)
    BY <1>3 DEF UsedNow, Used
  <2>2. CASE \E i \in 1..Len(stack) : stack[i].node = at[1] /\ at[2] < stack[i].i
    <3>1. PICK i \in 1..Len(stack) : stack[i].node = at[1] /\ at[2] < stack[i].i
      BY <2>2
    <3>2. at[2] \in Nat
      BY <2>1 DEF Positions
    <3>3. i \in 1..Len(stack') /\ stack'[i].node = at[1] /\ at[2] < stack'[i].i
      BY <1>2, <3>1, <3>2 DEF Visits
    <3> QED
      BY <1>1, <2>1, <3>3 DEF UsedNow, Used
  <2>3. CASE /\ \A i \in 1..Len(stack) : stack[i].node # at[1]
             /\ at[1] \in walked \cup (seen \cap Directs)
    <3>1. \A i \in 1..Len(stack') : stack'[i].node # at[1]
      <4>1. SUFFICES ASSUME NEW i \in 1..Len(stack'), stack'[i].node = at[1]
                     PROVE  FALSE
        OBVIOUS
      <4>2. CASE i \in 1..Len(stack)
        BY <2>3, <4>1, <4>2 DEF Visits
      <4>3. CASE i \notin 1..Len(stack)
        <5>1. i = Len(stack) + 1 /\ Fresh /\ stack'[i].node = Visited
          BY <1>1, <4>1, <4>3 DEF Visits
        <5> QED
          BY <2>3, <4>1, <5>1, EnteredOnce
      <4> QED
        BY <4>2, <4>3
    <3>2. at[1] \in walked' \cup (seen' \cap Directs)
      BY <2>3 DEF Visits
    <3> QED
      BY <1>1, <2>1, <3>1, <3>2 DEF UsedNow, Used
  <2> QED
    BY <1>3, <2>2, <2>3 DEF UsedNow, Used
<1>4. ASSUME AtKid
      PROVE  Current \in UsedNow'
  <2>1. Current \in Positions(pdf)
    BY <1>4, CurrentFacts
  <2>2. Len(stack) \in 1..Len(stack) /\ Top = stack[Len(stack)]
    BY <1>1, <1>4, VisitFacts
  <2>3. /\ Len(stack) \in 1..Len(stack') /\ stack'[Len(stack)].node = Top.node
        /\ Top.i < stack'[Len(stack)].i
    BY <1>2, <2>2 DEF Visits
  <2>4. Current[1] = Top.node /\ Current[2] = Top.i
    BY DEF Current
  <2> HIDE DEF Current
  <2> QED
    BY <1>1, <2>1, <2>3, <2>4 DEF UsedNow, Used
<1> QED
  BY <1>3, <1>4

(* A visit keeps DirectsInv. *)
LEMMA VisitDirects ==
  ASSUME IInv, DirectsInv, CountInv, Visits
  PROVE  DirectsInv'
<1>1. TypeOK /\ StackInv /\ Len(stack) \in Nat /\ pdf' = pdf /\ root' = root
  BY DEF IInv, TypeOK, Visits
<1>2. \A d \in Directs : \A at, bt \in Positions(pdf') :
        KidAt(pdf', at) = d /\ KidAt(pdf', bt) = d => at = bt /\ d # root'
  BY <1>1 DEF DirectsInv
<1>3. \A i \in 1..Len(stack') : \/ i \in 1..Len(stack) /\ stack'[i].node = stack[i].node
                                \/ i = Len(stack) + 1 /\ Fresh /\ stack'[i].node = Visited
  BY <1>1 DEF Visits
<1>4. \A i \in 1..Len(stack') : stack'[i].node \in Directs => stack'[i].node \in seen'
  <2>1. Fresh => Visited \in seen'
    BY EnteredOnce DEF Visits
  <2>2. seen \subseteq seen'
    BY DEF Visits
  <2> QED
    BY <1>3, <2>1, <2>2 DEF DirectsInv
<1>5. \A i, j \in 1..Len(stack') : stack'[i].node = stack'[j].node => i = j
  <2>1. Fresh => \A i \in 1..Len(stack) : stack[i].node # Visited
    BY EnteredOnce
  <2> QED
    BY <1>3, <2>1 DEF DirectsInv
<1>6. \A d \in Directs \cap seen' : d = root' \/ \E at \in UsedNow' : KidAt(pdf', at) = d
  <2>1. SUFFICES ASSUME NEW d \in Directs, d \in seen', d # root
                 PROVE  \E at \in UsedNow' : KidAt(pdf, at) = d
    BY <1>1
  <2>2. CASE d \in seen
    BY <2>1, <2>2, VisitUses DEF DirectsInv
  <2>3. CASE d \notin seen
    <3>1. d = Visited
      BY <2>1, <2>3 DEF Visits
    <3>2. AtKid
      BY <1>1, <2>1, <3>1, VisitFacts DEF Visits
    <3> QED
      BY <3>1, <3>2, VisitUses, CurrentFacts
  <2> QED
    BY <2>2, <2>3
<1> QED
  BY <1>2, <1>4, <1>5, <1>6 DEF DirectsInv

(* What is counted is finite. *)
LEMMA CountedFinite ==
  ASSUME TypeOK
  PROVE  /\ IsFiniteSet(RowIndices) /\ Cardinality(RowIndices) \in Nat
         /\ IsFiniteSet(EnteredNodes) /\ Cardinality(EnteredNodes) \in Nat
         /\ Len(entries) \in Nat /\ Len(entries) + 1 \notin RowIndices
         /\ Cardinality(UsedNow) \in Nat /\ IsFiniteSet(UsedNow)
<1>1. Len(entries) \in Nat
  BY DEF TypeOK
<1>2. IsFiniteSet(1..Len(entries)) /\ RowIndices \in SUBSET (1..Len(entries))
  <2>1. 1 \in Int /\ Len(entries) \in Int
    BY <1>1
  <2>2. IsFiniteSet(1..Len(entries))
    BY <2>1, FS_Interval
  <2>3. RowIndices \in SUBSET (1..Len(entries))
    BY DEF RowIndices
  <2> QED
    BY <2>2, <2>3
<1>3. IsFiniteSet(RowIndices) /\ Cardinality(RowIndices) \in Nat
  BY <1>2, FS_Subset, FS_CardinalityType
<1>4. EnteredNodes \in SUBSET Nodes
  BY DEF EnteredNodes, TypeOK, Nodes
<1>5. IsFiniteSet(EnteredNodes) /\ Cardinality(EnteredNodes) \in Nat
  BY <1>4, FS_Subset, FS_CardinalityType, NodesAssumption
<1>6. Cardinality(UsedNow) \in Nat /\ IsFiniteSet(UsedNow)
  BY UsedFinite DEF UsedNow
<1> QED
  BY <1>1, <1>2, <1>3, <1>5, <1>6

(* A visit may add one row or enter one node. *)
LEMMA VisitCounts ==
  ASSUME IInv, DirectsInv, CountInv, Visits
  PROVE  \E b \in Nat : /\ Len(entries) <= b /\ Cardinality(RowIndices) + Cardinality(EnteredNodes) <= b
                        /\ b <= Cardinality(UsedNow') /\ Cardinality(UsedNow') \in Nat
<1>1. TypeOK /\ Cardinality(UsedNow') \in Nat /\ IsFiniteSet(UsedNow')
  BY UsedFinite DEF IInv, UsedNow
<1>2. CASE pc = "root"
  <2>1. entries = <<>> /\ walked = {}
    BY <1>2 DEF CountInv
  <2>2. RowIndices = {} /\ EnteredNodes = {} /\ Len(entries) = 0
    BY <2>1 DEF RowIndices, EnteredNodes
  <2>3. Len(entries) <= 0 /\ Cardinality(RowIndices) + Cardinality(EnteredNodes) <= 0
    BY <2>2, FS_EmptySet
  <2> QED
    BY <1>1, <2>3
<1>3. CASE AtKid
  <2>1. Current \notin UsedNow /\ UsedNow \cup {Current} \in SUBSET UsedNow'
    BY <1>3, CurrentFacts, VisitUses
  <2>2. IsFiniteSet(UsedNow) /\ Cardinality(UsedNow) \in Nat
    BY <1>1, CountedFinite
  <2>3. Cardinality(UsedNow \cup {Current}) = Cardinality(UsedNow) + 1
    BY <2>1, <2>2, FS_AddElement
  <2>4. 1 + Cardinality(UsedNow) <= Cardinality(UsedNow')
    BY <1>1, <2>1, <2>2, <2>3, FS_Subset
  <2>5. /\ Len(entries) <= 1 + Cardinality(UsedNow)
        /\ Cardinality(RowIndices) + Cardinality(EnteredNodes) <= 1 + Cardinality(UsedNow)
    BY <1>3 DEF CountInv, AtKid
  <2> QED
    BY <1>1, <2>2, <2>4, <2>5
<1> QED
  BY <1>2, <1>3 DEF Visits

(* Adding at most one row and entering at most one node, not both, keeps     *)
(* CountInv.                                                                 *)
LEMMA CountsAdd ==
  ASSUME IInv, DirectsInv, CountInv, Visits,
         Len(entries') \in {Len(entries), Len(entries) + 1},
         \/ RowIndices' \in {RowIndices, RowIndices \cup {Len(entries) + 1}} /\ EnteredNodes' = EnteredNodes
         \/ RowIndices' = RowIndices /\ \E n : EnteredNodes' = EnteredNodes \cup {n}
  PROVE  CountInv'
<1>1. PICK b \in Nat : /\ Len(entries) <= b /\ Cardinality(RowIndices) + Cardinality(EnteredNodes) <= b
                       /\ b <= Cardinality(UsedNow') /\ Cardinality(UsedNow') \in Nat
  BY VisitCounts
<1>2. /\ IsFiniteSet(RowIndices) /\ Cardinality(RowIndices) \in Nat
      /\ IsFiniteSet(EnteredNodes) /\ Cardinality(EnteredNodes) \in Nat /\ Len(entries) \in Nat
  BY CountedFinite DEF IInv
<1>3. Len(entries') <= 1 + Cardinality(UsedNow')
  BY <1>1, <1>2
<1>4. Cardinality(RowIndices \cup {Len(entries) + 1}) \in {Cardinality(RowIndices), Cardinality(RowIndices) + 1}
  BY <1>2, FS_AddElement
<1>5. \A n : Cardinality(EnteredNodes \cup {n}) \in {Cardinality(EnteredNodes), Cardinality(EnteredNodes) + 1}
  BY <1>2, FS_AddElement
<1>6. Cardinality(RowIndices') + Cardinality(EnteredNodes') <= 1 + Cardinality(UsedNow')
  <2>1. CASE RowIndices' \in {RowIndices, RowIndices \cup {Len(entries) + 1}} /\ EnteredNodes' = EnteredNodes
    <3>1. Cardinality(RowIndices') \in {Cardinality(RowIndices), Cardinality(RowIndices) + 1}
      BY <1>4, <2>1
    <3>2. Cardinality(EnteredNodes') = Cardinality(EnteredNodes)
      BY <2>1
    <3> QED
      BY <1>1, <1>2, <3>1, <3>2
  <2>2. CASE RowIndices' = RowIndices /\ \E n : EnteredNodes' = EnteredNodes \cup {n}
    <3>1. Cardinality(EnteredNodes') \in {Cardinality(EnteredNodes), Cardinality(EnteredNodes) + 1}
      BY <1>5, <2>2
    <3>2. Cardinality(RowIndices') = Cardinality(RowIndices)
      BY <2>2
    <3> QED
      BY <1>1, <1>2, <3>1, <3>2
  <2> QED
    BY <2>1, <2>2
<1>7. pc' \notin {"start", "root"}
  BY DEF Visits
<1> QED
  BY <1>3, <1>6, <1>7 DEF CountInv

(* What an appended row does to the indices. *)
LEMMA RowAppended ==
  ASSUME TypeOK, NEW row, entries' = Append(entries, row)
  PROVE  /\ Len(entries') = Len(entries) + 1
         /\ RowIndices' = IF row.kind # "unread" THEN RowIndices \cup {Len(entries) + 1} ELSE RowIndices
<1>1. entries \in Seq(Rows) /\ Len(entries) \in Nat
  BY DEF TypeOK
<1>2. /\ Len(entries') = Len(entries) + 1 /\ entries'[Len(entries) + 1] = row
      /\ \A i \in 1..Len(entries) : entries'[i] = entries[i]
  BY <1>1
<1> QED
  BY <1>1, <1>2 DEF RowIndices

(* A visit that does not go down is one of those. *)
LEMMA ProceedVisits ==
  ASSUME IInv, pc = "root" \/ AtKid, Proceeds, UNCHANGED <<pdf, root>>, walked \subseteq walked'
  PROVE  Visits
<1>1. TypeOK /\ StackInv
  BY DEF IInv
<1>2. stack' = Advanced /\ seen' = seen \cup ({Visited} \cap Nodes) /\ pc' \notin {"start", "root"}
  BY DEF Proceeds, Comes, AtKid
<1> QED
  BY <1>1, <1>2, VisitFacts DEF Visits

(* Every step keeps DirectsInv and CountInv. *)
LEMMA CountStep ==
  ASSUME IInv, DirectsInv, CountInv, [Next]_vars
  PROVE  DirectsInv' /\ CountInv'
<1>1. TypeOK /\ StackInv /\ stack \in Seq(Frames) /\ Len(stack) \in Nat /\ walked \subseteq Objects
  BY DEF IInv, TypeOK
<1>2. ASSUME NEW kind \in RowKinds \ {"page"}, ErrorVisit(kind)
      PROVE  DirectsInv' /\ CountInv'
  <2>1. walked \subseteq walked' /\ pdf' = pdf
    BY <1>2 DEF ErrorVisit
  <2>2. Visits
    BY <1>2, <2>1, ProceedVisits DEF ErrorVisit
  <2>3. PICK row : entries' = Append(entries, row) /\ row.kind = kind
    BY <1>2 DEF ErrorVisit, AddsRow, Row
  <2>4. /\ Len(entries') = Len(entries) + 1
        /\ RowIndices' = IF kind # "unread" THEN RowIndices \cup {Len(entries) + 1} ELSE RowIndices
    BY <1>1, <2>3, RowAppended
  <2>5. \A n : IsArray(n)' = IsArray(n)
    BY <2>1 DEF IsArray
  <2>6. \/ EnteredNodes' = EnteredNodes
        \/ RowIndices' = RowIndices /\ EnteredNodes' = EnteredNodes \cup {Visited}
    <3>1. CASE walked' = walked
      BY <2>5, <3>1 DEF EnteredNodes
    <3>2. CASE walked' = walked \cup Entered(Visited) /\ ~IsArray(Visited)
      BY <2>5, <3>2 DEF EnteredNodes, Entered
    <3>3. CASE walked' = walked \cup Entered(Visited) /\ IsArray(Visited) /\ kind = "unread"
      <4>1. EnteredNodes' = EnteredNodes \/ EnteredNodes' = EnteredNodes \cup {Visited}
        BY <2>5, <3>3 DEF EnteredNodes, Entered
      <4> QED
        BY <2>4, <3>3, <4>1
    <3> QED
      BY <1>2, <3>1, <3>2, <3>3 DEF ErrorVisit
  <2> QED
    BY <2>2, <2>4, <2>6, VisitDirects, CountsAdd
<1>3. ASSUME NEW attrs, NEW unread, NEW again, LeafVisit(attrs, unread, again)
      PROVE  DirectsInv' /\ CountInv'
  <2>1. /\ pc = "root" \/ AtKid
        /\ UNCHANGED <<pdf, root, walked>> /\ Proceeds
        /\ entries' = Append(entries, Row("page", Visited, next + 1, again))
    BY <1>3 DEF LeafVisit, AtNode, Numbers
  <2>2. Visits
    BY <2>1, ProceedVisits
  <2>3. PICK row : entries' = Append(entries, row) /\ row.kind = "page"
    BY <2>1 DEF Row
  <2>4. Len(entries') = Len(entries) + 1 /\ RowIndices' = RowIndices \cup {Len(entries) + 1}
    BY <1>1, <2>3, RowAppended
  <2>5. EnteredNodes' = EnteredNodes
    BY <2>1 DEF EnteredNodes, IsArray
  <2> QED
    BY <2>2, <2>4, <2>5, VisitDirects, CountsAdd
<1>4. CASE Descend
  <2>1. /\ Fresh
        /\ pc = "root" \/ AtKid
        /\ UNCHANGED <<pdf, root, entries>> /\ walked' = walked \cup Entered(Visited)
        /\ seen' = seen \cup ({Visited} \cap Nodes) /\ pc' = "walk"
        /\ stack' = Append(Advanced, [node |-> Visited, i |-> 1, attrs |-> EffectiveAttrs(Visited, Inherited)])
    BY <1>4 DEF Descend, Fresh, AtNode, Comes
  <2>2. Advanced \in Seq(Frames) /\ Len(Advanced) = Len(stack)
    BY <1>1, <2>1, VisitFacts
  <2>3. /\ Len(stack') = Len(stack) + 1 /\ stack'[Len(stack) + 1].node = Visited
        /\ \A i \in 1..Len(stack) : stack'[i] = Advanced[i]
    BY <1>1, <2>1, <2>2
  <2>4. \A i \in 1..Len(stack) :
          /\ stack'[i].node = stack[i].node
          /\ stack'[i].i = IF i = Len(stack) THEN stack[i].i + 1 ELSE stack[i].i
    BY <1>1, <2>1, <2>3, VisitFacts
  <2>5. Visits
    <3>1. walked \subseteq walked' /\ pc' \notin {"start", "root"} /\ UNCHANGED <<pdf, root>>
      BY <2>1
    <3> QED
      BY <2>1, <2>3, <2>4, <3>1 DEF Visits
  <2>6. RowIndices' = RowIndices /\ Len(entries') = Len(entries)
    BY <2>1 DEF RowIndices
  <2>7. EnteredNodes' = EnteredNodes \/ EnteredNodes' = EnteredNodes \cup {Visited}
    BY <2>1 DEF EnteredNodes, Entered, IsArray
  <2> QED
    BY <2>5, <2>6, <2>7, VisitDirects, CountsAdd
<1>5. CASE Return
  <2>1. /\ stack' = SubSeq(stack, 1, Len(stack) - 1) /\ pc = "walk" /\ pc' \in {"walk", "done"} /\ stack # <<>>
        /\ UNCHANGED <<pdf, root, entries, walked, seen>>
    BY <1>1, <1>5 DEF Return, StackInv
  <2>2. Len(stack) \in 1..Len(stack) /\ Len(stack') = Len(stack) - 1 /\ \A i \in 1..Len(stack) - 1 : stack'[i] = stack[i]
    BY <1>1, <2>1, FrontOfStack
  <2>3. \A i \in 1..Len(stack') : i \in 1..Len(stack) /\ i # Len(stack) /\ stack'[i] = stack[i]
    BY <1>1, <2>2
  <2>4. \A i \in 1..Len(stack) : i \in 1..Len(stack') \/ i = Len(stack)
    BY <1>1, <2>2
  <2>5. PICK left : left = stack[Len(stack)].node
    OBVIOUS
  <2>6. left \in walked \cup (seen \cap Directs) /\ \A i \in 1..Len(stack') : stack'[i].node # left
    <3>1. left \in Nodes
      BY <1>1, <2>2, <2>5, FrameFacts
    <3>2. left \in Objects => left \in walked
      BY <1>1, <2>2, <2>5 DEF StackInv
    <3>3. left \in Directs => left \in seen
      BY <2>2, <2>5 DEF DirectsInv
    <3>4. \A i \in 1..Len(stack') : stack'[i].node # left
      BY <2>2, <2>3, <2>5 DEF DirectsInv
    <3> QED
      BY <3>1, <3>2, <3>3, <3>4 DEF Nodes
  <2>7. UsedNow \subseteq UsedNow'
    <3>1. SUFFICES ASSUME NEW at \in UsedNow PROVE at \in UsedNow'
      OBVIOUS
    <3>2. at \in Positions(pdf)
      BY <3>1 DEF UsedNow, Used
    <3>3. CASE \E i \in 1..Len(stack') : stack[i].node = at[1] /\ at[2] < stack[i].i
      BY <2>1, <2>3, <3>2, <3>3 DEF UsedNow, Used
    <3>4. CASE at[1] = left
      BY <2>1, <2>6, <3>2, <3>4 DEF UsedNow, Used
    <3>5. CASE /\ \A i \in 1..Len(stack) : stack[i].node # at[1]
               /\ at[1] \in walked \cup (seen \cap Directs)
      BY <2>1, <2>3, <3>2, <3>5 DEF UsedNow, Used
    <3> QED
      BY <2>4, <2>5, <3>1, <3>3, <3>4, <3>5 DEF UsedNow, Used
  <2>8. DirectsInv'
    <3>1. \A i \in 1..Len(stack') : stack'[i].node \in Directs => stack'[i].node \in seen'
      BY <2>1, <2>3 DEF DirectsInv
    <3>2. \A i, j \in 1..Len(stack') : stack'[i].node = stack'[j].node => i = j
      BY <2>3 DEF DirectsInv
    <3>3. \A d \in Directs \cap seen' : d = root' \/ \E at \in UsedNow' : KidAt(pdf', at) = d
      BY <2>1, <2>7 DEF DirectsInv
    <3>4. \A d \in Directs : \A at, bt \in Positions(pdf') :
            KidAt(pdf', at) = d /\ KidAt(pdf', bt) = d => at = bt /\ d # root'
      BY <2>1 DEF DirectsInv
    <3> QED
      BY <3>1, <3>2, <3>3, <3>4 DEF DirectsInv
  <2>9. CountInv'
    <3>1. Cardinality(UsedNow) <= Cardinality(UsedNow') /\ Cardinality(UsedNow') \in Nat
      <4>1. IsFiniteSet(UsedNow') /\ UsedNow \in SUBSET UsedNow' /\ Cardinality(UsedNow') \in Nat
        BY <2>7, UsedFinite DEF UsedNow
      <4> QED
        BY <4>1, FS_Subset
    <3>2. RowIndices' = RowIndices /\ EnteredNodes' = EnteredNodes
      BY <2>1 DEF RowIndices, EnteredNodes, IsArray
    <3>3. /\ Cardinality(RowIndices) \in Nat /\ Cardinality(EnteredNodes) \in Nat
          /\ Cardinality(UsedNow) \in Nat /\ Len(entries) \in Nat
      BY <1>1, CountedFinite
    <3>4. /\ Len(entries) <= 1 + Cardinality(UsedNow)
          /\ Cardinality(RowIndices) + Cardinality(EnteredNodes) <= 1 + Cardinality(UsedNow)
      BY <2>1 DEF CountInv
    <3>5. /\ Len(entries') <= 1 + Cardinality(UsedNow')
          /\ Cardinality(RowIndices') + Cardinality(EnteredNodes') <= 1 + Cardinality(UsedNow')
      BY <2>1, <3>1, <3>2, <3>3, <3>4
    <3> QED
      BY <2>1, <3>5 DEF CountInv
  <2> QED
    BY <2>8, <2>9
<1>6. CASE Pauses
  <2>1. UsedNow' = UsedNow /\ RowIndices' = RowIndices /\ EnteredNodes' = EnteredNodes
    BY <1>6 DEF Pauses, UsedNow, RowIndices, EnteredNodes, IsArray
  <2>2. DirectsInv'
    BY <1>6, <2>1 DEF Pauses, DirectsInv
  <2>3. CountInv'
    <3>1. CASE pc = "start" /\ pc' = "done"
      <4>1. RowIndices = {} /\ EnteredNodes = {} /\ Len(entries) = 0 /\ entries' = entries
        BY <1>6, <3>1 DEF Pauses, CountInv, RowIndices, EnteredNodes
      <4>2. Cardinality(RowIndices) + Cardinality(EnteredNodes) = 0 /\ Cardinality(UsedNow) \in Nat
        BY <1>1, <4>1, FS_EmptySet, CountedFinite
      <4>3. /\ Len(entries') <= 1 + Cardinality(UsedNow')
            /\ Cardinality(RowIndices') + Cardinality(EnteredNodes') <= 1 + Cardinality(UsedNow')
        BY <2>1, <4>1, <4>2
      <4> QED
        BY <3>1, <4>3 DEF CountInv
    <3>2. CASE pc' = pc \/ (pc' = "root" /\ pc = "start")
      <4>1. UNCHANGED <<entries, walked, seen>>
        BY <1>6 DEF Pauses
      <4>2. CASE pc' \in {"start", "root"}
        BY <3>2, <4>1, <4>2 DEF CountInv
      <4>3. CASE pc' \notin {"start", "root"}
        <5>1. /\ Len(entries) <= 1 + Cardinality(UsedNow)
              /\ Cardinality(RowIndices) + Cardinality(EnteredNodes) <= 1 + Cardinality(UsedNow)
          BY <3>2, <4>3 DEF CountInv
        <5>2. /\ Len(entries') <= 1 + Cardinality(UsedNow')
              /\ Cardinality(RowIndices') + Cardinality(EnteredNodes') <= 1 + Cardinality(UsedNow')
          BY <2>1, <4>1, <5>1
        <5> QED
          BY <4>3, <5>2 DEF CountInv
      <4> QED
        BY <4>2, <4>3
    <3> QED
      BY <1>6, <3>1, <3>2 DEF Pauses
  <2> QED
    BY <2>2, <2>3
<1> QED
  BY <1>2, <1>3, <1>4, <1>5, <1>6, StepKinds

(* A document has at most one entry for each direct dictionary, and nothing  *)
(* is used at first.                                                         *)
LEMMA InitRowsInv == Init => RowsInv
<1>1. SUFFICES ASSUME Init PROVE RowsInv
  OBVIOUS
<1>2. stack = <<>> /\ entries = <<>> /\ leaves = <<>> /\ Len(<<>>) = 0 /\ walked = {} /\ seen = {} /\ pc = "start"
  BY <1>1 DEF Init
<1>3. AttrsInv /\ RepeatInv /\ CountInv
  BY <1>2 DEF AttrsInv, RepeatInv, RepeatsAreMarked, CountInv
<1>4. \A d \in Directs : \A at, bt \in Positions(pdf) :
        KidAt(pdf, at) = d /\ KidAt(pdf, bt) = d => at = bt /\ d # root
  <2>1. SUFFICES ASSUME NEW d \in Directs, NEW at \in Positions(pdf), NEW bt \in Positions(pdf),
                        KidAt(pdf, at) = d, KidAt(pdf, bt) = d
                 PROVE  at = bt /\ d # root
    OBVIOUS
  <2>2. PICK occ : occ = Occurrences(pdf, d)
    OBVIOUS
  <2>3. at \in occ /\ bt \in occ /\ occ \in SUBSET Positions(pdf)
    BY <2>1, <2>2 DEF Occurrences, Positions, KidAt
  <2>4. IsFiniteSet(occ) /\ Cardinality(occ) \in Nat
    BY <2>3, PositionsFinite, FS_Subset, FS_CardinalityType
  <2>5. Cardinality(occ) <= IF d = root THEN 0 ELSE 1
    BY <1>1, <2>2 DEF Init
  <2>6. Cardinality(occ) # 0
    BY <2>3, <2>4, FS_EmptySet
  <2>7. IsFiniteSet(occ \ {at}) /\ Cardinality(occ \ {at}) = 0
    BY <2>3, <2>4, <2>5, <2>6, FS_RemoveElement
  <2>8. occ \ {at} = {}
    BY <2>7, FS_EmptySet
  <2> QED
    BY <2>3, <2>4, <2>5, <2>6, <2>8
<1>5. DirectsInv
  BY <1>2, <1>4 DEF DirectsInv
<1> QED
  BY <1>3, <1>5 DEF RowsInv

(* Every step keeps what the rows rest on. *)
LEMMA NextRowsInv == IInv /\ RowsInv /\ [Next]_vars => RowsInv'
BY AttrsStep, RepeatStep, CountStep DEF RowsInv

(* The rows of a page tree: page n is the n-th leaf, cycles and repeats are  *)
(* marked as what they are, sharing does not multiply rows, and a page has   *)
(* the nearest value of an attribute, on any document.                       *)
THEOREM PageRowsAreSound == Spec => []PageRowsSound
<1>1. Spec => [](IInv /\ RowsInv)
  BY InitIInv, NextIInv, InitRowsInv, NextRowsInv, PTL DEF Spec
<1>2. IInv /\ RowsInv => RowsBounded
  <2>1. SUFFICES ASSUME IInv, RowsInv PROVE RowsBounded
    OBVIOUS
  <2>2. TypeOK /\ CountInv
    BY <2>1 DEF IInv, RowsInv
  <2>3. PICK all : all = Positions(pdf)
    OBVIOUS
  <2>4. all = {at \in Nodes \X (1..MaxKids) : at[2] \in DOMAIN Kids(at[1])}
    BY <2>3 DEF Positions, Kids
  <2>5. /\ Cardinality(UsedNow) \in Nat /\ Cardinality(UsedNow) <= Cardinality(all)
        /\ Cardinality(all) \in Nat
    BY <2>3, UsedFinite, PositionsFinite, FS_CardinalityType DEF UsedNow
  <2>6. /\ Cardinality(RowIndices) \in Nat /\ Cardinality(EnteredNodes) \in Nat /\ Len(entries) \in Nat
    BY <2>2, CountedFinite
  <2>7. Len(entries) <= 1 + Cardinality(all) /\ Cardinality(RowIndices) + Cardinality(EnteredNodes) <= 1 + Cardinality(all)
    <3>1. CASE pc \in {"start", "root"}
      <4>1. RowIndices = {} /\ EnteredNodes = {} /\ Len(entries) = 0
        BY <2>2, <3>1 DEF CountInv, RowIndices, EnteredNodes
      <4>2. Cardinality(RowIndices) + Cardinality(EnteredNodes) = 0
        BY <4>1, FS_EmptySet
      <4> QED
        BY <2>5, <4>1, <4>2
    <3>2. CASE pc \notin {"start", "root"}
      BY <2>2, <2>5, <2>6, <3>2 DEF CountInv
    <3> QED
      BY <3>1, <3>2
  <2>8. RowIndices = {i \in DOMAIN entries : entries[i].kind # "unread"}
    BY <2>2 DEF RowIndices, TypeOK
  <2> QED
    BY <2>4, <2>7, <2>8 DEF RowsBounded, EnteredNodes
<1>3. IInv /\ RowsInv => AttrsInherited
  <2>1. SUFFICES ASSUME IInv, RowsInv, NEW n \in DOMAIN leaves, ~leaves[n].unread
                 PROVE  /\ leaves[n].attrs.value = Nearest(leaves[n].path, {"value"})
                        /\ leaves[n].attrs.unresolvedAt = Blames(leaves[n].path, {"null", "error"})
                        /\ leaves[n].attrs.resourcesErr = Blames(leaves[n].path, {"error"})
    BY DEF AttrsInherited
  <2>2. n \in 1..Len(leaves)
    BY <2>1 DEF IInv, TypeOK
  <2>3. AttrsOn(pdf, leaves[n].path, leaves[n].attrs)
    BY <2>1, <2>2 DEF RowsInv, AttrsInv
  <2>4. PICK path : path = leaves[n].path
    OBVIOUS
  <2>5. \A kinds : Nearest(path, kinds) = NearestIn(pdf, path, kinds)
    BY DEF Nearest, NearestIn
  <2>6. \A kinds : Blames(path, kinds) = BlamesIn(pdf, path, kinds)
    BY <2>5 DEF Blames, BlamesIn
  <2> QED
    BY <2>3, <2>4, <2>5, <2>6 DEF AttrsOn
<1>4. IInv /\ RowsInv => PagesNumbered /\ RepeatsAreMarked
  BY DEF IInv, RowsInv, RepeatInv, PagesNumbered
<1> QED
  BY <1>1, <1>2, <1>3, <1>4, CycleRowsAreCycles, PTL DEF PageRowsSound, RowsAreRight

(***************************************************************************)
(* Signatures: getSignatures reads one field after the other, and the file  *)
(* on disk may change between any two reads of it.                          *)
(***************************************************************************)

(* The coverage of a signature dictionary, and what is exported for a /V. *)
CoverageOf(v) == computeByteRangeCoverage(v.range, sigDoc.size)
ExportOf(v) == IF v.dict THEN Decompose(v).bytes ELSE NoExport

Notes == {"none", "other", "changed", "busy"}

SigTypeOK ==
  /\ sigDoc \in SignedDocs
  /\ refused \in {"none", "changed", "busy"}
  /\ reading \in [at : {"idle", "open", "read", "verify"}, match : BOOLEAN]
  /\ disk \in [path : {0, 1, 2}, ver : {0, 1}, locked : BOOLEAN, events : Nat]
  /\ sigs \in Seq(ToSet(sigs)) /\ sink \in Seq(ToSet(sink)) /\ Len(sink) = Len(sigs)

(* What is left to do are the fields after those that are listed. *)
TodoInv ==
  /\ Len(sigs) <= Len(Fields)
  /\ todo = [k \in 1..(Len(Fields) - Len(sigs)) |-> Fields[Len(sigs) + k]]

(* A file that was opened is read for a field that needs it, with no read
   refused before; bytes of an unchanged file are those of the opened one. *)
ReadingInv ==
  reading.at # "idle" =>
    /\ todo # <<>> /\ refused = "none"
    /\ LET v == Fields[Len(sigs) + 1].V IN
         /\ v.dict /\ NeedsRead(v, CoverageOf(v))
         /\ reading.at = "verify" /\ disk.ver = 0 => reading.match = v.match

(* What a listed field says of its hole, and why. *)
Verdict(v, hole, note) ==
  v.dict => /\ hole => v.match /\ NeedsRead(v, CoverageOf(v))
            /\ note = "none" /\ NeedsRead(v, CoverageOf(v)) => hole = v.match
            /\ note \in {"changed", "busy"} => refused = note

ListedInv ==
  \A i \in 1..Len(sigs) :
    LET v == Fields[i].V IN
    /\ sink[i] = ExportOf(v)
    /\ \E hole \in BOOLEAN, note \in Notes :
         /\ sigs[i] = Listed(v, CoverageOf(v), hole, note)
         /\ Verdict(v, hole, note)

SigInv == SigTypeOK /\ TodoInv /\ ReadingInv /\ ListedInv /\ RefusalSticks

(* A set of natural numbers that is not empty has a least one. *)
LEMMA LeastExists ==
  ASSUME NEW T \in SUBSET Nat, T # {}
  PROVE  \E x \in T : \A y \in T : x <= y
<1>1. PICK x \in T : \A y \in T : ~ (<<y, x>> \in OpToRel(<, Nat))
  BY NatLessThanWellFounded, WFMin
<1>2. ASSUME NEW y \in T PROVE x <= y
  <2>1. <<y, x>> \in Nat \X Nat
    OBVIOUS
  <2>2. ~(y < x)
    BY <1>1, <2>1 DEF OpToRel
  <2> QED
    BY <2>2
<1> QED
  BY <1>2

(* What a list gains at its end, and loses at its front. *)
LEMMA Appended ==
  ASSUME NEW s, s \in Seq(ToSet(s)), NEW e
  PROVE  /\ Append(s, e) \in Seq(ToSet(Append(s, e))) /\ Len(Append(s, e)) = Len(s) + 1
         /\ \A i \in 1..Len(s) : Append(s, e)[i] = s[i]
         /\ Append(s, e)[Len(s) + 1] = e
<1> DEFINE A == ToSet(s) \cup {e}
           t == Append(s, e)
<1>1. s \in Seq(A) /\ e \in A
  OBVIOUS
<1> HIDE DEF A
<1>2. /\ t \in Seq(A) /\ Len(t) = Len(s) + 1 /\ Len(s) \in Nat
      /\ \A i \in 1..Len(s) : t[i] = s[i]
      /\ t[Len(s) + 1] = e
  BY <1>1
<1> HIDE DEF t
<1>3. t \in Seq(ToSet(t))
  <2>1. \A i \in 1..Len(t) : t[i] \in ToSet(t)
    BY <1>2 DEF ToSet
  <2> QED
    BY <1>2, <2>1
<1> QED
  BY <1>2, <1>3 DEF t

(* The sums of a /ByteRange that passed the bounds do not wrap. *)
LEMMA WrapIsExact ==
  ASSUME NEW i \in Int, -IntHalf <= i, i < IntHalf
  PROVE  Wrap(i) = i
<1>1. IntHalf \in Nat /\ IntHalf > 0
  BY SignatureAssumption
<1> DEFINE n == i + IntHalf
           m == 2 * IntHalf
<1>2. n \in Nat /\ m \in Nat /\ n < m /\ m > 0
  BY <1>1
<1>3. n % m = n
  <2> HIDE DEF n, m
  <2> QED
    BY <1>2
<1> QED
  BY <1>1, <1>3 DEF Wrap

(* The bytes of an interval of a file. *)
LEMMA IntervalSize ==
  ASSUME NEW a \in Nat, NEW b \in Nat, a <= b
  PROVE  Cardinality({x \in 0..(b - 1) : x >= a}) = b - a
<1>1. {x \in 0..(b - 1) : x >= a} = a..(b - 1)
  OBVIOUS
<1>2. Cardinality(a..(b - 1)) = IF a > b - 1 THEN 0 ELSE (b - 1) - a + 1
  BY FS_Interval
<1>3. (IF a > b - 1 THEN 0 ELSE (b - 1) - a + 1) = b - a
  OBVIOUS
<1> QED
  BY <1>1, <1>2, <1>3, Zenon

(* The bytes the signature signs, with the hole between them. *)
LEMMA SignedBytes ==
  ASSUME NEW a \in Nat, NEW b \in Nat, NEW c \in Nat, NEW d \in Nat, NEW n \in Nat,
         a + b <= c, c + d <= n
  PROVE  LET bytes == (a..(a + b - 1)) \cup (c..(c + d - 1))
             hole  == (a + b)..(c - 1)
             file  == 0..(n - 1)
         IN  /\ bytes \subseteq file /\ hole \cap bytes = {}
             /\ (a = 0 /\ n - (c + d) = 0) <=> file \subseteq bytes \cup hole
<1> DEFINE bytes == (a..(a + b - 1)) \cup (c..(c + d - 1))
           hole  == (a + b)..(c - 1)
           file  == 0..(n - 1)
<1>1. \A x : x \in bytes \cup hole <=> x \in Int /\ a <= x /\ x <= c + d - 1
  OBVIOUS
<1>2. bytes \subseteq file /\ hole \cap bytes = {}
  OBVIOUS
<1>3. ASSUME a = 0, n - (c + d) = 0 PROVE file \subseteq bytes \cup hole
  BY <1>1, <1>3
<1>4. ASSUME file \subseteq bytes \cup hole PROVE a = 0 /\ n - (c + d) = 0
  <2>1. CASE n = 0
    BY <2>1
  <2>2. CASE n > 0
    <3>1. 0 \in file /\ n - 1 \in file
      BY <2>2
    <3>2. 0 \in bytes \cup hole /\ n - 1 \in bytes \cup hole
      BY <1>4, <3>1
    <3> QED
      BY <1>1, <3>2
  <2> QED
    BY <2>1, <2>2
<1> QED
  BY <1>2, <1>3, <1>4

(* The measurement says what it should of every /ByteRange. *)
LEMMA Measured ==
  ASSUME NEW range, NEW n \in Nat, NEW cov, cov = computeByteRangeCoverage(range, n), IntHalf \in Nat, 2 * n < IntHalf, range.is # "none", range.ints \in Seq(Int)
  PROVE  LET br  == range.ints
             in  == range.is = "integers" /\ Len(br) = 4 /\ \A k \in DOMAIN br : br[k] \in Nat
         IN  /\ cov.err = "none" <=> /\ in
                                     /\ {br[1], br[1] + br[2], br[3], br[3] + br[4]} \subseteq 0..n
                                     /\ br[1] + br[2] <= br[3]
             /\ cov.err = "none" => /\ cov.from = br[1] + br[2] /\ cov.to = br[3]
                                    /\ cov.gap = n - (br[3] + br[4])
                                    /\ cov.whole <=> br[1] = 0 /\ cov.gap = 0
<1> DEFINE br == range.ints
           in  == range.is = "integers" /\ Len(br) = 4 /\ \A k \in DOMAIN br : br[k] \in Nat
           right == /\ in
                    /\ {br[1], br[1] + br[2], br[3], br[3] + br[4]} \subseteq 0..n
                    /\ br[1] + br[2] <= br[3]
           holeStart == Wrap(br[1] + br[2])
           end2 == Wrap(br[3] + br[4])
           gap == Wrap(n - end2)
           measured == /\ cov.from = br[1] + br[2] /\ cov.to = br[3]
                       /\ cov.gap = n - (br[3] + br[4])
                       /\ cov.whole <=> br[1] = 0 /\ cov.gap = 0
<1> SUFFICES (cov.err = "none" <=> right) /\ (cov.err = "none" => measured)
  OBVIOUS
<1>1. IntHalf \in Nat /\ br \in Seq(Int)
  BY SignatureAssumption
<1>2. cov = IF range.is # "integers" THEN Coverage(range.is)
            ELSE IF Len(br) # 4 THEN Coverage(IF Len(br) % 2 = 1 THEN "odd" ELSE "not four")
            ELSE IF \E i \in DOMAIN br : br[i] < 0 \/ br[i] > n THEN Coverage("out of range")
            ELSE IF holeStart > n \/ end2 > n THEN Coverage("past the end")
            ELSE IF br[3] < holeStart THEN Coverage("overlap")
            ELSE [err |-> "none", gap |-> gap, whole |-> br[1] = 0 /\ gap = 0, from |-> holeStart, to |-> br[3]]
  BY DEF computeByteRangeCoverage
<1>3. \A e : Coverage(e).err = e
  BY DEF Coverage
<1> HIDE DEF br, holeStart, end2, gap
<1>4. CASE ~(range.is = "integers" /\ Len(br) = 4)
  <2>1. cov.err # "none"
    <3>1. cov \in {Coverage(range.is), Coverage("odd"), Coverage("not four")}
      BY <1>2, <1>4
    <3> QED
      BY <1>3, <3>1
  <2>2. ~right
    BY <1>4
  <2> QED
    BY <2>1, <2>2
<1>5. CASE range.is = "integers" /\ Len(br) = 4 /\ \E i \in DOMAIN br : br[i] < 0 \/ br[i] > n
  <2>1. cov.err # "none"
    <3>1. cov = Coverage("out of range")
      BY <1>2, <1>5
    <3> QED
      BY <1>3, <3>1
  <2>2. ASSUME right PROVE FALSE
    <3>1. DOMAIN br = 1..4 /\ \A i \in 1..4 : br[i] \in Nat
      BY <1>1, <1>5, <2>2
    <3>2. br[1] \in Nat /\ br[2] \in Nat /\ br[3] \in Nat /\ br[4] \in Nat
      BY <3>1
    <3>3. br[1] + br[2] <= n /\ br[3] + br[4] <= n
      BY <2>2
    <3>4. br[1] <= n /\ br[2] <= n /\ br[3] <= n /\ br[4] <= n
      BY <3>2, <3>3
    <3>5. PICK i \in 1..4 : br[i] < 0 \/ br[i] > n
      BY <1>5, <3>1
    <3>6. i = 1 \/ i = 2 \/ i = 3 \/ i = 4
      OBVIOUS
    <3> QED
      BY <3>2, <3>4, <3>5, <3>6
  <2> QED
    BY <2>1, <2>2
<1>6. CASE range.is = "integers" /\ Len(br) = 4 /\ ~\E i \in DOMAIN br : br[i] < 0 \/ br[i] > n
  <2>1. DOMAIN br = 1..4 /\ \A i \in 1..4 : br[i] \in Int /\ br[i] \in 0..n
    <3>1. DOMAIN br = 1..4 /\ \A i \in 1..4 : br[i] \in Int
      <4>1. DOMAIN br = 1..Len(br) /\ \A i \in 1..Len(br) : br[i] \in Int
        BY <1>1
      <4> QED
        BY <1>6, <4>1
    <3> QED
      BY <1>6, <3>1
  <2>2. br[1] \in 0..n /\ br[2] \in 0..n /\ br[3] \in 0..n /\ br[4] \in 0..n
    BY <2>1
  <2>3. in
    BY <1>6, <2>1
  <2>4. holeStart = br[1] + br[2] /\ end2 = br[3] + br[4]
    <3>1. \A a, b \in 0..n : a + b \in Int /\ -IntHalf <= a + b /\ a + b < IntHalf
      BY <1>1
    <3>2. \A a, b \in 0..n : Wrap(a + b) = a + b
      BY <3>1, WrapIsExact
    <3> QED
      BY <2>2, <3>2 DEF holeStart, end2
  <2>5. right <=> br[1] + br[2] <= n /\ br[3] + br[4] <= n /\ br[1] + br[2] <= br[3]
    BY <2>2, <2>3
  <2> HIDE DEF right, in
  <2>6. CASE holeStart > n \/ end2 > n
    <3>1. cov.err # "none"
      BY <1>2, <1>3, <1>6, <2>6
    <3>2. ~right
      BY <2>2, <2>4, <2>5, <2>6
    <3> QED
      BY <3>1, <3>2
  <2>7. CASE ~(holeStart > n \/ end2 > n) /\ br[3] < holeStart
    <3>1. cov.err # "none"
      BY <1>2, <1>3, <1>6, <2>7
    <3>2. ~right
      BY <2>2, <2>4, <2>5, <2>7
    <3> QED
      BY <3>1, <3>2
  <2>8. CASE ~(holeStart > n \/ end2 > n) /\ ~(br[3] < holeStart)
    <3>1. cov = [err |-> "none", gap |-> gap, whole |-> br[1] = 0 /\ gap = 0, from |-> holeStart, to |-> br[3]]
      BY <1>2, <1>6, <2>8
    <3>2. right
      BY <2>2, <2>4, <2>5, <2>8
    <3>3. gap = n - (br[3] + br[4])
      <4>1. n - end2 \in Int /\ -IntHalf <= n - end2 /\ n - end2 < IntHalf
        <5>1. end2 \in 0..n
          BY <2>2, <2>4, <2>8, SMTT(30)
        <5> QED
          BY <1>1, <5>1
      <4> QED
        BY <2>4, <4>1, WrapIsExact DEF gap
    <3>4. cov.err = "none" /\ cov.gap = gap /\ cov.from = holeStart /\ cov.to = br[3]
      BY <3>1
    <3>5. cov.whole = (br[1] = 0 /\ gap = 0)
      BY <3>1
    <3> QED
      BY <2>4, <3>2, <3>3, <3>4, <3>5
  <2> QED
    BY <2>6, <2>7, <2>8
<1> QED
  BY <1>4, <1>5, <1>6

(* The signer is one of the certificates. *)
LEMMA SignerIsListed ==
  ASSUME NEW sid, NEW certs, certs \in Seq(ToSet(certs))
  PROVE  \A m \in DOMAIN matchSignerCert(sid, certs) :
           \E k \in DOMAIN certs : certs[k] = matchSignerCert(sid, certs)[m]
<1> DEFINE hits == {k \in DOMAIN certs :
                      \/ sid.kind = "issuerSerial" /\ certs[k].issuer = sid.issuer /\ certs[k].serial = sid.serial
                      \/ sid.kind = "keyId" /\ certs[k].ski # "none" /\ certs[k].ski = sid.ski}
           least == CHOOSE k \in hits : \A l \in hits : k <= l
<1>1. matchSignerCert(sid, certs) = IF hits = {} THEN <<>> ELSE <<certs[least]>>
  BY DEF matchSignerCert
<1>2. hits \in SUBSET Nat /\ hits \subseteq DOMAIN certs
  <2>1. DOMAIN certs = 1..Len(certs) /\ Len(certs) \in Nat
    OBVIOUS
  <2> QED
    BY <2>1
<1> HIDE DEF hits
<1>3. CASE hits = {}
  BY <1>1, <1>3
<1>4. CASE hits # {}
  <2>1. least \in hits
    <3>1. \E k \in hits : \A l \in hits : k <= l
      BY <1>2, <1>4, LeastExists
    <3> QED
      BY <3>1
  <2> HIDE DEF least
  <2>2. matchSignerCert(sid, certs) = <<certs[least]>>
    BY <1>1, <1>4
  <2>3. DOMAIN <<certs[least]>> = {1} /\ <<certs[least]>>[1] = certs[least]
    OBVIOUS
  <2> QED
    BY <1>2, <2>1, <2>2, <2>3
<1> QED
  BY <1>3, <1>4

(* A list that keeps some entry has a first one. *)
LEMMA PickedFirst ==
  ASSUME NEW s, s \in Seq(ToSet(s)), NEW keep \in SUBSET (DOMAIN s)
  PROVE  Picked(s, keep) # <<>> => 1 \in DOMAIN Picked(s, keep)
<1>1. Len(s) \in Nat /\ keep \in SUBSET (1..Len(s))
  OBVIOUS
<1>2. IsFiniteSet(1..Len(s))
  <2>1. 1 \in Int /\ Len(s) \in Int
    BY <1>1
  <2> QED
    BY <2>1, FS_Interval
<1>3. Cardinality(keep) \in Nat
  BY <1>1, <1>2, FS_Subset, FS_CardinalityType
<1>4. DOMAIN Picked(s, keep) = 1..Cardinality(keep)
  BY DEF Picked
<1>5. CASE Cardinality(keep) = 0
  <2>1. Picked(s, keep) = [k \in {} |-> s[CHOOSE i \in keep : Cardinality({j \in keep : j <= i}) = k]]
    BY <1>5 DEF Picked
  <2>2. Picked(s, keep) = <<>>
    BY <2>1
  <2> QED
    BY <2>2
<1>6. CASE Cardinality(keep) # 0
  BY <1>3, <1>4, <1>6
<1> QED
  BY <1>5, <1>6

(* What is exported of a signature is what is listed of it. *)
LEMMA ExportMatches ==
  ASSUME NEW v, SigValue(v), v.dict
  PROVE  LET field == Decompose(v).field
             bytes == Decompose(v).bytes
         IN  /\ bytes.certs = field.certs
             /\ (bytes.cms # "none") <=> (IsCMSSubFilter(v.sub) /\ v.contents.readable)
             /\ bytes.undelimited <=> (bytes.cms # "none" /\ field.encoding = "none")
             /\ \A m \in DOMAIN field.signer :
                  \E k \in DOMAIN field.certs : field.certs[k] = field.signer[m]
<1> DEFINE field == Decompose(v).field
           bytes == Decompose(v).bytes
           right == /\ bytes.certs = field.certs
                    /\ (bytes.cms # "none") <=> (IsCMSSubFilter(v.sub) /\ v.contents.readable)
                    /\ bytes.undelimited <=> (bytes.cms # "none" /\ field.encoding = "none")
                    /\ \A m \in DOMAIN field.signer :
                         \E k \in DOMAIN field.certs : field.certs[k] = field.signer[m]
           c == v.contents
<1> SUFFICES right
  OBVIOUS
<1>1. CASE IsCMSSubFilter(v.sub)
  <2> DEFINE res == parseCMSSignedData(c)
             cms == [NoExport EXCEPT !.cms = IF res.encoding = "none" THEN "all" ELSE "element",
                                     !.undelimited = res.encoding = "none"]
             f == [Decomposed EXCEPT !.encoding = res.encoding, !.trailing = res.trailing]
             signer == IF c.signers = <<>> THEN <<>> ELSE matchSignerCert(c.signers[1], c.certs)
  <2>1. /\ cms.cms # "none" /\ cms.certs = <<>>
        /\ cms.undelimited <=> res.encoding = "none"
    BY DEF NoExport
  <2>2. f.encoding = res.encoding /\ f.certs = <<>> /\ f.signer = <<>>
    BY DEF Decomposed
  <2>3. Decompose(v) = decomposeCMS(v)
    BY <1>1 DEF Decompose
  <2>4. CASE ~c.readable
    <3>1. field = [Decomposed EXCEPT !.err = "unreadable"] /\ bytes = NoExport
      BY <2>3, <2>4 DEF decomposeCMS
    <3> QED
      BY <2>4, <3>1 DEF Decomposed, NoExport
  <2>5. CASE c.readable /\ ~(res.ok /\ c.certsOK)
    <3>1. bytes = cms /\ \E e : field = [f EXCEPT !.err = e]
      <4> HIDE DEF res
      <4>1. Decompose(v) = IF ~res.ok THEN [field |-> [f EXCEPT !.err = "cms"], bytes |-> cms]
                                  ELSE [field |-> [f EXCEPT !.err = "certs"], bytes |-> cms]
        BY <2>3, <2>5 DEF decomposeCMS, res
      <4> HIDE DEF f, cms
      <4> QED
        BY <4>1
    <3> HIDE DEF field, bytes, cms, res
    <3>2. field.encoding = res.encoding /\ field.certs = <<>> /\ field.signer = <<>>
      BY <2>2, <3>1 DEF f, Decomposed
    <3> QED
      BY <1>1, <2>1, <2>5, <3>1, <3>2
  <2>6. CASE c.readable /\ res.ok /\ c.certsOK
    <3>1. /\ field = [f EXCEPT !.certs = c.certs, !.signer = signer]
          /\ bytes = [cms EXCEPT !.certs = c.certs]
      <4> HIDE DEF res
      <4>1. Decompose(v) = [field |-> [f EXCEPT !.certs = c.certs, !.signer = signer],
                            bytes |-> [cms EXCEPT !.certs = c.certs]]
        BY <2>3, <2>6 DEF decomposeCMS, res
      <4> HIDE DEF f, cms, signer
      <4> QED
        BY <4>1
    <3>2. \A m \in DOMAIN signer : \E k \in DOMAIN c.certs : c.certs[k] = signer[m]
      <4>1. c.certs \in Seq(ToSet(c.certs))
        BY DEF SigValue
      <4>2. DOMAIN <<>> = {}
        OBVIOUS
      <4> QED
        BY <4>1, <4>2, SignerIsListed
    <3> HIDE DEF field, bytes, signer, res
    <3>3. field.encoding = res.encoding /\ field.certs = c.certs /\ field.signer = signer
      BY <3>1 DEF f, Decomposed
    <3>4. /\ bytes.certs = c.certs /\ bytes.cms # "none"
          /\ bytes.undelimited <=> res.encoding = "none"
      BY <3>1 DEF cms, NoExport
    <3> QED
      BY <1>1, <2>6, <3>2, <3>3, <3>4
  <2> QED
    BY <2>4, <2>5, <2>6 DEF SigValue
<1>2. CASE ~IsCMSSubFilter(v.sub) /\ v.sub = "adbe.x509.rsa_sha1"
  <2> DEFINE certs == Picked(v.cert, {k \in DOMAIN v.cert : v.cert[k].issuer # "unreadable"})
             told == IF certs = <<>> THEN [Decomposed EXCEPT !.err = "no cert"]
                     ELSE [Decomposed EXCEPT !.certs = certs, !.signer = <<certs[1]>>]
             kept == [NoExport EXCEPT !.certs = certs]
  <2>1. field = told /\ bytes = kept
    <3>1. Decompose(v) = [field |-> told, bytes |-> kept]
      BY <1>2 DEF Decompose, decomposeCertEntry
    <3> HIDE DEF told, kept
    <3> QED
      BY <3>1
  <2>2. certs # <<>> => 1 \in DOMAIN certs
    <3>1. v.cert \in Seq(ToSet(v.cert))
      BY DEF SigValue
    <3> QED
      BY <3>1, PickedFirst
  <2> HIDE DEF certs, field, bytes, told, kept
  <2>3. bytes.certs = certs /\ bytes.cms = "none" /\ ~bytes.undelimited
    BY <2>1 DEF NoExport, kept
  <2>4. CASE certs = <<>>
    <3>1. field.certs = <<>> /\ field.signer = <<>>
      BY <2>1, <2>4 DEF Decomposed, told
    <3> QED
      BY <1>2, <2>3, <2>4, <3>1
  <2>5. CASE certs # <<>>
    <3>1. field.certs = certs /\ field.signer = <<certs[1]>>
      BY <2>1, <2>5 DEF Decomposed, told
    <3>2. DOMAIN <<certs[1]>> = {1} /\ <<certs[1]>>[1] = certs[1]
      OBVIOUS
    <3> QED
      BY <1>2, <2>2, <2>3, <2>5, <3>1, <3>2
  <2> QED
    BY <2>4, <2>5
<1>3. CASE ~IsCMSSubFilter(v.sub) /\ v.sub # "adbe.x509.rsa_sha1"
  <2>1. field = Decomposed /\ bytes = NoExport
    BY <1>3 DEF Decompose
  <2> QED
    BY <1>3, <2>1 DEF Decomposed, NoExport
<1> QED
  BY <1>1, <1>2, <1>3

(* No field of the document has been looked at. *)
LEMMA SigInitInv == SigInit => SigInv
<1> SUFFICES ASSUME SigInit PROVE SigInv
  OBVIOUS
<1>1. /\ sigDoc \in SignedDocs /\ todo = Fields /\ sigs = <<>> /\ sink = <<>> /\ refused = "none"
      /\ reading = [at |-> "idle", match |-> FALSE]
      /\ disk = [path |-> 1, ver |-> 0, locked |-> FALSE, events |-> 0]
  BY DEF SigInit, Fields
<1>2. Fields \in Seq(ToSet(Fields))
  BY <1>1, SigFieldsAssumption DEF Fields
<1>3. Len(sigs) = 0 /\ Len(sink) = 0 /\ DOMAIN sigs = {} /\ sigs \in Seq(ToSet(sigs)) /\ sink \in Seq(ToSet(sink))
  BY <1>1
<1>4. SigTypeOK
  BY <1>1, <1>3 DEF SigTypeOK
<1>5. TodoInv
  <2>1. Len(Fields) \in Nat /\ Fields = [k \in 1..Len(Fields) |-> Fields[k]]
    BY <1>2
  <2>2. \A k \in 1..Len(Fields) : Fields[0 + k] = Fields[k]
    BY <2>1
  <2> HIDE DEF Fields
  <2> QED
    BY <1>1, <1>3, <2>1, <2>2 DEF TodoInv
<1> QED
  BY <1>1, <1>3, <1>4, <1>5 DEF SigInv, ReadingInv, ListedInv, RefusalSticks

(* The fields, and the one that is next. *)
LEMMA NextField ==
  ASSUME SigTypeOK, TodoInv
  PROVE  /\ Len(sigs) \in Nat /\ Len(Fields) \in Nat
         /\ \A i \in 1..Len(Fields) : SigValue(Fields[i].V)
         /\ todo # <<>> => /\ Len(sigs) < Len(Fields)
                           /\ Head(todo) = Fields[Len(sigs) + 1]
                           /\ Tail(todo) = [k \in 1..(Len(Fields) - (Len(sigs) + 1)) |->
                                              Fields[(Len(sigs) + 1) + k]]
<1>1. Fields \in Seq(ToSet(Fields)) /\ \A i \in DOMAIN Fields : SigValue(Fields[i].V)
  BY SigFieldsAssumption DEF SigTypeOK, Fields
<1>2. Len(sigs) \in Nat
  BY DEF SigTypeOK
<1> HIDE DEF Fields
<1>3. Len(Fields) \in Nat /\ DOMAIN Fields = 1..Len(Fields) /\ \A i \in 1..Len(Fields) : Fields[i] \in ToSet(Fields)
  BY <1>1
<1> DEFINE n == Len(sigs)
           m == Len(Fields)
           A == ToSet(Fields)
<1>4. n <= m /\ todo = [k \in 1..(m - n) |-> Fields[n + k]]
  BY DEF TodoInv
<1>5. todo \in Seq(A) /\ Len(todo) = m - n
  <2>1. m - n \in Nat /\ \A k \in 1..(m - n) : n + k \in 1..m
    BY <1>2, <1>3, <1>4
  <2>2. \A k \in 1..(m - n) : Fields[n + k] \in A
    BY <1>3, <2>1
  <2> HIDE DEF n, m, A
  <2> QED
    BY <1>4, <2>1, <2>2
<1>6. ASSUME todo # <<>>
      PROVE  /\ n < m /\ Head(todo) = Fields[n + 1]
             /\ Tail(todo) = [k \in 1..(m - (n + 1)) |-> Fields[(n + 1) + k]]
  <2> HIDE DEF n, m, A
  <2>0. n \in Nat /\ m \in Nat
    BY <1>2, <1>3 DEF n, m
  <2>1. n < m
    <3>1. Len(todo) # 0
      BY <1>5, <1>6
    <3> QED
      BY <1>4, <1>5, <2>0, <3>1
  <2>2. Head(todo) = Fields[n + 1]
    <3>1. Head(todo) = todo[1] /\ 1 \in 1..(m - n)
      BY <1>5, <1>6, <2>0, <2>1
    <3> QED
      BY <1>4, <3>1
  <2>3. Tail(todo) \in Seq(A) /\ Len(Tail(todo)) = m - (n + 1)
        /\ \A k \in 1..(m - (n + 1)) : Tail(todo)[k] = todo[k + 1]
    <3>1. Tail(todo) \in Seq(A) /\ Len(Tail(todo)) = Len(todo) - 1
          /\ \A k \in 1..(Len(todo) - 1) : Tail(todo)[k] = todo[k + 1]
      BY <1>5, <1>6
    <3>2. Len(todo) - 1 = m - (n + 1)
      BY <1>5, <2>0
    <3> QED
      BY <3>1, <3>2
  <2>4. \A k \in 1..(m - (n + 1)) : todo[k + 1] = Fields[(n + 1) + k]
    <3> SUFFICES ASSUME NEW k \in 1..(m - (n + 1)) PROVE todo[k + 1] = Fields[(n + 1) + k]
      OBVIOUS
    <3>1. k + 1 \in 1..(m - n) /\ n + (k + 1) = (n + 1) + k
      BY <2>0, <2>1
    <3> QED
      BY <1>4, <3>1
  <2>5. \A s \in Seq(A) : s = [k \in 1..Len(s) |-> s[k]]
    OBVIOUS
  <2> QED
    BY <2>1, <2>2, <2>3, <2>4, <2>5
<1> QED
  BY <1>1, <1>2, <1>3, <1>6

(* A field whose hole check has answered joins the list. *)
LEMMA FieldDoneStep ==
  ASSUME SigInv, todo # <<>>, NEW hole \in BOOLEAN, NEW note \in Notes, FieldDone(hole, note),
         sigDoc' = sigDoc, disk' = disk, refused' \in {"none", "changed", "busy"},
         refused' = refused \/ refused = "none",
         LET v == Head(todo).V IN
           v.dict => /\ hole => v.match /\ NeedsRead(v, CoverageOf(v))
                     /\ note = "none" /\ NeedsRead(v, CoverageOf(v)) => hole = v.match
                     /\ note \in {"changed", "busy"} => refused' = note
                     /\ NeedsRead(v, CoverageOf(v)) /\ refused # "none" => note = refused
  PROVE  SigInv'
<1>0. PICK n \in Nat : n = Len(sigs)
  BY NextField DEF SigInv
<1> DEFINE V(i) == Fields[i].V
           v == Head(todo).V
           new == Listed(v, CoverageOf(v), hole, note)
           out == ExportOf(v)
<1>1. SigTypeOK /\ TodoInv /\ ReadingInv /\ ListedInv /\ RefusalSticks
  BY DEF SigInv
<1>2. /\ n \in Nat /\ Len(Fields) \in Nat /\ n < Len(Fields) /\ v = V(n + 1) /\ SigValue(v)
      /\ Tail(todo) = [k \in 1..(Len(Fields) - (n + 1)) |-> Fields[(n + 1) + k]]
  <2>1. n \in Nat /\ Len(Fields) \in Nat /\ n < Len(Fields)
    BY <1>0, <1>1, NextField
  <2>2. n + 1 \in 1..Len(Fields)
    BY <2>1
  <2> QED
    BY <1>0, <1>1, <2>1, <2>2, NextField
<1>3. /\ sigs' = Append(sigs, new) /\ sink' = Append(sink, out)
      /\ todo' = Tail(todo) /\ reading' = [at |-> "idle", match |-> FALSE]
  <2>1. CASE v.dict
    BY <2>1 DEF FieldDone, CoverageOf, ExportOf
  <2>2. CASE ~v.dict
    <3>1. \A cov : Listed(v, cov, hole, note) = [signed |-> FALSE]
      BY <2>2 DEF Listed
    <3>2. sigs' = Append(sigs, [signed |-> FALSE])
      BY <2>2, <3>1 DEF FieldDone
    <3> QED
      BY <2>2, <3>1, <3>2 DEF FieldDone, ExportOf
  <2> QED
    BY <2>1, <2>2
<1>4. Fields' = Fields /\ \A x : CoverageOf(x)' = CoverageOf(x)
  BY DEF Fields, CoverageOf
<1> HIDE DEF new, out, v
<1>5. /\ sigs' \in Seq(ToSet(sigs')) /\ Len(sigs') = n + 1
      /\ sink' \in Seq(ToSet(sink')) /\ Len(sink') = n + 1
      /\ \A i \in 1..n : sigs'[i] = sigs[i] /\ sink'[i] = sink[i]
      /\ sigs'[n + 1] = new /\ sink'[n + 1] = out
  <2>1. sigs \in Seq(ToSet(sigs)) /\ sink \in Seq(ToSet(sink)) /\ Len(sink) = n
    BY <1>0, <1>1 DEF SigTypeOK
  <2> QED
    BY <1>0, <1>3, <2>1, Appended
<1>6. SigTypeOK'
  BY <1>1, <1>3, <1>5 DEF SigTypeOK
<1>7. TodoInv'
  <2>1. n + 1 <= Len(Fields)
    BY <1>2
  <2> QED
    BY <1>2, <1>3, <1>4, <1>5, <2>1 DEF TodoInv
<1>8. ReadingInv'
  BY <1>3 DEF ReadingInv
<1>9. \A i \in 1..(n + 1) : i \in 1..n \/ i = n + 1
  BY <1>2
<1>10. ASSUME NEW i \in 1..n
       PROVE  /\ sink'[i] = ExportOf(V(i))
              /\ \E h \in BOOLEAN, k \in Notes :
                   sigs'[i] = Listed(V(i), CoverageOf(V(i)), h, k) /\ Verdict(V(i), h, k)'
  <2>1. PICK h \in BOOLEAN, k \in Notes :
          sigs[i] = Listed(V(i), CoverageOf(V(i)), h, k) /\ Verdict(V(i), h, k)
    BY <1>0, <1>1 DEF ListedInv
  <2>2. sink[i] = ExportOf(V(i))
    BY <1>0, <1>1 DEF ListedInv
  <2>3. Verdict(V(i), h, k)'
    <3>1. V(i).dict /\ k \in {"changed", "busy"} => refused = k
      BY <2>1 DEF Verdict
    <3>2. V(i).dict /\ k \in {"changed", "busy"} => refused' = k
      BY <3>1
    <3>3. CoverageOf(V(i))' = CoverageOf(V(i)) /\ V(i)' = V(i)
      BY <1>4
    <3> QED
      BY <2>1, <3>2, <1>4 DEF Verdict
  <2> QED
    BY <1>5, <2>1, <2>2, <2>3
<1>11. /\ new = Listed(V(n + 1), CoverageOf(V(n + 1)), hole, note) /\ out = ExportOf(V(n + 1))
       /\ Verdict(V(n + 1), hole, note)'
  <2>1. new = Listed(v, CoverageOf(v), hole, note) /\ out = ExportOf(v)
    BY DEF new, out
  <2>2. Verdict(V(n + 1), hole, note)'
    <3>1. v.dict => /\ hole => v.match /\ NeedsRead(v, CoverageOf(v))
                    /\ note = "none" /\ NeedsRead(v, CoverageOf(v)) => hole = v.match
                    /\ note \in {"changed", "busy"} => refused' = note
      BY DEF v
    <3>2. V(n + 1)' = v /\ CoverageOf(V(n + 1))' = CoverageOf(v) /\ v = V(n + 1)
      BY <1>2, <1>4
    <3> QED
      BY <3>1, <3>2 DEF Verdict
  <2> QED
    BY <1>2, <2>1, <2>2
<1>12. ListedInv'
  <2>1. ASSUME NEW i \in 1..(n + 1)
        PROVE  /\ sink'[i] = ExportOf(V(i))
               /\ \E h \in BOOLEAN, k \in Notes :
                    sigs'[i] = Listed(V(i), CoverageOf(V(i)), h, k) /\ Verdict(V(i), h, k)'
    BY <1>5, <1>9, <1>10, <1>11
  <2>2. \A i : V(i)' = V(i) /\ CoverageOf(V(i))' = CoverageOf(V(i))
    BY <1>4
  <2> QED
    BY <1>5, <2>1, <2>2 DEF ListedInv
<1>13. RefusalSticks'
  <2> SUFFICES ASSUME NEW i \in 1..(n + 1), NEW j \in 1..(n + 1), i < j,
                      sigs'[i].signed, sigs'[j].signed, sigs'[i].holeErr \in {"changed", "busy"},
                      NeedsRead(V(j), sigs'[j].coverage)
               PROVE  sigs'[j].holeErr = sigs'[i].holeErr
    <3>1. DOMAIN sigs' = 1..(n + 1)
      BY <1>5
    <3> QED
      BY <1>4, <3>1 DEF RefusalSticks
  <2>1. i \in 1..n
    BY <1>2
  <2>2. CASE j \in 1..n
    <3>1. DOMAIN sigs = 1..n
      BY <1>0, <1>1 DEF SigTypeOK
    <3> QED
      BY <1>1, <1>5, <2>1, <2>2, <3>1 DEF RefusalSticks
  <2>3. CASE j = n + 1
    <3>1. PICK h \in BOOLEAN, k \in Notes :
            sigs[i] = Listed(V(i), CoverageOf(V(i)), h, k) /\ Verdict(V(i), h, k)
      BY <1>0, <1>1, <2>1 DEF ListedInv
    <3>2. V(i).dict /\ k = sigs'[i].holeErr
      BY <1>5, <2>1, <3>1 DEF Listed
    <3>3. refused = k /\ refused # "none"
      BY <3>1, <3>2 DEF Verdict
    <3>4. new.signed /\ NeedsRead(v, new.coverage)
      BY <1>2, <1>5, <2>3
    <3>5. v.dict /\ new.coverage = CoverageOf(v) /\ new.holeErr = note
      BY <3>4 DEF Listed, new
    <3>6. note = refused
      BY <3>3, <3>4, <3>5 DEF v
    <3> QED
      BY <1>5, <2>3, <3>2, <3>3, <3>5, <3>6
  <2> QED
    BY <1>9, <2>2, <2>3
<1> QED
  BY <1>6, <1>7, <1>8, <1>12, <1>13 DEF SigInv

(* Where the hole check is, of the field that is next. *)
LEMMA ReadingAt ==
  ASSUME SigInv, reading.at # "idle"
  PROVE  LET v == Head(todo).V IN
         /\ todo # <<>> /\ refused = "none" /\ v.dict /\ v.match \in BOOLEAN
         /\ NeedsRead(v, CoverageOf(v))
         /\ reading.at = "verify" /\ disk.ver = 0 => reading.match = v.match
<1>1. SigTypeOK /\ TodoInv /\ ReadingInv
  BY DEF SigInv
<1>2. todo # <<>> /\ Head(todo) = Fields[Len(sigs) + 1] /\ SigValue(Head(todo).V)
  <2>1. todo # <<>>
    BY <1>1 DEF ReadingInv
  <2>2. /\ Len(sigs) \in Nat /\ Len(Fields) \in Nat /\ Len(sigs) < Len(Fields)
        /\ Head(todo) = Fields[Len(sigs) + 1]
    BY <1>1, <2>1, NextField
  <2>3. Len(sigs) + 1 \in 1..Len(Fields)
    BY <2>2
  <2> QED
    BY <1>1, <2>1, <2>2, <2>3, NextField
<1> QED
  BY <1>1, <1>2 DEF ReadingInv, SigValue

(* A read that is refused, or fails, is answered at once. *)
LEMMA UnreadStep ==
  ASSUME SigInv, reading.at # "idle", sigDoc' = sigDoc, disk' = disk,
         \/ Refuse("changed") \/ Refuse("busy")
         \/ FieldDone(FALSE, "other") /\ refused' = refused
  PROVE  SigInv'
<1>1. todo # <<>> /\ refused = "none"
  BY ReadingAt
<1>2. SigTypeOK
  BY DEF SigInv
<1>3. CASE Refuse("changed")
  BY <1>1, <1>3, FieldDoneStep DEF Refuse, Notes
<1>4. CASE Refuse("busy")
  BY <1>1, <1>4, FieldDoneStep DEF Refuse, Notes
<1>5. CASE FieldDone(FALSE, "other") /\ refused' = refused
  BY <1>1, <1>2, <1>5, FieldDoneStep DEF Notes, SigTypeOK
<1> QED
  BY <1>3, <1>4, <1>5

(* The hole check goes one step further. *)
LEMMA ReadOnStep ==
  ASSUME SigInv, UNCHANGED <<sigDoc, todo, sigs, sink, refused>>,
         reading' \in [at : {"open", "read", "verify"}, match : BOOLEAN],
         disk' \in [path : {0, 1, 2}, ver : {0, 1}, locked : BOOLEAN, events : Nat],
         todo # <<>>, refused = "none",
         LET v == Head(todo).V IN
           /\ v.dict /\ NeedsRead(v, CoverageOf(v))
           /\ reading'.at = "verify" /\ disk'.ver = 0 => reading'.match = v.match
  PROVE  SigInv'
<1>1. SigTypeOK /\ TodoInv /\ ReadingInv /\ ListedInv /\ RefusalSticks
  BY DEF SigInv
<1>2. Head(todo) = Fields[Len(sigs) + 1]
  BY <1>1, NextField
<1>3. Fields' = Fields /\ \A x : CoverageOf(x)' = CoverageOf(x)
  BY DEF Fields, CoverageOf
<1>4. SigTypeOK'
  BY <1>1 DEF SigTypeOK
<1>5. TodoInv'
  BY <1>1, <1>3 DEF TodoInv
<1>6. ReadingInv'
  BY <1>2, <1>3 DEF ReadingInv
<1>7. ListedInv' /\ RefusalSticks'
  BY <1>1, <1>3 DEF ListedInv, RefusalSticks, Verdict
<1> QED
  BY <1>4, <1>5, <1>6, <1>7 DEF SigInv

(* buildSignatureField up to the file. *)
LEMMA BuildStep == SigInv /\ buildSignatureField => SigInv'
<1> SUFFICES ASSUME SigInv, buildSignatureField PROVE SigInv'
  OBVIOUS
<1> DEFINE v == Head(todo).V
<1>1. /\ reading.at = "idle" /\ todo # <<>> /\ refused' = refused /\ UNCHANGED <<sigDoc, disk>>
      /\ SigTypeOK
  BY DEF buildSignatureField, SigInv
<1>2. refused \in {"none", "changed", "busy"} /\ {"none", "changed", "busy"} \subseteq Notes
      /\ disk \in [path : {0, 1, 2}, ver : {0, 1}, locked : BOOLEAN, events : Nat]
  BY <1>1 DEF SigTypeOK, Notes
<1>3. CASE ~v.dict /\ FieldDone(FALSE, "none")
  BY <1>1, <1>2, <1>3, FieldDoneStep
<1>4. CASE v.dict /\ ~NeedsRead(v, CoverageOf(v)) /\ FieldDone(FALSE, "none")
  BY <1>1, <1>2, <1>4, FieldDoneStep
<1>5. CASE v.dict /\ NeedsRead(v, CoverageOf(v)) /\ refused # "none" /\ FieldDone(FALSE, refused)
  BY <1>1, <1>2, <1>5, FieldDoneStep
<1>6. CASE /\ v.dict /\ NeedsRead(v, CoverageOf(v)) /\ refused = "none"
           /\ reading' = [at |-> "open", match |-> FALSE] /\ UNCHANGED <<sigs, sink, todo>>
  BY <1>1, <1>2, <1>6, ReadOnStep
<1> QED
  BY <1>3, <1>4, <1>5, <1>6 DEF buildSignatureField, CoverageOf

(* The file is opened. *)
LEMMA OpenStep == SigInv /\ openVerified => SigInv'
<1> SUFFICES ASSUME SigInv, openVerified PROVE SigInv'
  OBVIOUS
<1>1. reading.at = "open" /\ UNCHANGED <<sigDoc, disk>> /\ SigTypeOK
  BY DEF openVerified, SigInv
<1>2. CASE Refuse("changed") \/ Refuse("busy") \/ (FieldDone(FALSE, "other") /\ refused' = refused)
  BY <1>1, <1>2, UnreadStep
<1>3. CASE reading' = [reading EXCEPT !.at = "read"] /\ UNCHANGED <<refused, sigs, sink, todo>>
  <2>1. /\ reading' \in [at : {"open", "read", "verify"}, match : BOOLEAN] /\ reading'.at = "read"
        /\ disk' \in [path : {0, 1, 2}, ver : {0, 1}, locked : BOOLEAN, events : Nat]
    BY <1>1, <1>3 DEF SigTypeOK
  <2> QED
    BY <1>1, <1>3, <2>1, ReadingAt, ReadOnStep
<1> QED
  BY <1>2, <1>3 DEF openVerified

(* The hole is read. *)
LEMMA ReadStep == SigInv /\ readFileSpan => SigInv'
<1> SUFFICES ASSUME SigInv, readFileSpan PROVE SigInv'
  OBVIOUS
<1>1. reading.at = "read" /\ UNCHANGED <<sigDoc, disk>> /\ SigTypeOK
  BY DEF readFileSpan, SigInv
<1>2. CASE Refuse("changed") \/ Refuse("busy") \/ (FieldDone(FALSE, "other") /\ refused' = refused)
  BY <1>1, <1>2, UnreadStep
<1>3. ASSUME NEW m \in BOOLEAN, disk.ver = 0 => m = Head(todo).V.match,
             reading' = [at |-> "verify", match |-> m], UNCHANGED <<refused, sigs, sink, todo>>
      PROVE  SigInv'
  <2>1. /\ reading' \in [at : {"open", "read", "verify"}, match : BOOLEAN] /\ reading'.match = m
        /\ disk' \in [path : {0, 1, 2}, ver : {0, 1}, locked : BOOLEAN, events : Nat]
    BY <1>1, <1>3 DEF SigTypeOK
  <2> QED
    BY <1>1, <1>3, <2>1, ReadingAt, ReadOnStep
<1> QED
  BY <1>2, <1>3 DEF readFileSpan

(* What was read is believed only of the file that was opened. *)
LEMMA VerifyStep == SigInv /\ verifyHandle => SigInv'
<1> SUFFICES ASSUME SigInv, verifyHandle PROVE SigInv'
  OBVIOUS
<1> DEFINE v == Head(todo).V
<1>1. reading.at = "verify" /\ UNCHANGED <<sigDoc, disk>> /\ SigTypeOK
  BY DEF verifyHandle, SigInv
<1>2. CASE Refuse("changed")
  BY <1>1, <1>2, UnreadStep
<1>3. CASE Matches(1) /\ FieldDone(reading.match, "none") /\ refused' = refused
  <2>1. disk.ver = 0
    BY <1>3 DEF Matches
  <2>2. todo # <<>> /\ refused = "none" /\ NeedsRead(v, CoverageOf(v)) /\ reading.match = v.match
    BY <1>1, <2>1, ReadingAt
  <2>3. reading.match \in BOOLEAN /\ "none" \in Notes /\ refused' \in {"none", "changed", "busy"}
    BY <1>1, <1>3 DEF SigTypeOK, Notes
  <2> QED
    BY <1>1, <1>3, <2>2, <2>3, FieldDoneStep
<1> QED
  BY <1>2, <1>3 DEF verifyHandle

(* Another program's doing: a file that was changed stays changed. *)
LEMMA DiskStep == SigInv /\ DiskEvent => SigInv'
<1> SUFFICES ASSUME SigInv, DiskEvent PROVE SigInv'
  OBVIOUS
<1>1. /\ SigTypeOK /\ UNCHANGED <<sigDoc, todo, sigs, sink, refused, reading>>
      /\ TodoInv /\ ReadingInv /\ ListedInv /\ RefusalSticks
  BY DEF DiskEvent, SigInv
<1>2. disk \in [path : {0, 1, 2}, ver : {0, 1}, locked : BOOLEAN, events : Nat]
  BY <1>1 DEF SigTypeOK
<1>3. /\ disk' \in [path : {0, 1, 2}, ver : {0, 1}, locked : BOOLEAN, events : Nat]
      /\ disk'.ver = 0 => disk.ver = 0
  <2>1. PICK d \in {[disk EXCEPT !.ver = 1], [disk EXCEPT !.path = 2], [disk EXCEPT !.path = 0],
                    [disk EXCEPT !.path = 1], [disk EXCEPT !.locked = ~@]} :
          disk' = [d EXCEPT !.events = @ + 1]
    BY DEF DiskEvent
  <2>2. /\ d \in [path : {0, 1, 2}, ver : {0, 1}, locked : BOOLEAN, events : Nat]
        /\ d.ver = 0 => disk.ver = 0
    BY <1>2
  <2> QED
    BY <2>1, <2>2
<1>4. Fields' = Fields /\ \A x : CoverageOf(x)' = CoverageOf(x)
  BY <1>1 DEF Fields, CoverageOf
<1>5. SigTypeOK' /\ TodoInv'
  BY <1>1, <1>3, <1>4 DEF SigTypeOK, TodoInv
<1>6. ReadingInv'
  BY <1>1, <1>3, <1>4 DEF ReadingInv
<1>7. ListedInv' /\ RefusalSticks'
  BY <1>1, <1>4 DEF ListedInv, RefusalSticks, Verdict
<1> QED
  BY <1>5, <1>6, <1>7 DEF SigInv

(* Every step keeps SigInv. *)
LEMMA SigNextInv == SigInv /\ [SigNext]_sigVars => SigInv'
<1> SUFFICES ASSUME SigInv, [SigNext]_sigVars PROVE SigInv'
  OBVIOUS
<1>1. CASE UNCHANGED sigVars
  BY <1>1 DEF sigVars, SigInv, SigTypeOK, TodoInv, ReadingInv, ListedInv, RefusalSticks, Verdict,
              Fields, CoverageOf
<1> QED
  BY <1>1, BuildStep, OpenStep, ReadStep, VerifyStep, DiskStep DEF SigNext, SigReturned

(* What is listed of a document is right. *)
LEMMA SigInvIsRight == SigInv => SignaturesAreRight
<1> SUFFICES ASSUME SigInv PROVE SignaturesAreRight
  OBVIOUS
<1> DEFINE V(i) == Fields[i].V
<1>0. PICK n \in Nat : n = Len(sigs)
  BY NextField DEF SigInv
<1>1. SigTypeOK /\ TodoInv /\ ListedInv /\ RefusalSticks /\ DOMAIN sigs = 1..n /\ Len(sink) = n
  BY <1>0 DEF SigInv, SigTypeOK
<1>2. n <= Len(Fields) /\ Len(Fields) \in Nat /\ Len(todo) = Len(Fields) - n
  <2>1. n <= Len(Fields) /\ Len(Fields) \in Nat
    BY <1>0, <1>1, NextField DEF TodoInv
  <2>2. todo = [k \in 1..(Len(Fields) - n) |-> Fields[n + k]] /\ Len(Fields) - n \in Nat
    BY <1>0, <1>1, <2>1 DEF TodoInv
  <2>3. Len(todo) = Len(Fields) - n
    BY <2>2
  <2> QED
    BY <2>1, <2>3
<1>3. sigDoc.size \in Nat /\ 2 * sigDoc.size < IntHalf /\ IntHalf \in Nat
  BY <1>1, SignatureAssumption DEF SigTypeOK
<1>4. ASSUME NEW i \in 1..n, sigs[i].signed
      PROVE  /\ V(i).dict /\ SigValue(V(i)) /\ sink[i] = Decompose(V(i)).bytes
             /\ sigs[i].field = Decompose(V(i)).field /\ sigs[i].coverage = CoverageOf(V(i))
             /\ sigs[i].hole => V(i).match /\ NeedsRead(V(i), CoverageOf(V(i)))
             /\ sigs[i].holeErr = "none" /\ NeedsRead(V(i), CoverageOf(V(i))) => sigs[i].hole = V(i).match
  <2>1. PICK h \in BOOLEAN, k \in Notes :
          sigs[i] = Listed(V(i), CoverageOf(V(i)), h, k) /\ Verdict(V(i), h, k)
    BY <1>0, <1>1 DEF ListedInv
  <2>2. sink[i] = ExportOf(V(i)) /\ i \in 1..Len(Fields)
    BY <1>0, <1>1, <1>2 DEF ListedInv
  <2>3. SigValue(V(i))
    BY <1>1, <2>2, NextField
  <2>4. V(i).dict
    BY <1>4, <2>1 DEF Listed
  <2>5. sigs[i] = [signed |-> TRUE, coverage |-> CoverageOf(V(i)), hole |-> h, holeErr |-> k,
                   field |-> Decompose(V(i)).field]
    BY <2>1, <2>4 DEF Listed
  <2> HIDE DEF V
  <2>6. sigs[i].coverage = CoverageOf(V(i)) /\ sigs[i].hole = h /\ sigs[i].holeErr = k
        /\ sigs[i].field = Decompose(V(i)).field
    BY <2>5
  <2> QED
    BY <2>1, <2>2, <2>3, <2>4, <2>6 DEF Verdict, ExportOf
<1>5. ASSUME NEW i \in 1..n, ~sigs[i].signed
      PROVE  sink[i] = NoExport
  <2>1. PICK h \in BOOLEAN, k \in Notes : sigs[i] = Listed(V(i), CoverageOf(V(i)), h, k)
    BY <1>0, <1>1 DEF ListedInv
  <2>2. sink[i] = ExportOf(V(i))
    BY <1>0, <1>1 DEF ListedInv
  <2>3. ~V(i).dict
    BY <1>5, <2>1 DEF Listed
  <2> QED
    BY <2>2, <2>3 DEF ExportOf
<1>6. HoleVerdicts
  BY <1>1, <1>4 DEF HoleVerdicts, NeedsRead
<1>7. ExportsAligned
  <2>1. ASSUME NEW i \in 1..n, sigs[i].signed
        PROVE  /\ sink[i].certs = sigs[i].field.certs
               /\ (sink[i].cms # "none") <=> (IsCMSSubFilter(V(i).sub) /\ V(i).contents.readable)
               /\ sink[i].undelimited <=> (sink[i].cms # "none" /\ sigs[i].field.encoding = "none")
               /\ \A m \in DOMAIN sigs[i].field.signer :
                    \E k \in DOMAIN sigs[i].field.certs : sigs[i].field.certs[k] = sigs[i].field.signer[m]
    BY <1>4, <2>1, ExportMatches
  <2>2. Len(sink) = Len(sigs) /\ Len(sigs) + Len(todo) = Len(Fields)
    BY <1>0, <1>1, <1>2
  <2> QED
    BY <1>1, <1>5, <2>1, <2>2 DEF ExportsAligned
<1>8. CoverageIsRight
  <2> SUFFICES ASSUME NEW i \in 1..n, sigs[i].signed
               PROVE  LET br  == Fields[i].V.range.ints
                          cov == sigs[i].coverage
                          in  == Fields[i].V.range.is = "integers" /\ Len(br) = 4 /\ \A k \in DOMAIN br : br[k] \in Nat
                          bytes == (br[1]..(br[1] + br[2] - 1)) \cup (br[3]..(br[3] + br[4] - 1))
                          file  == 0..(sigDoc.size - 1)
                      IN  /\ cov.err = "none" <=> /\ in
                                                  /\ {br[1], br[1] + br[2], br[3], br[3] + br[4]} \subseteq 0..sigDoc.size
                                                  /\ br[1] + br[2] <= br[3]
                          /\ cov.err = "none" => /\ bytes \subseteq file
                                                 /\ (cov.from..(cov.to - 1)) \cap bytes = {}
                                                 /\ cov.gap = Cardinality({b \in file : b >= br[3] + br[4]})
                                                 /\ cov.whole <=> (file \subseteq bytes \cup (cov.from..(cov.to - 1)))
    BY <1>1 DEF CoverageIsRight
  <2> DEFINE range == V(i).range
             br  == range.ints
             cov == sigs[i].coverage
             size == sigDoc.size
             in  == range.is = "integers" /\ Len(br) = 4 /\ \A k \in DOMAIN br : br[k] \in Nat
             right == /\ in
                      /\ {br[1], br[1] + br[2], br[3], br[3] + br[4]} \subseteq 0..size
                      /\ br[1] + br[2] <= br[3]
             bytes == (br[1]..(br[1] + br[2] - 1)) \cup (br[3]..(br[3] + br[4] - 1))
             file  == 0..(size - 1)
             hole  == cov.from..(cov.to - 1)
  <2>1. range.is # "none" /\ br \in Seq(Int) /\ cov = computeByteRangeCoverage(range, size)
    BY <1>4 DEF SigValue, CoverageOf
  <2>2. /\ cov.err = "none" <=> right
        /\ cov.err = "none" => /\ cov.from = br[1] + br[2] /\ cov.to = br[3]
                               /\ cov.gap = size - (br[3] + br[4])
                               /\ cov.whole <=> br[1] = 0 /\ cov.gap = 0
    <3>1. size \in Nat /\ 2 * size < IntHalf /\ IntHalf \in Nat
      BY <1>3
    <3> HIDE DEF range, size, V, cov
    <3> QED
      BY <2>1, <3>1, Measured, Zenon
  <2>3. ASSUME cov.err = "none"
        PROVE  /\ bytes \subseteq file /\ hole \cap bytes = {}
               /\ cov.gap = Cardinality({b \in file : b >= br[3] + br[4]})
               /\ cov.whole <=> file \subseteq bytes \cup hole
    <3>1. right
      BY <2>2, <2>3
    <3> HIDE DEF range, cov, size, V
    <3>2. DOMAIN br = 1..4
      BY <2>1, <3>1, SMTT(30)
    <3>3. br[1] \in Nat /\ br[2] \in Nat /\ br[3] \in Nat /\ br[4] \in Nat
      BY <3>1, <3>2
    <3>4. size \in Nat /\ br[1] + br[2] <= br[3] /\ br[3] + br[4] <= size
      BY <1>3, <3>1 DEF size
    <3> HIDE DEF br
    <3>5. /\ bytes \subseteq file /\ ((br[1] + br[2])..(br[3] - 1)) \cap bytes = {}
          /\ (br[1] = 0 /\ size - (br[3] + br[4]) = 0) <=>
               file \subseteq bytes \cup ((br[1] + br[2])..(br[3] - 1))
      BY <3>3, <3>4, SignedBytes
    <3>6. Cardinality({b \in file : b >= br[3] + br[4]}) = size - (br[3] + br[4])
      <4>1. br[3] + br[4] \in Nat
        BY <3>3
      <4>2. Cardinality({x \in 0..(size - 1) : x >= br[3] + br[4]}) = size - (br[3] + br[4])
        BY <3>4, <4>1, IntervalSize, Zenon
      <4> QED
        BY <4>2, Zenon
    <3> HIDE DEF bytes, file
    <3> QED
      BY <2>2, <2>3, <3>5, <3>6 DEF hole
  <2> QED
    BY <2>2, <2>3
<1> QED
  BY <1>1, <1>6, <1>7, <1>8 DEF SignaturesAreRight

(* SignaturesAreRight holds of any document below 2^62 bytes, whatever its
   signature fields and whatever other programs do to the file meanwhile
   (getSignatures, GetSignatureBytes): coverage is measured in whole numbers,
   a verdict on the hole comes from the file that was opened, one refusal
   stands for the rest, and the exports are those of the fields listed. *)
THEOREM SignaturesSound == SigSpec => []SignaturesAreRight
<1> QED
  BY SigInitInv, SigNextInv, SigInvIsRight, PTL DEF SigSpec

(***************************************************************************)
(* What the exports of signatures write (SignatureExport): nothing over    *)
(* the input PDF, nothing over another export.  Two paths are apart when   *)
(* writing through one cannot change what is read through the other; the   *)
(* checks before the first write establish it of the paths that matter,    *)
(* and every write keeps it.                                               *)
(***************************************************************************)

(* Two paths that no write through one can confuse with the other: their   *)
(* names differ, and they do not lead to the same thing.                   *)
Apart(fs, a, b) ==
  /\ a.dir \in DOMAIN fs.dirs /\ b.dir \in DOMAIN fs.dirs => Entry(fs, a) # Entry(fs, b)
  /\ Stat(fs, a) = Stat(fs, b) => Stat(fs, a) = Missing

(* What the checks before the first write make sure of, and every write    *)
(* keeps.                                                                  *)
PathsApart(fs, req) ==
  /\ \A f \in exportFiles(req) : Apart(fs, f.path, req.input)
  /\ \A f \in certFiles(req), g \in cmsFiles(req) : Apart(fs, f.path, g.path)
  /\ Unlinked(req.fs, req) =>
       \A f, g \in certFiles(req) : f # g => Apart(fs, f.path, g.path)

(* The inductive invariant. *)
ExportInv ==
  /\ exRequest \in ExportRequests
  /\ DiskOK(exDisk)
  /\ exWritten \subseteq exportFiles(exRequest)
  /\ InputKept
  /\ NoneOverwritten
  /\ exStep \in {"select", "mkdir", "paths"} => exWritten = {}
  /\ exStep \in {"select", "mkdir"} => exDisk = exRequest.fs
  /\ exStep = "paths" /\ Unlinked(exRequest.fs, exRequest) => Unlinked(exDisk, exRequest)
  /\ exStep = "write" => PathsApart(exDisk, exRequest)
  /\ exStep \in {"mkdir", "paths", "write"} \/ exCode = 0 => ~SelectionFails(exRequest)
  /\ exCode = 0 => exWritten = exportFiles(exRequest)
  /\ exStep # "end" => exCode = NoExit

(* A path whose directory exists and whose name is that of another leads   *)
(* where the other does.                                                   *)
LEMMA EntryDecides ==
  ASSUME NEW fs, NEW a, NEW b, a.dir \in DOMAIN fs.dirs, b.dir \in DOMAIN fs.dirs,
         Entry(fs, a) = Entry(fs, b)
  PROVE  a.stem = b.stem /\ fs.dirs[a.dir] = fs.dirs[b.dir] /\ Stat(fs, a) = Stat(fs, b)
<1>1. a.stem = b.stem /\ fs.dirs[a.dir] = fs.dirs[b.dir]
  BY Zenon DEF Entry
<1> QED  BY <1>1 DEF Stat, IsDirectory

(* Being apart does not depend on the order. *)
LEMMA ApartSymmetric ==
  ASSUME NEW fs, NEW a, NEW b, Apart(fs, a, b)
  PROVE  Apart(fs, b, a)
BY DEF Apart

(* samePath misses no way of overwriting one path through the other. *)
LEMMA SamePathIsEnough ==
  ASSUME NEW fs, NEW a, NEW b, ~samePath(fs, a, b)
  PROVE  Apart(fs, a, b)
<1>1. Stat(fs, a) = Stat(fs, b) => Stat(fs, a) = Missing
  BY DEF samePath
<1>2. ASSUME a.dir \in DOMAIN fs.dirs, b.dir \in DOMAIN fs.dirs, Entry(fs, a) = Entry(fs, b)
      PROVE  FALSE
  BY <1>2, EntryDecides DEF samePath
<1> QED  BY <1>1, <1>2 DEF Apart

(* What the file system new is once what was written to p of fs: the number *)
(* of the file, its contents, and all else as it was.                      *)
Wrote(fs, p, what, new, file) ==
  /\ new.data \in Seq(Contents)
  /\ new.dirs = fs.dirs
  /\ Len(fs.data) \in Nat /\ Len(new.data) \in Nat
  /\ Len(fs.data) <= Len(new.data) /\ file <= Len(new.data)
  /\ new.data[file] = what
  /\ \A k \in 1..Len(fs.data) : k # file => new.data[k] = fs.data[k]
  /\ DOMAIN new.entries = DOMAIN fs.entries \cup {Entry(fs, p)}
  /\ new.entries[Entry(fs, p)] = file
  /\ \A x \in DOMAIN fs.entries : x # Entry(fs, p) => new.entries[x] = fs.entries[x]
  /\ IF Entry(fs, p) \in DOMAIN fs.entries THEN fs.entries[Entry(fs, p)] = file
     ELSE file = Len(fs.data) + 1
  /\ \A q : Entry(new, q) = Entry(fs, q) /\ (IsDirectory(new, q) <=> IsDirectory(fs, q))

(* What a write makes of the file system. *)
LEMMA WriteFacts ==
  ASSUME NEW fs, DiskOK(fs), NEW p, Writable(fs, p), NEW what \in Contents,
         NEW new, new = WriteFile(fs, p, what)
  PROVE  \E file \in 1..(Len(fs.data) + 1) : Wrote(fs, p, what, new, file)
<1> DEFINE n == Len(fs.data)
           e == Entry(fs, p)
           file == IF Stat(fs, p) = Missing THEN n + 1 ELSE Stat(fs, p)[2]
<1>1. fs.data \in Seq(Contents) /\ n \in Nat
  BY DEF DiskOK
<1>2. /\ new.cased = fs.cased /\ new.dirs = fs.dirs
      /\ DOMAIN new.entries = DOMAIN fs.entries \cup {e}
      /\ \A x \in DOMAIN fs.entries \cup {e} : new.entries[x] = IF x = e THEN file ELSE fs.entries[x]
      /\ new.data = IF file > n THEN Append(fs.data, what) ELSE [fs.data EXCEPT ![file] = what]
  BY DEF WriteFile
<1>3. IF e \in DOMAIN fs.entries THEN fs.entries[e] = file /\ file \in 1..n ELSE file = n + 1
  <2>1. CASE e \in DOMAIN fs.entries
    <3>1. Stat(fs, p) = <<"file", fs.entries[e]>>
      BY <2>1 DEF Stat, Writable
    <3>2. file = fs.entries[e]
      BY <3>1 DEF Missing
    <3> QED  BY <2>1, <3>2 DEF DiskOK
  <2>2. CASE e \notin DOMAIN fs.entries
    BY <2>2 DEF Stat, Writable
  <2> QED  BY <2>1, <2>2
<1>4. /\ new.data \in Seq(Contents) /\ Len(new.data) \in Nat
      /\ n <= Len(new.data) /\ file <= Len(new.data) /\ new.data[file] = what
      /\ \A k \in 1..n : k # file => new.data[k] = fs.data[k]
  <2>1. CASE file = n + 1
    <3>1. new.data = Append(fs.data, what)
      BY <1>1, <1>2, <2>1
    <3> QED  BY <1>1, <2>1, <3>1
  <2>2. CASE file \in 1..n
    <3>1. new.data = [fs.data EXCEPT ![file] = what]
      BY <1>1, <1>2, <2>2
    <3>2. new.data \in Seq(Contents) /\ Len(new.data) = n
      BY <1>1, <2>2, <3>1
    <3> QED  BY <1>1, <2>2, <3>1, <3>2
  <2> QED  BY <1>3, <2>1, <2>2
<1>5. \A q : Entry(new, q) = Entry(fs, q) /\ (IsDirectory(new, q) <=> IsDirectory(fs, q))
  BY <1>2 DEF Entry, IsDirectory
<1>6. file \in 1..(n + 1)
  BY <1>1, <1>3
<1>7. Wrote(fs, p, what, new, file)
  <2> HIDE DEF file
  <2> QED  BY <1>1, <1>2, <1>3, <1>4, <1>5 DEF Wrote
<1> QED  BY <1>6, <1>7

(* The path q has the directory and the name of the file p. *)
Named(fs, p, q) == ~IsDirectory(fs, q) /\ q.dir \in DOMAIN fs.dirs /\ Entry(fs, q) = Entry(fs, p)

(* Where paths lead after a write. *)
LEMMA WriteStat ==
  ASSUME NEW fs, NEW p, NEW what, NEW new, NEW file,
         Wrote(fs, p, what, new, file),
         NEW q
  PROVE  /\ Named(fs, p, q) => Stat(new, q) = <<"file", file>>
         /\ ~Named(fs, p, q) => Stat(new, q) = Stat(fs, q)
<1>1. CASE IsDirectory(fs, q)
  BY <1>1 DEF Stat, Wrote, Named
<1>2. CASE ~IsDirectory(fs, q) /\ q.dir \notin DOMAIN fs.dirs
  BY <1>2 DEF Stat, Wrote, Named
<1>3. CASE ~IsDirectory(fs, q) /\ q.dir \in DOMAIN fs.dirs /\ Entry(fs, q) = Entry(fs, p)
  BY <1>3 DEF Stat, Wrote, Named
<1>4. CASE ~IsDirectory(fs, q) /\ q.dir \in DOMAIN fs.dirs /\ Entry(fs, q) # Entry(fs, p)
  BY <1>4 DEF Stat, Wrote, Named
<1> QED  BY <1>1, <1>2, <1>3, <1>4

(* A write gives its path what was written, and no path apart from it      *)
(* anything else; and paths that were apart stay apart.                    *)
LEMMA WriteKeeps ==
  ASSUME NEW fs, DiskOK(fs), NEW p, Writable(fs, p), NEW what \in Contents,
         NEW new, new = WriteFile(fs, p, what)
  PROVE  /\ DiskOK(new)
         /\ Read(new, p) = what
         /\ \A q : Apart(fs, p, q) => Read(new, q) = Read(fs, q)
         /\ \A a, b : Apart(fs, a, b) => Apart(new, a, b)
<1>1. PICK file \in 1..(Len(fs.data) + 1) : Wrote(fs, p, what, new, file)
  BY WriteFacts, Zenon
<1>2. ASSUME NEW q
      PROVE  /\ Named(fs, p, q) => Stat(new, q) = <<"file", file>>
             /\ ~Named(fs, p, q) => Stat(new, q) = Stat(fs, q)
  BY <1>1, WriteStat
<1> DEFINE n == Len(fs.data)
           e == Entry(fs, p)
<1>3. DiskOK(new)
  <2>1. e.dir \in DOMAIN fs.dirs
    BY DEF Writable, DiskOK, Entry
  <2>2. ASSUME NEW x \in DOMAIN new.entries
        PROVE  new.entries[x] \in 1..Len(new.data) /\ x.dir \in DOMAIN new.dirs
    BY <1>1, <2>1, <2>2 DEF DiskOK, Wrote
  <2> QED  BY <1>1, <2>2 DEF DiskOK, Wrote
<1>4. Read(new, p) = what
  BY <1>1, <1>2 DEF Writable, Read, Named, Wrote
<1>5. ASSUME NEW q, Apart(fs, p, q)
      PROVE  Read(new, q) = Read(fs, q)
  <2>1. ~Named(fs, p, q)
    BY <1>5 DEF Apart, Writable, Named
  <2>2. Stat(new, q) = Stat(fs, q)
    BY <1>2, <2>1
  <2>3. ASSUME Stat(fs, q)[1] = "file"
        PROVE  Stat(fs, q)[2] \in 1..n /\ Stat(fs, q)[2] # file
    <3>1. /\ ~IsDirectory(fs, q) /\ q.dir \in DOMAIN fs.dirs /\ Entry(fs, q) \in DOMAIN fs.entries
          /\ Stat(fs, q) = <<"file", fs.entries[Entry(fs, q)]>>
      BY <2>3 DEF Stat, Missing
    <3>2. Stat(fs, q)[2] \in 1..n
      BY <3>1 DEF DiskOK
    <3>3. CASE e \in DOMAIN fs.entries
      <4>1. Stat(fs, p) = <<"file", file>>
        BY <1>1, <3>3 DEF Stat, Writable, Wrote
      <4> QED  BY <1>5, <3>1, <3>2, <4>1 DEF Apart, Missing
    <3>4. CASE e \notin DOMAIN fs.entries
      BY <1>1, <3>2, <3>4 DEF Wrote
    <3> QED  BY <3>2, <3>3, <3>4
  <2> QED  BY <1>1, <2>2, <2>3 DEF Read, Wrote
<1>6. ASSUME NEW a, NEW b, Apart(fs, a, b)
      PROVE  Apart(new, a, b)
  <2>1. a.dir \in DOMAIN new.dirs /\ b.dir \in DOMAIN new.dirs => Entry(new, a) # Entry(new, b)
    BY <1>1, <1>6 DEF Apart, Wrote
  <2>2. ~(Named(fs, p, a) /\ Named(fs, p, b))
    BY <1>6 DEF Apart, Named
  <2>3. ASSUME NEW x, NEW y, Named(fs, p, x), ~Named(fs, p, y), Stat(fs, x) = Stat(fs, y) => Stat(fs, x) = Missing
        PROVE  Stat(new, x) # Stat(new, y)
    <3>1. Stat(new, x) = <<"file", file>> /\ Stat(new, y) = Stat(fs, y)
      BY <1>2, <2>3
    <3>2. SUFFICES ASSUME Stat(fs, y) = <<"file", file>>
                   PROVE  FALSE
      BY <3>1
    <3>3. Entry(fs, y) \in DOMAIN fs.entries /\ file = fs.entries[Entry(fs, y)]
      BY <3>2 DEF Stat, Missing
    <3>4. e \in DOMAIN fs.entries
      BY <1>1, <3>3 DEF DiskOK, Wrote
    <3>5. Stat(fs, x) = <<"file", file>>
      BY <1>1, <2>3, <3>4 DEF Stat, Named, Wrote
    <3> QED  BY <2>3, <3>2, <3>5 DEF Missing
  <2>4. Stat(new, a) = Stat(new, b) => Stat(new, a) = Missing
    <3>1. CASE Named(fs, p, a)
      BY <1>6, <2>2, <2>3, <3>1 DEF Apart
    <3>2. CASE Named(fs, p, b)
      BY <1>6, <2>2, <2>3, <3>2 DEF Apart
    <3>3. CASE ~Named(fs, p, a) /\ ~Named(fs, p, b)
      BY <1>2, <1>6, <3>3 DEF Apart
    <3> QED  BY <3>1, <3>2, <3>3
  <2> QED  BY <2>1, <2>4 DEF Apart
<1> QED  BY <1>3, <1>4, <1>5, <1>6

(* The directory of the certificates, made when it is not there, changes   *)
(* nothing of what is on the disk.                                         *)
LEMMA MakingKeeps ==
  ASSUME NEW req, RequestOK(req), NEW new, new = MkdirAll(req.fs, req.certs)
  PROVE  /\ DiskOK(new)
         /\ Read(new, req.input) = PdfData
         /\ Unlinked(req.fs, req) => Unlinked(new, req)
<1> DEFINE fs == req.fs
           d == req.certs
<1>1. /\ new.cased = fs.cased /\ new.entries = fs.entries /\ new.data = fs.data
      /\ DOMAIN new.dirs = DOMAIN fs.dirs \cup {d}
      /\ \A x \in DOMAIN fs.dirs : new.dirs[x] = fs.dirs[x]
      /\ d \notin DOMAIN fs.dirs => new.dirs[d] = d
  BY DEF MkdirAll
<1>2. DiskOK(fs) /\ Read(fs, req.input) = PdfData
  BY DEF RequestOK
<1>3. DiskOK(new)
  BY <1>1, <1>2 DEF DiskOK
<1>4. Read(new, req.input) = PdfData
  <2> DEFINE p == req.input
  <2>1. Stat(fs, p)[1] = "file"
    BY <1>2 DEF Read, PdfData, Unreadable
  <2>2. /\ ~IsDirectory(fs, p) /\ p.dir \in DOMAIN fs.dirs /\ Entry(fs, p) \in DOMAIN fs.entries
        /\ Stat(fs, p) = <<"file", fs.entries[Entry(fs, p)]>>
    BY <2>1 DEF Stat, Missing
  <2>3. p.stem[1] # "dir"
    BY <2>2 DEF RequestOK, Entry
  <2>4. ~IsDirectory(new, p)
    BY <2>3 DEF IsDirectory
  <2>5. Entry(new, p) = Entry(fs, p) /\ p.dir \in DOMAIN new.dirs
    BY <1>1, <2>2 DEF Entry
  <2>6. Stat(new, p) = Stat(fs, p)
    BY <1>1, <2>2, <2>4, <2>5 DEF Stat
  <2> QED  BY <1>1, <1>2, <2>6 DEF Read
<1>5. ASSUME NEW f \in certFiles(req)
      PROVE  IF d \in DOMAIN fs.dirs THEN Stat(new, f.path) = Stat(fs, f.path)
             ELSE Stat(new, f.path) = Missing
  <2>1. f.path.dir = d /\ f.path.stem[1] = "cert"
    BY DEF certFiles, CertPath
  <2>2. ~IsDirectory(new, f.path) /\ ~IsDirectory(fs, f.path)
    BY <2>1 DEF IsDirectory
  <2>3. CASE d \in DOMAIN fs.dirs
    <3>1. Entry(new, f.path) = Entry(fs, f.path)
      BY <1>1, <2>1, <2>3 DEF Entry
    <3> QED  BY <1>1, <2>1, <2>2, <2>3, <3>1 DEF Stat
  <2>4. CASE d \notin DOMAIN fs.dirs
    <3>1. Entry(new, f.path).dir = d
      BY <1>1, <2>1, <2>4 DEF Entry
    <3>2. Entry(new, f.path) \notin DOMAIN fs.entries
      BY <1>2, <2>4, <3>1 DEF DiskOK
    <3> QED  BY <1>1, <2>2, <2>4, <3>2 DEF Stat
  <2> QED  BY <2>3, <2>4
<1> HIDE DEF fs, d
<1>6. ASSUME Unlinked(fs, req)
      PROVE  Unlinked(new, req)
  BY <1>5, <1>6 DEF Unlinked
<1> QED  BY <1>3, <1>4, <1>6 DEF fs

(* The fields selected: one for the CMS, and only fields that are chosen.  *)
LEMMA Selection ==
  ASSUME NEW req, RequestOK(req)
  PROVE  /\ selectCMSExport(req.sigs, req.field) # {} =>
              \E i \in DOMAIN req.sigs :
                /\ selectCMSExport(req.sigs, req.field) = {i}
                /\ {j \in Chosen(req) : req.sigs[j].cmsFilter} = {i}
         /\ selectCertsExport(req.sigs, req.field) # {} =>
              selectCertsExport(req.sigs, req.field) = Chosen(req)
<1> DEFINE listed == req.sigs
           field == req.field
           resolved == resolveSignatureField(listed, field)
           cands == IF field # NoField THEN resolved ELSE {i \in DOMAIN listed : listed[i].signed}
           cms == {i \in cands : listed[i].cmsFilter}
<1>1. resolved # {} => resolved = {i \in DOMAIN listed : listed[i].signed /\ listed[i].name = field}
  BY DEF resolveSignatureField
<1>2. cands # {} => cands = Chosen(req)
  <2>1. CASE field = NoField
    BY <2>1 DEF Chosen
  <2>2. CASE field # NoField
    <3>1. cands = resolved
      BY <2>2
    <3>2. {i \in DOMAIN listed : listed[i].signed /\ listed[i].name = field} = Chosen(req)
      BY <2>2 DEF Chosen
    <3> HIDE DEF cands, resolved
    <3> QED  BY <1>1, <3>1, <3>2
  <2> QED  BY <2>1, <2>2
<1>3. selectCertsExport(listed, field) = cands
  BY DEF selectCertsExport
<1>4. selectCMSExport(listed, field) = IF Cardinality(cms) = 1 THEN cms ELSE {}
  BY DEF selectCMSExport
<1>5. cms \subseteq DOMAIN listed /\ IsFiniteSet(cms)
  <2>1. DOMAIN listed = 1..Len(listed) /\ Len(listed) \in Nat
    BY DEF RequestOK
  <2>2. IsFiniteSet(DOMAIN listed)
    <3>1. 1 \in Int /\ Len(listed) \in Int
      BY <2>1
    <3>2. IsFiniteSet(1..Len(listed))
      BY <3>1, FS_Interval, Zenon
    <3> QED  BY <2>1, <3>2, Zenon
  <2>3. cms \subseteq DOMAIN listed
    BY DEF resolveSignatureField
  <2> HIDE DEF cms
  <2> QED  BY <2>2, <2>3, FS_Subset
<1>6. ASSUME selectCMSExport(listed, field) # {}
      PROVE  \E i \in DOMAIN listed : /\ selectCMSExport(listed, field) = {i}
                                    /\ {j \in Chosen(req) : listed[j].cmsFilter} = {i}
  <2> HIDE DEF cands
  <2>1. Cardinality(cms) = 1 /\ selectCMSExport(listed, field) = cms
    BY <1>4, <1>6
  <2>2. PICK i : cms = {i}
    <3> HIDE DEF cms
    <3> QED  BY <1>5, <2>1, FS_Singleton
  <2>3. cands # {} /\ i \in DOMAIN listed
    BY <1>5, <2>2
  <2>4. {j \in Chosen(req) : listed[j].cmsFilter} = {i}
    BY <1>2, <2>2, <2>3
  <2> QED  BY <2>1, <2>2, <2>3, <2>4
<1> QED  BY <1>2, <1>3, <1>6

(* The files of a request: what they hold, and that one name is one file.  *)
LEMMA Files ==
  ASSUME NEW req, RequestOK(req)
  PROVE  /\ \A f \in cmsFiles(req) :
              f.path = req.cms /\ f.data \in Contents /\ f.data[2] \in Chosen(req)
         /\ \A f, g \in cmsFiles(req) : f = g
         /\ \A f \in certFiles(req) :
              f.data \in Contents /\ f.data[2] \in Chosen(req)
         /\ \A f, g \in certFiles(req) :
              f # g => \A fs : f.path.dir = g.path.dir /\ Entry(fs, f.path) # Entry(fs, g.path)
<1> DEFINE one == selectCMSExport(req.sigs, req.field)
           all == selectCertsExport(req.sigs, req.field)
<1>1. DOMAIN req.sigs \subseteq Nat /\ \A i \in DOMAIN req.sigs : req.sigs[i].certs \in Nat
  <2>1. req.sigs \in Seq(FieldsRead)
    BY DEF RequestOK
  <2>2. DOMAIN req.sigs \subseteq Nat /\ \A i \in DOMAIN req.sigs : req.sigs[i] \in FieldsRead
    BY <2>1
  <2> QED  BY <2>2 DEF FieldsRead
<1>2. Chosen(req) \subseteq DOMAIN req.sigs
  BY DEF Chosen
<1>3. one \subseteq Chosen(req) /\ all \subseteq Chosen(req) /\ \A i, j \in one : i = j
  BY Selection
<1> HIDE DEF one, all
<1>4. ASSUME NEW f \in cmsFiles(req)
      PROVE  \E i \in one : f = [path |-> req.cms, data |-> <<"cms", i, 0>>]
  BY DEF cmsFiles, one
<1>5. ASSUME NEW f \in certFiles(req)
      PROVE  \E i \in all : \E m \in 1..req.sigs[i].certs :
               f = [path |-> CertPath(req.certs, i, m), data |-> <<"cert", i, m>>]
  BY DEF certFiles, all
<1>6. ASSUME NEW f \in cmsFiles(req)
      PROVE  f.path = req.cms /\ f.data \in Contents /\ f.data[2] \in Chosen(req)
  <2>1. PICK i \in one : f = [path |-> req.cms, data |-> <<"cms", i, 0>>]
    BY <1>4, <1>6
  <2>2. i \in Chosen(req) /\ i \in Nat
    BY <1>1, <1>2, <1>3
  <2> QED  BY <2>1, <2>2 DEF Contents
<1>7. ASSUME NEW f \in cmsFiles(req), NEW g \in cmsFiles(req)
      PROVE  f = g
  BY <1>3, <1>4
<1>8. ASSUME NEW f \in certFiles(req)
      PROVE  f.data \in Contents /\ f.data[2] \in Chosen(req)
  <2>1. PICK i \in all : \E m \in 1..req.sigs[i].certs :
          f = [path |-> CertPath(req.certs, i, m), data |-> <<"cert", i, m>>]
    BY <1>5, <1>8
  <2>2. PICK m \in 1..req.sigs[i].certs :
          f = [path |-> CertPath(req.certs, i, m), data |-> <<"cert", i, m>>]
    BY <2>1
  <2>3. i \in Chosen(req) /\ i \in Nat /\ m \in Nat
    BY <1>1, <1>2, <1>3
  <2> QED  BY <2>2, <2>3 DEF Contents
<1>9. ASSUME NEW f \in certFiles(req), NEW g \in certFiles(req), f # g, NEW fs
      PROVE  f.path.dir = g.path.dir /\ Entry(fs, f.path) # Entry(fs, g.path)
  <2>1. PICK i, m : f = [path |-> CertPath(req.certs, i, m), data |-> <<"cert", i, m>>]
    BY <1>5
  <2>2. PICK j, n : g = [path |-> CertPath(req.certs, j, n), data |-> <<"cert", j, n>>]
    BY <1>5
  <2>3. i # j \/ m # n
    BY <1>9, <2>1, <2>2
  <2>4. f.path.dir = g.path.dir /\ f.path.stem # g.path.stem
    BY <2>1, <2>2, <2>3 DEF CertPath
  <2> QED  BY <2>4 DEF Entry
<1> QED  BY <1>6, <1>7, <1>8, <1>9

(* The checks before the first write do their work. *)
LEMMA ChecksAreEnough ==
  ASSUME NEW req, RequestOK(req), NEW fs, ~PathsClash(fs, req),
         Unlinked(req.fs, req) => Unlinked(fs, req)
  PROVE  PathsApart(fs, req)
<1>1. ASSUME NEW f \in exportFiles(req)
      PROVE  Apart(fs, f.path, req.input)
  BY SamePathIsEnough DEF PathsClash
<1>2. ASSUME NEW f \in certFiles(req), NEW g \in cmsFiles(req)
      PROVE  Apart(fs, f.path, g.path)
  <2>1. g.path = req.cms
    BY Files
  <2> QED  BY <2>1, SamePathIsEnough DEF PathsClash
<1>3. ASSUME Unlinked(fs, req), NEW f \in certFiles(req), NEW g \in certFiles(req), f # g
      PROVE  Apart(fs, f.path, g.path)
  <2>1. Entry(fs, f.path) # Entry(fs, g.path)
    BY <1>3, Files
  <2>2. Stat(fs, f.path) = Stat(fs, g.path) => Stat(fs, f.path) = Missing
    BY <1>3 DEF Unlinked
  <2> QED  BY <2>1, <2>2 DEF Apart
<1> QED  BY <1>1, <1>2, <1>3 DEF PathsApart

(* A write of one of the files keeps the disk in order, the paths apart    *)
(* and what was there to be read.                                          *)
LEMMA WritingKeeps ==
  ASSUME NEW req, RequestOK(req), NEW fs, DiskOK(fs), PathsApart(fs, req),
         NEW f \in exportFiles(req), Writable(fs, f.path), NEW what \in Contents,
         NEW new, new = WriteFile(fs, f.path, what)
  PROVE  /\ DiskOK(new) /\ PathsApart(new, req)
         /\ Read(new, f.path) = what
         /\ Read(new, req.input) = Read(fs, req.input)
         /\ \A g \in exportFiles(req) :
              g # f /\ (f \in cmsFiles(req) \/ g \in cmsFiles(req) \/ Unlinked(req.fs, req)) =>
                Read(new, g.path) = Read(fs, g.path)
<1>1. /\ DiskOK(new)
      /\ Read(new, f.path) = what
      /\ \A q : Apart(fs, f.path, q) => Read(new, q) = Read(fs, q)
      /\ \A a, b : Apart(fs, a, b) => Apart(new, a, b)
  <2> DEFINE p == f.path
  <2>1. Writable(fs, p) /\ new = WriteFile(fs, p, what)
    OBVIOUS
  <2> HIDE DEF p
  <2>2. /\ DiskOK(new)
        /\ Read(new, p) = what
        /\ \A q : Apart(fs, p, q) => Read(new, q) = Read(fs, q)
        /\ \A a, b : Apart(fs, a, b) => Apart(new, a, b)
    BY <2>1, WriteKeeps, Zenon
  <2> QED  BY <2>2 DEF p
<1>2. PathsApart(new, req)
  BY <1>1 DEF PathsApart
<1>3. Read(new, req.input) = Read(fs, req.input)
  BY <1>1 DEF PathsApart
<1>4. ASSUME NEW g \in exportFiles(req), g # f,
             f \in cmsFiles(req) \/ g \in cmsFiles(req) \/ Unlinked(req.fs, req)
      PROVE  Read(new, g.path) = Read(fs, g.path)
  <2>1. ~(f \in cmsFiles(req) /\ g \in cmsFiles(req))
    BY <1>4, Files
  <2>2. Apart(fs, f.path, g.path)
    BY <1>4, <2>1, ApartSymmetric DEF PathsApart, exportFiles
  <2> QED  BY <1>1, <2>2
<1> QED  BY <1>1, <1>2, <1>3, <1>4

(* The inductive invariant of the export, for every request and file       *)
(* system.                                                                 *)
THEOREM ExportInductive == ExSpec => []ExportInv
<1>1. ExInit => ExportInv
  <2> SUFFICES ASSUME ExInit
               PROVE  ExportInv
    OBVIOUS
  <2>1. RequestOK(exRequest)
    BY ExportAssumption DEF ExInit
  <2> QED  BY <2>1 DEF ExInit, ExportInv, RequestOK, InputKept, NoneOverwritten, NoExit
<1>2. ExportInv /\ [ExNext]_exVars => ExportInv'
  <2> SUFFICES ASSUME ExportInv, [ExNext]_exVars
               PROVE  ExportInv'
    OBVIOUS
  <2>0. RequestOK(exRequest)
    BY ExportAssumption DEF ExportInv
  <2>1. CASE ExSelects
    BY <2>1 DEF ExSelects, ExReturn, ExGoOn, ExportInv, InputKept, NoneOverwritten, NoExit
  <2>2. CASE ExMakesDirectory
    <3>1. /\ DiskOK(exDisk')
          /\ Read(exDisk', exRequest.input) = PdfData
          /\ Unlinked(exRequest.fs, exRequest) => Unlinked(exDisk', exRequest)
      BY <2>0, <2>2, MakingKeeps DEF ExMakesDirectory, ExportInv
    <3> QED  BY <2>2, <3>1 DEF ExMakesDirectory, ExGoOn, ExportInv, InputKept, NoneOverwritten, NoExit
  <2>3. CASE ExCannotMakeDirectory
    BY <2>3 DEF ExCannotMakeDirectory, ExReturn, ExportInv, InputKept, NoneOverwritten, NoExit
  <2>4. CASE ExComparesPaths
    <3>1. CASE PathsClash(exDisk, exRequest)
      BY <2>4, <3>1 DEF ExComparesPaths, ExReturn, ExportInv, InputKept, NoneOverwritten, NoExit
    <3>2. CASE ~PathsClash(exDisk, exRequest)
      <4>1. PathsApart(exDisk, exRequest)
        BY <2>0, <2>4, <3>2, ChecksAreEnough DEF ExComparesPaths, ExportInv
      <4> QED  BY <2>4, <3>2, <4>1
               DEF ExComparesPaths, ExGoOn, ExportInv, InputKept, NoneOverwritten, NoExit
    <3> QED  BY <3>1, <3>2
  <2>5. CASE ExWrites
    <3>1. PICK f \in exportFiles(exRequest) :
            /\ ExNextFile(f)
            /\ Writable(exDisk, f.path)
            /\ exDisk' = WriteFile(exDisk, f.path, f.data)
            /\ exWritten' = exWritten \cup {f}
            /\ UNCHANGED <<exRequest, exStep, exCode>>
      BY <2>5 DEF ExWrites
    <3>2. exStep = "write" /\ f \notin exWritten
      BY <3>1 DEF ExNextFile
    <3>3. f.data \in Contents
      BY <2>0, Files DEF exportFiles
    <3>4. DiskOK(exDisk) /\ PathsApart(exDisk, exRequest)
      BY <3>2 DEF ExportInv
    <3>5. /\ DiskOK(exDisk') /\ PathsApart(exDisk', exRequest)
          /\ Read(exDisk', f.path) = f.data
          /\ Read(exDisk', exRequest.input) = Read(exDisk, exRequest.input)
          /\ \A g \in exportFiles(exRequest) :
               g # f /\ (\/ f \in cmsFiles(exRequest) \/ g \in cmsFiles(exRequest)
                         \/ Unlinked(exRequest.fs, exRequest)) =>
                 Read(exDisk', g.path) = Read(exDisk, g.path)
      BY <2>0, <3>1, <3>3, <3>4, WritingKeeps
    <3>6. NoneOverwritten'
      <4> SUFFICES ASSUME NEW g \in exWritten',
                          g \in cmsFiles(exRequest) \/ Unlinked(exRequest.fs, exRequest)
                   PROVE  Read(exDisk', g.path) = g.data
        BY <3>1 DEF NoneOverwritten
      <4>1. CASE g = f
        BY <3>5, <4>1
      <4>2. CASE g # f
        BY <3>1, <3>5, <4>2 DEF ExportInv, NoneOverwritten
      <4> QED  BY <4>1, <4>2
    <3> QED  BY <3>1, <3>2, <3>5, <3>6 DEF ExportInv, InputKept, NoExit
  <2>6. CASE ExCannotWrite
    <3>1. PICK f \in exportFiles(exRequest) :
            /\ ExNextFile(f)
            /\ \/ UNCHANGED exDisk
               \/ Writable(exDisk, f.path) /\ exDisk' = WriteFile(exDisk, f.path, PartOfIt)
            /\ ExReturn(2)
      BY <2>6 DEF ExCannotWrite
    <3>2. exStep = "write" /\ f \notin exWritten
      BY <3>1 DEF ExNextFile
    <3>3. CASE UNCHANGED exDisk
      BY <3>1, <3>2, <3>3 DEF ExReturn, ExportInv, InputKept, NoneOverwritten, NoExit
    <3>4. CASE Writable(exDisk, f.path) /\ exDisk' = WriteFile(exDisk, f.path, PartOfIt)
      <4>1. PartOfIt \in Contents
        BY DEF PartOfIt, Contents
      <4>2. DiskOK(exDisk) /\ PathsApart(exDisk, exRequest)
        BY <3>2 DEF ExportInv
      <4>3. /\ DiskOK(exDisk')
            /\ Read(exDisk', exRequest.input) = Read(exDisk, exRequest.input)
            /\ \A g \in exportFiles(exRequest) :
                 g # f /\ (\/ f \in cmsFiles(exRequest) \/ g \in cmsFiles(exRequest)
                           \/ Unlinked(exRequest.fs, exRequest)) =>
                   Read(exDisk', g.path) = Read(exDisk, g.path)
        BY <2>0, <3>1, <3>4, <4>1, <4>2, WritingKeeps
      <4>4. exRequest' = exRequest /\ exWritten' = exWritten /\ exStep' = "end" /\ exCode' = 2
        BY <3>1 DEF ExReturn
      <4>5. NoneOverwritten'
        BY <3>2, <4>3, <4>4 DEF ExportInv, NoneOverwritten
      <4> QED  BY <4>3, <4>4, <4>5 DEF ExportInv, InputKept, NoExit
    <3> QED  BY <3>1, <3>3, <3>4
  <2>7. CASE ExSucceeds
    BY <2>7 DEF ExSucceeds, ExReturn, ExportInv, InputKept, NoneOverwritten, NoExit
  <2>8. CASE UNCHANGED exVars
    BY <2>8 DEF exVars, ExportInv, InputKept, NoneOverwritten
  <2> QED  BY <2>1, <2>2, <2>3, <2>4, <2>5, <2>6, <2>7, <2>8 DEF ExNext
<1> QED  BY <1>1, <1>2, PTL DEF ExSpec

(* runSignatureExports never writes over the input PDF nor over another      *)
(* export, whatever the links, spellings and failing writes; exit 0 means    *)
(* all of it is on disk.                                                     *)
THEOREM ExportsSafe == ExSpec => []ExportsAreSafe
<1>1. ExportInv => ExportsAreSafe
  <2> SUFFICES ASSUME ExportInv
               PROVE  ExportsAreSafe
    OBVIOUS
  <2> DEFINE req == exRequest
  <2>0. RequestOK(req)
    BY ExportAssumption DEF ExportInv
  <2>1. OnlyChosenWritten
    BY <2>0, Files DEF ExportInv, OnlyChosenWritten, exportFiles
  <2>2. ASSUME exCode = 0, req.cms # NoPath
        PROVE  \E i \in DOMAIN req.sigs :
                 /\ {j \in Chosen(req) : req.sigs[j].cmsFilter} = {i}
                 /\ Read(exDisk, req.cms) = <<"cms", i, 0>>
    <3>1. cmsFiles(req) # {} /\ cmsFiles(req) \subseteq exWritten
      BY <2>2 DEF ExportInv, SelectionFails, exportFiles
    <3>2. selectCMSExport(req.sigs, req.field) # {}
      BY <3>1 DEF cmsFiles
    <3>3. PICK i \in DOMAIN req.sigs :
            /\ selectCMSExport(req.sigs, req.field) = {i}
            /\ {j \in Chosen(req) : req.sigs[j].cmsFilter} = {i}
      BY <2>0, <3>2, Selection
    <3> DEFINE f == [path |-> req.cms, data |-> <<"cms", i, 0>>]
    <3>4. f \in cmsFiles(req)
      BY <2>2, <3>3 DEF cmsFiles
    <3>5. Read(exDisk, f.path) = f.data
      BY <3>1, <3>4 DEF ExportInv, NoneOverwritten
    <3> QED  BY <3>3, <3>5
  <2>3. ASSUME exCode = 0, req.certs # NoDir
        PROVE  /\ \E i \in Chosen(req) : req.sigs[i].certs > 0
               /\ Unlinked(req.fs, req) =>
                    \A i \in Chosen(req) : \A m \in 1..req.sigs[i].certs :
                      Read(exDisk, CertPath(req.certs, i, m)) = <<"cert", i, m>>
    <3>1. certFiles(req) # {} /\ certFiles(req) \subseteq exWritten
      BY <2>3 DEF ExportInv, SelectionFails, exportFiles
    <3>2. PICK k \in selectCertsExport(req.sigs, req.field) : 1..req.sigs[k].certs # {}
      BY <2>3, <3>1 DEF certFiles
    <3>3. selectCertsExport(req.sigs, req.field) = Chosen(req)
      BY <2>0, <3>2, Selection
    <3>4. req.sigs[k].certs > 0
      <4>1. req.sigs \in Seq(FieldsRead) /\ k \in DOMAIN req.sigs
        BY <2>0, <3>2, <3>3 DEF RequestOK, Chosen
      <4>2. req.sigs[k] \in FieldsRead
        BY <4>1
      <4>3. req.sigs[k].certs \in Nat
        BY <4>2 DEF FieldsRead
      <4> QED  BY <3>2, <4>3
    <3>5. ASSUME Unlinked(req.fs, req), NEW i \in Chosen(req), NEW m \in 1..req.sigs[i].certs
          PROVE  Read(exDisk, CertPath(req.certs, i, m)) = <<"cert", i, m>>
      <4> DEFINE f == [path |-> CertPath(req.certs, i, m), data |-> <<"cert", i, m>>]
      <4>1. f \in certFiles(req)
        BY <2>3, <3>3 DEF certFiles
      <4>2. Read(exDisk, f.path) = f.data
        BY <3>1, <3>5, <4>1 DEF ExportInv, NoneOverwritten
      <4> QED  BY <4>2
    <3> QED  BY <3>2, <3>3, <3>4, <3>5
  <2>4. ExitZeroIsComplete
    BY <2>2, <2>3 DEF ExitZeroIsComplete
  <2> QED  BY <2>1, <2>4 DEF ExportsAreSafe, ExportInv
<1> QED  BY <1>1, ExportInductive, PTL

-----------------------------------------------------------------------------
(* The walk of a number tree.  Its state is one record, and each round of it a *)
(* function of that record: what a round keeps is stated for any record.       *)

KidsOf(tree, n) == KidsRead(tree.nodes[n])
PairsOf(tree, n) == NumsRead(tree.nodes[n])

NumKids(tree) == [n : DOMAIN tree.nodes, ref : BOOLEAN]
NumFrames(tree) == [n : DOMAIN tree.nodes, kid : Nat, pair : Nat, prev : Seq(Nat)]

(* What a frame has come to.  While there is no problem, its node has limits  *)
(* and prev is the key before the next pair.                                  *)
FrameOK(tree, w, i) ==
    LET f == w.frames[i]
    IN  /\ i = 1 => f.n = tree.root.n
        /\ f.kid \in 1..Len(KidsOf(tree, f.n)) + 1
        /\ f.pair <= Len(PairsOf(tree, f.n)) + 1
        /\ f.pair > 0 => f.kid = Len(KidsOf(tree, f.n)) + 1
        /\ f.n \in Below(tree.nodes, tree.root.n)
        /\ w.problems = {} =>
             /\ i > 1 => LimitsUsable(tree.nodes[f.n])
             /\ f.prev = IF f.pair <= 1 THEN <<>> ELSE <<PairsOf(tree, f.n)[f.pair - 1][1]>>

(* The walker is a record, and its frames are of the tree. *)
WalkShape(tree, w) ==
    /\ w = [frames |-> w.frames, entries |-> w.entries, visited |-> w.visited,
            problems |-> w.problems, incomplete |-> w.incomplete]
    /\ w.frames \in Seq(NumFrames(tree))
    /\ w.incomplete \in BOOLEAN
    /\ w.problems = {} => ~w.incomplete

(* Every entry is a pair stored below the root. *)
StoredBelow(tree, w) ==
    \A k \in DOMAIN w.entries :
      \E n \in Below(tree.nodes, tree.root.n) : \E j \in DOMAIN PairsOf(tree, n) :
        PairsOf(tree, n)[j] = <<k, w.entries[k]>> /\ k # NoKey

(* The first m pairs of n are entries, and clean while there is no problem. *)
PairsIn(tree, w, n, m) ==
    \A j \in 1..m : /\ PairsOf(tree, n)[j][1] \in DOMAIN w.entries
                    /\ w.problems = {} => PairIsClean(tree, w, n, j)

KidsIn(tree, n, m, S) == \A j \in 1..m : KidsOf(tree, n)[j].n \in S

Framed(w, n) == \E i \in 1..Len(w.frames) : w.frames[i].n = n

(* A node is being read, or its kids are in S and its pairs are entries. *)
Met(tree, w, S, n) ==
    \/ Framed(w, n)
    \/ /\ KidsIn(tree, n, Len(KidsOf(tree, n)), S)
       /\ PairsIn(tree, w, n, Len(PairsOf(tree, n)))

(* S holds what the walk has come to: all of it but the pending nodes is met. *)
CoveredBy(tree, w, S, pending) ==
    /\ S \in SUBSET DOMAIN tree.nodes
    /\ tree.root.n \in S /\ w.visited \subseteq S /\ pending \subseteq S
    /\ \A n \in S \ pending : Met(tree, w, S, n)
    /\ \A i \in 1..Len(w.frames) :
         /\ w.frames[i].n \in S
         /\ KidsIn(tree, w.frames[i].n, w.frames[i].kid - 1, S)
         /\ PairsIn(tree, w, w.frames[i].n, w.frames[i].pair - 1)

(* A walk that lost nothing accounts for all it has come to. *)
NumInv(tree, w, pending) ==
    /\ WalkShape(tree, w)
    /\ \A i \in 1..Len(w.frames) : FrameOK(tree, w, i)
    /\ StoredBelow(tree, w)
    /\ ~w.incomplete => \E S \in SUBSET DOMAIN tree.nodes : CoveredBy(tree, w, S, pending)

(* The inductive invariant. *)
WalkInv == numTree \in NumberTrees /\ NumInv(numTree, numWalk, {})

(* v has all that w has, and w no problem that v does not have. *)
ExtendsWalk(w, v) ==
    /\ v.problems = {} => w.problems = {}
    /\ ~v.incomplete => ~w.incomplete
    /\ \A k \in DOMAIN w.entries : k \in DOMAIN v.entries /\ v.entries[k] = w.entries[k]

(* What a tree of NumberTrees is made of. *)
LEMMA TreeData ==
  ASSUME NEW tree \in NumberTrees
  PROVE  /\ tree.root.n \in DOMAIN tree.nodes /\ tree.root \in NumKids(tree)
         /\ \A n \in DOMAIN tree.nodes :
              /\ tree.nodes[n].limits \in Seq(Int)
              /\ KidsOf(tree, n) \in Seq(NumKids(tree)) /\ Len(KidsOf(tree, n)) \in Nat
              /\ PairsOf(tree, n) \in Seq((Nat \cup {NoKey}) \X Nat) /\ Len(PairsOf(tree, n)) \in Nat
<1> DEFINE ids == DOMAIN tree.nodes
<1>1. tree.root \in [n : ids, ref : BOOLEAN] /\ \A n \in ids : tree.nodes[n] \in NumberNodes(ids)
  BY NumberTreeAssumption
<1>2. ASSUME NEW n \in ids
      PROVE  /\ tree.nodes[n].limits \in Seq(Int) /\ tree.nodes[n].kids \in Seq(NumKids(tree))
             /\ tree.nodes[n].nums \in Seq((Nat \cup {NoKey}) \X Nat)
  <2>1. tree.nodes[n] \in NumberNodes(ids)
    BY <1>1
  <2> QED
    BY <2>1 DEF NumberNodes, NumKids
<1>3. ASSUME NEW n \in ids
      PROVE  KidsOf(tree, n) \in Seq(NumKids(tree)) /\ PairsOf(tree, n) \in Seq((Nat \cup {NoKey}) \X Nat)
  BY <1>2, EmptySeq DEF KidsOf, PairsOf, KidsRead, NumsRead
<1>4. ASSUME NEW n \in ids
      PROVE  Len(KidsOf(tree, n)) \in Nat /\ Len(PairsOf(tree, n)) \in Nat
  BY <1>3, LenProperties
<1> QED
  BY <1>1, <1>2, <1>3, <1>4 DEF NumKids

(* The nodes below the root are the tree's, and closed under their kids. *)
LEMMA BelowFacts ==
  ASSUME NEW tree \in NumberTrees
  PROVE  /\ Below(tree.nodes, tree.root.n) \subseteq DOMAIN tree.nodes
         /\ tree.root.n \in Below(tree.nodes, tree.root.n)
         /\ \A n \in Below(tree.nodes, tree.root.n) : \A j \in 1..Len(KidsOf(tree, n)) :
              KidsOf(tree, n)[j].n \in Below(tree.nodes, tree.root.n)
<1> DEFINE ids == DOMAIN tree.nodes
           ClosedUp(S) == \A x \in S : \A j \in DOMAIN KidsRead(tree.nodes[x]) : KidsRead(tree.nodes[x])[j].n \in S
<1>1. Below(tree.nodes, tree.root.n) = {m \in ids : \A S \in SUBSET ids : tree.root.n \in S /\ ClosedUp(S) => m \in S}
  BY DEF Below
<1> HIDE DEF ClosedUp
<1>2. Below(tree.nodes, tree.root.n) \subseteq ids /\ tree.root.n \in Below(tree.nodes, tree.root.n)
  BY <1>1, TreeData
<1>3. ASSUME NEW n \in Below(tree.nodes, tree.root.n), NEW j \in 1..Len(KidsOf(tree, n))
      PROVE  KidsOf(tree, n)[j].n \in Below(tree.nodes, tree.root.n)
  <2>1. n \in ids /\ KidsOf(tree, n) \in Seq(NumKids(tree)) /\ Len(KidsOf(tree, n)) \in Nat
    BY <1>2, TreeData
  <2>2. KidsOf(tree, n)[j] \in NumKids(tree) /\ j \in DOMAIN KidsRead(tree.nodes[n])
    BY <2>1, ElementOfSeq DEF KidsOf
  <2>3. KidsOf(tree, n)[j].n \in ids
    BY <2>2 DEF NumKids
  <2>4. ASSUME NEW S \in SUBSET ids, tree.root.n \in S, ClosedUp(S)
        PROVE  KidsOf(tree, n)[j].n \in S
    <3>1. n \in S
      BY <1>1, <2>4
    <3> QED
      BY <2>2, <2>4, <3>1 DEF ClosedUp, KidsOf
  <2> QED
    BY <1>1, <2>3, <2>4
<1> QED
  BY <1>2, <1>3

(* A set that holds the root and its nodes' kids holds all below the root. *)
LEMMA BelowIsLeast ==
  ASSUME NEW tree \in NumberTrees, NEW S \in SUBSET DOMAIN tree.nodes, tree.root.n \in S,
         \A n \in S : KidsIn(tree, n, Len(KidsOf(tree, n)), S)
  PROVE  Below(tree.nodes, tree.root.n) \subseteq S
<1>1. ASSUME NEW x \in S, NEW j \in DOMAIN KidsRead(tree.nodes[x]) PROVE KidsRead(tree.nodes[x])[j].n \in S
  <2>1. KidsOf(tree, x) \in Seq(NumKids(tree))
    BY TreeData
  <2>2. j \in 1..Len(KidsOf(tree, x))
    BY <2>1 DEF KidsOf
  <2> QED
    BY <2>2 DEF KidsIn, KidsOf
<1> QED
  BY <1>1 DEF Below

(* What is in stays in when the walk only grows. *)
LEMMA PairsStay ==
  ASSUME NEW tree, NEW w, NEW v, NEW n, NEW m, ExtendsWalk(w, v), PairsIn(tree, w, n, m)
  PROVE  PairsIn(tree, v, n, m)
<1>1. ASSUME NEW j \in 1..m
      PROVE  /\ PairsOf(tree, n)[j][1] \in DOMAIN v.entries
             /\ v.problems = {} => PairIsClean(tree, v, n, j)
  <2>1. PairsOf(tree, n)[j][1] \in DOMAIN w.entries /\ (w.problems = {} => PairIsClean(tree, w, n, j))
    BY DEF PairsIn
  <2>2. v.problems = {} => PairIsClean(tree, w, n, j)
    BY <2>1 DEF ExtendsWalk
  <2> QED
    BY <2>1, <2>2 DEF ExtendsWalk, PairIsClean, PairsOf
<1> QED
  BY <1>1 DEF PairsIn

(* A walk that grew, with its frames as they were, accounts for what it did. *)
LEMMA CoverStays ==
  ASSUME NEW tree, NEW w, NEW v, NEW S, NEW pending, ExtendsWalk(w, v), CoveredBy(tree, w, S, pending),
         v.frames = w.frames, v.visited = w.visited
  PROVE  CoveredBy(tree, v, S, pending)
<1>1. ASSUME NEW n \in S \ pending PROVE Met(tree, v, S, n)
  <2>1. Met(tree, w, S, n)
    BY DEF CoveredBy
  <2>2. Framed(w, n) => Framed(v, n)
    BY DEF Framed
  <2> QED
    BY <2>1, <2>2, PairsStay DEF Met
<1>2. ASSUME NEW i \in 1..Len(v.frames)
      PROVE  /\ v.frames[i].n \in S
             /\ KidsIn(tree, v.frames[i].n, v.frames[i].kid - 1, S)
             /\ PairsIn(tree, v, v.frames[i].n, v.frames[i].pair - 1)
  <2>1. PairsIn(tree, w, v.frames[i].n, v.frames[i].pair - 1)
    BY DEF CoveredBy
  <2>2. PairsIn(tree, v, v.frames[i].n, v.frames[i].pair - 1)
    BY <2>1, PairsStay
  <2> QED
    BY <2>2 DEF CoveredBy
<1> QED
  BY <1>1, <1>2 DEF CoveredBy

(* Likewise for all the invariant says. *)
LEMMA InvStays ==
  ASSUME NEW tree, NEW w, NEW v, NEW pending, NumInv(tree, w, pending), ExtendsWalk(w, v),
         WalkShape(tree, v), StoredBelow(tree, v), v.frames = w.frames, v.visited = w.visited
  PROVE  NumInv(tree, v, pending)
<1>1. ASSUME NEW i \in 1..Len(v.frames) PROVE FrameOK(tree, v, i)
  <2>1. FrameOK(tree, w, i)
    BY DEF NumInv
  <2> QED
    BY <2>1 DEF FrameOK, ExtendsWalk
<1>2. ASSUME ~v.incomplete PROVE \E S \in SUBSET DOMAIN tree.nodes : CoveredBy(tree, v, S, pending)
  <2>1. PICK S \in SUBSET DOMAIN tree.nodes : CoveredBy(tree, w, S, pending)
    BY <1>2 DEF NumInv, ExtendsWalk
  <2>2. CoveredBy(tree, v, S, pending)
    BY <2>1, CoverStays
  <2> QED
    BY <2>2
<1> QED
  BY <1>1, <1>2 DEF NumInv

(* A problem is noted, or something is lost; the rest stays. *)
LEMMA ProblemKeeps ==
  ASSUME NEW tree, NEW w, NEW pending, NEW what, NumInv(tree, w, pending)
  PROVE  /\ NumInv(tree, problem(w, what), pending) /\ ExtendsWalk(w, problem(w, what))
         /\ problem(w, what).frames = w.frames /\ problem(w, what).visited = w.visited
         /\ problem(w, what).entries = w.entries /\ problem(w, what).problems # {}
<1> DEFINE v == problem(w, what)
<1>1. WalkShape(tree, w)
  BY DEF NumInv
<1>0. v = [w EXCEPT !.problems = w.problems \cup {what}]
  BY DEF problem
<1> HIDE DEF v
<1>2. v = [frames |-> w.frames, entries |-> w.entries, visited |-> w.visited,
           problems |-> w.problems \cup {what}, incomplete |-> w.incomplete]
  BY <1>0, <1>1 DEF WalkShape
<1>3. /\ v.frames = w.frames /\ v.visited = w.visited /\ v.entries = w.entries
      /\ v.problems = w.problems \cup {what} /\ v.incomplete = w.incomplete
  BY <1>2
<1>4. WalkShape(tree, v)
  BY <1>1, <1>2, <1>3 DEF WalkShape
<1>5. StoredBelow(tree, v) /\ ExtendsWalk(w, v) /\ v.problems # {}
  BY <1>3 DEF NumInv, StoredBelow, ExtendsWalk
<1>6. NumInv(tree, v, pending)
  BY <1>3, <1>4, <1>5, InvStays
<1> QED
  BY <1>3, <1>5, <1>6 DEF v

(* A problem that loses entries keeps it too: nothing is claimed of them then. *)
LEMMA LostKeeps ==
  ASSUME NEW tree, NEW w, NEW pending, NEW what, NumInv(tree, w, pending)
  PROVE  /\ NumInv(tree, lost(w, what), {}) /\ lost(w, what).frames = w.frames
         /\ lost(w, what).incomplete
<1> DEFINE u == problem(w, what)
           v == lost(w, what)
<1>1. NumInv(tree, u, pending) /\ u.frames = w.frames /\ u.problems # {}
  BY ProblemKeeps
<1>2. v = [u EXCEPT !.incomplete = TRUE]
  BY DEF lost
<1>3. WalkShape(tree, u)
  BY <1>1 DEF NumInv
<1> HIDE DEF u, v
<1>4. /\ v = [frames |-> u.frames, entries |-> u.entries, visited |-> u.visited,
              problems |-> u.problems, incomplete |-> TRUE]
  BY <1>2, <1>3 DEF WalkShape
<1>5. /\ v.frames = u.frames /\ v.visited = u.visited /\ v.entries = u.entries
      /\ v.problems = u.problems /\ v.incomplete = TRUE
  BY <1>4
<1>6. WalkShape(tree, v)
  BY <1>1, <1>3, <1>4, <1>5 DEF WalkShape
<1>7. StoredBelow(tree, v)
  BY <1>1, <1>5 DEF NumInv, StoredBelow
<1>8. ASSUME NEW i \in 1..Len(v.frames) PROVE FrameOK(tree, v, i)
  BY <1>1, <1>5 DEF NumInv, FrameOK
<1> QED
  BY <1>1, <1>5, <1>6, <1>7, <1>8 DEF NumInv, v

(* A node that is entered is being read, and so met. *)
LEMMA CalledKeeps ==
  ASSUME NEW tree \in NumberTrees, NEW w, NEW n \in Below(tree.nodes, tree.root.n), NumInv(tree, w, {n}),
         w.frames = <<>> => n = tree.root.n,
         w.frames # <<>> /\ w.problems = {} => LimitsUsable(tree.nodes[n])
  PROVE  NumInv(tree, called(w, n), {})
<1> DEFINE f == [n |-> n, kid |-> 1, pair |-> 0, prev |-> <<>>]
           v == called(w, n)
<1>0. v = [w EXCEPT !.frames = Append(w.frames, f)]
  BY DEF called
<1>1. WalkShape(tree, w) /\ w.frames \in Seq(NumFrames(tree)) /\ Len(w.frames) \in Nat
  BY LenProperties DEF NumInv, WalkShape
<1>2. n \in DOMAIN tree.nodes /\ f \in NumFrames(tree)
  BY BelowFacts, EmptySeq DEF NumFrames
<1>3. /\ f.n = n /\ f.kid = 1 /\ f.pair = 0 /\ f.prev = <<>>
  OBVIOUS
<1>4. Len(KidsOf(tree, n)) \in Nat /\ Len(PairsOf(tree, n)) \in Nat
  BY <1>2, TreeData
<1> HIDE DEF f, v
<1>5. v = [frames |-> Append(w.frames, f), entries |-> w.entries, visited |-> w.visited,
           problems |-> w.problems, incomplete |-> w.incomplete]
  BY <1>0, <1>1 DEF WalkShape
<1>6. /\ v.frames = Append(w.frames, f) /\ v.visited = w.visited /\ v.entries = w.entries
      /\ v.problems = w.problems /\ v.incomplete = w.incomplete
  BY <1>5
<1>7. /\ v.frames \in Seq(NumFrames(tree)) /\ Len(v.frames) = Len(w.frames) + 1
      /\ v.frames[Len(w.frames) + 1] = f
      /\ \A i \in 1..Len(w.frames) : v.frames[i] = w.frames[i]
  BY <1>1, <1>2, <1>6, AppendProperties
<1>8. WalkShape(tree, v)
  BY <1>1, <1>5, <1>6, <1>7 DEF WalkShape
<1>9. StoredBelow(tree, v) /\ ExtendsWalk(w, v)
  BY <1>6 DEF NumInv, StoredBelow, ExtendsWalk
<1>10. ASSUME NEW i \in 1..Len(v.frames) PROVE FrameOK(tree, v, i)
  <2>1. CASE i \in 1..Len(w.frames)
    <3>1. FrameOK(tree, w, i)
      BY <2>1 DEF NumInv
    <3> QED
      BY <2>1, <3>1, <1>6, <1>7 DEF FrameOK
  <2>2. CASE i = Len(w.frames) + 1
    <3>1. v.frames[i] = f /\ (i = 1 => w.frames = <<>>) /\ (i > 1 => w.frames # <<>>)
      BY <2>2, <1>1, <1>7, EmptySeq
    <3> QED
      BY <3>1, <1>3, <1>4, <1>6 DEF FrameOK
  <2> QED
    BY <2>1, <2>2, <1>1, <1>7
<1>11. ASSUME ~v.incomplete PROVE \E S \in SUBSET DOMAIN tree.nodes : CoveredBy(tree, v, S, {})
  <2>1. PICK S \in SUBSET DOMAIN tree.nodes : CoveredBy(tree, w, S, {n})
    BY <1>6, <1>11 DEF NumInv
  <2>2. ASSUME NEW m \in S PROVE Met(tree, v, S, m)
    <3>1. CASE m = n
      BY <3>1, <1>1, <1>3, <1>7 DEF Met, Framed
    <3>2. CASE m # n
      <4>1. Met(tree, w, S, m)
        BY <2>1, <3>2 DEF CoveredBy
      <4>2. Framed(w, m) => Framed(v, m)
        BY <1>1, <1>7 DEF Framed
      <4> QED
        BY <4>1, <4>2, <1>9, PairsStay DEF Met
    <3> QED
      BY <3>1, <3>2
  <2>3. ASSUME NEW i \in 1..Len(v.frames)
        PROVE  /\ v.frames[i].n \in S
               /\ KidsIn(tree, v.frames[i].n, v.frames[i].kid - 1, S)
               /\ PairsIn(tree, v, v.frames[i].n, v.frames[i].pair - 1)
    <3>1. CASE i \in 1..Len(w.frames)
      <4>1. v.frames[i] = w.frames[i] /\ PairsIn(tree, w, w.frames[i].n, w.frames[i].pair - 1)
        BY <2>1, <3>1, <1>7 DEF CoveredBy
      <4>2. PairsIn(tree, v, w.frames[i].n, w.frames[i].pair - 1)
        BY <4>1, <1>9, PairsStay
      <4> QED
        BY <2>1, <3>1, <4>1, <4>2 DEF CoveredBy
    <3>2. CASE i = Len(w.frames) + 1
      <4>1. v.frames[i] = f /\ n \in S
        BY <2>1, <3>2, <1>7 DEF CoveredBy
      <4> QED
        BY <4>1, <1>3 DEF KidsIn, PairsIn
    <3> QED
      BY <3>1, <3>2, <1>1, <1>7
  <2>4. CoveredBy(tree, v, S, {})
    BY <2>1, <2>2, <2>3, <1>6 DEF CoveredBy
  <2> QED
    BY <2>4
<1> QED
  BY <1>8, <1>9, <1>10, <1>11 DEF NumInv, v

(* A node is read: it is lost, or has nothing to read, or is entered. *)
LEMMA ReadKeeps ==
  ASSUME NEW tree \in NumberTrees, NEW w, NEW item, item.n \in Below(tree.nodes, tree.root.n),
         NumInv(tree, w, {item.n}), w.frames = <<>> => item.n = tree.root.n
  PROVE  NumInv(tree, read(tree.nodes, w, item), {})
<1> DEFINE n == item.n
           node == tree.nodes[n]
           noted == NoteLimits(w, node, w.frames = <<>>)
<1>1. n \in DOMAIN tree.nodes /\ node.limits \in Seq(Int)
  BY BelowFacts, TreeData
<1>2. /\ NumInv(tree, noted, {n}) /\ noted.frames = w.frames
      /\ w.frames # <<>> /\ noted.problems = {} => LimitsUsable(node)
  BY ProblemKeeps, <1>1 DEF NoteLimits, limits
<1>3. CASE node.kind = "null"
  <2>1. CASE item.ref
    BY <1>3, <2>1, LostKeeps DEF read
  <2>2. CASE ~item.ref
    <3>1. KidsOf(tree, n) = <<>> /\ PairsOf(tree, n) = <<>>
      BY <1>3 DEF KidsOf, PairsOf, KidsRead, NumsRead
    <3>2. NumInv(tree, w, {})
      <4>1. ASSUME NEW S \in SUBSET DOMAIN tree.nodes, CoveredBy(tree, w, S, {n})
            PROVE  CoveredBy(tree, w, S, {})
        <5>1. Met(tree, w, S, n)
          BY <3>1 DEF Met, KidsIn, PairsIn
        <5> QED
          BY <4>1, <5>1 DEF CoveredBy
      <4> QED
        BY <4>1 DEF NumInv
    <3>3. read(tree.nodes, w, item) = problem(w, "null")
      BY <1>3, <2>2 DEF read
    <3> QED
      BY <3>2, <3>3, ProblemKeeps
  <2> QED
    BY <2>1, <2>2
<1>4. CASE node.kind \in {"other", "panic"}
  BY <1>4, LostKeeps DEF read
<1>5. CASE node.kind \notin {"null", "other", "panic"}
  <2>1. CASE node.kidsAre = "absent" /\ node.numsAre = "absent"
    <3>1. read(tree.nodes, w, item) = lost(noted, "empty")
      BY <1>5, <2>1 DEF read
    <3> QED
      BY <1>2, <3>1, LostKeeps
  <2>2. CASE ~(node.kidsAre = "absent" /\ node.numsAre = "absent")
    <3> DEFINE u == IF node.kidsAre = "other" THEN lost(noted, "kids") ELSE noted
    <3>1. read(tree.nodes, w, item) = called(u, n)
      BY <1>5, <2>2 DEF read
    <3>2. CASE node.kidsAre = "other"
      <4>1. NumInv(tree, u, {}) /\ u.incomplete /\ u.frames = w.frames
        BY <1>2, <3>2, LostKeeps
      <4>2. NumInv(tree, u, {n}) /\ u.problems # {}
        BY <4>1 DEF NumInv, WalkShape
      <4> HIDE DEF u
      <4> QED
        BY <3>1, <4>1, <4>2, CalledKeeps
    <3>3. CASE node.kidsAre # "other"
      <4>1. u = noted
        BY <3>3
      <4> HIDE DEF u, noted
      <4> QED
        BY <1>2, <3>1, <4>1, CalledKeeps
    <3> QED
      BY <3>2, <3>3
  <2> QED
    BY <2>1, <2>2
<1> QED
  BY <1>3, <1>4, <1>5

(* A kid or the root is visited: every way it can go is accounted for. *)
LEMMA VisitKeeps ==
  ASSUME NEW tree \in NumberTrees, NEW w, NEW item, item.n \in Below(tree.nodes, tree.root.n),
         NumInv(tree, w, {item.n} \ w.visited), w.frames = <<>> => item.n = tree.root.n
  PROVE  NumInv(tree, visit(tree.nodes, w, item), {})
<1> DEFINE n == item.n
<1>1. CASE Len(w.frames) + 1 > maxNumberTreeDepth
  BY <1>1, LostKeeps DEF visit, NodeTooDeep
<1>2. CASE ~(Len(w.frames) + 1 > maxNumberTreeDepth) /\ item.ref /\ n \in w.visited
  <2>1. NumInv(tree, w, {})
    <3>1. {item.n} \ w.visited = {}
      BY <1>2
    <3> QED
      BY <3>1
  <2> QED
    BY <1>2, <2>1, ProblemKeeps DEF visit
<1>3. CASE ~(Len(w.frames) + 1 > maxNumberTreeDepth) /\ ~(item.ref /\ n \in w.visited)
  <2> DEFINE v == IF item.ref THEN [w EXCEPT !.visited = w.visited \cup {n}] ELSE w
  <2>1. visit(tree.nodes, w, item) = read(tree.nodes, v, item)
    BY <1>3 DEF visit
  <2>2. WalkShape(tree, w)
    BY DEF NumInv
  <2>3. v = [frames |-> w.frames, entries |-> w.entries,
             visited |-> IF item.ref THEN w.visited \cup {n} ELSE w.visited,
             problems |-> w.problems, incomplete |-> w.incomplete]
    BY <2>2 DEF WalkShape
  <2> HIDE DEF v
  <2>4. /\ v.frames = w.frames /\ v.entries = w.entries /\ w.visited \subseteq v.visited
        /\ v.visited \subseteq w.visited \cup {n}
        /\ v.problems = w.problems /\ v.incomplete = w.incomplete
    BY <2>3
  <2>5. WalkShape(tree, v)
    BY <2>2, <2>3, <2>4 DEF WalkShape
  <2>6. StoredBelow(tree, v) /\ ExtendsWalk(w, v)
    BY <2>4 DEF NumInv, StoredBelow, ExtendsWalk
  <2>7. ASSUME NEW i \in 1..Len(v.frames) PROVE FrameOK(tree, v, i)
    BY <2>4 DEF NumInv, FrameOK
  <2>8. ASSUME NEW S \in SUBSET DOMAIN tree.nodes, CoveredBy(tree, w, S, {n} \ w.visited)
        PROVE  CoveredBy(tree, v, S, {n})
    <3>1. n \in S
      BY <2>8 DEF CoveredBy
    <3>2. ASSUME NEW m \in S \ {n} PROVE Met(tree, v, S, m)
      <4>1. Met(tree, w, S, m)
        BY <2>8 DEF CoveredBy
      <4> QED
        BY <4>1, <2>4, <2>6, PairsStay DEF Met, Framed
    <3>3. ASSUME NEW i \in 1..Len(v.frames)
          PROVE  PairsIn(tree, v, v.frames[i].n, v.frames[i].pair - 1)
      <4>1. PairsIn(tree, w, v.frames[i].n, v.frames[i].pair - 1)
        BY <2>4, <2>8 DEF CoveredBy
      <4> QED
        BY <4>1, <2>6, PairsStay
    <3> QED
      BY <2>4, <2>8, <3>1, <3>2, <3>3 DEF CoveredBy
  <2>9. NumInv(tree, v, {n})
    BY <2>4, <2>5, <2>6, <2>7, <2>8 DEF NumInv
  <2> QED
    BY <2>1, <2>4, <2>9, ReadKeeps
<1> QED
  BY <1>1, <1>2, <1>3

(* The innermost frame is moved on to g, which may come to more nodes. *)
LEMMA MovedKeeps ==
  ASSUME NEW tree \in NumberTrees, NEW w, NEW g \in NumFrames(tree), NEW more \in SUBSET DOMAIN tree.nodes,
         NumInv(tree, w, {}), w.frames # <<>>, g.n = Inner(w).n,
         FrameOK(tree, moved(w, g), Len(w.frames)),
         \A S \in SUBSET DOMAIN tree.nodes :
           CoveredBy(tree, w, S, {}) /\ ~w.incomplete =>
             KidsIn(tree, g.n, g.kid - 1, S \cup more) /\ PairsIn(tree, w, g.n, g.pair - 1)
  PROVE  NumInv(tree, moved(w, g), more \ w.visited)
<1> DEFINE v == moved(w, g)
           last == Len(w.frames)
<1>0. v = [w EXCEPT !.frames = [w.frames EXCEPT ![last] = g]]
  BY DEF moved
<1>1. WalkShape(tree, w) /\ w.frames \in Seq(NumFrames(tree)) /\ last \in 1..last
  BY EmptySeq, LenProperties DEF NumInv, WalkShape
<1> HIDE DEF v
<1>2. v = [frames |-> [w.frames EXCEPT ![last] = g], entries |-> w.entries, visited |-> w.visited,
           problems |-> w.problems, incomplete |-> w.incomplete]
  BY <1>0, <1>1 DEF WalkShape
<1>3. /\ v.frames = [w.frames EXCEPT ![last] = g] /\ v.visited = w.visited /\ v.entries = w.entries
      /\ v.problems = w.problems /\ v.incomplete = w.incomplete
  BY <1>2
<1>4. /\ v.frames \in Seq(NumFrames(tree)) /\ Len(v.frames) = last /\ v.frames[last] = g
      /\ \A i \in 1..last : i # last => v.frames[i] = w.frames[i]
      /\ \A i \in 1..last : v.frames[i].n = w.frames[i].n
  BY <1>1, <1>3 DEF Inner
<1>5. WalkShape(tree, v)
  BY <1>1, <1>2, <1>3, <1>4 DEF WalkShape
<1>6. StoredBelow(tree, v) /\ ExtendsWalk(w, v)
  BY <1>3 DEF NumInv, StoredBelow, ExtendsWalk
<1>7. ASSUME NEW i \in 1..Len(v.frames) PROVE FrameOK(tree, v, i)
  <2>1. CASE i = last
    BY <2>1 DEF v
  <2>2. CASE i # last
    <3>1. FrameOK(tree, w, i) /\ v.frames[i] = w.frames[i]
      BY <2>2, <1>4 DEF NumInv
    <3> QED
      BY <3>1, <1>3 DEF FrameOK
  <2> QED
    BY <2>1, <2>2
<1>8. ASSUME ~v.incomplete
      PROVE  \E S \in SUBSET DOMAIN tree.nodes : CoveredBy(tree, v, S, more \ w.visited)
  <2>1. PICK S \in SUBSET DOMAIN tree.nodes : CoveredBy(tree, w, S, {})
    BY <1>3, <1>8 DEF NumInv
  <2> DEFINE T == S \cup more
  <2>2. T \in SUBSET DOMAIN tree.nodes /\ S \subseteq T
    OBVIOUS
  <2>3. KidsIn(tree, g.n, g.kid - 1, T) /\ PairsIn(tree, v, g.n, g.pair - 1)
    BY <2>1, <1>3, <1>6, <1>8, PairsStay
  <2> HIDE DEF T
  <2>4. ASSUME NEW m \in T \ (more \ w.visited) PROVE Met(tree, v, T, m)
    <3>1. m \in S
      BY <2>1 DEF CoveredBy, T
    <3>2. Met(tree, w, S, m)
      BY <2>1, <3>1 DEF CoveredBy
    <3>3. Framed(w, m) => Framed(v, m)
      BY <1>4 DEF Framed
    <3>4. KidsIn(tree, m, Len(KidsOf(tree, m)), S) => KidsIn(tree, m, Len(KidsOf(tree, m)), T)
      BY <2>2 DEF KidsIn
    <3> QED
      BY <3>2, <3>3, <3>4, <1>6, PairsStay DEF Met
  <2>5. ASSUME NEW i \in 1..Len(v.frames)
        PROVE  /\ v.frames[i].n \in T
               /\ KidsIn(tree, v.frames[i].n, v.frames[i].kid - 1, T)
               /\ PairsIn(tree, v, v.frames[i].n, v.frames[i].pair - 1)
    <3>1. CASE i = last
      BY <3>1, <1>1, <1>4, <2>1, <2>2, <2>3 DEF CoveredBy
    <3>2. CASE i # last
      <4>1. /\ v.frames[i] = w.frames[i] /\ w.frames[i].n \in S
            /\ KidsIn(tree, w.frames[i].n, w.frames[i].kid - 1, S)
            /\ PairsIn(tree, w, w.frames[i].n, w.frames[i].pair - 1)
        BY <3>2, <1>4, <2>1 DEF CoveredBy
      <4>2. PairsIn(tree, v, w.frames[i].n, w.frames[i].pair - 1)
        BY <4>1, <1>6, PairsStay
      <4>3. KidsIn(tree, w.frames[i].n, w.frames[i].kid - 1, T)
        BY <4>1, <2>2 DEF KidsIn
      <4> QED
        BY <4>1, <4>2, <4>3, <2>2
    <3> QED
      BY <3>1, <3>2
  <2>6. tree.root.n \in T /\ v.visited \subseteq T /\ more \ w.visited \subseteq T
    BY <2>1, <1>3 DEF CoveredBy, T
  <2>7. CoveredBy(tree, v, T, more \ w.visited)
    BY <2>2, <2>4, <2>5, <2>6 DEF CoveredBy
  <2> QED
    BY <2>2, <2>7
<1> QED
  BY <1>5, <1>6, <1>7, <1>8 DEF NumInv, v

(* What the innermost frame is, and what moving it on leaves as it was. *)
LEMMA InnerFacts ==
  ASSUME NEW tree \in NumberTrees, NEW w, NumInv(tree, w, {}), w.frames # <<>>
  PROVE  /\ Len(w.frames) \in Nat \ {0} /\ Len(w.frames) \in 1..Len(w.frames) /\ Inner(w) = w.frames[Len(w.frames)]
         /\ Inner(w) \in NumFrames(tree) /\ FrameOK(tree, w, Len(w.frames))
         /\ Inner(w).n \in Below(tree.nodes, tree.root.n) /\ Inner(w).n \in DOMAIN tree.nodes
         /\ Inner(w).kid \in Nat /\ Inner(w).pair \in Nat
<1>1. /\ w.frames \in Seq(NumFrames(tree)) /\ Len(w.frames) \in Nat \ {0}
      /\ Len(w.frames) \in 1..Len(w.frames)
  BY EmptySeq, LenProperties DEF NumInv, WalkShape
<1>2. Inner(w) = w.frames[Len(w.frames)] /\ Inner(w) \in NumFrames(tree)
  BY <1>1 DEF Inner
<1>3. FrameOK(tree, w, Len(w.frames))
  BY <1>1 DEF NumInv
<1>4. Inner(w).n \in Below(tree.nodes, tree.root.n)
  BY <1>2, <1>3 DEF FrameOK
<1> QED
  BY <1>1, <1>2, <1>3, <1>4 DEF NumFrames

(* Moving on the innermost frame touches nothing else. *)
LEMMA MovedFields ==
  ASSUME NEW tree \in NumberTrees, NEW w, NEW g, NumInv(tree, w, {}), w.frames # <<>>
  PROVE  /\ moved(w, g).frames[Len(w.frames)] = g /\ moved(w, g).frames # <<>>
         /\ moved(w, g).problems = w.problems /\ moved(w, g).visited = w.visited
<1>1. WalkShape(tree, w) /\ w.frames \in Seq(NumFrames(tree)) /\ Len(w.frames) \in 1..Len(w.frames)
  BY EmptySeq, LenProperties DEF NumInv, WalkShape
<1>2. moved(w, g) = [w EXCEPT !.frames = [w.frames EXCEPT ![Len(w.frames)] = g]]
  BY DEF moved
<1>3. moved(w, g) = [frames |-> [w.frames EXCEPT ![Len(w.frames)] = g], entries |-> w.entries,
                     visited |-> w.visited, problems |-> w.problems, incomplete |-> w.incomplete]
  BY <1>1, <1>2 DEF WalkShape
<1>4. [w.frames EXCEPT ![Len(w.frames)] = g] # <<>>
  BY <1>1
<1> QED
  BY <1>1, <1>3, <1>4

(* The next kid is visited. *)
LEMMA VisitKidKeeps ==
  ASSUME NEW tree \in NumberTrees, NEW w, NumInv(tree, w, {}), w.frames # <<>>, AtNumKid(tree.nodes, w)
  PROVE  NumInv(tree, visitKid(tree.nodes, w), {})
<1> DEFINE f == Inner(w)
           g == [f EXCEPT !.kid = f.kid + 1]
           item == KidsOf(tree, f.n)[f.kid]
           v == moved(w, g)
<1>1. /\ f \in NumFrames(tree) /\ FrameOK(tree, w, Len(w.frames)) /\ f = w.frames[Len(w.frames)]
      /\ f.n \in DOMAIN tree.nodes /\ f.n \in Below(tree.nodes, tree.root.n)
  BY InnerFacts
<1>2. KidsOf(tree, f.n) \in Seq(NumKids(tree)) /\ Len(KidsOf(tree, f.n)) \in Nat
  BY <1>1, TreeData
<1>3. f.kid \in 1..Len(KidsOf(tree, f.n))
  BY <1>1, <1>2 DEF AtNumKid, KidsOf, FrameOK, NumFrames
<1>4. item \in NumKids(tree) /\ item.n \in DOMAIN tree.nodes /\ item.n \in Below(tree.nodes, tree.root.n)
  BY <1>1, <1>2, <1>3, BelowFacts, ElementOfSeq DEF NumKids
<1>5. g \in NumFrames(tree) /\ g.n = f.n /\ g.kid = f.kid + 1 /\ g.pair = f.pair /\ g.prev = f.prev
  BY <1>1 DEF NumFrames
<1> HIDE DEF f, g
<1>6. v.frames[Len(w.frames)] = g /\ v.frames # <<>> /\ v.problems = w.problems /\ v.visited = w.visited
  BY MovedFields
<1>7. FrameOK(tree, v, Len(w.frames))
  <2>1. f.pair = 0
    BY <1>1, <1>2, <1>3 DEF FrameOK, NumFrames
  <2> QED
    BY <1>1, <1>2, <1>3, <1>5, <1>6, <2>1 DEF FrameOK
<1>8. ASSUME NEW S \in SUBSET DOMAIN tree.nodes, CoveredBy(tree, w, S, {})
      PROVE  KidsIn(tree, g.n, g.kid - 1, S \cup {item.n}) /\ PairsIn(tree, w, g.n, g.pair - 1)
  <2>1. /\ KidsIn(tree, f.n, f.kid - 1, S) /\ PairsIn(tree, w, f.n, f.pair - 1)
        /\ Len(w.frames) \in 1..Len(w.frames)
    BY <1>1, <1>8, InnerFacts DEF CoveredBy
  <2>2. \A j \in 1..f.kid : j = f.kid \/ j \in 1..(f.kid - 1)
    BY <1>2, <1>3
  <2> QED
    BY <1>2, <1>3, <1>5, <2>1, <2>2 DEF KidsIn
<1>9. NumInv(tree, v, {item.n} \ v.visited)
  <2>1. {item.n} \in SUBSET DOMAIN tree.nodes
    BY <1>4
  <2> HIDE DEF item, v
  <2>2. NumInv(tree, moved(w, g), {item.n} \ w.visited)
    BY <1>5, <1>7, <1>8, <2>1, MovedKeeps DEF f, v
  <2> QED
    BY <1>6, <2>2 DEF v
<1>10. visitKid(tree.nodes, w) = visit(tree.nodes, v, item)
  BY DEF visitKid, f, g, KidsOf
<1> HIDE DEF item, v
<1> QED
  BY <1>4, <1>6, <1>9, <1>10, VisitKeeps

(* readNums begins. *)
LEMMA StartNumsKeeps ==
  ASSUME NEW tree \in NumberTrees, NEW w, NumInv(tree, w, {}), w.frames # <<>>, ~AtNumKid(tree.nodes, w),
         Inner(w).pair = 0
  PROVE  NumInv(tree, startNums(tree.nodes, w), {})
<1> DEFINE f == Inner(w)
           g == [f EXCEPT !.pair = 1]
           v == moved(w, g)
<1>1. /\ f \in NumFrames(tree) /\ FrameOK(tree, w, Len(w.frames)) /\ f = w.frames[Len(w.frames)]
      /\ f.n \in DOMAIN tree.nodes
  BY InnerFacts
<1>2. Len(KidsOf(tree, f.n)) \in Nat /\ Len(PairsOf(tree, f.n)) \in Nat
  BY <1>1, TreeData
<1>3. f.kid = Len(KidsOf(tree, f.n)) + 1
  BY <1>1, <1>2 DEF AtNumKid, KidsOf, FrameOK, NumFrames
<1>4. g \in NumFrames(tree) /\ g.n = f.n /\ g.kid = f.kid /\ g.pair = 1 /\ g.prev = f.prev
  BY <1>1 DEF NumFrames
<1>5. startNums(tree.nodes, w) = v \/ \E what : startNums(tree.nodes, w) = lost(v, what)
  BY DEF startNums
<1>0. f.pair = 0
  OBVIOUS
<1> HIDE DEF f, g
<1>6. v.frames[Len(w.frames)] = g /\ v.problems = w.problems
  BY MovedFields
<1>7. FrameOK(tree, v, Len(w.frames))
  BY <1>0, <1>1, <1>2, <1>3, <1>4, <1>6 DEF FrameOK
<1>8. ASSUME NEW S \in SUBSET DOMAIN tree.nodes, CoveredBy(tree, w, S, {})
      PROVE  KidsIn(tree, g.n, g.kid - 1, S \cup {}) /\ PairsIn(tree, w, g.n, g.pair - 1)
  <2>1. KidsIn(tree, f.n, f.kid - 1, S) /\ Len(w.frames) \in 1..Len(w.frames)
    BY <1>1, <1>8, InnerFacts DEF CoveredBy
  <2> QED
    BY <1>4, <2>1 DEF KidsIn, PairsIn
<1>9. NumInv(tree, v, {})
  <2>1. NumInv(tree, moved(w, g), {} \ w.visited)
    BY <1>4, <1>7, <1>8, MovedKeeps DEF f, v
  <2> QED
    BY <2>1 DEF v
<1> HIDE DEF v
<1> QED
  BY <1>5, <1>9, LostKeeps

(* A key is recorded, unless it is an entry already. *)
LEMMA RecordedKeeps ==
  ASSUME NEW tree \in NumberTrees, NEW w, NEW n \in Below(tree.nodes, tree.root.n),
         NEW j \in 1..Len(PairsOf(tree, n)), NEW key, NEW value, NumInv(tree, w, {}),
         PairsOf(tree, n)[j] = <<key, value>>, key # NoKey
  PROVE  LET v == Recorded(w, key, value)
         IN  /\ NumInv(tree, v, {}) /\ ExtendsWalk(w, v) /\ v.frames = w.frames
             /\ key \in DOMAIN v.entries
             /\ v.problems = {} => v.entries[key] = value /\ key \notin DOMAIN w.entries
<1> DEFINE v == Recorded(w, key, value)
           stored == [x \in DOMAIN w.entries \cup {key} |-> IF x = key THEN value ELSE w.entries[x]]
<1>1. CASE key \in DOMAIN w.entries
  <2>1. v = problem(w, "duplicate")
    BY <1>1 DEF Recorded
  <2> HIDE DEF v
  <2> QED
    BY <1>1, <2>1, ProblemKeeps DEF v
<1>2. CASE key \notin DOMAIN w.entries
  <2>1. WalkShape(tree, w)
    BY DEF NumInv
  <2>2. v = [w EXCEPT !.entries = stored]
    BY <1>2 DEF Recorded
  <2>3. DOMAIN stored = DOMAIN w.entries \cup {key} /\ stored[key] = value
        /\ \A x \in DOMAIN w.entries : stored[x] = w.entries[x]
    BY <1>2
  <2> HIDE DEF v, stored
  <2>4. v = [frames |-> w.frames, entries |-> stored, visited |-> w.visited,
             problems |-> w.problems, incomplete |-> w.incomplete]
    BY <2>1, <2>2 DEF WalkShape
  <2>5. /\ v.frames = w.frames /\ v.visited = w.visited /\ v.entries = stored
        /\ v.problems = w.problems /\ v.incomplete = w.incomplete
    BY <2>4
  <2>6. WalkShape(tree, v)
    BY <2>1, <2>4, <2>5 DEF WalkShape
  <2>7. ExtendsWalk(w, v)
    BY <2>3, <2>5 DEF ExtendsWalk
  <2>8. StoredBelow(tree, v)
    <3>1. n \in DOMAIN tree.nodes
      BY BelowFacts
    <3>2. PairsOf(tree, n) \in Seq((Nat \cup {NoKey}) \X Nat)
      BY <3>1, TreeData
    <3>3. j \in DOMAIN PairsOf(tree, n)
      BY <3>2
    <3>4. ASSUME NEW k \in DOMAIN v.entries
          PROVE  \E x \in Below(tree.nodes, tree.root.n) : \E i \in DOMAIN PairsOf(tree, x) :
                   PairsOf(tree, x)[i] = <<k, v.entries[k]>> /\ k # NoKey
      <4>1. CASE k = key
        BY <4>1, <3>3, <2>3, <2>5
      <4>2. CASE k # key
        <5>1. k \in DOMAIN w.entries /\ v.entries[k] = w.entries[k]
          BY <4>2, <3>4, <2>3, <2>5
        <5> QED
          BY <5>1 DEF NumInv, StoredBelow
      <4> QED
        BY <4>1, <4>2
    <3> QED
      BY <3>4 DEF StoredBelow
  <2>9. NumInv(tree, v, {})
    BY <2>5, <2>6, <2>7, <2>8, InvStays
  <2> QED
    BY <1>2, <2>3, <2>5, <2>7, <2>9 DEF v
<1> QED
  BY <1>1, <1>2

(* A frame moved on to the next pair is a frame. *)
LEMMA NextFrame ==
  ASSUME NEW tree, NEW f \in NumFrames(tree), NEW key
  PROVE  /\ pairDone(f) \in NumFrames(tree) /\ pairDone(f).n = f.n /\ pairDone(f).kid = f.kid
         /\ pairDone(f).pair = f.pair + 1
         /\ key \in Nat => keyDone(f, key) \in NumFrames(tree)
         /\ keyDone(f, key).n = f.n /\ keyDone(f, key).kid = f.kid
         /\ keyDone(f, key).pair = f.pair + 1 /\ keyDone(f, key).prev = <<key>>
<1>1. f \in [n : DOMAIN tree.nodes, kid : Nat, pair : Nat, prev : Seq(Nat)]
  BY DEF NumFrames
<1>2. f.n \in DOMAIN tree.nodes /\ f.kid \in Nat /\ f.pair \in Nat /\ f.prev \in Seq(Nat)
  BY <1>1
<1>3. f.pair + 1 \in Nat
  BY <1>2
<1>4. /\ pairDone(f) \in NumFrames(tree) /\ pairDone(f).n = f.n /\ pairDone(f).kid = f.kid
      /\ pairDone(f).pair = f.pair + 1
  BY <1>1, <1>2, <1>3 DEF NumFrames, pairDone
<1>5. /\ keyDone(f, key).n = f.n /\ keyDone(f, key).kid = f.kid
      /\ keyDone(f, key).pair = f.pair + 1 /\ keyDone(f, key).prev = <<key>>
  BY <1>1 DEF keyDone
<1>6. ASSUME key \in Nat PROVE keyDone(f, key) \in NumFrames(tree)
  <2>1. <<key>> \in Seq(Nat)
    BY <1>6
  <2> QED
    BY <1>1, <1>2, <1>3, <2>1 DEF NumFrames, keyDone
<1> QED
  BY <1>4, <1>5, <1>6

(* One pair is read. *)
LEMMA ReadPairKeeps ==
  ASSUME NEW tree \in NumberTrees, NEW w, NumInv(tree, w, {}), w.frames # <<>>,
         Inner(w).pair > 0, AtPair(tree.nodes, w)
  PROVE  NumInv(tree, readPair(tree.nodes, w), {})
<1> DEFINE f == Inner(w)
           p == PairsOf(tree, f.n)[f.pair]
           key == p[1]
           lim == limits(tree.nodes[f.n], Len(w.frames) = 1)
           w1 == IF lim # <<>> /\ (key < lim[1] \/ key > lim[2]) THEN problem(w, "outside") ELSE w
           w2 == IF f.prev # <<>> /\ key < f.prev[1] THEN problem(w1, "order") ELSE w1
           u == Recorded(w2, key, p[2])
           g == keyDone(f, key)
           h == pairDone(f)
<1>1. /\ f \in NumFrames(tree) /\ FrameOK(tree, w, Len(w.frames)) /\ f = w.frames[Len(w.frames)]
      /\ f.n \in DOMAIN tree.nodes /\ f.n \in Below(tree.nodes, tree.root.n) /\ f.pair \in Nat
      /\ Len(w.frames) \in 1..Len(w.frames) /\ Len(w.frames) \in Nat \ {0}
  BY InnerFacts
<1>2. /\ PairsOf(tree, f.n) \in Seq((Nat \cup {NoKey}) \X Nat)
      /\ Len(PairsOf(tree, f.n)) \in Nat /\ Len(KidsOf(tree, f.n)) \in Nat
      /\ tree.nodes[f.n].limits \in Seq(Int)
  BY <1>1, TreeData
<1>3. f.pair \in 1..Len(PairsOf(tree, f.n)) /\ f.kid = Len(KidsOf(tree, f.n)) + 1
  BY <1>1, <1>2 DEF AtPair, PairsOf, FrameOK
<1>4. p \in (Nat \cup {NoKey}) \X Nat /\ p = <<p[1], p[2]>> /\ key \in Nat \cup {NoKey}
  BY <1>2, <1>3, ElementOfSeq
<1>5. readPair(tree.nodes, w) = IF key = NoKey THEN moved(lost(w, "key"), h) ELSE moved(u, g)
  BY DEF readPair, PairsOf
<1>0. f.pair > 0
  OBVIOUS
<1>6. ASSUME NEW v, NEW c, NumInv(tree, v, {}), v.frames = w.frames, v.problems = {} => w.problems = {},
             c \in NumFrames(tree), c.n = f.n, c.kid = f.kid, c.pair = f.pair + 1,
             v.problems = {} => c.prev = <<key>>,
             ~v.incomplete => key \in DOMAIN v.entries /\ (v.problems = {} => PairIsClean(tree, v, f.n, f.pair))
      PROVE  NumInv(tree, moved(v, c), {})
  <2>1. Inner(v) = f /\ v.frames # <<>>
    BY <1>6 DEF Inner
  <2>2. moved(v, c).frames[Len(v.frames)] = c /\ moved(v, c).problems = v.problems
    BY <1>6, <2>1, MovedFields
  <2> HIDE DEF f, p, key, lim, w1, w2, u, g, h
  <2>3. FrameOK(tree, moved(v, c), Len(v.frames))
    <3>1. c.pair - 1 = f.pair /\ c.pair > 1 /\ c.pair <= Len(PairsOf(tree, f.n)) + 1
      BY <1>0, <1>1, <1>2, <1>3, <1>6, SMTT(30)
    <3>2. v.problems = {} => c.prev = <<PairsOf(tree, f.n)[f.pair][1]>>
      BY <1>6 DEF p, key
    <3> DEFINE z == moved(v, c)
    <3>3. z.frames[Len(v.frames)] = c /\ z.problems = v.problems /\ Len(v.frames) = Len(w.frames)
      BY <1>6, <2>2
    <3> HIDE DEF z
    <3>4. /\ Len(w.frames) = 1 => c.n = tree.root.n
          /\ c.kid \in 1..Len(KidsOf(tree, c.n)) + 1 /\ c.kid = Len(KidsOf(tree, c.n)) + 1
          /\ c.n \in Below(tree.nodes, tree.root.n)
          /\ v.problems = {} /\ Len(w.frames) > 1 => LimitsUsable(tree.nodes[c.n])
      BY <1>1, <1>2, <1>3, <1>6 DEF FrameOK
    <3>5. v.problems = {} => c.prev = <<PairsOf(tree, c.n)[c.pair - 1][1]>>
      BY <1>6, <3>1, <3>2
    <3>6. c.pair <= Len(PairsOf(tree, c.n)) + 1
      BY <1>6, <3>1
    <3>7. c.pair \in Nat /\ ~(c.pair <= 1)
      <4>1. \A x, y : x \in Nat /\ x > 0 /\ y = x + 1 => y \in Nat /\ ~(y <= 1)
        OBVIOUS
      <4> QED
        BY <1>0, <1>1, <1>6, <4>1
    <3>8. FrameOK(tree, z, Len(v.frames))
      BY <3>3, <3>4, <3>5, <3>6, <3>7 DEF FrameOK
    <3> QED
      BY <3>8 DEF z
  <2>4. ASSUME NEW S \in SUBSET DOMAIN tree.nodes, CoveredBy(tree, v, S, {}), ~v.incomplete
        PROVE  KidsIn(tree, c.n, c.kid - 1, S \cup {}) /\ PairsIn(tree, v, c.n, c.pair - 1)
    <3>1. KidsIn(tree, f.n, f.kid - 1, S) /\ PairsIn(tree, v, f.n, f.pair - 1)
      BY <1>1, <1>6, <2>4 DEF CoveredBy
    <3>2. \A j \in 1..f.pair : j = f.pair \/ j \in 1..(f.pair - 1)
      BY <1>1
    <3>3. PairsIn(tree, v, f.n, f.pair)
      BY <1>6, <2>4, <3>1, <3>2 DEF PairsIn, p, key
    <3>4. c.pair - 1 = f.pair
      BY <1>1, <1>6
    <3> QED
      BY <1>6, <3>1, <3>3, <3>4 DEF KidsIn
  <2>5. NumInv(tree, moved(v, c), {} \ v.visited)
    BY <1>6, <2>1, <2>3, <2>4, MovedKeeps
  <2> QED
    BY <2>5
<1>7. CASE key = NoKey
  <2>1. /\ NumInv(tree, lost(w, "key"), {}) /\ lost(w, "key").frames = w.frames
        /\ lost(w, "key").incomplete
    BY LostKeeps
  <2>2. lost(w, "key").problems # {}
    BY <2>1 DEF NumInv, WalkShape
  <2>3. h \in NumFrames(tree) /\ h.n = f.n /\ h.kid = f.kid /\ h.pair = f.pair + 1
    BY <1>1, NextFrame
  <2> HIDE DEF f, p, key, lim, w1, w2, u, g, h
  <2>4. NumInv(tree, moved(lost(w, "key"), h), {})
    BY <1>6, <2>1, <2>2, <2>3
  <2> QED
    BY <1>5, <1>7, <2>4
<1>8. CASE key # NoKey
  <2>1. key \in Nat
    BY <1>4, <1>8
  <2>2. /\ NumInv(tree, w1, {}) /\ ExtendsWalk(w, w1) /\ w1.frames = w.frames
        /\ w1.problems = {} => ~(lim # <<>> /\ (key < lim[1] \/ key > lim[2]))
    <3>1. ExtendsWalk(w, w)
      BY DEF ExtendsWalk
    <3> QED
      BY <3>1, ProblemKeeps
  <2>3. /\ NumInv(tree, w2, {}) /\ ExtendsWalk(w1, w2) /\ w2.frames = w1.frames
        /\ w2.problems = {} => ~(f.prev # <<>> /\ key < f.prev[1])
    <3> HIDE DEF w1
    <3>1. ExtendsWalk(w1, w1)
      BY DEF ExtendsWalk
    <3> QED
      BY <2>2, <3>1, ProblemKeeps
  <2>4. g \in NumFrames(tree) /\ g.n = f.n /\ g.kid = f.kid /\ g.pair = f.pair + 1 /\ g.prev = <<key>>
    BY <1>1, <2>1, NextFrame, ZenonT(30)
  <2>5. PairsOf(tree, f.n)[f.pair] = <<key, p[2]>>
    BY <1>4
  <2> HIDE DEF f, p, key, w1, w2, u, g, h
  <2>6. /\ NumInv(tree, u, {}) /\ ExtendsWalk(w2, u) /\ u.frames = w2.frames /\ key \in DOMAIN u.entries
        /\ u.problems = {} => u.entries[key] = p[2] /\ key \notin DOMAIN w2.entries
    BY <1>1, <1>3, <1>8, <2>3, <2>5, RecordedKeeps DEF u
  <2>7. ASSUME ~u.incomplete, u.problems = {}
        PROVE  PairIsClean(tree, u, f.n, f.pair)
    <3>1. ~w.incomplete /\ w.problems = {} /\ w1.problems = {} /\ w2.problems = {}
      BY <2>2, <2>3, <2>6, <2>7 DEF ExtendsWalk
    <3>2. PairsIn(tree, w, f.n, f.pair - 1)
      BY <1>1, <3>1 DEF NumInv, CoveredBy
    <3>3. ASSUME NEW i \in 1..(f.pair - 1) PROVE PairsOf(tree, f.n)[i][1] < key
      <4> DEFINE b == f.pair - 1
                 q == PairsOf(tree, f.n)[b][1]
      <4>1. b \in 1..b /\ b \in 1..Len(PairsOf(tree, f.n)) /\ i \in 1..b /\ f.pair > 1
        BY <1>1, <1>2, <1>3, <3>3, SMTT(30)
      <4>2. q \in DOMAIN w.entries /\ PairIsClean(tree, w, f.n, b)
        BY <3>1, <3>2, <4>1 DEF PairsIn
      <4>3. q # NoKey /\ (\A x \in 1..(b - 1) : PairsOf(tree, f.n)[x][1] < q)
        BY <4>2 DEF PairIsClean, PairsOf
      <4>4. q \in Nat
        BY <1>2, <4>1, <4>3
      <4>5. f.prev = <<q>>
        BY <1>1, <3>1, <4>1 DEF FrameOK
      <4>6. ~(key < q) /\ key # q
        <5>1. f.prev # <<>> /\ f.prev[1] = q
          BY <4>5
        <5>2. q \in DOMAIN w2.entries
          BY <2>2, <2>3, <4>2 DEF ExtendsWalk
        <5> QED
          BY <2>3, <2>6, <2>7, <3>1, <5>1, <5>2
      <4>7. q < key
        BY <2>1, <4>4, <4>6
      <4>8. CASE i = b
        BY <4>7, <4>8
      <4>9. CASE i # b
        <5>1. i \in 1..(b - 1) /\ i \in 1..Len(PairsOf(tree, f.n))
          BY <4>1, <4>9
        <5>2. PairsOf(tree, f.n)[i][1] < q /\ PairsOf(tree, f.n)[i][1] \in Nat \cup {NoKey}
          BY <1>2, <4>3, <5>1
        <5> HIDE DEF q
        <5> QED
          BY <2>1, <4>4, <4>7, <5>2 DEF NoKey
      <4> QED
        BY <4>8, <4>9
    <3>4. ASSUME f.n # tree.root.n
          PROVE  /\ LimitsUsable(tree.nodes[f.n]) /\ tree.nodes[f.n].limits[1] <= key
                 /\ key <= tree.nodes[f.n].limits[2]
      <4>1. Len(w.frames) # 1
        BY <1>1, <3>4 DEF FrameOK
      <4>2. LimitsUsable(tree.nodes[f.n])
        <5> DEFINE last == Len(w.frames)
        <5>1. FrameOK(tree, w, last) /\ w.frames[last] = f /\ last \in Nat \ {0} /\ last # 1
          BY <1>1, <4>1
        <5> HIDE DEF last
        <5> QED
          BY <3>1, <5>1 DEF FrameOK
      <4>3. lim = tree.nodes[f.n].limits /\ Len(lim) = 2
        BY <4>1, <4>2 DEF limits, LimitsUsable
      <4>4. lim # <<>> /\ lim[1] \in Int /\ lim[2] \in Int
        BY <1>2, <4>3
      <4>5. ~(key < lim[1]) /\ ~(key > lim[2])
        BY <2>2, <3>1, <4>4
      <4> HIDE DEF lim
      <4> QED
        BY <2>1, <4>2, <4>3, <4>4, <4>5
    <3>5. PairsOf(tree, f.n)[f.pair][1] = key /\ PairsOf(tree, f.n)[f.pair][2] = p[2]
      BY <2>5
    <3> QED
      BY <1>8, <2>6, <2>7, <3>3, <3>4, <3>5 DEF PairIsClean, PairsOf
  <2>8. u.frames = w.frames /\ (u.problems = {} => w.problems = {})
    BY <2>2, <2>3, <2>6 DEF ExtendsWalk
  <2>9. NumInv(tree, moved(u, g), {})
    BY <1>6, <2>4, <2>6, <2>7, <2>8
  <2> QED
    BY <1>5, <1>8, <2>9
<1> QED
  BY <1>7, <1>8

(* The innermost read returns, with all it has to read come to or lost. *)
LEMMA ReturnedKeeps ==
  ASSUME NEW tree \in NumberTrees, NEW w, NumInv(tree, w, {}), w.frames # <<>>,
         w.incomplete \/ (Inner(w).pair > 0 /\ ~AtPair(tree.nodes, w))
  PROVE  NumInv(tree, returned(w), {})
<1> DEFINE f == Inner(w)
           v == returned(w)
           last == Len(w.frames)
<1>1. /\ f \in NumFrames(tree) /\ FrameOK(tree, w, last) /\ f = w.frames[last]
      /\ f.n \in DOMAIN tree.nodes /\ last \in 1..last /\ f.pair \in Nat
  BY InnerFacts
<1>2. WalkShape(tree, w) /\ w.frames \in Seq(NumFrames(tree))
  BY DEF NumInv, WalkShape
<1>3. v = [w EXCEPT !.frames = Front(w.frames)]
  BY DEF returned
<1>4. /\ Front(w.frames) \in Seq(NumFrames(tree)) /\ Len(Front(w.frames)) = last - 1
      /\ \A i \in 1..(last - 1) : Front(w.frames)[i] = w.frames[i]
  BY <1>1, <1>2 DEF Front
<1>5. Len(KidsOf(tree, f.n)) \in Nat /\ Len(PairsOf(tree, f.n)) \in Nat
  BY <1>1, TreeData
<1> HIDE DEF f, v
<1>6. v = [frames |-> Front(w.frames), entries |-> w.entries, visited |-> w.visited,
           problems |-> w.problems, incomplete |-> w.incomplete]
  BY <1>2, <1>3 DEF WalkShape
<1>7. /\ v.frames = Front(w.frames) /\ v.visited = w.visited /\ v.entries = w.entries
      /\ v.problems = w.problems /\ v.incomplete = w.incomplete
  BY <1>6
<1>8. WalkShape(tree, v)
  BY <1>2, <1>4, <1>6, <1>7 DEF WalkShape
<1>9. StoredBelow(tree, v) /\ ExtendsWalk(w, v)
  BY <1>7 DEF NumInv, StoredBelow, ExtendsWalk
<1>10. ASSUME NEW i \in 1..Len(v.frames) PROVE FrameOK(tree, v, i)
  <2>1. i \in 1..last /\ v.frames[i] = w.frames[i]
    BY <1>1, <1>4, <1>7
  <2>2. FrameOK(tree, w, i)
    BY <2>1 DEF NumInv
  <2> QED
    BY <2>1, <2>2, <1>7 DEF FrameOK
<1>11. ASSUME ~v.incomplete PROVE \E S \in SUBSET DOMAIN tree.nodes : CoveredBy(tree, v, S, {})
  <2>1. PICK S \in SUBSET DOMAIN tree.nodes : CoveredBy(tree, w, S, {})
    BY <1>7, <1>11 DEF NumInv
  <2>2. f.pair > 0 /\ ~(f.pair <= Len(PairsOf(tree, f.n)))
    BY <1>7, <1>11 DEF AtPair, PairsOf, f
  <2>3. f.kid - 1 = Len(KidsOf(tree, f.n)) /\ f.pair - 1 = Len(PairsOf(tree, f.n))
    <3> DEFINE kids == Len(KidsOf(tree, f.n))
               pairs == Len(PairsOf(tree, f.n))
    <3>1. f.pair <= pairs + 1 /\ f.kid = kids + 1
      BY <1>1, <2>2 DEF FrameOK
    <3>2. kids \in Nat /\ pairs \in Nat /\ f.pair \in Nat /\ ~(f.pair <= pairs)
      BY <1>1, <1>5, <2>2
    <3> HIDE DEF kids, pairs
    <3>3. f.kid - 1 = kids /\ f.pair - 1 = pairs
      BY <3>1, <3>2
    <3> QED
      BY <3>3 DEF kids, pairs
  <2>4. /\ KidsIn(tree, f.n, Len(KidsOf(tree, f.n)), S)
        /\ PairsIn(tree, w, f.n, Len(PairsOf(tree, f.n)))
    BY <1>1, <2>1, <2>3 DEF CoveredBy
  <2>5. ASSUME NEW m \in S PROVE Met(tree, v, S, m)
    <3>1. Met(tree, w, S, m)
      BY <2>1 DEF CoveredBy
    <3>2. CASE m = f.n
      BY <3>2, <2>4, <1>9, PairsStay DEF Met
    <3>3. CASE m # f.n
      <4>1. Framed(w, m) => Framed(v, m)
        <5>1. ASSUME NEW i \in 1..last, w.frames[i].n = m PROVE i \in 1..(last - 1)
          BY <1>1, <3>3, <5>1
        <5> QED
          BY <5>1, <1>4, <1>7 DEF Framed
      <4> QED
        BY <3>1, <4>1, <1>9, PairsStay DEF Met
    <3> QED
      BY <3>2, <3>3
  <2>6. ASSUME NEW i \in 1..Len(v.frames)
        PROVE  /\ v.frames[i].n \in S
               /\ KidsIn(tree, v.frames[i].n, v.frames[i].kid - 1, S)
               /\ PairsIn(tree, v, v.frames[i].n, v.frames[i].pair - 1)
    <3>1. i \in 1..last /\ v.frames[i] = w.frames[i]
      BY <1>1, <1>4, <1>7
    <3>2. PairsIn(tree, w, w.frames[i].n, w.frames[i].pair - 1)
      BY <2>1, <3>1 DEF CoveredBy
    <3>3. PairsIn(tree, v, w.frames[i].n, w.frames[i].pair - 1)
      BY <3>2, <1>9, PairsStay
    <3> QED
      BY <2>1, <3>1, <3>3 DEF CoveredBy
  <2>7. CoveredBy(tree, v, S, {})
    BY <2>1, <2>5, <2>6, <1>7 DEF CoveredBy
  <2> QED
    BY <2>7
<1> QED
  BY <1>8, <1>9, <1>10, <1>11 DEF NumInv, v

(* A walk begins with nothing met and the root pending. *)
LEMMA EmptyWalkKeeps ==
  ASSUME NEW tree \in NumberTrees
  PROVE  NumInv(tree, EmptyWalk, {tree.root.n} \ EmptyWalk.visited)
<1>1. /\ EmptyWalk.frames = <<>> /\ EmptyWalk.visited = {} /\ EmptyWalk.problems = {}
      /\ EmptyWalk.incomplete = FALSE /\ DOMAIN EmptyWalk.entries = {}
  BY DEF EmptyWalk
<1>2. WalkShape(tree, EmptyWalk)
  BY EmptySeq DEF WalkShape, EmptyWalk
<1>3. CoveredBy(tree, EmptyWalk, {tree.root.n}, {tree.root.n})
  BY <1>1, TreeData, EmptySeq DEF CoveredBy
<1>4. {tree.root.n} \ EmptyWalk.visited = {tree.root.n} /\ {tree.root.n} \in SUBSET DOMAIN tree.nodes
  BY <1>1, TreeData
<1>5. Len(EmptyWalk.frames) = 0
  BY <1>1
<1> QED
  BY <1>1, <1>2, <1>3, <1>4, <1>5 DEF NumInv, StoredBelow

(* Every round of the walk, and its start, keeps what it accounts for. *)
THEOREM NumberWalkInductive == NumSpec => []WalkInv
<1>1. NumInit => WalkInv
  <2> SUFFICES ASSUME NumInit PROVE WalkInv
    OBVIOUS
  <2>1. numTree \in NumberTrees /\ numWalk = visit(numTree.nodes, EmptyWalk, numTree.root)
    BY DEF NumInit, startWalk
  <2>2. numTree.root.n \in Below(numTree.nodes, numTree.root.n)
    BY <2>1, BelowFacts
  <2> QED
    BY <2>1, <2>2, EmptyWalkKeeps, VisitKeeps DEF WalkInv
<1>2. WalkInv /\ [NumNext]_numVars => WalkInv'
  <2> SUFFICES ASSUME WalkInv, [NumNext]_numVars PROVE WalkInv'
    OBVIOUS
  <2>1. CASE UNCHANGED numVars
    BY <2>1 DEF numVars, WalkInv
  <2>2. CASE NumNext
    <3>1. numTree' = numTree /\ numTree \in NumberTrees /\ NumInv(numTree, numWalk, {})
      BY <2>2 DEF NumNext, WalkInv
    <3> SUFFICES NumInv(numTree, numWalk', {})
      BY <3>1 DEF WalkInv
    <3>2. CASE VisitsKid
      BY <3>1, <3>2, VisitKidKeeps DEF VisitsKid, Running
    <3>3. CASE StartsNums
      BY <3>1, <3>3, StartNumsKeeps DEF StartsNums, Running
    <3>4. CASE ReadsPair
      BY <3>1, <3>4, ReadPairKeeps DEF ReadsPair, Running
    <3>5. CASE ReadReturns
      BY <3>1, <3>5, ReturnedKeeps DEF ReadReturns, Running
    <3>6. CASE ReadPanics
      <4> DEFINE v == lost(numWalk, "unreadable")
      <4>1. NumInv(numTree, v, {}) /\ v.frames = numWalk.frames /\ v.incomplete
        BY <3>1, LostKeeps
      <4>2. v.frames # <<>> /\ numWalk' = returned(v)
        BY <3>6, <4>1 DEF ReadPanics, Running
      <4> HIDE DEF v
      <4> QED
        BY <3>1, <4>1, <4>2, ReturnedKeeps
    <3> QED
      BY <2>2, <3>2, <3>3, <3>4, <3>5, <3>6 DEF NumNext
  <2> QED
    BY <2>1, <2>2
<1> QED
  BY <1>1, <1>2, PTL DEF NumSpec

(* walkNumberTree loses no key silently: on any number tree, whatever is     *)
(* shared, direct, malformed or panics, an entry is a pair stored below the  *)
(* root, a walk that lost nothing has every key, and one without a problem   *)
(* found every pair once, in order and inside the limits.                    *)
THEOREM NumberTreesAreRight == NumSpec => []NumberTreeIsRight
<1>1. ASSUME WalkInv PROVE NumberTreeIsRight
  <2>0. numTree \in NumberTrees /\ NumInv(numTree, numWalk, {})
    BY <1>1 DEF WalkInv
  <2>1. EntriesAreStored
    BY <2>0 DEF NumInv, StoredBelow, EntriesAreStored, NumPairs, PairsOf
  <2>2. ASSUME ~Running, ~numWalk.incomplete,
               NEW n \in Below(numTree.nodes, numTree.root.n), NEW j \in DOMAIN NumPairs(n)
        PROVE  /\ NumPairs(n)[j][1] \in DOMAIN numWalk.entries
               /\ numWalk.problems = {} => PairIsClean(numTree, numWalk, n, j)
    <3>1. PICK S \in SUBSET DOMAIN numTree.nodes : CoveredBy(numTree, numWalk, S, {})
      BY <2>0, <2>2 DEF NumInv
    <3>2. \A m \in S : ~Framed(numWalk, m)
      BY <2>2 DEF Running, Framed
    <3>3. ASSUME NEW m \in S
          PROVE  /\ KidsIn(numTree, m, Len(KidsOf(numTree, m)), S)
                 /\ PairsIn(numTree, numWalk, m, Len(PairsOf(numTree, m)))
      BY <3>1, <3>2 DEF CoveredBy, Met
    <3>4. n \in S /\ n \in DOMAIN numTree.nodes
      BY <2>0, <3>1, <3>3, BelowIsLeast, BelowFacts DEF CoveredBy
    <3>5. PairsOf(numTree, n) \in Seq((Nat \cup {NoKey}) \X Nat)
      BY <2>0, <3>4, TreeData
    <3>6. j \in 1..Len(PairsOf(numTree, n))
      BY <2>2, <3>5 DEF NumPairs, PairsOf
    <3> QED
      BY <3>3, <3>4, <3>6 DEF PairsIn, NumPairs, PairsOf
  <2>3. NothingIsMissing
    BY <2>2 DEF NothingIsMissing
  <2>4. NoProblemIsClean
    <3>1. numWalk.problems = {} => ~numWalk.incomplete
      BY <2>0 DEF NumInv, WalkShape
    <3> QED
      BY <2>2, <3>1 DEF NoProblemIsClean
  <2> QED
    BY <2>1, <2>3, <2>4 DEF NumberTreeIsRight
<1> QED
  BY <1>1, NumberWalkInductive, PTL
=============================================================================
