----------------------------- MODULE NumberTree -----------------------------
(***************************************************************************)
(* The walk of a number tree in src/internal/pdfcore/numbertree.go, which  *)
(* reads the /ParentTree of a tagged document.                             *)
(*                                                                         *)
(* A tree is [nodes, root].  nodes maps an object number to a node         *)
(*   [kind, limits, kidsAre, kids, numsAre, nums, odd]                     *)
(* where kind is "dict", "null" (dangling), "other" (not a dictionary) or  *)
(* "panic" (pdfcpu fails on it), limits is <<lo, hi>>, or another sequence *)
(* when it is absent or unusable, kidsAre and numsAre are "array",         *)
(* "absent" or "other", and nums is a sequence of <<key, value>> with      *)
(* NoKey for a key that is no integer.  root and every kid name a node by  *)
(* [n, ref]: a direct node is not a reference, and is not looked up in     *)
(* visited.                                                                *)
(*                                                                         *)
(* The walk is a depth-first recursion; its calls of read under way are    *)
(* the frames [n, kid, pair, prev], the root's first.                      *)
(***************************************************************************)
EXTENDS Integers, Sequences, FiniteSets, SequencesExt

CONSTANTS
  maxNumberTreeDepth,  \* 64 in the code
  NumberTrees          \* the trees a behaviour may walk

VARIABLES
  numTree,  \* the tree
  numWalk   \* the numberTreeWalker and its frames

numVars == <<numTree, numWalk>>

NoKey == -1

NumberNodes(ids) ==
  [kind : {"dict", "null", "other", "panic"}, limits : Seq(Int),
   kidsAre : {"array", "absent", "other"}, kids : Seq([n : ids, ref : BOOLEAN]),
   numsAre : {"array", "absent", "other"}, nums : Seq((Nat \cup {NoKey}) \X Nat), odd : BOOLEAN]

ASSUME NumberTreeAssumption ==
  /\ maxNumberTreeDepth \in Nat \ {0}
  /\ \A tree \in NumberTrees :
       /\ tree.root \in [n : DOMAIN tree.nodes, ref : BOOLEAN]
       /\ \A n \in DOMAIN tree.nodes : tree.nodes[n] \in NumberNodes(DOMAIN tree.nodes)

EmptyWalk == [frames |-> <<>>, entries |-> [x \in {} |-> x], visited |-> {}, problems |-> {},
              incomplete |-> FALSE]

----------------------------------------------------------------------------
(* What the walker reads and records.                                      *)

problem(w, what) == [w EXCEPT !.problems = @ \cup {what}]
lost(w, what) == [problem(w, what) EXCEPT !.incomplete = TRUE]

\* What the loops of read go through.
KidsRead(node) == IF node.kind = "dict" /\ node.kidsAre = "array" THEN node.kids ELSE <<>>
NumsRead(node) == IF node.kind = "dict" /\ node.numsAre = "array" THEN node.nums ELSE <<>>

LimitsUsable(node) == Len(node.limits) = 2 /\ node.limits[1] <= node.limits[2]

\* The usable limits of a node, <<>> when it has none; the root's are ignored.
limits(node, isRoot) == IF ~isRoot /\ LimitsUsable(node) THEN node.limits ELSE <<>>

NoteLimits(w, node, isRoot) ==
  IF isRoot \/ limits(node, isRoot) # <<>> THEN w ELSE problem(w, "limits")

called(w, n) ==
  [w EXCEPT !.frames = Append(@, [n |-> n, kid |-> 1, pair |-> 0, prev |-> <<>>])]

returned(w) == [w EXCEPT !.frames = Front(@)]

\* The innermost call, and the walk with it moved on.
Inner(w) == w.frames[Len(w.frames)]
moved(w, f) == [w EXCEPT !.frames[Len(w.frames)] = f]

\* read, up to its loops.
read(nodes, w, item) ==
  LET node   == nodes[item.n]
      noted  == NoteLimits(w, node, w.frames = <<>>)
  IN  IF node.kind = "null" THEN (IF item.ref THEN lost(w, "dangling") ELSE problem(w, "null"))
      ELSE IF node.kind = "other" THEN lost(w, "not a dictionary")
      ELSE IF node.kind = "panic" THEN lost(w, "unreadable")
      ELSE IF node.kidsAre = "absent" /\ node.numsAre = "absent" THEN lost(noted, "empty")
      ELSE called(IF node.kidsAre = "other" THEN lost(noted, "kids") ELSE noted, item.n)

\* Fault: a node too deep is reported, but not as a loss.
NodeTooDeepQuietly(w) == problem(w, "deep")

NodeTooDeep(w) == lost(w, "deep")

visit(nodes, w, item) ==
  IF Len(w.frames) + 1 > maxNumberTreeDepth THEN NodeTooDeep(w)
  ELSE IF item.ref /\ item.n \in w.visited THEN problem(w, "twice")
  ELSE read(nodes, IF item.ref THEN [w EXCEPT !.visited = @ \cup {item.n}] ELSE w, item)

visitKid(nodes, w) ==
  LET f == Inner(w)
  IN  visit(nodes, moved(w, [f EXCEPT !.kid = @ + 1]), KidsRead(nodes[f.n])[f.kid])

\* readNums, up to its loop.
startNums(nodes, w) ==
  LET f    == Inner(w)
      node == nodes[f.n]
      w1   == moved(w, [f EXCEPT !.pair = 1])
  IN  IF node.numsAre = "other" THEN lost(w1, "nums")
      ELSE IF node.numsAre = "array" /\ node.odd THEN lost(w1, "odd")
      ELSE w1

Recorded(w, key, value) ==
  IF key \in DOMAIN w.entries THEN problem(w, "duplicate")
  ELSE [w EXCEPT !.entries = [x \in DOMAIN @ \cup {key} |-> IF x = key THEN value ELSE @[x]]]

\* One round of readNums, which may read a key.
pairDone(f) == [f EXCEPT !.pair = @ + 1]
keyDone(f, key) == [f EXCEPT !.pair = @ + 1, !.prev = <<key>>]

readPair(nodes, w) ==
  LET f    == Inner(w)
      pair == NumsRead(nodes[f.n])[f.pair]
      key  == pair[1]
      lim  == limits(nodes[f.n], Len(w.frames) = 1)
      w1   == IF lim # <<>> /\ (key < lim[1] \/ key > lim[2]) THEN problem(w, "outside") ELSE w
      w2   == IF f.prev # <<>> /\ key < f.prev[1] THEN problem(w1, "order") ELSE w1
  IN  IF key = NoKey THEN moved(lost(w, "key"), pairDone(f))
      ELSE moved(Recorded(w2, key, pair[2]), keyDone(f, key))

----------------------------------------------------------------------------
(* The walk.                                                               *)

AtNumKid(nodes, w) == Inner(w).kid <= Len(KidsRead(nodes[Inner(w).n]))
AtPair(nodes, w) == Inner(w).pair <= Len(NumsRead(nodes[Inner(w).n]))

startWalk(tree) == visit(tree.nodes, EmptyWalk, tree.root)

Running == numWalk.frames # <<>>

NumInit == numTree \in NumberTrees /\ numWalk = startWalk(numTree)

VisitsKid ==
  /\ Running /\ AtNumKid(numTree.nodes, numWalk)
  /\ numWalk' = visitKid(numTree.nodes, numWalk)

StartsNums ==
  /\ Running /\ ~AtNumKid(numTree.nodes, numWalk) /\ Inner(numWalk).pair = 0
  /\ numWalk' = startNums(numTree.nodes, numWalk)

ReadsPair ==
  /\ Running /\ Inner(numWalk).pair > 0 /\ AtPair(numTree.nodes, numWalk)
  /\ numWalk' = readPair(numTree.nodes, numWalk)

ReadReturns ==
  /\ Running /\ Inner(numWalk).pair > 0 /\ ~AtPair(numTree.nodes, numWalk)
  /\ numWalk' = returned(numWalk)

\* pdfcpu panics on what a node's loops dereference: guard gives up the node.
ReadPanics ==
  /\ Running
  /\ numWalk' = returned(lost(numWalk, "unreadable"))

NumNext ==
  /\ VisitsKid \/ StartsNums \/ ReadsPair \/ ReadReturns \/ ReadPanics
  /\ UNCHANGED numTree

NumSpec == NumInit /\ [][NumNext]_numVars

----------------------------------------------------------------------------
(* What the walk promises, against the pairs of every node below the root. *)

\* The nodes below n, itself included: the smallest set that holds n and,
\* with a node, its kids.
Below(nodes, n) ==
  {m \in DOMAIN nodes :
     \A S \in SUBSET DOMAIN nodes :
       n \in S /\ (\A x \in S : \A j \in DOMAIN KidsRead(nodes[x]) : KidsRead(nodes[x])[j].n \in S)
         => m \in S}

\* What pair j of node n is to a walk without a problem: larger than the keys
\* before it, inside the node's limits, and stored.
PairIsClean(tree, w, n, j) ==
  LET s == NumsRead(tree.nodes[n])
  IN  /\ s[j][1] # NoKey
      /\ \A i \in 1..(j - 1) : s[i][1] < s[j][1]
      /\ n # tree.root.n => /\ LimitsUsable(tree.nodes[n])
                            /\ tree.nodes[n].limits[1] <= s[j][1]
                            /\ s[j][1] <= tree.nodes[n].limits[2]
      /\ s[j][1] \in DOMAIN w.entries /\ w.entries[s[j][1]] = s[j][2]

NumPairs(n) == NumsRead(numTree.nodes[n])

\* An entry is always a pair stored below the root.
EntriesAreStored ==
  \A k \in DOMAIN numWalk.entries :
    \E n \in Below(numTree.nodes, numTree.root.n) : \E j \in DOMAIN NumPairs(n) :
      NumPairs(n)[j] = <<k, numWalk.entries[k]>> /\ k # NoKey

\* A walk that lost nothing has every key stored there.
NothingIsMissing ==
  ~Running /\ ~numWalk.incomplete =>
    \A n \in Below(numTree.nodes, numTree.root.n) : \A j \in DOMAIN NumPairs(n) :
      NumPairs(n)[j][1] \in DOMAIN numWalk.entries

\* One without a problem found keys ascending in every leaf, inside its
\* limits, and each of them once.
NoProblemIsClean ==
  ~Running /\ numWalk.problems = {} =>
    \A n \in Below(numTree.nodes, numTree.root.n) : \A j \in DOMAIN NumPairs(n) :
      PairIsClean(numTree, numWalk, n, j)

\* walkNumberTree ("incomplete: the first problem that left entries unread, or
\* "" when every entry was read").
NumberTreeIsRight == EntriesAreStored /\ NothingIsMissing /\ NoProblemIsClean
=============================================================================
