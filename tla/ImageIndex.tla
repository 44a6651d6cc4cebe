----------------------------- MODULE ImageIndex -----------------------------
(***************************************************************************)
(* The image walk of src/internal/pdfcore/imageindex.go: it goes through   *)
(* the /XObject resources of every page, follows Form XObjects into their  *)
(* own resources, and lists the images each page reaches.  Finished walks  *)
(* of shared resources and of forms are memoised, forms nest at most       *)
(* maxFormWalkDepth deep, and two budgets bound the whole walk.            *)
(*                                                                         *)
(* A document is [objs, pages].  A resources dictionary is [state, names]: *)
(* whether it resolves ("ok", "bad", or "none" for a missing one) and the  *)
(* object numbers of its /XObject entries in key order, 0 for a direct     *)
(* value.  An object is [kind, res]; "bad" fails to resolve, "other" is    *)
(* neither an image nor a form.  A page is [res, key, err, entryBad]: its  *)
(* resources, the key of its /XObject dictionary (0 when it has none to    *)
(* share), whether pdfcpu failed on it, and the node whose /Resources did  *)
(* not resolve (0 for none).  What an image's row says about its pixels is *)
(* left out, and so is the wording of the error rows.                      *)
(***************************************************************************)
EXTENDS Integers, Sequences, FiniteSets, SequencesExt

CONSTANTS maxFormWalkDepth,     \* nesting cap; 32 in the code
          maxImageWalkEntries,  \* entries examined; 1,000,000 in the code
          maxImageWalkUses      \* uses retained; 4,000,000 in the code

ASSUME WalkBoundsAssumption ==
  /\ maxFormWalkDepth \in Nat \ {0}
  /\ maxImageWalkEntries \in Nat /\ maxImageWalkUses \in Nat

MaxInt == 1000        \* above every position of a stack

(***************************************************************************)
(* imageWalker.  A memo is a partial function; the budgets are fields so   *)
(* that the reference below can walk without them.                         *)
(***************************************************************************)
Nothing == [x \in {} |-> x]

newImageWalker(budget, useLimit) ==
  [budget |-> budget, useLimit |-> useLimit, examined |-> 0, uses |-> 0,
   stopped |-> FALSE, stopPage |-> 0, rows |-> <<>>, issues |-> <<>>,
   records |-> Nothing, pageMemo |-> Nothing, formMemo |-> Nothing]

NewWalk == [images |-> <<>>, incomplete |-> FALSE, issues |-> <<>>,
            height |-> 0, capped |-> FALSE, guard |-> <<>>]

With(f, x, y) == [z \in DOMAIN f \cup {x} |-> IF z = x THEN y ELSE f[z]]

addErrorRow(w, row) == [w EXCEPT !.rows = Append(@, row)]

stop(w, page) ==
  addErrorRow([w EXCEPT !.stopped = TRUE, !.stopPage = page], <<"stop", page>>)

chargeUses(w, n, page) ==
  IF w.uses + n > w.useLimit
  THEN [ok |-> FALSE, w |-> IF w.stopped THEN w ELSE stop(w, page)]
  ELSE [ok |-> TRUE, w |-> [w EXCEPT !.uses = @ + n]]

\* The position of the issue for key, added with its error row when new.
issue(w, key, page) ==
  LET at == {i \in DOMAIN w.issues : w.issues[i].key = key}
  IN  IF at # {} THEN [id |-> CHOOSE i \in at : TRUE, w |-> w]
      ELSE [id |-> Len(w.issues) + 1,
            w  |-> addErrorRow([w EXCEPT !.issues =
                     Append(@, [key |-> key, first |-> page, ranges |-> <<>>])], key)]

noteIssuePage(w, id, page) ==
  LET ranges == w.issues[id].ranges
      last   == Len(ranges)
      Opened(paid) ==
        IF paid.ok THEN [paid.w EXCEPT !.issues[id].ranges = Append(@, <<page, page>>)]
        ELSE paid.w
  IN  IF last > 0 /\ ranges[last][2] >= page - 1
      THEN [w EXCEPT !.issues[id].ranges[last][2] = IF @ > page THEN @ ELSE page]
      ELSE Opened(chargeUses(w, 1, page))

recordImage(w, num) ==
  IF num \in DOMAIN w.records THEN w
  ELSE [w EXCEPT !.records = With(@, num, <<>>)]

(***************************************************************************)
(* The walk of one resources dictionary.  stack is the sequence of forms   *)
(* being walked above it; c is its progress [w, rw, seen, low].            *)
(***************************************************************************)
RECURSIVE walkEntries(_, _, _, _, _, _)

walkResources(doc, w, res, page, stack) ==
  LET c == [w |-> w, rw |-> NewWalk, seen |-> {}, low |-> MaxInt]
  IN  IF res.state = "ok" THEN walkEntries(doc, c, res.names, 1, page, stack) ELSE c

Failed(w, key, page) ==
  LET By(at) == [w |-> at.w, rw |-> [NewWalk EXCEPT !.incomplete = TRUE, !.issues = <<at.id>>]]
  IN  By(issue(w, key, page))

OnStack(stack, num) == \E i \in DOMAIN stack : stack[i] = num

\* When a memoised walk of a form may stand for a fresh one at this place.
\* Fault: a form being walked above is not looked for in the guard.
MemoFitsUnguarded(memo, stack) ==
  LET depth == Len(stack)
  IN  IF memo.rw.capped THEN memo.depth = depth
      ELSE depth + memo.rw.height < maxFormWalkDepth

MemoFits(memo, stack) ==
  LET depth == Len(stack)
  IN  /\ \A f \in Range(memo.rw.guard) : ~OnStack(stack, f)
      /\ IF memo.rw.capped THEN memo.depth = depth
         ELSE depth + memo.rw.height < maxFormWalkDepth

\* The result of a form's walk, [w, rw, low, up], memoised when nothing above
\* cut it and the memo found before it, if any, was not made nearer the page.
FormWalked(done, low, num, depth, memo) ==
  LET above == low < depth + 1
      keep  == /\ ~above /\ ~done.w.stopped
               /\ num \notin DOMAIN memo \/ depth <= memo[num].depth
  IN  [w   |-> IF keep
               THEN [done.w EXCEPT !.formMemo =
                       With(@, num, [rw |-> done.rw, depth |-> depth])]
               ELSE done.w,
       rw  |-> done.rw,
       low |-> IF above THEN low ELSE MaxInt,
       up  |-> IF above \/ done.rw.capped THEN Append(done.rw.guard, num) ELSE <<>>]

walkForm(doc, w, num, page, stack) ==
  LET Known(rw) == [w |-> w, rw |-> rw, low |-> MaxInt,
                    up |-> IF rw.capped THEN <<num>> \o rw.guard ELSE <<>>]
      Inside(inner) ==
        FormWalked(IF doc.objs[num].res.state = "bad"
                   THEN Failed(inner.w, <<"xobject", num>>, page)
                   ELSE [w |-> inner.w, rw |-> inner.rw],
                   inner.low, num, Len(stack), w.formMemo)
  IN  IF num \in DOMAIN w.formMemo /\ MemoFits(w.formMemo[num], stack)
      THEN Known(w.formMemo[num].rw)
      ELSE Inside(walkResources(doc, w, doc.objs[num].res, page, Append(stack, num)))

\* Images of a child walk merged into c one by one, each charged as one use
\* and skipped when c has it; the merge ends at the first that does not fit.
RECURSIVE MergeImages(_, _, _, _)
MergeImages(c, images, pos, page) ==
  LET u == Head(images)
      Paid(paid) ==
        IF ~paid.ok THEN [c EXCEPT !.w = paid.w, !.rw.incomplete = TRUE]
        ELSE MergeImages(
               [c EXCEPT !.w = paid.w, !.seen = @ \cup {u.num},
                         !.rw.images = Append(@, [num |-> u.num, path |-> <<pos>> \o u.path])],
               Tail(images), pos, page)
  IN  CASE images = <<>> -> c
        [] images # <<>> /\ u.num \in c.seen -> MergeImages(c, Tail(images), pos, page)
        [] OTHER -> Paid(chargeUses(c.w, 1, page))

RECURSIVE MergeIssues(_, _, _, _, _)
MergeIssues(c, ids, images, pos, page) ==
  LET Paid(paid) ==
        IF ~paid.ok THEN [c EXCEPT !.w = paid.w, !.rw.incomplete = TRUE]
        ELSE MergeIssues([c EXCEPT !.w = paid.w, !.rw.issues = Append(@, Head(ids))],
                         Tail(ids), images, pos, page)
  IN  IF ids = <<>> THEN MergeImages(c, images, pos, page)
      ELSE Paid(chargeUses(c.w, 1, page))

Noted(c, key, page) ==
  LET By(at) == [c EXCEPT !.w = at.w, !.rw.incomplete = TRUE, !.rw.issues = Append(@, at.id)]
  IN  By(issue(c.w, key, page))

\* The walk of the form num joined to c, its guard charged first.
JoinForm(c, child, num, pos, page) ==
  LET Joined(paid) ==
        [c EXCEPT !.w = paid.w, !.seen = @ \cup {num},
          !.low = IF child.low < @ THEN child.low ELSE @,
          !.rw.incomplete = @ \/ child.rw.incomplete \/ ~paid.ok,
          !.rw.capped = @ \/ child.rw.capped,
          !.rw.height = IF child.rw.height + 1 > @ THEN child.rw.height + 1 ELSE @,
          !.rw.guard = IF paid.ok THEN @ \o child.up ELSE @]
      Merged(paid) ==
        IF paid.ok
        THEN MergeIssues(Joined(paid), child.rw.issues, child.rw.images, pos, page)
        ELSE Joined(paid)
  IN  Merged(chargeUses(child.w, Len(child.up), page))

\* One entry, at position pos of the sorted keys, naming object num.
visitXObject(doc, c, num, pos, page, stack) ==
  CASE doc.objs[num].kind = "bad" -> Noted(c, <<"xobject", num>>, page)
    [] doc.objs[num].kind = "other" -> c
    [] doc.objs[num].kind = "image" ->
         [c EXCEPT !.w = recordImage(@, num), !.seen = @ \cup {num},
                   !.rw.images = Append(@, [num |-> num, path |-> <<pos>>])]
    [] doc.objs[num].kind = "form" /\ Len(stack) >= maxFormWalkDepth ->
         [Noted(c, <<"depth", num>>, page) EXCEPT !.rw.capped = TRUE]
    [] OTHER -> JoinForm(c, walkForm(doc, c.w, num, page, stack), num, pos, page)

walkEntries(doc, c, names, pos, page, stack) ==
  CASE pos > Len(names) \/ c.w.stopped -> c
    [] c.w.examined >= c.w.budget ->
         [c EXCEPT !.w = stop(@, page), !.rw.incomplete = TRUE]
    [] OTHER ->
         LET num  == names[pos]
             read == [c EXCEPT !.w.examined = @ + 1]
             on   == {i \in DOMAIN stack : stack[i] = num}
         IN  walkEntries(doc,
               CASE num = 0 \/ num \in c.seen -> read
                 [] on # {} -> [read EXCEPT !.low = LET p == CHOOSE i \in on : TRUE
                                                    IN  IF p < @ THEN p ELSE @]
                 [] OTHER -> visitXObject(doc, read, num, pos, page, stack),
               names, pos + 1, page, stack)

(***************************************************************************)
(* The pages, in order.                                                    *)
(***************************************************************************)
walkPage(doc, w, page) ==
  LET p == doc.pages[page]
      Kept(done) == IF p.key # 0 /\ ~done.w.stopped
                    THEN [done EXCEPT !.w.pageMemo = With(@, p.key, done.rw)] ELSE done
      Walked(inner) == [w |-> inner.w, rw |-> inner.rw]
  IN  IF p.key # 0 /\ p.key \in DOMAIN w.pageMemo
      THEN [w |-> w, rw |-> w.pageMemo[p.key]]
      ELSE Kept(IF p.res.state = "bad"
                THEN Failed(w, IF p.key # 0 THEN <<"shared", p.key>> ELSE <<"page", page>>,
                            page)
                ELSE Walked(walkResources(doc, w, p.res, page, <<>>)))

AddPage(w, images, page) ==
  [w EXCEPT !.records = [n \in DOMAIN @ |->
     IF \E i \in DOMAIN images : images[i].num = n THEN Append(@[n], page) ELSE @[n]]]

NoteIssues(w, rw, page) ==
  FoldLeft(LAMBDA x, id : noteIssuePage(x, id, page), w, rw.issues)

\* One page: its group [page, images, incomplete] and the walker after it.
walkLeaf(doc, w, page) ==
  LET p == doc.pages[page]
      Group(images, incomplete) == [page |-> page, images |-> images, incomplete |-> incomplete]
      Counted(paid, rw) ==
        IF ~paid.ok THEN [w |-> paid.w, group |-> Group(<<>>, TRUE)]
        ELSE [w |-> NoteIssues(AddPage(paid.w, rw.images, page), rw, page),
              group |-> Group(rw.images, p.err \/ p.entryBad # 0 \/ rw.incomplete)]
      Walked(walk) == Counted(chargeUses(walk.w, Len(walk.rw.images), page), walk.rw)
      Entered(w2) == IF w2.stopped THEN [w |-> w2, group |-> Group(<<>>, TRUE)]
                     ELSE Walked(walkPage(doc, w2, page))
      Note(at) == noteIssuePage(at.w, at.id, page)
      Found(w1) == CASE w1.stopped -> [w |-> w1, group |-> Group(<<>>, p.err)]
                     [] OTHER -> Entered(IF p.entryBad = 0 THEN w1
                                         ELSE Note(issue(w1, <<"entry", p.entryBad>>, page)))
  IN  Found(IF p.err THEN addErrorRow(w, <<"leaf", page>>) ELSE w)

RECURSIVE walkLeaves(_, _, _, _)
walkLeaves(doc, w, groups, page) ==
  LET Kept(x, g) == /\ ~(x.stopped /\ page > x.stopPage)
                    /\ g.images # <<>> \/ g.incomplete
      After(leaf) == walkLeaves(doc, leaf.w,
                       IF Kept(leaf.w, leaf.group) THEN Append(groups, leaf.group) ELSE groups,
                       page + 1)
  IN  IF page > Len(doc.pages) THEN [w |-> w, groups |-> groups]
      ELSE After(walkLeaf(doc, w, page))

\* The index, rows ordered by first page then number; the pages an issue
\* names; and the pages the row of a stop says were not walked.
build(doc, w) ==
  LET Named(is) == IF is.ranges = <<>> THEN {is.first}
                   ELSE UNION {r[1]..r[2] : r \in Range(is.ranges)}
      Sorted(records, used) ==
        SetToSortSeq(used, LAMBDA a, b :
          \/ Head(records[a]) < Head(records[b])
          \/ Head(records[a]) = Head(records[b]) /\ a < b)
      Index(x, groups, used) ==
        [entries |-> Sorted(x.records, used),
         pages   |-> [n \in used |-> x.records[n]],
         groups  |-> groups,
         issues  |-> [i \in DOMAIN x.issues |->
                        [key |-> x.issues[i].key, pages |-> Named(x.issues[i])]],
         rows    |-> x.rows,
         stopPage |-> IF x.stopped THEN x.stopPage ELSE Len(doc.pages) + 1,
         uses    |-> x.uses, examined |-> x.examined]
      Done(done) == Index(done.w, done.groups,
                          {n \in DOMAIN done.w.records : done.w.records[n] # <<>>})
  IN  Done(walkLeaves(doc, w, <<>>, 1))

ImageTree(doc) == build(doc, newImageWalker(maxImageWalkEntries, maxImageWalkUses))

(***************************************************************************)
(* References: the images reachable from names, and the walk of one page   *)
(* by a walker that has seen nothing and has no budget.                    *)
(***************************************************************************)
RECURSIVE Reach(_, _, _)
Reach(doc, found, names) ==
  LET new == Range(names) \ (found \cup {0})
      sub == UNION {IF doc.objs[n].kind = "form" /\ doc.objs[n].res.state = "ok"
                    THEN Range(doc.objs[n].res.names) ELSE {} : n \in new}
  IN  IF new = {} THEN {n \in found : doc.objs[n].kind = "image"}
      ELSE Reach(doc, found \cup new, SetToSeq(sub))

FreshPage(doc, page) ==
  walkLeaf(doc, newImageWalker(MaxInt, MaxInt), page)

GroupOf(t, page) ==
  LET at == {i \in DOMAIN t.groups : t.groups[i].page = page}
  IN  IF at = {} THEN [page |-> page, images |-> <<>>, incomplete |-> FALSE]
      ELSE t.groups[CHOOSE i \in at : TRUE]

\* A page before the stop gets the images, in the order and along the paths,
\* that a walk with nothing memoised gives it, and is never reported complete
\* where that walk is cut; where only the memoised walk is, the nesting cap is
\* what it names.
MemoIsExact(doc, t) ==
  LET Names(is, page) == page \in is.pages
      Agree(fresh, group, page) ==
        /\ group.images = fresh.group.images
        /\ fresh.group.incomplete => group.incomplete
        /\ group.incomplete => \/ fresh.group.incomplete
                               \/ \E is \in Range(t.issues) :
                                    is.key[1] = "depth" /\ Names(is, page)
        /\ \A i \in DOMAIN fresh.w.issues :
             \E is \in Range(t.issues) :
               is.key = fresh.w.issues[i].key /\ Names(is, page)
  IN  \A page \in 1..(t.stopPage - 1) :
        Agree(FreshPage(doc, page), GroupOf(t, page), page)

\* A page reported complete lists every image its resources reach, and the
\* page list of an image is the pages whose groups list it.
CompleteIsComplete(doc, t) ==
  /\ \A page \in 1..Len(doc.pages) : page <= t.stopPage =>
       LET g == GroupOf(t, page)
       IN  ~g.incomplete =>
             {u.num : u \in Range(g.images)} =
               IF doc.pages[page].res.state = "ok"
               THEN Reach(doc, {}, doc.pages[page].res.names) ELSE {}
  /\ \A n \in DOMAIN t.pages :
       Range(t.pages[n]) = {g.page : g \in {x \in Range(t.groups) :
                               \E u \in Range(x.images) : u.num = n}}

\* No failure is silent: an incomplete page is named by an error row or is the
\* page the walk stopped at, and a named page before the stop is incomplete.
FailuresAreNamed(doc, t) ==
  LET named == UNION {is.pages : is \in Range(t.issues)}
                 \cup {page \in 1..Len(doc.pages) : doc.pages[page].err}
  IN  \A page \in 1..Len(doc.pages) :
        /\ page <= t.stopPage /\ GroupOf(t, page).incomplete
             => page \in named \cup {t.stopPage}
        /\ page < t.stopPage /\ page \in named => GroupOf(t, page).incomplete

\* The budgets hold, and a walk that stopped says so in exactly one row.
BudgetsHold(t, pages) ==
  /\ t.uses <= maxImageWalkUses /\ t.examined <= maxImageWalkEntries
  /\ Len(SelectSeq(t.rows, LAMBDA r : r[1] = "stop"))
       = IF t.stopPage > pages THEN 0 ELSE 1

ImageIndexIsRight(doc) ==
  LET Right(t) == /\ MemoIsExact(doc, t)
                  /\ CompleteIsComplete(doc, t)
                  /\ FailuresAreNamed(doc, t)
                  /\ BudgetsHold(t, Len(doc.pages))
  IN  Right(ImageTree(doc))
=============================================================================
