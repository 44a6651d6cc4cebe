------------------------------ MODULE Structure ------------------------------
(***************************************************************************)
(* The tagged-structure report of src/internal/pdfcore/structure.go and    *)
(* the rules of validate_structure.go that judge it: the structure tree    *)
(* below /StructTreeRoot, the ParentTree array of every page, the marked   *)
(* content of its streams, and the alignment of the three.                 *)
(*                                                                         *)
(* A document is                                                           *)
(*   [catalog, rootIs, kv, hasPT, ptRoot, nodes, objs, pages, streams,     *)
(*    pagesIncomplete]                                                     *)
(* rootIs being "dict", "absent", "other" or "panic".  A /K value is       *)
(* [form, n, items]: "none", "items" (direct), or "ref" to object n.  An   *)
(* item is [n, ref] as in NumberTree.  An object is                        *)
(*   [k, pg, kv, mcid, s, unread, slots]                                   *)
(* where k is "elem", "mcr" (with a /Stm when s is "stm"), "objr", "int",  *)
(* "array", "other" or "null", pg is the object of its /Pg (0 absent, -1   *)
(* not a page), s is whether an element's /S is usable ("ok" or "bad"),    *)
(* unread says where pdfcpu panics on the object: nowhere (""), where it   *)
(* is dereferenced ("ref"; a panic at the /Type of a kid is the same to    *)
(* who walks the kids), or, in an element, at its /S ("S") or at its /Pg   *)
(* ("after"; at /Alt and the like the element has its page by then, which  *)
(* no rule reads); and slots are the                                       *)
(* elements an array names as a ParentTree value (0 for null).  A page is  *)
(*   [obj, err, sp, contentsErr, contents, props]                          *)
(* with NoKey for a page without /StructParents; a stream is               *)
(* [tokens, err].                                                          *)
(***************************************************************************)
EXTENDS NumberTree, MarkedContent

CONSTANT maxStructTreeDepth    \* 256 in the code

ASSUME StructureAssumption == maxStructTreeDepth \in Nat \ {0}

RootOwner == 0       \* owner of the root's kids
DirectElement == -1  \* the id every direct element is shown under

StructWalk == [visited |-> {}, claims |-> <<>>]

\* The number of the first page that is object n, 0 when none is.
pageOf(doc, n) ==
  LET at == {i \in DOMAIN doc.pages : doc.pages[i].obj = n}
  IN  IF n <= 0 \/ at = {} THEN 0 ELSE CHOOSE i \in at : \A j \in at : i <= j

kidPage(doc, obj, page) == IF obj.pg = 0 THEN page ELSE pageOf(doc, obj.pg)

claim(w, owner, page, mcid) ==
  IF owner = RootOwner \/ page = 0 THEN w
  ELSE [w EXCEPT !.claims = Append(@, [owner |-> owner, page |-> page, mcid |-> mcid])]

Kid(kind, id, page, err) ==
  [kind |-> kind, id |-> id, page |-> page, err |-> err, s |-> "unset",
   readErr |-> FALSE, kids |-> <<>>]

errorKid(w, why) == [w |-> w, kid |-> Kid("error", 0, 0, why)]

RECURSIVE walkK(_, _, _, _, _, _)

mcidKid(w, owner, page, mcid) ==
  IF mcid < 0 THEN errorKid(w, "negative")
  ELSE [w |-> claim(w, owner, page, mcid),
        kid |-> Kid("mcid", mcid, page,
                    CASE owner = RootOwner -> "root mcid" [] page = 0 -> "no page"
                      [] OTHER -> "")]

mcrKid(doc, w, obj, owner, page) ==
  LET on == kidPage(doc, obj, page)
  IN  [w   |-> IF obj.mcid < 0 \/ obj.s = "stm" THEN w ELSE claim(w, owner, on, obj.mcid),
       kid |-> Kid("mcr", obj.mcid, on,
                   CASE obj.mcid < 0 -> "mcid"
                     [] obj.mcid >= 0 /\ obj.s # "stm" /\ owner = RootOwner -> "root mcid"
                     [] obj.mcid >= 0 /\ obj.s # "stm" /\ owner # RootOwner /\ on = 0 ->
                          "no page"
                     [] OTHER -> "")]

\* Fault: an element met again is walked again.
MetBeforeNever(w, item) == FALSE

MetBefore(w, item) == item.ref /\ item.n \in w.visited

\* The guard around an element's read: a panic past its /S, its own or that
\* of a kid's dereference, leaves it without kids; what was walked of them
\* stays visited and claimed.
elementKid(doc, w, item, parentPage, depth) ==
  LET obj  == doc.objs[item.n]
      page == IF obj.pg = 0 THEN parentPage ELSE pageOf(doc, obj.pg)
      id   == IF item.ref THEN item.n ELSE DirectElement
      here == IF item.ref THEN [w EXCEPT !.visited = @ \cup {item.n}] ELSE w
      sub  == walkK(doc, here, obj.kv, id, page, depth)
      elem == [Kid("element", item.n, page, "") EXCEPT !.s = obj.s]
  IN  CASE depth > maxStructTreeDepth -> errorKid(w, "deep")
        [] depth <= maxStructTreeDepth /\ MetBefore(w, item) -> errorKid(w, "twice")
        [] depth <= maxStructTreeDepth /\ ~MetBefore(w, item) /\ obj.unread = "S" ->
             [w |-> here, kid |-> [elem EXCEPT !.page = 0, !.s = "unset", !.readErr = TRUE]]
        [] depth <= maxStructTreeDepth /\ ~MetBefore(w, item) /\ obj.unread = "after" ->
             [w |-> here, kid |-> [elem EXCEPT !.page = 0, !.readErr = TRUE]]
        [] OTHER -> [w |-> sub.w, kid |-> [elem EXCEPT !.readErr = sub.panic,
                                             !.kids = IF sub.panic THEN <<>> ELSE sub.kids]]

\* derefIn has no guard of its own: the panic is for whoever walks the kids.
kid(doc, w, item, owner, page, depth) ==
  LET obj == doc.objs[item.n]
  IN  CASE obj.unread = "ref" -> [w |-> w, kid |-> Kid("panic", 0, 0, "")]
        [] obj.unread # "ref" /\ obj.k = "null" -> errorKid(w, "dangling")
        [] obj.unread # "ref" /\ obj.k = "int"  -> mcidKid(w, owner, page, obj.mcid)
        [] obj.unread # "ref" /\ obj.k = "mcr"  -> mcrKid(doc, w, obj, owner, page)
        [] obj.unread # "ref" /\ obj.k = "objr" ->
             [w |-> w, kid |-> Kid("objr", item.n, kidPage(doc, obj, page), "")]
        [] obj.unread # "ref" /\ obj.k = "elem" -> elementKid(doc, w, item, page, depth + 1)
        [] OTHER -> errorKid(w, "not a kid")

WalkedKids(w, kids) == [w |-> w, kids |-> kids, panic |-> FALSE]

walkItems(doc, w, items, owner, page, depth) ==
  FoldLeft(LAMBDA x, item :
             IF x.panic THEN x
             ELSE LET k == kid(doc, x.w, item, owner, page, depth)
                  IN  [w |-> k.w, kids |-> Append(x.kids, k.kid), panic |-> k.kid.kind = "panic"],
           WalkedKids(w, <<>>), items)

walkK(doc, w, kv, owner, page, depth) ==
  LET shared == kv.form = "ref" /\ doc.objs[kv.n].k = "array" /\ doc.objs[kv.n].unread # "ref"
  IN  CASE kv.form = "none" -> WalkedKids(w, <<>>)
        [] shared /\ kv.n \in w.visited -> WalkedKids(w, <<errorKid(w, "twice").kid>>)
        [] shared /\ kv.n \notin w.visited ->
             walkItems(doc, [w EXCEPT !.visited = @ \cup {kv.n}],
                       doc.objs[kv.n].kv.items, owner, page, depth)
        [] kv.form = "ref" /\ ~shared ->
             walkItems(doc, w, <<[n |-> kv.n, ref |-> TRUE]>>, owner, page, depth)
        [] OTHER -> walkItems(doc, w, kv.items, owner, page, depth)

\* /S through /RoleMap to a name with no mapping; "" for a cycle, a mapping
\* to the empty name, and a name that is not mapped.
RECURSIVE followRole(_, _, _)
followRole(roleMap, cur, seen) ==
  CASE cur \notin DOMAIN roleMap -> [to |-> cur, err |-> ""]
    [] cur \in DOMAIN roleMap /\ roleMap[cur] = "" -> [to |-> "", err |-> "empty"]
    [] cur \in DOMAIN roleMap /\ roleMap[cur] # "" /\ roleMap[cur] \in seen ->
         [to |-> "", err |-> "cycle"]
    [] OTHER -> followRole(roleMap, roleMap[cur], seen \cup {roleMap[cur]})

mapRole(roleMap, s) ==
  LET r == followRole(roleMap, s, {s})
  IN  IF r.to = s THEN [to |-> "", err |-> ""] ELSE r

(***************************************************************************)
(* The pages: their ParentTree slots, their content and the alignment.     *)
(***************************************************************************)
elementRefOf(doc, n) == [ref |-> n, err |-> doc.objs[n].k \notin {"elem", "mcr", "objr"}]

\* [sp, slots, err] of a page, from the ParentTree entries pt.  The slots end
\* where one panics.
readPageParentTree(doc, page, pt) ==
  LET sp  == doc.pages[page].sp
      bad == \/ doc.rootIs # "dict" \/ ~doc.hasPT
             \/ sp \notin DOMAIN pt.entries
             \/ doc.objs[pt.entries[sp]].k # "array"
  IN  CASE sp = NoKey -> [sp |-> NoKey, slots |-> <<>>, err |-> FALSE]
        [] sp # NoKey /\ bad -> [sp |-> sp, slots |-> <<>>, err |-> TRUE]
        [] OTHER -> LET all  == doc.objs[pt.entries[sp]].slots
                        torn == {i \in DOMAIN all : all[i] # 0 /\ doc.objs[all[i]].unread \in {"ref", "S"}}
                        arr  == IF torn = {} THEN all ELSE SubSeq(all, 1, Min(torn) - 1)
                    IN  [sp |-> sp, err |-> torn # {},
                         slots |-> [i \in DOMAIN arr |->
                            IF arr[i] = 0 THEN [ref |-> 0, err |-> FALSE]
                            ELSE elementRefOf(doc, arr[i])]]

\* The streams of a page as its scan reads them.
PageStreams(doc, page) ==
  LET p == doc.pages[page]
  IN  IF p.err \/ p.contentsErr THEN <<>>
      ELSE [i \in DOMAIN p.contents |->
              LET s == doc.streams[p.contents[i]]
              IN  [s EXCEPT !.tokens = [k \in DOMAIN s.tokens |->
                                          [s.tokens[k] EXCEPT !.s = i]]]]

Filter(s, Test(_)) == SelectSeq(s, Test)

align(content, slots, claims, page) ==
  LET mine  == Filter(claims, LAMBDA c : c.page = page)
      mcids == {r.mcid : r \in {x \in Range(content) : x.mcid >= 0}}
                 \cup {i - 1 : i \in {j \in DOMAIN slots : slots[j].ref # 0 \/ slots[j].err}}
                 \cup {c.mcid : c \in Range(mine)}
      RowOf(m) ==
        [mcid    |-> m,
         content |-> Len(Filter(content, LAMBDA r : r.mcid = m)),
         parent  |-> IF m + 1 \in DOMAIN slots /\ ~slots[m + 1].err
                     THEN slots[m + 1].ref ELSE 0,
         tree    |-> LET own == Filter(mine, LAMBDA c : c.mcid = m)
                     IN  [i \in DOMAIN own |-> own[i].owner]]
      Consistent(a) == a.content = 1 /\ a.parent # 0 /\ a.tree = <<a.parent>>
  IN  [i \in 1..Cardinality(mcids) |->
         LET a == RowOf(SetToSortSeq(mcids, <)[i])
         IN  [row |-> a, consistent |-> Consistent(a)]]

\* The number tree's walk, run to its end.
RECURSIVE walkedOut(_, _)
walkedOut(nodes, w) ==
  IF w.frames = <<>> THEN w
  ELSE walkedOut(nodes, IF AtNumKid(nodes, w) THEN visitKid(nodes, w)
                        ELSE IF Inner(w).pair = 0 THEN startNums(nodes, w)
                        ELSE IF AtPair(nodes, w) THEN readPair(nodes, w)
                        ELSE returned(w))

walkNumberTree(tree) == walkedOut(tree.nodes, startWalk(tree))

buildStructure(doc) ==
  LET root == doc.rootIs = "dict"
      tree == IF root THEN walkK(doc, StructWalk, doc.kv, RootOwner, 0, 0)
              ELSE WalkedKids(StructWalk, <<>>)
      pt   == IF root /\ doc.hasPT THEN walkNumberTree([nodes |-> doc.nodes, root |-> doc.ptRoot])
              ELSE EmptyWalk
      Page(i) ==
        LET ptree == readPageParentTree(doc, i, pt)
            scan  == scanPage(PageStreams(doc, i), doc.pages[i].props)
        IN  [err |-> doc.pages[i].err \/ doc.pages[i].contentsErr,
             parentTree |-> ptree, streams |-> scan.streams, content |-> scan.rows,
             alignment |-> align(scan.rows, ptree.slots, tree.w.claims, i)]
  IN  [elements |-> IF tree.panic THEN <<>> ELSE tree.kids, claims |-> tree.w.claims,
       pages |-> [i \in DOMAIN doc.pages |-> Page(i)],
       rootNotDict |-> doc.rootIs = "other", rootReadFailed |-> doc.rootIs = "panic" \/ tree.panic,
       parentTreeIncomplete |-> pt.incomplete,
       pagesIncomplete |-> doc.pagesIncomplete]

(***************************************************************************)
(* Shared streams: what decodeStream keeps.  uses counts the scans still   *)
(* to come; a stream is kept while another scan reads it.                  *)
(***************************************************************************)
countStreamUses(doc) ==
  LET all == FlattenSeq([i \in DOMAIN doc.pages |->
               IF doc.pages[i].err \/ doc.pages[i].contentsErr THEN <<>>
               ELSE doc.pages[i].contents])
  IN  [all |-> all, uses |-> [s \in Range(all) |-> Len(Filter(all, LAMBDA x : x = s))]]

decodeStream(x, id) ==
  LET left == x.uses[id] - 1
  IN  [uses |-> [x.uses EXCEPT ![id] = left],
       memo |-> IF left > 0 THEN x.memo \cup {id} ELSE x.memo \ {id},
       decodes |-> IF id \in x.memo THEN x.decodes ELSE Append(x.decodes, id)]

Decodes(doc) ==
  LET c == countStreamUses(doc)
  IN  FoldLeft(decodeStream, [uses |-> c.uses, memo |-> {}, decodes |-> <<>>], c.all)

(***************************************************************************)
(* The rules of the pdfua-1 profile that read the report.  A hit is        *)
(* <<page, what, mcid>>; a rule that cannot decide is not evaluated.       *)
(***************************************************************************)
NotEvaluated == [evaluated |-> FALSE, hits |-> {}]
Judged(hits) == [evaluated |-> TRUE, hits |-> hits]

firstUndecodedStream(page) ==
  LET bad == {i \in DOMAIN page.streams : page.streams[i].err}
  IN  IF bad = {} THEN Len(page.streams) + 1 ELSE CHOOSE i \in bad : \A j \in bad : i <= j

Unread(p, page) ==
  (IF page.err THEN {<<p, "unread", 0>>} ELSE {})
    \cup {<<p, "undecoded", i>> : i \in {j \in DOMAIN page.streams : page.streams[j].err}}

checkMarkedContentBalance(rep) ==
  LET HitsOf(p) ==
        LET page == rep.pages[p]
            bad  == firstUndecodedStream(page)
        IN  Unread(p, page)
              \cup {<<p, "unmatched", i>> :
                      i \in {j \in DOMAIN page.streams : j < bad /\ page.streams[j].minDepth < 0}}
              \cup (IF /\ ~page.err /\ bad > Len(page.streams) /\ page.streams # <<>>
                       /\ Last(page.streams).depthAtEnd > 0
                    THEN {<<p, "open", 0>>} ELSE {})
  IN  IF rep.pagesIncomplete THEN NotEvaluated
      ELSE Judged(UNION {HitsOf(p) : p \in DOMAIN rep.pages})

MCIDsOf(page) == {r.mcid : r \in {x \in Range(page.content) : x.mcid >= 0}}

checkMCIDUnique(rep) ==
  IF rep.pagesIncomplete THEN NotEvaluated
  ELSE Judged(UNION {{<<p, "twice", m>> :
                        m \in {x \in MCIDsOf(rep.pages[p]) :
                          Len(Filter(rep.pages[p].content, LAMBDA r : r.mcid = x)) > 1}}
                     : p \in DOMAIN rep.pages})

checkMCIDInParentTree(rep) ==
  LET HitsOf(p) ==
        LET page  == rep.pages[p]
            ptree == page.parentTree
            cause == ptree.err \/ ptree.sp = NoKey
            Reached(m) == /\ m + 1 \in DOMAIN ptree.slots
                          /\ ptree.slots[m + 1].ref # 0 /\ ~ptree.slots[m + 1].err
        IN  Unread(p, page)
              \cup (IF cause /\ MCIDsOf(page) # {} THEN {<<p, "page", 0>>} ELSE {})
              \cup {<<p, "bdc", r.at>> : r \in {x \in Range(page.content) : x.mcid < 0}}
              \cup {<<p, "slot", m>> : m \in {x \in MCIDsOf(page) : ~cause /\ ~Reached(x)}}
  IN  IF rep.pagesIncomplete \/ rep.rootReadFailed \/ rep.parentTreeIncomplete
      THEN NotEvaluated
      ELSE Judged(UNION {HitsOf(p) : p \in DOMAIN rep.pages})

checkMCIDNotNested(rep) ==
  IF rep.pagesIncomplete THEN NotEvaluated
  ELSE Judged(UNION {{<<p, "nested", r.mcid>> :
                        r \in {x \in Range(rep.pages[p].content) :
                          /\ x.mcid >= 0 /\ x.parent # NoMCID
                          /\ x.stream < firstUndecodedStream(rep.pages[p])}}
                     : p \in DOMAIN rep.pages})

RECURSIVE KidsBelow(_)
KidsBelow(kids) == Range(kids) \cup UNION {KidsBelow(k.kids) : k \in Range(kids)}

checkStructElemType(rep) ==
  IF rep.rootNotDict \/ rep.rootReadFailed THEN NotEvaluated
  ELSE Judged({<<0, "elem", k.id>> : k \in {x \in KidsBelow(rep.elements) :
                                 /\ x.kind = "element"
                                 /\ x.s = "bad" \/ (x.s = "unset" /\ x.readErr)}})

\* A rule first reads the catalog, then needs the walk to have succeeded.
runRule(doc, outcome) == IF doc.catalog THEN outcome ELSE NotEvaluated

\* The rules over the report rep of doc.
validate(doc, rep) ==
  [balance |-> runRule(doc, checkMarkedContentBalance(rep)),
   unique  |-> runRule(doc, checkMCIDUnique(rep)),
   inTree  |-> runRule(doc, checkMCIDInParentTree(rep)),
   nested  |-> runRule(doc, checkMCIDNotNested(rep)),
   types   |-> runRule(doc, checkStructElemType(rep))]

(***************************************************************************)
(* References, read off the document itself.                               *)
(***************************************************************************)
ItemsOf(doc, kv) ==
  CASE kv.form = "none" -> {}
    [] kv.form = "ref" /\ doc.objs[kv.n].k = "array" -> Range(doc.objs[kv.n].kv.items)
    [] kv.form = "ref" /\ doc.objs[kv.n].k # "array" -> {[n |-> kv.n, ref |-> TRUE]}
    [] OTHER -> Range(kv.items)

ElemsIn(doc, kv) == {i.n : i \in {x \in ItemsOf(doc, kv) : doc.objs[x.n].k = "elem"}}

RECURSIVE ReachElems(_, _)
ReachElems(doc, found) ==
  LET more == found \cup UNION {ElemsIn(doc, doc.objs[n].kv) :
                                 n \in {x \in found : doc.objs[x].unread = ""}}
  IN  IF more = found THEN found ELSE ReachElems(doc, more)

\* The tokens of a page as one stream, when everything can be read.
AllRead(doc, p) ==
  /\ ~doc.pages[p].err /\ ~doc.pages[p].contentsErr
  /\ \A i \in DOMAIN doc.pages[p].contents : ~doc.streams[doc.pages[p].contents[i]].err

PageContent(doc, p) ==
  LET parts == doc.pages[p].contents
      all   == FlattenSeq([i \in DOMAIN parts |-> doc.streams[parts[i]].tokens])
  IN  scanPage(<<[tokens |-> all, err |-> FALSE]>>, doc.pages[p].props)

\* The elements a ParentTree lookup by StructParents and MCID may give.
Lookup(doc, p, m) ==
  LET values == {q[2] : q \in {x \in UNION {Range(NumsRead(doc.nodes[n])) :
                                     n \in Below(doc.nodes, doc.ptRoot.n)} :
                               x[1] = doc.pages[p].sp}}
  IN  {doc.objs[v].slots[m + 1] :
         v \in {x \in values : doc.objs[x].k = "array" /\ m + 1 \in DOMAIN doc.objs[x].slots}}

Elements(rep) == {k \in KidsBelow(rep.elements) : k.kind = "element"}
ListedElems(rep) == {k.id : k \in Elements(rep)}
Cut(rep) == \E k \in KidsBelow(rep.elements) : k.err = "deep"

\* The elements below one that is listed, with its /S, and failed after it.
Lost(doc, rep) ==
  ReachElems(doc, {k.id : k \in {x \in Elements(rep) : x.readErr /\ x.s # "unset"}}) \ ListedElems(rep)

\* Every element is listed once; every one that can be reached is listed when
\* nothing was cut, unless it is below an element that says it could not be
\* read; and a claim is a /K entry of the element it names.
TreeIsRight(doc, rep) ==
  LET all   == ReachElems(doc, ElemsIn(doc, doc.kv))
      whole == doc.rootIs = "dict" /\ ~rep.rootReadFailed
      refs  == {c.owner : c \in Range(rep.claims)} \ {DirectElement}
  IN  /\ ListedElems(rep) \subseteq all
      /\ whole /\ ~Cut(rep) => all \subseteq ListedElems(rep) \cup Lost(doc, rep)
      /\ whole => refs \subseteq ListedElems(rep) \cup Lost(doc, rep)
      /\ \A i, j \in DOMAIN rep.claims :
           i # j /\ rep.claims[i] = rep.claims[j] /\ rep.claims[i].owner # DirectElement =>
             \E a, b \in ItemsOf(doc, doc.objs[rep.claims[i].owner].kv) :
               /\ a # b /\ doc.objs[a.n].mcid = rep.claims[i].mcid
               /\ doc.objs[b.n].mcid = rep.claims[i].mcid

\* A consistent row is one sequence in the content, one element whose /K
\* names it, and a ParentTree slot that gives that element.
AlignmentIsRight(doc, rep) ==
  \A p \in DOMAIN rep.pages : \A i \in DOMAIN rep.pages[p].alignment :
    LET a == rep.pages[p].alignment[i]
    IN  a.consistent =>
          /\ a.row.parent \in Lookup(doc, p, a.row.mcid)
          /\ doc.objs[a.row.parent].k = "elem"
          /\ \E item \in ItemsOf(doc, doc.objs[a.row.parent].kv) :
               doc.objs[item.n].mcid = a.row.mcid

Clean(r) == r.evaluated /\ r.hits = {}

\* The verdicts v against the content c of page p, read as one stream.
CleanPage(doc, v, p, c) ==
  /\ Clean(v.balance) => AllRead(doc, p) /\ c.st.stack = <<>> /\ c.streams[1].minDepth >= 0
  /\ Clean(v.unique) /\ Clean(v.balance) =>
       \A i, j \in DOMAIN c.rows : i # j /\ c.rows[i].mcid >= 0 => c.rows[i].mcid # c.rows[j].mcid
  /\ Clean(v.inTree) =>
       /\ AllRead(doc, p) /\ ~doc.pagesIncomplete
       /\ \A i \in DOMAIN c.rows :
            /\ c.rows[i].mcid >= 0
            /\ \E n \in Lookup(doc, p, c.rows[i].mcid) \ {0} :
                 doc.objs[n].k \in {"elem", "mcr", "objr"}
  /\ Clean(v.nested) /\ Clean(v.balance) =>
       \A i \in DOMAIN c.rows : c.rows[i].mcid >= 0 => c.rows[i].parent = NoMCID

\* checkStructElemType passes only when the /S of every element that is not
\* lost has been read and is usable, or the tree was cut.
TypesAreClean(doc, rep, v) ==
  Clean(v.types) /\ doc.rootIs = "dict" =>
    \A n \in ReachElems(doc, ElemsIn(doc, doc.kv)) \ Lost(doc, rep) :
      Cut(rep) \/ (doc.objs[n].s = "ok" /\ doc.objs[n].unread \notin {"ref", "S"})

\* A rule that ran and found nothing is right about the document: content
\* balanced as one stream, MCIDs unique, each with an element in its slot,
\* none nested, every element that is not lost listed with a usable /S.
CleanIsClean(doc, rep, v) ==
  /\ \A p \in DOMAIN doc.pages : CleanPage(doc, v, p, PageContent(doc, p))
  /\ TypesAreClean(doc, rep, v)

\* The names /RoleMap leads to from s.
RECURSIVE Roles(_, _)
Roles(roleMap, found) ==
  LET more == found \cup {roleMap[x] : x \in found \cap DOMAIN roleMap}
  IN  IF more = found THEN found ELSE Roles(roleMap, more)

\* A mapped role is the one name at the end of the chain; when there is none
\* the chain comes back on itself and the element says so.
RoleIsRight(roleMap, s) ==
  LET r    == mapRole(roleMap, s)
      ends == Roles(roleMap, {s}) \ DOMAIN roleMap
      back == ends = {}
  IN  /\ (r.err = "cycle") = back
      /\ (r.err = "empty") = (ends = {""})
      /\ r.err = "" => ends = {IF r.to = "" THEN s ELSE r.to}
      /\ r.err # "" => r.to = ""

\* Every content stream is decoded once however many pages read it, and none
\* is kept past its last reader.
DecodedOnce(doc) ==
  LET d == Decodes(doc)
  IN  d.memo = {} /\ Cardinality(Range(d.decodes)) = Len(d.decodes)

StructureIsRight(doc) ==
  LET Right(rep) == /\ TreeIsRight(doc, rep) /\ AlignmentIsRight(doc, rep)
                    /\ CleanIsClean(doc, rep, validate(doc, rep))
  IN  Right(buildStructure(doc)) /\ DecodedOnce(doc)
=============================================================================
