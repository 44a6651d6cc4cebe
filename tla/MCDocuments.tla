---------------------------- MODULE MCDocuments ----------------------------
(***************************************************************************)
(* The open documents and what the inspector reads out of one, on small    *)
(* documents.  Seven machines share the run: the tabs, the page-tree walk, *)
(* the reading of the signatures, their export, the number-tree walk, the  *)
(* comparison of two documents, and a reader that is asked about the       *)
(* algorithms written as operators.  A question is put in two steps, first *)
(* its part a and then its part b, so that TLC's workers share the answers.*)
(***************************************************************************)
EXTENDS OpenTabs, PageTree, FieldTree, Signatures, SignatureExport, Ber, Diff, ImageIndex, Structure, TLC

CONSTANTS o1, o2, o3, d1

VARIABLES machine, question

docVars == <<tabVars, vars, sigVars, exVars, numVars, diffVars, machine, question>>

(***************************************************************************)
(* Page trees: every shape of two objects of up to two kids and a direct   *)
(* dictionary of up to one, and attributes inherited along chains of three *)
(* objects.                                                                *)
(***************************************************************************)
Blank == [type |-> "Page", has |-> "nothing", kids |-> <<>>, own |-> "absent"]

ShapeDicts(n) ==
  [type : {"Page", "Pages"}, own : {"absent"}, has : {"array"},
   kids : UNION {[1..k -> {o1, o2, d1, "noNode"}] : k \in 0..n}]
  \cup [type : {"Page", "Pages"}, own : {"absent"}, has : {"nothing", "noArray"}, kids : {<<>>}]

Shapes == {f @@ (d1 :> x) @@ (o3 :> Blank) : f \in [{o1, o2} -> ShapeDicts(2)], x \in ShapeDicts(1)}

ChainDicts ==
  [type : {"Pages", "none"}, own : Owns, has : {"array"}, kids : {<<n>> : n \in Objects}]
  \cup [type : {"Pages", "none"}, own : Owns, has : {"nothing"}, kids : {<<>>}]

Chains == {f @@ (d1 :> Blank) : f \in [Objects -> ChainDicts]}

Symmetry == Permutations({o1, o2}) \cup Permutations(TabPaths)

(***************************************************************************)
(* Signed documents.                                                       *)
(***************************************************************************)
C1 == [issuer |-> "i", serial |-> 1, ski |-> "k1"]
C2 == [issuer |-> "i", serial |-> 2, ski |-> "none"]
Junk == [issuer |-> "unreadable", serial |-> 2, ski |-> "none"]
NoV == [dict |-> FALSE]
Ints(s) == [is |-> "integers", ints |-> s]
Sids == {[kind |-> "issuerSerial", issuer |-> "i", serial |-> 2, ski |-> "none"],
         [kind |-> "keyId", issuer |-> "i", serial |-> 0, ski |-> "k1"]}
Cms(parse, ok, certs, signers) ==
  [readable |-> TRUE, parse |-> parse, encoding |-> "BER", trailing |-> TRUE,
   certsOK |-> ok, certs |-> certs, signers |-> signers]
Sig(sub, range, hex, match, contents, cert) ==
  [dict |-> TRUE, sub |-> sub, range |-> range, hex |-> hex, match |-> match,
   contents |-> contents, cert |-> cert]
GoodRange == Ints(<<0, 1, 3, 1>>)
Detached(range, match) ==
  Sig("adbe.pkcs7", range, TRUE, match, Cms("signedData", TRUE, <<C1, C2>>, <<>>), <<>>)
SigContents ==
  {[Cms("undelimited", FALSE, <<>>, <<>>) EXCEPT !.readable = FALSE],
   Cms("undelimited", TRUE, <<>>, <<>>), Cms("notSignedData", TRUE, <<>>, <<>>),
   Cms("signedData", FALSE, <<>>, <<>>)}
  \cup {Cms("signedData", TRUE, cs, <<s>>) : cs \in {<<>>, <<C1, C2>>}, s \in Sids}
FieldNode(T, FT, ks, V) == [dict |-> TRUE, T |-> T, FT |-> FT, kids |-> ks, V |-> V]
OneField(v) ==
  [fields |-> <<"a">>, size |-> 4, node |-> [n \in {"a"} |-> FieldNode("a", "Sig", <<>>, v)]]

Ranges == {OneField(Detached(Ints(r), TRUE)) : r \in [1..4 -> {-1, 0, 2, 4, 12, 15}]}
MalformedRanges ==
  {OneField(Detached(r, TRUE)) :
     r \in [is : {"missing", "not an array", "non-integer"}, ints : {<<>>}]
           \cup {Ints(<<0, 1, 3>>), Ints(<<>>)}}
SubFilters ==
  {OneField(Sig(sub, GoodRange, hex, TRUE, c, cert)) :
     sub \in {"adbe.pkcs7", "ETSI.RFC3161", "adbe.x509.rsa_sha1", "x"}, hex \in BOOLEAN,
     c \in SigContents, cert \in {<<>>, <<Junk, C2>>}}

\* A parent with named and unnamed kids, a widget that two fields share, a
\* field that is its own kid, and one that is no dictionary.
SigForm(v1, v2) ==
  [fields |-> <<"p", "c", "j", "w">>, size |-> 4,
   node |-> [n \in {"p", "k1", "k2", "w", "c", "j"} |->
     CASE n = "p"  -> FieldNode("p", "Sig", <<"k1", "w", "k2">>, NoV)
       [] n = "k1" -> FieldNode("k", "absent", <<"w">>, v1)
       [] n = "k2" -> FieldNode("empty", "absent", <<>>, v2)
       [] n = "w"  -> FieldNode("absent", "Tx", <<>>, v1)
       [] n = "c"  -> FieldNode("c", "Sig", <<"c", "k1">>, NoV)
       [] n = "j"  -> [FieldNode("absent", "Sig", <<>>, NoV) EXCEPT !.dict = FALSE]]]
SigVs == {NoV, Detached(GoodRange, TRUE), Detached(GoodRange, FALSE),
          Detached(Ints(<<0, 1, 3, 5>>), TRUE)}

Unsigned == OneField(NoV)
MCSignedDocs == Ranges \cup MalformedRanges \cup SubFilters \cup {Unsigned}
                \cup {SigForm(v, w) : v \in SigVs, w \in SigVs}
MCSigFields == [d \in MCSignedDocs |-> collectSignatures(d)]

(***************************************************************************)
(* Exports: the directory 1, a directory 2 that may be missing, and 3, a   *)
(* link to 1; other names of the input PDF and of a certificate file.      *)
(***************************************************************************)
Other(d, k, s) == [dir |-> d, stem |-> <<"other", k, 0>>, sp |-> s]
Input == Other(1, 1, 1)
CertAt(d, m, s) == [dir |-> d, stem |-> <<"cert", 1, m>>, sp |-> s]
Directories == {1 :> 1, 1 :> 1 @@ 2 :> 2, 1 :> 1 @@ 3 :> 1}
Names == {x @@ (Input :> 1) :
            x \in {<<>>, Other(1, 2, 1) :> 1, Other(1, 2, 1) :> 2, CertAt(1, 1, 1) :> 1,
                  CertAt(1, 1, 1) :> 2, CertAt(1, 1, 1) :> 2 @@ Other(1, 2, 1) :> 2,
                  CertAt(1, 1, 1) :> 2 @@ CertAt(1, 2, 1) :> 2}}
DiskData == <<PdfData, <<"old", 0, 0>>>>
FileSystems ==
  [cased : BOOLEAN, dirs : Directories, entries : Names, data : {DiskData}]
Field(n, signed, filter, cms, certs) ==
  [name |-> n, signed |-> signed, cmsFilter |-> filter, cms |-> cms, certs |-> certs]
FieldLists ==
  {<<>>, <<Field("a", TRUE, TRUE, TRUE, 1)>>,
   <<Field("a", TRUE, TRUE, TRUE, 1), Field("b", TRUE, FALSE, TRUE, 1)>>,
   <<Field("a", TRUE, TRUE, TRUE, 2), Field("a", TRUE, TRUE, TRUE, 1)>>,
   <<Field("a", FALSE, TRUE, FALSE, 0), Field("b", TRUE, TRUE, FALSE, 0)>>}
MCExportRequests ==
  [fs : FileSystems, input : {Input}, certs : {NoDir, 1, 2, 3}, field : {NoField, "a", "b"},
   sigs : FieldLists,
   cms : {NoPath, Input, Other(1, 1, 2), Other(3, 1, 1), Other(1, 2, 1), Other(2, 2, 1),
          CertAt(1, 1, 1), CertAt(1, 1, 2), CertAt(3, 1, 1), DirPath(2)}]
PlainRequest ==
  [fs |-> [cased |-> TRUE, dirs |-> 1 :> 1, entries |-> Input :> 1, data |-> DiskData],
   input |-> Input, certs |-> NoDir, field |-> NoField, sigs |-> <<>>, cms |-> NoPath]

(***************************************************************************)
(* BER: elements two levels deep in every length form, with and without    *)
(* padding; lengths around 128 and 256; byte sequences of any kind.        *)
(***************************************************************************)
Prim(tag, bs, form) == [tag |-> tag, bytes |-> bs, kids |-> <<>>, form |-> form]
Group(tag, ks, form) == [tag |-> tag, bytes |-> <<>>, kids |-> ks, form |-> form]
PrimContents == {<<2, <<0>>>>, <<4, <<>>>>, <<4, <<5>>>>, <<3, <<0>>>>, <<3, <<1>>>>, <<3, <<0, 5>>>>,
                 <<3, <<1, 4>>>>, <<12, <<5>>>>}
Prims(forms) == {Prim(c[1], c[2], form) : c \in PrimContents, form \in forms}
ConsTags == {48, 35, 36, 44}
UpTo2(as, bs) == {<<>>} \cup {<<x>> : x \in as} \cup {<<x, y>> : x \in as, y \in bs}
Flat == {Group(t, ks, form) : t \in ConsTags, form \in {"min", "long1", "indef"},
         ks \in UpTo2(Prims({"min", "long2"}), Prims({"min", "long1"}))}
Nested1 == {Group(t, ks, form) : t \in ConsTags, form \in {"min", "indef"},
            ks \in {<<>>} \cup {<<x>> : x \in Prims({"min"})}}
Nested2 == {Group(t, ks, form) : t \in ConsTags, form \in {"min", "indef"},
            ks \in UpTo2(Nested1, Prims({"min"}))}
TooDeep2 == {Group(48, <<Group(48, <<Group(48, <<x>>, "min")>>, "indef")>>, "min") : x \in Nested1}
Long == {Group(t, <<Prim(4, [i \in 1..n |-> 7], form), Prim(4, <<5>>, "min")>>, outer) :
         t \in {48, 36}, n \in {123, 124, 125, 126, 127, 128, 250, 252, 253, 255, 256},
         form \in {"min", "long2"}, outer \in {"min", "indef"}}
BerTrees == Flat \cup Nested2 \cup TooDeep2 \cup Long
Octets == {0, 1, 3, 31, 35, 36, 48, 128, 129}
BerPrefixes == [1..2 -> Octets]
BerSuffixes == UNION {[1..n -> Octets] : n \in 0..2}

(***************************************************************************)
(* Pairs of documents to compare: references that agree, cross, loop and   *)
(* end at different objects; a scalar and another that reads the same.     *)
(***************************************************************************)
DecText(raw) == IF raw = "a2" THEN "a" ELSE raw
To(n) == [n |-> n, ref |-> TRUE]
Written(n) == [n |-> n, ref |-> FALSE]
Holds(k, e) == [k |-> k, raw |-> "", e |-> e]
Scalar(raw) == [k |-> "scalar", raw |-> raw, e |-> <<>>]
Tops == {Holds("dict", s) : s \in {<<To(2), To(3)>>, <<To(3), To(3)>>, <<To(3), Written(4)>>}}
Middles == {Holds("dict", <<x>>) : x \in {To(1), To(2), To(3), Written(4)}}
           \cup {Holds("array", <<To(2), To(3)>>), Holds("dict", <<Written(4), To(3)>>),
                 Holds("dict", 8 :> Written(4) @@ 9 :> To(3))}
Bottoms == {Scalar("a"), Scalar("a2"), Holds("ref", <<>>)}
           \cup {Holds("dict", <<x>>) : x \in {To(2), To(3)}}
AnyDocs == {[root |-> 1, nodes |-> <<x, y, z, d>>, facts |-> 0] :
              x \in Tops, y \in Middles, z \in Bottoms, d \in {Scalar("a"), Scalar("b"), Holds("array", <<To(3)>>)}}
Leads(doc, m, n) == \E key \in DOMAIN doc.nodes[m].e : doc.nodes[m].e[key].n = n
\* Documents that differ only in nodes their catalog does not lead to are one.
MCDiffDocs ==
  {doc \in AnyDocs :
     /\ Leads(doc, 1, 2) \/ Leads(doc, 3, 2) \/ doc.nodes[2] = Holds("dict", <<To(1)>>)
     /\ Leads(doc, 1, 4) \/ Leads(doc, 2, 4) \/ doc.nodes[4] = Scalar("a")}
NoEntries == [root |-> 1, nodes |-> <<Holds("dict", <<>>)>>, facts |-> 0]

(***************************************************************************)
(* Documents with three forms, that name each other and an image, and one  *)
(* or two pages.                                                           *)
(***************************************************************************)
Res(s) == [state |-> "ok", names |-> s]
NoRes == [state |-> "none", names |-> <<>>]
BadRes == [state |-> "bad", names |-> <<>>]
XObject(kind, res) == [kind |-> kind, res |-> res]
FormRes == {Res(<<x>>) : x \in 1..4} \cup {Res(<<x, y>>) : x \in 1..3, y \in 2..4}
LastRes == {Res(<<x>>) : x \in 1..4} \cup {Res(<<x, 4>>) : x \in 1..3} \cup {BadRes}
ImagePage(s, key) == [res |-> Res(s), key |-> key, err |-> FALSE, entryBad |-> 0]
ImagePages == {<<ImagePage(<<x>>, 1), ImagePage(<<y>>, 2)>> : x \in 1..3, y \in 1..3}
              \cup {<<ImagePage(<<x, y>>, 1)>> : x \in 1..2, y \in 2..3}
ImageObjs(x, y, z) ==
  <<XObject("form", x), XObject("form", y), XObject("form", z), XObject("image", NoRes)>>

(***************************************************************************)
(* Number trees of four nodes, with shared, direct and nested kids.        *)
(***************************************************************************)
Ref(n) == [n |-> n, ref |-> TRUE]
Direct(n) == [n |-> n, ref |-> FALSE]
TreeNode(lim, kidsAre, ks, numsAre, nums) ==
  [kind |-> "dict", limits |-> lim, kidsAre |-> kidsAre, kids |-> ks, numsAre |-> numsAre,
   nums |-> nums, odd |-> FALSE]
NumLeaf(lim, nums) == TreeNode(lim, "absent", <<>>, "array", nums)
BareNode == TreeNode(<<0, 2>>, "absent", <<>>, "absent", <<>>)
NumLeaves ==
  {NumLeaf(lim, nums) : lim \in {<<>>, <<0, 1>>, <<1, 2>>, <<2, 0>>},
     nums \in {<<<<1, 7>>>>, <<<<0, 7>>, <<1, 8>>>>, <<<<2, 7>>, <<1, 8>>>>, <<<<1, 7>>, <<1, 8>>>>,
               <<<<NoKey, 8>>, <<1, 8>>>>}}
  \cup {[BareNode EXCEPT !.kind = x] : x \in {"dict", "null", "other", "panic"}}
  \cup {[BareNode EXCEPT !.kidsAre = "other"], [BareNode EXCEPT !.numsAre = "other"],
         [NumLeaf(<<0, 1>>, <<<<0, 9>>>>) EXCEPT !.odd = TRUE],
         TreeNode(<<0, 2>>, "array", <<Ref(4)>>, "absent", <<>>)}
KidLists == {<<Ref(2)>>, <<Ref(3)>>, <<Ref(1), Ref(3)>>, <<Ref(2), Ref(3)>>, <<Ref(2), Ref(4)>>, <<Ref(4), Ref(3)>>}
NumRoots == {TreeNode(<<>>, "array", ks, "absent", <<>>) : ks \in KidLists}
NumMiddles == {TreeNode(<<0, 2>>, "array", ks, "absent", <<>>) : ks \in KidLists \cup {<<Direct(3)>>, <<Direct(3), Ref(3)>>}}
              \cup {TreeNode(<<0, 2>>, "array", ks, "array", <<<<2, 5>>>>) : ks \in {<<Ref(3)>>, <<Ref(3), Ref(4)>>}}
LastLeaves == {NumLeaf(<<0, 1>>, nums) : nums \in {<<<<0, 6>>>>, <<<<1, 8>>>>}}
MCNumberTrees ==
  {[nodes |-> <<r, m, x, y>>, root |-> Ref(1)] : r \in NumRoots, m \in NumMiddles, x \in NumLeaves, y \in LastLeaves}
  \cup {[nodes |-> <<x>>, root |-> Direct(1)] : x \in NumLeaves \ {TreeNode(<<0, 2>>, "array", <<Ref(4)>>, "absent", <<>>)}}
NoPairs == [nodes |-> <<BareNode>>, root |-> Ref(1)]

(***************************************************************************)
(* Content: any tokens, cut anywhere; and well-formed operations.          *)
(***************************************************************************)
Token(t, v, n) == [t |-> t, v |-> v, n |-> n, id |-> 0, s |-> 0]
Op(v) == Token("operator", v, NotInt)
Name(v) == Token("name", v, NotInt)
Number(n) == Token("number", "n", n)
Placed(ts) == [i \in DOMAIN ts |-> [ts[i] EXCEPT !.id = i]]
PropLists == "/P1" :> [k |-> "int", n |-> 1] @@ "/P2" :> [k |-> "none", n |-> 0] @@ "/P3" :> [k |-> "bad", n |-> 0]
Tokens == {Op("BDC"), Op("EMC"), Op("<<"), Op(">>"), Name("/MCID"), Name("/P1"), Number(0)}
Opening(m, form) == [do |-> "open", mcid |-> m, form |-> form]
Operations ==
  {Opening(NoMCID, form) : form \in {"bmc", "inline", "named"}}
  \cup {Opening(1, form) : form \in {"named", "inline", "nested", "after"}}
  \cup {Opening(0, "inline"), [do |-> "close", mcid |-> NoMCID, form |-> ""],
         [do |-> "draw", mcid |-> NoMCID, form |-> ""]}
Dict(ts) == <<Op("<<")>> \o ts \o <<Op(">>")>>
MCIDEntry(n) == <<Name("/MCID"), Number(n)>>
TokensOf(op) ==
  CASE op.do = "close" -> <<Op("EMC")>>
    [] op.do = "draw"  -> <<Op("["), Number(3), Op("]"), Op("TJ")>>
    [] op.form = "bmc" -> <<Name("/T"), Op("BMC")>>
    [] op.form = "named"  -> <<Name("/T"), Name(IF op.mcid = NoMCID THEN "/P2" ELSE "/P1"), Op("BDC")>>
    [] op.form = "inline" -> <<Name("/T")>> \o Dict(IF op.mcid = NoMCID THEN <<Name("/Lang"), Name("/MCID")>>
                                                   ELSE MCIDEntry(op.mcid)) \o <<Op("BDC")>>
    [] op.form = "nested" -> <<Name("/T")>> \o Dict(<<Name("/A")>> \o Dict(MCIDEntry(7)) \o MCIDEntry(op.mcid))
                             \o <<Op("BDC")>>
    [] op.form = "after"  -> <<Number(4), Name("/T")>> \o
                             Dict(MCIDEntry(op.mcid) \o <<Name("/B"), Op("[")>> \o MCIDEntry(5) \o <<Op("]")>>)
                             \o <<Op("BDC")>>
AsTokens(ops) == Placed(FlattenSeq([i \in DOMAIN ops |-> TokensOf(ops[i])]))

(***************************************************************************)
(* Tagged documents.  Objects 1, 2 and 10 are elements, 3 an array of      *)
(* kids, 4 an MCID, 5 an MCR, 6 an OBJR, 7 dangling, 8 the ParentTree's    *)
(* array and 9 no kid; pages are objects 21 and 22.                        *)
(***************************************************************************)
NoK == [form |-> "none", n |-> 0, items |-> <<>>]
RefK(n) == [form |-> "ref", n |-> n, items |-> <<>>]
ItemsK(s) == [form |-> "items", n |-> 0, items |-> s]
StructObj(k) == [k |-> k, pg |-> 0, kv |-> NoK, mcid |-> 0, s |-> "ok", unread |-> "", slots |-> <<>>]
BDC(m) == <<Name("/P")>> \o Dict(MCIDEntry(m)) \o <<Op("BDC")>>
EMC == <<Op("EMC")>>
Tagged ==
  [catalog |-> TRUE, rootIs |-> "dict", kv |-> RefK(1), hasPT |-> TRUE, ptRoot |-> Ref(1),
   nodes |-> <<NumLeaf(<<>>, <<<<0, 8>>>>)>>,
   objs |-> <<StructObj("elem"), StructObj("elem"), StructObj("array"), StructObj("int"), StructObj("mcr"),
              StructObj("objr"), StructObj("null"), [StructObj("array") EXCEPT !.slots = <<1>>],
              StructObj("other"), [StructObj("elem") EXCEPT !.kv = ItemsK(<<Direct(4)>>), !.pg = 21]>>,
   pages |-> <<[obj |-> 21, err |-> FALSE, sp |-> 0, contentsErr |-> FALSE, contents |-> <<1>>,
                props |-> PropLists]>>,
   streams |-> <<[tokens |-> Placed(BDC(0) \o EMC), err |-> FALSE]>>,
   pagesIncomplete |-> FALSE]

Ks == {NoK, RefK(1), RefK(2), RefK(3), ItemsK(<<Direct(4)>>), ItemsK(<<Ref(2), Direct(4)>>),
       ItemsK(<<Ref(10), Ref(2)>>), ItemsK(<<Ref(5), Ref(2)>>), ItemsK(<<Direct(4), Ref(4)>>), ItemsK(<<Ref(7), Ref(9), Direct(2)>>)}
TreeHalves ==
  {[Tagged EXCEPT !.kv = top, !.objs[1].kv = k1, !.objs[3].kv = ItemsK(arr)] : k1 \in Ks,
     top \in {RefK(1), RefK(3), ItemsK(<<Ref(1), Ref(10)>>), ItemsK(<<Ref(1), Direct(2), Ref(6), Direct(4)>>)},
     arr \in {<<Ref(1)>>, <<Direct(4)>>, <<Ref(2), Direct(4)>>}}
TreeWholes(half) ==
  {[half EXCEPT !.objs[1] = [@ EXCEPT !.pg = x[1], !.s = x[2]],
                !.objs[2] = [@ EXCEPT !.kv = k2, !.pg = 21, !.unread = x[3]],
                !.objs[5] = [@ EXCEPT !.pg = x[4], !.s = x[5]]] : k2 \in Ks,
     x \in {<<0, "ok", "", 0, "">>, <<21, "bad", "", 21, "">>, <<21, "ok", "", 0, "stm">>}
           \cup {<<22, "ok", at, -1, "">> : at \in {"ref", "S", "after"}}}

Streams == {[tokens |-> Placed(ts), err |-> bad] : bad \in BOOLEAN,
              ts \in {BDC(0), EMC, BDC(0) \o EMC, BDC(1) \o BDC(0) \o EMC \o EMC,
                      <<Name("/P"), Op("BDC")>>, <<>>}}
PageHalves ==
  {[Tagged EXCEPT !.kv = ItemsK(<<Ref(1), Ref(2)>>), !.streams = <<s1, s2>>,
                  !.objs[1] = [@ EXCEPT !.kv = ItemsK(<<Direct(4)>>), !.pg = 21]] :
     s1 \in Streams, s2 \in Streams}
PageWholes(half) ==
  {[half EXCEPT !.rootIs = x[1], !.catalog = x[2], !.pagesIncomplete = x[3], !.objs[8].slots = slots,
                !.pages = <<[@[1] EXCEPT !.contents = c1],
                            [@[1] EXCEPT !.obj = 22, !.sp = x[4], !.contents = c2]>>] :
     x \in {<<"dict", TRUE, FALSE, NoKey>>, <<"dict", TRUE, FALSE, 1>>, <<"dict", TRUE, TRUE, 0>>,
            <<"panic", TRUE, FALSE, 0>>, <<"other", FALSE, FALSE, NoKey>>},
     slots \in {<<1>>, <<0>>, <<4, 1>>}, c1 \in {<<1>>, <<1, 2>>}, c2 \in {<<>>, <<2, 1, 2>>}}

RoleNames == {"P", "H", "X"}
RoleMaps == UNION {[d -> RoleNames \cup {""}] : d \in SUBSET RoleNames}

(***************************************************************************)
(* The questions.                                                          *)
(***************************************************************************)
First ==
  [ber      |-> BerTrees, octets |-> BerPrefixes,
    images   |-> FormRes \X FormRes,
   tokens   |-> [1..2 -> Tokens], operations |-> [1..2 -> Operations],
   tree     |-> TreeHalves, pages |-> PageHalves,
   roles    |-> RoleMaps]

Second(of, a) ==
  CASE of = "ber"        -> {<<>>, <<0, 7, 0>>}
    [] of = "octets"     -> BerSuffixes
    [] of = "images"     -> {[objs |-> ImageObjs(a[1], a[2], z), pages |-> ps] : z \in LastRes, ps \in ImagePages}
    [] of = "tokens"     -> UNION {[1..n -> Tokens] : n \in 0..3}
    [] of = "operations" -> UNION {[1..n -> Operations] : n \in 0..2}
    [] of = "tree"       -> TreeWholes(a)
    [] of = "pages"      -> PageWholes(a)
    [] of = "roles"      -> RoleNames

Unasked(of) == [of |-> of, step |-> 0]

SomePages ==
  /\ \/ pdf \in Shapes /\ root \in {o1, o2, d1, None}
     \/ pdf \in Chains /\ root \in Objects
  /\ Init

IdlePages == pdf = [n \in Nodes |-> Blank] /\ root = None /\ Init
IdleSignatures == sigDoc = Unsigned /\ SigInit
IdleExport == exRequest = PlainRequest /\ ExInit

IdleDiff == diffDocs = [left |-> NoEntries, right |-> NoEntries] /\ DiffStarts

IdleNumbers == numTree = NoPairs /\ numWalk = startWalk(NoPairs)

\* A machine that does not run starts in one state.
Runs(m) ==
  /\ machine = m
  /\ TabsInit
  /\ IF m = "signatures" THEN SigInit ELSE IdleSignatures
  /\ IF m = "exports" THEN ExInit ELSE IdleExport
  /\ IF m = "numbers" THEN NumInit ELSE IdleNumbers
  /\ IF m = "diff" THEN DiffInit ELSE IdleDiff
  /\ IF m = "pages" THEN SomePages ELSE IdlePages

DocInit ==
  \/ /\ \E m \in {"tabs", "pages", "signatures", "exports", "numbers", "diff"} : Runs(m)
     /\ question = Unasked("")
  \/ Runs("reader") /\ question \in {Unasked(of) : of \in DOMAIN First}

\* The first part of the question, then the whole of it.
AskFirst ==
  /\ question.step = 0
  /\ \E a \in First[question.of] : question' = [of |-> question.of, step |-> 1, a |-> a]

AskSecond ==
  /\ question.step = 1
  /\ \E b \in Second(question.of, question.a) :
       question' = [of |-> question.of, step |-> 2, a |-> question.a, b |-> b]

DocNext ==
  /\ UNCHANGED machine
  /\ \/ machine = "tabs" /\ TabsNext /\ UNCHANGED <<vars, sigVars, exVars, numVars, diffVars, question>>
     \/ machine = "pages" /\ Next /\ UNCHANGED <<tabVars, sigVars, exVars, numVars, diffVars, question>>
     \/ machine = "signatures" /\ SigNext /\ UNCHANGED <<tabVars, vars, exVars, numVars, diffVars, question>>
     \/ machine = "exports" /\ ExNext /\ UNCHANGED <<tabVars, vars, sigVars, numVars, diffVars, question>>
     \/ machine = "numbers" /\ NumNext /\ UNCHANGED <<tabVars, vars, sigVars, exVars, diffVars, question>>
     \/ machine = "diff" /\ DiffNext /\ UNCHANGED <<tabVars, vars, sigVars, exVars, numVars, question>>
     \/ /\ machine = "reader" /\ (AskFirst \/ AskSecond)
        /\ UNCHANGED <<tabVars, vars, sigVars, exVars, numVars, diffVars>>

DocSpec == DocInit /\ [][DocNext]_docVars

\* The comparisons only.
ComparisonsSpec == Runs("diff") /\ question = Unasked("") /\ [][DocNext]_docVars

(***************************************************************************)
(* What the machines keep, and what the answers must be.                   *)
(***************************************************************************)

Asked(of) == machine = "reader" /\ question.step = 2 /\ question.of = of

\* normalizeBER: see TreeRight and CanonicalOnce.  Every well-formed element
\* is re-encoded to its normal form, located and reported, whatever lengths
\* and padding it comes with; what is accepted is in normal form.
BerIsNormalised ==
  /\ Asked("ber") => TreeRight(question.a, question.b)
  /\ Asked("ber") \/ Asked("octets") =>
       CanonicalOnce((IF Asked("ber") THEN Encode(question.a) ELSE question.a) \o question.b)

\* build: see ImageIndexIsRight.  A memoised walk counts what a fresh walk
\* would, a page without an issue has all its images, every failure names
\* its pages, and the budgets hold.
ImageCountsAreRight == Asked("images") => ImageIndexIsRight(question.b)

\* buildStructure with the marked content it reads, and the rules that read
\* it: see CutsDoNotMatter, ScanIsRight, StructureIsRight and RoleIsRight.
\* The rows of a page do not depend on where its content is cut into streams,
\* and are those of its operations; a structure element is read once and a
\* rule never passes on what it could not read.
StructureReportIsRight ==
  /\ Asked("tokens") =>
       \A cut \in 0..(1 + Len(question.b)) :
         CutsDoNotMatter(Placed(question.a \o question.b), {cut} \ {0}, PropLists)
  /\ Asked("operations") =>
       ScanIsRight(question.a \o question.b, AsTokens(question.a \o question.b), PropLists)
  /\ Asked("tree") \/ Asked("pages") => StructureIsRight(question.b)
  /\ Asked("roles") => RoleIsRight(question.a, question.b)

\* What normalizeBER, the image walk's build and buildStructure compute for a
\* document is what their reference definitions say of it.
AnswersAreRight == BerIsNormalised /\ ImageCountsAreRight /\ StructureReportIsRight
=============================================================================
