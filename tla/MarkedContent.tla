---------------------------- MODULE MarkedContent ----------------------------
(***************************************************************************)
(* The marked-content scan of src/internal/pdfcore/markedcontent.go: the   *)
(* tokens of a page's content streams, in order, give the BMC, BDC and EMC *)
(* nesting and one row for every BDC that carries an /MCID.                *)
(*                                                                         *)
(* A token is [t, v, n, id, s]: its type as the tokenizer gives it, its    *)
(* value, the integer a number token reads as (NotInt when it does not),   *)
(* its place in the page's content and the stream it is in.  A property    *)
(* list is found by name in props, a function to [k, n] where k is "int",  *)
(* "none" (no /MCID) or "bad".                                             *)
(***************************************************************************)
EXTENDS Integers, Sequences, FiniteSets, SequencesExt

NoMCID == -1
NotInt == -2

Openers == {"<<", "["}
Closers == {">>", "]"}
Delimits(tok, set) == tok.t = "operator" /\ tok.v \in set

\* Operators that the tokenizer's types put among the operands.
OperandWords == Openers \cup Closers \cup {"true", "false", "null"}

(***************************************************************************)
(* Reading the operands of a BDC.                                          *)
(***************************************************************************)
\* The nesting of toks[i..end], closing delimiters counted from the back.
BackDepth(toks, i, end) ==
  Cardinality({j \in i..end : Delimits(toks[j], Closers)})
    - Cardinality({j \in i..end : Delimits(toks[j], Openers)})

\* The first token of the operand object that ends at end.
operandStart(toks, end) ==
  LET ends == {i \in 1..end : BackDepth(toks, i, end) <= 0}
  IN  IF ends = {} THEN 1 ELSE CHOOSE i \in ends : \A j \in ends : j <= i

\* The positions of the delimiters still open at the end of toks.
OpenAtEnd(toks) ==
  FoldLeft(LAMBDA open, i :
             CASE Delimits(toks[i], Openers) -> Append(open, i)
               [] Delimits(toks[i], Closers) /\ open # <<>> -> Front(open)
               [] OTHER -> open,
           <<>>, [i \in DOMAIN toks |-> i])

\* The outermost "<<" still open, 0 when there is none.
unclosedDictStart(toks) ==
  LET dicts == SelectSeq(OpenAtEnd(toks), LAMBDA i : toks[i].v = "<<")
  IN  IF dicts = <<>> THEN 0 ELSE Head(dicts)

\* The value token of the top-level /MCID of an inline dictionary, as a
\* sequence of at most one.  x is [depth, expectKey, key, found, over].
inlineStep(x, tok) ==
  LET opening == Delimits(tok, Openers)
      closing == Delimits(tok, Closers)
  IN  CASE x.over -> x
        [] x.depth = 0 -> IF opening THEN [x EXCEPT !.depth = 1] ELSE x
        [] x.depth = 1 /\ closing -> [x EXCEPT !.over = TRUE]
        [] x.depth = 1 /\ x.expectKey ->
             IF tok.t = "name" THEN [x EXCEPT !.key = tok.v, !.expectKey = FALSE] ELSE x
        [] x.depth = 1 /\ x.key = "/MCID" -> [x EXCEPT !.found = <<tok>>, !.over = TRUE]
        [] x.depth = 1 -> IF opening THEN [x EXCEPT !.depth = 2]
                          ELSE [x EXCEPT !.expectKey = TRUE]
        [] opening -> [x EXCEPT !.depth = @ + 1]
        [] closing -> [x EXCEPT !.depth = @ - 1,
                                !.expectKey = x.depth = 2 \/ @]
        [] OTHER -> x

inlineMCID(toks) ==
  FoldLeft(inlineStep, [depth |-> 0, expectKey |-> TRUE, key |-> "",
                        found |-> <<>>, over |-> FALSE], toks).found

setMCID(row, n) ==
  IF n < 0 THEN [row EXCEPT !.err = "negative"] ELSE [row EXCEPT !.mcid = n]

NewRow(tok) ==
  [mcid |-> NoMCID, tag |-> "", at |-> tok.id, stream |-> tok.s, err |-> "",
   parent |-> NoMCID, depth |-> 0]
ErrRow(row, what) == [ok |-> TRUE, row |-> [row EXCEPT !.err = what]]
NoRow(row) == [ok |-> FALSE, row |-> row]

\* The row of a BDC whose operands are a tag and the property list prop: an
\* inline dictionary, or the name of a list.
inlineRow(row, prop, value) ==
  LET Closed(set) == IF set.err = "" /\ unclosedDictStart(prop) = 1
                     THEN ErrRow(set, "unclosed") ELSE [ok |-> TRUE, row |-> set]
  IN  CASE value = <<>> -> NoRow(row)
        [] value # <<>> /\ (value[1].t # "number" \/ value[1].n = NotInt) ->
             ErrRow(row, "not an integer")
        [] OTHER -> Closed(setMCID(row, value[1].n))

namedRow(row, name, props) ==
  CASE name \notin DOMAIN props -> ErrRow(row, "not found")
    [] name \in DOMAIN props /\ props[name].k = "bad" -> ErrRow(row, "bad list")
    [] name \in DOMAIN props /\ props[name].k = "none" -> NoRow(row)
    [] OTHER -> [ok |-> TRUE, row |-> setMCID(row, props[name].n)]

listRow(row, prop, props) ==
  CASE Delimits(prop[1], {"<<"}) -> inlineRow(row, prop, inlineMCID(prop))
    [] ~Delimits(prop[1], {"<<"}) /\ Len(prop) = 1 /\ prop[1].t = "name" ->
         namedRow(row, prop[1].v, props)
    [] OTHER -> ErrRow(row, "neither")

\* The row of a BDC, or ok FALSE when its property list has no /MCID.
bdcRow(operands, op, props) ==
  LET n == Len(operands)
      Tagged(propAt, tagAt, tag) ==
        IF tagAt # propAt - 1 \/ tag.t # "name" THEN ErrRow(NewRow(tag), "not a tag")
        ELSE listRow([NewRow(tag) EXCEPT !.tag = tag.v], SubSeq(operands, propAt, n), props)
      TagAt(propAt, tagAt) == Tagged(propAt, tagAt, operands[tagAt])
      PropAt(propAt) ==
        IF propAt = 1
        THEN ErrRow([NewRow(operands[1]) EXCEPT
                       !.tag = IF n = 1 /\ operands[1].t = "name" THEN operands[1].v
                               ELSE ""], "one operand")
        ELSE TagAt(propAt, operandStart(operands, propAt - 1))
      Start(last, open) == IF operands[last].v # "<<" /\ open # 0 THEN open ELSE last
  IN  IF n = 0 THEN ErrRow(NewRow(op), "no operands")
      ELSE PropAt(Start(operandStart(operands, n), unclosedDictStart(operands)))

(***************************************************************************)
(* The scan.  st is what carries over from one stream to the next.         *)
(***************************************************************************)
StartState == [stack |-> <<>>, operands |-> <<>>]

clearOperands(st) == [st EXCEPT !.operands = <<>>]

innermostMCID(stack) ==
  LET has == SelectSeq(stack, LAMBDA m : m # NoMCID)
  IN  IF has = <<>> THEN NoMCID ELSE Last(has)

Lower(a, b) == IF a < b THEN a ELSE b

\* The sequence a BDC opens, with the row it gives.
openBDC(x, bdc) ==
  LET stack == x.st.stack
  IN  [x EXCEPT
         !.ms.opens = @ + 1,
         !.st = clearOperands([@ EXCEPT !.stack =
                  Append(@, IF bdc.ok THEN bdc.row.mcid ELSE NoMCID)]),
         !.rows = IF bdc.ok
                  THEN Append(@, [bdc.row EXCEPT !.parent = innermostMCID(stack),
                                                 !.depth = Len(stack) + 1])
                  ELSE @]

\* One token: x is [st, ms, rows].
scanToken(x, tok, props) ==
  LET stack == x.st.stack
      Then(s) == clearOperands([x.st EXCEPT !.stack = s])
  IN  CASE tok.t = "comment" -> x
        [] tok.t # "comment" /\ (tok.t # "operator" \/ tok.v \in OperandWords) ->
             [x EXCEPT !.st.operands = Append(@, tok)]
        [] tok.t = "operator" /\ tok.v = "BMC" ->
             [x EXCEPT !.ms.opens = @ + 1, !.st = Then(Append(stack, NoMCID))]
        [] tok.t = "operator" /\ tok.v = "BDC" ->
             openBDC(x, bdcRow(x.st.operands, tok, props))
        [] tok.t = "operator" /\ tok.v = "EMC" ->
             [x EXCEPT !.ms.closes = @ + 1,
                       !.ms.minDepth = Lower(@, Len(stack) - 1),
                       !.st = Then(IF stack = <<>> THEN stack ELSE Front(stack))]
        [] OTHER -> [x EXCEPT !.st = clearOperands(@)]

RECURSIVE scanTokens(_, _, _)
scanTokens(x, tokens, props) ==
  IF tokens = <<>> THEN [x EXCEPT !.ms.depthAtEnd = Len(x.st.stack)]
  ELSE scanTokens(scanToken(x, Head(tokens), props), Tail(tokens), props)

StreamScan(depth, err) ==
  [opens |-> 0, closes |-> 0, minDepth |-> depth, depthAtEnd |-> depth, err |-> err]

scanMarkedContent(tokens, props, st) ==
  scanTokens([st |-> st, rows |-> <<>>, ms |-> StreamScan(Len(st.stack), FALSE)],
             tokens, props)

\* A page: its streams one after another, each [tokens, err].  A stream that
\* does not decode leaves the stack as it was and drops the operands.
scanStream(p, stream, props) ==
  LET Scanned(x) == [st |-> x.st, rows |-> p.rows \o x.rows, streams |-> Append(p.streams, x.ms)]
  IN  IF stream.err
      THEN [p EXCEPT !.st = clearOperands(@),
                     !.streams = Append(@, StreamScan(Len(p.st.stack), TRUE))]
      ELSE Scanned(scanMarkedContent(stream.tokens, props, p.st))

RECURSIVE scanStreams(_, _, _)
scanStreams(p, streams, props) ==
  IF streams = <<>> THEN p
  ELSE scanStreams(scanStream(p, Head(streams), props), Tail(streams), props)

scanPage(streams, props) ==
  scanStreams([st |-> StartState, rows |-> <<>>, streams |-> <<>>], streams, props)

(***************************************************************************)
(* Cutting a token sequence into streams, and the abstract content of one. *)
(***************************************************************************)
\* tokens as the streams that end after the positions in cuts.
Split(tokens, cuts) ==
  LET ends == SetToSortSeq(cuts \cup {Len(tokens)}, <)
      From(i) == IF i = 1 THEN 1 ELSE ends[i - 1] + 1
  IN  [i \in DOMAIN ends |->
         [err |-> FALSE,
          tokens |-> [k \in 1..(ends[i] - From(i) + 1) |->
                        [tokens[From(i) + k - 1] EXCEPT !.s = i]]]]

\* Wherever the content is cut into streams, the page gives the rows, the
\* unmatched EMC and the open sequences of the uncut content, and every row
\* names the stream its token is in.  Every BMC and BDC is counted: no stray
\* delimiter swallows one.
CutsDoNotMatter(tokens, cuts, props) ==
  LET whole == scanPage(Split(tokens, {}), props)
      cut   == scanPage(Split(tokens, cuts), props)
      Place(r) == [r EXCEPT !.stream = 0]
      Sum(Of(_)) == FoldLeft(LAMBDA n, ms : n + Of(ms), 0, cut.streams)
      pieces == Split(tokens, cuts)
  IN  /\ Len(cut.rows) = Len(whole.rows)
      /\ \A i \in DOMAIN cut.rows :
           /\ Place(cut.rows[i]) = Place(whole.rows[i])
           /\ \E k \in DOMAIN pieces[cut.rows[i].stream].tokens :
                pieces[cut.rows[i].stream].tokens[k].id = cut.rows[i].at
      /\ cut.st.stack = whole.st.stack
      /\ (\E i \in DOMAIN cut.streams : cut.streams[i].minDepth < 0)
           <=> whole.streams[1].minDepth < 0
      /\ Sum(LAMBDA ms : ms.opens)
           = Len(SelectSeq(tokens, LAMBDA x : x.t = "operator" /\ x.v \in {"BMC", "BDC"}))

(***************************************************************************)
(* Reference.  Well-formed content is a sequence of operations: "open"     *)
(* with an MCID or NoMCID, in one of the forms a property list takes,      *)
(* "close", and "draw".                                                    *)
(***************************************************************************)
RECURSIVE Expected(_, _, _)
Expected(ops, stack, rows) ==
  IF ops = <<>> THEN [rows |-> rows, open |-> Len(stack)]
  ELSE LET op == Head(ops)
       IN  Expected(Tail(ops),
             CASE op.do = "open"  -> Append(stack, op.mcid)
               [] op.do = "close" -> IF stack = <<>> THEN stack ELSE Front(stack)
               [] OTHER -> stack,
             IF op.do = "open" /\ op.mcid # NoMCID
             THEN Append(rows, [mcid |-> op.mcid, parent |-> innermostMCID(stack),
                                depth |-> Len(stack) + 1])
             ELSE rows)

\* The scan of well-formed content gives one row for every operation that
\* opens a sequence with an MCID, at its nesting and inside its parent.
ScanIsRight(ops, tokens, props) ==
  LET page == scanPage(Split(tokens, {}), props)
      want == Expected(ops, <<>>, <<>>)
  IN  /\ [i \in DOMAIN page.rows |->
            [mcid |-> page.rows[i].mcid, parent |-> page.rows[i].parent,
             depth |-> page.rows[i].depth]] = want.rows
      /\ \A i \in DOMAIN page.rows : page.rows[i].err = ""
      /\ Len(page.st.stack) = want.open
=============================================================================
