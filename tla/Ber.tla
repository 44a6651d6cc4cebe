-------------------------------- MODULE Ber --------------------------------
(***************************************************************************)
(* The BER normaliser of src/internal/pdfcore/ber.go: it reads one         *)
(* top-level element of a signature's /Contents and re-encodes it with     *)
(* minimal definite lengths and no constructed strings.                    *)
(*                                                                         *)
(* A byte string is a sequence of 0..255 and offsets are the code's        *)
(* (0-based).  The walk is a set of recursive operators that thread the    *)
(* normaliser n (berNormalizer), because the three passes communicate      *)
(* through it: the recording pass fills lens and unused in pre-order and   *)
(* the emitting pass consumes them by index.  An error is its kind.        *)
(***************************************************************************)
EXTENDS Integers, Sequences, FiniteSets

CONSTANT maxBERDepth       \* nesting bound; 64 in the code

ASSUME DepthAssumption == maxBERDepth \in Nat \ {0}

Byte(n, off) == n.in[off + 1]
Bytes(n, from, to) == SubSeq(n.in, from + 1, to)

Normalizer(in) ==
  [in |-> in, pass |-> "check", ber |-> FALSE, lens |-> <<>>, unused |-> <<>>,
   nextLen |-> 1, nextUnused |-> 1, out |-> <<>>]

isBERStringTag(t) == t \in {3, 4, 7, 12} \cup (18..28) \cup {30}

\* Fault: a length of 128 is taken for one octet.
berLenSizeShort(len) == IF len <= 128 THEN 1 ELSE IF len < 256 THEN 2 ELSE IF len < 65536 THEN 3 ELSE 4

\* The number of octets of the minimal length for len; the buffers of the
\* model stay below 2^24 bytes.
berLenSize(len) == CASE len < 128   -> 1
                     [] len < 256   -> 2
                     [] len < 65536 -> 3
                     [] OTHER       -> 4

appendBERLength(len) ==
  IF len < 128 THEN <<len>>
  ELSE LET k == berLenSize(len) - 1
       IN  <<128 + k>> \o [i \in 1..k |-> (len \div 256^(k - i)) % 256]

\* What a length octet adds; the value saturates above every offset instead
\* of reaching the 2^32 of four octets.
ShiftIn(v, c) == IF v >= 2^22 THEN 2^30 ELSE v * 256 + c

RECURSIVE LongLength(_, _, _, _)
LongLength(n, p, k, v) ==
  IF k = 0 THEN v ELSE LongLength(n, p + 1, k - 1, ShiftIn(v, Byte(n, p)))

(***************************************************************************)
(* The tag and the length of the element at off.                           *)
(***************************************************************************)
HeaderError(kind) ==
  [err |-> kind, tagEnd |-> 0, hdrEnd |-> 0, constructed |-> FALSE,
   indefinite |-> FALSE, length |-> 0, ber |-> FALSE]

\* The high-tag-number form, at most five octets: its end, or an error kind.
\* num is -1 once it no longer fits an int32.
RECURSIVE HighTag(_, _, _, _, _)
HighTag(n, p, i, num, limit) ==
  CASE i = 5      -> [err |-> "tag", end |-> 0]
    [] p >= limit -> [err |-> "truncated", end |-> 0]
    [] OTHER      ->
       LET c == Byte(n, p)
           v == IF num = -1 \/ num >= 2^24 THEN -1 ELSE (num * 128) + (c % 128)
       IN  CASE i = 0 /\ c = 128     -> [err |-> "tag", end |-> 0]
             [] c >= 128             -> HighTag(n, p + 1, i + 1, v, limit)
             [] c < 128 /\ v < 31    -> [err |-> "tag", end |-> 0]
             [] OTHER                -> [err |-> "", end |-> p + 1]

Header(p, limit, constructed, end, len, indef, ber) ==
  IF ~indef /\ len > limit - end THEN HeaderError("truncated")
  ELSE [err |-> "", tagEnd |-> p, hdrEnd |-> end, constructed |-> constructed,
        indefinite |-> indef, length |-> len, ber |-> ber]

\* A long form of k octets with the value v is BER when it is not minimal.
LongForm(p, limit, constructed, k, v) ==
  Header(p, limit, constructed, p + 1 + k, v, FALSE, k # berLenSize(v) - 1)

\* The length whose first octet, l, is at p.
LengthAt(n, p, l, limit, constructed) ==
  CASE l < 128                 -> Header(p, limit, constructed, p + 1, l, FALSE, FALSE)
    [] l = 128 /\ ~constructed -> HeaderError("indefinite")
    [] l = 128 /\ constructed  -> Header(p, limit, constructed, p + 1, 0, TRUE, TRUE)
    [] l = 255 \/ l % 128 > 4  -> HeaderError("length")
    [] p + 1 + (l % 128) > limit -> HeaderError("truncated")
    [] OTHER -> LongForm(p, limit, constructed, l % 128, LongLength(n, p + 1, l % 128, 0))

AfterTag(n, tag, limit, constructed) ==
  CASE tag.err # ""     -> HeaderError(tag.err)
    [] tag.end >= limit -> HeaderError("truncated")
    [] OTHER            -> LengthAt(n, tag.end, Byte(n, tag.end), limit, constructed)

header(n, off, limit) ==
  IF off >= limit THEN HeaderError("truncated")
  ELSE AfterTag(n, IF Byte(n, off) % 32 = 31 THEN HighTag(n, off + 1, 0, 0, limit)
                   ELSE [err |-> "", end |-> off + 1], limit, (Byte(n, off) \div 32) % 2 = 1)

(***************************************************************************)
(* The walk.  A result carries the normaliser, the offset after the        *)
(* element, the normalised length and, below a constructed BIT STRING, the *)
(* state of its segments (bitState).                                       *)
(***************************************************************************)
NoBits == [seen |-> FALSE, lastUnused |-> 0]

BerFailed(n, kind) == [err |-> kind, n |-> n, end |-> 0, len |-> 0, bs |-> NoBits]
Walked(n, end, len, bs) == [err |-> "", n |-> n, end |-> end, len |-> len, bs |-> bs]

Emit(n, bytes) == IF n.pass = "emit" THEN [n EXCEPT !.out = @ \o bytes] ELSE n

\* Whether a constructed element's content ends at p, and where the element
\* ends.
step(n, p, limit, indefinite) ==
  LET at(e, done, end) == [err |-> e, done |-> done, end |-> end] IN
  CASE p >= limit /\ indefinite   -> at("no end", FALSE, 0)
    [] p >= limit /\ ~indefinite  -> at("", TRUE, p)
    [] p < limit /\ Byte(n, p) # 0 -> at("", FALSE, 0)
    [] p + 1 = limit              -> at("truncated", FALSE, 0)
    [] Byte(n, p + 1) # 0 \/ ~indefinite -> at("eoc", FALSE, 0)
    [] OTHER                      -> at("", TRUE, p + 2)

\* The tag with its constructed bit cleared.
Base(tag) == ((tag \div 64) * 64) + (tag % 32)

\* What the emitting and the recording pass do at a constructed element
\* before its content.
OpenConstructed(n, tag, str, bitString) ==
  CASE n.pass = "emit" ->
         [n EXCEPT !.out = @ \o (IF str THEN <<Base(tag[1])>> ELSE tag)
                             \o appendBERLength(n.lens[n.nextLen])
                             \o (IF bitString THEN <<n.unused[n.nextUnused]>> ELSE <<>>),
                   !.nextLen = @ + 1,
                   !.nextUnused = IF bitString THEN @ + 1 ELSE @]
    [] n.pass = "record" ->
         [n EXCEPT !.lens = Append(@, 0),
                   !.unused = IF bitString THEN Append(@, 0) ELSE @]
    [] n.pass = "check" -> n

\* ... and the recording pass after it: the records of the element opened in
\* the state n0 are filled in.
CloseConstructed(n0, n, bitString, len, bs) ==
  IF n.pass # "record" THEN n
  ELSE [n EXCEPT !.lens[Len(n0.lens) + 1] = len,
                 !.unused = IF bitString THEN [@ EXCEPT ![Len(n0.unused) + 1] = bs.lastUnused] ELSE @]

\* A primitive segment of a constructed string of type base, its octets c.
PrimitiveSegment(n, h, c, base, bs) ==
  IF base # 3 THEN Walked(Emit(n, c), h.hdrEnd + h.length, Len(c), bs)
  ELSE IF Len(c) = 0 \/ (Len(c) > 0 /\ c[1] > 7) \/ (Len(c) = 1 /\ c[1] # 0)
          \/ (bs.seen /\ bs.lastUnused # 0)
       THEN BerFailed(n, "bits")
       ELSE Walked(Emit(n, Tail(c)), h.hdrEnd + h.length, Len(c) - 1,
                   [seen |-> TRUE, lastUnused |-> c[1]])

Content(n, h) == Bytes(n, h.hdrEnd, h.hdrEnd + h.length)
ContentLimit(h, limit) == IF h.indefinite THEN limit ELSE h.hdrEnd + h.length

RECURSIVE element(_, _, _, _), segment(_, _, _, _, _, _), BerContent(_, _, _, _, _, _, _, _, _)

\* The content loop of element and of segment: the children from p to the end
\* of the content, each a segment of a string of type base when str.
BerContent(n, p, limit, depth, indefinite, str, base, len, bs) ==
  LET child(r) == IF r.err # "" THEN r
                  ELSE BerContent(r.n, r.end, limit, depth, indefinite, str, base, len + r.len,
                                  IF str THEN r.bs ELSE bs)
      at(s) == CASE s.err # "" -> BerFailed(n, s.err)
                 [] s.done     -> Walked(n, s.end, len, bs)
                 [] OTHER      -> child(IF str THEN segment(n, p, limit, depth + 1, base, bs)
                                        ELSE element(n, p, limit, depth + 1))
  IN  at(step(n, p, limit, indefinite))

segment(n, off, limit, depth, base, bs) ==
  LET segBase == Base(Byte(n, off))
      of(h, m) ==
        CASE h.err # ""    -> BerFailed(n, h.err)
          [] ~h.constructed -> PrimitiveSegment(m, h, Content(n, h), base, bs)
          [] OTHER -> BerContent(m, h.hdrEnd, ContentLimit(h, limit), depth, h.indefinite, TRUE, segBase, 0, bs)
      headed(h) == of(h, [n EXCEPT !.ber = @ \/ h.ber])
  IN  CASE depth > maxBERDepth -> BerFailed(n, "depth")
        [] segBase # base /\ (base \in {3, 4} \/ segBase # 4) -> BerFailed(n, "segment")
        [] OTHER -> headed(header(n, off, limit))

\* The size of an element with the tag octets tag.
Sized(tag, len) == Len(tag) + berLenSize(len) + len

PrimitiveElement(n, h, tag, c) ==
  Walked(Emit(n, tag \o appendBERLength(Len(c)) \o c), h.hdrEnd + h.length, Sized(tag, Len(c)), NoBits)

\* The element opened in the state m, after its content.
ElementEnds(m, tag, bitString, kids) ==
  IF kids.err # "" THEN kids
  ELSE Walked(CloseConstructed(m, kids.n, bitString, kids.len, kids.bs), kids.end,
              Sized(tag, kids.len), NoBits)

element(n, off, limit, depth) ==
  LET constructed(m, h, tag, str, bitString) ==
        ElementEnds(m, tag, bitString,
          BerContent(OpenConstructed(m, tag, str, bitString), h.hdrEnd, ContentLimit(h, limit), depth,
                     h.indefinite, str, IF str THEN Base(tag[1]) ELSE 0, IF bitString THEN 1 ELSE 0, NoBits))
      of(h, tag, str) ==
        IF ~h.constructed THEN PrimitiveElement([n EXCEPT !.ber = @ \/ h.ber], h, tag, Content(n, h))
        ELSE constructed([n EXCEPT !.ber = @ \/ h.ber \/ str], h, tag, str, str /\ Base(tag[1]) = 3)
      tagged(h, tag) == of(h, tag, Len(tag) = 1 /\ tag[1] < 64 /\ isBERStringTag(Base(tag[1])))
      headed(h) == IF h.err # "" THEN BerFailed(n, h.err) ELSE tagged(h, Bytes(n, off, h.tagEnd))
  IN  CASE off < limit /\ Byte(n, off) = 0 -> BerFailed(n, "eoc")
        [] depth > maxBERDepth -> BerFailed(n, "depth")
        [] OTHER -> headed(header(n, off, limit))

(***************************************************************************)
(* The whole call: check, and for a BER input record and emit.             *)
(***************************************************************************)
Refused(kind) == [err |-> kind, der |-> <<>>, isBER |-> FALSE, end |-> 0, tail |-> 0, total |-> 0]

\* From the first byte after the element through the last non-zero byte.
TailCount(in, end) ==
  LET junk == {i \in end..(Len(in) - 1) : in[i + 1] # 0}
  IN  IF junk = {} THEN 0 ELSE (CHOOSE i \in junk : \A j \in junk : j <= i) - end + 1

\* One pass over the input.
Pass(n, pass) == element([n EXCEPT !.pass = pass], 0, Len(n.in), 1)

Accepted(in, der, isBER, end, total) ==
  [err |-> "", der |-> der, isBER |-> isBER, end |-> end, tail |-> TailCount(in, end), total |-> total]

normalizeBER(in) ==
  LET emitted(end, total, e) ==
        IF e.err # "" THEN Refused(e.err) ELSE Accepted(in, e.n.out, TRUE, end, total)
      recorded(end, r) ==
        IF r.err # "" THEN Refused(r.err) ELSE emitted(end, r.len, Pass(r.n, "emit"))
      checked(c) ==
        CASE c.err # "" -> Refused(c.err)
          [] ~c.n.ber   -> Accepted(in, SubSeq(in, 1, c.end), FALSE, c.end, c.end)
          [] OTHER      -> recorded(c.end, Pass(c.n, "record"))
  IN  checked(Pass(Normalizer(in), "check"))

(***************************************************************************)
(* Reference: an element as a tree, each node with the length form it is   *)
(* written in ("min", "long1" and "long2": one or two length octets more   *)
(* than needed, "indef"), and the definition of its normal form.           *)
(***************************************************************************)
Flatten(seqs) == LET RECURSIVE F(_) F(i) == IF i > Len(seqs) THEN <<>> ELSE seqs[i] \o F(i + 1) IN F(1)

Constructed(t) == (t.tag \div 32) % 2 = 1

LengthIn(form, len) ==
  CASE form = "min"   -> appendBERLength(len)
    [] form = "long1" -> <<129, len>>
    [] form = "long2" -> <<130, len \div 256, len % 256>>
    [] form = "indef" -> <<128>>

RECURSIVE Encode(_)
Encode(t) ==
  LET body == IF Constructed(t) THEN Flatten([i \in DOMAIN t.kids |-> Encode(t.kids[i])]) ELSE t.bytes
  IN  <<t.tag>> \o LengthIn(t.form, Len(body)) \o body \o (IF t.form = "indef" THEN <<0, 0>> ELSE <<>>)

IsString(t) == Constructed(t) /\ t.tag < 64 /\ isBERStringTag(Base(t.tag))

\* The contents of the primitive segments below t, in order.
RECURSIVE BerLeaves(_)
BerLeaves(t) == IF Constructed(t) THEN Flatten([i \in DOMAIN t.kids |-> BerLeaves(t.kids[i])]) ELSE <<t.bytes>>

RECURSIVE DER(_)
DER(t) ==
  LET leaves == BerLeaves(t)
      bits   == Base(t.tag) = 3
      text   == Flatten([i \in DOMAIN leaves |-> IF bits THEN Tail(leaves[i]) ELSE leaves[i]])
      unused == IF leaves = <<>> THEN 0 ELSE leaves[Len(leaves)][1]
      body   == CASE IsString(t) -> (IF bits THEN <<unused>> ELSE <<>>) \o text
                  [] Constructed(t) /\ ~IsString(t) -> Flatten([i \in DOMAIN t.kids |-> DER(t.kids[i])])
                  [] OTHER -> t.bytes
  IN  <<IF IsString(t) THEN Base(t.tag) ELSE t.tag>> \o appendBERLength(Len(body)) \o body

\* X.690: segments of the string's type (or OCTET STRINGs in a character
\* string), unused bits only in the last segment of a BIT STRING.
RECURSIVE SegmentsOK(_)
SegmentsOK(t) ==
  \A i \in DOMAIN t.kids :
    /\ \/ Base(t.kids[i].tag) = Base(t.tag)
       \/ Base(t.tag) \notin {3, 4} /\ Base(t.kids[i].tag) = 4
    /\ Constructed(t.kids[i]) => SegmentsOK(t.kids[i])

BitsOK(leaves) ==
  \A i \in DOMAIN leaves :
    /\ leaves[i] # <<>> /\ leaves[i][1] <= 7
    /\ (Len(leaves[i]) = 1 \/ i < Len(leaves)) => leaves[i][1] = 0

RECURSIVE Legal(_), Height(_)
Height(t) == IF Constructed(t) /\ t.kids # <<>>
             THEN 1 + (CHOOSE h \in {Height(t.kids[i]) : i \in DOMAIN t.kids} :
                         \A i \in DOMAIN t.kids : Height(t.kids[i]) <= h)
             ELSE 1
Legal(t) == CASE IsString(t) -> SegmentsOK(t) /\ (Base(t.tag) = 3 => BitsOK(BerLeaves(t)))
              [] Constructed(t) /\ ~IsString(t) -> \A i \in DOMAIN t.kids : Legal(t.kids[i])
              [] OTHER -> TRUE

\* A well-formed element is re-encoded to its normal form whatever length
\* forms it uses and whatever padding follows it, its end and the bytes
\* after it are located exactly, and the form is reported; an ill-formed one
\* is refused.
TreeRight(t, padding) ==
  LET enc == Encode(t)
      right(r, der) ==
        IF Legal(t) /\ Height(t) <= maxBERDepth
        THEN /\ r.err = "" /\ r.der = der /\ r.end = Len(enc)
             /\ r.isBER = (enc # der) /\ r.total = Len(r.der)
             /\ r.tail = TailCount(padding, 0)
        ELSE r.err # ""
  IN  right(normalizeBER(enc \o padding), DER(t))

\* Whatever bytes are accepted, the answer is in normal form: a second call
\* finds nothing to rewrite.
CanonicalOnce(in) ==
  LET same(r, again) == again.err = "" /\ ~again.isBER /\ again.der = r.der /\ again.end = Len(r.der)
      accepted(r) == r.err = "" => same(r, normalizeBER(r.der))
  IN  accepted(normalizeBER(in))
=============================================================================
