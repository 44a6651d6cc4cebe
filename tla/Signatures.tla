----------------------------- MODULE Signatures -----------------------------
(***************************************************************************)
(* GetSignatures and GetSignatureBytes (src/internal/pdfcore/signature.go):*)
(* the fields the walk of the field tree finds (FieldTree) one after the   *)
(* other, the decomposition of a signature dictionary, the measurement of  *)
(* its /ByteRange, and the check that the hole of the /ByteRange is the    *)
(* /Contents string, which reads the file on disk while other programs may *)
(* change, replace, remove or lock it (src/internal/pdfcore/filechange.go).*)
(*                                                                         *)
(* A document is a record with the file size at open.  A signature         *)
(* dictionary keeps of each entry what the code tells apart.  int64        *)
(* arithmetic wraps at IntHalf.                                            *)
(***************************************************************************)
EXTENDS Integers, Sequences, SequencesExt, FiniteSets, Lists

CONSTANTS SignedDocs,          \* the documents
          SigFields,           \* the terminal signature fields of each, in document order
          maxHoleProbeBytes,   \* 4 MiB in the code
          IntHalf,             \* 2^63 in the code
          MaxDiskEvents        \* bound on what other programs do to the file

ASSUME SignatureAssumption ==
  /\ maxHoleProbeBytes \in Nat /\ MaxDiskEvents \in Nat /\ IntHalf \in Nat \ {0}
  /\ \A d \in SignedDocs : d.size \in Nat /\ 2 * d.size < IntHalf

\* What a /V is: of a dictionary, its /ByteRange and what was read of its other entries.
SigValue(v) ==
  /\ v.dict \in BOOLEAN
  /\ v.dict => /\ v.range.is # "none" /\ v.range.ints \in Seq(Int)
               /\ v.hex \in BOOLEAN /\ v.match \in BOOLEAN /\ v.contents.readable \in BOOLEAN
               /\ v.contents.certs \in Seq(ToSet(v.contents.certs)) /\ v.cert \in Seq(ToSet(v.cert))

ASSUME SigFieldsAssumption ==
  \A d \in SignedDocs :
    /\ SigFields[d] \in Seq(ToSet(SigFields[d]))
    /\ \A i \in DOMAIN SigFields[d] : SigValue(SigFields[d][i].V)

VARIABLES sigDoc,     \* the open document
          todo,       \* terminal signature fields not yet built
          sigs,       \* the list being built (SignatureList)
          sink,       \* the export bytes, index-aligned with sigs
          refused,    \* holeRead.refused: "none", "changed" or "busy"
          reading,    \* where the hole check of Head(todo) is
          disk        \* what is at the document's path

sigVars == <<sigDoc, todo, sigs, sink, refused, reading, disk>>

Wrap(i) == ((i + IntHalf) % (2 * IntHalf)) - IntHalf

(***************************************************************************)
(* One signature dictionary.                                               *)
(***************************************************************************)
IsCMSSubFilter(sub) == sub \in {"adbe.pkcs7", "ETSI.CAdES", "ETSI.RFC3161"}

\* The certificate the SignerInfo names, as a sequence of at most one.
matchSignerCert(sid, certs) ==
  LET hits == {k \in DOMAIN certs :
                 \/ sid.kind = "issuerSerial" /\ certs[k].issuer = sid.issuer /\ certs[k].serial = sid.serial
                 \/ sid.kind = "keyId" /\ certs[k].ski # "none" /\ certs[k].ski = sid.ski}
  IN  IF hits = {} THEN <<>> ELSE <<certs[CHOOSE k \in hits : \A l \in hits : k <= l]>>

Decomposed == [err |-> "none", encoding |-> "none", certs |-> <<>>, signer |-> <<>>, trailing |-> FALSE]
NoExport == [cms |-> "none", undelimited |-> FALSE, certs |-> <<>>]

\* What normalizeBER and the ASN.1 decoder say of a readable /Contents:
\* parse is "undelimited", "notSignedData" or "signedData".
parseCMSSignedData(c) ==
  [encoding |-> IF c.parse = "undelimited" THEN "none" ELSE c.encoding,
   trailing |-> c.parse # "undelimited" /\ c.trailing,
   ok       |-> c.parse = "signedData"]

decomposeCMS(sig) ==
  LET c    == sig.contents
      res  == parseCMSSignedData(c)
      cms  == [NoExport EXCEPT !.cms = IF res.encoding = "none" THEN "all" ELSE "element",
                               !.undelimited = res.encoding = "none"]
      f    == [Decomposed EXCEPT !.encoding = res.encoding, !.trailing = res.trailing]
      full == [f EXCEPT !.certs = c.certs,
                        !.signer = IF c.signers = <<>> THEN <<>>
                                   ELSE matchSignerCert(c.signers[1], c.certs)]
  IN  IF ~c.readable THEN [field |-> [Decomposed EXCEPT !.err = "unreadable"], bytes |-> NoExport]
      ELSE IF ~res.ok THEN [field |-> [f EXCEPT !.err = "cms"], bytes |-> cms]
      ELSE IF ~c.certsOK THEN [field |-> [f EXCEPT !.err = "certs"], bytes |-> cms]
      ELSE [field |-> full, bytes |-> [cms EXCEPT !.certs = c.certs]]

\* adbe.x509.rsa_sha1: the chain is in /Cert, the first readable one signs.
decomposeCertEntry(sig) ==
  LET certs == Picked(sig.cert, {k \in DOMAIN sig.cert : sig.cert[k].issuer # "unreadable"})
  IN  [field |-> IF certs = <<>> THEN [Decomposed EXCEPT !.err = "no cert"]
                 ELSE [Decomposed EXCEPT !.certs = certs, !.signer = <<certs[1]>>],
       bytes |-> [NoExport EXCEPT !.certs = certs]]

Decompose(sig) ==
  IF IsCMSSubFilter(sig.sub) THEN decomposeCMS(sig)
  ELSE IF sig.sub = "adbe.x509.rsa_sha1" THEN decomposeCertEntry(sig)
  ELSE [field |-> Decomposed, bytes |-> NoExport]

(***************************************************************************)
(* The /ByteRange: is it there, is it an array, has it an entry that is no *)
(* integer, and its integers.                                              *)
(***************************************************************************)
Coverage(err) == [err |-> err, gap |-> 0, whole |-> FALSE, from |-> 0, to |-> 0]

computeByteRangeCoverage(range, size) ==
  LET br        == range.ints
      holeStart == Wrap(br[1] + br[2])
      end2      == Wrap(br[3] + br[4])
      gap       == Wrap(size - end2)
  IN  IF range.is # "integers" THEN Coverage(range.is)
      ELSE IF Len(br) # 4 THEN Coverage(IF Len(br) % 2 = 1 THEN "odd" ELSE "not four")
      ELSE IF \E i \in DOMAIN br : br[i] < 0 \/ br[i] > size THEN Coverage("out of range")
      ELSE IF holeStart > size \/ end2 > size THEN Coverage("past the end")
      ELSE IF br[3] < holeStart THEN Coverage("overlap")
      ELSE [err |-> "none", gap |-> gap, whole |-> br[1] = 0 /\ gap = 0, from |-> holeStart, to |-> br[3]]

\* Whether the hole check gets as far as the file.
NeedsRead(sig, cov) ==
  cov.err = "none" /\ sig.hex /\ cov.to > cov.from /\ cov.to - cov.from <= maxHoleProbeBytes

(***************************************************************************)
(* The file at the path.  Inode 1 is the file that was opened; ver[1] = 0  *)
(* while its size and times are those of the fingerprint.                  *)
(***************************************************************************)
Matches(inode) == inode = 1 /\ disk.ver = 0

SigInit ==
  /\ sigDoc \in SignedDocs
  /\ todo = SigFields[sigDoc]
  /\ sigs = <<>> /\ sink = <<>> /\ refused = "none"
  /\ reading = [at |-> "idle", match |-> FALSE]
  /\ disk = [path |-> 1, ver |-> 0, locked |-> FALSE, events |-> 0]

\* holeErr "other" (any other read failure) is shown as no note at all.
Listed(v, cov, hole, holeErr) ==
  IF ~v.dict THEN [signed |-> FALSE]
  ELSE [signed |-> TRUE, coverage |-> cov, hole |-> hole, holeErr |-> holeErr,
        field |-> Decompose(v).field]

\* The rest of buildSignatureField once the hole check of the first field has
\* answered.
FieldDone(hole, holeErr) ==
  LET v   == Head(todo).V
      cov == IF v.dict THEN computeByteRangeCoverage(v.range, sigDoc.size) ELSE Coverage("none")
  IN  /\ sigs' = Append(sigs, Listed(v, cov, hole, holeErr))
      /\ sink' = Append(sink, IF v.dict THEN Decompose(v).bytes ELSE NoExport)
      /\ todo' = Tail(todo)
      /\ reading' = [at |-> "idle", match |-> FALSE]

\* buildSignatureField up to the file: an unsigned field, a /ByteRange or a
\* /Contents that rules the read out, or a read refused before, is finished
\* here.
buildSignatureField ==
  /\ reading.at = "idle" /\ todo # <<>>
  /\ LET v   == Head(todo).V
         cov == computeByteRangeCoverage(v.range, sigDoc.size)
     IN  \/ ~v.dict /\ FieldDone(FALSE, "none")
         \/ v.dict /\ ~NeedsRead(v, cov) /\ FieldDone(FALSE, "none")
         \/ /\ v.dict /\ NeedsRead(v, cov)
            /\ IF refused # "none" THEN FieldDone(FALSE, refused)
               ELSE reading' = [at |-> "open", match |-> FALSE] /\ UNCHANGED <<sigs, sink, todo>>
  /\ UNCHANGED <<sigDoc, refused, disk>>

Refuse(kind) == refused' = kind /\ FieldDone(FALSE, kind)

\* readFileSpan: the open handle must match the fingerprint.
openVerified ==
  /\ reading.at = "open"
  /\ \/ disk.path = 0 /\ Refuse("changed")
     \/ disk.path # 0 /\ disk.locked /\ Refuse("busy")
     \/ disk.path # 0 /\ ~disk.locked /\ ~Matches(disk.path) /\ Refuse("changed")
     \/ /\ disk.path # 0 /\ ~disk.locked /\ Matches(disk.path)
        /\ reading' = [reading EXCEPT !.at = "read"]
        /\ UNCHANGED <<refused, sigs, sink, todo>>
     \/ disk.path # 0 /\ ~disk.locked /\ FieldDone(FALSE, "other") /\ UNCHANGED refused
  /\ UNCHANGED <<sigDoc, disk>>

\* ... the read through it, of whatever the inode holds by then ...
readFileSpan ==
  /\ reading.at = "read"
  /\ \/ disk.locked /\ Refuse("busy")
     \/ ~disk.locked /\ FieldDone(FALSE, "other") /\ UNCHANGED refused
     \/ /\ ~disk.locked
        /\ \E m \in BOOLEAN : /\ disk.ver = 0 => m = Head(todo).V.match
                              /\ reading' = [at |-> "verify", match |-> m]
        /\ UNCHANGED <<refused, sigs, sink, todo>>
  /\ UNCHANGED <<sigDoc, disk>>

\* Fault: the handle is only checked when it is opened.
verifyHandleOnce ==
  /\ reading.at = "verify"
  /\ FieldDone(reading.match, "none")
  /\ UNCHANGED <<sigDoc, disk, refused>>

\* ... and the handle is checked again before the bytes are believed.
verifyHandle ==
  /\ reading.at = "verify"
  /\ \/ ~Matches(1) /\ Refuse("changed")
     \/ Matches(1) /\ FieldDone(reading.match, "none") /\ UNCHANGED refused
  /\ UNCHANGED <<sigDoc, disk>>

\* Another program writes the file in place, replaces it, removes it, puts
\* the old one back, or takes or drops a lock.
DiskEvent ==
  /\ todo # <<>> /\ disk.events < MaxDiskEvents
  /\ \E d \in {[disk EXCEPT !.ver = 1], [disk EXCEPT !.path = 2], [disk EXCEPT !.path = 0],
               [disk EXCEPT !.path = 1], [disk EXCEPT !.locked = ~@]} :
        disk' = [d EXCEPT !.events = @ + 1]
  /\ UNCHANGED <<sigDoc, todo, sigs, sink, refused, reading>>

SigReturned == todo = <<>> /\ UNCHANGED sigVars

SigNext == buildSignatureField \/ openVerified \/ readFileSpan \/ verifyHandle \/ DiskEvent \/ SigReturned

SigSpec == SigInit /\ [][SigNext]_sigVars

(***************************************************************************)
(* Properties.                                                             *)
(***************************************************************************)
Fields == SigFields[sigDoc]

\* The verdict on a hole is the one the opened file deserves: it is never
\* taken from bytes another program wrote meanwhile, and a missing verdict
\* without a note means the hole really does not match (or the read failed
\* for a reason of its own).
HoleVerdicts ==
  \A i \in DOMAIN sigs : sigs[i].signed =>
    LET v == Fields[i].V IN
    /\ sigs[i].hole => v.match /\ sigs[i].coverage.err = "none"
    /\ sigs[i].holeErr = "none" /\ NeedsRead(v, sigs[i].coverage) => sigs[i].hole = v.match

\* Once a read was refused every later hole that would need one carries the
\* same note.
RefusalSticks ==
  \A i, j \in DOMAIN sigs :
    (i < j /\ sigs[i].signed /\ sigs[j].signed /\ sigs[i].holeErr \in {"changed", "busy"}
       /\ NeedsRead(Fields[j].V, sigs[j].coverage))
    => sigs[j].holeErr = sigs[i].holeErr

\* What is exported at an index belongs to the field listed there: the same
\* certificates in the same order, and CMS bytes exactly for a readable CMS.
ExportsAligned ==
  /\ Len(sink) = Len(sigs) /\ Len(sigs) + Len(todo) = Len(Fields)
  /\ \A i \in DOMAIN sigs :
       IF ~sigs[i].signed THEN sink[i] = NoExport
       ELSE LET v == Fields[i].V IN
            /\ sink[i].certs = sigs[i].field.certs
            /\ (sink[i].cms # "none") <=> (IsCMSSubFilter(v.sub) /\ v.contents.readable)
            /\ sink[i].undelimited <=> (sink[i].cms # "none" /\ sigs[i].field.encoding = "none")
            /\ \A n \in DOMAIN sigs[i].field.signer :
                 \E k \in DOMAIN sigs[i].field.certs : sigs[i].field.certs[k] = sigs[i].field.signer[n]

\* The coverage against its definition on sets of bytes, in unbounded
\* integers: no wrap of a sum makes a range look as if it lay in the file.
CoverageIsRight ==
  \A i \in DOMAIN sigs : sigs[i].signed =>
    LET br  == Fields[i].V.range.ints
        cov == sigs[i].coverage
        in  == Fields[i].V.range.is = "integers" /\ Len(br) = 4 /\ \A k \in DOMAIN br : br[k] \in Nat
        bytes == (br[1]..(br[1] + br[2] - 1)) \cup (br[3]..(br[3] + br[4] - 1))
        file  == 0..(sigDoc.size - 1)
    IN  /\ cov.err = "none" <=> /\ in
                                /\ {br[1], br[1] + br[2], br[3], br[3] + br[4]} \subseteq 0..sigDoc.size
                                /\ br[1] + br[2] <= br[3]
        /\ cov.err = "none" => /\ bytes \subseteq file
                               /\ (cov.from..(cov.to - 1)) \cap bytes = {}
                               /\ cov.gap = Cardinality({b \in file : b >= br[3] + br[4]})
                               /\ cov.whole <=> (file \subseteq bytes \cup (cov.from..(cov.to - 1)))

\* What GetSignatures and GetSignatureBytes promise, whatever happens to the
\* file while they run: coverage measured in whole numbers, hole verdicts only
\* from verified bytes, one refusal for the rest of the walk, exports aligned
\* with the list.
SignaturesAreRight == HoleVerdicts /\ RefusalSticks /\ ExportsAligned /\ CoverageIsRight
=============================================================================
