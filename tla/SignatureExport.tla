--------------------------- MODULE SignatureExport ---------------------------
(***************************************************************************)
(* What --export-cms and --export-certs write                              *)
(* (src/cmd/cli/cmd_signatures_export.go), on a small file system.         *)
(*                                                                         *)
(* A path is [dir, stem, sp]: a directory name, a file name and its        *)
(* spelling.  Stems are triples: <<"cert", i, m>> is sigi-certm.der,       *)
(* <<"dir", d, 0>> the last name of directory d and <<"other", k, 0>> any  *)
(* other name.  A file system is                                           *)
(*   [cased, dirs, entries, data]                                          *)
(* where cased is FALSE when letter case is ignored, dirs maps the names   *)
(* of the directories that exist to the directories they lead to, entries  *)
(* maps names in a directory to files (two names of one file are links)    *)
(* and data is the files' contents.  Dangling links are left out.  A       *)
(* signature is                                                            *)
(*   [name, signed, cmsFilter, cms, certs]                                 *)
(* cms telling whether its bytes could be read and certs how many          *)
(* certificates it holds; a request is [fs, input, cms, certs, field,      *)
(* sigs] with NoPath, NoDir and NoField for a flag that is not given.      *)
(***************************************************************************)
EXTENDS Naturals, Sequences, FiniteSets

CONSTANT ExportRequests

VARIABLES
  exRequest,  \* the command line, the signatures read and the disk as it was
  exDisk,     \* the file system
  exStep,     \* the step of runSignatureExports that comes next
  exWritten,  \* the files written so far
  exCode      \* what the export returned, NoExit before that

exVars == <<exRequest, exDisk, exStep, exWritten, exCode>>

NoPath == [dir |-> 0, stem |-> <<"other", 0, 0>>, sp |-> 0]
NoDir == 0
NoField == "not given"
NoExit == 3

Missing == <<"missing", 0>>
Unreadable == <<"none", 0, 0>>
PdfData == <<"pdf", 0, 0>>
PartOfIt == <<"part", 0, 0>>   \* what a write that failed may leave
Contents == {"pdf", "cms", "cert", "part", "old"} \X Nat \X Nat

DirPath(d) == [dir |-> 1, stem |-> <<"dir", d, 0>>, sp |-> 1]
CertPath(d, i, m) == [dir |-> d, stem |-> <<"cert", i, m>>, sp |-> 1]

----------------------------------------------------------------------------
(* The file system.                                                        *)

IsDirectory(fs, p) == p.stem[1] = "dir" /\ p.stem[2] \in DOMAIN fs.dirs

Entry(fs, p) == [dir |-> fs.dirs[p.dir], stem |-> p.stem, sp |-> IF fs.cased THEN p.sp ELSE 1]

\* os.Stat: the file or directory a path leads to.
Stat(fs, p) ==
  IF IsDirectory(fs, p) THEN <<"dir", fs.dirs[p.stem[2]]>>
  ELSE IF p.dir \in DOMAIN fs.dirs /\ Entry(fs, p) \in DOMAIN fs.entries
  THEN <<"file", fs.entries[Entry(fs, p)]>>
  ELSE Missing

Read(fs, p) == IF Stat(fs, p)[1] = "file" THEN fs.data[Stat(fs, p)[2]] ELSE Unreadable

Writable(fs, p) == ~IsDirectory(fs, p) /\ p.dir \in DOMAIN fs.dirs

\* os.WriteFile: an existing file is written in place.
WriteFile(fs, p, what) ==
  LET file == IF Stat(fs, p) = Missing THEN Len(fs.data) + 1 ELSE Stat(fs, p)[2]
  IN  [cased |-> fs.cased, dirs |-> fs.dirs,
       entries |-> [e \in DOMAIN fs.entries \cup {Entry(fs, p)} |->
                      IF e = Entry(fs, p) THEN file ELSE fs.entries[e]],
       data |-> IF file > Len(fs.data) THEN Append(fs.data, what)
                ELSE [fs.data EXCEPT ![file] = what]]

MkdirAll(fs, d) ==
  [cased |-> fs.cased, entries |-> fs.entries, data |-> fs.data,
   dirs |-> [x \in DOMAIN fs.dirs \cup {d} |-> IF x \in DOMAIN fs.dirs THEN fs.dirs[x] ELSE d]]

\* A directory is known by one of its own names and files lie in directories.
DiskOK(fs) ==
  /\ fs.data \in Seq(Contents)
  /\ \A x \in DOMAIN fs.dirs : fs.dirs[x] \in DOMAIN fs.dirs
  /\ \A e \in DOMAIN fs.entries :
       /\ fs.entries[e] \in 1..Len(fs.data)
       /\ e.dir \in DOMAIN fs.dirs

FieldsRead == [name : STRING, signed : BOOLEAN, cmsFilter : BOOLEAN, cms : BOOLEAN, certs : Nat]

\* The document that was opened is a file on the disk, and no file has the
\* name of a directory.
RequestOK(req) ==
  /\ DiskOK(req.fs)
  /\ \A e \in DOMAIN req.fs.entries : e.stem[1] # "dir"
  /\ Read(req.fs, req.input) = PdfData
  /\ req.sigs \in Seq(FieldsRead)

ASSUME ExportAssumption == \A req \in ExportRequests : RequestOK(req)

----------------------------------------------------------------------------
(* Selecting the fields; {} stands for the error.                          *)

resolveSignatureField(sigs, field) ==
  LET matches == {i \in DOMAIN sigs : sigs[i].name = field}
  IN  {i \in matches : Cardinality(matches) = 1 /\ sigs[i].signed}

selectCMSExport(sigs, field) ==
  LET cands == IF field # NoField THEN resolveSignatureField(sigs, field)
               ELSE {i \in DOMAIN sigs : sigs[i].signed}
      cms   == {i \in cands : sigs[i].cmsFilter}
  IN  IF Cardinality(cms) = 1 THEN cms ELSE {}

selectCertsExport(sigs, field) ==
  IF field # NoField THEN resolveSignatureField(sigs, field)
  ELSE {i \in DOMAIN sigs : sigs[i].signed}

\* The files to write, [path, data] with what each must hold.
cmsFiles(req) ==
  {[path |-> req.cms, data |-> <<"cms", i, 0>>] :
     i \in IF req.cms = NoPath THEN {} ELSE selectCMSExport(req.sigs, req.field)}

certFiles(req) ==
  UNION {{[path |-> CertPath(req.certs, i, m), data |-> <<"cert", i, m>>] : m \in 1..req.sigs[i].certs} :
           i \in IF req.certs = NoDir THEN {} ELSE selectCertsExport(req.sigs, req.field)}

exportFiles(req) == cmsFiles(req) \cup certFiles(req)

\* The CMS file is written first, then the certificates in order.
Before(f, g) ==
  \/ f.data[1] = "cms" /\ g.data[1] = "cert"
  \/ /\ f.data[1] = "cert" /\ g.data[1] = "cert"
     /\ f.data[2] < g.data[2] \/ (f.data[2] = g.data[2] /\ f.data[3] < g.data[3])

SelectionFails(req) ==
  \/ req.cms # NoPath /\ cmsFiles(req) = {}
  \/ \E f \in cmsFiles(req) : ~req.sigs[f.data[2]].cms
  \/ req.certs # NoDir /\ certFiles(req) = {}

\* Fault: two paths are the same only when they are spelled alike.
samePathBySpelling(fs, a, b) == a = b

samePath(fs, a, b) ==
  IF Stat(fs, a) # Missing \/ Stat(fs, b) # Missing
  THEN Stat(fs, a) = Stat(fs, b)
  ELSE /\ a.stem = b.stem
       /\ a.dir \in DOMAIN fs.dirs /\ b.dir \in DOMAIN fs.dirs
       /\ fs.dirs[a.dir] = fs.dirs[b.dir]

PathsClash(fs, req) ==
  \/ \E f \in exportFiles(req) : samePath(fs, f.path, req.input)
  \/ cmsFiles(req) # {} /\ certFiles(req) # {} /\ samePath(fs, req.cms, DirPath(req.certs))
  \/ cmsFiles(req) # {} /\ \E f \in certFiles(req) : samePath(fs, f.path, req.cms)

----------------------------------------------------------------------------
(* runSignatureExports.                                                    *)

ExInit ==
  /\ exRequest \in ExportRequests
  /\ exDisk = exRequest.fs
  /\ exStep = "select"
  /\ exWritten = {}
  /\ exCode = NoExit

ExReturn(c) == exStep' = "end" /\ exCode' = c /\ UNCHANGED <<exRequest, exWritten>>

ExGoOn(step) == exStep' = step /\ UNCHANGED <<exRequest, exWritten, exCode>>

ExSelects ==
  /\ exStep = "select"
  /\ IF SelectionFails(exRequest) THEN ExReturn(2)
     ELSE ExGoOn(IF certFiles(exRequest) # {} THEN "mkdir" ELSE "paths")
  /\ UNCHANGED exDisk

ExMakesDirectory ==
  /\ exStep = "mkdir"
  /\ exDisk' = MkdirAll(exDisk, exRequest.certs)
  /\ ExGoOn("paths")

ExCannotMakeDirectory ==
  /\ exStep = "mkdir"
  /\ exRequest.certs \notin DOMAIN exDisk.dirs
  /\ ExReturn(2)
  /\ UNCHANGED exDisk

ExComparesPaths ==
  /\ exStep = "paths"
  /\ IF PathsClash(exDisk, exRequest) THEN ExReturn(2) ELSE ExGoOn("write")
  /\ UNCHANGED exDisk

\* f is the next file to write.
ExNextFile(f) ==
  /\ exStep = "write"
  /\ f \in exportFiles(exRequest) \ exWritten
  /\ \A g \in exportFiles(exRequest) \ exWritten : ~Before(g, f)

ExWrites ==
  \E f \in exportFiles(exRequest) :
    /\ ExNextFile(f)
    /\ Writable(exDisk, f.path)
    /\ exDisk' = WriteFile(exDisk, f.path, f.data)
    /\ exWritten' = exWritten \cup {f}
    /\ UNCHANGED <<exRequest, exStep, exCode>>

\* A write that fails leaves the file as it was, or cut short.
ExCannotWrite ==
  \E f \in exportFiles(exRequest) :
    /\ ExNextFile(f)
    /\ \/ UNCHANGED exDisk
       \/ Writable(exDisk, f.path) /\ exDisk' = WriteFile(exDisk, f.path, PartOfIt)
    /\ ExReturn(2)

ExSucceeds ==
  /\ exStep = "write"
  /\ exWritten = exportFiles(exRequest)
  /\ ExReturn(0)
  /\ UNCHANGED exDisk

ExNext ==
  \/ ExSelects \/ ExMakesDirectory \/ ExCannotMakeDirectory \/ ExComparesPaths
  \/ ExWrites \/ ExCannotWrite \/ ExSucceeds

ExSpec == ExInit /\ [][ExNext]_exVars

----------------------------------------------------------------------------
(* What an export promises.                                                *)

\* The signed fields the request is about.
Chosen(req) ==
  {i \in DOMAIN req.sigs : req.sigs[i].signed /\ req.field \in {NoField, req.sigs[i].name}}

\* No two certificate files of the request are links to one file.
Unlinked(fs, req) ==
  \A f, g \in certFiles(req) :
    f # g /\ Stat(fs, f.path) = Stat(fs, g.path) => Stat(fs, f.path) = Missing

\* Whatever the paths are called, the input PDF is as it was.
InputKept == Read(exDisk, exRequest.input) = PdfData

\* What was written is there to be read: no export has overwritten another.
\* samePath is not asked about two certificate files, so those must not have
\* been links to one file before.
NoneOverwritten ==
  \A f \in exWritten :
    f \in cmsFiles(exRequest) \/ Unlinked(exRequest.fs, exRequest) => Read(exDisk, f.path) = f.data

\* Only the signed fields asked for are written.
OnlyChosenWritten == \A f \in exWritten : f.data[2] \in Chosen(exRequest)

\* Exit 0 means that everything asked for is there: the CMS of the only
\* candidate, every certificate of every field chosen.
ExitZeroIsComplete ==
  exCode = 0 =>
    /\ exRequest.cms # NoPath =>
         \E i \in DOMAIN exRequest.sigs :
           /\ {j \in Chosen(exRequest) : exRequest.sigs[j].cmsFilter} = {i}
           /\ Read(exDisk, exRequest.cms) = <<"cms", i, 0>>
    /\ exRequest.certs # NoDir =>
         /\ \E i \in Chosen(exRequest) : exRequest.sigs[i].certs > 0
         /\ Unlinked(exRequest.fs, exRequest) =>
              \A i \in Chosen(exRequest) : \A m \in 1..exRequest.sigs[i].certs :
                Read(exDisk, CertPath(exRequest.certs, i, m)) = <<"cert", i, m>>

\* runSignatureExports (its comment: "no export may overwrite the input PDF"):
\* at every step, whatever links, spellings and failing writes there are.
ExportsAreSafe == InputKept /\ NoneOverwritten /\ OnlyChosenWritten /\ ExitZeroIsComplete
=============================================================================
