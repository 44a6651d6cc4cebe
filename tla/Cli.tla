-------------------------------- MODULE Cli --------------------------------
(***************************************************************************)
(* One invocation of the pdfdebug command (src/cmd/cli): the arguments     *)
(* pick a handler, the handler checks them, opens the file, calls the      *)
(* views it needs and writes what they return, and the update notice may   *)
(* follow.  What the tool promises its callers is in doc.go: the exit      *)
(* code, what stdout holds and which form the error on stderr takes.       *)
(*                                                                         *)
(* A handler is a program, a sequence of the steps below, computed from    *)
(* the arguments; what the file makes of a step is open.  Opening, calling *)
(* a view and writing may fail, and a panic in any of them is recovered.   *)
(* Views, names and output are not looked into.                            *)
(***************************************************************************)
EXTENDS Naturals, Sequences, SequencesExt, FiniteSets

CONSTANT Positionals    \* the positional arguments a command line may have

ASSUME PositionalsAssumption == Positionals \subseteq Seq({"path", "empty"})

VARIABLES
  inv,      \* the parsed command line
  todo,     \* the steps still to run
  stdout,   \* how much of the output is written, and in which form
  stderr,   \* the kinds of lines written, in order
  code,     \* the exit code, NoCode while the handler runs
  reached,  \* how far it went: the arguments, the file or a view
  notice    \* stdout and stderr are terminals, no variable opts out

cliVars == <<inv, todo, stdout, stderr, code, reached, notice>>

----------------------------------------------------------------------------
(* Command lines.  pos is the positional arguments, fmt the output form    *)
(* flags given, ref and page the values of those flags, opts the other     *)
(* flags given or, for a name that says so, a rejected value of one.       *)

DocViews == {"xref", "objects", "pages", "structure", "images", "bytes", "plaintext"}
ByRefs == {"font", "image", "source", "reverserefs"}
Dumps == DocViews \cup ByRefs \cup
         {"tree", "object", "stream", "page", "embedded", "metadata", "signatures"}
Commands == Dumps \cup {"validate", "diff", "help", "unknown"}

Formats(cmd) ==
  CASE cmd = "stream" -> {"json", "raw", "ops"}
    [] cmd = "source" -> {"json", "raw"}
    [] OTHER          -> {"json"}

Refs(cmd) ==
  IF cmd \in ByRefs \cup {"object", "stream", "embedded"}
  THEN {"absent", "malformed", "ref"} ELSE {"absent"}

\* --page, and the --info of dump page: absent, below 1, or a page number.
Pages(cmd) == IF cmd \in {"tree", "stream", "page"} THEN {"absent", "low", "page"} ELSE {"absent"}

Options(cmd) ==
  CASE cmd = "tree"       -> {"resolve", "badDepth", "badResolveDepth"}
    [] cmd = "object"     -> {"resolve", "badResolveDepth"}
    [] cmd = "stream"     -> {"xobject"}
    [] cmd = "page"       -> {"badSection", "badFormsDepth"}
    [] cmd = "image"      -> {"metadata"}
    [] cmd = "embedded"   -> {"name"}
    [] cmd = "signatures" -> {"cms", "emptyCms", "certs", "emptyCerts", "field", "emptyField"}
    [] cmd = "validate"   -> {"badProfile", "pdfua"}
    [] OTHER              -> {}

\* A flag has one value.
OptionSets(cmd) ==
  {s \in SUBSET Options(cmd) :
     \A two \in {{"cms", "emptyCms"}, {"certs", "emptyCerts"}, {"field", "emptyField"}, {"badProfile", "pdfua"}} :
        ~(two \subseteq s)}

Invocations ==
  UNION {[cmd: {cmd}, parsed: BOOLEAN, pos: Positionals, fmt: SUBSET Formats(cmd),
          ref: Refs(cmd), page: Pages(cmd), opts: OptionSets(cmd)] : cmd \in Commands}

----------------------------------------------------------------------------
(* Steps of a program.                                                     *)

Reject(err, c) == <<[op |-> "reject", err |-> err, code |-> c]>>

\* A view of the document: a failure is a JSON error and exit code 2.
Call == <<[op |-> "call"]>>

\* A view the command can do without: a failure is a warning line.
Soft == <<[op |-> "soft"]>>

\* The output; err is the form in which a failed write is reported.
Prints(payload, err) == <<[op |-> "emit", payload |-> payload, err |-> err]>>

Exit(c) == <<[op |-> "exit", code |-> c]>>

\* A fork on what the document holds.
Choose(progs) == <<[op |-> "choose", alts |-> progs]>>

\* A document that may fall short of what the arguments ask for.
Require(err) == Choose({<<>>, Reject(err, 2)})

\* A JSON warning the document may draw.
MayWarn == Choose({<<>>, <<[op |-> "warn"]>>})

\* openForCLI opens the file and warns of damage the parser survived;
\* handleOpenError reports a failure as a JSON error with exit code 2.
openForCLI == <<[op |-> "open", warns |-> TRUE, encrypted |-> <<>>]>>
handleOpenError == Reject("json", 2)

\* diff and validate call Inspector.Open themselves and report no damage.
OpenQuietly(encrypted) == <<[op |-> "open", warns |-> FALSE, encrypted |-> encrypted]>>

----------------------------------------------------------------------------
(* Argument checks the handlers share.                                     *)

requirePositionals(i, want) ==
  /\ Len(i.pos) = want
  /\ \A k \in 1..want : i.pos[k] # "empty"

parseDocViewFlags(i) == i.parsed /\ requirePositionals(i, 1)
parseByRefFlags(i) == i.parsed /\ i.ref # "absent" /\ requirePositionals(i, 1)

Json(i) == "json" \in i.fmt

\* The two forms every view has, both written through emit or a presenter.
JsonOrPlain(i) == Prints(IF Json(i) THEN "json" ELSE "plain", "json") \o Exit(0)

openByRef(i) == IF i.ref = "malformed" THEN Reject("json", 1) ELSE openForCLI

\* dump xref, objects, structure, images, metadata: one view, two forms.
DocView(i) ==
  IF parseDocViewFlags(i) THEN openForCLI \o Call \o JsonOrPlain(i) ELSE Reject("usage", 1)

\* dump font, reverserefs: one view of the object --ref names, two forms.
RefView(i) ==
  IF parseByRefFlags(i) THEN openByRef(i) \o Call \o JsonOrPlain(i) ELSE Reject("usage", 1)

----------------------------------------------------------------------------
(* The handlers.                                                           *)

runXRefDump(i)        == DocView(i)
runObjectsDump(i)     == DocView(i)
runStructureDump(i)   == DocView(i)
runImagesDump(i)      == DocView(i)
runMetadataDump(i)    == DocView(i)
runReverseRefsDump(i) == RefView(i)
runFontDump(i)        == RefView(i)

\* The leaves the walk found are compared with /Count after the write.
runPagesDump(i) ==
  IF parseDocViewFlags(i)
  THEN openForCLI \o Call \o Prints(IF Json(i) THEN "json" ELSE "plain", "json") \o MayWarn \o Exit(0)
  ELSE Reject("usage", 1)

\* Raw bytes are copied from the file: a file that changed since the parse, or
\* that is being replaced, is a JSON error before the copy, a failed copy a
\* plain one.
runBytesDump(i) ==
  IF ~parseDocViewFlags(i) THEN Reject("usage", 1)
  ELSE IF Json(i) THEN openForCLI \o Call \o JsonOrPlain(i)
  ELSE openForCLI \o Call \o Prints("raw", "plain") \o Exit(0)

runSourceDump(i) ==
  IF ~parseByRefFlags(i) THEN Reject("usage", 1)
  ELSE IF {"raw", "json"} \subseteq i.fmt THEN Reject("json", 1)
  ELSE openByRef(i) \o Call \o
       (IF "raw" \in i.fmt THEN Prints("raw", "plain")
        ELSE IF Json(i) THEN Prints("json", "json")
        ELSE Prints("plain", "plain")) \o Exit(0)

\* Without --metadata the JSON form asks for the full-size bytes too, and keeps
\* the thumbnail, without a word, when there are none.
runImageDump(i) ==
  IF ~parseByRefFlags(i) THEN Reject("usage", 1)
  ELSE openByRef(i) \o Call \o JsonOrPlain(i)

runTreeDump(i) ==
  IF ~parseDocViewFlags(i) THEN Reject("usage", 1)
  ELSE IF {"badDepth", "badResolveDepth"} \cap i.opts # {} \/ i.page = "low" THEN Reject("json", 1)
  ELSE openForCLI \o Call \o (IF "resolve" \in i.opts THEN Soft ELSE <<>>) \o JsonOrPlain(i)

\* A null object is one the file does not define.
runObjectDump(i) ==
  IF ~parseByRefFlags(i) THEN Reject("usage", 1)
  ELSE IF "badResolveDepth" \in i.opts \/ i.ref = "malformed" THEN Reject("json", 1)
  ELSE openForCLI \o Call \o Require("json") \o
       (IF "resolve" \in i.opts THEN Soft ELSE <<>>) \o JsonOrPlain(i)

runPageDump(i) ==
  IF ~parseDocViewFlags(i) THEN Reject("usage", 1)
  ELSE IF i.page # "page" \/ {"badSection", "badFormsDepth"} \cap i.opts # {} THEN Reject("json", 1)
  ELSE openForCLI \o Require("json") \o Call \o JsonOrPlain(i)

----------------------------------------------------------------------------
(* dump stream: a page's content, the stream --ref names, or the XObject a *)
(* name resolves to in the resources of either.                            *)

\* Which input the flags select; the forms exclude each other first.
StreamFlagsOK(i) ==
  /\ Cardinality(i.fmt) <= 1
  /\ IF "xobject" \in i.opts THEN (i.page = "absent") # (i.ref = "absent") /\ i.page # "low"
     ELSE IF i.ref # "absent" THEN i.page = "absent"
     ELSE i.page = "page"

PageMode(i) == "xobject" \notin i.opts /\ i.ref = "absent"

\* A malformed --ref is found only after the file is open.
resolveStreamNode(i) ==
  IF i.ref = "malformed" THEN Reject("json", 1)
  ELSE IF "xobject" \in i.opts
       THEN (IF i.page = "page" THEN Require("json") \o Call ELSE <<>>) \o Call \o Require("json")
  ELSE IF i.ref = "ref" THEN <<>>
  ELSE Require("json")

\* A page without /Contents is valid: the note goes where the form allows.
writeNoContentStream(i) ==
  IF "ops" \in i.fmt THEN <<[op |-> "note"]>> \o Exit(0)
  ELSE IF Json(i) THEN Prints("json", "json") \o Exit(0)
  ELSE Prints(IF "raw" \in i.fmt THEN "raw" ELSE "plain", "plain") \o Exit(0)

\* The operators, one JSON line each; a page's XObjects are looked up first.
emitOps(i) == (IF PageMode(i) THEN Soft ELSE <<>>) \o Prints("ops", "plain") \o Exit(0)

\* A stream that is none, or does not decode, is an error of the result.
execStreamDump(i) ==
  openForCLI \o resolveStreamNode(i) \o Call \o
  Choose({Require("json") \o
            (IF "raw" \in i.fmt THEN Prints("raw", "plain") \o Exit(0)
             ELSE IF "ops" \in i.fmt THEN emitOps(i)
             ELSE JsonOrPlain(i))}
         \cup IF PageMode(i) THEN {writeNoContentStream(i)} ELSE {})

runStreamDump(i) ==
  IF ~parseDocViewFlags(i) THEN Reject("usage", 1)
  ELSE IF ~StreamFlagsOK(i) THEN Reject("json", 1)
  ELSE execStreamDump(i)

----------------------------------------------------------------------------
(* dump embedded: the list, or one file's bytes by reference or by name.   *)

emitEmbeddedBytes == Call \o Prints("raw", "json") \o Exit(0)

execEmbeddedExtractByRef(i) == openByRef(i) \o emitEmbeddedBytes

\* No match, several matches and a match without a stream are plain errors.
execEmbeddedExtractByName == openForCLI \o Call \o Require("plain") \o emitEmbeddedBytes

execEmbeddedList(i) == openForCLI \o Call \o JsonOrPlain(i)

runEmbeddedDump(i) ==
  IF ~parseDocViewFlags(i) THEN Reject("usage", 1)
  ELSE IF i.ref # "absent" /\ "name" \in i.opts THEN Reject("errorUsage", 1)
  ELSE IF i.ref # "absent" THEN execEmbeddedExtractByRef(i)
  ELSE IF "name" \in i.opts THEN execEmbeddedExtractByName
  ELSE execEmbeddedList(i)

----------------------------------------------------------------------------
(* dump signatures: the fields, after the exports that were asked for.     *)

SignatureFlagsOK(i) ==
  /\ {"emptyCms", "emptyCerts", "emptyField"} \cap i.opts = {}
  /\ "field" \in i.opts => {"cms", "certs"} \cap i.opts # {}

printSignatures(i) == JsonOrPlain(i)

\* Selections and paths are plain errors, the directory and the files that
\* cannot be written JSON ones, and CMS bytes that could not be delimited draw
\* a warning.  The files themselves are in SignatureExport.
runSignatureExports(i) ==
  LET certs == IF "certs" \in i.opts THEN Require("json") ELSE <<>>
      cms == IF "cms" \in i.opts THEN Require("json") \o MayWarn ELSE <<>>
  IN  Require("plain") \o certs \o Require("plain") \o cms \o certs

execSignaturesExport(i) == openForCLI \o Call \o runSignatureExports(i) \o printSignatures(i)

execSignaturesDump(i) == openForCLI \o Call \o printSignatures(i)

runSignaturesDump(i) ==
  IF ~parseDocViewFlags(i) THEN Reject("usage", 1)
  ELSE IF ~SignatureFlagsOK(i) THEN Reject("json", 1)
  ELSE IF {"cms", "certs"} \cap i.opts = {} THEN execSignaturesDump(i)
  ELSE execSignaturesExport(i)

----------------------------------------------------------------------------
(* validate and diff: 1 is a verdict, every failure is 2.                  *)

\* The gate fails on an error, and on an error rule that could not be run.
renderValidate(i, verdicts) ==
  Prints(IF Json(i) THEN "json" ELSE "plain", "json") \o Choose({Exit(c) : c \in verdicts})

\* Encryption is a PDF/A-1b problem to report; under PDF/UA the file cannot be
\* opened, which is no verdict.
execValidate(i) ==
  OpenQuietly(IF "pdfua" \in i.opts THEN handleOpenError ELSE renderValidate(i, {1})) \o
  Call \o renderValidate(i, {0, 1})

\* Fault: a gate that cannot tell a broken file from a failing one.
runValidateExitsOne(i) ==
  IF ~parseDocViewFlags(i) THEN Reject("usage", 2)
  ELSE IF "badProfile" \in i.opts THEN Reject("plain", 1)
  ELSE execValidate(i)

runValidate(i) ==
  IF ~parseDocViewFlags(i) THEN Reject("usage", 2)
  ELSE IF "badProfile" \in i.opts THEN Reject("plain", 2)
  ELSE execValidate(i)

execDiff(i) ==
  OpenQuietly(handleOpenError) \o OpenQuietly(handleOpenError) \o Call \o
  Prints(IF Json(i) THEN "json" ELSE "plain", "json") \o Choose({Exit(0), Exit(1)})

runDiff(i) == IF i.parsed /\ requirePositionals(i, 2) THEN execDiff(i) ELSE Reject("usage", 2)

----------------------------------------------------------------------------
(* The run of one invocation.                                              *)

dispatch(i) ==
  CASE i.cmd = "help"        -> <<[op |-> "help"]>> \o Exit(0)
    [] i.cmd = "unknown"     -> Reject("usage", 1)
    [] i.cmd = "validate"    -> runValidate(i)
    [] i.cmd = "diff"        -> runDiff(i)
    [] i.cmd = "tree"        -> runTreeDump(i)
    [] i.cmd = "object"      -> runObjectDump(i)
    [] i.cmd = "stream"      -> runStreamDump(i)
    [] i.cmd = "page"        -> runPageDump(i)
    [] i.cmd = "font"        -> runFontDump(i)
    [] i.cmd = "image"       -> runImageDump(i)
    [] i.cmd = "images"      -> runImagesDump(i)
    [] i.cmd = "source"      -> runSourceDump(i)
    [] i.cmd = "reverserefs" -> runReverseRefsDump(i)
    [] i.cmd = "xref"        -> runXRefDump(i)
    [] i.cmd = "objects"     -> runObjectsDump(i)
    [] i.cmd = "pages"       -> runPagesDump(i)
    [] i.cmd = "structure"   -> runStructureDump(i)
    [] i.cmd = "bytes"       -> runBytesDump(i)
    [] i.cmd = "plaintext"   -> <<[op |-> "deprecated"]>> \o runBytesDump(i)
    [] i.cmd = "embedded"    -> runEmbeddedDump(i)
    [] i.cmd = "metadata"    -> runMetadataDump(i)
    [] i.cmd = "signatures"  -> runSignaturesDump(i)

NoCode == 3


CliInit ==
  /\ inv \in Invocations
  /\ todo = dispatch(inv)
  /\ stdout = [state |-> "empty", payload |-> "plain"]
  /\ stderr = <<>>
  /\ code = NoCode
  /\ reached = "args"
  /\ notice \in BOOLEAN

Doing(op) == code = NoCode /\ todo[1].op = op

\* The handler returns c, or its recover does.
Return(c) == code' = c /\ todo' = <<>>

Fail(err, c) == Return(c) /\ stderr' = Append(stderr, err)

RejectArgs ==
  /\ Doing("reject")
  /\ Fail(todo[1].err, todo[1].code)
  /\ UNCHANGED <<inv, stdout, reached, notice>>

OpenSucceeds ==
  /\ Doing("open")
  /\ \E damaged \in BOOLEAN :
       stderr' = IF damaged /\ todo[1].warns THEN Append(stderr, "jsonWarning") ELSE stderr
  /\ todo' = Tail(todo)
  /\ reached' = "open"
  /\ UNCHANGED <<inv, stdout, code, notice>>

CannotOpen ==
  /\ Doing("open")
  /\ Fail("json", 2)
  /\ UNCHANGED <<inv, stdout, reached, notice>>

\* An encrypted file is a verdict of validate, an open failure elsewhere.
OpenEncrypted ==
  /\ Doing("open")
  /\ todo[1].encrypted # <<>>
  /\ todo' = todo[1].encrypted
  /\ UNCHANGED <<inv, stdout, stderr, code, reached, notice>>

CallReturns ==
  /\ Doing("call") \/ Doing("soft")
  /\ todo' = Tail(todo)
  /\ reached' = "view"
  /\ stderr' \in {stderr} \cup IF Doing("soft") THEN {Append(stderr, "warning")} ELSE {}
  /\ UNCHANGED <<inv, stdout, code, notice>>

CallFails ==
  /\ Doing("call")
  /\ Fail("json", 2)
  /\ reached' = "view"
  /\ UNCHANGED <<inv, stdout, notice>>

\* A panic in the open, a view or a presenter ends in the handler's recover.
Panics ==
  /\ Doing("open") \/ Doing("call") \/ Doing("soft") \/ Doing("emit")
  /\ Fail("json", 2)
  /\ UNCHANGED <<inv, stdout, reached, notice>>

Decide ==
  /\ Doing("choose")
  /\ \E prog \in todo[1].alts : todo' = prog \o Tail(todo)
  /\ UNCHANGED <<inv, stdout, stderr, code, reached, notice>>

WriteSucceeds ==
  /\ Doing("emit")
  /\ stdout' = [state |-> "whole", payload |-> todo[1].payload]
  /\ todo' = Tail(todo)
  /\ UNCHANGED <<inv, stderr, code, reached, notice>>

\* A reader that went away, or a full disk behind a redirect.
WriteFails ==
  /\ Doing("emit")
  /\ stdout' = [state |-> "partial", payload |-> todo[1].payload]
  /\ Fail(todo[1].err, 2)
  /\ UNCHANGED <<inv, reached, notice>>

\* A line on stderr that ends nothing.
WriteLine ==
  /\ Doing("warn") \/ Doing("note") \/ Doing("deprecated") \/ Doing("help")
  /\ stderr' = Append(stderr, IF Doing("warn") THEN "jsonWarning" ELSE todo[1].op)
  /\ todo' = Tail(todo)
  /\ UNCHANGED <<inv, stdout, code, reached, notice>>

Returns ==
  /\ Doing("exit")
  /\ Return(todo[1].code)
  /\ UNCHANGED <<inv, stdout, stderr, reached, notice>>

\* machineFormat scans the arguments for an output a program reads.
machineFormat(i) ==
  \/ i.cmd \in {"bytes", "plaintext"}
  \/ i.fmt # {}
  \/ i.cmd = "embedded" /\ (i.ref # "absent" \/ "name" \in i.opts)

\* run: the notice, when there is one to give, follows the handler's return.
Finish ==
  /\ code # NoCode
  /\ notice
  /\ ~machineFormat(inv)
  /\ stderr' = Append(stderr, "update")
  /\ notice' = FALSE
  /\ UNCHANGED <<inv, todo, stdout, code, reached>>

CliNext ==
  \/ RejectArgs \/ OpenSucceeds \/ CannotOpen \/ OpenEncrypted \/ CallReturns \/ CallFails \/ Panics
  \/ Decide \/ WriteSucceeds \/ WriteFails \/ WriteLine \/ Returns \/ Finish

CliSpec == CliInit /\ [][CliNext]_cliVars

----------------------------------------------------------------------------
(* What doc.go promises the callers.                                       *)

Errors == {"usage", "errorUsage", "json", "plain"}

\* Where the invocation wrote error lines, and that it wrote one, of these kinds.
ErrorLines == {k \in DOMAIN stderr : stderr[k] \in Errors}
OneError(kinds) == \E k \in ErrorLines : ErrorLines = {k} /\ stderr[k] \in kinds

\* The arguments are wrong in shape: flags that do not parse, a --ref the
\* command cannot do without, or other positionals than its files.
ShapeWrong(i) ==
  \/ i.cmd = "unknown"
  \/ i.cmd # "help" /\ ~i.parsed
  \/ i.cmd \in ByRefs \cup {"object"} /\ i.ref = "absent"
  \/ i.cmd = "diff" /\ i.pos # <<"path", "path">>
  \/ i.cmd \in Dumps \cup {"validate"} /\ i.pos # <<"path">>

\* The commands whose failed write is a plain line: payloads written raw.
PlainWrite(i) ==
  \/ i.cmd \in {"bytes", "plaintext"} /\ ~Json(i)
  \/ i.cmd \in {"source", "stream"} /\ ~Json(i)

\* The exit code and the streams tell a caller what happened (doc.go: the exit
\* codes and stderr of each exit path): a shape error is the usage line alone,
\* whatever else is wrong; exit 1 of a dump names an argument and no view was
\* called; every exit 2 ends in exactly one error line, JSON unless a selection
\* or a raw write failed; success has no error line.
ExitContract ==
  code # NoCode =>
    /\ ShapeWrong(inv) =>
         /\ OneError({"usage"}) /\ reached = "args"
         /\ code = IF inv.cmd \in {"validate", "diff"} THEN 2 ELSE 1
    /\ inv.cmd \in Dumps /\ code = 1 => OneError(Errors) /\ reached # "view"
    /\ inv.cmd \in {"validate", "diff"} /\ code = 1 => ErrorLines = {} /\ stdout.state = "whole"
    /\ code = 2 =>
         /\ OneError(Errors)
         /\ OneError({"plain"}) =>
              \/ stdout.state = "partial" /\ PlainWrite(inv)
              \/ inv.cmd = "embedded" /\ "name" \in inv.opts
              \/ inv.cmd = "signatures" /\ {"cms", "certs"} \cap inv.opts # {}
              \/ inv.cmd = "validate" /\ reached = "args"
    /\ code = 0 => ErrorLines = {}

\* The handler ran to its end.
Verdict == code \in IF inv.cmd \in {"validate", "diff"} THEN {0, 1} ELSE {0}

\* What a redirect captures is never an error or half an answer with a good
\* code, and a payload a program reads is never followed by the notice: output
\* is whole exactly when the code is a verdict, nothing is written before the
\* last step that can fail, and machineFormat recognises every payload the
\* handlers write.
OutputIsWhole ==
  /\ code # NoCode /\ inv.cmd # "help" =>
       (stdout.state = "whole" \/ "note" \in ToSet(stderr)) <=> Verdict
  /\ "update" \in ToSet(stderr) =>
       stdout.state = "empty" \/ stdout.payload = "plain"

\* The exit code and the streams tell the caller what happened, and a redirect
\* never captures an error or half an answer with a good code.
CliContract == ExitContract /\ OutputIsWhole
=============================================================================
