# A verification of PDF Debug in TLA+

PDF Debug shows the internal structure of PDF files. It is a Go backend
(`internal/pdfcore`, an inspector on top of pdfcpu) behind a Wails desktop shell
(`main.go`, `internal/pdfservice`), a React frontend (`frontend/src`) and a
command-line tool (`cmd/cli`). Its sources are under `src/`; this directory holds TLA+
models of the parts of it where order, concurrency and failure decide whether it is
correct, TLC runs on small instances, and TLAPS proofs of what matters most.

`PROJECT.json` gives, for every definition that models code, the lines it stands for,
and for every property a fault in the code that would break it. The faults are the
operators marked "Fault" in the modules, which no specification uses; a property that
combines several parts has a fault for each of them in its module, of which `PROJECT.json`
lists one.

## 1. The system

| part | state | operations | what makes it hard |
|---|---|---|---|
| Open Recent (`recentflush.go`, `internal/recentfiles`) | the list, `dirty`, `saving`, `started`, `finished`, a timer, opens in flight | Record, SaveNow, timer flush, save, menu rebuild, Close; Add, Remove, Clear | saves from timer goroutines, menu handlers and the shutdown hook share one flag and one condition variable; rebuilds need the UI thread that Close occupies; case variants are looked up with the lock released |
| Atomic file writer (`internal/atomicfile`) | temp files beside the target | Write | several processes, crashes, a sweep that deletes files |
| Disk watcher (`internal/filewatch`, `pdfcore/filechange.go`, `diskStatusStore.ts`) | tab states, pending records, sequence numbers, the page's entries | tick, focus, stat, GetDiskStatus, SetWatchedTabs, event | stats that hang, answers and events that cross, tabs that close meanwhile |
| Pending opens (`internal/pendingopen`) | `ready`, queued paths | Add, Drain | paths arrive while the page starts, drains or reloads |
| Documents and tabs (`pdfcore/inspector.go`, `openedDocuments.ts`, `reloadDocument.ts`, `useDocumentState.tsx`) | the documents map, the strip, the session's opens, released ids, each tab's history | open (four routes), batch open, reload, close, activate, select, navigate | handlers read the strip of the last render; events come late or twice; every open must be released exactly once |
| Document locks and caches (`pdfcore/inspector.go`, `lazycache.go`, `diff.go`, ...) | `pdfMu`, cache mutexes, a `sync.Once`, a context per document | every bound call, Close | lock order over two documents, walks that drop the lock between pages, panics inside pdfcpu |
| Update download (`UpdateNotifier.tsx`, `internal/updateservice`, `internal/updatecheck`) | the dialog, the pause gate, temp files | download, pause, resume, cancel, verify, move | calls start out of order; cancellation races the gate's condition variable |
| Update check (`updatecheck/cache.go`, `cmd/cli/update_notice.go`) | two check records on disk | refresh, notice, `--version`, startup check | several processes replace one record; a command exits under its refresh |
| Page tree walk (`pdfcore/pageindex.go`) | path, walked set, numbers, rows | visit, guard, number | cyclic, shared, deep and unreadable trees |
| Image index, diff, structure (`imageindex.go`, `diff.go`, `numbertree.go`, `markedcontent.go`, `structure.go`, `validate_structure.go`) | visited sets, budgets, memos, a nesting stack | one walk each | cuts, memos and limits must not change what is reported, or must say so |
| Signatures (`signature.go`, `ber.go`, `cmd_signatures_export.go`) | offsets, a file handle | read, verify the hole, normalise, export | the file changes on disk; lengths and sums at their limits; output paths that are the input |
| Shell (`main.go`, `internal/splash`, `internal/clitool`) | windows, timers, batch flags, the menu item, the link | launch, batch open, install, uninstall | events on goroutines of their own, timers that race them, other programs that change the link |
| Panels (`TreePanel.tsx`, `DetailPanel.tsx`) | rows, caches, reveals, the diff's right side | render, effect, reveal, lazy load, compare | replies for what is no longer shown, between a render and its effects |
| Command-line tool (`cmd/cli`) | exit code, stdout, stderr | dump, validate, diff, help | a failure or panic after part of the output |

How they interact. Frontend calls run each on a goroutine of its own (Wails), events
come back the same way, and neither keeps an order. The operating system's opens go
through the pending queue until the page drained it, and straight to
`Inspector.Open` afterwards; either way the page puts the document into the strip, tells
the watcher which tabs to poll, and asks for the old document to be closed. Every open
is reported to Open Recent, which saves its list through the atomic writer. Bound calls
read a document under its locks while Close may drop it. The update dialog and the
command-line tool meet in the check records.

`PROJECT.json` lists 40 hazards at the lines where they bite, each with the properties
that would catch it.

## 2. The modules

Each component module has one action per critical section, handler or step of the code,
and ends with its properties. Bounds are constants named `Max...`. Code that computes an
answer from a document and keeps no state is written as operators (recursive where the
code is) beside a reference definition of what the answer must be.

### Documents and files

**OpenTabs** - the documents map, opens by four routes (event, drain, button, reload),
the strip in the reducer (`tabs`) and as last rendered (`shown`), `sessionOpenTabs`,
`releasedTabIds` and CloseDocument calls on their way. React renders the dispatch of a
click or key press at once, on top of the last render and without dispatches still
waiting; dispatches from menu events and replies wait for `Render`, which commits and
runs the effects in one step.

**InspectorCalls** - a bound call is the sequence of its steps on locks, caches and
the document's context, as the code takes them (`Object`, `Cached`, `PageIndex`,
`PageContent`, `ReverseRefs`, `Images`, `Structure`, `Validate`, `PlainText`, `Render`,
`Diff`); a machine runs the sequences of several threads. Work may fail or panic
anywhere; deferred unlocks are released together. The flag an `AfterFunc` sets follows
the context with a delay.

**PageTree** - the walk of `pageindex.go`, one step per /Kids entry, over any graph of
objects and direct dictionaries chosen in Init. Reading a node may panic. One inheritable
attribute is followed, since the four are picked alike; boxes, rotation and contents of a
row are left out. `seen` is a history variable: the nodes the walk has come to.

**Signatures, FieldTree, Ber, SignatureExport** - `FieldTree` walks the AcroForm fields for
those that are signatures. `Signatures` goes through what it finds (its constant
`SigFields`, which MCDocuments computes with `FieldTree`), decomposes each signature
dictionary, measures its /ByteRange with integers that wrap at `IntHalf`, and checks the
hole against the file in the steps of `filechange.go` (the open with its comparison, the
read, and the comparison of handle and path after it) while other programs change, replace,
remove or lock it. `Ber` is the
normaliser in its three passes. `SignatureExport` is `--export-cms` and `--export-certs`
on a small file system with letter case, links and failing writes: the selection, the
directory, the comparison of paths (`samePath`) and one step per file that is written or fails.
Dangling links are left out.

**Diff** - the paired walk, one step per key of the innermost container: back edges, pairs
met before and the depth cap, the shallow summaries, what makes scalars equal and what tells
rows apart. The recursion of `diffPresent` is a stack of frames; `compared` and `backEdges`
are history variables. Once a comparison was called identical, a reader follows the same
keys through both documents (`ReadsOn`), so that what "identical" promises is asked wherever
both documents have a path.

**ImageIndex** - pages, resources and forms with both memos, the nesting cap, the two
budgets, error rows and page lists.

**NumberTree, MarkedContent, Structure** - the number tree walk (its calls of `read` are
frames, one step per kid and per pair, and pdfcpu may panic at any of them), the token scan
(with operands cut between streams), and on top of them the structure tree, the ParentTree, the
alignment of the three, `runRule` and the six rules that read them. pdfcpu may panic where an
object is dereferenced, where its /S is read, or after that. Only the last two end in the guard of
the element itself: `derefIn` has none, so a panic at a kid's reference unwinds to the guard of
the parent, which keeps its /S and loses all its kids, those read before included (section 5).

**DiskWatch** - the scheduler goroutine (`Tick`, `Wake`, `TakeResult` with `Pending`,
`Reconciled`, `Observed` and `Settles` for applyPending, checkAll and settle), stat
goroutines, GetDiskStatus in its three steps (stat, RecordReported, reply), SetWatchedTabs,
and the page's store. A status is the version observed. A tick may come at any moment;
streaks longer than two are alike. `Stop` is the service's shutdown: after it nobody
opens, closes or looks. Two constants say what is assumed of timing: `EarlyCheck` lets
a check start before the backend watches the tab, `InOrder` makes SetWatchedTabs calls be
handled as they were sent.

**RecentFlush, RecentList, AtomicFile** - `RecentFlush`: every section of `recentflush.go`
under `f.mu` is an action; the list is its version number, so a saved file or a menu is
described by the version it shows. `opens` says whether an open in flight still holds the
save back (`maxHold`); `main` is the UI thread, which Close and the rebuilds share; `tried`
is what the last finished save wrote, `disk` what is on disk when a write fails (the code
only logs that). `RecentList`: the entries, with Add, Remove, Clear and Load by concurrent
callers, stats of case variants outside the lock, and the menu's labels. The loops of
`Load` and `without` are said by the positions they keep: the first entry of each file, since
sameFile is an equivalence while the disk stays as it is. `AtomicFile`:
what one save is made of, by several processes that fail at any call and crash between any two.
The sweep of old temp files looks at an entry and removes it in two steps, the return of
a call is a step after its rename, and every removal of a temp file may fail, since the code
ignores its error (`leftBehind`).

### The shell and the panels

**PathDelivery, PendingOpen** - the promise, and the queue with the callbacks that feed
it and the page that drains it. StrictMode may drain twice; a reload ends the page with
its loops while calls on their way still reach the backend.

**BatchOpen** - `openFilesBatch`, its Cancel, and the reducer's progress and warning state.
Every event is in flight until it is handled, in any order. An error event and the close of
the active tab take the note away, also the one about a cancelled batch (section 5); `cleared`
is a history variable for that. `tabsMade` counts the tabs made, closed since or not.

**Startup** - the splash scheduler under its mutex, its timers (which may run late), the
window calls after the unlock as jobs of their own, the two ready events, the quit, and the
About request that waits for the frontend.

**CliTool** - the menu item, its three dialogs and the link and profile edits, while other
programs replace the entry. The handlers are not atomic: InstallCLI classifies, `linkInto` then
does an Lstat, a Remove and a Symlink, UninstallCLI classifies and removes, each a step, and another
program may change the entry between any two of them or while a dialog is open. Nothing is
classified again (section 5). History variables say whether the entry was swapped since the look that the
handler, or the question it asked, rests on (`swapped`), and whether the user pressed Replace
(`agreed`). The next click comes after the handler of the last one; the entry can be read at
launch.

**DiffSide, TreeNav, Panels** - the panels as React runs them: a dispatch changes the state, a
render shows it, its effects (cleanups first) run some time later, and replies land at any
moment between. `DiffSide` follows the backend document of the diff's right side from the
file dialog to its close or promotion; a click on its Reload comes after the effects of the
render it is made on (see section 5). `TreeNav` follows the rows and caches of the
structure tree, the reveal of a reference through its awaits, lazy loads and the history.
`Panels` puts the two side by side; they share no state.

**Cli** - a command is the program of its steps (check, open, call, write, exit) computed
from its arguments; opening, a view and a write may fail, and a panic is recovered where
the code recovers it.

### Updates

**UpdateDownload** - the dialog, the calls it sends (which start in any order), the
goroutine of DownloadUpdate through the pause gate, the verification and the move. The
condition variable is modelled with its mutex: a sleeper is woken by a broadcast only if
it sleeps already. Cancelling rejects the promise in the page at once (external: Wails);
the context in Go is cancelled when that call gets there. The move is a rename or, when that
fails, a copy that ends in a step of its own, whole or not. Every removal (of the temp file,
of a partial copy) may fail, since the code ignores the error; `undeleted` remembers which did.
Each download has a free name of its own in the Downloads folder. The app does not quit in the
middle of a copy.

**UpdateCheck** - commands as processes that load and replace the CLI's record, the
app's checks, releases that appear (and may push the highest one off the first page) and
records that are lost. Times are ticks longer than a check may take (a refresh is cut off
after 1.5 s, a page after 5 s, the TTL is a day), so the clock stands still while one runs.
One app process is assumed. `pub`, `highs`, `tried` and `gone` are history variables.

### Instances

The MC modules add model values, symmetry and the inputs. MCDocuments and MCDesktop hold several
machines that share no state: a behaviour runs one, chosen in Init, and the others stay as
they start.

- **MCDocuments**: the tabs, the page-tree walk, the signatures, their export, the number
  tree, the comparison, and a reader that is asked about every small input of the operators
  above. A question is put in two steps so that the inputs are enumerated as states.
- **MCUpdateCheck**: a behaviour has one command beside the app and its releases, or two
  commands alone.
- **MCDesktop**: the queue, the command-line tool, the launch, the CLI installer, the batch,
  two atomic writers, the recent list, the diff's right side and the tree.

The proofs are in **RecentProofs** (RecentFlush, RecentList), **DocumentProofs** (PageTree,
Signatures, SignatureExport, NumberTree), **DiffProofs**, **DiskWatchProofs**,
**InspectorCallsProofs**, **UpdateDownloadProofs**, **UpdateCheckProofs** and
**DesktopProofs** (PendingOpen, AtomicFile, CliTool, Startup, BatchOpen, OpenTabs, DiffSide,
TreeNav, Cli).

## 3. The runs

| run | shows |
|---|---|
| `recent_flush` | `SaverSound`: saves never overlap. `SavesAreDurable`: SaveNow and Close return only when a save that began late enough wrote the change. `NoStrandedChange`: a reported change always has something that will save it. `NoRebuildAfterClose`. `ReportedIsSavedAndShown` and `CallsReturn`: it is saved and shown in the end, even if an open never returns, and nobody waits for ever. |
| `disk_watch` | `WatcherSound`: a closed tab keeps no marker, whatever is on its way, and a tab has one stat in flight at most. `Converges`: once files stop changing an open tab shows what is on disk. `StopFreesStats`. |
| `inspector_calls` | `NoWaitCycle`. `CallsSound`: pdfcpu is read under its lock, caches are filled once and a failed index is not read as empty. `CloseStopsWalks`: a close ends page walks after one more page. |
| `update_download` | `DownloadSound`: what runs in Go is awaited or cancelled, nothing unverified is saved or reported, and a temp file or a partial copy stays only where its removal failed. `GateLetsGo`: a cancelled download ends and a kept one resumes. |
| `update_check` | `AnswersSound`: what a command prints follows from a check within the TTL. `SkipIsSound`: the startup check skips the server only if nothing older than the TTL is missed. `CommandsExit`. `RefreshSound`: attempts stay a TTL apart although commands overwrite each other's records, and an answer in time is written before the exit. |
| `documents` | `TabsSound`: no tab without a document, no document without a tab, one tab per path. `ReloadQuiet`: a reload that lands moves no tab and no focus. `PagesComplete`: no page is missing unless the walk says so. `PageRowsSound`: page n is the n-th leaf, cycles are cycles, repeats are marked, sharing does not multiply rows, attributes come from the nearest node. `SignaturesAreRight`: coverage is never overstated, a verdict on the hole is that of one unchanged file, and a refused file stays refused. `ExportsAreSafe`: the input is never written, no export overwrites another, exit 0 means all are on disk. `ComparisonsAreRight`: a renumbered copy shows no difference, "identical" is said only of documents that are (back edges that pair up assumed, see findings), rows that differ can be told apart. `NumberTreeIsRight`: no key is lost silently, none is made up, and a tree without a problem is in order. `AnswersAreRight`: BER becomes the DER of the same value (`BerIsNormalised`); the memo changes no page's images, a complete page is complete, failures and limits are named (`ImageCountsAreRight`); marked-content rows do not depend on where content is cut, an element is read once, no rule passes on what was not read (kids lost to a panic at a reference excepted, see section 5; `StructureReportIsRight`). |
| `desktop` | `QueueSound`, `DeliversOnce` (the queue implements PathDelivery, reloads included), `MetUnlessReloaded`. `CliContract`: exit code and streams as `cmd/cli/doc.go` promises, no error or half an answer passes for a whole one. `StartupSafe`: one main window, never before the splash has had its time, the About request kept; `LaunchesEnd`. `CliToolSafe`: while nobody else touches the entry the menu tells the truth, and the profile is edited once. `BatchSafe`: of a batch whose start is handled first, the progress dialog goes, its count is that of the tabs, and a batch cut short stays known as cancelled and says so, unless an error event or a close took the note away; every document kept has its tab in any order. `AtomicFileSafe`: readers never see half a file, a call's answer is what happened to the path, and a call leaves a temp file only where its removal failed. `RecentListSound`: the list names a file once and labels tell files apart. `ForeignEntriesKept`: a click takes another program's entry only if the user agreed to replace it, or if it was put there after the handler, or the question the user answered, had looked. `PanelsSound`: every right side is closed once its owner is gone and never under a tab; the tree shows its own tab's rows, selects in the tab it revealed in, keeps the history sound and never forgets a target. |
| `disk_watch_reload`, `disk_watch_order`, `pending_open_reload`, `diff_identical`, `tree_rows` | violations, see findings. |

Type invariants are part of these (`SaverSound`, `WatcherSound`, `QueueSound`, `TabsSound`,
`CallsSound`, `DownloadSound`, `AnswersSound`, `PageRowsSound`). Deadlock is not checked:
all these systems may come to rest when the user does nothing; where resting would be wrong
(a wait that never ends) a property says so.

### Bounds

- `recent_flush`: one open, two timer goroutines, one SaveNow caller, two changes. Two
  flushes overlap with a SaveNow and with Close; a second change comes during the save of
  the first. The safety part is proved for all sizes.
- `disk_watch`: one tab (tabs share only the scheduler's counter), two versions, one
  check, two upsets (changes or failed stats). Two changes are needed for an event and a
  check to cross with different statuses.
- `inspector_calls`: two calls at a time on two documents of two pages, so that both
  orders of a diff's sides and every pair of calls meet; one close.
- `update_download`: two downloads (one running on beside the next), two prompts, one
  chunk, and `Escalate = 1` where the code has 3: the count only gates Retry. Checks of the
  menu are not bounded, and a missing checksum ends a download like any other error.
- `update_check`: one command and two app checks over four ticks with a TTL of two and two
  releases, or two commands without app and releases, so that their records overwrite each
  other. Three commands were checked separately, and the safety part is proved for any number.
- `documents`: three opens of two paths and one repeated event (two opens of a path and one
  of another, or an open, its reload and a third). Page trees: all documents of two objects
  with at most two kids and a direct dictionary with at most one, all chains of three objects,
  depth 2 where the code has 1024. Signatures: integers of 5 bits (`IntHalf` is 16), so that
  sums of a range could wrap, two disk events, a hole probe of 2 bytes; field trees with shared and cyclic kids.
  BER: elements three levels deep in every length form, contents around 128 and 256 bytes,
  all sequences of two to four bytes out of nine. Exports: 42 file systems (letter case, a
  directory that is missing or a link, other names of the input and of certificate files) and
  600 command lines. Comparisons: every pair of 115 documents of four objects, whose references
  agree, cross, loop and end apart, with `maxResolveDepth` 2, so that the cap is met on the way
  to shared and cyclic objects; `diff_identical` has 4. Images: three forms that name each other
  and an image, one or two pages, nesting 3, 9 entries and 8 uses, so that memos, cap and
  budgets meet. Number trees: some 3 400 of four nodes with shared, cyclic and direct kids,
  depth 3, and a panic at any step;
  tokens in any order and cut anywhere; structure trees of two elements with every
  kind of kid, two pages and two streams.
- `desktop`: two arrivals of one path and one of another, two drains, one reload. Every
  invocation of the tool with up to two positional arguments, empty ones among them (a third
  could only be refused; the proof is for any). The launch in ticks: minimum display 1, fallback 3, load wait 2,
  crossfade 1, forced quit 1, horizon 4. Five clicks and foreign changes for the installer, enough for an install that asks, a swap under the question and another under the handler. Batches of three
  files with an unsupported one. Two atomic writers with two attempts of a rename. Two calls
  on a recent list of at most three entries (the code has 10), from three stored lists. Three
  requests for a right side. Three steps of the user in the tree (two tabs and a third
  document, two targets): a switch, its way back and a load, or a target, a collapse and a
  second target. Four and five steps were checked for the tree alone.

### Fairness

- RecentFlush: goroutines run, the timer fires, time passes. Nothing makes the user act,
  and a parse may never return. The liveness properties assume `HoldsEnd`: `heldUntil`
  looks at the newest open, so opens that never stop arriving can starve the save.
- DiskWatch: renders, calls, events, ticks and stats get through; Stop need not come.
- PendingOpen: the page mounts, its drains are asked and answered, events are delivered.
- Startup: timers fire and their jobs run, the clock goes on; the page may never load and
  no ready event need come, which is what the fallback is for.
- UpdateDownload: goroutines run and calls start. The server may stall for ever, since
  the client has no timeout; only a cancelled context ends a wait. The disk answers, so a copy ends. `GateLetsGo` asks a
  kept download to resume only while the calls that set the gate start in order
  (`overtaken` is a history variable).
- UpdateCheck: goroutines run, the deadline fires, an expired call fails; the server may
  stay silent.

## 4. The proofs

TLAPS checks them for every value of the constants, from the ASSUMEs of the modules,
which TLC evaluates in the runs. They say that bounds are natural numbers, that names
which play different parts differ (`Nobody` is no thread, `None` no tab, a document is no
cache, the root of a path no directory), that a document has finitely many nodes and less
than 2^62 bytes, that its signature fields are a sequence of fields whose /V has the
parts the code reads, and that inputs are well formed: a file system to export to holds the
input PDF and its names lead to its files (`ExportAssumption`), the kids of a number tree and
the entries of a document to compare are of that document, scalars have no entries, and a
catalog is a dictionary (`NumberTreeAssumption`, `DiffAssumption`). They say nothing else of
the code. Every inductive invariant was checked by TLC on the
instance of its run before it was proved.

**RecentFlush.** `SaverSound` (types and one saver), `SavesAreDurable`, `NoStrandedChange`
and `NoRebuildAfterClose`. None is inductive alone. The invariant adds: `SavingInv`, the flag stands
for the one thread in a save and `started` and `finished` differ by it; `MainInv`, Close
and a rebuild past its isClosed check own the UI thread; `VersionInv`, what is about to
be written is no older than what was; `ReportInv`, a reported version is dirty or covered
by a save; `CallerInv`, a SaveNow call either still waits for its save to start, with the
change dirty, or is covered by a save that copies after the call.

**PendingOpen.** It implements PathDelivery (`Refinement`), and `QueueSound` (types, and no
path dropped) holds. The invariant adds: `SidesInv`, before the first drain all is in the queue
and after it the queue stays empty; `BatchInv`, drains hold disjoint sets of paths;
`BackedInv`, every path still to be opened has an arrival waiting for it, which is why
each open meets one.

**PageTree.** `PagesComplete` and `PageRowsSound`, which includes the types, the depth limit
and `CycleMeansAncestor`, on any finite graph. The invariant adds: `StackInv`, depth and onPath
describe the stack; `SeenInv`, unless something was skipped a page the walk came to is
listed and an intermediate node is on the stack or all its kids were come to; `ReachInv`,
the walk stays inside what the root reaches. At the end the stack is empty, so the nodes
come to contain the root and are closed under kids: they are all the tree reaches.
For the rows it adds: `RepeatInv`, firstPage has the first listing of a page; `AttrsInv`,
what a stack frame carries is the nearest value above it; `DirectsInv`, a direct dictionary
is in one /Kids array and is come to once; `CountInv`, every row and every descent uses up
an entry of an array of a node that is entered once, so rows are bounded by the entries
although nodes are shared.

**Signatures.** `SignaturesAreRight` for any fields, any number of changes to the file and any
word length that holds twice the file size. `TodoInv`: what is left to do are the fields after
those listed. `ReadingInv`: a file that is open is read for the next field, which needs it, no
read was refused before, and while the file is still the opened one the bytes read are its own.
`ListedInv`: an entry of the list, its export and its verdict are those of the field at its
place. That coverage is right is then a fact about one field (`Measured`): the entries are
bounded by the file size before they are added, so no sum wraps, and what the comparisons
say of offsets is what they should say of sets of bytes (`SignedBytes`, `IntervalSize`).

**SignatureExport.** `ExportsAreSafe` on any file system and for any command line. The code
compares paths once, before the first write, while every write may create names and files.
The invariant has `PathsApart`: two paths are apart if they are different directory entries
and do not lead to one file, which is what a passed comparison establishes (`samePath` compares
files where one exists and names otherwise) and what a write through a third path keeps. With
it no write touches the input or an earlier export. `samePath` is not asked about two
certificate files; their names differ, but if they were links to one file before, the later
one overwrites the earlier and the exit is 0, so `NoneOverwritten` and `ExitZeroIsComplete`
have `Unlinked` as a premise for those.

**NumberTree.** `NumberTreeIsRight` for any tree, shared and cyclic ones included, any cap and
any panics. "Below the root" is the smallest set closed under kids, so the invariant keeps a
set `S` that what was come to lies in (`CoveredBy`): while nothing was lost, every node of `S`
is being read, or is about to be, or has all its kids in `S` and all its keys recorded; a
frame has the part of both that it has passed. When the walk ends nothing is being read, `S`
is closed and holds the root. `FrameOK` has the key before the next pair (`prev`), from which
a leaf without a problem is ascending, and `StoredBelow` that no entry is made up.

**Diff.** `ComparisonsAreRight` for documents of any shape, any cap and any decoding of
strings. `CmpCovered` is why "identical" is true: each key of each pair that was compared is
either still to come in an open frame, or was compared, entered elsewhere, cut as a back edge or
marked at the cap, unless a leaf row already counts a difference. So when the walk is over,
nothing is counted and no mark is left, a mark that was cleared is at a pair entered
elsewhere, a back edge is at such a pair by the premise `BackEdgesAligned` (finding 4 shows
that it is needed), and the pairs compared are closed under the keys a reader can follow.
This is what the comment on reconcileTruncation argues ("EntryNotCompletion"), for every
document. `CmpReader` takes it to the reader. `CmpCopies`: in a renumbered copy the two
sides of every frame correspond, so cuts fall alike and summaries, which leave numbers out,
agree. `CmpRows`: what a frame holds as changed is what its rows so far say, and container ids
are never used twice, so a container is changed exactly when a row in it is.
`CmpShape` has the types and the order of frames, without which no step is defined.

**InspectorCalls.** `CallsSound`, `NoWaitCycle` and `CloseStopsWalks`, for any threads,
documents and page counts. What a thread knows depends on the step it is at, so each program
gets a sequence of notes (`Notes`), one per step: the mutexes held, the caches known to be
empty or filled, and how much work on a closed document may lie behind. `Follows` says that a step may be taken under its note and leads to the next
one, on every branch it has; lemmas show it of each program (`ImagesFollows`,
`StructureFollows`, `DiffFollows`, ...), of the page loops for any number of pages. The
invariant is then about notes only: `HoldInv`, a mutex is held by a thread exactly when its
note says so; `CacheInv`, caches are as the notes say; `FillInv`, an empty cache was never
filled; `LateInv`, work after a close stays within the note. `NoDeadlock` follows from the
order the notes keep: at most one outer lock (the locks of index builds, `diffLockOrderMu`),
then pdfMu, then one of the cache mutexes, under which nothing is waited for; a second pdfMu
is taken only with diffLockOrderMu held. So in a cycle of waits nobody holds a cache mutex,
somebody waits for a pdfMu whose holder waits for a second one, that holder has
diffLockOrderMu, and there is only one such thread.

**DiskWatch.** In whatever order calls, checks and events arrive, the types hold and a tab
that left the strip has no entry (`ReleasedForGood`, from `BaseInv`: it is released for
good). `WatcherSound`, with one stat per tab, holds if SetWatchedTabs calls are handled in
order (`OneStatInOrder`, which has `InOrder` as its hypothesis; the run `disk_watch_order`
shows that it is needed). `WatchInv` follows a tab through the sets sent and handled: it is
in one stretch of them, so once the backend dropped it, it stays dropped. `StatInv`: the
scheduler knows of a running stat unless its tab is over in that sense.

**UpdateDownload.** `DownloadSound` for any number of downloads, prompts and chunks. The
invariant adds: `CallsInv`, a download that has not started is on its way by one call;
`DialogInv`, the dialog says "downloading" exactly while it awaits a promise; `StagesInv`,
what a download has done by the time it gets to each stage (a file is moved or copied only after
its hash was compared). That leftovers are explained (`LeftoversExplained`) is inductive with it:
whatever ends a download either removes a file or records that it could not.

**UpdateCheck.** `AnswersSound`, `RefreshSound` and `SkipIsSound` for any commands, releases,
TTL and clock. A record is `Backed` if some check at its time saw no more than was published;
that stays true while releases are published (`BackedKept`). The invariant says it of the
server's pages (`ServerInv`), the app's walk (`AppInv`), the records and the copies that
commands hold (`RecordsInv`), gives a busy command the current time (`CommandInv`), and
orders the attempts written by different commands (`ThrottleInv`), which is what keeps
retries a TTL apart although records are replaced as a whole.

**The shell.** `AtomicFileSafe` for any writers and attempts: `TempsInv` says from when to when
a temp name is there, also for a call that could not remove it, and that what a call is about to
rename is complete or was swept away; `RenamedInv`, a file lands once, and a call whose file
landed can only return or die; `AnswersInv`, a call answers once. `CliToolSafe` and
`ForeignEntriesKept` for any number of clicks: `HandlerInv`, an install and its question run
under the label that offers them; `ConsentInv`, a handler that is about to remove a foreign entry
has the user's consent or the entry was swapped since it looked. `StartupSafe` for any timings: every job and timer
goes back to a flag (`FlagsInv`), and no dismissal is timed before the floor (`FloorInv`).
`BatchSafe` for a batch of any size and any order of its events: each document opened has a
tab or one event on the bus that will make it (`DocsInv`), while batch-start is on its
way the reducer knows of no batch (`StartInv`), and a cancel is remembered until every file has
landed (`CancelInv`).

**RecentList.** `RecentListSound` for any paths, disk, stored list, bound and calls at once.
The invariant adds `CheckedInv`: of the paths a call has checked it knows which are its file,
so when no unchecked variant is listed, dropping those leaves nothing of that file. The list
part rests on lemmas about `Picked` (positions of a list, in order, each once: `PickedIs`,
`RankExists`). The labels: widening ends (`WidenedEnough`), either because the suffixes differ
or because no entry has directories left; in the second case equal labels mean equal
directories (`RootLeads`: a root in front cannot be taken for a directory), and entries that
agree in all but the root and are not one path differ there.

**OpenTabs.** `TabsSound` and `ReloadQuiet` for any documents, opens, repeated events and
renders. The invariant adds: `LandedInv`, strip, session, released ids and closes know only of
opens that landed; `ArrivalInv`, a document whose tree was fetched has not been asked to go,
and one that came by an event goes only once it is released, so a repeated event finds its
tab or is dropped; `ReloadInv`, a reload is of an open of its path. What a close or an open
does to a strip is shown once (`WithoutIs`, `ActiveAfterIs`, `NewTab`).

**The panels.** `PanelsSound` for any number of clicks and any nodes. Right side
(`DiffSideIsSound`): `AsksInv`, a document on its way is known to nobody and comes once;
`RightInv`, the right side belongs to the rendered tab unless the effects that take it away
are due or the tab is leaving; `PromotedInv`, whenever a cleanup has still to come across a
document that is a tab now, it is the one promoted last; `LeakInv`, the panel's documents are
its tabs, the three right sides (state, rendered, with effects) or were replaced before a
render. Tree (`RevealIsSound`): `RowsInv`, the rows are those of the tab the effects last ran
for; `LiveInv`, at most one reveal is not cancelled, of the effects' tab and target;
`PursuitInv`, the effects' target is being revealed, or its reveal has ended and taken it away
and the panel has yet to see that.

**The command-line tool.** `CliContract` for any positional arguments and whatever a file makes
of a command. `CliInv` speaks of the program that is left: while nothing is written it rejects
its arguments (`Rejecting`), or it is `Reading`, steps that may fail and write nothing
followed by the one that answers or by a rejection; once there is an answer it is `Ending`, at
most a warning and an exit. So no step that can fail follows an answer, there is at most one
error line, which goes with the exit code, and a refusal of the arguments comes before any
view is called. That every handler builds such a program (`DispatchStarts`) is
shown from how the parts of programs compose (`PreReading`, `AnswerReads`, `RejectingMore`).

Only model-checked: all liveness properties (the prover has no fairness or ENABLED), and what
recursive operators compute from a document, which would need induction over data
(`AnswersAreRight`): `Ber` (`BerIsNormalised`), `ImageIndex` (`ImageCountsAreRight`),
`MarkedContent` and `Structure` (`StructureReportIsRight`) and `FieldTree`.

## 5. Findings

1. `disk_watch_reload`. checkAll drops the records of tabs it does not watch, and with
   one the request to repeat the next observation. A check right after a reload may be
   recorded before SetWatchedTabs arrives; if the page discarded its answer as older, it
   keeps a stale marker, against the comment at `watcher.go:152-155`.
2. `disk_watch_order`. checkAll deletes the state of a tab that is not watched, with the
   mark of its stat in flight. If SetWatchedTabs calls are handled out of order a tab leaves
   the watched set and comes back, and gets a second stat while the first is blocked,
   against `watcher.go:254-255` and the test at `watcher_test.go:569`.
3. `pending_open_reload`. The ready flag stays set for the life of the process. After a
   reload of the page, paths a drain returned but had not opened are gone, and a path that
   arrives before the new page subscribes is emitted to nobody, against
   `queue.go:11-13` and `:24-26`.
4. `diff_identical`. A reference back into the current path is compared by its shallow
   summary, also when it goes back on one side only or the two sides go back to objects
   that were never compared with each other, so a difference below it has no row, against
   `diff.go:461-466` ("hides nothing"). `ComparisonsAreRight` says "identical" is true where
   every back edge is cut at a pair that was entered (`BackEdgesAligned`).
5. `tree_rows`. `activeTabIdRef` changes in the render and the displayed rows in the effect
   after it. The children of a row that arrive between the two, when the user has come back
   to the tab they belong to (by a menu event or an open, whose effects are deferred), are
   put into the other tab's rows and stored as this tab's, against
   `TreePanel.tsx:298-299`. `PanelsSound` leaves out the tabs this happened to.

Comments the code does not bear out, without a run of their own:

- `imageindex.go:634-636`: a memoised form is said to be used only where a fresh walk
  "would enter the same forms and skip the same cycles". With forms 1 -> 2, 2 -> 1 and
  3 -> 1, page 1 naming 3 and page 2 naming 2, the nesting cap is met at another form. The
  images stay right; only the incomplete mark of a page may differ, on the safe side
  (`MemoIsExact`).
- `recentfiles.go`: labels are said to tell entries apart, but `C:\a\f.pdf` and
  `D:\a\f.pdf` share one; `LabelsTellApart` asks it of paths under one volume.
- `clitool.go:330-332` ("never removing a non-ours entry"): UninstallCLI classifies the entry
  (`:334`) and removes what is at the path (`:337`), so an entry another program puts there in
  between goes. The same holds between the question of an install, the user's Replace and the
  Remove of `linkInto` (`:209-210`). `ForeignEntriesKept` says what is left of the promise.
- `BatchOpenDialog.test.tsx:204` ("late events cannot clobber the toast"): the event of a file
  that fails after a cancel sets `documentWarning` to null (`useDocumentState.tsx:410-416`) and
  leaves `batchOpenCancelled`, so the note that the batch was cancelled goes. Closing the
  active tab does the same (`:337`). `BatchReported` has `cleared` for both.
- `validate_structure.go:256-259` (every element whose read failed before its /S is flagged): a
  panic at the reference of one kid (`structure.go:404`) lands in the guard of the parent
  (`:575`), whose /S was read. The parent loses all its kids, and `checkStructElemType`, which
  flags a failed read only while /S is empty (`validate_structure.go:282`), passes although
  elements were never looked at. The error text of the parent does name the failed read.
  `TypesAreClean` leaves out the elements that are lost this way (`Lost`).
- `useDocumentState.tsx:225-228`: a Cancel that comes after the last file's event is not
  taken back by it.
- `main.go:139-143`: the note about unsupported files is said to survive "regardless of
  event-bus ordering", but the event of an earlier file that is handled later clears it.
- `cmd/cli/doc.go`: exit 2 with `--json` prints one JSON object on stderr, but a damaged
  file puts a JSON warning before it, and a failed write of `dump stream --ops` is reported
  as plain text; `ExitContract` says so.
- `DetailPanel.tsx:220-222` and `:279-281`: a right side is closed "when it is replaced",
  except when two arrive before one render (`overwritten`): the first stays open until the
  program ends.

Met while modelling, without a statement in the repository they contradict:

- `promotedRightRef` holds one document (`DetailPanel.tsx:284-293`). Were Reload clicked, and
  its copy promoted, between the render of an earlier promotion and the effects of that render, the
  cleanup would close the first document under its tab. Passive effects run long before a
  click and a call get through, so the model lets the click come after them; the proof of
  `DiffSideSound` needs this.
- SetWatchedTabs calls of two renders handled out of order leave the older set polled
  (`service.go:636-639`); the runs assume `InOrder` where it matters.
- File > Close Document just before a reload lands, and not rendered yet, re-opens the
  tab (`reloadDocument.ts:48-50`, `:77`); `ReloadQuiet` excepts it (`CloseUnseen`).
- SetDownloadPaused(true) handled after the SetDownloadPaused(false) sent later leaves a
  kept download asleep (`UpdateNotifier.tsx:268-271`).
- `--export-certs` into a directory where two certificate names are already links to one
  file writes one certificate over the other and exits 0 (`cmd_signatures_export.go:187-200`
  compares certificates with the input and the CMS file only).
- A download cancelled after its last look at the context is still saved
  (`updatecheck.go:405`), although the dialog shows it as cancelled.
- A batch-start handled after the batch-complete of its batch leaves the progress dialog up
  (`useDocumentState.tsx:545-553`); `BatchSafe` assumes the start is handled first.
- The start of a second batch resets a cancel meant for the first (`main.go:550`).
- The reducer's navigation acts on the tab that is active when it runs. A click or a
  reveal that ends after a tab change and before its render selects in the new tab
  (`unseen` in `NavEntry`); the CLEAR_NAV_TARGET of a finished reveal can clear a newer
  target, and asking for the same target again before the CLEAR is rendered leaves it
  pending without a reveal (`crossed`).

## 6. Not modelled

Byte and pixel algorithms (filters, the tokenizer, images, fonts, certificates), field
extraction (metadata, embedded files), one-level listings (tree children, object and xref
tables), the rules of `validate.go` that look up a single entry, rendering of views, find,
window persistence, save dialogs and the build. They keep no state that steps of others
could disturb, or their behaviour is in libraries. `PROJECT.json` gives the reason per part.

## 7. Plan

Every safety property of the runs is proved, except those about the recursive operators and
the one without parameters (section 4). What could be added:

1. `ImageIndex`, `MarkedContent` and `Structure` as machines with explicit stacks, as was done
   for `NumberTree` and `Diff`; their cover argument would be that of section 4. `Ber` would need
   a measure on byte strings instead.
2. The liveness properties, when the prover can reason about fairness: the invariants they
   need (`NoStrandedChange`, `PursuitInv`, `WatchInv`) are proved.
