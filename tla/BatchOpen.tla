----------------------------- MODULE BatchOpen -----------------------------
(***************************************************************************)
(* Opening several files at once: openFilesBatch and                       *)
(* openFileAndEmitWithWarning (src/main.go), the events they emit, and the *)
(* reducer that counts them (src/frontend/src/hooks/useDocumentState.tsx). *)
(*                                                                         *)
(* Each Emit is dispatched on a goroutine of its own, so an event may      *)
(* arrive after any later one: the events in flight are a set.             *)
(***************************************************************************)
EXTENDS Naturals, FiniteSets

CONSTANTS BatchSize,       \* how many files the batch opens
          Unsupported      \* were other files left out?

ASSUME BatchAssumption == BatchSize \in Nat \ {0} /\ Unsupported \in BOOLEAN

Files == 1..BatchSize

VARIABLES next,        \* the next file of the batch
          reading,     \* is the goroutine of that file running?
          batchCancelled,
          bus,         \* events in flight: [name, file, warned]
          openedDocs,  \* the files whose document the backend keeps
          progress,    \* the reducer's batch fields and the note it shows
          shownTabs,   \* the files with a tab
          tabsMade,    \* history: the files that were given one, closed since or not
          cleared,     \* history: was the note taken away since a cancel or an open last set it?
          startFirst   \* history: did batch-start arrive before what follows it?

uiVars == <<progress, shownTabs, tabsMade, cleared, startFirst>>

boVars == <<next, reading, batchCancelled, bus, openedDocs, uiVars>>

Event(name, file, warned) == [name |-> name, file |-> file, warned |-> warned]

BoInit ==
  /\ next = 1 /\ reading = FALSE /\ batchCancelled = FALSE
  /\ bus = IF BatchSize > 1 THEN {Event("batch-start", 0, FALSE)} ELSE {}
  /\ openedDocs = {} /\ shownTabs = {} /\ tabsMade = {} /\ cleared = FALSE /\ startFirst = TRUE
  /\ progress = [active |-> FALSE, total |-> 0, completed |-> 0, cancelled |-> FALSE, note |-> "none",
                 asked |-> "no"]

\* One turn of the loop: the cancel flag is read, then load-start emitted and
\* the file's goroutine started.
NextFile ==
  /\ next <= BatchSize /\ ~reading /\ ~batchCancelled
  /\ reading' = TRUE
  /\ bus' = bus \cup {Event("load-start", next, FALSE)}
  /\ UNCHANGED <<next, batchCancelled, openedDocs, uiVars>>

\* The goroutine: the open, then the tree; a document whose tree fails is
\* closed again.  The last file carries the note about unsupported files.
FileOpens ==
  /\ reading
  /\ \/ /\ openedDocs' = openedDocs \cup {next}
        /\ bus' = bus \cup {Event("opened", next, Unsupported /\ next = BatchSize)}
     \/ bus' = bus \cup {Event("error", next, FALSE)} /\ UNCHANGED openedDocs
  /\ reading' = FALSE /\ next' = next + 1
  /\ UNCHANGED <<batchCancelled, uiVars>>

\* The end of the loop, cancelled or not.
BatchEnds ==
  /\ ~reading /\ next <= BatchSize + 1 /\ (next = BatchSize + 1 \/ batchCancelled)
  /\ next' = BatchSize + 2
  /\ bus' = IF BatchSize > 1 THEN bus \cup {Event("batch-complete", 0, FALSE)} ELSE bus
  /\ UNCHANGED <<reading, batchCancelled, openedDocs, uiVars>>

\* Fault: a file that lands is only counted while the dialog is up.
OpenDocumentCountsActive(p, warned) ==
  LET n == IF p.active THEN p.completed + 1 ELSE p.completed
      didNothing == p.cancelled /\ p.active /\ n >= p.total
  IN  [p EXCEPT !.completed = n, !.cancelled = p.cancelled /\ ~didNothing,
                !.note = IF didNothing THEN "none" ELSE IF p.cancelled THEN "cancelled"
                         ELSE IF warned THEN "unsupported" ELSE "none"]

\* OPEN_DOCUMENT of the reducer, then SET_DOCUMENT_WARNING for a payload that
\* carries one: files are counted while a batch is known, and a cancel that
\* stopped nothing is withdrawn.
OpenDocument(p, warned) ==
  LET inBatch == p.total > 0
      n == IF inBatch THEN p.completed + 1 ELSE p.completed
      didNothing == p.cancelled /\ inBatch /\ n >= p.total
      still == p.cancelled /\ ~didNothing
  IN  [p EXCEPT !.completed = n, !.cancelled = still,
                !.note = IF still THEN "cancelled" ELSE IF warned THEN "unsupported" ELSE "none"]

\* What an event does to the reducer's fields.  SET_DOCUMENT_ERROR takes the
\* note away, the one about a cancelled batch too, and leaves the cancel flag.
Reduce(p, e) ==
  CASE e.name = "batch-start" ->
         [p EXCEPT !.active = TRUE, !.total = BatchSize, !.completed = 0, !.cancelled = FALSE]
    [] e.name = "opened" -> OpenDocument(p, e.warned)
    [] e.name = "error" -> [p EXCEPT !.note = "none"]
    [] e.name = "batch-complete" ->
         IF p.cancelled THEN [p EXCEPT !.active = FALSE]
         ELSE [p EXCEPT !.active = FALSE, !.total = 0, !.completed = 0]
    [] OTHER -> p

DeliverEvent(e) ==
  /\ bus' = bus \ {e}
  /\ IF e.name = "cancel" THEN batchCancelled' = TRUE /\ UNCHANGED uiVars
     ELSE /\ progress' = Reduce(progress, e)
          /\ LET made == IF e.name = "opened" THEN {e.file} ELSE {}
             IN  shownTabs' = shownTabs \cup made /\ tabsMade' = tabsMade \cup made
          /\ cleared' = ((cleared \/ e.name = "error") /\ e.name # "opened")
          /\ startFirst' = (startFirst /\ (e.name \in {"opened", "batch-complete"} => \A f \in bus : f.name # "batch-start"))
          /\ UNCHANGED batchCancelled
  /\ UNCHANGED <<next, reading, openedDocs>>

\* The Cancel button: the note at once, the event to the backend in its turn.
Cancel ==
  /\ progress.active /\ ~progress.cancelled
  /\ progress' = [progress EXCEPT !.cancelled = TRUE, !.note = "cancelled",
                    !.asked = IF progress.completed < BatchSize THEN "in time" ELSE "late"]
  /\ cleared' = FALSE
  /\ bus' = bus \cup {Event("cancel", 0, FALSE)}
  /\ UNCHANGED <<next, reading, batchCancelled, openedDocs, shownTabs, tabsMade, startFirst>>

\* The user dismisses the note.
DismissWarning ==
  /\ progress.note # "none"
  /\ progress' = [progress EXCEPT !.note = "none", !.cancelled = FALSE, !.total = 0, !.completed = 0]
  /\ startFirst' = FALSE
  /\ UNCHANGED <<next, reading, batchCancelled, bus, openedDocs, shownTabs, tabsMade, cleared>>

\* CLOSE_DOCUMENT, and the backend's close of the document.  Any tab may be
\* the active one, the tabs from before the batch included: closing that one
\* takes the note away.
CloseDocumentTab ==
  /\ \E closed \in SUBSET shownTabs :
       /\ Cardinality(closed) <= 1
       /\ shownTabs' = shownTabs \ closed /\ openedDocs' = openedDocs \ closed
  /\ \/ progress' = [progress EXCEPT !.note = "none"] /\ cleared' = TRUE
     \/ UNCHANGED <<progress, cleared>>
  /\ UNCHANGED <<next, reading, batchCancelled, bus, tabsMade, startFirst>>

BoNext ==
  \/ NextFile \/ FileOpens \/ BatchEnds \/ Cancel \/ DismissWarning \/ CloseDocumentTab
  \/ \E e \in bus : DeliverEvent(e)

BoSpec == BoInit /\ [][BoNext]_boVars

BatchQuiet == next = BatchSize + 2 /\ bus = {}

(***************************************************************************)
(* Properties.  Both speak of batches whose start arrived first and whose  *)
(* note was not dismissed.                                                 *)
(***************************************************************************)

\* The count next to the bar, and in the note after a cancel, is the number
\* of tabs the batch made, however late an opened document arrives.  A batch
\* that loaded every file does not count as cancelled, unless Cancel was
\* clicked after the last file landed and before the batch was over.  And
\* while it counts as cancelled no file's own warning takes the place of the
\* note: the note is gone only when an error event or the close of a tab took
\* it away and no file landed since.
BatchReported ==
  /\ startFirst /\ progress.total > 0 => progress.completed = Cardinality(tabsMade)
  /\ startFirst /\ progress.cancelled =>
       /\ Cardinality(tabsMade) < BatchSize \/ progress.asked = "late"
       /\ progress.note = "cancelled" \/ (progress.note = "none" /\ cleared)

\* When all is quiet every document the backend keeps has its tab, the
\* dialog is gone, and a batch that was cut short is still known to be
\* cancelled: it says so, or an error or a close came after its last file.
BatchSettles ==
  BatchQuiet => /\ shownTabs = openedDocs
                /\ startFirst => ~progress.active
                /\ (startFirst /\ progress.asked # "no" /\ tabsMade # Files) =>
                     progress.cancelled /\ (progress.note = "cancelled" \/ cleared)

\* openFilesBatch and the reducer agree on what was opened and what the user
\* is told, in every order of the events.
BatchSafe == BatchReported /\ BatchSettles
=============================================================================
