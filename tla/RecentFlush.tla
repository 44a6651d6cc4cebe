---------------------------- MODULE RecentFlush ----------------------------
(***************************************************************************)
(* File > Open Recent: the list of recent files, the recentFlusher that    *)
(* decides when it is saved and its menu rebuilt, and the threads that     *)
(* call it (recentflush.go, internal/recentfiles/recentfiles.go and the    *)
(* wiring in main.go).                                                     *)
(*                                                                         *)
(* Every section of recentflush.go that runs under f.mu is one action.     *)
(* The list is abstracted to its version, the number of changes made to    *)
(* it: a saved file or a menu is described by the version it shows.        *)
(* Time is abstracted to two events: the timer fires at some moment after  *)
(* it is armed, and an open stops holding the save at some moment after    *)
(* it started (maxHold).                                                   *)
(***************************************************************************)
EXTENDS Naturals

CONSTANTS
    Openers,      \* PDFService.OpenFile calls that may run at once
    Flushers,     \* goroutines the timer may have running flush(false) at once
    Callers,      \* Clear Menu and openRecent handlers, which call SaveNow
    MaxChanges    \* bound on the number of changes to the list

Threads == Flushers \cup Callers

ASSUME ThreadAssumption == Flushers \cap Callers = {}
ASSUME NamesAssumption  == {"close", "free"} \cap Threads = {}
ASSUME BoundAssumption  == MaxChanges \in Nat

VARIABLES
    list,         \* version of List.paths
    disk,         \* version in recent.json
    menu,         \* version the Open Recent submenu shows
    dirty, saving, started, finished, closed,   \* the fields of recentFlusher
    timer,        \* is f.timer running?
    opens,        \* f.opens: does each open in flight still hold the save?
    opener,       \* where each open is
    pc,           \* where each thread is in flush or SaveNow
    want,         \* SaveNow's local variable
    mine,         \* the version SaveNow was called to save
    copy,         \* the version List.Save copied, per thread (and for Close)
    closer,       \* where Close is
    main,         \* who runs on the UI thread
    recorded,     \* the newest version reported to the flusher before Close
    tried         \* the version the last save that finished tried to write

flagVars == <<dirty, saving, started, finished, closed, timer>>
vars == <<list, disk, menu, dirty, saving, started, finished, closed, timer,
          opens, opener, pc, want, mine, copy, closer, main, recorded, tried>>

FlusherPC == {"idle", "flush", "copy", "write", "ended", "onmain", "rebuild"}
CallerPC  == FlusherPC \cup {"changed", "wait", "asleep", "returned"}
CloserPC  == {"open", "waiting", "asleep", "copy", "write", "done"}

(* The types of the flusher's fields, its threads and its bookkeeping: in
   particular a save that is counted, awaited or skipped stays a program point
   recentflush.go has. *)
TypeOK ==
    /\ list \in Nat /\ disk \in Nat /\ menu \in Nat
    /\ dirty \in BOOLEAN /\ saving \in BOOLEAN /\ closed \in BOOLEAN
    /\ timer \in BOOLEAN
    /\ started \in Nat /\ finished \in Nat
    /\ opens \in [Openers -> {"none", "holding", "expired"}]
    /\ opener \in [Openers -> {"idle", "opening", "opened", "added"}]
    /\ pc \in [Threads -> CallerPC]
    /\ \A f \in Flushers : pc[f] \in FlusherPC
    /\ want \in [Callers -> Nat] /\ mine \in [Callers -> Nat]
    /\ copy \in [Threads \cup {"close"} -> Nat]
    /\ closer \in CloserPC
    /\ main \in Threads \cup {"close", "free"}
    /\ recorded \in Nat /\ tried \in Nat

Init ==
    /\ list = 0 /\ disk = 0 /\ menu = 0
    /\ dirty = FALSE /\ saving = FALSE /\ closed = FALSE
    /\ timer = FALSE
    /\ started = 0 /\ finished = 0
    /\ opens = [o \in Openers |-> "none"]
    /\ opener = [o \in Openers |-> "idle"]
    /\ pc = [t \in Threads |-> "idle"]
    /\ want = [c \in Callers |-> 0]
    /\ mine = [c \in Callers |-> 0]
    /\ copy = [t \in Threads \cup {"close"} |-> 0]
    /\ closer = "open"
    /\ main = "free"
    /\ recorded = 0 /\ tried = 0

-----------------------------------------------------------------------------
(* heldUntil: the save is held while the newest open is younger than maxHold,
   which is to say while some open in flight is. *)
Held == \E o \in Openers : opens[o] = "holding"

(* arm: nothing once closed; otherwise the timer runs, whatever its delay. *)
Armed == IF closed THEN timer ELSE TRUE

(* The newest version the flusher was told of while it still listened. *)
Reported == IF closed THEN recorded ELSE list

-----------------------------------------------------------------------------
(* Opening a document: PDFService.OpenFile and RecordRecentFile.            *)

OpenStarted(o) ==
    /\ opener[o] = "idle"
    /\ list < MaxChanges
    /\ opener' = [opener EXCEPT ![o] = "opening"]
    /\ opens' = [opens EXCEPT ![o] = "holding"]
    /\ UNCHANGED <<list, disk, menu, flagVars, pc, want, mine, copy, closer,
                   main, recorded, tried>>

(* maxHold passes while the open still runs. *)
HoldExpires(o) ==
    /\ opens[o] = "holding"
    /\ opens' = [opens EXCEPT ![o] = "expired"]
    /\ UNCHANGED <<list, disk, menu, flagVars, opener, pc, want, mine, copy,
                   closer, main, recorded, tried>>

(* The deferred ended(), after which a failed open records nothing. *)
OpenEnded(o) ==
    /\ opener[o] = "opening"
    /\ opener' \in {[opener EXCEPT ![o] = "opened"], [opener EXCEPT ![o] = "idle"]}
    /\ opens' = [opens EXCEPT ![o] = "none"]
    /\ timer' = IF dirty /\ Held THEN Armed ELSE timer
    /\ UNCHANGED <<list, disk, menu, dirty, saving, started, finished, closed,
                   pc, want, mine, copy, closer, main, recorded, tried>>

(* recent.Add *)
Add(o) ==
    /\ opener[o] = "opened"
    /\ list < MaxChanges
    /\ list' = list + 1
    /\ opener' = [opener EXCEPT ![o] = "added"]
    /\ UNCHANGED <<disk, menu, flagVars, opens, pc, want, mine, copy, closer,
                   main, recorded, tried>>

(* recentFlush.Record *)
Record(o) ==
    /\ opener[o] = "added"
    /\ opener' = [opener EXCEPT ![o] = "idle"]
    /\ dirty' = TRUE
    /\ timer' = Armed
    /\ recorded' = Reported
    /\ UNCHANGED <<list, disk, menu, saving, started, finished, closed, opens,
                   pc, want, mine, copy, closer, main, tried>>

-----------------------------------------------------------------------------
(* recent.Remove or recent.Clear, followed by SaveNow.                      *)

Change(c) ==
    /\ pc[c] \in {"idle", "returned"}
    /\ list < MaxChanges
    /\ list' = list + 1
    /\ mine' = [mine EXCEPT ![c] = list + 1]
    /\ pc' = [pc EXCEPT ![c] = "changed"]
    /\ UNCHANGED <<disk, menu, flagVars, opens, opener, want, copy, closer,
                   main, recorded, tried>>

(* Fault: want is off by one, so a save that began before the call will do. *)
SaveNowTakesAnySave(c) ==
    /\ pc[c] = "changed"
    /\ dirty' = TRUE
    /\ want' = [want EXCEPT ![c] = started]
    /\ pc' = [pc EXCEPT ![c] = "flush"]
    /\ recorded' = Reported
    /\ UNCHANGED <<list, disk, menu, saving, started, finished, closed, timer,
                   opens, opener, mine, copy, closer, main, tried>>

(* SaveNow's first section. *)
SaveNow(c) ==
    /\ pc[c] = "changed"
    /\ dirty' = TRUE
    /\ want' = [want EXCEPT ![c] = started + 1]
    /\ pc' = [pc EXCEPT ![c] = "flush"]
    /\ recorded' = Reported
    /\ UNCHANGED <<list, disk, menu, saving, started, finished, closed, timer,
                   opens, opener, mine, copy, closer, main, tried>>

(* SaveNow's wait: asleep on f.saved while a save it cannot use runs, back to
   flush(true) when none did the job, and out once one did or the flusher was
   closed. *)
SaveNowWait(c) ==
    /\ pc[c] = "wait"
    /\ pc' = [pc EXCEPT ![c] =
                IF saving /\ finished < want[c] THEN "asleep"
                ELSE IF finished >= want[c] \/ closed THEN "returned"
                ELSE "flush"]
    /\ UNCHANGED <<list, disk, menu, flagVars, opens, opener, want, mine, copy,
                   closer, main, recorded, tried>>

-----------------------------------------------------------------------------
(* flush                                                                    *)

TimerFires(f) ==
    /\ timer
    /\ pc[f] = "idle"
    /\ timer' = FALSE
    /\ pc' = [pc EXCEPT ![f] = "flush"]
    /\ UNCHANGED <<list, disk, menu, dirty, saving, started, finished, closed,
                   opens, opener, want, mine, copy, closer, main, recorded, tried>>

(* Fault: a flush the timer started goes on to SaveNow's wait. *)
ReturnedToWait(t) == "wait"

(* Where a thread goes when flush returns. *)
Returned(t) == IF t \in Callers THEN "wait" ELSE "idle"

(* Fault: a flush does not look whether a save is in progress. *)
MayFlushWhileSaving(t) == ~closed /\ dirty /\ (t \in Callers \/ ~Held)

(* flush(true) is SaveNow's, flush(false) the timer's. *)
MayFlush(t) == ~closed /\ dirty /\ ~saving /\ (t \in Callers \/ ~Held)

FlushSkips(t) ==
    /\ pc[t] = "flush"
    /\ ~MayFlush(t)
    /\ timer' = IF Held /\ dirty /\ ~saving /\ ~closed THEN TRUE ELSE timer
    /\ pc' = [pc EXCEPT ![t] = Returned(t)]
    /\ UNCHANGED <<list, disk, menu, dirty, saving, started, finished, closed,
                   opens, opener, want, mine, copy, closer, main, recorded, tried>>

FlushStarts(t) ==
    /\ pc[t] = "flush"
    /\ MayFlush(t)
    /\ dirty' = FALSE
    /\ saving' = TRUE
    /\ started' = started + 1
    /\ pc' = [pc EXCEPT ![t] = "copy"]
    /\ UNCHANGED <<list, disk, menu, finished, closed, timer, opens, opener,
                   want, mine, copy, closer, main, recorded, tried>>

(* List.Save holds saveMu from the copy to the end of the write. *)
SaveMuFree == closer # "write" /\ \A t \in Threads : pc[t] # "write"

SaveCopies(t) ==
    /\ pc[t] = "copy"
    /\ SaveMuFree
    /\ copy' = [copy EXCEPT ![t] = list]
    /\ pc' = [pc EXCEPT ![t] = "write"]
    /\ UNCHANGED <<list, disk, menu, flagVars, opens, opener, want, mine,
                   closer, main, recorded, tried>>

(* atomicfile.Write replaces the file or fails; saveRecent only logs that. *)
SaveWrites(t) ==
    /\ pc[t] = "write"
    /\ disk' \in {disk, copy[t]}
    /\ tried' = copy[t]
    /\ pc' = [pc EXCEPT ![t] = "ended"]
    /\ UNCHANGED <<list, menu, flagVars, opens, opener, want, mine, copy,
                   closer, main, recorded>>

(* Fault: nobody is woken when a save ends. *)
FlushEndsSilently(t) ==
    /\ pc[t] = "ended"
    /\ saving' = FALSE
    /\ finished' = finished + 1
    /\ timer' = IF dirty THEN Armed ELSE timer
    /\ pc' = [pc EXCEPT ![t] = "onmain"]
    /\ UNCHANGED <<list, disk, menu, dirty, started, closed, opens, opener,
                   want, mine, copy, closer, main, recorded, tried>>

(* Fault: a change reported during the save does not arm the timer. *)
FlushEndsUnarmed(t) ==
    /\ pc[t] = "ended"
    /\ saving' = FALSE
    /\ finished' = finished + 1
    /\ pc' = [s \in Threads |-> IF s = t THEN "onmain"
                                ELSE IF pc[s] = "asleep" THEN "wait" ELSE pc[s]]
    /\ closer' = IF closer = "asleep" THEN "waiting" ELSE closer
    /\ UNCHANGED <<list, disk, menu, dirty, started, closed, timer, opens,
                   opener, want, mine, copy, main, recorded, tried>>

(* The section after the save: count it, wake everyone waiting for it, and
   arm the timer for a change reported meanwhile. *)
FlushEnds(t) ==
    /\ pc[t] = "ended"
    /\ saving' = FALSE
    /\ finished' = finished + 1
    /\ timer' = IF dirty THEN Armed ELSE timer
    /\ pc' = [s \in Threads |-> IF s = t THEN "onmain"
                                ELSE IF pc[s] = "asleep" THEN "wait" ELSE pc[s]]
    /\ closer' = IF closer = "asleep" THEN "waiting" ELSE closer
    /\ UNCHANGED <<list, disk, menu, dirty, started, closed, opens, opener,
                   want, mine, copy, main, recorded, tried>>

(* Fault: the rebuild asks isClosed before it goes to the UI thread. *)
RebuildAsksEarly(t) ==
    /\ pc[t] = "onmain"
    /\ pc' = [pc EXCEPT ![t] = IF closed THEN Returned(t) ELSE "rebuild"]
    /\ UNCHANGED <<list, disk, menu, flagVars, opens, opener, want, mine, copy,
                   closer, main, recorded, tried>>

(* onMain: the rebuild asks isClosed on the UI thread first. *)
RebuildAsks(t) ==
    /\ pc[t] = "onmain"
    /\ main = "free"
    /\ IF closed
       THEN pc' = [pc EXCEPT ![t] = Returned(t)] /\ UNCHANGED main
       ELSE pc' = [pc EXCEPT ![t] = "rebuild"] /\ main' = t
    /\ UNCHANGED <<list, disk, menu, flagVars, opens, opener, want, mine, copy,
                   closer, recorded, tried>>

(* Fault: the rebuild shows the list its own save wrote. *)
RebuildShowsCopy(t) ==
    /\ pc[t] = "rebuild"
    /\ menu' = copy[t]
    /\ main' = "free"
    /\ pc' = [pc EXCEPT ![t] = Returned(t)]
    /\ UNCHANGED <<list, disk, flagVars, opens, opener, want, mine, copy,
                   closer, recorded, tried>>

(* rebuildRecentMenu shows recent.Paths. *)
Rebuild(t) ==
    /\ pc[t] = "rebuild"
    /\ menu' = list
    /\ main' = "free"
    /\ pc' = [pc EXCEPT ![t] = Returned(t)]
    /\ UNCHANGED <<list, disk, flagVars, opens, opener, want, mine, copy,
                   closer, recorded, tried>>

-----------------------------------------------------------------------------
(* Close, run on the UI thread by app.OnShutdown.                           *)

Close ==
    /\ closer = "open"
    /\ main = "free"
    /\ main' = "close"
    /\ closed' = TRUE
    /\ timer' = FALSE
    /\ closer' = "waiting"
    /\ UNCHANGED <<list, disk, menu, dirty, saving, started, finished, opens,
                   opener, pc, want, mine, copy, recorded, tried>>

CloseWaits ==
    /\ closer = "waiting"
    /\ saving
    /\ closer' = "asleep"
    /\ UNCHANGED <<list, disk, menu, flagVars, opens, opener, pc, want, mine,
                   copy, main, recorded, tried>>

CloseTakes ==
    /\ closer = "waiting"
    /\ ~saving
    /\ dirty' = FALSE
    /\ closer' = IF dirty THEN "copy" ELSE "done"
    /\ main' = IF dirty THEN main ELSE "free"
    /\ UNCHANGED <<list, disk, menu, saving, started, finished, closed, timer,
                   opens, opener, pc, want, mine, copy, recorded, tried>>

CloseCopies ==
    /\ closer = "copy"
    /\ SaveMuFree
    /\ copy' = [copy EXCEPT !["close"] = list]
    /\ closer' = "write"
    /\ UNCHANGED <<list, disk, menu, flagVars, opens, opener, pc, want, mine,
                   main, recorded, tried>>

CloseWrites ==
    /\ closer = "write"
    /\ disk' \in {disk, copy["close"]}
    /\ tried' = copy["close"]
    /\ closer' = "done"
    /\ main' = "free"
    /\ UNCHANGED <<list, menu, flagVars, opens, opener, pc, want, mine, copy,
                   recorded>>

-----------------------------------------------------------------------------
ThreadStep(t) ==
    \/ FlushSkips(t) \/ FlushStarts(t) \/ SaveCopies(t) \/ SaveWrites(t)
    \/ FlushEnds(t) \/ RebuildAsks(t) \/ Rebuild(t)

CallerStep(c) == SaveNow(c) \/ SaveNowWait(c)

CloserStep == CloseWaits \/ CloseTakes \/ CloseCopies \/ CloseWrites

OpenerStep(o) ==
    OpenStarted(o) \/ HoldExpires(o) \/ OpenEnded(o) \/ Add(o) \/ Record(o)

Next ==
    \/ \E o \in Openers : OpenerStep(o)
    \/ \E c \in Callers : Change(c) \/ CallerStep(c)
    \/ \E f \in Flushers : TimerFires(f)
    \/ \E t \in Threads : ThreadStep(t)
    \/ Close
    \/ CloserStep

(* A running goroutine keeps running, a pending timer fires, time passes.
   Nothing makes the user open, remove, clear or quit, and a parse may never
   return. *)
Fairness ==
    /\ \A t \in Threads : WF_vars(ThreadStep(t))
    /\ \A c \in Callers : WF_vars(CallerStep(c))
    /\ \A o \in Openers : WF_vars(HoldExpires(o)) /\ WF_vars(Record(o))
    /\ WF_vars(\E f \in Flushers : TimerFires(f))
    /\ WF_vars(CloserStep)

Spec == Init /\ [][Next]_vars
FairSpec == Spec /\ Fairness

-----------------------------------------------------------------------------
(* Properties                                                               *)

InSave(t) == pc[t] \in {"copy", "write", "ended"}

(* No two threads, Close's own save included, are ever inside f.save at once:
   the saving flag serialises the saves, and saveMu is never contended. *)
OneSaver ==
    /\ \A s, t \in Threads : InSave(s) /\ InSave(t) => s = t
    /\ closer \in {"copy", "write"} => \A t \in Threads : ~InSave(t)

(* The flusher keeps its types and never has two saves under way. *)
SaverSound == TypeOK /\ OneSaver

(* "SaveNow ... returns once a save that began after the call has finished":
   when it returns, the last save wrote a list that holds the caller's change,
   whatever saves were running when it was called. *)
SaveNowDurable ==
    \A c \in Callers : pc[c] = "returned" => tried >= mine[c] \/ closed

(* Close "saves a change still waiting, after any save in progress": once it
   returns, the last save wrote every change reported before it was called. *)
CloseSavesReported == closer = "done" => tried >= recorded

(* Whoever asked for a save and got an answer has it: SaveNow and Close return
   only when the changes they stand for were written. *)
SavesAreDurable == SaveNowDurable /\ CloseSavesReported

(* A reported change is never stranded: until Close, the timer runs, a save is
   in progress (and re-arms when it ends) or some thread is about to flush. *)
NoStrandedChange ==
    dirty /\ ~closed => timer \/ saving \/ \E t \in Threads : pc[t] = "flush"

(* "A rebuild that gets there after Close sees closed and does nothing": no
   step changes the menu once Close has begun. *)
NoRebuildAfterClose == [][closed => menu' = menu]_vars

(* Opens stop holding the save: they may go on starting, or one may never
   return, but not so that some open younger than maxHold is always there. *)
HoldsEnd == <>[]~Held

(* Every change reported before Close is eventually written, even when an open
   never returns; and the menu catches up with it and stays caught up, in
   whatever order the rebuilds of overlapping flushes reach the UI thread. *)
ReportedIsSavedAndShown ==
    HoldsEnd => \A v \in 1..MaxChanges :
        /\ (recorded >= v) ~> (tried >= v)
        /\ (recorded >= v) ~> (menu >= v \/ closed)

(* SaveNow returns, unless the application is shutting down, and Close returns:
   the UI thread is never stuck behind a save. *)
CallsReturn ==
    /\ \A c \in Callers : (pc[c] = "changed") ~> (pc[c] = "returned" \/ closed)
    /\ (closer = "waiting") ~> (closer = "done")

=============================================================================
