----------------------------- MODULE DiskWatch -----------------------------
(***************************************************************************)
(* How a tab learns that its file changed on disk: the watcher's scheduler *)
(* goroutine (internal/filewatch/watcher.go), the inspector's stat         *)
(* (internal/pdfcore/filechange.go), the bound calls GetDiskStatus and     *)
(* SetWatchedTabs (internal/pdfservice/service.go), and the frontend's     *)
(* status store (frontend/src/lib/diskStatusStore.ts, diskCheck.ts and the *)
(* effects of App.jsx).                                                    *)
(*                                                                         *)
(* A file is described by the version it holds; a status by the version    *)
(* observed, so two statuses are equal when all their fields are.  Events  *)
(* and bound calls are handled in any order (Wails runs each on its own    *)
(* goroutine).  Poll intervals are left out: a tick comes at any moment.   *)
(***************************************************************************)
EXTENDS Naturals, FiniteSets, Sequences

CONSTANTS
    Tabs,        \* tab ids
    Versions,    \* what a file can hold: strings other than the names below
    MaxStats,    \* bound on stat goroutines at once
    EarlyCheck,  \* may a check start before the backend watches the tab?
    InOrder,     \* do SetWatchedTabs calls reach the backend in order?
    MaxUpsets,   \* bound on changes to the files and failed stats, together
    MaxChecks    \* bound on GetDiskStatus calls

Missing == "missing"
Current == "current"
None    == "none"

ASSUME VersionsAssumption ==
    Versions # {} /\ Versions \cap {Missing, Current, None} = {}
ASSUME TabsAssumption     == None \notin Tabs
ASSUME TimingAssumption   == EarlyCheck \in BOOLEAN /\ InOrder \in BOOLEAN
ASSUME BoundsAssumption   ==
    MaxStats \in Nat /\ MaxUpsets \in Nat /\ MaxChecks \in Nat

Stats == 1..MaxStats

VARIABLES
    file,        \* the file behind each tab: a version, or Missing
    loaded,      \* the fingerprint taken at Open
    doc,         \* is each document in the inspector's map?
    watched,     \* the ids last passed to SetWatchedTabs
    tab,         \* the scheduler's tabState of each tab, or NoState
    records,     \* Watcher.records
    wake,        \* Watcher.wake
    gained,      \* Watcher.focusGained
    running,     \* has Stop not been called?
    stat,        \* stat goroutines
    seq,         \* the scheduler's event counter
    events,      \* document:disk-status events on their way
    ui,          \* where each tab is in the frontend
    entry,       \* diskStatusStore: entries; None when the file is current
    lastSeq,     \* diskStatusStore: lastSeq; 0 when there is none
    released,    \* diskStatusStore: released
    watchCalls,  \* SetWatchedTabs calls on their way
    checks,      \* checkDiskStatus calls on their way
    upsets, checked   \* how much of each bound is used

backendVars == <<doc, watched, loaded>>
schedVars   == <<tab, records, wake, gained, running, stat, seq>>
uiVars      == <<ui, entry, lastSeq, released>>
callVars    == <<events, watchCalls, checks>>
boundVars   == <<upsets, checked>>
vars == <<file, backendVars, schedVars, uiVars, callVars, boundVars>>

Statuses == Versions \cup {Missing, Current}
NoState  == [last |-> None, cand |-> None, state |-> 0, same |-> 0,
             resync |-> FALSE, inFlight |-> FALSE, live |-> FALSE]
TabState == [last: Statuses \cup {None}, cand: Statuses \cup {None},
             state: 0..2, same: 0..2, resync: BOOLEAN, inFlight: BOOLEAN,
             live: BOOLEAN]
Idle     == [tab |-> None, res |-> None]

(* The types of the watcher's, the backend's and the store's state: in
   particular a failed stat never becomes a status the scheduler keeps. *)
TypeOK ==
    /\ file \in [Tabs -> Versions \cup {Missing}]
    /\ loaded \in [Tabs -> Versions \cup {None}]
    /\ doc \in [Tabs -> BOOLEAN]
    /\ watched \in SUBSET Tabs
    /\ tab \in [Tabs -> TabState]
    /\ records \in [Tabs -> Statuses \cup {None}]
    /\ wake \in BOOLEAN /\ gained \in BOOLEAN /\ running \in BOOLEAN
    /\ stat \in [Stats -> [tab: Tabs \cup {None},
                           res: Statuses \cup {None, "notfound", "error"}]]
    /\ seq \in Nat
    /\ events \in SUBSET [tab: Tabs, seq: Nat, st: Statuses]
    /\ ui \in [Tabs -> {"none", "dispatched", "shown", "closing", "gone"}]
    /\ entry \in [Tabs -> Statuses \cup {None}]
    /\ lastSeq \in [Tabs -> Nat]
    /\ released \in SUBSET Tabs
    /\ watchCalls \in Seq(SUBSET Tabs)
    /\ checks \in SUBSET [id: Nat, tab: Tabs, seq: Nat,
                          at: {"called", "statted", "reply"},
                          st: Statuses \cup {None}]
    /\ upsets \in Nat /\ checked \in Nat

Init ==
    /\ file = [t \in Tabs |-> CHOOSE v \in Versions : TRUE]
    /\ loaded = [t \in Tabs |-> None]
    /\ doc = [t \in Tabs |-> FALSE]
    /\ watched = {}
    /\ tab = [t \in Tabs |-> NoState]
    /\ records = [t \in Tabs |-> None]
    /\ wake = FALSE /\ gained = FALSE /\ running = TRUE
    /\ stat = [s \in Stats |-> Idle]
    /\ seq = 0
    /\ events = {}
    /\ ui = [t \in Tabs |-> "none"]
    /\ entry = [t \in Tabs |-> None]
    /\ lastSeq = [t \in Tabs |-> 0]
    /\ released = {}
    /\ watchCalls = <<>>
    /\ checks = {}
    /\ upsets = 0 /\ checked = 0

-----------------------------------------------------------------------------
(* The disk, and Inspector.DiskStatus                                       *)

(* Another program changes, removes or restores the file.  Stop comes when the
   application quits: after it nobody opens, closes, focuses or looks. *)
WriteFile(t, v) ==
    /\ running
    /\ upsets < MaxUpsets
    /\ v # file[t]
    /\ file' = [file EXCEPT ![t] = v]
    /\ upsets' = upsets + 1
    /\ UNCHANGED <<backendVars, schedVars, uiVars, callVars, checked>>

(* The file against the Open fingerprint. *)
DiskStatus(t) ==
    CASE file[t] = Missing    -> Missing
      [] file[t] = loaded[t]  -> Current
      [] OTHER                -> file[t]

StateOf(st) == IF st \in {Missing, Current} THEN st ELSE "changed"

-----------------------------------------------------------------------------
(* Opening and closing                                                      *)

(* checkDiskStatus sends GetDiskStatus with the seq it started from. *)
NewCheck(t) == [id |-> checked, tab |-> t, seq |-> lastSeq[t], at |-> "called",
                st |-> None]

(* Inspector.Open takes the fingerprint and adds the document; the frontend
   dispatches its tab, and a reload checks the new id at once. *)
Open(t) ==
    /\ running
    /\ ui[t] = "none"
    /\ file[t] # Missing
    /\ loaded' = [loaded EXCEPT ![t] = file[t]]
    /\ doc' = [doc EXCEPT ![t] = TRUE]
    /\ ui' = [ui EXCEPT ![t] = "dispatched"]
    /\ IF EarlyCheck /\ checked < MaxChecks
       THEN checks' = checks \cup {NewCheck(t)} /\ checked' = checked + 1
       ELSE UNCHANGED <<checks, checked>>
    /\ UNCHANGED <<file, watched, schedVars, entry, lastSeq, released, events,
                   watchCalls, upsets>>

(* tabsRef.current, and the ids last passed to retainDiskStatus. *)
Strip == {t \in Tabs : ui[t] \in {"shown", "closing"}}

(* retainDiskStatus(keep): ids that left are released, and the entries and seq
   history of every tab not kept are dropped. *)
Retain(keep) ==
    /\ released' = released \cup (Strip \ keep)
    /\ entry' = [t \in Tabs |-> IF t \in keep THEN entry[t] ELSE None]
    /\ lastSeq' = [t \in Tabs |-> IF t \in keep THEN lastSeq[t] ELSE 0]

(* A render shows every dispatched tab and drops every closed one; App.jsx's
   effects then retain the ids in the strip and send them to the backend. *)
Render ==
    LET keep == {t \in Tabs : ui[t] \in {"dispatched", "shown"}}
    IN  /\ keep # Strip
        /\ ui' = [t \in Tabs |-> CASE ui[t] = "dispatched" -> "shown"
                                   [] ui[t] = "closing"    -> "gone"
                                   [] OTHER                -> ui[t]]
        /\ Retain(keep)
        /\ watchCalls' = Append(watchCalls, keep)
        /\ UNCHANGED <<file, backendVars, schedVars, events, checks, boundVars>>

(* closeDocumentTab dispatches the close and calls CloseDocument. *)
CloseTab(t) ==
    /\ running
    /\ ui[t] = "shown"
    /\ ui' = [ui EXCEPT ![t] = "closing"]
    /\ UNCHANGED <<file, backendVars, schedVars, entry, lastSeq, released, callVars,
                   boundVars>>

CloseDocument(t) ==
    /\ ui[t] \in {"closing", "gone"}
    /\ doc[t]
    /\ doc' = [doc EXCEPT ![t] = FALSE]
    /\ UNCHANGED <<file, watched, loaded, schedVars, uiVars, callVars, boundVars>>

(* The i-th call on its way replaces the watched set. *)
SetWatchedTabs(i) ==
    /\ InOrder => i = 1
    /\ watched' = watchCalls[i]
    /\ watchCalls' = SubSeq(watchCalls, 1, i - 1) \o SubSeq(watchCalls, i + 1, Len(watchCalls))
    /\ UNCHANGED <<file, doc, loaded, schedVars, uiVars, events, checks, boundVars>>

-----------------------------------------------------------------------------
(* On-demand checks: GetDiskStatus                                          *)

CheckDiskStatus(t) ==
    /\ running
    /\ ui[t] = "shown"
    /\ EarlyCheck \/ t \in watched
    /\ checked < MaxChecks
    /\ checks' = checks \cup {NewCheck(t)}
    /\ checked' = checked + 1
    /\ UNCHANGED <<file, backendVars, schedVars, uiVars, events, watchCalls,
                   upsets>>

(* The stat. A document closed before the lookup, or a stat that fails, ends
   the check; one closed between the two still gets a status. *)
CheckStats(c) ==
    /\ c.at = "called"
    /\ \/ /\ checks' = (checks \ {c}) \cup
                      {[c EXCEPT !.at = "statted", !.st = DiskStatus(c.tab)]}
          /\ UNCHANGED upsets
       \/ /\ ~doc[c.tab]
          /\ checks' = checks \ {c}
          /\ UNCHANGED upsets
       \/ /\ upsets < MaxUpsets
          /\ checks' = checks \ {c}
          /\ upsets' = upsets + 1
    /\ UNCHANGED <<file, backendVars, schedVars, uiVars, events, watchCalls,
                   checked>>

(* RecordReported queues the result for the scheduler. *)
CheckRecords(c) ==
    /\ c.at = "statted"
    /\ checks' = (checks \ {c}) \cup {[c EXCEPT !.at = "reply"]}
    /\ records' = [records EXCEPT ![c.tab] = c.st]
    /\ wake' = TRUE
    /\ UNCHANGED <<file, backendVars, tab, gained, running, stat, seq, uiVars,
                   events, watchCalls, boundVars>>

(* write: `current' entries are never stored. *)
Stored(st) == IF st = Current THEN None ELSE st

(* Fault: a result for a released tab is stored. *)
CheckRepliesAnyTab(c) ==
    /\ c.at = "reply"
    /\ checks' = checks \ {c}
    /\ entry' = IF lastSeq[c.tab] > c.seq THEN entry
                ELSE [entry EXCEPT ![c.tab] = Stored(c.st)]
    /\ UNCHANGED <<file, backendVars, schedVars, ui, lastSeq, released, events,
                   watchCalls, boundVars>>

(* setDiskStatusFromCheck *)
CheckReplies(c) ==
    /\ c.at = "reply"
    /\ checks' = checks \ {c}
    /\ entry' = IF c.tab \in released \/ lastSeq[c.tab] > c.seq THEN entry
                ELSE [entry EXCEPT ![c.tab] = Stored(c.st)]
    /\ UNCHANGED <<file, backendVars, schedVars, ui, lastSeq, released, events,
                   watchCalls, boundVars>>

-----------------------------------------------------------------------------
(* The watcher's scheduler                                                  *)

(* The window gains focus. *)
SetFocused ==
    /\ running
    /\ ~gained
    /\ gained' = TRUE
    /\ wake' = TRUE
    /\ UNCHANGED <<file, backendVars, tab, records, running, stat, seq, uiVars,
                   callVars, boundVars>>

(* Fault: a recorded status starts a new tab state, inFlight included. *)
PendingStartsOver(t) ==
    IF records[t] = None THEN tab[t]
    ELSE [NoState EXCEPT !.last = records[t], !.resync = TRUE, !.live = TRUE]

(* Fault: a recorded status asks for no resync. *)
PendingWithoutResync(t) ==
    IF records[t] = None THEN tab[t]
    ELSE [tab[t] EXCEPT !.last = records[t], !.cand = None, !.state = 0,
                        !.same = 0, !.live = TRUE]

(* applyPending's effect on the tab states: a recorded status supersedes what
   was half settled and asks for a resync. *)
Pending(t) ==
    IF records[t] = None THEN tab[t]
    ELSE [tab[t] EXCEPT !.last = records[t], !.cand = None, !.state = 0,
                        !.same = 0, !.resync = TRUE, !.live = TRUE]

NoRecords == [t \in Tabs |-> None]

(* watchSource.TabIDs *)
TabIDs == {t \in watched : doc[t]}

(* checkAll reconciles the tab states ts with TabIDs. *)
Reconciled(ts) ==
    [t \in Tabs |->
        IF t \notin TabIDs THEN NoState
        ELSE IF ts[t].live THEN [ts[t] EXCEPT !.inFlight = TRUE]
        ELSE [NoState EXCEPT !.last = Current, !.inFlight = TRUE, !.live = TRUE]]

(* The stats checkAll starts, one for every tab that has none in flight, each
   on a goroutine of its own: goroutines are alike, so the first idle ones. *)
Starts(ts) ==
    LET due == {t \in TabIDs : ~ts[t].inFlight}
        idle == {s \in Stats : stat[s] = Idle}
    IN  {g \in [due -> idle] :
            /\ \A t, u \in due : g[t] = g[u] => t = u
            /\ \A t \in due : \A s \in idle : s < g[t] => \E u \in due : g[u] = s}

Started(g) ==
    [s \in Stats |-> IF \E t \in DOMAIN g : g[t] = s
                     THEN [tab |-> CHOOSE t \in DOMAIN g : g[t] = s, res |-> None]
                     ELSE stat[s]]

(* The tab states and stats after applyPending, with checkAll when a focus gain
   is pending (or the tick that follows calls it). *)
Applied(checks_all) ==
    LET ts == [t \in Tabs |-> Pending(t)]
    IN  IF checks_all
        THEN {[tab |-> Reconciled(ts), stat |-> Started(g)] : g \in Starts(ts)}
        ELSE {[tab |-> ts, stat |-> stat]}

Tick ==
    /\ running
    /\ \E a \in Applied(TRUE) : tab' = a.tab /\ stat' = a.stat
    /\ records' = NoRecords
    /\ gained' = FALSE
    /\ UNCHANGED <<file, backendVars, wake, running, seq, uiVars, callVars, boundVars>>

Wake ==
    /\ running
    /\ wake
    /\ wake' = FALSE
    /\ \E a \in Applied(gained) : tab' = a.tab /\ stat' = a.stat
    /\ records' = NoRecords
    /\ gained' = FALSE
    /\ UNCHANGED <<file, backendVars, running, seq, uiVars, callVars, boundVars>>

(* The stat goroutine's source call. The lookup comes before the stat, so a
   document closed in between still gets a status. *)
StatReads(s) ==
    /\ stat[s].tab # None /\ stat[s].res = None
    /\ LET t == stat[s].tab IN
       \/ /\ stat' = [stat EXCEPT ![s].res = DiskStatus(t)]
          /\ UNCHANGED upsets
       \/ /\ ~doc[t]
          /\ stat' = [stat EXCEPT ![s].res = "notfound"]
          /\ UNCHANGED upsets
       \/ /\ upsets < MaxUpsets
          /\ stat' = [stat EXCEPT ![s].res = "error"]
          /\ upsets' = upsets + 1
    /\ UNCHANGED <<file, backendVars, tab, records, wake, gained, running, seq,
                   uiVars, callVars, checked>>

Min2(n) == IF n > 2 THEN 2 ELSE n

(* settle's bookkeeping: streaks beyond two are all alike. *)
Observed(ts, obs) ==
    LET again == ts.state > 0 /\ StateOf(obs) = StateOf(ts.cand)
    IN  [ts EXCEPT !.cand  = obs,
                   !.state = IF again THEN Min2(ts.state + 1) ELSE 1,
                   !.same  = IF again /\ obs = ts.cand THEN Min2(ts.same + 1) ELSE 1]

(* settle's verdict on the updated state. *)
Settles(ts) ==
    /\ ts.state >= 2
    /\ \/ ts.resync
       \/ StateOf(ts.cand) # StateOf(ts.last)
       \/ ts.cand # Current /\ ts.same >= 2 /\ ts.cand # ts.last

(* Fault: a stat that failed is settled like any other. *)
ResultIgnoresErrors(ts, res) ==
    IF ~ts.live \/ res = "notfound" THEN [ts |-> NoState, emits |-> FALSE]
    ELSE LET new == [Observed(ts, res) EXCEPT !.inFlight = FALSE]
         IN  IF Settles(new)
             THEN [ts |-> [new EXCEPT !.resync = FALSE, !.last = res], emits |-> TRUE]
             ELSE [ts |-> new, emits |-> FALSE]

(* The tab's state after a result, and whether it is an event. *)
Result(ts, res) ==
    IF ~ts.live \/ res = "notfound" THEN [ts |-> NoState, emits |-> FALSE]
    ELSE IF res = "error"
    THEN [ts |-> [ts EXCEPT !.cand = None, !.state = 0, !.same = 0, !.inFlight = FALSE],
          emits |-> FALSE]
    ELSE LET new == [Observed(ts, res) EXCEPT !.inFlight = FALSE]
         IN  IF Settles(new)
             THEN [ts |-> [new EXCEPT !.resync = FALSE, !.last = res], emits |-> TRUE]
             ELSE [ts |-> new, emits |-> FALSE]

(* The scheduler takes a result: pending input first, then settle and emit. *)
TakeResult(s) ==
    /\ running
    /\ stat[s].res # None
    /\ \E a \in Applied(gained) :
        LET t   == stat[s].tab
            out == Result(a.tab[t], stat[s].res)
        IN  /\ tab' = [a.tab EXCEPT ![t] = out.ts]
            /\ stat' = [a.stat EXCEPT ![s] = Idle]
            /\ seq' = IF out.emits THEN seq + 1 ELSE seq
            /\ events' = IF out.emits
                         THEN events \cup {[tab |-> t, seq |-> seq + 1, st |-> stat[s].res]}
                         ELSE events
    /\ records' = NoRecords
    /\ gained' = FALSE
    /\ UNCHANGED <<file, backendVars, wake, running, uiVars, watchCalls, checks,
                   boundVars>>

Stop ==
    /\ running
    /\ running' = FALSE
    /\ UNCHANGED <<file, backendVars, tab, records, wake, gained, stat, seq, uiVars,
                   callVars, boundVars>>

(* Fault: a stat waits for the scheduler only, never for Stop. *)
DropResultNever(s) == FALSE /\ UNCHANGED vars

(* A stat that ends after Stop drops its result. *)
DropResult(s) ==
    /\ ~running
    /\ stat[s].res # None
    /\ stat' = [stat EXCEPT ![s] = Idle]
    /\ UNCHANGED <<file, backendVars, tab, records, wake, gained, running, seq,
                   uiVars, callVars, boundVars>>

-----------------------------------------------------------------------------
(* App.jsx's listener, then applyDiskStatusEvent. *)
DeliverEvent(e) ==
    /\ events' = events \ {e}
    /\ IF /\ e.tab \in Strip
          /\ e.tab \notin released
          /\ e.seq > lastSeq[e.tab]
       THEN /\ lastSeq' = [lastSeq EXCEPT ![e.tab] = e.seq]
            /\ entry' = [entry EXCEPT ![e.tab] = Stored(e.st)]
       ELSE UNCHANGED <<lastSeq, entry>>
    /\ UNCHANGED <<file, backendVars, schedVars, ui, released, watchCalls, checks,
                   boundVars>>

-----------------------------------------------------------------------------
CheckStep == \E c \in checks : CheckStats(c) \/ CheckRecords(c) \/ CheckReplies(c)

Next ==
    \/ \E t \in Tabs, v \in Versions \cup {Missing} : WriteFile(t, v)
    \/ \E t \in Tabs : Open(t) \/ CloseTab(t) \/ CloseDocument(t) \/ CheckDiskStatus(t)
    \/ Render
    \/ \E i \in DOMAIN watchCalls : SetWatchedTabs(i)
    \/ CheckStep
    \/ SetFocused \/ Tick \/ Wake \/ Stop
    \/ \E s \in Stats : StatReads(s) \/ TakeResult(s) \/ DropResult(s)
    \/ \E e \in events : DeliverEvent(e)

(* React renders, calls and events arrive, the scheduler keeps ticking and its
   stats return. *)
Fairness ==
    /\ WF_vars(Render)
    /\ \A t \in Tabs : WF_vars(CloseDocument(t))
    /\ WF_vars(\E i \in DOMAIN watchCalls : SetWatchedTabs(i))
    /\ WF_vars(CheckStep)
    /\ WF_vars(Tick) /\ WF_vars(Wake)
    /\ \A s \in Stats : WF_vars(StatReads(s)) /\ WF_vars(TakeResult(s) \/ DropResult(s))
    /\ WF_vars(\E e \in events : DeliverEvent(e))

Spec == Init /\ [][Next]_vars
FairSpec == Spec /\ Fairness

-----------------------------------------------------------------------------
(* Properties                                                               *)

(* A tab that left the strip keeps no status entry, whatever events and check
   results for it are still on their way ("released for good"). *)
NoEntryOutsideStrip == \A t \in Tabs : ui[t] = "gone" => entry[t] = None

(* checkAll "starts one stat for every tab that has none in flight": a tab
   never has two, so results for a tab come in the order of its checks. *)
OneStatPerTab ==
    \A s, u \in Stats : stat[s].tab # None /\ stat[s].tab = stat[u].tab => s = u

(* The watcher and the store keep their types, a closed tab keeps no entry, and
   a tab never has two stats in flight. *)
WatcherSound == TypeOK /\ NoEntryOutsideStrip /\ OneStatPerTab

(* Once the files stop changing, what every open tab shows is what is on disk,
   in whatever order events, checks and calls arrive. *)
Converges ==
    \A t \in Tabs :
        <>[](running /\ ui[t] = "shown" => entry[t] = Stored(DiskStatus(t)))

(* After Stop no stat goroutine is left waiting to hand in its result. *)
StopFreesStats == ~running ~> \A s \in Stats : stat[s] = Idle

=============================================================================
