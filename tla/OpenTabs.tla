------------------------------ MODULE OpenTabs ------------------------------
(***************************************************************************)
(* The documents the backend holds and the tabs the frontend shows.        *)
(*                                                                         *)
(* Every open mints a new tab id, parses the file and registers the        *)
(* document with the Inspector (inspector.go).  The opens the backend      *)
(* starts (menu, drop, file association) end in a document:opened event;   *)
(* the ones the frontend starts (the drain of pending opens, the button    *)
(* of the empty state, a reload from disk) fetch the tree with calls.      *)
(* Either way dispatchOpenedDocument puts the document into the reducer's  *)
(* tabs, and releases the document of an earlier open of the path;         *)
(* closeDocumentTab takes a tab out and releases its document.             *)
(*                                                                         *)
(* A dispatch runs on the reducer's state at once, but handlers read the   *)
(* tabs of the last render: tabs and shown differ in between.  React       *)
(* renders the dispatch of a click or a key press before anything else     *)
(* runs, and without the dispatches still waiting for a render; one made   *)
(* by a menu event or the reply of a call waits.                           *)
(***************************************************************************)
EXTENDS Naturals, FiniteSets, SequencesExt

CONSTANTS
    TabPaths,        \* file paths (Inspector.Open makes them absolute)
    MaxDocs,      \* bound: opens started; their tab ids are 1 .. MaxDocs
    MaxRepeats,   \* bound: document:opened events delivered a second time
    NoTab          \* no tab (null in the code)

ASSUME TabBoundsAssumption == MaxDocs \in Nat \ {0} /\ MaxRepeats \in Nat

Ids == 1 .. MaxDocs

ASSUME NoTabAssumption == NoTab \notin Ids

(***************************************************************************)
(* Who started the open: the backend ("event"), the drain of the pending   *)
(* opens, the empty state's button, or a reload.                           *)
(***************************************************************************)
Kinds == {"event", "drain", "button", "reload"}

VARIABLES
    docs,         \* Inspector.documents: ids of the registered documents
    open,         \* the opens, by the id they are given
    tabs,         \* AppState.tabs: the ids of the strip, left to right
    active,       \* AppState.activeTabId
    shown,        \* tabsRef: the strip as last rendered
    activeShown,  \* activeTabIdRef
    session,      \* sessionOpenTabs: the latest open of each path
    released,     \* releasedTabIds
    closing,      \* CloseDocument calls on their way to the backend
    repeats       \* bound: repeated deliveries so far

tabVars == <<docs, open, tabs, active, shown, activeShown, session, released,
          closing, repeats>>

backend == <<docs, open>>
reducer == <<tabs, active>>
screen == <<shown, activeShown>>

NoOpen == [at |-> "idle", kind |-> "event", path |-> NoTab, of |-> NoTab]

(***************************************************************************)
(* Types.  An open is "parsing" (OpenFile), "fetching" its tree, "sent" as *)
(* an event, and "landed" when the frontend took it or it failed.  The     *)
(* active tab is one of the strip, and there is one unless it is empty.    *)
(***************************************************************************)
ActiveOf(strip, act) ==
    IF strip = <<>> THEN act = NoTab ELSE act \in Range(strip)

Opens == [at   : {"idle", "parsing", "fetching", "sent", "landed"},
          kind : Kinds,
          path : TabPaths \cup {NoTab},
          of   : Ids \cup {NoTab}]

TabsTypeOK ==
    /\ docs \subseteq Ids
    /\ open \in [Ids -> Opens]
    /\ tabs \in Seq(Ids) /\ shown \in Seq(Ids)
    /\ IsInjective(tabs) /\ IsInjective(shown)
    /\ ActiveOf(tabs, active) /\ ActiveOf(shown, activeShown)
    /\ session \in [TabPaths -> Ids \cup {NoTab}]
    /\ released \subseteq Ids /\ closing \subseteq Ids
    /\ repeats \in 0 .. MaxRepeats

TabsInit ==
    /\ docs = {}
    /\ open = [i \in Ids |-> NoOpen]
    /\ tabs = <<>> /\ shown = <<>>
    /\ active = NoTab /\ activeShown = NoTab
    /\ session = [p \in TabPaths |-> NoTab]
    /\ released = {} /\ closing = {}
    /\ repeats = 0

-----------------------------------------------------------------------------
(* The reducer.                                                            *)

TabPath(i) == open[i].path

(***************************************************************************)
(* CLOSE_DOCUMENT on a strip, which holds a tab once: the tab leaves it;   *)
(* when it was the active one, its right neighbour, else its left one,     *)
(* becomes active.                                                         *)
(***************************************************************************)
Place(strip, t) == CHOOSE k \in DOMAIN strip : strip[k] = t

Without(strip, t) ==
    IF t \in Range(strip) THEN RemoveAt(strip, Place(strip, t)) ELSE strip

ActiveAfter(strip, act, t) ==
    LET rest == Without(strip, t)
        at == Place(strip, t)
    IN  IF act # t THEN act
        ELSE IF rest = <<>> THEN NoTab
        ELSE rest[IF at <= Len(rest) THEN at ELSE Len(rest)]

\* Where the strip holds the path.
Held(p) == {k \in DOMAIN tabs : TabPath(tabs[k]) = p}

\* Fault: a reload always takes the focus.
OPEN_DOCUMENT_Focuses(i, reload) ==
    IF i \in Range(tabs) THEN active' = i /\ UNCHANGED tabs
    ELSE IF Held(TabPath(i)) = {} THEN tabs' = Append(tabs, i) /\ active' = i
    ELSE LET k == CHOOSE k \in Held(TabPath(i)) : TRUE
         IN  tabs' = [tabs EXCEPT ![k] = i] /\ active' = i

(***************************************************************************)
(* OPEN_DOCUMENT: a tab that is there is activated; a tab of the same path *)
(* is replaced where it stands; otherwise the document becomes a new last  *)
(* tab.  A reload of a tab in the background leaves the focus alone.       *)
(***************************************************************************)
OPEN_DOCUMENT(i, reload) ==
    IF i \in Range(tabs) THEN active' = i /\ UNCHANGED tabs
    ELSE IF Held(TabPath(i)) = {} THEN tabs' = Append(tabs, i) /\ active' = i
    ELSE LET k == CHOOSE k \in Held(TabPath(i)) : TRUE
         IN  /\ tabs' = [tabs EXCEPT ![k] = i]
             /\ active' = IF reload /\ tabs[k] # active THEN active ELSE i

-----------------------------------------------------------------------------
(* openedDocuments.ts: the one way into the strip.                         *)

\* Fault: only the rendered tabs are searched for the earlier open.
EarlierRendered(i, seen) == {t \in seen : TabPath(t) = TabPath(i)} \ {i}

\* The earlier opens of the path: the caller's tab of it, the session's.
Earlier(i, seen) ==
    ({t \in seen : TabPath(t) = TabPath(i)} \cup {session[TabPath(i)]})
        \ {NoTab, i}

Repeated(i, seen) == i \in seen \/ session[TabPath(i)] = i

\* A first delivery takes the path over and releases the earlier opens; a
\* repeated one only reaches the reducer.
TakesOver(i, seen, reload) ==
    /\ IF Repeated(i, seen) THEN UNCHANGED <<session, released, closing>>
       ELSE /\ released' = released \cup Earlier(i, seen)
            /\ closing' = closing \cup Earlier(i, seen)
            /\ session' = [session EXCEPT ![TabPath(i)] = i]
    /\ OPEN_DOCUMENT(i, reload)

(***************************************************************************)
(* dispatchOpenedDocument(dispatch, seen, doc): a delivery whose document  *)
(* was released is dropped.                                                *)
(***************************************************************************)
dispatchOpenedDocument(i, seen, reload) ==
    IF i \in released THEN UNCHANGED <<reducer, session, released, closing>>
    ELSE TakesOver(i, seen, reload)

(***************************************************************************)
(* closeDocumentTab(dispatch, t): the tab leaves the reducer's strip, its  *)
(* path is forgotten, its document released.                               *)
(***************************************************************************)
closeDocumentTab(t) ==
    /\ tabs' = Without(tabs, t)
    /\ active' = ActiveAfter(tabs, active, t)
    /\ session' = [p \in TabPaths |->
                     IF session[p] = t THEN NoTab ELSE session[p]]
    /\ released' = released \cup {t}
    /\ closing' = closing \cup {t}

-----------------------------------------------------------------------------
(* Opening a file.                                                         *)

\* The next free id: newTabID never mints one twice.
NextId(i) == open[i].at = "idle" /\ \A j \in 1 .. i - 1 : open[j].at # "idle"

Starts(i, kind, p, of) ==
    /\ NextId(i)
    /\ open' = [open EXCEPT ![i] =
                  [at |-> "parsing", kind |-> kind, path |-> p, of |-> of]]
    /\ UNCHANGED <<docs, reducer, screen, session, released, closing, repeats>>

\* A path arrives; the button is there only while no tab is shown.
StartOpen(i, kind, p) ==
    /\ kind \in {"event", "drain", "button"}
    /\ kind = "button" => shown = <<>>
    /\ Starts(i, kind, p, NoTab)

\* reloadActiveTab: one reload of a tab at a time.
Reloading(t) == \E j \in Ids : /\ open[j].kind = "reload" /\ open[j].of = t
                               /\ open[j].at \in {"parsing", "fetching"}

StartReload(i) ==
    /\ activeShown \in Range(shown)
    /\ ~ Reloading(activeShown)
    /\ Starts(i, "reload", TabPath(activeShown), activeShown)

At(i, at) == open' = [open EXCEPT ![i].at = at]

\* OpenFile cannot read or parse the file.
OpenFails(i) ==
    /\ open[i].at = "parsing"
    /\ At(i, "landed")
    /\ UNCHANGED <<docs, reducer, screen, session, released, closing, repeats>>

\* Inspector.Open registers the document under its id.
OpenRegisters(i) ==
    /\ open[i].at = "parsing"
    /\ docs' = docs \cup {i}
    /\ At(i, "fetching")
    /\ UNCHANGED <<reducer, screen, session, released, closing, repeats>>

\* The tree cannot be read: the backend closes its own open at once, the
\* frontend asks it to.
FetchFails(i) ==
    /\ open[i].at = "fetching"
    /\ At(i, "landed")
    /\ IF open[i].kind = "event"
       THEN docs' = docs \ {i} /\ UNCHANGED closing
       ELSE closing' = closing \cup {i} /\ UNCHANGED docs
    /\ UNCHANGED <<reducer, screen, session, released, repeats>>

\* document:opened goes out.
EmitOpened(i) ==
    /\ open[i].at = "fetching" /\ open[i].kind = "event"
    /\ At(i, "sent")
    /\ UNCHANGED <<docs, reducer, screen, session, released, closing, repeats>>

\* The listener of App.jsx takes an event.
DocumentOpened(i) ==
    /\ open[i].at = "sent"
    /\ At(i, "landed")
    /\ dispatchOpenedDocument(i, Range(shown), FALSE)
    /\ UNCHANGED <<docs, screen, repeats>>

\* An event that was taken is delivered again.
DocumentOpenedAgain(i) ==
    /\ open[i].kind = "event" /\ open[i].at = "landed"
    /\ i \in docs \cup released
    /\ repeats < MaxRepeats
    /\ repeats' = repeats + 1
    /\ dispatchOpenedDocument(i, Range(shown), FALSE)
    /\ UNCHANGED <<backend, screen>>

\* The tree of a drained path, or of one picked with the button, is there.
OpenLands(i) ==
    /\ open[i].at = "fetching" /\ open[i].kind \in {"drain", "button"}
    /\ At(i, "landed")
    /\ dispatchOpenedDocument(
           i, IF open[i].kind = "button" THEN {} ELSE Range(shown), FALSE)
    /\ UNCHANGED <<docs, screen, repeats>>

\* A reload's tree is there: the tab is replaced, or the new document is
\* closed when the tab left the strip.
ReloadLands(i) ==
    /\ open[i].at = "fetching" /\ open[i].kind = "reload"
    /\ At(i, "landed")
    /\ IF open[i].of \in Range(shown)
       THEN dispatchOpenedDocument(i, Range(shown), TRUE)
       ELSE /\ closing' = closing \cup {i}
            /\ UNCHANGED <<reducer, session, released>>
    /\ UNCHANGED <<docs, screen, repeats>>

-----------------------------------------------------------------------------
(* The strip.                                                              *)

\* A click on a tab's close button: the close is rendered before anything
\* else runs, on top of the last render.
CloseClicked(t) ==
    /\ t \in Range(shown)
    /\ closeDocumentTab(t)
    /\ shown' = Without(shown, t)
    /\ activeShown' = ActiveAfter(shown, activeShown, t)
    /\ UNCHANGED <<backend, repeats>>

\* File > Close Document: the event's dispatch waits for a render.
CloseFromMenu ==
    /\ activeShown \in Range(shown)
    /\ closeDocumentTab(activeShown)
    /\ UNCHANGED <<backend, screen, repeats>>

\* ACTIVATE_TAB by a click or a key press, rendered at once; or by
\* Navigate > Next Document, which waits for a render.
Activate(t) ==
    /\ t \in Range(shown) /\ t # activeShown
    /\ active' = IF t \in Range(tabs) THEN t ELSE active
    /\ activeShown' \in {activeShown, t}
    /\ UNCHANGED <<backend, tabs, shown, session, released, closing, repeats>>

Render ==
    /\ <<shown, activeShown>> # <<tabs, active>>
    /\ shown' = tabs /\ activeShown' = active
    /\ UNCHANGED <<backend, reducer, session, released, closing, repeats>>

\* Inspector.Close; a document already gone is an error nobody shows.
CloseDocument(i) ==
    /\ i \in closing
    /\ closing' = closing \ {i}
    /\ docs' = docs \ {i}
    /\ UNCHANGED <<open, reducer, screen, session, released, repeats>>

-----------------------------------------------------------------------------
TabsNext ==
    \/ \E i \in Ids, kind \in Kinds, p \in TabPaths : StartOpen(i, kind, p)
    \/ \E i \in Ids : StartReload(i)
    \/ \E i \in Ids : OpenFails(i)
    \/ \E i \in Ids : OpenRegisters(i)
    \/ \E i \in Ids : FetchFails(i)
    \/ \E i \in Ids : EmitOpened(i)
    \/ \E i \in Ids : DocumentOpened(i)
    \/ \E i \in Ids : DocumentOpenedAgain(i)
    \/ \E i \in Ids : OpenLands(i)
    \/ \E i \in Ids : ReloadLands(i)
    \/ \E t \in Ids : CloseClicked(t)
    \/ CloseFromMenu
    \/ \E t \in Ids : Activate(t)
    \/ Render
    \/ \E i \in Ids : CloseDocument(i)

TabsSpec == TabsInit /\ [][TabsNext]_tabVars

-----------------------------------------------------------------------------
(* Properties.                                                             *)

(***************************************************************************)
(* A tab always has a document behind it: no tab is left in the strip      *)
(* whose document the backend has closed or has been asked to close, not   *)
(* by a late or repeated event, nor by opens and closes between renders.   *)
(***************************************************************************)
NoDeadTab == \A t \in Range(tabs) : t \in docs /\ t \notin closing

(***************************************************************************)
(* No document is lost: one the backend holds is a tab of the strip, on    *)
(* its way to become one, or about to be closed (releaseDocument and the   *)
(* clean-up of openPDFFile).                                               *)
(***************************************************************************)
NoLeak ==
    \A i \in docs : \/ i \in Range(tabs) \/ i \in closing
                    \/ open[i].at \in {"fetching", "sent"}

(***************************************************************************)
(* A path has at most one tab, and the session map names the tab of every  *)
(* path: the next open of the path finds the document it must release.     *)
(***************************************************************************)
OneTabPerPath == \A t \in Range(tabs) : session[TabPath(t)] = t

(***************************************************************************)
(* Tabs and documents correspond, in whatever order opens, closes, events  *)
(* and renders come.                                                       *)
(***************************************************************************)
TabsMatchDocuments == NoDeadTab /\ NoLeak /\ OneTabPerPath

(* The strip and the documents behind it are sound: the types, a tab in    *)
(* front unless the strip is empty, and one live document for each tab.    *)
TabsSound == TabsTypeOK /\ TabsMatchDocuments

(***************************************************************************)
(* A reload is quiet: when it lands, the paths of the strip, their order   *)
(* and the path that has the focus stay as they are (reloadTab), whatever  *)
(* was opened, closed or activated while it ran.  A close from the menu    *)
(* that is not rendered yet is the exception: reloadTab still sees the tab.*)
(***************************************************************************)
PathsOf(strip) == [k \in DOMAIN strip |-> TabPath(strip[k])]

ActivePath == IF active = NoTab THEN NoTab ELSE TabPath(active)

CloseUnseen(t) == t \in Range(shown) \ Range(tabs)

ReloadQuiet ==
    [][\A i \in Ids : ReloadLands(i) /\ ~CloseUnseen(open[i].of) =>
          /\ [k \in DOMAIN tabs' |-> open[tabs'[k]].path] = PathsOf(tabs)
          /\ (IF active' = NoTab THEN NoTab ELSE open[active'].path)
               = ActivePath]_tabVars

=============================================================================
