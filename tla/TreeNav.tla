------------------------------ MODULE TreeNav ------------------------------
(***************************************************************************)
(* The Document Structure tree and the navigation of a tab                 *)
(* (src/frontend/src/components/TreePanel.tsx, the SELECT_NODE, history    *)
(* and NAVIGATE_TO_REF cases of hooks/useDocumentState.tsx): a link sets   *)
(* the tab's pending target, an effect reveals it over several calls, and  *)
(* rows load their children lazily, while tabs are switched, opened,       *)
(* replaced and closed and the panel is collapsed.                         *)
(*                                                                         *)
(* A reducer action acts on the tab that is active when it runs.  Handlers *)
(* see the last render (seen); effects run some time after the render they *)
(* belong to and before the next one, and with them the cleanup that sets  *)
(* a reveal's cancelled flag.  Of the rows only the document they are of   *)
(* is kept, and whether a target is found among them is open.              *)
(***************************************************************************)
EXTENDS Naturals, Sequences, FiniteSets

CONSTANTS NavNodes,      \* the nodes links and rows name
          MaxNavSteps,   \* bound: what the user and the menus do
          NoNav          \* null

\* Two tabs at first; the third id is that of an open or a reload.
NavTabs == 1..3

ASSUME NavAssumption ==
  /\ MaxNavSteps \in Nat /\ NoNav \notin NavTabs \cup NavNodes

VARIABLES app,        \* AppState: tabs, activeTabId (front), leftPanelCollapsed; is the third id used?
          nav,        \* each tab's pendingNavTarget, navHistory and navHistoryIndex
          sized,      \* hasSize
          rows,       \* treeData: the tab whose rows they are
          rowCache,   \* treeDataCache: the tab whose rows each entry holds
          seen,       \* what the panel last rendered
          ran,        \* the render its effects last ran for
          reveals,    \* the reveals under way
          loads,      \* the tabs whose GetChildren for a toggled row is under way
          navSteps,   \* bound: steps so far
          mixed,      \* history: tabs given the rows of another by a lazy load
          crossed     \* history: a change of tab or target overtook the render of another

tnVars == <<app, nav, sized, rows, rowCache, seen, ran, reveals, loads, navSteps, mixed, crossed>>

FreshNav == [pend |-> NoNav, hist |-> <<>>, at |-> 0]

Target == IF app.front = NoNav THEN NoNav ELSE nav[app.front].pend

\* What a render now would show; ready is treeReady.
Showing ==
  [tabs |-> app.tabs, front |-> app.front, pend |-> Target, collapsed |-> app.collapsed,
   ready |-> sized /\ rows # NoNav]

TnInit ==
  /\ app = [tabs |-> {1, 2}, front |-> 1, collapsed |-> FALSE, third |-> FALSE]
  /\ nav = [t \in NavTabs |-> FreshNav]
  /\ sized = TRUE /\ rows = 1
  /\ rowCache = [t \in NavTabs |-> IF t = 1 THEN 1 ELSE NoNav]
  /\ seen = Showing /\ ran = Showing
  /\ reveals = {} /\ loads = {} /\ navSteps = 0
  /\ mixed = {} /\ crossed = FALSE

panelState == <<sized, rows, rowCache, seen, ran>>

NavStep == navSteps < MaxNavSteps /\ navSteps' = navSteps + 1

\* A dispatch that changes the tab or the target while one before it has not
\* been rendered, or its effects have not run.
Crosses == crossed' = (crossed \/ Showing # seen \/ seen # ran)

-----------------------------------------------------------------------------
(* The reducer.                                                            *)

ActiveNav == nav[app.front]

OnFront(n) ==
  nav' = IF app.front = NoNav THEN nav ELSE [nav EXCEPT ![app.front] = n]

\* An entry remembers the tab it was chosen in, and whether the panel had
\* seen the tab that is active.
NavEntry(node, tab) ==
  [node |-> node, of |-> tab,
   unseen |-> ~(app.front = seen.front /\ seen.front = ran.front)]

\* SELECT_NODE: the current entry is not repeated, the forward history goes.
SELECT_NODE(n, e) ==
  IF n.at > 0 /\ n.hist[n.at].node = e.node THEN n
  ELSE [n EXCEPT !.hist = Append(SubSeq(@, 1, n.at), e), !.at = @ + 1]

NAVIGATE_BACK(n) == IF n.at <= 1 THEN n ELSE [n EXCEPT !.at = @ - 1]
NAVIGATE_FORWARD(n) == IF n.at >= Len(n.hist) THEN n ELSE [n EXCEPT !.at = @ + 1]
CLEAR_NAV_TARGET(n) == [n EXCEPT !.pend = NoNav]

-----------------------------------------------------------------------------
(* The user, the menus and the opens.                                      *)

\* A link, a row menu or the palette: the panel opens and shows the target.
NAVIGATE_TO_REF(node) ==
  /\ seen.front # NoNav /\ NavStep /\ Crosses
  /\ OnFront([ActiveNav EXCEPT !.pend = node])
  /\ app' = IF app.front = NoNav THEN app ELSE [app EXCEPT !.collapsed = FALSE]
  /\ UNCHANGED <<panelState, reveals, loads, mixed>>

\* A row of this tree, or of the pages or images panel, which do not leave
\* out the node that is selected already.
handleSelect(node) ==
  /\ seen.front # NoNav /\ NavStep
  /\ OnFront(SELECT_NODE(ActiveNav, NavEntry(node, seen.front)))
  /\ UNCHANGED <<app, panelState, reveals, loads, mixed, crossed>>

GoThroughHistory ==
  /\ seen.front # NoNav /\ NavStep
  /\ OnFront(NAVIGATE_BACK(ActiveNav)) \/ OnFront(NAVIGATE_FORWARD(ActiveNav))
  /\ UNCHANGED <<app, panelState, reveals, loads, mixed, crossed>>

TOGGLE_LEFT_PANEL ==
  /\ NavStep
  /\ app' = [app EXCEPT !.collapsed = ~@]
  /\ UNCHANGED <<nav, panelState, reveals, loads, mixed, crossed>>

ACTIVATE_TAB(t) ==
  /\ t \in seen.tabs /\ t # seen.front /\ NavStep /\ Crosses
  /\ app' = IF t \in app.tabs THEN [app EXCEPT !.front = t] ELSE app
  /\ UNCHANGED <<nav, panelState, reveals, loads, mixed>>

CLOSE_DOCUMENT(t) ==
  /\ t \in seen.tabs \cap app.tabs /\ NavStep /\ Crosses
  /\ \E u \in IF app.front # t THEN {app.front}
              ELSE IF app.tabs = {t} THEN {NoNav} ELSE app.tabs \ {t} :
       app' = [app EXCEPT !.tabs = @ \ {t}, !.front = u]
  /\ UNCHANGED <<nav, panelState, reveals, loads, mixed>>

\* The third document: a new tab in front, or another parse in the place of a
\* tab, which takes the focus unless it is the reload of a background tab.
OPEN_DOCUMENT_3 ==
  /\ ~app.third /\ NavStep /\ Crosses
  /\ \/ app' = [app EXCEPT !.tabs = @ \cup {3}, !.front = 3, !.third = TRUE]
     \/ \E t \in app.tabs : \E front \in {3, IF app.front = t THEN 3 ELSE app.front} :
          app' = [app EXCEPT !.tabs = (@ \ {t}) \cup {3}, !.front = front, !.third = TRUE]
  /\ UNCHANGED <<nav, panelState, reveals, loads, mixed>>

-----------------------------------------------------------------------------
(* Renders, effects and the size of the panel.                             *)

RenderNav ==
  /\ seen = ran /\ Showing # seen
  /\ seen' = Showing
  /\ UNCHANGED <<app, nav, sized, rows, rowCache, ran, reveals, loads, navSteps, mixed, crossed>>

\* The ResizeObserver reports a collapsed or reopened panel.
Measured ==
  /\ seen.front # NoNav /\ sized # ~seen.collapsed
  /\ sized' = ~seen.collapsed
  /\ UNCHANGED <<app, nav, rows, rowCache, seen, ran, reveals, loads, navSteps, mixed, crossed>>

RevealDeps(s) == <<s.pend, s.front, s.ready>>

\* Fault: only a new target cancels the reveal before it.
CancelsForTarget == seen.pend # ran.pend

Cancels == RevealDeps(seen) # RevealDeps(ran)

\* The effects of the last render, cleanups first: the reveal of the old
\* target is cancelled, another tab's rows are taken from the cache or built,
\* closed tabs are evicted, and the new target's reveal starts.  Without a
\* tab the panel is gone.
NavEffects ==
  /\ seen # ran /\ ran' = seen
  /\ LET moved == seen.front # ran.front
         kept  == [t \in NavTabs |-> IF t \in seen.tabs THEN rowCache[t] ELSE NoNav]
         own   == IF kept[seen.front] = NoNav THEN seen.front ELSE kept[seen.front]
         old   == IF Cancels THEN {[r EXCEPT !.live = FALSE] : r \in reveals} ELSE reveals
         new   == [tab |-> seen.front, target |-> seen.pend, at |-> "path", live |-> TRUE]
     IN  IF seen.front = NoNav
         THEN /\ rows' = NoNav /\ rowCache' = kept /\ sized' = FALSE /\ reveals' = old
         ELSE /\ rows' = IF moved THEN own ELSE rows
              /\ rowCache' = IF moved THEN [kept EXCEPT ![seen.front] = own] ELSE kept
              /\ reveals' = IF Cancels /\ seen.pend # NoNav /\ seen.ready THEN old \cup {new} ELSE old
              /\ UNCHANGED sized
  /\ UNCHANGED <<app, nav, seen, loads, navSteps, mixed, crossed>>

-----------------------------------------------------------------------------
(* A reveal: the path of the target, the children of the nodes on it, and  *)
(* the scroll, each awaited, and cancelled looked at after each.           *)

Advances(r, place) == reveals' = (reveals \ {r}) \cup {[r EXCEPT !.at = place]}
RevealEnds(r) == reveals' = reveals \ {r}

Discarded(r) ==
  /\ ~r.live /\ RevealEnds(r)
  /\ UNCHANGED <<app, nav, panelState, loads, navSteps, mixed, crossed>>

\* NAV_ERROR: a call failed, or the target is not among the rows.
NavFails(r) ==
  /\ r.live /\ r.at \in {"path", "expand"} /\ RevealEnds(r) /\ Crosses
  /\ OnFront(CLEAR_NAV_TARGET(ActiveNav))
  /\ UNCHANGED <<app, panelState, loads, navSteps, mixed>>

PathLands(r) ==
  /\ r.live /\ r.at = "path" /\ Advances(r, "expand")
  /\ UNCHANGED <<app, nav, panelState, loads, navSteps, mixed, crossed>>

\* expandNode: children fetched for a row go into the displayed rows and the
\* cache of the reveal's tab; when the target is among them it is scrolled to.
ExpandLands(r) ==
  /\ r.live /\ r.at = "expand"
  /\ rowCache' \in {rowCache, [rowCache EXCEPT ![r.tab] = rows]}
  /\ Advances(r, "expand") \/ Advances(r, "scroll")
  /\ UNCHANGED <<app, nav, sized, rows, seen, ran, loads, navSteps, mixed, crossed>>

\* The target is selected, and the tab's target cleared.
ScrollEnds(r) ==
  /\ r.live /\ r.at = "scroll" /\ RevealEnds(r) /\ Crosses
  /\ OnFront(CLEAR_NAV_TARGET(SELECT_NODE(ActiveNav, NavEntry(r.target, r.tab))))
  /\ UNCHANGED <<app, panelState, loads, navSteps, mixed>>

-----------------------------------------------------------------------------
(* A toggled row loads its children.                                       *)

\* The click comes after the effects of the render it is made on.
handleToggle ==
  /\ seen.front # NoNav /\ seen = ran /\ NavStep
  /\ loads' = loads \cup {seen.front}
  /\ UNCHANGED <<app, nav, panelState, reveals, mixed, crossed>>

\* Children of another tab than the rendered one go into its cache entry,
\* if it has one; those of the rendered tab into the displayed rows.
LoadLands(t) ==
  /\ t \in loads /\ loads' = loads \ {t}
  /\ \/ /\ IF t = seen.front
           THEN /\ rowCache' = [rowCache EXCEPT ![t] = rows]
                /\ mixed' = IF rows = t THEN mixed ELSE mixed \cup {t}
           ELSE UNCHANGED <<rowCache, mixed>>
     \/ UNCHANGED <<rowCache, mixed>>   \* the call failed
  /\ UNCHANGED <<app, nav, sized, rows, seen, ran, reveals, navSteps, crossed>>

TnNext ==
  \/ \E node \in NavNodes : NAVIGATE_TO_REF(node) \/ handleSelect(node)
  \/ GoThroughHistory \/ TOGGLE_LEFT_PANEL \/ OPEN_DOCUMENT_3 \/ handleToggle
  \/ \E t \in NavTabs : ACTIVATE_TAB(t) \/ CLOSE_DOCUMENT(t) \/ LoadLands(t)
  \/ RenderNav \/ Measured \/ NavEffects
  \/ \E r \in reveals : Discarded(r) \/ NavFails(r) \/ PathLands(r) \/ ExpandLands(r) \/ ScrollEnds(r)

TnSpec == TnInit /\ [][TnNext]_tnVars

-----------------------------------------------------------------------------
(* Properties.                                                             *)

\* Nothing waits for a render, an effect or a measurement.
NavSettled == seen = ran /\ Showing = seen /\ (seen.front # NoNav => sized = ~seen.collapsed)

\* The tree shows the rows of the active tab, and a cached tree is of its
\* own tab, whatever reveal or load landed between a render and its effects;
\* tabs in except are left out.
RowsOfTheirTab(except) ==
  /\ \A t \in NavTabs \ except : rowCache[t] \in {NoNav, t}
  /\ NavSettled /\ app.front # NoNav => rows = app.front \/ app.front \in except

\* A node is only ever selected in the tab it was chosen or revealed in, if
\* the panel had seen which tab is active.
SelectionsOfTheirTab ==
  \A t \in NavTabs : \A i \in DOMAIN nav[t].hist :
    nav[t].hist[i].of = t \/ nav[t].hist[i].unseen

\* The history is what Back and Forward walk: no entry twice in a row, the
\* selection inside it.
HistorySound ==
  \A t \in NavTabs :
    /\ nav[t].at <= Len(nav[t].hist) /\ (nav[t].at = 0 <=> nav[t].hist = <<>>)
    /\ \A i \in 2..Len(nav[t].hist) : nav[t].hist[i].node # nav[t].hist[i - 1].node

\* A pending target of the tab in front is being revealed, once, as soon as
\* the panel has a size, and nothing else is: it is never forgotten, through
\* switches, collapses and failed calls.
TargetsPursued ==
  NavSettled /\ ~crossed =>
    LET live == {<<r.tab, r.target>> : r \in {x \in reveals : x.live}}
    IN  live = IF seen.pend # NoNav /\ seen.ready THEN {<<seen.front, seen.pend>>} ELSE {}

RevealSound ==
  RowsOfTheirTab(mixed) /\ SelectionsOfTheirTab /\ HistorySound /\ TargetsPursued
=============================================================================
