------------------------------ MODULE DiffSide ------------------------------
(***************************************************************************)
(* The right side of the Diff view                                         *)
(* (src/frontend/src/components/DetailPanel.tsx): a second document, open  *)
(* in the backend without a tab, that the panel must close when the user   *)
(* replaces it, closes the comparison, switches tabs or closes them all,   *)
(* and must not close once Reload has promoted it to the tab.              *)
(*                                                                         *)
(* Handlers and effects see the state of the last render (rStrip, rFront,  *)
(* rRight), and effects run some time after the render they belong to and  *)
(* before the next one.  Opens, reloads and closes of tabs are those of    *)
(* OpenTabs, each in one step: here they change the left side.             *)
(***************************************************************************)
EXTENDS Naturals, FiniteSets

CONSTANTS MaxAsks,      \* bound: the user's clicks; a document they open is numbered by its click
          NoRight          \* null

ASSUME DiffSideAssumption == MaxAsks \in Nat

\* Documents 1 and 2 are the tabs of two files at first.
FirstTabs == {1, 2}
SideIds == 1..(2 + MaxAsks)

ASSUME NoRightAssumption == NoRight \notin SideIds

VARIABLES sideDocs,       \* the documents the backend holds
          origin,         \* each document's file and, of a right side, the tab it was asked for
          strip,          \* AppState.tabs
          front,          \* AppState.activeTabId
          rStrip, rFront, \* tabsRef and activeTabIdRef
          gone,           \* releasedTabIds
          right,          \* diffRightTabId as last set
          rRight,         \* diffRightTabIdRef
          effFront,       \* the active tab the reset effect last ran for
          effRight,       \* the right side the cleanup effect is registered for
          due,            \* effects wait for the last render
          mounted,        \* mountedRef
          promoted,       \* promotedRightRef
          confirm,        \* compareConfirm: the comparison of a large file that waits for Continue
          asks,           \* the calls on their way
          asked,          \* bound: clicks so far
          overwritten     \* history: right sides replaced before any render saw them

dsVars == <<sideDocs, origin, strip, front, rStrip, rFront, gone, right, rRight, effFront,
            effRight, due, mounted, promoted, confirm, asks, asked, overwritten>>

appState == <<strip, front, gone>>
screenState == <<rStrip, rFront, rRight, effFront, effRight, due, mounted>>

DsInit ==
  /\ sideDocs = FirstTabs /\ strip = FirstTabs /\ rStrip = FirstTabs
  /\ origin = [i \in SideIds |-> [file |-> i, kind |-> "tab", tab |-> NoRight]]
  /\ front = 1 /\ rFront = 1 /\ effFront = 1
  /\ gone = {} /\ right = NoRight /\ rRight = NoRight /\ effRight = NoRight
  /\ due = FALSE /\ mounted = TRUE /\ promoted = NoRight /\ confirm = NoRight
  /\ asks = {} /\ asked = 0 /\ overwritten = {}

-----------------------------------------------------------------------------
(* The panel's state.                                                      *)

setDiffRightTabId(x) ==
  /\ right' = x
  /\ overwritten' = IF right \in {NoRight, rRight, x} THEN overwritten ELSE overwritten \cup {right}

KeepRight == UNCHANGED <<right, overwritten>>

\* The check each reply makes: the panel is there, on the tab it was asked for.
Current(t) == mounted /\ rFront = t

\* What a reply does to a panel that is still there, and to one that is not.
IfCurrent(t, then) == IF Current(t) THEN then ELSE KeepRight

-----------------------------------------------------------------------------
(* Calls.                                                                  *)

Asks(kind, t, i) == asks' = asks \cup {[kind |-> kind, tab |-> t, doc |-> i]}
Answered(a) == asks' = asks \ {a}
NewAsk == asked < MaxAsks /\ asked' = asked + 1
NewDoc == 3 + asked
Busy(kind) == \E a \in asks : a.kind = kind

\* Compare with another PDF: the button is there while there is no right side.
handlePickDiffFile ==
  /\ mounted /\ rRight = NoRight /\ rFront # NoRight /\ NewAsk
  /\ \E f \in FirstTabs :
       origin' = [origin EXCEPT ![NewDoc] = [file |-> f, kind |-> "pick", tab |-> rFront]]
  /\ Asks("pick", rFront, NewDoc)
  /\ KeepRight
  /\ UNCHANGED <<sideDocs, appState, screenState, promoted, confirm>>

\* Compare with File on Disk looks at the disk first.
handleCompare ==
  /\ mounted /\ rFront # NoRight /\ NewAsk
  /\ origin' = [origin EXCEPT ![NewDoc] =
                  [file |-> origin[rFront].file, kind |-> "compare", tab |-> rFront]]
  /\ Asks("check", rFront, NewDoc)
  /\ KeepRight
  /\ UNCHANGED <<sideDocs, appState, screenState, promoted, confirm>>

\* runCompare returns at once while a comparison opens its copy.
runCompare(req, rest) ==
  /\ asks' = IF Busy("compare") THEN rest ELSE rest \cup {[req EXCEPT !.kind = "compare"]}
  /\ KeepRight

\* The check answers nothing, the file is missing or cannot be looked at, is
\* large, or is compared now; a dialog that is open stays.
CheckLands(a) ==
  /\ a.kind = "check"
  /\ \/ Answered(a) /\ KeepRight /\ UNCHANGED confirm
     \/ Answered(a) /\ IfCurrent(a.tab, setDiffRightTabId(NoRight)) /\ UNCHANGED confirm
     \/ Current(a.tab) /\ Answered(a) /\ confirm' = a /\ KeepRight
     \/ Current(a.tab) /\ runCompare(a, asks \ {a}) /\ UNCHANGED confirm
  /\ UNCHANGED <<sideDocs, origin, appState, screenState, promoted, asked>>

\* Continue in the dialog that asks about a large file, or Cancel.
Continue ==
  /\ mounted /\ confirm # NoRight
  /\ confirm' = NoRight
  /\ \/ rFront = confirm.tab /\ runCompare(confirm, asks)
     \/ KeepRight /\ UNCHANGED asks
  /\ UNCHANGED <<sideDocs, origin, appState, screenState, promoted, asked>>

\* The document is open: it becomes the right side, or is closed at once.
SideOpens(a) ==
  IF Current(a.tab) THEN setDiffRightTabId(a.doc) /\ sideDocs' = sideDocs \cup {a.doc}
  ELSE KeepRight /\ UNCHANGED sideDocs

SideLands(a) ==
  /\ a.kind \in {"pick", "compare"} /\ Answered(a)
  /\ SideOpens(a)
  /\ UNCHANGED <<origin, appState, screenState, promoted, confirm, asked>>

\* A pick that is cancelled or fails leaves the right side, a failed compare
\* clears it.
SideFails(a) ==
  /\ a.kind \in {"pick", "compare"} /\ Answered(a)
  /\ IF a.kind = "compare" THEN IfCurrent(a.tab, setDiffRightTabId(NoRight)) ELSE KeepRight
  /\ UNCHANGED <<sideDocs, origin, appState, screenState, promoted, confirm, asked>>

CloseDiff ==
  /\ mounted /\ rRight # NoRight /\ NewAsk
  /\ setDiffRightTabId(NoRight)
  /\ UNCHANGED <<sideDocs, origin, appState, screenState, promoted, confirm, asks>>

-----------------------------------------------------------------------------
(* The tabs.                                                               *)

Holding(file) == {t \in strip : origin[t].file = file}

\* dispatchOpenedDocument with reload: the tab of the file takes the document
\* i, and every other document of the file that had the tab is released.
Replaces(i, opened) ==
  LET held    == Holding(origin[i].file)
      earlier == {t \in strip \cup rStrip : origin[t].file = origin[i].file} \ {i}
  IN  IF i \in gone THEN UNCHANGED appState /\ sideDocs' = opened
      ELSE /\ gone' = gone \cup earlier /\ sideDocs' = opened \ earlier
           /\ strip' = (strip \ held) \cup {i}
           /\ front' = IF held # {} /\ front \notin held THEN front ELSE i

\* The Diff header's Reload, offered for a copy from disk.  The click comes
\* after the effects of the render it is made on.
handlePromote ==
  /\ mounted /\ ~due /\ rRight # NoRight /\ origin[rRight].kind = "compare" /\ ~Busy("promote") /\ NewAsk
  /\ Asks("promote", rFront, rRight)
  /\ KeepRight
  /\ UNCHANGED <<sideDocs, origin, appState, screenState, promoted, confirm>>

\* Its tree is fetched: the copy becomes the tab if it is still the right
\* side.  A fetch that fails changes nothing.
PromoteLands(a) ==
  /\ a.kind = "promote" /\ Answered(a)
  /\ \/ /\ Current(a.tab) /\ rRight = a.doc
        /\ promoted' = a.doc /\ Replaces(a.doc, sideDocs)
     \/ UNCHANGED <<promoted, appState, sideDocs>>
  /\ KeepRight
  /\ UNCHANGED <<origin, screenState, confirm, asked>>

reloadTab ==
  /\ rFront # NoRight /\ NewAsk
  /\ ~\E a \in asks : a.kind = "reload" /\ a.tab = rFront
  /\ origin' = [origin EXCEPT ![NewDoc] = [origin[rFront] EXCEPT !.kind = "tab"]]
  /\ Asks("reload", rFront, NewDoc)
  /\ KeepRight
  /\ UNCHANGED <<sideDocs, appState, screenState, promoted, confirm>>

\* A reload of a tab that is gone closes its document again.
ReloadSettles(a) ==
  /\ a.kind = "reload" /\ Answered(a)
  /\ \/ a.tab \in rStrip /\ Replaces(a.doc, sideDocs \cup {a.doc})
     \/ UNCHANGED <<appState, sideDocs>>
  /\ KeepRight
  /\ UNCHANGED <<origin, screenState, promoted, confirm, asked>>

CloseTab(t) ==
  /\ t \in strip \cap rStrip /\ NewAsk
  /\ strip' = strip \ {t} /\ gone' = gone \cup {t} /\ sideDocs' = sideDocs \ {t}
  /\ front' = IF front # t THEN front
              ELSE IF strip = {t} THEN NoRight ELSE CHOOSE u \in strip : u # t
  /\ KeepRight
  /\ UNCHANGED <<origin, screenState, promoted, confirm, asks>>

ActivateTab(t) ==
  /\ t \in strip \cap rStrip /\ t # front /\ front' = t /\ NewAsk
  /\ KeepRight
  /\ UNCHANGED <<sideDocs, origin, strip, gone, screenState, promoted, confirm, asks>>

-----------------------------------------------------------------------------
(* Renders and effects.                                                    *)

\* The cleanup of the right side x: closed, unless it was promoted.
ClosesRight(x) == x # NoRight /\ promoted # x

\* A render that shows something new.  Without a tab the panel is unmounted,
\* and its cleanups run.
RenderPanel ==
  /\ mounted /\ ~due /\ <<strip, front, right>> # <<rStrip, rFront, rRight>>
  /\ rStrip' = strip /\ rFront' = front
  /\ IF strip # {}
     THEN /\ rRight' = right /\ due' = TRUE
          /\ KeepRight
          /\ UNCHANGED <<sideDocs, effFront, effRight, mounted, promoted, confirm>>
     ELSE /\ mounted' = FALSE /\ rRight' = NoRight /\ effRight' = NoRight /\ promoted' = NoRight
          /\ setDiffRightTabId(NoRight) /\ confirm' = NoRight
          /\ sideDocs' = IF ClosesRight(effRight) THEN sideDocs \ {effRight} ELSE sideDocs
          /\ UNCHANGED <<effFront, due>>
  /\ UNCHANGED <<origin, appState, asks, asked>>

\* The effects of the last render: the old right side's cleanup, and the
\* reset when the active tab is another one.
Effects ==
  /\ mounted /\ due /\ due' = FALSE
  /\ IF effRight # rRight
     THEN /\ sideDocs' = IF ClosesRight(effRight) THEN sideDocs \ {effRight} ELSE sideDocs
          /\ promoted' = IF promoted = effRight THEN NoRight ELSE promoted
     ELSE UNCHANGED <<sideDocs, promoted>>
  /\ effRight' = rRight /\ effFront' = rFront
  /\ IF effFront # rFront THEN setDiffRightTabId(NoRight) /\ confirm' = NoRight
     ELSE KeepRight /\ UNCHANGED confirm
  /\ UNCHANGED <<origin, appState, rStrip, rFront, rRight, mounted, asks, asked>>

DsNext ==
  \/ handlePickDiffFile \/ handleCompare \/ Continue \/ CloseDiff \/ handlePromote \/ reloadTab
  \/ \E a \in asks : CheckLands(a) \/ SideLands(a) \/ SideFails(a) \/ PromoteLands(a)
                       \/ ReloadSettles(a)
  \/ \E t \in SideIds : CloseTab(t) \/ ActivateTab(t)
  \/ RenderPanel \/ Effects

DsSpec == DsInit /\ [][DsNext]_dsVars

-----------------------------------------------------------------------------

\* The last render shows everything that was dispatched, its effects are done.
PanelSettled == ~mounted \/ (~due /\ <<strip, front, right>> = <<rStrip, rFront, rRight>>)

\* No tab ever loses its document to the panel.  When the panel has settled,
\* a right side is open and was asked for the tab it is compared with, and no
\* document stays open that neither a tab nor the comparison shows, except
\* one that was replaced before any render saw it.
DiffSideSound ==
  /\ strip \subseteq sideDocs
  /\ PanelSettled =>
       /\ rRight # NoRight => rRight \in sideDocs /\ origin[rRight].tab = rFront
       /\ sideDocs \subseteq strip \cup {rRight} \cup overwritten
=============================================================================
