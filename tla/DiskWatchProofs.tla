-------------------------- MODULE DiskWatchProofs --------------------------
(***************************************************************************)
(* The disk watcher for any set of tabs and versions and any bounds: the   *)
(* types, no entry for a tab that left the strip, and, when the calls of   *)
(* SetWatchedTabs arrive in the order they were made, one stat per tab.    *)
(***************************************************************************)
EXTENDS DiskWatch, SequenceTheorems, TLAPS

(* A tab that left the strip is released for good. *)
GoneInv == \A t \in Tabs : ui[t] = "gone" => t \in released /\ entry[t] = None

(* A goroutine without a tab has no result. *)
IdleInv == \A s \in Stats : stat[s].tab = None => stat[s].res = None

(* What holds in whatever order the calls arrive. *)
BaseInv == TypeOK /\ IdleInv /\ GoneInv

(* A document is there from the open of its tab until the tab is closed. *)
DocInv == \A t \in Tabs : ui[t] \in {"dispatched", "shown"} => doc[t]

(* The watched set, and those the calls on their way will make it. *)
History == [i \in 0..Len(watchCalls) |-> IF i = 0 THEN watched ELSE watchCalls[i]]

(* Tab t is in none of the sets W[0], ..., W[n]. *)
Outside(t, W, n) == \A i \in 0..n : t \notin W[i]

(* A tab that is at u in the frontend enters the sets once and leaves them   *)
(* once: the sets it is in follow each other.                                *)
Life(t, u, W, n) ==
    /\ u \in {"none", "dispatched"} => Outside(t, W, n)
    /\ u \in {"shown", "closing"} => t \in W[n]
    /\ u = "gone" => t \notin W[n]
    /\ \A i, j, k \in 0..n : (i < j /\ j < k /\ t \in W[i] /\ t \in W[k]) => t \in W[j]

(* Every tab does. *)
WatchInv == \A t \in Tabs : Life(t, ui[t], History, Len(watchCalls))

(* checkAll will not start a stat of t again. *)
Over(t) ==
    /\ ui[t] \in {"closing", "gone"}
    /\ ~doc[t] \/ Outside(t, History, Len(watchCalls))

(* A stat was started for a tab the backend watched, and the scheduler knows *)
(* of it unless the tab is over.                                             *)
StatInv ==
    \A s \in Stats : stat[s].tab # None =>
        LET t == stat[s].tab
        IN  /\ ui[t] \in {"shown", "closing", "gone"}
            /\ t \in watched \/ Outside(t, History, Len(watchCalls))
            /\ tab[t].inFlight \/ Over(t)

(* The inductive invariant when they arrive in order. *)
IInv == BaseInv /\ DocInv /\ WatchInv /\ StatInv /\ OneStatPerTab

-----------------------------------------------------------------------------
(* The operators of the scheduler and the store keep their types.          *)

(* What a stat goroutine holds. *)
StatState == [tab: Tabs \cup {None}, res: Statuses \cup {None, "notfound", "error"}]

(* A tab without state. *)
LEMMA NoStateType == NoState \in TabState /\ ~NoState.inFlight /\ ~NoState.live
  BY DEF NoState, TabState

(* DiskStatus reports a version, Missing or Current. *)
LEMMA DiskStatusType ==
    ASSUME TypeOK, NEW t \in Tabs
    PROVE  DiskStatus(t) \in Statuses
<1>1. file[t] \in Versions \cup {Missing}
  BY DEF TypeOK
<1> QED
  BY <1>1 DEF DiskStatus, Statuses

(* What the store keeps of a status. *)
LEMMA StoredType ==
    ASSUME NEW st \in Statuses \cup {None}
    PROVE  Stored(st) \in Statuses \cup {None}
  BY DEF Stored

(* applyPending keeps what is known of the stat in flight. *)
LEMMA PendingType ==
    ASSUME TypeOK, NEW t \in Tabs
    PROVE  Pending(t) \in TabState /\ Pending(t).inFlight = tab[t].inFlight
<1>1. tab[t] \in TabState /\ records[t] \in Statuses \cup {None}
  BY DEF TypeOK
<1>2. CASE records[t] = None
  BY <1>1, <1>2 DEF Pending
<1>3. CASE records[t] # None
  <2> DEFINE z == 0
             last == records[t]
  <2>1. z \in 0..2 /\ None \in Statuses \cup {None}
    OBVIOUS
  <2>2. Pending(t) = [tab[t] EXCEPT !.last = last, !.cand = None, !.state = z,
                                    !.same = z, !.resync = TRUE, !.live = TRUE]
    BY <1>3 DEF Pending
  <2> HIDE DEF z, last
  <2>3. [tab[t] EXCEPT !.last = last, !.cand = None, !.state = z,
                       !.same = z, !.resync = TRUE, !.live = TRUE] \in TabState
    BY <1>1, <2>1 DEF TabState, last
  <2>4. Pending(t).inFlight = tab[t].inFlight
    BY <1>1, <2>2 DEF TabState
  <2> QED
    BY <2>2, <2>3, <2>4
<1> QED
  BY <1>2, <1>3

(* checkAll: every tab that is watched has a stat in flight. *)
LEMMA ReconciledType ==
    ASSUME NEW ts \in [Tabs -> TabState], NEW t \in Tabs
    PROVE  /\ Reconciled(ts)[t] \in TabState
           /\ t \in TabIDs => Reconciled(ts)[t].inFlight
<1>1. ts[t] \in TabState /\ NoState \in TabState
  BY NoStateType
<1>2. CASE t \notin TabIDs
  BY <1>1, <1>2 DEF Reconciled
<1>3. CASE t \in TabIDs /\ ts[t].live
  <2>1. Reconciled(ts)[t] = [ts[t] EXCEPT !.inFlight = TRUE]
    BY <1>3 DEF Reconciled
  <2> QED
    BY <1>1, <2>1 DEF TabState
<1>4. CASE t \in TabIDs /\ ~ts[t].live
  <2>1. Reconciled(ts)[t] = [NoState EXCEPT !.last = Current, !.inFlight = TRUE, !.live = TRUE]
    BY <1>4 DEF Reconciled
  <2> QED
    BY <1>1, <2>1 DEF TabState, Statuses
<1> QED
  BY <1>2, <1>3, <1>4

(* A result: what is reported is a status, and the stat is over. *)
LEMMA ResultType ==
    ASSUME NEW ts \in TabState, NEW res \in Statuses \cup {"notfound", "error"}
    PROVE  /\ Result(ts, res).ts \in TabState /\ Result(ts, res).emits \in BOOLEAN
           /\ Result(ts, res).emits => res \in Statuses
<1>1. CASE ~ts.live \/ res = "notfound"
  <2>1. Result(ts, res) = [ts |-> NoState, emits |-> FALSE]
    BY <1>1 DEF Result
  <2> QED
    BY <2>1, NoStateType
<1>2. CASE ts.live /\ res # "notfound" /\ res = "error"
  <2> DEFINE z == 0
             new == [ts EXCEPT !.cand = None, !.state = z, !.same = z, !.inFlight = FALSE]
  <2>1. Result(ts, res) = [ts |-> new, emits |-> FALSE]
    BY <1>2 DEF Result
  <2>2. z \in 0..2 /\ None \in Statuses \cup {None}
    OBVIOUS
  <2> HIDE DEF z
  <2>3. new \in TabState
    BY <2>2 DEF TabState
  <2> HIDE DEF new
  <2> QED
    BY <2>1, <2>3
<1>3. CASE ts.live /\ res # "notfound" /\ res # "error"
  <2> DEFINE new == [Observed(ts, res) EXCEPT !.inFlight = FALSE]
  <2>1. res \in Statuses
    BY <1>3
  <2>2. Observed(ts, res) \in TabState
    <3> DEFINE again == ts.state > 0 /\ StateOf(res) = StateOf(ts.cand)
               n == IF again THEN Min2(ts.state + 1) ELSE 1
               m == IF again /\ res = ts.cand THEN Min2(ts.same + 1) ELSE 1
    <3>1. n \in 0..2 /\ m \in 0..2
      BY DEF Min2, TabState
    <3>2. Observed(ts, res) = [ts EXCEPT !.cand = res, !.state = n, !.same = m]
      BY DEF Observed
    <3> HIDE DEF n, m
    <3> QED
      BY <2>1, <3>1, <3>2 DEF TabState
  <2>3. new \in TabState /\ [new EXCEPT !.resync = FALSE, !.last = res] \in TabState
    BY <2>1, <2>2 DEF TabState
  <2>4. Result(ts, res) = IF Settles(new)
            THEN [ts |-> [new EXCEPT !.resync = FALSE, !.last = res], emits |-> TRUE]
            ELSE [ts |-> new, emits |-> FALSE]
    BY <1>3 DEF Result
  <2> HIDE DEF new
  <2> QED
    BY <2>1, <2>3, <2>4
<1> QED
  BY <1>1, <1>2, <1>3

(* A stat starts on an idle goroutine of its own, for a tab that is due. *)
LEMMA StartsFacts ==
    ASSUME TypeOK, IdleInv, NEW ts \in [Tabs -> TabState], NEW g \in Starts(ts)
    PROVE  \A s \in Stats :
             \/ /\ Started(g)[s].tab \in TabIDs /\ Started(g)[s].res = None
                /\ Started(g)[s] \in StatState /\ ~ts[Started(g)[s].tab].inFlight
                /\ stat[s].tab = None
                /\ Started(g)[s].tab \in DOMAIN g /\ g[Started(g)[s].tab] = s
             \/ Started(g)[s] = stat[s] /\ \A t \in DOMAIN g : g[t] # s
<1> DEFINE due == {t \in TabIDs : ~ts[t].inFlight}
           idle == {s \in Stats : stat[s] = Idle}
<1>1. g \in [due -> idle]
  BY DEF Starts
<1>2. TabIDs \subseteq Tabs
  BY DEF TabIDs, TypeOK
<1> SUFFICES ASSUME NEW s \in Stats
             PROVE  \/ /\ Started(g)[s].tab \in TabIDs /\ Started(g)[s].res = None
                       /\ Started(g)[s] \in StatState /\ ~ts[Started(g)[s].tab].inFlight
                       /\ stat[s].tab = None
                       /\ Started(g)[s].tab \in DOMAIN g /\ g[Started(g)[s].tab] = s
                    \/ Started(g)[s] = stat[s] /\ \A t \in DOMAIN g : g[t] # s
  OBVIOUS
<1>3. CASE \E t \in DOMAIN g : g[t] = s
  <2> DEFINE u == CHOOSE t \in DOMAIN g : g[t] = s
  <2>1. u \in DOMAIN g /\ g[u] = s
    BY <1>3
  <2>2. Started(g)[s] = [tab |-> u, res |-> None]
    BY <1>3 DEF Started
  <2>3. u \in due /\ stat[s] = Idle
    BY <1>1, <2>1
  <2>4. [tab |-> u, res |-> None] \in StatState
    BY <1>2, <2>3 DEF StatState
  <2> HIDE DEF u
  <2> QED
    BY <2>1, <2>2, <2>3, <2>4 DEF Idle
<1>4. CASE ~\E t \in DOMAIN g : g[t] = s
  BY <1>4 DEF Started
<1> QED
  BY <1>3, <1>4

(* applyPending, with or without checkAll: stats in flight stay, new ones    *)
(* are for watched tabs without one, a goroutine each, and noted.            *)
LEMMA AppliedFacts ==
    ASSUME TypeOK, IdleInv, NEW b \in BOOLEAN, NEW a \in Applied(b)
    PROVE  /\ a.tab \in [Tabs -> TabState] /\ a.stat \in [Stats -> StatState]
           /\ \A s \in Stats : a.stat[s].tab = None => a.stat[s].res = None
           /\ \A s \in Stats : stat[s].tab # None => a.stat[s] = stat[s]
           /\ \A s \in Stats : stat[s].tab = None /\ a.stat[s].tab # None =>
                a.stat[s].tab \in TabIDs /\ ~tab[a.stat[s].tab].inFlight /\ b
           /\ \A s, u \in Stats :
                (stat[s].tab = None /\ stat[u].tab = None
                 /\ a.stat[s].tab # None /\ a.stat[s].tab = a.stat[u].tab) => s = u
           /\ \A t \in Tabs : a.tab[t].inFlight \/ ~tab[t].inFlight \/ (b /\ t \notin TabIDs)
           /\ \A t \in TabIDs : b => a.tab[t].inFlight
<1> DEFINE ts == [t \in Tabs |-> Pending(t)]
<1>1. ts \in [Tabs -> TabState] /\ \A t \in Tabs : ts[t].inFlight = tab[t].inFlight
  BY PendingType
<1>2. stat \in [Stats -> StatState] /\ TabIDs \subseteq Tabs
  BY DEF TypeOK, StatState, TabIDs
<1> HIDE DEF ts
<1>3. CASE ~b
  <2>1. a = [tab |-> ts, stat |-> stat]
    BY <1>3 DEF Applied, ts
  <2>2. a.tab = ts /\ a.stat = stat
    BY <2>1
  <2> QED
    BY <1>1, <1>2, <1>3, <2>2 DEF IdleInv
<1>4. CASE b
  <2>1. PICK g \in Starts(ts) : a = [tab |-> Reconciled(ts), stat |-> Started(g)]
    BY <1>4 DEF Applied, ts
  <2>2. a.tab = Reconciled(ts) /\ a.stat = Started(g)
    BY <2>1
  <2>3. Reconciled(ts) \in [Tabs -> TabState] /\ \A t \in TabIDs : Reconciled(ts)[t].inFlight
    <3>1. Reconciled(ts) = [t \in Tabs |-> Reconciled(ts)[t]]
      BY DEF Reconciled
    <3> QED
      BY <1>1, <1>2, <3>1, ReconciledType
  <2>4. ASSUME NEW s \in Stats
        PROVE  \/ /\ Started(g)[s].tab \in TabIDs /\ Started(g)[s].res = None
                  /\ Started(g)[s] \in StatState /\ ~ts[Started(g)[s].tab].inFlight
                  /\ stat[s].tab = None
                  /\ Started(g)[s].tab \in DOMAIN g /\ g[Started(g)[s].tab] = s
               \/ Started(g)[s] = stat[s] /\ \A t \in DOMAIN g : g[t] # s
    BY <1>1, <2>1, StartsFacts
  <2>5. Started(g) \in [Stats -> StatState]
    <3>1. Started(g) = [s \in Stats |-> Started(g)[s]]
      BY DEF Started
    <3> QED
      BY <1>2, <2>4, <3>1
  <2>6. \A s, u \in Stats :
          (stat[s].tab = None /\ stat[u].tab = None
           /\ Started(g)[s].tab # None /\ Started(g)[s].tab = Started(g)[u].tab) => s = u
    BY <2>4
  <2>7. \A s \in Stats : Started(g)[s].tab = None => Started(g)[s].res = None
    BY <2>4 DEF IdleInv
  <2>8. \A s \in Stats : stat[s].tab # None => Started(g)[s] = stat[s]
    BY <2>4
  <2>9. \A s \in Stats : stat[s].tab = None /\ Started(g)[s].tab # None =>
          Started(g)[s].tab \in TabIDs /\ ~tab[Started(g)[s].tab].inFlight
    BY <1>1, <1>2, <2>4
  <2> QED
    BY <1>4, <2>2, <2>3, <2>5, <2>6, <2>7, <2>8, <2>9
<1> QED
  BY <1>3, <1>4

-----------------------------------------------------------------------------
(* The base invariant.                                                     *)

(* Nothing is open at first. *)
LEMMA InitBase == Init => BaseInv
<1> SUFFICES ASSUME Init PROVE BaseInv
  OBVIOUS
<1>1. file \in [Tabs -> Versions \cup {Missing}]
  BY VersionsAssumption DEF Init
<1>2. stat \in [Stats -> StatState] /\ Idle \in StatState
  BY DEF Init, Idle, StatState
<1>3. tab \in [Tabs -> TabState]
  BY NoStateType DEF Init
<1>4. watchCalls \in Seq(SUBSET Tabs)
  BY DEF Init
<1>5. TypeOK
  BY <1>1, <1>2, <1>3, <1>4 DEF Init, TypeOK, StatState
<1> QED
  BY <1>5 DEF Init, BaseInv, IdleInv, GoneInv, Idle

(* Files, opens, closes and renders. *)
LEMMA TabStepsBase ==
    ASSUME BaseInv, NEW t \in Tabs,
           \/ \E v \in Versions \cup {Missing} : WriteFile(t, v)
           \/ Open(t) \/ CloseTab(t) \/ CloseDocument(t) \/ CheckDiskStatus(t)
    PROVE  BaseInv'
<1> USE DEF backendVars, schedVars, uiVars, callVars, boundVars
<1>1. TypeOK /\ IdleInv /\ GoneInv /\ checked \in Nat /\ upsets \in Nat
  BY DEF BaseInv, TypeOK
<1>2. CASE \E v \in Versions \cup {Missing} : WriteFile(t, v)
  <2>1. TypeOK'
    BY <1>1, <1>2 DEF WriteFile, TypeOK
  <2> QED
    BY <1>1, <1>2, <2>1 DEF WriteFile, BaseInv, IdleInv, GoneInv
<1>3. NewCheck(t) \in [id: Nat, tab: Tabs, seq: Nat, at: {"called", "statted", "reply"},
                       st: Statuses \cup {None}]
  BY <1>1 DEF NewCheck, TypeOK
<1>4. CASE Open(t)
  <2>1. file[t] \in Versions
    BY <1>1, <1>4 DEF Open, TypeOK
  <2>2. loaded' \in [Tabs -> Versions \cup {None}] /\ doc' \in [Tabs -> BOOLEAN]
        /\ ui' \in [Tabs -> {"none", "dispatched", "shown", "closing", "gone"}]
    BY <1>1, <1>4, <2>1 DEF Open, TypeOK
  <2>3. checks' \in SUBSET [id: Nat, tab: Tabs, seq: Nat, at: {"called", "statted", "reply"},
                            st: Statuses \cup {None}] /\ checked' \in Nat
    BY <1>1, <1>3, <1>4 DEF Open, TypeOK
  <2>4. TypeOK'
    BY <1>1, <1>4, <2>2, <2>3 DEF Open, TypeOK
  <2> QED
    BY <1>1, <1>4, <2>4 DEF Open, BaseInv, IdleInv, GoneInv, TypeOK
<1>5. CASE CloseTab(t)
  <2>1. TypeOK'
    BY <1>1, <1>5 DEF CloseTab, TypeOK
  <2> QED
    BY <1>1, <1>5, <2>1 DEF CloseTab, BaseInv, IdleInv, GoneInv, TypeOK
<1>6. CASE CloseDocument(t)
  <2>1. TypeOK'
    BY <1>1, <1>6 DEF CloseDocument, TypeOK
  <2> QED
    BY <1>1, <1>6, <2>1 DEF CloseDocument, BaseInv, IdleInv, GoneInv
<1>7. CASE CheckDiskStatus(t)
  <2>1. TypeOK'
    BY <1>1, <1>3, <1>7 DEF CheckDiskStatus, TypeOK
  <2> QED
    BY <1>1, <1>7, <2>1 DEF CheckDiskStatus, BaseInv, IdleInv, GoneInv
<1> QED
  BY <1>2, <1>4, <1>5, <1>6, <1>7

(* A render releases the tabs that leave the strip. *)
LEMMA RenderBase ==
    ASSUME BaseInv, Render
    PROVE  BaseInv'
<1> USE DEF backendVars, schedVars, uiVars, callVars, boundVars
<1> DEFINE keep == {t \in Tabs : ui[t] \in {"dispatched", "shown"}}
<1>1. TypeOK /\ IdleInv /\ GoneInv
  BY DEF BaseInv
<1>2. /\ ui' = [t \in Tabs |-> CASE ui[t] = "dispatched" -> "shown"
                                 [] ui[t] = "closing"    -> "gone"
                                 [] OTHER                -> ui[t]]
      /\ released' = released \cup (Strip \ keep)
      /\ entry' = [t \in Tabs |-> IF t \in keep THEN entry[t] ELSE None]
      /\ lastSeq' = [t \in Tabs |-> IF t \in keep THEN lastSeq[t] ELSE 0]
      /\ watchCalls' = Append(watchCalls, keep)
      /\ UNCHANGED <<file, backendVars, schedVars, events, checks, boundVars>>
  BY DEF Render, Retain
<1>3. ui' \in [Tabs -> {"none", "dispatched", "shown", "closing", "gone"}]
  BY <1>1, <1>2 DEF TypeOK
<1>4. entry' \in [Tabs -> Statuses \cup {None}] /\ lastSeq' \in [Tabs -> Nat] /\ released' \in SUBSET Tabs
  BY <1>1, <1>2 DEF TypeOK, Strip
<1>5. watchCalls' \in Seq(SUBSET Tabs)
  <2>1. keep \in SUBSET Tabs
    OBVIOUS
  <2> HIDE DEF keep
  <2> QED
    BY <1>1, <1>2, <2>1, AppendProperties DEF TypeOK
<1>6. TypeOK'
  BY <1>1, <1>2, <1>3, <1>4, <1>5 DEF TypeOK
<1>7. ASSUME NEW t \in Tabs, ui'[t] = "gone" PROVE t \in released' /\ entry'[t] = None
  <2>1. ui[t] \in {"closing", "gone"}
    BY <1>1, <1>2, <1>7 DEF TypeOK
  <2>2. t \notin keep
    BY <2>1
  <2>3. t \in released \cup Strip
    BY <1>1, <2>1 DEF GoneInv, Strip
  <2> QED
    BY <1>2, <2>2, <2>3
<1> QED
  BY <1>1, <1>2, <1>6, <1>7 DEF BaseInv, IdleInv, GoneInv

(* A call of SetWatchedTabs arrives: one of those sent. *)
LEMMA WatchBase ==
    ASSUME BaseInv, NEW i \in DOMAIN watchCalls, SetWatchedTabs(i)
    PROVE  BaseInv'
<1> USE DEF backendVars, schedVars, uiVars, callVars, boundVars
<1>1. TypeOK /\ IdleInv /\ GoneInv /\ watchCalls \in Seq(SUBSET Tabs) /\ i \in 1..Len(watchCalls)
  BY DEF BaseInv, TypeOK
<1>2. watched' \in SUBSET Tabs
  BY <1>1, ElementOfSeq DEF SetWatchedTabs
<1>3. watchCalls' \in Seq(SUBSET Tabs)
  <2>1. /\ SubSeq(watchCalls, 1, i - 1) \in Seq(SUBSET Tabs)
        /\ SubSeq(watchCalls, i + 1, Len(watchCalls)) \in Seq(SUBSET Tabs)
    BY <1>1, SubSeqProperties
  <2> QED
    BY <2>1, ConcatProperties DEF SetWatchedTabs
<1>4. TypeOK'
  BY <1>1, <1>2, <1>3 DEF SetWatchedTabs, TypeOK
<1> QED
  BY <1>1, <1>4 DEF SetWatchedTabs, BaseInv, IdleInv, GoneInv

(* The type of the checks on their way. *)
CheckSet == [id: Nat, tab: Tabs, seq: Nat, at: {"called", "statted", "reply"}, st: Statuses \cup {None}]

(* A GetDiskStatus call moves on; its answer for a released tab is dropped. *)
LEMMA CheckBase ==
    ASSUME BaseInv, NEW c \in checks, CheckStats(c) \/ CheckRecords(c) \/ CheckReplies(c)
    PROVE  BaseInv'
<1> USE DEF backendVars, schedVars, uiVars, callVars, boundVars
<1>1. TypeOK /\ IdleInv /\ GoneInv /\ checks \in SUBSET CheckSet /\ c \in CheckSet /\ upsets \in Nat
  BY DEF BaseInv, TypeOK, CheckSet
<1>2. c.tab \in Tabs /\ c.st \in Statuses \cup {None}
  BY <1>1 DEF CheckSet
<1>3. CASE CheckStats(c)
  <2>1. DiskStatus(c.tab) \in Statuses
    BY <1>1, <1>2, DiskStatusType
  <2>2. [c EXCEPT !.at = "statted", !.st = DiskStatus(c.tab)] \in CheckSet
    BY <1>1, <2>1 DEF CheckSet
  <2>3. checks' \in SUBSET CheckSet /\ upsets' \in Nat
    BY <1>1, <1>3, <2>2 DEF CheckStats
  <2>4. TypeOK'
    BY <1>1, <1>3, <2>3 DEF CheckStats, TypeOK, CheckSet
  <2> QED
    BY <1>1, <1>3, <2>4 DEF CheckStats, BaseInv, IdleInv, GoneInv
<1>4. CASE CheckRecords(c)
  <2>1. [c EXCEPT !.at = "reply"] \in CheckSet
    BY <1>1 DEF CheckSet
  <2>2. checks' \in SUBSET CheckSet /\ records' \in [Tabs -> Statuses \cup {None}]
    BY <1>1, <1>2, <1>4, <2>1 DEF CheckRecords, TypeOK
  <2>3. TypeOK'
    BY <1>1, <1>4, <2>2 DEF CheckRecords, TypeOK, CheckSet
  <2> QED
    BY <1>1, <1>4, <2>3 DEF CheckRecords, BaseInv, IdleInv, GoneInv
<1>5. CASE CheckReplies(c)
  <2>1. Stored(c.st) \in Statuses \cup {None}
    BY <1>2, StoredType
  <2>2. entry' \in [Tabs -> Statuses \cup {None}]
    BY <1>1, <1>5, <2>1 DEF CheckReplies, TypeOK
  <2>3. TypeOK'
    BY <1>1, <1>5, <2>2 DEF CheckReplies, TypeOK
  <2>4. \A t \in Tabs : t \in released => entry'[t] = entry[t]
    BY <1>1, <1>5 DEF CheckReplies, TypeOK
  <2> QED
    BY <1>1, <1>5, <2>3, <2>4 DEF CheckReplies, BaseInv, IdleInv, GoneInv
<1> QED
  BY <1>3, <1>4, <1>5

(* The scheduler's input and its end. *)
LEMMA SchedulerBase ==
    ASSUME BaseInv, SetFocused \/ Stop \/ Tick \/ Wake
    PROVE  BaseInv'
<1> USE DEF backendVars, schedVars, uiVars, callVars, boundVars
<1>1. TypeOK /\ IdleInv /\ GoneInv /\ gained \in BOOLEAN
  BY DEF BaseInv, TypeOK
<1>2. CASE SetFocused
  BY <1>1, <1>2 DEF SetFocused, BaseInv, TypeOK, IdleInv, GoneInv
<1>3. CASE Stop
  BY <1>1, <1>3 DEF Stop, BaseInv, TypeOK, IdleInv, GoneInv
<1>4. CASE Tick \/ Wake
  <2>1. \E b \in BOOLEAN : \E a \in Applied(b) : tab' = a.tab /\ stat' = a.stat
    BY <1>1, <1>4 DEF Tick, Wake
  <2>2. /\ tab' \in [Tabs -> TabState] /\ stat' \in [Stats -> StatState]
        /\ \A s \in Stats : stat'[s].tab = None => stat'[s].res = None
    BY <1>1, <2>1, AppliedFacts
  <2>3. /\ records' \in [Tabs -> Statuses \cup {None}] /\ gained' \in BOOLEAN /\ wake' \in BOOLEAN
        /\ UNCHANGED <<file, backendVars, running, seq, uiVars, callVars, boundVars>>
    BY <1>1, <1>4 DEF Tick, Wake, NoRecords, TypeOK
  <2>4. TypeOK'
    BY <1>1, <2>2, <2>3 DEF TypeOK, StatState
  <2> QED
    BY <1>1, <2>2, <2>3, <2>4 DEF BaseInv, IdleInv, GoneInv
<1> QED
  BY <1>2, <1>3, <1>4

(* A stat gets its result, hands it in or drops it. *)
LEMMA StatBase ==
    ASSUME BaseInv, NEW s \in Stats, StatReads(s) \/ TakeResult(s) \/ DropResult(s)
    PROVE  BaseInv'
<1> USE DEF backendVars, schedVars, uiVars, callVars, boundVars
<1>1. /\ TypeOK /\ IdleInv /\ GoneInv /\ gained \in BOOLEAN /\ upsets \in Nat /\ seq \in Nat
      /\ stat \in [Stats -> StatState] /\ stat[s] \in StatState
  BY DEF BaseInv, TypeOK, StatState
<1>2. Idle \in StatState /\ Idle.res = None
  BY DEF Idle, StatState
<1>3. CASE StatReads(s)
  <2>1. stat[s].tab \in Tabs
    BY <1>1, <1>3 DEF StatReads, StatState
  <2>2. DiskStatus(stat[s].tab) \in Statuses
    BY <1>1, <2>1, DiskStatusType
  <2>3. PICK r \in Statuses \cup {"notfound", "error"} : stat' = [stat EXCEPT ![s].res = r]
    BY <1>3, <2>2 DEF StatReads
  <2>4. stat' \in [Stats -> StatState] /\ \A u \in Stats : stat'[u].tab = stat[u].tab
        /\ (stat'[u].tab = None => stat'[u].res = None)
    BY <1>1, <2>1, <2>3, TabsAssumption DEF StatState, IdleInv
  <2>5. upsets' \in Nat
    BY <1>1, <1>3 DEF StatReads
  <2>6. TypeOK'
    BY <1>1, <1>3, <2>4, <2>5 DEF StatReads, TypeOK, StatState
  <2> QED
    BY <1>1, <1>3, <2>4, <2>6 DEF StatReads, BaseInv, IdleInv, GoneInv
<1>4. CASE DropResult(s)
  <2>1. stat' \in [Stats -> StatState] /\ \A u \in Stats : stat'[u] \in {stat[u], Idle}
    BY <1>1, <1>2, <1>4 DEF DropResult
  <2>2. TypeOK'
    BY <1>1, <1>4, <2>1 DEF DropResult, TypeOK, StatState
  <2> QED
    BY <1>1, <1>2, <1>4, <2>1, <2>2 DEF DropResult, BaseInv, IdleInv, GoneInv
<1>5. CASE TakeResult(s)
  <2> DEFINE t == stat[s].tab
  <2>1. t \in Tabs /\ stat[s].res \in Statuses \cup {"notfound", "error"}
    BY <1>1, <1>5 DEF TakeResult, StatState, IdleInv
  <2>2. PICK a \in Applied(gained) :
          /\ tab' = [a.tab EXCEPT ![t] = Result(a.tab[t], stat[s].res).ts]
          /\ stat' = [a.stat EXCEPT ![s] = Idle]
          /\ seq' = IF Result(a.tab[t], stat[s].res).emits THEN seq + 1 ELSE seq
          /\ events' = IF Result(a.tab[t], stat[s].res).emits
                       THEN events \cup {[tab |-> t, seq |-> seq + 1, st |-> stat[s].res]}
                       ELSE events
    BY <1>5 DEF TakeResult
  <2>3. /\ a.tab \in [Tabs -> TabState] /\ a.stat \in [Stats -> StatState]
        /\ \A u \in Stats : a.stat[u].tab = None => a.stat[u].res = None
    BY <1>1, AppliedFacts
  <2>4. a.tab[t] \in TabState
    BY <2>1, <2>3
  <2>5. /\ Result(a.tab[t], stat[s].res).ts \in TabState
        /\ Result(a.tab[t], stat[s].res).emits => stat[s].res \in Statuses
    BY <2>1, <2>4, ResultType
  <2>6. tab' \in [Tabs -> TabState]
    BY <2>2, <2>3, <2>5
  <2>7. stat' \in [Stats -> StatState] /\ \A u \in Stats : stat'[u] \in {a.stat[u], Idle}
    BY <1>2, <2>2, <2>3
  <2>8. seq' \in Nat /\ events' \in SUBSET [tab: Tabs, seq: Nat, st: Statuses]
    BY <1>1, <2>1, <2>2, <2>5 DEF TypeOK
  <2>9. /\ records' \in [Tabs -> Statuses \cup {None}] /\ gained' \in BOOLEAN
        /\ UNCHANGED <<file, backendVars, wake, running, uiVars, watchCalls, checks, boundVars>>
    BY <1>5 DEF TakeResult, NoRecords
  <2>10. TypeOK'
    BY <1>1, <2>6, <2>7, <2>8, <2>9 DEF TypeOK, StatState
  <2> QED
    BY <1>1, <1>2, <2>3, <2>7, <2>9, <2>10 DEF BaseInv, IdleInv, GoneInv
<1> QED
  BY <1>3, <1>4, <1>5

(* An event for a tab that is not in the strip is dropped. *)
LEMMA DeliverBase ==
    ASSUME BaseInv, NEW e \in events, DeliverEvent(e)
    PROVE  BaseInv'
<1> USE DEF backendVars, schedVars, uiVars, callVars, boundVars
<1>1. /\ TypeOK /\ IdleInv /\ GoneInv /\ e.tab \in Tabs /\ e.seq \in Nat /\ e.st \in Statuses
  BY DEF BaseInv, TypeOK
<1>2. Stored(e.st) \in Statuses \cup {None}
  BY <1>1, StoredType
<1>3. lastSeq' \in [Tabs -> Nat] /\ entry' \in [Tabs -> Statuses \cup {None}]
  BY <1>1, <1>2 DEF DeliverEvent, TypeOK
<1>4. TypeOK'
  BY <1>1, <1>3 DEF DeliverEvent, TypeOK
<1>5. \A t \in Tabs : ui[t] = "gone" => entry'[t] = entry[t]
  BY <1>1 DEF DeliverEvent, TypeOK, Strip
<1> QED
  BY <1>1, <1>4, <1>5 DEF DeliverEvent, BaseInv, IdleInv, GoneInv

(* Every step keeps the base invariant. *)
LEMMA NextBase == BaseInv /\ [Next]_vars => BaseInv'
<1> SUFFICES ASSUME BaseInv, [Next]_vars PROVE BaseInv'
  OBVIOUS
<1>1. CASE \E t \in Tabs, v \in Versions \cup {Missing} : WriteFile(t, v)
  BY <1>1, TabStepsBase
<1>2. CASE \E t \in Tabs : Open(t) \/ CloseTab(t) \/ CloseDocument(t) \/ CheckDiskStatus(t)
  BY <1>2, TabStepsBase
<1>3. CASE Render \/ (\E i \in DOMAIN watchCalls : SetWatchedTabs(i))
  BY <1>3, RenderBase, WatchBase
<1>4. CASE CheckStep
  BY <1>4, CheckBase DEF CheckStep
<1>5. CASE SetFocused \/ Tick \/ Wake \/ Stop
  BY <1>5, SchedulerBase
<1>6. CASE \E s \in Stats : StatReads(s) \/ TakeResult(s) \/ DropResult(s)
  BY <1>6, StatBase
<1>7. CASE \E e \in events : DeliverEvent(e)
  BY <1>7, DeliverBase
<1>8. CASE UNCHANGED vars
  BY <1>8 DEF vars, backendVars, schedVars, uiVars, callVars, boundVars, BaseInv, TypeOK, IdleInv, GoneInv
<1> QED
  BY <1>1, <1>2, <1>3, <1>4, <1>5, <1>6, <1>7, <1>8 DEF Next

(* retainDiskStatus: in whatever order events, checks and calls arrive, a    *)
(* tab that left the strip has no entry and the statuses keep their types.   *)
THEOREM ReleasedForGood == Spec => [](TypeOK /\ NoEntryOutsideStrip)
<1>1. BaseInv => TypeOK /\ NoEntryOutsideStrip
  BY DEF BaseInv, GoneInv, NoEntryOutsideStrip
<1> QED
  BY <1>1, InitBase, NextBase, PTL DEF Spec

-----------------------------------------------------------------------------
(* Calls in order: one stat per tab.                                       *)

(* The sets are sets of tabs, the first is the one in force. *)
LEMMA HistoryType ==
    ASSUME TypeOK
    PROVE  /\ Len(watchCalls) \in Nat /\ History \in [0..Len(watchCalls) -> SUBSET Tabs]
           /\ History[0] = watched /\ \A i \in 1..Len(watchCalls) : History[i] = watchCalls[i]
<1>1. watchCalls \in Seq(SUBSET Tabs) /\ watched \in SUBSET Tabs
  BY DEF TypeOK
<1>2. Len(watchCalls) \in Nat /\ \A i \in 1..Len(watchCalls) : watchCalls[i] \in SUBSET Tabs
  BY <1>1, LenProperties, ElementOfSeq
<1>3. \A i \in 0..Len(watchCalls) : i = 0 \/ i \in 1..Len(watchCalls)
  BY <1>2
<1> QED
  BY <1>1, <1>2, <1>3 DEF History

(* A render adds a set: the dispatched tab enters, the closed one leaves. *)
LEMMA LifeAppend ==
    ASSUME NEW n \in Nat, NEW W, NEW V, NEW t, NEW u \in {"none", "dispatched", "shown", "closing", "gone"}, NEW v,
           \A i \in 0..n : V[i] = W[i],
           t \in V[n + 1] <=> u \in {"dispatched", "shown"},
           v = CASE u = "dispatched" -> "shown" [] u = "closing" -> "gone" [] OTHER -> u,
           Life(t, u, W, n)
    PROVE  /\ Life(t, v, V, n + 1)
           /\ u \in {"shown", "closing", "gone"} /\ Outside(t, W, n) => Outside(t, V, n + 1)
<1>1. /\ u \in {"none", "dispatched"} => Outside(t, W, n)
      /\ u \in {"shown", "closing"} => t \in W[n]
      /\ \A i, j, k \in 0..n : (i < j /\ j < k /\ t \in W[i] /\ t \in W[k]) => t \in W[j]
  BY DEF Life
<1>2. /\ n \in 0..n /\ \A i \in 0..(n + 1) : i \in 0..n \/ i = n + 1
  OBVIOUS
<1>3. Outside(t, W, n) => \A i \in 0..n : t \notin V[i]
  BY DEF Outside
<1>4. v \in {"none", "dispatched"} => Outside(t, V, n + 1)
  <2>1. v \in {"none", "dispatched"} => u = "none"
    OBVIOUS
  <2> QED
    BY <1>1, <1>2, <1>3, <2>1 DEF Outside
<1>5. (v \in {"shown", "closing"} => t \in V[n + 1]) /\ (v = "gone" => t \notin V[n + 1])
  OBVIOUS
<1>6. ASSUME NEW i \in 0..(n + 1), NEW j \in 0..(n + 1), NEW k \in 0..(n + 1),
             i < j, j < k, t \in V[i], t \in V[k]
      PROVE  t \in V[j]
  <2>1. i \in 0..n /\ j \in 0..n /\ t \in W[i] /\ V[j] = W[j]
    BY <1>6
  <2>2. CASE k \in 0..n
    BY <1>1, <1>6, <2>1, <2>2
  <2>3. CASE k = n + 1
    <3>1. t \in W[n]
      BY <1>1, <1>6, <2>1, <2>3 DEF Outside
    <3>2. j = n \/ j < n
      BY <2>1
    <3> QED
      BY <1>1, <1>2, <1>6, <2>1, <3>1, <3>2
  <2> QED
    BY <1>2, <2>2, <2>3
<1>7. u \in {"shown", "closing", "gone"} /\ Outside(t, W, n) => Outside(t, V, n + 1)
  <2>1. u = "shown" => ~Outside(t, W, n)
    BY <1>1, <1>2 DEF Outside
  <2> QED
    BY <1>2, <1>3, <2>1 DEF Outside
<1> QED
  BY <1>4, <1>5, <1>6, <1>7 DEF Life

(* The first call arrives: a set a tab left it does not enter again. *)
LEMMA LifeShift ==
    ASSUME NEW n \in Nat, NEW W, NEW V, NEW t, NEW u,
           \A i \in 0..n : V[i] = W[i + 1],
           Life(t, u, W, n + 1)
    PROVE  /\ Life(t, u, V, n)
           /\ t \in W[0] \/ Outside(t, W, n + 1) => t \in V[0] \/ Outside(t, V, n)
           /\ Outside(t, W, n + 1) => Outside(t, V, n)
<1>1. /\ u \in {"none", "dispatched"} => Outside(t, W, n + 1)
      /\ u \in {"shown", "closing"} => t \in W[n + 1]
      /\ u = "gone" => t \notin W[n + 1]
      /\ \A i, j, k \in 0..(n + 1) : (i < j /\ j < k /\ t \in W[i] /\ t \in W[k]) => t \in W[j]
  BY DEF Life
<1>2. \A i \in 0..n : i + 1 \in 0..(n + 1) /\ n \in 0..n /\ 0 \in 0..n
  OBVIOUS
<1>3. Outside(t, W, n + 1) => Outside(t, V, n)
  BY <1>2 DEF Outside
<1>4. ASSUME NEW i \in 0..n, NEW j \in 0..n, NEW k \in 0..n, i < j, j < k, t \in V[i], t \in V[k]
      PROVE  t \in V[j]
  <2>1. i + 1 < j + 1 /\ j + 1 < k + 1 /\ t \in W[i + 1] /\ t \in W[k + 1]
    BY <1>4
  <2>2. t \in W[j + 1]
    BY <1>1, <1>2, <2>1
  <2> QED
    BY <2>2
<1>5. ASSUME t \in W[0], t \notin V[0] PROVE Outside(t, V, n)
  <2>1. t \notin W[1] /\ 0 \in 0..(n + 1) /\ 1 \in 0..(n + 1)
    BY <1>2, <1>5
  <2>2. ASSUME NEW i \in 0..n PROVE t \notin V[i]
    <3>1. CASE i = 0
      BY <1>5, <3>1
    <3>2. CASE i > 0
      <4>1. 0 < 1 /\ 1 < i + 1 /\ i + 1 \in 0..(n + 1)
        BY <3>2
      <4> QED
        BY <1>1, <1>5, <2>1, <4>1
    <3> QED
      BY <3>1, <3>2
  <2> QED
    BY <2>2 DEF Outside
<1>6. Life(t, u, V, n)
  BY <1>1, <1>2, <1>3, <1>4 DEF Life
<1> QED
  BY <1>3, <1>5, <1>6

(* Goroutines get their results or end, and nothing else changes that the    *)
(* invariant speaks of.                                                      *)
LEMMA StatsGo ==
    ASSUME IInv, BaseInv', UNCHANGED <<ui, doc, watched, watchCalls, tab>>,
           \A s \in Stats : stat'[s].tab \in {stat[s].tab, None}
    PROVE  IInv'
<1>1. DocInv' /\ WatchInv'
  BY DEF IInv, DocInv, WatchInv, History
<1>2. StatInv'
  BY DEF IInv, StatInv, Over, History
<1>3. OneStatPerTab'
  BY DEF IInv, OneStatPerTab
<1> QED
  BY <1>1, <1>2, <1>3 DEF IInv

(* A tab is opened or closed, or its document is. *)
LEMMA TabStepsOrder ==
    ASSUME IInv, BaseInv', NEW t \in Tabs, Open(t) \/ CloseTab(t) \/ CloseDocument(t)
    PROVE  IInv'
<1> USE DEF backendVars, schedVars, uiVars, callVars
<1>1. UNCHANGED <<watched, watchCalls, tab, stat>> /\ History' = History
  BY DEF Open, CloseTab, CloseDocument, History
<1>2. /\ TypeOK /\ DocInv /\ WatchInv /\ StatInv /\ OneStatPerTab
      /\ ui \in [Tabs -> {"none", "dispatched", "shown", "closing", "gone"}] /\ doc \in [Tabs -> BOOLEAN]
      /\ \A s \in Stats : stat[s].tab # None => stat[s].tab \in Tabs
  BY DEF IInv, BaseInv, TypeOK
<1>3. /\ \A u \in Tabs \ {t} : ui'[u] = ui[u] /\ doc'[u] = doc[u]
      /\ \/ ui[t] = "none" /\ ui'[t] = "dispatched" /\ doc'[t]
         \/ ui[t] = "shown" /\ ui'[t] = "closing" /\ doc'[t] = doc[t]
         \/ ui[t] \in {"closing", "gone"} /\ ui'[t] = ui[t] /\ ~doc'[t]
  BY <1>2 DEF Open, CloseTab, CloseDocument
<1>4. DocInv'
  BY <1>2, <1>3 DEF DocInv
<1>5. WatchInv'
  <2>1. ASSUME NEW u \in Tabs
        PROVE  /\ ui'[u] \in {"none", "dispatched"} => ui[u] \in {"none", "dispatched"}
               /\ ui'[u] \in {"shown", "closing"} => ui[u] \in {"shown", "closing"}
               /\ ui'[u] = "gone" => ui[u] = "gone"
    BY <1>3
  <2> QED
    BY <1>1, <1>2, <2>1 DEF WatchInv, Life
<1>6. StatInv'
  <2>1. ASSUME NEW s \in Stats, stat[s].tab # None
        PROVE  /\ ui'[stat[s].tab] \in {"shown", "closing", "gone"}
               /\ Over(stat[s].tab) => Over(stat[s].tab)'
    <3>1. stat[s].tab \in Tabs /\ ui[stat[s].tab] \in {"shown", "closing", "gone"}
      BY <1>2, <2>1 DEF StatInv
    <3> QED
      BY <1>1, <1>3, <3>1 DEF Over
  <2> QED
    BY <1>1, <1>2, <2>1 DEF StatInv
<1> QED
  BY <1>1, <1>2, <1>4, <1>5, <1>6 DEF IInv, OneStatPerTab

(* A render sends the ids of the strip last. *)
LEMMA RenderOrder ==
    ASSUME IInv, BaseInv', Render
    PROVE  IInv'
<1> USE DEF backendVars, schedVars, uiVars, callVars, boundVars
<1> DEFINE keep == {t \in Tabs : ui[t] \in {"dispatched", "shown"}}
<1>1. /\ ui' = [t \in Tabs |-> CASE ui[t] = "dispatched" -> "shown"
                                 [] ui[t] = "closing"    -> "gone"
                                 [] OTHER                -> ui[t]]
      /\ watchCalls' = Append(watchCalls, keep)
      /\ UNCHANGED <<doc, watched, tab, stat>>
  BY DEF Render
<1>2. /\ TypeOK /\ TypeOK' /\ DocInv /\ WatchInv /\ StatInv /\ OneStatPerTab
      /\ ui \in [Tabs -> {"none", "dispatched", "shown", "closing", "gone"}]
      /\ watchCalls \in Seq(SUBSET Tabs) /\ keep \in SUBSET Tabs
      /\ \A s \in Stats : stat[s].tab # None => stat[s].tab \in Tabs
  BY DEF IInv, BaseInv, TypeOK
<1>3. \A t \in Tabs : ui'[t] = CASE ui[t] = "dispatched" -> "shown"
                                  [] ui[t] = "closing"    -> "gone"
                                  [] OTHER                -> ui[t]
  BY <1>1
<1>4. \A t \in Tabs : t \in keep <=> ui[t] \in {"dispatched", "shown"}
  OBVIOUS
<1> HIDE DEF keep
<1>5. PICK n \in Nat : n = Len(watchCalls)
  BY <1>2, LenProperties
<1>6. Len(watchCalls') = n + 1 /\ watchCalls'[n + 1] = keep
      /\ \A i \in 1..n : watchCalls'[i] = watchCalls[i]
  BY <1>1, <1>2, <1>5, AppendProperties
<1>7. PICK W, V : W = History /\ V = History'
  OBVIOUS
<1>8. V[n + 1] = keep /\ \A i \in 0..n : V[i] = W[i]
  <2>1. /\ W[0] = watched /\ \A i \in 1..n : W[i] = watchCalls[i]
        /\ V[0] = watched' /\ \A i \in 1..(n + 1) : V[i] = watchCalls'[i]
    BY <1>2, <1>5, <1>6, <1>7 DEF History
  <2> QED
    BY <1>1, <1>6, <2>1
<1>9. \A t \in Tabs : /\ Life(t, ui'[t], V, n + 1)
                      /\ ui[t] \in {"shown", "closing", "gone"} /\ Outside(t, W, n) => Outside(t, V, n + 1)
  <2> TAKE t \in Tabs
  <2>1. Life(t, ui[t], W, n)
    BY <1>2, <1>5, <1>7 DEF WatchInv
  <2>2. ui[t] \in {"none", "dispatched", "shown", "closing", "gone"}
    BY <1>2
  <2>3. t \in V[n + 1] <=> ui[t] \in {"dispatched", "shown"}
    BY <1>4, <1>8
  <2> QED
    BY <1>3, <1>8, <2>1, <2>2, <2>3, LifeAppend
<1>10. DocInv'
  BY <1>1, <1>2, <1>3 DEF DocInv
<1>11. WatchInv'
  BY <1>6, <1>7, <1>9 DEF WatchInv, Life, Outside
<1>12. StatInv'
  <2>1. ASSUME NEW s \in Stats, NEW t \in Tabs, stat[s].tab = t, t # None
        PROVE  /\ ui'[t] \in {"shown", "closing", "gone"}
               /\ t \in watched \/ Outside(t, V, n + 1)
               /\ tab[t].inFlight \/ Over(t)'
    <3>1. /\ ui[t] \in {"shown", "closing", "gone"}
          /\ t \in watched \/ Outside(t, W, n)
          /\ tab[t].inFlight \/ Over(t)
      BY <1>2, <1>5, <1>7, <2>1 DEF StatInv
    <3>2. ui'[t] \in {"shown", "closing", "gone"} /\ (ui[t] \in {"closing", "gone"} => ui'[t] = "gone")
      BY <1>3, <3>1
    <3>3. Over(t) => Over(t)'
      BY <1>1, <1>5, <1>6, <1>7, <1>9, <3>1, <3>2 DEF Over, Outside
    <3> QED
      BY <1>9, <3>1, <3>2, <3>3
  <2> QED
    BY <1>1, <1>2, <1>6, <1>7, <2>1 DEF StatInv, Over, Outside
<1> QED
  BY <1>1, <1>2, <1>10, <1>11, <1>12 DEF IInv, OneStatPerTab

(* The first SetWatchedTabs call on its way reaches the backend. *)
LEMMA WatchOrder ==
    ASSUME IInv, BaseInv', 1 \in DOMAIN watchCalls, SetWatchedTabs(1)
    PROVE  IInv'
<1> USE DEF backendVars, schedVars, uiVars, callVars, boundVars
<1>1. /\ watched' = watchCalls[1]
      /\ watchCalls' = SubSeq(watchCalls, 1, 0) \o SubSeq(watchCalls, 2, Len(watchCalls))
      /\ UNCHANGED <<ui, doc, tab, stat>>
  BY DEF SetWatchedTabs
<1>2. /\ TypeOK /\ TypeOK' /\ DocInv /\ WatchInv /\ StatInv /\ OneStatPerTab
      /\ watchCalls \in Seq(SUBSET Tabs)
      /\ \A s \in Stats : stat[s].tab # None => stat[s].tab \in Tabs
  BY DEF IInv, BaseInv, TypeOK
<1>3. Len(watchCalls) \in Nat /\ Len(watchCalls) >= 1
  BY <1>2, LenProperties
<1>4. PICK n \in Nat : Len(watchCalls) = n + 1
  <2>1. Len(watchCalls) - 1 \in Nat
    BY <1>3
  <2> QED
    BY <1>3, <2>1
<1>5. Len(watchCalls') = n /\ \A i \in 1..n : watchCalls'[i] = watchCalls[i + 1]
  <2>1. SubSeq(watchCalls, 1, 0) = <<>>
    BY <1>2, <1>3, SubSeqProperties
  <2>2. /\ SubSeq(watchCalls, 2, n + 1) \in Seq(SUBSET Tabs)
        /\ Len(SubSeq(watchCalls, 2, n + 1)) = n
        /\ \A i \in 1..n : SubSeq(watchCalls, 2, n + 1)[i] = watchCalls[i + 1]
    BY <1>2, <1>4, SubSeqProperties
  <2>3. watchCalls' = SubSeq(watchCalls, 2, n + 1)
    BY <1>1, <1>4, <2>1, <2>2, ConcatEmptySeq
  <2> QED
    BY <2>2, <2>3
<1>6. PICK W, V : W = History /\ V = History'
  OBVIOUS
<1>7. \A i \in 0..n : V[i] = W[i + 1]
  <2>1. /\ \A i \in 1..(n + 1) : W[i] = watchCalls[i]
        /\ V[0] = watched' /\ \A i \in 1..n : V[i] = watchCalls'[i]
    BY <1>2, <1>4, <1>5, <1>6, HistoryType
  <2> QED
    BY <1>1, <1>5, <2>1
<1>8. W[0] = watched /\ V[0] = watched'
  BY <1>2, <1>6, HistoryType
<1>9. \A t \in Tabs : /\ Life(t, ui[t], V, n)
                      /\ t \in W[0] \/ Outside(t, W, n + 1) => t \in V[0] \/ Outside(t, V, n)
                      /\ Outside(t, W, n + 1) => Outside(t, V, n)
  <2> TAKE t \in Tabs
  <2>1. Life(t, ui[t], W, n + 1)
    BY <1>2, <1>4, <1>6 DEF WatchInv
  <2> QED
    BY <1>7, <2>1, LifeShift
<1>10. DocInv' /\ WatchInv'
  BY ZenonT(60), <1>1, <1>2, <1>5, <1>6, <1>9 DEF DocInv, WatchInv, Life, Outside
<1>11. StatInv'
  <2>1. ASSUME NEW s \in Stats, NEW t \in Tabs, stat[s].tab = t, t # None
        PROVE  /\ ui[t] \in {"shown", "closing", "gone"}
               /\ t \in watched' \/ Outside(t, V, n)
               /\ tab[t].inFlight \/ Over(t)'
    <3>1. /\ ui[t] \in {"shown", "closing", "gone"}
          /\ t \in W[0] \/ Outside(t, W, n + 1)
          /\ tab[t].inFlight \/ Over(t)
      BY <1>2, <1>4, <1>6, <1>8, <2>1 DEF StatInv
    <3>2. Over(t) => Over(t)'
      BY <1>1, <1>4, <1>5, <1>6, <1>9 DEF Over, Outside
    <3> QED
      BY <1>8, <1>9, <3>1, <3>2
  <2> QED
    BY <1>1, <1>2, <1>5, <1>6, <2>1 DEF StatInv, Over, Outside
<1> QED
  BY <1>1, <1>2, <1>10, <1>11 DEF IInv, OneStatPerTab

(* applyPending with or without checkAll: a stat in flight is known to the   *)
(* scheduler, or its tab is over and gets no other.                          *)
LEMMA AppliedOrder ==
    ASSUME IInv, NEW b \in BOOLEAN, NEW a \in Applied(b)
    PROVE  /\ \A s, u \in Stats : (a.stat[s].tab # None /\ a.stat[s].tab = a.stat[u].tab) => s = u
           /\ \A s \in Stats, t \in Tabs : a.stat[s].tab = t =>
                /\ ui[t] \in {"shown", "closing", "gone"}
                /\ t \in watched \/ Outside(t, History, Len(watchCalls))
                /\ a.tab[t].inFlight \/ Over(t)
<1> DEFINE n == Len(watchCalls)
<1>1. /\ TypeOK /\ IdleInv /\ DocInv /\ WatchInv /\ StatInv /\ OneStatPerTab
      /\ ui \in [Tabs -> {"none", "dispatched", "shown", "closing", "gone"}]
      /\ stat \in [Stats -> StatState]
  BY DEF IInv, BaseInv, TypeOK, StatState
<1>2. n \in Nat /\ History[0] = watched /\ 0 \in 0..n /\ n \in 0..n
  BY <1>1, HistoryType
<1>3. \A t \in Tabs : Outside(t, History, n) => t \notin watched /\ ui[t] \notin {"shown", "closing"}
  BY <1>1, <1>2 DEF Outside, WatchInv, Life
<1>4. \A t \in Tabs : ui[t] \in {"none", "dispatched"} => t \notin watched
  BY <1>1, <1>2 DEF Outside, WatchInv, Life
<1>5. /\ a.tab \in [Tabs -> TabState] /\ a.stat \in [Stats -> StatState]
      /\ \A s \in Stats : stat[s].tab # None => a.stat[s] = stat[s]
      /\ \A s \in Stats : stat[s].tab = None /\ a.stat[s].tab # None =>
           a.stat[s].tab \in TabIDs /\ ~tab[a.stat[s].tab].inFlight /\ b
      /\ \A s, u \in Stats :
           (stat[s].tab = None /\ stat[u].tab = None
            /\ a.stat[s].tab # None /\ a.stat[s].tab = a.stat[u].tab) => s = u
      /\ \A t \in Tabs : a.tab[t].inFlight \/ ~tab[t].inFlight \/ (b /\ t \notin TabIDs)
      /\ \A t \in TabIDs : b => a.tab[t].inFlight
  BY <1>1, AppliedFacts
<1>6. \A t \in Tabs : t \in TabIDs <=> t \in watched /\ doc[t]
  BY DEF TabIDs
<1>7. \A t \in Tabs, s \in Stats : stat[s].tab = t =>
        /\ ui[t] \in {"shown", "closing", "gone"}
        /\ t \in watched \/ Outside(t, History, n)
        /\ tab[t].inFlight \/ Over(t)
  BY <1>1, TabsAssumption DEF StatInv
<1>8. \A t \in Tabs : Over(t) => t \notin TabIDs
  BY <1>3, <1>6 DEF Over
<1> HIDE DEF n
<1>9. ASSUME NEW s \in Stats, NEW t \in Tabs, a.stat[s].tab = t
      PROVE  /\ ui[t] \in {"shown", "closing", "gone"}
             /\ t \in watched \/ Outside(t, History, n)
             /\ a.tab[t].inFlight \/ Over(t)
  <2>1. t # None
    BY TabsAssumption
  <2>2. CASE stat[s].tab = None
    <3>1. t \in TabIDs /\ b
      BY <1>5, <1>9, <2>1, <2>2
    <3>2. t \in watched /\ a.tab[t].inFlight
      BY <1>5, <1>6, <3>1
    <3>3. ui[t] \in {"shown", "closing", "gone"}
      BY <1>1, <1>4, <3>2
    <3> QED
      BY <3>2, <3>3
  <2>3. CASE stat[s].tab # None
    <3>1. stat[s].tab = t
      BY <1>5, <1>9, <2>3
    <3>2. /\ ui[t] \in {"shown", "closing", "gone"}
          /\ t \in watched \/ Outside(t, History, n)
          /\ tab[t].inFlight \/ Over(t)
      BY <1>7, <3>1
    <3>3. ASSUME t \notin TabIDs PROVE Over(t)
      <4>1. CASE ~doc[t]
        BY <1>1, <3>2, <4>1 DEF DocInv, Over
      <4>2. CASE doc[t]
        <5>1. Outside(t, History, n)
          BY <1>6, <3>2, <3>3, <4>2
        <5> QED
          BY <1>3, <3>2, <5>1 DEF Over, n
      <4> QED
        BY <4>1, <4>2
    <3> QED
      BY <1>5, <3>2, <3>3
  <2> QED
    BY <2>2, <2>3
<1>10. ASSUME NEW s \in Stats, NEW u \in Stats, a.stat[s].tab # None, a.stat[s].tab = a.stat[u].tab
       PROVE  s = u
  <2>1. ASSUME NEW x \in Stats, NEW y \in Stats, a.stat[x].tab = a.stat[y].tab, a.stat[x].tab # None,
               stat[x].tab # None, stat[y].tab = None
        PROVE  FALSE
    <3>1. a.stat[y].tab \in TabIDs /\ ~tab[a.stat[y].tab].inFlight /\ stat[x].tab = a.stat[y].tab
      BY <1>5, <2>1
    <3>2. stat[x].tab \in Tabs
      BY <1>1, <2>1 DEF StatState
    <3> QED
      BY <1>7, <1>8, <3>1, <3>2
  <2>2. CASE stat[s].tab # None /\ stat[u].tab # None
    BY <1>1, <1>5, <1>10, <2>2 DEF OneStatPerTab
  <2>3. CASE stat[s].tab = None /\ stat[u].tab = None
    BY <1>5, <1>10, <2>3
  <2> QED
    BY <1>10, <2>1, <2>2, <2>3
<1> QED
  BY <1>9, <1>10 DEF n

(* A tick, a wake, or a result taken. *)
LEMMA SchedulerOrder ==
    ASSUME IInv, BaseInv', Tick \/ Wake \/ \E s \in Stats : TakeResult(s)
    PROVE  IInv'
<1> USE DEF backendVars, schedVars, uiVars, callVars, boundVars
<1>1. /\ UNCHANGED <<ui, doc, watched, watchCalls>> /\ History' = History
  BY DEF Tick, Wake, TakeResult, History
<1>2. /\ TypeOK /\ TypeOK' /\ IdleInv /\ DocInv /\ WatchInv /\ gained \in BOOLEAN
      /\ stat \in [Stats -> StatState] /\ stat' \in [Stats -> StatState]
  BY DEF IInv, BaseInv, TypeOK, StatState
<1>3. DocInv' /\ WatchInv'
  BY <1>1, <1>2 DEF DocInv, WatchInv, Life, Outside
<1>4. \A t \in Tabs : Over(t)' <=> Over(t)
  BY <1>1 DEF Over
<1>5. ASSUME \A s, u \in Stats : (stat'[s].tab # None /\ stat'[s].tab = stat'[u].tab) => s = u,
             \A s \in Stats, t \in Tabs : stat'[s].tab = t =>
                /\ ui[t] \in {"shown", "closing", "gone"}
                /\ t \in watched \/ Outside(t, History, Len(watchCalls))
                /\ tab'[t].inFlight \/ Over(t)
      PROVE  IInv'
  <2>1. OneStatPerTab'
    BY <1>5 DEF OneStatPerTab
  <2>2. StatInv'
    <3>1. \A s \in Stats : stat'[s].tab # None => stat'[s].tab \in Tabs
      BY <1>2 DEF StatState
    <3> QED
      BY <1>1, <1>5, <3>1 DEF StatInv, Over, Outside
  <2> QED
    BY <1>3, <2>1, <2>2 DEF IInv
<1>6. CASE Tick \/ Wake
  <2>1. PICK b \in BOOLEAN : \E a \in Applied(b) : tab' = a.tab /\ stat' = a.stat
    BY <1>2, <1>6 DEF Tick, Wake
  <2>2. PICK a \in Applied(b) : tab' = a.tab /\ stat' = a.stat
    BY <2>1
  <2> QED
    BY <1>5, <2>2, AppliedOrder
<1>7. CASE \E s \in Stats : TakeResult(s)
  <2>1. PICK s \in Stats : TakeResult(s)
    BY <1>7
  <2>2. PICK a \in Applied(gained) :
          /\ tab' = [a.tab EXCEPT ![stat[s].tab] = Result(a.tab[stat[s].tab], stat[s].res).ts]
          /\ stat' = [a.stat EXCEPT ![s] = Idle]
    BY <2>1 DEF TakeResult
  <2>3. stat[s].tab # None
    BY <1>2, <2>1 DEF TakeResult, IdleInv
  <2>4. /\ a.tab \in [Tabs -> TabState] /\ a.stat \in [Stats -> StatState] /\ a.stat[s] = stat[s]
    BY <1>2, <2>3, AppliedFacts
  <2>5. /\ \A u, v \in Stats : (a.stat[u].tab # None /\ a.stat[u].tab = a.stat[v].tab) => u = v
        /\ \A u \in Stats, t \in Tabs : a.stat[u].tab = t =>
                /\ ui[t] \in {"shown", "closing", "gone"}
                /\ t \in watched \/ Outside(t, History, Len(watchCalls))
                /\ a.tab[t].inFlight \/ Over(t)
    BY <1>2, AppliedOrder
  <2>6. \A u \in Stats : IF u = s THEN stat'[u].tab = None ELSE stat'[u] = a.stat[u]
    BY <2>2, <2>4 DEF Idle
  <2>7. \A t \in Tabs : t # stat[s].tab => tab'[t] = a.tab[t]
    BY <2>2, <2>4
  <2>8. \A u, v \in Stats : (stat'[u].tab # None /\ stat'[u].tab = stat'[v].tab) => u = v
    BY <2>5, <2>6
  <2>9. ASSUME NEW u \in Stats, NEW t \in Tabs, stat'[u].tab = t
        PROVE  /\ ui[t] \in {"shown", "closing", "gone"}
               /\ t \in watched \/ Outside(t, History, Len(watchCalls))
               /\ tab'[t].inFlight \/ Over(t)
    <3>1. u # s /\ a.stat[u].tab = t
      BY <2>6, <2>9, TabsAssumption
    <3>2. t # stat[s].tab
      BY <2>3, <2>4, <2>5, <3>1
    <3> QED
      BY <2>5, <2>7, <3>1, <3>2
  <2> QED
    BY <1>5, <2>8, <2>9
<1> QED
  BY <1>6, <1>7

(* Every step keeps the invariant when the calls arrive in order. *)
LEMMA NextOrder == InOrder /\ IInv /\ [Next]_vars => IInv'
<1> SUFFICES ASSUME InOrder, IInv, [Next]_vars PROVE IInv'
  OBVIOUS
<1> USE DEF backendVars, schedVars, uiVars, callVars, boundVars
<1>1. BaseInv' /\ BaseInv
  BY NextBase DEF IInv
<1>2. stat \in [Stats -> StatState]
  BY <1>1 DEF BaseInv, TypeOK, StatState
<1>3. CASE \/ \E t \in Tabs, v \in Versions \cup {Missing} : WriteFile(t, v)
           \/ \E t \in Tabs : CheckDiskStatus(t)
           \/ CheckStep \/ SetFocused \/ Stop
           \/ \E e \in events : DeliverEvent(e)
           \/ UNCHANGED vars
  <2>1. UNCHANGED <<ui, doc, watched, watchCalls, tab, stat>>
    BY <1>3 DEF WriteFile, CheckDiskStatus, CheckStep, CheckStats, CheckRecords, CheckReplies,
                SetFocused, Stop, DeliverEvent, vars
  <2> QED
    BY <1>1, <2>1, StatsGo
<1>4. CASE \E s \in Stats : StatReads(s) \/ DropResult(s)
  <2>1. UNCHANGED <<ui, doc, watched, watchCalls, tab>>
    BY <1>4 DEF StatReads, DropResult
  <2>2. \A s \in Stats : stat'[s].tab \in {stat[s].tab, None}
    BY <1>2, <1>4 DEF StatReads, DropResult, Idle, StatState
  <2> QED
    BY <1>1, <2>1, <2>2, StatsGo
<1>5. CASE \E t \in Tabs : Open(t) \/ CloseTab(t) \/ CloseDocument(t)
  BY <1>1, <1>5, TabStepsOrder
<1>6. CASE Render
  BY <1>1, <1>6, RenderOrder
<1>7. CASE \E i \in DOMAIN watchCalls : SetWatchedTabs(i)
  <2>1. 1 \in DOMAIN watchCalls /\ SetWatchedTabs(1)
    BY <1>7 DEF SetWatchedTabs
  <2> QED
    BY <1>1, <2>1, WatchOrder
<1>8. CASE Tick \/ Wake \/ \E s \in Stats : TakeResult(s)
  BY <1>1, <1>8, SchedulerOrder
<1> QED
  BY <1>3, <1>4, <1>5, <1>6, <1>7, <1>8 DEF Next

(* The invariant holds at the start. *)
LEMMA InitOrder == Init => IInv
<1> SUFFICES ASSUME Init PROVE IInv
  OBVIOUS
<1>1. BaseInv
  BY InitBase
<1>2. \A s \in Stats : stat[s].tab = None
  BY DEF Init, Idle
<1>3. \A t \in Tabs : ui[t] = "none"
  BY DEF Init
<1>4. Len(watchCalls) = 0 /\ History[0] = {}
  BY DEF Init, History
<1>5. WatchInv
  BY <1>3, <1>4 DEF WatchInv, Life, Outside
<1> QED
  BY <1>1, <1>2, <1>3, <1>5 DEF IInv, DocInv, StatInv, OneStatPerTab

(* checkAll starts "one stat for every tab that has none in flight": when    *)
(* the SetWatchedTabs calls arrive in the order the effects of App.jsx made  *)
(* them, no tab ever has two stats on their way, so its results come in the  *)
(* order of its checks; and the base properties hold with it.                *)
THEOREM OneStatInOrder == ASSUME InOrder PROVE Spec => []WatcherSound
<1>1. IInv => WatcherSound
  BY DEF IInv, BaseInv, GoneInv, WatcherSound, NoEntryOutsideStrip
<1>2. Init => IInv
  BY InitOrder
<1>3. IInv /\ [Next]_vars => IInv'
  BY NextOrder
<1> QED
  BY <1>1, <1>2, <1>3, PTL DEF Spec
=============================================================================
