----------------------------- MODULE UpdateCheck -----------------------------
(***************************************************************************)
(* The update check of the two binaries: the check records that the desktop *)
(* app and the command-line tool share through the cache directory          *)
(* (internal/updatecheck/cache.go), the notice an ordinary command prints   *)
(* and --version (cmd/cli/update_notice.go), and the app's startup and Help  *)
(* menu checks (internal/updateservice).                                     *)
(*                                                                           *)
(* Commands are processes of their own: their reads and renames of the CLI's *)
(* record interleave, the last writer wins, and an exit kills the refresh a  *)
(* command started.  The app's calls share one mutex.  Versions are ordered  *)
(* numbers, 0 for none; times are ticks, 0 for the zero time.  A tick is     *)
(* longer than a check may take (a refresh is cut off after 1.5 s, a page    *)
(* after 5 s), so the clock stands still while one is under way.             *)
(***************************************************************************)
EXTENDS Integers, FiniteSets

CONSTANTS
    Commands,    \* processes of the command-line tool
    MaxVersion,  \* bound: the newest release ever published
    Installed,   \* the version of both binaries
    TTL,         \* CacheTTL in ticks
    MaxTime,     \* bound on the clock
    MaxApp       \* bound: checks the app makes

ASSUME ConstantsAssumption ==
    /\ IsFiniteSet(Commands)
    /\ MaxVersion \in Nat /\ Installed \in Nat \ {0}
    /\ TTL \in Nat \ {0} /\ MaxTime \in Nat \ {0} /\ MaxApp \in Nat

VARIABLES
    clock,      \* the time of day, in ticks from 1
    all,        \* the highest stable release on the pages the app walks
    first,      \* the highest stable release on the first page
    rec,        \* the record of each surface; the zero snapshot when absent
    main,       \* where each command's main goroutine is
    refresh,    \* where its refresh is
    form,       \* "command" or "version"
    own,        \* the own record startNotice loaded
    snap,       \* the own record its refresh holds; its latest is the tag received
    peer,       \* the app record it holds, zero unless confirmed
    now,        \* the time it took when it started
    expired,    \* its refresh deadline has passed
    printed,    \* what it told the user
    app,        \* the app's check: idle or walking the pages
    low,        \* the highest release when the walk began
    appChecks,  \* checks the app has made
    pub,        \* history: when each release was published
    highs,      \* history: the first pages' highest releases, per tick
    tried,      \* history: commands whose attempt was written and not lost since
    gone        \* history: commands whose refresh was over when p started

record == <<rec>>
server == <<clock, all, first, pub, highs>>
command == <<main, refresh, form, own, snap, peer, now, expired, printed, tried, gone>>
desktop == <<app, low, appChecks>>
vars == <<server, record, command, desktop>>

Surfaces == {"app", "cli"}
Times == 0..MaxTime
Versions == 0..MaxVersion
Snapshot == [checked : Times, succeeded : Times, latest : Versions]
Zero == [checked |-> 0, succeeded |-> 0, latest |-> 0]

(* What a command tells the user: a newer version, or nothing; --version may *)
(* also say that it could not check, or that no newer release is available.  *)
Nothing == 0
Unchecked == -1
Current == -2

TypeOK ==
    /\ clock \in 1..MaxTime /\ all \in Versions /\ first \in Versions
    /\ rec \in [Surfaces -> Snapshot]
    /\ main \in [Commands -> {"idle", "running", "exited"}]
    /\ refresh \in [Commands -> {"none", "attempt", "store", "ask", "answered", "success", "done"}]
    /\ form \in [Commands -> {"command", "version"}]
    /\ own \in [Commands -> Snapshot] /\ snap \in [Commands -> Snapshot] /\ peer \in [Commands -> Snapshot]
    /\ now \in [Commands -> Times] /\ expired \in [Commands -> BOOLEAN]
    /\ printed \in [Commands -> {Unchecked, Current} \cup Versions]
    /\ app \in {"idle", "walking"} /\ low \in Versions
    /\ appChecks \in 0..MaxApp

Init ==
    /\ clock = 1 /\ all = 0 /\ first = 0
    /\ rec = [s \in Surfaces |-> Zero]
    /\ main = [p \in Commands |-> "idle"]
    /\ refresh = [p \in Commands |-> "none"]
    /\ form = [p \in Commands |-> "command"]
    /\ own = [p \in Commands |-> Zero] /\ snap = [p \in Commands |-> Zero] /\ peer = [p \in Commands |-> Zero]
    /\ now = [p \in Commands |-> 0]
    /\ expired = [p \in Commands |-> FALSE]
    /\ printed = [p \in Commands |-> Nothing]
    /\ app = "idle" /\ low = 0 /\ appChecks = 0
    /\ pub = [v \in 1..MaxVersion |-> 0]
    /\ highs = [t \in 1..MaxTime |-> IF t = 1 THEN {0} ELSE {}]
    /\ tried = {} /\ gone = [p \in Commands |-> {}]

-----------------------------------------------------------------------------
(* Snapshots *)

(* Fresh and Confirmed: a time that is set, not in the future and less than  *)
(* the TTL ago.                                                              *)
Within(t, at) == t # 0 /\ t <= at /\ at - t < TTL

Fresh(s, at) == Within(s.checked, at)

Confirmed(s, at) == Within(s.succeeded, at)

Newer(a, b) == IF b.latest > a.latest THEN b ELSE a

Notice(s) == s.latest > Installed

ConfirmedPeer(at) == IF Confirmed(rec["app"], at) THEN rec["app"] ELSE Zero

Attempted(s, at) == [s EXCEPT !.checked = at]

(* Fault: the next check's time is stored. *)
SucceededLater(s, at, latest) ==
    [checked |-> at, succeeded |-> at + TTL, latest |-> IF latest = 0 THEN s.latest ELSE latest]

Succeeded(s, at, latest) ==
    [checked |-> at, succeeded |-> at, latest |-> IF latest = 0 THEN s.latest ELSE latest]

-----------------------------------------------------------------------------
(* The world: time, releases, a record that is lost or unreadable *)

Busy(p) == refresh[p] \notin {"none", "done"} /\ main[p] # "exited"

Tick ==
    /\ clock < MaxTime /\ app # "walking" /\ \A p \in Commands : ~Busy(p)
    /\ clock' = clock + 1
    /\ highs' = [highs EXCEPT ![clock + 1] = {first}]
    /\ UNCHANGED <<all, first, pub, record, command, desktop>>

(* A stable release goes to the top of the first page and may push the       *)
(* highest one off it.                                                       *)
Publish(v) ==
    /\ pub[v] = 0
    /\ pub' = [pub EXCEPT ![v] = clock]
    /\ all' = IF v > all THEN v ELSE all
    /\ first' \in {v, IF v > first THEN v ELSE first}
    /\ highs' = [highs EXCEPT ![clock] = @ \cup {first'}]
    /\ UNCHANGED <<clock, record, command, desktop>>

(* A missing, corrupt or foreign file loads as the zero snapshot. *)
LoseRecord(s) ==
    /\ rec[s] # Zero
    /\ rec' = [rec EXCEPT ![s] = Zero]
    /\ tried' = IF s = "cli" THEN {} ELSE tried
    /\ UNCHANGED <<server, main, refresh, form, own, snap, peer, now, expired, printed, gone, desktop>>

-----------------------------------------------------------------------------
(* A command of the command-line tool *)

(* startNotice: a fresh own record or a confirmed app record spares the      *)
(* refresh.  Only commands in a terminal that did not opt out get here.      *)
StartNotice(p) ==
    /\ main[p] = "idle"
    /\ main' = [main EXCEPT ![p] = "running"]
    /\ form' = [form EXCEPT ![p] = "command"]
    /\ now' = [now EXCEPT ![p] = clock]
    /\ own' = [own EXCEPT ![p] = rec["cli"]]
    /\ peer' = [peer EXCEPT ![p] = ConfirmedPeer(clock)]
    /\ refresh' = [refresh EXCEPT ![p] =
        IF Fresh(rec["cli"], clock) \/ Confirmed(rec["app"], clock) THEN "none" ELSE "attempt"]
    /\ gone' = [gone EXCEPT ![p] = {q \in Commands : main[q] # "idle" /\ ~Busy(q)}]
    /\ UNCHANGED <<server, record, snap, expired, printed, tried, desktop>>

(* --version goes live whatever the records say. *)
StartVersion(p) ==
    /\ main[p] = "idle"
    /\ main' = [main EXCEPT ![p] = "running"]
    /\ form' = [form EXCEPT ![p] = "version"]
    /\ now' = [now EXCEPT ![p] = clock]
    /\ refresh' = [refresh EXCEPT ![p] = "attempt"]
    /\ gone' = [gone EXCEPT ![p] = {q \in Commands : main[q] # "idle" /\ ~Busy(q)}]
    /\ UNCHANGED <<server, record, own, snap, peer, expired, printed, tried, desktop>>

Runs(p, s) == main[p] = "running" /\ refresh[p] = s

(* Fault: the record is read back without the attempt. *)
AttemptStoresLate(p) ==
    /\ Runs(p, "store")
    /\ refresh' = [refresh EXCEPT ![p] = "ask"]
    /\ tried' = tried \cup {p}
    /\ UNCHANGED <<server, record, main, form, own, snap, peer, now, expired, printed, gone, desktop>>

(* RecordAttempt and RecordSuccess load the record before they replace it;   *)
(* another process may write in between.                                     *)
AttemptLoads(p) ==
    /\ Runs(p, "attempt")
    /\ snap' = [snap EXCEPT ![p] = Attempted(rec["cli"], now[p])]
    /\ refresh' = [refresh EXCEPT ![p] = "store"]
    /\ UNCHANGED <<server, record, main, form, own, peer, now, expired, printed, tried, gone, desktop>>

(* A failed write ends an ordinary command's refresh; --version asks anyway, *)
(* and reads the app's record only now.                                      *)
AttemptStores(p) ==
    /\ Runs(p, "store")
    /\ \E written \in BOOLEAN :
        /\ rec' = IF written THEN [rec EXCEPT !["cli"] = snap[p]] ELSE rec
        /\ refresh' = [refresh EXCEPT ![p] =
                IF written \/ form[p] = "version" THEN "ask" ELSE "done"]
        /\ tried' = IF written THEN tried \cup {p} ELSE tried
    /\ peer' = IF form[p] = "version" THEN [peer EXCEPT ![p] = ConfirmedPeer(now[p])] ELSE peer
    /\ UNCHANGED <<server, main, form, own, snap, now, expired, printed, gone, desktop>>

(* The server answers with its first page before the deadline. *)
ServerAnswers(p) ==
    /\ Runs(p, "ask") /\ ~expired[p]
    /\ snap' = [snap EXCEPT ![p].latest = first]
    /\ refresh' = [refresh EXCEPT ![p] = "answered"]
    /\ UNCHANGED <<server, record, main, form, own, peer, now, expired, printed, tried, gone, desktop>>

(* An error, a panic or the deadline's cancellation ends the call. *)
ServerFails(p) ==
    /\ Runs(p, "ask")
    /\ refresh' = [refresh EXCEPT ![p] = "done"]
    /\ UNCHANGED <<server, record, main, form, own, snap, peer, now, expired, printed, tried, gone, desktop>>

SuccessLoads(p) ==
    /\ Runs(p, "answered")
    /\ snap' = [snap EXCEPT ![p] = Succeeded(rec["cli"], now[p], snap[p].latest)]
    /\ refresh' = [refresh EXCEPT ![p] = "success"]
    /\ UNCHANGED <<server, record, main, form, own, peer, now, expired, printed, tried, gone, desktop>>

(* A failed write is ignored: the answer is used all the same. *)
SuccessStores(p) ==
    /\ Runs(p, "success")
    /\ rec' \in {rec, [rec EXCEPT !["cli"] = snap[p]]}
    /\ refresh' = [refresh EXCEPT ![p] = "done"]
    /\ UNCHANGED <<server, main, form, own, snap, peer, now, expired, printed, tried, gone, desktop>>

(* Fault: the refresh has no timeout. *)
DeadlineNever(p) == FALSE /\ UNCHANGED vars

(* context.WithTimeout: the refresh is cut off. *)
Deadline(p) ==
    /\ Busy(p) /\ ~expired[p]
    /\ expired' = [expired EXCEPT ![p] = TRUE]
    /\ UNCHANGED <<server, record, main, refresh, form, own, snap, peer, now, printed, tried, gone, desktop>>

(* The process ends with whatever its refresh was doing; its memory goes. *)
Exits(p, said) ==
    /\ main' = [main EXCEPT ![p] = "exited"]
    /\ printed' = [printed EXCEPT ![p] = said]
    /\ own' = [own EXCEPT ![p] = Zero] /\ snap' = [snap EXCEPT ![p] = Zero]
    /\ peer' = [peer EXCEPT ![p] = Zero] /\ expired' = [expired EXCEPT ![p] = FALSE]
    /\ UNCHANGED <<server, record, refresh, form, now, tried, gone, desktop>>

(* Fault: past the deadline an answer is not waited for. *)
FinishesAtDeadline(p) ==
    (IF refresh[p] = "none" \/ expired[p] THEN {own[p]} ELSE {})
    \cup (IF refresh[p] = "done" THEN {snap[p]} ELSE {})

(* The records finish may print from.  Past the deadline it goes on without  *)
(* the refresh unless the server call has returned; then it waits.           *)
Finishes(p) ==
    (IF refresh[p] = "none" THEN {own[p]} ELSE {})
    \cup (IF refresh[p] = "done" THEN {snap[p]} ELSE {})
    \cup (IF expired[p] /\ refresh[p] \in {"attempt", "store", "ask", "done"} THEN {own[p]} ELSE {})

FinishCommand(p) ==
    /\ main[p] = "running" /\ form[p] = "command"
    /\ \E s \in Finishes(p) :
        LET best == Newer(s, peer[p])
        IN Exits(p, IF Notice(best) THEN best.latest ELSE Nothing)

(* Fault: any attempt within the TTL counts as an answer. *)
CheckedByAttempt(p) == Fresh(snap[p], now[p]) \/ Confirmed(peer[p], now[p])

(* versionOutcome: this call was answered, or a record of either surface was *)
(* confirmed within the TTL.                                                 *)
Checked(p) == Confirmed(snap[p], now[p]) \/ Confirmed(peer[p], now[p])

FinishVersion(p) ==
    /\ Runs(p, "done") /\ form[p] = "version"
    /\ LET best == Newer(snap[p], peer[p])
       IN Exits(p, IF ~Checked(p) THEN Unchecked
                   ELSE IF Notice(best) THEN best.latest ELSE Current)

-----------------------------------------------------------------------------
(* The desktop app *)

MayCheck == app = "idle" /\ appChecks < MaxApp

(* Fault: the command-line tool's one-page record answers too. *)
AnsweredByRecordOfEither ==
    \E s \in Surfaces : Confirmed(rec[s], clock) /\ ~Notice(rec[s])

(* CheckForUpdateAtStartup's gate. *)
AnsweredByRecord == Confirmed(rec["app"], clock) /\ ~Notice(rec["app"])

AppSkips ==
    /\ MayCheck /\ AnsweredByRecord
    /\ appChecks' = appChecks + 1
    /\ UNCHANGED <<server, record, command, app, low>>

(* The startup check goes live; the Help menu's always does. *)
AppWalks ==
    /\ MayCheck
    /\ appChecks' = appChecks + 1
    /\ app' = "walking" /\ low' = all
    /\ UNCHANGED <<server, record, command>>

(* Check and collectNewer fetch the pages one after the other and keep the   *)
(* highest stable tag: a release published meanwhile may be missed.          *)
LatestStableSeen == {low, all}

(* The record is written, if it can be, under the mutex. *)
AppWalkEnds ==
    /\ app = "walking"
    /\ app' = "idle"
    /\ \E seen \in LatestStableSeen :
        rec' \in {rec, [rec EXCEPT !["app"] = Succeeded(rec["app"], clock, seen)]}
    /\ UNCHANGED <<server, command, low, appChecks>>

(* A failed check is not recorded. *)
AppWalkFails ==
    /\ app = "walking"
    /\ app' = "idle"
    /\ UNCHANGED <<server, record, command, low, appChecks>>

-----------------------------------------------------------------------------
(* The specification *)

RefreshStep(p) ==
    \/ AttemptLoads(p) \/ AttemptStores(p) \/ ServerFails(p)
    \/ ServerAnswers(p) \/ SuccessLoads(p) \/ SuccessStores(p)

Next ==
    \/ Tick
    \/ \E v \in 1..MaxVersion : Publish(v)
    \/ \E s \in Surfaces : LoseRecord(s)
    \/ \E p \in Commands : StartNotice(p) \/ StartVersion(p) \/ RefreshStep(p) \/ Deadline(p)
                            \/ FinishCommand(p) \/ FinishVersion(p)
    \/ AppSkips \/ AppWalks \/ AppWalkEnds \/ AppWalkFails

Spec == Init /\ [][Next]_vars

(* Goroutines run, the deadline's timer fires, and a call whose context has  *)
(* expired fails; the server itself may stay silent.                         *)
Fairness ==
    \A p \in Commands :
        /\ WF_vars(AttemptLoads(p)) /\ WF_vars(AttemptStores(p))
        /\ WF_vars(SuccessLoads(p)) /\ WF_vars(SuccessStores(p))
        /\ WF_vars(Deadline(p)) /\ WF_vars(expired[p] /\ ServerFails(p))
        /\ WF_vars(FinishCommand(p)) /\ WF_vars(FinishVersion(p))

FairSpec == Spec /\ Fairness

-----------------------------------------------------------------------------
(* Properties *)

(* RecordAttempt before the request: an ordinary command does not ask within *)
(* the TTL of the attempt of a command that was through with its own, be it  *)
(* answered, failed or killed by the exit, whichever of several concurrent   *)
(* commands wrote last.                                                      *)
Throttled ==
    \A p \in tried : form[p] = "command" =>
        \A q \in tried \cap gone[p] : now[p] - now[q] >= TTL

(* finish: an answer the server gave in time is written before the process   *)
(* exits, however late the write is.                                         *)
AnswerKept == \A p \in Commands : main[p] = "exited" => refresh[p] \notin {"answered", "success"}

(* Retries stay a TTL apart, and an answer that came in time is written.     *)
RefreshSound == Throttled /\ AnswerKept

(* Notice and versionOutcome: a version that is named is a published one     *)
(* newer than the installed one, and "no newer release is available" means   *)
(* that within the TTL a first page listed none.                             *)
AnswersAreBacked ==
    \A p \in Commands :
        /\ printed[p] \in 1..MaxVersion => printed[p] > Installed /\ pub[printed[p]] # 0
        /\ printed[p] = Current =>
            \E t \in 1..MaxTime : Within(t, now[p]) /\ \E h \in highs[t] : h <= Installed

(* The records keep their types, and what the user is told is backed by them. *)
AnswersSound == TypeOK /\ AnswersAreBacked

(* CheckForUpdateAtStartup: when the record answers instead of the server,   *)
(* every release the user is not told of is younger than the TTL.            *)
SkipIsSound ==
    [][AppSkips => \A v \in (Installed + 1)..MaxVersion : pub[v] # 0 => clock - pub[v] < TTL]_vars

(* A command is never held up for good by the check it started. *)
CommandsExit == \A p \in Commands : (main[p] = "running") ~> (main[p] = "exited")
=============================================================================
