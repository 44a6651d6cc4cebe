------------------------------ MODULE Startup ------------------------------
(***************************************************************************)
(* The launch of the desktop program: the splash scheduler                 *)
(* (src/internal/splash/splash.go) and the windows it drives (src/main.go),*)
(* with the About request held until the frontend listens.                 *)
(*                                                                         *)
(* Every section under Scheduler.mu is one step; what runs after the       *)
(* unlock is a job of its own, on whatever goroutine reached it.  A timer  *)
(* that is due starts its job at some later moment, so every callback may  *)
(* be late.  Two equal jobs are one: the second would find the first's     *)
(* flag set and return.                                                    *)
(***************************************************************************)
EXTENDS Naturals

CONSTANTS minDisplay, timeout,      \* 400 ms and 30 s in the code
          loadWait,                 \* 2 s: how long the main window waits for the splash page
          crossfade, forceQuit,     \* 220 ms and 60 s
          Horizon                   \* bound on the clock while nothing is scheduled

ASSUME StartupAssumption ==
  {minDisplay, timeout, loadWait, crossfade, forceQuit, Horizon} \subseteq Nat

VARIABLES now, linux,
          sched,       \* the fields of Scheduler, and when it dismissed
          timers,      \* pending timers: when due and which job they start
          jobs,        \* started and unfinished jobs
          splash, main,     \* the two windows
          splashLoaded, mainReady, seenReady,    \* the Linux handshake; the sync.Once
          failed, quit,
          about        \* aboutReady, aboutPending, and how many requests reached the dialog

startupVars == <<now, linux, sched, timers, jobs, splash, main, splashLoaded, mainReady,
                 seenReady, failed, quit, about>>

windowVars == <<splash, main, splashLoaded, mainReady, seenReady, failed, quit, about>>

StartupInit ==
  /\ now = 0 /\ linux \in BOOLEAN
  /\ sched = [shownAt |-> 0, deadline |-> timeout, mainReadyFired |-> FALSE, readyPending |-> FALSE,
              timeoutFired |-> FALSE, dismissFired |-> FALSE, dismissedAt |-> 0]
  /\ timers = {[due |-> timeout, job |-> "fireTimeout"]} /\ jobs = {}
  /\ splash = IF linux THEN "hidden" ELSE "shown"
  /\ main = "hidden"
  /\ splashLoaded = FALSE /\ mainReady = FALSE /\ seenReady = FALSE
  /\ failed = FALSE /\ quit = FALSE
  /\ about = [ready |-> FALSE, pending |-> FALSE, shown |-> FALSE, asked |-> FALSE]

Decided == sched.mainReadyFired \/ sched.timeoutFired \/ sched.dismissFired

Ends(job, then) == job \in jobs /\ jobs' = (jobs \ {job}) \cup then
After(d, job) == timers' = timers \cup {[due |-> now + d, job |-> job]}
StopTimeout == timers' = {t \in timers : t.job # "fireTimeout"}

\* MainWindowReady under mu ...
MainWindowReady ==
  /\ IF Decided THEN Ends("ready", {}) /\ UNCHANGED <<sched, timers>>
     ELSE /\ Ends("ready", {"floor"})
          /\ sched' = [sched EXCEPT !.mainReadyFired = TRUE]
          /\ StopTimeout
  /\ UNCHANGED <<now, linux, windowVars>>

\* Fault: the splash is dismissed without waiting for the floor.
MinDisplayFloorIgnored ==
  /\ Ends("floor", {"dismiss"}) /\ UNCHANGED <<timers, sched, now, linux, windowVars>>

\* ... and after it: dismiss at once, or when the floor is reached.
MinDisplayFloor ==
  /\ IF now - sched.shownAt >= minDisplay
     THEN Ends("floor", {"dismiss"}) /\ UNCHANGED timers
     ELSE Ends("floor", {}) /\ After(minDisplay - (now - sched.shownAt), "dismiss")
  /\ UNCHANGED <<sched, now, linux, windowVars>>

\* MainWindowReadyWithin under mu: the timeout is called off at once.
MainWindowReadyWithin ==
  /\ IF Decided THEN Ends("within", {}) /\ UNCHANGED <<sched, timers>>
     ELSE /\ Ends("within", {"await"})
          /\ sched' = [sched EXCEPT !.readyPending = TRUE]
          /\ StopTimeout
  /\ UNCHANGED <<now, linux, windowVars>>

\* Fault: the timeout is called off but the ready call is not scheduled.
AwaitSplashForgotten ==
  /\ Ends("await", {}) /\ UNCHANGED <<timers, sched, now, linux, windowVars>>

AwaitSplash ==
  /\ LET wait == IF sched.deadline < now + loadWait THEN sched.deadline ELSE now + loadWait
     IN  IF wait <= now THEN Ends("await", {"ready"}) /\ UNCHANGED timers
         ELSE Ends("await", {}) /\ timers' = timers \cup {[due |-> wait, job |-> "ready"]}
  /\ UNCHANGED <<sched, now, linux, windowVars>>

\* runDismiss and the onDismiss callback of main.go, onSplashDismiss.
runDismiss ==
  /\ IF sched.dismissFired \/ sched.timeoutFired
     THEN Ends("dismiss", {}) /\ UNCHANGED sched
     ELSE Ends("dismiss", {"onDismiss"}) /\ sched' = [sched EXCEPT !.dismissFired = TRUE, !.dismissedAt = now]
  /\ UNCHANGED <<timers, now, linux, windowVars>>

onSplashDismiss ==
  /\ Ends("onDismiss", {}) /\ main' = "shown" /\ After(crossfade, "close")
  /\ UNCHANGED <<sched, now, linux, splash, splashLoaded, mainReady, seenReady, failed, quit, about>>

CloseSplash ==
  /\ Ends("close", {}) /\ splash' = "closed" /\ quit' = (quit \/ failed)
  /\ UNCHANGED <<sched, timers, now, linux, main, splashLoaded, mainReady, seenReady, failed, about>>

fireTimeout ==
  /\ IF Decided \/ sched.readyPending
     THEN Ends("fireTimeout", {}) /\ UNCHANGED sched
     ELSE Ends("fireTimeout", {"onTimeout"}) /\ sched' = [sched EXCEPT !.timeoutFired = TRUE]
  /\ UNCHANGED <<timers, now, linux, windowVars>>

onTimeout ==
  /\ Ends("onTimeout", {}) /\ failed' = TRUE /\ After(forceQuit, "forceQuit")
  /\ UNCHANGED <<sched, now, linux, splash, main, splashLoaded, mainReady, seenReady, quit, about>>

ForceQuit ==
  /\ Ends("forceQuit", {}) /\ quit' = (quit \/ failed)
  /\ UNCHANGED <<sched, timers, now, linux, splash, main, splashLoaded, mainReady, seenReady, failed, about>>

\* The user closes the splash (the error pane's button, or the system).
SplashClosing ==
  /\ splash = "shown" /\ splash' = "closed" /\ quit' = failed
  /\ UNCHANGED <<now, linux, sched, timers, jobs, main, splashLoaded, mainReady, seenReady, failed, about>>

\* WindowRuntimeReady of the main window: once.  On Linux the handler records
\* its event before it looks at the other's.
RuntimeReady ==
  /\ ~seenReady /\ seenReady' = TRUE
  /\ jobs' = jobs \cup {IF linux THEN "checkLoaded" ELSE "ready"}
  /\ mainReady' = (mainReady \/ linux)
  /\ UNCHANGED <<now, linux, sched, timers, splash, main, splashLoaded, failed, quit, about>>

CheckLoaded ==
  /\ Ends("checkLoaded", {IF splashLoaded THEN "ready" ELSE "within"})
  /\ UNCHANGED <<now, linux, sched, timers, windowVars>>

\* WindowLoadFinished of the splash on Linux: Shown restarts the floor unless
\* the main window is ready, the splash is shown, the event recorded ...
LoadFinished ==
  /\ linux /\ ~splashLoaded /\ {"loadShow", "checkReady"} \cap jobs = {} /\ splash = "hidden"
  /\ IF sched.mainReadyFired \/ sched.dismissFired
     THEN jobs' = jobs \cup {"checkReady"} /\ splashLoaded' = TRUE /\ UNCHANGED sched
     ELSE /\ sched' = [sched EXCEPT !.shownAt = now]
          /\ jobs' = jobs \cup {"loadShow"} /\ UNCHANGED splashLoaded
  /\ UNCHANGED <<now, linux, timers, splash, main, mainReady, seenReady, failed, quit, about>>

LoadShow ==
  /\ Ends("loadShow", {"checkReady"}) /\ splashLoaded' = TRUE
  /\ splash' = IF splash = "closed" THEN splash ELSE "shown"
  /\ UNCHANGED <<now, linux, sched, timers, main, mainReady, seenReady, failed, quit, about>>

\* ... and then the main window's event is looked at.
CheckReady ==
  /\ Ends("checkReady", IF mainReady THEN {"ready"} ELSE {})
  /\ UNCHANGED <<now, linux, sched, timers, windowVars>>

\* showAbout, and the frontend's first report of its navigation state.
ShowAbout ==
  /\ ~about.asked
  /\ about' = IF about.ready THEN [about EXCEPT !.asked = TRUE, !.shown = TRUE]
              ELSE [about EXCEPT !.asked = TRUE, !.pending = TRUE]
  /\ UNCHANGED <<now, linux, sched, timers, jobs, splash, main, splashLoaded, mainReady, seenReady, failed, quit>>

NavigateStateChanged ==
  /\ seenReady /\ ~about.ready
  /\ about' = [about EXCEPT !.ready = TRUE, !.pending = FALSE, !.shown = @ \/ about.pending]
  /\ UNCHANGED <<now, linux, sched, timers, jobs, splash, main, splashLoaded, mainReady, seenReady, failed, quit>>

TimerFires ==
  /\ \E t \in timers : t.due <= now /\ timers' = timers \ {t} /\ jobs' = jobs \cup {t.job}
  /\ UNCHANGED <<now, linux, sched, windowVars>>

Tick ==
  /\ now < Horizon \/ \E t \in timers : t.due > now
  /\ now' = now + 1
  /\ UNCHANGED <<linux, sched, timers, jobs, windowVars>>

Jobs ==
  \/ MainWindowReady \/ MinDisplayFloor \/ MainWindowReadyWithin \/ AwaitSplash \/ runDismiss
  \/ onSplashDismiss \/ CloseSplash \/ fireTimeout \/ onTimeout \/ ForceQuit \/ CheckLoaded
  \/ LoadShow \/ CheckReady

StartupNext ==
  \/ Jobs \/ SplashClosing \/ RuntimeReady \/ LoadFinished \/ ShowAbout \/ NavigateStateChanged
  \/ TimerFires \/ Tick

\* The Go runtime runs started goroutines and due timers, and time passes;
\* nothing is assumed of the web views or the user.
StartupFairness == WF_startupVars(Jobs) /\ WF_startupVars(TimerFires) /\ WF_startupVars(Tick)

StartupSpec == StartupInit /\ [][StartupNext]_startupVars /\ StartupFairness

(***************************************************************************)
(* Properties.                                                             *)
(***************************************************************************)

\* The launch ends one way only: the main window is never revealed by a
\* launch that was declared failed, and no launch is declared failed once the
\* main window reported in, whichever callback was late.
OneEnding ==
  /\ ~(sched.dismissFired /\ sched.timeoutFired)
  /\ sched.timeoutFired => ~sched.mainReadyFired /\ ~sched.readyPending
  /\ main = "shown" => ~failed /\ ~quit

\* The splash stays up for its minimum time, counted from when it became
\* visible, even where that was after the scheduler started.
MinDisplayKept == sched.dismissFired => sched.dismissedAt - sched.shownAt >= minDisplay

\* An About request made before the frontend listens is not lost.
AboutKept == about.asked => about.pending \/ about.shown

StartupSafe == OneEnding /\ MinDisplayKept /\ AboutKept /\ (about.ready => ~about.pending)

\* Every launch comes to an end the user sees: the main window, or a program
\* that quits; it never hangs behind the splash.
LaunchEnds == <>(main = "shown" \/ quit)
=============================================================================
