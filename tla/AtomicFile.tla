----------------------------- MODULE AtomicFile -----------------------------
(***************************************************************************)
(* Replacing a file through a temp file that is renamed over it            *)
(* (src/internal/atomicfile/atomicfile.go), as several processes do to     *)
(* recent.json and to the update cache: a second instance, the command-    *)
(* line tool.  A process may die at any step; its temp file stays until a  *)
(* later write finds it StaleTempAge old.  The removal of a temp file may  *)
(* fail, its error is ignored, and the file stays.                         *)
(*                                                                         *)
(* A write's data is its writer.  A file holds <<w, "part">> while w's     *)
(* data is incomplete and <<w, "whole">> after.  Time is one event: a temp *)
(* file becomes StaleTempAge old; that may happen to a live writer's too   *)
(* (a suspended machine), and writing to it makes it young again.          *)
(***************************************************************************)
EXTENDS Naturals, FiniteSets

CONSTANTS Writers,        \* the calls of Write, one per process
          Attempts,       \* DefaultAttempts: 1, or 5 on Windows
          NoFile          \* what the path holds before the first write

ASSUME WriterAssumption ==
  Attempts \in Nat \ {0} /\ NoFile \notin Writers \cup {"part", "whole"}

VARIABLES target,       \* what is at the path
          temps,        \* the temp file each writer created: contents, or NoFile
          stale,        \* the writers whose temp file is StaleTempAge old
          aged,         \* the old temp files each writer's sweep has still to look at
          victim,       \* the one it looked at and is about to remove, if any
          at,           \* where each writer is
          attempt,      \* the rename attempts each writer has made
          answer,       \* what each call returned: "none", "ok" or "error"
          landed,       \* history: the writers whose file was at the path
          leftBehind    \* history: the writers that failed to remove their temp file

afVars == <<target, temps, stale, aged, victim, at, attempt, answer, landed, leftBehind>>

Running == {"start", "sweep", "create", "write", "close", "rename", "renamed", "cleanup", "failed"}

AfInit ==
  /\ target = <<NoFile, "whole">>
  /\ temps = [w \in Writers |-> NoFile] /\ stale = {}
  /\ aged = [w \in Writers |-> {}] /\ victim = [w \in Writers |-> {}]
  /\ at = [w \in Writers |-> "idle"]
  /\ attempt = [w \in Writers |-> 0]
  /\ answer = [w \in Writers |-> "none"]
  /\ landed = {} /\ leftBehind = {}

Goto(w, place) == at' = [at EXCEPT ![w] = place]
UnchangedSweep == UNCHANGED <<aged, victim>>
UnchangedAnswer == UNCHANGED <<answer, landed, leftBehind>>

\* The name of w's temp file is gone.
Unlink(w) == temps' = [temps EXCEPT ![w] = NoFile] /\ stale' = stale \ {w}

\* Write: the directory is created first; that may fail.
WriteStarts(w) ==
  /\ at[w] = "idle"
  /\ Goto(w, "start") \/ Goto(w, "failed")
  /\ UNCHANGED <<target, temps, stale, attempt>> /\ UnchangedSweep /\ UnchangedAnswer

\* removeStaleTemps takes the time and lists the directory.
removeStaleTemps(w) ==
  /\ at[w] = "start"
  /\ aged' = [aged EXCEPT ![w] = stale]
  /\ Goto(w, "sweep")
  /\ UNCHANGED <<target, temps, stale, victim, attempt>> /\ UnchangedAnswer

\* Its loop reads the age of an entry: one that went away or was written to
\* since is passed over.
StaleTemp(w) ==
  /\ at[w] = "sweep" /\ victim[w] = {}
  /\ \E x \in aged[w] :
       /\ aged' = [aged EXCEPT ![w] = @ \ {x}]
       /\ victim' = [victim EXCEPT ![w] = {x} \cap stale]
  /\ UNCHANGED <<target, temps, stale, at, attempt>> /\ UnchangedAnswer

\* ... and then removes it, whatever was done to it in between; a failure is
\* ignored.
RemoveStale(w) ==
  /\ at[w] = "sweep"
  /\ \E x \in victim[w] : Unlink(x) \/ UNCHANGED <<temps, stale>>
  /\ victim' = [victim EXCEPT ![w] = {}]
  /\ UNCHANGED <<target, aged, at, attempt>> /\ UnchangedAnswer

SweepEnds(w) ==
  /\ at[w] = "sweep" /\ aged[w] = {} /\ victim[w] = {}
  /\ Goto(w, "create")
  /\ UNCHANGED <<target, temps, stale, attempt>> /\ UnchangedSweep /\ UnchangedAnswer

CreateTemp(w) ==
  /\ at[w] = "create"
  /\ \/ temps' = [temps EXCEPT ![w] = "part"] /\ Goto(w, "write")
     \/ Goto(w, "failed") /\ UNCHANGED temps
  /\ UNCHANGED <<target, stale, attempt>> /\ UnchangedSweep /\ UnchangedAnswer

\* Fault: a write that failed is taken for a whole one.
WriteTempUnchecked(w) ==
  /\ at[w] = "write"
  /\ \/ temps' = [temps EXCEPT ![w] = IF @ = NoFile THEN @ ELSE "whole"]
     \/ UNCHANGED temps
  /\ Goto(w, "close")
  /\ UNCHANGED <<target, stale, attempt>> /\ UnchangedSweep /\ UnchangedAnswer

\* A write through the handle reaches the file even when its name is gone.
WriteTemp(w) ==
  /\ at[w] = "write"
  /\ \/ /\ temps' = [temps EXCEPT ![w] = IF @ = NoFile THEN @ ELSE "whole"]
        /\ stale' = stale \ {w}
        /\ Goto(w, "close")
     \/ Goto(w, "cleanup") /\ stale' \in {stale, stale \ {w}} /\ UNCHANGED temps
  /\ UNCHANGED <<target, attempt>> /\ UnchangedSweep /\ UnchangedAnswer

CloseTemp(w) ==
  /\ at[w] = "close"
  /\ Goto(w, "rename") \/ Goto(w, "cleanup")
  /\ UNCHANGED <<target, temps, stale, attempt>> /\ UnchangedSweep /\ UnchangedAnswer

\* One attempt of the rename; a failure is retried up to Attempts times.  A
\* temp file that was swept cannot be renamed.
Rename(w) ==
  /\ at[w] = "rename"
  /\ attempt' = [attempt EXCEPT ![w] = @ + 1]
  /\ \/ /\ temps[w] # NoFile
        /\ target' = <<w, temps[w]>> /\ landed' = landed \cup {w}
        /\ Unlink(w)
        /\ Goto(w, "renamed")
     \/ /\ Goto(w, IF attempt[w] + 1 >= Attempts THEN "cleanup" ELSE "rename")
        /\ UNCHANGED <<target, temps, stale, landed>>
  /\ UNCHANGED <<answer, leftBehind>> /\ UnchangedSweep

\* The deferred removal of the temp file on every failure path.  Its error is
\* ignored: the file then stays.
Cleanup(w) ==
  /\ at[w] = "cleanup"
  /\ \/ Unlink(w) /\ UNCHANGED leftBehind
     \/ leftBehind' = leftBehind \cup {w} /\ UNCHANGED <<temps, stale>>
  /\ Goto(w, "failed")
  /\ UNCHANGED <<target, attempt, answer, landed>> /\ UnchangedSweep

\* The call returns, after the rename with nil and otherwise with the error.
WriteReturns(w) ==
  /\ at[w] \in {"renamed", "failed"}
  /\ answer' = [answer EXCEPT ![w] = IF at[w] = "renamed" THEN "ok" ELSE "error"]
  /\ Goto(w, "returned")
  /\ UNCHANGED <<target, temps, stale, attempt, landed, leftBehind>> /\ UnchangedSweep

\* The process dies.
Crash(w) ==
  /\ at[w] \in Running
  /\ Goto(w, "dead")
  /\ UNCHANGED <<target, temps, stale, attempt>> /\ UnchangedSweep /\ UnchangedAnswer

Ages(w) ==
  /\ temps[w] # NoFile /\ w \notin stale
  /\ stale' = stale \cup {w}
  /\ UNCHANGED <<target, temps, at, attempt>> /\ UnchangedSweep /\ UnchangedAnswer

AfNext ==
  \E w \in Writers :
    \/ WriteStarts(w) \/ removeStaleTemps(w) \/ StaleTemp(w) \/ RemoveStale(w) \/ SweepEnds(w)
    \/ CreateTemp(w) \/ WriteTemp(w) \/ CloseTemp(w) \/ Rename(w) \/ Cleanup(w) \/ WriteReturns(w)
    \/ Crash(w) \/ Ages(w)

AfSpec == AfInit /\ [][AfNext]_afVars

(***************************************************************************)
(* Properties.                                                             *)
(***************************************************************************)

\* A reader of the path never sees a partial file, whoever died where.
FilesAreWhole == target[2] = "whole"

\* Write's answer is true: a call that reported success had its file at the
\* path, one that reported an error never had, not even when a sweep took its
\* temp file while it was suspended.  The only file at the path that nobody
\* reported is one of a call still to return, or that died after its rename.
AnswersAreTrue ==
  /\ \A w \in Writers : /\ answer[w] = "ok" => w \in landed
                        /\ answer[w] = "error" => w \notin landed
  /\ target[1] # NoFile /\ answer[target[1]] = "none" => at[target[1]] \in {"renamed", "dead"}

\* A temp file belongs to a call in progress, to a process that died, or to
\* a call that reported an error and could not remove it.
NoLitter ==
  \A w \in Writers : temps[w] # NoFile =>
    at[w] \in Running \cup {"dead"} \/ (w \in leftBehind /\ answer[w] = "error")

\* Write: a reader never sees a partial file, what a call reports is what
\* happened to the path, and a call that returns leaves a temp file behind
\* only where its removal failed.
AtomicFileSafe == FilesAreWhole /\ AnswersAreTrue /\ NoLitter
=============================================================================
