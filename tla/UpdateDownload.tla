--------------------------- MODULE UpdateDownload ---------------------------
(***************************************************************************)
(* The assisted download of an update: the notifier dialog                 *)
(* (frontend UpdateNotifier.tsx), the binding calls it makes, the pause     *)
(* gate of internal/updateservice and the verified download of              *)
(* internal/updatecheck.                                                    *)
(*                                                                          *)
(* The dialog sends three kinds of calls: DownloadUpdate, the cancellation  *)
(* of a DownloadUpdate, and SetDownloadPaused.  Wails runs each on its own  *)
(* goroutine, so they may start in another order than they were sent.        *)
(* Cancelling rejects the promise in the page at once, so the catch and     *)
(* finally blocks of runDownload run before the next click, while the       *)
(* context in Go is cancelled when the call gets there.                     *)
(***************************************************************************)
EXTENDS Integers, Sequences, FiniteSets, SequencesExt

CONSTANTS
    MaxDownloads, \* bound: downloads the user starts, one after the other
    Chunks,      \* reads it takes to fetch the asset's body
    Escalate,    \* UPDATE_VERIFY_ESCALATE_AFTER, failed checks before Retry goes
    MaxPrompts   \* bound: how often the user opens the cancel prompt

ASSUME ConstantsAssumption ==
    /\ MaxDownloads \in Nat
    /\ Chunks \in Nat /\ Escalate \in Nat \ {0}
    /\ MaxPrompts \in Nat

(* Downloads are numbered in the order they are started. *)
Downloads == 1..MaxDownloads

NoOne == 0

VARIABLES
    kind,        \* the dialog's DownloadState
    open,        \* the dialog is open
    ready,       \* updateReady: the last check found a newer release
    confirm,     \* the cancel prompt is open
    current,     \* downloadRef and downloadingRef: the download awaited, or NoOne
    shown,       \* the download whose outcome kind shows, or NoOne
    fails,       \* failCountRef
    calls,       \* binding calls sent and not started yet
    stage,       \* where each DownloadUpdate goroutine is
    count,       \* body reads done
    intact,      \* the body read so far matches the published checksum
    ctxDone,     \* the call's context is cancelled
    hook,        \* the context.AfterFunc of gate.wait is registered
    temps,       \* downloads with a temp file
    partial,     \* downloads with an unfinished copy in the Downloads folder
    saved,       \* downloads moved or copied into the Downloads folder
    undeleted,   \* history: the removals that failed, <<download, "temp" or "copy">>
    paused,      \* pauseGate.paused
    mu,          \* the download holding pauseGate.mu, or NoOne
    overtaken,   \* history: a call that sets the gate has started before an older one
    prompts      \* cancel prompts opened so far

dialog == <<kind, open, ready, confirm, current, shown, fails, prompts>>
files == <<temps, partial, saved, undeleted>>
goroutines == <<stage, count, intact, ctxDone, hook, files>>
gate == <<paused, mu, overtaken>>
vars == <<dialog, calls, goroutines, gate>>

(* The ways a DownloadUpdate can end: what the page shows as an error, a    *)
(* missing checksum too, is one of them.                                    *)
Outcomes == {"saved", "mismatch", "failed"}

Stages == {"idle", "sent", "request", "gate", "checking", "parking", "asleep",
           "woken", "read", "verify", "save", "copy"} \cup Outcomes

Call(op, d, on) == [op |-> op, of |-> d, on |-> on]

TypeOK ==
    /\ kind \in {"idle", "downloading", "success", "verify-failed", "error"}
    /\ open \in BOOLEAN /\ ready \in BOOLEAN /\ confirm \in BOOLEAN
    /\ current \in Downloads \cup {NoOne} /\ shown \in Downloads \cup {NoOne}
    /\ fails \in 0..Escalate
    /\ calls \in Seq([op : {"download", "cancel", "pause"},
                      of : Downloads \cup {NoOne}, on : BOOLEAN])
    /\ stage \in [Downloads -> Stages]
    /\ count \in [Downloads -> 0..Chunks]
    /\ intact \in [Downloads -> BOOLEAN] /\ ctxDone \in [Downloads -> BOOLEAN]
    /\ hook \in [Downloads -> BOOLEAN]
    /\ temps \subseteq Downloads /\ partial \subseteq Downloads /\ saved \subseteq Downloads
    /\ undeleted \subseteq Downloads \X {"temp", "copy"}
    /\ paused \in BOOLEAN /\ mu \in Downloads \cup {NoOne} /\ overtaken \in BOOLEAN
    /\ prompts \in 0..MaxPrompts

(* A check at launch found an update with an asset for this platform. *)
Init ==
    /\ kind = "idle" /\ open = FALSE /\ ready = TRUE /\ confirm = FALSE
    /\ current = NoOne /\ shown = NoOne /\ fails = 0
    /\ calls = <<>>
    /\ stage = [d \in Downloads |-> "idle"]
    /\ count = [d \in Downloads |-> 0]
    /\ intact = [d \in Downloads |-> TRUE]
    /\ ctxDone = [d \in Downloads |-> FALSE]
    /\ hook = [d \in Downloads |-> FALSE]
    /\ temps = {} /\ partial = {} /\ saved = {} /\ undeleted = {}
    /\ paused = FALSE /\ mu = NoOne /\ overtaken = FALSE
    /\ prompts = 0

-----------------------------------------------------------------------------
(* The dialog *)

Downloading == kind = "downloading"

OpenFromBadge ==
    /\ ready /\ ~open
    /\ open' = TRUE
    /\ UNCHANGED <<kind, ready, confirm, current, shown, fails, prompts>>
    /\ UNCHANGED <<calls, goroutines, gate>>

(* Help > Check for Updates: the dialog opens whatever the answer; a failed *)
(* check clears the result while a download may be running.                 *)
CheckAgain ==
    /\ open' = TRUE
    /\ ready' \in BOOLEAN
    /\ UNCHANGED <<kind, confirm, current, shown, fails, prompts>>
    /\ UNCHANGED <<calls, goroutines, gate>>

(* The footer's Close and Remind me later, Escape and a click outside: all  *)
(* are disabled while a download runs.                                      *)
Close ==
    /\ open /\ ~confirm /\ ~Downloading
    /\ open' = FALSE
    /\ IF current = NoOne THEN kind' = "idle" /\ fails' = 0 /\ shown' = NoOne
                          ELSE UNCHANGED <<kind, fails, shown>>
    /\ UNCHANGED <<ready, confirm, current, prompts>>
    /\ UNCHANGED <<calls, goroutines, gate>>

(* Skip this version closes the dialog and leaves the download's outcome.   *)
Skip ==
    /\ open /\ ~confirm /\ ~Downloading /\ ready
    /\ open' = FALSE
    /\ UNCHANGED <<kind, ready, confirm, current, shown, fails, prompts>>
    /\ UNCHANGED <<calls, goroutines, gate>>

(* Fault: Retry stays however often the check failed. *)
OfferedAlways ==
    /\ open /\ ready /\ ~confirm
    /\ kind \in {"idle", "error", "verify-failed"}

(* The dialog offers Download, or Retry until too many checks have failed. *)
Offered ==
    /\ open /\ ready /\ ~confirm
    /\ \/ kind \in {"idle", "error"}
       \/ kind = "verify-failed" /\ fails < Escalate

Unused == {d \in Downloads : stage[d] = "idle"}

RunDownload(d) ==
    /\ Offered /\ current = NoOne
    /\ d \in Unused /\ \A e \in Unused : d <= e
    /\ current' = d /\ shown' = d
    /\ kind' = "downloading"
    /\ stage' = [stage EXCEPT ![d] = "sent"]
    /\ calls' = Append(calls, Call("download", d, FALSE))
    /\ UNCHANGED <<open, ready, confirm, fails, prompts>>
    /\ UNCHANGED <<count, intact, ctxDone, hook, files, gate>>

(* The dialog's cancel button pauses the transfer and opens the prompt.  It *)
(* is drawn while the last progress event said "downloading"; events are    *)
(* late, so it can be clicked at any later stage too.                       *)
RequestCancel ==
    /\ open /\ ready /\ Downloading /\ ~confirm /\ prompts < MaxPrompts
    /\ prompts' = prompts + 1
    /\ confirm' = TRUE
    /\ calls' = Append(calls, Call("pause", NoOne, TRUE))
    /\ UNCHANGED <<kind, open, ready, current, shown, fails>>
    /\ UNCHANGED <<goroutines, gate>>

(* Keep downloading, Escape or a click outside the prompt. *)
KeepDownloading ==
    /\ confirm
    /\ confirm' = FALSE
    /\ calls' = IF current = NoOne THEN calls ELSE Append(calls, Call("pause", NoOne, FALSE))
    /\ UNCHANGED <<kind, open, ready, current, shown, fails, prompts>>
    /\ UNCHANGED <<goroutines, gate>>

(* Fault: the page forgets the download without cancelling the call. *)
ConfirmCancelForgets ==
    /\ confirm
    /\ confirm' = FALSE
    /\ IF current = NoOne
       THEN UNCHANGED <<kind, current, shown>>
       ELSE kind' = "idle" /\ current' = NoOne /\ shown' = NoOne
    /\ UNCHANGED <<open, ready, fails, prompts, calls>>
    /\ UNCHANGED <<goroutines, gate>>

(* The promise is rejected at once: cancelledRef is set, seen and cleared,  *)
(* and finally drops the reference, all before the next event.              *)
ConfirmCancel ==
    /\ confirm
    /\ confirm' = FALSE
    /\ IF current = NoOne
       THEN UNCHANGED <<kind, current, shown, calls>>
       ELSE /\ kind' = "idle" /\ current' = NoOne /\ shown' = NoOne
            /\ calls' = Append(calls, Call("cancel", current, FALSE))
    /\ UNCHANGED <<open, ready, fails, prompts>>
    /\ UNCHANGED <<goroutines, gate>>

(* What runDownload shows for each outcome. *)
KindOf(outcome) ==
    CASE outcome = "saved" -> "success"
      [] outcome = "mismatch" -> "verify-failed"
      [] OTHER -> "error"

(* The awaited promise settles. *)
Settles ==
    /\ current # NoOne /\ stage[current] \in Outcomes
    /\ LET outcome == stage[current] IN
       /\ kind' = KindOf(outcome)
       /\ fails' = CASE outcome = "saved" -> 0
                     [] outcome = "mismatch" -> fails + 1
                     [] OTHER -> fails
    /\ current' = NoOne
    /\ UNCHANGED <<open, ready, confirm, shown, prompts>>
    /\ UNCHANGED <<calls, goroutines, gate>>

-----------------------------------------------------------------------------
(* The pause gate *)

(* A broadcast moves every sleeper to where it takes the mutex again. *)
Broadcast(s) == [d \in Downloads |-> IF s[d] = "asleep" THEN "woken" ELSE s[d]]

(* pauseGate.set on top of the goroutines' stages s. *)
Set(i, on, s) ==
    /\ mu = NoOne
    /\ overtaken' = (overtaken \/ \E j \in 1..i-1 : calls[j].op # "cancel")
    /\ paused' = on
    /\ stage' = IF on THEN s ELSE Broadcast(s)
    /\ mu' = mu

GoesTo(d, s) == stage' = [stage EXCEPT ![d] = s]

(* The i-th call sent starts on its goroutine. *)
MayStart(i) == i \in 1..Len(calls)

SetDownloadPaused(i) ==
    /\ MayStart(i) /\ calls[i].op = "pause"
    /\ Set(i, calls[i].on, stage)
    /\ calls' = RemoveAt(calls, i)
    /\ UNCHANGED <<dialog, count, intact, ctxDone, hook, files>>

(* DownloadUpdate first clears the pause a prior download may have left. *)
DownloadUpdate(i) ==
    /\ MayStart(i) /\ calls[i].op = "download"
    /\ Set(i, FALSE, [stage EXCEPT ![calls[i].of] = "request"])
    /\ calls' = RemoveAt(calls, i)
    /\ UNCHANGED <<dialog, count, intact, ctxDone, hook, files>>

(* External: Wails cancels the context of a call it has started. *)
CancelCall(i) ==
    /\ MayStart(i) /\ calls[i].op = "cancel" /\ stage[calls[i].of] # "sent"
    /\ ctxDone' = [ctxDone EXCEPT ![calls[i].of] = TRUE]
    /\ calls' = RemoveAt(calls, i)
    /\ UNCHANGED <<dialog, stage, count, intact, hook, files, gate>>

(* os.Remove of d's temp file: its error is ignored, and the file stays.     *)
RemoveTemp(d) ==
    \/ temps' = temps \ {d} /\ UNCHANGED undeleted
    \/ temps' = temps \cup {d} /\ undeleted' = undeleted \cup {<<d, "temp">>}

(* Every error return runs the deferred removal of the temp file. *)
Fails(d, outcome) ==
    /\ GoesTo(d, outcome) /\ RemoveTemp(d)
    /\ UNCHANGED <<partial, saved>>

(* wait takes the mutex; unpaused, it returns the context's error at once. *)
WaitEnters(d) ==
    /\ stage[d] = "gate" /\ mu = NoOne
    /\ IF paused
       THEN /\ mu' = d /\ hook' = [hook EXCEPT ![d] = TRUE]
            /\ GoesTo(d, "checking") /\ UNCHANGED files
       ELSE /\ UNCHANGED <<mu, hook>>
            /\ IF ctxDone[d] THEN Fails(d, "failed") ELSE GoesTo(d, "read") /\ UNCHANGED files
    /\ UNCHANGED <<dialog, calls, count, intact, ctxDone, paused, overtaken>>

(* The loop's test, with the mutex held: leave, or go on to Wait. *)
WaitChecks(d) ==
    /\ stage[d] = "checking" /\ mu = d
    /\ IF paused /\ ~ctxDone[d]
       THEN GoesTo(d, "parking") /\ UNCHANGED <<mu, hook, files>>
       ELSE /\ mu' = NoOne /\ hook' = [hook EXCEPT ![d] = FALSE]
            /\ IF ctxDone[d] THEN Fails(d, "failed") ELSE GoesTo(d, "read") /\ UNCHANGED files
    /\ UNCHANGED <<dialog, calls, count, intact, ctxDone, paused, overtaken>>

(* cond.Wait joins the waiters and releases the mutex in one step. *)
WaitParks(d) ==
    /\ stage[d] = "parking"
    /\ GoesTo(d, "asleep") /\ mu' = NoOne
    /\ UNCHANGED <<dialog, calls, count, intact, ctxDone, hook, files, paused, overtaken>>

WaitWakes(d) ==
    /\ stage[d] = "woken" /\ mu = NoOne
    /\ GoesTo(d, "checking") /\ mu' = d
    /\ UNCHANGED <<dialog, calls, count, intact, ctxDone, hook, files, paused, overtaken>>

(* Fault: the broadcast is made without the mutex and can be lost. *)
AfterFuncRunsUnlocked(d) ==
    /\ hook[d] /\ ctxDone[d]
    /\ hook' = [hook EXCEPT ![d] = FALSE]
    /\ stage' = Broadcast(stage)
    /\ UNCHANGED <<dialog, calls, count, intact, ctxDone, files, gate>>

(* context.AfterFunc: once the context is done, one broadcast under mu. *)
AfterFuncRuns(d) ==
    /\ hook[d] /\ ctxDone[d] /\ mu = NoOne
    /\ hook' = [hook EXCEPT ![d] = FALSE]
    /\ stage' = Broadcast(stage)
    /\ UNCHANGED <<dialog, calls, count, intact, ctxDone, files, gate>>

-----------------------------------------------------------------------------
(* DownloadAndVerify and downloadTo *)

(* Failures before the body: no sums URL, no temp file, a refused request   *)
(* or a status other than 200, the last two with the temp file there.       *)
RequestEnds(d) ==
    /\ stage[d] = "request"
    /\ \/ /\ ~ctxDone[d] /\ GoesTo(d, "gate")
          /\ temps' = temps \cup {d} /\ UNCHANGED <<partial, saved, undeleted>>
       \/ Fails(d, "failed")
    /\ UNCHANGED <<dialog, calls, count, intact, ctxDone, hook, gate>>

(* One read of the body, right or not; after the last one, Close and the    *)
(* verifying phase.                                                         *)
ReadGets(d) ==
    /\ stage[d] = "read"
    /\ \/ /\ count[d] < Chunks
          /\ count' = [count EXCEPT ![d] = @ + 1]
          /\ intact' \in {intact, [intact EXCEPT ![d] = FALSE]}
          /\ GoesTo(d, "gate")
       \/ count[d] = Chunks /\ GoesTo(d, "verify") /\ UNCHANGED <<count, intact>>
    /\ UNCHANGED <<dialog, calls, ctxDone, hook, files, gate>>

(* A read error: the network, the disk, or the cancelled context. *)
ReadFails(d) ==
    /\ stage[d] = "read"
    /\ Fails(d, "failed")
    /\ UNCHANGED <<dialog, calls, count, intact, ctxDone, hook, gate>>

(* Fault: the comparison's result is not used. *)
VerifiesAnything(d) ==
    /\ stage[d] = "verify"
    /\ \/ ~ctxDone[d] /\ GoesTo(d, "save") /\ UNCHANGED files
       \/ Fails(d, "failed")
    /\ UNCHANGED <<dialog, calls, count, intact, ctxDone, hook, gate>>

(* The checksum list is fetched with the context; the comparison follows. *)
Verifies(d) ==
    /\ stage[d] = "verify"
    /\ \/ ~ctxDone[d] /\ intact[d] /\ GoesTo(d, "save") /\ UNCHANGED files
       \/ ~ctxDone[d] /\ ~intact[d] /\ Fails(d, "mismatch")
       \/ Fails(d, "failed")
    /\ UNCHANGED <<dialog, calls, count, intact, ctxDone, hook, gate>>

(* moveFile: the rename.  When it fails for any reason, and both files can   *)
(* be opened, the copy it falls back to.                                     *)
MoveFile(d) ==
    \/ /\ GoesTo(d, "saved")
       /\ temps' = temps \ {d} /\ saved' = saved \cup {d} /\ UNCHANGED <<partial, undeleted>>
    \/ /\ GoesTo(d, "copy")
       /\ partial' = partial \cup {d} /\ UNCHANGED <<temps, saved, undeleted>>
    \/ Fails(d, "failed")

(* The free name is looked for and the file moved without another look at   *)
(* the context; no free name fails like a failed move.                      *)
Saves(d) ==
    /\ stage[d] = "save"
    /\ MoveFile(d)
    /\ UNCHANGED <<dialog, calls, count, intact, ctxDone, hook, gate>>

(* The copy ends: whole, and then the temp file is removed, or the move      *)
(* counts as done with it still there; or not, and then the partial copy and *)
(* the temp file are removed, each unless its removal fails.                 *)
CopyEnds(d) ==
    /\ stage[d] = "copy"
    /\ \/ /\ GoesTo(d, "saved") /\ RemoveTemp(d)
          /\ partial' = partial \ {d} /\ saved' = saved \cup {d}
       \/ /\ GoesTo(d, "failed") /\ UNCHANGED saved
          /\ \E kept \in SUBSET {"temp", "copy"} :
               /\ temps' = IF "temp" \in kept THEN temps ELSE temps \ {d}
               /\ partial' = IF "copy" \in kept THEN partial ELSE partial \ {d}
               /\ undeleted' = undeleted \cup {d} \X kept
    /\ UNCHANGED <<dialog, calls, count, intact, ctxDone, hook, gate>>

-----------------------------------------------------------------------------
(* The specification *)

Start(i) == SetDownloadPaused(i) \/ DownloadUpdate(i) \/ CancelCall(i)

Waits(d) == WaitEnters(d) \/ WaitChecks(d) \/ WaitParks(d) \/ WaitWakes(d) \/ AfterFuncRuns(d)

Network(d) == RequestEnds(d) \/ ReadGets(d) \/ ReadFails(d) \/ Verifies(d)

Next ==
    \/ OpenFromBadge \/ CheckAgain \/ Close \/ Skip
    \/ RequestCancel \/ KeepDownloading \/ ConfirmCancel \/ Settles
    \/ \E i \in 1..Len(calls) : Start(i)
    \/ \E d \in Downloads : RunDownload(d) \/ Waits(d) \/ Network(d) \/ Saves(d) \/ CopyEnds(d)

Spec == Init /\ [][Next]_vars

(* Goroutines run and calls start.  The user need do nothing, and a server  *)
(* may stall a transfer for ever: the download client has no timeout.  A    *)
(* cancelled context fails whatever it waits for.                           *)
Fairness ==
    /\ WF_vars(\E i \in 1..Len(calls) : Start(i))
    /\ WF_vars(Settles)
    /\ \A d \in Downloads :
        /\ WF_vars(WaitEnters(d)) /\ WF_vars(WaitChecks(d)) /\ WF_vars(WaitParks(d))
        /\ WF_vars(WaitWakes(d)) /\ WF_vars(AfterFuncRuns(d))
        /\ WF_vars(ctxDone[d] /\ Network(d))
        /\ WF_vars(Saves(d)) /\ WF_vars(CopyEnds(d))

FairSpec == Spec /\ Fairness

-----------------------------------------------------------------------------
(* Properties *)

CancelSent(d) == \E i \in 1..Len(calls) : calls[i].op = "cancel" /\ calls[i].of = d

Running(d) == stage[d] \notin Outcomes \cup {"idle"}

(* runDownload's re-entry guard and cancelDownload: every download that     *)
(* still runs in Go is the one the dialog waits for, or has been cancelled. *)
NoOrphanDownload ==
    \A d \in Downloads : Running(d) => d = current \/ CancelSent(d) \/ ctxDone[d]

(* DownloadAndVerify: only bytes that matched their checksum get into the    *)
(* Downloads folder, and the dialog reports success only for a whole file.   *)
SavedIsVerified ==
    /\ \A d \in saved \cup partial : count[d] = Chunks /\ intact[d]
    /\ kind = "success" => shown \in saved \ partial

(* The deferred cleanup and moveFile's: a download that ended has a temp     *)
(* file, or a copy that is not whole, left only where its removal failed,    *)
(* and the partial copy only if it ended as failed.                          *)
LeftoversExplained ==
    /\ \A d \in temps : Running(d) \/ <<d, "temp">> \in undeleted
    /\ \A d \in partial : stage[d] \in {"copy", "failed"}
    /\ \A d \in partial : stage[d] = "failed" => <<d, "copy">> \in undeleted

(* Every success the dialog shows is a whole verified file in the Downloads  *)
(* folder, and what else a download leaves behind could not be removed.      *)
OnlyVerifiedFiles == SavedIsVerified /\ LeftoversExplained

(* The dialog and its downloads keep their types, no download runs on unseen, *)
(* and only verified files are left behind, unless a removal fails.           *)
DownloadSound == TypeOK /\ NoOrphanDownload /\ OnlyVerifiedFiles

(* pauseGate.wait: a cancelled download ends, even one asleep at the gate   *)
(* when the cancellation comes.                                             *)
CancelledEnds ==
    \A d \in Downloads : (CancelSent(d) \/ ctxDone[d]) ~> ~Running(d)

(* handleConfirmOpenChange and DownloadUpdate: the awaited download is not  *)
(* left asleep at the gate once the prompt is closed, as long as the calls  *)
(* that set the gate start in the order they were sent.                     *)
PromptClosedResumes ==
    []~overtaken => \A d \in Downloads :
        (stage[d] = "asleep" /\ current = d /\ ~confirm) ~> (stage[d] # "asleep" \/ confirm)

(* Nobody sleeps at the pause gate for nothing: a cancelled download and one  *)
(* the user kept both go on.                                                  *)
GateLetsGo == CancelledEnds /\ PromptClosedResumes

=============================================================================
