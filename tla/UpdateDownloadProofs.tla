------------------------ MODULE UpdateDownloadProofs ------------------------
(***************************************************************************)
(* The assisted download of an update, for any number of downloads, chunks *)
(* and cancel prompts: no download runs on unseen, and only whole verified *)
(* files are left behind, but for what could not be removed.               *)
(***************************************************************************)
EXTENDS UpdateDownload, SequenceTheorems, TLAPS

CallType ==
    [op : {"download", "cancel", "pause"}, of : Downloads \cup {NoOne}, on : BOOLEAN]

(* The calls on their way: a download that has not started is "sent", by one *)
(* call, and cancellations name a download.                                  *)
CallsInv ==
    /\ \A i \in 1..Len(calls) : calls[i].op \in {"download", "cancel"} => calls[i].of \in Downloads
    /\ \A i \in 1..Len(calls) : calls[i].op = "download" => stage[calls[i].of] = "sent"
    /\ \A i, j \in 1..Len(calls) :
         calls[i].op = "download" /\ calls[j].op = "download" /\ calls[i].of = calls[j].of => i = j

(* The dialog: it says "downloading" exactly while it awaits a promise, and  *)
(* the failed checks only reach the limit where Retry is taken away.         *)
DialogInv ==
    /\ kind = "downloading" <=> current # NoOne
    /\ current # NoOne => shown = current
    /\ fails = Escalate => kind = "verify-failed"

(* What a download has done by the time it gets to each stage. *)
StagesInv ==
    \A d \in Downloads :
        /\ stage[d] \in {"verify", "save", "copy"} => count[d] = Chunks
        /\ stage[d] \in {"save", "copy"} => intact[d]
        /\ d \in saved <=> stage[d] = "saved"

(* The inductive invariant. *)
IInv == TypeOK /\ CallsInv /\ DialogInv /\ StagesInv /\ NoOrphanDownload /\ OnlyVerifiedFiles

-----------------------------------------------------------------------------
(* What is left of a sequence without its i-th element. *)
LEMMA RemoveAtElements ==
    ASSUME NEW T, NEW s \in Seq(T), NEW i \in 1..Len(s)
    PROVE  /\ RemoveAt(s, i) \in Seq(T)
           /\ Len(RemoveAt(s, i)) = Len(s) - 1
           /\ \A j \in 1..(Len(s) - 1) : RemoveAt(s, i)[j] = IF j < i THEN s[j] ELSE s[j + 1]
<1>1. Len(s) \in Nat /\ i \in Nat /\ 1 <= i /\ i <= Len(s)
  OBVIOUS
<1> DEFINE a == SubSeq(s, 1, i - 1)
           b == SubSeq(s, i + 1, Len(s))
<1>2. a \in Seq(T) /\ Len(a) = i - 1 /\ \A j \in 1..(i - 1) : a[j] = s[j]
  BY <1>1
<1>3. b \in Seq(T) /\ Len(b) = Len(s) - i /\ \A j \in 1..(Len(s) - i) : b[j] = s[i + j]
  BY <1>1
<1>4. RemoveAt(s, i) = a \o b
  BY DEF RemoveAt
<1> HIDE DEF a, b
<1>5. a \o b \in Seq(T) /\ Len(a \o b) = Len(s) - 1
  <2>1. a \o b \in Seq(T) /\ Len(a \o b) = Len(a) + Len(b)
    BY <1>2, <1>3, ConcatProperties
  <2> QED
    BY <1>1, <1>2, <1>3, <2>1
<1>6. ASSUME NEW j \in 1..(Len(s) - 1)
      PROVE  (a \o b)[j] = IF j < i THEN s[j] ELSE s[j + 1]
  <2>1. CASE j < i
    BY <1>1, <1>2, <1>3, <2>1
  <2>2. CASE ~(j < i)
    <3>1. j - Len(a) \in 1..(Len(s) - i) /\ i + (j - Len(a)) = j + 1
      BY <1>1, <1>2, <2>2
    <3>2. (a \o b)[j] = b[j - Len(a)]
      BY <1>1, <1>2, <1>3, <2>2
    <3> QED
      BY <1>3, <2>2, <3>1, <3>2
  <2> QED
    BY <2>1, <2>2
<1> QED
  BY <1>4, <1>5, <1>6

(* Every other call is still there, and nothing else. *)
LEMMA RestOfCalls ==
    ASSUME TypeOK, NEW i \in 1..Len(calls), calls' = RemoveAt(calls, i)
    PROVE  /\ calls' \in Seq(CallType)
           /\ \A j \in 1..Len(calls') : \E k \in 1..Len(calls) :
                 k # i /\ calls'[j] = calls[k] /\ k = IF j < i THEN j ELSE j + 1
           /\ \A k \in 1..Len(calls) : k # i => \E j \in 1..Len(calls') : calls'[j] = calls[k]
<1>1. calls \in Seq(CallType) /\ Len(calls) \in Nat
  BY DEF TypeOK, CallType
<1>2. /\ calls' \in Seq(CallType) /\ Len(calls') = Len(calls) - 1
      /\ \A j \in 1..(Len(calls) - 1) : calls'[j] = IF j < i THEN calls[j] ELSE calls[j + 1]
  BY <1>1, RemoveAtElements
<1>3. ASSUME NEW j \in 1..Len(calls')
      PROVE  \E k \in 1..Len(calls) : k # i /\ calls'[j] = calls[k] /\ k = IF j < i THEN j ELSE j + 1
  <2>1. (IF j < i THEN j ELSE j + 1) \in 1..Len(calls)
    BY <1>1, <1>2
  <2> QED
    BY <1>1, <1>2, <2>1
<1>4. ASSUME NEW k \in 1..Len(calls), k # i
      PROVE  \E j \in 1..Len(calls') : calls'[j] = calls[k]
  <2>1. CASE k < i
    <3>1. k \in 1..Len(calls')
      BY <1>1, <1>2, <2>1
    <3> QED
      BY <1>2, <2>1, <3>1
  <2>2. CASE k > i
    <3>1. k - 1 \in 1..Len(calls') /\ ~(k - 1 < i) /\ (k - 1) + 1 = k
      BY <1>1, <1>2, <2>2
    <3> QED
      BY <1>2, <3>1
  <2> QED
    BY <1>4, <2>1, <2>2
<1> QED
  BY <1>2, <1>3, <1>4

-----------------------------------------------------------------------------
(* The app starts with an update found and nothing under way. *)
LEMMA InitIInv == Init => IInv
<1> SUFFICES ASSUME Init PROVE IInv
  OBVIOUS
<1> USE ConstantsAssumption DEF Init
<1>1. TypeOK
  <2>1. fails \in 0..Escalate /\ prompts \in 0..MaxPrompts /\ 0 \in 0..Chunks
    OBVIOUS
  <2>2. calls \in Seq(CallType)
    OBVIOUS
  <2>3. stage \in [Downloads -> Stages] /\ count \in [Downloads -> 0..Chunks]
    BY <2>1 DEF Stages
  <2> QED
    BY <2>1, <2>2, <2>3 DEF TypeOK, CallType
<1>2. CallsInv /\ DialogInv
  BY DEF CallsInv, DialogInv, NoOne
<1>3. StagesInv /\ NoOrphanDownload /\ OnlyVerifiedFiles
  BY DEF StagesInv, NoOrphanDownload, OnlyVerifiedFiles, SavedIsVerified, LeftoversExplained, Running
<1> QED
  BY <1>1, <1>2, <1>3 DEF IInv

(* A step that leaves the calls, the goroutines and what is awaited alone. *)
LEMMA SettledSteps ==
    ASSUME IInv, OpenFromBadge \/ CheckAgain \/ Close \/ Skip
    PROVE  IInv'
<1> USE ConstantsAssumption
<1>1. UNCHANGED <<calls, goroutines, gate, current, prompts, confirm>>
  BY DEF OpenFromBadge, CheckAgain, Close, Skip
<1>2. /\ open' \in BOOLEAN /\ ready' \in BOOLEAN
      /\ \/ UNCHANGED <<kind, fails, shown>>
         \/ current = NoOne /\ kind' = "idle" /\ fails' = 0 /\ shown' = NoOne
  <2>1. CASE OpenFromBadge \/ Skip
    BY <2>1 DEF OpenFromBadge, Skip, IInv, TypeOK
  <2>2. CASE CheckAgain
    BY <2>2 DEF CheckAgain, IInv, TypeOK
  <2>3. CASE Close
    BY <2>3 DEF Close, IInv, TypeOK
  <2> QED
    BY <2>1, <2>2, <2>3
<1>3. TypeOK'
  BY <1>1, <1>2 DEF IInv, TypeOK, goroutines, files, gate
<1>4. CallsInv' /\ StagesInv'
  BY <1>1 DEF IInv, CallsInv, StagesInv, goroutines, files
<1>5. DialogInv'
  BY <1>1, <1>2 DEF IInv, DialogInv
<1>6. NoOrphanDownload' /\ LeftoversExplained'
  BY <1>1 DEF IInv, NoOrphanDownload, OnlyVerifiedFiles, LeftoversExplained, CancelSent, Running, goroutines, files
<1>7. SavedIsVerified'
  BY <1>1, <1>2 DEF IInv, OnlyVerifiedFiles, SavedIsVerified, goroutines, files
<1> QED
  BY <1>3, <1>4, <1>5, <1>6, <1>7 DEF IInv, OnlyVerifiedFiles

(* A call that is sent comes after the others. *)
LEMMA CallSent ==
    ASSUME TypeOK, NEW c \in CallType, calls' = Append(calls, c)
    PROVE  /\ calls' \in Seq(CallType)
           /\ \A i \in 1..Len(calls') :
                (i \in 1..Len(calls) /\ calls'[i] = calls[i]) \/ (i = Len(calls) + 1 /\ calls'[i] = c)
           /\ \A i \in 1..Len(calls) : i \in 1..Len(calls') /\ calls'[i] = calls[i]
           /\ Len(calls) + 1 \in 1..Len(calls') /\ calls'[Len(calls) + 1] = c
<1>1. calls \in Seq(CallType) /\ Len(calls) \in Nat
  BY DEF TypeOK, CallType
<1>2. /\ calls' \in Seq(CallType) /\ Len(calls') = Len(calls) + 1
      /\ \A i \in 1..Len(calls) : calls'[i] = calls[i]
      /\ calls'[Len(calls) + 1] = c
  BY <1>1, AppendProperties
<1> QED
  BY <1>1, <1>2

(* Download and Retry: one download more, awaited. *)
LEMMA RunDownloadStep ==
    ASSUME IInv, NEW d \in Downloads, RunDownload(d)
    PROVE  IInv'
<1> USE ConstantsAssumption
<1> DEFINE c == Call("download", d, FALSE)
<1>1. /\ current = NoOne /\ stage[d] = "idle" /\ d # NoOne
      /\ current' = d /\ shown' = d /\ kind' = "downloading"
      /\ stage' = [stage EXCEPT ![d] = "sent"] /\ calls' = Append(calls, c)
      /\ UNCHANGED <<open, ready, confirm, fails, prompts>>
      /\ UNCHANGED <<count, intact, ctxDone, hook, files, gate>>
  BY DEF RunDownload, Unused, Downloads, NoOne
<1>2. fails # Escalate
  BY DEF RunDownload, Offered, IInv, DialogInv
<1>3. c \in CallType
  BY DEF Call, CallType
<1>4. c.op = "download" /\ c.of = d
  BY DEF Call
<1> HIDE DEF c
<1>5. /\ calls' \in Seq(CallType)
      /\ \A i \in 1..Len(calls') :
           (i \in 1..Len(calls) /\ calls'[i] = calls[i]) \/ (i = Len(calls) + 1 /\ calls'[i] = c)
      /\ \A i \in 1..Len(calls) : i \in 1..Len(calls') /\ calls'[i] = calls[i]
  BY <1>1, <1>3, CallSent DEF IInv
<1>6. stage' \in [Downloads -> Stages] /\ \A e \in Downloads : stage'[e] = IF e = d THEN "sent" ELSE stage[e]
  BY <1>1 DEF IInv, TypeOK, Stages
<1>7. TypeOK'
  BY <1>1, <1>5, <1>6 DEF IInv, TypeOK, CallType, files, gate
<1>8. CallsInv'
  <2>1. \A i \in 1..Len(calls) : calls[i].op = "download" => calls[i].of \in Downloads /\ calls[i].of # d
    BY <1>1 DEF IInv, CallsInv
  <2> QED
    BY <1>4, <1>5, <1>6, <2>1 DEF IInv, CallsInv
<1>9. DialogInv'
  BY <1>1, <1>2 DEF IInv, DialogInv
<1>10. StagesInv'
  BY <1>1, <1>6 DEF IInv, StagesInv, files
<1>11. NoOrphanDownload'
  <2>1. ASSUME NEW e \in Downloads, Running(e)', e # d PROVE CancelSent(e)' \/ ctxDone'[e]
    <3>1. Running(e)
      BY <1>6, <2>1 DEF Running
    <3>2. CancelSent(e) \/ ctxDone[e]
      BY <1>1, <3>1 DEF IInv, NoOrphanDownload, NoOne, Downloads
    <3> QED
      BY <1>1, <1>5, <3>2 DEF CancelSent
  <2> QED
    BY <1>1, <2>1 DEF NoOrphanDownload
<1>12. OnlyVerifiedFiles'
  BY <1>1, <1>6 DEF IInv, OnlyVerifiedFiles, SavedIsVerified, LeftoversExplained, Running, Outcomes, files
<1> QED
  BY <1>7, <1>8, <1>9, <1>10, <1>11, <1>12 DEF IInv

(* The cancel prompt: it opens, the download goes on, or is cancelled and no *)
(* longer awaited.                                                           *)
LEMMA PromptSteps ==
    ASSUME IInv, RequestCancel \/ KeepDownloading \/ ConfirmCancel
    PROVE  IInv'
<1> USE ConstantsAssumption
<1>1. /\ UNCHANGED <<goroutines, gate>> /\ UNCHANGED <<open, ready, fails>>
      /\ confirm' \in BOOLEAN /\ prompts' \in 0..MaxPrompts
  <2>1. CASE RequestCancel
    BY <2>1 DEF RequestCancel, IInv, TypeOK
  <2>2. CASE KeepDownloading \/ ConfirmCancel
    BY <2>2 DEF KeepDownloading, ConfirmCancel, IInv, TypeOK
  <2> QED
    BY <2>1, <2>2
<1>2. \/ UNCHANGED <<kind, current, shown>>
      \/ kind' = "idle" /\ current' = NoOne /\ shown' = NoOne
  BY DEF RequestCancel, KeepDownloading, ConfirmCancel
<1>3. \/ UNCHANGED <<kind, current, shown, calls>>
      \/ \E c \in CallType : calls' = Append(calls, c) /\ c.op = "pause" /\ UNCHANGED <<kind, current, shown>>
      \/ \E c \in CallType : calls' = Append(calls, c) /\ c.op = "cancel" /\ c.of = current /\ current # NoOne
  <2>1. Call("pause", NoOne, TRUE) \in CallType /\ Call("pause", NoOne, FALSE) \in CallType
        /\ Call("cancel", current, FALSE) \in CallType
    BY DEF IInv, TypeOK, Call, CallType
  <2>2. Call("pause", NoOne, TRUE).op = "pause" /\ Call("pause", NoOne, FALSE).op = "pause"
        /\ Call("cancel", current, FALSE).op = "cancel" /\ Call("cancel", current, FALSE).of = current
    BY DEF Call
  <2>3. CASE RequestCancel
    BY <2>1, <2>2, <2>3 DEF RequestCancel
  <2>4. CASE KeepDownloading
    BY <2>1, <2>2, <2>4 DEF KeepDownloading
  <2>5. CASE ConfirmCancel
    BY <2>1, <2>2, <2>5 DEF ConfirmCancel
  <2> QED
    BY <2>3, <2>4, <2>5
<1>4. /\ calls' \in Seq(CallType)
      /\ \A i \in 1..Len(calls') :
           \/ i \in 1..Len(calls) /\ calls'[i] = calls[i]
           \/ calls'[i].op = "pause"
           \/ calls'[i].op = "cancel" /\ calls'[i].of \in Downloads
      /\ \A i \in 1..Len(calls) : i \in 1..Len(calls') /\ calls'[i] = calls[i]
      /\ current' # current => \E i \in 1..Len(calls') : calls'[i].op = "cancel" /\ calls'[i].of = current
  <2>1. current \in Downloads \cup {NoOne} /\ calls \in Seq(CallType) /\ TypeOK
    BY DEF IInv, TypeOK, CallType
  <2>2. CASE UNCHANGED <<kind, current, shown, calls>>
    BY <2>1, <2>2
  <2>3. ASSUME NEW c \in CallType, calls' = Append(calls, c), c.op = "pause", UNCHANGED current
        PROVE  <1>4!:
    BY <2>1, <2>3, CallSent
  <2>4. ASSUME NEW c \in CallType, calls' = Append(calls, c), c.op = "cancel", c.of = current, current # NoOne
        PROVE  <1>4!:
    BY <2>1, <2>4, CallSent
  <2> QED
    BY <1>3, <2>2, <2>3, <2>4
<1>5. TypeOK'
  BY <1>1, <1>2, <1>4 DEF IInv, TypeOK, CallType, goroutines, files, gate
<1>6. CallsInv'
  BY <1>1, <1>4 DEF IInv, CallsInv, goroutines
<1>7. DialogInv' /\ StagesInv'
  <2>1. fails # Escalate \/ UNCHANGED kind
    BY DEF RequestCancel, KeepDownloading, ConfirmCancel, IInv, DialogInv
  <2> QED
    BY <1>1, <1>2, <2>1 DEF IInv, DialogInv, StagesInv, goroutines, files
<1>8. NoOrphanDownload'
  <2>1. ASSUME NEW e \in Downloads, Running(e) PROVE e = current' \/ CancelSent(e)' \/ ctxDone'[e]
    <3>1. e = current \/ CancelSent(e) \/ ctxDone[e]
      BY <2>1 DEF IInv, NoOrphanDownload
    <3> QED
      BY <1>1, <1>4, <3>1 DEF CancelSent, goroutines
  <2> QED
    BY <1>1, <2>1 DEF NoOrphanDownload, Running, goroutines
<1>9. OnlyVerifiedFiles'
  BY <1>1, <1>2 DEF IInv, OnlyVerifiedFiles, SavedIsVerified, LeftoversExplained, Running, goroutines, files
<1> QED
  BY <1>5, <1>6, <1>7, <1>8, <1>9 DEF IInv

(* The promise settles: the outcome shown is the awaited download's. *)
LEMMA SettlesStep ==
    ASSUME IInv, Settles
    PROVE  IInv'
<1> USE ConstantsAssumption
<1> DEFINE outcome == stage[current]
<1>1. /\ current \in Downloads /\ outcome \in Outcomes /\ shown = current
      /\ kind = "downloading" /\ fails \in 0..Escalate /\ fails # Escalate
      /\ current' = NoOne /\ kind' = KindOf(outcome)
      /\ UNCHANGED <<open, ready, confirm, shown, prompts>>
      /\ UNCHANGED <<calls, goroutines, gate>>
  BY DEF Settles, IInv, DialogInv, TypeOK
<1>2. /\ fails' \in 0..Escalate
      /\ fails' = Escalate => kind' = "verify-failed"
  <2>1. fails' = IF outcome = "saved" THEN 0 ELSE IF outcome = "mismatch" THEN fails + 1 ELSE fails
    BY DEF Settles
  <2> QED
    BY <1>1, <2>1 DEF KindOf
<1>3. /\ kind' \in {"success", "verify-failed", "error"}
      /\ kind' = "success" => outcome = "saved"
  BY <1>1 DEF KindOf
<1>4. TypeOK'
  BY <1>1, <1>2, <1>3 DEF IInv, TypeOK, goroutines, files, gate
<1>5. CallsInv' /\ StagesInv'
  BY <1>1 DEF IInv, CallsInv, StagesInv, goroutines, files
<1>6. DialogInv'
  BY <1>1, <1>2, <1>3 DEF DialogInv
<1>7. NoOrphanDownload' /\ LeftoversExplained'
  BY <1>1 DEF IInv, NoOrphanDownload, OnlyVerifiedFiles, LeftoversExplained, CancelSent, Running, goroutines, files
<1>8. SavedIsVerified'
  BY <1>1, <1>3 DEF IInv, OnlyVerifiedFiles, SavedIsVerified, StagesInv, LeftoversExplained, goroutines, files
<1> QED
  BY <1>4, <1>5, <1>6, <1>7, <1>8 DEF IInv, OnlyVerifiedFiles

-----------------------------------------------------------------------------
(* A broadcast wakes the sleepers and moves nobody else. *)
LEMMA BroadcastWakes ==
    ASSUME NEW s \in [Downloads -> Stages]
    PROVE  /\ Broadcast(s) \in [Downloads -> Stages]
           /\ \A d \in Downloads :
                Broadcast(s)[d] = s[d] \/ (s[d] = "asleep" /\ Broadcast(s)[d] = "woken")
  BY DEF Broadcast, Stages

(* Sleepers that wake, on top of a step that starts at most one download. *)
LEMMA WakingKeepsStages ==
    ASSUME IInv, UNCHANGED <<dialog, count, intact, files>>,
           stage' \in [Downloads -> Stages],
           \A d \in Downloads :
             \/ stage'[d] = stage[d]
             \/ stage[d] = "asleep" /\ stage'[d] = "woken"
             \/ stage[d] = "sent" /\ stage'[d] = "request"
    PROVE  /\ DialogInv' /\ StagesInv' /\ OnlyVerifiedFiles'
           /\ \A d \in Downloads : Running(d)' <=> Running(d)
<1>1. \A d \in Downloads : Running(d)' <=> Running(d)
  BY DEF Running, Outcomes
<1>2. DialogInv'
  BY DEF IInv, DialogInv, dialog
<1>3. StagesInv'
  BY DEF IInv, StagesInv, files
<1>4. SavedIsVerified'
  BY DEF IInv, TypeOK, OnlyVerifiedFiles, SavedIsVerified, dialog, files
<1>5. LeftoversExplained'
  BY <1>1 DEF IInv, TypeOK, OnlyVerifiedFiles, LeftoversExplained, files
<1> QED
  BY <1>1, <1>2, <1>3, <1>4, <1>5 DEF OnlyVerifiedFiles

(* A call starts: the gate is set, a download begins, or its context is      *)
(* cancelled.                                                                *)
LEMMA StartSteps ==
    ASSUME IInv, NEW i \in 1..Len(calls), Start(i)
    PROVE  IInv'
<1> USE ConstantsAssumption
<1> DEFINE f == calls[i].of
<1>1. /\ calls' = RemoveAt(calls, i) /\ UNCHANGED <<dialog, count, intact, hook, files>>
      /\ TypeOK
  BY DEF Start, SetDownloadPaused, DownloadUpdate, CancelCall, IInv
<1>2. /\ calls' \in Seq(CallType)
      /\ \A j \in 1..Len(calls') : \E k \in 1..Len(calls) :
            k # i /\ calls'[j] = calls[k] /\ k = IF j < i THEN j ELSE j + 1
      /\ \A k \in 1..Len(calls) : k # i => \E j \in 1..Len(calls') : calls'[j] = calls[k]
  BY <1>1, RestOfCalls
<1>3. calls[i] \in CallType
  <2>1. calls \in Seq(CallType)
    BY <1>1 DEF TypeOK, CallType
  <2> QED
    BY <2>1, ElementOfSeq
<1>4. /\ stage' \in [Downloads -> Stages]
      /\ \A d \in Downloads :
             \/ stage'[d] = stage[d]
             \/ stage[d] = "asleep" /\ stage'[d] = "woken"
             \/ stage[d] = "sent" /\ stage'[d] = "request" /\ calls[i].op = "download" /\ d = f
  <2>1. stage \in [Downloads -> Stages]
    BY <1>1 DEF TypeOK
  <2>2. CASE SetDownloadPaused(i)
    <3>1. stage' = stage \/ stage' = Broadcast(stage)
      BY <2>2 DEF SetDownloadPaused, Set
    <3> QED
      BY <2>1, <3>1, BroadcastWakes
  <2>3. CASE DownloadUpdate(i)
    <3> DEFINE s == [stage EXCEPT ![f] = "request"]
    <3>1. calls[i].op = "download" /\ f \in Downloads /\ stage[f] = "sent" /\ stage' = Broadcast(s)
      BY <2>3 DEF DownloadUpdate, Set, IInv, CallsInv
    <3>2. s \in [Downloads -> Stages] /\ \A d \in Downloads : s[d] = IF d = f THEN "request" ELSE stage[d]
      BY <2>1, <3>1 DEF Stages
    <3> HIDE DEF s
    <3> QED
      BY <3>1, <3>2, BroadcastWakes
  <2>4. CASE CancelCall(i)
    BY <2>1, <2>4 DEF CancelCall
  <2> QED
    BY <2>2, <2>3, <2>4 DEF Start
<1>5. /\ paused' \in BOOLEAN /\ mu' = mu /\ overtaken' \in BOOLEAN
      /\ ctxDone' \in [Downloads -> BOOLEAN]
      /\ \A d \in Downloads : ctxDone[d] => ctxDone'[d]
      /\ calls[i].op = "cancel" => f \in Downloads /\ ctxDone'[f]
  <2>1. CASE SetDownloadPaused(i)
    BY <1>1, <1>3, <2>1 DEF SetDownloadPaused, Set, TypeOK, CallType
  <2>2. CASE DownloadUpdate(i)
    BY <1>1, <2>2 DEF DownloadUpdate, Set, TypeOK
  <2>3. CASE CancelCall(i)
    BY <1>1, <2>3 DEF CancelCall, TypeOK, gate, IInv, CallsInv
  <2> QED
    BY <2>1, <2>2, <2>3 DEF Start
<1>6. TypeOK'
  BY <1>1, <1>2, <1>4, <1>5 DEF TypeOK, CallType, dialog, files
<1>7. CallsInv'
  <2>1. ASSUME NEW j \in 1..Len(calls'), calls'[j].op = "download"
        PROVE  calls'[j].of \in Downloads /\ stage'[calls'[j].of] = "sent"
    <3>1. PICK k \in 1..Len(calls) : k # i /\ calls'[j] = calls[k]
      BY <1>2
    <3>2. calls[k].op = "download" /\ calls[k].of \in Downloads /\ stage[calls[k].of] = "sent"
      BY <2>1, <3>1 DEF IInv, CallsInv
    <3>3. ~(calls[i].op = "download" /\ calls[k].of = f)
      BY <3>1, <3>2 DEF IInv, CallsInv
    <3> QED
      BY <1>4, <3>1, <3>2, <3>3
  <2>2. ASSUME NEW j \in 1..Len(calls'), calls'[j].op = "cancel" PROVE calls'[j].of \in Downloads
    <3>1. PICK k \in 1..Len(calls) : calls'[j] = calls[k]
      BY <1>2
    <3> QED
      BY <2>2, <3>1 DEF IInv, CallsInv
  <2>3. ASSUME NEW j \in 1..Len(calls'), NEW m \in 1..Len(calls'), calls'[j].op = "download",
               calls'[m].op = "download", calls'[j].of = calls'[m].of
        PROVE  j = m
    <3>1. PICK k \in 1..Len(calls) : calls'[j] = calls[k] /\ k = IF j < i THEN j ELSE j + 1
      BY <1>2
    <3>2. PICK l \in 1..Len(calls) : calls'[m] = calls[l] /\ l = IF m < i THEN m ELSE m + 1
      BY <1>2
    <3>3. k = l
      BY <2>3, <3>1, <3>2 DEF IInv, CallsInv
    <3>4. j \in Int /\ m \in Int /\ i \in Int
      OBVIOUS
    <3> QED
      BY <3>1, <3>2, <3>3, <3>4
  <2> QED
    BY <2>1, <2>2, <2>3 DEF CallsInv
<1>8. /\ DialogInv' /\ StagesInv' /\ OnlyVerifiedFiles'
      /\ \A d \in Downloads : Running(d)' <=> Running(d)
  BY <1>1, <1>4, WakingKeepsStages
<1>9. NoOrphanDownload'
  <2>1. ASSUME NEW d \in Downloads, Running(d) PROVE d = current \/ CancelSent(d)' \/ ctxDone'[d]
    <3>1. d = current \/ CancelSent(d) \/ ctxDone[d]
      BY <2>1 DEF IInv, NoOrphanDownload
    <3>2. ASSUME CancelSent(d) PROVE CancelSent(d)' \/ ctxDone'[d]
      <4>1. PICK k \in 1..Len(calls) : calls[k].op = "cancel" /\ calls[k].of = d
        BY <3>2 DEF CancelSent
      <4>2. CASE k = i
        BY <1>5, <4>1, <4>2
      <4>3. CASE k # i
        BY <1>2, <4>1, <4>3 DEF CancelSent
      <4> QED
        BY <4>2, <4>3
    <3> QED
      BY <1>5, <3>1, <3>2
  <2> QED
    BY <1>1, <1>8, <2>1 DEF NoOrphanDownload, dialog
<1> QED
  BY <1>6, <1>7, <1>8, <1>9 DEF IInv

(* A goroutine of a started download moves on by itself.  What it has to     *)
(* show for each stage is what the stage promises.                           *)
LEMMA GoroutineMoves ==
    ASSUME IInv, NEW d \in Downloads, NEW s \in Stages \ {"idle", "sent"},
           Running(d), stage[d] # "sent",
           stage' = [stage EXCEPT ![d] = s],
           UNCHANGED <<dialog, calls, ctxDone, paused, overtaken>>,
           mu' \in Downloads \cup {NoOne},
           hook' \in [Downloads -> BOOLEAN],
           count' \in [Downloads -> 0..Chunks],
           intact' \in [Downloads -> BOOLEAN],
           \A e \in Downloads \ {d} : count'[e] = count[e] /\ intact'[e] = intact[e],
           s \in {"verify", "save", "copy", "saved"} => count'[d] = Chunks,
           s \in {"save", "copy", "saved"} => intact'[d],
           undeleted \subseteq undeleted', undeleted' \subseteq Downloads \X {"temp", "copy"},
           temps' \subseteq temps \cup {d},
           s \in Outcomes /\ d \in temps' => <<d, "temp">> \in undeleted',
           partial' \subseteq partial \cup {d},
           d \in partial' => s \in {"copy", "failed"} /\ count'[d] = Chunks /\ intact'[d],
           d \in partial' /\ s = "failed" => <<d, "copy">> \in undeleted',
           saved' = IF s = "saved" THEN saved \cup {d} ELSE saved
    PROVE  IInv'
<1>1. /\ stage' \in [Downloads -> Stages]
      /\ \A e \in Downloads : stage'[e] = IF e = d THEN s ELSE stage[e]
  BY DEF IInv, TypeOK
<1>2. d \notin saved
  BY DEF IInv, StagesInv, Running, Outcomes
<1>3. TypeOK'
  BY <1>1 DEF IInv, TypeOK, dialog
<1>4. CallsInv'
  BY <1>1 DEF IInv, CallsInv
<1>5. DialogInv'
  BY DEF IInv, DialogInv, dialog
<1>6. StagesInv'
  BY <1>1, <1>2 DEF IInv, StagesInv
<1>7. NoOrphanDownload'
  BY <1>1 DEF IInv, NoOrphanDownload, Running, CancelSent, dialog
<1>8. SavedIsVerified'
  BY <1>2 DEF IInv, TypeOK, OnlyVerifiedFiles, SavedIsVerified, dialog
<1>9. LeftoversExplained'
  <2>1. ASSUME NEW e \in temps' PROVE Running(e)' \/ <<e, "temp">> \in undeleted'
    BY <1>1, <2>1 DEF IInv, TypeOK, OnlyVerifiedFiles, LeftoversExplained, Running
  <2>2. ASSUME NEW e \in partial'
        PROVE  stage'[e] \in {"copy", "failed"} /\ (stage'[e] = "failed" => <<e, "copy">> \in undeleted')
    BY <1>1, <2>2 DEF IInv, TypeOK, OnlyVerifiedFiles, LeftoversExplained
  <2> QED
    BY <2>1, <2>2 DEF LeftoversExplained
<1> QED
  BY <1>3, <1>4, <1>5, <1>6, <1>7, <1>8, <1>9 DEF IInv, OnlyVerifiedFiles

(* It moves on without touching a file, having read what it is past. *)
LEMMA MovesOn ==
    ASSUME IInv, NEW d \in Downloads, NEW s \in Stages \ ({"idle", "sent", "saved", "copy"} \cup Outcomes),
           Running(d), stage[d] \notin {"sent", "copy"},
           stage' = [stage EXCEPT ![d] = s],
           UNCHANGED <<dialog, calls, ctxDone, paused, overtaken, files>>,
           mu' \in Downloads \cup {NoOne},
           hook' \in [Downloads -> BOOLEAN],
           count' \in [Downloads -> 0..Chunks],
           intact' \in [Downloads -> BOOLEAN],
           \A e \in Downloads \ {d} : count'[e] = count[e] /\ intact'[e] = intact[e],
           s \in {"verify", "save"} => count'[d] = Chunks,
           s = "save" => intact'[d]
    PROVE  IInv'
<1>1. d \notin partial
  BY DEF IInv, OnlyVerifiedFiles, LeftoversExplained, Running, Outcomes
<1>2. UNCHANGED <<temps, partial, saved, undeleted>> /\ undeleted \subseteq Downloads \X {"temp", "copy"}
  BY DEF files, IInv, TypeOK
<1> QED
  BY <1>1, <1>2, GoroutineMoves

(* Before anything is copied, a download that fails leaves its temp file     *)
(* only when it cannot be removed.                                           *)
LEMMA FailsSoundly ==
    ASSUME IInv, NEW d \in Downloads, NEW s \in {"failed", "mismatch"}, Fails(d, s),
           Running(d), stage[d] \notin {"sent", "copy"},
           UNCHANGED <<dialog, calls, ctxDone, paused, overtaken, count, intact>>,
           mu' \in Downloads \cup {NoOne},
           hook' \in [Downloads -> BOOLEAN]
    PROVE  IInv'
<1>1. d \notin partial
  BY DEF IInv, OnlyVerifiedFiles, LeftoversExplained, Running, Outcomes
<1>2. /\ count \in [Downloads -> 0..Chunks] /\ intact \in [Downloads -> BOOLEAN]
      /\ undeleted \subseteq Downloads \X {"temp", "copy"}
  BY DEF IInv, TypeOK
<1>3. stage' = [stage EXCEPT ![d] = s] /\ UNCHANGED <<partial, saved>>
  BY DEF Fails, GoesTo
<1>4. \/ temps' = temps \ {d} /\ undeleted' = undeleted
      \/ temps' = temps \cup {d} /\ undeleted' = undeleted \cup {<<d, "temp">>}
  BY DEF Fails, RemoveTemp
<1>5. /\ undeleted \subseteq undeleted' /\ undeleted' \subseteq Downloads \X {"temp", "copy"}
      /\ temps' \subseteq temps \cup {d} /\ (d \in temps' => <<d, "temp">> \in undeleted')
  BY <1>2, <1>4
<1>6. s \in Stages \ {"idle", "sent"} /\ s \notin {"verify", "save", "copy", "saved"}
  BY DEF Stages, Outcomes
<1> QED
  BY <1>1, <1>2, <1>3, <1>5, <1>6, GoroutineMoves

(* The pause gate. *)
LEMMA GateSteps ==
    ASSUME IInv, NEW d \in Downloads, Waits(d)
    PROVE  IInv'
<1> USE ConstantsAssumption
<1>1. /\ count \in [Downloads -> 0..Chunks] /\ intact \in [Downloads -> BOOLEAN]
      /\ hook \in [Downloads -> BOOLEAN] /\ mu \in Downloads \cup {NoOne}
      /\ stage \in [Downloads -> Stages]
  BY DEF IInv, TypeOK
<1>2. CASE AfterFuncRuns(d)
  <2>1. /\ UNCHANGED <<dialog, calls, count, intact, ctxDone, files, gate>>
        /\ hook' \in [Downloads -> BOOLEAN] /\ stage' = Broadcast(stage)
    BY <1>1, <1>2 DEF AfterFuncRuns
  <2>2. /\ stage' \in [Downloads -> Stages]
        /\ \A e \in Downloads :
             stage'[e] = stage[e] \/ (stage[e] = "asleep" /\ stage'[e] = "woken")
    BY <1>1, <2>1, BroadcastWakes
  <2>3. /\ DialogInv' /\ StagesInv' /\ OnlyVerifiedFiles'
        /\ \A e \in Downloads : Running(e)' <=> Running(e)
    BY <2>1, <2>2, WakingKeepsStages
  <2>4. TypeOK'
    BY <2>1, <2>2 DEF IInv, TypeOK, dialog, files, gate
  <2>5. CallsInv'
    BY <2>1, <2>2 DEF IInv, CallsInv
  <2>6. NoOrphanDownload'
    BY <2>1, <2>3 DEF IInv, NoOrphanDownload, CancelSent, dialog
  <2> QED
    BY <2>3, <2>4, <2>5, <2>6 DEF IInv
<1>3. CASE WaitEnters(d) \/ WaitChecks(d) \/ WaitParks(d) \/ WaitWakes(d)
  <2>1. /\ UNCHANGED <<dialog, calls, count, intact, ctxDone, paused, overtaken>>
        /\ Running(d) /\ stage[d] \notin {"sent", "copy"}
    BY <1>3 DEF WaitEnters, WaitChecks, WaitParks, WaitWakes, Running, Outcomes
  <2>2. mu' \in Downloads \cup {NoOne} /\ hook' \in [Downloads -> BOOLEAN]
    BY <1>1, <1>3 DEF WaitEnters, WaitChecks, WaitParks, WaitWakes
  <2>3. \/ Fails(d, "failed")
        \/ \E s \in {"checking", "read", "parking", "asleep"} :
             stage' = [stage EXCEPT ![d] = s] /\ UNCHANGED files
    BY <1>3 DEF WaitEnters, WaitChecks, WaitParks, WaitWakes, GoesTo
  <2>4. CASE Fails(d, "failed")
    BY <2>1, <2>2, <2>4, FailsSoundly
  <2>5. ASSUME NEW s \in {"checking", "read", "parking", "asleep"},
               stage' = [stage EXCEPT ![d] = s], UNCHANGED files
        PROVE  IInv'
    <3>1. s \in Stages \ ({"idle", "sent", "saved", "copy"} \cup Outcomes) /\ s \notin {"verify", "save"}
      BY DEF Stages, Outcomes
    <3> QED
      BY <1>1, <2>1, <2>2, <2>5, <3>1, MovesOn
  <2> QED
    BY <2>3, <2>4, <2>5
<1> QED
  BY <1>2, <1>3 DEF Waits

(* The request, the body and the comparison. *)
LEMMA TransferSteps ==
    ASSUME IInv, NEW d \in Downloads, Network(d)
    PROVE  IInv'
<1> USE ConstantsAssumption
<1>1. /\ count \in [Downloads -> 0..Chunks] /\ intact \in [Downloads -> BOOLEAN]
      /\ hook \in [Downloads -> BOOLEAN] /\ mu \in Downloads \cup {NoOne}
      /\ undeleted \subseteq Downloads \X {"temp", "copy"}
  BY DEF IInv, TypeOK
<1>2. /\ UNCHANGED <<dialog, calls, ctxDone, hook, gate>>
      /\ Running(d) /\ stage[d] \notin {"sent", "copy", "failed", "saved"}
  BY DEF Network, RequestEnds, ReadGets, ReadFails, Verifies, Running, Outcomes
<1>3. UNCHANGED <<paused, overtaken, mu>>
  BY <1>2 DEF gate
<1>4. ASSUME NEW s \in {"failed", "mismatch"}, Fails(d, s), UNCHANGED <<count, intact>>
      PROVE  IInv'
  BY <1>1, <1>2, <1>3, <1>4, FailsSoundly
<1>5. CASE /\ stage' = [stage EXCEPT ![d] = "gate"] /\ temps' = temps \cup {d}
           /\ UNCHANGED <<count, intact, partial, saved, undeleted>>
  <2>1. "gate" \in Stages \ {"idle", "sent"} /\ "gate" \notin Outcomes
    BY DEF Stages, Outcomes
  <2>2. d \notin partial
    BY <1>2 DEF IInv, OnlyVerifiedFiles, LeftoversExplained
  <2> QED
    BY <1>1, <1>2, <1>3, <1>5, <2>1, <2>2, GoroutineMoves
<1>6. CASE ReadGets(d)
  <2>1. CASE count[d] < Chunks /\ stage' = [stage EXCEPT ![d] = "gate"]
    <3>1. /\ count' = [count EXCEPT ![d] = @ + 1] /\ UNCHANGED files
          /\ intact' \in {intact, [intact EXCEPT ![d] = FALSE]}
      BY <1>1, <1>6, <2>1 DEF ReadGets, GoesTo
    <3>2. /\ count' \in [Downloads -> 0..Chunks] /\ intact' \in [Downloads -> BOOLEAN]
          /\ \A e \in Downloads \ {d} : count'[e] = count[e] /\ intact'[e] = intact[e]
      <4>1. count[d] + 1 \in 0..Chunks
        BY <1>1, <2>1
      <4>2. count' \in [Downloads -> 0..Chunks] /\ \A e \in Downloads \ {d} : count'[e] = count[e]
        BY <1>1, <3>1, <4>1
      <4>3. intact' \in [Downloads -> BOOLEAN] /\ \A e \in Downloads \ {d} : intact'[e] = intact[e]
        BY <1>1, <3>1
      <4> QED
        BY <4>2, <4>3
    <3>3. "gate" \in Stages \ ({"idle", "sent", "saved", "copy"} \cup Outcomes)
      BY DEF Stages, Outcomes
    <3> QED
      BY <1>1, <1>2, <1>3, <2>1, <3>1, <3>2, <3>3, MovesOn
  <2>2. CASE count[d] = Chunks /\ stage' = [stage EXCEPT ![d] = "verify"] /\ UNCHANGED <<count, intact>>
    <3>1. UNCHANGED files
      BY <1>6 DEF ReadGets
    <3>2. "verify" \in Stages \ ({"idle", "sent", "saved", "copy"} \cup Outcomes)
      BY DEF Stages, Outcomes
    <3> QED
      BY <1>1, <1>2, <1>3, <2>2, <3>1, <3>2, MovesOn
  <2> QED
    BY <1>6, <2>1, <2>2 DEF ReadGets, GoesTo
<1>7. CASE /\ stage[d] = "verify" /\ intact[d] /\ stage' = [stage EXCEPT ![d] = "save"]
           /\ UNCHANGED <<count, intact, files>>
  <2>1. count[d] = Chunks
    BY <1>7 DEF IInv, StagesInv
  <2>2. "save" \in Stages \ ({"idle", "sent", "saved", "copy"} \cup Outcomes)
    BY DEF Stages, Outcomes
  <2> QED
    BY <1>1, <1>2, <1>3, <1>7, <2>1, <2>2, MovesOn
<1>8. CASE RequestEnds(d)
  BY <1>4, <1>5, <1>8 DEF RequestEnds, GoesTo
<1>9. CASE ReadFails(d)
  BY <1>4, <1>9 DEF ReadFails
<1>10. CASE Verifies(d)
  BY <1>4, <1>7, <1>10 DEF Verifies, GoesTo
<1> QED
  BY <1>6, <1>8, <1>9, <1>10 DEF Network

(* The move into the Downloads folder: the rename, or the copy and its end. *)
LEMMA SaveSteps ==
    ASSUME IInv, NEW d \in Downloads, Saves(d) \/ CopyEnds(d)
    PROVE  IInv'
<1> USE ConstantsAssumption
<1>1. /\ count \in [Downloads -> 0..Chunks] /\ intact \in [Downloads -> BOOLEAN]
      /\ hook \in [Downloads -> BOOLEAN] /\ mu \in Downloads \cup {NoOne}
      /\ undeleted \subseteq Downloads \X {"temp", "copy"}
  BY DEF IInv, TypeOK
<1>2. /\ UNCHANGED <<dialog, calls, count, intact, ctxDone, hook, gate>>
      /\ Running(d) /\ stage[d] # "sent"
      /\ count[d] = Chunks /\ intact[d]
  BY DEF Saves, CopyEnds, Running, Outcomes, IInv, StagesInv
<1>3. UNCHANGED <<paused, overtaken, mu>>
  BY <1>2 DEF gate
<1>4. /\ {"saved", "copy", "failed"} \subseteq Stages \ {"idle", "sent"}
      /\ "copy" \notin Outcomes
  BY DEF Stages, Outcomes
<1>5. CASE Saves(d)
  <2>1. stage[d] = "save" /\ d \notin partial
    BY <1>5 DEF Saves, IInv, OnlyVerifiedFiles, LeftoversExplained
  <2>2. CASE /\ stage' = [stage EXCEPT ![d] = "saved"]
             /\ temps' = temps \ {d} /\ saved' = saved \cup {d} /\ UNCHANGED <<partial, undeleted>>
    BY <1>1, <1>2, <1>3, <1>4, <2>1, <2>2, GoroutineMoves
  <2>3. CASE /\ stage' = [stage EXCEPT ![d] = "copy"]
             /\ partial' = partial \cup {d} /\ UNCHANGED <<temps, saved, undeleted>>
    BY <1>1, <1>2, <1>3, <1>4, <2>1, <2>3, GoroutineMoves
  <2>4. CASE Fails(d, "failed")
    BY <1>1, <1>2, <1>3, <2>1, <2>4, FailsSoundly
  <2> QED
    BY <1>5, <2>2, <2>3, <2>4 DEF Saves, MoveFile, GoesTo
<1>6. CASE CopyEnds(d)
  <2>1. CASE /\ stage' = [stage EXCEPT ![d] = "saved"] /\ RemoveTemp(d)
             /\ partial' = partial \ {d} /\ saved' = saved \cup {d}
    <3>1. \/ temps' = temps \ {d} /\ undeleted' = undeleted
          \/ temps' = temps \cup {d} /\ undeleted' = undeleted \cup {<<d, "temp">>}
      BY <2>1 DEF RemoveTemp
    <3>2. /\ undeleted \subseteq undeleted' /\ undeleted' \subseteq Downloads \X {"temp", "copy"}
          /\ temps' \subseteq temps \cup {d} /\ (d \in temps' => <<d, "temp">> \in undeleted')
      BY <1>1, <3>1
    <3>3. partial' \subseteq partial \cup {d} /\ d \notin partial'
      BY <2>1
    <3> QED
      BY <1>1, <1>2, <1>3, <1>4, <2>1, <3>2, <3>3, GoroutineMoves
  <2>2. ASSUME stage' = [stage EXCEPT ![d] = "failed"], UNCHANGED saved, NEW kept \in SUBSET {"temp", "copy"},
               temps' = IF "temp" \in kept THEN temps ELSE temps \ {d},
               partial' = IF "copy" \in kept THEN partial ELSE partial \ {d},
               undeleted' = undeleted \cup {d} \X kept
        PROVE  IInv'
    <3>1. undeleted \subseteq undeleted' /\ undeleted' \subseteq Downloads \X {"temp", "copy"}
      BY <1>1, <2>2
    <3>2. temps' \subseteq temps \cup {d} /\ (d \in temps' => <<d, "temp">> \in undeleted')
      BY <2>2
    <3>3. partial' \subseteq partial \cup {d} /\ (d \in partial' => <<d, "copy">> \in undeleted')
      BY <2>2
    <3> QED
      BY <1>1, <1>2, <1>3, <1>4, <2>2, <3>1, <3>2, <3>3, GoroutineMoves
  <2> QED
    BY <1>6, <2>1, <2>2 DEF CopyEnds, GoesTo
<1> QED
  BY <1>5, <1>6

(* Every step of the dialog, the binding calls and the goroutines keeps IInv. *)
LEMMA NextIInv == IInv /\ [Next]_vars => IInv'
<1> SUFFICES ASSUME IInv, [Next]_vars PROVE IInv'
  OBVIOUS
<1>1. CASE Next
  BY <1>1, SettledSteps, PromptSteps, SettlesStep, StartSteps, RunDownloadStep, GateSteps,
     TransferSteps, SaveSteps DEF Next
<1>2. CASE UNCHANGED vars
  <2>1. UNCHANGED <<dialog, calls, goroutines, gate>>
    BY <1>2 DEF vars
  <2> QED
    BY <2>1 DEF dialog, goroutines, files, gate, IInv, TypeOK, CallsInv, DialogInv, StagesInv,
                NoOrphanDownload, OnlyVerifiedFiles, SavedIsVerified, LeftoversExplained, Running, CancelSent
<1> QED
  BY <1>1, <1>2

(* In whatever order the calls of the dialog start: every download that runs *)
(* in Go is the awaited one or cancelled, a file in the Downloads folder is  *)
(* whole and matched its checksum, success is shown for such a file only,    *)
(* and an ended download leaves a temp file, or a copy that may be cut short, *)
(* only where removing it failed.                                            *)
THEOREM DownloadsAreSound == Spec => []DownloadSound
<1>1. IInv => DownloadSound
  BY DEF IInv, DownloadSound
<1> QED
  BY <1>1, InitIInv, NextIInv, PTL DEF Spec
=============================================================================
