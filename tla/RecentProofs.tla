---------------------------- MODULE RecentProofs ----------------------------
(***************************************************************************)
(* Proofs that the safety invariants of RecentFlush hold for any number of *)
(* opens, timer goroutines, SaveNow callers and changes to the list, and   *)
(* that the list of RecentList keeps its promises for any paths, disk,     *)
(* stored list and calls at once.                                          *)
(***************************************************************************)
EXTENDS RecentFlush, RecentList, SequenceTheorems, FiniteSetTheorems, WellFoundedInduction, TLAPS

(* The saving flag stands for the one thread inside f.save. *)
SavingInv ==
    /\ \A t \in Threads : InSave(t) => saving
    /\ \A s, t \in Threads : InSave(s) /\ InSave(t) => s = t
    /\ closer \in {"copy", "write", "done"} => ~saving
    /\ saving => \E t \in Threads : InSave(t)
    /\ started = finished + (IF saving THEN 1 ELSE 0)

(* Close owns the UI thread while it runs; a rebuild that passed its isClosed
   check owns it too, so the two exclude each other. *)
MainInv ==
    /\ closed <=> closer # "open"
    /\ closer \in {"waiting", "asleep", "copy", "write"} => main = "close"
    /\ \A t \in Threads : pc[t] = "rebuild" => main = t /\ ~closed

(* What has been copied or written is a version the list has had, and what a
   save is about to write is no older than what was last written. *)
VersionInv ==
    /\ tried <= list /\ recorded <= list
    /\ \A c \in Callers : mine[c] <= list
    /\ \A t \in Threads : pc[t] = "write" => tried <= copy[t] /\ copy[t] <= list
    /\ closer = "write" => tried <= copy["close"] /\ copy["close"] <= list

(* A save that will write version v, or has written it. *)
Covered(v) ==
    \/ tried >= v
    \/ \E t \in Threads : pc[t] = "copy" \/ (pc[t] = "write" /\ copy[t] >= v)

CoveredByClose(v) == closer = "copy" \/ (closer = "write" /\ copy["close"] >= v)

(* A reported change waits for a save (dirty) or one covers it; Close, which
   no longer listens, covers what was reported before it. *)
ReportInv ==
    /\ dirty \/ Covered(recorded) \/ CoveredByClose(recorded)
    /\ closer = "write" => copy["close"] >= recorded
    /\ closer = "done" => tried >= recorded

(* A SaveNow call still waits for its save to start, or the save it counts on
   covers its change, and has written it when it counts as finished. *)
CallerInv ==
    \A c \in Callers : pc[c] \notin {"idle", "changed"} =>
        /\ want[c] <= started + 1
        /\ started < want[c] => dirty \/ closed
        /\ started >= want[c] => Covered(mine[c])
        /\ finished >= want[c] => tried >= mine[c]
        /\ pc[c] = "returned" => finished >= want[c] \/ closed

(* The inductive invariant: what RecentFlush promises and what that rests on. *)
IInv ==
    /\ TypeOK
    /\ SavingInv
    /\ MainInv
    /\ VersionInv
    /\ ReportInv
    /\ CallerInv
    /\ NoStrandedChange

(* The new flusher (newRecentFlusher) satisfies the inductive invariant. *)
LEMMA InitIInv == Init => IInv
<1> SUFFICES ASSUME Init PROVE IInv
  OBVIOUS
<1>1. TypeOK
  BY DEF Init, TypeOK, CallerPC, FlusherPC, CloserPC, Threads
<1>2. \A t \in Threads : pc[t] = "idle"
  BY DEF Init
<1>3. SavingInv /\ MainInv /\ NoStrandedChange
  BY <1>1, <1>2 DEF Init, SavingInv, MainInv, NoStrandedChange, InSave, TypeOK
<1>4. VersionInv /\ ReportInv
  BY <1>1, <1>2 DEF Init, VersionInv, ReportInv, Covered, TypeOK
<1>5. CallerInv
  BY <1>2 DEF CallerInv, Threads
<1> QED
  BY <1>1, <1>3, <1>4, <1>5 DEF IInv

(* An open that starts (OpenStarted) only adds a hold. *)
LEMMA OpenStartedStep ==
  ASSUME IInv, NEW o \in Openers, OpenStarted(o)
  PROVE  IInv'
<1>1. TypeOK'
  BY ThreadAssumption DEF IInv, TypeOK, CallerPC, FlusherPC, CloserPC, OpenStarted, flagVars,
         Threads
<1>2. SavingInv'
  BY DEF IInv, TypeOK, SavingInv, MainInv, InSave, OpenStarted, flagVars, Threads
<1>3. MainInv'
  BY NamesAssumption DEF IInv, TypeOK, MainInv, OpenStarted, flagVars, Threads
<1>4. VersionInv'
  BY DEF IInv, TypeOK, VersionInv, SavingInv, InSave, OpenStarted, flagVars,
         Threads
<1>5. ReportInv'
  BY DEF IInv, TypeOK, ReportInv, VersionInv, SavingInv, MainInv, InSave,
         Covered, CoveredByClose, Reported, OpenStarted, flagVars, Threads
<1>6. CallerInv'
  BY ThreadAssumption DEF IInv, TypeOK, CallerInv, VersionInv, SavingInv, MainInv, InSave,
         Covered, OpenStarted, flagVars, Threads
<1>7. NoStrandedChange'
  BY DEF IInv, TypeOK, NoStrandedChange, SavingInv, MainInv, InSave, OpenStarted,
         flagVars, Threads
<1> QED
  BY <1>1, <1>2, <1>3, <1>4, <1>5, <1>6, <1>7 DEF IInv

(* A hold that outlives maxHold (heldUntil) frees nothing but the timer. *)
LEMMA HoldExpiresStep ==
  ASSUME IInv, NEW o \in Openers, HoldExpires(o)
  PROVE  IInv'
<1>1. TypeOK'
  BY ThreadAssumption DEF IInv, TypeOK, CallerPC, FlusherPC, CloserPC, HoldExpires, flagVars,
         Threads
<1>2. SavingInv'
  BY DEF IInv, TypeOK, SavingInv, MainInv, InSave, HoldExpires, flagVars, Threads
<1>3. MainInv'
  BY NamesAssumption DEF IInv, TypeOK, MainInv, HoldExpires, flagVars, Threads
<1>4. VersionInv'
  BY DEF IInv, TypeOK, VersionInv, SavingInv, InSave, HoldExpires, flagVars,
         Threads
<1>5. ReportInv'
  BY DEF IInv, TypeOK, ReportInv, VersionInv, SavingInv, MainInv, InSave,
         Covered, CoveredByClose, Reported, HoldExpires, flagVars, Threads
<1>6. CallerInv'
  BY ThreadAssumption DEF IInv, TypeOK, CallerInv, VersionInv, SavingInv, MainInv, InSave,
         Covered, HoldExpires, flagVars, Threads
<1>7. NoStrandedChange'
  BY DEF IInv, TypeOK, NoStrandedChange, SavingInv, MainInv, InSave, HoldExpires,
         flagVars, Threads
<1> QED
  BY <1>1, <1>2, <1>3, <1>4, <1>5, <1>6, <1>7 DEF IInv

(* The end of an open (the func OpenStarted returns) re-arms what waits. *)
LEMMA OpenEndedStep ==
  ASSUME IInv, NEW o \in Openers, OpenEnded(o)
  PROVE  IInv'
<1>1. TypeOK'
  BY ThreadAssumption DEF IInv, TypeOK, CallerPC, FlusherPC, CloserPC, OpenEnded, flagVars,
         Threads, Armed
<1>2. SavingInv'
  BY DEF IInv, TypeOK, SavingInv, MainInv, InSave, OpenEnded, flagVars, Threads,
         Armed
<1>3. MainInv'
  BY NamesAssumption DEF IInv, TypeOK, MainInv, OpenEnded, flagVars, Threads, Armed
<1>4. VersionInv'
  BY DEF IInv, TypeOK, VersionInv, SavingInv, InSave, OpenEnded, flagVars,
         Threads, Armed
<1>5. ReportInv'
  BY DEF IInv, TypeOK, ReportInv, VersionInv, SavingInv, MainInv, InSave,
         Covered, CoveredByClose, Reported, OpenEnded, flagVars, Threads,
         Armed
<1>6. CallerInv'
  BY ThreadAssumption DEF IInv, TypeOK, CallerInv, VersionInv, SavingInv, MainInv, InSave,
         Covered, OpenEnded, flagVars, Threads, Armed
<1>7. NoStrandedChange'
  BY DEF IInv, TypeOK, NoStrandedChange, SavingInv, MainInv, InSave, OpenEnded,
         flagVars, Threads, Armed
<1> QED
  BY <1>1, <1>2, <1>3, <1>4, <1>5, <1>6, <1>7 DEF IInv

(* List.Add makes a version no one has reported yet. *)
LEMMA AddStep ==
  ASSUME IInv, NEW o \in Openers, Add(o)
  PROVE  IInv'
<1>1. TypeOK'
  BY ThreadAssumption DEF IInv, TypeOK, CallerPC, FlusherPC, CloserPC, Add, flagVars, Threads
<1>2. SavingInv'
  BY DEF IInv, TypeOK, SavingInv, MainInv, InSave, Add, flagVars, Threads
<1>3. MainInv'
  BY NamesAssumption DEF IInv, TypeOK, MainInv, Add, flagVars, Threads
<1>4. VersionInv'
  BY DEF IInv, TypeOK, VersionInv, SavingInv, InSave, Add, flagVars, Threads
<1>5. ReportInv'
  BY DEF IInv, TypeOK, ReportInv, VersionInv, SavingInv, MainInv, InSave,
         Covered, CoveredByClose, Reported, Add, flagVars, Threads
<1>6. CallerInv'
  BY ThreadAssumption DEF IInv, TypeOK, CallerInv, VersionInv, SavingInv, MainInv, InSave,
         Covered, Add, flagVars, Threads
<1>7. NoStrandedChange'
  BY DEF IInv, TypeOK, NoStrandedChange, SavingInv, MainInv, InSave, Add,
         flagVars, Threads
<1> QED
  BY <1>1, <1>2, <1>3, <1>4, <1>5, <1>6, <1>7 DEF IInv

(* Record reports the list as it is: from here on the change is dirty. *)
LEMMA RecordStep ==
  ASSUME IInv, NEW o \in Openers, Record(o)
  PROVE  IInv'
<1>1. TypeOK'
  BY ThreadAssumption DEF IInv, TypeOK, CallerPC, FlusherPC, CloserPC, Record, flagVars, Threads,
         Armed, Reported
<1>2. SavingInv'
  BY DEF IInv, TypeOK, SavingInv, MainInv, InSave, Record, flagVars, Threads,
         Armed, Reported
<1>3. MainInv'
  BY NamesAssumption DEF IInv, TypeOK, MainInv, Record, flagVars, Threads, Armed, Reported
<1>4. VersionInv'
  BY DEF IInv, TypeOK, VersionInv, SavingInv, InSave, Record, flagVars, Threads,
         Armed, Reported
<1>5. ReportInv'
  BY DEF IInv, TypeOK, ReportInv, VersionInv, SavingInv, MainInv, InSave,
         Covered, CoveredByClose, Reported, Record, flagVars, Threads, Armed
<1>6. CallerInv'
  BY ThreadAssumption DEF IInv, TypeOK, CallerInv, VersionInv, SavingInv, MainInv, InSave,
         Covered, Record, flagVars, Threads, Armed, Reported
<1>7. NoStrandedChange'
  BY DEF IInv, TypeOK, NoStrandedChange, SavingInv, MainInv, InSave, Record,
         flagVars, Threads, Armed, Reported
<1> QED
  BY <1>1, <1>2, <1>3, <1>4, <1>5, <1>6, <1>7 DEF IInv

(* Remove and Clear change the list before SaveNow reports it. *)
LEMMA ChangeStep ==
  ASSUME IInv, NEW c \in Callers, Change(c)
  PROVE  IInv'
<1>1. TypeOK'
  BY ThreadAssumption DEF IInv, TypeOK, CallerPC, FlusherPC, CloserPC, Change, flagVars, Threads
<1>2. SavingInv'
  BY DEF IInv, TypeOK, SavingInv, MainInv, InSave, Change, flagVars, Threads
<1>3. MainInv'
  BY NamesAssumption DEF IInv, TypeOK, MainInv, Change, flagVars, Threads
<1>4. VersionInv'
  BY DEF IInv, TypeOK, VersionInv, SavingInv, InSave, Change, flagVars, Threads
<1>5. ReportInv'
  BY DEF IInv, TypeOK, ReportInv, VersionInv, SavingInv, MainInv, InSave,
         Covered, CoveredByClose, Reported, Change, flagVars, Threads
<1>6. CallerInv'
  BY ThreadAssumption DEF IInv, TypeOK, CallerInv, VersionInv, SavingInv, MainInv, InSave,
         Covered, Change, flagVars, Threads
<1>7. NoStrandedChange'
  BY DEF IInv, TypeOK, NoStrandedChange, SavingInv, MainInv, InSave, Change,
         flagVars, Threads
<1> QED
  BY <1>1, <1>2, <1>3, <1>4, <1>5, <1>6, <1>7 DEF IInv

(* SaveNow marks the change and takes the number of the save to wait for. *)
LEMMA SaveNowStep ==
  ASSUME IInv, NEW c \in Callers, SaveNow(c)
  PROVE  IInv'
<1>1. TypeOK'
  BY ThreadAssumption DEF IInv, TypeOK, CallerPC, FlusherPC, CloserPC, SaveNow, flagVars, Threads,
         Reported
<1>2. SavingInv'
  BY DEF IInv, TypeOK, SavingInv, MainInv, InSave, SaveNow, flagVars, Threads,
         Reported
<1>3. MainInv'
  BY NamesAssumption DEF IInv, TypeOK, MainInv, SaveNow, flagVars, Threads, Reported
<1>4. VersionInv'
  BY DEF IInv, TypeOK, VersionInv, SavingInv, InSave, SaveNow, flagVars, Threads,
         Reported
<1>5. ReportInv'
  BY DEF IInv, TypeOK, ReportInv, VersionInv, SavingInv, MainInv, InSave,
         Covered, CoveredByClose, Reported, SaveNow, flagVars, Threads
<1>6. CallerInv'
  BY ThreadAssumption DEF IInv, TypeOK, CallerInv, VersionInv, SavingInv, MainInv, InSave,
         Covered, SaveNow, flagVars, Threads, Reported
<1>7. NoStrandedChange'
  BY DEF IInv, TypeOK, NoStrandedChange, SavingInv, MainInv, InSave, SaveNow,
         flagVars, Threads, Reported
<1> QED
  BY <1>1, <1>2, <1>3, <1>4, <1>5, <1>6, <1>7 DEF IInv

(* A waiting SaveNow returns only when its save is finished or Close began. *)
LEMMA SaveNowWaitStep ==
  ASSUME IInv, NEW c \in Callers, SaveNowWait(c)
  PROVE  IInv'
<1>1. TypeOK'
  BY ThreadAssumption DEF IInv, TypeOK, CallerPC, FlusherPC, CloserPC, SaveNowWait, flagVars,
         Threads
<1>2. SavingInv'
  BY DEF IInv, TypeOK, SavingInv, MainInv, InSave, SaveNowWait, flagVars, Threads
<1>3. MainInv'
  BY NamesAssumption DEF IInv, TypeOK, MainInv, SaveNowWait, flagVars, Threads
<1>4. VersionInv'
  BY DEF IInv, TypeOK, VersionInv, SavingInv, InSave, SaveNowWait, flagVars,
         Threads
<1>5. ReportInv'
  BY DEF IInv, TypeOK, ReportInv, VersionInv, SavingInv, MainInv, InSave,
         Covered, CoveredByClose, Reported, SaveNowWait, flagVars, Threads
<1>6. CallerInv'
  BY ThreadAssumption DEF IInv, TypeOK, CallerInv, VersionInv, SavingInv, MainInv, InSave,
         Covered, SaveNowWait, flagVars, Threads
<1>7. NoStrandedChange'
  BY DEF IInv, TypeOK, NoStrandedChange, SavingInv, MainInv, InSave, SaveNowWait,
         flagVars, Threads
<1> QED
  BY <1>1, <1>2, <1>3, <1>4, <1>5, <1>6, <1>7 DEF IInv

(* The timer's goroutine takes the armed trigger over as its own flush. *)
LEMMA TimerFiresStep ==
  ASSUME IInv, NEW f \in Flushers, TimerFires(f)
  PROVE  IInv'
<1>1. TypeOK'
  BY ThreadAssumption DEF IInv, TypeOK, CallerPC, FlusherPC, CloserPC, TimerFires, flagVars,
         Threads
<1>2. SavingInv'
  BY DEF IInv, TypeOK, SavingInv, MainInv, InSave, TimerFires, flagVars, Threads
<1>3. MainInv'
  BY NamesAssumption DEF IInv, TypeOK, MainInv, TimerFires, flagVars, Threads
<1>4. VersionInv'
  BY DEF IInv, TypeOK, VersionInv, SavingInv, InSave, TimerFires, flagVars,
         Threads
<1>5. ReportInv'
  BY DEF IInv, TypeOK, ReportInv, VersionInv, SavingInv, MainInv, InSave,
         Covered, CoveredByClose, Reported, TimerFires, flagVars, Threads
<1>6. CallerInv'
  BY ThreadAssumption DEF IInv, TypeOK, CallerInv, VersionInv, SavingInv, MainInv, InSave,
         Covered, TimerFires, flagVars, Threads
<1>7. NoStrandedChange'
  BY DEF IInv, TypeOK, NoStrandedChange, SavingInv, MainInv, InSave, TimerFires,
         flagVars, Threads
<1> QED
  BY <1>1, <1>2, <1>3, <1>4, <1>5, <1>6, <1>7 DEF IInv

(* A flush that may not save leaves the change dirty, with a timer or a saver. *)
LEMMA FlushSkipsStep ==
  ASSUME IInv, NEW t \in Threads, FlushSkips(t)
  PROVE  IInv'
<1>1. TypeOK'
  BY ThreadAssumption DEF IInv, TypeOK, CallerPC, FlusherPC, CloserPC, FlushSkips, flagVars,
         Threads, Returned, MayFlush
<1>2. SavingInv'
  BY DEF IInv, TypeOK, SavingInv, MainInv, InSave, FlushSkips, flagVars, Threads,
         Returned, MayFlush
<1>3. MainInv'
  BY NamesAssumption DEF IInv, TypeOK, MainInv, FlushSkips, flagVars, Threads, Returned, MayFlush
<1>4. VersionInv'
  BY DEF IInv, TypeOK, VersionInv, SavingInv, InSave, FlushSkips, flagVars,
         Threads, Returned, MayFlush
<1>5. ReportInv'
  BY DEF IInv, TypeOK, ReportInv, VersionInv, SavingInv, MainInv, InSave,
         Covered, CoveredByClose, Reported, FlushSkips, flagVars, Threads,
         Returned, MayFlush
<1>6. CallerInv'
  BY ThreadAssumption DEF IInv, TypeOK, CallerInv, VersionInv, SavingInv, MainInv, InSave,
         Covered, FlushSkips, flagVars, Threads, Returned, MayFlush
<1>7. NoStrandedChange'
  BY DEF IInv, TypeOK, NoStrandedChange, SavingInv, MainInv, InSave, FlushSkips,
         flagVars, Threads, Returned, MayFlush
<1> QED
  BY <1>1, <1>2, <1>3, <1>4, <1>5, <1>6, <1>7 DEF IInv

(* A flush that saves clears dirty and becomes the only saver. *)
LEMMA FlushStartsStep ==
  ASSUME IInv, NEW t \in Threads, FlushStarts(t)
  PROVE  IInv'
<1>1. TypeOK'
  <2>1. pc' \in [Threads -> CallerPC] /\ \A f \in Flushers : pc'[f] \in FlusherPC
    BY DEF IInv, TypeOK, CallerPC, FlusherPC, FlushStarts
  <2>2. dirty' \in BOOLEAN /\ saving' \in BOOLEAN
    BY DEF FlushStarts
  <2>3. started' \in Nat
    BY DEF IInv, TypeOK, FlushStarts
  <2>4. UNCHANGED <<list, disk, menu, finished, closed, timer, opens, opener,
                    want, mine, copy, closer, main, recorded, tried>>
    BY DEF FlushStarts
  <2> QED
    BY <2>1, <2>2, <2>3, <2>4 DEF IInv, TypeOK
<1>2. SavingInv'
  BY DEF IInv, TypeOK, SavingInv, MainInv, InSave, FlushStarts, flagVars,
         Threads, MayFlush
<1>3. MainInv'
  BY NamesAssumption DEF IInv, TypeOK, MainInv, FlushStarts, flagVars, Threads, MayFlush
<1>4. VersionInv'
  BY DEF IInv, TypeOK, VersionInv, SavingInv, InSave, FlushStarts, flagVars,
         Threads, MayFlush
<1>5. ReportInv'
  BY DEF IInv, TypeOK, ReportInv, VersionInv, SavingInv, MainInv, InSave,
         Covered, CoveredByClose, Reported, FlushStarts, flagVars, Threads,
         MayFlush
<1>6. CallerInv'
  BY ThreadAssumption DEF IInv, TypeOK, CallerInv, VersionInv, SavingInv, MainInv, InSave,
         Covered, FlushStarts, flagVars, Threads, MayFlush
<1>7. NoStrandedChange'
  BY DEF IInv, TypeOK, NoStrandedChange, SavingInv, MainInv, InSave, FlushStarts,
         flagVars, Threads, MayFlush
<1> QED
  BY <1>1, <1>2, <1>3, <1>4, <1>5, <1>6, <1>7 DEF IInv

(* The saver copies the list as it is now, under saveMu. *)
LEMMA SaveCopiesStep ==
  ASSUME IInv, NEW t \in Threads, SaveCopies(t)
  PROVE  IInv'
<1>1. TypeOK'
  BY ThreadAssumption DEF IInv, TypeOK, CallerPC, FlusherPC, CloserPC, SaveCopies, flagVars,
         Threads
<1>2. SavingInv'
  BY DEF IInv, TypeOK, SavingInv, MainInv, InSave, SaveCopies, flagVars, Threads
<1>3. MainInv'
  BY NamesAssumption DEF IInv, TypeOK, MainInv, SaveCopies, flagVars, Threads
<1>4. VersionInv'
  BY DEF IInv, TypeOK, VersionInv, SavingInv, InSave, SaveCopies, flagVars,
         Threads
<1>5. ReportInv'
  BY DEF IInv, TypeOK, ReportInv, VersionInv, SavingInv, MainInv, InSave,
         Covered, CoveredByClose, Reported, SaveCopies, flagVars, Threads
<1>6. CallerInv'
  BY ThreadAssumption DEF IInv, TypeOK, CallerInv, VersionInv, SavingInv, MainInv, InSave,
         Covered, SaveCopies, flagVars, Threads
<1>7. NoStrandedChange'
  BY DEF IInv, TypeOK, NoStrandedChange, SavingInv, MainInv, InSave, SaveCopies,
         flagVars, Threads
<1> QED
  BY <1>1, <1>2, <1>3, <1>4, <1>5, <1>6, <1>7 DEF IInv

(* The saver's copy becomes the file; older copies cannot come later. *)
LEMMA SaveWritesStep ==
  ASSUME IInv, NEW t \in Threads, SaveWrites(t)
  PROVE  IInv'
<1>1. TypeOK'
  BY ThreadAssumption DEF IInv, TypeOK, CallerPC, FlusherPC, CloserPC, SaveWrites, flagVars,
         Threads
<1>2. SavingInv'
  BY DEF IInv, TypeOK, SavingInv, MainInv, InSave, SaveWrites, flagVars, Threads
<1>3. MainInv'
  BY NamesAssumption DEF IInv, TypeOK, MainInv, SaveWrites, flagVars, Threads
<1>4. VersionInv'
  BY DEF IInv, TypeOK, VersionInv, SavingInv, InSave, SaveWrites, flagVars,
         Threads
<1>5. ReportInv'
  BY DEF IInv, TypeOK, ReportInv, VersionInv, SavingInv, MainInv, InSave,
         Covered, CoveredByClose, Reported, SaveWrites, flagVars, Threads
<1>6. CallerInv'
  BY ThreadAssumption DEF IInv, TypeOK, CallerInv, VersionInv, SavingInv, MainInv, InSave,
         Covered, SaveWrites, flagVars, Threads
<1>7. NoStrandedChange'
  BY DEF IInv, TypeOK, NoStrandedChange, SavingInv, MainInv, InSave, SaveWrites,
         flagVars, Threads
<1> QED
  BY <1>1, <1>2, <1>3, <1>4, <1>5, <1>6, <1>7 DEF IInv

(* The saver counts its save finished, and re-arms for what came meanwhile. *)
LEMMA FlushEndsStep ==
  ASSUME IInv, NEW t \in Threads, FlushEnds(t)
  PROVE  IInv'
<1>1. TypeOK'
  <2>1. pc' \in [Threads -> CallerPC]
    BY DEF IInv, TypeOK, CallerPC, FlusherPC, FlushEnds
  <2>2. ASSUME NEW f \in Flushers PROVE pc'[f] \in FlusherPC
    BY DEF IInv, TypeOK, FlusherPC, FlushEnds, Threads
  <2>3. timer' \in BOOLEAN /\ closer' \in CloserPC
    BY DEF IInv, TypeOK, FlushEnds, Armed, CloserPC
  <2>4. saving' \in BOOLEAN
    BY DEF FlushEnds
  <2>5. finished' \in Nat
    BY DEF IInv, TypeOK, FlushEnds
  <2>6. UNCHANGED <<list, disk, menu, dirty, started, closed, opens, opener,
                    want, mine, copy, main, recorded, tried>>
    BY DEF FlushEnds
  <2> QED
    BY <2>1, <2>2, <2>3, <2>4, <2>5, <2>6 DEF IInv, TypeOK
<1>2. SavingInv'
  BY DEF IInv, TypeOK, SavingInv, MainInv, InSave, FlushEnds, flagVars, Threads,
         Armed
<1>3. MainInv'
  BY NamesAssumption DEF IInv, TypeOK, MainInv, FlushEnds, flagVars, Threads, Armed
<1>4. VersionInv'
  BY DEF IInv, TypeOK, VersionInv, SavingInv, InSave, FlushEnds, flagVars,
         Threads, Armed
<1>5. ReportInv'
  BY DEF IInv, TypeOK, ReportInv, VersionInv, SavingInv, MainInv, InSave,
         Covered, CoveredByClose, Reported, FlushEnds, flagVars, Threads,
         Armed
<1>6. CallerInv'
  BY ThreadAssumption DEF IInv, TypeOK, CallerInv, VersionInv, SavingInv, MainInv, InSave,
         Covered, FlushEnds, flagVars, Threads, Armed
<1>7. NoStrandedChange'
  BY DEF IInv, TypeOK, NoStrandedChange, SavingInv, MainInv, InSave, FlushEnds,
         flagVars, Threads, Armed
<1> QED
  BY <1>1, <1>2, <1>3, <1>4, <1>5, <1>6, <1>7 DEF IInv

(* A flush asks the UI thread for the rebuild; Close may hold that thread. *)
LEMMA RebuildAsksStep ==
  ASSUME IInv, NEW t \in Threads, RebuildAsks(t)
  PROVE  IInv'
<1>1. TypeOK'
  <2>1. pc' \in [Threads -> CallerPC]
    BY DEF IInv, TypeOK, CallerPC, FlusherPC, RebuildAsks, Returned
  <2>2. ASSUME NEW f \in Flushers PROVE pc'[f] \in FlusherPC
    BY ThreadAssumption DEF IInv, TypeOK, FlusherPC, RebuildAsks, Returned, Threads
  <2>3. /\ main' \in Threads \cup {"close", "free"}
        /\ UNCHANGED <<list, disk, menu, flagVars, opens, opener, want, mine, copy,
                       closer, recorded, tried>>
    BY DEF IInv, TypeOK, RebuildAsks
  <2> QED
    BY <2>1, <2>2, <2>3 DEF IInv, TypeOK, flagVars
<1>2. SavingInv'
  BY DEF IInv, TypeOK, SavingInv, MainInv, InSave, RebuildAsks, flagVars,
         Threads, Returned
<1>3. MainInv'
  BY NamesAssumption DEF IInv, TypeOK, MainInv, RebuildAsks, flagVars, Threads, Returned
<1>4. VersionInv'
  BY DEF IInv, TypeOK, VersionInv, SavingInv, InSave, RebuildAsks, flagVars,
         Threads, Returned
<1>5. ReportInv'
  BY DEF IInv, TypeOK, ReportInv, VersionInv, SavingInv, MainInv, InSave,
         Covered, CoveredByClose, Reported, RebuildAsks, flagVars, Threads,
         Returned
<1>6. CallerInv'
  <2>1. \A s \in Threads : pc'[s] \in {"copy", "write"} <=> pc[s] \in {"copy", "write"}
    BY DEF IInv, TypeOK, RebuildAsks, Returned
  <2>2. \A s \in Threads : pc'[s] = "write" <=> pc[s] = "write"
    BY DEF IInv, TypeOK, RebuildAsks, Returned
  <2>3. \A c \in Callers : /\ pc'[c] = "returned" => pc[c] = "returned"
                           /\ pc'[c] \notin {"idle", "changed"} => pc[c] \notin {"idle", "changed"}
    BY DEF IInv, TypeOK, RebuildAsks, Returned, Threads
  <2>4. UNCHANGED <<started, finished, want, mine, dirty, closed, tried, copy>>
    BY DEF RebuildAsks, flagVars
  <2>5. ASSUME NEW c \in Callers, pc'[c] \notin {"idle", "changed"}
        PROVE  /\ want'[c] <= started' + 1
               /\ started' < want'[c] => dirty' \/ closed'
               /\ finished' >= want'[c] => tried' >= mine'[c]
               /\ pc'[c] = "returned" => finished' >= want'[c] \/ closed'
    BY <2>3, <2>4, <2>5 DEF IInv, CallerInv
  <2>6. ASSUME NEW c \in Callers, pc'[c] \notin {"idle", "changed"}, started' >= want'[c]
        PROVE  Covered(mine[c])'
    <3>1. Covered(mine[c])
      BY <2>3, <2>4, <2>6 DEF IInv, CallerInv
    <3> QED
      BY <3>1, <2>1, <2>2, <2>4 DEF Covered
  <2> QED
    BY <2>5, <2>6 DEF CallerInv
<1>7. NoStrandedChange'
  BY DEF IInv, TypeOK, NoStrandedChange, SavingInv, MainInv, InSave, RebuildAsks,
         flagVars, Threads, Returned
<1> QED
  BY <1>1, <1>2, <1>3, <1>4, <1>5, <1>6, <1>7 DEF IInv

(* The rebuild changes the menu only. *)
LEMMA RebuildStep ==
  ASSUME IInv, NEW t \in Threads, Rebuild(t)
  PROVE  IInv'
<1>1. TypeOK'
  BY ThreadAssumption DEF IInv, TypeOK, CallerPC, FlusherPC, CloserPC, Rebuild, flagVars, Threads,
         Returned
<1>2. SavingInv'
  BY DEF IInv, TypeOK, SavingInv, MainInv, InSave, Rebuild, flagVars, Threads,
         Returned
<1>3. MainInv'
  BY NamesAssumption DEF IInv, TypeOK, MainInv, Rebuild, flagVars, Threads, Returned
<1>4. VersionInv'
  BY DEF IInv, TypeOK, VersionInv, SavingInv, InSave, Rebuild, flagVars, Threads,
         Returned
<1>5. ReportInv'
  BY DEF IInv, TypeOK, ReportInv, VersionInv, SavingInv, MainInv, InSave,
         Covered, CoveredByClose, Reported, Rebuild, flagVars, Threads,
         Returned
<1>6. CallerInv'
  BY ThreadAssumption DEF IInv, TypeOK, CallerInv, VersionInv, SavingInv, MainInv, InSave,
         Covered, Rebuild, flagVars, Threads, Returned
<1>7. NoStrandedChange'
  BY DEF IInv, TypeOK, NoStrandedChange, SavingInv, MainInv, InSave, Rebuild,
         flagVars, Threads, Returned
<1> QED
  BY <1>1, <1>2, <1>3, <1>4, <1>5, <1>6, <1>7 DEF IInv

(* Close begins: it owns the UI thread and stops the timer. *)
LEMMA CloseStep ==
  ASSUME IInv, Close
  PROVE  IInv'
<1>1. TypeOK'
  BY ThreadAssumption DEF IInv, TypeOK, CallerPC, FlusherPC, CloserPC, Close, flagVars, Threads
<1>2. SavingInv'
  BY DEF IInv, TypeOK, SavingInv, MainInv, InSave, Close, flagVars, Threads
<1>3. MainInv'
  BY NamesAssumption DEF IInv, TypeOK, MainInv, Close, flagVars, Threads
<1>4. VersionInv'
  BY DEF IInv, TypeOK, VersionInv, SavingInv, InSave, Close, flagVars, Threads
<1>5. ReportInv'
  BY DEF IInv, TypeOK, ReportInv, VersionInv, SavingInv, MainInv, InSave,
         Covered, CoveredByClose, Reported, Close, flagVars, Threads
<1>6. CallerInv'
  BY ThreadAssumption DEF IInv, TypeOK, CallerInv, VersionInv, SavingInv, MainInv, InSave,
         Covered, Close, flagVars, Threads
<1>7. NoStrandedChange'
  BY DEF IInv, TypeOK, NoStrandedChange, SavingInv, MainInv, InSave, Close,
         flagVars, Threads
<1> QED
  BY <1>1, <1>2, <1>3, <1>4, <1>5, <1>6, <1>7 DEF IInv

(* Close waits while a save is under way. *)
LEMMA CloseWaitsStep ==
  ASSUME IInv, CloseWaits
  PROVE  IInv'
<1>1. TypeOK'
  BY ThreadAssumption DEF IInv, TypeOK, CallerPC, FlusherPC, CloserPC, CloseWaits, flagVars,
         Threads
<1>2. SavingInv'
  BY DEF IInv, TypeOK, SavingInv, MainInv, InSave, CloseWaits, flagVars, Threads
<1>3. MainInv'
  BY NamesAssumption DEF IInv, TypeOK, MainInv, CloseWaits, flagVars, Threads
<1>4. VersionInv'
  BY DEF IInv, TypeOK, VersionInv, SavingInv, InSave, CloseWaits, flagVars,
         Threads
<1>5. ReportInv'
  BY DEF IInv, TypeOK, ReportInv, VersionInv, SavingInv, MainInv, InSave,
         Covered, CoveredByClose, Reported, CloseWaits, flagVars, Threads
<1>6. CallerInv'
  BY ThreadAssumption DEF IInv, TypeOK, CallerInv, VersionInv, SavingInv, MainInv, InSave,
         Covered, CloseWaits, flagVars, Threads
<1>7. NoStrandedChange'
  BY DEF IInv, TypeOK, NoStrandedChange, SavingInv, MainInv, InSave, CloseWaits,
         flagVars, Threads
<1> QED
  BY <1>1, <1>2, <1>3, <1>4, <1>5, <1>6, <1>7 DEF IInv

(* Close takes the dirty flag over when no save runs. *)
LEMMA CloseTakesStep ==
  ASSUME IInv, CloseTakes
  PROVE  IInv'
<1>1. TypeOK'
  BY ThreadAssumption DEF IInv, TypeOK, CallerPC, FlusherPC, CloserPC, CloseTakes, flagVars,
         Threads
<1>2. SavingInv'
  BY DEF IInv, TypeOK, SavingInv, MainInv, InSave, CloseTakes, flagVars, Threads
<1>3. MainInv'
  BY NamesAssumption DEF IInv, TypeOK, MainInv, CloseTakes, flagVars, Threads
<1>4. VersionInv'
  BY DEF IInv, TypeOK, VersionInv, SavingInv, InSave, CloseTakes, flagVars,
         Threads
<1>5. ReportInv'
  BY DEF IInv, TypeOK, ReportInv, VersionInv, SavingInv, MainInv, InSave,
         Covered, CoveredByClose, Reported, CloseTakes, flagVars, Threads
<1>6. CallerInv'
  BY ThreadAssumption DEF IInv, TypeOK, CallerInv, VersionInv, SavingInv, MainInv, InSave,
         Covered, CloseTakes, flagVars, Threads
<1>7. NoStrandedChange'
  BY DEF IInv, TypeOK, NoStrandedChange, SavingInv, MainInv, InSave, CloseTakes,
         flagVars, Threads
<1> QED
  BY <1>1, <1>2, <1>3, <1>4, <1>5, <1>6, <1>7 DEF IInv

(* Close's own save copies the list. *)
LEMMA CloseCopiesStep ==
  ASSUME IInv, CloseCopies
  PROVE  IInv'
<1>1. TypeOK'
  BY ThreadAssumption DEF IInv, TypeOK, CallerPC, FlusherPC, CloserPC, CloseCopies, flagVars,
         Threads
<1>2. SavingInv'
  BY DEF IInv, TypeOK, SavingInv, MainInv, InSave, CloseCopies, flagVars, Threads
<1>3. MainInv'
  BY NamesAssumption DEF IInv, TypeOK, MainInv, CloseCopies, flagVars, Threads
<1>4. VersionInv'
  BY DEF IInv, TypeOK, VersionInv, SavingInv, InSave, CloseCopies, flagVars,
         Threads
<1>5. ReportInv'
  BY DEF IInv, TypeOK, ReportInv, VersionInv, SavingInv, MainInv, InSave,
         Covered, CoveredByClose, Reported, CloseCopies, flagVars, Threads
<1>6. CallerInv'
  BY ThreadAssumption DEF IInv, TypeOK, CallerInv, VersionInv, SavingInv, MainInv, InSave,
         Covered, CloseCopies, flagVars, Threads
<1>7. NoStrandedChange'
  BY DEF IInv, TypeOK, NoStrandedChange, SavingInv, MainInv, InSave, CloseCopies,
         flagVars, Threads
<1> QED
  BY <1>1, <1>2, <1>3, <1>4, <1>5, <1>6, <1>7 DEF IInv

(* Close's own save writes its copy, then Close is done. *)
LEMMA CloseWritesStep ==
  ASSUME IInv, CloseWrites
  PROVE  IInv'
<1>1. TypeOK'
  BY ThreadAssumption DEF IInv, TypeOK, CallerPC, FlusherPC, CloserPC, CloseWrites, flagVars,
         Threads
<1>2. SavingInv'
  BY DEF IInv, TypeOK, SavingInv, MainInv, InSave, CloseWrites, flagVars, Threads
<1>3. MainInv'
  BY NamesAssumption DEF IInv, TypeOK, MainInv, CloseWrites, flagVars, Threads
<1>4. VersionInv'
  BY DEF IInv, TypeOK, VersionInv, SavingInv, InSave, CloseWrites, flagVars,
         Threads
<1>5. ReportInv'
  BY DEF IInv, TypeOK, ReportInv, VersionInv, SavingInv, MainInv, InSave,
         Covered, CoveredByClose, Reported, CloseWrites, flagVars, Threads
<1>6. CallerInv'
  BY ThreadAssumption DEF IInv, TypeOK, CallerInv, VersionInv, SavingInv, MainInv, InSave,
         Covered, CloseWrites, flagVars, Threads
<1>7. NoStrandedChange'
  BY DEF IInv, TypeOK, NoStrandedChange, SavingInv, MainInv, InSave, CloseWrites,
         flagVars, Threads
<1> QED
  BY <1>1, <1>2, <1>3, <1>4, <1>5, <1>6, <1>7 DEF IInv

(* A step that changes none of the flusher's variables preserves the invariant. *)
LEMMA UnchangedStep ==
  ASSUME IInv, UNCHANGED vars
  PROVE  IInv'
<1>1. TypeOK' /\ SavingInv' /\ MainInv' /\ VersionInv'
  BY DEF IInv, vars, TypeOK, SavingInv, MainInv, VersionInv, InSave
<1>2. ReportInv' /\ CallerInv' /\ NoStrandedChange'
  BY DEF IInv, vars, ReportInv, CallerInv, NoStrandedChange, Covered, CoveredByClose
<1> QED
  BY <1>1, <1>2 DEF IInv

(* Each action preserves the inductive invariant, so it holds of every
   reachable state, for any constants. *)
THEOREM InductiveInvariant == Spec => []IInv
<1>1. IInv /\ [Next]_vars => IInv'
  <2> SUFFICES ASSUME IInv, [Next]_vars PROVE IInv'
    OBVIOUS
  <2>1. ASSUME NEW o \in Openers, OpenerStep(o) PROVE IInv'
    BY <2>1, OpenStartedStep, HoldExpiresStep, OpenEndedStep, AddStep, RecordStep
       DEF OpenerStep
  <2>2. ASSUME NEW c \in Callers, Change(c) \/ CallerStep(c) PROVE IInv'
    BY <2>2, ChangeStep, SaveNowStep, SaveNowWaitStep DEF CallerStep
  <2>3. ASSUME NEW f \in Flushers, TimerFires(f) PROVE IInv'
    BY <2>3, TimerFiresStep
  <2>4. ASSUME NEW t \in Threads, ThreadStep(t) PROVE IInv'
    BY <2>4, FlushSkipsStep, FlushStartsStep, SaveCopiesStep, SaveWritesStep,
       FlushEndsStep, RebuildAsksStep, RebuildStep DEF ThreadStep
  <2>5. CASE Close
    BY <2>5, CloseStep
  <2>6. CASE CloserStep
    BY <2>6, CloseWaitsStep, CloseTakesStep, CloseCopiesStep, CloseWritesStep
       DEF CloserStep
  <2>7. CASE UNCHANGED vars
    BY <2>7, UnchangedStep
  <2> QED
    BY <2>1, <2>2, <2>3, <2>4, <2>5, <2>6, <2>7 DEF Next
<1> QED
  BY InitIInv, <1>1, PTL DEF Spec

(* Every variable keeps its type, and only SaveNow callers reach the states of
   SaveNow's wait. *)
THEOREM TypeCorrect == Spec => []TypeOK
<1>1. IInv => TypeOK
  BY DEF IInv
<1> QED
  BY InductiveInvariant, <1>1, PTL

(* The saves of flush and of Close never overlap, however many threads flush. *)
THEOREM SavesNeverOverlap == Spec => []OneSaver
<1>1. IInv => OneSaver
  BY DEF IInv, SavingInv, OneSaver, InSave
<1> QED
  BY InductiveInvariant, <1>1, PTL

(* Both together: the flusher keeps its types and saves one at a time. *)
THEOREM SaverIsSound == Spec => []SaverSound
BY TypeCorrect, SavesNeverOverlap, PTL DEF SaverSound

(* When SaveNow returns, a save that holds its change has been written, unless
   the application is closing; when Close returns, every change reported before
   it has. *)
THEOREM ReturnMeansWritten == Spec => []SavesAreDurable
<1>1. IInv => SaveNowDurable
  BY DEF IInv, CallerInv, SaveNowDurable
<1>2. IInv => CloseSavesReported
  BY DEF IInv, ReportInv, CloseSavesReported
<1> QED
  BY InductiveInvariant, <1>1, <1>2, PTL DEF SavesAreDurable

(* A reported change always has a save, a timer or a flush to pick it up. *)
THEOREM ChangesAreNotStranded == Spec => []NoStrandedChange
<1>1. IInv => NoStrandedChange
  BY DEF IInv
<1> QED
  BY InductiveInvariant, <1>1, PTL

(* No rebuild touches the menu once Close has begun. *)
THEOREM MenuFrozenAfterClose == Spec => NoRebuildAfterClose
<1>1. IInv /\ [Next]_vars => [closed => menu' = menu]_vars
  BY DEF IInv, MainInv, Next, vars, flagVars, OpenerStep, CallerStep, ThreadStep,
         CloserStep, OpenStarted, HoldExpires, OpenEnded, Add, Record, Change,
         SaveNow, SaveNowWait, TimerFires, FlushSkips, FlushStarts, SaveCopies,
         SaveWrites, FlushEnds, RebuildAsks, Rebuild, Close, CloseWaits,
         CloseTakes, CloseCopies, CloseWrites
<1> QED
  BY InductiveInvariant, <1>1, PTL DEF Spec, NoRebuildAfterClose

(***************************************************************************)
(* RecentList: the entries and their labels.                               *)
(***************************************************************************)

(* The paths the disk is asked about. *)
Files == DOMAIN FileAt

(* The list is within its bound, and what a call remembers are paths. *)
RlTypeOK ==
  /\ listed \in Seq(Files) /\ Len(listed) <= MaxEntries
  /\ calls \in [RecentCalls ->
       [at : {"idle"}] \cup
       [at : {"lock", "stat"}, what : {"Add", "Remove"}, path : Files, checked : SUBSET Files,
        same : SUBSET Files, fresh : SUBSET Files]]

(* No two entries name one file. *)
Apart(paths) == \A i, j \in DOMAIN paths : i # j => ~sameFile(paths[i], paths[j])

(* Of the paths a call has checked, same holds those that are its file. *)
CheckedInv ==
  \A c \in RecentCalls : calls[c].at # "idle" =>
    /\ calls[c].path \in calls[c].checked
    /\ calls[c].same = {q \in calls[c].checked : sameFile(q, calls[c].path)}

(* The inductive invariant of RecentList. *)
RlInv == RlTypeOK /\ Apart(listed) /\ CheckedInv

(* A set of natural numbers that is not empty has a least one. *)
LEMMA LeastExists ==
  ASSUME NEW T \in SUBSET Nat, T # {}
  PROVE  \E x \in T : \A y \in T : x <= y
<1>1. PICK x \in T : \A y \in T : ~ (<<y, x>> \in OpToRel(<, Nat))
  BY NatLessThanWellFounded, WFMin
<1>2. ASSUME NEW y \in T PROVE x <= y
  <2>1. <<y, x>> \in Nat \X Nat
    OBVIOUS
  <2>2. ~(y < x)
    BY <1>1, <2>1 DEF OpToRel
  <2> QED
    BY <2>2
<1> QED
  BY <1>2

(* Positions are finitely many. *)
LEMMA KeptAreFew ==
  ASSUME NEW n \in Nat, NEW keep \in SUBSET (1..n)
  PROVE  IsFiniteSet(keep) /\ Cardinality(keep) \in Nat /\ Cardinality(keep) <= n
<1>1. IsFiniteSet(1..n) /\ Cardinality(1..n) = n
  <2>1. 1 \in Int /\ n \in Int
    OBVIOUS
  <2>2. IsFiniteSet(1..n) /\ Cardinality(1..n) = IF 1 > n THEN 0 ELSE n - 1 + 1
    BY <2>1, FS_Interval
  <2> QED
    BY <2>2
<1>2. IsFiniteSet(keep) /\ Cardinality(keep) <= Cardinality(1..n)
  BY <1>1, FS_Subset
<1> QED
  BY <1>1, <1>2, FS_CardinalityType

(* The k-th position that is kept. *)
LEMMA RankExists ==
  ASSUME NEW n \in Nat, NEW keep \in SUBSET (1..n), NEW k \in 1..Cardinality(keep)
  PROVE  /\ IsFiniteSet(keep) /\ Cardinality(keep) \in 0..n
         /\ \E i \in keep : Cardinality({j \in keep : j <= i}) = k
<1> DEFINE Upto(m) == {j \in keep : j <= m}
           T == {m \in Nat : Cardinality(Upto(m)) >= k}
<1>0. \A j \in keep : j \in Nat /\ 1 <= j /\ j <= n
  OBVIOUS
<1>1. IsFiniteSet(keep) /\ Cardinality(keep) \in Nat /\ Cardinality(keep) <= n
  BY KeptAreFew
<1>2. \A m : IsFiniteSet(Upto(m)) /\ Cardinality(Upto(m)) \in Nat
  <2> SUFFICES ASSUME NEW m PROVE IsFiniteSet(Upto(m)) /\ Cardinality(Upto(m)) \in Nat
    OBVIOUS
  <2>1. Upto(m) \in SUBSET keep
    OBVIOUS
  <2> QED
    BY <1>1, <2>1, FS_Subset, FS_CardinalityType
<1>3. n \in T
  <2>1. Upto(n) = keep
    BY <1>0
  <2> QED
    BY <1>1, <2>1
<1>4. PICK m \in T : \A y \in T : m <= y
  <2>1. T \in SUBSET Nat /\ T # {}
    BY <1>3
  <2> HIDE DEF T
  <2> QED
    BY <2>1, LeastExists
<1>5. m # 0
  <2>1. \A j \in keep : ~(j <= 0)
    BY <1>0
  <2>2. Upto(0) = {}
    BY <2>1
  <2> QED
    BY <2>2, FS_EmptySet
<1>6. m \in Nat /\ m - 1 \in Nat /\ Cardinality(Upto(m)) >= k
  BY <1>5
<1>7. Cardinality(Upto(m - 1)) < k
  <2>1. m - 1 \notin T
    <3> HIDE DEF T
    <3> QED
      BY <1>4, <1>6
  <2>2. ~(Cardinality(Upto(m - 1)) >= k)
    BY <1>6, <2>1
  <2> HIDE DEF Upto
  <2> QED
    BY <1>2, <2>2
<1>8. \A j \in keep : j <= m <=> j <= m - 1 \/ j = m
  BY <1>0, <1>6
<1>9. m \in keep
  <2> SUFFICES ASSUME m \notin keep PROVE FALSE
    OBVIOUS
  <2>1. Upto(m) = Upto(m - 1)
    BY <1>8
  <2> HIDE DEF Upto
  <2> QED
    BY <1>2, <1>6, <1>7, <2>1
<1>10. Upto(m) = Upto(m - 1) \cup {m} /\ m \notin Upto(m - 1)
  <2>1. ~(m <= m - 1) /\ m <= m
    BY <1>6
  <2> QED
    BY <1>9, <1>8, <2>1
<1>11. Cardinality(Upto(m)) = Cardinality(Upto(m - 1)) + 1
  <2> HIDE DEF Upto
  <2> QED
    BY <1>2, <1>10, FS_AddElement
<1>12. Cardinality(Upto(m)) = k
  <2> HIDE DEF Upto
  <2> QED
    BY <1>2, <1>6, <1>7, <1>11
<1> QED
  BY <1>1, <1>9, <1>12

(* What is kept comes from the list, each position once. *)
LEMMA PickedIs ==
  ASSUME NEW S, NEW paths \in Seq(S), NEW keep \in SUBSET (DOMAIN paths)
  PROVE  /\ Picked(paths, keep) \in Seq(S) /\ Len(Picked(paths, keep)) <= Len(paths)
         /\ \E f \in [DOMAIN Picked(paths, keep) -> keep] :
              /\ \A k \in DOMAIN Picked(paths, keep) : Picked(paths, keep)[k] = paths[f[k]]
              /\ \A k, l \in DOMAIN Picked(paths, keep) : f[k] = f[l] => k = l
<1> DEFINE n == Cardinality(keep)
           rank(i) == Cardinality({j \in keep : j <= i})
           f == [k \in 1..n |-> CHOOSE i \in keep : rank(i) = k]
           p == Picked(paths, keep)
<1>1. Len(paths) \in Nat /\ DOMAIN paths = 1..Len(paths) /\ keep \in SUBSET (1..Len(paths))
  OBVIOUS
<1>2. n \in Nat /\ n <= Len(paths)
  BY <1>1, KeptAreFew
<1>3. \A k \in 1..n : f[k] \in keep /\ rank(f[k]) = k
  <2> SUFFICES ASSUME NEW k \in 1..n
               PROVE  (CHOOSE i \in keep : rank(i) = k) \in keep /\ rank(CHOOSE i \in keep : rank(i) = k) = k
    OBVIOUS
  <2>1. \E i \in keep : rank(i) = k
    BY <1>1, RankExists
  <2> QED
    BY <2>1
<1>4. p = [k \in 1..n |-> paths[f[k]]]
  BY DEF Picked
<1> HIDE DEF f, rank
<1>5. \A k \in 1..n : paths[f[k]] \in S
  <2> SUFFICES ASSUME NEW k \in 1..n PROVE paths[f[k]] \in S
    OBVIOUS
  <2>1. f[k] \in 1..Len(paths)
    BY <1>1, <1>3
  <2> QED
    BY <2>1
<1>6. p \in Seq(S) /\ Len(p) = n
  BY <1>2, <1>4, <1>5
<1>7. DOMAIN p = 1..n
  BY <1>4
<1>8. f \in [DOMAIN p -> keep]
  BY <1>3, <1>7 DEF f
<1>9. \A k \in DOMAIN p : p[k] = paths[f[k]]
  BY <1>4, <1>7
<1>10. \A k, l \in DOMAIN p : f[k] = f[l] => k = l
  BY <1>3, <1>7
<1> QED
  BY <1>2, <1>6, <1>8, <1>9, <1>10

(* Naming one file is an equivalence, as long as the disk stays. *)
LEMMA SameFileFacts ==
  ASSUME NEW a, NEW b, NEW c
  PROVE  /\ sameFile(a, a) /\ (sameFile(a, b) => sameFile(b, a))
         /\ (sameFile(a, b) => EqualFold(a, b))
BY DEF sameFile, EqualFold

(* Entries that are apart stay so when some are left out. *)
LEMMA PickedApart ==
  ASSUME NEW paths \in Seq(Files), NEW keep \in SUBSET (DOMAIN paths),
         \A i, j \in keep : i # j => ~sameFile(paths[i], paths[j])
  PROVE  Apart(Picked(paths, keep))
<1>1. PICK f \in [DOMAIN Picked(paths, keep) -> keep] :
         /\ \A k \in DOMAIN Picked(paths, keep) : Picked(paths, keep)[k] = paths[f[k]]
         /\ \A k, l \in DOMAIN Picked(paths, keep) : f[k] = f[l] => k = l
  BY PickedIs
<1> QED
  BY <1>1 DEF Apart

(* The bound takes entries off the end only. *)
LEMMA BoundedIs ==
  ASSUME NEW paths \in Seq(Files)
  PROVE  /\ Bounded(paths) \in Seq(Files) /\ Len(Bounded(paths)) <= MaxEntries
         /\ Apart(paths) => Apart(Bounded(paths))
<1> DEFINE m == IF Len(paths) > MaxEntries THEN MaxEntries ELSE Len(paths)
<1>1. m \in 0..Len(paths) /\ m <= MaxEntries /\ MaxEntries \in Nat
  BY RecentListAssumption
<1>2. Bounded(paths) = SubSeq(paths, 1, m)
  BY DEF Bounded
<1> HIDE DEF m
<1>3. /\ SubSeq(paths, 1, m) \in Seq(Files) /\ Len(SubSeq(paths, 1, m)) = m
      /\ \A i \in 1..m : SubSeq(paths, 1, m)[i] = paths[i]
  BY <1>1
<1>4. DOMAIN SubSeq(paths, 1, m) = 1..m /\ 1..m \subseteq DOMAIN paths
  BY <1>1, <1>3
<1> QED
  BY <1>1, <1>2, <1>3, <1>4 DEF Apart

(* The longest of finitely many entries. *)
LEMMA LongestExists ==
  ASSUME NEW n \in Nat, NEW idx \in SUBSET (1..n), idx # {}, NEW L \in [idx -> Nat]
  PROVE  \E m \in idx : \A i \in idx : L[i] <= L[m]
<1> DEFINE Bounds(k) == {b \in Nat : \A i \in idx : i <= k => L[i] <= b}
           T == {k \in Nat : Bounds(k) = {}}
<1>1. \A i \in idx : i \in Nat /\ 1 <= i /\ i <= n
  OBVIOUS
<1>2. T = {}
  <2> SUFFICES ASSUME T # {} PROVE FALSE
    OBVIOUS
  <2>1. PICK k \in T : \A y \in T : k <= y
    <3>1. T \in SUBSET Nat
      OBVIOUS
    <3> HIDE DEF T
    <3> QED
      BY <3>1, LeastExists
  <2>2. k \in Nat /\ Bounds(k) = {}
    OBVIOUS
  <2>3. k # 0
    <3>1. 0 \in Bounds(0)
      BY <1>1
    <3> QED
      BY <2>2, <3>1
  <2>4. k - 1 \in Nat /\ k - 1 \notin T
    <3> HIDE DEF T
    <3> QED
      BY <2>1, <2>2, <2>3
  <2>5. PICK b \in Nat : \A i \in idx : i <= k - 1 => L[i] <= b
    BY <2>4
  <2>6. CASE k \in idx
    <3>1. \A i \in idx : i <= k => L[i] <= b + L[k]
      <4> SUFFICES ASSUME NEW i \in idx, i <= k PROVE L[i] <= b + L[k]
        OBVIOUS
      <4>1. L[i] \in Nat /\ L[k] \in Nat /\ i \in Nat
        BY <1>1, <2>6
      <4>2. CASE i = k
        BY <4>1, <4>2
      <4>3. CASE i # k
        BY <2>2, <2>5, <4>1, <4>3
      <4> QED
        BY <4>2, <4>3
    <3>2. b + L[k] \in Nat
      BY <2>6
    <3>3. b + L[k] \in Bounds(k)
      BY <3>1, <3>2
    <3> QED
      BY <2>2, <3>3
  <2>7. CASE k \notin idx
    <3>1. \A i \in idx : i <= k => i <= k - 1
      BY <1>1, <2>2, <2>7
    <3>2. b \in Bounds(k)
      BY <2>5, <3>1
    <3> QED
      BY <2>2, <3>2
  <2> QED
    BY <2>6, <2>7
<1>3. Bounds(n) # {}
  BY <1>2
<1>4. PICK b \in Bounds(n) : \A y \in Bounds(n) : b <= y
  <2>1. Bounds(n) \in SUBSET Nat
    OBVIOUS
  <2> HIDE DEF Bounds
  <2> QED
    BY <1>3, <2>1, LeastExists
<1>5. b \in Nat /\ \A i \in idx : L[i] <= b
  BY <1>1
<1>6. \E m \in idx : L[m] = b
  <2> SUFFICES ASSUME \A m \in idx : L[m] # b PROVE FALSE
    OBVIOUS
  <2>1. PICK i \in idx : TRUE
    OBVIOUS
  <2>2. b # 0
    BY <1>5, <2>1
  <2>3. b - 1 \in Nat /\ \A j \in idx : L[j] <= b - 1
    BY <1>5, <2>2
  <2>4. b - 1 \in Bounds(n)
    BY <2>3
  <2> HIDE DEF Bounds
  <2> QED
    BY <1>4, <1>5, <2>4
<1> QED
  BY <1>5, <1>6

(* The widening ends, and for one of its two reasons. *)
LEMMA WidenedEnough ==
  ASSUME NEW ps \in Seq(Files), NEW idx \in SUBSET (DOMAIN ps), idx # {}
  PROVE  LET D == LabelDepth(ps, idx) IN
         /\ D \in Nat \ {0}
         /\ \/ \A i, j \in idx : i # j => parentSuffix(ps[i], D).dir # parentSuffix(ps[j], D).dir
            \/ \A i \in idx : ~parentSuffix(ps[i], D).more
<1> DEFINE L(i) == Len(ps[i].dirs)
           Lengths == {L(i) : i \in idx}
           stops(d) == \/ \A i, j \in idx : i # j => parentSuffix(ps[i], d).dir # parentSuffix(ps[j], d).dir
                       \/ \A i \in idx : ~parentSuffix(ps[i], d).more
           ds == {d \in 1..(1 + Max(Lengths)) : stops(d)}
<1>1. Len(ps) \in Nat /\ idx \in SUBSET (1..Len(ps))
  OBVIOUS
<1>2. \A i \in idx : L(i) \in Nat
  <2> SUFFICES ASSUME NEW i \in idx PROVE L(i) \in Nat
    OBVIOUS
  <2>1. ps[i] \in Files
    OBVIOUS
  <2>2. ps[i].dirs \in Seq(ToSet(ps[i].dirs))
    BY <2>1, RecentListAssumption DEF Files
  <2> QED
    BY <2>2
<1>3. PICK m \in idx : \A i \in idx : L(i) <= L(m)
  <2> DEFINE f == [i \in idx |-> L(i)]
  <2>1. f \in [idx -> Nat]
    BY <1>2
  <2>2. \A i \in idx : f[i] = L(i)
    OBVIOUS
  <2> HIDE DEF L, f
  <2>3. \E m \in idx : \A i \in idx : f[i] <= f[m]
    BY <1>1, <2>1, LongestExists
  <2> QED
    BY <2>2, <2>3
<1>4. Max(Lengths) \in Nat /\ \A i \in idx : L(i) <= Max(Lengths)
  <2>1. L(m) \in Lengths /\ \A y \in Lengths : L(m) >= y
    BY <1>2, <1>3
  <2>2. Max(Lengths) \in Lengths /\ \A y \in Lengths : Max(Lengths) >= y
    <3> HIDE DEF Lengths, L
    <3> QED
      BY <2>1 DEF Max
  <2>3. \A y \in Lengths : y \in Nat
    BY <1>2
  <2>4. \A i \in idx : L(i) \in Lengths
    OBVIOUS
  <2> HIDE DEF Lengths, L
  <2> QED
    BY <1>2, <2>2, <2>3, <2>4
<1> HIDE DEF Lengths
<1>5. 1 + Max(Lengths) \in ds
  <2>1. \A i \in idx : ~parentSuffix(ps[i], 1 + Max(Lengths)).more
    <3>1. ASSUME NEW i \in idx PROVE ~(1 + Max(Lengths) < Len(ps[i].dirs))
      <4>1. L(i) \in Nat /\ L(i) <= Max(Lengths) /\ Max(Lengths) \in Nat
        BY <1>2, <1>4
      <4>2. ~(1 + Max(Lengths) < L(i))
        BY <4>1
      <4> QED
        BY <4>2
    <3> QED
      BY <3>1 DEF parentSuffix
  <2>2. stops(1 + Max(Lengths))
    BY <2>1
  <2> HIDE DEF stops
  <2> QED
    BY <1>4, <2>2
<1>6. ds \in SUBSET Nat /\ \A d \in ds : d \in Nat \ {0} /\ stops(d)
  <2> HIDE DEF stops
  <2> QED
    BY <1>4
<1>7. PICK x \in ds : \A y \in ds : x <= y
  <2> HIDE DEF ds
  <2> QED
    BY <1>5, <1>6, LeastExists
<1>8. LabelDepth(ps, idx) = Min(ds)
  BY DEF LabelDepth, Lengths
<1> HIDE DEF ds
<1>9. Min(ds) \in ds
  BY <1>7 DEF Min
<1>10. LabelDepth(ps, idx) \in Nat \ {0} /\ stops(LabelDepth(ps, idx))
  <2> HIDE DEF stops
  <2> QED
    BY <1>6, <1>8, <1>9
<1> QED
  BY <1>10

(* A file name and its spelling before some directories. *)
LEMMA Prefixed ==
  ASSUME NEW A, NEW x, NEW y, NEW dir \in Seq(A)
  PROVE  /\ (<<x, y>> \o dir)[1] = x /\ (<<x, y>> \o dir)[2] = y
         /\ Len(<<x, y>> \o dir) = 2 + Len(dir)
         /\ \A k \in 1..Len(dir) : (<<x, y>> \o dir)[2 + k] = dir[k]
<1> DEFINE B == A \cup {x, y}
<1>1. dir \in Seq(B) /\ <<x, y>> \in Seq(B) /\ Len(<<x, y>>) = 2 /\ Len(dir) \in Nat
  OBVIOUS
<1>2. /\ Len(<<x, y>> \o dir) = 2 + Len(dir)
      /\ \A k \in 1..(2 + Len(dir)) : (<<x, y>> \o dir)[k] = IF k <= 2 THEN <<x, y>>[k] ELSE dir[k - 2]
  BY <1>1
<1>3. (<<x, y>> \o dir)[1] = x /\ (<<x, y>> \o dir)[2] = y
  BY <1>1, <1>2
<1>4. ASSUME NEW k \in 1..Len(dir) PROVE (<<x, y>> \o dir)[2 + k] = dir[k]
  <2>1. 2 + k \in 1..(2 + Len(dir)) /\ ~(2 + k <= 2) /\ (2 + k) - 2 = k
    BY <1>1
  <2> QED
    BY <1>2, <2>1
<1> QED
  BY <1>2, <1>3, <1>4

(* What is put before the directories does not hide them. *)
LEMMA PrefixedSame ==
  ASSUME NEW A, NEW x, NEW y, NEW d \in Seq(A), NEW e \in Seq(A), <<x, y>> \o d = <<x, y>> \o e
  PROVE  d = e
<1>1. Len(d) \in Nat /\ Len(e) \in Nat /\ 2 + Len(d) = 2 + Len(e)
  BY Prefixed
<1>2. Len(d) = Len(e)
  BY <1>1
<1>3. \A k \in 1..Len(d) : d[k] = e[k]
  BY <1>2, Prefixed
<1> QED
  BY <1>2, <1>3, SeqEqual

(* The directories of a label. *)
LEMMA SuffixIs ==
  ASSUME NEW p \in Files, NEW depth \in Nat \ {0}
  PROVE  /\ p.dirs \in Seq(ToSet(p.dirs)) /\ Len(p.dirs) \in Nat
         /\ parentSuffix(p, depth).dir \in Seq(ToSet(p.dirs) \cup {p.root})
         /\ ~parentSuffix(p, depth).more =>
              parentSuffix(p, depth).dir = IF depth = Len(p.dirs) THEN p.dirs ELSE <<p.root>> \o p.dirs
<1> DEFINE D == ToSet(p.dirs)
           n == Len(p.dirs)
           R == D \cup {p.root}
<1>1. p.dirs \in Seq(D) /\ n \in Nat
  BY RecentListAssumption DEF Files
<1>2. p.dirs \in Seq(R) /\ <<p.root>> \o p.dirs \in Seq(R)
  <2> HIDE DEF D, n
  <2>1. p.dirs \in Seq(R)
    BY <1>1
  <2>2. <<p.root>> \in Seq(R)
    OBVIOUS
  <2> QED
    BY <2>1, <2>2
<1>3. CASE depth <= n
  <2>1. n - depth + 1 \in 1..(n + 1) /\ n \in Nat
    BY <1>1, <1>3
  <2>2. SubSeq(p.dirs, n - depth + 1, n) \in Seq(R)
    BY <1>2, <2>1
  <2>3. parentSuffix(p, depth).dir = SubSeq(p.dirs, n - depth + 1, n)
    BY <1>3 DEF parentSuffix
  <2>4. ~parentSuffix(p, depth).more => depth = n
    <3>1. parentSuffix(p, depth).more = (depth < n)
      BY DEF parentSuffix
    <3>2. ~(depth < n) => depth = n
      BY <1>1, <1>3
    <3> QED
      BY <3>1, <3>2
  <2>5. SubSeq(p.dirs, 1, n) = p.dirs
    BY <1>1
  <2>6. depth = n => n - depth + 1 = 1
    BY <1>1
  <2> HIDE DEF n
  <2>7. depth = n => parentSuffix(p, depth).dir = p.dirs
    BY <2>3, <2>5, <2>6
  <2> QED
    BY <1>1, <2>2, <2>3, <2>4, <2>7 DEF n
<1>4. CASE ~(depth <= n)
  <2>1. parentSuffix(p, depth).dir = <<p.root>> \o p.dirs
    BY <1>4 DEF parentSuffix
  <2>2. depth # n
    BY <1>1, <1>4
  <2> QED
    BY <1>1, <1>2, <2>1, <2>2
<1> QED
  BY <1>3, <1>4

(* A root in front of the directories is told from them, and does not hide
   what follows. *)
LEMMA RootLeads ==
  ASSUME NEW p \in Files, NEW q \in Files
  PROVE  /\ p.dirs # <<q.root>> \o q.dirs
         /\ <<p.root>> \o p.dirs = <<q.root>> \o q.dirs => p.root = q.root /\ p.dirs = q.dirs
<1> DEFINE all(r) == <<r.root>> \o r.dirs
<1>1. p.dirs \in Seq(ToSet(p.dirs)) /\ q.dirs \in Seq(ToSet(q.dirs)) /\ q.root \notin ToSet(p.dirs)
  BY RecentListAssumption DEF Files
<1>2. /\ Len(p.dirs) \in Nat /\ Len(q.dirs) \in Nat
      /\ Len(all(p)) = 1 + Len(p.dirs) /\ all(p)[1] = p.root
      /\ \A k \in 1..Len(p.dirs) : all(p)[1 + k] = p.dirs[k]
  BY <1>1
<1>3. /\ Len(all(q)) = 1 + Len(q.dirs) /\ all(q)[1] = q.root
      /\ \A k \in 1..Len(q.dirs) : all(q)[1 + k] = q.dirs[k]
  BY <1>1
<1> HIDE DEF all
<1>4. p.dirs # all(q)
  <2> SUFFICES ASSUME p.dirs = all(q) PROVE FALSE
    OBVIOUS
  <2>1. p.dirs[1] = q.root /\ Len(p.dirs) >= 1
    BY <1>2, <1>3
  <2>2. 1 \in DOMAIN p.dirs
    BY <1>1, <2>1
  <2>3. p.dirs[1] \in ToSet(p.dirs)
    BY <2>2 DEF ToSet
  <2> QED
    BY <1>1, <2>1, <2>3
<1>5. ASSUME all(p) = all(q) PROVE p.root = q.root /\ p.dirs = q.dirs
  <2>1. p.root = q.root /\ Len(p.dirs) = Len(q.dirs)
    BY <1>2, <1>3, <1>5
  <2>2. \A k \in 1..Len(p.dirs) : p.dirs[k] = q.dirs[k]
    BY <1>2, <1>3, <1>5, <2>1
  <2>3. p.dirs \in Seq(ToSet(p.dirs) \cup ToSet(q.dirs)) /\ q.dirs \in Seq(ToSet(p.dirs) \cup ToSet(q.dirs))
    BY <1>1
  <2> QED
    BY <2>1, <2>2, <2>3, SeqEqual
<1> QED
  BY <1>4, <1>5 DEF all

(* What a stored list becomes when it is loaded. *)
LEMMA LoadIs ==
  ASSUME NEW stored \in Seq(Files)
  PROVE  Load(stored) \in Seq(Files) /\ Len(Load(stored)) <= MaxEntries /\ Apart(Load(stored))
<1> DEFINE keep == {i \in DOMAIN stored : \A j \in 1..(i - 1) : ~sameFile(stored[j], stored[i])}
<1>1. keep \in SUBSET (DOMAIN stored)
  OBVIOUS
<1>2. ASSUME NEW i \in keep, NEW j \in keep, i # j PROVE ~sameFile(stored[i], stored[j])
  <2>1. i \in Nat /\ j \in Nat /\ i >= 1 /\ j >= 1
    OBVIOUS
  <2>2. CASE i < j
    <3>1. i \in 1..(j - 1)
      BY <2>1, <2>2
    <3> QED
      BY <3>1
  <2>3. CASE j < i
    <3>1. j \in 1..(i - 1)
      BY <2>1, <2>3
    <3>2. ~sameFile(stored[j], stored[i])
      BY <3>1
    <3> QED
      BY <3>2, SameFileFacts
  <2> QED
    BY <1>2, <2>1, <2>2, <2>3
<1>3. Load(stored) = Bounded(Picked(stored, keep))
  BY DEF Load
<1> HIDE DEF keep
<1>4. Picked(stored, keep) \in Seq(Files) /\ Apart(Picked(stored, keep))
  BY <1>1, <1>2, PickedIs, PickedApart
<1> QED
  BY <1>3, <1>4, BoundedIs

(* A list without some entries. *)
LEMMA WithoutKeeps ==
  ASSUME NEW paths \in Seq(Files), Apart(paths), NEW drop
  PROVE  /\ without(paths, drop) \in Seq(Files) /\ Len(without(paths, drop)) <= Len(paths)
         /\ Apart(without(paths, drop))
         /\ \A k \in DOMAIN without(paths, drop) :
              without(paths, drop)[k] \notin drop /\ without(paths, drop)[k] \in ToSet(paths)
<1> DEFINE keep == {i \in DOMAIN paths : paths[i] \notin drop}
<1>1. keep \in SUBSET (DOMAIN paths) /\ without(paths, drop) = Picked(paths, keep)
  BY DEF without
<1>2. \A i \in keep : paths[i] \notin drop /\ paths[i] \in ToSet(paths)
  BY DEF ToSet
<1> HIDE DEF keep
<1>3. \A i, j \in keep : i # j => ~sameFile(paths[i], paths[j])
  BY <1>1 DEF Apart
<1>4. PICK f \in [DOMAIN Picked(paths, keep) -> keep] :
        \A k \in DOMAIN Picked(paths, keep) : Picked(paths, keep)[k] = paths[f[k]]
  BY <1>1, PickedIs
<1>5. \A k \in DOMAIN Picked(paths, keep) :
        Picked(paths, keep)[k] \notin drop /\ Picked(paths, keep)[k] \in ToSet(paths)
  BY <1>2, <1>4
<1> QED
  BY <1>1, <1>3, <1>5, PickedIs, PickedApart

(* An entry at the front of a list that names none of its files. *)
LEMMA Fronted ==
  ASSUME NEW paths \in Seq(Files), Apart(paths), NEW p \in Files,
         \A k \in DOMAIN paths : ~sameFile(paths[k], p)
  PROVE  <<p>> \o paths \in Seq(Files) /\ Apart(<<p>> \o paths)
<1> DEFINE all == <<p>> \o paths
<1>1. /\ all \in Seq(Files) /\ Len(all) = Len(paths) + 1 /\ all[1] = p
      /\ \A k \in 2..Len(all) : all[k] = paths[k - 1] /\ k - 1 \in DOMAIN paths
  OBVIOUS
<1> HIDE DEF all
<1>2. ASSUME NEW i \in DOMAIN all, NEW j \in DOMAIN all, i # j
      PROVE  ~sameFile(all[i], all[j])
  <2>1. DOMAIN all = 1..Len(all) /\ Len(all) \in Nat
    BY <1>1
  <2>2. CASE i = 1
    <3>1. j \in 2..Len(all)
      BY <1>2, <2>1, <2>2
    <3> QED
      BY <1>1, <2>2, <3>1, SameFileFacts
  <2>3. CASE j = 1
    <3>1. i \in 2..Len(all)
      BY <1>2, <2>1, <2>3
    <3> QED
      BY <1>1, <2>3, <3>1
  <2>4. CASE i # 1 /\ j # 1
    <3>1. i \in 2..Len(all) /\ j \in 2..Len(all) /\ i - 1 # j - 1
      BY <1>2, <2>1, <2>4
    <3>2. ~sameFile(paths[i - 1], paths[j - 1])
      BY <1>1, <3>1 DEF Apart
    <3> QED
      BY <1>1, <3>1, <3>2
  <2> QED
    BY <2>2, <2>3, <2>4
<1> QED
  BY <1>1, <1>2 DEF Apart, all

(* The state of a call under way. *)
Under == [at : {"lock", "stat"}, what : {"Add", "Remove"}, path : Files, checked : SUBSET Files,
          same : SUBSET Files, fresh : SUBSET Files]

(* An empty machine holds what was stored, loaded. *)
LEMMA RlInitInv == RlInit => RlInv
<1> SUFFICES ASSUME RlInit PROVE RlInv
  OBVIOUS
<1>1. PICK s \in StoredLists : listed = Load(s)
  BY DEF RlInit
<1>2. listed \in Seq(Files) /\ Len(listed) <= MaxEntries /\ Apart(listed)
  BY <1>1, LoadIs, RecentListAssumption DEF Files
<1>3. calls = [c \in RecentCalls |-> [at |-> "idle"]]
  BY DEF RlInit
<1> QED
  BY <1>2, <1>3 DEF RlInv, RlTypeOK, CheckedInv

(* A call that has looked at every variant drops all entries of its file. *)
LEMMA AppliedIs ==
  ASSUME RlInv, NEW c \in RecentCalls, calls[c].at = "lock", FreshVariants(calls[c]) = {}
  PROVE  /\ Applied(calls[c]) \in Seq(Files) /\ Len(Applied(calls[c])) <= MaxEntries
         /\ Apart(Applied(calls[c]))
<1> DEFINE rest == without(listed, calls[c].same)
           p == calls[c].path
<1>1. /\ listed \in Seq(Files) /\ Len(listed) <= MaxEntries /\ Apart(listed) /\ p \in Files
      /\ p \in calls[c].checked
      /\ calls[c].same = {q \in calls[c].checked : sameFile(q, p)}
      /\ Len(listed) \in Nat /\ MaxEntries \in Nat
  BY RecentListAssumption DEF RlInv, RlTypeOK, CheckedInv
<1>2. /\ rest \in Seq(Files) /\ Len(rest) <= Len(listed) /\ Apart(rest)
      /\ \A k \in DOMAIN rest : rest[k] \notin calls[c].same /\ rest[k] \in ToSet(listed)
  BY <1>1, WithoutKeeps
<1>3. ASSUME NEW k \in DOMAIN rest PROVE ~sameFile(rest[k], p)
  <2>1. CASE rest[k] \in calls[c].checked
    BY <1>1, <1>2, <2>1
  <2>2. CASE rest[k] \notin calls[c].checked
    <3>1. ~EqualFold(rest[k], p)
      BY <1>2, <2>2 DEF FreshVariants
    <3> QED
      BY <3>1, SameFileFacts
  <2> QED
    BY <2>1, <2>2
<1> HIDE DEF rest
<1>4. <<p>> \o rest \in Seq(Files) /\ Apart(<<p>> \o rest)
  BY <1>1, <1>2, <1>3, Fronted
<1>5. Applied(calls[c]) \in {rest, Bounded(<<p>> \o rest)}
  BY DEF Applied, rest
<1>6. Len(rest) <= MaxEntries
  BY <1>1, <1>2
<1> QED
  BY <1>2, <1>4, <1>5, <1>6, BoundedIs

(* Every step keeps RlInv. *)
LEMMA RlNextInv == RlInv /\ [RlNext]_rlVars => RlInv'
<1> SUFFICES ASSUME RlInv, [RlNext]_rlVars PROVE RlInv'
  OBVIOUS
<1>1. /\ listed \in Seq(Files) /\ Len(listed) <= MaxEntries /\ Apart(listed) /\ CheckedInv
      /\ calls \in [RecentCalls -> [at : {"idle"}] \cup Under]
      /\ RecentPaths \subseteq Files
  BY RecentListAssumption DEF RlInv, RlTypeOK, Under, Files
<1>2. ASSUME NEW c \in RecentCalls, NEW new, calls' = [calls EXCEPT ![c] = new],
             \/ new \in [at : {"idle"}]
             \/ /\ new \in Under /\ new.path \in new.checked
                /\ new.same = {q \in new.checked : sameFile(q, new.path)},
             listed' \in Seq(Files), Len(listed') <= MaxEntries, Apart(listed')
      PROVE  RlInv'
  <2>1. calls' \in [RecentCalls -> [at : {"idle"}] \cup Under]
    BY <1>1, <1>2
  <2>2. calls'[c] = new /\ \A d \in RecentCalls : d # c => calls'[d] = calls[d]
    BY <1>1, <1>2
  <2>3. CheckedInv'
    <3>1. ASSUME NEW d \in RecentCalls, calls'[d].at # "idle"
          PROVE  /\ calls'[d].path \in calls'[d].checked
                 /\ calls'[d].same = {q \in calls'[d].checked : sameFile(q, calls'[d].path)}
      <4>1. CASE d = c
        BY <1>2, <2>2, <3>1, <4>1
      <4>2. CASE d # c
        BY <1>1, <2>2, <3>1, <4>2 DEF CheckedInv
      <4> QED
        BY <4>1, <4>2
    <3> QED
      BY <3>1 DEF CheckedInv
  <2> QED
    BY <1>2, <2>1, <2>3 DEF RlInv, RlTypeOK, Under
<1>3. ASSUME NEW c \in RecentCalls, RlStarts(c) PROVE RlInv'
  <2>1. PICK p \in RecentPaths, what \in {"Add", "Remove"} :
          calls' = [calls EXCEPT ![c] = [at |-> "lock", what |-> what, path |-> p,
                                         checked |-> {p}, same |-> {p}, fresh |-> {}]]
    BY <1>3 DEF RlStarts
  <2> DEFINE new == [at |-> "lock", what |-> what, path |-> p, checked |-> {p}, same |-> {p},
                     fresh |-> {}]
  <2>2. new \in Under /\ new.path = p /\ new.checked = {p} /\ new.same = {p}
    BY <1>1 DEF Under
  <2>3. {p} = {q \in {p} : sameFile(q, p)}
    BY SameFileFacts
  <2>4. listed' = listed
    BY <1>3 DEF RlStarts
  <2>5. calls' = [calls EXCEPT ![c] = new]
    BY <2>1
  <2> HIDE DEF new
  <2> QED
    BY <1>1, <1>2, <2>2, <2>3, <2>4, <2>5
<1>4. ASSUME NEW c \in RecentCalls, lockSameAs(c) PROVE RlInv'
  <2>1. calls[c] \in Under /\ calls[c].at = "lock"
    BY <1>1, <1>4 DEF lockSameAs
  <2>2. CASE FreshVariants(calls[c]) = {}
    <3>1. listed' = Applied(calls[c]) /\ calls' = [calls EXCEPT ![c] = [at |-> "idle"]]
      BY <1>4, <2>2 DEF lockSameAs
    <3>2. listed' \in Seq(Files) /\ Len(listed') <= MaxEntries /\ Apart(listed')
      BY <2>1, <2>2, <3>1, AppliedIs
    <3>3. [at |-> "idle"] \in [at : {"idle"}]
      OBVIOUS
    <3> QED
      BY <1>2, <3>1, <3>2, <3>3
  <2>3. CASE FreshVariants(calls[c]) # {}
    <3> DEFINE new == [calls[c] EXCEPT !.at = "stat", !.fresh = FreshVariants(calls[c])]
    <3>1. listed' = listed /\ calls' = [calls EXCEPT ![c] = new]
      BY <1>1, <1>4, <2>3 DEF lockSameAs
    <3>2. FreshVariants(calls[c]) \in SUBSET Files
      BY <1>1 DEF FreshVariants, ToSet
    <3>3. /\ new \in Under /\ new.path = calls[c].path /\ new.checked = calls[c].checked
          /\ new.same = calls[c].same
      BY <2>1, <3>2 DEF Under
    <3>4. /\ new.path \in new.checked
          /\ new.same = {q \in new.checked : sameFile(q, new.path)}
      BY <1>1, <2>1, <3>3 DEF CheckedInv
    <3> HIDE DEF new
    <3> QED
      BY <1>1, <1>2, <3>1, <3>3, <3>4
  <2> QED
    BY <2>2, <2>3
<1>5. ASSUME NEW c \in RecentCalls, StatVariants(c) PROVE RlInv'
  <2>1. calls[c] \in Under /\ calls[c].at = "stat"
    BY <1>1, <1>5 DEF StatVariants
  <2> DEFINE more == calls[c].checked \cup calls[c].fresh
             same == calls[c].same \cup {q \in calls[c].fresh : sameFile(q, calls[c].path)}
             new == [calls[c] EXCEPT !.at = "lock", !.fresh = {}, !.checked = more, !.same = same]
  <2>2. listed' = listed /\ calls' = [calls EXCEPT ![c] = new]
    BY <1>1, <1>5 DEF StatVariants
  <2>3. more \in SUBSET Files /\ same \in SUBSET Files
    BY <2>1 DEF Under
  <2>4. /\ calls[c].path \in more
        /\ same = {q \in more : sameFile(q, calls[c].path)}
    BY <1>1, <2>1 DEF CheckedInv
  <2> HIDE DEF more, same
  <2>5. new \in Under /\ new.path = calls[c].path /\ new.checked = more /\ new.same = same
    BY <2>1, <2>3 DEF Under
  <2> HIDE DEF new
  <2> QED
    BY <1>1, <1>2, <2>2, <2>4, <2>5
<1>6. CASE Clear
  <2>1. listed' = <<>> /\ calls' = calls
    BY <1>6 DEF Clear
  <2>2. listed' \in Seq(Files) /\ Len(listed') <= MaxEntries /\ Apart(listed')
    BY <2>1, RecentListAssumption DEF Apart
  <2> QED
    BY <1>1, <2>1, <2>2 DEF RlInv, RlTypeOK, CheckedInv, Under
<1>7. CASE UNCHANGED rlVars
  BY <1>1, <1>7 DEF rlVars, RlInv, RlTypeOK, CheckedInv, Under, Apart
<1> QED
  BY <1>3, <1>4, <1>5, <1>6, <1>7 DEF RlNext

(* Entries that are apart have labels that tell them apart. *)
LEMMA LabelsAreApart ==
  ASSUME listed \in Seq(Files), Apart(listed)
  PROVE  LabelsTellApart
<1> DEFINE labels == Labels(listed)
           name(i) == <<listed[i].base, listed[i].sp>>
           named(i) == {j \in DOMAIN listed : name(j) = name(i)}
           dir(i) == parentSuffix(listed[i], LabelDepth(listed, named(i))).dir
<1>1. \A i \in DOMAIN listed :
         /\ listed[i] \in Files
         /\ listed[i] = [base |-> listed[i].base, sp |-> listed[i].sp, root |-> listed[i].root,
                         dirs |-> listed[i].dirs]
  BY RecentListAssumption DEF Files
<1>2. \A i \in DOMAIN listed :
        labels[i] = IF named(i) = {i} THEN name(i) ELSE name(i) \o dir(i)
  BY DEF Labels
<1>3. \A i \in DOMAIN listed : named(i) \in SUBSET (DOMAIN listed) /\ i \in named(i)
  OBVIOUS
<1>4. \A i \in DOMAIN listed : LabelDepth(listed, named(i)) \in Nat \ {0}
  <2> HIDE DEF named
  <2> QED
    BY <1>3, WidenedEnough
<1>5. \A i \in DOMAIN listed : \E A : dir(i) \in Seq(A)
  <2> SUFFICES ASSUME NEW i \in DOMAIN listed PROVE \E A : dir(i) \in Seq(A)
    OBVIOUS
  <2> HIDE DEF named
  <2>1. dir(i) \in Seq(ToSet(listed[i].dirs) \cup {listed[i].root})
    BY <1>1, <1>4, SuffixIs
  <2> QED
    BY <2>1
<1>6. \A i \in DOMAIN listed : labels[i][1] = listed[i].base /\ labels[i][2] = listed[i].sp
  <2> SUFFICES ASSUME NEW i \in DOMAIN listed
               PROVE  labels[i][1] = listed[i].base /\ labels[i][2] = listed[i].sp
    OBVIOUS
  <2>1. name(i)[1] = listed[i].base /\ name(i)[2] = listed[i].sp
    OBVIOUS
  <2>2. (name(i) \o dir(i))[1] = listed[i].base /\ (name(i) \o dir(i))[2] = listed[i].sp
    <3>1. PICK A : dir(i) \in Seq(A)
      BY <1>5
    <3> HIDE DEF dir
    <3> QED
      BY <3>1, Prefixed
  <2> HIDE DEF labels, name, named, dir
  <2> QED
    BY <1>2, <2>1, <2>2
<1>7. ASSUME NEW i \in DOMAIN listed, NEW j \in DOMAIN listed, i # j, labels[i] = labels[j]
      PROVE  listed[i].root # listed[j].root /\ [listed[i] EXCEPT !.root = listed[j].root] = listed[j]
  <2> DEFINE idx == named(i)
             D == LabelDepth(listed, idx)
             p == listed[i]
             q == listed[j]
  <2>1. p.base = q.base /\ p.sp = q.sp
    BY <1>6, <1>7
  <2>2. named(j) = idx /\ i \in idx /\ j \in idx
    BY <2>1
  <2>3. labels[i] = name(i) \o dir(i) /\ labels[j] = name(i) \o dir(j)
    <3>1. name(i) = name(j)
      BY <2>1
    <3>2. idx # {i} /\ named(j) # {j}
      <4> HIDE DEF named
      <4> QED
        BY <1>7, <2>2
    <3> HIDE DEF labels, name, named, dir
    <3> QED
      BY <1>2, <3>1, <3>2
  <2>4. dir(i) = parentSuffix(p, D).dir /\ dir(j) = parentSuffix(q, D).dir
    BY <2>2
  <2>5. D \in Nat \ {0} /\ p \in Files /\ q \in Files
    BY <1>1, <1>4
  <2>6. parentSuffix(p, D).dir = parentSuffix(q, D).dir
    <3> DEFINE A == (ToSet(p.dirs) \cup {p.root}) \cup (ToSet(q.dirs) \cup {q.root})
    <3> HIDE DEF D, p, q
    <3>1. /\ parentSuffix(p, D).dir \in Seq(ToSet(p.dirs) \cup {p.root})
          /\ parentSuffix(q, D).dir \in Seq(ToSet(q.dirs) \cup {q.root})
      BY <2>5, SuffixIs
    <3>2. parentSuffix(p, D).dir \in Seq(A) /\ parentSuffix(q, D).dir \in Seq(A)
      BY <3>1
    <3>3. name(i) \o parentSuffix(p, D).dir = name(i) \o parentSuffix(q, D).dir
      <4> HIDE DEF labels, name, dir
      <4> QED
        BY <1>7, <2>3, <2>4
    <3> HIDE DEF A
    <3> QED
      BY <3>2, <3>3, PrefixedSame
  <2>7. ~parentSuffix(p, D).more /\ ~parentSuffix(q, D).more
    <3>1. /\ idx \in SUBSET (DOMAIN listed) /\ idx # {}
          /\ i \in idx /\ j \in idx
      BY <2>2
    <3> HIDE DEF idx, named
    <3>2. \/ \A k, l \in idx : k # l => parentSuffix(listed[k], D).dir # parentSuffix(listed[l], D).dir
          \/ \A k \in idx : ~parentSuffix(listed[k], D).more
      BY <3>1, WidenedEnough
    <3> HIDE DEF D
    <3> QED
      BY <1>7, <2>6, <3>1, <3>2
  <2>8. p # q
    BY <1>7, SameFileFacts DEF Apart
  <2>9. /\ p = [base |-> p.base, sp |-> p.sp, root |-> p.root, dirs |-> p.dirs]
        /\ q = [base |-> q.base, sp |-> q.sp, root |-> q.root, dirs |-> q.dirs]
    BY <1>1
  <2>10. p.dirs = q.dirs
    <3> HIDE DEF D, p, q
    <3>1. /\ parentSuffix(p, D).dir = IF D = Len(p.dirs) THEN p.dirs ELSE <<p.root>> \o p.dirs
          /\ parentSuffix(q, D).dir = IF D = Len(q.dirs) THEN q.dirs ELSE <<q.root>> \o q.dirs
      BY <2>5, <2>7, SuffixIs
    <3> QED
      BY <2>5, <2>6, <3>1, RootLeads
  <2> HIDE DEF p, q
  <2>11. p.root # q.root
    BY <2>1, <2>8, <2>9, <2>10
  <2>12. [p EXCEPT !.root = q.root] = q
    BY <2>1, <2>9, <2>10
  <2> QED
    BY <2>11, <2>12 DEF p, q
<1> QED
  BY <1>7 DEF LabelsTellApart

(* What the list keeps true is what the menu relies on. *)
LEMMA RlInvIsSound == RlInv => RecentListSound
BY LabelsAreApart DEF RlInv, RlTypeOK, RecentListSound, Apart

(* RecentListSound holds whatever the stored list, the paths, the disk and
   the calls of Add, Remove and Clear that run at once, for every bound
   (internal/recentfiles/recentfiles.go): no two entries name one file, the
   list stays within its bound, and the labels of the menu tell its entries
   apart. *)
THEOREM RecentListIsSound == RlSpec => []RecentListSound
<1>1. RlInit => RlInv
  BY RlInitInv
<1>2. RlInv /\ [RlNext]_rlVars => RlInv'
  BY RlNextInv
<1>3. RlInv => RecentListSound
  BY RlInvIsSound
<1> QED
  BY <1>1, <1>2, <1>3, PTL DEF RlSpec
=============================================================================
