------------------------- MODULE UpdateCheckProofs -------------------------
(***************************************************************************)
(* The update check for any number of commands, releases and checks and    *)
(* any TTL: what the user is told is backed by a page within the TTL,      *)
(* retries stay a TTL apart, an answer that came in time is written, and   *)
(* the app's startup check only skips the server when that hides nothing   *)
(* older than the TTL.                                                     *)
(***************************************************************************)
EXTENDS UpdateCheck, TLAPS

HistoryTypeOK ==
    /\ pub \in [1..MaxVersion -> Times]
    /\ highs \in [1..MaxTime -> SUBSET Versions]
    /\ tried \subseteq Commands /\ gone \in [Commands -> SUBSET Commands]

Published(v, pb) == v = 0 \/ pb[v] # 0

(* A snapshot that says nothing the pages up to time c, with the history hs, *)
(* did not say: its release was published, and a page of the time it         *)
(* succeeded listed nothing newer.                                           *)
BackedBy(s, c, pb, hs) ==
    /\ s.checked <= c /\ s.succeeded <= c
    /\ Published(s.latest, pb)
    /\ s.succeeded # 0 => \E h \in hs[s.succeeded] : h <= s.latest

Backed(s) == BackedBy(s, clock, pub, highs)

(* The server's pages. *)
ServerInv ==
    /\ first \in highs[clock] /\ first <= all /\ Published(first, pub) /\ Published(all, pub)
    /\ \A v \in 1..MaxVersion : pub[v] <= clock /\ (pub[v] # 0 => v <= all)

(* The app's walk misses only what was published in its own tick, and so     *)
(* does the record it leaves.                                                *)
AppInv ==
    /\ low <= all /\ Published(low, pub)
    /\ app = "walking" =>
        /\ \E h \in highs[clock] : h <= low
        /\ \A v \in 1..MaxVersion : pub[v] # 0 /\ pub[v] < clock => v <= low
    /\ \A v \in 1..MaxVersion :
        pub[v] # 0 /\ pub[v] < rec["app"].succeeded => v <= rec["app"].latest

(* The records, and the copies of them that commands hold; while an answer   *)
(* is being recorded the copy holds the answer.                              *)
RecordsInv ==
    /\ \A s \in Surfaces : Backed(rec[s])
    /\ \A p \in Commands : Backed(own[p]) /\ Backed(peer[p])
    /\ \A p \in Commands :
        IF refresh[p] = "answered"
        THEN Published(snap[p].latest, pub) /\ snap[p].latest \in highs[now[p]]
        ELSE Backed(snap[p])
    /\ \A p \in Commands :
        main[p] = "running" /\ refresh[p] \in {"store", "success"} => snap[p].checked = now[p]

(* A command's own times: the clock does not pass it while it is busy. *)
CommandInv ==
    \A p \in Commands :
        /\ main[p] = "idle" => refresh[p] = "none" /\ gone[p] = {} /\ p \notin tried
        /\ now[p] <= clock /\ (main[p] # "idle" => now[p] >= 1)
        /\ Busy(p) => now[p] = clock
        /\ main[p] # "exited" => printed[p] = Nothing

(* No attempt that was written is newer than the record says, whoever wrote  *)
(* last, and a command that was through before another started stays so.     *)
ThrottleInv ==
    /\ \A q \in tried : refresh[q] # "none" /\ now[q] <= rec["cli"].checked
    /\ \A p \in Commands : \A q \in gone[p] : main[q] # "idle" /\ ~Busy(q)
    /\ \A p \in Commands : form[p] = "command" /\ refresh[p] # "none" =>
        \A q \in tried \cap gone[p] : now[p] - now[q] >= TTL

TypesInv == TypeOK /\ HistoryTypeOK

(* The inductive invariant. *)
IInv ==
    /\ TypesInv /\ ServerInv /\ AppInv /\ RecordsInv /\ CommandInv /\ ThrottleInv
    /\ AnswerKept /\ AnswersAreBacked

-----------------------------------------------------------------------------
(* Snapshots.                                                              *)

(* The zero snapshot says nothing. *)
LEMMA ZeroBacked ==
    ASSUME NEW c \in Nat, NEW pb, NEW hs
    PROVE  Zero \in Snapshot /\ BackedBy(Zero, c, pb, hs)
  BY ConstantsAssumption DEF Zero, Snapshot, Times, Versions, BackedBy, Published

(* What was backed stays so while time passes and releases are published. *)
LEMMA BackedKept ==
    ASSUME NEW s \in Snapshot, NEW c \in Times, NEW c2 \in Times, NEW pb, NEW pb2, NEW hs, NEW hs2,
           BackedBy(s, c, pb, hs), c <= c2,
           \A v \in 1..MaxVersion : pb[v] # 0 => pb2[v] # 0,
           \A t \in 1..c : hs[t] \subseteq hs2[t]
    PROVE  BackedBy(s, c2, pb2, hs2)
<1>1. /\ s.checked \in Nat /\ s.succeeded \in Nat /\ s.latest \in Versions
      /\ c \in Nat /\ c2 \in Nat
  BY ConstantsAssumption DEF Snapshot, Times
<1>2. s.checked <= c2 /\ s.succeeded <= c2
  BY <1>1 DEF BackedBy
<1>3. Published(s.latest, pb2)
  BY <1>1, ConstantsAssumption DEF BackedBy, Published, Versions
<1>4. ASSUME s.succeeded # 0 PROVE \E h \in hs2[s.succeeded] : h <= s.latest
  BY <1>1, <1>4 DEF BackedBy
<1> QED
  BY <1>2, <1>3, <1>4 DEF BackedBy

(* RecordAttempt changes the time of the last check only. *)
LEMMA AttemptedBacked ==
    ASSUME NEW s \in Snapshot, NEW at \in Times, NEW c \in Nat, NEW pb, NEW hs,
           BackedBy(s, c, pb, hs), at <= c
    PROVE  /\ Attempted(s, at) \in Snapshot /\ Attempted(s, at).checked = at
           /\ BackedBy(Attempted(s, at), c, pb, hs)
<1>1. /\ Attempted(s, at) \in Snapshot /\ Attempted(s, at).checked = at
      /\ Attempted(s, at).succeeded = s.succeeded /\ Attempted(s, at).latest = s.latest
  BY DEF Attempted, Snapshot
<1> QED
  BY <1>1 DEF BackedBy

(* RecordSuccess replaces every field, the release only when there is one. *)
LEMMA SucceededFields ==
    ASSUME NEW s \in Snapshot, NEW at \in Times, NEW l \in Versions
    PROVE  /\ Succeeded(s, at, l) \in Snapshot
           /\ Succeeded(s, at, l).checked = at /\ Succeeded(s, at, l).succeeded = at
           /\ Succeeded(s, at, l).latest = IF l = 0 THEN s.latest ELSE l
  BY DEF Succeeded, Snapshot

(* A record of an answer that a page of its own tick gave. *)
LEMMA AnswerBacked ==
    ASSUME NEW s \in Snapshot, NEW r \in Snapshot, NEW l \in Versions, NEW c \in Nat, NEW pb, NEW hs,
           BackedBy(s, c, pb, hs), r.checked <= c, r.succeeded <= c,
           r.latest = (IF l = 0 THEN s.latest ELSE l),
           Published(l, pb), \E h \in hs[r.succeeded] : h \in Nat /\ h <= l
    PROVE  BackedBy(r, c, pb, hs)
<1>1. s.latest \in Nat /\ l \in Nat
  BY ConstantsAssumption DEF Snapshot, Versions
<1>2. Published(r.latest, pb)
  BY DEF BackedBy
<1>3. \E h \in hs[r.succeeded] : h <= r.latest
  BY <1>1
<1> QED
  BY <1>2, <1>3 DEF BackedBy

(* What is told is the newer of two releases. *)
LEMMA NewerLatest ==
    ASSUME NEW a \in Snapshot, NEW b \in Snapshot
    PROVE  /\ Newer(a, b) \in {a, b}
           /\ a.latest <= Newer(a, b).latest /\ b.latest <= Newer(a, b).latest
           /\ a.latest \in Nat /\ b.latest \in Nat
<1>1. a.latest \in Nat /\ b.latest \in Nat
  BY ConstantsAssumption DEF Snapshot, Versions
<1> QED
  BY <1>1 DEF Newer

-----------------------------------------------------------------------------
(* Nothing is published, recorded or started at first. *)
LEMMA InitIInv == Init => IInv
<1> SUFFICES ASSUME Init PROVE IInv
  OBVIOUS
<1> USE ConstantsAssumption
<1>1. Zero \in Snapshot /\ BackedBy(Zero, clock, pub, highs)
  BY ZeroBacked DEF Init
<1>2. TypeOK
  <2>1. clock \in 1..MaxTime /\ 0 \in Versions /\ appChecks \in 0..MaxApp /\ 0 \in Times
    BY DEF Init, Versions, Times
  <2> QED
    BY <1>1, <2>1 DEF Init, TypeOK, Nothing
<1>3. HistoryTypeOK
  BY DEF Init, HistoryTypeOK, Times, Versions
<1>4. ServerInv
  BY DEF Init, ServerInv, Published
<1>5. AppInv
  BY DEF Init, AppInv, Published, Surfaces, Zero
<1>6. RecordsInv
  BY <1>1 DEF Init, RecordsInv, Backed
<1>7. CommandInv /\ ThrottleInv
  BY DEF Init, CommandInv, ThrottleInv, Busy
<1>8. AnswerKept /\ AnswersAreBacked
  BY DEF Init, AnswerKept, AnswersAreBacked, Nothing, Current
<1> QED
  BY <1>2, <1>3, <1>4, <1>5, <1>6, <1>7, <1>8 DEF IInv, TypesInv

(* Time passes while nobody is busy. *)
LEMMA TickStep ==
    ASSUME IInv, Tick
    PROVE  IInv'
<1> USE ConstantsAssumption
<1>1. /\ clock' = clock + 1 /\ clock < MaxTime /\ app # "walking" /\ \A p \in Commands : ~Busy(p)
      /\ highs' = [highs EXCEPT ![clock + 1] = {first}]
      /\ UNCHANGED <<all, first, pub, rec, command, desktop>>
  BY DEF Tick, record
<1>2. /\ clock \in 1..MaxTime /\ clock \in Times /\ clock' \in Times /\ clock <= clock' /\ clock' \in 1..MaxTime
      /\ \A t \in 1..clock : highs'[t] = highs[t]
      /\ highs'[clock + 1] = {first} /\ HistoryTypeOK'
  <2>1. clock \in 1..MaxTime /\ clock + 1 \in 1..MaxTime /\ first \in Versions /\ HistoryTypeOK
    BY <1>1 DEF IInv, TypesInv, TypeOK
  <2>2. highs' \in [1..MaxTime -> SUBSET Versions] /\ highs'[clock + 1] = {first}
        /\ \A t \in 1..clock : highs'[t] = highs[t]
    BY <1>1, <2>1 DEF HistoryTypeOK
  <2> QED
    BY <1>1, <2>1, <2>2 DEF HistoryTypeOK, Times, command
<1>3. TypeOK'
  BY <1>1, <1>2 DEF IInv, TypesInv, TypeOK, command, desktop
<1>4. ServerInv'
  BY <1>1, <1>2 DEF IInv, ServerInv, TypesInv, HistoryTypeOK, Times
<1>5. AppInv'
  BY <1>1 DEF IInv, AppInv, desktop
<1>6. ASSUME NEW s \in Snapshot, BackedBy(s, clock, pub, highs) PROVE BackedBy(s, clock', pub', highs')
  <2>1. \A v \in 1..MaxVersion : pub[v] # 0 => pub'[v] # 0
    BY <1>1
  <2>2. \A t \in 1..clock : highs[t] \subseteq highs'[t]
    BY <1>2
  <2> QED
    BY <1>2, <1>6, <2>1, <2>2, BackedKept
<1>7. RecordsInv'
  <2>1. UNCHANGED <<rec, own, peer, snap, main, refresh, now>>
    BY <1>1 DEF command
  <2>2. \A p \in Commands : refresh[p] # "answered"
    BY <1>1 DEF IInv, AnswerKept, Busy, TypesInv, TypeOK
  <2>3. \A p \in Commands : own[p] \in Snapshot /\ peer[p] \in Snapshot /\ snap[p] \in Snapshot
    BY DEF IInv, TypesInv, TypeOK
  <2>4. \A s \in Surfaces : rec[s] \in Snapshot
    BY DEF IInv, TypesInv, TypeOK
  <2> QED
    BY <1>6, <2>1, <2>2, <2>3, <2>4 DEF IInv, RecordsInv, Backed
<1>8. CommandInv' /\ ThrottleInv' /\ AnswerKept'
  <2>1. \A p \in Commands : now[p] <= clock' /\ ~Busy(p)'
    BY <1>1, <1>2 DEF IInv, CommandInv, TypesInv, TypeOK, Times, Busy, command
  <2> QED
    BY <1>1, <2>1 DEF IInv, CommandInv, ThrottleInv, AnswerKept, Busy, command
<1>9. AnswersAreBacked'
  <2>1. ASSUME NEW p \in Commands, NEW t \in 1..MaxTime, Within(t, now[p])
        PROVE  highs'[t] = highs[t]
    <3>1. t <= now[p] /\ now[p] <= clock /\ now[p] \in Nat
      BY <2>1 DEF Within, IInv, CommandInv, TypesInv, TypeOK, Times
    <3> QED
      BY <1>2, <3>1
  <2> QED
    BY <1>1, <2>1 DEF IInv, AnswersAreBacked, command, Within
<1> QED
  BY <1>2, <1>3, <1>4, <1>5, <1>7, <1>8, <1>9 DEF IInv, TypesInv

(* A release is published: what was said before stays backed. *)
LEMMA PublishStep ==
    ASSUME IInv, NEW v \in 1..MaxVersion, Publish(v)
    PROVE  IInv'
<1> USE ConstantsAssumption
<1>1. /\ pub[v] = 0 /\ pub' = [pub EXCEPT ![v] = clock]
      /\ all' = IF v > all THEN v ELSE all
      /\ first' \in {v, IF v > first THEN v ELSE first}
      /\ highs' = [highs EXCEPT ![clock] = @ \cup {first'}]
      /\ UNCHANGED <<clock, rec, command, desktop>>
  BY DEF Publish, record
<1>2. /\ clock \in 1..MaxTime /\ clock \in Times /\ clock \in Nat /\ clock # 0
      /\ all \in Nat /\ first \in Nat /\ v \in Versions /\ v \in Nat /\ v # 0
      /\ all' \in Versions /\ first' \in Versions /\ first' \in Nat /\ all' \in Nat
      /\ HistoryTypeOK /\ TypeOK
  BY <1>1 DEF IInv, TypesInv, TypeOK, Versions, Times
<1>3. /\ pub' \in [1..MaxVersion -> Times] /\ pub'[v] = clock
      /\ \A w \in 1..MaxVersion : w # v => pub'[w] = pub[w]
      /\ \A w \in 1..MaxVersion : pub[w] # 0 => pub'[w] # 0 /\ w # v
  BY <1>1, <1>2 DEF HistoryTypeOK
<1>4. /\ highs' \in [1..MaxTime -> SUBSET Versions] /\ first' \in highs'[clock]
      /\ \A t \in 1..MaxTime : highs[t] \subseteq highs'[t]
  BY <1>1, <1>2 DEF HistoryTypeOK
<1>5. TypeOK' /\ HistoryTypeOK'
  BY <1>1, <1>2, <1>3, <1>4 DEF TypeOK, HistoryTypeOK, command, desktop
<1>6. \A w \in Versions : Published(w, pub) => Published(w, pub')
  BY <1>3 DEF Published, Versions
<1>7. ServerInv'
  <2>1. first' <= all'
    BY <1>1, <1>2 DEF IInv, ServerInv
  <2>2. Published(first', pub') /\ Published(all', pub')
    <3>1. Published(v, pub')
      BY <1>2, <1>3 DEF Published
    <3> QED
      BY <1>1, <1>2, <1>6, <3>1 DEF IInv, ServerInv, TypeOK
  <2>3. ASSUME NEW w \in 1..MaxVersion PROVE pub'[w] <= clock /\ (pub'[w] # 0 => w <= all')
    BY <1>1, <1>2, <1>3 DEF IInv, ServerInv
  <2> QED
    BY <1>1, <1>4, <2>1, <2>2, <2>3 DEF ServerInv
<1>8. AppInv'
  <2>1. low <= all' /\ Published(low, pub')
    <3>1. low \in Versions /\ low \in Nat /\ low <= all /\ Published(low, pub)
      BY <1>2 DEF IInv, AppInv, TypeOK, Versions
    <3>2. all <= all'
      BY <1>1, <1>2
    <3>3. Published(low, pub')
      BY <1>6, <3>1
    <3> QED
      BY <1>2, <3>1, <3>2, <3>3
  <2>2. rec["app"].succeeded <= clock
    BY DEF IInv, RecordsInv, Backed, BackedBy, Surfaces
  <2>3. rec["app"].succeeded \in Nat
    BY <1>2 DEF TypeOK, Snapshot, Times, Surfaces
  <2>4. ASSUME NEW w \in 1..MaxVersion, pub'[w] < clock \/ pub'[w] < rec["app"].succeeded
        PROVE  pub'[w] = pub[w]
    BY <1>2, <1>3, <2>2, <2>3, <2>4
  <2> QED
    BY <1>1, <1>2, <1>4, <2>1, <2>4 DEF IInv, AppInv, desktop
<1>9. ASSUME NEW s \in Snapshot, BackedBy(s, clock, pub, highs) PROVE BackedBy(s, clock', pub', highs')
  <2>1. \A t \in 1..clock : highs[t] \subseteq highs'[t]
    BY <1>2, <1>4
  <2>2. \A w \in 1..MaxVersion : pub[w] # 0 => pub'[w] # 0
    BY <1>3
  <2>3. clock' \in Times /\ clock <= clock'
    BY <1>1, <1>2
  <2> QED
    BY <1>2, <1>9, <2>1, <2>2, <2>3, BackedKept
<1>10. RecordsInv'
  <2>1. UNCHANGED <<rec, own, peer, snap, main, refresh, now>>
    BY <1>1 DEF command
  <2>2. \A p \in Commands : own[p] \in Snapshot /\ peer[p] \in Snapshot /\ snap[p] \in Snapshot
    BY <1>2 DEF TypeOK
  <2>3. \A s \in Surfaces : rec[s] \in Snapshot
    BY <1>2 DEF TypeOK
  <2>4. ASSUME NEW p \in Commands, refresh[p] = "answered"
        PROVE  Published(snap[p].latest, pub') /\ snap[p].latest \in highs'[now[p]]
    <3>1. snap[p].latest \in Versions
      BY <2>2 DEF Snapshot
    <3>2. main[p] # "idle" /\ now[p] \in 1..MaxTime
      BY <1>2, <2>4 DEF IInv, CommandInv, TypeOK, Times
    <3> QED
      BY <1>4, <1>6, <2>4, <3>1, <3>2 DEF IInv, RecordsInv
  <2> QED
    BY <1>9, <2>1, <2>2, <2>3, <2>4 DEF IInv, RecordsInv, Backed
<1>11. CommandInv' /\ ThrottleInv' /\ AnswerKept'
  BY <1>1 DEF IInv, CommandInv, ThrottleInv, AnswerKept, Busy, command
<1>12. AnswersAreBacked'
  BY <1>1, <1>3, <1>4 DEF IInv, AnswersAreBacked, command
<1> QED
  BY <1>5, <1>7, <1>8, <1>10, <1>11, <1>12 DEF IInv, TypesInv

(* A record is lost: nothing is said any more, and nothing counts as tried. *)
LEMMA LoseStep ==
    ASSUME IInv, NEW s \in Surfaces, LoseRecord(s)
    PROVE  IInv'
<1> USE ConstantsAssumption
<1>1. /\ rec' = [rec EXCEPT ![s] = Zero]
      /\ tried' = IF s = "cli" THEN {} ELSE tried
      /\ UNCHANGED <<server, main, refresh, form, own, snap, peer, now, expired, printed, gone, desktop>>
  BY DEF LoseRecord
<1>2. UNCHANGED <<clock, all, first, pub, highs, app, low, appChecks>>
  BY <1>1 DEF server, desktop
<1>3. Zero \in Snapshot /\ BackedBy(Zero, clock, pub, highs)
  BY ZeroBacked DEF IInv, TypesInv, TypeOK
<1>4. /\ rec' \in [Surfaces -> Snapshot] /\ \A x \in Surfaces : rec'[x] = IF x = s THEN Zero ELSE rec[x]
  BY <1>1, <1>3 DEF IInv, TypesInv, TypeOK
<1>5. TypeOK' /\ HistoryTypeOK'
  BY <1>1, <1>2, <1>4 DEF IInv, TypesInv, TypeOK, HistoryTypeOK
<1>6. ServerInv'
  BY <1>2 DEF IInv, ServerInv
<1>7. AppInv'
  <2>1. ~(\E v \in 1..MaxVersion : pub[v] # 0 /\ pub[v] < Zero.succeeded)
    BY DEF Zero, IInv, TypesInv, HistoryTypeOK, Times
  <2> QED
    BY <1>2, <1>4, <2>1 DEF IInv, AppInv, Surfaces
<1>8. RecordsInv'
  BY <1>1, <1>2, <1>3, <1>4 DEF IInv, RecordsInv, Backed
<1>9. CommandInv' /\ AnswerKept' /\ AnswersAreBacked'
  BY <1>1, <1>2 DEF IInv, CommandInv, AnswerKept, AnswersAreBacked, Busy
<1>10. ThrottleInv'
  BY <1>1, <1>4 DEF IInv, ThrottleInv, Busy, Surfaces
<1> QED
  BY <1>5, <1>6, <1>7, <1>8, <1>9, <1>10 DEF IInv, TypesInv

-----------------------------------------------------------------------------
(* The app reads, walks and writes its own record. *)
LEMMA AppSteps ==
    ASSUME IInv, AppSkips \/ AppWalks \/ AppWalkEnds \/ AppWalkFails
    PROVE  IInv'
<1> USE ConstantsAssumption
<1>1. UNCHANGED <<clock, all, first, pub, highs>> /\ UNCHANGED command
  BY DEF AppSkips, AppWalks, AppWalkEnds, AppWalkFails, server
<1>2. /\ TypeOK /\ HistoryTypeOK /\ clock \in Times /\ clock \in 1..MaxTime /\ clock \in Nat
      /\ low \in Nat /\ all \in Nat
  BY DEF IInv, TypesInv, TypeOK, Times, Versions
<1>3. app' \in {"idle", "walking"} /\ low' \in Versions /\ appChecks' \in 0..MaxApp
  <2>1. CASE AppSkips \/ AppWalks
    BY <1>2, <2>1 DEF AppSkips, AppWalks, MayCheck, TypeOK
  <2>2. CASE AppWalkEnds \/ AppWalkFails
    BY <1>2, <2>2 DEF AppWalkEnds, AppWalkFails, TypeOK
  <2> QED
    BY <2>1, <2>2
<1>4. /\ low' <= all /\ Published(low', pub)
      /\ app' = "walking" =>
            /\ \E h \in highs[clock] : h <= low'
            /\ \A v \in 1..MaxVersion : pub[v] # 0 /\ pub[v] < clock => v <= low'
  <2>1. CASE AppWalks
    BY <1>2, <2>1 DEF AppWalks, IInv, ServerInv
  <2>2. CASE AppSkips \/ AppWalkEnds \/ AppWalkFails
    <3>1. low' = low /\ (app' = "walking" => app = "walking")
      BY <2>2 DEF AppSkips, AppWalkEnds, AppWalkFails
    <3> QED
      BY <3>1 DEF IInv, AppInv
  <2> QED
    BY <2>1, <2>2
<1>5. /\ rec' \in [Surfaces -> Snapshot] /\ rec'["cli"] = rec["cli"]
      /\ BackedBy(rec'["app"], clock, pub, highs)
      /\ \A v \in 1..MaxVersion :
            pub[v] # 0 /\ pub[v] < rec'["app"].succeeded => v <= rec'["app"].latest
  <2>1. rec["app"] \in Snapshot /\ BackedBy(rec["app"], clock, pub, highs) /\ rec \in [Surfaces -> Snapshot]
    BY <1>2 DEF TypeOK, Surfaces, IInv, RecordsInv, Backed
  <2>2. CASE rec' = rec
    BY <2>1, <2>2 DEF IInv, AppInv
  <2>3. ASSUME AppWalkEnds, NEW seen \in {low, all},
               rec' = [rec EXCEPT !["app"] = Succeeded(rec["app"], clock, seen)]
        PROVE  <1>5!:
    <3> DEFINE r == Succeeded(rec["app"], clock, seen)
    <3>1. app = "walking"
      BY <2>3 DEF AppWalkEnds
    <3>2. PICK h \in highs[clock] : h <= low
      BY <3>1 DEF IInv, AppInv
    <3>3. /\ low <= all /\ seen \in Versions /\ seen \in Nat /\ low <= seen /\ h \in Nat /\ h <= seen
          /\ Published(seen, pub)
      BY <1>2, <2>3, <3>2 DEF IInv, AppInv, ServerInv, TypeOK, HistoryTypeOK, Versions
    <3>4. /\ r \in Snapshot /\ r.succeeded = clock /\ r.latest = IF seen = 0 THEN rec["app"].latest ELSE seen
          /\ BackedBy(r, clock, pub, highs)
      <4>1. clock <= clock
        BY <1>2
      <4>2. \E k \in highs[clock] : k \in Nat /\ k <= seen
        BY <3>2, <3>3
      <4>3. clock \in Times /\ clock \in Nat /\ seen \in Versions /\ Published(seen, pub)
        BY <1>2, <3>3
      <4>4. /\ r \in Snapshot /\ r.checked = clock /\ r.succeeded = clock
            /\ r.latest = IF seen = 0 THEN rec["app"].latest ELSE seen
        BY <2>1, <4>3, SucceededFields
      <4> HIDE DEF r
      <4>5. BackedBy(r, clock, pub, highs)
        BY <2>1, <4>1, <4>2, <4>3, <4>4, AnswerBacked
      <4> QED
        BY <4>4, <4>5
    <3>5. ASSUME NEW v \in 1..MaxVersion, pub[v] # 0, pub[v] < clock PROVE v <= r.latest
      <4>1. v <= low
        BY <3>1, <3>5 DEF IInv, AppInv
      <4> QED
        BY <1>2, <3>3, <3>4, <4>1
    <3>6. rec' \in [Surfaces -> Snapshot] /\ rec'["app"] = r /\ rec'["cli"] = rec["cli"]
      <4> HIDE DEF r
      <4> QED
        BY <2>1, <2>3, <3>4 DEF Surfaces, r
    <3> QED
      BY <3>4, <3>5, <3>6
  <2> QED
    BY <2>2, <2>3 DEF AppSkips, AppWalks, AppWalkEnds, AppWalkFails, LatestStableSeen, record
<1>6. TypeOK' /\ HistoryTypeOK'
  BY <1>1, <1>2, <1>3, <1>5 DEF TypeOK, HistoryTypeOK, command
<1>7. ServerInv' /\ AppInv'
  BY <1>1, <1>4, <1>5 DEF IInv, ServerInv, AppInv
<1>8. RecordsInv'
  BY <1>1, <1>5 DEF IInv, RecordsInv, Backed, command, Surfaces
<1>9. CommandInv' /\ ThrottleInv' /\ AnswerKept' /\ AnswersAreBacked'
  BY <1>1, <1>5 DEF IInv, CommandInv, ThrottleInv, AnswerKept, AnswersAreBacked, Busy, command
<1> QED
  BY <1>6, <1>7, <1>8, <1>9 DEF IInv, TypesInv

-----------------------------------------------------------------------------
(* A step of one command.                                                  *)

(* What the invariant says of one command: its copies, times and words. *)
SoundCommand(p) ==
    /\ Backed(own[p]) /\ Backed(peer[p])
    /\ IF refresh[p] = "answered"
       THEN Published(snap[p].latest, pub) /\ snap[p].latest \in highs[now[p]]
       ELSE Backed(snap[p])
    /\ main[p] = "running" /\ refresh[p] \in {"store", "success"} => snap[p].checked = now[p]
    /\ main[p] = "idle" => refresh[p] = "none" /\ gone[p] = {} /\ p \notin tried
    /\ now[p] <= clock /\ (main[p] # "idle" => now[p] >= 1)
    /\ Busy(p) => now[p] = clock
    /\ main[p] # "exited" => printed[p] = Nothing
    /\ main[p] = "exited" => refresh[p] \notin {"answered", "success"}

(* What it may have told the user. *)
SoundWords(p) ==
    /\ printed[p] \in 1..MaxVersion => printed[p] > Installed /\ pub[printed[p]] # 0
    /\ printed[p] = Current =>
        \E t \in 1..MaxTime : Within(t, now[p]) /\ \E h \in highs[t] : h <= Installed

(* The commands other than p do not move. *)
OthersStay(p) ==
    \A q \in Commands \ {p} :
        /\ main'[q] = main[q] /\ refresh'[q] = refresh[q] /\ form'[q] = form[q]
        /\ own'[q] = own[q] /\ snap'[q] = snap[q] /\ peer'[q] = peer[q]
        /\ now'[q] = now[q] /\ printed'[q] = printed[q] /\ gone'[q] = gone[q]
        /\ (q \in tried' <=> q \in tried)

(* A record a step of a command leaves: the old one, or a backed one of now. *)
CliRecordKept ==
    /\ rec'["app"] = rec["app"]
    /\ \/ rec'["cli"] = rec["cli"]
       \/ BackedBy(rec'["cli"], clock, pub, highs) /\ rec'["cli"].checked = clock

(* The part of the throttle that is p's: it is through only once, what it    *)
(* wrote is recorded, and it did not ask too early.                          *)
ThrottleKept(p) ==
    /\ main[p] # "idle" => now'[p] = now[p]
    /\ main[p] # "idle" /\ ~Busy(p) => main'[p] # "idle" /\ ~Busy(p)' /\ (p \in tried' => p \in tried)
    /\ p \in tried' => refresh'[p] # "none" /\ now'[p] <= rec'["cli"].checked
    /\ \A q \in gone'[p] : main[q] # "idle" /\ ~Busy(q)
    /\ form'[p] = "command" /\ refresh'[p] # "none" =>
        \A q \in tried' \cap gone'[p] : now'[p] - now'[q] >= TTL

(* IInv, one command at a time. *)
LEMMA CommandOfIInv ==
    ASSUME IInv, NEW p \in Commands
    PROVE  SoundCommand(p) /\ SoundWords(p)
  BY DEF IInv, RecordsInv, CommandInv, AnswerKept, AnswersAreBacked, SoundCommand, SoundWords

(* What a step of p has to show. *)
LEMMA StepOfOne ==
    ASSUME IInv, NEW p \in Commands, TypesInv', UNCHANGED <<server, desktop>>, OthersStay(p),
           CliRecordKept, ThrottleKept(p), SoundCommand(p)', SoundWords(p)'
    PROVE  IInv'
<1> USE ConstantsAssumption
<1>1. UNCHANGED <<clock, all, first, pub, highs, app, low>> /\ rec'["app"] = rec["app"]
  BY DEF server, desktop, CliRecordKept
<1>2. ServerInv' /\ AppInv'
  BY <1>1 DEF IInv, ServerInv, AppInv
<1>3. ASSUME NEW q \in Commands PROVE SoundCommand(q)' /\ SoundWords(q)'
  <2>1. CASE q = p
    BY <2>1
  <2>2. CASE q # p
    BY <1>1, <2>2, CommandOfIInv DEF OthersStay, SoundCommand, SoundWords, Busy, Backed
  <2> QED
    BY <2>1, <2>2
<1>4. \A s \in Surfaces : Backed(rec[s])'
  BY <1>1 DEF IInv, RecordsInv, Backed, CliRecordKept, Surfaces
<1>5. RecordsInv' /\ CommandInv' /\ AnswerKept' /\ AnswersAreBacked'
  BY <1>3, <1>4 DEF RecordsInv, CommandInv, AnswerKept, AnswersAreBacked, SoundCommand, SoundWords
<1>6. ThrottleInv'
  <2>1. ASSUME NEW q \in tried' PROVE refresh'[q] # "none" /\ now'[q] <= rec'["cli"].checked
    <3>1. CASE q = p
      BY <2>1, <3>1 DEF ThrottleKept
    <3>2. CASE q # p
      <4>1. q \in Commands /\ q \in tried /\ refresh'[q] = refresh[q] /\ now'[q] = now[q]
        BY <2>1, <3>2 DEF TypesInv, HistoryTypeOK, OthersStay
      <4>2. now[q] <= clock /\ refresh[q] # "none" /\ now[q] <= rec["cli"].checked
        BY <4>1 DEF IInv, CommandInv, ThrottleInv
      <4> QED
        BY <4>1, <4>2 DEF CliRecordKept
    <3> QED
      BY <3>1, <3>2
  <2>2. ASSUME NEW r \in Commands, NEW q \in gone'[r]
        PROVE  q \in Commands /\ main[q] # "idle" /\ ~Busy(q) /\ main'[q] # "idle" /\ ~Busy(q)'
    <3>1. q \in Commands
      BY <2>2 DEF TypesInv, HistoryTypeOK
    <3>2. main[q] # "idle" /\ ~Busy(q)
      <4>1. CASE r = p
        BY <4>1, <2>2 DEF ThrottleKept
      <4>2. CASE r # p
        BY <4>2, <2>2 DEF OthersStay, IInv, ThrottleInv
      <4> QED
        BY <4>1, <4>2
    <3> QED
      BY <3>1, <3>2 DEF ThrottleKept, OthersStay, Busy
  <2>3. ASSUME NEW r \in Commands, form'[r] = "command", refresh'[r] # "none",
               NEW q \in tried' \cap gone'[r]
        PROVE  now'[r] - now'[q] >= TTL
    <3>1. CASE r = p
      BY <2>3, <3>1 DEF ThrottleKept
    <3>2. CASE r # p
      <4>1. form[r] = "command" /\ refresh[r] # "none" /\ now'[r] = now[r] /\ q \in gone[r]
        BY <2>3, <3>2 DEF OthersStay
      <4>2. q \in tried /\ now'[q] = now[q]
        BY <2>2, <2>3 DEF ThrottleKept, OthersStay
      <4> QED
        BY <4>1, <4>2 DEF IInv, ThrottleInv
    <3> QED
      BY <3>1, <3>2
  <2> QED
    BY <2>1, <2>2, <2>3 DEF ThrottleInv
<1> QED
  BY <1>2, <1>5, <1>6 DEF IInv

(* A command's types, once and for all. *)
LEMMA CommandTypes ==
    ASSUME IInv, NEW p \in Commands
    PROVE  /\ own[p] \in Snapshot /\ snap[p] \in Snapshot /\ peer[p] \in Snapshot
           /\ rec["cli"] \in Snapshot /\ rec["app"] \in Snapshot
           /\ now[p] \in Times /\ now[p] \in Nat /\ clock \in Times /\ clock \in 1..MaxTime
           /\ BackedBy(rec["cli"], clock, pub, highs) /\ BackedBy(rec["app"], clock, pub, highs)
           /\ TypeOK /\ HistoryTypeOK
<1>1. TypeOK /\ HistoryTypeOK
  BY DEF IInv, TypesInv
<1>2. \A s \in Surfaces : BackedBy(rec[s], clock, pub, highs)
  BY DEF IInv, RecordsInv, Backed
<1> QED
  BY <1>1, <1>2, ConstantsAssumption DEF TypeOK, Surfaces, Times

(* The refresh reads, asks or is cut off; no file changes. *)
LEMMA RefreshMoves ==
    ASSUME IInv, NEW p \in Commands, main[p] = "running", refresh[p] # "none",
           UNCHANGED <<server, desktop, rec, main, form, own, peer, now, printed, tried, gone>>,
           NEW r \in {"attempt", "store", "ask", "answered", "success", "done"},
           refresh' = [refresh EXCEPT ![p] = r],
           r # "done" => Busy(p),
           NEW s \in Snapshot, snap' = [snap EXCEPT ![p] = s],
           expired' \in [Commands -> BOOLEAN],
           IF r = "answered" THEN Published(s.latest, pub) /\ s.latest \in highs[now[p]]
                             ELSE BackedBy(s, clock, pub, highs),
           r \in {"store", "success"} => s.checked = now[p],
           refresh[p] = "done" => r = "done"
    PROVE  IInv'
<1>1. UNCHANGED <<clock, all, first, pub, highs, app, low, appChecks>>
  BY DEF server, desktop
<1>2. TypeOK /\ HistoryTypeOK /\ now[p] \in Times /\ clock \in 1..MaxTime
  BY CommandTypes
<1>3. refresh'[p] = r /\ snap'[p] = s
      /\ \A q \in Commands \ {p} : refresh'[q] = refresh[q] /\ snap'[q] = snap[q]
  BY <1>2 DEF TypeOK
<1>4. TypesInv'
  <2>1. /\ refresh' \in [Commands -> {"none", "attempt", "store", "ask", "answered", "success", "done"}]
        /\ snap' \in [Commands -> Snapshot]
    BY <1>2 DEF TypeOK
  <2> QED
    BY <1>1, <1>2, <2>1 DEF TypesInv, TypeOK, HistoryTypeOK
<1>5. OthersStay(p) /\ CliRecordKept
  BY <1>3 DEF OthersStay, CliRecordKept
<1>6. SoundCommand(p)' /\ SoundWords(p)'
  <2>1. SoundCommand(p) /\ SoundWords(p)
    BY CommandOfIInv
  <2>2. SoundWords(p)'
    BY <1>1, <2>1 DEF SoundWords
  <2>3. Busy(p)' => Busy(p)
    BY <1>3 DEF Busy
  <2> QED
    BY <1>1, <1>3, <2>1, <2>2, <2>3 DEF SoundCommand, Backed
<1>7. ThrottleKept(p)
  <2>1. Busy(p)' => Busy(p)
    BY <1>3 DEF Busy
  <2>2. \A q \in gone[p] : main[q] # "idle" /\ ~Busy(q)
    BY DEF IInv, ThrottleInv
  <2>3. form[p] = "command" => \A q \in tried \cap gone[p] : now[p] - now[q] >= TTL
    BY DEF IInv, ThrottleInv
  <2>4. p \in tried => now[p] <= rec["cli"].checked
    BY DEF IInv, ThrottleInv
  <2> QED
    BY <1>3, <2>1, <2>2, <2>3, <2>4 DEF ThrottleKept
<1> QED
  BY <1>4, <1>5, <1>6, <1>7, StepOfOne

(* The attempt is prepared from the record of the moment. *)
LEMMA AttemptLoadsStep ==
    ASSUME IInv, NEW p \in Commands, AttemptLoads(p)
    PROVE  IInv'
<1> DEFINE s == Attempted(rec["cli"], now[p])
<1>1. /\ main[p] = "running" /\ refresh[p] = "attempt" /\ Busy(p)
      /\ refresh' = [refresh EXCEPT ![p] = "store"] /\ snap' = [snap EXCEPT ![p] = s]
      /\ UNCHANGED <<server, desktop, rec, main, form, own, peer, now, printed, tried, gone>>
      /\ expired' = expired
  BY DEF AttemptLoads, Runs, Busy, record
<1>2. s \in Snapshot /\ s.checked = now[p] /\ BackedBy(s, clock, pub, highs)
  <2>1. now[p] <= clock
    BY DEF IInv, CommandInv
  <2>2. clock \in Nat
    BY CommandTypes, ConstantsAssumption
  <2> QED
    BY <2>1, <2>2, CommandTypes, AttemptedBacked
<1>3. expired \in [Commands -> BOOLEAN]
  BY DEF IInv, TypesInv, TypeOK
<1> HIDE DEF s
<1> QED
  BY <1>1, <1>2, <1>3, RefreshMoves

(* The answer is a release the first page of this tick lists. *)
LEMMA ServerAnswersStep ==
    ASSUME IInv, NEW p \in Commands, ServerAnswers(p)
    PROVE  IInv'
<1> DEFINE s == [snap[p] EXCEPT !.latest = first]
<1>1. /\ main[p] = "running" /\ refresh[p] = "ask" /\ Busy(p)
      /\ refresh' = [refresh EXCEPT ![p] = "answered"]
      /\ UNCHANGED <<server, desktop, rec, main, form, own, peer, now, printed, tried, gone>>
      /\ expired' = expired
  BY DEF ServerAnswers, Runs, Busy, record
<1>2. snap' = [snap EXCEPT ![p] = s]
  BY CommandTypes DEF ServerAnswers
<1>3. s \in Snapshot /\ s.latest = first
  BY CommandTypes DEF TypeOK, Snapshot
<1>4. Published(first, pub) /\ first \in highs[now[p]]
  BY <1>1 DEF IInv, ServerInv, CommandInv
<1>5. expired \in [Commands -> BOOLEAN]
  BY DEF IInv, TypesInv, TypeOK
<1> HIDE DEF s
<1> QED
  BY <1>1, <1>2, <1>3, <1>4, <1>5, RefreshMoves

(* The call ends without an answer. *)
LEMMA ServerFailsStep ==
    ASSUME IInv, NEW p \in Commands, ServerFails(p)
    PROVE  IInv'
<1>1. /\ main[p] = "running" /\ refresh[p] = "ask" /\ Busy(p)
      /\ refresh' = [refresh EXCEPT ![p] = "done"]
      /\ UNCHANGED <<server, desktop, rec, main, form, own, peer, now, printed, tried, gone, expired, snap>>
  BY DEF ServerFails, Runs, Busy, record
<1>2. snap[p] \in Snapshot /\ snap' = [snap EXCEPT ![p] = snap[p]]
  BY <1>1, CommandTypes DEF TypeOK
<1>3. BackedBy(snap[p], clock, pub, highs)
  BY <1>1 DEF IInv, RecordsInv, Backed
<1>4. expired \in [Commands -> BOOLEAN]
  BY DEF IInv, TypesInv, TypeOK
<1> QED
  BY <1>1, <1>2, <1>3, <1>4, RefreshMoves

(* The answer is put into the record of the moment. *)
LEMMA SuccessLoadsStep ==
    ASSUME IInv, NEW p \in Commands, SuccessLoads(p)
    PROVE  IInv'
<1> DEFINE s == Succeeded(rec["cli"], now[p], snap[p].latest)
<1>1. /\ main[p] = "running" /\ refresh[p] = "answered" /\ Busy(p)
      /\ refresh' = [refresh EXCEPT ![p] = "success"] /\ snap' = [snap EXCEPT ![p] = s]
      /\ UNCHANGED <<server, desktop, rec, main, form, own, peer, now, printed, tried, gone>>
      /\ expired' = expired
  BY DEF SuccessLoads, Runs, Busy, record
<1>2. /\ rec["cli"] \in Snapshot /\ now[p] \in Times /\ snap[p].latest \in Versions /\ clock \in Nat
      /\ snap[p].latest \in Nat /\ BackedBy(rec["cli"], clock, pub, highs) /\ now[p] <= clock
  BY CommandTypes, ConstantsAssumption DEF Snapshot, Versions, IInv, CommandInv
<1>3. /\ s \in Snapshot /\ s.checked = now[p] /\ s.succeeded = now[p]
      /\ s.latest = IF snap[p].latest = 0 THEN rec["cli"].latest ELSE snap[p].latest
  BY <1>2, SucceededFields
<1>4. Published(snap[p].latest, pub) /\ snap[p].latest \in highs[now[p]]
  BY <1>1 DEF IInv, RecordsInv
<1>5. expired \in [Commands -> BOOLEAN]
  BY DEF IInv, TypesInv, TypeOK
<1> HIDE DEF s
<1>6. BackedBy(s, clock, pub, highs)
  <2>1. \E h \in highs[s.succeeded] : h \in Nat /\ h <= snap[p].latest
    BY <1>2, <1>3, <1>4
  <2> QED
    BY <1>2, <1>3, <1>4, <2>1, AnswerBacked
<1> QED
  BY <1>1, <1>3, <1>5, <1>6, RefreshMoves

(* The deadline passes. *)
LEMMA DeadlineStep ==
    ASSUME IInv, NEW p \in Commands, Deadline(p)
    PROVE  IInv'
<1>1. UNCHANGED <<clock, all, first, pub, highs, rec, main, refresh, form, own, snap, peer, now,
                  printed, tried, gone, app, low, appChecks>>
      /\ expired' \in [Commands -> BOOLEAN]
  BY DEF Deadline, server, desktop, record, IInv, TypesInv, TypeOK
<1>2. TypesInv'
  BY <1>1 DEF IInv, TypesInv, TypeOK, HistoryTypeOK
<1>3. ServerInv' /\ AppInv' /\ RecordsInv'
  BY <1>1 DEF IInv, ServerInv, AppInv, RecordsInv, Backed
<1>4. CommandInv' /\ ThrottleInv' /\ AnswerKept' /\ AnswersAreBacked'
  BY <1>1 DEF IInv, CommandInv, ThrottleInv, AnswerKept, AnswersAreBacked, Busy
<1> QED
  BY <1>2, <1>3, <1>4 DEF IInv

(* A command starts: everybody who is through is through before it, and an   *)
(* ordinary one refreshes only when the record's last attempt is a TTL old.  *)
LEMMA StartStep ==
    ASSUME IInv, NEW p \in Commands, StartNotice(p) \/ StartVersion(p)
    PROVE  IInv'
<1> USE ConstantsAssumption
<1> DEFINE through == {q \in Commands : main[q] # "idle" /\ ~Busy(q)}
<1>1. /\ main[p] = "idle" /\ main' = [main EXCEPT ![p] = "running"]
      /\ now' = [now EXCEPT ![p] = clock] /\ gone' = [gone EXCEPT ![p] = through]
      /\ UNCHANGED <<rec, snap, expired, printed, tried>> /\ UNCHANGED <<server, desktop>>
  BY DEF StartNotice, StartVersion, record
<1>2. UNCHANGED <<clock, all, first, pub, highs, app, low, appChecks>>
  BY <1>1 DEF server, desktop
<1>3. /\ TypeOK /\ HistoryTypeOK /\ clock \in Times /\ clock \in 1..MaxTime /\ clock \in Nat
      /\ rec["cli"] \in Snapshot /\ rec["app"] \in Snapshot
      /\ BackedBy(rec["cli"], clock, pub, highs) /\ BackedBy(rec["app"], clock, pub, highs)
  BY CommandTypes
<1>4. ConfirmedPeer(clock) \in Snapshot /\ BackedBy(ConfirmedPeer(clock), clock, pub, highs)
  BY <1>3, ZeroBacked DEF ConfirmedPeer
<1>5. \E o \in Snapshot, b \in Snapshot, f \in {"command", "version"}, r \in {"none", "attempt"} :
        /\ own' = [own EXCEPT ![p] = o] /\ BackedBy(o, clock, pub, highs)
        /\ peer' = [peer EXCEPT ![p] = b] /\ BackedBy(b, clock, pub, highs)
        /\ form' = [form EXCEPT ![p] = f] /\ refresh' = [refresh EXCEPT ![p] = r]
        /\ f = "command" /\ r # "none" => ~Fresh(rec["cli"], clock)
  <2>1. CASE StartNotice(p)
    <3>1. /\ own' = [own EXCEPT ![p] = rec["cli"]] /\ peer' = [peer EXCEPT ![p] = ConfirmedPeer(clock)]
          /\ form' = [form EXCEPT ![p] = "command"]
      BY <2>1 DEF StartNotice
    <3>2. CASE Fresh(rec["cli"], clock) \/ Confirmed(rec["app"], clock)
      <4>1. refresh' = [refresh EXCEPT ![p] = "none"]
        BY <2>1, <3>2 DEF StartNotice
      <4> QED
        BY <1>3, <1>4, <3>1, <4>1
    <3>3. CASE ~(Fresh(rec["cli"], clock) \/ Confirmed(rec["app"], clock))
      <4>1. refresh' = [refresh EXCEPT ![p] = "attempt"]
        BY <2>1, <3>3 DEF StartNotice
      <4> QED
        BY <1>3, <1>4, <3>1, <3>3, <4>1
    <3> QED
      BY <3>2, <3>3
  <2>2. CASE StartVersion(p)
    <3>1. /\ own' = [own EXCEPT ![p] = own[p]] /\ peer' = [peer EXCEPT ![p] = peer[p]]
          /\ form' = [form EXCEPT ![p] = "version"] /\ refresh' = [refresh EXCEPT ![p] = "attempt"]
      BY <1>3, <2>2 DEF StartVersion, TypeOK
    <3>2. BackedBy(own[p], clock, pub, highs) /\ BackedBy(peer[p], clock, pub, highs)
      BY DEF IInv, RecordsInv, Backed
    <3> QED
      BY <3>1, <3>2, CommandTypes
  <2> QED
    BY <2>1, <2>2
<1>6. PICK o \in Snapshot, b \in Snapshot, f \in {"command", "version"}, r \in {"none", "attempt"} : <1>5!(o, b, f, r)
  BY <1>5
<1>7. /\ main'[p] = "running" /\ now'[p] = clock /\ gone'[p] = through
      /\ own'[p] = o /\ peer'[p] = b /\ form'[p] = f /\ refresh'[p] = r
  BY <1>1, <1>3, <1>6 DEF TypeOK, HistoryTypeOK
<1>8. OthersStay(p) /\ CliRecordKept
  BY <1>1, <1>3, <1>6 DEF OthersStay, CliRecordKept, TypeOK, HistoryTypeOK
<1>9. TypesInv'
  <2>1. /\ main' \in [Commands -> {"idle", "running", "exited"}]
        /\ refresh' \in [Commands -> {"none", "attempt", "store", "ask", "answered", "success", "done"}]
        /\ form' \in [Commands -> {"command", "version"}]
    BY <1>1, <1>3, <1>6 DEF TypeOK
  <2>2. own' \in [Commands -> Snapshot] /\ peer' \in [Commands -> Snapshot] /\ now' \in [Commands -> Times]
    BY <1>1, <1>3, <1>6 DEF TypeOK
  <2>3. gone' \in [Commands -> SUBSET Commands]
    BY <1>1, <1>3 DEF HistoryTypeOK
  <2> QED
    BY <1>1, <1>2, <1>3, <2>1, <2>2, <2>3 DEF TypesInv, TypeOK, HistoryTypeOK
<1>10. SoundCommand(p) /\ SoundWords(p)
  BY CommandOfIInv
<1>11. refresh[p] = "none" /\ p \notin tried
  BY <1>1, <1>10 DEF SoundCommand
<1>12. SoundCommand(p)'
  <2>1. BackedBy(snap[p], clock, pub, highs)
    BY <1>10, <1>11 DEF SoundCommand, Backed
  <2>2. printed'[p] = Nothing /\ clock >= 1 /\ clock <= clock
    BY <1>1, <1>3, <1>10 DEF SoundCommand
  <2> QED
    BY <1>1, <1>2, <1>6, <1>7, <2>1, <2>2 DEF SoundCommand, Backed
<1>13. SoundWords(p)'
  <2>1. printed'[p] = Nothing
    BY <1>1, <1>10 DEF SoundCommand
  <2> QED
    BY <2>1 DEF SoundWords, Nothing, Current
<1>14. ThrottleKept(p)
  <2>1. ASSUME NEW q \in tried \cap through, ~Fresh(rec["cli"], clock) PROVE clock - now'[q] >= TTL
    <3>1. q # p /\ now'[q] = now[q] /\ now[q] \in Nat /\ now[q] >= 1 /\ now[q] <= rec["cli"].checked
      BY <1>1, <1>3, <1>11, <2>1 DEF IInv, CommandInv, ThrottleInv, TypeOK, Times
    <3>2. rec["cli"].checked \in Nat /\ rec["cli"].checked <= clock
      BY <1>3 DEF Snapshot, Times, BackedBy
    <3> QED
      BY <1>3, <2>1, <3>1, <3>2 DEF Fresh, Within
  <2> QED
    BY <1>1, <1>6, <1>7, <1>11, <2>1 DEF ThrottleKept
<1> QED
  BY <1>1, <1>8, <1>9, <1>12, <1>13, <1>14, StepOfOne

(* A record is replaced by the copy of a command whose tick it still is. *)
LEMMA StoreMoves ==
    ASSUME IInv, NEW p \in Commands, main[p] = "running", refresh[p] \in {"store", "success"},
           UNCHANGED <<server, desktop, main, form, own, snap, now, expired, printed, gone>>,
           NEW r \in {"ask", "done"}, refresh' = [refresh EXCEPT ![p] = r],
           rec' \in {rec, [rec EXCEPT !["cli"] = snap[p]]},
           tried' = tried \/ (tried' = tried \cup {p} /\ rec' = [rec EXCEPT !["cli"] = snap[p]]),
           NEW b \in Snapshot, peer' = [peer EXCEPT ![p] = b], BackedBy(b, clock, pub, highs)
    PROVE  IInv'
<1> USE ConstantsAssumption
<1>1. UNCHANGED <<clock, all, first, pub, highs, app, low, appChecks>>
  BY DEF server, desktop
<1>2. /\ TypeOK /\ HistoryTypeOK /\ now[p] \in Nat /\ clock \in Nat /\ snap[p] \in Snapshot
      /\ rec["cli"] \in Snapshot /\ BackedBy(rec["cli"], clock, pub, highs)
  BY CommandTypes
<1>3. /\ Busy(p) /\ now[p] = clock /\ snap[p].checked = clock
      /\ BackedBy(snap[p], clock, pub, highs)
  BY DEF Busy, IInv, CommandInv, RecordsInv, Backed
<1>4. /\ refresh'[p] = r /\ peer'[p] = b
      /\ \A q \in Commands \ {p} : refresh'[q] = refresh[q] /\ peer'[q] = peer[q]
  BY <1>2 DEF TypeOK
<1>5. /\ rec' \in [Surfaces -> Snapshot] /\ rec'["app"] = rec["app"]
      /\ rec'["cli"] \in {rec["cli"], snap[p]}
      /\ rec' = [rec EXCEPT !["cli"] = snap[p]] => rec'["cli"] = snap[p]
  BY <1>2 DEF TypeOK, Surfaces
<1>6. TypesInv'
  <2>1. /\ refresh' \in [Commands -> {"none", "attempt", "store", "ask", "answered", "success", "done"}]
        /\ peer' \in [Commands -> Snapshot]
    BY <1>2 DEF TypeOK
  <2>2. tried' \subseteq Commands
    BY <1>2 DEF HistoryTypeOK
  <2> QED
    BY <1>1, <1>2, <1>5, <2>1, <2>2 DEF TypesInv, TypeOK, HistoryTypeOK
<1>7. OthersStay(p) /\ CliRecordKept
  BY <1>3, <1>4, <1>5 DEF OthersStay, CliRecordKept
<1>8. SoundCommand(p) /\ SoundWords(p)
  BY CommandOfIInv
<1>9. SoundCommand(p)' /\ SoundWords(p)'
  <2>1. SoundWords(p)'
    BY <1>1, <1>8 DEF SoundWords
  <2> QED
    BY <1>1, <1>3, <1>4, <1>8, <2>1 DEF SoundCommand, Backed
<1>10. ThrottleKept(p)
  <2>1. p \notin gone[p] /\ \A q \in gone[p] : main[q] # "idle" /\ ~Busy(q)
    BY <1>3 DEF IInv, ThrottleInv
  <2>2. form[p] = "command" => \A q \in tried \cap gone[p] : now[p] - now[q] >= TTL
    BY DEF IInv, ThrottleInv
  <2>3. p \in tried' => now[p] <= rec'["cli"].checked
    <3>1. p \in tried => now[p] <= rec["cli"].checked
      BY DEF IInv, ThrottleInv
    <3> QED
      BY <1>2, <1>3, <1>5, <3>1
  <2> QED
    BY <1>3, <1>4, <2>1, <2>2, <2>3 DEF ThrottleKept
<1> QED
  BY <1>6, <1>7, <1>9, <1>10, StepOfOne

(* The attempt is written, or cannot be. *)
LEMMA AttemptStoresStep ==
    ASSUME IInv, NEW p \in Commands, AttemptStores(p)
    PROVE  IInv'
<1>1. /\ main[p] = "running" /\ refresh[p] = "store"
      /\ UNCHANGED <<server, desktop, main, form, own, snap, now, expired, printed, gone>>
  BY DEF AttemptStores, Runs
<1>2. PICK written \in BOOLEAN :
        /\ rec' = IF written THEN [rec EXCEPT !["cli"] = snap[p]] ELSE rec
        /\ refresh' = [refresh EXCEPT ![p] =
                IF written \/ form[p] = "version" THEN "ask" ELSE "done"]
        /\ tried' = IF written THEN tried \cup {p} ELSE tried
  BY DEF AttemptStores
<1>3. \E b \in Snapshot : peer' = [peer EXCEPT ![p] = b] /\ BackedBy(b, clock, pub, highs)
  <2>1. CASE form[p] = "version"
    <3>1. ConfirmedPeer(now[p]) \in Snapshot /\ BackedBy(ConfirmedPeer(now[p]), clock, pub, highs)
      <4>1. clock \in Nat
        BY CommandTypes, ConstantsAssumption
      <4> QED
        BY <4>1, CommandTypes, ZeroBacked DEF ConfirmedPeer
    <3> QED
      BY <2>1, <3>1 DEF AttemptStores
  <2>2. CASE form[p] # "version"
    <3>1. peer' = [peer EXCEPT ![p] = peer[p]]
      BY <2>2, CommandTypes DEF AttemptStores, TypeOK
    <3>2. BackedBy(peer[p], clock, pub, highs)
      BY DEF IInv, RecordsInv, Backed
    <3> QED
      BY <3>1, <3>2, CommandTypes
  <2> QED
    BY <2>1, <2>2
<1>4. PICK b \in Snapshot : peer' = [peer EXCEPT ![p] = b] /\ BackedBy(b, clock, pub, highs)
  BY <1>3
<1>5. \E r \in {"ask", "done"} : refresh' = [refresh EXCEPT ![p] = r]
  BY <1>2
<1>6. /\ rec' \in {rec, [rec EXCEPT !["cli"] = snap[p]]}
      /\ tried' = tried \/ (tried' = tried \cup {p} /\ rec' = [rec EXCEPT !["cli"] = snap[p]])
  BY <1>2
<1> QED
  BY <1>1, <1>4, <1>5, <1>6, StoreMoves

(* The answer is written, or cannot be. *)
LEMMA SuccessStoresStep ==
    ASSUME IInv, NEW p \in Commands, SuccessStores(p)
    PROVE  IInv'
<1>1. /\ main[p] = "running" /\ refresh[p] = "success"
      /\ UNCHANGED <<server, desktop, main, form, own, snap, now, expired, printed, gone>>
      /\ refresh' = [refresh EXCEPT ![p] = "done"] /\ tried' = tried
      /\ rec' \in {rec, [rec EXCEPT !["cli"] = snap[p]]}
  BY DEF SuccessStores, Runs
<1>2. peer' = [peer EXCEPT ![p] = peer[p]] /\ peer[p] \in Snapshot
  BY CommandTypes DEF SuccessStores, TypeOK
<1>3. BackedBy(peer[p], clock, pub, highs)
  BY DEF IInv, RecordsInv, Backed
<1> QED
  BY <1>1, <1>2, <1>3, StoreMoves

(* A process ends with words that are sound. *)
LEMMA ExitMoves ==
    ASSUME IInv, NEW p \in Commands, main[p] = "running", refresh[p] \notin {"answered", "success"},
           NEW said \in {Unchecked, Current} \cup Versions, Exits(p, said),
           said \in 1..MaxVersion => said > Installed /\ pub[said] # 0,
           said = Current =>
               \E t \in 1..MaxTime : Within(t, now[p]) /\ \E h \in highs[t] : h <= Installed
    PROVE  IInv'
<1> USE ConstantsAssumption
<1>1. /\ UNCHANGED <<server, desktop>> /\ UNCHANGED <<rec, refresh, form, now, tried, gone>>
      /\ main' = [main EXCEPT ![p] = "exited"] /\ printed' = [printed EXCEPT ![p] = said]
      /\ own' = [own EXCEPT ![p] = Zero] /\ snap' = [snap EXCEPT ![p] = Zero]
      /\ peer' = [peer EXCEPT ![p] = Zero] /\ expired' = [expired EXCEPT ![p] = FALSE]
  BY DEF Exits, record
<1>2. UNCHANGED <<clock, all, first, pub, highs, app, low, appChecks>>
  BY <1>1 DEF server, desktop
<1>3. TypeOK /\ HistoryTypeOK /\ now[p] \in Nat /\ clock \in Nat
  BY CommandTypes
<1>4. Zero \in Snapshot /\ BackedBy(Zero, clock, pub, highs)
  BY <1>3, ZeroBacked
<1>5. /\ main'[p] = "exited" /\ printed'[p] = said /\ own'[p] = Zero /\ snap'[p] = Zero /\ peer'[p] = Zero
  BY <1>1, <1>3 DEF TypeOK
<1>6. OthersStay(p) /\ CliRecordKept
  BY <1>1, <1>3 DEF OthersStay, CliRecordKept, TypeOK
<1>7. TypesInv'
  <2>1. /\ main' \in [Commands -> {"idle", "running", "exited"}]
        /\ printed' \in [Commands -> {Unchecked, Current} \cup Versions]
        /\ expired' \in [Commands -> BOOLEAN]
    BY <1>1, <1>3 DEF TypeOK
  <2>2. /\ own' \in [Commands -> Snapshot] /\ snap' \in [Commands -> Snapshot]
        /\ peer' \in [Commands -> Snapshot]
    BY <1>1, <1>3, <1>4 DEF TypeOK
  <2> QED
    BY <1>1, <1>2, <1>3, <2>1, <2>2 DEF TypesInv, TypeOK, HistoryTypeOK
<1>8. SoundCommand(p) /\ ~Busy(p)'
  BY <1>5, CommandOfIInv DEF Busy
<1>9. SoundCommand(p)'
  BY <1>1, <1>2, <1>4, <1>5, <1>8 DEF SoundCommand, Backed
<1>10. SoundWords(p)'
  BY <1>1, <1>2, <1>5 DEF SoundWords
<1>11. ThrottleKept(p)
  <2>1. \A q \in gone[p] : main[q] # "idle" /\ ~Busy(q)
    BY DEF IInv, ThrottleInv
  <2>2. form[p] = "command" /\ refresh[p] # "none" => \A q \in tried \cap gone[p] : now[p] - now[q] >= TTL
    BY DEF IInv, ThrottleInv
  <2>3. p \in tried => refresh[p] # "none" /\ now[p] <= rec["cli"].checked
    BY DEF IInv, ThrottleInv
  <2> QED
    BY <1>1, <1>5, <1>8, <2>1, <2>2, <2>3 DEF ThrottleKept
<1> QED
  BY <1>1, <1>6, <1>7, <1>9, <1>10, <1>11, StepOfOne

(* The newer of two backed snapshots names a published release. *)
LEMMA NoticeIsSound ==
    ASSUME IInv, NEW a \in Snapshot, NEW b \in Snapshot,
           BackedBy(a, clock, pub, highs), BackedBy(b, clock, pub, highs)
    PROVE  /\ Newer(a, b).latest \in Versions
           /\ Notice(Newer(a, b)) =>
                Newer(a, b).latest > Installed /\ pub[Newer(a, b).latest] # 0
<1>1. Newer(a, b) \in {a, b}
  BY NewerLatest
<1>2. Newer(a, b) \in Snapshot /\ BackedBy(Newer(a, b), clock, pub, highs)
  BY <1>1
<1>3. Newer(a, b).latest \in Versions /\ Published(Newer(a, b).latest, pub)
  BY <1>2 DEF Snapshot, BackedBy
<1> QED
  BY <1>3, ConstantsAssumption DEF Notice, Published, Versions

(* finish prints from the record it holds. *)
LEMMA FinishCommandStep ==
    ASSUME IInv, NEW p \in Commands, FinishCommand(p)
    PROVE  IInv'
<1>1. PICK s \in Finishes(p) :
        Exits(p, IF Notice(Newer(s, peer[p])) THEN Newer(s, peer[p]).latest ELSE Nothing)
  BY DEF FinishCommand
<1>2. main[p] = "running" /\ refresh[p] \notin {"answered", "success"}
  BY DEF FinishCommand, Finishes
<1>3. s \in {own[p], snap[p]} /\ (s = snap[p] /\ s # own[p] => refresh[p] = "done")
  BY <1>1 DEF Finishes
<1>4. s \in Snapshot /\ peer[p] \in Snapshot
  BY <1>3, CommandTypes
<1>5. BackedBy(s, clock, pub, highs) /\ BackedBy(peer[p], clock, pub, highs)
  BY <1>2, <1>3 DEF IInv, RecordsInv, Backed
<1>6. CASE Notice(Newer(s, peer[p]))
  <2> DEFINE said == Newer(s, peer[p]).latest
  <2>1. said \in Versions /\ said > Installed /\ pub[said] # 0
    BY <1>4, <1>5, <1>6, NoticeIsSound
  <2>2. Exits(p, said) /\ said # Current
    BY <1>1, <1>6, <2>1, ConstantsAssumption DEF Current, Versions
  <2> HIDE DEF said
  <2> QED
    BY <1>2, <2>1, <2>2, ExitMoves
<1>7. CASE ~Notice(Newer(s, peer[p]))
  <2>1. Exits(p, Nothing) /\ Nothing \in Versions /\ Nothing \notin 1..MaxVersion /\ Nothing # Current
    BY <1>1, <1>7, ConstantsAssumption DEF Nothing, Current, Versions
  <2> QED
    BY <1>2, <2>1, ExitMoves
<1> QED
  BY <1>6, <1>7

(* versionOutcome says that it is current only when a page within the TTL    *)
(* listed nothing newer.                                                     *)
LEMMA FinishVersionStep ==
    ASSUME IInv, NEW p \in Commands, FinishVersion(p)
    PROVE  IInv'
<1> USE ConstantsAssumption
<1> DEFINE best == Newer(snap[p], peer[p])
<1>1. /\ main[p] = "running" /\ refresh[p] = "done"
      /\ Exits(p, IF ~Checked(p) THEN Unchecked ELSE IF Notice(best) THEN best.latest ELSE Current)
  BY DEF FinishVersion, Runs
<1>2. snap[p] \in Snapshot /\ peer[p] \in Snapshot /\ now[p] \in Nat /\ clock \in 1..MaxTime /\ HistoryTypeOK
  BY CommandTypes
<1>3. BackedBy(snap[p], clock, pub, highs) /\ BackedBy(peer[p], clock, pub, highs)
  BY <1>1 DEF IInv, RecordsInv, Backed
<1>4. CASE ~Checked(p)
  <2>1. Exits(p, Unchecked) /\ Unchecked \notin 1..MaxVersion /\ Unchecked # Current
    BY <1>1, <1>4 DEF Unchecked, Current
  <2> QED
    BY <1>1, <2>1, ExitMoves
<1>5. CASE Checked(p) /\ Notice(best)
  <2>1. best.latest \in Versions /\ best.latest > Installed /\ pub[best.latest] # 0
    BY <1>2, <1>3, <1>5, NoticeIsSound
  <2>2. Exits(p, best.latest) /\ best.latest # Current
    BY <1>1, <1>5, <2>1 DEF Current, Versions
  <2> HIDE DEF best
  <2> QED
    BY <1>1, <2>1, <2>2, ExitMoves
<1>6. CASE Checked(p) /\ ~Notice(best)
  <2>1. Exits(p, Current) /\ Current \notin 1..MaxVersion
    BY <1>1, <1>6 DEF Current
  <2>2. ASSUME NEW r \in {snap[p], peer[p]}, Confirmed(r, now[p])
        PROVE  \E t \in 1..MaxTime : Within(t, now[p]) /\ \E h \in highs[t] : h <= Installed
    <3>1. r \in Snapshot /\ r.latest \in Nat /\ r.latest <= best.latest
      BY <1>2, NewerLatest
    <3>2. best.latest \in Nat /\ best.latest <= Installed
      <4>1. best.latest \in Versions
        BY <1>2, <1>3, NoticeIsSound
      <4> HIDE DEF best
      <4> QED
        BY <1>6, <4>1 DEF Notice, Versions
    <3>3. r.succeeded \in 1..MaxTime /\ Within(r.succeeded, now[p])
      BY <2>2, <3>1 DEF Confirmed, Within, Snapshot, Times
    <3>4. PICK h \in highs[r.succeeded] : h <= r.latest
      <4>1. BackedBy(r, clock, pub, highs)
        BY <1>3, <2>2
      <4> QED
        BY <3>3, <4>1 DEF BackedBy
    <3>5. h \in Nat
      BY <1>2, <3>3 DEF HistoryTypeOK, Versions
    <3> HIDE DEF best
    <3>6. h <= Installed
      BY <3>1, <3>2, <3>4, <3>5
    <3> QED
      BY <3>3, <3>6
  <2>3. Confirmed(snap[p], now[p]) \/ Confirmed(peer[p], now[p])
    BY <1>6 DEF Checked
  <2> HIDE DEF best
  <2> QED
    BY <1>1, <2>1, <2>2, <2>3, ExitMoves
<1> QED
  BY <1>4, <1>5, <1>6

(* Every step keeps the invariant. *)
LEMMA NextIInv == IInv /\ [Next]_vars => IInv'
<1> SUFFICES ASSUME IInv, [Next]_vars PROVE IInv'
  OBVIOUS
<1>1. CASE Tick
  BY <1>1, TickStep
<1>2. CASE \E v \in 1..MaxVersion : Publish(v)
  BY <1>2, PublishStep
<1>3. CASE \E s \in Surfaces : LoseRecord(s)
  BY <1>3, LoseStep
<1>4. CASE AppSkips \/ AppWalks \/ AppWalkEnds \/ AppWalkFails
  BY <1>4, AppSteps
<1>5. ASSUME NEW p \in Commands, StartNotice(p) \/ StartVersion(p) PROVE IInv'
  BY <1>5, StartStep
<1>6. ASSUME NEW p \in Commands, RefreshStep(p) PROVE IInv'
  BY <1>6, AttemptLoadsStep, AttemptStoresStep, ServerFailsStep, ServerAnswersStep,
     SuccessLoadsStep, SuccessStoresStep DEF RefreshStep
<1>7. ASSUME NEW p \in Commands, Deadline(p) \/ FinishCommand(p) \/ FinishVersion(p) PROVE IInv'
  BY <1>7, DeadlineStep, FinishCommandStep, FinishVersionStep
<1>8. CASE UNCHANGED vars
  <2>1. UNCHANGED <<clock, all, first, pub, highs, rec, main, refresh, form, own, snap, peer, now,
                    expired, printed, tried, gone, app, low, appChecks>>
    BY <1>8 DEF vars, server, record, command, desktop
  <2>2. TypesInv'
    BY <2>1 DEF IInv, TypesInv, TypeOK, HistoryTypeOK
  <2>3. ServerInv' /\ AppInv' /\ RecordsInv'
    BY <2>1 DEF IInv, ServerInv, AppInv, RecordsInv, Backed
  <2>4. CommandInv' /\ ThrottleInv' /\ AnswerKept' /\ AnswersAreBacked'
    BY <2>1 DEF IInv, CommandInv, ThrottleInv, AnswerKept, AnswersAreBacked, Busy
  <2> QED
    BY <2>2, <2>3, <2>4 DEF IInv
<1> QED
  BY <1>1, <1>2, <1>3, <1>4, <1>5, <1>6, <1>7, <1>8 DEF Next

-----------------------------------------------------------------------------
(* The theorems.                                                           *)

(* The inductive invariant holds. *)
LEMMA IInvHolds == Spec => []IInv
  BY InitIInv, NextIInv, PTL DEF Spec

(* Notice and versionOutcome: whatever the interleaving of commands, the     *)
(* app and the server, and whichever records are lost, a version that is     *)
(* named is a published newer one, and "no newer release is available" is    *)
(* what a page of the last TTL said.                                         *)
THEOREM AnswersAreSound == Spec => []AnswersSound
<1>1. IInv => AnswersSound
  BY DEF IInv, TypesInv, AnswersSound
<1> QED
  BY <1>1, IInvHolds, PTL

(* startNotice, RecordAttempt and finish: an ordinary command asks no sooner *)
(* than a TTL after any attempt that was over when it started, and an answer *)
(* that came in time is written before the process exits.                    *)
THEOREM RefreshIsSound == Spec => []RefreshSound
<1>1. IInv => RefreshSound
  <2>1. IInv => Throttled
    BY DEF IInv, TypesInv, HistoryTypeOK, ThrottleInv, Throttled
  <2> QED
    BY <2>1 DEF IInv, RefreshSound
<1> QED
  BY <1>1, IInvHolds, PTL

(* CheckForUpdateAtStartup: a release that a skipped check keeps from the    *)
(* user is younger than the TTL.                                             *)
THEOREM SkippedChecksAreSound == Spec => SkipIsSound
<1>1. ASSUME IInv, AppSkips, NEW v \in (Installed + 1)..MaxVersion, pub[v] # 0
      PROVE  clock - pub[v] < TTL
  <2> USE ConstantsAssumption
  <2>1. /\ rec["app"] \in Snapshot /\ clock \in Nat /\ v \in 1..MaxVersion /\ pub[v] \in Nat
    BY <1>1 DEF IInv, TypesInv, TypeOK, HistoryTypeOK, Surfaces, Times
  <2>2. rec["app"].succeeded \in Nat /\ rec["app"].latest \in Nat
    BY <2>1 DEF Snapshot, Times, Versions
  <2>3. Within(rec["app"].succeeded, clock) /\ rec["app"].latest <= Installed
    BY <1>1, <2>2 DEF AppSkips, AnsweredByRecord, Confirmed, Notice
  <2>4. pub[v] < rec["app"].succeeded => v <= rec["app"].latest
    BY <1>1, <2>1 DEF IInv, AppInv
  <2> QED
    BY <2>1, <2>2, <2>3, <2>4 DEF Within
<1>2. IInv /\ [Next]_vars =>
        [AppSkips => \A v \in (Installed + 1)..MaxVersion : pub[v] # 0 => clock - pub[v] < TTL]_vars
  BY <1>1
<1> QED
  BY <1>2, IInvHolds, PTL DEF Spec, SkipIsSound
=============================================================================
