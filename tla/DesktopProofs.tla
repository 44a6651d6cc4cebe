--------------------------- MODULE DesktopProofs ---------------------------
(***************************************************************************)
(* What the parts of the desktop application and the command-line tool     *)
(* promise, for any documents, nodes, number of clicks, batch size, set of *)
(* writing processes, timing and command line.  In the window: the strip   *)
(* of open tabs (OpenTabs), the right side of the Diff view (DiffSide) and *)
(* the tree with its navigation (TreeNav).  Around it: the launch          *)
(* (Startup), the command-line installer (CliTool), the batch open         *)
(* (BatchOpen), the atomic file writer (AtomicFile) and the queue of       *)
(* pending opens (PendingOpen), which implements PathDelivery and drops no *)
(* buffered path while the page lives.  Beside it: the exit code and the   *)
(* output of a command (Cli).                                              *)
(***************************************************************************)
EXTENDS OpenTabs, Panels, Startup, CliTool, BatchOpen, AtomicFile, PendingOpen, Cli,
        SequenceTheorems, FiniteSetTheorems, TLAPS

-----------------------------------------------------------------------------
(* OpenTabs.                                                               *)

(* The frontend knows only of opens that landed, and the session names a     *)
(* path's open by its path.                                                   *)
LandedInv ==
  /\ \A t \in Range(tabs) \cup Range(shown) \cup released \cup closing : open[t].at = "landed"
  /\ \A p \in TabPaths : session[p] # NoTab =>
       open[session[p]].at = "landed" /\ TabPath(session[p]) = p
  /\ \A i \in Ids : open[i].at # "idle" => open[i].path \in TabPaths

(* A document whose tree is there has not been asked to go, and one that came *)
(* by an event goes only once it is released.                                 *)
ArrivalInv ==
  /\ \A i \in Ids : open[i].at \in {"fetching", "sent"} => i \in docs
  /\ \A i \in closing : open[i].kind = "event" => i \in released

(* A reload is of an open of its path. *)
ReloadInv ==
  \A i \in Ids : open[i].kind = "reload" /\ open[i].at \in {"parsing", "fetching"} =>
    open[i].of \in Ids /\ open[open[i].of].at # "idle" /\ open[i].path = TabPath(open[i].of)

TabsInv == TabsSound /\ LandedInv /\ ArrivalInv /\ ReloadInv
-----------------------------------------------------------------------------
(* Strips.                                                                 *)

(* Where a strip holds a tab. *)
LEMMA PlaceIn ==
  ASSUME NEW row \in Seq(Ids), NEW t \in Range(row)
  PROVE  Place(row, t) \in 1..Len(row) /\ row[Place(row, t)] = t
<1>1. \E k \in DOMAIN row : row[k] = t
  BY DEF Range
<1> QED
  BY <1>1 DEF Place

(* Closing a tab takes it, and it alone, out of the strip. *)
LEMMA WithoutIs ==
  ASSUME NEW row \in Seq(Ids), IsInjective(row), NEW t
  PROVE  /\ Without(row, t) \in Seq(Ids) /\ IsInjective(Without(row, t))
         /\ Range(Without(row, t)) = Range(row) \ {t}
         /\ t \in Range(row) => Len(Without(row, t)) = Len(row) - 1
<1>1. CASE t \notin Range(row)
  BY <1>1 DEF Without
<1>2. CASE t \in Range(row)
  <2> DEFINE k == Place(row, t)
             rest == Without(row, t)
  <2>1. k \in 1..Len(row) /\ row[k] = t
    BY <1>2, PlaceIn
  <2>2. rest = SubSeq(row, 1, k - 1) \o SubSeq(row, k + 1, Len(row))
    BY <1>2 DEF Without, RemoveAt
  <2> HIDE DEF k
  <2>3. /\ rest \in Seq(Ids) /\ Len(rest) = Len(row) - 1
        /\ \A j \in 1..Len(rest) : rest[j] = IF j < k THEN row[j] ELSE row[j + 1]
    <3>1. PICK a : a = SubSeq(row, 1, k - 1)
      OBVIOUS
    <3>2. PICK b : b = SubSeq(row, k + 1, Len(row))
      OBVIOUS
    <3>3. a \in Seq(Ids) /\ Len(a) = k - 1 /\ \A j \in 1..(k - 1) : a[j] = row[j]
      BY <2>1, <3>1
    <3>4. /\ b \in Seq(Ids) /\ Len(b) = Len(row) - k
          /\ \A j \in 1..(Len(row) - k) : b[j] = row[k + j]
      BY <2>1, <3>2
    <3>5. rest = a \o b
      BY <2>2, <3>1, <3>2
    <3>6. rest \in Seq(Ids) /\ Len(rest) = Len(row) - 1
      BY <2>1, <3>3, <3>4, <3>5
    <3>7. \A j \in 1..(k - 1) : rest[j] = row[j]
      BY <2>1, <3>3, <3>4, <3>5
    <3>8. ASSUME NEW j \in k..(Len(row) - 1) PROVE rest[j] = row[j + 1]
      <4>1. j \in (Len(a) + 1)..(Len(a) + Len(b)) /\ j - Len(a) \in 1..(Len(row) - k)
        BY <2>1, <3>3, <3>4
      <4>2. rest[j] = b[j - Len(a)]
        BY <3>3, <3>4, <3>5, <4>1
      <4> QED
        BY <2>1, <3>3, <3>4, <4>1, <4>2
    <3>9. ASSUME NEW j \in 1..Len(rest) PROVE rest[j] = IF j < k THEN row[j] ELSE row[j + 1]
      <4>1. CASE j < k
        BY <2>1, <3>6, <3>7, <4>1
      <4>2. CASE ~(j < k)
        BY <2>1, <3>6, <3>8, <4>2
      <4> QED
        BY <4>1, <4>2
    <3> QED
      BY <3>6, <3>9
  <2> HIDE DEF rest
  <2>4. \A i, j \in 1..Len(row) : row[i] = row[j] => i = j
    BY DEF IsInjective
  <2>5. IsInjective(rest)
    <3>1. SUFFICES ASSUME NEW i \in 1..Len(rest), NEW j \in 1..Len(rest), rest[i] = rest[j]
                   PROVE  i = j
      BY <2>3 DEF IsInjective
    <3>2. PICK a \in 1..Len(row) : a = (IF i < k THEN i ELSE i + 1)
      BY <2>1, <2>3
    <3>3. PICK b \in 1..Len(row) : b = (IF j < k THEN j ELSE j + 1)
      BY <2>1, <2>3
    <3>4. rest[i] = row[a] /\ rest[j] = row[b]
      BY <2>3, <3>2, <3>3
    <3>5. a = b
      BY <2>4, <3>1, <3>4
    <3> QED
      BY <2>1, <3>2, <3>3, <3>5
  <2>6. ASSUME NEW u \in Range(rest) PROVE u \in Range(row) \ {t}
    <3>1. PICK j \in 1..Len(rest) : u = rest[j]
      BY <2>3, <2>6 DEF Range
    <3>2. PICK i \in 1..Len(row) : u = row[i] /\ i # k
      BY <2>1, <2>3, <3>1
    <3> QED
      BY <2>1, <2>4, <3>2 DEF Range
  <2>7. ASSUME NEW u \in Range(row), u # t PROVE u \in Range(rest)
    <3>1. PICK i \in 1..Len(row) : u = row[i]
      BY <2>7 DEF Range
    <3>2. CASE i < k
      <4>1. i \in 1..Len(rest) /\ rest[i] = u
        BY <2>1, <2>3, <3>1, <3>2
      <4> QED
        BY <2>3, <4>1 DEF Range
    <3>3. CASE i > k
      <4>1. i - 1 \in 1..Len(rest) /\ rest[i - 1] = u
        BY <2>1, <2>3, <3>1, <3>3
      <4> QED
        BY <2>3, <4>1 DEF Range
    <3> QED
      BY <2>1, <2>7, <3>1, <3>2, <3>3
  <2> QED
    BY <1>2, <2>3, <2>5, <2>6, <2>7 DEF rest
<1> QED
  BY <1>1, <1>2

(* Whatever tab is closed, one of those left is in front, if any is. *)
LEMMA ActiveAfterIs ==
  ASSUME NEW row \in Seq(Ids), IsInjective(row), NEW act, ActiveOf(row, act), NEW t \in Ids
  PROVE  ActiveOf(Without(row, t), ActiveAfter(row, act, t))
<1> DEFINE rest == Without(row, t)
<1>1. /\ rest \in Seq(Ids) /\ Range(rest) = Range(row) \ {t}
      /\ t \in Range(row) => Len(rest) = Len(row) - 1
  BY WithoutIs
<1>2. ActiveAfter(row, act, t) =
        IF act # t THEN act ELSE IF rest = <<>> THEN NoTab
        ELSE rest[IF Place(row, t) <= Len(rest) THEN Place(row, t) ELSE Len(rest)]
  BY DEF ActiveAfter
<1> HIDE DEF rest
<1>3. \A s \in Seq(Ids) : s = <<>> => Range(s) = {}
  BY DEF Range
<1>4. \A s \in Seq(Ids) : s # <<>> => s[1] \in Range(s) /\ 1 \in 1..Len(s)
  BY DEF Range
<1>5. CASE act # t
  <2>1. CASE row = <<>>
    <3>1. rest = <<>>
      BY <1>1, <1>3, <1>4, <2>1
    <3> QED
      BY <1>2, <1>5, <2>1, <3>1 DEF ActiveOf, rest
  <2>2. CASE row # <<>>
    <3>1. act \in Range(rest)
      BY <1>1, <1>5, <2>2 DEF ActiveOf
    <3> QED
      BY <1>1, <1>2, <1>3, <1>5, <3>1 DEF ActiveOf, rest
  <2> QED
    BY <2>1, <2>2
<1>6. CASE act = t
  <2>1. t \in Range(row)
    BY <1>6, NoTabAssumption DEF ActiveOf
  <2>2. CASE rest = <<>>
    BY <1>2, <1>6, <2>2 DEF ActiveOf, rest
  <2>3. CASE rest # <<>>
    <3> DEFINE k == IF Place(row, t) <= Len(rest) THEN Place(row, t) ELSE Len(rest)
    <3>1. Place(row, t) \in 1..Len(row)
      BY <2>1, PlaceIn
    <3>2. k \in 1..Len(rest)
      BY <1>1, <1>4, <2>1, <2>3, <3>1
    <3>3. rest[k] \in Range(rest)
      BY <1>1, <3>2 DEF Range
    <3> QED
      BY <1>2, <1>6, <2>3, <3>3 DEF ActiveOf, rest
  <2> QED
    BY <2>2, <2>3
<1> QED
  BY <1>5, <1>6

-----------------------------------------------------------------------------
(* Opens that land.                                                        *)

(* OPEN_DOCUMENT with a document that has no tab: it takes the place of the
   tab of its path. *)
LEMMA NewTab ==
  ASSUME TabsTypeOK, OneTabPerPath, NEW i \in Ids, i \notin Range(tabs),
         NEW reload \in BOOLEAN, OPEN_DOCUMENT(i, reload)
  PROVE  /\ tabs' \in Seq(Ids) /\ IsInjective(tabs') /\ ActiveOf(tabs', active')
         /\ Range(tabs') = {t \in Range(tabs) : TabPath(t) # TabPath(i)} \cup {i}
<1>1. tabs \in Seq(Ids) /\ IsInjective(tabs) /\ ActiveOf(tabs, active)
  BY DEF TabsTypeOK
<1>2. \A j, k \in 1..Len(tabs) : tabs[j] = tabs[k] => j = k
  BY <1>1 DEF IsInjective
<1>3. \A t : t \in Range(tabs) <=> \E k \in 1..Len(tabs) : tabs[k] = t
  BY <1>1 DEF Range
<1>4. CASE Held(TabPath(i)) = {}
  <2>1. tabs' = Append(tabs, i) /\ active' = i
    BY <1>4 DEF OPEN_DOCUMENT
  <2>2. /\ tabs' \in Seq(Ids) /\ Len(tabs') = Len(tabs) + 1 /\ tabs'[Len(tabs) + 1] = i
        /\ \A j \in 1..Len(tabs) : tabs'[j] = tabs[j]
    BY <1>1, <2>1
  <2>3. \A t : t \in Range(tabs') <=> \E k \in 1..Len(tabs') : tabs'[k] = t
    BY <2>2 DEF Range
  <2>4. \A t \in Range(tabs) : TabPath(t) # TabPath(i)
    BY <1>1, <1>3, <1>4 DEF Held
  <2>5. \A t : t \in Range(tabs') <=> t \in Range(tabs) \/ t = i
    <3>1. \A t : t \in Range(tabs') => t \in Range(tabs) \/ t = i
      BY <1>1, <1>3, <2>2, <2>3
    <3>2. \A t \in Range(tabs) : t \in Range(tabs')
      BY <1>1, <1>3, <2>2, <2>3
    <3>3. i \in Range(tabs')
      BY <1>1, <2>2, <2>3
    <3> QED
      BY <3>1, <3>2, <3>3
  <2>6. \A j \in 1..Len(tabs) : tabs'[j] # i
    BY <1>3, <2>2
  <2>7. IsInjective(tabs')
    <3>1. SUFFICES ASSUME NEW j \in 1..Len(tabs'), NEW k \in 1..Len(tabs'), tabs'[j] = tabs'[k]
                   PROVE  j = k
      BY <2>2 DEF IsInjective
    <3> QED
      BY <1>1, <1>2, <2>2, <2>6, <3>1
  <2>8. ActiveOf(tabs', active')
    BY <1>1, <2>1, <2>2, <2>5 DEF ActiveOf
  <2> QED
    BY <2>2, <2>4, <2>5, <2>7, <2>8
<1>5. CASE Held(TabPath(i)) # {}
  <2>1. PICK k \in Held(TabPath(i)) :
          /\ tabs' = [tabs EXCEPT ![k] = i]
          /\ active' = IF reload /\ tabs[k] # active THEN active ELSE i
    BY <1>5 DEF OPEN_DOCUMENT
  <2>2. k \in 1..Len(tabs) /\ TabPath(tabs[k]) = TabPath(i)
    BY <1>1, <2>1 DEF Held
  <2>3. /\ tabs' \in Seq(Ids) /\ Len(tabs') = Len(tabs) /\ tabs'[k] = i
        /\ \A j \in 1..Len(tabs) : j # k => tabs'[j] = tabs[j]
    BY <1>1, <2>1, <2>2
  <2>4. \A j \in 1..Len(tabs) : TabPath(tabs[j]) = TabPath(i) => j = k
    <3>1. SUFFICES ASSUME NEW j \in 1..Len(tabs), TabPath(tabs[j]) = TabPath(i) PROVE j = k
      OBVIOUS
    <3>2. tabs[j] \in Range(tabs) /\ tabs[k] \in Range(tabs)
      BY <1>3, <2>2
    <3>3. tabs[j] = tabs[k]
      BY <2>2, <3>1, <3>2 DEF OneTabPerPath
    <3> QED
      BY <1>2, <2>2, <3>3
  <2>5. \A t : t \in Range(tabs') <=> \E j \in 1..Len(tabs') : tabs'[j] = t
    BY <2>3 DEF Range
  <2>6. ASSUME NEW t \in Range(tabs') PROVE t = i \/ (t \in Range(tabs) /\ TabPath(t) # TabPath(i))
    <3>1. PICK j \in 1..Len(tabs) : tabs'[j] = t
      BY <2>3, <2>5
    <3> QED
      BY <1>3, <2>3, <2>4, <3>1
  <2>7. ASSUME NEW t \in Range(tabs), TabPath(t) # TabPath(i) PROVE t \in Range(tabs')
    <3>1. PICK j \in 1..Len(tabs) : tabs[j] = t
      BY <1>3
    <3>2. j # k
      BY <2>2, <2>7, <3>1
    <3> QED
      BY <2>3, <2>5, <3>1, <3>2
  <2>8. i \in Range(tabs')
    BY <2>2, <2>3, <2>5
  <2>9. \A j \in 1..Len(tabs) : tabs[j] # i
    BY <1>3
  <2>10. IsInjective(tabs')
    <3>1. SUFFICES ASSUME NEW j \in 1..Len(tabs'), NEW m \in 1..Len(tabs'), tabs'[j] = tabs'[m]
                   PROVE  j = m
      BY <2>3 DEF IsInjective
    <3> QED
      BY <1>2, <2>3, <2>9, <3>1
  <2>11. ActiveOf(tabs', active')
    <3>1. tabs # <<>> /\ tabs' # <<>>
      BY <1>1, <2>2, <2>3
    <3>2. CASE active' = i
      BY <2>8, <3>1, <3>2 DEF ActiveOf
    <3>3. CASE active' # i
      <4>1. active' = active /\ tabs[k] # active
        BY <2>1, <3>3
      <4>2. active \in Range(tabs)
        BY <1>1, <3>1 DEF ActiveOf
      <4>3. PICK j \in 1..Len(tabs) : tabs[j] = active
        BY <1>3, <4>2
      <4>4. j # k
        BY <4>1, <4>3
      <4>5. active \in Range(tabs')
        BY <2>3, <2>5, <4>3, <4>4
      <4> QED
        BY <3>1, <4>1, <4>5 DEF ActiveOf
    <3> QED
      BY <3>2, <3>3
  <2> QED
    BY <2>3, <2>6, <2>7, <2>8, <2>10, <2>11
<1> QED
  BY <1>4, <1>5

(* The step of an open. *)
LEMMA AtIs ==
  ASSUME TabsTypeOK, NEW i \in Ids, NEW stage \in {"fetching", "sent", "landed"}, At(i, stage)
  PROVE  /\ open' \in [Ids -> Opens]
         /\ \A j \in Ids : /\ open'[j].at = IF j = i THEN stage ELSE open[j].at
                           /\ open'[j].kind = open[j].kind /\ open'[j].path = open[j].path
                           /\ open'[j].of = open[j].of
BY DEF TabsTypeOK, At, Opens

(* A first delivery of a document makes it the tab of its path, and lets the
   earlier one go. *)
LEMMA LandStep ==
  ASSUME TabsInv, NEW i \in Ids, open[i].at \in {"fetching", "sent"}, At(i, "landed"),
         NEW known \in SUBSET Range(shown), NEW reload \in BOOLEAN,
         dispatchOpenedDocument(i, known, reload), UNCHANGED <<docs, screen, repeats>>
  PROVE  TabsInv'
<1> DEFINE p == TabPath(i)
           E == Earlier(i, known)
<1>1. /\ TabsTypeOK /\ NoDeadTab /\ NoLeak /\ OneTabPerPath /\ LandedInv /\ ArrivalInv /\ ReloadInv
  BY DEF TabsInv, TabsSound, TabsMatchDocuments
<1>2. /\ docs \subseteq Ids /\ tabs \in Seq(Ids) /\ shown \in Seq(Ids)
      /\ session \in [TabPaths -> Ids \cup {NoTab}]
      /\ released \subseteq Ids /\ closing \subseteq Ids /\ open \in [Ids -> Opens]
  BY <1>1 DEF TabsTypeOK
<1>3. p \in TabPaths /\ i \in docs
  BY <1>1 DEF LandedInv, ArrivalInv, TabPath
<1>4. /\ i \notin Range(tabs) /\ i \notin Range(shown) /\ i \notin released /\ i \notin closing
      /\ session[p] # i
  BY <1>1, <1>3, NoTabAssumption DEF LandedInv
<1>5. /\ released' = released \cup E /\ closing' = closing \cup E
      /\ session' = [session EXCEPT ![p] = i] /\ OPEN_DOCUMENT(i, reload)
  BY <1>4 DEF dispatchOpenedDocument, TakesOver, Repeated
<1>6. \A t \in Range(shown) : t \in Ids
  BY <1>2 DEF Range
<1>7. E \subseteq Ids /\ \A t \in E : open[t].at = "landed" /\ TabPath(t) = p /\ t # i
  BY <1>1, <1>2, <1>3, <1>6 DEF Earlier, LandedInv
<1>8. /\ open' \in [Ids -> Opens]
      /\ \A j \in Ids : /\ open'[j].at = IF j = i THEN "landed" ELSE open[j].at
                        /\ open'[j].kind = open[j].kind /\ open'[j].path = open[j].path
                        /\ open'[j].of = open[j].of
  BY <1>1, AtIs
<1>9. /\ tabs' \in Seq(Ids) /\ IsInjective(tabs') /\ ActiveOf(tabs', active')
      /\ Range(tabs') = {t \in Range(tabs) : TabPath(t) # p} \cup {i}
  BY <1>1, <1>4, <1>5, NewTab
<1>10. \A t \in Range(tabs) : t \in Ids
  BY <1>2 DEF Range
<1>11. session' \in [TabPaths -> Ids \cup {NoTab}] /\ session'[p] = i
       /\ \A q \in TabPaths : q # p => session'[q] = session[q]
  BY <1>2, <1>3, <1>5
<1> HIDE DEF E, p
<1>12. TabsTypeOK'
  BY <1>1, <1>2, <1>5, <1>7, <1>8, <1>9, <1>11 DEF TabsTypeOK, screen
<1>13. NoDeadTab'
  BY <1>1, <1>3, <1>4, <1>5, <1>7, <1>9 DEF NoDeadTab
<1>14. NoLeak'
  <2>1. SUFFICES ASSUME NEW d \in docs
                 PROVE  d \in Range(tabs') \/ d \in closing' \/ open'[d].at \in {"fetching", "sent"}
    BY DEF NoLeak
  <2>2. CASE d \in Range(tabs) /\ TabPath(d) = p
    <3>1. session[p] = d /\ d # i /\ d \in Ids
      BY <1>1, <1>4, <1>10, <2>2 DEF OneTabPerPath
    <3>2. d \in E
      BY <1>4, <3>1, NoTabAssumption DEF E, Earlier, p
    <3> QED
      BY <1>5, <3>2
  <2>3. CASE d \in Range(tabs) /\ TabPath(d) # p
    BY <1>9, <2>3
  <2>4. CASE d \notin Range(tabs)
    BY <1>1, <1>2, <1>5, <1>8, <1>9, <2>4 DEF NoLeak
  <2> QED
    BY <2>2, <2>3, <2>4
<1>15. OneTabPerPath'
  <2>1. SUFFICES ASSUME NEW t \in Range(tabs') PROVE session'[open'[t].path] = t
    BY DEF OneTabPerPath, TabPath
  <2>2. CASE t = i
    BY <1>8, <1>11, <2>2 DEF p, TabPath
  <2>3. CASE t # i
    <3>1. t \in Range(tabs) /\ TabPath(t) # p /\ t \in Ids
      BY <1>9, <1>10, <2>3
    <3>2. TabPath(t) \in TabPaths /\ session[TabPath(t)] = t
      BY <1>1, <3>1 DEF LandedInv, OneTabPerPath, TabPath
    <3> QED
      BY <1>8, <1>11, <3>1, <3>2 DEF TabPath
  <2> QED
    BY <2>2, <2>3
<1>16. LandedInv'
  <2>1. ASSUME NEW t \in Range(tabs') \cup Range(shown') \cup released' \cup closing'
        PROVE  open'[t].at = "landed"
    BY <1>1, <1>2, <1>5, <1>6, <1>7, <1>8, <1>9, <1>10 DEF LandedInv, screen
  <2>2. ASSUME NEW q \in TabPaths, session'[q] # NoTab
        PROVE  open'[session'[q]].at = "landed" /\ open'[session'[q]].path = q
    <3>1. CASE q = p
      BY <1>8, <1>11, <3>1 DEF p, TabPath
    <3>2. CASE q # p
      BY <1>1, <1>2, <1>8, <1>11, <2>2, <3>2 DEF LandedInv, TabPath
    <3> QED
      BY <3>1, <3>2
  <2>3. ASSUME NEW j \in Ids, open'[j].at # "idle" PROVE open'[j].path \in TabPaths
    BY <1>1, <1>8, <2>3 DEF LandedInv
  <2> QED
    BY <2>1, <2>2, <2>3 DEF LandedInv, TabPath
<1>17. ArrivalInv'
  BY <1>1, <1>2, <1>5, <1>7, <1>8 DEF ArrivalInv
<1>18. ReloadInv'
  BY <1>1, <1>8 DEF ReloadInv, TabPath
<1> QED
  BY <1>12, <1>13, <1>14, <1>15, <1>16, <1>17, <1>18 DEF TabsInv, TabsSound, TabsMatchDocuments

(* A step of an open that the frontend does not take part in. *)
LEMMA QuietOpen ==
  ASSUME TabsInv, NEW i \in Ids, NEW stage \in {"fetching", "sent", "landed"}, At(i, stage),
         open[i].at # "idle", open[i].at # "landed",
         NEW kept \in SUBSET {i},
         closing' = closing \cup kept,
         kept # {} => open[i].kind # "event",
         docs' \in SUBSET Ids, docs \ {i} \subseteq docs', docs' \subseteq docs \cup {i},
         kept = {} /\ i \in docs' => stage \in {"fetching", "sent"},
         stage \in {"fetching", "sent"} => i \in docs' /\ (stage = "sent" \/ open[i].at = "parsing"),
         kept # {} => stage = "landed",
         UNCHANGED <<reducer, screen, session, released, repeats>>
  PROVE  TabsInv'
<1>1. /\ TabsTypeOK /\ NoDeadTab /\ NoLeak /\ OneTabPerPath /\ LandedInv /\ ArrivalInv /\ ReloadInv
  BY DEF TabsInv, TabsSound, TabsMatchDocuments
<1>2. /\ docs \subseteq Ids /\ tabs \in Seq(Ids) /\ shown \in Seq(Ids)
      /\ session \in [TabPaths -> Ids \cup {NoTab}]
      /\ released \subseteq Ids /\ closing \subseteq Ids /\ open \in [Ids -> Opens]
  BY <1>1 DEF TabsTypeOK
<1>3. /\ open' \in [Ids -> Opens]
      /\ \A j \in Ids : /\ open'[j].at = IF j = i THEN stage ELSE open[j].at
                        /\ open'[j].kind = open[j].kind /\ open'[j].path = open[j].path
                        /\ open'[j].of = open[j].of
  BY <1>1, AtIs
<1>4. UNCHANGED <<tabs, active, shown, activeShown, session, released, repeats>>
  BY DEF reducer, screen
<1>5. /\ i \notin Range(tabs) /\ i \notin Range(shown) /\ i \notin released /\ i \notin closing
      /\ \A p \in TabPaths : session[p] # i
  BY <1>1, NoTabAssumption DEF LandedInv
<1>6. (\A t \in Range(tabs) : t \in Ids) /\ (\A t \in Range(shown) : t \in Ids)
  BY <1>2 DEF Range
<1>7. TabsTypeOK'
  BY <1>1, <1>2, <1>3, <1>4 DEF TabsTypeOK
<1>8. NoDeadTab' /\ OneTabPerPath'
  BY <1>1, <1>3, <1>4, <1>5, <1>6 DEF NoDeadTab, OneTabPerPath, TabPath
<1>9. NoLeak'
  BY <1>1, <1>2, <1>3, <1>4 DEF NoLeak
<1>10. LandedInv'
  <2>1. \A t \in Range(tabs) \cup Range(shown) \cup released \cup closing' : open'[t].at = "landed"
    BY <1>1, <1>2, <1>3, <1>5, <1>6 DEF LandedInv
  <2>2. \A p \in TabPaths : session[p] # NoTab => open'[session[p]].at = "landed" /\ open'[session[p]].path = p
    BY <1>1, <1>2, <1>3, <1>5 DEF LandedInv, TabPath
  <2>3. \A j \in Ids : open'[j].at # "idle" => open'[j].path \in TabPaths
    BY <1>1, <1>3 DEF LandedInv
  <2> QED
    BY <1>4, <2>1, <2>2, <2>3 DEF LandedInv, TabPath
<1>11. ArrivalInv'
  BY <1>1, <1>2, <1>3, <1>4 DEF ArrivalInv
<1>12. ReloadInv'
  BY <1>1, <1>3 DEF ReloadInv, TabPath
<1> QED
  BY <1>7, <1>8, <1>9, <1>10, <1>11, <1>12 DEF TabsInv, TabsSound, TabsMatchDocuments

(* A closed tab leaves the strip before its document goes. *)
LEMMA CloseTabStep ==
  ASSUME TabsInv, NEW t \in Range(shown), closeDocumentTab(t), UNCHANGED <<backend, repeats>>,
         \/ UNCHANGED screen
         \/ shown' = Without(shown, t) /\ activeShown' = ActiveAfter(shown, activeShown, t)
  PROVE  TabsInv'
<1>1. /\ TabsTypeOK /\ NoDeadTab /\ NoLeak /\ OneTabPerPath /\ LandedInv /\ ArrivalInv /\ ReloadInv
  BY DEF TabsInv, TabsSound, TabsMatchDocuments
<1>2. /\ docs \subseteq Ids /\ tabs \in Seq(Ids) /\ shown \in Seq(Ids)
      /\ IsInjective(tabs) /\ IsInjective(shown)
      /\ session \in [TabPaths -> Ids \cup {NoTab}]
      /\ released \subseteq Ids /\ closing \subseteq Ids /\ open \in [Ids -> Opens]
      /\ ActiveOf(tabs, active) /\ ActiveOf(shown, activeShown)
  BY <1>1 DEF TabsTypeOK
<1>3. t \in Ids /\ open[t].at = "landed"
  BY <1>1, <1>2 DEF LandedInv, Range
<1>4. /\ tabs' = Without(tabs, t) /\ active' = ActiveAfter(tabs, active, t)
      /\ session' = [p \in TabPaths |-> IF session[p] = t THEN NoTab ELSE session[p]]
      /\ released' = released \cup {t} /\ closing' = closing \cup {t}
      /\ UNCHANGED <<docs, open, repeats>>
  BY DEF closeDocumentTab, backend
<1>5. /\ tabs' \in Seq(Ids) /\ IsInjective(tabs') /\ Range(tabs') = Range(tabs) \ {t}
      /\ ActiveOf(tabs', active')
  BY <1>2, <1>3, <1>4, WithoutIs, ActiveAfterIs
<1>6. /\ shown' \in Seq(Ids) /\ IsInjective(shown') /\ Range(shown') \subseteq Range(shown)
      /\ ActiveOf(shown', activeShown')
  <2>1. CASE UNCHANGED screen
    BY <1>2, <2>1 DEF screen
  <2>2. CASE shown' = Without(shown, t) /\ activeShown' = ActiveAfter(shown, activeShown, t)
    <3>1. Range(Without(shown, t)) = Range(shown) \ {t}
      BY <1>2, WithoutIs
    <3> QED
      BY <1>2, <1>3, <2>2, <3>1, WithoutIs, ActiveAfterIs
  <2> QED
    BY <2>1, <2>2
<1>7. TabsTypeOK'
  BY <1>1, <1>2, <1>3, <1>4, <1>5, <1>6 DEF TabsTypeOK
<1>8. NoDeadTab'
  BY <1>1, <1>4, <1>5 DEF NoDeadTab
<1>9. NoLeak'
  BY <1>1, <1>4, <1>5 DEF NoLeak
<1>10. OneTabPerPath'
  <2>1. \A u \in Range(tabs) : u \in Ids
    BY <1>2 DEF Range
  <2>2. ASSUME NEW u \in Range(tabs') PROVE session'[TabPath(u)] = u
    <3>1. u \in Range(tabs) /\ u # t /\ u \in Ids
      BY <1>5, <2>1
    <3>2. TabPath(u) \in TabPaths /\ session[TabPath(u)] = u
      BY <1>1, <3>1 DEF LandedInv, OneTabPerPath, TabPath
    <3> QED
      BY <1>4, <3>1, <3>2
  <2> QED
    BY <1>4, <2>2 DEF OneTabPerPath, TabPath
<1>11. LandedInv'
  BY <1>1, <1>3, <1>4, <1>5, <1>6 DEF LandedInv, TabPath
<1>12. ArrivalInv'
  BY <1>1, <1>4 DEF ArrivalInv
<1>13. ReloadInv'
  BY <1>1, <1>4 DEF ReloadInv, TabPath
<1> QED
  BY <1>7, <1>8, <1>9, <1>10, <1>11, <1>12, <1>13 DEF TabsInv, TabsSound, TabsMatchDocuments

(* An event that was taken and comes again finds its tab, or is dropped. *)
LEMMA AgainOnlyActivates ==
  ASSUME TabsInv, NEW i \in Ids, DocumentOpenedAgain(i)
  PROVE  /\ UNCHANGED <<docs, open, tabs, shown, activeShown, session, released, closing>>
         /\ active' = active \/ (i \in Range(tabs) /\ active' = i)
         /\ repeats' \in 0..MaxRepeats
<1>1. /\ TabsTypeOK /\ NoDeadTab /\ NoLeak /\ OneTabPerPath /\ LandedInv /\ ArrivalInv /\ ReloadInv
  BY DEF TabsInv, TabsSound, TabsMatchDocuments
<1>2. /\ open[i].kind = "event" /\ open[i].at = "landed" /\ i \in docs \cup released
      /\ repeats < MaxRepeats /\ repeats' = repeats + 1
      /\ dispatchOpenedDocument(i, Range(shown), FALSE)
      /\ UNCHANGED <<docs, open, shown, activeShown>>
  BY DEF DocumentOpenedAgain, backend, screen
<1>3. repeats' \in 0..MaxRepeats
  BY <1>1, <1>2, TabBoundsAssumption DEF TabsTypeOK
<1>4. CASE i \in released
  BY <1>2, <1>3, <1>4 DEF dispatchOpenedDocument, reducer
<1>5. CASE i \notin released
  <2>1. i \in Range(tabs)
    BY <1>1, <1>2, <1>5 DEF NoLeak, ArrivalInv
  <2>2. session[TabPath(i)] = i
    BY <1>1, <2>1 DEF OneTabPerPath
  <2>3. UNCHANGED <<session, released, closing>> /\ OPEN_DOCUMENT(i, FALSE)
    BY <1>2, <1>5, <2>2 DEF dispatchOpenedDocument, TakesOver, Repeated
  <2> QED
    BY <1>2, <1>3, <2>1, <2>3 DEF OPEN_DOCUMENT
<1> QED
  BY <1>4, <1>5

-----------------------------------------------------------------------------
(* The other steps.                                                        *)

(* Changes of focus and renders touch no document. *)
LEMMA FrontStep ==
  ASSUME TabsInv, UNCHANGED <<docs, open, tabs, session, released, closing>>,
         ActiveOf(tabs, active'), repeats' \in 0..MaxRepeats,
         shown' = shown \/ shown' = tabs, ActiveOf(shown', activeShown')
  PROVE  TabsInv'
<1>1. /\ TabsTypeOK /\ NoDeadTab /\ NoLeak /\ OneTabPerPath /\ LandedInv /\ ArrivalInv /\ ReloadInv
  BY DEF TabsInv, TabsSound, TabsMatchDocuments
<1>2. TabsTypeOK'
  BY <1>1 DEF TabsTypeOK
<1>3. NoDeadTab' /\ NoLeak'
  BY <1>1 DEF NoDeadTab, NoLeak
<1>4. OneTabPerPath' /\ ReloadInv'
  BY <1>1 DEF OneTabPerPath, ReloadInv, TabPath
<1>5. LandedInv' /\ ArrivalInv'
  BY <1>1 DEF LandedInv, ArrivalInv, TabPath
<1> QED
  BY <1>2, <1>3, <1>4, <1>5 DEF TabsInv, TabsSound, TabsMatchDocuments

(* A new open disturbs none of those there are. *)
LEMMA StartStep ==
  ASSUME TabsInv, NEW i \in Ids, NEW kind \in Kinds, NEW p \in TabPaths, NEW of \in Ids \cup {NoTab},
         Starts(i, kind, p, of),
         kind = "reload" => of \in Ids /\ open[of].at # "idle" /\ TabPath(of) = p
  PROVE  TabsInv'
<1>1. /\ TabsTypeOK /\ NoDeadTab /\ NoLeak /\ OneTabPerPath /\ LandedInv /\ ArrivalInv /\ ReloadInv
  BY DEF TabsInv, TabsSound, TabsMatchDocuments
<1>2. /\ docs \subseteq Ids /\ tabs \in Seq(Ids) /\ shown \in Seq(Ids)
      /\ session \in [TabPaths -> Ids \cup {NoTab}]
      /\ released \subseteq Ids /\ closing \subseteq Ids /\ open \in [Ids -> Opens]
  BY <1>1 DEF TabsTypeOK
<1>3. open[i].at = "idle"
  BY DEF Starts, NextId
<1>4. UNCHANGED <<docs, tabs, active, shown, activeShown, session, released, closing, repeats>>
  BY DEF Starts, reducer, screen
<1>5. /\ open' \in [Ids -> Opens]
      /\ open'[i].at = "parsing" /\ open'[i].kind = kind /\ open'[i].path = p /\ open'[i].of = of
      /\ \A j \in Ids : j # i => open'[j] = open[j]
  BY <1>2 DEF Starts, Opens
<1>6. /\ i \notin Range(tabs) /\ i \notin Range(shown) /\ i \notin released /\ i \notin closing
      /\ i \notin docs /\ \A q \in TabPaths : session[q] # i
  BY <1>1, <1>3, NoTabAssumption DEF LandedInv, NoLeak
<1>7. (\A t \in Range(tabs) : t \in Ids) /\ (\A t \in Range(shown) : t \in Ids)
  BY <1>2 DEF Range
<1>8. TabsTypeOK'
  BY <1>1, <1>4, <1>5 DEF TabsTypeOK
<1>9. NoDeadTab' /\ NoLeak'
  BY <1>1, <1>2, <1>4, <1>5, <1>6 DEF NoDeadTab, NoLeak
<1>10. OneTabPerPath'
  BY <1>1, <1>4, <1>5, <1>6, <1>7 DEF OneTabPerPath, TabPath
<1>11. LandedInv'
  <2>1. \A t \in Range(tabs) \cup Range(shown) \cup released \cup closing : open'[t].at = "landed"
    BY <1>1, <1>2, <1>5, <1>6, <1>7 DEF LandedInv
  <2>2. \A q \in TabPaths : session[q] # NoTab => open'[session[q]].at = "landed" /\ open'[session[q]].path = q
    BY <1>1, <1>2, <1>5, <1>6 DEF LandedInv, TabPath
  <2>3. \A j \in Ids : open'[j].at # "idle" => open'[j].path \in TabPaths
    BY <1>1, <1>5 DEF LandedInv
  <2> QED
    BY <1>4, <2>1, <2>2, <2>3 DEF LandedInv, TabPath
<1>12. ArrivalInv'
  BY <1>1, <1>2, <1>4, <1>5, <1>6 DEF ArrivalInv
<1>13. ReloadInv'
  <2>1. SUFFICES ASSUME NEW j \in Ids, open'[j].kind = "reload", open'[j].at \in {"parsing", "fetching"}
                 PROVE  /\ open'[j].of \in Ids /\ open'[open'[j].of].at # "idle"
                        /\ open'[j].path = open'[open'[j].of].path
    BY DEF ReloadInv, TabPath
  <2>2. CASE j = i
    <3>1. of \in Ids /\ of # i /\ open[of].at # "idle" /\ open[of].path = p
      BY <1>3, <1>5, <2>1, <2>2 DEF TabPath
    <3> QED
      BY <1>5, <2>2, <3>1
  <2>3. CASE j # i
    BY <1>1, <1>3, <1>5, <2>1, <2>3 DEF ReloadInv, TabPath
  <2> QED
    BY <2>2, <2>3
<1> QED
  BY <1>8, <1>9, <1>10, <1>11, <1>12, <1>13 DEF TabsInv, TabsSound, TabsMatchDocuments

(* The backend lets a document go. *)
LEMMA CloseStep ==
  ASSUME TabsInv, NEW i \in Ids, CloseDocument(i)
  PROVE  TabsInv'
<1>1. /\ TabsTypeOK /\ NoDeadTab /\ NoLeak /\ OneTabPerPath /\ LandedInv /\ ArrivalInv /\ ReloadInv
  BY DEF TabsInv, TabsSound, TabsMatchDocuments
<1>2. /\ i \in closing /\ closing' = closing \ {i} /\ docs' = docs \ {i}
      /\ UNCHANGED <<open, tabs, active, shown, activeShown, session, released, repeats>>
  BY DEF CloseDocument, reducer, screen
<1>3. open[i].at = "landed"
  BY <1>1, <1>2 DEF LandedInv
<1>4. TabsTypeOK'
  BY <1>1, <1>2 DEF TabsTypeOK
<1>5. NoDeadTab' /\ NoLeak'
  BY <1>1, <1>2 DEF NoDeadTab, NoLeak
<1>6. OneTabPerPath' /\ ReloadInv'
  BY <1>1, <1>2 DEF OneTabPerPath, ReloadInv, TabPath
<1>7. LandedInv' /\ ArrivalInv'
  BY <1>1, <1>2, <1>3 DEF LandedInv, ArrivalInv, TabPath
<1> QED
  BY <1>4, <1>5, <1>6, <1>7 DEF TabsInv, TabsSound, TabsMatchDocuments

LEMMA InitTabsInv == TabsInit => TabsInv
<1> SUFFICES ASSUME TabsInit PROVE TabsInv
  OBVIOUS
<1>1. Range(<<>>) = {} /\ <<>> \in Seq(Ids) /\ IsInjective(<<>>)
  BY DEF Range, IsInjective
<1>2. TabsTypeOK
  BY <1>1, TabBoundsAssumption DEF TabsInit, TabsTypeOK, ActiveOf, Opens, NoOpen, Kinds
<1>3. NoDeadTab /\ NoLeak /\ OneTabPerPath
  BY <1>1 DEF TabsInit, NoDeadTab, NoLeak, OneTabPerPath
<1>4. LandedInv /\ ArrivalInv /\ ReloadInv
  BY <1>1 DEF TabsInit, NoOpen, LandedInv, ArrivalInv, ReloadInv
<1> QED
  BY <1>2, <1>3, <1>4 DEF TabsInv, TabsSound, TabsMatchDocuments

LEMMA NextTabsInv == TabsInv /\ [TabsNext]_tabVars => TabsInv'
<1> SUFFICES ASSUME TabsInv, [TabsNext]_tabVars PROVE TabsInv'
  OBVIOUS
<1>1. /\ TabsTypeOK /\ NoDeadTab /\ NoLeak /\ OneTabPerPath /\ LandedInv /\ ArrivalInv /\ ReloadInv
  BY DEF TabsInv, TabsSound, TabsMatchDocuments
<1>2. /\ docs \subseteq Ids /\ tabs \in Seq(Ids) /\ shown \in Seq(Ids)
      /\ ActiveOf(tabs, active) /\ ActiveOf(shown, activeShown) /\ repeats \in 0..MaxRepeats
  BY <1>1 DEF TabsTypeOK
<1>3. (\A t \in Range(tabs) : t \in Ids) /\ (\A t \in Range(shown) : t \in Ids)
  BY <1>2 DEF Range
<1>4. \A i \in Ids : open[i].at \in {"fetching", "sent"} => i \in docs
  BY <1>1 DEF ArrivalInv
<1>5. \A i \in Ids : open[i].at = "parsing" => i \notin docs
  BY <1>1 DEF NoLeak, LandedInv
<1>6. ASSUME NEW i \in Ids, NEW kind \in Kinds, NEW p \in TabPaths, StartOpen(i, kind, p) PROVE TabsInv'
  BY <1>6, StartStep DEF StartOpen
<1>7. ASSUME NEW i \in Ids, StartReload(i) PROVE TabsInv'
  <2>1. activeShown \in Ids /\ open[activeShown].at = "landed"
    BY <1>1, <1>3, <1>7 DEF StartReload, LandedInv
  <2>2. TabPath(activeShown) \in TabPaths
    BY <1>1, <2>1 DEF LandedInv, TabPath
  <2>3. Starts(i, "reload", TabPath(activeShown), activeShown)
    BY <1>7 DEF StartReload
  <2> QED
    BY <2>1, <2>2, <2>3, StartStep DEF Kinds
<1>8. ASSUME NEW i \in Ids, OpenFails(i) PROVE TabsInv'
  <2>1. /\ open[i].at = "parsing" /\ At(i, "landed")
        /\ UNCHANGED <<docs, reducer, screen, session, released, closing, repeats>>
    BY <1>8 DEF OpenFails
  <2>2. closing' = closing \cup {} /\ {} \in SUBSET {i}
    BY <2>1
  <2> QED
    BY <1>2, <1>5, <2>1, <2>2, QuietOpen
<1>9. ASSUME NEW i \in Ids, OpenRegisters(i) PROVE TabsInv'
  <2>1. /\ open[i].at = "parsing" /\ At(i, "fetching") /\ docs' = docs \cup {i}
        /\ UNCHANGED <<reducer, screen, session, released, closing, repeats>>
    BY <1>9 DEF OpenRegisters
  <2>2. closing' = closing \cup {} /\ {} \in SUBSET {i}
    BY <2>1
  <2> QED
    BY <1>2, <2>1, <2>2, QuietOpen
<1>10. ASSUME NEW i \in Ids, FetchFails(i) PROVE TabsInv'
  <2>1. /\ open[i].at = "fetching" /\ At(i, "landed") /\ i \in docs
        /\ UNCHANGED <<reducer, screen, session, released, repeats>>
    BY <1>4, <1>10 DEF FetchFails
  <2>2. CASE open[i].kind = "event"
    <3>1. docs' = docs \ {i} /\ closing' = closing \cup {} /\ {} \in SUBSET {i}
      BY <1>10, <2>2 DEF FetchFails
    <3> QED
      BY <1>2, <2>1, <3>1, QuietOpen
  <2>3. CASE open[i].kind # "event"
    <3>1. docs' = docs /\ closing' = closing \cup {i} /\ {i} \in SUBSET {i}
      BY <1>10, <2>3 DEF FetchFails
    <3> QED
      BY <1>2, <2>1, <2>3, <3>1, QuietOpen
  <2> QED
    BY <2>2, <2>3
<1>11. ASSUME NEW i \in Ids, EmitOpened(i) PROVE TabsInv'
  <2>1. /\ open[i].at = "fetching" /\ At(i, "sent") /\ i \in docs
        /\ UNCHANGED <<docs, reducer, screen, session, released, closing, repeats>>
    BY <1>4, <1>11 DEF EmitOpened
  <2>2. closing' = closing \cup {} /\ {} \in SUBSET {i}
    BY <2>1
  <2> QED
    BY <1>2, <2>1, <2>2, QuietOpen
<1>12. ASSUME NEW i \in Ids, DocumentOpened(i) PROVE TabsInv'
  BY <1>12, LandStep DEF DocumentOpened
<1>13. ASSUME NEW i \in Ids, DocumentOpenedAgain(i) PROVE TabsInv'
  <2>1. /\ UNCHANGED <<docs, open, tabs, shown, activeShown, session, released, closing>>
        /\ active' = active \/ (i \in Range(tabs) /\ active' = i)
        /\ repeats' \in 0..MaxRepeats
    BY <1>13, AgainOnlyActivates
  <2>2. ActiveOf(tabs, active')
    BY <1>2, <2>1 DEF ActiveOf, Range
  <2> QED
    BY <1>2, <2>1, <2>2, FrontStep
<1>14. ASSUME NEW i \in Ids, OpenLands(i) PROVE TabsInv'
  BY <1>14, LandStep DEF OpenLands
<1>15. ASSUME NEW i \in Ids, ReloadLands(i) PROVE TabsInv'
  <2>1. /\ open[i].at = "fetching" /\ open[i].kind = "reload" /\ At(i, "landed")
        /\ UNCHANGED <<docs, screen, repeats>>
    BY <1>15 DEF ReloadLands
  <2>2. CASE open[i].of \in Range(shown)
    <3>1. dispatchOpenedDocument(i, Range(shown), TRUE)
      BY <1>15, <2>2 DEF ReloadLands
    <3> QED
      BY <2>1, <3>1, LandStep
  <2>3. CASE open[i].of \notin Range(shown)
    <3>1. closing' = closing \cup {i} /\ UNCHANGED <<reducer, session, released>> /\ {i} \in SUBSET {i}
      BY <1>15, <2>3 DEF ReloadLands
    <3> QED
      BY <1>2, <1>4, <2>1, <3>1, QuietOpen
  <2> QED
    BY <2>2, <2>3
<1>16. ASSUME NEW t \in Ids, CloseClicked(t) PROVE TabsInv'
  BY <1>16, CloseTabStep DEF CloseClicked
<1>17. ASSUME CloseFromMenu PROVE TabsInv'
  BY <1>17, CloseTabStep DEF CloseFromMenu
<1>18. ASSUME NEW t \in Ids, Activate(t) PROVE TabsInv'
  <2>1. /\ t \in Range(shown) /\ active' = (IF t \in Range(tabs) THEN t ELSE active)
        /\ activeShown' \in {activeShown, t}
        /\ UNCHANGED <<docs, open, tabs, shown, session, released, closing, repeats>>
    BY <1>18 DEF Activate, backend
  <2>2. ActiveOf(tabs, active') /\ ActiveOf(shown, activeShown')
    BY <1>2, <2>1 DEF ActiveOf, Range
  <2> QED
    BY <1>2, <2>1, <2>2, FrontStep
<1>19. ASSUME Render PROVE TabsInv'
  BY <1>2, <1>19, FrontStep DEF Render, backend, reducer
<1>20. ASSUME NEW i \in Ids, CloseDocument(i) PROVE TabsInv'
  BY <1>20, CloseStep
<1>21. CASE UNCHANGED tabVars
  BY <1>2, <1>21, FrontStep DEF tabVars
<1> QED
  BY <1>6, <1>7, <1>8, <1>9, <1>10, <1>11, <1>12, <1>13, <1>14, <1>15, <1>16, <1>17, <1>18,
     <1>19, <1>20, <1>21 DEF TabsNext

(* Whatever opens, closes, events, repeats and renders come in whatever     *)
(* order: every tab has its document, every document its tab or a close on  *)
(* its way, and a path one tab.                                             *)
THEOREM TabsAreSound == TabsSpec => []TabsSound
<1>1. TabsInv => TabsSound
  BY DEF TabsInv
<1> QED
  BY <1>1, InitTabsInv, NextTabsInv, PTL DEF TabsSpec

(* A reload that lands moves no tab and no focus.                            *)
THEOREM ReloadsAreQuiet == TabsSpec => ReloadQuiet
<1> DEFINE Quietly ==
      \A i \in Ids : ReloadLands(i) /\ ~CloseUnseen(open[i].of) =>
        /\ [k \in DOMAIN tabs' |-> open[tabs'[k]].path] = PathsOf(tabs)
        /\ (IF active' = NoTab THEN NoTab ELSE open[active'].path) = ActivePath
<1>1. TabsInv /\ [TabsNext]_tabVars => [Quietly]_tabVars
  <2> SUFFICES ASSUME TabsInv, NEW i \in Ids, ReloadLands(i), ~CloseUnseen(open[i].of)
               PROVE  /\ [k \in DOMAIN tabs' |-> open[tabs'[k]].path] = PathsOf(tabs)
                      /\ (IF active' = NoTab THEN NoTab ELSE open[active'].path) = ActivePath
    OBVIOUS
  <2> DEFINE p == TabPath(i)
             t == open[i].of
  <2>1. /\ TabsTypeOK /\ OneTabPerPath /\ LandedInv /\ ReloadInv
        /\ tabs \in Seq(Ids) /\ IsInjective(tabs) /\ ActiveOf(tabs, active)
    BY DEF TabsInv, TabsSound, TabsMatchDocuments, TabsTypeOK
  <2>2. /\ open[i].at = "fetching" /\ open[i].kind = "reload" /\ t \in Ids /\ TabPath(t) = p
    BY <2>1 DEF ReloadLands, ReloadInv, TabPath
  <2>3. CASE UNCHANGED <<tabs, active>>
    BY <2>3 DEF PathsOf, ActivePath, TabPath
  <2>4. CASE t \in Range(shown) /\ i \notin released
    <3>1. t \in Range(tabs)
      BY <2>4 DEF CloseUnseen
    <3>2. OPEN_DOCUMENT(i, TRUE) /\ i \notin Range(tabs)
      BY <2>1, <2>2, <2>4 DEF ReloadLands, dispatchOpenedDocument, TakesOver, LandedInv
    <3>3. Held(p) # {}
      BY <2>1, <2>2, <3>1 DEF Held, Range
    <3>4. PICK k \in Held(p) :
            /\ tabs' = [tabs EXCEPT ![k] = i]
            /\ active' = IF tabs[k] # active THEN active ELSE i
      BY <3>2, <3>3 DEF OPEN_DOCUMENT
    <3>5. k \in DOMAIN tabs /\ open[tabs[k]].path = p /\ open[i].path = p
      BY <3>4 DEF Held, TabPath
    <3>6. [j \in DOMAIN tabs' |-> open[tabs'[j]].path] = PathsOf(tabs)
      BY <2>1, <3>4, <3>5 DEF PathsOf, TabPath
    <3>7. active # NoTab
      BY <2>1, <3>5, NoTabAssumption DEF ActiveOf, Range
    <3>8. (IF active' = NoTab THEN NoTab ELSE open[active'].path) = ActivePath
      BY <3>4, <3>5, <3>7, NoTabAssumption DEF ActivePath, TabPath
    <3> QED
      BY <3>6, <3>8
  <2>5. UNCHANGED <<tabs, active>> \/ (t \in Range(shown) /\ i \notin released)
    BY DEF ReloadLands, dispatchOpenedDocument, reducer
  <2> QED
    BY <2>3, <2>4, <2>5
<1> QED
  BY <1>1, InitTabsInv, NextTabsInv, PTL DEF TabsSpec, ReloadQuiet

-----------------------------------------------------------------------------
(* DiffSide.                                                               *)

(* The ids handed out so far. *)
UsedIds == 1..(2 + asked)

AskKinds == {"pick", "check", "compare", "promote", "reload"}

SideTypeOK ==
  /\ asked \in 0..MaxAsks /\ due \in BOOLEAN /\ mounted \in BOOLEAN
  /\ sideDocs \subseteq UsedIds /\ strip \subseteq UsedIds /\ rStrip \subseteq UsedIds
  /\ gone \subseteq UsedIds
  /\ {front, rFront, effFront, right, rRight, effRight, promoted} \subseteq UsedIds \cup {NoRight}
  /\ origin \in [SideIds -> [file : SideIds, kind : {"tab", "pick", "compare"},
                             tab : SideIds \cup {NoRight}]]
  /\ asks \subseteq [kind : AskKinds, tab : UsedIds, doc : UsedIds]
  /\ confirm \in [kind : {"check"}, tab : UsedIds, doc : UsedIds] \cup {NoRight}

(* A copy from disk is of the file of the tab it was asked for, which is older. *)
OriginInv ==
  \A d \in SideIds : origin[d].kind = "compare" =>
    /\ d \in UsedIds /\ origin[d].tab \in UsedIds /\ origin[d].tab < d
    /\ origin[d].file = origin[origin[d].tab].file

(* The calls that bring a new document. *)
Bringing == {a \in asks : a.kind # "promote"}
Fresh(d) ==
  /\ d \notin sideDocs /\ d \notin strip /\ d \notin rStrip /\ d \notin gone
  /\ d \notin {right, rRight, effRight, promoted}

(* A document on its way is known to nobody and comes once. *)
AsksInv ==
  /\ \A a \in Bringing : Fresh(a.doc)
  /\ \A a, b \in Bringing : a.doc = b.doc => a = b
  /\ \A a \in asks : a.kind \in {"pick", "check", "compare"} => origin[a.doc].tab = a.tab
  /\ \A a \in asks : a.kind = "promote" =>
       origin[a.doc].kind = "compare" /\ \A b \in Bringing : a.doc # b.doc
  /\ \A a \in asks : a.kind = "promote" /\ confirm # NoRight => a.doc # confirm.doc
  /\ confirm # NoRight =>
       /\ Fresh(confirm.doc) /\ origin[confirm.doc].tab = confirm.tab
       /\ \A a \in Bringing : a.doc # confirm.doc

(* The strip, its render, and what left it. *)
StripInv ==
  /\ strip \subseteq sideDocs /\ strip \cap gone = {} /\ gone \cap sideDocs = {}
  /\ rStrip \subseteq strip \cup gone
  /\ IF strip = {} THEN front = NoRight ELSE front \in strip
  /\ IF rStrip = {} THEN rFront = NoRight ELSE rFront \in rStrip
  /\ mounted <=> rStrip # {}
  /\ ~mounted => /\ strip = {} /\ ~due
                 /\ right = NoRight /\ rRight = NoRight /\ effRight = NoRight

(* What the effects have seen. *)
EffectsInv ==
  /\ mounted /\ ~due => effRight = rRight /\ effFront = rFront
  /\ effRight # NoRight /\ effRight # rRight => effRight # right

(* The tab the panel was rendered for is on its way out. *)
Leaves == (due /\ effFront # rFront) \/ rFront \notin strip

(* The right side belongs to the rendered tab unless that is on its way out. *)
RightInv ==
  /\ right # NoRight => origin[right].tab = rFront \/ (due /\ effFront # rFront)
  /\ right # NoRight => right \in sideDocs \cup gone
  /\ rRight # NoRight => rRight \in sideDocs \cup gone
  /\ right # NoRight /\ right \in strip \cup gone => Leaves

(* The cleanup still has to come across the document that was promoted last,
   and knows it. *)
PromotedInv ==
  /\ effRight \in strip => promoted = effRight
  /\ rRight \in strip => promoted = rRight
  /\ promoted # NoRight => promoted \in strip \cup gone
  /\ right # NoRight /\ right # rRight => right \notin strip \cup gone
  /\ \A a \in asks : a.kind = "promote" =>
       /\ rRight = a.doc => effRight = a.doc
       /\ right = a.doc => rRight = a.doc

LeakInv == sideDocs \subseteq strip \cup {right, rRight, effRight} \cup overwritten

SideInv ==
  SideTypeOK /\ OriginInv /\ AsksInv /\ StripInv /\ EffectsInv /\ RightInv /\ PromotedInv /\ LeakInv

(* Two tabs, no comparison. *)
LEMMA DsInitInv == DsInit => SideInv
<1> SUFFICES ASSUME DsInit PROVE SideInv
  OBVIOUS
<1>1. UsedIds = {1, 2} /\ FirstTabs = {1, 2} /\ UsedIds \subseteq SideIds /\ NoRight \notin UsedIds
  BY DiffSideAssumption, NoRightAssumption DEF DsInit, UsedIds, FirstTabs, SideIds
<1>2. SideTypeOK
  <2>1. asked \in 0..MaxAsks
    BY DiffSideAssumption DEF DsInit
  <2>6. due \in BOOLEAN /\ mounted \in BOOLEAN
    BY DEF DsInit
  <2>2. origin \in [SideIds -> [file : SideIds, kind : {"tab", "pick", "compare"},
                              tab : SideIds \cup {NoRight}]]
    BY DEF DsInit
  <2>3. asks = {} /\ confirm = NoRight
    BY DEF DsInit
  <2>4. {front, rFront, effFront, right, rRight, effRight, promoted} \subseteq UsedIds \cup {NoRight}
    BY <1>1 DEF DsInit
  <2>5. sideDocs \subseteq UsedIds /\ strip \subseteq UsedIds /\ rStrip \subseteq UsedIds /\ gone \subseteq UsedIds
    BY <1>1 DEF DsInit
  <2> QED
    BY <2>1, <2>2, <2>3, <2>4, <2>5, <2>6 DEF SideTypeOK
<1>3. OriginInv /\ AsksInv
  BY <1>1 DEF DsInit, OriginInv, AsksInv, Bringing
<1>4. StripInv /\ EffectsInv /\ RightInv /\ PromotedInv /\ LeakInv
  BY <1>1 DEF DsInit, StripInv, EffectsInv, RightInv, PromotedInv, LeakInv
<1> QED
  BY <1>2, <1>3, <1>4 DEF SideInv

(* What a state of the panel is made of. *)
LEMMA UsedFacts ==
  ASSUME SideTypeOK
  PROVE  /\ UsedIds \subseteq SideIds /\ NoRight \notin UsedIds /\ asked \in Nat
         /\ asked < MaxAsks => NewDoc \in SideIds /\ NewDoc \notin UsedIds
BY DiffSideAssumption, NoRightAssumption DEF SideTypeOK, UsedIds, SideIds, NewDoc

(* Steps of the calls that open nothing: the panel's right side stays or is
   cleared. *)
Stays ==
  /\ UNCHANGED <<sideDocs, appState, screenState, promoted>>
  /\ KeepRight \/ setDiffRightTabId(NoRight)

(* They keep what the strip, the effects and the right side promise. *)
LEMMA StaysKeeps ==
  ASSUME SideInv, Stays, \A d \in UsedIds : origin'[d] = origin[d],
         \A a \in asks' : a.kind = "promote" => a \in asks \/ (rRight = a.doc /\ effRight = a.doc)
  PROVE  StripInv' /\ EffectsInv' /\ RightInv' /\ PromotedInv' /\ LeakInv'
<1>1. /\ SideTypeOK /\ StripInv /\ EffectsInv /\ RightInv /\ PromotedInv /\ LeakInv
      /\ NoRight \notin UsedIds
  BY UsedFacts DEF SideInv
<1>2. UNCHANGED <<sideDocs, strip, front, gone, rStrip, rFront, rRight, effFront, effRight, due,
                  mounted, promoted>>
  BY DEF Stays, appState, screenState
<1>3. right' = right \/ right' = NoRight
  BY DEF Stays, KeepRight, setDiffRightTabId
<1>4. overwritten \subseteq overwritten' /\ (right' # right => right = rRight \/ right \in overwritten')
  BY DEF Stays, KeepRight, setDiffRightTabId
<1>5. StripInv' /\ EffectsInv'
  BY <1>1, <1>2, <1>3 DEF StripInv, EffectsInv
<1>6. RightInv'
  BY <1>1, <1>2, <1>3 DEF RightInv, Leaves, SideTypeOK
<1>7. PromotedInv'
  <2>1. ASSUME NEW a \in asks', a.kind = "promote"
        PROVE  (rRight = a.doc => effRight = a.doc) /\ (right' = a.doc => rRight = a.doc)
    BY <1>1, <1>3, <2>1 DEF PromotedInv, SideTypeOK, SideInv
  <2> QED
    BY <1>1, <1>2, <1>3, <2>1 DEF PromotedInv
<1>8. LeakInv'
  BY <1>1, <1>2, <1>3, <1>4 DEF LeakInv
<1> QED
  BY <1>5, <1>6, <1>7, <1>8

(* A new call, and the document it will bring. *)
LEMMA NewCall ==
  ASSUME SideInv, NewAsk, rFront # NoRight, NEW k \in {"pick", "check", "reload"},
         NEW o \in [file : SideIds, kind : {"tab", "pick", "compare"}, tab : SideIds \cup {NoRight}],
         origin' = [origin EXCEPT ![NewDoc] = o],
         k = "reload" \/ o.tab = rFront,
         o.kind = "compare" => o.tab = rFront /\ o.file = origin[rFront].file,
         Asks(k, rFront, NewDoc), KeepRight,
         UNCHANGED <<sideDocs, appState, screenState, promoted, confirm>>
  PROVE  SideInv'
<1>1. /\ SideTypeOK /\ OriginInv /\ AsksInv /\ StripInv
      /\ UsedIds \subseteq SideIds /\ NoRight \notin UsedIds /\ asked \in Nat
  BY UsedFacts DEF SideInv
<1>2. /\ NewDoc \in SideIds /\ NewDoc \notin UsedIds /\ asked' = asked + 1 /\ asked' \in 0..MaxAsks
  BY <1>1, UsedFacts, DiffSideAssumption DEF NewAsk, SideTypeOK
<1>3. /\ UsedIds \subseteq UsedIds' /\ NewDoc \in UsedIds' /\ \A d \in UsedIds' : d \in UsedIds \/ d = NewDoc
      /\ \A d \in UsedIds : d < NewDoc
  BY <1>1, <1>2 DEF UsedIds, NewDoc
<1>4. /\ UNCHANGED <<sideDocs, strip, front, gone, rStrip, rFront, rRight, effFront, effRight, due,
                     mounted, promoted, confirm, right, overwritten>>
  BY DEF appState, screenState, KeepRight
<1>5. /\ origin' \in [SideIds -> [file : SideIds, kind : {"tab", "pick", "compare"},
                                  tab : SideIds \cup {NoRight}]]
      /\ origin'[NewDoc] = o /\ \A d \in UsedIds : origin'[d] = origin[d]
  BY <1>1, <1>2 DEF SideTypeOK
<1>6. rFront \in UsedIds
  BY <1>1 DEF SideTypeOK
<1> DEFINE new == [kind |-> k, tab |-> rFront, doc |-> NewDoc]
<1>7. asks' = asks \cup {new} /\ new.kind = k /\ new.tab = rFront /\ new.doc = NewDoc /\ k # "promote"
  BY DEF Asks
<1>8. new \in [kind : AskKinds, tab : UsedIds', doc : UsedIds']
  BY <1>3, <1>6 DEF AskKinds
<1> HIDE DEF new
<1>9. SideTypeOK'
  <2>1. asks' \subseteq [kind : AskKinds, tab : UsedIds', doc : UsedIds']
    BY <1>1, <1>3, <1>7, <1>8 DEF SideTypeOK
  <2>2. confirm \in [kind : {"check"}, tab : UsedIds', doc : UsedIds'] \cup {NoRight}
    BY <1>1, <1>3 DEF SideTypeOK
  <2>3. {front, rFront, effFront, right, rRight, effRight, promoted} \subseteq UsedIds' \cup {NoRight}
    BY <1>1, <1>3 DEF SideTypeOK
  <2>4. /\ sideDocs \subseteq UsedIds' /\ strip \subseteq UsedIds' /\ rStrip \subseteq UsedIds'
        /\ gone \subseteq UsedIds'
    BY <1>1, <1>3 DEF SideTypeOK
  <2>5. due \in BOOLEAN /\ mounted \in BOOLEAN
    BY <1>1 DEF SideTypeOK
  <2> QED
    BY <1>2, <1>4, <1>5, <2>1, <2>2, <2>3, <2>4, <2>5 DEF SideTypeOK
<1>10. OriginInv'
  <2>1. ASSUME NEW d \in SideIds, origin'[d].kind = "compare"
        PROVE  /\ d \in UsedIds' /\ origin'[d].tab \in UsedIds' /\ origin'[d].tab < d
               /\ origin'[d].file = origin'[origin'[d].tab].file
    <3>1. CASE d = NewDoc
      BY <1>3, <1>5, <1>6, <2>1, <3>1
    <3>2. CASE d # NewDoc
      <4>1. origin'[d] = origin[d]
        BY <1>1, <1>2, <3>2 DEF SideTypeOK
      <4>2. /\ d \in UsedIds /\ origin[d].tab \in UsedIds /\ origin[d].tab < d
            /\ origin[d].file = origin[origin[d].tab].file
        BY <1>1, <2>1, <4>1 DEF OriginInv
      <4> QED
        BY <1>3, <1>5, <4>1, <4>2
    <3> QED
      BY <3>1, <3>2
  <2> QED
    BY <2>1 DEF OriginInv
<1>11. Fresh(NewDoc) /\ \A a \in asks : a.doc # NewDoc /\ a.doc \in UsedIds
  BY <1>1, <1>2, NoRightAssumption DEF SideTypeOK, Fresh
<1>12. \A d : Fresh(d)' <=> Fresh(d)
  BY <1>4 DEF Fresh
<1>13. confirm # NoRight => confirm.doc \in UsedIds
  BY <1>1 DEF SideTypeOK
<1>14. \A a : a \in Bringing' <=> a \in Bringing \/ a = new
  BY <1>7 DEF Bringing
<1>15. AsksInv'
  <2>1. \A a \in Bringing' : Fresh(a.doc)'
    BY <1>1, <1>7, <1>11, <1>12, <1>14 DEF AsksInv
  <2>2. \A a, b \in Bringing' : a.doc = b.doc => a = b
    BY <1>1, <1>7, <1>11, <1>14 DEF AsksInv, Bringing
  <2>3. \A a \in asks' : a.kind \in {"pick", "check", "compare"} => origin'[a.doc].tab = a.tab
    BY <1>1, <1>5, <1>7, <1>11 DEF AsksInv
  <2>4. \A a \in asks' : a.kind = "promote" =>
          origin'[a.doc].kind = "compare" /\ \A b \in Bringing' : a.doc # b.doc
    BY <1>1, <1>5, <1>7, <1>11, <1>14 DEF AsksInv
  <2>5. \A a \in asks' : a.kind = "promote" /\ confirm # NoRight => a.doc # confirm.doc
    BY <1>1, <1>7 DEF AsksInv
  <2>6. confirm # NoRight =>
          /\ Fresh(confirm.doc) /\ origin'[confirm.doc].tab = confirm.tab
          /\ \A a \in Bringing' : a.doc # confirm.doc
    BY <1>1, <1>2, <1>5, <1>7, <1>13, <1>14 DEF AsksInv
  <2> QED
    BY <1>4, <1>12, <2>1, <2>2, <2>3, <2>4, <2>5, <2>6 DEF AsksInv
<1>16. \A a \in asks' : a.kind = "promote" => a \in asks \/ (rRight = a.doc /\ effRight = a.doc)
  BY <1>7
<1>17. StripInv' /\ EffectsInv' /\ RightInv' /\ PromotedInv' /\ LeakInv'
  BY <1>5, <1>16, StaysKeeps DEF Stays
<1> QED
  BY <1>9, <1>10, <1>15, <1>17 DEF SideInv

(* A request that is passed on: from a call to the dialog or the next call,
   or dropped. *)
LEMMA Passed ==
  ASSUME SideInv, NEW rest \in SUBSET asks,
         NEW c \in [kind : {"check", "compare"}, tab : UsedIds, doc : UsedIds],
         Fresh(c.doc), origin[c.doc].tab = c.tab,
         \A b \in rest : b.doc # c.doc,
         \/ asks' = rest /\ confirm' = confirm
         \/ asks' = rest /\ c.kind = "check" /\ confirm' = c
         \/ /\ asks' \in {rest, rest \cup {c}} /\ confirm' \in {confirm, NoRight}
            /\ confirm' # NoRight => confirm.doc # c.doc,
         KeepRight \/ setDiffRightTabId(NoRight),
         UNCHANGED <<sideDocs, origin, appState, screenState, promoted, asked>>
  PROVE  SideInv'
<1>1. /\ SideTypeOK /\ OriginInv /\ AsksInv /\ NoRight \notin UsedIds
  BY UsedFacts DEF SideInv
<1>2. /\ UNCHANGED <<sideDocs, strip, front, gone, rStrip, rFront, rRight, effFront, effRight, due,
                     mounted, promoted, origin, asked>>
      /\ UsedIds' = UsedIds
  BY DEF appState, screenState, UsedIds
<1>3. right' \in {right, NoRight}
  BY DEF KeepRight, setDiffRightTabId
<1>4. asks' \subseteq asks \cup {c} /\ c.kind # "promote" /\ c.kind \in AskKinds
  BY DEF AskKinds
<1>5. SideTypeOK'
  <2>1. asks' \subseteq [kind : AskKinds, tab : UsedIds, doc : UsedIds]
    BY <1>1, <1>4 DEF SideTypeOK
  <2>2. confirm' \in [kind : {"check"}, tab : UsedIds, doc : UsedIds] \cup {NoRight}
    BY <1>1 DEF SideTypeOK
  <2>3. right' \in UsedIds \cup {NoRight}
    BY <1>1, <1>3 DEF SideTypeOK
  <2> QED
    BY <1>1, <1>2, <2>1, <2>2, <2>3 DEF SideTypeOK
<1>6. OriginInv'
  BY <1>1, <1>2 DEF OriginInv
<1>7. \A d \in UsedIds : Fresh(d) => Fresh(d)'
  BY <1>1, <1>2, <1>3 DEF Fresh
<1>8. /\ \A a \in asks' : a = c \/ a \in rest
      /\ \A a \in Bringing' : a = c \/ (a \in rest /\ a \in Bringing)
      /\ \A a \in asks' : a.doc \in UsedIds
      /\ confirm' # NoRight => \/ asks' = rest /\ confirm' \in {confirm, c}
                               \/ confirm' = confirm /\ confirm.doc # c.doc
  BY <1>1, <1>4 DEF Bringing, SideTypeOK
<1>9. AsksInv'
  <2>1. \A a \in Bringing' : Fresh(a.doc)'
    BY <1>1, <1>7, <1>8 DEF AsksInv
  <2>2. \A a, b \in Bringing' : a.doc = b.doc => a = b
    BY <1>1, <1>8 DEF AsksInv
  <2>3. \A a \in asks' : a.kind \in {"pick", "check", "compare"} => origin'[a.doc].tab = a.tab
    BY <1>1, <1>2, <1>8 DEF AsksInv
  <2>4. \A a \in asks' : a.kind = "promote" =>
          origin'[a.doc].kind = "compare" /\ \A b \in Bringing' : a.doc # b.doc
    BY <1>1, <1>2, <1>4, <1>8 DEF AsksInv
  <2>5. \A a \in asks' : a.kind = "promote" /\ confirm' # NoRight => a.doc # confirm'.doc
    BY <1>1, <1>4, <1>8 DEF AsksInv
  <2>6. ASSUME NEW k, k = confirm', k # NoRight
        PROVE  /\ Fresh(k.doc)' /\ origin'[k.doc].tab = k.tab
               /\ \A a \in Bringing' : a.doc # k.doc
    <3>1. k.doc \in UsedIds /\ k \in {confirm, c}
      BY <1>1, <1>8, <2>6 DEF SideTypeOK
    <3>2. Fresh(k.doc) /\ origin[k.doc].tab = k.tab
      BY <1>1, <2>6, <3>1 DEF AsksInv
    <3>3. \A a \in Bringing' : \/ a \in Bringing /\ a \in rest
                               \/ a = c /\ k = confirm /\ confirm.doc # c.doc
      BY <1>8, <2>6 DEF Bringing
    <3>4. \A a \in Bringing' : a.doc # k.doc
      BY <1>1, <2>6, <3>1, <3>3 DEF AsksInv
    <3> QED
      BY <1>2, <1>7, <3>1, <3>2, <3>4
  <2> QED
    BY <2>1, <2>2, <2>3, <2>4, <2>5, <2>6 DEF AsksInv
<1>10. StripInv' /\ EffectsInv' /\ RightInv' /\ PromotedInv' /\ LeakInv'
  BY <1>2, <1>4, <1>8, StaysKeeps DEF Stays
<1> QED
  BY <1>5, <1>6, <1>9, <1>10 DEF SideInv

(* A click that opens nothing uses up a number. *)
LEMMA Clicks ==
  ASSUME SideTypeOK, asked' = asked \/ NewAsk
  PROVE  asked' \in 0..MaxAsks /\ UsedIds \subseteq UsedIds'
BY DiffSideAssumption DEF SideTypeOK, NewAsk, UsedIds

(* Calls that end, clears, and the click on Reload bring nothing new. *)
LEMMA Fewer ==
  ASSUME SideInv, NEW c, asks' \subseteq asks \cup {c}, UNCHANGED confirm,
         asks' \subseteq asks \/ (c = [kind |-> "promote", tab |-> rFront, doc |-> rRight]
                        /\ rFront # NoRight /\ rRight # NoRight /\ effRight = rRight
                        /\ origin[rRight].kind = "compare"),
         KeepRight \/ setDiffRightTabId(NoRight),
         UNCHANGED <<sideDocs, origin, appState, screenState, promoted>>, asked' = asked \/ NewAsk
  PROVE  SideInv'
<1>1. /\ SideTypeOK /\ OriginInv /\ AsksInv /\ NoRight \notin UsedIds
      /\ asked' \in 0..MaxAsks /\ UsedIds \subseteq UsedIds'
  BY UsedFacts, Clicks DEF SideInv
<1>2. UNCHANGED <<sideDocs, strip, front, gone, rStrip, rFront, rRight, effFront, effRight, due,
                  mounted, promoted, origin, confirm>>
  BY DEF appState, screenState
<1>3. right' \in {right, NoRight}
  BY DEF KeepRight, setDiffRightTabId
<1>4. \A a \in asks' : a \in asks \/ (a = c /\ a \in [kind : AskKinds, tab : UsedIds, doc : UsedIds]
                                     /\ a.kind = "promote")
  BY <1>1 DEF SideTypeOK, AskKinds
<1>5. Bringing' \subseteq Bringing /\ \A a \in Bringing : a.doc \in UsedIds
  BY <1>1, <1>4 DEF Bringing, SideTypeOK
<1>6. SideTypeOK'
  <2>1. asks' \subseteq [kind : AskKinds, tab : UsedIds', doc : UsedIds']
    BY <1>1, <1>4 DEF SideTypeOK
  <2>2. confirm \in [kind : {"check"}, tab : UsedIds', doc : UsedIds'] \cup {NoRight}
    BY <1>1 DEF SideTypeOK
  <2>3. {front, rFront, effFront, right', rRight, effRight, promoted} \subseteq UsedIds' \cup {NoRight}
    BY <1>1, <1>3 DEF SideTypeOK
  <2>4. /\ sideDocs \subseteq UsedIds' /\ strip \subseteq UsedIds' /\ rStrip \subseteq UsedIds'
        /\ gone \subseteq UsedIds'
    BY <1>1 DEF SideTypeOK
  <2>5. due \in BOOLEAN /\ mounted \in BOOLEAN
    BY <1>1 DEF SideTypeOK
  <2> QED
    BY <1>1, <1>2, <2>1, <2>2, <2>3, <2>4, <2>5 DEF SideTypeOK
<1>7. OriginInv'
  BY <1>1, <1>2 DEF OriginInv
<1>8. \A d : d # NoRight /\ Fresh(d) => Fresh(d)'
  BY <1>2, <1>3 DEF Fresh
<1>9. ASSUME NEW a \in asks', a.kind = "promote"
      PROVE  /\ origin[a.doc].kind = "compare" /\ \A b \in Bringing : a.doc # b.doc
             /\ confirm # NoRight => a.doc # confirm.doc
  <2>1. CASE a \in asks
    BY <1>1, <1>9, <2>1 DEF AsksInv
  <2>2. CASE a \notin asks
    BY <1>1, <2>2 DEF AsksInv, Fresh
  <2> QED
    BY <2>1, <2>2
<1>10. AsksInv'
  <2>1. \A a \in Bringing' : Fresh(a.doc)'
    BY <1>1, <1>5, <1>8 DEF AsksInv
  <2>2. \A a, b \in Bringing' : a.doc = b.doc => a = b
    BY <1>1, <1>5 DEF AsksInv
  <2>3. \A a \in asks' : a.kind \in {"pick", "check", "compare"} => origin'[a.doc].tab = a.tab
    BY <1>1, <1>2, <1>4 DEF AsksInv
  <2>4. \A a \in asks' : a.kind = "promote" =>
          origin'[a.doc].kind = "compare" /\ \A b \in Bringing' : a.doc # b.doc
    BY <1>1, <1>2, <1>5, <1>9 DEF AsksInv
  <2>5. \A a \in asks' : a.kind = "promote" /\ confirm # NoRight => a.doc # confirm.doc
    BY <1>1, <1>9 DEF AsksInv
  <2>6. confirm # NoRight =>
          /\ Fresh(confirm.doc)' /\ origin'[confirm.doc].tab = confirm.tab
          /\ \A a \in Bringing' : a.doc # confirm.doc
    <3>1. confirm # NoRight => confirm.doc \in UsedIds
      BY <1>1 DEF SideTypeOK
    <3> QED
      BY <1>1, <1>2, <1>5, <1>8, <3>1 DEF AsksInv
  <2> QED
    BY <1>2, <2>1, <2>2, <2>3, <2>4, <2>5, <2>6 DEF AsksInv
<1>11. \A a \in asks' : a.kind = "promote" => a \in asks \/ (rRight = a.doc /\ effRight = a.doc)
  OBVIOUS
<1>12. StripInv' /\ EffectsInv' /\ RightInv' /\ PromotedInv' /\ LeakInv'
  BY <1>2, <1>11, StaysKeeps DEF Stays
<1> QED
  BY <1>6, <1>7, <1>10, <1>12 DEF SideInv

(* The document of a pick or a comparison becomes the right side. *)
LEMMA SideOpened ==
  ASSUME SideInv, NEW a \in asks, a.kind \in {"pick", "compare"}, Current(a.tab), Answered(a),
         setDiffRightTabId(a.doc), sideDocs' = sideDocs \cup {a.doc},
         UNCHANGED <<origin, appState, screenState, promoted, confirm, asked>>
  PROVE  SideInv'
<1>1. /\ SideTypeOK /\ OriginInv /\ AsksInv /\ StripInv /\ EffectsInv /\ RightInv /\ PromotedInv
      /\ LeakInv /\ NoRight \notin UsedIds
  BY UsedFacts DEF SideInv
<1>2. /\ UNCHANGED <<strip, front, gone, rStrip, rFront, rRight, effFront, effRight, due,
                     mounted, promoted, origin, confirm, asked>>
      /\ UsedIds' = UsedIds /\ asks' = asks \ {a} /\ right' = a.doc
      /\ mounted /\ rFront = a.tab
  BY DEF appState, screenState, UsedIds, Answered, setDiffRightTabId, Current
<1>3. a.doc \in UsedIds /\ Fresh(a.doc) /\ origin[a.doc].tab = rFront /\ a \in Bringing
  BY <1>1, <1>2 DEF SideTypeOK, AsksInv, Bringing
<1>4. Bringing' \subseteq Bringing \ {a}
  BY <1>2 DEF Bringing
<1>5. \A d : d # a.doc /\ Fresh(d) => Fresh(d)'
  BY <1>2 DEF Fresh
<1>6. SideTypeOK'
  BY <1>1, <1>2, <1>3 DEF SideTypeOK
<1>7. OriginInv'
  BY <1>1, <1>2 DEF OriginInv
<1>8. AsksInv'
  BY <1>1, <1>2, <1>3, <1>4, <1>5 DEF AsksInv
<1>9. StripInv'
  BY <1>1, <1>2, <1>3 DEF StripInv, Fresh
<1>10. EffectsInv'
  BY <1>1, <1>2, <1>3 DEF EffectsInv, Fresh
<1>11. RightInv'
  BY <1>1, <1>2, <1>3 DEF RightInv, Fresh, Leaves
<1>12. PromotedInv'
  <2>1. \A b \in asks : b.kind = "promote" => b.doc # a.doc
    BY <1>1, <1>3 DEF AsksInv
  <2> QED
    BY <1>1, <1>2, <1>3, <2>1 DEF PromotedInv, Fresh
<1>13. LeakInv'
  <2>1. overwritten \subseteq overwritten' /\ right \in {NoRight, rRight, a.doc} \cup overwritten'
    BY DEF setDiffRightTabId
  <2>2. NoRight \notin sideDocs
    BY <1>1 DEF SideTypeOK
  <2> QED
    BY <1>1, <1>2, <2>1, <2>2 DEF LeakInv
<1> QED
  BY <1>6, <1>7, <1>8, <1>9, <1>10, <1>11, <1>12, <1>13 DEF SideInv

(* dispatchOpenedDocument: what the strip and the documents become. *)
LEMMA ReplacesIs ==
  ASSUME SideTypeOK, StripInv, NEW i \in UsedIds, NEW opened \in SUBSET UsedIds,
         sideDocs \subseteq opened, opened \subseteq sideDocs \cup {i},
         i \in opened \/ i \in gone, i \in gone => opened = sideDocs, Replaces(i, opened)
  PROVE  /\ strip' \subseteq strip \cup {i} /\ (i \in strip' \/ i \in gone)
         /\ (i \in gone => strip' = strip)
         /\ \A t \in strip' : t # i => origin[t].file # origin[i].file \/ i \in gone
         /\ strip' \subseteq sideDocs' /\ strip' \cap gone' = {} /\ gone' \cap sideDocs' = {}
         /\ strip \cup rStrip \subseteq strip' \cup gone'
         /\ gone \subseteq gone' /\ gone' \subseteq gone \cup strip \cup rStrip
         /\ sideDocs' \subseteq sideDocs \cup {i} /\ sideDocs \subseteq sideDocs' \cup gone'
         /\ i \in sideDocs' \cup gone'
         /\ IF strip' = {} THEN front' = NoRight ELSE front' \in strip'
         /\ (strip = {} => i \in gone \/ strip' = {i})
<1> DEFINE held == Holding(origin[i].file)
           earlier == {t \in strip \cup rStrip : origin[t].file = origin[i].file} \ {i}
<1>1. held = {t \in strip : origin[t].file = origin[i].file}
  BY DEF Holding
<1>2. CASE i \in gone
  BY <1>2 DEF Replaces, appState, StripInv
<1>3. CASE i \notin gone
  <2>1. /\ gone' = gone \cup earlier /\ sideDocs' = opened \ earlier
        /\ strip' = (strip \ held) \cup {i}
        /\ front' = IF held # {} /\ front \notin held THEN front ELSE i
    BY <1>3 DEF Replaces
  <2>2. earlier \cap strip = held \ {i} /\ i \notin earlier /\ earlier \subseteq strip \cup rStrip
    BY <1>1
  <2>3. \A t \in strip' : t # i => t \notin earlier /\ t \in strip /\ t \notin held
    BY <2>1, <2>2
  <2>4. front' \in strip'
    BY <1>1, <2>1 DEF StripInv
  <2>5. strip \cup rStrip \subseteq strip' \cup gone'
    BY <1>1, <2>1, <2>2 DEF StripInv
  <2>6. strip' \subseteq sideDocs' /\ strip' \cap gone' = {} /\ gone' \cap sideDocs' = {}
    BY <1>3, <2>1, <2>2, <2>3 DEF StripInv
  <2>7. \A t \in strip' : t # i => origin[t].file # origin[i].file
    BY <1>1, <2>3
  <2> QED
    BY <1>1, <1>3, <2>1, <2>2, <2>4, <2>5, <2>6, <2>7
<1> QED
  BY <1>2, <1>3

(* Steps of the tabs: document i takes a place in the strip or none does. *)
TabsMove(i) ==
  /\ strip' \subseteq strip \cup {i} /\ i \in strip' \cup gone'
  /\ strip' \subseteq sideDocs' /\ strip' \cap gone' = {} /\ gone' \cap sideDocs' = {}
  /\ strip \cup rStrip \subseteq strip' \cup gone'
  /\ gone \subseteq gone' /\ gone' \subseteq gone \cup strip \cup rStrip
  /\ sideDocs' \subseteq sideDocs \cup {i} /\ sideDocs \subseteq sideDocs' \cup gone'
  /\ IF strip' = {} THEN front' = NoRight ELSE front' \in strip'

LEMMA TabsMoved ==
  ASSUME SideInv, NEW i \in UsedIds, TabsMove(i), asks' \subseteq asks,
         KeepRight, UNCHANGED <<origin, screenState, confirm>>, asked' = asked \/ NewAsk,
         \/ i \in strip \cup gone /\ promoted' = promoted
         \/ /\ mounted /\ promoted' = promoted
            /\ \E a \in Bringing \ asks' : a.doc = i
         \/ /\ mounted /\ i = rRight /\ effRight = rRight /\ promoted' = i
            /\ right = i => Leaves'
  PROVE  SideInv'
<1>1. /\ SideTypeOK /\ OriginInv /\ AsksInv /\ StripInv /\ EffectsInv /\ RightInv /\ PromotedInv
      /\ LeakInv /\ NoRight \notin UsedIds
      /\ asked' \in 0..MaxAsks /\ UsedIds \subseteq UsedIds'
  BY UsedFacts, Clicks DEF SideInv
<1>2. UNCHANGED <<rStrip, rFront, rRight, effFront, effRight, due, mounted, origin, confirm,
                  right, overwritten>>
  BY DEF screenState, KeepRight
<1>3. Bringing' \subseteq Bringing /\ \A a \in Bringing : a.doc \in UsedIds
  BY <1>1 DEF Bringing, SideTypeOK
<1>4. /\ \A b \in Bringing' : b.doc # i
      /\ confirm # NoRight => confirm.doc # i
  BY <1>1, <1>3 DEF AsksInv, Fresh, Bringing
<1>5. SideTypeOK'
  <2>1. asks' \subseteq [kind : AskKinds, tab : UsedIds', doc : UsedIds']
    BY <1>1 DEF SideTypeOK
  <2>2. confirm \in [kind : {"check"}, tab : UsedIds', doc : UsedIds'] \cup {NoRight}
    BY <1>1 DEF SideTypeOK
  <2>3. /\ strip' \subseteq UsedIds' /\ gone' \subseteq UsedIds' /\ sideDocs' \subseteq UsedIds'
        /\ rStrip \subseteq UsedIds'
    BY <1>1 DEF SideTypeOK, TabsMove
  <2>4. {front', rFront, effFront, right, rRight, effRight, promoted'} \subseteq UsedIds' \cup {NoRight}
    BY <1>1, <2>3 DEF SideTypeOK, TabsMove
  <2>5. due \in BOOLEAN /\ mounted \in BOOLEAN
    BY <1>1 DEF SideTypeOK
  <2>6. origin \in [SideIds -> [file : SideIds, kind : {"tab", "pick", "compare"},
                                tab : SideIds \cup {NoRight}]]
    BY <1>1 DEF SideTypeOK
  <2> QED
    BY <1>1, <1>2, <2>1, <2>2, <2>3, <2>4, <2>5, <2>6 DEF SideTypeOK
<1>6. OriginInv'
  BY <1>1, <1>2 DEF OriginInv
<1>7. ASSUME NEW d \in UsedIds, d # i, Fresh(d) PROVE Fresh(d)'
  <2>1. promoted' \in {promoted, i}
    OBVIOUS
  <2> QED
    BY <1>2, <1>7, <2>1 DEF Fresh, TabsMove
<1>8. AsksInv'
  <2>1. \A a \in Bringing' : Fresh(a.doc)'
    BY <1>1, <1>3, <1>4, <1>7 DEF AsksInv
  <2>2. \A a, b \in Bringing' : a.doc = b.doc => a = b
    BY <1>1, <1>3 DEF AsksInv
  <2>3. \A a \in asks' : a.kind \in {"pick", "check", "compare"} => origin'[a.doc].tab = a.tab
    BY <1>1, <1>2 DEF AsksInv
  <2>4. \A a \in asks' : a.kind = "promote" =>
          origin'[a.doc].kind = "compare" /\ \A b \in Bringing' : a.doc # b.doc
    BY <1>1, <1>2, <1>3 DEF AsksInv
  <2>5. \A a \in asks' : a.kind = "promote" /\ confirm # NoRight => a.doc # confirm.doc
    BY <1>1 DEF AsksInv
  <2>6. confirm # NoRight =>
          /\ Fresh(confirm.doc)' /\ origin'[confirm.doc].tab = confirm.tab
          /\ \A a \in Bringing' : a.doc # confirm.doc
    <3>1. confirm # NoRight => confirm.doc \in UsedIds
      BY <1>1 DEF SideTypeOK
    <3> QED
      BY <1>1, <1>2, <1>3, <1>4, <1>7, <3>1 DEF AsksInv
  <2> QED
    BY <1>2, <2>1, <2>2, <2>3, <2>4, <2>5, <2>6 DEF AsksInv
<1>9. ~mounted => strip' = {}
  BY <1>1 DEF StripInv, TabsMove
<1>10. StripInv'
  BY <1>1, <1>2, <1>9 DEF StripInv, TabsMove
<1>11. EffectsInv'
  BY <1>1, <1>2 DEF EffectsInv
<1>12. strip' \cup gone' \subseteq strip \cup gone \cup {i}
  BY <1>1 DEF StripInv, TabsMove
<1>13. i \notin strip \cup gone =>
         \/ i = rRight /\ (right = i => Leaves') /\ promoted' = i /\ effRight = i
         \/ i \notin {right, rRight, effRight} /\ promoted' = promoted
  BY <1>1 DEF AsksInv, Fresh
<1>14. RightInv'
  <2>1. right # NoRight => origin'[right].tab = rFront \/ (due /\ effFront # rFront)
    BY <1>1, <1>2 DEF RightInv
  <2>2. /\ right # NoRight => right \in sideDocs' \cup gone'
        /\ rRight # NoRight => rRight \in sideDocs' \cup gone'
    BY <1>1 DEF RightInv, TabsMove
  <2>3. ASSUME right # NoRight, right \in strip' \cup gone' PROVE Leaves'
    <3>1. CASE right = i /\ i \notin strip \cup gone
      BY <1>13, <3>1
    <3>2. CASE right \in strip \cup gone
      <4>1. Leaves
        BY <1>1, <2>3, <3>2 DEF RightInv
      <4>2. rFront \in rStrip
        BY <1>1, <2>3 DEF StripInv
      <4>3. rFront \notin strip => rFront \notin strip'
        BY <1>1, <4>2 DEF StripInv, TabsMove
      <4> QED
        BY <1>2, <4>1, <4>3 DEF Leaves
    <3> QED
      BY <1>12, <2>3, <3>1, <3>2
  <2> QED
    BY <1>2, <2>1, <2>2, <2>3 DEF RightInv
<1>15. PromotedInv'
  <2>1. i \in gone => i \notin strip'
    BY DEF TabsMove
  <2>2. (effRight \in strip' => promoted' = effRight) /\ (rRight \in strip' => promoted' = rRight)
    BY <1>1, <1>13, <2>1 DEF PromotedInv, TabsMove
  <2>3. promoted' # NoRight => promoted' \in strip' \cup gone'
    BY <1>1 DEF PromotedInv, TabsMove
  <2>4. right # NoRight /\ right # rRight => right \notin strip' \cup gone'
    BY <1>1, <1>12, <1>13 DEF PromotedInv
  <2>5. \A a \in asks' : a.kind = "promote" =>
          (rRight = a.doc => effRight = a.doc) /\ (right = a.doc => rRight = a.doc)
    BY <1>1 DEF PromotedInv
  <2> QED
    BY <1>2, <2>2, <2>3, <2>4, <2>5 DEF PromotedInv
<1>16. LeakInv'
  BY <1>1, <1>2 DEF LeakInv, TabsMove
<1> QED
  BY <1>5, <1>6, <1>8, <1>10, <1>11, <1>14, <1>15, <1>16 DEF SideInv

(* A copy from disk that becomes the tab: the tab it was compared with goes,
   so the panel will leave the comparison. *)
LEMMA PromoteStep ==
  ASSUME SideInv, NEW a \in asks, PromoteLands(a)
  PROVE  SideInv'
<1>1. /\ SideTypeOK /\ OriginInv /\ AsksInv /\ StripInv /\ EffectsInv /\ RightInv /\ PromotedInv
      /\ LeakInv /\ NoRight \notin UsedIds
  BY UsedFacts DEF SideInv
<1>2. /\ a.kind = "promote" /\ asks' = asks \ {a} /\ KeepRight
      /\ UNCHANGED <<origin, screenState, confirm, asked>>
      /\ UNCHANGED <<rFront, effFront, due, right>>
  BY DEF PromoteLands, Answered, KeepRight, screenState
<1>3. CASE UNCHANGED <<promoted, appState, sideDocs>>
  BY <1>2, <1>3, Fewer
<1>4. CASE Current(a.tab) /\ rRight = a.doc /\ promoted' = a.doc /\ Replaces(a.doc, sideDocs)
  <2>1. a.doc \in UsedIds /\ rRight = a.doc /\ effRight = a.doc /\ mounted
    BY <1>1, <1>2, <1>4 DEF SideTypeOK, PromotedInv, Current
  <2>2. a.doc \in sideDocs \cup gone /\ sideDocs \in SUBSET UsedIds
    BY <1>1, <2>1 DEF RightInv, SideTypeOK
  <2>3. /\ TabsMove(a.doc) /\ (a.doc \in gone => strip' = strip)
        /\ \A t \in strip' : t # a.doc => origin[t].file # origin[a.doc].file \/ a.doc \in gone
    BY <1>1, <1>4, <2>1, <2>2, ReplacesIs DEF TabsMove
  <2>4. ASSUME right = a.doc PROVE Leaves'
    <3>1. CASE due /\ effFront # rFront
      BY <1>2, <3>1 DEF Leaves
    <3>2. CASE a.doc \in gone
      BY <1>1, <1>2, <2>1, <2>3, <2>4, <3>2 DEF RightInv, Leaves
    <3>3. CASE ~(due /\ effFront # rFront) /\ a.doc \notin gone
      <4>1. origin[a.doc].tab = rFront /\ origin[a.doc].kind = "compare"
        BY <1>1, <1>2, <2>1, <2>4, <3>3 DEF RightInv, AsksInv
      <4>2. rFront # a.doc /\ origin[rFront].file = origin[a.doc].file
        BY <1>1, <2>1, <4>1, UsedFacts DEF OriginInv, UsedIds
      <4>3. rFront \notin strip'
        BY <2>3, <3>3, <4>2
      <4> QED
        BY <1>2, <4>3 DEF Leaves
    <3> QED
      BY <3>1, <3>2, <3>3
  <2> QED
    BY <1>2, <1>4, <2>1, <2>3, <2>4, TabsMoved
<1> QED
  BY <1>3, <1>4 DEF PromoteLands

LEMMA SideReloadStep ==
  ASSUME SideInv, NEW a \in asks, ReloadSettles(a)
  PROVE  SideInv'
<1>1. /\ SideTypeOK /\ AsksInv /\ StripInv
  BY DEF SideInv
<1>2. /\ a.kind = "reload" /\ asks' = asks \ {a} /\ KeepRight
      /\ UNCHANGED <<origin, screenState, promoted, confirm, asked>>
  BY DEF ReloadSettles, Answered
<1>3. CASE UNCHANGED <<appState, sideDocs>>
  BY <1>2, <1>3, Fewer
<1>4. CASE a.tab \in rStrip /\ Replaces(a.doc, sideDocs \cup {a.doc})
  <2>1. a \in Bringing \ asks' /\ a.doc \in UsedIds /\ a.doc \notin gone /\ mounted
    BY <1>1, <1>2, <1>4 DEF Bringing, SideTypeOK, AsksInv, Fresh, StripInv
  <2>2. sideDocs \cup {a.doc} \in SUBSET UsedIds
    BY <1>1, <2>1 DEF SideTypeOK
  <2>3. TabsMove(a.doc)
    BY <1>1, <1>4, <2>1, <2>2, ReplacesIs DEF TabsMove
  <2> QED
    BY <1>2, <2>1, <2>3, TabsMoved
<1> QED
  BY <1>3, <1>4 DEF ReloadSettles

LEMMA StripSteps ==
  ASSUME SideInv, NEW t \in SideIds, CloseTab(t) \/ ActivateTab(t)
  PROVE  SideInv'
<1>1. SideTypeOK /\ StripInv
  BY DEF SideInv
<1>2. /\ t \in strip /\ t \in UsedIds /\ NewAsk /\ KeepRight
      /\ UNCHANGED <<origin, screenState, promoted, confirm, asks>>
  BY <1>1 DEF CloseTab, ActivateTab, SideTypeOK
<1>3. TabsMove(t)
  <2>1. CASE CloseTab(t)
    <3>1. /\ strip' = strip \ {t} /\ gone' = gone \cup {t} /\ sideDocs' = sideDocs \ {t}
          /\ front' = IF front # t THEN front
                      ELSE IF strip = {t} THEN NoRight ELSE CHOOSE u \in strip : u # t
      BY <2>1 DEF CloseTab
    <3>2. IF strip' = {} THEN front' = NoRight ELSE front' \in strip'
      <4>1. strip = {t} \/ \E u \in strip : u # t
        BY <1>2
      <4> QED
        BY <1>1, <1>2, <3>1, <4>1 DEF StripInv
    <3> QED
      BY <1>1, <1>2, <3>1, <3>2 DEF StripInv, TabsMove
  <2>2. CASE ActivateTab(t)
    BY <1>1, <1>2, <2>2 DEF ActivateTab, StripInv, TabsMove
  <2> QED
    BY <2>1, <2>2
<1> QED
  BY <1>2, <1>3, TabsMoved

(* A render shows the latest right side; with the last tab the panel goes. *)
LEMMA RenderStep ==
  ASSUME SideInv, RenderPanel
  PROVE  SideInv'
<1>1. /\ SideTypeOK /\ OriginInv /\ AsksInv /\ StripInv /\ EffectsInv /\ RightInv /\ PromotedInv
      /\ LeakInv /\ NoRight \notin UsedIds
  BY UsedFacts DEF SideInv
<1>2. /\ mounted /\ ~due /\ rStrip' = strip /\ rFront' = front /\ UsedIds' = UsedIds
      /\ UNCHANGED <<origin, strip, front, gone, asks, asked>>
      /\ effRight = rRight /\ effFront = rFront
  BY <1>1 DEF RenderPanel, appState, UsedIds, EffectsInv
<1>3. OriginInv'
  BY <1>1, <1>2 DEF OriginInv
<1>4. Bringing' = Bringing /\ \A a \in Bringing : a.doc \in UsedIds
  BY <1>1, <1>2 DEF Bringing, SideTypeOK
<1>5. CASE strip # {}
  <2>1. /\ rRight' = right /\ due' = TRUE
        /\ UNCHANGED <<right, overwritten, sideDocs, effFront, effRight, mounted, promoted, confirm>>
    BY <1>5 DEF RenderPanel, KeepRight
  <2>2. SideTypeOK'
    BY <1>1, <1>2, <2>1 DEF SideTypeOK
  <2>3. \A d : Fresh(d) => Fresh(d)'
    BY <1>2, <2>1 DEF Fresh
  <2>4. AsksInv'
    BY <1>1, <1>2, <1>4, <2>1, <2>3 DEF AsksInv
  <2>5. StripInv'
    BY <1>1, <1>2, <1>5, <2>1 DEF StripInv
  <2>6. EffectsInv'
    BY <1>1, <1>2, <2>1 DEF EffectsInv
  <2>7. RightInv'
    <3>1. right # NoRight => origin[right].tab = rFront' \/ effFront # rFront'
      BY <1>1, <1>2 DEF RightInv
    <3>2. right # NoRight /\ right \in strip \cup gone => effFront # rFront'
      BY <1>1, <1>2, <1>5 DEF RightInv, Leaves, StripInv
    <3> QED
      BY <1>1, <1>2, <2>1, <3>1, <3>2 DEF RightInv, Leaves
  <2>8. PromotedInv'
    <3>1. right \in strip => promoted = right
      BY <1>1, <1>2 DEF PromotedInv, SideTypeOK
    <3>2. \A a \in asks : a.kind = "promote" /\ right = a.doc => effRight = a.doc
      BY <1>1, <1>2 DEF PromotedInv
    <3> QED
      BY <1>1, <1>2, <2>1, <3>1, <3>2 DEF PromotedInv
  <2>9. LeakInv'
    BY <1>1, <1>2, <2>1 DEF LeakInv
  <2> QED
    BY <1>3, <2>2, <2>4, <2>5, <2>6, <2>7, <2>8, <2>9 DEF SideInv
<1>6. CASE strip = {}
  <2>1. /\ mounted' = FALSE /\ rRight' = NoRight /\ effRight' = NoRight /\ promoted' = NoRight
        /\ right' = NoRight /\ confirm' = NoRight /\ UNCHANGED <<effFront, due>>
        /\ sideDocs' = IF ClosesRight(effRight) THEN sideDocs \ {effRight} ELSE sideDocs
    BY <1>6 DEF RenderPanel, setDiffRightTabId
  <2>2. overwritten \subseteq overwritten' /\ right \in {NoRight, rRight} \cup overwritten'
    BY <1>6 DEF RenderPanel, setDiffRightTabId
  <2>3. front = NoRight
    BY <1>1, <1>6 DEF StripInv
  <2>4. SideTypeOK'
    BY <1>1, <1>2, <2>1 DEF SideTypeOK
  <2>5. \A d \in UsedIds : Fresh(d) => Fresh(d)'
    BY <1>1, <1>2, <1>6, <2>1 DEF Fresh
  <2>6. AsksInv'
    BY <1>1, <1>2, <1>4, <2>1, <2>5 DEF AsksInv
  <2>7. StripInv'
    BY <1>1, <1>2, <1>6, <2>1, <2>3 DEF StripInv
  <2>8. EffectsInv' /\ RightInv'
    BY <2>1 DEF EffectsInv, RightInv
  <2>9. PromotedInv'
    <3>1. \A a \in asks : a.doc # NoRight
      BY <1>1 DEF SideTypeOK
    <3> QED
      BY <1>1, <1>2, <1>6, <2>1, <3>1 DEF PromotedInv
  <2>10. LeakInv'
    <3>1. effRight \notin sideDocs'
      BY <1>1, <1>6, <2>1 DEF ClosesRight, PromotedInv, StripInv, SideTypeOK
    <3>2. NoRight \notin sideDocs
      BY <1>1 DEF SideTypeOK
    <3> QED
      BY <1>1, <1>2, <1>6, <2>1, <2>2, <3>1, <3>2 DEF LeakInv
  <2> QED
    BY <1>3, <2>4, <2>6, <2>7, <2>8, <2>9, <2>10 DEF SideInv
<1> QED
  BY <1>5, <1>6

(* The effects close the right side before, unless it is the tab now, and end
   the comparison of another tab. *)
LEMMA EffectsStep ==
  ASSUME SideInv, Effects
  PROVE  SideInv'
<1>1. /\ SideTypeOK /\ OriginInv /\ AsksInv /\ StripInv /\ EffectsInv /\ RightInv /\ PromotedInv
      /\ LeakInv /\ NoRight \notin UsedIds
  BY UsedFacts DEF SideInv
<1>2. /\ mounted /\ due' = FALSE /\ effRight' = rRight /\ effFront' = rFront /\ UsedIds' = UsedIds
      /\ UNCHANGED <<origin, strip, front, gone, rStrip, rFront, rRight, mounted, asks, asked>>
  BY DEF Effects, appState, UsedIds
<1>3. /\ right' \in {right, NoRight} /\ overwritten \subseteq overwritten'
      /\ right' # right => right \in {NoRight, rRight} \cup overwritten'
      /\ effFront # rFront => right' = NoRight
      /\ confirm' \in {confirm, NoRight}
  BY DEF Effects, setDiffRightTabId, KeepRight
<1>4. /\ sideDocs' \subseteq sideDocs
      /\ sideDocs \subseteq sideDocs' \cup {effRight}
      /\ promoted' \in {promoted, NoRight}
      /\ effRight = rRight => sideDocs' = sideDocs /\ promoted' = promoted
      /\ effRight # rRight => \/ promoted = effRight /\ promoted' = NoRight /\ sideDocs' = sideDocs
                              \/ promoted # effRight /\ promoted' = promoted
      /\ effRight # rRight /\ effRight # NoRight /\ promoted # effRight => effRight \notin sideDocs'
  BY DEF Effects, ClosesRight
<1>5. Bringing' = Bringing /\ \A a \in Bringing : a.doc \in UsedIds
  BY <1>1, <1>2 DEF Bringing, SideTypeOK
<1>6. SideTypeOK'
  BY <1>1, <1>2, <1>3, <1>4 DEF SideTypeOK
<1>7. OriginInv'
  BY <1>1, <1>2 DEF OriginInv
<1>8. \A d \in UsedIds : Fresh(d) => Fresh(d)'
  BY <1>1, <1>2, <1>3, <1>4 DEF Fresh
<1>9. AsksInv'
  <2>1. \A a \in Bringing' : Fresh(a.doc)'
    BY <1>1, <1>5, <1>8 DEF AsksInv
  <2>2. \A a, b \in Bringing' : a.doc = b.doc => a = b
    BY <1>1, <1>5 DEF AsksInv
  <2>3. \A a \in asks' : a.kind \in {"pick", "check", "compare"} => origin'[a.doc].tab = a.tab
    BY <1>1, <1>2 DEF AsksInv
  <2>4. \A a \in asks' : a.kind = "promote" =>
          origin'[a.doc].kind = "compare" /\ \A b \in Bringing' : a.doc # b.doc
    BY <1>1, <1>2, <1>5 DEF AsksInv
  <2>5. ASSUME NEW k, k = confirm', k # NoRight
        PROVE  /\ \A a \in asks' : a.kind = "promote" => a.doc # k.doc
               /\ Fresh(k.doc)' /\ origin'[k.doc].tab = k.tab
               /\ \A a \in Bringing' : a.doc # k.doc
    <3>1. k = confirm /\ k.doc \in UsedIds
      BY <1>1, <1>3, <2>5 DEF SideTypeOK
    <3>2. Fresh(k.doc)'
      BY <1>1, <1>8, <2>5, <3>1 DEF AsksInv
    <3> QED
      BY <1>1, <1>2, <1>5, <2>5, <3>1, <3>2 DEF AsksInv
  <2> QED
    BY <2>1, <2>2, <2>3, <2>4, <2>5 DEF AsksInv
<1>10. StripInv'
  <2>1. strip \subseteq sideDocs'
    BY <1>1, <1>4 DEF StripInv, PromotedInv
  <2> QED
    BY <1>1, <1>2, <1>4, <2>1 DEF StripInv
<1>11. EffectsInv'
  BY <1>2 DEF EffectsInv
<1>12. RightInv'
  <2>1. right' # NoRight => right' = right /\ effFront = rFront
    BY <1>3
  <2>2. right' # NoRight => right' \in sideDocs' \cup gone
    BY <1>1, <1>4, <2>1 DEF RightInv, EffectsInv
  <2>3. rRight # NoRight => rRight \in sideDocs' \cup gone
    BY <1>1, <1>4 DEF RightInv
  <2> QED
    BY <1>1, <1>2, <2>1, <2>2, <2>3 DEF RightInv, Leaves
<1>13. PromotedInv'
  <2>1. rRight \in strip => promoted' = rRight
    BY <1>1, <1>4 DEF PromotedInv
  <2>2. \A a \in asks : a.doc # NoRight
    BY <1>1 DEF SideTypeOK
  <2> QED
    BY <1>1, <1>2, <1>3, <1>4, <2>1, <2>2 DEF PromotedInv
<1>14. LeakInv'
  <2>1. effRight \in sideDocs' => effRight = rRight \/ effRight \in strip
    BY <1>1, <1>4 DEF PromotedInv, StripInv, SideTypeOK
  <2>2. NoRight \notin sideDocs
    BY <1>1 DEF SideTypeOK
  <2> QED
    BY <1>1, <1>2, <1>3, <1>4, <2>1, <2>2 DEF LeakInv
<1> QED
  BY <1>6, <1>7, <1>9, <1>10, <1>11, <1>12, <1>13, <1>14 DEF SideInv

(* Every step keeps SideInv. *)
LEMMA DsNextInv == SideInv /\ [DsNext]_dsVars => SideInv'
<1> SUFFICES ASSUME SideInv, [DsNext]_dsVars PROVE SideInv'
  OBVIOUS
<1>1. /\ SideTypeOK /\ AsksInv /\ NoRight \notin UsedIds /\ EffectsInv
      /\ UsedIds \subseteq SideIds /\ FirstTabs \subseteq SideIds
  BY UsedFacts, DiffSideAssumption DEF SideInv, FirstTabs, SideIds
<1>2. rFront # NoRight => rFront \in UsedIds /\ origin[rFront] \in
        [file : SideIds, kind : {"tab", "pick", "compare"}, tab : SideIds \cup {NoRight}]
  BY <1>1 DEF SideTypeOK
<1>3. ASSUME handlePickDiffFile PROVE SideInv'
  <2>1. PICK f \in FirstTabs :
          origin' = [origin EXCEPT ![NewDoc] = [file |-> f, kind |-> "pick", tab |-> rFront]]
    BY <1>3 DEF handlePickDiffFile
  <2> DEFINE o == [file |-> f, kind |-> "pick", tab |-> rFront]
  <2>2. o \in [file : SideIds, kind : {"tab", "pick", "compare"}, tab : SideIds \cup {NoRight}]
    BY <1>1, <1>2, <1>3 DEF handlePickDiffFile
  <2>3. origin' = [origin EXCEPT ![NewDoc] = o] /\ o.tab = rFront /\ o.kind # "compare"
    BY <2>1
  <2> HIDE DEF o
  <2> QED
    BY <1>3, <2>2, <2>3, NewCall DEF handlePickDiffFile
<1>4. ASSUME handleCompare PROVE SideInv'
  <2> DEFINE o == [file |-> origin[rFront].file, kind |-> "compare", tab |-> rFront]
  <2>1. o \in [file : SideIds, kind : {"tab", "pick", "compare"}, tab : SideIds \cup {NoRight}]
    BY <1>1, <1>2, <1>4 DEF handleCompare
  <2>2. origin' = [origin EXCEPT ![NewDoc] = o] /\ o.tab = rFront /\ o.file = origin[rFront].file
    BY <1>4 DEF handleCompare
  <2> HIDE DEF o
  <2> QED
    BY <1>4, <2>1, <2>2, NewCall DEF handleCompare
<1>5. ASSUME reloadTab PROVE SideInv'
  <2> DEFINE o == [origin[rFront] EXCEPT !.kind = "tab"]
  <2>1. o \in [file : SideIds, kind : {"tab", "pick", "compare"}, tab : SideIds \cup {NoRight}]
    BY <1>1, <1>2, <1>5 DEF reloadTab
  <2>2. origin' = [origin EXCEPT ![NewDoc] = o] /\ o.kind = "tab"
    BY <1>2, <1>5 DEF reloadTab
  <2> HIDE DEF o
  <2> QED
    BY <1>5, <2>1, <2>2, NewCall DEF reloadTab
<1>6. ASSUME Continue PROVE SideInv'
  <2> DEFINE c == [confirm EXCEPT !.kind = "compare"]
  <2>1. /\ confirm # NoRight /\ confirm \in [kind : {"check"}, tab : UsedIds, doc : UsedIds]
        /\ c \in [kind : {"check", "compare"}, tab : UsedIds, doc : UsedIds]
        /\ c.doc = confirm.doc /\ c.tab = confirm.tab
    BY <1>1, <1>6 DEF Continue, SideTypeOK
  <2>2. Fresh(c.doc) /\ origin[c.doc].tab = c.tab /\ \A b \in asks : b.doc # c.doc
    BY <1>1, <2>1 DEF AsksInv, Bringing
  <2>3. /\ asks' \in {asks, asks \cup {c}} /\ confirm' = NoRight
        /\ KeepRight /\ UNCHANGED <<sideDocs, origin, appState, screenState, promoted, asked>>
    BY <1>6 DEF Continue, runCompare
  <2> HIDE DEF c
  <2> QED
    BY <2>1, <2>2, <2>3, Passed
<1>7. ASSUME NEW a \in asks, CheckLands(a) PROVE SideInv'
  <2> DEFINE c == [a EXCEPT !.kind = "compare"]
             rest == asks \ {a}
  <2>1. /\ a.kind = "check" /\ a \in [kind : {"check", "compare"}, tab : UsedIds, doc : UsedIds]
        /\ c \in [kind : {"check", "compare"}, tab : UsedIds, doc : UsedIds]
        /\ c.doc = a.doc /\ c.tab = a.tab /\ rest \in SUBSET asks
    BY <1>1, <1>7 DEF CheckLands, SideTypeOK
  <2>2. Fresh(a.doc) /\ origin[a.doc].tab = a.tab /\ \A b \in rest : b.doc # a.doc
    BY <1>1, <2>1 DEF AsksInv, Bringing
  <2>3. /\ \/ asks' = rest /\ confirm' = confirm
           \/ asks' = rest /\ confirm' = a
           \/ asks' \in {rest, rest \cup {c}} /\ confirm' = confirm
        /\ KeepRight \/ setDiffRightTabId(NoRight)
        /\ UNCHANGED <<sideDocs, origin, appState, screenState, promoted, asked>>
    BY <1>7 DEF CheckLands, runCompare, Answered, IfCurrent
  <2> HIDE DEF c, rest
  <2>4. CASE asks' = rest /\ confirm' \in {confirm, a}
    BY <2>1, <2>2, <2>3, <2>4, Passed
  <2>5. CASE asks' \in {rest, rest \cup {c}} /\ confirm' = confirm
    <3>1. confirm # NoRight => confirm.doc # c.doc
      BY <1>1, <2>1 DEF AsksInv, Bringing
    <3>2. Fresh(c.doc) /\ origin[c.doc].tab = c.tab /\ \A b \in rest : b.doc # c.doc
      BY <2>1, <2>2
    <3>3. /\ asks' \in {rest, rest \cup {c}} /\ confirm' \in {confirm, NoRight}
          /\ confirm' # NoRight => confirm.doc # c.doc
      BY <2>5, <3>1
    <3> QED
      BY <2>1, <2>3, <3>2, <3>3, Passed
  <2> QED
    BY <2>3, <2>4, <2>5
<1>8. ASSUME NEW a \in asks, SideLands(a) PROVE SideInv'
  <2>1. CASE Current(a.tab)
    BY <1>8, <2>1, SideOpened DEF SideLands, SideOpens
  <2>2. CASE ~Current(a.tab)
    BY <1>8, <2>2, Fewer DEF SideLands, SideOpens, Answered
  <2> QED
    BY <2>1, <2>2
<1>9. ASSUME NEW a \in asks, SideFails(a) PROVE SideInv'
  BY <1>9, Fewer DEF SideFails, Answered, IfCurrent
<1>10. ASSUME CloseDiff PROVE SideInv'
  <2>1. /\ asks' \subseteq asks /\ asks' \subseteq asks \cup {confirm} /\ UNCHANGED confirm
        /\ setDiffRightTabId(NoRight) /\ NewAsk
        /\ UNCHANGED <<sideDocs, origin, appState, screenState, promoted>>
    BY <1>10 DEF CloseDiff
  <2> QED
    BY <2>1, Fewer
<1>11. ASSUME handlePromote PROVE SideInv'
  <2>1. mounted /\ effRight = rRight /\ rRight # NoRight
    BY <1>1, <1>11 DEF handlePromote, EffectsInv
  <2>2. rFront \in rStrip /\ rStrip \subseteq UsedIds
    BY <2>1 DEF SideInv, StripInv, SideTypeOK
  <2>3. rFront # NoRight
    BY <1>1, <2>2
  <2> QED
    BY <1>11, <2>1, <2>3, Fewer DEF handlePromote, Asks
<1>12. ASSUME NEW a \in asks, PromoteLands(a) PROVE SideInv'
  BY <1>12, PromoteStep
<1>13. ASSUME NEW a \in asks, ReloadSettles(a) PROVE SideInv'
  BY <1>13, SideReloadStep
<1>14. ASSUME NEW t \in SideIds, CloseTab(t) \/ ActivateTab(t) PROVE SideInv'
  BY <1>14, StripSteps
<1>15. CASE RenderPanel
  BY <1>15, RenderStep
<1>16. CASE Effects
  BY <1>16, EffectsStep
<1>17. CASE UNCHANGED dsVars
  <2>1. /\ asks' \subseteq asks /\ asks' \subseteq asks \cup {confirm} /\ UNCHANGED confirm
        /\ KeepRight /\ asked' = asked
        /\ UNCHANGED <<sideDocs, origin, appState, screenState, promoted>>
    BY <1>17 DEF dsVars, KeepRight, appState, screenState
  <2> QED
    BY <2>1, Fewer
<1> QED
  BY <1>3, <1>4, <1>5, <1>6, <1>7, <1>8, <1>9, <1>10, <1>11, <1>12, <1>13, <1>14, <1>15, <1>16,
     <1>17 DEF DsNext


(* In a settled panel the effects are done: the right side is the one they
   have seen, it belongs to the rendered tab, and nothing else stays open. *)
LEMMA SettledIsSound == SideInv => DiffSideSound
<1> SUFFICES ASSUME SideInv PROVE DiffSideSound
  OBVIOUS
<1>1. /\ SideTypeOK /\ StripInv /\ EffectsInv /\ RightInv /\ LeakInv /\ NoRight \notin UsedIds
  BY UsedFacts DEF SideInv
<1>2. strip \subseteq sideDocs
  BY <1>1 DEF StripInv
<1>3. CASE ~mounted
  BY <1>1, <1>2, <1>3 DEF StripInv, LeakInv, DiffSideSound, SideTypeOK
<1>4. ASSUME mounted, ~due, strip = rStrip, front = rFront, right = rRight
      PROVE  /\ rRight # NoRight => rRight \in sideDocs /\ origin[rRight].tab = rFront
             /\ sideDocs \subseteq strip \cup {rRight} \cup overwritten
  <2>1. rFront \in strip /\ effRight = rRight
    BY <1>1, <1>4 DEF StripInv, EffectsInv
  <2>2. ~Leaves
    BY <1>4, <2>1 DEF Leaves
  <2>3. rRight # NoRight => origin[rRight].tab = rFront /\ rRight \in sideDocs
    BY <1>1, <1>4, <2>2 DEF RightInv
  <2> QED
    BY <1>1, <1>4, <2>1, <2>3 DEF LeakInv
<1> QED
  BY <1>2, <1>3, <1>4 DEF DiffSideSound, PanelSettled

(* For any number of clicks: no tab loses its document to the Diff view, and
   when the panel has settled the right side is open, belongs to the tab it is
   compared with, and nothing else was left open (DetailPanel.tsx). *)
THEOREM DiffSideIsSound == DsSpec => []DiffSideSound
<1>1. SideInv /\ [DsNext]_dsVars => SideInv'
  BY DsNextInv
<1> QED
  BY DsInitInv, <1>1, SettledIsSound, PTL DEF DsSpec

-----------------------------------------------------------------------------
(* TreeNav.                                                                *)

(* What the panel shows of AppState and of itself. *)
NavViews == [tabs : SUBSET NavTabs, front : NavTabs \cup {NoNav}, pend : NavNodes \cup {NoNav},
             collapsed : BOOLEAN, ready : BOOLEAN]

NavEntries == [node : NavNodes, of : NavTabs, unseen : BOOLEAN]

(* One tab's navigation. *)
Navs == [pend : NavNodes \cup {NoNav}, hist : Seq(NavEntries), at : Nat]

NavTypeOK ==
  /\ app \in [tabs : SUBSET NavTabs, front : NavTabs \cup {NoNav}, collapsed : BOOLEAN,
              third : BOOLEAN]
  /\ nav \in [NavTabs -> Navs]
  /\ sized \in BOOLEAN /\ crossed \in BOOLEAN
  /\ rows \in NavTabs \cup {NoNav}
  /\ rowCache \in [NavTabs -> NavTabs \cup {NoNav}]
  /\ seen \in NavViews /\ ran \in NavViews
  /\ reveals \subseteq [tab : NavTabs, target : NavNodes, at : {"path", "expand", "scroll"},
                        live : BOOLEAN]

(* The rows are those the effects took for the tab they last ran for. *)
RowsInv ==
  /\ \A t \in NavTabs \ mixed : rowCache[t] \in {NoNav, t}
  /\ ran.front # NoNav => rows = ran.front \/ ran.front \in mixed

(* Without a tab in front there is no target. *)
NoTargetInv == \A s \in {seen, ran} : s.front = NoNav => s.pend = NoNav

(* A reveal that is not cancelled is the one the effects last ran for. *)
Live == {r \in reveals : r.live}

LiveInv ==
  /\ \A r, s \in Live : r = s
  /\ \A r \in Live : r.tab = ran.front /\ r.target = ran.pend /\ ran.ready

(* The effects' target is being revealed, or its reveal has ended and taken
   the target away, which the panel has yet to see. *)
Wanted == ran.pend # NoNav /\ ran.ready
Ended ==
  /\ Live = {} /\ ran.pend # NoNav /\ Target = NoNav
  /\ seen = ran \/ seen.pend = NoNav

PursuitInv == ~crossed => (Wanted <=> Live # {}) \/ Ended

TnInv ==
  NavTypeOK /\ RowsInv /\ NoTargetInv /\ LiveInv /\ PursuitInv /\ SelectionsOfTheirTab /\ HistorySound

(* What one tab's navigation promises: a history without repetitions, of
   nodes that are the tab's own. *)
GoodNav(t, n) ==
  /\ n \in Navs
  /\ n.at <= Len(n.hist) /\ (n.at = 0 <=> n.hist = <<>>)
  /\ \A i \in 2..Len(n.hist) : n.hist[i].node # n.hist[i - 1].node
  /\ \A i \in DOMAIN n.hist : n.hist[i].of = t \/ n.hist[i].unseen

(* Every tab's navigation is good exactly if histories and selections are
   sound. *)
LEMMA GoodNavs ==
  nav \in [NavTabs -> Navs] =>
    ((\A t \in NavTabs : GoodNav(t, nav[t])) <=> SelectionsOfTheirTab /\ HistorySound)
BY DEF GoodNav, SelectionsOfTheirTab, HistorySound

(* A selection appends one entry to the history before it, unless it is the
   current one. *)
LEMMA SelectIsGood ==
  ASSUME NEW t \in NavTabs, NEW n, GoodNav(t, n), NEW e \in NavEntries, e.of = t \/ e.unseen
  PROVE  GoodNav(t, SELECT_NODE(n, e)) /\ SELECT_NODE(n, e).pend = n.pend
<1> DEFINE m == SELECT_NODE(n, e)
           kept == SubSeq(n.hist, 1, n.at)
<1>1. n \in Navs /\ n.hist \in Seq(NavEntries) /\ n.at \in 0..Len(n.hist)
  BY DEF GoodNav, Navs
<1>2. CASE n.at > 0 /\ n.hist[n.at].node = e.node
  BY <1>2 DEF SELECT_NODE
<1>3. CASE ~(n.at > 0 /\ n.hist[n.at].node = e.node)
  <2>1. m = [n EXCEPT !.hist = Append(kept, e), !.at = @ + 1]
    BY <1>3 DEF SELECT_NODE
  <2>2. m.hist = Append(kept, e) /\ m.at = n.at + 1 /\ m.pend = n.pend
    BY <1>1, <2>1 DEF Navs
  <2>3. kept \in Seq(NavEntries) /\ Len(kept) = n.at /\ \A i \in 1..n.at : kept[i] = n.hist[i]
    BY <1>1
  <2> HIDE DEF kept, m
  <2>4. /\ m.hist \in Seq(NavEntries) /\ Len(m.hist) = n.at + 1
        /\ \A i \in 1..n.at : m.hist[i] = n.hist[i]
        /\ m.hist[n.at + 1] = e
    BY <1>1, <2>2, <2>3
  <2>5. m \in Navs
    <3>1. m = [pend |-> n.pend, hist |-> m.hist, at |-> m.at]
      BY <1>1, <2>1 DEF Navs
    <3>2. m.hist \in Seq(NavEntries) /\ m.at \in Nat /\ n.pend \in NavNodes \cup {NoNav}
      BY <1>1, <2>2, <2>4 DEF Navs
    <3> QED
      BY <3>1, <3>2 DEF Navs
  <2>6. ASSUME NEW i \in 2..Len(m.hist) PROVE m.hist[i].node # m.hist[i - 1].node
    <3>1. CASE i = n.at + 1
      <4>1. n.at > 0 /\ n.at \in 1..n.at /\ i - 1 = n.at
        BY <1>1, <2>4, <3>1
      <4>2. m.hist[i] = e /\ m.hist[i - 1] = n.hist[n.at]
        BY <2>4, <3>1, <4>1
      <4> QED
        BY <1>3, <4>1, <4>2
    <3>2. CASE i # n.at + 1
      <4>1. i \in 2..Len(n.hist) /\ i \in 1..n.at /\ i - 1 \in 1..n.at
        BY <1>1, <2>4, <3>2
      <4> QED
        BY <2>4, <4>1 DEF GoodNav
    <3> QED
      BY <3>1, <3>2
  <2>7. ASSUME NEW i \in DOMAIN m.hist PROVE m.hist[i].of = t \/ m.hist[i].unseen
    <3>1. i \in 1..(n.at + 1) /\ DOMAIN m.hist = 1..Len(m.hist) /\ DOMAIN n.hist = 1..Len(n.hist)
      BY <1>1, <2>4, <2>7
    <3>2. CASE i = n.at + 1
      BY <2>4, <3>2
    <3>3. CASE i # n.at + 1
      <4>1. i \in 1..n.at /\ i \in DOMAIN n.hist
        BY <1>1, <3>1, <3>3
      <4>2. m.hist[i] = n.hist[i]
        BY <2>4, <4>1
      <4>3. n.hist[i].of = t \/ n.hist[i].unseen
        BY <4>1 DEF GoodNav
      <4> QED
        BY <4>2, <4>3
    <3> QED
      BY <3>2, <3>3
  <2>8. m.at <= Len(m.hist) /\ m.at # 0 /\ m.hist # <<>>
    <3>1. m.hist = <<>> => Len(m.hist) = 0
      OBVIOUS
    <3> QED
      BY <1>1, <2>2, <2>4, <3>1
  <2>9. GoodNav(t, m)
    BY <2>5, <2>6, <2>7, <2>8 DEF GoodNav
  <2> QED
    BY <2>2, <2>9 DEF m
<1> QED
  BY <1>2, <1>3

(* Back, Forward and a target that is set or cleared leave the entries. *)
LEMMA MovesAreGood ==
  ASSUME NEW t \in NavTabs, NEW n, GoodNav(t, n), NEW x \in NavNodes \cup {NoNav}
  PROVE  /\ GoodNav(t, NAVIGATE_BACK(n)) /\ NAVIGATE_BACK(n).pend = n.pend
         /\ GoodNav(t, NAVIGATE_FORWARD(n)) /\ NAVIGATE_FORWARD(n).pend = n.pend
         /\ GoodNav(t, [n EXCEPT !.pend = x]) /\ [n EXCEPT !.pend = x].pend = x
<1>1. n \in Navs /\ n.hist \in Seq(NavEntries) /\ n.at \in Nat /\ Len(n.hist) \in Nat
  BY DEF GoodNav, Navs
<1>2. ASSUME NEW i \in Nat, i <= Len(n.hist), i = 0 <=> n.at = 0
      PROVE  GoodNav(t, [n EXCEPT !.at = i]) /\ [n EXCEPT !.at = i].pend = n.pend
  <2>1. [n EXCEPT !.at = i] = [pend |-> n.pend, hist |-> n.hist, at |-> i]
    BY <1>1 DEF Navs
  <2> QED
    BY <1>1, <1>2, <2>1 DEF GoodNav, Navs
<1>3. [n EXCEPT !.pend = x] = [pend |-> x, hist |-> n.hist, at |-> n.at]
  BY <1>1 DEF Navs
<1>4. GoodNav(t, [n EXCEPT !.pend = x]) /\ [n EXCEPT !.pend = x].pend = x
  BY <1>1, <1>3 DEF GoodNav, Navs
<1>5. GoodNav(t, NAVIGATE_BACK(n)) /\ NAVIGATE_BACK(n).pend = n.pend
  <2>1. CASE n.at <= 1
    BY <2>1 DEF NAVIGATE_BACK
  <2>2. CASE ~(n.at <= 1)
    <3>1. n.at - 1 \in Nat /\ n.at - 1 <= Len(n.hist) /\ n.at - 1 # 0 /\ n.at # 0
      BY <1>1, <2>2 DEF GoodNav
    <3> QED
      BY <1>2, <2>2, <3>1 DEF NAVIGATE_BACK
  <2> QED
    BY <2>1, <2>2
<1>6. GoodNav(t, NAVIGATE_FORWARD(n)) /\ NAVIGATE_FORWARD(n).pend = n.pend
  <2>1. CASE n.at >= Len(n.hist)
    BY <2>1 DEF NAVIGATE_FORWARD
  <2>2. CASE ~(n.at >= Len(n.hist))
    <3>1. n.at + 1 \in Nat /\ n.at + 1 <= Len(n.hist) /\ n.at + 1 # 0 /\ n.at # 0
      <4>1. n.hist # <<>>
        BY <1>1, <2>2
      <4> QED
        BY <1>1, <2>2, <4>1 DEF GoodNav
    <3> QED
      BY <1>2, <2>2, <3>1 DEF NAVIGATE_FORWARD
  <2> QED
    BY <2>1, <2>2
<1> QED
  BY <1>4, <1>5, <1>6

(* What a render shows is a view, and its target that of its tab. *)
LEMMA ShowingIs ==
  ASSUME NavTypeOK
  PROVE  /\ Showing \in NavViews /\ Showing.front = app.front /\ Showing.pend = Target
         /\ app.front = NoNav => Target = NoNav
<1>1. Target \in NavNodes \cup {NoNav}
  BY NavAssumption DEF NavTypeOK, Target, Navs
<1>2. app.tabs \in SUBSET NavTabs /\ app.front \in NavTabs \cup {NoNav} /\ app.collapsed \in BOOLEAN
  BY DEF NavTypeOK
<1> QED
  BY <1>1, <1>2 DEF Showing, NavViews, Target

(* Two tabs, no target, no reveal. *)
LEMMA TnInitInv == TnInit => TnInv
<1> SUFFICES ASSUME TnInit PROVE TnInv
  OBVIOUS
<1>1. /\ app = [tabs |-> {1, 2}, front |-> 1, collapsed |-> FALSE, third |-> FALSE]
      /\ nav = [t \in NavTabs |-> FreshNav] /\ sized = TRUE /\ rows = 1 /\ mixed = {} /\ crossed = FALSE
      /\ rowCache = [t \in NavTabs |-> IF t = 1 THEN 1 ELSE NoNav]
      /\ seen = Showing /\ ran = Showing /\ reveals = {}
      /\ NavTabs = {1, 2, 3} /\ NoNav \notin NavTabs
  BY NavAssumption DEF TnInit, NavTabs
<1>2. FreshNav \in Navs /\ FreshNav.hist = <<>> /\ FreshNav.at = 0 /\ FreshNav.pend = NoNav
  BY DEF FreshNav, Navs
<1>3. Target = NoNav
  BY <1>1, <1>2 DEF Target
<1>4. NavTypeOK
  <2>1. app \in [tabs : SUBSET NavTabs, front : NavTabs \cup {NoNav}, collapsed : BOOLEAN, third : BOOLEAN]
    BY <1>1
  <2>2. nav \in [NavTabs -> Navs] /\ rowCache \in [NavTabs -> NavTabs \cup {NoNav}]
    BY <1>1, <1>2
  <2>3. Showing \in NavViews
    <3>1. app.tabs = {1, 2} /\ app.front = 1 /\ app.collapsed = FALSE
      BY <1>1
    <3> QED
      BY <1>1, <1>3, <3>1 DEF Showing, NavViews
  <2> QED
    BY <1>1, <2>1, <2>2, <2>3 DEF NavTypeOK
<1>5. RowsInv /\ LiveInv
  BY <1>1, ShowingIs, <1>4 DEF RowsInv, LiveInv, Live
<1>6. NoTargetInv
  BY <1>1, <1>4, ShowingIs DEF NoTargetInv
<1>7. PursuitInv
  BY <1>1, <1>3, <1>4, ShowingIs DEF PursuitInv, Wanted, Live
<1>8. \A t \in NavTabs : GoodNav(t, nav[t])
  BY <1>1, <1>2 DEF GoodNav
<1>9. SelectionsOfTheirTab /\ HistorySound
  BY <1>4, <1>8, GoodNavs DEF NavTypeOK
<1> QED
  BY <1>4, <1>5, <1>6, <1>7, <1>9 DEF TnInv

(* What a dispatch to the tab in front does to the navigations. *)
LEMMA FrontMoves ==
  ASSUME TnInv, NEW n, app.front # NoNav => GoodNav(app.front, n), OnFront(n)
  PROVE  /\ nav' \in [NavTabs -> Navs] /\ \A t \in NavTabs : GoodNav(t, nav'[t])
         /\ app.front # NoNav => nav'[app.front] = n
<1>1. /\ nav \in [NavTabs -> Navs] /\ \A t \in NavTabs : GoodNav(t, nav[t])
      /\ app.front \in NavTabs \cup {NoNav}
  BY GoodNavs DEF TnInv, NavTypeOK
<1>2. CASE app.front = NoNav
  BY <1>1, <1>2 DEF OnFront
<1>3. CASE app.front # NoNav
  <2>1. nav' = [nav EXCEPT ![app.front] = n] /\ app.front \in NavTabs /\ n \in Navs
    BY <1>1, <1>3 DEF OnFront, GoodNav
  <2>2. nav'[app.front] = n /\ \A t \in NavTabs : t # app.front => nav'[t] = nav[t]
    BY <1>1, <2>1
  <2> QED
    BY <1>1, <1>3, <2>1, <2>2
<1> QED
  BY <1>2, <1>3

(* A step that changes no tab, no target and nothing the panel has seen. *)
LEMMA QuietStep ==
  ASSUME TnInv, NavTypeOK', \A t \in NavTabs : GoodNav(t, nav'[t]), Target' = Target,
         RowsInv', Live' = Live, UNCHANGED <<seen, ran, crossed>>
  PROVE  TnInv'
<1>1. NoTargetInv' /\ LiveInv' /\ PursuitInv'
  BY DEF TnInv, NoTargetInv, LiveInv, PursuitInv, Wanted, Ended
<1>2. nav' \in [NavTabs -> Navs] => SelectionsOfTheirTab' /\ HistorySound'
  BY DEF GoodNav, SelectionsOfTheirTab, HistorySound
<1> QED
  BY <1>1, <1>2 DEF TnInv, NavTypeOK

(* Nothing waits when a dispatch does not overtake a render. *)
LEMMA NotOvertaken ==
  ASSUME TnInv, Crosses, ~crossed'
  PROVE  /\ ~crossed /\ Showing = seen /\ seen = ran /\ ~Ended /\ (Wanted <=> Live # {})
         /\ Target = ran.pend
<1>1. ~crossed /\ Showing = seen /\ seen = ran
  BY DEF Crosses, TnInv, NavTypeOK
<1>2. Target = ran.pend
  BY <1>1, ShowingIs DEF TnInv
<1> QED
  BY <1>1, <1>2 DEF TnInv, PursuitInv, Ended

(* A dispatch that changes the tab or the target. *)
LEMMA CrossingStep ==
  ASSUME TnInv, Crosses, UNCHANGED <<panelState, reveals, mixed>>,
         app' \in [tabs : SUBSET NavTabs, front : NavTabs \cup {NoNav}, collapsed : BOOLEAN,
                   third : BOOLEAN],
         nav' \in [NavTabs -> Navs], \A t \in NavTabs : GoodNav(t, nav'[t])
  PROVE  TnInv'
<1>1. UNCHANGED <<sized, rows, rowCache, seen, ran>> /\ crossed' \in BOOLEAN
  BY DEF panelState, Crosses, TnInv, NavTypeOK
<1>2. NavTypeOK'
  BY <1>1 DEF TnInv, NavTypeOK
<1>3. RowsInv' /\ NoTargetInv' /\ LiveInv'
  BY <1>1 DEF TnInv, RowsInv, NoTargetInv, LiveInv, Live
<1>4. PursuitInv'
  BY <1>1, NotOvertaken DEF PursuitInv, Wanted, Live
<1>5. SelectionsOfTheirTab' /\ HistorySound'
  BY DEF GoodNav, SelectionsOfTheirTab, HistorySound
<1> QED
  BY <1>2, <1>3, <1>4, <1>5 DEF TnInv

(* A reveal that ends for good takes the target with it. *)
LEMMA EndingStep ==
  ASSUME TnInv, NEW r \in reveals, r.live, RevealEnds(r), Crosses,
         NEW n, app.front # NoNav => GoodNav(app.front, n) /\ n.pend = NoNav, OnFront(n),
         UNCHANGED <<app, panelState, mixed>>
  PROVE  TnInv'
<1>1. /\ UNCHANGED <<sized, rows, rowCache, seen, ran>> /\ crossed' \in BOOLEAN
      /\ reveals' = reveals \ {r} /\ r \in Live
  BY DEF panelState, Crosses, TnInv, NavTypeOK, RevealEnds, Live
<1>2. /\ nav' \in [NavTabs -> Navs] /\ \A t \in NavTabs : GoodNav(t, nav'[t])
      /\ app.front # NoNav => nav'[app.front] = n
  BY FrontMoves
<1>3. NavTypeOK'
  BY <1>1, <1>2 DEF TnInv, NavTypeOK
<1>4. Live' = {}
  BY <1>1 DEF TnInv, LiveInv, Live
<1>5. RowsInv' /\ NoTargetInv' /\ LiveInv'
  BY <1>1, <1>4 DEF TnInv, RowsInv, NoTargetInv, LiveInv
<1>6. PursuitInv'
  <2>1. Target' = NoNav
    BY <1>2 DEF Target
  <2>2. r.target = ran.pend /\ r.target # NoNav
    BY <1>1, NavAssumption DEF TnInv, LiveInv, NavTypeOK
  <2> QED
    BY <1>1, <1>4, <2>1, <2>2, NotOvertaken DEF PursuitInv, Ended
<1>7. SelectionsOfTheirTab' /\ HistorySound'
  BY <1>2 DEF GoodNav, SelectionsOfTheirTab, HistorySound
<1> QED
  BY <1>3, <1>5, <1>6, <1>7 DEF TnInv

(* The commands of the panel's user that leave tabs and targets alone. *)
LEMMA CommandSteps ==
  ASSUME TnInv,
         \/ \E node \in NavNodes : handleSelect(node)
         \/ GoThroughHistory \/ TOGGLE_LEFT_PANEL \/ handleToggle \/ Measured \/ UNCHANGED tnVars
  PROVE  TnInv'
<1>1. /\ NavTypeOK /\ RowsInv /\ \A t \in NavTabs : GoodNav(t, nav[t])
      /\ app.front \in NavTabs \cup {NoNav} /\ seen.front \in NavTabs \cup {NoNav}
  BY GoodNavs DEF TnInv, NavTypeOK, NavViews
<1>2. UNCHANGED <<rows, rowCache, seen, ran, reveals, mixed, crossed>> /\ Live' = Live /\ RowsInv'
  BY <1>1 DEF handleSelect, GoThroughHistory, TOGGLE_LEFT_PANEL, handleToggle, Measured, panelState,
              tnVars, Live, RowsInv
<1>3. ASSUME NEW n, app.front # NoNav => GoodNav(app.front, n) /\ n.pend = ActiveNav.pend,
             OnFront(n), UNCHANGED <<app, sized>>
      PROVE  TnInv'
  <2>1. /\ nav' \in [NavTabs -> Navs] /\ \A t \in NavTabs : GoodNav(t, nav'[t])
        /\ app.front # NoNav => nav'[app.front] = n
    BY <1>3, FrontMoves
  <2>2. Target' = Target
    BY <1>3, <2>1 DEF Target, ActiveNav
  <2>3. NavTypeOK'
    BY <1>1, <1>2, <1>3, <2>1 DEF NavTypeOK
  <2> QED
    BY <1>2, <2>1, <2>2, <2>3, QuietStep
<1>4. ASSUME NEW node \in NavNodes, handleSelect(node) PROVE TnInv'
  <2> DEFINE e == NavEntry(node, seen.front)
             n == SELECT_NODE(ActiveNav, e)
  <2>1. seen.front # NoNav /\ OnFront(n) /\ UNCHANGED <<app, sized>>
    BY <1>4 DEF handleSelect, panelState
  <2>2. e \in NavEntries /\ (e.of = app.front \/ e.unseen)
    BY <1>1, <2>1 DEF NavEntry, NavEntries
  <2> HIDE DEF e
  <2>3. app.front # NoNav => GoodNav(app.front, n) /\ n.pend = ActiveNav.pend
    BY <1>1, <2>2, SelectIsGood DEF ActiveNav
  <2> HIDE DEF n
  <2> QED
    BY <1>3, <2>1, <2>3
<1>5. ASSUME GoThroughHistory PROVE TnInv'
  <2>1. app.front # NoNav => /\ GoodNav(app.front, NAVIGATE_BACK(ActiveNav))
                             /\ GoodNav(app.front, NAVIGATE_FORWARD(ActiveNav))
                             /\ NAVIGATE_BACK(ActiveNav).pend = ActiveNav.pend
                             /\ NAVIGATE_FORWARD(ActiveNav).pend = ActiveNav.pend
    BY <1>1, MovesAreGood DEF ActiveNav
  <2>2. /\ UNCHANGED <<app, sized>>
        /\ OnFront(NAVIGATE_BACK(ActiveNav)) \/ OnFront(NAVIGATE_FORWARD(ActiveNav))
    BY <1>5 DEF GoThroughHistory, panelState
  <2> QED
    BY <1>3, <2>1, <2>2
<1>6. ASSUME TOGGLE_LEFT_PANEL \/ handleToggle \/ Measured \/ UNCHANGED tnVars PROVE TnInv'
  <2>1. /\ nav' = nav /\ app'.front = app.front /\ sized' \in BOOLEAN
        /\ app' \in [tabs : SUBSET NavTabs, front : NavTabs \cup {NoNav}, collapsed : BOOLEAN,
                     third : BOOLEAN]
    BY <1>1, <1>6 DEF TOGGLE_LEFT_PANEL, handleToggle, Measured, tnVars, panelState, NavTypeOK, NavViews
  <2>2. Target' = Target
    BY <2>1 DEF Target
  <2>3. NavTypeOK'
    BY <1>1, <1>2, <2>1 DEF NavTypeOK
  <2> QED
    BY <1>1, <1>2, <2>1, <2>2, <2>3, QuietStep
<1> QED
  BY <1>4, <1>5, <1>6

(* The dispatches that change the tab or the target. *)
LEMMA DispatchSteps ==
  ASSUME TnInv,
         \/ \E node \in NavNodes : NAVIGATE_TO_REF(node)
         \/ OPEN_DOCUMENT_3
         \/ \E t \in NavTabs : ACTIVATE_TAB(t) \/ CLOSE_DOCUMENT(t)
  PROVE  TnInv'
<1>1. /\ nav \in [NavTabs -> Navs] /\ \A t \in NavTabs : GoodNav(t, nav[t])
      /\ app \in [tabs : SUBSET NavTabs, front : NavTabs \cup {NoNav}, collapsed : BOOLEAN,
                  third : BOOLEAN]
  BY GoodNavs DEF TnInv, NavTypeOK
<1>2. ASSUME NEW node \in NavNodes, NAVIGATE_TO_REF(node) PROVE TnInv'
  <2> DEFINE n == [ActiveNav EXCEPT !.pend = node]
  <2>1. /\ OnFront(n) /\ Crosses /\ UNCHANGED <<panelState, reveals, mixed>>
        /\ app' \in {app, [app EXCEPT !.collapsed = FALSE]}
    BY <1>2 DEF NAVIGATE_TO_REF
  <2>2. app.front # NoNav => GoodNav(app.front, n)
    BY <1>1, MovesAreGood DEF ActiveNav
  <2> HIDE DEF n
  <2>3. nav' \in [NavTabs -> Navs] /\ \A t \in NavTabs : GoodNav(t, nav'[t])
    BY <2>1, <2>2, FrontMoves
  <2>4. app' \in [tabs : SUBSET NavTabs, front : NavTabs \cup {NoNav}, collapsed : BOOLEAN,
                  third : BOOLEAN]
    BY <1>1, <2>1
  <2> QED
    BY <2>1, <2>3, <2>4, CrossingStep
<1>3. ASSUME OPEN_DOCUMENT_3 PROVE TnInv'
  <2>1. /\ Crosses /\ UNCHANGED <<nav, panelState, reveals, mixed>>
        /\ \E t \in SUBSET NavTabs, f \in {3, app.front} :
             app' = [app EXCEPT !.tabs = t, !.front = f, !.third = TRUE]
    <3>1. CASE app' = [app EXCEPT !.tabs = @ \cup {3}, !.front = 3, !.third = TRUE]
      <4>1. app.tabs \cup {3} \in SUBSET NavTabs
        BY <1>1 DEF NavTabs
      <4> QED
        BY <1>1, <1>3, <3>1, <4>1 DEF OPEN_DOCUMENT_3
    <3>2. ASSUME NEW t \in app.tabs, NEW f \in {3, IF app.front = t THEN 3 ELSE app.front},
                 app' = [app EXCEPT !.tabs = (@ \ {t}) \cup {3}, !.front = f, !.third = TRUE]
          PROVE  <2>1!2
      <4>1. (app.tabs \ {t}) \cup {3} \in SUBSET NavTabs
        BY <1>1 DEF NavTabs
      <4>2. app' = [app EXCEPT !.tabs = (app.tabs \ {t}) \cup {3}, !.front = f, !.third = TRUE]
        BY <1>1, <3>2
      <4> QED
        BY <3>2, <4>1, <4>2
    <3> QED
      BY <1>3, <3>1, <3>2 DEF OPEN_DOCUMENT_3
  <2>2. app' \in [tabs : SUBSET NavTabs, front : NavTabs \cup {NoNav}, collapsed : BOOLEAN,
                  third : BOOLEAN]
    <3>1. PICK t \in SUBSET NavTabs, f \in {3, app.front} :
            app' = [app EXCEPT !.tabs = t, !.front = f, !.third = TRUE]
      BY <2>1
    <3>2. f \in NavTabs \cup {NoNav}
      BY <1>1 DEF NavTabs
    <3> QED
      BY <1>1, <3>1, <3>2
  <2> QED
    BY <1>1, <2>1, <2>2, CrossingStep
<1>4. ASSUME NEW t \in NavTabs, ACTIVATE_TAB(t) PROVE TnInv'
  <2>1. /\ Crosses /\ UNCHANGED <<nav, panelState, reveals, mixed>>
        /\ app' \in {app, [app EXCEPT !.front = t]}
    BY <1>4 DEF ACTIVATE_TAB
  <2>2. app' \in [tabs : SUBSET NavTabs, front : NavTabs \cup {NoNav}, collapsed : BOOLEAN,
                  third : BOOLEAN]
    BY <1>1, <2>1
  <2> QED
    BY <1>1, <2>1, <2>2, CrossingStep
<1>5. ASSUME NEW t \in NavTabs, CLOSE_DOCUMENT(t) PROVE TnInv'
  <2>1. /\ Crosses /\ UNCHANGED <<nav, panelState, reveals, mixed>>
    BY <1>5 DEF CLOSE_DOCUMENT
  <2>2. PICK u \in IF app.front # t THEN {app.front}
                   ELSE IF app.tabs = {t} THEN {NoNav} ELSE app.tabs \ {t} :
          app' = [app EXCEPT !.tabs = @ \ {t}, !.front = u]
    BY <1>5 DEF CLOSE_DOCUMENT
  <2>3. u \in NavTabs \cup {NoNav}
    BY <1>1, <2>2
  <2>4. app' \in [tabs : SUBSET NavTabs, front : NavTabs \cup {NoNav}, collapsed : BOOLEAN,
                  third : BOOLEAN]
    <3>1. app.tabs \ {t} \in SUBSET NavTabs
      BY <1>1
    <3>2. app' = [app EXCEPT !.tabs = app.tabs \ {t}, !.front = u]
      BY <1>1, <2>2
    <3> QED
      BY <1>1, <2>3, <3>1, <3>2
  <2> QED
    BY <1>1, <2>1, <2>4, CrossingStep
<1> QED
  BY <1>2, <1>3, <1>4, <1>5

(* A render shows the target that is pending now. *)
LEMMA NavRenderStep ==
  ASSUME TnInv, RenderNav
  PROVE  TnInv'
<1>1. /\ seen' = Showing /\ UNCHANGED <<app, nav, sized, rows, rowCache, ran, reveals, mixed, crossed>>
      /\ Live' = Live
  BY DEF RenderNav, Live
<1>2. /\ Showing \in NavViews /\ Showing.front = app.front /\ Showing.pend = Target
      /\ app.front = NoNav => Target = NoNav
  BY ShowingIs DEF TnInv
<1>3. Target' = Target
  BY <1>1 DEF Target
<1>4. NavTypeOK'
  BY <1>1, <1>2 DEF TnInv, NavTypeOK
<1>5. RowsInv' /\ NoTargetInv' /\ LiveInv'
  BY <1>1, <1>2 DEF TnInv, RowsInv, NoTargetInv, LiveInv
<1>6. PursuitInv'
  BY <1>1, <1>2, <1>3 DEF TnInv, PursuitInv, Wanted, Ended
<1>7. SelectionsOfTheirTab' /\ HistorySound'
  BY <1>1 DEF TnInv, SelectionsOfTheirTab, HistorySound
<1> QED
  BY <1>4, <1>5, <1>6, <1>7 DEF TnInv

(* The effects take the rows of the tab that was rendered and follow its
   target, and nothing else. *)
LEMMA NavEffectsStep ==
  ASSUME TnInv, NavEffects
  PROVE  TnInv'
<1> DEFINE moved == seen.front # ran.front
           kept  == [t \in NavTabs |-> IF t \in seen.tabs THEN rowCache[t] ELSE NoNav]
           own   == IF kept[seen.front] = NoNav THEN seen.front ELSE kept[seen.front]
           dead  == {[r EXCEPT !.live = FALSE] : r \in reveals}
           old   == IF Cancels THEN dead ELSE reveals
           new   == [tab |-> seen.front, target |-> seen.pend, at |-> "path", live |-> TRUE]
<1>1. /\ NavTypeOK /\ RowsInv /\ NoTargetInv /\ LiveInv /\ PursuitInv
      /\ SelectionsOfTheirTab /\ HistorySound
  BY DEF TnInv
<1>2. seen # ran /\ ran' = seen /\ UNCHANGED <<app, nav, seen, mixed, crossed>>
  BY DEF NavEffects
<1>3. \/ /\ seen.front = NoNav /\ rows' = NoNav /\ rowCache' = kept /\ sized' = FALSE
         /\ reveals' = old
      \/ /\ seen.front # NoNav /\ rows' = IF moved THEN own ELSE rows
         /\ rowCache' = IF moved THEN [kept EXCEPT ![seen.front] = own] ELSE kept
         /\ reveals' = IF Cancels /\ seen.pend # NoNav /\ seen.ready THEN old \cup {new} ELSE old
         /\ UNCHANGED sized
  BY DEF NavEffects
<1>4. kept \in [NavTabs -> NavTabs \cup {NoNav}] /\ \A t \in NavTabs : kept[t] \in {rowCache[t], NoNav}
  BY <1>1 DEF NavTypeOK
<1>5. /\ seen.front \in NavTabs \cup {NoNav} /\ seen.pend \in NavNodes \cup {NoNav}
      /\ seen.front = NoNav => seen.pend = NoNav
  BY <1>1 DEF NavTypeOK, NavViews, NoTargetInv
<1>6. seen.front # NoNav => own \in NavTabs /\ (own = seen.front \/ own = rowCache[seen.front])
  BY <1>1, <1>4, <1>5, NavAssumption DEF NavTypeOK
<1>7. dead \subseteq [tab : NavTabs, target : NavNodes, at : {"path", "expand", "scroll"},
                      live : BOOLEAN] /\ \A r \in dead : ~r.live
  <2> SUFFICES ASSUME NEW r \in reveals
               PROVE  /\ [r EXCEPT !.live = FALSE] \in [tab : NavTabs, target : NavNodes,
                            at : {"path", "expand", "scroll"}, live : BOOLEAN]
                      /\ ~[r EXCEPT !.live = FALSE].live
    OBVIOUS
  <2> QED
    BY <1>1 DEF NavTypeOK
<1> HIDE DEF kept, own, dead
<1>8. rows' \in NavTabs \cup {NoNav} /\ rowCache' \in [NavTabs -> NavTabs \cup {NoNav}] /\ sized' \in BOOLEAN
  <2>1. CASE seen.front = NoNav
    BY <1>3, <1>4, <2>1
  <2>2. CASE seen.front # NoNav
    BY <1>1, <1>3, <1>4, <1>6, <2>2 DEF NavTypeOK
  <2> QED
    BY <2>1, <2>2
<1>9. reveals' \subseteq [tab : NavTabs, target : NavNodes, at : {"path", "expand", "scroll"},
                          live : BOOLEAN]
  <2>1. old \subseteq [tab : NavTabs, target : NavNodes, at : {"path", "expand", "scroll"},
                       live : BOOLEAN]
    BY <1>1, <1>7 DEF NavTypeOK
  <2>2. seen.front # NoNav /\ seen.pend # NoNav =>
          new \in [tab : NavTabs, target : NavNodes, at : {"path", "expand", "scroll"}, live : BOOLEAN]
    BY <1>5
  <2> QED
    BY <1>3, <2>1, <2>2
<1>10. NavTypeOK'
  BY <1>1, <1>2, <1>8, <1>9 DEF NavTypeOK
<1>11. RowsInv'
  <2>1. ASSUME NEW t \in NavTabs \ mixed PROVE rowCache'[t] \in {NoNav, t}
    <3>1. kept[t] \in {NoNav, t}
      BY <1>1, <1>4, <2>1 DEF RowsInv
    <3>2. CASE rowCache' = kept
      BY <3>1, <3>2
    <3>3. CASE seen.front # NoNav /\ rowCache' = [kept EXCEPT ![seen.front] = own]
      <4>1. CASE t = seen.front
        BY <1>1, <1>4, <1>6, <3>3, <4>1 DEF RowsInv
      <4>2. CASE t # seen.front
        BY <1>4, <3>1, <3>3, <4>2
      <4> QED
        BY <4>1, <4>2
    <3> QED
      BY <1>3, <3>2, <3>3
  <2>2. seen.front # NoNav => rows' = seen.front \/ seen.front \in mixed
    <3>1. CASE seen.front = NoNav
      BY <3>1
    <3>2. CASE seen.front # NoNav /\ moved
      <4>1. rows' = own
        BY <1>3, <3>2
      <4>2. rowCache[seen.front] \in {NoNav, seen.front} \/ seen.front \in mixed
        BY <1>1, <1>5, <3>2 DEF RowsInv
      <4>3. own # NoNav
        BY <1>6, <3>2, NavAssumption
      <4> QED
        BY <1>6, <3>2, <4>1, <4>2, <4>3
    <3>3. CASE seen.front # NoNav /\ ~moved
      BY <1>1, <1>3, <3>3 DEF RowsInv
    <3> QED
      BY <3>1, <3>2, <3>3
  <2> QED
    BY <1>2, <2>1, <2>2 DEF RowsInv
<1>12. NoTargetInv'
  BY <1>1, <1>2 DEF NoTargetInv
<1>13. CASE ~Cancels
  <2>1. seen.pend = ran.pend /\ seen.front = ran.front /\ seen.ready = ran.ready
    BY <1>13 DEF Cancels, RevealDeps
  <2>2. reveals' = reveals /\ Live' = Live
    BY <1>3, <1>13 DEF Live
  <2>3. LiveInv' /\ (Wanted' <=> Wanted)
    BY <1>1, <1>2, <2>1, <2>2 DEF LiveInv, Wanted
  <2>4. Ended => FALSE
    BY <1>2, <2>1 DEF Ended
  <2>5. PursuitInv'
    BY <1>1, <1>2, <2>2, <2>3, <2>4 DEF PursuitInv
  <2> QED
    BY <1>1, <1>2, <1>10, <1>11, <1>12, <2>3, <2>5 DEF TnInv, SelectionsOfTheirTab, HistorySound
<1>14. CASE Cancels
  <2>1. reveals' = IF seen.pend # NoNav /\ seen.ready THEN dead \cup {new} ELSE dead
    BY <1>3, <1>5, <1>14
  <2>2. Live' = IF seen.pend # NoNav /\ seen.ready THEN {new} ELSE {}
    BY <1>7, <2>1 DEF Live
  <2>3. LiveInv'
    <3>1. \A r \in Live' : r = new /\ seen.ready
      BY <2>2
    <3>2. new.tab = seen.front /\ new.target = seen.pend
      OBVIOUS
    <3> QED
      BY <1>2, <3>1, <3>2 DEF LiveInv
  <2>4. Wanted' <=> Live' # {}
    BY <1>2, <2>2 DEF Wanted
  <2>5. PursuitInv'
    BY <2>4 DEF PursuitInv
  <2> QED
    BY <1>1, <1>2, <1>10, <1>11, <1>12, <2>3, <2>5 DEF TnInv, SelectionsOfTheirTab, HistorySound
<1> QED
  BY <1>13, <1>14

(* A reveal goes on with its calls, and one that was cancelled stops. *)
LEMMA RevealSteps ==
  ASSUME TnInv, NEW r \in reveals, Discarded(r) \/ PathLands(r) \/ ExpandLands(r)
  PROVE  TnInv'
<1>1. /\ NavTypeOK /\ RowsInv /\ LiveInv /\ \A t \in NavTabs : GoodNav(t, nav[t])
  BY GoodNavs DEF TnInv, NavTypeOK
<1>2. UNCHANGED <<app, nav, sized, rows, seen, ran, mixed, crossed>>
  BY DEF Discarded, PathLands, ExpandLands, panelState
<1>3. Target' = Target
  BY <1>2 DEF Target
<1>4. CASE Discarded(r)
  <2>1. reveals' = reveals \ {r} /\ ~r.live /\ rowCache' = rowCache
    BY <1>4 DEF Discarded, RevealEnds, panelState
  <2>2. Live' = Live
    BY <2>1 DEF Live
  <2>3. NavTypeOK' /\ RowsInv'
    BY <1>1, <1>2, <2>1 DEF NavTypeOK, RowsInv
  <2> QED
    BY <1>1, <1>2, <1>3, <2>2, <2>3, QuietStep
<1>5. CASE PathLands(r) \/ ExpandLands(r)
  <2>1. PICK step \in {"expand", "scroll"} :
          reveals' = (reveals \ {r}) \cup {[r EXCEPT !.at = step]}
    BY <1>5 DEF PathLands, ExpandLands, Advances
  <2> DEFINE s == [r EXCEPT !.at = step]
  <2>2. /\ s.tab = r.tab /\ s.target = r.target /\ s.live /\ r.live
        /\ s \in [tab : NavTabs, target : NavNodes, at : {"path", "expand", "scroll"}, live : BOOLEAN]
    BY <1>1, <1>5 DEF NavTypeOK, PathLands, ExpandLands
  <2> HIDE DEF s
  <2>3. Live = {r} /\ Live' = {s}
    BY <1>1, <2>1, <2>2 DEF Live, LiveInv, s
  <2>4. r.tab = ran.front /\ r.target = ran.pend /\ ran.ready /\ r.tab \in NavTabs
    BY <1>1, <2>3 DEF LiveInv, NavTypeOK
  <2>5. rowCache' \in {rowCache, [rowCache EXCEPT ![r.tab] = rows]}
    BY <1>5 DEF PathLands, ExpandLands, panelState
  <2>6. rows = r.tab \/ r.tab \in mixed
    BY <1>1, <2>4, NavAssumption DEF RowsInv
  <2>7. RowsInv'
    <3>1. ASSUME NEW t \in NavTabs \ mixed PROVE rowCache'[t] \in {NoNav, t}
      BY <1>1, <2>4, <2>5, <2>6 DEF RowsInv, NavTypeOK
    <3> QED
      BY <1>1, <1>2, <3>1 DEF RowsInv
  <2>8. NavTypeOK'
    <3>1. reveals' \subseteq [tab : NavTabs, target : NavNodes, at : {"path", "expand", "scroll"},
                              live : BOOLEAN]
      BY <1>1, <2>1, <2>2 DEF NavTypeOK, s
    <3>2. rowCache' \in [NavTabs -> NavTabs \cup {NoNav}]
      BY <1>1, <2>4, <2>5 DEF NavTypeOK
    <3> QED
      BY <1>1, <1>2, <3>1, <3>2 DEF NavTypeOK
  <2>9. LiveInv'
    BY <1>2, <2>2, <2>3, <2>4 DEF LiveInv
  <2>10. NoTargetInv' /\ PursuitInv'
    BY <1>2, <1>3, <2>3 DEF TnInv, NoTargetInv, PursuitInv, Wanted, Ended
  <2> QED
    BY <1>2, <2>7, <2>8, <2>9, <2>10 DEF TnInv, SelectionsOfTheirTab, HistorySound
<1> QED
  BY <1>4, <1>5

(* A reveal that fails or reaches its target clears the target, and selects
   what it reached in the tab it was for. *)
LEMMA RevealEndSteps ==
  ASSUME TnInv, NEW r \in reveals, NavFails(r) \/ ScrollEnds(r)
  PROVE  TnInv'
<1>1. /\ NavTypeOK /\ LiveInv /\ \A t \in NavTabs : GoodNav(t, nav[t])
      /\ app.front \in NavTabs \cup {NoNav}
  BY GoodNavs DEF TnInv, NavTypeOK
<1>2. r.live /\ RevealEnds(r) /\ Crosses /\ UNCHANGED <<app, panelState, mixed>>
  BY DEF NavFails, ScrollEnds
<1>3. app.front # NoNav => GoodNav(app.front, ActiveNav)
  BY <1>1 DEF ActiveNav
<1>4. CASE NavFails(r)
  <2> DEFINE n == CLEAR_NAV_TARGET(ActiveNav)
  <2>1. OnFront(n)
    BY <1>4 DEF NavFails
  <2>2. app.front # NoNav => GoodNav(app.front, n) /\ n.pend = NoNav
    BY <1>1, <1>3, MovesAreGood DEF CLEAR_NAV_TARGET
  <2> HIDE DEF n
  <2> QED
    BY <1>2, <2>1, <2>2, EndingStep
<1>5. CASE ScrollEnds(r)
  <2> DEFINE e == NavEntry(r.target, r.tab)
             m == SELECT_NODE(ActiveNav, e)
             n == CLEAR_NAV_TARGET(m)
  <2>1. OnFront(n)
    BY <1>5 DEF ScrollEnds
  <2>2. r.tab = ran.front /\ r.tab \in NavTabs /\ r.target \in NavNodes
    BY <1>1, <1>2 DEF LiveInv, Live, NavTypeOK
  <2>3. e \in NavEntries /\ (e.of = app.front \/ e.unseen)
    BY <2>2 DEF NavEntry, NavEntries
  <2> HIDE DEF e
  <2>4. app.front # NoNav => GoodNav(app.front, m)
    BY <1>1, <1>3, <2>3, SelectIsGood
  <2> HIDE DEF m
  <2>5. app.front # NoNav => GoodNav(app.front, n) /\ n.pend = NoNav
    BY <1>1, <2>4, MovesAreGood DEF CLEAR_NAV_TARGET
  <2> HIDE DEF n
  <2> QED
    BY <1>2, <2>1, <2>5, EndingStep
<1> QED
  BY <1>4, <1>5

(* A lazy load puts the displayed rows into the entry of the rendered tab,
   and a tab that is given another's rows is in mixed. *)
LEMMA LoadStep ==
  ASSUME TnInv, NEW t \in NavTabs, LoadLands(t)
  PROVE  TnInv'
<1>1. /\ NavTypeOK /\ RowsInv /\ \A u \in NavTabs : GoodNav(u, nav[u])
  BY GoodNavs DEF TnInv, NavTypeOK
<1>2. UNCHANGED <<app, nav, sized, rows, seen, ran, reveals, crossed>>
  BY DEF LoadLands
<1>3. \/ rowCache' = rowCache /\ mixed' = mixed
      \/ /\ rowCache' = [rowCache EXCEPT ![t] = rows]
         /\ mixed' = IF rows = t THEN mixed ELSE mixed \cup {t}
  BY DEF LoadLands
<1>4. NavTypeOK'
  <2>1. rowCache' \in [NavTabs -> NavTabs \cup {NoNav}]
    BY <1>1, <1>3 DEF NavTypeOK
  <2> QED
    BY <1>1, <1>2, <2>1 DEF NavTypeOK
<1>5. RowsInv'
  BY <1>1, <1>2, <1>3 DEF RowsInv, NavTypeOK
<1>6. Target' = Target /\ Live' = Live
  BY <1>2 DEF Target, Live
<1> QED
  BY <1>1, <1>2, <1>4, <1>5, <1>6, QuietStep

(* Every step keeps TnInv. *)
LEMMA TnNextInv == TnInv /\ [TnNext]_tnVars => TnInv'
<1> SUFFICES ASSUME TnInv, [TnNext]_tnVars PROVE TnInv'
  OBVIOUS
<1>1. CASE \/ \E node \in NavNodes : handleSelect(node)
           \/ GoThroughHistory \/ TOGGLE_LEFT_PANEL \/ handleToggle \/ Measured \/ UNCHANGED tnVars
  BY <1>1, CommandSteps
<1>2. CASE \/ \E node \in NavNodes : NAVIGATE_TO_REF(node)
           \/ OPEN_DOCUMENT_3
           \/ \E t \in NavTabs : ACTIVATE_TAB(t) \/ CLOSE_DOCUMENT(t)
  BY <1>2, DispatchSteps
<1>3. CASE RenderNav
  BY <1>3, NavRenderStep
<1>4. CASE NavEffects
  BY <1>4, NavEffectsStep
<1>5. ASSUME NEW r \in reveals, Discarded(r) \/ PathLands(r) \/ ExpandLands(r) PROVE TnInv'
  BY <1>5, RevealSteps
<1>6. ASSUME NEW r \in reveals, NavFails(r) \/ ScrollEnds(r) PROVE TnInv'
  BY <1>6, RevealEndSteps
<1>7. ASSUME NEW t \in NavTabs, LoadLands(t) PROVE TnInv'
  BY <1>7, LoadStep
<1> QED
  BY <1>1, <1>2, <1>3, <1>4, <1>5, <1>6, <1>7 DEF TnNext

(* In a settled panel the effects have seen what is shown, so a wanted target
   has its reveal. *)
LEMMA TnInvIsSound == TnInv => RevealSound
<1> SUFFICES ASSUME TnInv PROVE RevealSound
  OBVIOUS
<1>1. /\ NavTypeOK /\ RowsInv /\ NoTargetInv /\ LiveInv /\ PursuitInv
      /\ Showing.front = app.front /\ Showing.pend = Target
  BY ShowingIs DEF TnInv
<1>2. RowsOfTheirTab(mixed)
  BY <1>1 DEF RowsInv, RowsOfTheirTab, NavSettled
<1>3. TargetsPursued
  <2> SUFFICES ASSUME NavSettled, ~crossed
               PROVE  {<<x.tab, x.target>> : x \in {r \in reveals : r.live}} =
                        IF seen.pend # NoNav /\ seen.ready THEN {<<seen.front, seen.pend>>} ELSE {}
    BY DEF TargetsPursued
  <2>1. seen = ran /\ Target = ran.pend
    BY <1>1 DEF NavSettled
  <2>2. Wanted <=> Live # {}
    BY <1>1, <2>1 DEF PursuitInv, Ended
  <2>3. \A x \in Live : <<x.tab, x.target>> = <<ran.front, ran.pend>>
    BY <1>1 DEF LiveInv
  <2>4. {<<x.tab, x.target>> : x \in Live} = IF Wanted THEN {<<ran.front, ran.pend>>} ELSE {}
    BY <2>2, <2>3
  <2> QED
    BY <2>1, <2>4 DEF Live, Wanted
<1> QED
  BY <1>2, <1>3 DEF TnInv, RevealSound

(* For any nodes and any number of steps: a tab's rows, cached tree, history
   and selections are its own, and a pending target that the panel has seen is
   being revealed, once (TreePanel.tsx, useDocumentState.tsx). *)
THEOREM RevealIsSound == TnSpec => []RevealSound
<1>1. TnInv /\ [TnNext]_tnVars => TnInv'
  BY TnNextInv
<1> QED
  BY TnInitInv, <1>1, TnInvIsSound, PTL DEF TnSpec

(* The two panels side by side: what each promises does not depend on the
   other. *)
THEOREM PanelsAreSound == DsSpec /\ TnSpec => []PanelsSound
<1>1. DsSpec /\ TnSpec => []DiffSideSound /\ []RevealSound
  BY DiffSideIsSound, RevealIsSound
<1>2. DiffSideSound /\ RevealSound => PanelsSound
  BY DEF PanelsSound
<1> QED
  BY <1>1, <1>2, PTL

-----------------------------------------------------------------------------
(* AtomicFile.                                                             *)

Places == Running \cup {"idle", "returned", "dead"}

AfTypeOK ==
  /\ target \in (Writers \cup {NoFile}) \X {"part", "whole"}
  /\ temps \in [Writers -> {NoFile, "part", "whole"}]
  /\ stale \subseteq Writers
  /\ at \in [Writers -> Places]
  /\ attempt \in [Writers -> Nat]
  /\ answer \in [Writers -> {"none", "ok", "error"}]
  /\ landed \subseteq Writers /\ leftBehind \subseteq Writers

(* The parts of the invariant that every sweep of another writer may touch:
   a name is only there from its creation on, a renamed one is gone, and what
   a call is about to rename is complete or was swept away.  A call that left
   its file behind is one that failed. *)
TempsInv ==
  /\ \A w \in Writers :
       temps[w] # NoFile =>
         \/ at[w] \in {"write", "close", "rename", "cleanup", "dead"}
         \/ w \in leftBehind /\ at[w] \in {"failed", "returned"}
  /\ \A w \in Writers : at[w] \in {"close", "rename"} => temps[w] # "part"
  /\ \A w \in Writers : w \in leftBehind => at[w] \in {"failed", "returned", "dead"}

(* A file lands once, at the rename, and the call that placed it goes on to
   report it unless its process dies. *)
RenamedInv ==
  /\ \A w \in Writers : at[w] = "renamed" => w \in landed
  /\ \A w \in Writers : w \in landed => at[w] \in {"renamed", "returned", "dead"}
  /\ target[1] # NoFile => target[1] \in landed

(* A call answers once, when it returns, and what a call left behind is a
   failed one's. *)
AnswersInv ==
  /\ \A w \in Writers : answer[w] = "none" <=> at[w] # "returned"
  /\ \A w \in Writers : answer[w] = "ok" => w \in landed
  /\ \A w \in Writers : answer[w] = "error" => w \notin landed
  /\ \A w \in Writers : w \in leftBehind => w \notin landed

AfInv == AfTypeOK /\ TempsInv /\ RenamedInv /\ AnswersInv /\ FilesAreWhole

(* Nothing is written at first. *)
LEMMA AfInitInv == AfInit => AfInv
  BY WriterAssumption
  DEF AfInit, AfInv, AfTypeOK, TempsInv, RenamedInv, AnswersInv, FilesAreWhole, Places, Running

(* Every step of a writer, its death and the passing of time keep AfInv. *)
LEMMA AfNextInv == AfInv /\ [AfNext]_afVars => AfInv'
<1> SUFFICES ASSUME AfInv, [AfNext]_afVars PROVE AfInv'
  OBVIOUS
<1> USE WriterAssumption
<1> USE DEF AfInv, AfTypeOK, TempsInv, RenamedInv, AnswersInv, FilesAreWhole, Places, Running, Goto,
            UnchangedSweep, UnchangedAnswer
<1>1. ASSUME NEW w \in Writers, WriteStarts(w) PROVE AfInv'
  BY <1>1 DEF WriteStarts
<1>2. ASSUME NEW w \in Writers, removeStaleTemps(w) PROVE AfInv'
  BY <1>2 DEF removeStaleTemps
<1>3. ASSUME NEW w \in Writers, StaleTemp(w) PROVE AfInv'
  BY <1>3 DEF StaleTemp
<1>4. ASSUME NEW w \in Writers, RemoveStale(w) PROVE AfInv'
  BY <1>4 DEF RemoveStale, Unlink
<1>5. ASSUME NEW w \in Writers, SweepEnds(w) PROVE AfInv'
  BY <1>5 DEF SweepEnds
<1>6. ASSUME NEW w \in Writers, CreateTemp(w) PROVE AfInv'
  BY <1>6 DEF CreateTemp
<1>7. ASSUME NEW w \in Writers, WriteTemp(w) PROVE AfInv'
  BY <1>7 DEF WriteTemp
<1>8. ASSUME NEW w \in Writers, CloseTemp(w) PROVE AfInv'
  BY <1>8 DEF CloseTemp
<1>9. ASSUME NEW w \in Writers, Rename(w) PROVE AfInv'
  BY <1>9 DEF Rename, Unlink
<1>10. ASSUME NEW w \in Writers, Cleanup(w) PROVE AfInv'
  BY <1>10 DEF Cleanup, Unlink
<1>11. ASSUME NEW w \in Writers, WriteReturns(w) PROVE AfInv'
  BY <1>11 DEF WriteReturns
<1>12. ASSUME NEW w \in Writers, Crash(w) PROVE AfInv'
  BY <1>12 DEF Crash
<1>13. ASSUME NEW w \in Writers, Ages(w) PROVE AfInv'
  BY <1>13 DEF Ages
<1>14. CASE UNCHANGED afVars
  BY <1>14 DEF afVars
<1> QED
  BY <1>1, <1>2, <1>3, <1>4, <1>5, <1>6, <1>7, <1>8, <1>9, <1>10, <1>11, <1>12, <1>13, <1>14 DEF AfNext

(* Whatever processes write, die and sweep, a reader of the path never sees a
   partial file; a call reports success if and only if its file was there,
   although a sweep may take the temp file of a call in progress; and a temp
   file is left only by a process that died or by a call that failed to write
   and then to remove it. *)
THEOREM AtomicWrites == AfSpec => []AtomicFileSafe
<1>1. AfInv => AtomicFileSafe
  <2> SUFFICES ASSUME AfInv PROVE AtomicFileSafe
    OBVIOUS
  <2> USE DEF AfInv, AfTypeOK, TempsInv, RenamedInv, AnswersInv
  <2>1. FilesAreWhole
    OBVIOUS
  <2>2. AnswersAreTrue
    BY DEF AnswersAreTrue
  <2>3. NoLitter
    BY DEF NoLitter, Running
  <2> QED
    BY <2>1, <2>2, <2>3 DEF AtomicFileSafe
<1> QED
  BY <1>1, AfInitInv, AfNextInv, PTL DEF AfSpec

-----------------------------------------------------------------------------
(* CliTool.                                                                *)

CtTypeOK ==
  /\ entry \in Entries
  /\ label \in {"install", "uninstall"}
  /\ dialog \in {"none", "confirm", "pathHelp"}
  /\ fsCall \in {"idle", "lstat", "remove", "symlink", "unlink"}
  /\ blocks \in Nat
  /\ place \in [bundle : BOOLEAN, shell : BOOLEAN, onPath : BOOLEAN]
  /\ touched \in BOOLEAN /\ swapped \in BOOLEAN /\ agreed \in BOOLEAN

(* An install, or the question it asks, runs under the label that offers it,
   and a removal under the other one. *)
HandlerInv ==
  /\ dialog = "confirm" => label = "install" /\ fsCall = "idle"
  /\ fsCall \in {"lstat", "remove", "symlink"} => label = "install"
  /\ fsCall = "unlink" => label = "uninstall"

(* What the running handler may take away: an entry it found to be no foreign
   one, the one the user agreed to, or one swapped in since. *)
ConsentInv == fsCall \in {"lstat", "remove", "unlink"} /\ entry \in Foreign => agreed \/ swapped

CtInv == CtTypeOK /\ HandlerInv /\ ConsentInv /\ CliToolSafe

(* The label is taken from the disk at launch. *)
LEMMA CtInitInv == CtInit => CtInv
<1> SUFFICES ASSUME CtInit PROVE CtInv
  OBVIOUS
<1>1. CtTypeOK /\ HandlerInv /\ ConsentInv
  <2>1. /\ blocks \in Nat /\ dialog = "none" /\ fsCall = "idle" /\ entry \in Entries
        /\ touched = FALSE /\ swapped = FALSE /\ agreed = FALSE
    BY DEF CtInit
  <2>2. label \in {"install", "uninstall"}
    BY DEF CtInit
  <2>3. place \in [bundle : BOOLEAN, shell : BOOLEAN, onPath : BOOLEAN]
    BY DEF CtInit
  <2> QED
    BY <2>1, <2>2, <2>3 DEF CtTypeOK, HandlerInv, ConsentInv
<1>2. CliToolSafe
  BY DEF CtInit, CliToolSafe
<1> QED
  BY <1>1, <1>2 DEF CtInv

(* Every click, every file system call of a handler and every change by
   another program in between keep CtInv. *)
LEMMA CtNextInv == CtInv /\ [CtNext]_ctVars => CtInv'
<1> SUFFICES ASSUME CtInv, [CtNext]_ctVars PROVE CtInv'
  OBVIOUS
<1> USE DEF CtInv, CtTypeOK, HandlerInv, ConsentInv, CliToolSafe, Entries, Ours, Foreign,
            IsInstalled, classifyEntry
<1>1. CASE ClickInstall
  BY <1>1 DEF ClickInstall, Click, InstallCLI
<1>2. CASE ClickReplace
  BY <1>2 DEF ClickReplace, Click, InstallCLI
<1>3. CASE linkInto
  BY <1>3 DEF linkInto
<1>4. CASE RemoveExisting
  BY <1>4 DEF RemoveExisting
<1>5. CASE Symlink
  BY <1>5 DEF Symlink, flipToUninstall
<1>6. CASE ClickCancel
  BY <1>6 DEF ClickCancel, Click
<1>7. CASE ClickAddIt
  BY <1>7 DEF ClickAddIt, Click, AddDirToShellProfile
<1>8. CASE Uninstall
  <2>1. CASE IsInstalled(entry) /\ fsCall' = "unlink" /\ UNCHANGED <<label, touched>>
    BY <1>8, <2>1 DEF Uninstall
  <2>2. CASE entry = "absent" /\ label' = "install" /\ touched' = FALSE /\ UNCHANGED fsCall
    BY <1>8, <2>2 DEF Uninstall, Click
  <2>3. CASE entry # "absent" /\ UNCHANGED <<fsCall, label, touched>>
    BY <1>8, <2>3 DEF Uninstall, Click
  <2> QED
    BY <1>8, <2>1, <2>2, <2>3 DEF Uninstall
<1>9. CASE RemoveOurs
  BY <1>9 DEF RemoveOurs
<1>10. CASE ForeignChange
  BY <1>10 DEF ForeignChange
<1>11. CASE UNCHANGED ctVars
  BY <1>11 DEF ctVars
<1> QED
  BY <1>1, <1>2, <1>3, <1>4, <1>5, <1>6, <1>7, <1>8, <1>9, <1>10, <1>11 DEF CtNext

(* While no other program changes the link, the menu item offers what can be
   done, failed installs and removals included and in the middle of a handler
   too, and the shell profile never gets a second PATH block. *)
THEOREM CliToolIsSafe == CtSpec => []CliToolSafe
  BY CtInitInv, CtNextInv, PTL DEF CtSpec, CtInv

(* However other programs change the entry between the look of InstallCLI or
   UninstallCLI and its removal, and while the question is open, a foreign
   entry is only taken when the user agreed to it or when it was put there
   after that look. *)
THEOREM ForeignEntriesAreKept == CtSpec => ForeignEntriesKept
<1>1. CtInv /\ [CtNext]_ctVars => [ForeignKept]_ctVars
  <2> SUFFICES ASSUME CtInv, CtNext, TakesForeign PROVE agreed \/ swapped
    BY DEF ForeignKept
  <2> USE DEF CtInv, CtTypeOK, ConsentInv, TakesForeign, Entries, Ours, Foreign
  <2>1. CASE RemoveExisting \/ RemoveOurs
    BY <2>1 DEF RemoveExisting, RemoveOurs
  <2>2. CASE ClickInstall \/ ClickReplace \/ linkInto \/ Symlink
    BY <2>2 DEF ClickInstall, ClickReplace, InstallCLI, linkInto, Symlink
  <2>3. CASE ClickCancel \/ ClickAddIt \/ Uninstall \/ ForeignChange
    BY <2>3 DEF ClickCancel, ClickAddIt, Uninstall, ForeignChange
  <2> QED
    BY <2>1, <2>2, <2>3 DEF CtNext
<1> QED
  BY <1>1, CtInitInv, CtNextInv, PTL DEF CtSpec, ForeignEntriesKept

-----------------------------------------------------------------------------
(* Startup.                                                                *)

TimerJobs == {"fireTimeout", "dismiss", "close", "forceQuit", "ready"}
JobNames ==
  TimerJobs \cup {"floor", "within", "await", "onDismiss", "onTimeout", "checkLoaded",
                  "loadShow", "checkReady"}

SchedType ==
  [shownAt : Nat, deadline : Nat, mainReadyFired : BOOLEAN, readyPending : BOOLEAN,
   timeoutFired : BOOLEAN, dismissFired : BOOLEAN, dismissedAt : Nat]

AboutType == [ready : BOOLEAN, pending : BOOLEAN, shown : BOOLEAN, asked : BOOLEAN]

StartupTypeOK ==
  /\ now \in Nat
  /\ sched \in SchedType
  /\ \A t \in timers : t.due \in Nat /\ t.job \in TimerJobs
  /\ jobs \subseteq JobNames
  /\ failed \in BOOLEAN /\ quit \in BOOLEAN

(* The flag a job or a timer owes its existence to: a dismissal was ordered by
   the main window, and what reveals the windows or reports a failure runs
   after its flag was set. *)
FlagsInv ==
  /\ "floor" \in jobs \/ "dismiss" \in jobs \/ (\E t \in timers : t.job = "dismiss")
       => sched.mainReadyFired
  /\ sched.dismissFired => sched.mainReadyFired
  /\ "onDismiss" \in jobs \/ main = "shown" => sched.dismissFired
  /\ "onTimeout" \in jobs \/ failed => sched.timeoutFired
  /\ sched.timeoutFired => ~sched.mainReadyFired /\ ~sched.readyPending
  /\ quit => failed

(* The floor: no dismissal is started, or timed, before it. *)
FloorInv ==
  /\ "dismiss" \in jobs => now >= sched.shownAt + minDisplay
  /\ \A t \in timers : t.job = "dismiss" => t.due >= sched.shownAt + minDisplay
  /\ sched.dismissFired => sched.dismissedAt >= sched.shownAt + minDisplay

AboutInv == about \in AboutType /\ AboutKept /\ (about.ready => ~about.pending)

StartupInv == StartupTypeOK /\ FlagsInv /\ FloorInv /\ AboutInv

(* The scheduler starts with its timeout armed and no flag set. *)
LEMMA StartupInitInv == StartupInit => StartupInv
<1> SUFFICES ASSUME StartupInit PROVE StartupInv
  OBVIOUS
<1> USE StartupAssumption DEF StartupInit
<1>1. StartupTypeOK
  <2>1. now \in Nat /\ timeout \in Nat /\ jobs = {} /\ failed = FALSE /\ quit = FALSE
    OBVIOUS
  <2>2. sched \in SchedType
    BY <2>1 DEF SchedType
  <2>3. \A t \in timers : t.due \in Nat /\ t.job \in TimerJobs
    BY <2>1 DEF TimerJobs
  <2> QED
    BY <2>1, <2>2, <2>3 DEF StartupTypeOK
<1>2. FlagsInv /\ FloorInv
  BY DEF FlagsInv, FloorInv
<1>3. AboutInv
  BY DEF AboutInv, AboutType, AboutKept
<1> QED
  BY <1>1, <1>2, <1>3 DEF StartupInv

(* The steps of the scheduler under its lock. *)
LEMMA SchedulerSteps ==
  ASSUME StartupInv, MainWindowReady \/ MainWindowReadyWithin \/ runDismiss \/ fireTimeout
  PROVE  StartupInv'
<1> USE StartupAssumption
<1> USE DEF StartupInv, StartupTypeOK, SchedType, FlagsInv, FloorInv, AboutInv, AboutKept,
            JobNames, TimerJobs, Decided, Ends, StopTimeout, windowVars
<1>1. CASE MainWindowReady
  <2> USE <1>1 DEF MainWindowReady
  <2>1. StartupTypeOK'
    BY DEF StartupTypeOK
  <2>2. FlagsInv'
    BY DEF FlagsInv
  <2>3. FloorInv'
    BY DEF FloorInv
  <2>4. AboutInv'
    BY DEF AboutInv, AboutKept
  <2> QED
    BY <2>1, <2>2, <2>3, <2>4 DEF StartupInv
<1>2. CASE MainWindowReadyWithin
  <2> USE <1>2 DEF MainWindowReadyWithin
  <2>1. StartupTypeOK'
    BY DEF StartupTypeOK
  <2>2. FlagsInv'
    <3>1. CASE Decided
      BY <3>1
    <3>2. CASE ~Decided
      BY <3>2
    <3> QED
      BY <3>1, <3>2
  <2>3. FloorInv'
    BY DEF FloorInv
  <2>4. AboutInv'
    BY DEF AboutInv, AboutKept
  <2> QED
    BY <2>1, <2>2, <2>3, <2>4 DEF StartupInv
<1>3. CASE runDismiss
  <2> USE <1>3 DEF runDismiss
  <2>1. StartupTypeOK'
    BY DEF StartupTypeOK
  <2>2. FlagsInv'
    <3>1. sched.mainReadyFired
      OBVIOUS
    <3>2. CASE sched.dismissFired \/ sched.timeoutFired
      BY <3>1, <3>2
    <3>3. CASE ~(sched.dismissFired \/ sched.timeoutFired)
      <4>1. /\ sched' = [sched EXCEPT !.dismissFired = TRUE, !.dismissedAt = now]
            /\ UNCHANGED <<timers, main, failed, quit>>
            /\ jobs' = (jobs \ {"dismiss"}) \cup {"onDismiss"}
        BY <3>3
      <4> QED
        BY <3>1, <3>3, <4>1
    <3> QED
      BY <3>2, <3>3
  <2>3. FloorInv'
    BY DEF FloorInv
  <2>4. AboutInv'
    BY DEF AboutInv, AboutKept
  <2> QED
    BY <2>1, <2>2, <2>3, <2>4 DEF StartupInv
<1>4. CASE fireTimeout
  <2> USE <1>4 DEF fireTimeout
  <2>1. StartupTypeOK'
    BY DEF StartupTypeOK
  <2>2. FlagsInv'
    BY DEF FlagsInv
  <2>3. FloorInv'
    BY DEF FloorInv
  <2>4. AboutInv'
    BY DEF AboutInv, AboutKept
  <2> QED
    BY <2>1, <2>2, <2>3, <2>4 DEF StartupInv
<1> QED
  BY <1>1, <1>2, <1>3, <1>4

(* The steps that wait: the floor, the splash page, the timers, the clock. *)
LEMMA WaitingSteps ==
  ASSUME StartupInv, MinDisplayFloor \/ AwaitSplash \/ TimerFires \/ Tick
  PROVE  StartupInv'
<1> USE StartupAssumption
<1> USE DEF StartupInv, StartupTypeOK, SchedType, FlagsInv, FloorInv, AboutInv, AboutKept,
            JobNames, TimerJobs, Ends, After, windowVars
<1>1. CASE MinDisplayFloor
  <2> USE <1>1 DEF MinDisplayFloor
  <2>1. now \in Int /\ sched.shownAt \in Nat /\ minDisplay \in Nat
    OBVIOUS
  <2>2. /\ "floor" \in jobs /\ jobs' \subseteq (jobs \ {"floor"}) \cup {"dismiss"}
        /\ "dismiss" \in jobs' => now >= sched.shownAt + minDisplay
        /\ \A t \in timers' : t \in timers \/ t = [due |-> sched.shownAt + minDisplay, job |-> "dismiss"]
    <3>1. CASE now - sched.shownAt >= minDisplay
      BY <2>1, <3>1
    <3>2. CASE ~(now - sched.shownAt >= minDisplay)
      <4>1. now + (minDisplay - (now - sched.shownAt)) = sched.shownAt + minDisplay
        BY <2>1
      <4> QED
        BY <2>1, <3>2, <4>1
    <3> QED
      BY <3>1, <3>2
  <2>3. UNCHANGED <<now, sched, main, failed, quit, about>>
    OBVIOUS
  <2>4. StartupTypeOK'
    BY <2>1, <2>2, <2>3
  <2>5. FlagsInv' /\ FloorInv'
    BY <2>1, <2>2, <2>3
  <2> QED
    BY <2>3, <2>4, <2>5
<1>2. CASE AwaitSplash
  <2> USE <1>2 DEF AwaitSplash
  <2> now \in Nat /\ loadWait \in Nat /\ sched.deadline \in Nat
    OBVIOUS
  <2>1. StartupTypeOK'
    <3>1. \A t \in timers' : t.due \in Nat /\ t.job \in TimerJobs
      OBVIOUS
    <3>2. jobs' \subseteq JobNames
      OBVIOUS
    <3> QED
      BY <3>1, <3>2
  <2>2. FlagsInv'
    BY DEF FlagsInv
  <2>3. FloorInv'
    BY DEF FloorInv
  <2>4. AboutInv'
    BY DEF AboutInv, AboutKept
  <2> QED
    BY <2>1, <2>2, <2>3, <2>4 DEF StartupInv
<1>3. CASE TimerFires
  <2> USE <1>3 DEF TimerFires
  <2>1. StartupTypeOK'
    BY DEF StartupTypeOK
  <2>2. FlagsInv'
    BY DEF FlagsInv
  <2>3. FloorInv'
    BY DEF FloorInv
  <2>4. AboutInv'
    BY DEF AboutInv, AboutKept
  <2> QED
    BY <2>1, <2>2, <2>3, <2>4 DEF StartupInv
<1>4. CASE Tick
  BY <1>4 DEF Tick
<1> QED
  BY <1>1, <1>2, <1>3, <1>4

(* The steps of the windows. *)
LEMMA WindowSteps ==
  ASSUME StartupInv,
         \/ onSplashDismiss \/ CloseSplash \/ onTimeout \/ ForceQuit \/ SplashClosing
         \/ RuntimeReady \/ CheckLoaded \/ LoadFinished \/ LoadShow \/ CheckReady
  PROVE  StartupInv'
<1> USE StartupAssumption
<1> USE DEF StartupInv, StartupTypeOK, SchedType, FlagsInv, FloorInv, AboutInv, AboutKept,
            JobNames, TimerJobs, Ends, After, windowVars
<1>1. CASE onSplashDismiss
  BY <1>1 DEF onSplashDismiss
<1>2. CASE CloseSplash
  BY <1>2 DEF CloseSplash
<1>3. CASE onTimeout
  BY <1>3 DEF onTimeout
<1>4. CASE ForceQuit
  BY <1>4 DEF ForceQuit
<1>5. CASE SplashClosing
  BY <1>5 DEF SplashClosing
<1>6. CASE RuntimeReady
  BY <1>6 DEF RuntimeReady
<1>7. CASE CheckLoaded
  BY <1>7 DEF CheckLoaded
<1>8. CASE LoadFinished
  BY <1>8 DEF LoadFinished
<1>9. CASE LoadShow
  BY <1>9 DEF LoadShow
<1>10. CASE CheckReady
  BY <1>10 DEF CheckReady
<1> QED
  BY <1>1, <1>2, <1>3, <1>4, <1>5, <1>6, <1>7, <1>8, <1>9, <1>10

(* The About request. *)
LEMMA AboutSteps ==
  ASSUME StartupInv, ShowAbout \/ NavigateStateChanged
  PROVE  StartupInv'
<1>1. StartupTypeOK' /\ FlagsInv' /\ FloorInv'
  BY DEF StartupInv, StartupTypeOK, FlagsInv, FloorInv, ShowAbout, NavigateStateChanged
<1>2. AboutInv'
  BY DEF StartupInv, AboutInv, AboutType, AboutKept, ShowAbout, NavigateStateChanged
<1> QED
  BY <1>1, <1>2 DEF StartupInv

(* Every step of the launch keeps StartupInv. *)
LEMMA StartupNextInv == StartupInv /\ [StartupNext]_startupVars => StartupInv'
<1> SUFFICES ASSUME StartupInv, [StartupNext]_startupVars PROVE StartupInv'
  OBVIOUS
<1>1. CASE StartupNext
  BY <1>1, SchedulerSteps, WaitingSteps, WindowSteps, AboutSteps DEF StartupNext, Jobs
<1>2. CASE UNCHANGED startupVars
  BY <1>2 DEF startupVars, StartupInv, StartupTypeOK, FlagsInv, FloorInv, AboutInv, AboutKept
<1> QED
  BY <1>1, <1>2

(* However late the web views, the timers and the callbacks are: a launch ends
   one way, the main window or the failure, never both; the splash is shown for
   its minimum time; and an early About request is not lost. *)
THEOREM LaunchIsSafe == StartupSpec => []StartupSafe
<1>1. StartupInv => StartupSafe
  <2> SUFFICES ASSUME StartupInv PROVE StartupSafe
    OBVIOUS
  <2>1. OneEnding
    BY DEF StartupInv, FlagsInv, OneEnding, StartupTypeOK, SchedType
  <2>2. MinDisplayKept
    BY StartupAssumption DEF StartupInv, FloorInv, MinDisplayKept, StartupTypeOK, SchedType
  <2> QED
    BY <2>1, <2>2 DEF StartupInv, AboutInv, StartupSafe
<1> QED
  BY <1>1, StartupInitInv, StartupNextInv, PTL DEF StartupSpec

-----------------------------------------------------------------------------
(* BatchOpen.                                                              *)

EventNames == {"batch-start", "load-start", "opened", "error", "batch-complete", "cancel"}
EventType == [name : EventNames, file : 0..BatchSize, warned : BOOLEAN]
ProgressType ==
  [active : BOOLEAN, total : {0, BatchSize}, completed : Nat, cancelled : BOOLEAN,
   note : {"none", "cancelled", "unsupported"}, asked : {"no", "in time", "late"}]

BoTypeOK ==
  /\ next \in 1..(BatchSize + 2) /\ (reading => next <= BatchSize)
  /\ bus \subseteq EventType
  /\ openedDocs \subseteq Files
  /\ progress \in ProgressType
  /\ cleared \in BOOLEAN /\ startFirst \in BOOLEAN

OnBus(name) == \E e \in bus : e.name = name
OpenedEvent(f) == Event("opened", f, Unsupported /\ f = BatchSize)

(* Each document the backend opened and did not close has a tab or,
   exclusively, one event that will make it.  A file is given a tab once. *)
DocsInv ==
  /\ shownTabs \subseteq openedDocs /\ shownTabs \subseteq tabsMade
  /\ tabsMade \subseteq Files /\ \A f \in tabsMade : f < next
  /\ \A f \in openedDocs : f < next /\ (f \in shownTabs \/ OpenedEvent(f) \in bus)
  /\ \A e \in bus : e.name = "opened" => e = OpenedEvent(e.file) /\ e.file \in openedDocs \ tabsMade

(* While batch-start is in flight the reducer knows of no batch, and a batch it
   knows of will be told that it is over. *)
StartInv ==
  /\ \A e \in bus : e.name = "batch-start" =>
       /\ e = Event("batch-start", 0, FALSE) /\ BatchSize > 1
       /\ ~progress.active /\ ~progress.cancelled /\ progress.asked = "no"
       /\ startFirst => tabsMade = {}
  /\ progress.active => BatchSize > 1
  /\ startFirst /\ (progress.active \/ OnBus("batch-start"))
       => next <= BatchSize + 1 \/ OnBus("batch-complete")

(* A cancel is remembered until every file has landed. *)
CancelInv ==
  /\ startFirst /\ (progress.active \/ progress.cancelled) => progress.total = BatchSize
  /\ startFirst /\ progress.asked # "no" => progress.cancelled \/ tabsMade = Files

BoInv == BoTypeOK /\ DocsInv /\ StartInv /\ CancelInv /\ BatchReported

(* The tabs of a batch are a finite set, counted one by one. *)
LEMMA TabsCount ==
  ASSUME NEW S \in SUBSET Files
  PROVE  /\ IsFiniteSet(S) /\ Cardinality(S) \in Nat
         /\ \A f \in Files : f \notin S => Cardinality(S \cup {f}) = Cardinality(S) + 1
         /\ Cardinality(S) <= BatchSize
         /\ Cardinality(S) = BatchSize => S = Files
<1>1. IsFiniteSet(Files) /\ Cardinality(Files) = BatchSize
  <2>1. BatchSize \in Nat /\ BatchSize >= 1
    BY BatchAssumption
  <2> QED
    BY <2>1, FS_Interval DEF Files
<1>2. IsFiniteSet(S) /\ Cardinality(S) <= BatchSize /\ (Cardinality(S) = BatchSize => S = Files)
  BY <1>1, FS_Subset
<1>3. Cardinality(S) \in Nat
  BY <1>2, FS_CardinalityType
<1>4. \A f \in Files : f \notin S => Cardinality(S \cup {f}) = Cardinality(S) + 1
  BY <1>2, FS_AddElement
<1> QED
  BY <1>2, <1>3, <1>4

(* The events have their type. *)
LEMMA EventHasType ==
  ASSUME NEW name \in EventNames, NEW f \in 0..BatchSize, NEW b \in BOOLEAN
  PROVE  Event(name, f, b) \in EventType
  BY DEF Event, EventType

(* Before the first event. *)
LEMMA BoInitInv == BoInit => BoInv
<1> SUFFICES ASSUME BoInit PROVE BoInv
  OBVIOUS
<1> USE BatchAssumption DEF BoInit
<1>1. BoTypeOK
  <2>1. BatchSize \in Nat /\ BatchSize >= 1 /\ 0 \in 0..BatchSize
    OBVIOUS
  <2>2. bus \subseteq EventType
    BY <2>1, EventHasType DEF EventNames
  <2>3. progress \in ProgressType
    BY DEF ProgressType
  <2>4. next = 1 /\ reading = FALSE /\ openedDocs = {} /\ cleared \in BOOLEAN /\ startFirst \in BOOLEAN
    OBVIOUS
  <2> HIDE DEF BoInit
  <2> QED
    BY <2>1, <2>2, <2>3, <2>4 DEF BoTypeOK
<1>2. DocsInv
  BY DEF DocsInv, Event
<1>3. StartInv
  BY DEF StartInv, OnBus, Event
<1>4. CancelInv /\ BatchReported
  BY DEF CancelInv, BatchReported
<1> QED
  BY <1>1, <1>2, <1>3, <1>4 DEF BoInv

(* The backend's steps add events and documents; the reducer's state is not
   theirs. *)
LEMMA BackendSteps ==
  ASSUME BoInv, NextFile \/ FileOpens \/ BatchEnds
  PROVE  BoInv'
<1> USE BatchAssumption
<1>1. UNCHANGED uiVars
  BY DEF NextFile, FileOpens, BatchEnds
<1> USE DEF uiVars
<1>2. /\ next \in Nat /\ next >= 1 /\ BatchSize \in Nat /\ BatchSize >= 1
      /\ 0 \in 0..BatchSize /\ next <= BatchSize + 2 /\ (reading => next \in Files /\ next \in 0..BatchSize)
      /\ \A f \in openedDocs \cup tabsMade : f \in Nat /\ f < next
  BY DEF BoInv, BoTypeOK, DocsInv, Files
<1>3. BoTypeOK'
  <2>1. bus' \subseteq EventType
    <3>1. CASE NextFile
      <4>0. next \in 0..BatchSize
        BY <1>2, <3>1 DEF NextFile
      <4>1. Event("load-start", next, FALSE) \in EventType
        BY <4>0, EventHasType DEF EventNames
      <4> QED
        BY <3>1, <4>1 DEF NextFile, BoInv, BoTypeOK
    <3>2. CASE FileOpens
      <4>1. /\ Event("opened", next, Unsupported /\ next = BatchSize) \in EventType
            /\ Event("error", next, FALSE) \in EventType
        BY <1>2, <3>2, EventHasType DEF FileOpens, EventNames
      <4> QED
        BY <3>2, <4>1 DEF FileOpens, BoInv, BoTypeOK
    <3>3. CASE BatchEnds
      <4>1. Event("batch-complete", 0, FALSE) \in EventType
        BY <1>2, EventHasType DEF EventNames
      <4> QED
        BY <3>3, <4>1 DEF BatchEnds, BoInv, BoTypeOK
    <3> QED
      BY <3>1, <3>2, <3>3
  <2>2. next' \in 1..(BatchSize + 2) /\ (reading' => next' <= BatchSize) /\ openedDocs' \subseteq Files
    <3>1. CASE NextFile
      BY <1>2, <3>1 DEF NextFile, BoInv, BoTypeOK
    <3>2. CASE FileOpens
      <4>1. next + 1 \in 1..(BatchSize + 2)
        BY <1>2, <3>2 DEF FileOpens, Files
      <4> QED
        BY <1>2, <3>2, <4>1 DEF FileOpens, BoInv, BoTypeOK
    <3>3. CASE BatchEnds
      BY <1>2, <3>3 DEF BatchEnds, BoInv, BoTypeOK
    <3> QED
      BY <3>1, <3>2, <3>3
  <2> QED
    BY <1>1, <2>1, <2>2 DEF BoInv, BoTypeOK
<1>4. DocsInv'
  <2> USE DEF BoInv, BoTypeOK, DocsInv, OpenedEvent, Event, Files
  <2>1. CASE NextFile
    BY <1>1, <2>1 DEF NextFile
  <2>2. CASE FileOpens
    <3>1. next \notin openedDocs \cup tabsMade /\ next' = next + 1 /\ next < next'
      BY <1>2, <2>2 DEF FileOpens
    <3> QED
      BY <1>1, <1>2, <2>2, <3>1 DEF FileOpens
  <2>3. CASE BatchEnds
    BY <1>1, <2>3 DEF BatchEnds
  <2> QED
    BY <2>1, <2>2, <2>3
<1>5. StartInv'
  <2> USE DEF BoInv, BoTypeOK, StartInv, OnBus, Event
  <2>1. CASE NextFile
    BY <1>1, <2>1 DEF NextFile
  <2>2. CASE FileOpens
    <3>1. next' <= BatchSize + 1
      BY <1>2, <2>2 DEF FileOpens, Files
    <3> QED
      BY <1>1, <2>2, <3>1 DEF FileOpens
  <2>3. CASE BatchEnds
    <3>1. /\ bus \subseteq bus'
          /\ \A e \in bus' : e \in bus \/ e.name = "batch-complete"
          /\ BatchSize > 1 => Event("batch-complete", 0, FALSE) \in bus'
      BY <2>3 DEF BatchEnds
    <3>2. OnBus("batch-start")' => OnBus("batch-start")
      BY <3>1
    <3>3. BatchSize > 1 => OnBus("batch-complete")'
      BY <3>1
    <3> QED
      BY <1>1, <3>1, <3>2, <3>3
  <2> QED
    BY <2>1, <2>2, <2>3
<1>6. CancelInv' /\ BatchReported'
  BY <1>1 DEF BoInv, CancelInv, BatchReported
<1> QED
  BY <1>3, <1>4, <1>5, <1>6 DEF BoInv

(* The Cancel button, the dismissal of the note and the close of a tab. *)
LEMMA ButtonSteps ==
  ASSUME BoInv, Cancel \/ DismissWarning \/ CloseDocumentTab
  PROVE  BoInv'
<1> USE BatchAssumption
<1>1. CASE Cancel
  <2>1. UNCHANGED <<next, reading, openedDocs, shownTabs, tabsMade, startFirst>> /\ cleared' = FALSE
    BY <1>1 DEF Cancel
  <2>2. /\ progress' = [progress EXCEPT !.cancelled = TRUE, !.note = "cancelled", !.asked = progress'.asked]
        /\ progress'.asked \in {"in time", "late"}
        /\ progress'.asked = "in time" => progress.completed < BatchSize
        /\ progress.active
    BY <1>1 DEF Cancel, BoInv, BoTypeOK, ProgressType
  <2>3. /\ progress' \in ProgressType
        /\ progress'.cancelled = TRUE /\ progress'.note = "cancelled"
        /\ progress'.active = progress.active /\ progress'.total = progress.total
        /\ progress'.completed = progress.completed
    BY <2>2 DEF BoInv, BoTypeOK, ProgressType
  <2>4. bus' = bus \cup {Event("cancel", 0, FALSE)} /\ Event("cancel", 0, FALSE) \in EventType
    <3>1. 0 \in 0..BatchSize
      OBVIOUS
    <3> QED
      BY <1>1, <3>1, EventHasType DEF Cancel, EventNames
  <2>5. BoTypeOK'
    BY <2>1, <2>3, <2>4 DEF BoInv, BoTypeOK
  <2>6. DocsInv'
    BY <2>1, <2>4 DEF BoInv, DocsInv, Event, OpenedEvent
  <2>7. StartInv'
    <3>1. \A e \in bus : e.name # "batch-start"
      BY <2>2 DEF BoInv, StartInv
    <3>2. /\ \A e \in bus' : e.name # "batch-start"
          /\ OnBus("batch-complete") => OnBus("batch-complete")'
      BY <2>4, <3>1 DEF Event, OnBus
    <3>3. ~OnBus("batch-start")'
      BY <3>2 DEF OnBus
    <3> QED
      BY <2>1, <2>2, <2>3, <3>2, <3>3 DEF BoInv, StartInv
  <2>8. CancelInv' /\ BatchReported'
    <3>1. Cardinality(tabsMade) \in Nat /\ tabsMade \subseteq Files
      BY TabsCount DEF BoInv, BoTypeOK, DocsInv
    <3>2. startFirst => progress.total = BatchSize /\ progress.completed = Cardinality(tabsMade)
      <4>1. startFirst => progress.total = BatchSize
        BY <2>2 DEF BoInv, CancelInv
      <4>2. BatchSize > 0
        OBVIOUS
      <4> QED
        BY <4>1, <4>2 DEF BoInv, BatchReported
    <3> QED
      BY <2>1, <2>2, <2>3, <3>1, <3>2 DEF BoInv, CancelInv, BatchReported
  <2> QED
    BY <2>5, <2>6, <2>7, <2>8 DEF BoInv
<1>2. CASE DismissWarning
  <2>1. UNCHANGED <<next, reading, bus, openedDocs, shownTabs, tabsMade, cleared>> /\ startFirst' = FALSE
    BY <1>2 DEF DismissWarning
  <2>2. BoTypeOK'
    <3>1. progress' \in ProgressType
      BY <1>2 DEF DismissWarning, BoInv, BoTypeOK, ProgressType
    <3> QED
      BY <2>1, <3>1 DEF BoInv, BoTypeOK
  <2>3. DocsInv'
    BY <2>1 DEF BoInv, DocsInv, Event, OpenedEvent
  <2>4. StartInv'
    BY <1>2, <2>1 DEF DismissWarning, BoInv, BoTypeOK, ProgressType, StartInv, OnBus
  <2>5. CancelInv' /\ BatchReported'
    BY <2>1 DEF CancelInv, BatchReported
  <2> QED
    BY <2>2, <2>3, <2>4, <2>5 DEF BoInv
<1>3. CASE CloseDocumentTab
  <2>1. PICK closed \in SUBSET shownTabs :
          shownTabs' = shownTabs \ closed /\ openedDocs' = openedDocs \ closed
    BY <1>3 DEF CloseDocumentTab
  <2>2. UNCHANGED <<next, reading, bus, tabsMade, startFirst>>
    BY <1>3 DEF CloseDocumentTab
  <2>3. /\ progress' \in ProgressType
        /\ progress'.active = progress.active /\ progress'.total = progress.total
        /\ progress'.completed = progress.completed /\ progress'.cancelled = progress.cancelled
        /\ progress'.asked = progress.asked
        /\ \/ progress'.note = "none" /\ cleared' = TRUE
           \/ progress'.note = progress.note /\ cleared' = cleared
    BY <1>3 DEF CloseDocumentTab, BoInv, BoTypeOK, ProgressType
  <2>4. BoTypeOK'
    BY <2>1, <2>2, <2>3 DEF BoInv, BoTypeOK
  <2>5. DocsInv'
    BY <2>1, <2>2 DEF BoInv, DocsInv, Event, OpenedEvent
  <2>6. StartInv'
    BY <2>2, <2>3 DEF BoInv, StartInv, OnBus
  <2>7. CancelInv' /\ BatchReported'
    BY <2>2, <2>3 DEF BoInv, CancelInv, BatchReported
  <2> QED
    BY <2>4, <2>5, <2>6, <2>7 DEF BoInv
<1> QED
  BY <1>1, <1>2, <1>3

(* Removing an event keeps what is said of the others. *)
LEMMA RestOfBus ==
  ASSUME BoInv, NEW e \in bus, bus' = bus \ {e}
  PROVE  /\ bus' \subseteq EventType
         /\ \A n \in EventNames : OnBus(n)' => OnBus(n)
         /\ \A n \in EventNames : e.name # n /\ OnBus(n) => OnBus(n)'
  BY DEF BoInv, BoTypeOK, OnBus

(* batch-start, in its turn or late. *)
LEMMA StartDelivered ==
  ASSUME BoInv, NEW e \in bus, DeliverEvent(e), e.name = "batch-start"
  PROVE  BoInv'
<1> USE BatchAssumption
<1>1. /\ bus' = bus \ {e} /\ UNCHANGED <<next, reading, openedDocs, shownTabs, tabsMade>>
      /\ startFirst' = startFirst /\ cleared' = cleared
      /\ progress' = [progress EXCEPT !.active = TRUE, !.total = BatchSize, !.completed = 0,
                                      !.cancelled = FALSE]
  BY DEF DeliverEvent, Reduce, BoInv, BoTypeOK
<1>2. /\ progress' \in ProgressType
      /\ progress'.total = BatchSize /\ progress'.completed = 0
      /\ progress'.active = TRUE /\ progress'.cancelled = FALSE /\ progress'.asked = progress.asked
  BY <1>1 DEF BoInv, BoTypeOK, ProgressType
<1>3. /\ e = Event("batch-start", 0, FALSE) /\ BatchSize > 1 /\ progress.asked = "no"
      /\ startFirst => tabsMade = {}
  BY DEF BoInv, StartInv
<1>4. BoTypeOK'
  BY <1>1, <1>2, RestOfBus DEF BoInv, BoTypeOK
<1>5. DocsInv'
  BY <1>1 DEF BoInv, DocsInv, OpenedEvent, Event
<1>6. StartInv'
  <2>1. \A d \in bus' : d.name # "batch-start"
    BY <1>1, <1>3 DEF BoInv, StartInv
  <2>2. startFirst => next <= BatchSize + 1 \/ OnBus("batch-complete")'
    BY <1>1, RestOfBus DEF BoInv, StartInv, OnBus, EventNames
  <2> QED
    BY <1>1, <1>3, <2>1, <2>2 DEF StartInv
<1>7. CancelInv' /\ BatchReported'
  <2>1. Cardinality({}) = 0
    BY FS_EmptySet
  <2> QED
    BY <1>1, <1>2, <1>3, <2>1 DEF CancelInv, BatchReported
<1> QED
  BY <1>4, <1>5, <1>6, <1>7 DEF BoInv

(* A document lands: one tab more, one file more in the count. *)
LEMMA OpenedDelivered ==
  ASSUME BoInv, NEW e \in bus, DeliverEvent(e), e.name = "opened"
  PROVE  BoInv'
<1> USE BatchAssumption
<1> DEFINE f == e.file
           n == IF progress.total > 0 THEN progress.completed + 1 ELSE progress.completed
           withdrawn == progress.cancelled /\ progress.total > 0 /\ n >= progress.total
<1>1. /\ bus' = bus \ {e} /\ UNCHANGED <<next, reading, openedDocs>>
      /\ shownTabs' = shownTabs \cup {f} /\ tabsMade' = tabsMade \cup {f} /\ cleared' = FALSE
      /\ startFirst' => startFirst /\ \A d \in bus : d.name # "batch-start"
      /\ startFirst' \in BOOLEAN
      /\ progress' = OpenDocument(progress, e.warned)
  BY DEF DeliverEvent, Reduce, BoInv, BoTypeOK
<1>2. /\ progress' \in ProgressType
      /\ progress'.active = progress.active /\ progress'.total = progress.total
      /\ progress'.asked = progress.asked /\ progress'.completed = n
      /\ progress'.cancelled = (progress.cancelled /\ ~withdrawn)
      /\ progress'.cancelled => progress'.note = "cancelled"
  <2>0. progress \in ProgressType /\ progress.completed \in Nat
    BY DEF BoInv, BoTypeOK, ProgressType
  <2>1. n \in Nat
    BY <2>0
  <2>2. PICK note \in {"none", "cancelled", "unsupported"} :
          /\ progress' = [progress EXCEPT !.completed = n, !.cancelled = progress.cancelled /\ ~withdrawn,
                                          !.note = note]
          /\ progress.cancelled /\ ~withdrawn => note = "cancelled"
    BY <1>1 DEF OpenDocument
  <2> HIDE DEF n, withdrawn
  <2> QED
    BY <2>0, <2>1, <2>2 DEF ProgressType
<1>3. e = OpenedEvent(f) /\ f \in openedDocs \ tabsMade /\ f \in Files /\ tabsMade \subseteq Files
  BY DEF BoInv, DocsInv, BoTypeOK
<1>4. /\ Cardinality(tabsMade) \in Nat /\ Cardinality(tabsMade') = Cardinality(tabsMade) + 1
      /\ tabsMade' \subseteq Files /\ Cardinality(tabsMade') <= BatchSize
      /\ Cardinality(tabsMade') = BatchSize => tabsMade' = Files
  <2>1. tabsMade' \in SUBSET Files
    BY <1>1, <1>3
  <2>2. Cardinality(tabsMade) \in Nat /\ Cardinality(tabsMade \cup {f}) = Cardinality(tabsMade) + 1
    BY <1>3, TabsCount
  <2>3. Cardinality(tabsMade') <= BatchSize /\ (Cardinality(tabsMade') = BatchSize => tabsMade' = Files)
    BY <2>1, TabsCount
  <2> QED
    BY <1>1, <2>1, <2>2, <2>3
<1>5. BoTypeOK'
  BY <1>1, <1>2, RestOfBus DEF BoInv, BoTypeOK
<1>6. DocsInv'
  <2>1. /\ shownTabs' \subseteq openedDocs' /\ shownTabs' \subseteq tabsMade'
        /\ tabsMade' \subseteq Files /\ \A g \in tabsMade' : g < next'
    BY <1>1, <1>3 DEF BoInv, DocsInv
  <2>2. \A g \in openedDocs' : g < next' /\ (g \in shownTabs' \/ OpenedEvent(g) \in bus')
    BY <1>1, <1>3 DEF BoInv, DocsInv, OpenedEvent, Event
  <2>3. \A d \in bus' : d.name = "opened" => d = OpenedEvent(d.file) /\ d.file \in openedDocs' \ tabsMade'
    BY <1>1, <1>3 DEF BoInv, DocsInv
  <2> QED
    BY <2>1, <2>2, <2>3 DEF DocsInv
<1>7. StartInv'
  <2>1. \A d \in bus' : d.name = "batch-start" =>
          /\ d = Event("batch-start", 0, FALSE) /\ BatchSize > 1 /\ ~progress'.active
          /\ ~progress'.cancelled /\ progress'.asked = "no" /\ ~startFirst'
    BY <1>1, <1>2 DEF BoInv, StartInv
  <2>2. startFirst' /\ (progress'.active \/ OnBus("batch-start")')
          => next <= BatchSize + 1 \/ OnBus("batch-complete")'
    BY <1>1, <1>2, RestOfBus DEF BoInv, StartInv, EventNames
  <2>3. progress'.active => BatchSize > 1
    BY <1>2 DEF BoInv, StartInv
  <2> QED
    BY <1>1, <2>1, <2>2, <2>3 DEF StartInv
<1>8. ASSUME startFirst', progress.total > 0
      PROVE  progress'.completed = Cardinality(tabsMade')
  BY <1>1, <1>2, <1>4, <1>8 DEF BoInv, BatchReported
<1>9. progress.total \in {0, BatchSize}
  BY DEF BoInv, BoTypeOK, ProgressType
<1>10. ASSUME startFirst', progress.cancelled
       PROVE  /\ progress.total = BatchSize
              /\ progress'.cancelled => Cardinality(tabsMade') < BatchSize
              /\ ~progress'.cancelled => tabsMade' = Files
  <2>1. progress.total = BatchSize /\ progress.total > 0
    BY <1>1, <1>10 DEF BoInv, CancelInv
  <2>2. n = Cardinality(tabsMade')
    BY <1>2, <1>8, <1>10, <2>1
  <2>3. withdrawn <=> n >= BatchSize
    BY <1>10, <2>1
  <2>4. progress'.cancelled <=> ~(n >= BatchSize)
    BY <1>2, <1>10, <2>3
  <2> HIDE DEF n
  <2> QED
    BY <1>4, <2>1, <2>2, <2>4
<1>11. CancelInv'
  <2>1. startFirst' /\ (progress'.active \/ progress'.cancelled) => progress'.total = BatchSize
    BY <1>1, <1>2 DEF BoInv, CancelInv
  <2>2. ASSUME startFirst', progress'.asked # "no" PROVE progress'.cancelled \/ tabsMade' = Files
    <3>1. progress.cancelled \/ tabsMade = Files
      BY <1>1, <1>2, <2>2 DEF BoInv, CancelInv
    <3> QED
      BY <1>1, <1>3, <1>10, <2>2, <3>1
  <2> QED
    BY <2>1, <2>2 DEF CancelInv
<1>12. BatchReported'
  <2>1. progress'.cancelled => progress.cancelled
    BY <1>2
  <2> QED
    BY <1>2, <1>8, <1>10, <2>1 DEF BatchReported
<1> QED
  BY <1>5, <1>6, <1>7, <1>11, <1>12 DEF BoInv

(* The end of the batch, and the events that change nothing counted. *)
LEMMA OtherDelivered ==
  ASSUME BoInv, NEW e \in bus, DeliverEvent(e), e.name \notin {"batch-start", "opened"}
  PROVE  BoInv'
<1> USE BatchAssumption
<1>1. /\ bus' = bus \ {e} /\ UNCHANGED <<next, reading, openedDocs, shownTabs, tabsMade>>
      /\ startFirst' \in BOOLEAN /\ (startFirst' => startFirst)
      /\ e.name = "batch-complete" /\ startFirst' => \A d \in bus : d.name # "batch-start"
      /\ \/ progress' = progress /\ cleared' = cleared /\ e.name # "batch-complete"
         \/ progress' = [progress EXCEPT !.note = "none"] /\ cleared' = TRUE /\ e.name = "error"
         \/ /\ e.name = "batch-complete" /\ cleared' = cleared
            /\ progress' = IF progress.cancelled THEN [progress EXCEPT !.active = FALSE]
                           ELSE [progress EXCEPT !.active = FALSE, !.total = 0, !.completed = 0]
  BY DEF DeliverEvent, Reduce, BoInv, BoTypeOK, uiVars
<1>2. /\ progress' \in ProgressType
      /\ progress'.asked = progress.asked
      /\ \/ progress'.note = progress.note /\ cleared' = cleared
         \/ progress'.note = "none" /\ cleared' = TRUE
      /\ progress'.cancelled = progress.cancelled
      /\ progress'.active => progress.active /\ e.name # "batch-complete"
      /\ (progress'.active \/ progress'.cancelled) /\ (progress.active \/ progress.cancelled)
            => progress'.total = progress.total
      /\ progress'.total > 0 => progress'.total = progress.total /\ progress'.completed = progress.completed
  <2>1. progress \in ProgressType
    BY DEF BoInv, BoTypeOK
  <2>2. CASE progress' = progress /\ cleared' = cleared /\ e.name # "batch-complete"
    BY <2>1, <2>2
  <2>5. CASE progress' = [progress EXCEPT !.note = "none"] /\ cleared' = TRUE /\ e.name = "error"
    BY <2>1, <2>5 DEF ProgressType
  <2>3. CASE /\ e.name = "batch-complete" /\ progress.cancelled /\ cleared' = cleared
             /\ progress' = [progress EXCEPT !.active = FALSE]
    BY <2>1, <2>3 DEF ProgressType
  <2>4. CASE /\ e.name = "batch-complete" /\ ~progress.cancelled /\ cleared' = cleared
             /\ progress' = [progress EXCEPT !.active = FALSE, !.total = 0, !.completed = 0]
    <3>1. progress' \in ProgressType
      BY <2>1, <2>4 DEF ProgressType
    <3>2. /\ progress'.asked = progress.asked /\ progress'.note = progress.note
          /\ progress'.cancelled = progress.cancelled /\ progress'.active = FALSE /\ progress'.total = 0
      BY <2>1, <2>4 DEF ProgressType
    <3> QED
      BY <2>4, <3>1, <3>2
  <2> QED
    BY <1>1, <2>2, <2>3, <2>4, <2>5
<1>3. BoTypeOK'
  BY <1>1, <1>2, RestOfBus DEF BoInv, BoTypeOK
<1>4. DocsInv'
  BY <1>1 DEF BoInv, DocsInv, OpenedEvent, Event
<1>5. StartInv'
  <2>1. \A d \in bus' : d.name = "batch-start" =>
          /\ d = Event("batch-start", 0, FALSE) /\ BatchSize > 1 /\ ~progress'.active
          /\ ~progress'.cancelled /\ progress'.asked = "no" /\ (startFirst' => tabsMade' = {})
    BY <1>1, <1>2 DEF BoInv, StartInv
  <2>2. startFirst' /\ (progress'.active \/ OnBus("batch-start")')
          => next <= BatchSize + 1 \/ OnBus("batch-complete")'
    <3>1. CASE e.name = "batch-complete"
      BY <1>1, <1>2, <3>1 DEF OnBus
    <3>2. CASE e.name # "batch-complete"
      BY <1>1, <1>2, <3>2, RestOfBus DEF BoInv, StartInv, EventNames
    <3> QED
      BY <3>1, <3>2
  <2>3. progress'.active => BatchSize > 1
    BY <1>2 DEF BoInv, StartInv
  <2> QED
    BY <1>1, <2>1, <2>2, <2>3 DEF StartInv
<1>6. CancelInv' /\ BatchReported'
  BY <1>1, <1>2 DEF BoInv, CancelInv, BatchReported
<1> QED
  BY <1>3, <1>4, <1>5, <1>6 DEF BoInv

(* Every step of the batch keeps BoInv. *)
LEMMA BoNextInv == BoInv /\ [BoNext]_boVars => BoInv'
<1> SUFFICES ASSUME BoInv, [BoNext]_boVars PROVE BoInv'
  OBVIOUS
<1>1. CASE BoNext
  BY <1>1, BackendSteps, ButtonSteps, StartDelivered, OpenedDelivered, OtherDelivered DEF BoNext
<1>2. CASE UNCHANGED boVars
  BY <1>2 DEF boVars, uiVars, BoInv, BoTypeOK, DocsInv, StartInv, OnBus, CancelInv, BatchReported
<1> QED
  BY <1>1, <1>2

(* In whatever order the events of a batch of any size arrive, tabs of it being
   closed included, its count is the number of tabs it made, a batch that loaded
   every file does not count as cancelled, and when all is quiet every document
   the backend keeps has its tab and a batch cut short is known to be cancelled
   and says so, unless an error event or a close took the note away. *)
THEOREM BatchIsSafe == BoSpec => []BatchSafe
<1>1. BoInv => BatchSafe
  <2> SUFFICES ASSUME BoInv PROVE BatchSettles
    BY DEF BoInv, BatchSafe
  <2> SUFFICES ASSUME BatchQuiet
               PROVE  /\ shownTabs = openedDocs
                      /\ startFirst => ~progress.active
                      /\ (startFirst /\ progress.asked # "no" /\ tabsMade # Files)
                            => progress.cancelled /\ (progress.note = "cancelled" \/ cleared)
    BY DEF BatchSettles
  <2>1. shownTabs = openedDocs
    BY DEF BatchQuiet, BoInv, DocsInv
  <2>2. startFirst => ~progress.active
    BY BatchAssumption DEF BatchQuiet, BoInv, StartInv, OnBus
  <2>3. (startFirst /\ progress.asked # "no" /\ tabsMade # Files)
          => progress.cancelled /\ (progress.note = "cancelled" \/ cleared)
    BY DEF BoInv, CancelInv, BatchReported
  <2> QED
    BY <2>1, <2>2, <2>3
<1> QED
  BY <1>1, BoInitInv, BoNextInv, PTL DEF BoSpec

-----------------------------------------------------------------------------
(* PendingOpen.                                                            *)

(* The queue and the drains divide the paths between them: before the first
   Drain everything is in the queue, after it the queue is empty for good. A
   call is orphaned by a reload only. *)
SidesInv ==
    /\ \A d \in Drains : drain[d] = "orphan" => reloads > 0
    /\ ready => paths = <<>>
    /\ ~ready => \A d \in Drains : batch[d] = <<>>
    /\ \A d \in Drains : drain[d] # "replied" => batch[d] = <<>>

(* No drain has a path twice, and no two drains share one. *)
BatchInv ==
    /\ \A d \in Drains : Distinct(batch[d])
    /\ \A d, e \in Drains : d # e => Listed(batch[d]) \cap Listed(batch[e]) = {}

Waiting(q) == \E a \in Arrivals : arrival[a] = "buffered" /\ PathOf[a] = q

(* Every path still to be opened from the queue or a drain has an arrival that
   waits for it. *)
BackedInv ==
    /\ \A q \in Listed(paths) : Waiting(q)
    /\ \A d \in Drains : \A q \in Listed(batch[d]) : Waiting(q)

(* The inductive invariant. *)
IInv == TypeOK /\ SidesInv /\ BatchInv /\ BackedInv /\ NoPathDropped

-----------------------------------------------------------------------------
(* The empty sequence lists nothing. *)
LEMMA EmptyListed == Listed(<<>>) = {} /\ Distinct(<<>>)
  BY DEF Listed, Distinct

(* Append adds one element to what a sequence lists. *)
LEMMA AppendListed ==
  ASSUME NEW P, NEW s \in Seq(P), NEW q \in P
  PROVE  /\ Listed(Append(s, q)) = Listed(s) \cup {q}
         /\ Distinct(s) /\ q \notin Listed(s) => Distinct(Append(s, q))
<1>1. /\ DOMAIN Append(s, q) = 1..(Len(s) + 1)
      /\ DOMAIN s = 1..Len(s)
      /\ Append(s, q)[Len(s) + 1] = q
      /\ \A i \in 1..Len(s) : Append(s, q)[i] = s[i]
      /\ Len(s) \in Nat
  OBVIOUS
<1>2. Listed(Append(s, q)) = Listed(s) \cup {q}
  BY <1>1 DEF Listed
<1>3. ASSUME Distinct(s), q \notin Listed(s),
             NEW i \in 1..(Len(s) + 1), NEW j \in 1..(Len(s) + 1),
             Append(s, q)[i] = Append(s, q)[j]
      PROVE  i = j
  <2>1. \A k \in 1..Len(s) : s[k] # q
    BY <1>1, <1>3 DEF Listed
  <2> QED
    BY <1>1, <1>3, <2>1 DEF Distinct
<1> QED
  BY <1>1, <1>2, <1>3 DEF Distinct

(* Taking the head of a sequence without repetitions removes that element. *)
LEMMA TailListed ==
  ASSUME NEW P, NEW s \in Seq(P), s # <<>>, Distinct(s)
  PROVE  /\ Tail(s) \in Seq(P)
         /\ Head(s) \in P
         /\ Head(s) \in Listed(s)
         /\ Listed(Tail(s)) = Listed(s) \ {Head(s)}
         /\ Distinct(Tail(s))
<1>1. /\ Len(s) \in Nat /\ Len(s) > 0
      /\ DOMAIN s = 1..Len(s)
      /\ Tail(s) \in Seq(P)
      /\ DOMAIN Tail(s) = 1..(Len(s) - 1)
      /\ \A i \in 1..(Len(s) - 1) : Tail(s)[i] = s[i + 1]
      /\ Head(s) = s[1] /\ s[1] \in P
  OBVIOUS
<1>2. Head(s) \in Listed(s)
  BY <1>1 DEF Listed
<1>3. ASSUME NEW x PROVE x \in Listed(Tail(s)) <=> x \in Listed(s) /\ x # Head(s)
  <2>1. ASSUME x \in Listed(Tail(s)) PROVE x \in Listed(s) /\ x # Head(s)
    <3>1. PICK i \in 1..(Len(s) - 1) : x = s[i + 1]
      BY <1>1, <2>1 DEF Listed
    <3>2. i + 1 \in 1..Len(s) /\ 1 \in 1..Len(s) /\ i + 1 # 1
      BY <1>1
    <3> QED
      BY <1>1, <3>1, <3>2 DEF Listed, Distinct
  <2>2. ASSUME x \in Listed(s), x # Head(s) PROVE x \in Listed(Tail(s))
    <3>1. PICK i \in 1..Len(s) : x = s[i]
      BY <1>1, <2>2 DEF Listed
    <3>2. i # 1
      BY <1>1, <2>2, <3>1
    <3>3. i - 1 \in 1..(Len(s) - 1) /\ (i - 1) + 1 = i
      BY <1>1, <3>2
    <3>4. Tail(s)[i - 1] = x
      BY <1>1, <3>1, <3>3
    <3> QED
      BY <1>1, <3>3, <3>4 DEF Listed
  <2> QED
    BY <2>1, <2>2
<1>4. Distinct(Tail(s))
  BY <1>1 DEF Distinct
<1> QED
  BY <1>1, <1>2, <1>3, <1>4

-----------------------------------------------------------------------------
(* Nothing is queued, drained or owed when the app starts. *)
LEMMA InitIInv == Init => IInv
<1> SUFFICES ASSUME Init PROVE IInv
  OBVIOUS
<1>1. TypeOK
  <2>1. batch \in [Drains -> Seq(Paths)] /\ paths \in Seq(Paths) /\ Distinct(paths)
    BY EmptyListed DEF Init
  <2> QED
    BY <2>1 DEF Init, TypeOK
<1>2. SidesInv /\ BatchInv /\ BackedInv
  BY EmptyListed DEF Init, SidesInv, BatchInv, BackedInv
<1>3. NoPathDropped
  BY DEF Init, NoPathDropped
<1> QED
  BY <1>1, <1>2, <1>3 DEF IInv

(* Queue.Add keeps the two sides apart: it buffers only while no drain has
   anything, and a path already queued stays queued once. *)
LEMMA RouteStep ==
  ASSUME IInv, NEW a \in Arrivals, Route(a)
  PROVE  IInv'
<1> USE ArrivalsAssumption
<1> DEFINE q == PathOf[a]
<1>1. q \in Paths /\ paths \in Seq(Paths)
  BY DEF IInv, TypeOK
<1>2. CASE ready
  <2>1. arrival' = [arrival EXCEPT ![a] = "opening"] /\ UNCHANGED <<paths, ready, pageVars, opens, reloads>>
    BY <1>2 DEF Route
  <2>2. \A b \in Arrivals : arrival'[b] = "buffered" <=> arrival[b] = "buffered"
    BY <2>1 DEF IInv, TypeOK, Route
  <2>3. TypeOK'
    BY <2>1 DEF IInv, TypeOK, pageVars
  <2>4. SidesInv' /\ BatchInv'
    BY <2>1 DEF IInv, SidesInv, BatchInv, pageVars
  <2>5. BackedInv' /\ NoPathDropped'
    BY <2>1, <2>2 DEF IInv, BackedInv, NoPathDropped, Waiting, pageVars
  <2> QED
    BY <2>3, <2>4, <2>5 DEF IInv
<1>3. CASE ~ready
  <2>1. /\ arrival' = [arrival EXCEPT ![a] = "buffered"]
        /\ paths' = IF q \in Listed(paths) THEN paths ELSE Append(paths, q)
        /\ UNCHANGED <<ready, pageVars, opens, reloads>>
    BY <1>3 DEF Route
  <2>2. /\ Listed(paths') = Listed(paths) \cup {q}
        /\ Distinct(paths')
        /\ paths' \in Seq(Paths)
    BY <1>1, <2>1, AppendListed DEF IInv, TypeOK
  <2>3. \A b \in Arrivals : arrival'[b] = "buffered" <=> (arrival[b] = "buffered" \/ b = a)
    BY <2>1 DEF IInv, TypeOK
  <2>4. \A d \in Drains : batch[d] = <<>> /\ batch'[d] = <<>>
    BY <1>3, <2>1 DEF IInv, SidesInv, pageVars
  <2>5. TypeOK'
    BY <2>1, <2>2 DEF IInv, TypeOK, pageVars
  <2>6. SidesInv' /\ BatchInv'
    BY <1>3, <2>1, <2>4, EmptyListed DEF IInv, SidesInv, BatchInv, pageVars
  <2>7. BackedInv'
    BY <2>2, <2>3, <2>4, EmptyListed DEF IInv, BackedInv, Waiting
  <2>8. NoPathDropped'
    BY <2>1, <2>2, <2>3, <2>4, EmptyListed DEF IInv, NoPathDropped
  <2> QED
    BY <2>5, <2>6, <2>7, <2>8 DEF IInv
<1> QED
  BY <1>2, <1>3

(* Opening a path at once and delivering its event touch no queue. *)
LEMMA WarmStep ==
  ASSUME IInv, NEW a \in Arrivals, Emit(a) \/ Deliver(a)
  PROVE  IInv'
<1> USE ArrivalsAssumption
<1>1. UNCHANGED <<ready, paths, listening, drain, batch, reloads>>
  BY DEF Emit, Deliver, queueVars, pageVars
<1>2. \A b \in Arrivals : arrival'[b] = "buffered" <=> arrival[b] = "buffered"
  BY DEF IInv, TypeOK, Emit, Deliver
<1>3. TypeOK'
  <2>1. Distinct(paths')
    BY <1>1 DEF IInv, TypeOK
  <2>2. arrival' \in [Arrivals -> {"idle", "buffered", "opening", "emitted", "met", "lost"}]
    BY DEF IInv, TypeOK, Emit, Deliver
  <2>3. opens' \in [Paths -> Nat]
    <3>1. PathOf[a] \in Paths /\ opens \in [Paths -> Nat]
      BY DEF IInv, TypeOK
    <3>2. opens' = opens \/ opens' = [opens EXCEPT ![PathOf[a]] = @ + 1]
      BY DEF Emit, Deliver
    <3> QED
      BY <3>1, <3>2
  <2> QED
    BY <1>1, <2>1, <2>2, <2>3 DEF IInv, TypeOK
<1>4. SidesInv' /\ BatchInv'
  BY <1>1 DEF IInv, SidesInv, BatchInv
<1>5. BackedInv' /\ NoPathDropped'
  BY <1>1, <1>2 DEF IInv, BackedInv, NoPathDropped, Waiting
<1> QED
  BY <1>3, <1>4, <1>5 DEF IInv

(* Subscribing and asking for a drain move no path. *)
LEMMA PageStep ==
  ASSUME IInv, Subscribe \/ \E d \in Drains : AskDrain(d)
  PROVE  IInv'
<1>1. UNCHANGED <<ready, paths, arrival, batch, opens, reloads>>
  BY DEF Subscribe, AskDrain, queueVars
<1>2. TypeOK'
  <2>1. Distinct(paths')
    BY <1>1 DEF IInv, TypeOK
  <2> QED
    BY <1>1, <2>1 DEF IInv, TypeOK, Subscribe, AskDrain
<1>3. SidesInv'
  BY <1>1 DEF IInv, TypeOK, SidesInv, Subscribe, AskDrain
<1>4. BatchInv' /\ BackedInv' /\ NoPathDropped'
  BY <1>1 DEF IInv, BatchInv, BackedInv, NoPathDropped, Waiting
<1> QED
  BY <1>2, <1>3, <1>4 DEF IInv

(* Queue.Drain hands the whole queue to one drain: the first finds every other
   drain empty, a later one finds the queue empty. *)
LEMMA DrainStep ==
  ASSUME IInv, NEW d \in Drains, Drain(d)
  PROVE  IInv'
<1>1. /\ batch[d] = <<>>
      /\ paths \in Seq(Paths) /\ Distinct(paths)
      /\ paths' = <<>> /\ ready' = TRUE
      /\ UNCHANGED <<arrival, listening, opens, reloads>>
      /\ batch \in [Drains -> Seq(Paths)]
      /\ batch' = [batch EXCEPT ![d] = IF drain[d] = "asked" THEN paths ELSE <<>>]
      /\ drain' = [drain EXCEPT ![d] = "replied"]
  BY DEF IInv, TypeOK, SidesInv, Drain
<1>2. TypeOK'
  BY <1>1, EmptyListed DEF IInv, TypeOK
<1>3. SidesInv'
  BY <1>1 DEF IInv, TypeOK, SidesInv
<1>4. \A e \in Drains : e # d => Listed(batch[e]) \cap Listed(paths) = {}
  BY EmptyListed DEF IInv, SidesInv
<1>5. BatchInv'
  BY <1>1, <1>4, EmptyListed DEF IInv, BatchInv
<1>6. BackedInv'
  BY <1>1, EmptyListed DEF IInv, BackedInv, Waiting
<1>7. NoPathDropped'
  <2>1. SUFFICES ASSUME NEW b \in Arrivals, arrival[b] = "buffered", reloads = 0
                 PROVE  PathOf[b] \in UNION {Listed(batch'[e]) : e \in Drains}
    BY <1>1 DEF NoPathDropped
  <2>2. PathOf[b] \in Listed(paths) \/ \E e \in Drains : PathOf[b] \in Listed(batch[e])
    BY <2>1 DEF IInv, NoPathDropped
  <2>3. CASE PathOf[b] \in Listed(paths)
    <3>1. drain[d] = "asked"
      BY <2>1 DEF IInv, SidesInv, Drain
    <3> QED
      BY <1>1, <2>3, <3>1
  <2>4. CASE \E e \in Drains : PathOf[b] \in Listed(batch[e])
    BY <1>1, <2>4, EmptyListed
  <2> QED
    BY <2>2, <2>3, <2>4
<1> QED
  BY <1>2, <1>3, <1>5, <1>6, <1>7 DEF IInv

(* A drain's loop opens a path no other drain has, so what is left is still
   waited for. *)
LEMMA OpenNextStep ==
  ASSUME IInv, NEW d \in Drains, OpenNext(d)
  PROVE  IInv'
<1> DEFINE q == Head(batch[d])
<1>1. /\ batch[d] \in Seq(Paths) /\ batch[d] # <<>> /\ Distinct(batch[d])
      /\ batch' = [batch EXCEPT ![d] = Tail(batch[d])]
      /\ batch \in [Drains -> Seq(Paths)]
      /\ UNCHANGED <<ready, paths, listening, drain, reloads>>
  BY DEF IInv, TypeOK, BatchInv, OpenNext, queueVars
<1>2. /\ Tail(batch[d]) \in Seq(Paths) /\ q \in Paths /\ q \in Listed(batch[d])
      /\ Listed(Tail(batch[d])) = Listed(batch[d]) \ {q}
      /\ Distinct(Tail(batch[d]))
  BY <1>1, TailListed
<1>3. /\ \A b \in Arrivals : arrival'[b] = "buffered" <=>
                              (arrival[b] = "buffered" /\ PathOf[b] # q)
      /\ arrival' \in [Arrivals -> {"idle", "buffered", "opening", "emitted", "met", "lost"}]
      /\ opens' \in [Paths -> Nat]
  BY <1>2 DEF IInv, TypeOK, OpenNext
<1>4. ready /\ paths = <<>>
  BY <1>1 DEF IInv, SidesInv, TypeOK
<1>5. \A e \in Drains : e # d => batch'[e] = batch[e] /\ q \notin Listed(batch[e])
  BY <1>1, <1>2 DEF IInv, BatchInv
<1>6. batch'[d] = Tail(batch[d])
  BY <1>1
<1>7. TypeOK'
  BY <1>1, <1>2, <1>3, <1>4, EmptyListed DEF IInv, TypeOK
<1>8. SidesInv'
  BY <1>1, <1>4, <1>5 DEF IInv, SidesInv
<1>9. BatchInv'
  BY <1>2, <1>5, <1>6 DEF IInv, BatchInv
<1>10. BackedInv'
  <2>1. \A p \in Listed(paths') : FALSE
    BY <1>1, <1>4, EmptyListed
  <2>2. \A e \in Drains : \A p \in Listed(batch'[e]) : p # q /\ Waiting(p)
    BY <1>2, <1>5, <1>6 DEF IInv, BackedInv
  <2>3. ASSUME NEW p, p # q, Waiting(p) PROVE Waiting(p)'
    BY <1>3, <2>3 DEF Waiting
  <2> QED
    BY <2>1, <2>2, <2>3 DEF BackedInv
<1>11. NoPathDropped'
  <2>1. SUFFICES ASSUME NEW b \in Arrivals, arrival[b] = "buffered", PathOf[b] # q, reloads = 0
                 PROVE  \E e \in Drains : PathOf[b] \in Listed(batch'[e])
    BY <1>1, <1>3 DEF NoPathDropped
  <2>2. \E e \in Drains : PathOf[b] \in Listed(batch[e])
    BY <1>4, <2>1, EmptyListed DEF IInv, NoPathDropped
  <2> QED
    BY <1>2, <1>5, <1>6, <2>1, <2>2
<1> QED
  BY <1>7, <1>8, <1>9, <1>10, <1>11 DEF IInv

(* A reload empties the drains, and from then on paths may be lost. *)
LEMMA ReloadStep ==
  ASSUME IInv, Reload
  PROVE  IInv'
<1>1. /\ UNCHANGED <<ready, paths, arrival, opens>>
      /\ reloads' = reloads + 1 /\ reloads' > 0 /\ reloads' \in Nat
      /\ \A d \in Drains : batch'[d] = <<>>
  BY DEF IInv, TypeOK, Reload, queueVars
<1>2. TypeOK'
  <2>1. Distinct(paths')
    BY <1>1 DEF IInv, TypeOK
  <2>2. batch' \in [Drains -> Seq(Paths)]
    BY DEF Reload
  <2>3. drain' \in [Drains -> {"idle", "asked", "orphan", "replied"}]
    BY DEF IInv, TypeOK, Reload
  <2> QED
    BY <1>1, <2>1, <2>2, <2>3 DEF IInv, TypeOK, Reload
<1>3. SidesInv'
  BY <1>1 DEF IInv, SidesInv
<1>4. BatchInv' /\ BackedInv'
  BY <1>1, EmptyListed DEF IInv, BatchInv, BackedInv, Waiting
<1>5. NoPathDropped'
  BY <1>1 DEF NoPathDropped
<1> QED
  BY <1>2, <1>3, <1>4, <1>5 DEF IInv

(* The inductive invariant holds in every reachable state. *)
THEOREM InductiveInvariant == Spec => []IInv
<1>1. IInv /\ UNCHANGED vars => IInv'
  BY DEF IInv, TypeOK, SidesInv, BatchInv, BackedInv, NoPathDropped, Waiting, vars,
         queueVars, pageVars
<1>2. IInv /\ [Next]_vars => IInv'
  BY <1>1, RouteStep, WarmStep, PageStep, DrainStep, OpenNextStep, ReloadStep DEF Next
<1> QED
  BY InitIInv, <1>2, PTL DEF Spec

(* The queue and the page keep their types, and no path is queued twice. *)
THEOREM TypeCorrect == Spec => []TypeOK
<1>1. IInv => TypeOK
  BY DEF IInv
<1> QED
  BY InductiveInvariant, <1>1, PTL

(* A buffered path is in the queue or with a drain until it is opened, for any
   interleaving of Add and Drain. *)
THEOREM BufferedIsNeverDropped == Spec => []NoPathDropped
<1>1. IInv => NoPathDropped
  BY DEF IInv
<1> QED
  BY InductiveInvariant, <1>1, PTL

(* Both together: what the queue keeps, for any arrivals, drains and reloads. *)
THEOREM QueueIsSound == Spec => []QueueSound
BY TypeCorrect, BufferedIsNeverDropped, PTL DEF QueueSound

-----------------------------------------------------------------------------
(* An open of a drained path meets the arrivals the queue folded into it, of
   which there is at least one. *)
LEMMA OpenNextMeets ==
  ASSUME IInv, NEW d \in Drains, OpenNext(d)
  PROVE  Delivery!Next
<1> USE ArrivalsAssumption
<1> DEFINE q == Head(batch[d])
           S == {b \in Arrivals : arrival[b] = "buffered" /\ PathOf[b] = q}
<1>1. q \in Paths /\ q \in Listed(batch[d])
  BY TailListed DEF IInv, TypeOK, BatchInv, OpenNext
<1>2. S # {}
  BY <1>1 DEF IInv, BackedInv, Waiting
<1>3. \A b \in S : Due[b] = "owed" /\ PathOf[b] = q
  BY DEF Due
<1>4. Due' = [b \in Arrivals |-> IF b \in S THEN "met" ELSE Due[b]]
  BY DEF Due, OpenNext, IInv, TypeOK
<1>5. opens' = [opens EXCEPT ![q] = @ + 1]
  BY DEF OpenNext
<1>6. Delivery!Meet(q, S)
  BY <1>2, <1>3, <1>4, <1>5 DEF Delivery!Meet
<1> QED
  BY <1>1, <1>6 DEF Delivery!Next

(* The event of a path opened at once meets its own arrival, or is lost and
   leaves it owed. *)
LEMMA DeliverMeets ==
  ASSUME IInv, NEW a \in Arrivals, Deliver(a)
  PROVE  Delivery!Next \/ UNCHANGED Delivery!vars
<1> USE ArrivalsAssumption
<1>1. CASE listening
  <2>1. \A b \in {a} : Due[b] = "owed" /\ PathOf[b] = PathOf[a]
    BY DEF Due, Deliver
  <2>2. Due' = [b \in Arrivals |-> IF b \in {a} THEN "met" ELSE Due[b]]
    BY <1>1 DEF Due, Deliver, IInv, TypeOK
  <2>3. opens' = [opens EXCEPT ![PathOf[a]] = @ + 1]
    BY <1>1 DEF Deliver
  <2>4. Delivery!Meet(PathOf[a], {a})
    BY <2>1, <2>2, <2>3 DEF Delivery!Meet
  <2> QED
    BY <2>4 DEF Delivery!Next
<1>2. CASE ~listening
  <2>1. Due' = Due /\ opens' = opens
    BY <1>2 DEF Due, Deliver, IInv, TypeOK
  <2> QED
    BY <2>1 DEF Delivery!vars
<1> QED
  BY <1>1, <1>2

(* An arrival is owed from the moment it is routed, on either side of ready. *)
LEMMA RouteArrives ==
  ASSUME IInv, NEW a \in Arrivals, Route(a)
  PROVE  Delivery!Next
<1>1. Due[a] = "idle" /\ Due' = [Due EXCEPT ![a] = "owed"] /\ opens' = opens
  BY DEF Due, Route, IInv, TypeOK
<1>2. Delivery!Arrive(a)
  BY <1>1 DEF Delivery!Arrive
<1> QED
  BY <1>2 DEF Delivery!Next

(* PendingOpen implements PathDelivery: "every queued path is delivered exactly
   once across any interleaving of Add/Drain" (Queue.Drain). *)
THEOREM Refinement == Spec => DeliversOnce
<1>1. Init => Delivery!Init
  BY DEF Init, Delivery!Init, Due
<1>2. IInv /\ [Next]_vars => [Delivery!Next]_Delivery!vars
  <2> SUFFICES ASSUME IInv, [Next]_vars PROVE Delivery!Next \/ UNCHANGED Delivery!vars
    OBVIOUS
  <2>1. ASSUME UNCHANGED <<arrival, opens>> PROVE UNCHANGED Delivery!vars
    BY <2>1 DEF Delivery!vars, Due
  <2>2. ASSUME NEW a \in Arrivals, Emit(a) PROVE UNCHANGED Delivery!vars
    BY <2>2 DEF Delivery!vars, Due, Emit, IInv, TypeOK
  <2>3. CASE UNCHANGED vars
    BY <2>1, <2>3 DEF vars
  <2>4. CASE Subscribe \/ Reload \/ \E d \in Drains : AskDrain(d) \/ Drain(d)
    BY <2>1, <2>4 DEF Subscribe, Reload, AskDrain, Drain
  <2> QED
    BY <2>2, <2>3, <2>4, RouteArrives, DeliverMeets, OpenNextMeets DEF Next
<1> QED
  BY InductiveInvariant, <1>1, <1>2, PTL DEF Spec, DeliversOnce, Delivery!Spec

-----------------------------------------------------------------------------
(* Cli.                                                                    *)

(* A program: a sequence of steps.                                            *)
IsProg(p) == p \in Seq({p[k] : k \in 1..Len(p)})

(* A rejection of the arguments: a wrong shape is the usage line, any other   *)
(* is exit 1 of a dump or the unknown profile of validate.                    *)
ArgReject(i, s) ==
  /\ s.op = "reject"
  /\ \/ ShapeWrong(i) /\ s.err = "usage"
        /\ s.code = IF i.cmd \in {"validate", "diff"} THEN 2 ELSE 1
     \/ ~ShapeWrong(i) /\ i.cmd \in Dumps /\ s.err \in Errors /\ s.code = 1
     \/ ~ShapeWrong(i) /\ i.cmd = "validate" /\ s.err = "plain" /\ s.code = 2

(* A rejection once the file is open.                                         *)
LateReject(i, s) ==
  /\ s.op = "reject" /\ s.code = 2
  /\ \/ s.err = "json"
     \/ s.err = "plain" /\ \/ i.cmd = "embedded" /\ "name" \in i.opts
                           \/ i.cmd = "signatures" /\ {"cms", "certs"} \cap i.opts # {}

(* The steps that give the answer, and what may follow them: a warning and    *)
(* the exit, nothing that can fail.                                           *)
IsExit(i, s) == s.op = "exit" /\ s.code \in IF i.cmd \in {"validate", "diff"} THEN {0, 1} ELSE {0}

ChoosesExit(i, s) == s.op = "choose" /\ \A q \in s.alts : IsProg(q) /\ Len(q) = 1 /\ IsExit(i, q[1])
ChoosesWarning(s) == s.op = "choose" /\ \A q \in s.alts : q = <<>> \/ q = <<[op |-> "warn"]>>

IsEnd(i, s)   == IsExit(i, s) \/ ChoosesExit(i, s)
IsAfter(i, s) == IsEnd(i, s) \/ s.op = "warn" \/ ChoosesWarning(s)

IsOut(i, s) ==
  \/ /\ s.op = "emit" /\ (machineFormat(i) \/ s.payload = "plain")
     /\ s.err = "json" \/ (s.err = "plain" /\ PlainWrite(i))
  \/ s.op = "note" /\ i.cmd \in Dumps
  \/ s.op = "help" /\ i.cmd = "help"

Ending(i, p) == IsProg(p) /\ Len(p) >= 1 /\ IsEnd(i, p[Len(p)]) /\ \A k \in 1..Len(p) : IsAfter(i, p[k])

(* The step of p at n ends it: it rejects, or gives the answer. *)
EndsAt(i, p, n) ==
  \/ LateReject(i, p[n])
  \/ /\ IsOut(i, p[n]) /\ n < Len(p) /\ IsEnd(i, p[Len(p)])
     /\ \A k \in n + 1..Len(p) : IsAfter(i, p[k])

(* The steps before. *)
IsMaybe(i, s) ==
  /\ s.op = "choose"
  /\ \A q \in s.alts :
       \/ q = <<>> \/ q = <<[op |-> "warn"]>>
       \/ IsProg(q) /\ Len(q) = 1 /\ LateReject(i, q[1])

IsPre(i, s) ==
  \/ s.op \in {"call", "soft", "warn", "deprecated"}
  \/ /\ s.op = "open"
     /\ s.encrypted # <<>> =>
          IsProg(s.encrypted) /\ Len(s.encrypted) >= 1 /\ EndsAt(i, s.encrypted, 1)
  \/ IsMaybe(i, s)

Straight(i, p) ==
  /\ IsProg(p)
  /\ \E n \in 1..Len(p) : EndsAt(i, p, n) /\ \A k \in 1..n - 1 : IsPre(i, p[k])

IsFork(i, s) == s.op = "choose" /\ \A q \in s.alts : Straight(i, q)

Reading(i, p) ==
  /\ IsProg(p)
  /\ \E n \in 1..Len(p) : /\ EndsAt(i, p, n) \/ (n = Len(p) /\ IsFork(i, p[n]))
                          /\ \A k \in 1..n - 1 : IsPre(i, p[k])

(* A program that goes on to reject its arguments. *)
Rejecting(i, p) ==
  /\ IsProg(p)
  /\ \/ Len(p) >= 1 /\ ArgReject(i, p[1])
     \/ /\ Len(p) >= 2 /\ ArgReject(i, p[2])
        /\ \/ p[1].op = "deprecated"
           \/ p[1].op = "open" /\ p[1].encrypted = <<>> /\ ~ShapeWrong(i) /\ i.cmd \in Dumps

Dispatched(i, p) == Rejecting(i, p) \/ (~ShapeWrong(i) /\ Reading(i, p))

(***************************************************************************)
(* The inductive invariant.                                                *)
(***************************************************************************)
Lines == Errors \cup {"warning", "jsonWarning", "note", "deprecated", "help", "update"}

HasNote == "note" \in ToSet(stderr)

CliTypes ==
  /\ inv \in Invocations /\ code \in 0..NoCode /\ notice \in BOOLEAN
  /\ stderr \in Seq(Lines)
  /\ stdout.state \in {"empty", "partial", "whole"}
  /\ reached \in {"args", "open", "view"}

(* Nothing is written yet. *)
StillReading ==
  /\ stdout.state = "empty" /\ ~HasNote
  /\ \/ /\ Rejecting(inv, todo)
        /\ reached # "view" /\ (ShapeWrong(inv) \/ inv.cmd \notin Dumps => reached = "args")
     \/ Reading(inv, todo) /\ ~ShapeWrong(inv)

Responded ==
  /\ Ending(inv, todo) /\ ~ShapeWrong(inv)
  /\ stdout.state = "whole" \/ (HasNote /\ inv.cmd \in Dumps) \/ inv.cmd = "help"

CliInv ==
  /\ CliTypes
  /\ stdout.state # "empty" => machineFormat(inv) \/ stdout.payload = "plain"
  /\ "update" \in ToSet(stderr) => code # NoCode /\ ~machineFormat(inv)
  /\ code = NoCode => ErrorLines = {} /\ (StillReading \/ Responded)
  /\ ExitContract /\ OutputIsWhole

-----------------------------------------------------------------------------
(* Sequences of steps.                                                     *)

LEMMA ProgIn ==
  ASSUME NEW S, NEW p \in Seq(S)
  PROVE  IsProg(p)
<1> DEFINE R == {p[k] : k \in 1..Len(p)}
<1>1. p \in [1..Len(p) -> R] /\ Len(p) \in Nat
  OBVIOUS
<1> QED
  BY <1>1 DEF IsProg

LEMMA ProgOne ==
  ASSUME NEW x
  PROVE  IsProg(<<x>>) /\ Len(<<x>>) = 1 /\ <<x>>[1] = x
<1>1. <<x>> \in Seq({x})
  OBVIOUS
<1> QED
  BY <1>1, ProgIn

LEMMA ProgNone == IsProg(<<>>) /\ Len(<<>>) = 0
<1>1. <<>> \in Seq({1})
  OBVIOUS
<1> QED
  BY <1>1, ProgIn

LEMMA ProgConcat ==
  ASSUME NEW p, NEW q, IsProg(p), IsProg(q)
  PROVE  /\ IsProg(p \o q) /\ Len(p) \in Nat /\ Len(q) \in Nat /\ Len(p \o q) = Len(p) + Len(q)
         /\ \A k \in 1..Len(p) : (p \o q)[k] = p[k]
         /\ \A k \in 1..Len(q) : (p \o q)[Len(p) + k] = q[k]
<1> DEFINE S == {p[k] : k \in 1..Len(p)} \cup {q[k] : k \in 1..Len(q)}
<1>1. p \in Seq(S) /\ q \in Seq(S)
  BY DEF IsProg
<1> HIDE DEF S
<1>2. p \o q \in Seq(S)
  BY <1>1
<1>3. IsProg(p \o q)
  BY <1>2, ProgIn
<1> QED
  BY <1>1, <1>3

LEMMA ProgTail ==
  ASSUME NEW p, IsProg(p), Len(p) >= 1
  PROVE  /\ IsProg(Tail(p)) /\ Len(p) \in Nat /\ Len(Tail(p)) = Len(p) - 1
         /\ \A k \in 1..Len(p) - 1 : Tail(p)[k] = p[k + 1]
<1> DEFINE S == {p[k] : k \in 1..Len(p)}
<1>1. p \in Seq(S) /\ p # <<>>
  BY DEF IsProg
<1> HIDE DEF S
<1>2. Tail(p) \in Seq(S)
  BY <1>1
<1>3. IsProg(Tail(p))
  BY <1>2, ProgIn
<1> QED
  BY <1>1, <1>3
-----------------------------------------------------------------------------
(* Programs put together.                                                  *)

PreProg(i, x) == IsProg(x) /\ \A k \in 1..Len(x) : IsPre(i, x[k])

LEMMA PreConcat ==
  ASSUME NEW i, NEW x, NEW y, PreProg(i, x), PreProg(i, y)
  PROVE  PreProg(i, x \o y)
<1>1. /\ IsProg(x \o y) /\ Len(x) \in Nat /\ Len(y) \in Nat /\ Len(x \o y) = Len(x) + Len(y)
      /\ \A k \in 1..Len(x) : (x \o y)[k] = x[k]
      /\ \A k \in 1..Len(y) : (x \o y)[Len(x) + k] = y[k]
  BY ProgConcat DEF PreProg
<1>2. ASSUME NEW k \in 1..Len(x \o y) PROVE IsPre(i, (x \o y)[k])
  <2>1. CASE k \in 1..Len(x)
    BY <2>1, <1>1 DEF PreProg
  <2>2. CASE k \notin 1..Len(x)
    <3>1. k - Len(x) \in 1..Len(y) /\ k = Len(x) + (k - Len(x))
      BY <2>2, <1>1
    <3>2. (x \o y)[k] = y[k - Len(x)]
      BY <3>1, <1>1
    <3> QED
      BY <3>1, <3>2 DEF PreProg
  <2> QED
    BY <2>1, <2>2
<1> QED
  BY <1>1, <1>2 DEF PreProg

LEMMA PreOne ==
  ASSUME NEW i, NEW s, IsPre(i, s)
  PROVE  PreProg(i, <<s>>)
BY ProgOne DEF PreProg

LEMMA PreNone == ASSUME NEW i PROVE PreProg(i, <<>>)
BY ProgNone DEF PreProg

LEMMA EndsLater ==
  ASSUME NEW i, NEW x, NEW p, IsProg(x), IsProg(p), NEW n \in 1..Len(p), EndsAt(i, p, n)
  PROVE  EndsAt(i, x \o p, Len(x) + n)
<1> DEFINE q == x \o p
<1>1. /\ Len(x) \in Nat /\ Len(p) \in Nat /\ Len(q) = Len(x) + Len(p)
      /\ \A k \in 1..Len(p) : q[Len(x) + k] = p[k]
  BY ProgConcat
<1>2. q[Len(x) + n] = p[n]
  BY <1>1
<1> HIDE DEF q
<1>3. CASE LateReject(i, p[n])
  BY <1>2, <1>3 DEF EndsAt, q
<1>4. CASE ~LateReject(i, p[n])
  <2>1. /\ IsOut(i, p[n]) /\ n < Len(p) /\ IsEnd(i, p[Len(p)])
        /\ \A k \in n + 1..Len(p) : IsAfter(i, p[k])
    BY <1>4 DEF EndsAt
  <2>2. Len(p) \in 1..Len(p)
    BY <2>1, <1>1
  <2>3. q[Len(q)] = p[Len(p)]
    BY <2>2, <1>1
  <2>4. ASSUME NEW k \in Len(x) + n + 1..Len(q) PROVE IsAfter(i, q[k])
    <3>1. k - Len(x) \in n + 1..Len(p) /\ k - Len(x) \in 1..Len(p) /\ k = Len(x) + (k - Len(x))
      BY <1>1
    <3>2. q[k] = p[k - Len(x)]
      BY <3>1, <1>1
    <3> QED
      BY <3>1, <3>2, <2>1
  <2>5. Len(x) + n < Len(q)
    BY <2>1, <1>1
  <2> QED
    BY <1>2, <2>1, <2>3, <2>4, <2>5 DEF EndsAt, q
<1> QED
  BY <1>3, <1>4

(* What comes before an answer is read first. *)
LEMMA PreReading ==
  ASSUME NEW i, NEW x, NEW p, PreProg(i, x)
  PROVE  /\ Straight(i, p) => Straight(i, x \o p)
         /\ Reading(i, p) => Reading(i, x \o p)
<1> DEFINE q == x \o p
<1>1. ASSUME IsProg(p), NEW n \in 1..Len(p), \A k \in 1..n - 1 : IsPre(i, p[k])
      PROVE  /\ IsProg(q) /\ Len(x) + n \in 1..Len(q)
             /\ \A k \in 1..(Len(x) + n) - 1 : IsPre(i, q[k])
             /\ EndsAt(i, p, n) => EndsAt(i, q, Len(x) + n)
             /\ q[Len(x) + n] = p[n] /\ (n = Len(p) => Len(x) + n = Len(q))
  <2>1. /\ IsProg(q) /\ Len(x) \in Nat /\ Len(p) \in Nat /\ Len(q) = Len(x) + Len(p)
        /\ \A k \in 1..Len(x) : q[k] = x[k]
        /\ \A k \in 1..Len(p) : q[Len(x) + k] = p[k]
    BY <1>1, ProgConcat DEF PreProg
  <2>2. EndsAt(i, p, n) => EndsAt(i, q, Len(x) + n)
    BY <1>1, EndsLater DEF PreProg
  <2> HIDE DEF q
  <2>3. ASSUME NEW k \in 1..(Len(x) + n) - 1 PROVE IsPre(i, q[k])
    <3>1. CASE k \in 1..Len(x)
      BY <3>1, <2>1 DEF PreProg
    <3>2. CASE k \notin 1..Len(x)
      <4>1. k - Len(x) \in 1..n - 1 /\ k - Len(x) \in 1..Len(p) /\ k = Len(x) + (k - Len(x))
        BY <3>2, <2>1
      <4>2. q[k] = p[k - Len(x)]
        BY <4>1, <2>1
      <4> QED
        BY <4>1, <4>2, <1>1
    <3> QED
      BY <3>1, <3>2
  <2>4. Len(x) + n \in 1..Len(q) /\ q[Len(x) + n] = p[n] /\ (n = Len(p) => Len(x) + n = Len(q))
    BY <2>1
  <2> QED
    BY <2>1, <2>2, <2>3, <2>4
<1>2. ASSUME Straight(i, p) PROVE Straight(i, q)
  <2>1. IsProg(p)
    BY <1>2 DEF Straight
  <2>2. PICK n \in 1..Len(p) : EndsAt(i, p, n) /\ \A k \in 1..n - 1 : IsPre(i, p[k])
    BY <1>2 DEF Straight
  <2> HIDE DEF q
  <2> QED
    BY <1>1, <2>1, <2>2 DEF Straight
<1>3. ASSUME Reading(i, p) PROVE Reading(i, q)
  <2>1. IsProg(p)
    BY <1>3 DEF Reading
  <2>2. PICK n \in 1..Len(p) : /\ EndsAt(i, p, n) \/ (n = Len(p) /\ IsFork(i, p[n]))
                              /\ \A k \in 1..n - 1 : IsPre(i, p[k])
    BY <1>3 DEF Reading
  <2> HIDE DEF q
  <2>3. /\ IsProg(q) /\ Len(x) + n \in 1..Len(q)
        /\ \A k \in 1..(Len(x) + n) - 1 : IsPre(i, q[k])
        /\ EndsAt(i, p, n) => EndsAt(i, q, Len(x) + n)
        /\ q[Len(x) + n] = p[n] /\ (n = Len(p) => Len(x) + n = Len(q))
    BY <1>1, <2>1, <2>2
  <2> QED
    BY <2>2, <2>3 DEF Reading
<1> QED
  BY <1>2, <1>3

LEMMA StraightReads ==
  ASSUME NEW i, NEW p, Straight(i, p)
  PROVE  Reading(i, p)
BY DEF Straight, Reading

LEMMA EndsReads ==
  ASSUME NEW i, NEW p, IsProg(p), Len(p) >= 1, EndsAt(i, p, 1)
  PROVE  Straight(i, p)
<1>1. Len(p) \in Nat
  BY DEF IsProg
<1>2. 1 \in 1..Len(p) /\ 1..1 - 1 = {}
  BY <1>1
<1> QED
  BY <1>2 DEF Straight

(* An answer and what follows it. *)
LEMMA AnswerReads ==
  ASSUME NEW i, NEW s, NEW p, IsOut(i, s), Ending(i, p)
  PROVE  /\ IsProg(<<s>> \o p) /\ Len(<<s>> \o p) >= 2
         /\ EndsAt(i, <<s>> \o p, 1) /\ Straight(i, <<s>> \o p)
<1> DEFINE q == <<s>> \o p
<1>1. IsProg(<<s>>) /\ Len(<<s>>) = 1 /\ <<s>>[1] = s /\ IsProg(p)
  BY ProgOne DEF Ending
<1>2. /\ IsProg(q) /\ Len(p) \in Nat /\ Len(q) = 1 + Len(p) /\ q[1] = s
      /\ \A k \in 1..Len(p) : q[1 + k] = p[k]
  BY <1>1, ProgConcat
<1>3. Len(p) >= 1
  BY <1>2 DEF Ending, IsProg
<1> HIDE DEF q
<1>4. q[Len(q)] = p[Len(p)]
  <2>1. Len(p) \in 1..Len(p) /\ Len(q) = 1 + Len(p)
    BY <1>2, <1>3
  <2> QED
    BY <2>1, <1>2
<1>5. ASSUME NEW k \in 2..Len(q) PROVE IsAfter(i, q[k])
  <2>1. k - 1 \in 1..Len(p) /\ k = 1 + (k - 1)
    BY <1>2
  <2>2. q[k] = p[k - 1]
    BY <2>1, <1>2
  <2> QED
    BY <2>1, <2>2 DEF Ending
<1>6. EndsAt(i, q, 1)
  BY <1>2, <1>3, <1>4, <1>5 DEF EndsAt, Ending
<1>7. IsProg(q) /\ Len(q) >= 2 /\ EndsAt(i, q, 1) /\ Straight(i, q)
  BY <1>2, <1>3, <1>6, EndsReads
<1> QED
  BY <1>7 DEF q
-----------------------------------------------------------------------------
(* The first step of a program.                                            *)

LEMMA ReadingFirst ==
  ASSUME NEW i, NEW p, Reading(i, p)
  PROVE  /\ IsProg(p) /\ Len(p) >= 1
         /\ \/ LateReject(i, p[1])
            \/ IsOut(i, p[1]) /\ Ending(i, Tail(p))
            \/ IsFork(i, p[1]) /\ Len(p) = 1
            \/ IsPre(i, p[1]) /\ Reading(i, Tail(p))
<1>1. PICK n \in 1..Len(p) : /\ EndsAt(i, p, n) \/ (n = Len(p) /\ IsFork(i, p[n]))
                            /\ \A k \in 1..n - 1 : IsPre(i, p[k])
  BY DEF Reading
<1>2. IsProg(p) /\ Len(p) \in Nat /\ Len(p) >= 1
  BY <1>1 DEF Reading, IsProg
<1>3. /\ IsProg(Tail(p)) /\ Len(Tail(p)) = Len(p) - 1
      /\ \A k \in 1..Len(p) - 1 : Tail(p)[k] = p[k + 1]
  BY <1>2, ProgTail
<1>4. CASE n = 1
  <2>1. CASE LateReject(i, p[1])
    BY <2>1, <1>2
  <2>2. CASE IsFork(i, p[1]) /\ Len(p) = 1
    BY <2>2, <1>2
  <2>3. CASE /\ IsOut(i, p[1]) /\ 1 < Len(p) /\ IsEnd(i, p[Len(p)])
             /\ \A k \in 1 + 1..Len(p) : IsAfter(i, p[k])
    <3>1. Tail(p)[Len(p) - 1] = p[(Len(p) - 1) + 1] /\ (Len(p) - 1) + 1 = Len(p)
      BY <2>3, <1>2, <1>3
    <3>2. ASSUME NEW k \in 1..Len(p) - 1 PROVE IsAfter(i, Tail(p)[k])
      <4>1. k + 1 \in 1 + 1..Len(p)
        BY <1>2
      <4> QED
        BY <4>1, <2>3, <1>3
    <3>3. Len(Tail(p)) >= 1
      BY <2>3, <1>2, <1>3
    <3> QED
      BY <2>3, <3>1, <3>2, <3>3, <1>2, <1>3 DEF Ending
  <2> QED
    BY <1>1, <1>4, <2>1, <2>2, <2>3 DEF EndsAt
<1>5. CASE n # 1
  <2>1. n - 1 \in 1..Len(Tail(p)) /\ 1 \in 1..n - 1 /\ Tail(p)[n - 1] = p[n]
    BY <1>2, <1>3, <1>5
  <2>2. IsPre(i, p[1])
    BY <2>1, <1>1
  <2>3. ASSUME NEW k \in 1..(n - 1) - 1 PROVE IsPre(i, Tail(p)[k])
    <3>1. k + 1 \in 1..n - 1 /\ k \in 1..Len(p) - 1
      BY <1>2
    <3> QED
      BY <3>1, <1>1, <1>3
  <2>4. EndsAt(i, p, n) => EndsAt(i, Tail(p), n - 1)
    <3>1. LateReject(i, p[n]) => LateReject(i, Tail(p)[n - 1])
      BY <2>1
    <3>2. ASSUME IsOut(i, p[n]), n < Len(p), IsEnd(i, p[Len(p)]),
                 \A k \in n + 1..Len(p) : IsAfter(i, p[k])
          PROVE  EndsAt(i, Tail(p), n - 1)
      <4>1. n - 1 < Len(Tail(p)) /\ Tail(p)[Len(p) - 1] = p[(Len(p) - 1) + 1] /\ (Len(p) - 1) + 1 = Len(p)
        BY <3>2, <1>2, <1>3, <2>1
      <4>2. ASSUME NEW k \in (n - 1) + 1..Len(Tail(p)) PROVE IsAfter(i, Tail(p)[k])
        <5>1. k + 1 \in n + 1..Len(p) /\ k \in 1..Len(p) - 1
          BY <1>2, <1>3
        <5> QED
          BY <5>1, <3>2, <1>3
      <4> QED
        BY <3>2, <4>1, <4>2, <2>1, <1>3 DEF EndsAt
    <3> QED
      BY <3>1, <3>2 DEF EndsAt
  <2>5. n = Len(p) => n - 1 = Len(Tail(p))
    BY <1>2, <1>3
  <2>6. Reading(i, Tail(p))
    BY <1>1, <1>3, <2>1, <2>3, <2>4, <2>5 DEF Reading
  <2> QED
    BY <1>2, <2>2, <2>6
<1> QED
  BY <1>4, <1>5

(* What is left after an answer: a warning comes before more, an exit and a   *)
(* choice keep to it.                                                         *)
LEMMA EndingFirst ==
  ASSUME NEW i, NEW p, Ending(i, p)
  PROVE  /\ IsProg(p) /\ Len(p) >= 1 /\ IsAfter(i, p[1])
         /\ p[1].op = "warn" \/ ChoosesWarning(p[1]) => Ending(i, Tail(p)) \/ IsEnd(i, p[1])
         /\ \A q : IsProg(q) /\ Len(q) = 1 /\ IsExit(i, q[1]) => Ending(i, q \o Tail(p))
         /\ \A q : IsProg(q) /\ Len(q) = 1 /\ q[1].op = "warn" /\ Ending(i, Tail(p))
                    => Ending(i, q \o Tail(p))
<1>1. IsProg(p) /\ Len(p) \in Nat /\ Len(p) >= 1
  BY DEF Ending, IsProg
<1>2. /\ IsProg(Tail(p)) /\ Len(Tail(p)) = Len(p) - 1
      /\ \A k \in 1..Len(p) - 1 : Tail(p)[k] = p[k + 1]
  BY <1>1, ProgTail
<1>3. \A k \in 1..Len(Tail(p)) : IsAfter(i, Tail(p)[k])
  <2>1. ASSUME NEW k \in 1..Len(Tail(p)) PROVE IsAfter(i, Tail(p)[k])
    <3>1. k + 1 \in 1..Len(p) /\ k \in 1..Len(p) - 1
      BY <1>1, <1>2
    <3> QED
      BY <3>1, <1>2 DEF Ending
  <2> QED
    BY <2>1
<1>4. ASSUME Len(p) > 1 PROVE Ending(i, Tail(p))
  <2>1. Tail(p)[Len(p) - 1] = p[(Len(p) - 1) + 1] /\ (Len(p) - 1) + 1 = Len(p) /\ Len(Tail(p)) >= 1
    BY <1>4, <1>1, <1>2
  <2> QED
    BY <2>1, <1>2, <1>3 DEF Ending
<1>5. Len(p) = 1 => IsEnd(i, p[1])
  BY DEF Ending
<1>6. 1 \in 1..Len(p)
  BY <1>1
<1>7. ASSUME NEW q, IsProg(q), Len(q) = 1, IsAfter(i, q[1]), Ending(i, Tail(p)) \/ IsEnd(i, q[1])
      PROVE  Ending(i, q \o Tail(p))
  <2> DEFINE r == q \o Tail(p)
  <2>1. /\ IsProg(r) /\ Len(r) = 1 + Len(Tail(p)) /\ Len(Tail(p)) \in Nat /\ r[1] = q[1]
        /\ \A k \in 1..Len(Tail(p)) : r[1 + k] = Tail(p)[k]
    <3>1. /\ IsProg(r) /\ Len(q) \in Nat /\ Len(Tail(p)) \in Nat /\ Len(r) = Len(q) + Len(Tail(p))
          /\ \A k \in 1..Len(q) : r[k] = q[k]
          /\ \A k \in 1..Len(Tail(p)) : r[Len(q) + k] = Tail(p)[k]
      <4>1. IsProg(q) /\ IsProg(Tail(p))
        BY <1>2, <1>7
      <4> DEFINE t == Tail(p)
      <4> HIDE DEF t
      <4>2. /\ IsProg(q \o t) /\ Len(q) \in Nat /\ Len(t) \in Nat /\ Len(q \o t) = Len(q) + Len(t)
            /\ \A k \in 1..Len(q) : (q \o t)[k] = q[k]
            /\ \A k \in 1..Len(t) : (q \o t)[Len(q) + k] = t[k]
        BY <4>1, ProgConcat DEF t
      <4> QED
        BY <4>2 DEF t
    <3> HIDE DEF r
    <3>2. 1 \in 1..Len(q)
      BY <1>7
    <3> QED
      BY <3>1, <3>2, <1>7
  <2> HIDE DEF r
  <2>2. ASSUME NEW k \in 1..Len(r) PROVE IsAfter(i, r[k])
    <3>1. CASE k = 1
      BY <3>1, <2>1, <1>7
    <3>2. CASE k # 1
      <4>1. k - 1 \in 1..Len(Tail(p)) /\ k = 1 + (k - 1)
        BY <3>2, <2>1
      <4>2. r[k] = Tail(p)[k - 1]
        BY <4>1, <2>1
      <4> QED
        BY <4>1, <4>2, <1>3
    <3> QED
      BY <3>1, <3>2
  <2>3. IsEnd(i, r[Len(r)])
    <3>1. CASE Len(p) = 1
      <4>1. Len(r) = 1 /\ ~Ending(i, Tail(p))
        <5>1. Len(Tail(p)) = 0
          BY <3>1, <1>2
        <5> QED
          BY <5>1, <2>1 DEF Ending
      <4> QED
        BY <4>1, <2>1, <1>7
    <3>2. CASE Len(p) # 1
      <4>1. Len(p) > 1
        <5> DEFINE n == Len(p)
        <5>1. n \in Nat /\ n >= 1 /\ n # 1
          BY <3>2, <1>1
        <5> HIDE DEF n
        <5>2. n > 1
          BY <5>1
        <5> QED
          BY <5>2 DEF n
      <4>2. Len(Tail(p)) \in 1..Len(Tail(p)) /\ Len(r) = 1 + Len(Tail(p))
        BY <4>1, <1>1, <1>2, <2>1
      <4>3. r[Len(r)] = Tail(p)[Len(Tail(p))]
        BY <4>2, <2>1
      <4> QED
        BY <4>1, <4>3, <1>4 DEF Ending
    <3> QED
      BY <3>1, <3>2
  <2>4. Len(r) >= 1
    BY <2>1
  <2> QED
    BY <2>1, <2>2, <2>3, <2>4 DEF Ending, r
<1> QED
  BY <1>1, <1>4, <1>5, <1>6, <1>7 DEF Ending, IsAfter, IsEnd
-----------------------------------------------------------------------------
(* Lines on stderr.                                                        *)

LEMMA LineAdded ==
  ASSUME NEW T, NEW s \in Seq(T), NEW x \in T
  PROVE  /\ Append(s, x) \in Seq(T) /\ ToSet(Append(s, x)) = ToSet(s) \cup {x}
         /\ Len(s) \in Nat /\ DOMAIN s = 1..Len(s) /\ DOMAIN Append(s, x) = 1..Len(s) + 1
         /\ Append(s, x)[Len(s) + 1] = x
         /\ \A k \in 1..Len(s) : Append(s, x)[k] = s[k]
<1> DEFINE t == Append(s, x)
<1>1. /\ t \in Seq(T) /\ Len(t) = Len(s) + 1 /\ Len(s) \in Nat
      /\ DOMAIN s = 1..Len(s) /\ DOMAIN t = 1..Len(s) + 1
      /\ t[Len(s) + 1] = x /\ \A k \in 1..Len(s) : t[k] = s[k]
  OBVIOUS
<1> HIDE DEF t
<1>2. ToSet(t) \subseteq ToSet(s) \cup {x}
  <2>1. ASSUME NEW k \in 1..Len(s) + 1 PROVE t[k] \in ToSet(s) \cup {x}
    <3>1. k \in 1..Len(s) \/ k = Len(s) + 1
      BY <1>1
    <3> QED
      BY <3>1, <1>1 DEF ToSet
  <2> QED
    BY <2>1, <1>1 DEF ToSet
<1>3. ToSet(s) \cup {x} \subseteq ToSet(t)
  <2>1. Len(s) + 1 \in 1..Len(s) + 1 /\ 1..Len(s) \subseteq 1..Len(s) + 1
    BY <1>1
  <2> QED
    BY <2>1, <1>1 DEF ToSet
<1> QED
  BY <1>1, <1>2, <1>3 DEF t

(* An error line ends the invocation with one; any other leaves what there is. *)
LEMMA ErrorAdded ==
  ASSUME stderr \in Seq(Lines), ErrorLines = {}, NEW x \in Errors, stderr' = Append(stderr, x)
  PROVE  /\ stderr' \in Seq(Lines) /\ ToSet(stderr') = ToSet(stderr) \cup {x}
         /\ \A kinds : OneError(kinds)' <=> x \in kinds
<1>1. x \in Lines
  BY DEF Errors, Lines
<1>2. /\ stderr' \in Seq(Lines) /\ ToSet(stderr') = ToSet(stderr) \cup {x}
      /\ Len(stderr) \in Nat /\ DOMAIN stderr = 1..Len(stderr)
      /\ DOMAIN stderr' = 1..Len(stderr) + 1 /\ stderr'[Len(stderr) + 1] = x
      /\ \A k \in 1..Len(stderr) : stderr'[k] = stderr[k]
  BY <1>1, LineAdded
<1>3. ErrorLines' = {Len(stderr) + 1}
  BY <1>2 DEF ErrorLines
<1> QED
  BY <1>2, <1>3 DEF OneError

LEMMA PlainLineAdded ==
  ASSUME stderr \in Seq(Lines), NEW x \in Lines \ Errors, stderr' = Append(stderr, x)
  PROVE  /\ stderr' \in Seq(Lines) /\ ToSet(stderr') = ToSet(stderr) \cup {x}
         /\ ErrorLines' = ErrorLines /\ \A kinds : OneError(kinds)' <=> OneError(kinds)
<1>1. /\ stderr' \in Seq(Lines) /\ ToSet(stderr') = ToSet(stderr) \cup {x}
      /\ Len(stderr) \in Nat /\ DOMAIN stderr = 1..Len(stderr)
      /\ DOMAIN stderr' = 1..Len(stderr) + 1 /\ stderr'[Len(stderr) + 1] = x
      /\ \A k \in 1..Len(stderr) : stderr'[k] = stderr[k]
  BY LineAdded
<1>2. ErrorLines' = ErrorLines
  <2>1. \A k : k \in 1..Len(stderr) + 1 <=> k \in 1..Len(stderr) \/ k = Len(stderr) + 1
    BY <1>1
  <2> QED
    BY <2>1, <1>1 DEF ErrorLines
<1>3. \A k \in ErrorLines : stderr'[k] = stderr[k]
  BY <1>1 DEF ErrorLines
<1> QED
  BY <1>1, <1>2, <1>3 DEF OneError

-----------------------------------------------------------------------------
(* The actions.                                                            *)

(* Where an invocation may be when it is about to do something. *)
LEMMA AboutTo ==
  ASSUME CliInv, code = NoCode
  PROVE  /\ ErrorLines = {} /\ "update" \notin ToSet(stderr)
         /\ \/ StillReading /\ Rejecting(inv, todo) /\ reached # "view"
               /\ (ShapeWrong(inv) \/ inv.cmd \notin Dumps => reached = "args")
               /\ \/ ArgReject(inv, todo[1])
                  \/ todo[1].op = "deprecated" /\ ArgReject(inv, todo[2])
                  \/ /\ todo[1].op = "open" /\ ArgReject(inv, todo[2])
                     /\ todo[1].encrypted = <<>> /\ ~ShapeWrong(inv) /\ inv.cmd \in Dumps
            \/ /\ StillReading /\ Reading(inv, todo) /\ ~ShapeWrong(inv)
               /\ \/ LateReject(inv, todo[1])
                  \/ IsOut(inv, todo[1]) /\ Ending(inv, Tail(todo))
                  \/ IsFork(inv, todo[1]) /\ Len(todo) = 1
                  \/ IsPre(inv, todo[1]) /\ Reading(inv, Tail(todo))
            \/ Responded /\ IsAfter(inv, todo[1])
<1>1. ErrorLines = {} /\ "update" \notin ToSet(stderr) /\ (StillReading \/ Responded)
  BY DEF CliInv
<1>2. CASE StillReading /\ Rejecting(inv, todo)
            /\ reached # "view" /\ (ShapeWrong(inv) \/ inv.cmd \notin Dumps => reached = "args")
  BY <1>1, <1>2 DEF Rejecting
<1>3. CASE StillReading /\ Reading(inv, todo) /\ ~ShapeWrong(inv)
  BY <1>1, <1>3, ReadingFirst
<1>4. CASE Responded
  BY <1>1, <1>4, EndingFirst DEF Responded
<1> QED
  BY <1>1, <1>2, <1>3, <1>4 DEF StillReading

(* A failure before or in the write of the answer. *)
LEMMA FailKeeps ==
  ASSUME CliInv, code = NoCode, StillReading, NEW x \in Errors, NEW c \in {1, 2}, Fail(x, c),
         UNCHANGED <<inv, notice>>, reached' \in {"args", "open", "view"},
         stdout'.state \in {"empty", "partial"},
         stdout'.state = "empty" \/ machineFormat(inv) \/ stdout'.payload = "plain",
         ShapeWrong(inv) => x = "usage" /\ reached' = "args"
                              /\ c = IF inv.cmd \in {"validate", "diff"} THEN 2 ELSE 1,
         inv.cmd \in Dumps /\ c = 1 => reached' # "view",
         inv.cmd \in {"validate", "diff"} => c = 2,
         c = 2 /\ x = "plain" =>
           \/ stdout'.state = "partial" /\ PlainWrite(inv)
           \/ inv.cmd = "embedded" /\ "name" \in inv.opts
           \/ inv.cmd = "signatures" /\ {"cms", "certs"} \cap inv.opts # {}
           \/ inv.cmd = "validate" /\ reached' = "args"
  PROVE  CliInv'
<1>1. /\ stderr' \in Seq(Lines) /\ ToSet(stderr') = ToSet(stderr) \cup {x}
      /\ \A kinds : OneError(kinds)' <=> x \in kinds
  BY ErrorAdded DEF CliInv, CliTypes, Fail
<1>2. code' = c /\ inv' = inv
  BY DEF Fail, Return
<1>3. "note" \notin ToSet(stderr') /\ "update" \notin ToSet(stderr')
  BY <1>1 DEF StillReading, HasNote, CliInv, Errors
<1>4. CliTypes'
  BY <1>1, <1>2 DEF CliInv, CliTypes, NoCode
<1>5. ExitContract'
  <2>1. ShapeWrong(inv)' = ShapeWrong(inv) /\ PlainWrite(inv)' = PlainWrite(inv)
    BY <1>2
  <2>2. OneError({"usage"})' <=> x = "usage"
    BY <1>1
  <2>3. OneError({"plain"})' <=> x = "plain"
    BY <1>1
  <2>4. OneError(Errors)'
    BY <1>1 DEF Errors
  <2> QED
    BY <1>2, <2>1, <2>2, <2>3, <2>4 DEF ExitContract
<1>6. OutputIsWhole'
  BY <1>2, <1>3 DEF OutputIsWhole, Verdict
<1>7. machineFormat(inv)' = machineFormat(inv)
  BY <1>2
<1> QED
  BY <1>2, <1>3, <1>4, <1>5, <1>6, <1>7 DEF CliInv, NoCode
(* What a step of a program may be, by what it does. *)
LEMMA OpOf ==
  ASSUME NEW i, NEW s
  PROVE  /\ IsOut(i, s) => s.op \in {"emit", "note", "help"}
         /\ IsFork(i, s) => s.op = "choose"
         /\ IsPre(i, s) => s.op \in {"call", "soft", "warn", "deprecated", "open", "choose"}
         /\ IsAfter(i, s) => s.op \in {"exit", "choose", "warn"}
         /\ ArgReject(i, s) => s.op = "reject"
         /\ LateReject(i, s) => s.op = "reject"
BY DEF IsOut, IsFork, IsPre, IsMaybe, IsAfter, IsEnd, IsExit, ChoosesExit, ChoosesWarning, ArgReject,
       LateReject

LEMMA RejectKeeps == CliInv /\ RejectArgs => CliInv'
<1> SUFFICES ASSUME CliInv, RejectArgs PROVE CliInv'
  OBVIOUS
<1>1. /\ code = NoCode /\ todo[1].op = "reject" /\ Fail(todo[1].err, todo[1].code)
      /\ UNCHANGED <<inv, stdout, reached, notice>>
  BY DEF RejectArgs, Doing
<1>2. \/ /\ StillReading /\ reached # "view" /\ ArgReject(inv, todo[1])
         /\ (ShapeWrong(inv) \/ inv.cmd \notin Dumps => reached = "args")
      \/ StillReading /\ ~ShapeWrong(inv) /\ LateReject(inv, todo[1])
  BY <1>1, AboutTo, OpOf
<1>3. stdout.state = "empty" /\ StillReading /\ reached \in {"args", "open", "view"}
  BY <1>2 DEF StillReading, CliInv, CliTypes
<1>4. CASE /\ reached # "view" /\ ArgReject(inv, todo[1])
           /\ (ShapeWrong(inv) \/ inv.cmd \notin Dumps => reached = "args")
  <2>1. todo[1].err \in Errors /\ todo[1].code \in {1, 2}
    BY <1>4 DEF ArgReject, Errors
  <2>2. "validate" \notin Dumps /\ "diff" \notin Dumps
    BY DEF Dumps, DocViews, ByRefs
  <2>3. ShapeWrong(inv) => todo[1].err = "usage" /\ reached = "args"
                             /\ todo[1].code = IF inv.cmd \in {"validate", "diff"} THEN 2 ELSE 1
    BY <1>4 DEF ArgReject
  <2>4. inv.cmd \in {"validate", "diff"} => todo[1].code = 2
    BY <1>4, <2>2 DEF ArgReject
  <2>5. todo[1].code = 2 /\ todo[1].err = "plain" => inv.cmd = "validate" /\ reached = "args"
    BY <1>4, <2>2 DEF ArgReject
  <2> QED
    BY <1>1, <1>3, <1>4, <2>1, <2>3, <2>4, <2>5, FailKeeps
<1>5. CASE ~ShapeWrong(inv) /\ LateReject(inv, todo[1])
  <2>1. /\ todo[1].err \in Errors /\ todo[1].code = 2
        /\ todo[1].err = "plain" =>
             \/ inv.cmd = "embedded" /\ "name" \in inv.opts
             \/ inv.cmd = "signatures" /\ {"cms", "certs"} \cap inv.opts # {}
    BY <1>5 DEF LateReject, Errors
  <2> QED
    BY <1>1, <1>3, <1>5, <2>1, FailKeeps
<1> QED
  BY <1>2, <1>4, <1>5

(* A failure with a JSON line and exit 2 before anything is written. *)
LEMMA JsonFailKeeps ==
  ASSUME CliInv, code = NoCode, StillReading, ~ShapeWrong(inv), Fail("json", 2),
         UNCHANGED <<inv, stdout, notice>>, reached' \in {reached, "view"}
  PROVE  CliInv'
<1>1. stdout.state = "empty" /\ reached \in {"args", "open", "view"}
  BY DEF StillReading, CliInv, CliTypes
<1>2. "json" \in Errors /\ reached' \in {"args", "open", "view"} /\ 2 \in {1, 2}
  BY <1>1 DEF Errors
<1>3. stdout'.state = "empty" /\ stdout'.state \in {"empty", "partial"} /\ UNCHANGED <<inv, notice>>
  BY <1>1
<1>4. ~(2 = 1) /\ ~("json" = "plain")
  OBVIOUS
<1> QED
  BY <1>2, <1>3, <1>4, FailKeeps

(* Opening and calling happen while the document is read, of a command line   *)
(* with the right shape.                                                      *)
LEMMA FalliblesRead ==
  ASSUME CliInv, NEW op \in {"open", "call", "soft", "emit"}, Doing(op)
  PROVE  code = NoCode /\ StillReading /\ ~ShapeWrong(inv)
BY AboutTo, OpOf DEF Doing

LEMMA CannotOpenKeeps == CliInv /\ CannotOpen => CliInv'
BY FalliblesRead, JsonFailKeeps DEF CannotOpen

LEMMA CallFailsKeeps == CliInv /\ CallFails => CliInv'
BY FalliblesRead, JsonFailKeeps DEF CallFails

LEMMA PanicsKeeps == CliInv /\ Panics => CliInv'
BY FalliblesRead, JsonFailKeeps DEF Panics

LEMMA WriteFailsKeeps == CliInv /\ WriteFails => CliInv'
<1> SUFFICES ASSUME CliInv, WriteFails PROVE CliInv'
  OBVIOUS
<1>1. /\ code = NoCode /\ todo[1].op = "emit" /\ Fail(todo[1].err, 2)
      /\ stdout' = [state |-> "partial", payload |-> todo[1].payload]
      /\ UNCHANGED <<inv, reached, notice>> /\ Doing("emit")
  BY DEF WriteFails, Doing
<1>2. StillReading /\ ~ShapeWrong(inv) /\ IsOut(inv, todo[1])
  BY <1>1, AboutTo, OpOf
<1>3. /\ machineFormat(inv) \/ todo[1].payload = "plain"
      /\ todo[1].err = "json" \/ (todo[1].err = "plain" /\ PlainWrite(inv))
  BY <1>1, <1>2 DEF IsOut
<1>4. /\ stdout'.state = "partial" /\ stdout'.payload = todo[1].payload /\ todo[1].err \in Errors
      /\ reached' \in {"args", "open", "view"} /\ UNCHANGED <<inv, notice>>
  BY <1>1, <1>3 DEF Errors, CliInv, CliTypes
<1> QED
  BY <1>1, <1>2, <1>3, <1>4, FailKeeps
(* A step that does not end the invocation. *)
LEMMA GoOn ==
  ASSUME CliInv, code = NoCode, UNCHANGED <<inv, code, notice>>,
         reached' \in {"args", "open", "view"}, stdout'.state \in {"empty", "partial", "whole"},
         stdout'.state = "empty" \/ machineFormat(inv) \/ stdout'.payload = "plain",
         stderr' = stderr \/ \E x \in Lines \ (Errors \cup {"update"}) : stderr' = Append(stderr, x),
         (StillReading \/ Responded)'
  PROVE  CliInv'
<1>1. stderr \in Seq(Lines) /\ ErrorLines = {} /\ "update" \notin ToSet(stderr)
  BY DEF CliInv, CliTypes
<1>2. stderr' \in Seq(Lines) /\ ErrorLines' = {} /\ "update" \notin ToSet(stderr')
  <2>1. CASE stderr' = stderr
    BY <1>1, <2>1 DEF ErrorLines
  <2>2. ASSUME NEW x \in Lines \ (Errors \cup {"update"}), stderr' = Append(stderr, x)
        PROVE  stderr' \in Seq(Lines) /\ ErrorLines' = {} /\ "update" \notin ToSet(stderr')
    BY <1>1, <2>2, PlainLineAdded
  <2> QED
    BY <2>1, <2>2
<1>3. CliTypes'
  BY <1>2 DEF CliInv, CliTypes
<1>4. ExitContract' /\ OutputIsWhole'
  BY <1>2 DEF ExitContract, OutputIsWhole
<1> QED
  BY <1>2, <1>3, <1>4 DEF CliInv

(* Another line leaves a note where it was. *)
LEMMA NoteKept ==
  ASSUME CliInv, NEW x \in Lines \ Errors, stderr' = Append(stderr, x)
  PROVE  HasNote' <=> HasNote \/ x = "note"
<1>1. stderr \in Seq(Lines)
  BY DEF CliInv, CliTypes
<1> QED
  BY <1>1, PlainLineAdded DEF HasNote

LEMMA OpenSucceedsKeeps == CliInv /\ OpenSucceeds => CliInv'
<1> SUFFICES ASSUME CliInv, OpenSucceeds PROVE CliInv'
  OBVIOUS
<1>1. /\ code = NoCode /\ todo[1].op = "open" /\ todo' = Tail(todo) /\ reached' = "open"
      /\ UNCHANGED <<inv, stdout, code, notice>>
      /\ stderr' = stderr \/ stderr' = Append(stderr, "jsonWarning")
  BY DEF OpenSucceeds, Doing
<1>2. "jsonWarning" \in Lines \ (Errors \cup {"update"})
  BY DEF Lines, Errors
<1>3. \/ /\ StillReading /\ Rejecting(inv, todo) /\ ArgReject(inv, todo[2])
         /\ ~ShapeWrong(inv) /\ inv.cmd \in Dumps
      \/ StillReading /\ ~ShapeWrong(inv) /\ Reading(inv, Tail(todo))
  BY <1>1, AboutTo, OpOf
<1>4. stdout.state = "empty" /\ ~HasNote'
  <2>1. stdout.state = "empty" /\ ~HasNote
    BY <1>3 DEF StillReading
  <2>2. CASE stderr' = stderr
    BY <2>1, <2>2 DEF HasNote
  <2>3. CASE stderr' = Append(stderr, "jsonWarning")
    BY <2>1, <2>3, <1>2, NoteKept
  <2> QED
    BY <1>1, <2>1, <2>2, <2>3
<1>5. Rejecting(inv, Tail(todo)) \/ Reading(inv, Tail(todo))
  <2>1. ASSUME Rejecting(inv, todo), ArgReject(inv, todo[2]), todo[1].op = "open"
        PROVE  Rejecting(inv, Tail(todo))
    <3>1. IsProg(todo) /\ Len(todo) >= 2
      BY <2>1, OpOf DEF Rejecting
    <3>2. /\ IsProg(Tail(todo)) /\ Len(todo) \in Nat /\ Len(Tail(todo)) = Len(todo) - 1
          /\ \A k \in 1..Len(todo) - 1 : Tail(todo)[k] = todo[k + 1]
      <4>1. Len(todo) \in Nat
        BY <3>1 DEF IsProg
      <4>2. Len(todo) >= 1
        BY <3>1, <4>1
      <4> QED
        BY <3>1, <4>2, ProgTail
    <3>3. Len(Tail(todo)) >= 1 /\ Tail(todo)[1] = todo[2]
      BY <3>1, <3>2
    <3> QED
      BY <2>1, <3>2, <3>3 DEF Rejecting
  <2> QED
    BY <1>1, <1>3, <2>1
<1>6. StillReading'
  BY <1>1, <1>3, <1>4, <1>5 DEF StillReading
<1>7. stdout'.state = "empty" /\ UNCHANGED <<inv, code, notice>>
  BY <1>1, <1>4
<1> QED
  BY <1>1, <1>2, <1>6, <1>7, GoOn

LEMMA OpenEncryptedKeeps == CliInv /\ OpenEncrypted => CliInv'
<1> SUFFICES ASSUME CliInv, OpenEncrypted PROVE CliInv'
  OBVIOUS
<1>1. /\ code = NoCode /\ todo[1].op = "open" /\ todo[1].encrypted # <<>>
      /\ todo' = todo[1].encrypted /\ UNCHANGED <<inv, stdout, stderr, code, reached, notice>>
  BY DEF OpenEncrypted, Doing
<1>2. StillReading /\ ~ShapeWrong(inv) /\ IsPre(inv, todo[1])
  BY <1>1, AboutTo, OpOf
<1>3. IsProg(todo') /\ Len(todo') >= 1 /\ EndsAt(inv, todo', 1)
  BY <1>1, <1>2 DEF IsPre, IsMaybe
<1>4. Reading(inv, todo')
  BY <1>3, EndsReads, StraightReads
<1>5. StillReading'
  BY <1>1, <1>2, <1>4 DEF StillReading, HasNote
<1>6. /\ stdout'.state = "empty" /\ reached' \in {"args", "open", "view"}
      /\ UNCHANGED <<inv, code, notice>> /\ stderr' = stderr
  BY <1>1, <1>2 DEF StillReading, CliInv, CliTypes
<1> QED
  BY <1>1, <1>5, <1>6, GoOn

LEMMA CallReturnsKeeps == CliInv /\ CallReturns => CliInv'
<1> SUFFICES ASSUME CliInv, CallReturns PROVE CliInv'
  OBVIOUS
<1>1. /\ code = NoCode /\ todo[1].op \in {"call", "soft"} /\ todo' = Tail(todo) /\ reached' = "view"
      /\ UNCHANGED <<inv, stdout, code, notice>>
      /\ stderr' = stderr \/ stderr' = Append(stderr, "warning")
  BY DEF CallReturns, Doing
<1>2. "warning" \in Lines \ (Errors \cup {"update"})
  BY DEF Lines, Errors
<1>3. StillReading /\ ~ShapeWrong(inv) /\ Reading(inv, Tail(todo))
  BY <1>1, AboutTo, OpOf
<1>4. stdout.state = "empty" /\ ~HasNote'
  <2>1. stdout.state = "empty" /\ ~HasNote
    BY <1>3 DEF StillReading
  <2>2. CASE stderr' = stderr
    BY <2>1, <2>2 DEF HasNote
  <2>3. CASE stderr' = Append(stderr, "warning")
    BY <2>1, <2>3, <1>2, NoteKept
  <2> QED
    BY <1>1, <2>1, <2>2, <2>3
<1>5. StillReading'
  BY <1>1, <1>3, <1>4 DEF StillReading
<1>6. stdout'.state = "empty" /\ UNCHANGED <<inv, code, notice>>
  BY <1>1, <1>4
<1> QED
  BY <1>1, <1>2, <1>5, <1>6, GoOn

LEMMA WriteSucceedsKeeps == CliInv /\ WriteSucceeds => CliInv'
<1> SUFFICES ASSUME CliInv, WriteSucceeds PROVE CliInv'
  OBVIOUS
<1>1. /\ code = NoCode /\ todo[1].op = "emit" /\ todo' = Tail(todo)
      /\ stdout' = [state |-> "whole", payload |-> todo[1].payload]
      /\ UNCHANGED <<inv, stderr, code, reached, notice>>
  BY DEF WriteSucceeds, Doing
<1>2. StillReading /\ ~ShapeWrong(inv) /\ IsOut(inv, todo[1]) /\ Ending(inv, Tail(todo))
  BY <1>1, AboutTo, OpOf
<1>3. machineFormat(inv) \/ todo[1].payload = "plain"
  BY <1>1, <1>2 DEF IsOut
<1>4. Responded'
  BY <1>1, <1>2 DEF Responded
<1>5. /\ stdout'.state = "whole" /\ stdout'.payload = todo[1].payload
      /\ reached' \in {"args", "open", "view"} /\ stderr' = stderr /\ UNCHANGED <<inv, code, notice>>
  BY <1>1 DEF CliInv, CliTypes
<1> QED
  BY <1>1, <1>3, <1>4, <1>5, GoOn

LEMMA DecideKeeps == CliInv /\ Decide => CliInv'
<1> SUFFICES ASSUME CliInv, Decide PROVE CliInv'
  OBVIOUS
<1>1. PICK prog \in todo[1].alts :
        /\ code = NoCode /\ todo[1].op = "choose" /\ todo' = prog \o Tail(todo)
        /\ UNCHANGED <<inv, stdout, stderr, code, reached, notice>>
  BY DEF Decide, Doing
<1>2. \/ StillReading /\ ~ShapeWrong(inv) /\ IsFork(inv, todo[1]) /\ Reading(inv, todo) /\ Len(todo) = 1
      \/ StillReading /\ ~ShapeWrong(inv) /\ IsPre(inv, todo[1]) /\ Reading(inv, Tail(todo))
      \/ Responded /\ IsAfter(inv, todo[1])
  BY <1>1, AboutTo, OpOf
<1>3. CASE StillReading /\ ~ShapeWrong(inv) /\ IsFork(inv, todo[1]) /\ Reading(inv, todo) /\ Len(todo) = 1
  <2>1. Straight(inv, prog)
    BY <1>1, <1>3 DEF IsFork
  <2>2. Tail(todo) = <<>>
    <3>1. IsProg(todo) /\ Len(todo) >= 1
      BY <1>3 DEF Reading
    <3>2. IsProg(Tail(todo)) /\ Len(Tail(todo)) = 0
      BY <3>1, <1>3, ProgTail
    <3> DEFINE t == Tail(todo)
    <3> HIDE DEF t
    <3>3. t \in Seq({t[k] : k \in 1..Len(t)}) /\ Len(t) = 0
      BY <3>2 DEF IsProg, t
    <3>4. t = <<>>
      BY <3>3, EmptySeq
    <3> QED
      BY <3>4 DEF t
  <2>3. prog \o <<>> = prog
    <3>1. prog \in Seq({prog[k] : k \in 1..Len(prog)})
      BY <2>1 DEF Straight, IsProg
    <3> QED
      BY <3>1
  <2>4. StillReading'
    BY <1>1, <1>3, <2>1, <2>2, <2>3, StraightReads DEF StillReading, HasNote
  <2> QED
    BY <1>1, <2>4, GoOn DEF StillReading, CliInv, CliTypes
<1>4. CASE StillReading /\ ~ShapeWrong(inv) /\ IsPre(inv, todo[1]) /\ Reading(inv, Tail(todo))
  <2>1. \/ prog = <<>> \/ prog = <<[op |-> "warn"]>>
        \/ IsProg(prog) /\ Len(prog) = 1 /\ LateReject(inv, prog[1])
    BY <1>1, <1>4 DEF IsPre, IsMaybe
  <2>2. Reading(inv, prog \o Tail(todo))
    <3>1. CASE prog = <<>> \/ prog = <<[op |-> "warn"]>>
      <4>1. PreProg(inv, prog)
        BY <3>1, PreOne, PreNone DEF IsPre
      <4> QED
        BY <4>1, <1>4, PreReading
    <3>2. CASE IsProg(prog) /\ Len(prog) = 1 /\ LateReject(inv, prog[1])
      <4>1. IsProg(Tail(todo))
        BY <1>4 DEF Reading
      <4> DEFINE t == Tail(todo)
      <4> HIDE DEF t
      <4>2. /\ IsProg(prog \o t) /\ Len(t) \in Nat /\ Len(prog \o t) = Len(prog) + Len(t)
            /\ \A k \in 1..Len(prog) : (prog \o t)[k] = prog[k]
        BY <4>1, <3>2, ProgConcat DEF t
      <4>3. Len(prog \o t) >= 1 /\ (prog \o t)[1] = prog[1]
        <5>1. 1 \in 1..Len(prog)
          BY <3>2
        <5> QED
          BY <5>1, <4>2, <3>2
      <4>4. EndsAt(inv, prog \o t, 1)
        BY <4>3, <3>2 DEF EndsAt
      <4> QED
        BY <4>2, <4>3, <4>4, EndsReads, StraightReads DEF t
    <3> QED
      BY <2>1, <3>1, <3>2
  <2>3. StillReading'
    BY <1>1, <1>4, <2>2 DEF StillReading, HasNote
  <2> QED
    BY <1>1, <1>4, <2>3, GoOn DEF StillReading, CliInv, CliTypes
<1>5. CASE Responded /\ IsAfter(inv, todo[1])
  <2>1. Ending(inv, todo)
    BY <1>5 DEF Responded
  <2>2. Ending(inv, prog \o Tail(todo))
    <3>1. CASE ChoosesExit(inv, todo[1])
      <4>1. IsProg(prog) /\ Len(prog) = 1 /\ IsExit(inv, prog[1])
        BY <1>1, <3>1 DEF ChoosesExit
      <4> QED
        BY <4>1, <2>1, EndingFirst
    <3>2. CASE ~ChoosesExit(inv, todo[1]) /\ ChoosesWarning(todo[1])
      <4>1. ~IsEnd(inv, todo[1])
        BY <1>1, <3>2 DEF IsEnd, IsExit
      <4>2. Ending(inv, Tail(todo)) /\ IsProg(Tail(todo))
        BY <4>1, <3>2, <2>1, EndingFirst DEF Ending
      <4>3. CASE prog = <<>>
        <5> DEFINE t == Tail(todo)
        <5>1. t \in Seq({t[k] : k \in 1..Len(t)})
          BY <4>2 DEF IsProg
        <5> HIDE DEF t
        <5>2. <<>> \o t = t
          BY <5>1
        <5> QED
          BY <5>2, <4>2, <4>3 DEF t
      <4>4. CASE prog = <<[op |-> "warn"]>>
        <5>1. IsProg(prog) /\ Len(prog) = 1 /\ prog[1].op = "warn"
          BY <4>4, ProgOne
        <5> QED
          BY <5>1, <4>2, <2>1, EndingFirst
      <4> QED
        BY <1>1, <3>2, <4>3, <4>4 DEF ChoosesWarning
    <3> QED
      BY <1>1, <1>5, <3>1, <3>2 DEF IsAfter, IsEnd, IsExit
  <2>3. Responded'
    BY <1>1, <1>5, <2>2 DEF Responded, HasNote
  <2> QED
    BY <1>1, <1>5, <2>3, GoOn DEF CliInv, CliTypes
<1> QED
  BY <1>2, <1>3, <1>4, <1>5

LEMMA WriteLineKeeps == CliInv /\ WriteLine => CliInv'
<1> SUFFICES ASSUME CliInv, WriteLine PROVE CliInv'
  OBVIOUS
<1> DEFINE x == IF todo[1].op = "warn" THEN "jsonWarning" ELSE todo[1].op
<1>1. /\ code = NoCode /\ todo[1].op \in {"warn", "note", "deprecated", "help"} /\ todo' = Tail(todo)
      /\ stderr' = Append(stderr, x) /\ UNCHANGED <<inv, stdout, code, reached, notice>>
  BY DEF WriteLine, Doing
<1>2. x \in Lines \ (Errors \cup {"update"}) /\ (x = "note" <=> todo[1].op = "note")
  BY <1>1 DEF Lines, Errors
<1> HIDE DEF x
<1>3. HasNote' <=> HasNote \/ todo[1].op = "note"
  BY <1>1, <1>2, NoteKept
<1>4. CASE /\ StillReading /\ Rejecting(inv, todo) /\ ArgReject(inv, todo[2]) /\ todo[1].op = "deprecated"
           /\ reached # "view" /\ (ShapeWrong(inv) \/ inv.cmd \notin Dumps => reached = "args")
  <2>1. IsProg(todo) /\ Len(todo) \in Nat /\ Len(todo) >= 2
    BY <1>4, OpOf DEF Rejecting, IsProg
  <2>2. /\ IsProg(Tail(todo)) /\ Len(Tail(todo)) = Len(todo) - 1
        /\ \A k \in 1..Len(todo) - 1 : Tail(todo)[k] = todo[k + 1]
    <3>1. Len(todo) >= 1
      BY <2>1
    <3> QED
      BY <2>1, <3>1, ProgTail
  <2>3. Len(Tail(todo)) >= 1 /\ Tail(todo)[1] = todo[2]
    BY <2>1, <2>2
  <2>4. Rejecting(inv, Tail(todo))
    BY <1>4, <2>2, <2>3 DEF Rejecting
  <2>5. StillReading'
    BY <1>1, <1>3, <1>4, <2>4 DEF StillReading
  <2> QED
    BY <1>1, <1>2, <1>4, <2>5, GoOn DEF StillReading, CliInv, CliTypes
<1>5. CASE StillReading /\ ~ShapeWrong(inv) /\ IsPre(inv, todo[1]) /\ Reading(inv, Tail(todo))
  <2>1. todo[1].op # "note"
    BY <1>1, <1>5, OpOf
  <2>2. StillReading'
    BY <1>1, <1>3, <1>5, <2>1 DEF StillReading
  <2> QED
    BY <1>1, <1>2, <1>5, <2>2, GoOn DEF StillReading, CliInv, CliTypes
<1>6. CASE StillReading /\ ~ShapeWrong(inv) /\ IsOut(inv, todo[1]) /\ Ending(inv, Tail(todo))
  <2>1. \/ todo[1].op = "note" /\ inv.cmd \in Dumps
        \/ todo[1].op = "help" /\ inv.cmd = "help"
    BY <1>1, <1>6 DEF IsOut
  <2>2. Responded'
    BY <1>1, <1>3, <1>6, <2>1 DEF Responded
  <2> QED
    BY <1>1, <1>2, <1>6, <2>2, GoOn DEF StillReading, CliInv, CliTypes
<1>7. CASE Responded /\ todo[1].op = "warn"
  <2>1. Ending(inv, todo) /\ ~IsEnd(inv, todo[1])
    BY <1>7 DEF Responded, IsEnd, IsExit, ChoosesExit
  <2>2. Ending(inv, Tail(todo))
    BY <1>7, <2>1, EndingFirst
  <2>3. Responded'
    BY <1>1, <1>3, <1>7, <2>2 DEF Responded
  <2> QED
    BY <1>1, <1>2, <2>3, GoOn DEF CliInv, CliTypes
<1> QED
  BY <1>1, <1>4, <1>5, <1>6, <1>7, AboutTo, OpOf

LEMMA ReturnsKeeps == CliInv /\ Returns => CliInv'
<1> SUFFICES ASSUME CliInv, Returns PROVE CliInv'
  OBVIOUS
<1>1. /\ code = NoCode /\ todo[1].op = "exit" /\ code' = todo[1].code
      /\ UNCHANGED <<inv, stdout, stderr, reached, notice>>
  BY DEF Returns, Return, Doing
<1>2. Responded /\ IsAfter(inv, todo[1]) /\ ErrorLines = {} /\ "update" \notin ToSet(stderr)
  BY <1>1, AboutTo, OpOf
<1>3. code' \in IF inv.cmd \in {"validate", "diff"} THEN {0, 1} ELSE {0}
  BY <1>1, <1>2 DEF IsAfter, IsEnd, IsExit, ChoosesExit, ChoosesWarning
<1>4. ErrorLines' = {} /\ (HasNote' <=> HasNote) /\ "update" \notin ToSet(stderr')
  BY <1>1, <1>2 DEF ErrorLines, HasNote
<1>5. "validate" \notin Dumps /\ "diff" \notin Dumps /\ "help" \notin Dumps
  BY DEF Dumps, DocViews, ByRefs
<1>6. ExitContract'
  BY <1>1, <1>2, <1>3, <1>4, <1>5 DEF ExitContract, Responded
<1>7. OutputIsWhole'
  BY <1>1, <1>2, <1>3, <1>4 DEF OutputIsWhole, Verdict, Responded, HasNote
<1>8. CliTypes'
  BY <1>1, <1>3 DEF CliInv, CliTypes, NoCode
<1> QED
  BY <1>1, <1>3, <1>4, <1>6, <1>7, <1>8 DEF CliInv, NoCode

LEMMA FinishKeeps == CliInv /\ Finish => CliInv'
<1> SUFFICES ASSUME CliInv, Finish PROVE CliInv'
  OBVIOUS
<1>1. /\ code # NoCode /\ ~machineFormat(inv) /\ stderr' = Append(stderr, "update") /\ notice' = FALSE
      /\ UNCHANGED <<inv, todo, stdout, code, reached>>
  BY DEF Finish
<1>2. "update" \in Lines \ Errors /\ stderr \in Seq(Lines)
  BY DEF Lines, Errors, CliInv, CliTypes
<1>3. /\ stderr' \in Seq(Lines) /\ ToSet(stderr') = ToSet(stderr) \cup {"update"}
      /\ ErrorLines' = ErrorLines /\ \A kinds : OneError(kinds)' <=> OneError(kinds)
  BY <1>1, <1>2, PlainLineAdded
<1>4. stdout.state = "empty" \/ stdout.payload = "plain"
  BY <1>1 DEF CliInv
<1>5. ExitContract'
  <2>1. /\ OneError({"usage"})' <=> OneError({"usage"})
        /\ OneError({"plain"})' <=> OneError({"plain"})
    BY <1>3
  <2>2. OneError(Errors)' <=> OneError(Errors)
    BY <1>3
  <2> QED
    BY <1>1, <1>3, <2>1, <2>2 DEF CliInv, ExitContract
<1>6. OutputIsWhole'
  BY <1>1, <1>3, <1>4 DEF CliInv, OutputIsWhole, Verdict
<1>7. CliTypes'
  BY <1>1, <1>3 DEF CliInv, CliTypes
<1> QED
  BY <1>1, <1>3, <1>5, <1>6, <1>7 DEF CliInv
-----------------------------------------------------------------------------
(* The handlers' parts.                                                    *)

LEMMA ProgAssoc ==
  ASSUME NEW p, NEW q, NEW r, IsProg(p), IsProg(q), IsProg(r)
  PROVE  (p \o q) \o r = p \o (q \o r)
<1> DEFINE S == {p[k] : k \in 1..Len(p)} \cup {q[k] : k \in 1..Len(q)} \cup {r[k] : k \in 1..Len(r)}
<1>1. p \in Seq(S) /\ q \in Seq(S) /\ r \in Seq(S)
  BY DEF IsProg
<1> HIDE DEF S
<1> QED
  BY <1>1, ConcatAssociative

(* The shape of the positional arguments. *)
LEMMA Positioned ==
  ASSUME NEW i \in Invocations
  PROVE  /\ requirePositionals(i, 1) <=> i.pos = <<"path">>
         /\ requirePositionals(i, 2) <=> i.pos = <<"path", "path">>
<1>1. i.pos \in Positionals
  BY DEF Invocations
<1>2. i.pos \in Seq({"path", "empty"})
  BY <1>1, PositionalsAssumption
<1> DEFINE p == i.pos
<1>3. p \in Seq({"path", "empty"})
  BY <1>2
<1> HIDE DEF p
<1>4. ASSUME Len(p) = 1, p[1] # "empty" PROVE p = <<"path">>
  <2>1. p[1] = "path"
    BY <1>3, <1>4
  <2> QED
    BY <1>3, <1>4, <2>1
<1>5. ASSUME Len(p) = 2, p[1] # "empty", p[2] # "empty" PROVE p = <<"path", "path">>
  <2>1. p[1] = "path" /\ p[2] = "path"
    BY <1>3, <1>5, SMTT(30)
  <2> QED
    BY <1>3, <1>5, <2>1
<1>6. /\ Len(<<"path">>) = 1 /\ \A k \in 1..1 : <<"path">>[k] # "empty"
      /\ Len(<<"path", "path">>) = 2 /\ \A k \in 1..2 : <<"path", "path">>[k] # "empty"
  OBVIOUS
<1> QED
  BY <1>4, <1>5, <1>6 DEF requirePositionals, p

(* The handlers' argument checks refuse exactly the wrong shapes. *)
LEMMA DocFlags ==
  ASSUME NEW i \in Invocations, i.cmd \in (Dumps \cup {"validate"}) \ (ByRefs \cup {"object"})
  PROVE  parseDocViewFlags(i) <=> ~ShapeWrong(i)
BY Positioned DEF parseDocViewFlags, ShapeWrong, Dumps, DocViews, ByRefs

LEMMA RefFlags ==
  ASSUME NEW i \in Invocations, i.cmd \in ByRefs \cup {"object"}
  PROVE  parseByRefFlags(i) <=> ~ShapeWrong(i)
BY Positioned DEF parseByRefFlags, ShapeWrong, Dumps, DocViews, ByRefs

LEMMA RejectStarts ==
  ASSUME NEW i, NEW err, NEW c, ArgReject(i, [op |-> "reject", err |-> err, code |-> c])
  PROVE  Rejecting(i, Reject(err, c))
BY ProgOne DEF Rejecting, Reject

LEMMA UsageStarts ==
  ASSUME NEW i, ShapeWrong(i), NEW c, c = IF i.cmd \in {"validate", "diff"} THEN 2 ELSE 1
  PROVE  Rejecting(i, Reject("usage", c))
BY RejectStarts DEF ArgReject

LEMMA DumpStarts ==
  ASSUME NEW i, ~ShapeWrong(i), i.cmd \in Dumps, NEW err \in Errors
  PROVE  Rejecting(i, Reject(err, 1))
BY RejectStarts DEF ArgReject

LEMMA DumpUsage ==
  ASSUME NEW i, ShapeWrong(i), i.cmd \in Dumps
  PROVE  Rejecting(i, Reject("usage", 1))
<1>1. i.cmd \notin {"validate", "diff"}
  BY DEF Dumps, DocViews, ByRefs
<1> QED
  BY <1>1, UsageStarts

LEMMA RejectingMore ==
  ASSUME NEW i, NEW p, NEW q, Rejecting(i, p), IsProg(q)
  PROVE  Rejecting(i, p \o q)
<1>1. /\ IsProg(p \o q) /\ Len(p) \in Nat /\ Len(q) \in Nat /\ Len(p \o q) = Len(p) + Len(q)
      /\ \A k \in 1..Len(p) : (p \o q)[k] = p[k]
  BY ProgConcat DEF Rejecting
<1> DEFINE r == p \o q
<1> HIDE DEF r
<1>2. /\ IsProg(r) /\ Len(p) \in Nat /\ Len(r) >= Len(p)
      /\ \A k \in 1..Len(p) : r[k] = p[k]
  BY <1>1 DEF r
<1>3. CASE Len(p) >= 1 /\ ArgReject(i, p[1])
  <2>1. 1 \in 1..Len(p) /\ Len(r) >= 1
    BY <1>2, <1>3
  <2> QED
    BY <2>1, <1>2, <1>3 DEF Rejecting, r
<1>4. CASE /\ Len(p) >= 2 /\ ArgReject(i, p[2])
           /\ \/ p[1].op = "deprecated"
              \/ p[1].op = "open" /\ p[1].encrypted = <<>> /\ ~ShapeWrong(i) /\ i.cmd \in Dumps
  <2>1. 1 \in 1..Len(p) /\ 2 \in 1..Len(p) /\ Len(r) >= 2
    BY <1>2, <1>4
  <2> QED
    BY <2>1, <1>2, <1>4 DEF Rejecting, r
<1> QED
  BY <1>3, <1>4 DEF Rejecting

(* The steps handlers share. *)
LEMMA PreParts ==
  ASSUME NEW i
  PROVE  /\ PreProg(i, openForCLI) /\ PreProg(i, Call) /\ PreProg(i, Soft) /\ PreProg(i, MayWarn)
         /\ PreProg(i, Require("json"))
         /\ \/ i.cmd = "embedded" /\ "name" \in i.opts
            \/ i.cmd = "signatures" /\ {"cms", "certs"} \cap i.opts # {}
            => PreProg(i, Require("plain"))
<1>1. IsPre(i, openForCLI[1]) /\ IsPre(i, Call[1]) /\ IsPre(i, Soft[1]) /\ IsPre(i, MayWarn[1])
  BY DEF IsPre, IsMaybe, openForCLI, Call, Soft, MayWarn, Choose
<1>2. ASSUME NEW err, LateReject(i, [op |-> "reject", err |-> err, code |-> 2])
      PROVE  PreProg(i, Require(err))
  <2>1. IsProg(Reject(err, 2)) /\ Len(Reject(err, 2)) = 1 /\ LateReject(i, Reject(err, 2)[1])
    BY <1>2, ProgOne DEF Reject
  <2>2. IsPre(i, [op |-> "choose", alts |-> {<<>>, Reject(err, 2)}])
    BY <2>1 DEF IsPre, IsMaybe
  <2> QED
    BY <2>2, PreOne DEF Require, Choose
<1>3. PreProg(i, openForCLI) /\ PreProg(i, Call) /\ PreProg(i, Soft) /\ PreProg(i, MayWarn)
  BY <1>1, PreOne DEF openForCLI, Call, Soft, MayWarn, Choose
<1> QED
  BY <1>2, <1>3 DEF LateReject

(* The exits. *)
LEMMA ExitsEnd ==
  ASSUME NEW i
  PROVE  /\ \A c : c \in (IF i.cmd \in {"validate", "diff"} THEN {0, 1} ELSE {0}) => Ending(i, Exit(c))
         /\ \A C : C \subseteq (IF i.cmd \in {"validate", "diff"} THEN {0, 1} ELSE {0})
                     => Ending(i, Choose({Exit(c) : c \in C}))
         /\ Ending(i, MayWarn \o Exit(0))
<1>1. ASSUME NEW s, IsEnd(i, s) PROVE Ending(i, <<s>>)
  BY <1>1, ProgOne DEF Ending, IsAfter
<1>2. ASSUME NEW c, c \in (IF i.cmd \in {"validate", "diff"} THEN {0, 1} ELSE {0})
      PROVE  IsExit(i, [op |-> "exit", code |-> c])
  BY <1>2 DEF IsExit
<1>3. ASSUME NEW C, C \subseteq (IF i.cmd \in {"validate", "diff"} THEN {0, 1} ELSE {0})
      PROVE  Ending(i, Choose({Exit(c) : c \in C}))
  <2>1. ASSUME NEW c \in C PROVE IsProg(Exit(c)) /\ Len(Exit(c)) = 1 /\ IsExit(i, Exit(c)[1])
    BY <1>2, <1>3, ProgOne DEF Exit
  <2>2. ChoosesExit(i, [op |-> "choose", alts |-> {Exit(c) : c \in C}])
    BY <2>1 DEF ChoosesExit
  <2> QED
    BY <1>1, <2>2 DEF IsEnd, Choose
<1>4. Ending(i, Exit(0))
  BY <1>1, <1>2 DEF IsEnd, Exit
<1>5. Ending(i, MayWarn \o Exit(0))
  <2> DEFINE e == Exit(0)
             w == MayWarn
  <2>1. IsProg(w) /\ Len(w) = 1 /\ IsAfter(i, w[1])
    BY ProgOne DEF MayWarn, Choose, IsAfter, ChoosesWarning
  <2>2. IsProg(e) /\ Len(e) = 1 /\ IsEnd(i, e[1])
    BY <1>4, ProgOne DEF Ending, Exit
  <2> HIDE DEF e, w
  <2>3. /\ IsProg(w \o e) /\ Len(w) \in Nat /\ Len(e) \in Nat /\ Len(w \o e) = Len(w) + Len(e)
        /\ \A k \in 1..Len(w) : (w \o e)[k] = w[k]
        /\ \A k \in 1..Len(e) : (w \o e)[Len(w) + k] = e[k]
    <3>1. IsProg(w) /\ IsProg(e)
      BY <2>1, <2>2
    <3> QED
      BY <3>1, ProgConcat
  <2>4. Len(w \o e) = 2 /\ (w \o e)[1] = w[1] /\ (w \o e)[2] = e[1] /\ 1..2 = {1, 2}
    <3>1. 1 \in 1..Len(w) /\ 1 \in 1..Len(e)
      BY <2>1, <2>2
    <3> QED
      BY <3>1, <2>1, <2>2, <2>3
  <2>5. Ending(i, w \o e)
    BY <2>1, <2>2, <2>3, <2>4 DEF Ending, IsAfter
  <2> QED
    BY <2>5 DEF w, e
<1> QED
  BY <1>1, <1>2, <1>3, <1>5 DEF IsEnd, Exit

(* An answer after what is read for it. *)
LEMMA PrintsReads ==
  ASSUME NEW i, NEW payload, NEW err, NEW c,
         machineFormat(i) \/ payload = "plain", err = "json" \/ (err = "plain" /\ PlainWrite(i)),
         Ending(i, c)
  PROVE  /\ Straight(i, Prints(payload, err) \o c)
         /\ IsProg(Prints(payload, err)) /\ IsProg(c)
         /\ \A x : PreProg(i, x) => Straight(i, (x \o Prints(payload, err)) \o c)
<1>1. IsOut(i, [op |-> "emit", payload |-> payload, err |-> err])
  BY DEF IsOut
<1>2. Straight(i, Prints(payload, err) \o c)
  BY <1>1, AnswerReads DEF Prints
<1>3. IsProg(Prints(payload, err)) /\ IsProg(c)
  BY ProgOne DEF Prints, Ending
<1>4. ASSUME NEW x, PreProg(i, x) PROVE Straight(i, (x \o Prints(payload, err)) \o c)
  <2>1. Straight(i, x \o (Prints(payload, err) \o c))
    BY <1>2, <1>4, PreReading
  <2>2. IsProg(x)
    BY <1>4 DEF PreProg
  <2>3. (x \o Prints(payload, err)) \o c = x \o (Prints(payload, err) \o c)
    BY <2>2, <1>3, ProgAssoc
  <2> QED
    BY <2>1, <2>3
<1> QED
  BY <1>2, <1>3, <1>4

LEMMA JsonOrPlainReads ==
  ASSUME NEW i
  PROVE  /\ Straight(i, JsonOrPlain(i)) /\ IsProg(JsonOrPlain(i))
         /\ \A x : PreProg(i, x) => Reading(i, x \o JsonOrPlain(i))
<1>1. machineFormat(i) \/ (IF Json(i) THEN "json" ELSE "plain") = "plain"
  BY DEF machineFormat, Json
<1>2. Ending(i, Exit(0))
  BY ExitsEnd
<1>3. Straight(i, JsonOrPlain(i))
  BY <1>1, <1>2, PrintsReads DEF JsonOrPlain
<1> QED
  BY <1>3, PreReading, StraightReads DEF Straight
-----------------------------------------------------------------------------
(* The handlers: the arguments they refuse, and the programs they run.     *)

(* dump xref, objects, structure, images, metadata. *)
LEMMA DocViewStarts ==
  ASSUME NEW i \in Invocations, i.cmd \in Dumps \ (ByRefs \cup {"object"})
  PROVE  Dispatched(i, DocView(i))
<1>1. CASE parseDocViewFlags(i)
  <2>1. PreProg(i, openForCLI \o Call)
    BY PreParts, PreConcat
  <2> QED
    BY <1>1, <2>1, DocFlags, JsonOrPlainReads DEF DocView, Dispatched
<1>2. CASE ~parseDocViewFlags(i)
  BY <1>2, DocFlags, DumpUsage DEF DocView, Dispatched
<1> QED
  BY <1>1, <1>2

(* What the handlers of --ref run once the arguments are in order. *)
LEMMA ByRefStarts ==
  ASSUME NEW i, ~ShapeWrong(i), i.cmd \in Dumps, NEW p, Straight(i, p)
  PROVE  Dispatched(i, openByRef(i) \o p)
<1>1. CASE i.ref = "malformed"
  BY <1>1, DumpStarts, RejectingMore DEF openByRef, Dispatched, Straight, Errors
<1>2. CASE i.ref # "malformed"
  <2>1. PreProg(i, openForCLI)
    BY PreParts
  <2> QED
    BY <1>2, <2>1, PreReading, StraightReads DEF openByRef, Dispatched
<1> QED
  BY <1>1, <1>2

LEMMA OpenByRefProg == ASSUME NEW i PROVE IsProg(openByRef(i))
BY ProgOne, PreParts DEF openByRef, Reject, PreProg

(* The same, called before it answers in one of two forms. *)
LEMMA ByRefAnswers ==
  ASSUME NEW i, ~ShapeWrong(i), i.cmd \in Dumps, NEW p, Straight(i, p)
  PROVE  Dispatched(i, openByRef(i) \o Call \o p)
<1>1. PreProg(i, Call)
  BY PreParts
<1>2. Straight(i, Call \o p)
  BY <1>1, PreReading
<1>3. (openByRef(i) \o Call) \o p = openByRef(i) \o (Call \o p)
  <2>1. IsProg(Call) /\ IsProg(p)
    BY <1>1 DEF PreProg, Straight
  <2> QED
    BY <2>1, OpenByRefProg, ProgAssoc
<1>4. Dispatched(i, openByRef(i) \o (Call \o p))
  BY <1>2, ByRefStarts
<1> QED
  BY <1>3, <1>4

(* dump font, reverserefs, image. *)
LEMMA RefViewStarts ==
  ASSUME NEW i \in Invocations, i.cmd \in ByRefs
  PROVE  Dispatched(i, RefView(i)) /\ Dispatched(i, runImageDump(i))
<1>1. i.cmd \in Dumps
  BY DEF Dumps
<1>2. CASE parseByRefFlags(i)
  BY <1>1, <1>2, RefFlags, ByRefAnswers, JsonOrPlainReads DEF RefView, runImageDump
<1>3. CASE ~parseByRefFlags(i)
  BY <1>1, <1>3, RefFlags, DumpUsage DEF RefView, runImageDump, Dispatched
<1> QED
  BY <1>2, <1>3

LEMMA SourceStarts ==
  ASSUME NEW i \in Invocations, i.cmd = "source"
  PROVE  Dispatched(i, runSourceDump(i))
<1>1. i.cmd \in Dumps /\ i.cmd \in ByRefs
  BY DEF Dumps, ByRefs
<1>2. CASE ~parseByRefFlags(i)
  BY <1>1, <1>2, RefFlags, DumpUsage DEF runSourceDump, Dispatched
<1>3. CASE parseByRefFlags(i) /\ {"raw", "json"} \subseteq i.fmt
  BY <1>1, <1>3, RefFlags, DumpStarts DEF runSourceDump, Dispatched, Errors
<1>4. CASE parseByRefFlags(i) /\ ~({"raw", "json"} \subseteq i.fmt)
  <2> DEFINE p == IF "raw" \in i.fmt THEN Prints("raw", "plain")
                  ELSE IF Json(i) THEN Prints("json", "json")
                  ELSE Prints("plain", "plain")
  <2>1. ~ShapeWrong(i)
    BY <1>1, <1>4, RefFlags
  <2>2. Ending(i, Exit(0))
    BY ExitsEnd
  <2>3. Straight(i, p \o Exit(0)) /\ IsProg(p) /\ IsProg(Exit(0))
    <3>1. CASE "raw" \in i.fmt
      <4>1. machineFormat(i) /\ PlainWrite(i) /\ p = Prints("raw", "plain")
        BY <3>1, <1>4 DEF machineFormat, PlainWrite, Json
      <4> QED
        BY <4>1, <2>2, PrintsReads
    <3>2. CASE "raw" \notin i.fmt /\ Json(i)
      <4>1. machineFormat(i) /\ p = Prints("json", "json")
        BY <3>2 DEF machineFormat, Json
      <4> QED
        BY <4>1, <2>2, PrintsReads
    <3>3. CASE "raw" \notin i.fmt /\ ~Json(i)
      <4>1. PlainWrite(i) /\ p = Prints("plain", "plain")
        BY <3>3, <1>1 DEF PlainWrite
      <4> QED
        BY <4>1, <2>2, PrintsReads
    <3> QED
      BY <3>1, <3>2, <3>3
  <2> HIDE DEF p
  <2>4. Dispatched(i, openByRef(i) \o Call \o (p \o Exit(0)))
    BY <1>1, <2>1, <2>3, ByRefAnswers
  <2>5. ((openByRef(i) \o Call) \o p) \o Exit(0) = (openByRef(i) \o Call) \o (p \o Exit(0))
    <3>1. IsProg(openByRef(i) \o Call)
      <4>1. IsProg(Call) /\ IsProg(openByRef(i))
        BY OpenByRefProg, ProgOne DEF Call
      <4> QED
        BY <4>1, ProgConcat
    <3> QED
      BY <3>1, <2>3, ProgAssoc
  <2> QED
    BY <1>4, <2>4, <2>5 DEF runSourceDump, p
<1> QED
  BY <1>2, <1>3, <1>4

LEMMA PagesStarts ==
  ASSUME NEW i \in Invocations, i.cmd = "pages"
  PROVE  Dispatched(i, runPagesDump(i))
<1>1. i.cmd \in Dumps \ (ByRefs \cup {"object"})
  BY DEF Dumps, ByRefs, DocViews
<1>2. CASE ~parseDocViewFlags(i)
  BY <1>1, <1>2, DocFlags, DumpUsage DEF runPagesDump, Dispatched
<1>3. CASE parseDocViewFlags(i)
  <2> DEFINE x == openForCLI \o Call
             p == Prints(IF Json(i) THEN "json" ELSE "plain", "json")
  <2>1. PreProg(i, x)
    BY PreParts, PreConcat
  <2>2. Ending(i, MayWarn \o Exit(0))
    BY ExitsEnd
  <2>3. Straight(i, (x \o p) \o (MayWarn \o Exit(0))) /\ IsProg(p)
    <3>1. machineFormat(i) \/ (IF Json(i) THEN "json" ELSE "plain") = "plain"
      BY DEF machineFormat, Json
    <3> QED
      BY <3>1, <2>1, <2>2, PrintsReads
  <2>4. IsProg(x \o p) /\ IsProg(MayWarn) /\ IsProg(Exit(0))
    <3>1. IsProg(x)
      BY <2>1 DEF PreProg
    <3>2. IsProg(x \o p)
      BY <3>1, <2>3, ProgConcat
    <3> QED
      BY <3>2, ProgOne DEF MayWarn, Choose, Exit
  <2> HIDE DEF x, p
  <2>5. ((x \o p) \o MayWarn) \o Exit(0) = (x \o p) \o (MayWarn \o Exit(0))
    BY <2>4, ProgAssoc
  <2>6. Reading(i, ((x \o p) \o MayWarn) \o Exit(0))
    BY <2>3, <2>5, StraightReads
  <2> QED
    BY <1>1, <1>3, <2>6, DocFlags DEF runPagesDump, Dispatched, x, p
<1> QED
  BY <1>2, <1>3

LEMMA BytesStarts ==
  ASSUME NEW i \in Invocations, i.cmd \in {"bytes", "plaintext"}
  PROVE  /\ ShapeWrong(i) => runBytesDump(i) = Reject("usage", 1)
         /\ ~ShapeWrong(i) => Reading(i, runBytesDump(i))
<1>1. i.cmd \in Dumps \ (ByRefs \cup {"object"})
  BY DEF Dumps, ByRefs, DocViews
<1>2. parseDocViewFlags(i) <=> ~ShapeWrong(i)
  BY <1>1, DocFlags
<1>3. PreProg(i, openForCLI \o Call)
  BY PreParts, PreConcat
<1>4. CASE Json(i)
  BY <1>2, <1>3, <1>4, JsonOrPlainReads DEF runBytesDump
<1>5. CASE ~Json(i)
  <2>1. Ending(i, Exit(0)) /\ machineFormat(i) /\ PlainWrite(i)
    BY <1>5, ExitsEnd DEF machineFormat, PlainWrite
  <2>2. Straight(i, ((openForCLI \o Call) \o Prints("raw", "plain")) \o Exit(0))
    BY <1>3, <2>1, PrintsReads
  <2> QED
    BY <1>2, <1>5, <2>2, StraightReads DEF runBytesDump
<1> QED
  BY <1>4, <1>5

LEMMA PlaintextStarts ==
  ASSUME NEW i \in Invocations, i.cmd = "plaintext"
  PROVE  Dispatched(i, <<[op |-> "deprecated"]>> \o runBytesDump(i))
<1>1. i.cmd \in Dumps
  BY DEF Dumps, DocViews
<1> DEFINE d == [op |-> "deprecated"]
<1>2. CASE ~ShapeWrong(i)
  <2>1. PreProg(i, <<d>>)
    BY PreOne DEF IsPre
  <2> QED
    BY <1>2, <2>1, BytesStarts, PreReading DEF Dispatched
<1>3. CASE ShapeWrong(i)
  <2> DEFINE r == [op |-> "reject", err |-> "usage", code |-> 1]
             p == <<d>> \o <<r>>
  <2>1. runBytesDump(i) = <<r>> /\ ArgReject(i, r)
    BY <1>1, <1>3, BytesStarts DEF Reject, ArgReject
  <2>2. p \in Seq({d, r}) /\ Len(p) = 2 /\ p[1] = d /\ p[2] = r
    OBVIOUS
  <2>3. d.op = "deprecated"
    OBVIOUS
  <2> HIDE DEF p, d, r
  <2>4. Rejecting(i, p)
    BY <2>1, <2>2, <2>3, ProgIn DEF Rejecting
  <2> QED
    BY <2>1, <2>4 DEF Dispatched, p, d
<1> QED
  BY <1>2, <1>3

LEMMA TreeStarts ==
  ASSUME NEW i \in Invocations, i.cmd = "tree"
  PROVE  Dispatched(i, runTreeDump(i))
<1>1. i.cmd \in Dumps \ (ByRefs \cup {"object"})
  BY DEF Dumps, ByRefs, DocViews
<1>2. CASE ~parseDocViewFlags(i)
  BY <1>1, <1>2, DocFlags, DumpUsage DEF runTreeDump, Dispatched
<1>3. CASE parseDocViewFlags(i) /\ ({"badDepth", "badResolveDepth"} \cap i.opts # {} \/ i.page = "low")
  BY <1>1, <1>3, DocFlags, DumpStarts DEF runTreeDump, Dispatched, Errors
<1>4. CASE parseDocViewFlags(i) /\ ~({"badDepth", "badResolveDepth"} \cap i.opts # {} \/ i.page = "low")
  <2>1. PreProg(i, IF "resolve" \in i.opts THEN Soft ELSE <<>>)
    BY PreParts, PreNone
  <2>2. PreProg(i, openForCLI \o Call)
    BY PreParts, PreConcat
  <2>3. PreProg(i, openForCLI \o Call \o (IF "resolve" \in i.opts THEN Soft ELSE <<>>))
    BY <2>1, <2>2, PreConcat
  <2> QED
    BY <1>1, <1>4, <2>3, DocFlags, JsonOrPlainReads DEF runTreeDump, Dispatched
<1> QED
  BY <1>2, <1>3, <1>4

LEMMA ObjectStarts ==
  ASSUME NEW i \in Invocations, i.cmd = "object"
  PROVE  Dispatched(i, runObjectDump(i))
<1>1. i.cmd \in Dumps /\ i.cmd \in ByRefs \cup {"object"}
  BY DEF Dumps
<1>2. CASE ~parseByRefFlags(i)
  BY <1>1, <1>2, RefFlags, DumpUsage DEF runObjectDump, Dispatched
<1>3. CASE parseByRefFlags(i) /\ ("badResolveDepth" \in i.opts \/ i.ref = "malformed")
  BY <1>1, <1>3, RefFlags, DumpStarts DEF runObjectDump, Dispatched, Errors
<1>4. CASE parseByRefFlags(i) /\ ~("badResolveDepth" \in i.opts \/ i.ref = "malformed")
  <2>1. PreProg(i, IF "resolve" \in i.opts THEN Soft ELSE <<>>)
    BY PreParts, PreNone
  <2>2. PreProg(i, openForCLI \o Call)
    BY PreParts, PreConcat
  <2>3. PreProg(i, openForCLI \o Call \o Require("json"))
    BY <2>2, PreParts, PreConcat
  <2>4. PreProg(i, openForCLI \o Call \o Require("json") \o (IF "resolve" \in i.opts THEN Soft ELSE <<>>))
    BY <2>1, <2>3, PreConcat
  <2> QED
    BY <1>1, <1>4, <2>4, RefFlags, JsonOrPlainReads DEF runObjectDump, Dispatched
<1> QED
  BY <1>2, <1>3, <1>4

LEMMA PageStarts ==
  ASSUME NEW i \in Invocations, i.cmd = "page"
  PROVE  Dispatched(i, runPageDump(i))
<1>1. i.cmd \in Dumps \ (ByRefs \cup {"object"})
  BY DEF Dumps, ByRefs, DocViews
<1>2. CASE ~parseDocViewFlags(i)
  BY <1>1, <1>2, DocFlags, DumpUsage DEF runPageDump, Dispatched
<1>3. CASE parseDocViewFlags(i) /\ (i.page # "page" \/ {"badSection", "badFormsDepth"} \cap i.opts # {})
  BY <1>1, <1>3, DocFlags, DumpStarts DEF runPageDump, Dispatched, Errors
<1>4. CASE parseDocViewFlags(i) /\ ~(i.page # "page" \/ {"badSection", "badFormsDepth"} \cap i.opts # {})
  <2>1. PreProg(i, openForCLI \o Require("json"))
    BY PreParts, PreConcat
  <2>2. PreProg(i, openForCLI \o Require("json") \o Call)
    BY <2>1, PreParts, PreConcat
  <2> QED
    BY <1>1, <1>4, <2>2, DocFlags, JsonOrPlainReads DEF runPageDump, Dispatched
<1> QED
  BY <1>2, <1>3, <1>4
LEMMA EmbeddedStarts ==
  ASSUME NEW i \in Invocations, i.cmd = "embedded"
  PROVE  Dispatched(i, runEmbeddedDump(i))
<1>1. i.cmd \in Dumps \ (ByRefs \cup {"object"})
  BY DEF Dumps, ByRefs, DocViews
<1>2. CASE ~parseDocViewFlags(i)
  BY <1>1, <1>2, DocFlags, DumpUsage DEF runEmbeddedDump, Dispatched
<1>3. CASE parseDocViewFlags(i)
  <2>1. ~ShapeWrong(i)
    BY <1>1, <1>3, DocFlags
  <2>2. i.ref # "absent" \/ "name" \in i.opts => Straight(i, emitEmbeddedBytes)
    BY <1>1, ExitsEnd, PreParts, PrintsReads DEF machineFormat, emitEmbeddedBytes
  <2>3. CASE i.ref # "absent" /\ "name" \in i.opts
    BY <1>1, <1>3, <2>1, <2>3, DumpStarts DEF runEmbeddedDump, Dispatched, Errors
  <2>4. CASE i.ref # "absent" /\ "name" \notin i.opts
    BY <1>1, <1>3, <2>1, <2>2, <2>4, ByRefStarts DEF runEmbeddedDump, execEmbeddedExtractByRef
  <2>5. CASE i.ref = "absent" /\ "name" \in i.opts
    <3>1. PreProg(i, openForCLI \o Call) /\ PreProg(i, Require("plain"))
      BY <2>5, PreParts, PreConcat
    <3>2. PreProg(i, openForCLI \o Call \o Require("plain"))
      BY <3>1, PreConcat
    <3>3. Reading(i, execEmbeddedExtractByName)
      BY <2>2, <2>5, <3>2, PreReading, StraightReads DEF execEmbeddedExtractByName
    <3> QED
      BY <1>3, <2>1, <2>5, <3>3 DEF runEmbeddedDump, Dispatched
  <2>6. CASE i.ref = "absent" /\ "name" \notin i.opts
    <3>1. PreProg(i, openForCLI \o Call)
      BY PreParts, PreConcat
    <3> QED
      BY <1>3, <2>1, <2>6, <3>1, JsonOrPlainReads DEF runEmbeddedDump, execEmbeddedList, Dispatched
  <2> QED
    BY <2>3, <2>4, <2>5, <2>6
<1> QED
  BY <1>2, <1>3

LEMMA SignaturesStarts ==
  ASSUME NEW i \in Invocations, i.cmd = "signatures"
  PROVE  Dispatched(i, runSignaturesDump(i))
<1>1. i.cmd \in Dumps \ (ByRefs \cup {"object"})
  BY DEF Dumps, ByRefs, DocViews
<1>2. CASE ~parseDocViewFlags(i)
  BY <1>1, <1>2, DocFlags, DumpUsage DEF runSignaturesDump, Dispatched
<1>3. CASE parseDocViewFlags(i) /\ ~SignatureFlagsOK(i)
  BY <1>1, <1>3, DocFlags, DumpStarts DEF runSignaturesDump, Dispatched, Errors
<1>4. PreProg(i, openForCLI \o Call)
  BY PreParts, PreConcat
<1>5. CASE parseDocViewFlags(i) /\ SignatureFlagsOK(i) /\ {"cms", "certs"} \cap i.opts = {}
  BY <1>1, <1>4, <1>5, DocFlags, JsonOrPlainReads
     DEF runSignaturesDump, execSignaturesDump, printSignatures, Dispatched
<1>6. CASE parseDocViewFlags(i) /\ SignatureFlagsOK(i) /\ {"cms", "certs"} \cap i.opts # {}
  <2> DEFINE certs == IF "certs" \in i.opts THEN Require("json") ELSE <<>>
             cms == IF "cms" \in i.opts THEN Require("json") \o MayWarn ELSE <<>>
             plain == Require("plain")
  <2>1. PreProg(i, certs) /\ PreProg(i, cms) /\ PreProg(i, plain)
    <3>1. PreProg(i, Require("json") \o MayWarn)
      BY PreParts, PreConcat
    <3> QED
      BY <1>6, <3>1, PreParts, PreNone
  <2>2. runSignatureExports(i) = plain \o certs \o plain \o cms \o certs
    BY DEF runSignatureExports
  <2> HIDE DEF certs, cms, plain
  <2>3. PreProg(i, plain \o certs)
    BY <2>1, PreConcat
  <2>4. PreProg(i, plain \o certs \o plain)
    BY <2>1, <2>3, PreConcat
  <2>5. PreProg(i, plain \o certs \o plain \o cms)
    BY <2>1, <2>4, PreConcat
  <2>6. PreProg(i, plain \o certs \o plain \o cms \o certs)
    BY <2>1, <2>5, PreConcat
  <2>7. PreProg(i, openForCLI \o Call \o runSignatureExports(i))
    BY <1>4, <2>2, <2>6, PreConcat
  <2> QED
    BY <1>1, <1>6, <2>7, DocFlags, JsonOrPlainReads
       DEF runSignaturesDump, execSignaturesExport, printSignatures, Dispatched
<1> QED
  BY <1>2, <1>3, <1>5, <1>6

(* validate: the verdict of an encrypted file is given without a call. *)
LEMMA ValidateStarts ==
  ASSUME NEW i \in Invocations, i.cmd = "validate"
  PROVE  Dispatched(i, runValidate(i))
<1>1. i.cmd \in (Dumps \cup {"validate"}) \ (ByRefs \cup {"object"})
  BY DEF Dumps, ByRefs, DocViews
<1>2. CASE ~parseDocViewFlags(i)
  BY <1>1, <1>2, DocFlags, UsageStarts DEF runValidate, Dispatched
<1>3. CASE parseDocViewFlags(i) /\ "badProfile" \in i.opts
  BY <1>1, <1>3, DocFlags, RejectStarts DEF runValidate, Dispatched, ArgReject
<1>4. CASE parseDocViewFlags(i) /\ "badProfile" \notin i.opts
  <2>1. ASSUME NEW V, V \subseteq {0, 1}
        PROVE  LET p == renderValidate(i, V)
               IN  IsProg(p) /\ Len(p) >= 1 /\ EndsAt(i, p, 1) /\ Straight(i, p)
    <3>1. Ending(i, Choose({Exit(c) : c \in V}))
      BY <2>1, ExitsEnd
    <3>2. machineFormat(i) \/ (IF Json(i) THEN "json" ELSE "plain") = "plain"
      BY DEF machineFormat, Json
    <3>3. IsOut(i, [op |-> "emit", payload |-> IF Json(i) THEN "json" ELSE "plain", err |-> "json"])
      BY <3>2 DEF IsOut
    <3> DEFINE p == renderValidate(i, V)
    <3>4. IsProg(p) /\ Len(p) >= 2 /\ EndsAt(i, p, 1) /\ Straight(i, p)
      BY <3>1, <3>3, AnswerReads DEF renderValidate, Prints
    <3> HIDE DEF p
    <3>5. Len(p) >= 1
      BY <3>4 DEF IsProg
    <3> QED
      BY <3>4, <3>5 DEF p
  <2> DEFINE e == IF "pdfua" \in i.opts THEN handleOpenError ELSE renderValidate(i, {1})
  <2>2. IsProg(e) /\ Len(e) >= 1 /\ EndsAt(i, e, 1)
    <3>1. CASE "pdfua" \in i.opts
      <4>1. IsProg(handleOpenError) /\ Len(handleOpenError) = 1 /\ LateReject(i, handleOpenError[1])
        BY ProgOne DEF handleOpenError, Reject, LateReject
      <4> QED
        BY <3>1, <4>1, SMTT(30) DEF EndsAt
    <3>2. CASE "pdfua" \notin i.opts
      BY <2>1, <3>2
    <3> QED
      BY <3>1, <3>2
  <2> HIDE DEF e
  <2>3. PreProg(i, OpenQuietly(e))
    BY <2>2, PreOne DEF OpenQuietly, IsPre
  <2>4. PreProg(i, OpenQuietly(e) \o Call)
    BY <2>3, PreParts, PreConcat
  <2>5. Straight(i, renderValidate(i, {0, 1}))
    BY <2>1
  <2>6. Reading(i, OpenQuietly(e) \o Call \o renderValidate(i, {0, 1}))
    BY <2>4, <2>5, PreReading, StraightReads
  <2> QED
    BY <1>1, <1>4, <2>6, DocFlags DEF runValidate, execValidate, Dispatched, e
<1> QED
  BY <1>2, <1>3, <1>4

LEMMA DiffStarts ==
  ASSUME NEW i \in Invocations, i.cmd = "diff"
  PROVE  Dispatched(i, runDiff(i))
<1>1. (i.parsed /\ requirePositionals(i, 2)) <=> ~ShapeWrong(i)
  BY Positioned DEF ShapeWrong, Dumps, DocViews, ByRefs
<1>2. CASE ShapeWrong(i)
  BY <1>1, <1>2, UsageStarts DEF runDiff, Dispatched
<1>3. CASE ~ShapeWrong(i)
  <2> DEFINE q == OpenQuietly(handleOpenError)
             p == IF Json(i) THEN "json" ELSE "plain"
             c == Choose({Exit(0), Exit(1)})
  <2>1. PreProg(i, q)
    <3>1. IsProg(handleOpenError) /\ Len(handleOpenError) = 1 /\ LateReject(i, handleOpenError[1])
      BY ProgOne DEF handleOpenError, Reject, LateReject
    <3>2. EndsAt(i, handleOpenError, 1) /\ Len(handleOpenError) >= 1
      BY <3>1 DEF EndsAt
    <3> QED
      BY <3>1, <3>2, PreOne DEF OpenQuietly, IsPre
  <2>2. PreProg(i, q \o q)
    BY <2>1, PreConcat
  <2>3. PreProg(i, q \o q \o Call)
    BY <2>2, PreParts, PreConcat
  <2>4. Ending(i, c)
    <3>1. c = Choose({Exit(x) : x \in {0, 1}})
      BY DEF Choose
    <3> QED
      BY <3>1, ExitsEnd
  <2>5. machineFormat(i) \/ p = "plain"
    BY DEF machineFormat, Json
  <2> HIDE DEF q, p, c
  <2>6. Reading(i, ((q \o q \o Call) \o Prints(p, "json")) \o c)
    BY <2>3, <2>4, <2>5, PrintsReads, StraightReads
  <2> QED
    BY <1>1, <1>3, <2>6 DEF runDiff, execDiff, Dispatched, q, p, c
<1> QED
  BY <1>2, <1>3
(* The stream forms exclude each other. *)
LEMMA OneForm ==
  ASSUME NEW i \in Invocations, i.cmd = "stream", StreamFlagsOK(i)
  PROVE  \A f \in {"raw", "ops"} : f \in i.fmt => ~Json(i)
<1> SUFFICES ASSUME NEW f \in {"raw", "ops"}, f \in i.fmt, Json(i) PROVE FALSE
  OBVIOUS
<1>1. i.fmt \subseteq {"json", "raw", "ops"}
  BY DEF Invocations, Formats
<1>2. IsFiniteSet({"json", "raw", "ops"})
  <2>1. IsFiniteSet({"json"} \cup {"raw"})
    BY FS_Singleton, FS_AddElement
  <2>2. IsFiniteSet({"json"} \cup {"raw"} \cup {"ops"})
    BY <2>1, FS_AddElement
  <2>3. {"json"} \cup {"raw"} \cup {"ops"} = {"json", "raw", "ops"}
    OBVIOUS
  <2> QED
    BY <2>2, <2>3
<1>3. IsFiniteSet(i.fmt)
  BY <1>1, <1>2, FS_Subset
<1>4. IsFiniteSet({f}) /\ Cardinality({f}) = 1
  BY FS_Singleton
<1>5. Cardinality({f} \cup {"json"}) = 2
  BY <1>4, FS_AddElement
<1>6. {f} \cup {"json"} \subseteq i.fmt
  BY DEF Json
<1>7. Cardinality({f} \cup {"json"}) <= Cardinality(i.fmt)
  BY <1>3, <1>6, FS_Subset
<1>8. Cardinality(i.fmt) \in Nat
  BY <1>3, FS_CardinalityType
<1> QED
  BY <1>5, <1>7, <1>8 DEF StreamFlagsOK

(* What dump stream does with the stream it found. *)
LEMMA StreamForks ==
  ASSUME NEW i \in Invocations, i.cmd = "stream", StreamFlagsOK(i)
  PROVE  /\ Straight(i, Require("json") \o (IF "raw" \in i.fmt THEN Prints("raw", "plain") \o Exit(0)
                                           ELSE IF "ops" \in i.fmt THEN emitOps(i) ELSE JsonOrPlain(i)))
         /\ Straight(i, writeNoContentStream(i))
<1>1. PreProg(i, Require("json")) /\ Ending(i, Exit(0))
  BY PreParts, ExitsEnd
<1>2. \A f \in {"raw", "ops"} : f \in i.fmt => machineFormat(i) /\ PlainWrite(i)
  BY OneForm DEF machineFormat, PlainWrite
<1>3. "ops" \in i.fmt => Straight(i, emitOps(i))
  <2>1. PreProg(i, IF PageMode(i) THEN Soft ELSE <<>>)
    BY PreParts, PreNone
  <2> QED
    BY <1>1, <1>2, <2>1, PrintsReads DEF emitOps
<1>4. "raw" \in i.fmt => Straight(i, Prints("raw", "plain") \o Exit(0))
  BY <1>1, <1>2, PrintsReads
<1>5. Straight(i, IF "raw" \in i.fmt THEN Prints("raw", "plain") \o Exit(0)
                  ELSE IF "ops" \in i.fmt THEN emitOps(i) ELSE JsonOrPlain(i))
  BY <1>3, <1>4, JsonOrPlainReads
<1>6. Straight(i, writeNoContentStream(i))
  <2>1. CASE "ops" \in i.fmt
    <3>1. IsOut(i, [op |-> "note"])
      BY DEF IsOut, Dumps
    <3> QED
      BY <1>1, <2>1, <3>1, AnswerReads DEF writeNoContentStream
  <2>2. CASE "ops" \notin i.fmt /\ Json(i)
    <3>1. machineFormat(i)
      BY <2>2 DEF machineFormat, Json
    <3> QED
      BY <1>1, <2>2, <3>1, PrintsReads DEF writeNoContentStream
  <2>3. CASE "ops" \notin i.fmt /\ ~Json(i)
    <3>1. /\ machineFormat(i) \/ (IF "raw" \in i.fmt THEN "raw" ELSE "plain") = "plain"
          /\ PlainWrite(i)
      BY <2>3 DEF machineFormat, PlainWrite
    <3> QED
      BY <1>1, <2>3, <3>1, PrintsReads DEF writeNoContentStream
  <2> QED
    BY <2>1, <2>2, <2>3
<1> QED
  BY <1>1, <1>5, <1>6, PreReading

LEMMA StreamStarts ==
  ASSUME NEW i \in Invocations, i.cmd = "stream"
  PROVE  Dispatched(i, runStreamDump(i))
<1>1. i.cmd \in Dumps \ (ByRefs \cup {"object"})
  BY DEF Dumps, ByRefs, DocViews
<1>2. CASE ~parseDocViewFlags(i)
  BY <1>1, <1>2, DocFlags, DumpUsage DEF runStreamDump, Dispatched
<1>3. CASE parseDocViewFlags(i) /\ ~StreamFlagsOK(i)
  BY <1>1, <1>3, DocFlags, DumpStarts DEF runStreamDump, Dispatched, Errors
<1>4. CASE parseDocViewFlags(i) /\ StreamFlagsOK(i)
  <2>1. ~ShapeWrong(i)
    BY <1>1, <1>4, DocFlags
  <2> DEFINE found == Require("json") \o (IF "raw" \in i.fmt THEN Prints("raw", "plain") \o Exit(0)
                                         ELSE IF "ops" \in i.fmt THEN emitOps(i) ELSE JsonOrPlain(i))
             alts == {found} \cup IF PageMode(i) THEN {writeNoContentStream(i)} ELSE {}
             r == resolveStreamNode(i)
  <2>2. execStreamDump(i) = ((openForCLI \o r) \o Call) \o Choose(alts)
    BY DEF execStreamDump
  <2>3. IsFork(i, [op |-> "choose", alts |-> alts])
    <3>1. \A q \in alts : Straight(i, q)
      BY <1>4, StreamForks
    <3> HIDE DEF alts
    <3> QED
      BY <3>1 DEF IsFork
  <2> HIDE DEF found, alts
  <2>4. IsProg(Choose(alts)) /\ Len(Choose(alts)) = 1 /\ IsFork(i, Choose(alts)[1])
    BY <2>3, ProgOne DEF Choose
  <2>5. CASE i.ref = "malformed"
    <3> DEFINE o == [op |-> "open", warns |-> TRUE, encrypted |-> <<>>]
               e == [op |-> "reject", err |-> "json", code |-> 1]
               p == <<o>> \o <<e>>
    <3>1. openForCLI = <<o>> /\ r = <<e>> /\ ArgReject(i, e)
      BY <1>1, <2>1, <2>5 DEF openForCLI, resolveStreamNode, Reject, ArgReject, Errors
    <3>2. p \in Seq({o, e}) /\ Len(p) = 2 /\ p[1] = o /\ p[2] = e
      OBVIOUS
    <3>3. o.op = "open" /\ o.encrypted = <<>>
      OBVIOUS
    <3> HIDE DEF p, o, e
    <3>4. Rejecting(i, p)
      BY <1>1, <2>1, <3>1, <3>2, <3>3, ProgIn DEF Rejecting
    <3>5. IsProg(Call)
      BY ProgOne DEF Call
    <3>6. Rejecting(i, p \o Call)
      BY <3>4, <3>5, RejectingMore
    <3>7. Rejecting(i, (p \o Call) \o Choose(alts))
      BY <3>6, <2>4, RejectingMore
    <3>8. openForCLI \o r = p
      BY <3>1 DEF p
    <3> QED
      BY <1>4, <2>2, <3>7, <3>8 DEF runStreamDump, Dispatched
  <2>6. CASE i.ref # "malformed"
    <3>1. PreProg(i, r)
      <4>1. PreProg(i, IF i.page = "page" THEN Require("json") \o Call ELSE <<>>)
        BY PreParts, PreNone, PreConcat
      <4>2. PreProg(i, (IF i.page = "page" THEN Require("json") \o Call ELSE <<>>) \o Call)
        BY <4>1, PreParts, PreConcat
      <4>3. PreProg(i, (IF i.page = "page" THEN Require("json") \o Call ELSE <<>>) \o Call
                       \o Require("json"))
        BY <4>2, PreParts, PreConcat
      <4> QED
        BY <2>6, <4>3, PreParts, PreNone DEF resolveStreamNode
    <3> HIDE DEF r
    <3>2. PreProg(i, openForCLI \o r)
      BY <3>1, PreParts, PreConcat
    <3>3. PreProg(i, (openForCLI \o r) \o Call)
      BY <3>2, PreParts, PreConcat
    <3>4. Reading(i, Choose(alts))
      <4>1. 1 \in 1..Len(Choose(alts)) /\ 1..1 - 1 = {}
        BY <2>4
      <4> QED
        BY <2>4, <4>1 DEF Reading
    <3>5. Reading(i, ((openForCLI \o r) \o Call) \o Choose(alts))
      BY <3>3, <3>4, PreReading
    <3> QED
      BY <1>4, <2>1, <2>2, <3>5 DEF runStreamDump, Dispatched
  <2> QED
    BY <2>5, <2>6
<1> QED
  BY <1>2, <1>3, <1>4

LEMMA HelpStarts ==
  ASSUME NEW i, i.cmd = "help"
  PROVE  Dispatched(i, <<[op |-> "help"]>> \o Exit(0))
<1>1. ~ShapeWrong(i)
  BY DEF ShapeWrong, Dumps, DocViews, ByRefs
<1>2. IsOut(i, [op |-> "help"]) /\ Ending(i, Exit(0))
  BY ExitsEnd DEF IsOut
<1> QED
  BY <1>1, <1>2, AnswerReads, StraightReads DEF Dispatched

(* Every command line starts a program that refuses it or reads and answers. *)
LEMMA DispatchStarts ==
  ASSUME NEW i \in Invocations
  PROVE  Dispatched(i, dispatch(i))
<1>1. i.cmd \in Commands
  BY DEF Invocations
<1>2. CASE i.cmd \in {"help", "unknown"}
  <2>1. CASE i.cmd = "unknown"
    <3>1. ShapeWrong(i)
      BY <2>1 DEF ShapeWrong
    <3> QED
      BY <2>1, <3>1, UsageStarts DEF dispatch, Dispatched
  <2> QED
    BY <1>2, <2>1, HelpStarts DEF dispatch
<1>3. CASE i.cmd \in {"validate", "diff"}
  BY <1>3, ValidateStarts, DiffStarts DEF dispatch
<1>4. CASE i.cmd \in {"xref", "objects", "structure", "images", "metadata"}
  <2>1. i.cmd \in Dumps \ (ByRefs \cup {"object"})
    BY <1>4 DEF Dumps, DocViews, ByRefs
  <2> QED
    BY <1>4, <2>1, DocViewStarts
       DEF dispatch, runXRefDump, runObjectsDump, runStructureDump, runImagesDump, runMetadataDump
<1>5. CASE i.cmd \in {"font", "image", "reverserefs"}
  <2>1. i.cmd \in ByRefs
    BY <1>5 DEF ByRefs
  <2> QED
    BY <1>5, <2>1, RefViewStarts DEF dispatch, runFontDump, runReverseRefsDump
<1>6. CASE i.cmd \in {"tree", "object", "stream", "page", "source", "pages"}
  BY <1>6, TreeStarts, ObjectStarts, StreamStarts, PageStarts, SourceStarts, PagesStarts DEF dispatch
<1>7. CASE i.cmd \in {"embedded", "signatures", "plaintext"}
  BY <1>7, EmbeddedStarts, SignaturesStarts, PlaintextStarts DEF dispatch
<1>8. CASE i.cmd = "bytes"
  <2>1. i.cmd \in Dumps
    BY <1>8 DEF Dumps, DocViews
  <2> QED
    BY <1>8, <2>1, BytesStarts, DumpUsage DEF dispatch, Dispatched
<1> QED
  BY <1>1, <1>2, <1>3, <1>4, <1>5, <1>6, <1>7, <1>8 DEF Commands, Dumps, DocViews, ByRefs

(***************************************************************************)
(* The contract.                                                           *)
(***************************************************************************)
LEMMA CliInitInv == CliInit => CliInv
<1> SUFFICES ASSUME CliInit PROVE CliInv
  OBVIOUS
<1>1. /\ inv \in Invocations /\ todo = dispatch(inv) /\ stdout.state = "empty" /\ stderr = <<>>
      /\ code = NoCode /\ reached = "args" /\ notice \in BOOLEAN
  BY DEF CliInit
<1>2. stderr \in Seq(Lines) /\ ErrorLines = {} /\ ToSet(stderr) = {}
  BY <1>1 DEF ErrorLines, ToSet
<1>3. Dispatched(inv, todo)
  BY <1>1, DispatchStarts
<1>4. StillReading
  BY <1>1, <1>2, <1>3 DEF StillReading, Dispatched, HasNote
<1>5. CliTypes
  BY <1>1, <1>2 DEF CliTypes, NoCode
<1>6. ExitContract /\ OutputIsWhole
  BY <1>1, <1>2 DEF ExitContract, OutputIsWhole
<1> QED
  BY <1>1, <1>2, <1>4, <1>5, <1>6 DEF CliInv

LEMMA CliStep == CliInv /\ [CliNext]_cliVars => CliInv'
<1> SUFFICES ASSUME CliInv, [CliNext]_cliVars PROVE CliInv'
  OBVIOUS
<1>1. CASE CliNext
  BY <1>1, RejectKeeps, OpenSucceedsKeeps, CannotOpenKeeps, OpenEncryptedKeeps, CallReturnsKeeps,
     CallFailsKeeps, PanicsKeeps, DecideKeeps, WriteSucceedsKeeps, WriteFailsKeeps, WriteLineKeeps,
     ReturnsKeeps, FinishKeeps DEF CliNext
<1>2. CASE UNCHANGED cliVars
  <2>1. UNCHANGED <<inv, todo, stdout, stderr, code, reached, notice>>
    BY <1>2 DEF cliVars
  <2> QED
    BY <2>1 DEF CliInv, CliTypes, StillReading, Responded, HasNote, ErrorLines, OneError, ExitContract,
                OutputIsWhole, Verdict
<1> QED
  BY <1>1, <1>2

(* The command-line tool, for any positional arguments: the exit code and the *)
(* error lines tell the caller what happened, and (help aside) the output is  *)
(* whole, or the note that there is none, exactly when the code is a verdict; *)
(* no update notice follows a payload a program reads.                        *)
THEOREM CliKeepsContract == CliSpec => []CliContract
<1>1. CliInv => CliContract
  BY DEF CliInv, CliContract
<1> QED
  BY <1>1, CliInitInv, CliStep, PTL DEF CliSpec
=============================================================================
