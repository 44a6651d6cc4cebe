----------------------------- MODULE RecentList -----------------------------
(***************************************************************************)
(* The contents of the Open Recent list                                    *)
(* (src/internal/recentfiles/recentfiles.go): Add and Remove look for the  *)
(* entries that name the same file on a file system that ignores letter    *)
(* case, which needs a stat of each case variant, made with the lock       *)
(* released.                                                               *)
(*                                                                         *)
(* A path is [base, sp, root, dirs]: its file name, how that is spelled,   *)
(* the root or volume it is under and the directories below that,          *)
(* outermost first.  Two paths fold together when they differ in the       *)
(* spelling only, and name one file when both exist and are the same one   *)
(* on disk.                                                                *)
(***************************************************************************)
EXTENDS Naturals, Sequences, SequencesExt, FiniteSets, Lists

CONSTANTS RecentPaths,    \* the normalised paths the program can meet
          FileAt,         \* the file each path names, "missing" when there is none
          RecentCalls,    \* the calls running at once
          StoredLists,    \* what recent.json may hold
          MaxEntries      \* 10 in the code

ASSUME RecentListAssumption ==
  /\ MaxEntries \in Nat \ {0}
  /\ RecentPaths \subseteq DOMAIN FileAt /\ StoredLists \subseteq Seq(DOMAIN FileAt)
  /\ \A p \in DOMAIN FileAt :
       /\ p = [base |-> p.base, sp |-> p.sp, root |-> p.root, dirs |-> p.dirs]
       /\ p.dirs \in Seq(ToSet(p.dirs))
  \* "/" and volumes are no names of directories.
  /\ \A p, q \in DOMAIN FileAt : p.root \notin ToSet(q.dirs)

VARIABLES listed,      \* List.paths
          calls       \* each call: its path, what it does, checked and same

rlVars == <<listed, calls>>

EqualFold(a, b) == [a EXCEPT !.sp = 0] = [b EXCEPT !.sp = 0]
sameFile(a, b) == a = b \/ (EqualFold(a, b) /\ FileAt[a] # "missing" /\ FileAt[a] = FileAt[b])

\* At most MaxEntries, the first ones.
Bounded(list) == SubSeq(list, 1, IF Len(list) > MaxEntries THEN MaxEntries ELSE Len(list))

\* Load: the stored entries, without empty ones, normalised, the first of
\* each file (sameFile is an equivalence while the disk stays), at most
\* MaxEntries.
Load(stored) ==
  Bounded(Picked(stored, {i \in DOMAIN stored : \A j \in 1..(i - 1) : ~sameFile(stored[j], stored[i])}))

RlInit ==
  /\ \E s \in StoredLists : listed = Load(s)
  /\ calls = [c \in RecentCalls |-> [at |-> "idle"]]

RlStarts(c) ==
  /\ calls[c].at = "idle"
  /\ \E p \in RecentPaths, what \in {"Add", "Remove"} :
       calls' = [calls EXCEPT ![c] = [at |-> "lock", what |-> what, path |-> p,
                                      checked |-> {p}, same |-> {p}, fresh |-> {}]]
  /\ UNCHANGED listed

without(list, drop) == Picked(list, {i \in DOMAIN list : list[i] \notin drop})

Applied(call) ==
  IF call.what = "Remove" THEN without(listed, call.same)
  ELSE Bounded(<<call.path>> \o without(listed, call.same))

FreshVariants(call) == {q \in ToSet(listed) : q \notin call.checked /\ EqualFold(q, call.path)}

\* Fault: the variants found before the stats are not looked for again once
\* the lock is back.
lockSameAsOnce(c) ==
  /\ calls[c].at = "lock"
  /\ IF FreshVariants(calls[c]) = {} \/ calls[c].checked # {calls[c].path}
     THEN /\ listed' = Applied(calls[c])
          /\ calls' = [calls EXCEPT ![c] = [at |-> "idle"]]
     ELSE /\ calls' = [calls EXCEPT ![c].at = "stat", ![c].fresh = FreshVariants(calls[c])]
          /\ UNCHANGED listed

\* lockSameAs with mu held: when no unchecked variant is listed the call goes
\* on, still under mu, to change the list; otherwise mu is released.
lockSameAs(c) ==
  /\ calls[c].at = "lock"
  /\ IF FreshVariants(calls[c]) = {}
     THEN /\ listed' = Applied(calls[c])
          /\ calls' = [calls EXCEPT ![c] = [at |-> "idle"]]
     ELSE /\ calls' = [calls EXCEPT ![c].at = "stat", ![c].fresh = FreshVariants(calls[c])]
          /\ UNCHANGED listed

\* The stats, without mu.
StatVariants(c) ==
  /\ calls[c].at = "stat"
  /\ calls' = [calls EXCEPT ![c].at = "lock", ![c].fresh = {},
                 ![c].checked = @ \cup calls[c].fresh,
                 ![c].same = @ \cup {q \in calls[c].fresh : sameFile(q, calls[c].path)}]
  /\ UNCHANGED listed

Clear == listed # <<>> /\ listed' = <<>> /\ UNCHANGED calls

RlNext ==
  \/ \E c \in RecentCalls : RlStarts(c) \/ lockSameAs(c) \/ StatVariants(c)
  \/ Clear

RlSpec == RlInit /\ [][RlNext]_rlVars

(***************************************************************************)
(* The labels of the menu.                                                 *)
(***************************************************************************)

\* The last depth directories of the parent, led by the root when the walk
\* reaches it, and whether there are directories above them.
parentSuffix(p, depth) ==
  LET n == Len(p.dirs) IN
  [dir  |-> IF depth <= n THEN SubSeq(p.dirs, n - depth + 1, n) ELSE <<p.root>> \o p.dirs,
   more |-> depth < n]

\* The depth the entries with one file name are widened to.
LabelDepth(ps, idx) ==
  LET stops(d) == \/ \A i, j \in idx : i # j => parentSuffix(ps[i], d).dir # parentSuffix(ps[j], d).dir
                  \/ \A i \in idx : ~parentSuffix(ps[i], d).more
      ds == {d \in 1..(1 + Max({Len(ps[i].dirs) : i \in idx})) : stops(d)}
  IN  Min(ds)

Labels(ps) ==
  [i \in DOMAIN ps |->
     LET base == <<ps[i].base, ps[i].sp>>
         idx  == {j \in DOMAIN ps : <<ps[j].base, ps[j].sp>> = base}
     IN  IF idx = {i} THEN base
         ELSE base \o parentSuffix(ps[i], LabelDepth(ps, idx)).dir]

\* Two entries share a label only when nothing but their volume differs.
LabelsTellApart ==
  LET labels == Labels(listed)
  IN  \A i, j \in DOMAIN listed : i # j /\ labels[i] = labels[j] =>
        listed[i].root # listed[j].root /\ [listed[i] EXCEPT !.root = listed[j].root] = listed[j]

\* However the calls interleave, no two entries name one file, the list stays
\* within its bound, and the menu tells the entries apart.
RecentListSound ==
  /\ Len(listed) <= MaxEntries
  /\ \A i, j \in DOMAIN listed : i # j => ~sameFile(listed[i], listed[j])
  /\ LabelsTellApart
=============================================================================
