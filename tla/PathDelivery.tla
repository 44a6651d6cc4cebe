---------------------------- MODULE PathDelivery ----------------------------
(***************************************************************************)
(* What the cold-start queue promises, without the queue: every path the   *)
(* operating system hands over is owed to the user, and is met by exactly  *)
(* one open.  One open may meet several arrivals of the same path (a       *)
(* double-fire during launch), never an arrival of another path, and never *)
(* none: "every queued path is delivered exactly once".                    *)
(***************************************************************************)
EXTENDS Naturals

CONSTANTS
    Arrivals,  \* the times the operating system hands over a path
    Paths,
    PathOf     \* the path of each arrival

VARIABLES
    due,       \* what became of each arrival
    opens      \* how often each path was opened

vars == <<due, opens>>

Init ==
    /\ due = [a \in Arrivals |-> "idle"]
    /\ opens = [p \in Paths |-> 0]

Arrive(a) ==
    /\ due[a] = "idle"
    /\ due' = [due EXCEPT ![a] = "owed"]
    /\ UNCHANGED opens

(* One open of p meets the arrivals in S. *)
Meet(p, S) ==
    /\ S # {}
    /\ \A a \in S : due[a] = "owed" /\ PathOf[a] = p
    /\ due' = [a \in Arrivals |-> IF a \in S THEN "met" ELSE due[a]]
    /\ opens' = [opens EXCEPT ![p] = @ + 1]

Next ==
    \/ \E a \in Arrivals : Arrive(a)
    \/ \E p \in Paths, S \in SUBSET Arrivals : Meet(p, S)

Spec == Init /\ [][Next]_vars

=============================================================================
