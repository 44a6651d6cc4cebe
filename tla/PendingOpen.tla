---------------------------- MODULE PendingOpen ----------------------------
(***************************************************************************)
(* How a file the operating system asks the app to open reaches the        *)
(* frontend: the cold-start queue (internal/pendingopen/queue.go), the     *)
(* callbacks that route a path through it or open it at once (main.go),    *)
(* and the page that subscribes, drains the queue and opens what it got    *)
(* (frontend/src/App.jsx).                                                 *)
(*                                                                         *)
(* Callbacks run on their own goroutines and each queue operation is one   *)
(* critical section.  A result is the opened document or its error: both   *)
(* reach the page the same way.  React's StrictMode mounts twice, so the   *)
(* page may drain more than once.                                          *)
(***************************************************************************)
EXTENDS Naturals, Sequences

CONSTANTS
    Arrivals,    \* paths handed over by the operating system
    Paths,
    PathOf,      \* the path of each arrival
    Drains,      \* calls of ConsumePendingOpenFiles
    MaxReloads   \* bound on reloads of the page

ASSUME ArrivalsAssumption == PathOf \in [Arrivals -> Paths]
ASSUME ReloadsAssumption  == MaxReloads \in Nat

VARIABLES
    ready,       \* Queue.ready
    paths,       \* Queue.paths
    arrival,     \* where each arrival is
    listening,   \* is the page subscribed to document:opened?
    drain,       \* where each drain call is
    batch,       \* the paths each drain returned and has not opened yet
    opens,       \* how often each path's result reached the page
    reloads

queueVars == <<ready, paths>>
pageVars  == <<listening, drain, batch>>
vars == <<queueVars, arrival, pageVars, opens, reloads>>

Listed(s)   == {s[i] : i \in DOMAIN s}
Distinct(s) == \A i, j \in DOMAIN s : s[i] = s[j] => i = j

(* The queue, the callbacks and the page keep their types, and the queue holds
   a path at most once. *)
TypeOK ==
    /\ ready \in BOOLEAN
    /\ paths \in Seq(Paths)
    /\ Distinct(paths)
    /\ arrival \in [Arrivals -> {"idle", "buffered", "opening", "emitted", "met", "lost"}]
    /\ listening \in BOOLEAN
    /\ drain \in [Drains -> {"idle", "asked", "orphan", "replied"}]
    /\ batch \in [Drains -> Seq(Paths)]
    /\ opens \in [Paths -> Nat]
    /\ reloads \in Nat

Init ==
    /\ ready = FALSE
    /\ paths = <<>>
    /\ arrival = [a \in Arrivals |-> "idle"]
    /\ listening = FALSE
    /\ drain = [d \in Drains |-> "idle"]
    /\ batch = [d \in Drains |-> <<>>]
    /\ opens = [p \in Paths |-> 0]
    /\ reloads = 0

-----------------------------------------------------------------------------
(* The backend                                                              *)

(* Fault: a path queued already is queued again. *)
RouteWithoutDedup(a) ==
    /\ arrival[a] = "idle"
    /\ \/ /\ ready
          /\ arrival' = [arrival EXCEPT ![a] = "opening"]
          /\ UNCHANGED paths
       \/ /\ ~ready
          /\ arrival' = [arrival EXCEPT ![a] = "buffered"]
          /\ paths' = Append(paths, PathOf[a])
    /\ UNCHANGED <<ready, pageVars, opens, reloads>>

(* routeOpenPath: Queue.Add tells the callback to open the path at once, or
   buffers it unless it is queued already. *)
Route(a) ==
    /\ arrival[a] = "idle"
    /\ \/ /\ ready
          /\ arrival' = [arrival EXCEPT ![a] = "opening"]
          /\ UNCHANGED paths
       \/ /\ ~ready
          /\ arrival' = [arrival EXCEPT ![a] = "buffered"]
          /\ paths' = IF PathOf[a] \in Listed(paths) THEN paths
                      ELSE Append(paths, PathOf[a])
    /\ UNCHANGED <<ready, pageVars, opens, reloads>>

(* openFileAndEmitWithWarning ends with document:opened or document:error. *)
Emit(a) ==
    /\ arrival[a] = "opening"
    /\ arrival' = [arrival EXCEPT ![a] = "emitted"]
    /\ UNCHANGED <<queueVars, pageVars, opens, reloads>>

(* Fault: Drain clears the queue before it copies it. *)
DrainClearsFirst(d) ==
    /\ drain[d] \in {"asked", "orphan"}
    /\ ready' = TRUE
    /\ paths' = <<>>
    /\ drain' = [drain EXCEPT ![d] = "replied"]
    /\ UNCHANGED <<arrival, listening, batch, opens, reloads>>

(* Fault: Drain returns the paths and keeps them. *)
DrainKeepsPaths(d) ==
    /\ drain[d] \in {"asked", "orphan"}
    /\ ready' = TRUE
    /\ drain' = [drain EXCEPT ![d] = "replied"]
    /\ batch' = [batch EXCEPT ![d] = IF drain[d] = "asked" THEN paths ELSE <<>>]
    /\ UNCHANGED <<paths, arrival, listening, opens, reloads>>

(* ConsumePendingOpenFiles: Queue.Drain.  A page that is gone gets no reply. *)
Drain(d) ==
    /\ drain[d] \in {"asked", "orphan"}
    /\ ready' = TRUE
    /\ paths' = <<>>
    /\ drain' = [drain EXCEPT ![d] = "replied"]
    /\ batch' = [batch EXCEPT ![d] = IF drain[d] = "asked" THEN paths ELSE <<>>]
    /\ UNCHANGED <<arrival, listening, opens, reloads>>

-----------------------------------------------------------------------------
(* The page                                                                 *)

(* App.jsx subscribes to document:opened and document:error. *)
Subscribe ==
    /\ ~listening
    /\ listening' = TRUE
    /\ UNCHANGED <<queueVars, arrival, drain, batch, opens, reloads>>

(* Fault: the page asks before it has subscribed. *)
AskDrainEarly(d) ==
    /\ drain[d] = "idle"
    /\ drain' = [drain EXCEPT ![d] = "asked"]
    /\ UNCHANGED <<queueVars, arrival, listening, batch, opens, reloads>>

(* drainPendingOpens runs "STRICTLY AFTER" the subscription. *)
AskDrain(d) ==
    /\ listening
    /\ drain[d] = "idle"
    /\ drain' = [drain EXCEPT ![d] = "asked"]
    /\ UNCHANGED <<queueVars, arrival, listening, batch, opens, reloads>>

(* The drain's loop opens its next path: that meets every arrival the queue
   folded into it. *)
OpenNext(d) ==
    /\ batch[d] # <<>>
    /\ LET p == Head(batch[d]) IN
       /\ arrival' = [a \in Arrivals |->
                        IF arrival[a] = "buffered" /\ PathOf[a] = p THEN "met"
                        ELSE arrival[a]]
       /\ opens' = [opens EXCEPT ![p] = @ + 1]
    /\ batch' = [batch EXCEPT ![d] = Tail(@)]
    /\ UNCHANGED <<queueVars, listening, drain, reloads>>

(* The event arrives; without a listener it is gone. *)
Deliver(a) ==
    /\ arrival[a] = "emitted"
    /\ \/ /\ listening
          /\ arrival' = [arrival EXCEPT ![a] = "met"]
          /\ opens' = [opens EXCEPT ![PathOf[a]] = @ + 1]
       \/ /\ ~listening
          /\ arrival' = [arrival EXCEPT ![a] = "lost"]
          /\ UNCHANGED opens
    /\ UNCHANGED <<queueVars, pageVars, reloads>>

(* A reload ends the page with its listeners and loops; calls on their way
   still reach the backend. *)
Reload ==
    /\ listening
    /\ reloads < MaxReloads
    /\ listening' = FALSE
    /\ drain' = [d \in Drains |-> IF drain[d] = "asked" THEN "orphan" ELSE drain[d]]
    /\ batch' = [d \in Drains |-> <<>>]
    /\ reloads' = reloads + 1
    /\ UNCHANGED <<queueVars, arrival, opens>>

Next ==
    \/ \E a \in Arrivals : Route(a) \/ Emit(a) \/ Deliver(a)
    \/ \E d \in Drains : AskDrain(d) \/ Drain(d) \/ OpenNext(d)
    \/ Subscribe
    \/ Reload

(* Callbacks, calls and events get through, and the page mounts. *)
Fairness ==
    /\ \A a \in Arrivals : WF_vars(Emit(a)) /\ WF_vars(Deliver(a))
    /\ \A d \in Drains : WF_vars(AskDrain(d)) /\ WF_vars(Drain(d)) /\ WF_vars(OpenNext(d))
    /\ WF_vars(Subscribe)

Spec == Init /\ [][Next]_vars
FairSpec == Spec /\ Fairness

-----------------------------------------------------------------------------
(* Properties                                                               *)

(* What each arrival has come to: a path the queue holds, a drain is opening or
   an event carries is owed. *)
Due == [a \in Arrivals |->
          CASE arrival[a] = "idle" -> "idle"
            [] arrival[a] = "met"  -> "met"
            [] OTHER               -> "owed"]

Delivery == INSTANCE PathDelivery WITH due <- Due

(* "every queued path is delivered exactly once across any interleaving of
   Add/Drain": every open meets arrivals of its path that no open has met. *)
DeliversOnce == Delivery!Spec

(* While the page lives, a buffered path is in the queue or in the hands of a
   drain, never between the two. *)
NoPathDropped ==
    \A a \in Arrivals : arrival[a] = "buffered" /\ reloads = 0 =>
        PathOf[a] \in Listed(paths) \cup UNION {Listed(batch[d]) : d \in Drains}

(* The queue holds a path at most once, all state keeps its type, and while the
   page lives a buffered path is in the queue or in the hands of a drain. *)
QueueSound == TypeOK /\ NoPathDropped

(* "every path lands on exactly one side of the ready flag, and both sides have
   a working delivery path": every path handed over is opened or its error
   shown. *)
EveryArrivalMet == \A a \in Arrivals : arrival[a] # "idle" ~> arrival[a] = "met"

(* The same for a page that is never reloaded: both sides of the ready flag     *)
(* deliver, in any order of arrivals, drains and subscriptions.                 *)
MetUnlessReloaded == [](reloads = 0) => EveryArrivalMet

=============================================================================
