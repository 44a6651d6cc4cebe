---------------------------- MODULE MCUpdateCheck ----------------------------
(* The update check for TLC.  A behaviour has one of two casts, chosen in     *)
(* Init: one command beside the app and its releases, or two commands alone.  *)
(* Commands are numbers: they are interchangeable, so they start in order.    *)
EXTENDS UpdateCheck

VARIABLE cast

castVars == <<vars, cast>>

CastInit == Init /\ cast \in {"app", "commands"}

\* The commands of the cast, each started after those before it.
InTurn ==
    \A p \in Commands : main'[p] # "idle" =>
        IF cast = "app" THEN p = 1
        ELSE \A q \in Commands : q < p => main'[q] # "idle"

\* Two commands are without releases and without the app's checks.
Alone == cast = "commands" => UNCHANGED <<all, first, desktop>>

CastNext == Next /\ InTurn /\ Alone /\ UNCHANGED cast

CastSpec == CastInit /\ [][CastNext]_castVars /\ Fairness
=============================================================================
