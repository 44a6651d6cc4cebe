-------------------------- MODULE MCInspectorCalls --------------------------
(***************************************************************************)
(* InspectorCalls on small instances.  Threads are interchangeable, and so *)
(* are documents.                                                          *)
(***************************************************************************)
EXTENDS InspectorCalls, TLC

Symmetry == Permutations(Threads) \cup Permutations(Docs)

=============================================================================
