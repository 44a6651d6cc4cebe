------------------------------- MODULE Lists -------------------------------
(***************************************************************************)
(* What the loops that keep some entries of a list in their order return.  *)
(***************************************************************************)
EXTENDS Naturals, FiniteSets

\* The entries of list at the positions in keep, in their order.
Picked(list, keep) ==
  [k \in 1..Cardinality(keep) |->
     list[CHOOSE i \in keep : Cardinality({j \in keep : j <= i}) = k]]
=============================================================================
