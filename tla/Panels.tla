------------------------------- MODULE Panels -------------------------------
(***************************************************************************)
(* The panels beside the strip of tabs: the Diff view's right side         *)
(* (DiffSide) and the tree (TreeNav).  They share no state: each follows   *)
(* the active tab by renders and effects of its own.                       *)
(***************************************************************************)
EXTENDS DiffSide, TreeNav

\* DiffSide and TreeNav: the panels end up with the documents, rows and
\* targets of the tab they show, whatever lands between a render and its
\* effects.
PanelsSound == DiffSideSound /\ RevealSound

=============================================================================
