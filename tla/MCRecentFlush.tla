--------------------------- MODULE MCRecentFlush ---------------------------
(* Instances of RecentFlush for TLC. *)
EXTENDS RecentFlush, TLC

=============================================================================
