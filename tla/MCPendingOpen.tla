---------------------------- MODULE MCPendingOpen ----------------------------
(* Instances of PendingOpen for TLC: two arrivals of one path, one of another. *)
EXTENDS PendingOpen, TLC

CONSTANTS a1, a2, a3, pdf1, pdf2

MCPathOf == a1 :> pdf1 @@ a2 :> pdf1 @@ a3 :> pdf2

=============================================================================
