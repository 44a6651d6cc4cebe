---------------------------- MODULE MCDiskWatch ----------------------------
(* Instances of DiskWatch for TLC. *)
EXTENDS DiskWatch, TLC

=============================================================================
