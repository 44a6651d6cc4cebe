-------------------------- MODULE MCUpdateDownload --------------------------
(* The update download for TLC.  Two downloads let one be cancelled while    *)
(* its goroutine still runs beside the next.                                 *)
EXTENDS UpdateDownload
=============================================================================
