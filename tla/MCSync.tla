------------------------------- MODULE MCSync -------------------------------
(* Sync for TLC; its constants are numbers and need no definitions. *)
EXTENDS Sync
=============================================================================
