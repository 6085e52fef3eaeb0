---------------------------- MODULE MCSemaphore ----------------------------
(* Semaphore for TLC; its constants are numbers and need no definitions. *)
EXTENDS Semaphore
=============================================================================
