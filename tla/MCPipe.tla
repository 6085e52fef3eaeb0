------------------------------- MODULE MCPipe -------------------------------
(* Pipe for TLC; its constants are numbers and need no definitions. *)
EXTENDS Pipe
=============================================================================
