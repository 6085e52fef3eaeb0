------------------------------- MODULE MCTty -------------------------------
(* Tty for TLC. *)
EXTENDS Tty

\* The ids of terminals that exist.
GoodIds == 0..NUM_TERMINALS - 1

\* The ids the checks of TtyRead and TtyWrite let through.
AcceptedIds == 0..NUM_TERMINALS
=============================================================================
