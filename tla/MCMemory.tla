------------------------------ MODULE MCMemory ------------------------------
(* Memory for TLC: a program of two pages, and one that needs one more. *)
EXTENDS Memory

Small == [text_pg1 |-> 0, t_npg |-> 1, data_pg1 |-> 1, data_npg |-> 0,
          stack_npg |-> 1]
Large == [Small EXCEPT !.data_npg = 1]

BothPrograms == {Small, Large}

\* For Brk two pages below the table, at its start, in its heap, and behind
\* its end on the kernel stack's entries; for the trap the second one is too
\* low and the third one lets the stack grow.
Addrs == {-6, -2, 6, 11}
=============================================================================
