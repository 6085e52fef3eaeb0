------------------------------ MODULE MCProcess ------------------------------
(* Process for TLC. *)
EXTENDS Process

\* The next pointer behind the last child is NULL: fresh kernel memory.
NoStray == {{}}

\* Recycled memory: the walk may meet one more node, with any pid in it.
OneStray == {{}} \cup {{p} : p \in 0..MaxPid}
=============================================================================
