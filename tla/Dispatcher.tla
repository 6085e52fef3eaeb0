----------------------------- MODULE Dispatcher -----------------------------
(***************************************************************************)
(* What the kernel promises about who runs, without queues: one process    *)
(* runs, a woken or new process becomes ready, and when the processor is   *)
(* given up it goes to a ready process, to idle only when there is no      *)
(* other.  A blocked process comes back through the ready set only.        *)
(***************************************************************************)
EXTENDS Integers

CONSTANTS Procs, IdleProc, FirstProc

VARIABLES running, ready, blocked

vars == <<running, ready, blocked>>

Init == running = FirstProc /\ ready = {IdleProc} /\ blocked = {}

\* The processor goes to a member of R.
Give(R) ==
    \E n \in R :
        /\ n = IdleProc => R = {IdleProc}
        /\ running' = n
        /\ ready' = R \ {n}

\* A process that is neither ready, blocked nor running becomes ready.
Create ==
    \E c \in Procs \ (ready \cup blocked \cup {running}) :
        ready' = ready \cup {c} /\ UNCHANGED <<running, blocked>>

Wake ==
    \E b \in blocked :
        /\ ready' = ready \cup {b} /\ blocked' = blocked \ {b}
        /\ UNCHANGED running

Preempt == Give(ready \cup {running}) /\ UNCHANGED blocked

Block ==
    /\ running # IdleProc
    /\ blocked' = blocked \cup {running}
    /\ Give(ready)

\* A process ends and wakes at most one other.
End ==
    /\ running # IdleProc
    /\ \E W \in {{}} \cup {{b} : b \in blocked} :
          blocked' = blocked \ W /\ Give(ready \cup W)

Next == Create \/ Wake \/ Preempt \/ Block \/ End

Spec == Init /\ [][Next]_vars
=============================================================================
