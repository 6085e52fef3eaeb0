----------------------------- MODULE Scheduler -----------------------------
(***************************************************************************)
(* The two scheduling routines every handler of the kernel ends in, and    *)
(* the list primitives they are built from.  A list of list.c is a         *)
(* sequence: location i of the list is element i.                          *)
(*                                                                         *)
(* The kernel takes interrupts in user mode only, so a handler runs to its *)
(* end or to the context switch inside it; what it does up to there is one *)
(* action of the modules that extend this one.                             *)
(***************************************************************************)
EXTENDS Integers, Sequences

VARIABLES
    active_proc,    \* pid of the process that runs, NoProc for NULL
    ready_queue     \* pids, next to run first

schedVars == <<active_proc, ready_queue>>

\* kernel.c hands out pid 0 to init and pid 1 to idle.
InitPid == 0
Idle == 1
NoProc == -1

----------------------------------------------------------------------------
(* list.c *)

\* What is on a list.
On(lst) == {lst[i] : i \in 1..Len(lst)}

NoDup(lst) == \A i, j \in 1..Len(lst) : lst[i] = lst[j] => i = j

\* list_remove: a location outside the list removes nothing.
list_remove(lst, i) ==
    IF i \in 1..Len(lst)
    THEN [k \in 1..Len(lst) - 1 |-> IF k < i THEN lst[k] ELSE lst[k + 1]]
    ELSE lst

\* The location at which a walk that looks for x stops.
FirstAt(lst, x) ==
    CHOOSE i \in 1..Len(lst) : lst[i] = x /\ \A j \in 1..i - 1 : lst[j] # x

\* A walk over lst that removes x where it meets it first, if it does.
RemoveFirst(lst, x) ==
    IF x \in On(lst) THEN list_remove(lst, FirstAt(lst, x)) ELSE lst

----------------------------------------------------------------------------
(* scheduler.c do_scheduler, syscall.c normal_schedule *)

KeepIdleFirst(q) == q
DropIdle(q) == IF Head(q) = Idle /\ Len(q) > 1 THEN Tail(q) ELSE q

\* A queue headed by idle has idle moved to its end, once.
SkipIdle(q) == IF Head(q) = Idle THEN Append(Tail(q), Idle) ELSE q

DispatchLast(q) ==
    /\ active_proc' = q[Len(q)]
    /\ ready_queue' = SubSeq(q, 1, Len(q) - 1)

\* context_switch to the head of q.
Dispatch(q) ==
    /\ active_proc' = Head(SkipIdle(q))
    /\ ready_queue' = Tail(SkipIdle(q))

\* The end of a handler that blocks or ends process cur (NoProc when it
\* ended): q is the ready queue the handler leaves.  An empty queue switches
\* nothing and the handler goes on.
normal_schedule(q, cur) ==
    IF q # <<>>
    THEN Dispatch(q)
    ELSE active_proc' = cur /\ ready_queue' = q

ForgetPreempted ==
    IF ready_queue # <<>> THEN Dispatch(ready_queue) ELSE UNCHANGED schedVars

NeverPreempt == UNCHANGED schedVars

PreemptToFront ==
    IF ready_queue # <<>>
    THEN Dispatch(<<Head(ready_queue), active_proc>> \o Tail(ready_queue))
    ELSE UNCHANGED schedVars

\* The end of the clock handler: round robin.
do_scheduler ==
    IF ready_queue # <<>>
    THEN Dispatch(Append(ready_queue, active_proc))
    ELSE UNCHANGED schedVars
=============================================================================
