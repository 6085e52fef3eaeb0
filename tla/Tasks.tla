------------------------------- MODULE Tasks -------------------------------
(***************************************************************************)
(* A fixed set of processes for the modules about blocking calls: init has *)
(* forked the others and none of them has run or exited yet.               *)
(*                                                                         *)
(* kpc[p] is where p goes on when it is switched in: "user" in its         *)
(* program, otherwise inside the system call that gave up the processor.   *)
(***************************************************************************)
EXTENDS Scheduler

CONSTANT LastPid

ASSUME LastPidAssumption == LastPid \in Nat /\ LastPid >= 2

VARIABLE kpc

taskVars == <<schedVars, kpc>>

Proc == 0..LastPid

TasksInit ==
    /\ active_proc = InitPid
    /\ ready_queue = [i \in 1..LastPid |-> i]
    /\ kpc = [p \in Proc |-> "user"]

\* p runs its program.  idle only pauses.
InUser(p) == active_proc = p /\ kpc[p] = "user"
Calls(p) == InUser(p) /\ p # Idle

\* A clock interrupt when nobody sleeps.
Preempt == active_proc \in Proc /\ InUser(active_proc) /\ do_scheduler /\ UNCHANGED kpc

\* Where the processes are when those in B are blocked: one runs, idle is
\* never blocked, and nobody is lost or in two places.
PlacesOK(B) ==
    /\ NoDup(ready_queue)
    /\ active_proc \notin On(ready_queue) \cup B
    /\ On(ready_queue) \cap B = {}
    /\ Idle \notin B
    /\ Proc = {active_proc} \cup On(ready_queue) \cup B
=============================================================================
