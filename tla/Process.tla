------------------------------ MODULE Process ------------------------------
(***************************************************************************)
(* The life of a process: Fork, Exit, Wait, Delay and the clock interrupt. *)
(*                                                                         *)
(* kpc[p] is where p goes on when it is switched in: in its program        *)
(* ("user"), or in sys_Wait behind normal_schedule.  Handlers that return  *)
(* ERROR and change nothing (bad arguments, Wait without a child) are      *)
(* stuttering steps.  idle only pauses: it makes no system call.           *)
(***************************************************************************)
EXTENDS Scheduler

CONSTANTS
    MaxPid,         \* bound: the largest pid that is handed out
    MaxTicks,       \* bound: the largest argument of Delay
    AllocFails,     \* may malloc and grab_a_frame fail?
    Strays          \* what the walk over the children may meet behind the
                    \* last one, through the next pointer nobody initialised

ASSUME MaxPidAssumption == MaxPid \in Nat /\ MaxPid >= 1
ASSUME MaxTicksAssumption == MaxTicks \in Nat
ASSUME AllocAssumption == AllocFails \in BOOLEAN
ASSUME StraysAssumption == Strays \subseteq SUBSET (0..MaxPid)

VARIABLES
    kpc,
    sleep_list,     \* sleep_info: who sleeps and for how many more ticks
    clock_i,        \* i of update_sleep_list, 0 outside the clock handler
    wait_list,      \* pids blocked in Wait
    wait_i,         \* i of sys_Wait, on the kernel stack of a blocked caller
    dead_list,      \* dead_info: exited children nobody has waited for
    ppid,           \* -1 for no parent
    children,       \* pids, oldest first
    next_pid,
    due             \* history: clock interrupts until a Delay is over

procVars == <<sleep_list, clock_i, wait_list, wait_i, dead_list, ppid,
              children, next_pid, kpc, due>>
vars == <<schedVars, procVars>>

Pid == 0..MaxPid

----------------------------------------------------------------------------
\* KernelStart leaves init running and idle ready.
Init ==
    /\ active_proc = InitPid
    /\ ready_queue = <<Idle>>
    /\ kpc = [p \in Pid |-> IF p \in {InitPid, Idle} THEN "user" ELSE "unborn"]
    /\ sleep_list = <<>> /\ clock_i = 0
    /\ wait_list = <<>> /\ wait_i = [p \in Pid |-> 1]
    /\ dead_list = <<>>
    /\ ppid = [p \in Pid |-> -1]
    /\ children = [p \in Pid |-> <<>>]
    /\ next_pid = 2
    /\ due = [p \in Pid |-> 0]

\* p runs its program: only then is there a system call or an interrupt.
InUser(p) == active_proc = p /\ clock_i = 0 /\ kpc[p] = "user"

\* p runs a program that makes system calls.
Calls(p) == InUser(p) /\ p # Idle

----------------------------------------------------------------------------
(* sys_Fork *)

\* The pcb of the child is complete as far as its family is concerned
\* before anything that can fail for want of memory.
Register(p) ==
    /\ Calls(p)
    /\ next_pid <= MaxPid
    /\ next_pid' = next_pid + 1
    /\ ppid' = [ppid EXCEPT ![next_pid] = p]
    /\ children' = [children EXCEPT ![p] = Append(@, next_pid)]
    /\ UNCHANGED <<active_proc, sleep_list, clock_i, wait_list, wait_i,
                   dead_list, due>>

Fork(p) ==
    /\ Register(p)
    /\ kpc' = [kpc EXCEPT ![next_pid] = "user"]
    /\ ready_queue' = Append(ready_queue, next_pid)

\* No memory for the children list or for a page: ERROR, and the child
\* stays in the pcb table and among its parent's children.
ForkFail(p) ==
    /\ AllocFails
    /\ Register(p)
    /\ kpc' = [kpc EXCEPT ![next_pid] = "stillborn"]
    /\ UNCHANGED ready_queue

----------------------------------------------------------------------------
(* sys_Delay and the clock interrupt *)

insert_sleep_list(p, n) ==
    sleep_list' = Append(sleep_list, [pcb |-> p, ticks_left |-> n])

Delay(p, n) ==
    /\ Calls(p)
    /\ insert_sleep_list(p, n)
    /\ due' = [due EXCEPT ![p] = n]
    /\ normal_schedule(ready_queue, p)
    /\ UNCHANGED <<clock_i, wait_list, wait_i, dead_list, ppid, children,
                   next_pid, kpc>>

\* trap_clock_hdl is entered; what follows up to ClockSchedule is the rest
\* of this handler, and nothing else can happen meanwhile.
TrapClock ==
    /\ active_proc \in Pid /\ InUser(active_proc)
    /\ clock_i' = 1
    /\ due' = [p \in Pid |-> IF due[p] > 0 THEN due[p] - 1 ELSE 0]
    /\ UNCHANGED <<schedVars, sleep_list, wait_list, wait_i, dead_list, ppid,
                   children, next_pid, kpc>>

Expired(s) == s.ticks_left - 1 <= 0

AfterRemovalSkips(i) == i + 1
\* Where the walk goes on when it removed location i: i-- and then i++.
AfterRemoval(i) == i

\* One turn of update_sleep_list: the sleeper at clock_i is a tick older and
\* is woken at the last one.
UpdateSleeper ==
    /\ clock_i \in 1..Len(sleep_list)
    /\ LET s == sleep_list[clock_i] IN
       \/ /\ Expired(s)
          /\ ready_queue' = Append(ready_queue, s.pcb)
          /\ sleep_list' = list_remove(sleep_list, clock_i)
          /\ clock_i' = AfterRemoval(clock_i)
       \/ /\ ~Expired(s)
          /\ sleep_list' = [sleep_list EXCEPT ![clock_i].ticks_left = @ - 1]
          /\ clock_i' = clock_i + 1
          /\ UNCHANGED ready_queue
    /\ UNCHANGED <<active_proc, wait_list, wait_i, dead_list, ppid, children,
                   next_pid, kpc, due>>

\* All sleepers are updated: do_scheduler ends the clock handler.
ClockSchedule ==
    /\ clock_i > Len(sleep_list)
    /\ do_scheduler
    /\ clock_i' = 0
    /\ UNCHANGED <<sleep_list, wait_list, wait_i, dead_list, ppid, children,
                   next_pid, kpc, due>>

----------------------------------------------------------------------------
(* sys_Wait *)

\* A dead_info that was freed and is still listed reads as anything.
MayMatch(d, p) == d.freed \/ d.ppid = p
MayMiss(d, p) == d.freed \/ d.ppid # p

\* The walk of p over the dead list stops at k; it finds nothing.
StopsAt(k, p) ==
    /\ MayMatch(dead_list[k], p)
    /\ \A j \in 1..k - 1 : MayMiss(dead_list[j], p)
FindsNone(p) == \A j \in 1..Len(dead_list) : MayMiss(dead_list[j], p)

AnyoneWaits(p) == TRUE
\* Wait is refused to a process without children.
HasChild(p) == children[p] # <<>>

\* The child at k has exited before: Wait returns it at once.
WaitReap(p, k) ==
    /\ Calls(p) /\ HasChild(p)
    /\ StopsAt(k, p)
    /\ dead_list' = list_remove(dead_list, k)
    /\ UNCHANGED <<schedVars, sleep_list, clock_i, wait_list, wait_i, ppid,
                   children, next_pid, kpc, due>>

\* No child has exited yet.  The walk leaves i one behind the list's end.
WaitBlock(p) ==
    /\ Calls(p) /\ HasChild(p)
    /\ FindsNone(p)
    /\ wait_list' = Append(wait_list, p)
    /\ wait_i' = [wait_i EXCEPT ![p] = Len(dead_list) + 1]
    /\ kpc' = [kpc EXCEPT ![p] = "sys_Wait"]
    /\ normal_schedule(ready_queue, p)
    /\ UNCHANGED <<sleep_list, clock_i, dead_list, ppid, children, next_pid,
                   due>>

\* sys_Wait after normal_schedule: the second walk counts on from i.
WaitResume(p) ==
    /\ active_proc = p /\ clock_i = 0 /\ kpc[p] = "sys_Wait"
    /\ kpc' = [kpc EXCEPT ![p] = "user"]
    /\ \/ \E k \in 1..Len(dead_list) :
            /\ StopsAt(k, p)
            /\ dead_list' = list_remove([dead_list EXCEPT ![k].freed = TRUE],
                                        wait_i[p] + k - 1)
       \/ FindsNone(p) /\ UNCHANGED dead_list
    /\ wait_i' = [wait_i EXCEPT ![p] = 1]
    /\ UNCHANGED <<schedVars, sleep_list, clock_i, wait_list, ppid, children,
                   next_pid, due>>

----------------------------------------------------------------------------
(* sys_Exit: the system call, and every trap that kills the process *)

ParentKept(p, stray) == ppid

\* The parents after p took itself away as the parent of its children.  The
\* walk goes on through an uninitialised pointer behind the last child.
Orphaned(p, stray) ==
    [c \in Pid |-> IF \/ c \in On(children[p])
                      \/ children[p] # <<>> /\ c \in stray
                   THEN -1 ELSE ppid[c]]

WakesNobody(parent) == <<>>
WakesUnchecked(parent) == <<parent>>
\* The one the exit of a child of parent makes ready.
Woken(parent) == IF parent \in On(wait_list) THEN <<parent>> ELSE <<>>

insert_dead_list(parent, p) ==
    dead_list' =
        Append(dead_list, [ppid |-> parent, pid |-> p, freed |-> FALSE])

Exit(p, stray) ==
    LET parent == Orphaned(p, stray)[p] IN
    /\ Calls(p)
    /\ ppid' = Orphaned(p, stray)
    /\ IF parent # -1
       THEN /\ insert_dead_list(parent, p)
            /\ children' = [children EXCEPT ![parent] = RemoveFirst(@, p)]
       ELSE UNCHANGED <<dead_list, children>>
    /\ wait_list' = RemoveFirst(wait_list, parent)
    /\ normal_schedule(ready_queue \o Woken(parent), NoProc)
    /\ kpc' = [kpc EXCEPT ![p] = "exited"]
    /\ UNCHANGED <<sleep_list, clock_i, wait_i, next_pid, due>>

\* No memory for the dead_info: ERROR, and the process lives on.
ExitFail(p, stray) ==
    /\ AllocFails
    /\ Calls(p)
    /\ Orphaned(p, stray)[p] # -1
    /\ ppid' = Orphaned(p, stray)
    /\ UNCHANGED <<schedVars, sleep_list, clock_i, wait_list, wait_i,
                   dead_list, children, next_pid, kpc, due>>

----------------------------------------------------------------------------
SystemCall(p) ==
    \/ Fork(p)
    \/ ForkFail(p)
    \/ \E n \in 1..MaxTicks : Delay(p, n)
    \/ \E k \in 1..Len(dead_list) : WaitReap(p, k)
    \/ WaitBlock(p)
    \/ \E stray \in Strays : Exit(p, stray)
    \/ \E stray \in Strays : ExitFail(p, stray)

Next ==
    \/ \E p \in Pid : SystemCall(p)
    \/ \E p \in Pid : WaitResume(p)
    \/ TrapClock
    \/ UpdateSleeper
    \/ ClockSchedule

Spec == Init /\ [][Next]_vars

\* Kernel code that is under way goes on; a pending clock interrupt is
\* delivered before the program that runs next executes an instruction.
Fairness ==
    /\ WF_vars(UpdateSleeper \/ ClockSchedule)
    /\ WF_vars(\E p \in Pid : WaitResume(p))
    /\ SF_vars(TrapClock)

FairSpec == Spec /\ Fairness

----------------------------------------------------------------------------
(* Properties *)

Sleepers == {sleep_list[i].pcb : i \in 1..Len(sleep_list)}

\* Processes that were forked successfully and did not exit.
Live == {p \in Pid : kpc[p] \in {"user", "sys_Wait"}}

\* The kernel's variables hold what their declarations say; a pid of -1
\* stands for no process.
TypeOK ==
    /\ active_proc \in Pid \cup {NoProc}
    /\ ready_queue \in Seq(Pid) /\ wait_list \in Seq(Pid)
    /\ sleep_list \in Seq([pcb : Pid, ticks_left : Int])
    /\ dead_list \in Seq([ppid : Pid, pid : Pid, freed : BOOLEAN])
    /\ kpc \in [Pid -> {"unborn", "stillborn", "user", "sys_Wait", "exited"}]
    /\ wait_i \in [Pid -> Nat \ {0}]
    /\ ppid \in [Pid -> Pid \cup {-1}]
    /\ children \in [Pid -> Seq(Pid)]
    /\ next_pid \in 2..MaxPid + 1
    /\ clock_i \in Nat
    /\ due \in [Pid -> Nat]

\* Every live process is in one place: it runs, or it is on one of the
\* ready queue, the sleep list and the wait list, once.  The handlers move
\* a process between these with a list_remove and a list_insert far apart;
\* a missed one strands the process, a doubled one runs it twice.
SingleResidence ==
    /\ NoDup(ready_queue) /\ NoDup(wait_list)
    /\ \A i, j \in 1..Len(sleep_list) :
          sleep_list[i].pcb = sleep_list[j].pcb => i = j
    /\ active_proc \notin On(ready_queue) \cup Sleepers \cup On(wait_list)
    /\ On(ready_queue) \cap Sleepers = {}
    /\ On(ready_queue) \cap On(wait_list) = {}
    /\ Sleepers \cap On(wait_list) = {}
    /\ Live = {active_proc} \cup On(ready_queue) \cup Sleepers
                             \cup On(wait_list)

\* "logically idle is always in the ready queue when it is not runing"
\* (the comment in sys_Delay): normal_schedule never finds the queue empty,
\* so nobody runs on after it blocked and active_proc is never left NULL.
IdleReady == active_proc = Idle \/ Idle \in On(ready_queue)

\* The clock counts every sleeper down by one at each interrupt, whoever is
\* woken in the same walk: outside the handler ticks_left is what is left of
\* the Delay, and who sleeps is who has some left.
SleepExact ==
    clock_i = 0 =>
        /\ Sleepers = {p \in Pid : due[p] > 0}
        /\ \A i \in 1..Len(sleep_list) :
              sleep_list[i].ticks_left = due[sleep_list[i].pcb]

\* The two records of a family agree: the children list of a live process
\* holds its live children, and no live process has a dead parent, to which
\* sys_Exit would report through a stale pcb.
FamilyConsistent ==
    /\ \A p \in Live : NoDup(children[p])
    /\ \A p \in Live : On(children[p]) = {c \in Live : ppid[c] = p}
    /\ \A c \in Live : ppid[c] \in Live \cup {-1}

\* "if process have no remaining child return ERROR" (sys_Wait): whoever is
\* blocked in Wait has a live child whose exit will wake it.  sys_Exit takes
\* a child off its parent's list and wakes the parent in different parts of
\* the handler.
WaiterHasLiveChild ==
    \A p \in On(wait_list) : \E c \in Live : ppid[c] = p

\* idle is switched to only when nobody else is ready.
IdleIsLastResort ==
    [][active_proc' = Idle /\ (active_proc # Idle \/ clock_i > clock_i')
         => ready_queue' = <<>>]_vars

\* p is ahead of q in the ready queue.
Ahead(p, q) ==
    \E i, j \in 1..Len(ready_queue) :
        i < j /\ ready_queue[i] = p /\ ready_queue[j] = q

\* Round robin: while p stays ready, nobody who was not ahead of it runs or
\* comes to be ahead of it.
NoOvertaking ==
    [][\A p \in On(ready_queue) \ {Idle}, q \in Pid :
         /\ p \in On(ready_queue')
         /\ Ahead(q, p)' \/ (active_proc' = q /\ active_proc # q)
         => Ahead(q, p)]_vars

\* The exit of a child makes a parent blocked in Wait ready in the same step.
ExitWakesParent ==
    [][\A c \in Pid : kpc'[c] = "exited" /\ kpc[c] # "exited"
         /\ ppid[c] \in On(wait_list)
           => ppid[c] \in On(ready_queue') \cup {active_proc'}]_vars

\* Nobody but idle starves in the ready queue.
ReadyRuns ==
    \A p \in Pid \ {Idle} : p \in On(ready_queue) ~> active_proc = p

\* Every Delay ends and its caller runs again.
DelayEnds == \A p \in Pid : p \in Sleepers ~> active_proc = p

\* The queues of the kernel implement the dispatcher that has none.
D == INSTANCE Dispatcher WITH
        Procs <- Pid, IdleProc <- Idle, FirstProc <- InitPid,
        running <- active_proc, ready <- On(ready_queue),
        blocked <- Sleepers \cup On(wait_list)

\* Every step of the kernel is a step the dispatcher allows, or none of its
\* business: in particular one interrupt or call never wakes and blocks at
\* once, and a process that was blocked never runs without having been ready.
DispatcherSpec == D!Spec

\* A process with an exited child nobody has collected can collect it, that
\* is, a Wait is not refused.
ExitedChildCollectable ==
    \A k \in 1..Len(dead_list) :
        LET parent == dead_list[k].ppid IN
        ~dead_list[k].freed /\ kpc[parent] = "user" => HasChild(parent)

\* What a walk over the dead list meets are exited children, and no structure
\* that an earlier Wait has freed.
DeadListAllocated == \A k \in 1..Len(dead_list) : ~dead_list[k].freed

\* "find a exited child" (sys_Wait): Wait finds it when there is one, and
\* what it finds is one.
WaitFindsChild == ExitedChildCollectable /\ DeadListAllocated
=============================================================================
