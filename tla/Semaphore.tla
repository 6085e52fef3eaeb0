----------------------------- MODULE Semaphore -----------------------------
(***************************************************************************)
(* The semaphores of the three Custom system calls.                        *)
(***************************************************************************)
EXTENDS Tasks

CONSTANTS
    MaxSem,         \* bound: semaphores created
    MaxSignal,      \* bound: signals of each semaphore
    AllocFails,     \* may malloc fail?
    BadIds          \* do programs pass ids no semaphore has?

ASSUME SemaphoreAssumption ==
    /\ MaxSem \in Nat /\ MaxSignal \in Nat
    /\ AllocFails \in BOOLEAN /\ BadIds \in BOOLEAN

VARIABLES
    sem_list,       \* semaphore structures, in order of creation
    next_sem,
    panic,          \* the kernel went through a NULL node and is lost
    signals, passed \* history: signals of, and returns from waits for, an id

semVars == <<sem_list, next_sem, panic, signals, passed>>
vars == <<taskVars, semVars>>

Sem == 0..MaxSem - 1

Init ==
    /\ TasksInit
    /\ sem_list = <<>> /\ next_sem = 0 /\ panic = FALSE
    /\ signals = [s \in Sem |-> 0] /\ passed = [s \in Sem |-> 0]

----------------------------------------------------------------------------
NextIdTaken(id) == [id |-> id + 1, count |-> 0, waiting |-> <<>>]
NewSem(id) == [id |-> id, count |-> 0, waiting |-> <<>>]

\* sem_init
Custom_0(p) ==
    /\ Calls(p) /\ ~panic
    /\ next_sem < MaxSem
    /\ next_sem' = next_sem + 1
    /\ sem_list' = Append(sem_list, NewSem(next_sem))
    /\ UNCHANGED <<taskVars, panic, signals, passed>>

\* No memory for the list of those who wait: ERROR, and the id is spent.
Custom_0Fail(p) ==
    /\ AllocFails
    /\ Calls(p) /\ ~panic
    /\ next_sem < MaxSem
    /\ next_sem' = next_sem + 1
    /\ UNCHANGED <<taskVars, sem_list, panic, signals, passed>>

WakeBelowZero(count) == count < 0

\* After count++: somebody waits.
WakeOne(count) == count <= 0

WakesLast(w) == Len(w)
\* The location on the list of those who wait that is woken.
WakesAt(w) == 1

\* sem_signal: the semaphore at location i of the list has the id passed.
Custom_1(p, i) ==
    LET sem == sem_list[i]
        wake == WakeOne(sem.count + 1) /\ sem.waiting # <<>> IN
    /\ Calls(p) /\ ~panic
    /\ signals[sem.id] < MaxSignal
    /\ signals' = [signals EXCEPT ![sem.id] = @ + 1]
    /\ sem_list' = [sem_list EXCEPT
                      ![i].count = @ + 1,
                      ![i].waiting = IF wake THEN list_remove(@, WakesAt(@))
                                              ELSE @]
    /\ ready_queue' =
          IF wake
          THEN Append(ready_queue, sem.waiting[WakesAt(sem.waiting)])
          ELSE ready_queue
    /\ passed' = IF wake THEN [passed EXCEPT ![sem.id] = @ + 1] ELSE passed
    /\ UNCHANGED <<active_proc, kpc, next_sem, panic>>

BlockBelowMinusOne(count) == count < -1

\* After count--: nothing is left for the caller.
MustBlock(count) == count < 0

\* sem_wait
Custom_2(p, i) ==
    LET sem == sem_list[i] IN
    /\ Calls(p) /\ ~panic
    /\ IF MustBlock(sem.count - 1)
       THEN /\ sem_list' = [sem_list EXCEPT ![i].count = @ - 1,
                                            ![i].waiting = Append(@, p)]
            /\ normal_schedule(ready_queue, p)
            /\ UNCHANGED passed
       ELSE /\ sem_list' = [sem_list EXCEPT ![i].count = @ - 1]
            /\ passed' = [passed EXCEPT ![sem.id] = @ + 1]
            /\ UNCHANGED schedVars
    /\ UNCHANGED <<kpc, next_sem, panic, signals>>

\* sem_signal and sem_wait with an id that is not on the list: the walk
\* takes the data of the NULL that list_index returns behind the end.  Unless
\* address 0 happens to hold zeroes (then the call returns ERROR, a
\* stuttering step), the kernel faults or loops on whatever is there.
NoSuchSem(p) ==
    /\ BadIds
    /\ Calls(p) /\ ~panic
    /\ panic' = TRUE
    /\ UNCHANGED <<taskVars, sem_list, next_sem, signals, passed>>

Next ==
    \/ \E p \in Proc :
          \/ Custom_0(p)
          \/ Custom_0Fail(p)
          \/ \E i \in 1..Len(sem_list) : Custom_1(p, i)
          \/ \E i \in 1..Len(sem_list) : Custom_2(p, i)
          \/ NoSuchSem(p)
    \/ ~panic /\ Preempt /\ UNCHANGED semVars

Spec == Init /\ [][Next]_vars

----------------------------------------------------------------------------
(* Properties *)

\* The pids blocked on some semaphore.
Blocked == UNION {On(sem_list[i].waiting) : i \in 1..Len(sem_list)}

\* The kernel's variables hold what their declarations say.
TypeOK ==
    /\ active_proc \in Proc
    /\ ready_queue \in Seq(Proc)
    /\ kpc \in [Proc -> {"user"}]
    /\ sem_list \in Seq([id : Sem, count : Int, waiting : Seq(Proc)])
    /\ next_sem \in 0..MaxSem
    /\ panic \in BOOLEAN
    /\ signals \in [Sem -> 0..MaxSignal] /\ passed \in [Sem -> Nat]

\* A negative count is the number of those who wait, and nobody waits
\* otherwise: the test of sem_signal on count and the one on the list never
\* disagree, so no signal wakes nobody while somebody waits.
WaitersCounted ==
    \A i \in 1..Len(sem_list) :
        LET sem == sem_list[i] IN
        Len(sem.waiting) = IF sem.count < 0 THEN -sem.count ELSE 0

\* A wait returns at most once for each signal, and as often as there are
\* signals while anybody waits.
OneReturnPerSignal ==
    \A i \in 1..Len(sem_list) :
        LET sem == sem_list[i] IN
        /\ passed[sem.id] <= signals[sem.id]
        /\ sem.waiting # <<>> => passed[sem.id] = signals[sem.id]

\* Every process runs, is ready or waits for one semaphore, once.
SingleResidence ==
    /\ PlacesOK(Blocked)
    /\ \A i \in 1..Len(sem_list) : NoDup(sem_list[i].waiting)
    /\ \A i, j \in 1..Len(sem_list) :
          i # j => On(sem_list[i].waiting) \cap On(sem_list[j].waiting) = {}

\* Whoever waits longest is woken first.
FirstComeFirstServed ==
    [][\A i \in 1..Len(sem_list) :
         LET w == sem_list[i].waiting IN
         \A k, l \in 1..Len(w) :
            k < l /\ w[k] \in On(sem_list'[i].waiting)
              => w[l] \in On(sem_list'[i].waiting)]_vars
=============================================================================
