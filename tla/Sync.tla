-------------------------------- MODULE Sync --------------------------------
(***************************************************************************)
(* Locks, condition variables and Reclaim.                                 *)
(*                                                                         *)
(* A lock_info or cvar_info is an element of info, in order of allocation; *)
(* the kernel's lists hold such elements' numbers.  A freed one keeps its  *)
(* element, so that a pointer to it that is still used can be told: what   *)
(* is read through it is anything, and what is written does not matter.    *)
(***************************************************************************)
EXTENDS Tasks

CONSTANTS
    AllocFails,     \* may list_insert find no memory, where that is checked?
    MaxObj,         \* bound: locks and condition variables created
    MaxHalf         \* bound: how many of the first may fail half way

ASSUME AllocFailsAssumption == AllocFails \in BOOLEAN
ASSUME MaxObjAssumption == MaxObj \in Nat /\ MaxHalf \in Nat

VARIABLES
    info,           \* lock_info and cvar_info structures, see above
    lock_list, cvar_list,
    reclaim_list,   \* reclaim_info: id and type of what can be reclaimed
    on,             \* kernel stack of a blocked caller: its l, and exist
    args,           \* user context of a blocked caller: lock and cvar id
    holds,          \* history: the locks a process was granted
    lost            \* history: who is on no list any more

syncVars == <<info, lock_list, cvar_list, reclaim_list, on, args, holds, lost>>
vars == <<taskVars, syncVars>>

Lock == 1           \* reclaim_info.type
Cvar == 2

\* What on and args are of a process that is not inside a call.
NoFrame == [l |-> 0, exist |-> FALSE]
NoArgs == [lock |-> 0, cvar |-> 0]

Init ==
    /\ TasksInit
    /\ info = <<>>
    /\ lock_list = <<>> /\ cvar_list = <<>> /\ reclaim_list = <<>>
    /\ on = [p \in Proc |-> NoFrame]
    /\ args = [p \in Proc |-> NoArgs]
    /\ holds = [p \in Proc |-> {}] /\ lost = <<>>

----------------------------------------------------------------------------
\* The location a walk over a list stops at, looking for one of M; 0 for none.
First(M) == IF M = {} THEN 0 ELSE CHOOSE i \in M : \A j \in M : i <= j

\* Where the structure with this id is on a list.
Find(lst, id) == First({i \in 1..Len(lst) : info[lst[i]].id = id})

CountedTwice == Len(lock_list) + Len(cvar_list) + Len(reclaim_list) + 1

\* Ids of locks, cvars and pipes are counted by the one reclaim list.
NewId == Len(reclaim_list) + 1

Create(p, type) ==
    /\ Calls(p)
    /\ Len(info) < MaxObj
    /\ info' = Append(info, [type |-> type, id |-> NewId, locked |-> 0,
                             pid |-> 0, waiting |-> <<>>, freed |-> FALSE])
    /\ UNCHANGED <<taskVars, on, args, holds, lost>>

\* The id can be reclaimed, unless there is no memory for the node: then the
\* structure stays on its own list and its id is given once more.
Register(type) ==
    \/ reclaim_list' = Append(reclaim_list, [id |-> NewId, type |-> type])
    \/ AllocFails /\ Len(info) < MaxHalf /\ UNCHANGED reclaim_list

LockInit(p) ==
    /\ Create(p, Lock) /\ Register(Lock)
    /\ lock_list' = Append(lock_list, Len(info) + 1)
    /\ UNCHANGED cvar_list

CvarInit(p) ==
    /\ Create(p, Cvar) /\ Register(Cvar)
    /\ cvar_list' = Append(cvar_list, Len(info) + 1)
    /\ UNCHANGED lock_list

----------------------------------------------------------------------------
(* sys_Acquire *)

\* The call returns to the program of p.
Return(p) ==
    /\ kpc' = [kpc EXCEPT ![p] = "user"]
    /\ on' = [on EXCEPT ![p] = NoFrame]
    /\ args' = [args EXCEPT ![p] = NoArgs]
    /\ UNCHANGED schedVars

\* It returns ERROR.
Fail(p) == Return(p) /\ UNCHANGED <<info, holds>>

TakenAnyway(o) == {0}

\* What l->locked reads as: anything, 2 for neither 0 nor 1, once l is freed.
Locked(o) == IF info[o].freed THEN 0..2 ELSE {info[o].locked}

\* From the test of l->locked on: p takes lock o, or waits for it.  A value
\* that is neither sends the walk on; it may end without another lock.
TakeOrWait(p, o, id, exist) ==
    \E locked \in Locked(o) :
       \/ /\ locked = 1
          /\ info' = [info EXCEPT ![o].waiting = Append(@, p)]
          /\ kpc' = [kpc EXCEPT ![p] = "acquire"]
          /\ on' = [on EXCEPT ![p] = [l |-> o, exist |-> exist]]
          /\ args' = [args EXCEPT ![p].lock = id]
          /\ normal_schedule(ready_queue, p)
          /\ UNCHANGED holds
       \/ /\ locked = 0
          /\ IF info[o].freed
             THEN UNCHANGED <<info, holds>>
             ELSE /\ info' = [info EXCEPT ![o].locked = 1, ![o].pid = p]
                  /\ holds' = [holds EXCEPT ![p] = @ \cup {o}]
          /\ Return(p)
       \/ /\ locked = 2
          /\ Fail(p)

Acquire(p, id) ==
    /\ Calls(p)
    /\ Find(lock_list, id) # 0
    /\ TakeOrWait(p, lock_list[Find(lock_list, id)], id, FALSE)
    /\ UNCHANGED <<lock_list, cvar_list, reclaim_list, lost>>

\* p waited for a lock and is back: is there still a lock with that id?  A
\* walk that finds none leaves exist what the walk before made it.
StillThere(p) == on[p].exist \/ Find(lock_list, args[p].lock) # 0

\* The locks p can come to that waited for lock o: o itself and, if o was
\* freed and its walk goes on, another one with the id.
Meets(o, id) ==
    IF info[o].freed THEN {o} \cup {x \in On(lock_list) : info[x].id = id}
                     ELSE {o}

AcquireBack(p) ==
    /\ active_proc = p /\ kpc[p] = "acquire"
    /\ IF StillThere(p)
       THEN \E o \in Meets(on[p].l, args[p].lock) :
               TakeOrWait(p, o, args[p].lock, TRUE)
       ELSE Fail(p)
    /\ UNCHANGED <<lock_list, cvar_list, reclaim_list, lost>>

----------------------------------------------------------------------------
(* sys_Release *)

\* The lock with this id that p has locked.
Mine(p, id) ==
    First({i \in 1..Len(lock_list) :
             LET l == info[lock_list[i]] IN
             l.id = id /\ l.pid = p /\ l.locked = 1})

NobodyWoken(o) == <<>>

\* The one who waited for o longest.
Longest(o) ==
    IF info[o].waiting # <<>> THEN <<Head(info[o].waiting)>> ELSE <<>>

\* l->pid names the one woken although the lock is free.
Released(o) ==
    [info EXCEPT ![o].locked = 0,
                 ![o].pid = IF info[o].waiting # <<>>
                            THEN Head(info[o].waiting) ELSE 0,
                 ![o].waiting = list_remove(@, 1)]

Release(p, id) ==
    LET o == lock_list[Mine(p, id)] IN
    /\ Calls(p)
    /\ Mine(p, id) # 0
    /\ info' = Released(o)
    /\ ready_queue' = ready_queue \o Longest(o)
    /\ holds' = [holds EXCEPT ![p] = @ \ {o}]
    /\ UNCHANGED <<active_proc, kpc, lock_list, cvar_list, reclaim_list, on,
                   args, lost>>

----------------------------------------------------------------------------
(* Condition variables *)

CvarSignal(p, id) ==
    LET o == cvar_list[Find(cvar_list, id)] IN
    /\ Calls(p)
    /\ Find(cvar_list, id) # 0
    /\ info' = [info EXCEPT ![o].waiting = list_remove(@, 1)]
    /\ ready_queue' = ready_queue \o Longest(o)
    /\ UNCHANGED <<active_proc, kpc, lock_list, cvar_list, reclaim_list, on,
                   args, holds, lost>>

CvarBroadcast(p, id) ==
    LET o == cvar_list[Find(cvar_list, id)] IN
    /\ Calls(p)
    /\ Find(cvar_list, id) # 0
    /\ info' = [info EXCEPT ![o].waiting = <<>>]
    /\ ready_queue' = ready_queue \o info[o].waiting
    /\ UNCHANGED <<active_proc, kpc, lock_list, cvar_list, reclaim_list, on,
                   args, holds, lost>>

\* There is no memory in the ready queue for one of those who are woken: the
\* first n are ready, the next is on no list, the others go on waiting.
LostOne(o, n) ==
    LET rest == SubSeq(info[o].waiting, n + 1, Len(info[o].waiting)) IN
    /\ AllocFails
    /\ rest # <<>>
    /\ info' = [info EXCEPT ![o].waiting = Tail(rest)]
    /\ ready_queue' = ready_queue \o SubSeq(info[o].waiting, 1, n)
    /\ lost' = Append(lost, Head(rest))
    /\ UNCHANGED <<active_proc, kpc, lock_list, cvar_list, reclaim_list, on,
                   args, holds>>

CvarSignalFail(p, id) ==
    /\ Calls(p)
    /\ Find(cvar_list, id) # 0
    /\ LostOne(cvar_list[Find(cvar_list, id)], 0)

CvarBroadcastFail(p, id) ==
    LET o == cvar_list[Find(cvar_list, id)] IN
    /\ Calls(p)
    /\ Find(cvar_list, id) # 0
    /\ \E n \in 0..Len(info[o].waiting) : LostOne(o, n)

\* The lock is released before the cvar is looked for, and stays released
\* when there is none.
CvarWait(p, cvar, lock) ==
    LET o == lock_list[Mine(p, lock)]
        c == cvar_list[Find(cvar_list, cvar)] IN
    /\ Calls(p)
    /\ Mine(p, lock) # 0
    /\ holds' = [holds EXCEPT ![p] = @ \ {o}]
    /\ IF Find(cvar_list, cvar) = 0
       THEN /\ info' = Released(o)
            /\ ready_queue' = ready_queue \o Longest(o)
            /\ UNCHANGED <<active_proc, kpc, args>>
       ELSE /\ info' = [Released(o) EXCEPT ![c].waiting = Append(@, p)]
            /\ kpc' = [kpc EXCEPT ![p] = "cvar"]
            /\ args' = [args EXCEPT ![p] = [lock |-> lock, cvar |-> cvar]]
            /\ normal_schedule(ready_queue \o Longest(o), p)
    /\ UNCHANGED <<lock_list, cvar_list, reclaim_list, on, lost>>

\* p waited for a cvar and is back: if there is still one with that id, it
\* acquires the lock with the id it released.
CvarWaitBack(p) ==
    LET i == Find(lock_list, args[p].lock) IN
    /\ active_proc = p /\ kpc[p] = "cvar"
    /\ IF Find(cvar_list, args[p].cvar) # 0 /\ i # 0
       THEN TakeOrWait(p, lock_list[i], args[p].lock, FALSE)
       ELSE Fail(p)
    /\ UNCHANGED <<lock_list, cvar_list, reclaim_list, lost>>

----------------------------------------------------------------------------
(* sys_Reclaim, destroy_lock_info, destroy_cvar_info *)

\* The loop that wakes those who wait for o counts up to a length that it
\* shortens: it wakes the first half of them.
WakeCount(o) == (Len(info[o].waiting) + 1) \div 2

\* o is freed after its waiters were woken, as far as they are.  Those who
\* are not stay on the list, which is not freed with it.
Destroy(o) ==
    /\ info' = [info EXCEPT ![o] =
                  [type |-> info[o].type, id |-> 0, locked |-> 0, pid |-> 0,
                   waiting |-> SubSeq(@.waiting, WakeCount(o) + 1,
                                      Len(@.waiting)),
                   freed |-> TRUE]]
    /\ ready_queue' = ready_queue \o SubSeq(info[o].waiting, 1, WakeCount(o))
    /\ holds' = [p \in Proc |-> holds[p] \ {o}]

NoOwnerCheck(p, id) == Find(lock_list, id)

\* A lock can be destroyed by its holder, or by anybody when it is free.
Destroyable(p, id) ==
    First({i \in 1..Len(lock_list) :
             LET l == info[lock_list[i]] IN
             l.id = id /\ (l.locked = 0 \/ l.pid = p)})

\* What the id belongs to is the type of the first reclaim_info with it.
Reclaim(p, id) ==
    LET r == First({i \in 1..Len(reclaim_list) : reclaim_list[i].id = id})
        i == Destroyable(p, id)
        j == Find(cvar_list, id) IN
    /\ Calls(p)
    /\ r # 0
    /\ \/ /\ reclaim_list[r].type = Lock /\ i # 0
          /\ Destroy(lock_list[i])
          /\ lock_list' = list_remove(lock_list, i)
          /\ UNCHANGED cvar_list
       \/ /\ reclaim_list[r].type = Cvar /\ j # 0
          /\ Destroy(cvar_list[j])
          /\ cvar_list' = list_remove(cvar_list, j)
          /\ UNCHANGED lock_list
    /\ reclaim_list' = list_remove(reclaim_list, r)
    /\ UNCHANGED <<active_proc, kpc, on, args, lost>>

----------------------------------------------------------------------------
Ids == 1..MaxObj

Next ==
    \/ \E p \in Proc :
          \/ LockInit(p)
          \/ CvarInit(p)
          \/ \E id \in Ids : Acquire(p, id)
          \/ AcquireBack(p)
          \/ \E id \in Ids : Release(p, id)
          \/ \E id \in Ids : CvarSignal(p, id)
          \/ \E id \in Ids : CvarBroadcast(p, id)
          \/ \E id \in Ids : CvarSignalFail(p, id)
          \/ \E id \in Ids : CvarBroadcastFail(p, id)
          \/ \E cvar, lock \in Ids : CvarWait(p, cvar, lock)
          \/ CvarWaitBack(p)
          \/ \E id \in Ids : Reclaim(p, id)
    \/ Preempt /\ UNCHANGED syncVars

Spec == Init /\ [][Next]_vars

----------------------------------------------------------------------------
(* Properties *)

Info == [type : {Lock, Cvar}, id : 0..MaxObj, locked : {0, 1}, pid : Proc,
         waiting : Seq(Proc), freed : BOOLEAN]

\* The kernel's variables hold what their declarations say.
TypeOK ==
    /\ active_proc \in Proc
    /\ ready_queue \in Seq(Proc)
    /\ kpc \in [Proc -> {"user", "acquire", "cvar"}]
    /\ info \in Seq(Info)
    /\ lock_list \in Seq(1..Len(info)) /\ cvar_list \in Seq(1..Len(info))
    /\ reclaim_list \in Seq([id : Ids, type : {Lock, Cvar}])
    /\ on \in [Proc -> [l : 0..Len(info), exist : BOOLEAN]]
    /\ args \in [Proc -> [lock : 0..MaxObj, cvar : 0..MaxObj]]
    /\ holds \in [Proc -> SUBSET (1..Len(info))]
    /\ lost \in Seq(Proc)

Blocked == UNION {On(info[o].waiting) : o \in 1..Len(info)}

\* Every process runs, is ready or waits for one lock or cvar, once; only
\* those whom a signal had no memory to make ready are on no list.
SingleResidence ==
    /\ PlacesOK(Blocked \cup On(lost))
    /\ NoDup(lost) /\ On(lost) \cap Blocked = {}
    /\ \A o \in 1..Len(info) : NoDup(info[o].waiting)
    /\ \A o, q \in 1..Len(info) :
          o # q => On(info[o].waiting) \cap On(info[q].waiting) = {}

\* A lock that was not reclaimed is held by the one process it was granted
\* to last, and by nobody while it is free: whoever is woken has to win it
\* again from those who came meanwhile, and l->pid of a free lock grants
\* nothing.
MutualExclusion ==
    \A o \in On(lock_list) :
        {p \in Proc : o \in holds[p]} =
            IF info[o].locked = 1 THEN {info[o].pid} ELSE {}

\* While a lock is free, somebody who was woken for it is on the way if
\* anybody waits for it: a wakeup that others overtake is not lost.
WakeupOnTheWay ==
    \A o \in On(lock_list) :
        info[o].locked = 0 /\ info[o].waiting # <<>> =>
            \E p \in On(ready_queue) \cup {active_proc} :
                kpc[p] = "acquire" /\ on[p].l = o

\* Whoever was granted a lock loses it in no step of another process: l->pid
\* is all that Release, CvarWait and Reclaim check, and it also names
\* processes that were only woken.
OnlyHolderLetsGo ==
    [][\A p \in Proc : holds[p] \subseteq holds'[p] \/ active_proc = p]_vars

\* Nobody waits for a lock or a cvar that is freed.
NoneLeftWaiting ==
    \A o \in 1..Len(info) : info[o].freed => info[o].waiting = <<>>

\* Whoever is back from waiting for a lock that was reclaimed finds that out.
ReclaimNoticed ==
    \A p \in Proc :
        active_proc = p /\ kpc[p] = "acquire" /\ info[on[p].l].freed
          => ~StillThere(p)

\* "Unblock all waiting processes and have them return ERROR"
\* (destroy_lock_info, destroy_cvar_info): Reclaim wakes all of them, and
\* none of them goes on with what was reclaimed.
WaitersUnblocked == NoneLeftWaiting /\ ReclaimNoticed
=============================================================================
