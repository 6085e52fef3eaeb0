# A verification of the SC0x3a Yalnix kernel

SC0x3a is a teaching kernel for the simulated Yalnix machine: one processor,
virtual memory, a clock, terminals. This directory holds TLA+ modules for its
core, the TLC models that check them, and proofs that the TLAPS proof system
checks. Everything is translated from the C sources one directory up, under
`src/`; `PROJECT.json` names the lines behind every definition.

## 1. Inventory

The kernel is a set of handlers. The machine interrupts user code, saves its
context, and calls a handler from the vector (`kernel.c`, `init_int_vector`);
no interrupt is taken inside the kernel. A handler runs to its end unless it
blocks: then it puts its process on some list and calls `normal_schedule`,
which switches to another process *in the middle of the handler*. The rest of
it runs when the process is switched in again. All concurrency of the kernel
lies there: what a handler read before the switch may be stale behind it.

| component | state | operations | what makes it correct |
|---|---|---|---|
| scheduler (`scheduler.c`, `normal_schedule`) | `active_proc`, `ready_queue` | `do_scheduler` at each tick, `normal_schedule` at each block | nobody lost or doubled, round robin, idle last, queue never empty |
| process life cycle (`syscall.c`) | pcb table, `ppid`, `children`, `wait_list`, `dead_list` | Fork, Exit, Wait; traps that kill | families consistent, every exited child collectable, no waiter stranded |
| clock and Delay | `sleep_list` | Delay, `update_sleep_list` | a Delay lasts as many ticks as asked for |
| semaphores | `sem_list`, `next_sem` | Custom0 / 1 / 2 | one return per signal, order, no lost wakeup |
| terminals | `io_list`, `busy_terminal`, `receive`, `string_len`, `state` and `tty_id` of pcbs | TtyRead, TtyWrite, receive and transmit traps | lines not mixed, writes end, readers get their line |
| locks, cvars, Reclaim | `lock_list`, `cvar_list`, `reclaim_list` | Init, Acquire, Release, Signal, Broadcast, Wait, Reclaim | mutual exclusion, no lost wakeup, ids unique, waiters of a reclaimed object released |
| pipes | `pipe_list` | PipeInit, PipeRead, PipeWrite | bytes in order, readers woken when there is enough |
| memory | page tables, `free_frames`, kernel break | Brk, memory trap, Fork, Exit, SetKernelBrk | no frame in two places, none lost |
| kernel context switch | kernel stacks in frames, `initial_ks` | `context_switch`, `init_proc_kernel`, `save_initial_kernel`, `return_initial_state` | a process goes on with its own kernel stack |
| boot | all of the above | KernelStart | a consistent first state |
| Exec, program loading | address spaces | Exec, `load_program` | old frames returned, new pages mapped, or the process ends |
| linked lists (`list.c`) | head, length | insert, remove, index | walks end |

The components interact through the ready queue and `active_proc`, through the
calls of `normal_schedule`, through the id space that locks, cvars and pipes
share, and through the free frames and the heap.

What is hard here: handlers that are cut in two by `normal_schedule` (Wait,
Acquire, CvarWait, PipeRead, TtyRead, TtyWrite); wakeups that come before,
between and after; list walks that modify the list they walk; allocation
failures in the middle of a handler; objects reclaimed while others wait for
them; next pointers that nobody initialised. `PROJECT.json` lists these under
"hazards", each at its line and with the properties that watch it.

## 2. Modules

    Scheduler          active_proc, ready_queue, list.c, the two schedulers
      Process          Fork, Exit, Wait, Delay, clock    --refines--> Dispatcher
      Tasks            a fixed set of processes for the modules below
        Semaphore      Custom0, Custom1, Custom2
        Tty            terminals and the terminal hardware
        Sync           locks, cvars, Reclaim
        Pipe           pipes and their Reclaim
      Memory           frames, page tables, Brk, Fork, Exec, Exit, kernel
                       stacks and the context switch, kernel heap, boot
    SchedulerProofs    lemmas about sequences and the scheduling step
      ProcessProofs    proofs about Process, the refinement included
      TasksProofs      who waits where: the argument shared by
        SemaphoreProofs, TtyProofs, SyncProofs, PipeProofs
      MemoryProofs     proofs about Memory
    MCProcess, MCSemaphore, MCTty, MCSync, MCPipe, MCMemory    what TLC needs

*Actions and atomicity.* An action is a handler from its entry, or from the
point behind `normal_schedule`, to its end or to its next `normal_schedule`.
Since the kernel is not interruptible this is exactly what other processes
can observe. `kpc[p]` says where p goes on: `"user"` in its program, otherwise
inside a call. The one handler that is cut finer is the clock's: `TrapClock`,
one `UpdateSleeper` for each turn of the loop in `update_sleep_list`, and
`ClockSchedule`, with `clock_i` as the loop's counter; while it is not 0
nothing else can happen. Calls that are refused and change nothing are
stuttering steps.

*Lists* are sequences of pids or records. `list_remove` with a location outside
the list removes nothing, as in `list.c`, and this matters: sys_Wait relies on
it without knowing.

*Undefined behaviour* is a choice. A freed `dead_info` that is still on the dead
list matches or does not match any caller (`MayMatch`, `MayMiss`); `l->locked`
of a freed lock reads as anything (`Locked`); the walk over a children list may
meet a stray node behind the last one (`Strays`); the word behind
`busy_terminal` is 0 or 1. One read after a free is taken to be harmless:
`update_sleep_list` follows the second word of a node it has just freed, which
the allocator the kernel was built with leaves alone. So is the second free of a
`dead_info` that sys_Wait meets again on the dead list (`syscall.c:212`). A stray
node holds pids that the pcb table has; for others `get_pcb` returns NULL and the
exiting process would fault in the kernel (`syscall.c:278`), which ends the run.

`sys_PipeRead` frees a pointer it has moved, which ruins the heap or not
(`FreeMoved`), and reads anything from a pipe that was freed (`MayLack`,
`MayHave`). Where the kernel writes behind its tables or resumes a kernel
context that does not exist, `panic` becomes true and nothing more happens.

*Allocation failures* happen, under `AllocFails`, where the code checks for
them and something is left behind: in Fork, Exit, Custom0, PipeInit, LockInit,
CvarInit, CvarSignal, CvarBroadcast, TtyRead and TtyWrite. A TtyWrite that finds
no memory to wait returns ERROR, with its line on the way out if it had started
the terminal (`BlockOn`); a signal that finds none loses the process it took off
the cvar's list (`LostOne`); a LockInit or CvarInit whose reclaim node fails
leaves a lock or cvar in use whose id is given once more (`Register`). A checked
failure before anything was changed is a refused call. The other calls of
`list_insert` are not checked; a failure there strands a process, trivially, and
is listed as a hazard only.

*History variables* that the code does not have: `due` (ticks a Delay should
still last), `signals` and `passed` (of a semaphore), `line` and `got`
(of terminals), `holds` (locks granted), `lost` (processes a signal had no memory
to make ready), `sent` and `taken` (bytes of a pipe),
`resumed` (whose kernel stack was saved). Nothing the kernel does depends on
them. `transmitting` is the terminal hardware.

*Memory.* A page table is a function from pages to frames, or to `NoFrame` where
`valid` is 0. In the pcb the two entries of the kernel stack lie right behind
the user's page table, and an index that runs over the one reaches the other;
so both are one function. Every loop around `grab_a_frame` that stops at the
first failure is an instance of `Granted` (how far it gets), `Left` (the list it
leaves) and `Mapped` (the table it leaves); the free list is last in, first out,
and a frame 0 on it looks like its end. What a frame holds is tracked for kernel
stacks only: `content` says whose stack was copied into it, and a running
process overwrites all its own pages (`Written`). A program is what
`load_program` computes from its header: where text, data and stack go.
`Block` and `Wake` stand for all the calls that give up the processor, since
which list a process is on makes no difference to its memory. `SetKernelBrk` is an
action between handlers, although malloc calls it inside them: it takes the
same frames a moment earlier or later. The kernel copies frames through
`pfn << PAGESHIFT`; that this address reaches the frame with virtual memory on is
taken from the code, the machine not being part of the repository.

`Process`, `Memory` and the modules over `Tasks` share `Scheduler` but are not
composed with each other: `Memory` has the Fork and Exit of frames, `Process`
that of families; `Tasks` fixes the processes, so that the state space is
spent on the blocking calls. `Dispatcher` is the abstract specification: a
running process and sets of ready and blocked ones, without queues.

## 3. Runs

Passing runs, with the bounds and why they suffice:

- **MCProcess** (pids 0..4, Delay up to 2, failures, one stray node; 189,000
  states): init, idle and three more processes make a parent, two siblings and
  a grandchild or stranger; Delays of 1 and 2 put an expiring sleeper in front
  of and behind one that is not. Places of processes, idle, exact delays, round
  robin, and the refinement of `Dispatcher`.
- **MCFamily** (pids 0..4, Delay 1, no failures, fairness; 20,000 states):
  families and liveness. Failures are excluded because the code does break
  families when memory runs out: a failed Fork leaves a child that is never born.
- **MCSemaphore** (pids 0..4, two semaphores, two signals each; 19,000 states):
  three waiters for one semaphore, signals before and after waits, an id lost to
  a failed creation. Deadlock is not checked: a bad id may stop the kernel.
- **MCTty** (pids 0..3, two terminals and the id behind them, two writes of up to
  two lines, one line of input, failures; 3,120,000 states): three processes make
  a sender, a writer kept out and a reader, on the same or on different terminals,
  each of which may find no memory to wait. Lines that fill the buffer are left to
  MCTtyReceive: only the length a reader gets depends on them.
  Deadlock is not checked: the receive handler can hang the kernel, see
  MCTtyReceive.
- **MCSync** (pids 0..3, three objects, failures; 1,850,000 states): a holder and
  two waiters, the fewest for which Reclaim leaves somebody behind, and three
  locks or cvars, the fewest for which Reclaim makes an id be handed out while it
  is in use. The first object (`MaxHalf` = 1) may be registered half, which is
  enough for the other two to share its id; signals and broadcasts may fail
  at any time.
- **MCPipe** (pids 0..3, buffer of 2 bytes, two pipes, reads and writes of 0 to 2
  bytes, three bytes for each pipe, a failing PipeInit; 1,286,000 states): three
  processes make a writer and two readers that ask for different amounts; a
  third byte comes after the buffer was full and partly read, so that a write
  is cut short and what is left is moved; two pipes with a failure in between
  have the same id. Deadlock is not checked: all may wait for bytes, and the
  ruined heap ends the model.
- **MCMemory** (pids 0..3, tables of 5 pages, 17 frames of which the boot leaves
  5, two Brks, stack growths or Execs; 329,000 states): a child costs four
  frames and idle's kernel stack two, so every call meets the end of the free
  list, at every one of its grabs. The addresses put a Brk below the table, in
  it and over its end; a page is two address units long, so that one of the
  kernel's breaks lies inside a page. The bound on calls is needed because
  each one permutes the free list. Deadlock is not checked: the kernel may panic.

Runs that find a violation state what a comment, a test or the ReadMe says of
the code, and show that the code does not do it; "findings" in `PROJECT.json`
quotes the line. In short:

- **MCWait** (`WaitFindsChild`): Wait refuses a parent whose last child has
  already exited. The property has a second half that fails as well
  (`DeadListAllocated`): Wait's second walk, whose counter is stale, leaves a
  freed entry on the dead list, or removes another child's.
- **MCTtyReceive** (`InputDelivered`): the receive handler loops for ever when
  the first process on `io_list` waits for something else. The second half
  (`ReadsOneLine`) fails as well: a read can return one line with another's
  length, as `string_len` is shared by all terminals.
- **MCTtyStuck** (`WriteEnds`): a writer kept out of a busy terminal is never woken.
- **MCSyncReclaim** (`WaitersUnblocked`): Reclaim wakes half of the waiters. The
  second half (`ReclaimNoticed`) fails as well: a process that waited twice does
  not notice that its lock was reclaimed, and is granted it.
- **MCPipeStranded** (`WaitsForBytes`): a reader sleeps at a pipe that holds its
  bytes, because the write woke another one that wanted more.

Other deviations are part of the models without a run of their own: a failed
Fork leaves a child that never runs among its caller's children (`ForkFail`), an
exiting process may orphan a stranger (`Strays`), a bad semaphore id can take the
kernel through NULL (`NoSuchSem`), terminal NUM_TERMINALS is accepted
(`AcceptedIds`), and lock, cvar and pipe ids are reused while in use (`NewId`).
A read from a reclaimed pipe can go on with the freed structure, and one of more
than PIPE_BUF_SIZE bytes never ends. In `Memory`: a stack that grows without
frames is mapped to frame 0, the kernel's first page, and frame 0 gets on the
free list, where it makes the next allocation fail although frames are left;
Brk checks no upper or lower limit, maps over the stack and over the entries of
the kernel stack, and never returns a frame; a failed Fork keeps its frames for
ever; an Exec that runs out of frames returns ERROR to a program that is gone,
against "we are committed to either loading succesfully or killing the process"
(`loadprogram.c:146`), and KILL counts as success; without frames for idle's
kernel stack the first block of everybody ends the kernel. The passing runs
check that the other properties survive these.

Known and left out: a write of several lines sends the first one again and
again (`syscall.c:555`); a line nobody reads is overwritten by the next
(`trap.c:153`); `free` runs inside `malloc` when the kernel's heap grows
(`kernel.c:124`); CvarWait for a cvar that does not exist returns with the
lock released (`syscall.c:1215`).

*Fairness.* Kernel code that is under way goes on: weak fairness of the clock
handler's steps and of the second halves of calls. Interrupts are delivered
when user code runs, and programs may make system calls back to back, so an
interrupt is enabled again and again rather than for ever; but the machine
keeps it pending and delivers it on return to user mode, before another
instruction, hence strong fairness of `TrapClock`, and in `Tty` of the transmit
trap and the clock. No program is assumed to do anything: none has to exit,
release or signal.

Every property of a passing run has a mutant in `PROJECT.json`: a definition and
a plausible wrong form of it, defined just before it in the module, with which
the run fails. The wrong forms are used by nothing else.

## 4. Proofs

Every property of every passing run is a theorem, for every value of the
constants within the named assumptions, except the two liveness properties.
The assumptions only give the constants their ranges: at least init and idle
(`MaxPid` >= 1; over `Tasks` at least one more process), at least one terminal,
natural numbers for sizes and bounds; in `Memory` that the kernel's data fit below its
stack, that the programs the boot loads fit into a page table, that there are
frames for the boot, and that in every program the text pages lie below the data
pages (`MemoryAssumption`): `load_program` does not check this, the linker lays
programs out like that. `AllocFails` is any Boolean, so the theorems about Tty and
Sync hold with and without failures; `MaxHalf` is any natural number. TLC evaluates them in the runs. Each inductive
invariant was first checked by TLC as an invariant of the component's run.
A proof module has a lemma for each action, or for each group of actions with
the same effect, that it preserves `Inv`; the theorems follow from these.

**SchedulerProofs** says what appending, concatenating, `list_remove`,
`RemoveFirst`, `SkipIdle` and `Dispatch` do to the set of what is on a list and
to its freedom from duplicates.

**ProcessProofs**

- `TypeCorrect`, `Residence` (`SingleResidence`), `IdleNeverLost` (`IdleReady`) and
  `DelayExact` (`SleepExact`) are parts of `Inv`, which adds two more.
  `PidsInOrder`: exactly the pids from `next_pid` on are unborn, without which
  Fork could put a live process on the ready queue a second time.
  `SleepCounted` extends `SleepExact` into the clock handler: sleepers before
  `clock_i` have been counted down in this tick and those from `clock_i` on have
  not, so their `ticks_left` is one ahead of `due`. `IdleReady` is needed for
  `SingleResidence` itself: with an empty ready queue a blocking call would
  leave its caller running and on a list. `ResidenceAsSets` restates
  `SingleResidence` in terms of sets, `ScheduleFacts` says that from a queue with
  idle in it both schedulers take one member to run and leave the others.
- `IdleLast` (`IdleIsLastResort`), `RoundRobin` (`NoOvertaking`) and
  `ImplementsDispatcher` (`DispatcherSpec`, the refinement) are about steps. The
  lemmas `BlockMoves` to `OtherMoves` sort the actions by what they do to the
  running process and the queue; the three theorems go through these few cases.
  For `NoOvertaking` it is shown that appending, taking the head and skipping
  idle keep the order of those who stay.
- `FamilyAgrees` (`FamilyConsistent`), `WaitNotInVain` (`WaiterHasLiveChild`) and
  `ParentWoken` (`ExitWakesParent`) hold under the hypothesis `Reliable`: no
  allocation fails and no walk meets a stray node. This is the setting of
  MCFamily and it cannot be dropped: a Fork or Exit that runs out of memory half
  way really leaves children lists and parent pointers in disagreement.
  `FamilyInv` adds `UnbornChildless` to the two invariants: the process that
  Fork makes starts without children.

**TasksProofs** holds the argument that the four modules over `Tasks` share.
`Housed(a, q, D, W)` says that everybody runs, is ready or is on one of the waiting
lists `W`, once, and that idle never waits. Its lemmas show that it survives a
new list, waking the first or several of a list, blocking the caller, and
preemption.

**SemaphoreProofs**: `TypeCorrect`, `Residence`, `WaitersExact` (`WaitersCounted`),
`SignalsConserved` (`OneReturnPerSignal`), `ServedInOrder`
(`FirstComeFirstServed`). `Inv` has `IdsInOrder` (an id names one semaphore, and
nobody has used those to come) and `Balance`: for each semaphore, signals =
waits that returned + count + those who wait. `OneReturnPerSignal` is an
inequality that no step preserves by itself; the equation is.

**TtyProofs**: `TypeCorrect`, `Residence`, `FlagExact` (`BusyWhileSending`),
`WriterBlocked` (`BlockedWhileSending`), `OneLineAtATime` (`NoDupWriting`),
`WokenRightly` (`WokenByOwnTerminal`). `BlockedWhileSending` is about a write that
waits for the end of its line: one that found no memory to wait has returned, and
its terminal goes on sending. `Inv` has `SenderWaits`: a process that waits for its
line is, until the line is out, on `io_list` as BLOCKED_W for that terminal. That is
more than `BlockedWhileSending`, and is why no other terminal's trap wakes it.

**SyncProofs**: `TypeCorrect`, `Residence`, `MutualExclusionHolds`, `NoLostWakeup`
(`WakeupOnTheWay`), `NobodyElseLetsGo` (`OnlyHolderLetsGo`), freed structures and
reused ids and failed signals included. For the residence `Places` counts `lost` as
one more list, with index 0, next to the lists of the structures: then a signal
that fails moves a process from one list to another. `ListsOK` says that the two lists hold each structure once
and none that was freed; `FramesOK` ties the lock that an interrupted `sys_Acquire`
works on to the id it looks for when it goes on; `WaitersAcquire` says that
whoever waits for a lock on the list is inside that call, so that waking it gives a
process that will try again.

**PipeProofs**: `TypeCorrect`, `Residence`, `BytesInOrder` (`FirstInFirstOut`, with the
bound on the buffer), `NoLostWakeup` (`LoneReaderWoken`). A buffer is a sequence:
the pointer arithmetic by which a read moves what is left (`syscall.c:729`) is
abstracted by `Rest`. `FramesOK` and
`WaitersRead` do for `sys_PipeRead` what their counterparts do in `SyncProofs`.

**MemoryProofs**: `TypeCorrect`, `OneUse` (`FramesExclusive`), `StackIsMine` (`OwnStack`),
`HeapIsMapped` (`KernelHeapMapped`), `ZeroStaysOut` (`ZeroOnlyWhenExhausted`) and
`NothingLost` (`FramesReturned`). The parts of `Inv` and what they are for:

- `Exclusive(Holdings)`: the processes' tables, the free list, the kernel's table,
  the copy of the first kernel stack and the live kernel stack share no frame
  but 0. A handler moves
  frames between two or three of these; `Moved` and `Draws` say so, whatever
  the number of frames it got, and `ExchangeFacts` shows once that such a move
  keeps the holders apart.
- `Unborn`: the table of a pid to come is empty, so that Fork, which fills it,
  overwrites nothing.
- `Going`: until a panic, the ready queue has no duplicates and holds idle
  unless idle runs (`Queued`), only born processes are on it (`Born`), and the
  frames of a saved kernel stack still hold it (`StacksKept`). Without the last
  `OwnStack` is not inductive: it says nothing of a process before its switch.
- `HeapHeld`: the break stays below the kernel's stack, for the page that a
  break inside a page belongs to.

The two action properties are shown action by action from `Keeps` (a frame
that leaves a table or the list is in the other afterwards, or another was
mapped over it) and `Clears` (frame 0 comes in only when the list is used up).

*Only model-checked*: `ReadyRuns` and `DelayEnds`, since liveness under fairness is
out of the prover's reach; and the runs that find a violation, which are
counterexamples.

## 5. Plan

1. done: Scheduler, Process, Dispatcher; Semaphore, Tty, Sync over Tasks; Pipe;
   Memory with the context switch, Exec, the boot and the kernel's heap.
2. done: proofs of all safety invariants and action properties of the passing
   runs, and of the refinement of Dispatcher.
3. Process with Sync: processes that exit while they hold a lock.

## 6. Not modelled

What is in a page: program text, arguments, the bytes Fork copies; TLB flushes
and page protections; the disk trap, which does nothing; the wording of traces;
argument checks on user pointers, which only refuse calls; processes that exit
while they hold a lock. The user programs are test drivers: the models allow every process every call
at any time.
