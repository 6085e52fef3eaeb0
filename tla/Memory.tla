------------------------------- MODULE Memory -------------------------------
(***************************************************************************)
(* Physical frames and who uses them: the free list, the page tables of    *)
(* the processes and of the kernel, and the kernel stacks that a context   *)
(* switch copies.  Brk, the memory trap, Fork, Exec, Exit, SetKernelBrk,   *)
(* the clock, and the part of the boot that hands out frames.              *)
(*                                                                         *)
(* A page table maps a page to a frame, or to NoFrame where valid is 0.    *)
(* k_stack_pt lies right behind u_page_table in the pcb, and an index      *)
(* behind the one reaches the other: both are one function here, with the  *)
(* kernel stack at NPages and NPages + 1.                                  *)
(*                                                                         *)
(* Addresses of a process count from VMEM_1_BASE.  Programs are what       *)
(* load_program computes from their header and arguments.                  *)
(***************************************************************************)
EXTENDS Scheduler, FiniteSets

CONSTANTS
    MaxPid,         \* bound: last pid
    PAGESIZE,
    NPages,         \* USER_PAGETABLE_SIZE, which is also MAX_PT_LEN
    KPages,         \* KERNEL_PAGETABLE_SIZE
    TotalFrames,    \* total_frames
    BootBrk,        \* kernel_brk when the frames are gathered
    UserAddrs,      \* bound: addresses in Brk and in memory traps
    KernelBrks,     \* bound: addresses the kernel's malloc asks for
    MaxCalls,       \* bound: Brks, stack growths and Execs together
    Programs, InitProgram, IdleProgram

Pid == 0..MaxPid
Frame == 0..TotalFrames - 1
Page == 0..NPages + 1
NoFrame == -1

StackBase == KPages - 2     \* KERNEL_STACK_BASE

DownToPage(addr) == addr \div PAGESIZE
UpToPage(addr) == (addr + PAGESIZE - 1) \div PAGESIZE

Program == [text_pg1 : 0..NPages, t_npg : 0..NPages,
            data_pg1 : 0..NPages, data_npg : 0..NPages, stack_npg : 1..NPages]

VARIABLES
    free_frames,
    next_pid,
    page_table,     \* u_page_table and k_stack_pt of every pcb
    next_heap_pn, next_stack_pn,
    krnl_page_table,    \* below the stack; the kernel stack is never remapped
    kernel_brk,
    initial_ks,     \* frames of the copy of the first kernel stack
    content,        \* whose kernel stack a frame holds
    kstack,         \* whose kernel stack the two stack pages hold
    resumed,        \* history: whose kernel stack was saved since Fork or Exec
    panic,          \* the kernel wrote or jumped where nothing is known
    calls           \* Brks, stack growths and Execs so far

tables == <<page_table, next_heap_pn, next_stack_pn>>
kernelVars == <<krnl_page_table, kernel_brk, initial_ks>>
stackVars == <<content, kstack, resumed>>
vars == <<schedVars, free_frames, next_pid, tables, kernelVars, stackVars,
          panic, calls>>

\* What a frame or the live stack holds besides the stack of a process.
Junk == -1
Initial == -2

----------------------------------------------------------------------------
(* Runs of pages; grab_a_frame in a loop that ends at the first failure *)

Up(first, n) == [k \in 1..n |-> first + k - 1]
Down(first, n) == [k \in 1..n |-> first - k + 1]
KStack == <<NPages, NPages + 1>>

\* How many of n frames are got: a frame 0 on the list is taken off, and
\* then looks like an empty list.
Granted(free, n) ==
    Cardinality({k \in 1..n : k <= Len(free) /\ \A j \in 1..k : free[j] # 0})

Left(free, n) ==
    LET g == Granted(free, n) IN
    SubSeq(free, IF g = n THEN n + 1 ELSE g + 2, Len(free))

\* Table t with the first pages mapped as far as frames are got for them.
Mapped(t, pages, free) ==
    LET n == Granted(free, Len(pages)) IN
    [i \in DOMAIN t |->
        LET K == {k \in 1..n : pages[k] = i} IN
        IF K = {} THEN t[i] ELSE free[CHOOSE k \in K : TRUE]]

\* list_insert at location 1, one after the other.
Push(frames, free) ==
    [k \in 1..Len(frames) |-> frames[Len(frames) + 1 - k]] \o free

\* A set of numbers in ascending order.
InOrder(S) ==
    [k \in 1..Cardinality(S) |->
        CHOOSE i \in S : Cardinality({j \in S : j <= i}) = k]

\* A walk over the pages of S meets these that are valid, with these frames
\* behind them.
ValidPages(t, S) == InOrder({i \in S : t[i] # NoFrame})
ValidPfns(t, S) ==
    LET v == ValidPages(t, S) IN [k \in 1..Len(v) |-> t[v[k]]]

AllPfns(t) ==
    [k \in 1..NPages + 2 |-> IF t[k - 1] = NoFrame THEN 0 ELSE t[k - 1]]

----------------------------------------------------------------------------
(* load_program: text, data, then the stack from the top down *)

UserPages == 0..NPages - 1

ProgramPages(g) ==
    Up(g.text_pg1, g.t_npg) \o Up(g.data_pg1, g.data_npg)
        \o Down(NPages - 1, g.stack_npg)

\* "leave at least one page between heap and stack"
Fits(g) == g.stack_npg + g.data_pg1 + g.data_npg < NPages

\* With all pages mapped load_program does not return ERROR any more: it
\* reads the file and returns 0 or KILL, which its caller does not tell apart.
Loaded(g, n) == n = Len(ProgramPages(g))

\* The two break pages once n pages are mapped.
HeapLoaded(g, n, old) ==
    IF n >= g.t_npg + g.data_npg THEN g.data_pg1 + g.data_npg ELSE old

StackAtLimit(g, n, old) == IF Loaded(g, n) THEN NPages ELSE old

StackLoaded(g, n, old) ==
    IF Loaded(g, n) THEN NPages - 1 - g.stack_npg ELSE old

StillValid(t) == t

Cleared(t) == [i \in Page |-> IF i < NPages THEN NoFrame ELSE t[i]]

----------------------------------------------------------------------------
(* KernelStart *)

\* The frames above the kernel's pages, and those between its break and its
\* stack.
gather_free_frames ==
    Down(TotalFrames - 1, TotalFrames - KPages)
        \o Down(StackBase - 1, StackBase - UpToPage(BootBrk))

enable_vmem ==
    [i \in 0..StackBase - 1 |-> IF i < DownToPage(BootBrk) THEN i ELSE NoFrame]

\* How many frames the boot takes: init's kernel stack, the two programs and
\* the copy of the kernel stack.
BootFrames ==
    Len(ProgramPages(InitProgram)) + Len(ProgramPages(IdleProgram)) + 4

ASSUME MemoryAssumption ==
    /\ MaxPid \in Nat /\ MaxPid >= 1
    /\ PAGESIZE \in Nat \ {0} /\ NPages \in Nat \ {0}
    /\ KPages \in Nat /\ TotalFrames \in Nat /\ KPages <= TotalFrames
    /\ BootBrk \in Nat /\ PAGESIZE <= BootBrk
    /\ UpToPage(BootBrk) <= StackBase
    /\ MaxCalls \in Nat /\ UserAddrs \subseteq Int /\ KernelBrks \subseteq Nat
    /\ {InitProgram, IdleProgram} \subseteq Programs
    /\ Programs \subseteq Program
    /\ \A g \in Programs : g.text_pg1 + g.t_npg <= g.data_pg1
    /\ Fits(InitProgram) /\ Fits(IdleProgram)
    /\ BootFrames <= Len(gather_free_frames)

NoPages == [i \in Page |-> NoFrame]

InitPages == KStack \o ProgramPages(InitProgram)
IdlePages == ProgramPages(IdleProgram)

\* The page tables of the two processes; idle has no kernel stack yet, only
\* two 0s in its k_stack_pt.
init_init(free) == Mapped(NoPages, InitPages, free)

init_idle(free) ==
    Mapped([NoPages EXCEPT ![NPages] = 0, ![NPages + 1] = 0], IdlePages, free)

\* The frames of the copy of the kernel stack.
save_initial_kernel(free) == SubSeq(free, 1, 2)

Init ==
    LET free0 == gather_free_frames
        free1 == Left(free0, Len(InitPages))
        free2 == Left(free1, Len(IdlePages)) IN
    /\ active_proc = InitPid
    /\ ready_queue = <<Idle>>
    /\ next_pid = 2
    /\ page_table = [p \in Pid |-> CASE p = InitPid -> init_init(free0)
                                    [] p = Idle -> init_idle(free1)
                                    [] OTHER -> NoPages]
    /\ next_heap_pn = [p \in Pid |->
          CASE p = InitPid -> HeapLoaded(InitProgram, Len(ProgramPages(InitProgram)), 0)
            [] p = Idle -> HeapLoaded(IdleProgram, Len(IdlePages), 0)
            [] OTHER -> 0]
    /\ next_stack_pn = [p \in Pid |->
          CASE p = InitPid -> StackLoaded(InitProgram, Len(ProgramPages(InitProgram)), 0)
            [] p = Idle -> StackLoaded(IdleProgram, Len(IdlePages), 0)
            [] OTHER -> 0]
    /\ krnl_page_table = enable_vmem
    /\ kernel_brk = BootBrk
    /\ initial_ks = save_initial_kernel(free2)
    /\ free_frames = Left(free2, 2)
    /\ content = [f \in Frame |-> IF f \in On(initial_ks) THEN Initial ELSE Junk]
    /\ kstack = <<Initial, Initial>>
    /\ resumed = {}
    /\ panic = FALSE
    /\ calls = 0

Calls(p) == active_proc = p /\ p # Idle /\ ~panic

\* A call of which there are at most MaxCalls.
Counted(p) == Calls(p) /\ calls < MaxCalls /\ calls' = calls + 1

\* Undefined behaviour; nothing is said of what follows.
Panic ==
    /\ panic' = TRUE
    /\ UNCHANGED <<free_frames, next_pid, tables, kernelVars, stackVars>>

----------------------------------------------------------------------------
(* scheduler.c context_switch *)

NeverFirst(t) == FALSE

\* Is this the first switch to the process with table t?
NoStackYet(t) == t[NPages] = 0

\* The contents of the frames once every user page of table t was written
\* to; then once the initial kernel stack was copied to that of t, or the
\* live one of process old was saved there.
Written(t) ==
    [f \in Frame |-> IF \E i \in 0..NPages - 1 : t[i] = f THEN Junk ELSE content[f]]

CopiedTo(c, t) ==
    [c EXCEPT ![t[NPages]] = c[initial_ks[1]],
              ![t[NPages + 1]] = c[initial_ks[2]]]

SavedTo(c, t, old) ==
    [c EXCEPT ![t[NPages]] = old, ![t[NPages + 1]] = old]

\* The live kernel stack when that of t, or the initial one, is copied to it.
StackOf(c, t) == [i \in 1..2 |-> c[t[KStack[i]]]]
return_initial_state == [i \in 1..2 |-> content[initial_ks[i]]]

\* From old, NoProc for NULL, to the process that the scheduler chose; pt
\* and free are the tables and the free list so far.
context_switch(old, pt, free) ==
    LET new == active_proc'
        first == NoStackYet(pt[new])
        pt1 == IF first THEN [pt EXCEPT ![new] = Mapped(@, KStack, free)] ELSE pt
        c0 == Written(page_table[active_proc])
        c1 == IF first THEN CopiedTo(c0, pt1[new]) ELSE c0
        c2 == IF old = NoProc THEN c1 ELSE SavedTo(c1, pt1[old], old) IN
    \/ /\ first /\ Granted(free, 2) < 2
       /\ Panic
    \/ /\ first => Granted(free, 2) = 2
       /\ page_table' = pt1
       /\ free_frames' = IF first THEN Left(free, 2) ELSE free
       /\ content' = c2
       /\ kstack' = StackOf(c2, pt1[new])
       /\ resumed' = (resumed \ {active_proc}) \cup ({old} \ {NoProc})
       /\ UNCHANGED <<next_pid, next_heap_pn, next_stack_pn, kernelVars, panic>>

\* The clock interrupt.
Clock ==
    /\ ~panic /\ UNCHANGED calls
    /\ do_scheduler
    /\ IF ready_queue # <<>>
       THEN context_switch(active_proc, page_table, free_frames)
       ELSE UNCHANGED <<free_frames, next_pid, tables, kernelVars, stackVars,
                        panic>>

\* Any call that blocks, and any handler that ends the wait: on which list
\* the process is meanwhile is nothing to the memory.
Block(p) ==
    /\ Calls(p) /\ UNCHANGED calls
    /\ normal_schedule(ready_queue, p)
    /\ context_switch(p, page_table, free_frames)

Blocked == resumed \ ({active_proc} \cup On(ready_queue))

Wake(p) ==
    /\ ~panic
    /\ p \in Blocked
    /\ ready_queue' = Append(ready_queue, p)
    /\ UNCHANGED <<active_proc, free_frames, next_pid, tables, kernelVars,
                   stackVars, panic, calls>>

----------------------------------------------------------------------------
(* sys_Brk, trap_memory_hdl *)

\* A write outside the two tables of the pcb hits its other fields or the
\* heap behind it.
Brk(p, addr) ==
    LET pn_end == UpToPage(addr)
        pages == Up(next_heap_pn[p], pn_end - next_heap_pn[p])
        n == Granted(free_frames, Len(pages)) IN
    /\ Counted(p)
    /\ UNCHANGED schedVars
    /\ \/ /\ \E k \in 1..n : pages[k] \notin Page
          /\ Panic
       \/ /\ \A k \in 1..n : pages[k] \in Page
          /\ page_table' = [page_table EXCEPT ![p] = Mapped(@, pages, free_frames)]
          /\ free_frames' = Left(free_frames, Len(pages))
          /\ next_heap_pn' =
                [next_heap_pn EXCEPT ![p] = IF n = Len(pages) THEN pn_end ELSE @]
          /\ UNCHANGED <<next_pid, next_stack_pn, kernelVars, stackVars, panic>>

GrowsTo(addr) == DownToPage(addr) - 1

StackGrowth(p, addr) ==
    GrowsTo(addr) <= next_stack_pn[p] /\ GrowsTo(addr) > next_heap_pn[p]

\* The stack grows; a page for which there is no frame is mapped to frame 0.
\* With a heap break below region 1 it may grow out of its table.
TrapMemory(p, addr) ==
    LET top == next_stack_pn[p]
        n == top - GrowsTo(addr)
        Got(k) == IF k <= Len(free_frames) THEN free_frames[k] ELSE 0 IN
    /\ Counted(p)
    /\ StackGrowth(p, addr)
    /\ UNCHANGED schedVars
    /\ \/ /\ GrowsTo(addr) < -1
          /\ Panic
       \/ /\ GrowsTo(addr) >= -1
          /\ page_table' = [page_table EXCEPT ![p] =
                [i \in Page |-> IF i \in top - n + 1..top THEN Got(top - i + 1)
                                ELSE @[i]]]
          /\ free_frames' = SubSeq(free_frames, n + 1, Len(free_frames))
          /\ next_stack_pn' = [next_stack_pn EXCEPT ![p] = top - n]
          /\ UNCHANGED <<next_pid, next_heap_pn, kernelVars, stackVars, panic>>

----------------------------------------------------------------------------
(* sys_Fork, sys_Exec, sys_Exit *)

\* The pages of p that the child gets a copy of.
CopyPages(p) == ValidPages(page_table[p], UserPages)

\* The page for which no frame is left is valid already, with pfn 0: ERROR,
\* and a child that never runs.  No frames for the kernel stack:
\* init_proc_kernel returns no value and the machine goes on in whatever
\* kernel context that is.
Fork(p) ==
    LET pages == KStack \o CopyPages(p)
        n == Granted(free_frames, Len(pages))
        mapped == Mapped(NoPages, pages, free_frames)
        child == IF n = Len(pages) THEN mapped
                 ELSE [mapped EXCEPT ![pages[n + 1]] = 0] IN
    /\ Calls(p)
    /\ next_pid <= MaxPid
    /\ UNCHANGED <<active_proc, calls>>
    /\ \/ /\ n < 2
          /\ Panic /\ UNCHANGED ready_queue
       \/ /\ n >= 2
          /\ next_pid' = next_pid + 1
          /\ page_table' = [page_table EXCEPT ![next_pid] = child]
          /\ free_frames' = Left(free_frames, Len(pages))
          /\ content' = CopiedTo(Written(child), child)
          /\ IF n = Len(pages)
             THEN /\ next_heap_pn' = [next_heap_pn EXCEPT
                                        ![next_pid] = next_heap_pn[p]]
                  /\ next_stack_pn' = [next_stack_pn EXCEPT
                                        ![next_pid] = next_stack_pn[p]]
                  /\ ready_queue' = Append(ready_queue, next_pid)
             ELSE UNCHANGED <<next_heap_pn, next_stack_pn, ready_queue>>
          /\ UNCHANGED <<kernelVars, kstack, resumed, panic>>

\* The old pages are freed before the new ones are mapped.  Without enough
\* frames the process gets its ERROR with what was mapped until then.
Exec(p, g) ==
    LET pages == ProgramPages(g)
        free == Push(ValidPfns(page_table[p], UserPages), free_frames)
        n == Granted(free, Len(pages)) IN
    /\ Counted(p)
    /\ Fits(g)
    /\ page_table' = [page_table EXCEPT ![p] = Mapped(Cleared(@), pages, free)]
    /\ free_frames' = Left(free, Len(pages))
    /\ next_heap_pn' = [next_heap_pn EXCEPT ![p] = HeapLoaded(g, n, @)]
    /\ next_stack_pn' = [next_stack_pn EXCEPT ![p] = StackLoaded(g, n, @)]
    /\ kstack' = IF Loaded(g, n) THEN return_initial_state ELSE kstack
    /\ resumed' = IF Loaded(g, n) THEN resumed \ {p} ELSE resumed
    /\ UNCHANGED <<schedVars, next_pid, kernelVars, content, panic>>

\* The frames Exit hands back.
UserPagesOnly(p) == ValidPfns(page_table[p], UserPages)
InvalidToo(p) == AllPfns(page_table[p])
ExitFrees(p) == ValidPfns(page_table[p], Page)

\* Also the end of every trap that kills, and of a memory trap that is not
\* for the stack to grow.
Exit(p) ==
    /\ Calls(p) /\ UNCHANGED calls
    /\ normal_schedule(ready_queue, NoProc)
    /\ context_switch(NoProc, [page_table EXCEPT ![p] = NoPages],
                      Push(ExitFrees(p), free_frames))

----------------------------------------------------------------------------
(* SetKernelBrk, as the kernel's malloc calls it *)

BrkAnyway(got, pages, addr) == addr

\* The break that is left when so many of the pages got a frame.
NewKernelBrk(got, pages, addr) == IF got = pages THEN addr ELSE kernel_brk

SetKernelBrk(addr) ==
    LET pn_start == DownToPage(kernel_brk)
        pages == Up(pn_start, DownToPage(addr) - pn_start)
        n == Granted(free_frames, Len(pages)) IN
    /\ ~panic
    /\ addr > kernel_brk /\ addr < StackBase * PAGESIZE
    /\ krnl_page_table' = Mapped(krnl_page_table, pages, free_frames)
    /\ free_frames' = Left(free_frames, Len(pages))
    /\ kernel_brk' = NewKernelBrk(n, Len(pages), addr)
    /\ UNCHANGED <<schedVars, next_pid, tables, initial_ks, stackVars, panic,
                   calls>>

----------------------------------------------------------------------------
Next ==
    \/ \E p \in Pid :
          \/ \E addr \in UserAddrs : Brk(p, addr) \/ TrapMemory(p, addr)
          \/ Fork(p)
          \/ \E g \in Programs : Exec(p, g)
          \/ Exit(p)
          \/ Block(p)
          \/ Wake(p)
    \/ \E addr \in KernelBrks : SetKernelBrk(addr)
    \/ Clock

Spec == Init /\ [][Next]_vars

----------------------------------------------------------------------------
(* Properties *)

\* The kernel's variables hold what their declarations say.
TypeOK ==
    /\ active_proc \in Pid /\ ready_queue \in Seq(Pid)
    /\ free_frames \in Seq(Frame)
    /\ next_pid \in 2..MaxPid + 1
    /\ page_table \in [Pid -> [Page -> Frame \cup {NoFrame}]]
    /\ next_heap_pn \in [Pid -> Int]
    /\ next_stack_pn \in [Pid -> -1..NPages - 1]
    /\ krnl_page_table \in [0..StackBase - 1 -> Frame \cup {NoFrame}]
    /\ kernel_brk \in Nat
    /\ initial_ks \in [1..2 -> Frame]
    /\ content \in [Frame -> Pid \cup {Junk, Initial}]
    /\ kstack \in [1..2 -> Pid \cup {Junk, Initial}]
    /\ resumed \subseteq Pid
    /\ panic \in BOOLEAN /\ calls \in 0..MaxCalls

\* The places that frame f is in.
Uses(f) ==
    Cardinality({k \in 1..Len(free_frames) : free_frames[k] = f})
    + Cardinality({x \in Pid \X Page : page_table[x[1]][x[2]] = f})
    + Cardinality({i \in 0..StackBase - 1 : krnl_page_table[i] = f})
    + Cardinality({i \in 1..2 : initial_ks[i] = f})
    + (IF f \in StackBase..KPages - 1 THEN 1 ELSE 0)

\* No frame but 0 is in two places: free and in use, mapped by two processes
\* or twice by one, or taken from the kernel; whatever fails half way.
FramesExclusive == \A f \in Frame \ {0} : Uses(f) <= 1

\* The process that runs goes on with its own kernel stack: the one it was
\* switched out with, or the initial one when it is new or did an Exec; with
\* all the copying between frames, no other process has touched it.
OwnStack ==
    ~panic => LET mine == IF active_proc \in resumed THEN active_proc ELSE Initial
              IN kstack = <<mine, mine>>

\* The kernel's heap is mapped up to the last whole page below its break,
\* also when an extension of it fails half way.
KernelHeapMapped ==
    \A i \in 0..DownToPage(kernel_brk) - 1 : krnl_page_table[i] # NoFrame

\* Frame 0 is free, or mapped by a process.
ZeroInUse ==
    \/ 0 \in On(free_frames)
    \/ \E p \in Pid, i \in 0..NPages - 1 : page_table[p][i] = 0

\* "frame 0 is definitely not available" (mem.h): while frames last, that
\* is, up to a step that uses up the last one, it is not.
ZeroOnlyWhenExhausted == [][ZeroInUse' => ZeroInUse \/ free_frames' = <<>>]_vars

\* The frames that are free or in use.
Known ==
    On(free_frames) \cup On(initial_ks)
    \cup {page_table[x[1]][x[2]] : x \in Pid \X Page}
    \cup {krnl_page_table[i] : i \in 0..StackBase - 1}

\* Every frame a process had goes back to the free list: one is lost only
\* where another frame is mapped over it, by a Brk or a growing stack that
\* meets mapped pages, or by a second try to extend the kernel's heap.
FramesReturned ==
    [][\A f \in (Known \ Known') \ {NoFrame, 0} :
          \/ \E p \in Pid, i \in Page :
                page_table[p][i] = f /\ page_table'[p][i] \notin {f, NoFrame}
          \/ \E i \in 0..StackBase - 1 :
                krnl_page_table[i] = f /\ krnl_page_table'[i] # f]_vars
=============================================================================
