-------------------------------- MODULE Pipe --------------------------------
(***************************************************************************)
(* The pipes: PipeInit, PipeRead, PipeWrite and their part of Reclaim.     *)
(*                                                                         *)
(* As in Sync, a pipe_info is an element of info, in order of allocation,  *)
(* and keeps its element when it is freed.  The bytes of a pipe are        *)
(* numbered in the order in which they are written to it; cur_len is the   *)
(* length of its buffer.                                                   *)
(***************************************************************************)
EXTENDS Tasks

CONSTANTS
    PIPE_BUF_SIZE,
    MaxPipe,        \* bound: pipes created
    MaxByte,        \* bound: bytes written to one pipe
    MaxLen,         \* bound: bytes asked for in one call
    AllocFails      \* may malloc fail?

ASSUME PipeAssumption ==
    /\ PIPE_BUF_SIZE \in Nat /\ MaxPipe \in Nat /\ MaxByte \in Nat
    /\ MaxLen \in Nat /\ AllocFails \in BOOLEAN

VARIABLES
    info,           \* pipe_info structures; sent and taken are history: how
                    \* many bytes came in, and which ones went out
    pipe_list,
    reclaim_list,   \* ids of what can be reclaimed
    frame,          \* kernel stack of a blocked reader: pipe_id, p, len, exist
    panic           \* the kernel's heap is ruined

pipeVars == <<info, pipe_list, reclaim_list, frame, panic>>
vars == <<taskVars, pipeVars>>

NoFrame == [id |-> 0, p |-> 0, len |-> 0, exist |-> FALSE]

Init ==
    /\ TasksInit
    /\ info = <<>> /\ pipe_list = <<>> /\ reclaim_list = <<>>
    /\ frame = [p \in Proc |-> NoFrame]
    /\ panic = FALSE

\* The location of the pipe with this id, 0 for none.
Find(id) ==
    LET M == {i \in 1..Len(pipe_list) : info[pipe_list[i]].id = id} IN
    IF M = {} THEN 0 ELSE CHOOSE i \in M : \A j \in M : i <= j

\* A call of p from its program.
PipeCall(p) == Calls(p) /\ ~panic

----------------------------------------------------------------------------
(* sys_PipeInit *)

CountedTwice == Len(reclaim_list) + 2

NewId == Len(reclaim_list) + 1

\* Everything but the reclaim_info is done.
Create(p) ==
    /\ PipeCall(p)
    /\ Len(info) < MaxPipe
    /\ info' = Append(info, [id |-> NewId, buffer |-> <<>>,
                             waiting |-> <<>>, freed |-> FALSE,
                             sent |-> 0, taken |-> <<>>])
    /\ pipe_list' = Append(pipe_list, Len(info) + 1)
    /\ UNCHANGED <<taskVars, frame, panic>>

PipeInit(p) ==
    /\ Create(p)
    /\ reclaim_list' = Append(reclaim_list, NewId)

\* No memory for the last list_insert: ERROR, and a pipe that can be used
\* but not reclaimed.
PipeInitFail(p) ==
    /\ AllocFails
    /\ Create(p)
    /\ UNCHANGED reclaim_list

----------------------------------------------------------------------------
(* sys_PipeRead *)

\* What p->cur_len may read as: anything once the pipe_info is freed.
MayLack(o, len) == info[o].freed \/ Len(info[o].buffer) < len
MayHave(o, len) == info[o].freed \/ Len(info[o].buffer) >= len

NobodyWaits(o) == 0

\* The location of the one who waits longest at pipe o, 0 for none.
LongestAt(o) == IF info[o].waiting # <<>> THEN 1 ELSE 0

WakesNobody(o) == <<>>

\* Who is put on the ready queue.
Longest(o) == SubSeq(info[o].waiting, 1, LongestAt(o))

NotMoved(buffer, len) == buffer

\* What is left when len bytes were read: the pointer is moved behind them
\* and the rest is copied to a new buffer.
Rest(buffer, len) == SubSeq(buffer, len + 1, Len(buffer))

\* The old buffer is freed through the pointer that was moved, which ruins
\* the heap or not; it is harmless when nothing was read.
FreeMoved(len) == panic' \in (IF len > 0 THEN BOOLEAN ELSE {FALSE})

\* p leaves the call.
Return(p) ==
    /\ kpc' = [kpc EXCEPT ![p] = "user"]
    /\ frame' = [frame EXCEPT ![p] = NoFrame]
    /\ UNCHANGED active_proc

\* From the test of cur_len on: p waits for more bytes, or takes its len
\* bytes and wakes one more reader.  In a freed pipe_info nothing can be
\* relied on, the list of those who wait neither.
TakeOrWait(p, id, o, len, exist) ==
    \/ /\ MayLack(o, len)
       /\ info' = [info EXCEPT ![o].waiting = Append(@, p)]
       /\ kpc' = [kpc EXCEPT ![p] = "pipe"]
       /\ frame' = [frame EXCEPT ![p] =
                      [id |-> id, p |-> o, len |-> len, exist |-> exist]]
       /\ normal_schedule(ready_queue, p)
       /\ UNCHANGED panic
    \/ /\ MayHave(o, len) /\ ~info[o].freed
       /\ info' = [info EXCEPT
                     ![o].buffer = Rest(@, len),
                     ![o].taken = @ \o SubSeq(info[o].buffer, 1, len),
                     ![o].waiting = list_remove(@, LongestAt(o))]
       /\ ready_queue' = ready_queue \o Longest(o)
       /\ FreeMoved(len)
       /\ Return(p)
    \/ /\ info[o].freed
       /\ \/ /\ info' = [info EXCEPT ![o].waiting = list_remove(@, LongestAt(o))]
             /\ ready_queue' = ready_queue \o Longest(o)
          \/ UNCHANGED <<info, ready_queue>>
       /\ panic' \in BOOLEAN
       /\ Return(p)

PipeRead(p, id, len) ==
    /\ PipeCall(p)
    /\ Find(id) # 0
    /\ TakeOrWait(p, id, pipe_list[Find(id)], len, FALSE)
    /\ UNCHANGED <<pipe_list, reclaim_list>>

\* p waited and is back: is there still a pipe with that id?  As in
\* sys_Acquire, a walk that finds none leaves exist as it was.
PipeReadBack(p) ==
    LET f == frame[p] IN
    /\ active_proc = p /\ kpc[p] = "pipe" /\ ~panic
    /\ IF f.exist \/ Find(f.id) # 0
       THEN TakeOrWait(p, f.id, f.p, f.len, TRUE)
       ELSE Return(p) /\ UNCHANGED <<ready_queue, info, panic>>
    /\ UNCHANGED <<pipe_list, reclaim_list>>

----------------------------------------------------------------------------
(* sys_PipeWrite *)

\* How many of len bytes are written: as many as fit.
ByteWrite(o, len) ==
    LET buf_left == PIPE_BUF_SIZE - Len(info[o].buffer) IN
    IF buf_left < len THEN buf_left ELSE len

PipeWrite(p, id, len) ==
    LET o == pipe_list[Find(id)] IN
    /\ PipeCall(p)
    /\ Find(id) # 0
    /\ info[o].sent + len <= MaxByte
    /\ info' = [info EXCEPT
                  ![o].buffer = @ \o [i \in 1..ByteWrite(o, len) |->
                                        info[o].sent + i],
                  ![o].sent = @ + ByteWrite(o, len),
                  ![o].waiting = list_remove(@, LongestAt(o))]
    /\ ready_queue' = ready_queue \o Longest(o)
    /\ UNCHANGED <<active_proc, kpc, pipe_list, reclaim_list, frame, panic>>

----------------------------------------------------------------------------
(* sys_Reclaim, destroy_pipe_info *)

\* The loop that wakes the readers counts up to a length that it shortens.
WakeCount(o) == (Len(info[o].waiting) + 1) \div 2

\* Anybody may reclaim a pipe.  The readers that are not woken stay on the
\* list of the freed pipe_info.
Reclaim(p, id) ==
    LET o == pipe_list[Find(id)]
        r == FirstAt(reclaim_list, id) IN
    /\ PipeCall(p)
    /\ id \in On(reclaim_list) /\ Find(id) # 0
    /\ info' = [info EXCEPT ![o] =
                  [id |-> 0, buffer |-> <<>>,
                   waiting |-> SubSeq(@.waiting, WakeCount(o) + 1,
                                      Len(@.waiting)),
                   freed |-> TRUE, sent |-> 0, taken |-> <<>>]]
    /\ ready_queue' = ready_queue \o SubSeq(info[o].waiting, 1, WakeCount(o))
    /\ pipe_list' = list_remove(pipe_list, Find(id))
    /\ reclaim_list' = list_remove(reclaim_list, r)
    /\ UNCHANGED <<active_proc, kpc, frame, panic>>

----------------------------------------------------------------------------
Ids == 1..MaxPipe
Lens == 0..MaxLen

Next ==
    \/ \E p \in Proc :
          \/ PipeInit(p)
          \/ PipeInitFail(p)
          \/ \E id \in Ids, len \in Lens : PipeRead(p, id, len)
          \/ PipeReadBack(p)
          \/ \E id \in Ids, len \in Lens : PipeWrite(p, id, len)
          \/ \E id \in Ids : Reclaim(p, id)
    \/ ~panic /\ Preempt /\ UNCHANGED pipeVars

Spec == Init /\ [][Next]_vars

----------------------------------------------------------------------------
(* Properties *)

Info == [id : 0..MaxPipe, buffer : Seq(1..MaxByte), waiting : Seq(Proc),
         freed : BOOLEAN, sent : 0..MaxByte, taken : Seq(1..MaxByte)]

\* The kernel's variables hold what their declarations say.
TypeOK ==
    /\ active_proc \in Proc
    /\ ready_queue \in Seq(Proc)
    /\ kpc \in [Proc -> {"user", "pipe"}]
    /\ info \in Seq(Info)
    /\ pipe_list \in Seq(1..Len(info)) /\ reclaim_list \in Seq(Ids)
    /\ frame \in [Proc -> [id : 0..MaxPipe, p : 0..Len(info), len : Lens,
                           exist : BOOLEAN]]
    /\ panic \in BOOLEAN

Blocked == UNION {On(info[o].waiting) : o \in 1..Len(info)}

\* Every process runs, is ready or waits at one pipe, once.
SingleResidence ==
    /\ PlacesOK(Blocked)
    /\ \A o \in 1..Len(info) : NoDup(info[o].waiting)
    /\ \A o, q \in 1..Len(info) :
          o # q => On(info[o].waiting) \cap On(info[q].waiting) = {}

\* "The string above should say Hi! How are you?" (cp6_test): what went out
\* of a pipe, followed by what is in it, is what came in, in order and
\* without gaps, whoever reads how much while others write; and the buffer
\* does not overflow.
FirstInFirstOut ==
    \A o \in 1..Len(info) :
        /\ info[o].taken \o info[o].buffer = [i \in 1..info[o].sent |-> i]
        /\ Len(info[o].buffer) <= PIPE_BUF_SIZE

\* The readers of pipe o that were woken and have not run yet.
OnTheWay(o) ==
    {p \in On(ready_queue) \cup {active_proc} :
        kpc[p] = "pipe" /\ frame[p].p = o}

\* A reader that is the only one to wait does not wait for bytes that are
\* there, unless another reader is about to run, who takes them or wakes it
\* or waits with it: between one reader and any number of writers no wakeup
\* is lost.
LoneReaderWoken ==
    \A o \in 1..Len(info) :
        Len(info[o].waiting) = 1 /\ ~info[o].freed /\ OnTheWay(o) = {}
          => Len(info[o].buffer) < frame[Head(info[o].waiting)].len

\* "if not enough bytes available" (sys_PipeRead): a process waits at a pipe
\* because it does not hold as many bytes as it asked for, or a reader that
\* was woken before it is about to run.
WaitsForBytes ==
    \A o \in 1..Len(info) : ~info[o].freed /\ OnTheWay(o) = {} =>
        \A p \in On(info[o].waiting) : Len(info[o].buffer) < frame[p].len
=============================================================================
