-------------------------------- MODULE Tty --------------------------------
(***************************************************************************)
(* The terminals: TtyRead, TtyWrite and the two terminal traps.            *)
(*                                                                         *)
(* A line of input is a number, and so is what is known of it in the       *)
(* kernel: its text in receive[t], its length in string_len.  A write is   *)
(* the number of lines of TERMINAL_MAX_LINE bytes it takes.                *)
(***************************************************************************)
EXTENDS Tasks

CONSTANTS
    NUM_TERMINALS,
    Ids,            \* the terminal ids programs pass that are not refused
    Fills,          \* may a line of input fill the buffer, may it not?
    AllocFails,     \* may list_insert find no memory?
    MaxInput,       \* bound: lines of input
    MaxWrite,       \* bound: lines of one write
    MaxWrites       \* bound: writes in all

ASSUME TtyAssumption ==
    /\ NUM_TERMINALS \in Nat \ {0}
    /\ Ids \subseteq 0..NUM_TERMINALS
    /\ Fills \subseteq BOOLEAN /\ AllocFails \in BOOLEAN
    /\ MaxInput \in Nat /\ MaxWrite \in Nat /\ MaxWrites \in Nat

VARIABLES
    io_list,        \* pids blocked on a terminal
    state,          \* of a pcb: BLOCKED_R and BLOCKED_W matter
    tty_id,         \* of a pcb: the terminal it blocks on
    busy_terminal,  \* with the word behind it, which id NUM_TERMINALS reaches
    receive,
    string_len,
    remain,         \* remain_bytes of sys_TtyWrite, in lines
    hung,           \* the receive handler loops for ever
    transmitting,   \* hardware: whose line is being sent, NoProc for none
    line,           \* history: lines of input so far
    got,            \* history: the text and the length the last read returned
    writes          \* bound: writes so far

ttyVars == <<io_list, state, tty_id, busy_terminal, receive, string_len,
             remain, hung, transmitting, line, got, writes>>
vars == <<taskVars, ttyVars>>

Tty == 0..NUM_TERMINALS - 1

Init ==
    /\ TasksInit
    /\ io_list = <<>>
    /\ state = [p \in Proc |-> "READY"] /\ tty_id = [p \in Proc |-> 0]
    /\ \E w \in {0, 1} :
         busy_terminal = [t \in 0..NUM_TERMINALS |-> IF t \in Tty THEN 0 ELSE w]
    /\ receive = [t \in 0..NUM_TERMINALS |-> 0] /\ string_len = 0
    /\ remain = [p \in Proc |-> 0]
    /\ hung = FALSE
    /\ transmitting = [t \in 0..NUM_TERMINALS |-> NoProc]
    /\ line = 0 /\ writes = 0
    /\ got = [p \in Proc |-> <<0, 0>>]

----------------------------------------------------------------------------
\* p blocks on terminal t, with n lines left, and goes on at pc when it is
\* back.  Without memory for the node of io_list the call returns ERROR.
BlockOn(p, t, st, pc, n) ==
    /\ tty_id' = [tty_id EXCEPT ![p] = t]
    /\ state' = [state EXCEPT ![p] = st]
    /\ \/ /\ io_list' = Append(io_list, p)
          /\ kpc' = [kpc EXCEPT ![p] = pc]
          /\ remain' = [remain EXCEPT ![p] = n]
          /\ normal_schedule(ready_queue, p)
       \/ /\ AllocFails
          /\ kpc' = [kpc EXCEPT ![p] = "user"]
          /\ remain' = [remain EXCEPT ![p] = 0]
          /\ UNCHANGED <<io_list, schedVars>>

(* sys_TtyRead *)

TtyRead(p, t) ==
    /\ Calls(p) /\ ~hung
    /\ BlockOn(p, t, "BLOCKED_R", "read", 0)
    /\ UNCHANGED <<busy_terminal, receive, string_len, hung, transmitting,
                   line, got, writes>>

\* The reader is back and takes what the kernel holds now.
TtyReadBack(p) ==
    /\ active_proc = p /\ kpc[p] = "read" /\ ~hung
    /\ kpc' = [kpc EXCEPT ![p] = "user"]
    /\ got' = [got EXCEPT ![p] = <<receive[tty_id[p]], string_len>>]
    /\ UNCHANGED <<schedVars, io_list, state, tty_id, busy_terminal, receive,
                   string_len, remain, hung, transmitting, line, writes>>

----------------------------------------------------------------------------
(* sys_TtyWrite *)

NeverBusy(t) == FALSE
Busy(t) == busy_terminal[t] = 1

FlagForgotten(t) == busy_terminal
FlagRaised(t) == [busy_terminal EXCEPT ![t] = 1]

MoreOrNone(p) == remain[p] >= 0
MoreLines(p) == remain[p] > 0

\* The body of the loop over the lines, from its top: n lines are left.  The
\* terminal is busy and p waits for it, or p sends a line and waits for its
\* end, which it does not when it finds no memory to wait.
SendLine(p, t, n) ==
    \/ /\ Busy(t)
       /\ BlockOn(p, t, "BLOCKED_W", "busy", n)
       /\ UNCHANGED <<busy_terminal, transmitting>>
    \/ /\ ~Busy(t)
       /\ busy_terminal' = FlagRaised(t)
       /\ transmitting' = [transmitting EXCEPT ![t] = p]
       /\ BlockOn(p, t, "BLOCKED_W", "sent", n - 1)

TtyWrite(p, t, n) ==
    /\ Calls(p) /\ ~hung
    /\ writes < MaxWrites /\ writes' = writes + 1
    /\ SendLine(p, t, n)
    /\ UNCHANGED <<receive, string_len, hung, line, got>>

\* The writer is back: at the top of the loop, or behind it.
TtyWriteBack(p) ==
    /\ active_proc = p /\ kpc[p] \in {"busy", "sent"} /\ ~hung
    /\ \/ /\ MoreLines(p)
          /\ SendLine(p, tty_id[p], remain[p])
       \/ /\ ~MoreLines(p)
          /\ kpc' = [kpc EXCEPT ![p] = "user"]
          /\ UNCHANGED <<schedVars, io_list, state, tty_id, busy_terminal,
                         remain, transmitting>>
    /\ UNCHANGED <<receive, string_len, hung, line, got, writes>>

----------------------------------------------------------------------------
(* trap_tty_receive_hdl, trap_tty_transmit_hdl *)

AnyTerminal(p, st, t) == state[p] = st

\* p is who the handler of terminal t looks for.
Match(p, st, t) == state[p] = st /\ tty_id[p] = t

\* The location of the first such process on io_list, 0 for none.
FirstMatch(st, t) ==
    LET M == {i \in 1..Len(io_list) : Match(io_list[i], st, t)} IN
    IF M = {} THEN 0 ELSE CHOOSE i \in M : \A j \in M : i <= j

UnblockKeeps(i) ==
    /\ ready_queue' = IF i = 0 THEN ready_queue
                               ELSE Append(ready_queue, io_list[i])
    /\ UNCHANGED io_list

\* The process at location i, if there is one, becomes ready.
Unblock(i) ==
    IF i = 0
    THEN UNCHANGED <<io_list, ready_queue>>
    ELSE /\ ready_queue' = Append(ready_queue, io_list[i])
         /\ io_list' = list_remove(io_list, i)

\* A line came in.  One that fills the buffer leaves string_len alone.  The
\* walk over io_list does not get past a head that is not looked for.
TrapTtyReceive(t, fills) ==
    /\ active_proc \in Proc /\ InUser(active_proc) /\ ~hung
    /\ line < MaxInput /\ line' = line + 1
    /\ receive' = [receive EXCEPT ![t] = line + 1]
    /\ string_len' = IF fills THEN string_len ELSE line + 1
    /\ IF io_list # <<>> /\ ~Match(Head(io_list), "BLOCKED_R", t)
       THEN hung' = TRUE /\ UNCHANGED <<io_list, ready_queue>>
       ELSE Unblock(FirstMatch("BLOCKED_R", t)) /\ UNCHANGED hung
    /\ UNCHANGED <<active_proc, kpc, state, tty_id, busy_terminal, remain,
                   transmitting, got, writes>>

\* The line being sent on t is out.
TrapTtyTransmit(t) ==
    /\ active_proc \in Proc /\ InUser(active_proc) /\ ~hung
    /\ transmitting[t] # NoProc
    /\ transmitting' = [transmitting EXCEPT ![t] = NoProc]
    /\ busy_terminal' = [busy_terminal EXCEPT ![t] = 0]
    /\ Unblock(FirstMatch("BLOCKED_W", t))
    /\ UNCHANGED <<active_proc, kpc, state, tty_id, receive, string_len,
                   remain, hung, line, got, writes>>

----------------------------------------------------------------------------
Clock == ~hung /\ Preempt /\ UNCHANGED ttyVars

Next ==
    \/ \E p \in Proc :
          \/ \E t \in Ids : TtyRead(p, t)
          \/ \E t \in Ids, n \in 1..MaxWrite : TtyWrite(p, t, n)
          \/ TtyReadBack(p)
          \/ TtyWriteBack(p)
    \/ \E t \in Tty, fills \in Fills : TrapTtyReceive(t, fills)
    \/ \E t \in Tty : TrapTtyTransmit(t)
    \/ Clock

Spec == Init /\ [][Next]_vars

\* Kernel code goes on, a transmission ends and its interrupt is delivered,
\* the clock ticks.
Fairness ==
    /\ WF_vars(\E p \in Proc : TtyReadBack(p) \/ TtyWriteBack(p))
    /\ \A t \in Tty : SF_vars(TrapTtyTransmit(t))
    /\ SF_vars(Clock)

FairSpec == Spec /\ Fairness

----------------------------------------------------------------------------
(* Properties *)

\* The kernel's variables hold what their declarations say.
TypeOK ==
    /\ active_proc \in Proc
    /\ ready_queue \in Seq(Proc) /\ io_list \in Seq(Proc)
    /\ kpc \in [Proc -> {"user", "read", "busy", "sent"}]
    /\ state \in [Proc -> {"READY", "BLOCKED_R", "BLOCKED_W"}]
    /\ tty_id \in [Proc -> 0..NUM_TERMINALS]
    /\ busy_terminal \in [0..NUM_TERMINALS -> {0, 1}]
    /\ transmitting \in [0..NUM_TERMINALS -> Proc \cup {NoProc}]
    /\ receive \in [0..NUM_TERMINALS -> 0..line] /\ string_len \in 0..line
    /\ remain \in [Proc -> 0..MaxWrite]
    /\ hung \in BOOLEAN /\ line \in 0..MaxInput /\ writes \in 0..MaxWrites

\* Every process runs, is ready or is blocked on a terminal, once.
SingleResidence == PlacesOK(On(io_list)) /\ NoDup(io_list)

\* The flag is up exactly while the terminal sends, across the switches
\* between the test, the transmission and the trap: it is not left up, which
\* would keep every writer out.
BusyWhileSending ==
    \A t \in Tty : busy_terminal[t] = 1 <=> transmitting[t] # NoProc

\* "avoid dup writing" (kernel.h on busy_terminal): nothing is sent to a
\* terminal that still sends.
NoDupWriting ==
    [][\A t \in Tty : transmitting[t] # NoProc
         => transmitting'[t] \in {transmitting[t], NoProc}]_vars

\* A write that waits for the end of its line is not woken before: it is
\* blocked while the terminal sends, although traps wake the first writer and
\* not their own, and although a write that found no memory to wait returned
\* with its line still going out.
BlockedWhileSending ==
    \A t \in Tty, p \in Proc :
        transmitting[t] = p /\ kpc[p] = "sent" /\ tty_id[p] = t
            => p \in On(io_list)

\* A process leaves io_list in a trap of the terminal it waits for: a reader
\* when a line came in there, a writer when one went out there.
WokenByOwnTerminal ==
    [][\A p \in On(io_list) \ On(io_list') :
         IF state[p] = "BLOCKED_R"
         THEN receive'[tty_id[p]] # receive[tty_id[p]]
         ELSE transmitting'[tty_id[p]] # transmitting[tty_id[p]]]_vars

\* The handler for a line of input finds out who waits for it and returns.
ReceiveReturns == ~hung

\* A read returns the text of one line and that line's length.
ReadsOneLine == \A p \in Proc : got[p][1] = got[p][2]

\* "unblock that process with right data" (trap_tty_receive_hdl): a line of
\* input gets to its reader, whole, and the kernel goes on.
InputDelivered == ReceiveReturns /\ ReadsOneLine

\* "this terminal busy, switch to another process" (sys_TtyWrite): the
\* writer that made way for a busy terminal gets it in the end.
WriteEnds == \A p \in Proc : kpc[p] \in {"busy", "sent"} ~> kpc[p] = "user"
=============================================================================
