------------------------------ MODULE TtyProofs ------------------------------
(***************************************************************************)
(* The safety of the terminals, for any number of processes, terminals,    *)
(* lines of input and writes.                                              *)
(***************************************************************************)
EXTENDS Tty, TasksProofs

\* There is one list of those who wait.
Lists(lst) == [i \in {0} |-> lst]

\* idle makes no call.
IdleInUser == kpc[Idle] = "user"

\* Whoever waits for the end of its line waits for the trap of that
\* terminal, so the trap of no other terminal and no line of input wakes it.
SenderWaits ==
    \A t \in Tty, p \in Proc :
        transmitting[t] = p /\ kpc[p] = "sent" /\ tty_id[p] = t
            => p \in On(io_list) /\ state[p] = "BLOCKED_W"

\* The inductive invariant.
Inv ==
    /\ TypeOK
    /\ Housed(active_proc, ready_queue, {0}, Lists(io_list))
    /\ IdleInUser
    /\ BusyWhileSending
    /\ SenderWaits

----------------------------------------------------------------------------
Pcs == {"user", "read", "busy", "sent"}
States == {"READY", "BLOCKED_R", "BLOCKED_W"}

(* The list is the only one. *)
LEMMA ListsFacts ==
    ASSUME NEW lst \in Seq(Proc)
    PROVE  Lists(lst) \in [{0} -> Seq(Proc)] /\ Lists(lst)[0] = lst
  BY DEF Lists

LEMMA InitInv == Init => Inv
<1> SUFFICES ASSUME Init PROVE Inv OBVIOUS
<1>1. io_list = <<>> /\ TasksInit BY DEF Init
<1>2. Housed(active_proc, ready_queue, {0}, Lists(io_list))
  <2>1. Lists(io_list) \in [{0} -> {<<>>}] BY <1>1 DEF Lists
  <2> QED BY <1>1, <2>1, InitHoused
<1>3. /\ \A t \in Tty : t \in 0..NUM_TERMINALS
      /\ 0 \in 0..NUM_TERMINALS /\ NoProc \notin Proc
  BY TtyAssumption DEF Tty, NoProc, Proc
<1>4. PICK w \in {0, 1} :
        busy_terminal = [t \in 0..NUM_TERMINALS |-> IF t \in Tty THEN 0 ELSE w]
  BY DEF Init
<1>5. TypeOK
  <2>1. active_proc \in Proc /\ ready_queue \in Seq(Proc) BY <1>2 DEF Housed
  <2>2. io_list \in Seq(Proc) BY <1>1
  <2>3. kpc \in [Proc -> Pcs] BY <1>1 DEF TasksInit, Pcs
  <2>4. busy_terminal \in [0..NUM_TERMINALS -> {0, 1}] BY <1>4
  <2>5. /\ line \in 0..MaxInput /\ writes \in 0..MaxWrites
        /\ 0 \in 0..line /\ 0 \in 0..MaxWrite
    BY TtyAssumption DEF Init
  <2>6. hung \in BOOLEAN BY DEF Init
  <2> QED BY <1>3, <2>1, <2>2, <2>3, <2>4, <2>5, <2>6 DEF Init, TypeOK, Pcs
<1>6. IdleInUser BY <1>1, IdleIsProc DEF TasksInit, IdleInUser
<1>7. BusyWhileSending
  BY <1>3, <1>4 DEF Init, BusyWhileSending
<1>8. SenderWaits BY <1>3 DEF Init, SenderWaits
<1> QED BY <1>2, <1>5, <1>6, <1>7, <1>8 DEF Inv

----------------------------------------------------------------------------
(* The caller joins those who wait and gives up the processor, or finds no
   memory for that and returns. *)
LEMMA BlockOnFacts ==
    ASSUME Inv, NEW p \in Proc, active_proc = p, p # Idle,
           NEW t \in 0..NUM_TERMINALS, NEW st \in States, NEW pc \in Pcs,
           NEW n \in 0..MaxWrite, BlockOn(p, t, st, pc, n)
    PROVE  /\ Housed(active_proc', ready_queue', {0}, Lists(io_list'))
           /\ active_proc' \in Proc /\ ready_queue' \in Seq(Proc)
           /\ io_list' \in Seq(Proc) /\ remain' \in [Proc -> 0..MaxWrite]
           /\ kpc' \in [Proc -> Pcs] /\ kpc'[Idle] = "user"
           /\ state' \in [Proc -> States]
           /\ tty_id' \in [Proc -> 0..NUM_TERMINALS]
           /\ state'[p] = st /\ tty_id'[p] = t
           /\ kpc'[p] = "user" \/ (kpc'[p] = pc /\ p \in On(io_list'))
           /\ On(io_list) \subseteq On(io_list')
           /\ \A q \in Proc \ {p} :
                 kpc'[q] = kpc[q] /\ state'[q] = state[q] /\ tty_id'[q] = tty_id[q]
<1>1. /\ io_list \in Seq(Proc) /\ active_proc \in Proc /\ ready_queue \in Seq(Proc)
      /\ Housed(active_proc, ready_queue, {0}, Lists(io_list))
  BY DEF Inv, TypeOK
<1>2. /\ kpc \in [Proc -> Pcs] /\ state \in [Proc -> States]
      /\ tty_id \in [Proc -> 0..NUM_TERMINALS]
      /\ remain \in [Proc -> 0..MaxWrite] /\ 0 \in 0..MaxWrite
  BY TtyAssumption DEF Inv, TypeOK, Pcs, States
<1>3. /\ state' \in [Proc -> States] /\ state'[p] = st
      /\ tty_id' \in [Proc -> 0..NUM_TERMINALS] /\ tty_id'[p] = t
      /\ \A q \in Proc \ {p} : state'[q] = state[q] /\ tty_id'[q] = tty_id[q]
  BY <1>2 DEF BlockOn
<1>4. CASE /\ io_list' = Append(io_list, p) /\ normal_schedule(ready_queue, p)
           /\ kpc' = [kpc EXCEPT ![p] = pc]
           /\ remain' = [remain EXCEPT ![p] = n]
  <2>1. io_list' \in Seq(Proc) /\ On(io_list') = On(io_list) \cup {p}
    BY <1>1, <1>4, AppendFacts
  <2>2. Housed(active_proc', ready_queue', {0}, Lists(io_list'))
    <3>1. Lists(io_list') \in [{0} -> Seq(Proc)] BY <2>1, ListsFacts
    <3>2. Lists(io_list')[0] = Append(Lists(io_list)[0], active_proc)
      BY <1>1, <1>4, <2>1, ListsFacts
    <3>3. normal_schedule(ready_queue, active_proc) /\ active_proc # Idle
      BY <1>4
    <3>4. Joins(active_proc, 0, {0}, Lists(io_list), Lists(io_list'))
      BY <3>1, <3>2 DEF Joins
    <3> QED BY <1>1, <3>3, <3>4, CallerBlocks
  <2>3. /\ kpc' \in [Proc -> Pcs] /\ remain' \in [Proc -> 0..MaxWrite]
        /\ kpc'[p] = pc /\ \A q \in Proc \ {p} : kpc'[q] = kpc[q]
    BY <1>2, <1>4
  <2>4. kpc'[Idle] = "user" BY <2>3, IdleIsProc DEF Inv, IdleInUser
  <2> QED BY <1>3, <2>1, <2>2, <2>3, <2>4 DEF Housed
<1>5. CASE /\ UNCHANGED <<io_list, schedVars>>
           /\ kpc' = [kpc EXCEPT ![p] = "user"]
           /\ remain' = [remain EXCEPT ![p] = 0]
  <2>1. /\ active_proc' = active_proc /\ ready_queue' = ready_queue
        /\ io_list' = io_list
    BY <1>5 DEF schedVars
  <2>2. "user" \in Pcs BY DEF Pcs
  <2>3. /\ kpc' \in [Proc -> Pcs] /\ remain' \in [Proc -> 0..MaxWrite]
        /\ kpc'[p] = "user" /\ \A q \in Proc \ {p} : kpc'[q] = kpc[q]
    BY <1>2, <1>5, <2>2
  <2>4. kpc'[Idle] = "user" BY <2>3, IdleIsProc DEF Inv, IdleInUser
  <2> QED BY <1>1, <1>3, <2>1, <2>3, <2>4
<1> QED BY <1>4, <1>5 DEF BlockOn

(* A process that another one's call leaves alone goes on waiting for the end
   of its line. *)
LEMMA SendersKept ==
    ASSUME Inv, NEW p \in Proc, On(io_list) \subseteq On(io_list'),
           \A q \in Proc \ {p} :
              kpc'[q] = kpc[q] /\ state'[q] = state[q] /\ tty_id'[q] = tty_id[q],
           NEW t \in Tty, transmitting'[t] = transmitting[t],
           NEW q \in Proc, q # p,
           transmitting'[t] = q, kpc'[q] = "sent", tty_id'[q] = t
    PROVE  q \in On(io_list') /\ state'[q] = "BLOCKED_W"
  BY DEF Inv, SenderWaits

LEMMA TtyReadInv ==
    ASSUME Inv, NEW p \in Proc, NEW t \in Ids, TtyRead(p, t)
    PROVE  Inv'
<1>1. /\ active_proc = p /\ p # Idle /\ BlockOn(p, t, "BLOCKED_R", "read", 0)
      /\ UNCHANGED <<busy_terminal, receive, string_len, hung, transmitting,
                     line, writes>>
  BY DEF TtyRead, Calls, InUser
<1>2. t \in 0..NUM_TERMINALS /\ 0 \in 0..MaxWrite BY TtyAssumption
<1>3. /\ Housed(active_proc', ready_queue', {0}, Lists(io_list'))
      /\ active_proc' \in Proc /\ ready_queue' \in Seq(Proc)
      /\ io_list' \in Seq(Proc) /\ remain' \in [Proc -> 0..MaxWrite]
      /\ kpc' \in [Proc -> Pcs] /\ kpc'[Idle] = "user"
      /\ state' \in [Proc -> States]
      /\ tty_id' \in [Proc -> 0..NUM_TERMINALS]
      /\ kpc'[p] = "user" \/ (kpc'[p] = "read" /\ p \in On(io_list'))
      /\ On(io_list) \subseteq On(io_list')
      /\ \A q \in Proc \ {p} :
            kpc'[q] = kpc[q] /\ state'[q] = state[q] /\ tty_id'[q] = tty_id[q]
  <2>1. "BLOCKED_R" \in States /\ "read" \in Pcs BY DEF States, Pcs
  <2> QED BY <1>1, <1>2, <2>1, BlockOnFacts
<1>4. TypeOK' BY <1>1, <1>3 DEF Inv, TypeOK, Pcs, States
<1>5. BusyWhileSending' BY <1>1 DEF Inv, BusyWhileSending
<1>6. SenderWaits' BY <1>1, <1>3, SendersKept DEF SenderWaits
<1>7. IdleInUser' BY <1>3 DEF IdleInUser
<1> QED BY <1>3, <1>4, <1>5, <1>6, <1>7 DEF Inv

(* One turn of the loop over the lines of a write. *)
LEMMA SendLineInv ==
    ASSUME Inv, NEW p \in Proc, active_proc = p, p # Idle,
           NEW t \in 0..NUM_TERMINALS, NEW n \in 1..MaxWrite,
           SendLine(p, t, n),
           UNCHANGED <<receive, string_len, hung, line>>,
           writes' \in 0..MaxWrites
    PROVE  Inv'
<1>1. "BLOCKED_W" \in States /\ "busy" \in Pcs /\ "sent" \in Pcs
  BY DEF States, Pcs
<1>2. /\ busy_terminal \in [0..NUM_TERMINALS -> {0, 1}]
      /\ transmitting \in [0..NUM_TERMINALS -> Proc \cup {NoProc}]
  BY DEF Inv, TypeOK
<1>3. n \in 0..MaxWrite /\ n - 1 \in 0..MaxWrite BY TtyAssumption
<1>4. NoProc \notin Proc BY DEF NoProc, Proc
<1>5. \A x \in Tty : x \in 0..NUM_TERMINALS BY TtyAssumption DEF Tty
<1>6. CASE /\ Busy(t) /\ BlockOn(p, t, "BLOCKED_W", "busy", n)
           /\ UNCHANGED <<busy_terminal, transmitting>>
  <2>1. /\ Housed(active_proc', ready_queue', {0}, Lists(io_list'))
        /\ active_proc' \in Proc /\ ready_queue' \in Seq(Proc)
        /\ io_list' \in Seq(Proc) /\ remain' \in [Proc -> 0..MaxWrite]
        /\ kpc' \in [Proc -> Pcs] /\ kpc'[Idle] = "user"
        /\ state' \in [Proc -> States]
        /\ tty_id' \in [Proc -> 0..NUM_TERMINALS]
        /\ kpc'[p] = "user" \/ (kpc'[p] = "busy" /\ p \in On(io_list'))
        /\ On(io_list) \subseteq On(io_list')
        /\ \A q \in Proc \ {p} :
              kpc'[q] = kpc[q] /\ state'[q] = state[q] /\ tty_id'[q] = tty_id[q]
    BY <1>1, <1>3, <1>6, BlockOnFacts
  <2>2. TypeOK' BY <1>6, <2>1 DEF Inv, TypeOK, Pcs, States
  <2>3. BusyWhileSending' BY <1>6 DEF Inv, BusyWhileSending
  <2>4. SenderWaits' BY <1>6, <2>1, SendersKept DEF SenderWaits
  <2>5. IdleInUser' BY <2>1 DEF IdleInUser
  <2> QED BY <2>1, <2>2, <2>3, <2>4, <2>5 DEF Inv
<1>7. CASE /\ ~Busy(t) /\ BlockOn(p, t, "BLOCKED_W", "sent", n - 1)
           /\ busy_terminal' = FlagRaised(t)
           /\ transmitting' = [transmitting EXCEPT ![t] = p]
  <2>1. /\ Housed(active_proc', ready_queue', {0}, Lists(io_list'))
        /\ active_proc' \in Proc /\ ready_queue' \in Seq(Proc)
        /\ io_list' \in Seq(Proc) /\ remain' \in [Proc -> 0..MaxWrite]
        /\ kpc' \in [Proc -> Pcs] /\ kpc'[Idle] = "user"
        /\ state' \in [Proc -> States]
        /\ tty_id' \in [Proc -> 0..NUM_TERMINALS]
        /\ state'[p] = "BLOCKED_W" /\ tty_id'[p] = t
        /\ kpc'[p] = "sent" => p \in On(io_list')
        /\ On(io_list) \subseteq On(io_list')
        /\ \A q \in Proc \ {p} :
              kpc'[q] = kpc[q] /\ state'[q] = state[q] /\ tty_id'[q] = tty_id[q]
    BY <1>1, <1>3, <1>7, BlockOnFacts
  <2>2. /\ busy_terminal' = [busy_terminal EXCEPT ![t] = 1]
        /\ busy_terminal' \in [0..NUM_TERMINALS -> {0, 1}]
    BY <1>2, <1>7 DEF FlagRaised
  <2>3. transmitting' \in [0..NUM_TERMINALS -> Proc \cup {NoProc}]
    BY <1>2, <1>7
  <2>4. TypeOK' BY <2>1, <2>2, <2>3 DEF Inv, TypeOK, Pcs, States
  <2>5. BusyWhileSending'
    BY <1>2, <1>4, <1>5, <1>7, <2>2 DEF Inv, BusyWhileSending
  <2>6. SenderWaits'
    <3> SUFFICES ASSUME NEW x \in Tty, NEW q \in Proc, transmitting'[x] = q,
                        kpc'[q] = "sent", tty_id'[q] = x
                 PROVE  q \in On(io_list') /\ state'[q] = "BLOCKED_W"
      BY DEF SenderWaits
    <3>1. CASE q = p BY <2>1, <3>1
    <3>2. CASE q # p
      <4>1. x # t BY <1>2, <1>7, <3>2
      <4>2. transmitting'[x] = transmitting[x] BY <1>2, <1>5, <1>7, <4>1
      <4> QED BY <2>1, <3>2, <4>2, SendersKept
    <3> QED BY <3>1, <3>2
  <2>7. IdleInUser' BY <2>1 DEF IdleInUser
  <2> QED BY <2>1, <2>4, <2>5, <2>6, <2>7 DEF Inv
<1> QED BY <1>6, <1>7 DEF SendLine

LEMMA TtyWriteInv ==
    ASSUME Inv, NEW p \in Proc, NEW t \in Ids, NEW n \in 1..MaxWrite,
           TtyWrite(p, t, n)
    PROVE  Inv'
<1>1. /\ active_proc = p /\ p # Idle /\ SendLine(p, t, n)
      /\ writes < MaxWrites /\ writes' = writes + 1
      /\ UNCHANGED <<receive, string_len, hung, line>>
  BY DEF TtyWrite, Calls, InUser
<1>2. t \in 0..NUM_TERMINALS BY TtyAssumption
<1>3. writes' \in 0..MaxWrites
  <2>1. writes \in 0..MaxWrites BY DEF Inv, TypeOK
  <2> QED BY <1>1, <2>1, TtyAssumption
<1> QED BY <1>1, <1>2, <1>3, SendLineInv

LEMMA TtyWriteBackInv ==
    ASSUME Inv, NEW p \in Proc, TtyWriteBack(p)
    PROVE  Inv'
<1>1. /\ active_proc = p /\ kpc[p] \in {"busy", "sent"}
      /\ UNCHANGED <<receive, string_len, hung, line, writes>>
  BY DEF TtyWriteBack
<1>2. p # Idle BY <1>1 DEF Inv, IdleInUser
<1>3. /\ tty_id[p] \in 0..NUM_TERMINALS /\ remain[p] \in 0..MaxWrite
      /\ writes \in 0..MaxWrites
  BY DEF Inv, TypeOK
<1>4. CASE MoreLines(p) /\ SendLine(p, tty_id[p], remain[p])
  <2>1. remain[p] \in 1..MaxWrite
    BY <1>3, <1>4, TtyAssumption DEF MoreLines
  <2> QED BY <1>1, <1>2, <1>3, <1>4, <2>1, SendLineInv
<1>5. CASE /\ kpc' = [kpc EXCEPT ![p] = "user"]
           /\ UNCHANGED <<schedVars, io_list, state, tty_id, busy_terminal,
                          remain, transmitting>>
  <2>1. /\ active_proc' = active_proc /\ ready_queue' = ready_queue
        /\ io_list' = io_list
    BY <1>5 DEF schedVars
  <2>2. kpc \in [Proc -> Pcs] BY DEF Inv, TypeOK, Pcs
  <2>3. /\ kpc' \in [Proc -> Pcs] /\ kpc'[p] = "user"
        /\ \A q \in Proc \ {p} : kpc'[q] = kpc[q]
    BY <1>5, <2>2 DEF Pcs
  <2>4. TypeOK' BY <1>1, <1>5, <2>1, <2>3 DEF Inv, TypeOK, Pcs
  <2>5. Housed(active_proc', ready_queue', {0}, Lists(io_list'))
    BY <2>1 DEF Inv
  <2>6. IdleInUser' BY <1>2, <2>3, IdleIsProc DEF Inv, IdleInUser
  <2>7. BusyWhileSending' BY <1>5 DEF Inv, BusyWhileSending
  <2>8. SenderWaits' BY <1>5, <2>1, <2>3 DEF Inv, SenderWaits
  <2> QED BY <2>4, <2>5, <2>6, <2>7, <2>8 DEF Inv
<1> QED BY <1>4, <1>5 DEF TtyWriteBack

LEMMA TtyReadBackInv ==
    ASSUME Inv, NEW p \in Proc, TtyReadBack(p)
    PROVE  Inv'
<1>1. /\ active_proc = p /\ kpc[p] = "read"
      /\ kpc' = [kpc EXCEPT ![p] = "user"]
      /\ active_proc' = active_proc /\ ready_queue' = ready_queue
      /\ UNCHANGED <<io_list, state, tty_id, busy_terminal, receive,
                     string_len, remain, hung, transmitting, line, writes>>
  BY DEF TtyReadBack, schedVars
<1>2. p # Idle BY <1>1 DEF Inv, IdleInUser
<1>3. kpc \in [Proc -> Pcs] BY DEF Inv, TypeOK, Pcs
<1>4. /\ kpc' \in [Proc -> Pcs] /\ kpc'[p] = "user"
      /\ \A q \in Proc \ {p} : kpc'[q] = kpc[q]
  BY <1>1, <1>3 DEF Pcs
<1>5. TypeOK' BY <1>1, <1>4 DEF Inv, TypeOK, Pcs
<1>6. Housed(active_proc', ready_queue', {0}, Lists(io_list'))
  BY <1>1 DEF Inv
<1>7. IdleInUser' BY <1>2, <1>4, IdleIsProc DEF Inv, IdleInUser
<1>8. BusyWhileSending' BY <1>1 DEF Inv, BusyWhileSending
<1>9. SenderWaits' BY <1>1, <1>4 DEF Inv, SenderWaits
<1> QED BY <1>5, <1>6, <1>7, <1>8, <1>9 DEF Inv

----------------------------------------------------------------------------
(* The handler wakes nobody or one that it looks for. *)
LEMMA UnblockFacts ==
    ASSUME Inv, NEW st, NEW t, Unblock(FirstMatch(st, t)),
           UNCHANGED active_proc
    PROVE  /\ Housed(active_proc', ready_queue', {0}, Lists(io_list'))
           /\ ready_queue' \in Seq(Proc) /\ io_list' \in Seq(Proc)
           /\ \A p \in On(io_list) \ On(io_list') : Match(p, st, t)
<1> DEFINE M == {i \in 1..Len(io_list) : Match(io_list[i], st, t)}
           k == FirstMatch(st, t)
<1>1. /\ Housed(active_proc, ready_queue, {0}, Lists(io_list))
      /\ ready_queue \in Seq(Proc) /\ io_list \in Seq(Proc)
  BY DEF Inv, TypeOK
<1>2. k = 0 \/ k \in M
  <2>1. CASE M = {} BY <2>1 DEF FirstMatch
  <2>2. CASE M # {}
    <3>1. M \in SUBSET Nat BY <1>1
    <3>2. \E i \in M : \A j \in M : i <= j BY <2>2, <3>1, Smallest
    <3>3. k = CHOOSE i \in M : \A j \in M : i <= j BY <2>2 DEF FirstMatch
    <3> HIDE DEF M, k
    <3> QED BY <3>2, <3>3
  <2> QED BY <2>1, <2>2
<1> HIDE DEF k
<1>3. CASE k = 0
  <2>1. io_list' = io_list /\ ready_queue' = ready_queue
    BY <1>3 DEF Unblock, k
  <2> QED BY <1>1, <2>1
<1>4. CASE k \in M
  <2>1. k \in 1..Len(io_list) /\ Match(io_list[k], st, t) BY <1>4
  <2>2. k # 0 BY <1>1, <2>1
  <2>3. /\ ready_queue' = Append(ready_queue, io_list[k])
        /\ io_list' = list_remove(io_list, k)
    BY <2>2 DEF Unblock, k
  <2> HIDE DEF M
  <2>4. /\ NoDup(io_list) /\ NoDup(ready_queue)
        /\ On(ready_queue) \cap On(io_list) = {}
    BY <1>1, ListsFacts DEF Housed
  <2>5. io_list[k] \in Proc /\ io_list[k] \in On(io_list)
    BY <1>1, <2>1 DEF On
  <2>6. /\ io_list' \in Seq(Proc) /\ NoDup(io_list')
        /\ On(io_list') = On(io_list) \ {io_list[k]}
    BY <1>1, <2>1, <2>3, <2>4, RemoveFacts
  <2>7. /\ ready_queue' \in Seq(Proc) /\ NoDup(ready_queue')
        /\ On(ready_queue') = On(ready_queue) \cup {io_list[k]}
    BY <1>1, <2>3, <2>4, <2>5, AppendFacts
  <2>8. /\ Lists(io_list') \in [{0} -> Seq(Proc)]
        /\ Lists(io_list')[0] = io_list' /\ Lists(io_list)[0] = io_list
    BY <1>1, <2>6, ListsFacts
  <2>9. Housed(active_proc, ready_queue', {0}, Lists(io_list'))
    <3> DEFINE A == {io_list[k]}
               r == ready_queue'
               V == Lists(io_list')
    <3>1. On(Lists(io_list)[0]) = A \cup On(V[0]) /\ A \cap On(V[0]) = {}
      BY <2>5, <2>6, <2>8
    <3>2. r \in Seq(Proc) /\ NoDup(r) /\ On(r) = On(ready_queue) \cup A
      BY <2>7
    <3>3. V \in [{0} -> Seq(Proc)] /\ NoDup(V[0]) BY <2>6, <2>8
    <3> HIDE DEF A, r, V
    <3>4. Housed(active_proc, r, {0}, V)
      BY <1>1, <3>1, <3>2, <3>3, SomeWoken
    <3> QED BY <3>4 DEF r, V
  <2> QED BY <2>1, <2>6, <2>7, <2>9
<1> QED BY <1>2, <1>3, <1>4

LEMMA TrapTtyReceiveInv ==
    ASSUME Inv, NEW t \in Tty, NEW fills \in Fills, TrapTtyReceive(t, fills)
    PROVE  /\ Inv'
           /\ \A p \in On(io_list) \ On(io_list') :
                 state[p] = "BLOCKED_R" /\ tty_id[p] = t
           /\ receive'[t] # receive[t]
<1>1. /\ line < MaxInput /\ line' = line + 1
      /\ receive' = [receive EXCEPT ![t] = line + 1]
      /\ string_len' = IF fills THEN string_len ELSE line + 1
      /\ UNCHANGED <<active_proc, kpc, state, tty_id, busy_terminal, remain,
                     transmitting, writes>>
  BY DEF TrapTtyReceive
<1>2. /\ line \in 0..MaxInput /\ receive \in [0..NUM_TERMINALS -> 0..line]
      /\ string_len \in 0..line /\ t \in 0..NUM_TERMINALS
  BY TtyAssumption DEF Inv, TypeOK, Tty
<1>3. /\ line' \in 0..MaxInput /\ line + 1 \in 0..line'
      /\ 0..line \subseteq 0..line' /\ line + 1 \notin 0..line
  BY <1>1, <1>2, TtyAssumption
<1>4. receive' \in [0..NUM_TERMINALS -> 0..line'] /\ receive'[t] # receive[t]
  <2>1. receive[t] \in 0..line BY <1>2
  <2>2. receive'[t] = line + 1 BY <1>1, <1>2
  <2>3. \A x \in 0..NUM_TERMINALS : receive'[x] = receive[x] \/ receive'[x] = line + 1
    BY <1>1, <1>2
  <2> QED BY <1>1, <1>2, <1>3, <2>1, <2>2, <2>3
<1>5. string_len' \in 0..line' BY <1>1, <1>2, <1>3
<1>6. /\ Housed(active_proc', ready_queue', {0}, Lists(io_list'))
      /\ ready_queue' \in Seq(Proc) /\ io_list' \in Seq(Proc)
      /\ \A p \in On(io_list) \ On(io_list') :
            state[p] = "BLOCKED_R" /\ tty_id[p] = t
  <2>1. CASE UNCHANGED <<io_list, ready_queue>>
    BY <1>1, <2>1 DEF Inv, TypeOK
  <2>2. CASE Unblock(FirstMatch("BLOCKED_R", t))
    BY <1>1, <2>2, UnblockFacts DEF Match
  <2> QED BY <2>1, <2>2 DEF TrapTtyReceive
<1>7. hung' \in BOOLEAN
  <2>1. hung' = TRUE \/ hung' = hung BY DEF TrapTtyReceive
  <2> QED BY <2>1 DEF Inv, TypeOK
<1>8. TypeOK'
  BY <1>1, <1>3, <1>4, <1>5, <1>6, <1>7 DEF Inv, TypeOK
<1>9. BusyWhileSending' /\ IdleInUser'
  BY <1>1 DEF Inv, BusyWhileSending, IdleInUser
<1>10. SenderWaits' BY <1>1, <1>6 DEF Inv, SenderWaits
<1> QED BY <1>4, <1>6, <1>8, <1>9, <1>10 DEF Inv

LEMMA TrapTtyTransmitInv ==
    ASSUME Inv, NEW t \in Tty, TrapTtyTransmit(t)
    PROVE  /\ Inv'
           /\ \A p \in On(io_list) \ On(io_list') :
                 state[p] = "BLOCKED_W" /\ tty_id[p] = t
           /\ transmitting'[t] # transmitting[t]
           /\ transmitting' = [transmitting EXCEPT ![t] = NoProc]
<1>1. /\ transmitting[t] # NoProc
      /\ transmitting' = [transmitting EXCEPT ![t] = NoProc]
      /\ busy_terminal' = [busy_terminal EXCEPT ![t] = 0]
      /\ Unblock(FirstMatch("BLOCKED_W", t))
      /\ UNCHANGED <<active_proc, kpc, state, tty_id, receive, string_len,
                     remain, hung, line, writes>>
  BY DEF TrapTtyTransmit
<1>2. /\ busy_terminal \in [0..NUM_TERMINALS -> {0, 1}]
      /\ transmitting \in [0..NUM_TERMINALS -> Proc \cup {NoProc}]
      /\ \A x \in Tty : x \in 0..NUM_TERMINALS
  BY TtyAssumption DEF Inv, TypeOK, Tty
<1>3. /\ busy_terminal' \in [0..NUM_TERMINALS -> {0, 1}]
      /\ transmitting' \in [0..NUM_TERMINALS -> Proc \cup {NoProc}]
      /\ transmitting'[t] = NoProc /\ busy_terminal'[t] = 0
      /\ \A x \in Tty \ {t} : /\ transmitting'[x] = transmitting[x]
                              /\ busy_terminal'[x] = busy_terminal[x]
  BY <1>1, <1>2
<1>4. /\ Housed(active_proc', ready_queue', {0}, Lists(io_list'))
      /\ ready_queue' \in Seq(Proc) /\ io_list' \in Seq(Proc)
      /\ \A p \in On(io_list) \ On(io_list') :
            state[p] = "BLOCKED_W" /\ tty_id[p] = t
  BY <1>1, UnblockFacts DEF Match
<1>5. TypeOK' BY <1>1, <1>3, <1>4 DEF Inv, TypeOK
<1>6. BusyWhileSending'
  <2>1. ASSUME NEW x \in Tty
        PROVE  busy_terminal'[x] = 1 <=> transmitting'[x] # NoProc
    <3>1. CASE x = t BY <1>3, <3>1
    <3>2. CASE x # t BY <1>3, <3>2 DEF Inv, BusyWhileSending
    <3> QED BY <3>1, <3>2
  <2> QED BY <2>1 DEF BusyWhileSending
<1>7. IdleInUser' BY <1>1 DEF Inv, IdleInUser
<1>8. SenderWaits'
  <2> SUFFICES ASSUME NEW x \in Tty, NEW q \in Proc, transmitting'[x] = q,
                      kpc'[q] = "sent", tty_id'[q] = x
               PROVE  q \in On(io_list') /\ state'[q] = "BLOCKED_W"
    BY DEF SenderWaits
  <2>1. x # t /\ transmitting'[x] = transmitting[x]
    <3>1. NoProc \notin Proc BY DEF NoProc, Proc
    <3> QED BY <1>3, <3>1
  <2> QED BY <1>1, <1>4, <2>1 DEF Inv, SenderWaits
<1> QED BY <1>1, <1>3, <1>4, <1>5, <1>6, <1>7, <1>8 DEF Inv

LEMMA ClockInv == ASSUME Inv, Clock PROVE Inv'
<1>1. Preempt /\ UNCHANGED ttyVars BY DEF Clock
<1>2. /\ Housed(active_proc', ready_queue', {0}, Lists(io_list)) /\ kpc' = kpc
  BY <1>1, Preempted DEF Inv
<1>3. /\ io_list' = io_list /\ state' = state /\ tty_id' = tty_id
      /\ busy_terminal' = busy_terminal /\ receive' = receive
      /\ string_len' = string_len /\ remain' = remain /\ hung' = hung
      /\ transmitting' = transmitting /\ line' = line /\ writes' = writes
  BY <1>1 DEF ttyVars
<1>4. active_proc' \in Proc /\ ready_queue' \in Seq(Proc) BY <1>2 DEF Housed
<1> QED BY <1>2, <1>3, <1>4
        DEF Inv, TypeOK, IdleInUser, BusyWhileSending, SenderWaits

LEMMA StutterInv == ASSUME Inv, UNCHANGED vars PROVE Inv'
  BY DEF Inv, TypeOK, IdleInUser, BusyWhileSending, SenderWaits, vars,
         taskVars, schedVars, ttyVars

----------------------------------------------------------------------------
LEMMA NextInv == ASSUME Inv, Next PROVE Inv'
<1>1. ASSUME NEW p \in Proc, NEW t \in Ids, TtyRead(p, t) PROVE Inv'
  BY <1>1, TtyReadInv
<1>2. ASSUME NEW p \in Proc, NEW t \in Ids, NEW n \in 1..MaxWrite,
             TtyWrite(p, t, n)
      PROVE  Inv'
  BY <1>2, TtyWriteInv
<1>3. ASSUME NEW p \in Proc, TtyReadBack(p) PROVE Inv'
  BY <1>3, TtyReadBackInv
<1>4. ASSUME NEW p \in Proc, TtyWriteBack(p) PROVE Inv'
  BY <1>4, TtyWriteBackInv
<1>5. ASSUME NEW t \in Tty, NEW fills \in Fills, TrapTtyReceive(t, fills)
      PROVE  Inv'
  BY <1>5, TrapTtyReceiveInv
<1>6. ASSUME NEW t \in Tty, TrapTtyTransmit(t) PROVE Inv'
  BY <1>6, TrapTtyTransmitInv
<1>7. ASSUME Clock PROVE Inv' BY <1>7, ClockInv
<1> QED BY <1>1, <1>2, <1>3, <1>4, <1>5, <1>6, <1>7 DEF Next

LEMMA SpecInv == Spec => []Inv
<1>1. Inv /\ [Next]_vars => Inv' BY NextInv, StutterInv
<1> QED BY <1>1, InitInv, PTL DEF Spec

(* The kernel's variables hold what their declarations say. *)
THEOREM TypeCorrect == Spec => []TypeOK
<1>1. Inv => TypeOK BY DEF Inv
<1> QED BY <1>1, SpecInv, PTL

(* Every process runs, is ready or is blocked on a terminal, once. *)
THEOREM Residence == Spec => []SingleResidence
<1>1. ASSUME Inv PROVE SingleResidence
  <2>1. io_list \in Seq(Proc) BY <1>1 DEF Inv, TypeOK
  <2>2. Lists(io_list)[0] = io_list BY <2>1, ListsFacts
  <2>3. PlacesOK(UNION {On(Lists(io_list)[i]) : i \in {0}})
    BY <1>1, HousedPlaces DEF Inv
  <2>4. UNION {On(Lists(io_list)[i]) : i \in {0}} = On(io_list) BY <2>2
  <2>5. PlacesOK(On(io_list)) BY <2>3, <2>4
  <2>6. NoDup(io_list) BY <1>1, <2>2 DEF Inv, Housed
  <2> QED BY <2>5, <2>6 DEF SingleResidence
<1>2. Inv => SingleResidence BY <1>1
<1> QED BY <1>2, SpecInv, PTL

(* The flag of a terminal is up exactly while the terminal sends. *)
THEOREM FlagExact == Spec => []BusyWhileSending
<1>1. Inv => BusyWhileSending BY DEF Inv
<1> QED BY <1>1, SpecInv, PTL

(* A write that waits for the end of its line is blocked in sys_TtyWrite until
   the trap, whatever other writes did that found no memory to wait. *)
THEOREM WriterBlocked == Spec => []BlockedWhileSending
<1>1. Inv => BlockedWhileSending BY DEF Inv, SenderWaits, BlockedWhileSending
<1> QED BY <1>1, SpecInv, PTL

(* Nothing is sent to a terminal that still sends: sys_TtyWrite tests the
   flag, and the flag is exact. *)
THEOREM OneLineAtATime == Spec => NoDupWriting
<1> DEFINE P == \A t \in Tty : transmitting[t] # NoProc
                   => transmitting'[t] \in {transmitting[t], NoProc}
<1>1. ASSUME Inv, Next PROVE P
  <2> SUFFICES ASSUME NEW t \in Tty, transmitting[t] # NoProc
               PROVE  transmitting'[t] \in {transmitting[t], NoProc}
    OBVIOUS
  <2>1. /\ t \in 0..NUM_TERMINALS /\ busy_terminal[t] = 1
        /\ transmitting \in [0..NUM_TERMINALS -> Proc \cup {NoProc}]
    BY <1>1, TtyAssumption DEF Inv, TypeOK, BusyWhileSending, Tty
  <2>2. ASSUME NEW p, NEW x, NEW n, SendLine(p, x, n)
        PROVE  transmitting'[t] = transmitting[t]
    <3>1. CASE UNCHANGED transmitting BY <3>1
    <3>2. CASE ~Busy(x) /\ transmitting' = [transmitting EXCEPT ![x] = p]
      <4>1. x # t BY <2>1, <3>2 DEF Busy
      <4> QED BY <2>1, <3>2, <4>1
    <3> QED BY <2>2, <3>1, <3>2 DEF SendLine
  <2>3. ASSUME NEW p \in Proc, NEW x \in Ids, TtyRead(p, x)
        PROVE  transmitting'[t] = transmitting[t]
    BY <2>3 DEF TtyRead
  <2>4. ASSUME NEW p \in Proc, NEW x \in Ids, NEW n \in 1..MaxWrite,
               TtyWrite(p, x, n)
        PROVE  transmitting'[t] = transmitting[t]
    BY <2>2, <2>4 DEF TtyWrite
  <2>5. ASSUME NEW p \in Proc, TtyReadBack(p)
        PROVE  transmitting'[t] = transmitting[t]
    BY <2>5 DEF TtyReadBack
  <2>6. ASSUME NEW p \in Proc, TtyWriteBack(p)
        PROVE  transmitting'[t] = transmitting[t]
    <3>1. CASE UNCHANGED transmitting BY <3>1
    <3>2. CASE SendLine(p, tty_id[p], remain[p]) BY <2>2, <3>2
    <3> QED BY <2>6, <3>1, <3>2 DEF TtyWriteBack
  <2>7. ASSUME NEW x \in Tty, NEW fills \in Fills, TrapTtyReceive(x, fills)
        PROVE  transmitting'[t] = transmitting[t]
    BY <2>7 DEF TrapTtyReceive
  <2>8. ASSUME NEW x \in Tty, TrapTtyTransmit(x)
        PROVE  transmitting'[t] \in {transmitting[t], NoProc}
    <3>1. transmitting' = [transmitting EXCEPT ![x] = NoProc]
      BY <2>8 DEF TrapTtyTransmit
    <3> QED BY <2>1, <3>1
  <2>9. ASSUME Clock PROVE transmitting'[t] = transmitting[t]
    BY <2>9 DEF Clock, ttyVars
  <2> QED BY <1>1, <2>3, <2>4, <2>5, <2>6, <2>7, <2>8, <2>9 DEF Next
<1>2. Inv /\ [Next]_vars => [P]_vars BY <1>1
<1> QED BY <1>2, SpecInv, PTL DEF Spec, NoDupWriting

(* A process leaves io_list only in a trap of the terminal it waits for. *)
THEOREM WokenRightly == Spec => WokenByOwnTerminal
<1> DEFINE P == \A p \in On(io_list) \ On(io_list') :
                   IF state[p] = "BLOCKED_R"
                   THEN receive'[tty_id[p]] # receive[tty_id[p]]
                   ELSE transmitting'[tty_id[p]] # transmitting[tty_id[p]]
           Nobody == On(io_list) \ On(io_list') = {}
<1>1. ASSUME Inv, Next PROVE P
  <2>1. io_list \in Seq(Proc) BY <1>1 DEF Inv, TypeOK
  <2>2. ASSUME NEW p \in Proc, NEW t, NEW st, NEW pc, NEW n,
               BlockOn(p, t, st, pc, n)
        PROVE  Nobody
    <3>1. CASE io_list' = Append(io_list, p) BY <2>1, <3>1, AppendFacts
    <3>2. CASE io_list' = io_list BY <3>2
    <3> QED BY <2>2, <3>1, <3>2 DEF BlockOn
  <2>3. ASSUME NEW p \in Proc, NEW t, NEW n, SendLine(p, t, n) PROVE Nobody
    BY <2>2, <2>3 DEF SendLine
  <2>4. ASSUME NEW p \in Proc, NEW t \in Ids, TtyRead(p, t) PROVE Nobody
    BY <2>2, <2>4 DEF TtyRead
  <2>5. ASSUME NEW p \in Proc, NEW t \in Ids, NEW n \in 1..MaxWrite,
               TtyWrite(p, t, n)
        PROVE  Nobody
    BY <2>3, <2>5 DEF TtyWrite
  <2>6. ASSUME NEW p \in Proc, TtyReadBack(p) PROVE Nobody
    BY <2>6 DEF TtyReadBack
  <2>7. ASSUME NEW p \in Proc, TtyWriteBack(p) PROVE Nobody
    <3>1. CASE UNCHANGED io_list BY <3>1
    <3>2. CASE SendLine(p, tty_id[p], remain[p]) BY <2>3, <3>2
    <3> QED BY <2>7, <3>1, <3>2 DEF TtyWriteBack
  <2>8. ASSUME NEW t \in Tty, NEW fills \in Fills, TrapTtyReceive(t, fills)
        PROVE  P
    BY <1>1, <2>8, TrapTtyReceiveInv
  <2>9. ASSUME NEW t \in Tty, TrapTtyTransmit(t) PROVE P
    BY <1>1, <2>9, TrapTtyTransmitInv
  <2>10. ASSUME Clock PROVE Nobody
    BY <2>10 DEF Clock, ttyVars
  <2>11. Nobody => P OBVIOUS
  <2> HIDE DEF P, Nobody
  <2> QED BY <1>1, <2>4, <2>5, <2>6, <2>7, <2>8, <2>9, <2>10, <2>11 DEF Next
<1>2. Inv /\ [Next]_vars => [P]_vars BY <1>1
<1> QED BY <1>2, SpecInv, PTL DEF Spec, WokenByOwnTerminal
=============================================================================
