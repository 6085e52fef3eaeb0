---------------------------- MODULE ProcessProofs ----------------------------
(***************************************************************************)
(* The safety of the process life cycle, for any number of processes, any  *)
(* Delay, with and without allocation failures and stray pointers.         *)
(***************************************************************************)
EXTENDS Process, SchedulerProofs

\* Pids are handed out in order: the ones from next_pid on are unused.
PidsInOrder == \A p \in Pid : kpc[p] = "unborn" <=> p >= next_pid

\* SleepExact while the clock handler walks: the sleepers from clock_i on
\* still have to be counted down for the interrupt being served.
SleepCounted ==
    /\ \A i \in 1..Len(sleep_list) :
          LET p == sleep_list[i].pcb IN
          IF clock_i # 0 /\ i >= clock_i
          THEN sleep_list[i].ticks_left = due[p] + 1
          ELSE sleep_list[i].ticks_left = due[p] /\ due[p] > 0
    /\ \A p \in Pid : due[p] > 0 => p \in Sleepers

\* The inductive invariant.
Inv ==
    /\ TypeOK
    /\ SingleResidence
    /\ IdleReady
    /\ PidsInOrder
    /\ SleepCounted

SleepInfo == [pcb : Pid, ticks_left : Int]

\* The processes of a sleep list, in order.
Pcbs(sl) == [i \in 1..Len(sl) |-> sl[i].pcb]

----------------------------------------------------------------------------
(* The sleep list holds its processes as a list of pids would. *)
LEMMA PcbsFacts ==
    ASSUME NEW sl \in Seq(SleepInfo)
    PROVE  /\ Pcbs(sl) \in Seq(Pid) /\ Len(Pcbs(sl)) = Len(sl)
           /\ \A s \in SleepInfo : Pcbs(Append(sl, s)) = Append(Pcbs(sl), s.pcb)
           /\ \A i \in 1..Len(sl) :
                Pcbs(list_remove(sl, i)) = list_remove(Pcbs(sl), i)
<1>1. Pcbs(sl) \in Seq(Pid) /\ Len(Pcbs(sl)) = Len(sl) /\ Len(sl) \in Nat
  <2>1. ASSUME NEW i \in 1..Len(sl) PROVE sl[i].pcb \in Pid
    <3>1. sl[i] \in SleepInfo OBVIOUS
    <3> QED BY <3>1 DEF SleepInfo
  <2>2. Len(sl) \in Nat OBVIOUS
  <2>3. Pcbs(sl) \in [1..Len(sl) -> Pid] BY <2>1 DEF Pcbs
  <2> QED BY <2>2, <2>3
<1>2. ASSUME NEW s \in SleepInfo
      PROVE  Pcbs(Append(sl, s)) = Append(Pcbs(sl), s.pcb)
  <2>1. Len(Append(sl, s)) = Len(sl) + 1 OBVIOUS
  <2>2. Append(Pcbs(sl), s.pcb)
          = [i \in 1..Len(sl) + 1 |-> IF i = Len(sl) + 1 THEN s.pcb
                                                       ELSE Pcbs(sl)[i]]
    <3>1. s.pcb \in Pid BY DEF SleepInfo
    <3> QED BY <1>1, <3>1
  <2>3. \A i \in 1..Len(sl) + 1 :
          Append(sl, s)[i].pcb = IF i = Len(sl) + 1 THEN s.pcb
                                                    ELSE Pcbs(sl)[i]
    BY <1>1 DEF Pcbs
  <2> QED BY <2>1, <2>2, <2>3 DEF Pcbs
<1>3. ASSUME NEW i \in 1..Len(sl)
      PROVE  Pcbs(list_remove(sl, i)) = list_remove(Pcbs(sl), i)
  <2>1. /\ Len(list_remove(sl, i)) = Len(sl) - 1
        /\ \A k \in 1..Len(sl) - 1 :
             list_remove(sl, i)[k] = IF k < i THEN sl[k] ELSE sl[k + 1]
    BY RemoveFacts
  <2>2. list_remove(Pcbs(sl), i)
          = [k \in 1..Len(sl) - 1 |-> IF k < i THEN Pcbs(sl)[k]
                                               ELSE Pcbs(sl)[k + 1]]
    BY <1>1 DEF list_remove
  <2>3. \A k \in 1..Len(sl) - 1 :
          list_remove(sl, i)[k].pcb = IF k < i THEN Pcbs(sl)[k]
                                               ELSE Pcbs(sl)[k + 1]
    BY <2>1, <1>1 DEF Pcbs
  <2> QED BY <2>1, <2>2, <2>3 DEF Pcbs
<1> QED BY <1>1, <1>2, <1>3

(* Where the processes are, as sets: the form the steps are proved in. *)
Places(a, R, S, W, L) ==
    /\ a \notin R \cup S \cup W
    /\ R \cap S = {} /\ R \cap W = {} /\ S \cap W = {}
    /\ L = {a} \cup R \cup S \cup W

LEMMA ResidenceAsSets ==
    ASSUME sleep_list \in Seq(SleepInfo)
    PROVE  /\ Sleepers = On(Pcbs(sleep_list))
           /\ SingleResidence <=>
                /\ NoDup(ready_queue) /\ NoDup(wait_list)
                /\ NoDup(Pcbs(sleep_list))
                /\ Places(active_proc, On(ready_queue), On(Pcbs(sleep_list)),
                          On(wait_list), Live)
<1>1. Len(Pcbs(sleep_list)) = Len(sleep_list) BY PcbsFacts
<1>2. \A i \in 1..Len(sleep_list) : Pcbs(sleep_list)[i] = sleep_list[i].pcb
  BY DEF Pcbs
<1>3. Sleepers = On(Pcbs(sleep_list)) BY <1>1, <1>2 DEF Sleepers, On
<1>4. NoDup(Pcbs(sleep_list)) <=>
        \A i, j \in 1..Len(sleep_list) :
          sleep_list[i].pcb = sleep_list[j].pcb => i = j
  BY <1>1, <1>2 DEF NoDup
<1> QED BY <1>3, <1>4 DEF SingleResidence, Places

(* The same of the state a step leads to. *)
LEMMA ResidenceAsSetsNext ==
    ASSUME sleep_list' \in Seq(SleepInfo)
    PROVE  /\ Sleepers' = On(Pcbs(sleep_list'))
           /\ SingleResidence' <=>
                /\ NoDup(ready_queue') /\ NoDup(wait_list')
                /\ NoDup(Pcbs(sleep_list'))
                /\ Places(active_proc', On(ready_queue'),
                          On(Pcbs(sleep_list')), On(wait_list'), Live')
<1>1. Len(Pcbs(sleep_list')) = Len(sleep_list') BY PcbsFacts
<1>2. \A i \in 1..Len(sleep_list') : Pcbs(sleep_list')[i] = sleep_list'[i].pcb
  BY DEF Pcbs
<1>3. Sleepers' = On(Pcbs(sleep_list')) BY <1>1, <1>2 DEF Sleepers, On
<1>4. NoDup(Pcbs(sleep_list')) <=>
        \A i, j \in 1..Len(sleep_list') :
          sleep_list'[i].pcb = sleep_list'[j].pcb => i = j
  BY <1>1, <1>2 DEF NoDup
<1> QED BY <1>3, <1>4 DEF SingleResidence, Places

----------------------------------------------------------------------------
(* The steps in which the caller gives up the processor: IdleReady makes
   normal_schedule find somebody, whoever was woken before. *)
LEMMA ScheduleFacts ==
    ASSUME NEW q \in Seq(Pid), NEW cur, NoDup(q), Idle \in On(q),
           normal_schedule(q, cur)
    PROVE  /\ active_proc' \in Pid /\ active_proc' \in On(q)
           /\ ready_queue' \in Seq(Pid) /\ NoDup(ready_queue')
           /\ On(ready_queue') = On(q) \ {active_proc'}
           /\ active_proc' = Idle => On(q) = {Idle}
           /\ IdleReady'
<1>1. q # <<>> BY DEF On
<1>2. Dispatch(q) BY <1>1 DEF normal_schedule
<1>3. /\ active_proc' \in Pid /\ active_proc' \in On(q)
      /\ ready_queue' \in Seq(Pid) /\ NoDup(ready_queue')
      /\ On(ready_queue') = On(q) \ {active_proc'}
      /\ active_proc' = Idle => On(q) = {Idle}
  BY <1>1, <1>2, DispatchFacts
<1>4. IdleReady'
  BY <1>3 DEF IdleReady
<1> QED BY <1>3, <1>4

LEMMA InitInv == Init => Inv
<1> SUFFICES ASSUME Init PROVE Inv OBVIOUS
<1> USE MaxPidAssumption DEF Init, InitPid, Idle, NoProc, Pid
<1>1. TypeOK BY DEF TypeOK
<1>2. Sleepers = {} /\ On(wait_list) = {} /\ On(ready_queue) = {Idle}
  BY DEF Sleepers, On
<1>3. Live = {InitPid, Idle} BY DEF Live
<1>4. SingleResidence BY <1>2, <1>3 DEF SingleResidence, NoDup
<1>5. IdleReady BY <1>2 DEF IdleReady
<1>6. PidsInOrder BY DEF PidsInOrder
<1>7. SleepCounted BY DEF SleepCounted
<1> QED BY <1>1, <1>4, <1>5, <1>6, <1>7 DEF Inv

----------------------------------------------------------------------------
(* Fork adds a process that was nowhere, to the ready queue or nowhere. *)
LEMMA ForkInv ==
    ASSUME Inv, NEW p \in Pid, Fork(p) \/ ForkFail(p)
    PROVE  Inv'
<1> USE DEF Inv
<1>1. /\ Register(p) /\ next_pid \in Pid /\ next_pid # p /\ next_pid >= 2
      /\ kpc[next_pid] = "unborn"
  <2>1. Register(p) BY DEF Fork, ForkFail
  <2>2. kpc[p] = "user" /\ next_pid <= MaxPid
    BY <2>1 DEF Register, Calls, InUser
  <2>3. next_pid \in Pid /\ next_pid >= 2
    BY <2>2, MaxPidAssumption DEF TypeOK, Pid
  <2>4. kpc[next_pid] = "unborn" BY <2>3 DEF PidsInOrder, Pid
  <2> QED BY <2>1, <2>2, <2>3, <2>4
<1>2. /\ next_pid \notin Live
      /\ next_pid \notin On(ready_queue)
  BY <1>1 DEF Live, SingleResidence
<1>3. /\ active_proc' = active_proc /\ sleep_list' = sleep_list
      /\ wait_list' = wait_list /\ Sleepers' = Sleepers
      /\ next_pid' = next_pid + 1
  BY <1>1 DEF Register, Sleepers
<1>4. TypeOK'
  <2>1. ready_queue' \in Seq(Pid)
    <3>1. Append(ready_queue, next_pid) \in Seq(Pid)
      BY <1>1, AppendFacts DEF TypeOK
    <3> QED BY <3>1 DEF Fork, ForkFail, TypeOK
  <2>2. kpc' \in [Pid -> {"unborn", "stillborn", "user", "sys_Wait", "exited"}]
    BY <1>1 DEF Fork, ForkFail, TypeOK
  <2>3. children' \in [Pid -> Seq(Pid)] BY <1>1 DEF Register, TypeOK
  <2>4. ppid' \in [Pid -> Pid \cup {-1}] BY <1>1 DEF Register, TypeOK
  <2>5. next_pid' \in 2..MaxPid + 1
    BY <1>1, <1>3, MaxPidAssumption DEF Register, TypeOK
  <2> QED BY <1>1, <2>1, <2>2, <2>3, <2>4, <2>5 DEF Register, TypeOK
<1>5. PidsInOrder'
  <2>1. ASSUME NEW c \in Pid
        PROVE  kpc'[c] = "unborn" <=> kpc[c] = "unborn" /\ c # next_pid
    BY <1>1 DEF Fork, ForkFail, TypeOK
  <2>2. next_pid \in Nat BY <1>1 DEF Pid
  <2> QED BY <1>3, <2>1, <2>2 DEF PidsInOrder, Pid
<1>6. SleepCounted' BY <1>1, <1>3 DEF Register, SleepCounted
<1>7. CASE Fork(p)
  <2>1. /\ NoDup(ready_queue')
        /\ On(ready_queue') = On(ready_queue) \cup {next_pid}
    BY <1>1, <1>2, <1>7, AppendFacts DEF Fork, SingleResidence, TypeOK
  <2>2. Live' = Live \cup {next_pid} BY <1>1, <1>7 DEF Fork, Live, TypeOK
  <2>3. SingleResidence'
    BY <1>2, <1>3, <2>1, <2>2 DEF SingleResidence
  <2>4. IdleReady' BY <1>3, <2>1 DEF IdleReady
  <2> QED BY <1>4, <1>5, <1>6, <2>3, <2>4
<1>8. CASE ForkFail(p)
  <2>1. ready_queue' = ready_queue BY <1>8 DEF ForkFail
  <2>2. Live' = Live BY <1>1, <1>8 DEF ForkFail, Live, TypeOK
  <2>3. SingleResidence' BY <1>3, <2>1, <2>2 DEF SingleResidence
  <2>4. IdleReady' BY <1>3, <2>1 DEF IdleReady
  <2> QED BY <1>4, <1>5, <1>6, <2>3, <2>4
<1> QED BY <1>7, <1>8

(* Delay moves the caller to the end of the sleep list. *)
LEMMA DelayInv ==
    ASSUME Inv, NEW p \in Pid, NEW n \in 1..MaxTicks, Delay(p, n)
    PROVE  Inv'
<1> USE DEF Inv
<1> DEFINE s == [pcb |-> p, ticks_left |-> n]
<1>1. /\ active_proc = p /\ p # Idle /\ clock_i = 0 /\ clock_i' = 0
      /\ sleep_list' = Append(sleep_list, s)
      /\ wait_list' = wait_list /\ kpc' = kpc /\ next_pid' = next_pid
      /\ due' = [due EXCEPT ![p] = n] /\ normal_schedule(ready_queue, p)
  BY DEF Delay, insert_sleep_list, Calls, InUser
<1>2. /\ active_proc' \in Pid /\ active_proc' \in On(ready_queue)
      /\ ready_queue' \in Seq(Pid) /\ NoDup(ready_queue')
      /\ On(ready_queue') = On(ready_queue) \ {active_proc'}
      /\ IdleReady'
  BY <1>1, ScheduleFacts DEF IdleReady, TypeOK, SingleResidence
<1>3. s \in SleepInfo /\ n \in Nat /\ n > 0
  BY MaxTicksAssumption DEF SleepInfo
<1>4. sleep_list \in Seq(SleepInfo) /\ sleep_list' \in Seq(SleepInfo)
  BY <1>1, <1>3, AppendFacts DEF TypeOK, SleepInfo
<1>5. TypeOK'
  BY <1>1, <1>2, <1>3, <1>4, SMTT(30) DEF TypeOK, Delay, SleepInfo
<1>6. Pcbs(sleep_list') = Append(Pcbs(sleep_list), p)
  BY <1>1, <1>3, <1>4, PcbsFacts
<1>7. SingleResidence'
  <2>1. /\ NoDup(wait_list) /\ NoDup(Pcbs(sleep_list))
        /\ Places(p, On(ready_queue), On(Pcbs(sleep_list)), On(wait_list), Live)
    BY <1>1, <1>4, ResidenceAsSets
  <2>2. p \notin On(Pcbs(sleep_list)) BY <2>1 DEF Places
  <2>3. /\ NoDup(Pcbs(sleep_list'))
        /\ On(Pcbs(sleep_list')) = On(Pcbs(sleep_list)) \cup {p}
    BY <2>1, <2>2, <1>4, <1>6, PcbsFacts, AppendFacts
  <2>4. Live' = Live BY <1>1 DEF Live
  <2>5. Places(active_proc', On(ready_queue'), On(Pcbs(sleep_list')),
               On(wait_list'), Live')
    BY <1>1, <1>2, <2>1, <2>3, <2>4 DEF Places
  <2> QED BY <1>1, <1>2, <1>4, <2>1, <2>3, <2>5, ResidenceAsSetsNext
<1>8. PidsInOrder' BY <1>1 DEF PidsInOrder
<1>9. SleepCounted'
  <2>1. /\ Len(sleep_list') = Len(sleep_list) + 1 /\ Len(sleep_list) \in Nat
        /\ \A i \in 1..Len(sleep_list) : sleep_list'[i] = sleep_list[i]
        /\ sleep_list'[Len(sleep_list) + 1] = s
    BY <1>1, <1>3, <1>4
  <2>2. \A i \in 1..Len(sleep_list) : sleep_list[i].pcb \in Pid \ {p}
    <3>1. ASSUME NEW i \in 1..Len(sleep_list)
          PROVE  sleep_list[i].pcb \in Pid
      <4>1. sleep_list[i] \in SleepInfo BY <1>4
      <4> QED BY <4>1 DEF SleepInfo
    <3>2. p \notin Sleepers BY <1>1 DEF SingleResidence
    <3> QED BY <3>1, <3>2 DEF Sleepers
  <2>3. Sleepers' = Sleepers \cup {p}
    <3>1. \A i \in 1..Len(sleep_list') :
            sleep_list'[i].pcb \in Sleepers \cup {p}
      BY <2>1 DEF Sleepers
    <3>2. \A i \in 1..Len(sleep_list) : sleep_list[i].pcb \in Sleepers'
      BY <2>1 DEF Sleepers
    <3>3. p \in Sleepers'
      <4>1. Len(sleep_list) + 1 \in 1..Len(sleep_list') BY <2>1
      <4> QED BY <2>1, <4>1 DEF Sleepers
    <3> QED BY <3>1, <3>2, <3>3 DEF Sleepers
  <2>4. ASSUME NEW i \in 1..Len(sleep_list')
        PROVE  /\ sleep_list'[i].ticks_left = due'[sleep_list'[i].pcb]
               /\ due'[sleep_list'[i].pcb] > 0
    <3>1. CASE i \in 1..Len(sleep_list)
      <4>1. /\ sleep_list[i].ticks_left = due[sleep_list[i].pcb]
            /\ due[sleep_list[i].pcb] > 0
        BY <1>1, <3>1 DEF SleepCounted
      <4>2. sleep_list'[i] = sleep_list[i] /\ sleep_list[i].pcb \in Pid \ {p}
        BY <2>1, <2>2, <3>1
      <4> QED BY <4>1, <4>2, <1>1 DEF TypeOK
    <3>2. CASE i = Len(sleep_list) + 1
      BY <1>1, <1>3, <2>1, <3>2 DEF TypeOK
    <3> QED BY <2>1, <3>1, <3>2
  <2>5. \A x \in Pid : due'[x] > 0 => x \in Sleepers'
    BY <1>1, <2>3 DEF SleepCounted, TypeOK
  <2> QED BY <1>1, <2>4, <2>5 DEF SleepCounted
<1> QED BY <1>2, <1>5, <1>7, <1>8, <1>9

(* A clock interrupt leaves one tick to count down for every sleeper. *)
LEMMA TrapClockInv ==
    ASSUME Inv, TrapClock
    PROVE  Inv'
<1> USE DEF Inv
<1>1. /\ clock_i = 0 /\ clock_i' = 1 /\ sleep_list' = sleep_list
      /\ Sleepers' = Sleepers
      /\ due' = [p \in Pid |-> IF due[p] > 0 THEN due[p] - 1 ELSE 0]
      /\ UNCHANGED <<active_proc, ready_queue, wait_list, kpc, next_pid>>
  BY DEF TrapClock, InUser, schedVars, Sleepers
<1>2. TypeOK' BY <1>1 DEF TrapClock, TypeOK
<1>3. SingleResidence' /\ IdleReady' /\ PidsInOrder'
  BY <1>1 DEF SingleResidence, IdleReady, PidsInOrder, Live
<1>4. SleepCounted'
  <2>1. ASSUME NEW i \in 1..Len(sleep_list)
        PROVE  sleep_list[i].ticks_left = due'[sleep_list[i].pcb] + 1
    <3>1. sleep_list[i].pcb \in Pid
      <4>1. sleep_list \in Seq(SleepInfo) BY DEF TypeOK, SleepInfo
      <4>2. sleep_list[i] \in SleepInfo BY <4>1
      <4> QED BY <4>2 DEF SleepInfo
    <3>2. /\ sleep_list[i].ticks_left = due[sleep_list[i].pcb]
          /\ due[sleep_list[i].pcb] > 0
      BY <1>1 DEF SleepCounted
    <3>3. due[sleep_list[i].pcb] \in Nat BY <3>1 DEF TypeOK
    <3>4. due'[sleep_list[i].pcb] = due[sleep_list[i].pcb] - 1
      BY <1>1, <3>1, <3>2
    <3> QED BY <3>2, <3>3, <3>4
  <2>2. \A p \in Pid : due'[p] > 0 => due[p] > 0 BY <1>1
  <2> QED BY <1>1, <2>1, <2>2 DEF SleepCounted
<1> QED BY <1>2, <1>3, <1>4

(* The walk of the clock handler, at a sleeper that wakes. *)
LEMMA WakeSleeperInv ==
    ASSUME Inv, UpdateSleeper, Expired(sleep_list[clock_i])
    PROVE  Inv'
<1> USE DEF Inv
<1> DEFINE s == sleep_list[clock_i]
<1>1. /\ clock_i \in 1..Len(sleep_list) /\ clock_i' = clock_i
      /\ ready_queue' = Append(ready_queue, s.pcb)
      /\ sleep_list' = list_remove(sleep_list, clock_i)
      /\ UNCHANGED <<active_proc, wait_list, kpc, next_pid, due>>
  BY DEF UpdateSleeper, AfterRemoval
<1>2. sleep_list \in Seq(SleepInfo) BY DEF TypeOK, SleepInfo
<1>3. s \in SleepInfo /\ s.pcb \in Pid
  <2>1. s \in SleepInfo BY <1>1, <1>2
  <2> QED BY <2>1 DEF SleepInfo
<1>4. /\ sleep_list' \in Seq(SleepInfo)
      /\ Len(sleep_list') = Len(sleep_list) - 1 /\ Len(sleep_list) \in Nat
      /\ \A k \in 1..Len(sleep_list) - 1 :
            sleep_list'[k] = IF k < clock_i THEN sleep_list[k]
                                            ELSE sleep_list[k + 1]
  <2>1. Len(sleep_list) \in Nat BY <1>2
  <2> QED BY <1>1, <1>2, <2>1, RemoveFacts
<1>5. /\ NoDup(ready_queue) /\ NoDup(wait_list) /\ NoDup(Pcbs(sleep_list))
      /\ Places(active_proc, On(ready_queue), On(Pcbs(sleep_list)),
                On(wait_list), Live)
  BY <1>2, ResidenceAsSets
<1>6. /\ Pcbs(sleep_list) \in Seq(Pid)
      /\ Len(Pcbs(sleep_list)) = Len(sleep_list)
      /\ Pcbs(sleep_list)[clock_i] = s.pcb
      /\ Pcbs(sleep_list') = list_remove(Pcbs(sleep_list), clock_i)
  BY <1>1, <1>2, PcbsFacts DEF Pcbs
<1>7. /\ NoDup(Pcbs(sleep_list'))
      /\ On(Pcbs(sleep_list')) = On(Pcbs(sleep_list)) \ {s.pcb}
      /\ s.pcb \in On(Pcbs(sleep_list))
  <2>1. clock_i \in 1..Len(Pcbs(sleep_list)) BY <1>1, <1>6
  <2>2. s.pcb \in On(Pcbs(sleep_list)) BY <2>1, <1>6 DEF On
  <2> QED BY <1>5, <1>6, <2>1, <2>2, RemoveFacts
<1>8. /\ ready_queue' \in Seq(Pid) /\ NoDup(ready_queue')
      /\ On(ready_queue') = On(ready_queue) \cup {s.pcb}
  <2>1. s.pcb \notin On(ready_queue) BY <1>5, <1>7 DEF Places
  <2>2. ready_queue \in Seq(Pid) BY DEF TypeOK
  <2> HIDE DEF s
  <2> QED BY <1>1, <1>3, <1>5, <2>1, <2>2, AppendFacts DEF s
<1>9. TypeOK'
  BY <1>1, <1>4, <1>8 DEF TypeOK, UpdateSleeper, SleepInfo
<1>10. SingleResidence'
  <2>1. Live' = Live BY <1>1 DEF Live
  <2>2. Places(active_proc', On(ready_queue'), On(Pcbs(sleep_list')),
               On(wait_list'), Live')
    BY <1>1, <1>5, <1>7, <1>8, <2>1 DEF Places
  <2> QED BY <1>1, <1>4, <1>5, <1>7, <1>8, <2>2, ResidenceAsSetsNext
<1>11. IdleReady' BY <1>1, <1>8 DEF IdleReady
<1>12. PidsInOrder' BY <1>1 DEF PidsInOrder
<1>13. SleepCounted'
  <2>1. s.ticks_left = due[s.pcb] + 1 /\ s.ticks_left \in Int
    BY <1>1, <1>3 DEF SleepCounted, SleepInfo
  <2>2. due[s.pcb] = 0
    <3>1. due[s.pcb] \in Nat BY <1>3 DEF TypeOK
    <3>2. s.ticks_left - 1 <= 0 BY DEF Expired
    <3> QED BY <2>1, <3>1, <3>2
  <2>3. Sleepers = On(Pcbs(sleep_list)) /\ Sleepers' = On(Pcbs(sleep_list'))
    BY <1>2, <1>4, ResidenceAsSets, ResidenceAsSetsNext
  <2>4. \A p \in Pid : due'[p] > 0 => p \in Sleepers'
    BY <1>1, <1>7, <2>2, <2>3 DEF SleepCounted
  <2>5. ASSUME NEW k \in 1..Len(sleep_list')
        PROVE  IF k >= clock_i
               THEN sleep_list'[k].ticks_left = due'[sleep_list'[k].pcb] + 1
               ELSE /\ sleep_list'[k].ticks_left = due'[sleep_list'[k].pcb]
                    /\ due'[sleep_list'[k].pcb] > 0
    <3>1. CASE k < clock_i
      <4>1. sleep_list'[k] = sleep_list[k] /\ k \in 1..Len(sleep_list)
        BY <1>4, <3>1
      <4> QED BY <1>1, <3>1, <4>1 DEF SleepCounted
    <3>2. CASE k >= clock_i
      <4>1. /\ sleep_list'[k] = sleep_list[k + 1]
            /\ k + 1 \in 1..Len(sleep_list)
        BY <1>1, <1>4, <3>2
      <4> QED BY <1>1, <3>2, <4>1 DEF SleepCounted
    <3> QED BY <1>1, <3>1, <3>2
  <2> QED BY <1>1, <2>4, <2>5 DEF SleepCounted
<1> QED BY <1>9, <1>10, <1>11, <1>12, <1>13

(* The walk of the clock handler, at a sleeper that sleeps on. *)
LEMMA CountSleeperInv ==
    ASSUME Inv, UpdateSleeper, ~Expired(sleep_list[clock_i])
    PROVE  Inv'
<1> USE DEF Inv
<1> DEFINE s == sleep_list[clock_i]
<1>1. /\ clock_i \in 1..Len(sleep_list) /\ clock_i' = clock_i + 1
      /\ sleep_list' = [sleep_list EXCEPT ![clock_i].ticks_left = @ - 1]
      /\ UNCHANGED <<active_proc, ready_queue, wait_list, kpc, next_pid, due>>
  BY DEF UpdateSleeper
<1>2. sleep_list \in Seq(SleepInfo) BY DEF TypeOK, SleepInfo
<1>3. s \in SleepInfo /\ s.pcb \in Pid /\ s.ticks_left \in Int
  <2>1. s \in SleepInfo BY <1>1, <1>2
  <2> QED BY <2>1 DEF SleepInfo
<1>4. /\ sleep_list' \in Seq(SleepInfo) /\ Len(sleep_list') = Len(sleep_list)
      /\ \A i \in 1..Len(sleep_list) : i # clock_i
            => sleep_list'[i] = sleep_list[i]
      /\ sleep_list'[clock_i] = [s EXCEPT !.ticks_left = @ - 1]
  <2>1. [s EXCEPT !.ticks_left = @ - 1] \in SleepInfo
    BY <1>3 DEF SleepInfo
  <2>2. sleep_list' = [sleep_list EXCEPT ![clock_i] =
                                    [s EXCEPT !.ticks_left = @ - 1]]
    BY <1>1
  <2> QED BY <1>1, <1>2, <2>1, <2>2
<1>5. /\ sleep_list'[clock_i].pcb = s.pcb
      /\ sleep_list'[clock_i].ticks_left = s.ticks_left - 1
  BY <1>3, <1>4 DEF SleepInfo
<1>6. \A i \in 1..Len(sleep_list) : sleep_list'[i].pcb = sleep_list[i].pcb
  BY <1>4, <1>5
<1>7. Sleepers' = Sleepers BY <1>4, <1>6 DEF Sleepers
<1>8. TypeOK'
  <2>1. clock_i \in Nat BY DEF TypeOK
  <2>2. clock_i' \in Nat BY <1>1, <2>1
  <2> QED BY <1>1, <1>4, <2>2 DEF TypeOK, UpdateSleeper, SleepInfo
<1>9. SingleResidence'
  BY <1>1, <1>4, <1>6, <1>7 DEF SingleResidence, Live
<1>10. IdleReady' /\ PidsInOrder' BY <1>1 DEF IdleReady, PidsInOrder
<1>11. SleepCounted'
  <2>1. s.ticks_left = due[s.pcb] + 1 /\ due[s.pcb] \in Nat
    <3>1. due[s.pcb] \in Nat BY <1>3 DEF TypeOK
    <3>2. clock_i # 0 /\ clock_i >= clock_i BY <1>1
    <3> QED BY <1>1, <3>1, <3>2 DEF SleepCounted
  <2>2. due[s.pcb] > 0 BY <1>3, <2>1 DEF Expired
  <2>3. ASSUME NEW i \in 1..Len(sleep_list)
        PROVE  IF i >= clock_i + 1
               THEN sleep_list'[i].ticks_left = due[sleep_list'[i].pcb] + 1
               ELSE /\ sleep_list'[i].ticks_left = due[sleep_list'[i].pcb]
                    /\ due[sleep_list'[i].pcb] > 0
    <3>1. CASE i = clock_i BY <1>1, <1>5, <2>1, <2>2, <3>1
    <3>2. CASE i # clock_i BY <1>1, <1>4, <3>2 DEF SleepCounted
    <3> QED BY <3>1, <3>2
  <2>4. clock_i' # 0 /\ clock_i' = clock_i + 1 /\ due' = due BY <1>1
  <2> QED BY <1>4, <1>7, <2>3, <2>4 DEF SleepCounted
<1> QED BY <1>8, <1>9, <1>10, <1>11

(* The clock handler ends: everybody is counted, round robin. *)
LEMMA ClockScheduleInv ==
    ASSUME Inv, ClockSchedule
    PROVE  Inv'
<1> USE DEF Inv
<1>1. /\ clock_i > Len(sleep_list) /\ clock_i' = 0 /\ do_scheduler
      /\ UNCHANGED <<sleep_list, wait_list, kpc, next_pid, due>>
  BY DEF ClockSchedule
<1>2. Live' = Live /\ Sleepers' = Sleepers BY <1>1 DEF Live, Sleepers
<1>3. SleepCounted'
  <2>1. sleep_list \in Seq(SleepInfo) BY DEF TypeOK, SleepInfo
  <2>2. Len(sleep_list) \in Nat BY <2>1
  <2>3. clock_i \in Nat BY DEF TypeOK
  <2>4. \A i \in 1..Len(sleep_list) : ~(i >= clock_i)
    BY <1>1, <2>2, <2>3
  <2> QED BY <1>1, <1>2, <2>4 DEF SleepCounted
<1>4. PidsInOrder' BY <1>1 DEF PidsInOrder
<1>5. CASE ready_queue = <<>>
  <2>1. UNCHANGED <<active_proc, ready_queue>>
    BY <1>1, <1>5 DEF do_scheduler, schedVars
  <2>2. TypeOK' BY <1>1, <2>1 DEF TypeOK, ClockSchedule
  <2>3. SingleResidence' /\ IdleReady'
    BY <1>1, <1>2, <2>1 DEF SingleResidence, IdleReady
  <2> QED BY <1>3, <1>4, <2>2, <2>3
<1>6. CASE ready_queue # <<>>
  <2> DEFINE q == Append(ready_queue, active_proc)
  <2>1. Dispatch(q) BY <1>1, <1>6 DEF do_scheduler
  <2>2. ready_queue \in Seq(Pid) BY DEF TypeOK
  <2>3. active_proc \in Pid
    BY DEF SingleResidence, Live
  <2>4. active_proc \notin On(ready_queue) /\ NoDup(ready_queue)
    BY DEF SingleResidence
  <2>5. /\ q \in Seq(Pid) /\ NoDup(q) /\ q # <<>>
        /\ On(q) = On(ready_queue) \cup {active_proc}
    <3>1. q # <<>>
      <4>1. Len(q) = Len(ready_queue) + 1 /\ Len(ready_queue) \in Nat
        BY <2>2
      <4> QED BY <4>1
    <3>2. /\ q \in Seq(Pid) /\ NoDup(q)
          /\ On(q) = On(ready_queue) \cup {active_proc}
      BY <2>2, <2>3, <2>4, AppendFacts
    <3> QED BY <3>1, <3>2
  <2> HIDE DEF q
  <2>6. /\ active_proc' \in Pid /\ active_proc' \in On(q)
        /\ ready_queue' \in Seq(Pid) /\ NoDup(ready_queue')
        /\ On(ready_queue') = On(q) \ {active_proc'}
    BY <2>1, <2>5, DispatchFacts
  <2>7. TypeOK'
    <3>1. UNCHANGED <<wait_i, dead_list, ppid, children>> BY DEF ClockSchedule
    <3> QED BY <1>1, <2>6, <3>1 DEF TypeOK
  <2>8. SingleResidence'
    BY <1>1, <1>2, <2>5, <2>6 DEF SingleResidence
  <2>9. IdleReady' BY <2>5, <2>6 DEF IdleReady
  <2> QED BY <1>3, <1>4, <2>7, <2>8, <2>9
<1> QED BY <1>5, <1>6

----------------------------------------------------------------------------
DeadInfo == [ppid : Pid, pid : Pid, freed : BOOLEAN]

(* A list_remove at any location leaves a list. *)
LEMMA RemoveType ==
    ASSUME NEW S, NEW s \in Seq(S), NEW i
    PROVE  list_remove(s, i) \in Seq(S)
<1>1. CASE i \in 1..Len(s) BY <1>1, RemoveFacts
<1>2. CASE i \notin 1..Len(s) BY <1>2 DEF list_remove
<1> QED BY <1>1, <1>2

(* The walks of sys_Wait move nobody. *)
LEMMA WaitWalkInv ==
    ASSUME Inv, NEW p \in Pid,
           (\E k \in 1..Len(dead_list) : WaitReap(p, k)) \/ WaitResume(p)
    PROVE  Inv'
<1> USE DEF Inv
<1>1. /\ UNCHANGED <<active_proc, ready_queue, sleep_list, clock_i, wait_list,
                     ppid, children, next_pid, due>>
      /\ wait_i' \in [Pid -> Nat \ {0}]
      /\ \/ kpc' = kpc
         \/ kpc[p] = "sys_Wait" /\ kpc' = [kpc EXCEPT ![p] = "user"]
  BY DEF WaitReap, WaitResume, schedVars, TypeOK
<1>2. dead_list \in Seq(DeadInfo) BY DEF TypeOK, DeadInfo
<1>3. dead_list' \in Seq(DeadInfo)
  <2>1. ASSUME NEW k \in 1..Len(dead_list), WaitReap(p, k)
        PROVE  dead_list' \in Seq(DeadInfo)
    BY <1>2, <2>1, RemoveType DEF WaitReap
  <2>2. ASSUME WaitResume(p) PROVE dead_list' \in Seq(DeadInfo)
    <3>1. CASE UNCHANGED dead_list BY <1>2, <3>1
    <3>2. ASSUME NEW k \in 1..Len(dead_list),
                 dead_list' = list_remove([dead_list EXCEPT ![k].freed = TRUE],
                                          wait_i[p] + k - 1)
          PROVE  dead_list' \in Seq(DeadInfo)
      <4> DEFINE d == [dead_list[k] EXCEPT !.freed = TRUE]
      <4>1. dead_list[k] \in DeadInfo BY <1>2
      <4>2. d \in DeadInfo BY <4>1 DEF DeadInfo
      <4>3. [dead_list EXCEPT ![k] = d] \in Seq(DeadInfo)
        BY <1>2, <4>2
      <4>4. [dead_list EXCEPT ![k].freed = TRUE] = [dead_list EXCEPT ![k] = d]
        OBVIOUS
      <4> QED BY <3>2, <4>3, <4>4, RemoveType
    <3> QED BY <2>2, <3>1, <3>2 DEF WaitResume
  <2> QED BY <2>1, <2>2
<1>4. kpc' \in [Pid -> {"unborn", "stillborn", "user", "sys_Wait", "exited"}]
  BY <1>1 DEF TypeOK
<1>5. TypeOK' BY <1>1, <1>3, <1>4 DEF TypeOK, DeadInfo
<1>6. Live' = Live BY <1>1 DEF Live, TypeOK
<1>7. SingleResidence' /\ IdleReady'
  BY <1>1, <1>6 DEF SingleResidence, IdleReady, Sleepers
<1>8. PidsInOrder'
  <2>1. \A c \in Pid : kpc'[c] = "unborn" <=> kpc[c] = "unborn"
    BY <1>1 DEF TypeOK
  <2> QED BY <1>1, <2>1 DEF PidsInOrder
<1>9. SleepCounted' BY <1>1 DEF SleepCounted, Sleepers
<1> QED BY <1>5, <1>7, <1>8, <1>9

(* A Wait without an exited child moves the caller to the wait list. *)
LEMMA WaitBlockInv ==
    ASSUME Inv, NEW p \in Pid, WaitBlock(p)
    PROVE  Inv'
<1> USE DEF Inv
<1>1. /\ active_proc = p /\ p # Idle /\ kpc[p] = "user"
      /\ wait_list' = Append(wait_list, p)
      /\ kpc' = [kpc EXCEPT ![p] = "sys_Wait"]
      /\ UNCHANGED <<sleep_list, clock_i, next_pid, due>>
      /\ normal_schedule(ready_queue, p)
  BY DEF WaitBlock, Calls, InUser
<1>2. /\ active_proc' \in Pid /\ active_proc' \in On(ready_queue)
      /\ ready_queue' \in Seq(Pid) /\ NoDup(ready_queue')
      /\ On(ready_queue') = On(ready_queue) \ {active_proc'}
      /\ IdleReady'
  BY <1>1, ScheduleFacts DEF IdleReady, TypeOK, SingleResidence
<1>3. /\ wait_list' \in Seq(Pid) /\ NoDup(wait_list')
      /\ On(wait_list') = On(wait_list) \cup {p}
  BY <1>1, AppendFacts DEF TypeOK, SingleResidence
<1>4. /\ kpc' \in [Pid -> {"unborn", "stillborn", "user", "sys_Wait", "exited"}]
      /\ \A c \in Pid : kpc'[c] = "unborn" <=> kpc[c] = "unborn"
      /\ Live' = Live
  BY <1>1 DEF TypeOK, Live
<1>5. wait_i' \in [Pid -> Nat \ {0}]
  <2>1. Len(dead_list) \in Nat BY DEF TypeOK
  <2> QED BY <2>1 DEF WaitBlock, TypeOK
<1>6. TypeOK' BY <1>1, <1>2, <1>3, <1>4, <1>5 DEF TypeOK, WaitBlock
<1>7. Sleepers' = Sleepers BY <1>1 DEF Sleepers
<1>8. SingleResidence'
  BY <1>1, <1>2, <1>3, <1>4, <1>7 DEF SingleResidence
<1>9. PidsInOrder' BY <1>1, <1>4 DEF PidsInOrder
<1>10. SleepCounted' BY <1>1, <1>7 DEF SleepCounted
<1> QED BY <1>2, <1>6, <1>8, <1>9, <1>10

(* Exit takes the caller out, and makes its parent ready if that waits. *)
LEMMA ExitInv ==
    ASSUME Inv, NEW p \in Pid, NEW stray \in Strays, Exit(p, stray)
    PROVE  Inv'
<1> USE DEF Inv
<1> DEFINE parent == Orphaned(p, stray)[p]
           q == ready_queue \o Woken(parent)
<1>1. /\ active_proc = p /\ p # Idle /\ kpc[p] = "user"
      /\ wait_list' = RemoveFirst(wait_list, parent)
      /\ kpc' = [kpc EXCEPT ![p] = "exited"]
      /\ ppid' = Orphaned(p, stray)
      /\ UNCHANGED <<sleep_list, clock_i, wait_i, next_pid, due>>
      /\ normal_schedule(q, NoProc)
  BY DEF Exit, Calls, InUser
<1>2. /\ wait_list' \in Seq(Pid) /\ NoDup(wait_list')
      /\ On(wait_list') = On(wait_list) \ {parent}
  BY <1>1, RemoveFirstFacts DEF TypeOK, SingleResidence
<1>3. ppid' \in [Pid -> Pid \cup {-1}] /\ parent \in Pid \cup {-1}
  BY <1>1 DEF Orphaned, TypeOK
<1> HIDE DEF parent
<1>4. /\ q \in Seq(Pid) /\ NoDup(q)
      /\ On(q) = On(ready_queue) \cup (On(wait_list) \cap {parent})
  <2>1. ready_queue \in Seq(Pid) /\ NoDup(ready_queue)
    BY DEF TypeOK, SingleResidence
  <2>2. CASE parent \in On(wait_list)
    <3>1. parent \in Pid BY <2>2 DEF SingleResidence, Live
    <3>2. parent \notin On(ready_queue) BY <2>2 DEF SingleResidence
    <3>3. q = Append(ready_queue, parent)
      BY <2>1, <2>2, <3>1 DEF Woken
    <3> HIDE DEF q
    <3> QED BY <2>1, <2>2, <3>1, <3>2, <3>3, AppendFacts
  <2>3. CASE parent \notin On(wait_list)
    <3>1. q = ready_queue BY <2>1, <2>3 DEF Woken
    <3> HIDE DEF q
    <3> QED BY <2>1, <2>3, <3>1
  <2> QED BY <2>2, <2>3
<1> HIDE DEF q
<1>5. /\ active_proc' \in Pid /\ active_proc' \in On(q)
      /\ ready_queue' \in Seq(Pid) /\ NoDup(ready_queue')
      /\ On(ready_queue') = On(q) \ {active_proc'}
      /\ IdleReady'
  BY <1>1, <1>4, ScheduleFacts DEF IdleReady
<1>6. /\ kpc' \in [Pid -> {"unborn", "stillborn", "user", "sys_Wait", "exited"}]
      /\ \A c \in Pid : kpc'[c] = "unborn" <=> kpc[c] = "unborn"
      /\ Live' = Live \ {p}
  BY <1>1 DEF TypeOK, Live
<1>7. dead_list' \in Seq(DeadInfo) /\ children' \in [Pid -> Seq(Pid)]
  <2>1. dead_list \in Seq(DeadInfo) BY DEF TypeOK, DeadInfo
  <2>2. CASE parent = -1
    <3>1. UNCHANGED <<dead_list, children>>
      BY <2>2 DEF Exit, parent
    <3> QED BY <2>1, <3>1 DEF TypeOK
  <2>3. CASE parent # -1
    <3>1. /\ dead_list' = Append(dead_list,
                            [ppid |-> parent, pid |-> p, freed |-> FALSE])
          /\ children' = [children EXCEPT ![parent] = RemoveFirst(@, p)]
      BY <2>3 DEF Exit, insert_dead_list, parent
    <3>2. parent \in Pid BY <1>3, <2>3
    <3>3. [ppid |-> parent, pid |-> p, freed |-> FALSE] \in DeadInfo
      BY <3>2 DEF DeadInfo
    <3>4. RemoveFirst(children[parent], p) \in Seq(Pid)
      BY <3>2, RemoveType DEF RemoveFirst, TypeOK
    <3> QED BY <2>1, <3>1, <3>2, <3>3, <3>4, AppendFacts DEF TypeOK
  <2> QED BY <2>2, <2>3
<1>8. TypeOK'
  BY <1>1, <1>2, <1>3, <1>5, <1>6, <1>7 DEF TypeOK, DeadInfo
<1>9. Sleepers' = Sleepers BY <1>1 DEF Sleepers
<1>10. SingleResidence'
  BY <1>1, <1>2, <1>4, <1>5, <1>6, <1>9 DEF SingleResidence
<1>11. PidsInOrder' BY <1>1, <1>6 DEF PidsInOrder
<1>12. SleepCounted' BY <1>1, <1>9 DEF SleepCounted
<1> QED BY <1>5, <1>8, <1>10, <1>11, <1>12

(* An Exit that fails moves nobody. *)
LEMMA ExitFailInv ==
    ASSUME Inv, NEW p \in Pid, NEW stray \in Strays, ExitFail(p, stray)
    PROVE  Inv'
<1> USE DEF Inv
<1>1. /\ UNCHANGED <<active_proc, ready_queue, sleep_list, clock_i, wait_list,
                     wait_i, dead_list, children, next_pid, kpc, due>>
      /\ ppid' \in [Pid -> Pid \cup {-1}]
  BY DEF ExitFail, schedVars, Orphaned, TypeOK
<1>2. TypeOK' BY <1>1 DEF TypeOK
<1>3. SingleResidence' /\ IdleReady' /\ PidsInOrder' /\ SleepCounted'
  BY <1>1 DEF SingleResidence, IdleReady, PidsInOrder, SleepCounted, Live,
              Sleepers
<1> QED BY <1>2, <1>3

LEMMA NextInv == Inv /\ [Next]_vars => Inv'
<1> SUFFICES ASSUME Inv, [Next]_vars PROVE Inv' OBVIOUS
<1>1. ASSUME NEW p \in Pid, SystemCall(p) PROVE Inv'
  BY <1>1, ForkInv, DelayInv, WaitWalkInv, WaitBlockInv, ExitInv, ExitFailInv
     DEF SystemCall
<1>2. ASSUME NEW p \in Pid, WaitResume(p) PROVE Inv'
  BY <1>2, WaitWalkInv
<1>3. CASE TrapClock BY <1>3, TrapClockInv
<1>4. CASE UpdateSleeper BY <1>4, WakeSleeperInv, CountSleeperInv
<1>5. CASE ClockSchedule BY <1>5, ClockScheduleInv
<1>6. CASE UNCHANGED vars
  <2>1. /\ UNCHANGED <<active_proc, ready_queue, sleep_list, clock_i, wait_list,
                       wait_i, dead_list, ppid, children, next_pid, kpc, due>>
    BY <1>6 DEF vars, schedVars, procVars
  <2>2. TypeOK => TypeOK' BY <2>1 DEF TypeOK
  <2>3. Live' = Live /\ Sleepers' = Sleepers BY <2>1 DEF Live, Sleepers
  <2>4. SingleResidence => SingleResidence'
    BY <2>1, <2>3 DEF SingleResidence
  <2>5. IdleReady /\ PidsInOrder => IdleReady' /\ PidsInOrder'
    BY <2>1 DEF IdleReady, PidsInOrder
  <2>6. SleepCounted => SleepCounted' BY <2>1, <2>3 DEF SleepCounted
  <2> QED BY <2>2, <2>4, <2>5, <2>6 DEF Inv
<1> QED BY <1>1, <1>2, <1>3, <1>4, <1>5, <1>6 DEF Next

LEMMA SpecInv == Spec => []Inv
<1>1. Init => Inv BY InitInv
<1>2. Inv /\ [Next]_vars => Inv' BY NextInv
<1> QED BY <1>1, <1>2, PTL DEF Spec

----------------------------------------------------------------------------
(* The kernel's variables keep their types, whatever fails. *)
THEOREM TypeCorrect == Spec => []TypeOK
<1>1. Inv => TypeOK BY DEF Inv
<1> QED BY <1>1, SpecInv, PTL

(* No live process is ever lost or in two places: the handlers take it off
   one list exactly when they put it on another. *)
THEOREM Residence == Spec => []SingleResidence
<1>1. Inv => SingleResidence BY DEF Inv
<1> QED BY <1>1, SpecInv, PTL

(* idle runs or is ready, as the comment in sys_Delay says: normal_schedule
   always finds somebody to run. *)
THEOREM IdleNeverLost == Spec => []IdleReady
<1>1. Inv => IdleReady BY DEF Inv
<1> QED BY <1>1, SpecInv, PTL

(* A Delay of n ends at the n-th clock interrupt, not before and not after,
   although update_sleep_list removes from the list it walks. *)
THEOREM DelayExact == Spec => []SleepExact
<1>1. Inv => SleepExact
  <2> SUFFICES ASSUME Inv, clock_i = 0
               PROVE  /\ Sleepers = {p \in Pid : due[p] > 0}
                      /\ \A i \in 1..Len(sleep_list) :
                           sleep_list[i].ticks_left = due[sleep_list[i].pcb]
    BY DEF SleepExact
  <2>1. \A i \in 1..Len(sleep_list) :
          /\ sleep_list[i].ticks_left = due[sleep_list[i].pcb]
          /\ due[sleep_list[i].pcb] > 0
    BY DEF Inv, SleepCounted
  <2>2. Sleepers \subseteq Pid BY DEF Inv, SingleResidence, Live
  <2>3. \A p \in Sleepers : due[p] > 0 BY <2>1 DEF Sleepers
  <2>4. \A p \in Pid : due[p] > 0 => p \in Sleepers BY DEF Inv, SleepCounted
  <2> QED BY <2>1, <2>2, <2>3, <2>4
<1> QED BY <1>1, SpecInv, PTL

----------------------------------------------------------------------------
(* What the steps do to who runs, who is ready and who is blocked *)

Blocked == Sleepers \cup On(wait_list)

\* The processor goes to somebody on q, to idle only when it is alone there.
Gives(q) ==
    /\ q \in Seq(Pid) /\ NoDup(q) /\ q # <<>> /\ Dispatch(q)
    /\ active_proc' \in On(q)
    /\ ready_queue' \in Seq(Pid) /\ On(ready_queue') = On(q) \ {active_proc'}
    /\ active_proc' = Idle => On(q) = {Idle}

LEMMA GivesFacts ==
    ASSUME NEW q \in Seq(Pid), NoDup(q), Idle \in On(q), NEW cur,
           normal_schedule(q, cur)
    PROVE  Gives(q)
<1>1. q # <<>> BY OnEmpty
<1>2. Dispatch(q) BY <1>1 DEF normal_schedule
<1> QED BY <1>1, <1>2, ScheduleFacts DEF Gives

(* Delay and Wait. *)
LEMMA BlockMoves ==
    ASSUME Inv, NEW p \in Pid,
           (\E n \in 1..MaxTicks : Delay(p, n)) \/ WaitBlock(p)
    PROVE  /\ active_proc = p /\ p # Idle /\ Gives(ready_queue)
           /\ Blocked' = Blocked \cup {p}
<1>1. active_proc = p /\ p # Idle /\ normal_schedule(ready_queue, p)
  BY DEF Delay, WaitBlock, Calls, InUser
<1>2. Gives(ready_queue)
  BY <1>1, GivesFacts DEF Inv, TypeOK, SingleResidence, IdleReady
<1>3. ASSUME NEW n \in 1..MaxTicks, Delay(p, n)
      PROVE  Blocked' = Blocked \cup {p}
  <2> DEFINE s == [pcb |-> p, ticks_left |-> n]
  <2>1. sleep_list' = Append(sleep_list, s) /\ wait_list' = wait_list
    BY <1>3 DEF Delay, insert_sleep_list
  <2>2. s \in SleepInfo /\ s.pcb = p BY MaxTicksAssumption DEF SleepInfo
  <2> HIDE DEF s
  <2>3. sleep_list \in Seq(SleepInfo) BY DEF Inv, TypeOK, SleepInfo
  <2>4. /\ Append(sleep_list, s) \in Seq(SleepInfo)
        /\ Pcbs(Append(sleep_list, s)) = Append(Pcbs(sleep_list), p)
        /\ Pcbs(sleep_list) \in Seq(Pid)
    BY <2>2, <2>3, AppendFacts, PcbsFacts
  <2>5. On(Append(Pcbs(sleep_list), p)) = On(Pcbs(sleep_list)) \cup {p}
    BY <2>4, AppendFacts
  <2>6. Sleepers = On(Pcbs(sleep_list)) BY <2>3, ResidenceAsSets
  <2>7. Sleepers' = On(Pcbs(sleep_list'))
    BY <2>1, <2>4, ResidenceAsSetsNext
  <2>8. Sleepers' = Sleepers \cup {p}
    BY <2>1, <2>4, <2>5, <2>6, <2>7, Zenon
  <2> QED BY <2>1, <2>8 DEF Blocked
<1>4. ASSUME WaitBlock(p) PROVE Blocked' = Blocked \cup {p}
  <2>1. wait_list' = Append(wait_list, p) /\ sleep_list' = sleep_list
    BY <1>4 DEF WaitBlock
  <2>2. On(wait_list') = On(wait_list) \cup {p}
    BY <2>1, AppendFacts DEF Inv, TypeOK
  <2> QED BY <2>1, <2>2 DEF Blocked, Sleepers
<1> QED BY <1>1, <1>2, <1>3, <1>4

(* Exit, with the parent that waits for it. *)
LEMMA ExitMoves ==
    ASSUME Inv, NEW p \in Pid, NEW stray \in Strays, Exit(p, stray)
    PROVE  LET parent == Orphaned(p, stray)[p]
               W == On(wait_list) \cap {parent} IN
           /\ active_proc = p /\ p # Idle
           /\ Gives(ready_queue \o Woken(parent))
           /\ On(ready_queue \o Woken(parent)) = On(ready_queue) \cup W
           /\ Blocked' = Blocked \ W
<1> DEFINE parent == Orphaned(p, stray)[p]
           q == ready_queue \o Woken(parent)
           W == On(wait_list) \cap {parent}
<1>1. /\ active_proc = p /\ p # Idle
      /\ wait_list' = RemoveFirst(wait_list, parent)
      /\ sleep_list' = sleep_list /\ normal_schedule(q, NoProc)
  BY DEF Exit, Calls, InUser
<1> HIDE DEF parent
<1>2. On(wait_list') = On(wait_list) \ {parent}
  BY <1>1, RemoveFirstFacts DEF Inv, TypeOK, SingleResidence
<1>3. /\ q \in Seq(Pid) /\ NoDup(q) /\ On(q) = On(ready_queue) \cup W
  <2>1. ready_queue \in Seq(Pid) /\ NoDup(ready_queue)
    BY DEF Inv, TypeOK, SingleResidence
  <2>2. CASE parent \in On(wait_list)
    <3>1. parent \in Pid BY <2>2 DEF Inv, SingleResidence, Live
    <3>2. parent \notin On(ready_queue) BY <2>2 DEF Inv, SingleResidence
    <3>3. q = Append(ready_queue, parent)
      BY <2>1, <2>2, <3>1 DEF Woken
    <3> HIDE DEF q
    <3> QED BY <2>1, <2>2, <3>1, <3>2, <3>3, AppendFacts
  <2>3. CASE parent \notin On(wait_list)
    <3>1. q = ready_queue BY <2>1, <2>3 DEF Woken
    <3> HIDE DEF q
    <3> QED BY <2>1, <2>3, <3>1
  <2> QED BY <2>2, <2>3
<1> HIDE DEF q
<1>4. Gives(q)
  BY <1>1, <1>3, GivesFacts DEF Inv, IdleReady
<1>5. Blocked' = Blocked \ W
  <2>1. Sleepers' = Sleepers BY <1>1 DEF Sleepers
  <2>2. Sleepers \cap On(wait_list) = {} BY DEF Inv, SingleResidence
  <2> QED BY <1>2, <2>1, <2>2 DEF Blocked
<1> QED BY <1>1, <1>3, <1>4, <1>5 DEF q, parent

(* The clock handler, at its end and at a sleeper that wakes. *)
LEMMA ClockMoves ==
    ASSUME Inv, ClockSchedule
    PROVE  /\ Blocked' = Blocked
           /\ \/ /\ ready_queue # <<>>
                 /\ Gives(Append(ready_queue, active_proc))
                 /\ On(Append(ready_queue, active_proc))
                      = On(ready_queue) \cup {active_proc}
              \/ /\ ready_queue = <<>> /\ active_proc' = active_proc
                 /\ ready_queue' = ready_queue
<1> DEFINE q == Append(ready_queue, active_proc)
<1>1. Blocked' = Blocked BY DEF ClockSchedule, Blocked, Sleepers
<1>2. CASE ready_queue = <<>>
  BY <1>1, <1>2 DEF ClockSchedule, do_scheduler, schedVars
<1>3. CASE ready_queue # <<>>
  <2>1. Dispatch(q) BY <1>3 DEF ClockSchedule, do_scheduler
  <2>2. ready_queue \in Seq(Pid) /\ active_proc \in Pid
    BY DEF Inv, TypeOK, SingleResidence, Live
  <2>3. active_proc \notin On(ready_queue) /\ NoDup(ready_queue)
    BY DEF Inv, SingleResidence
  <2>4. /\ q \in Seq(Pid) /\ NoDup(q)
        /\ On(q) = On(ready_queue) \cup {active_proc}
    BY <2>2, <2>3, AppendFacts
  <2>5. q # <<>>
    <3>1. Len(q) = Len(ready_queue) + 1 /\ Len(ready_queue) \in Nat BY <2>2
    <3> QED BY <3>1
  <2> HIDE DEF q
  <2>6. Gives(q) BY <2>1, <2>4, <2>5, DispatchFacts DEF Gives
  <2> QED BY <1>1, <1>3, <2>4, <2>6 DEF q
<1> QED BY <1>2, <1>3

LEMMA WakeMoves ==
    ASSUME Inv, UpdateSleeper
    PROVE  /\ active_proc' = active_proc
           /\ \/ /\ \E b \in Blocked : /\ ready_queue' = Append(ready_queue, b)
                                       /\ b \in Pid
                                       /\ Blocked' = Blocked \ {b}
              \/ ready_queue' = ready_queue /\ Blocked' = Blocked
<1> DEFINE s == sleep_list[clock_i]
<1>1. /\ clock_i \in 1..Len(sleep_list) /\ active_proc' = active_proc
      /\ wait_list' = wait_list
  BY DEF UpdateSleeper
<1>2. sleep_list \in Seq(SleepInfo) BY DEF Inv, TypeOK, SleepInfo
<1>3. s \in SleepInfo /\ s.pcb \in Pid
  <2>1. s \in SleepInfo BY <1>1, <1>2
  <2> QED BY <2>1 DEF SleepInfo
<1>4. CASE Expired(s)
  <2>1. /\ ready_queue' = Append(ready_queue, s.pcb)
        /\ sleep_list' = list_remove(sleep_list, clock_i)
    BY <1>4 DEF UpdateSleeper
  <2> DEFINE c == Pcbs(sleep_list)
  <2>2. /\ c \in Seq(Pid) /\ Len(c) = Len(sleep_list) /\ NoDup(c)
        /\ Sleepers = On(c)
        /\ Pcbs(list_remove(sleep_list, clock_i)) = list_remove(c, clock_i)
        /\ list_remove(sleep_list, clock_i) \in Seq(SleepInfo)
    BY <1>1, <1>2, PcbsFacts, ResidenceAsSets, RemoveType DEF Inv
  <2>3. c[clock_i] = s.pcb BY <1>1 DEF Pcbs
  <2> HIDE DEF c
  <2>4. On(list_remove(c, clock_i)) = On(c) \ {s.pcb}
    BY <1>1, <2>2, <2>3, RemoveFacts
  <2>5. Sleepers' = On(Pcbs(sleep_list'))
    BY <2>1, <2>2, ResidenceAsSetsNext
  <2>6. Sleepers' = Sleepers \ {s.pcb} BY <2>1, <2>2, <2>4, <2>5, Zenon
  <2>7. s.pcb \in Sleepers BY <1>1 DEF Sleepers
  <2>8. Sleepers \cap On(wait_list) = {} BY DEF Inv, SingleResidence
  <2>9. Blocked' = Blocked \ {s.pcb} BY <1>1, <2>6, <2>7, <2>8 DEF Blocked
  <2> QED BY <1>1, <1>3, <2>1, <2>7, <2>9 DEF Blocked
<1>5. CASE ~Expired(s)
  <2>1. /\ ready_queue' = ready_queue
        /\ sleep_list' = [sleep_list EXCEPT ![clock_i].ticks_left = @ - 1]
    BY <1>5 DEF UpdateSleeper
  <2>2. Len(sleep_list') = Len(sleep_list) BY <1>2, <2>1
  <2>3. \A i \in 1..Len(sleep_list) : sleep_list'[i].pcb = sleep_list[i].pcb
    <3> DEFINE t == [s EXCEPT !.ticks_left = @ - 1]
    <3>1. t.pcb = s.pcb BY <1>3 DEF SleepInfo
    <3>2. sleep_list' = [sleep_list EXCEPT ![clock_i] = t] BY <2>1
    <3> HIDE DEF t
    <3> QED BY <1>1, <1>2, <3>1, <3>2
  <2>4. Sleepers' = Sleepers BY <2>2, <2>3 DEF Sleepers
  <2> QED BY <1>1, <2>1, <2>4 DEF Blocked
<1> QED BY <1>4, <1>5

(* Fork, and the steps that move nobody. *)
LEMMA ForkMoves ==
    ASSUME Inv, NEW p \in Pid, Fork(p)
    PROVE  /\ active_proc' = active_proc /\ Blocked' = Blocked
           /\ next_pid \in Pid \ (On(ready_queue) \cup Blocked \cup {active_proc})
           /\ ready_queue' = Append(ready_queue, next_pid)
<1>1. /\ UNCHANGED <<active_proc, sleep_list, wait_list>>
      /\ ready_queue' = Append(ready_queue, next_pid) /\ next_pid <= MaxPid
  BY DEF Fork, Register
<1>2. Blocked' = Blocked BY <1>1 DEF Blocked, Sleepers
<1>3. next_pid \in Pid BY <1>1, MaxPidAssumption DEF Inv, TypeOK, Pid
<1>4. kpc[next_pid] = "unborn" BY <1>3 DEF Inv, PidsInOrder, Pid
<1>5. next_pid \notin Live BY <1>4 DEF Live
<1> QED BY <1>1, <1>2, <1>3, <1>5 DEF Inv, SingleResidence, Blocked

LEMMA OtherMoves ==
    ASSUME NEW p \in Pid,
           \/ ForkFail(p) \/ WaitResume(p) \/ TrapClock
           \/ \E k \in 1..Len(dead_list) : WaitReap(p, k)
           \/ \E stray \in Strays : ExitFail(p, stray)
    PROVE  /\ active_proc' = active_proc /\ ready_queue' = ready_queue
           /\ Blocked' = Blocked
           /\ clock_i' = clock_i \/ clock_i = 0
<1>1. /\ UNCHANGED <<active_proc, ready_queue, sleep_list, wait_list>>
      /\ clock_i' = clock_i \/ clock_i = 0
  BY DEF ForkFail, Register, WaitResume, TrapClock, InUser, WaitReap, ExitFail,
         schedVars
<1> QED BY <1>1 DEF Blocked, Sleepers

(* The steps of the kernel, by what they do to who runs. *)
LEMMA NextCases ==
    ASSUME Next
    PROVE  \/ \E p \in Pid : Fork(p)
           \/ \E p \in Pid : (\E n \in 1..MaxTicks : Delay(p, n)) \/ WaitBlock(p)
           \/ \E p \in Pid : \E stray \in Strays : Exit(p, stray)
           \/ UpdateSleeper
           \/ ClockSchedule
           \/ \E p \in Pid :
                 \/ ForkFail(p) \/ WaitResume(p) \/ TrapClock
                 \/ \E k \in 1..Len(dead_list) : WaitReap(p, k)
                 \/ \E stray \in Strays : ExitFail(p, stray)
<1>1. 0 \in Pid BY MaxPidAssumption DEF Pid
<1> QED BY <1>1 DEF Next, SystemCall

----------------------------------------------------------------------------
(* Whoever gives up the processor, idle gets it only when nobody else is
   left: normal_schedule and do_scheduler move idle to the end of the queue
   once, and once is enough because idle is on it once. *)
THEOREM IdleLast == Spec => IdleIsLastResort
<1> DEFINE P == active_proc' = Idle /\ (active_proc # Idle \/ clock_i > clock_i')
                  => ready_queue' = <<>>
<1>1. ASSUME Inv, Next PROVE P
  <2> USE <1>1
  <2>0. clock_i \in Nat BY DEF Inv, TypeOK
  <2>1. ASSUME NEW q, Gives(q) PROVE P
    <3>1. ASSUME active_proc' = Idle PROVE ready_queue' = <<>>
      <4>1. On(ready_queue') = {} /\ ready_queue' \in Seq(Pid)
        BY <2>1, <3>1 DEF Gives
      <4> QED BY <4>1, OnEmpty
    <3> QED BY <3>1
  <2>2. ASSUME NEW p \in Pid, Fork(p) PROVE P
    BY <2>0, <2>2 DEF Fork, Register
  <2>3. ASSUME NEW p \in Pid,
               (\E n \in 1..MaxTicks : Delay(p, n)) \/ WaitBlock(p)
        PROVE  P
    BY <2>1, <2>3, BlockMoves
  <2>4. ASSUME NEW p \in Pid, NEW stray \in Strays, Exit(p, stray) PROVE P
    BY <2>1, <2>4, ExitMoves
  <2>5. CASE UpdateSleeper
    <3>1. clock_i' \in {clock_i, clock_i + 1} /\ active_proc' = active_proc
      BY <2>5 DEF UpdateSleeper, AfterRemoval
    <3> QED BY <2>0, <3>1
  <2>6. CASE ClockSchedule BY <2>1, <2>6, ClockMoves
  <2>7. ASSUME NEW p \in Pid,
               \/ ForkFail(p) \/ WaitResume(p) \/ TrapClock
               \/ \E k \in 1..Len(dead_list) : WaitReap(p, k)
               \/ \E stray \in Strays : ExitFail(p, stray)
        PROVE  P
    <3>1. active_proc' = active_proc /\ (clock_i' = clock_i \/ clock_i = 0)
      BY <2>7, OtherMoves
    <3>2. clock_i' \in Nat BY NextInv DEF Inv, TypeOK
    <3> QED BY <2>0, <3>1, <3>2
  <2> HIDE DEF P
  <2> QED BY <2>2, <2>3, <2>4, <2>5, <2>6, <2>7, NextCases
<1>2. Inv /\ [Next]_vars => [P]_vars BY <1>1
<1> QED BY <1>2, SpecInv, PTL DEF Spec, IdleIsLastResort

(* The queues of the kernel implement the dispatcher that has only sets, for
   any number of processes: every handler is one of the dispatcher's steps or
   none of its business. *)
THEOREM ImplementsDispatcher == Spec => DispatcherSpec
<1>1. Init => D!Init
  <2> SUFFICES ASSUME Init PROVE D!Init OBVIOUS
  <2>1. Sleepers = {} /\ On(wait_list) = {} /\ On(ready_queue) = {Idle}
    BY DEF Init, Sleepers, On
  <2> QED BY <2>1 DEF Init, D!Init
<1>2. ASSUME Inv, Next PROVE [D!Next]_(D!vars)
  <2> USE <1>2
  <2>1. ASSUME NEW q, Gives(q) PROVE D!Give(On(q))
    BY <2>1 DEF Gives, D!Give
  <2>2. ASSUME NEW p \in Pid, Fork(p) PROVE D!Create
    <3>0. /\ ready_queue' = Append(ready_queue, next_pid) /\ next_pid \in Pid
          /\ ready_queue \in Seq(Pid)
      BY <2>2, ForkMoves DEF Inv, TypeOK
    <3>1. On(ready_queue') = On(ready_queue) \cup {next_pid}
      BY <3>0, AppendFacts
    <3> QED BY <2>2, <3>1, ForkMoves DEF D!Create, Blocked
  <2>3. ASSUME NEW p \in Pid,
               (\E n \in 1..MaxTicks : Delay(p, n)) \/ WaitBlock(p)
        PROVE  D!Block
    BY <2>1, <2>3, BlockMoves DEF D!Block, Blocked
  <2>4. ASSUME NEW p \in Pid, NEW stray \in Strays, Exit(p, stray) PROVE D!End
    <3> DEFINE parent == Orphaned(p, stray)[p]
               q == ready_queue \o Woken(parent)
               W == On(wait_list) \cap {parent}
    <3>1. /\ active_proc = p /\ p # Idle /\ Gives(q)
          /\ On(q) = On(ready_queue) \cup W
          /\ Blocked' = Blocked \ W
      BY <2>4, ExitMoves
    <3> HIDE DEF parent, q
    <3>2. D!Give(On(ready_queue) \cup W) BY <2>1, <3>1
    <3>3. W \in {{}} \cup {{b} : b \in Blocked} BY DEF Blocked
    <3> HIDE DEF W
    <3> QED BY <3>1, <3>2, <3>3 DEF D!End, Blocked
  <2>5. CASE UpdateSleeper
    <3>1. ASSUME NEW b \in Blocked, ready_queue' = Append(ready_queue, b),
                 b \in Pid, Blocked' = Blocked \ {b}
          PROVE  D!Wake
      <4>1. On(ready_queue') = On(ready_queue) \cup {b}
        BY <3>1, AppendFacts DEF Inv, TypeOK
      <4> QED BY <2>5, <3>1, <4>1, WakeMoves DEF D!Wake, Blocked
    <3>2. ASSUME ready_queue' = ready_queue, Blocked' = Blocked
          PROVE  UNCHANGED D!vars
      BY <2>5, <3>2, WakeMoves DEF D!vars, Blocked
    <3> QED BY <2>5, <3>1, <3>2, WakeMoves DEF D!Next
  <2>6. CASE ClockSchedule
    <3>1. CASE Gives(Append(ready_queue, active_proc)) /\ ready_queue # <<>>
      BY <2>1, <2>6, <3>1, ClockMoves DEF D!Next, D!Preempt, Blocked
    <3>2. CASE active_proc' = active_proc /\ ready_queue' = ready_queue
      BY <2>6, <3>2, ClockMoves DEF D!vars, Blocked
    <3> QED BY <2>6, <3>1, <3>2, ClockMoves
  <2>7. ASSUME NEW p \in Pid,
               \/ ForkFail(p) \/ WaitResume(p) \/ TrapClock
               \/ \E k \in 1..Len(dead_list) : WaitReap(p, k)
               \/ \E stray \in Strays : ExitFail(p, stray)
        PROVE  UNCHANGED D!vars
    BY <2>7, OtherMoves DEF D!vars, Blocked
  <2> QED BY <2>2, <2>3, <2>4, <2>5, <2>6, <2>7, NextCases DEF D!Next
<1>3. ASSUME UNCHANGED vars PROVE UNCHANGED D!vars
  BY <1>3 DEF vars, schedVars, procVars, D!vars, Sleepers
<1>4. Inv /\ [Next]_vars => [D!Next]_(D!vars) BY <1>2, <1>3
<1> QED BY <1>1, <1>4, SpecInv, PTL DEF Spec, DispatcherSpec, D!Spec

----------------------------------------------------------------------------
(* The order of the ready queue *)

\* x is ahead of y in s.
AheadIn(s, x, y) == \E i, j \in 1..Len(s) : i < j /\ s[i] = x /\ s[j] = y

(* Who is added at the end is ahead of nobody who was there. *)
LEMMA OrderAppend ==
    ASSUME NEW S, NEW s \in Seq(S), NEW e \in S, NEW x, NEW y, y # e,
           AheadIn(Append(s, e), x, y)
    PROVE  AheadIn(s, x, y)
<1>1. /\ Len(Append(s, e)) = Len(s) + 1 /\ Len(s) \in Nat
      /\ \A i \in 1..Len(s) : Append(s, e)[i] = s[i]
      /\ Append(s, e)[Len(s) + 1] = e
  OBVIOUS
<1>2. PICK i, j \in 1..Len(s) + 1 :
        i < j /\ Append(s, e)[i] = x /\ Append(s, e)[j] = y
  BY <1>1 DEF AheadIn
<1>3. j # Len(s) + 1 BY <1>1, <1>2
<1>4. i \in 1..Len(s) /\ j \in 1..Len(s) BY <1>1, <1>2, <1>3
<1> QED BY <1>1, <1>2, <1>4 DEF AheadIn

LEMMA OrderTail ==
    ASSUME NEW S, NEW s \in Seq(S), s # <<>>, NEW x, NEW y
    PROVE  /\ AheadIn(Tail(s), x, y) => AheadIn(s, x, y)
           /\ y \in On(Tail(s)) => AheadIn(s, Head(s), y)
<1>1. /\ Len(s) \in Nat /\ Len(s) >= 1 /\ Head(s) = s[1]
      /\ Len(Tail(s)) = Len(s) - 1
      /\ \A i \in 1..Len(Tail(s)) : Tail(s)[i] = s[i + 1]
  OBVIOUS
<1>2. ASSUME AheadIn(Tail(s), x, y) PROVE AheadIn(s, x, y)
  <2>1. PICK i, j \in 1..Len(Tail(s)) :
          i < j /\ Tail(s)[i] = x /\ Tail(s)[j] = y
    BY <1>2 DEF AheadIn
  <2>2. i + 1 \in 1..Len(s) /\ j + 1 \in 1..Len(s) /\ i + 1 < j + 1
    BY <1>1, <2>1
  <2>3. s[i + 1] = x /\ s[j + 1] = y BY <1>1, <2>1
  <2> QED BY <2>2, <2>3 DEF AheadIn
<1>3. ASSUME y \in On(Tail(s)) PROVE AheadIn(s, Head(s), y)
  <2>1. PICK j \in 1..Len(Tail(s)) : Tail(s)[j] = y BY <1>3 DEF On
  <2>2. 1 \in 1..Len(s) /\ j + 1 \in 1..Len(s) /\ 1 < j + 1 BY <1>1, <2>1
  <2>3. s[1] = Head(s) /\ s[j + 1] = y BY <1>1, <2>1
  <2> QED BY <2>2, <2>3 DEF AheadIn
<1> QED BY <1>2, <1>3

(* A switch keeps the order of the queue, but for idle. *)
LEMMA DispatchOrder ==
    ASSUME NEW S, NEW q \in Seq(S), q # <<>>, Dispatch(q), NEW x, NEW y,
           y # Idle, y \in On(ready_queue'),
           AheadIn(ready_queue', x, y) \/ x = active_proc'
    PROVE  AheadIn(q, x, y)
<1> DEFINE s == SkipIdle(q)
<1>1. Head(q) \in S /\ Tail(q) \in Seq(S) /\ Len(Tail(q)) \in Nat BY TailFacts
<1>2. CASE Head(q) = Idle
  <2>1. s = Append(Tail(q), Idle) /\ Idle \in S BY <1>1, <1>2 DEF SkipIdle
  <2>2. s \in Seq(S) /\ s # <<>>
    <3>1. Append(Tail(q), Idle) \in Seq(S) /\ Len(Append(Tail(q), Idle)) > 0
      BY <1>1, <2>1
    <3> QED BY <2>1, <3>1
  <2>3. active_proc' = Head(s) /\ ready_queue' = Tail(s) BY DEF Dispatch
  <2> HIDE DEF s
  <2>4. AheadIn(s, x, y) BY <2>2, <2>3, OrderTail
  <2>5. AheadIn(Tail(q), x, y) BY <1>1, <2>1, <2>4, OrderAppend
  <2> QED BY <2>5, OrderTail
<1>3. CASE Head(q) # Idle
  <2>1. active_proc' = Head(q) /\ ready_queue' = Tail(q)
    BY <1>3 DEF Dispatch, SkipIdle
  <2> QED BY <2>1, OrderTail
<1> QED BY <1>2, <1>3

(* The ready queue is served round robin: nobody behind a ready process, or
   not yet ready, is scheduled or comes to be ahead of it. *)
THEOREM RoundRobin == Spec => NoOvertaking
<1> DEFINE P == \A p \in On(ready_queue) \ {Idle}, q \in Pid :
                   /\ p \in On(ready_queue')
                   /\ Ahead(q, p)' \/ (active_proc' = q /\ active_proc # q)
                   => Ahead(q, p)
<1>1. ASSUME Inv, Next PROVE P
  <2> SUFFICES ASSUME NEW y \in On(ready_queue), y # Idle, NEW x \in Pid,
                      y \in On(ready_queue'),
                      AheadIn(ready_queue', x, y)
                        \/ (active_proc' = x /\ active_proc # x)
               PROVE  AheadIn(ready_queue, x, y)
    BY DEF Ahead, AheadIn
  <2> USE <1>1
  <2>0. /\ ready_queue \in Seq(Pid) /\ active_proc \in Pid
        /\ y # active_proc /\ y \notin Blocked
    BY DEF Inv, TypeOK, SingleResidence, Live, Blocked
  <2>1. ASSUME NEW q, Gives(q) PROVE AheadIn(q, x, y)
    <3>1. q \in Seq(Pid) /\ q # <<>> /\ Dispatch(q) BY <2>1 DEF Gives
    <3> QED BY <3>1, DispatchOrder
  <2>2. ASSUME NEW e \in Pid, e # y, active_proc' = active_proc,
               ready_queue' = Append(ready_queue, e)
        PROVE  AheadIn(ready_queue, x, y)
    BY <2>0, <2>2, OrderAppend
  <2>3. ASSUME NEW p \in Pid, Fork(p) PROVE AheadIn(ready_queue, x, y)
    BY <2>2, <2>3, ForkMoves
  <2>4. ASSUME NEW p \in Pid,
               (\E n \in 1..MaxTicks : Delay(p, n)) \/ WaitBlock(p)
        PROVE  AheadIn(ready_queue, x, y)
    BY <2>1, <2>4, BlockMoves
  <2>5. ASSUME NEW p \in Pid, NEW stray \in Strays, Exit(p, stray)
        PROVE  AheadIn(ready_queue, x, y)
    <3> DEFINE parent == Orphaned(p, stray)[p]
               q == ready_queue \o Woken(parent)
    <3>1. AheadIn(q, x, y)
      <4>1. Gives(q) BY <2>5, ExitMoves
      <4> QED BY <2>1, <4>1
    <3> HIDE DEF parent
    <3>2. CASE parent \in On(wait_list)
      <4>1. parent \in Pid BY <3>2 DEF Inv, SingleResidence, Live
      <4>2. parent # y BY <2>0, <3>2 DEF Blocked
      <4>3. q = Append(ready_queue, parent)
        BY <2>0, <3>2, <4>1 DEF Woken
      <4> HIDE DEF q
      <4>4. AheadIn(Append(ready_queue, parent), x, y) BY <3>1, <4>3, Zenon
      <4> QED BY <2>0, <4>1, <4>2, <4>4, OrderAppend
    <3>3. CASE parent \notin On(wait_list)
      <4>1. q = ready_queue BY <2>0, <3>3 DEF Woken
      <4> HIDE DEF q
      <4> QED BY <3>1, <4>1, Zenon
    <3> QED BY <3>2, <3>3
  <2>6. CASE UpdateSleeper
    <3>1. ASSUME NEW b \in Blocked, ready_queue' = Append(ready_queue, b),
                 b \in Pid
          PROVE  AheadIn(ready_queue, x, y)
      <4>1. active_proc' = active_proc BY <2>6, WakeMoves
      <4> QED BY <2>0, <2>2, <3>1, <4>1
    <3>2. ASSUME ready_queue' = ready_queue PROVE AheadIn(ready_queue, x, y)
      BY <2>6, <3>2, WakeMoves
    <3> QED BY <2>6, <3>1, <3>2, WakeMoves
  <2>7. CASE ClockSchedule
    <3>1. CASE Gives(Append(ready_queue, active_proc))
      <4>1. AheadIn(Append(ready_queue, active_proc), x, y) BY <2>1, <3>1
      <4> QED BY <2>0, <4>1, OrderAppend
    <3>2. CASE active_proc' = active_proc /\ ready_queue' = ready_queue
      BY <3>2
    <3> QED BY <2>7, <3>1, <3>2, ClockMoves
  <2>8. ASSUME NEW p \in Pid,
               \/ ForkFail(p) \/ WaitResume(p) \/ TrapClock
               \/ \E k \in 1..Len(dead_list) : WaitReap(p, k)
               \/ \E stray \in Strays : ExitFail(p, stray)
        PROVE  AheadIn(ready_queue, x, y)
    BY <2>8, OtherMoves
  <2> QED BY <2>3, <2>4, <2>5, <2>6, <2>7, <2>8, NextCases
<1>2. Inv /\ [Next]_vars => [P]_vars BY <1>1
<1> HIDE DEF P
<1>3. Spec => [][P]_vars BY <1>2, SpecInv, PTL DEF Spec
<1> QED BY <1>3, PTL DEF P, NoOvertaking

----------------------------------------------------------------------------
(* The family, when memory does not run out and the walk over the children
   ends behind the last one.  A Fork or an Exit that runs out of memory half
   way leaves the two records of the family in disagreement. *)
Reliable == ~AllocFails /\ Strays \subseteq {{}}

\* Who was not forked yet has no children.
UnbornChildless == \A p \in Pid : kpc[p] = "unborn" => children[p] = <<>>

\* The inductive invariant, next to Inv.
FamilyInv == FamilyConsistent /\ WaiterHasLiveChild /\ UnbornChildless

LEMMA InitFamily == Init => FamilyInv
<1> SUFFICES ASSUME Init PROVE FamilyInv OBVIOUS
<1>1. \A p \in Pid : children[p] = <<>> /\ ppid[p] = -1 BY DEF Init
<1>2. On(wait_list) = {} BY OnEmpty DEF Init
<1>3. FamilyConsistent
  BY <1>1, OnEmpty DEF FamilyConsistent, Live, Pid
<1> QED BY <1>1, <1>2, <1>3 DEF FamilyInv, WaiterHasLiveChild, UnbornChildless

(* Fork enters the child in both records. *)
LEMMA ForkFamily ==
    ASSUME Inv, FamilyInv, NEW p \in Pid, Fork(p)
    PROVE  FamilyInv'
<1> DEFINE c == next_pid
<1>1. /\ active_proc = p /\ kpc[p] = "user" /\ wait_list' = wait_list
      /\ ppid' = [ppid EXCEPT ![c] = p]
      /\ children' = [children EXCEPT ![p] = Append(@, c)]
      /\ kpc' = [kpc EXCEPT ![c] = "user"]
  BY DEF Fork, Register, Calls, InUser
<1>2. c \in Pid /\ c # -1 /\ kpc[c] = "unborn"
  <2>1. c \in Pid BY ForkMoves
  <2> QED BY <2>1 DEF Inv, PidsInOrder, Pid
<1>3. /\ ppid \in [Pid -> Pid \cup {-1}] /\ children \in [Pid -> Seq(Pid)]
      /\ kpc \in [Pid -> {"unborn", "stillborn", "user", "sys_Wait", "exited"}]
  BY DEF Inv, TypeOK
<1> HIDE DEF c
<1>4. p # c /\ p \in Live /\ c \notin Live /\ Live' = Live \cup {c}
  BY <1>1, <1>2, <1>3 DEF Live
<1>5. /\ ppid'[c] = p /\ \A d \in Live : ppid'[d] = ppid[d]
      /\ children'[p] = Append(children[p], c)
      /\ \A r \in Pid \ {p} : children'[r] = children[r]
      /\ children[c] = <<>>
  BY <1>1, <1>2, <1>3, <1>4 DEF FamilyInv, UnbornChildless, Live
<1>6. /\ \A r \in Live : NoDup(children[r])
      /\ \A r \in Live : On(children[r]) = {d \in Live : ppid[d] = r}
      /\ \A d \in Live : ppid[d] \in Live \cup {-1}
  BY DEF FamilyInv, FamilyConsistent
<1>7. /\ NoDup(children'[p])
      /\ On(children'[p]) = On(children[p]) \cup {c}
  <2>1. c \notin On(children[p]) BY <1>4, <1>6
  <2>2. children[p] \in Seq(Pid) /\ NoDup(children[p]) BY <1>3, <1>4, <1>6
  <2> QED BY <1>2, <1>5, <2>1, <2>2, AppendFacts
<1>8. Live \subseteq Pid BY DEF Live
<1>9. FamilyConsistent'
  <2>1. ASSUME NEW r \in Live'
        PROVE  /\ NoDup(children'[r])
               /\ On(children'[r]) = {d \in Live' : ppid'[d] = r}
    <3>1. CASE r = p BY <1>4, <1>5, <1>6, <1>7, <3>1
    <3>2. CASE r = c
      <4>1. \A d \in Live' : ppid'[d] # c BY <1>2, <1>4, <1>5, <1>6
      <4>2. children'[c] = <<>> BY <1>2, <1>4, <1>5
      <4> QED BY <3>2, <4>1, <4>2, OnEmpty
    <3>3. CASE r # p /\ r # c
      <4>1. r \in Live /\ r \in Pid BY <1>4, <1>8, <3>3
      <4> QED BY <1>4, <1>5, <1>6, <3>3, <4>1
    <3> QED BY <3>1, <3>2, <3>3
  <2>2. \A d \in Live' : ppid'[d] \in Live' \cup {-1} BY <1>4, <1>5, <1>6
  <2> QED BY <2>1, <2>2 DEF FamilyConsistent
<1>10. WaiterHasLiveChild'
  BY <1>1, <1>4, <1>5 DEF FamilyInv, WaiterHasLiveChild
<1>11. UnbornChildless'
  <2>1. ASSUME NEW r \in Pid, kpc'[r] = "unborn" PROVE children'[r] = <<>>
    <3>1. r # c /\ kpc[r] = "unborn" /\ r # p BY <1>1, <1>2, <1>3, <2>1
    <3> QED BY <1>5, <3>1 DEF FamilyInv, UnbornChildless
  <2> QED BY <2>1 DEF UnbornChildless
<1> QED BY <1>9, <1>10, <1>11 DEF FamilyInv

(* Whose parent sys_Exit reports to: the one on record, but for a process
   that is its own parent, which it would first make an orphan. *)
LEMMA ExitParent ==
    ASSUME Inv, FamilyInv, NEW p \in Pid, Exit(p, {})
    PROVE  LET parent == Orphaned(p, {})[p] IN
           /\ p \in Live
           /\ parent = IF ppid[p] = p THEN -1 ELSE ppid[p]
           /\ \A c \in Live :
                Orphaned(p, {})[c] = IF ppid[c] = p THEN -1 ELSE ppid[c]
<1>1. p \in Live BY DEF Exit, Calls, InUser, Live
<1>2. On(children[p]) = {c \in Live : ppid[c] = p}
  BY <1>1 DEF FamilyInv, FamilyConsistent
<1>3. \A c \in Live :
         Orphaned(p, {})[c] = IF ppid[c] = p THEN -1 ELSE ppid[c]
  BY <1>2 DEF Orphaned, Live
<1> QED BY <1>1, <1>3

(* Exit makes orphans of the children and leaves the parent's record. *)
LEMMA ExitFamily ==
    ASSUME Inv, FamilyInv, NEW p \in Pid, Exit(p, {})
    PROVE  FamilyInv'
<1> DEFINE parent == Orphaned(p, {})[p]
<1>1. /\ active_proc = p
      /\ wait_list' = RemoveFirst(wait_list, parent)
      /\ kpc' = [kpc EXCEPT ![p] = "exited"]
      /\ ppid' = Orphaned(p, {})
      /\ parent # -1 =>
            children' = [children EXCEPT ![parent] = RemoveFirst(@, p)]
      /\ parent = -1 => children' = children
  BY DEF Exit, Calls, InUser
<1>2. /\ p \in Live
      /\ parent = IF ppid[p] = p THEN -1 ELSE ppid[p]
      /\ \A c \in Live : ppid'[c] = IF ppid[c] = p THEN -1 ELSE ppid[c]
  BY <1>1, ExitParent
<1> HIDE DEF parent
<1>3. /\ ppid \in [Pid -> Pid \cup {-1}] /\ children \in [Pid -> Seq(Pid)]
      /\ kpc \in [Pid -> {"unborn", "stillborn", "user", "sys_Wait", "exited"}]
      /\ -1 \notin Pid /\ Live \subseteq Pid
  BY DEF Inv, TypeOK, Live, Pid
<1>4. Live' = Live \ {p} BY <1>1, <1>2, <1>3 DEF Live
<1>5. /\ \A r \in Live : NoDup(children[r])
      /\ \A r \in Live : On(children[r]) = {d \in Live : ppid[d] = r}
      /\ \A d \in Live : ppid[d] \in Live \cup {-1}
  BY DEF FamilyInv, FamilyConsistent
<1>6. parent \in (Live \ {p}) \cup {-1} BY <1>2, <1>5
<1>7. FamilyConsistent'
  <2>1. ASSUME NEW r \in Live'
        PROVE  /\ NoDup(children'[r])
               /\ On(children'[r]) = {d \in Live' : ppid'[d] = r}
    <3>1. r \in Live /\ r # p /\ r \in Pid /\ r # -1 BY <1>3, <1>4, <2>1
    <3>2. {d \in Live' : ppid'[d] = r} = On(children[r]) \ {p}
      BY <1>2, <1>4, <1>5, <3>1
    <3>3. CASE r = parent
      <4>1. children'[r] = RemoveFirst(children[r], p) BY <1>1, <1>3, <3>1, <3>3
      <4>2. children[r] \in Seq(Pid) /\ NoDup(children[r])
        BY <1>3, <1>5, <3>1
      <4>3. /\ NoDup(RemoveFirst(children[r], p))
            /\ On(RemoveFirst(children[r], p)) = On(children[r]) \ {p}
        BY <4>2, RemoveFirstFacts
      <4> QED BY <3>2, <4>1, <4>3
    <3>4. CASE r # parent
      <4>1. children'[r] = children[r] BY <1>1, <1>3, <3>1, <3>4
      <4>2. p \notin On(children[r]) BY <1>2, <1>5, <3>1, <3>4
      <4> QED BY <1>5, <3>1, <3>2, <4>1, <4>2
    <3> QED BY <3>3, <3>4
  <2>2. \A d \in Live' : ppid'[d] \in Live' \cup {-1} BY <1>2, <1>4, <1>5
  <2> QED BY <2>1, <2>2 DEF FamilyConsistent
<1>8. WaiterHasLiveChild'
  <2>1. On(wait_list') = On(wait_list) \ {parent} /\ p \notin On(wait_list)
    BY <1>1, RemoveFirstFacts DEF Inv, TypeOK, SingleResidence
  <2>2. ASSUME NEW r \in On(wait_list')
        PROVE  \E d \in Live' : ppid'[d] = r
    <3>1. r \in On(wait_list) /\ r # parent /\ r # p BY <2>1
    <3>2. PICK d \in Live : ppid[d] = r
      BY <3>1 DEF FamilyInv, WaiterHasLiveChild
    <3>3. d # p BY <1>2, <3>1, <3>2
    <3> QED BY <1>2, <1>4, <3>1, <3>2, <3>3
  <2> QED BY <2>2 DEF WaiterHasLiveChild
<1>9. UnbornChildless'
  <2>1. ASSUME NEW r \in Pid, kpc'[r] = "unborn" PROVE children'[r] = <<>>
    <3>1. kpc[r] = "unborn" BY <1>1, <1>3, <2>1
    <3>2. r # parent /\ r # -1 BY <1>3, <1>6, <3>1 DEF Live
    <3>3. children'[r] = children[r] BY <1>1, <1>3, <1>6, <3>2
    <3> QED BY <3>1, <3>3 DEF FamilyInv, UnbornChildless
  <2> QED BY <2>1 DEF UnbornChildless
<1> QED BY <1>7, <1>8, <1>9 DEF FamilyInv

(* Every other step leaves the family alone; who blocks in Wait has a child. *)
LEMMA SameFamily ==
    ASSUME FamilyInv, UNCHANGED <<ppid, children>>, Live' = Live,
           \A p \in Pid : kpc'[p] = "unborn" => kpc[p] = "unborn",
           \A p \in On(wait_list') :
              p \in On(wait_list) \/ (p \in Live /\ children[p] # <<>>),
           Inv
    PROVE  FamilyInv'
<1>1. FamilyConsistent' BY DEF FamilyInv, FamilyConsistent
<1>2. UnbornChildless' BY DEF FamilyInv, UnbornChildless
<1>3. ASSUME NEW p \in Live, children[p] # <<>>
      PROVE  \E c \in Live : ppid[c] = p
  <2>1. children[p] \in Seq(Pid) BY DEF Inv, TypeOK, Live
  <2>2. On(children[p]) # {} BY <1>3, <2>1, OnEmpty
  <2>3. On(children[p]) = {c \in Live : ppid[c] = p}
    BY DEF FamilyInv, FamilyConsistent
  <2> QED BY <2>2, <2>3
<1>4. WaiterHasLiveChild' BY <1>3 DEF FamilyInv, WaiterHasLiveChild
<1> QED BY <1>1, <1>2, <1>4 DEF FamilyInv

LEMMA NextFamily ==
    ASSUME Reliable
    PROVE  Inv /\ FamilyInv /\ [Next]_vars => FamilyInv'
<1> SUFFICES ASSUME Inv, FamilyInv, [Next]_vars PROVE FamilyInv' OBVIOUS
<1>0. /\ kpc \in [Pid -> {"unborn", "stillborn", "user", "sys_Wait", "exited"}]
      /\ wait_list \in Seq(Pid)
  BY DEF Inv, TypeOK
<1>1. ASSUME UNCHANGED <<ppid, children, kpc, wait_list>> PROVE FamilyInv'
  BY <1>1, SameFamily DEF Live
<1>2. ASSUME NEW p \in Pid, SystemCall(p) PROVE FamilyInv'
  <2>1. CASE Fork(p) BY <2>1, ForkFamily
  <2>2. CASE ForkFail(p) BY <2>2 DEF ForkFail, Reliable
  <2>3. ASSUME NEW n \in 1..MaxTicks, Delay(p, n) PROVE FamilyInv'
    BY <1>1, <2>3 DEF Delay
  <2>4. ASSUME NEW k \in 1..Len(dead_list), WaitReap(p, k) PROVE FamilyInv'
    BY <1>1, <2>4 DEF WaitReap
  <2>5. CASE WaitBlock(p)
    <3>1. /\ UNCHANGED <<ppid, children>> /\ kpc[p] = "user"
          /\ children[p] # <<>> /\ wait_list' = Append(wait_list, p)
          /\ kpc' = [kpc EXCEPT ![p] = "sys_Wait"]
      BY <2>5 DEF WaitBlock, Calls, InUser, HasChild
    <3>2. Live' = Live /\ p \in Live BY <1>0, <3>1 DEF Live
    <3>3. On(wait_list') = On(wait_list) \cup {p}
      BY <1>0, <3>1, AppendFacts
    <3> QED BY <1>0, <3>1, <3>2, <3>3, SameFamily
  <2>6. ASSUME NEW stray \in Strays, Exit(p, stray) PROVE FamilyInv'
    <3>1. stray = {} BY DEF Reliable
    <3> QED BY <2>6, <3>1, ExitFamily
  <2>7. ASSUME NEW stray \in Strays, ExitFail(p, stray) PROVE FamilyInv'
    BY <2>7 DEF ExitFail, Reliable
  <2> QED BY <1>2, <2>1, <2>2, <2>3, <2>4, <2>5, <2>6, <2>7 DEF SystemCall
<1>3. ASSUME NEW p \in Pid, WaitResume(p) PROVE FamilyInv'
  <2>1. /\ UNCHANGED <<ppid, children, wait_list>> /\ kpc[p] = "sys_Wait"
        /\ kpc' = [kpc EXCEPT ![p] = "user"]
    BY <1>3 DEF WaitResume
  <2>2. Live' = Live BY <1>0, <2>1 DEF Live
  <2> QED BY <1>0, <2>1, <2>2, SameFamily
<1>4. CASE TrapClock \/ UpdateSleeper \/ ClockSchedule
  BY <1>1, <1>4 DEF TrapClock, UpdateSleeper, ClockSchedule
<1>5. CASE UNCHANGED vars BY <1>1, <1>5 DEF vars, procVars
<1> QED BY <1>2, <1>3, <1>4, <1>5 DEF Next

LEMMA SpecFamily ==
    ASSUME Reliable
    PROVE  Spec => []FamilyInv
<1>1. Init => FamilyInv BY InitFamily
<1>2. Inv /\ FamilyInv /\ [Next]_vars => FamilyInv' BY NextFamily
<1> QED BY <1>1, <1>2, SpecInv, PTL DEF Spec

(* As long as nothing fails, the children list of every live process holds
   its live children, once each, and nobody's parent is dead. *)
THEOREM FamilyAgrees ==
    ASSUME Reliable
    PROVE  Spec => []FamilyConsistent
<1>1. FamilyInv => FamilyConsistent BY DEF FamilyInv
<1> QED BY <1>1, SpecFamily, PTL

(* As long as nothing fails, whoever is blocked in Wait has a live child. *)
THEOREM WaitNotInVain ==
    ASSUME Reliable
    PROVE  Spec => []WaiterHasLiveChild
<1>1. FamilyInv => WaiterHasLiveChild BY DEF FamilyInv
<1> QED BY <1>1, SpecFamily, PTL

(* As long as nothing fails, the exit of a child makes its parent ready when
   that waits: sys_Exit finds the parent it has on record. *)
THEOREM ParentWoken ==
    ASSUME Reliable
    PROVE  Spec => ExitWakesParent
<1> DEFINE P == \A c \in Pid : kpc'[c] = "exited" /\ kpc[c] # "exited"
                  /\ ppid[c] \in On(wait_list)
                    => ppid[c] \in On(ready_queue') \cup {active_proc'}
<1>1. ASSUME Inv, FamilyInv, Next PROVE P
  <2> SUFFICES ASSUME NEW c \in Pid, kpc'[c] = "exited", kpc[c] # "exited",
                      ppid[c] \in On(wait_list)
               PROVE  ppid[c] \in On(ready_queue') \cup {active_proc'}
    OBVIOUS
  <2> USE <1>1
  <2>0. /\ kpc \in [Pid -> {"unborn", "stillborn", "user", "sys_Wait", "exited"}]
        /\ next_pid \in Int
    BY DEF Inv, TypeOK
  <2>1. ASSUME NEW p \in Pid, NEW stray \in Strays, Exit(p, stray)
        PROVE  ppid[c] \in On(ready_queue') \cup {active_proc'}
    <3> DEFINE parent == Orphaned(p, {})[p]
               q == ready_queue \o Woken(parent)
    <3>1. Exit(p, {}) /\ {} \in Strays
      <4>1. stray = {} BY DEF Reliable
      <4> QED BY <2>1, <4>1
    <3>2. p = c
      <4>1. kpc' = [kpc EXCEPT ![p] = "exited"] BY <3>1 DEF Exit
      <4> QED BY <2>0, <4>1
    <3>3. parent = IF ppid[p] = p THEN -1 ELSE ppid[p] BY <3>1, ExitParent
    <3>4. /\ active_proc = p /\ Gives(q)
          /\ On(q) = On(ready_queue) \cup (On(wait_list) \cap {parent})
      BY <3>1, ExitMoves
    <3> HIDE DEF parent, q
    <3>5. ppid[c] # c BY <3>2, <3>4 DEF Inv, SingleResidence
    <3>6. ppid[c] \in On(q) BY <3>2, <3>3, <3>4, <3>5
    <3> QED BY <3>4, <3>6 DEF Gives
  <2>2. ASSUME \A p \in Pid : \A stray \in Strays : ~Exit(p, stray)
        PROVE  FALSE
    <3>1. ASSUME NEW p \in Pid, SystemCall(p) PROVE FALSE
      <4>1. \/ kpc' = kpc
            \/ kpc' = [kpc EXCEPT ![next_pid] = "user"]
            \/ kpc' = [kpc EXCEPT ![p] = "sys_Wait"]
        BY <2>2, <3>1 DEF SystemCall, Fork, ForkFail, Delay, WaitReap,
                          WaitBlock, ExitFail, Reliable
      <4> QED BY <2>0, <4>1
    <3>2. ASSUME NEW p \in Pid, WaitResume(p) PROVE FALSE
      <4>1. kpc' = [kpc EXCEPT ![p] = "user"] BY <3>2 DEF WaitResume
      <4> QED BY <2>0, <4>1
    <3>3. CASE TrapClock \/ UpdateSleeper \/ ClockSchedule
      BY <3>3 DEF TrapClock, UpdateSleeper, ClockSchedule
    <3> QED BY <3>1, <3>2, <3>3 DEF Next
  <2> QED BY <2>1, <2>2
<1>2. Inv /\ FamilyInv /\ [Next]_vars => [P]_vars BY <1>1
<1> HIDE DEF P
<1>3. Spec => [][P]_vars BY <1>2, SpecInv, SpecFamily, PTL DEF Spec
<1> QED BY <1>3, PTL DEF P, ExitWakesParent
=============================================================================
