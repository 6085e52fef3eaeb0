--------------------------- MODULE SemaphoreProofs ---------------------------
(***************************************************************************)
(* The safety of the semaphores, for any number of processes, semaphores   *)
(* and signals, with and without allocation failures and unknown ids.      *)
(***************************************************************************)
EXTENDS Semaphore, TasksProofs

SemInfo == [id : Sem, count : Int, waiting : Seq(Proc)]

\* No two semaphores share an id, and nobody has used the ones to come.
IdsInOrder ==
    /\ \A i \in 1..Len(sem_list) : sem_list[i].id < next_sem
    /\ \A i, j \in 1..Len(sem_list) :
          sem_list[i].id = sem_list[j].id => i = j
    /\ \A s \in Sem : s >= next_sem => signals[s] = 0 /\ passed[s] = 0

\* The signals nobody has used up yet are what count holds above those who
\* wait.
Balance ==
    \A i \in 1..Len(sem_list) :
        LET sem == sem_list[i] IN
        signals[sem.id] = passed[sem.id] + sem.count + Len(sem.waiting)

\* The inductive invariant.
Inv ==
    /\ TypeOK
    /\ Housed(active_proc, ready_queue, 1..Len(sem_list), Waits(sem_list))
    /\ IdsInOrder
    /\ WaitersCounted
    /\ Balance

----------------------------------------------------------------------------
(* The fields of a semaphore on the list. *)
LEMMA SemFacts ==
    ASSUME NEW sl \in Seq(SemInfo)
    PROVE  /\ Len(sl) \in Nat
           /\ Waits(sl) \in [1..Len(sl) -> Seq(Proc)]
           /\ \A i \in 1..Len(sl) :
                 /\ sl[i] \in SemInfo /\ sl[i].id \in Sem
                 /\ sl[i].count \in Int /\ sl[i].waiting \in Seq(Proc)
                 /\ Waits(sl)[i] = sl[i].waiting
<1>1. \A i \in 1..Len(sl) : sl[i] \in SemInfo OBVIOUS
<1>2. ASSUME NEW i \in 1..Len(sl)
      PROVE  /\ sl[i].id \in Sem /\ sl[i].count \in Int
             /\ sl[i].waiting \in Seq(Proc)
  BY <1>1 DEF SemInfo
<1> QED BY <1>1, <1>2 DEF Waits

(* One semaphore is changed in its place. *)
LEMMA SemChanged ==
    ASSUME NEW sl \in Seq(SemInfo), NEW new \in Seq(SemInfo),
           Len(new) = Len(sl), NEW i \in 1..Len(sl),
           \A j \in 1..Len(sl) \ {i} : new[j] = sl[j]
    PROVE  /\ Waits(new) \in [1..Len(sl) -> Seq(Proc)]
           /\ Waits(new)[i] = new[i].waiting
           /\ \A j \in 1..Len(sl) \ {i} : Waits(new)[j] = Waits(sl)[j]
<1>1. /\ Waits(new) \in [1..Len(sl) -> Seq(Proc)]
      /\ \A j \in 1..Len(sl) : Waits(new)[j] = new[j].waiting
      /\ \A j \in 1..Len(sl) : Waits(sl)[j] = sl[j].waiting
  BY SemFacts
<1> QED BY <1>1

(* Two fields of a semaphore are assigned. *)
LEMMA SemAssigned ==
    ASSUME NEW s \in SemInfo, NEW c \in Int, NEW w \in Seq(Proc)
    PROVE  [s EXCEPT !.count = c, !.waiting = w]
             = [id |-> s.id, count |-> c, waiting |-> w]
<1> DEFINE r == [s EXCEPT !.count = c]
<1>1. /\ r \in SemInfo
      /\ r.id = s.id /\ r.count = c /\ r.waiting = s.waiting
  BY DEF SemInfo
<1>2. [s EXCEPT !.count = c, !.waiting = w] = [r EXCEPT !.waiting = w] OBVIOUS
<1> HIDE DEF r
<1>3. [r EXCEPT !.waiting = w] = [id |-> s.id, count |-> c, waiting |-> w]
  BY <1>1 DEF SemInfo
<1> QED BY <1>2, <1>3, Zenon

\* From w to v nobody leaves before those ahead of him.
InOrder(w, v) ==
    \A k, l \in 1..Len(w) : k < l /\ w[k] \in On(v) => w[l] \in On(v)

(* Adding at the end of a list and removing its head keep that order. *)
LEMMA OrderKept ==
    ASSUME NEW w \in Seq(Proc)
    PROVE  /\ InOrder(w, w)
           /\ \A p \in Proc : InOrder(w, Append(w, p))
           /\ w # <<>> => InOrder(w, SubSeq(w, 2, Len(w)))
<1>1. \A l \in 1..Len(w) : w[l] \in On(w) BY DEF On
<1>2. \A p \in Proc : On(w) \subseteq On(Append(w, p)) BY AppendFacts
<1>3. ASSUME w # <<>>, NEW l \in 1..Len(w), l > 1
      PROVE  w[l] \in On(SubSeq(w, 2, Len(w)))
  <2> DEFINE n == 1
             v == SubSeq(w, n + 1, Len(w))
  <2>1. n \in 0..Len(w) /\ Len(w) \in Nat /\ l - n \in 1..Len(w) - n
    BY <1>3
  <2>2. l = n + (l - n) OBVIOUS
  <2> HIDE DEF n
  <2>3. Len(v) = Len(w) - n /\ v[l - n] = w[n + (l - n)]
    BY <2>1, SubSeqFacts
  <2>4. w[l] = v[l - n] /\ l - n \in 1..Len(v) BY <2>1, <2>2, <2>3
  <2> HIDE DEF v
  <2>5. w[l] \in On(v) BY <2>4 DEF On
  <2> QED BY <2>5 DEF v, n
<1> QED BY <1>1, <1>2, <1>3 DEF InOrder

LEMMA InitInv == Init => Inv
<1> SUFFICES ASSUME Init PROVE Inv OBVIOUS
<1>1. sem_list = <<>> /\ Len(sem_list) = 0 BY DEF Init
<1>2. Waits(sem_list) \in [1..Len(sem_list) -> {<<>>}] BY <1>1 DEF Waits
<1>3. Housed(active_proc, ready_queue, 1..Len(sem_list), Waits(sem_list))
  BY <1>2, InitHoused DEF Init
<1>4. TypeOK
  <2>1. active_proc \in Proc /\ ready_queue \in Seq(Proc) BY <1>3 DEF Housed
  <2>2. sem_list \in Seq(SemInfo) BY <1>1
  <2>3. next_sem \in 0..MaxSem /\ 0 \in 0..MaxSignal
    BY SemaphoreAssumption DEF Init
  <2> QED BY <2>1, <2>2, <2>3 DEF Init, TasksInit, TypeOK, SemInfo
<1>5. IdsInOrder /\ WaitersCounted /\ Balance
  BY <1>1 DEF Init, IdsInOrder, WaitersCounted, Balance
<1> QED BY <1>3, <1>4, <1>5 DEF Inv

----------------------------------------------------------------------------
(* A new semaphore has an id of its own, which nobody signalled. *)
LEMMA Custom_0Inv ==
    ASSUME Inv, NEW p \in Proc, Custom_0(p)
    PROVE  Inv'
<1> DEFINE s == NewSem(next_sem)
<1>1. /\ next_sem \in 0..MaxSem /\ next_sem < MaxSem /\ next_sem' = next_sem + 1
      /\ sem_list' = Append(sem_list, s)
      /\ UNCHANGED <<active_proc, ready_queue, kpc, panic, signals, passed>>
  BY DEF Custom_0, Inv, TypeOK, taskVars, schedVars
<1>2. next_sem \in Sem /\ next_sem' \in 0..MaxSem
  BY <1>1, SemaphoreAssumption DEF Sem
<1>3. /\ s \in SemInfo /\ s.id = next_sem /\ s.count = 0 /\ s.waiting = <<>>
  BY <1>2 DEF NewSem, SemInfo
<1> HIDE DEF s
<1>4. sem_list \in Seq(SemInfo) BY DEF Inv, TypeOK, SemInfo
<1>5. /\ sem_list' \in Seq(SemInfo) /\ Len(sem_list') = Len(sem_list) + 1
      /\ Len(sem_list) \in Nat
      /\ \A i \in 1..Len(sem_list) : sem_list'[i] = sem_list[i]
      /\ sem_list'[Len(sem_list) + 1] = s
  BY <1>1, <1>3, <1>4
<1>6. \A i \in 1..Len(sem_list') :
         i \in 1..Len(sem_list) \/ i = Len(sem_list) + 1
  BY <1>5
<1>7. TypeOK'
  BY <1>1, <1>2, <1>5 DEF Inv, TypeOK, SemInfo
<1>8. Housed(active_proc, ready_queue, 1..Len(sem_list'), Waits(sem_list'))
  <2>1. /\ Waits(sem_list') \in [1..Len(sem_list') -> Seq(Proc)]
        /\ 1..Len(sem_list) \subseteq 1..Len(sem_list')
    BY <1>5, SemFacts
  <2>2. \A i \in 1..Len(sem_list) : Waits(sem_list')[i] = Waits(sem_list)[i]
    BY <1>4, <1>5, <2>1, SemFacts
  <2>3. \A i \in 1..Len(sem_list') \ 1..Len(sem_list) :
           Waits(sem_list')[i] = <<>>
    BY <1>3, <1>5, <1>6, SemFacts
  <2> QED BY <2>1, <2>2, <2>3, ListAdded DEF Inv
<1>9. IdsInOrder'
  <2>1. \A i \in 1..Len(sem_list) :
           sem_list[i].id \in Sem /\ sem_list[i].id < next_sem
    BY <1>4, SemFacts DEF Inv, IdsInOrder
  <2>2. \A i \in 1..Len(sem_list') : sem_list'[i].id < next_sem'
    BY <1>1, <1>3, <1>5, <1>6, <2>1, SemaphoreAssumption DEF Sem
  <2>3. \A i, j \in 1..Len(sem_list') :
           sem_list'[i].id = sem_list'[j].id => i = j
    BY <1>1, <1>3, <1>5, <1>6, <2>1 DEF Inv, IdsInOrder, Sem
  <2>4. \A x \in Sem : x >= next_sem' => x >= next_sem BY <1>1 DEF Sem
  <2> QED BY <1>1, <2>2, <2>3, <2>4 DEF Inv, IdsInOrder
<1>10. WaitersCounted'
  BY <1>3, <1>5, <1>6 DEF Inv, WaitersCounted
<1>11. Balance'
  <2>1. signals[next_sem] = 0 /\ passed[next_sem] = 0
    BY <1>1, <1>2 DEF Inv, IdsInOrder
  <2> QED BY <1>1, <1>3, <1>5, <1>6, <2>1 DEF Inv, Balance
<1> QED BY <1>1, <1>7, <1>8, <1>9, <1>10, <1>11 DEF Inv

(* A call that fails, or that ruins the kernel, moves nobody and touches no
   semaphore; an id may be spent. *)
LEMMA FailInv ==
    ASSUME Inv, NEW p \in Proc, Custom_0Fail(p) \/ NoSuchSem(p)
    PROVE  Inv'
<1>1. /\ UNCHANGED <<active_proc, ready_queue, kpc, sem_list, signals, passed>>
      /\ next_sem' \in 0..MaxSem /\ next_sem' >= next_sem
      /\ next_sem \in 0..MaxSem /\ panic' \in BOOLEAN
  <2>1. panic' \in BOOLEAN BY DEF Custom_0Fail, NoSuchSem, Inv, TypeOK
  <2>2. next_sem \in 0..MaxSem /\ MaxSem \in Nat
    BY SemaphoreAssumption DEF Inv, TypeOK
  <2>3. CASE Custom_0Fail(p)
    <3>1. next_sem < MaxSem /\ next_sem' = next_sem + 1
      BY <2>3 DEF Custom_0Fail
    <3> QED BY <2>1, <2>2, <2>3, <3>1 DEF Custom_0Fail, taskVars, schedVars
  <2>4. CASE NoSuchSem(p)
    BY <2>1, <2>2, <2>4 DEF NoSuchSem, taskVars, schedVars
  <2> QED BY <2>3, <2>4
<1>2. TypeOK' BY <1>1 DEF Inv, TypeOK
<1>3. \A i \in 1..Len(sem_list) : sem_list[i].id \in Sem
  <2>1. sem_list \in Seq(SemInfo) BY DEF Inv, TypeOK, SemInfo
  <2> QED BY <2>1, SemFacts
<1>4. IdsInOrder' BY <1>1, <1>3 DEF Inv, IdsInOrder, Sem
<1>5. WaitersCounted' /\ Balance'
  BY <1>1 DEF Inv, WaitersCounted, Balance
<1> QED BY <1>1, <1>2, <1>4, <1>5 DEF Inv

(* A signal wakes the one who waits longest, exactly when somebody does. *)
LEMMA Custom_1Inv ==
    ASSUME Inv, NEW p \in Proc, NEW i \in 1..Len(sem_list), Custom_1(p, i)
    PROVE  /\ Inv'
           /\ InOrder(sem_list[i].waiting, sem_list'[i].waiting)
           /\ \A j \in 1..Len(sem_list) \ {i} : sem_list'[j] = sem_list[j]
<1> DEFINE sem == sem_list[i]
           w == sem.waiting
           wake == WakeOne(sem.count + 1) /\ w # <<>>
           w2 == IF wake THEN SubSeq(w, 2, Len(w)) ELSE w
           n == IF wake THEN 1 ELSE 0
           new == [id |-> sem.id, count |-> sem.count + 1, waiting |-> w2]
<1>1. sem_list \in Seq(SemInfo) BY DEF Inv, TypeOK, SemInfo
<1>2. /\ sem \in SemInfo /\ sem.id \in Sem /\ sem.count \in Int
      /\ w \in Seq(Proc) /\ w = Waits(sem_list)[i] /\ Len(w) \in Nat
  <2>1. w \in Seq(Proc) BY <1>1, SemFacts
  <2>2. Len(w) \in Nat BY <2>1
  <2> QED BY <1>1, <2>1, <2>2, SemFacts
<1>3. /\ wake <=> w # <<>>
      /\ n \in 0..Len(w)
      /\ w2 = SubSeq(w, n + 1, Len(w)) /\ w2 \in Seq(Proc)
      /\ Len(w2) = Len(w) - n
      /\ Len(w) = IF sem.count < 0 THEN -sem.count ELSE 0
  <2>1. Len(w) = IF sem.count < 0 THEN -sem.count ELSE 0
    BY DEF Inv, WaitersCounted
  <2>2. wake <=> w # <<>>
    <3>1. w # <<>> <=> Len(w) > 0 BY <1>2
    <3> QED BY <1>2, <2>1, <3>1 DEF WakeOne
  <2>3. CASE wake
    <3>1. Len(w) >= 1 BY <1>2, <2>2, <2>3
    <3>2. /\ SubSeq(w, 2, Len(w)) \in Seq(Proc)
          /\ Len(SubSeq(w, 2, Len(w))) = Len(w) - 1
      BY <1>2, <3>1
    <3> QED BY <1>2, <2>1, <2>2, <2>3, <3>1, <3>2
  <2>4. CASE ~wake
    <3>1. w = <<>> /\ n = 0 /\ w2 = w BY <2>2, <2>4
    <3>2. w = SubSeq(w, 1, Len(w)) BY <1>2, NoneFacts
    <3> HIDE DEF w, w2, n
    <3> QED BY <1>2, <2>1, <2>2, <3>1, <3>2
  <2> QED BY <2>3, <2>4
<1>4. new \in SemInfo /\ new.waiting = w2 BY <1>2, <1>3 DEF SemInfo
<1>5. sem_list' = [sem_list EXCEPT ![i] = new]
  <2>1. wake => list_remove(w, WakesAt(w)) = w2
    BY <1>2, FirstFacts DEF WakesAt
  <2>2. sem_list' = [sem_list EXCEPT ![i].count = sem.count + 1,
                                     ![i].waiting = w2]
    BY <2>1, Zenon DEF Custom_1
  <2>3. sem_list' = [sem_list EXCEPT ![i] =
                       [sem EXCEPT !.count = sem.count + 1, !.waiting = w2]]
    BY <1>1, <2>2
  <2>4. sem.count + 1 \in Int /\ w2 \in Seq(Proc)
    <3> HIDE DEF sem, w2
    <3> QED BY <1>2, <1>3
  <2>5. [sem EXCEPT !.count = sem.count + 1, !.waiting = w2] = new
    <3> HIDE DEF sem, w, w2
    <3> QED BY <1>2, <2>4, SemAssigned, Zenon
  <2> QED BY <2>3, <2>5, Zenon
<1>6. ready_queue' = ready_queue \o SubSeq(w, 1, n)
  <2>1. ready_queue \in Seq(Proc) BY DEF Inv, TypeOK
  <2>2. CASE wake
    <3>1. ready_queue' = Append(ready_queue, w[1])
      BY <2>2 DEF Custom_1, WakesAt
    <3> QED BY <1>2, <2>1, <2>2, <3>1, FirstFacts
  <2>3. CASE ~wake
    <3>1. ready_queue' = ready_queue BY <2>3 DEF Custom_1
    <3> QED BY <1>2, <2>1, <2>3, <3>1, NoneFacts
  <2> QED BY <2>2, <2>3
<1>7. /\ signals' = [signals EXCEPT ![sem.id] = @ + 1]
      /\ passed' = [passed EXCEPT ![sem.id] = @ + n]
      /\ signals[sem.id] < MaxSignal
      /\ UNCHANGED <<active_proc, kpc, next_sem, panic>>
  <2>1. passed \in [Sem -> Nat] BY DEF Inv, TypeOK
  <2>2. passed' = [passed EXCEPT ![sem.id] = @ + n]
    <3>1. CASE wake BY <3>1 DEF Custom_1
    <3>2. CASE ~wake
      <4>1. passed' = passed /\ n = 0 BY <3>2 DEF Custom_1
      <4>2. passed[sem.id] + 0 = passed[sem.id] BY <1>2, <2>1
      <4> QED BY <2>1, <4>1, <4>2
    <3> QED BY <3>1, <3>2
  <2> QED BY <2>2 DEF Custom_1
<1>8. /\ sem_list' \in Seq(SemInfo) /\ Len(sem_list') = Len(sem_list)
      /\ sem_list'[i] = new
      /\ \A j \in 1..Len(sem_list) \ {i} : sem_list'[j] = sem_list[j]
      /\ Waits(sem_list') \in [1..Len(sem_list) -> Seq(Proc)]
      /\ Waits(sem_list')[i] = w2
      /\ \A j \in 1..Len(sem_list) \ {i} :
            Waits(sem_list')[j] = Waits(sem_list)[j]
  <2> HIDE DEF new, w2
  <2>1. /\ sem_list' \in Seq(SemInfo) /\ Len(sem_list') = Len(sem_list)
        /\ sem_list'[i] = new
        /\ \A j \in 1..Len(sem_list) \ {i} : sem_list'[j] = sem_list[j]
    BY <1>1, <1>4, <1>5
  <2> QED BY <1>1, <1>4, <2>1, SemChanged
<1>9. Housed(active_proc', ready_queue', 1..Len(sem_list'), Waits(sem_list'))
  <2>1. Housed(active_proc, ready_queue, 1..Len(sem_list), Waits(sem_list))
    BY DEF Inv
  <2> HIDE DEF n, w2
  <2> DEFINE V == Waits(sem_list')
             W == Waits(sem_list)
             D == 1..Len(sem_list)
  <2>3. /\ V \in [D -> Seq(Proc)] /\ i \in D /\ n \in 0..Len(W[i])
        /\ \A j \in D \ {i} : V[j] = W[j]
        /\ V[i] = SubSeq(W[i], n + 1, Len(W[i])) /\ W[i] = w
    BY <1>2, <1>3, <1>8 DEF w2
  <2>4. Housed(active_proc, ready_queue, D, W) BY <2>1
  <2> HIDE DEF V, W, D
  <2>5. Housed(active_proc, ready_queue \o SubSeq(W[i], 1, n), D, V)
    BY <2>3, <2>4, FirstWoken
  <2>2. Housed(active_proc, ready_queue \o SubSeq(w, 1, n),
               1..Len(sem_list), Waits(sem_list'))
    BY <2>3, <2>5 DEF D, V
  <2> QED BY <1>6, <1>7, <1>8, <2>2
<1>10. /\ new.id = sem.id /\ new.count = sem.count + 1
       /\ new.waiting = w2 /\ n \in {0, 1}
  OBVIOUS
<1> HIDE DEF new, n, w2, wake
<1>11. TypeOK'
  <2>1. signals' \in [Sem -> 0..MaxSignal]
    <3>1. signals \in [Sem -> 0..MaxSignal] BY DEF Inv, TypeOK
    <3>2. signals[sem.id] + 1 \in 0..MaxSignal
      BY <1>2, <1>7, <3>1, SemaphoreAssumption
    <3> HIDE DEF sem
    <3> QED BY <1>7, <3>1, <3>2
  <2>2. passed' \in [Sem -> Nat]
    <3>1. passed \in [Sem -> Nat] BY DEF Inv, TypeOK
    <3>2. passed[sem.id] + n \in Nat BY <1>2, <1>10, <3>1
    <3> HIDE DEF sem
    <3> QED BY <1>7, <3>1, <3>2
  <2>3. ready_queue' \in Seq(Proc) BY <1>9 DEF Housed
  <2> QED BY <1>7, <1>8, <2>1, <2>2, <2>3 DEF Inv, TypeOK, SemInfo
<1>12. \A j \in 1..Len(sem_list) :
          /\ sem_list'[j].id = sem_list[j].id /\ sem_list[j].id \in Sem
          /\ j # i => sem_list[j].id # sem.id
  BY <1>1, <1>8, <1>10, SemFacts DEF Inv, IdsInOrder
<1>13. IdsInOrder'
  <2>1. sem.id < next_sem BY DEF Inv, IdsInOrder
  <2>2. \A s \in Sem : s >= next_sem => s # sem.id
    <3>1. next_sem \in Nat BY DEF Inv, TypeOK
    <3> QED BY <1>2, <2>1, <3>1 DEF Sem
  <2>3. \A s \in Sem : s # sem.id => signals'[s] = signals[s] /\ passed'[s] = passed[s]
    BY <1>7 DEF Inv, TypeOK
  <2> QED BY <1>7, <1>8, <1>12, <2>2, <2>3 DEF Inv, IdsInOrder
<1>14. WaitersCounted'
  <2>1. Len(w2) = IF new.count < 0 THEN -new.count ELSE 0
    <3>1. n = 1 <=> Len(w) > 0
      <4>1. w # <<>> <=> Len(w) > 0 BY <1>2
      <4> QED BY <1>3, <4>1 DEF n
    <3> QED BY <1>2, <1>3, <1>10, <3>1, SMTT(30)
  <2> QED BY <1>8, <1>10, <2>1 DEF Inv, WaitersCounted
<1>15. Balance'
  <2>1. signals[sem.id] = passed[sem.id] + sem.count + Len(w)
    BY DEF Inv, Balance
  <2>2. signals[sem.id] \in Nat /\ passed[sem.id] \in Nat
    <3>1. signals \in [Sem -> 0..MaxSignal] /\ passed \in [Sem -> Nat]
      BY DEF Inv, TypeOK
    <3>2. sem.id \in Sem BY <1>2
    <3> HIDE DEF sem
    <3> QED BY <3>1, <3>2, SemaphoreAssumption
  <2>3. signals'[sem.id] = signals[sem.id] + 1 /\ passed'[sem.id] = passed[sem.id] + n
    BY <1>2, <1>7 DEF Inv, TypeOK
  <2>4. signals'[new.id] = passed'[new.id] + new.count + Len(new.waiting)
    <3>1. /\ signals'[new.id] = signals[sem.id] + 1
          /\ passed'[new.id] = passed[sem.id] + n
          /\ new.count = sem.count + 1
          /\ Len(new.waiting) = Len(w) - n
      BY <1>3, <1>10, <2>3
    <3>2. n \in Int /\ Len(w) \in Int /\ sem.count \in Int BY <1>2, <1>10
    <3> DEFINE l == Len(w)
    <3>3. l \in Int /\ signals[sem.id] = passed[sem.id] + sem.count + l
      BY <2>1, <3>2
    <3> HIDE DEF l
    <3>4. signals[sem.id] + 1 = (passed[sem.id] + n) + (sem.count + 1) + (l - n)
      BY <2>2, <3>2, <3>3, SMTT(30)
    <3> QED BY <3>1, <3>4, Zenon DEF l
  <2>5. \A j \in 1..Len(sem_list) \ {i} :
           /\ signals'[sem_list[j].id] = signals[sem_list[j].id]
           /\ passed'[sem_list[j].id] = passed[sem_list[j].id]
    BY <1>7, <1>12 DEF Inv, TypeOK
  <2>6. \A j \in 1..Len(sem_list) \ {i} :
           signals'[sem_list'[j].id] =
              passed'[sem_list'[j].id] + sem_list'[j].count
                + Len(sem_list'[j].waiting)
    BY <1>8, <2>5 DEF Inv, Balance
  <2> QED BY <1>8, <2>4, <2>6 DEF Balance
<1>16. InOrder(w, w2) BY <1>2, OrderKept DEF w2, wake
<1> QED BY <1>8, <1>9, <1>10, <1>11, <1>13, <1>14, <1>15, <1>16 DEF Inv

(* A wait takes what count holds, or joins those who wait. *)
LEMMA Custom_2Inv ==
    ASSUME Inv, NEW p \in Proc, NEW i \in 1..Len(sem_list), Custom_2(p, i)
    PROVE  /\ Inv'
           /\ InOrder(sem_list[i].waiting, sem_list'[i].waiting)
           /\ \A j \in 1..Len(sem_list) \ {i} : sem_list'[j] = sem_list[j]
<1> DEFINE sem == sem_list[i]
           w == sem.waiting
           block == MustBlock(sem.count - 1)
           w2 == IF block THEN Append(w, p) ELSE w
           n == IF block THEN 1 ELSE 0
           new == [id |-> sem.id, count |-> sem.count - 1, waiting |-> w2]
<1>1. sem_list \in Seq(SemInfo) BY DEF Inv, TypeOK, SemInfo
<1>2. /\ sem \in SemInfo /\ sem.id \in Sem /\ sem.count \in Int
      /\ w \in Seq(Proc) /\ w = Waits(sem_list)[i] /\ Len(w) \in Nat
  <2>1. w \in Seq(Proc) BY <1>1, SemFacts
  <2>2. Len(w) \in Nat BY <2>1
  <2> QED BY <1>1, <2>1, <2>2, SemFacts
<1>3. w2 \in Seq(Proc) /\ Len(w2) = Len(w) + n /\ sem.count - 1 \in Int
  <2>1. w2 \in Seq(Proc) /\ Len(w2) = Len(w) + n
    <3>1. Append(w, p) \in Seq(Proc) /\ Len(Append(w, p)) = Len(w) + 1
      BY <1>2
    <3>2. CASE block BY <3>1, <3>2
    <3>3. CASE ~block BY <1>2, <3>3
    <3> QED BY <3>2, <3>3
  <2>2. sem.count - 1 \in Int
    <3> HIDE DEF sem
    <3> QED BY <1>2
  <2> QED BY <2>1, <2>2
<1>4. new \in SemInfo /\ new.waiting = w2 BY <1>2, <1>3 DEF SemInfo
<1>5. sem_list' = [sem_list EXCEPT ![i] = new]
  <2>1. [sem EXCEPT !.count = sem.count - 1, !.waiting = w2] = new
    <3> HIDE DEF sem, w, w2
    <3> QED BY <1>2, <1>3, SemAssigned, Zenon
  <2>2. CASE block
    <3>1. sem_list' = [sem_list EXCEPT ![i].count = sem.count - 1,
                                       ![i].waiting = w2]
      BY <2>2, Zenon DEF Custom_2
    <3>2. sem_list' = [sem_list EXCEPT ![i] =
                         [sem EXCEPT !.count = sem.count - 1, !.waiting = w2]]
      BY <1>1, <3>1
    <3> QED BY <2>1, <3>2, Zenon
  <2>3. CASE ~block
    <3>1. sem_list' = [sem_list EXCEPT ![i] = [sem EXCEPT !.count = sem.count - 1]]
      BY <2>3 DEF Custom_2
    <3>2. w2 = w BY <2>3
    <3>3. [sem EXCEPT !.count = sem.count - 1] = new
      <4>1. new = [id |-> sem.id, count |-> sem.count - 1, waiting |-> sem.waiting]
        BY <3>2
      <4> HIDE DEF sem, new
      <4> QED BY <1>2, <4>1 DEF SemInfo
    <3> QED BY <3>1, <3>3, Zenon
  <2> QED BY <2>2, <2>3
<1>6. /\ active_proc = p /\ p # Idle
      /\ UNCHANGED <<kpc, next_sem, panic, signals>>
      /\ passed' = [passed EXCEPT ![sem.id] = @ + (1 - n)]
  <2>1. passed \in [Sem -> Nat] BY DEF Inv, TypeOK
  <2>2. passed' = [passed EXCEPT ![sem.id] = @ + (1 - n)]
    <3>1. CASE ~block
      <4>1. 1 - n = 1 /\ passed' = [passed EXCEPT ![sem.id] = @ + 1]
        BY <3>1 DEF Custom_2
      <4> QED BY <4>1, Zenon
    <3>2. CASE block
      <4>1. passed' = passed /\ 1 - n = 0 BY <3>2 DEF Custom_2
      <4>2. passed[sem.id] + 0 = passed[sem.id] BY <1>2, <2>1
      <4> QED BY <2>1, <4>1, <4>2
    <3> QED BY <3>1, <3>2
  <2> QED BY <2>2 DEF Custom_2, Calls, InUser
<1>7. /\ sem_list' \in Seq(SemInfo) /\ Len(sem_list') = Len(sem_list)
      /\ sem_list'[i] = new
      /\ \A j \in 1..Len(sem_list) \ {i} : sem_list'[j] = sem_list[j]
      /\ Waits(sem_list') \in [1..Len(sem_list) -> Seq(Proc)]
      /\ Waits(sem_list')[i] = w2
      /\ \A j \in 1..Len(sem_list) \ {i} :
            Waits(sem_list')[j] = Waits(sem_list)[j]
  <2> HIDE DEF new, w2
  <2>1. /\ sem_list' \in Seq(SemInfo) /\ Len(sem_list') = Len(sem_list)
        /\ sem_list'[i] = new
        /\ \A j \in 1..Len(sem_list) \ {i} : sem_list'[j] = sem_list[j]
    BY <1>1, <1>4, <1>5
  <2> QED BY <1>1, <1>4, <2>1, SemChanged
<1>8. Housed(active_proc', ready_queue', 1..Len(sem_list'), Waits(sem_list'))
  <2>1. Housed(active_proc, ready_queue, 1..Len(sem_list), Waits(sem_list))
    BY DEF Inv
  <2>2. CASE block
    <3>1. w2 = Append(Waits(sem_list)[i], active_proc) BY <1>2, <1>6, <2>2
    <3>2. normal_schedule(ready_queue, active_proc)
      BY <1>6, <2>2 DEF Custom_2
    <3> HIDE DEF w2
    <3>3. Waits(sem_list')[i] = Append(Waits(sem_list)[i], active_proc)
      BY <1>7, <3>1
    <3>4. active_proc # Idle BY <1>6
    <3>5. Joins(active_proc, i, 1..Len(sem_list), Waits(sem_list), Waits(sem_list'))
      BY <1>7, <3>3 DEF Joins
    <3>6. Housed(active_proc', ready_queue', 1..Len(sem_list), Waits(sem_list'))
      BY <2>1, <3>2, <3>4, <3>5, CallerBlocks
    <3> QED BY <1>7, <3>6
  <2>3. CASE ~block
    <3>1. UNCHANGED <<active_proc, ready_queue>>
      BY <2>3 DEF Custom_2, schedVars
    <3>2. \A j \in 1..Len(sem_list) : Waits(sem_list')[j] = Waits(sem_list)[j]
      BY <1>2, <1>7, <2>3
    <3>3. Waits(sem_list') = Waits(sem_list)
      BY <1>1, <1>7, <3>2, SemFacts
    <3> QED BY <1>7, <2>1, <3>1, <3>3
  <2> QED BY <2>2, <2>3
<1>9. /\ new.id = sem.id /\ new.count = sem.count - 1
      /\ new.waiting = w2 /\ n \in {0, 1}
  OBVIOUS
<1>10. n = 1 <=> sem.count - 1 < 0 BY DEF MustBlock
<1> HIDE DEF new, n, w2, block
<1>11. TypeOK'
  <2>1. passed' \in [Sem -> Nat]
    <3>1. passed \in [Sem -> Nat] BY DEF Inv, TypeOK
    <3>2. passed[sem.id] + (1 - n) \in Nat BY <1>2, <1>9, <3>1
    <3> HIDE DEF sem
    <3> QED BY <1>6, <3>1, <3>2
  <2>2. active_proc' \in Proc /\ ready_queue' \in Seq(Proc)
    BY <1>8 DEF Housed
  <2> QED BY <1>6, <1>7, <2>1, <2>2 DEF Inv, TypeOK, SemInfo
<1>12. \A j \in 1..Len(sem_list) :
          /\ sem_list'[j].id = sem_list[j].id /\ sem_list[j].id \in Sem
          /\ j # i => sem_list[j].id # sem.id
  BY <1>1, <1>7, <1>9, SemFacts DEF Inv, IdsInOrder
<1>13. IdsInOrder'
  <2>1. sem.id < next_sem BY DEF Inv, IdsInOrder
  <2>2. \A s \in Sem : s >= next_sem => s # sem.id
    <3>1. next_sem \in Nat BY DEF Inv, TypeOK
    <3> QED BY <1>2, <2>1, <3>1 DEF Sem
  <2>3. \A s \in Sem : s # sem.id => passed'[s] = passed[s]
    BY <1>6 DEF Inv, TypeOK
  <2> QED BY <1>6, <1>7, <1>12, <2>2, <2>3 DEF Inv, IdsInOrder
<1>14. WaitersCounted'
  <2>1. Len(w2) = IF new.count < 0 THEN -new.count ELSE 0
    <3> DEFINE l == Len(w)
    <3>1. l = IF sem.count < 0 THEN -sem.count ELSE 0
      BY DEF Inv, WaitersCounted
    <3>2. Len(w2) = l + n BY <1>3
    <3>3. /\ sem.count \in Int /\ l \in Int /\ n \in {0, 1}
          /\ new.count = sem.count - 1
      BY <1>2, <1>9
    <3> HIDE DEF l
    <3> QED BY <1>10, <3>1, <3>2, <3>3
  <2> QED BY <1>7, <1>9, <2>1 DEF Inv, WaitersCounted
<1>15. Balance'
  <2>1. signals'[new.id] = passed'[new.id] + new.count + Len(new.waiting)
    <3> DEFINE l == Len(w)
    <3>1. signals[sem.id] = passed[sem.id] + sem.count + l
      BY DEF Inv, Balance
    <3>2. passed[sem.id] \in Nat BY <1>2 DEF Inv, TypeOK
    <3>3. passed'[sem.id] = passed[sem.id] + (1 - n)
      BY <1>2, <1>6 DEF Inv, TypeOK
    <3>4. Len(new.waiting) = l + n BY <1>3, <1>9
    <3>5. l \in Int /\ sem.count \in Int /\ n \in Int BY <1>2, <1>9
    <3> HIDE DEF l, sem
    <3>6. signals[sem.id] = (passed[sem.id] + (1 - n)) + (sem.count - 1) + (l + n)
      BY <3>1, <3>2, <3>5, SMTT(30)
    <3> QED BY <1>6, <1>9, <3>3, <3>4, <3>6, Zenon
  <2>2. \A j \in 1..Len(sem_list) \ {i} :
           passed'[sem_list[j].id] = passed[sem_list[j].id]
    BY <1>6, <1>12 DEF Inv, TypeOK
  <2>3. \A j \in 1..Len(sem_list) \ {i} :
           signals'[sem_list'[j].id] =
              passed'[sem_list'[j].id] + sem_list'[j].count
                + Len(sem_list'[j].waiting)
    BY <1>6, <1>7, <2>2 DEF Inv, Balance
  <2> QED BY <1>7, <2>1, <2>3 DEF Balance
<1>16. InOrder(w, w2) BY <1>2, OrderKept DEF w2
<1> QED BY <1>7, <1>8, <1>9, <1>11, <1>13, <1>14, <1>15, <1>16 DEF Inv

LEMMA NextInv == Inv /\ [Next]_vars => Inv'
<1> SUFFICES ASSUME Inv, [Next]_vars PROVE Inv' OBVIOUS
<1>1. ASSUME NEW p \in Proc, Custom_0(p) PROVE Inv' BY <1>1, Custom_0Inv
<1>2. ASSUME NEW p \in Proc, Custom_0Fail(p) \/ NoSuchSem(p) PROVE Inv'
  BY <1>2, FailInv
<1>3. ASSUME NEW p \in Proc, NEW i \in 1..Len(sem_list), Custom_1(p, i)
      PROVE  Inv'
  BY <1>3, Custom_1Inv
<1>4. ASSUME NEW p \in Proc, NEW i \in 1..Len(sem_list), Custom_2(p, i)
      PROVE  Inv'
  BY <1>4, Custom_2Inv
<1>5. CASE Preempt /\ UNCHANGED semVars
  <2>1. UNCHANGED <<sem_list, next_sem, panic, signals, passed>>
    BY <1>5 DEF semVars
  <2>2. Housed(active_proc', ready_queue', 1..Len(sem_list), Waits(sem_list))
        /\ kpc' = kpc
    BY <1>5, Preempted DEF Inv
  <2>3. active_proc' \in Proc /\ ready_queue' \in Seq(Proc)
    BY <2>2 DEF Housed
  <2>4. TypeOK' BY <2>1, <2>2, <2>3 DEF Inv, TypeOK
  <2>5. IdsInOrder' /\ WaitersCounted' /\ Balance'
    BY <2>1 DEF Inv, IdsInOrder, WaitersCounted, Balance
  <2> QED BY <2>1, <2>2, <2>4, <2>5 DEF Inv
<1>6. CASE UNCHANGED vars
  <2>1. UNCHANGED <<active_proc, ready_queue, kpc, sem_list, next_sem, panic,
                    signals, passed>>
    BY <1>6 DEF vars, taskVars, schedVars, semVars
  <2>2. TypeOK' BY <2>1 DEF Inv, TypeOK
  <2>3. IdsInOrder' /\ WaitersCounted' /\ Balance'
    BY <2>1 DEF Inv, IdsInOrder, WaitersCounted, Balance
  <2> QED BY <2>1, <2>2, <2>3 DEF Inv
<1> QED BY <1>1, <1>2, <1>3, <1>4, <1>5, <1>6 DEF Next

LEMMA SpecInv == Spec => []Inv
<1>1. Init => Inv BY InitInv
<1>2. Inv /\ [Next]_vars => Inv' BY NextInv
<1> QED BY <1>1, <1>2, PTL DEF Spec

----------------------------------------------------------------------------
(* The kernel's variables keep their types, whatever fails. *)
THEOREM TypeCorrect == Spec => []TypeOK
<1>1. Inv => TypeOK BY DEF Inv
<1> QED BY <1>1, SpecInv, PTL

(* No process is lost or in two places while it waits for a semaphore, is
   woken or preempted. *)
THEOREM Residence == Spec => []SingleResidence
<1>1. Inv => SingleResidence
  <2> SUFFICES ASSUME Inv PROVE SingleResidence OBVIOUS
  <2>1. sem_list \in Seq(SemInfo) BY DEF Inv, TypeOK, SemInfo
  <2>2. \A i \in 1..Len(sem_list) : Waits(sem_list)[i] = sem_list[i].waiting
    BY <2>1, SemFacts
  <2>3. PlacesOK(UNION {On(Waits(sem_list)[i]) : i \in 1..Len(sem_list)})
    BY HousedPlaces DEF Inv
  <2>4. UNION {On(Waits(sem_list)[i]) : i \in 1..Len(sem_list)} = Blocked
    BY <2>2 DEF Blocked
  <2> QED BY <2>2, <2>3, <2>4 DEF Inv, Housed, SingleResidence
<1> QED BY <1>1, SpecInv, PTL

(* A negative count is the number of those who wait: the test of sem_signal
   on count and the one on the list never disagree. *)
THEOREM WaitersExact == Spec => []WaitersCounted
<1>1. Inv => WaitersCounted BY DEF Inv
<1> QED BY <1>1, SpecInv, PTL

(* A wait returns at most once for each signal, and nobody waits while a
   signal is left over. *)
THEOREM SignalsConserved == Spec => []OneReturnPerSignal
<1>1. Inv => OneReturnPerSignal
  <2> SUFFICES ASSUME Inv, NEW i \in 1..Len(sem_list)
               PROVE  /\ passed[sem_list[i].id] <= signals[sem_list[i].id]
                      /\ sem_list[i].waiting # <<>>
                           => passed[sem_list[i].id] = signals[sem_list[i].id]
    BY DEF OneReturnPerSignal
  <2> DEFINE sem == sem_list[i]
             l == Len(sem.waiting)
  <2>1. sem_list \in Seq(SemInfo) BY DEF Inv, TypeOK, SemInfo
  <2>2. sem.id \in Sem /\ sem.count \in Int /\ sem.waiting \in Seq(Proc)
    BY <2>1, SemFacts
  <2>3. l \in Nat /\ (sem.waiting # <<>> => l > 0) BY <2>2
  <2>4. signals[sem.id] = passed[sem.id] + sem.count + l
    BY DEF Inv, Balance
  <2>5. l = IF sem.count < 0 THEN -sem.count ELSE 0
    BY DEF Inv, WaitersCounted
  <2>6. passed[sem.id] \in Nat BY <2>2 DEF Inv, TypeOK
  <2> HIDE DEF l
  <2>7. sem.count + l >= 0 /\ (l > 0 => sem.count + l = 0)
    BY <2>2, <2>3, <2>5
  <2>8. signals[sem.id] = passed[sem.id] + (sem.count + l)
    BY <2>2, <2>3, <2>4, <2>6
  <2> QED BY <2>2, <2>3, <2>6, <2>7, <2>8
<1> QED BY <1>1, SpecInv, PTL

(* Whoever waits longest is woken first, in every step of the kernel. *)
THEOREM ServedInOrder == Spec => FirstComeFirstServed
<1> DEFINE P == \A i \in 1..Len(sem_list) :
                   InOrder(sem_list[i].waiting, sem_list'[i].waiting)
<1>1. ASSUME Inv, Next PROVE P
  <2>1. \A i \in 1..Len(sem_list) :
           InOrder(sem_list[i].waiting, sem_list[i].waiting)
    <3>1. sem_list \in Seq(SemInfo) BY <1>1 DEF Inv, TypeOK, SemInfo
    <3> QED BY <1>1, <3>1, SemFacts, OrderKept
  <2>2. ASSUME NEW p \in Proc, NEW i \in 1..Len(sem_list),
               Custom_1(p, i) \/ Custom_2(p, i)
        PROVE  P
    BY <1>1, <2>1, <2>2, Custom_1Inv, Custom_2Inv
  <2>3. ASSUME NEW p \in Proc, Custom_0(p) PROVE P
    <3>1. \A i \in 1..Len(sem_list) : sem_list'[i] = sem_list[i]
      BY <1>1, <2>3 DEF Custom_0, Inv, TypeOK
    <3> QED BY <2>1, <3>1
  <2>4. CASE UNCHANGED sem_list BY <2>1, <2>4
  <2> QED BY <1>1, <2>2, <2>3, <2>4
         DEF Next, Custom_0Fail, NoSuchSem, semVars
<1>2. Inv /\ [Next]_vars => [P]_vars BY <1>1
<1>3. P => \A i \in 1..Len(sem_list) :
             LET w == sem_list[i].waiting IN
             \A k, l \in 1..Len(w) :
                k < l /\ w[k] \in On(sem_list'[i].waiting)
                  => w[l] \in On(sem_list'[i].waiting)
  BY DEF InOrder
<1> QED BY <1>2, <1>3, SpecInv, PTL DEF Spec, FirstComeFirstServed
=============================================================================
