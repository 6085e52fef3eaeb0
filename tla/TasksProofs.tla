----------------------------- MODULE TasksProofs -----------------------------
(***************************************************************************)
(* What blocking, waking and preempting do to a fixed set of processes,    *)
(* whatever they wait for: the part of the residence proofs that           *)
(* semaphores, terminals, locks, condition variables and pipes share.      *)
(***************************************************************************)
EXTENDS Tasks, SchedulerProofs

\* Process a runs, q is the ready queue and W[i], for i in D, are the lists
\* of those who wait: everybody is in one of these places, once, and idle
\* never waits.
Housed(a, q, D, W) ==
    /\ a \in Proc /\ q \in Seq(Proc) /\ W \in [D -> Seq(Proc)]
    /\ NoDup(q) /\ a \notin On(q)
    /\ \A i \in D : /\ NoDup(W[i])
                    /\ a \notin On(W[i]) /\ Idle \notin On(W[i])
                    /\ On(q) \cap On(W[i]) = {}
    /\ \A i, j \in D : i # j => On(W[i]) \cap On(W[j]) = {}
    /\ \A p \in Proc : p = a \/ p \in On(q) \/ \E i \in D : p \in On(W[i])

(* idle is one of the processes. *)
LEMMA IdleIsProc == Idle \in Proc
  BY LastPidAssumption DEF Idle, Proc

(* That is what the modules call being in one place. *)
LEMMA HousedPlaces ==
    ASSUME NEW D, NEW W, Housed(active_proc, ready_queue, D, W)
    PROVE  PlacesOK(UNION {On(W[i]) : i \in D})
<1> DEFINE B == UNION {On(W[i]) : i \in D}
<1>1. \A p : p \in B <=> \E i \in D : p \in On(W[i]) OBVIOUS
<1>2. \A s \in Seq(Proc) : On(s) \subseteq Proc BY DEF On
<1>3. B \subseteq Proc /\ On(ready_queue) \subseteq Proc
  BY <1>1, <1>2 DEF Housed
<1>4. active_proc \notin B /\ Idle \notin B /\ On(ready_queue) \cap B = {}
  BY <1>1 DEF Housed
<1>5. Proc = {active_proc} \cup On(ready_queue) \cup B
  BY <1>1, <1>3 DEF Housed
<1> QED BY <1>4, <1>5 DEF PlacesOK, Housed

(* What init finds when it starts: the others are ready, in order. *)
LEMMA InitHoused ==
    ASSUME TasksInit, NEW D, NEW W \in [D -> {<<>>}]
    PROVE  Housed(active_proc, ready_queue, D, W)
<1>1. LastPid \in Nat /\ LastPid >= 2 BY LastPidAssumption
<1>2. /\ active_proc = 0 /\ active_proc \in Proc
      /\ ready_queue = [i \in 1..LastPid |-> i]
  BY <1>1 DEF TasksInit, InitPid, Proc
<1>3. ready_queue \in Seq(Proc) /\ Len(ready_queue) = LastPid
  BY <1>1, <1>2 DEF Proc
<1>4. On(ready_queue) = 1..LastPid /\ NoDup(ready_queue)
  BY <1>2, <1>3 DEF On, NoDup
<1>5. \A i \in D : W[i] = <<>> /\ On(W[i]) = {} /\ NoDup(W[i])
  BY OnEmpty
<1>6. W \in [D -> Seq(Proc)]
  <2>1. <<>> \in Seq(Proc) OBVIOUS
  <2> QED BY <2>1
<1>7. \A p \in Proc : p = 0 \/ p \in 1..LastPid BY <1>1 DEF Proc
<1>8. 0 \notin 1..LastPid OBVIOUS
<1> QED BY <1>2, <1>3, <1>4, <1>5, <1>6, <1>7, <1>8 DEF Housed

(* A list nobody waits on comes into being or goes. *)
LEMMA ListAdded ==
    ASSUME NEW a, NEW q, NEW D, NEW W, Housed(a, q, D, W),
           NEW E, NEW V \in [E -> Seq(Proc)], D \subseteq E,
           \A i \in D : V[i] = W[i],
           \A i \in E \ D : V[i] = <<>>
    PROVE  Housed(a, q, E, V)
<1>1. \A i \in E \ D : On(V[i]) = {} /\ NoDup(V[i]) BY OnEmpty
<1>2. ASSUME NEW i \in E
      PROVE  /\ NoDup(V[i]) /\ a \notin On(V[i]) /\ Idle \notin On(V[i])
             /\ On(q) \cap On(V[i]) = {}
  BY <1>1 DEF Housed
<1>3. ASSUME NEW i \in E, NEW j \in E, i # j
      PROVE  On(V[i]) \cap On(V[j]) = {}
  BY <1>1, <1>3 DEF Housed
<1>4. ASSUME NEW p \in Proc
      PROVE  p = a \/ p \in On(q) \/ \E i \in E : p \in On(V[i])
  BY DEF Housed
<1> QED BY <1>2, <1>3, <1>4 DEF Housed

(* Some of those on one list become ready. *)
LEMMA SomeWoken ==
    ASSUME NEW a, NEW q, NEW D, NEW W, Housed(a, q, D, W),
           NEW r \in Seq(Proc), NEW V \in [D -> Seq(Proc)], NEW o \in D,
           NoDup(r), NoDup(V[o]),
           \A i \in D \ {o} : V[i] = W[i],
           NEW A, On(W[o]) = A \cup On(V[o]), A \cap On(V[o]) = {},
           On(r) = On(q) \cup A
    PROVE  Housed(a, r, D, V)
<1>1. ASSUME NEW i \in D
      PROVE  /\ NoDup(V[i]) /\ a \notin On(V[i]) /\ Idle \notin On(V[i])
             /\ On(r) \cap On(V[i]) = {}
  <2>1. CASE i = o BY <2>1 DEF Housed
  <2>2. CASE i # o
    <3>1. V[i] = W[i] /\ On(W[o]) \cap On(W[i]) = {} BY <2>2 DEF Housed
    <3> QED BY <3>1 DEF Housed
  <2> QED BY <2>1, <2>2
<1>2. ASSUME NEW i \in D, NEW j \in D, i # j
      PROVE  On(V[i]) \cap On(V[j]) = {}
  <2>1. On(V[i]) \subseteq On(W[i]) /\ On(V[j]) \subseteq On(W[j]) OBVIOUS
  <2> QED BY <1>2, <2>1 DEF Housed
<1>3. ASSUME NEW p \in Proc
      PROVE  p = a \/ p \in On(r) \/ \E i \in D : p \in On(V[i])
  <2>1. ASSUME NEW i \in D, p \in On(W[i])
        PROVE  p \in On(r) \/ \E k \in D : p \in On(V[k])
    BY <2>1
  <2> QED BY <2>1 DEF Housed
<1>4. a \notin On(r) BY DEF Housed
<1> QED BY <1>1, <1>2, <1>3, <1>4 DEF Housed

(* The first n of those who wait become ready, in their order. *)
LEMMA FirstWoken ==
    ASSUME NEW a, NEW q, NEW D, NEW W, Housed(a, q, D, W),
           NEW V \in [D -> Seq(Proc)], NEW o \in D, NEW n \in 0..Len(W[o]),
           \A i \in D \ {o} : V[i] = W[i],
           V[o] = SubSeq(W[o], n + 1, Len(W[o]))
    PROVE  Housed(a, q \o SubSeq(W[o], 1, n), D, V)
<1> DEFINE w == W[o]
           h == SubSeq(w, 1, n)
           t == SubSeq(w, n + 1, Len(w))
<1>1. w \in Seq(Proc) /\ NoDup(w) /\ q \in Seq(Proc) /\ NoDup(q)
      /\ On(q) \cap On(w) = {}
  BY DEF Housed
<1>2. /\ h \in Seq(Proc) /\ NoDup(h) /\ t \in Seq(Proc) /\ NoDup(t)
      /\ On(h) \cup On(t) = On(w) /\ On(h) \cap On(t) = {}
  BY <1>1, SplitFacts
<1>3. V[o] = t OBVIOUS
<1> HIDE DEF h, t
<1>4. /\ q \o h \in Seq(Proc) /\ NoDup(q \o h)
      /\ On(q \o h) = On(q) \cup On(h)
  BY <1>1, <1>2, ConcatFacts
<1>5. Housed(a, q \o h, D, V)
  BY <1>2, <1>3, <1>4, SomeWoken
<1> QED BY <1>5 DEF h

(* One process goes from list o to list k. *)
LEMMA OneMoves ==
    ASSUME NEW a, NEW q, NEW D, NEW W, Housed(a, q, D, W),
           NEW V \in [D -> Seq(Proc)], NEW o \in D, NEW k \in D, o # k,
           \A i \in D \ {o, k} : V[i] = W[i],
           NoDup(V[o]), NoDup(V[k]),
           NEW x, x \in On(W[o]),
           On(V[o]) = On(W[o]) \ {x}, On(V[k]) = On(W[k]) \cup {x}
    PROVE  Housed(a, q, D, V)
<1>1. /\ a # x /\ x # Idle /\ x \notin On(q)
      /\ \A i \in D \ {o} : x \notin On(W[i])
  BY DEF Housed
<1>2. \A i \in D : On(V[i]) \ {x} = On(W[i]) \ {x}
  <2>1. \A i \in D : i = o \/ i = k \/ V[i] = W[i] OBVIOUS
  <2> QED BY <2>1
<1>3. \A i \in D \ {k} : x \notin On(V[i])
  <2>1. \A i \in D \ {k} : i = o \/ V[i] = W[i] OBVIOUS
  <2> QED BY <1>1, <2>1
<1>4. ASSUME NEW i \in D
      PROVE  /\ NoDup(V[i]) /\ a \notin On(V[i]) /\ Idle \notin On(V[i])
             /\ On(q) \cap On(V[i]) = {}
  <2>1. NoDup(V[i])
    <3>1. i = o \/ i = k \/ V[i] = W[i] OBVIOUS
    <3> QED BY <3>1 DEF Housed
  <2>2. /\ a \notin On(W[i]) /\ Idle \notin On(W[i])
        /\ On(q) \cap On(W[i]) = {}
    BY DEF Housed
  <2>3. On(V[i]) \ {x} = On(W[i]) \ {x} BY <1>2
  <2> QED BY <1>1, <2>1, <2>2, <2>3
<1>5. ASSUME NEW i \in D, NEW j \in D, i # j
      PROVE  On(V[i]) \cap On(V[j]) = {}
  <2>1. On(W[i]) \cap On(W[j]) = {} BY <1>5 DEF Housed
  <2>2. On(V[i]) \ {x} = On(W[i]) \ {x} /\ On(V[j]) \ {x} = On(W[j]) \ {x}
    BY <1>2
  <2>3. x \notin On(V[i]) \/ x \notin On(V[j]) BY <1>3, <1>5
  <2> QED BY <2>1, <2>2, <2>3
<1>6. ASSUME NEW y \in Proc
      PROVE  y = a \/ y \in On(q) \/ \E i \in D : y \in On(V[i])
  <2>1. CASE y = x BY <2>1
  <2>2. ASSUME NEW i \in D, y \in On(W[i]), y # x PROVE y \in On(V[i])
    BY <1>2, <2>2
  <2> QED BY <2>1, <2>2 DEF Housed
<1> QED BY <1>4, <1>5, <1>6 DEF Housed

\* p is added to the end of list o.
Joins(p, o, D, W, V) ==
    /\ V \in [D -> Seq(Proc)] /\ o \in D
    /\ \A i \in D \ {o} : V[i] = W[i]
    /\ V[o] = Append(W[o], p)

(* The process that runs, never idle, waits and gives up the processor:
   idle is ready, so normal_schedule finds somebody. *)
LEMMA CallerBlocks ==
    ASSUME NEW q, NEW D, NEW W, Housed(active_proc, q, D, W),
           active_proc # Idle, normal_schedule(q, active_proc),
           NEW V, NEW o, Joins(active_proc, o, D, W, V)
    PROVE  /\ Housed(active_proc', ready_queue', D, V)
           /\ active_proc' \in On(q) /\ On(ready_queue') = On(q) \ {active_proc'}
<1> USE DEF Joins
<1> DEFINE p == active_proc
<1>1. /\ q \in Seq(Proc) /\ NoDup(q) /\ Idle \in On(q) /\ p \notin On(q)
      /\ W[o] \in Seq(Proc) /\ NoDup(W[o]) /\ p \notin On(W[o]) /\ p \in Proc
  BY IdleIsProc DEF Housed
<1>2. q # <<>> BY <1>1, OnEmpty
<1>3. Dispatch(q) BY <1>2 DEF normal_schedule
<1>4. /\ active_proc' \in Proc /\ active_proc' \in On(q)
      /\ ready_queue' \in Seq(Proc) /\ NoDup(ready_queue')
      /\ On(ready_queue') = On(q) \ {active_proc'}
  BY <1>1, <1>2, <1>3, DispatchFacts
<1>5. NoDup(V[o]) /\ On(V[o]) = On(W[o]) \cup {p}
  BY <1>1, AppendFacts
<1>6. ASSUME NEW i \in D
      PROVE  /\ NoDup(V[i])
             /\ active_proc' \notin On(V[i]) /\ Idle \notin On(V[i])
             /\ On(ready_queue') \cap On(V[i]) = {}
  <2>1. CASE i = o
    <3>1. Idle \notin On(W[o]) /\ On(q) \cap On(W[o]) = {} BY DEF Housed
    <3> QED BY <1>1, <1>4, <1>5, <2>1, <3>1
  <2>2. CASE i # o BY <1>4, <2>2 DEF Housed
  <2> QED BY <2>1, <2>2
<1>7. ASSUME NEW i \in D, NEW j \in D, i # j
      PROVE  On(V[i]) \cap On(V[j]) = {}
  <2>1. \A k \in D : p \notin On(W[k]) BY DEF Housed
  <2>2. On(W[i]) \cap On(W[j]) = {} BY <1>7 DEF Housed
  <2>3. CASE i = o
    <3>1. V[j] = W[j] BY <1>7, <2>3
    <3> QED BY <1>5, <2>1, <2>2, <2>3, <3>1
  <2>4. CASE j = o
    <3>1. V[i] = W[i] BY <1>7, <2>4
    <3> QED BY <1>5, <2>1, <2>2, <2>4, <3>1
  <2>5. CASE i # o /\ j # o
    <3>1. V[i] = W[i] /\ V[j] = W[j] BY <2>5
    <3> QED BY <2>2, <3>1
  <2> QED BY <2>3, <2>4, <2>5
<1>8. ASSUME NEW x \in Proc
      PROVE  \/ x = active_proc' \/ x \in On(ready_queue')
             \/ \E i \in D : x \in On(V[i])
  <2>1. CASE x = p BY <1>5, <2>1
  <2>2. CASE x \in On(q) BY <1>4, <2>2
  <2>3. ASSUME NEW i \in D, x \in On(W[i]) PROVE x \in On(V[i])
    BY <1>5, <2>3
  <2> QED BY <2>1, <2>2, <2>3 DEF Housed
<1> QED BY <1>4, <1>6, <1>7, <1>8 DEF Housed

(* A clock interrupt moves nobody but the one that runs and the one that
   runs next. *)
LEMMA Preempted ==
    ASSUME NEW D, NEW W, Housed(active_proc, ready_queue, D, W), Preempt
    PROVE  /\ Housed(active_proc', ready_queue', D, W)
           /\ kpc' = kpc
           /\ On(ready_queue') \cup {active_proc'} = On(ready_queue) \cup {active_proc}
<1>1. do_scheduler /\ kpc' = kpc BY DEF Preempt
<1>2. CASE ready_queue = <<>>
  BY <1>1, <1>2 DEF do_scheduler, schedVars
<1>3. CASE ready_queue # <<>>
  <2> DEFINE q == Append(ready_queue, active_proc)
  <2>1. Dispatch(q) BY <1>1, <1>3 DEF do_scheduler
  <2>2. /\ ready_queue \in Seq(Proc) /\ active_proc \in Proc
        /\ NoDup(ready_queue) /\ active_proc \notin On(ready_queue)
    BY DEF Housed
  <2>3. /\ q \in Seq(Proc) /\ NoDup(q)
        /\ On(q) = On(ready_queue) \cup {active_proc}
    BY <2>2, AppendFacts
  <2> HIDE DEF q
  <2>4. q # <<>> BY <2>3, OnEmpty
  <2>5. /\ active_proc' \in Proc /\ active_proc' \in On(q)
        /\ ready_queue' \in Seq(Proc) /\ NoDup(ready_queue')
        /\ On(ready_queue') = On(q) \ {active_proc'}
    BY <2>1, <2>3, <2>4, DispatchFacts
  <2>6. ASSUME NEW i \in D
        PROVE  /\ active_proc' \notin On(W[i])
               /\ On(ready_queue') \cap On(W[i]) = {}
    BY <2>3, <2>5 DEF Housed
  <2>7. On(ready_queue') \cup {active_proc'} = On(ready_queue) \cup {active_proc}
    BY <2>3, <2>5
  <2>8. \A p \in Proc : \/ p = active_proc' \/ p \in On(ready_queue')
                        \/ \E i \in D : p \in On(W[i])
    BY <2>7 DEF Housed
  <2>9. Housed(active_proc', ready_queue', D, W)
    BY <2>5, <2>6, <2>8 DEF Housed
  <2> QED BY <1>1, <2>7, <2>9
<1> QED BY <1>2, <1>3

----------------------------------------------------------------------------
(* The same where those who wait are in lists that structures of the kernel
   hold: semaphores, locks, condition variables and pipes. *)

\* The lists of those who wait.
Waits(sl) == [i \in 1..Len(sl) |-> sl[i].waiting]

Waiters(sl) == \A i \in 1..Len(sl) : sl[i].waiting \in Seq(Proc)

LEMMA WaitsFacts ==
    ASSUME NEW sl, Waiters(sl)
    PROVE  /\ Waits(sl) \in [1..Len(sl) -> Seq(Proc)]
           /\ \A i \in 1..Len(sl) : Waits(sl)[i] = sl[i].waiting
  BY DEF Waits, Waiters

(* Nobody waits for a structure that is new. *)
LEMMA NewAt ==
    ASSUME NEW a, NEW q, NEW sl, NEW new,
           Housed(a, q, 1..Len(sl), Waits(sl)), Waiters(sl), Waiters(new),
           Len(sl) \in Nat, Len(new) = Len(sl) + 1,
           \A i \in 1..Len(sl) : new[i].waiting = sl[i].waiting,
           new[Len(sl) + 1].waiting = <<>>
    PROVE  Housed(a, q, 1..Len(new), Waits(new))
<1>1. /\ Waits(new) \in [1..Len(new) -> Seq(Proc)]
      /\ \A i \in 1..Len(new) : Waits(new)[i] = new[i].waiting
      /\ \A i \in 1..Len(sl) : Waits(sl)[i] = sl[i].waiting
  BY WaitsFacts
<1>2. /\ 1..Len(sl) \subseteq 1..Len(new)
      /\ \A i \in 1..Len(new) \ 1..Len(sl) : i = Len(sl) + 1
  OBVIOUS
<1>3. /\ \A i \in 1..Len(sl) : Waits(new)[i] = Waits(sl)[i]
      /\ \A i \in 1..Len(new) \ 1..Len(sl) : Waits(new)[i] = <<>>
  BY <1>1, <1>2
<1> DEFINE D == 1..Len(sl)
           E == 1..Len(new)
           V == Waits(new)
           W == Waits(sl)
<1>4. /\ Housed(a, q, D, W) /\ V \in [E -> Seq(Proc)] /\ D \subseteq E
      /\ \A i \in D : V[i] = W[i]
      /\ \A i \in E \ D : V[i] = <<>>
  BY <1>1, <1>2, <1>3
<1> HIDE DEF D, E, V, W
<1>5. Housed(a, q, E, V) BY <1>4, ListAdded
<1> QED BY <1>5 DEF E, V

(* The first n that wait at o become ready. *)
LEMMA WokenAt ==
    ASSUME NEW a, NEW q, NEW sl, NEW new,
           Housed(a, q, 1..Len(sl), Waits(sl)), Waiters(sl), Waiters(new),
           Len(new) = Len(sl), NEW o \in 1..Len(sl),
           \A i \in 1..Len(sl) \ {o} : new[i].waiting = sl[i].waiting,
           NEW n \in 0..Len(sl[o].waiting),
           new[o].waiting = SubSeq(sl[o].waiting, n + 1, Len(sl[o].waiting))
    PROVE  Housed(a, q \o SubSeq(sl[o].waiting, 1, n), 1..Len(new), Waits(new))
<1>1. /\ Waits(new) \in [1..Len(sl) -> Seq(Proc)]
      /\ \A i \in 1..Len(sl) : Waits(new)[i] = new[i].waiting
      /\ \A i \in 1..Len(sl) : Waits(sl)[i] = sl[i].waiting
  BY WaitsFacts
<1>2. \A i \in 1..Len(sl) \ {o} : Waits(new)[i] = Waits(sl)[i] BY <1>1
<1> DEFINE V == Waits(new)
           W == Waits(sl)
<1>3. /\ V[o] = SubSeq(W[o], n + 1, Len(W[o])) /\ n \in 0..Len(W[o])
      /\ W[o] = sl[o].waiting
  BY <1>1
<1> HIDE DEF V, W
<1>4. Housed(a, q \o SubSeq(W[o], 1, n), 1..Len(sl), V)
  <2>1. /\ V \in [1..Len(sl) -> Seq(Proc)] /\ Housed(a, q, 1..Len(sl), W)
        /\ \A i \in 1..Len(sl) \ {o} : V[i] = W[i]
    BY <1>1, <1>2 DEF V, W
  <2> QED BY <1>3, <2>1, FirstWoken
<1> QED BY <1>3, <1>4 DEF V

(* The process that runs waits at o. *)
LEMMA BlocksAt ==
    ASSUME NEW q, NEW sl, NEW new,
           Housed(active_proc, q, 1..Len(sl), Waits(sl)),
           Waiters(sl), Waiters(new),
           active_proc # Idle, normal_schedule(q, active_proc),
           Len(new) = Len(sl), NEW o \in 1..Len(sl),
           \A i \in 1..Len(sl) \ {o} : new[i].waiting = sl[i].waiting,
           new[o].waiting = Append(sl[o].waiting, active_proc)
    PROVE  /\ Housed(active_proc', ready_queue', 1..Len(new), Waits(new))
           /\ On(ready_queue') \cup {active_proc'} = On(q)
<1> DEFINE V == Waits(new)
           W == Waits(sl)
<1>1. /\ V \in [1..Len(sl) -> Seq(Proc)]
      /\ \A i \in 1..Len(sl) : V[i] = new[i].waiting
      /\ \A i \in 1..Len(sl) : W[i] = sl[i].waiting
  BY WaitsFacts
<1>2. /\ \A i \in 1..Len(sl) \ {o} : V[i] = W[i]
      /\ V[o] = Append(W[o], active_proc)
  BY <1>1
<1>3. Housed(active_proc, q, 1..Len(sl), W) OBVIOUS
<1>4. Joins(active_proc, o, 1..Len(sl), W, V) BY <1>1, <1>2 DEF Joins
<1> HIDE DEF V, W
<1>5. /\ Housed(active_proc', ready_queue', 1..Len(sl), V)
      /\ active_proc' \in On(q) /\ On(ready_queue') = On(q) \ {active_proc'}
  BY <1>3, <1>4, CallerBlocks
<1> QED BY <1>5 DEF V

(* One place for everybody, as the modules about such structures say it. *)
LEMMA HousedAt ==
    ASSUME NEW sl, Housed(active_proc, ready_queue, 1..Len(sl), Waits(sl)),
           Waiters(sl)
    PROVE  /\ PlacesOK(UNION {On(sl[o].waiting) : o \in 1..Len(sl)})
           /\ \A o \in 1..Len(sl) : NoDup(sl[o].waiting)
           /\ \A o, q \in 1..Len(sl) :
                 o # q => On(sl[o].waiting) \cap On(sl[q].waiting) = {}
<1> DEFINE W == Waits(sl)
<1>1. \A i \in 1..Len(sl) : W[i] = sl[i].waiting BY WaitsFacts
<1>2. UNION {On(W[i]) : i \in 1..Len(sl)}
        = UNION {On(sl[o].waiting) : o \in 1..Len(sl)}
  BY <1>1
<1>3. PlacesOK(UNION {On(W[i]) : i \in 1..Len(sl)}) BY HousedPlaces
<1>4. PlacesOK(UNION {On(sl[o].waiting) : o \in 1..Len(sl)})
  BY <1>2, <1>3
<1>5. /\ \A i \in 1..Len(sl) : NoDup(W[i])
      /\ \A i, j \in 1..Len(sl) : i # j => On(W[i]) \cap On(W[j]) = {}
  BY DEF Housed
<1> QED BY <1>1, <1>4, <1>5
=============================================================================
