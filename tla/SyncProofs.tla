------------------------------ MODULE SyncProofs ------------------------------
(***************************************************************************)
(* The safety of locks and condition variables, for any number of          *)
(* processes and structures, with everything that Reclaim frees too early. *)
(***************************************************************************)
EXTENDS Sync, TasksProofs

\* The lists of locks and of condition variables hold each structure once
\* and none that is freed; what can be reclaimed was allocated.
ListsOK ==
    /\ NoDup(lock_list) /\ NoDup(cvar_list)
    /\ \A o \in On(lock_list) : info[o].type = Lock /\ ~info[o].freed
    /\ \A o \in On(cvar_list) : info[o].type = Cvar /\ ~info[o].freed
    /\ Len(reclaim_list) <= Len(info)

\* A call of sys_Acquire that goes on works on a lock, and looks for the id
\* of that lock as long as it is on the list.
FramesOK ==
    \A p \in Proc : kpc[p] = "acquire" =>
        /\ on[p].l \in 1..Len(info) /\ info[on[p].l].type = Lock
        /\ on[p].l \in On(lock_list) => args[p].lock = info[on[p].l].id

\* Whoever waits for a lock on the list is inside sys_Acquire with it.
WaitersAcquire ==
    \A o \in On(lock_list) : \A p \in On(info[o].waiting) :
        kpc[p] = "acquire" /\ on[p].l = o

\* Only locks are held.
HoldsLocks == \A p \in Proc : \A o \in holds[p] : info[o].type = Lock

\* idle makes no call.
IdleInUser == kpc[Idle] = "user"

\* Those who wait for a structure, by its number, and those on no list.
Places(in, l) ==
    [i \in 0..Len(in) |-> IF i = 0 THEN l ELSE in[i].waiting]

\* The inductive invariant.
Inv ==
    /\ TypeOK
    /\ Housed(active_proc, ready_queue, 0..Len(info), Places(info, lost))
    /\ ListsOK /\ FramesOK /\ WaitersAcquire /\ HoldsLocks /\ IdleInUser
    /\ MutualExclusion
    /\ WakeupOnTheWay

----------------------------------------------------------------------------
(* The structures *)

LEMMA InfoFacts ==
    ASSUME NEW in \in Seq(Info)
    PROVE  /\ Len(in) \in Nat
           /\ \A o \in 1..Len(in) :
                 /\ in[o] \in Info /\ in[o].type \in {Lock, Cvar}
                 /\ in[o].id \in 0..MaxObj /\ in[o].locked \in {0, 1}
                 /\ in[o].pid \in Proc /\ in[o].waiting \in Seq(Proc)
<1>1. \A o \in 1..Len(in) : in[o] \in Info OBVIOUS
<1>2. ASSUME NEW r \in Info
      PROVE  /\ r.type \in {Lock, Cvar} /\ r.id \in 0..MaxObj
             /\ r.locked \in {0, 1} /\ r.pid \in Proc
             /\ r.waiting \in Seq(Proc)
  BY DEF Info
<1> QED BY <1>1, <1>2

(* Where the processes are when those in l are on no list. *)
LEMMA PlacesFacts ==
    ASSUME NEW in \in Seq(Info), NEW a, NEW q, NEW l,
           Housed(a, q, 0..Len(in), Places(in, l))
    PROVE  /\ l \in Seq(Proc) /\ Places(in, l) \in [0..Len(in) -> Seq(Proc)]
           /\ Places(in, l)[0] = l
           /\ \A i \in 1..Len(in) : Places(in, l)[i] = in[i].waiting
           /\ 0 \in 0..Len(in) /\ 0 \notin 1..Len(in)
           /\ \A i \in 0..Len(in) : i = 0 \/ i \in 1..Len(in)
           /\ \A i \in 1..Len(in) : i \in 0..Len(in) /\ i # 0
<1>1. Len(in) \in Nat OBVIOUS
<1>2. /\ 0 \in 0..Len(in) /\ 0 \notin 1..Len(in)
      /\ \A i \in 0..Len(in) : i = 0 \/ i \in 1..Len(in)
      /\ \A i \in 1..Len(in) : i \in 0..Len(in) /\ i # 0
  BY <1>1
<1>3. Places(in, l) \in [0..Len(in) -> Seq(Proc)] BY DEF Housed
<1>4. /\ Places(in, l)[0] = l
      /\ \A i \in 1..Len(in) : Places(in, l)[i] = in[i].waiting
  BY <1>2 DEF Places
<1> QED BY <1>2, <1>3, <1>4

(* The places after a change of the structures and of l. *)
LEMMA PlacesOf ==
    ASSUME NEW in \in Seq(Info), NEW l \in Seq(Proc)
    PROVE  /\ Places(in, l) \in [0..Len(in) -> Seq(Proc)]
           /\ Places(in, l)[0] = l
           /\ \A i \in 1..Len(in) : Places(in, l)[i] = in[i].waiting
<1>1. Len(in) \in Nat /\ \A i \in 1..Len(in) : in[i].waiting \in Seq(Proc)
  BY InfoFacts
<1>2. /\ \A i \in 0..Len(in) : i = 0 \/ i \in 1..Len(in)
      /\ \A i \in 1..Len(in) : i \in 0..Len(in) /\ i # 0
      /\ 0 \in 0..Len(in)
  BY <1>1
<1> QED BY <1>1, <1>2 DEF Places

(* Nobody waits for a structure that is new. *)
LEMMA NewPlace ==
    ASSUME NEW in \in Seq(Info), NEW new \in Seq(Info), NEW a, NEW q, NEW l,
           Housed(a, q, 0..Len(in), Places(in, l)),
           Len(new) = Len(in) + 1,
           \A i \in 1..Len(in) : new[i].waiting = in[i].waiting,
           new[Len(in) + 1].waiting = <<>>
    PROVE  Housed(a, q, 0..Len(new), Places(new, l))
<1> DEFINE W == Places(in, l)
           V == Places(new, l)
           D == 0..Len(in)
           E == 0..Len(new)
<1>1. /\ l \in Seq(Proc) /\ W[0] = l
      /\ \A i \in 1..Len(in) : W[i] = in[i].waiting
      /\ \A i \in D : i = 0 \/ i \in 1..Len(in)
  BY PlacesFacts
<1>2. /\ V \in [E -> Seq(Proc)] /\ V[0] = l
      /\ \A i \in 1..Len(new) : V[i] = new[i].waiting
  BY <1>1, PlacesOf
<1>3. /\ D \subseteq E /\ 1..Len(in) \subseteq 1..Len(new)
      /\ Len(in) + 1 \in 1..Len(new)
      /\ \A i \in E \ D : i = Len(in) + 1
  OBVIOUS
<1>4. /\ \A i \in D : V[i] = W[i]
      /\ \A i \in E \ D : V[i] = <<>>
  BY <1>1, <1>2, <1>3
<1>5. Housed(a, q, D, W) OBVIOUS
<1> HIDE DEF D, E, V, W
<1>6. Housed(a, q, E, V) BY <1>2, <1>3, <1>4, <1>5, ListAdded
<1> QED BY <1>6 DEF E, V

(* Something else about the structures changed. *)
LEMMA SamePlaces ==
    ASSUME NEW in, NEW new, NEW a, NEW q, NEW l,
           Housed(a, q, 0..Len(in), Places(in, l)), Len(new) = Len(in),
           Len(in) \in Nat,
           \A i \in 1..Len(in) : new[i].waiting = in[i].waiting
    PROVE  Housed(a, q, 0..Len(new), Places(new, l))
<1>1. \A i \in 0..Len(in) : i = 0 \/ i \in 1..Len(in) OBVIOUS
<1>2. Places(new, l) = Places(in, l) BY <1>1 DEF Places
<1> QED BY <1>2

(* The first n that wait for o become ready. *)
LEMMA WokenPlaces ==
    ASSUME NEW in \in Seq(Info), NEW new \in Seq(Info), NEW a, NEW q, NEW l,
           Housed(a, q, 0..Len(in), Places(in, l)),
           Len(new) = Len(in), NEW o \in 1..Len(in),
           \A i \in 1..Len(in) \ {o} : new[i].waiting = in[i].waiting,
           NEW n \in 0..Len(in[o].waiting),
           new[o].waiting = SubSeq(in[o].waiting, n + 1, Len(in[o].waiting))
    PROVE  Housed(a, q \o SubSeq(in[o].waiting, 1, n), 0..Len(new), Places(new, l))
<1> DEFINE W == Places(in, l)
           V == Places(new, l)
           D == 0..Len(in)
<1>1. /\ l \in Seq(Proc) /\ W[0] = l
      /\ \A i \in 1..Len(in) : W[i] = in[i].waiting
      /\ \A i \in D : i = 0 \/ i \in 1..Len(in)
      /\ o \in D /\ o # 0
  BY PlacesFacts
<1>2. /\ V \in [D -> Seq(Proc)] /\ V[0] = l
      /\ \A i \in 1..Len(in) : V[i] = new[i].waiting
  BY <1>1, PlacesOf
<1>3. /\ W[o] = in[o].waiting /\ n \in 0..Len(W[o])
      /\ V[o] = SubSeq(W[o], n + 1, Len(W[o]))
      /\ \A i \in D \ {o} : V[i] = W[i]
  BY <1>1, <1>2
<1>4. Housed(a, q, D, W) OBVIOUS
<1> HIDE DEF D, V, W
<1>5. Housed(a, q \o SubSeq(W[o], 1, n), D, V)
  BY <1>1, <1>2, <1>3, <1>4, FirstWoken
<1> QED BY <1>3, <1>5 DEF D, V

(* The process that runs waits for o. *)
LEMMA BlocksPlaces ==
    ASSUME NEW in \in Seq(Info), NEW new \in Seq(Info), NEW q, NEW l,
           Housed(active_proc, q, 0..Len(in), Places(in, l)),
           active_proc # Idle, normal_schedule(q, active_proc),
           Len(new) = Len(in), NEW o \in 1..Len(in),
           \A i \in 1..Len(in) \ {o} : new[i].waiting = in[i].waiting,
           new[o].waiting = Append(in[o].waiting, active_proc)
    PROVE  /\ Housed(active_proc', ready_queue', 0..Len(new), Places(new, l))
           /\ On(ready_queue') \cup {active_proc'} = On(q)
<1> DEFINE W == Places(in, l)
           V == Places(new, l)
           D == 0..Len(in)
<1>1. /\ l \in Seq(Proc) /\ W[0] = l
      /\ \A i \in 1..Len(in) : W[i] = in[i].waiting
      /\ \A i \in D : i = 0 \/ i \in 1..Len(in)
      /\ o \in D /\ o # 0
  BY PlacesFacts
<1>2. /\ V \in [D -> Seq(Proc)] /\ V[0] = l
      /\ \A i \in 1..Len(in) : V[i] = new[i].waiting
  BY <1>1, PlacesOf
<1>3. /\ V[o] = Append(W[o], active_proc)
      /\ \A i \in D \ {o} : V[i] = W[i]
  BY <1>1, <1>2
<1>4. Housed(active_proc, q, D, W) OBVIOUS
<1> HIDE DEF D, V, W
<1>5. Joins(active_proc, o, D, W, V) BY <1>1, <1>2, <1>3 DEF Joins
<1>6. /\ Housed(active_proc', ready_queue', D, V)
      /\ active_proc' \in On(q) /\ On(ready_queue') = On(q) \ {active_proc'}
  BY <1>4, <1>5, CallerBlocks
<1>7. On(ready_queue') \cup {active_proc'} = On(q) BY <1>6
<1> QED BY <1>6, <1>7 DEF D, V

(* The one that waited for o longest is put on no list. *)
LEMMA LostPlace ==
    ASSUME NEW in \in Seq(Info), NEW new \in Seq(Info), NEW a, NEW q, NEW l,
           Housed(a, q, 0..Len(in), Places(in, l)),
           Len(new) = Len(in), NEW o \in 1..Len(in),
           \A i \in 1..Len(in) \ {o} : new[i].waiting = in[i].waiting,
           in[o].waiting # <<>>, new[o].waiting = Tail(in[o].waiting)
    PROVE  Housed(a, q, 0..Len(new), Places(new, Append(l, Head(in[o].waiting))))
<1> DEFINE w == in[o].waiting
           x == Head(w)
           m == Append(l, x)
           W == Places(in, l)
           V == Places(new, m)
           D == 0..Len(in)
<1>1. /\ l \in Seq(Proc) /\ W[0] = l
      /\ \A i \in 1..Len(in) : W[i] = in[i].waiting
      /\ \A i \in D : i = 0 \/ i \in 1..Len(in)
      /\ o \in D /\ 0 \in D /\ o # 0
  BY PlacesFacts
<1>2. /\ w \in Seq(Proc) /\ NoDup(w) /\ NoDup(l) /\ On(w) \cap On(l) = {}
  <2>1. w \in Seq(Proc) BY InfoFacts
  <2>2. NoDup(W[o]) /\ NoDup(W[0]) /\ On(W[o]) \cap On(W[0]) = {}
    BY <1>1 DEF Housed
  <2> QED BY <1>1, <2>1, <2>2
<1>3. /\ x \in Proc /\ x \in On(w) /\ Tail(w) \in Seq(Proc)
      /\ On(w) = On(Tail(w)) \cup {x}
      /\ NoDup(Tail(w)) /\ x \notin On(Tail(w))
  <2> HIDE DEF w
  <2>1. w # <<>> BY DEF w
  <2> QED BY <1>2, <2>1, TailFacts
<1> HIDE DEF x
<1>4. m \in Seq(Proc) /\ NoDup(m) /\ On(m) = On(l) \cup {x}
  <2>1. x \notin On(l) BY <1>2, <1>3
  <2> QED BY <1>1, <1>2, <1>3, <2>1, AppendFacts
<1> HIDE DEF m
<1>5. /\ V \in [D -> Seq(Proc)] /\ V[0] = m
      /\ \A i \in 1..Len(in) : V[i] = new[i].waiting
  BY <1>4, PlacesOf
<1>6. /\ \A i \in D \ {o, 0} : V[i] = W[i]
      /\ V[o] = Tail(w) /\ W[o] = w
  BY <1>1, <1>5
<1>7. /\ NoDup(V[o]) /\ NoDup(V[0]) /\ x \in On(W[o])
      /\ On(V[o]) = On(W[o]) \ {x} /\ On(V[0]) = On(W[0]) \cup {x}
  BY <1>1, <1>3, <1>4, <1>5, <1>6
<1>8. Housed(a, q, D, W) OBVIOUS
<1> HIDE DEF D, V, W, w
<1>9. Housed(a, q, D, V) BY <1>1, <1>5, <1>6, <1>7, <1>8, OneMoves
<1> QED BY <1>9 DEF D, V, m, x, w

\* A structure with other values of what changes during its life.
Made(r, locked, pid, waiting) ==
    [type |-> r.type, id |-> r.id, locked |-> locked, pid |-> pid,
     waiting |-> waiting, freed |-> r.freed]

LEMMA MadeFacts ==
    ASSUME NEW r \in Info, NEW l \in {0, 1}, NEW p \in Proc,
           NEW w \in Seq(Proc)
    PROVE  LET m == Made(r, l, p, w) IN
           /\ m \in Info /\ m.type = r.type /\ m.id = r.id
           /\ m.locked = l /\ m.pid = p /\ m.waiting = w
           /\ m.freed = r.freed
  BY DEF Made, Info

AllSet(r, locked, pid, waiting) ==
    [r EXCEPT !.locked = locked, !.pid = pid, !.waiting = waiting]

(* The assignments the calls make. *)
LEMMA Assigned ==
    ASSUME NEW r \in Info, NEW l \in {0, 1}, NEW p \in Proc,
           NEW w \in Seq(Proc)
    PROVE  /\ [r EXCEPT !.waiting = w] = Made(r, r.locked, r.pid, w)
           /\ [r EXCEPT !.locked = l, !.pid = p] = Made(r, l, p, r.waiting)
<1>1. [r EXCEPT !.waiting = w] = Made(r, r.locked, r.pid, w)
  BY DEF Made, Info
<1> DEFINE a == [r EXCEPT !.locked = l]
<1>2. /\ a \in Info /\ a.type = r.type /\ a.id = r.id /\ a.locked = l
      /\ a.pid = r.pid /\ a.waiting = r.waiting /\ a.freed = r.freed
  BY DEF Info
<1>3. [r EXCEPT !.locked = l, !.pid = p] = [a EXCEPT !.pid = p] OBVIOUS
<1> HIDE DEF a
<1>4. [a EXCEPT !.pid = p] = Made(r, l, p, r.waiting)
  BY <1>2, SMTT(30) DEF Made, Info
<1> QED BY <1>1, <1>3, <1>4, Zenon

LEMMA AllAssigned ==
    ASSUME NEW r \in Info, NEW l \in {0, 1}, NEW p \in Proc,
           NEW w \in Seq(Proc)
    PROVE  AllSet(r, l, p, w) = Made(r, l, p, w)
<1> DEFINE b == Made(r, l, p, r.waiting)
<1>1. AllSet(r, l, p, w)
        = [[r EXCEPT !.locked = l, !.pid = p] EXCEPT !.waiting = w]
  BY DEF AllSet
<1>2. [r EXCEPT !.locked = l, !.pid = p] = b BY Assigned, Zenon
<1>3. /\ b \in Info /\ b.type = r.type /\ b.id = r.id /\ b.locked = l
      /\ b.pid = p /\ b.freed = r.freed
  BY DEF Made, Info
<1>4. AllSet(r, l, p, w) = [b EXCEPT !.waiting = w] BY <1>1, <1>2, Zenon
<1> HIDE DEF b
<1>5. [b EXCEPT !.waiting = w] = Made(r, l, p, w) BY <1>3 DEF Made, Info
<1> QED BY <1>4, <1>5, Zenon

\* Structure o becomes r, the others stay as they are.
Only(in, new, o, r) ==
    /\ new \in Seq(Info) /\ Len(new) = Len(in)
    /\ new[o] = r
    /\ \A q \in 1..Len(in) \ {o} : new[q] = in[q]

LEMMA OnlyFacts ==
    ASSUME NEW in \in Seq(Info), NEW o \in 1..Len(in), NEW r \in Info
    PROVE  Only(in, [in EXCEPT ![o] = r], o, r)
  BY DEF Only

(* A walk over a list stops at what it looks for. *)
LEMMA FirstFound ==
    ASSUME NEW n \in Nat, NEW M \in SUBSET (1..n)
    PROVE  /\ M = {} => First(M) = 0
           /\ M # {} => First(M) \in M /\ First(M) # 0
<1>1. CASE M = {} BY <1>1 DEF First
<1>2. CASE M # {}
  <2>1. M \in SUBSET Nat OBVIOUS
  <2>2. \E i \in M : \A j \in M : i <= j BY <1>2, <2>1, Smallest
  <2>3. First(M) = CHOOSE i \in M : \A j \in M : i <= j BY <1>2 DEF First
  <2>4. First(M) \in M BY <2>2, <2>3
  <2>5. \A i \in M : i # 0 OBVIOUS
  <2> QED BY <1>2, <2>4, <2>5
<1> QED BY <1>1, <1>2

LEMMA InitInv == Init => Inv
<1> SUFFICES ASSUME Init PROVE Inv OBVIOUS
<1>1. /\ TasksInit /\ info = <<>> /\ Len(info) = 0
      /\ lock_list = <<>> /\ cvar_list = <<>>
      /\ On(lock_list) = {} /\ On(cvar_list) = {}
      /\ NoDup(lock_list) /\ NoDup(cvar_list) /\ Len(reclaim_list) = 0
  BY OnEmpty DEF Init
<1>2. Housed(active_proc, ready_queue, 0..Len(info), Places(info, lost))
  <2>1. Places(info, lost) \in [0..Len(info) -> {<<>>}]
    <3>1. \A i \in 0..Len(info) : i = 0 BY <1>1
    <3>2. lost = <<>> BY DEF Init
    <3> QED BY <3>1, <3>2 DEF Places
  <2> QED BY <1>1, <2>1, InitHoused
<1>3. TypeOK
  <2>1. active_proc \in Proc /\ ready_queue \in Seq(Proc) BY <1>2 DEF Housed
  <2>2. kpc \in [Proc -> {"user", "acquire", "cvar"}]
    BY <1>1 DEF TasksInit
  <2>3. /\ info \in Seq(Info) /\ lock_list \in Seq(1..Len(info))
        /\ cvar_list \in Seq(1..Len(info))
        /\ reclaim_list \in Seq([id : Ids, type : {Lock, Cvar}])
    BY <1>1 DEF Init
  <2>4. on \in [Proc -> [l : 0..Len(info), exist : BOOLEAN]]
    <3>1. NoFrame \in [l : 0..Len(info), exist : BOOLEAN]
      BY <1>1 DEF NoFrame
    <3> QED BY <3>1 DEF Init
  <2>5. args \in [Proc -> [lock : 0..MaxObj, cvar : 0..MaxObj]]
    <3>1. NoArgs \in [lock : 0..MaxObj, cvar : 0..MaxObj]
      BY MaxObjAssumption DEF NoArgs
    <3> QED BY <3>1 DEF Init
  <2>6. holds \in [Proc -> SUBSET (1..Len(info))] /\ lost \in Seq(Proc)
    BY DEF Init
  <2> QED BY <2>1, <2>2, <2>3, <2>4, <2>5, <2>6 DEF TypeOK
<1>4. ListsOK BY <1>1 DEF ListsOK
<1>5. \A p \in Proc : kpc[p] = "user" BY <1>1 DEF TasksInit
<1>6. FramesOK /\ IdleInUser BY <1>5, IdleIsProc DEF FramesOK, IdleInUser
<1>7. HoldsLocks BY DEF Init, HoldsLocks
<1>8. WaitersAcquire /\ MutualExclusion /\ WakeupOnTheWay
  BY <1>1 DEF WaitersAcquire, MutualExclusion, WakeupOnTheWay
<1> QED BY <1>2, <1>3, <1>4, <1>6, <1>7, <1>8 DEF Inv

----------------------------------------------------------------------------
(* What a step of process p keeps *)

\* p alone goes on somewhere else; ids stay, and so do those who wait for a
\* lock, but for p that may join them.
FramesStep(p) ==
    /\ \A q \in Proc \ {p} :
          kpc'[q] = kpc[q] /\ on'[q] = on[q] /\ args'[q] = args[q]
    /\ kpc'[p] = "acquire" =>
          /\ on'[p].l \in 1..Len(info) /\ info[on'[p].l].type = Lock
          /\ on'[p].l \in On(lock_list) => args'[p].lock = info[on'[p].l].id
    /\ \A o \in On(lock_list') : \A q \in On(info'[o].waiting) :
          \/ q \in On(info[o].waiting)
          \/ q = p /\ kpc'[p] = "acquire" /\ on'[p].l = o
    /\ p # Idle

\* Structures leave the lists and are changed, but those on the lists keep
\* what they are.
ListsStep ==
    /\ info' \in Seq(Info) /\ Len(info') = Len(info)
    /\ \A o \in 1..Len(info) : info'[o].type = info[o].type
    /\ On(lock_list') \subseteq On(lock_list) /\ NoDup(lock_list')
    /\ On(cvar_list') \subseteq On(cvar_list) /\ NoDup(cvar_list')
    /\ \A o \in On(lock_list') \cup On(cvar_list') :
          info'[o].id = info[o].id /\ info'[o].freed = info[o].freed
    /\ Len(reclaim_list') \in Nat /\ Len(reclaim_list') <= Len(reclaim_list)

LEMMA ListsAreInfo ==
    ASSUME Inv
    PROVE  /\ info \in Seq(Info) /\ Len(info) \in Nat
           /\ Len(reclaim_list) \in Nat
           /\ On(lock_list) \subseteq 1..Len(info)
           /\ On(cvar_list) \subseteq 1..Len(info)
<1>1. /\ info \in Seq(Info) /\ lock_list \in Seq(1..Len(info))
      /\ cvar_list \in Seq(1..Len(info))
      /\ reclaim_list \in Seq([id : Ids, type : {Lock, Cvar}])
  BY DEF Inv, TypeOK
<1>2. \A S : \A l \in Seq(S) : On(l) \subseteq S BY DEF On
<1> QED BY <1>1, <1>2

(* The active process waits nowhere. *)
LEMMA ActiveWaitsNot ==
    ASSUME Inv, NEW o \in 1..Len(info)
    PROVE  active_proc \notin On(info[o].waiting)
<1>1. info \in Seq(Info) BY ListsAreInfo
<1>2. Places(info, lost)[o] = info[o].waiting /\ o \in 0..Len(info)
  BY <1>1, PlacesFacts DEF Inv
<1> QED BY <1>2 DEF Inv, Housed

LEMMA Kept ==
    ASSUME Inv, NEW p \in Proc, active_proc = p, FramesStep(p), ListsStep,
           \A q \in Proc : \A o \in holds'[q] :
              o \in holds[q] \/ (o \in 1..Len(info) /\ info[o].type = Lock)
    PROVE  ListsOK' /\ FramesOK' /\ WaitersAcquire' /\ HoldsLocks' /\ IdleInUser'
<1>1. /\ On(lock_list) \subseteq 1..Len(info)
      /\ On(cvar_list) \subseteq 1..Len(info)
      /\ Len(info) \in Nat /\ Len(reclaim_list) \in Nat
  BY ListsAreInfo
<1>2. ListsOK'
  <2>1. Len(reclaim_list') <= Len(info') BY <1>1 DEF Inv, ListsOK, ListsStep
  <2> QED BY <1>1, <2>1 DEF Inv, ListsOK, ListsStep
<1>3. FramesOK'
  <2> SUFFICES ASSUME NEW q \in Proc, kpc'[q] = "acquire"
               PROVE  /\ on'[q].l \in 1..Len(info')
                      /\ info'[on'[q].l].type = Lock
                      /\ on'[q].l \in On(lock_list') =>
                            args'[q].lock = info'[on'[q].l].id
    BY DEF FramesOK
  <2>1. /\ on'[q].l \in 1..Len(info) /\ info[on'[q].l].type = Lock
        /\ on'[q].l \in On(lock_list) => args'[q].lock = info[on'[q].l].id
    <3>1. CASE q = p BY <3>1 DEF FramesStep
    <3>2. CASE q # p BY <3>2 DEF FramesStep, Inv, FramesOK
    <3> QED BY <3>1, <3>2
  <2> QED BY <2>1 DEF ListsStep
<1>4. WaitersAcquire'
  <2> SUFFICES ASSUME NEW o \in On(lock_list'), NEW q \in On(info'[o].waiting)
               PROVE  kpc'[q] = "acquire" /\ on'[q].l = o
    BY DEF WaitersAcquire
  <2>1. CASE q = p /\ kpc'[p] = "acquire" /\ on'[p].l = o BY <2>1
  <2>2. CASE q \in On(info[o].waiting)
    <3>1. o \in On(lock_list) /\ o \in 1..Len(info) BY <1>1 DEF ListsStep
    <3>2. q # p BY <2>2, <3>1, ActiveWaitsNot
    <3>3. kpc[q] = "acquire" /\ on[q].l = o
      BY <2>2, <3>1 DEF Inv, WaitersAcquire
    <3>4. q \in Proc
      <4>1. info[o].waiting \in Seq(Proc) BY <3>1, InfoFacts DEF Inv, TypeOK
      <4>2. On(info[o].waiting) \subseteq Proc BY <4>1 DEF On
      <4> QED BY <2>2, <4>2
    <3> QED BY <3>2, <3>3, <3>4 DEF FramesStep
  <2> QED BY <2>1, <2>2 DEF FramesStep
<1>5. HoldsLocks'
  <2>1. holds \in [Proc -> SUBSET (1..Len(info))] BY DEF Inv, TypeOK
  <2>2. \A q \in Proc : \A o \in holds'[q] :
           o \in 1..Len(info) /\ info[o].type = Lock
    BY <2>1 DEF Inv, HoldsLocks
  <2> QED BY <2>2 DEF HoldsLocks, ListsStep
<1>6. IdleInUser' BY IdleIsProc DEF Inv, IdleInUser, FramesStep
<1> QED BY <1>2, <1>3, <1>4, <1>5, <1>6

\* Who runs or is ready.
Ready == On(ready_queue) \cup {active_proc}

(* Whoever is on the way to a free lock stays on the way. *)
LEMMA WakeupKept ==
    ASSUME Inv, NEW p \in Proc, active_proc = p, FramesStep(p),
           Ready \ {p} \subseteq Ready',
           \A o \in On(lock_list') :
              info'[o].locked = 0 /\ info'[o].waiting # <<>> =>
              \/ /\ o \in On(lock_list)
                 /\ info[o].locked = 0 /\ info[o].waiting # <<>>
                 /\ ~(kpc[p] = "acquire" /\ on[p].l = o)
              \/ \E q \in Ready' : kpc'[q] = "acquire" /\ on'[q].l = o
    PROVE  WakeupOnTheWay'
<1> SUFFICES ASSUME NEW o \in On(lock_list'),
                    info'[o].locked = 0, info'[o].waiting # <<>>
             PROVE  \E q \in Ready' : kpc'[q] = "acquire" /\ on'[q].l = o
  BY DEF WakeupOnTheWay, Ready
<1>1. CASE /\ o \in On(lock_list)
           /\ info[o].locked = 0 /\ info[o].waiting # <<>>
           /\ ~(kpc[p] = "acquire" /\ on[p].l = o)
  <2>1. PICK q \in Ready : kpc[q] = "acquire" /\ on[q].l = o
    BY <1>1 DEF Inv, WakeupOnTheWay, Ready
  <2>2. q # p BY <1>1, <2>1
  <2>3. q \in Proc
    <3>1. ready_queue \in Seq(Proc) BY DEF Inv, TypeOK
    <3>2. On(ready_queue) \subseteq Proc BY <3>1 DEF On
    <3> QED BY <3>2 DEF Ready
  <2>4. kpc'[q] = "acquire" /\ on'[q].l = o BY <2>1, <2>2, <2>3 DEF FramesStep
  <2> QED BY <2>2, <2>4
<1> QED BY <1>1

----------------------------------------------------------------------------
(* sys_Acquire *)

Pcs == {"user", "acquire", "cvar"}
Frames == [Proc -> [l : 0..Len(info), exist : BOOLEAN]]
Args == [lock : 0..MaxObj, cvar : 0..MaxObj]

LEMMA ReturnFacts ==
    ASSUME Inv, NEW p \in Proc, Return(p)
    PROVE  /\ kpc' \in [Proc -> Pcs] /\ on' \in Frames /\ args' \in [Proc -> Args]
           /\ kpc'[p] = "user"
           /\ \A q \in Proc \ {p} :
                 kpc'[q] = kpc[q] /\ on'[q] = on[q] /\ args'[q] = args[q]
           /\ active_proc' = active_proc /\ ready_queue' = ready_queue
<1>1. /\ kpc \in [Proc -> Pcs] /\ on \in Frames /\ args \in [Proc -> Args]
  BY DEF Inv, TypeOK, Pcs, Frames, Args
<1>2. NoFrame \in [l : 0..Len(info), exist : BOOLEAN] /\ NoArgs \in Args
  BY ListsAreInfo, MaxObjAssumption DEF NoFrame, NoArgs, Args
<1>3. /\ kpc' = [kpc EXCEPT ![p] = "user"]
      /\ on' = [on EXCEPT ![p] = NoFrame]
      /\ args' = [args EXCEPT ![p] = NoArgs]
      /\ active_proc' = active_proc /\ ready_queue' = ready_queue
  BY DEF Return, schedVars
<1>4. kpc' \in [Proc -> Pcs] /\ kpc'[p] = "user" BY <1>1, <1>3 DEF Pcs
<1>5. on' \in Frames BY <1>1, <1>2, <1>3 DEF Frames
<1>6. args' \in [Proc -> Args] BY <1>1, <1>2, <1>3
<1>7. \A q \in Proc \ {p} :
         kpc'[q] = kpc[q] /\ on'[q] = on[q] /\ args'[q] = args[q]
  BY <1>1, <1>3 DEF Frames
<1> QED BY <1>3, <1>4, <1>5, <1>6, <1>7

(* A call that changes nothing, of a process that is on the way to no lock. *)
LEMMA FailInv ==
    ASSUME Inv, NEW p \in Proc, active_proc = p, p # Idle, Fail(p),
           UNCHANGED <<lock_list, cvar_list, reclaim_list, lost>>,
           kpc[p] = "acquire" => on[p].l \notin On(lock_list)
    PROVE  Inv'
<1>1. Return(p) /\ info' = info /\ holds' = holds BY DEF Fail
<1>2. /\ kpc' \in [Proc -> Pcs] /\ on' \in Frames /\ args' \in [Proc -> Args]
      /\ kpc'[p] = "user"
      /\ \A q \in Proc \ {p} :
            kpc'[q] = kpc[q] /\ on'[q] = on[q] /\ args'[q] = args[q]
      /\ active_proc' = active_proc /\ ready_queue' = ready_queue
  BY <1>1, ReturnFacts
<1>3. TypeOK' BY <1>1, <1>2 DEF Inv, TypeOK, Pcs, Frames, Args
<1>4. Housed(active_proc', ready_queue', 0..Len(info'), Places(info', lost'))
  BY <1>1, <1>2 DEF Inv
<1>5. FramesStep(p) BY <1>1, <1>2 DEF FramesStep
<1>6. ListsStep BY <1>1, ListsAreInfo DEF ListsStep, Inv, ListsOK
<1>7. ListsOK' /\ FramesOK' /\ WaitersAcquire' /\ HoldsLocks' /\ IdleInUser'
  BY <1>1, <1>5, <1>6, Kept
<1>8. MutualExclusion' BY <1>1 DEF Inv, MutualExclusion
<1>9. WakeupOnTheWay'
  <2>1. Ready' = Ready BY <1>2 DEF Ready
  <2> QED BY <1>1, <1>5, <2>1, WakeupKept
<1> QED BY <1>3, <1>4, <1>7, <1>8, <1>9 DEF Inv

(* p is to go on in sys_Acquire. *)
LEMMA WaitFrame ==
    ASSUME Inv, NEW p \in Proc, NEW o \in 1..Len(info), NEW id \in 0..MaxObj,
           NEW exist \in BOOLEAN,
           kpc' = [kpc EXCEPT ![p] = "acquire"],
           on' = [on EXCEPT ![p] = [l |-> o, exist |-> exist]],
           args' = [args EXCEPT ![p].lock = id]
    PROVE  /\ kpc' \in [Proc -> Pcs] /\ on' \in Frames /\ args' \in [Proc -> Args]
           /\ kpc'[p] = "acquire" /\ on'[p].l = o /\ args'[p].lock = id
           /\ \A q \in Proc \ {p} :
                 kpc'[q] = kpc[q] /\ on'[q] = on[q] /\ args'[q] = args[q]
<1>1. /\ kpc \in [Proc -> Pcs] /\ on \in Frames /\ args \in [Proc -> Args]
  BY DEF Inv, TypeOK, Pcs, Frames, Args
<1>2. kpc' \in [Proc -> Pcs] /\ kpc'[p] = "acquire" BY <1>1 DEF Pcs
<1> DEFINE f == [l |-> o, exist |-> exist]
<1>3. f \in [l : 0..Len(info), exist : BOOLEAN] /\ f.l = o OBVIOUS
<1> HIDE DEF f
<1>4. on' = [on EXCEPT ![p] = f] BY DEF f
<1>5. on' \in Frames /\ on'[p].l = o BY <1>1, <1>3, <1>4 DEF Frames
<1> DEFINE a == [args[p] EXCEPT !.lock = id]
<1>6. args' = [args EXCEPT ![p] = a] BY <1>1
<1>7. a \in Args /\ a.lock = id
  <2>1. args[p] \in Args BY <1>1
  <2> QED BY <2>1 DEF Args
<1> HIDE DEF a
<1>8. args' \in [Proc -> Args] /\ args'[p].lock = id BY <1>1, <1>6, <1>7
<1>9. \A q \in Proc \ {p} :
         kpc'[q] = kpc[q] /\ on'[q] = on[q] /\ args'[q] = args[q]
  BY <1>1, <1>4, <1>6 DEF Frames
<1> QED BY <1>2, <1>5, <1>8, <1>9

(* From the test of l->locked on. *)
LEMMA TakeOrWaitInv ==
    ASSUME Inv, NEW p \in Proc, active_proc = p, p # Idle,
           NEW o \in 1..Len(info), info[o].type = Lock,
           NEW id \in 0..MaxObj, NEW exist \in BOOLEAN,
           o \in On(lock_list) => id = info[o].id,
           kpc[p] = "acquire" => on[p].l = o \/ on[p].l \notin On(lock_list),
           TakeOrWait(p, o, id, exist),
           UNCHANGED <<lock_list, cvar_list, reclaim_list, lost>>
    PROVE  Inv'
<1> DEFINE w == info[o].waiting
<1>1. /\ info \in Seq(Info) /\ Len(info) \in Nat
      /\ info[o] \in Info /\ info[o].locked \in {0, 1}
      /\ info[o].pid \in Proc /\ w \in Seq(Proc)
      /\ On(lock_list) \subseteq 1..Len(info)
      /\ On(cvar_list) \subseteq 1..Len(info)
  BY InfoFacts, ListsAreInfo
<1>2. PICK locked \in Locked(o) :
       \/ /\ locked = 1
          /\ info' = [info EXCEPT ![o].waiting = Append(w, p)]
          /\ kpc' = [kpc EXCEPT ![p] = "acquire"]
          /\ on' = [on EXCEPT ![p] = [l |-> o, exist |-> exist]]
          /\ args' = [args EXCEPT ![p].lock = id]
          /\ normal_schedule(ready_queue, p)
          /\ holds' = holds
       \/ /\ locked = 0 /\ ~info[o].freed
          /\ info' = [info EXCEPT ![o].locked = 1, ![o].pid = p]
          /\ holds' = [holds EXCEPT ![p] = @ \cup {o}]
          /\ Return(p)
       \/ /\ locked = 0 /\ info[o].freed
          /\ Fail(p)
       \/ /\ locked = 2
          /\ Fail(p)
  BY Zenon DEF TakeOrWait, Fail
<1>3. /\ locked = info[o].locked \/ info[o].freed
      /\ o \in On(lock_list) => locked = info[o].locked
      /\ info[o].freed => o \notin On(lock_list)
  BY DEF Locked, Inv, ListsOK
<1>4. NoDup(lock_list) /\ NoDup(cvar_list) BY DEF Inv, ListsOK
<1>5. CASE /\ locked = 1
           /\ info' = [info EXCEPT ![o].waiting = Append(w, p)]
           /\ kpc' = [kpc EXCEPT ![p] = "acquire"]
           /\ on' = [on EXCEPT ![p] = [l |-> o, exist |-> exist]]
           /\ args' = [args EXCEPT ![p].lock = id]
           /\ normal_schedule(ready_queue, p)
           /\ holds' = holds
  <2> DEFINE v == Append(w, p)
             r == Made(info[o], info[o].locked, info[o].pid, v)
  <2>1. v \in Seq(Proc) /\ On(v) = On(w) \cup {p} BY <1>1, AppendFacts
  <2>2. Only(info, info', o, r)
    <3>1. info' = [info EXCEPT ![o] = [info[o] EXCEPT !.waiting = v]]
      BY <1>1, <1>5
    <3> HIDE DEF v
    <3>2. [info[o] EXCEPT !.waiting = v] = r
      BY <1>1, <2>1, Assigned, Zenon
    <3>3. info' = [info EXCEPT ![o] = r] BY <3>1, <3>2, Zenon
    <3>4. r \in Info BY <1>1, <2>1, MadeFacts
    <3> HIDE DEF r
    <3> QED BY <1>1, <3>3, <3>4, OnlyFacts
  <2> HIDE DEF v
  <2>3. /\ r.type = info[o].type /\ r.id = info[o].id /\ r.freed = info[o].freed
        /\ r.locked = info[o].locked /\ r.pid = info[o].pid /\ r.waiting = v
    BY DEF Made
  <2> HIDE DEF r
  <2>4. /\ info' \in Seq(Info) /\ Len(info') = Len(info) /\ info'[o] = r
        /\ \A x \in 1..Len(info) \ {o} : info'[x] = info[x]
    BY <2>2 DEF Only
  <2>5. /\ kpc' \in [Proc -> Pcs] /\ on' \in Frames /\ args' \in [Proc -> Args]
        /\ kpc'[p] = "acquire" /\ on'[p].l = o /\ args'[p].lock = id
        /\ \A q \in Proc \ {p} :
              kpc'[q] = kpc[q] /\ on'[q] = on[q] /\ args'[q] = args[q]
    BY <1>5, WaitFrame
  <2>6. /\ Housed(active_proc', ready_queue', 0..Len(info'), Places(info', lost'))
        /\ On(ready_queue') \cup {active_proc'} = On(ready_queue)
    <3>1. info \in Seq(Info) /\ info' \in Seq(Info) BY <1>1, <2>4
    <3>2. Housed(active_proc, ready_queue, 0..Len(info), Places(info, lost))
      BY DEF Inv
    <3>3. info'[o].waiting = Append(info[o].waiting, active_proc)
      BY <2>3, <2>4 DEF v
    <3>4. normal_schedule(ready_queue, active_proc) BY <1>5
    <3>5. \A x \in 1..Len(info) \ {o} : info'[x].waiting = info[x].waiting
      BY <2>4
    <3>6. /\ active_proc # Idle /\ Len(info') = Len(info)
          /\ o \in 1..Len(info) /\ lost' = lost
      BY <1>1, <2>4
    <3>7. /\ Housed(active_proc', ready_queue', 0..Len(info'), Places(info', lost))
          /\ On(ready_queue') \cup {active_proc'} = On(ready_queue)
      BY <3>1, <3>2, <3>3, <3>4, <3>5, <3>6, BlocksPlaces, ZenonT(30)
    <3> QED BY <3>6, <3>7
  <2>7. TypeOK'
    <3>1. active_proc' \in Proc /\ ready_queue' \in Seq(Proc)
      BY <2>6 DEF Housed
    <3> QED BY <1>5, <2>4, <2>5, <3>1 DEF Inv, TypeOK, Pcs, Frames, Args
  <2>8. FramesStep(p)
    <3>1. \A x \in On(lock_list') : \A q \in On(info'[x].waiting) :
             q \in On(info[x].waiting) \/ (q = p /\ x = o)
      BY <1>1, <2>1, <2>3, <2>4
    <3> QED BY <2>5, <3>1 DEF FramesStep
  <2>9. ListsStep
    <3>1. \A x \in 1..Len(info) :
             /\ info'[x].type = info[x].type /\ info'[x].id = info[x].id
             /\ info'[x].freed = info[x].freed
      BY <2>3, <2>4
    <3>2. \A x \in On(lock_list) \cup On(cvar_list) : x \in 1..Len(info)
      BY <1>1
    <3>3. Len(reclaim_list') \in Nat /\ Len(reclaim_list') <= Len(reclaim_list)
      BY ListsAreInfo
    <3> QED BY <1>4, <2>4, <3>1, <3>2, <3>3 DEF ListsStep
  <2>10. ListsOK' /\ FramesOK' /\ WaitersAcquire' /\ HoldsLocks' /\ IdleInUser'
    BY <1>5, <2>8, <2>9, Kept
  <2>11. MutualExclusion'
    <3>1. \A x \in On(lock_list) : /\ info'[x].locked = info[x].locked
                                   /\ info'[x].pid = info[x].pid
      BY <1>1, <2>3, <2>4
    <3> QED BY <1>5, <3>1 DEF Inv, MutualExclusion
  <2>12. WakeupOnTheWay'
    <3>1. Ready \ {p} \subseteq Ready' BY <2>6 DEF Ready
    <3>2. \A x \in On(lock_list') :
             info'[x].locked = 0 /\ info'[x].waiting # <<>> =>
               /\ x \in On(lock_list)
               /\ info[x].locked = 0 /\ info[x].waiting # <<>>
               /\ ~(kpc[p] = "acquire" /\ on[p].l = x)
      BY <1>1, <1>3, <1>5, <2>3, <2>4
    <3> QED BY <2>8, <3>1, <3>2, WakeupKept
  <2> QED BY <2>6, <2>7, <2>10, <2>11, <2>12 DEF Inv
<1>6. CASE /\ locked = 0 /\ ~info[o].freed
           /\ info' = [info EXCEPT ![o].locked = 1, ![o].pid = p]
           /\ holds' = [holds EXCEPT ![p] = @ \cup {o}]
           /\ Return(p)
  <2> DEFINE r == Made(info[o], 1, p, w)
  <2>1. Only(info, info', o, r)
    <3>1. info' = [info EXCEPT ![o] = [info[o] EXCEPT !.locked = 1, !.pid = p]]
      BY <1>1, <1>6
    <3>2. 1 \in {0, 1} OBVIOUS
    <3>3. [info[o] EXCEPT !.locked = 1, !.pid = p] = r
      BY <1>1, <3>2, Assigned, Zenon
    <3>4. info' = [info EXCEPT ![o] = r] BY <3>1, <3>3, Zenon
    <3>5. r \in Info BY <1>1, <3>2, MadeFacts
    <3> HIDE DEF r
    <3> QED BY <1>1, <3>4, <3>5, OnlyFacts
  <2>2. /\ r.type = info[o].type /\ r.id = info[o].id /\ r.freed = info[o].freed
        /\ r.locked = 1 /\ r.pid = p /\ r.waiting = w
    BY DEF Made
  <2> HIDE DEF r
  <2>3. /\ info' \in Seq(Info) /\ Len(info') = Len(info) /\ info'[o] = r
        /\ \A x \in 1..Len(info) \ {o} : info'[x] = info[x]
    BY <2>1 DEF Only
  <2>4. /\ kpc' \in [Proc -> Pcs] /\ on' \in Frames /\ args' \in [Proc -> Args]
        /\ kpc'[p] = "user"
        /\ \A q \in Proc \ {p} :
              kpc'[q] = kpc[q] /\ on'[q] = on[q] /\ args'[q] = args[q]
        /\ active_proc' = active_proc /\ ready_queue' = ready_queue
    BY <1>6, ReturnFacts
  <2>5. /\ holds \in [Proc -> SUBSET (1..Len(info))]
        /\ holds' \in [Proc -> SUBSET (1..Len(info))]
        /\ holds'[p] = holds[p] \cup {o}
        /\ \A q \in Proc \ {p} : holds'[q] = holds[q]
    <3>1. holds \in [Proc -> SUBSET (1..Len(info))] BY DEF Inv, TypeOK
    <3> QED BY <1>6, <3>1
  <2>6. Housed(active_proc', ready_queue', 0..Len(info'), Places(info', lost'))
    <3>1. Housed(active_proc, ready_queue, 0..Len(info), Places(info, lost))
      BY DEF Inv
    <3>2. \A x \in 1..Len(info) : info'[x].waiting = info[x].waiting
      BY <2>2, <2>3
    <3> QED BY <1>1, <2>3, <2>4, <3>1, <3>2, SamePlaces
  <2>7. TypeOK' BY <2>3, <2>4, <2>5 DEF Inv, TypeOK, Pcs, Frames, Args
  <2>8. FramesStep(p)
    <3>1. \A x \in On(lock_list) : info'[x].waiting = info[x].waiting
      BY <1>1, <2>2, <2>3
    <3> QED BY <2>4, <3>1 DEF FramesStep
  <2>9. ListsStep BY <1>1, <1>4, <2>2, <2>3, ListsAreInfo, SMTT(30) DEF ListsStep
  <2>10. ListsOK' /\ FramesOK' /\ WaitersAcquire' /\ HoldsLocks' /\ IdleInUser'
    <3>1. \A q \in Proc : \A x \in holds'[q] :
             x \in holds[q] \/ (x \in 1..Len(info) /\ info[x].type = Lock)
      BY <2>5
    <3> QED BY <2>8, <2>9, <3>1, Kept
  <2>11. MutualExclusion'
    <3> SUFFICES ASSUME NEW x \in On(lock_list)
                 PROVE  {q \in Proc : x \in holds'[q]}
                          = IF info'[x].locked = 1 THEN {info'[x].pid} ELSE {}
      BY DEF MutualExclusion
    <3>1. {q \in Proc : x \in holds[q]}
            = IF info[x].locked = 1 THEN {info[x].pid} ELSE {}
      BY DEF Inv, MutualExclusion
    <3>2. CASE x = o
      <4>1. {q \in Proc : o \in holds[q]} = {} BY <1>3, <1>6, <3>1, <3>2
      <4>2. {q \in Proc : o \in holds'[q]} = {p} BY <2>5, <4>1
      <4> QED BY <2>2, <2>3, <3>2, <4>2
    <3>3. CASE x # o
      <4>1. info'[x] = info[x] BY <1>1, <2>3, <3>3
      <4>2. {q \in Proc : x \in holds'[q]} = {q \in Proc : x \in holds[q]}
        BY <2>5, <3>3
      <4> QED BY <3>1, <4>1, <4>2
    <3> QED BY <3>2, <3>3
  <2>12. WakeupOnTheWay'
    <3>1. Ready \ {p} \subseteq Ready' BY <2>4 DEF Ready
    <3>2. \A x \in On(lock_list') :
             info'[x].locked = 0 /\ info'[x].waiting # <<>> =>
               /\ x \in On(lock_list)
               /\ info[x].locked = 0 /\ info[x].waiting # <<>>
               /\ ~(kpc[p] = "acquire" /\ on[p].l = x)
      BY <1>1, <2>2, <2>3
    <3> QED BY <2>8, <3>1, <3>2, WakeupKept
  <2> QED BY <2>6, <2>7, <2>10, <2>11, <2>12 DEF Inv
<1>7. CASE locked \in {0, 2} /\ (locked = 0 => info[o].freed) /\ Fail(p)
  <2>1. info[o].freed
    <3>1. locked = 2 => locked # info[o].locked BY <1>1
    <3> QED BY <1>3, <1>7, <3>1
  <2>2. kpc[p] = "acquire" => on[p].l \notin On(lock_list) BY <1>3, <2>1
  <2> QED BY <1>7, <2>2, FailInv
<1> QED BY <1>2, <1>5, <1>6, <1>7

(* Where a walk for an id stops is a structure with that id. *)
LEMMA Found ==
    ASSUME NEW lst \in Seq(1..Len(info)), NEW id
    PROVE  /\ Find(lst, id) # 0 =>
                 /\ Find(lst, id) \in 1..Len(lst)
                 /\ lst[Find(lst, id)] \in On(lst)
                 /\ lst[Find(lst, id)] \in 1..Len(info)
                 /\ info[lst[Find(lst, id)]].id = id
           /\ \A o \in On(lst) : info[o].id = id => Find(lst, id) # 0
<1> DEFINE M == {i \in 1..Len(lst) : info[lst[i]].id = id}
<1>1. Find(lst, id) = First(M) BY DEF Find
<1>2. Len(lst) \in Nat /\ M \in SUBSET (1..Len(lst)) OBVIOUS
<1> HIDE DEF M
<1>3. /\ M = {} => Find(lst, id) = 0
      /\ M # {} => Find(lst, id) \in M /\ Find(lst, id) # 0
  BY <1>1, <1>2, FirstFound
<1>4. \A i \in M : /\ i \in 1..Len(lst) /\ lst[i] \in On(lst)
                   /\ lst[i] \in 1..Len(info) /\ info[lst[i]].id = id
  BY DEF M, On
<1>5. \A o \in On(lst) : info[o].id = id => M # {} BY DEF M, On
<1> QED BY <1>3, <1>4, <1>5

LEMMA AcquireInv ==
    ASSUME Inv, NEW p \in Proc, NEW id \in Ids, Acquire(p, id)
    PROVE  Inv'
<1> DEFINE o == lock_list[Find(lock_list, id)]
<1>1. /\ active_proc = p /\ p # Idle /\ kpc[p] = "user"
      /\ Find(lock_list, id) # 0 /\ TakeOrWait(p, o, id, FALSE)
      /\ UNCHANGED <<lock_list, cvar_list, reclaim_list, lost>>
  BY DEF Acquire, Calls, InUser
<1>2. lock_list \in Seq(1..Len(info)) BY DEF Inv, TypeOK
<1>3. o \in On(lock_list) /\ o \in 1..Len(info) /\ info[o].id = id
  BY <1>1, <1>2, Found
<1>4. info[o].type = Lock BY <1>3 DEF Inv, ListsOK
<1>5. id \in 0..MaxObj BY MaxObjAssumption DEF Ids
<1> HIDE DEF o
<1> QED BY <1>1, <1>3, <1>4, <1>5, TakeOrWaitInv

LEMMA AcquireBackInv ==
    ASSUME Inv, NEW p \in Proc, AcquireBack(p)
    PROVE  Inv'
<1> DEFINE o == on[p].l
           id == args[p].lock
<1>1. /\ active_proc = p /\ kpc[p] = "acquire"
      /\ UNCHANGED <<lock_list, cvar_list, reclaim_list, lost>>
  BY DEF AcquireBack
<1>2. p # Idle BY <1>1 DEF Inv, IdleInUser
<1>3. /\ o \in 1..Len(info) /\ info[o].type = Lock
      /\ o \in On(lock_list) => id = info[o].id
  BY <1>1 DEF Inv, FramesOK
<1>4. id \in 0..MaxObj
  <2>1. args[p] \in Args BY DEF Inv, TypeOK, Args
  <2> QED BY <2>1 DEF Args
<1>5. lock_list \in Seq(1..Len(info)) BY DEF Inv, TypeOK
<1>6. CASE StillThere(p)
  <2>1. PICK x \in Meets(o, id) : TakeOrWait(p, x, id, TRUE)
    BY <1>6 DEF AcquireBack
  <2>2. /\ x \in 1..Len(info) /\ info[x].type = Lock
        /\ x \in On(lock_list) => id = info[x].id
        /\ o = x \/ o \notin On(lock_list)
    <3>1. CASE x = o BY <1>3, <3>1
    <3>2. CASE info[o].freed /\ x \in On(lock_list) /\ info[x].id = id
      BY <3>2, ListsAreInfo DEF Inv, ListsOK
    <3> QED BY <3>1, <3>2 DEF Meets
  <2> HIDE DEF id
  <2>3. TRUE \in BOOLEAN OBVIOUS
  <2> QED BY <1>1, <1>2, <1>4, <2>1, <2>2, <2>3, TakeOrWaitInv
<1>7. CASE ~StillThere(p)
  <2>1. Fail(p) BY <1>7 DEF AcquireBack
  <2>2. Find(lock_list, id) = 0 BY <1>7 DEF StillThere
  <2>3. o \notin On(lock_list) BY <1>3, <1>5, <2>2, Found
  <2> QED BY <1>1, <1>2, <2>1, <2>3, FailInv
<1> QED BY <1>6, <1>7

LEMMA CvarWaitBackInv ==
    ASSUME Inv, NEW p \in Proc, CvarWaitBack(p)
    PROVE  Inv'
<1> DEFINE id == args[p].lock
           i == Find(lock_list, id)
           o == lock_list[i]
<1>1. /\ active_proc = p /\ kpc[p] = "cvar"
      /\ UNCHANGED <<lock_list, cvar_list, reclaim_list, lost>>
      /\ (i # 0 /\ TakeOrWait(p, o, id, FALSE)) \/ Fail(p)
  BY DEF CvarWaitBack
<1>2. p # Idle BY <1>1 DEF Inv, IdleInUser
<1>3. id \in 0..MaxObj
  <2>1. args[p] \in Args BY DEF Inv, TypeOK, Args
  <2> QED BY <2>1 DEF Args
<1>4. lock_list \in Seq(1..Len(info)) BY DEF Inv, TypeOK
<1>5. CASE i # 0 /\ TakeOrWait(p, o, id, FALSE)
  <2>1. o \in On(lock_list) /\ o \in 1..Len(info) /\ info[o].id = id
    BY <1>4, <1>5, Found
  <2>2. info[o].type = Lock BY <2>1 DEF Inv, ListsOK
  <2>3. TakeOrWait(p, o, id, FALSE) /\ FALSE \in BOOLEAN BY <1>5
  <2> HIDE DEF o, id
  <2> QED BY <1>1, <1>2, <1>3, <2>1, <2>2, <2>3, TakeOrWaitInv
<1>6. CASE Fail(p) BY <1>1, <1>2, <1>6, FailInv
<1> QED BY <1>1, <1>5, <1>6

----------------------------------------------------------------------------
(* sys_LockInit, sys_CvarInit: nobody waits for what is new, and nobody
   holds it. *)
LEMMA CreateInv ==
    ASSUME Inv, NEW p \in Proc, NEW type \in {Lock, Cvar}, Create(p, type),
           Register(type),
           \/ /\ type = Lock /\ lock_list' = Append(lock_list, Len(info) + 1)
              /\ cvar_list' = cvar_list
           \/ /\ type = Cvar /\ cvar_list' = Append(cvar_list, Len(info) + 1)
              /\ lock_list' = lock_list
    PROVE  Inv'
<1> DEFINE n == Len(info)
           r == [type |-> type, id |-> NewId, locked |-> 0,
                 pid |-> 0, waiting |-> <<>>, freed |-> FALSE]
           c == [id |-> NewId, type |-> type]
<1>1. /\ n < MaxObj /\ info' = Append(info, r)
      /\ reclaim_list' = Append(reclaim_list, c) \/ reclaim_list' = reclaim_list
      /\ UNCHANGED <<active_proc, ready_queue, kpc, on, args, holds, lost>>
  BY DEF Create, Register, taskVars, schedVars
<1>2. /\ info \in Seq(Info) /\ n \in Nat
      /\ lock_list \in Seq(1..n) /\ cvar_list \in Seq(1..n)
      /\ reclaim_list \in Seq([id : Ids, type : {Lock, Cvar}])
      /\ Len(reclaim_list) \in Nat /\ Len(reclaim_list) <= n
      /\ On(lock_list) \subseteq 1..n /\ On(cvar_list) \subseteq 1..n
      /\ NoDup(lock_list) /\ NoDup(cvar_list)
  BY ListsAreInfo DEF Inv, TypeOK, ListsOK
<1>3. NewId \in Ids /\ NewId \in 0..MaxObj
  BY <1>1, <1>2, MaxObjAssumption DEF NewId, Ids
<1>4. r \in Info /\ c \in [id : Ids, type : {Lock, Cvar}]
  <2>1. 0 \in Proc BY LastPidAssumption DEF Proc
  <2>2. <<>> \in Seq(Proc) OBVIOUS
  <2> QED BY <1>3, <2>1, <2>2 DEF Info
<1>5. /\ r.type = type /\ r.id = NewId /\ r.locked = 0
      /\ r.waiting = <<>> /\ r.freed = FALSE
  OBVIOUS
<1> HIDE DEF r, c
<1>6. /\ info' \in Seq(Info) /\ Len(info') = n + 1
      /\ \A o \in 1..n : info'[o] = info[o]
      /\ info'[n + 1] = r
  BY <1>1, <1>2, <1>4
<1>7. /\ reclaim_list' \in Seq([id : Ids, type : {Lock, Cvar}])
      /\ Len(reclaim_list') \in {Len(reclaim_list), Len(reclaim_list) + 1}
  <2> DEFINE S == [id : Ids, type : {Lock, Cvar}]
  <2>1. reclaim_list \in Seq(S) /\ c \in S BY <1>2, <1>4
  <2> HIDE DEF S
  <2>2. Append(reclaim_list, c) \in Seq(S)
        /\ Len(Append(reclaim_list, c)) = Len(reclaim_list) + 1
    BY <2>1
  <2> QED BY <1>1, <2>1, <2>2 DEF S
<1> HIDE DEF n
<1>8. /\ 1..n \subseteq 1..n + 1 /\ 0..n \subseteq 0..n + 1
      /\ n + 1 \in 1..n + 1 /\ n + 1 \notin 1..n
  BY <1>2
<1>9. /\ lock_list' \in Seq(1..n + 1) /\ cvar_list' \in Seq(1..n + 1)
      /\ NoDup(lock_list') /\ NoDup(cvar_list')
      /\ On(lock_list') \subseteq On(lock_list) \cup {n + 1}
      /\ On(cvar_list') \subseteq On(cvar_list) \cup {n + 1}
      /\ n + 1 \in On(lock_list') => type = Lock
      /\ n + 1 \in On(cvar_list') => type = Cvar
  <2>1. ASSUME NEW l \in Seq(1..n), NoDup(l)
        PROVE  /\ l \in Seq(1..n + 1) /\ Append(l, n + 1) \in Seq(1..n + 1)
               /\ NoDup(Append(l, n + 1))
               /\ On(Append(l, n + 1)) = On(l) \cup {n + 1}
    <3>1. l \in Seq(1..n + 1)
      <4> DEFINE S == 1..n
                 T == 1..n + 1
      <4>1. S \subseteq T BY <1>8
      <4> HIDE DEF S, T
      <4>2. \A x \in Seq(S) : x \in Seq(T) BY <4>1
      <4> QED BY <4>2 DEF S, T
    <3>2. n + 1 \notin On(l)
      <4>1. On(l) \subseteq 1..n BY OnSubset
      <4> QED BY <1>8, <4>1
    <3> QED BY <1>8, <2>1, <3>1, <3>2, AppendFacts
  <2>2. n = Len(info) BY DEF n
  <2>3. n + 1 \notin On(lock_list) /\ n + 1 \notin On(cvar_list)
    BY <1>2, <1>8
  <2> QED BY <1>2, <2>1, <2>2, <2>3
<1>10. TypeOK'
  <2>1. on' \in [Proc -> [l : 0..n + 1, exist : BOOLEAN]]
    <3>1. on \in [Proc -> [l : 0..n, exist : BOOLEAN]]
      BY DEF Inv, TypeOK, n
    <3>2. [l : 0..n, exist : BOOLEAN] \subseteq [l : 0..n + 1, exist : BOOLEAN]
      BY <1>8
    <3> QED BY <1>1, <3>1, <3>2
  <2>2. holds' \in [Proc -> SUBSET (1..n + 1)]
    <3>1. holds \in [Proc -> SUBSET (1..n)] BY DEF Inv, TypeOK, n
    <3> QED BY <1>1, <1>8, <3>1
  <2> QED BY <1>1, <1>6, <1>7, <1>9, <2>1, <2>2 DEF Inv, TypeOK
<1>11. Housed(active_proc', ready_queue', 0..Len(info'), Places(info', lost'))
  <2>1. Housed(active_proc, ready_queue, 0..Len(info), Places(info, lost)) BY DEF Inv
  <2>2. info \in Seq(Info) /\ info' \in Seq(Info) BY <1>2, <1>6
  <2>3. /\ Len(info) \in Nat /\ Len(info') = Len(info) + 1
        /\ \A i \in 1..Len(info) : info'[i].waiting = info[i].waiting
        /\ info'[Len(info) + 1].waiting = <<>>
    BY <1>2, <1>5, <1>6 DEF n
  <2>4. Housed(active_proc, ready_queue, 0..Len(info'), Places(info', lost))
    BY <2>1, <2>2, <2>3, NewPlace
  <2> QED BY <1>1, <2>4
<1>12. ListsOK'
  <2>1. \A o \in On(lock_list') : info'[o].type = Lock /\ ~info'[o].freed
    BY <1>2, <1>5, <1>6, <1>8, <1>9 DEF Inv, ListsOK
  <2>2. \A o \in On(cvar_list') : info'[o].type = Cvar /\ ~info'[o].freed
    BY <1>2, <1>5, <1>6, <1>8, <1>9 DEF Inv, ListsOK
  <2>3. Len(reclaim_list') <= Len(info') BY <1>2, <1>6, <1>7
  <2> QED BY <1>9, <2>1, <2>2, <2>3 DEF ListsOK
<1>13. FramesOK'
  <2> SUFFICES ASSUME NEW q \in Proc, kpc'[q] = "acquire"
               PROVE  /\ on'[q].l \in 1..Len(info')
                      /\ info'[on'[q].l].type = Lock
                      /\ on'[q].l \in On(lock_list') =>
                            args'[q].lock = info'[on'[q].l].id
    BY DEF FramesOK
  <2>1. /\ on[q].l \in 1..n /\ info[on[q].l].type = Lock
        /\ on[q].l \in On(lock_list) => args[q].lock = info[on[q].l].id
    BY <1>1 DEF Inv, FramesOK, n
  <2>2. on[q].l \in 1..n + 1 /\ on[q].l # n + 1 BY <1>8, <2>1
  <2> QED BY <1>1, <1>6, <1>9, <2>1, <2>2
<1>14. WaitersAcquire'
  <2> SUFFICES ASSUME NEW o \in On(lock_list'), NEW q \in On(info'[o].waiting)
               PROVE  kpc'[q] = "acquire" /\ on'[q].l = o
    BY DEF WaitersAcquire
  <2>1. o # n + 1
    <3>1. On(<<>>) = {} BY OnEmpty
    <3> QED BY <1>5, <1>6, <3>1
  <2>2. o \in On(lock_list) /\ info'[o] = info[o] BY <1>2, <1>6, <1>9, <2>1
  <2> QED BY <1>1, <2>2 DEF Inv, WaitersAcquire
<1>15. HoldsLocks' /\ IdleInUser'
  <2>1. holds \in [Proc -> SUBSET (1..n)] BY DEF Inv, TypeOK, n
  <2> QED BY <1>1, <1>6, <2>1 DEF Inv, HoldsLocks, IdleInUser
<1>16. MutualExclusion'
  <2> SUFFICES ASSUME NEW x \in On(lock_list')
               PROVE  {q \in Proc : x \in holds'[q]}
                        = IF info'[x].locked = 1 THEN {info'[x].pid} ELSE {}
    BY DEF MutualExclusion
  <2>1. CASE x = n + 1
    <3>1. holds \in [Proc -> SUBSET (1..n)] BY DEF Inv, TypeOK, n
    <3>2. {q \in Proc : x \in holds'[q]} = {} BY <1>1, <1>8, <2>1, <3>1
    <3> QED BY <1>5, <1>6, <2>1, <3>2
  <2>2. CASE x # n + 1
    <3>1. x \in On(lock_list) /\ info'[x] = info[x] BY <1>2, <1>6, <1>9, <2>2
    <3> QED BY <1>1, <3>1 DEF Inv, MutualExclusion
  <2> QED BY <2>1, <2>2
<1>17. WakeupOnTheWay'
  <2> SUFFICES ASSUME NEW x \in On(lock_list'),
                      info'[x].locked = 0, info'[x].waiting # <<>>
               PROVE  \E q \in On(ready_queue') \cup {active_proc'} :
                         kpc'[q] = "acquire" /\ on'[q].l = x
    BY DEF WakeupOnTheWay
  <2>1. x # n + 1 BY <1>5, <1>6
  <2>2. x \in On(lock_list) /\ info'[x] = info[x] BY <1>2, <1>6, <1>9, <2>1
  <2> QED BY <1>1, <2>2 DEF Inv, WakeupOnTheWay
<1> QED BY <1>10, <1>11, <1>12, <1>13, <1>14, <1>15, <1>16, <1>17 DEF Inv

----------------------------------------------------------------------------
(* sys_Release, and the release in sys_CvarWait *)

LEMMA MineFacts ==
    ASSUME Inv, NEW p, NEW id, Mine(p, id) # 0
    PROVE  LET o == lock_list[Mine(p, id)] IN
           /\ o \in On(lock_list) /\ o \in 1..Len(info)
           /\ info[o].pid = p /\ info[o].locked = 1
<1> DEFINE M == {i \in 1..Len(lock_list) :
                   LET l == info[lock_list[i]] IN
                   l.id = id /\ l.pid = p /\ l.locked = 1}
<1>1. Mine(p, id) = First(M) BY DEF Mine
<1>2. lock_list \in Seq(1..Len(info)) BY DEF Inv, TypeOK
<1>3. Len(lock_list) \in Nat /\ M \in SUBSET (1..Len(lock_list)) BY <1>2
<1>4. \A i \in M : /\ lock_list[i] \in On(lock_list)
                   /\ lock_list[i] \in 1..Len(info)
                   /\ info[lock_list[i]].pid = p
                   /\ info[lock_list[i]].locked = 1
  BY <1>2 DEF On
<1> HIDE DEF M
<1>5. Mine(p, id) \in M BY <1>1, <1>3, FirstFound
<1> QED BY <1>4, <1>5

(* The lock is free, and the one who waited for it longest is ready. *)
LEMMA ReleasedFacts ==
    ASSUME Inv, NEW o \in On(lock_list)
    PROVE  LET R == Released(o)
               q == ready_queue \o Longest(o)
               w == info[o].waiting IN
           /\ R \in Seq(Info) /\ Len(R) = Len(info)
           /\ \A x \in 1..Len(info) \ {o} : R[x] = info[x]
           /\ R[o].type = info[o].type /\ R[o].id = info[o].id
           /\ R[o].freed = info[o].freed /\ R[o].locked = 0
           /\ On(R[o].waiting) \subseteq On(w)
           /\ R[o].waiting # <<>> => On(w) \cap On(q) # {}
           /\ On(ready_queue) \subseteq On(q)
           /\ Housed(active_proc, q, 0..Len(R), Places(R, lost))
<1> DEFINE R == Released(o)
           q == ready_queue \o Longest(o)
           w == info[o].waiting
           k == OneIfAny(w)
           h == IF w # <<>> THEN Head(w) ELSE 0
           v == list_remove(w, 1)
           m == Made(info[o], 0, h, v)
<1>1. /\ info \in Seq(Info) /\ Len(info) \in Nat
      /\ o \in 1..Len(info) /\ info[o] \in Info /\ w \in Seq(Proc)
  BY InfoFacts, ListsAreInfo
<1>2. h \in Proc
  <2>1. 0 \in Proc BY LastPidAssumption DEF Proc
  <2>2. w # <<>> => Head(w) \in Proc BY <1>1
  <2> QED BY <2>1, <2>2
<1>3. /\ k \in 0..Len(w) /\ v = SubSeq(w, k + 1, Len(w))
      /\ Longest(o) = SubSeq(w, 1, k)
  BY <1>1, OneIfAnyFacts DEF Longest
<1>4. /\ NoDup(w) /\ ready_queue \in Seq(Proc)
      /\ Housed(active_proc, ready_queue, 0..Len(info), Places(info, lost))
  <2>1. w = Places(info, lost)[o] /\ o \in 0..Len(info)
    BY <1>1, PlacesFacts DEF Inv
  <2> QED BY <2>1 DEF Inv, Housed
<1>5. /\ v \in Seq(Proc) /\ SubSeq(w, 1, k) \in Seq(Proc)
      /\ On(SubSeq(w, 1, k)) \cup On(v) = On(w)
  <2> HIDE DEF w, k, v
  <2> QED BY <1>1, <1>3, <1>4, SplitFacts
<1>6. Only(info, R, o, m)
  <2>1. R = [info EXCEPT ![o].locked = 0, ![o].pid = h, ![o].waiting = v]
    BY Zenon DEF Released
  <2>2. R = [info EXCEPT ![o] =
               [info[o] EXCEPT !.locked = 0, !.pid = h, !.waiting = v]]
    <3> HIDE DEF R, h, v
    <3> QED BY <1>1, <2>1
  <2>3. 0 \in {0, 1} OBVIOUS
  <2> HIDE DEF h, v
  <2>4. [info[o] EXCEPT !.locked = 0, !.pid = h, !.waiting = v] = m
    <3>1. info[o] \in Info /\ h \in Proc /\ v \in Seq(Proc)
      BY <1>1, <1>2, <1>5
    <3>2. AllSet(info[o], 0, h, v) = Made(info[o], 0, h, v)
      BY <2>3, <3>1, AllAssigned
    <3> QED BY <3>2, Zenon DEF AllSet
  <2>5. R = [info EXCEPT ![o] = m] BY <2>2, <2>4, Zenon
  <2>6. m \in Info BY <1>1, <1>2, <1>5, <2>3, MadeFacts
  <2> HIDE DEF m, R
  <2>7. Only(info, [info EXCEPT ![o] = m], o, m) BY <1>1, <2>6, OnlyFacts
  <2> QED BY <2>5, <2>7, Zenon
<1>7. /\ m.type = info[o].type /\ m.id = info[o].id /\ m.freed = info[o].freed
      /\ m.locked = 0 /\ m.waiting = v
  <2> HIDE DEF v, h
  <2> QED BY DEF Made
<1> HIDE DEF m, R, k, v, h
<1>8. /\ R \in Seq(Info) /\ Len(R) = Len(info) /\ R[o] = m
      /\ \A x \in 1..Len(info) \ {o} : R[x] = info[x]
  BY <1>6 DEF Only
<1>9. /\ q = ready_queue \o SubSeq(w, 1, k)
      /\ On(q) = On(ready_queue) \cup On(SubSeq(w, 1, k))
  <2> DEFINE f == SubSeq(w, 1, k)
  <2>1. q = ready_queue \o f BY <1>3
  <2>2. f \in Seq(Proc) BY <1>5
  <2> HIDE DEF f
  <2>3. On(ready_queue \o f) = On(ready_queue) \cup On(f)
    BY <1>4, <2>2, ConcatFacts
  <2> QED BY <2>1, <2>3 DEF f
<1>10. R[o].waiting # <<>> => On(w) \cap On(q) # {}
  <2> SUFFICES ASSUME v # <<>> PROVE On(w) \cap On(q) # {} BY <1>7, <1>8
  <2>1. w # <<>>
    <3>1. CASE w = <<>>
      <4>1. On(w) = {} BY <3>1, OnEmpty
      <4>2. On(v) = {} BY <1>5, <4>1
      <4> QED BY <1>5, <4>2, OnEmpty
    <3> QED BY <3>1
  <2>2. k = 1 BY <2>1 DEF k, OneIfAny
  <2>3. SubSeq(w, 1, k) = <<w[1]>> /\ Len(w) \in Nat /\ Len(w) >= 1
    BY <1>1, <2>1, <2>2, FirstFacts
  <2>4. w[1] \in On(w) /\ w[1] \in On(SubSeq(w, 1, k))
    <3>1. 1 \in 1..Len(w) BY <2>3
    <3>2. \A x : x \in On(<<x>>) BY DEF On
    <3> HIDE DEF w
    <3> QED BY <2>3, <3>1, <3>2 DEF On
  <2> QED BY <1>9, <2>4
<1>11. Housed(active_proc, q, 0..Len(R), Places(R, lost))
  <2>1. R \in Seq(Info) BY <1>8
  <2>2. /\ \A x \in 1..Len(info) \ {o} : R[x].waiting = info[x].waiting
        /\ R[o].waiting = SubSeq(info[o].waiting, k + 1, Len(info[o].waiting))
        /\ k \in 0..Len(info[o].waiting)
    BY <1>3, <1>7, <1>8
  <2>3. Housed(active_proc, ready_queue \o SubSeq(info[o].waiting, 1, k),
               0..Len(R), Places(R, lost))
    BY <1>1, <1>4, <1>8, <2>1, <2>2, WokenPlaces
  <2> QED BY <1>9, <2>3
<1> QED BY <1>5, <1>7, <1>8, <1>9, <1>10, <1>11 DEF R

(* The holder, and nobody else, does not hold the lock any more. *)
LEMMA HolderOut ==
    ASSUME Inv, NEW p \in Proc, NEW o \in On(lock_list),
           info[o].locked = 1, info[o].pid = p,
           holds' = [holds EXCEPT ![p] = @ \ {o}],
           lock_list' = lock_list, info'[o].locked = 0,
           \A x \in On(lock_list) \ {o} :
              info'[x].locked = info[x].locked /\ info'[x].pid = info[x].pid
    PROVE  /\ MutualExclusion'
           /\ holds' \in [Proc -> SUBSET (1..Len(info))]
           /\ \A q \in Proc : holds'[q] \subseteq holds[q]
<1>1. holds \in [Proc -> SUBSET (1..Len(info))] BY DEF Inv, TypeOK
<1>2. /\ holds' \in [Proc -> SUBSET (1..Len(info))]
      /\ \A q \in Proc \ {p} : holds'[q] = holds[q]
      /\ holds'[p] = holds[p] \ {o}
  BY <1>1
<1>3. MutualExclusion'
  <2> SUFFICES ASSUME NEW x \in On(lock_list)
               PROVE  {q \in Proc : x \in holds'[q]}
                        = IF info'[x].locked = 1 THEN {info'[x].pid} ELSE {}
    BY DEF MutualExclusion
  <2>1. {q \in Proc : x \in holds[q]}
          = IF info[x].locked = 1 THEN {info[x].pid} ELSE {}
    BY DEF Inv, MutualExclusion
  <2>2. CASE x = o
    <3>1. {q \in Proc : o \in holds[q]} = {p} BY <2>1, <2>2
    <3>2. {q \in Proc : o \in holds'[q]} = {} BY <1>2, <3>1
    <3> QED BY <2>2, <3>2
  <2>3. CASE x # o
    <3>1. {q \in Proc : x \in holds'[q]} = {q \in Proc : x \in holds[q]}
      BY <1>2, <2>3
    <3> QED BY <2>1, <2>3, <3>1
  <2> QED BY <2>2, <2>3
<1> QED BY <1>2, <1>3

(* A lock that is not free in the next state asks for nobody on the way; one
   that p lets go has the one who waited longest on the way. *)
LEMMA ReleaseWakes ==
    ASSUME Inv, NEW p \in Proc, active_proc = p, kpc[p] # "acquire",
           FramesStep(p), NEW o \in On(lock_list), lock_list' = lock_list,
           On(ready_queue) \subseteq Ready',
           info'[o].waiting # <<>> => On(info[o].waiting) \cap Ready' # {},
           \A x \in On(lock_list) \ {o} :
              /\ info'[x].locked = info[x].locked
              /\ info'[x].waiting = info[x].waiting
    PROVE  WakeupOnTheWay'
<1>1. Ready \ {p} \subseteq Ready' BY DEF Ready
<1>2. o \in 1..Len(info) BY ListsAreInfo
<1>3. info'[o].waiting # <<>> =>
         \E q \in Ready' : kpc'[q] = "acquire" /\ on'[q].l = o
  <2> SUFFICES ASSUME info'[o].waiting # <<>>
               PROVE  \E q \in Ready' : kpc'[q] = "acquire" /\ on'[q].l = o
    OBVIOUS
  <2>1. PICK q \in On(info[o].waiting) : q \in Ready' OBVIOUS
  <2>2. q # p BY <1>2, ActiveWaitsNot
  <2>3. kpc[q] = "acquire" /\ on[q].l = o BY DEF Inv, WaitersAcquire
  <2>4. q \in Proc
    <3>1. info[o].waiting \in Seq(Proc) BY <1>2, InfoFacts DEF Inv, TypeOK
    <3> QED BY <3>1, OnSubset
  <2> QED BY <2>1, <2>2, <2>3, <2>4 DEF FramesStep
<1>4. \A x \in On(lock_list') :
         info'[x].locked = 0 /\ info'[x].waiting # <<>> =>
         \/ /\ x \in On(lock_list)
            /\ info[x].locked = 0 /\ info[x].waiting # <<>>
            /\ ~(kpc[p] = "acquire" /\ on[p].l = x)
         \/ \E q \in Ready' : kpc'[q] = "acquire" /\ on'[q].l = x
  BY <1>3
<1> QED BY <1>1, <1>4, WakeupKept

(* The release, in sys_Release or in a sys_CvarWait that finds no cvar. *)
LEMMA LetGoInv ==
    ASSUME Inv, NEW p \in Proc, Calls(p), NEW o \in On(lock_list),
           info[o].pid = p, info[o].locked = 1,
           info' = Released(o), ready_queue' = ready_queue \o Longest(o),
           holds' = [holds EXCEPT ![p] = @ \ {o}],
           UNCHANGED <<active_proc, kpc, lock_list, cvar_list, reclaim_list,
                       on, args, lost>>
    PROVE  Inv'
<1>1. active_proc = p /\ p # Idle /\ kpc[p] = "user" BY DEF Calls, InUser
<1>2. /\ info' \in Seq(Info) /\ Len(info') = Len(info)
      /\ \A x \in 1..Len(info) \ {o} : info'[x] = info[x]
      /\ info'[o].type = info[o].type /\ info'[o].id = info[o].id
      /\ info'[o].freed = info[o].freed /\ info'[o].locked = 0
      /\ On(info'[o].waiting) \subseteq On(info[o].waiting)
      /\ info'[o].waiting # <<>> => On(info[o].waiting) \cap On(ready_queue') # {}
      /\ On(ready_queue) \subseteq On(ready_queue')
      /\ Housed(active_proc, ready_queue', 0..Len(info'), Places(info', lost'))
  BY ReleasedFacts, Zenon
<1>3. /\ On(lock_list) \subseteq 1..Len(info)
      /\ On(cvar_list) \subseteq 1..Len(info)
      /\ Len(reclaim_list) \in Nat
  BY ListsAreInfo
<1>4. \A x \in On(lock_list) \ {o} : info'[x] = info[x] BY <1>2, <1>3
<1>5. /\ MutualExclusion'
      /\ holds' \in [Proc -> SUBSET (1..Len(info))]
      /\ \A q \in Proc : holds'[q] \subseteq holds[q]
  BY <1>2, <1>4, HolderOut
<1>6. TypeOK'
  <2>1. ready_queue' \in Seq(Proc) BY <1>2 DEF Housed
  <2> QED BY <1>2, <1>5, <2>1 DEF Inv, TypeOK
<1>7. FramesStep(p)
  <2>1. \A x \in On(lock_list) :
           On(info'[x].waiting) \subseteq On(info[x].waiting)
    BY <1>2, <1>4
  <2> QED BY <1>1, <2>1 DEF FramesStep
<1>8. ListsStep
  <2>1. \A x \in 1..Len(info) : /\ info'[x].type = info[x].type
                                /\ info'[x].id = info[x].id
                                /\ info'[x].freed = info[x].freed
    BY <1>2
  <2> QED BY <1>2, <1>3, <2>1 DEF ListsStep, Inv, ListsOK
<1>9. ListsOK' /\ FramesOK' /\ WaitersAcquire' /\ HoldsLocks' /\ IdleInUser'
  BY <1>1, <1>5, <1>7, <1>8, Kept
<1>10. WakeupOnTheWay'
  <2>1. On(ready_queue) \subseteq Ready' /\ On(ready_queue') \subseteq Ready'
    BY <1>2 DEF Ready
  <2> QED BY <1>1, <1>2, <1>4, <1>7, <2>1, ReleaseWakes
<1> QED BY <1>2, <1>5, <1>6, <1>9, <1>10 DEF Inv

LEMMA ReleaseInv ==
    ASSUME Inv, NEW p \in Proc, NEW id \in Ids, Release(p, id)
    PROVE  Inv'
<1> DEFINE o == lock_list[Mine(p, id)]
<1>1. /\ Calls(p) /\ Mine(p, id) # 0
      /\ info' = Released(o) /\ ready_queue' = ready_queue \o Longest(o)
      /\ holds' = [holds EXCEPT ![p] = @ \ {o}]
      /\ UNCHANGED <<active_proc, kpc, lock_list, cvar_list, reclaim_list,
                     on, args, lost>>
  BY DEF Release
<1>2. o \in On(lock_list) /\ info[o].pid = p /\ info[o].locked = 1
  BY <1>1, MineFacts
<1> HIDE DEF o
<1> QED BY <1>1, <1>2, LetGoInv

----------------------------------------------------------------------------
(* Condition variables *)

(* Other processes wait for cvar c. *)
LEMMA CvarChanged ==
    ASSUME Inv, NEW c \in On(cvar_list), NEW v \in Seq(Proc)
    PROVE  LET new == [info EXCEPT ![c].waiting = v] IN
           /\ new \in Seq(Info) /\ Len(new) = Len(info)
           /\ new[c].type = info[c].type /\ new[c].id = info[c].id
           /\ new[c].freed = info[c].freed /\ new[c].waiting = v
           /\ \A x \in 1..Len(info) \ {c} : new[x] = info[x]
<1> DEFINE new == [info EXCEPT ![c].waiting = v]
           r == Made(info[c], info[c].locked, info[c].pid, v)
<1>1. /\ info \in Seq(Info) /\ c \in 1..Len(info) /\ info[c] \in Info
      /\ info[c].locked \in {0, 1} /\ info[c].pid \in Proc
  BY InfoFacts, ListsAreInfo
<1>2. Only(info, new, c, r)
  <2>1. new = [info EXCEPT ![c] = [info[c] EXCEPT !.waiting = v]] BY <1>1
  <2>2. [info[c] EXCEPT !.waiting = v] = r BY <1>1, Assigned, Zenon
  <2> HIDE DEF new
  <2>3. new = [info EXCEPT ![c] = r] BY <2>1, <2>2, Zenon
  <2>4. r \in Info BY <1>1, MadeFacts
  <2> HIDE DEF r
  <2>5. Only(info, [info EXCEPT ![c] = r], c, r) BY <1>1, <2>4, OnlyFacts
  <2> QED BY <2>3, <2>5, Zenon
<1>3. /\ r.type = info[c].type /\ r.id = info[c].id
      /\ r.freed = info[c].freed /\ r.waiting = v
  BY DEF Made
<1> HIDE DEF r, new
<1>4. /\ new \in Seq(Info) /\ Len(new) = Len(info) /\ new[c] = r
      /\ \A x \in 1..Len(info) \ {c} : new[x] = info[x]
  BY <1>2 DEF Only
<1>5. /\ new \in Seq(Info) /\ Len(new) = Len(info)
      /\ new[c].type = info[c].type /\ new[c].id = info[c].id
      /\ new[c].freed = info[c].freed /\ new[c].waiting = v
      /\ \A x \in 1..Len(info) \ {c} : new[x] = info[x]
  BY <1>3, <1>4
<1> QED BY <1>5, Zenon DEF new

(* Whoever goes from the list of a cvar to where it is housed changes nothing
   about the locks. *)
LEMMA CvarStepInv ==
    ASSUME Inv, NEW p \in Proc, Calls(p), NEW c \in On(cvar_list),
           NEW v \in Seq(Proc), info' = [info EXCEPT ![c].waiting = v],
           On(ready_queue) \subseteq On(ready_queue'),
           Housed(active_proc, ready_queue', 0..Len(info'), Places(info', lost')),
           UNCHANGED <<active_proc, kpc, lock_list, cvar_list, reclaim_list,
                       on, args, holds>>
    PROVE  Inv'
<1>1. active_proc = p /\ p # Idle /\ kpc[p] = "user" BY DEF Calls, InUser
<1>2. /\ On(lock_list) \subseteq 1..Len(info)
      /\ On(cvar_list) \subseteq 1..Len(info)
      /\ Len(reclaim_list) \in Nat
  BY ListsAreInfo
<1>3. c \notin On(lock_list)
  <2>1. info[c].type = Cvar /\ \A o \in On(lock_list) : info[o].type = Lock
    BY DEF Inv, ListsOK
  <2> QED BY <2>1 DEF Lock, Cvar
<1>4. /\ info' \in Seq(Info) /\ Len(info') = Len(info)
      /\ info'[c].type = info[c].type /\ info'[c].id = info[c].id
      /\ info'[c].freed = info[c].freed
      /\ \A x \in 1..Len(info) \ {c} : info'[x] = info[x]
  <2> DEFINE new == [info EXCEPT ![c].waiting = v]
  <2>1. /\ new \in Seq(Info) /\ Len(new) = Len(info)
        /\ new[c].type = info[c].type /\ new[c].id = info[c].id
        /\ new[c].freed = info[c].freed
        /\ \A x \in 1..Len(info) \ {c} : new[x] = info[x]
    BY CvarChanged, ZenonT(60)
  <2>2. info' = new OBVIOUS
  <2> HIDE DEF new
  <2> QED BY <2>1, <2>2
<1>5. \A x \in On(lock_list) : info'[x] = info[x] BY <1>2, <1>3, <1>4
<1>6. TypeOK'
  <2>1. ready_queue' \in Seq(Proc) BY DEF Housed
  <2>2. lost' \in Seq(Proc) BY <1>4, PlacesFacts
  <2> QED BY <1>4, <2>1, <2>2 DEF Inv, TypeOK
<1>7. FramesStep(p) BY <1>1, <1>5 DEF FramesStep
<1>8. ListsStep
  <2>1. \A x \in 1..Len(info) : /\ info'[x].type = info[x].type
                                /\ info'[x].id = info[x].id
                                /\ info'[x].freed = info[x].freed
    BY <1>4
  <2> QED BY <1>2, <1>4, <2>1 DEF ListsStep, Inv, ListsOK
<1>9. ListsOK' /\ FramesOK' /\ WaitersAcquire' /\ HoldsLocks' /\ IdleInUser'
  BY <1>1, <1>7, <1>8, Kept
<1>10. MutualExclusion' BY <1>5 DEF Inv, MutualExclusion
<1>11. WakeupOnTheWay'
  <2>1. Ready \ {p} \subseteq Ready' BY DEF Ready
  <2> QED BY <1>1, <1>5, <1>7, <2>1, WakeupKept
<1> QED BY <1>6, <1>9, <1>10, <1>11 DEF Inv

(* The first n that wait for c become ready. *)
LEMMA CvarWoken ==
    ASSUME Inv, NEW c \in On(cvar_list), NEW n \in 0..Len(info[c].waiting)
    PROVE  LET w == info[c].waiting
               v == SubSeq(w, n + 1, Len(w))
               q == ready_queue \o SubSeq(w, 1, n)
               new == [info EXCEPT ![c].waiting = v] IN
           /\ v \in Seq(Proc) /\ On(ready_queue) \subseteq On(q)
           /\ Housed(active_proc, q, 0..Len(new), Places(new, lost))
<1> DEFINE w == info[c].waiting
           v == SubSeq(w, n + 1, Len(w))
           f == SubSeq(w, 1, n)
           new == [info EXCEPT ![c].waiting = v]
<1>1. /\ info \in Seq(Info) /\ c \in 1..Len(info) /\ w \in Seq(Proc)
  BY InfoFacts, ListsAreInfo
<1>2. /\ ready_queue \in Seq(Proc)
      /\ Housed(active_proc, ready_queue, 0..Len(info), Places(info, lost))
  BY DEF Inv, TypeOK
<1>3. v \in Seq(Proc) /\ f \in Seq(Proc)
  <2> HIDE DEF w
  <2>1. n \in 0..Len(w) BY DEF w
  <2> QED BY <1>1, <2>1, SubSeqFacts
<1>4. On(ready_queue) \subseteq On(ready_queue \o f)
  <2> HIDE DEF f
  <2> QED BY <1>2, <1>3, ConcatFacts
<1>5. /\ new \in Seq(Info) /\ Len(new) = Len(info) /\ new[c].waiting = v
      /\ \A x \in 1..Len(info) \ {c} : new[x] = info[x]
  <2> HIDE DEF v
  <2> QED BY <1>3, CvarChanged, Zenon
<1> HIDE DEF new
<1>6. /\ \A x \in 1..Len(info) \ {c} : new[x].waiting = info[x].waiting
      /\ new[c].waiting = SubSeq(info[c].waiting, n + 1, Len(info[c].waiting))
  BY <1>5
<1>7. Housed(active_proc, ready_queue \o SubSeq(info[c].waiting, 1, n),
             0..Len(new), Places(new, lost))
  BY <1>1, <1>2, <1>5, <1>6, WokenPlaces
<1> QED BY <1>3, <1>4, <1>7, Zenon DEF new

LEMMA CvarWakeInv ==
    ASSUME Inv, NEW p \in Proc, Calls(p), NEW c \in On(cvar_list),
           NEW n \in 0..Len(info[c].waiting),
           info' = [info EXCEPT ![c].waiting =
                      SubSeq(info[c].waiting, n + 1, Len(info[c].waiting))],
           ready_queue' = ready_queue \o SubSeq(info[c].waiting, 1, n),
           UNCHANGED <<active_proc, kpc, lock_list, cvar_list, reclaim_list,
                       on, args, holds, lost>>
    PROVE  Inv'
<1> DEFINE v == SubSeq(info[c].waiting, n + 1, Len(info[c].waiting))
<1>1. /\ v \in Seq(Proc) /\ On(ready_queue) \subseteq On(ready_queue')
      /\ Housed(active_proc, ready_queue', 0..Len(info'), Places(info', lost))
  BY CvarWoken, Zenon
<1>2. info' = [info EXCEPT ![c].waiting = v] OBVIOUS
<1> HIDE DEF v
<1> QED BY <1>1, <1>2, CvarStepInv

(* The next after them is on no list. *)
LEMMA CvarLostInv ==
    ASSUME Inv, NEW p \in Proc, Calls(p), NEW c \in On(cvar_list),
           NEW n \in 0..Len(info[c].waiting), LostOne(c, n)
    PROVE  Inv'
<1> DEFINE w == info[c].waiting
           rest == SubSeq(w, n + 1, Len(w))
           mid == [info EXCEPT ![c].waiting = rest]
           v == Tail(rest)
<1>1. /\ rest # <<>> /\ info' = [info EXCEPT ![c].waiting = v]
      /\ ready_queue' = ready_queue \o SubSeq(w, 1, n)
      /\ lost' = Append(lost, Head(rest))
      /\ UNCHANGED <<active_proc, kpc, lock_list, cvar_list, reclaim_list,
                     on, args, holds>>
  BY DEF LostOne
<1>2. /\ rest \in Seq(Proc) /\ On(ready_queue) \subseteq On(ready_queue')
      /\ Housed(active_proc, ready_queue', 0..Len(mid), Places(mid, lost))
  BY <1>1, CvarWoken, Zenon
<1> HIDE DEF rest
<1>3. v \in Seq(Proc) BY <1>1, <1>2, TailFacts
<1>4. /\ mid \in Seq(Info) /\ Len(mid) = Len(info) /\ mid[c].waiting = rest
      /\ \A x \in 1..Len(info) \ {c} : mid[x] = info[x]
  BY <1>2, CvarChanged, Zenon
<1>5. /\ info' \in Seq(Info) /\ Len(info') = Len(info) /\ info'[c].waiting = v
      /\ \A x \in 1..Len(info) \ {c} : info'[x] = info[x]
  <2> DEFINE new == [info EXCEPT ![c].waiting = v]
  <2>1. info' = new BY <1>1
  <2> HIDE DEF v
  <2>2. /\ new \in Seq(Info) /\ Len(new) = Len(info) /\ new[c].waiting = v
        /\ \A x \in 1..Len(info) \ {c} : new[x] = info[x]
    BY <1>3, CvarChanged, Zenon
  <2> HIDE DEF new
  <2> QED BY <2>1, <2>2
<1> HIDE DEF mid
<1>6. /\ c \in 1..Len(mid) /\ Len(info') = Len(mid)
      /\ \A x \in 1..Len(mid) \ {c} : info'[x].waiting = mid[x].waiting
      /\ mid[c].waiting # <<>> /\ info'[c].waiting = Tail(mid[c].waiting)
      /\ lost' = Append(lost, Head(mid[c].waiting))
  BY <1>1, <1>4, <1>5, ListsAreInfo
<1>7. Housed(active_proc, ready_queue', 0..Len(info'), Places(info', lost'))
  <2>1. Housed(active_proc, ready_queue', 0..Len(info'),
               Places(info', Append(lost, Head(mid[c].waiting))))
    BY <1>2, <1>4, <1>5, <1>6, LostPlace
  <2> QED BY <1>6, <2>1, Zenon
<1> HIDE DEF v
<1> QED BY <1>1, <1>2, <1>3, <1>7, CvarStepInv

LEMMA CvarFailInv ==
    ASSUME Inv, NEW p \in Proc, NEW id \in Ids,
           CvarSignalFail(p, id) \/ CvarBroadcastFail(p, id)
    PROVE  Inv'
<1> DEFINE c == cvar_list[Find(cvar_list, id)]
<1>1. /\ Calls(p) /\ Find(cvar_list, id) # 0
      /\ LostOne(c, 0) \/ \E n \in 0..Len(info[c].waiting) : LostOne(c, n)
  BY DEF CvarSignalFail, CvarBroadcastFail
<1>2. cvar_list \in Seq(1..Len(info)) BY DEF Inv, TypeOK
<1>3. c \in On(cvar_list) /\ c \in 1..Len(info) BY <1>1, <1>2, Found
<1>4. 0 \in 0..Len(info[c].waiting)
  <2>1. info[c].waiting \in Seq(Proc) BY <1>3, InfoFacts DEF Inv, TypeOK
  <2> QED BY <2>1
<1> HIDE DEF c
<1> QED BY <1>1, <1>3, <1>4, CvarLostInv

LEMMA CvarSignalInv ==
    ASSUME Inv, NEW p \in Proc, NEW id \in Ids, CvarSignal(p, id)
    PROVE  Inv'
<1> DEFINE c == cvar_list[Find(cvar_list, id)]
           w == info[c].waiting
           n == OneIfAny(w)
<1>1. /\ Calls(p) /\ Find(cvar_list, id) # 0
      /\ info' = [info EXCEPT ![c].waiting = list_remove(w, 1)]
      /\ ready_queue' = ready_queue \o Longest(c)
      /\ UNCHANGED <<active_proc, kpc, lock_list, cvar_list, reclaim_list,
                     on, args, holds, lost>>
  BY DEF CvarSignal
<1>2. cvar_list \in Seq(1..Len(info)) BY DEF Inv, TypeOK
<1>3. c \in On(cvar_list) /\ c \in 1..Len(info) BY <1>1, <1>2, Found
<1>4. w \in Seq(Proc) BY <1>3, InfoFacts DEF Inv, TypeOK
<1>5. /\ n \in 0..Len(w) /\ list_remove(w, 1) = SubSeq(w, n + 1, Len(w))
      /\ Longest(c) = SubSeq(w, 1, n)
  BY <1>4, OneIfAnyFacts DEF Longest
<1> HIDE DEF c, n
<1> QED BY <1>1, <1>3, <1>5, CvarWakeInv

LEMMA CvarBroadcastInv ==
    ASSUME Inv, NEW p \in Proc, NEW id \in Ids, CvarBroadcast(p, id)
    PROVE  Inv'
<1> DEFINE c == cvar_list[Find(cvar_list, id)]
           w == info[c].waiting
           n == Len(w)
<1>1. /\ Calls(p) /\ Find(cvar_list, id) # 0
      /\ info' = [info EXCEPT ![c].waiting = <<>>]
      /\ ready_queue' = ready_queue \o w
      /\ UNCHANGED <<active_proc, kpc, lock_list, cvar_list, reclaim_list,
                     on, args, holds, lost>>
  BY DEF CvarBroadcast
<1>2. cvar_list \in Seq(1..Len(info)) BY DEF Inv, TypeOK
<1>3. c \in On(cvar_list) /\ c \in 1..Len(info) BY <1>1, <1>2, Found
<1>4. w \in Seq(Proc) BY <1>3, InfoFacts DEF Inv, TypeOK
<1>5. n \in 0..Len(w) /\ <<>> = SubSeq(w, n + 1, Len(w)) /\ w = SubSeq(w, 1, n)
  <2> HIDE DEF w
  <2>1. Len(w) \in Nat BY <1>4
  <2>2. n \in 0..Len(w) BY <2>1
  <2>3. SubSeq(w, n + 1, Len(w)) = <<>>
    <3>1. /\ SubSeq(w, n + 1, Len(w)) \in Seq(Proc)
          /\ Len(SubSeq(w, n + 1, Len(w))) = Len(w) - n
      BY <1>4, <2>2, SubSeqFacts
    <3> QED BY <2>1, <3>1
  <2>4. w = SubSeq(w, 1, n) BY <1>4, NoneFacts
  <2> QED BY <2>2, <2>3, <2>4
<1>6. /\ info' = [info EXCEPT ![c].waiting = SubSeq(w, n + 1, Len(w))]
      /\ ready_queue' = ready_queue \o SubSeq(w, 1, n)
  BY <1>1, <1>5, Zenon
<1> HIDE DEF c, n
<1> QED BY <1>1, <1>3, <1>5, <1>6, CvarWakeInv

(* The lock is released before p waits, and both happen in one step. *)
LEMMA CvarWaitInv ==
    ASSUME Inv, NEW p \in Proc, NEW cvar \in Ids, NEW lock \in Ids,
           CvarWait(p, cvar, lock)
    PROVE  Inv'
<1> DEFINE o == lock_list[Mine(p, lock)]
           c == cvar_list[Find(cvar_list, cvar)]
<1>1. /\ Calls(p) /\ Mine(p, lock) # 0
      /\ holds' = [holds EXCEPT ![p] = @ \ {o}]
      /\ UNCHANGED <<lock_list, cvar_list, reclaim_list, on, lost>>
  BY DEF CvarWait
<1>2. active_proc = p /\ p # Idle /\ kpc[p] = "user"
  BY <1>1 DEF Calls, InUser
<1>3. /\ o \in On(lock_list) /\ o \in 1..Len(info)
      /\ info[o].pid = p /\ info[o].locked = 1
  BY <1>1, MineFacts
<1>4. CASE Find(cvar_list, cvar) = 0
  <2>1. /\ info' = Released(o) /\ ready_queue' = ready_queue \o Longest(o)
        /\ UNCHANGED <<active_proc, kpc, args>>
    BY <1>4 DEF CvarWait
  <2> HIDE DEF o
  <2> QED BY <1>1, <1>3, <2>1, LetGoInv
<1>5. CASE Find(cvar_list, cvar) # 0
  <2> DEFINE R == Released(o)
             q == ready_queue \o Longest(o)
             v == Append(R[c].waiting, p)
             r == Made(R[c], R[c].locked, R[c].pid, v)
             a == [lock |-> lock, cvar |-> cvar]
  <2>1. /\ info' = [R EXCEPT ![c].waiting = v]
        /\ kpc' = [kpc EXCEPT ![p] = "cvar"]
        /\ args' = [args EXCEPT ![p] = a]
        /\ normal_schedule(q, p)
    BY <1>5 DEF CvarWait
  <2>2. c \in On(cvar_list) /\ c \in 1..Len(info) /\ c # o
    <3>1. cvar_list \in Seq(1..Len(info)) BY DEF Inv, TypeOK
    <3>2. c \in On(cvar_list) /\ c \in 1..Len(info) BY <1>5, <3>1, Found
    <3> QED BY <1>3, <3>2 DEF Inv, ListsOK, Lock, Cvar
  <2> HIDE DEF o, c
  <2>3. /\ R \in Seq(Info) /\ Len(R) = Len(info)
        /\ \A x \in 1..Len(info) \ {o} : R[x] = info[x]
        /\ R[o].type = info[o].type /\ R[o].id = info[o].id
        /\ R[o].freed = info[o].freed /\ R[o].locked = 0
        /\ On(R[o].waiting) \subseteq On(info[o].waiting)
        /\ R[o].waiting # <<>> => On(info[o].waiting) \cap On(q) # {}
        /\ On(ready_queue) \subseteq On(q)
        /\ Housed(active_proc, q, 0..Len(R), Places(R, lost))
    BY <1>3, ReleasedFacts, Zenon
  <2> HIDE DEF R, q
  <2>4. /\ R[c] = info[c] /\ R[c] \in Info /\ R[c].locked \in {0, 1}
        /\ R[c].pid \in Proc /\ R[c].waiting \in Seq(Proc)
    BY <2>2, <2>3, InfoFacts
  <2>5. v \in Seq(Proc) BY <2>4
  <2>6. Only(R, info', c, r)
    <3>1. info' = [R EXCEPT ![c] = [R[c] EXCEPT !.waiting = v]]
      <4> HIDE DEF v
      <4> QED BY <2>1, <2>2, <2>3
    <3> HIDE DEF v
    <3>2. [R[c] EXCEPT !.waiting = v] = r BY <2>4, <2>5, Assigned, Zenon
    <3>3. info' = [R EXCEPT ![c] = r] BY <3>1, <3>2, Zenon
    <3>4. r \in Info BY <2>4, <2>5, MadeFacts
    <3> HIDE DEF r
    <3>5. Only(R, [R EXCEPT ![c] = r], c, r)
      BY <2>2, <2>3, <3>4, OnlyFacts
    <3> QED BY <3>3, <3>5, Zenon
  <2>7. /\ r.type = info[c].type /\ r.id = info[c].id
        /\ r.freed = info[c].freed /\ r.waiting = v
    <3> HIDE DEF v
    <3> QED BY <2>4 DEF Made
  <2> HIDE DEF r
  <2>8. /\ info' \in Seq(Info) /\ Len(info') = Len(info)
        /\ info'[c] = r /\ info'[o] = R[o]
        /\ \A x \in 1..Len(info) \ {c} : info'[x] = R[x]
        /\ \A x \in 1..Len(info) \ {c, o} : info'[x] = info[x]
    BY <1>3, <2>2, <2>3, <2>6 DEF Only
  <2>9. /\ Housed(active_proc', ready_queue', 0..Len(info'), Places(info', lost'))
        /\ On(ready_queue') \cup {active_proc'} = On(q)
    <3>1. info' \in Seq(Info) /\ R \in Seq(Info) BY <2>3, <2>8
    <3>2. /\ info'[c].waiting = Append(R[c].waiting, active_proc)
          /\ \A x \in 1..Len(R) \ {c} : info'[x].waiting = R[x].waiting
          /\ Len(info') = Len(R) /\ c \in 1..Len(R)
      BY <1>2, <2>2, <2>3, <2>7, <2>8
    <3>3. normal_schedule(q, active_proc) BY <1>2, <2>1
    <3>4. /\ Housed(active_proc, q, 0..Len(R), Places(R, lost))
          /\ active_proc # Idle
      BY <1>2, <2>3
    <3>5. /\ Housed(active_proc', ready_queue', 0..Len(info'), Places(info', lost))
          /\ On(ready_queue') \cup {active_proc'} = On(q)
      BY <3>1, <3>2, <3>3, <3>4, BlocksPlaces, ZenonT(30)
    <3> QED BY <1>1, <3>5
  <2>10. /\ On(lock_list) \subseteq 1..Len(info)
         /\ On(cvar_list) \subseteq 1..Len(info)
         /\ Len(reclaim_list) \in Nat /\ c \notin On(lock_list)
    BY <2>2, ListsAreInfo DEF Inv, ListsOK, Lock, Cvar
  <2>11. \A x \in On(lock_list) \ {o} : info'[x] = info[x]
    BY <2>8, <2>10
  <2>12. /\ MutualExclusion'
         /\ holds' \in [Proc -> SUBSET (1..Len(info))]
         /\ \A x \in Proc : holds'[x] \subseteq holds[x]
    <3>1. info'[o].locked = 0 BY <2>3, <2>8
    <3> QED BY <1>1, <1>3, <2>11, <3>1, HolderOut
  <2>13. /\ kpc' \in [Proc -> Pcs] /\ args' \in [Proc -> Args]
         /\ kpc'[p] = "cvar"
         /\ \A x \in Proc \ {p} : kpc'[x] = kpc[x] /\ args'[x] = args[x]
    <3>1. a \in Args BY MaxObjAssumption DEF Args, Ids
    <3> HIDE DEF a
    <3>2. kpc \in [Proc -> Pcs] /\ args \in [Proc -> Args]
      BY DEF Inv, TypeOK, Pcs, Args
    <3>3. kpc' \in [Proc -> Pcs] /\ kpc'[p] = "cvar" BY <2>1, <3>2 DEF Pcs
    <3> QED BY <2>1, <3>1, <3>2, <3>3
  <2>14. TypeOK'
    <3>1. active_proc' \in Proc /\ ready_queue' \in Seq(Proc)
      BY <2>9 DEF Housed
    <3> QED BY <1>1, <2>8, <2>12, <2>13, <3>1 DEF Inv, TypeOK, Pcs, Args
  <2>15. FramesStep(p)
    <3>1. \A x \in On(lock_list) :
             On(info'[x].waiting) \subseteq On(info[x].waiting)
      BY <2>3, <2>8, <2>11
    <3> QED BY <1>1, <1>2, <2>13, <3>1 DEF FramesStep
  <2>16. ListsStep
    <3>1. \A x \in 1..Len(info) : /\ info'[x].type = info[x].type
                                  /\ info'[x].id = info[x].id
                                  /\ info'[x].freed = info[x].freed
      BY <2>3, <2>7, <2>8
    <3> QED BY <1>1, <2>8, <2>10, <3>1 DEF ListsStep, Inv, ListsOK
  <2>17. ListsOK' /\ FramesOK' /\ WaitersAcquire' /\ HoldsLocks' /\ IdleInUser'
    BY <1>2, <2>12, <2>15, <2>16, Kept
  <2>18. WakeupOnTheWay'
    <3>1. Ready' = On(q) BY <2>9 DEF Ready
    <3>2. /\ info'[o].waiting # <<>> => On(info[o].waiting) \cap Ready' # {}
          /\ On(ready_queue) \subseteq Ready'
      BY <2>3, <2>8, <3>1
    <3> QED BY <1>1, <1>2, <1>3, <2>11, <2>15, <3>2, ReleaseWakes
  <2> QED BY <2>9, <2>12, <2>14, <2>17, <2>18 DEF Inv
<1> QED BY <1>4, <1>5

----------------------------------------------------------------------------
(* sys_Reclaim *)

(* A structure that is on no list any more is freed. *)
LEMMA DestroyInv ==
    ASSUME Inv, NEW p \in Proc, Calls(p), NEW o \in 1..Len(info), Destroy(o),
           lock_list' \in Seq(1..Len(info)), NoDup(lock_list'),
           On(lock_list') = On(lock_list) \ {o},
           cvar_list' \in Seq(1..Len(info)), NoDup(cvar_list'),
           On(cvar_list') = On(cvar_list) \ {o},
           reclaim_list' \in Seq([id : Ids, type : {Lock, Cvar}]),
           Len(reclaim_list') <= Len(reclaim_list),
           UNCHANGED <<active_proc, kpc, on, args, lost>>
    PROVE  Inv'
<1> DEFINE w == info[o].waiting
           n == WakeCount(o)
           v == SubSeq(w, n + 1, Len(w))
           r == [type |-> info[o].type, id |-> 0, locked |-> 0, pid |-> 0,
                 waiting |-> v, freed |-> TRUE]
<1>1. active_proc = p /\ p # Idle /\ kpc[p] = "user" BY DEF Calls, InUser
<1>2. /\ info \in Seq(Info) /\ Len(info) \in Nat
      /\ On(lock_list) \subseteq 1..Len(info)
      /\ On(cvar_list) \subseteq 1..Len(info)
      /\ Len(reclaim_list) \in Nat
      /\ info[o] \in Info /\ info[o].type \in {Lock, Cvar}
      /\ w \in Seq(Proc)
  BY InfoFacts, ListsAreInfo
<1>3. n \in 0..Len(w)
  <2>1. n = (Len(w) + 1) \div 2 BY DEF WakeCount
  <2> DEFINE l == Len(w)
  <2>2. l \in Nat /\ n = (l + 1) \div 2 BY <1>2, <2>1
  <2> HIDE DEF l, n
  <2>3. n \in 0..l BY <2>2
  <2> QED BY <2>3 DEF l
<1> HIDE DEF n
<1>4. /\ ready_queue \in Seq(Proc)
      /\ Housed(active_proc, ready_queue, 0..Len(info), Places(info, lost))
  BY DEF Inv, TypeOK
<1>5. v \in Seq(Proc) /\ SubSeq(w, 1, n) \in Seq(Proc)
  <2> HIDE DEF w
  <2> QED BY <1>2, <1>3, SubSeqFacts
<1>6. Only(info, info', o, r)
  <2>1. info' = [info EXCEPT ![o] = r] BY Zenon DEF Destroy, n
  <2>2. r \in Info
    <3>1. 0 \in Proc /\ 0 \in 0..MaxObj
      BY LastPidAssumption, MaxObjAssumption DEF Proc
    <3> HIDE DEF v
    <3> QED BY <1>2, <1>5, <3>1 DEF Info
  <2> HIDE DEF r
  <2>3. Only(info, [info EXCEPT ![o] = r], o, r) BY <1>2, <2>2, OnlyFacts
  <2> QED BY <2>1, <2>3, Zenon
<1>7. r.type = info[o].type /\ r.waiting = v
  <2> HIDE DEF v
  <2> QED OBVIOUS
<1> HIDE DEF r
<1>8. /\ info' \in Seq(Info) /\ Len(info') = Len(info) /\ info'[o] = r
      /\ \A x \in 1..Len(info) \ {o} : info'[x] = info[x]
  BY <1>6 DEF Only
<1>9. /\ ready_queue' = ready_queue \o SubSeq(w, 1, n)
      /\ holds' = [x \in Proc |-> holds[x] \ {o}]
  BY DEF Destroy, n
<1>10. Housed(active_proc', ready_queue', 0..Len(info'), Places(info', lost'))
  <2>1. info' \in Seq(Info) BY <1>8
  <2>2. /\ \A x \in 1..Len(info) \ {o} : info'[x].waiting = info[x].waiting
        /\ info'[o].waiting = SubSeq(info[o].waiting, n + 1, Len(info[o].waiting))
        /\ n \in 0..Len(info[o].waiting)
    BY <1>3, <1>7, <1>8
  <2>3. Housed(active_proc, ready_queue \o SubSeq(info[o].waiting, 1, n),
               0..Len(info'), Places(info', lost))
    BY <1>2, <1>4, <1>8, <2>1, <2>2, WokenPlaces
  <2> QED BY <1>9, <2>3
<1>11. On(ready_queue) \subseteq On(ready_queue')
  <2> DEFINE f == SubSeq(w, 1, n)
  <2>1. ready_queue' = ready_queue \o f /\ f \in Seq(Proc) BY <1>5, <1>9
  <2> HIDE DEF f
  <2>2. On(ready_queue \o f) = On(ready_queue) \cup On(f)
    BY <1>4, <2>1, ConcatFacts
  <2> QED BY <2>1, <2>2, Zenon
<1>12. /\ holds' \in [Proc -> SUBSET (1..Len(info))]
       /\ \A x \in Proc : holds'[x] = holds[x] \ {o}
  <2>1. holds \in [Proc -> SUBSET (1..Len(info))] BY DEF Inv, TypeOK
  <2> QED BY <1>9, <2>1
<1>13. TypeOK'
  <2>1. ready_queue' \in Seq(Proc) BY <1>10 DEF Housed
  <2> QED BY <1>8, <1>12, <2>1 DEF Inv, TypeOK
<1>14. \A x \in On(lock_list') \cup On(cvar_list') :
          x \in 1..Len(info) /\ info'[x] = info[x]
  BY <1>2, <1>8
<1>15. FramesStep(p) BY <1>1, <1>14 DEF FramesStep
<1>16. ListsStep
  <2>1. \A x \in 1..Len(info) : info'[x].type = info[x].type
    BY <1>7, <1>8
  <2>2. Len(reclaim_list') \in Nat OBVIOUS
  <2> QED BY <1>8, <1>14, <2>1, <2>2 DEF ListsStep
<1>17. ListsOK' /\ FramesOK' /\ WaitersAcquire' /\ HoldsLocks' /\ IdleInUser'
  BY <1>1, <1>12, <1>15, <1>16, Kept
<1>18. MutualExclusion'
  <2> SUFFICES ASSUME NEW x \in On(lock_list')
               PROVE  {q \in Proc : x \in holds'[q]}
                        = IF info'[x].locked = 1 THEN {info'[x].pid} ELSE {}
    BY DEF MutualExclusion
  <2>1. x \in On(lock_list) /\ x # o /\ info'[x] = info[x] BY <1>14
  <2>2. {q \in Proc : x \in holds'[q]} = {q \in Proc : x \in holds[q]}
    BY <1>12, <2>1
  <2> QED BY <2>1, <2>2 DEF Inv, MutualExclusion
<1>19. WakeupOnTheWay'
  <2>1. Ready \ {p} \subseteq Ready' BY <1>11 DEF Ready
  <2>2. \A x \in On(lock_list') : x \in On(lock_list) /\ info'[x] = info[x]
    BY <1>14
  <2> QED BY <1>1, <1>15, <2>1, <2>2, WakeupKept
<1> QED BY <1>10, <1>13, <1>17, <1>18, <1>19 DEF Inv

(* What may be destroyed is free, or held by the caller. *)
LEMMA DestroyableFacts ==
    ASSUME Inv, NEW p, NEW id, Destroyable(p, id) # 0
    PROVE  LET i == Destroyable(p, id) IN
           /\ i \in 1..Len(lock_list)
           /\ lock_list[i] \in On(lock_list) /\ lock_list[i] \in 1..Len(info)
           /\ info[lock_list[i]].locked = 0 \/ info[lock_list[i]].pid = p
<1> DEFINE M == {i \in 1..Len(lock_list) :
                   LET l == info[lock_list[i]] IN
                   l.id = id /\ (l.locked = 0 \/ l.pid = p)}
<1>1. Destroyable(p, id) = First(M) BY DEF Destroyable
<1>2. lock_list \in Seq(1..Len(info)) BY DEF Inv, TypeOK
<1>3. Len(lock_list) \in Nat /\ M \in SUBSET (1..Len(lock_list)) BY <1>2
<1>4. \A i \in M :
         /\ i \in 1..Len(lock_list)
         /\ lock_list[i] \in On(lock_list) /\ lock_list[i] \in 1..Len(info)
         /\ info[lock_list[i]].locked = 0 \/ info[lock_list[i]].pid = p
  BY <1>2 DEF On
<1> HIDE DEF M
<1>5. Destroyable(p, id) \in M BY <1>1, <1>3, FirstFound
<1> QED BY <1>4, <1>5

LEMMA ReclaimInv ==
    ASSUME Inv, NEW p \in Proc, NEW id \in Ids, Reclaim(p, id)
    PROVE  Inv'
<1> DEFINE M == {x \in 1..Len(reclaim_list) : reclaim_list[x].id = id}
           r == First(M)
           i == Destroyable(p, id)
           j == Find(cvar_list, id)
           S == [id : Ids, type : {Lock, Cvar}]
<1>1. /\ Calls(p) /\ r # 0
      /\ reclaim_list' = list_remove(reclaim_list, r)
      /\ UNCHANGED <<active_proc, kpc, on, args, lost>>
  BY DEF Reclaim
<1>2. /\ lock_list \in Seq(1..Len(info)) /\ cvar_list \in Seq(1..Len(info))
      /\ reclaim_list \in Seq(S) /\ NoDup(lock_list) /\ NoDup(cvar_list)
      /\ On(lock_list) \cap On(cvar_list) = {}
  <2>1. lock_list \in Seq(1..Len(info)) /\ cvar_list \in Seq(1..Len(info))
    BY DEF Inv, TypeOK
  <2>2. reclaim_list \in Seq(S) BY DEF Inv, TypeOK
  <2>3. NoDup(lock_list) /\ NoDup(cvar_list) BY DEF Inv, ListsOK
  <2>4. On(lock_list) \cap On(cvar_list) = {}
    <3>1. /\ \A o \in On(lock_list) : info[o].type = 1
          /\ \A o \in On(cvar_list) : info[o].type = 2
      BY DEF Inv, ListsOK, Lock, Cvar
    <3> QED BY <3>1
  <2> QED BY <2>1, <2>2, <2>3, <2>4
<1>3. reclaim_list' \in Seq(S) /\ Len(reclaim_list') <= Len(reclaim_list)
  <2>1. Len(reclaim_list) \in Nat /\ M \in SUBSET (1..Len(reclaim_list))
    BY <1>2
  <2>2. r \in M BY <1>1, <2>1, FirstFound
  <2>3. r \in 1..Len(reclaim_list) BY <2>2
  <2> HIDE DEF S, r, M
  <2>4. /\ list_remove(reclaim_list, r) \in Seq(S)
        /\ Len(list_remove(reclaim_list, r)) = Len(reclaim_list) - 1
    BY <1>2, <2>3, RemoveFacts
  <2> QED BY <1>1, <2>1, <2>4
<1>4. CASE /\ i # 0 /\ Destroy(lock_list[i])
           /\ lock_list' = list_remove(lock_list, i) /\ UNCHANGED cvar_list
  <2> DEFINE o == lock_list[i]
  <2>1. i \in 1..Len(lock_list) /\ o \in On(lock_list) /\ o \in 1..Len(info)
    BY <1>4, DestroyableFacts
  <2> HIDE DEF i
  <2>2. /\ lock_list' \in Seq(1..Len(info)) /\ NoDup(lock_list')
        /\ On(lock_list') = On(lock_list) \ {o}
    <3>1. /\ lock_list \in Seq(1..Len(info)) /\ NoDup(lock_list)
          /\ i \in 1..Len(lock_list)
      BY <1>2, <2>1
    <3>2. /\ list_remove(lock_list, i) \in Seq(1..Len(info))
          /\ NoDup(list_remove(lock_list, i))
          /\ On(list_remove(lock_list, i)) = On(lock_list) \ {lock_list[i]}
      BY <3>1, RemoveFacts
    <3> QED BY <1>4, <3>2
  <2>3. On(cvar_list') = On(cvar_list) \ {o} BY <1>2, <1>4, <2>1
  <2>4. Destroy(o) /\ cvar_list' = cvar_list BY <1>4
  <2> HIDE DEF o
  <2> QED BY <1>1, <1>2, <1>3, <2>1, <2>2, <2>3, <2>4, DestroyInv
<1>5. CASE /\ j # 0 /\ Destroy(cvar_list[j])
           /\ cvar_list' = list_remove(cvar_list, j) /\ UNCHANGED lock_list
  <2> DEFINE o == cvar_list[j]
  <2>1. j \in 1..Len(cvar_list) /\ o \in On(cvar_list) /\ o \in 1..Len(info)
    BY <1>2, <1>5, Found
  <2> HIDE DEF j
  <2>2. /\ cvar_list' \in Seq(1..Len(info)) /\ NoDup(cvar_list')
        /\ On(cvar_list') = On(cvar_list) \ {o}
    <3>1. /\ list_remove(cvar_list, j) \in Seq(1..Len(info))
          /\ NoDup(list_remove(cvar_list, j))
          /\ On(list_remove(cvar_list, j)) = On(cvar_list) \ {o}
      BY <1>2, <2>1, RemoveFacts
    <3>2. cvar_list' = list_remove(cvar_list, j) BY <1>5
    <3> QED BY <3>1, <3>2, Zenon
  <2>3. On(lock_list') = On(lock_list) \ {o} BY <1>2, <1>5, <2>1
  <2>4. Destroy(o) /\ lock_list' = lock_list BY <1>5
  <2> HIDE DEF o
  <2> QED BY <1>1, <1>2, <1>3, <2>1, <2>2, <2>3, <2>4, DestroyInv
<1> QED BY <1>4, <1>5 DEF Reclaim

(* A clock interrupt, or nothing. *)
LEMMA PreemptInv ==
    ASSUME Inv, Preempt /\ UNCHANGED syncVars
    PROVE  Inv'
<1>1. /\ info' = info /\ lock_list' = lock_list /\ cvar_list' = cvar_list
      /\ reclaim_list' = reclaim_list /\ on' = on /\ args' = args
      /\ holds' = holds /\ lost' = lost
  BY DEF syncVars
<1>2. /\ Housed(active_proc', ready_queue', 0..Len(info), Places(info, lost))
      /\ kpc' = kpc
      /\ On(ready_queue') \cup {active_proc'} = On(ready_queue) \cup {active_proc}
  BY Preempted DEF Inv
<1>3. active_proc' \in Proc /\ ready_queue' \in Seq(Proc) BY <1>2 DEF Housed
<1>4. TypeOK' BY <1>1, <1>2, <1>3 DEF Inv, TypeOK
<1>5. ListsOK' /\ FramesOK' /\ WaitersAcquire' /\ HoldsLocks' /\ IdleInUser'
  BY <1>1, <1>2
     DEF Inv, ListsOK, FramesOK, WaitersAcquire, HoldsLocks, IdleInUser
<1>6. MutualExclusion' BY <1>1 DEF Inv, MutualExclusion
<1>7. WakeupOnTheWay' BY <1>1, <1>2 DEF Inv, WakeupOnTheWay
<1> QED BY <1>1, <1>2, <1>4, <1>5, <1>6, <1>7 DEF Inv

LEMMA StutterInv == ASSUME Inv, UNCHANGED vars PROVE Inv'
<1>1. /\ info' = info /\ lock_list' = lock_list /\ cvar_list' = cvar_list
      /\ reclaim_list' = reclaim_list /\ on' = on /\ args' = args
      /\ holds' = holds /\ lost' = lost /\ active_proc' = active_proc
      /\ ready_queue' = ready_queue /\ kpc' = kpc
  BY DEF vars, taskVars, schedVars, syncVars
<1>2. TypeOK' BY <1>1 DEF Inv, TypeOK
<1>3. ListsOK' /\ FramesOK' /\ WaitersAcquire' /\ HoldsLocks' /\ IdleInUser'
  BY <1>1 DEF Inv, ListsOK, FramesOK, WaitersAcquire, HoldsLocks, IdleInUser
<1>4. MutualExclusion' BY <1>1 DEF Inv, MutualExclusion
<1>5. WakeupOnTheWay' BY <1>1 DEF Inv, WakeupOnTheWay
<1>6. Housed(active_proc', ready_queue', 0..Len(info'), Places(info', lost'))
  BY <1>1 DEF Inv
<1> QED BY <1>2, <1>3, <1>4, <1>5, <1>6 DEF Inv

----------------------------------------------------------------------------
LEMMA NextInv == ASSUME Inv, Next PROVE Inv'
<1>1. ASSUME NEW p \in Proc, LockInit(p) \/ CvarInit(p) PROVE Inv'
  <2>1. CASE LockInit(p) BY <2>1, CreateInv DEF LockInit
  <2>2. CASE CvarInit(p) BY <2>2, CreateInv DEF CvarInit
  <2> QED BY <1>1, <2>1, <2>2
<1>2. ASSUME NEW p \in Proc, NEW id \in Ids, Acquire(p, id) PROVE Inv'
  BY <1>2, AcquireInv
<1>3. ASSUME NEW p \in Proc, AcquireBack(p) PROVE Inv'
  BY <1>3, AcquireBackInv
<1>4. ASSUME NEW p \in Proc, NEW id \in Ids, Release(p, id) PROVE Inv'
  BY <1>4, ReleaseInv
<1>5. ASSUME NEW p \in Proc, NEW id \in Ids, CvarSignal(p, id) PROVE Inv'
  BY <1>5, CvarSignalInv
<1>6. ASSUME NEW p \in Proc, NEW id \in Ids, CvarBroadcast(p, id) PROVE Inv'
  BY <1>6, CvarBroadcastInv
<1>7. ASSUME NEW p \in Proc, NEW cvar \in Ids, NEW lock \in Ids,
             CvarWait(p, cvar, lock)
      PROVE  Inv'
  BY <1>7, CvarWaitInv
<1>8. ASSUME NEW p \in Proc, CvarWaitBack(p) PROVE Inv'
  BY <1>8, CvarWaitBackInv
<1>9. ASSUME NEW p \in Proc, NEW id \in Ids, Reclaim(p, id) PROVE Inv'
  BY <1>9, ReclaimInv
<1>10. ASSUME NEW p \in Proc, NEW id \in Ids,
              CvarSignalFail(p, id) \/ CvarBroadcastFail(p, id)
       PROVE  Inv'
  BY <1>10, CvarFailInv
<1>11. ASSUME Preempt /\ UNCHANGED syncVars PROVE Inv' BY <1>11, PreemptInv
<1> QED BY <1>1, <1>2, <1>3, <1>4, <1>5, <1>6, <1>7, <1>8, <1>9, <1>10, <1>11
        DEF Next

LEMMA SpecInv == Spec => []Inv
<1>1. Inv /\ [Next]_vars => Inv' BY NextInv, StutterInv
<1> QED BY <1>1, InitInv, PTL DEF Spec

(* The kernel's variables hold what their declarations say: a pointer into a
   freed structure does not leave the structures that were allocated. *)
THEOREM TypeCorrect == Spec => []TypeOK
<1>1. Inv => TypeOK BY DEF Inv
<1> QED BY <1>1, SpecInv, PTL

(* Every process runs, is ready or waits for one lock or cvar, once, also
   when Reclaim left it waiting for what is freed; only one that a signal had
   no memory to make ready is nowhere. *)
THEOREM Residence == Spec => []SingleResidence
<1>1. ASSUME Inv PROVE SingleResidence
  <2> DEFINE W == Places(info, lost)
  <2>1. info \in Seq(Info) BY <1>1 DEF Inv, TypeOK
  <2>2. Housed(active_proc, ready_queue, 0..Len(info), W) BY <1>1 DEF Inv
  <2>3. /\ W[0] = lost /\ \A i \in 1..Len(info) : W[i] = info[i].waiting
        /\ 0 \in 0..Len(info) /\ 0 \notin 1..Len(info)
        /\ \A i \in 0..Len(info) : i = 0 \/ i \in 1..Len(info)
        /\ \A i \in 1..Len(info) : i \in 0..Len(info) /\ i # 0
    BY <2>1, <2>2, PlacesFacts
  <2> HIDE DEF W
  <2>4. UNION {On(W[i]) : i \in 0..Len(info)} = Blocked \cup On(lost)
    BY <2>3 DEF Blocked
  <2>5. PlacesOK(Blocked \cup On(lost)) BY <2>2, <2>4, HousedPlaces
  <2>6. /\ \A i \in 0..Len(info) : NoDup(W[i])
        /\ \A i, j \in 0..Len(info) : i # j => On(W[i]) \cap On(W[j]) = {}
    BY <2>2 DEF Housed
  <2>7. NoDup(lost) /\ \A o \in 1..Len(info) : NoDup(info[o].waiting)
    BY <2>3, <2>6
  <2>8. \A o \in 1..Len(info) : On(lost) \cap On(info[o].waiting) = {}
    BY <2>3, <2>6
  <2>9. On(lost) \cap Blocked = {}
    BY <2>8, Zenon DEF Blocked
  <2>10. \A o, q \in 1..Len(info) :
            o # q => On(info[o].waiting) \cap On(info[q].waiting) = {}
    <3> SUFFICES ASSUME NEW o \in 1..Len(info), NEW q \in 1..Len(info), o # q
                 PROVE  On(info[o].waiting) \cap On(info[q].waiting) = {}
      OBVIOUS
    <3>1. o \in 0..Len(info) /\ q \in 0..Len(info) BY <2>3
    <3>2. On(W[o]) \cap On(W[q]) = {} BY <2>6, <3>1
    <3> QED BY <2>3, <3>2
  <2> QED BY <2>5, <2>7, <2>9, <2>10 DEF SingleResidence
<1>2. Inv => SingleResidence BY <1>1
<1> QED BY <1>2, SpecInv, PTL

(* A lock is held by the one process it was granted to last and, while it is
   free, by nobody. *)
THEOREM MutualExclusionHolds == Spec => []MutualExclusion
<1>1. Inv => MutualExclusion BY DEF Inv
<1> QED BY <1>1, SpecInv, PTL

(* While a lock is free and somebody waits for it, somebody who was woken for
   it has yet to run. *)
THEOREM NoLostWakeup == Spec => []WakeupOnTheWay
<1>1. Inv => WakeupOnTheWay BY DEF Inv
<1> QED BY <1>1, SpecInv, PTL

(* Whoever was granted a lock loses it in no step of another process: what
   Reclaim destroys is free or its caller's, and nobody holds a cvar. *)
THEOREM NobodyElseLetsGo == Spec => OnlyHolderLetsGo
<1> DEFINE P == \A p \in Proc : holds[p] \subseteq holds'[p] \/ active_proc = p
<1>1. ASSUME Inv, Next PROVE P
  <2>1. holds \in [Proc -> SUBSET (1..Len(info))] BY <1>1 DEF Inv, TypeOK
  <2>2. ASSUME NEW p \in Proc, NEW o, NEW id, NEW exist, active_proc = p,
               TakeOrWait(p, o, id, exist)
        PROVE  P
    <3>1. holds' = holds \/ holds' = [holds EXCEPT ![p] = @ \cup {o}]
      BY <2>2 DEF TakeOrWait, Fail
    <3> QED BY <2>1, <3>1
  <2>3. ASSUME NEW p \in Proc, NEW o, active_proc = p,
               holds' = [holds EXCEPT ![p] = @ \ {o}]
        PROVE  P
    BY <2>1, <2>3
  <2>4. holds' = holds => P OBVIOUS
  <2>5. ASSUME NEW p \in Proc, NEW o, active_proc = p, Destroy(o),
               \A q \in Proc : o \in holds[q] => q = p
        PROVE  P
    <3>1. holds' = [q \in Proc |-> holds[q] \ {o}] BY <2>5 DEF Destroy
    <3> QED BY <2>5, <3>1
  <2> HIDE DEF P
  <2>6. ASSUME NEW p \in Proc, NEW id \in Ids, Reclaim(p, id) PROVE P
    <3> DEFINE i == Destroyable(p, id)
               j == Find(cvar_list, id)
    <3>1. active_proc = p BY <2>6 DEF Reclaim, Calls, InUser
    <3>2. CASE i # 0 /\ Destroy(lock_list[i])
      <4> DEFINE o == lock_list[i]
      <4>1. /\ o \in On(lock_list)
            /\ info[o].locked = 0 \/ info[o].pid = p
        BY <1>1, <3>2, DestroyableFacts
      <4>2. {q \in Proc : o \in holds[q]} =
              IF info[o].locked = 1 THEN {info[o].pid} ELSE {}
        BY <1>1, <4>1 DEF Inv, MutualExclusion
      <4>3. \A q \in Proc : o \in holds[q] => q = p
        <5> HIDE DEF o
        <5>1. ASSUME NEW q \in Proc, o \in holds[q]
              PROVE  info[o].locked = 1 /\ q = info[o].pid
          BY <4>2, <5>1
        <5> QED BY <4>1, <5>1
      <4>4. Destroy(o) BY <3>2
      <4> HIDE DEF o
      <4> QED BY <2>5, <3>1, <4>3, <4>4
    <3>3. CASE j # 0 /\ Destroy(cvar_list[j])
      <4> DEFINE o == cvar_list[j]
      <4>1. cvar_list \in Seq(1..Len(info)) BY <1>1 DEF Inv, TypeOK
      <4>2. o \in On(cvar_list) BY <3>3, <4>1, Found
      <4>3. \A q \in Proc : o \notin holds[q]
        BY <1>1, <4>2 DEF Inv, ListsOK, HoldsLocks, Lock, Cvar
      <4>4. Destroy(o) BY <3>3
      <4> HIDE DEF o
      <4> QED BY <2>5, <3>1, <4>3, <4>4
    <3> QED BY <2>6, <3>2, <3>3 DEF Reclaim
  <2>7. ASSUME NEW p \in Proc, LockInit(p) \/ CvarInit(p) PROVE P
    BY <2>4, <2>7 DEF LockInit, CvarInit, Create
  <2>8. ASSUME NEW p \in Proc, NEW id \in Ids, Acquire(p, id) PROVE P
    BY <2>2, <2>8 DEF Acquire, Calls, InUser
  <2>9. ASSUME NEW p \in Proc, AcquireBack(p) PROVE P
    BY <2>2, <2>4, <2>9 DEF AcquireBack, Fail
  <2>10. ASSUME NEW p \in Proc, NEW id \in Ids, Release(p, id) PROVE P
    BY <2>3, <2>10 DEF Release, Calls, InUser
  <2>11. ASSUME NEW p \in Proc, NEW id \in Ids,
                \/ CvarSignal(p, id) \/ CvarBroadcast(p, id)
                \/ CvarSignalFail(p, id) \/ CvarBroadcastFail(p, id)
         PROVE  P
    BY <2>4, <2>11 DEF CvarSignal, CvarBroadcast, CvarSignalFail,
                       CvarBroadcastFail, LostOne
  <2>12. ASSUME NEW p \in Proc, NEW cvar \in Ids, NEW lock \in Ids,
                CvarWait(p, cvar, lock)
         PROVE  P
    BY <2>3, <2>12 DEF CvarWait, Calls, InUser
  <2>13. ASSUME NEW p \in Proc, CvarWaitBack(p) PROVE P
    BY <2>2, <2>4, <2>13 DEF CvarWaitBack, Fail
  <2>14. ASSUME UNCHANGED syncVars PROVE P BY <2>4, <2>14 DEF syncVars
  <2> QED BY <1>1, <2>6, <2>7, <2>8, <2>9, <2>10, <2>11, <2>12, <2>13, <2>14
          DEF Next
<1>2. Inv /\ [Next]_vars => [P]_vars BY <1>1
<1> HIDE DEF P
<1>3. Spec => [][P]_vars BY <1>2, SpecInv, PTL DEF Spec
<1> QED BY <1>3, PTL DEF P, OnlyHolderLetsGo
=============================================================================
