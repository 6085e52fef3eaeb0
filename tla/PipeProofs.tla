------------------------------ MODULE PipeProofs ------------------------------
(***************************************************************************)
(* The safety of pipes, for any number of processes, pipes and bytes and   *)
(* any size of the buffer, with readers that wake up at a pipe that was    *)
(* freed.                                                                  *)
(***************************************************************************)
EXTENDS Pipe, TasksProofs

\* The list of pipes holds every pipe that is not freed, once; what can be
\* reclaimed was allocated.
ListsOK ==
    /\ NoDup(pipe_list)
    /\ On(pipe_list) = {o \in 1..Len(info) : ~info[o].freed}
    /\ Len(reclaim_list) <= Len(info)

\* A call of sys_PipeRead that goes on works on a pipe, and looks for the id
\* of that pipe as long as it is not freed.
FramesOK ==
    \A p \in Proc : kpc[p] = "pipe" =>
        /\ frame[p].p \in 1..Len(info)
        /\ ~info[frame[p].p].freed => frame[p].id = info[frame[p].p].id

\* Whoever waits at a pipe is inside sys_PipeRead with it.
WaitersRead ==
    \A o \in 1..Len(info) : \A p \in On(info[o].waiting) :
        kpc[p] = "pipe" /\ frame[p].p = o

\* idle makes no call.
IdleInUser == kpc[Idle] = "user"

\* The inductive invariant.
Inv ==
    /\ TypeOK
    /\ Housed(active_proc, ready_queue, 1..Len(info), Waits(info))
    /\ ListsOK /\ FramesOK /\ WaitersRead /\ IdleInUser
    /\ FirstInFirstOut
    /\ LoneReaderWoken

----------------------------------------------------------------------------
(* The structures *)

LEMMA InfoFacts ==
    ASSUME NEW in \in Seq(Info)
    PROVE  /\ Len(in) \in Nat /\ Waiters(in)
           /\ \A o \in 1..Len(in) :
                 /\ in[o] \in Info /\ in[o].id \in 0..MaxPipe
                 /\ in[o].buffer \in Seq(1..MaxByte)
                 /\ in[o].waiting \in Seq(Proc) /\ in[o].sent \in 0..MaxByte
                 /\ in[o].taken \in Seq(1..MaxByte)
                 /\ in[o].freed \in BOOLEAN
<1>1. \A o \in 1..Len(in) : in[o] \in Info OBVIOUS
<1>2. ASSUME NEW r \in Info
      PROVE  /\ r.id \in 0..MaxPipe /\ r.buffer \in Seq(1..MaxByte)
             /\ r.waiting \in Seq(Proc) /\ r.sent \in 0..MaxByte
             /\ r.taken \in Seq(1..MaxByte) /\ r.freed \in BOOLEAN
  BY DEF Info
<1> QED BY <1>1, <1>2 DEF Waiters

\* A pipe with other values of what changes during its life.
Made(r, buffer, waiting, sent, taken) ==
    [id |-> r.id, buffer |-> buffer, waiting |-> waiting, freed |-> r.freed,
     sent |-> sent, taken |-> taken]

LEMMA MadeFacts ==
    ASSUME NEW r \in Info, NEW b \in Seq(1..MaxByte), NEW w \in Seq(Proc),
           NEW s \in 0..MaxByte, NEW t \in Seq(1..MaxByte)
    PROVE  LET m == Made(r, b, w, s, t) IN
           /\ m \in Info /\ m.id = r.id /\ m.freed = r.freed
           /\ m.buffer = b /\ m.waiting = w /\ m.sent = s /\ m.taken = t
  BY DEF Made, Info

\* The assignments of a call that waits or wakes only, of one that reads and
\* of one that writes.
WaitSet(r, w) == [r EXCEPT !.waiting = w]
ReadSet(r, b, t, w) == [r EXCEPT !.buffer = b, !.taken = t, !.waiting = w]
WriteSet(r, b, s, w) == [r EXCEPT !.buffer = b, !.sent = s, !.waiting = w]

(* The last assignment of each of them. *)
LEMMA WaitingAssigned ==
    ASSUME NEW r \in Info, NEW w \in Seq(Proc)
    PROVE  [r EXCEPT !.waiting = w] = Made(r, r.buffer, w, r.sent, r.taken)
<1> DEFINE x == [r EXCEPT !.waiting = w]
           F == {"id", "buffer", "waiting", "freed", "sent", "taken"}
           m == Made(r, r.buffer, w, r.sent, r.taken)
<1>1. DOMAIN x = F /\ DOMAIN m = F BY DEF Made, Info
<1>2. /\ x["id"] = m["id"] /\ x["buffer"] = m["buffer"]
      /\ x["waiting"] = m["waiting"] /\ x["freed"] = m["freed"]
      /\ x["sent"] = m["sent"] /\ x["taken"] = m["taken"]
  BY DEF Made, Info
<1>3. x = [f \in DOMAIN x |-> x[f]] BY DEF Info
<1>4. m = [f \in DOMAIN m |-> m[f]] BY DEF Made
<1> HIDE DEF x, m
<1>5. \A f \in F : x[f] = m[f] BY <1>2
<1>6. x = m BY <1>1, <1>3, <1>4, <1>5
<1> QED BY <1>6 DEF x, m

LEMMA WaitAssigned ==
    ASSUME NEW r \in Info, NEW w \in Seq(Proc)
    PROVE  WaitSet(r, w) = Made(r, r.buffer, w, r.sent, r.taken)
  BY WaitingAssigned DEF WaitSet

LEMMA ReadAssigned ==
    ASSUME NEW r \in Info, NEW b \in Seq(1..MaxByte), NEW w \in Seq(Proc),
           NEW t \in Seq(1..MaxByte)
    PROVE  ReadSet(r, b, t, w) = Made(r, b, w, r.sent, t)
<1> DEFINE x == [r EXCEPT !.buffer = b]
           y == [x EXCEPT !.taken = t]
<1>1. ReadSet(r, b, t, w) = [y EXCEPT !.waiting = w] BY DEF ReadSet
<1>2. /\ x \in Info /\ x.id = r.id /\ x.buffer = b /\ x.freed = r.freed
      /\ x.sent = r.sent
  BY DEF Info
<1> HIDE DEF x
<1>3. /\ y \in Info /\ y.id = r.id /\ y.buffer = b /\ y.freed = r.freed
      /\ y.sent = r.sent /\ y.taken = t
  BY <1>2 DEF Info
<1> HIDE DEF y
<1>4. [y EXCEPT !.waiting = w] = Made(y, y.buffer, w, y.sent, y.taken)
  BY <1>3, WaitingAssigned
<1>5. Made(y, y.buffer, w, y.sent, y.taken) = Made(r, b, w, r.sent, t)
  BY <1>3 DEF Made
<1> QED BY <1>1, <1>4, <1>5, Zenon

LEMMA WriteAssigned ==
    ASSUME NEW r \in Info, NEW b \in Seq(1..MaxByte), NEW w \in Seq(Proc),
           NEW s \in 0..MaxByte
    PROVE  WriteSet(r, b, s, w) = Made(r, b, w, s, r.taken)
<1> DEFINE x == [r EXCEPT !.buffer = b]
           y == [x EXCEPT !.sent = s]
<1>1. WriteSet(r, b, s, w) = [y EXCEPT !.waiting = w] BY DEF WriteSet
<1>2. /\ x \in Info /\ x.id = r.id /\ x.buffer = b /\ x.freed = r.freed
      /\ x.taken = r.taken
  BY DEF Info
<1> HIDE DEF x
<1>3. /\ y \in Info /\ y.id = r.id /\ y.buffer = b /\ y.freed = r.freed
      /\ y.sent = s /\ y.taken = r.taken
  BY <1>2 DEF Info
<1> HIDE DEF y
<1>4. [y EXCEPT !.waiting = w] = Made(y, y.buffer, w, y.sent, y.taken)
  BY <1>3, WaitingAssigned
<1>5. Made(y, y.buffer, w, y.sent, y.taken) = Made(r, b, w, s, r.taken)
  BY <1>3 DEF Made
<1> QED BY <1>1, <1>4, <1>5, Zenon

LEMMA ReadFacts ==
    ASSUME NEW r \in Info, NEW b \in Seq(1..MaxByte), NEW w \in Seq(Proc),
           NEW t \in Seq(1..MaxByte)
    PROVE  LET m == ReadSet(r, b, t, w) IN
           /\ m \in Info /\ m.id = r.id /\ m.freed = r.freed
           /\ m.buffer = b /\ m.waiting = w /\ m.sent = r.sent /\ m.taken = t
<1> DEFINE m == Made(r, b, w, r.sent, t)
<1>1. ReadSet(r, b, t, w) = m BY ReadAssigned
<1>2. r.sent \in 0..MaxByte /\ t \in Seq(1..MaxByte) BY DEF Info
<1>3. /\ m \in Info /\ m.id = r.id /\ m.freed = r.freed
      /\ m.buffer = b /\ m.waiting = w /\ m.sent = r.sent /\ m.taken = t
  BY <1>2, MadeFacts
<1> HIDE DEF m
<1> QED BY <1>1, <1>3, Zenon

LEMMA WriteFacts ==
    ASSUME NEW r \in Info, NEW b \in Seq(1..MaxByte), NEW w \in Seq(Proc),
           NEW s \in 0..MaxByte
    PROVE  LET m == WriteSet(r, b, s, w) IN
           /\ m \in Info /\ m.id = r.id /\ m.freed = r.freed
           /\ m.buffer = b /\ m.waiting = w /\ m.sent = s /\ m.taken = r.taken
<1> DEFINE m == Made(r, b, w, s, r.taken)
<1>1. WriteSet(r, b, s, w) = m BY WriteAssigned
<1>2. s \in 0..MaxByte /\ r.taken \in Seq(1..MaxByte) BY DEF Info
<1>3. /\ m \in Info /\ m.id = r.id /\ m.freed = r.freed
      /\ m.buffer = b /\ m.waiting = w /\ m.sent = s /\ m.taken = r.taken
  BY <1>2, MadeFacts
<1> HIDE DEF m
<1> QED BY <1>1, <1>3, Zenon

\* Pipe o becomes r, the others stay as they are.
Only(in, new, o, r) ==
    /\ new \in Seq(Info) /\ Len(new) = Len(in)
    /\ new[o] = r
    /\ \A q \in 1..Len(in) \ {o} : new[q] = in[q]

LEMMA OnlyFacts ==
    ASSUME NEW in \in Seq(Info), NEW o \in 1..Len(in), NEW r \in Info
    PROVE  Only(in, [in EXCEPT ![o] = r], o, r)
  BY DEF Only

(* What TypeOK and the lists give the other lemmas. *)
LEMMA Types ==
    ASSUME Inv
    PROVE  /\ info \in Seq(Info) /\ Len(info) \in Nat /\ Waiters(info)
           /\ Len(reclaim_list) \in Nat
           /\ pipe_list \in Seq(1..Len(info))
           /\ On(pipe_list) \subseteq 1..Len(info)
           /\ ready_queue \in Seq(Proc) /\ On(ready_queue) \subseteq Proc
<1>1. /\ info \in Seq(Info) /\ pipe_list \in Seq(1..Len(info))
      /\ reclaim_list \in Seq(Ids) /\ ready_queue \in Seq(Proc)
  BY DEF Inv, TypeOK
<1>2. On(pipe_list) \subseteq 1..Len(info) /\ On(ready_queue) \subseteq Proc
  BY <1>1, OnSubset
<1> QED BY <1>1, <1>2, InfoFacts

(* The active process waits nowhere, and who waits is a process. *)
LEMMA ActiveWaitsNot ==
    ASSUME Inv, NEW o \in 1..Len(info)
    PROVE  /\ active_proc \notin On(info[o].waiting)
           /\ On(info[o].waiting) \subseteq Proc
<1>1. Waits(info)[o] = info[o].waiting BY Types, WaitsFacts
<1>2. info[o].waiting \in Seq(Proc) BY Types DEF Waiters
<1> QED BY <1>1, <1>2, OnSubset DEF Inv, Housed

(* The walk over the list of pipes. *)
LEMMA FindFacts ==
    ASSUME Inv, NEW id
    PROVE  /\ Find(id) # 0 =>
                /\ Find(id) \in 1..Len(pipe_list)
                /\ pipe_list[Find(id)] \in On(pipe_list)
                /\ pipe_list[Find(id)] \in 1..Len(info)
                /\ info[pipe_list[Find(id)]].id = id
                /\ ~info[pipe_list[Find(id)]].freed
           /\ Find(id) = 0 => \A o \in On(pipe_list) : info[o].id # id
<1> DEFINE M == {i \in 1..Len(pipe_list) : info[pipe_list[i]].id = id}
<1>1. Find(id) = IF M = {} THEN 0 ELSE CHOOSE i \in M : \A j \in M : i <= j
  BY DEF Find
<1>2. pipe_list \in Seq(1..Len(info)) BY Types
<1>3. M \in SUBSET Nat /\ 0 \notin M BY <1>2
<1>4. CASE M = {}
  <2>1. Find(id) = 0 BY <1>1, <1>4
  <2>2. \A o \in On(pipe_list) : info[o].id # id BY <1>4 DEF On
  <2> QED BY <2>1, <2>2
<1>5. CASE M # {}
  <2>1. \A i \in M :
           /\ i \in 1..Len(pipe_list) /\ pipe_list[i] \in On(pipe_list)
           /\ pipe_list[i] \in 1..Len(info) /\ info[pipe_list[i]].id = id
    BY <1>2 DEF On
  <2> HIDE DEF M
  <2>2. \E i \in M : \A j \in M : i <= j BY <1>3, <1>5, Smallest
  <2>3. Find(id) = CHOOSE i \in M : \A j \in M : i <= j BY <1>1, <1>5
  <2>4. Find(id) \in M BY <2>2, <2>3
  <2>5. Find(id) # 0 BY <1>3, <2>4
  <2>6. ~info[pipe_list[Find(id)]].freed
    BY <2>1, <2>4 DEF Inv, ListsOK
  <2> QED BY <2>1, <2>4, <2>5, <2>6
<1> QED BY <1>4, <1>5

----------------------------------------------------------------------------
(* What a step of process p at pipe o keeps *)

\* p alone goes on somewhere else.
FramesStep(p) ==
    /\ p # Idle
    /\ \A q \in Proc \ {p} : kpc'[q] = kpc[q] /\ frame'[q] = frame[q]
    /\ kpc'[p] = "pipe" =>
          /\ frame'[p].p \in 1..Len(info)
          /\ ~info[frame'[p].p].freed => frame'[p].id = info[frame'[p].p].id

\* Pipe o alone changes: it may be freed, and leave the list then, and p may
\* join those who wait at it.
PipeStep(p, o) ==
    /\ info' \in Seq(Info) /\ Len(info') = Len(info)
    /\ \A q \in 1..Len(info) \ {o} : info'[q] = info[q]
    /\ info[o].freed => info'[o].freed
    /\ ~info'[o].freed => info'[o].id = info[o].id
    /\ NoDup(pipe_list')
    /\ On(pipe_list') = {q \in On(pipe_list) : ~info'[q].freed}
    /\ Len(reclaim_list') \in Nat /\ Len(reclaim_list') <= Len(reclaim_list)
    /\ \A q \in On(info'[o].waiting) :
          \/ q \in On(info[o].waiting)
          \/ q = p /\ kpc'[p] = "pipe" /\ frame'[p].p = o

LEMMA Kept ==
    ASSUME Inv, NEW p \in Proc, active_proc = p, NEW o \in 1..Len(info),
           FramesStep(p), PipeStep(p, o)
    PROVE  ListsOK' /\ FramesOK' /\ WaitersRead' /\ IdleInUser'
<1>1. Len(info) \in Nat /\ Len(reclaim_list) \in Nat BY Types
<1>2. ListsOK'
  <2>1. Len(reclaim_list') <= Len(info') BY <1>1 DEF Inv, ListsOK, PipeStep
  <2>2. On(pipe_list) = {q \in 1..Len(info) : ~info[q].freed}
    BY DEF Inv, ListsOK
  <2>3. \A q \in 1..Len(info) : ~info'[q].freed => ~info[q].freed
    BY DEF PipeStep
  <2>4. On(pipe_list') = {q \in 1..Len(info') : ~info'[q].freed}
    BY <2>2, <2>3 DEF PipeStep
  <2> QED BY <2>1, <2>4 DEF ListsOK, PipeStep
<1>3. FramesOK'
  <2> SUFFICES ASSUME NEW q \in Proc, kpc'[q] = "pipe"
               PROVE  /\ frame'[q].p \in 1..Len(info')
                      /\ ~info'[frame'[q].p].freed
                           => frame'[q].id = info'[frame'[q].p].id
    BY DEF FramesOK
  <2>1. /\ frame'[q].p \in 1..Len(info)
        /\ ~info[frame'[q].p].freed => frame'[q].id = info[frame'[q].p].id
    <3>1. CASE q = p BY <3>1 DEF FramesStep
    <3>2. CASE q # p BY <3>2 DEF FramesStep, Inv, FramesOK
    <3> QED BY <3>1, <3>2
  <2> QED BY <2>1 DEF PipeStep
<1>4. WaitersRead'
  <2> SUFFICES ASSUME NEW x \in 1..Len(info), NEW q \in On(info'[x].waiting)
               PROVE  kpc'[q] = "pipe" /\ frame'[q].p = x
    BY DEF WaitersRead, PipeStep
  <2>1. CASE q = p /\ kpc'[p] = "pipe" /\ frame'[p].p = x BY <2>1
  <2>2. CASE q \in On(info[x].waiting)
    <3>1. q # p /\ q \in Proc BY <2>2, ActiveWaitsNot
    <3>2. kpc[q] = "pipe" /\ frame[q].p = x BY <2>2 DEF Inv, WaitersRead
    <3> QED BY <3>1, <3>2 DEF FramesStep
  <2> QED BY <2>1, <2>2 DEF PipeStep
<1>5. IdleInUser' BY IdleIsProc DEF Inv, IdleInUser, FramesStep
<1> QED BY <1>2, <1>3, <1>4, <1>5

\* What came out of a pipe and what is in it is what came in, and it fits.
Fifo(r) ==
    /\ r.taken \o r.buffer = [i \in 1..r.sent |-> i]
    /\ Len(r.buffer) <= PIPE_BUF_SIZE

LEMMA FifoKept ==
    ASSUME Inv, NEW p, NEW o \in 1..Len(info), PipeStep(p, o), Fifo(info'[o])
    PROVE  FirstInFirstOut'
<1>1. \A q \in 1..Len(info) : Fifo(info[q])
  BY DEF Inv, FirstInFirstOut, Fifo
<1>2. \A q \in 1..Len(info) : Fifo(info'[q]) BY <1>1 DEF PipeStep
<1> QED BY <1>2 DEF FirstInFirstOut, PipeStep, Fifo

\* Who runs or is ready.
Ready == On(ready_queue) \cup {active_proc}

\* The lone reader of pipe o does not wait for bytes that are there.
Lone(o) ==
    Len(info[o].waiting) = 1 /\ ~info[o].freed /\ OnTheWay(o) = {}
      => Len(info[o].buffer) < frame[Head(info[o].waiting)].len

LEMMA LoneKept ==
    ASSUME Inv, NEW p \in Proc, active_proc = p, NEW o \in 1..Len(info),
           FramesStep(p), PipeStep(p, o), Ready \ {p} \subseteq Ready',
           kpc[p] = "pipe" => frame[p].p = o,
           Lone(o)'
    PROVE  LoneReaderWoken'
<1> SUFFICES ASSUME NEW x \in 1..Len(info), x # o PROVE Lone(x)'
  BY DEF LoneReaderWoken, Lone, PipeStep
<1>1. SUFFICES ASSUME Len(info[x].waiting) = 1, ~info[x].freed,
                      OnTheWay(x)' = {}
               PROVE  Len(info[x].buffer) < frame'[Head(info[x].waiting)].len
  BY DEF Lone, PipeStep
<1>2. OnTheWay(x) = {}
  <2> SUFFICES ASSUME NEW q \in OnTheWay(x) PROVE FALSE OBVIOUS
  <2>1. q \in Ready /\ kpc[q] = "pipe" /\ frame[q].p = x
    BY DEF OnTheWay, Ready
  <2>2. q # p BY <2>1
  <2>3. q \in Proc BY <2>1, Types DEF Ready
  <2>4. q \in Ready' /\ kpc'[q] = "pipe" /\ frame'[q].p = x
    BY <2>1, <2>2, <2>3 DEF FramesStep
  <2>5. q \in OnTheWay(x)' BY <2>4 DEF OnTheWay, Ready
  <2> QED BY <1>1, <2>5
<1>3. Len(info[x].buffer) < frame[Head(info[x].waiting)].len
  BY <1>1, <1>2 DEF Inv, LoneReaderWoken
<1>4. frame'[Head(info[x].waiting)] = frame[Head(info[x].waiting)]
  <2> DEFINE w == info[x].waiting
  <2>1. w \in Seq(Proc) BY Types DEF Waiters
  <2>2. Head(w) \in On(w)
    <3> HIDE DEF w
    <3>1. w # <<>> BY <1>1 DEF w
    <3> QED BY <2>1, <3>1, TailFacts
  <2>3. Head(w) # p /\ Head(w) \in Proc BY <2>2, ActiveWaitsNot
  <2> QED BY <2>3 DEF FramesStep
<1> QED BY <1>3, <1>4

----------------------------------------------------------------------------
(* The bytes *)

LEMMA ConcatAt ==
    ASSUME NEW S, NEW s \in Seq(S), NEW t \in Seq(S)
    PROVE  /\ s \o t \in Seq(S) /\ Len(s \o t) = Len(s) + Len(t)
           /\ \A i \in 1..Len(s) : (s \o t)[i] = s[i]
           /\ \A i \in 1..Len(t) : (s \o t)[Len(s) + i] = t[i]
  OBVIOUS

LEMMA SameSeq ==
    ASSUME NEW S, NEW s \in Seq(S), NEW t \in Seq(S), Len(s) = Len(t),
           \A i \in 1..Len(s) : s[i] = t[i]
    PROVE  s = t
  OBVIOUS

(* Reading moves bytes from the front of the buffer to what went out. *)
LEMMA ReadBytes ==
    ASSUME NEW S, NEW t \in Seq(S), NEW b \in Seq(S), NEW n \in 0..Len(b)
    PROVE  /\ SubSeq(b, n + 1, Len(b)) \in Seq(S)
           /\ Len(SubSeq(b, n + 1, Len(b))) <= Len(b)
           /\ t \o SubSeq(b, 1, n) \in Seq(S)
           /\ (t \o SubSeq(b, 1, n)) \o SubSeq(b, n + 1, Len(b)) = t \o b
<1> DEFINE x == SubSeq(b, 1, n)
           y == SubSeq(b, n + 1, Len(b))
           l == Len(b)
           k == Len(t)
<1>1. /\ l \in Nat /\ k \in Nat /\ n \in Nat /\ n <= l
      /\ x \in Seq(S) /\ Len(x) = n /\ \A i \in 1..n : x[i] = b[i]
      /\ y \in Seq(S) /\ Len(y) = l - n /\ \A i \in 1..l - n : y[i] = b[n + i]
  BY SubSeqFacts
<1> HIDE DEF x, y
<1> DEFINE c == t \o x
           d == c \o y
           e == t \o b
<1>2. /\ c \in Seq(S) /\ Len(c) = k + n
      /\ \A i \in 1..k : c[i] = t[i]
      /\ \A i \in 1..n : c[k + i] = x[i]
  <2>1. /\ c \in Seq(S) /\ Len(c) = Len(t) + Len(x)
        /\ \A i \in 1..Len(t) : c[i] = t[i]
        /\ \A i \in 1..Len(x) : c[Len(t) + i] = x[i]
    BY <1>1, ConcatAt
  <2> QED BY <1>1, <2>1
<1>3. /\ e \in Seq(S) /\ Len(e) = k + l
      /\ \A i \in 1..k : e[i] = t[i]
      /\ \A i \in 1..l : e[k + i] = b[i]
  BY <1>1
<1> HIDE DEF c, e
<1>4. /\ d \in Seq(S) /\ Len(d) = (k + n) + (l - n)
      /\ \A i \in 1..k + n : d[i] = c[i]
      /\ \A i \in 1..l - n : d[(k + n) + i] = y[i]
  <2>1. /\ d \in Seq(S) /\ Len(d) = Len(c) + Len(y)
        /\ \A i \in 1..Len(c) : d[i] = c[i]
        /\ \A i \in 1..Len(y) : d[Len(c) + i] = y[i]
    <3>1. c \in Seq(S) /\ y \in Seq(S) BY <1>1, <1>2
    <3> QED BY <3>1, ConcatAt
  <2> QED BY <1>1, <1>2, <2>1
<1> HIDE DEF d
<1>5. Len(d) = k + l BY <1>1, <1>4
<1>6. ASSUME NEW i \in 1..k + l PROVE d[i] = e[i]
  <2>1. CASE i \in 1..k
    <3>1. i \in 1..k + n BY <1>1, <2>1
    <3> QED BY <1>2, <1>3, <1>4, <2>1, <3>1
  <2>2. CASE i \in k + 1..k + n
    <3>1. i - k \in 1..n /\ i - k \in 1..l /\ i = k + (i - k)
          /\ i \in 1..k + n
      BY <1>1, <2>2
    <3>2. d[i] = c[i] BY <1>4, <3>1
    <3>3. c[i] = x[i - k] BY <1>2, <3>1
    <3>4. e[i] = b[i - k] BY <1>3, <3>1
    <3> QED BY <1>1, <3>1, <3>2, <3>3, <3>4
  <2>3. CASE i \in k + n + 1..k + l
    <3> DEFINE j == i - (k + n)
    <3>1. j \in 1..l - n /\ i = (k + n) + j /\ n + j \in 1..l
          /\ i = k + (n + j)
      BY <1>1, <2>3
    <3> HIDE DEF j
    <3>2. d[i] = y[j] BY <1>4, <3>1
    <3>3. e[i] = b[n + j] BY <1>3, <3>1
    <3> QED BY <1>1, <3>1, <3>2, <3>3
  <2> QED BY <1>1, <2>1, <2>2, <2>3
<1>7. d = e
  <2>1. \A i \in 1..Len(d) : d[i] = e[i] BY <1>5, <1>6
  <2> QED BY <1>3, <1>4, <1>5, <2>1, SameSeq
<1>8. c \in Seq(S) /\ Len(y) <= l BY <1>1, <1>2
<1> QED BY <1>1, <1>7, <1>8 DEF x, y, c, d, e

\* The first s bytes, and the n bytes behind them.
Bytes(s) == [i \in 1..s |-> i]
BytesBehind(s, n) == [i \in 1..n |-> s + i]

\* n bytes put behind b: what went out is t.
Continues(t, b, s, n) ==
    LET c == b \o BytesBehind(s, n) IN
    t \o b = Bytes(s) =>
       c \in Seq(1..MaxByte) /\ Len(c) = Len(b) + n /\ t \o c = Bytes(s + n)

(* Writing numbers the new bytes on. *)
LEMMA WrittenBytes ==
    ASSUME NEW t \in Seq(1..MaxByte), NEW b \in Seq(1..MaxByte),
           NEW s \in Nat, NEW n \in Nat, s + n <= MaxByte
    PROVE  Continues(t, b, s, n)
<1> DEFINE S == 1..MaxByte
           a == BytesBehind(s, n)
           l == Len(b)
           k == Len(t)
           e == t \o b
           c == b \o a
           d == t \o c
           z == Bytes(s + n)
<1>1. /\ a \in Seq(S) /\ Len(a) = n /\ \A i \in 1..n : a[i] = s + i
  BY PipeAssumption DEF BytesBehind
<1>2. l \in Nat /\ k \in Nat /\ t \in Seq(S) /\ b \in Seq(S) OBVIOUS
<1>3. /\ e \in Seq(S) /\ Len(e) = k + l
      /\ \A i \in 1..k : e[i] = t[i]
      /\ \A i \in 1..l : e[k + i] = b[i]
  <2>1. t \in Seq(S) /\ b \in Seq(S) BY <1>2
  <2> HIDE DEF S
  <2>2. /\ e \in Seq(S) /\ Len(e) = Len(t) + Len(b)
        /\ \A i \in 1..Len(t) : e[i] = t[i]
        /\ \A i \in 1..Len(b) : e[Len(t) + i] = b[i]
    BY <2>1, ConcatAt
  <2> QED BY <2>2
<1> HIDE DEF e
<1> SUFFICES ASSUME e = Bytes(s)
             PROVE  c \in Seq(S) /\ Len(c) = Len(b) + n /\ d = z
  BY DEF e, Continues
<1>4. Len(e) = s /\ \A i \in 1..s : e[i] = i BY DEF Bytes
<1> HIDE DEF a
<1>5. /\ c \in Seq(S) /\ Len(c) = l + n
      /\ \A i \in 1..l : c[i] = b[i]
      /\ \A i \in 1..n : c[l + i] = a[i]
  <2> HIDE DEF S
  <2>1. /\ c \in Seq(S) /\ Len(c) = Len(b) + Len(a)
        /\ \A i \in 1..Len(b) : c[i] = b[i]
        /\ \A i \in 1..Len(a) : c[Len(b) + i] = a[i]
    <3>1. b \in Seq(S) /\ a \in Seq(S) BY <1>1, <1>2
    <3> QED BY <3>1, ConcatAt
  <2> QED BY <1>1, <2>1
<1> HIDE DEF c
<1>6. /\ d \in Seq(S) /\ Len(d) = k + (l + n)
      /\ \A i \in 1..k : d[i] = t[i]
      /\ \A i \in 1..l + n : d[k + i] = c[i]
  <2> HIDE DEF S
  <2>1. /\ d \in Seq(S) /\ Len(d) = Len(t) + Len(c)
        /\ \A i \in 1..Len(t) : d[i] = t[i]
        /\ \A i \in 1..Len(c) : d[Len(t) + i] = c[i]
    <3>1. t \in Seq(S) /\ c \in Seq(S) BY <1>2, <1>5
    <3> QED BY <3>1, ConcatAt
  <2> QED BY <1>5, <2>1
<1>7. z \in Seq(S) /\ Len(z) = s + n /\ \A i \in 1..s + n : z[i] = i
  BY PipeAssumption DEF Bytes
<1> HIDE DEF d, z
<1>8. s = k + l /\ Len(d) = s + n
  <2>1. s = k + l BY <1>3, <1>4
  <2> HIDE DEF k, l
  <2> QED BY <1>2, <1>6, <2>1
<1>9. ASSUME NEW i \in 1..s + n PROVE d[i] = i
  <2>1. CASE i \in 1..k
    <3>1. i \in 1..s BY <1>2, <1>8, <2>1
    <3> QED BY <1>3, <1>4, <1>6, <2>1, <3>1
  <2>2. CASE i \in k + 1..k + l
    <3> DEFINE j == i - k
    <3>1. j \in 1..l /\ j \in 1..l + n /\ i = k + j /\ i \in 1..s
      BY <1>2, <1>8, <2>2
    <3> HIDE DEF j
    <3>2. d[i] = c[j] BY <1>6, <3>1
    <3>3. c[j] = b[j] BY <1>5, <3>1
    <3>4. e[i] = b[j] BY <1>3, <3>1
    <3>5. e[i] = i BY <1>4, <3>1
    <3> QED BY <3>2, <3>3, <3>4, <3>5
  <2>3. CASE i \in s + 1..s + n
    <3> DEFINE j == i - s
    <3>1. /\ j \in 1..n /\ l + j \in 1..l + n /\ i = k + (l + j)
          /\ i = s + j
      BY <1>2, <1>8, <2>3
    <3> HIDE DEF j
    <3>2. d[i] = c[l + j] BY <1>6, <3>1
    <3>3. c[l + j] = a[j] BY <1>5, <3>1
    <3>4. a[j] = s + j BY <1>1, <3>1
    <3> QED BY <3>1, <3>2, <3>3, <3>4
  <2> QED BY <1>2, <1>8, <2>1, <2>2, <2>3
<1>10. d = z
  <2>1. \A i \in 1..Len(d) : d[i] = z[i] BY <1>7, <1>8, <1>9
  <2>2. Len(d) = Len(z) BY <1>7, <1>8
  <2> HIDE DEF S
  <2> QED BY <1>6, <1>7, <2>1, <2>2, SameSeq
<1> QED BY <1>5, <1>10

----------------------------------------------------------------------------
(* Waking *)

Pcs == {"user", "pipe"}
Frame == [id : 0..MaxPipe, p : 0..Len(info), len : Lens, exist : BOOLEAN]

(* The first n that wait at o are put on the ready queue. *)
LEMMA WokenFacts ==
    ASSUME Inv, NEW o \in 1..Len(info), NEW r, Only(info, info', o, r),
           NEW n \in 0..Len(info[o].waiting),
           r.waiting = SubSeq(info[o].waiting, n + 1, Len(info[o].waiting)),
           ready_queue' = ready_queue \o SubSeq(info[o].waiting, 1, n),
           active_proc' = active_proc
    PROVE  /\ Housed(active_proc', ready_queue', 1..Len(info'), Waits(info'))
           /\ On(ready_queue') =
                On(ready_queue) \cup On(SubSeq(info[o].waiting, 1, n))
           /\ On(info'[o].waiting) \subseteq On(info[o].waiting)
           /\ Ready \subseteq Ready'
<1> DEFINE w == info[o].waiting
           f == SubSeq(w, 1, n)
           b == SubSeq(w, n + 1, Len(w))
<1>1. /\ info' \in Seq(Info) /\ Len(info') = Len(info) /\ info'[o] = r
      /\ \A q \in 1..Len(info) \ {o} : info'[q].waiting = info[q].waiting
  BY DEF Only
<1>2. Waiters(info) /\ Waiters(info') BY <1>1, InfoFacts, Types
<1>3. Housed(active_proc, ready_queue \o f, 1..Len(info'), Waits(info'))
  <2>1. Housed(active_proc, ready_queue, 1..Len(info), Waits(info))
    BY DEF Inv
  <2>2. info'[o].waiting = b BY <1>1
  <2> QED BY <1>1, <1>2, <2>1, <2>2, WokenAt
<1>4. w \in Seq(Proc) /\ ready_queue \in Seq(Proc) /\ NoDup(w)
  <2>1. Waits(info)[o] = w BY <1>2, WaitsFacts
  <2> QED BY <1>2, <2>1, Types DEF Waiters, Inv, Housed
<1> HIDE DEF w
<1>5. f \in Seq(Proc) /\ On(f) \cup On(b) = On(w)
  BY <1>4, SplitFacts DEF w
<1> HIDE DEF f
<1>6. On(ready_queue \o f) = On(ready_queue) \cup On(f)
  BY <1>4, <1>5, ConcatFacts
<1>7. ready_queue' = ready_queue \o f BY DEF f, w
<1>8. On(ready_queue') = On(ready_queue) \cup On(f) BY <1>6, <1>7, Zenon
<1>9. Housed(active_proc', ready_queue', 1..Len(info'), Waits(info'))
  BY <1>3, <1>7, Zenon
<1>10. On(info'[o].waiting) \subseteq On(w)
  <2>1. info'[o].waiting = b BY <1>1 DEF w
  <2> HIDE DEF b
  <2> QED BY <1>5, <2>1
<1>11. Ready \subseteq Ready' BY <1>8 DEF Ready
<1> QED BY <1>8, <1>9, <1>10, <1>11 DEF f, w

(* If anybody waited at pipe o, the first of them is on the way now. *)
LEMMA WokenLone ==
    ASSUME Inv, NEW p \in Proc, active_proc = p, FramesStep(p),
           NEW o \in 1..Len(info),
           info'[o].waiting = list_remove(info[o].waiting, LongestAt(o)),
           On(ready_queue') =
              On(ready_queue) \cup On(SubSeq(info[o].waiting, 1, LongestAt(o)))
    PROVE  Lone(o)'
<1> DEFINE w == info[o].waiting
<1>1. w \in Seq(Proc) BY Types DEF Waiters
<1>2. CASE w = <<>>
  <2>1. LongestAt(o) = 0 BY <1>2 DEF LongestAt
  <2>2. info'[o].waiting = <<>> BY <1>2, <2>1 DEF list_remove
  <2>3. Len(info'[o].waiting) = 0 BY <2>2
  <2> QED BY <2>3 DEF Lone
<1>3. CASE w # <<>>
  <2>1. LongestAt(o) = 1 BY <1>3 DEF LongestAt
  <2>2. w[1] \in On(w) /\ w[1] \in On(SubSeq(w, 1, 1))
    <3> HIDE DEF w
    <3>1. Len(w) >= 1 /\ Len(w) \in Nat /\ SubSeq(w, 1, 1) = <<w[1]>>
      BY <1>1, <1>3, FirstFacts
    <3> QED BY <3>1 DEF On
  <2>3. w[1] \in On(ready_queue') BY <2>1, <2>2
  <2>4. w[1] # p /\ w[1] \in Proc BY <2>2, ActiveWaitsNot
  <2>5. kpc[w[1]] = "pipe" /\ frame[w[1]].p = o
    BY <2>2 DEF Inv, WaitersRead
  <2>6. kpc'[w[1]] = "pipe" /\ frame'[w[1]].p = o
    BY <2>4, <2>5 DEF FramesStep
  <2>7. w[1] \in OnTheWay(o)' BY <2>3, <2>6 DEF OnTheWay
  <2> QED BY <2>7 DEF Lone
<1> QED BY <1>2, <1>3

LEMMA LongestFacts ==
    ASSUME Inv, NEW o \in 1..Len(info)
    PROVE  LET w == info[o].waiting
               n == LongestAt(o) IN
           /\ w \in Seq(Proc) /\ n \in 0..Len(w)
           /\ list_remove(w, n) = SubSeq(w, n + 1, Len(w))
           /\ list_remove(w, n) \in Seq(Proc)
           /\ Longest(o) = SubSeq(w, 1, n)
<1> DEFINE w == info[o].waiting
<1>1. w \in Seq(Proc) BY Types DEF Waiters
<1>2. LongestAt(o) = OneIfAny(w) BY DEF LongestAt, OneIfAny
<1>3. Longest(o) = SubSeq(w, 1, LongestAt(o)) BY DEF Longest
<1> HIDE DEF w
<1> DEFINE n == OneIfAny(w)
<1>4. /\ n \in 0..Len(w) /\ list_remove(w, n) = SubSeq(w, n + 1, Len(w))
  BY <1>1, OneIfAnyFacts
<1> HIDE DEF n
<1>5. SubSeq(w, n + 1, Len(w)) \in Seq(Proc) BY <1>1, <1>4, SubSeqFacts
<1> QED BY <1>1, <1>2, <1>3, <1>4, <1>5 DEF w, n

----------------------------------------------------------------------------
(* sys_PipeRead *)

LEMMA ReturnFacts ==
    ASSUME Inv, NEW p \in Proc, p # Idle, Return(p)
    PROVE  /\ kpc' \in [Proc -> Pcs] /\ frame' \in [Proc -> Frame]
           /\ FramesStep(p) /\ kpc'[p] = "user"
           /\ active_proc' = active_proc
<1>1. kpc \in [Proc -> Pcs] /\ frame \in [Proc -> Frame]
  BY DEF Inv, TypeOK, Pcs, Frame
<1>2. NoFrame \in Frame
  <2>1. 0 \in 0..MaxPipe /\ 0 \in 0..Len(info) /\ 0 \in Lens
    BY Types, PipeAssumption DEF Lens
  <2> QED BY <2>1 DEF NoFrame, Frame
<1>3. /\ kpc' = [kpc EXCEPT ![p] = "user"]
      /\ frame' = [frame EXCEPT ![p] = NoFrame]
      /\ active_proc' = active_proc
  BY DEF Return
<1>4. kpc' \in [Proc -> Pcs] /\ kpc'[p] = "user" BY <1>1, <1>3 DEF Pcs
<1>5. frame' \in [Proc -> Frame] BY <1>1, <1>2, <1>3
<1>6. \A q \in Proc \ {p} : kpc'[q] = kpc[q] /\ frame'[q] = frame[q]
  BY <1>1, <1>3
<1> QED BY <1>3, <1>4, <1>5, <1>6 DEF FramesStep

(* A step that keeps the list of pipes and at which pipe o becomes r. *)
LEMMA StepFacts ==
    ASSUME Inv, NEW p \in Proc, NEW o \in 1..Len(info), NEW r \in Info,
           Only(info, info', o, r), r.id = info[o].id,
           r.freed = info[o].freed,
           UNCHANGED <<pipe_list, reclaim_list>>,
           \A q \in On(r.waiting) :
              \/ q \in On(info[o].waiting)
              \/ q = p /\ kpc'[p] = "pipe" /\ frame'[p].p = o
    PROVE  /\ PipeStep(p, o) /\ info' \in Seq(Info) /\ info'[o] = r
           /\ Len(info') = Len(info)
           /\ pipe_list' \in Seq(1..Len(info')) /\ reclaim_list' \in Seq(Ids)
<1>1. /\ info' \in Seq(Info) /\ Len(info') = Len(info) /\ info'[o] = r
      /\ \A q \in 1..Len(info) \ {o} : info'[q] = info[q]
  BY DEF Only
<1>2. pipe_list' \in Seq(1..Len(info')) /\ reclaim_list' \in Seq(Ids)
  BY <1>1 DEF Inv, TypeOK
<1>3. On(pipe_list') = {q \in On(pipe_list) : ~info'[q].freed}
  <2>1. \A q \in 1..Len(info) : info'[q].freed = info[q].freed
    BY <1>1
  <2>2. On(pipe_list) = {q \in 1..Len(info) : ~info[q].freed}
    BY DEF Inv, ListsOK
  <2> QED BY <2>1, <2>2
<1>4. NoDup(pipe_list') /\ Len(reclaim_list') \in Nat
      /\ Len(reclaim_list') <= Len(reclaim_list)
  BY Types DEF Inv, ListsOK
<1> QED BY <1>1, <1>2, <1>3, <1>4 DEF PipeStep

(* A step of p at pipe o that wakes the one who waits longest. *)
LEMMA WakeInv ==
    ASSUME Inv, NEW p \in Proc, active_proc = p, FramesStep(p),
           kpc' \in [Proc -> Pcs], frame' \in [Proc -> Frame],
           panic' \in BOOLEAN, active_proc' = active_proc,
           NEW o \in 1..Len(info), kpc[p] = "pipe" => frame[p].p = o,
           NEW r \in Info, Only(info, info', o, r), r.id = info[o].id,
           r.freed = info[o].freed, Fifo(r),
           r.waiting = list_remove(info[o].waiting, LongestAt(o)),
           ready_queue' = ready_queue \o Longest(o),
           UNCHANGED <<pipe_list, reclaim_list>>
    PROVE  Inv'
<1> DEFINE w == info[o].waiting
           n == LongestAt(o)
<1>1. /\ w \in Seq(Proc) /\ n \in 0..Len(w)
      /\ list_remove(w, n) = SubSeq(w, n + 1, Len(w))
      /\ Longest(o) = SubSeq(w, 1, n)
  BY LongestFacts
<1> HIDE DEF n
<1>2. /\ Housed(active_proc', ready_queue', 1..Len(info'), Waits(info'))
      /\ On(ready_queue') = On(ready_queue) \cup On(SubSeq(w, 1, n))
      /\ On(info'[o].waiting) \subseteq On(w)
      /\ Ready \subseteq Ready'
  <2>1. r.waiting = SubSeq(w, n + 1, Len(w)) BY <1>1 DEF n
  <2>2. ready_queue' = ready_queue \o SubSeq(w, 1, n) BY <1>1
  <2> QED BY <1>1, <2>1, <2>2, WokenFacts
<1>3. info'[o] = r BY DEF Only
<1>4. /\ PipeStep(p, o) /\ info' \in Seq(Info) /\ Len(info') = Len(info)
      /\ pipe_list' \in Seq(1..Len(info')) /\ reclaim_list' \in Seq(Ids)
  <2>1. \A q \in On(r.waiting) : q \in On(info[o].waiting) BY <1>2, <1>3
  <2> QED BY <2>1, StepFacts
<1>5. TypeOK'
  <2>1. active_proc' \in Proc /\ ready_queue' \in Seq(Proc)
    BY <1>2 DEF Housed
  <2> QED BY <1>4, <2>1 DEF TypeOK, Pcs, Frame
<1>6. ListsOK' /\ FramesOK' /\ WaitersRead' /\ IdleInUser'
  BY <1>4, Kept
<1>7. FirstInFirstOut' BY <1>3, <1>4, FifoKept
<1>8. LoneReaderWoken'
  <2>1. Lone(o)'
    <3>1. info'[o].waiting = list_remove(w, LongestAt(o)) BY <1>3
    <3>2. On(ready_queue')
            = On(ready_queue) \cup On(SubSeq(w, 1, LongestAt(o)))
      BY <1>2 DEF n
    <3> QED BY <3>1, <3>2, WokenLone
  <2>2. Ready \ {p} \subseteq Ready' BY <1>2
  <2> QED BY <1>4, <2>1, <2>2, LoneKept
<1> QED BY <1>2, <1>5, <1>6, <1>7, <1>8 DEF Inv

(* A reader leaves and nothing else happens: its pipe is freed. *)
LEMMA LeaveInv ==
    ASSUME Inv, NEW p \in Proc, active_proc = p, p # Idle, Return(p),
           NEW o \in 1..Len(info), kpc[p] = "pipe" => frame[p].p = o,
           info[o].freed, panic' \in BOOLEAN,
           UNCHANGED <<ready_queue, info, pipe_list, reclaim_list>>
    PROVE  Inv'
<1>1. /\ kpc' \in [Proc -> Pcs] /\ frame' \in [Proc -> Frame]
      /\ FramesStep(p) /\ active_proc' = active_proc
  BY ReturnFacts
<1>2. PipeStep(p, o) /\ Len(info') = Len(info)
      /\ pipe_list' \in Seq(1..Len(info')) /\ reclaim_list' \in Seq(Ids)
  <2>1. info[o] \in Info BY Types, InfoFacts
  <2>2. Only(info, info', o, info[o]) BY Types DEF Only
  <2> HIDE DEF Only
  <2> QED BY <2>1, <2>2, StepFacts
<1>3. Housed(active_proc', ready_queue', 1..Len(info'), Waits(info'))
  BY <1>1 DEF Inv
<1>4. TypeOK' BY <1>1, <1>2, Types DEF Inv, TypeOK, Pcs, Frame
<1>5. ListsOK' /\ FramesOK' /\ WaitersRead' /\ IdleInUser'
  BY <1>1, <1>2, Kept
<1>6. FirstInFirstOut' BY DEF Inv, FirstInFirstOut
<1>7. LoneReaderWoken'
  <2>1. Lone(o)' BY DEF Lone
  <2>2. Ready \ {p} \subseteq Ready' BY <1>1 DEF Ready
  <2> QED BY <1>1, <1>2, <2>1, <2>2, LoneKept
<1> QED BY <1>3, <1>4, <1>5, <1>6, <1>7 DEF Inv

(* The buffer holds too little: p waits. *)
LEMMA WaitInv ==
    ASSUME Inv, NEW p \in Proc, active_proc = p, p # Idle,
           NEW o \in 1..Len(info), kpc[p] = "pipe" => frame[p].p = o,
           NEW id \in 0..MaxPipe, NEW len \in Lens, NEW exist \in BOOLEAN,
           ~info[o].freed => id = info[o].id,
           MayLack(o, len),
           info' = [info EXCEPT ![o].waiting = Append(@, p)],
           kpc' = [kpc EXCEPT ![p] = "pipe"],
           frame' = [frame EXCEPT ![p] =
                       [id |-> id, p |-> o, len |-> len, exist |-> exist]],
           normal_schedule(ready_queue, p), panic' = panic,
           UNCHANGED <<pipe_list, reclaim_list>>
    PROVE  Inv'
<1> DEFINE w == info[o].waiting
           v == Append(w, p)
           r == WaitSet(info[o], v)
           f == [id |-> id, p |-> o, len |-> len, exist |-> exist]
<1>1. /\ info \in Seq(Info) /\ Len(info) \in Nat /\ Waiters(info)
      /\ info[o] \in Info /\ w \in Seq(Proc)
      /\ info[o].buffer \in Seq(1..MaxByte) /\ info[o].sent \in 0..MaxByte
      /\ info[o].taken \in Seq(1..MaxByte)
  BY Types, InfoFacts
<1>2. v \in Seq(Proc) /\ On(v) = On(w) \cup {p} BY <1>1, AppendFacts
<1>3. info' = [info EXCEPT ![o] = r] BY DEF WaitSet
<1> HIDE DEF v
<1>4. /\ r \in Info /\ r.id = info[o].id /\ r.freed = info[o].freed
      /\ r.buffer = info[o].buffer /\ r.sent = info[o].sent
      /\ r.taken = info[o].taken /\ r.waiting = v
  BY <1>1, <1>2, WaitAssigned, MadeFacts, SMTT(30)
<1> HIDE DEF r
<1>5. Only(info, info', o, r)
  <2>1. Only(info, [info EXCEPT ![o] = r], o, r) BY <1>1, <1>4, OnlyFacts
  <2> QED BY <1>3, <2>1, Zenon
<1>6. f \in Frame /\ f.p = o /\ f.id = id /\ f.len = len
  BY <1>1 DEF Frame
<1> HIDE DEF f
<1>7. kpc \in [Proc -> Pcs] /\ frame \in [Proc -> Frame]
  BY DEF Inv, TypeOK, Pcs, Frame
<1>8. frame' = [frame EXCEPT ![p] = f] BY DEF f
<1>9. /\ kpc' \in [Proc -> Pcs] /\ kpc'[p] = "pipe"
      /\ \A q \in Proc \ {p} : kpc'[q] = kpc[q]
  BY <1>7 DEF Pcs
<1>10. /\ frame' \in [Proc -> Frame] /\ frame'[p] = f
       /\ \A q \in Proc \ {p} : frame'[q] = frame[q]
  BY <1>6, <1>7, <1>8
<1>11. FramesStep(p) BY <1>6, <1>9, <1>10 DEF FramesStep
<1>12. /\ PipeStep(p, o) /\ info' \in Seq(Info) /\ info'[o] = r
       /\ Len(info') = Len(info)
       /\ pipe_list' \in Seq(1..Len(info')) /\ reclaim_list' \in Seq(Ids)
  <2>1. \A q \in On(r.waiting) :
           \/ q \in On(info[o].waiting)
           \/ q = p /\ kpc'[p] = "pipe" /\ frame'[p].p = o
    BY <1>2, <1>4, <1>6, <1>9, <1>10
  <2> QED BY <1>4, <1>5, <2>1, StepFacts
<1>13. /\ Housed(active_proc', ready_queue', 1..Len(info'), Waits(info'))
       /\ On(ready_queue') \cup {active_proc'} = On(ready_queue)
  <2>1. Housed(active_proc, ready_queue, 1..Len(info), Waits(info))
    BY DEF Inv
  <2>2. Waiters(info') BY <1>12, InfoFacts
  <2>3. \A i \in 1..Len(info) \ {o} : info'[i].waiting = info[i].waiting
    BY <1>5 DEF Only
  <2>4. info'[o].waiting = Append(info[o].waiting, active_proc)
    BY <1>4, <1>12 DEF v
  <2>5. /\ Waiters(info) /\ active_proc # Idle /\ Len(info') = Len(info)
        /\ o \in 1..Len(info) /\ normal_schedule(ready_queue, active_proc)
    BY <1>1, <1>12
  <2> QED BY <2>1, <2>2, <2>3, <2>4, <2>5, BlocksAt, ZenonT(30)
<1>14. TypeOK'
  <2>1. active_proc' \in Proc /\ ready_queue' \in Seq(Proc)
    BY <1>13 DEF Housed
  <2>2. panic' \in BOOLEAN BY DEF Inv, TypeOK
  <2> QED BY <1>9, <1>10, <1>12, <2>1, <2>2 DEF TypeOK, Pcs, Frame
<1>15. ListsOK' /\ FramesOK' /\ WaitersRead' /\ IdleInUser'
  BY <1>11, <1>12, Kept
<1>16. FirstInFirstOut'
  <2>1. Fifo(info[o]) BY DEF Inv, FirstInFirstOut, Fifo
  <2>2. Fifo(info'[o]) BY <1>4, <1>12, <2>1 DEF Fifo
  <2> QED BY <1>12, <2>2, FifoKept
<1>17. LoneReaderWoken'
  <2>1. Lone(o)'
    <3> SUFFICES ASSUME Len(v) = 1, ~info[o].freed
                 PROVE  Len(info[o].buffer) < frame'[Head(v)].len
      BY <1>4, <1>12 DEF Lone
    <3>1. Len(info[o].buffer) < len BY DEF MayLack
    <3>2. Head(v) = p
      <4> HIDE DEF w
      <4>1. Len(w) = 0 BY <1>1 DEF v
      <4>2. w = <<>> BY <1>1, <4>1
      <4> QED BY <4>2 DEF v
    <3> QED BY <1>6, <1>10, <3>1, <3>2
  <2>2. Ready \ {p} \subseteq Ready' BY <1>13 DEF Ready
  <2> QED BY <1>11, <1>12, <2>1, <2>2, LoneKept
<1> QED BY <1>13, <1>14, <1>15, <1>16, <1>17 DEF Inv

(* The buffer holds enough: p takes its bytes and wakes one more reader. *)
LEMMA TakeInv ==
    ASSUME Inv, NEW p \in Proc, active_proc = p, p # Idle, Return(p),
           NEW o \in 1..Len(info), kpc[p] = "pipe" => frame[p].p = o,
           NEW len \in Lens, MayHave(o, len), ~info[o].freed,
           info' = [info EXCEPT ![o] =
                      ReadSet(info[o], Rest(info[o].buffer, len),
                              info[o].taken \o SubSeq(info[o].buffer, 1, len),
                              list_remove(info[o].waiting, LongestAt(o)))],
           ready_queue' = ready_queue \o Longest(o), panic' \in BOOLEAN,
           UNCHANGED <<pipe_list, reclaim_list>>
    PROVE  Inv'
<1> DEFINE b == info[o].buffer
           t == info[o].taken
           c == Rest(b, len)
           u == t \o SubSeq(b, 1, len)
           v == list_remove(info[o].waiting, LongestAt(o))
           r == ReadSet(info[o], c, u, v)
<1>1. /\ info \in Seq(Info) /\ info[o] \in Info
      /\ b \in Seq(1..MaxByte) /\ t \in Seq(1..MaxByte)
      /\ info[o].sent \in 0..MaxByte
  BY Types, InfoFacts
<1>2. v \in Seq(Proc) BY LongestFacts
<1>3. len \in 0..Len(b) BY <1>1 DEF MayHave, Lens
<1>4. /\ c \in Seq(1..MaxByte) /\ Len(c) <= Len(b) /\ u \in Seq(1..MaxByte)
      /\ u \o c = t \o b
  <2> DEFINE S == 1..MaxByte
             x == SubSeq(b, len + 1, Len(b))
  <2>1. b \in Seq(S) /\ t \in Seq(S) /\ c = x BY <1>1 DEF Rest
  <2> HIDE DEF b, t, c, S
  <2>2. x \in Seq(S) /\ Len(x) <= Len(b) /\ u \in Seq(S) /\ u \o x = t \o b
    <3>1. b \in Seq(S) /\ t \in Seq(S) /\ len \in 0..Len(b) BY <1>3, <2>1
    <3> QED BY <3>1, ReadBytes, ZenonT(30)
  <2> HIDE DEF x, u
  <2> QED BY <2>1, <2>2 DEF S
<1>5. info' = [info EXCEPT ![o] = r] OBVIOUS
<1> HIDE DEF c, u, v
<1>6. c \in Seq(1..MaxByte) /\ u \in Seq(1..MaxByte) BY <1>4
<1>7. /\ r \in Info /\ r.id = info[o].id /\ r.freed = info[o].freed
      /\ r.buffer = c /\ r.sent = info[o].sent
      /\ r.taken = u /\ r.waiting = v
  <2> DEFINE x == info[o]
  <2>1. x \in Info /\ r = ReadSet(x, c, u, v) BY <1>1
  <2> HIDE DEF x, r
  <2> DEFINE m == ReadSet(x, c, u, v)
  <2>2. /\ m \in Info /\ m.id = x.id /\ m.freed = x.freed
        /\ m.buffer = c /\ m.sent = x.sent /\ m.taken = u /\ m.waiting = v
    BY <1>2, <1>6, <2>1, ReadFacts
  <2> HIDE DEF m
  <2>3. r = m BY <2>1 DEF m
  <2> QED BY <2>2, <2>3, Zenon DEF x
<1> HIDE DEF r
<1>8. Only(info, info', o, r)
  <2>1. Only(info, [info EXCEPT ![o] = r], o, r) BY <1>1, <1>7, OnlyFacts
  <2> QED BY <1>5, <2>1, Zenon
<1>9. Fifo(r)
  <2>1. t \o b = [i \in 1..info[o].sent |-> i] /\ Len(b) <= PIPE_BUF_SIZE
    BY DEF Inv, FirstInFirstOut
  <2> DEFINE m == Len(b)
             l == Len(c)
  <2>2. l \in Nat /\ m \in Nat /\ l <= m /\ m <= PIPE_BUF_SIZE
    BY <1>1, <1>4, <2>1
  <2>3. l <= PIPE_BUF_SIZE
    <3> HIDE DEF l, m
    <3> QED BY <2>2, PipeAssumption
  <2>4. r.taken \o r.buffer = [i \in 1..r.sent |-> i]
    BY <1>4, <1>7, <2>1, Zenon
  <2> QED BY <1>7, <2>3, <2>4 DEF Fifo
<1>10. /\ kpc' \in [Proc -> Pcs] /\ frame' \in [Proc -> Frame]
       /\ FramesStep(p) /\ active_proc' = active_proc
  BY ReturnFacts
<1> QED BY <1>7, <1>8, <1>9, <1>10, WakeInv DEF v

(* A reader that woke up at a freed pipe finds somebody on its list. *)
LEMMA FreedInv ==
    ASSUME Inv, NEW p \in Proc, active_proc = p, p # Idle, Return(p),
           NEW o \in 1..Len(info), kpc[p] = "pipe" => frame[p].p = o,
           info' = [info EXCEPT
                      ![o].waiting = list_remove(@, LongestAt(o))],
           ready_queue' = ready_queue \o Longest(o), panic' \in BOOLEAN,
           UNCHANGED <<pipe_list, reclaim_list>>
    PROVE  Inv'
<1> DEFINE v == list_remove(info[o].waiting, LongestAt(o))
           r == WaitSet(info[o], v)
<1>1. /\ info \in Seq(Info) /\ info[o] \in Info
      /\ info[o].buffer \in Seq(1..MaxByte) /\ info[o].sent \in 0..MaxByte
      /\ info[o].taken \in Seq(1..MaxByte)
  BY Types, InfoFacts
<1>2. v \in Seq(Proc) BY LongestFacts
<1>3. info' = [info EXCEPT ![o] = r] BY DEF WaitSet
<1> HIDE DEF v
<1>4. /\ r \in Info /\ r.id = info[o].id /\ r.freed = info[o].freed
      /\ r.buffer = info[o].buffer /\ r.sent = info[o].sent
      /\ r.taken = info[o].taken /\ r.waiting = v
  BY <1>1, <1>2, WaitAssigned, MadeFacts
<1> HIDE DEF r
<1>5. Only(info, info', o, r)
  <2>1. Only(info, [info EXCEPT ![o] = r], o, r) BY <1>1, <1>4, OnlyFacts
  <2> QED BY <1>3, <2>1, Zenon
<1>6. Fifo(r)
  <2>1. Fifo(info[o]) BY DEF Inv, FirstInFirstOut, Fifo
  <2> QED BY <1>4, <2>1 DEF Fifo
<1>7. /\ kpc' \in [Proc -> Pcs] /\ frame' \in [Proc -> Frame]
      /\ FramesStep(p) /\ active_proc' = active_proc
  BY ReturnFacts
<1> QED BY <1>4, <1>5, <1>6, <1>7, WakeInv DEF v

(* From the test of cur_len on. *)
LEMMA TakeOrWaitInv ==
    ASSUME Inv, NEW p \in Proc, active_proc = p, p # Idle,
           NEW o \in 1..Len(info), kpc[p] = "pipe" => frame[p].p = o,
           NEW id \in 0..MaxPipe, NEW len \in Lens, NEW exist \in BOOLEAN,
           ~info[o].freed => id = info[o].id,
           TakeOrWait(p, id, o, len, exist),
           UNCHANGED <<pipe_list, reclaim_list>>
    PROVE  Inv'
<1>1. CASE /\ MayLack(o, len)
           /\ info' = [info EXCEPT ![o].waiting = Append(@, p)]
           /\ kpc' = [kpc EXCEPT ![p] = "pipe"]
           /\ frame' = [frame EXCEPT ![p] =
                          [id |-> id, p |-> o, len |-> len, exist |-> exist]]
           /\ normal_schedule(ready_queue, p)
           /\ UNCHANGED panic
  BY <1>1, WaitInv
<1>2. CASE /\ MayHave(o, len) /\ ~info[o].freed
           /\ info' = [info EXCEPT
                         ![o].buffer = Rest(@, len),
                         ![o].taken = @ \o SubSeq(info[o].buffer, 1, len),
                         ![o].waiting = list_remove(@, LongestAt(o))]
           /\ ready_queue' = ready_queue \o Longest(o)
           /\ FreeMoved(len)
           /\ Return(p)
  <2>1. panic' \in BOOLEAN BY <1>2 DEF FreeMoved
  <2>2. info' = [info EXCEPT ![o] =
                   ReadSet(info[o], Rest(info[o].buffer, len),
                           info[o].taken \o SubSeq(info[o].buffer, 1, len),
                           list_remove(info[o].waiting, LongestAt(o)))]
    BY <1>2 DEF ReadSet
  <2>3. /\ MayHave(o, len) /\ ~info[o].freed /\ Return(p)
        /\ ready_queue' = ready_queue \o Longest(o)
    BY <1>2
  <2> QED BY <2>1, <2>2, <2>3, TakeInv
<1>3. CASE /\ info[o].freed
           /\ info' = [info EXCEPT
                         ![o].waiting = list_remove(@, LongestAt(o))]
           /\ ready_queue' = ready_queue \o Longest(o)
           /\ panic' \in BOOLEAN
           /\ Return(p)
  BY <1>3, FreedInv
<1>4. CASE /\ info[o].freed /\ UNCHANGED <<info, ready_queue>>
           /\ panic' \in BOOLEAN
           /\ Return(p)
  BY <1>4, LeaveInv
<1> QED BY <1>1, <1>2, <1>3, <1>4, Zenon DEF TakeOrWait

LEMMA PipeReadInv ==
    ASSUME Inv, NEW p \in Proc, NEW id \in Ids, NEW len \in Lens,
           PipeRead(p, id, len)
    PROVE  Inv'
<1> DEFINE o == pipe_list[Find(id)]
<1>1. /\ active_proc = p /\ kpc[p] = "user" /\ p # Idle
      /\ Find(id) # 0 /\ TakeOrWait(p, id, o, len, FALSE)
      /\ UNCHANGED <<pipe_list, reclaim_list>>
  BY DEF PipeRead, PipeCall, Calls, InUser
<1>2. o \in 1..Len(info) /\ info[o].id = id BY <1>1, FindFacts
<1>3. id \in 0..MaxPipe BY PipeAssumption DEF Ids
<1>4. FALSE \in BOOLEAN OBVIOUS
<1> HIDE DEF o
<1> QED BY <1>1, <1>2, <1>3, <1>4, TakeOrWaitInv

LEMMA PipeReadBackInv ==
    ASSUME Inv, NEW p \in Proc, PipeReadBack(p)
    PROVE  Inv'
<1> DEFINE o == frame[p].p
           id == frame[p].id
           len == frame[p].len
<1>1. /\ active_proc = p /\ kpc[p] = "pipe"
      /\ UNCHANGED <<pipe_list, reclaim_list>>
  BY DEF PipeReadBack
<1>2. p # Idle BY <1>1 DEF Inv, IdleInUser
<1>3. o \in 1..Len(info) /\ (~info[o].freed => id = info[o].id)
  BY <1>1 DEF Inv, FramesOK
<1>4. id \in 0..MaxPipe /\ len \in Lens
  <2>1. frame[p] \in Frame BY DEF Inv, TypeOK, Frame
  <2> QED BY <2>1 DEF Frame
<1>5. CASE TakeOrWait(p, id, o, len, TRUE)
  <2>1. TRUE \in BOOLEAN OBVIOUS
  <2> HIDE DEF o, id, len
  <2> QED BY <1>1, <1>2, <1>3, <1>4, <1>5, <2>1, TakeOrWaitInv DEF o
<1>6. CASE Find(id) = 0 /\ Return(p) /\ UNCHANGED <<ready_queue, info, panic>>
  <2>1. info[o].freed
    <3> SUFFICES ASSUME ~info[o].freed PROVE FALSE OBVIOUS
    <3>1. o \in On(pipe_list) BY <1>3 DEF Inv, ListsOK
    <3> QED BY <1>3, <1>6, <3>1, FindFacts
  <2>2. panic' \in BOOLEAN BY <1>6 DEF Inv, TypeOK
  <2> QED BY <1>1, <1>2, <1>3, <1>6, <2>1, <2>2, LeaveInv
<1> QED BY <1>5, <1>6 DEF PipeReadBack

----------------------------------------------------------------------------
(* sys_PipeWrite *)

LEMMA PipeWriteInv ==
    ASSUME Inv, NEW p \in Proc, NEW id \in Ids, NEW len \in Lens,
           PipeWrite(p, id, len)
    PROVE  Inv'
<1> DEFINE o == pipe_list[Find(id)]
           b == info[o].buffer
           t == info[o].taken
           s == info[o].sent
           n == ByteWrite(o, len)
           c == b \o BytesBehind(s, n)
           v == list_remove(info[o].waiting, LongestAt(o))
           r == WriteSet(info[o], c, s + n, v)
<1>1. /\ active_proc = p /\ kpc[p] = "user" /\ p # Idle /\ Find(id) # 0
      /\ s + len <= MaxByte
      /\ ready_queue' = ready_queue \o Longest(o)
      /\ UNCHANGED <<active_proc, kpc, pipe_list, reclaim_list, frame, panic>>
  BY DEF PipeWrite, PipeCall, Calls, InUser
<1>2. info' = [info EXCEPT ![o] = r] BY DEF PipeWrite, WriteSet, BytesBehind
<1>3. o \in 1..Len(info) BY <1>1, FindFacts
<1> HIDE DEF o
<1>4. /\ info \in Seq(Info) /\ info[o] \in Info
      /\ b \in Seq(1..MaxByte) /\ t \in Seq(1..MaxByte)
      /\ s \in 0..MaxByte /\ s \in Nat
  BY <1>3, Types, InfoFacts
<1>5. v \in Seq(Proc) BY <1>3, LongestFacts
<1>6. t \o b = Bytes(s) /\ Len(b) <= PIPE_BUF_SIZE
  BY <1>3 DEF Inv, FirstInFirstOut, Bytes
<1>7. n \in Nat /\ n <= len /\ Len(b) + n <= PIPE_BUF_SIZE
  <2> DEFINE l == Len(b)
  <2>1. l \in Nat /\ l <= PIPE_BUF_SIZE BY <1>4, <1>6
  <2>2. n = IF PIPE_BUF_SIZE - l < len THEN PIPE_BUF_SIZE - l ELSE len
    BY DEF ByteWrite
  <2> HIDE DEF l, n
  <2>3. n \in Nat /\ n <= len /\ l + n <= PIPE_BUF_SIZE
    BY <2>1, <2>2, PipeAssumption DEF Lens
  <2> QED BY <2>3 DEF l
<1>8. s + n \in 0..MaxByte /\ s + n <= MaxByte
  <2> HIDE DEF s, n
  <2> QED BY <1>1, <1>4, <1>7, PipeAssumption DEF Lens
<1>9. /\ c \in Seq(1..MaxByte) /\ Len(c) = Len(b) + n
      /\ t \o c = Bytes(s + n)
  <2> HIDE DEF s, n, b, t
  <2>2. n \in Nat /\ s \in Nat /\ s + n <= MaxByte BY <1>4, <1>7, <1>8
  <2>3. b \in Seq(1..MaxByte) /\ t \in Seq(1..MaxByte) BY <1>4
  <2>4. t \o b = Bytes(s) BY <1>6
  <2>5. Continues(t, b, s, n) BY <2>2, <2>3, WrittenBytes
  <2> QED BY <2>4, <2>5, Zenon DEF Continues
<1> HIDE DEF n, c, v
<1>10. c \in Seq(1..MaxByte) BY <1>9
<1>11. /\ r \in Info /\ r.id = info[o].id /\ r.freed = info[o].freed
       /\ r.buffer = c /\ r.sent = s + n /\ r.taken = t /\ r.waiting = v
  <2> DEFINE x == info[o]
             a == s + n
  <2>1. x \in Info /\ r = WriteSet(x, c, a, v) /\ a \in 0..MaxByte
    BY <1>4, <1>8
  <2>2. t = x.taken OBVIOUS
  <2> HIDE DEF x, r, a, t
  <2> DEFINE m == WriteSet(x, c, a, v)
  <2>3. /\ m \in Info /\ m.id = x.id /\ m.freed = x.freed
        /\ m.buffer = c /\ m.sent = a /\ m.taken = x.taken /\ m.waiting = v
    BY <1>5, <1>10, <2>1, WriteFacts
  <2> HIDE DEF m
  <2>4. r = m BY <2>1 DEF m
  <2> QED BY <2>2, <2>3, <2>4, Zenon DEF x, a
<1> HIDE DEF r
<1>12. Only(info, info', o, r)
  <2>1. Only(info, [info EXCEPT ![o] = r], o, r)
    BY <1>3, <1>4, <1>11, OnlyFacts
  <2> QED BY <1>2, <2>1, Zenon
<1>13. Fifo(r)
  <2>1. r.taken \o r.buffer = Bytes(r.sent) BY <1>9, <1>11, Zenon
  <2>2. Len(r.buffer) <= PIPE_BUF_SIZE BY <1>7, <1>9, <1>11
  <2> QED BY <2>1, <2>2 DEF Fifo, Bytes
<1>14. /\ kpc' \in [Proc -> Pcs] /\ frame' \in [Proc -> Frame]
       /\ panic' \in BOOLEAN
  BY <1>1 DEF Inv, TypeOK, Pcs, Frame
<1>15. FramesStep(p) /\ active_proc' = active_proc BY <1>1 DEF FramesStep
<1> QED BY <1>1, <1>3, <1>11, <1>12, <1>13, <1>14, <1>15, WakeInv DEF v

----------------------------------------------------------------------------
(* sys_Reclaim *)

\* What is left of a pipe with the list w.
Gone(w) == [id |-> 0, buffer |-> <<>>, waiting |-> w, freed |-> TRUE,
            sent |-> 0, taken |-> <<>>]

LEMMA GoneFacts ==
    ASSUME NEW w \in Seq(Proc)
    PROVE  /\ Gone(w) \in Info /\ Gone(w).waiting = w /\ Gone(w).freed
           /\ Fifo(Gone(w))
<1>1. Gone(w) \in Info
  <2>1. 0 \in 0..MaxPipe /\ 0 \in 0..MaxByte BY PipeAssumption
  <2>2. <<>> \in Seq(1..MaxByte) OBVIOUS
  <2> QED BY <2>1, <2>2 DEF Gone, Info
<1>2. Gone(w).waiting = w /\ Gone(w).freed BY DEF Gone
<1>3. Gone(w).taken = <<>> /\ Gone(w).buffer = <<>> /\ Gone(w).sent = 0
  BY DEF Gone
<1>4. <<>> \o <<>> = [i \in 1..0 |-> i] OBVIOUS
<1>5. Len(Gone(w).buffer) <= PIPE_BUF_SIZE BY <1>3, PipeAssumption
<1> QED BY <1>1, <1>2, <1>3, <1>4, <1>5, Zenon DEF Fifo

LEMMA ReclaimInv ==
    ASSUME Inv, NEW p \in Proc, NEW id \in Ids, Reclaim(p, id)
    PROVE  Inv'
<1> DEFINE i == Find(id)
           x == FirstAt(reclaim_list, id)
<1>1. /\ active_proc = p /\ kpc[p] = "user" /\ p # Idle /\ i # 0
      /\ pipe_list' = list_remove(pipe_list, i)
      /\ reclaim_list' = list_remove(reclaim_list, x)
      /\ UNCHANGED <<active_proc, kpc, frame, panic>>
  BY DEF Reclaim, PipeCall, Calls, InUser
<1>2. /\ i \in 1..Len(pipe_list) /\ pipe_list[i] \in On(pipe_list)
      /\ pipe_list[i] \in 1..Len(info)
  BY <1>1, FindFacts
<1>3. PICK o \in 1..Len(info) : o = pipe_list[i] /\ o \in On(pipe_list)
  BY <1>2
<1> DEFINE w == info[o].waiting
           n == WakeCount(o)
           r == Gone(SubSeq(w, n + 1, Len(w)))
<1>4. /\ info' = [info EXCEPT ![o] = r]
       /\ ready_queue' = ready_queue \o SubSeq(w, 1, n)
  BY <1>3 DEF Reclaim, Gone
<1>5. /\ pipe_list \in Seq(1..Len(info)) /\ NoDup(pipe_list)
      /\ On(pipe_list) = {q \in 1..Len(info) : ~info[q].freed}
      /\ info \in Seq(Info) /\ reclaim_list \in Seq(Ids)
  BY DEF Inv, TypeOK, ListsOK
<1>6. /\ list_remove(pipe_list, i) \in Seq(1..Len(info))
      /\ NoDup(list_remove(pipe_list, i))
      /\ On(list_remove(pipe_list, i)) = On(pipe_list) \ {o}
  <2> DEFINE S == 1..Len(info)
  <2>1. pipe_list \in Seq(S) BY <1>5
  <2> HIDE DEF S, i
  <2>2. /\ list_remove(pipe_list, i) \in Seq(S)
        /\ NoDup(list_remove(pipe_list, i))
        /\ On(list_remove(pipe_list, i)) = On(pipe_list) \ {o}
    <3>1. i \in 1..Len(pipe_list) /\ NoDup(pipe_list) BY <1>2, <1>5
    <3>2. /\ list_remove(pipe_list, i) \in Seq(S)
          /\ NoDup(list_remove(pipe_list, i))
          /\ On(list_remove(pipe_list, i)) = On(pipe_list) \ {pipe_list[i]}
      BY <2>1, <3>1, RemoveFacts
    <3> QED BY <1>3, <3>2, Zenon
  <2> QED BY <2>2 DEF S
<1>7. reclaim_list' \in Seq(Ids) /\ Len(reclaim_list') \in Nat
      /\ Len(reclaim_list') <= Len(reclaim_list)
  <2> HIDE DEF x
  <2>1. CASE x \in 1..Len(reclaim_list)
    <3>1. /\ list_remove(reclaim_list, x) \in Seq(Ids)
          /\ Len(list_remove(reclaim_list, x)) = Len(reclaim_list) - 1
      BY <1>5, <2>1, RemoveFacts
    <3>2. Len(reclaim_list) \in Nat BY <1>5
    <3>3. reclaim_list' \in Seq(Ids)
          /\ Len(reclaim_list') = Len(reclaim_list) - 1
      BY <1>1, <3>1, Zenon
    <3> QED BY <3>2, <3>3
  <2>2. CASE x \notin 1..Len(reclaim_list)
    BY <1>1, <1>5, <2>2 DEF list_remove
  <2> QED BY <2>1, <2>2
<1> HIDE DEF i
<1>8. w \in Seq(Proc) BY <1>3, Types DEF Waiters
<1>9. n \in 0..Len(w)
  <2> DEFINE l == Len(w)
  <2>1. l \in Nat /\ n = (l + 1) \div 2 BY <1>8 DEF WakeCount
  <2> HIDE DEF l, n
  <2>2. n \in 0..l BY <2>1
  <2> QED BY <2>2 DEF l
<1> HIDE DEF n
<1>10. SubSeq(w, n + 1, Len(w)) \in Seq(Proc)
  <2> HIDE DEF w
  <2> QED BY <1>8, <1>9, SubSeqFacts
<1>11. /\ r \in Info /\ r.freed /\ Fifo(r)
       /\ r.waiting = SubSeq(w, n + 1, Len(w))
  <2> DEFINE v == SubSeq(w, n + 1, Len(w))
  <2> HIDE DEF v
  <2>1. v \in Seq(Proc) BY <1>10 DEF v
  <2>2. Gone(v) \in Info /\ Gone(v).freed /\ Fifo(Gone(v))
        /\ Gone(v).waiting = v
    BY <2>1, GoneFacts
  <2> QED BY <2>2 DEF v
<1> HIDE DEF r
<1>12. Only(info, info', o, r)
  <2>1. Only(info, [info EXCEPT ![o] = r], o, r)
    BY <1>3, <1>5, <1>11, OnlyFacts
  <2> QED BY <1>4, <2>1, Zenon
<1>13. /\ Housed(active_proc', ready_queue', 1..Len(info'), Waits(info'))
       /\ On(info'[o].waiting) \subseteq On(w)
       /\ Ready \subseteq Ready'
  BY <1>1, <1>9, <1>11, <1>12, <1>4, WokenFacts
<1>14. /\ info' \in Seq(Info) /\ Len(info') = Len(info) /\ info'[o] = r
       /\ \A q \in 1..Len(info) \ {o} : info'[q] = info[q]
  BY <1>12 DEF Only
<1>15. PipeStep(p, o)
  <2>1. NoDup(pipe_list') /\ On(pipe_list') = On(pipe_list) \ {o}
    BY <1>1, <1>6, Zenon
  <2>2. \A q \in 1..Len(info) :
           ~info'[q].freed <=> (~info[q].freed /\ q # o)
    BY <1>11, <1>14
  <2>3. On(pipe_list') = {q \in On(pipe_list) : ~info'[q].freed}
    BY <1>5, <2>1, <2>2
  <2> QED BY <1>7, <1>11, <1>13, <1>14, <2>1, <2>3 DEF PipeStep
<1>16. TypeOK'
  <2>1. active_proc' \in Proc /\ ready_queue' \in Seq(Proc)
    BY <1>13 DEF Housed
  <2>2. pipe_list' \in Seq(1..Len(info')) BY <1>1, <1>6, <1>14, Zenon
  <2>3. kpc' \in [Proc -> Pcs] /\ frame' \in [Proc -> Frame]
        /\ panic' \in BOOLEAN
    BY <1>1 DEF Inv, TypeOK, Pcs, Frame
  <2> QED BY <1>7, <1>14, <2>1, <2>2, <2>3 DEF TypeOK, Pcs, Frame
<1>17. FramesStep(p) BY <1>1 DEF FramesStep
<1>18. ListsOK' /\ FramesOK' /\ WaitersRead' /\ IdleInUser'
  BY <1>1, <1>3, <1>15, <1>17, Kept
<1>19. FirstInFirstOut' BY <1>3, <1>11, <1>14, <1>15, FifoKept
<1>20. LoneReaderWoken'
  <2>1. Lone(o)' BY <1>11, <1>14 DEF Lone
  <2>2. Ready \ {p} \subseteq Ready' BY <1>13
  <2> QED BY <1>1, <1>3, <1>15, <1>17, <2>1, <2>2, LoneKept
<1> QED BY <1>13, <1>16, <1>18, <1>19, <1>20 DEF Inv

----------------------------------------------------------------------------
(* sys_PipeInit *)

\* The pipe_info that PipeInit makes.
New(id) == [id |-> id, buffer |-> <<>>, waiting |-> <<>>, freed |-> FALSE,
            sent |-> 0, taken |-> <<>>]

LEMMA NewFacts ==
    ASSUME NEW id \in 0..MaxPipe
    PROVE  /\ New(id) \in Info /\ New(id).waiting = <<>> /\ ~New(id).freed
           /\ Fifo(New(id))
<1>1. New(id) \in Info
  <2>1. 0 \in 0..MaxByte BY PipeAssumption
  <2>2. <<>> \in Seq(1..MaxByte) /\ <<>> \in Seq(Proc) OBVIOUS
  <2> QED BY <2>1, <2>2 DEF New, Info
<1>2. New(id).waiting = <<>> /\ ~New(id).freed BY DEF New
<1>3. /\ New(id).taken = <<>> /\ New(id).buffer = <<>> /\ New(id).sent = 0
  BY DEF New
<1>4. <<>> \o <<>> = [i \in 1..0 |-> i] OBVIOUS
<1>5. Len(New(id).buffer) <= PIPE_BUF_SIZE BY <1>3, PipeAssumption
<1> QED BY <1>1, <1>2, <1>3, <1>4, <1>5, Zenon DEF Fifo

LEMMA CreateInv ==
    ASSUME Inv, NEW p \in Proc, Create(p),
           \/ reclaim_list' = Append(reclaim_list, NewId)
           \/ reclaim_list' = reclaim_list
    PROVE  Inv'
<1> DEFINE k == Len(info)
           r == New(NewId)
<1>1. /\ k < MaxPipe
      /\ pipe_list' = Append(pipe_list, k + 1)
      /\ UNCHANGED <<taskVars, frame, panic>>
  BY DEF Create
<1>2. info' = Append(info, r) BY DEF Create, New
<1>3. /\ info \in Seq(Info) /\ k \in Nat /\ Len(reclaim_list) \in Nat
      /\ Len(reclaim_list) <= k /\ Waiters(info)
      /\ reclaim_list \in Seq(Ids) /\ pipe_list \in Seq(1..k)
      /\ On(pipe_list) = {q \in 1..k : ~info[q].freed} /\ NoDup(pipe_list)
  BY Types DEF Inv, ListsOK, TypeOK
<1>4. NewId \in 1..MaxPipe /\ NewId \in 0..MaxPipe
  <2> HIDE DEF k
  <2> QED BY <1>1, <1>3, PipeAssumption DEF NewId
<1>5. r \in Info /\ r.waiting = <<>> /\ ~r.freed /\ Fifo(r)
  BY <1>4, NewFacts
<1> HIDE DEF r
<1>6. /\ info' \in Seq(Info) /\ Len(info') = k + 1 /\ info'[k + 1] = r
      /\ \A q \in 1..k : info'[q] = info[q]
  BY <1>2, <1>3, <1>5
<1>7. Housed(active_proc', ready_queue', 1..Len(info'), Waits(info'))
  <2>1. Waiters(info') BY <1>6, InfoFacts
  <2>2. active_proc' = active_proc /\ ready_queue' = ready_queue
    BY <1>1 DEF taskVars, schedVars
  <2>3. Housed(active_proc, ready_queue, 1..Len(info), Waits(info))
    BY DEF Inv
  <2>4. Housed(active_proc, ready_queue, 1..Len(info'), Waits(info'))
    BY <1>3, <1>5, <1>6, <2>1, <2>3, NewAt
  <2> QED BY <2>2, <2>4, Zenon
<1>8. reclaim_list' \in Seq(Ids) /\ Len(reclaim_list') <= k + 1
  <2> HIDE DEF k
  <2>1. NewId \in Ids BY <1>4 DEF Ids
  <2>2. CASE reclaim_list' = Append(reclaim_list, NewId)
    <3>1. /\ Append(reclaim_list, NewId) \in Seq(Ids)
          /\ Len(Append(reclaim_list, NewId)) = Len(reclaim_list) + 1
      BY <1>3, <2>1
    <3> QED BY <1>3, <2>2, <3>1
  <2>3. CASE reclaim_list' = reclaim_list BY <1>3, <2>3
  <2> QED BY <2>2, <2>3
<1>9. /\ pipe_list' \in Seq(1..k + 1) /\ NoDup(pipe_list')
      /\ On(pipe_list') = On(pipe_list) \cup {k + 1}
  <2> DEFINE S == 1..k + 1
             e == k + 1
  <2>1. pipe_list \in Seq(S) /\ e \in S /\ e \notin On(pipe_list)
    BY <1>3
  <2> HIDE DEF S, e
  <2>2. /\ Append(pipe_list, e) \in Seq(S) /\ NoDup(Append(pipe_list, e))
        /\ On(Append(pipe_list, e)) = On(pipe_list) \cup {e}
    BY <1>3, <2>1, AppendFacts
  <2>3. pipe_list' = Append(pipe_list, e) BY <1>1 DEF e
  <2> QED BY <2>2, <2>3, Zenon DEF S, e
<1>10. ListsOK'
  <2>1. 1..k + 1 = 1..k \cup {k + 1} BY <1>3
  <2>2. On(pipe_list') = {q \in 1..k + 1 : ~info'[q].freed}
    BY <1>3, <1>5, <1>6, <1>9, <2>1
  <2> QED BY <1>6, <1>8, <1>9, <2>2 DEF ListsOK
<1>11. kpc' = kpc /\ frame' = frame /\ panic' = panic
       /\ active_proc' = active_proc /\ ready_queue' = ready_queue
  BY <1>1 DEF taskVars, schedVars
<1>12. TypeOK'
  <2>1. active_proc' \in Proc /\ ready_queue' \in Seq(Proc)
    BY <1>7 DEF Housed
  <2>2. kpc' \in [Proc -> Pcs] /\ panic' \in BOOLEAN
    BY <1>11 DEF Inv, TypeOK, Pcs
  <2> DEFINE F == [id : 0..MaxPipe, p : 0..k + 1, len : Lens,
                   exist : BOOLEAN]
  <2>3. frame' \in [Proc -> F]
    <3>1. frame \in [Proc -> Frame] BY DEF Inv, TypeOK, Frame
    <3>2. \A x \in 0..k : x \in 0..k + 1 BY <1>3
    <3>3. \A f \in Frame : f \in F BY <3>2 DEF Frame
    <3> HIDE DEF F
    <3> QED BY <1>11, <3>1, <3>3
  <2> QED BY <1>6, <1>8, <1>9, <2>1, <2>2, <2>3 DEF TypeOK, Pcs
<1>13. FramesOK'
  <2> SUFFICES ASSUME NEW q \in Proc, kpc[q] = "pipe"
               PROVE  /\ frame[q].p \in 1..k + 1
                      /\ ~info'[frame[q].p].freed
                           => frame[q].id = info'[frame[q].p].id
    BY <1>6, <1>11 DEF FramesOK
  <2>1. /\ frame[q].p \in 1..k
        /\ ~info[frame[q].p].freed => frame[q].id = info[frame[q].p].id
    BY DEF Inv, FramesOK
  <2> QED BY <1>3, <1>6, <2>1
<1>14. \A q \in 1..k + 1 : q \in 1..k \/ q = k + 1 BY <1>3
<1>15. On(info'[k + 1].waiting) = {} BY <1>5, <1>6, OnEmpty
<1>16. WaitersRead'
  <2>1. \A q \in 1..k : \A x \in On(info'[q].waiting) :
           kpc[x] = "pipe" /\ frame[x].p = q
    BY <1>6 DEF Inv, WaitersRead
  <2> QED BY <1>6, <1>11, <1>14, <1>15, <2>1 DEF WaitersRead
<1>17. IdleInUser' BY <1>11 DEF Inv, IdleInUser
<1>18. FirstInFirstOut'
  <2>1. \A q \in 1..k : Fifo(info'[q])
    BY <1>6 DEF Inv, FirstInFirstOut, Fifo
  <2>2. \A q \in 1..k + 1 : Fifo(info'[q]) BY <1>5, <1>6, <1>14, <2>1
  <2> QED BY <1>6, <2>2 DEF FirstInFirstOut, Fifo
<1>19. LoneReaderWoken'
  <2>1. \A q \in 1..k : Lone(q)'
    BY <1>6, <1>11 DEF Inv, LoneReaderWoken, Lone, OnTheWay
  <2>2. Len(info'[k + 1].waiting) = 0 BY <1>5, <1>6
  <2> QED BY <1>6, <1>14, <2>1, <2>2 DEF LoneReaderWoken, Lone
<1> QED BY <1>7, <1>10, <1>12, <1>13, <1>16, <1>17, <1>18, <1>19 DEF Inv

----------------------------------------------------------------------------
(* The inductive invariant *)

(* A clock interrupt, or nothing. *)
LEMMA PreemptInv ==
    ASSUME Inv, Preempt, UNCHANGED pipeVars
    PROVE  Inv'
<1>1. /\ info' = info /\ pipe_list' = pipe_list /\ frame' = frame
      /\ reclaim_list' = reclaim_list /\ panic' = panic
  BY DEF pipeVars
<1>2. /\ Housed(active_proc', ready_queue', 1..Len(info), Waits(info))
      /\ kpc' = kpc
      /\ On(ready_queue') \cup {active_proc'}
           = On(ready_queue) \cup {active_proc}
  BY Preempted DEF Inv
<1>3. active_proc' \in Proc /\ ready_queue' \in Seq(Proc)
  BY <1>2 DEF Housed
<1>4. TypeOK' BY <1>1, <1>2, <1>3 DEF Inv, TypeOK
<1>5. ListsOK' /\ FramesOK' /\ WaitersRead' /\ IdleInUser' /\ FirstInFirstOut'
  BY <1>1, <1>2
  DEF Inv, ListsOK, FramesOK, WaitersRead, IdleInUser, FirstInFirstOut
<1>6. \A o \in 1..Len(info) :
         {p \in On(ready_queue') \cup {active_proc'} :
            kpc[p] = "pipe" /\ frame[p].p = o} = OnTheWay(o)
  BY <1>2 DEF OnTheWay
<1>7. LoneReaderWoken'
  BY <1>1, <1>2, <1>6 DEF Inv, LoneReaderWoken, OnTheWay
<1> QED BY <1>1, <1>2, <1>4, <1>5, <1>7 DEF Inv

LEMMA InitInv == Init => Inv
<1> SUFFICES ASSUME Init PROVE Inv OBVIOUS
<1>1. /\ TasksInit /\ info = <<>> /\ Len(info) = 0 /\ pipe_list = <<>>
      /\ On(pipe_list) = {} /\ NoDup(pipe_list) /\ reclaim_list = <<>>
      /\ Len(reclaim_list) = 0 /\ panic = FALSE
      /\ frame = [p \in Proc |-> NoFrame]
  BY OnEmpty DEF Init
<1>2. Housed(active_proc, ready_queue, 1..Len(info), Waits(info))
  <2>1. Waits(info) \in [1..Len(info) -> {<<>>}] BY <1>1 DEF Waits
  <2> QED BY <1>1, <2>1, InitHoused
<1>3. TypeOK
  <2>1. active_proc \in Proc /\ ready_queue \in Seq(Proc) BY <1>2 DEF Housed
  <2>2. kpc \in [Proc -> {"user", "pipe"}] BY <1>1 DEF TasksInit
  <2>3. /\ info \in Seq(Info) /\ pipe_list \in Seq(1..Len(info))
        /\ reclaim_list \in Seq(Ids) /\ panic \in BOOLEAN
    <3>1. \A S : <<>> \in Seq(S) OBVIOUS
    <3> QED BY <1>1, <3>1, Zenon
  <2>4. frame \in [Proc -> Frame]
    <3>1. 0 \in 0..MaxPipe /\ 0 \in 0..Len(info) /\ 0 \in Lens
      BY <1>1, PipeAssumption DEF Lens
    <3>2. NoFrame \in Frame BY <3>1 DEF NoFrame, Frame
    <3> QED BY <1>1, <3>2
  <2> QED BY <2>1, <2>2, <2>3, <2>4 DEF TypeOK, Frame
<1>4. ListsOK BY <1>1 DEF ListsOK
<1>5. \A p \in Proc : kpc[p] = "user" BY <1>1 DEF TasksInit
<1>6. FramesOK /\ IdleInUser BY <1>5, IdleIsProc DEF FramesOK, IdleInUser
<1>7. WaitersRead /\ FirstInFirstOut /\ LoneReaderWoken
  BY <1>1 DEF WaitersRead, FirstInFirstOut, LoneReaderWoken
<1> QED BY <1>2, <1>3, <1>4, <1>6, <1>7 DEF Inv

LEMMA NextInv ==
    ASSUME Inv, [Next]_vars
    PROVE  Inv'
<1>1. ASSUME NEW p \in Proc, PipeInit(p) PROVE Inv'
  BY <1>1, CreateInv DEF PipeInit
<1>2. ASSUME NEW p \in Proc, PipeInitFail(p) PROVE Inv'
  BY <1>2, CreateInv DEF PipeInitFail
<1>3. ASSUME NEW p \in Proc, NEW id \in Ids, NEW len \in Lens,
             PipeRead(p, id, len)
      PROVE  Inv'
  BY <1>3, PipeReadInv
<1>4. ASSUME NEW p \in Proc, PipeReadBack(p) PROVE Inv'
  BY <1>4, PipeReadBackInv
<1>5. ASSUME NEW p \in Proc, NEW id \in Ids, NEW len \in Lens,
             PipeWrite(p, id, len)
      PROVE  Inv'
  BY <1>5, PipeWriteInv
<1>6. ASSUME NEW p \in Proc, NEW id \in Ids, Reclaim(p, id) PROVE Inv'
  BY <1>6, ReclaimInv
<1>7. CASE Preempt /\ UNCHANGED pipeVars BY <1>7, PreemptInv
<1>8. CASE UNCHANGED vars
  <2>1. /\ active_proc' = active_proc /\ ready_queue' = ready_queue
        /\ kpc' = kpc /\ info' = info /\ pipe_list' = pipe_list
        /\ reclaim_list' = reclaim_list /\ frame' = frame /\ panic' = panic
    BY <1>8 DEF vars, pipeVars, taskVars, schedVars
  <2>2. TypeOK' /\ ListsOK' /\ FramesOK'
    BY <2>1 DEF Inv, TypeOK, ListsOK, FramesOK
  <2>3. WaitersRead' /\ IdleInUser'
    BY <2>1 DEF Inv, WaitersRead, IdleInUser
  <2>4. FirstInFirstOut' BY <2>1 DEF Inv, FirstInFirstOut
  <2>5. \A o \in 1..Len(info) : OnTheWay(o)' = OnTheWay(o)
    BY <2>1 DEF OnTheWay
  <2>6. LoneReaderWoken' BY <2>1, <2>5 DEF Inv, LoneReaderWoken
  <2> QED BY <2>1, <2>2, <2>3, <2>4, <2>6 DEF Inv
<1> QED BY <1>1, <1>2, <1>3, <1>4, <1>5, <1>6, <1>7, <1>8 DEF Next

LEMMA SpecInv == Spec => []Inv
  BY InitInv, NextInv, PTL DEF Spec

----------------------------------------------------------------------------
(* The theorems *)

(* The kernel's variables always hold what their declarations say. *)
THEOREM TypeCorrect == Spec => []TypeOK
<1>1. Inv => TypeOK BY DEF Inv
<1> QED BY <1>1, SpecInv, PTL

(* No call of PipeRead, PipeWrite or Reclaim loses a process or queues it
   twice, not even those that go on at a pipe that was freed. *)
THEOREM Residence == Spec => []SingleResidence
<1>1. ASSUME Inv PROVE SingleResidence
  <2>1. Waiters(info) BY <1>1, Types
  <2>2. Housed(active_proc, ready_queue, 1..Len(info), Waits(info))
    BY <1>1 DEF Inv
  <2> QED BY <2>1, <2>2, HousedAt DEF SingleResidence, Blocked
<1>2. Inv => SingleResidence BY <1>1
<1> QED BY <1>2, SpecInv, PTL

(* What comes out of a pipe is what went in, in order and without gaps,
   whoever reads how much while others write, and the buffer of the pipe
   never holds more than PIPE_BUF_SIZE bytes. *)
THEOREM BytesInOrder == Spec => []FirstInFirstOut
<1>1. Inv => FirstInFirstOut BY DEF Inv
<1> QED BY <1>1, SpecInv, PTL

(* A reader that waits alone does not wait for bytes that are there. *)
THEOREM NoLostWakeup == Spec => []LoneReaderWoken
<1>1. Inv => LoneReaderWoken BY DEF Inv
<1> QED BY <1>1, SpecInv, PTL
=============================================================================
