---------------------------- MODULE MemoryProofs ----------------------------
(***************************************************************************)
(* The safety of the memory: no frame is used twice, nobody runs on the    *)
(* kernel stack of another, for any number of frames, pages and processes, *)
(* any programs and any addresses, whatever runs out half way.             *)
(***************************************************************************)
EXTENDS Memory, SchedulerProofs, FiniteSetTheorems

----------------------------------------------------------------------------
(* The loops around grab_a_frame *)

(* The frames that are got are the ones up to the end of the list, to a
   frame 0 on it, or to the last one asked for. *)
LEMMA GrantedFacts ==
    ASSUME NEW S, NEW free \in Seq(S), NEW n \in Nat
    PROVE  LET g == Granted(free, n) IN
           /\ g \in 0..n /\ g <= Len(free)
           /\ \A k \in 1..g : free[k] # 0
           /\ g < n => g = Len(free) \/ (g < Len(free) /\ free[g + 1] = 0)
<1> DEFINE G == {k \in 1..n : k <= Len(free) /\ \A j \in 1..k : free[j] # 0}
           M == {k \in 1..n + 1 : k \notin G}
<1>0. Len(free) \in Nat OBVIOUS
<1>1. M \in SUBSET Nat /\ M # {}
  <2>1. n + 1 \in M OBVIOUS
  <2>2. \A k \in M : k \in Nat OBVIOUS
  <2> HIDE DEF M
  <2> QED BY <2>1, <2>2
<1>2. PICK m \in M : \A j \in M : m <= j
  <2> HIDE DEF M
  <2> QED BY <1>1, Smallest
<1>3. m \in 1..n + 1 /\ m - 1 \in 0..n OBVIOUS
<1>4. \A k \in 1..m - 1 : k \in G BY <1>2, <1>3
<1>5. \A k \in 1..n : k >= m => k \notin G
  <2>1. m \notin G OBVIOUS
  <2>2. CASE m > Len(free) BY <1>0, <1>3, <2>2
  <2>3. CASE m <= Len(free) /\ m \in 1..n
    <3>1. \E j \in 1..m : free[j] = 0 BY <2>1, <2>3
    <3> QED BY <1>3, <3>1
  <2>4. CASE m = n + 1 BY <2>4
  <2> QED BY <1>0, <1>3, <2>2, <2>3, <2>4
<1>6. G = 1..m - 1
  <2>1. \A k \in G : k \in 1..n OBVIOUS
  <2> HIDE DEF G, M
  <2>2. ASSUME NEW k \in G PROVE k \in 1..m - 1
    <3>1. k \in 1..n BY <2>1
    <3>2. ~(k >= m) BY <1>5, <3>1
    <3> QED BY <1>3, <3>1, <3>2
  <2> QED BY <1>4, <2>2
<1>7. Cardinality(1..m - 1) = m - 1
  <2>1. /\ m - 1 \in Int /\ 1 \in Int BY <1>3
  <2>2. Cardinality(1..m - 1) = IF 1 > m - 1 THEN 0 ELSE m - 1 - 1 + 1
    BY <2>1, FS_Interval
  <2> QED BY <1>3, <2>2
<1>8. Granted(free, n) = m - 1 BY <1>6, <1>7 DEF Granted
<1>9. \A k \in 1..m - 1 : k <= Len(free) /\ free[k] # 0 BY <1>3, <1>4
<1>10. m - 1 <= Len(free)
  <2>1. CASE m = 1 BY <1>0, <2>1
  <2>2. CASE m > 1
    <3>1. m - 1 \in 1..m - 1 BY <1>3, <2>2
    <3> QED BY <1>9, <3>1
  <2> QED BY <1>3, <2>1, <2>2
<1>11. ASSUME m - 1 < n, m - 1 # Len(free)
       PROVE  m - 1 < Len(free) /\ free[m - 1 + 1] = 0
  <2>1. m \in 1..n /\ m <= Len(free) BY <1>0, <1>3, <1>10, <1>11
  <2>2. m \notin G OBVIOUS
  <2>3. PICK j \in 1..m : free[j] = 0 BY <2>1, <2>2
  <2>4. j = m BY <1>3, <1>9, <2>3
  <2> QED BY <1>0, <1>3, <2>1, <2>3, <2>4
<1> HIDE DEF G, M
<1> QED BY <1>3, <1>8, <1>9, <1>10, <1>11

(* They are taken off the front of the list. *)
LEMMA LeftFacts ==
    ASSUME NEW S, NEW free \in Seq(S), NEW n \in Nat
    PROVE  /\ Left(free, n) \in Seq(S)
           /\ \E off \in Nat :
                 /\ off >= Granted(free, n)
                 /\ Granted(free, n) = n => off = n
                 /\ \A k \in 1..Len(Left(free, n)) :
                       off + k \in 1..Len(free) /\ Left(free, n)[k] = free[off + k]
<1> DEFINE g == Granted(free, n)
           off == IF g = n THEN n ELSE g + 1
<1>1. g \in 0..n /\ g <= Len(free) /\ Len(free) \in Nat BY GrantedFacts
<1>2. Left(free, n) = SubSeq(free, off + 1, Len(free))
  <2>1. (IF g = n THEN n + 1 ELSE g + 2) = off + 1 BY <1>1
  <2> QED BY <2>1 DEF Left
<1>3. off \in Nat /\ off >= g /\ off <= Len(free) + 1
  BY <1>1
<1> HIDE DEF g
<1>4. g = n => off = n OBVIOUS
<1> HIDE DEF off
<1>5. /\ SubSeq(free, off + 1, Len(free)) \in Seq(S)
      /\ \A k \in 1..Len(SubSeq(free, off + 1, Len(free))) :
            /\ off + k \in 1..Len(free)
            /\ SubSeq(free, off + 1, Len(free))[k] = free[off + k]
  <2>1. CASE off <= Len(free)
    <3>1. off \in 0..Len(free) BY <1>1, <1>3, <2>1
    <3>2. /\ SubSeq(free, off + 1, Len(free)) \in Seq(S)
          /\ Len(SubSeq(free, off + 1, Len(free))) = Len(free) - off
          /\ \A i \in 1..Len(free) - off :
                SubSeq(free, off + 1, Len(free))[i] = free[off + i]
      BY <3>1, SubSeqFacts
    <3> DEFINE s == SubSeq(free, off + 1, Len(free))
    <3>3. /\ s \in Seq(S) /\ Len(s) = Len(free) - off
          /\ \A i \in 1..Len(free) - off : s[i] = free[off + i]
      BY <3>2
    <3> HIDE DEF s
    <3>4. \A k \in 1..Len(s) : off + k \in 1..Len(free) /\ s[k] = free[off + k]
      BY <1>1, <1>3, <3>3
    <3> QED BY <3>3, <3>4 DEF s
  <2>2. CASE off = Len(free) + 1
    <3> DEFINE s == SubSeq(free, off + 1, Len(free))
    <3>1. s = <<>> BY <1>1, <2>2
    <3> HIDE DEF s
    <3>2. s \in Seq(S) /\ Len(s) = 0 BY <3>1
    <3>3. \A k \in 1..Len(s) : off + k \in 1..Len(free) /\ s[k] = free[off + k]
      BY <3>2
    <3> QED BY <3>2, <3>3 DEF s
  <2>3. off <= Len(free) \/ off = Len(free) + 1 BY <1>1, <1>3
  <2> QED BY <2>1, <2>2, <2>3, Zenon
<1> QED BY <1>2, <1>3, <1>4, <1>5 DEF g

\* m is table t with the first g of the pages mapped to the first frames.
MapsTo(t, pages, free, g, m) ==
    \A i \in DOMAIN t :
        \/ m[i] = t[i] /\ ~\E k \in 1..g : pages[k] = i
        \/ \E k \in 1..g : pages[k] = i /\ m[i] = free[k]

(* The table that such a loop leaves. *)
LEMMA MappedFacts ==
    ASSUME NEW S, NEW free \in Seq(S), NEW I, NEW X, NEW t \in [I -> X],
           NEW pages, Len(pages) \in Nat
    PROVE  LET m == Mapped(t, pages, free)
               g == Granted(free, Len(pages)) IN
           m \in [I -> X \cup (S \ {0})] /\ MapsTo(t, pages, free, g, m)
<1> DEFINE m == Mapped(t, pages, free)
           g == Granted(free, Len(pages))
           K(i) == {k \in 1..g : pages[k] = i}
<1>1. /\ g \in Nat /\ g <= Len(free) /\ Len(free) \in Nat
      /\ \A k \in 1..g : free[k] # 0
  BY GrantedFacts
<1>2. m = [i \in I |-> IF K(i) = {} THEN t[i] ELSE free[CHOOSE k \in K(i) : TRUE]]
  BY DEF Mapped
<1> HIDE DEF m, g
<1>3. ASSUME NEW i \in I, K(i) # {}
      PROVE  \E k \in 1..g : pages[k] = i /\ m[i] = free[k] /\ m[i] \in S \ {0}
  <2> DEFINE k == CHOOSE k \in K(i) : TRUE
  <2>1. k \in K(i) BY <1>3
  <2>2. m[i] = free[k] BY <1>2, <1>3
  <2> HIDE DEF k
  <2>3. k \in 1..g /\ pages[k] = i /\ free[k] \in S /\ free[k] # 0
    BY <1>1, <2>1
  <2> QED BY <2>2, <2>3
<1>4. ASSUME NEW i \in I, K(i) = {}
      PROVE  m[i] = t[i] /\ ~\E k \in 1..g : pages[k] = i
  BY <1>2, <1>4
<1>5. ASSUME NEW i \in I PROVE m[i] \in X \cup (S \ {0})
  BY <1>3, <1>4
<1>6. m \in [I -> X \cup (S \ {0})] BY <1>2, <1>5
<1>7. MapsTo(t, pages, free, g, m)
  <2>1. DOMAIN t = I OBVIOUS
  <2> QED BY <1>3, <1>4, <2>1 DEF MapsTo
<1> QED BY <1>6, <1>7 DEF m, g

----------------------------------------------------------------------------
(* The pages of a walk in order *)

\* v lists what is in S, everything once.
Enumerates(v, S) ==
    LET n == Cardinality(S) IN
    /\ n \in Nat /\ v \in [1..n -> S] /\ Len(v) = n /\ v \in Seq(S)
    /\ \A j, k \in 1..n : v[j] = v[k] => j = k
    /\ \A i \in S : \E k \in 1..n : v[k] = i

(* InOrder leaves nothing out and lists nothing twice. *)
LEMMA InOrderFacts ==
    ASSUME NEW N \in Nat, NEW S \in SUBSET (0..N)
    PROVE  Enumerates(InOrder(S), S)
<1> DEFINE n == Cardinality(S)
           B(i) == {j \in S : j <= i}
           c == [i \in S |-> Cardinality(B(i))]
           v == InOrder(S)
<1>1. IsFiniteSet(S) /\ n \in Nat
  <2>1. IsFiniteSet(0..N) BY FS_Interval
  <2> QED BY <2>1, FS_Subset, FS_CardinalityType
<1>2. ASSUME NEW i \in S
      PROVE  IsFiniteSet(B(i)) /\ c[i] \in 1..n
  <2>1. B(i) \in SUBSET S /\ i \in B(i) OBVIOUS
  <2>2. IsFiniteSet(B(i)) /\ Cardinality(B(i)) <= n BY <1>1, <2>1, FS_Subset
  <2>3. Cardinality(B(i)) \in Nat /\ Cardinality(B(i)) # 0
    BY <2>1, <2>2, FS_CardinalityType, FS_EmptySet
  <2> QED BY <1>1, <2>2, <2>3
<1>3. ASSUME NEW i \in S, NEW j \in S, i < j PROVE c[i] # c[j]
  <2>1. B(i) \in SUBSET B(j) /\ j \in B(j) /\ j \notin B(i)
    <3>1. \A x \in S : x \in Int OBVIOUS
    <3>2. \A x \in S : x <= i => x <= j BY <1>3, <3>1
    <3>3. j <= j /\ ~(j <= i) BY <1>3, <3>1
    <3> QED BY <3>2, <3>3
  <2>2. IsFiniteSet(B(j)) BY <1>2
  <2>3. Cardinality(B(i)) = Cardinality(B(j)) => B(i) = B(j)
    BY <2>1, <2>2, FS_Subset
  <2> QED BY <2>1, <2>3
<1>4. \A i, j \in S : c[i] = c[j] => i = j
  <2>1. \A i \in S : i \in Int OBVIOUS
  <2> HIDE DEF c
  <2> QED BY <1>3, <2>1
<1>5. c \in Injection(S, 1..n)
  <2>1. c \in [S -> 1..n] BY <1>2
  <2> HIDE DEF c
  <2> QED BY <1>4, <2>1 DEF Injection, IsInjective
<1>6. c \in Surjection(S, 1..n)
  <2>1. IsFiniteSet(1..n) /\ Cardinality(1..n) = n
    <3>1. /\ IsFiniteSet(1..n)
          /\ Cardinality(1..n) = IF 1 > n THEN 0 ELSE n - 1 + 1
      BY <1>1, FS_Interval
    <3> QED BY <1>1, <3>1
  <2> HIDE DEF c
  <2> QED BY <1>5, <2>1, FS_Injection
<1>7. ASSUME NEW k \in 1..n PROVE \E i \in S : c[i] = k
  <2> HIDE DEF c
  <2> QED BY <1>6 DEF Surjection
<1>8. v = [k \in 1..n |-> CHOOSE i \in S : Cardinality(B(i)) = k]
  BY DEF InOrder
<1>9. ASSUME NEW k \in 1..n PROVE v[k] \in S /\ c[v[k]] = k
  <2>1. v[k] = CHOOSE i \in S : Cardinality(B(i)) = k BY <1>8
  <2>2. \E i \in S : Cardinality(B(i)) = k BY <1>7
  <2>3. v[k] \in S /\ Cardinality(B(v[k])) = k BY <2>1, <2>2, Zenon
  <2> QED BY <2>3
<1> HIDE DEF c, v
<1> HIDE DEF n
<1>10. v \in [1..n -> S] BY <1>8, <1>9
<1>11. v \in Seq(S) /\ Len(v) = n BY <1>1, <1>10
<1>12. \A j, k \in 1..n : v[j] = v[k] => j = k BY <1>9
<1>13. ASSUME NEW i \in S PROVE \E k \in 1..n : v[k] = i
  BY <1>2, <1>4, <1>9
<1> QED BY <1>1, <1>10, <1>11, <1>12, <1>13 DEF n, v, Enumerates

----------------------------------------------------------------------------
(* Tables of frames: page tables, the free list, the copy of the stack *)

\* No frame but 0 is in t twice.
Once(t) ==
    \A i, j \in DOMAIN t : t[i] = t[j] /\ t[i] \notin {0, NoFrame} => i = j

\* t and u share no frame but 0.
Apart(t, u) ==
    \A i \in DOMAIN t, j \in DOMAIN u : t[i] = u[j] => t[i] \in {0, NoFrame}

\* Every frame but 0 in t is in u or in v.
From(t, u, v) ==
    \A i \in DOMAIN t :
        \/ t[i] \in {0, NoFrame}
        \/ \E j \in DOMAIN u : t[i] = u[j]
        \/ \E j \in DOMAIN v : t[i] = v[j]

\* Frames moved between two tables: t1 and u1 are what t and u became.
Moved(t, u, t1, u1) ==
    /\ Once(t1) /\ Once(u1) /\ Apart(t1, u1)
    /\ From(t1, t, u) /\ From(u1, t, u)

\* t1 is t, but for entries that are frame 0 or none, or the k-th frame of
\* free where pages[k] is their index; f1 is free without its first frames.
Draws(t, free, t1, f1, off, pages) ==
    /\ \A i \in DOMAIN t :
          \/ t1[i] = t[i]
          \/ t1[i] \in {0, NoFrame}
          \/ \E k \in 1..off : k <= Len(free) /\ pages[k] = i /\ t1[i] = free[k]
    /\ \A k \in 1..Len(f1) : off + k \in 1..Len(free) /\ f1[k] = free[off + k]

(* Frames that are drawn from the front of the free list. *)
LEMMA DrawFacts ==
    ASSUME NEW free \in Seq(Frame), NEW f1 \in Seq(Frame), NEW I, NEW t, NEW t1,
           DOMAIN t = I, DOMAIN t1 = I, NEW off \in Nat, NEW pages,
           Draws(t, free, t1, f1, off, pages),
           Once(t), Once(free), Apart(t, free)
    PROVE  Moved(t, free, t1, f1)
<1> DEFINE l == Len(free)
           Drawn(i) == \E k \in 1..off : k <= l /\ pages[k] = i /\ t1[i] = free[k]
<1>1. /\ \A i \in I : t1[i] = t[i] \/ t1[i] \in {0, NoFrame} \/ Drawn(i)
      /\ \A k \in 1..Len(f1) : off + k \in 1..l /\ f1[k] = free[off + k]
  BY DEF Draws
<1>2. l \in Nat /\ Len(f1) \in Nat OBVIOUS
<1>3. DOMAIN free = 1..l /\ DOMAIN f1 = 1..Len(f1) OBVIOUS
<1>4. /\ \A i, j \in I : t[i] = t[j] /\ t[i] \notin {0, NoFrame} => i = j
      /\ \A i, j \in 1..l :
            free[i] = free[j] /\ free[i] \notin {0, NoFrame} => i = j
      /\ \A i \in I, j \in 1..l : t[i] = free[j] => t[i] \in {0, NoFrame}
  BY <1>3 DEF Once, Apart
<1> HIDE DEF l
<1>5. ASSUME NEW i \in I, Drawn(i)
      PROVE  \E k \in 1..l : k \in 1..off /\ pages[k] = i /\ t1[i] = free[k]
  <2>1. PICK k \in 1..off : k <= l /\ pages[k] = i /\ t1[i] = free[k] BY <1>5
  <2>2. k \in 1..l BY <1>2, <2>1
  <2> QED BY <2>1, <2>2
<1> HIDE DEF Drawn
<1>6. ASSUME NEW i \in I, NEW j \in I, t1[i] = t1[j], t1[i] \notin {0, NoFrame}
      PROVE  i = j
  <2>1. CASE t1[i] = t[i] /\ t1[j] = t[j] BY <1>4, <1>6, <2>1
  <2>2. CASE t1[i] = t[i] /\ Drawn(j)
    <3>1. PICK k \in 1..l : t1[j] = free[k] BY <1>5, <2>2
    <3>2. t[i] = free[k] /\ t[i] \notin {0, NoFrame} BY <1>6, <2>2, <3>1
    <3> QED BY <1>4, <3>2
  <2>3. CASE Drawn(i) /\ t1[j] = t[j]
    <3>1. PICK k \in 1..l : t1[i] = free[k] BY <1>5, <2>3
    <3>2. t[j] = free[k] /\ t[j] \notin {0, NoFrame} BY <1>6, <2>3, <3>1
    <3> QED BY <1>4, <3>2
  <2>4. CASE Drawn(i) /\ Drawn(j)
    <3>1. PICK k \in 1..l : pages[k] = i /\ t1[i] = free[k] BY <1>5, <2>4
    <3>2. PICK m \in 1..l : pages[m] = j /\ t1[j] = free[m] BY <1>5, <2>4
    <3>3. k = m BY <1>4, <1>6, <3>1, <3>2, ZenonT(30)
    <3> QED BY <3>1, <3>2, <3>3
  <2> QED BY <1>1, <1>6, <2>1, <2>2, <2>3, <2>4
<1>7. ASSUME NEW i \in 1..Len(f1), NEW j \in 1..Len(f1), f1[i] = f1[j],
             f1[i] \notin {0, NoFrame}
      PROVE  i = j
  <2>1. off + i = off + j BY <1>1, <1>4, <1>7
  <2> QED BY <1>2, <2>1
<1>8. ASSUME NEW i \in I, NEW j \in 1..Len(f1), t1[i] = f1[j]
      PROVE  t1[i] \in {0, NoFrame}
  <2>1. off + j \in 1..l /\ f1[j] = free[off + j] BY <1>1
  <2>2. CASE t1[i] = t[i] BY <1>4, <1>8, <2>1, <2>2
  <2>3. CASE Drawn(i)
    <3>1. PICK k \in 1..l : k \in 1..off /\ t1[i] = free[k] BY <1>5, <2>3
    <3>2. k # off + j BY <1>2, <3>1
    <3> QED BY <1>4, <1>8, <2>1, <3>1, <3>2
  <2> QED BY <1>1, <2>2, <2>3
<1>9. Once(t1) BY <1>6 DEF Once
<1>10. Once(f1) BY <1>3, <1>7 DEF Once
<1>11. Apart(t1, f1) BY <1>3, <1>8 DEF Apart
<1>12. From(t1, t, free)
  <2>1. ASSUME NEW i \in I
        PROVE  \/ t1[i] \in {0, NoFrame} \/ \E j \in I : t1[i] = t[j]
               \/ \E j \in 1..l : t1[i] = free[j]
    BY <1>1, <1>5
  <2> QED BY <1>3, <2>1 DEF From
<1>13. From(f1, t, free)
  <2>1. \A i \in 1..Len(f1) : \E j \in 1..l : f1[i] = free[j] BY <1>1
  <2> QED BY <1>3, <2>1 DEF From
<1> QED BY <1>9, <1>10, <1>11, <1>12, <1>13 DEF Moved

(* So the loops around grab_a_frame do. *)
LEMMA MappedDraws ==
    ASSUME NEW free \in Seq(Frame), NEW I, NEW X, NEW t \in [I -> X],
           NEW pages, Len(pages) \in Nat
    PROVE  LET t1 == Mapped(t, pages, free)
               f1 == Left(free, Len(pages)) IN
           /\ DOMAIN t = I /\ DOMAIN t1 = I /\ f1 \in Seq(Frame)
           /\ \E off \in Nat : Draws(t, free, t1, f1, off, pages)
<1> DEFINE t1 == Mapped(t, pages, free)
           f1 == Left(free, Len(pages))
           g == Granted(free, Len(pages))
<1>1. t1 \in [I -> X \cup (Frame \ {0})] /\ MapsTo(t, pages, free, g, t1)
  BY MappedFacts
<1>2. g \in Nat /\ g <= Len(free) /\ Len(free) \in Nat BY GrantedFacts
<1>3. f1 \in Seq(Frame) BY LeftFacts
<1>4. PICK off \in Nat :
        /\ off >= g
        /\ \A k \in 1..Len(f1) : off + k \in 1..Len(free) /\ f1[k] = free[off + k]
  BY LeftFacts
<1> HIDE DEF t1, f1, g
<1>5. ASSUME NEW i \in I
      PROVE  \/ t1[i] = t[i]
             \/ \E k \in 1..off : k <= Len(free) /\ pages[k] = i /\ t1[i] = free[k]
  <2>1. ASSUME NEW k \in 1..g PROVE k \in 1..off /\ k <= Len(free)
    BY <1>2, <1>4
  <2>2. DOMAIN t = I OBVIOUS
  <2> QED BY <1>1, <2>1, <2>2 DEF MapsTo
<1>6. Draws(t, free, t1, f1, off, pages) BY <1>4, <1>5 DEF Draws
<1> QED BY <1>1, <1>3, <1>6 DEF t1, f1

LEMMA TakeFacts ==
    ASSUME NEW free \in Seq(Frame), NEW I, NEW X, NEW t \in [I -> X],
           NEW pages, Len(pages) \in Nat, Once(t), Once(free), Apart(t, free)
    PROVE  Moved(t, free, Mapped(t, pages, free), Left(free, Len(pages)))
<1> DEFINE t1 == Mapped(t, pages, free)
           f1 == Left(free, Len(pages))
<1>1. /\ DOMAIN t = I /\ DOMAIN t1 = I /\ f1 \in Seq(Frame)
      /\ \E off \in Nat : Draws(t, free, t1, f1, off, pages)
  BY MappedDraws
<1> HIDE DEF t1, f1
<1>2. PICK off \in Nat : Draws(t, free, t1, f1, off, pages) BY <1>1
<1>3. Moved(t, free, t1, f1) BY <1>1, <1>2, DrawFacts
<1> QED BY <1>3 DEF t1, f1

\* f1 is what is on free and, besides, the frames of the pages in P.
Gives(t, P, free, f1) ==
    /\ \A i \in P : t[i] # NoFrame => t[i] \in On(f1)
    /\ On(free) \subseteq On(f1)
    /\ \A k \in 1..Len(f1) :
          \/ \E i \in P : t[i] # NoFrame /\ f1[k] = t[i]
          \/ \E j \in 1..Len(free) : f1[k] = free[j]

(* The frames of the pages in P go back to the front of the free list, in
   the reverse order of the walk. *)
LEMMA GiveFacts ==
    ASSUME NEW free \in Seq(Frame), NEW t \in [Page -> Frame \cup {NoFrame}],
           NEW P \in SUBSET Page, Once(t), Once(free), Apart(t, free),
           NEW t1 \in [Page -> Frame \cup {NoFrame}],
           \A i \in Page : t1[i] = IF i \in P THEN NoFrame ELSE t[i]
    PROVE  /\ Push(ValidPfns(t, P), free) \in Seq(Frame)
           /\ Moved(t, free, t1, Push(ValidPfns(t, P), free))
           /\ Gives(t, P, free, Push(ValidPfns(t, P), free))
<1> DEFINE V == {i \in P : t[i] # NoFrame}
           v == InOrder(V)
           n == Cardinality(V)
           w == ValidPfns(t, P)
           l == Len(free)
           r == [k \in 1..n |-> w[n + 1 - k]]
           f1 == Push(w, free)
<1>1. /\ n \in Nat /\ v \in [1..n -> V] /\ Len(v) = n
      /\ \A j, k \in 1..n : v[j] = v[k] => j = k
      /\ \A i \in V : \E k \in 1..n : v[k] = i
  <2>1. NPages + 1 \in Nat BY MemoryAssumption
  <2>2. V \in SUBSET (0..NPages + 1)
    <3>1. V \subseteq P /\ P \subseteq Page OBVIOUS
    <3> HIDE DEF V
    <3> QED BY <3>1 DEF Page
  <2> HIDE DEF V
  <2> DEFINE N == NPages + 1
  <2>3. N \in Nat /\ V \in SUBSET (0..N) BY <2>1, <2>2
  <2> HIDE DEF N
  <2>4. Enumerates(v, V) BY <2>3, InOrderFacts
  <2> HIDE DEF v
  <2> QED BY <2>4 DEF Enumerates
<1>2. w = [k \in 1..n |-> t[v[k]]] BY <1>1 DEF ValidPfns, ValidPages
<1>3. NoFrame \notin Frame /\ V \subseteq Page BY DEF NoFrame, Frame
<1> HIDE DEF v, n
<1>4. \A k \in 1..n : w[k] = t[v[k]] /\ w[k] \in Frame /\ v[k] \in Page
                       /\ v[k] \in P /\ t[v[k]] # NoFrame
  BY <1>1, <1>2
<1> HIDE DEF w, V
<1>5. f1 = r \o free /\ r \in Seq(Frame) /\ Len(r) = n
      /\ \A k \in 1..n : r[k] = w[n + 1 - k] /\ n + 1 - k \in 1..n
  <2>1. w \in Seq(Frame) /\ Len(w) = n
    <3>1. w \in [1..n -> Frame] BY <1>2, <1>4
    <3> QED BY <1>1, <3>1
  <2>2. f1 = r \o free BY <2>1 DEF Push
  <2>3. \A k \in 1..n : n + 1 - k \in 1..n BY <1>1
  <2>4. r \in [1..n -> Frame] BY <1>4, <2>3
  <2> QED BY <1>1, <2>2, <2>3, <2>4
<1> HIDE DEF r, f1
<1>6. /\ f1 \in Seq(Frame) /\ Len(f1) = n + l /\ l \in Nat
      /\ \A k \in 1..n : f1[k] = t[v[n + 1 - k]] /\ n + 1 - k \in 1..n
      /\ \A k \in 1..l : f1[n + k] = free[k]
      /\ On(f1) = On(r) \cup On(free)
  <2>1. /\ r \o free \in Seq(Frame) /\ Len(r \o free) = n + l /\ l \in Nat
        /\ \A k \in 1..n : (r \o free)[k] = r[k]
        /\ \A k \in 1..l : (r \o free)[n + k] = free[k]
        /\ On(r \o free) = On(r) \cup On(free)
    <3>1. r \o free \in Seq(Frame) /\ On(r \o free) = On(r) \cup On(free)
      BY <1>5, ConcatFacts
    <3>2. /\ Len(r \o free) = Len(r) + l /\ l \in Nat
          /\ \A k \in 1..Len(r) : (r \o free)[k] = r[k]
          /\ \A k \in 1..l : (r \o free)[Len(r) + k] = free[k]
      BY <1>5
    <3> QED BY <1>5, <3>1, <3>2
  <2>2. \A k \in 1..n : r[k] = t[v[n + 1 - k]] /\ n + 1 - k \in 1..n
    BY <1>4, <1>5
  <2> QED BY <1>5, <2>1, <2>2
<1> HIDE DEF l
<1>7. /\ DOMAIN t = Page /\ DOMAIN t1 = Page /\ DOMAIN f1 = 1..n + l
      /\ DOMAIN free = 1..l
  BY <1>6 DEF l
<1>8. /\ \A i, j \in Page : t[i] = t[j] /\ t[i] \notin {0, NoFrame} => i = j
      /\ \A i, j \in 1..l :
            free[i] = free[j] /\ free[i] \notin {0, NoFrame} => i = j
      /\ \A i \in Page, j \in 1..l : t[i] = free[j] => t[i] \in {0, NoFrame}
  BY <1>7 DEF Once, Apart
<1>9. ASSUME NEW k \in 1..n + l
      PROVE  \/ k \in 1..n /\ f1[k] = t[v[n + 1 - k]]
             \/ k - n \in 1..l /\ f1[k] = free[k - n]
  <2>1. CASE k <= n BY <1>1, <1>6, <2>1
  <2>2. CASE k > n
    <3>1. k - n \in 1..l /\ n + (k - n) = k BY <1>1, <1>6, <2>2
    <3> QED BY <1>6, <3>1
  <2> QED BY <1>1, <1>6, <2>1, <2>2
<1>10. ASSUME NEW j \in 1..n + l, NEW k \in 1..n + l, f1[j] = f1[k],
              f1[j] \notin {0, NoFrame}
       PROVE  j = k
  <2>1. CASE j \in 1..n /\ k \in 1..n
    <3>1. /\ f1[j] = t[v[n + 1 - j]] /\ n + 1 - j \in 1..n
          /\ f1[k] = t[v[n + 1 - k]] /\ n + 1 - k \in 1..n
      BY <1>6, <2>1
    <3>2. v[n + 1 - j] \in Page /\ v[n + 1 - k] \in Page BY <1>4, <3>1
    <3>3. v[n + 1 - j] = v[n + 1 - k]
      <4> DEFINE a == v[n + 1 - j]
                 b == v[n + 1 - k]
      <4>1. f1[j] = t[a] /\ f1[k] = t[b] /\ a \in Page /\ b \in Page
        BY <3>1, <3>2
      <4> HIDE DEF a, b
      <4>2. a = b BY <1>8, <1>10, <4>1
      <4> QED BY <4>2 DEF a, b
    <3>4. n + 1 - j = n + 1 - k BY <1>1, <3>1, <3>3
    <3> QED BY <1>1, <2>1, <3>4
  <2>2. CASE j - n \in 1..l /\ k - n \in 1..l /\ j \notin 1..n /\ k \notin 1..n
    <3>1. f1[j] = free[j - n] /\ f1[k] = free[k - n] BY <1>9, <2>2
    <3>2. j - n = k - n BY <1>8, <1>10, <2>2, <3>1
    <3>3. j \in Int /\ k \in Int /\ n \in Int BY <1>1, <1>6
    <3>4. ASSUME NEW a \in Int, NEW b \in Int, NEW c \in Int, a - c = b - c
          PROVE  a = b
      BY <3>4
    <3> QED BY <3>2, <3>3, <3>4
  <2>3. CASE j \in 1..n /\ k - n \in 1..l /\ f1[k] = free[k - n]
    <3>1. f1[j] = t[v[n + 1 - j]] /\ v[n + 1 - j] \in Page BY <1>4, <1>6, <2>3
    <3> QED BY <1>8, <1>10, <2>3, <3>1
  <2>4. CASE k \in 1..n /\ j - n \in 1..l /\ f1[j] = free[j - n]
    <3>1. f1[k] = t[v[n + 1 - k]] /\ v[n + 1 - k] \in Page BY <1>4, <1>6, <2>4
    <3> DEFINE a == v[n + 1 - k]
    <3>2. f1[k] = t[a] /\ a \in Page BY <3>1
    <3> HIDE DEF a
    <3>3. t[a] = free[j - n] /\ t[a] \notin {0, NoFrame} BY <1>10, <2>4, <3>2
    <3> QED BY <1>8, <2>4, <3>2, <3>3
  <2> QED BY <1>9, <2>1, <2>2, <2>3, <2>4
<1>11. ASSUME NEW i \in Page, NEW k \in 1..n + l, t1[i] = f1[k]
       PROVE  t1[i] \in {0, NoFrame}
  <2>1. CASE i \in P BY <2>1
  <2>2. CASE i \notin P
    <3>1. t1[i] = t[i] BY <2>2
    <3>2. CASE k \in 1..n
      <4>1. /\ f1[k] = t[v[n + 1 - k]] /\ v[n + 1 - k] \in Page
            /\ v[n + 1 - k] \in P
        BY <1>4, <1>6, <3>2
      <4> QED BY <1>8, <1>11, <2>2, <3>1, <4>1
    <3>3. CASE k - n \in 1..l /\ f1[k] = free[k - n]
      BY <1>8, <1>11, <3>1, <3>3
    <3> QED BY <1>9, <3>2, <3>3
  <2> QED BY <2>1, <2>2
<1>12. ASSUME NEW k \in 1..n + l
       PROVE  \/ \E i \in P : t[i] # NoFrame /\ f1[k] = t[i]
              \/ \E j \in 1..l : f1[k] = free[j]
  <2>1. CASE k \in 1..n
    <3>1. /\ f1[k] = t[v[n + 1 - k]] /\ v[n + 1 - k] \in P
          /\ t[v[n + 1 - k]] # NoFrame
      BY <1>4, <1>6, <2>1
    <3> QED BY <3>1
  <2>2. CASE k - n \in 1..l /\ f1[k] = free[k - n] BY <2>2
  <2> QED BY <1>9, <2>1, <2>2
<1>13. Once(t1) /\ Once(f1) /\ Apart(t1, f1)
  <2>1. Once(t1) BY <1>7, <1>8 DEF Once
  <2>2. Once(f1) BY <1>7, <1>10 DEF Once
  <2>3. Apart(t1, f1) BY <1>7, <1>11 DEF Apart
  <2> QED BY <2>1, <2>2, <2>3
<1>14. From(t1, t, free) BY <1>7 DEF From
<1>15. From(f1, t, free) BY <1>7, <1>12 DEF From
<1>16. ASSUME NEW i \in P, t[i] # NoFrame PROVE t[i] \in On(f1)
  <2>1. PICK k \in 1..n : v[k] = i BY <1>1, <1>16 DEF V
  <2>2. n + 1 - k \in 1..n /\ n + 1 - (n + 1 - k) = k BY <1>1
  <2>3. f1[n + 1 - k] = t[i] BY <1>6, <2>1, <2>2
  <2>4. n + 1 - k \in 1..Len(f1) BY <1>1, <1>6, <2>2
  <2> QED BY <2>3, <2>4 DEF On
<1>17. Gives(t, P, free, f1) BY <1>6, <1>12, <1>16 DEF Gives, l
<1> QED BY <1>6, <1>13, <1>14, <1>15, <1>17 DEF Moved, f1, w

----------------------------------------------------------------------------
(* Everybody who holds frames: the processes, the free list, the kernel's
   page table, the copy of the first kernel stack, and the kernel stack *)

FreeList == -1
Kernel == -2
FirstStack == -3
LiveStack == -4
Holder == -4..MaxPid

\* Who holds what.
Held(pt, free, kt, ks) ==
    [d \in Holder |-> IF d = FreeList THEN free
                      ELSE IF d = Kernel THEN kt
                      ELSE IF d = FirstStack THEN ks
                      ELSE IF d = LiveStack THEN [i \in StackBase..KPages - 1 |-> i]
                      ELSE pt[d]]

Holdings == Held(page_table, free_frames, krnl_page_table, initial_ks)

\* No frame but 0 is held twice.
Exclusive(H) ==
    /\ \A d \in Holder : Once(H[d])
    /\ \A d, e \in Holder : d # e => Apart(H[d], H[e])

(* Frames that move between two holders stay exclusive. *)
LEMMA ExchangeFacts ==
    ASSUME NEW H, NEW H1, NEW d \in Holder, NEW e \in Holder, d # e,
           Exclusive(H), \A x \in Holder \ {d, e} : H1[x] = H[x],
           Moved(H[d], H[e], H1[d], H1[e])
    PROVE  Exclusive(H1)
<1>1. ASSUME NEW t, NEW u PROVE Apart(t, u) => Apart(u, t) BY DEF Apart
<1>2. ASSUME NEW t, From(t, H[d], H[e]), NEW x \in Holder \ {d, e}
      PROVE  Apart(t, H[x])
  <2>1. Apart(H[d], H[x]) /\ Apart(H[e], H[x]) BY DEF Exclusive
  <2> QED BY <1>2, <2>1 DEF From, Apart
<1>3. /\ Once(H1[d]) /\ Once(H1[e]) /\ Apart(H1[d], H1[e]) /\ Apart(H1[e], H1[d])
      /\ From(H1[d], H[d], H[e]) /\ From(H1[e], H[d], H[e])
  BY <1>1 DEF Moved
<1>4. ASSUME NEW x \in Holder PROVE Once(H1[x])
  <2>1. CASE x \in {d, e} BY <1>3, <2>1
  <2>2. CASE x \notin {d, e} BY <2>2 DEF Exclusive
  <2> QED BY <2>1, <2>2
<1>5. ASSUME NEW x \in Holder, NEW y \in Holder, x # y PROVE Apart(H1[x], H1[y])
  <2>1. CASE x \notin {d, e} /\ y \notin {d, e} BY <1>5, <2>1 DEF Exclusive
  <2>2. CASE x \in {d, e} /\ y \notin {d, e} BY <1>2, <1>3, <2>2
  <2>3. CASE x \notin {d, e} /\ y \in {d, e} BY <1>1, <1>2, <1>3, <2>3
  <2>4. CASE x \in {d, e} /\ y \in {d, e} BY <1>3, <1>5, <2>4
  <2> QED BY <2>1, <2>2, <2>3, <2>4
<1> QED BY <1>4, <1>5 DEF Exclusive

(* What each of them holds. *)
LEMMA HeldFacts ==
    ASSUME NEW pt, NEW free, NEW kt, NEW ks
    PROVE  LET H == Held(pt, free, kt, ks) IN
           /\ H[FreeList] = free /\ H[Kernel] = kt /\ H[FirstStack] = ks
           /\ H[LiveStack] = [i \in StackBase..KPages - 1 |-> i]
           /\ \A p \in Pid : H[p] = pt[p]
           /\ {FreeList, Kernel, FirstStack, LiveStack} \cup Pid = Holder
           /\ FreeList \notin Pid /\ Kernel \notin Pid /\ FirstStack \notin Pid
           /\ LiveStack \notin Pid
           /\ Kernel # FreeList /\ FirstStack # FreeList /\ FirstStack # Kernel
           /\ LiveStack # FreeList /\ LiveStack # Kernel
           /\ LiveStack # FirstStack
<1> DEFINE H == Held(pt, free, kt, ks)
<1>1. /\ {FreeList, Kernel, FirstStack, LiveStack} \subseteq Holder
      /\ Pid \subseteq Holder
  BY MemoryAssumption DEF FreeList, Kernel, FirstStack, LiveStack, Pid, Holder
<1>2. Holder \subseteq {FreeList, Kernel, FirstStack, LiveStack} \cup Pid
  BY MemoryAssumption DEF FreeList, Kernel, FirstStack, LiveStack, Pid, Holder
<1>3. /\ FreeList \notin Pid /\ Kernel \notin Pid /\ FirstStack \notin Pid
      /\ LiveStack \notin Pid
  BY DEF FreeList, Kernel, FirstStack, LiveStack, Pid
<1>4. /\ Kernel # FreeList /\ FirstStack # FreeList /\ FirstStack # Kernel
      /\ LiveStack # FreeList /\ LiveStack # Kernel /\ LiveStack # FirstStack
  BY DEF FreeList, Kernel, FirstStack, LiveStack
<1>5. /\ H[FreeList] = free /\ H[Kernel] = kt /\ H[FirstStack] = ks
      /\ H[LiveStack] = [i \in StackBase..KPages - 1 |-> i]
  BY <1>1, <1>4 DEF Held
<1>6. \A p \in Pid : H[p] = pt[p] BY <1>1, <1>3 DEF Held
<1> HIDE DEF H
<1> QED BY <1>1, <1>2, <1>3, <1>4, <1>5, <1>6 DEF H

\* Exclusive, pair by pair, as far as the steps need it.
Apartness(pt, free, kt, ks) ==
    /\ Once(free) /\ Once(kt) /\ Once(ks) /\ \A p \in Pid : Once(pt[p])
    /\ Apart(kt, free) /\ Apart(ks, free)
    /\ \A p \in Pid : Apart(pt[p], free) /\ Apart(pt[p], ks) /\ Apart(ks, pt[p])
    /\ \A p, q \in Pid : p # q => Apart(pt[p], pt[q])

LEMMA ApartFacts ==
    ASSUME NEW pt, NEW free, NEW kt, NEW ks, Exclusive(Held(pt, free, kt, ks))
    PROVE  Apartness(pt, free, kt, ks)
<1> DEFINE H == Held(pt, free, kt, ks)
<1>0. /\ {FreeList, Kernel, FirstStack, LiveStack} \cup Pid = Holder
      /\ FreeList \notin Pid /\ Kernel \notin Pid /\ FirstStack \notin Pid
      /\ Kernel # FreeList /\ FirstStack # FreeList
  BY HeldFacts
<1>a. /\ H[FreeList] = free /\ H[Kernel] = kt /\ H[FirstStack] = ks
      /\ H[LiveStack] = [i \in StackBase..KPages - 1 |-> i]
      /\ \A p \in Pid : H[p] = pt[p]
  BY HeldFacts
<1>2. Exclusive(H) OBVIOUS
<1> HIDE DEF H
<1>1. /\ H[FreeList] = free /\ H[Kernel] = kt /\ H[FirstStack] = ks
      /\ \A p \in Pid : H[p] = pt[p]
      /\ FreeList \in Holder /\ Kernel \in Holder /\ FirstStack \in Holder
      /\ \A p \in Pid : p \in Holder
      /\ FreeList \notin Pid /\ Kernel \notin Pid /\ FirstStack \notin Pid
      /\ Kernel # FreeList /\ FirstStack # FreeList
  BY <1>0, <1>a
<1>3. Once(free) /\ Once(kt) /\ Once(ks) BY <1>1, <1>2 DEF Exclusive
<1>4. \A p \in Pid : Once(pt[p]) BY <1>1, <1>2 DEF Exclusive
<1>5. Apart(kt, free) /\ Apart(ks, free) BY <1>1, <1>2 DEF Exclusive
<1>6. ASSUME NEW p \in Pid
      PROVE  Apart(pt[p], free) /\ Apart(pt[p], ks) /\ Apart(ks, pt[p])
  BY <1>1, <1>2 DEF Exclusive
<1>7. \A p, q \in Pid : p # q => Apart(pt[p], pt[q])
  BY <1>1, <1>2 DEF Exclusive
<1> QED BY <1>3, <1>4, <1>5, <1>6, <1>7 DEF Apartness

(* Frames that move between the table of a process and the free list. *)
LEMMA ProcessMoves ==
    ASSUME NEW pt, NEW free, NEW kt, NEW ks, NEW pt1, NEW free1, NEW p \in Pid,
           Exclusive(Held(pt, free, kt, ks)),
           \A q \in Pid : q # p => pt1[q] = pt[q],
           Moved(pt[p], free, pt1[p], free1)
    PROVE  Exclusive(Held(pt1, free1, kt, ks))
<1> DEFINE H == Held(pt, free, kt, ks)
           H1 == Held(pt1, free1, kt, ks)
<1>1. /\ H[FreeList] = free /\ H[Kernel] = kt /\ H[FirstStack] = ks
      /\ H[LiveStack] = [i \in StackBase..KPages - 1 |-> i]
      /\ \A q \in Pid : H[q] = pt[q]
  BY HeldFacts
<1>2. /\ H1[FreeList] = free1 /\ H1[Kernel] = kt /\ H1[FirstStack] = ks
      /\ H1[LiveStack] = [i \in StackBase..KPages - 1 |-> i]
      /\ \A q \in Pid : H1[q] = pt1[q]
  BY HeldFacts
<1>3. /\ {FreeList, Kernel, FirstStack, LiveStack} \cup Pid = Holder
      /\ FreeList \notin Pid
  BY HeldFacts
<1>4. Exclusive(H) OBVIOUS
<1> HIDE DEF H, H1
<1>5. \A x \in Holder \ {p, FreeList} : H1[x] = H[x] BY <1>1, <1>2, <1>3
<1>6. p \in Holder /\ FreeList \in Holder /\ p # FreeList BY <1>3
<1>7. Moved(H[p], H[FreeList], H1[p], H1[FreeList]) BY <1>1, <1>2
<1>8. Exclusive(H1) BY <1>4, <1>5, <1>6, <1>7, ExchangeFacts
<1> QED BY <1>8 DEF H1

(* Between the kernel's page table and the free list. *)
LEMMA KernelMoves ==
    ASSUME NEW pt, NEW free, NEW kt, NEW ks, NEW kt1, NEW free1,
           Exclusive(Held(pt, free, kt, ks)), Moved(kt, free, kt1, free1)
    PROVE  Exclusive(Held(pt, free1, kt1, ks))
<1> DEFINE H == Held(pt, free, kt, ks)
           H1 == Held(pt, free1, kt1, ks)
<1>1. /\ H[FreeList] = free /\ H[Kernel] = kt /\ H[FirstStack] = ks
      /\ H[LiveStack] = [i \in StackBase..KPages - 1 |-> i]
      /\ \A q \in Pid : H[q] = pt[q]
  BY HeldFacts
<1>2. /\ H1[FreeList] = free1 /\ H1[Kernel] = kt1 /\ H1[FirstStack] = ks
      /\ H1[LiveStack] = [i \in StackBase..KPages - 1 |-> i]
      /\ \A q \in Pid : H1[q] = pt[q]
  BY HeldFacts
<1>3. /\ {FreeList, Kernel, FirstStack, LiveStack} \cup Pid = Holder
      /\ Kernel # FreeList
  BY HeldFacts
<1>4. Exclusive(H) OBVIOUS
<1> HIDE DEF H, H1
<1>5. \A x \in Holder \ {Kernel, FreeList} : H1[x] = H[x] BY <1>1, <1>2, <1>3
<1>6. Kernel \in Holder /\ FreeList \in Holder BY <1>3
<1>7. Moved(H[Kernel], H[FreeList], H1[Kernel], H1[FreeList]) BY <1>1, <1>2
<1>8. Exclusive(H1) BY <1>3, <1>4, <1>5, <1>6, <1>7, ExchangeFacts
<1> QED BY <1>8 DEF H1

(* Between the copy of the first kernel stack and the free list. *)
LEMMA FirstStackMoves ==
    ASSUME NEW pt, NEW free, NEW kt, NEW ks, NEW ks1, NEW free1,
           Exclusive(Held(pt, free, kt, ks)), Moved(ks, free, ks1, free1)
    PROVE  Exclusive(Held(pt, free1, kt, ks1))
<1> DEFINE H == Held(pt, free, kt, ks)
           H1 == Held(pt, free1, kt, ks1)
<1>1. /\ H[FreeList] = free /\ H[Kernel] = kt /\ H[FirstStack] = ks
      /\ H[LiveStack] = [i \in StackBase..KPages - 1 |-> i]
      /\ \A q \in Pid : H[q] = pt[q]
  BY HeldFacts
<1>2. /\ H1[FreeList] = free1 /\ H1[Kernel] = kt /\ H1[FirstStack] = ks1
      /\ H1[LiveStack] = [i \in StackBase..KPages - 1 |-> i]
      /\ \A q \in Pid : H1[q] = pt[q]
  BY HeldFacts
<1>3. /\ {FreeList, Kernel, FirstStack, LiveStack} \cup Pid = Holder
      /\ FirstStack # FreeList
  BY HeldFacts
<1>4. Exclusive(H) OBVIOUS
<1> HIDE DEF H, H1
<1>5. \A x \in Holder \ {FirstStack, FreeList} : H1[x] = H[x]
  BY <1>1, <1>2, <1>3
<1>6. FirstStack \in Holder /\ FreeList \in Holder BY <1>3
<1>7. Moved(H[FirstStack], H[FreeList], H1[FirstStack], H1[FreeList])
  BY <1>1, <1>2
<1>8. Exclusive(H1) BY <1>3, <1>4, <1>5, <1>6, <1>7, ExchangeFacts
<1> QED BY <1>8 DEF H1

----------------------------------------------------------------------------
(* The copying of kernel stacks *)

Table == [Page -> Frame \cup {NoFrame}]
StackPages == {NPages, NPages + 1}

(* Writes to the user pages of t. *)
LEMMA WrittenFacts ==
    ASSUME NEW C, Junk \in C, content \in [Frame -> C], NEW t
    PROVE  /\ Written(t) \in [Frame -> C]
           /\ \A f \in Frame : (\A i \in UserPages : t[i] # f) =>
                 Written(t)[f] = content[f]
  BY DEF Written, UserPages

(* An assignment to two places. *)
LEMMA TwoFacts ==
    ASSUME NEW F, NEW C, NEW c \in [F -> C], NEW a, NEW b, NEW x \in C, NEW y \in C
    PROVE  LET d == [c EXCEPT ![a] = x, ![b] = y] IN
           /\ d \in [F -> C]
           /\ \A f \in F : f # a /\ f # b => d[f] = c[f]
           /\ b \in F => d[b] = y
           /\ a \in F /\ a # b => d[a] = x
  OBVIOUS

(* The copy of the initial kernel stack, to the frames of t. *)
LEMMA CopiedFacts ==
    ASSUME NEW C, NEW c \in [Frame -> C], NEW t, initial_ks \in [1..2 -> Frame]
    PROVE  LET d == CopiedTo(c, t)
               a == t[NPages]
               b == t[NPages + 1] IN
           /\ d \in [Frame -> C]
           /\ \A f \in Frame : f # a /\ f # b => d[f] = c[f]
           /\ b \in Frame => d[b] = c[initial_ks[2]]
           /\ a \in Frame /\ a # b => d[a] = c[initial_ks[1]]
<1> DEFINE a == t[NPages]
           b == t[NPages + 1]
           d == CopiedTo(c, t)
           x == c[initial_ks[1]]
           y == c[initial_ks[2]]
<1>1. x \in C /\ y \in C OBVIOUS
<1>2. d = [c EXCEPT ![a] = x, ![b] = y] BY DEF CopiedTo
<1> HIDE DEF a, b, d, x, y
<1>3. /\ d \in [Frame -> C]
      /\ \A f \in Frame : f # a /\ f # b => d[f] = c[f]
      /\ b \in Frame => d[b] = y
      /\ a \in Frame /\ a # b => d[a] = x
  BY <1>1, <1>2, TwoFacts, ZenonT(30)
<1> QED BY <1>3 DEF a, b, d, x, y

\* d is c, but in the frames of t's kernel stack it has old.
Saves(d, C, c, t, old) ==
    LET a == t[NPages]
        b == t[NPages + 1] IN
    /\ d \in [Frame -> C]
    /\ \A f \in Frame : f # a /\ f # b => d[f] = c[f]
    /\ b \in Frame => d[b] = old
    /\ a \in Frame => d[a] = old

(* The live kernel stack of old saved in the frames of t. *)
LEMMA SavedFacts ==
    ASSUME NEW C, NEW c \in [Frame -> C], NEW t, NEW old \in C
    PROVE  Saves(SavedTo(c, t, old), C, c, t, old)
<1> DEFINE a == t[NPages]
           b == t[NPages + 1]
           d == SavedTo(c, t, old)
<1>1. d = [c EXCEPT ![a] = old, ![b] = old] BY DEF SavedTo
<1> HIDE DEF a, b, d
<1>2. /\ d \in [Frame -> C]
      /\ \A f \in Frame : f # a /\ f # b => d[f] = c[f]
      /\ b \in Frame => d[b] = old
      /\ a \in Frame /\ a # b => d[a] = old
  BY <1>1, TwoFacts
<1>3. a \in Frame => d[a] = old BY <1>2
<1> QED BY <1>2, <1>3 DEF a, b, d, Saves

(* The two frames of a new kernel stack, once they are got. *)
LEMMA NewStackFacts ==
    ASSUME NEW t \in Table, NEW free \in Seq(Frame), Granted(free, 2) = 2
    PROVE  LET t1 == Mapped(t, KStack, free) IN
           /\ t1 \in Table
           /\ \A i \in StackPages : t1[i] \in Frame \ {0} /\ t1[i] \in On(free)
           /\ \A i \in UserPages : t1[i] = t[i]
<1> DEFINE t1 == Mapped(t, KStack, free)
<1>1. Len(KStack) = 2 /\ KStack[1] = NPages /\ KStack[2] = NPages + 1
  BY DEF KStack
<1>2. NPages \in Nat /\ StackPages \subseteq Page /\ UserPages \subseteq Page
  BY MemoryAssumption DEF Page, StackPages, UserPages
<1>3. /\ t1 \in [Page -> (Frame \cup {NoFrame}) \cup (Frame \ {0})]
      /\ MapsTo(t, KStack, free, Granted(free, Len(KStack)), t1)
  <2>1. t \in [Page -> Frame \cup {NoFrame}] /\ Len(KStack) \in Nat
    BY <1>1 DEF Table
  <2> QED BY <2>1, MappedFacts
<1>4. MapsTo(t, KStack, free, 2, t1) BY <1>1, <1>3
<1>5. /\ 2 <= Len(free) /\ Len(free) \in Nat
      /\ \A k \in 1..2 : free[k] # 0
  BY GrantedFacts
<1> HIDE DEF t1
<1>6. DOMAIN t = Page BY DEF Table
<1>7. ASSUME NEW i \in StackPages
      PROVE  t1[i] \in Frame \ {0} /\ t1[i] \in On(free)
  <2>1. \E k \in 1..2 : KStack[k] = i BY <1>1 DEF StackPages
  <2>2. PICK k \in 1..2 : t1[i] = free[k] BY <1>2, <1>4, <1>6, <2>1 DEF MapsTo
  <2>3. k \in 1..Len(free) BY <1>5
  <2> QED BY <1>5, <2>2, <2>3 DEF On
<1>8. ASSUME NEW i \in UserPages PROVE t1[i] = t[i]
  <2>1. ~\E k \in 1..2 : KStack[k] = i BY <1>1, <1>2 DEF UserPages
  <2> QED BY <1>2, <1>4, <1>6, <2>1 DEF MapsTo
<1>9. t1 \in Table BY <1>3 DEF Table
<1> QED BY <1>7, <1>8, <1>9 DEF t1

\* No frame but 0 is in two entries of the processes' tables, or in one and
\* in the copy ks of the first kernel stack.
TablesApart(pt, ks) ==
    /\ \A p, q \in Pid, i, j \in Page :
          pt[p][i] \in Frame \ {0} /\ pt[p][i] = pt[q][j] => p = q /\ i = j
    /\ \A p \in Pid, i \in Page, j \in 1..2 :
          pt[p][i] \in Frame \ {0} => pt[p][i] # ks[j]

LEMMA TablesFacts ==
    ASSUME NEW pt \in [Pid -> Table], NEW free, NEW kt, NEW ks \in [1..2 -> Frame],
           Exclusive(Held(pt, free, kt, ks))
    PROVE  TablesApart(pt, ks)
<1>1. Apartness(pt, free, kt, ks) BY ApartFacts
<1>2. DOMAIN ks = 1..2 /\ \A p \in Pid : DOMAIN pt[p] = Page BY DEF Table
<1>3. \A f \in Frame \ {0} : f \notin {0, NoFrame} BY DEF Frame, NoFrame
<1>4. ASSUME NEW p \in Pid, NEW q \in Pid, NEW i \in Page, NEW j \in Page,
             pt[p][i] \in Frame \ {0}, pt[p][i] = pt[q][j]
      PROVE  p = q /\ i = j
  <2>1. Once(pt[p]) /\ (p # q => Apart(pt[p], pt[q])) BY <1>1 DEF Apartness
  <2>2. p = q BY <1>2, <1>3, <1>4, <2>1 DEF Apart
  <2> QED BY <1>2, <1>3, <1>4, <2>1, <2>2 DEF Once
<1>5. ASSUME NEW p \in Pid, NEW i \in Page, NEW j \in 1..2,
             pt[p][i] \in Frame \ {0}
      PROVE  pt[p][i] # ks[j]
  <2>1. Apart(pt[p], ks) BY <1>1 DEF Apartness
  <2> QED BY <1>2, <1>3, <1>5, <2>1 DEF Apart
<1> QED BY <1>4, <1>5 DEF TablesApart

----------------------------------------------------------------------------
(* The inductive invariant *)

Queued ==
    /\ NoDup(ready_queue) /\ active_proc \notin On(ready_queue)
    /\ active_proc = Idle \/ Idle \in On(ready_queue)

\* Who runs, is ready, or was saved has a pid that was handed out.
Born == {active_proc} \cup On(ready_queue) \cup resumed \subseteq 0..next_pid - 1

Unborn == \A p \in Pid : p >= next_pid => page_table[p] = NoPages

\* The frames of the kernel stack of p hold the stack of c.
StackIs(p, c) ==
    \A i \in StackPages :
        page_table[p][i] \in Frame \ {0} /\ content[page_table[p][i]] = c

\* Whoever was saved, or waits for its first switch, has its stack in frames
\* of its own; only a process that has none yet has two 0s instead.
StacksKept ==
    /\ \A i \in 1..2 : initial_ks[i] # 0 /\ content[initial_ks[i]] = Initial
    /\ \A i \in StackPages : page_table[active_proc][i] \in Frame \ {0}
    /\ \A p \in resumed \ {active_proc} : StackIs(p, p)
    /\ \A p \in On(ready_queue) \ resumed :
          (\A i \in StackPages : page_table[p][i] = 0) \/ StackIs(p, Initial)

\* The kernel's heap ends below its stack, and is mapped.
HeapHeld == DownToPage(kernel_brk) <= StackBase /\ KernelHeapMapped

Going == ~panic => Queued /\ Born /\ StacksKept

Inv ==
    TypeOK /\ Exclusive(Holdings) /\ HeapHeld /\ Unborn /\ Going /\ OwnStack

----------------------------------------------------------------------------
(* context_switch *)

\* The tables, the free list and the contents of the frames after a switch
\* from old to new.
StackFor(new, pt, free) ==
    IF NoStackYet(pt[new]) THEN [pt EXCEPT ![new] = Mapped(@, KStack, free)] ELSE pt

FreeAfter(new, pt, free) == IF NoStackYet(pt[new]) THEN Left(free, 2) ELSE free

ContentAfter(old, new, pt, free) ==
    LET pt1 == StackFor(new, pt, free)
        c0 == Written(page_table[active_proc])
        c1 == IF NoStackYet(pt[new]) THEN CopiedTo(c0, pt1[new]) ELSE c0
    IN  IF old = NoProc THEN c1 ELSE SavedTo(c1, pt1[old], old)

\* What a handler has made sure of when it switches.
Switches(old, new, pt, free) ==
    /\ pt \in [Pid -> Table] /\ free \in Seq(Frame)
    /\ new \in On(ready_queue) \cup ({old} \ {NoProc})
    /\ \A q \in Pid : q # active_proc => pt[q] = page_table[q]
    /\ old = NoProc \/ (old = active_proc /\ pt = page_table)
    /\ Exclusive(Held(pt, free, krnl_page_table, initial_ks))
    /\ NoStackYet(pt[new]) => Granted(free, 2) = 2

(* Memory where the processes have their kernel stacks: afterwards new has
   frames for one. *)
LEMMA SwitchTables ==
    ASSUME TypeOK, Queued, StacksKept, NEW old, NEW new, NEW pt, NEW free,
           Switches(old, new, pt, free)
    PROVE  LET pt1 == StackFor(new, pt, free)
               free1 == FreeAfter(new, pt, free) IN
           /\ pt1 \in [Pid -> Table] /\ free1 \in Seq(Frame)
           /\ Exclusive(Held(pt1, free1, krnl_page_table, initial_ks))
           /\ new \in Pid /\ \A q \in Pid : q # new => pt1[q] = pt[q]
           /\ \A i \in StackPages : pt1[new][i] \in Frame \ {0}
<1> DEFINE pt1 == StackFor(new, pt, free)
           free1 == FreeAfter(new, pt, free)
           t1 == Mapped(pt[new], KStack, free)
<1>1. /\ active_proc \in Pid /\ ready_queue \in Seq(Pid)
      /\ page_table \in [Pid -> Table]
  BY DEF TypeOK, Table
<1>2. /\ pt \in [Pid -> Table] /\ free \in Seq(Frame)
      /\ Exclusive(Held(pt, free, krnl_page_table, initial_ks))
  BY DEF Switches
<1>3. new \in Pid
  <2>1. On(ready_queue) \subseteq Pid BY <1>1, OnSubset
  <2> QED BY <1>1, <2>1 DEF Switches
<1>4. CASE NoStackYet(pt[new])
  <2>1. pt1 = [pt EXCEPT ![new] = t1] /\ free1 = Left(free, 2)
    BY <1>4 DEF StackFor, FreeAfter
  <2>2. Granted(free, 2) = 2 BY <1>4 DEF Switches
  <2>3. pt[new] \in Table BY <1>2, <1>3
  <2>4. t1 \in Table /\ \A i \in StackPages : t1[i] \in Frame \ {0}
    BY <1>2, <2>2, <2>3, NewStackFacts
  <2>5. Moved(pt[new], free, t1, Left(free, 2))
    <3>1. /\ Once(pt[new]) /\ Once(free) /\ Apart(pt[new], free)
      BY <1>2, <1>3, ApartFacts DEF Apartness
    <3>2. Len(KStack) = 2 /\ Len(KStack) \in Nat BY DEF KStack
    <3>3. pt[new] \in [Page -> Frame \cup {NoFrame}] BY <2>3 DEF Table
    <3>4. Moved(pt[new], free, t1, Left(free, Len(KStack)))
      BY <1>2, <3>1, <3>2, <3>3, TakeFacts
    <3> QED BY <3>2, <3>4
  <2> HIDE DEF pt1, free1, t1
  <2>6. /\ pt1 \in [Pid -> Table] /\ pt1[new] = t1
        /\ \A q \in Pid : q # new => pt1[q] = pt[q]
    BY <1>2, <1>3, <2>1, <2>4
  <2>7. free1 \in Seq(Frame) BY <1>2, <2>1, LeftFacts
  <2>8. Exclusive(Held(pt1, free1, krnl_page_table, initial_ks))
    <3>1. Moved(pt[new], free, pt1[new], free1) BY <2>1, <2>5, <2>6
    <3> QED BY <1>2, <1>3, <2>6, <3>1, ProcessMoves
  <2> QED BY <1>3, <2>4, <2>6, <2>7, <2>8 DEF pt1, free1
<1>5. CASE ~NoStackYet(pt[new])
  <2>1. pt1 = pt /\ free1 = free BY <1>5 DEF StackFor, FreeAfter
  <2>2. ASSUME NEW i \in StackPages PROVE pt[new][i] \in Frame \ {0}
    <3>1. CASE new = active_proc
      <4>1. pt[new] = page_table[active_proc]
        BY <3>1 DEF Switches, Queued
      <4> QED BY <4>1 DEF StacksKept
    <3>2. CASE new # active_proc
      <4>1. new \in On(ready_queue) /\ pt[new] = page_table[new]
        BY <1>3, <3>2 DEF Switches
      <4>2. NPages \in StackPages /\ page_table[new][NPages] # 0
        BY <1>5, <4>1 DEF NoStackYet, StackPages
      <4> QED BY <3>2, <4>1, <4>2 DEF StacksKept, StackIs
    <3> QED BY <3>1, <3>2
  <2> HIDE DEF pt1, free1
  <2> QED BY <1>2, <1>3, <2>1, <2>2 DEF pt1, free1
<1> QED BY <1>4, <1>5

(* What the frames hold afterwards: the copying hits the kernel stacks of
   old and, if it had none, of new. *)
LEMMA SwitchContent ==
    ASSUME TypeOK, Queued, StacksKept, Exclusive(Holdings),
           NEW old, NEW new, NEW pt, NEW free, Switches(old, new, pt, free)
    PROVE  LET pt1 == StackFor(new, pt, free)
               c2 == ContentAfter(old, new, pt, free) IN
           /\ c2 \in [Frame -> Pid \cup {Junk, Initial}]
           /\ \A j \in 1..2 : c2[initial_ks[j]] = Initial
           /\ \A q \in Pid, i \in StackPages :
                 q # new /\ q # active_proc /\ page_table[q][i] \in Frame \ {0} =>
                 c2[page_table[q][i]] = content[page_table[q][i]]
           /\ old # NoProc =>
                 \A i \in StackPages :
                     pt1[old][i] \in Frame \ {0} /\ c2[pt1[old][i]] = old
           /\ new # old =>
                 \A i \in StackPages :
                     c2[pt1[new][i]] = IF NoStackYet(pt[new]) THEN Initial
                                       ELSE content[page_table[new][i]]
<1> DEFINE pt1 == StackFor(new, pt, free)
           free1 == FreeAfter(new, pt, free)
           C == Pid \cup {Junk, Initial}
           c0 == Written(page_table[active_proc])
           first == NoStackYet(pt[new])
           c1 == IF first THEN CopiedTo(c0, pt1[new]) ELSE c0
           c2 == ContentAfter(old, new, pt, free)
           a == active_proc
           ks == initial_ks
<1>1. /\ a \in Pid /\ ready_queue \in Seq(Pid) /\ content \in [Frame -> C]
      /\ page_table \in [Pid -> Table] /\ ks \in [1..2 -> Frame]
  BY DEF TypeOK, Table
<1>2. /\ pt1 \in [Pid -> Table] /\ free1 \in Seq(Frame)
      /\ Exclusive(Held(pt1, free1, krnl_page_table, ks))
      /\ new \in Pid /\ \A q \in Pid : q # new => pt1[q] = pt[q]
      /\ \A i \in StackPages : pt1[new][i] \in Frame \ {0}
  BY SwitchTables
<1>3. c2 = IF old = NoProc THEN c1 ELSE SavedTo(c1, pt1[old], old)
  BY DEF ContentAfter
<1>4. /\ TablesApart(pt1, ks) /\ TablesApart(page_table, ks)
  BY <1>1, <1>2, TablesFacts DEF Holdings
<1>5. /\ NPages \in Page /\ NPages + 1 \in Page /\ UserPages \subseteq Page
      /\ NPages \notin UserPages /\ NPages + 1 \notin UserPages
      /\ NPages # NPages + 1
      /\ StackPages = {NPages, NPages + 1}
  BY MemoryAssumption DEF Page, UserPages, StackPages
<1>6. /\ c0 \in [Frame -> C]
      /\ \A f \in Frame : (\A i \in UserPages : page_table[a][i] # f) =>
            c0[f] = content[f]
  BY <1>1, WrittenFacts
<1>7. /\ \A q \in Pid : q # a => pt[q] = page_table[q]
      /\ old = NoProc \/ (old = a /\ pt = page_table)
      /\ new = old \/ (new \in On(ready_queue) /\ new # a)
      /\ NoProc \notin Pid
  BY DEF Switches, Queued, NoProc, Pid
<1>8. \A j \in 1..2 : ks[j] \in Frame \ {0} /\ content[ks[j]] = Initial
  BY <1>1 DEF StacksKept
<1> HIDE DEF c0, pt1, c2, free1
<1>9. \A j \in 1..2 : c0[ks[j]] = Initial
  <2>1. ASSUME NEW j \in 1..2 PROVE \A i \in UserPages : page_table[a][i] # ks[j]
    BY <1>1, <1>4, <1>5, <1>8 DEF TablesApart
  <2> QED BY <1>1, <1>6, <1>8, <2>1
<1> DEFINE x == pt1[new][NPages]
           y == pt1[new][NPages + 1]
<1>10. x \in Frame \ {0} /\ y \in Frame \ {0} /\ x # y
  <2>1. x \in Frame \ {0} /\ y \in Frame \ {0} BY <1>2, <1>5
  <2> QED BY <1>2, <1>4, <1>5, <2>1 DEF TablesApart
<1>11. /\ c1 \in [Frame -> C]
       /\ \A f \in Frame : (first => f # x /\ f # y) => c1[f] = c0[f]
       /\ first => c1[x] = Initial /\ c1[y] = Initial
  <2>1. CASE first
    <3> DEFINE d == CopiedTo(c0, pt1[new])
    <3>1. /\ d \in [Frame -> C]
          /\ \A f \in Frame : f # x /\ f # y => d[f] = c0[f]
          /\ y \in Frame => d[y] = c0[ks[2]]
          /\ x \in Frame /\ x # y => d[x] = c0[ks[1]]
      <4>1. c0 \in [Frame -> C] /\ initial_ks \in [1..2 -> Frame]
        BY <1>1, <1>6
      <4> HIDE DEF C
      <4> DEFINE t == pt1[new]
      <4> HIDE DEF t
      <4>2. /\ CopiedTo(c0, t) \in [Frame -> C]
            /\ \A f \in Frame : f # t[NPages] /\ f # t[NPages + 1] =>
                  CopiedTo(c0, t)[f] = c0[f]
            /\ t[NPages + 1] \in Frame =>
                  CopiedTo(c0, t)[t[NPages + 1]] = c0[initial_ks[2]]
            /\ t[NPages] \in Frame /\ t[NPages] # t[NPages + 1] =>
                  CopiedTo(c0, t)[t[NPages]] = c0[initial_ks[1]]
        BY <4>1, CopiedFacts
      <4> QED BY <4>2 DEF t
    <3>2. c1 = d BY <2>1
    <3> HIDE DEF d, x, y, c1
    <3> QED BY <1>9, <1>10, <2>1, <3>1, <3>2
  <2>2. CASE ~first
    <3>1. c1 = c0 BY <2>2
    <3> HIDE DEF c1
    <3> QED BY <1>6, <2>2, <3>1
  <2> QED BY <2>1, <2>2
<1> DEFINE u == pt1[old][NPages]
           w == pt1[old][NPages + 1]
<1>12. ASSUME old # NoProc
       PROVE  /\ old \in Pid /\ u \in Frame \ {0} /\ w \in Frame \ {0}
              /\ c2 \in [Frame -> C]
              /\ \A f \in Frame : f # u /\ f # w => c2[f] = c1[f]
              /\ c2[u] = old /\ c2[w] = old
  <2>1. old = a /\ pt = page_table /\ old \in Pid /\ old \in C
    BY <1>1, <1>7, <1>12
  <2>2. u \in Frame \ {0} /\ w \in Frame \ {0}
    <3>1. CASE old = new BY <1>2, <1>5, <3>1
    <3>2. CASE old # new
      <4>1. pt1[old] = page_table[a] BY <1>2, <2>1, <3>2
      <4> QED BY <1>5, <4>1 DEF StacksKept
    <3> QED BY <3>1, <3>2
  <2>3. c2 = SavedTo(c1, pt1[old], old) BY <1>3, <1>12
  <2> HIDE DEF c1
  <2> DEFINE d == SavedTo(c1, pt1[old], old)
  <2>4. /\ d \in [Frame -> C]
        /\ \A f \in Frame : f # u /\ f # w => d[f] = c1[f]
        /\ w \in Frame => d[w] = old
        /\ u \in Frame => d[u] = old
    <3>1. c1 \in [Frame -> C] /\ old \in C BY <1>11, <2>1
    <3> HIDE DEF C
    <3>2. Saves(d, C, c1, pt1[old], old) BY <3>1, SavedFacts
    <3> HIDE DEF d
    <3> QED BY <3>2 DEF Saves
  <2> HIDE DEF d, u, w
  <2>5. c2 = d BY <2>3 DEF d
  <2> QED BY <2>1, <2>2, <2>4, <2>5
<1>13. c2 \in [Frame -> C]
  <2>1. CASE old = NoProc BY <1>3, <1>11, <2>1
  <2>2. CASE old # NoProc BY <1>12, <2>2
  <2> QED BY <2>1, <2>2
<1> HIDE DEF first
<1>14. ASSUME NEW f \in Frame, \A i \in UserPages : page_table[a][i] # f,
              first => f # x /\ f # y, old # NoProc => f # u /\ f # w
       PROVE  c2[f] = content[f]
  <2>1. c1[f] = content[f] BY <1>6, <1>11, <1>14
  <2>2. c2[f] = c1[f]
    <3>1. CASE old = NoProc BY <1>3, <3>1
    <3>2. CASE old # NoProc BY <1>12, <1>14, <3>2
    <3> QED BY <3>1, <3>2
  <2> QED BY <2>1, <2>2
<1>15. ASSUME NEW j \in 1..2 PROVE c2[ks[j]] = Initial
  <2>1. \A i \in UserPages : page_table[a][i] # ks[j]
    BY <1>1, <1>4, <1>5, <1>8 DEF TablesApart
  <2>2. ks[j] # x /\ ks[j] # y BY <1>2, <1>4, <1>5, <1>10 DEF TablesApart
  <2>3. old # NoProc => ks[j] # u /\ ks[j] # w
    BY <1>4, <1>5, <1>12 DEF TablesApart
  <2> HIDE DEF x, y, u, w
  <2>4. c2[ks[j]] = content[ks[j]] BY <1>8, <1>14, <2>1, <2>2, <2>3
  <2> QED BY <1>8, <2>4
<1>16. ASSUME NEW q \in Pid, NEW i \in StackPages, q # new, q # a,
              page_table[q][i] \in Frame \ {0}
       PROVE  c2[page_table[q][i]] = content[page_table[q][i]]
  <2> DEFINE f == page_table[q][i]
  <2>1. pt1[q][i] = f BY <1>2, <1>7, <1>16
  <2>2. i \in Page BY <1>5
  <2>3. \A k \in UserPages : page_table[a][k] # f
    BY <1>1, <1>4, <1>5, <1>16, <2>2 DEF TablesApart
  <2>4. f # x /\ f # y BY <1>2, <1>4, <1>5, <1>16, <2>1, <2>2 DEF TablesApart
  <2>5. old # NoProc => f # u /\ f # w
    <3> SUFFICES ASSUME old # NoProc PROVE f # u /\ f # w OBVIOUS
    <3>1. old \in Pid /\ q # old BY <1>7, <1>12, <1>16
    <3> QED BY <1>4, <1>5, <1>16, <2>1, <2>2, <3>1 DEF TablesApart
  <2>6. f \in Frame BY <1>16
  <2> HIDE DEF x, y, u, w, f
  <2>7. c2[f] = content[f] BY <1>14, <2>3, <2>4, <2>5, <2>6
  <2> QED BY <2>7 DEF f
<1>17. ASSUME old # NoProc, NEW i \in StackPages
       PROVE  pt1[old][i] \in Frame \ {0} /\ c2[pt1[old][i]] = old
  BY <1>5, <1>12, <1>17
<1>18. ASSUME new # old, NEW i \in StackPages
       PROVE  c2[pt1[new][i]] = IF first THEN Initial
                                ELSE content[page_table[new][i]]
  <2> DEFINE f == pt1[new][i]
  <2>1. f \in {x, y} /\ f \in Frame \ {0} BY <1>2, <1>5
  <2>2. old # NoProc => f # u /\ f # w
    <3> SUFFICES ASSUME old # NoProc PROVE f # u /\ f # w OBVIOUS
    <3>1. old \in Pid BY <1>12
    <3> QED BY <1>2, <1>4, <1>5, <1>18, <2>1, <3>1 DEF TablesApart
  <2>3. CASE first
    <3>1. c2[f] = c1[f]
      <4>1. CASE old = NoProc BY <1>3, <4>1
      <4>2. CASE old # NoProc BY <1>12, <2>1, <2>2, <4>2
      <4> QED BY <4>1, <4>2
    <3> HIDE DEF x, y, f
    <3>2. c1[f] = Initial BY <1>11, <2>1, <2>3
    <3> QED BY <2>3, <3>1, <3>2 DEF f
  <2>4. CASE ~first
    <3>1. new # a /\ pt[new] = page_table[new] BY <1>2, <1>7, <1>18
    <3>2. pt1 = pt BY <2>4 DEF pt1, StackFor, first
    <3>3. f = page_table[new][i] BY <3>1, <3>2
    <3>4. \A k \in UserPages : page_table[a][k] # f
      BY <1>1, <1>2, <1>4, <1>5, <2>1, <3>1, <3>3 DEF TablesApart
    <3> HIDE DEF x, y, u, w, f
    <3>5. c2[f] = content[f] BY <1>14, <2>1, <2>2, <2>4, <3>4
    <3> QED BY <2>4, <3>3, <3>5 DEF f
  <2> QED BY <2>3, <2>4
<1> QED BY <1>13, <1>15, <1>16, <1>17, <1>18 DEF pt1, c2, first

(* A switch keeps everything: also when it goes back to the process that
   runs, and when there are no frames for the stack of the new one. *)
LEMMA SwitchFacts ==
    ASSUME Inv, ~panic, NEW old, NEW pt \in [Pid -> Table], NEW free \in Seq(Frame),
           Exclusive(Held(pt, free, krnl_page_table, initial_ks)),
           \A q \in Pid : q # active_proc => pt[q] = page_table[q],
           old = NoProc \/ (old = active_proc /\ pt = page_table),
           active_proc' \in On(ready_queue) \cup ({old} \ {NoProc}),
           ready_queue' \in Seq(Pid), Queued',
           On(ready_queue') \subseteq On(ready_queue) \cup ({old} \ {NoProc}),
           context_switch(old, pt, free), UNCHANGED calls
    PROVE  Inv'
<1>1. TypeOK /\ Queued /\ Born /\ StacksKept /\ Exclusive(Holdings)
  BY DEF Inv, Going
<1>2. /\ active_proc \in Pid /\ ready_queue \in Seq(Pid)
      /\ page_table \in [Pid -> Table] /\ NoProc \notin Pid
      /\ On(ready_queue) \subseteq Pid
  <2>1. /\ active_proc \in Pid /\ ready_queue \in Seq(Pid)
        /\ page_table \in [Pid -> Table]
    BY <1>1 DEF TypeOK, Table
  <2>2. NoProc \notin Pid BY DEF NoProc, Pid
  <2>3. On(ready_queue) \subseteq Pid BY <2>1, OnSubset
  <2> QED BY <2>1, <2>2, <2>3
<1>3. PICK new : new = active_proc' OBVIOUS
<1>4. new \in Pid BY <1>2, <1>3
<1> DEFINE pt1 == StackFor(new, pt, free)
           free1 == FreeAfter(new, pt, free)
           c2 == ContentAfter(old, new, pt, free)
<1>5. CASE Panic
  <2>1. /\ panic' = TRUE /\ free_frames' = free_frames /\ next_pid' = next_pid
        /\ page_table' = page_table /\ next_heap_pn' = next_heap_pn
        /\ next_stack_pn' = next_stack_pn /\ krnl_page_table' = krnl_page_table
        /\ kernel_brk' = kernel_brk /\ initial_ks' = initial_ks
        /\ content' = content /\ kstack' = kstack /\ resumed' = resumed
        /\ calls' = calls
    BY <1>5 DEF Panic, tables, kernelVars, stackVars
  <2>2. TypeOK' BY <1>1, <1>3, <1>4, <2>1 DEF TypeOK
  <2>3. Exclusive(Holdings)' BY <1>1, <2>1, ZenonT(30) DEF Holdings, Held, Exclusive
  <2>4. HeapHeld' BY <2>1 DEF Inv, HeapHeld, KernelHeapMapped
  <2>5. Unborn' BY <2>1 DEF Inv, Unborn
  <2>6. Going' /\ OwnStack' BY <2>1 DEF Going, OwnStack
  <2> QED BY <2>2, <2>3, <2>4, <2>5, <2>6 DEF Inv
<1>6. CASE ~Panic
  <2>1. /\ NoStackYet(pt[new]) => Granted(free, 2) = 2
        /\ page_table' = pt1 /\ free_frames' = free1 /\ content' = c2
        /\ kstack' = StackOf(c2, pt1[new])
        /\ resumed' = (resumed \ {active_proc}) \cup ({old} \ {NoProc})
        /\ UNCHANGED <<next_pid, next_heap_pn, next_stack_pn, kernelVars, panic>>
    BY <1>3, <1>6 DEF context_switch, StackFor, FreeAfter, ContentAfter
  <2>2. /\ next_pid' = next_pid /\ next_heap_pn' = next_heap_pn
        /\ next_stack_pn' = next_stack_pn /\ krnl_page_table' = krnl_page_table
        /\ kernel_brk' = kernel_brk /\ initial_ks' = initial_ks
        /\ panic' = panic
    BY <2>1 DEF kernelVars
  <2>3. Switches(old, new, pt, free) BY <1>3, <2>1 DEF Switches
  <2>4. /\ pt1 \in [Pid -> Table] /\ free1 \in Seq(Frame)
        /\ Exclusive(Held(pt1, free1, krnl_page_table, initial_ks))
        /\ new \in Pid /\ \A q \in Pid : q # new => pt1[q] = pt[q]
        /\ \A i \in StackPages : pt1[new][i] \in Frame \ {0}
    BY <1>1, <2>3, SwitchTables
  <2>5. /\ c2 \in [Frame -> Pid \cup {Junk, Initial}]
        /\ \A j \in 1..2 : c2[initial_ks[j]] = Initial
        /\ \A q \in Pid, i \in StackPages :
              q # new /\ q # active_proc /\ page_table[q][i] \in Frame \ {0} =>
              c2[page_table[q][i]] = content[page_table[q][i]]
        /\ old # NoProc =>
              \A i \in StackPages :
                  pt1[old][i] \in Frame \ {0} /\ c2[pt1[old][i]] = old
        /\ new # old =>
              \A i \in StackPages :
                  c2[pt1[new][i]] = IF NoStackYet(pt[new]) THEN Initial
                                    ELSE content[page_table[new][i]]
    BY <1>1, <2>3, SwitchContent
  <2> HIDE DEF pt1, free1, c2
  <2>6. \A q \in Pid : q # new /\ q # active_proc => pt1[q] = page_table[q]
    BY <2>4
  <2>7. /\ KStack[1] = NPages /\ KStack[2] = NPages + 1
        /\ StackPages = {NPages, NPages + 1}
    BY DEF KStack, StackPages
  <2>8. /\ kstack' \in [1..2 -> Pid \cup {Junk, Initial}]
        /\ kstack' = <<c2[pt1[new][NPages]], c2[pt1[new][NPages + 1]]>>
    <3>1. kstack' = [i \in 1..2 |-> c2[pt1[new][KStack[i]]]] BY <2>1 DEF StackOf
    <3>2. \A i \in 1..2 : c2[pt1[new][KStack[i]]] \in Pid \cup {Junk, Initial}
      BY <2>4, <2>5, <2>7
    <3>3. kstack' \in [1..2 -> Pid \cup {Junk, Initial}] BY <3>1, <3>2
    <3>4. [i \in 1..2 |-> c2[pt1[new][KStack[i]]]]
              = <<c2[pt1[new][NPages]], c2[pt1[new][NPages + 1]]>>
      BY <2>7
    <3> QED BY <3>1, <3>3, <3>4
  <2>9. resumed' \subseteq Pid
    BY <1>1, <1>2, <2>1 DEF TypeOK
  <2>10. TypeOK'
    BY <1>1, <1>3, <1>4, <2>1, <2>2, <2>4, <2>5, <2>8, <2>9 DEF TypeOK, Table
  <2>11. Exclusive(Holdings)'
    <3>1. Exclusive(Held(page_table', free_frames', krnl_page_table', initial_ks'))
      BY <2>1, <2>2, <2>4
    <3>2. Holdings' = Held(page_table', free_frames', krnl_page_table', initial_ks')
      BY DEF Holdings, Held
    <3> QED BY <3>1, <3>2 DEF Exclusive
  <2>12. HeapHeld' BY <2>2 DEF Inv, HeapHeld, KernelHeapMapped
  <2>13. Born'
    BY <1>1, <1>3, <2>1, <2>2 DEF Born
  <2>14. Unborn'
    <3>1. next_pid \in Int BY <1>1 DEF TypeOK
    <3>2. active_proc < next_pid /\ new < next_pid
      <4>1. active_proc \in 0..next_pid - 1 /\ new \in 0..next_pid - 1
        BY <1>1, <1>3, <2>2, <2>13 DEF Born
      <4> QED BY <3>1, <4>1
    <3>3. ASSUME NEW p \in Pid, p >= next_pid PROVE pt1[p] = NoPages
      <4>1. p \in Int BY DEF Pid
      <4>2. p # new /\ p # active_proc BY <1>2, <1>4, <3>1, <3>2, <3>3, <4>1 DEF Pid
      <4> QED BY <2>6, <3>3, <4>2 DEF Inv, Unborn
    <3> QED BY <2>1, <2>2, <3>3 DEF Unborn
  <2>15. \A p \in Pid : \A c : p # new /\ p # active_proc /\ StackIs(p, c) =>
            \A i \in StackPages : pt1[p][i] \in Frame \ {0} /\ c2[pt1[p][i]] = c
    BY <2>5, <2>6 DEF StackIs
  <2>16. StacksKept'
    <3>1. \A i \in 1..2 : initial_ks[i] # 0 /\ c2[initial_ks[i]] = Initial
      BY <1>1, <2>5 DEF StacksKept
    <3>2. ASSUME NEW p \in resumed' \ {new}
          PROVE  \A i \in StackPages : pt1[p][i] \in Frame \ {0} /\ c2[pt1[p][i]] = p
      <4>1. CASE p = old /\ old # NoProc BY <2>5, <4>1
      <4>2. CASE p \in resumed \ {active_proc}
        <5>1. StackIs(p, p) /\ p \in Pid BY <1>1, <4>2 DEF StacksKept, TypeOK
        <5> QED BY <2>15, <4>2, <5>1
      <4> QED BY <2>1, <4>1, <4>2
    <3>3. ASSUME NEW p \in On(ready_queue') \ resumed'
          PROVE  \/ \A i \in StackPages : pt1[p][i] = 0
                 \/ \A i \in StackPages :
                       pt1[p][i] \in Frame \ {0} /\ c2[pt1[p][i]] = Initial
      <4>1. p \in On(ready_queue) /\ p # new /\ p # active_proc
        BY <1>1, <1>3, <2>1 DEF Queued
      <4>2. p \in Pid /\ p \notin resumed BY <1>2, <2>1, <4>1
      <4>3. pt1[p] = page_table[p] BY <2>6, <4>1, <4>2
      <4>4. CASE \A i \in StackPages : page_table[p][i] = 0 BY <4>3, <4>4
      <4>5. CASE StackIs(p, Initial) BY <2>15, <4>1, <4>2, <4>5
      <4> QED BY <1>1, <4>1, <4>2, <4>4, <4>5 DEF StacksKept
    <3> QED BY <1>3, <2>1, <2>2, <2>4, <3>1, <3>2, <3>3 DEF StacksKept, StackIs
  <2>17. OwnStack'
    <3> DEFINE mine == IF new \in resumed' THEN new ELSE Initial
    <3>1. \A i \in StackPages : c2[pt1[new][i]] = mine
      <4>1. CASE new = old
        <5>1. old # NoProc /\ new \in resumed' BY <1>2, <1>4, <2>1, <4>1
        <5> QED BY <2>5, <4>1, <5>1
      <4>2. CASE new # old
        <5>1. new \in On(ready_queue) /\ new # active_proc
          BY <1>1, <1>3, <4>2 DEF Queued
        <5>2. new \in resumed' <=> new \in resumed BY <2>1, <4>2, <5>1
        <5>3. pt[new] = page_table[new] BY <1>4, <5>1
        <5>4. CASE new \in resumed
          <6>1. StackIs(new, new) BY <1>1, <5>1, <5>4 DEF StacksKept
          <6>2. ~NoStackYet(pt[new])
            BY <2>7, <5>3, <6>1 DEF NoStackYet, StackIs
          <6> QED BY <2>5, <4>2, <5>2, <5>4, <6>1, <6>2 DEF StackIs
        <5>5. CASE new \notin resumed
          <6>1. CASE NoStackYet(pt[new]) BY <2>5, <4>2, <5>2, <5>5, <6>1
          <6>2. CASE ~NoStackYet(pt[new])
            <7>1. StackIs(new, Initial)
              BY <1>1, <2>7, <5>1, <5>3, <5>5, <6>2 DEF StacksKept, NoStackYet
            <7> QED BY <2>5, <4>2, <5>2, <5>5, <6>2, <7>1 DEF StackIs
          <6> QED BY <6>1, <6>2
        <5> QED BY <5>4, <5>5
      <4> QED BY <4>1, <4>2
    <3>2. kstack' = <<mine, mine>> BY <2>7, <2>8, <3>1
    <3> QED BY <1>3, <3>2 DEF OwnStack
  <2>18. Going' BY <2>13, <2>16 DEF Going
  <2> QED BY <2>10, <2>11, <2>12, <2>14, <2>17, <2>18 DEF Inv
<1> QED BY <1>5, <1>6

LEMMA StutterInv ==
    ASSUME Inv, UNCHANGED vars
    PROVE  Inv'
<1>1. /\ active_proc' = active_proc /\ ready_queue' = ready_queue
      /\ free_frames' = free_frames /\ next_pid' = next_pid
      /\ page_table' = page_table /\ next_heap_pn' = next_heap_pn
      /\ next_stack_pn' = next_stack_pn /\ krnl_page_table' = krnl_page_table
      /\ kernel_brk' = kernel_brk /\ initial_ks' = initial_ks
      /\ content' = content /\ kstack' = kstack /\ resumed' = resumed
      /\ panic' = panic /\ calls' = calls
  BY DEF vars, schedVars, tables, kernelVars, stackVars
<1>2. TypeOK' BY <1>1 DEF Inv, TypeOK
<1>3. Exclusive(Holdings)' BY <1>1 DEF Inv, Holdings, Held, Exclusive
<1>4. HeapHeld' BY <1>1 DEF Inv, HeapHeld, KernelHeapMapped
<1>5. Unborn' BY <1>1 DEF Inv, Unborn
<1>6. Going'
  BY <1>1 DEF Inv, Going, Queued, Born, StacksKept, StackIs
<1>7. OwnStack' BY <1>1 DEF Inv, OwnStack
<1> QED BY <1>2, <1>3, <1>4, <1>5, <1>6, <1>7 DEF Inv

(* The clock. *)
LEMMA ClockInv ==
    ASSUME Inv, Clock
    PROVE  Inv'
<1>1. /\ ~panic /\ calls' = calls /\ do_scheduler /\ TypeOK /\ Queued
  BY DEF Inv, Going, Clock
<1>2. /\ active_proc \in Pid /\ ready_queue \in Seq(Pid)
      /\ page_table \in [Pid -> Table] /\ free_frames \in Seq(Frame)
  BY <1>1 DEF TypeOK, Table
<1>3. CASE ready_queue # <<>>
  <2> DEFINE q == Append(ready_queue, active_proc)
  <2>1. q \in Seq(Pid) /\ On(q) = On(ready_queue) \cup {active_proc} /\ NoDup(q)
    BY <1>1, <1>2, AppendFacts DEF Queued
  <2>2. q # <<>> BY <1>2
  <2>3. Dispatch(q) BY <1>1, <1>3 DEF do_scheduler
  <2> HIDE DEF q
  <2>4. /\ active_proc' \in Pid /\ active_proc' \in On(q)
        /\ ready_queue' \in Seq(Pid) /\ NoDup(ready_queue')
        /\ On(ready_queue') = On(q) \ {active_proc'}
    BY <2>1, <2>2, <2>3, DispatchFacts
  <2>5. Queued' BY <1>1, <2>1, <2>4 DEF Queued
  <2>6. context_switch(active_proc, page_table, free_frames)
    BY <1>3 DEF Clock
  <2>7. active_proc # NoProc BY <1>2 DEF Pid, NoProc
  <2>8. Exclusive(Held(page_table, free_frames, krnl_page_table, initial_ks))
    BY DEF Inv, Holdings
  <2>9. PICK old : old = active_proc OBVIOUS
  <2>10. PICK pt \in [Pid -> Table] : pt = page_table BY <1>2
  <2>11. PICK free \in Seq(Frame) : free = free_frames BY <1>2
  <2>12. /\ Exclusive(Held(pt, free, krnl_page_table, initial_ks))
         /\ context_switch(old, pt, free)
    BY <2>6, <2>8, <2>9, <2>10, <2>11
  <2>13. /\ active_proc' \in On(ready_queue) \cup ({old} \ {NoProc})
         /\ On(ready_queue') \subseteq On(ready_queue) \cup ({old} \ {NoProc})
    BY <2>1, <2>4, <2>7, <2>9
  <2>14. \A p \in Pid : p # active_proc => pt[p] = page_table[p] BY <2>10
  <2>15. old = NoProc \/ (old = active_proc /\ pt = page_table) BY <2>9, <2>10
  <2> QED BY <1>1, <2>4, <2>5, <2>12, <2>13, <2>14, <2>15, SwitchFacts
<1>4. CASE ready_queue = <<>>
  <2>1. vars' = vars
    BY <1>1, <1>4 DEF Clock, do_scheduler, vars, schedVars
  <2> QED BY <2>1, StutterInv
<1> QED BY <1>3, <1>4

(* The process that is chosen when a process blocks or ends. *)
LEMMA ChooseFacts ==
    ASSUME Inv, ~panic, active_proc # Idle, NEW cur,
           normal_schedule(ready_queue, cur)
    PROVE  /\ active_proc' \in On(ready_queue)
           /\ ready_queue' \in Seq(Pid) /\ On(ready_queue') \subseteq On(ready_queue)
           /\ Queued'
<1>1. TypeOK /\ Queued BY DEF Inv, Going
<1>2. ready_queue \in Seq(Pid) /\ NoDup(ready_queue) /\ Idle \in On(ready_queue)
  BY <1>1 DEF TypeOK, Queued
<1>3. ready_queue # <<>> BY <1>2, OnEmpty
<1>4. Dispatch(ready_queue) BY <1>3 DEF normal_schedule
<1>5. /\ active_proc' \in Pid /\ active_proc' \in On(ready_queue)
      /\ ready_queue' \in Seq(Pid) /\ NoDup(ready_queue')
      /\ On(ready_queue') = On(ready_queue) \ {active_proc'}
  BY <1>2, <1>3, <1>4, DispatchFacts
<1>6. Queued' BY <1>2, <1>5 DEF Queued
<1> QED BY <1>5, <1>6

(* A call that blocks. *)
LEMMA BlockInv ==
    ASSUME Inv, NEW p \in Pid, Block(p)
    PROVE  Inv'
<1>1. /\ ~panic /\ calls' = calls /\ p = active_proc /\ active_proc # Idle
      /\ normal_schedule(ready_queue, p)
      /\ context_switch(p, page_table, free_frames)
  BY DEF Block, Calls
<1>2. /\ active_proc' \in On(ready_queue)
      /\ ready_queue' \in Seq(Pid) /\ On(ready_queue') \subseteq On(ready_queue)
      /\ Queued'
  BY <1>1, ChooseFacts
<1>3. PICK pt \in [Pid -> Table] : pt = page_table BY DEF Inv, TypeOK, Table
<1>4. PICK free \in Seq(Frame) : free = free_frames BY DEF Inv, TypeOK
<1>5. /\ Exclusive(Held(pt, free, krnl_page_table, initial_ks))
      /\ context_switch(p, pt, free)
  BY <1>1, <1>3, <1>4 DEF Inv, Holdings
<1>6. /\ active_proc' \in On(ready_queue) \cup ({p} \ {NoProc})
      /\ On(ready_queue') \subseteq On(ready_queue) \cup ({p} \ {NoProc})
  BY <1>2
<1>7. \A q \in Pid : q # active_proc => pt[q] = page_table[q] BY <1>3
<1>8. p = NoProc \/ (p = active_proc /\ pt = page_table) BY <1>1, <1>3
<1> QED BY <1>1, <1>2, <1>5, <1>6, <1>7, <1>8, SwitchFacts

(* Exit gives back what the process had before it switches. *)
LEMMA ExitInv ==
    ASSUME Inv, NEW p \in Pid, Exit(p)
    PROVE  Inv'
<1> DEFINE t == page_table[p]
           pts == [page_table EXCEPT ![p] = NoPages]
           pushed == Push(ExitFrees(p), free_frames)
<1>1. /\ ~panic /\ calls' = calls /\ p = active_proc /\ active_proc # Idle
      /\ normal_schedule(ready_queue, NoProc)
      /\ context_switch(NoProc, pts, pushed)
  BY DEF Exit, Calls
<1>2. /\ active_proc' \in On(ready_queue)
      /\ ready_queue' \in Seq(Pid) /\ On(ready_queue') \subseteq On(ready_queue)
      /\ Queued'
  BY <1>1, ChooseFacts
<1>3. /\ page_table \in [Pid -> Table] /\ free_frames \in Seq(Frame)
      /\ t \in Table
  BY DEF Inv, TypeOK, Table
<1>4. NoPages \in Table /\ \A i \in Page : NoPages[i] = NoFrame
  BY DEF NoPages, Table
<1>5. pushed \in Seq(Frame) /\ Moved(t, free_frames, NoPages, pushed)
  <2>1. Once(t) /\ Once(free_frames) /\ Apart(t, free_frames)
    BY ApartFacts DEF Inv, Holdings, Apartness
  <2>2. ExitFrees(p) = ValidPfns(t, Page) BY DEF ExitFrees
  <2>3. PICK u \in [Page -> Frame \cup {NoFrame}] : u = t BY <1>3 DEF Table
  <2>4. PICK free \in Seq(Frame) : free = free_frames BY <1>3
  <2>5. \A i \in Page : NoPages[i] = IF i \in Page THEN NoFrame ELSE u[i]
    BY <1>4
  <2>6. /\ Page \in SUBSET Page /\ Once(u) /\ Once(free) /\ Apart(u, free)
        /\ NoPages \in [Page -> Frame \cup {NoFrame}]
    BY <1>4, <2>1, <2>3, <2>4 DEF Table
  <2>7. /\ Push(ValidPfns(u, Page), free) \in Seq(Frame)
        /\ Moved(u, free, NoPages, Push(ValidPfns(u, Page), free))
    BY <2>5, <2>6, GiveFacts
  <2> QED BY <2>2, <2>3, <2>4, <2>7
<1>6. pts \in [Pid -> Table] /\ pts[p] = NoPages
      /\ \A q \in Pid : q # p => pts[q] = page_table[q]
  BY <1>3, <1>4
<1> HIDE DEF pts, pushed
<1>7. Exclusive(Held(pts, pushed, krnl_page_table, initial_ks))
  <2>1. Moved(page_table[p], free_frames, pts[p], pushed) BY <1>5, <1>6
  <2>2. Exclusive(Held(page_table, free_frames, krnl_page_table, initial_ks))
    BY DEF Inv, Holdings
  <2> QED BY <1>6, <2>1, <2>2, ProcessMoves
<1>8. PICK pt \in [Pid -> Table] : pt = pts BY <1>6
<1>9. PICK free \in Seq(Frame) : free = pushed BY <1>5
<1>10. /\ Exclusive(Held(pt, free, krnl_page_table, initial_ks))
       /\ context_switch(NoProc, pt, free)
       /\ \A q \in Pid : q # active_proc => pt[q] = page_table[q]
  BY <1>1, <1>6, <1>7, <1>8, <1>9
<1>11. PICK old : old = NoProc OBVIOUS
<1>12. /\ active_proc' \in On(ready_queue) \cup ({old} \ {NoProc})
       /\ On(ready_queue') \subseteq On(ready_queue) \cup ({old} \ {NoProc})
       /\ old = NoProc \/ (old = active_proc /\ pt = page_table)
       /\ context_switch(old, pt, free)
  BY <1>2, <1>10, <1>11
<1> QED BY <1>1, <1>2, <1>10, <1>12, SwitchFacts

----------------------------------------------------------------------------
(* Pages and addresses *)

(* Whole pages below and up to an address. *)
LEMMA PageFacts ==
    ASSUME NEW a \in Int
    PROVE  /\ DownToPage(a) \in Int /\ UpToPage(a) \in Int
           /\ DownToPage(a) <= UpToPage(a)
           /\ \A b \in Int : a <= b => DownToPage(a) <= DownToPage(b)
           /\ \A n \in Int : a < n * PAGESIZE => DownToPage(a) < n
           /\ a >= 0 => DownToPage(a) \in Nat
           /\ a >= PAGESIZE => DownToPage(a) >= 1
<1>1. PAGESIZE \in Nat /\ PAGESIZE # 0 BY MemoryAssumption
<1>2. DownToPage(a) \in Int BY <1>1 DEF DownToPage
<1>3. UpToPage(a) \in Int BY <1>1 DEF UpToPage
<1>4. ASSUME NEW b \in Int, a <= b PROVE a \div PAGESIZE <= b \div PAGESIZE
  BY <1>1, <1>4, SMTT(30)
<1>5. a \div PAGESIZE <= (a + PAGESIZE - 1) \div PAGESIZE
  <2>1. a + PAGESIZE - 1 \in Int /\ a <= a + PAGESIZE - 1 BY <1>1
  <2> QED BY <1>4, <2>1
<1>6. ASSUME NEW n \in Int, a < n * PAGESIZE PROVE a \div PAGESIZE < n
  BY <1>1, <1>6, SMTT(30)
<1>7. a >= 0 => a \div PAGESIZE \in Nat BY <1>1, SMTT(30)
<1>8. a >= PAGESIZE => a \div PAGESIZE >= 1 BY <1>1, SMTT(30)
<1> QED BY <1>2, <1>3, <1>4, <1>5, <1>6, <1>7, <1>8 DEF DownToPage, UpToPage

(* A run of pages; it is empty when its end is below its start. *)
LEMMA RunLength ==
    ASSUME NEW a \in Int, NEW n \in Int
    PROVE  Len(Up(a, n)) \in Nat
<1>1. CASE n >= 0
  <2>1. n \in Nat /\ Up(a, n) \in [1..n -> Int] BY <1>1 DEF Up
  <2> QED BY <2>1
<1>2. CASE n < 0
  <2>1. 1..n = {} BY <1>2
  <2>2. Up(a, n) = [k \in {} |-> a + k - 1] BY <2>1 DEF Up
  <2>3. ASSUME NEW f, f = [k \in DOMAIN f |-> f[k]], DOMAIN f = {} PROVE f = <<>>
    BY <2>3
  <2>4. Up(a, n) = <<>> BY <2>2, <2>3
  <2> QED BY <2>4
<1> QED BY <1>1, <1>2

\* r is s with t behind it.
Joins(r, s, t) ==
    /\ Len(r) = Len(s) + Len(t)
    /\ \A i \in 1..Len(s) : r[i] = s[i]
    /\ \A i \in 1..Len(t) : r[Len(s) + i] = t[i]

LEMMA JoinFacts ==
    ASSUME NEW S, NEW s \in Seq(S), NEW t \in Seq(S)
    PROVE  s \o t \in Seq(S) /\ Joins(s \o t, s, t)
  BY DEF Joins

\* Table t1 maps all that t maps, and the first n of the pages.
MapsMore(I, t, pages, n, t1) ==
    /\ t1 \in [I -> Frame \cup {NoFrame}]
    /\ \A i \in I : t[i] \in Frame \ {0} => t1[i] \in Frame \ {0}
    /\ \A i \in I : t[i] # NoFrame => t1[i] # NoFrame
    /\ \A k \in 1..n : pages[k] \in I => t1[pages[k]] \in Frame \ {0}

(* The table of a process that maps pages, and the kernel's. *)
LEMMA StillMapped ==
    ASSUME NEW I, NEW t \in [I -> Frame \cup {NoFrame}], NEW free \in Seq(Frame),
           NEW pages, Len(pages) \in Nat
    PROVE  MapsMore(I, t, pages, Granted(free, Len(pages)), Mapped(t, pages, free))
<1> DEFINE t1 == Mapped(t, pages, free)
           g == Granted(free, Len(pages))
<1>1. /\ t1 \in [I -> (Frame \cup {NoFrame}) \cup (Frame \ {0})]
      /\ MapsTo(t, pages, free, g, t1)
  BY MappedFacts
<1>2. /\ g \in Nat /\ g <= Len(free) /\ Len(free) \in Nat
      /\ \A k \in 1..g : free[k] # 0
  BY GrantedFacts
<1> HIDE DEF t1, g
<1>3. \A k \in 1..g : free[k] \in Frame \ {0} BY <1>2
<1>4. DOMAIN t = I OBVIOUS
<1>5. NoFrame \notin Frame BY DEF NoFrame, Frame
<1>6. t1 \in [I -> Frame \cup {NoFrame}] BY <1>1
<1>7. \A i \in I : t[i] \in Frame \ {0} => t1[i] \in Frame \ {0}
  BY <1>1, <1>3, <1>4 DEF MapsTo
<1>8. \A i \in I : t[i] # NoFrame => t1[i] # NoFrame
  BY <1>1, <1>3, <1>4, <1>5 DEF MapsTo
<1>9. \A k \in 1..g : pages[k] \in I => t1[pages[k]] \in Frame \ {0}
  BY <1>1, <1>3, <1>4 DEF MapsTo
<1> QED BY <1>6, <1>7, <1>8, <1>9 DEF t1, g, MapsMore

----------------------------------------------------------------------------
(* sys_Brk, trap_memory_hdl, sys_Exec *)

(* A call in which the process that runs changes its own table, and perhaps
   starts again with the initial kernel stack. *)
LEMMA OwnTableInv ==
    ASSUME Inv, ~panic, NEW p \in Pid, p = active_proc,
           UNCHANGED <<schedVars, next_pid, kernelVars, content, panic>>,
           page_table' \in [Pid -> Table], free_frames' \in Seq(Frame),
           \A q \in Pid : q # p => page_table'[q] = page_table[q],
           \A i \in StackPages : page_table'[p][i] \in Frame \ {0},
           Moved(page_table[p], free_frames, page_table'[p], free_frames'),
           next_heap_pn' \in [Pid -> Int], next_stack_pn' \in [Pid -> -1..NPages - 1],
           calls' \in 0..MaxCalls,
           \/ UNCHANGED <<kstack, resumed>>
           \/ kstack' = <<Initial, Initial>> /\ resumed' = resumed \ {p}
    PROVE  Inv'
<1>1. TypeOK /\ Queued /\ Born /\ StacksKept /\ Exclusive(Holdings)
  BY DEF Inv, Going
<1>2. /\ active_proc' = active_proc /\ ready_queue' = ready_queue
      /\ next_pid' = next_pid /\ krnl_page_table' = krnl_page_table
      /\ kernel_brk' = kernel_brk /\ initial_ks' = initial_ks
      /\ content' = content /\ panic' = panic
  BY DEF schedVars, kernelVars
<1>3. On(ready_queue) \subseteq Pid /\ ready_queue \in Seq(Pid) /\ resumed \subseteq Pid
  <2>1. ready_queue \in Seq(Pid) BY <1>1 DEF TypeOK
  <2>2. resumed \subseteq Pid BY <1>1 DEF TypeOK
  <2> QED BY <2>1, <2>2, OnSubset
<1>4. resumed' \subseteq resumed BY Zenon
<1>5. TypeOK'
  <2>1. kstack' \in [1..2 -> Pid \cup {Junk, Initial}]
    <3>1. CASE kstack' = kstack BY <1>1, <3>1 DEF TypeOK
    <3>2. CASE kstack' = <<Initial, Initial>> BY <3>2
    <3> QED BY <3>1, <3>2
  <2>2. resumed' \subseteq Pid BY <1>3, <1>4
  <2> QED BY <1>1, <1>2, <2>1, <2>2 DEF TypeOK, Table
<1>6. Exclusive(Holdings)'
  <2>1. PICK t1, f1 : t1 = page_table' /\ f1 = free_frames' OBVIOUS
  <2>2. Exclusive(Held(page_table, free_frames, krnl_page_table, initial_ks))
    BY <1>1 DEF Holdings
  <2>3. /\ \A q \in Pid : q # p => t1[q] = page_table[q]
        /\ Moved(page_table[p], free_frames, t1[p], f1)
    BY <2>1
  <2>4. Exclusive(Held(t1, f1, krnl_page_table, initial_ks))
    BY <2>2, <2>3, ProcessMoves
  <2>5. Holdings' = Held(t1, f1, krnl_page_table, initial_ks)
    BY <1>2, <2>1 DEF Holdings, Held
  <2> QED BY <2>4, <2>5 DEF Exclusive
<1>7. HeapHeld' BY <1>2 DEF Inv, HeapHeld, KernelHeapMapped
<1>8. Unborn'
  <2>1. next_pid \in Int BY <1>1 DEF TypeOK
  <2>2. p \in 0..next_pid - 1 BY <1>1 DEF Born
  <2>3. \A q \in Pid : q >= next_pid => q # p BY <2>1, <2>2
  <2> QED BY <1>2, <2>3 DEF Inv, Unborn
<1>9. Queued' BY <1>1, <1>2 DEF Queued
<1>10. Born' BY <1>1, <1>2, <1>4 DEF Born
<1>11. StacksKept'
  <2>1. \A q \in Pid : \A c : q # p /\ StackIs(q, c) => StackIs(q, c)'
    BY <1>2 DEF StackIs
  <2>2. \A i \in 1..2 : initial_ks'[i] # 0 /\ content'[initial_ks'[i]] = Initial
    BY <1>1, <1>2 DEF StacksKept
  <2>3. \A q \in resumed' \ {active_proc'} : StackIs(q, q)'
    BY <1>1, <1>2, <1>3, <1>4, <2>1 DEF StacksKept
  <2>4. ASSUME NEW q \in On(ready_queue') \ resumed'
        PROVE  (\A i \in StackPages : page_table'[q][i] = 0) \/ StackIs(q, Initial)'
    <3>1. q \in On(ready_queue) /\ q # p /\ q \in Pid
      BY <1>1, <1>2, <1>3 DEF Queued
    <3>2. q \notin resumed BY <3>1
    <3>3. page_table'[q] = page_table[q] BY <3>1
    <3> QED BY <1>1, <2>1, <3>1, <3>2, <3>3 DEF StacksKept
  <2> QED BY <1>2, <2>2, <2>3, <2>4 DEF StacksKept
<1>12. Going' BY <1>9, <1>10, <1>11 DEF Going
<1>13. OwnStack'
  <2>1. CASE kstack' = kstack /\ resumed' = resumed
    BY <1>2, <2>1 DEF Inv, OwnStack
  <2>2. CASE kstack' = <<Initial, Initial>> /\ resumed' = resumed \ {p}
    BY <1>2, <2>2 DEF OwnStack
  <2> QED BY <2>1, <2>2
<1> QED BY <1>5, <1>6, <1>7, <1>8, <1>12, <1>13 DEF Inv

(* Undefined behaviour ends the story. *)
LEMMA PanicInv ==
    ASSUME Inv, Panic, UNCHANGED schedVars, calls' \in 0..MaxCalls
    PROVE  Inv'
<1>1. /\ active_proc' = active_proc /\ ready_queue' = ready_queue
      /\ free_frames' = free_frames /\ next_pid' = next_pid
      /\ page_table' = page_table /\ next_heap_pn' = next_heap_pn
      /\ next_stack_pn' = next_stack_pn /\ krnl_page_table' = krnl_page_table
      /\ kernel_brk' = kernel_brk /\ initial_ks' = initial_ks
      /\ content' = content /\ kstack' = kstack /\ resumed' = resumed
      /\ panic' = TRUE
  BY DEF Panic, schedVars, tables, kernelVars, stackVars
<1>2. TypeOK' BY <1>1 DEF Inv, TypeOK
<1>3. Exclusive(Holdings)' BY <1>1 DEF Inv, Holdings, Held, Exclusive
<1>4. HeapHeld' BY <1>1 DEF Inv, HeapHeld, KernelHeapMapped
<1>5. Unborn' BY <1>1 DEF Inv, Unborn
<1>6. Going' /\ OwnStack' BY <1>1 DEF Going, OwnStack
<1> QED BY <1>2, <1>3, <1>4, <1>5, <1>6 DEF Inv

(* What holds when a process calls the kernel. *)
LEMMA CallFacts ==
    ASSUME Inv, NEW p \in Pid, Calls(p)
    PROVE  /\ ~panic /\ p = active_proc /\ p # Idle
           /\ page_table \in [Pid -> Table] /\ free_frames \in Seq(Frame)
           /\ page_table[p] \in [Page -> Frame \cup {NoFrame}]
           /\ \A i \in StackPages : page_table[p][i] \in Frame \ {0}
           /\ Once(page_table[p]) /\ Once(free_frames)
           /\ Apart(page_table[p], free_frames)
           /\ next_heap_pn \in [Pid -> Int] /\ next_stack_pn \in [Pid -> -1..NPages - 1]
           /\ StackPages \subseteq Page /\ NPages \in Nat
<1>1. ~panic /\ p = active_proc /\ p # Idle BY DEF Calls
<1>2. /\ page_table \in [Pid -> Table] /\ free_frames \in Seq(Frame)
      /\ next_heap_pn \in [Pid -> Int] /\ next_stack_pn \in [Pid -> -1..NPages - 1]
  BY DEF Inv, TypeOK, Table
<1>3. page_table[p] \in [Page -> Frame \cup {NoFrame}] BY <1>2 DEF Table
<1>4. \A i \in StackPages : page_table[p][i] \in Frame \ {0}
  BY <1>1 DEF Inv, Going, StacksKept
<1>5. Apartness(page_table, free_frames, krnl_page_table, initial_ks)
  BY ApartFacts DEF Inv, Holdings
<1>6. StackPages \subseteq Page /\ NPages \in Nat
  BY MemoryAssumption DEF StackPages, Page
<1> QED BY <1>1, <1>2, <1>3, <1>4, <1>5, <1>6 DEF Apartness

LEMMA BrkInv ==
    ASSUME Inv, NEW p \in Pid, NEW addr \in UserAddrs, Brk(p, addr)
    PROVE  Inv'
<1> DEFINE pn_end == UpToPage(addr)
           pages == Up(next_heap_pn[p], pn_end - next_heap_pn[p])
           n == Granted(free_frames, Len(pages))
           t == page_table[p]
           t1 == Mapped(t, pages, free_frames)
<1>1. Calls(p) /\ calls < MaxCalls /\ calls' = calls + 1 BY DEF Brk, Counted
<1>2. calls' \in 0..MaxCalls BY <1>1, MemoryAssumption DEF Inv, TypeOK
<1>3. UNCHANGED schedVars BY DEF Brk
<1>4. CASE Panic BY <1>2, <1>3, <1>4, PanicInv
<1>5. CASE ~Panic
  <2>1. /\ page_table' = [page_table EXCEPT ![p] = t1]
        /\ free_frames' = Left(free_frames, Len(pages))
        /\ next_heap_pn' =
              [next_heap_pn EXCEPT ![p] = IF n = Len(pages) THEN pn_end ELSE @]
        /\ UNCHANGED <<next_pid, next_stack_pn, kernelVars, stackVars, panic>>
    BY <1>5 DEF Brk
  <2>2. /\ ~panic /\ p = active_proc
        /\ page_table \in [Pid -> Table] /\ free_frames \in Seq(Frame)
        /\ t \in [Page -> Frame \cup {NoFrame}]
        /\ \A i \in StackPages : t[i] \in Frame \ {0}
        /\ Once(t) /\ Once(free_frames) /\ Apart(t, free_frames)
        /\ next_heap_pn \in [Pid -> Int] /\ next_stack_pn \in [Pid -> -1..NPages - 1]
        /\ StackPages \subseteq Page
    BY <1>1, CallFacts
  <2>3. addr \in Int BY MemoryAssumption
  <2>4. pn_end \in Int BY <2>3, PageFacts
  <2>5. Len(pages) \in Nat
    <3> DEFINE a == next_heap_pn[p]
               b == pn_end - next_heap_pn[p]
    <3>1. a \in Int /\ b \in Int BY <2>2, <2>4
    <3> HIDE DEF a, b
    <3>2. Len(Up(a, b)) \in Nat BY <3>1, RunLength
    <3> QED BY <3>2 DEF a, b
  <2> HIDE DEF pages, pn_end, n
  <2>6. /\ t1 \in [Page -> Frame \cup {NoFrame}]
        /\ \A i \in Page : t[i] \in Frame \ {0} => t1[i] \in Frame \ {0}
    <3>1. MapsMore(Page, t, pages, n, t1) BY <2>2, <2>5, StillMapped DEF n
    <3> HIDE DEF t1
    <3> QED BY <3>1 DEF MapsMore
  <2>7. Moved(t, free_frames, t1, Left(free_frames, Len(pages)))
    BY <2>2, <2>5, TakeFacts
  <2>8. Left(free_frames, Len(pages)) \in Seq(Frame) BY <2>2, <2>5, LeftFacts
  <2> HIDE DEF t1
  <2>9. /\ page_table' \in [Pid -> Table] /\ page_table'[p] = t1
        /\ \A q \in Pid : q # p => page_table'[q] = page_table[q]
    BY <2>1, <2>2, <2>6 DEF Table
  <2>10. next_heap_pn' \in [Pid -> Int] BY <2>1, <2>2, <2>4
  <2>11. /\ UNCHANGED <<schedVars, next_pid, kernelVars, content, panic>>
         /\ UNCHANGED <<kstack, resumed>> /\ next_stack_pn' \in [Pid -> -1..NPages - 1]
    BY <1>3, <2>1, <2>2 DEF stackVars
  <2>12. \A i \in StackPages : page_table'[p][i] \in Frame \ {0}
    BY <2>2, <2>6, <2>9
  <2>13. /\ Moved(page_table[p], free_frames, page_table'[p], free_frames')
         /\ free_frames' \in Seq(Frame)
    BY <2>1, <2>7, <2>8, <2>9
  <2> QED BY <1>2, <2>2, <2>9, <2>10, <2>11, <2>12, <2>13, OwnTableInv
<1> QED BY <1>4, <1>5

(* There is a frame 0. *)
LEMMA ZeroIsFrame == 0 \in Frame /\ 0 # NoFrame
<1>1. DownToPage(BootBrk) >= 1 /\ DownToPage(BootBrk) <= UpToPage(BootBrk)
      /\ DownToPage(BootBrk) \in Int /\ UpToPage(BootBrk) \in Int
  BY MemoryAssumption, PageFacts
<1>2. /\ UpToPage(BootBrk) <= StackBase /\ KPages <= TotalFrames
      /\ KPages \in Nat /\ TotalFrames \in Nat
  BY MemoryAssumption
<1>3. TotalFrames >= 1 BY <1>1, <1>2 DEF StackBase
<1> QED BY <1>2, <1>3 DEF Frame, NoFrame

(* A list without its first n elements, or without all. *)
LEMMA DropFacts ==
    ASSUME NEW S, NEW s \in Seq(S), NEW n \in Nat
    PROVE  LET r == SubSeq(s, n + 1, Len(s)) IN
           /\ r \in Seq(S)
           /\ \A k \in 1..Len(r) : n + k \in 1..Len(s) /\ r[k] = s[n + k]
           /\ n >= Len(s) => r = <<>>
<1> DEFINE r == SubSeq(s, n + 1, Len(s))
<1>0. Len(s) \in Nat OBVIOUS
<1>1. CASE n <= Len(s)
  <2>1. n \in 0..Len(s) BY <1>0, <1>1
  <2>2. /\ r \in Seq(S) /\ Len(r) = Len(s) - n
        /\ \A i \in 1..Len(s) - n : r[i] = s[n + i]
    BY <2>1, SubSeqFacts
  <2> HIDE DEF r
  <2>3. \A k \in 1..Len(r) : n + k \in 1..Len(s) /\ r[k] = s[n + k]
    BY <1>0, <1>1, <2>2
  <2>4. n >= Len(s) => r = <<>> BY <1>0, <1>1, <2>2
  <2> QED BY <2>2, <2>3, <2>4 DEF r
<1>2. CASE n > Len(s)
  <2>1. r = <<>> BY <1>0, <1>2
  <2> HIDE DEF r
  <2>2. r \in Seq(S) /\ Len(r) = 0 BY <2>1
  <2>3. \A k \in 1..Len(r) : n + k \in 1..Len(s) /\ r[k] = s[n + k] BY <2>2
  <2> QED BY <2>1, <2>2, <2>3 DEF r
<1> QED BY <1>0, <1>1, <1>2

\* The pages above lo up to top get frames off the list, in this order; frame
\* 0 when it is empty.
Grown(t, free, lo, top) ==
    [i \in Page |->
        IF i \in lo + 1..top
        THEN IF top - i + 1 <= Len(free) THEN free[top - i + 1] ELSE 0
        ELSE t[i]]

\* t1 and f1 are what becomes of table t and the free list then.
GrowsInto(t, free, t1, f1, lo, top) ==
    /\ t1 \in [Page -> Frame \cup {NoFrame}] /\ f1 \in Seq(Frame)
    /\ \A i \in StackPages : t1[i] = t[i]
    /\ Draws(t, free, t1, f1, top - lo, Down(top, top - lo))
    /\ top - lo \in Nat

(* A stack that grows. *)
LEMMA GrownFacts ==
    ASSUME NEW t \in [Page -> Frame \cup {NoFrame}], NEW free \in Seq(Frame),
           NEW top \in -1..NPages - 1, NEW lo \in -1..NPages - 1, lo <= top
    PROVE  GrowsInto(t, free, Grown(t, free, lo, top),
                     SubSeq(free, top - lo + 1, Len(free)), lo, top)
<1> DEFINE t1 == Grown(t, free, lo, top)
           f1 == SubSeq(free, top - lo + 1, Len(free))
           n == top - lo
<1>0. NPages \in Nat /\ NPages # 0 BY MemoryAssumption
<1>1. /\ top \in Int /\ lo \in Int /\ n \in Nat /\ Len(free) \in Nat
      /\ lo >= -1 /\ top <= NPages - 1
  BY <1>0
<1>2. \A i \in Page : i \in Int BY DEF Page
<1>3. ASSUME NEW i \in Page, i \in lo + 1..top
      PROVE  top - i + 1 \in 1..n
  BY <1>1, <1>2, <1>3
<1>4. ASSUME NEW i \in Page
      PROVE  t1[i] = IF i \in lo + 1..top
                     THEN IF top - i + 1 <= Len(free) THEN free[top - i + 1] ELSE 0
                     ELSE t[i]
  BY DEF Grown
<1>5. ASSUME NEW i \in Page PROVE t1[i] \in Frame \cup {NoFrame}
  <2>1. CASE i \in lo + 1..top /\ top - i + 1 <= Len(free)
    <3>1. top - i + 1 \in 1..Len(free) BY <1>1, <1>3, <2>1
    <3>2. free[top - i + 1] \in Frame BY <3>1
    <3> QED BY <1>4, <2>1, <3>2
  <2>2. CASE i \in lo + 1..top /\ ~(top - i + 1 <= Len(free))
    BY <1>4, <2>2, ZeroIsFrame
  <2>3. CASE i \notin lo + 1..top BY <1>4, <2>3
  <2> QED BY <2>1, <2>2, <2>3
<1>6. t1 \in [Page -> Frame \cup {NoFrame}] BY <1>5 DEF Grown
<1>7. /\ f1 \in Seq(Frame)
      /\ \A k \in 1..Len(f1) : n + k \in 1..Len(free) /\ f1[k] = free[n + k]
  BY <1>1, DropFacts
<1>8. ASSUME NEW i \in StackPages PROVE t1[i] = t[i]
  <2>1. i \in Page /\ i \notin lo + 1..top BY <1>0, <1>1 DEF StackPages, Page
  <2> QED BY <1>4, <2>1
<1>9. Draws(t, free, t1, f1, n, Down(top, n))
  <2>1. ASSUME NEW i \in Page
        PROVE  \/ t1[i] = t[i] \/ t1[i] \in {0, NoFrame}
               \/ \E k \in 1..n : /\ k <= Len(free) /\ Down(top, n)[k] = i
                                  /\ t1[i] = free[k]
    <3>1. CASE i \in lo + 1..top /\ top - i + 1 <= Len(free)
      <4>1. top - i + 1 \in 1..n BY <1>3, <3>1
      <4>2. Down(top, n)[top - i + 1] = top - (top - i + 1) + 1
        BY <4>1 DEF Down
      <4>3. Down(top, n)[top - i + 1] = i BY <1>1, <1>2, <4>2
      <4> QED BY <1>4, <3>1, <4>1, <4>3
    <3>2. CASE i \in lo + 1..top /\ ~(top - i + 1 <= Len(free)) BY <1>4, <3>2
    <3>3. CASE i \notin lo + 1..top BY <1>4, <3>3
    <3> QED BY <3>1, <3>2, <3>3
  <2>2. DOMAIN t = Page OBVIOUS
  <2> HIDE DEF t1, n, f1
  <2> QED BY <1>7, <2>1, <2>2 DEF Draws
<1> QED BY <1>1, <1>6, <1>7, <1>8, <1>9 DEF GrowsInto

LEMMA TrapInv ==
    ASSUME Inv, NEW p \in Pid, NEW addr \in UserAddrs, TrapMemory(p, addr)
    PROVE  Inv'
<1> DEFINE t == page_table[p]
           top == next_stack_pn[p]
           lo == GrowsTo(addr)
           f1 == SubSeq(free_frames, top - lo + 1, Len(free_frames))
           t1 == Grown(t, free_frames, lo, top)
<1>1. Calls(p) /\ calls < MaxCalls /\ calls' = calls + 1
  BY DEF TrapMemory, Counted
<1>2. calls' \in 0..MaxCalls BY <1>1, MemoryAssumption DEF Inv, TypeOK
<1>3. UNCHANGED schedVars BY DEF TrapMemory
<1>4. CASE Panic BY <1>2, <1>3, <1>4, PanicInv
<1>5. CASE ~Panic
  <2>1. /\ ~panic /\ p = active_proc
        /\ page_table \in [Pid -> Table] /\ free_frames \in Seq(Frame)
        /\ t \in [Page -> Frame \cup {NoFrame}]
        /\ \A i \in StackPages : t[i] \in Frame \ {0}
        /\ Once(t) /\ Once(free_frames) /\ Apart(t, free_frames)
        /\ next_heap_pn \in [Pid -> Int] /\ next_stack_pn \in [Pid -> -1..NPages - 1]
        /\ StackPages \subseteq Page /\ NPages \in Nat
    BY <1>1, CallFacts
  <2>2. addr \in Int BY MemoryAssumption
  <2>3. lo \in Int
    <3>1. DownToPage(addr) \in Int BY <2>2, PageFacts
    <3> QED BY <3>1 DEF GrowsTo
  <2>4. lo <= top /\ lo >= -1 BY <1>5 DEF TrapMemory, StackGrowth
  <2>5. top \in -1..NPages - 1 /\ top \in Int BY <2>1
  <2>6. lo \in -1..NPages - 1 BY <2>1, <2>3, <2>4, <2>5
  <2>7. top - (top - lo) = lo BY <2>3, <2>5
  <2>8. /\ page_table' = [page_table EXCEPT ![p] = t1]
        /\ free_frames' = f1
        /\ next_stack_pn' = [next_stack_pn EXCEPT ![p] = lo]
        /\ UNCHANGED <<next_pid, next_heap_pn, kernelVars, stackVars, panic>>
    <3>1. /\ page_table' = [page_table EXCEPT ![p] =
                [i \in Page |->
                    IF i \in top - (top - lo) + 1..top
                    THEN IF top - i + 1 <= Len(free_frames)
                         THEN free_frames[top - i + 1] ELSE 0
                    ELSE t[i]]]
          /\ free_frames' = SubSeq(free_frames, (top - lo) + 1, Len(free_frames))
          /\ next_stack_pn' = [next_stack_pn EXCEPT ![p] = top - (top - lo)]
          /\ UNCHANGED <<next_pid, next_heap_pn, kernelVars, stackVars, panic>>
      BY <1>5, Zenon DEF TrapMemory
    <3> QED BY <2>7, <3>1, Zenon DEF Grown
  <2>9. /\ t1 \in [Page -> Frame \cup {NoFrame}] /\ f1 \in Seq(Frame)
        /\ \A i \in StackPages : t1[i] = t[i]
        /\ Draws(t, free_frames, t1, f1, top - lo, Down(top, top - lo))
        /\ top - lo \in Nat
    <3>1. GrowsInto(t, free_frames, t1, f1, lo, top)
      <4> HIDE DEF t, top, lo
      <4> QED BY <2>1, <2>4, <2>5, <2>6, GrownFacts
    <3> HIDE DEF t1, f1
    <3> QED BY <3>1 DEF GrowsInto
  <2> HIDE DEF t1, f1
  <2>10. Moved(t, free_frames, t1, f1)
    <3>1. DOMAIN t = Page /\ DOMAIN t1 = Page BY <2>1, <2>9
    <3> QED BY <2>1, <2>9, <3>1, DrawFacts
  <2>11. /\ page_table' \in [Pid -> Table] /\ page_table'[p] = t1
         /\ \A q \in Pid : q # p => page_table'[q] = page_table[q]
    BY <2>1, <2>8, <2>9 DEF Table
  <2>12. next_stack_pn' \in [Pid -> -1..NPages - 1]
    BY <2>1, <2>6, <2>8
  <2>13. /\ UNCHANGED <<schedVars, next_pid, kernelVars, content, panic>>
         /\ UNCHANGED <<kstack, resumed>> /\ next_heap_pn' \in [Pid -> Int]
    BY <1>3, <2>1, <2>8 DEF stackVars
  <2>14. \A i \in StackPages : page_table'[p][i] \in Frame \ {0}
    BY <2>1, <2>9, <2>11
  <2>15. /\ Moved(page_table[p], free_frames, page_table'[p], free_frames')
         /\ free_frames' \in Seq(Frame)
    BY <2>8, <2>9, <2>10, <2>11
  <2> QED BY <1>2, <2>1, <2>11, <2>12, <2>13, <2>14, <2>15, OwnTableInv
<1> QED BY <1>4, <1>5

(* One move after the other. *)
LEMMA MovedTwice ==
    ASSUME NEW t, NEW u, NEW t0, NEW u0, NEW t1, NEW u1,
           Moved(t, u, t0, u0), Moved(t0, u0, t1, u1)
    PROVE  Moved(t, u, t1, u1)
<1>1. /\ Once(t1) /\ Once(u1) /\ Apart(t1, u1)
      /\ From(t1, t0, u0) /\ From(u1, t0, u0) /\ From(t0, t, u) /\ From(u0, t, u)
  BY DEF Moved
<1>2. ASSUME NEW x, From(x, t0, u0) PROVE From(x, t, u)
  BY <1>1, <1>2 DEF From
<1> QED BY <1>1, <1>2 DEF Moved

(* The pages of a program, and the two break pages it leaves. *)
LEMMA ProgramFacts ==
    ASSUME NEW g \in Programs
    PROVE  /\ Len(ProgramPages(g)) \in Nat
           /\ Len(ProgramPages(g)) = g.t_npg + g.data_npg + g.stack_npg
           /\ \A n : \A old \in Int : HeapLoaded(g, n, old) \in Int
           /\ \A n : \A old \in -1..NPages - 1 :
                 StackLoaded(g, n, old) \in -1..NPages - 1
           /\ Fits(g) => \A k \in 1..Len(ProgramPages(g)) :
                            ProgramPages(g)[k] \in UserPages
           /\ Fits(g) => \A j, k \in 1..Len(ProgramPages(g)) :
                            ProgramPages(g)[j] = ProgramPages(g)[k] => j = k
<1> DEFINE a == g.text_pg1
           b == g.t_npg
           c == g.data_pg1
           d == g.data_npg
           e == g.stack_npg
           A == Up(a, b)
           B == Up(c, d)
           C == Down(NPages - 1, e)
           pages == ProgramPages(g)
<1>0. NPages \in Nat BY MemoryAssumption
<1>1. /\ a \in 0..NPages /\ b \in 0..NPages /\ c \in 0..NPages /\ d \in 0..NPages
      /\ e \in 1..NPages /\ a + b <= c
  BY MemoryAssumption DEF Program
<1>2. pages = A \o B \o C BY DEF ProgramPages
<1>3. Fits(g) <=> e + c + d < NPages BY DEF Fits
<1>4. /\ \A n : \A old : HeapLoaded(g, n, old) = IF n >= b + d THEN c + d ELSE old
      /\ \A n : \A old :
            StackLoaded(g, n, old) = IF Loaded(g, n) THEN NPages - 1 - e ELSE old
  BY DEF HeapLoaded, StackLoaded
<1> HIDE DEF a, b, c, d, e, pages, A, B, C
<1>5. /\ a \in Nat /\ b \in Nat /\ c \in Nat /\ d \in Nat /\ e \in Nat
      /\ e >= 1 /\ e <= NPages /\ a + b <= c
  BY <1>0, <1>1
<1>6. /\ A \in Seq(Int) /\ Len(A) = b /\ \A k \in 1..b : A[k] = a + k - 1
  <2>1. A = [k \in 1..b |-> a + k - 1] BY DEF A, Up
  <2>2. A \in [1..b -> Int] BY <1>5, <2>1
  <2> QED BY <1>5, <2>1, <2>2
<1>7. /\ B \in Seq(Int) /\ Len(B) = d /\ \A k \in 1..d : B[k] = c + k - 1
  <2>1. B = [k \in 1..d |-> c + k - 1] BY DEF B, Up
  <2>2. B \in [1..d -> Int] BY <1>5, <2>1
  <2> QED BY <1>5, <2>1, <2>2
<1>8. /\ C \in Seq(Int) /\ Len(C) = e /\ \A k \in 1..e : C[k] = NPages - 1 - k + 1
  <2>1. C = [k \in 1..e |-> NPages - 1 - k + 1] BY DEF C, Down
  <2>2. C \in [1..e -> Int] BY <1>0, <1>5, <2>1
  <2> QED BY <1>5, <2>1, <2>2
<1>9. /\ A \o B \in Seq(Int) /\ Len(A \o B) = b + d
      /\ \A k \in 1..b : (A \o B)[k] = a + k - 1
      /\ \A k \in 1..d : (A \o B)[b + k] = c + k - 1
  <2>1. /\ A \o B \in Seq(Int) /\ Len(A \o B) = Len(A) + Len(B)
        /\ \A i \in 1..Len(A) : (A \o B)[i] = A[i]
        /\ \A i \in 1..Len(B) : (A \o B)[Len(A) + i] = B[i]
    <3>1. A \o B \in Seq(Int) /\ Joins(A \o B, A, B) BY <1>6, <1>7, JoinFacts
    <3> QED BY <3>1 DEF Joins
  <2> QED BY <1>6, <1>7, <2>1
<1>10. /\ Len(pages) = b + d + e /\ pages \in Seq(Int)
       /\ \A k \in 1..b + d : pages[k] = (A \o B)[k]
       /\ \A k \in 1..e : pages[b + d + k] = NPages - k
  <2> DEFINE AB == A \o B
  <2>1. AB \in Seq(Int) /\ Len(AB) = b + d /\ pages = AB \o C BY <1>2, <1>9
  <2> HIDE DEF AB
  <2>2. /\ Len(AB \o C) = Len(AB) + Len(C) /\ AB \o C \in Seq(Int)
        /\ \A k \in 1..Len(AB) : (AB \o C)[k] = AB[k]
        /\ \A k \in 1..Len(C) : (AB \o C)[Len(AB) + k] = C[k]
    <3>1. AB \o C \in Seq(Int) /\ Joins(AB \o C, AB, C)
      BY <1>8, <2>1, JoinFacts
    <3> QED BY <3>1 DEF Joins
  <2>3. \A k \in 1..e : C[k] = NPages - k BY <1>0, <1>5, <1>8
  <2> QED BY <1>8, <2>1, <2>2, <2>3 DEF AB
<1>11. Len(pages) \in Nat BY <1>5, <1>10
<1>12. ASSUME NEW k \in 1..b + d + e
       PROVE  \/ k <= b /\ pages[k] = a + k - 1
              \/ k > b /\ k <= b + d /\ pages[k] = c + (k - b) - 1
              \/ k > b + d /\ pages[k] = NPages - (k - (b + d))
  <2>1. k \in Int BY <1>5
  <2>2. CASE k <= b
    <3>1. k \in 1..b /\ k \in 1..b + d BY <1>5, <2>1, <2>2
    <3> QED BY <1>9, <1>10, <2>2, <3>1
  <2>3. CASE k > b /\ k <= b + d
    <3>1. k \in 1..b + d /\ k - b \in 1..d /\ b + (k - b) = k
      BY <1>5, <2>1, <2>3
    <3>2. (A \o B)[k] = c + (k - b) - 1 BY <1>9, <3>1
    <3> QED BY <1>10, <2>3, <3>1, <3>2
  <2>4. CASE k > b + d
    <3>1. k - (b + d) \in 1..e /\ b + d + (k - (b + d)) = k BY <1>5, <2>1, <2>4
    <3> QED BY <1>10, <2>4, <3>1
  <2> QED BY <1>5, <2>1, <2>2, <2>3, <2>4
<1>13. ASSUME Fits(g), NEW k \in 1..Len(pages) PROVE pages[k] \in UserPages
  <2>1. k \in 1..b + d + e /\ e + c + d < NPages BY <1>3, <1>10, <1>13
  <2>2. k \in Int /\ k >= 1 /\ k <= b + d + e BY <1>5, <2>1
  <2>3. CASE k <= b /\ pages[k] = a + k - 1
    <3>1. a + k - 1 \in 0..NPages - 1 BY <1>0, <1>5, <2>1, <2>2, <2>3
    <3> QED BY <2>3, <3>1 DEF UserPages
  <2>4. CASE k > b /\ k <= b + d /\ pages[k] = c + (k - b) - 1
    <3>1. c + (k - b) - 1 \in 0..NPages - 1 BY <1>0, <1>5, <2>1, <2>2, <2>4
    <3> QED BY <2>4, <3>1 DEF UserPages
  <2>5. CASE k > b + d /\ pages[k] = NPages - (k - (b + d))
    <3>1. NPages - (k - (b + d)) \in 0..NPages - 1
      BY <1>0, <1>5, <2>1, <2>2, <2>5
    <3> QED BY <2>5, <3>1 DEF UserPages
  <2> QED BY <1>12, <2>1, <2>3, <2>4, <2>5
<1>14. ASSUME Fits(g), NEW j \in 1..Len(pages), NEW k \in 1..Len(pages),
              pages[j] = pages[k]
       PROVE  j = k
  <2>1. j \in 1..b + d + e /\ k \in 1..b + d + e /\ e + c + d < NPages
    BY <1>3, <1>10, <1>14
  <2>2. /\ j \in Int /\ j >= 1 /\ j <= b + d + e
        /\ k \in Int /\ k >= 1 /\ k <= b + d + e
    BY <1>5, <2>1
  <2>3. \/ j <= b /\ pages[j] = a + j - 1
        \/ j > b /\ j <= b + d /\ pages[j] = c + (j - b) - 1
        \/ j > b + d /\ pages[j] = NPages - (j - (b + d))
    BY <1>12, <2>1
  <2>4. \/ k <= b /\ pages[k] = a + k - 1
        \/ k > b /\ k <= b + d /\ pages[k] = c + (k - b) - 1
        \/ k > b + d /\ pages[k] = NPages - (k - (b + d))
    BY <1>12, <2>1
  <2> QED BY <1>0, <1>5, <1>14, <2>1, <2>2, <2>3, <2>4
<1>15. \A n : \A old \in Int : HeapLoaded(g, n, old) \in Int BY <1>4, <1>5
<1>16. \A n : \A old \in -1..NPages - 1 : StackLoaded(g, n, old) \in -1..NPages - 1
  <2>1. NPages - 1 - e \in -1..NPages - 1 BY <1>0, <1>5
  <2> QED BY <1>4, <2>1
<1> QED BY <1>10, <1>11, <1>13, <1>14, <1>15, <1>16 DEF pages, b, d, e

LEMMA ExecInv ==
    ASSUME Inv, NEW p \in Pid, NEW g \in Programs, Exec(p, g)
    PROVE  Inv'
<1> DEFINE t == page_table[p]
           t0 == Cleared(t)
           free == Push(ValidPfns(t, UserPages), free_frames)
           pages == ProgramPages(g)
           n == Granted(free, Len(pages))
           t1 == Mapped(t0, pages, free)
           f1 == Left(free, Len(pages))
<1>1. /\ Calls(p) /\ calls < MaxCalls /\ calls' = calls + 1 /\ Fits(g)
      /\ page_table' = [page_table EXCEPT ![p] = t1]
      /\ free_frames' = f1
      /\ next_heap_pn' = [next_heap_pn EXCEPT ![p] = HeapLoaded(g, n, @)]
      /\ next_stack_pn' = [next_stack_pn EXCEPT ![p] = StackLoaded(g, n, @)]
      /\ kstack' = IF Loaded(g, n) THEN return_initial_state ELSE kstack
      /\ resumed' = IF Loaded(g, n) THEN resumed \ {p} ELSE resumed
      /\ UNCHANGED <<schedVars, next_pid, kernelVars, content, panic>>
  BY DEF Exec, Counted
<1>2. calls' \in 0..MaxCalls BY <1>1, MemoryAssumption DEF Inv, TypeOK
<1>3. /\ ~panic /\ p = active_proc
      /\ page_table \in [Pid -> Table] /\ free_frames \in Seq(Frame)
      /\ t \in [Page -> Frame \cup {NoFrame}]
      /\ \A i \in StackPages : t[i] \in Frame \ {0}
      /\ Once(t) /\ Once(free_frames) /\ Apart(t, free_frames)
      /\ next_heap_pn \in [Pid -> Int] /\ next_stack_pn \in [Pid -> -1..NPages - 1]
      /\ StackPages \subseteq Page /\ NPages \in Nat
  BY <1>1, CallFacts
<1>4. /\ t0 \in [Page -> Frame \cup {NoFrame}]
      /\ \A i \in Page : t0[i] = IF i \in UserPages THEN NoFrame ELSE t[i]
      /\ UserPages \in SUBSET Page
      /\ \A i \in StackPages : t0[i] = t[i]
  <2>1. \A i \in Page : i < NPages <=> i \in UserPages
    BY <1>3 DEF Page, UserPages
  <2>2. t0 = [i \in Page |-> IF i < NPages THEN NoFrame ELSE t[i]]
    BY DEF Cleared
  <2>3. \A i \in StackPages : i \in Page /\ i \notin UserPages
    BY <1>3 DEF StackPages, Page, UserPages
  <2>4. UserPages \in SUBSET Page BY <1>3 DEF UserPages, Page
  <2> HIDE DEF t0
  <2> QED BY <1>3, <2>1, <2>2, <2>3, <2>4
<1> HIDE DEF t0
<1>5. free \in Seq(Frame) /\ Moved(t, free_frames, t0, free)
  BY <1>3, <1>4, GiveFacts
<1>6. Len(pages) \in Nat BY ProgramFacts
<1> HIDE DEF free, pages, n
<1>7. Moved(t0, free, t1, f1)
  <2>1. Once(t0) /\ Once(free) /\ Apart(t0, free) BY <1>5 DEF Moved
  <2> QED BY <1>4, <1>5, <1>6, <2>1, TakeFacts
<1>8. Moved(t, free_frames, t1, f1) BY <1>5, <1>7, MovedTwice
<1>9. /\ t1 \in [Page -> Frame \cup {NoFrame}]
      /\ \A i \in Page : t0[i] \in Frame \ {0} => t1[i] \in Frame \ {0}
  <2>1. MapsMore(Page, t0, pages, n, t1) BY <1>4, <1>5, <1>6, StillMapped DEF n
  <2> HIDE DEF t1
  <2> QED BY <2>1 DEF MapsMore
<1>10. f1 \in Seq(Frame) BY <1>5, <1>6, LeftFacts
<1> HIDE DEF t1, f1
<1>11. /\ page_table' \in [Pid -> Table] /\ page_table'[p] = t1
       /\ \A q \in Pid : q # p => page_table'[q] = page_table[q]
  BY <1>1, <1>3, <1>9 DEF Table
<1>12. next_heap_pn' \in [Pid -> Int] /\ next_stack_pn' \in [Pid -> -1..NPages - 1]
  <2>1. /\ HeapLoaded(g, n, next_heap_pn[p]) \in Int
        /\ StackLoaded(g, n, next_stack_pn[p]) \in -1..NPages - 1
    BY <1>3, ProgramFacts
  <2> QED BY <1>1, <1>3, <2>1
<1>13. \A i \in StackPages : page_table'[p][i] \in Frame \ {0}
  BY <1>3, <1>4, <1>9, <1>11
<1>14. /\ Moved(page_table[p], free_frames, page_table'[p], free_frames')
       /\ free_frames' \in Seq(Frame)
  BY <1>1, <1>8, <1>10, <1>11
<1>15. \/ UNCHANGED <<kstack, resumed>>
       \/ kstack' = <<Initial, Initial>> /\ resumed' = resumed \ {p}
  <2>1. return_initial_state = <<Initial, Initial>>
    <3>1. \A i \in 1..2 : content[initial_ks[i]] = Initial
      BY <1>3 DEF Inv, Going, StacksKept
    <3>2. return_initial_state = [i \in 1..2 |-> Initial]
      BY <3>1 DEF return_initial_state
    <3> QED BY <3>2
  <2> QED BY <1>1, <2>1
<1> QED BY <1>1, <1>2, <1>3, <1>11, <1>12, <1>13, <1>14, <1>15, OwnTableInv

LEMMA WakeInv ==
    ASSUME Inv, NEW p \in Pid, Wake(p)
    PROVE  Inv'
<1>1. /\ ~panic /\ p \in Blocked /\ ready_queue' = Append(ready_queue, p)
      /\ active_proc' = active_proc
      /\ free_frames' = free_frames /\ next_pid' = next_pid
      /\ page_table' = page_table /\ next_heap_pn' = next_heap_pn
      /\ next_stack_pn' = next_stack_pn /\ krnl_page_table' = krnl_page_table
      /\ kernel_brk' = kernel_brk /\ initial_ks' = initial_ks
      /\ content' = content /\ kstack' = kstack /\ resumed' = resumed
      /\ panic' = panic /\ calls' = calls
  BY DEF Wake, tables, kernelVars, stackVars
<1>2. TypeOK /\ Queued /\ Born /\ StacksKept BY <1>1 DEF Inv, Going
<1>3. p \in resumed /\ p # active_proc /\ p \notin On(ready_queue)
  BY <1>1 DEF Blocked
<1>4. ready_queue \in Seq(Pid) BY <1>2 DEF TypeOK
<1>5. /\ ready_queue' \in Seq(Pid) /\ On(ready_queue') = On(ready_queue) \cup {p}
      /\ NoDup(ready_queue')
  BY <1>1, <1>2, <1>3, <1>4, AppendFacts DEF Queued
<1>6. TypeOK' BY <1>1, <1>2, <1>5 DEF TypeOK
<1>7. Exclusive(Holdings)' BY <1>1 DEF Inv, Holdings, Held, Exclusive
<1>8. HeapHeld' BY <1>1 DEF Inv, HeapHeld, KernelHeapMapped
<1>9. Unborn' BY <1>1 DEF Inv, Unborn
<1>10. Queued' BY <1>1, <1>2, <1>3, <1>5 DEF Queued
<1>11. Born' BY <1>1, <1>2, <1>3, <1>5 DEF Born
<1>12. StacksKept'
  <2>1. On(ready_queue') \ resumed' = On(ready_queue) \ resumed
    BY <1>1, <1>3, <1>5
  <2> QED BY <1>1, <1>2, <2>1 DEF StacksKept, StackIs
<1>13. Going' BY <1>10, <1>11, <1>12 DEF Going
<1>14. OwnStack' BY <1>1 DEF Inv, OwnStack
<1> QED BY <1>6, <1>7, <1>8, <1>9, <1>13, <1>14 DEF Inv

----------------------------------------------------------------------------
(* SetKernelBrk *)

LEMMA KernelBrkInv ==
    ASSUME Inv, NEW addr \in KernelBrks, SetKernelBrk(addr)
    PROVE  Inv'
<1> DEFINE lo == DownToPage(kernel_brk)
           hi == DownToPage(addr)
           pages == Up(lo, hi - lo)
           n == Granted(free_frames, Len(pages))
           kt == krnl_page_table
           kt1 == Mapped(kt, pages, free_frames)
           f1 == Left(free_frames, Len(pages))
<1>1. /\ ~panic /\ addr > kernel_brk /\ addr < StackBase * PAGESIZE
      /\ krnl_page_table' = kt1 /\ free_frames' = f1
      /\ kernel_brk' = IF n = Len(pages) THEN addr ELSE kernel_brk
      /\ active_proc' = active_proc /\ ready_queue' = ready_queue
      /\ next_pid' = next_pid
      /\ page_table' = page_table /\ next_heap_pn' = next_heap_pn
      /\ next_stack_pn' = next_stack_pn /\ initial_ks' = initial_ks
      /\ content' = content /\ kstack' = kstack /\ resumed' = resumed
      /\ panic' = panic /\ calls' = calls
  BY DEF SetKernelBrk, NewKernelBrk, schedVars, tables, stackVars
<1>2. /\ free_frames \in Seq(Frame) /\ kernel_brk \in Nat
      /\ kt \in [0..StackBase - 1 -> Frame \cup {NoFrame}]
  BY DEF Inv, TypeOK
<1>3. addr \in Nat /\ StackBase \in Int /\ PAGESIZE \in Nat
  BY MemoryAssumption DEF StackBase
<1>4. /\ lo \in Nat /\ hi \in Nat /\ lo <= hi /\ hi < StackBase
  <2>1. lo \in Nat
    <3>1. kernel_brk \in Int /\ kernel_brk >= 0 BY <1>2
    <3> QED BY <3>1, PageFacts
  <2>2. hi \in Nat /\ hi < StackBase BY <1>1, <1>3, PageFacts
  <2>3. lo <= hi BY <1>1, <1>2, <1>3, PageFacts
  <2> QED BY <2>1, <2>2, <2>3
<1> HIDE DEF lo, hi
<1>5. Len(pages) = hi - lo /\ \A k \in 1..hi - lo : pages[k] = lo + k - 1
  <2>1. pages = [k \in 1..hi - lo |-> lo + k - 1] BY DEF Up
  <2>2. hi - lo \in Nat BY <1>4
  <2>3. pages \in [1..hi - lo -> Int] BY <1>4, <2>1
  <2> HIDE DEF pages
  <2> QED BY <2>1, <2>2, <2>3
<1>6. Len(pages) \in Nat BY <1>4, <1>5
<1> HIDE DEF pages
<1>7. /\ kt1 \in [0..StackBase - 1 -> Frame \cup {NoFrame}]
      /\ \A i \in 0..StackBase - 1 : kt[i] # NoFrame => kt1[i] # NoFrame
      /\ \A k \in 1..n : pages[k] \in 0..StackBase - 1 =>
            kt1[pages[k]] \in Frame \ {0}
  <2>1. MapsMore(0..StackBase - 1, kt, pages, n, kt1)
    BY <1>2, <1>6, StillMapped
  <2> HIDE DEF kt1, n
  <2> QED BY <2>1 DEF MapsMore
<1>8. f1 \in Seq(Frame) BY <1>2, <1>6, LeftFacts
<1>9. Moved(kt, free_frames, kt1, f1)
  <2>1. Once(kt) /\ Once(free_frames) /\ Apart(kt, free_frames)
    BY ApartFacts DEF Inv, Holdings, Apartness
  <2> QED BY <1>2, <1>6, <2>1, TakeFacts
<1> HIDE DEF kt1, f1, n
<1>10. TypeOK' BY <1>1, <1>2, <1>3, <1>7, <1>8 DEF Inv, TypeOK
<1>11. Exclusive(Holdings)'
  <2>1. Exclusive(Held(page_table, free_frames, kt, initial_ks))
    BY DEF Inv, Holdings
  <2>2. Exclusive(Held(page_table, f1, kt1, initial_ks))
    BY <1>9, <2>1, KernelMoves
  <2>3. Holdings' = Held(page_table, f1, kt1, initial_ks)
    BY <1>1 DEF Holdings, Held
  <2> QED BY <2>2, <2>3 DEF Exclusive
<1>12. HeapHeld'
  <2>1. lo <= StackBase /\ \A i \in 0..lo - 1 : kt[i] # NoFrame
    BY DEF Inv, HeapHeld, KernelHeapMapped, lo
  <2>2. \A i \in 0..lo - 1 : i \in 0..StackBase - 1 /\ kt1[i] # NoFrame
    BY <1>3, <1>4, <1>7, <2>1
  <2>3. CASE n = Len(pages)
    <3>1. DownToPage(kernel_brk') = hi BY <1>1, <2>3 DEF hi
    <3>2. ASSUME NEW i \in 0..hi - 1 PROVE kt1[i] # NoFrame
      <4>1. CASE i < lo
        <5>1. i \in 0..lo - 1 BY <1>4, <4>1
        <5> QED BY <2>2, <5>1
      <4>2. CASE i >= lo
        <5>1. i - lo + 1 \in 1..hi - lo /\ lo + (i - lo + 1) - 1 = i
          BY <1>4, <4>2
        <5>2. pages[i - lo + 1] = i BY <1>5, <5>1
        <5>3. i \in 0..StackBase - 1 BY <1>3, <1>4
        <5>4. i - lo + 1 \in 1..n BY <1>5, <2>3, <5>1
        <5>5. kt1[i] \in Frame BY <1>7, <5>2, <5>3, <5>4
        <5> QED BY <5>5 DEF Frame, NoFrame
      <4> QED BY <1>4, <4>1, <4>2
    <3>3. hi <= StackBase BY <1>3, <1>4
    <3> QED BY <1>1, <3>1, <3>2, <3>3 DEF HeapHeld, KernelHeapMapped
  <2>4. CASE n # Len(pages)
    <3>1. DownToPage(kernel_brk') = lo BY <1>1, <2>4 DEF lo
    <3> QED BY <1>1, <2>1, <2>2, <3>1 DEF HeapHeld, KernelHeapMapped
  <2> QED BY <2>3, <2>4
<1>13. Unborn' BY <1>1 DEF Inv, Unborn
<1>14. Going'
  BY <1>1 DEF Inv, Going, Queued, Born, StacksKept, StackIs
<1>15. OwnStack' BY <1>1 DEF Inv, OwnStack
<1> QED BY <1>10, <1>11, <1>12, <1>13, <1>14, <1>15 DEF Inv

----------------------------------------------------------------------------
(* sys_Fork *)

ForkPages(p) == KStack \o CopyPages(p)

\* The pages of a child: two for its kernel stack, then user pages.
ForkOrder(pages) ==
    /\ Len(pages) \in Nat /\ Len(pages) >= 2
    /\ pages[1] = NPages /\ pages[2] = NPages + 1
    /\ \A k \in 3..Len(pages) : pages[k] \in UserPages
    /\ \A j, k \in 1..Len(pages) : pages[j] = pages[k] => j = k

LEMMA ForkPagesFacts ==
    ASSUME NEW p \in Pid, page_table \in [Pid -> Table]
    PROVE  ForkOrder(ForkPages(p))
<1> DEFINE t == page_table[p]
           V == {i \in UserPages : t[i] # NoFrame}
           v == InOrder(V)
           pages == ForkPages(p)
           m == Len(v)
<1>0. NPages \in Nat /\ NPages # 0 BY MemoryAssumption
<1>1. V \in SUBSET UserPages OBVIOUS
<1>2. CopyPages(p) = v BY DEF CopyPages, ValidPages
<1>3. Enumerates(v, V)
  <2> DEFINE N == NPages - 1
  <2>1. N \in Nat /\ V \in SUBSET (0..N) BY <1>0, <1>1 DEF UserPages
  <2> HIDE DEF N, V
  <2> QED BY <2>1, InOrderFacts
<1> HIDE DEF v
<1>4. /\ v \in Seq(V) /\ m \in Nat /\ \A k \in 1..m : v[k] \in V
      /\ \A j, k \in 1..m : v[j] = v[k] => j = k
  <2> HIDE DEF V
  <2> QED BY <1>3 DEF Enumerates
<1>5. v \in Seq(Int) /\ \A k \in 1..m : v[k] \in UserPages
  <2>1. \A k \in 1..m : v[k] \in UserPages BY <1>1, <1>4
  <2>2. \A i \in V : i \in Int BY DEF UserPages
  <2> HIDE DEF V
  <2>3. v \in Seq(Int) BY <1>4, <2>2
  <2> QED BY <2>1, <2>3
<1>6. /\ KStack \in Seq(Int) /\ Len(KStack) = 2
      /\ KStack[1] = NPages /\ KStack[2] = NPages + 1
  BY <1>0 DEF KStack
<1>7. pages = KStack \o v BY <1>2 DEF ForkPages
<1>8. Joins(pages, KStack, v) BY <1>5, <1>6, <1>7, JoinFacts
<1> HIDE DEF pages, m, V
<1>9. /\ Len(pages) = 2 + m /\ pages[1] = NPages /\ pages[2] = NPages + 1
      /\ \A k \in 1..m : pages[2 + k] = v[k]
  BY <1>6, <1>8 DEF Joins, m
<1>10. Len(pages) \in Nat /\ Len(pages) >= 2 BY <1>4, <1>9
<1>11. ASSUME NEW k \in 3..Len(pages)
       PROVE  k - 2 \in 1..m /\ pages[k] = v[k - 2] /\ pages[k] \in UserPages
  <2>1. k - 2 \in 1..m /\ 2 + (k - 2) = k BY <1>4, <1>9
  <2> QED BY <1>5, <1>9, <2>1
<1>12. NPages \notin UserPages /\ NPages + 1 \notin UserPages /\ NPages # NPages + 1
  BY <1>0 DEF UserPages
<1>13. ASSUME NEW j \in 1..Len(pages), NEW k \in 1..Len(pages), pages[j] = pages[k]
       PROVE  j = k
  <2>1. /\ j \in Int /\ (j = 1 \/ j = 2 \/ j \in 3..Len(pages))
        /\ k \in Int /\ (k = 1 \/ k = 2 \/ k \in 3..Len(pages))
    BY <1>10
  <2>2. CASE j \in 3..Len(pages) /\ k \in 3..Len(pages)
    <3>1. v[j - 2] = v[k - 2] /\ j - 2 \in 1..m /\ k - 2 \in 1..m
      BY <1>11, <1>13, <2>2
    <3>2. j - 2 = k - 2 BY <1>4, <3>1
    <3> QED BY <2>1, <3>2
  <2>3. CASE j \notin 3..Len(pages) /\ k \notin 3..Len(pages)
    BY <1>9, <1>12, <1>13, <2>1, <2>3
  <2>4. CASE j \in 3..Len(pages) /\ k \notin 3..Len(pages)
    BY <1>9, <1>11, <1>12, <1>13, <2>1, <2>4
  <2>5. CASE j \notin 3..Len(pages) /\ k \in 3..Len(pages)
    BY <1>9, <1>11, <1>12, <1>13, <2>1, <2>5
  <2> QED BY <2>2, <2>3, <2>4, <2>5
<1>14. \A k \in 3..Len(pages) : pages[k] \in UserPages BY <1>11
<1> QED BY <1>9, <1>10, <1>13, <1>14 DEF ForkOrder, pages

\* The table of the child.
ChildTable(pages, free) ==
    LET n == Granted(free, Len(pages))
        mapped == Mapped(NoPages, pages, free)
    IN  IF n = Len(pages) THEN mapped ELSE [mapped EXCEPT ![pages[n + 1]] = 0]

(* The frames of a child, also of one that is not finished. *)
LEMMA ChildFacts ==
    ASSUME NEW pages, ForkOrder(pages), NEW free \in Seq(Frame), Once(free),
           Granted(free, Len(pages)) >= 2
    PROVE  LET child == ChildTable(pages, free)
               f1 == Left(free, Len(pages)) IN
           /\ child \in Table /\ f1 \in Seq(Frame)
           /\ \A i \in StackPages : child[i] \in Frame \ {0}
           /\ Moved(NoPages, free, child, f1)
<1> DEFINE n == Granted(free, Len(pages))
           mapped == Mapped(NoPages, pages, free)
           child == ChildTable(pages, free)
           f1 == Left(free, Len(pages))
<1>0. NPages \in Nat /\ NPages # 0 BY MemoryAssumption
<1>1. Len(pages) \in Nat /\ n \in 0..Len(pages) /\ n >= 2
  BY GrantedFacts DEF ForkOrder
<1>2. /\ NoPages \in [Page -> Frame \cup {NoFrame}]
      /\ \A i \in Page : NoPages[i] = NoFrame
      /\ StackPages \subseteq Page
  BY <1>0 DEF NoPages, StackPages, Page
<1>3. Once(NoPages) /\ Apart(NoPages, free)
  BY <1>2 DEF Once, Apart
<1>4. MapsMore(Page, NoPages, pages, n, mapped) BY <1>1, <1>2, StillMapped
<1>5. /\ DOMAIN NoPages = Page /\ DOMAIN mapped = Page /\ f1 \in Seq(Frame)
      /\ \E off \in Nat : Draws(NoPages, free, mapped, f1, off, pages)
  BY <1>1, <1>2, MappedDraws
<1>6. PICK off \in Nat : Draws(NoPages, free, mapped, f1, off, pages) BY <1>5
<1>7. child = IF n = Len(pages) THEN mapped ELSE [mapped EXCEPT ![pages[n + 1]] = 0]
  BY DEF ChildTable
<1> HIDE DEF n, mapped, child, f1
<1>8. mapped \in [Page -> Frame \cup {NoFrame}] BY <1>4 DEF MapsMore
<1>9. /\ child \in [Page -> Frame \cup {NoFrame}]
      /\ \A i \in Page : child[i] = mapped[i] \/ child[i] \in {0, NoFrame}
  BY <1>7, <1>8, ZeroIsFrame
<1>10. ASSUME NEW i \in StackPages PROVE child[i] \in Frame \ {0}
  <2>1. /\ pages[1] = NPages /\ pages[2] = NPages + 1 /\ 1 \in 1..n /\ 2 \in 1..n
    BY <1>1 DEF ForkOrder
  <2>2. mapped[i] \in Frame \ {0}
    BY <1>2, <1>4, <2>1 DEF MapsMore, StackPages
  <2>3. child[i] = mapped[i]
    <3>1. CASE n = Len(pages) BY <1>7, <3>1
    <3>2. CASE n # Len(pages)
      <4>1. n + 1 \in 3..Len(pages) BY <1>1, <3>2
      <4>2. pages[n + 1] \in UserPages BY <4>1 DEF ForkOrder
      <4>3. i # pages[n + 1] BY <1>0, <4>2 DEF UserPages, StackPages
      <4> QED BY <1>2, <1>7, <1>8, <3>2, <4>3
    <3> QED BY <3>1, <3>2
  <2> QED BY <2>2, <2>3
<1>11. Draws(NoPages, free, child, f1, off, pages)
  <2>1. /\ \A i \in Page :
              \/ mapped[i] = NoPages[i] \/ mapped[i] \in {0, NoFrame}
              \/ \E k \in 1..off :
                    k <= Len(free) /\ pages[k] = i /\ mapped[i] = free[k]
        /\ \A k \in 1..Len(f1) : off + k \in 1..Len(free) /\ f1[k] = free[off + k]
    BY <1>5, <1>6 DEF Draws
  <2>2. ASSUME NEW i \in Page
        PROVE  \/ child[i] = NoPages[i] \/ child[i] \in {0, NoFrame}
               \/ \E k \in 1..off :
                     k <= Len(free) /\ pages[k] = i /\ child[i] = free[k]
    BY <1>9, <2>1
  <2> QED BY <1>5, <2>1, <2>2 DEF Draws
<1>12. Moved(NoPages, free, child, f1)
  <2>1. DOMAIN child = Page BY <1>9
  <2> QED BY <1>3, <1>5, <1>11, <2>1, DrawFacts
<1> QED BY <1>5, <1>9, <1>10, <1>12 DEF child, f1, Table

LEMMA ForkInv ==
    ASSUME Inv, NEW p \in Pid, Fork(p)
    PROVE  Inv'
<1> DEFINE pages == ForkPages(p)
           n == Granted(free_frames, Len(pages))
           child == ChildTable(pages, free_frames)
           f1 == Left(free_frames, Len(pages))
           C == Pid \cup {Junk, Initial}
           w == Written(child)
           c1 == CopiedTo(w, child)
           np == next_pid
<1>1. /\ Calls(p) /\ np <= MaxPid /\ active_proc' = active_proc /\ calls' = calls
  BY DEF Fork
<1>2. /\ ~panic /\ page_table \in [Pid -> Table] /\ free_frames \in Seq(Frame)
      /\ Once(free_frames)
  BY <1>1, CallFacts
<1>3. TypeOK /\ Queued /\ Born /\ StacksKept BY <1>2 DEF Inv, Going
<1>4. CASE Panic
  <2>1. UNCHANGED schedVars
    <3>1. ready_queue' = ready_queue
      BY <1>2, <1>4 DEF Fork, Panic
    <3> QED BY <1>1, <3>1 DEF schedVars
  <2>2. calls' \in 0..MaxCalls BY <1>1, <1>3 DEF TypeOK
  <2> QED BY <1>4, <2>1, <2>2, PanicInv
<1>5. CASE ~Panic
  <2>1. /\ n >= 2 /\ next_pid' = np + 1
        /\ page_table' = [page_table EXCEPT ![np] = child]
        /\ free_frames' = f1 /\ content' = c1
        /\ \/ /\ next_heap_pn' = [next_heap_pn EXCEPT ![np] = next_heap_pn[p]]
              /\ next_stack_pn' = [next_stack_pn EXCEPT ![np] = next_stack_pn[p]]
              /\ ready_queue' = Append(ready_queue, np)
           \/ /\ next_heap_pn' = next_heap_pn /\ next_stack_pn' = next_stack_pn
              /\ ready_queue' = ready_queue
        /\ UNCHANGED <<kernelVars, kstack, resumed, panic>>
    BY <1>5 DEF Fork, ForkPages, ChildTable
  <2>2. /\ kernel_brk' = kernel_brk /\ initial_ks' = initial_ks
        /\ krnl_page_table' = krnl_page_table /\ kstack' = kstack
        /\ resumed' = resumed /\ panic' = panic
    BY <2>1 DEF kernelVars
  <2>3. np \in 2..MaxPid + 1 /\ np \in Pid /\ np \in Int /\ np # active_proc
        /\ np \notin On(ready_queue) /\ np \notin resumed
    <3>1. np \in 2..MaxPid + 1 /\ MaxPid \in Nat BY <1>3, MemoryAssumption DEF TypeOK
    <3>2. np \in Pid /\ np \in Int /\ np \notin 0..np - 1
      BY <1>1, <3>1 DEF Pid
    <3> QED BY <1>3, <3>1, <3>2 DEF Born
  <2>4. page_table[np] = NoPages BY <2>3 DEF Inv, Unborn
  <2>5. ForkOrder(pages) BY <1>2, ForkPagesFacts
  <2> HIDE DEF pages
  <2>6. /\ child \in Table /\ f1 \in Seq(Frame)
        /\ \A i \in StackPages : child[i] \in Frame \ {0}
        /\ Moved(NoPages, free_frames, child, f1)
    BY <1>2, <2>1, <2>5, ChildFacts
  <2> HIDE DEF child, f1
  <2>7. /\ page_table' \in [Pid -> Table] /\ page_table'[np] = child
        /\ \A q \in Pid : q # np => page_table'[q] = page_table[q]
    BY <1>2, <2>1, <2>3, <2>6
  <2>8. PICK pt \in [Pid -> Table] : pt = page_table' BY <2>7
  <2>9. Exclusive(Held(pt, f1, krnl_page_table, initial_ks))
    <3>1. Exclusive(Held(page_table, free_frames, krnl_page_table, initial_ks))
      BY DEF Inv, Holdings
    <3>2. /\ \A q \in Pid : q # np => pt[q] = page_table[q]
          /\ Moved(page_table[np], free_frames, pt[np], f1)
      BY <2>4, <2>6, <2>7, <2>8
    <3> QED BY <2>3, <3>1, <3>2, ProcessMoves
  <2>10. initial_ks \in [1..2 -> Frame] /\ content \in [Frame -> C]
    BY <1>3 DEF TypeOK
  <2>11. TablesApart(pt, initial_ks) BY <2>9, <2>10, TablesFacts
  <2>12. /\ NPages \in Page /\ NPages + 1 \in Page /\ UserPages \subseteq Page
         /\ NPages # NPages + 1 /\ StackPages = {NPages, NPages + 1}
    BY MemoryAssumption DEF Page, UserPages, StackPages
  <2>13. w \in [Frame -> C] /\ \A f \in Frame :
            (\A i \in UserPages : child[i] # f) => w[f] = content[f]
    BY <2>10, WrittenFacts
  <2> DEFINE a == child[NPages]
             b == child[NPages + 1]
  <2>14. /\ c1 \in [Frame -> C]
         /\ \A f \in Frame : f # a /\ f # b => c1[f] = w[f]
         /\ b \in Frame => c1[b] = w[initial_ks[2]]
         /\ a \in Frame /\ a # b => c1[a] = w[initial_ks[1]]
    <3> HIDE DEF C, w
    <3> QED BY <2>10, <2>13, CopiedFacts
  <2> HIDE DEF w, c1
  <2>15. a \in Frame \ {0} /\ b \in Frame \ {0} /\ a # b
    <3>1. a \in Frame \ {0} /\ b \in Frame \ {0} BY <2>6, <2>12
    <3>2. a = pt[np][NPages] /\ b = pt[np][NPages + 1] BY <2>7, <2>8
    <3> QED BY <2>3, <2>11, <2>12, <3>1, <3>2 DEF TablesApart
  <2>16. ASSUME NEW f \in Frame \ {0}, \A i \in Page : child[i] # f
         PROVE  c1[f] = content[f]
    <3>1. f # a /\ f # b BY <2>12, <2>16
    <3>2. \A i \in UserPages : child[i] # f BY <2>12, <2>16
    <3> HIDE DEF a, b
    <3> QED BY <2>13, <2>14, <3>1, <3>2
  <2>17. ASSUME NEW j \in 1..2
         PROVE  /\ initial_ks[j] # 0 /\ c1[initial_ks[j]] = Initial
                /\ w[initial_ks[j]] = Initial
    <3>1. initial_ks[j] \in Frame \ {0} /\ content[initial_ks[j]] = Initial
      BY <1>3, <2>10 DEF StacksKept
    <3>2. \A i \in Page : child[i] # initial_ks[j]
      BY <2>3, <2>7, <2>8, <2>11, <3>1 DEF TablesApart
    <3>3. \A i \in UserPages : child[i] # initial_ks[j] BY <2>12, <3>2
    <3> QED BY <2>13, <2>16, <3>1, <3>2, <3>3
  <2>18. \A i \in StackPages : c1[child[i]] = Initial
    <3>1. 1 \in 1..2 /\ 2 \in 1..2 OBVIOUS
    <3>2. c1[a] = Initial /\ c1[b] = Initial BY <2>14, <2>15, <2>17, <3>1
    <3> QED BY <2>12, <3>2
  <2>19. ASSUME NEW q \in Pid, q # np, NEW c, StackIs(q, c)
         PROVE  \A i \in StackPages : pt[q][i] \in Frame \ {0} /\ c1[pt[q][i]] = c
    <3> TAKE i \in StackPages
    <3>1. pt[q] = page_table[q] BY <2>7, <2>8, <2>19
    <3>2. pt[q][i] \in Frame \ {0} /\ content[pt[q][i]] = c
      BY <2>19, <3>1 DEF StackIs
    <3>3. \A j \in Page : child[j] # pt[q][i]
      BY <2>3, <2>7, <2>8, <2>11, <2>12, <2>19, <3>2 DEF TablesApart
    <3> QED BY <2>16, <3>2, <3>3
  <2>20. /\ ready_queue' \in Seq(Pid) /\ NoDup(ready_queue')
         /\ \/ On(ready_queue') = On(ready_queue)
            \/ On(ready_queue') = On(ready_queue) \cup {np}
    <3>1. ready_queue \in Seq(Pid) /\ NoDup(ready_queue) BY <1>3 DEF TypeOK, Queued
    <3>2. CASE ready_queue' = ready_queue BY <3>1, <3>2
    <3>3. CASE ready_queue' = Append(ready_queue, np)
      BY <2>3, <3>1, <3>3, AppendFacts
    <3> QED BY <2>1, <3>2, <3>3
  <2>21. TypeOK'
    <3>1. /\ next_heap_pn' \in [Pid -> Int] /\ next_stack_pn' \in [Pid -> -1..NPages - 1]
      <4>1. /\ next_heap_pn \in [Pid -> Int]
            /\ next_stack_pn \in [Pid -> -1..NPages - 1]
        BY <1>3 DEF TypeOK
      <4> QED BY <2>1, <4>1
    <3>2. next_pid' \in 2..MaxPid + 1 BY <1>1, <2>1, <2>3, MemoryAssumption
    <3>3. content' \in [Frame -> Pid \cup {Junk, Initial}] BY <2>1, <2>14
    <3>4. free_frames' \in Seq(Frame) BY <2>1, <2>6
    <3> QED BY <1>1, <1>3, <2>2, <2>7, <2>20, <3>1, <3>2, <3>3, <3>4
        DEF TypeOK, Table
  <2>22. Exclusive(Holdings)'
    <3>1. Holdings' = Held(pt, f1, krnl_page_table, initial_ks)
      BY <2>1, <2>2, <2>8 DEF Holdings, Held
    <3> QED BY <2>9, <3>1 DEF Exclusive
  <2>23. HeapHeld' BY <2>2 DEF Inv, HeapHeld, KernelHeapMapped
  <2>24. Unborn'
    <3>1. ASSUME NEW q \in Pid, q >= np + 1 PROVE page_table'[q] = NoPages
      <4>1. q # np /\ q >= np BY <2>3, <3>1 DEF Pid
      <4> QED BY <2>7, <4>1 DEF Inv, Unborn
    <3> QED BY <2>1, <3>1 DEF Unborn
  <2>25. Queued' BY <1>1, <1>3, <2>3, <2>20 DEF Queued
  <2>26. Born'
    <3>1. 0..np - 1 \subseteq 0..np /\ np \in 0..np /\ np + 1 - 1 = np BY <2>3
    <3> QED BY <1>1, <1>3, <2>1, <2>2, <2>20, <3>1 DEF Born
  <2>27. StacksKept'
    <3>1. resumed \subseteq Pid /\ On(ready_queue) \subseteq Pid /\ active_proc \in Pid
      <4>1. ready_queue \in Seq(Pid) /\ active_proc \in Pid BY <1>3 DEF TypeOK
      <4>2. resumed \subseteq Pid BY <1>3 DEF TypeOK
      <4> QED BY <4>1, <4>2, OnSubset
    <3>2. \A i \in StackPages : pt[active_proc][i] \in Frame \ {0}
      <4>1. pt[active_proc] = page_table[active_proc] BY <2>3, <2>7, <2>8, <3>1
      <4> QED BY <1>3, <4>1 DEF StacksKept
    <3>3. ASSUME NEW q \in resumed \ {active_proc}
          PROVE  \A i \in StackPages : pt[q][i] \in Frame \ {0} /\ c1[pt[q][i]] = q
      <4>1. StackIs(q, q) /\ q \in Pid /\ q # np BY <1>3, <2>3, <3>1 DEF StacksKept
      <4> QED BY <2>19, <4>1
    <3>4. ASSUME NEW q \in On(ready_queue') \ resumed
          PROVE  \/ \A i \in StackPages : pt[q][i] = 0
                 \/ \A i \in StackPages :
                       pt[q][i] \in Frame \ {0} /\ c1[pt[q][i]] = Initial
      <4>1. CASE q = np BY <2>6, <2>7, <2>8, <2>18, <4>1
      <4>2. CASE q # np
        <5>1. q \in On(ready_queue) /\ q \in Pid BY <2>20, <3>1, <4>2
        <5>2. pt[q] = page_table[q] BY <2>7, <2>8, <4>2, <5>1
        <5>3. CASE \A i \in StackPages : page_table[q][i] = 0 BY <5>2, <5>3
        <5>4. CASE StackIs(q, Initial) BY <2>19, <4>2, <5>1, <5>4
        <5> QED BY <1>3, <5>1, <5>3, <5>4 DEF StacksKept
      <4> QED BY <4>1, <4>2
    <3> QED BY <1>1, <2>1, <2>2, <2>8, <2>17, <3>2, <3>3, <3>4
        DEF StacksKept, StackIs
  <2>28. Going' BY <2>25, <2>26, <2>27 DEF Going
  <2>29. OwnStack' BY <1>1, <2>2 DEF Inv, OwnStack
  <2> QED BY <2>21, <2>22, <2>23, <2>24, <2>28, <2>29 DEF Inv
<1> QED BY <1>4, <1>5

----------------------------------------------------------------------------
(* KernelStart *)

(* While there are frames and no frame 0 among them, all that are asked for
   are got. *)
LEMMA AllGranted ==
    ASSUME NEW free \in Seq(Frame \ {0}), NEW n \in Nat, n <= Len(free)
    PROVE  /\ Granted(free, n) = n /\ Left(free, n) \in Seq(Frame \ {0})
           /\ Len(Left(free, n)) = Len(free) - n
           /\ \A k \in 1..Len(free) - n : Left(free, n)[k] = free[n + k]
<1> DEFINE g == Granted(free, n)
<1>1. /\ g \in 0..n /\ g <= Len(free)
      /\ g < n => g = Len(free) \/ (g < Len(free) /\ free[g + 1] = 0)
  BY GrantedFacts
<1> HIDE DEF g
<1>2. g = n
  <2> SUFFICES ASSUME g # n PROVE FALSE OBVIOUS
  <2>1. g < n /\ g \in Nat /\ Len(free) \in Nat BY <1>1
  <2>2. g < Len(free) /\ free[g + 1] = 0 BY <1>1, <2>1
  <2>3. g + 1 \in 1..Len(free) BY <2>1, <2>2
  <2>4. free[g + 1] \in Frame \ {0} BY <2>3
  <2> QED BY <2>2, <2>4
<1>3. Left(free, n) = SubSeq(free, n + 1, Len(free)) BY <1>2 DEF Left, g
<1>4. n \in 0..Len(free) OBVIOUS
<1> DEFINE b == SubSeq(free, n + 1, Len(free))
<1>5. /\ b \in Seq(Frame \ {0}) /\ Len(b) = Len(free) - n
      /\ \A k \in 1..Len(free) - n : b[k] = free[n + k]
  BY <1>4, SubSeqFacts
<1> HIDE DEF b
<1>6. Left(free, n) = b BY <1>3 DEF b
<1> QED BY <1>2, <1>5, <1>6 DEF g

\* What the boot starts from.
Gathered(free) ==
    /\ free \in Seq(Frame \ {0})
    /\ \A j, k \in 1..Len(free) : free[j] = free[k] => j = k
    /\ \A k \in 1..Len(free) :
          free[k] \notin 0..DownToPage(BootBrk) - 1 /\ free[k] \notin StackBase..KPages - 1

(* The frames that are gathered are neither the kernel's nor its stack's. *)
LEMMA GatherFacts == Gathered(gather_free_frames)
<1> DEFINE T == TotalFrames
           u == UpToPage(BootBrk)
           dn == DownToPage(BootBrk)
           m == T - KPages
           n == StackBase - u
           A == Down(T - 1, m)
           B == Down(StackBase - 1, n)
           free == gather_free_frames
<1>1. /\ T \in Nat /\ KPages \in Nat /\ KPages <= T /\ u <= StackBase
      /\ StackBase = KPages - 2
  BY MemoryAssumption DEF StackBase
<1>2. /\ u \in Int /\ dn \in Int /\ dn >= 1 /\ dn <= u
  BY MemoryAssumption, PageFacts
<1>3. free = A \o B BY DEF gather_free_frames
<1> HIDE DEF T, u, dn
<1>4. m \in Nat /\ n \in Nat /\ StackBase \in Int BY <1>1, <1>2
<1> HIDE DEF free
<1>5. /\ A = [k \in 1..m |-> T - 1 - k + 1] /\ B = [k \in 1..n |-> StackBase - 1 - k + 1]
  BY DEF Down
<1>6. /\ A \in [1..m -> Frame \ {0}] /\ B \in [1..n -> Frame \ {0}]
  <2>1. \A f : f \in Frame <=> f \in 0..T - 1 BY DEF Frame, T
  <2>2. \A k \in 1..m : T - 1 - k + 1 \in 0..T - 1 /\ T - 1 - k + 1 # 0
    BY <1>1, <1>2, <1>4
  <2>3. \A k \in 1..n : StackBase - 1 - k + 1 \in 0..T - 1 /\ StackBase - 1 - k + 1 # 0
    BY <1>1, <1>2, <1>4
  <2> QED BY <1>5, <2>1, <2>2, <2>3
<1>7. /\ \A k \in 1..m : A[k] = T - k
      /\ \A k \in 1..n : B[k] = StackBase - k
  BY <1>1, <1>4, <1>5
<1> HIDE DEF A, B
<1>8. /\ A \in Seq(Frame \ {0}) /\ Len(A) = m
      /\ B \in Seq(Frame \ {0}) /\ Len(B) = n
  BY <1>4, <1>6
<1> HIDE DEF m, n
<1>9. free \in Seq(Frame \ {0}) /\ Joins(free, A, B) BY <1>3, <1>8, JoinFacts
<1>10. /\ Len(free) = m + n
       /\ \A k \in 1..m : free[k] = T - k
       /\ \A k \in 1..n : free[m + k] = StackBase - k
  BY <1>7, <1>8, <1>9 DEF Joins
<1>11. ASSUME NEW k \in 1..Len(free)
       PROVE  \/ k <= m /\ free[k] = T - k
              \/ k > m /\ k - m <= n /\ free[k] = StackBase - (k - m)
  <2>1. k \in Int /\ k >= 1 /\ k <= m + n BY <1>4, <1>10
  <2>2. CASE k <= m
    <3>1. k \in 1..m BY <1>4, <2>1, <2>2
    <3> QED BY <1>10, <2>2, <3>1
  <2>3. CASE k > m
    <3>1. k - m \in 1..n /\ m + (k - m) = k /\ k - m <= n BY <1>4, <2>1, <2>3
    <3>2. free[m + (k - m)] = StackBase - (k - m) BY <1>10, <3>1
    <3>3. free[k] = StackBase - (k - m) BY <3>1, <3>2
    <3> QED BY <2>3, <3>1, <3>3
  <2> QED BY <1>4, <2>1, <2>2, <2>3
<1>12. m = T - KPages /\ n = StackBase - u BY DEF m, n
<1>13. \A k \in 1..Len(free) : k \in Int /\ k >= 1 BY <1>4, <1>10
<1>14. ASSUME NEW j \in 1..Len(free), NEW k \in 1..Len(free), free[j] = free[k]
       PROVE  j = k
  BY <1>1, <1>2, <1>4, <1>11, <1>12, <1>13, <1>14
<1>15. ASSUME NEW k \in 1..Len(free)
       PROVE  free[k] \notin 0..dn - 1 /\ free[k] \notin StackBase..KPages - 1
  BY <1>1, <1>2, <1>4, <1>11, <1>12, <1>13
<1> QED BY <1>9, <1>14, <1>15 DEF Gathered, free, dn

NoTables == [p \in Pid |-> NoPages]
NoStack == [i \in 1..2 |-> NoFrame]

(* Before the first frame is handed out. *)
LEMMA GatheredExclusive ==
    ASSUME NEW free, Gathered(free)
    PROVE  Exclusive(Held(NoTables, free, enable_vmem, NoStack))
<1> DEFINE H == Held(NoTables, free, enable_vmem, NoStack)
           L == [i \in StackBase..KPages - 1 |-> i]
           dn == DownToPage(BootBrk)
<1>1. /\ H[FreeList] = free /\ H[Kernel] = enable_vmem /\ H[FirstStack] = NoStack
      /\ H[LiveStack] = L
      /\ \A q \in Pid : H[q] = NoTables[q]
  BY HeldFacts
<1>2. /\ {FreeList, Kernel, FirstStack, LiveStack} \cup Pid = Holder
  BY HeldFacts
<1> HIDE DEF H
<1>3. /\ free \in Seq(Frame \ {0})
      /\ \A j, k \in 1..Len(free) : free[j] = free[k] => j = k
      /\ \A k \in 1..Len(free) : free[k] \notin 0..dn - 1
                                 /\ free[k] \notin StackBase..KPages - 1
  BY DEF Gathered
<1>4. /\ dn \in Int /\ dn <= StackBase /\ StackBase \in Int /\ KPages \in Nat
      /\ dn >= 1
  <2>1. dn \in Int /\ dn <= UpToPage(BootBrk) /\ UpToPage(BootBrk) \in Int /\ dn >= 1
    BY MemoryAssumption, PageFacts
  <2>2. UpToPage(BootBrk) <= StackBase /\ StackBase \in Int /\ KPages \in Nat
    BY MemoryAssumption DEF StackBase
  <2> QED BY <2>1, <2>2
<1> HIDE DEF dn
<1>5. /\ DOMAIN enable_vmem = 0..StackBase - 1
      /\ \A i \in 0..StackBase - 1 :
            enable_vmem[i] = IF i < dn THEN i ELSE NoFrame
  BY DEF enable_vmem, dn
<1>6. DOMAIN L = StackBase..KPages - 1 /\ \A i \in StackBase..KPages - 1 : L[i] = i
  OBVIOUS
<1>7. DOMAIN free = 1..Len(free) /\ Len(free) \in Nat BY <1>3
<1> HIDE DEF L
<1>8. ASSUME NEW d \in Holder
      PROVE  \/ d = FreeList \/ d = Kernel \/ d = LiveStack
             \/ \A i \in DOMAIN H[d] : H[d][i] = NoFrame
  <2>1. CASE d = FirstStack BY <1>1, <2>1 DEF NoStack
  <2>2. CASE d \in Pid
    <3>1. H[d] = NoPages BY <1>1, <2>2 DEF NoTables
    <3>2. \A i \in DOMAIN NoPages : NoPages[i] = NoFrame BY DEF NoPages
    <3> QED BY <3>1, <3>2
  <2> QED BY <1>2, <2>1, <2>2
<1>9. Once(free) BY <1>3, <1>7 DEF Once
<1>10. Once(enable_vmem) BY <1>5 DEF Once
<1>11. Once(L) BY <1>6 DEF Once
<1>12. ASSUME NEW d \in Holder PROVE Once(H[d])
  <2>1. CASE \A i \in DOMAIN H[d] : H[d][i] = NoFrame BY <2>1 DEF Once
  <2> QED BY <1>1, <1>8, <1>9, <1>10, <1>11, <2>1
<1>13. ASSUME NEW t, NEW v PROVE Apart(t, v) => Apart(v, t) BY DEF Apart
<1>14. Apart(free, enable_vmem)
  <2>1. ASSUME NEW k \in 1..Len(free), NEW i \in 0..StackBase - 1,
               free[k] = enable_vmem[i]
        PROVE  free[k] \in {0, NoFrame}
    <3>1. CASE i < dn
      <4>1. i \in 0..dn - 1 /\ enable_vmem[i] = i BY <1>4, <1>5, <3>1
      <4> QED BY <1>3, <2>1, <4>1
    <3>2. CASE ~(i < dn) BY <1>5, <2>1, <3>2
    <3> QED BY <3>1, <3>2
  <2> QED BY <1>5, <1>7, <2>1 DEF Apart
<1>15. Apart(free, L) BY <1>3, <1>6, <1>7 DEF Apart
<1>16. Apart(enable_vmem, L)
  <2>1. ASSUME NEW k \in StackBase..KPages - 1, NEW i \in 0..StackBase - 1,
               enable_vmem[i] = k
        PROVE  enable_vmem[i] \in {0, NoFrame}
    BY <1>4, <1>5, <2>1
  <2> QED BY <1>5, <1>6, <2>1 DEF Apart
<1>17. ASSUME NEW d \in Holder, NEW e \in Holder, d # e PROVE Apart(H[d], H[e])
  <2>1. CASE \A i \in DOMAIN H[d] : H[d][i] = NoFrame BY <2>1 DEF Apart
  <2>2. CASE \A i \in DOMAIN H[e] : H[e][i] = NoFrame BY <2>2 DEF Apart
  <2>3. CASE d \in {FreeList, Kernel, LiveStack} /\ e \in {FreeList, Kernel, LiveStack}
    BY <1>1, <1>13, <1>14, <1>15, <1>16, <1>17, <2>3
  <2> QED BY <1>8, <2>1, <2>2, <2>3
<1> QED BY <1>12, <1>17 DEF Exclusive, H

\* The lists of free frames after each of the three that take from them.
Free1 == Left(gather_free_frames, Len(InitPages))
Free2 == Left(Free1, Len(IdlePages))
Free3 == Left(Free2, 2)

InitTable == init_init(gather_free_frames)
IdleTable == init_idle(Free1)

(* There are enough frames for the boot. *)
LEMMA BootFacts ==
    /\ Len(InitPages) \in Nat /\ Len(IdlePages) \in Nat
    /\ InitPages[1] = NPages /\ InitPages[2] = NPages + 1 /\ Len(InitPages) >= 2
    /\ \A k \in 1..Len(IdlePages) : IdlePages[k] \in UserPages
    /\ gather_free_frames \in Seq(Frame \ {0})
    /\ Granted(gather_free_frames, Len(InitPages)) = Len(InitPages)
    /\ Free1 \in Seq(Frame \ {0}) /\ Free2 \in Seq(Frame \ {0})
    /\ Len(Free2) >= 2 /\ Granted(Free2, 2) = 2 /\ Free3 \in Seq(Frame \ {0})
<1> DEFINE free == gather_free_frames
           P == ProgramPages(InitProgram)
           a == Len(P)
           b == Len(IdlePages)
<1>1. InitProgram \in Programs /\ IdleProgram \in Programs
      /\ Fits(InitProgram) /\ Fits(IdleProgram)
  BY MemoryAssumption
<1>2. /\ a \in Nat /\ b \in Nat /\ \A k \in 1..b : IdlePages[k] \in UserPages
  BY <1>1, ProgramFacts DEF IdlePages
<1>3. free \in Seq(Frame \ {0}) BY GatherFacts DEF Gathered
<1>4. a + b + 4 <= Len(free) BY MemoryAssumption DEF BootFrames, IdlePages
<1>5. P \in Seq(Int)
  <2>1. InitProgram \in Program BY <1>1, MemoryAssumption
  <2>2. NPages \in Nat BY MemoryAssumption
  <2> DEFINE A == Up(InitProgram.text_pg1, InitProgram.t_npg)
             B == Up(InitProgram.data_pg1, InitProgram.data_npg)
             C == Down(NPages - 1, InitProgram.stack_npg)
  <2>3. /\ InitProgram.text_pg1 \in Nat /\ InitProgram.t_npg \in Nat
        /\ InitProgram.data_pg1 \in Nat /\ InitProgram.data_npg \in Nat
        /\ InitProgram.stack_npg \in Nat
    BY <2>1, <2>2 DEF Program
  <2>4. A \in Seq(Int)
    <3>1. A \in [1..InitProgram.t_npg -> Int] BY <2>3 DEF Up
    <3> QED BY <2>3, <3>1
  <2>5. B \in Seq(Int)
    <3>1. B \in [1..InitProgram.data_npg -> Int] BY <2>3 DEF Up
    <3> QED BY <2>3, <3>1
  <2>6. C \in Seq(Int)
    <3>1. C \in [1..InitProgram.stack_npg -> Int] BY <2>2, <2>3 DEF Down
    <3> QED BY <2>3, <3>1
  <2>7. P = A \o B \o C BY DEF ProgramPages
  <2> HIDE DEF A, B, C, P
  <2>8. A \o B \in Seq(Int) BY <2>4, <2>5
  <2> QED BY <2>6, <2>7, <2>8
<1>6. /\ Len(InitPages) = 2 + a /\ InitPages[1] = NPages /\ InitPages[2] = NPages + 1
  <2>1. /\ KStack \in Seq(Int) /\ Len(KStack) = 2
        /\ KStack[1] = NPages /\ KStack[2] = NPages + 1
    BY MemoryAssumption DEF KStack
  <2> HIDE DEF P
  <2>2. InitPages = KStack \o P BY DEF InitPages, P
  <2>3. Joins(InitPages, KStack, P) BY <1>5, <2>1, <2>2, JoinFacts
  <2> QED BY <2>1, <2>3 DEF Joins
<1>7. /\ Len(InitPages) \in Nat /\ Len(InitPages) <= Len(free) /\ Len(InitPages) >= 2
      /\ Len(free) \in Nat
  BY <1>2, <1>3, <1>4, <1>6
<1> HIDE DEF free, a, b
<1>8. /\ Granted(free, Len(InitPages)) = Len(InitPages)
      /\ Left(free, Len(InitPages)) \in Seq(Frame \ {0})
      /\ Len(Left(free, Len(InitPages))) = Len(free) - Len(InitPages)
  BY <1>3, <1>7, AllGranted
<1>9. Free1 \in Seq(Frame \ {0}) /\ Len(Free1) = Len(free) - Len(InitPages)
  BY <1>8 DEF Free1, free
<1>10. b <= Len(Free1) BY <1>2, <1>4, <1>6, <1>7, <1>9
<1>11. Left(Free1, b) \in Seq(Frame \ {0}) /\ Len(Left(Free1, b)) = Len(Free1) - b
  BY <1>2, <1>9, <1>10, AllGranted
<1>12. Free2 \in Seq(Frame \ {0}) /\ Len(Free2) = Len(Free1) - b
  BY <1>11 DEF Free2, b
<1>13. Len(Free2) >= 2 BY <1>2, <1>4, <1>6, <1>7, <1>9, <1>12
<1>14. Granted(Free2, 2) = 2 /\ Left(Free2, 2) \in Seq(Frame \ {0})
  BY <1>12, <1>13, AllGranted
<1> QED BY <1>2, <1>3, <1>6, <1>7, <1>8, <1>9, <1>12, <1>13, <1>14
    DEF free, b, Free3

(* The tables the boot leaves. *)
LEMMA BootTables ==
    /\ InitTable \in Table /\ \A i \in StackPages : InitTable[i] \in Frame \ {0}
    /\ IdleTable \in Table /\ \A i \in StackPages : IdleTable[i] = 0
    /\ Exclusive(Held([NoTables EXCEPT ![InitPid] = InitTable, ![Idle] = IdleTable],
                      Free3, enable_vmem, save_initial_kernel(Free2)))
    /\ save_initial_kernel(Free2) \in [1..2 -> Frame \ {0}]
<1> DEFINE free == gather_free_frames
           z == [NoPages EXCEPT ![NPages] = 0, ![NPages + 1] = 0]
           ks == save_initial_kernel(Free2)
           ptA == [NoTables EXCEPT ![InitPid] = InitTable]
           ptB == [ptA EXCEPT ![Idle] = IdleTable]
<1>0. /\ Len(InitPages) \in Nat /\ Len(IdlePages) \in Nat
      /\ InitPages[1] = NPages /\ InitPages[2] = NPages + 1 /\ Len(InitPages) >= 2
      /\ \A k \in 1..Len(IdlePages) : IdlePages[k] \in UserPages
      /\ gather_free_frames \in Seq(Frame \ {0})
      /\ Granted(gather_free_frames, Len(InitPages)) = Len(InitPages)
      /\ Free1 \in Seq(Frame \ {0}) /\ Free2 \in Seq(Frame \ {0})
      /\ Len(Free2) >= 2 /\ Granted(Free2, 2) = 2 /\ Free3 \in Seq(Frame \ {0})
  BY BootFacts
<1>1. /\ free \in Seq(Frame) /\ Free1 \in Seq(Frame) /\ Free2 \in Seq(Frame)
      /\ Free3 \in Seq(Frame)
  BY <1>0
<1>2. InitPid \in Pid /\ Idle \in Pid /\ InitPid # Idle
  BY MemoryAssumption DEF InitPid, Idle, Pid
<1>3. /\ NPages \in Nat /\ StackPages \subseteq Page /\ UserPages \subseteq Page
      /\ \A i \in StackPages : i \notin UserPages
  BY MemoryAssumption DEF StackPages, UserPages, Page
<1>4. /\ NoPages \in [Page -> Frame \cup {NoFrame}]
      /\ \A i \in Page : NoPages[i] = NoFrame
  BY DEF NoPages
<1>5. Once(NoPages) /\ \A u : Apart(NoPages, u)
  <2>1. DOMAIN NoPages = Page BY <1>4
  <2> QED BY <1>4, <2>1 DEF Once, Apart
<1>6. /\ z \in [Page -> Frame \cup {NoFrame}]
      /\ \A i \in Page : z[i] \in {0, NoFrame}
      /\ \A i \in StackPages : z[i] = 0
  <2>1. NPages \in Page /\ NPages + 1 \in Page BY <1>3 DEF StackPages
  <2>2. PICK F : F = Frame \cup {NoFrame} OBVIOUS
  <2>3. NoPages \in [Page -> F] /\ 0 \in F BY <1>4, <2>2, ZeroIsFrame
  <2>4. /\ z \in [Page -> F]
        /\ \A i \in Page : i # NPages /\ i # NPages + 1 => z[i] = NoPages[i]
        /\ z[NPages + 1] = 0 /\ z[NPages] = 0
    <3>1. NPages # NPages + 1 BY <1>3
    <3>2. PICK a \in Page : a = NPages BY <2>1
    <3>3. PICK b \in Page : b = NPages + 1 BY <2>1
    <3>4. a # b BY <3>1, <3>2, <3>3
    <3>5. z = [NoPages EXCEPT ![a] = 0, ![b] = 0] BY <3>2, <3>3
    <3> HIDE DEF z
    <3>6. /\ z \in [Page -> F] /\ \A i \in Page : i # a /\ i # b => z[i] = NoPages[i]
          /\ z[a] = 0 /\ z[b] = 0
      BY <2>3, <3>4, <3>5
    <3> QED BY <3>2, <3>3, <3>6
  <2>5. NPages # NPages + 1 BY <1>3
  <2> HIDE DEF z
  <2> QED BY <1>4, <2>1, <2>2, <2>4, <2>5 DEF StackPages
<1>7. InitTable = Mapped(NoPages, InitPages, free) BY DEF InitTable, init_init
<1>8. IdleTable = Mapped(z, IdlePages, Free1) BY DEF IdleTable, init_idle
<1>9. /\ InitTable \in Table /\ \A i \in StackPages : InitTable[i] \in Frame \ {0}
  <2>1. MapsMore(Page, NoPages, InitPages, Len(InitPages), InitTable)
    BY <1>0, <1>1, <1>4, <1>7, StillMapped
  <2>2. 1 \in 1..Len(InitPages) /\ 2 \in 1..Len(InitPages) BY <1>0
  <2> QED BY <1>0, <1>3, <2>1, <2>2 DEF MapsMore, Table, StackPages
<1> HIDE DEF z
<1>10. IdleTable \in Table
  <2>1. MapsMore(Page, z, IdlePages, Granted(Free1, Len(IdlePages)), IdleTable)
    BY <1>0, <1>1, <1>6, <1>8, StillMapped
  <2> QED BY <2>1 DEF MapsMore, Table
<1>11. \A i \in StackPages : IdleTable[i] = 0
  <2> DEFINE g == Granted(Free1, Len(IdlePages))
  <2>1. MapsTo(z, IdlePages, Free1, g, IdleTable)
    BY <1>0, <1>1, <1>6, <1>8, MappedFacts
  <2>2. g \in 0..Len(IdlePages) BY <1>0, <1>1, GrantedFacts
  <2>3. DOMAIN z = Page BY <1>6
  <2> HIDE DEF g
  <2>4. \A k \in 1..g : IdlePages[k] \in UserPages BY <1>0, <2>2
  <2> QED BY <1>3, <1>6, <2>1, <2>3, <2>4 DEF MapsTo
<1>12. Exclusive(Held(NoTables, free, enable_vmem, NoStack))
  BY GatherFacts, GatheredExclusive
<1>13. Exclusive(Held(ptA, Free1, enable_vmem, NoStack))
  <2>1. Once(free)
    BY <1>12, ApartFacts DEF Apartness
  <2>2. Moved(NoPages, free, InitTable, Free1)
    BY <1>0, <1>1, <1>4, <1>5, <1>7, <2>1, TakeFacts DEF Free1
  <2>3. /\ \A q \in Pid : q # InitPid => ptA[q] = NoTables[q]
        /\ ptA[InitPid] = InitTable /\ NoTables[InitPid] = NoPages
    BY <1>2 DEF NoTables
  <2> HIDE DEF ptA, free
  <2> QED BY <1>2, <1>12, <2>2, <2>3, ProcessMoves
<1>14. Exclusive(Held(ptB, Free2, enable_vmem, NoStack))
  <2>1. Once(Free1)
    BY <1>13, ApartFacts DEF Apartness
  <2>2. /\ DOMAIN z = Page /\ DOMAIN IdleTable = Page
        /\ \E off \in Nat : Draws(z, Free1, IdleTable, Free2, off, IdlePages)
    <3>1. /\ DOMAIN z = Page /\ DOMAIN Mapped(z, IdlePages, Free1) = Page
          /\ \E off \in Nat : Draws(z, Free1, Mapped(z, IdlePages, Free1),
                                    Left(Free1, Len(IdlePages)), off, IdlePages)
      BY <1>0, <1>1, <1>6, MappedDraws
    <3> QED BY <1>8, <3>1 DEF Free2
  <2>3. PICK off \in Nat : Draws(z, Free1, IdleTable, Free2, off, IdlePages)
    BY <2>2
  <2>4. DOMAIN NoPages = Page BY <1>4
  <2>5. Draws(NoPages, Free1, IdleTable, Free2, off, IdlePages)
    BY <1>6, <2>2, <2>3, <2>4 DEF Draws
  <2>6. Moved(NoPages, Free1, IdleTable, Free2)
    BY <1>1, <1>5, <2>1, <2>2, <2>4, <2>5, DrawFacts
  <2>7. /\ \A q \in Pid : q # Idle => ptB[q] = ptA[q]
        /\ ptB[Idle] = IdleTable /\ ptA[Idle] = NoPages
    BY <1>2 DEF NoTables
  <2> HIDE DEF ptA, ptB
  <2> QED BY <1>2, <1>13, <2>6, <2>7, ProcessMoves
<1>15. ks \in [1..2 -> Frame \ {0}] /\ ks[1] = Free2[1] /\ ks[2] = Free2[2]
  <2>1. 2 \in 0..Len(Free2) BY <1>0
  <2> DEFINE a == SubSeq(Free2, 1, 2)
  <2>2. /\ Len(Free2) \in Nat
        /\ a \in Seq(Frame \ {0}) /\ Len(a) = 2 /\ \A i \in 1..2 : a[i] = Free2[i]
    BY <1>0, <2>1, SubSeqFacts
  <2>3. ks = a BY DEF save_initial_kernel
  <2> HIDE DEF a, ks
  <2>4. DOMAIN a = 1..2 /\ a = [i \in 1..2 |-> a[i]] BY <2>2
  <2>5. \A i \in 1..2 : a[i] \in Frame \ {0} BY <2>2, SMTT(30)
  <2>6. 1 \in 1..2 /\ 2 \in 1..2 OBVIOUS
  <2>7. a \in [1..2 -> Frame \ {0}] BY <2>4, <2>5
  <2> QED BY <2>2, <2>3, <2>6, <2>7
<1> HIDE DEF ks
<1>16. Exclusive(Held(ptB, Free3, enable_vmem, ks))
  <2>1. Once(Free2) /\ Once(NoStack) /\ Apart(NoStack, Free2)
    BY <1>14, ApartFacts DEF Apartness
  <2>2. /\ Len(Left(Free2, 2)) = Len(Free2) - 2
        /\ \A k \in 1..Len(Free2) - 2 : Left(Free2, 2)[k] = Free2[2 + k]
    <3>1. 2 \in Nat /\ 2 <= Len(Free2) BY <1>0
    <3> QED BY <1>0, <3>1, AllGranted
  <2>3. \A k \in 1..Len(Free3) : 2 + k \in 1..Len(Free2) /\ Free3[k] = Free2[2 + k]
    <3>1. Len(Free2) \in Nat BY <1>1
    <3> QED BY <1>0, <2>2, <3>1 DEF Free3
  <2>4. DOMAIN NoStack = 1..2 /\ DOMAIN ks = 1..2 BY <1>15 DEF NoStack
  <2> DEFINE id == [k \in 1..2 |-> k]
  <2>5. Draws(NoStack, Free2, ks, Free3, 2, id)
    <3>1. ASSUME NEW i \in 1..2
          PROVE  \E k \in 1..2 : k <= Len(Free2) /\ id[k] = i /\ ks[i] = Free2[k]
      <4>1. i = 1 \/ i = 2 OBVIOUS
      <4>2. ks[i] = Free2[i] BY <1>15, <4>1
      <4>3. id[i] = i /\ i <= Len(Free2) BY <1>0, <1>1
      <4> QED BY <4>2, <4>3
    <3> HIDE DEF id
    <3> QED BY <2>3, <2>4, <3>1 DEF Draws
  <2> HIDE DEF id
  <2>6. Moved(NoStack, Free2, ks, Free3)
    BY <1>1, <2>1, <2>4, <2>5, DrawFacts
  <2> HIDE DEF ptB
  <2> QED BY <1>14, <2>6, FirstStackMoves
<1>17. ptB = [NoTables EXCEPT ![InitPid] = InitTable, ![Idle] = IdleTable]
  OBVIOUS
<1> HIDE DEF ptB
<1> QED BY <1>9, <1>10, <1>11, <1>15, <1>16, <1>17 DEF ks

(* The boot leaves the invariant. *)
LEMMA InitInv ==
    ASSUME Init
    PROVE  Inv
<1> DEFINE P == ProgramPages(InitProgram)
<1>1. /\ active_proc = InitPid /\ ready_queue = <<Idle>> /\ next_pid = 2
      /\ page_table = [p \in Pid |-> CASE p = InitPid -> InitTable
                                      [] p = Idle -> IdleTable
                                      [] OTHER -> NoPages]
      /\ next_heap_pn = [p \in Pid |->
            CASE p = InitPid -> HeapLoaded(InitProgram, Len(P), 0)
              [] p = Idle -> HeapLoaded(IdleProgram, Len(IdlePages), 0)
              [] OTHER -> 0]
      /\ next_stack_pn = [p \in Pid |->
            CASE p = InitPid -> StackLoaded(InitProgram, Len(P), 0)
              [] p = Idle -> StackLoaded(IdleProgram, Len(IdlePages), 0)
              [] OTHER -> 0]
      /\ krnl_page_table = enable_vmem /\ kernel_brk = BootBrk
      /\ initial_ks = save_initial_kernel(Free2) /\ free_frames = Free3
      /\ content = [f \in Frame |-> IF f \in On(initial_ks) THEN Initial ELSE Junk]
      /\ kstack = <<Initial, Initial>> /\ resumed = {} /\ panic = FALSE /\ calls = 0
  BY DEF Init, Free1, Free2, Free3, InitTable, IdleTable
<1>2. InitPid \in Pid /\ Idle \in Pid /\ InitPid # Idle /\ InitPid = 0 /\ Idle = 1
  BY MemoryAssumption DEF InitPid, Idle, Pid
<1>3. /\ InitTable \in Table /\ \A i \in StackPages : InitTable[i] \in Frame \ {0}
      /\ IdleTable \in Table /\ \A i \in StackPages : IdleTable[i] = 0
      /\ Exclusive(Held([NoTables EXCEPT ![InitPid] = InitTable, ![Idle] = IdleTable],
                        Free3, enable_vmem, save_initial_kernel(Free2)))
      /\ save_initial_kernel(Free2) \in [1..2 -> Frame \ {0}]
  BY BootTables
<1>4. NoPages \in Table BY DEF NoPages, Table
<1>5. /\ page_table \in [Pid -> Table]
      /\ page_table[InitPid] = InitTable /\ page_table[Idle] = IdleTable
      /\ \A p \in Pid : p # InitPid /\ p # Idle => page_table[p] = NoPages
  <2>1. \A p \in Pid : page_table[p] = CASE p = InitPid -> InitTable
                                        [] p = Idle -> IdleTable
                                        [] OTHER -> NoPages
    BY <1>1
  <2>2. /\ page_table[InitPid] = InitTable /\ page_table[Idle] = IdleTable
        /\ \A p \in Pid : p # InitPid /\ p # Idle => page_table[p] = NoPages
    BY <1>2, <2>1
  <2>3. \A p \in Pid : page_table[p] \in Table BY <1>3, <1>4, <2>2
  <2>4. page_table = [p \in Pid |-> page_table[p]] BY <1>1
  <2> QED BY <2>2, <2>3, <2>4
<1>6. [NoTables EXCEPT ![InitPid] = InitTable, ![Idle] = IdleTable] = page_table
  <2> DEFINE u == [NoTables EXCEPT ![InitPid] = InitTable, ![Idle] = IdleTable]
  <2>1. \A p \in Pid : NoTables[p] = NoPages BY DEF NoTables
  <2>2. NoTables \in [Pid -> Table] BY <1>4 DEF NoTables
  <2>3. u \in [Pid -> Table] /\ \A p \in Pid : u[p] = page_table[p]
    BY <1>2, <1>3, <1>5, <2>1, <2>2
  <2> HIDE DEF u
  <2>4. u = page_table BY <1>5, <2>3
  <2> QED BY <2>4 DEF u
<1>7. Exclusive(Holdings) BY <1>1, <1>3, <1>6 DEF Holdings
<1>8. Len(ready_queue) = 1 /\ ready_queue[1] = Idle BY <1>1
<1>9. On(ready_queue) = {Idle} /\ NoDup(ready_queue) BY <1>8 DEF On, NoDup
<1>10. /\ NPages \in Nat \ {0} /\ MaxPid \in Nat /\ MaxPid >= 1 /\ BootBrk \in Nat
       /\ PAGESIZE <= BootBrk /\ PAGESIZE \in Nat /\ MaxCalls \in Nat
       /\ UpToPage(BootBrk) <= StackBase /\ KPages \in Nat
       /\ KPages <= TotalFrames /\ TotalFrames \in Nat
       /\ InitProgram \in Programs /\ IdleProgram \in Programs
  BY MemoryAssumption
<1>11. initial_ks \in [1..2 -> Frame] /\ \A i \in 1..2 : initial_ks[i] # 0
  BY <1>1, <1>3
<1>12. /\ content \in [Frame -> Pid \cup {Junk, Initial}]
       /\ \A i \in 1..2 : content[initial_ks[i]] = Initial
  <2>1. \A i \in 1..2 : initial_ks[i] \in On(initial_ks)
    <3>1. Free2 \in Seq(Frame \ {0}) /\ Len(Free2) >= 2 BY BootFacts
    <3>2. 2 \in 0..Len(Free2) BY <3>1
    <3>3. Len(SubSeq(Free2, 1, 2)) = 2 BY <3>1, <3>2, SubSeqFacts
    <3>4. Len(initial_ks) = 2 BY <1>1, <3>3 DEF save_initial_kernel
    <3> QED BY <3>4 DEF On
  <2>2. initial_ks \in [1..2 -> Frame] BY <1>11
  <2> QED BY <1>1, <2>1, <2>2
<1>13. TypeOK
  <2>1. active_proc \in Pid /\ ready_queue \in Seq(Pid) BY <1>1, <1>2
  <2>2. free_frames \in Seq(Frame)
    <3>1. Free3 \in Seq(Frame \ {0}) BY BootFacts
    <3> QED BY <1>1, <3>1
  <2>3. next_pid \in 2..MaxPid + 1 BY <1>1, <1>10
  <2>4. page_table \in [Pid -> [Page -> Frame \cup {NoFrame}]] BY <1>5 DEF Table
  <2>5. 0 \in Int /\ 0 \in -1..NPages - 1 BY <1>10
  <2>6. /\ HeapLoaded(InitProgram, Len(P), 0) \in Int
        /\ HeapLoaded(IdleProgram, Len(IdlePages), 0) \in Int
        /\ StackLoaded(InitProgram, Len(P), 0) \in -1..NPages - 1
        /\ StackLoaded(IdleProgram, Len(IdlePages), 0) \in -1..NPages - 1
    BY <1>10, <2>5, ProgramFacts
  <2>7. next_heap_pn \in [Pid -> Int] BY <1>1, <2>5, <2>6
  <2>8. next_stack_pn \in [Pid -> -1..NPages - 1]
    <3> DEFINE R == -1..NPages - 1
    <3>1. 0 \in R /\ StackLoaded(InitProgram, Len(P), 0) \in R
          /\ StackLoaded(IdleProgram, Len(IdlePages), 0) \in R
      BY <2>5, <2>6
    <3> HIDE DEF R
    <3>2. next_stack_pn \in [Pid -> R] BY <1>1, <3>1
    <3> QED BY <3>2 DEF R
  <2>9. krnl_page_table \in [0..StackBase - 1 -> Frame \cup {NoFrame}]
    <3>1. DownToPage(BootBrk) \in Int /\ StackBase \in Int /\ StackBase = KPages - 2
      BY <1>10, PageFacts DEF StackBase
    <3>2. \A i \in 0..StackBase - 1 : i \in Frame BY <1>10, <3>1 DEF Frame
    <3> QED BY <1>1, <3>2 DEF enable_vmem
  <2>10. kstack \in [1..2 -> Pid \cup {Junk, Initial}] BY <1>1
  <2>11. kernel_brk \in Nat /\ resumed \subseteq Pid /\ calls \in 0..MaxCalls
    BY <1>1, <1>10
  <2>12. panic \in BOOLEAN BY <1>1, Zenon
  <2> QED BY <1>11, <1>12, <2>1, <2>2, <2>3, <2>4, <2>7, <2>8, <2>9, <2>10, <2>11,
             <2>12
      DEF TypeOK
<1>14. HeapHeld
  <2>1. /\ DownToPage(BootBrk) \in Int /\ UpToPage(BootBrk) \in Int
        /\ DownToPage(BootBrk) <= UpToPage(BootBrk)
    BY <1>10, PageFacts
  <2>2. StackBase \in Int BY <1>10 DEF StackBase
  <2>3. DownToPage(BootBrk) <= StackBase BY <1>10, <2>1, <2>2
  <2>4. ASSUME NEW i \in 0..DownToPage(BootBrk) - 1
        PROVE  enable_vmem[i] # NoFrame
    <3>1. i \in 0..StackBase - 1 /\ i < DownToPage(BootBrk) BY <2>1, <2>2, <2>3
    <3>2. enable_vmem[i] = i BY <3>1 DEF enable_vmem
    <3> QED BY <3>2 DEF NoFrame
  <2> QED BY <1>1, <2>3, <2>4 DEF HeapHeld, KernelHeapMapped
<1>15. Unborn
  <2>1. \A p \in Pid : p >= 2 => p # InitPid /\ p # Idle BY <1>2
  <2> QED BY <1>1, <1>5, <2>1 DEF Unborn
<1>16. Queued
  BY <1>1, <1>2, <1>9 DEF Queued
<1>17. Born
  <2>1. 0 \in 0..2 - 1 /\ 1 \in 0..2 - 1 OBVIOUS
  <2> QED BY <1>1, <1>2, <1>9, <2>1 DEF Born
<1>18. StacksKept
  BY <1>1, <1>3, <1>5, <1>9, <1>11, <1>12 DEF StacksKept
<1>19. OwnStack BY <1>1 DEF OwnStack
<1> QED BY <1>7, <1>13, <1>14, <1>15, <1>16, <1>17, <1>18, <1>19 DEF Inv, Going

----------------------------------------------------------------------------
(* The theorems *)

LEMMA NextInv ==
    ASSUME Inv, [Next]_vars
    PROVE  Inv'
<1>1. CASE UNCHANGED vars BY <1>1, StutterInv
<1>2. ASSUME NEW p \in Pid, NEW addr \in UserAddrs, Brk(p, addr) PROVE Inv'
  BY <1>2, BrkInv
<1>3. ASSUME NEW p \in Pid, NEW addr \in UserAddrs, TrapMemory(p, addr) PROVE Inv'
  BY <1>3, TrapInv
<1>4. ASSUME NEW p \in Pid, Fork(p) PROVE Inv' BY <1>4, ForkInv
<1>5. ASSUME NEW p \in Pid, NEW g \in Programs, Exec(p, g) PROVE Inv'
  BY <1>5, ExecInv
<1>6. ASSUME NEW p \in Pid, Exit(p) PROVE Inv' BY <1>6, ExitInv
<1>7. ASSUME NEW p \in Pid, Block(p) PROVE Inv' BY <1>7, BlockInv
<1>8. ASSUME NEW p \in Pid, Wake(p) PROVE Inv' BY <1>8, WakeInv
<1>9. ASSUME NEW addr \in KernelBrks, SetKernelBrk(addr) PROVE Inv'
  BY <1>9, KernelBrkInv
<1>10. CASE Clock BY <1>10, ClockInv
<1> QED BY <1>1, <1>2, <1>3, <1>4, <1>5, <1>6, <1>7, <1>8, <1>9, <1>10 DEF Next

(* Every state of the memory satisfies the inductive invariant. *)
LEMMA SpecInv == Spec => []Inv
<1>1. Init => Inv BY InitInv
<1>2. Inv /\ [Next]_vars => Inv' BY NextInv
<1> QED BY <1>1, <1>2, PTL DEF Spec

(* The kernel's variables keep their types: no handler leaves a table, a    *)
(* list or a break page that its declaration does not allow.               *)
THEOREM TypeCorrect == Spec => []TypeOK
<1>1. Inv => TypeOK BY DEF Inv
<1> QED BY <1>1, SpecInv, PTL

\* S has no two elements.
Lone(S) == \A x, y \in S : x = y

(* A set without two elements has none or one. *)
LEMMA LoneFacts ==
    ASSUME NEW S, Lone(S)
    PROVE  (S = {} /\ Cardinality(S) = 0) \/ (S # {} /\ Cardinality(S) = 1)
<1>1. CASE S = {} BY <1>1, FS_EmptySet
<1>2. CASE S # {}
  <2>1. PICK x : x \in S BY <1>2
  <2>2. S = {x} BY <2>1 DEF Lone
  <2>3. Cardinality({x}) = 1 BY FS_Singleton
  <2> QED BY <1>2, <2>2, <2>3
<1> QED BY <1>1, <1>2

(* Who holds a frame other than 0 is the only one to, and holds it once. *)
LEMMA UsesFacts ==
    ASSUME TypeOK, Exclusive(Holdings), NEW f \in Frame \ {0}
    PROVE  Uses(f) <= 1
<1> DEFINE A == {k \in 1..Len(free_frames) : free_frames[k] = f}
           B == {x \in Pid \X Page : page_table[x[1]][x[2]] = f}
           C == {i \in 0..StackBase - 1 : krnl_page_table[i] = f}
           D == {i \in 1..2 : initial_ks[i] = f}
           E == f \in StackBase..KPages - 1
           live == [i \in StackBase..KPages - 1 |-> i]
           H == Holdings
<1>1. /\ H[FreeList] = free_frames /\ H[Kernel] = krnl_page_table
      /\ H[FirstStack] = initial_ks /\ H[LiveStack] = live
      /\ \A p \in Pid : H[p] = page_table[p]
      /\ {FreeList, Kernel, FirstStack, LiveStack} \cup Pid = Holder
      /\ FreeList \notin Pid /\ Kernel \notin Pid /\ FirstStack \notin Pid
      /\ LiveStack \notin Pid
      /\ Kernel # FreeList /\ FirstStack # FreeList /\ FirstStack # Kernel
      /\ LiveStack # FreeList /\ LiveStack # Kernel
      /\ LiveStack # FirstStack
  BY HeldFacts DEF Holdings
<1>2. /\ DOMAIN free_frames = 1..Len(free_frames) /\ DOMAIN initial_ks = 1..2
      /\ DOMAIN krnl_page_table = 0..StackBase - 1
      /\ DOMAIN live = StackBase..KPages - 1
      /\ \A p \in Pid : DOMAIN page_table[p] = Page
  BY DEF TypeOK
<1>3. f \notin {0, NoFrame} BY DEF Frame, NoFrame
<1> DEFINE In(d) == {i \in DOMAIN H[d] : H[d][i] = f}
<1>4. ASSUME NEW d \in Holder PROVE Lone(In(d))
  <2>1. Once(H[d]) BY DEF Exclusive
  <2> QED BY <1>3, <2>1 DEF Once, Lone
<1>5. ASSUME NEW d \in Holder, NEW e \in Holder, d # e PROVE In(d) = {} \/ In(e) = {}
  <2>1. Apart(H[d], H[e]) BY <1>5 DEF Exclusive
  <2> QED BY <1>3, <2>1 DEF Apart
<1>6. A = In(FreeList) /\ C = In(Kernel) /\ D = In(FirstStack)
  BY <1>1, <1>2
<1>7. E <=> In(LiveStack) # {}
  <2>1. \A i \in StackBase..KPages - 1 : live[i] = i OBVIOUS
  <2> HIDE DEF live
  <2> QED BY <1>1, <1>2, <2>1
<1>8. ASSUME NEW x \in B
      PROVE  x[1] \in Pid /\ x[2] \in Page /\ x[2] \in In(x[1]) /\ x = <<x[1], x[2]>>
  BY <1>1, <1>2
<1> HIDE DEF A, B, C, D, E, H, In, live
<1>9. Lone(B)
  <2> SUFFICES ASSUME NEW x \in B, NEW y \in B PROVE x = y BY DEF Lone
  <2>1. /\ x[1] \in Pid /\ x[2] \in In(x[1]) /\ x = <<x[1], x[2]>>
        /\ y[1] \in Pid /\ y[2] \in In(y[1]) /\ y = <<y[1], y[2]>>
    BY <1>8
  <2>2. x[1] \in Holder /\ y[1] \in Holder BY <1>1, <2>1
  <2>3. x[1] = y[1] BY <1>5, <2>1, <2>2
  <2>4. Lone(In(x[1])) BY <1>4, <2>2
  <2>5. x[2] = y[2] BY <2>1, <2>3, <2>4 DEF Lone
  <2> QED BY <2>1, <2>3, <2>5
<1>10. ASSUME NEW d \in {FreeList, Kernel, FirstStack, LiveStack}
       PROVE  B = {} \/ In(d) = {}
  <2> SUFFICES ASSUME NEW x \in B PROVE In(d) = {} OBVIOUS
  <2>1. x[1] \in Pid /\ x[2] \in In(x[1]) BY <1>8
  <2>2. x[1] \in Holder /\ d \in Holder /\ x[1] # d BY <1>1, <2>1
  <2> QED BY <1>5, <2>1, <2>2
<1>11. /\ FreeList \in Holder /\ Kernel \in Holder /\ FirstStack \in Holder
       /\ LiveStack \in Holder
  BY <1>1
<1>12. /\ Lone(A) /\ Lone(C) /\ Lone(D)
       /\ (A = {} \/ C = {}) /\ (A = {} \/ D = {}) /\ (C = {} \/ D = {})
       /\ (~E \/ A = {}) /\ (~E \/ C = {}) /\ (~E \/ D = {}) /\ (~E \/ B = {})
       /\ (B = {} \/ A = {}) /\ (B = {} \/ C = {}) /\ (B = {} \/ D = {})
  BY <1>1, <1>4, <1>5, <1>6, <1>7, <1>10, <1>11
<1>13. /\ (A = {} /\ Cardinality(A) = 0) \/ (A # {} /\ Cardinality(A) = 1)
       /\ (B = {} /\ Cardinality(B) = 0) \/ (B # {} /\ Cardinality(B) = 1)
       /\ (C = {} /\ Cardinality(C) = 0) \/ (C # {} /\ Cardinality(C) = 1)
       /\ (D = {} /\ Cardinality(D) = 0) \/ (D # {} /\ Cardinality(D) = 1)
  BY <1>9, <1>12, LoneFacts
<1>14. Uses(f) = Cardinality(A) + Cardinality(B) + Cardinality(C) + Cardinality(D)
                 + (IF E THEN 1 ELSE 0)
  BY DEF Uses, A, B, C, D, E
<1> QED BY <1>12, <1>13, <1>14

(* No frame but 0 is in two places, whatever runs out half way: neither    *)
(* free and in use, nor mapped twice, nor taken from the kernel.           *)
THEOREM OneUse == Spec => []FramesExclusive
<1>1. Inv => FramesExclusive BY UsesFacts DEF Inv, FramesExclusive
<1> QED BY <1>1, SpecInv, PTL

(* The process that runs goes on with its own kernel stack, after any      *)
(* sequence of switches, Forks, Execs and Exits.                           *)
THEOREM StackIsMine == Spec => []OwnStack
<1>1. Inv => OwnStack BY DEF Inv
<1> QED BY <1>1, SpecInv, PTL

(* The kernel's heap is mapped up to its break, also when SetKernelBrk ran  *)
(* out of frames.                                                          *)
THEOREM HeapIsMapped == Spec => []KernelHeapMapped
<1>1. Inv => KernelHeapMapped BY DEF Inv, HeapHeld
<1> QED BY <1>1, SpecInv, PTL

----------------------------------------------------------------------------
(* Frames that get lost, and frame 0 *)

Has(t, f) == \E i \in DOMAIN t : t[i] = f

\* Every frame of table t and of the list free is still in the table or on
\* the list, unless another one was mapped over it.
Keeps(t, free, t1, f1) ==
    /\ \A i \in DOMAIN t :
          \/ t[i] \in {0, NoFrame}
          \/ t1[i] \notin {t[i], NoFrame}
          \/ Has(t1, t[i]) \/ Has(f1, t[i])
    /\ \A k \in DOMAIN free :
          free[k] \in {0, NoFrame} \/ Has(t1, free[k]) \/ Has(f1, free[k])

\* Without frame 0 in t and on the list, it is not there afterwards, as long
\* as the list is not used up.
Clears(J, t, free, t1, f1) ==
    (\A i \in J : t[i] # 0) /\ (\A k \in DOMAIN free : free[k] # 0)
        => \/ f1 = <<>>
           \/ (\A i \in J : t1[i] # 0) /\ (\A k \in DOMAIN f1 : f1[k] # 0)

\* What is on the list behind the frames that were got.
Leaves(free, n, f1) ==
    /\ \A k \in 1..Len(free) : k <= Granted(free, n) \/ free[k] = 0 \/ Has(f1, free[k])
    /\ \A k \in DOMAIN f1 : Has(free, f1[k])
    /\ Granted(free, n) < n /\ (\A k \in DOMAIN free : free[k] # 0) => f1 = <<>>

LEMMA RestFacts ==
    ASSUME NEW S, NEW free \in Seq(S), NEW n \in Nat
    PROVE  Leaves(free, n, Left(free, n))
<1> DEFINE g == Granted(free, n)
           off == IF g = n THEN n ELSE g + 1
           f1 == SubSeq(free, off + 1, Len(free))
<1>1. /\ g \in 0..n /\ g <= Len(free) /\ Len(free) \in Nat
      /\ g < n => g = Len(free) \/ (g < Len(free) /\ free[g + 1] = 0)
  BY GrantedFacts
<1>2. Left(free, n) = f1
  <2>1. (IF g = n THEN n + 1 ELSE g + 2) = off + 1 BY <1>1
  <2> QED BY <2>1 DEF Left
<1> HIDE DEF g
<1>3. off \in Nat /\ off >= g /\ (g = n => off = g) /\ (g # n => off = g + 1)
  BY <1>1
<1> HIDE DEF off
<1>4. /\ f1 \in Seq(S)
      /\ \A k \in 1..Len(f1) : off + k \in 1..Len(free) /\ f1[k] = free[off + k]
      /\ off >= Len(free) => f1 = <<>>
  BY <1>3, DropFacts
<1>5. DOMAIN f1 = 1..Len(f1) /\ DOMAIN free = 1..Len(free) BY <1>4
<1>6. ASSUME NEW k \in 1..Len(free), k > off PROVE Has(f1, free[k])
  <2>1. off \in 0..Len(free) /\ k - off \in 1..Len(free) - off BY <1>1, <1>3, <1>6
  <2>2. /\ Len(f1) = Len(free) - off
        /\ \A i \in 1..Len(free) - off : f1[i] = free[off + i]
    BY <2>1, SubSeqFacts
  <2>3. off + (k - off) = k BY <1>3
  <2> HIDE DEF f1
  <2>4. f1[k - off] = free[k] BY <2>1, <2>2, <2>3
  <2> QED BY <1>5, <2>1, <2>2, <2>4 DEF Has
<1> HIDE DEF f1
<1>7. ASSUME NEW k \in 1..Len(free)
      PROVE  k <= g \/ free[k] = 0 \/ Has(f1, free[k])
  <2>1. k \in Int /\ g \in Int /\ n \in Int BY <1>1
  <2>2. CASE g = n BY <1>3, <1>6, <2>1, <2>2
  <2>3. CASE g # n
    <3>1. CASE k = g + 1 BY <1>1, <2>1, <2>3, <3>1
    <3>2. CASE k > g + 1 BY <1>3, <1>6, <2>3, <3>2
    <3> QED BY <2>1, <3>1, <3>2
  <2> QED BY <2>2, <2>3
<1>8. \A k \in DOMAIN f1 : Has(free, f1[k]) BY <1>4, <1>5 DEF Has
<1>9. g < n /\ (\A k \in DOMAIN free : free[k] # 0) => f1 = <<>>
  <2> SUFFICES ASSUME g < n, \A k \in DOMAIN free : free[k] # 0 PROVE f1 = <<>>
    OBVIOUS
  <2>1. g = Len(free)
    <3>1. CASE g < Len(free)
      <4>1. g + 1 \in 1..Len(free) BY <1>1, <3>1
      <4>2. g + 1 \in DOMAIN free BY <1>5, <4>1
      <4>3. free[g + 1] = 0 BY <1>1, <3>1
      <4> QED BY <4>2, <4>3
    <3> QED BY <1>1, <3>1
  <2> QED BY <1>1, <1>3, <1>4, <2>1
<1> QED BY <1>2, <1>7, <1>8, <1>9 DEF Leaves, g

(* A loop around grab_a_frame loses nothing, and brings in no frame 0. *)
LEMMA TakeKeeps ==
    ASSUME NEW free \in Seq(Frame), NEW I, NEW t \in [I -> Frame \cup {NoFrame}],
           NEW pages, Len(pages) \in Nat,
           \A k \in 1..Granted(free, Len(pages)) : pages[k] \in I,
           \A j, k \in 1..Granted(free, Len(pages)) : pages[j] = pages[k] => j = k,
           NEW J \in SUBSET I
    PROVE  LET t1 == Mapped(t, pages, free)
               f1 == Left(free, Len(pages)) IN
           Keeps(t, free, t1, f1) /\ Clears(J, t, free, t1, f1)
<1> DEFINE t1 == Mapped(t, pages, free)
           f1 == Left(free, Len(pages))
           g == Granted(free, Len(pages))
<1>1. /\ t1 \in [I -> (Frame \cup {NoFrame}) \cup (Frame \ {0})]
      /\ MapsTo(t, pages, free, g, t1)
  BY MappedFacts
<1>2. /\ g \in Nat /\ g <= Len(free) /\ Len(free) \in Nat
      /\ \A k \in 1..g : free[k] # 0
  BY GrantedFacts
<1>3. Leaves(free, Len(pages), f1) BY RestFacts
<1>4. DOMAIN t = I /\ DOMAIN t1 = I /\ DOMAIN free = 1..Len(free) BY <1>1
<1>5. \A k \in 1..Len(free) : k <= g \/ free[k] = 0 \/ Has(f1, free[k])
  BY <1>3 DEF Leaves
<1>6. \A k \in 1..g : pages[k] \in I OBVIOUS
<1>7. \A j, k \in 1..g : pages[j] = pages[k] => j = k OBVIOUS
<1> HIDE DEF t1, f1, g
<1>8. NoFrame \notin Frame /\ \A k \in 1..g : free[k] \in Frame \ {0}
  <2>1. NoFrame \notin Frame BY DEF NoFrame, Frame
  <2>2. \A k \in 1..g : k \in 1..Len(free) BY <1>2
  <2>3. \A k \in 1..Len(free) : free[k] \in Frame OBVIOUS
  <2> QED BY <1>2, <2>1, <2>2, <2>3
<1>9. ASSUME NEW i \in I
      PROVE  t1[i] \notin {t[i], NoFrame} \/ Has(t1, t[i]) \/ t[i] = NoFrame
  <2>1. CASE t1[i] = t[i] BY <1>4, <2>1 DEF Has
  <2>2. CASE t1[i] # t[i]
    <3>1. PICK k \in 1..g : t1[i] = free[k] BY <1>1, <1>4, <2>2 DEF MapsTo
    <3> QED BY <1>8, <2>2, <3>1
  <2> QED BY <2>1, <2>2
<1>10. ASSUME NEW k \in 1..Len(free)
       PROVE  free[k] = 0 \/ Has(t1, free[k]) \/ Has(f1, free[k])
  <2>1. CASE k <= g
    <3>1. k \in 1..g BY <1>2, <2>1
    <3>2. pages[k] \in I BY <1>6, <3>1
    <3>3. PICK j \in 1..g : pages[j] = pages[k] /\ t1[pages[k]] = free[j]
      BY <1>1, <1>4, <3>1, <3>2 DEF MapsTo
    <3>4. j = k BY <1>7, <3>1, <3>3
    <3> QED BY <1>4, <3>2, <3>3, <3>4 DEF Has
  <2>2. CASE ~(k <= g) BY <1>5, <2>2
  <2> QED BY <2>1, <2>2
<1>11. Keeps(t, free, t1, f1) BY <1>4, <1>9, <1>10 DEF Keeps
<1>12. ASSUME \A i \in J : t[i] # 0, \A k \in DOMAIN free : free[k] # 0
       PROVE  (\A i \in J : t1[i] # 0) /\ (\A k \in DOMAIN f1 : f1[k] # 0)
  <2>1. \A k \in DOMAIN f1 : f1[k] # 0 BY <1>3, <1>12 DEF Leaves, Has
  <2>2. ASSUME NEW i \in J PROVE t1[i] # 0
    BY <1>1, <1>4, <1>8, <1>12 DEF MapsTo
  <2> QED BY <2>1, <2>2
<1>13. Clears(J, t, free, t1, f1) BY <1>12 DEF Clears
<1> QED BY <1>11, <1>13 DEF t1, f1

\* What a step does to one table and the free list.
Settles(t, free, t1, f1) ==
    Keeps(t, free, t1, f1) /\ Clears(UserPages, t, free, t1, f1)

LEMMA StillSettles ==
    ASSUME NEW t, NEW free
    PROVE  Settles(t, free, t, free)
  BY DEF Settles, Keeps, Clears, Has

(* A stack that grows uses up the list before it gets a frame 0. *)
LEMMA GrownSettles ==
    ASSUME NEW t \in [Page -> Frame \cup {NoFrame}], NEW free \in Seq(Frame),
           NEW top \in -1..NPages - 1, NEW lo \in -1..NPages - 1, lo <= top
    PROVE  Settles(t, free, Grown(t, free, lo, top),
                   SubSeq(free, top - lo + 1, Len(free)))
<1> DEFINE t1 == Grown(t, free, lo, top)
           f1 == SubSeq(free, top - lo + 1, Len(free))
           n == top - lo
<1>0. NPages \in Nat /\ NPages # 0 BY MemoryAssumption
<1>1. /\ top \in Int /\ lo \in Int /\ n \in Nat /\ Len(free) \in Nat
      /\ lo >= -1 /\ top <= NPages - 1
  BY <1>0
<1>2. \A i \in Page : i \in Int BY DEF Page
<1>3. ASSUME NEW i \in Page
      PROVE  t1[i] = IF i \in lo + 1..top
                     THEN IF top - i + 1 <= Len(free) THEN free[top - i + 1] ELSE 0
                     ELSE t[i]
  BY DEF Grown
<1>4. DOMAIN t = Page /\ DOMAIN t1 = Page /\ DOMAIN free = 1..Len(free)
  BY DEF Grown
<1>5. /\ f1 \in Seq(Frame)
      /\ \A k \in 1..Len(f1) : n + k \in 1..Len(free) /\ f1[k] = free[n + k]
      /\ n >= Len(free) => f1 = <<>>
  BY <1>1, DropFacts
<1>6. DOMAIN f1 = 1..Len(f1) BY <1>5
<1>7. ASSUME NEW k \in 1..Len(free), k > n PROVE Has(f1, free[k])
  <2>1. n \in 0..Len(free) /\ k - n \in 1..Len(free) - n BY <1>1, <1>7
  <2> HIDE DEF n
  <2>2. /\ Len(f1) = Len(free) - n
        /\ \A i \in 1..Len(free) - n : f1[i] = free[n + i]
    BY <2>1, SubSeqFacts DEF n
  <2>3. n + (k - n) = k BY <1>1
  <2> HIDE DEF f1
  <2>4. f1[k - n] = free[k] BY <2>1, <2>2, <2>3
  <2> QED BY <1>6, <2>1, <2>2, <2>4 DEF Has
<1> HIDE DEF f1, t1
<1>8. ASSUME NEW k \in 1..Len(free), k <= n PROVE Has(t1, free[k])
  <2>1. top - k + 1 \in Page /\ top - k + 1 \in lo + 1..top
        /\ top - (top - k + 1) + 1 = k
    BY <1>0, <1>1, <1>8 DEF Page
  <2>2. t1[top - k + 1] = free[k] BY <1>3, <2>1
  <2> QED BY <1>4, <2>1, <2>2 DEF Has
<1>9. ASSUME NEW i \in Page, i \in lo + 1..top, top - i + 1 <= Len(free)
      PROVE  top - i + 1 \in 1..Len(free)
  BY <1>1, <1>2, <1>9
<1>10. ASSUME NEW i \in Page
       PROVE  t[i] = NoFrame \/ t1[i] \notin {t[i], NoFrame} \/ Has(t1, t[i])
  <2>1. CASE t1[i] = t[i] BY <1>4, <2>1 DEF Has
  <2>2. CASE t1[i] # t[i]
    <3>1. t1[i] \in Frame BY <1>3, <1>9, <2>2, ZeroIsFrame
    <3>2. NoFrame \notin Frame BY DEF NoFrame, Frame
    <3> QED BY <2>2, <3>1, <3>2
  <2> QED BY <2>1, <2>2
<1>11. ASSUME NEW k \in 1..Len(free) PROVE Has(t1, free[k]) \/ Has(f1, free[k])
  <2>1. k <= n \/ k > n BY <1>1
  <2> QED BY <1>7, <1>8, <2>1
<1>12. Keeps(t, free, t1, f1) BY <1>4, <1>10, <1>11 DEF Keeps
<1>13. ASSUME \A i \in UserPages : t[i] # 0, \A k \in DOMAIN free : free[k] # 0,
              f1 # <<>>
       PROVE  (\A i \in UserPages : t1[i] # 0) /\ (\A k \in DOMAIN f1 : f1[k] # 0)
  <2>1. n < Len(free) BY <1>1, <1>5, <1>13
  <2>2. \A k \in DOMAIN f1 : f1[k] # 0 BY <1>4, <1>5, <1>6, <1>13
  <2>3. ASSUME NEW i \in UserPages PROVE t1[i] # 0
    <3>1. i \in Page BY <1>0 DEF UserPages, Page
    <3>2. CASE i \in lo + 1..top
      <4>1. top - i + 1 <= Len(free) BY <1>1, <1>2, <2>1, <3>1, <3>2
      <4>2. top - i + 1 \in 1..Len(free) BY <1>9, <3>1, <3>2, <4>1
      <4>3. t1[i] = free[top - i + 1] BY <1>3, <3>1, <3>2, <4>1
      <4> QED BY <1>4, <1>13, <4>2, <4>3
    <3>3. CASE i \notin lo + 1..top
      <4>1. t1[i] = t[i] BY <1>3, <3>1, <3>3
      <4> QED BY <1>13, <4>1
    <3> QED BY <3>2, <3>3
  <2> QED BY <2>2, <2>3
<1>14. Clears(UserPages, t, free, t1, f1) BY <1>13 DEF Clears
<1> QED BY <1>12, <1>14 DEF Settles, t1, f1

(* Nor is a frame lost to a child that is not finished. *)
LEMMA ChildSettles ==
    ASSUME NEW pages, ForkOrder(pages), NEW free \in Seq(Frame)
    PROVE  Settles(NoPages, free, ChildTable(pages, free), Left(free, Len(pages)))
<1> DEFINE n == Granted(free, Len(pages))
           mapped == Mapped(NoPages, pages, free)
           child == ChildTable(pages, free)
           f1 == Left(free, Len(pages))
<1>0. NPages \in Nat /\ NPages # 0 BY MemoryAssumption
<1>1. Len(pages) \in Nat /\ n \in 0..Len(pages) /\ n <= Len(free) /\ Len(free) \in Nat
  BY GrantedFacts DEF ForkOrder
<1>2. /\ NoPages \in [Page -> Frame \cup {NoFrame}]
      /\ \A i \in Page : NoPages[i] = NoFrame
      /\ StackPages \subseteq Page /\ UserPages \in SUBSET Page
  BY <1>0 DEF NoPages, StackPages, UserPages, Page
<1>3. /\ \A k \in 1..Len(pages) : pages[k] \in Page
      /\ \A j, k \in 1..Len(pages) : pages[j] = pages[k] => j = k
  <2>1. ASSUME NEW k \in 1..Len(pages) PROVE pages[k] \in Page
    <3>1. k = 1 \/ k = 2 \/ k \in 3..Len(pages) BY <1>1
    <3> QED BY <1>2, <3>1 DEF ForkOrder, StackPages
  <2> QED BY <2>1 DEF ForkOrder
<1>4. /\ \A k \in 1..n : pages[k] \in Page
      /\ \A j, k \in 1..n : pages[j] = pages[k] => j = k
      /\ \A k \in 1..n : k \in 1..Len(pages)
  <2>1. \A k \in 1..n : k \in 1..Len(pages) BY <1>1
  <2> QED BY <1>3, <2>1
<1>5. Keeps(NoPages, free, mapped, f1) /\ Clears(UserPages, NoPages, free, mapped, f1)
  BY <1>1, <1>2, <1>4, TakeKeeps
<1>6. Leaves(free, Len(pages), f1) BY <1>1, RestFacts
<1>7. child = IF n = Len(pages) THEN mapped ELSE [mapped EXCEPT ![pages[n + 1]] = 0]
  BY DEF ChildTable
<1>8. /\ mapped \in [Page -> Frame \cup {NoFrame}]
      /\ MapsTo(NoPages, pages, free, n, mapped)
  <2>1. MapsMore(Page, NoPages, pages, n, mapped) BY <1>1, <1>2, StillMapped
  <2>2. MapsTo(NoPages, pages, free, n, mapped) BY <1>1, <1>2, MappedFacts
  <2> HIDE DEF mapped, n
  <2> QED BY <2>1, <2>2 DEF MapsMore
<1> HIDE DEF n, mapped, child, f1
<1>9. CASE n = Len(pages)
  <2>1. child = mapped BY <1>7, <1>9
  <2> QED BY <1>5, <2>1 DEF Settles, child, f1
<1>10. CASE n # Len(pages)
  <2>1. n + 1 \in 1..Len(pages) /\ n + 1 \notin 1..n BY <1>1, <1>10
  <2>2. child = [mapped EXCEPT ![pages[n + 1]] = 0] BY <1>7, <1>10
  <2>3. DOMAIN mapped = Page /\ DOMAIN child = Page /\ DOMAIN NoPages = Page
    BY <1>2, <1>8, <2>2
  <2>4. \A i \in Page : i # pages[n + 1] => child[i] = mapped[i]
    BY <2>2, <2>3
  <2>5. mapped[pages[n + 1]] = NoFrame
    <3>1. \A k \in 1..n : pages[k] # pages[n + 1] BY <1>3, <1>4, <2>1
    <3>2. pages[n + 1] \in Page BY <1>3, <2>1
    <3> QED BY <1>2, <1>8, <2>3, <3>1, <3>2 DEF MapsTo
  <2>6. \A f : f # NoFrame /\ Has(mapped, f) => Has(child, f)
    BY <2>3, <2>4, <2>5 DEF Has
  <2>7. Keeps(NoPages, free, child, f1)
    BY <1>2, <1>5, <2>3, <2>6 DEF Keeps
  <2>8. Clears(UserPages, NoPages, free, child, f1)
    <3>1. n < Len(pages) BY <1>1, <1>10
    <3> QED BY <1>6, <3>1 DEF Leaves, Clears, n
  <2> QED BY <2>7, <2>8 DEF Settles, child, f1
<1> QED BY <1>9, <1>10

\* What the two action properties say of a step.
Returned ==
    \A f \in (Known \ Known') \ {NoFrame, 0} :
        \/ \E p \in Pid, i \in Page :
              page_table[p][i] = f /\ page_table'[p][i] \notin {f, NoFrame}
        \/ \E i \in 0..StackBase - 1 :
              krnl_page_table[i] = f /\ krnl_page_table'[i] # f

NoNewZero == ZeroInUse' => ZeroInUse \/ free_frames' = <<>>

\* What the tables map; and f is free or mapped by a process.
Tabled(pt) == {pt[x[1]][x[2]] : x \in Pid \X Page}
Around(pt, free, f) == f \in On(free) \/ \E p \in Pid, i \in Page : pt[p][i] = f

LEMMA KnownFacts ==
    ASSUME NEW pt, NEW f
    PROVE  f \in Tabled(pt) <=> Around(pt, <<>>, f)
<1>0. On(<<>>) = {} BY DEF On
<1>1. ASSUME NEW x \in Pid \X Page, pt[x[1]][x[2]] = f
      PROVE  \E p \in Pid, i \in Page : pt[p][i] = f
  <2>1. x[1] \in Pid /\ x[2] \in Page OBVIOUS
  <2> QED BY <1>1, <2>1
<1>2. ASSUME NEW p \in Pid, NEW i \in Page, pt[p][i] = f
      PROVE  \E x \in Pid \X Page : pt[x[1]][x[2]] = f
  <2>1. <<p, i>> \in Pid \X Page /\ <<p, i>>[1] = p /\ <<p, i>>[2] = i OBVIOUS
  <2> QED BY <1>2, <2>1
<1> QED BY <1>0, <1>1, <1>2 DEF Tabled, Around

(* A step that leaves the frames where they are. *)
LEMMA StillReturned ==
    ASSUME page_table' = page_table, free_frames' = free_frames,
           krnl_page_table' = krnl_page_table, initial_ks' = initial_ks
    PROVE  Returned /\ NoNewZero
<1>1. Known' = Known BY DEF Known
<1>2. ZeroInUse' = ZeroInUse BY DEF ZeroInUse
<1> QED BY <1>1, <1>2 DEF Returned, NoNewZero

\* Every frame that was around still is, or another was mapped over it.
AllKept(pt, free, pt1, f1) ==
    \A f : f \notin {0, NoFrame} /\ Around(pt, free, f) /\ ~Around(pt1, f1, f)
           => \E p \in Pid, i \in Page : pt[p][i] = f /\ pt1[p][i] \notin {f, NoFrame}

LEMMA KeptReturned ==
    ASSUME krnl_page_table' = krnl_page_table, initial_ks' = initial_ks,
           NEW pt, pt = page_table', NEW f1, f1 = free_frames',
           AllKept(page_table, free_frames, pt, f1)
    PROVE  Returned
<1>1. ASSUME NEW f, f \in Known, f \notin Known', f \notin {0, NoFrame}
      PROVE  \E p \in Pid, i \in Page :
                page_table[p][i] = f /\ pt[p][i] \notin {f, NoFrame}
  <2>0. On(<<>>) = {} BY DEF On
  <2>1. \/ Around(page_table, free_frames, f) \/ f \in On(initial_ks)
        \/ \E i \in 0..StackBase - 1 : krnl_page_table[i] = f
    <3>1. f \in Tabled(page_table) <=> Around(page_table, <<>>, f) BY KnownFacts
    <3>2. Known = On(free_frames) \cup On(initial_ks) \cup Tabled(page_table)
                  \cup {krnl_page_table[i] : i \in 0..StackBase - 1}
      BY DEF Known, Tabled
    <3> QED BY <1>1, <2>0, <3>1, <3>2 DEF Around
  <2>3. f \in Tabled(pt) <=> Around(pt, <<>>, f) BY KnownFacts
  <2>4. f \in Known' <=> \/ Around(pt, f1, f) \/ f \in On(initial_ks)
                         \/ \E i \in 0..StackBase - 1 : krnl_page_table[i] = f
    <3>1. Known' = On(f1) \cup On(initial_ks) \cup Tabled(pt)
                   \cup {krnl_page_table[i] : i \in 0..StackBase - 1}
      BY DEF Known, Tabled, On
    <3> QED BY <2>0, <2>3, <3>1 DEF Around
  <2>5. Around(page_table, free_frames, f) /\ ~Around(pt, f1, f)
    BY <1>1, <2>1, <2>4
  <2> QED BY <1>1, <2>5 DEF AllKept
<1> QED BY <1>1 DEF Returned

(* A step between the table of q and the free list. *)
LEMMA TableReturned ==
    ASSUME page_table \in [Pid -> Table], free_frames \in Seq(Frame),
           page_table' \in [Pid -> Table], free_frames' \in Seq(Frame), NEW q \in Pid,
           \A r \in Pid : r # q => page_table'[r] = page_table[r],
           krnl_page_table' = krnl_page_table, initial_ks' = initial_ks,
           Settles(page_table[q], free_frames, page_table'[q], free_frames')
    PROVE  Returned /\ NoNewZero
<1>1. /\ \A r \in Pid : DOMAIN page_table[r] = Page /\ DOMAIN page_table'[r] = Page
      /\ DOMAIN free_frames = 1..Len(free_frames)
      /\ DOMAIN free_frames' = 1..Len(free_frames')
  BY DEF Table
<1>2. PICK pt : pt = page_table' OBVIOUS
<1>3. PICK f1 : f1 = free_frames' OBVIOUS
<1>4. /\ Keeps(page_table[q], free_frames, pt[q], f1)
      /\ Clears(UserPages, page_table[q], free_frames, pt[q], f1)
  BY <1>2, <1>3 DEF Settles
<1>5. /\ \A r \in Pid : DOMAIN page_table[r] = Page /\ DOMAIN pt[r] = Page
      /\ DOMAIN free_frames = 1..Len(free_frames) /\ DOMAIN f1 = 1..Len(f1)
      /\ \A r \in Pid : r # q => pt[r] = page_table[r]
  BY <1>1, <1>2, <1>3
<1>6. ASSUME NEW f, f \notin {0, NoFrame}, Around(page_table, free_frames, f),
             ~Around(pt, f1, f)
      PROVE  \E i \in Page : page_table[q][i] = f /\ pt[q][i] \notin {f, NoFrame}
  <2>1. ~Has(pt[q], f) /\ ~Has(f1, f) BY <1>5, <1>6 DEF Around, Has, On
  <2>2. f \notin On(free_frames) BY <1>4, <1>5, <1>6, <2>1 DEF Keeps, On
  <2>3. PICK p \in Pid, i \in Page : page_table[p][i] = f
    BY <1>6, <2>2 DEF Around
  <2>4. p = q BY <1>5, <1>6, <2>3 DEF Around
  <2>5. pt[q][i] \notin {f, NoFrame} BY <1>4, <1>5, <1>6, <2>1, <2>3, <2>4 DEF Keeps
  <2> QED BY <2>3, <2>4, <2>5
<1>7. AllKept(page_table, free_frames, pt, f1) BY <1>6 DEF AllKept
<1>8. Returned BY <1>2, <1>3, <1>7, KeptReturned
<1>9. NoNewZero
  <2>0. UserPages \subseteq Page /\ UserPages = 0..NPages - 1
    BY MemoryAssumption DEF UserPages, Page
  <2> SUFFICES ASSUME ~ZeroInUse, f1 # <<>> PROVE ~ZeroInUse'
    BY <1>3 DEF NoNewZero
  <2>1. /\ \A k \in DOMAIN free_frames : free_frames[k] # 0
        /\ \A r \in Pid, i \in UserPages : page_table[r][i] # 0
    BY <1>5, <2>0 DEF ZeroInUse, On
  <2>2. (\A i \in UserPages : pt[q][i] # 0) /\ (\A k \in DOMAIN f1 : f1[k] # 0)
    BY <1>4, <2>1 DEF Clears
  <2>3. \A r \in Pid, i \in UserPages : pt[r][i] # 0 BY <1>5, <2>1, <2>2
  <2> QED BY <1>2, <1>3, <1>5, <2>0, <2>2, <2>3 DEF ZeroInUse, On
<1> QED BY <1>8, <1>9

LEMMA PanicReturned ==
    ASSUME Panic
    PROVE  Returned /\ NoNewZero
<1>1. /\ page_table' = page_table /\ free_frames' = free_frames
      /\ krnl_page_table' = krnl_page_table /\ initial_ks' = initial_ks
  BY DEF Panic, tables, kernelVars
<1> QED BY <1>1, StillReturned

LEMMA BrkReturned ==
    ASSUME Inv, NEW p \in Pid, NEW addr \in UserAddrs, Brk(p, addr)
    PROVE  Returned /\ NoNewZero
<1> DEFINE a == next_heap_pn[p]
           b == UpToPage(addr) - next_heap_pn[p]
           pages == Up(a, b)
           n == Granted(free_frames, Len(pages))
           t == page_table[p]
           t1 == Mapped(t, pages, free_frames)
           f1 == Left(free_frames, Len(pages))
<1>1. CASE Panic BY <1>1, PanicReturned
<1>2. CASE ~Panic
  <2>1. /\ \A k \in 1..n : pages[k] \in Page
        /\ page_table' = [page_table EXCEPT ![p] = t1] /\ free_frames' = f1
        /\ krnl_page_table' = krnl_page_table /\ initial_ks' = initial_ks
    BY <1>2 DEF Brk, kernelVars
  <2>2. Calls(p) BY DEF Brk, Counted
  <2>3. /\ page_table \in [Pid -> Table] /\ free_frames \in Seq(Frame)
        /\ t \in [Page -> Frame \cup {NoFrame}] /\ next_heap_pn \in [Pid -> Int]
    BY <2>2, CallFacts
  <2>4. a \in Int /\ b \in Int
    <3>1. addr \in Int BY MemoryAssumption
    <3>2. UpToPage(addr) \in Int BY <3>1, PageFacts
    <3> QED BY <2>3, <3>2
  <2> HIDE DEF a, b
  <2>5. Len(pages) \in Nat BY <2>4, RunLength
  <2>6. n \in 0..Len(pages) BY <2>3, <2>5, GrantedFacts
  <2>7. \A j, k \in 1..n : pages[j] = pages[k] => j = k
    <3>1. CASE b >= 0
      <4>1. pages \in [1..b -> Int] /\ b \in Nat BY <2>4, <3>1 DEF Up
      <4>2. Len(pages) = b BY <4>1
      <4> HIDE DEF n
      <4>3. \A k \in 1..n : k \in 1..b BY <2>4, <2>6, <4>1, <4>2
      <4>4. \A k \in 1..n : pages[k] = a + k - 1 BY <4>3 DEF Up
      <4>5. ASSUME NEW j \in 1..n, NEW k \in 1..n, pages[j] = pages[k] PROVE j = k
        <5>1. a + j - 1 = a + k - 1 BY <4>4, <4>5
        <5> QED BY <2>4, <5>1
      <4> QED BY <4>5
    <3>2. CASE b < 0
      <4>1. 1..b = {} BY <2>4, <3>2
      <4>2. pages = [k \in {} |-> a + k - 1] BY <4>1 DEF Up
      <4>3. ASSUME NEW f, f = [k \in DOMAIN f |-> f[k]], DOMAIN f = {} PROVE f = <<>>
        BY <4>3
      <4>4. pages = <<>> BY <4>2, <4>3
      <4>5. Len(pages) = 0 BY <4>4
      <4> HIDE DEF n
      <4> QED BY <2>6, <4>5
    <3> QED BY <2>4, <3>1, <3>2
  <2>8. UserPages \in SUBSET Page BY MemoryAssumption DEF UserPages, Page
  <2> HIDE DEF pages
  <2>9. Keeps(t, free_frames, t1, f1) /\ Clears(UserPages, t, free_frames, t1, f1)
    BY <2>1, <2>3, <2>5, <2>7, <2>8, TakeKeeps
  <2>10. t1 \in Table
    <3>1. MapsMore(Page, t, pages, n, t1) BY <2>3, <2>5, StillMapped
    <3> QED BY <3>1 DEF MapsMore, Table
  <2>11. f1 \in Seq(Frame) BY <2>3, <2>5, LeftFacts
  <2> HIDE DEF t1, f1
  <2>12. /\ page_table' \in [Pid -> Table] /\ page_table'[p] = t1
         /\ \A q \in Pid : q # p => page_table'[q] = page_table[q]
    BY <2>1, <2>3, <2>10
  <2>13. /\ Settles(page_table[p], free_frames, page_table'[p], free_frames')
         /\ free_frames' \in Seq(Frame)
    BY <2>1, <2>9, <2>11, <2>12 DEF Settles
  <2> QED BY <2>1, <2>3, <2>12, <2>13, TableReturned
<1> QED BY <1>1, <1>2

LEMMA TrapReturned ==
    ASSUME Inv, NEW p \in Pid, NEW addr \in UserAddrs, TrapMemory(p, addr)
    PROVE  Returned /\ NoNewZero
<1> DEFINE t == page_table[p]
           top == next_stack_pn[p]
           lo == GrowsTo(addr)
           f1 == SubSeq(free_frames, top - lo + 1, Len(free_frames))
           t1 == Grown(t, free_frames, lo, top)
<1>1. CASE Panic BY <1>1, PanicReturned
<1>2. CASE ~Panic
  <2>0. Calls(p) BY DEF TrapMemory, Counted
  <2>1. /\ page_table \in [Pid -> Table] /\ free_frames \in Seq(Frame)
        /\ t \in [Page -> Frame \cup {NoFrame}]
        /\ next_stack_pn \in [Pid -> -1..NPages - 1] /\ NPages \in Nat
    BY <2>0, CallFacts
  <2>2. lo \in Int
    <3>1. addr \in Int BY MemoryAssumption
    <3>2. DownToPage(addr) \in Int BY <3>1, PageFacts
    <3> QED BY <3>2 DEF GrowsTo
  <2>3. lo <= top /\ lo >= -1 BY <1>2 DEF TrapMemory, StackGrowth
  <2>4. top \in -1..NPages - 1 /\ top \in Int BY <2>1
  <2>5. lo \in -1..NPages - 1 BY <2>1, <2>2, <2>3, <2>4
  <2>6. top - (top - lo) = lo BY <2>2, <2>4
  <2>7. /\ page_table' = [page_table EXCEPT ![p] = t1] /\ free_frames' = f1
        /\ UNCHANGED kernelVars
    <3>1. /\ page_table' = [page_table EXCEPT ![p] =
                [i \in Page |->
                    IF i \in top - (top - lo) + 1..top
                    THEN IF top - i + 1 <= Len(free_frames)
                         THEN free_frames[top - i + 1] ELSE 0
                    ELSE t[i]]]
          /\ free_frames' = SubSeq(free_frames, (top - lo) + 1, Len(free_frames))
          /\ UNCHANGED kernelVars
      BY <1>2, Zenon DEF TrapMemory
    <3> QED BY <2>6, <3>1, Zenon DEF Grown
  <2>8. krnl_page_table' = krnl_page_table /\ initial_ks' = initial_ks
    BY <2>7 DEF kernelVars
  <2>9. Settles(t, free_frames, t1, f1) /\ GrowsInto(t, free_frames, t1, f1, lo, top)
    <3> HIDE DEF t, top, lo
    <3> QED BY <2>1, <2>3, <2>4, <2>5, GrownSettles, GrownFacts
  <2> HIDE DEF t1, f1, lo, top
  <2>10. t1 \in Table /\ f1 \in Seq(Frame) BY <2>9 DEF GrowsInto, Table
  <2>11. /\ page_table' \in [Pid -> Table] /\ page_table'[p] = t1
         /\ \A q \in Pid : q # p => page_table'[q] = page_table[q]
    BY <2>1, <2>7, <2>10
  <2>12. /\ Settles(page_table[p], free_frames, page_table'[p], free_frames')
         /\ free_frames' \in Seq(Frame)
    BY <2>7, <2>9, <2>10, <2>11
  <2> QED BY <2>1, <2>8, <2>11, <2>12, TableReturned
<1> QED BY <1>1, <1>2

LEMMA ForkReturned ==
    ASSUME Inv, NEW p \in Pid, Fork(p)
    PROVE  Returned /\ NoNewZero
<1> DEFINE pages == ForkPages(p)
           n == Granted(free_frames, Len(pages))
           child == ChildTable(pages, free_frames)
           f1 == Left(free_frames, Len(pages))
           np == next_pid
<1>1. CASE Panic BY <1>1, PanicReturned
<1>2. CASE ~Panic
  <2>1. /\ n >= 2 /\ page_table' = [page_table EXCEPT ![np] = child]
        /\ free_frames' = f1 /\ UNCHANGED kernelVars /\ Calls(p) /\ np <= MaxPid
    BY <1>2 DEF Fork, ForkPages, ChildTable
  <2>2. /\ page_table \in [Pid -> Table] /\ free_frames \in Seq(Frame)
        /\ Once(free_frames)
    BY <2>1, CallFacts
  <2>3. np \in Pid
    <3>1. np \in 2..MaxPid + 1 /\ MaxPid \in Nat
      BY MemoryAssumption DEF Inv, TypeOK
    <3> QED BY <2>1, <3>1 DEF Pid
  <2>4. page_table[np] = NoPages
    <3>1. np >= next_pid
      <4>1. np \in Int BY <2>3 DEF Pid
      <4> QED BY <4>1
    <3> QED BY <2>3, <3>1 DEF Inv, Unborn
  <2>5. ForkOrder(pages) BY <2>2, ForkPagesFacts
  <2> HIDE DEF pages
  <2>6. child \in Table /\ f1 \in Seq(Frame) BY <2>1, <2>2, <2>5, ChildFacts
  <2>7. Settles(NoPages, free_frames, child, f1) BY <2>2, <2>5, ChildSettles
  <2> HIDE DEF child, f1
  <2>8. /\ page_table' \in [Pid -> Table] /\ page_table'[np] = child
        /\ \A q \in Pid : q # np => page_table'[q] = page_table[q]
    BY <2>1, <2>2, <2>3, <2>6
  <2>9. /\ Settles(page_table[np], free_frames, page_table'[np], free_frames')
        /\ free_frames' \in Seq(Frame)
    BY <2>1, <2>4, <2>6, <2>7, <2>8
  <2>10. krnl_page_table' = krnl_page_table /\ initial_ks' = initial_ks
    BY <2>1 DEF kernelVars
  <2>11. PICK q \in Pid : q = np BY <2>3
  <2> QED BY <2>2, <2>8, <2>9, <2>10, <2>11, TableReturned
<1> QED BY <1>1, <1>2

(* Exec gives back the pages of the old program, and takes for the new. *)
LEMMA ExecReturned ==
    ASSUME Inv, NEW p \in Pid, NEW g \in Programs, Exec(p, g)
    PROVE  Returned /\ NoNewZero
<1> DEFINE t == page_table[p]
           t0 == Cleared(t)
           free == Push(ValidPfns(t, UserPages), free_frames)
           pages == ProgramPages(g)
           t1 == Mapped(t0, pages, free)
           f1 == Left(free, Len(pages))
<1>1. /\ Calls(p) /\ Fits(g)
      /\ page_table' = [page_table EXCEPT ![p] = t1] /\ free_frames' = f1
      /\ krnl_page_table' = krnl_page_table /\ initial_ks' = initial_ks
  BY DEF Exec, Counted, kernelVars
<1>2. /\ page_table \in [Pid -> Table] /\ free_frames \in Seq(Frame)
      /\ t \in [Page -> Frame \cup {NoFrame}]
      /\ Once(t) /\ Once(free_frames) /\ Apart(t, free_frames) /\ NPages \in Nat
  BY <1>1, CallFacts
<1>3. /\ t0 \in [Page -> Frame \cup {NoFrame}]
      /\ \A i \in Page : t0[i] = IF i \in UserPages THEN NoFrame ELSE t[i]
      /\ UserPages \in SUBSET Page
  <2>1. \A i \in Page : i < NPages <=> i \in UserPages
    BY <1>2 DEF Page, UserPages
  <2>2. t0 = [i \in Page |-> IF i < NPages THEN NoFrame ELSE t[i]]
    BY DEF Cleared
  <2>3. UserPages \in SUBSET Page BY <1>2 DEF UserPages, Page
  <2> HIDE DEF t0
  <2> QED BY <1>2, <2>1, <2>2, <2>3
<1> HIDE DEF t0
<1>4. free \in Seq(Frame) /\ Gives(t, UserPages, free_frames, free)
  BY <1>2, <1>3, GiveFacts
<1>5. /\ Len(pages) \in Nat /\ \A k \in 1..Len(pages) : pages[k] \in UserPages
      /\ \A j, k \in 1..Len(pages) : pages[j] = pages[k] => j = k
  BY <1>1, ProgramFacts
<1> HIDE DEF free, pages
<1>6. /\ \A k \in 1..Granted(free, Len(pages)) : pages[k] \in Page
      /\ \A j, k \in 1..Granted(free, Len(pages)) : pages[j] = pages[k] => j = k
  <2>1. Granted(free, Len(pages)) \in 0..Len(pages) BY <1>4, <1>5, GrantedFacts
  <2>2. \A k \in 1..Granted(free, Len(pages)) : k \in 1..Len(pages)
    BY <1>5, <2>1
  <2> QED BY <1>3, <1>5, <2>2
<1>7. Keeps(t0, free, t1, f1) /\ Clears(UserPages, t0, free, t1, f1)
  BY <1>3, <1>4, <1>5, <1>6, TakeKeeps
<1>8. t1 \in Table
  <2>1. MapsMore(Page, t0, pages, Granted(free, Len(pages)), t1)
    BY <1>3, <1>4, <1>5, StillMapped
  <2> QED BY <2>1 DEF MapsMore, Table
<1>9. f1 \in Seq(Frame) BY <1>4, <1>5, LeftFacts
<1> HIDE DEF t1, f1
<1>10. /\ DOMAIN t = Page /\ DOMAIN t0 = Page /\ DOMAIN free = 1..Len(free)
       /\ DOMAIN free_frames = 1..Len(free_frames)
  BY <1>2, <1>3, <1>4
<1>11. ASSUME NEW f \in On(free), f \notin {0, NoFrame}
       PROVE  Has(t1, f) \/ Has(f1, f)
  <2>1. PICK k \in DOMAIN free : f = free[k] BY <1>10 DEF On
  <2> QED BY <1>7, <1>11, <2>1 DEF Keeps
<1>12. Keeps(t, free_frames, t1, f1)
  <2>1. ASSUME NEW i \in Page, t[i] \notin {0, NoFrame}
        PROVE  t1[i] \notin {t[i], NoFrame} \/ Has(t1, t[i]) \/ Has(f1, t[i])
    <3>1. CASE i \in UserPages
      <4>1. t[i] \in On(free) BY <1>4, <2>1, <3>1 DEF Gives
      <4> QED BY <1>11, <2>1, <4>1
    <3>2. CASE i \notin UserPages
      <4>1. t0[i] = t[i] BY <1>3, <3>2
      <4> QED BY <1>7, <1>10, <2>1, <4>1 DEF Keeps
    <3> QED BY <3>1, <3>2
  <2>2. ASSUME NEW k \in 1..Len(free_frames), free_frames[k] \notin {0, NoFrame}
        PROVE  Has(t1, free_frames[k]) \/ Has(f1, free_frames[k])
    <3>1. free_frames[k] \in On(free) BY <1>4 DEF Gives, On
    <3> QED BY <1>11, <2>2, <3>1
  <2> QED BY <1>10, <2>1, <2>2 DEF Keeps
<1>13. Clears(UserPages, t, free_frames, t1, f1)
  <2>1. ASSUME \A i \in UserPages : t[i] # 0,
               \A k \in DOMAIN free_frames : free_frames[k] # 0
        PROVE  (\A i \in UserPages : t0[i] # 0) /\ (\A k \in DOMAIN free : free[k] # 0)
    <3>1. \A i \in UserPages : t0[i] # 0 BY <1>3, ZeroIsFrame
    <3>2. \A k \in DOMAIN free : free[k] # 0 BY <1>4, <1>10, <2>1 DEF Gives
    <3> QED BY <3>1, <3>2
  <2> QED BY <1>7, <2>1 DEF Clears
<1>14. /\ page_table' \in [Pid -> Table] /\ page_table'[p] = t1
       /\ \A q \in Pid : q # p => page_table'[q] = page_table[q]
  BY <1>1, <1>2, <1>8
<1>15. /\ Settles(page_table[p], free_frames, page_table'[p], free_frames')
       /\ free_frames' \in Seq(Frame)
  BY <1>1, <1>9, <1>12, <1>13, <1>14 DEF Settles
<1> QED BY <1>1, <1>2, <1>14, <1>15, TableReturned

(* A switch takes at most the frames of one kernel stack. *)
LEMMA SwitchSettles ==
    ASSUME NEW old, NEW pt \in [Pid -> Table], NEW free \in Seq(Frame), NEW new \in Pid,
           new = active_proc', context_switch(old, pt, free), ~Panic
    PROVE  /\ page_table' \in [Pid -> Table] /\ free_frames' \in Seq(Frame)
           /\ \A q \in Pid : q # new => page_table'[q] = pt[q]
           /\ krnl_page_table' = krnl_page_table /\ initial_ks' = initial_ks
           /\ Settles(pt[new], free, page_table'[new], free_frames')
<1> DEFINE t == pt[new]
           t1 == Mapped(t, KStack, free)
           f1 == Left(free, 2)
<1>1. /\ page_table' = StackFor(new, pt, free) /\ free_frames' = FreeAfter(new, pt, free)
      /\ NoStackYet(pt[new]) => Granted(free, 2) = 2
      /\ UNCHANGED kernelVars
  BY DEF context_switch, StackFor, FreeAfter
<1>2. krnl_page_table' = krnl_page_table /\ initial_ks' = initial_ks
  BY <1>1 DEF kernelVars
<1>3. CASE ~NoStackYet(pt[new])
  <2>1. page_table' = pt /\ free_frames' = free
    BY <1>1, <1>3 DEF StackFor, FreeAfter
  <2>2. Settles(pt[new], free, pt[new], free) BY StillSettles
  <2> QED BY <1>2, <2>1, <2>2
<1>4. CASE NoStackYet(pt[new])
  <2>1. page_table' = [pt EXCEPT ![new] = t1] /\ free_frames' = f1
    BY <1>1, <1>4 DEF StackFor, FreeAfter
  <2>2. /\ Len(KStack) = 2 /\ Len(KStack) \in Nat
        /\ KStack[1] = NPages /\ KStack[2] = NPages + 1
    BY DEF KStack
  <2>3. /\ NPages \in Page /\ NPages + 1 \in Page /\ NPages # NPages + 1
        /\ UserPages \in SUBSET Page
    BY MemoryAssumption DEF Page, UserPages
  <2>4. Granted(free, Len(KStack)) = 2 BY <1>1, <1>4, <2>2
  <2>5. /\ \A k \in 1..Granted(free, Len(KStack)) : KStack[k] \in Page
        /\ \A j, k \in 1..Granted(free, Len(KStack)) : KStack[j] = KStack[k] => j = k
    <3>1. \A k \in 1..2 : k = 1 \/ k = 2 OBVIOUS
    <3> QED BY <2>2, <2>3, <2>4, <3>1
  <2>6. t \in [Page -> Frame \cup {NoFrame}] BY DEF Table
  <2>7. Keeps(t, free, t1, f1) /\ Clears(UserPages, t, free, t1, f1)
    <3>1. PICK pages : pages = KStack OBVIOUS
    <3>2. /\ \A k \in 1..Granted(free, Len(pages)) : pages[k] \in Page
          /\ \A j, k \in 1..Granted(free, Len(pages)) : pages[j] = pages[k] => j = k
          /\ Len(pages) \in Nat /\ Len(pages) = 2
      BY <2>2, <2>5, <3>1
    <3>3. /\ Keeps(t, free, Mapped(t, pages, free), Left(free, Len(pages)))
          /\ Clears(UserPages, t, free, Mapped(t, pages, free), Left(free, Len(pages)))
      <4> HIDE DEF t
      <4> QED BY <2>3, <2>6, <3>2, TakeKeeps
    <3> QED BY <3>1, <3>2, <3>3
  <2>8. t1 \in Table
    <3>1. MapsMore(Page, t, KStack, Granted(free, Len(KStack)), t1)
      BY <2>2, <2>6, StillMapped
    <3> QED BY <3>1 DEF MapsMore, Table
  <2>9. f1 \in Seq(Frame) BY LeftFacts
  <2> HIDE DEF t1, f1
  <2>10. /\ page_table' \in [Pid -> Table] /\ page_table'[new] = t1
         /\ \A q \in Pid : q # new => page_table'[q] = pt[q]
    BY <2>1, <2>8
  <2> QED BY <1>2, <2>1, <2>7, <2>9, <2>10 DEF Settles
<1> QED BY <1>3, <1>4

LEMMA SwitchReturned ==
    ASSUME Inv, NEW old, context_switch(old, page_table, free_frames),
           active_proc' \in Pid
    PROVE  Returned /\ NoNewZero
<1>1. CASE Panic BY <1>1, PanicReturned
<1>2. CASE ~Panic
  <2>1. PICK pt \in [Pid -> Table] : pt = page_table BY DEF Inv, TypeOK, Table
  <2>2. PICK free \in Seq(Frame) : free = free_frames BY DEF Inv, TypeOK
  <2>3. PICK new \in Pid : new = active_proc' OBVIOUS
  <2>4. context_switch(old, pt, free) BY <2>1, <2>2
  <2>5. /\ page_table' \in [Pid -> Table] /\ free_frames' \in Seq(Frame)
        /\ \A q \in Pid : q # new => page_table'[q] = pt[q]
        /\ krnl_page_table' = krnl_page_table /\ initial_ks' = initial_ks
        /\ Settles(pt[new], free, page_table'[new], free_frames')
    BY <1>2, <2>3, <2>4, SwitchSettles
  <2>6. /\ page_table \in [Pid -> Table] /\ free_frames \in Seq(Frame)
        /\ \A q \in Pid : q # new => page_table'[q] = page_table[q]
        /\ Settles(page_table[new], free_frames, page_table'[new], free_frames')
    BY <2>1, <2>2, <2>5
  <2> QED BY <2>5, <2>6, TableReturned
<1> QED BY <1>1, <1>2

(* Exit gives back all pages, before the switch takes from them. *)
LEMMA ExitReturned ==
    ASSUME Inv, NEW p \in Pid, Exit(p)
    PROVE  Returned /\ NoNewZero
<1> DEFINE t == page_table[p]
           pts == [page_table EXCEPT ![p] = NoPages]
           pushed == Push(ExitFrees(p), free_frames)
<1>1. /\ Calls(p) /\ ~panic /\ p = active_proc /\ active_proc # Idle
      /\ normal_schedule(ready_queue, NoProc)
      /\ context_switch(NoProc, pts, pushed)
  BY DEF Exit, Calls
<1>2. active_proc' \in On(ready_queue) BY <1>1, ChooseFacts
<1>3. /\ page_table \in [Pid -> Table] /\ free_frames \in Seq(Frame)
      /\ t \in [Page -> Frame \cup {NoFrame}]
      /\ \A i \in StackPages : t[i] \in Frame \ {0}
      /\ Once(t) /\ Once(free_frames) /\ Apart(t, free_frames)
  BY <1>1, CallFacts
<1>4. /\ NoPages \in [Page -> Frame \cup {NoFrame}] /\ NoPages \in Table
      /\ \A i \in Page : NoPages[i] = NoFrame
  BY DEF NoPages, Table
<1>5. pushed \in Seq(Frame) /\ Gives(t, Page, free_frames, pushed)
  <2>1. ExitFrees(p) = ValidPfns(t, Page) BY DEF ExitFrees
  <2>2. \A i \in Page : NoPages[i] = IF i \in Page THEN NoFrame ELSE t[i] BY <1>4
  <2>3. Page \in SUBSET Page OBVIOUS
  <2>4. /\ Push(ValidPfns(t, Page), free_frames) \in Seq(Frame)
        /\ Gives(t, Page, free_frames, Push(ValidPfns(t, Page), free_frames))
    <3> HIDE DEF t
    <3> QED BY <1>3, <1>4, <2>2, <2>3, GiveFacts
  <2> QED BY <2>1, <2>4
<1>6. /\ pts \in [Pid -> Table] /\ pts[p] = NoPages
      /\ \A q \in Pid : q # p => pts[q] = page_table[q]
  BY <1>3, <1>4
<1> HIDE DEF pts, pushed
<1>7. CASE Panic BY <1>7, PanicReturned
<1>8. CASE ~Panic
  <2>1. PICK pt \in [Pid -> Table] : pt = pts BY <1>6
  <2>2. PICK free \in Seq(Frame) : free = pushed BY <1>5
  <2>3. PICK new \in Pid : new = active_proc'
    <3>1. ready_queue \in Seq(Pid) BY DEF Inv, TypeOK
    <3>2. On(ready_queue) \subseteq Pid BY <3>1, OnSubset
    <3> QED BY <1>2, <3>2
  <2>4. PICK old : old = NoProc OBVIOUS
  <2>5. context_switch(old, pt, free) BY <1>1, <2>1, <2>2, <2>4
  <2>6. /\ page_table' \in [Pid -> Table] /\ free_frames' \in Seq(Frame)
        /\ \A q \in Pid : q # new => page_table'[q] = pt[q]
        /\ krnl_page_table' = krnl_page_table /\ initial_ks' = initial_ks
        /\ Settles(pt[new], free, page_table'[new], free_frames')
    BY <1>8, <2>3, <2>5, SwitchSettles
  <2>7. PICK pt1 \in [Pid -> Table] : pt1 = page_table' BY <2>6
  <2>8. PICK f1 \in Seq(Frame) : f1 = free_frames' BY <2>6
  <2>9. /\ \A q \in Pid : q # new => pt1[q] = pt[q]
        /\ Keeps(pt[new], free, pt1[new], f1)
        /\ Clears(UserPages, pt[new], free, pt1[new], f1)
    BY <2>6, <2>7, <2>8 DEF Settles
  <2>10. /\ pt[p] = NoPages /\ \A q \in Pid : q # p => pt[q] = page_table[q]
         /\ Gives(t, Page, free_frames, free)
    BY <1>5, <1>6, <2>1, <2>2
  <2>11. /\ \A q \in Pid : DOMAIN pt[q] = Page /\ DOMAIN pt1[q] = Page
         /\ DOMAIN free = 1..Len(free) /\ DOMAIN f1 = 1..Len(f1)
         /\ DOMAIN free_frames = 1..Len(free_frames) /\ DOMAIN t = Page
    BY <1>3 DEF Table
  <2>12. ASSUME NEW f, f \notin {0, NoFrame}, ~Around(pt1, f1, f)
         PROVE  f \notin On(free) /\ ~Has(pt1[new], f) /\ ~Has(f1, f)
    <3>1. ~Has(pt1[new], f) /\ ~Has(f1, f) BY <2>11, <2>12 DEF Around, Has, On
    <3> QED BY <2>9, <2>11, <2>12, <3>1 DEF Keeps, On
  <2>13. ASSUME NEW f, f \notin {0, NoFrame}, Around(page_table, free_frames, f),
                ~Around(pt1, f1, f)
         PROVE  \E q \in Pid, i \in Page :
                   page_table[q][i] = f /\ pt1[q][i] \notin {f, NoFrame}
    <3>1. f \notin On(free) /\ ~Has(pt1[new], f) /\ ~Has(f1, f) BY <2>12, <2>13
    <3>2. f \notin On(free_frames) BY <2>10, <3>1 DEF Gives
    <3>3. PICK q \in Pid, i \in Page : page_table[q][i] = f
      BY <2>13, <3>2 DEF Around
    <3>4. q # p
      <4>1. q = p => t[i] \in On(free) BY <2>10, <2>13, <3>3 DEF Gives
      <4> QED BY <3>1, <3>3, <4>1
    <3>5. pt[q][i] = f BY <2>10, <3>3, <3>4
    <3>6. q = new BY <2>9, <2>13, <3>5 DEF Around
    <3>7. pt1[new][i] \notin {f, NoFrame}
      BY <2>9, <2>11, <2>13, <3>1, <3>5, <3>6 DEF Keeps
    <3> QED BY <3>3, <3>6, <3>7
  <2>14. AllKept(page_table, free_frames, pt1, f1) BY <2>13 DEF AllKept
  <2>15. Returned BY <2>6, <2>7, <2>8, <2>14, KeptReturned
  <2>16. NoNewZero
    <3>0. /\ UserPages \subseteq Page /\ UserPages = 0..NPages - 1
          /\ Page = UserPages \cup StackPages
      BY MemoryAssumption DEF UserPages, Page, StackPages
    <3> SUFFICES ASSUME ~ZeroInUse, f1 # <<>> PROVE ~ZeroInUse'
      BY <2>8 DEF NoNewZero
    <3>1. /\ \A k \in 1..Len(free_frames) : free_frames[k] # 0
          /\ \A r \in Pid, i \in UserPages : page_table[r][i] # 0
      BY <3>0 DEF ZeroInUse, On
    <3>2. \A i \in Page : t[i] # 0 BY <1>3, <3>0, <3>1
    <3>3. \A k \in DOMAIN free : free[k] # 0 BY <2>10, <2>11, <3>1, <3>2 DEF Gives
    <3>4. \A r \in Pid, i \in UserPages : pt[r][i] # 0
      BY <1>4, <2>10, <3>0, <3>1, ZeroIsFrame
    <3>5. (\A i \in UserPages : pt1[new][i] # 0) /\ (\A k \in DOMAIN f1 : f1[k] # 0)
      BY <2>9, <3>3, <3>4 DEF Clears
    <3>6. \A r \in Pid, i \in UserPages : pt1[r][i] # 0 BY <2>9, <3>4, <3>5
    <3> QED BY <2>7, <2>8, <2>11, <3>0, <3>5, <3>6 DEF ZeroInUse, On
  <2> QED BY <2>15, <2>16
<1> QED BY <1>7, <1>8

LEMMA KernelBrkReturned ==
    ASSUME Inv, NEW addr \in KernelBrks, SetKernelBrk(addr)
    PROVE  Returned /\ NoNewZero
<1> DEFINE lo == DownToPage(kernel_brk)
           hi == DownToPage(addr)
           pages == Up(lo, hi - lo)
           n == Granted(free_frames, Len(pages))
           K == 0..StackBase - 1
           kt1 == Mapped(krnl_page_table, pages, free_frames)
           free1 == Left(free_frames, Len(pages))
<1>1. /\ addr > kernel_brk /\ addr < StackBase * PAGESIZE
      /\ krnl_page_table' = kt1 /\ free_frames' = free1
      /\ page_table' = page_table /\ initial_ks' = initial_ks
  BY DEF SetKernelBrk, tables
<1>2. /\ free_frames \in Seq(Frame) /\ kernel_brk \in Nat
      /\ krnl_page_table \in [K -> Frame \cup {NoFrame}]
  BY DEF Inv, TypeOK
<1>3. addr \in Nat /\ StackBase \in Int /\ PAGESIZE \in Nat
  BY MemoryAssumption DEF StackBase
<1>4. /\ lo \in Nat /\ hi \in Nat /\ lo <= hi /\ hi < StackBase
  <2>1. lo \in Nat
    <3>1. kernel_brk \in Int /\ kernel_brk >= 0 BY <1>2
    <3> QED BY <3>1, PageFacts
  <2>2. hi \in Nat /\ hi < StackBase BY <1>1, <1>3, PageFacts
  <2>3. lo <= hi BY <1>1, <1>2, <1>3, PageFacts
  <2> QED BY <2>1, <2>2, <2>3
<1> HIDE DEF lo, hi
<1>5. Len(pages) = hi - lo /\ \A k \in 1..hi - lo : pages[k] = lo + k - 1
  <2>1. pages = [k \in 1..hi - lo |-> lo + k - 1] BY DEF Up
  <2>2. hi - lo \in Nat BY <1>4
  <2>3. pages \in [1..hi - lo -> Int] BY <1>4, <2>1
  <2> HIDE DEF pages
  <2> QED BY <2>1, <2>2, <2>3
<1>6. Len(pages) \in Nat BY <1>4, <1>5
<1> HIDE DEF pages
<1>7. /\ \A k \in 1..n : pages[k] \in K
      /\ \A j, k \in 1..n : pages[j] = pages[k] => j = k
  <2>1. n \in 0..Len(pages) BY <1>2, <1>6, GrantedFacts
  <2> HIDE DEF n
  <2>2. \A k \in 1..n : k \in 1..hi - lo /\ pages[k] = lo + k - 1
    BY <1>4, <1>5, <2>1
  <2>3. ASSUME NEW k \in 1..n PROVE pages[k] \in K
    BY <1>3, <1>4, <2>2
  <2>4. ASSUME NEW j \in 1..n, NEW k \in 1..n, pages[j] = pages[k] PROVE j = k
    <3>1. lo + j - 1 = lo + k - 1 BY <2>2, <2>4
    <3> QED BY <1>4, <3>1
  <2> QED BY <2>3, <2>4
<1>8. /\ Keeps(krnl_page_table, free_frames, kt1, free1)
      /\ Clears({}, krnl_page_table, free_frames, kt1, free1)
  <2> HIDE DEF K
  <2>1. {} \in SUBSET K OBVIOUS
  <2> QED BY <1>2, <1>6, <1>7, <2>1, TakeKeeps
<1>9. kt1 \in [K -> Frame \cup {NoFrame}]
  <2> HIDE DEF K
  <2>1. MapsMore(K, krnl_page_table, pages, n, kt1) BY <1>2, <1>6, StillMapped
  <2> QED BY <2>1 DEF MapsMore
<1>10. free1 \in Seq(Frame) BY <1>2, <1>6, LeftFacts
<1>11. PICK kt : kt = krnl_page_table' OBVIOUS
<1>12. PICK f1 \in Seq(Frame) : f1 = free_frames' BY <1>1, <1>10
<1> HIDE DEF kt1, free1
<1>13. /\ Keeps(krnl_page_table, free_frames, kt, f1)
       /\ Clears({}, krnl_page_table, free_frames, kt, f1)
       /\ DOMAIN kt = K /\ DOMAIN krnl_page_table = K /\ DOMAIN f1 = 1..Len(f1)
       /\ DOMAIN free_frames = 1..Len(free_frames)
  BY <1>1, <1>2, <1>8, <1>9, <1>11, <1>12
<1>14. Known = On(free_frames) \cup On(initial_ks) \cup Tabled(page_table)
               \cup {krnl_page_table[i] : i \in K}
  BY DEF Known, Tabled
<1>15. Known' = On(f1) \cup On(initial_ks) \cup Tabled(page_table)
                \cup {kt[i] : i \in K}
  BY <1>1, <1>11, <1>12 DEF Known, Tabled, On
<1>16. ASSUME NEW f, f \in Known, f \notin Known', f \notin {0, NoFrame}
       PROVE  \E i \in K : krnl_page_table[i] = f /\ kt[i] # f
  <2> HIDE DEF K
  <2>1. ~Has(kt, f) /\ ~Has(f1, f)
    <3>1. ~Has(kt, f) BY <1>13, <1>15, <1>16 DEF Has
    <3>2. ~Has(f1, f) BY <1>13, <1>15, <1>16 DEF Has, On
    <3> QED BY <3>1, <3>2
  <2>2. f \notin On(free_frames) BY <1>13, <1>16, <2>1 DEF Keeps, On
  <2>3. PICK i \in K : krnl_page_table[i] = f
    BY <1>14, <1>15, <1>16, <2>2
  <2>4. kt[i] # f BY <1>13, <2>1 DEF Has
  <2> QED BY <2>3, <2>4
<1>17. Returned BY <1>11, <1>16 DEF Returned
<1>18. NoNewZero
  <2> SUFFICES ASSUME ~ZeroInUse, f1 # <<>> PROVE ~ZeroInUse'
    BY <1>12 DEF NoNewZero
  <2>1. \A k \in DOMAIN free_frames : free_frames[k] # 0
    BY <1>13 DEF ZeroInUse, On
  <2>2. \A k \in DOMAIN f1 : f1[k] # 0 BY <1>13, <2>1 DEF Clears
  <2>3. 0 \notin On(f1) BY <1>13, <2>2 DEF On
  <2>4. ~\E p \in Pid, i \in 0..NPages - 1 : page_table[p][i] = 0 BY DEF ZeroInUse
  <2> QED BY <1>1, <1>12, <2>3, <2>4 DEF ZeroInUse, On
<1> QED BY <1>17, <1>18

LEMMA StepReturned ==
    ASSUME Inv, Next
    PROVE  Returned /\ NoNewZero
<1>0. TypeOK /\ (~panic => Queued) BY DEF Inv, Going
<1>1. ASSUME NEW p \in Pid, NEW addr \in UserAddrs, Brk(p, addr)
      PROVE  Returned /\ NoNewZero
  BY <1>1, BrkReturned
<1>2. ASSUME NEW p \in Pid, NEW addr \in UserAddrs, TrapMemory(p, addr)
      PROVE  Returned /\ NoNewZero
  BY <1>2, TrapReturned
<1>3. ASSUME NEW p \in Pid, Fork(p) PROVE Returned /\ NoNewZero
  BY <1>3, ForkReturned
<1>4. ASSUME NEW p \in Pid, NEW g \in Programs, Exec(p, g)
      PROVE  Returned /\ NoNewZero
  BY <1>4, ExecReturned
<1>5. ASSUME NEW p \in Pid, Exit(p) PROVE Returned /\ NoNewZero
  BY <1>5, ExitReturned
<1>6. ASSUME NEW p \in Pid, Block(p) PROVE Returned /\ NoNewZero
  <2>1. /\ ~panic /\ active_proc # Idle /\ normal_schedule(ready_queue, p)
        /\ context_switch(p, page_table, free_frames)
    BY <1>6 DEF Block, Calls
  <2>2. active_proc' \in On(ready_queue) BY <2>1, ChooseFacts
  <2>3. ready_queue \in Seq(Pid) BY <1>0 DEF TypeOK
  <2>4. active_proc' \in Pid BY <2>2, <2>3, OnSubset
  <2> QED BY <2>1, <2>4, SwitchReturned
<1>7. ASSUME NEW p \in Pid, Wake(p) PROVE Returned /\ NoNewZero
  <2>1. /\ page_table' = page_table /\ free_frames' = free_frames
        /\ krnl_page_table' = krnl_page_table /\ initial_ks' = initial_ks
    BY <1>7 DEF Wake, tables, kernelVars
  <2> QED BY <2>1, StillReturned
<1>8. ASSUME NEW addr \in KernelBrks, SetKernelBrk(addr) PROVE Returned /\ NoNewZero
  BY <1>8, KernelBrkReturned
<1>9. CASE Clock
  <2>1. CASE ready_queue # <<>>
    <3> DEFINE q == Append(ready_queue, active_proc)
    <3>1. active_proc \in Pid /\ ready_queue \in Seq(Pid) /\ Queued
      BY <1>0, <1>9 DEF TypeOK, Clock
    <3>2. q \in Seq(Pid) /\ NoDup(q) BY <3>1, AppendFacts DEF Queued
    <3>3. q # <<>> BY <3>1, SMTT(30)
    <3>4. Dispatch(q) BY <1>9, <2>1 DEF Clock, do_scheduler
    <3> HIDE DEF q
    <3>5. active_proc' \in Pid BY <3>2, <3>3, <3>4, DispatchFacts
    <3>6. PICK old : old = active_proc OBVIOUS
    <3>7. context_switch(old, page_table, free_frames)
      BY <1>9, <2>1, <3>6 DEF Clock
    <3> QED BY <3>5, <3>7, SwitchReturned
  <2>2. CASE ready_queue = <<>>
    <3>1. /\ page_table' = page_table /\ free_frames' = free_frames
          /\ krnl_page_table' = krnl_page_table /\ initial_ks' = initial_ks
      BY <1>9, <2>2 DEF Clock, tables, kernelVars
    <3> QED BY <3>1, StillReturned
  <2> QED BY <2>1, <2>2
<1> QED BY <1>1, <1>2, <1>3, <1>4, <1>5, <1>6, <1>7, <1>8, <1>9 DEF Next

(* While frames last, frame 0 is neither free nor mapped by a process:     *)
(* only a step that uses up the list brings it in.                         *)
THEOREM ZeroStaysOut == Spec => ZeroOnlyWhenExhausted
<1>1. Inv /\ [Next]_vars => [NoNewZero]_vars BY StepReturned
<1> HIDE DEF NoNewZero
<1>2. Spec => [][NoNewZero]_vars BY <1>1, SpecInv, PTL DEF Spec
<1> QED BY <1>2, PTL DEF NoNewZero, ZeroOnlyWhenExhausted

(* No frame gets lost but where another one is mapped over it: Exit, Exec, *)
(* and every call that fails half way keep all the others.                 *)
THEOREM NothingLost == Spec => FramesReturned
<1>1. Inv /\ [Next]_vars => [Returned]_vars BY StepReturned
<1> HIDE DEF Returned
<1>2. Spec => [][Returned]_vars BY <1>1, SpecInv, PTL DEF Spec
<1> QED BY <1>2, PTL DEF Returned, FramesReturned
=============================================================================
