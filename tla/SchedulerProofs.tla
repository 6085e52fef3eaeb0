--------------------------- MODULE SchedulerProofs ---------------------------
(***************************************************************************)
(* What the list primitives and the scheduling routines do to the set of   *)
(* processes on a list, for lists that hold nobody twice.                  *)
(***************************************************************************)
EXTENDS Scheduler, TLAPS, WellFoundedInduction

(* A walk that looks for one of several locations stops at the first. *)
LEMMA Smallest ==
    ASSUME NEW M \in SUBSET Nat, M # {}
    PROVE  \E i \in M : \A j \in M : i <= j
<1> DEFINE R == OpToRel(<, Nat)
<1>1. IsWellFoundedOn(R, Nat) BY NatLessThanWellFounded
<1>2. \A i, j \in Nat : <<j, i>> \in R <=> j < i BY DEF OpToRel
<1> HIDE DEF R
<1>3. PICK i \in M : \A j \in M : ~(<<j, i>> \in R) BY <1>1, WFMin
<1>4. \A j \in M : ~(j < i) BY <1>2, <1>3
<1> QED BY <1>4

(* A list_insert at the end adds one element. *)
LEMMA AppendFacts ==
    ASSUME NEW S, NEW s \in Seq(S), NEW e \in S
    PROVE  /\ Append(s, e) \in Seq(S)
           /\ On(Append(s, e)) = On(s) \cup {e}
           /\ NoDup(s) /\ e \notin On(s) => NoDup(Append(s, e))
<1>1. /\ Append(s, e) \in Seq(S)
      /\ Len(Append(s, e)) = Len(s) + 1 /\ Len(s) \in Nat
      /\ \A i \in 1..Len(s) : Append(s, e)[i] = s[i]
      /\ Append(s, e)[Len(s) + 1] = e
  OBVIOUS
<1>2. On(Append(s, e)) = On(s) \cup {e}
  <2>1. ASSUME NEW x \in On(Append(s, e)) PROVE x \in On(s) \cup {e}
    BY <1>1 DEF On
  <2>2. ASSUME NEW x \in On(s) PROVE x \in On(Append(s, e))
    <3>1. PICK i \in 1..Len(s) : x = s[i] BY DEF On
    <3>2. i \in 1..Len(Append(s, e)) /\ Append(s, e)[i] = x BY <1>1, <3>1
    <3> QED BY <3>2 DEF On
  <2>3. e \in On(Append(s, e))
    <3>1. Len(s) + 1 \in 1..Len(Append(s, e)) BY <1>1
    <3> QED BY <1>1, <3>1 DEF On
  <2> QED BY <2>1, <2>2, <2>3
<1>3. NoDup(s) /\ e \notin On(s) => NoDup(Append(s, e))
  BY <1>1 DEF NoDup, On
<1> QED BY <1>1, <1>2, <1>3

(* A list_remove at location 1 takes the head off. *)
LEMMA TailFacts ==
    ASSUME NEW S, NEW s \in Seq(S), s # <<>>
    PROVE  /\ Head(s) \in S /\ Head(s) \in On(s)
           /\ Tail(s) \in Seq(S)
           /\ On(s) = On(Tail(s)) \cup {Head(s)}
           /\ NoDup(s) => NoDup(Tail(s)) /\ Head(s) \notin On(Tail(s))
<1>1. /\ Len(s) \in Nat /\ Len(s) >= 1
      /\ Head(s) = s[1] /\ Head(s) \in S
      /\ Tail(s) \in Seq(S)
      /\ Len(Tail(s)) = Len(s) - 1
      /\ \A i \in 1..Len(Tail(s)) : Tail(s)[i] = s[i + 1]
  OBVIOUS
<1>2. On(s) = On(Tail(s)) \cup {Head(s)}
  <2>1. ASSUME NEW x \in On(s) PROVE x \in On(Tail(s)) \cup {Head(s)}
    <3>1. PICK i \in 1..Len(s) : x = s[i] BY DEF On
    <3>2. CASE i = 1 BY <3>1, <3>2, <1>1
    <3>3. CASE i # 1
      <4>1. i - 1 \in 1..Len(Tail(s)) /\ Tail(s)[i - 1] = x
        BY <3>1, <3>3, <1>1
      <4> QED BY <4>1 DEF On
    <3> QED BY <3>2, <3>3
  <2>2. ASSUME NEW x \in On(Tail(s)) PROVE x \in On(s)
    <3>1. PICK i \in 1..Len(Tail(s)) : x = Tail(s)[i] BY DEF On
    <3>2. i + 1 \in 1..Len(s) /\ s[i + 1] = x BY <3>1, <1>1
    <3> QED BY <3>2 DEF On
  <2>3. Head(s) \in On(s)
    <3>1. 1 \in 1..Len(s) BY <1>1
    <3> QED BY <1>1, <3>1 DEF On
  <2> QED BY <2>1, <2>2, <2>3
<1>3. ASSUME NoDup(s) PROVE NoDup(Tail(s)) /\ Head(s) \notin On(Tail(s))
  BY <1>1, <1>3 DEF NoDup, On
<1> QED BY <1>1, <1>2, <1>3

(* list_remove takes one element off a list that holds it once. *)
LEMMA RemoveFacts ==
    ASSUME NEW S, NEW s \in Seq(S), NEW i \in 1..Len(s)
    PROVE  /\ list_remove(s, i) \in Seq(S)
           /\ Len(list_remove(s, i)) = Len(s) - 1
           /\ \A k \in 1..Len(s) - 1 :
                list_remove(s, i)[k] = IF k < i THEN s[k] ELSE s[k + 1]
           /\ NoDup(s) => /\ NoDup(list_remove(s, i))
                          /\ On(list_remove(s, i)) = On(s) \ {s[i]}
<1> DEFINE r == list_remove(s, i)
<1>1. /\ Len(s) \in Nat /\ Len(s) - 1 \in Nat
      /\ r = [k \in 1..Len(s) - 1 |-> IF k < i THEN s[k] ELSE s[k + 1]]
  BY DEF list_remove
<1>2. r \in Seq(S) /\ Len(r) = Len(s) - 1
  BY <1>1
<1>3. \A k \in 1..Len(s) - 1 : r[k] = IF k < i THEN s[k] ELSE s[k + 1]
  BY <1>1
<1> HIDE DEF r
<1>4. ASSUME NoDup(s) PROVE NoDup(r)
  BY <1>1, <1>2, <1>3, <1>4 DEF NoDup
<1>5. ASSUME NoDup(s) PROVE On(r) = On(s) \ {s[i]}
  <2>1. ASSUME NEW x \in On(r) PROVE x \in On(s) \ {s[i]}
    <3>1. PICK k \in 1..Len(r) : x = r[k] BY DEF On
    <3>2. CASE k < i
      <4>1. k \in 1..Len(s) /\ x = s[k] BY <3>1, <3>2, <1>1, <1>2, <1>3
      <4> QED BY <4>1, <3>2, <1>5 DEF On, NoDup
    <3>3. CASE ~(k < i)
      <4>1. k + 1 \in 1..Len(s) /\ x = s[k + 1]
        BY <3>1, <3>3, <1>1, <1>2, <1>3
      <4> QED BY <4>1, <3>3, <1>5 DEF On, NoDup
    <3> QED BY <3>2, <3>3
  <2>2. ASSUME NEW x \in On(s), x # s[i] PROVE x \in On(r)
    <3>1. PICK k \in 1..Len(s) : x = s[k] BY DEF On
    <3>2. CASE k < i
      <4>1. k \in 1..Len(r) /\ x = r[k] BY <3>1, <3>2, <1>1, <1>2, <1>3
      <4> QED BY <4>1 DEF On
    <3>3. CASE k > i
      <4>1. k - 1 \in 1..Len(r) /\ x = r[k - 1]
        BY <3>1, <3>3, <1>1, <1>2, <1>3
      <4> QED BY <4>1 DEF On
    <3> QED BY <3>1, <3>2, <3>3, <2>2
  <2> QED BY <2>1, <2>2
<1> QED BY <1>2, <1>3, <1>4, <1>5 DEF r

(* One list put behind another. *)
LEMMA ConcatFacts ==
    ASSUME NEW S, NEW s \in Seq(S), NEW t \in Seq(S)
    PROVE  /\ s \o t \in Seq(S)
           /\ On(s \o t) = On(s) \cup On(t)
           /\ NoDup(s) /\ NoDup(t) /\ On(s) \cap On(t) = {} => NoDup(s \o t)
<1> DEFINE c == s \o t
<1>1. /\ c \in Seq(S) /\ Len(c) = Len(s) + Len(t)
      /\ Len(s) \in Nat /\ Len(t) \in Nat
      /\ \A i \in 1..Len(s) : c[i] = s[i]
      /\ \A i \in 1..Len(t) : c[Len(s) + i] = t[i]
  OBVIOUS
<1> HIDE DEF c
<1>2. ASSUME NEW i \in 1..Len(c)
      PROVE  \/ i \in 1..Len(s) /\ c[i] = s[i]
             \/ i - Len(s) \in 1..Len(t) /\ c[i] = t[i - Len(s)]
  <2>1. CASE i <= Len(s) BY <1>1, <2>1
  <2>2. CASE i > Len(s)
    <3>1. i - Len(s) \in 1..Len(t) /\ i = Len(s) + (i - Len(s))
      BY <1>1, <2>2
    <3> QED BY <1>1, <3>1
  <2> QED BY <1>1, <2>1, <2>2
<1>3. On(c) = On(s) \cup On(t)
  <2>1. ASSUME NEW x \in On(c) PROVE x \in On(s) \cup On(t)
    BY <1>2 DEF On
  <2>2. ASSUME NEW x \in On(s) PROVE x \in On(c)
    <3>1. PICK i \in 1..Len(s) : x = s[i] BY DEF On
    <3>2. i \in 1..Len(c) /\ c[i] = x BY <1>1, <3>1
    <3> QED BY <3>2 DEF On
  <2>3. ASSUME NEW x \in On(t) PROVE x \in On(c)
    <3>1. PICK i \in 1..Len(t) : x = t[i] BY DEF On
    <3>2. Len(s) + i \in 1..Len(c) /\ c[Len(s) + i] = x BY <1>1, <3>1
    <3> QED BY <3>2 DEF On
  <2> QED BY <2>1, <2>2, <2>3
<1>4. ASSUME NoDup(s), NoDup(t), On(s) \cap On(t) = {} PROVE NoDup(c)
  <2> SUFFICES ASSUME NEW i \in 1..Len(c), NEW j \in 1..Len(c), c[i] = c[j]
               PROVE  i = j
    BY DEF NoDup
  <2>1. \A k \in 1..Len(s), l \in 1..Len(t) : s[k] # t[l]
    BY <1>4 DEF On
  <2>2. CASE i \in 1..Len(s) /\ c[i] = s[i]
    <3>1. j \in 1..Len(s) /\ c[j] = s[j] BY <1>2, <2>1, <2>2
    <3> QED BY <1>4, <2>2, <3>1 DEF NoDup
  <2>3. CASE i - Len(s) \in 1..Len(t) /\ c[i] = t[i - Len(s)]
    <3>1. j - Len(s) \in 1..Len(t) /\ c[j] = t[j - Len(s)]
      BY <1>2, <2>1, <2>3
    <3>2. i - Len(s) = j - Len(s) BY <1>4, <2>3, <3>1 DEF NoDup
    <3> QED BY <1>1, <3>2
  <2> QED BY <1>2, <2>2, <2>3
<1> QED BY <1>1, <1>3, <1>4 DEF c

(* The first n of a list and the others. *)
LEMMA SubSeqFacts ==
    ASSUME NEW S, NEW s \in Seq(S), NEW n \in 0..Len(s)
    PROVE  LET a == SubSeq(s, 1, n)
               b == SubSeq(s, n + 1, Len(s)) IN
           /\ Len(s) \in Nat
           /\ a \in Seq(S) /\ Len(a) = n /\ \A i \in 1..n : a[i] = s[i]
           /\ b \in Seq(S) /\ Len(b) = Len(s) - n
           /\ \A i \in 1..Len(s) - n : b[i] = s[n + i]
  OBVIOUS

(* They share nobody. *)
LEMMA SplitFacts ==
    ASSUME NEW S, NEW s \in Seq(S), NEW n \in 0..Len(s), NoDup(s)
    PROVE  LET a == SubSeq(s, 1, n)
               b == SubSeq(s, n + 1, Len(s)) IN
           /\ a \in Seq(S) /\ NoDup(a)
           /\ b \in Seq(S) /\ NoDup(b)
           /\ On(a) \cup On(b) = On(s) /\ On(a) \cap On(b) = {}
<1> DEFINE a == SubSeq(s, 1, n)
           b == SubSeq(s, n + 1, Len(s))
<1>1. /\ a \in Seq(S) /\ Len(a) = n /\ n \in Nat /\ Len(s) \in Nat
      /\ \A i \in 1..n : a[i] = s[i]
      /\ b \in Seq(S) /\ Len(b) = Len(s) - n
      /\ \A i \in 1..Len(s) - n : b[i] = s[n + i]
  BY SubSeqFacts
<1> HIDE DEF a, b
<1>2. NoDup(a) /\ NoDup(b)
  <2>1. NoDup(a)
    <3> SUFFICES ASSUME NEW i \in 1..Len(a), NEW j \in 1..Len(a), a[i] = a[j]
                 PROVE  i = j
      BY DEF NoDup
    <3>1. i \in 1..n /\ j \in 1..n BY <1>1
    <3>2. i \in 1..Len(s) /\ j \in 1..Len(s) /\ s[i] = s[j] BY <1>1, <3>1
    <3> QED BY <3>2 DEF NoDup
  <2>2. NoDup(b)
    <3> SUFFICES ASSUME NEW i \in 1..Len(b), NEW j \in 1..Len(b), b[i] = b[j]
                 PROVE  i = j
      BY DEF NoDup
    <3>1. n + i \in 1..Len(s) /\ n + j \in 1..Len(s) BY <1>1
    <3>2. n + i = n + j BY <1>1, <3>1 DEF NoDup
    <3> QED BY <1>1, <3>2
  <2> QED BY <2>1, <2>2
<1>3. ASSUME NEW x \in On(s) PROVE x \in On(a) \cup On(b)
  <2>1. PICK i \in 1..Len(s) : x = s[i] BY DEF On
  <2>2. CASE i <= n
    <3>1. i \in 1..n /\ Len(a) = n BY <1>1, <2>2
    <3>2. a[i] = x BY <1>1, <2>1, <3>1
    <3> QED BY <3>1, <3>2 DEF On
  <2>3. CASE i > n
    <3>1. i - n \in 1..Len(b) /\ b[i - n] = x BY <1>1, <2>1, <2>3
    <3> QED BY <3>1 DEF On
  <2> QED BY <1>1, <2>2, <2>3
<1>4. ASSUME NEW x \in On(a) PROVE x \in On(s)
  <2>1. PICK i \in 1..Len(a) : x = a[i] BY DEF On
  <2>2. i \in 1..Len(s) /\ s[i] = x BY <1>1, <2>1
  <2> QED BY <2>2 DEF On
<1>5. ASSUME NEW x \in On(b) PROVE x \in On(s) /\ x \notin On(a)
  <2>1. PICK i \in 1..Len(b) : x = b[i] BY DEF On
  <2>2. n + i \in 1..Len(s) /\ s[n + i] = x BY <1>1, <2>1
  <2>3. x \in On(s) BY <2>2 DEF On
  <2>4. ASSUME NEW j \in 1..Len(a) PROVE a[j] # x
    <3>1. j \in 1..Len(s) /\ a[j] = s[j] /\ j # n + i BY <1>1, <2>1
    <3> QED BY <2>2, <3>1 DEF NoDup
  <2> QED BY <2>3, <2>4 DEF On
<1>6. On(a) \cup On(b) = On(s) /\ On(a) \cap On(b) = {}
  BY <1>3, <1>4, <1>5
<1> QED BY <1>1, <1>2, <1>6 DEF a, b

(* The ways in which the handlers take the first element off a list, and put
   it behind another one. *)
LEMMA FirstFacts ==
    ASSUME NEW S, NEW s \in Seq(S), s # <<>>
    PROVE  /\ Len(s) \in Nat /\ Len(s) >= 1
           /\ list_remove(s, 1) = SubSeq(s, 2, Len(s))
           /\ SubSeq(s, 1, 1) = <<s[1]>> /\ Head(s) = s[1] /\ s[1] \in S
           /\ \A q \in Seq(S) : Append(q, s[1]) = q \o SubSeq(s, 1, 1)
<1>1. /\ Len(s) \in Nat /\ Len(s) >= 1 /\ 1 \in 1..Len(s)
      /\ s[1] \in S /\ Head(s) = s[1]
  OBVIOUS
<1>2. list_remove(s, 1) = SubSeq(s, 2, Len(s))
  <2>1. /\ list_remove(s, 1) \in Seq(S)
        /\ Len(list_remove(s, 1)) = Len(s) - 1
        /\ \A k \in 1..Len(s) - 1 : list_remove(s, 1)[k] = s[k + 1]
    BY <1>1, RemoveFacts
  <2>2. /\ SubSeq(s, 2, Len(s)) \in Seq(S)
        /\ Len(SubSeq(s, 2, Len(s))) = Len(s) - 1
        /\ \A k \in 1..Len(s) - 1 : SubSeq(s, 2, Len(s))[k] = s[k + 1]
    <3> DEFINE n == 1
    <3>1. n \in 0..Len(s) BY <1>1
    <3> HIDE DEF n
    <3>2. /\ SubSeq(s, n + 1, Len(s)) \in Seq(S)
          /\ Len(SubSeq(s, n + 1, Len(s))) = Len(s) - n
          /\ \A k \in 1..Len(s) - n : SubSeq(s, n + 1, Len(s))[k] = s[n + k]
      BY <3>1, SubSeqFacts
    <3> QED BY <3>2 DEF n
  <2> QED BY <2>1, <2>2
<1>3. SubSeq(s, 1, 1) = <<s[1]>>
  <2> DEFINE a == SubSeq(s, 1, 1)
             b == <<s[1]>>
  <2>1. a \in Seq(S) /\ Len(a) = 1 /\ \A k \in 1..1 : a[k] = s[1]
    <3>1. 1 \in 0..Len(s) BY <1>1
    <3> QED BY <1>1, <3>1, SubSeqFacts
  <2>2. b \in Seq(S) /\ Len(b) = 1 /\ \A k \in 1..1 : b[k] = s[1]
    BY <1>1
  <2> HIDE DEF a, b
  <2>3. a = b BY <2>1, <2>2
  <2> QED BY <2>3 DEF a, b
<1>4. ASSUME NEW q \in Seq(S) PROVE Append(q, s[1]) = q \o <<s[1]>>
  BY <1>1
<1> QED BY <1>1, <1>2, <1>3, <1>4

(* Nothing taken off a list, and nothing put behind one. *)
LEMMA NoneFacts ==
    ASSUME NEW S, NEW s \in Seq(S)
    PROVE  /\ SubSeq(s, 1, 0) = <<>> /\ SubSeq(s, 1, Len(s)) = s
           /\ s \o <<>> = s
<1>1. SubSeq(s, 1, 0) = <<>> OBVIOUS
<1>2. SubSeq(s, 1, Len(s)) = s
  <2>1. /\ SubSeq(s, 1, Len(s)) \in Seq(S) /\ Len(s) \in Nat
        /\ Len(SubSeq(s, 1, Len(s))) = Len(s)
        /\ \A k \in 1..Len(s) : SubSeq(s, 1, Len(s))[k] = s[k]
    OBVIOUS
  <2> QED BY <2>1
<1>3. s \o <<>> = s OBVIOUS
<1> QED BY <1>1, <1>2, <1>3

\* How many a handler wakes that wakes the first one if there is one.
OneIfAny(s) == IF s # <<>> THEN 1 ELSE 0

(* That one is taken off the list, whether or not the handler looks first. *)
LEMMA OneIfAnyFacts ==
    ASSUME NEW S, NEW s \in Seq(S)
    PROVE  LET n == OneIfAny(s) IN
           /\ n \in 0..Len(s)
           /\ list_remove(s, 1) = SubSeq(s, n + 1, Len(s))
           /\ list_remove(s, n) = SubSeq(s, n + 1, Len(s))
           /\ (IF s # <<>> THEN <<Head(s)>> ELSE <<>>) = SubSeq(s, 1, n)
<1>1. CASE s # <<>>
  <2>1. OneIfAny(s) = 1 /\ 1 + 1 = 2 BY <1>1 DEF OneIfAny
  <2>2. Len(s) \in Nat /\ Len(s) >= 1 BY <1>1, FirstFacts
  <2>3. 1 \in 0..Len(s) BY <2>2
  <2>4. list_remove(s, 1) = SubSeq(s, 2, Len(s)) BY <1>1, FirstFacts
  <2>5. <<Head(s)>> = SubSeq(s, 1, 1) BY <1>1, FirstFacts
  <2> QED BY <1>1, <2>1, <2>3, <2>4, <2>5
<1>2. CASE s = <<>>
  <2>1. OneIfAny(s) = 0 /\ Len(s) = 0 /\ 0 + 1 = 1 BY <1>2 DEF OneIfAny
  <2>2. list_remove(s, 1) = s /\ list_remove(s, 0) = s
    BY <2>1 DEF list_remove
  <2>3. SubSeq(s, 1, Len(s)) = s /\ SubSeq(s, 1, 0) = <<>> BY NoneFacts
  <2>4. 0 \in 0..Len(s) BY <2>1
  <2> QED BY <1>2, <2>1, <2>2, <2>3, <2>4
<1> QED BY <1>1, <1>2

(* What is on a list is of the kind the list is of. *)
LEMMA OnSubset ==
    ASSUME NEW S, NEW s \in Seq(S)
    PROVE  On(s) \subseteq S
  BY DEF On

(* Nobody is on a list exactly when it is empty. *)
LEMMA OnEmpty ==
    /\ On(<<>>) = {} /\ NoDup(<<>>)
    /\ \A S : \A s \in Seq(S) : On(s) = {} => s = <<>>
<1>1. On(<<>>) = {} /\ NoDup(<<>>) BY DEF On, NoDup
<1>2. ASSUME NEW S, NEW s \in Seq(S), s # <<>> PROVE On(s) # {}
  BY <1>2, TailFacts
<1> QED BY <1>1, <1>2

(* The walk for x finds it where the list holds it, if only once. *)
LEMMA RemoveFirstFacts ==
    ASSUME NEW S, NEW s \in Seq(S), NEW x, NoDup(s)
    PROVE  /\ RemoveFirst(s, x) \in Seq(S)
           /\ NoDup(RemoveFirst(s, x))
           /\ On(RemoveFirst(s, x)) = On(s) \ {x}
<1>1. CASE x \notin On(s) BY <1>1 DEF RemoveFirst
<1>2. CASE x \in On(s)
  <2>1. PICK i \in 1..Len(s) : s[i] = x BY <1>2 DEF On
  <2>2. \A j \in 1..i - 1 : s[j] # x BY <2>1 DEF NoDup
  <2>3. FirstAt(s, x) \in 1..Len(s) /\ s[FirstAt(s, x)] = x
    BY <2>1, <2>2 DEF FirstAt
  <2> QED BY <1>2, <2>3, RemoveFacts DEF RemoveFirst
<1> QED BY <1>1, <1>2

(* Moving idle to the end changes the order only; idle comes first after
   that only when it is alone. *)
LEMMA SkipIdleFacts ==
    ASSUME NEW S, NEW q \in Seq(S), q # <<>>, NoDup(q)
    PROVE  /\ SkipIdle(q) \in Seq(S) /\ SkipIdle(q) # <<>>
           /\ NoDup(SkipIdle(q))
           /\ On(SkipIdle(q)) = On(q)
           /\ Head(SkipIdle(q)) = Idle => On(q) = {Idle}
<1>1. CASE Head(q) # Idle BY <1>1 DEF SkipIdle
<1>2. CASE Head(q) = Idle
  <2> DEFINE t == Tail(q)
  <2>1. SkipIdle(q) = Append(t, Idle) BY <1>2 DEF SkipIdle
  <2>2. /\ t \in Seq(S) /\ Idle \in S /\ NoDup(t)
        /\ Idle \notin On(t) /\ On(q) = On(t) \cup {Idle}
    BY <1>2, TailFacts
  <2> HIDE DEF t
  <2>3. /\ Append(t, Idle) \in Seq(S) /\ NoDup(Append(t, Idle))
        /\ On(Append(t, Idle)) = On(q)
    BY <2>2, AppendFacts
  <2>4. Append(t, Idle) # <<>> BY <2>2
  <2>5. Head(Append(t, Idle)) = Idle => On(q) = {Idle}
    <3>1. CASE t = <<>>
      <4>1. On(t) = {} BY <3>1 DEF On
      <4> QED BY <4>1, <2>2
    <3>2. CASE t # <<>>
      <4>1. Head(Append(t, Idle)) = Head(t) BY <2>2, <3>2
      <4>2. Head(t) \in On(t) BY <2>2, <3>2, TailFacts
      <4> QED BY <4>1, <4>2, <2>2
    <3> QED BY <3>1, <3>2
  <2> QED BY <2>1, <2>3, <2>4, <2>5
<1> QED BY <1>1, <1>2

(* A context switch runs somebody off the queue and leaves the others. *)
LEMMA DispatchFacts ==
    ASSUME NEW S, NEW q \in Seq(S), q # <<>>, NoDup(q), Dispatch(q)
    PROVE  /\ active_proc' \in S /\ active_proc' \in On(q)
           /\ ready_queue' \in Seq(S)
           /\ NoDup(ready_queue')
           /\ On(ready_queue') = On(q) \ {active_proc'}
           /\ active_proc' = Idle => On(q) = {Idle}
<1>1. /\ SkipIdle(q) \in Seq(S) /\ SkipIdle(q) # <<>> /\ NoDup(SkipIdle(q))
      /\ On(SkipIdle(q)) = On(q)
      /\ Head(SkipIdle(q)) = Idle => On(q) = {Idle}
  BY SkipIdleFacts
<1>2. /\ active_proc' = Head(SkipIdle(q))
      /\ ready_queue' = Tail(SkipIdle(q))
  BY DEF Dispatch
<1> DEFINE r == SkipIdle(q)
<1> HIDE DEF r
<1>3. /\ Head(r) \in S /\ Head(r) \in On(r) /\ Tail(r) \in Seq(S)
      /\ On(r) = On(Tail(r)) \cup {Head(r)}
      /\ NoDup(Tail(r)) /\ Head(r) \notin On(Tail(r))
  BY <1>1, TailFacts DEF r
<1> QED BY <1>1, <1>2, <1>3 DEF r
=============================================================================
