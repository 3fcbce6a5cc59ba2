-------------------------- MODULE RtPushPullProofs --------------------------
(***************************************************************************)
(* What CPUs know of each other's real-time tasks is right, a pushed or    *)
(* pulled task is where it is queued, and the most important task of a     *)
(* CPU runs on it or is about to: for any number of CPUs, tasks and        *)
(* priorities.  With two CPUs, no task waits in the end that could run in  *)
(* the place of a less important one of the other.                         *)
(***************************************************************************)
EXTENDS RtPushPull, DataProofs

(* A list with an element inserted behind n others.                        *)
LEMMA InsertIs ==
  ASSUME NEW A, NEW q \in Seq(A), NEW p \in A, NEW n \in 0 .. Len(q)
  PROVE  /\ InsertAt(q, n + 1, p) \in Seq(A)
         /\ Len(InsertAt(q, n + 1, p)) = Len(q) + 1
         /\ \A k \in 1 .. Len(q) + 1 :
              InsertAt(q, n + 1, p)[k] =
                IF k <= n THEN q[k] ELSE IF k = n + 1 THEN p ELSE q[k - 1]
<1> DEFINE a == SubSeq(q, 1, n)
           b == SubSeq(q, n + 1, Len(q))
           ap == a \o <<p>>
           m == Len(q)
<1>1. m \in Nat /\ n \in Nat /\ n <= m /\ \A i \in 1 .. m : q[i] \in A
  OBVIOUS
<1>2. /\ a \in Seq(A) /\ Len(a) = n /\ \A i \in 1 .. n : a[i] = q[i]
  <2>1. 1 \in Int /\ n \in Int /\ \A i \in 1 .. n : q[i] \in A
    BY <1>1
  <2>2. /\ a \in Seq(A) /\ Len(a) = IF 1 <= n THEN n - 1 + 1 ELSE 0
        /\ \A i \in 1 .. n - 1 + 1 : a[i] = q[1 + i - 1]
    BY <2>1, SubSeqProperties
  <2>3. n - 1 + 1 = n /\ \A i \in 1 .. n : 1 + i - 1 = i
    BY <1>1
  <2> QED BY <1>1, <2>2, <2>3
<1>3. /\ b \in Seq(A) /\ Len(b) = m - n /\ \A i \in 1 .. m - n : b[i] = q[n + i]
  <2>1. n + 1 \in Int /\ m \in Int /\ \A i \in n + 1 .. m : q[i] \in A
    BY <1>1
  <2>2. /\ b \in Seq(A) /\ Len(b) = IF n + 1 <= m THEN m - (n + 1) + 1 ELSE 0
        /\ \A i \in 1 .. m - (n + 1) + 1 : b[i] = q[n + 1 + i - 1]
    BY <2>1, SubSeqProperties
  <2>3. m - (n + 1) + 1 = m - n /\ \A i \in 1 .. m - n : n + 1 + i - 1 = n + i
    BY <1>1
  <2>4. ~(n + 1 <= m) => m - n = 0
    BY <1>1
  <2> HIDE DEF b, m
  <2>5. Len(b) = m - n
    BY <2>2, <2>3, <2>4, Zenon
  <2> QED BY <1>1, <2>2, <2>3, <2>5
<1>4. InsertAt(q, n + 1, p) = ap \o b
  <2>1. PICK i \in Nat : i = n + 1
    BY <1>1
  <2>2. InsertAt(q, i, p) = (SubSeq(q, 1, i - 1) \o <<p>>) \o SubSeq(q, i, Len(q))
    BY ONLY TRUE DEF InsertAt
  <2>3. i - 1 = n
    BY <2>1, <1>1
  <2> QED BY <2>1, <2>2, <2>3
<1> HIDE DEF a, b, m
<1>5. /\ ap \in Seq(A) /\ Len(ap) = n + 1
      /\ \A i \in 1 .. n + 1 : ap[i] = IF i <= n THEN q[i] ELSE p
  <2>1. /\ <<p>> \in Seq(A) /\ Len(<<p>>) = 1 /\ <<p>>[1] = p
    OBVIOUS
  <2>2. /\ ap \in Seq(A) /\ Len(ap) = Len(a) + Len(<<p>>)
        /\ \A i \in 1 .. Len(a) + Len(<<p>>) : ap[i] = IF i <= Len(a) THEN a[i] ELSE <<p>>[i - Len(a)]
    BY <1>2, <2>1, ConcatProperties
  <2> QED BY <1>1, <1>2, <2>1, <2>2
<1> HIDE DEF ap
<1>6. /\ ap \o b \in Seq(A) /\ Len(ap \o b) = Len(ap) + Len(b)
      /\ \A i \in 1 .. Len(ap) + Len(b) : (ap \o b)[i] = IF i <= Len(ap) THEN ap[i] ELSE b[i - Len(ap)]
  BY <1>3, <1>5, ConcatProperties
<1>7. Len(ap) + Len(b) = m + 1
  BY <1>1, <1>3, <1>5
<1>8. ASSUME NEW k \in 1 .. m + 1
      PROVE  (ap \o b)[k] = IF k <= n THEN q[k] ELSE IF k = n + 1 THEN p ELSE q[k - 1]
  <2>1. CASE k <= n + 1
    <3>1. (ap \o b)[k] = ap[k] /\ k \in 1 .. n + 1
      BY <2>1, <1>1, <1>5, <1>6, <1>7
    <3>2. k <= n \/ k = n + 1
      BY <2>1, <1>1
    <3> QED BY <3>1, <3>2, <1>5, <1>1
  <2>2. CASE k > n + 1
    <3>1. (ap \o b)[k] = b[k - (n + 1)]
      BY <2>2, <1>1, <1>5, <1>6, <1>7
    <3>2. k - (n + 1) \in 1 .. m - n /\ n + (k - (n + 1)) = k - 1
      BY <2>2, <1>1
    <3>3. b[k - (n + 1)] = q[n + (k - (n + 1))]
      BY <3>2, <1>3
    <3>4. (ap \o b)[k] = q[k - 1]
      BY <3>1, <3>2, <3>3
    <3> QED BY <2>2, <3>4, <1>1
  <2>3. k <= n + 1 \/ k > n + 1
    BY <1>1
  <2> QED BY <2>1, <2>2, <2>3, Zenon
<1> QED BY <1>4, <1>6, <1>7, <1>8 DEF m

(* It holds that element and the others, each once.                        *)
LEMMA InsertHolds ==
  ASSUME NEW A, NEW q \in Seq(A), NEW p \in A, NEW n \in 0 .. Len(q), NEW W,
         QueueHolds(q, W), p \notin W
  PROVE  QueueHolds(InsertAt(q, n + 1, p), W \cup {p})
<1> DEFINE u == InsertAt(q, n + 1, p)
           m == Len(q)
<1>0. m \in Nat /\ n \in Nat /\ n <= m /\ DOMAIN q = 1 .. m
  OBVIOUS
<1>1. /\ m \in Nat /\ n \in Nat /\ n <= m /\ DOMAIN q = 1 .. m
      /\ u \in Seq(A) /\ DOMAIN u = 1 .. m + 1
      /\ \A k \in 1 .. m + 1 :
           u[k] = IF k <= n THEN q[k] ELSE IF k = n + 1 THEN p ELSE q[k - 1]
  <2>1. /\ u \in Seq(A) /\ Len(u) = m + 1
        /\ \A k \in 1 .. m + 1 :
             u[k] = IF k <= n THEN q[k] ELSE IF k = n + 1 THEN p ELSE q[k - 1]
    BY InsertIs
  <2> HIDE DEF u
  <2> QED BY <1>0, <2>1
<1> HIDE DEF u, m
<1>2. /\ \A k \in 1 .. m : q[k] \in W
      /\ \A a, b \in 1 .. m : q[a] = q[b] => a = b
      /\ \A x \in W : \E k \in 1 .. m : q[k] = x
  BY <1>1 DEF QueueHolds
<1>3. \A a, b \in 1 .. m + 1 : u[a] = u[b] => a = b
  <2> SUFFICES ASSUME NEW a \in 1 .. m + 1, NEW b \in 1 .. m + 1, u[a] = u[b] PROVE a = b
    OBVIOUS
  <2> DEFINE at(k) == IF k <= n THEN k ELSE k - 1
  <2>1. ASSUME NEW k \in 1 .. m + 1, k # n + 1
        PROVE  at(k) \in 1 .. m /\ u[k] = q[at(k)] /\ u[k] \in W
    <3>1. at(k) \in 1 .. m
      BY <2>1, <1>0
    <3>2. u[k] = q[at(k)]
      BY <2>1, <1>1
    <3> QED BY <3>1, <3>2, <1>2
  <2>2. u[n + 1] = p /\ n + 1 \in 1 .. m + 1
    BY <1>1
  <2>3. CASE a = n + 1 \/ b = n + 1
    BY <2>1, <2>2, <2>3
  <2>4. CASE a # n + 1 /\ b # n + 1
    <3>1. at(a) = at(b)
      BY <2>1, <2>4, <1>2
    <3> QED BY <3>1, <2>4, <1>0
  <2> QED BY <2>3, <2>4
<1>4. \A k \in 1 .. m + 1 : u[k] \in W \cup {p}
  BY <1>1, <1>2
<1>5. ASSUME NEW x \in W \cup {p} PROVE \E k \in 1 .. m + 1 : u[k] = x
  <2>1. CASE x = p
    <3>1. n + 1 \in 1 .. m + 1 /\ u[n + 1] = p
      BY <1>1
    <3> QED BY <2>1, <3>1
  <2>2. CASE x \in W
    <3>1. PICK k \in 1 .. m : q[k] = x
      BY <2>2, <1>2
    <3>2. CASE k <= n
      BY <3>1, <3>2, <1>1
    <3>3. CASE k > n
      <4>1. k + 1 \in 1 .. m + 1 /\ ~(k + 1 <= n) /\ k + 1 # n + 1 /\ (k + 1) - 1 = k
        BY <3>3, <1>1
      <4>2. u[k + 1] = x
        BY <4>1, <3>1, <1>1
      <4> QED BY <4>1, <4>2
    <3> QED BY <3>2, <3>3, <1>1
  <2> QED BY <2>1, <2>2
<1> QED BY <1>1, <1>3, <1>4, <1>5 DEF QueueHolds, u

(* Deleting an element moves the ones behind it up by one.                 *)
LEMMA DelIs ==
  ASSUME NEW q, NEW W, NEW p, QueueHolds(q, W), NEW A, q \in Seq(A)
  PROVE  /\ p \notin W => list_del(q, p) = q
         /\ p \in W => \E i \in 1 .. Len(q) :
              list_del(q, p) = [k \in 1 .. Len(q) - 1 |-> IF k < i THEN q[k] ELSE q[k + 1]]
<1>1. CASE p \notin W
  BY <1>1 DEF QueueHolds, list_del
<1>2. CASE p \in W
  <2> DEFINE i == CHOOSE j \in DOMAIN q : q[j] = p
  <2>1. \E j \in DOMAIN q : q[j] = p
    BY <1>2 DEF QueueHolds
  <2>2. i \in 1 .. Len(q)
    BY <2>1
  <2>3. list_del(q, p) = [k \in 1 .. Len(q) - 1 |-> IF k < i THEN q[k] ELSE q[k + 1]]
    BY <2>1 DEF list_del
  <2> HIDE DEF i
  <2> QED BY <1>2, <2>2, <2>3
<1> QED BY <1>1, <1>2

(* A set of positions that has with each position the ones before it.      *)
LEMMA FrontOf ==
  ASSUME NEW m \in Nat, NEW B \in SUBSET (1 .. m),
         \A i \in B : \A j \in 1 .. m : j < i => j \in B
  PROVE  Cardinality(B) \in 0 .. m /\ B = 1 .. Cardinality(B)
<1> DEFINE Out == {i \in 1 .. m + 1 : i \notin B}
<1>1. m + 1 \in Out /\ Out \in SUBSET Nat
  OBVIOUS
<1>2. PICK k \in Out : \A i \in Out : k <= i
  BY <1>1, LeastNatural
<1>3. k \in 1 .. m + 1 /\ k \notin B /\ k - 1 \in 0 .. m
  BY <1>2
<1>4. B = 1 .. k - 1
  <2>1. \A i \in 1 .. k - 1 : i \in B
    <3> SUFFICES ASSUME NEW i \in 1 .. k - 1, i \notin B PROVE FALSE
      OBVIOUS
    <3>1. i \in Out /\ ~(k <= i)
      BY <1>3
    <3> QED BY <3>1, <1>2
  <2>2. \A i \in B : i \in 1 .. k - 1
    <3> SUFFICES ASSUME NEW i \in B, ~(i \in 1 .. k - 1) PROVE FALSE
      OBVIOUS
    <3>1. i \in 1 .. m /\ i # k /\ k < i
      BY <1>3
    <3>2. k \in 1 .. m
      BY <1>3, <3>1
    <3>3. k \in B
      BY <3>1, <3>2
    <3> QED BY <3>3, <1>3
  <2> QED BY <2>1, <2>2
<1>5. Cardinality(1 .. k - 1) = k - 1
  <2>1. 1 \in Int /\ k - 1 \in Int
    BY <1>3
  <2>2. Cardinality(1 .. k - 1) = IF 1 > k - 1 THEN 0 ELSE k - 1 - 1 + 1
    BY <2>1, FS_Interval
  <2> QED BY <2>2, <1>3
<1> QED BY <1>3, <1>4, <1>5

-----------------------------------------------------------------------------
TaskMaps ==
  [Tasks -> [cpu : CPUs, prio : 0 .. MAX_RT_PRIO, allowed : SUBSET CPUs,
             on_rq : BOOLEAN]]

(* The list holds the tasks W in the order of their priorities in T.       *)
Ordered(T, list, W) ==
  /\ list \in Seq(Tasks)
  /\ QueueHolds(list, W)
  /\ \A i, j \in DOMAIN list : i < j => T[list[i]].prio <= T[list[j]].prio

(* v is the priority of the most important task of W.                      *)
IsBest(v, T, W) ==
  /\ v \in 0 .. MAX_RT_PRIO
  /\ v = MAX_RT_PRIO \/ \E t \in W : T[t].prio = v
  /\ \A t \in W : v <= T[t].prio

LEMMA PriosAre ==
  ASSUME NEW T \in TaskMaps
  PROVE  \A t \in Tasks : T[t].prio \in 0 .. MAX_RT_PRIO /\ T[t].prio \in Int
BY PushPullAssumption DEF TaskMaps

LEMMA OrderedIn ==
  ASSUME NEW T, NEW list, NEW W, Ordered(T, list, W)
  PROVE  /\ W \subseteq Tasks /\ ToSet(list) = W
         /\ DOMAIN list = 1 .. Len(list) /\ Len(list) \in Nat
         /\ \A i \in 1 .. Len(list) : list[i] \in W
         /\ list = <<>> <=> W = {}
<1>1. list \in Seq(Tasks) /\ W = {list[i] : i \in DOMAIN list}
  BY DEF Ordered, QueueHolds
<1>2. /\ DOMAIN list = 1 .. Len(list) /\ Len(list) \in Nat
      /\ \A i \in 1 .. Len(list) : list[i] \in Tasks
  BY <1>1
<1>3. ToSet(list) = W
  BY <1>1 DEF ToSet, Range
<1>4. W = {} => Len(list) = 0
  <2> SUFFICES ASSUME W = {}, Len(list) # 0 PROVE FALSE
    OBVIOUS
  <2>1. 1 \in 1 .. Len(list)
    BY <1>2
  <2> QED BY <2>1, <1>1, <1>2
<1>5. list = <<>> <=> W = {}
  <2>1. Len(list) = 0 => list = <<>>
    BY <1>1, EmptySeq
  <2>2. list = <<>> => DOMAIN list = {}
    OBVIOUS
  <2>3. DOMAIN list = {} => W = {}
    BY <1>1
  <2> QED BY <1>4, <2>1, <2>2, <2>3
<1> QED BY <1>1, <1>2, <1>3, <1>5

(* An element in the right place keeps the order.                          *)
LEMMA OrderedInsert ==
  ASSUME NEW T \in TaskMaps, NEW list, NEW W, Ordered(T, list, W),
         NEW t \in Tasks, t \notin W, NEW n \in 0 .. Len(list),
         \A i \in 1 .. n : T[list[i]].prio <= T[t].prio,
         \A i \in n + 1 .. Len(list) : T[t].prio <= T[list[i]].prio
  PROVE  Ordered(T, InsertAt(list, n + 1, t), W \cup {t})
<1> DEFINE u == InsertAt(list, n + 1, t)
           m == Len(list)
           p(k) == T[u[k]].prio
<1>0. /\ list \in Seq(Tasks) /\ QueueHolds(list, W)
      /\ \A i, j \in DOMAIN list : i < j => T[list[i]].prio <= T[list[j]].prio
  BY DEF Ordered
<1>1. m \in Nat /\ n \in Nat /\ n <= m /\ DOMAIN list = 1 .. m
  BY <1>0
<1>2. /\ u \in Seq(Tasks) /\ Len(u) = m + 1
      /\ \A k \in 1 .. m + 1 :
           u[k] = IF k <= n THEN list[k] ELSE IF k = n + 1 THEN t ELSE list[k - 1]
  BY <1>0, InsertIs
<1>3. QueueHolds(u, W \cup {t})
  BY <1>0, InsertHolds
<1> HIDE DEF u, m
<1>4. DOMAIN u = 1 .. m + 1
  BY <1>1, <1>2
<1>5. ASSUME NEW i \in 1 .. m + 1, NEW j \in 1 .. m + 1, i < j
      PROVE  T[u[i]].prio <= T[u[j]].prio
  <2>1. CASE j <= n
    <3>1. /\ i \in 1 .. m /\ j \in 1 .. m /\ i <= n
      BY <2>1, <1>5, <1>1
    <3>2. u[i] = list[i] /\ u[j] = list[j]
      BY <3>1, <2>1, <1>2
    <3> QED BY <3>1, <3>2, <1>0, <1>1, <1>5
  <2>2. CASE j = n + 1
    <3>1. i \in 1 .. n
      BY <2>2, <1>5, <1>1
    <3>2. u[i] = list[i] /\ u[j] = t
      BY <3>1, <2>2, <1>1, <1>2
    <3> QED BY <3>1, <3>2
  <2>3. CASE j > n + 1
    <3>1. j - 1 \in n + 1 .. m /\ j - 1 \in 1 .. m
      BY <2>3, <1>1
    <3>2. u[j] = list[j - 1]
      BY <2>3, <1>1, <1>2
    <3>3. CASE i <= n
      <4>1. i \in 1 .. m /\ i < j - 1 /\ u[i] = list[i]
        BY <3>3, <2>3, <1>1, <1>2
      <4> QED BY <4>1, <3>1, <3>2, <1>0, <1>1
    <3>4. CASE i = n + 1
      <4>1. u[i] = t
        BY <3>4, <1>1, <1>2
      <4> QED BY <4>1, <3>1, <3>2 DEF m
    <3>5. CASE i > n + 1
      <4>1. i - 1 \in 1 .. m /\ i - 1 < j - 1 /\ u[i] = list[i - 1]
        BY <3>5, <1>5, <1>1, <1>2
      <4> QED BY <4>1, <3>1, <3>2, <1>0, <1>1
    <3> QED BY <3>3, <3>4, <3>5, <1>1
  <2> QED BY <2>1, <2>2, <2>3, <1>1
<1> QED BY <1>2, <1>3, <1>4, <1>5 DEF Ordered, u

LEMMA OrderedAdd ==
  ASSUME NEW s, s.task \in TaskMaps, NEW list, NEW W, Ordered(s.task, list, W),
         NEW t \in Tasks, t \notin W
  PROVE  /\ Ordered(s.task, AddTail(s, list, t), W \cup {t})
         /\ Ordered(s.task, AddHead(s, list, t), W \cup {t})
<1> DEFINE T == s.task
           m == Len(list)
           p(i) == T[list[i]].prio
<1>0. /\ list \in Seq(Tasks) /\ m \in Nat /\ DOMAIN list = 1 .. m
      /\ \A i \in 1 .. m : list[i] \in Tasks
      /\ \A i, j \in 1 .. m : i < j => p(i) <= p(j)
  BY OrderedIn DEF Ordered
<1>1. /\ \A i \in 1 .. m : p(i) \in Int /\ prio(s, list[i]) = p(i)
      /\ T[t].prio \in Int /\ prio(s, t) = T[t].prio
  BY <1>0, PriosAre, PushPullAssumption DEF prio
<1>2. Ordered(T, AddTail(s, list, t), W \cup {t})
  <2> DEFINE B == {i \in DOMAIN list : prio(s, list[i]) <= prio(s, t)}
  <2>1. B = {i \in 1 .. m : p(i) <= T[t].prio}
    BY <1>0, <1>1
  <2>2. B \in SUBSET (1 .. m) /\ \A i \in B : \A j \in 1 .. m : j < i => j \in B
    <3>1. \A i, j \in 1 .. m : j < i /\ p(i) <= T[t].prio => p(j) <= T[t].prio
      <4> SUFFICES ASSUME NEW i \in 1 .. m, NEW j \in 1 .. m, j < i, p(i) <= T[t].prio
                   PROVE  p(j) <= T[t].prio
        OBVIOUS
      <4>1. p(j) <= p(i) /\ p(i) \in Int /\ p(j) \in Int /\ T[t].prio \in Int
        BY <1>0, <1>1
      <4> QED BY <4>1
    <3> HIDE DEF B
    <3> QED BY <2>1, <3>1
  <2> HIDE DEF m
  <2>3. Cardinality(B) \in 0 .. m /\ B = 1 .. Cardinality(B)
    <3> HIDE DEF B
    <3> QED BY <2>2, <1>0, FrontOf
  <2>4. PICK n \in 0 .. m : n = Cardinality(B)
    BY <2>3
  <2>5. \A i \in 1 .. n : p(i) <= T[t].prio
    BY <2>1, <2>3, <2>4
  <2>6. \A i \in n + 1 .. m : T[t].prio <= p(i)
    <3> SUFFICES ASSUME NEW i \in n + 1 .. m PROVE T[t].prio <= p(i)
      OBVIOUS
    <3>1. i \in 1 .. m /\ i \notin 1 .. n
      BY <1>0
    <3>2. ~(p(i) <= T[t].prio)
      BY <3>1, <2>1, <2>3, <2>4
    <3> QED BY <3>1, <3>2, <1>1
  <2>7. Ordered(T, InsertAt(list, n + 1, t), W \cup {t})
    BY <2>5, <2>6, OrderedInsert DEF m
  <2>8. AddTail(s, list, t) = InsertAt(list, n + 1, t)
    BY <2>4 DEF AddTail
  <2> QED BY <2>7, <2>8
<1>3. Ordered(T, AddHead(s, list, t), W \cup {t})
  <2> DEFINE B == {i \in DOMAIN list : prio(s, list[i]) < prio(s, t)}
  <2>1. B = {i \in 1 .. m : p(i) < T[t].prio}
    BY <1>0, <1>1
  <2>2. B \in SUBSET (1 .. m) /\ \A i \in B : \A j \in 1 .. m : j < i => j \in B
    <3>1. \A i, j \in 1 .. m : j < i /\ p(i) < T[t].prio => p(j) < T[t].prio
      <4> SUFFICES ASSUME NEW i \in 1 .. m, NEW j \in 1 .. m, j < i, p(i) < T[t].prio
                   PROVE  p(j) < T[t].prio
        OBVIOUS
      <4>1. p(j) <= p(i) /\ p(i) \in Int /\ p(j) \in Int /\ T[t].prio \in Int
        BY <1>0, <1>1
      <4> QED BY <4>1
    <3> HIDE DEF B
    <3> QED BY <2>1, <3>1
  <2> HIDE DEF m
  <2>3. Cardinality(B) \in 0 .. m /\ B = 1 .. Cardinality(B)
    <3> HIDE DEF B
    <3> QED BY <2>2, <1>0, FrontOf
  <2>4. PICK n \in 0 .. m : n = Cardinality(B)
    BY <2>3
  <2>5. \A i \in 1 .. n : p(i) <= T[t].prio
    BY <2>1, <2>3, <2>4, <1>1
  <2>6. \A i \in n + 1 .. m : T[t].prio <= p(i)
    <3> SUFFICES ASSUME NEW i \in n + 1 .. m PROVE T[t].prio <= p(i)
      OBVIOUS
    <3>1. i \in 1 .. m /\ i \notin 1 .. n
      BY <1>0
    <3>2. ~(p(i) < T[t].prio)
      BY <3>1, <2>1, <2>3, <2>4
    <3> QED BY <3>1, <3>2, <1>1
  <2>7. Ordered(T, InsertAt(list, n + 1, t), W \cup {t})
    BY <2>5, <2>6, OrderedInsert DEF m
  <2>8. AddHead(s, list, t) = InsertAt(list, n + 1, t)
    BY <2>4 DEF AddHead
  <2> QED BY <2>7, <2>8
<1> QED BY <1>2, <1>3

LEMMA OrderedDel ==
  ASSUME NEW T \in TaskMaps, NEW list, NEW W, Ordered(T, list, W), NEW t
  PROVE  Ordered(T, list_del(list, t), W \ {t})
<1>0. /\ list \in Seq(Tasks) /\ QueueHolds(list, W)
      /\ \A i, j \in DOMAIN list : i < j => T[list[i]].prio <= T[list[j]].prio
  BY DEF Ordered
<1>1. CASE t \notin W
  <2>1. list_del(list, t) = list /\ W \ {t} = W
    BY <1>0, <1>1, DelIs
  <2> QED BY <2>1
<1>2. CASE t \in W
  <2> DEFINE u == list_del(list, t)
             m == Len(list)
             at(i, k) == IF k < i THEN k ELSE k + 1
  <2>1. u \in Seq(Tasks) /\ Len(u) = m - 1 /\ QueueHolds(u, W \ {t})
    BY <1>0, <1>2, ListDel
  <2>2. PICK i \in 1 .. m : u = [k \in 1 .. m - 1 |-> IF k < i THEN list[k] ELSE list[k + 1]]
    BY <1>0, <1>2, DelIs
  <2>3. m \in Nat /\ DOMAIN list = 1 .. m
    BY <1>0
  <2> HIDE DEF u, m
  <2>4. \A k \in 1 .. m - 1 : u[k] = list[at(i, k)] /\ at(i, k) \in 1 .. m
    BY <2>2, <2>3
  <2>5. \A k, l \in 1 .. m - 1 : k < l => at(i, k) < at(i, l)
    BY <2>3
  <2>6. \A k, l \in 1 .. m - 1 : k < l => T[u[k]].prio <= T[u[l]].prio
    <3> HIDE DEF at
    <3> QED BY <2>3, <2>4, <2>5, <1>0
  <2>7. DOMAIN u = 1 .. m - 1
    BY <2>2
  <2> QED BY <2>1, <2>6, <2>7 DEF Ordered, u
<1> QED BY <1>1, <1>2

LEMMA OrderedSame ==
  ASSUME NEW T, NEW T2, NEW list, NEW W, Ordered(T, list, W),
         \A t \in W : T2[t].prio = T[t].prio
  PROVE  Ordered(T2, list, W)
<1>1. \A i \in DOMAIN list : list[i] \in W
  BY OrderedIn
<1> QED BY <1>1 DEF Ordered

(* The first of a list is the best of it, so the code looks no further.    *)
LEMMA HeadBest ==
  ASSUME NEW T \in TaskMaps, NEW list, NEW W, Ordered(T, list, W)
  PROVE  /\ IsBest(IF list = <<>> THEN MAX_RT_PRIO ELSE T[Head(list)].prio, T, W)
         /\ list # <<>> => /\ Head(list) \in W
                           /\ \A t \in W : T[Head(list)].prio <= T[t].prio
<1>1. /\ W \subseteq Tasks /\ DOMAIN list = 1 .. Len(list) /\ Len(list) \in Nat
      /\ \A i \in 1 .. Len(list) : list[i] \in W
      /\ list = <<>> <=> W = {}
      /\ ToSet(list) = W
      /\ list \in Seq(Tasks)
  BY OrderedIn DEF Ordered
<1>2. CASE list = <<>>
  BY <1>1, <1>2, PushPullAssumption DEF IsBest
<1>3. CASE list # <<>>
  <2>1. Len(list) \in Nat \ {0} /\ Head(list) = list[1]
    BY <1>1, <1>3, EmptySeq
  <2>2. 1 \in 1 .. Len(list)
    BY <2>1
  <2>3. Head(list) \in W /\ Head(list) \in Tasks
    BY <2>1, <2>2, <1>1
  <2>4. ASSUME NEW t \in W PROVE T[Head(list)].prio <= T[t].prio
    <3>1. PICK i \in 1 .. Len(list) : list[i] = t
      BY <1>1 DEF Ordered, QueueHolds
    <3>2. CASE i = 1
      BY <3>1, <3>2, <2>1, <2>3, PriosAre
    <3>3. CASE i # 1
      <4>1. 1 < i
        BY <3>1, <3>3
      <4> QED BY <4>1, <3>1, <2>1, <2>2, <1>1 DEF Ordered
    <3> QED BY <3>2, <3>3
  <2>5. T[Head(list)].prio \in 0 .. MAX_RT_PRIO
    BY <2>3, PriosAre
  <2> QED BY <1>3, <2>3, <2>4, <2>5 DEF IsBest
<1> QED BY <1>2, <1>3

LEMMA BestUnique ==
  ASSUME NEW T \in TaskMaps, NEW W \in SUBSET Tasks, NEW v, NEW w,
         IsBest(v, T, W), IsBest(w, T, W)
  PROVE  v = w
<1>1. v \in Int /\ w \in Int /\ MAX_RT_PRIO \in Int
  BY PushPullAssumption DEF IsBest
<1>2. v <= w /\ w <= v
  <2>1. v <= MAX_RT_PRIO /\ w <= MAX_RT_PRIO
    BY <1>1 DEF IsBest
  <2>2. v <= w
    BY <2>1, <1>1 DEF IsBest
  <2>3. w <= v
    BY <2>1, <1>1 DEF IsBest
  <2> QED BY <2>2, <2>3
<1> QED BY <1>1, <1>2

LEMMA BestSame ==
  ASSUME NEW v, NEW T, NEW T2, NEW W, IsBest(v, T, W),
         \A t \in W : T2[t].prio = T[t].prio
  PROVE  IsBest(v, T2, W)
BY DEF IsBest

LEMMA BestAdd ==
  ASSUME NEW v, NEW T \in TaskMaps, NEW W \in SUBSET Tasks, IsBest(v, T, W), NEW t \in Tasks
  PROVE  IsBest(Min({v, T[t].prio}), T, W \cup {t})
<1> DEFINE p == T[t].prio
           x == Min({v, p})
<1>1. v \in 0 .. MAX_RT_PRIO /\ p \in 0 .. MAX_RT_PRIO /\ MAX_RT_PRIO \in Nat
  BY PriosAre, PushPullAssumption DEF IsBest
<1>2. x \in {v, p} /\ \A y \in {v, p} : x <= y
  <2> HIDE DEF p
  <2>1. \E z \in {v, p} : \A y \in {v, p} : z <= y
    BY <1>1
  <2> QED BY <2>1 DEF Min
<1>3. x \in 0 .. MAX_RT_PRIO /\ x <= v /\ x <= p /\ (x = v \/ x = p)
  BY <1>1, <1>2
<1> HIDE DEF x
<1>4. \A u \in W : x <= T[u].prio
  <2> SUFFICES ASSUME NEW u \in W PROVE x <= T[u].prio
    OBVIOUS
  <2>1. v <= T[u].prio /\ T[u].prio \in Int
    BY PriosAre DEF IsBest
  <2> QED BY <2>1, <1>1, <1>3
<1>5. x = MAX_RT_PRIO \/ \E u \in W \cup {t} : T[u].prio = x
  BY <1>3 DEF IsBest
<1>6. IsBest(x, T, W \cup {t})
  BY <1>3, <1>4, <1>5 DEF IsBest
<1> QED BY <1>6 DEF x

-----------------------------------------------------------------------------
RQs ==
  [curr : Tasks \cup {Idle}, need_resched : BOOLEAN,
   queue : Seq(Tasks), pushable : Seq(Tasks), next : 0 .. MAX_RT_PRIO,
   rt_nr_migratory : Int, overloaded : BOOLEAN, online : BOOLEAN,
   post_schedule : BOOLEAN]

RDs ==
  [rto_mask : SUBSET CPUs, rto_count : Int,
   cpupri : [CPUs -> 0 .. MAX_RT_PRIO \cup {None}]]

Works ==
  [op : {"none", "push", "pull", "post", "wake"}, rq : CPUs,
   task : Tasks \cup {None}, other : CPUs, tries : Nat,
   then : {"end", "loop", "switched", "pick", "prio"},
   subject : Tasks \cup {None}]

States == [rq : [CPUs -> RQs], task : TaskMaps, rd : RDs, work : Works]

OnQueue(T, c) == {t \in Tasks : T[t].on_rq /\ T[t].cpu = c}

RtOn(T, c) == {t \in OnQueue(T, c) : T[t].prio < MAX_RT_PRIO}

Movable(T, c) == {t \in RtOn(T, c) : Cardinality(T[t].allowed) > 1}

(* The run queue r of c against the tasks: its queue, its pushable tasks   *)
(* if they are W, and what it counts.                                      *)
QueueOk(r, T, c) == Ordered(T, r.queue, OnQueue(T, c))

PushOk(r, T, W) == Ordered(T, r.pushable, W) /\ IsBest(r.next, T, W)

CountOk(r, T, c) ==
  /\ r.rt_nr_migratory = Cardinality(Movable(T, c))
  /\ r.overloaded = (r.rt_nr_migratory > 0 /\ Cardinality(RtOn(T, c)) > 1)

Row(r, T, c) ==
  /\ QueueOk(r, T, c)
  /\ PushOk(r, T, Movable(T, c) \ {r.curr})
  /\ CountOk(r, T, c)

(* What the root domain says of c, and of all CPUs.                        *)
PriOk(d, r, T, c) ==
  IF r.online THEN IsBest(d.cpupri[c], T, OnQueue(T, c))
  ELSE d.cpupri[c] = None

MaskOk(q, d) ==
  /\ d.rto_mask = {c \in CPUs : q[c].online /\ q[c].overloaded}
  /\ d.rto_count = Cardinality(d.rto_mask)

(* Tasks are where they may be and run where they are.                     *)
Placed(s) ==
  /\ \A c \in CPUs, t \in Tasks : s.rq[c].curr = t => s.task[t].cpu = c
  /\ \A t \in Tasks : s.task[t].cpu \in s.task[t].allowed

(* All of this but for the run queue of c, and for all.                    *)
Others(s, c) ==
  /\ s \in States
  /\ \A d \in CPUs \ {c} : /\ Row(s.rq[d], s.task, d)
                           /\ PriOk(s.rd, s.rq[d], s.task, d)
  /\ MaskOk(s.rq, s.rd)
  /\ Placed(s)

Good(s) ==
  /\ s \in States
  /\ \A d \in CPUs : /\ Row(s.rq[d], s.task, d)
                     /\ PriOk(s.rd, s.rq[d], s.task, d)
  /\ MaskOk(s.rq, s.rd)
  /\ Placed(s)

LEMMA GoodIs ==
  ASSUME NEW s, NEW c \in CPUs
  PROVE  Good(s) <=> /\ Others(s, c)
                     /\ QueueOk(s.rq[c], s.task, c)
                     /\ PushOk(s.rq[c], s.task, Movable(s.task, c) \ {s.rq[c].curr})
                     /\ CountOk(s.rq[c], s.task, c)
                     /\ PriOk(s.rd, s.rq[c], s.task, c)
BY DEF Good, Others, Row

(* The scheduling state that the bookkeeping is about.                     *)
Kept(s, r) ==
  /\ r.work = s.work
  /\ \A d \in CPUs : /\ r.rq[d].curr = s.rq[d].curr
                     /\ r.rq[d].need_resched = s.rq[d].need_resched
                     /\ r.rq[d].online = s.rq[d].online

Same(s, r) ==
  /\ Kept(s, r)
  /\ r.task = s.task
  /\ \A d \in CPUs : r.rq[d].queue = s.rq[d].queue

LEMMA SameTwice ==
  ASSUME NEW r, NEW s, NEW u
  PROVE  /\ Kept(r, s) /\ Kept(s, u) => Kept(r, u)
         /\ Same(r, s) /\ Same(s, u) => Same(r, u)
BY DEF Kept, Same

LEMMA StateParts ==
  ASSUME NEW s \in States
  PROVE  /\ s = [rq |-> s.rq, task |-> s.task, rd |-> s.rd, work |-> s.work]
         /\ s.rq \in [CPUs -> RQs] /\ s.task \in TaskMaps
         /\ s.rd \in RDs /\ s.work \in Works
         /\ \A d \in CPUs : s.rq[d] \in RQs
         /\ \A t \in Tasks : /\ s.task[t].cpu \in CPUs
                             /\ s.task[t].prio \in 0 .. MAX_RT_PRIO
                             /\ s.task[t].allowed \in SUBSET CPUs
                             /\ s.task[t].on_rq \in BOOLEAN
BY DEF States, TaskMaps

LEMMA TaskIs ==
  ASSUME NEW s, NEW t \in Tasks
  PROVE  /\ prio(s, t) = s.task[t].prio
         /\ rt_task(s, t) = (s.task[t].prio < MAX_RT_PRIO)
BY PushPullAssumption DEF prio, rt_task

LEMMA QueuesFinite ==
  ASSUME NEW T, NEW c
  PROVE  /\ IsFiniteSet(OnQueue(T, c)) /\ IsFiniteSet(RtOn(T, c)) /\ IsFiniteSet(Movable(T, c))
         /\ Cardinality(RtOn(T, c)) \in Nat /\ Cardinality(Movable(T, c)) \in Nat
<1>1. /\ OnQueue(T, c) \subseteq Tasks /\ RtOn(T, c) \subseteq Tasks /\ Movable(T, c) \subseteq Tasks
  BY DEF OnQueue, RtOn, Movable
<1> QED BY <1>1, PushPullAssumption, FS_Subset, FS_CardinalityType

(* What the operators of a queue return.                                   *)
LEMMA QueueIs ==
  ASSUME NEW s \in States, NEW c \in CPUs, NEW W, Ordered(s.task, s.rq[c].queue, W)
  PROVE  /\ rt_tasks(s, c) = {t \in W : s.task[t].prio < MAX_RT_PRIO}
         /\ IsBest(highest_prio(s, c), s.task, W)
<1>1. ToSet(s.rq[c].queue) = W /\ W \subseteq Tasks
  BY OrderedIn
<1>2. rt_tasks(s, c) = {t \in W : s.task[t].prio < MAX_RT_PRIO}
  BY <1>1, TaskIs DEF rt_tasks
<1>3. s.task \in TaskMaps
  BY StateParts
<1>4. IsBest(highest_prio(s, c), s.task, W)
  <2> DEFINE list == s.rq[c].queue
             v == IF list = <<>> THEN MAX_RT_PRIO ELSE s.task[Head(list)].prio
  <2>1. IsBest(v, s.task, W) /\ (list # <<>> => Head(list) \in W)
    BY <1>3, HeadBest
  <2>2. highest_prio(s, c) = v
    BY <2>1, <1>1, TaskIs DEF highest_prio
  <2> HIDE DEF v
  <2> QED BY <2>1, <2>2
<1> QED BY <1>2, <1>4

-----------------------------------------------------------------------------
(* Changes of one part of a state.                                         *)
WithRq(s, c, r) == [s EXCEPT !.rq[c] = r]

WithRd(s, d) == [s EXCEPT !.rd = d]

WithTask(s, t, e) == [s EXCEPT !.task[t] = e]

WithWork(s, w) == [s EXCEPT !.work = w]

LEMMA ChangeRq ==
  ASSUME NEW s \in States, NEW c \in CPUs, NEW r \in RQs, NEW u, u = WithRq(s, c, r)
  PROVE  /\ u \in States /\ u.rq[c] = r /\ \A d \in CPUs \ {c} : u.rq[d] = s.rq[d]
         /\ u.task = s.task /\ u.rd = s.rd /\ u.work = s.work
<1>1. u = [rq |-> [s.rq EXCEPT ![c] = r], task |-> s.task, rd |-> s.rd, work |-> s.work]
  BY StateParts DEF WithRq
<1>2. [s.rq EXCEPT ![c] = r] \in [CPUs -> RQs]
  BY StateParts
<1>3. s.rq \in [CPUs -> RQs]
  BY StateParts
<1> QED BY <1>1, <1>2, <1>3, StateParts DEF States

LEMMA ChangeRd ==
  ASSUME NEW s \in States, NEW d \in RDs, NEW u, u = WithRd(s, d)
  PROVE  /\ u \in States /\ u.rd = d
         /\ u.rq = s.rq /\ u.task = s.task /\ u.work = s.work
<1>1. u = [rq |-> s.rq, task |-> s.task, rd |-> d, work |-> s.work]
  BY StateParts DEF WithRd
<1> QED BY <1>1, StateParts DEF States

LEMMA ChangeTask ==
  ASSUME NEW s \in States, NEW t \in Tasks, NEW e, NEW u, u = WithTask(s, t, e),
         e.cpu \in CPUs, e.prio \in 0 .. MAX_RT_PRIO, e.allowed \in SUBSET CPUs,
         e.on_rq \in BOOLEAN,
         e = [cpu |-> e.cpu, prio |-> e.prio, allowed |-> e.allowed, on_rq |-> e.on_rq]
  PROVE  /\ u \in States /\ u.task[t] = e /\ \A v \in Tasks \ {t} : u.task[v] = s.task[v]
         /\ u.rq = s.rq /\ u.rd = s.rd /\ u.work = s.work
<1> DEFINE T == [s.task EXCEPT ![t] = e]
<1>1. u = [rq |-> s.rq, task |-> T, rd |-> s.rd, work |-> s.work]
  BY StateParts DEF WithTask
<1>2. e \in [cpu : CPUs, prio : 0 .. MAX_RT_PRIO, allowed : SUBSET CPUs, on_rq : BOOLEAN]
  BY Zenon
<1>3. T \in TaskMaps /\ T[t] = e /\ \A v \in Tasks \ {t} : T[v] = s.task[v]
  BY <1>2, StateParts DEF TaskMaps
<1> HIDE DEF T
<1> QED BY <1>1, <1>3, StateParts DEF States

LEMMA ChangeWork ==
  ASSUME NEW s \in States, NEW w \in Works, NEW u, u = WithWork(s, w)
  PROVE  /\ u \in States /\ u.work = w
         /\ u.rq = s.rq /\ u.task = s.task /\ u.rd = s.rd
<1>1. u = [rq |-> s.rq, task |-> s.task, rd |-> s.rd, work |-> w]
  BY StateParts DEF WithWork
<1> QED BY <1>1, StateParts DEF States

(* c and the others do not see each other's run queues.                    *)
LEMMA OthersKept ==
  ASSUME NEW s, NEW r \in States, NEW c \in CPUs, Others(s, c), r.task = s.task, r.rd = s.rd,
         \A d \in CPUs \ {c} : r.rq[d] = s.rq[d],
         r.rq[c].curr = s.rq[c].curr, r.rq[c].online = s.rq[c].online,
         r.rq[c].overloaded = s.rq[c].overloaded
  PROVE  Others(r, c)
<1>1. \A d \in CPUs \ {c} : Row(r.rq[d], r.task, d) /\ PriOk(r.rd, r.rq[d], r.task, d)
  BY DEF Others
<1>2. MaskOk(r.rq, r.rd)
  <2>1. \A d \in CPUs : r.rq[d].online = s.rq[d].online /\ r.rq[d].overloaded = s.rq[d].overloaded
    OBVIOUS
  <2> QED BY <2>1 DEF Others, MaskOk
<1>3. Placed(r)
  <2>1. \A d \in CPUs : r.rq[d].curr = s.rq[d].curr
    OBVIOUS
  <2> QED BY <2>1 DEF Others, Placed
<1> QED BY <1>1, <1>2, <1>3 DEF Others

(* From s to r the pushable tasks of c have become W.                      *)
Pushable(s, r, c, W) ==
  /\ Others(r, c) /\ PushOk(r.rq[c], s.task, W)
  /\ Same(s, r) /\ r.rd = s.rd
  /\ r.rq[c].rt_nr_migratory = s.rq[c].rt_nr_migratory
  /\ r.rq[c].overloaded = s.rq[c].overloaded

LEMMA PushAdd ==
  ASSUME NEW s, NEW c \in CPUs, NEW W, Others(s, c), PushOk(s.rq[c], s.task, W),
         NEW t \in Tasks, t \notin W, NEW r, r = enqueue_pushable_task(s, c, t)
  PROVE  Pushable(s, r, c, W \cup {t})
<1> DEFINE q == s.rq[c]
           d == list_del(q.pushable, t)
           p == AddTail(s, d, t)
           n == Min({q.next, prio(s, t)})
           v == [q EXCEPT !.pushable = p, !.next = n]
<1>1. s \in States /\ s.task \in TaskMaps /\ q \in RQs
  BY StateParts DEF Others
<1>2. Ordered(s.task, q.pushable, W) /\ IsBest(q.next, s.task, W) /\ W \subseteq Tasks
  BY OrderedIn DEF PushOk
<1>3. Ordered(s.task, d, W)
  <2>1. Ordered(s.task, d, W \ {t})
    BY <1>1, <1>2, OrderedDel
  <2>2. W \ {t} = W
    OBVIOUS
  <2> QED BY <2>1, <2>2
<1>4. Ordered(s.task, p, W \cup {t})
  BY <1>1, <1>3, OrderedAdd
<1>5. IsBest(n, s.task, W \cup {t})
  BY <1>1, <1>2, BestAdd, TaskIs
<1>6. p \in Seq(Tasks) /\ n \in 0 .. MAX_RT_PRIO
  BY <1>4, <1>5 DEF Ordered, IsBest
<1>7. r = WithRq(s, c, v)
  BY <1>1, StateParts DEF enqueue_pushable_task, WithRq
<1> HIDE DEF q, d, p, n
<1>8. /\ v \in RQs /\ v.pushable = p /\ v.next = n /\ v.curr = q.curr
      /\ v.need_resched = q.need_resched /\ v.online = q.online /\ v.queue = q.queue
      /\ v.rt_nr_migratory = q.rt_nr_migratory /\ v.overloaded = q.overloaded
  BY <1>1, <1>6 DEF RQs
<1> HIDE DEF v
<1>9. /\ r \in States /\ r.rq[c] = v /\ \A e \in CPUs \ {c} : r.rq[e] = s.rq[e]
      /\ r.task = s.task /\ r.rd = s.rd /\ r.work = s.work
  BY <1>1, <1>7, <1>8, ChangeRq
<1>10. Others(r, c)
  BY <1>8, <1>9, OthersKept DEF q
<1>11. Same(s, r)
  BY <1>8, <1>9 DEF Same, Kept, q
<1>12. PushOk(r.rq[c], s.task, W \cup {t})
  BY <1>4, <1>5, <1>8, <1>9 DEF PushOk
<1> QED BY <1>8, <1>9, <1>10, <1>11, <1>12 DEF q, Pushable

LEMMA PushDel ==
  ASSUME NEW s, NEW c \in CPUs, NEW W, Others(s, c), PushOk(s.rq[c], s.task, W),
         NEW t \in Tasks, NEW r, r = dequeue_pushable_task(s, c, t)
  PROVE  Pushable(s, r, c, W \ {t})
<1> DEFINE q == s.rq[c]
           left == list_del(q.pushable, t)
           n == IF left = <<>> THEN MAX_RT_PRIO ELSE prio(s, Head(left))
           v == [q EXCEPT !.pushable = left, !.next = n]
<1>1. s \in States /\ s.task \in TaskMaps /\ q \in RQs
  BY StateParts DEF Others
<1>2. Ordered(s.task, q.pushable, W) /\ W \subseteq Tasks
  BY OrderedIn DEF PushOk
<1>3. Ordered(s.task, left, W \ {t})
  BY <1>1, <1>2, OrderedDel
<1>4. IsBest(n, s.task, W \ {t})
  <2> DEFINE k == IF left = <<>> THEN MAX_RT_PRIO ELSE s.task[Head(left)].prio
  <2>1. IsBest(k, s.task, W \ {t}) /\ (left # <<>> => Head(left) \in W \ {t})
    BY <1>1, <1>3, HeadBest
  <2>2. n = k
    BY <2>1, <1>2, TaskIs
  <2> HIDE DEF n, k
  <2> QED BY <2>1, <2>2
<1>6. left \in Seq(Tasks) /\ n \in 0 .. MAX_RT_PRIO
  BY <1>3, <1>4 DEF Ordered, IsBest
<1>7. r = WithRq(s, c, v)
  BY <1>1, StateParts DEF dequeue_pushable_task, WithRq
<1> HIDE DEF q, left, n
<1>8. /\ v \in RQs /\ v.pushable = left /\ v.next = n /\ v.curr = q.curr
      /\ v.need_resched = q.need_resched /\ v.online = q.online /\ v.queue = q.queue
      /\ v.rt_nr_migratory = q.rt_nr_migratory /\ v.overloaded = q.overloaded
  <2>1. /\ v.pushable = left /\ v.next = n /\ v.curr = q.curr
        /\ v.need_resched = q.need_resched /\ v.online = q.online /\ v.queue = q.queue
        /\ v.rt_nr_migratory = q.rt_nr_migratory /\ v.overloaded = q.overloaded
    BY <1>1 DEF RQs
  <2>2. v \in RQs
    BY <1>1, <1>6 DEF RQs
  <2> QED BY <2>1, <2>2
<1> HIDE DEF v
<1>9. /\ r \in States /\ r.rq[c] = v /\ \A e \in CPUs \ {c} : r.rq[e] = s.rq[e]
      /\ r.task = s.task /\ r.rd = s.rd /\ r.work = s.work
  BY <1>1, <1>7, <1>8, ChangeRq
<1>10. Others(r, c)
  BY <1>8, <1>9, OthersKept DEF q
<1>11. Same(s, r)
  BY <1>8, <1>9 DEF Same, Kept, q
<1>12. PushOk(r.rq[c], s.task, W \ {t})
  BY <1>3, <1>4, <1>8, <1>9 DEF PushOk
<1> QED BY <1>8, <1>9, <1>10, <1>11, <1>12 DEF q, Pushable

(* rto_mask and rto_count change together.                                 *)
LEMMA MaskSet ==
  ASSUME NEW s \in States, NEW c \in CPUs, s.rd.rto_count = Cardinality(s.rd.rto_mask),
         c \notin s.rd.rto_mask, NEW r, r = rt_set_overload(s, c)
  PROVE  /\ r \in States /\ r.rq = s.rq /\ r.task = s.task /\ r.work = s.work
         /\ r.rd.cpupri = s.rd.cpupri
         /\ r.rd.rto_mask = IF s.rq[c].online THEN s.rd.rto_mask \cup {c} ELSE s.rd.rto_mask
         /\ r.rd.rto_count = Cardinality(r.rd.rto_mask)
<1> DEFINE m == s.rd.rto_mask \cup {c}
           d == [s.rd EXCEPT !.rto_mask = m, !.rto_count = s.rd.rto_count + 1]
<1>1. CASE ~s.rq[c].online
  BY <1>1 DEF rt_set_overload
<1>2. CASE s.rq[c].online
  <2>1. s.rd \in RDs
    BY StateParts
  <2>2. r = WithRd(s, d)
    BY <1>2, <2>1, StateParts DEF rt_set_overload, WithRd, RDs
  <2>3. IsFiniteSet(s.rd.rto_mask) /\ Cardinality(m) = Cardinality(s.rd.rto_mask) + 1
    <3>1. s.rd.rto_mask \subseteq 1 .. N /\ 1 \in Int /\ N \in Int
      BY <2>1, PushPullAssumption DEF RDs, CPUs
    <3>2. IsFiniteSet(s.rd.rto_mask)
      BY <3>1, FS_Interval, FS_Subset
    <3> QED BY <3>2, FS_AddElement
  <2>a. m \in SUBSET CPUs /\ s.rd.rto_count + 1 \in Int
    BY <2>1 DEF RDs
  <2> HIDE DEF m
  <2>4. /\ d \in RDs /\ d.rto_mask = m /\ d.rto_count = s.rd.rto_count + 1
        /\ d.cpupri = s.rd.cpupri
    BY <2>1, <2>a DEF RDs
  <2> HIDE DEF d
  <2>5. r \in States /\ r.rd = d /\ r.rq = s.rq /\ r.task = s.task /\ r.work = s.work
    BY <2>2, <2>4, ChangeRd
  <2> QED BY <1>2, <2>3, <2>4, <2>5 DEF m
<1> QED BY <1>1, <1>2

LEMMA MaskClear ==
  ASSUME NEW s \in States, NEW c \in CPUs, s.rd.rto_count = Cardinality(s.rd.rto_mask),
         s.rq[c].online => c \in s.rd.rto_mask, NEW r, r = rt_clear_overload(s, c)
  PROVE  /\ r \in States /\ r.rq = s.rq /\ r.task = s.task /\ r.work = s.work
         /\ r.rd.cpupri = s.rd.cpupri
         /\ r.rd.rto_mask = IF s.rq[c].online THEN s.rd.rto_mask \ {c} ELSE s.rd.rto_mask
         /\ r.rd.rto_count = Cardinality(r.rd.rto_mask)
<1> DEFINE m == s.rd.rto_mask \ {c}
           d == [s.rd EXCEPT !.rto_mask = m, !.rto_count = s.rd.rto_count - 1]
<1>1. CASE ~s.rq[c].online
  BY <1>1 DEF rt_clear_overload
<1>2. CASE s.rq[c].online
  <2>1. s.rd \in RDs
    BY StateParts
  <2>2. r = WithRd(s, d)
    BY <1>2, <2>1, StateParts DEF rt_clear_overload, WithRd, RDs
  <2>3. IsFiniteSet(s.rd.rto_mask) /\ Cardinality(m) = Cardinality(s.rd.rto_mask) - 1
    <3>1. s.rd.rto_mask \subseteq 1 .. N /\ 1 \in Int /\ N \in Int
      BY <2>1, PushPullAssumption DEF RDs, CPUs
    <3>2. IsFiniteSet(s.rd.rto_mask)
      BY <3>1, FS_Interval, FS_Subset
    <3> QED BY <1>2, <3>2, FS_RemoveElement
  <2>a. m \in SUBSET CPUs /\ s.rd.rto_count - 1 \in Int
    BY <2>1 DEF RDs
  <2> HIDE DEF m
  <2>4. /\ d \in RDs /\ d.rto_mask = m /\ d.rto_count = s.rd.rto_count - 1
        /\ d.cpupri = s.rd.cpupri
    BY <2>1, <2>a DEF RDs
  <2> HIDE DEF d
  <2>5. r \in States /\ r.rd = d /\ r.rq = s.rq /\ r.task = s.task /\ r.work = s.work
    BY <2>2, <2>4, ChangeRd
  <2> QED BY <1>2, <2>3, <2>4, <2>5 DEF m
<1> QED BY <1>1, <1>2

LEMMA Tell ==
  ASSUME NEW s, NEW c \in CPUs, NEW prev, Others(s, c), QueueOk(s.rq[c], s.task, c),
         s.rd.cpupri[c] = IF s.rq[c].online THEN prev ELSE None,
         NEW r, r = tell_cpupri(s, c, prev)
  PROVE  /\ Others(r, c) /\ PriOk(r.rd, s.rq[c], s.task, c)
         /\ r.rq = s.rq /\ r.task = s.task /\ r.work = s.work
<1> DEFINE h == highest_prio(s, c)
           d == [s.rd EXCEPT !.cpupri[c] = h]
<1>1. s \in States /\ s.rd \in RDs
  BY StateParts DEF Others
<1>2. IsBest(h, s.task, OnQueue(s.task, c)) /\ h \in 0 .. MAX_RT_PRIO
  BY <1>1, QueueIs DEF QueueOk, IsBest
<1>3. CASE ~(s.rq[c].online /\ h # prev)
  BY <1>2, <1>3 DEF tell_cpupri, PriOk
<1>4. CASE s.rq[c].online /\ h # prev
  <2>1. r = WithRd(s, d)
    BY <1>4 DEF tell_cpupri, WithRd
  <2> HIDE DEF h
  <2>2. /\ d \in RDs /\ d.rto_mask = s.rd.rto_mask /\ d.rto_count = s.rd.rto_count
        /\ d.cpupri[c] = h /\ \A e \in CPUs \ {c} : d.cpupri[e] = s.rd.cpupri[e]
    BY <1>1, <1>2 DEF RDs
  <2> HIDE DEF d
  <2>3. /\ r \in States /\ r.rd = d
        /\ r.rq = s.rq /\ r.task = s.task /\ r.work = s.work
    BY <1>1, <2>1, <2>2, ChangeRd
  <2>4. Others(r, c)
    <3>1. \A e \in CPUs \ {c} : PriOk(r.rd, r.rq[e], r.task, e)
      BY <2>2, <2>3 DEF Others, PriOk
    <3>2. MaskOk(r.rq, r.rd)
      BY <2>2, <2>3 DEF Others, MaskOk
    <3> QED BY <2>3, <3>1, <3>2 DEF Others, Placed
  <2>5. PriOk(r.rd, s.rq[c], s.task, c)
    BY <1>2, <1>4, <2>2, <2>3 DEF PriOk
  <2> QED BY <2>3, <2>4, <2>5
<1> QED BY <1>3, <1>4

LEMMA Overload ==
  ASSUME NEW s, NEW c \in CPUs, Others(s, c), QueueOk(s.rq[c], s.task, c),
         PriOk(s.rd, s.rq[c], s.task, c),
         s.rq[c].rt_nr_migratory = Cardinality(Movable(s.task, c)),
         NEW r, r = update_rt_migration(s, c)
  PROVE  /\ Others(r, c) /\ Same(s, r) /\ CountOk(r.rq[c], s.task, c)
         /\ PriOk(r.rd, r.rq[c], s.task, c)
         /\ r.rq[c].pushable = s.rq[c].pushable /\ r.rq[c].next = s.rq[c].next
<1> DEFINE q == s.rq[c]
           over == q.rt_nr_migratory > 0 /\ rt_nr_running(s, c) > 1
           set == IF over /\ ~q.overloaded THEN rt_set_overload(s, c)
                  ELSE IF ~over /\ q.overloaded THEN rt_clear_overload(s, c)
                  ELSE s
           v == [q EXCEPT !.overloaded = over]
<1>1. s \in States /\ q \in RQs /\ MaskOk(s.rq, s.rd)
  BY StateParts DEF Others
<1>2. over = (Cardinality(Movable(s.task, c)) > 0 /\ Cardinality(RtOn(s.task, c)) > 1)
  BY <1>1, QueueIs DEF QueueOk, rt_nr_running, RtOn
<1>3. /\ set \in States /\ set.rq = s.rq /\ set.task = s.task /\ set.work = s.work
      /\ set.rd.cpupri = s.rd.cpupri
      /\ set.rd.rto_mask = IF q.online /\ over THEN s.rd.rto_mask \cup {c}
                           ELSE IF q.online THEN s.rd.rto_mask \ {c} ELSE s.rd.rto_mask
      /\ set.rd.rto_count = Cardinality(set.rd.rto_mask)
  <2> HIDE DEF over
  <2>1. /\ s.rd.rto_count = Cardinality(s.rd.rto_mask)
        /\ (c \in s.rd.rto_mask) = (q.online /\ q.overloaded)
    BY <1>1 DEF MaskOk, RQs
  <2>2. CASE over /\ ~q.overloaded
    BY <1>1, <2>1, <2>2, MaskSet
  <2>3. CASE ~over /\ q.overloaded
    <3>1. set = rt_clear_overload(s, c)
      BY <2>3
    <3>2. s.rq[c].online => c \in s.rd.rto_mask
      BY <2>1, <2>3
    <3> HIDE DEF set
    <3>3. /\ set \in States /\ set.rq = s.rq /\ set.task = s.task /\ set.work = s.work
          /\ set.rd.cpupri = s.rd.cpupri
          /\ set.rd.rto_mask = IF s.rq[c].online THEN s.rd.rto_mask \ {c} ELSE s.rd.rto_mask
          /\ set.rd.rto_count = Cardinality(set.rd.rto_mask)
      BY ONLY c \in CPUs, <1>1, <2>1, <3>1, <3>2, MaskClear
    <3> QED BY <2>3, <3>3
  <2>4. CASE over = q.overloaded
    <3>1. set = s
      BY <2>4
    <3>2. /\ q.online /\ over => s.rd.rto_mask \cup {c} = s.rd.rto_mask
          /\ q.online /\ ~over => s.rd.rto_mask \ {c} = s.rd.rto_mask
      BY <2>1, <2>4
    <3> HIDE DEF set
    <3> QED BY <2>1, <3>1, <3>2, <1>1
  <2>5. over \in BOOLEAN /\ q.overloaded \in BOOLEAN
    BY <1>1 DEF RQs, over
  <2> QED BY <2>2, <2>3, <2>4, <2>5
<1>4. r = WithRq(set, c, v)
  <2>1. r = [set EXCEPT !.rq[c].overloaded = over]
    BY DEF update_rt_migration
  <2> HIDE DEF set, over
  <2> QED BY <1>3, <2>1, StateParts DEF WithRq
<1> HIDE DEF set
<1>5. /\ v \in RQs /\ v.overloaded = over /\ v.pushable = q.pushable /\ v.next = q.next
      /\ v.curr = q.curr /\ v.need_resched = q.need_resched /\ v.online = q.online
      /\ v.queue = q.queue /\ v.rt_nr_migratory = q.rt_nr_migratory
  <2>1. over \in BOOLEAN
    OBVIOUS
  <2> HIDE DEF over, q
  <2> QED BY <1>1, <2>1 DEF RQs
<1> HIDE DEF v
<1>6. /\ r \in States /\ r.rq[c] = v /\ \A d \in CPUs \ {c} : r.rq[d] = s.rq[d]
      /\ r.task = s.task /\ r.rd = set.rd /\ r.work = s.work
  <2>1. /\ r \in States /\ r.rq[c] = v /\ \A d \in CPUs \ {c} : r.rq[d] = set.rq[d]
        /\ r.task = set.task /\ r.rd = set.rd /\ r.work = set.work
    BY <1>3, <1>4, <1>5, ChangeRq
  <2> QED BY <2>1, <1>3
<1> HIDE DEF over
<1>7. MaskOk(r.rq, r.rd)
  <2>1. s.rd.rto_mask = {d \in CPUs : s.rq[d].online /\ s.rq[d].overloaded}
    BY <1>1 DEF MaskOk
  <2>2. r.rd.rto_mask = {d \in CPUs : r.rq[d].online /\ r.rq[d].overloaded}
    <3>1. ASSUME NEW d \in CPUs \ {c}
          PROVE  d \in r.rd.rto_mask <=> r.rq[d].online /\ r.rq[d].overloaded
      BY <2>1, <1>3, <1>6
    <3>2. c \in r.rd.rto_mask <=> r.rq[c].online /\ r.rq[c].overloaded
      BY <2>1, <1>3, <1>5, <1>6
    <3>3. r.rd.rto_mask \subseteq CPUs
      BY <2>1, <1>3, <1>6
    <3> QED BY <3>1, <3>2, <3>3
  <2> QED BY <2>2, <1>3, <1>6 DEF MaskOk
<1>8. Placed(r)
  BY <1>5, <1>6 DEF Others, Placed, q
<1>9. Others(r, c)
  BY <1>3, <1>6, <1>7, <1>8 DEF Others, PriOk
<1>10. Same(s, r)
  BY <1>5, <1>6 DEF Same, Kept, q
<1>11. CountOk(r.rq[c], s.task, c)
  BY <1>2, <1>5, <1>6 DEF CountOk
<1>12. PriOk(r.rd, r.rq[c], s.task, c)
  BY <1>3, <1>5, <1>6 DEF PriOk
<1> QED BY <1>5, <1>6, <1>9, <1>10, <1>11, <1>12 DEF q

(* inc_rt_migration and dec_rt_migration after the queue has changed.      *)
LEMMA Count ==
  ASSUME NEW s, NEW c \in CPUs, Others(s, c), QueueOk(s.rq[c], s.task, c),
         PriOk(s.rd, s.rq[c], s.task, c), NEW t \in Tasks, NEW by \in Int,
         s.rq[c].rt_nr_migratory + (IF Cardinality(s.task[t].allowed) > 1 THEN by ELSE 0)
           = Cardinality(Movable(s.task, c)),
         NEW r, r = count_migration(s, c, t, by)
  PROVE  /\ Others(r, c) /\ Same(s, r) /\ CountOk(r.rq[c], s.task, c)
         /\ PriOk(r.rd, r.rq[c], s.task, c)
         /\ r.rq[c].pushable = s.rq[c].pushable /\ r.rq[c].next = s.rq[c].next
<1> DEFINE q == s.rq[c]
           n == q.rt_nr_migratory + (IF Cardinality(s.task[t].allowed) > 1 THEN by ELSE 0)
           v == [q EXCEPT !.rt_nr_migratory = n]
           u == WithRq(s, c, v)
<1>1. s \in States /\ q \in RQs
  BY StateParts DEF Others
<1>2. n \in Int /\ n = Cardinality(Movable(s.task, c))
  BY <1>1 DEF RQs
<1>3. r = update_rt_migration(u, c)
  BY DEF count_migration, nr_cpus_allowed, WithRq
<1> HIDE DEF n
<1>4. /\ v \in RQs /\ v.rt_nr_migratory = n /\ v.pushable = q.pushable /\ v.next = q.next
      /\ v.curr = q.curr /\ v.need_resched = q.need_resched /\ v.online = q.online
      /\ v.queue = q.queue /\ v.overloaded = q.overloaded
  <2> HIDE DEF q
  <2> QED BY <1>1, <1>2 DEF RQs
<1> HIDE DEF v
<1>5. /\ u \in States /\ u.rq[c] = v /\ \A d \in CPUs \ {c} : u.rq[d] = s.rq[d]
      /\ u.task = s.task /\ u.rd = s.rd /\ u.work = s.work
  BY <1>1, <1>4, ChangeRq
<1> HIDE DEF u
<1>6. Others(u, c) /\ Same(s, u)
  <2>1. Others(u, c)
    BY <1>4, <1>5, OthersKept
  <2> QED BY <2>1, <1>4, <1>5 DEF Same, Kept
<1>7. QueueOk(u.rq[c], u.task, c) /\ PriOk(u.rd, u.rq[c], u.task, c)
  BY <1>4, <1>5 DEF QueueOk, PriOk
<1>8. u.rq[c].rt_nr_migratory = Cardinality(Movable(u.task, c))
  BY <1>2, <1>4, <1>5
<1>9. /\ Others(r, c) /\ Same(u, r) /\ CountOk(r.rq[c], u.task, c)
      /\ PriOk(r.rd, r.rq[c], u.task, c)
      /\ r.rq[c].pushable = u.rq[c].pushable /\ r.rq[c].next = u.rq[c].next
  BY <1>3, <1>6, <1>7, <1>8, Overload
<1>10. Same(s, r)
  BY <1>6, <1>9, SameTwice
<1> QED BY <1>4, <1>5, <1>9, <1>10

-----------------------------------------------------------------------------
(* T2 and T differ in the task t alone.                                    *)
Differ(T, T2, t) == \A u \in Tasks \ {t} : T2[u] = T[u]

(* A CPU without t does not see the difference.                            *)
LEMMA RowSame ==
  ASSUME NEW T, NEW T2, NEW t \in Tasks, Differ(T, T2, t), NEW d,
         ~(T[t].on_rq /\ T[t].cpu = d), ~(T2[t].on_rq /\ T2[t].cpu = d)
  PROVE  /\ OnQueue(T2, d) = OnQueue(T, d)
         /\ RtOn(T2, d) = RtOn(T, d)
         /\ Movable(T2, d) = Movable(T, d)
         /\ \A r : Row(r, T, d) => Row(r, T2, d)
         /\ \A r, e : PriOk(e, r, T, d) => PriOk(e, r, T2, d)
<1>1. t \notin OnQueue(T, d) /\ t \notin OnQueue(T2, d)
  BY DEF OnQueue
<1>2. OnQueue(T2, d) = OnQueue(T, d)
  BY <1>1 DEF OnQueue, Differ
<1>3. \A u \in OnQueue(T, d) : T2[u] = T[u]
  BY <1>1 DEF OnQueue, Differ
<1>4. RtOn(T2, d) = RtOn(T, d) /\ RtOn(T, d) \subseteq OnQueue(T, d)
  BY <1>2, <1>3 DEF RtOn
<1>5. Movable(T2, d) = Movable(T, d) /\ Movable(T, d) \subseteq OnQueue(T, d)
  BY <1>3, <1>4 DEF Movable
<1>6. ASSUME NEW r, Row(r, T, d) PROVE Row(r, T2, d)
  <2>1. QueueOk(r, T2, d)
    BY <1>2, <1>3, <1>6, OrderedSame DEF Row, QueueOk
  <2>2. PushOk(r, T2, Movable(T2, d) \ {r.curr})
    <3> DEFINE W == Movable(T, d) \ {r.curr}
    <3>1. \A u \in W : T2[u].prio = T[u].prio
      BY <1>3, <1>5
    <3>2. PushOk(r, T, W)
      BY <1>6 DEF Row
    <3>3. W = Movable(T2, d) \ {r.curr}
      BY <1>5
    <3> HIDE DEF W
    <3>4. PushOk(r, T2, W)
      BY <3>1, <3>2, OrderedSame, BestSame DEF PushOk
    <3> QED BY <3>3, <3>4
  <2>3. CountOk(r, T2, d)
    BY <1>4, <1>5, <1>6 DEF Row, CountOk
  <2> QED BY <2>1, <2>2, <2>3 DEF Row
<1>7. ASSUME NEW r, NEW e, PriOk(e, r, T, d) PROVE PriOk(e, r, T2, d)
  BY <1>2, <1>3, <1>7, BestSame DEF PriOk
<1> QED BY <1>2, <1>4, <1>5, <1>6, <1>7

(* t is queued at c in T2, and in T it is not.                             *)
Joins(T, T2, t, c) ==
  /\ Differ(T, T2, t)
  /\ ~T[t].on_rq /\ T2[t].on_rq /\ T2[t].cpu = c
  /\ T2[t].prio = T[t].prio /\ T2[t].allowed = T[t].allowed

JoinedSets(T, T2, t, c) ==
  LET rt == T[t].prio < MAX_RT_PRIO
      many == Cardinality(T[t].allowed) > 1
  IN  /\ t \notin OnQueue(T, c) /\ OnQueue(T2, c) = OnQueue(T, c) \cup {t}
      /\ RtOn(T2, c) = IF rt THEN RtOn(T, c) \cup {t} ELSE RtOn(T, c)
      /\ t \notin Movable(T, c)
      /\ Movable(T2, c) = IF rt /\ many THEN Movable(T, c) \cup {t} ELSE Movable(T, c)
      /\ Cardinality(Movable(T2, c)) =
           IF rt /\ many THEN Cardinality(Movable(T, c)) + 1 ELSE Cardinality(Movable(T, c))

LEMMA JoinSets ==
  ASSUME NEW T, NEW T2, NEW t \in Tasks, NEW c, Joins(T, T2, t, c)
  PROVE  JoinedSets(T, T2, t, c)
<1>1. t \notin OnQueue(T, c) /\ OnQueue(T2, c) = OnQueue(T, c) \cup {t}
  BY DEF OnQueue, Joins, Differ
<1>2. \A u \in OnQueue(T, c) : T2[u] = T[u]
  BY <1>1 DEF OnQueue, Joins, Differ
<1>3. RtOn(T2, c) = IF T[t].prio < MAX_RT_PRIO THEN RtOn(T, c) \cup {t} ELSE RtOn(T, c)
  BY <1>1, <1>2 DEF RtOn, Joins
<1>4. RtOn(T, c) \subseteq OnQueue(T, c) /\ Movable(T, c) \subseteq RtOn(T, c)
  BY DEF RtOn, Movable
<1>5. Movable(T2, c) = IF T[t].prio < MAX_RT_PRIO /\ Cardinality(T[t].allowed) > 1
                       THEN Movable(T, c) \cup {t} ELSE Movable(T, c)
  <2>1. \A u \in RtOn(T, c) : T2[u] = T[u]
    BY <1>2, <1>4
  <2>2. T2[t].allowed = T[t].allowed /\ t \notin RtOn(T, c)
    BY <1>1, <1>4 DEF Joins
  <2> QED BY <1>3, <2>1, <2>2 DEF Movable
<1>6. t \notin Movable(T, c)
  BY <1>1, <1>4
<1>7. Cardinality(Movable(T, c) \cup {t}) = Cardinality(Movable(T, c)) + 1
  BY <1>6, QueuesFinite, FS_AddElement
<1> QED BY <1>1, <1>3, <1>5, <1>6, <1>7 DEF JoinedSets

(* tell_cpupri is told what cpupri has.                                    *)
LEMMA PrevIs ==
  ASSUME NEW s, Good(s), NEW c \in CPUs
  PROVE  s.rd.cpupri[c] = IF s.rq[c].online THEN highest_prio(s, c) ELSE None
<1>1. /\ s \in States /\ s.task \in TaskMaps
      /\ QueueOk(s.rq[c], s.task, c) /\ PriOk(s.rd, s.rq[c], s.task, c)
  BY StateParts DEF Good, Row
<1>2. IsBest(highest_prio(s, c), s.task, OnQueue(s.task, c))
  BY <1>1, QueueIs DEF QueueOk
<1>3. OnQueue(s.task, c) \in SUBSET Tasks
  BY DEF OnQueue
<1>4. CASE s.rq[c].online
  <2>1. IsBest(s.rd.cpupri[c], s.task, OnQueue(s.task, c))
    BY <1>1, <1>4 DEF PriOk
  <2> QED BY <2>1, <1>1, <1>2, <1>3, <1>4, BestUnique
<1>5. CASE ~s.rq[c].online
  BY <1>1, <1>5 DEF PriOk
<1> QED BY <1>4, <1>5

LEMMA EnqueueTask ==
  ASSUME NEW s, Good(s), NEW c \in CPUs, NEW t \in Tasks, NEW head \in BOOLEAN,
         ~s.task[t].on_rq, s.task[t].cpu = c, NEW r, r = enqueue_task(s, c, t, head)
  PROVE  Good(r) /\ Kept(s, r) /\ Joins(s.task, r.task, t, c)
<1> DEFINE T == s.task
           q == s.rq[c]
           e == [T[t] EXCEPT !.on_rq = TRUE]
           L == IF head THEN AddHead(s, q.queue, t) ELSE AddTail(s, q.queue, t)
           v == [q EXCEPT !.queue = L]
           m == WithTask(s, t, e)
           u == WithRq(m, c, v)
           h == highest_prio(s, c)
           told == tell_cpupri(u, c, h)
           counted == count_migration(told, c, t, 1)
           W == Movable(T, c) \ {q.curr}
           rt == T[t].prio < MAX_RT_PRIO
           many == Cardinality(T[t].allowed) > 1
<1>1. /\ s \in States /\ q \in RQs /\ T \in TaskMaps
      /\ Others(s, c) /\ QueueOk(q, T, c) /\ PushOk(q, T, W) /\ CountOk(q, T, c)
      /\ PriOk(s.rd, q, T, c)
  BY GoodIs, StateParts DEF Others
<1>2. r = IF ~rt THEN u
          ELSE IF q.curr # t /\ many THEN enqueue_pushable_task(counted, c, t)
          ELSE counted
  <2> DEFINE o == [s EXCEPT !.task[t].on_rq = TRUE, !.rq[c].queue = L]
             done == count_migration(tell_cpupri(o, c, h), c, t, 1)
  <2>1. r = IF ~rt_task(s, t) THEN o
            ELSE IF q.curr # t /\ nr_cpus_allowed(s, t) > 1
            THEN enqueue_pushable_task(done, c, t) ELSE done
    BY DEF enqueue_task
  <2>2. o = u
    <3> HIDE DEF L
    <3> QED BY <1>1, StateParts DEF WithRq, WithTask
  <2>3. rt_task(s, t) = rt /\ nr_cpus_allowed(s, t) = Cardinality(T[t].allowed)
    BY TaskIs DEF nr_cpus_allowed
  <2> HIDE DEF o, u, q, T
  <2> QED BY <2>1, <2>2, <2>3
<1>3. Ordered(T, L, OnQueue(T, c) \cup {t})
  <2>1. t \notin OnQueue(T, c)
    BY DEF OnQueue
  <2>2. Ordered(T, q.queue, OnQueue(T, c))
    BY <1>1 DEF QueueOk
  <2> QED BY <1>1, <2>1, <2>2, OrderedAdd
<1>4. /\ e.cpu = c /\ e.prio = T[t].prio /\ e.allowed = T[t].allowed /\ e.on_rq = TRUE
      /\ e = [cpu |-> e.cpu, prio |-> e.prio, allowed |-> e.allowed, on_rq |-> e.on_rq]
      /\ e.prio \in 0 .. MAX_RT_PRIO /\ e.allowed \in SUBSET CPUs
      /\ e.cpu \in CPUs /\ e.on_rq \in BOOLEAN
  <2>1. /\ T[t] \in [cpu : CPUs, prio : 0 .. MAX_RT_PRIO, allowed : SUBSET CPUs,
                     on_rq : BOOLEAN]
        /\ T[t].cpu = c
    BY <1>1 DEF TaskMaps
  <2> DEFINE x == T[t]
  <2>2. e = [x EXCEPT !.on_rq = TRUE]
    OBVIOUS
  <2> HIDE DEF x, e
  <2>3. x \in [cpu : CPUs, prio : 0 .. MAX_RT_PRIO, allowed : SUBSET CPUs, on_rq : BOOLEAN]
    BY <2>1 DEF x
  <2>4. e = [cpu |-> x.cpu, prio |-> x.prio, allowed |-> x.allowed, on_rq |-> TRUE]
    BY <2>2, <2>3
  <2> QED BY <2>1, <2>3, <2>4 DEF x
<1> HIDE DEF e
<1>5. /\ m \in States /\ m.task[t] = e /\ \A a \in Tasks \ {t} : m.task[a] = T[a]
      /\ m.rq = s.rq /\ m.rd = s.rd /\ m.work = s.work
  BY <1>1, <1>4, ChangeTask
<1> HIDE DEF m
<1>6. /\ v \in RQs /\ v.queue = L /\ v.pushable = q.pushable /\ v.next = q.next
      /\ v.curr = q.curr /\ v.need_resched = q.need_resched /\ v.online = q.online
      /\ v.rt_nr_migratory = q.rt_nr_migratory /\ v.overloaded = q.overloaded
  <2>1. L \in Seq(Tasks)
    BY <1>3 DEF Ordered
  <2> HIDE DEF L, q
  <2> QED BY <1>1, <2>1 DEF RQs
<1> HIDE DEF v
<1>7. /\ u \in States /\ u.rq[c] = v /\ \A d \in CPUs \ {c} : u.rq[d] = s.rq[d]
      /\ u.task = m.task /\ u.rd = s.rd /\ u.work = s.work
  BY <1>5, <1>6, ChangeRq
<1> HIDE DEF u
<1>8. Joins(T, u.task, t, c)
  BY <1>4, <1>5, <1>7 DEF Joins, Differ
<1>9. /\ OnQueue(u.task, c) = OnQueue(T, c) \cup {t}
      /\ RtOn(u.task, c) = IF rt THEN RtOn(T, c) \cup {t} ELSE RtOn(T, c)
      /\ t \notin Movable(T, c)
      /\ Movable(u.task, c) = IF rt /\ many THEN Movable(T, c) \cup {t} ELSE Movable(T, c)
      /\ Cardinality(Movable(u.task, c)) =
           IF rt /\ many THEN Cardinality(Movable(T, c)) + 1 ELSE Cardinality(Movable(T, c))
  <2>1. JoinedSets(T, u.task, t, c)
    BY <1>8, JoinSets
  <2> QED BY <2>1 DEF JoinedSets
<1>10. \A a \in Tasks : u.task[a].prio = T[a].prio /\ u.task[a].cpu = T[a].cpu
                        /\ u.task[a].allowed = T[a].allowed
  BY <1>4, <1>5, <1>7
<1>11. Others(u, c)
  <2>1. \A d \in CPUs \ {c} : Row(u.rq[d], u.task, d) /\ PriOk(u.rd, u.rq[d], u.task, d)
    <3> SUFFICES ASSUME NEW d \in CPUs \ {c}
                 PROVE  Row(u.rq[d], u.task, d) /\ PriOk(u.rd, u.rq[d], u.task, d)
      OBVIOUS
    <3>1. Differ(T, u.task, t) /\ ~T[t].on_rq /\ u.task[t].cpu # d
      BY <1>8 DEF Joins
    <3>2. Row(s.rq[d], T, d) /\ PriOk(s.rd, s.rq[d], T, d)
      BY <1>1 DEF Others
    <3>3. Row(s.rq[d], u.task, d) /\ PriOk(s.rd, s.rq[d], u.task, d)
      BY <3>1, <3>2, RowSame
    <3> QED BY <3>3, <1>7
  <2>2. MaskOk(u.rq, u.rd)
    <3>1. \A d \in CPUs : u.rq[d].online = s.rq[d].online /\ u.rq[d].overloaded = s.rq[d].overloaded
      BY <1>6, <1>7
    <3> QED BY <1>1, <1>7, <3>1 DEF Others, MaskOk
  <2>3. Placed(u)
    <3>1. \A d \in CPUs : u.rq[d].curr = s.rq[d].curr
      BY <1>6, <1>7
    <3> QED BY <1>1, <1>10, <3>1 DEF Others, Placed
  <2> QED BY <1>7, <2>1, <2>2, <2>3 DEF Others
<1>12. QueueOk(u.rq[c], u.task, c)
  BY <1>3, <1>6, <1>7, <1>9, <1>10, OrderedSame, OrderedIn DEF QueueOk
<1>13. PushOk(u.rq[c], u.task, W)
  <2>1. \A a \in W : u.task[a].prio = T[a].prio
    BY <1>10 DEF Movable, RtOn, OnQueue
  <2> HIDE DEF W
  <2> QED BY <1>1, <1>6, <1>7, <2>1, OrderedSame, BestSame DEF PushOk
<1>14. Kept(s, u)
  BY <1>6, <1>7 DEF Kept
<1>15. q.curr = u.rq[c].curr
  BY <1>6, <1>7
<1>16. CASE ~rt
  <2>1. r = u
    BY <1>2, <1>16
  <2>2. CountOk(u.rq[c], u.task, c)
    BY <1>1, <1>6, <1>7, <1>9, <1>16 DEF CountOk
  <2>3. PriOk(u.rd, u.rq[c], u.task, c)
    <3>1. CASE q.online
      <4> DEFINE p == s.rd.cpupri[c]
      <4>1. IsBest(p, T, OnQueue(T, c))
        BY <1>1, <3>1 DEF PriOk
      <4>2. p <= T[t].prio
        BY <4>1, <1>16, <1>1, PriosAre, PushPullAssumption DEF IsBest
      <4> HIDE DEF p
      <4>3. IsBest(p, u.task, OnQueue(T, c) \cup {t})
        BY <4>1, <4>2, <1>10 DEF IsBest, OnQueue
      <4> QED BY <4>3, <3>1, <1>6, <1>7, <1>9 DEF PriOk, p
    <3>2. CASE ~q.online
      BY <3>2, <1>1, <1>6, <1>7 DEF PriOk
    <3> QED BY <3>1, <3>2
  <2>4. Movable(u.task, c) \ {u.rq[c].curr} = W
    BY <1>9, <1>15, <1>16
  <2> QED BY <2>1, <2>2, <2>3, <2>4, <1>8, <1>11, <1>12, <1>13, <1>14, GoodIs
<1>17. CASE rt
  <2>1. u.rd.cpupri[c] = IF u.rq[c].online THEN h ELSE None
    BY <1>6, <1>7, PrevIs
  <2>2. /\ Others(told, c) /\ PriOk(told.rd, u.rq[c], u.task, c)
        /\ told.rq = u.rq /\ told.task = u.task /\ told.work = u.work
    <3> HIDE DEF h
    <3> QED BY <2>1, <1>11, <1>12, Tell
  <2> HIDE DEF told
  <2>3. told.rq[c].rt_nr_migratory
          + (IF Cardinality(told.task[t].allowed) > 1 THEN 1 ELSE 0)
        = Cardinality(Movable(told.task, c))
    <3>1. told.rq[c].rt_nr_migratory = Cardinality(Movable(T, c))
      BY <2>2, <1>1, <1>6, <1>7 DEF CountOk
    <3>2. told.task[t].allowed = T[t].allowed
      BY <2>2, <1>10
    <3> QED BY <3>1, <3>2, <2>2, <1>9, <1>17, QueuesFinite
  <2>4. QueueOk(told.rq[c], told.task, c) /\ PriOk(told.rd, told.rq[c], told.task, c)
    BY <2>2, <1>12
  <2>5. /\ Others(counted, c) /\ Same(told, counted) /\ CountOk(counted.rq[c], told.task, c)
        /\ PriOk(counted.rd, counted.rq[c], told.task, c)
        /\ counted.rq[c].pushable = told.rq[c].pushable /\ counted.rq[c].next = told.rq[c].next
    BY <2>2, <2>3, <2>4, Count
  <2> HIDE DEF counted
  <2>6. PushOk(counted.rq[c], counted.task, W)
    BY <2>2, <2>5, <1>13 DEF PushOk, Same
  <2>7. Kept(s, counted) /\ counted.task = u.task
    BY <2>2, <2>5, <1>14 DEF Same, Kept
  <2>8. QueueOk(counted.rq[c], counted.task, c) /\ CountOk(counted.rq[c], counted.task, c)
        /\ PriOk(counted.rd, counted.rq[c], counted.task, c)
    BY <2>4, <2>5 DEF Same, QueueOk
  <2>9. counted.rq[c].curr = q.curr
    BY <2>7 DEF Kept
  <2>10. CASE q.curr # t /\ many
    <3>1. r = enqueue_pushable_task(counted, c, t)
      BY <1>2, <1>17, <2>10
    <3>2. t \notin W
      BY <1>9
    <3>3. /\ Others(r, c) /\ PushOk(r.rq[c], counted.task, W \cup {t})
          /\ Same(counted, r) /\ r.rd = counted.rd
          /\ r.rq[c].rt_nr_migratory = counted.rq[c].rt_nr_migratory
          /\ r.rq[c].overloaded = counted.rq[c].overloaded
      <4> HIDE DEF W
      <4>1. Pushable(counted, r, c, W \cup {t})
        BY <2>5, <2>6, <3>1, <3>2, PushAdd
      <4> QED BY <4>1 DEF Pushable
    <3>4. /\ r.task = counted.task /\ r.rq[c].queue = counted.rq[c].queue
          /\ r.rq[c].online = counted.rq[c].online /\ r.rq[c].curr = counted.rq[c].curr
      BY <3>3 DEF Same, Kept
    <3>5. W \cup {t} = Movable(r.task, c) \ {r.rq[c].curr}
      BY <3>4, <2>7, <2>9, <2>10, <1>9, <1>17
    <3>6. /\ QueueOk(r.rq[c], r.task, c) /\ CountOk(r.rq[c], r.task, c)
          /\ PriOk(r.rd, r.rq[c], r.task, c)
      BY <2>8, <3>3, <3>4 DEF QueueOk, CountOk, PriOk
    <3>7. PushOk(r.rq[c], r.task, Movable(r.task, c) \ {r.rq[c].curr})
      BY <3>3, <3>4, <3>5
    <3>8. Good(r)
      BY <3>3, <3>6, <3>7, GoodIs
    <3>9. Kept(s, r)
      BY <2>7, <3>3, SameTwice DEF Same
    <3> QED BY <3>4, <3>8, <3>9, <2>7, <1>8
  <2>11. CASE ~(q.curr # t /\ many)
    <3>1. r = counted
      BY <1>2, <1>17, <2>11
    <3>2. W = Movable(counted.task, c) \ {counted.rq[c].curr}
      BY <2>7, <2>9, <2>11, <1>9, <1>17
    <3>3. Good(r)
      BY <3>1, <3>2, <2>5, <2>6, <2>8, GoodIs
    <3> QED BY <3>1, <3>3, <2>7, <1>8
  <2> QED BY <2>10, <2>11
<1> QED BY <1>16, <1>17

LEMMA DequeueTask ==
  ASSUME NEW s, Good(s), NEW c \in CPUs, NEW t \in Tasks,
         s.task[t].on_rq, s.task[t].cpu = c, NEW r, r = dequeue_task(s, c, t)
  PROVE  Good(r) /\ Kept(s, r) /\ Joins(r.task, s.task, t, c) /\ r.task[t].cpu = c
<1> DEFINE T == s.task
           q == s.rq[c]
           e == [T[t] EXCEPT !.on_rq = FALSE]
           L == list_del(q.queue, t)
           v == [q EXCEPT !.queue = L]
           m == WithTask(s, t, e)
           u == WithRq(m, c, v)
           h == highest_prio(s, c)
           told == tell_cpupri(u, c, h)
           counted == count_migration(told, c, t, -1)
           W == Movable(T, c) \ {q.curr}
           rt == T[t].prio < MAX_RT_PRIO
           many == Cardinality(T[t].allowed) > 1
<1>1. /\ s \in States /\ q \in RQs /\ T \in TaskMaps
      /\ Others(s, c) /\ QueueOk(q, T, c) /\ PushOk(q, T, W) /\ CountOk(q, T, c)
      /\ PriOk(s.rd, q, T, c)
  BY GoodIs, StateParts DEF Others
<1>2. r = IF rt THEN dequeue_pushable_task(counted, c, t) ELSE u
  <2> DEFINE o == [s EXCEPT !.task[t].on_rq = FALSE, !.rq[c].queue = L]
             done == count_migration(tell_cpupri(o, c, h), c, t, -1)
  <2>1. r = IF rt_task(s, t) THEN dequeue_pushable_task(done, c, t) ELSE o
    BY DEF dequeue_task
  <2>2. o = u
    <3> HIDE DEF L
    <3> QED BY <1>1, StateParts DEF WithRq, WithTask
  <2>3. rt_task(s, t) = rt
    BY TaskIs
  <2> HIDE DEF o, u, q, T
  <2> QED BY <2>1, <2>2, <2>3
<1>3. Ordered(T, L, OnQueue(T, c) \ {t})
  <2>1. Ordered(T, q.queue, OnQueue(T, c))
    BY <1>1 DEF QueueOk
  <2> QED BY <1>1, <2>1, OrderedDel
<1>4. /\ e.cpu = c /\ e.prio = T[t].prio /\ e.allowed = T[t].allowed /\ e.on_rq = FALSE
      /\ e = [cpu |-> e.cpu, prio |-> e.prio, allowed |-> e.allowed, on_rq |-> e.on_rq]
      /\ e.prio \in 0 .. MAX_RT_PRIO /\ e.allowed \in SUBSET CPUs
      /\ e.cpu \in CPUs /\ e.on_rq \in BOOLEAN
  <2>1. /\ T[t] \in [cpu : CPUs, prio : 0 .. MAX_RT_PRIO, allowed : SUBSET CPUs,
                     on_rq : BOOLEAN]
        /\ T[t].cpu = c
    BY <1>1 DEF TaskMaps
  <2> DEFINE x == T[t]
  <2>2. e = [x EXCEPT !.on_rq = FALSE]
    OBVIOUS
  <2> HIDE DEF x, e
  <2>3. x \in [cpu : CPUs, prio : 0 .. MAX_RT_PRIO, allowed : SUBSET CPUs, on_rq : BOOLEAN]
    BY <2>1 DEF x
  <2>4. e = [cpu |-> x.cpu, prio |-> x.prio, allowed |-> x.allowed, on_rq |-> FALSE]
    BY <2>2, <2>3
  <2> QED BY <2>1, <2>3, <2>4 DEF x
<1> HIDE DEF e
<1>5. /\ m \in States /\ m.task[t] = e /\ \A a \in Tasks \ {t} : m.task[a] = T[a]
      /\ m.rq = s.rq /\ m.rd = s.rd /\ m.work = s.work
  BY <1>1, <1>4, ChangeTask
<1> HIDE DEF m
<1>6. /\ v \in RQs /\ v.queue = L /\ v.pushable = q.pushable /\ v.next = q.next
      /\ v.curr = q.curr /\ v.need_resched = q.need_resched /\ v.online = q.online
      /\ v.rt_nr_migratory = q.rt_nr_migratory /\ v.overloaded = q.overloaded
  <2>1. L \in Seq(Tasks)
    BY <1>3 DEF Ordered
  <2> HIDE DEF L, q
  <2> QED BY <1>1, <2>1 DEF RQs
<1> HIDE DEF v
<1>7. /\ u \in States /\ u.rq[c] = v /\ \A d \in CPUs \ {c} : u.rq[d] = s.rq[d]
      /\ u.task = m.task /\ u.rd = s.rd /\ u.work = s.work
  BY <1>5, <1>6, ChangeRq
<1> HIDE DEF u
<1>8. Joins(u.task, T, t, c) /\ u.task[t].cpu = c
  BY <1>4, <1>5, <1>7 DEF Joins, Differ
<1>9. \A a \in Tasks : u.task[a].prio = T[a].prio /\ u.task[a].cpu = T[a].cpu
                       /\ u.task[a].allowed = T[a].allowed
  BY <1>4, <1>5, <1>7
<1>10. /\ OnQueue(u.task, c) = OnQueue(T, c) \ {t}
       /\ RtOn(u.task, c) = IF rt THEN RtOn(T, c) \ {t} ELSE RtOn(T, c)
       /\ Movable(u.task, c) = Movable(T, c) \ {t}
       /\ ~rt => Movable(u.task, c) = Movable(T, c)
       /\ Cardinality(Movable(T, c)) =
            IF rt /\ many THEN Cardinality(Movable(u.task, c)) + 1
            ELSE Cardinality(Movable(u.task, c))
  <2>1. JoinedSets(u.task, T, t, c)
    BY <1>8, JoinSets
  <2>2. u.task[t].prio = T[t].prio /\ u.task[t].allowed = T[t].allowed
    BY <1>9
  <2>3. RtOn(u.task, c) \subseteq OnQueue(u.task, c)
    BY DEF RtOn
  <2> HIDE DEF T
  <2> QED BY <2>1, <2>2, <2>3 DEF JoinedSets
<1>11. Others(u, c)
  <2>1. \A d \in CPUs \ {c} : Row(u.rq[d], u.task, d) /\ PriOk(u.rd, u.rq[d], u.task, d)
    <3> SUFFICES ASSUME NEW d \in CPUs \ {c}
                 PROVE  Row(u.rq[d], u.task, d) /\ PriOk(u.rd, u.rq[d], u.task, d)
      OBVIOUS
    <3>1. Differ(T, u.task, t) /\ T[t].cpu # d /\ ~u.task[t].on_rq
      BY <1>8 DEF Joins, Differ
    <3>2. Row(s.rq[d], T, d) /\ PriOk(s.rd, s.rq[d], T, d)
      BY <1>1 DEF Others
    <3>3. Row(s.rq[d], u.task, d) /\ PriOk(s.rd, s.rq[d], u.task, d)
      BY <3>1, <3>2, RowSame
    <3> QED BY <3>3, <1>7
  <2>2. MaskOk(u.rq, u.rd)
    <3>1. \A d \in CPUs : u.rq[d].online = s.rq[d].online /\ u.rq[d].overloaded = s.rq[d].overloaded
      BY <1>6, <1>7
    <3> QED BY <1>1, <1>7, <3>1 DEF Others, MaskOk
  <2>3. Placed(u)
    <3>1. \A d \in CPUs : u.rq[d].curr = s.rq[d].curr
      BY <1>6, <1>7
    <3> QED BY <1>1, <1>9, <3>1 DEF Others, Placed
  <2> QED BY <1>7, <2>1, <2>2, <2>3 DEF Others
<1>12. QueueOk(u.rq[c], u.task, c)
  BY <1>3, <1>6, <1>7, <1>10, <1>9, OrderedSame, OrderedIn DEF QueueOk
<1>13. PushOk(u.rq[c], u.task, W)
  <2>1. \A a \in W : u.task[a].prio = T[a].prio
    BY <1>9 DEF Movable, RtOn, OnQueue
  <2> HIDE DEF W
  <2> QED BY <1>1, <1>6, <1>7, <2>1, OrderedSame, BestSame DEF PushOk
<1>14. Kept(s, u)
  BY <1>6, <1>7 DEF Kept
<1>15. q.curr = u.rq[c].curr
  BY <1>6, <1>7
<1>16. CASE ~rt
  <2>1. r = u
    BY <1>2, <1>16
  <2>2. CountOk(u.rq[c], u.task, c)
    BY <1>1, <1>6, <1>7, <1>10, <1>16 DEF CountOk
  <2>3. PriOk(u.rd, u.rq[c], u.task, c)
    <3>1. CASE q.online
      <4> DEFINE p == s.rd.cpupri[c]
      <4>1. IsBest(p, T, OnQueue(T, c))
        BY <1>1, <3>1 DEF PriOk
      <4>2. p = T[t].prio => p = MAX_RT_PRIO
        BY <4>1, <1>16, <1>1, PriosAre, PushPullAssumption DEF IsBest
      <4> HIDE DEF p
      <4>3. IsBest(p, u.task, OnQueue(T, c) \ {t})
        BY <4>1, <4>2, <1>9 DEF IsBest, OnQueue
      <4> QED BY <4>3, <3>1, <1>6, <1>7, <1>10 DEF PriOk, p
    <3>2. CASE ~q.online
      BY <3>2, <1>1, <1>6, <1>7 DEF PriOk
    <3> QED BY <3>1, <3>2
  <2>4. Movable(u.task, c) \ {u.rq[c].curr} = W
    BY <1>10, <1>15, <1>16
  <2> QED BY <2>1, <2>2, <2>3, <2>4, <1>8, <1>11, <1>12, <1>13, <1>14, GoodIs
<1>17. CASE rt
  <2>1. u.rd.cpupri[c] = IF u.rq[c].online THEN h ELSE None
    BY <1>6, <1>7, PrevIs
  <2>2. /\ Others(told, c) /\ PriOk(told.rd, u.rq[c], u.task, c)
        /\ told.rq = u.rq /\ told.task = u.task /\ told.work = u.work
    <3> HIDE DEF h
    <3> QED BY <2>1, <1>11, <1>12, Tell
  <2> HIDE DEF told
  <2>3. told.rq[c].rt_nr_migratory
          + (IF Cardinality(told.task[t].allowed) > 1 THEN -1 ELSE 0)
        = Cardinality(Movable(told.task, c))
    <3>1. told.rq[c].rt_nr_migratory = Cardinality(Movable(T, c))
      BY <2>2, <1>1, <1>6, <1>7 DEF CountOk
    <3>2. told.task[t].allowed = T[t].allowed
      BY <2>2, <1>9
    <3>3. Cardinality(Movable(u.task, c)) \in Nat
      BY QueuesFinite
    <3> QED BY <3>1, <3>2, <3>3, <2>2, <1>10, <1>17
  <2>4. QueueOk(told.rq[c], told.task, c) /\ PriOk(told.rd, told.rq[c], told.task, c)
    BY <2>2, <1>12
  <2>5. /\ Others(counted, c) /\ Same(told, counted) /\ CountOk(counted.rq[c], told.task, c)
        /\ PriOk(counted.rd, counted.rq[c], told.task, c)
        /\ counted.rq[c].pushable = told.rq[c].pushable /\ counted.rq[c].next = told.rq[c].next
    BY <2>2, <2>3, <2>4, Count
  <2> HIDE DEF counted
  <2>6. PushOk(counted.rq[c], counted.task, W)
    BY <2>2, <2>5, <1>13 DEF PushOk, Same
  <2>7. Kept(s, counted) /\ counted.task = u.task
    BY <2>2, <2>5, <1>14 DEF Same, Kept
  <2>8. QueueOk(counted.rq[c], counted.task, c) /\ CountOk(counted.rq[c], counted.task, c)
        /\ PriOk(counted.rd, counted.rq[c], counted.task, c)
    BY <2>4, <2>5 DEF Same, QueueOk
  <2>9. counted.rq[c].curr = q.curr
    BY <2>7 DEF Kept
  <2>10. r = dequeue_pushable_task(counted, c, t)
    BY <1>2, <1>17
  <2>11. /\ Others(r, c) /\ PushOk(r.rq[c], counted.task, W \ {t})
         /\ Same(counted, r) /\ r.rd = counted.rd
         /\ r.rq[c].rt_nr_migratory = counted.rq[c].rt_nr_migratory
         /\ r.rq[c].overloaded = counted.rq[c].overloaded
    <3> HIDE DEF W
    <3>1. Pushable(counted, r, c, W \ {t})
      BY <2>5, <2>6, <2>10, PushDel
    <3> QED BY <3>1 DEF Pushable
  <2>12. /\ r.task = counted.task /\ r.rq[c].queue = counted.rq[c].queue
         /\ r.rq[c].online = counted.rq[c].online /\ r.rq[c].curr = counted.rq[c].curr
    BY <2>11 DEF Same, Kept
  <2>13. W \ {t} = Movable(r.task, c) \ {r.rq[c].curr}
    BY <2>7, <2>9, <2>12, <1>10
  <2>14. /\ QueueOk(r.rq[c], r.task, c) /\ CountOk(r.rq[c], r.task, c)
         /\ PriOk(r.rd, r.rq[c], r.task, c)
    BY <2>8, <2>11, <2>12 DEF QueueOk, CountOk, PriOk
  <2>15. PushOk(r.rq[c], r.task, Movable(r.task, c) \ {r.rq[c].curr})
    BY <2>11, <2>12, <2>13
  <2>16. Good(r)
    BY <2>11, <2>14, <2>15, GoodIs
  <2>17. Kept(s, r)
    BY <2>7, <2>11, SameTwice DEF Same
  <2> QED BY <2>7, <2>12, <2>16, <2>17, <1>8
<1> QED BY <1>16, <1>17

-----------------------------------------------------------------------------
(* A change of a task that is on no queue.                                 *)
LEMMA OffQueue ==
  ASSUME NEW s, Good(s), NEW t \in Tasks, NEW r \in States,
         r.rq = s.rq, r.rd = s.rd, Differ(s.task, r.task, t),
         ~s.task[t].on_rq, ~r.task[t].on_rq, r.task[t].cpu \in r.task[t].allowed,
         \A c \in CPUs : s.rq[c].curr = t => r.task[t].cpu = c
  PROVE  Good(r)
<1>1. \A d \in CPUs : Row(r.rq[d], r.task, d) /\ PriOk(r.rd, r.rq[d], r.task, d)
  BY RowSame DEF Good
<1>2. Placed(r)
  BY DEF Good, Placed, Differ
<1> QED BY <1>1, <1>2 DEF Good

(* t waits on c although it is more important than what c runs, and c is   *)
(* not told.                                                               *)
Urgent(s, c, t) ==
  /\ s.task[t].on_rq
  /\ s.task[t].cpu = c
  /\ prio(s, t) < prio(s, s.rq[c].curr)
  /\ ~s.rq[c].need_resched

(* From s to r tasks that are queued and do not run change their CPU, at   *)
(* most, and nothing becomes urgent but on the CPUs C.                     *)
Calm(s, r, C) ==
  /\ \A d \in CPUs : r.rq[d].curr = s.rq[d].curr /\ r.rq[d].online = s.rq[d].online
  /\ \A t \in Tasks :
       /\ r.task[t].prio = s.task[t].prio
       /\ r.task[t].on_rq = s.task[t].on_rq
       /\ r.task[t] # s.task[t] =>
            /\ s.task[t].on_rq
            /\ \A d \in CPUs : s.rq[d].curr # t
  /\ \A d \in CPUs \ C, t \in Tasks : Urgent(r, d, t) => Urgent(s, d, t)

LEMMA CalmTwice ==
  ASSUME NEW r, NEW s, NEW u, NEW C, NEW D, Calm(r, s, C), Calm(s, u, D), C \subseteq D
  PROVE  Calm(r, u, D)
<1>1. \A d \in CPUs : u.rq[d].curr = r.rq[d].curr /\ u.rq[d].online = r.rq[d].online
  BY DEF Calm
<1>2. \A t \in Tasks : /\ u.task[t].prio = r.task[t].prio
                       /\ u.task[t].on_rq = r.task[t].on_rq
                       /\ u.task[t] # r.task[t] =>
                            /\ r.task[t].on_rq
                            /\ \A d \in CPUs : r.rq[d].curr # t
  BY DEF Calm
<1>3. \A d \in CPUs \ D, t \in Tasks : Urgent(u, d, t) => Urgent(r, d, t)
  <2> SUFFICES ASSUME NEW d \in CPUs \ D, NEW t \in Tasks, Urgent(u, d, t)
               PROVE  Urgent(r, d, t)
    OBVIOUS
  <2>1. Urgent(s, d, t)
    BY DEF Calm
  <2>2. d \in CPUs \ C
    OBVIOUS
  <2> QED BY <2>1, <2>2 DEF Calm
<1> QED BY <1>1, <1>2, <1>3 DEF Calm

LEMMA CalmSame ==
  ASSUME NEW s, NEW r, NEW C, r.task = s.task,
         \A d \in CPUs : /\ r.rq[d].curr = s.rq[d].curr
                         /\ r.rq[d].online = s.rq[d].online
                         /\ s.rq[d].need_resched => r.rq[d].need_resched
  PROVE  Calm(s, r, C)
<1>1. \A d \in CPUs, t \in Tasks : Urgent(r, d, t) => Urgent(s, d, t)
  BY DEF Urgent, prio
<1> QED BY <1>1 DEF Calm

LEMMA Resched ==
  ASSUME NEW s, Good(s), NEW c \in CPUs, NEW r, r = resched_task(s, c)
  PROVE  /\ Good(r) /\ r.task = s.task /\ r.work = s.work
         /\ \A d \in CPUs : r.rq[d].curr = s.rq[d].curr
         /\ \A C : Calm(s, r, C)
         /\ \A t \in Tasks : ~Urgent(r, c, t)
<1> DEFINE q == s.rq[c]
           v == [q EXCEPT !.need_resched = TRUE]
<1>1. /\ s \in States /\ q \in RQs
      /\ Others(s, c) /\ QueueOk(q, s.task, c)
      /\ PushOk(q, s.task, Movable(s.task, c) \ {q.curr}) /\ CountOk(q, s.task, c)
      /\ PriOk(s.rd, q, s.task, c)
  BY GoodIs, StateParts DEF Others
<1>2. r = WithRq(s, c, v)
  BY DEF resched_task, WithRq
<1> HIDE DEF q
<1>3. /\ v \in RQs /\ v.queue = q.queue /\ v.pushable = q.pushable /\ v.next = q.next
      /\ v.curr = q.curr /\ v.need_resched = TRUE /\ v.online = q.online
      /\ v.rt_nr_migratory = q.rt_nr_migratory /\ v.overloaded = q.overloaded
  BY <1>1 DEF RQs
<1> HIDE DEF v
<1>4. /\ r \in States /\ r.rq[c] = v /\ \A d \in CPUs \ {c} : r.rq[d] = s.rq[d]
      /\ r.task = s.task /\ r.rd = s.rd /\ r.work = s.work
  BY <1>1, <1>2, <1>3, ChangeRq
<1>5. Others(r, c)
  BY <1>1, <1>3, <1>4, OthersKept DEF q
<1>6. Good(r)
  <2>1. /\ QueueOk(r.rq[c], r.task, c) /\ CountOk(r.rq[c], r.task, c)
        /\ PriOk(r.rd, r.rq[c], r.task, c)
        /\ PushOk(r.rq[c], r.task, Movable(r.task, c) \ {r.rq[c].curr})
    BY <1>1, <1>3, <1>4 DEF QueueOk, CountOk, PriOk, PushOk
  <2> QED BY <1>5, <2>1, GoodIs
<1>7. \A d \in CPUs : /\ r.rq[d].curr = s.rq[d].curr
                      /\ r.rq[d].online = s.rq[d].online
                      /\ s.rq[d].need_resched => r.rq[d].need_resched
  BY <1>3, <1>4 DEF q
<1>8. \A C : Calm(s, r, C)
  BY <1>4, <1>7, CalmSame
<1>9. \A t \in Tasks : ~Urgent(r, c, t)
  BY <1>3, <1>4 DEF Urgent
<1> QED BY <1>4, <1>6, <1>7, <1>8, <1>9

LEMMA MoveTask ==
  ASSUME NEW s, Good(s), NEW c \in CPUs, NEW d \in CPUs, NEW t \in Tasks,
         s.task[t].on_rq, s.task[t].cpu = c, s.rq[c].curr # t, d \in s.task[t].allowed,
         NEW r, r = Move(s, t, c, d)
  PROVE  /\ Good(r) /\ Kept(s, r) /\ Calm(s, r, {d}) /\ r.task[t].cpu = d
         /\ Differ(s.task, r.task, t)
<1> DEFINE g == dequeue_task(s, c, t)
           e == [g.task[t] EXCEPT !.cpu = d]
           m == WithTask(g, t, e)
<1>1. /\ Good(g) /\ Kept(s, g) /\ Joins(g.task, s.task, t, c) /\ g.task[t].cpu = c
      /\ g \in States /\ g.task \in TaskMaps
  <2>1. Good(g) /\ Kept(s, g) /\ Joins(g.task, s.task, t, c) /\ g.task[t].cpu = c
    BY DequeueTask
  <2> QED BY <2>1, StateParts DEF Good
<1>2. r = enqueue_task(m, d, t, FALSE)
  <2>1. r = enqueue_task([g EXCEPT !.task[t].cpu = d], d, t, FALSE)
    BY DEF Move
  <2> HIDE DEF g
  <2>2. [g EXCEPT !.task[t].cpu = d] = m
    BY DEF WithTask
  <2> QED BY <2>1, <2>2
<1> HIDE DEF g
<1>3. /\ e.cpu = d /\ e.prio = g.task[t].prio /\ e.allowed = g.task[t].allowed
      /\ e.on_rq = g.task[t].on_rq
      /\ e = [cpu |-> e.cpu, prio |-> e.prio, allowed |-> e.allowed, on_rq |-> e.on_rq]
      /\ e.prio \in 0 .. MAX_RT_PRIO /\ e.allowed \in SUBSET CPUs
      /\ e.cpu \in CPUs /\ e.on_rq \in BOOLEAN
  <2> DEFINE x == g.task[t]
  <2>1. x \in [cpu : CPUs, prio : 0 .. MAX_RT_PRIO, allowed : SUBSET CPUs, on_rq : BOOLEAN]
    BY <1>1 DEF TaskMaps
  <2>2. e = [x EXCEPT !.cpu = d]
    OBVIOUS
  <2> HIDE DEF x, e
  <2>3. e = [cpu |-> d, prio |-> x.prio, allowed |-> x.allowed, on_rq |-> x.on_rq]
    BY <2>1, <2>2
  <2> QED BY <2>1, <2>3 DEF x
<1> HIDE DEF e
<1>4. /\ m \in States /\ m.task[t] = e /\ \A a \in Tasks \ {t} : m.task[a] = g.task[a]
      /\ m.rq = g.rq /\ m.rd = g.rd /\ m.work = g.work
  BY <1>1, <1>3, ChangeTask
<1> HIDE DEF m
<1>5. \A a \in Tasks : g.task[a].prio = s.task[a].prio /\ g.task[a].allowed = s.task[a].allowed
  BY <1>1 DEF Joins, Differ
<1>6. \A x \in CPUs : s.rq[x].curr # t
  BY DEF Good, Placed
<1>7. Good(m)
  <2>1. ~g.task[t].on_rq /\ Differ(g.task, m.task, t)
    BY <1>1, <1>4 DEF Joins, Differ
  <2>2. \A x \in CPUs : g.rq[x].curr # t
    BY <1>1, <1>6 DEF Kept
  <2>3. ~m.task[t].on_rq /\ m.task[t].cpu \in m.task[t].allowed
    BY <2>1, <1>3, <1>4, <1>5
  <2> QED BY <1>1, <1>4, <2>1, <2>2, <2>3, OffQueue
<1>8. Good(r) /\ Kept(m, r) /\ Joins(m.task, r.task, t, d)
  <2>1. ~m.task[t].on_rq /\ m.task[t].cpu = d /\ FALSE \in BOOLEAN
    BY <1>1, <1>3, <1>4 DEF Joins
  <2> QED BY <1>2, <1>7, <2>1, EnqueueTask
<1>9. Kept(s, r)
  BY <1>1, <1>4, <1>8 DEF Kept
<1>10. /\ Differ(s.task, r.task, t) /\ r.task[t].cpu = d /\ r.task[t].on_rq
       /\ r.task[t].prio = s.task[t].prio
  BY <1>1, <1>3, <1>4, <1>5, <1>8 DEF Joins, Differ
<1>11. Calm(s, r, {d})
  <2>0. /\ s.task \in TaskMaps /\ r.task \in TaskMaps
    BY <1>8, StateParts DEF Good
  <2>1. \A a \in Tasks : /\ r.task[a].prio = s.task[a].prio
                         /\ r.task[a].on_rq = s.task[a].on_rq
                         /\ a # t => r.task[a] = s.task[a]
    <3>1. s.task[t].on_rq \in BOOLEAN /\ r.task[t].on_rq \in BOOLEAN
      BY <2>0 DEF TaskMaps
    <3> QED BY <1>10, <3>1 DEF Differ
  <2>2. /\ \A x \in Tasks \cup {Idle} : prio(r, x) = prio(s, x)
        /\ \A x \in CPUs : s.rq[x].curr \in Tasks \cup {Idle}
    <3>1. \A x \in CPUs : s.rq[x] \in RQs
      BY StateParts DEF Good
    <3> QED BY <2>1, <3>1 DEF prio, RQs
  <2>3. ASSUME NEW x \in CPUs \ {d}, NEW a \in Tasks, Urgent(r, x, a) PROVE Urgent(s, x, a)
    <3>1. a # t
      BY <1>10, <2>3 DEF Urgent
    <3> QED BY <2>1, <2>2, <2>3, <3>1, <1>9 DEF Urgent, Kept
  <2> QED BY <1>6, <1>9, <2>1, <2>3 DEF Calm, Kept
<1> QED BY <1>8, <1>9, <1>10, <1>11

(* requeue_task_rt of t: the queue holds the same tasks.                   *)
LEMMA Requeue ==
  ASSUME NEW s, Good(s), NEW c \in CPUs, NEW t \in Tasks, s.task[t].on_rq, s.task[t].cpu = c,
         NEW r, r = [s EXCEPT !.rq[c].queue = AddHead(s, list_del(@, t), t)]
  PROVE  /\ Good(r) /\ r.task = s.task /\ r.work = s.work
         /\ \A d \in CPUs : /\ r.rq[d].curr = s.rq[d].curr
                            /\ r.rq[d].need_resched = s.rq[d].need_resched
                            /\ r.rq[d].online = s.rq[d].online
<1> DEFINE q == s.rq[c]
           W == OnQueue(s.task, c)
           L == AddHead(s, list_del(q.queue, t), t)
           v == [q EXCEPT !.queue = L]
<1>1. /\ s \in States /\ q \in RQs /\ s.task \in TaskMaps
      /\ Others(s, c) /\ QueueOk(q, s.task, c)
      /\ PushOk(q, s.task, Movable(s.task, c) \ {q.curr}) /\ CountOk(q, s.task, c)
      /\ PriOk(s.rd, q, s.task, c)
  BY GoodIs, StateParts DEF Others
<1>2. Ordered(s.task, L, W)
  <2>1. Ordered(s.task, list_del(q.queue, t), W \ {t})
    BY <1>1, OrderedDel DEF QueueOk
  <2>2. Ordered(s.task, L, (W \ {t}) \cup {t})
    BY <1>1, <2>1, OrderedAdd
  <2>3. (W \ {t}) \cup {t} = W
    BY DEF OnQueue
  <2> QED BY <2>2, <2>3
<1>3. r = WithRq(s, c, v)
  BY DEF WithRq
<1>4. /\ v \in RQs /\ v.queue = L /\ v.pushable = q.pushable /\ v.next = q.next
      /\ v.curr = q.curr /\ v.need_resched = q.need_resched /\ v.online = q.online
      /\ v.rt_nr_migratory = q.rt_nr_migratory /\ v.overloaded = q.overloaded
  <2>1. L \in Seq(Tasks)
    BY <1>2 DEF Ordered
  <2> HIDE DEF L, q
  <2> QED BY <1>1, <2>1 DEF RQs
<1> HIDE DEF v, L, q
<1>5. /\ r \in States /\ r.rq[c] = v /\ \A d \in CPUs \ {c} : r.rq[d] = s.rq[d]
      /\ r.task = s.task /\ r.rd = s.rd /\ r.work = s.work
  BY ONLY c \in CPUs, <1>1, <1>3, <1>4, ChangeRq
<1>6. Others(r, c)
  BY ONLY c \in CPUs, <1>1, <1>4, <1>5, OthersKept DEF q
<1>7. /\ QueueOk(r.rq[c], r.task, c) /\ CountOk(r.rq[c], r.task, c)
      /\ PriOk(r.rd, r.rq[c], r.task, c)
      /\ PushOk(r.rq[c], r.task, Movable(r.task, c) \ {r.rq[c].curr})
  BY <1>1, <1>2, <1>4, <1>5 DEF QueueOk, CountOk, PriOk, PushOk
<1>8. Good(r)
  BY <1>6, <1>7, GoodIs
<1> QED BY <1>4, <1>5, <1>8 DEF q

LEMMA CheckPreempt ==
  ASSUME NEW s, Good(s), NEW c \in CPUs, NEW t \in Tasks, s.task[t].on_rq, s.task[t].cpu = c,
         NEW r, r = check_preempt_curr(s, c, t)
  PROVE  /\ Good(r) /\ r.task = s.task /\ r.work = s.work
         /\ \A d \in CPUs : r.rq[d].curr = s.rq[d].curr
         /\ \A C : Calm(s, r, C)
         /\ ~Urgent(r, c, t)
<1> DEFINE k == s.rq[c].curr
           m == [s EXCEPT !.rq[c].queue = AddHead(s, list_del(@, t), t)]
<1>1. CASE prio(s, t) < prio(s, k)
  <2>1. r = resched_task(s, c)
    BY <1>1 DEF check_preempt_curr
  <2> QED BY <2>1, Resched
<1>2. CASE r = s /\ ~(prio(s, t) < prio(s, k))
  <2>1. \A C : Calm(s, r, C)
    BY <1>2, CalmSame
  <2>2. ~Urgent(r, c, t)
    BY <1>2 DEF Urgent
  <2> QED BY <1>2, <2>1, <2>2
<1>3. CASE r = resched_task(m, c)
  <2>1. /\ Good(m) /\ m.task = s.task /\ m.work = s.work
        /\ \A d \in CPUs : /\ m.rq[d].curr = s.rq[d].curr
                           /\ m.rq[d].need_resched = s.rq[d].need_resched
                           /\ m.rq[d].online = s.rq[d].online
    BY Requeue
  <2> HIDE DEF m
  <2>2. /\ Good(r) /\ r.task = m.task /\ r.work = m.work
        /\ \A d \in CPUs : r.rq[d].curr = m.rq[d].curr
        /\ \A C : Calm(m, r, C)
        /\ \A u \in Tasks : ~Urgent(r, c, u)
    BY <1>3, <2>1, Resched
  <2>3. ASSUME NEW C PROVE Calm(s, r, C)
    <3>1. Calm(s, m, C) /\ Calm(m, r, C)
      BY <2>1, <2>2, CalmSame
    <3> QED BY <3>1, CalmTwice
  <2> QED BY <2>1, <2>2, <2>3
<1>4. prio(s, t) < prio(s, k) \/ (r = s /\ ~(prio(s, t) < prio(s, k))) \/ r = resched_task(m, c)
  BY DEF check_preempt_curr
<1> QED BY <1>1, <1>2, <1>3, <1>4

(* The rest of __schedule: c runs the best of its queue.                   *)
LEMMA PickNext ==
  ASSUME NEW s, Good(s), NEW c \in CPUs, NEW r, r = pick_next_task(s, c)
  PROVE  /\ Good(r) /\ r.task = s.task
         /\ r.work \in {NoWork, Work("post", c, None, 1, 0, "loop", None)}
         /\ \A d \in CPUs \ {c} : /\ r.rq[d].curr = s.rq[d].curr
                                  /\ r.rq[d].need_resched = s.rq[d].need_resched
         /\ \A t \in Tasks : ~Urgent(r, c, t)
         /\ \A t \in Tasks : r.rq[c].curr = t => s.task[t].on_rq /\ s.task[t].cpu = c
         /\ r.work = NoWork => r.rq[c].pushable = <<>>
         /\ \A d \in CPUs : r.rq[d].online = s.rq[d].online
<1> DEFINE T == s.task
           p == s.rq[c].curr
           put == put_prev_task_rt(s, c)
           q == put.rq[c].queue
           next == IF q = <<>> THEN Idle ELSE Head(q)
           picked == IF rt_task(s, next) THEN dequeue_pushable_task(put, c, next) ELSE put
           post == picked.rq[c].pushable # <<>>
           w == IF post THEN Work("post", c, None, 1, 0, "loop", None) ELSE NoWork
           k == picked.rq[c]
           v == [k EXCEPT !.curr = next, !.need_resched = FALSE, !.post_schedule = post]
           u == WithRq(picked, c, v)
<1>1. /\ s \in States /\ T \in TaskMaps /\ p \in Tasks \cup {Idle} /\ Placed(s)
      /\ Others(s, c) /\ QueueOk(s.rq[c], T, c)
      /\ PushOk(s.rq[c], T, Movable(T, c) \ {p}) /\ CountOk(s.rq[c], T, c)
      /\ PriOk(s.rd, s.rq[c], T, c)
  BY GoodIs, StateParts DEF Others, RQs
<1>2. Pushable(s, put, c, Movable(T, c))
  <2>1. p \in Movable(T, c) <=> /\ p # Idle /\ rt_task(s, p)
                                /\ s.task[p].on_rq /\ nr_cpus_allowed(s, p) > 1
    <3>1. p = Idle => p \notin Tasks /\ p \notin Movable(T, c)
      BY PushPullAssumption DEF Movable, RtOn, OnQueue
    <3>2. p \in Tasks => T[p].cpu = c /\ p # Idle
      BY <1>1, PushPullAssumption DEF Placed
    <3> QED BY <1>1, <3>1, <3>2, TaskIs DEF Movable, RtOn, OnQueue, nr_cpus_allowed
  <2> DEFINE W == Movable(T, c) \ {p}
  <2>2. CASE p \in Movable(T, c)
    <3>1. put = enqueue_pushable_task(s, c, p)
      BY <2>1, <2>2 DEF put_prev_task_rt
    <3>2. p \in Tasks /\ p \notin W
      BY <2>2 DEF Movable, RtOn, OnQueue
    <3>3. W \cup {p} = Movable(T, c)
      BY <2>2
    <3> HIDE DEF W, p, put
    <3>4. Pushable(s, put, c, W \cup {p})
      <4>1. PushOk(s.rq[c], s.task, W)
        BY <1>1 DEF W
      <4> QED BY <1>1, <3>1, <3>2, <4>1, PushAdd
    <3> QED BY <3>3, <3>4
  <2>3. CASE p \notin Movable(T, c)
    <3>1. put = s
      BY <2>1, <2>3 DEF put_prev_task_rt
    <3>2. W = Movable(T, c)
      BY <2>3
    <3> QED BY <1>1, <3>1, <3>2 DEF Pushable, Same, Kept
  <2> QED BY <2>2, <2>3
<1> HIDE DEF put
<1>3. /\ Others(put, c) /\ put.task = T /\ put.rd = s.rd /\ q = s.rq[c].queue
      /\ PushOk(put.rq[c], T, Movable(T, c)) /\ Same(s, put)
      /\ put.rq[c].rt_nr_migratory = s.rq[c].rt_nr_migratory
      /\ put.rq[c].overloaded = s.rq[c].overloaded
  BY <1>2 DEF Pushable, Same
<1>4. /\ q # <<>> => /\ next \in OnQueue(T, c) /\ next \in Tasks
                     /\ \A t \in OnQueue(T, c) : T[next].prio <= T[t].prio
      /\ q = <<>> => next = Idle /\ OnQueue(T, c) = {}
  <2>1. Ordered(T, q, OnQueue(T, c))
    BY <1>1, <1>3 DEF QueueOk
  <2>2. q # <<>> => /\ Head(q) \in OnQueue(T, c)
                    /\ \A t \in OnQueue(T, c) : T[Head(q)].prio <= T[t].prio
    BY <1>1, <2>1, HeadBest
  <2>3. q = <<>> => OnQueue(T, c) = {}
    BY <2>1, OrderedIn
  <2>4. OnQueue(T, c) \subseteq Tasks
    BY DEF OnQueue
  <2> HIDE DEF q, T
  <2> QED BY <2>2, <2>3, <2>4
<1>5. next \in Tasks \cup {Idle} /\ (next \in Tasks => next \in OnQueue(T, c))
  BY <1>4, PushPullAssumption
<1> HIDE DEF q
<1>6. /\ Others(picked, c) /\ picked.task = T /\ picked.rd = s.rd /\ Same(s, picked)
      /\ PushOk(picked.rq[c], T, Movable(T, c) \ {next})
      /\ picked.rq[c].rt_nr_migratory = s.rq[c].rt_nr_migratory
      /\ picked.rq[c].overloaded = s.rq[c].overloaded
  <2> HIDE DEF next, T
  <2>1. CASE rt_task(s, next)
    <3>1. picked = dequeue_pushable_task(put, c, next)
      BY <2>1
    <3>2. next \in Tasks
      <4>1. ~rt_task(s, Idle)
        BY PushPullAssumption DEF rt_task, prio
      <4> QED BY <2>1, <4>1, <1>5
    <3> HIDE DEF picked
    <3>3. Pushable(put, picked, c, Movable(T, c) \ {next})
      BY <1>3, <3>1, <3>2, PushDel
    <3>4. Same(s, picked)
      BY <1>3, <3>3, SameTwice DEF Pushable
    <3> QED BY <1>3, <3>3, <3>4 DEF Pushable, Same
  <2>2. CASE ~rt_task(s, next)
    <3>1. picked = put
      BY <2>2
    <3>2. Movable(T, c) \ {next} = Movable(T, c)
      <4>1. Movable(T, c) \subseteq RtOn(T, c) /\ RtOn(T, c) \subseteq OnQueue(T, c)
        BY DEF Movable, RtOn
      <4>2. RtOn(T, c) = {}
        <5> SUFFICES ASSUME NEW t \in RtOn(T, c) PROVE FALSE
          OBVIOUS
        <5>1. t \in OnQueue(T, c) /\ t \in Tasks /\ T[t].prio < MAX_RT_PRIO
          BY DEF RtOn, OnQueue
        <5>2. q # <<>>
          BY <5>1, <1>4
        <5>3. next \in Tasks /\ T[next].prio <= T[t].prio
          BY <5>1, <5>2, <1>4
        <5>4. ~(T[next].prio < MAX_RT_PRIO)
          BY <5>3, <2>2, TaskIs DEF T
        <5>5. T[next].prio \in Int /\ T[t].prio \in Int /\ MAX_RT_PRIO \in Int
          BY <5>1, <5>3, <1>1, PriosAre, PushPullAssumption
        <5> QED BY <5>1, <5>3, <5>4, <5>5
      <4> QED BY <4>1, <4>2
    <3> HIDE DEF picked
    <3> QED BY <3>1, <3>2, <1>3
  <2> QED BY <2>1, <2>2
<1> HIDE DEF picked
<1>7. /\ v \in RQs /\ v.queue = k.queue /\ v.pushable = k.pushable /\ v.next = k.next
      /\ v.curr = next /\ v.need_resched = FALSE /\ v.online = k.online
      /\ v.rt_nr_migratory = k.rt_nr_migratory /\ v.overloaded = k.overloaded
  <2>1. k \in RQs
    BY <1>6, StateParts DEF Others
  <2>2. post \in BOOLEAN
    OBVIOUS
  <2> HIDE DEF k, next, post
  <2> QED BY <2>1, <2>2, <1>5 DEF RQs
<1> HIDE DEF v
<1>8. /\ u \in States /\ u.rq[c] = v /\ \A d \in CPUs \ {c} : u.rq[d] = picked.rq[d]
      /\ u.task = T /\ u.rd = s.rd
  <2>1. picked \in States
    BY <1>6 DEF Others
  <2>2. /\ u \in States /\ u.rq[c] = v /\ \A d \in CPUs \ {c} : u.rq[d] = picked.rq[d]
        /\ u.task = picked.task /\ u.rd = picked.rd
    BY <2>1, <1>7, ChangeRq
  <2> QED BY <2>2, <1>6
<1>9. w \in Works /\ w \in {NoWork, Work("post", c, None, 1, 0, "loop", None)}
  <2>1. 1 \in CPUs
    BY PushPullAssumption DEF CPUs
  <2>2. NoWork \in Works /\ Work("post", c, None, 1, 0, "loop", None) \in Works
    BY <2>1 DEF Work, NoWork, Works
  <2> HIDE DEF post
  <2> QED BY <2>2
<1>10. r = WithWork(u, w)
  <2>1. r = [switch_to(picked, c, next) EXCEPT !.rq[c].post_schedule = post, !.work = w]
    BY DEF pick_next_task, picked, q, put
  <2>2. picked \in States
    BY <1>6 DEF Others
  <2> DEFINE a == [k EXCEPT !.curr = next, !.need_resched = FALSE]
             b == WithRq(picked, c, a)
  <2>3. k \in RQs /\ post \in BOOLEAN
    BY <2>2, StateParts
  <2> HIDE DEF w, next, post
  <2>4. switch_to(picked, c, next) = b
    BY <2>2, StateParts DEF switch_to, WithRq
  <2>5. v = [a EXCEPT !.post_schedule = post] /\ a \in RQs
    <3> HIDE DEF k
    <3> QED BY <2>3, <1>5 DEF v, RQs
  <2> HIDE DEF a
  <2>6. /\ b \in States /\ b.rq[c] = a /\ \A d \in CPUs \ {c} : b.rq[d] = picked.rq[d]
        /\ b.task = picked.task /\ b.rd = picked.rd /\ b.work = picked.work
    BY <2>2, <2>5, ChangeRq
  <2> HIDE DEF b, k
  <2>7. r = WithWork(WithRq(b, c, v), w)
    <3>1. b = [rq |-> b.rq, task |-> b.task, rd |-> b.rd, work |-> b.work]
      BY <2>6, StateParts
    <3>2. r = [b EXCEPT !.rq[c].post_schedule = post, !.work = w]
      BY <2>1, <2>4
    <3> QED BY <3>1, <3>2, <2>5, <2>6 DEF WithWork, WithRq
  <2>8. WithRq(b, c, v) = u
    <3>1. /\ b = [rq |-> b.rq, task |-> b.task, rd |-> b.rd, work |-> b.work]
          /\ picked = [rq |-> picked.rq, task |-> picked.task, rd |-> picked.rd,
                       work |-> picked.work]
          /\ b.rq \in [CPUs -> RQs] /\ picked.rq \in [CPUs -> RQs]
      BY <2>2, <2>6, StateParts
    <3>2. [b.rq EXCEPT ![c] = v] = [picked.rq EXCEPT ![c] = v]
      BY <2>6, <3>1
    <3> QED BY <2>6, <3>1, <3>2 DEF WithRq
  <2> HIDE DEF u
  <2> QED BY <2>7, <2>8
<1>20. w = NoWork => k.pushable = <<>>
  <2>1. Work("post", c, None, 1, 0, "loop", None) # NoWork
    BY DEF Work, NoWork
  <2> QED BY <2>1
<1> HIDE DEF u, w
<1>11. /\ r \in States /\ r.work = w /\ r.rq = u.rq /\ r.task = T /\ r.rd = s.rd
  BY <1>8, <1>9, <1>10, ChangeWork
<1> HIDE DEF next
<1>12. \A d \in CPUs \ {c} : /\ r.rq[d] = picked.rq[d]
  BY <1>8, <1>11
<1>13. /\ r.rq[c].curr = next /\ r.rq[c].queue = s.rq[c].queue
       /\ r.rq[c].online = s.rq[c].online
       /\ r.rq[c].overloaded = s.rq[c].overloaded
       /\ r.rq[c].rt_nr_migratory = s.rq[c].rt_nr_migratory
  BY <1>6, <1>7, <1>8, <1>11 DEF Same, Kept
<1>14. Placed(r)
  <2>1. \A d \in CPUs \ {c} : r.rq[d].curr = s.rq[d].curr
    BY <1>6, <1>12 DEF Same, Kept
  <2>2. \A t \in Tasks : next = t => T[t].cpu = c
    BY <1>5 DEF OnQueue
  <2> QED BY <2>1, <2>2, <1>1, <1>11, <1>13 DEF Placed
<1>15. Others(r, c)
  <2>1. \A d \in CPUs \ {c} : Row(r.rq[d], r.task, d) /\ PriOk(r.rd, r.rq[d], r.task, d)
    BY <1>6, <1>11, <1>12 DEF Others
  <2>2. MaskOk(r.rq, r.rd)
    <3>1. \A d \in CPUs : r.rq[d].online = picked.rq[d].online
                          /\ r.rq[d].overloaded = picked.rq[d].overloaded
      BY <1>6, <1>12, <1>13 DEF Same, Kept
    <3> QED BY <3>1, <1>6, <1>11 DEF Others, MaskOk
  <2> QED BY <2>1, <2>2, <1>11, <1>14 DEF Others
<1>16. Good(r)
  <2>1. PushOk(r.rq[c], r.task, Movable(r.task, c) \ {r.rq[c].curr})
    BY <1>6, <1>7, <1>8, <1>11, <1>13 DEF PushOk
  <2>2. QueueOk(r.rq[c], r.task, c) /\ CountOk(r.rq[c], r.task, c) /\ PriOk(r.rd, r.rq[c], r.task, c)
    BY <1>1, <1>11, <1>13 DEF QueueOk, CountOk, PriOk
  <2> QED BY <1>15, <2>1, <2>2, GoodIs
<1>17. \A d \in CPUs \ {c} : /\ r.rq[d].curr = s.rq[d].curr
                             /\ r.rq[d].need_resched = s.rq[d].need_resched
  BY <1>6, <1>12 DEF Same, Kept
<1>18. ASSUME NEW t \in Tasks PROVE ~Urgent(r, c, t)
  <2> SUFFICES ASSUME Urgent(r, c, t) PROVE FALSE
    OBVIOUS
  <2>1. t \in OnQueue(T, c) /\ prio(r, t) < prio(r, next)
    BY <1>11, <1>13 DEF Urgent, OnQueue
  <2>2. next \in Tasks /\ T[next].prio <= T[t].prio
    BY <2>1, <1>4
  <2>3. T[t].prio < T[next].prio
    BY <2>1, <2>2, <1>11, TaskIs
  <2>4. T[next].prio \in Int /\ T[t].prio \in Int
    BY <2>2, <1>1, PriosAre
  <2> QED BY <2>2, <2>3, <2>4
<1>19. \A t \in Tasks : r.rq[c].curr = t => s.task[t].on_rq /\ s.task[t].cpu = c
  BY <1>5, <1>13 DEF OnQueue
<1>21. r.work = NoWork => r.rq[c].pushable = <<>>
  BY <1>7, <1>8, <1>11, <1>20
<1>22. \A d \in CPUs : r.rq[d].online = s.rq[d].online
  BY <1>6, <1>12, <1>13 DEF Same, Kept
<1> QED BY <1>9, <1>11, <1>16, <1>17, <1>18, <1>19, <1>21, <1>22

-----------------------------------------------------------------------------
LEMMA MinIs ==
  ASSUME NEW S \in SUBSET Nat, S # {}
  PROVE  Min(S) \in S /\ \A x \in S : Min(S) <= x
<1>1. \E x \in S : \A y \in S : x <= y
  BY LeastNatural
<1> QED BY <1>1 DEF Min

(* A CPU is found that the task may use, or none.                          *)
LEMMA FindLowest ==
  ASSUME NEW s \in States, NEW t \in Tasks, NEW choice
  PROVE  LET d == find_lowest_rq(s, t, choice)
         IN  d # None => d \in CPUs /\ d \in s.task[t].allowed
<1> DEFINE d == find_lowest_rq(s, t, choice)
           m == cpupri_find(s, t)
<1>1. s.task[t].allowed \subseteq CPUs /\ s.task[t].cpu \in CPUs
  BY StateParts
<1>2. m \subseteq s.task[t].allowed
  BY DEF cpupri_find
<1>3. m \in SUBSET Nat
  BY <1>1, <1>2, PushPullAssumption DEF CPUs
<1> HIDE DEF m
<1>4. d # None => m # {} /\ d \in m
  <2>1. m # {} => Min(m) \in m
    BY <1>3, MinIs
  <2> QED BY <2>1 DEF find_lowest_rq, m
<1> QED BY <1>1, <1>2, <1>4

(* What a push may be for.                                                 *)
PushFor(then, subject) ==
  /\ then \in {"loop", "switched"}
  /\ subject \in Tasks \cup {None}
  /\ then = "switched" => subject \in Tasks

(* What pushing from c leaves: its end, or a push in flight.  When         *)
(* switched_to_rt ends the task is not urgent on c.                        *)
PushResult(s, r, c, then, subject) ==
  /\ Good(r)
  /\ Calm(s, r, {})
  /\ \/ /\ r.work = NoWork
        /\ then = "switched" => ~Urgent(r, c, subject)
     \/ \E t \in Tasks, d \in CPUs \ {c}, n \in Nat :
          r.work = Work("push", c, t, d, n, then, subject)

LEMMA PushFrom ==
  ASSUME NEW s, NEW m, NEW r, NEW c, NEW then, NEW subject,
         Calm(s, m, {}), PushResult(m, r, c, then, subject)
  PROVE  PushResult(s, r, c, then, subject)
<1>1. Calm(s, r, {})
  BY CalmTwice DEF PushResult
<1> QED BY <1>1 DEF PushResult

LEMMA SwitchedEnds ==
  ASSUME NEW s, Good(s), s.work = NoWork, NEW c \in CPUs, NEW t \in Tasks, NEW pushed \in BOOLEAN,
         NEW r, r = switched_to_rt_ends(s, c, t, pushed), NEW then
  PROVE  PushResult(s, r, c, then, t)
<1>1. CASE r = resched_task(s, c)
  BY <1>1, Resched DEF PushResult
<1>2. CASE r = s /\ (s.task[t].cpu # c \/ ~(prio(s, t) < prio(s, s.rq[c].curr)))
  <2>1. Calm(s, r, {})
    BY <1>2, CalmSame
  <2>2. ~Urgent(r, c, t)
    BY <1>2 DEF Urgent
  <2> QED BY <1>2, <2>1, <2>2 DEF PushResult
<1> QED BY <1>1, <1>2 DEF switched_to_rt_ends

LEMMA NotPushedEnds ==
  ASSUME NEW s, Good(s), s.work = NoWork, NEW c \in CPUs, NEW then, NEW subject,
         PushFor(then, subject), NEW r, r = NotPushed(s, c, then, subject)
  PROVE  PushResult(s, r, c, then, subject)
<1>1. CASE then = "switched"
  <2>1. r = switched_to_rt_ends(s, c, subject, FALSE) /\ subject \in Tasks
    BY <1>1 DEF NotPushed, PushFor
  <2> QED BY <2>1, SwitchedEnds
<1>2. CASE then # "switched"
  <2>1. r = s
    BY <1>2 DEF NotPushed
  <2>2. Calm(s, r, {})
    BY <2>1, CalmSame
  <2> QED BY <1>2, <2>1, <2>2 DEF PushResult
<1> QED BY <1>1, <1>2

(* A push set in flight changes nothing else.                              *)
LEMMA PushSent ==
  ASSUME NEW s, Good(s), NEW c \in CPUs, NEW t \in Tasks, NEW d \in CPUs, d # c, NEW n \in Nat,
         NEW then, NEW subject, PushFor(then, subject),
         NEW r, r = WithWork(s, Work("push", c, t, d, n, then, subject))
  PROVE  PushResult(s, r, c, then, subject)
<1> DEFINE w == Work("push", c, t, d, n, then, subject)
<1>1. w \in Works
  BY DEF Work, Works, PushFor
<1> HIDE DEF w
<1>2. r = WithWork(s, w) /\ s \in States
  BY DEF w, Good
<1>3. /\ r \in States /\ r.work = w
      /\ r.rq = s.rq /\ r.task = s.task /\ r.rd = s.rd
  BY <1>1, <1>2, ChangeWork
<1>4. Good(r)
  BY <1>3 DEF Good, Placed
<1>5. Calm(s, r, {})
  BY <1>3, CalmSame
<1>6. d \in CPUs \ {c}
  OBVIOUS
<1> QED BY <1>3, <1>4, <1>5, <1>6 DEF PushResult, w

LEMMA PushRetry ==
  ASSUME NEW s, Good(s), s.work = NoWork, NEW c \in CPUs, NEW t \in Tasks,
         NEW then, NEW subject, PushFor(then, subject), NEW choice,
         NEW r, r = push_rt_task_retry(s, c, t, then, subject, choice)
  PROVE  PushResult(s, r, c, then, subject)
<1> DEFINE d == find_lowest_rq(s, t, choice)
           m == resched_task(s, c)
<1>1. CASE r = NotPushed(m, c, then, subject)
  <2>1. Good(m) /\ m.work = NoWork /\ Calm(s, m, {})
    BY Resched
  <2> HIDE DEF m
  <2>2. PushResult(m, r, c, then, subject)
    BY <1>1, <2>1, NotPushedEnds
  <2> QED BY <2>1, <2>2, PushFrom
<1>2. CASE r = NotPushed(s, c, then, subject)
  BY <1>2, NotPushedEnds
<1>3. CASE /\ d \notin {None, c}
           /\ r = [s EXCEPT !.work = Work("push", c, t, d, 0, then, subject)]
  <2>1. d \in CPUs /\ d # c
    BY <1>3, FindLowest DEF Good
  <2> HIDE DEF d
  <2>2. r = WithWork(s, Work("push", c, t, d, 0, then, subject))
    BY <1>3 DEF WithWork
  <2>3. 0 \in Nat
    OBVIOUS
  <2> QED BY <2>1, <2>2, <2>3, PushSent
<1> HIDE DEF m, d
<1> QED BY <1>1, <1>2, <1>3 DEF push_rt_task_retry, m, d

LEMMA FirstPushable ==
  ASSUME NEW s, Good(s), NEW c \in CPUs, s.rq[c].pushable # <<>>
  PROVE  Head(s.rq[c].pushable) \in Tasks
<1>1. s.task \in TaskMaps
  BY StateParts DEF Good
<1>2. Ordered(s.task, s.rq[c].pushable, Movable(s.task, c) \ {s.rq[c].curr})
  BY DEF Good, Row, PushOk
<1>3. Head(s.rq[c].pushable) \in Movable(s.task, c) \ {s.rq[c].curr}
  BY <1>1, <1>2, HeadBest
<1> QED BY <1>3 DEF Movable, RtOn, OnQueue

LEMMA PushTask ==
  ASSUME NEW s, Good(s), s.work = NoWork, NEW c \in CPUs,
         NEW then, NEW subject, PushFor(then, subject), NEW choice,
         NEW r, r = push_rt_task(s, c, then, subject, choice)
  PROVE  PushResult(s, r, c, then, subject)
<1> DEFINE t == Head(s.rq[c].pushable)
<1>1. CASE r = NotPushed(s, c, then, subject)
  BY <1>1, NotPushedEnds
<1>2. CASE /\ s.rq[c].pushable # <<>>
           /\ r = push_rt_task_retry(s, c, t, then, subject, choice)
  <2>1. t \in Tasks
    BY <1>2, FirstPushable
  <2> HIDE DEF t
  <2> QED BY <1>2, <2>1, PushRetry
<1> QED BY <1>1, <1>2 DEF push_rt_task

LEMMA PushOther ==
  ASSUME NEW s, Good(s), s.work = NoWork, NEW c \in CPUs, NEW p \in Tasks,
         NEW then, NEW subject, PushFor(then, subject), NEW choice,
         NEW r, r = push_rt_task_other(s, c, p, then, subject, choice)
  PROVE  PushResult(s, r, c, then, subject)
<1> DEFINE t == Head(s.rq[c].pushable)
<1>1. CASE r = NotPushed(s, c, then, subject)
  BY <1>1, NotPushedEnds
<1>2. CASE /\ s.rq[c].pushable # <<>>
           /\ r = push_rt_task_retry(s, c, t, then, subject, choice)
  <2>1. t \in Tasks
    BY <1>2, FirstPushable
  <2> HIDE DEF t
  <2> QED BY <1>2, <2>1, PushRetry
<1> QED BY <1>1, <1>2 DEF push_rt_task_other

(* The push goes on with both locks: the task has been looked at again.    *)
LEMMA PushGoesOn ==
  ASSUME NEW s, Good(s), s.work = NoWork, NEW c \in CPUs, NEW t \in Tasks, NEW d \in CPUs,
         d # c, NEW n \in Nat, NEW then, NEW subject, PushFor(then, subject), NEW choice,
         NEW r, r = push_locked(s, Work("push", c, t, d, n, then, subject), choice)
  PROVE  PushResult(s, r, c, then, subject)
<1> DEFINE w == Work("push", c, t, d, n, then, subject)
           again == find_lowest_rq(s, t, choice)
           mv == Move(s, t, c, d)
           moved == resched_task(mv, d)
<1>1. /\ w.op = "push" /\ w.rq = c /\ w.task = t /\ w.other = d /\ w.tries = n
      /\ w.then = then /\ w.subject = subject
  BY DEF Work
<1>2. CASE r = push_rt_task_other(s, c, t, then, subject, choice)
  BY <1>2, PushOther
<1>3. CASE /\ again \notin {None, c}
           /\ r = [s EXCEPT !.work = Work("push", c, t, again, n + 1, then, subject)]
  <2>1. again \in CPUs /\ again # c
    BY <1>3, FindLowest DEF Good
  <2> HIDE DEF again
  <2>2. r = WithWork(s, Work("push", c, t, again, n + 1, then, subject))
    BY <1>3 DEF WithWork
  <2>3. n + 1 \in Nat
    OBVIOUS
  <2> QED BY <2>1, <2>2, <2>3, PushSent
<1>4. CASE /\ still_pushable(s, c, t, d)
           /\ r = IF then = "switched" THEN switched_to_rt_ends(moved, c, subject, TRUE)
                  ELSE push_rt_task(moved, c, then, subject, choice)
  <2>1. /\ Good(mv) /\ Kept(s, mv) /\ Calm(s, mv, {d})
    BY <1>4, MoveTask DEF still_pushable
  <2> HIDE DEF mv
  <2>2. /\ Good(moved) /\ moved.work = NoWork /\ Calm(mv, moved, {d})
        /\ \A a \in Tasks : ~Urgent(moved, d, a)
    BY <2>1, Resched DEF Kept
  <2> HIDE DEF moved
  <2>3. Calm(s, moved, {d})
    BY <2>1, <2>2, CalmTwice
  <2>4. Calm(s, moved, {})
    BY <2>2, <2>3 DEF Calm
  <2>5. PushResult(moved, r, c, then, subject)
    <3>1. CASE then = "switched"
      <4>1. subject \in Tasks /\ r = switched_to_rt_ends(moved, c, subject, TRUE)
        BY <1>4, <3>1 DEF PushFor
      <4> QED BY <4>1, <2>2, SwitchedEnds
    <3>2. CASE then # "switched"
      BY <1>4, <3>2, <2>2, PushTask
    <3> QED BY <3>1, <3>2
  <2> QED BY <2>4, <2>5, PushFrom
<1> HIDE DEF again, moved
<1>5. /\ r = push_locked(s, w, choice)
  OBVIOUS
<1> HIDE DEF w
<1>6. \/ r = push_rt_task_other(s, c, t, then, subject, choice)
      \/ /\ again \notin {None, c}
         /\ r = [s EXCEPT !.work = Work("push", c, t, again, n + 1, then, subject)]
      \/ /\ still_pushable(s, c, t, d)
         /\ r = IF then = "switched" THEN switched_to_rt_ends(moved, c, subject, TRUE)
                ELSE push_rt_task(moved, c, then, subject, choice)
  BY <1>1, <1>5 DEF push_locked, again, moved, mv
<1> QED BY <1>1, <1>2, <1>3, <1>4, <1>6

LEMMA TaskWoken ==
  ASSUME NEW s, Good(s), s.work = NoWork, NEW c \in CPUs, NEW t \in Tasks, NEW choice,
         NEW r, r = task_woken_rt(s, c, t, choice)
  PROVE  PushResult(s, r, c, "loop", None)
<1>1. PushFor("loop", None)
  BY DEF PushFor
<1>2. CASE r = s
  <2>1. Calm(s, r, {})
    BY <1>2, CalmSame
  <2> QED BY <1>2, <2>1 DEF PushResult
<1>3. CASE r = push_rt_task(s, c, "loop", None, choice)
  BY <1>1, <1>3, PushTask
<1> QED BY <1>2, <1>3 DEF task_woken_rt

-----------------------------------------------------------------------------
PullFor(then, subject) ==
  /\ then \in {"pick", "prio", "switched"}
  /\ subject \in Tasks \cup {None}
  /\ then # "pick" => subject \in Tasks

(* From s to r tasks that are queued and do not run change their CPU, at   *)
(* most, and c runs another of its tasks, the best.                        *)
Picked(s, r, c) ==
  /\ \A d \in CPUs \ {c} : r.rq[d].curr = s.rq[d].curr
  /\ \A t \in Tasks :
       /\ r.task[t].prio = s.task[t].prio
       /\ r.task[t].on_rq = s.task[t].on_rq
       /\ r.task[t] # s.task[t] =>
            /\ s.task[t].on_rq
            /\ \A d \in CPUs : s.rq[d].curr # t
  /\ \A d \in CPUs \ {c}, t \in Tasks : Urgent(r, d, t) => Urgent(s, d, t)
  /\ \A t \in Tasks : ~Urgent(r, c, t)
  /\ \A d \in CPUs : r.rq[d].online = s.rq[d].online
  /\ \A t \in Tasks : r.rq[c].curr = t => r.task[t].on_rq

(* What pulling to c leaves: a pull in flight, or its end.                 *)
PullResult(s, r, c, then, subject) ==
  /\ Good(r)
  /\ \/ /\ \E d \in CPUs \ {c} : r.work = Work("pull", c, None, d, 0, then, subject)
        /\ Calm(s, r, {c})
     \/ /\ then # "pick" /\ r.work = NoWork /\ Calm(s, r, {c})
        /\ then = "prio" /\ r.rq[c].curr = subject => \A t \in Tasks : ~Urgent(r, c, t)
     \/ /\ then = "pick" /\ Picked(s, r, c)
        /\ r.work \in {NoWork, Work("post", c, None, 1, 0, "loop", None)}

LEMMA PullFrom ==
  ASSUME NEW s, NEW m, NEW r, NEW c \in CPUs, NEW then, NEW subject,
         Calm(s, m, {c}), PullResult(m, r, c, then, subject)
  PROVE  PullResult(s, r, c, then, subject)
<1>1. Calm(m, r, {c}) => Calm(s, r, {c})
  BY CalmTwice
<1>2. Picked(m, r, c) => Picked(s, r, c)
  BY DEF Picked, Calm
<1> QED BY <1>1, <1>2 DEF PullResult

LEMMA PickEnds ==
  ASSUME NEW s, Good(s), NEW c \in CPUs, NEW subject, NEW r, r = pick_next_task(s, c)
  PROVE  PullResult(s, r, c, "pick", subject)
<1>1. /\ Good(r) /\ r.task = s.task
      /\ r.work \in {NoWork, Work("post", c, None, 1, 0, "loop", None)}
      /\ \A d \in CPUs \ {c} : /\ r.rq[d].curr = s.rq[d].curr
                               /\ r.rq[d].need_resched = s.rq[d].need_resched
      /\ \A t \in Tasks : ~Urgent(r, c, t)
      /\ \A d \in CPUs : r.rq[d].online = s.rq[d].online
      /\ \A t \in Tasks : r.rq[c].curr = t => s.task[t].on_rq /\ s.task[t].cpu = c
  BY PickNext
<1>2. \A d \in CPUs \ {c}, t \in Tasks : Urgent(r, d, t) => Urgent(s, d, t)
  BY <1>1 DEF Urgent, prio
<1> QED BY <1>1, <1>2 DEF PullResult, Picked

LEMMA PulledEnds ==
  ASSUME NEW s, Good(s), s.work = NoWork, NEW c \in CPUs, NEW then, NEW subject,
         PullFor(then, subject), NEW r, r = Pulled(s, c, then, subject)
  PROVE  PullResult(s, r, c, then, subject)
<1>1. CASE then = "pick"
  <2>1. r = pick_next_task(s, c)
    BY <1>1 DEF Pulled
  <2> QED BY <1>1, <2>1, PickEnds
<1>2. CASE then # "pick" /\ r = resched_task(s, c)
  BY <1>2, Resched DEF PullResult
<1>3. CASE /\ then = "prio" /\ r = s
           /\ ~(prio(s, subject) > highest_prio(s, c) /\ s.rq[c].curr = subject)
  <2>1. Calm(s, r, {c})
    BY <1>3, CalmSame
  <2>2. ASSUME s.rq[c].curr = subject, NEW t \in Tasks, Urgent(s, c, t) PROVE FALSE
    <3>1. s \in States /\ s.task \in TaskMaps /\ subject \in Tasks /\ QueueOk(s.rq[c], s.task, c)
      BY <1>3, StateParts DEF Good, Row, PullFor
    <3>2. IsBest(highest_prio(s, c), s.task, OnQueue(s.task, c))
      BY <3>1, QueueIs DEF QueueOk
    <3>3. t \in OnQueue(s.task, c) /\ s.task[t].prio < s.task[subject].prio
      BY <2>2, <3>1, TaskIs DEF Urgent, OnQueue
    <3>4. highest_prio(s, c) <= s.task[t].prio /\ highest_prio(s, c) \in Int
      BY <3>2, <3>3, PushPullAssumption DEF IsBest
    <3>5. s.task[t].prio \in Int /\ s.task[subject].prio \in Int
      BY <3>1, PriosAre
    <3>6. ~(s.task[subject].prio > highest_prio(s, c))
      BY <1>3, <2>2, <3>1, TaskIs
    <3> QED BY <3>3, <3>4, <3>5, <3>6
  <2> QED BY <1>3, <2>1, <2>2 DEF PullResult
<1>4. CASE then = "switched" /\ r = s
  <2>1. Calm(s, r, {c})
    BY <1>4, CalmSame
  <2> QED BY <1>4, <2>1 DEF PullResult
<1>5. CASE then = "prio"
  BY <1>2, <1>3, <1>5 DEF Pulled
<1>6. CASE then = "switched"
  BY <1>2, <1>4, <1>6 DEF Pulled
<1> QED BY <1>1, <1>5, <1>6 DEF PullFor

LEMMA PullScan ==
  ASSUME NEW s, Good(s), s.work = NoWork, NEW c \in CPUs, NEW i, NEW then, NEW subject,
         PullFor(then, subject), NEW r, r = pull_scan(s, c, i, then, subject)
  PROVE  PullResult(s, r, c, then, subject)
<1> DEFINE src == {d \in s.rd.rto_mask \ {c} : d > i /\ s.rq[d].next < highest_prio(s, c)}
           d == Min(src)
           w == Work("pull", c, None, d, 0, then, subject)
<1>1. CASE src = {}
  <2>1. r = Pulled(s, c, then, subject)
    BY <1>1 DEF pull_scan
  <2> QED BY <2>1, PulledEnds
<1>2. CASE src # {}
  <2>1. s \in States /\ s.rd \in RDs
    BY StateParts DEF Good
  <2>2. src \in SUBSET (CPUs \ {c}) /\ src \in SUBSET Nat
    BY <2>1, PushPullAssumption DEF RDs, CPUs
  <2>3. r = WithWork(s, w)
    BY <1>2 DEF pull_scan, WithWork
  <2> HIDE DEF src
  <2>4. d \in src
    BY <1>2, <2>2, MinIs
  <2>5. d \in CPUs \ {c}
    BY <2>2, <2>4
  <2> HIDE DEF d
  <2>6. w \in Works
    BY <2>5 DEF Work, Works, PullFor
  <2> HIDE DEF w
  <2>7. /\ r \in States /\ r.work = w
        /\ r.rq = s.rq /\ r.task = s.task /\ r.rd = s.rd
    BY <2>1, <2>3, <2>6, ChangeWork
  <2>8. Good(r)
    BY <2>7 DEF Good, Placed
  <2>9. Calm(s, r, {c})
    BY <2>7, CalmSame
  <2> QED BY <2>5, <2>7, <2>8, <2>9 DEF PullResult, w
<1> QED BY <1>1, <1>2

LEMMA PullStarts ==
  ASSUME NEW s, Good(s), s.work = NoWork, NEW c \in CPUs, NEW then, NEW subject,
         PullFor(then, subject), NEW r, r = pull_rt_task(s, c, then, subject)
  PROVE  PullResult(s, r, c, then, subject)
BY PullScan, PulledEnds DEF pull_rt_task

(* The pull goes on with both locks.                                       *)
LEMMA PullGoesOn ==
  ASSUME NEW s, Good(s), s.work = NoWork, NEW c \in CPUs, NEW d \in CPUs, d # c, NEW n,
         NEW then, NEW subject, PullFor(then, subject),
         NEW r, r = pull_locked(s, Work("pull", c, None, d, n, then, subject))
  PROVE  PullResult(s, r, c, then, subject)
<1> DEFINE w == Work("pull", c, None, d, n, then, subject)
           p == pick_next_highest_task_rt(s, d, c)
           mv == Move(s, p, d, c)
<1>1. w.rq = c /\ w.other = d /\ w.then = then /\ w.subject = subject
  BY DEF Work
<1>2. CASE r = pull_scan(s, c, d, then, subject)
  BY <1>2, PullScan
<1>3. CASE p # None /\ r = pull_scan(mv, c, d, then, subject)
  <2> DEFINE q == s.rq[d].queue
             found == {i \in DOMAIN q : rt_task(s, q[i]) /\ pullable(s, d, q[i], c)}
  <2>1. Ordered(s.task, q, OnQueue(s.task, d))
    BY DEF Good, Row, QueueOk
  <2>2. DOMAIN q = 1 .. Len(q) /\ \A i \in 1 .. Len(q) : q[i] \in OnQueue(s.task, d)
    BY <2>1, OrderedIn DEF Ordered
  <2>3. found \in SUBSET Nat
    BY <2>2
  <2>4. found # {} /\ p = q[Min(found)]
    BY <1>3 DEF pick_next_highest_task_rt
  <2>5. Min(found) \in found
    BY <2>3, <2>4, MinIs
  <2>6. p \in OnQueue(s.task, d) /\ pullable(s, d, p, c)
    BY <2>2, <2>4, <2>5
  <2>7. p \in Tasks /\ s.task[p].on_rq /\ s.task[p].cpu = d /\ s.rq[d].curr # p
        /\ c \in s.task[p].allowed
    BY <2>6 DEF OnQueue, pullable
  <2> HIDE DEF p, found, q
  <2>8. /\ Good(mv) /\ Kept(s, mv) /\ Calm(s, mv, {c})
    BY <2>7, MoveTask
  <2> HIDE DEF mv
  <2>9. PullResult(mv, r, c, then, subject)
    BY <1>3, <2>8, PullScan DEF Kept
  <2> QED BY <2>8, <2>9, PullFrom
<1> HIDE DEF w
<1>4. r = pull_locked(s, w)
  BY DEF w
<1> HIDE DEF p, mv
<1>5. r = pull_scan(s, c, d, then, subject) \/ (p # None /\ r = pull_scan(mv, c, d, then, subject))
  BY <1>1, <1>4 DEF pull_locked, preempts, p, mv
<1> QED BY <1>2, <1>3, <1>5

(* __schedule, after the task has been dequeued if it sleeps.              *)
LEMMA ScheduleCpu ==
  ASSUME NEW s, Good(s), s.work = NoWork, NEW c \in CPUs, NEW r, r = Schedule(c, s)
  PROVE  PullResult(s, r, c, "pick", None)
<1>1. PullFor("pick", None)
  BY DEF PullFor
<1> QED BY <1>1, PullStarts, PickEnds DEF Schedule

-----------------------------------------------------------------------------
(* t is neither queued nor run.                                            *)
Off(s, t) == ~s.task[t].on_rq /\ \A c \in CPUs : s.rq[c].curr # t

(* What agent a may have still to do, w, when unseen is u.                 *)
WorkOk(a, w, s, u) ==
  \/ w = NoWork
  \/ /\ w.op = "push" /\ w.task \in Tasks /\ w.other # w.rq
     /\ PushFor(w.then, w.subject)
     /\ w.then = "switched" => a \in Contexts
  \/ /\ w.op = "pull" /\ w.task = None /\ w.other # w.rq /\ w.tries = 0
     /\ PullFor(w.then, w.subject)
     /\ IF w.then = "pick" THEN a = w.rq ELSE a \in Contexts
     /\ w.then = "switched" => "demoted" \in u
  \/ /\ a \in CPUs
     /\ w = Work("post", a, None, 1, 0, "loop", None)
  \/ /\ a \in Contexts
     /\ w.op = "wake" /\ w.subject \in Tasks
     /\ s.task[w.subject].cpu = w.rq
     /\ Off(s, w.subject)

Picking(W, c) == W[c].op = "pull" /\ W[c].then = "pick"

(* What is still to be done may let t run on c: schedule of c goes on, or  *)
(* prio_changed_rt or switched_to_rt will look at what c runs.             *)
Excuses(w, c, t) ==
  /\ w.rq = c
  /\ \/ w.op = "pull" /\ w.then \in {"pick", "prio"}
     \/ w.op = "push" /\ w.then = "switched" /\ w.subject = t

Excused(W, u, c, t) ==
  \/ u \cap {"demoted", "left"} # {}
  \/ \E a \in Agents : Excuses(W[a], c, t)

(* All but the order of tasks, and on the CPUs C something that is no      *)
(* longer queued may run.                                                  *)
Base(s, W, u, C) ==
  /\ Good(s)
  /\ W \in [Agents -> Works]
  /\ \A a \in Agents : WorkOk(a, W[a], s, u)
  /\ \A x, y \in Contexts :
       W[x].op = "wake" /\ W[y].op = "wake" /\ W[x].subject = W[y].subject => x = y
  /\ \A c \in CPUs \ C, t \in Tasks :
       s.rq[c].curr = t => s.task[t].on_rq \/ Picking(W, c)

Calls(s, W, u, C) ==
  \A c \in CPUs \ C, t \in Tasks : Urgent(s, c, t) => Excused(W, u, c, t)

Sound(s, W, u) == Base(s, W, u, {}) /\ Calls(s, W, u, {})

IInv == Sound(Now, work, unseen) /\ changes \in 0 .. MaxChanges

-----------------------------------------------------------------------------
LEMMA AgentIs ==
  /\ CPUs \subseteq Agents /\ Contexts \subseteq Agents
  /\ \A a \in CPUs : a \notin Contexts
  /\ NoWork \in Works /\ NoWork.op = "none"
  /\ \A c, t : ~Excuses(NoWork, c, t)
<1>1. 1 \in CPUs
  BY PushPullAssumption DEF CPUs
<1>2. NoWork \in Works /\ NoWork.op = "none"
  BY <1>1 DEF NoWork, Work, Works
<1> QED BY <1>2, PushPullAssumption DEF Agents, Excuses

(* Tasks off the queues stay there, with their CPU.                        *)
Still(s, r) ==
  \A t \in Tasks : Off(s, t) => Off(r, t) /\ r.task[t].cpu = s.task[t].cpu

LEMMA WorkKept ==
  ASSUME NEW a, NEW w, NEW s, NEW r, NEW u, NEW u2, WorkOk(a, w, s, u), u \subseteq u2,
         Still(s, r)
  PROVE  WorkOk(a, w, r, u2)
BY DEF WorkOk, Still

LEMMA CalmStill ==
  ASSUME NEW s, NEW r, NEW c \in CPUs, NEW C, Calm(s, r, C) \/ Picked(s, r, c)
  PROVE  Still(s, r)
<1> SUFFICES ASSUME NEW t \in Tasks, Off(s, t)
             PROVE  Off(r, t) /\ r.task[t].cpu = s.task[t].cpu
  BY DEF Still
<1>1. CASE Calm(s, r, C)
  BY <1>1 DEF Calm, Off
<1>2. CASE Picked(s, r, c)
  <2>1. ~r.task[t].on_rq /\ r.task[t].cpu = s.task[t].cpu
    BY <1>2 DEF Picked, Off
  <2>2. ASSUME NEW d \in CPUs PROVE r.rq[d].curr # t
    BY <1>2, <2>1 DEF Picked, Off
  <2> QED BY <2>1, <2>2 DEF Off
<1> QED BY <1>1, <1>2

LEMMA ExcusedKept ==
  ASSUME NEW W \in [Agents -> Works], NEW a \in Agents, NEW w, NEW W2, W2 = [W EXCEPT ![a] = w],
         NEW u, NEW u2, u \subseteq u2, NEW c, NEW t
  PROVE  /\ Excused(W, u, c, t) /\ ~Excuses(W[a], c, t) => Excused(W2, u2, c, t)
         /\ Excuses(w, c, t) => Excused(W2, u2, c, t)
<1>1. W2[a] = w /\ \A x \in Agents \ {a} : W2[x] = W[x]
  OBVIOUS
<1> QED BY <1>1 DEF Excused

(* A state is seen through its run queues, tasks and root domain.          *)
LEMMA SoundView ==
  ASSUME NEW r, NEW r2 \in States, r2.rq = r.rq, r2.task = r.task, r2.rd = r.rd
  PROVE  /\ Good(r) => Good(r2)
         /\ \A c \in CPUs, t \in Tasks : Urgent(r2, c, t) <=> Urgent(r, c, t)
         /\ \A W, u, C : Base(r, W, u, C) => Base(r2, W, u, C)
         /\ \A W, u : Sound(r, W, u) => Sound(r2, W, u)
<1>1. Good(r) => Good(r2)
  BY DEF Good, Placed
<1>2. \A c \in CPUs, t \in Tasks : Urgent(r2, c, t) <=> Urgent(r, c, t)
  BY DEF Urgent, prio
<1>3. \A W, u, C : Base(r, W, u, C) => Base(r2, W, u, C)
  BY <1>1 DEF Base, WorkOk, Off
<1> QED BY <1>1, <1>2, <1>3 DEF Sound, Calls

(* One agent takes up, or ends, what it does.                              *)
LEMMA BaseWork ==
  ASSUME NEW s, NEW W, NEW u, NEW u2, u \subseteq u2, NEW C, NEW C2, Base(s, W, u, C),
         NEW r, Good(r), Still(s, r), NEW a \in Agents,
         NEW w \in Works, WorkOk(a, w, r, u2), w.op # "wake",
         NEW W2, W2 = [W EXCEPT ![a] = w],
         \A c \in CPUs \ C2, t \in Tasks :
           r.rq[c].curr = t => r.task[t].on_rq \/ Picking(W2, c)
  PROVE  Base(r, W2, u2, C2)
<1>1. /\ W2 \in [Agents -> Works] /\ W2[a] = w
      /\ \A x \in Agents \ {a} : W2[x] = W[x]
  BY DEF Base
<1>2. \A x \in Agents : WorkOk(x, W2[x], r, u2)
  BY <1>1, WorkKept DEF Base
<1>3. \A x, y \in Contexts :
       W2[x].op = "wake" /\ W2[y].op = "wake" /\ W2[x].subject = W2[y].subject => x = y
  <2> SUFFICES ASSUME NEW x \in Contexts, NEW y \in Contexts, W2[x].op = "wake",
                      W2[y].op = "wake", W2[x].subject = W2[y].subject
               PROVE  x = y
    OBVIOUS
  <2>1. x # a /\ y # a /\ x \in Agents /\ y \in Agents
    BY <1>1, AgentIs
  <2>2. W2[x] = W[x] /\ W2[y] = W[y]
    BY <1>1, <2>1
  <2> QED BY <2>2 DEF Base
<1> QED BY <1>1, <1>2, <1>3 DEF Base

(* Agent a has nothing to do.                                              *)
Freed(W, a) == [W EXCEPT ![a] = NoWork]

(* What allows tasks to wait is all there but what a does.                 *)
Loses(W, u, a) ==
  \A c, t : Excused(W, u, c, t) /\ ~Excuses(W[a], c, t) => Excused(Freed(W, a), u, c, t)

LEMMA Release ==
  ASSUME NEW s, NEW W, NEW u, NEW C, Base(s, W, u, C), NEW a \in Agents, NEW D,
         C \subseteq D, a \in CPUs /\ Picking(W, a) => a \in D
  PROVE  /\ Base(s, Freed(W, a), u, D) /\ Freed(W, a)[a] = NoWork
         /\ Loses(W, u, a)
<1> DEFINE W2 == Freed(W, a)
<1>1. W \in [Agents -> Works] /\ Good(s)
  BY DEF Base
<1>2. W2[a] = NoWork /\ \A x \in Agents \ {a} : W2[x] = W[x]
  BY <1>1 DEF Freed
<1>3. \A c, t : Excused(W, u, c, t) /\ ~Excuses(W[a], c, t) => Excused(W2, u, c, t)
  BY <1>1, ExcusedKept DEF Freed
<1>4. \A c \in CPUs \ D, t \in Tasks : s.rq[c].curr = t => s.task[t].on_rq \/ Picking(W2, c)
  BY <1>2, AgentIs DEF Base, Picking
<1>5. Still(s, s) /\ WorkOk(a, NoWork, s, u)
  BY DEF Still, WorkOk
<1>6. Base(s, W2, u, D)
  BY <1>1, <1>4, <1>5, AgentIs, BaseWork DEF Freed
<1> QED BY <1>2, <1>3, <1>6 DEF Loses

LEMMA Overwrite ==
  ASSUME NEW W \in [Agents -> Works], NEW a \in Agents, NEW w
  PROVE  [Freed(W, a) EXCEPT ![a] = w] = [W EXCEPT ![a] = w]
BY DEF Freed

-----------------------------------------------------------------------------
(* From m agent a pushes for c.                                            *)
LEMMA PushStep ==
  ASSUME NEW m, NEW W, NEW u, Base(m, W, u, {}), NEW a \in Agents, W[a] = NoWork,
         NEW c \in CPUs, NEW then, NEW subject, PushFor(then, subject),
         then = "switched" => a \in Contexts,
         \A d \in CPUs, t \in Tasks : Urgent(m, d, t) =>
           Excused(W, u, d, t) \/ (then = "switched" /\ d = c /\ t = subject),
         NEW r, PushResult(m, r, c, then, subject)
  PROVE  Sound(r, [W EXCEPT ![a] = r.work], u)
<1> DEFINE w == r.work
           W2 == [W EXCEPT ![a] = w]
<1>1. /\ Good(r) /\ Calm(m, r, {}) /\ W \in [Agents -> Works]
  BY DEF PushResult, Base
<1>2. \/ /\ w = NoWork
         /\ then = "switched" => ~Urgent(r, c, subject)
      \/ /\ w.op = "push" /\ w.task \in Tasks /\ w.other # w.rq /\ w.rq = c
         /\ w.then = then /\ w.subject = subject
  <2>1. CASE w = NoWork /\ (then = "switched" => ~Urgent(r, c, subject))
    BY <2>1
  <2>2. ASSUME NEW t \in Tasks, NEW d \in CPUs \ {c}, NEW n \in Nat,
               w = Work("push", c, t, d, n, then, subject)
        PROVE  /\ w.op = "push" /\ w.task \in Tasks /\ w.other # w.rq /\ w.rq = c
               /\ w.then = then /\ w.subject = subject
    <3> HIDE DEF w
    <3> QED BY <2>2 DEF Work
  <2> QED BY <2>1, <2>2 DEF PushResult
<1>3. w \in Works
  BY <1>1, StateParts DEF Good
<1> HIDE DEF w
<1>4. WorkOk(a, w, r, u) /\ w.op # "wake" /\ w.op # "pull"
  BY <1>2, AgentIs DEF WorkOk
<1>5. Still(m, r)
  BY <1>1, CalmStill
<1>6. W2[a] = w /\ \A x \in Agents \ {a} : W2[x] = W[x]
  BY <1>1
<1>7. \A d \in CPUs, t \in Tasks : r.rq[d].curr = t => r.task[t].on_rq \/ Picking(W2, d)
  <2> SUFFICES ASSUME NEW d \in CPUs, NEW t \in Tasks, r.rq[d].curr = t, ~r.task[t].on_rq
               PROVE  Picking(W2, d)
    OBVIOUS
  <2>1. m.rq[d].curr = t /\ ~m.task[t].on_rq
    BY <1>1 DEF Calm
  <2>2. Picking(W, d)
    BY <2>1 DEF Base
  <2>3. d # a /\ d \in Agents
    BY <2>2, AgentIs DEF Picking
  <2> QED BY <2>2, <2>3, <1>6 DEF Picking
<1>8. Base(r, W2, u, {})
  <2> HIDE DEF W2
  <2> W2 = [W EXCEPT ![a] = w]
    BY DEF W2
  <2>1. \A d \in CPUs \ {}, t \in Tasks : r.rq[d].curr = t => r.task[t].on_rq \/ Picking(W2, d)
    BY <1>7
  <2> QED BY <1>1, <1>3, <1>4, <1>5, <2>1, BaseWork
<1>9. Calls(r, W2, u, {})
  <2> SUFFICES ASSUME NEW d \in CPUs, NEW t \in Tasks, Urgent(r, d, t)
               PROVE  Excused(W2, u, d, t)
    BY DEF Calls
  <2>1. Urgent(m, d, t)
    BY <1>1 DEF Calm
  <2>2. CASE Excused(W, u, d, t)
    <3>1. ~Excuses(W[a], d, t)
      BY AgentIs
    <3> QED BY <3>1, <2>2, <1>1, ExcusedKept
  <2>3. CASE then = "switched" /\ d = c /\ t = subject
    <3>1. Excuses(w, d, t)
      BY <2>3, <1>2 DEF Excuses
    <3> QED BY <3>1, <1>1, ExcusedKept
  <2> QED BY <2>1, <2>2, <2>3
<1> QED BY <1>8, <1>9 DEF Sound, w

(* From m agent a pulls to c.  A CPU does so in schedule, where what it    *)
(* ran may be gone.                                                        *)
LEMMA PullStep ==
  ASSUME NEW m, NEW W, NEW u, NEW a \in Agents, W[a] = NoWork,
         NEW c \in CPUs, NEW then, NEW subject, PullFor(then, subject),
         Base(m, W, u, IF then = "pick" THEN {c} ELSE {}), Calls(m, W, u, {c}),
         IF then = "pick" THEN a = c ELSE a \in Contexts,
         then = "switched" => "demoted" \in u,
         then = "prio" /\ m.rq[c].curr # subject => "left" \in u,
         NEW r, PullResult(m, r, c, then, subject)
  PROVE  Sound(r, [W EXCEPT ![a] = r.work], u)
<1> DEFINE w == r.work
           W2 == [W EXCEPT ![a] = w]
           flying == /\ w.op = "pull" /\ w.task = None /\ w.rq = c /\ w.other # c
                     /\ w.tries = 0 /\ w.then = then /\ w.subject = subject
           C == IF then = "pick" THEN {c} ELSE {}
<1>1. /\ Good(r) /\ W \in [Agents -> Works]
  BY DEF PullResult, Base
<1>2. w \in Works
  BY <1>1, StateParts DEF Good
<1>3. \/ flying /\ Calm(m, r, {c})
      \/ /\ then # "pick" /\ w = NoWork /\ Calm(m, r, {c})
         /\ then = "prio" /\ r.rq[c].curr = subject => \A t \in Tasks : ~Urgent(r, c, t)
      \/ /\ then = "pick" /\ Picked(m, r, c)
         /\ w \in {NoWork, Work("post", c, None, 1, 0, "loop", None)}
  <2>1. ASSUME NEW d \in CPUs \ {c}, w = Work("pull", c, None, d, 0, then, subject)
        PROVE  flying
    <3> HIDE DEF w
    <3> QED BY <2>1 DEF Work
  <2> HIDE DEF flying
  <2> QED BY <2>1 DEF PullResult
<1> HIDE DEF w
<1>4. WorkOk(a, w, r, u) /\ w.op # "wake"
  <2>1. \A n \in {0, 1} : Work("post", c, None, 1, n, "loop", None).op = "post"
    BY DEF Work
  <2> QED BY <1>3, <2>1, AgentIs DEF WorkOk
<1>5. Still(m, r)
  BY <1>3, CalmStill
<1>6. W2[a] = w /\ \A x \in Agents \ {a} : W2[x] = W[x]
  BY <1>1
<1>7. \A d \in CPUs, t \in Tasks : r.rq[d].curr = t => r.task[t].on_rq \/ Picking(W2, d)
  <2> SUFFICES ASSUME NEW d \in CPUs, NEW t \in Tasks, r.rq[d].curr = t, ~r.task[t].on_rq
               PROVE  Picking(W2, d)
    OBVIOUS
  <2>1. CASE d = c /\ then = "pick"
    <3>1. flying
      BY <1>3, <2>1 DEF Picked
    <3> QED BY <3>1, <2>1, <1>6 DEF Picking
  <2>2. CASE ~(d = c /\ then = "pick")
    <3>1. m.rq[d].curr = t /\ ~m.task[t].on_rq
      BY <1>3, <2>2 DEF Calm, Picked
    <3>2. Picking(W, d)
      BY <3>1, <2>2 DEF Base
    <3>3. d # a /\ d \in Agents
      BY <3>2, AgentIs DEF Picking
    <3> QED BY <3>2, <3>3, <1>6 DEF Picking
  <2> QED BY <2>1, <2>2
<1>8. Base(r, W2, u, {})
  <2> HIDE DEF W2
  <2> W2 = [W EXCEPT ![a] = w]
    BY DEF W2
  <2>1. \A d \in CPUs \ {}, t \in Tasks : r.rq[d].curr = t => r.task[t].on_rq \/ Picking(W2, d)
    BY <1>7
  <2>2. Base(m, W, u, C)
    OBVIOUS
  <2> HIDE DEF C
  <2>3. u \subseteq u
    OBVIOUS
  <2> QED BY <1>1, <1>2, <1>4, <1>5, <2>1, <2>2, <2>3, BaseWork
<1>9. Calls(r, W2, u, {})
  <2> SUFFICES ASSUME NEW d \in CPUs, NEW t \in Tasks, Urgent(r, d, t)
               PROVE  Excused(W2, u, d, t)
    BY DEF Calls
  <2>1. CASE d # c
    <3>1. Urgent(m, d, t)
      BY <1>3, <2>1 DEF Calm, Picked
    <3>2. Excused(W, u, d, t) /\ ~Excuses(W[a], d, t)
      BY <3>1, <2>1, AgentIs DEF Calls
    <3> QED BY <3>2, <1>1, ExcusedKept
  <2>2. CASE d = c /\ then = "switched"
    BY <2>2 DEF Excused
  <2>3. CASE d = c /\ flying /\ then # "switched"
    <3>1. Excuses(w, d, t)
      BY <2>3 DEF Excuses, PullFor
    <3> QED BY <3>1, <1>1, ExcusedKept
  <2>4. CASE d = c /\ then = "prio" /\ ~flying
    <3>1. m.rq[c].curr # subject
      BY <2>4, <1>3 DEF Calm
    <3> QED BY <3>1, <2>4 DEF Excused
  <2>5. d = c /\ then = "pick" => flying
    BY <1>3 DEF Picked
  <2> QED BY <2>1, <2>2, <2>3, <2>4, <2>5 DEF PullFor
<1> QED BY <1>8, <1>9 DEF Sound, w

-----------------------------------------------------------------------------
(* The actions.                                                            *)
LEMMA WorkIs ==
  ASSUME NEW w \in Works
  PROVE  w = Work(w.op, w.rq, w.task, w.other, w.tries, w.then, w.subject)
BY DEF Work, Works

LEMMA NowIs ==
  /\ Now.rq = rq /\ Now.task = task /\ Now.rd = rd /\ Now.work = NoWork
  /\ \A t \in Tasks : prio(Now, t) = task[t].prio
  /\ IInv => /\ Good(Now) /\ Base(Now, work, unseen, {}) /\ Calls(Now, work, unseen, {})
             /\ work \in [Agents -> Works]
             /\ \A a \in Agents : work[a] \in Works /\ WorkOk(a, work[a], Now, unseen)
             /\ \A C : Calls(Now, work, unseen, C)
<1>1. Now.rq = rq /\ Now.task = task /\ Now.rd = rd /\ Now.work = NoWork
  BY DEF Now
<1>2. \A t \in Tasks : prio(Now, t) = task[t].prio
  BY <1>1, TaskIs
<1> QED BY <1>1, <1>2 DEF IInv, Sound, Base, Calls

(* The state after a step is the one that the operators return.            *)
LEMMA Arrive ==
  ASSUME NEW r, NEW a \in Agents, Becomes(a, r), Sound(r, [work EXCEPT ![a] = r.work], unseen')
  PROVE  Sound(Now', work', unseen')
<1>1. r \in States
  BY DEF Sound, Base, Good
<1>2. Now' = [rq |-> r.rq, task |-> r.task, rd |-> r.rd, work |-> NoWork]
  BY DEF Now, Becomes
<1>3. /\ Now' \in States
      /\ (Now').rq = r.rq /\ (Now').task = r.task /\ (Now').rd = r.rd
  BY <1>1, <1>2, StateParts, AgentIs DEF States
<1>4. Sound(r, work', unseen')
  BY DEF Becomes
<1> HIDE DEF Now
<1> QED BY <1>3, <1>4, SoundView

LEMMA PushLockedStep ==
  ASSUME IInv, NEW a \in Agents, NEW choice, PushLocked(a, choice)
  PROVE  IInv'
<1> DEFINE w == work[a]
           r == push_locked(Now, w, choice)
           W == Freed(work, a)
<1>1. /\ Good(Now) /\ Base(Now, work, unseen, {}) /\ Calls(Now, work, unseen, {})
      /\ w \in Works /\ WorkOk(a, w, Now, unseen)
  BY NowIs
<1>2. /\ w.op = "push" /\ Becomes(a, r) /\ changes' = changes /\ unseen' = unseen
  BY DEF PushLocked
<1>3. /\ w.rq \in CPUs /\ w.other \in CPUs /\ w.tries \in Nat
  BY <1>1 DEF Works
<1>4. /\ w.task \in Tasks /\ w.other # w.rq
      /\ PushFor(w.then, w.subject) /\ (w.then = "switched" => a \in Contexts)
  <2>1. \A n \in {0, 1} : Work("post", a, None, 1, n, "loop", None).op = "post"
    BY DEF Work
  <2> HIDE DEF w
  <2> QED BY <1>1, <1>2, <2>1, AgentIs DEF WorkOk
<1>5. w = Work("push", w.rq, w.task, w.other, w.tries, w.then, w.subject)
  BY <1>1, <1>2, WorkIs
<1> HIDE DEF w
<1>6. PushResult(Now, r, w.rq, w.then, w.subject)
  BY <1>1, <1>3, <1>4, <1>5, NowIs, PushGoesOn
<1>7. /\ Base(Now, W, unseen, {}) /\ W[a] = NoWork
      /\ [W EXCEPT ![a] = r.work] = [work EXCEPT ![a] = r.work]
      /\ \A c, t : Excused(work, unseen, c, t) /\ ~Excuses(w, c, t) => Excused(W, unseen, c, t)
  <2>1. a \in CPUs /\ Picking(work, a) => a \in {}
    BY <1>2 DEF w, Picking
  <2> HIDE DEF r
  <2>3. /\ Base(Now, W, unseen, {}) /\ W[a] = NoWork
        /\ Loses(work, unseen, a)
    BY <1>1, <2>1, Release
  <2>4. [W EXCEPT ![a] = r.work] = [work EXCEPT ![a] = r.work]
    BY NowIs, Overwrite
  <2> QED BY <2>3, <2>4 DEF w, Loses
<1>8. \A d \in CPUs, t \in Tasks : Urgent(Now, d, t) =>
        Excused(W, unseen, d, t) \/ (w.then = "switched" /\ d = w.rq /\ t = w.subject)
  BY <1>1, <1>2, <1>7 DEF Calls, Excuses
<1> HIDE DEF r, W
<1>9. Sound(r, [W EXCEPT ![a] = r.work], unseen)
  BY <1>3, <1>4, <1>6, <1>7, <1>8, PushStep
<1>10. Sound(Now', work', unseen')
  BY <1>2, <1>7, <1>9, Arrive
<1> QED BY <1>2, <1>10 DEF IInv

LEMMA PullLockedStep ==
  ASSUME IInv, NEW a \in Agents, PullLocked(a)
  PROVE  IInv'
<1> DEFINE w == work[a]
           r == pull_locked(Now, w)
           W == Freed(work, a)
           C == IF w.then = "pick" THEN {w.rq} ELSE {}
<1>1. /\ Good(Now) /\ Base(Now, work, unseen, {}) /\ Calls(Now, work, unseen, {})
      /\ w \in Works /\ WorkOk(a, w, Now, unseen)
  BY NowIs
<1>2. /\ w.op = "pull" /\ Becomes(a, r) /\ changes' = changes /\ unseen \subseteq unseen'
      /\ w.then = "prio" /\ Now.rq[w.rq].curr # w.subject => "left" \in unseen'
  BY NowIs DEF PullLocked
<1>3. /\ w.rq \in CPUs /\ w.other \in CPUs
  BY <1>1 DEF Works
<1>4. /\ w.task = None /\ w.other # w.rq /\ w.tries = 0
      /\ PullFor(w.then, w.subject)
      /\ IF w.then = "pick" THEN a = w.rq ELSE a \in Contexts
      /\ w.then = "switched" => "demoted" \in unseen'
  <2>1. \A n \in {0, 1} : Work("post", a, None, 1, n, "loop", None).op = "post"
    BY DEF Work
  <2> HIDE DEF w
  <2> QED BY <1>1, <1>2, <2>1, AgentIs DEF WorkOk
<1>5. w = Work("pull", w.rq, None, w.other, 0, w.then, w.subject)
  BY <1>1, <1>2, <1>4, WorkIs
<1> HIDE DEF w
<1>6. PullResult(Now, r, w.rq, w.then, w.subject)
  BY <1>1, <1>3, <1>4, <1>5, NowIs, PullGoesOn
<1>7. /\ Base(Now, W, unseen, C) /\ W[a] = NoWork
      /\ [W EXCEPT ![a] = r.work] = [work EXCEPT ![a] = r.work]
      /\ \A c, t : Excused(work, unseen, c, t) /\ ~Excuses(w, c, t) => Excused(W, unseen, c, t)
  <2>1. a \in CPUs /\ Picking(work, a) => a \in C
    BY <1>4 DEF w, Picking
  <2> HIDE DEF r, C
  <2>3. /\ Base(Now, W, unseen, C) /\ W[a] = NoWork
        /\ Loses(work, unseen, a)
    BY <1>1, <2>1, Release
  <2>4. [W EXCEPT ![a] = r.work] = [work EXCEPT ![a] = r.work]
    BY NowIs, Overwrite
  <2> QED BY <2>3, <2>4 DEF w, Loses
<1>8. Base(Now, W, unseen', C)
  <2>1. Still(Now, Now)
    BY DEF Still
  <2> HIDE DEF W, C, r
  <2> QED BY <1>2, <1>7, <2>1, WorkKept DEF Base
<1>9. Calls(Now, W, unseen', {w.rq})
  <2>1. \A d \in CPUs \ {w.rq}, t \in Tasks : Urgent(Now, d, t) => Excused(W, unseen, d, t)
    BY <1>1, <1>7 DEF Calls, Excuses
  <2> QED BY <1>2, <2>1 DEF Calls, Excused
<1> HIDE DEF r, W
<1>10. Sound(r, [W EXCEPT ![a] = r.work], unseen')
  BY <1>2, <1>3, <1>4, <1>6, <1>7, <1>8, <1>9, PullStep
<1>11. Sound(Now', work', unseen')
  BY <1>2, <1>7, <1>10, Arrive
<1> QED BY <1>2, <1>11 DEF IInv

(* What agents have to do stays right if what others wake stays off.       *)
LEMMA BaseSame ==
  ASSUME NEW s, NEW W, NEW u, NEW u2, u \subseteq u2, NEW C, NEW C2, Base(s, W, u, C),
         NEW r, Good(r),
         \A x \in Contexts : W[x].op = "wake" =>
           /\ Off(r, W[x].subject)
           /\ r.task[W[x].subject].cpu = s.task[W[x].subject].cpu,
         \A c \in CPUs \ C2, t \in Tasks :
           r.rq[c].curr = t => r.task[t].on_rq \/ Picking(W, c)
  PROVE  Base(r, W, u2, C2)
<1>1. ASSUME NEW a \in Agents PROVE WorkOk(a, W[a], r, u2)
  <2>1. WorkOk(a, W[a], s, u)
    BY DEF Base
  <2> QED BY <2>1 DEF WorkOk
<1> QED BY <1>1 DEF Base

(* What a context wakes is off the queues.                                 *)
LEMMA WakesOff ==
  ASSUME NEW s, NEW W, NEW u, NEW C, Base(s, W, u, C), NEW x \in Contexts, W[x].op = "wake"
  PROVE  /\ W[x].subject \in Tasks /\ Off(s, W[x].subject)
         /\ s.task[W[x].subject].cpu = W[x].rq
<1>1. WorkOk(x, W[x], s, u)
  BY AgentIs DEF Base
<1>2. W[x] # NoWork /\ W[x] # Work("post", x, None, 1, 0, "loop", None)
  BY AgentIs DEF Work
<1> QED BY <1>1, <1>2 DEF WorkOk

LEMMA PostClear ==
  ASSUME NEW s, Good(s), NEW c \in CPUs, NEW r, r = [s EXCEPT !.rq[c].post_schedule = FALSE]
  PROVE  /\ Good(r) /\ r.task = s.task /\ r.work = s.work
         /\ \A d \in CPUs : /\ r.rq[d].curr = s.rq[d].curr
                            /\ r.rq[d].need_resched = s.rq[d].need_resched
                            /\ r.rq[d].online = s.rq[d].online
<1> DEFINE q == s.rq[c]
           v == [q EXCEPT !.post_schedule = FALSE]
<1>1. /\ s \in States /\ q \in RQs
      /\ Others(s, c) /\ QueueOk(q, s.task, c)
      /\ PushOk(q, s.task, Movable(s.task, c) \ {q.curr}) /\ CountOk(q, s.task, c)
      /\ PriOk(s.rd, q, s.task, c)
  BY GoodIs, StateParts DEF Others
<1>2. r = WithRq(s, c, v)
  BY DEF WithRq
<1> HIDE DEF q
<1>3. /\ v \in RQs /\ v.queue = q.queue /\ v.pushable = q.pushable /\ v.next = q.next
      /\ v.curr = q.curr /\ v.need_resched = q.need_resched /\ v.online = q.online
      /\ v.rt_nr_migratory = q.rt_nr_migratory /\ v.overloaded = q.overloaded
  BY <1>1 DEF RQs
<1> HIDE DEF v
<1>4. /\ r \in States /\ r.rq[c] = v /\ \A d \in CPUs \ {c} : r.rq[d] = s.rq[d]
      /\ r.task = s.task /\ r.rd = s.rd /\ r.work = s.work
  BY ONLY c \in CPUs, <1>1, <1>2, <1>3, ChangeRq
<1>5. Others(r, c)
  BY <1>1, <1>3, <1>4, OthersKept DEF q
<1>6. Good(r)
  <2>1. /\ QueueOk(r.rq[c], r.task, c) /\ CountOk(r.rq[c], r.task, c)
        /\ PriOk(r.rd, r.rq[c], r.task, c)
        /\ PushOk(r.rq[c], r.task, Movable(r.task, c) \ {r.rq[c].curr})
    BY <1>1, <1>3, <1>4 DEF QueueOk, CountOk, PriOk, PushOk
  <2> QED BY <1>5, <2>1, GoodIs
<1> QED BY <1>3, <1>4, <1>6 DEF q

LEMMA post_scheduleStep ==
  ASSUME IInv, NEW c \in CPUs, NEW choice, post_schedule(c, choice)
  PROVE  IInv'
<1> DEFINE s == [Now EXCEPT !.rq[c].post_schedule = FALSE]
           r == IF rq[c].curr # Idle /\ rt_task(s, rq[c].curr)
                THEN push_rt_task(s, c, "loop", None, choice) ELSE s
           W == Freed(work, c)
<1>1. /\ Good(Now) /\ Base(Now, work, unseen, {}) /\ Calls(Now, work, unseen, {})
      /\ Now.work = NoWork /\ c \in Agents
  BY NowIs, AgentIs
<1>2. work[c].op = "post" /\ Becomes(c, r) /\ changes' = changes /\ unseen' = unseen
  BY DEF post_schedule
<1>3. /\ Good(s) /\ s.task = Now.task /\ s.work = NoWork
      /\ \A d \in CPUs : /\ s.rq[d].curr = Now.rq[d].curr
                         /\ s.rq[d].need_resched = Now.rq[d].need_resched
                         /\ s.rq[d].online = Now.rq[d].online
  BY <1>1, PostClear
<1> HIDE DEF s
<1>4. PushResult(s, r, c, "loop", None)
  <2>1. PushFor("loop", None)
    BY DEF PushFor
  <2>2. CASE r = s
    <3>1. Calm(s, r, {})
      BY <2>2, CalmSame
    <3> QED BY <1>3, <2>2, <3>1 DEF PushResult
  <2>3. CASE r = push_rt_task(s, c, "loop", None, choice)
    <3> HIDE DEF r
    <3> QED BY <1>3, <2>1, <2>3, PushTask
  <2> QED BY <2>2, <2>3
<1> HIDE DEF r
<1>5. PushResult(Now, r, c, "loop", None)
  <2>1. Calm(Now, s, {})
    BY <1>3, CalmSame
  <2> QED BY <1>4, <2>1, PushFrom
<1>6. /\ Base(Now, W, unseen, {}) /\ W[c] = NoWork /\ Loses(work, unseen, c)
      /\ [W EXCEPT ![c] = r.work] = [work EXCEPT ![c] = r.work]
  <2>1. c \in CPUs /\ Picking(work, c) => c \in {}
    BY <1>2 DEF Picking
  <2>2. /\ Base(Now, W, unseen, {}) /\ W[c] = NoWork /\ Loses(work, unseen, c)
    BY <1>1, <2>1, Release
  <2>3. [W EXCEPT ![c] = r.work] = [work EXCEPT ![c] = r.work]
    <3>1. work \in [Agents -> Works] /\ c \in Agents
      BY <1>1, NowIs
    <3>2. \A w : [Freed(work, c) EXCEPT ![c] = w] = [work EXCEPT ![c] = w]
      BY ONLY <3>1, Overwrite
    <3> HIDE DEF r
    <3> QED BY ONLY <3>2
  <2> QED BY <2>2, <2>3
<1>7. \A d \in CPUs, t \in Tasks : Urgent(Now, d, t) => Excused(W, unseen, d, t)
  BY <1>1, <1>2, <1>6 DEF Calls, Excuses, Loses
<1> HIDE DEF W
<1>8. Sound(r, [W EXCEPT ![c] = r.work], unseen)
  <2>1. PushFor("loop", None) /\ "loop" # "switched"
    BY DEF PushFor
  <2> QED BY <1>1, <1>5, <1>6, <1>7, <2>1, PushStep
<1>9. Sound(Now', work', unseen')
  BY <1>1, <1>2, <1>6, <1>8, Arrive
<1> QED BY <1>2, <1>9 DEF IInv

(* c has gone through __schedule from m.                                   *)
LEMMA Scheduled ==
  ASSUME NEW c \in CPUs, work[c] = NoWork, NEW m, m.work = NoWork,
         Base(m, work, unseen, {c}), Calls(m, work, unseen, {c}),
         Becomes(c, Schedule(c, m)), unseen' = unseen
  PROVE  Sound(Now', work', unseen')
<1> DEFINE r == Schedule(c, m)
<1>1. Good(m) /\ c \in Agents
  BY AgentIs DEF Base
<1>2. PullResult(m, r, c, "pick", None)
  BY <1>1, ScheduleCpu
<1> HIDE DEF r
<1>3. PullFor("pick", None)
  BY DEF PullFor
<1>4. Sound(r, [work EXCEPT ![c] = r.work], unseen)
  <2>1. Base(m, work, unseen, IF "pick" = "pick" THEN {c} ELSE {})
    OBVIOUS
  <2> QED BY <1>1, <1>2, <1>3, <2>1, PullStep
<1>5. Becomes(c, r)
  BY DEF r
<1> QED BY <1>1, <1>4, <1>5, Arrive

LEMMA schedule_preemptStep ==
  ASSUME IInv, NEW c \in CPUs, schedule_preempt(c)
  PROVE  IInv'
<1>1. /\ work[c] = NoWork /\ Becomes(c, Schedule(c, Now))
      /\ changes' = changes /\ unseen' = unseen
  BY DEF schedule_preempt
<1>2. Now.work = NoWork /\ Calls(Now, work, unseen, {c}) /\ Base(Now, work, unseen, {c})
  BY NowIs DEF Base
<1>3. Sound(Now', work', unseen')
  BY <1>1, <1>2, Scheduled
<1> QED BY <1>1, <1>3 DEF IInv

LEMMA ChangeCounted ==
  ASSUME IInv, Change
  PROVE  changes' \in 0 .. MaxChanges
BY PushPullAssumption DEF IInv, Change

LEMMA schedule_sleepStep ==
  ASSUME IInv, NEW c \in CPUs, schedule_sleep(c)
  PROVE  IInv'
<1> DEFINE t == rq[c].curr
           m == dequeue_task(Now, c, t)
<1>1. /\ Good(Now) /\ Base(Now, work, unseen, {}) /\ Calls(Now, work, unseen, {})
      /\ Now.work = NoWork /\ Now.rq = rq /\ Now.task = task /\ Placed(Now)
      /\ t \in Tasks \cup {Idle}
  <2>1. Now \in States
    BY NowIs DEF Good
  <2> QED BY <2>1, NowIs, StateParts DEF Good, RQs
<1>2. /\ work[c] = NoWork /\ t # Idle /\ Change /\ unseen' = unseen
      /\ Becomes(c, Schedule(c, m))
  BY DEF schedule_sleep
<1>3. t \in Tasks /\ Now.rq[c].curr = t /\ Now.task[t].on_rq /\ Now.task[t].cpu = c
  BY <1>1, <1>2, AgentIs DEF Base, Picking, Placed
<1> HIDE DEF t
<1>4. Good(m) /\ Kept(Now, m) /\ Joins(m.task, Now.task, t, c) /\ m.task[t].cpu = c
  BY <1>1, <1>3, DequeueTask
<1> HIDE DEF m
<1>5. /\ \A a \in Tasks \ {t} : m.task[a] = Now.task[a]
      /\ m.task[t].prio = Now.task[t].prio /\ ~m.task[t].on_rq
      /\ \A d \in CPUs : m.rq[d].curr = Now.rq[d].curr
                         /\ m.rq[d].need_resched = Now.rq[d].need_resched
  BY <1>4 DEF Joins, Differ, Kept
<1>6. \A d \in CPUs \ {c} : Now.rq[d].curr # t
  BY <1>1, <1>3 DEF Placed
<1>7. Base(m, work, unseen, {c})
  <2>1. ASSUME NEW x \in Contexts, work[x].op = "wake"
        PROVE  /\ Off(m, work[x].subject)
               /\ m.task[work[x].subject].cpu = Now.task[work[x].subject].cpu
    <3>1. work[x].subject \in Tasks /\ Off(Now, work[x].subject)
      BY <1>1, <2>1, WakesOff
    <3>2. work[x].subject # t
      BY <1>3, <3>1 DEF Off
    <3> QED BY <1>5, <3>1, <3>2 DEF Off
  <2>2. \A d \in CPUs \ {c}, a \in Tasks :
          m.rq[d].curr = a => m.task[a].on_rq \/ Picking(work, d)
    BY <1>1, <1>5, <1>6 DEF Base
  <2>3. unseen \subseteq unseen
    OBVIOUS
  <2> QED BY <1>1, <1>4, <2>1, <2>2, <2>3, BaseSame
<1>8. Calls(m, work, unseen, {c})
  <2>1. ASSUME NEW d \in CPUs \ {c}, NEW a \in Tasks, Urgent(m, d, a)
        PROVE  Urgent(Now, d, a)
    <3>1. a # t
      BY <1>5, <2>1 DEF Urgent
    <3>2. prio(m, a) = prio(Now, a) /\ prio(m, m.rq[d].curr) = prio(Now, Now.rq[d].curr)
      <4>1. Now.rq[d].curr \in Tasks \cup {Idle}
        BY StateParts, <1>1 DEF Good, RQs
      <4> QED BY <4>1, <1>5, <3>1, <1>6 DEF prio
    <3> QED BY <1>5, <2>1, <3>1, <3>2 DEF Urgent
  <2> QED BY <1>1, <2>1 DEF Calls
<1>9. m.work = NoWork
  BY <1>1, <1>4 DEF Kept
<1>10. Sound(Now', work', unseen')
  BY <1>2, <1>7, <1>8, <1>9, Scheduled
<1> QED BY <1>2, <1>10, ChangeCounted DEF IInv

LEMMA ttwu_queueStep ==
  ASSUME IInv, NEW x \in Contexts, NEW choice, ttwu_queue(x, choice)
  PROVE  IInv'
<1> DEFINE c == work[x].rq
           t == work[x].subject
           p == enqueue_task(Now, c, t, FALSE)
           m == check_preempt_curr(p, c, t)
           r == task_woken_rt(m, c, t, choice)
           W == Freed(work, x)
<1>1. /\ Good(Now) /\ Base(Now, work, unseen, {}) /\ Calls(Now, work, unseen, {})
      /\ Now.work = NoWork /\ x \in Agents /\ work \in [Agents -> Works] /\ x \notin CPUs
  BY NowIs, AgentIs
<1>2. /\ work[x].op = "wake" /\ Becomes(x, r) /\ changes' = changes /\ unseen' = unseen
  BY DEF ttwu_queue
<1>3. t \in Tasks /\ Off(Now, t) /\ Now.task[t].cpu = c /\ c \in CPUs
  <2>1. work[x] \in Works
    BY <1>1
  <2> QED BY <1>1, <1>2, <2>1, WakesOff DEF Works
<1>4. /\ Base(Now, W, unseen, {}) /\ W[x] = NoWork /\ Loses(work, unseen, x)
      /\ [W EXCEPT ![x] = r.work] = [work EXCEPT ![x] = r.work]
      /\ \A y \in Agents \ {x} : W[y] = work[y]
  <2>1. x \in CPUs /\ Picking(work, x) => x \in {}
    BY <1>1
  <2>2. /\ Base(Now, W, unseen, {}) /\ W[x] = NoWork /\ Loses(work, unseen, x)
    BY <1>1, <2>1, Release
  <2>3. [W EXCEPT ![x] = r.work] = [work EXCEPT ![x] = r.work]
    <3> HIDE DEF r
    <3> QED BY ONLY <1>1, Overwrite
  <2>4. \A y \in Agents \ {x} : W[y] = work[y]
    BY <1>1 DEF Freed
  <2> QED BY <2>2, <2>3, <2>4
<1>5. \A y \in Contexts : W[y].op = "wake" => W[y].subject # t
  <2> SUFFICES ASSUME NEW y \in Contexts, W[y].op = "wake", W[y].subject = t
               PROVE  FALSE
    OBVIOUS
  <2>1. y # x /\ y \in Agents
    BY <1>4, AgentIs
  <2>2. work[y].op = "wake" /\ work[y].subject = t
    BY <1>4, <2>1
  <2> QED BY <1>1, <1>2, <2>1, <2>2 DEF Base
<1>6. Calls(Now, W, unseen, {})
  BY <1>1, <1>2, <1>4 DEF Calls, Excuses, Loses
<1> HIDE DEF W, c, t
<1>7. Good(p) /\ Kept(Now, p) /\ Joins(Now.task, p.task, t, c)
  <2>1. ~Now.task[t].on_rq /\ FALSE \in BOOLEAN
    BY <1>3 DEF Off
  <2> QED BY <1>1, <1>3, <2>1, EnqueueTask
<1> HIDE DEF p
<1>8. /\ Good(m) /\ m.task = p.task /\ m.work = p.work
      /\ \A d \in CPUs : m.rq[d].curr = p.rq[d].curr
      /\ \A C : Calm(p, m, C)
      /\ ~Urgent(m, c, t)
  <2>1. p.task[t].on_rq /\ p.task[t].cpu = c
    BY <1>7 DEF Joins
  <2> QED BY <1>3, <1>7, <2>1, CheckPreempt
<1> HIDE DEF m
<1>9. /\ m.work = NoWork
      /\ \A a \in Tasks \ {t} : m.task[a] = Now.task[a]
      /\ m.task[t].prio = Now.task[t].prio /\ m.task[t].cpu = c
      /\ \A d \in CPUs : m.rq[d].curr = Now.rq[d].curr /\ Now.rq[d].curr # t
  BY <1>1, <1>3, <1>7, <1>8 DEF Joins, Differ, Kept, Off
<1>10. PushResult(m, r, c, "loop", None)
  BY <1>3, <1>8, <1>9, TaskWoken
<1> HIDE DEF r
<1>11. Base(m, W, unseen, {})
  <2>1. ASSUME NEW y \in Contexts, W[y].op = "wake"
        PROVE  /\ Off(m, W[y].subject)
               /\ m.task[W[y].subject].cpu = Now.task[W[y].subject].cpu
    <3>1. W[y].subject \in Tasks /\ Off(Now, W[y].subject)
      BY <1>4, <2>1, WakesOff
    <3>2. W[y].subject # t
      BY <1>5, <2>1
    <3> QED BY <1>9, <3>1, <3>2 DEF Off
  <2>2. \A d \in CPUs \ {}, a \in Tasks :
          m.rq[d].curr = a => m.task[a].on_rq \/ Picking(W, d)
    BY <1>4, <1>9 DEF Base
  <2>3. unseen \subseteq unseen
    OBVIOUS
  <2> QED BY <1>4, <1>8, <2>1, <2>2, <2>3, BaseSame
<1>12. ASSUME NEW d \in CPUs, NEW a \in Tasks, Urgent(m, d, a) PROVE Excused(W, unseen, d, a)
  <2>1. Urgent(p, d, a)
    <3>1. Calm(p, m, {})
      BY <1>8
    <3> QED BY <3>1, <1>12 DEF Calm
  <2>2. a # t
    BY <1>8, <1>9, <1>12 DEF Urgent
  <2>3. prio(p, a) = prio(Now, a) /\ prio(p, p.rq[d].curr) = prio(Now, Now.rq[d].curr)
    <3>1. Now.rq[d].curr \in Tasks \cup {Idle}
      BY StateParts, <1>1 DEF Good, RQs
    <3> QED BY <3>1, <1>7, <2>2 DEF prio, Joins, Differ, Kept
  <2>4. Urgent(Now, d, a)
    BY <1>7, <2>1, <2>2, <2>3 DEF Urgent, Joins, Differ, Kept
  <2> QED BY <1>6, <2>4 DEF Calls
<1>13. Sound(r, [W EXCEPT ![x] = r.work], unseen)
  <2>1. PushFor("loop", None) /\ "loop" # "switched"
    BY DEF PushFor
  <2> QED BY <1>1, <1>3, <1>4, <1>10, <1>11, <1>12, <2>1, PushStep
<1>14. Sound(Now', work', unseen')
  BY <1>1, <1>2, <1>4, <1>13, Arrive
<1> QED BY <1>2, <1>14 DEF IInv

LEMMA SelectRq ==
  ASSUME NEW s, Good(s), NEW t \in Tasks, NEW choice
  PROVE  select_task_rq(s, t, choice) \in s.task[t].allowed
<1> DEFINE d == find_lowest_rq(s, t, choice)
<1>1. s \in States /\ s.task[t].cpu \in s.task[t].allowed
  BY DEF Good, Placed
<1>2. d # None => d \in s.task[t].allowed
  BY <1>1, FindLowest
<1> HIDE DEF d
<1>3. select_task_rq(s, t, choice) = s.task[t].cpu
      \/ (d # None /\ select_task_rq(s, t, choice) = d)
  BY DEF select_task_rq, d
<1> QED BY <1>1, <1>2, <1>3

LEMMA try_to_wake_upStep ==
  ASSUME IInv, NEW x \in Contexts, NEW t \in Tasks, NEW choice, try_to_wake_up(x, t, choice)
  PROVE  IInv'
<1> DEFINE c == select_task_rq(Now, t, choice)
           w == Work("wake", c, None, 1, 0, "loop", t)
           e == [Now.task[t] EXCEPT !.cpu = c]
           m == WithTask(Now, t, e)
           r == WithWork(m, w)
           W == [work EXCEPT ![x] = w]
<1>1. /\ Good(Now) /\ Base(Now, work, unseen, {}) /\ Calls(Now, work, unseen, {})
      /\ Now \in States /\ Now.rq = rq /\ Now.task = task
      /\ x \in Agents /\ work \in [Agents -> Works] /\ x \notin CPUs
  BY NowIs, AgentIs DEF Good
<1>2. /\ work[x] = NoWork /\ ~Busy(t) /\ Off(Now, t)
      /\ Change /\ unseen' = unseen
      /\ Becomes(x, [Now EXCEPT !.task[t].cpu = c, !.work = w])
  BY <1>1 DEF try_to_wake_up, Off
<1>3. [Now EXCEPT !.task[t].cpu = c, !.work = w] = r
  BY <1>1, StateParts DEF WithTask, WithWork
<1>4. c \in Now.task[t].allowed /\ c \in CPUs
  <2>1. c \in Now.task[t].allowed
    BY <1>1, SelectRq
  <2>2. Now.task[t].allowed \subseteq CPUs
    BY <1>1, StateParts
  <2> QED BY <2>1, <2>2
<1> HIDE DEF c
<1>5. w \in Works /\ w.op = "wake" /\ w.rq = c /\ w.subject = t
  <2>1. 1 \in CPUs
    BY PushPullAssumption DEF CPUs
  <2> QED BY <1>4, <2>1 DEF Work, Works
<1>6. /\ e.cpu = c /\ e.prio = Now.task[t].prio /\ e.allowed = Now.task[t].allowed
      /\ e.on_rq = Now.task[t].on_rq
      /\ e = [cpu |-> e.cpu, prio |-> e.prio, allowed |-> e.allowed, on_rq |-> e.on_rq]
      /\ e.prio \in 0 .. MAX_RT_PRIO /\ e.allowed \in SUBSET CPUs
      /\ e.cpu \in CPUs /\ e.on_rq \in BOOLEAN
  <2> DEFINE y == Now.task[t]
  <2>1. y \in [cpu : CPUs, prio : 0 .. MAX_RT_PRIO, allowed : SUBSET CPUs, on_rq : BOOLEAN]
    BY <1>1, StateParts DEF TaskMaps
  <2>2. e = [y EXCEPT !.cpu = c]
    OBVIOUS
  <2> HIDE DEF y, e
  <2>3. e = [cpu |-> c, prio |-> y.prio, allowed |-> y.allowed, on_rq |-> y.on_rq]
    BY <2>1, <2>2
  <2> QED BY <1>4, <2>1, <2>3 DEF y
<1> HIDE DEF e
<1>7. /\ m \in States /\ m.task[t] = e /\ \A a \in Tasks \ {t} : m.task[a] = Now.task[a]
      /\ m.rq = Now.rq /\ m.rd = Now.rd /\ m.work = Now.work
  BY <1>1, <1>6, ChangeTask
<1> HIDE DEF m, w
<1>8. /\ r \in States /\ r.work = w
      /\ r.rq = m.rq /\ r.task = m.task /\ r.rd = m.rd
  BY <1>5, <1>7, ChangeWork
<1> HIDE DEF r
<1>9. Good(r)
  <2>1. Differ(Now.task, r.task, t) /\ ~Now.task[t].on_rq /\ ~r.task[t].on_rq
        /\ r.task[t].cpu \in r.task[t].allowed /\ \A d \in CPUs : Now.rq[d].curr # t
    BY <1>2, <1>4, <1>6, <1>7, <1>8 DEF Differ, Off
  <2> QED BY <1>1, <1>7, <1>8, <2>1, OffQueue
<1>10. \A y \in Contexts : work[y].op = "wake" => work[y].subject # t
  BY <1>2, AgentIs DEF Busy
<1>11. W \in [Agents -> Works] /\ W[x] = w /\ \A y \in Agents \ {x} : W[y] = work[y]
  BY <1>1, <1>5
<1>12. \A d \in CPUs : r.rq[d].curr = Now.rq[d].curr /\ Now.rq[d].curr # t
  BY <1>2, <1>7, <1>8 DEF Off
<1>13. Base(r, work, unseen, {})
  <2>1. ASSUME NEW y \in Contexts, work[y].op = "wake"
        PROVE  /\ Off(r, work[y].subject)
               /\ r.task[work[y].subject].cpu = Now.task[work[y].subject].cpu
    <3>1. work[y].subject \in Tasks /\ Off(Now, work[y].subject)
      BY <1>1, <2>1, WakesOff
    <3>2. work[y].subject # t
      BY <1>10, <2>1
    <3> QED BY <1>7, <1>8, <1>12, <3>1, <3>2 DEF Off
  <2>2. \A d \in CPUs \ {}, a \in Tasks :
          r.rq[d].curr = a => r.task[a].on_rq \/ Picking(work, d)
    BY <1>1, <1>7, <1>8, <1>12 DEF Base
  <2>3. unseen \subseteq unseen
    OBVIOUS
  <2> QED BY <1>1, <1>9, <2>1, <2>2, <2>3, BaseSame
<1>14. WorkOk(x, w, r, unseen)
  <2>1. Off(r, t) /\ r.task[t].cpu = c
    BY <1>2, <1>6, <1>7, <1>8, <1>12 DEF Off
  <2> QED BY <1>5, <2>1 DEF WorkOk
<1>15. Base(r, W, unseen, {})
  <2>1. \A a \in Agents : WorkOk(a, W[a], r, unseen)
    BY <1>11, <1>13, <1>14 DEF Base
  <2>2. \A y, z \in Contexts :
          W[y].op = "wake" /\ W[z].op = "wake" /\ W[y].subject = W[z].subject => y = z
    <3> SUFFICES ASSUME NEW y \in Contexts, NEW z \in Contexts, W[y].op = "wake",
                        W[z].op = "wake", W[y].subject = W[z].subject
                 PROVE  y = z
      OBVIOUS
    <3>1. y \in Agents /\ z \in Agents
      BY AgentIs
    <3>2. CASE y = x
      BY <1>5, <1>10, <1>11, <3>1, <3>2
    <3>3. CASE z = x
      BY <1>5, <1>10, <1>11, <3>1, <3>3
    <3>4. CASE y # x /\ z # x
      BY <1>11, <1>13, <3>1, <3>4 DEF Base
    <3> QED BY <3>2, <3>3, <3>4
  <2>3. \A d \in CPUs \ {}, a \in Tasks :
          r.rq[d].curr = a => r.task[a].on_rq \/ Picking(W, d)
    BY <1>1, <1>11, <1>13, AgentIs DEF Base, Picking
  <2> QED BY <1>9, <1>11, <2>1, <2>2, <2>3 DEF Base
<1>16. Calls(r, W, unseen, {})
  <2> SUFFICES ASSUME NEW d \in CPUs, NEW a \in Tasks, Urgent(r, d, a)
               PROVE  Excused(W, unseen, d, a)
    BY DEF Calls
  <2>1. a # t
    BY <1>2, <1>6, <1>7, <1>8 DEF Urgent, Off
  <2>2. prio(r, a) = prio(Now, a) /\ prio(r, r.rq[d].curr) = prio(Now, Now.rq[d].curr)
    <3>1. Now.rq[d].curr \in Tasks \cup {Idle}
      BY StateParts, <1>1 DEF RQs
    <3> QED BY <3>1, <1>7, <1>8, <1>12, <2>1 DEF prio
  <2>3. Urgent(Now, d, a)
    BY <1>7, <1>8, <2>1, <2>2 DEF Urgent
  <2>4. Excused(work, unseen, d, a) /\ ~Excuses(work[x], d, a)
    BY <1>1, <1>2, <2>3, AgentIs DEF Calls
  <2> QED BY <1>1, <2>4, ExcusedKept
<1>17. Sound(r, [work EXCEPT ![x] = r.work], unseen')
  BY <1>2, <1>8, <1>15, <1>16 DEF Sound
<1>18. Becomes(x, r)
  BY <1>2, <1>3
<1>19. Sound(Now', work', unseen')
  BY <1>1, <1>17, <1>18, Arrive
<1> QED BY <1>2, <1>19, ChangeCounted DEF IInv

(* A step that touches neither the order of tasks nor what is done.        *)
LEMMA QuietStep ==
  ASSUME IInv, NEW r, Good(r), unseen \subseteq unseen',
         \A t \in Tasks : /\ r.task[t].cpu = Now.task[t].cpu
                          /\ r.task[t].on_rq = Now.task[t].on_rq
                          /\ r.task[t].prio = Now.task[t].prio,
         \A d \in CPUs : /\ r.rq[d].curr = Now.rq[d].curr
                         /\ r.rq[d].need_resched = Now.rq[d].need_resched
  PROVE  Sound(r, work, unseen')
<1>1. /\ Good(Now) /\ Base(Now, work, unseen, {}) /\ Calls(Now, work, unseen, {})
      /\ Now \in States
  BY NowIs DEF Good
<1>2. Base(r, work, unseen', {})
  <2>1. ASSUME NEW y \in Contexts, work[y].op = "wake"
        PROVE  /\ Off(r, work[y].subject)
               /\ r.task[work[y].subject].cpu = Now.task[work[y].subject].cpu
    <3>1. work[y].subject \in Tasks /\ Off(Now, work[y].subject)
      BY <1>1, <2>1, WakesOff
    <3> QED BY <3>1 DEF Off
  <2>2. \A d \in CPUs \ {}, a \in Tasks :
          r.rq[d].curr = a => r.task[a].on_rq \/ Picking(work, d)
    BY <1>1 DEF Base
  <2> QED BY <1>1, <2>1, <2>2, BaseSame
<1>3. Calls(r, work, unseen', {})
  <2> SUFFICES ASSUME NEW d \in CPUs, NEW a \in Tasks, Urgent(r, d, a)
               PROVE  Excused(work, unseen', d, a)
    BY DEF Calls
  <2>1. prio(r, a) = prio(Now, a) /\ prio(r, r.rq[d].curr) = prio(Now, Now.rq[d].curr)
    <3>1. Now.rq[d].curr \in Tasks \cup {Idle}
      BY StateParts, <1>1 DEF RQs
    <3> QED BY <3>1 DEF prio
  <2>2. Urgent(Now, d, a)
    BY <2>1 DEF Urgent
  <2>3. Excused(work, unseen, d, a)
    BY <1>1, <2>2 DEF Calls
  <2> QED BY <2>3 DEF Excused
<1> QED BY <1>2, <1>3 DEF Sound

(* c has come online or gone offline.                                      *)
OnlineOnly(q, v) ==
  /\ v.queue = q.queue /\ v.pushable = q.pushable /\ v.next = q.next
  /\ v.curr = q.curr /\ v.need_resched = q.need_resched
  /\ v.rt_nr_migratory = q.rt_nr_migratory /\ v.overloaded = q.overloaded

LEMMA OnlineIs ==
  ASSUME NEW s, Good(s), NEW c \in CPUs, NEW r \in States, r.task = s.task,
         OnlineOnly(s.rq[c], r.rq[c]), \A e \in CPUs \ {c} : r.rq[e] = s.rq[e],
         \A e \in CPUs \ {c} : r.rd.cpupri[e] = s.rd.cpupri[e],
         PriOk(r.rd, r.rq[c], r.task, c), MaskOk(r.rq, r.rd)
  PROVE  /\ Good(r)
         /\ \A e \in CPUs : /\ r.rq[e].curr = s.rq[e].curr
                            /\ r.rq[e].need_resched = s.rq[e].need_resched
<1>1. /\ \A e \in CPUs : Row(s.rq[e], s.task, e) /\ PriOk(s.rd, s.rq[e], s.task, e)
      /\ Placed(s)
  BY DEF Good
<1>2. \A e \in CPUs : Row(r.rq[e], r.task, e)
  <2>1. Row(r.rq[c], r.task, c)
    BY <1>1 DEF Row, QueueOk, PushOk, CountOk, OnlineOnly
  <2> QED BY <1>1, <2>1
<1>3. \A e \in CPUs \ {c} : PriOk(r.rd, r.rq[e], r.task, e)
  BY <1>1 DEF PriOk
<1>4. \A e \in CPUs : /\ r.rq[e].curr = s.rq[e].curr
                      /\ r.rq[e].need_resched = s.rq[e].need_resched
  BY DEF OnlineOnly
<1>5. Placed(r)
  BY <1>1, <1>4 DEF Placed
<1> QED BY <1>2, <1>3, <1>4, <1>5 DEF Good

LEMMA set_rq_offlineStep ==
  ASSUME IInv, NEW c \in CPUs, set_rq_offline(c)
  PROVE  IInv'
<1> DEFINE r == IF rq[c].overloaded THEN rt_clear_overload(Now, c) ELSE Now
           d == [r.rd EXCEPT !.cpupri[c] = None]
<1>1. /\ Good(Now) /\ Now \in States /\ Now.rd \in RDs /\ MaskOk(Now.rq, Now.rd)
      /\ Now.rq = rq /\ Now.task = task /\ Now.rd = rd
      /\ rq[c].overloaded \in BOOLEAN /\ rq[c] \in RQs /\ rq \in [CPUs -> RQs]
  BY NowIs, StateParts DEF Good, RQs
<1>2. /\ rq[c].online /\ Change /\ rd' = d
      /\ rq' = [rq EXCEPT ![c].online = FALSE]
      /\ task' = task /\ work' = work /\ unseen' = unseen
  BY DEF set_rq_offline
<1>3. /\ r.rd \in RDs /\ r.rd.cpupri = rd.cpupri /\ r.rd.rto_mask = rd.rto_mask \ {c}
      /\ r.rd.rto_count = Cardinality(r.rd.rto_mask)
  <2>1. CASE rq[c].overloaded
    <3>1. c \in rd.rto_mask /\ rd.rto_count = Cardinality(rd.rto_mask)
      BY <1>1, <1>2, <2>1 DEF MaskOk
    <3>2. r = rt_clear_overload(Now, c)
      BY <2>1
    <3> HIDE DEF r
    <3>3. /\ r \in States /\ r.rd.cpupri = Now.rd.cpupri
          /\ r.rd.rto_mask = IF Now.rq[c].online THEN Now.rd.rto_mask \ {c} ELSE Now.rd.rto_mask
          /\ r.rd.rto_count = Cardinality(r.rd.rto_mask)
      BY <1>1, <3>1, <3>2, MaskClear
    <3> QED BY <1>1, <1>2, <3>3, StateParts
  <2>2. CASE ~rq[c].overloaded
    BY <1>1, <2>2 DEF MaskOk
  <2> QED BY <2>1, <2>2
<1> HIDE DEF r
<1>4. /\ d \in RDs /\ d.rto_mask = rd.rto_mask \ {c}
      /\ d.rto_count = Cardinality(d.rto_mask)
      /\ d.cpupri[c] = None /\ \A e \in CPUs \ {c} : d.cpupri[e] = rd.cpupri[e]
  BY <1>3 DEF RDs
<1> HIDE DEF d
<1>5. OnlineOnly(rq[c], rq'[c]) /\ rq'[c] \in RQs /\ rq'[c].online = FALSE
  <2> DEFINE q == rq[c]
             v == [q EXCEPT !.online = FALSE]
  <2>1. q \in RQs
    BY <1>1
  <2>2. rq'[c] = v
    BY <1>1, <1>2
  <2> HIDE DEF q
  <2>3. OnlineOnly(q, v) /\ v \in RQs /\ v.online = FALSE
    BY <2>1 DEF OnlineOnly, RQs
  <2> QED BY <2>2, <2>3 DEF q
<1>6. /\ Good(Now')
      /\ \A e \in CPUs : /\ (Now').rq[e].curr = Now.rq[e].curr
                         /\ (Now').rq[e].need_resched = Now.rq[e].need_resched
  <2> DEFINE z == Now'
  <2>1. z = [rq |-> rq', task |-> task, rd |-> d, work |-> NoWork]
    BY <1>2 DEF Now
  <2> HIDE DEF z
  <2>2. /\ \A e \in CPUs \ {c} : rq'[e] = rq[e]
        /\ rq' \in [CPUs -> RQs]
    BY <1>1, <1>2, <1>5
  <2>3. z \in States
    BY <1>1, <1>4, <2>1, <2>2, StateParts, AgentIs DEF States
  <2>4. PriOk(d, rq'[c], task, c)
    BY <1>4, <1>5 DEF PriOk
  <2>5. MaskOk(rq', d)
    BY <1>1, <1>4, <1>5, <2>2 DEF MaskOk
  <2>6. /\ z.rq = rq' /\ z.task = Now.task /\ z.rd = d
    BY <1>1, <2>1
  <2> HIDE DEF Now
  <2>7. /\ Good(z)
        /\ \A e \in CPUs : /\ z.rq[e].curr = Now.rq[e].curr
                           /\ z.rq[e].need_resched = Now.rq[e].need_resched
    BY <1>1, <1>4, <1>5, <2>2, <2>3, <2>4, <2>5, <2>6, OnlineIs
  <2> QED BY <2>7 DEF z
<1>7. (Now').task = Now.task
  BY <1>2 DEF Now
<1>8. Sound(Now', work, unseen')
  BY <1>2, <1>6, <1>7, QuietStep
<1> QED BY <1>2, <1>8, ChangeCounted DEF IInv

LEMMA set_rq_onlineStep ==
  ASSUME IInv, NEW c \in CPUs, set_rq_online(c)
  PROVE  IInv'
<1> DEFINE q == rq[c]
           v == [q EXCEPT !.online = TRUE]
           on == WithRq(Now, c, v)
           r == IF rq[c].overloaded THEN rt_set_overload(on, c) ELSE on
           d == [r.rd EXCEPT !.cpupri[c] = highest_prio(Now, c)]
<1>1. /\ Good(Now) /\ Now \in States /\ Now.rd \in RDs /\ MaskOk(Now.rq, Now.rd)
      /\ Now.rq = rq /\ Now.task = task /\ Now.rd = rd
      /\ rq[c].overloaded \in BOOLEAN /\ q \in RQs /\ rq \in [CPUs -> RQs]
  BY NowIs, StateParts DEF Good, RQs
<1>2. /\ ~rq[c].online /\ rd' = d /\ rq' = on.rq
      /\ task' = task /\ work' = work /\ changes' = changes /\ unseen \subseteq unseen'
  <2>1. [Now EXCEPT !.rq[c].online = TRUE] = on
    BY <1>1 DEF WithRq
  <2> QED BY <2>1 DEF set_rq_online
<1>3. v \in RQs /\ v.online = TRUE
  <2> HIDE DEF q
  <2> QED BY <1>1 DEF RQs
<1>4. /\ on \in States /\ on.rq[c] = v /\ on.task = task /\ on.rd = rd
      /\ \A e \in CPUs \ {c} : on.rq[e] = rq[e]
  <2>1. on = WithRq(Now, c, v)
    OBVIOUS
  <2> HIDE DEF v, on, q
  <2>2. /\ on \in States /\ on.rq[c] = v /\ \A e \in CPUs \ {c} : on.rq[e] = Now.rq[e]
        /\ on.task = Now.task /\ on.rd = Now.rd /\ on.work = Now.work
    <3>1. Now \in States /\ v \in RQs
      BY <1>1, <1>3
    <3> QED BY ONLY c \in CPUs, <3>1, <2>1, ChangeRq
  <2> QED BY <1>1, <2>2
<1>5. OnlineOnly(rq[c], rq'[c]) /\ rq'[c].online = TRUE
  <2>1. rq'[c] = v
    BY <1>2, <1>4
  <2> HIDE DEF on, q
  <2>2. OnlineOnly(q, v) /\ v.online = TRUE
    BY <1>1 DEF OnlineOnly, RQs
  <2> QED BY <2>1, <2>2 DEF q
<1> HIDE DEF on
<1>6. /\ r.rd \in RDs /\ r.rd.cpupri = rd.cpupri
      /\ r.rd.rto_mask = IF rq[c].overloaded THEN rd.rto_mask \cup {c} ELSE rd.rto_mask \ {c}
      /\ r.rd.rto_count = Cardinality(r.rd.rto_mask)
  <2>1. c \notin rd.rto_mask /\ rd.rto_count = Cardinality(rd.rto_mask)
    BY <1>1, <1>2 DEF MaskOk
  <2>2. CASE rq[c].overloaded
    <3>1. r = rt_set_overload(on, c)
      BY <2>2
    <3> HIDE DEF r
    <3>3. c \notin on.rd.rto_mask /\ on.rd.rto_count = Cardinality(on.rd.rto_mask)
      BY <1>4, <2>1
    <3>2. /\ r \in States /\ r.rd.cpupri = on.rd.cpupri
          /\ r.rd.rto_mask = IF on.rq[c].online THEN on.rd.rto_mask \cup {c} ELSE on.rd.rto_mask
          /\ r.rd.rto_count = Cardinality(r.rd.rto_mask)
      <4>1. on \in States
        BY <1>4
      <4> QED BY ONLY c \in CPUs, <4>1, <3>1, <3>3, MaskSet
    <3> QED BY <1>3, <1>4, <2>2, <3>2, StateParts
  <2>3. CASE ~rq[c].overloaded
    BY <1>1, <1>4, <2>1, <2>3
  <2> QED BY <2>2, <2>3
<1> HIDE DEF r
<1>7. highest_prio(Now, c) \in 0 .. MAX_RT_PRIO
  <2>1. IsBest(highest_prio(Now, c), Now.task, OnQueue(Now.task, c))
    BY <1>1, QueueIs DEF Good, Row, QueueOk
  <2> QED BY <2>1 DEF IsBest
<1>8. /\ d \in RDs /\ d.rto_mask = r.rd.rto_mask
      /\ d.rto_count = Cardinality(d.rto_mask)
      /\ d.cpupri[c] = highest_prio(Now, c)
      /\ \A e \in CPUs \ {c} : d.cpupri[e] = rd.cpupri[e]
  <2> DEFINE h == highest_prio(Now, c)
  <2> HIDE DEF h
  <2> QED BY <1>6, <1>7 DEF RDs, h
<1> HIDE DEF d
<1>9. /\ Good(Now')
      /\ \A e \in CPUs : /\ (Now').rq[e].curr = Now.rq[e].curr
                         /\ (Now').rq[e].need_resched = Now.rq[e].need_resched
  <2> DEFINE z == Now'
  <2>1. z = [rq |-> rq', task |-> task, rd |-> d, work |-> NoWork]
    BY <1>2 DEF Now
  <2> HIDE DEF z
  <2>2. /\ \A e \in CPUs \ {c} : rq'[e] = rq[e]
        /\ rq' \in [CPUs -> RQs]
    BY <1>2, <1>4, StateParts
  <2>3. z \in States
    BY <1>1, <1>8, <2>1, <2>2, StateParts, AgentIs DEF States
  <2>4. PriOk(d, rq'[c], task, c)
    <3>1. IsBest(highest_prio(Now, c), Now.task, OnQueue(Now.task, c))
      BY <1>1, QueueIs DEF Good, Row, QueueOk
    <3> QED BY <3>1, <1>1, <1>5, <1>8 DEF PriOk
  <2>5. MaskOk(rq', d)
    BY <1>1, <1>5, <1>6, <1>8, <2>2 DEF MaskOk, OnlineOnly
  <2>6. /\ z.rq = rq' /\ z.task = Now.task /\ z.rd = d
    BY <1>1, <2>1
  <2> HIDE DEF Now
  <2>7. /\ Good(z)
        /\ \A e \in CPUs : /\ z.rq[e].curr = Now.rq[e].curr
                           /\ z.rq[e].need_resched = Now.rq[e].need_resched
    BY <1>1, <1>5, <1>8, <2>2, <2>3, <2>4, <2>5, <2>6, OnlineIs
  <2> QED BY <2>7 DEF z
<1>10. (Now').task = Now.task
  BY <1>2 DEF Now
<1>11. Sound(Now', work, unseen')
  BY <1>2, <1>9, <1>10, QuietStep
<1>12. changes' \in 0 .. MaxChanges
  BY <1>2 DEF IInv
<1> QED BY <1>2, <1>11, <1>12 DEF IInv

(* Tasks that differ in the mask of t.                                     *)
Masked(T, T2, t) ==
  /\ Differ(T, T2, t)
  /\ T2[t].cpu = T[t].cpu /\ T2[t].prio = T[t].prio /\ T2[t].on_rq = T[t].on_rq

Wide(T, t) == Cardinality(T[t].allowed) > 1

LEMMA MaskedSets ==
  ASSUME NEW T, NEW T2, NEW t \in Tasks, Masked(T, T2, t), NEW d
  PROVE  /\ OnQueue(T2, d) = OnQueue(T, d)
         /\ RtOn(T2, d) = RtOn(T, d)
         /\ \A u \in Tasks : T2[u].prio = T[u].prio
         /\ t \notin RtOn(T, d) => Movable(T2, d) = Movable(T, d)
         /\ t \in RtOn(T, d) => /\ t \in Movable(T, d) <=> Wide(T, t)
                                /\ Movable(T2, d) = IF Wide(T2, t) THEN Movable(T, d) \cup {t}
                                                    ELSE Movable(T, d) \ {t}
<1>1. \A u \in Tasks : /\ T2[u].prio = T[u].prio /\ T2[u].cpu = T[u].cpu
                       /\ T2[u].on_rq = T[u].on_rq
                       /\ u # t => T2[u] = T[u]
  BY DEF Masked, Differ
<1>2. OnQueue(T2, d) = OnQueue(T, d)
  BY <1>1 DEF OnQueue
<1>3. RtOn(T2, d) = RtOn(T, d) /\ RtOn(T, d) \subseteq Tasks
  BY <1>1, <1>2 DEF RtOn, OnQueue
<1>4. t \notin RtOn(T, d) => Movable(T2, d) = Movable(T, d)
  BY <1>1, <1>3 DEF Movable
<1>5. t \in RtOn(T, d) => t \in Movable(T, d) <=> Wide(T, t)
  BY DEF Movable, Wide
<1>6. t \in RtOn(T, d) => Movable(T2, d) = IF Wide(T2, t) THEN Movable(T, d) \cup {t}
                                           ELSE Movable(T, d) \ {t}
  BY <1>1, <1>3 DEF Movable, Wide
<1> QED BY <1>1, <1>2, <1>3, <1>4, <1>5, <1>6

(* The sets and priorities are all that a run queue is compared with.      *)
LEMMA RowSets ==
  ASSUME NEW T, NEW T2, NEW d, OnQueue(T2, d) = OnQueue(T, d), RtOn(T2, d) = RtOn(T, d),
         \A u \in Tasks : T2[u].prio = T[u].prio
  PROVE  /\ \A r : QueueOk(r, T, d) => QueueOk(r, T2, d)
         /\ \A r, W : W \subseteq Tasks /\ PushOk(r, T, W) => PushOk(r, T2, W)
         /\ \A r, e : PriOk(e, r, T, d) => PriOk(e, r, T2, d)
         /\ Movable(T2, d) = Movable(T, d) => \A r : Row(r, T, d) => Row(r, T2, d)
<1>1. OnQueue(T, d) \subseteq Tasks /\ Movable(T, d) \subseteq Tasks
  BY DEF OnQueue, Movable, RtOn
<1>2. ASSUME NEW r, QueueOk(r, T, d) PROVE QueueOk(r, T2, d)
  BY <1>1, <1>2, OrderedSame DEF QueueOk
<1>3. ASSUME NEW r, NEW W, W \subseteq Tasks, PushOk(r, T, W) PROVE PushOk(r, T2, W)
  BY <1>3, OrderedSame, BestSame DEF PushOk
<1>4. ASSUME NEW r, NEW e, PriOk(e, r, T, d) PROVE PriOk(e, r, T2, d)
  BY <1>1, <1>4, BestSame DEF PriOk
<1>5. ASSUME Movable(T2, d) = Movable(T, d), NEW r, Row(r, T, d) PROVE Row(r, T2, d)
  <2>1. QueueOk(r, T2, d)
    BY <1>2, <1>5 DEF Row
  <2>2. PushOk(r, T2, Movable(T2, d) \ {r.curr})
    <3> DEFINE W == Movable(T, d) \ {r.curr}
    <3>1. PushOk(r, T, W) /\ W \subseteq Tasks
      BY <1>1, <1>5 DEF Row
    <3>2. W = Movable(T2, d) \ {r.curr}
      BY <1>5
    <3> HIDE DEF W
    <3>3. PushOk(r, T2, W)
      BY <1>3, <3>1
    <3> QED BY <3>2, <3>3
  <2>3. CountOk(r, T2, d)
    BY <1>5 DEF Row, CountOk
  <2> QED BY <2>1, <2>2, <2>3 DEF Row
<1> QED BY <1>2, <1>3, <1>4, <1>5

(* set_cpus_allowed_ptr of t, from s before the mask is stored.            *)
NewMask(s, t, mask) == WithTask(s, t, [s.task[t] EXCEPT !.allowed = mask])

LEMMA NewMaskIs ==
  ASSUME NEW s, Good(s), NEW t \in Tasks, NEW mask \in SUBSET CPUs, s.task[t].cpu \in mask,
         NEW m, m = NewMask(s, t, mask), NEW c \in CPUs, s.task[t].cpu = c
  PROVE  /\ m \in States /\ Masked(s.task, m.task, t) /\ m.task[t].allowed = mask
         /\ m.rq = s.rq /\ m.rd = s.rd /\ m.work = s.work
         /\ Others(m, c) /\ QueueOk(m.rq[c], m.task, c) /\ PriOk(m.rd, m.rq[c], m.task, c)
         /\ PushOk(m.rq[c], m.task, Movable(s.task, c) \ {m.rq[c].curr})
         /\ t \notin RtOn(s.task, c) \/ Wide(s.task, t) = Wide(m.task, t) => Good(m)
<1> DEFINE y == s.task[t]
           e == [y EXCEPT !.allowed = mask]
<1>1. s \in States /\ Placed(s) /\ MaskOk(s.rq, s.rd)
  BY DEF Good
<1>2. y \in [cpu : CPUs, prio : 0 .. MAX_RT_PRIO, allowed : SUBSET CPUs, on_rq : BOOLEAN]
  BY <1>1, StateParts DEF TaskMaps
<1>3. m = WithTask(s, t, e)
  BY DEF NewMask
<1> HIDE DEF y
<1>4. e = [cpu |-> y.cpu, prio |-> y.prio, allowed |-> mask, on_rq |-> y.on_rq]
  BY <1>2
<1> HIDE DEF e
<1>5. /\ e.cpu = y.cpu /\ e.prio = y.prio /\ e.allowed = mask
      /\ e.on_rq = y.on_rq
      /\ e = [cpu |-> e.cpu, prio |-> e.prio, allowed |-> e.allowed, on_rq |-> e.on_rq]
      /\ e.prio \in 0 .. MAX_RT_PRIO /\ e.allowed \in SUBSET CPUs
      /\ e.cpu \in CPUs /\ e.on_rq \in BOOLEAN
  BY <1>2, <1>4
<1>6. /\ m \in States /\ m.task[t] = e /\ \A a \in Tasks \ {t} : m.task[a] = s.task[a]
      /\ m.rq = s.rq /\ m.rd = s.rd /\ m.work = s.work
  BY <1>1, <1>3, <1>5, ChangeTask
<1>7. Masked(s.task, m.task, t) /\ m.task[t].allowed = mask
  BY <1>5, <1>6 DEF Masked, Differ, y
<1>8. Placed(m)
  <2>1. \A u \in Tasks : m.task[u].cpu = s.task[u].cpu
    BY <1>7 DEF Masked, Differ
  <2>2. \A u \in Tasks : m.task[u].cpu \in m.task[u].allowed
    BY <1>1, <1>6, <1>7, <2>1 DEF Placed
  <2> QED BY <1>1, <1>6, <2>1, <2>2 DEF Placed
<1>9. \A d \in CPUs : /\ OnQueue(m.task, d) = OnQueue(s.task, d)
                      /\ RtOn(m.task, d) = RtOn(s.task, d)
                      /\ \A u \in Tasks : m.task[u].prio = s.task[u].prio
  BY <1>7, MaskedSets
<1>10. ASSUME NEW d \in CPUs, Movable(m.task, d) = Movable(s.task, d)
       PROVE  Row(m.rq[d], m.task, d) /\ PriOk(m.rd, m.rq[d], m.task, d)
  <2>1. Row(s.rq[d], s.task, d) /\ PriOk(s.rd, s.rq[d], s.task, d)
    BY DEF Good
  <2> QED BY <1>6, <1>9, <1>10, <2>1, RowSets
<1>11. \A d \in CPUs \ {c} : Movable(m.task, d) = Movable(s.task, d)
  <2>1. \A d \in CPUs \ {c} : t \notin RtOn(s.task, d)
    BY DEF RtOn, OnQueue
  <2> QED BY <1>7, <2>1, MaskedSets
<1>12. Others(m, c)
  BY <1>1, <1>6, <1>8, <1>10, <1>11 DEF Others
<1>13. QueueOk(m.rq[c], m.task, c) /\ PriOk(m.rd, m.rq[c], m.task, c)
  <2>1. QueueOk(s.rq[c], s.task, c) /\ PriOk(s.rd, s.rq[c], s.task, c)
    BY DEF Good, Row
  <2> QED BY <1>6, <1>9, <2>1, RowSets
<1>14. PushOk(m.rq[c], m.task, Movable(s.task, c) \ {m.rq[c].curr})
  <2> DEFINE W == Movable(s.task, c) \ {m.rq[c].curr}
  <2>1. PushOk(m.rq[c], s.task, W)
    BY <1>6 DEF Good, Row
  <2>2. W \subseteq Tasks
    BY DEF Movable, RtOn, OnQueue
  <2> HIDE DEF W
  <2>3. PushOk(m.rq[c], m.task, W)
    BY <1>9, <2>1, <2>2, RowSets
  <2> QED BY <2>3 DEF W
<1>15. ASSUME t \notin RtOn(s.task, c) \/ Wide(s.task, t) = Wide(m.task, t) PROVE Good(m)
  <2>1. Movable(m.task, c) = Movable(s.task, c)
    <3>1. CASE t \notin RtOn(s.task, c)
      BY <1>7, <3>1, MaskedSets
    <3>2. CASE t \in RtOn(s.task, c) /\ Wide(s.task, t) /\ Wide(m.task, t)
      <4>1. /\ t \in Movable(s.task, c)
            /\ Movable(m.task, c) = Movable(s.task, c) \cup {t}
        BY <1>7, <3>2, MaskedSets
      <4> QED BY <4>1
    <3>3. CASE t \in RtOn(s.task, c) /\ ~Wide(s.task, t) /\ ~Wide(m.task, t)
      <4>1. /\ t \notin Movable(s.task, c)
            /\ Movable(m.task, c) = Movable(s.task, c) \ {t}
        BY <1>7, <3>3, MaskedSets
      <4> QED BY <4>1
    <3> QED BY <1>15, <3>1, <3>2, <3>3
  <2>2. \A d \in CPUs : Movable(m.task, d) = Movable(s.task, d)
    BY <1>11, <2>1
  <2> QED BY <1>1, <1>6, <1>8, <1>10, <2>2 DEF Good
<1> QED BY <1>6, <1>7, <1>12, <1>13, <1>14, <1>15

LEMMA PushableTwice ==
  ASSUME NEW s, NEW m, NEW r, NEW c \in CPUs, NEW W, NEW W2,
         Pushable(s, m, c, W), Pushable(m, r, c, W2)
  PROVE  Pushable(s, r, c, W2)
BY SameTwice DEF Pushable, Same

(* set_cpus_allowed_rt makes t pushable, or not.                           *)
LEMMA MaskPushable ==
  ASSUME NEW s, NEW t \in Tasks, NEW m, Masked(s.task, m.task, t), NEW c \in CPUs,
         t \in RtOn(s.task, c), m.rq = s.rq, Others(m, c),
         PushOk(m.rq[c], m.task, Movable(s.task, c) \ {m.rq[c].curr}),
         NEW off, off = IF m.rq[c].curr # t /\ Wide(s.task, t)
                        THEN dequeue_pushable_task(m, c, t) ELSE m,
         NEW on, on = IF m.rq[c].curr # t /\ Wide(m.task, t)
                      THEN enqueue_pushable_task(off, c, t) ELSE off
  PROVE  Pushable(m, on, c, Movable(m.task, c) \ {m.rq[c].curr})
<1> DEFINE k == m.rq[c].curr
           W == Movable(s.task, c) \ {k}
           W2 == Movable(m.task, c) \ {k}
<1>1. /\ t \in Movable(s.task, c) <=> Wide(s.task, t)
      /\ Movable(m.task, c) = IF Wide(m.task, t) THEN Movable(s.task, c) \cup {t}
                              ELSE Movable(s.task, c) \ {t}
  <2>1. t \in Movable(s.task, c) <=> Wide(s.task, t)
    BY DEF Movable, Wide
  <2>2. CASE Wide(m.task, t)
    <3>1. Movable(m.task, c) = Movable(s.task, c) \cup {t}
      BY <2>2, MaskedSets
    <3> QED BY <2>1, <2>2, <3>1
  <2>3. CASE ~Wide(m.task, t)
    <3>1. Movable(m.task, c) = Movable(s.task, c) \ {t}
      BY <2>3, MaskedSets
    <3> QED BY <2>1, <2>3, <3>1
  <2> QED BY <2>2, <2>3
<1>2. Pushable(m, m, c, W)
  BY DEF Pushable, Same, Kept
<1>3. CASE k = t
  <2>1. W2 = W /\ on = m
    BY <1>1, <1>3
  <2> QED BY <1>2, <2>1
<1>4. CASE k # t
  <2>1. Pushable(m, off, c, W \ {t})
    <3>1. CASE Wide(s.task, t)
      <4>1. off = dequeue_pushable_task(m, c, t)
        BY <1>4, <3>1
      <4>2. PushOk(m.rq[c], m.task, W)
        OBVIOUS
      <4> HIDE DEF W
      <4> QED BY <4>1, <4>2, PushDel
    <3>2. CASE ~Wide(s.task, t)
      <4>1. off = m /\ W \ {t} = W
        BY <1>1, <3>2
      <4> QED BY <1>2, <4>1
    <3> QED BY <3>1, <3>2
  <2>2. CASE Wide(m.task, t)
    <3>1. on = enqueue_pushable_task(off, c, t)
      BY <1>4, <2>2
    <3>2. W2 = (W \ {t}) \cup {t}
      BY <1>1, <1>4, <2>2
    <3> DEFINE V == W \ {t}
    <3>3. Pushable(m, off, c, V) /\ t \notin V /\ W2 = V \cup {t}
      BY <2>1, <3>2
    <3> HIDE DEF V, W2
    <3>4. Others(off, c) /\ PushOk(off.rq[c], off.task, V)
      BY <3>3 DEF Pushable, Same
    <3>5. Pushable(off, on, c, V \cup {t})
      BY <3>1, <3>3, <3>4, PushAdd
    <3> QED BY <3>3, <3>5, PushableTwice DEF W2
  <2>3. CASE ~Wide(m.task, t)
    <3>1. on = off /\ W2 = W \ {t}
      BY <1>1, <2>3
    <3> QED BY <2>1, <3>1
  <2> QED BY <2>2, <2>3
<1> QED BY <1>3, <1>4

(* rt_nr_migratory follows, and rto_mask with it.                          *)
LEMMA Recount ==
  ASSUME NEW s, NEW c \in CPUs, Others(s, c), QueueOk(s.rq[c], s.task, c),
         PriOk(s.rd, s.rq[c], s.task, c),
         PushOk(s.rq[c], s.task, Movable(s.task, c) \ {s.rq[c].curr}),
         NEW by \in Int, s.rq[c].rt_nr_migratory + by = Cardinality(Movable(s.task, c)),
         NEW r, r = update_rt_migration([s EXCEPT !.rq[c].rt_nr_migratory = @ + by], c)
  PROVE  Good(r) /\ Same(s, r)
<1> DEFINE q == s.rq[c]
           n == q.rt_nr_migratory + by
           v == [q EXCEPT !.rt_nr_migratory = n]
           u == WithRq(s, c, v)
<1>1. s \in States /\ q \in RQs
  BY StateParts DEF Others
<1>2. n \in Int /\ n = Cardinality(Movable(s.task, c))
  BY <1>1 DEF RQs
<1>3. r = update_rt_migration(u, c)
  BY DEF WithRq
<1> HIDE DEF n
<1>4. /\ v \in RQs /\ v.rt_nr_migratory = n /\ v.pushable = q.pushable /\ v.next = q.next
      /\ v.curr = q.curr /\ v.need_resched = q.need_resched /\ v.online = q.online
      /\ v.queue = q.queue /\ v.overloaded = q.overloaded
  <2> HIDE DEF q
  <2> QED BY <1>1, <1>2 DEF RQs
<1> HIDE DEF v
<1>5. /\ u \in States /\ u.rq[c] = v /\ \A d \in CPUs \ {c} : u.rq[d] = s.rq[d]
      /\ u.task = s.task /\ u.rd = s.rd /\ u.work = s.work
  BY <1>1, <1>4, ChangeRq
<1> HIDE DEF u
<1>6. Others(u, c) /\ Same(s, u)
  <2>1. Others(u, c)
    BY <1>4, <1>5, OthersKept
  <2> QED BY <2>1, <1>4, <1>5 DEF Same, Kept
<1>7. QueueOk(u.rq[c], u.task, c) /\ PriOk(u.rd, u.rq[c], u.task, c)
  BY <1>4, <1>5 DEF QueueOk, PriOk
<1>8. u.rq[c].rt_nr_migratory = Cardinality(Movable(u.task, c))
  BY <1>2, <1>4, <1>5
<1>9. /\ Others(r, c) /\ Same(u, r) /\ CountOk(r.rq[c], u.task, c)
      /\ PriOk(r.rd, r.rq[c], u.task, c)
      /\ r.rq[c].pushable = u.rq[c].pushable /\ r.rq[c].next = u.rq[c].next
  BY <1>3, <1>6, <1>7, <1>8, Overload
<1>10. Same(s, r)
  BY <1>6, <1>9, SameTwice
<1>11. PushOk(r.rq[c], r.task, Movable(r.task, c) \ {r.rq[c].curr})
  BY <1>4, <1>5, <1>9, <1>10 DEF PushOk, Same, Kept
<1>12. QueueOk(r.rq[c], r.task, c)
  BY <1>10 DEF QueueOk, Same
<1>13. Good(r)
  BY <1>5, <1>9, <1>10, <1>11, <1>12, GoodIs DEF Same
<1> QED BY <1>10, <1>13

(* What set_cpus_allowed comes to.                                         *)
LEMMA MaskChanged ==
  ASSUME IInv, NEW x \in Contexts, NEW t \in Tasks, NEW mask \in SUBSET CPUs,
         set_cpus_allowed(x, t, mask)
  PROVE  \E r : /\ Good(r) /\ Becomes(x, r) /\ r.work = NoWork
               /\ Masked(Now.task, r.task, t) /\ r.task[t].allowed = mask
               /\ \A d \in CPUs : /\ r.rq[d].curr = Now.rq[d].curr
                                  /\ r.rq[d].need_resched = Now.rq[d].need_resched
                                  /\ r.rq[d].online = Now.rq[d].online
<1> DEFINE c == task[t].cpu
           s == NewMask(Now, t, mask)
           was == nr_cpus_allowed(Now, t)
           weight == Cardinality(mask)
           off == IF rq[c].curr # t /\ was > 1
                  THEN dequeue_pushable_task(s, c, t) ELSE s
           on == IF rq[c].curr # t /\ weight > 1
                 THEN enqueue_pushable_task(off, c, t) ELSE off
           by == IF was <= 1 /\ weight > 1 THEN 1
                 ELSE IF was > 1 /\ weight <= 1 THEN -1 ELSE 0
           r == IF rt_task(Now, t) /\ task[t].on_rq /\ weight # was
                THEN update_rt_migration([on EXCEPT !.rq[c].rt_nr_migratory = @ + by], c)
                ELSE s
<1>1. /\ Good(Now) /\ Now \in States /\ Now.work = NoWork
      /\ Now.rq = rq /\ Now.task = task /\ Now.rd = rd
      /\ x \in Agents /\ work \in [Agents -> Works] /\ c \in CPUs
  <2>1. Now \in States
    BY NowIs DEF Good
  <2> QED BY <2>1, NowIs, AgentIs, StateParts
<1>2. c \in mask /\ Becomes(x, r)
  <2>1. [Now EXCEPT !.task[t].allowed = mask] = s
    BY <1>1 DEF NewMask, WithTask
  <2> QED BY <2>1 DEF set_cpus_allowed
<1>3. /\ s \in States /\ Masked(Now.task, s.task, t) /\ s.task[t].allowed = mask
      /\ s.rq = Now.rq /\ s.rd = Now.rd /\ s.work = Now.work
      /\ Others(s, c) /\ QueueOk(s.rq[c], s.task, c) /\ PriOk(s.rd, s.rq[c], s.task, c)
      /\ PushOk(s.rq[c], s.task, Movable(Now.task, c) \ {s.rq[c].curr})
      /\ t \notin RtOn(Now.task, c) \/ Wide(Now.task, t) = Wide(s.task, t) => Good(s)
  <2> DEFINE z == s
             d == c
  <2>1. z = NewMask(Now, t, mask) /\ d \in CPUs /\ Now.task[t].cpu = d /\ d \in mask
    BY <1>1, <1>2
  <2> HIDE DEF z, d
  <2>2. /\ z \in States /\ Masked(Now.task, z.task, t) /\ z.task[t].allowed = mask
        /\ z.rq = Now.rq /\ z.rd = Now.rd /\ z.work = Now.work
        /\ Others(z, d) /\ QueueOk(z.rq[d], z.task, d) /\ PriOk(z.rd, z.rq[d], z.task, d)
        /\ PushOk(z.rq[d], z.task, Movable(Now.task, d) \ {z.rq[d].curr})
        /\ t \notin RtOn(Now.task, d) \/ Wide(Now.task, t) = Wide(z.task, t) => Good(z)
    BY <1>1, <2>1, NewMaskIs
  <2> QED BY <2>2 DEF z, d
<1>4. /\ Wide(Now.task, t) <=> was > 1
      /\ Wide(s.task, t) <=> weight > 1
      /\ was \in Nat /\ weight \in Nat
      /\ rt_task(Now, t) /\ task[t].on_rq <=> t \in RtOn(Now.task, c)
  <2>1. mask \subseteq 1 .. N /\ Now.task[t].allowed \subseteq 1 .. N
    BY <1>1, StateParts DEF CPUs
  <2>2. was \in Nat /\ weight \in Nat
    <3>1. IsFiniteSet(1 .. N)
      BY PushPullAssumption, FS_Interval
    <3>2. IsFiniteSet(mask) /\ IsFiniteSet(Now.task[t].allowed)
      BY <2>1, <3>1, FS_Subset
    <3> QED BY <3>2, FS_CardinalityType DEF nr_cpus_allowed
  <2> HIDE DEF s
  <2> QED BY <1>1, <1>3, <2>2, TaskIs DEF Wide, nr_cpus_allowed, RtOn, OnQueue
<1> HIDE DEF s, was, weight, c
<1>5. Good(r) /\ r.work = NoWork /\ r.task = s.task
      /\ \A d \in CPUs : /\ r.rq[d].curr = Now.rq[d].curr
                         /\ r.rq[d].need_resched = Now.rq[d].need_resched
                         /\ r.rq[d].online = Now.rq[d].online
  <2>1. CASE ~(rt_task(Now, t) /\ task[t].on_rq /\ weight # was)
    <3>1. r = s
      BY <2>1
    <3>2. t \notin RtOn(Now.task, c) \/ Wide(Now.task, t) = Wide(s.task, t)
      <4>1. t \notin RtOn(Now.task, c) \/ (Wide(Now.task, t) <=> Wide(s.task, t))
        BY <1>4, <2>1
      <4>2. Wide(Now.task, t) \in BOOLEAN /\ Wide(s.task, t) \in BOOLEAN
        BY DEF Wide
      <4> QED BY <4>1, <4>2
    <3> QED BY <1>1, <1>3, <3>1, <3>2
  <2>2. CASE rt_task(Now, t) /\ task[t].on_rq /\ weight # was
    <3>1. r = update_rt_migration([on EXCEPT !.rq[c].rt_nr_migratory = @ + by], c)
      BY <2>2
    <3>2. t \in RtOn(Now.task, c)
      BY <1>4, <2>2
    <3>3. /\ off = IF s.rq[c].curr # t /\ Wide(Now.task, t)
                   THEN dequeue_pushable_task(s, c, t) ELSE s
          /\ on = IF s.rq[c].curr # t /\ Wide(s.task, t)
                  THEN enqueue_pushable_task(off, c, t) ELSE off
      BY <1>1, <1>3, <1>4
    <3>4. by \in Int /\ by = IF ~Wide(Now.task, t) /\ Wide(s.task, t) THEN 1
                             ELSE IF Wide(Now.task, t) /\ ~Wide(s.task, t) THEN -1 ELSE 0
      BY <1>4
    <3> HIDE DEF r, on, off, by
    <3>5. Pushable(s, on, c, Movable(s.task, c) \ {s.rq[c].curr})
      BY ONLY t \in Tasks, <1>1, <1>3, <3>2, <3>3, MaskPushable
    <3>6. Cardinality(Movable(s.task, c)) = Cardinality(Movable(Now.task, c)) + by
      <4>1. /\ t \in Movable(Now.task, c) <=> Wide(Now.task, t)
            /\ Movable(s.task, c) = IF Wide(s.task, t) THEN Movable(Now.task, c) \cup {t}
                                    ELSE Movable(Now.task, c) \ {t}
        <5> DEFINE T == Now.task
                   T2 == s.task
        <5>1. Masked(T, T2, t) /\ t \in RtOn(T, c)
          BY <1>3, <3>2
        <5> HIDE DEF T, T2
        <5>2. t \in Movable(T, c) <=> Wide(T, t)
          BY ONLY t \in Tasks, <5>1, MaskedSets
        <5>3. Movable(T2, c) = IF Wide(T2, t) THEN Movable(T, c) \cup {t} ELSE Movable(T, c) \ {t}
          BY ONLY t \in Tasks, <5>1, MaskedSets
        <5> QED BY <5>2, <5>3 DEF T, T2
      <4>2. /\ IsFiniteSet(Movable(Now.task, c)) /\ Cardinality(Movable(Now.task, c)) \in Nat
        BY QueuesFinite
      <4>3. /\ Cardinality(Movable(Now.task, c) \cup {t}) =
                 IF t \in Movable(Now.task, c) THEN Cardinality(Movable(Now.task, c))
                 ELSE Cardinality(Movable(Now.task, c)) + 1
            /\ Cardinality(Movable(Now.task, c) \ {t}) =
                 IF t \in Movable(Now.task, c) THEN Cardinality(Movable(Now.task, c)) - 1
                 ELSE Cardinality(Movable(Now.task, c))
        BY <4>2, FS_AddElement, FS_RemoveElement
      <4> QED BY <3>4, <4>1, <4>2, <4>3
    <3>7. /\ Others(on, c) /\ on.task = s.task /\ on.rd = s.rd /\ Same(s, on)
          /\ on.rq[c].rt_nr_migratory + by = Cardinality(Movable(on.task, c))
      <4>1. on.rq[c].rt_nr_migratory = Cardinality(Movable(Now.task, c))
        BY <1>1, <1>3, <3>5 DEF Pushable, Good, Row, CountOk
      <4> QED BY <3>5, <3>6, <4>1 DEF Pushable, Same
    <3>8. /\ QueueOk(on.rq[c], on.task, c) /\ PriOk(on.rd, on.rq[c], on.task, c)
          /\ PushOk(on.rq[c], on.task, Movable(on.task, c) \ {on.rq[c].curr})
      BY <1>1, <1>3, <3>5, <3>7 DEF Pushable, Same, Kept, QueueOk, PriOk
    <3>9. Good(r) /\ Same(on, r)
      BY ONLY <1>1, <3>1, <3>4, <3>7, <3>8, Recount
    <3> QED BY <1>1, <1>3, <3>7, <3>9 DEF Same, Kept
  <2> QED BY <2>1, <2>2
<1> HIDE DEF r
<1>6. Masked(Now.task, r.task, t) /\ r.task[t].allowed = mask
  BY <1>3, <1>5
<1> QED BY <1>2, <1>5, <1>6

LEMMA set_cpus_allowedStep ==
  ASSUME IInv, NEW x \in Contexts, NEW t \in Tasks, NEW mask \in SUBSET CPUs,
         set_cpus_allowed(x, t, mask)
  PROVE  IInv'
<1>1. /\ Now.work = NoWork /\ x \in Agents /\ work \in [Agents -> Works]
      /\ work[x] = NoWork /\ Change /\ unseen \subseteq unseen'
  BY NowIs, AgentIs DEF set_cpus_allowed
<1>2. PICK r : /\ Good(r) /\ Becomes(x, r) /\ r.work = NoWork
               /\ Masked(Now.task, r.task, t)
               /\ \A d \in CPUs : /\ r.rq[d].curr = Now.rq[d].curr
                                  /\ r.rq[d].need_resched = Now.rq[d].need_resched
  BY MaskChanged
<1>3. \A u \in Tasks : /\ r.task[u].cpu = Now.task[u].cpu
                       /\ r.task[u].on_rq = Now.task[u].on_rq
                       /\ r.task[u].prio = Now.task[u].prio
  BY <1>2 DEF Masked, Differ
<1>4. Sound(r, work, unseen')
  BY <1>1, <1>2, <1>3, QuietStep
<1>5. [work EXCEPT ![x] = r.work] = work
  BY <1>1, <1>2
<1>6. Sound(Now', work', unseen')
  BY <1>1, <1>2, <1>4, <1>5, Arrive
<1> QED BY <1>1, <1>6, ChangeCounted DEF IInv

(* The same for a new priority: of a task off the queues ...               *)
NewPrio(s, t, p) == WithTask(s, t, [s.task[t] EXCEPT !.prio = p])

LEMMA NewPrioIs ==
  ASSUME NEW s, Good(s), NEW t \in Tasks, NEW p \in 0 .. MAX_RT_PRIO, ~s.task[t].on_rq,
         NEW m, m = NewPrio(s, t, p)
  PROVE  /\ Good(m) /\ m.rq = s.rq /\ m.rd = s.rd /\ m.work = s.work
         /\ Differ(s.task, m.task, t)
         /\ m.task[t].prio = p /\ m.task[t].cpu = s.task[t].cpu /\ ~m.task[t].on_rq
<1> DEFINE y == s.task[t]
           e == [y EXCEPT !.prio = p]
<1>1. s \in States /\ Placed(s) /\ y.cpu \in y.allowed /\ ~y.on_rq
  BY DEF Good, Placed
<1>2. y \in [cpu : CPUs, prio : 0 .. MAX_RT_PRIO, allowed : SUBSET CPUs, on_rq : BOOLEAN]
  BY <1>1, StateParts DEF TaskMaps
<1>3. m = WithTask(s, t, e)
  BY DEF NewPrio
<1>4. \A c \in CPUs : s.rq[c].curr = t => y.cpu = c
  BY <1>1 DEF Placed
<1>5. s.task[t] = y
  OBVIOUS
<1> HIDE DEF y
<1>6. e = [cpu |-> y.cpu, prio |-> p, allowed |-> y.allowed, on_rq |-> y.on_rq]
  BY <1>2
<1> HIDE DEF e
<1>7. /\ e.cpu = y.cpu /\ e.prio = p /\ e.allowed = y.allowed /\ e.on_rq = y.on_rq
      /\ e = [cpu |-> e.cpu, prio |-> e.prio, allowed |-> e.allowed, on_rq |-> e.on_rq]
      /\ e.prio \in 0 .. MAX_RT_PRIO /\ e.allowed \in SUBSET CPUs
      /\ e.cpu \in CPUs /\ e.on_rq \in BOOLEAN
  BY <1>2, <1>6
<1>8. /\ m \in States /\ m.task[t] = e /\ \A v \in Tasks \ {t} : m.task[v] = s.task[v]
      /\ m.rq = s.rq /\ m.rd = s.rd /\ m.work = s.work
  BY ONLY t \in Tasks, <1>1, <1>3, <1>7, ChangeTask
<1>9. Differ(s.task, m.task, t)
  BY <1>8 DEF Differ
<1>10. Good(m)
  BY <1>1, <1>4, <1>5, <1>7, <1>8, <1>9, OffQueue
<1> QED BY <1>1, <1>5, <1>7, <1>8, <1>9, <1>10

(* ... and of one that is taken off its queue and put back.                *)
Requeued(s, c, t, p) ==
  enqueue_task(NewPrio(dequeue_task(s, c, t), t, p), c, t, FALSE)

LEMMA Reprioritised ==
  ASSUME NEW s, Good(s), NEW t \in Tasks, NEW p \in 0 .. MAX_RT_PRIO, s.task[t].on_rq,
         NEW c \in CPUs, s.task[t].cpu = c,
         NEW r, r = Requeued(s, c, t, p)
  PROVE  /\ Good(r) /\ Kept(s, r) /\ Differ(s.task, r.task, t)
         /\ r.task[t].prio = p /\ r.task[t].on_rq /\ r.task[t].cpu = c
<1> DEFINE m == dequeue_task(s, c, t)
           n == NewPrio(m, t, p)
<1>1. Good(m) /\ Kept(s, m) /\ Joins(m.task, s.task, t, c) /\ m.task[t].cpu = c
  BY DequeueTask
<1>2. r = enqueue_task(n, c, t, FALSE)
  BY DEF Requeued
<1> HIDE DEF m
<1>3. /\ Good(n) /\ n.rq = m.rq /\ n.work = m.work /\ Differ(m.task, n.task, t)
      /\ n.task[t].prio = p /\ n.task[t].cpu = c /\ ~n.task[t].on_rq
  BY <1>1, NewPrioIs DEF Joins
<1> HIDE DEF n
<1>4. Good(r) /\ Kept(n, r) /\ Joins(n.task, r.task, t, c)
  <2>1. FALSE \in BOOLEAN
    OBVIOUS
  <2> QED BY <1>2, <1>3, <2>1, EnqueueTask
<1>5. Kept(s, r)
  <2>1. Kept(s, n)
    BY <1>1, <1>3 DEF Kept
  <2> QED BY <2>1, <1>4, SameTwice
<1>6. Differ(s.task, r.task, t)
  BY <1>1, <1>3, <1>4 DEF Differ, Joins
<1> QED BY <1>3, <1>4, <1>5, <1>6 DEF Joins

LEMMA ClassChanged ==
  ASSUME NEW s, Good(s), s.work = NoWork, NEW c \in CPUs, NEW t \in Tasks, NEW old, NEW choice,
         NEW r, r = check_class_changed(s, c, t, old, choice)
  PROVE  \/ /\ rt_task(s, t) /\ (s.rq[c].curr = t => ~(old < MAX_RT_PRIO))
            /\ PushResult(s, r, c, "switched", t)
         \/ rt_task(s, t) /\ s.rq[c].curr = t /\ PullResult(s, r, c, "prio", t)
         \/ ~rt_task(s, t) /\ PullResult(s, r, c, "switched", t)
<1> DEFINE k == s.rq[c].curr
<1>1. PushFor("switched", t) /\ PullFor("prio", t) /\ PullFor("switched", t)
  BY DEF PushFor, PullFor
<1>2. r = switched_to_rt_ends(s, c, t, FALSE) => PushResult(s, r, c, "switched", t)
  <2>1. FALSE \in BOOLEAN
    OBVIOUS
  <2> QED BY <2>1, SwitchedEnds
<1>3. CASE rt_task(s, t) /\ old < MAX_RT_PRIO
  <2>1. r = prio_changed_rt(s, c, t, old)
    BY <1>3 DEF check_class_changed
  <2>2. CASE k = t
    <3>1. r = pull_rt_task(s, c, "prio", t) \/ r = Pulled(s, c, "prio", t)
      BY <2>1, <2>2 DEF prio_changed_rt
    <3> QED BY <1>1, <1>3, <2>2, <3>1, PullStarts, PulledEnds
  <2>3. CASE k # t
    <3>1. r = switched_to_rt_ends(s, c, t, FALSE)
      BY <2>1, <2>3 DEF prio_changed_rt, switched_to_rt_ends
    <3> QED BY <1>2, <1>3, <2>3, <3>1
  <2> QED BY <2>2, <2>3
<1>4. CASE rt_task(s, t) /\ ~(old < MAX_RT_PRIO)
  <2>1. CASE k = t
    <3>1. r = s
      BY <1>4, <2>1 DEF check_class_changed
    <3>2. Calm(s, r, {})
      BY <3>1, CalmSame
    <3>3. s.task[t].prio \in Int
      <4>1. s \in States
        BY DEF Good
      <4>2. s.task[t].prio \in 0 .. MAX_RT_PRIO
        BY <4>1, StateParts
      <4> QED BY <4>2, PushPullAssumption
    <3>4. ~Urgent(r, c, t)
      BY <2>1, <3>1, <3>3, TaskIs DEF Urgent
    <3>5. PushResult(s, r, c, "switched", t)
      BY <3>1, <3>2, <3>4 DEF PushResult
    <3> QED BY <1>4, <3>5
  <2>2. CASE k # t
    <3>1. \/ r = push_rt_task(s, c, "switched", t, choice)
          \/ r = switched_to_rt_ends(s, c, t, FALSE)
      BY <1>4, <2>2 DEF check_class_changed
    <3> QED BY <1>1, <1>2, <1>4, <3>1, PushTask
  <2> QED BY <2>1, <2>2
<1>5. CASE ~rt_task(s, t)
  <2>1. r = pull_rt_task(s, c, "switched", t) \/ r = Pulled(s, c, "switched", t)
    BY <1>5 DEF check_class_changed
  <2> QED BY <1>1, <1>5, <2>1, PullStarts, PulledEnds
<1> QED BY <1>3, <1>4, <1>5

LEMMA set_prioStep ==
  ASSUME IInv, NEW x \in Contexts, NEW t \in Tasks, NEW new \in Prios, NEW choice,
         set_prio(x, t, new, choice)
  PROVE  IInv'
<1> DEFINE c == task[t].cpu
           old == task[t].prio
           n == NewPrio(Now, t, new)
           p == Requeued(Now, c, t, new)
           r == check_class_changed(p, c, t, old, choice)
<1>1. /\ Good(Now) /\ Now \in States /\ Now.work = NoWork /\ Placed(Now)
      /\ Base(Now, work, unseen, {}) /\ Calls(Now, work, unseen, {})
      /\ Now.rq = rq /\ Now.task = task
      /\ x \in Agents /\ work \in [Agents -> Works] /\ c \in CPUs
      /\ old \in 0 .. MAX_RT_PRIO /\ new \in 0 .. MAX_RT_PRIO
      /\ \A d \in CPUs : Now.rq[d].curr \in Tasks \cup {Idle}
  <2>1. Now \in States /\ Placed(Now)
    BY NowIs DEF Good
  <2>2. \A d \in CPUs : Now.rq[d].curr \in Tasks \cup {Idle}
    BY <2>1, StateParts DEF RQs
  <2> QED BY <2>1, <2>2, NowIs, AgentIs, StateParts, PushPullAssumption
<1>2. /\ work[x] = NoWork /\ new # old /\ Change /\ unseen \subseteq unseen'
      /\ Becomes(x, IF task[t].on_rq THEN r ELSE n)
      /\ new = MAX_RT_PRIO /\ old < MAX_RT_PRIO /\ task[t].on_rq => "demoted" \in unseen'
  <2>1. \A s : [s EXCEPT !.task[t].prio = new] = NewPrio(s, t, new)
    BY DEF NewPrio, WithTask
  <2>2. rt_task(Now, t) = (old < MAX_RT_PRIO)
    BY <1>1, TaskIs
  <2> QED BY <2>1, <2>2 DEF set_prio, Requeued
<1>3. CASE ~task[t].on_rq
  <2>1. /\ Good(n) /\ n.rq = Now.rq /\ n.work = Now.work
        /\ Differ(Now.task, n.task, t)
        /\ n.task[t].cpu = Now.task[t].cpu /\ ~n.task[t].on_rq
    BY <1>1, <1>3, NewPrioIs
  <2>2. Becomes(x, n)
    BY <1>2, <1>3
  <2> HIDE DEF n, p, r
  <2>3. \A a \in Tasks : /\ n.task[a].cpu = Now.task[a].cpu
                         /\ n.task[a].on_rq <=> Now.task[a].on_rq
                         /\ a # t => n.task[a] = Now.task[a]
    BY <1>1, <1>3, <2>1 DEF Differ
  <2>4. Base(n, work, unseen', {})
    <3>1. ASSUME NEW y \in Contexts, work[y].op = "wake"
          PROVE  /\ Off(n, work[y].subject)
                 /\ n.task[work[y].subject].cpu = Now.task[work[y].subject].cpu
      <4>1. work[y].subject \in Tasks /\ Off(Now, work[y].subject)
        BY <1>1, <3>1, WakesOff
      <4> QED BY <4>1, <2>1, <2>3 DEF Off
    <3>2. \A d \in CPUs \ {}, a \in Tasks :
            n.rq[d].curr = a => n.task[a].on_rq \/ Picking(work, d)
      BY <1>1, <2>1, <2>3 DEF Base
    <3> QED BY <1>1, <1>2, <2>1, <3>1, <3>2, BaseSame
  <2>5. Calls(n, work, unseen', {})
    <3> SUFFICES ASSUME NEW d \in CPUs, NEW a \in Tasks, Urgent(n, d, a)
                 PROVE  Excused(work, unseen', d, a)
      BY DEF Calls
    <3>1. a # t
      BY <2>1 DEF Urgent
    <3>2. CASE Now.rq[d].curr = t
      <4>1. Picking(work, d)
        BY <1>1, <1>3, <3>2 DEF Base
      <4>2. d \in Agents /\ WorkOk(d, work[d], Now, unseen)
        BY <1>1, AgentIs DEF Base
      <4>3. work[d].rq = d
        BY <4>1, <4>2, AgentIs DEF WorkOk, Picking, Work
      <4> QED BY <4>1, <4>2, <4>3 DEF Excused, Excuses, Picking
    <3>3. CASE Now.rq[d].curr # t
      <4>1. prio(n, a) = prio(Now, a) /\ prio(n, n.rq[d].curr) = prio(Now, Now.rq[d].curr)
        BY <1>1, <2>1, <2>3, <3>1, <3>3 DEF prio
      <4>2. Urgent(Now, d, a)
        BY <2>1, <2>3, <4>1 DEF Urgent
      <4>3. Excused(work, unseen, d, a)
        BY <1>1, <4>2 DEF Calls
      <4> QED BY <1>2, <4>3 DEF Excused
    <3> QED BY <3>2, <3>3
  <2>6. [work EXCEPT ![x] = n.work] = work
    BY <1>1, <1>2, <2>1
  <2>7. Sound(Now', work', unseen')
    BY <1>1, <2>2, <2>4, <2>5, <2>6, Arrive DEF Sound
  <2> QED BY <1>2, <2>7, ChangeCounted DEF IInv
<1>4. CASE task[t].on_rq
  <2>1. /\ Good(p) /\ Kept(Now, p) /\ Differ(Now.task, p.task, t)
        /\ p.task[t].prio = new /\ p.task[t].on_rq /\ p.task[t].cpu = c
    <3>1. p = Requeued(Now, c, t, new)
      OBVIOUS
    <3>2. Now.task[t].on_rq /\ Now.task[t].cpu = c
      BY <1>1, <1>4
    <3> HIDE DEF p, c, n, r, old
    <3>3. new \in 0 .. MAX_RT_PRIO
      BY <1>1
    <3> QED BY ONLY t \in Tasks, <1>1, <3>1, <3>2, <3>3, Reprioritised
  <2>2. Becomes(x, r)
    BY <1>2, <1>4
  <2> HIDE DEF p
  <2>3. /\ p.work = NoWork
        /\ \A d \in CPUs : /\ p.rq[d].curr = Now.rq[d].curr
                           /\ p.rq[d].need_resched = Now.rq[d].need_resched
        /\ \A a \in Tasks \ {t} : p.task[a] = Now.task[a]
        /\ rt_task(p, t) <=> new < MAX_RT_PRIO
    BY <1>1, <2>1, TaskIs DEF Kept, Differ
  <2>4. \/ /\ rt_task(p, t) /\ (p.rq[c].curr = t => ~(old < MAX_RT_PRIO))
           /\ PushResult(p, r, c, "switched", t)
        \/ rt_task(p, t) /\ p.rq[c].curr = t /\ PullResult(p, r, c, "prio", t)
        \/ ~rt_task(p, t) /\ PullResult(p, r, c, "switched", t)
    <3> HIDE DEF c, old
    <3> QED BY <1>1, <2>1, <2>3, ClassChanged
  <2> HIDE DEF r, n
  <2>5. Base(p, work, unseen', {})
    <3>1. ASSUME NEW y \in Contexts, work[y].op = "wake"
          PROVE  /\ Off(p, work[y].subject)
                 /\ p.task[work[y].subject].cpu = Now.task[work[y].subject].cpu
      <4>1. work[y].subject \in Tasks /\ Off(Now, work[y].subject)
        BY <1>1, <3>1, WakesOff
      <4>2. work[y].subject # t
        BY <1>1, <1>4, <4>1 DEF Off
      <4> QED BY <4>1, <4>2, <2>3 DEF Off
    <3>2. \A d \in CPUs \ {}, a \in Tasks :
            p.rq[d].curr = a => p.task[a].on_rq \/ Picking(work, d)
      BY <1>1, <2>1, <2>3 DEF Base
    <3> QED BY <1>1, <1>2, <2>1, <3>1, <3>2, BaseSame
  <2>6. ASSUME NEW d \in CPUs, NEW a \in Tasks \ {t}, Urgent(p, d, a),
               Now.rq[d].curr = t => new < old
        PROVE  Excused(work, unseen', d, a)
    <3>1. prio(p, a) = prio(Now, a) /\ prio(Now, a) \in Int
      <4>1. a \in Tasks /\ p.task[a] = Now.task[a]
        BY <2>3
      <4>2. Now.task[a].prio \in Int
        BY <1>1, <4>1, StateParts, PushPullAssumption
      <4> QED BY <4>1, <4>2, TaskIs
    <3>2. prio(Now, a) < prio(Now, Now.rq[d].curr)
      <4>1. prio(Now, a) < prio(p, Now.rq[d].curr)
        BY <2>3, <2>6, <3>1 DEF Urgent
      <4>2. CASE Now.rq[d].curr = t
        <5>1. prio(p, t) = new /\ prio(Now, t) = old
          BY <1>1, <2>1, TaskIs
        <5> QED BY <1>1, <2>6, <3>1, <4>1, <4>2, <5>1, PushPullAssumption
      <4>3. CASE Now.rq[d].curr # t
        <5>1. prio(p, Now.rq[d].curr) = prio(Now, Now.rq[d].curr)
          BY <1>1, <2>3, <4>3 DEF prio
        <5> QED BY <4>1, <5>1
      <4> QED BY <4>2, <4>3
    <3>3. Urgent(Now, d, a)
      BY <2>3, <2>6, <3>2 DEF Urgent
    <3>4. Excused(work, unseen, d, a)
      BY <1>1, <3>3 DEF Calls
    <3> QED BY <1>2, <3>4 DEF Excused
  <2>7. \A d \in CPUs : Now.rq[d].curr = t => d = c
    BY <1>1 DEF Placed
  <2>8. Calls(p, work, unseen', {c})
    <3> SUFFICES ASSUME NEW d \in CPUs \ {c}, NEW a \in Tasks, Urgent(p, d, a)
                 PROVE  Excused(work, unseen', d, a)
      BY DEF Calls
    <3>1. a # t /\ Now.rq[d].curr # t
      BY <2>1, <2>7 DEF Urgent
    <3> QED BY <2>6, <3>1
  <2> HIDE DEF c
  <2>9. Sound(r, [work EXCEPT ![x] = r.work], unseen')
    <3>1. PushFor("switched", t) /\ PullFor("prio", t) /\ PullFor("switched", t)
      BY DEF PushFor, PullFor
    <3>2. CASE /\ rt_task(p, t) /\ (p.rq[c].curr = t => ~(old < MAX_RT_PRIO))
               /\ PushResult(p, r, c, "switched", t)
      <4>1. ASSUME NEW d \in CPUs, NEW a \in Tasks, Urgent(p, d, a)
            PROVE  Excused(work, unseen', d, a) \/ (d = c /\ a = t)
        <5>1. CASE a = t
          BY <2>1, <4>1, <5>1 DEF Urgent
        <5>2. CASE a # t
          <6>1. Now.rq[d].curr = t => new < old
            BY <1>1, <2>3, <2>7, <3>2, PushPullAssumption
          <6> QED BY <2>6, <4>1, <5>2, <6>1
        <5> QED BY <5>1, <5>2
      <4> QED BY <1>1, <1>2, <2>5, <3>1, <3>2, <4>1, PushStep
    <3>3. CASE rt_task(p, t) /\ p.rq[c].curr = t /\ PullResult(p, r, c, "prio", t)
      <4>1. Base(p, work, unseen', IF "prio" = "pick" THEN {c} ELSE {})
        BY <2>5
      <4> QED BY <1>1, <1>2, <2>8, <3>1, <3>3, <4>1, PullStep
    <3>4. CASE ~rt_task(p, t) /\ PullResult(p, r, c, "switched", t)
      <4>1. Base(p, work, unseen', IF "switched" = "pick" THEN {c} ELSE {})
        BY <2>5
      <4>2. "demoted" \in unseen'
        BY <1>1, <1>2, <1>4, <2>3, <3>4, PushPullAssumption
      <4> QED BY <1>1, <1>2, <2>8, <3>1, <3>4, <4>1, <4>2, PullStep
    <3> QED BY <2>4, <3>2, <3>3, <3>4
  <2>10. Sound(Now', work', unseen')
    BY <1>1, <2>2, <2>9, Arrive
  <2> QED BY <1>2, <2>10, ChangeCounted DEF IInv
<1> QED BY <1>3, <1>4

-----------------------------------------------------------------------------
LEMMA InitIs ==
  ASSUME Init
  PROVE  IInv
<1> DEFINE q == [curr |-> Idle, need_resched |-> FALSE, queue |-> <<>>,
                 pushable |-> <<>>, next |-> MAX_RT_PRIO, rt_nr_migratory |-> 0,
                 overloaded |-> FALSE, online |-> TRUE, post_schedule |-> FALSE]
<1>1. /\ rq = [c \in CPUs |-> q]
      /\ rd = [rto_mask |-> {}, rto_count |-> 0, cpupri |-> [c \in CPUs |-> MAX_RT_PRIO]]
      /\ work = [a \in Agents |-> NoWork] /\ changes = 0
  BY DEF Init
<1>2. 1 \in CPUs /\ MAX_RT_PRIO \in 0 .. MAX_RT_PRIO
  BY PushPullAssumption DEF CPUs
<1>3. /\ task \in TaskMaps
      /\ \A t \in Tasks : ~task[t].on_rq /\ task[t].allowed = CPUs
  BY <1>2, PushPullAssumption DEF Init, TaskMaps
<1>4. /\ q \in RQs /\ q.queue = <<>> /\ q.pushable = <<>> /\ q.next = MAX_RT_PRIO
      /\ q.rt_nr_migratory = 0 /\ q.overloaded = FALSE /\ q.curr = Idle /\ q.online = TRUE
  BY <1>2 DEF RQs
<1> HIDE DEF q
<1>5. rd \in RDs
  BY <1>1, <1>2 DEF RDs
<1>6. Now \in States /\ \A c \in CPUs : Now.rq[c] = q
  BY <1>1, <1>3, <1>4, <1>5, AgentIs DEF Now, States
<1>7. Now.task = task /\ Now.rd = rd
  BY DEF Now
<1>8. \A c \in CPUs : OnQueue(task, c) = {} /\ RtOn(task, c) = {} /\ Movable(task, c) = {}
  BY <1>3 DEF OnQueue, RtOn, Movable
<1>9. Ordered(task, <<>>, {})
  BY DEF Ordered, QueueHolds
<1>10. IsBest(MAX_RT_PRIO, task, {})
  BY <1>2 DEF IsBest
<1>11. Cardinality({}) = 0
  BY FS_EmptySet
<1>12. ASSUME NEW c \in CPUs
       PROVE  Row(q, task, c) /\ PriOk(rd, q, task, c)
  <2>1. QueueOk(q, task, c)
    BY <1>4, <1>8, <1>9 DEF QueueOk
  <2>2. PushOk(q, task, Movable(task, c) \ {q.curr})
    <3>1. Movable(task, c) \ {q.curr} = {}
      BY <1>8
    <3> QED BY <3>1, <1>4, <1>9, <1>10 DEF PushOk
  <2>3. CountOk(q, task, c)
    <3>1. q.rt_nr_migratory = Cardinality(Movable(task, c))
      BY <1>4, <1>8, <1>11
    <3>2. ~(q.rt_nr_migratory > 0 /\ Cardinality(RtOn(task, c)) > 1)
      BY <1>4
    <3>3. q.overloaded = (q.rt_nr_migratory > 0 /\ Cardinality(RtOn(task, c)) > 1)
      BY ONLY <3>2, <1>4
    <3> QED BY ONLY <3>1, <3>3 DEF CountOk
  <2>4. PriOk(rd, q, task, c)
    BY <1>1, <1>4, <1>8, <1>10 DEF PriOk
  <2> QED BY <2>1, <2>2, <2>3, <2>4 DEF Row
<1>13. MaskOk(Now.rq, Now.rd)
  BY <1>1, <1>4, <1>6, <1>7, <1>11 DEF MaskOk
<1>14. Placed(Now)
  <2>1. \A t \in Tasks : task[t].cpu \in CPUs
    BY <1>3 DEF TaskMaps
  <2> QED BY <2>1, <1>3, <1>4, <1>6, <1>7, PushPullAssumption DEF Placed
<1>15. Good(Now)
  BY <1>6, <1>7, <1>12, <1>13, <1>14 DEF Good
<1> HIDE DEF Now
<1>16. Base(Now, work, unseen, {})
  <2>1. \A x \in Contexts : work[x].op # "wake"
    BY <1>1, AgentIs
  <2>2. \A c \in CPUs, t \in Tasks : Now.rq[c].curr # t
    BY <1>4, <1>6, PushPullAssumption
  <2>3. work \in [Agents -> Works] /\ \A a \in Agents : WorkOk(a, work[a], Now, unseen)
    BY <1>1, AgentIs DEF WorkOk
  <2> QED BY <1>15, <2>1, <2>2, <2>3 DEF Base
<1>17. Calls(Now, work, unseen, {})
  BY <1>3, <1>7 DEF Calls, Urgent
<1> QED BY <1>1, <1>16, <1>17, PushPullAssumption DEF IInv, Sound

LEMMA IInvStep ==
  ASSUME IInv, [Next]_vars
  PROVE  IInv'
<1>1. ASSUME NEW c \in CPUs, schedule_preempt(c) PROVE IInv'
  BY <1>1, schedule_preemptStep
<1>2. ASSUME NEW c \in CPUs, NEW d \in CPUs, post_schedule(c, d) PROVE IInv'
  BY <1>2, post_scheduleStep
<1>3. ASSUME NEW c \in CPUs, set_rq_online(c) PROVE IInv'
  BY <1>3, set_rq_onlineStep
<1>4. ASSUME NEW a \in Agents, PullLocked(a) PROVE IInv'
  BY <1>4, PullLockedStep
<1>5. ASSUME NEW a \in Agents, NEW d \in CPUs, PushLocked(a, d) PROVE IInv'
  BY <1>5, PushLockedStep
<1>6. ASSUME NEW x \in Contexts, NEW d \in CPUs, ttwu_queue(x, d) PROVE IInv'
  BY <1>6, ttwu_queueStep
<1>7. ASSUME NEW c \in CPUs, schedule_sleep(c) PROVE IInv'
  BY <1>7, schedule_sleepStep
<1>8. ASSUME NEW c \in CPUs, set_rq_offline(c) PROVE IInv'
  BY <1>8, set_rq_offlineStep
<1>9. ASSUME NEW x \in Contexts, NEW t \in Tasks, NEW d \in CPUs, try_to_wake_up(x, t, d)
      PROVE  IInv'
  BY <1>9, try_to_wake_upStep
<1>10. ASSUME NEW x \in Contexts, NEW t \in Tasks, NEW mask \in SUBSET CPUs,
              set_cpus_allowed(x, t, mask)
       PROVE  IInv'
  BY <1>10, set_cpus_allowedStep
<1>11. ASSUME NEW x \in Contexts, NEW t \in Tasks, NEW p \in Prios, NEW d \in CPUs,
              set_prio(x, t, p, d)
       PROVE  IInv'
  BY <1>11, set_prioStep
<1>12. CASE UNCHANGED vars
  BY <1>12 DEF vars, IInv, Now
<1>13. CASE Progress
  BY <1>13, <1>1, <1>2, <1>3, <1>4, <1>5, <1>6 DEF Progress
<1>14. CASE Disturb
  BY <1>14, <1>7, <1>8, <1>9, <1>10, <1>11 DEF Disturb
<1> QED BY <1>12, <1>13, <1>14 DEF Next

(* The inductive invariant: what the run queues and the root domain say of *)
(* each other's tasks is right, what agents have still to do is about      *)
(* tasks and CPUs as they are, and a task that waits although it is more   *)
(* important than what its CPU runs is one that somebody will look at.     *)
THEOREM Sounds == Spec => []IInv
<1>1. Init => IInv
  BY InitIs
<1>2. IInv /\ [Next]_vars => IInv'
  BY IInvStep
<1> QED BY <1>1, <1>2, PTL DEF Spec

-----------------------------------------------------------------------------
(* What a state with the invariant is like.                                *)
LEMMA QueuesHold ==
  ASSUME IInv
  PROVE  QueuesInv
<1>1. /\ Good(Now) /\ Now \in States /\ task \in TaskMaps
      /\ Now.rq = rq /\ Now.task = task /\ Now.rd = rd
      /\ rq \in [CPUs -> RQs] /\ rd \in RDs
  <2>1. Now \in States
    BY NowIs DEF Good
  <2> QED BY <2>1, NowIs, StateParts
<1>2. /\ \A c \in CPUs : /\ QueueOk(rq[c], task, c) /\ CountOk(rq[c], task, c)
                         /\ PushOk(rq[c], task, Movable(task, c) \ {rq[c].curr})
      /\ MaskOk(rq, rd)
  BY <1>1 DEF Good, Row
<1>3. ASSUME NEW c \in CPUs
      PROVE  /\ rt_tasks(Now, c) = RtOn(task, c)
             /\ {t \in rt_tasks(Now, c) : nr_cpus_allowed(Now, t) > 1} = Movable(task, c)
  <2>1. Ordered(Now.task, Now.rq[c].queue, OnQueue(task, c))
    BY <1>1, <1>2 DEF QueueOk
  <2>2. rt_tasks(Now, c) = {t \in OnQueue(task, c) : Now.task[t].prio < MAX_RT_PRIO}
    BY <1>1, <2>1, QueueIs
  <2> QED BY <1>1, <2>2 DEF RtOn, Movable, nr_cpus_allowed
<1> HIDE DEF Now
<1>4. \A c \in CPUs : rq[c].rt_nr_migratory = Cardinality(Movable(task, c))
                      /\ rq[c].rt_nr_migratory \in Nat
  BY <1>2, QueuesFinite DEF CountOk
<1>5. rd.rto_count = Cardinality(rd.rto_mask) /\ rd.rto_count \in Nat
  <2>1. rd.rto_mask \subseteq CPUs /\ IsFiniteSet(CPUs)
    BY <1>1, PushPullAssumption, FS_Interval DEF RDs, CPUs
  <2>2. Cardinality(rd.rto_mask) \in Nat
    BY <2>1, FS_Subset, FS_CardinalityType
  <2> QED BY <1>2, <2>2 DEF MaskOk
<1>6. TypeOK
  <2>1. rq \in [CPUs -> RunQueues]
    <3>1. ASSUME NEW c \in CPUs PROVE rq[c] \in RunQueues
      <4>1. rq[c] \in RQs /\ rq[c].rt_nr_migratory \in Nat
        BY <1>1, <1>4
      <4> QED BY <4>1 DEF RQs, RunQueues
    <3> QED BY <1>1, <3>1
  <2>2. rd \in RootDomains
    BY <1>1, <1>5 DEF RDs, RootDomains
  <2> QED BY <1>1, <2>1, <2>2 DEF TypeOK, TaskMaps, IInv
<1>7. PushableExact
  <2> SUFFICES ASSUME NEW c \in CPUs
               PROVE  /\ ToSet(rq[c].pushable) =
                           {t \in rt_tasks(Now, c) : /\ rq[c].curr # t
                                                     /\ nr_cpus_allowed(Now, t) > 1}
                      /\ rq[c].next = Min({prio(Now, t) : t \in ToSet(rq[c].pushable)}
                                            \cup {MAX_RT_PRIO})
    BY DEF PushableExact
  <2> DEFINE W == Movable(task, c) \ {rq[c].curr}
             S == {prio(Now, t) : t \in ToSet(rq[c].pushable)} \cup {MAX_RT_PRIO}
             v == rq[c].next
  <2>1. ToSet(rq[c].pushable) = W /\ W \subseteq Tasks /\ IsBest(v, task, W)
    BY <1>2, OrderedIn DEF PushOk
  <2>2. W = {t \in rt_tasks(Now, c) : rq[c].curr # t /\ nr_cpus_allowed(Now, t) > 1}
    BY <1>3
  <2> HIDE DEF W
  <2>3. S = {task[t].prio : t \in W} \cup {MAX_RT_PRIO}
    BY <1>1, <2>1, TaskIs
  <2> HIDE DEF S, v
  <2>4. v \in S /\ \A y \in S : v <= y
    BY <2>1, <2>3, PushPullAssumption DEF IsBest
  <2>5. S \in SUBSET Nat /\ S # {}
    <3>1. \A t \in W : task[t].prio \in Nat
      BY <1>1, <2>1, PriosAre, PushPullAssumption
    <3> QED BY <3>1, <2>3, PushPullAssumption
  <2>6. v = Min(S)
    <3>1. Min(S) \in S /\ \A y \in S : Min(S) <= y
      BY <2>5, MinIs
    <3>2. v <= Min(S) /\ Min(S) <= v /\ v \in Nat /\ Min(S) \in Nat
      BY <2>4, <2>5, <3>1
    <3> QED BY <3>2
  <2> QED BY <2>1, <2>2, <2>6 DEF S, v
<1>8. OverloadExact
  <2>1. ASSUME NEW c \in CPUs
        PROVE  /\ rq[c].rt_nr_migratory =
                    Cardinality({t \in rt_tasks(Now, c) : nr_cpus_allowed(Now, t) > 1})
               /\ rd.cpupri[c] = IF rq[c].online THEN highest_prio(Now, c) ELSE None
    BY <1>1, <1>3, <1>4, PrevIs
  <2>2. ASSUME NEW c \in CPUs
        PROVE  rq[c].overloaded <=> /\ rq[c].rt_nr_migratory > 0
                                    /\ rt_nr_running(Now, c) > 1
    BY <1>2, <1>3 DEF CountOk, rt_nr_running
  <2>3. rd.rto_mask = {c \in CPUs : /\ rq[c].online
                                    /\ rq[c].rt_nr_migratory > 0
                                    /\ rt_nr_running(Now, c) > 1}
    BY <1>2, <2>2 DEF MaskOk
  <2> QED BY <1>5, <2>1, <2>3 DEF OverloadExact
<1> QED BY <1>6, <1>7, <1>8 DEF QueuesInv

LEMMA PlacedHolds ==
  ASSUME IInv
  PROVE  RunsWhereQueued
<1>1. /\ Good(Now) /\ Now \in States /\ Now.rq = rq /\ Now.task = task
      /\ Placed(Now)
  BY NowIs DEF Good
<1> SUFFICES ASSUME NEW t \in Tasks
             PROVE  /\ \A c \in CPUs : rq[c].curr = t => task[t].cpu = c
                    /\ task[t].on_rq =>
                         /\ task[t].cpu \in task[t].allowed
                         /\ \A c \in CPUs : t \in ToSet(rq[c].queue) <=> c = task[t].cpu
  BY DEF RunsWhereQueued
<1>2. ASSUME NEW c \in CPUs PROVE ToSet(rq[c].queue) = OnQueue(task, c)
  BY <1>1, OrderedIn DEF Good, Row, QueueOk
<1> HIDE DEF Now
<1> QED BY <1>1, <1>2 DEF Placed, OnQueue

LEMMA OrderHolds ==
  ASSUME IInv
  PROVE  LocalOrder
<1>1. /\ Good(Now) /\ Now \in States /\ Now.rq = rq /\ Now.task = task
      /\ task \in TaskMaps
      /\ Calls(Now, work, unseen, {})
      /\ \A a \in Agents : WorkOk(a, work[a], Now, unseen)
  <2>1. Now \in States
    BY NowIs DEF Good
  <2> QED BY <2>1, NowIs, StateParts
<1> SUFFICES ASSUME unseen \cap {"demoted", "left"} = {}, NEW c \in CPUs, Waits(c)
             PROVE  FALSE
  BY DEF LocalOrder
<1> DEFINE h == Head(rq[c].queue)
           k == rq[c].curr
<1>2. h \in OnQueue(task, c)
  <2>1. Ordered(task, rq[c].queue, OnQueue(task, c))
    BY <1>1 DEF Good, Row, QueueOk
  <2> QED BY <1>1, <2>1, HeadBest DEF Waits
<1>3. h \in Tasks /\ task[h].on_rq /\ task[h].cpu = c
  BY <1>2 DEF OnQueue
<1>4. prio(Now, k) > prio(Now, h) /\ ~rq[c].need_resched
  BY DEF Waits, AtRest
<1> HIDE DEF h, Now
<1>5. Urgent(Now, c, h)
  <2>1. prio(Now, h) \in Int
    BY <1>1, <1>3, TaskIs, PriosAre
  <2>2. k \in Tasks \cup {Idle}
    BY <1>1, StateParts DEF RQs
  <2>3. prio(Now, k) \in Int
    <3>1. CASE k \in Tasks
      BY <1>1, <3>1, TaskIs, PriosAre
    <3>2. CASE k = Idle
      BY <3>2, PushPullAssumption DEF prio
    <3> QED BY <2>2, <3>1, <3>2
  <2>4. prio(Now, h) < prio(Now, k)
    BY <1>4, <2>1, <2>3
  <2> QED BY <1>1, <1>3, <1>4, <2>4 DEF Urgent
<1>6. PICK a \in Agents : Excuses(work[a], c, h)
  BY <1>1, <1>3, <1>5 DEF Calls, Excused
<1>7. work[c] = NoWork /\ \A x \in Contexts : work[x] = NoWork
  BY DEF Waits, AtRest
<1>8. a \notin Contexts /\ a # c
  BY <1>6, <1>7, AgentIs
<1>9. WorkOk(a, work[a], Now, unseen) /\ work[a] # NoWork
  BY <1>1, <1>6, AgentIs
<1>10. work[a].rq = c /\ \/ work[a].op = "pull" /\ work[a].then \in {"pick", "prio"}
                         \/ work[a].op = "push" /\ work[a].then = "switched"
  BY <1>6 DEF Excuses
<1>11. \A n : Work("post", n, None, 1, 0, "loop", None).op = "post"
  BY DEF Work
<1> QED BY <1>8, <1>9, <1>10, <1>11 DEF WorkOk

-----------------------------------------------------------------------------
(* Whoever drops a run queue lock to take another, the pushable tasks of a *)
(* CPU and the best of their priorities, which pull_rt_task reads without  *)
(* a lock, are what the queue says, and so are rto_mask, rto_count and     *)
(* cpupri.                                                                 *)
THEOREM QueuesExact == Spec => []QueuesInv
BY Sounds, QueuesHold, PTL

(* No push or pull moves a task that runs, leaves a task on two queues or  *)
(* none, or puts it on a CPU that its mask excludes by then.               *)
THEOREM RunWhereQueued == Spec => []RunsWhereQueued
BY Sounds, PlacedHolds, PTL

(* A CPU that is not at work runs the most important task of its queue or  *)
(* is told to reschedule, but for the two cases that LocalOrder names.     *)
THEOREM LocallyOrdered == Spec => []LocalOrder
BY Sounds, OrderHolds, PTL

-----------------------------------------------------------------------------
(* The other one of two CPUs.                                              *)
Peer(c) == 3 - c

LEMMA TwoCPUs ==
  ASSUME N = 2
  PROVE  \A c \in CPUs : /\ Peer(c) \in CPUs /\ Peer(c) # c /\ Peer(Peer(c)) = c
                         /\ \A d \in CPUs : d # c => d = Peer(c)
                         /\ CPUs = {c, Peer(c)}
BY DEF CPUs, Peer

(* The priority of what c runs.                                            *)
Level(s, c) == prio(s, s.rq[c].curr)

(* The tasks that wait on c and may be pushed or pulled.                   *)
Waiting(s, c) == Movable(s.task, c) \ {s.rq[c].curr}

(* t waits behind what c runs, and could run on the other CPU.             *)
Loose(s, c, t) ==
  /\ t \in Waiting(s, c)
  /\ ~s.rq[c].need_resched
  /\ Level(s, c) <= s.task[t].prio
  /\ \A u \in OnQueue(s.task, Peer(c)) : s.task[t].prio < s.task[u].prio

(* The task that w pushes is no less important than t, if it waits.        *)
First(w, s, c, t) ==
  w.task \in Waiting(s, c) => s.task[w.task].prio <= s.task[t].prio

(* w will see to t, which is more important than what c runs: c will       *)
(* reschedule.                                                             *)
Summons(w, s, c, t) ==
  /\ w.rq = c
  /\ \/ w.op = "pull" /\ w.then \in {"pick", "prio"}
     \/ /\ w.op = "push" /\ w.then = "switched" /\ w.subject = t
        /\ First(w, s, c, t)

(* w will see to t, which is loose: it is pushed, or pulled, or something  *)
(* better is, or c reschedules first.                                      *)
Takes(w, s, c, t) ==
  \/ w.op = "push" /\ w.rq = c /\ (w.then = "loop" \/ First(w, s, c, t))
  \/ w.op = "pull" /\ w.rq # c
  \/ w.op = "pull" /\ w.rq = c /\ w.then = "pick"
  \/ /\ w.op = "pull" /\ w.rq = c /\ w.then = "prio"
     /\ w.subject = s.rq[c].curr =>
          \E u \in OnQueue(s.task, c) : s.task[u].prio < Level(s, c)
  \/ w.op = "post" /\ w.rq = c

(* Every task that waits on c and should not is seen to by somebody.       *)
Settled(s, W, c) ==
  \A t \in Waiting(s, c) :
    /\ Urgent(s, c, t) => \E a \in Agents : Summons(W[a], s, c, t)
    /\ Loose(s, c, t) => \E a \in Agents : Takes(W[a], s, c, t)

LEMMA WaitingIs ==
  ASSUME NEW s, Good(s), NEW c \in CPUs
  PROVE  /\ Level(s, c) \in Int
         /\ s.task \in TaskMaps
         /\ \A t \in Tasks : s.task[t].prio \in Int
         /\ \A u \in OnQueue(s.task, c) : u \in Tasks
         /\ \A t \in Waiting(s, c) :
              /\ t \in Tasks /\ t \in OnQueue(s.task, c) /\ t \in RtOn(s.task, c)
              /\ t \in Movable(s.task, c)
              /\ s.task[t].on_rq /\ s.task[t].cpu = c
              /\ s.task[t].prio < MAX_RT_PRIO
              /\ Cardinality(s.task[t].allowed) > 1
              /\ s.rq[c].curr # t
<1>1. s \in States /\ s.task \in TaskMaps /\ s.rq[c].curr \in Tasks \cup {Idle}
  BY StateParts DEF Good, RQs
<1>2. \A t \in Tasks : s.task[t].prio \in Int
  BY <1>1, PriosAre
<1>3. Level(s, c) \in Int
  BY <1>1, <1>2, PushPullAssumption DEF Level, prio
<1> QED BY <1>1, <1>2, <1>3 DEF Waiting, Movable, RtOn, OnQueue

(* What c runs while a task is loose on it is a real-time task.            *)
LEMMA Runner ==
  ASSUME NEW s, Good(s), NEW c \in CPUs, NEW t \in Waiting(s, c),
         Level(s, c) <= s.task[t].prio
  PROVE  LET k == s.rq[c].curr
         IN  /\ k \in Tasks /\ k # Idle /\ k # t /\ rt_task(s, k)
             /\ s.task[k].prio = Level(s, c) /\ s.task[k].cpu = c
             /\ s.task[k].prio < MAX_RT_PRIO
             /\ s.task[k].on_rq => k \in RtOn(s.task, c)
<1> DEFINE k == s.rq[c].curr
<1>1. s \in States /\ k \in Tasks \cup {Idle} /\ Placed(s)
  BY StateParts DEF Good, RQs
<1>2. /\ Level(s, c) \in Int /\ s.task[t].prio \in Int /\ s.task[t].prio < MAX_RT_PRIO
      /\ k # t
  BY WaitingIs
<1>3. k # Idle
  BY <1>2, PushPullAssumption DEF Level, prio
<1>4. k \in Tasks /\ s.task[k].prio = Level(s, c) /\ s.task[k].cpu = c
  BY <1>1, <1>3, TaskIs DEF Level, Placed
<1>5. s.task[k].prio < MAX_RT_PRIO
  BY <1>2, <1>4, PushPullAssumption
<1>6. rt_task(s, k)
  BY <1>4, <1>5, TaskIs
<1> QED BY <1>2, <1>3, <1>4, <1>5, <1>6 DEF RtOn, OnQueue

(* A CPU where two real-time tasks are queued, one of which may move, is   *)
(* overloaded.                                                             *)
LEMMA Overloaded ==
  ASSUME NEW s, Good(s), NEW c \in CPUs, NEW t \in Movable(s.task, c),
         NEW u \in RtOn(s.task, c), u # t
  PROVE  s.rq[c].overloaded /\ Cardinality(RtOn(s.task, c)) > 1
<1>1. /\ IsFiniteSet(RtOn(s.task, c)) /\ IsFiniteSet(Movable(s.task, c))
      /\ Cardinality(RtOn(s.task, c)) \in Nat /\ Cardinality(Movable(s.task, c)) \in Nat
  BY QueuesFinite
<1>2. Cardinality(Movable(s.task, c)) > 0
  <2>1. Cardinality(Movable(s.task, c)) # 0
    BY <1>1, FS_EmptySet
  <2> QED BY <1>1, <2>1
<1>3. Cardinality(RtOn(s.task, c)) > 1
  <2>1. t \in RtOn(s.task, c)
    BY DEF Movable
  <2>2. {t, u} \subseteq RtOn(s.task, c)
    BY <2>1
  <2>3. Cardinality({t, u}) = 2
    <3>1. Cardinality({t}) = 1 /\ IsFiniteSet({t})
      BY FS_Singleton
    <3>2. Cardinality({t} \cup {u}) = Cardinality({t}) + 1
      BY <3>1, FS_AddElement
    <3>3. {t} \cup {u} = {t, u}
      OBVIOUS
    <3> QED BY <3>1, <3>2, <3>3
  <2>4. Cardinality({t, u}) <= Cardinality(RtOn(s.task, c))
    BY <1>1, <2>2, FS_Subset
  <2> QED BY <1>1, <2>3, <2>4
<1>4. CountOk(s.rq[c], s.task, c)
  BY DEF Good, Row
<1> QED BY <1>2, <1>3, <1>4 DEF CountOk

(* What is more important than every task of c is so by highest_prio.      *)
LEMMA Above ==
  ASSUME NEW s, Good(s), NEW c \in CPUs
  PROVE  /\ highest_prio(s, c) \in 0 .. MAX_RT_PRIO /\ highest_prio(s, c) \in Int
         /\ IsBest(highest_prio(s, c), s.task, OnQueue(s.task, c))
         /\ \A u \in OnQueue(s.task, c) : highest_prio(s, c) <= s.task[u].prio
         /\ \A n \in Int : n < MAX_RT_PRIO =>
              (n < highest_prio(s, c) <=> \A u \in OnQueue(s.task, c) : n < s.task[u].prio)
<1>1. s \in States /\ QueueOk(s.rq[c], s.task, c)
  BY DEF Good, Row
<1>2. IsBest(highest_prio(s, c), s.task, OnQueue(s.task, c))
  BY <1>1, QueueIs DEF QueueOk
<1>3. \A u \in OnQueue(s.task, c) : s.task[u].prio \in Int
  BY WaitingIs
<1> DEFINE h == highest_prio(s, c)
<1>4. /\ h \in 0 .. MAX_RT_PRIO /\ h \in Int /\ MAX_RT_PRIO \in Int
      /\ h = MAX_RT_PRIO \/ \E u \in OnQueue(s.task, c) : s.task[u].prio = h
      /\ \A u \in OnQueue(s.task, c) : h <= s.task[u].prio
  BY <1>2, PushPullAssumption DEF IsBest
<1> HIDE DEF h
<1>5. ASSUME NEW n \in Int, n < MAX_RT_PRIO
      PROVE  n < h <=> \A u \in OnQueue(s.task, c) : n < s.task[u].prio
  BY <1>3, <1>4, <1>5
<1> QED BY <1>2, <1>4, <1>5 DEF h

-----------------------------------------------------------------------------
(* From s to r no task comes to wait on c, and c runs what it ran.         *)
Leaves(s, r, c) ==
  /\ r.rq[c].curr = s.rq[c].curr
  /\ s.rq[c].need_resched => r.rq[c].need_resched
  /\ Level(r, c) = Level(s, c)
  /\ Waiting(r, c) \subseteq Waiting(s, c)
  /\ \A t \in Waiting(r, c) : r.task[t].prio = s.task[t].prio

(* None comes to be loose either, and nothing is lost of what counts for   *)
(* the ones that are.                                                      *)
Eases(s, r, c) ==
  /\ Leaves(s, r, c)
  /\ \A t : Loose(r, c, t) => Loose(s, c, t)
  /\ \A t : Loose(r, c, t) =>
       \A u \in OnQueue(s.task, c) : s.task[u].prio < s.task[t].prio =>
         u \in OnQueue(r.task, c) /\ r.task[u].prio = s.task[u].prio

LEMMA EasesTwice ==
  ASSUME NEW s, NEW m, NEW r, NEW c, Eases(s, m, c), Eases(m, r, c)
  PROVE  Eases(s, r, c)
<1>1. \A t : Loose(r, c, t) => Loose(m, c, t) /\ Loose(s, c, t) /\ t \in Waiting(r, c)
                               /\ t \in Waiting(m, c)
  BY DEF Eases, Leaves, Loose
<1>2. ASSUME NEW t, Loose(r, c, t), NEW u \in OnQueue(s.task, c), s.task[u].prio < s.task[t].prio
      PROVE  u \in OnQueue(r.task, c) /\ r.task[u].prio = s.task[u].prio
  <2>1. u \in OnQueue(m.task, c) /\ m.task[u].prio = s.task[u].prio
    BY <1>1, <1>2 DEF Eases, Leaves
  <2>2. m.task[t].prio = s.task[t].prio
    BY <1>1, <1>2 DEF Eases, Leaves
  <2> QED BY <1>2, <2>1, <2>2 DEF Eases, Leaves
<1> QED BY <1>1, <1>2 DEF Eases, Leaves

LEMMA LeavesTwice ==
  ASSUME NEW s, NEW m, NEW r, NEW c, Leaves(s, m, c), Leaves(m, r, c)
  PROVE  Leaves(s, r, c)
BY DEF Leaves

(* It does if the tasks stay as they are.                                  *)
LEMMA EasesSame ==
  ASSUME NEW s, NEW r, NEW c \in CPUs, r.task = s.task, r.rq[c].curr = s.rq[c].curr,
         s.rq[c].need_resched => r.rq[c].need_resched
  PROVE  Eases(s, r, c) /\ Waiting(r, c) = Waiting(s, c) /\ Level(r, c) = Level(s, c)
<1>1. Level(r, c) = Level(s, c)
  BY DEF Level, prio
<1>2. Waiting(r, c) = Waiting(s, c)
  BY DEF Waiting
<1>3. \A t : Loose(r, c, t) => Loose(s, c, t)
  BY <1>1, <1>2 DEF Loose
<1> QED BY <1>1, <1>2, <1>3 DEF Eases, Leaves

(* Then who saw to a task still does.                                      *)
LEMMA CarriedSummons ==
  ASSUME NEW s, Good(s), NEW r, NEW c \in CPUs, Leaves(s, r, c), NEW w,
         NEW t \in Waiting(r, c)
  PROVE  /\ Urgent(r, c, t) => t \in Waiting(s, c) /\ Urgent(s, c, t)
         /\ Summons(w, s, c, t) => Summons(w, r, c, t)
<1>1. ASSUME Urgent(r, c, t) PROVE t \in Waiting(s, c) /\ Urgent(s, c, t)
  <2>1. t \in Waiting(s, c) /\ r.task[t].prio = s.task[t].prio
    BY <1>1 DEF Leaves
  <2>2. t \in Tasks /\ s.task[t].on_rq /\ s.task[t].cpu = c
    BY <2>1, WaitingIs
  <2>3. s.task[t].prio < Level(s, c)
    BY <1>1, <2>1, <2>2, TaskIs DEF Urgent, Leaves, Level
  <2> QED BY <1>1, <2>1, <2>2, <2>3, TaskIs DEF Urgent, Leaves, Level
<1>2. First(w, s, c, t) => First(w, r, c, t)
  BY DEF First, Leaves
<1> QED BY <1>1, <1>2 DEF Summons

LEMMA Carried ==
  ASSUME NEW s, Good(s), NEW r, Good(r), NEW c \in CPUs, Eases(s, r, c), NEW w, NEW t
  PROVE  /\ t \in Waiting(r, c) /\ Urgent(r, c, t) =>
              t \in Waiting(s, c) /\ Urgent(s, c, t)
         /\ t \in Waiting(r, c) /\ Summons(w, s, c, t) => Summons(w, r, c, t)
         /\ Loose(r, c, t) /\ Takes(w, s, c, t) => Takes(w, r, c, t)
<1>1. Leaves(s, r, c)
  BY DEF Eases
<1>2. ASSUME t \in Waiting(r, c), First(w, s, c, t) PROVE First(w, r, c, t)
  BY <1>2 DEF First, Eases, Leaves
<1>3. ASSUME Loose(r, c, t), Takes(w, s, c, t) PROVE Takes(w, r, c, t)
  <2>1. t \in Waiting(r, c) /\ t \in Waiting(s, c) /\ Loose(s, c, t)
    BY <1>3 DEF Loose, Eases, Leaves
  <2>2. ASSUME NEW u \in OnQueue(s.task, c), s.task[u].prio < Level(s, c)
        PROVE  u \in OnQueue(r.task, c) /\ r.task[u].prio < Level(r, c)
    <3>1. /\ s.task[u].prio \in Int /\ Level(s, c) \in Int /\ s.task[t].prio \in Int
          /\ Level(s, c) <= s.task[t].prio
      BY <2>1, WaitingIs DEF Loose
    <3>2. s.task[u].prio < s.task[t].prio
      BY <2>2, <3>1
    <3> QED BY <1>3, <2>2, <3>2 DEF Eases, Leaves
  <2>3. r.rq[c].curr = s.rq[c].curr
    BY DEF Eases, Leaves
  <2> QED BY <1>2, <1>3, <2>1, <2>2, <2>3 DEF Takes
<1> QED BY <1>1, <1>3, CarriedSummons

(* The agent a answers for what it does to c, and for what it had taken    *)
(* upon itself.                                                            *)
Answers(s, W, a, r, W2, c) ==
  /\ Eases(s, r, c)
  /\ \A t \in Waiting(r, c) : Urgent(r, c, t) /\ Summons(W[a], s, c, t) =>
       \E b \in Agents : Summons(W2[b], r, c, t)
  /\ \A t : Loose(r, c, t) /\ Takes(W[a], s, c, t) =>
       \E b \in Agents : Takes(W2[b], r, c, t)

(* So c stays settled.                                                     *)
LEMMA StaysSettled ==
  ASSUME NEW s, Good(s), NEW r, Good(r), NEW c \in CPUs,
         NEW W \in [Agents -> Works], Settled(s, W, c), NEW a \in Agents, NEW w,
         NEW W2, W2 = [W EXCEPT ![a] = w], Answers(s, W, a, r, W2, c)
  PROVE  Settled(r, W2, c)
<1> USE DEF Answers
<1>1. \A b \in Agents \ {a} : W2[b] = W[b]
  OBVIOUS
<1>2. ASSUME NEW t \in Waiting(r, c), Urgent(r, c, t)
      PROVE  \E b \in Agents : Summons(W2[b], r, c, t)
  <2>1. PICK b \in Agents : Summons(W[b], s, c, t)
    BY <1>2, Carried DEF Settled
  <2>2. CASE b = a
    BY <1>2, <2>1, <2>2
  <2>3. CASE b # a
    <3>1. Summons(W[b], r, c, t)
      BY <1>2, <2>1, Carried
    <3> QED BY <1>1, <2>3, <3>1
  <2> QED BY <2>2, <2>3
<1>3. ASSUME NEW t \in Waiting(r, c), Loose(r, c, t)
      PROVE  \E b \in Agents : Takes(W2[b], r, c, t)
  <2>1. t \in Waiting(s, c) /\ Loose(s, c, t)
    BY <1>3 DEF Eases, Leaves
  <2>2. PICK b \in Agents : Takes(W[b], s, c, t)
    BY <2>1 DEF Settled
  <2>3. CASE b = a
    BY <1>3, <2>2, <2>3
  <2>4. CASE b # a
    <3>1. Takes(W[b], r, c, t)
      BY <1>3, <2>2, Carried
    <3> QED BY <1>1, <2>4, <3>1
  <2> QED BY <2>3, <2>4
<1> QED BY <1>2, <1>3 DEF Settled

(* A CPU that picks, or is to reschedule, is.                              *)
LEMMA PickingSettled ==
  ASSUME NEW s, NEW W, NEW c \in CPUs,
         s.rq[c].need_resched \/ (Picking(W, c) /\ W[c].rq = c)
  PROVE  Settled(s, W, c)
<1>1. c \in Agents
  BY AgentIs
<1>2. CASE s.rq[c].need_resched
  BY <1>2 DEF Settled, Urgent, Loose
<1>3. CASE Picking(W, c) /\ W[c].rq = c
  BY <1>1, <1>3 DEF Settled, Summons, Takes, Picking
<1> QED BY <1>2, <1>3

(* Two states with the same run queues and tasks.                          *)
LEMMA SettledView ==
  ASSUME NEW r, NEW r2, r2.rq = r.rq, r2.task = r.task, NEW W, NEW c, Settled(r, W, c)
  PROVE  Settled(r2, W, c)
<1>1. Level(r2, c) = Level(r, c) /\ Waiting(r2, c) = Waiting(r, c)
  BY DEF Level, prio, Waiting
<1>2. \A t : Urgent(r2, c, t) => Urgent(r, c, t)
  BY DEF Urgent, prio
<1>3. \A t : Loose(r2, c, t) => Loose(r, c, t)
  BY <1>1 DEF Loose
<1>4. \A w, t : /\ Summons(w, r, c, t) => Summons(w, r2, c, t)
                /\ Takes(w, r, c, t) => Takes(w, r2, c, t)
  BY <1>1 DEF Summons, Takes, First
<1> QED BY <1>1, <1>2, <1>3, <1>4 DEF Settled

-----------------------------------------------------------------------------
AllOn(s) == \A c \in CPUs : s.rq[c].online

(* The other CPU is found for a task that could run there, and not here.   *)
LEMMA FindPeer ==
  ASSUME N = 2, NEW s, Good(s), AllOn(s), NEW c \in CPUs, NEW t \in Waiting(s, c),
         Level(s, c) <= s.task[t].prio, s.task[s.rq[c].curr].on_rq,
         \A u \in OnQueue(s.task, Peer(c)) : s.task[t].prio < s.task[u].prio,
         NEW choice
  PROVE  find_lowest_rq(s, t, choice) = Peer(c)
<1> DEFINE d == Peer(c)
           n == s.task[t].prio
           m == cpupri_find(s, t)
           P == s.rd.cpupri
<1>1. d \in CPUs /\ d # c /\ CPUs = {c, d} /\ CPUs \subseteq Nat
  BY TwoCPUs DEF CPUs
<1>2. /\ t \in Tasks /\ s.task[t].cpu = c /\ n \in Int /\ n < MAX_RT_PRIO
      /\ Cardinality(s.task[t].allowed) > 1 /\ prio(s, t) = n
  BY WaitingIs, TaskIs
<1>3. s \in States /\ s.task[t].allowed \subseteq CPUs
  BY <1>2, StateParts DEF Good
<1>4. s.task[t].allowed = CPUs
  <2>1. c \in s.task[t].allowed
    BY <1>2 DEF Good, Placed
  <2>2. d \notin s.task[t].allowed => s.task[t].allowed = {c}
    BY <1>1, <1>3, <2>1
  <2>3. s.task[t].allowed # {c}
    <3> SUFFICES ASSUME s.task[t].allowed = {c} PROVE FALSE
      OBVIOUS
    <3>1. Cardinality({c}) = 1
      BY FS_Singleton
    <3>2. Cardinality(s.task[t].allowed) = 1
      BY <3>1
    <3> QED BY <1>2, <3>2
  <2>4. d \in s.task[t].allowed
    BY <2>2, <2>3
  <2> HIDE DEF d
  <2> QED BY <1>1, <1>3, <2>1, <2>4
<1>5. \A e \in CPUs : P[e] = highest_prio(s, e) /\ P[e] # None /\ P[e] \in Int
  <2> SUFFICES ASSUME NEW e \in CPUs
               PROVE  P[e] = highest_prio(s, e) /\ P[e] # None /\ P[e] \in Int
    OBVIOUS
  <2>1. P[e] = highest_prio(s, e)
    BY PrevIs DEF AllOn
  <2>2. highest_prio(s, e) \in 0 .. MAX_RT_PRIO /\ highest_prio(s, e) \in Int
    BY Above
  <2>3. highest_prio(s, e) # None
    BY <2>2, NoneAssumption, PushPullAssumption
  <2> QED BY <2>1, <2>2, <2>3
<1>6. n < P[d]
  BY <1>1, <1>2, <1>5, Above
<1>7. P[c] <= n
  <2>1. s.rq[c].curr \in RtOn(s.task, c) /\ s.task[s.rq[c].curr].prio = Level(s, c)
    BY Runner
  <2>2. s.rq[c].curr \in OnQueue(s.task, c)
    BY <2>1 DEF RtOn
  <2>3. highest_prio(s, c) <= Level(s, c) /\ highest_prio(s, c) \in Int /\ Level(s, c) \in Int
    BY <2>1, <2>2, Above, WaitingIs
  <2> QED BY <1>2, <1>5, <2>3
<1> HIDE DEF d, n, P
<1>8. m = {d}
  <2>1. m = {e \in CPUs : P[e] > n /\ \A f \in CPUs : P[f] <= P[e]}
    BY <1>2, <1>4, <1>5 DEF cpupri_find, P
  <2>2. ~(P[c] > n)
    BY <1>2, <1>5, <1>7
  <2>3. P[d] > n /\ \A f \in {c, d} : P[f] <= P[d]
    BY <1>1, <1>2, <1>5, <1>6, <1>7
  <2> HIDE DEF m
  <2> QED BY <1>1, <2>1, <2>2, <2>3
<1>9. Min({d}) = d
  <2>1. {d} \in SUBSET Nat /\ {d} # {}
    BY <1>1
  <2> QED BY <2>1, MinIs
<1>10. ~(nr_cpus_allowed(s, t) = 1)
  <2>1. Cardinality(s.task[t].allowed) > 1 => Cardinality(s.task[t].allowed) # 1
    OBVIOUS
  <2> QED BY <1>2, <2>1 DEF nr_cpus_allowed
<1> HIDE DEF m
<1>11. c \notin m /\ m # {} /\ Min(m) = d /\ (choice \in m => choice = d)
  BY <1>1, <1>8, <1>9
<1> QED BY <1>2, <1>10, <1>11 DEF find_lowest_rq, m, d

(* Pushing from c leaves the tasks and what runs as they are, ...          *)
Stays(s, r, c) ==
  /\ r.task = s.task
  /\ \A d \in CPUs : /\ r.rq[d].curr = s.rq[d].curr
                     /\ s.rq[d].need_resched => r.rq[d].need_resched
  /\ \A d \in CPUs \ {c} : r.rq[d].need_resched => s.rq[d].need_resched

(* ... and what is pushed next is the best that waits.                     *)
Sends(s, r, c, then, subject) ==
  /\ Good(r)
  /\ Stays(s, r, c)
  /\ \/ r.work = NoWork
     \/ /\ r.work \in Works /\ r.work.op = "push" /\ r.work.rq = c
        /\ r.work.then = then /\ r.work.subject = subject
        /\ \A t \in Waiting(s, c) : s.task[r.work.task].prio <= s.task[t].prio

LEMMA StaysTwice ==
  ASSUME NEW s, NEW m, NEW r, NEW c, Stays(s, m, c), Stays(m, r, c)
  PROVE  Stays(s, r, c)
BY DEF Stays

LEMMA ReschedStays ==
  ASSUME NEW s, Good(s), NEW c \in CPUs, NEW r, r = resched_task(s, c)
  PROVE  /\ Good(r) /\ Stays(s, r, c) /\ r.work = s.work /\ r.rq[c].need_resched
         /\ \A d \in CPUs : r.rq[d].online = s.rq[d].online
<1> DEFINE v == [s.rq[c] EXCEPT !.need_resched = TRUE]
<1>1. s \in States /\ s.rq[c] \in RQs
  BY StateParts DEF Good
<1>2. v \in RQs /\ v.need_resched = TRUE /\ v.curr = s.rq[c].curr /\ v.online = s.rq[c].online
  BY <1>1 DEF RQs
<1>3. r = WithRq(s, c, v)
  BY <1>1, StateParts DEF resched_task, WithRq
<1> HIDE DEF v
<1>4. /\ r.rq[c] = v /\ \A d \in CPUs \ {c} : r.rq[d] = s.rq[d]
      /\ r.task = s.task /\ r.work = s.work
  BY <1>1, <1>2, <1>3, ChangeRq
<1>5. Good(r)
  BY Resched
<1> QED BY <1>2, <1>4, <1>5 DEF Stays

LEMMA NotPushedStays ==
  ASSUME NEW s, Good(s), s.work = NoWork, NEW c \in CPUs, NEW then, NEW subject,
         NEW r, r = NotPushed(s, c, then, subject)
  PROVE  Good(r) /\ Stays(s, r, c) /\ r.work = NoWork
<1>1. r = s \/ r = resched_task(s, c)
  BY DEF NotPushed, switched_to_rt_ends
<1> QED BY <1>1, ReschedStays DEF Stays

(* The head of the pushable tasks is the best that waits.                  *)
LEMMA HeadWaits ==
  ASSUME NEW s, Good(s), NEW c \in CPUs
  PROVE  /\ s.rq[c].pushable = <<>> <=> Waiting(s, c) = {}
         /\ s.rq[c].pushable # <<>> =>
              /\ Head(s.rq[c].pushable) \in Waiting(s, c)
              /\ \A t \in Waiting(s, c) : s.task[Head(s.rq[c].pushable)].prio <= s.task[t].prio
<1>1. s.task \in TaskMaps
  BY StateParts DEF Good
<1>2. Ordered(s.task, s.rq[c].pushable, Waiting(s, c))
  BY DEF Good, Row, PushOk, Waiting
<1> QED BY <1>1, <1>2, HeadBest, OrderedIn

(* push_rt_task from retry, with the head of the pushable tasks.           *)
LEMMA PushNext ==
  ASSUME N = 2, NEW s, Good(s), s.work = NoWork, NEW c \in CPUs, s.rq[c].pushable # <<>>,
         NEW then, NEW subject, PushFor(then, subject), NEW choice,
         NEW r, r = push_rt_task_retry(s, c, Head(s.rq[c].pushable), then, subject, choice)
  PROVE  /\ Sends(s, r, c, then, subject)
         /\ \A t \in Waiting(s, c) : Urgent(s, c, t) => r.rq[c].need_resched
         /\ \A t : Loose(s, c, t) /\ AllOn(s) /\ s.task[s.rq[c].curr].on_rq =>
              r.rq[c].need_resched \/ r.work # NoWork
<1> DEFINE h == Head(s.rq[c].pushable)
           m == resched_task(s, c)
           d == find_lowest_rq(s, h, choice)
           w == Work("push", c, h, d, 0, then, subject)
<1>1. /\ h \in Waiting(s, c) /\ h \in Tasks /\ s.task[h].prio \in Int /\ Level(s, c) \in Int
      /\ \A t \in Waiting(s, c) : /\ s.task[h].prio <= s.task[t].prio
                                  /\ s.task[t].prio \in Int /\ t \in Tasks
      /\ prio(s, h) = s.task[h].prio /\ s \in States
  BY HeadWaits, WaitingIs, TaskIs DEF Good
<1>2. CASE prio(s, h) < Level(s, c)
  <2>1. r = NotPushed(m, c, then, subject)
    BY <1>2 DEF push_rt_task_retry, Level
  <2>2. Good(m) /\ Stays(s, m, c) /\ m.work = NoWork /\ m.rq[c].need_resched
    BY ReschedStays
  <2> HIDE DEF m
  <2>3. Good(r) /\ Stays(m, r, c) /\ r.work = NoWork
    BY <2>1, <2>2, NotPushedStays
  <2>4. Stays(s, r, c) /\ r.rq[c].need_resched
    <3>1. Stays(s, r, c)
      BY <2>2, <2>3, StaysTwice
    <3> QED BY <2>2, <2>3, <3>1 DEF Stays
  <2> QED BY <2>3, <2>4 DEF Sends
<1>3. CASE ~(prio(s, h) < Level(s, c))
  <2>1. \A t \in Waiting(s, c) : ~Urgent(s, c, t)
    <3> SUFFICES ASSUME NEW t \in Waiting(s, c), Urgent(s, c, t) PROVE FALSE
      OBVIOUS
    <3>1. s.task[t].prio < Level(s, c)
      BY <1>1, TaskIs DEF Urgent, Level
    <3> QED BY <1>1, <1>3, <3>1
  <2>2. CASE d \in {None, c}
    <3>1. r = NotPushed(s, c, then, subject)
      BY <1>3, <2>2 DEF push_rt_task_retry, Level
    <3>2. Good(r) /\ Stays(s, r, c) /\ r.work = NoWork
      BY <3>1, NotPushedStays
    <3>3. ASSUME NEW t, Loose(s, c, t), AllOn(s), s.task[s.rq[c].curr].on_rq PROVE FALSE
      <4>1. /\ t \in Waiting(s, c)
            /\ \A u \in OnQueue(s.task, Peer(c)) : s.task[t].prio < s.task[u].prio
        BY <3>3 DEF Loose
      <4>2. Peer(c) \in CPUs /\ Peer(c) # c
        BY TwoCPUs
      <4>3. \A u \in OnQueue(s.task, Peer(c)) : s.task[h].prio < s.task[u].prio
        <5>1. s.task[h].prio <= s.task[t].prio /\ s.task[t].prio \in Int
          BY <1>1, <4>1
        <5>2. \A u \in OnQueue(s.task, Peer(c)) : s.task[u].prio \in Int
          BY <4>2, WaitingIs
        <5>3. ASSUME NEW u \in OnQueue(s.task, Peer(c)) PROVE s.task[h].prio < s.task[u].prio
          <6>1. s.task[t].prio < s.task[u].prio /\ s.task[u].prio \in Int
            BY <4>1, <5>2
          <6>2. s.task[h].prio \in Int
            BY <1>1
          <6> QED BY <5>1, <6>1, <6>2
        <5> QED BY <5>3
      <4>4. Level(s, c) <= s.task[h].prio
        BY <1>1, <1>3
      <4> HIDE DEF h
      <4>5. d = Peer(c)
        BY <1>1, <3>3, <4>3, <4>4, FindPeer
      <4>6. Peer(c) # None
        BY <4>2, NoneAssumption DEF CPUs
      <4> QED BY <2>2, <4>2, <4>5, <4>6
    <3> QED BY <2>1, <3>2, <3>3 DEF Sends
  <2>3. CASE d \notin {None, c}
    <3>1. d \in CPUs /\ d # c
      BY <1>1, <2>3, FindLowest
    <3>2. r = WithWork(s, w)
      BY <1>3, <2>3 DEF push_rt_task_retry, Level, WithWork
    <3> HIDE DEF d, h
    <3>3. /\ w \in Works /\ w.op = "push" /\ w.rq = c /\ w.task = h
          /\ w.then = then /\ w.subject = subject /\ w # NoWork
      BY <1>1, <3>1 DEF Work, Works, PushFor, NoWork
    <3> HIDE DEF w
    <3>4. /\ r \in States /\ r.work = w
          /\ r.rq = s.rq /\ r.task = s.task /\ r.rd = s.rd
      BY <1>1, <3>2, <3>3, ChangeWork
    <3>5. Good(r)
      BY <3>4 DEF Good, Placed
    <3> QED BY <1>1, <2>1, <3>3, <3>4, <3>5 DEF Sends, Stays
  <2> QED BY <2>2, <2>3
<1> QED BY <1>2, <1>3

(* A task of one of two CPUs may go to the other if its mask is not that   *)
(* CPU alone.                                                              *)
LEMMA MayGo ==
  ASSUME N = 2, NEW s, Good(s), NEW c \in CPUs, NEW t \in Tasks, s.task[t].cpu = c
  PROVE  Peer(c) \in s.task[t].allowed <=> Cardinality(s.task[t].allowed) > 1
<1> DEFINE d == Peer(c)
           A == s.task[t].allowed
<1>1. d \in CPUs /\ d # c /\ CPUs = {c, d}
  BY TwoCPUs
<1>2. c \in A /\ A \subseteq CPUs
  <2>1. s \in States /\ c \in A
    BY DEF Good, Placed
  <2> QED BY <2>1, StateParts
<1>3. Cardinality({c}) = 1 /\ IsFiniteSet({c})
  BY FS_Singleton
<1> HIDE DEF d, A
<1>4. CASE d \in A
  <2>1. A = {c} \cup {d}
    BY <1>1, <1>2, <1>4
  <2>2. Cardinality({c} \cup {d}) = Cardinality({c}) + 1
    BY <1>1, <1>3, FS_AddElement
  <2>3. Cardinality(A) = 2
    BY <1>3, <2>1, <2>2
  <2> QED BY <1>4, <2>3 DEF d, A
<1>5. CASE d \notin A
  <2>1. A = {c}
    BY <1>1, <1>2, <1>5
  <2>2. Cardinality(A) = 1
    BY <1>3, <2>1
  <2> QED BY <1>5, <2>2 DEF d, A
<1> QED BY <1>4, <1>5

(* push_rt_task.                                                           *)
LEMMA PushTaskNext ==
  ASSUME N = 2, NEW s, Good(s), s.work = NoWork, NEW c \in CPUs,
         NEW then, NEW subject, PushFor(then, subject), NEW choice,
         NEW r, r = push_rt_task(s, c, then, subject, choice)
  PROVE  /\ Sends(s, r, c, then, subject)
         /\ \A t \in Waiting(s, c) : Urgent(s, c, t) /\ RtOn(s.task, c) # {t} =>
              r.rq[c].need_resched
         /\ \A t : Loose(s, c, t) /\ AllOn(s) /\ s.task[s.rq[c].curr].on_rq =>
              r.rq[c].need_resched \/ r.work # NoWork
<1>1. CASE s.rq[c].pushable # <<>> /\ s.rq[c].overloaded
  <2>1. r = push_rt_task_retry(s, c, Head(s.rq[c].pushable), then, subject, choice)
    BY <1>1 DEF push_rt_task
  <2> QED BY <1>1, <2>1, PushNext
<1>2. CASE s.rq[c].pushable = <<>> \/ ~s.rq[c].overloaded
  <2>1. r = NotPushed(s, c, then, subject)
    BY <1>2 DEF push_rt_task
  <2>2. Good(r) /\ Stays(s, r, c) /\ r.work = NoWork
    BY <2>1, NotPushedStays
  <2>3. ASSUME NEW t \in Waiting(s, c), NEW u \in RtOn(s.task, c), u # t PROVE FALSE
    <3>1. s.rq[c].pushable # <<>>
      BY HeadWaits
    <3>2. t \in Movable(s.task, c)
      BY DEF Waiting
    <3> QED BY <1>2, <2>3, <3>1, <3>2, Overloaded
  <2>4. ASSUME NEW t \in Waiting(s, c), RtOn(s.task, c) # {t} PROVE FALSE
    <3>1. t \in RtOn(s.task, c)
      BY WaitingIs
    <3> QED BY <2>3, <2>4, <3>1
  <2>5. ASSUME NEW t, Loose(s, c, t), s.task[s.rq[c].curr].on_rq PROVE FALSE
    <3>1. t \in Waiting(s, c) /\ Level(s, c) <= s.task[t].prio
      BY <2>5 DEF Loose
    <3>2. s.rq[c].curr \in RtOn(s.task, c) /\ s.rq[c].curr # t
      BY <2>5, <3>1, Runner
    <3> QED BY <2>3, <3>1, <3>2
  <2> QED BY <2>2, <2>4, <2>5 DEF Sends
<1> QED BY <1>1, <1>2

(* push_rt_task_other, when p could not be pushed.                         *)
LEMMA PushOtherNext ==
  ASSUME N = 2, NEW s, Good(s), s.work = NoWork, NEW c \in CPUs, NEW p,
         NEW then, NEW subject, PushFor(then, subject), NEW choice,
         NEW r, r = push_rt_task_other(s, c, p, then, subject, choice)
  PROVE  /\ Sends(s, r, c, then, subject)
         /\ \A t : /\ Loose(s, c, t) /\ AllOn(s) /\ s.task[s.rq[c].curr].on_rq
                   /\ p \in Waiting(s, c) => ~(s.task[p].prio <= s.task[t].prio)
                   => r.rq[c].need_resched \/ r.work # NoWork
<1> DEFINE h == Head(s.rq[c].pushable)
<1>1. CASE s.rq[c].pushable # <<>> /\ r = push_rt_task_retry(s, c, h, then, subject, choice)
  BY <1>1, PushNext
<1>2. CASE /\ s.rq[c].pushable = <<>> \/ h = p
           /\ r = NotPushed(s, c, then, subject)
  <2>1. Good(r) /\ Stays(s, r, c) /\ r.work = NoWork
    BY <1>2, NotPushedStays
  <2>2. ASSUME NEW t, Loose(s, c, t), p \in Waiting(s, c) => ~(s.task[p].prio <= s.task[t].prio)
        PROVE  FALSE
    <3>1. t \in Waiting(s, c)
      BY <2>2 DEF Loose
    <3>2. s.rq[c].pushable # <<>>
      BY <3>1, HeadWaits
    <3>3. h \in Waiting(s, c) /\ s.task[h].prio <= s.task[t].prio
      BY <3>1, <3>2, HeadWaits
    <3> QED BY <1>2, <2>2, <3>2, <3>3
  <2> QED BY <2>1, <2>2 DEF Sends
<1> HIDE DEF h
<1> QED BY <1>1, <1>2 DEF push_rt_task_other, h

(* A task that goes to the other CPU.                                      *)
LEMMA MoveEases ==
  ASSUME N = 2, NEW s, Good(s), NEW c \in CPUs, NEW t \in Tasks,
         s.task[t].on_rq, s.task[t].cpu = c, s.rq[c].curr # t, Peer(c) \in s.task[t].allowed,
         NEW r, r = Move(s, t, c, Peer(c))
  PROVE  /\ Good(r) /\ Kept(s, r) /\ Eases(s, r, c) /\ r.task[t].prio = s.task[t].prio
         /\ Level(r, Peer(c)) = Level(s, Peer(c))
         /\ \A d \in CPUs, u \in Tasks : s.rq[d].curr = u => r.task[u] = s.task[u]
         /\ OnQueue(r.task, Peer(c)) = OnQueue(s.task, Peer(c)) \cup {t}
         /\ \A u \in Tasks : r.task[u].prio = s.task[u].prio
         /\ \A v : Loose(r, c, v) => s.task[v].prio < s.task[t].prio
<1> DEFINE d == Peer(c)
<1>1. d \in CPUs /\ d # c
  BY TwoCPUs
<1>2. /\ Good(r) /\ Kept(s, r) /\ Calm(s, r, {d}) /\ r.task[t].cpu = d
      /\ Differ(s.task, r.task, t)
  <2> HIDE DEF d
  <2> QED BY <1>1, MoveTask DEF d
<1>3. /\ \A u \in Tasks : /\ r.task[u].prio = s.task[u].prio
                          /\ r.task[u].on_rq = s.task[u].on_rq
                          /\ u # t => r.task[u] = s.task[u]
      /\ \A e \in CPUs : /\ r.rq[e].curr = s.rq[e].curr
                         /\ r.rq[e].need_resched = s.rq[e].need_resched
      /\ \A e \in CPUs : s.rq[e].curr \in Tasks \cup {Idle}
  <2>1. s \in States
    BY DEF Good
  <2>2. \A e \in CPUs : s.rq[e].curr \in Tasks \cup {Idle}
    BY <2>1, StateParts DEF RQs
  <2> QED BY <1>2, <2>2 DEF Calm, Differ, Kept
<1>4. \A e \in CPUs : s.rq[e].curr # t
  BY <1>1 DEF Good, Placed
<1> HIDE DEF d
<1>5. \A e \in CPUs : Level(r, e) = Level(s, e)
  BY <1>3 DEF Level, prio
<1>6. /\ OnQueue(r.task, c) = OnQueue(s.task, c) \ {t}
      /\ OnQueue(r.task, d) = OnQueue(s.task, d) \cup {t}
  BY <1>1, <1>2, <1>3 DEF OnQueue
<1>7. Waiting(r, c) \subseteq Waiting(s, c) \ {t}
  <2> SUFFICES ASSUME NEW u \in Waiting(r, c) PROVE u \in Waiting(s, c) \ {t}
    OBVIOUS
  <2>1. /\ u \in Tasks /\ u \in OnQueue(r.task, c) /\ r.task[u].prio < MAX_RT_PRIO
        /\ Cardinality(r.task[u].allowed) > 1 /\ r.rq[c].curr # u
    BY <1>2, WaitingIs
  <2>2. u \in OnQueue(s.task, c) /\ u # t /\ r.task[u] = s.task[u] /\ s.rq[c].curr # u
    BY <1>3, <1>6, <2>1
  <2> QED BY <2>1, <2>2 DEF Waiting, Movable, RtOn
<1>8. \A u \in Waiting(r, c) : u \in Tasks
  BY <1>2, WaitingIs
<1>9. \A v : Loose(r, c, v) => v \in Waiting(r, c) /\ s.task[v].prio < s.task[t].prio
  BY <1>3, <1>6, <1>8 DEF Loose, d
<1>10. \A u \in OnQueue(s.task, d) : u \in Tasks
  BY DEF OnQueue
<1>11. ASSUME NEW v, Loose(r, c, v) PROVE Loose(s, c, v)
  <2>1. v \in Waiting(s, c) /\ r.task[v].prio = s.task[v].prio
    BY <1>3, <1>7, <1>8, <1>9, <1>11
  <2>2. \A u \in OnQueue(s.task, d) : s.task[v].prio < s.task[u].prio
    BY <1>3, <1>6, <1>10, <1>11, <2>1 DEF Loose, d
  <2> QED BY <1>3, <1>5, <1>11, <2>1, <2>2 DEF Loose, d
<1>12. ASSUME NEW v, Loose(r, c, v), NEW u \in OnQueue(s.task, c), s.task[u].prio < s.task[v].prio
       PROVE  u \in OnQueue(r.task, c) /\ r.task[u].prio = s.task[u].prio
  <2>1. s.task[v].prio < s.task[t].prio /\ v \in Tasks
    BY <1>8, <1>9, <1>12
  <2>2. u \in Tasks
    BY DEF OnQueue
  <2>3. s.task[u].prio \in Int /\ s.task[v].prio \in Int /\ s.task[t].prio \in Int
    BY <2>1, <2>2, WaitingIs
  <2>4. u # t
    BY <1>12, <2>1, <2>3
  <2> QED BY <1>3, <1>6, <2>2, <2>4
<1>13. Eases(s, r, c)
  BY <1>3, <1>5, <1>7, <1>8, <1>11, <1>12 DEF Eases, Leaves
<1> QED BY <1>1, <1>2, <1>3, <1>4, <1>5, <1>6, <1>9, <1>13 DEF d

(* What is known of c after a push from it, and of who pushes.             *)
LEMMA SendsTo ==
  ASSUME NEW s, Good(s), NEW c \in CPUs, NEW then, NEW subject,
         NEW r, Sends(s, r, c, then, subject)
  PROVE  /\ Good(r)
         /\ \A d \in CPUs : Eases(s, r, d) /\ Waiting(r, d) = Waiting(s, d)
         /\ r.work # NoWork => /\ r.work.op = "push" /\ r.work.rq = c
                               /\ r.work.then = then /\ r.work.subject = subject
                               /\ \A t \in Waiting(r, c) : First(r.work, r, c, t)
<1>1. \A d \in CPUs : Eases(s, r, d) /\ Waiting(r, d) = Waiting(s, d)
  BY EasesSame DEF Sends, Stays
<1>2. r.task = s.task
  BY DEF Sends, Stays
<1> QED BY <1>1, <1>2 DEF Sends, First

LEMMA PushLeft ==
  ASSUME NEW s, NEW r, NEW c, NEW then, NEW subject, PushResult(s, r, c, then, subject)
  PROVE  /\ r.work # NoWork => /\ r.work.op = "push" /\ r.work.rq = c
                               /\ r.work.then = then /\ r.work.subject = subject
         /\ r.work = NoWork /\ then = "switched" => ~Urgent(r, c, subject)
<1>1. CASE r.work = NoWork /\ (then = "switched" => ~Urgent(r, c, subject))
  BY <1>1
<1>2. CASE \E t \in Tasks, d \in CPUs \ {c}, n \in Nat :
             r.work = Work("push", c, t, d, n, then, subject)
  <2>1. PICK t, d, n : r.work = Work("push", c, t, d, n, then, subject)
    BY <1>2
  <2>2. /\ r.work.op = "push" /\ r.work.rq = c /\ r.work.then = then
        /\ r.work.subject = subject
    BY <2>1 DEF Work
  <2>3. r.work # NoWork
    BY <2>2 DEF Work, NoWork
  <2> QED BY <2>2, <2>3
<1> QED BY <1>1, <1>2 DEF PushResult

(* A push goes on, from c to the other CPU: what waits on c still has      *)
(* somebody to push it, or need not be pushed any more.                    *)
LEMMA PushGoesOnNext ==
  ASSUME N = 2, NEW s, Good(s), s.work = NoWork, NEW c \in CPUs, NEW t \in Tasks, NEW n \in Nat,
         NEW then, NEW subject, PushFor(then, subject), NEW choice,
         NEW w, w = Work("push", c, t, Peer(c), n, then, subject),
         NEW r, r = push_locked(s, w, choice)
  PROVE  /\ Good(r) /\ Eases(s, r, c)
         /\ r.rq[Peer(c)].need_resched \/ Eases(s, r, Peer(c))
         /\ \A v : /\ Loose(r, c, v) /\ Takes(w, s, c, v)
                   /\ AllOn(s) /\ s.task[s.rq[c].curr].on_rq
                   => Takes(r.work, r, c, v)
         /\ \A v \in Waiting(r, c) : Urgent(r, c, v) /\ Summons(w, s, c, v) =>
              Summons(r.work, r, c, v)
<1> DEFINE d == Peer(c)
           again == find_lowest_rq(s, t, choice)
           mv == Move(s, t, c, d)
           m == resched_task(mv, d)
<1>1. d \in CPUs /\ d # c /\ CPUs = {c, d}
  BY TwoCPUs
<1>2. /\ w.op = "push" /\ w.rq = c /\ w.task = t /\ w.other = d /\ w.tries = n
      /\ w.then = then /\ w.subject = subject
  BY DEF Work
<1>3. PushResult(s, r, c, then, subject)
  <2> HIDE DEF d
  <2>1. w = Work("push", c, t, d, n, then, subject)
    BY DEF d
  <2> QED BY <1>1, <2>1, PushGoesOn
<1>4. ASSUME NEW v \in Waiting(r, c), Urgent(r, c, v), Summons(w, s, c, v),
             r.work # NoWork => First(r.work, r, c, v)
      PROVE  Summons(r.work, r, c, v)
  <2>1. then = "switched" /\ subject = v
    BY <1>2, <1>4 DEF Summons
  <2>2. r.work # NoWork
    BY <1>3, <1>4, <2>1, PushLeft
  <2>3. r.work.op = "push" /\ r.work.rq = c /\ r.work.then = then /\ r.work.subject = subject
    BY <1>3, <2>2, PushLeft
  <2> QED BY <1>4, <2>1, <2>2, <2>3 DEF Summons
<1>5. CASE /\ r = push_rt_task_other(s, c, t, then, subject, choice)
           /\ ~still_pushable(s, c, t, d) \/ ~(highest_prio(s, d) > prio(s, t))
  <2>1. Sends(s, r, c, then, subject)
    BY <1>5, PushOtherNext
  <2>2. /\ Good(r) /\ \A e \in CPUs : Eases(s, r, e) /\ Waiting(r, e) = Waiting(s, e)
        /\ r.work # NoWork => /\ r.work.op = "push" /\ r.work.rq = c
                              /\ r.work.then = then /\ r.work.subject = subject
                              /\ \A v \in Waiting(r, c) : First(r.work, r, c, v)
    BY <2>1, SendsTo
  <2>3. ASSUME NEW v, Loose(r, c, v), AllOn(s), s.task[s.rq[c].curr].on_rq
        PROVE  Takes(r.work, r, c, v)
    <3>1. /\ Loose(s, c, v) /\ v \in Waiting(s, c) /\ ~r.rq[c].need_resched /\ v \in Waiting(r, c)
          /\ \A u \in OnQueue(s.task, d) : s.task[v].prio < s.task[u].prio
      BY <2>2, <2>3 DEF Loose, Eases, Leaves
    <3>2. ASSUME t \in Waiting(s, c) PROVE ~(s.task[t].prio <= s.task[v].prio)
      <4>1. /\ s.task[v].prio \in Int /\ s.task[v].prio < MAX_RT_PRIO
            /\ s.task[t].prio \in Int /\ prio(s, t) = s.task[t].prio
            /\ highest_prio(s, d) \in Int
            /\ s.task[v].prio < highest_prio(s, d)
        <5>1. /\ s.task[v].prio \in Int /\ s.task[v].prio < MAX_RT_PRIO /\ s.task[t].prio \in Int
          BY <3>1, WaitingIs
        <5> HIDE DEF d
        <5>2. s.task[v].prio < highest_prio(s, d) /\ highest_prio(s, d) \in Int
          BY <1>1, <3>1, <5>1, Above
        <5> QED BY <5>1, <5>2, TaskIs
      <4>2. CASE ~still_pushable(s, c, t, d)
        <5>1. s.task[t].cpu = c /\ s.rq[c].curr # t /\ s.task[t].on_rq
          BY <3>2, WaitingIs
        <5>2. Cardinality(s.task[t].allowed) > 1
          BY <3>2, WaitingIs
        <5>3. d \in s.task[t].allowed
          BY <5>1, <5>2, MayGo
        <5> QED BY <4>2, <5>1, <5>3 DEF still_pushable
      <4>3. CASE ~(highest_prio(s, d) > prio(s, t))
        BY <4>1, <4>3
      <4> QED BY <1>5, <4>2, <4>3
    <3>3. r.rq[c].need_resched \/ r.work # NoWork
      BY <1>5, <2>3, <3>1, <3>2, PushOtherNext
    <3> QED BY <2>2, <3>1, <3>3 DEF Takes
  <2> QED BY <1>1, <1>4, <2>2, <2>3
<1>6. CASE /\ again \notin {None, c}
           /\ r = [s EXCEPT !.work = Work("push", c, t, again, n + 1, then, subject)]
  <2> DEFINE w2 == Work("push", c, t, again, n + 1, then, subject)
  <2>1. again \in CPUs
    BY <1>6, FindLowest DEF Good
  <2>2. r = WithWork(s, w2) /\ s \in States
    BY <1>6 DEF WithWork, Good
  <2> HIDE DEF again
  <2>3. /\ w2 \in Works /\ w2.op = "push" /\ w2.rq = c /\ w2.task = t
        /\ w2.then = then /\ w2.subject = subject
    BY <2>1 DEF Work, Works, PushFor
  <2> HIDE DEF w2
  <2>4. r.work = w2 /\ r.rq = s.rq /\ r.task = s.task
    BY <2>2, <2>3, ChangeWork
  <2>5. \A e \in CPUs : Eases(s, r, e) /\ Waiting(r, e) = Waiting(s, e)
    BY <2>4, EasesSame
  <2>6. Good(r)
    BY <1>3 DEF PushResult
  <2>7. \A v : First(w, s, c, v) => First(w2, r, c, v)
    BY <1>1, <1>2, <2>3, <2>4, <2>5 DEF First
  <2>8. \A v : Takes(w, s, c, v) => Takes(w2, r, c, v)
    BY <1>2, <2>3, <2>7 DEF Takes
  <2>9. \A v : Summons(w, s, c, v) => Summons(w2, r, c, v)
    BY <1>2, <2>3, <2>7 DEF Summons
  <2> QED BY <1>1, <2>4, <2>5, <2>6, <2>8, <2>9
<1>7. CASE /\ still_pushable(s, c, t, d) /\ highest_prio(s, d) > prio(s, t)
           /\ r = IF then = "switched" THEN switched_to_rt_ends(m, c, subject, TRUE)
                  ELSE push_rt_task(m, c, then, subject, choice)
  <2>1. /\ s.task[t].on_rq /\ s.task[t].cpu = c /\ s.rq[c].curr # t /\ d \in s.task[t].allowed
    BY <1>7 DEF still_pushable
  <2>2. /\ Good(mv) /\ Kept(s, mv) /\ Eases(s, mv, c)
        /\ \A u \in Tasks : s.rq[c].curr = u => mv.task[u] = s.task[u]
        /\ \A v : Loose(mv, c, v) => s.task[v].prio < s.task[t].prio
    BY <2>1, MoveEases
  <2>3. t \in Waiting(s, c)
    <3>1. s.task[t].prio < MAX_RT_PRIO
      <4>1. s.task[t].prio \in Int /\ prio(s, t) = s.task[t].prio
        BY WaitingIs, TaskIs
      <4>2. highest_prio(s, d) \in 0 .. MAX_RT_PRIO
        BY <1>1, Above
      <4> QED BY <1>7, <4>1, <4>2, PushPullAssumption
    <3>2. Cardinality(s.task[t].allowed) > 1
      BY <1>1, <2>1, MayGo
    <3> QED BY <2>1, <3>1, <3>2 DEF Waiting, Movable, RtOn, OnQueue
  <2> HIDE DEF mv
  <2>4. Good(m) /\ Stays(mv, m, d) /\ m.work = NoWork /\ m.rq[d].need_resched
        /\ \A e \in CPUs : m.rq[e].online = mv.rq[e].online
    BY <1>1, <2>2, ReschedStays DEF Kept
  <2> HIDE DEF m
  <2>5. Eases(mv, m, c) /\ Eases(s, m, c)
    <3>1. Eases(mv, m, c)
      BY <2>4, EasesSame DEF Stays
    <3> QED BY <2>2, <3>1, EasesTwice
  <2>6. ASSUME NEW v, Loose(m, c, v), Takes(w, s, c, v), then = "switched" PROVE FALSE
    <3>1. Loose(mv, c, v)
      BY <2>5, <2>6 DEF Eases, Leaves
    <3>2. First(w, s, c, v)
      BY <1>2, <2>6 DEF Takes
    <3>3. s.task[t].prio <= s.task[v].prio /\ s.task[v].prio < s.task[t].prio
      BY <1>2, <2>2, <2>3, <3>1, <3>2 DEF First
    <3>4. s.task[t].prio \in Int /\ s.task[v].prio \in Int
      <4>1. v \in Waiting(s, c)
        BY <2>5, <2>6 DEF Loose, Eases, Leaves
      <4> QED BY <4>1, WaitingIs
    <3> QED BY <3>3, <3>4
  <2>7. Sends(m, r, c, then, subject)
    <3>1. CASE then = "switched"
      <4>1. r = m \/ r = resched_task(m, c)
        BY <1>7, <3>1 DEF switched_to_rt_ends
      <4>2. CASE r = m
        BY <2>4, <4>2 DEF Sends, Stays
      <4>3. CASE r = resched_task(m, c)
        <5>1. Good(r) /\ Stays(m, r, c) /\ r.work = NoWork
          BY <2>4, <4>3, ReschedStays
        <5> QED BY <5>1 DEF Sends
      <4> QED BY <4>1, <4>2, <4>3
    <3>2. CASE then # "switched"
      BY <1>7, <2>4, <3>2, PushTaskNext
    <3> QED BY <3>1, <3>2
  <2>8. /\ Good(r) /\ \A e \in CPUs : Eases(m, r, e) /\ Waiting(r, e) = Waiting(m, e)
        /\ r.work # NoWork => /\ r.work.op = "push" /\ r.work.rq = c
                              /\ r.work.then = then /\ r.work.subject = subject
                              /\ \A v \in Waiting(r, c) : First(r.work, r, c, v)
    BY <2>4, <2>7, SendsTo
  <2>9. Eases(s, r, c) /\ r.rq[d].need_resched
    <3>1. Eases(s, r, c)
      BY <2>5, <2>8, EasesTwice
    <3> QED BY <1>1, <2>4, <2>8, <3>1 DEF Eases, Leaves
  <2>10. ASSUME NEW v, Loose(r, c, v), Takes(w, s, c, v), AllOn(s), s.task[s.rq[c].curr].on_rq
         PROVE  Takes(r.work, r, c, v)
    <3>1. Loose(m, c, v) /\ ~r.rq[c].need_resched /\ v \in Waiting(r, c) /\ v \in Waiting(m, c)
      BY <2>8, <2>10 DEF Loose, Eases, Leaves
    <3>2. then # "switched"
      BY <2>6, <2>10, <3>1
    <3>3. AllOn(m)
      BY <2>2, <2>4, <2>10 DEF AllOn, Kept
    <3>4. m.task[m.rq[c].curr].on_rq
      <4>1. m.rq[c].curr = s.rq[c].curr /\ m.task = mv.task
        BY <2>4, <2>5 DEF Eases, Leaves, Stays
      <4>2. Level(m, c) <= m.task[v].prio
        BY <3>1 DEF Loose
      <4>3. s.rq[c].curr \in Tasks
        BY <2>4, <3>1, <4>1, <4>2, Runner
      <4> QED BY <2>2, <2>10, <4>1, <4>3
    <3>5. r = push_rt_task(m, c, then, subject, choice)
      BY <1>7, <3>2
    <3>6. r.rq[c].need_resched \/ r.work # NoWork
      BY <2>4, <3>1, <3>3, <3>4, <3>5, PushTaskNext
    <3> QED BY <2>8, <3>1, <3>6 DEF Takes
  <2> QED BY <1>4, <2>8, <2>9, <2>10
<1> HIDE DEF again, m
<1>8. \/ /\ r = push_rt_task_other(s, c, t, then, subject, choice)
         /\ ~still_pushable(s, c, t, d) \/ ~(highest_prio(s, d) > prio(s, t))
      \/ /\ again \notin {None, c}
         /\ r = [s EXCEPT !.work = Work("push", c, t, again, n + 1, then, subject)]
      \/ /\ still_pushable(s, c, t, d) /\ highest_prio(s, d) > prio(s, t)
         /\ r = IF then = "switched" THEN switched_to_rt_ends(m, c, subject, TRUE)
                ELSE push_rt_task(m, c, then, subject, choice)
  <2> HIDE DEF d
  <2> QED BY <1>2 DEF push_locked, again, m, mv
<1> QED BY <1>5, <1>6, <1>7, <1>8

-----------------------------------------------------------------------------
(* What c runs is queued: it has not begun to sleep.                       *)
Runs(s, c) == \A t \in Tasks : s.rq[c].curr = t => s.task[t].on_rq

LEMMA AgentSettles ==
  ASSUME IInv, NEW a \in Agents, NEW r, Good(r), Becomes(a, r),
         NEW c \in CPUs, Settled(Now, work, c),
         NEW W2, W2 = [work EXCEPT ![a] = r.work],
         (a = c /\ Picking(work, c)) \/ Runs(Now, c) =>
           \/ r.rq[c].need_resched
           \/ Settled(r, W2, c)
           \/ Answers(Now, work, a, r, W2, c)
  PROVE  Settled(Now', work', c)
<1>1. /\ Good(Now) /\ Base(Now, work, unseen, {}) /\ work \in [Agents -> Works]
      /\ \A b \in Agents : work[b] \in Works /\ WorkOk(b, work[b], Now, unseen)
  BY NowIs
<1>2. c \in Agents
  BY AgentIs
<1>3. Settled(r, W2, c)
  <2>1. CASE r.rq[c].need_resched
    BY <2>1, PickingSettled
  <2>2. CASE Answers(Now, work, a, r, W2, c)
    <3> DEFINE w == r.work
    <3>1. W2 = [work EXCEPT ![a] = w]
      OBVIOUS
    <3> HIDE DEF w
    <3> QED BY <1>1, <2>2, <3>1, StaysSettled
  <2>3. CASE ~((a = c /\ Picking(work, c)) \/ Runs(Now, c))
    <3>1. Picking(work, c) /\ a # c
      BY <1>1, <2>3 DEF Base, Runs
    <3>2. work[c].rq = c
      <4>1. WorkOk(c, work[c], Now, unseen) /\ work[c].op = "pull" /\ work[c].then = "pick"
        BY <1>1, <1>2, <3>1 DEF Picking
      <4>2. work[c] # NoWork
        BY <4>1, AgentIs
      <4>3. work[c] # Work("post", c, None, 1, 0, "loop", None)
        BY <4>1 DEF Work
      <4> QED BY <4>1, <4>2, <4>3 DEF WorkOk
    <3>3. W2[c] = work[c]
      BY <1>1, <1>2, <3>1
    <3> QED BY <3>1, <3>2, <3>3, PickingSettled DEF Picking
  <2> QED BY <2>1, <2>2, <2>3
<1>4. Now'.rq = r.rq /\ Now'.task = r.task /\ work' = W2
  BY DEF Becomes, Now
<1> HIDE DEF Now
<1>5. Settled(Now', W2, c)
  BY <1>3, <1>4, SettledView
<1> QED BY <1>4, <1>5

LEMMA PushLockedSettles ==
  ASSUME N = 2, IInv, NEW a \in Agents, NEW choice, PushLocked(a, choice),
         AllOn(Now), \A c \in CPUs : Settled(Now, work, c)
  PROVE  \A c \in CPUs : Settled(Now', work', c)
<1> DEFINE w == work[a]
           c == w.rq
           r == push_locked(Now, w, choice)
           W2 == [work EXCEPT ![a] = r.work]
<1>1. w.op = "push" /\ Becomes(a, r)
  BY DEF PushLocked
<1>2. /\ Good(Now) /\ Now.work = NoWork /\ work \in [Agents -> Works] /\ w \in Works
      /\ Base(Now, work, unseen, {}) /\ WorkOk(a, w, Now, unseen)
  BY NowIs
<1>3. c \in CPUs /\ w.other \in CPUs /\ w.tries \in Nat
  BY <1>2 DEF Works
<1>4. w.task \in Tasks /\ w.other # c /\ PushFor(w.then, w.subject)
  <2>1. w # NoWork /\ w # Work("post", a, None, 1, 0, "loop", None)
    BY <1>1, AgentIs DEF Work
  <2> HIDE DEF w
  <2> QED BY <1>1, <1>2, <2>1 DEF WorkOk, c
<1>5. w.other = Peer(c) /\ Peer(c) \in CPUs /\ Peer(c) # c /\ CPUs = {c, Peer(c)}
  BY <1>3, <1>4, TwoCPUs
<1>6. w = Work("push", c, w.task, Peer(c), w.tries, w.then, w.subject)
  BY <1>1, <1>2, <1>5, WorkIs
<1> HIDE DEF w, c
<1>7. /\ Good(r) /\ Eases(Now, r, c)
      /\ r.rq[Peer(c)].need_resched \/ Eases(Now, r, Peer(c))
      /\ \A v : /\ Loose(r, c, v) /\ Takes(w, Now, c, v)
                /\ AllOn(Now) /\ Now.task[Now.rq[c].curr].on_rq
                => Takes(r.work, r, c, v)
      /\ \A v \in Waiting(r, c) : Urgent(r, c, v) /\ Summons(w, Now, c, v) =>
           Summons(r.work, r, c, v)
  BY <1>2, <1>3, <1>4, <1>6, PushGoesOnNext
<1> HIDE DEF r
<1>8. W2[a] = r.work
  BY <1>2
<1> HIDE DEF W2
<1>9. ASSUME Runs(Now, c) PROVE Answers(Now, work, a, r, W2, c)
  <2>1. ASSUME NEW t, Loose(r, c, t), Takes(w, Now, c, t)
        PROVE  \E b \in Agents : Takes(W2[b], r, c, t)
    <3>1. t \in Waiting(Now, c) /\ Level(Now, c) <= Now.task[t].prio
      BY <1>7, <2>1 DEF Eases, Leaves, Loose
    <3>2. Now.rq[c].curr \in Tasks
      BY <1>2, <1>3, <3>1, Runner
    <3>3. Takes(r.work, r, c, t)
      BY <1>7, <1>9, <2>1, <3>2 DEF Runs
    <3> QED BY <1>8, <3>3
  <2> QED BY <1>7, <1>8, <2>1 DEF Answers, w
<1>10. ASSUME Eases(Now, r, Peer(c)) PROVE Answers(Now, work, a, r, W2, Peer(c))
  <2>1. \A t : ~Summons(w, Now, Peer(c), t) /\ ~Takes(w, Now, Peer(c), t)
    BY <1>1, <1>5 DEF Summons, Takes, c
  <2> QED BY <1>10, <2>1 DEF Answers, w
<1>11. ~Picking(work, a)
  BY <1>1 DEF Picking, w
<1>12. Settled(Now', work', c)
  BY <1>1, <1>3, <1>7, <1>9, <1>11, AgentSettles DEF W2
<1>13. Settled(Now', work', Peer(c))
  BY <1>1, <1>5, <1>7, <1>10, <1>11, AgentSettles DEF W2
<1> QED BY <1>5, <1>12, <1>13

-----------------------------------------------------------------------------
(* Of two CPUs the other one is all there is to pull from.                 *)
LEMMA ScanPeer ==
  ASSUME N = 2, NEW s, Good(s), NEW c \in CPUs, NEW i, NEW then, NEW subject,
         NEW r, r = pull_scan(s, c, i, then, subject)
  PROVE  IF /\ Peer(c) \in s.rd.rto_mask /\ Peer(c) > i
            /\ s.rq[Peer(c)].next < highest_prio(s, c)
         THEN r = WithWork(s, Work("pull", c, None, Peer(c), 0, then, subject))
         ELSE r = Pulled(s, c, then, subject)
<1> DEFINE d == Peer(c)
           src == {e \in s.rd.rto_mask \ {c} : e > i /\ s.rq[e].next < highest_prio(s, c)}
<1>1. d \in CPUs /\ d # c /\ CPUs = {c, d} /\ {d} \in SUBSET Nat
  BY TwoCPUs DEF CPUs
<1>2. s.rd.rto_mask \subseteq CPUs
  <2>1. s \in States
    BY DEF Good
  <2> QED BY <2>1, StateParts DEF RDs
<1>3. CASE d \in src
  <2>1. src = {d}
    BY <1>1, <1>2, <1>3
  <2>2. Min({d}) = d
    BY <1>1, MinIs
  <2>3. r = WithWork(s, Work("pull", c, None, d, 0, then, subject))
    BY <2>1, <2>2 DEF pull_scan, WithWork
  <2> QED BY <1>3, <2>3
<1>4. CASE d \notin src
  <2>1. src = {}
    BY <1>1, <1>2, <1>4
  <2>2. r = Pulled(s, c, then, subject)
    BY <2>1 DEF pull_scan
  <2> QED BY <1>1, <1>4, <2>2
<1> QED BY <1>3, <1>4

(* A task loose on the other CPU is pulled for.                            *)
LEMMA LooseSeen ==
  ASSUME N = 2, NEW s, Good(s), AllOn(s), NEW c \in CPUs, NEW t, Loose(s, Peer(c), t),
         Runs(s, Peer(c))
  PROVE  /\ Peer(c) \in s.rd.rto_mask /\ s.rd.rto_count # 0
         /\ s.rq[Peer(c)].next < highest_prio(s, c)
         /\ s.rq[Peer(c)].overloaded /\ Cardinality(RtOn(s.task, Peer(c))) > 1
         /\ s.task[t].prio < highest_prio(s, c)
<1> DEFINE d == Peer(c)
           k == s.rq[d].curr
<1>1. d \in CPUs /\ d # c /\ Peer(d) = c
  BY TwoCPUs
<1>2. /\ t \in Waiting(s, d) /\ Level(s, d) <= s.task[t].prio
      /\ \A u \in OnQueue(s.task, Peer(d)) : s.task[t].prio < s.task[u].prio
  BY DEF Loose
<1> HIDE DEF d
<1>3. /\ t \in Movable(s.task, d) /\ s.task[t].prio \in Int /\ s.task[t].prio < MAX_RT_PRIO
  BY <1>1, <1>2, WaitingIs
<1>4. k \in Tasks /\ k # t /\ (s.task[k].on_rq => k \in RtOn(s.task, d))
  BY <1>1, <1>2, Runner
<1>5. k \in RtOn(s.task, d)
  BY <1>4 DEF Runs, d
<1>6. s.rq[d].overloaded /\ Cardinality(RtOn(s.task, d)) > 1
  BY <1>1, <1>3, <1>4, <1>5, Overloaded
<1>7. s.task[t].prio < highest_prio(s, c) /\ highest_prio(s, c) \in Int
  BY <1>1, <1>2, <1>3, Above
<1>8. s.rq[d].next < highest_prio(s, c)
  <2>1. IsBest(s.rq[d].next, s.task, Waiting(s, d))
    BY <1>1 DEF Good, Row, PushOk, Waiting
  <2>2. s.rq[d].next <= s.task[t].prio /\ s.rq[d].next \in Int
    BY <1>2, <2>1, PushPullAssumption DEF IsBest
  <2> QED BY <1>3, <1>7, <2>2
<1>9. d \in s.rd.rto_mask
  BY <1>1, <1>6 DEF Good, MaskOk, AllOn
<1>10. s.rd.rto_count # 0
  <2>1. s \in States /\ s.rd.rto_count = Cardinality(s.rd.rto_mask)
    BY DEF Good, MaskOk
  <2>2. s.rd.rto_mask \subseteq CPUs
    BY <2>1, StateParts DEF RDs
  <2>3. IsFiniteSet(CPUs)
    <3>1. 1 \in Int /\ N \in Int
      BY PushPullAssumption
    <3>2. IsFiniteSet(1 .. N)
      BY <3>1, FS_Interval
    <3> QED BY <3>2 DEF CPUs
  <2>4. IsFiniteSet(s.rd.rto_mask)
    BY <2>2, <2>3, FS_Subset
  <2> QED BY <1>9, <2>1, <2>4, FS_EmptySet
<1> QED BY <1>6, <1>7, <1>8, <1>9, <1>10 DEF d

(* pull_rt_task: nothing is loose on the other CPU, or it is pulled from.  *)
LEMMA PullFinds ==
  ASSUME N = 2, NEW s, Good(s), AllOn(s), NEW c \in CPUs,
         NEW then, NEW subject, PullFor(then, subject),
         NEW r, r = pull_rt_task(s, c, then, subject)
  PROVE  \/ /\ r = Pulled(s, c, then, subject)
            /\ Runs(s, Peer(c)) => \A t : ~Loose(s, Peer(c), t)
         \/ /\ Good(r) /\ r.rq = s.rq /\ r.task = s.task
            /\ r.work = Work("pull", c, None, Peer(c), 0, then, subject)
<1> DEFINE d == Peer(c)
           w == Work("pull", c, None, d, 0, then, subject)
<1>1. d \in CPUs /\ d > 0
  BY TwoCPUs DEF CPUs
<1>2. \/ /\ r = Pulled(s, c, then, subject)
         /\ Runs(s, d) => \A t : ~Loose(s, d, t)
      \/ r = WithWork(s, w)
  <2>1. CASE s.rd.rto_count = 0
    <3>1. r = Pulled(s, c, then, subject)
      BY <2>1 DEF pull_rt_task
    <3> QED BY <2>1, <3>1, LooseSeen
  <2>2. CASE s.rd.rto_count # 0
    <3>1. r = pull_scan(s, c, 0, then, subject)
      BY <2>2 DEF pull_rt_task
    <3>2. IF /\ d \in s.rd.rto_mask /\ d > 0 /\ s.rq[d].next < highest_prio(s, c)
          THEN r = WithWork(s, w) ELSE r = Pulled(s, c, then, subject)
      BY <3>1, ScanPeer
    <3> HIDE DEF w
    <3> QED BY <1>1, <3>2, LooseSeen
  <2> QED BY <2>1, <2>2
<1>3. CASE r = WithWork(s, w)
  <2>1. w \in Works
    BY <1>1 DEF Work, Works, PullFor
  <2>2. s \in States
    BY DEF Good
  <2> HIDE DEF w
  <2>3. /\ r \in States /\ r.work = w
        /\ r.rq = s.rq /\ r.task = s.task /\ r.rd = s.rd
    BY <1>3, <2>1, <2>2, ChangeWork
  <2>4. Good(r)
    BY <2>3 DEF Good, Placed
  <2> QED BY <2>3, <2>4 DEF w
<1> QED BY <1>2, <1>3

(* What is pulled from the other CPU is the best that waits there.         *)
LEMMA PullBest ==
  ASSUME N = 2, NEW s, Good(s), NEW c \in CPUs,
         NEW p, p = pick_next_highest_task_rt(s, Peer(c), c)
  PROVE  /\ p # None => /\ p \in Waiting(s, Peer(c)) /\ p \in Tasks
                        /\ c \in s.task[p].allowed
         /\ \A t \in Waiting(s, Peer(c)) : p # None /\ s.task[p].prio <= s.task[t].prio
<1> DEFINE d == Peer(c)
           q == s.rq[d].queue
           found == {i \in DOMAIN q : rt_task(s, q[i]) /\ pullable(s, d, q[i], c)}
<1>1. d \in CPUs /\ d # c /\ Peer(d) = c
  BY TwoCPUs
<1>2. Ordered(s.task, q, OnQueue(s.task, d)) /\ s.task \in TaskMaps
  BY <1>1, StateParts DEF Good, Row, QueueOk
<1>3. /\ DOMAIN q = 1 .. Len(q) /\ Len(q) \in Nat /\ DOMAIN q \subseteq Nat
      /\ \A i \in DOMAIN q : q[i] \in OnQueue(s.task, d) /\ q[i] \in Tasks
      /\ \A i, j \in DOMAIN q : i < j => s.task[q[i]].prio <= s.task[q[j]].prio
      /\ \A t \in OnQueue(s.task, d) : \E i \in DOMAIN q : q[i] = t
  <2>1. /\ q \in Seq(Tasks) /\ QueueHolds(q, OnQueue(s.task, d))
        /\ \A i, j \in DOMAIN q : i < j => s.task[q[i]].prio <= s.task[q[j]].prio
    BY <1>2 DEF Ordered
  <2>2. \A t : t \in OnQueue(s.task, d) <=> \E i \in DOMAIN q : q[i] = t
    <3>1. OnQueue(s.task, d) = {q[i] : i \in DOMAIN q}
      BY <2>1 DEF QueueHolds
    <3> QED BY <3>1
  <2> HIDE DEF q
  <2>3. DOMAIN q = 1 .. Len(q) /\ Len(q) \in Nat
    BY <2>1
  <2>4. \A i \in DOMAIN q : q[i] \in Tasks
    BY <2>1
  <2> QED BY <2>1, <2>2, <2>3, <2>4
<1> HIDE DEF d
<1>4. \A t \in Tasks : /\ t \in OnQueue(s.task, d) /\ rt_task(s, t) /\ pullable(s, d, t, c)
                          <=> t \in Waiting(s, d)
  <2> SUFFICES ASSUME NEW t \in Tasks
               PROVE  /\ t \in OnQueue(s.task, d) /\ rt_task(s, t) /\ pullable(s, d, t, c)
                      <=> t \in Waiting(s, d)
    OBVIOUS
  <2>1. t \in OnQueue(s.task, d) => (c \in s.task[t].allowed <=> Cardinality(s.task[t].allowed) > 1)
    BY <1>1, MayGo DEF OnQueue
  <2>2. rt_task(s, t) <=> s.task[t].prio < MAX_RT_PRIO
    BY TaskIs
  <2> QED BY <2>1, <2>2 DEF Waiting, Movable, RtOn, pullable, nr_cpus_allowed
<1> HIDE DEF q
<1>5. \A i \in DOMAIN q : i \in found <=> q[i] \in Waiting(s, d)
  BY <1>3, <1>4
<1>6. \A t \in Waiting(s, d) : \E i \in found : q[i] = t
  <2> SUFFICES ASSUME NEW t \in Waiting(s, d) PROVE \E i \in found : q[i] = t
    OBVIOUS
  <2>1. t \in OnQueue(s.task, d)
    BY <1>1, WaitingIs
  <2> QED BY <1>3, <1>5, <2>1
<1>7. p = IF found = {} THEN None ELSE q[Min(found)]
  BY DEF pick_next_highest_task_rt, q, d
<1>8. found \in SUBSET Nat /\ found \subseteq DOMAIN q
  BY <1>3
<1> HIDE DEF found
<1>9. CASE found = {}
  BY <1>6, <1>7, <1>9 DEF d
<1>10. CASE found # {}
  <2> DEFINE n == Min(found)
  <2>1. n \in found /\ \A i \in found : n <= i
    BY <1>8, <1>10, MinIs
  <2>2. p = q[n]
    BY <1>7, <1>10
  <2> HIDE DEF n
  <2>3. p \in Waiting(s, d) /\ p \in Tasks /\ p \in OnQueue(s.task, d)
    BY <1>3, <1>5, <1>8, <2>1, <2>2
  <2>4. c \in s.task[p].allowed
    BY <1>4, <2>3 DEF pullable
  <2>5. p # None
    BY <2>3, NoneAssumption
  <2>6. ASSUME NEW t \in Waiting(s, d) PROVE s.task[p].prio <= s.task[t].prio
    <3>1. PICK i \in found : q[i] = t
      BY <1>6
    <3>2. n \in Nat /\ i \in Nat /\ n <= i /\ s.task[p].prio \in Int
      BY <1>1, <1>8, <2>1, <2>3, WaitingIs
    <3>3. CASE n = i
      BY <2>2, <3>1, <3>2, <3>3
    <3>4. CASE n < i
      BY <1>3, <1>8, <2>1, <2>2, <3>1, <3>4
    <3> QED BY <3>2, <3>3, <3>4
  <2> QED BY <2>3, <2>4, <2>5, <2>6 DEF d
<1> QED BY <1>9, <1>10

(* Whoever sees to a task that is more important than what c runs sees to  *)
(* the ones loose behind it.                                               *)
LEMMA SummonedTakes ==
  ASSUME NEW s, Good(s), NEW c \in CPUs, NEW p \in Waiting(s, c), s.task[p].prio < Level(s, c),
         NEW t \in Waiting(s, c), s.task[p].prio <= s.task[t].prio,
         NEW w, Summons(w, s, c, p)
  PROVE  Takes(w, s, c, t)
<1>1. /\ p \in OnQueue(s.task, c) /\ s.task[p].prio \in Int /\ s.task[t].prio \in Int
      /\ w.task \in Waiting(s, c) => s.task[w.task].prio \in Int
  BY WaitingIs
<1>2. CASE w.op = "pull"
  BY <1>1, <1>2 DEF Summons, Takes
<1>3. CASE w.op = "push"
  <2>1. w.rq = c /\ First(w, s, c, p)
    BY <1>3 DEF Summons
  <2>2. First(w, s, c, t)
    BY <1>1, <2>1 DEF First
  <2> QED BY <1>3, <2>1, <2>2 DEF Takes
<1> QED BY <1>2, <1>3 DEF Summons

(* pick_next_task: c is settled, and the other CPU is left as it was.      *)
LEMMA PickSettles ==
  ASSUME N = 2, NEW s, Good(s), NEW c \in CPUs, NEW r, r = pick_next_task(s, c),
         NEW a \in Agents, NEW W2, W2[a] = r.work
  PROVE  /\ Good(r) /\ r.task = s.task /\ Eases(s, r, Peer(c)) /\ Settled(r, W2, c)
<1>1. /\ Good(r) /\ r.task = s.task
      /\ r.work \in {NoWork, Work("post", c, None, 1, 0, "loop", None)}
      /\ \A d \in CPUs \ {c} : /\ r.rq[d].curr = s.rq[d].curr
                               /\ r.rq[d].need_resched = s.rq[d].need_resched
      /\ \A t \in Tasks : ~Urgent(r, c, t)
      /\ r.work = NoWork => r.rq[c].pushable = <<>>
  BY PickNext
<1>2. Peer(c) \in CPUs /\ Peer(c) # c
  BY TwoCPUs
<1>3. Eases(s, r, Peer(c))
  BY <1>1, <1>2, EasesSame
<1>4. ASSUME NEW t \in Waiting(r, c), Loose(r, c, t) PROVE Takes(W2[a], r, c, t)
  <2>1. r.work # NoWork
    BY <1>1, HeadWaits
  <2>2. r.work.op = "post" /\ r.work.rq = c
    BY <1>1, <2>1 DEF Work
  <2> QED BY <2>2 DEF Takes
<1>5. ASSUME NEW t \in Waiting(r, c) PROVE ~Urgent(r, c, t)
  <2>1. t \in Tasks
    BY <1>1, WaitingIs
  <2> QED BY <1>1, <2>1
<1> QED BY <1>1, <1>3, <1>4, <1>5 DEF Settled

(* The pull from the other CPU: what stays loose there is behind a task    *)
(* that is more important than what runs there.                            *)
LEMMA PullMoves ==
  ASSUME N = 2, NEW s, Good(s), AllOn(s), s.work = NoWork, NEW c \in CPUs,
         NEW p, p = pick_next_highest_task_rt(s, Peer(c), c),
         NEW m, m = IF rt_nr_running(s, Peer(c)) > 1 /\ preempts(s, c, Peer(c), p)
                    THEN Move(s, p, Peer(c), c) ELSE s
  PROVE  /\ Good(m) /\ m.work = NoWork /\ Eases(s, m, Peer(c))
         /\ m.rq[c].curr = s.rq[c].curr /\ Level(m, c) = Level(s, c)
         /\ m = s \/ \E u \in OnQueue(m.task, c) :
                       u \in Tasks /\ s.task[u].prio < highest_prio(s, c)
                       /\ m.task[u].prio = s.task[u].prio
         /\ \A t : Loose(m, Peer(c), t) /\ Runs(s, Peer(c)) =>
              /\ m = s /\ p \in Waiting(s, Peer(c))
              /\ s.task[p].prio < Level(s, Peer(c)) /\ s.task[p].prio <= s.task[t].prio
<1> DEFINE d == Peer(c)
           pulls == rt_nr_running(s, d) > 1 /\ preempts(s, c, d, p)
<1>1. d \in CPUs /\ d # c /\ Peer(d) = c
  BY TwoCPUs
<1>2. /\ p # None => p \in Waiting(s, d) /\ p \in Tasks /\ c \in s.task[p].allowed
      /\ \A t \in Waiting(s, d) : p # None /\ s.task[p].prio <= s.task[t].prio
  BY PullBest
<1>3. p # None => prio(s, p) = s.task[p].prio
  BY <1>2, TaskIs
<1> HIDE DEF d
<1>4. CASE pulls
  <2>1. p # None /\ s.task[p].prio < highest_prio(s, c)
    BY <1>3, <1>4 DEF preempts
  <2>2. p \in Tasks /\ s.task[p].on_rq /\ s.task[p].cpu = d /\ s.rq[d].curr # p
    BY <1>1, <1>2, <2>1, WaitingIs
  <2>3. m = Move(s, p, d, Peer(d))
    BY <1>1, <1>4 DEF d
  <2>4. /\ Good(m) /\ Kept(s, m) /\ Eases(s, m, d) /\ m.task[p].prio = s.task[p].prio
        /\ Level(m, Peer(d)) = Level(s, Peer(d))
        /\ OnQueue(m.task, Peer(d)) = OnQueue(s.task, Peer(d)) \cup {p}
        /\ \A v : Loose(m, d, v) => s.task[v].prio < s.task[p].prio
    BY <1>1, <1>2, <2>1, <2>2, <2>3, MoveEases
  <2>5. ASSUME NEW t, Loose(m, d, t) PROVE FALSE
    <3>1. t \in Waiting(s, d) /\ s.task[t].prio < s.task[p].prio
      BY <2>4, <2>5 DEF Loose, Eases, Leaves
    <3>2. s.task[t].prio \in Int /\ s.task[p].prio \in Int
      BY <1>1, <2>2, <3>1, WaitingIs
    <3> QED BY <1>2, <3>1, <3>2
  <2>6. p \in OnQueue(m.task, c)
    BY <1>1, <2>4
  <2>7. m.work = NoWork /\ m.rq[c].curr = s.rq[c].curr /\ Level(m, c) = Level(s, c)
    BY <1>1, <2>4 DEF Kept
  <2> QED BY <2>1, <2>2, <2>4, <2>5, <2>6, <2>7 DEF d
<1>5. CASE ~pulls
  <2>1. m = s
    BY <1>5 DEF d
  <2>2. Eases(s, m, d)
    BY <1>1, <2>1, EasesSame
  <2>3. ASSUME NEW t, Loose(s, d, t), Runs(s, d)
        PROVE  /\ p \in Waiting(s, d) /\ s.task[p].prio < Level(s, d)
               /\ s.task[p].prio <= s.task[t].prio
    <3>1. /\ Cardinality(RtOn(s.task, d)) > 1 /\ s.task[t].prio < highest_prio(s, c)
          /\ t \in Waiting(s, d)
      BY <2>3, LooseSeen DEF d, Loose
    <3>2. p # None /\ p \in Waiting(s, d) /\ s.task[p].prio <= s.task[t].prio
      BY <1>2, <3>1
    <3>3. /\ s.task[t].prio \in Int /\ s.task[p].prio \in Int /\ Level(s, d) \in Int
          /\ highest_prio(s, c) \in Int
      BY <1>1, <3>1, <3>2, WaitingIs, Above
    <3>4. rt_nr_running(s, d) > 1
      <4>1. s \in States /\ Ordered(s.task, s.rq[d].queue, OnQueue(s.task, d))
        BY <1>1 DEF Good, Row, QueueOk
      <4>2. rt_tasks(s, d) = RtOn(s.task, d)
        BY <1>1, <4>1, QueueIs DEF RtOn
      <4> QED BY <3>1, <4>2 DEF rt_nr_running
    <3>5. s.task[p].prio < highest_prio(s, c)
      BY <3>1, <3>2, <3>3
    <3>6. ~(s.task[p].prio >= Level(s, d))
      BY <1>3, <1>5, <3>2, <3>4, <3>5 DEF preempts, Level
    <3> QED BY <3>2, <3>3, <3>6
  <2> QED BY <2>1, <2>2, <2>3 DEF d
<1> QED BY <1>4, <1>5

(* Pulled leaves the other CPU as it is.                                   *)
LEMMA PulledPeer ==
  ASSUME N = 2, NEW s, Good(s), s.work = NoWork, NEW c \in CPUs, NEW then, NEW subject,
         PullFor(then, subject), NEW r, r = Pulled(s, c, then, subject)
  PROVE  Good(r) /\ Eases(s, r, Peer(c)) /\ r.task = s.task
<1>1. Peer(c) \in CPUs /\ Peer(c) # c
  BY TwoCPUs
<1>2. CASE then = "pick"
  <2>1. r = pick_next_task(s, c)
    BY <1>2 DEF Pulled
  <2>2. /\ Good(r) /\ r.task = s.task
        /\ \A d \in CPUs \ {c} : /\ r.rq[d].curr = s.rq[d].curr
                                 /\ r.rq[d].need_resched = s.rq[d].need_resched
    BY <2>1, PickNext
  <2> QED BY <1>1, <2>2, EasesSame
<1>3. CASE then # "pick"
  <2>1. r = s \/ r = resched_task(s, c)
    BY <1>3 DEF Pulled, PullFor
  <2>2. Good(r) /\ Stays(s, r, c)
    BY <2>1, ReschedStays DEF Stays
  <2> QED BY <1>1, <2>2, EasesSame DEF Stays
<1> QED BY <1>2, <1>3

LEMMA PullLockedSettles ==
  ASSUME N = 2, IInv, NEW a \in Agents, PullLocked(a), AllOn(Now), unseen' = {},
         \A c \in CPUs : Settled(Now, work, c)
  PROVE  \A c \in CPUs : Settled(Now', work', c)
<1> DEFINE w == work[a]
           c == w.rq
           d == Peer(c)
           p == pick_next_highest_task_rt(Now, d, c)
           m == IF rt_nr_running(Now, d) > 1 /\ preempts(Now, c, d, p)
                THEN Move(Now, p, d, c) ELSE Now
           r == pull_locked(Now, w)
           W2 == [work EXCEPT ![a] = r.work]
<1>1. /\ w.op = "pull" /\ Becomes(a, r) /\ unseen = {}
      /\ w.then = "prio" => Now.rq[c].curr = w.subject
  BY NowIs DEF PullLocked
<1>2. /\ Good(Now) /\ Now.work = NoWork /\ work \in [Agents -> Works] /\ w \in Works
      /\ Base(Now, work, unseen, {}) /\ WorkOk(a, w, Now, unseen)
  BY NowIs
<1>3. c \in CPUs /\ w.other \in CPUs
  BY <1>2 DEF Works
<1>4. /\ w.other # c /\ PullFor(w.then, w.subject) /\ w.then # "switched"
      /\ w.then = "pick" => a = c
      /\ w.then # "pick" => a \in Contexts
  <2>1. w # NoWork /\ w # Work("post", a, None, 1, 0, "loop", None)
    BY <1>1, AgentIs DEF Work
  <2> HIDE DEF w
  <2>2. "demoted" \notin unseen
    BY <1>1
  <2> QED BY <1>1, <1>2, <2>1, <2>2 DEF WorkOk, c
<1>5. w.other = d /\ d \in CPUs /\ d # c /\ CPUs = {c, d} /\ Peer(d) = c
  BY <1>3, <1>4, TwoCPUs
<1> HIDE DEF w, c
<1>6. r = Pulled(m, c, w.then, w.subject)
  <2>1. r = pull_scan(m, c, d, w.then, w.subject)
    BY <1>5 DEF pull_locked, c
  <2>2. Good(m)
    BY <1>2, <1>3, PullMoves
  <2>3. ~(d > d)
    BY <1>5 DEF CPUs
  <2> HIDE DEF m, r
  <2> QED BY <1>3, <2>1, <2>2, <2>3, ScanPeer
<1>7. /\ Good(m) /\ m.work = NoWork /\ Eases(Now, m, d)
      /\ m.rq[c].curr = Now.rq[c].curr /\ Level(m, c) = Level(Now, c)
      /\ m = Now \/ \E u \in OnQueue(m.task, c) :
                      u \in Tasks /\ Now.task[u].prio < highest_prio(Now, c)
                      /\ m.task[u].prio = Now.task[u].prio
      /\ \A t : Loose(m, d, t) /\ Runs(Now, d) =>
           /\ m = Now /\ p \in Waiting(Now, d)
           /\ Now.task[p].prio < Level(Now, d) /\ Now.task[p].prio <= Now.task[t].prio
  BY <1>2, <1>3, PullMoves
<1> HIDE DEF m, p, r
<1>8. Good(r) /\ Eases(m, r, d) /\ r.task = m.task
  BY <1>3, <1>4, <1>6, <1>7, PulledPeer
<1>9. Eases(Now, r, d)
  BY <1>7, <1>8, EasesTwice
<1>10. W2[a] = r.work /\ \A b \in Agents \ {a} : W2[b] = work[b]
  BY <1>2
<1> HIDE DEF W2, d
<1>11. ASSUME NEW t, Loose(r, d, t), Runs(Now, d) PROVE \E b \in Agents : Takes(W2[b], r, d, t)
  <2>1. Loose(m, d, t) /\ Loose(Now, d, t)
    BY <1>8, <1>9, <1>11 DEF Eases, Leaves
  <2>2. /\ p \in Waiting(Now, d) /\ t \in Waiting(Now, d) /\ ~Now.rq[d].need_resched
        /\ Now.task[p].prio < Level(Now, d) /\ Now.task[p].prio <= Now.task[t].prio
    BY <1>7, <1>11, <2>1 DEF Loose
  <2>3. Urgent(Now, d, p)
    <3>1. p \in Tasks /\ Now.task[p].on_rq /\ Now.task[p].cpu = d
      BY <1>2, <1>5, <2>2, WaitingIs
    <3>2. prio(Now, p) = Now.task[p].prio
      BY <3>1, TaskIs
    <3> QED BY <2>2, <3>1, <3>2 DEF Urgent, Level
  <2>4. PICK b \in Agents : Summons(work[b], Now, d, p)
    BY <1>5, <2>2, <2>3 DEF Settled
  <2>5. b # a
    BY <1>5, <2>4 DEF Summons, c, w
  <2>6. Takes(work[b], Now, d, t)
    BY <1>2, <1>5, <2>2, <2>4, SummonedTakes
  <2>7. Takes(work[b], r, d, t)
    BY <1>2, <1>5, <1>8, <1>9, <1>11, <2>6, Carried
  <2> QED BY <1>10, <2>5, <2>7
<1>12. ASSUME Runs(Now, d) PROVE Answers(Now, work, a, r, W2, d)
  <2>1. \A t : ~Summons(w, Now, d, t)
    BY <1>5 DEF Summons, c
  <2> QED BY <1>9, <1>11, <1>12, <2>1 DEF Answers, w
<1>13. ~(a = d /\ Picking(work, d))
  BY <1>4, <1>5, AgentIs DEF Picking, w
<1>14. Settled(Now', work', d)
  BY <1>1, <1>5, <1>8, <1>12, <1>13, AgentSettles DEF W2
<1>15. ASSUME w.then = "pick" PROVE Settled(Now', work', c)
  <2>1. r = pick_next_task(m, c)
    BY <1>6, <1>15 DEF Pulled
  <2>2. Settled(r, W2, c)
    BY <1>3, <1>7, <1>10, <2>1, PickSettles
  <2> QED BY <1>1, <1>3, <1>8, <2>2, AgentSettles DEF W2
<1>16. ASSUME w.then = "prio" PROVE Settled(Now', work', c)
  <2> DEFINE k == Now.rq[c].curr
  <2>1. k = w.subject /\ k \in Tasks /\ m.rq[c].curr = k
    BY <1>1, <1>4, <1>7, <1>16 DEF PullFor
  <2>2. CASE r.rq[c].need_resched
    BY <1>1, <1>3, <1>8, <2>2, AgentSettles DEF W2
  <2>3. CASE ~r.rq[c].need_resched
    <3>1. ~(prio(m, k) > highest_prio(m, c)) /\ r = m
      <4>1. resched_task(m, c).rq[c].need_resched
        BY <1>3, <1>7, ReschedStays
      <4> QED BY <1>6, <1>16, <2>1, <2>3, <4>1 DEF Pulled
    <3>2. \A u \in OnQueue(m.task, c) : Level(m, c) <= m.task[u].prio
      <4>1. prio(m, k) = Level(m, c)
        BY <2>1 DEF Level
      <4>2. /\ highest_prio(m, c) \in Int /\ Level(m, c) \in Int
            /\ \A u \in OnQueue(m.task, c) : /\ highest_prio(m, c) <= m.task[u].prio
                                             /\ m.task[u].prio \in Int
        BY <1>3, <1>7, Above, WaitingIs
      <4> QED BY <3>1, <4>1, <4>2
    <3>3. ASSUME Runs(Now, c) PROVE m = Now
      <4> SUFFICES ASSUME NEW u \in OnQueue(m.task, c), u \in Tasks,
                          Now.task[u].prio < highest_prio(Now, c),
                          m.task[u].prio = Now.task[u].prio
                   PROVE  FALSE
        BY <1>7
      <4>1. Now.task[k].on_rq /\ Now.task[k].cpu = c
        BY <1>2, <1>3, <2>1, <3>3 DEF Runs, Good, Placed
      <4>2. k \in OnQueue(Now.task, c)
        BY <2>1, <4>1 DEF OnQueue
      <4>3. highest_prio(Now, c) <= Now.task[k].prio
        BY <1>2, <1>3, <4>2, Above
      <4>4. m.task[k].prio <= m.task[u].prio /\ m.task[k].prio = Now.task[k].prio
        <5>1. Level(m, c) = m.task[k].prio
          BY <2>1, TaskIs DEF Level
        <5>2. Level(m, c) = Now.task[k].prio
          <6>1. Level(Now, c) = Now.task[k].prio
            BY <2>1, TaskIs DEF Level
          <6> QED BY <1>7, <6>1
        <5> QED BY <3>2, <5>1, <5>2
      <4>5. /\ highest_prio(Now, c) \in Int /\ Now.task[k].prio \in Int /\ Now.task[u].prio \in Int
        BY <1>2, <1>3, <2>1, Above, WaitingIs
      <4> QED BY <4>3, <4>4, <4>5
    <3>4. ASSUME Runs(Now, c) PROVE Answers(Now, work, a, r, W2, c)
      <4>1. r = Now
        BY <3>1, <3>3, <3>4
      <4>2. Eases(Now, r, c)
        BY <1>3, <4>1, EasesSame
      <4>3. ASSUME NEW u \in OnQueue(Now.task, c) PROVE ~(Now.task[u].prio < Level(Now, c))
        <5>1. Now.task[u].prio \in Int /\ Level(Now, c) \in Int
          BY <1>2, <1>3, WaitingIs
        <5> QED BY <3>1, <3>2, <4>1, <5>1
      <4>4. \A t \in Waiting(r, c) : ~Urgent(r, c, t)
        <5> SUFFICES ASSUME NEW t \in Waiting(Now, c), Urgent(Now, c, t) PROVE FALSE
          BY <4>1
        <5>1. t \in OnQueue(Now.task, c) /\ t \in Tasks
          BY <1>2, <1>3, WaitingIs
        <5>2. Now.task[t].prio < Level(Now, c)
          BY <5>1, TaskIs DEF Urgent, Level
        <5> QED BY <4>3, <5>1, <5>2
      <4>5. \A t : ~Takes(w, Now, c, t)
        BY <1>1, <1>16, <2>1, <4>3 DEF Takes, c
      <4> QED BY <4>2, <4>4, <4>5 DEF Answers, w
    <3>5. ~(a = c /\ Picking(work, c))
      BY <1>16 DEF Picking, w
    <3> QED BY <1>1, <1>3, <1>8, <3>4, <3>5, AgentSettles DEF W2
  <2> QED BY <2>2, <2>3
<1>17. Settled(Now', work', c)
  BY <1>4, <1>15, <1>16 DEF PullFor
<1> QED BY <1>5, <1>14, <1>17

-----------------------------------------------------------------------------
(* An idle agent sees to nothing; c stays settled if it sees to everything *)
(* that is loose on c.                                                     *)
LEMMA NoWorkIdle ==
  ASSUME NEW s, NEW c, NEW t
  PROVE  ~Summons(NoWork, s, c, t) /\ ~Takes(NoWork, s, c, t)
BY DEF Summons, Takes, NoWork, Work

LEMMA IdleAnswers ==
  ASSUME NEW s, NEW W, NEW a \in Agents, W[a] = NoWork, NEW r, NEW W2, NEW c, Eases(s, r, c)
  PROVE  Answers(s, W, a, r, W2, c)
BY NoWorkIdle DEF Answers

LEMMA TakenSettled ==
  ASSUME NEW s, Good(s), NEW r, NEW c \in CPUs, Leaves(s, r, c),
         NEW W \in [Agents -> Works], Settled(s, W, c), NEW a \in Agents, W[a] = NoWork, NEW w,
         NEW W2, W2 = [W EXCEPT ![a] = w],
         \A t \in Waiting(r, c) : Loose(r, c, t) => Takes(w, r, c, t)
  PROVE  Settled(r, W2, c)
<1>1. \A b \in Agents \ {a} : W2[b] = W[b]
  OBVIOUS
<1>2. W2[a] = w
  OBVIOUS
<1>3. ASSUME NEW t \in Waiting(r, c), Urgent(r, c, t)
      PROVE  \E b \in Agents : Summons(W2[b], r, c, t)
  <2>1. PICK b \in Agents : Summons(W[b], s, c, t)
    BY <1>3, CarriedSummons DEF Settled
  <2>2. b # a
    BY <2>1, NoWorkIdle
  <2>3. Summons(W[b], r, c, t)
    BY <2>1, CarriedSummons
  <2> QED BY <1>1, <2>2, <2>3
<1> QED BY <1>2, <1>3 DEF Settled

(* __schedule of c: c is settled, and nobody need see to the other CPU, or *)
(* c pulls from it.                                                        *)
LEMMA ScheduleSettles ==
  ASSUME N = 2, NEW s, Good(s), s.work = NoWork, NEW c \in CPUs, NEW r, r = Schedule(c, s),
         NEW W2, W2[c] = r.work, AllOn(s)
  PROVE  /\ Good(r) /\ r.task = s.task /\ Eases(s, r, Peer(c)) /\ Settled(r, W2, c)
         /\ \A t : /\ Loose(r, Peer(c), t) /\ Runs(s, Peer(c))
                   /\ s.rq[c].curr # Idle /\ rt_task(s, s.rq[c].curr)
                   /\ highest_prio(s, c) > prio(s, s.rq[c].curr)
                   => Takes(r.work, r, Peer(c), t)
<1> DEFINE prev == s.rq[c].curr
<1>1. PullFor("pick", None)
  BY DEF PullFor
<1>2. Peer(c) \in CPUs /\ Peer(c) # c /\ c \in Agents
  BY TwoCPUs, AgentIs
<1>3. ASSUME r = pick_next_task(s, c)
      PROVE  Good(r) /\ r.task = s.task /\ Eases(s, r, Peer(c)) /\ Settled(r, W2, c)
  BY <1>2, <1>3, PickSettles
<1>4. CASE prev # Idle /\ rt_task(s, prev) /\ highest_prio(s, c) > prio(s, prev)
  <2>1. r = pull_rt_task(s, c, "pick", None)
    BY <1>4 DEF Schedule
  <2>2. CASE /\ r = Pulled(s, c, "pick", None)
             /\ Runs(s, Peer(c)) => \A t : ~Loose(s, Peer(c), t)
    <3>1. r = pick_next_task(s, c)
      BY <2>2 DEF Pulled
    <3>2. Runs(s, Peer(c)) => \A t : ~Loose(r, Peer(c), t)
      BY <1>3, <2>2, <3>1 DEF Eases
    <3> QED BY <1>3, <3>1, <3>2
  <2>3. CASE /\ Good(r) /\ r.rq = s.rq /\ r.task = s.task
             /\ r.work = Work("pull", c, None, Peer(c), 0, "pick", None)
    <3>1. Eases(s, r, Peer(c))
      BY <1>2, <2>3, EasesSame
    <3>2. r.work.op = "pull" /\ r.work.rq = c /\ r.work.then = "pick"
      BY <2>3 DEF Work
    <3>3. Settled(r, W2, c)
      BY <3>2, PickingSettled DEF Picking
    <3>4. \A t : Takes(r.work, r, Peer(c), t)
      BY <1>2, <3>2 DEF Takes
    <3> QED BY <2>3, <3>1, <3>3, <3>4
  <2> QED BY <1>1, <2>1, <2>2, <2>3, PullFinds
<1>5. CASE ~(prev # Idle /\ rt_task(s, prev) /\ highest_prio(s, c) > prio(s, prev))
  <2>1. r = pick_next_task(s, c)
    BY <1>5 DEF Schedule
  <2> QED BY <1>3, <1>5, <2>1
<1> QED BY <1>4, <1>5

LEMMA schedule_preemptSettles ==
  ASSUME N = 2, IInv, NEW c \in CPUs, schedule_preempt(c), AllOn(Now),
         \A d \in CPUs : Settled(Now, work, d)
  PROVE  \A d \in CPUs : Settled(Now', work', d)
<1> DEFINE d == Peer(c)
           r == Schedule(c, Now)
           W2 == [work EXCEPT ![c] = r.work]
<1>1. work[c] = NoWork /\ Becomes(c, r)
  BY DEF schedule_preempt
<1>2. /\ Good(Now) /\ Now.work = NoWork /\ work \in [Agents -> Works] /\ c \in Agents
      /\ d \in CPUs /\ CPUs = {c, d} /\ d # c
  BY NowIs, AgentIs, TwoCPUs
<1>3. W2[c] = r.work
  BY <1>2
<1> HIDE DEF r, W2
<1>4. Good(r) /\ Eases(Now, r, d) /\ Settled(r, W2, c)
  BY <1>2, <1>3, ScheduleSettles DEF r
<1>5. Settled(Now', work', c)
  BY <1>1, <1>2, <1>4, AgentSettles DEF W2
<1> HIDE DEF d
<1>6. Answers(Now, work, c, r, W2, d)
  BY <1>1, <1>2, <1>4, IdleAnswers
<1>7. Settled(Now', work', d)
  BY <1>1, <1>2, <1>4, <1>6, AgentSettles DEF W2
<1> QED BY <1>2, <1>5, <1>7

(* A task of c leaves the queue: the other CPU is left as it was, but for  *)
(* the tasks that could run in its place.                                  *)
LEMMA SleepLeaves ==
  ASSUME N = 2, NEW s, Good(s), NEW c \in CPUs, NEW t \in Tasks, s.rq[c].curr = t,
         s.task[t].on_rq, s.task[t].cpu = c, NEW m, m = dequeue_task(s, c, t)
  PROVE  /\ Good(m) /\ Kept(s, m) /\ Leaves(s, m, Peer(c)) /\ prio(m, t) = s.task[t].prio
         /\ Runs(s, Peer(c)) => Runs(m, Peer(c))
         /\ ~(rt_task(m, t) /\ highest_prio(m, c) > prio(m, t)) => Eases(s, m, Peer(c))
<1> DEFINE d == Peer(c)
<1>1. d \in CPUs /\ d # c /\ Peer(d) = c
  BY TwoCPUs
<1>2. Good(m) /\ Kept(s, m) /\ Joins(m.task, s.task, t, c) /\ m.task[t].cpu = c
  BY DequeueTask
<1> HIDE DEF d
<1>3. /\ \A u \in Tasks : m.task[u].prio = s.task[u].prio
      /\ \A u \in Tasks \ {t} : m.task[u] = s.task[u]
      /\ OnQueue(s.task, c) = OnQueue(m.task, c) \cup {t}
      /\ OnQueue(m.task, d) = OnQueue(s.task, d)
      /\ t \notin OnQueue(m.task, d)
  <2>1. /\ \A u \in Tasks \ {t} : m.task[u] = s.task[u]
        /\ ~m.task[t].on_rq /\ m.task[t].prio = s.task[t].prio
    BY <1>2 DEF Joins, Differ
  <2>2. OnQueue(m.task, d) = OnQueue(s.task, d) /\ t \notin OnQueue(m.task, d)
    BY <1>1, <2>1 DEF OnQueue
  <2>3. OnQueue(s.task, c) = OnQueue(m.task, c) \cup {t}
    <3>1. t \in OnQueue(s.task, c) /\ t \notin OnQueue(m.task, c)
      BY <1>1, <2>1 DEF OnQueue
    <3>2. \A u \in Tasks \ {t} : u \in OnQueue(s.task, c) <=> u \in OnQueue(m.task, c)
      BY <2>1 DEF OnQueue
    <3>3. OnQueue(s.task, c) \subseteq Tasks /\ OnQueue(m.task, c) \subseteq Tasks
      BY DEF OnQueue
    <3> QED BY <3>1, <3>2, <3>3
  <2> QED BY <1>1, <2>1, <2>2, <2>3
<1>4. /\ m.rq[d].curr = s.rq[d].curr /\ m.rq[d].need_resched = s.rq[d].need_resched
      /\ s.rq[d].curr # t /\ s.rq[d].curr \in Tasks \cup {Idle}
  <2>1. s \in States
    BY DEF Good
  <2>2. /\ m.rq[d].curr = s.rq[d].curr /\ m.rq[d].need_resched = s.rq[d].need_resched
    BY <1>1, <1>2 DEF Kept
  <2>3. s.rq[d].curr \in Tasks \cup {Idle}
    <3>1. s.rq[d] \in RQs
      BY <1>1, <2>1, StateParts
    <3> QED BY <3>1 DEF RQs
  <2>4. s.rq[d].curr # t
    <3>1. Placed(s)
      BY DEF Good
    <3> QED BY <1>1, <3>1 DEF Placed
  <2> QED BY <2>2, <2>3, <2>4
<1>5. Level(m, d) = Level(s, d)
  BY <1>3, <1>4 DEF Level, prio
<1>6. Waiting(m, d) = Waiting(s, d)
  <2>1. Movable(m.task, d) = Movable(s.task, d)
    BY <1>3 DEF Movable, RtOn, OnQueue
  <2> QED BY <1>4, <2>1 DEF Waiting
<1>7. \A u \in Waiting(m, d) : u \in Tasks
  BY <1>1, <1>2, WaitingIs
<1>8. Leaves(s, m, d)
  BY <1>3, <1>4, <1>5, <1>6, <1>7 DEF Leaves
<1>9. Runs(s, d) => Runs(m, d)
  BY <1>3, <1>4 DEF Runs
<1>10. prio(m, t) = s.task[t].prio /\ (rt_task(m, t) <=> s.task[t].prio < MAX_RT_PRIO)
  <2>1. prio(m, t) = m.task[t].prio
    BY TaskIs
  <2> QED BY <1>3, <2>1 DEF rt_task
<1>11. ASSUME ~(rt_task(m, t) /\ highest_prio(m, c) > prio(m, t)), NEW v, Loose(m, d, v)
       PROVE  Loose(s, d, v)
  <2>1. /\ v \in Waiting(m, d) /\ ~m.rq[d].need_resched /\ Level(m, d) <= m.task[v].prio
        /\ \A u \in OnQueue(m.task, c) : m.task[v].prio < m.task[u].prio
    BY <1>1, <1>11 DEF Loose
  <2>2. /\ m.task[v].prio \in Int /\ m.task[v].prio < MAX_RT_PRIO /\ v \in Tasks
        /\ highest_prio(m, c) \in Int /\ s.task[t].prio \in Int
    BY <1>1, <1>2, <2>1, WaitingIs, Above
  <2>3. m.task[v].prio < highest_prio(m, c)
    BY <1>2, <2>1, <2>2, Above
  <2>4. s.task[v].prio < s.task[t].prio /\ m.task[v].prio = s.task[v].prio
    BY <1>3, <1>10, <1>11, <2>2, <2>3, PushPullAssumption
  <2>5. \A u \in OnQueue(s.task, c) : s.task[v].prio < s.task[u].prio
    <3> SUFFICES ASSUME NEW u \in OnQueue(s.task, c), u # t
                 PROVE  s.task[v].prio < s.task[u].prio
      BY <2>4
    <3>1. u \in OnQueue(m.task, c) /\ u \in Tasks
      BY <1>3 DEF OnQueue
    <3> QED BY <1>3, <2>1, <2>4, <3>1
  <2> QED BY <1>1, <1>4, <1>5, <1>6, <2>1, <2>4, <2>5 DEF Loose
<1>12. \A u \in OnQueue(s.task, d) : u \in OnQueue(m.task, d) /\ m.task[u].prio = s.task[u].prio
  BY <1>3 DEF OnQueue
<1> QED BY <1>2, <1>8, <1>9, <1>10, <1>11, <1>12 DEF Eases, d

LEMMA schedule_sleepSettles ==
  ASSUME N = 2, IInv, NEW c \in CPUs, schedule_sleep(c), AllOn(Now),
         \A d \in CPUs : Settled(Now, work, d)
  PROVE  \A d \in CPUs : Settled(Now', work', d)
<1> DEFINE d == Peer(c)
           t == Now.rq[c].curr
           m == dequeue_task(Now, c, t)
           r == Schedule(c, m)
           w == r.work
           W2 == [work EXCEPT ![c] = w]
<1>1. work[c] = NoWork /\ t # Idle /\ Becomes(c, r)
  BY NowIs DEF schedule_sleep
<1>2. /\ Good(Now) /\ Now.work = NoWork /\ work \in [Agents -> Works] /\ c \in Agents
      /\ d \in CPUs /\ CPUs = {c, d} /\ d # c /\ Base(Now, work, unseen, {})
  BY NowIs, AgentIs, TwoCPUs
<1>3. t \in Tasks /\ Now.task[t].on_rq /\ Now.task[t].cpu = c
  <2>1. t \in Tasks
    <3>1. Now \in States
      BY <1>2 DEF Good
    <3>2. Now.rq[c] \in RQs
      BY <3>1, StateParts
    <3> QED BY <1>1, <3>2 DEF RQs
  <2>2. ~Picking(work, c)
    BY <1>1, AgentIs DEF Picking
  <2> QED BY <1>2, <2>1, <2>2 DEF Base, Good, Placed
<1>4. W2[c] = w
  BY <1>2
<1> HIDE DEF t
<1>5. /\ Good(m) /\ Kept(Now, m) /\ Leaves(Now, m, d) /\ prio(m, t) = Now.task[t].prio
      /\ Runs(Now, d) => Runs(m, d)
      /\ ~(rt_task(m, t) /\ highest_prio(m, c) > prio(m, t)) => Eases(Now, m, d)
  <2>1. Now.rq[c].curr = t
    BY DEF t
  <2> QED BY <1>2, <1>3, <2>1, SleepLeaves
<1>6. m.work = NoWork /\ AllOn(m) /\ m.rq[c].curr = t
  BY <1>2, <1>5 DEF Kept, AllOn, t
<1> HIDE DEF m, W2
<1>7. /\ Good(r) /\ Eases(m, r, d) /\ Settled(r, W2, c)
      /\ \A v : /\ Loose(r, d, v) /\ Runs(m, d)
                /\ t # Idle /\ rt_task(m, t) /\ highest_prio(m, c) > prio(m, t)
                => Takes(w, r, d, v)
  BY <1>4, <1>5, <1>6, ScheduleSettles
<1> HIDE DEF r, d, w
<1>8. Settled(Now', work', c)
  BY <1>1, <1>2, <1>7, AgentSettles DEF W2, w
<1>9. ASSUME Runs(Now, d) PROVE Settled(r, W2, d) \/ Answers(Now, work, c, r, W2, d)
  <2>1. CASE rt_task(m, t) /\ highest_prio(m, c) > prio(m, t)
    <3>1. \A v \in Waiting(r, d) : Loose(r, d, v) => Takes(w, r, d, v)
      BY <1>1, <1>5, <1>7, <1>9, <2>1
    <3>2. Leaves(Now, r, d)
      BY <1>5, <1>7, LeavesTwice DEF Eases
    <3>3. W2 = [work EXCEPT ![c] = w]
      BY DEF W2
    <3> QED BY <1>1, <1>2, <3>1, <3>2, <3>3, TakenSettled
  <2>2. CASE ~(rt_task(m, t) /\ highest_prio(m, c) > prio(m, t))
    <3>1. Eases(Now, r, d)
      BY <1>5, <1>7, <2>2, EasesTwice
    <3> QED BY <1>1, <1>2, <3>1, IdleAnswers
  <2> QED BY <2>1, <2>2
<1>10. Settled(Now', work', d)
  BY <1>1, <1>2, <1>7, <1>9, AgentSettles DEF W2, w
<1> QED BY <1>2, <1>8, <1>10

LEMMA post_scheduleSettles ==
  ASSUME N = 2, IInv, NEW c \in CPUs, NEW choice, post_schedule(c, choice), AllOn(Now),
         \A d \in CPUs : Settled(Now, work, d)
  PROVE  \A d \in CPUs : Settled(Now', work', d)
<1> DEFINE m == [Now EXCEPT !.rq[c].post_schedule = FALSE]
           k == rq[c].curr
           r == IF k # Idle /\ rt_task(m, k) THEN push_rt_task(m, c, "loop", None, choice) ELSE m
           W2 == [work EXCEPT ![c] = r.work]
<1>1. work[c].op = "post" /\ Becomes(c, r)
  BY DEF post_schedule
<1>2. /\ Good(Now) /\ Now.work = NoWork /\ work \in [Agents -> Works] /\ c \in Agents
      /\ WorkOk(c, work[c], Now, unseen) /\ k = Now.rq[c].curr
  BY NowIs, AgentIs
<1>3. work[c].rq = c
  <2>1. work[c] # NoWork
    BY <1>1, AgentIs
  <2>2. Work("post", c, None, 1, 0, "loop", None).rq = c
    BY DEF Work
  <2> QED BY <1>1, <1>2, <2>1, <2>2 DEF WorkOk
<1>4. /\ Good(m) /\ m.task = Now.task /\ m.work = NoWork
      /\ \A d \in CPUs : /\ m.rq[d].curr = Now.rq[d].curr
                         /\ m.rq[d].need_resched = Now.rq[d].need_resched
                         /\ m.rq[d].online = Now.rq[d].online
  BY <1>2, PostClear
<1> HIDE DEF m
<1>5. AllOn(m) /\ \A d \in CPUs : Eases(Now, m, d)
  BY <1>4, EasesSame DEF AllOn
<1>6. /\ Sends(m, r, c, "loop", None)
      /\ \A t : Loose(m, c, t) /\ m.task[m.rq[c].curr].on_rq =>
           r.rq[c].need_resched \/ r.work # NoWork
  <2>1. CASE k # Idle /\ rt_task(m, k)
    <3>1. r = push_rt_task(m, c, "loop", None, choice)
      BY <2>1
    <3>2. PushFor("loop", None)
      BY DEF PushFor
    <3> QED BY <1>4, <1>5, <3>1, <3>2, PushTaskNext
  <2>2. CASE ~(k # Idle /\ rt_task(m, k))
    <3>1. r = m
      BY <2>2
    <3>2. \A t : ~Loose(m, c, t)
      BY <1>2, <1>4, <2>2, Runner DEF Loose
    <3> QED BY <1>4, <3>1, <3>2 DEF Sends, Stays
  <2> QED BY <2>1, <2>2
<1> HIDE DEF r
<1>7. /\ Good(r) /\ \A d \in CPUs : Eases(m, r, d)
      /\ r.work # NoWork => /\ r.work.op = "push" /\ r.work.rq = c
                            /\ r.work.then = "loop"
  BY <1>4, <1>6, SendsTo
<1>8. \A d \in CPUs : Eases(Now, r, d)
  BY <1>5, <1>7, EasesTwice
<1>9. W2[c] = r.work
  BY <1>2
<1> HIDE DEF W2
<1>10. ASSUME NEW d \in CPUs, Runs(Now, d) PROVE Answers(Now, work, c, r, W2, d)
  <2>1. \A t : ~Summons(work[c], Now, d, t)
    BY <1>1 DEF Summons
  <2>2. CASE d # c
    <3>1. \A t : ~Takes(work[c], Now, d, t)
      BY <1>1, <1>3, <2>2 DEF Takes
    <3> QED BY <1>8, <2>1, <3>1 DEF Answers
  <2>3. CASE d = c
    <3>1. ASSUME NEW t, Loose(r, c, t) PROVE \E b \in Agents : Takes(W2[b], r, c, t)
      <4>1. Loose(m, c, t) /\ ~r.rq[c].need_resched
        BY <1>7, <3>1 DEF Loose, Eases, Leaves
      <4>2. m.rq[c].curr \in Tasks
        BY <1>4, <4>1, Runner DEF Loose
      <4>3. m.task[m.rq[c].curr].on_rq
        BY <1>4, <1>10, <2>3, <4>2 DEF Runs
      <4>4. r.work.op = "push" /\ r.work.rq = c /\ r.work.then = "loop"
        BY <1>6, <1>7, <4>1, <4>3
      <4> QED BY <1>2, <1>9, <4>4 DEF Takes
    <3> QED BY <1>8, <2>1, <2>3, <3>1 DEF Answers
  <2> QED BY <2>2, <2>3
<1>11. ~Picking(work, c)
  BY <1>1 DEF Picking
<1> QED BY <1>1, <1>2, <1>7, <1>10, <1>11, AgentSettles DEF W2

-----------------------------------------------------------------------------
(* What leaves the queues as they are, and lets no task come to wait.      *)
LEMMA QueueEases ==
  ASSUME NEW s, NEW r, NEW c \in CPUs, r.rq[c].curr = s.rq[c].curr,
         s.rq[c].need_resched => r.rq[c].need_resched, Level(r, c) = Level(s, c),
         Waiting(r, c) \subseteq Waiting(s, c),
         \A d : OnQueue(r.task, d) = OnQueue(s.task, d),
         \A d : \A u \in OnQueue(s.task, d) : r.task[u].prio = s.task[u].prio
  PROVE  Eases(s, r, c)
<1>1. \A t \in Waiting(s, c) : t \in OnQueue(s.task, c)
  BY DEF Waiting, Movable, RtOn
<1>2. Leaves(s, r, c)
  BY <1>1 DEF Leaves
<1>3. \A t : Loose(r, c, t) => Loose(s, c, t)
  BY <1>1 DEF Loose
<1> QED BY <1>2, <1>3 DEF Eases

(* A task that is neither queued nor run is changed.                       *)
LEMMA OffEases ==
  ASSUME NEW s, Good(s), NEW r, NEW t \in Tasks, Differ(s.task, r.task, t),
         ~s.task[t].on_rq, ~r.task[t].on_rq, NEW c \in CPUs, Runs(s, c),
         r.rq[c].curr = s.rq[c].curr, s.rq[c].need_resched => r.rq[c].need_resched
  PROVE  Eases(s, r, c)
<1>1. \A d : /\ OnQueue(r.task, d) = OnQueue(s.task, d)
             /\ Movable(r.task, d) = Movable(s.task, d)
  BY RowSame
<1>2. \A d : \A u \in OnQueue(s.task, d) : u # t /\ r.task[u] = s.task[u]
  BY DEF OnQueue, Differ
<1>3. Level(r, c) = Level(s, c)
  <2>1. s.rq[c].curr # t /\ s.rq[c].curr \in Tasks \cup {Idle}
    BY StateParts DEF Runs, Good, RQs
  <2> QED BY <2>1 DEF Level, prio, Differ
<1>4. Waiting(r, c) = Waiting(s, c)
  BY <1>1 DEF Waiting
<1> QED BY <1>1, <1>2, <1>3, <1>4, QueueEases

LEMMA QuietSettles ==
  ASSUME IInv, NEW r, r.rq = rq', r.task = task', Good(r),
         NEW a \in Agents, work[a] = NoWork, NEW w, work' = [work EXCEPT ![a] = w],
         NEW c \in CPUs, Settled(Now, work, c), Runs(Now, c) => Eases(Now, r, c)
  PROVE  Settled(Now', work', c)
<1>1. /\ Good(Now) /\ Base(Now, work, unseen, {}) /\ work \in [Agents -> Works]
      /\ \A b \in Agents : work[b] \in Works /\ WorkOk(b, work[b], Now, unseen)
  BY NowIs
<1>2. c \in Agents
  BY AgentIs
<1>3. Settled(r, work', c)
  <2>1. CASE Runs(Now, c)
    <3>1. Answers(Now, work, a, r, work', c)
      BY <2>1, IdleAnswers
    <3> QED BY <1>1, <3>1, StaysSettled
  <2>2. CASE ~Runs(Now, c)
    <3>1. Picking(work, c)
      BY <1>1, <2>2 DEF Base, Runs
    <3>2. a # c /\ work[c] # NoWork /\ work[c] # Work("post", c, None, 1, 0, "loop", None)
      BY <3>1, AgentIs DEF Picking, Work
    <3>3. WorkOk(c, work[c], Now, unseen) /\ work[c].op = "pull" /\ work[c].then = "pick"
      BY <1>1, <1>2, <3>1 DEF Picking
    <3>4. work[c].rq = c
      BY <3>2, <3>3 DEF WorkOk
    <3>5. work'[c] = work[c]
      BY <1>1, <1>2, <3>2
    <3> QED BY <3>1, <3>4, <3>5, PickingSettled DEF Picking
  <2> QED BY <2>1, <2>2
<1>4. Now'.rq = r.rq /\ Now'.task = r.task
  BY DEF Now
<1> HIDE DEF Now
<1> QED BY <1>3, <1>4, SettledView

LEMMA try_to_wake_upSettles ==
  ASSUME N = 2, IInv, IInv', NEW x \in Contexts, NEW t \in Tasks, NEW choice,
         try_to_wake_up(x, t, choice), \A d \in CPUs : Settled(Now, work, d)
  PROVE  \A d \in CPUs : Settled(Now', work', d)
<1> DEFINE r == Now'
           k == select_task_rq(Now, t, choice)
           w == Work("wake", k, None, 1, 0, "loop", t)
<1>1. /\ Good(Now) /\ x \in Agents /\ Now.rq = rq /\ Now.task = task
      /\ r.rq = rq' /\ r.task = task' /\ Now \in States
  BY NowIs, AgentIs DEF Now, Good
<1>2. Good(r)
  BY DEF IInv, Sound, Base
<1>3. /\ work[x] = NoWork /\ ~task[t].on_rq
      /\ Becomes(x, [Now EXCEPT !.task[t].cpu = k, !.work = w])
  BY DEF try_to_wake_up
<1> HIDE DEF k, w
<1>4. rq' = rq /\ task' = [task EXCEPT ![t].cpu = k] /\ work' = [work EXCEPT ![x] = w]
  <2> DEFINE m == [Now EXCEPT !.task[t].cpu = k, !.work = w]
  <2>1. m.rq = rq /\ m.task = [task EXCEPT ![t].cpu = k] /\ m.work = w
    BY DEF Now
  <2>2. Becomes(x, m)
    BY <1>3
  <2> HIDE DEF m
  <2> QED BY <2>1, <2>2 DEF Becomes
<1>5. task \in TaskMaps
  BY <1>1, StateParts
<1>6. Differ(Now.task, r.task, t) /\ ~Now.task[t].on_rq /\ ~r.task[t].on_rq
  <2>1. \A u \in Tasks \ {t} : task'[u] = task[u]
    BY <1>4, <1>5 DEF TaskMaps
  <2>2. ~task'[t].on_rq
    BY <1>3, <1>4, <1>5 DEF TaskMaps
  <2> QED BY <1>1, <1>3, <2>1, <2>2 DEF Differ
<1> HIDE DEF r
<1>7. ASSUME NEW d \in CPUs, Runs(Now, d) PROVE Eases(Now, r, d)
  BY <1>1, <1>4, <1>6, <1>7, OffEases
<1> QED BY <1>1, <1>2, <1>3, <1>4, <1>7, QuietSettles

LEMMA set_cpus_allowedSettles ==
  ASSUME N = 2, IInv, NEW x \in Contexts, NEW t \in Tasks, NEW mask \in SUBSET CPUs,
         set_cpus_allowed(x, t, mask), unseen' = {}, \A d \in CPUs : Settled(Now, work, d)
  PROVE  \A d \in CPUs : Settled(Now', work', d)
<1>1. /\ Good(Now) /\ x \in Agents /\ Now.task = task /\ Now \in States /\ work[x] = NoWork
  BY NowIs, AgentIs DEF Good, set_cpus_allowed
<1>2. PICK r : /\ Good(r) /\ Becomes(x, r) /\ r.work = NoWork
               /\ Masked(Now.task, r.task, t) /\ r.task[t].allowed = mask
               /\ \A d \in CPUs : /\ r.rq[d].curr = Now.rq[d].curr
                                  /\ r.rq[d].need_resched = Now.rq[d].need_resched
  BY MaskChanged
<1>3. r.rq = rq' /\ r.task = task' /\ work' = [work EXCEPT ![x] = NoWork]
  BY <1>2 DEF Becomes
<1>4. task[t].on_rq => mask \subseteq task[t].allowed
  BY DEF set_cpus_allowed
<1>5. \A d : /\ OnQueue(r.task, d) = OnQueue(Now.task, d)
             /\ \A u \in Tasks : r.task[u].prio = Now.task[u].prio
  BY <1>2, MaskedSets
<1>6. \A d : Movable(r.task, d) \subseteq Movable(Now.task, d)
  <2> SUFFICES ASSUME NEW d PROVE Movable(r.task, d) \subseteq Movable(Now.task, d)
    OBVIOUS
  <2>1. CASE t \notin RtOn(Now.task, d)
    BY <1>2, <2>1, MaskedSets
  <2>2. CASE t \in RtOn(Now.task, d)
    <3>1. /\ t \in Movable(Now.task, d) <=> Wide(Now.task, t)
          /\ Movable(r.task, d) = IF Wide(r.task, t) THEN Movable(Now.task, d) \cup {t}
                                  ELSE Movable(Now.task, d) \ {t}
      <4> DEFINE T == Now.task
                 T2 == r.task
      <4>1. Masked(T, T2, t) /\ t \in RtOn(T, d)
        BY <1>2, <2>2
      <4> HIDE DEF T, T2
      <4>2. t \in Movable(T, d) <=> Wide(T, t)
        BY ONLY t \in Tasks, <4>1, MaskedSets
      <4>3. Movable(T2, d) = IF Wide(T2, t) THEN Movable(T, d) \cup {t} ELSE Movable(T, d) \ {t}
        BY ONLY t \in Tasks, <4>1, MaskedSets
      <4> QED BY <4>2, <4>3 DEF T, T2
    <3>2. Wide(r.task, t) => Wide(Now.task, t)
      <4>1. mask \subseteq Now.task[t].allowed
        BY <1>1, <1>4, <2>2 DEF RtOn, OnQueue
      <4>2. Now.task[t].allowed \subseteq 1 .. N
        BY <1>1, StateParts DEF CPUs
      <4>3. IsFiniteSet(1 .. N)
        <5>1. 1 \in Int /\ N \in Int
          BY PushPullAssumption
        <5> QED BY <5>1, FS_Interval
      <4>4. IsFiniteSet(Now.task[t].allowed)
        BY <4>2, <4>3, FS_Subset
      <4>5. /\ Cardinality(mask) <= Cardinality(Now.task[t].allowed)
            /\ Cardinality(mask) \in Nat /\ Cardinality(Now.task[t].allowed) \in Nat
        BY <4>1, <4>4, FS_Subset, FS_CardinalityType
      <4> QED BY <1>2, <4>5 DEF Wide
    <3> QED BY <3>1, <3>2
  <2> QED BY <2>1, <2>2
<1>7. ASSUME NEW d \in CPUs PROVE Eases(Now, r, d)
  <2>1. Level(r, d) = Level(Now, d)
    <3>1. Now.rq[d].curr \in Tasks \cup {Idle}
      BY <1>1, StateParts DEF RQs
    <3> QED BY <1>2, <1>5, <3>1 DEF Level, prio
  <2>2. Waiting(r, d) \subseteq Waiting(Now, d)
    BY <1>2, <1>6 DEF Waiting
  <2>3. \A e : \A u \in OnQueue(Now.task, e) : r.task[u].prio = Now.task[u].prio
    BY <1>5 DEF OnQueue
  <2> QED BY <1>2, <1>5, <2>1, <2>2, <2>3, QueueEases
<1> QED BY <1>1, <1>2, <1>3, <1>7, QuietSettles

(* The task of set_prio is off the queues.                                 *)
LEMMA PrioOffSettles ==
  ASSUME N = 2, IInv, NEW x \in Contexts, NEW t \in Tasks, NEW new \in Prios, NEW choice,
         set_prio(x, t, new, choice), ~task[t].on_rq, \A d \in CPUs : Settled(Now, work, d)
  PROVE  \A d \in CPUs : Settled(Now', work', d)
<1> DEFINE n == NewPrio(Now, t, new)
<1>1. /\ Good(Now) /\ x \in Agents /\ Now.task = task /\ work[x] = NoWork /\ Now.work = NoWork
      /\ new \in 0 .. MAX_RT_PRIO
  BY NowIs, AgentIs, PushPullAssumption DEF set_prio
<1>2. Becomes(x, n)
  <2>1. [Now EXCEPT !.task[t].prio = new] = n
    BY DEF NewPrio, WithTask
  <2> QED BY <2>1 DEF set_prio
<1>3. /\ Good(n) /\ n.rq = Now.rq /\ n.work = NoWork
      /\ Differ(Now.task, n.task, t) /\ ~n.task[t].on_rq
  BY <1>1, NewPrioIs
<1> HIDE DEF n
<1>4. n.rq = rq' /\ n.task = task' /\ work' = [work EXCEPT ![x] = NoWork]
  BY <1>2, <1>3 DEF Becomes
<1>5. ASSUME NEW d \in CPUs, Runs(Now, d) PROVE Eases(Now, n, d)
  BY <1>1, <1>3, <1>5, OffEases
<1> QED BY <1>1, <1>3, <1>4, <1>5, QuietSettles

-----------------------------------------------------------------------------
LEMMA PreemptStays ==
  ASSUME NEW s, Good(s), NEW c \in CPUs, NEW t \in Tasks, s.task[t].on_rq, s.task[t].cpu = c,
         NEW r, r = check_preempt_curr(s, c, t)
  PROVE  /\ Good(r) /\ Stays(s, r, c) /\ r.work = s.work /\ ~Urgent(r, c, t)
         /\ AllOn(s) => AllOn(r)
<1> DEFINE m == [s EXCEPT !.rq[c].queue = AddHead(s, list_del(@, t), t)]
<1>1. Good(r) /\ r.work = s.work /\ ~Urgent(r, c, t)
  BY CheckPreempt
<1>2. CASE r = s
  BY <1>1, <1>2 DEF Stays
<1>3. CASE r = resched_task(s, c)
  <2>1. Stays(s, r, c) /\ \A d \in CPUs : r.rq[d].online = s.rq[d].online
    BY <1>3, ReschedStays
  <2> QED BY <1>1, <2>1 DEF AllOn
<1>4. CASE r = resched_task(m, c)
  <2>1. /\ Good(m) /\ m.task = s.task
        /\ \A d \in CPUs : /\ m.rq[d].curr = s.rq[d].curr
                           /\ m.rq[d].need_resched = s.rq[d].need_resched
                           /\ m.rq[d].online = s.rq[d].online
    BY Requeue
  <2> HIDE DEF m
  <2>2. Stays(m, r, c) /\ \A d \in CPUs : r.rq[d].online = m.rq[d].online
    BY <1>4, <2>1, ReschedStays
  <2>3. Stays(s, m, c)
    BY <2>1 DEF Stays
  <2>4. Stays(s, r, c)
    BY <2>2, <2>3, StaysTwice
  <2> QED BY <1>1, <2>1, <2>2, <2>4 DEF AllOn
<1> QED BY <1>2, <1>3, <1>4 DEF check_preempt_curr

(* A task joins the queue of c.                                            *)
LEMMA JoinEases ==
  ASSUME NEW s, Good(s), NEW c \in CPUs, NEW t \in Tasks, Off(s, t), NEW r,
         Joins(s.task, r.task, t, c), NEW e \in CPUs, t \notin Waiting(r, e),
         r.rq[e].curr = s.rq[e].curr, s.rq[e].need_resched => r.rq[e].need_resched
  PROVE  Eases(s, r, e)
<1>1. \A u \in Tasks : r.task[u].prio = s.task[u].prio /\ (u # t => r.task[u] = s.task[u])
  BY DEF Joins, Differ
<1>2. \A d : OnQueue(s.task, d) \subseteq OnQueue(r.task, d)
  BY <1>1 DEF OnQueue, Off
<1>3. Level(r, e) = Level(s, e)
  <2>1. s.rq[e].curr \in Tasks \cup {Idle}
    BY StateParts DEF Good, RQs
  <2> QED BY <1>1, <2>1 DEF Level, prio
<1>4. Waiting(r, e) \subseteq Waiting(s, e)
  BY <1>1 DEF Waiting, Movable, RtOn, OnQueue
<1>5. \A u \in Waiting(s, e) : u \in Tasks
  BY WaitingIs
<1>6. Leaves(s, r, e)
  BY <1>1, <1>3, <1>4, <1>5 DEF Leaves
<1>7. ASSUME NEW v, Loose(r, e, v) PROVE Loose(s, e, v)
  <2>1. v \in Waiting(s, e) /\ v \in Tasks
    BY <1>4, <1>5, <1>7 DEF Loose
  <2>2. \A u \in OnQueue(s.task, Peer(e)) : u \in Tasks /\ u \in OnQueue(r.task, Peer(e))
    BY <1>2 DEF OnQueue
  <2> QED BY <1>1, <1>3, <1>7, <2>1, <2>2 DEF Loose
<1>8. \A u \in OnQueue(s.task, e) : u \in OnQueue(r.task, e) /\ r.task[u].prio = s.task[u].prio
  BY <1>1, <1>2 DEF OnQueue
<1> QED BY <1>6, <1>7, <1>8 DEF Eases

(* task_woken_rt sees to the task that was woken.                          *)
LEMMA WokenSettles ==
  ASSUME N = 2, NEW s, Good(s), s.work = NoWork, AllOn(s), NEW c \in CPUs,
         NEW t \in Waiting(s, c), ~Urgent(s, c, t), Runs(s, c), NEW choice,
         NEW r, r = task_woken_rt(s, c, t, choice), NEW a \in Agents, NEW W2, W2[a] = r.work
  PROVE  Settled(r, W2, c)
<1>1. CASE s.rq[c].need_resched
  <2>1. PushFor("loop", None)
    BY DEF PushFor
  <2>2. r = s \/ Sends(s, r, c, "loop", None)
    BY <2>1, PushTaskNext DEF task_woken_rt
  <2>3. r.rq[c].need_resched
    BY <1>1, <2>2 DEF Sends, Stays
  <2> QED BY <2>3, PickingSettled
<1>2. CASE ~s.rq[c].need_resched
  <2> DEFINE k == s.rq[c].curr
  <2>1. /\ t \in Tasks /\ s.task[t].on_rq /\ s.task[t].cpu = c /\ s.task[t].prio < MAX_RT_PRIO
        /\ Cardinality(s.task[t].allowed) > 1 /\ t \in RtOn(s.task, c)
        /\ s.task[t].prio \in Int /\ Level(s, c) \in Int /\ k # t
    BY WaitingIs
  <2>2. Level(s, c) <= s.task[t].prio
    BY <1>2, <2>1, TaskIs DEF Urgent, Level
  <2>3. k \in Tasks /\ k # Idle /\ rt_task(s, k) /\ prio(s, k) <= prio(s, t)
    <3>1. k \in Tasks /\ k # Idle /\ rt_task(s, k) /\ s.task[k].prio = Level(s, c)
      BY <2>2, Runner
    <3> QED BY <2>1, <2>2, <3>1, TaskIs
  <2>4. rt_task(s, t) /\ nr_cpus_allowed(s, t) > 1 /\ s.rq[c].pushable # <<>>
    BY <2>1, HeadWaits, TaskIs DEF nr_cpus_allowed
  <2>5. r = push_rt_task(s, c, "loop", None, choice)
    BY <1>2, <2>1, <2>3, <2>4 DEF task_woken_rt
  <2>6. PushFor("loop", None)
    BY DEF PushFor
  <2>7. /\ Sends(s, r, c, "loop", None)
        /\ \A v \in Waiting(s, c) : Urgent(s, c, v) /\ RtOn(s.task, c) # {v} =>
             r.rq[c].need_resched
        /\ \A v : Loose(s, c, v) /\ AllOn(s) /\ s.task[s.rq[c].curr].on_rq =>
             r.rq[c].need_resched \/ r.work # NoWork
    BY <2>5, <2>6, PushTaskNext
  <2>8. /\ Eases(s, r, c) /\ Waiting(r, c) = Waiting(s, c)
        /\ r.work # NoWork => /\ r.work.op = "push" /\ r.work.rq = c /\ r.work.then = "loop"
    BY <2>7, SendsTo
  <2>9. CASE r.rq[c].need_resched
    BY <2>9, PickingSettled
  <2>10. CASE ~r.rq[c].need_resched
    <3>1. ASSUME NEW v \in Waiting(r, c), Urgent(r, c, v) PROVE FALSE
      <4>1. v \in Waiting(s, c) /\ Urgent(s, c, v)
        BY <2>8, <3>1, CarriedSummons DEF Eases
      <4>2. v # t
        BY <4>1
      <4> QED BY <2>1, <2>7, <2>10, <4>1, <4>2
    <3>2. ASSUME NEW v, Loose(r, c, v) PROVE Takes(r.work, r, c, v)
      <4>1. Loose(s, c, v)
        BY <2>8, <3>2 DEF Eases
      <4>2. r.work # NoWork
        BY <2>3, <2>7, <2>10, <4>1 DEF Runs
      <4> QED BY <2>8, <4>2 DEF Takes
    <3> QED BY <3>1, <3>2 DEF Settled
  <2> QED BY <2>9, <2>10
<1> QED BY <1>1, <1>2

LEMMA ttwu_queueSettles ==
  ASSUME N = 2, IInv, NEW x \in Contexts, NEW choice, ttwu_queue(x, choice),
         AllOn(Now), \A d \in CPUs : Settled(Now, work, d)
  PROVE  \A d \in CPUs : Settled(Now', work', d)
<1> DEFINE c == work[x].rq
           t == work[x].subject
           p == enqueue_task(Now, c, t, FALSE)
           m == check_preempt_curr(p, c, t)
           r == task_woken_rt(m, c, t, choice)
           W2 == [work EXCEPT ![x] = r.work]
<1>1. /\ Good(Now) /\ Base(Now, work, unseen, {}) /\ Now.work = NoWork
      /\ x \in Agents /\ work \in [Agents -> Works] /\ x \notin CPUs
  BY NowIs, AgentIs
<1>2. work[x].op = "wake" /\ Becomes(x, r)
  BY DEF ttwu_queue
<1>3. t \in Tasks /\ Off(Now, t) /\ Now.task[t].cpu = c /\ c \in CPUs
  <2>1. work[x] \in Works
    BY <1>1
  <2> QED BY <1>1, <1>2, <2>1, WakesOff DEF Works
<1>4. W2[x] = r.work
  BY <1>1
<1>5. \A e \in CPUs : \A v : ~Summons(work[x], Now, e, v) /\ ~Takes(work[x], Now, e, v)
  BY <1>2 DEF Summons, Takes
<1> HIDE DEF c, t, W2
<1>6. Good(p) /\ Kept(Now, p) /\ Joins(Now.task, p.task, t, c)
  <2>1. ~Now.task[t].on_rq /\ FALSE \in BOOLEAN
    BY <1>3 DEF Off
  <2> QED BY <1>1, <1>3, <2>1, EnqueueTask
<1> HIDE DEF p
<1>7. Good(m) /\ Stays(p, m, c) /\ m.work = NoWork /\ ~Urgent(m, c, t) /\ AllOn(m)
  <2>1. p.task[t].on_rq /\ p.task[t].cpu = c
    BY <1>6 DEF Joins
  <2>2. AllOn(p) /\ p.work = NoWork
    BY <1>1, <1>6 DEF Kept, AllOn
  <2> QED BY <1>3, <1>6, <2>1, <2>2, PreemptStays
<1> HIDE DEF m
<1>8. /\ Joins(Now.task, m.task, t, c)
      /\ \A e \in CPUs : /\ m.rq[e].curr = Now.rq[e].curr
                         /\ Now.rq[e].need_resched => m.rq[e].need_resched
  BY <1>6, <1>7 DEF Stays, Kept
<1>9. Sends(m, r, c, "loop", None)
  <2>1. PushFor("loop", None)
    BY DEF PushFor
  <2>2. CASE r = m
    BY <1>7, <2>2 DEF Sends, Stays
  <2>3. CASE r = push_rt_task(m, c, "loop", None, choice)
    BY <1>3, <1>7, <2>1, <2>3, PushTaskNext
  <2> QED BY <2>2, <2>3 DEF task_woken_rt
<1>10. Good(r) /\ \A e \in CPUs : Eases(m, r, e)
  BY <1>3, <1>7, <1>9, SendsTo
<1>11. ASSUME NEW e \in CPUs, t \notin Waiting(m, e) PROVE Answers(Now, work, x, r, W2, e)
  <2>1. Eases(Now, m, e)
    BY <1>1, <1>3, <1>8, <1>11, JoinEases
  <2>2. Eases(Now, r, e)
    BY <1>10, <2>1, EasesTwice
  <2> HIDE DEF r
  <2> QED BY <1>5, <2>2 DEF Answers
<1>12. ASSUME Runs(Now, c), t \in Waiting(m, c) PROVE Settled(r, W2, c)
  <2>1. Runs(m, c)
    BY <1>3, <1>8, <1>12 DEF Runs, Joins, Differ
  <2>2. r = task_woken_rt(m, c, t, choice)
    OBVIOUS
  <2> HIDE DEF r
  <2> QED BY <1>1, <1>3, <1>4, <1>7, <1>12, <2>1, <2>2, WokenSettles
<1> HIDE DEF r
<1>13. ASSUME NEW e \in CPUs PROVE Settled(Now', work', e)
  <2>1. Runs(Now, e) => Settled(r, W2, e) \/ Answers(Now, work, x, r, W2, e)
    <3>1. CASE e = c
      BY <1>11, <1>12, <3>1
    <3>2. CASE e # c
      <4>1. t \notin Waiting(m, e)
        BY <1>7, <1>8, <1>13, <3>2, WaitingIs DEF Joins
      <4> QED BY <1>11, <4>1
    <3> QED BY <3>1, <3>2
  <2> QED BY <1>1, <1>2, <1>10, <2>1, AgentSettles DEF W2
<1> QED BY <1>13

-----------------------------------------------------------------------------
(* Only t has another priority: it is queued on c before and after.        *)
Reweighs(s, r, t, c) ==
  /\ Kept(s, r) /\ Differ(s.task, r.task, t)
  /\ s.task[t].on_rq /\ s.task[t].cpu = c
  /\ r.task[t].on_rq /\ r.task[t].cpu = c

LEMMA ReweighsQueues ==
  ASSUME NEW s, Good(s), NEW r, Good(r), NEW c \in CPUs, NEW t \in Tasks, Reweighs(s, r, t, c)
  PROVE  /\ \A d : OnQueue(r.task, d) = OnQueue(s.task, d)
         /\ \A u \in Tasks \ {t} : r.task[u] = s.task[u]
         /\ \A d \in CPUs : r.rq[d].curr = s.rq[d].curr
                            /\ r.rq[d].need_resched = s.rq[d].need_resched
         /\ \A d \in CPUs : Runs(s, d) => Runs(r, d)
         /\ \A d \in CPUs : s.rq[d].curr # t => Level(r, d) = Level(s, d)
         /\ \A d : Movable(r.task, d) \ {t} = Movable(s.task, d) \ {t}
         /\ \A d : d # c => Movable(r.task, d) = Movable(s.task, d)
<1>1. \A u \in Tasks \ {t} : r.task[u] = s.task[u]
  BY DEF Reweighs, Differ
<1>2. \A d \in CPUs : /\ r.rq[d].curr = s.rq[d].curr
                      /\ r.rq[d].need_resched = s.rq[d].need_resched
                      /\ s.rq[d].curr \in Tasks \cup {Idle}
  BY StateParts DEF Good, RQs, Reweighs, Kept
<1>3. \A d : OnQueue(r.task, d) = OnQueue(s.task, d)
  BY <1>1 DEF OnQueue, Reweighs
<1>4. \A d \in CPUs : Runs(s, d) => Runs(r, d)
  BY <1>1, <1>2 DEF Runs, Reweighs
<1>5. \A d \in CPUs : s.rq[d].curr # t => Level(r, d) = Level(s, d)
  BY <1>1, <1>2 DEF Level, prio
<1>6. \A d : Movable(r.task, d) \ {t} = Movable(s.task, d) \ {t}
  BY <1>1 DEF Movable, RtOn, OnQueue
<1>7. \A d : d # c => t \notin Movable(r.task, d) /\ t \notin Movable(s.task, d)
  BY DEF Movable, RtOn, OnQueue, Reweighs
<1>8. \A d : d # c => Movable(r.task, d) = Movable(s.task, d)
  BY <1>6, <1>7
<1> QED BY <1>1, <1>2, <1>3, <1>4, <1>5, <1>6, <1>8

(* The other CPU: tasks may get loose there if t gets less important.      *)
LEMMA ReweighsPeer ==
  ASSUME N = 2, NEW s, Good(s), NEW r, Good(r), NEW c \in CPUs, NEW t \in Tasks,
         Reweighs(s, r, t, c)
  PROVE  /\ Leaves(s, r, Peer(c))
         /\ r.task[t].prio <= s.task[t].prio => Eases(s, r, Peer(c))
<1> DEFINE d == Peer(c)
<1>1. d \in CPUs /\ d # c /\ Peer(d) = c
  BY TwoCPUs
<1>2. s.rq[d].curr # t
  BY <1>1 DEF Reweighs, Good, Placed
<1>3. /\ r.rq[d].curr = s.rq[d].curr /\ r.rq[d].need_resched = s.rq[d].need_resched
      /\ Level(r, d) = Level(s, d) /\ Waiting(r, d) = Waiting(s, d)
      /\ OnQueue(r.task, d) = OnQueue(s.task, d) /\ OnQueue(r.task, c) = OnQueue(s.task, c)
      /\ \A u \in Tasks \ {t} : r.task[u] = s.task[u]
  BY <1>1, <1>2, ReweighsQueues DEF Waiting
<1>4. \A u \in OnQueue(s.task, d) : r.task[u].prio = s.task[u].prio
  BY <1>1, <1>3 DEF OnQueue, Reweighs
<1>5. \A v \in Waiting(s, d) : /\ v \in OnQueue(s.task, d) /\ s.task[v].prio \in Int
                               /\ r.task[v].prio = s.task[v].prio
  BY <1>1, <1>4, WaitingIs
<1>6. Leaves(s, r, d)
  BY <1>3, <1>5 DEF Leaves
<1>7. ASSUME r.task[t].prio <= s.task[t].prio, NEW v, Loose(r, d, v) PROVE Loose(s, d, v)
  <2>1. v \in Waiting(s, d)
    BY <1>3, <1>7 DEF Loose
  <2>2. \A u \in OnQueue(s.task, c) : s.task[v].prio < s.task[u].prio
    <3> SUFFICES ASSUME NEW u \in OnQueue(s.task, c) PROVE s.task[v].prio < s.task[u].prio
      OBVIOUS
    <3>1. s.task[v].prio < r.task[u].prio
      BY <1>1, <1>3, <1>5, <1>7, <2>1 DEF Loose
    <3>2. s.task[u].prio \in Int /\ r.task[u].prio \in Int /\ u \in Tasks
      BY <1>3, WaitingIs
    <3> QED BY <1>3, <1>5, <1>7, <2>1, <3>1, <3>2
  <2> QED BY <1>1, <1>3, <1>5, <1>7, <2>1, <2>2 DEF Loose
<1> QED BY <1>3, <1>4, <1>6, <1>7 DEF Eases, d

(* c runs t.                                                               *)
LEMMA ReweighsRunner ==
  ASSUME NEW s, Good(s), NEW r, Good(r), NEW c \in CPUs, NEW t \in Tasks,
         Reweighs(s, r, t, c), s.rq[c].curr = t
  PROVE  /\ Level(s, c) = s.task[t].prio /\ Level(r, c) = r.task[t].prio
         /\ s.task[t].prio \in Int /\ r.task[t].prio \in Int
         /\ Waiting(r, c) = Waiting(s, c)
         /\ \A v \in Waiting(s, c) : /\ v \in Tasks /\ v # t /\ s.task[v].prio \in Int
                                     /\ r.task[v] = s.task[v]
                                     /\ s.task[v].on_rq /\ s.task[v].cpu = c
         /\ \A w, v : v \in Waiting(s, c) /\ First(w, s, c, v) => First(w, r, c, v)
<1>1. /\ Level(s, c) = s.task[t].prio /\ s.task[t].prio \in Int
      /\ Level(r, c) = r.task[t].prio /\ r.task[t].prio \in Int
  BY ReweighsQueues, WaitingIs, TaskIs DEF Level
<1>2. Waiting(r, c) = Waiting(s, c)
  BY ReweighsQueues DEF Waiting
<1>3. \A v \in Waiting(s, c) : /\ v \in Tasks /\ v # t /\ s.task[v].prio \in Int
                               /\ r.task[v] = s.task[v]
                               /\ s.task[v].on_rq /\ s.task[v].cpu = c
  BY ReweighsQueues, WaitingIs
<1> QED BY <1>1, <1>2, <1>3 DEF First

(* What is loose on c when c runs t with its new priority was so before,   *)
(* or more important than t.                                               *)
LEMMA ReweighsLoose ==
  ASSUME N = 2, NEW s, Good(s), NEW r, Good(r), NEW c \in CPUs, NEW t \in Tasks,
         Reweighs(s, r, t, c), s.rq[c].curr = t, NEW v, Loose(r, c, v)
  PROVE  /\ v \in Waiting(s, c)
         /\ s.task[t].prio <= s.task[v].prio => Loose(s, c, v)
         /\ s.task[v].prio < s.task[t].prio => Urgent(s, c, v)
<1> DEFINE d == Peer(c)
<1>1. d \in CPUs /\ d # c
  BY TwoCPUs
<1> HIDE DEF d
<1>2. /\ v \in Waiting(r, c) /\ ~r.rq[c].need_resched
      /\ \A u \in OnQueue(r.task, d) : r.task[v].prio < r.task[u].prio
  BY DEF Loose, d
<1>3. /\ v \in Waiting(s, c) /\ v \in Tasks /\ r.task[v] = s.task[v] /\ ~s.rq[c].need_resched
      /\ Level(s, c) = s.task[t].prio /\ s.task[v].on_rq /\ s.task[v].cpu = c
  BY <1>2, ReweighsRunner, ReweighsQueues
<1>4. \A u \in OnQueue(s.task, d) : u \in OnQueue(r.task, d) /\ r.task[u] = s.task[u]
  <2>1. \A u \in OnQueue(s.task, d) : u \in Tasks \ {t}
    BY <1>1 DEF OnQueue, Reweighs
  <2> QED BY <2>1, ReweighsQueues
<1>5. \A u \in OnQueue(s.task, d) : s.task[v].prio < s.task[u].prio
  BY <1>2, <1>3, <1>4
<1>6. s.task[v].prio < s.task[t].prio => Urgent(s, c, v)
  BY <1>3, TaskIs DEF Urgent
<1>7. s.task[t].prio <= s.task[v].prio => Loose(s, c, v)
  BY <1>3, <1>5 DEF Loose, d
<1> QED BY <1>3, <1>6, <1>7

(* No pull of W goes on with the change of t's priority.                   *)
NotAbout(W, t) ==
  \A b \in Agents : W[b].op = "pull" /\ W[b].then = "prio" => W[b].subject # t

(* a, which had nothing to do in W, has w to do in W2.                     *)
Starts(W, W2, a, w) ==
  /\ W \in [Agents -> Works] /\ a \in Agents /\ W[a] = NoWork
  /\ W2 = [W EXCEPT ![a] = w]

LEMMA RaisedSettles ==
  ASSUME N = 2, NEW s, Good(s), NEW r, Good(r), NEW c \in CPUs, NEW t \in Tasks,
         Reweighs(s, r, t, c), s.rq[c].curr = t, r.task[t].prio <= s.task[t].prio,
         NEW W, Settled(s, W, c), NotAbout(W, t)
  PROVE  Settled(r, W, c)
<1>1. /\ Level(s, c) = s.task[t].prio /\ Level(r, c) = r.task[t].prio
      /\ s.task[t].prio \in Int /\ r.task[t].prio \in Int
      /\ Waiting(r, c) = Waiting(s, c)
      /\ \A v \in Waiting(s, c) : /\ v \in Tasks /\ v # t /\ s.task[v].prio \in Int
                                  /\ r.task[v] = s.task[v]
                                  /\ s.task[v].on_rq /\ s.task[v].cpu = c
      /\ \A w, v : v \in Waiting(s, c) /\ First(w, s, c, v) => First(w, r, c, v)
      /\ r.rq[c].curr = t /\ r.rq[c].need_resched = s.rq[c].need_resched
  BY ReweighsRunner, ReweighsQueues
<1>2. ASSUME NEW v \in Waiting(s, c), Urgent(r, c, v)
      PROVE  \E b \in Agents : Summons(W[b], r, c, v)
  <2>1. s.task[v].prio < s.task[t].prio
    <3>1. s.task[v].prio < r.task[t].prio
      BY <1>1, <1>2, TaskIs DEF Urgent
    <3> QED BY <1>1, <3>1
  <2>2. Urgent(s, c, v)
    BY <1>1, <1>2, <2>1, TaskIs DEF Urgent
  <2>3. PICK b \in Agents : Summons(W[b], s, c, v)
    BY <2>2 DEF Settled
  <2>4. Summons(W[b], r, c, v)
    BY <1>1, <2>3 DEF Summons
  <2> QED BY <2>4
<1>3. ASSUME NEW v, Loose(r, c, v) PROVE \E b \in Agents : Takes(W[b], r, c, v)
  <2>1. /\ v \in Waiting(s, c)
        /\ s.task[t].prio <= s.task[v].prio => Loose(s, c, v)
        /\ s.task[v].prio < s.task[t].prio => Urgent(s, c, v)
    BY <1>3, ReweighsLoose
  <2>2. CASE Loose(s, c, v)
    <3>1. PICK b \in Agents : Takes(W[b], s, c, v)
      BY <2>1, <2>2 DEF Settled
    <3>2. Takes(W[b], r, c, v)
      BY <1>1, <2>1, <3>1 DEF Takes, NotAbout
    <3> QED BY <3>2
  <2>3. CASE Urgent(s, c, v)
    <3>1. PICK b \in Agents : Summons(W[b], s, c, v)
      BY <2>1, <2>3 DEF Settled
    <3>2. Takes(W[b], r, c, v)
      BY <1>1, <2>1, <3>1 DEF Summons, Takes, NotAbout
    <3> QED BY <3>2
  <2> QED BY <1>1, <2>1, <2>2, <2>3
<1> QED BY <1>1, <1>2, <1>3 DEF Settled

LEMMA LoweredTakes ==
  ASSUME N = 2, NEW s, Good(s), NEW r, Good(r), NEW c \in CPUs, NEW t \in Tasks,
         Reweighs(s, r, t, c), s.rq[c].curr = t, s.task[t].prio <= r.task[t].prio,
         NEW v, Loose(r, c, v), NEW w
  PROVE  v \in Waiting(s, c) /\ Loose(s, c, v) /\ (Takes(w, s, c, v) => Takes(w, r, c, v))
<1>1. /\ Level(s, c) = s.task[t].prio /\ Level(r, c) = r.task[t].prio
      /\ s.task[t].prio \in Int /\ r.task[t].prio \in Int
      /\ Waiting(r, c) = Waiting(s, c) /\ v \in Waiting(r, c)
      /\ r.task[v] = s.task[v] /\ s.task[v].prio \in Int
      /\ \A w2, v2 : v2 \in Waiting(s, c) /\ First(w2, s, c, v2) => First(w2, r, c, v2)
      /\ r.rq[c].curr = t
  <2>1. v \in Waiting(r, c)
    BY DEF Loose
  <2> QED BY <2>1, ReweighsRunner, ReweighsQueues
<1>2. s.task[t].prio <= s.task[v].prio
  <2>1. r.task[t].prio <= s.task[v].prio
    BY <1>1 DEF Loose
  <2> QED BY <1>1, <2>1
<1>3. Loose(s, c, v)
  BY <1>2, ReweighsLoose
<1>4. ASSUME NEW u \in OnQueue(s.task, c), s.task[u].prio < Level(s, c)
      PROVE  u \in OnQueue(r.task, c) /\ r.task[u].prio < Level(r, c)
  <2>1. u \in Tasks \ {t}
    BY <1>1, <1>4 DEF OnQueue
  <2>2. u \in OnQueue(r.task, c) /\ r.task[u] = s.task[u] /\ s.task[u].prio \in Int
    BY <2>1, ReweighsQueues, WaitingIs
  <2> QED BY <1>1, <1>4, <2>2
<1>5. Takes(w, s, c, v) => Takes(w, r, c, v)
  BY <1>1, <1>4 DEF Takes
<1> QED BY <1>1, <1>3, <1>5

(* What is left of s in r, once the running task of c has become less      *)
(* important and c has begun to pull.                                      *)
Lowered(s, r, W2, c) ==
  /\ Good(r)
  /\ r.rq[c].need_resched \/ Settled(r, W2, c)
  /\ Runs(s, Peer(c)) => Settled(r, W2, Peer(c))

(* prio_changed_rt of a running task that got less important.              *)
LEMMA LoweredSettles ==
  ASSUME N = 2, NEW s, Good(s), NEW p, Good(p), NEW c \in CPUs, NEW t \in Tasks,
         Reweighs(s, p, t, c), s.rq[c].curr = t, s.task[t].prio <= p.task[t].prio,
         p.work = NoWork, AllOn(p), NEW r, r = pull_rt_task(p, c, "prio", t),
         NEW W, Settled(s, W, c), Settled(s, W, Peer(c)),
         NEW a, NEW w, w = r.work, NEW W2, Starts(W, W2, a, w)
  PROVE  Lowered(s, r, W2, c)
<1> DEFINE d == Peer(c)
<1>1. d \in CPUs /\ d # c
  BY TwoCPUs
<1>2. /\ W2[a] = w /\ \A b \in Agents \ {a} : W2[b] = W[b]
      /\ W \in [Agents -> Works] /\ a \in Agents /\ W[a] = NoWork
      /\ W2 = [W EXCEPT ![a] = w]
  BY DEF Starts
<1>3. ASSUME NEW v, Loose(p, c, v) PROVE \E b \in Agents : Takes(W2[b], p, c, v)
  <2>1. v \in Waiting(s, c) /\ Loose(s, c, v)
    BY <1>3, LoweredTakes
  <2>2. PICK b \in Agents : Takes(W[b], s, c, v)
    BY <2>1 DEF Settled
  <2>3. b # a
    BY <1>2, <2>2, NoWorkIdle
  <2>4. Takes(W[b], p, c, v)
    BY <1>3, <2>2, LoweredTakes
  <2> QED BY <1>2, <2>3, <2>4
<1>4. Leaves(s, p, d) /\ (Runs(s, d) => Runs(p, d))
  BY <1>1, ReweighsPeer, ReweighsQueues
<1> HIDE DEF d
<1>5. ASSUME /\ r = Pulled(p, c, "prio", t)
             /\ Runs(p, d) => \A v : ~Loose(p, d, v)
      PROVE  /\ Good(r)
             /\ r.rq[c].need_resched \/ Settled(r, W2, c)
             /\ Runs(s, d) => Settled(r, W2, d)
  <2>1. PullFor("prio", t)
    BY DEF PullFor
  <2>2. Good(r) /\ Eases(p, r, d) /\ r.task = p.task
    BY <1>5, <2>1, PulledPeer DEF d
  <2>3. r = (IF prio(p, t) > highest_prio(p, c) /\ p.rq[c].curr = t
             THEN resched_task(p, c) ELSE p)
    BY <1>5 DEF Pulled
  <2>4. CASE prio(p, t) > highest_prio(p, c) /\ p.rq[c].curr = t
    <3>1. r.rq[c].need_resched
      BY <2>3, <2>4, ReschedStays
    <3>2. Leaves(s, r, d)
      BY <1>4, <2>2, LeavesTwice DEF Eases
    <3>3. Runs(s, d) => \A v \in Waiting(r, d) : Loose(r, d, v) => Takes(w, r, d, v)
      BY <1>4, <1>5, <2>2 DEF Eases
    <3>4. Runs(s, d) => Settled(r, W2, d)
      BY <1>1, <1>2, <3>2, <3>3, TakenSettled DEF d
    <3> QED BY <2>2, <3>1, <3>4 DEF d
  <2>5. CASE ~(prio(p, t) > highest_prio(p, c) /\ p.rq[c].curr = t)
    <3>1. r = p
      BY <2>3, <2>5
    <3>2. p.rq[c].curr = t /\ prio(p, t) = Level(p, c) /\ Level(p, c) \in Int
      BY ReweighsQueues, WaitingIs DEF Level
    <3>3. ASSUME NEW v \in Waiting(p, c), Urgent(p, c, v) PROVE FALSE
      <4>1. /\ v \in OnQueue(p.task, c) /\ v \in Tasks /\ p.task[v].prio \in Int
        BY <3>3, WaitingIs
      <4>2. p.task[v].prio < Level(p, c)
        BY <3>3, <4>1, TaskIs DEF Urgent, Level
      <4>3. highest_prio(p, c) <= p.task[v].prio /\ highest_prio(p, c) \in Int
        BY <4>1, Above
      <4> QED BY <2>5, <3>2, <4>1, <4>2, <4>3
    <3>4. Settled(p, W2, c)
      BY <1>3, <3>3 DEF Settled
    <3>5. Runs(s, d) => \A v \in Waiting(p, d) : Loose(p, d, v) => Takes(w, p, d, v)
      BY <1>4, <1>5
    <3>6. Runs(s, d) => Settled(p, W2, d)
      BY <1>1, <1>2, <1>4, <3>5, TakenSettled DEF d
    <3> QED BY <3>1, <3>4, <3>6 DEF d
  <2> QED BY <2>4, <2>5
<1>6. ASSUME /\ Good(r) /\ r.rq = p.rq /\ r.task = p.task
             /\ w = Work("pull", c, None, d, 0, "prio", t)
      PROVE  /\ Good(r)
             /\ r.rq[c].need_resched \/ Settled(r, W2, c)
             /\ Runs(s, d) => Settled(r, W2, d)
  <2>1. w.op = "pull" /\ w.rq = c /\ w.then = "prio"
    BY <1>6 DEF Work
  <2>2. \A v : Summons(w, p, c, v)
    BY <2>1 DEF Summons
  <2>3. Settled(p, W2, c)
    BY <1>2, <1>3, <2>2 DEF Settled
  <2>4. Settled(r, W2, c)
    BY <1>6, <2>3, SettledView
  <2>5. \A v : Takes(w, r, d, v)
    BY <1>1, <2>1 DEF Takes
  <2>6. Leaves(s, r, d)
    <3>1. Eases(p, r, d)
      BY <1>1, <1>6, EasesSame
    <3> QED BY <1>4, <3>1, LeavesTwice DEF Eases
  <2>7. Settled(r, W2, d)
    BY <1>1, <1>2, <2>5, <2>6, TakenSettled DEF d
  <2> QED BY <1>6, <2>4, <2>7 DEF d
<1>7. PullFor("prio", t)
  BY DEF PullFor
<1>8. \/ /\ r = Pulled(p, c, "prio", t)
         /\ Runs(p, d) => \A v : ~Loose(p, d, v)
      \/ /\ Good(r) /\ r.rq = p.rq /\ r.task = p.task
         /\ w = Work("pull", c, None, d, 0, "prio", t)
  BY <1>7, PullFinds DEF d
<1>9. /\ Good(r)
      /\ r.rq[c].need_resched \/ Settled(r, W2, c)
      /\ Runs(s, d) => Settled(r, W2, d)
  BY <1>5, <1>6, <1>8
<1> QED BY <1>9 DEF Lowered, d

(* switched_to_rt of a task that c does not run.                           *)
LEMMA SwitchedSettles ==
  ASSUME N = 2, NEW p, Good(p), p.work = NoWork, AllOn(p), NEW c \in CPUs, NEW t \in Tasks,
         t \in RtOn(p.task, c), p.rq[c].curr # t, NEW choice, NEW r,
         r = IF p.rq[c].overloaded THEN push_rt_task(p, c, "switched", t, choice)
             ELSE switched_to_rt_ends(p, c, t, FALSE),
         NEW a \in Agents, NEW W2, W2[a] = r.work
  PROVE  /\ Good(r) /\ Eases(p, r, Peer(c))
         /\ Runs(p, c) => r.rq[c].need_resched \/ Settled(r, W2, c)
<1>1. Peer(c) \in CPUs /\ PushFor("switched", t) /\ FALSE \in BOOLEAN
  BY TwoCPUs DEF PushFor
<1>2. CASE p.rq[c].overloaded
  <2>1. r = push_rt_task(p, c, "switched", t, choice)
    BY <1>2
  <2>2. /\ Sends(p, r, c, "switched", t)
        /\ \A v \in Waiting(p, c) : Urgent(p, c, v) /\ RtOn(p.task, c) # {v} =>
             r.rq[c].need_resched
        /\ \A v : Loose(p, c, v) /\ AllOn(p) /\ p.task[p.rq[c].curr].on_rq =>
             r.rq[c].need_resched \/ r.work # NoWork
    BY <1>1, <2>1, PushTaskNext
  <2>3. /\ Good(r) /\ \A d \in CPUs : Eases(p, r, d) /\ Waiting(r, d) = Waiting(p, d)
        /\ r.work # NoWork => /\ r.work.op = "push" /\ r.work.rq = c
                              /\ r.work.then = "switched" /\ r.work.subject = t
                              /\ \A v \in Waiting(r, c) : First(r.work, r, c, v)
    <3>1. Sends(p, r, c, "switched", t)
      BY <2>2
    <3> QED BY ONLY Good(p), c \in CPUs, <3>1, SendsTo
  <2>4. r.work = NoWork => ~Urgent(r, c, t)
    <3>1. PushResult(p, r, c, "switched", t)
      BY <1>1, <2>1, PushTask
    <3> QED BY <3>1, PushLeft
  <2>5. ASSUME Runs(p, c), ~r.rq[c].need_resched PROVE Settled(r, W2, c)
    <3>1. ASSUME NEW v \in Waiting(r, c), Urgent(r, c, v) PROVE Summons(r.work, r, c, v)
      <4>1. v \in Waiting(p, c) /\ Urgent(p, c, v)
        BY <2>3, <3>1, CarriedSummons DEF Eases
      <4>2. v = t
        BY <2>2, <2>5, <4>1
      <4>3. r.work # NoWork
        BY <2>4, <3>1, <4>2
      <4> QED BY <2>3, <4>2, <4>3 DEF Summons
    <3>2. ASSUME NEW v \in Waiting(r, c), Loose(r, c, v) PROVE Takes(r.work, r, c, v)
      <4>1. Loose(p, c, v) /\ v \in Waiting(p, c) /\ Level(p, c) <= p.task[v].prio
        BY <2>3, <3>2 DEF Eases, Loose
      <4>2. p.rq[c].curr \in Tasks
        BY <4>1, Runner
      <4>3. r.work # NoWork
        BY <2>2, <2>5, <4>1, <4>2 DEF Runs
      <4> QED BY <2>3, <4>3 DEF Takes
    <3> QED BY <3>1, <3>2 DEF Settled
  <2> QED BY <1>1, <2>3, <2>5
<1>3. CASE ~p.rq[c].overloaded
  <2>1. r = switched_to_rt_ends(p, c, t, FALSE)
    BY <1>3
  <2>2. r = p \/ r = resched_task(p, c)
    BY <2>1 DEF switched_to_rt_ends
  <2>3. /\ Good(r) /\ Stays(p, r, c) /\ r.work = NoWork
    <3>1. CASE r = p
      BY <3>1 DEF Stays
    <3>2. CASE r = resched_task(p, c)
      BY <3>2, ReschedStays
    <3> QED BY <2>2, <3>1, <3>2
  <2>4. \A d \in CPUs : Eases(p, r, d) /\ Waiting(r, d) = Waiting(p, d)
    <3>1. r.task = p.task
      BY <2>3 DEF Stays
    <3>2. \A d \in CPUs : r.rq[d].curr = p.rq[d].curr
                          /\ (p.rq[d].need_resched => r.rq[d].need_resched)
      BY <2>3 DEF Stays
    <3> QED BY <2>3, <3>1, <3>2, EasesSame
  <2>5. ASSUME Runs(p, c), ~r.rq[c].need_resched PROVE Settled(r, W2, c)
    <3>1. r = p /\ ~(prio(p, t) < prio(p, p.rq[c].curr))
      BY <2>1, <2>5, ReschedStays DEF switched_to_rt_ends
    <3>2. ASSUME NEW v \in Waiting(p, c), v # t PROVE FALSE
      <4>1. v \in Movable(p.task, c)
        BY <3>2 DEF Waiting
      <4> QED BY <1>3, <3>2, <4>1, Overloaded
    <3>3. ~Urgent(p, c, t)
      BY <3>1 DEF Urgent
    <3>4. ASSUME NEW v \in Waiting(p, c), Loose(p, c, v) PROVE FALSE
      <4>1. Level(p, c) <= p.task[v].prio
        BY <3>4 DEF Loose
      <4>2. /\ p.rq[c].curr \in Tasks /\ p.rq[c].curr # v
            /\ p.task[p.rq[c].curr].on_rq => p.rq[c].curr \in RtOn(p.task, c)
        BY <4>1, Runner
      <4>3. p.rq[c].curr \in RtOn(p.task, c)
        BY <2>5, <4>2 DEF Runs
      <4>4. v \in Movable(p.task, c)
        BY DEF Waiting
      <4> QED BY <1>3, <4>2, <4>3, <4>4, Overloaded
    <3> QED BY <3>1, <3>2, <3>3, <3>4 DEF Settled
  <2> QED BY <1>1, <2>3, <2>4, <2>5
<1> QED BY <1>2, <1>3

(* Whoever runs t on c has not got less important.                         *)
LEMMA RunnerSettles ==
  ASSUME N = 2, NEW s, Good(s), NEW p, Good(p), p.work = NoWork, NEW c \in CPUs, NEW t \in Tasks,
         Reweighs(s, p, t, c), s.rq[c].curr = t, p.task[t].prio <= s.task[t].prio,
         NEW r, r = p \/ r = resched_task(p, c),
         NEW W, Settled(s, W, c), NotAbout(W, t),
         NEW a, NEW w, w = r.work, NEW W2, Starts(W, W2, a, w)
  PROVE  /\ Good(r) /\ Eases(s, r, Peer(c))
         /\ r.rq[c].need_resched \/ Settled(r, W2, c)
<1>1. Peer(c) \in CPUs
  BY TwoCPUs
<1>2. /\ Good(r) /\ Stays(p, r, c) /\ r.work = NoWork
      /\ r = p \/ r.rq[c].need_resched
  <2>1. CASE r = p
    BY <2>1 DEF Stays
  <2>2. CASE r = resched_task(p, c)
    BY <2>2, ReschedStays
  <2> QED BY <2>1, <2>2
<1>3. Eases(s, p, Peer(c))
  BY ReweighsPeer
<1>4. Eases(p, r, Peer(c))
  BY <1>1, <1>2, EasesSame DEF Stays
<1>5. Eases(s, r, Peer(c))
  BY <1>3, <1>4, EasesTwice
<1>6. W2 = W
  BY <1>2 DEF Starts
<1>7. Settled(p, W, c)
  BY RaisedSettles
<1> QED BY <1>2, <1>5, <1>6, <1>7

(* The task of set_prio is queued.                                         *)
LEMMA PrioOnSettles ==
  ASSUME N = 2, IInv, NEW x \in Contexts, NEW t \in Tasks, NEW new \in Prios, NEW choice,
         set_prio(x, t, new, choice), task[t].on_rq, unseen' = {}, AllOn(Now),
         \A d \in CPUs : Settled(Now, work, d)
  PROVE  \A d \in CPUs : Settled(Now', work', d)
<1> DEFINE c == task[t].cpu
           d == Peer(c)
           old == task[t].prio
           p == Requeued(Now, c, t, new)
           r == check_class_changed(p, c, t, old, choice)
           w == r.work
           W2 == [work EXCEPT ![x] = w]
<1>1. /\ Good(Now) /\ Now \in States /\ Now.work = NoWork /\ Now.rq = rq /\ Now.task = task
      /\ x \in Agents /\ work \in [Agents -> Works] /\ x \notin CPUs /\ c \in CPUs
      /\ \A b \in Agents : WorkOk(b, work[b], Now, unseen)
      /\ old \in 0 .. MAX_RT_PRIO /\ new \in 0 .. MAX_RT_PRIO
      /\ MAX_RT_PRIO \in Nat
  <2>1. Now \in States
    BY NowIs DEF Good
  <2> QED BY <2>1, NowIs, AgentIs, StateParts, PushPullAssumption
<1>2. /\ work[x] = NoWork /\ new # old /\ ~Busy(t) /\ Becomes(x, r)
      /\ old < MAX_RT_PRIO => new < MAX_RT_PRIO /\ rq[c].curr = t
  <2>1. \A s : [s EXCEPT !.task[t].prio = new] = NewPrio(s, t, new)
    BY DEF NewPrio, WithTask
  <2>2. rt_task(Now, t) <=> old < MAX_RT_PRIO
    BY <1>1, TaskIs
  <2>3. Becomes(x, r)
    BY <2>1 DEF set_prio, Requeued
  <2>4. rt_task(Now, t) => new # MAX_RT_PRIO /\ rq[c].curr = t
    BY DEF set_prio
  <2> QED BY <1>1, <2>2, <2>3, <2>4 DEF set_prio
<1>3. NotAbout(work, t)
  <2> SUFFICES ASSUME NEW b \in Agents, work[b].op = "pull", work[b].then = "prio",
                      work[b].subject = t
               PROVE  FALSE
    BY DEF NotAbout
  <2>1. work[b] # NoWork /\ work[b] # Work("post", b, None, 1, 0, "loop", None)
    BY AgentIs DEF Work
  <2>2. b \in Contexts
    BY <1>1, <2>1 DEF WorkOk
  <2> QED BY <1>2, <2>1, <2>2 DEF Busy
<1>4. /\ Good(p) /\ Kept(Now, p) /\ Differ(Now.task, p.task, t)
      /\ p.task[t].prio = new /\ p.task[t].on_rq /\ p.task[t].cpu = c
  <2>1. p = Requeued(Now, c, t, new)
    OBVIOUS
  <2>2. Now.task[t].on_rq /\ Now.task[t].cpu = c
    BY <1>1
  <2> HIDE DEF p, c, r, old
  <2>3. new \in 0 .. MAX_RT_PRIO
    BY <1>1
  <2> QED BY ONLY t \in Tasks, <1>1, <2>1, <2>2, <2>3, Reprioritised
<1>5. d \in CPUs /\ CPUs = {c, d}
  BY <1>1, TwoCPUs
<1>6. Now.task[t].on_rq /\ Now.task[t].cpu = c /\ Now.task[t].prio = old
  BY <1>1
<1> HIDE DEF p, c, old
<1>7. /\ Reweighs(Now, p, t, c) /\ p.work = NoWork /\ AllOn(p) /\ p.rq[c].curr = Now.rq[c].curr
      /\ prio(p, t) = new
  BY <1>1, <1>4, <1>6, TaskIs DEF Reweighs, Kept, AllOn
<1>8. new < MAX_RT_PRIO /\ rt_task(p, t)
  <2>1. new < MAX_RT_PRIO
    BY <1>1, <1>2
  <2> QED BY <1>4, <2>1, TaskIs
<1>9. W2[x] = w /\ W2 = [work EXCEPT ![x] = w] /\ w = r.work /\ Starts(work, W2, x, w)
  BY <1>1, <1>2 DEF Starts
<1> HIDE DEF W2, w, d
<1>10. Good(r) /\ \A e \in CPUs : Runs(Now, e) => \/ r.rq[e].need_resched
                                                 \/ Settled(r, W2, e)
                                                 \/ Answers(Now, work, x, r, W2, e)
  <2>1. CASE Now.rq[c].curr = t /\ ~(old < new)
    <3>1. r = p \/ r = resched_task(p, c)
      BY <1>7, <1>8, <2>1 DEF check_class_changed, prio_changed_rt, Pulled
    <3>2. p.task[t].prio <= Now.task[t].prio
      BY <1>1, <1>4, <1>6, <2>1
    <3> HIDE DEF r
    <3>3. /\ Good(r) /\ Eases(Now, r, d)
          /\ r.rq[c].need_resched \/ Settled(r, W2, c)
      <4>1. Settled(Now, work, c)
        BY <1>1
      <4>2. /\ Good(r) /\ Eases(Now, r, Peer(c))
            /\ r.rq[c].need_resched \/ Settled(r, W2, c)
        <5>1. Good(Now) /\ Good(p) /\ p.work = NoWork /\ c \in CPUs
          BY ONLY <1>1, <1>4, <1>7
        <5>2. Reweighs(Now, p, t, c) /\ Now.rq[c].curr = t
          BY ONLY <1>7, <2>1
        <5>3. Starts(work, W2, x, w) /\ w = r.work
          BY ONLY <1>9
        <5> QED BY ONLY N = 2, t \in Tasks, <5>1, <5>2, <5>3, <3>1, <3>2, <4>1, <1>3,
                   RunnerSettles
      <4> QED BY <4>2 DEF d
    <3>4. Answers(Now, work, x, r, W2, d)
      BY <1>1, <1>2, <3>3, IdleAnswers
    <3> QED BY <1>5, <3>3, <3>4
  <2>2. CASE Now.rq[c].curr = t /\ old < new
    <3>1. r = pull_rt_task(p, c, "prio", t)
      <4>1. old < MAX_RT_PRIO
        BY <1>1, <1>8, <2>2
      <4> QED BY <1>7, <1>8, <2>2, <4>1 DEF check_class_changed, prio_changed_rt
    <3>2. Now.task[t].prio <= p.task[t].prio
      BY <1>1, <1>4, <1>6, <2>2
    <3>3. Settled(Now, work, c) /\ Settled(Now, work, d)
      BY <1>5
    <3> HIDE DEF r
    <3>4. /\ Good(r)
          /\ r.rq[c].need_resched \/ Settled(r, W2, c)
          /\ Runs(Now, d) => Settled(r, W2, d)
      <4>1. Settled(Now, work, Peer(c))
        BY <3>3 DEF d
      <4>2. /\ Good(r)
            /\ r.rq[c].need_resched \/ Settled(r, W2, c)
            /\ Runs(Now, Peer(c)) => Settled(r, W2, Peer(c))
        <5>1. Good(Now) /\ Good(p) /\ p.work = NoWork /\ AllOn(p) /\ c \in CPUs
          BY ONLY <1>1, <1>4, <1>7
        <5>2. Reweighs(Now, p, t, c) /\ Now.rq[c].curr = t
          BY ONLY <1>7, <2>2
        <5>3. Starts(work, W2, x, w) /\ w = r.work
          BY ONLY <1>9
        <5>4. Settled(Now, work, c) /\ Settled(Now, work, Peer(c))
          BY ONLY <3>3, <4>1
        <5>5. Lowered(Now, r, W2, c)
          BY ONLY N = 2, t \in Tasks, <5>1, <5>2, <5>3, <5>4, <3>1, <3>2, LoweredSettles
        <5> QED BY ONLY <5>5 DEF Lowered
      <4> QED BY <4>2 DEF d
    <3> QED BY <1>5, <3>4
  <2>3. CASE Now.rq[c].curr # t
    <3>1. ~(old < MAX_RT_PRIO) /\ p.rq[c].curr # t
      BY <1>1, <1>2, <1>7, <2>3
    <3>2. r = IF p.rq[c].overloaded THEN push_rt_task(p, c, "switched", t, choice)
              ELSE switched_to_rt_ends(p, c, t, FALSE)
      BY <1>8, <3>1 DEF check_class_changed
    <3> HIDE DEF r
    <3>3. t \in RtOn(p.task, c)
      BY <1>4, <1>8 DEF RtOn, OnQueue
    <3>4. /\ Good(r) /\ Eases(p, r, d)
          /\ Runs(p, c) => r.rq[c].need_resched \/ Settled(r, W2, c)
      <4>1. c \in CPUs /\ Good(p) /\ p.work = NoWork /\ AllOn(p) /\ x \in Agents
        BY <1>1, <1>4, <1>7
      <4>2. W2[x] = r.work
        BY <1>9
      <4>3. /\ Good(r) /\ Eases(p, r, Peer(c))
            /\ Runs(p, c) => r.rq[c].need_resched \/ Settled(r, W2, c)
        BY ONLY N = 2, t \in Tasks, <3>1, <3>2, <3>3, <4>1, <4>2, SwitchedSettles
      <4> QED BY <4>3 DEF d
    <3>5. Runs(Now, c) => Runs(p, c)
      BY <1>1, <1>4, <1>7, ReweighsQueues
    <3>6. Eases(Now, r, d)
      <4>1. p.task[t].prio <= Now.task[t].prio
        BY <1>1, <1>4, <1>6, <1>8, <3>1
      <4>2. Eases(Now, p, d)
        BY <1>1, <1>4, <1>7, <4>1, ReweighsPeer DEF d
      <4> QED BY <3>4, <4>2, EasesTwice
    <3>7. Answers(Now, work, x, r, W2, d)
      BY <1>1, <1>2, <3>6, IdleAnswers
    <3> QED BY <1>5, <3>4, <3>5, <3>7
  <2> QED BY <2>1, <2>2, <2>3
<1> HIDE DEF r
<1>11. \A e \in CPUs : Settled(Now', work', e)
  <2> SUFFICES ASSUME NEW e \in CPUs PROVE Settled(Now', work', e)
    OBVIOUS
  <2>1. W2 = [work EXCEPT ![x] = r.work]
    BY <1>9
  <2> QED BY <1>1, <1>2, <1>10, <2>1, AgentSettles
<1> QED BY <1>11

-----------------------------------------------------------------------------
(* The same CPUs are online.                                               *)
SameOnline(s, r) == \A d \in CPUs : r.rq[d].online = s.rq[d].online

LEMMA ResultsOnline ==
  ASSUME NEW s, NEW r, NEW c, NEW then, NEW subject,
         PushResult(s, r, c, then, subject) \/ PullResult(s, r, c, then, subject)
  PROVE  SameOnline(s, r)
BY DEF PushResult, PullResult, Calm, Picked, SameOnline

LEMMA BecomesOnline ==
  ASSUME NEW a, NEW r, Becomes(a, r), SameOnline(Now, r)
  PROVE  SameOnline(Now, Now')
BY DEF Becomes, SameOnline, Now

LEMMA PushLockedOnline ==
  ASSUME IInv, NEW a \in Agents, NEW choice, PushLocked(a, choice)
  PROVE  SameOnline(Now, Now')
<1> DEFINE w == work[a]
           r == push_locked(Now, w, choice)
<1>1. /\ Good(Now) /\ Now.work = NoWork /\ w \in Works /\ WorkOk(a, w, Now, unseen)
      /\ w.op = "push" /\ Becomes(a, r)
  BY NowIs DEF PushLocked
<1>2. /\ w.rq \in CPUs /\ w.other \in CPUs /\ w.tries \in Nat
  BY <1>1 DEF Works
<1>3. /\ w.task \in Tasks /\ w.other # w.rq /\ PushFor(w.then, w.subject)
  <2>1. \A n \in {0, 1} : Work("post", a, None, 1, n, "loop", None).op = "post"
    BY DEF Work
  <2> HIDE DEF w
  <2> QED BY <1>1, <2>1, AgentIs DEF WorkOk
<1>4. w = Work("push", w.rq, w.task, w.other, w.tries, w.then, w.subject)
  BY <1>1, WorkIs
<1> HIDE DEF w
<1>5. PushResult(Now, r, w.rq, w.then, w.subject)
  BY <1>1, <1>2, <1>3, <1>4, PushGoesOn
<1> HIDE DEF r
<1> QED BY <1>1, <1>5, ResultsOnline, BecomesOnline

LEMMA PullLockedOnline ==
  ASSUME IInv, NEW a \in Agents, PullLocked(a)
  PROVE  SameOnline(Now, Now')
<1> DEFINE w == work[a]
           r == pull_locked(Now, w)
<1>1. /\ Good(Now) /\ Now.work = NoWork /\ w \in Works /\ WorkOk(a, w, Now, unseen)
      /\ w.op = "pull" /\ Becomes(a, r)
  BY NowIs DEF PullLocked
<1>2. /\ w.rq \in CPUs /\ w.other \in CPUs
  BY <1>1 DEF Works
<1>3. /\ w.task = None /\ w.other # w.rq /\ w.tries = 0 /\ PullFor(w.then, w.subject)
  <2>1. \A n \in {0, 1} : Work("post", a, None, 1, n, "loop", None).op = "post"
    BY DEF Work
  <2> HIDE DEF w
  <2> QED BY <1>1, <2>1, AgentIs DEF WorkOk
<1>4. w = Work("pull", w.rq, None, w.other, 0, w.then, w.subject)
  BY <1>1, <1>3, WorkIs
<1> HIDE DEF w
<1>5. PullResult(Now, r, w.rq, w.then, w.subject)
  BY <1>1, <1>2, <1>3, <1>4, PullGoesOn
<1> HIDE DEF r
<1> QED BY <1>1, <1>5, ResultsOnline, BecomesOnline

LEMMA ScheduleOnline ==
  ASSUME IInv, NEW c \in CPUs, schedule_preempt(c) \/ schedule_sleep(c)
  PROVE  SameOnline(Now, Now')
<1>1. Good(Now) /\ Now.work = NoWork /\ Now.rq = rq /\ Now.task = task
  BY NowIs
<1>2. PICK m : Good(m) /\ Kept(Now, m) /\ m.work = NoWork /\ Becomes(c, Schedule(c, m))
  <2>1. CASE schedule_preempt(c)
    BY <1>1, <2>1 DEF schedule_preempt, Kept
  <2>2. CASE schedule_sleep(c)
    <3> DEFINE t == rq[c].curr
               m == dequeue_task(Now, c, t)
    <3>1. /\ t # Idle /\ work[c] = NoWork /\ Becomes(c, Schedule(c, m))
      BY <2>2 DEF schedule_sleep
    <3>2. /\ Base(Now, work, unseen, {}) /\ Placed(Now) /\ t \in Tasks \cup {Idle}
      <4>1. Now \in States
        BY <1>1 DEF Good
      <4> QED BY <1>1, <4>1, NowIs, StateParts DEF Good, RQs
    <3>3. t \in Tasks /\ Now.rq[c].curr = t /\ Now.task[t].on_rq /\ Now.task[t].cpu = c
      BY <1>1, <3>1, <3>2, AgentIs DEF Base, Picking, Placed
    <3> HIDE DEF t
    <3>4. Good(m) /\ Kept(Now, m)
      BY <1>1, <3>3, DequeueTask
    <3> QED BY <1>1, <3>1, <3>4 DEF Kept
  <2> QED BY <2>1, <2>2
<1> DEFINE r == Schedule(c, m)
<1>3. PullResult(m, r, c, "pick", None)
  BY <1>2, ScheduleCpu
<1>4. Becomes(c, r)
  BY <1>2
<1> HIDE DEF r
<1>5. SameOnline(m, r)
  BY <1>3, ResultsOnline
<1>6. SameOnline(Now, r)
  BY <1>2, <1>5 DEF Kept, SameOnline
<1> QED BY <1>4, <1>6, BecomesOnline

LEMMA post_scheduleOnline ==
  ASSUME IInv, NEW c \in CPUs, NEW choice, post_schedule(c, choice)
  PROVE  SameOnline(Now, Now')
<1> DEFINE s == [Now EXCEPT !.rq[c].post_schedule = FALSE]
           r == IF rq[c].curr # Idle /\ rt_task(s, rq[c].curr)
                THEN push_rt_task(s, c, "loop", None, choice) ELSE s
<1>1. Good(Now) /\ Now.work = NoWork /\ Becomes(c, r)
  BY NowIs DEF post_schedule
<1>2. Good(s) /\ s.work = NoWork /\ SameOnline(Now, s)
  BY <1>1, PostClear DEF SameOnline
<1> HIDE DEF s
<1>3. SameOnline(s, r)
  <2>1. CASE r = s
    BY <2>1 DEF SameOnline
  <2>2. CASE r = push_rt_task(s, c, "loop", None, choice)
    <3>1. PushFor("loop", None)
      BY DEF PushFor
    <3> HIDE DEF r
    <3>2. PushResult(s, r, c, "loop", None)
      BY <1>2, <2>2, <3>1, PushTask
    <3> QED BY <3>2, ResultsOnline
  <2> QED BY <2>1, <2>2
<1> HIDE DEF r
<1>4. SameOnline(Now, r)
  BY <1>2, <1>3 DEF SameOnline
<1> QED BY <1>1, <1>4, BecomesOnline

LEMMA ttwu_queueOnline ==
  ASSUME IInv, NEW x \in Contexts, NEW choice, ttwu_queue(x, choice)
  PROVE  SameOnline(Now, Now')
<1> DEFINE c == work[x].rq
           t == work[x].subject
           p == enqueue_task(Now, c, t, FALSE)
           m == check_preempt_curr(p, c, t)
           r == task_woken_rt(m, c, t, choice)
<1>1. /\ Good(Now) /\ Base(Now, work, unseen, {}) /\ Now.work = NoWork
      /\ x \in Agents /\ work[x] \in Works /\ work[x].op = "wake" /\ Becomes(x, r)
  BY NowIs, AgentIs DEF ttwu_queue
<1>2. t \in Tasks /\ ~Now.task[t].on_rq /\ Now.task[t].cpu = c /\ c \in CPUs
  BY <1>1, WakesOff DEF Works, Off
<1> HIDE DEF c, t
<1>3. Good(p) /\ Kept(Now, p) /\ Joins(Now.task, p.task, t, c)
  <2>1. FALSE \in BOOLEAN
    OBVIOUS
  <2> QED BY <1>1, <1>2, <2>1, EnqueueTask
<1> HIDE DEF p
<1>4. Good(m) /\ m.work = p.work /\ \A C : Calm(p, m, C)
  <2>1. p.task[t].on_rq /\ p.task[t].cpu = c
    BY <1>3 DEF Joins
  <2> QED BY <1>2, <1>3, <2>1, CheckPreempt
<1> HIDE DEF m
<1>5. PushResult(m, r, c, "loop", None)
  <2>1. m.work = NoWork
    BY <1>1, <1>3, <1>4 DEF Kept
  <2> QED BY <1>2, <1>4, <2>1, TaskWoken
<1> HIDE DEF r
<1>6. SameOnline(Now, r)
  <2>1. Calm(p, m, {})
    BY <1>4
  <2>2. SameOnline(m, r)
    BY <1>5, ResultsOnline
  <2> QED BY <1>3, <2>1, <2>2 DEF SameOnline, Kept, Calm
<1> QED BY <1>1, <1>6, BecomesOnline

LEMMA set_prioOnline ==
  ASSUME IInv, NEW x \in Contexts, NEW t \in Tasks, NEW new \in Prios, NEW choice,
         set_prio(x, t, new, choice)
  PROVE  SameOnline(Now, Now')
<1> DEFINE c == task[t].cpu
           old == task[t].prio
           n == NewPrio(Now, t, new)
           p == Requeued(Now, c, t, new)
           r == check_class_changed(p, c, t, old, choice)
<1>1. /\ Good(Now) /\ Now.work = NoWork /\ Now.rq = rq /\ Now.task = task /\ c \in CPUs
      /\ new \in 0 .. MAX_RT_PRIO
  <2>1. Now \in States
    BY NowIs DEF Good
  <2> QED BY <2>1, NowIs, StateParts, PushPullAssumption
<1>2. Becomes(x, IF task[t].on_rq THEN r ELSE n)
  <2>1. \A s : [s EXCEPT !.task[t].prio = new] = NewPrio(s, t, new)
    BY DEF NewPrio, WithTask
  <2> QED BY <2>1 DEF set_prio, Requeued
<1>3. CASE ~task[t].on_rq
  <2>1. n.rq = Now.rq
    BY <1>1, <1>3, NewPrioIs
  <2>2. Becomes(x, n)
    BY <1>2, <1>3
  <2> HIDE DEF n
  <2> QED BY <2>1, <2>2, BecomesOnline DEF SameOnline
<1>4. CASE task[t].on_rq
  <2>1. Good(p) /\ Kept(Now, p)
    <3>1. p = Requeued(Now, c, t, new)
      OBVIOUS
    <3>2. Now.task[t].on_rq /\ Now.task[t].cpu = c
      BY <1>1, <1>4
    <3> HIDE DEF p, c, n, r, old
    <3> QED BY ONLY t \in Tasks, <1>1, <3>1, <3>2, Reprioritised
  <2> HIDE DEF p, c, old
  <2>2. \/ PushResult(p, r, c, "switched", t)
        \/ PullResult(p, r, c, "prio", t)
        \/ PullResult(p, r, c, "switched", t)
    <3>1. p.work = NoWork
      BY <1>1, <2>1 DEF Kept
    <3> QED BY <1>1, <2>1, <3>1, ClassChanged
  <2>3. Becomes(x, r)
    BY <1>2, <1>4
  <2> HIDE DEF r
  <2>4. SameOnline(p, r)
    BY <2>2, ResultsOnline
  <2>5. SameOnline(Now, r)
    BY <2>1, <2>4 DEF SameOnline, Kept
  <2> QED BY <2>3, <2>5, BecomesOnline
<1> QED BY <1>3, <1>4

-----------------------------------------------------------------------------
(* No task waits on a CPU and should not, but one that somebody will see   *)
(* to; unless something has happened that nobody looks for.                *)
Balanced ==
  unseen = {} /\ AllOn(Now) => \A c \in CPUs : Settled(Now, work, c)

LEMMA BalancedFrom ==
  ASSUME Balanced, unseen \subseteq unseen', SameOnline(Now, Now'),
         unseen' = {} /\ AllOn(Now) /\ (\A c \in CPUs : Settled(Now, work, c))
           => \A c \in CPUs : Settled(Now', work', c)
  PROVE  Balanced'
<1> SUFFICES ASSUME unseen' = {}, AllOn(Now')
             PROVE  \A c \in CPUs : Settled(Now', work', c)
  BY DEF Balanced
<1>1. unseen = {} /\ AllOn(Now)
  BY DEF AllOn, SameOnline
<1> QED BY <1>1 DEF Balanced

LEMMA BalancedStep ==
  ASSUME N = 2, IInv, IInv', Balanced, [Next]_vars
  PROVE  Balanced'
<1>1. ASSUME NEW c \in CPUs, schedule_preempt(c) PROVE Balanced'
  <2>1. unseen \subseteq unseen'
    BY <1>1 DEF schedule_preempt
  <2>2. SameOnline(Now, Now')
    BY <1>1, ScheduleOnline
  <2> QED BY <1>1, <2>1, <2>2, BalancedFrom, schedule_preemptSettles
<1>2. ASSUME NEW c \in CPUs, NEW d \in CPUs, post_schedule(c, d) PROVE Balanced'
  <2>1. unseen \subseteq unseen'
    BY <1>2 DEF post_schedule
  <2>2. SameOnline(Now, Now')
    BY <1>2, post_scheduleOnline
  <2> QED BY <1>2, <2>1, <2>2, BalancedFrom, post_scheduleSettles
<1>3. ASSUME NEW c \in CPUs, set_rq_online(c) PROVE Balanced'
  BY <1>3 DEF set_rq_online, Balanced
<1>4. ASSUME NEW a \in Agents, PullLocked(a) PROVE Balanced'
  <2>1. unseen \subseteq unseen'
    BY <1>4 DEF PullLocked
  <2>2. SameOnline(Now, Now')
    BY <1>4, PullLockedOnline
  <2> QED BY <1>4, <2>1, <2>2, BalancedFrom, PullLockedSettles
<1>5. ASSUME NEW a \in Agents, NEW d \in CPUs, PushLocked(a, d) PROVE Balanced'
  <2>1. unseen \subseteq unseen'
    BY <1>5 DEF PushLocked
  <2>2. SameOnline(Now, Now')
    BY <1>5, PushLockedOnline
  <2> QED BY <1>5, <2>1, <2>2, BalancedFrom, PushLockedSettles
<1>6. ASSUME NEW x \in Contexts, NEW d \in CPUs, ttwu_queue(x, d) PROVE Balanced'
  <2>1. unseen \subseteq unseen'
    BY <1>6 DEF ttwu_queue
  <2>2. SameOnline(Now, Now')
    BY <1>6, ttwu_queueOnline
  <2> QED BY <1>6, <2>1, <2>2, BalancedFrom, ttwu_queueSettles
<1>7. ASSUME NEW c \in CPUs, schedule_sleep(c) PROVE Balanced'
  <2>1. unseen \subseteq unseen'
    BY <1>7 DEF schedule_sleep
  <2>2. SameOnline(Now, Now')
    BY <1>7, ScheduleOnline
  <2> QED BY <1>7, <2>1, <2>2, BalancedFrom, schedule_sleepSettles
<1>8. ASSUME NEW c \in CPUs, set_rq_offline(c) PROVE Balanced'
  <2>1. ~rq'[c].online
    <3>1. rq \in [CPUs -> RQs]
      <4>1. Good(Now) /\ Now.rq = rq
        BY NowIs
      <4> QED BY <4>1, StateParts DEF Good
    <3>2. rq' = [rq EXCEPT ![c].online = FALSE]
      BY <1>8 DEF set_rq_offline
    <3>3. rq'[c] = [rq[c] EXCEPT !.online = FALSE] /\ rq[c] \in RQs
      BY <3>1, <3>2
    <3> QED BY <3>3 DEF RQs
  <2>2. ~AllOn(Now')
    BY <2>1 DEF AllOn, Now
  <2> QED BY <2>2 DEF Balanced
<1>9. ASSUME NEW x \in Contexts, NEW t \in Tasks, NEW d \in CPUs, try_to_wake_up(x, t, d)
      PROVE  Balanced'
  <2>1. unseen \subseteq unseen' /\ rq' = rq
    BY <1>9 DEF try_to_wake_up, Becomes, Now
  <2>2. SameOnline(Now, Now')
    BY <2>1 DEF SameOnline, Now
  <2> QED BY <1>9, <2>1, <2>2, BalancedFrom, try_to_wake_upSettles
<1>10. ASSUME NEW x \in Contexts, NEW t \in Tasks, NEW mask \in SUBSET CPUs,
              set_cpus_allowed(x, t, mask)
       PROVE  Balanced'
  <2>1. unseen \subseteq unseen'
    BY <1>10 DEF set_cpus_allowed
  <2>2. SameOnline(Now, Now')
    <3>1. PICK r : Becomes(x, r) /\ SameOnline(Now, r)
      BY <1>10, MaskChanged DEF SameOnline
    <3> QED BY <3>1, BecomesOnline
  <2> QED BY <1>10, <2>1, <2>2, BalancedFrom, set_cpus_allowedSettles
<1>11. ASSUME NEW x \in Contexts, NEW t \in Tasks, NEW p \in Prios, NEW d \in CPUs,
              set_prio(x, t, p, d)
       PROVE  Balanced'
  <2>1. unseen \subseteq unseen'
    BY <1>11 DEF set_prio
  <2>2. SameOnline(Now, Now')
    BY <1>11, set_prioOnline
  <2>3. CASE task[t].on_rq
    BY <1>11, <2>1, <2>2, <2>3, BalancedFrom, PrioOnSettles
  <2>4. CASE ~task[t].on_rq
    BY <1>11, <2>1, <2>2, <2>4, BalancedFrom, PrioOffSettles
  <2> QED BY <2>3, <2>4
<1>12. CASE UNCHANGED vars
  BY <1>12 DEF vars, Balanced, AllOn, Now
<1>13. CASE Progress
  BY <1>13, <1>1, <1>2, <1>3, <1>4, <1>5, <1>6 DEF Progress
<1>14. CASE Disturb
  BY <1>14, <1>7, <1>8, <1>9, <1>10, <1>11 DEF Disturb
<1> QED BY <1>12, <1>13, <1>14 DEF Next

LEMMA BalancedInit ==
  ASSUME Init
  PROVE  Balanced
<1>1. \A t \in Tasks : ~task[t].on_rq
  <2>1. task \in [Tasks -> [cpu : {1}, prio : Prios, allowed : {CPUs}, on_rq : {FALSE}]]
    BY DEF Init
  <2> QED BY <2>1
<1>2. Good(Now) /\ Now.task = task
  BY InitIs, NowIs
<1>3. ASSUME NEW c \in CPUs, NEW t \in Waiting(Now, c) PROVE FALSE
  BY <1>1, <1>2, <1>3, WaitingIs
<1> QED BY <1>3 DEF Balanced, Settled

LEMMA GlobalHolds ==
  ASSUME N = 2, IInv, Balanced
  PROVE  GlobalOrder
<1> SUFFICES ASSUME Rest, unseen = {}, NEW c \in CPUs, NEW t \in ToSet(rq[c].pushable),
                    NEW d \in task[t].allowed
             PROVE  highest_prio(Now, d) <= prio(Now, t)
  BY DEF GlobalOrder
<1>1. Good(Now) /\ Now.rq = rq /\ Now.task = task /\ task \in TaskMaps
  <2>1. Now \in States
    BY NowIs DEF Good
  <2> QED BY <2>1, NowIs, StateParts
<1>2. t \in Waiting(Now, c)
  <2>1. Ordered(Now.task, Now.rq[c].pushable, Movable(Now.task, c) \ {Now.rq[c].curr})
    BY <1>1 DEF Good, Row, PushOk
  <2> QED BY <1>1, <2>1 DEF Ordered, QueueHolds, Waiting, ToSet
<1>3. /\ t \in Tasks /\ t \in OnQueue(Now.task, c) /\ Now.task[t].on_rq /\ Now.task[t].cpu = c
      /\ Now.task[t].prio \in Int /\ Level(Now, c) \in Int
      /\ prio(Now, t) = Now.task[t].prio
  BY <1>1, <1>2, WaitingIs, TaskIs
<1>4. d \in CPUs /\ (d = c \/ d = Peer(c))
  <2>1. task[t].allowed \subseteq CPUs
    BY <1>1, <1>3 DEF TaskMaps
  <2> QED BY <2>1, TwoCPUs
<1>5. CASE d = c
  BY <1>1, <1>3, <1>5, Above
<1>6. CASE d = Peer(c)
  <2>1. AllOn(Now) /\ ~Now.rq[c].need_resched /\ \A a \in Agents : work[a] = NoWork
    BY <1>1 DEF AllOn, Rest, AtRest, Agents
  <2> HIDE DEF Now
  <2>2. Settled(Now, work, c)
    BY <2>1 DEF Balanced
  <2>3. ~Urgent(Now, c, t) /\ ~Loose(Now, c, t)
    BY <1>2, <2>1, <2>2, NoWorkIdle DEF Settled
  <2>4. Level(Now, c) <= Now.task[t].prio
    BY <1>3, <2>1, <2>3 DEF Urgent, Level
  <2>5. PICK u \in OnQueue(Now.task, d) : ~(Now.task[t].prio < Now.task[u].prio)
    BY <1>2, <1>6, <2>1, <2>3, <2>4 DEF Loose
  <2>6. /\ highest_prio(Now, d) <= Now.task[u].prio /\ highest_prio(Now, d) \in Int
        /\ Now.task[u].prio \in Int
    BY <1>1, <1>4, <2>5, Above, WaitingIs
  <2> QED BY <1>3, <2>5, <2>6
<1> QED BY <1>4, <1>5, <1>6

(* With two CPUs, whatever pushes, pulls, wakeups and changes of priority  *)
(* and mask run into each other between the locks that they drop: once     *)
(* they are over, no task that may be pushed waits behind a CPU of its     *)
(* mask that has nothing as important.  unseen names the three changes     *)
(* that the code does not look after.                                      *)
THEOREM GloballyOrdered ==
  ASSUME N = 2
  PROVE  Spec => []GlobalOrder
<1>1. Init => Balanced
  BY BalancedInit
<1>2. IInv /\ IInv' /\ Balanced /\ [Next]_vars => Balanced'
  BY BalancedStep
<1>3. IInv /\ Balanced => GlobalOrder
  BY GlobalHolds
<1> QED BY <1>1, <1>2, <1>3, Sounds, PTL DEF Spec

=============================================================================
