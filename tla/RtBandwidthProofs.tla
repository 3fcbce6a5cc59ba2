------------------------- MODULE RtBandwidthProofs -------------------------
(***************************************************************************)
(* What CPUs lend and borrow of a group's real-time runtime adds up, so    *)
(* that BUG_ON(want) cannot fire unless a share in use was overwritten,    *)
(* and a throttled group is queued exactly as long as a boosted task is    *)
(* among its tasks: for any number of CPUs and tasks, any period and any   *)
(* settings.                                                               *)
(***************************************************************************)
EXTENDS RtBandwidth, DataProofs

(* A walk w goes through the states V, from base by steps.                 *)
StepOn(step, V, G) == step \in [V \X G -> V]

Walked(w, G, V, base, step) ==
  /\ w \in [G -> V]
  /\ w[0] = base
  /\ \A i \in G \ {0} : w[i] = step[<<w[i - 1], i>>]

(* A walk over the CPUs in order: the loops of do_balance_runtime and      *)
(* __disable_runtime.                                                      *)
LEMMA WalkExists ==
  ASSUME NEW n \in Nat, NEW G, G = 0 .. n, NEW V, NEW base \in V,
         NEW step, StepOn(step, V, G)
  PROVE  \E w : Walked(w, G, V, base, step)
<1> DEFINE parent == [i \in G |-> i - 1]
           depth == [i \in G |-> i]
<1>1. IsTree(G, 0, parent, depth, n)
  BY DEF IsTree
<1>2. \A i \in G : parent[i] = i - 1
  OBVIOUS
<1>3. 0 \in G
  OBVIOUS
<1> HIDE DEF parent, depth
<1>4. PICK w \in [G -> V] : Descends(w, G, 0, parent, base, step)
  BY <1>1, TreeRecursion DEF StepOn
<1>5. w[0] = base /\ \A i \in G \ {0} : w[i] = step[<<w[parent[i]], i>>]
  BY ONLY <1>3, <1>4, Zenon DEF Descends
<1>6. \A i \in G \ {0} : w[i] = step[<<w[i - 1], i>>]
  BY ONLY <1>2, <1>5, Zenon
<1> QED BY <1>5, <1>6 DEF Walked

(* What holds at the start of a walk and is kept by its steps holds at its *)
(* end.                                                                    *)
LEMMA WalkInduction ==
  ASSUME NEW n \in Nat, NEW P \in SUBSET (0 .. n), 0 \in P,
         \A i \in 1 .. n : i - 1 \in P => i \in P
  PROVE  n \in P
<1> DEFINE T == {k \in Nat : k <= n => k \in P}
<1>1. 0 \in T
  OBVIOUS
<1>2. ASSUME NEW k \in T PROVE k + 1 \in T
  <2>1. k + 1 <= n => k + 1 \in 1 .. n /\ (k + 1) - 1 = k /\ k <= n
    OBVIOUS
  <2> QED BY <2>1
<1>3. T = Nat
  <2> HIDE DEF T
  <2>1. T \in SUBSET Nat
    BY DEF T
  <2> QED BY <1>1, <1>2, <2>1, SetInduction
<1>4. n \in T
  BY <1>3
<1> QED BY <1>4

(* What the constants are.                                                 *)
LEMMA Consts ==
  /\ N \in Nat /\ N > 0
  /\ IsFiniteSet(CPUs) /\ Cardinality(CPUs) = N
  /\ PERIOD \in Nat /\ PERIOD > 0 /\ RUNTIME_INF \in Nat /\ RUNTIME_INF > N * PERIOD
  /\ RUNTIME_INF > MaxTime /\ MaxTime \in Nat /\ MaxChanges \in Nat
  /\ RUNTIME \in 1 .. PERIOD
<1>1. IsFiniteSet(1 .. N) /\ Cardinality(1 .. N) = N
  <2>1. 1 \in Int /\ N \in Int /\ N >= 1
    BY BandwidthAssumption
  <2>2. IsFiniteSet(1 .. N) /\ Cardinality(1 .. N) = IF 1 > N THEN 0 ELSE N - 1 + 1
    BY <2>1, FS_Interval
  <2> QED BY <2>1, <2>2
<1> QED BY <1>1, BandwidthAssumption DEF CPUs

(* A period is less than no limit.                                         *)
LEMMA PeriodBelow == PERIOD < RUNTIME_INF
<1>1. \A a, b \in Nat : a > 0 => b <= a * b
  OBVIOUS
<1>2. PERIOD <= N * PERIOD /\ N * PERIOD \in Nat
  BY <1>1, Consts
<1> QED BY <1>2, Consts

(* The smaller of two numbers.                                             *)
LEMMA MinTwo ==
  ASSUME NEW a \in Int, NEW b \in Int
  PROVE  Min({a, b}) = IF a <= b THEN a ELSE b
<1>1. \E x \in {a, b} : \A y \in {a, b} : x <= y
  <2>1. CASE a <= b
    BY <2>1
  <2>2. CASE ~(a <= b)
    BY <2>2
  <2> QED BY <2>1, <2>2
<1>2. Min({a, b}) \in {a, b} /\ Min({a, b}) <= a /\ Min({a, b}) <= b
  BY <1>1 DEF Min
<1> QED BY <1>2

-----------------------------------------------------------------------------
(* The CPUs of a domain that take part in lending, and that what they have *)
(* adds up to a share b for each.                                          *)
Enabled(rt, dom, d) == {i \in CPUs : dom[i] = d /\ rt[i] # RUNTIME_INF}

(* The run time of the CPUs S adds up to a share b for each of them.       *)
Balanced(rt, S, b) == SumFunctionOnSet(rt, S) = Cardinality(S) * b

(* The run times of the CPUs.                                              *)
Shares == [CPUs -> Nat]

(* No share is large enough to be taken for no limit.                      *)
LEMMA Small ==
  ASSUME NEW rt \in Shares, NEW S \in SUBSET CPUs, NEW b \in 0 .. PERIOD,
         Balanced(rt, S, b), NEW i \in S
  PROVE  rt[i] < RUNTIME_INF /\ rt[i] # RUNTIME_INF
<1>1. IsFiniteSet(S) /\ Cardinality(S) \in Nat /\ Cardinality(S) <= N
  BY Consts, FS_Subset, FS_CardinalityType
<1>2. \A x \in S : rt[x] \in Nat
  BY DEF Shares
<1>3. rt[i] <= Cardinality(S) * b
  BY <1>1, <1>2, SumMember DEF Balanced
<1>4. \A x, y, z, u \in Nat : x <= y /\ z <= u => x * z <= y * u
  <2> SUFFICES ASSUME NEW x \in Nat, NEW y \in Nat, NEW z \in Nat, NEW u \in Nat, x <= y, z <= u
               PROVE  x * z <= y * u
    OBVIOUS
  <2>1. x * z <= y * z
    OBVIOUS
  <2>2. y * z <= y * u
    OBVIOUS
  <2>3. x * z \in Nat /\ y * z \in Nat /\ y * u \in Nat
    OBVIOUS
  <2> QED BY <2>1, <2>2, <2>3
<1>5. Cardinality(S) * b <= N * PERIOD
  BY <1>1, <1>4, Consts
<1>6. Cardinality(S) * b \in Nat /\ N * PERIOD \in Nat /\ rt[i] \in Nat
  BY <1>1, <1>2, Consts
<1> QED BY <1>3, <1>5, <1>6, Consts

(* What c may take of i leaves both with a runtime.                        *)
LEMMA Borrowed ==
  ASSUME TypeOK, NEW rt \in Shares, NEW c \in CPUs, NEW i \in CPUs, lends(rt, c, i)
  PROVE  /\ borrow(rt, c, i) \in Int
         /\ rt[i] - borrow(rt, c, i) \in Nat
         /\ rt[c] + borrow(rt, c, i) \in Nat
         /\ i # c /\ rd[i] = rd[c] /\ rt[i] # RUNTIME_INF
<1> DEFINE S == span(rd[c])
           n == Cardinality(S)
           x == rt[i] - rt_time[i]
           diff == x \div n
<1>1. /\ i # c /\ rd[i] = rd[c] /\ rt[i] # RUNTIME_INF /\ rt[i] > rt_time[i]
      /\ rt[i] \in Nat /\ rt_time[i] \in Nat /\ rt[c] \in Nat
  BY DEF lends, span, Shares, TypeOK
<1>2. n \in Nat \ {0}
  <2>1. c \in S /\ S \subseteq CPUs
    BY DEF span
  <2>2. IsFiniteSet(S)
    BY <2>1, Consts, FS_Subset
  <2> QED BY <2>1, <2>2, FS_CardinalityType, FS_EmptySet
<1>3. x \in Nat
  BY <1>1
<1>4. borrow(rt, c, i) = IF rt[c] + diff > PERIOD THEN PERIOD - rt[c] ELSE diff
  BY DEF borrow
<1>5. x <= rt[i]
  BY <1>1
<1> HIDE DEF n, x
<1>6. diff \in Nat /\ diff <= x
  <2>1. \A a \in Nat, b \in Nat \ {0} : a \div b \in Nat /\ a \div b <= a
    OBVIOUS
  <2> QED BY <1>2, <1>3, <2>1
<1> HIDE DEF diff
<1> QED BY <1>1, <1>3, <1>4, <1>5, <1>6, Consts

(* One turn of the loop that borrows.                                      *)
Walks == [rt : Shares, stop : BOOLEAN]

(* A turn of do_balance_runtime leaves everything alone, or moves run time *)
(* from one other CPU of the domain that takes part to c.                  *)
LEMMA BalanceStep ==
  ASSUME TypeOK, NEW w \in Walks, NEW c \in CPUs, NEW i \in 0 .. N
  PROVE  LET v == balance_step(w, c, i)
         IN  /\ v \in Walks
             /\ v = w \/ (/\ i \in CPUs /\ i # c /\ rd[i] = rd[c] /\ w.rt[i] # RUNTIME_INF
                          /\ v.rt[i] + v.rt[c] = w.rt[i] + w.rt[c]
                          /\ \A x \in CPUs \ {i, c} : v.rt[x] = w.rt[x])
<1> DEFINE v == balance_step(w, c, i)
           x == borrow(w.rt, c, i)
           rt == [w.rt EXCEPT ![i] = w.rt[i] - x, ![c] = w.rt[c] + x]
<1>0. w.rt \in Shares /\ w.stop \in BOOLEAN
  BY DEF Walks
<1>1. CASE w.stop \/ ~lends(w.rt, c, i)
  BY <1>1 DEF balance_step
<1>2. CASE ~w.stop /\ lends(w.rt, c, i)
  <2>1. i \in CPUs /\ i # c
    BY <1>2 DEF lends, span
  <2>2. /\ x \in Int /\ w.rt[i] - x \in Nat /\ w.rt[c] + x \in Nat
        /\ rd[i] = rd[c] /\ w.rt[i] # RUNTIME_INF
    BY <1>0, <1>2, <2>1, Borrowed
  <2>3. v = [rt |-> rt, stop |-> rt[c] = PERIOD]
    <3>1. rt = [w.rt EXCEPT ![i] = @ - borrow(w.rt, c, i), ![c] = @ + borrow(w.rt, c, i)]
      BY <1>0, <2>1 DEF Shares
    <3> QED BY <1>2, <3>1 DEF balance_step
  <2> HIDE DEF x
  <2>4. /\ rt \in Shares /\ rt[i] = w.rt[i] - x /\ rt[c] = w.rt[c] + x
        /\ \A y \in CPUs \ {i, c} : rt[y] = w.rt[y]
    BY <1>0, <2>1, <2>2 DEF Shares
  <2>5. w.rt[i] \in Nat /\ w.rt[c] \in Nat
    BY <1>0, <2>1 DEF Shares
  <2> HIDE DEF rt
  <2>6. v \in Walks /\ v.rt = rt
    <3> HIDE DEF v
    <3>1. (rt[c] = PERIOD) \in BOOLEAN
      BY Zenon
    <3> QED BY <2>3, <2>4, <3>1 DEF Walks
  <2>7. rt[i] + rt[c] = w.rt[i] + w.rt[c]
    BY <2>2, <2>4, <2>5
  <2> HIDE DEF v
  <2> QED BY <2>1, <2>2, <2>4, <2>6, <2>7 DEF v
<1> QED BY <1>1, <1>2

(* The loop that borrows, turn by turn.                                    *)
BalanceTurns(w, c) ==
  /\ w[0] = [rt |-> rt_runtime, stop |-> FALSE]
  /\ \A i \in 1 .. N : w[i] = balance_step(w[i - 1], c, i)
  /\ do_balance_runtime(c) = w[N].rt

(* The loop over the span is the walk through those turns.                 *)
LEMMA BalanceWalk ==
  ASSUME TypeOK, NEW c \in CPUs
  PROVE  \E w \in [0 .. N -> Walks] : BalanceTurns(w, c)
<1> DEFINE base == [rt |-> rt_runtime, stop |-> FALSE]
           step == [p \in Walks \X (0 .. N) |-> balance_step(p[1], c, p[2])]
           walk == CHOOSE w : w = [i \in 0 .. N |-> IF i = 0 THEN base
                                                   ELSE balance_step(w[i - 1], c, i)]
<1>1. base \in Walks
  BY DEF Walks, Shares, TypeOK
<1>2. step \in [Walks \X (0 .. N) -> Walks]
  <2>1. ASSUME NEW p \in Walks \X (0 .. N) PROVE balance_step(p[1], c, p[2]) \in Walks
    <3>1. p[1] \in Walks /\ p[2] \in 0 .. N
      OBVIOUS
    <3> QED BY <3>1, BalanceStep
  <2> QED BY <2>1
<1>3. \A v \in Walks, i \in 0 .. N : step[<<v, i>>] = balance_step(v, c, i)
  OBVIOUS
<1>4. do_balance_runtime(c) = walk[N].rt
  BY DEF do_balance_runtime
<1> HIDE DEF base, step
<1>5. PICK w \in [0 .. N -> Walks] :
        w[0] = base /\ \A i \in 1 .. N : w[i] = step[<<w[i - 1], i>>]
  <2> DEFINE G == 0 .. N
  <2>1. N \in Nat /\ G = 0 .. N
    BY Consts
  <2>2. \A i \in 1 .. N : i \in G \ {0}
    OBVIOUS
  <2>3. step \in [Walks \X G -> Walks]
    BY <1>2
  <2> HIDE DEF walk, G
  <2>4. PICK w \in [G -> Walks] :
          w[0] = base /\ \A i \in G \ {0} : w[i] = step[<<w[i - 1], i>>]
    <3>1. /\ N \in Nat /\ G = 0 .. N /\ base \in Walks
          /\ StepOn(step, Walks, G)
      BY <1>1, <2>1, <2>3 DEF StepOn
    <3>2. \E w : Walked(w, G, Walks, base, step)
      BY ONLY <3>1, WalkExists, Zenon
    <3> QED BY ONLY <3>2, Zenon DEF Walked
  <2>5. \A i \in 1 .. N : w[i] = step[<<w[i - 1], i>>]
    BY ONLY <2>2, <2>4, Zenon
  <2>6. w \in [0 .. N -> Walks]
    BY <2>1
  <2> QED BY ONLY <2>4, <2>5, <2>6, Zenon
<1>6. \A i \in 1 .. N : step[<<w[i - 1], i>>] = balance_step(w[i - 1], c, i)
  <2> SUFFICES ASSUME NEW i \in 1 .. N
               PROVE  step[<<w[i - 1], i>>] = balance_step(w[i - 1], c, i)
    OBVIOUS
  <2>1. w[i - 1] \in Walks
    BY Consts
  <2> QED BY <1>3, <2>1
<1>7. w = [i \in 0 .. N |-> IF i = 0 THEN base ELSE balance_step(w[i - 1], c, i)]
  <2>1. \A i \in 0 .. N : i # 0 => i \in 1 .. N
    OBVIOUS
  <2>2. \A i \in 0 .. N : w[i] = IF i = 0 THEN base ELSE balance_step(w[i - 1], c, i)
    BY ONLY <1>5, <1>6, <2>1, Zenon
  <2> QED BY ONLY <2>2, Zenon
<1>8. walk = [i \in 0 .. N |-> IF i = 0 THEN base ELSE balance_step(walk[i - 1], c, i)]
  BY <1>7
<1> HIDE DEF walk
<1>9. walk[0] = base /\ \A i \in 1 .. N : walk[i] = balance_step(walk[i - 1], c, i)
  BY <1>8, Consts
<1>10. walk \in [0 .. N -> Walks]
  <2> DEFINE P == {i \in 0 .. N : walk[i] \in Walks}
  <2> DEFINE Q(n) == {k \in 0 .. n : walk[k] \in Walks}
  <2>1. ASSUME NEW n \in 0 .. N PROVE n \in Q(n)
    <3>1. 0 \in Q(n) /\ Q(n) \in SUBSET (0 .. n)
      BY <1>1, <1>9
    <3>2. ASSUME NEW i \in 1 .. n, i - 1 \in Q(n) PROVE i \in Q(n)
      <4>1. i \in 1 .. N /\ i \in 0 .. N /\ walk[i - 1] \in Walks
        BY <3>2, Consts
      <4>2. balance_step(walk[i - 1], c, i) \in Walks
        BY <4>1, BalanceStep
      <4> QED BY <1>9, <4>1, <4>2
    <3>3. n \in Nat
      OBVIOUS
    <3> HIDE DEF Q
    <3> QED BY <3>1, <3>2, <3>3, WalkInduction
  <2>2. \A n \in 0 .. N : walk[n] \in Walks
    BY <2>1
  <2> QED BY <1>8, <2>2
<1>11. BalanceTurns(walk, c)
  BY <1>4, <1>9 DEF BalanceTurns, base
<1> QED BY <1>10, <1>11

(* Borrowing gives every CPU a runtime ...                                 *)
LEMMA BorrowShares ==
  ASSUME TypeOK, NEW c \in CPUs
  PROVE  do_balance_runtime(c) \in Shares
<1>1. PICK w \in [0 .. N -> Walks] : BalanceTurns(w, c)
  BY BalanceWalk
<1>2. w[N] \in Walks /\ do_balance_runtime(c) = w[N].rt
  BY <1>1, Consts DEF BalanceTurns
<1> QED BY <1>2 DEF Walks

(* ... and leaves what the domain has, and who takes part, as they are.    *)
LEMMA BorrowKeeps ==
  ASSUME TypeOK, NEW c \in CPUs, NEW b \in 0 .. PERIOD, rt_runtime[c] # RUNTIME_INF,
         Balanced(rt_runtime, Enabled(rt_runtime, rd, rd[c]), b)
  PROVE  /\ \A x \in CPUs : rd[x] # rd[c] => do_balance_runtime(c)[x] = rt_runtime[x]
         /\ Enabled(do_balance_runtime(c), rd, rd[c]) = Enabled(rt_runtime, rd, rd[c])
         /\ Balanced(do_balance_runtime(c), Enabled(rt_runtime, rd, rd[c]), b)
<1>1. PICK w \in [0 .. N -> Walks] : BalanceTurns(w, c)
  BY BalanceWalk
<1>2. w[N] \in Walks /\ do_balance_runtime(c) = w[N].rt
  BY <1>1, Consts DEF BalanceTurns
<1>3. do_balance_runtime(c) \in Shares
  BY BorrowShares
<1> DEFINE S == Enabled(rt_runtime, rd, rd[c])
           Kept(rt) == /\ \A x \in CPUs \ S : rt[x] = rt_runtime[x]
                       /\ Balanced(rt, S, b)
           P == {i \in 0 .. N : Kept(w[i].rt)}
<1>4. IsFiniteSet(S) /\ S \in SUBSET CPUs /\ c \in S
  BY Consts, FS_Subset DEF Enabled
<1>5. \A x \in CPUs : x \in S <=> rd[x] = rd[c] /\ rt_runtime[x] # RUNTIME_INF
  BY DEF Enabled
<1>6. 0 \in P
  <2>1. w[0].rt = rt_runtime
    BY <1>1 DEF BalanceTurns
  <2> QED BY <2>1, Consts
<1>7. ASSUME NEW i \in 1 .. N, i - 1 \in P PROVE i \in P
  <2> DEFINE u == w[i - 1]
             v == w[i]
  <2>1. /\ u \in Walks /\ v \in Walks /\ v = balance_step(u, c, i) /\ Kept(u.rt)
        /\ i \in 0 .. N
    BY <1>1, <1>7, Consts DEF BalanceTurns
  <2> HIDE DEF u, v, S
  <2>2. v = u \/ (/\ i \in CPUs /\ i # c /\ rd[i] = rd[c] /\ u.rt[i] # RUNTIME_INF
                  /\ v.rt[i] + v.rt[c] = u.rt[i] + u.rt[c]
                  /\ \A x \in CPUs \ {i, c} : v.rt[x] = u.rt[x])
    BY <2>1, BalanceStep
  <2>3. ASSUME i \in CPUs, i # c, rd[i] = rd[c], u.rt[i] # RUNTIME_INF,
               v.rt[i] + v.rt[c] = u.rt[i] + u.rt[c],
               \A x \in CPUs \ {i, c} : v.rt[x] = u.rt[x]
        PROVE  Kept(v.rt)
    <3>1. i \in S
      BY <1>5, <2>1, <2>3
    <3>2. \A x \in CPUs : u.rt[x] \in Nat /\ v.rt[x] \in Nat
      BY <2>1 DEF Walks, Shares
    <3> DEFINE f == u.rt
               g == v.rt
    <3>3. PICK a : a = i
      OBVIOUS
    <3>4. /\ \A x \in S : f[x] \in Int /\ g[x] \in Int
          /\ a \in S /\ c \in S /\ a # c /\ g[a] + g[c] = f[a] + f[c]
          /\ \A x \in S \ {a, c} : g[x] = f[x]
      BY <1>4, <2>3, <3>1, <3>2, <3>3
    <3> HIDE DEF f, g
    <3>7. SumFunctionOnSet(g, S) = SumFunctionOnSet(f, S)
      BY ONLY <1>4, <3>4, SumMoves, Zenon
    <3>8. Balanced(g, S, b)
      BY <2>1, <3>7 DEF Balanced, f
    <3> QED BY <1>4, <2>1, <2>3, <3>1, <3>8 DEF g
  <2> QED BY <2>1, <2>2, <2>3 DEF v
<1>8. N \in P
  <2>1. P \in SUBSET (0 .. N)
    OBVIOUS
  <2> HIDE DEF P
  <2> QED BY <1>6, <1>7, <2>1, Consts, WalkInduction
<1>9. Kept(do_balance_runtime(c))
  BY <1>2, <1>8
<1> HIDE DEF S
<1>10. \A x \in S : do_balance_runtime(c)[x] # RUNTIME_INF
  BY <1>3, <1>4, <1>9, Small
<1>11. Enabled(do_balance_runtime(c), rd, rd[c]) = S
  BY <1>4, <1>5, <1>9, <1>10 DEF Enabled
<1> QED BY <1>5, <1>9, <1>11 DEF S

-----------------------------------------------------------------------------
(* One turn of the loop that reclaims.                                     *)
Wants == [rt : Shares, want : Int]

(* A turn of __disable_runtime takes from another CPU what c is wanting,   *)
(* as far as that CPU has it, or hands it all that c has borrowed.         *)
LEMMA ReclaimStep ==
  ASSUME TypeOK, NEW w \in Wants, NEW c \in CPUs, NEW i \in 0 .. N
  PROVE  LET v == reclaim_step(w, c, i)
         IN  /\ v \in Wants
             /\ IF w.want = 0 \/ i \notin CPUs \ {c} \/ rd[i] # rd[c] \/ w.rt[i] = RUNTIME_INF
                THEN v = w
                ELSE /\ v.rt[i] - v.want = w.rt[i] - w.want
                     /\ w.want > 0 => /\ v.want >= 0 /\ v.want <= w.want
                                      /\ v.want > 0 => v.rt[i] = 0
                     /\ w.want < 0 => v.want = 0
                     /\ \A x \in CPUs \ {i} : v.rt[x] = w.rt[x]
<1> DEFINE v == reclaim_step(w, c, i)
           diff == reclaim(w.rt, w.want, i)
           rt == [w.rt EXCEPT ![i] = w.rt[i] - diff]
<1>0. w.rt \in Shares /\ w.want \in Int
  BY DEF Wants
<1>1. CASE w.want = 0 \/ i \notin CPUs \ {c} \/ rd[i] # rd[c] \/ w.rt[i] = RUNTIME_INF
  <2>1. v = w
    BY <1>1 DEF reclaim_step, span
  <2> QED BY <1>1, <2>1
<1>2. CASE ~(w.want = 0 \/ i \notin CPUs \ {c} \/ rd[i] # rd[c] \/ w.rt[i] = RUNTIME_INF)
  <2>1. i \in CPUs /\ i # c /\ rd[i] = rd[c] /\ w.rt[i] # RUNTIME_INF /\ w.want # 0
    BY <1>2
  <2>2. w.rt[i] \in Nat
    BY <1>0, <2>1 DEF Shares
  <2>3. diff = IF w.want > 0 THEN IF w.rt[i] <= w.want THEN w.rt[i] ELSE w.want
               ELSE w.want
    <3>1. Min({w.rt[i], w.want}) = IF w.rt[i] <= w.want THEN w.rt[i] ELSE w.want
      BY <1>0, <2>2, MinTwo
    <3> QED BY <3>1 DEF reclaim
  <2>4. v = [rt |-> rt, want |-> w.want - diff]
    BY <2>1 DEF reclaim_step, span
  <2> HIDE DEF diff
  <2>5. /\ diff \in Int /\ w.rt[i] - diff \in Nat
        /\ w.want > 0 => /\ w.want - diff >= 0 /\ w.want - diff <= w.want
                         /\ w.want - diff > 0 => w.rt[i] - diff = 0
        /\ w.want < 0 => w.want - diff = 0
    BY <1>0, <2>2, <2>3
  <2>6. /\ rt \in Shares /\ rt[i] = w.rt[i] - diff
        /\ \A x \in CPUs \ {i} : rt[x] = w.rt[x]
    BY <1>0, <2>1, <2>5 DEF Shares
  <2> HIDE DEF rt, v
  <2>7. v.rt = rt /\ v.want = w.want - diff /\ w.want - diff \in Int
    BY <1>0, <2>4, <2>5
  <2>8. v \in Wants
    BY <2>4, <2>6, <2>7 DEF Wants
  <2>9. v.rt[i] - v.want = w.rt[i] - w.want
    BY <1>0, <2>2, <2>5, <2>6, <2>7
  <2>10. /\ w.want > 0 => /\ v.want >= 0 /\ v.want <= w.want
                          /\ v.want > 0 => v.rt[i] = 0
         /\ w.want < 0 => v.want = 0
         /\ \A x \in CPUs \ {i} : v.rt[x] = w.rt[x]
    BY <2>5, <2>6, <2>7
  <2> QED BY <1>2, <2>8, <2>9, <2>10 DEF v
<1> QED BY <1>1, <1>2

(* The loop that reclaims, turn by turn.                                   *)
ReclaimTurns(w, c) ==
  /\ w[0] = [rt |-> rt_runtime, want |-> lent(c)]
  /\ \A i \in 1 .. N : w[i] = reclaim_step(w[i - 1], c, i)
  /\ __disable_runtime(c) = [rt |-> [w[N].rt EXCEPT ![c] = RUNTIME_INF],
                             want |-> w[N].want]

(* The loop over the span is the walk through those turns.                 *)
LEMMA ReclaimWalk ==
  ASSUME TypeOK, NEW c \in CPUs
  PROVE  \E w \in [0 .. N -> Wants] : ReclaimTurns(w, c)
<1> DEFINE base == [rt |-> rt_runtime, want |-> lent(c)]
           step == [p \in Wants \X (0 .. N) |-> reclaim_step(p[1], c, p[2])]
           walk == CHOOSE w : w = [i \in 0 .. N |-> IF i = 0 THEN base
                                                   ELSE reclaim_step(w[i - 1], c, i)]
<1>1. base \in Wants
  BY DEF Wants, Shares, TypeOK, lent
<1>2. step \in [Wants \X (0 .. N) -> Wants]
  <2>1. ASSUME NEW p \in Wants \X (0 .. N) PROVE reclaim_step(p[1], c, p[2]) \in Wants
    <3>1. p[1] \in Wants /\ p[2] \in 0 .. N
      OBVIOUS
    <3> QED BY <3>1, ReclaimStep
  <2> QED BY <2>1
<1>3. \A v \in Wants, i \in 0 .. N : step[<<v, i>>] = reclaim_step(v, c, i)
  OBVIOUS
<1>4. __disable_runtime(c) = [rt |-> [walk[N].rt EXCEPT ![c] = RUNTIME_INF],
                              want |-> walk[N].want]
  BY DEF __disable_runtime
<1> HIDE DEF base, step
<1>5. PICK w \in [0 .. N -> Wants] :
        w[0] = base /\ \A i \in 1 .. N : w[i] = step[<<w[i - 1], i>>]
  <2> DEFINE G == 0 .. N
  <2>1. N \in Nat /\ G = 0 .. N
    BY Consts
  <2>2. \A i \in 1 .. N : i \in G \ {0}
    OBVIOUS
  <2>3. step \in [Wants \X G -> Wants]
    BY <1>2
  <2> HIDE DEF walk, G
  <2>4. PICK w \in [G -> Wants] :
          w[0] = base /\ \A i \in G \ {0} : w[i] = step[<<w[i - 1], i>>]
    <3>1. /\ N \in Nat /\ G = 0 .. N /\ base \in Wants
          /\ StepOn(step, Wants, G)
      BY <1>1, <2>1, <2>3 DEF StepOn
    <3>2. \E w : Walked(w, G, Wants, base, step)
      BY ONLY <3>1, WalkExists, Zenon
    <3> QED BY ONLY <3>2, Zenon DEF Walked
  <2>5. \A i \in 1 .. N : w[i] = step[<<w[i - 1], i>>]
    BY ONLY <2>2, <2>4, Zenon
  <2>6. w \in [0 .. N -> Wants]
    BY <2>1
  <2> QED BY ONLY <2>4, <2>5, <2>6, Zenon
<1>6. \A i \in 1 .. N : step[<<w[i - 1], i>>] = reclaim_step(w[i - 1], c, i)
  <2> SUFFICES ASSUME NEW i \in 1 .. N
               PROVE  step[<<w[i - 1], i>>] = reclaim_step(w[i - 1], c, i)
    OBVIOUS
  <2>1. w[i - 1] \in Wants
    BY Consts
  <2> QED BY <1>3, <2>1
<1>7. w = [i \in 0 .. N |-> IF i = 0 THEN base ELSE reclaim_step(w[i - 1], c, i)]
  <2>1. \A i \in 0 .. N : i # 0 => i \in 1 .. N
    OBVIOUS
  <2>2. \A i \in 0 .. N : w[i] = IF i = 0 THEN base ELSE reclaim_step(w[i - 1], c, i)
    BY ONLY <1>5, <1>6, <2>1, Zenon
  <2> QED BY ONLY <2>2, Zenon
<1>8. walk = [i \in 0 .. N |-> IF i = 0 THEN base ELSE reclaim_step(walk[i - 1], c, i)]
  BY <1>7
<1> HIDE DEF walk
<1>9. walk[0] = base /\ \A i \in 1 .. N : walk[i] = reclaim_step(walk[i - 1], c, i)
  BY <1>8, Consts
<1>10. walk \in [0 .. N -> Wants]
  <2> DEFINE P == {i \in 0 .. N : walk[i] \in Wants}
  <2> DEFINE Q(n) == {k \in 0 .. n : walk[k] \in Wants}
  <2>1. ASSUME NEW n \in 0 .. N PROVE n \in Q(n)
    <3>1. 0 \in Q(n) /\ Q(n) \in SUBSET (0 .. n)
      BY <1>1, <1>9
    <3>2. ASSUME NEW i \in 1 .. n, i - 1 \in Q(n) PROVE i \in Q(n)
      <4>1. i \in 1 .. N /\ i \in 0 .. N /\ walk[i - 1] \in Wants
        BY <3>2, Consts
      <4>2. reclaim_step(walk[i - 1], c, i) \in Wants
        BY <4>1, ReclaimStep
      <4> QED BY <1>9, <4>1, <4>2
    <3>3. n \in Nat
      OBVIOUS
    <3> HIDE DEF Q
    <3> QED BY <3>1, <3>2, <3>3, WalkInduction
  <2>2. \A n \in 0 .. N : walk[n] \in Wants
    BY <2>1
  <2> QED BY <1>8, <2>2
<1>11. ReclaimTurns(walk, c)
  BY <1>4, <1>9 DEF ReclaimTurns, base
<1> QED BY <1>10, <1>11

(* Leaving the pool leaves every CPU a runtime ...                         *)
LEMMA DisableShares ==
  ASSUME TypeOK, NEW c \in CPUs
  PROVE  /\ __disable_runtime(c).rt \in Shares
         /\ __disable_runtime(c).rt[c] = RUNTIME_INF
         /\ __disable_runtime(c).want \in Int
<1>1. PICK w \in [0 .. N -> Wants] : ReclaimTurns(w, c)
  BY ReclaimWalk
<1>2. /\ w[N] \in Wants
      /\ __disable_runtime(c) = [rt |-> [w[N].rt EXCEPT ![c] = RUNTIME_INF],
                                 want |-> w[N].want]
  BY <1>1, Consts DEF ReclaimTurns
<1>3. w[N].rt \in Shares /\ w[N].want \in Int
  BY <1>2 DEF Wants
<1>4. __disable_runtime(c).rt = [w[N].rt EXCEPT ![c] = RUNTIME_INF]
  BY <1>2
<1> QED BY <1>2, <1>3, <1>4, Consts DEF Shares

(* ... and when the shares add up, nothing is left wanting and what the    *)
(* other CPUs have adds up without c.                                      *)
LEMMA DisableKeeps ==
  ASSUME TypeOK, NEW c \in CPUs, rt_b_runtime \in 0 .. PERIOD,
         Balanced(rt_runtime, Enabled(rt_runtime, rd, rd[c]), rt_b_runtime)
  PROVE  LET S == Enabled(rt_runtime, rd, rd[c])
             rt == __disable_runtime(c).rt
         IN  /\ __disable_runtime(c).want = 0
             /\ \A x \in CPUs : rd[x] # rd[c] => rt[x] = rt_runtime[x]
             /\ Enabled(rt, rd, rd[c]) = S \ {c}
             /\ Balanced(rt, S \ {c}, rt_b_runtime)
<1> DEFINE b == rt_b_runtime
           S == Enabled(rt_runtime, rd, rd[c])
           T == S \ {c}
           n == Cardinality(T)
           rt == __disable_runtime(c).rt
<1>1. PICK w \in [0 .. N -> Wants] : ReclaimTurns(w, c)
  BY ReclaimWalk
<1>2. /\ w[N] \in Wants
      /\ rt = [w[N].rt EXCEPT ![c] = RUNTIME_INF]
      /\ __disable_runtime(c).want = w[N].want
  <2>1. __disable_runtime(c) = [rt |-> [w[N].rt EXCEPT ![c] = RUNTIME_INF],
                                want |-> w[N].want]
    BY <1>1 DEF ReclaimTurns
  <2>2. w[N] \in Wants
    BY Consts
  <2> QED BY <2>1, <2>2
<1>3. rt \in Shares /\ rt[c] = RUNTIME_INF
  BY DisableShares
<1>4. /\ IsFiniteSet(S) /\ S \in SUBSET CPUs /\ IsFiniteSet(T) /\ T \in SUBSET CPUs
      /\ n \in Nat /\ c \notin T
  <2>1. S \in SUBSET CPUs /\ T \in SUBSET CPUs /\ c \notin T
    BY DEF Enabled
  <2> QED BY <2>1, Consts, FS_Subset, FS_CardinalityType
<1>5. \A x \in CPUs : /\ x \in S <=> rd[x] = rd[c] /\ rt_runtime[x] # RUNTIME_INF
                      /\ x \in T <=> x \in S /\ x # c
  BY DEF Enabled
<1>6. \A x \in CPUs : rt_runtime[x] \in Nat /\ rt_runtime \in Shares
  BY DEF TypeOK, Shares
<1>7. b \in Nat /\ b \in 0 .. PERIOD /\ n * b \in Int
  BY <1>4, Consts
<1>8. lent(c) \in Int /\ SumFunctionOnSet(rt_runtime, T) = n * b + lent(c)
  <2>1. CASE rt_runtime[c] = RUNTIME_INF
    <3>1. T = S /\ lent(c) = 0
      BY <1>5, <2>1 DEF lent
    <3>2. SumFunctionOnSet(rt_runtime, T) = n * b
      BY <3>1, Zenon DEF Balanced
    <3> DEFINE m == n * b
    <3>3. m \in Int
      BY <1>7
    <3> HIDE DEF m
    <3>4. m = m + 0
      BY <3>3
    <3> QED BY <3>1, <3>2, <3>4 DEF m
  <2>2. CASE rt_runtime[c] # RUNTIME_INF
    <3>1. c \in S /\ lent(c) = b - rt_runtime[c]
      BY <1>5, <2>2 DEF lent
    <3>2. \A x \in S : rt_runtime[x] \in Int
      BY <1>4, <1>6
    <3>3. Cardinality(S) = n + 1
      <4>1. Cardinality(T) = Cardinality(S) - 1 /\ Cardinality(S) \in Nat
        BY <1>4, <3>1, FS_RemoveElement, FS_CardinalityType
      <4> QED BY <4>1
    <3>4. SumFunctionOnSet(rt_runtime, S) = rt_runtime[c] + SumFunctionOnSet(rt_runtime, T)
      BY <1>4, <3>1, <3>2, SumTake
    <3>5. SumFunctionOnSet(rt_runtime, S) = (n + 1) * b
      BY <3>3 DEF Balanced
    <3>6. (n + 1) * b = n * b + b
      BY <1>4, <1>7
    <3>7. SumFunctionOnSet(rt_runtime, T) \in Int
      <4>1. \A x \in T : rt_runtime[x] \in Int
        BY <3>2
      <4> HIDE DEF T
      <4> QED BY <1>4, <4>1, SumInt
    <3>8. rt_runtime[c] \in Int
      BY <1>6
    <3> HIDE DEF n, b, T, S
    <3> QED BY <1>7, <3>1, <3>4, <3>5, <3>6, <3>7, <3>8
  <2> QED BY <2>1, <2>2
<1>9. \A x \in T : rt_runtime[x] < RUNTIME_INF
  <2>1. \A x \in S : rt_runtime[x] < RUNTIME_INF
    <3> HIDE DEF S, b
    <3> QED BY <1>4, <1>6, <1>7, Small DEF b, S
  <2> QED BY <2>1
<1> DEFINE Kept(u, i) ==
             /\ \A x \in CPUs \ T : u.rt[x] = rt_runtime[x]
             /\ SumFunctionOnSet(u.rt, T) = n * b + u.want
             /\ \A x \in T : u.rt[x] < RUNTIME_INF
             /\ u.want > 0 => \A x \in T : x <= i => u.rt[x] = 0
             /\ u.want < 0 => \A x \in T : x > i
           P == {i \in 0 .. N : Kept(w[i], i)}
<1>10. 0 \in P
  <2>1. w[0] = [rt |-> rt_runtime, want |-> lent(c)]
    BY <1>1 DEF ReclaimTurns
  <2>2. w[0].rt = rt_runtime /\ w[0].want = lent(c) /\ 0 \in 0 .. N
    BY <2>1, Consts
  <2>3. \A x \in T : x > 0 /\ ~(x <= 0)
    BY <1>4 DEF CPUs
  <2> HIDE DEF T, b, n
  <2>4. Kept(w[0], 0)
    BY <1>8, <1>9, <2>2, <2>3
  <2> QED BY <2>2, <2>4
<1>11. ASSUME NEW i \in 1 .. N, i - 1 \in P PROVE i \in P
  <2> DEFINE u == w[i - 1]
             v == w[i]
             Idle == u.want = 0 \/ i \notin CPUs \ {c} \/ rd[i] # rd[c] \/ u.rt[i] = RUNTIME_INF
  <2>1. /\ u \in Wants /\ v \in Wants /\ v = reclaim_step(u, c, i) /\ Kept(u, i - 1)
        /\ i \in 0 .. N
    BY <1>1, <1>11, Consts DEF ReclaimTurns
  <2> HIDE DEF u, v, S, T, b, n
  <2>2. IF Idle THEN v = u
        ELSE /\ v.rt[i] - v.want = u.rt[i] - u.want
             /\ u.want > 0 => /\ v.want >= 0 /\ v.want <= u.want
                              /\ v.want > 0 => v.rt[i] = 0
             /\ u.want < 0 => v.want = 0
             /\ \A x \in CPUs \ {i} : v.rt[x] = u.rt[x]
    BY <2>1, ReclaimStep
  <2>3. /\ \A x \in CPUs : u.rt[x] \in Nat /\ v.rt[x] \in Nat
        /\ u.want \in Int /\ v.want \in Int
    BY <2>1 DEF Wants, Shares
  <2>4. i \in CPUs
    BY DEF CPUs
  <2>5. \A x \in T : x \in Int /\ (x <= i => x <= i - 1 \/ x = i) /\ (x > i - 1 => x > i \/ x = i)
    BY <1>4, Consts DEF CPUs
  <2>6. Idle <=> u.want = 0 \/ i \notin T
    BY <1>5, <2>1, <2>4, Consts
  <2>7. CASE Idle
    <3>1. v = u
      BY <2>2, <2>7
    <3>2. Kept(v, i)
      BY <2>1, <2>3, <2>5, <2>6, <2>7, <3>1
    <3> QED BY <2>1, <3>2 DEF v
  <2>8. CASE ~Idle
    <3>1. i \in T /\ u.want # 0
      BY <2>6, <2>8
    <3>2. /\ v.rt[i] - v.want = u.rt[i] - u.want
          /\ u.want > 0 => /\ v.want >= 0 /\ v.want <= u.want
                           /\ v.want > 0 => v.rt[i] = 0
          /\ u.want < 0 => v.want = 0
          /\ \A x \in CPUs \ {i} : v.rt[x] = u.rt[x]
      BY <2>2, <2>8
    <3>3. \A x \in CPUs \ T : v.rt[x] = rt_runtime[x]
      BY <2>1, <3>1, <3>2
    <3>4. SumFunctionOnSet(v.rt, T) = n * b + v.want
      <4> DEFINE f == u.rt
                 g == v.rt
      <4>1. PICK a : a = i
        OBVIOUS
      <4>2. /\ a \in T /\ \A x \in T : f[x] \in Int /\ g[x] \in Int
            /\ \A x \in T \ {a} : g[x] = f[x]
            /\ IsFiniteSet(T)
        BY <1>4, <2>3, <3>1, <3>2, <4>1
      <4>3. g[a] - v.want = f[a] - u.want
        BY <3>2, <4>1
      <4>4. SumFunctionOnSet(f, T) = n * b + u.want
        BY <2>1
      <4>5. f[a] \in Int /\ g[a] \in Int
        BY <4>2
      <4> HIDE DEF f, g
      <4>6. SumFunctionOnSet(g, T) = SumFunctionOnSet(f, T) - f[a] + g[a]
        BY ONLY <4>2, SumAt
      <4> DEFINE m == n * b
      <4>7. m \in Int
        BY <1>7
      <4>8. SumFunctionOnSet(f, T) = m + u.want
        BY <4>4
      <4> HIDE DEF m
      <4>9. SumFunctionOnSet(g, T) = m + v.want
        BY ONLY <2>3, <4>3, <4>5, <4>6, <4>7, <4>8
      <4> QED BY <4>9 DEF m, g
    <3>5. \A x \in T : v.rt[x] < RUNTIME_INF
      <4>1. CASE u.want > 0
        <5>1. v.rt[i] <= u.rt[i]
          BY <2>3, <2>4, <3>2, <4>1
        <5>2. u.rt[i] < RUNTIME_INF
          BY <2>1, <3>1
        <5> QED BY <1>4, <2>1, <2>3, <2>4, <3>1, <3>2, <5>1, <5>2, Consts
      <4>2. CASE u.want < 0
        <5>1. v.want = 0
          BY <3>2, <4>2
        <5>2. Balanced(v.rt, T, b)
          <6> DEFINE m == n * b
          <6>1. m \in Int
            BY <1>7
          <6> HIDE DEF m
          <6>2. m + 0 = m
            BY <6>1
          <6>3. SumFunctionOnSet(v.rt, T) = m
            BY <3>4, <5>1, <6>2 DEF m
          <6> QED BY <6>3 DEF Balanced, m, n
        <5>3. v.rt \in Shares
          BY <2>1 DEF Wants
        <5> QED BY <1>4, <1>7, <5>2, <5>3, Small
      <4> QED BY <2>3, <3>1, <4>1, <4>2
    <3>6. v.want > 0 => \A x \in T : x <= i => v.rt[x] = 0
      BY <1>4, <2>1, <2>3, <2>5, <3>1, <3>2
    <3>7. ~(v.want < 0)
      BY <2>3, <3>1, <3>2
    <3>8. Kept(v, i)
      BY <3>3, <3>4, <3>5, <3>6, <3>7
    <3> QED BY <2>1, <3>8 DEF v
  <2> QED BY <2>7, <2>8
<1>12. Kept(w[N], N)
  <2>1. P \in SUBSET (0 .. N)
    OBVIOUS
  <2>2. N \in P
    <3> HIDE DEF P
    <3> QED BY <1>10, <1>11, <2>1, Consts, WalkInduction
  <2> QED BY <2>2
<1>13. w[N].want = 0
  <2> DEFINE m == n * b
             k == w[N].want
             f == w[N].rt
  <2>1. m \in Nat /\ k \in Int
    <3>1. \A x, y \in Nat : x * y \in Nat
      OBVIOUS
    <3> QED BY <1>2, <1>4, <1>7, <3>1 DEF Wants
  <2>2. \A x \in T : x <= N /\ ~(x > N)
    BY <1>4, Consts DEF CPUs
  <2>3. SumFunctionOnSet(f, T) = m + k
    BY <1>12
  <2>4. (k > 0 => \A x \in T : f[x] = 0) /\ (k < 0 => T = {})
    <3> HIDE DEF T, n, b
    <3> QED BY <1>12, <2>2
  <2> HIDE DEF m, k, f, T, n
  <2>5. k > 0 => SumFunctionOnSet(f, T) = 0
    BY <1>4, <2>4, SumZero
  <2>6. k < 0 => SumFunctionOnSet(f, T) = 0 /\ m = 0
    <3>1. k < 0 => n = 0
      BY <2>4, FS_EmptySet DEF n
    <3>2. 0 * b = 0
      BY <1>7
    <3> QED BY <2>4, <3>1, <3>2, SumEmpty DEF m
  <2>7. k = 0
    BY <2>1, <2>3, <2>5, <2>6
  <2> QED BY <2>7 DEF k
<1>14. /\ \A x \in CPUs \ T : x # c => rt[x] = rt_runtime[x]
       /\ \A x \in T : rt[x] = w[N].rt[x] /\ rt[x] # RUNTIME_INF
  <2>1. \A x \in CPUs \ {c} : rt[x] = w[N].rt[x] /\ rt[x] \in Nat
    <3>1. w[N].rt \in Shares
      BY <1>2 DEF Wants
    <3> QED BY <1>2, <1>3, <3>1 DEF Shares
  <2> HIDE DEF rt, T, n, b
  <2> QED BY <1>4, <1>12, <2>1, Consts
<1>15. Balanced(rt, T, b)
  <2> DEFINE f == w[N].rt
  <2>1. SumFunctionOnSet(f, T) = n * b
    <3> DEFINE m == n * b
    <3>1. m \in Int /\ SumFunctionOnSet(f, T) = m + w[N].want
      BY <1>7, <1>12
    <3> HIDE DEF m, f
    <3>2. SumFunctionOnSet(f, T) = m
      BY <1>13, <3>1
    <3> QED BY <3>2 DEF m
  <2>2. \A x \in T : f[x] \in Int /\ rt[x] = f[x]
    <3>1. w[N].rt \in Shares
      BY <1>2 DEF Wants
    <3> HIDE DEF rt, T
    <3> QED BY <1>4, <1>14, <3>1 DEF Shares
  <2> HIDE DEF rt, f, T
  <2>3. SumFunctionOnSet(rt, T) = SumFunctionOnSet(f, T)
    BY <1>4, <2>2, SumSame
  <2> QED BY <2>1, <2>3 DEF Balanced
<1>16. Enabled(rt, rd, rd[c]) = T
  <2> HIDE DEF rt, T, S
  <2>1. \A x \in CPUs : x \in T <=> rd[x] = rd[c] /\ rt[x] # RUNTIME_INF
    BY <1>3, <1>5, <1>14
  <2> QED BY <1>4, <2>1 DEF Enabled
<1>17. \A x \in CPUs : rd[x] # rd[c] => rt[x] = rt_runtime[x]
  <2> HIDE DEF rt, T, S
  <2> QED BY <1>5, <1>14
<1> QED BY <1>2, <1>13, <1>15, <1>16, <1>17

-----------------------------------------------------------------------------
(* Plans: what a sequence holds, and that it holds nothing twice.          *)
Elems(s) == {s[k] : k \in DOMAIN s}

(* No element comes twice.                                                 *)
Distinct(s) == \A j, k \in DOMAIN s : s[j] = s[k] => j = k

(* How many elements of S are below c.                                     *)
Rank(S, c) == Cardinality({i \in S : i < c})

(* The elements of a set of CPUs can be numbered in ascending order.       *)
LEMMA RankIs ==
  ASSUME NEW S \in SUBSET CPUs
  PROVE  /\ IsFiniteSet(S) /\ Cardinality(S) \in Nat
         /\ \A c \in S : Rank(S, c) \in 0 .. Cardinality(S) - 1
         /\ \A c, d \in S : Rank(S, c) = Rank(S, d) => c = d
         /\ \A k \in 1 .. Cardinality(S) : \E c \in S : Rank(S, c) = k - 1
<1> DEFINE Below(c) == {i \in S : i < c}
           n == Cardinality(S)
           R == 0 .. n - 1
           f == [c \in S |-> Rank(S, c)]
<1>1. IsFiniteSet(S) /\ n \in Nat /\ S \subseteq Int
  <2>1. IsFiniteSet(S)
    BY Consts, FS_Subset
  <2>2. S \subseteq Int
    BY DEF CPUs
  <2> QED BY <2>1, <2>2, FS_CardinalityType
<1>2. ASSUME NEW c \in S PROVE Rank(S, c) \in R /\ IsFiniteSet(Below(c)) /\ Rank(S, c) \in Nat
  <2>1. Below(c) \in SUBSET S /\ c \notin Below(c) /\ Below(c) # S
    BY <1>1
  <2>2. IsFiniteSet(Below(c)) /\ Cardinality(Below(c)) \in Nat /\ Cardinality(Below(c)) < n
    BY <1>1, <2>1, FS_Subset, FS_CardinalityType
  <2> QED BY <1>1, <2>2 DEF Rank
<1>3. ASSUME NEW c \in S, NEW d \in S, c < d PROVE Rank(S, c) < Rank(S, d)
  <2>0. \A i \in S : i \in Int /\ (i < c => i < d) /\ ~(c < c)
    BY <1>1, <1>3
  <2>1. Below(c) \in SUBSET Below(d) /\ c \notin Below(c) /\ c \in Below(d)
    BY <1>3, <2>0, Zenon
  <2>2. Below(c) # Below(d)
    BY <2>1
  <2>3. Cardinality(Below(c)) < Cardinality(Below(d))
    <3> DEFINE B == Below(c)
               D == Below(d)
    <3>1. B \in SUBSET D /\ B # D /\ IsFiniteSet(D)
      BY <1>2, <2>1, <2>2
    <3> HIDE DEF B, D
    <3>2. IsFiniteSet(B) /\ Cardinality(B) < Cardinality(D)
      <4>1. IsFiniteSet(B) /\ Cardinality(B) <= Cardinality(D) /\ Cardinality(B) # Cardinality(D)
        BY <3>1, FS_Subset
      <4>2. Cardinality(B) \in Nat /\ Cardinality(D) \in Nat
        BY <3>1, <4>1, FS_CardinalityType
      <4> QED BY <4>1, <4>2
    <3> QED BY <3>2 DEF B, D
  <2> QED BY <2>3 DEF Rank
<1>4. ASSUME NEW c \in S, NEW d \in S, Rank(S, c) = Rank(S, d) PROVE c = d
  <2>1. ~(c < d) /\ ~(d < c)
    <3>1. Rank(S, c) \in Nat /\ Rank(S, d) \in Nat
      BY <1>2
    <3> QED BY <1>3, <1>4, <3>1
  <2> QED BY <1>1, <2>1
<1>5. f \in Injection(S, R)
  <2>1. f \in [S -> R] /\ \A c \in S : f[c] = Rank(S, c)
    BY <1>2
  <2> HIDE DEF f
  <2> QED BY <1>4, <2>1 DEF Injection, IsInjective
<1>6. IsFiniteSet(R) /\ Cardinality(R) = n
  <2>1. IsFiniteSet(0 .. n - 1) /\ Cardinality(0 .. n - 1) = IF 0 > n - 1 THEN 0 ELSE n - 1 - 0 + 1
    <3>1. 0 \in Int /\ n - 1 \in Int
      BY <1>1
    <3> QED BY <3>1, FS_Interval
  <2> QED BY <1>1, <2>1
<1>7. f \in Surjection(S, R)
  <2> HIDE DEF f, R
  <2> QED BY <1>5, <1>6, FS_Injection
<1>8. ASSUME NEW k \in 1 .. n PROVE \E c \in S : Rank(S, c) = k - 1
  <2>1. k - 1 \in R
    BY <1>1
  <2>2. PICK c \in S : f[c] = k - 1
    <3> HIDE DEF f, R
    <3> QED BY <1>7, <2>1 DEF Surjection
  <2> QED BY <2>2
<1> QED BY <1>1, <1>2, <1>4, <1>8

(* The steps of an operation on a set of CPUs.                             *)
LEMMA StepsOf ==
  ASSUME NEW S \in SUBSET CPUs, NEW op \in Ops
  PROVE  /\ Steps(op, S) \in Seq(Ops \X CPUs) /\ Distinct(Steps(op, S))
         /\ Elems(Steps(op, S)) = {<<op, c>> : c \in S}
<1> DEFINE n == Cardinality(S)
           at == [k \in 1 .. n |-> CHOOSE c \in S : Rank(S, c) = k - 1]
           s == Steps(op, S)
<1>1. n \in Nat /\ \A k \in 1 .. n : at[k] \in S /\ Rank(S, at[k]) = k - 1
  BY RankIs
<1>2. \A c \in S : Rank(S, c) + 1 \in 1 .. n /\ at[Rank(S, c) + 1] = c
  <2> SUFFICES ASSUME NEW c \in S PROVE Rank(S, c) + 1 \in 1 .. n /\ at[Rank(S, c) + 1] = c
    OBVIOUS
  <2> DEFINE k == Rank(S, c) + 1
  <2>1. Rank(S, c) \in 0 .. n - 1
    BY RankIs
  <2>2. k \in 1 .. n /\ k - 1 = Rank(S, c)
    BY <1>1, <2>1
  <2> HIDE DEF k, at
  <2>3. at[k] \in S /\ Rank(S, at[k]) = Rank(S, c)
    BY <1>1, <2>2
  <2>4. at[k] = c
    <3>1. \A x, y \in S : Rank(S, x) = Rank(S, y) => x = y
      BY RankIs
    <3> QED BY ONLY <2>3, <3>1, Zenon
  <2> QED BY <2>2, <2>4 DEF k
<1>3. s = [k \in 1 .. n |-> <<op, at[k]>>]
  BY DEF Steps, Rank
<1> HIDE DEF at, s
<1>4. s \in [1 .. n -> Ops \X CPUs] /\ DOMAIN s = 1 .. n
  BY <1>1, <1>3
<1>5. s \in Seq(Ops \X CPUs)
  BY <1>1, <1>4
<1>6. Distinct(s)
  <2> SUFFICES ASSUME NEW j \in 1 .. n, NEW k \in 1 .. n, s[j] = s[k] PROVE j = k
    BY <1>4 DEF Distinct
  <2>1. at[j] = at[k]
    BY <1>3
  <2>2. j - 1 = k - 1
    BY <1>1, <2>1
  <2> QED BY <2>2
<1>7. Elems(s) = {<<op, c>> : c \in S}
  <2>1. ASSUME NEW k \in 1 .. n PROVE s[k] \in {<<op, c>> : c \in S}
    BY <1>1, <1>3
  <2>2. ASSUME NEW c \in S PROVE <<op, c>> \in Elems(s)
    <3>1. s[Rank(S, c) + 1] = <<op, c>> /\ Rank(S, c) + 1 \in DOMAIN s
      BY <1>2, <1>3, <1>4
    <3> QED BY <3>1 DEF Elems
  <2> QED BY <1>4, <2>1, <2>2 DEF Elems
<1> QED BY <1>5, <1>6, <1>7 DEF s

(* Two plans in a row, and a plan without its first step.                  *)
LEMMA Concat ==
  ASSUME NEW A, NEW s \in Seq(A), NEW t \in Seq(A), Distinct(s), Distinct(t),
         \A e \in Elems(s) : e \notin Elems(t)
  PROVE  /\ s \o t \in Seq(A) /\ Distinct(s \o t) /\ Elems(s \o t) = Elems(s) \cup Elems(t)
<1> DEFINE u == s \o t
           m == Len(s)
           n == Len(t)
<1>1. /\ m \in Nat /\ n \in Nat /\ DOMAIN s = 1 .. m /\ DOMAIN t = 1 .. n
      /\ u \in Seq(A) /\ DOMAIN u = 1 .. m + n
      /\ \A k \in 1 .. m + n : u[k] = IF k <= m THEN s[k] ELSE t[k - m]
  OBVIOUS
<1> HIDE DEF m, n, u
<1>2. \A k \in 1 .. m + n : (k <= m /\ k \in DOMAIN s) \/ (~(k <= m) /\ k - m \in DOMAIN t)
  BY <1>1
<1>3. \A k \in DOMAIN u : u[k] \in Elems(s) \cup Elems(t)
  BY <1>1, <1>2 DEF Elems
<1>4. \A k \in DOMAIN s : k \in DOMAIN u /\ u[k] = s[k]
  BY <1>1
<1>5. \A k \in DOMAIN t : k + m \in DOMAIN u /\ u[k + m] = t[k]
  BY <1>1
<1>6. Elems(u) = Elems(s) \cup Elems(t)
  BY <1>3, <1>4, <1>5 DEF Elems
<1>7. Distinct(u)
  <2> SUFFICES ASSUME NEW j \in 1 .. m + n, NEW k \in 1 .. m + n, u[j] = u[k] PROVE j = k
    BY <1>1 DEF Distinct
  <2>1. CASE j <= m /\ k <= m
    BY <1>1, <1>2, <2>1 DEF Distinct
  <2>2. CASE ~(j <= m) /\ ~(k <= m)
    <3>1. t[j - m] = t[k - m] /\ j - m \in DOMAIN t /\ k - m \in DOMAIN t
      BY <1>1, <1>2, <2>2
    <3>2. j - m = k - m
      BY <3>1 DEF Distinct
    <3> QED BY <1>1, <3>2
  <2>3. CASE j <= m /\ ~(k <= m)
    <3>1. u[j] \in Elems(s) /\ u[k] \in Elems(t)
      BY <1>1, <1>2, <2>3 DEF Elems
    <3> QED BY <3>1
  <2>4. CASE ~(j <= m) /\ k <= m
    <3>1. u[k] \in Elems(s) /\ u[j] \in Elems(t)
      BY <1>1, <1>2, <2>4 DEF Elems
    <3> QED BY <3>1
  <2> QED BY <2>1, <2>2, <2>3, <2>4
<1> QED BY <1>1, <1>6, <1>7 DEF u

(* After its first step is done a plan holds the steps that are left, and  *)
(* its last step is still the last.                                        *)
LEMMA TailOf ==
  ASSUME NEW A, NEW s \in Seq(A), s # <<>>, Distinct(s)
  PROVE  /\ Tail(s) \in Seq(A) /\ Distinct(Tail(s))
         /\ Head(s) \in Elems(s) /\ Elems(Tail(s)) = Elems(s) \ {Head(s)}
         /\ Tail(s) # <<>> => Tail(s)[Len(Tail(s))] = s[Len(s)]
         /\ s[Len(s)] = Head(s) => Tail(s) = <<>>
<1> DEFINE t == Tail(s)
           n == Len(s)
<1>1. /\ n \in Nat \ {0} /\ DOMAIN s = 1 .. n /\ t \in Seq(A) /\ DOMAIN t = 1 .. n - 1
      /\ \A k \in 1 .. n - 1 : t[k] = s[k + 1]
      /\ Head(s) = s[1] /\ Len(t) = n - 1
  OBVIOUS
<1>2. n = 1 => t = <<>>
  <2>1. n = 1 => Len(t) = 0
    BY <1>1
  <2>2. \A q \in Seq(A) : Len(q) = 0 => q = <<>>
    OBVIOUS
  <2> HIDE DEF t, n
  <2> QED BY <1>1, <2>1, <2>2
<1>3. t # <<>> => n - 1 \in 1 .. n - 1
  BY <1>1, <1>2
<1> HIDE DEF t, n
<1>4. \A k \in 1 .. n - 1 : k + 1 \in 1 .. n /\ k + 1 # 1
  BY <1>1
<1>5. \A k \in 1 .. n : k # 1 => k - 1 \in 1 .. n - 1 /\ t[k - 1] = s[k]
  BY <1>1
<1>6. \A k \in 1 .. n : k # 1 => s[k] # s[1]
  BY <1>1 DEF Distinct
<1>7. Distinct(t)
  <2> SUFFICES ASSUME NEW j \in 1 .. n - 1, NEW k \in 1 .. n - 1, t[j] = t[k] PROVE j = k
    BY <1>1 DEF Distinct
  <2>1. j + 1 = k + 1
    BY <1>1, <1>4 DEF Distinct
  <2> QED BY <2>1
<1>8. Elems(t) = Elems(s) \ {s[1]}
  <2>1. ASSUME NEW k \in 1 .. n - 1 PROVE t[k] \in Elems(s) /\ t[k] # s[1]
    BY <1>1, <1>4, <1>6 DEF Elems
  <2>2. ASSUME NEW k \in 1 .. n, s[k] # s[1] PROVE s[k] \in Elems(t)
    BY <1>1, <1>5, <2>2 DEF Elems
  <2> QED BY <1>1, <2>1, <2>2 DEF Elems
<1>9. s[1] \in Elems(s)
  BY <1>1 DEF Elems
<1>10. t # <<>> => t[n - 1] = s[n]
  BY <1>1, <1>3
<1>11. s[n] = s[1] => t = <<>>
  BY <1>1, <1>2, <1>6
<1> QED BY <1>1, <1>7, <1>8, <1>9, <1>10, <1>11 DEF t, n

-----------------------------------------------------------------------------
(* What the CPUs of each root domain have adds up.                         *)
Pool(rt, dom, b) == \A d \in {"def", "dom"} : Balanced(rt, Enabled(rt, dom, d), b)

(* No CPU has a limit.                                                     *)
AllInf(rt) == \A c \in CPUs : rt[c] = RUNTIME_INF

(* A CPU that has exactly its share may join and leave.                    *)
LEMMA BalancedJoin ==
  ASSUME NEW rt \in Shares, NEW S \in SUBSET CPUs, NEW c \in CPUs, c \notin S,
         NEW b \in Nat, rt[c] = b
  PROVE  Balanced(rt, S \cup {c}, b) <=> Balanced(rt, S, b)
<1> DEFINE u == S \cup {c}
           n == Cardinality(S)
<1>1. /\ IsFiniteSet(S) /\ n \in Nat /\ IsFiniteSet(u) /\ Cardinality(u) = n + 1
      /\ u \ {c} = S /\ c \in u
  <2>1. IsFiniteSet(S)
    BY Consts, FS_Subset
  <2>2. n \in Nat /\ IsFiniteSet(u) /\ Cardinality(u) = n + 1
    BY <2>1, FS_CardinalityType, FS_AddElement
  <2> QED BY <2>1, <2>2
<1>2. \A x \in u : rt[x] \in Int
  BY DEF Shares
<1>3. SumFunctionOnSet(rt, u) = b + SumFunctionOnSet(rt, S)
  <2> HIDE DEF u
  <2>1. SumFunctionOnSet(rt, u) = rt[c] + SumFunctionOnSet(rt, u \ {c})
    BY <1>1, <1>2, SumTake
  <2>2. SumFunctionOnSet(rt, u \ {c}) = SumFunctionOnSet(rt, S)
    BY <1>1, Zenon
  <2> QED BY <2>1, <2>2
<1>4. SumFunctionOnSet(rt, S) \in Int
  BY <1>1, <1>2, SumInt
<1>5. (n + 1) * b = n * b + b /\ n * b \in Int
  <2>1. \A x, y \in Nat : (x + 1) * y = x * y + y /\ x * y \in Int
    OBVIOUS
  <2> HIDE DEF n
  <2> QED BY <1>1, <2>1
<1> DEFINE m == n * b
<1>6. Balanced(rt, u, b) <=> SumFunctionOnSet(rt, u) = m + b
  BY <1>1, <1>5 DEF Balanced
<1>7. Balanced(rt, S, b) <=> SumFunctionOnSet(rt, S) = m
  BY DEF Balanced
<1>8. m \in Int
  BY <1>5
<1> HIDE DEF u, m
<1>9. Balanced(rt, u, b) <=> Balanced(rt, S, b)
  BY <1>3, <1>4, <1>6, <1>7, <1>8
<1> QED BY <1>9 DEF u

(* Only the runtimes of the set matter.                                    *)
LEMMA BalancedSame ==
  ASSUME NEW rt \in Shares, NEW rs \in Shares, NEW S \in SUBSET CPUs, NEW b,
         \A x \in S : rs[x] = rt[x], Balanced(rt, S, b)
  PROVE  Balanced(rs, S, b)
<1>1. IsFiniteSet(S) /\ \A x \in S : rt[x] \in Int /\ rs[x] = rt[x]
  BY Consts, FS_Subset DEF Shares
<1>2. SumFunctionOnSet(rs, S) = SumFunctionOnSet(rt, S)
  BY <1>1, SumSame
<1> QED BY <1>2 DEF Balanced

(* Without a limit nothing is counted.                                     *)
LEMMA PoolInf ==
  ASSUME NEW rt, NEW dom, NEW b \in Nat, AllInf(rt)
  PROVE  Pool(rt, dom, b)
<1>1. \A d : Enabled(rt, dom, d) = {}
  BY DEF Enabled, AllInf
<1>2. SumFunctionOnSet(rt, {}) = 0 /\ Cardinality({}) = 0 /\ 0 * b = 0
  BY SumEmpty, FS_EmptySet
<1> QED BY <1>1, <1>2 DEF Pool, Balanced

(* Every CPU has its share.                                                *)
LEMMA PoolSet ==
  ASSUME NEW rt \in Shares, NEW dom, NEW b \in Nat, \A c \in CPUs : rt[c] = b
  PROVE  Pool(rt, dom, b)
<1> SUFFICES ASSUME NEW d \in {"def", "dom"} PROVE Balanced(rt, Enabled(rt, dom, d), b)
  BY DEF Pool
<1> DEFINE S == Enabled(rt, dom, d)
<1>1. IsFiniteSet(S) /\ \A x \in S : rt[x] = b
  <2>1. S \in SUBSET CPUs
    BY DEF Enabled
  <2> HIDE DEF S
  <2> QED BY <2>1, Consts, FS_Subset
<1> HIDE DEF S
<1>2. b \in Int
  OBVIOUS
<1>3. Balanced(rt, S, b)
  BY <1>1, <1>2, SumSameValue DEF Balanced
<1> QED BY <1>3 DEF S

(* A CPU that takes no part, or has exactly its share, moves to another    *)
(* domain with its share.                                                  *)
LEMMA PoolMove ==
  ASSUME NEW rt \in Shares, NEW rs \in Shares, NEW dom \in [CPUs -> {"def", "dom"}],
         NEW e \in [CPUs -> {"def", "dom"}], NEW b \in Nat, Pool(rt, dom, b), NEW c \in CPUs,
         rt[c] \in {RUNTIME_INF, b}, rs[c] = b,
         \A x \in CPUs \ {c} : rs[x] = rt[x] /\ e[x] = dom[x]
  PROVE  Pool(rs, e, b)
<1> SUFFICES ASSUME NEW d \in {"def", "dom"} PROVE Balanced(rs, Enabled(rs, e, d), b)
  BY DEF Pool
<1> DEFINE S == Enabled(rt, dom, d)
           T == S \ {c}
           U == Enabled(rs, e, d)
<1>1. S \in SUBSET CPUs /\ T \in SUBSET CPUs /\ U \in SUBSET CPUs /\ c \notin T
  BY DEF Enabled
<1>2. Balanced(rt, S, b)
  BY DEF Pool
<1>3. U = T \/ U = T \cup {c}
  BY DEF Enabled
<1>4. c \in S => rt[c] = b /\ T \cup {c} = S
  BY DEF Enabled
<1>5. c \notin S => T = S
  OBVIOUS
<1> HIDE DEF S, T, U
<1>6. Balanced(rt, T, b)
  <2>1. CASE c \in S
    <3>1. Balanced(rt, T \cup {c}, b)
      BY <1>2, <1>4, <2>1
    <3>2. rt[c] = b
      BY <1>4, <2>1
    <3> QED BY <1>1, <3>1, <3>2, BalancedJoin
  <2>2. CASE c \notin S
    BY <1>2, <1>5, <2>2
  <2> QED BY <2>1, <2>2
<1>7. Balanced(rs, T, b)
  <2>1. \A x \in T : rs[x] = rt[x]
    BY <1>1
  <2> QED BY <1>1, <1>6, <2>1, BalancedSame
<1>8. Balanced(rs, T \cup {c}, b)
  BY <1>1, <1>7, BalancedJoin
<1>9. Balanced(rs, U, b)
  BY <1>3, <1>7, <1>8
<1> QED BY <1>9 DEF U

(* A CPU that takes no part moves.                                         *)
LEMMA PoolAway ==
  ASSUME NEW rt, NEW dom \in [CPUs -> {"def", "dom"}], NEW e \in [CPUs -> {"def", "dom"}],
         NEW b, Pool(rt, dom, b), NEW c \in CPUs, rt[c] = RUNTIME_INF,
         \A x \in CPUs \ {c} : e[x] = dom[x]
  PROVE  Pool(rt, e, b)
<1>1. \A d : Enabled(rt, e, d) = Enabled(rt, dom, d)
  BY DEF Enabled
<1> QED BY <1>1 DEF Pool

(* Borrowing where there is no limit changes nothing.                      *)
LEMMA BorrowInf ==
  ASSUME TypeOK, NEW c \in CPUs, AllInf(rt_runtime)
  PROVE  AllInf(do_balance_runtime(c))
<1>1. PICK w \in [0 .. N -> Walks] : BalanceTurns(w, c)
  BY BalanceWalk
<1> DEFINE P == {i \in 0 .. N : AllInf(w[i].rt)}
<1>2. 0 \in P
  <2>1. w[0] = [rt |-> rt_runtime, stop |-> FALSE]
    BY <1>1 DEF BalanceTurns
  <2>2. w[0].rt = rt_runtime
    BY <2>1
  <2> QED BY <2>2, Consts
<1>3. ASSUME NEW i \in 1 .. N, i - 1 \in P PROVE i \in P
  <2> DEFINE u == w[i - 1]
             v == w[i]
  <2>1. /\ u \in Walks /\ v = balance_step(u, c, i) /\ AllInf(u.rt) /\ i \in 0 .. N
    BY <1>1, <1>3, Consts DEF BalanceTurns
  <2> HIDE DEF u, v
  <2>2. v = u \/ (i \in CPUs /\ u.rt[i] # RUNTIME_INF)
    BY <2>1, BalanceStep
  <2>3. v = u
    BY <2>1, <2>2 DEF AllInf
  <2> QED BY <2>1, <2>3 DEF v
<1>4. N \in P
  <2>1. P \in SUBSET (0 .. N)
    OBVIOUS
  <2> HIDE DEF P
  <2> QED BY <1>2, <1>3, <2>1, Consts, WalkInduction
<1> QED BY <1>1, <1>4 DEF BalanceTurns

(* Neither does leaving the pool.                                          *)
LEMMA DisableInf ==
  ASSUME TypeOK, NEW c \in CPUs, AllInf(rt_runtime)
  PROVE  AllInf(__disable_runtime(c).rt) /\ __disable_runtime(c).want = 0
<1>1. PICK w \in [0 .. N -> Wants] : ReclaimTurns(w, c)
  BY ReclaimWalk
<1> DEFINE P == {i \in 0 .. N : AllInf(w[i].rt) /\ w[i].want = 0}
<1>2. 0 \in P
  <2>1. w[0] = [rt |-> rt_runtime, want |-> lent(c)]
    BY <1>1 DEF ReclaimTurns
  <2>2. w[0].rt = rt_runtime /\ w[0].want = 0
    BY <2>1 DEF lent, AllInf
  <2> QED BY <2>2, Consts
<1>3. ASSUME NEW i \in 1 .. N, i - 1 \in P PROVE i \in P
  <2> DEFINE u == w[i - 1]
             v == w[i]
  <2>1. /\ u \in Wants /\ v = reclaim_step(u, c, i) /\ AllInf(u.rt) /\ u.want = 0 /\ i \in 0 .. N
    BY <1>1, <1>3, Consts DEF ReclaimTurns
  <2> HIDE DEF u, v
  <2>2. v = u
    BY <2>1 DEF reclaim_step
  <2> QED BY <2>1, <2>2 DEF v
<1>4. N \in P
  <2>1. P \in SUBSET (0 .. N)
    OBVIOUS
  <2> HIDE DEF P
  <2> QED BY <1>2, <1>3, <2>1, Consts, WalkInduction
<1>5. __disable_runtime(c) = [rt |-> [w[N].rt EXCEPT ![c] = RUNTIME_INF], want |-> w[N].want]
  BY <1>1 DEF ReclaimTurns
<1>6. w[N] \in Wants /\ AllInf(w[N].rt) /\ w[N].want = 0
  BY <1>4, Consts
<1>7. w[N].rt \in Shares
  BY <1>6 DEF Wants
<1>8. /\ __disable_runtime(c).rt = [w[N].rt EXCEPT ![c] = RUNTIME_INF]
      /\ __disable_runtime(c).want = 0
  BY <1>5, <1>6
<1> QED BY <1>6, <1>7, <1>8 DEF AllInf, Shares

(* The limit of the group is one the setting allows; without one no CPU    *)
(* has one.                                                                *)
TimeInv ==
  /\ rt_b_runtime \in (0 .. PERIOD) \cup {RUNTIME_INF}
  /\ rt_b_runtime = RUNTIME_INF => AllInf(rt_runtime)

(* The pool of each domain adds up after c has borrowed ...                *)
LEMMA PoolBorrow ==
  ASSUME TypeOK, TimeInv, NEW c \in CPUs,
         rt_b_runtime # RUNTIME_INF => rt_runtime[c] # RUNTIME_INF,
         Pool(rt_runtime, rd, rt_b_runtime)
  PROVE  /\ Pool(do_balance_runtime(c), rd, rt_b_runtime)
         /\ rt_b_runtime # RUNTIME_INF =>
              \A x \in CPUs : rt_runtime[x] # RUNTIME_INF => do_balance_runtime(c)[x] # RUNTIME_INF
<1> DEFINE new == do_balance_runtime(c)
<1>1. CASE rt_b_runtime = RUNTIME_INF
  <2>1. AllInf(new)
    BY <1>1, BorrowInf DEF TimeInv
  <2>2. rt_b_runtime \in Nat
    BY DEF TypeOK
  <2> QED BY <1>1, <2>1, <2>2, PoolInf
<1>2. CASE rt_b_runtime # RUNTIME_INF
  <2> DEFINE S == Enabled(rt_runtime, rd, rd[c])
  <2>1. rt_b_runtime \in 0 .. PERIOD /\ rt_runtime[c] # RUNTIME_INF
    BY <1>2 DEF TimeInv
  <2>2. rd[c] \in {"def", "dom"} /\ Balanced(rt_runtime, S, rt_b_runtime)
    BY DEF Pool, TypeOK
  <2>3. /\ \A x \in CPUs : rd[x] # rd[c] => new[x] = rt_runtime[x]
        /\ Enabled(new, rd, rd[c]) = S
        /\ Balanced(new, S, rt_b_runtime)
    BY <2>1, <2>2, BorrowKeeps
  <2>4. new \in Shares /\ rt_runtime \in Shares
    BY BorrowShares DEF Shares, TypeOK
  <2> HIDE DEF new
  <2>5. ASSUME NEW d \in {"def", "dom"} PROVE Balanced(new, Enabled(new, rd, d), rt_b_runtime)
    <3>1. CASE d = rd[c]
      BY <2>3, <3>1
    <3>2. CASE d # rd[c]
      <4> DEFINE T == Enabled(rt_runtime, rd, d)
      <4>1. T \in SUBSET CPUs /\ (\A x \in T : new[x] = rt_runtime[x]) /\ Enabled(new, rd, d) = T
        BY <2>3, <3>2 DEF Enabled
      <4>2. Balanced(rt_runtime, T, rt_b_runtime)
        BY DEF Pool
      <4> HIDE DEF T
      <4>3. Balanced(new, T, rt_b_runtime)
        BY <2>4, <4>1, <4>2, BalancedSame
      <4> QED BY <4>1, <4>3
    <3> QED BY <3>1, <3>2
  <2>6. \A x \in CPUs : rt_runtime[x] # RUNTIME_INF => new[x] # RUNTIME_INF
    <3> SUFFICES ASSUME NEW x \in CPUs, rt_runtime[x] # RUNTIME_INF PROVE new[x] # RUNTIME_INF
      OBVIOUS
    <3>1. CASE rd[x] = rd[c]
      <4>1. x \in Enabled(new, rd, rd[c])
        BY <2>3, <3>1 DEF Enabled
      <4> QED BY <4>1 DEF Enabled
    <3>2. CASE rd[x] # rd[c]
      BY <2>3, <3>2
    <3> QED BY <3>1, <3>2
  <2> QED BY <2>5, <2>6 DEF Pool, new
<1> QED BY <1>1, <1>2

(* ... and after it has left, and then nothing is left wanting.            *)
LEMMA PoolDisable ==
  ASSUME TypeOK, TimeInv, NEW c \in CPUs, Pool(rt_runtime, rd, rt_b_runtime)
  PROVE  /\ Pool(__disable_runtime(c).rt, rd, rt_b_runtime)
         /\ __disable_runtime(c).want = 0
         /\ rt_b_runtime # RUNTIME_INF =>
              \A x \in CPUs \ {c} : rt_runtime[x] # RUNTIME_INF =>
                                      __disable_runtime(c).rt[x] # RUNTIME_INF
<1> DEFINE new == __disable_runtime(c).rt
<1>1. CASE rt_b_runtime = RUNTIME_INF
  <2>1. AllInf(new) /\ __disable_runtime(c).want = 0
    BY <1>1, DisableInf DEF TimeInv
  <2>2. rt_b_runtime \in Nat
    BY DEF TypeOK
  <2> QED BY <1>1, <2>1, <2>2, PoolInf
<1>2. CASE rt_b_runtime # RUNTIME_INF
  <2> DEFINE S == Enabled(rt_runtime, rd, rd[c])
  <2>1. rt_b_runtime \in 0 .. PERIOD
    BY <1>2 DEF TimeInv
  <2>2. rd[c] \in {"def", "dom"} /\ Balanced(rt_runtime, S, rt_b_runtime)
    BY DEF Pool, TypeOK
  <2>3. /\ \A x \in CPUs : rd[x] # rd[c] => new[x] = rt_runtime[x]
        /\ Enabled(new, rd, rd[c]) = S \ {c}
        /\ Balanced(new, S \ {c}, rt_b_runtime)
        /\ __disable_runtime(c).want = 0
    BY <2>1, <2>2, DisableKeeps
  <2>4. new \in Shares /\ rt_runtime \in Shares
    BY DisableShares DEF Shares, TypeOK
  <2> HIDE DEF new
  <2>5. ASSUME NEW d \in {"def", "dom"} PROVE Balanced(new, Enabled(new, rd, d), rt_b_runtime)
    <3>1. CASE d = rd[c]
      BY <2>3, <3>1
    <3>2. CASE d # rd[c]
      <4> DEFINE T == Enabled(rt_runtime, rd, d)
      <4>1. T \in SUBSET CPUs /\ (\A x \in T : new[x] = rt_runtime[x]) /\ Enabled(new, rd, d) = T
        BY <2>3, <3>2 DEF Enabled
      <4>2. Balanced(rt_runtime, T, rt_b_runtime)
        BY DEF Pool
      <4> HIDE DEF T
      <4>3. Balanced(new, T, rt_b_runtime)
        BY <2>4, <4>1, <4>2, BalancedSame
      <4> QED BY <4>1, <4>3
    <3> QED BY <3>1, <3>2
  <2>6. \A x \in CPUs \ {c} : rt_runtime[x] # RUNTIME_INF => new[x] # RUNTIME_INF
    <3> SUFFICES ASSUME NEW x \in CPUs \ {c}, rt_runtime[x] # RUNTIME_INF
                 PROVE  new[x] # RUNTIME_INF
      OBVIOUS
    <3>1. CASE rd[x] = rd[c]
      <4>1. x \in Enabled(new, rd, rd[c])
        BY <2>3, <3>1 DEF Enabled
      <4> QED BY <4>1 DEF Enabled
    <3>2. CASE rd[x] # rd[c]
      BY <2>3, <3>2
    <3> QED BY <3>1, <3>2
  <2> QED BY <2>3, <2>5, <2>6 DEF Pool, new
<1> QED BY <1>1, <1>2

-----------------------------------------------------------------------------
(* Who borrows takes part.                                                 *)
BorrowInv ==
  ~leaked /\ rt_b_runtime # RUNTIME_INF =>
    \A c \in CPUs : balancing[c] # "no" => rt_runtime[c] # RUNTIME_INF

(* As long as nothing leaked, the run time of each domain adds up.         *)
PoolInv == halted = "no" /\ ~leaked => Pool(rt_runtime, rd, rt_b_runtime)

(* A hotplug step that is still to come.                                   *)
Planned(op, c) == <<op, c>> \in Elems(plan)

(* What a hotplug operation under way still does: a CPU is detached while  *)
(* it is online and attached while it is active, one that is made active   *)
(* is first, and one that dies is last and inactive by then; an active CPU *)
(* is online or will be attached.                                          *)
PlanOf(c) ==
  /\ Planned("active", c) => /\ Head(plan) = <<"active", c>> /\ c \in up
                             /\ Planned("attach", c)
  /\ Planned("attach", c) => /\ c \in active \/ Planned("active", c)
                             /\ ~Planned("inactive", c)
  /\ Planned("detach", c) => c \in online
  /\ Planned("die", c) => /\ plan[Len(plan)] = <<"die", c>> /\ c \in up
                          /\ c \notin active \/ Planned("inactive", c)
                          /\ ~Planned("active", c)
  /\ c \in active => c \in online \/ Planned("attach", c)

(* The plan of the hotplug operation under way is in order for every CPU.  *)
PlanInv == halted = "no" => Distinct(plan) /\ \A c \in CPUs : PlanOf(c)

(* What each CPU may use, and from whom it has it.                         *)
ShareInv == TimeInv /\ BorrowInv /\ PoolInv /\ WantingIsLeak

(* The inductive invariant.                                                *)
BandwidthInv == TypeOK /\ PlanInv /\ ShareInv

(* The invariant the runs check is that the pools add up.                  *)
LEMMA Conserved == RuntimeConserved <=> PoolInv
<1>1. \A d : {i \in span(d) : rt_runtime[i] # RUNTIME_INF} = Enabled(rt_runtime, rd, d)
  BY DEF span, Enabled
<1> QED BY <1>1 DEF RuntimeConserved, PoolInv, Pool, Balanced

(* The initial state satisfies the inductive invariant.                    *)
LEMMA BandwidthStart == Init => BandwidthInv
<1> SUFFICES ASSUME Init PROVE BandwidthInv
  OBVIOUS
<1> USE DEF Init
<1>1. RUNTIME \in Nat /\ RUNTIME \in 0 .. PERIOD /\ RUNTIME # RUNTIME_INF /\ 0 \in 0 .. MaxTime
      /\ 0 \in 0 .. MaxChanges
  BY Consts, PeriodBelow
<1>2. TypeOK
  <2>1. plan \in Seq(Ops \X CPUs)
    OBVIOUS
  <2>2. \A c \in CPUs : rt_nr_boosted[c] <= rt_nr_running[c]
    OBVIOUS
  <2>3. rt_runtime \in [CPUs -> Nat] /\ rt_time \in [CPUs -> 0 .. MaxTime]
    BY <1>1
  <2>4. rt_nr_running \in [CPUs -> Nat] /\ rt_nr_boosted \in [CPUs -> Nat]
    OBVIOUS
  <2> QED BY <1>1, <2>1, <2>2, <2>3, <2>4 DEF TypeOK
<1>3. TimeInv /\ BorrowInv /\ WantingIsLeak
  BY <1>1 DEF TimeInv, BorrowInv, WantingIsLeak
<1>4. PoolInv
  <2>1. rt_runtime \in Shares /\ rt_b_runtime \in Nat /\ \A c \in CPUs : rt_runtime[c] = rt_b_runtime
    BY <1>1 DEF Shares
  <2>2. Pool(rt_runtime, rd, rt_b_runtime)
    BY <2>1, PoolSet
  <2> QED BY <2>2 DEF PoolInv
<1>5. PlanInv
  <2>1. DOMAIN plan = {}
    OBVIOUS
  <2>2. Distinct(plan) /\ Elems(plan) = {}
    BY <2>1 DEF Distinct, Elems
  <2> QED BY <2>2 DEF PlanInv, PlanOf, Planned
<1> QED BY <1>2, <1>3, <1>4, <1>5 DEF BandwidthInv, ShareInv

(* The step of a hotplug operation is on some CPU.                         *)
LEMMA HeadOf ==
  ASSUME TypeOK, plan # <<>>
  PROVE  /\ Head(plan)[1] \in Ops /\ Head(plan)[2] \in CPUs
         /\ Head(plan) = <<Head(plan)[1], Head(plan)[2]>>
         /\ Tail(plan) \in Seq(Ops \X CPUs)
<1>1. Head(plan) \in Ops \X CPUs /\ Tail(plan) \in Seq(Ops \X CPUs)
  BY DEF TypeOK
<1> QED BY <1>1

(* What is planned for the hotplug operations, when they start.            *)
LEMMA RepartitionOf ==
  ASSUME NEW S \in SUBSET CPUs, NEW T \in SUBSET CPUs
  PROVE  /\ Repartition(S, T) \in Seq(Ops \X CPUs) /\ Distinct(Repartition(S, T))
         /\ Elems(Repartition(S, T)) = {<<"detach", c>> : c \in S} \cup {<<"attach", c>> : c \in T}
<1> DEFINE s == Steps("detach", S)
           t == Steps("attach", T)
<1>1. /\ s \in Seq(Ops \X CPUs) /\ Distinct(s) /\ Elems(s) = {<<"detach", c>> : c \in S}
      /\ t \in Seq(Ops \X CPUs) /\ Distinct(t) /\ Elems(t) = {<<"attach", c>> : c \in T}
  <2>1. "detach" \in Ops /\ "attach" \in Ops
    BY DEF Ops
  <2> QED BY <2>1, StepsOf
<1>2. \A e \in Elems(s) : e \notin Elems(t)
  BY <1>1
<1>3. Repartition(S, T) = s \o t
  BY DEF Repartition
<1> HIDE DEF s, t
<1> QED BY <1>1, <1>2, <1>3, Concat

(* One step alone.                                                         *)
LEMMA OneStep ==
  ASSUME NEW op \in Ops, NEW c \in CPUs
  PROVE  /\ <<<<op, c>>>> \in Seq(Ops \X CPUs) /\ Distinct(<<<<op, c>>>>)
         /\ Elems(<<<<op, c>>>>) = {<<op, c>>}
<1> DEFINE s == <<<<op, c>>>>
<1>1. s \in Seq(Ops \X CPUs) /\ DOMAIN s = {1} /\ s[1] = <<op, c>>
  OBVIOUS
<1> HIDE DEF s
<1>2. Distinct(s) /\ Elems(s) = {<<op, c>>}
  BY <1>1 DEF Distinct, Elems
<1> QED BY <1>1, <1>2 DEF s

(* The plan of a CPU that goes down ...                                    *)
DownSteps(pl, S, T, c) ==
  /\ Distinct(pl)
  /\ Elems(pl) = {<<"disable", c>>, <<"inactive", c>>, <<"die", c>>}
                   \cup {<<"detach", x>> : x \in S} \cup {<<"attach", x>> : x \in T}
  /\ pl[Len(pl)] = <<"die", c>>

(* cpu_down: the sequence it carries out is such a plan.                   *)
LEMMA DownPlan ==
  ASSUME NEW S \in SUBSET CPUs, NEW T \in SUBSET CPUs, NEW c \in CPUs,
         NEW pl, pl = <<<<"disable", c>>, <<"inactive", c>>>>
                        \o Repartition(S, T) \o <<<<"die", c>>>>
  PROVE  pl \in Seq(Ops \X CPUs) /\ DownSteps(pl, S, T, c)
<1> DEFINE A == Ops \X CPUs
           a == <<<<"disable", c>>, <<"inactive", c>>>>
           r == Repartition(S, T)
           ar == a \o r
           z == <<<<"die", c>>>>
<1>0. "disable" \in Ops /\ "inactive" \in Ops /\ "die" \in Ops
  BY DEF Ops
<1>1. a \in Seq(A) /\ Distinct(a) /\ Elems(a) = {<<"disable", c>>, <<"inactive", c>>}
  <2>1. /\ a \in Seq(A) /\ DOMAIN a = {1, 2}
        /\ a[1] = <<"disable", c>> /\ a[2] = <<"inactive", c>>
    BY <1>0
  <2>2. <<"disable", c>> # <<"inactive", c>>
    OBVIOUS
  <2> HIDE DEF a
  <2> QED BY <2>1, <2>2 DEF Distinct, Elems
<1>2. /\ r \in Seq(A) /\ Distinct(r)
      /\ Elems(r) = {<<"detach", x>> : x \in S} \cup {<<"attach", x>> : x \in T}
  BY RepartitionOf
<1>3. z \in Seq(A) /\ Distinct(z) /\ Elems(z) = {<<"die", c>>} /\ Len(z) = 1 /\ z[1] = <<"die", c>>
  BY <1>0, OneStep
<1>4. pl = ar \o z
  OBVIOUS
<1> HIDE DEF A, a, r, z
<1>5. \A e \in Elems(a) : e \notin Elems(r)
  BY <1>1, <1>2
<1>6. ar \in Seq(A) /\ Distinct(ar) /\ Elems(ar) = Elems(a) \cup Elems(r)
  BY <1>1, <1>2, <1>5, Concat
<1>7. \A e \in Elems(ar) : e \notin Elems(z)
  BY <1>1, <1>2, <1>3, <1>6
<1> HIDE DEF ar
<1>8. ar \o z \in Seq(A) /\ Distinct(ar \o z) /\ Elems(ar \o z) = Elems(ar) \cup Elems(z)
  BY <1>3, <1>6, <1>7, Concat
<1>9. (ar \o z)[Len(ar \o z)] = z[1]
  <2>0. \A p, q \in Seq(A) : Len(p \o q) = Len(p) + Len(q) /\ Len(p) \in Nat
    OBVIOUS
  <2>1. Len(ar \o z) = Len(ar) + 1 /\ Len(ar) \in Nat
    BY <1>3, <1>6, <2>0
  <2>2. (ar \o z)[Len(ar) + 1] = z[1]
    BY <1>3, <1>6, <2>1
  <2> QED BY <2>1, <2>2
<1>10. Elems(pl) = {<<"disable", c>>, <<"inactive", c>>, <<"die", c>>}
                     \cup {<<"detach", x>> : x \in S} \cup {<<"attach", x>> : x \in T}
  BY <1>1, <1>2, <1>3, <1>4, <1>6, <1>8
<1> QED BY <1>3, <1>4, <1>8, <1>9, <1>10 DEF A, DownSteps

(* ... and of one that comes up.                                           *)
UpSteps(pl, S, T, c) ==
  /\ Distinct(pl)
  /\ Elems(pl) = {<<"active", c>>, <<"enable", c>>}
                   \cup {<<"detach", x>> : x \in S} \cup {<<"attach", x>> : x \in T}
  /\ Head(pl) = <<"active", c>>

(* cpu_up: the sequence it carries out is such a plan.                     *)
LEMMA UpPlan ==
  ASSUME NEW S \in SUBSET CPUs, NEW T \in SUBSET CPUs, NEW c \in CPUs,
         NEW pl, pl = <<<<"active", c>>>> \o Repartition(S, T) \o <<<<"enable", c>>>>
  PROVE  pl \in Seq(Ops \X CPUs) /\ UpSteps(pl, S, T, c)
<1> DEFINE A == Ops \X CPUs
           a == <<<<"active", c>>>>
           r == Repartition(S, T)
           ar == a \o r
           z == <<<<"enable", c>>>>
<1>0. "active" \in Ops /\ "enable" \in Ops
  BY DEF Ops
<1>1. a \in Seq(A) /\ Distinct(a) /\ Elems(a) = {<<"active", c>>} /\ Len(a) = 1 /\ a[1] = <<"active", c>>
  BY <1>0, OneStep
<1>2. /\ r \in Seq(A) /\ Distinct(r)
      /\ Elems(r) = {<<"detach", x>> : x \in S} \cup {<<"attach", x>> : x \in T}
  BY RepartitionOf
<1>3. z \in Seq(A) /\ Distinct(z) /\ Elems(z) = {<<"enable", c>>}
  BY <1>0, OneStep
<1>4. pl = ar \o z
  OBVIOUS
<1> HIDE DEF A, a, r, z
<1>5. \A e \in Elems(a) : e \notin Elems(r)
  BY <1>1, <1>2
<1>6. ar \in Seq(A) /\ Distinct(ar) /\ Elems(ar) = Elems(a) \cup Elems(r)
  BY <1>1, <1>2, <1>5, Concat
<1>7. \A e \in Elems(ar) : e \notin Elems(z)
  BY <1>1, <1>2, <1>3, <1>6
<1>8. ar[1] = a[1] /\ Len(ar) >= 1 /\ Len(ar) \in Nat
  <2>1. a \in Seq(A) /\ r \in Seq(A) /\ Len(a) = 1 /\ Len(r) \in Nat
    BY <1>1, <1>2, LenProperties
  <2>2. Len(ar) = Len(a) + Len(r)
    BY <2>1, ConcatProperties
  <2>3. 1 \in 1 .. Len(a) + Len(r) /\ 1 <= Len(a)
    BY <2>1
  <2>4. ar[1] = a[1]
    BY <2>1, <2>3, ConcatProperties
  <2> QED BY <2>1, <2>2, <2>4
<1> HIDE DEF ar
<1>9. ar \o z \in Seq(A) /\ Distinct(ar \o z) /\ Elems(ar \o z) = Elems(ar) \cup Elems(z)
  BY <1>3, <1>6, <1>7, Concat
<1>10. (ar \o z)[1] = ar[1]
  BY <1>3, <1>6, <1>8
<1>11. Elems(pl) = {<<"active", c>>, <<"enable", c>>}
                     \cup {<<"detach", x>> : x \in S} \cup {<<"attach", x>> : x \in T}
  BY <1>1, <1>2, <1>3, <1>4, <1>6, <1>9
<1>12. Head(pl) = <<"active", c>>
  <2>1. \A q \in Seq(A) : Head(q) = q[1]
    OBVIOUS
  <2> QED BY <1>1, <1>4, <1>8, <1>9, <1>10, <2>1
<1> QED BY <1>4, <1>9, <1>11, <1>12 DEF A, UpSteps

-----------------------------------------------------------------------------
(* The types are kept: by tasks that join and leave the group ...          *)
LEMMA RequeueTypes ==
  ASSUME TypeOK, NEW c \in CPUs, NEW n \in Nat, NEW b \in 0 .. n, Requeue(c, n, b)
  PROVE  /\ rt_nr_running' \in [CPUs -> Nat] /\ rt_nr_boosted' \in [CPUs -> Nat]
         /\ \A x \in CPUs : rt_nr_boosted'[x] <= rt_nr_running'[x]
         /\ queued' \in [CPUs -> BOOLEAN]
<1> DEFINE q == queues(c, n, b)
<1>1. q \in BOOLEAN
  BY Zenon DEF queues
<1> HIDE DEF q
<1>2. /\ rt_nr_running' = [rt_nr_running EXCEPT ![c] = n]
      /\ rt_nr_boosted' = [rt_nr_boosted EXCEPT ![c] = b]
      /\ queued' = [queued EXCEPT ![c] = q]
  BY DEF Requeue, q
<1>3. b \in Nat /\ b <= n
  OBVIOUS
<1>4. rt_nr_running' \in [CPUs -> Nat] /\ rt_nr_boosted' \in [CPUs -> Nat]
  BY <1>2, <1>3 DEF TypeOK
<1>5. queued' \in [CPUs -> BOOLEAN]
  BY <1>1, <1>2 DEF TypeOK
<1>6. ASSUME NEW x \in CPUs PROVE rt_nr_boosted'[x] <= rt_nr_running'[x]
  <2>1. CASE x = c
    BY <1>2, <1>3, <2>1 DEF TypeOK
  <2>2. CASE x # c
    BY <1>2, <2>2 DEF TypeOK
  <2> QED BY <2>1, <2>2
<1> QED BY <1>4, <1>5, <1>6

(* What is left when one of them leaves.                                   *)
LEMMA Leaves ==
  ASSUME TypeOK, NEW c \in CPUs, NEW b \in {0, 1}, dequeue_task_rt(c, b)
  PROVE  rt_nr_running[c] - 1 \in Nat /\ rt_nr_boosted[c] - b \in 0 .. rt_nr_running[c] - 1
<1>1. rt_nr_running[c] \in Nat /\ rt_nr_boosted[c] \in Nat /\ rt_nr_boosted[c] <= rt_nr_running[c]
  BY DEF TypeOK
<1>2. IF b = 1 THEN rt_nr_boosted[c] > 0 ELSE rt_nr_running[c] > rt_nr_boosted[c]
  BY DEF dequeue_task_rt
<1> QED BY <1>1, <1>2

(* ... by what runs on a CPU ...                                           *)
LEMMA LocalTypes ==
  ASSUME TypeOK, NEW c \in CPUs,
         \/ \E b \in {0, 1} : enqueue_task_rt(c, b) \/ dequeue_task_rt(c, b)
         \/ update_curr_rt(c)
         \/ sched_rt_runtime_exceeded(c)
         \/ sched_rt_period_timer(c)
  PROVE  TypeOK'
<1> USE DEF share, state, tasks, callback, domains
<1>1. ASSUME NEW b \in {0, 1}, enqueue_task_rt(c, b) PROVE TypeOK'
  <2> DEFINE n == rt_nr_running[c] + 1
             m == rt_nr_boosted[c] + b
  <2>1. n \in Nat /\ m \in 0 .. n /\ Requeue(c, n, m)
    BY <1>1 DEF enqueue_task_rt, TypeOK
  <2> HIDE DEF n, m
  <2>2. /\ rt_nr_running' \in [CPUs -> Nat] /\ rt_nr_boosted' \in [CPUs -> Nat]
        /\ \A x \in CPUs : rt_nr_boosted'[x] <= rt_nr_running'[x]
        /\ queued' \in [CPUs -> BOOLEAN]
    BY <2>1, RequeueTypes
  <2>3. timer' \in {"off", "armed", "callback"}
    BY <1>1 DEF enqueue_task_rt, start_rt_bandwidth, TypeOK
  <2> QED BY <1>1, <2>2, <2>3 DEF enqueue_task_rt, TypeOK
<1>2. ASSUME NEW b \in {0, 1}, dequeue_task_rt(c, b) PROVE TypeOK'
  <2> DEFINE n == rt_nr_running[c] - 1
             m == rt_nr_boosted[c] - b
  <2>1. n \in Nat /\ m \in 0 .. n /\ Requeue(c, n, m)
    BY <1>2, Leaves DEF dequeue_task_rt
  <2> HIDE DEF n, m
  <2>2. /\ rt_nr_running' \in [CPUs -> Nat] /\ rt_nr_boosted' \in [CPUs -> Nat]
        /\ \A x \in CPUs : rt_nr_boosted'[x] <= rt_nr_running'[x]
        /\ queued' \in [CPUs -> BOOLEAN]
    BY <2>1, RequeueTypes
  <2> QED BY <1>2, <2>2 DEF dequeue_task_rt, TypeOK
<1>3. CASE update_curr_rt(c)
  <2>1. rt_time' \in [CPUs -> 0 .. MaxTime]
    BY <1>3, Consts DEF update_curr_rt, TypeOK
  <2>2. balancing' \in [CPUs -> {"no", "tick", "timer"}]
    BY <1>3 DEF update_curr_rt, TypeOK
  <2> QED BY <1>3, <2>1, <2>2 DEF update_curr_rt, TypeOK
<1>4. CASE sched_rt_runtime_exceeded(c)
  <2> DEFINE over == rt_runtime'[c] # RUNTIME_INF /\ rt_time[c] > rt_runtime'[c]
             throttle == over /\ rt_b_runtime # 0
             t == rt_throttled[c] \/ throttle
             q == queued[c] /\ ~(throttle /\ rt_nr_boosted[c] = 0)
             m == IF over /\ ~throttle THEN 0 ELSE rt_time[c]
  <2>1. rt_runtime' \in [CPUs -> Nat]
    BY <1>4, BorrowShares DEF sched_rt_runtime_exceeded, Shares
  <2>2. t \in BOOLEAN /\ q \in BOOLEAN
    BY Zenon
  <2>3. m \in 0 .. MaxTime
    BY Consts DEF TypeOK
  <2>4. /\ rt_throttled' = [rt_throttled EXCEPT ![c] = t]
        /\ queued' = [queued EXCEPT ![c] = q]
        /\ rt_time' = [rt_time EXCEPT ![c] = m]
    BY <1>4 DEF sched_rt_runtime_exceeded
  <2> HIDE DEF t, q, m
  <2>5. balancing' \in [CPUs -> {"no", "tick", "timer"}]
    BY <1>4 DEF sched_rt_runtime_exceeded, TypeOK
  <2>6. /\ UNCHANGED <<rt_b_runtime, rt_nr_running, rt_nr_boosted, callback, domains,
                       changes, leaked, halted>>
    BY <1>4 DEF sched_rt_runtime_exceeded
  <2>7. /\ rt_throttled' \in [CPUs -> BOOLEAN] /\ queued' \in [CPUs -> BOOLEAN]
        /\ rt_time' \in [CPUs -> 0 .. MaxTime]
    BY <2>2, <2>3, <2>4 DEF TypeOK
  <2> QED BY <2>1, <2>5, <2>6, <2>7 DEF TypeOK
<1>5. CASE sched_rt_period_timer(c)
  <2>1. scan' \subseteq CPUs
    BY <1>5 DEF sched_rt_period_timer, span
  <2> QED BY <1>5, <2>1 DEF sched_rt_period_timer, TypeOK
<1> QED BY <1>1, <1>2, <1>3, <1>4, <1>5

(* What a visit of the timer leaves.                                       *)
LEMMA VisitedTypes ==
  ASSUME TypeOK, NEW i \in CPUs, NEW busy, NEW enqueue, Visited(i, busy, enqueue),
         rt_throttled' \in [CPUs -> BOOLEAN]
  PROVE  /\ scan' \subseteq CPUs /\ idle' \in BOOLEAN /\ throttled' \in BOOLEAN
         /\ queued' \in [CPUs -> BOOLEAN]
<1>1. idle' \in BOOLEAN
  BY Zenon DEF Visited
<1>2. throttled' \in BOOLEAN
  BY Zenon DEF Visited
<1>3. queued' \in [CPUs -> BOOLEAN]
  <2> DEFINE q == queued[i] \/ (enqueue /\ rt_nr_running[i] > 0)
  <2>1. q \in BOOLEAN
    BY Zenon
  <2>2. queued' = [queued EXCEPT ![i] = q]
    BY DEF Visited
  <2> HIDE DEF q
  <2> QED BY <2>1, <2>2 DEF TypeOK
<1> QED BY <1>1, <1>2, <1>3 DEF Visited, TypeOK

(* ... and by the timer ...                                                *)
LEMMA ReplenishTypes ==
  ASSUME TypeOK, NEW i \in CPUs, NEW runtime \in Nat, Replenish(i, runtime)
  PROVE  /\ rt_time' \in [CPUs -> 0 .. MaxTime] /\ rt_throttled' \in [CPUs -> BOOLEAN]
         /\ scan' \subseteq CPUs /\ idle' \in BOOLEAN /\ throttled' \in BOOLEAN
         /\ queued' \in [CPUs -> BOOLEAN]
<1>1. rt_time' \in [CPUs -> 0 .. MaxTime]
  <2> DEFINE m == replenished(i, runtime)
  <2>1. m \in 0 .. MaxTime
    <3>1. rt_time[i] \in 0 .. MaxTime /\ rt_time[i] \in Int
      BY DEF TypeOK
    <3>2. Min({rt_time[i], runtime}) = IF rt_time[i] <= runtime THEN rt_time[i] ELSE runtime
      BY <3>1, MinTwo
    <3> QED BY <3>1, <3>2, Consts DEF replenished
  <2>2. rt_time' = [rt_time EXCEPT ![i] = m]
    BY DEF Replenish
  <2> HIDE DEF m
  <2> QED BY <2>1, <2>2 DEF TypeOK
<1>2. rt_throttled' \in [CPUs -> BOOLEAN]
  <2> DEFINE t == rt_throttled[i] /\ ~(rt_throttled[i] /\ rt_time'[i] < runtime)
  <2>1. t \in BOOLEAN
    BY Zenon
  <2>2. rt_throttled' = [rt_throttled EXCEPT ![i] = t]
    BY DEF Replenish
  <2> HIDE DEF t
  <2> QED BY <2>1, <2>2 DEF TypeOK
<1> DEFINE busy == rt_time'[i] # 0 \/ rt_nr_running[i] > 0
           enqueue == rt_throttled[i] /\ rt_time'[i] < runtime
<1>3. Visited(i, busy, enqueue)
  BY DEF Replenish
<1> HIDE DEF busy, enqueue
<1> QED BY <1>1, <1>2, <1>3, VisitedTypes

(* The steps of the period timer keep the types ...                        *)
LEMMA TimerTypes ==
  ASSUME TypeOK, TimerReturns \/ \E i \in CPUs : Visit(i) \/ VisitBalanced(i)
  PROVE  TypeOK'
<1> USE DEF share, state, tasks, callback, domains
<1>1. CASE TimerReturns
  BY <1>1 DEF TimerReturns, TypeOK
<1>2. ASSUME NEW i \in CPUs, Visit(i) PROVE TypeOK'
  <2>1. ASSUME UNCHANGED <<rt_runtime, state, balancing>>,
               Visited(i, rt_nr_running[i] > 0,
                       rt_nr_running[i] > 0 /\ ~rt_rq_throttled(i))
        PROVE  TypeOK'
    <3>1. rt_throttled' \in [CPUs -> BOOLEAN]
      BY <2>1 DEF TypeOK
    <3> DEFINE e == rt_nr_running[i] > 0 /\ ~rt_rq_throttled(i)
               b == rt_nr_running[i] > 0
    <3>2. Visited(i, b, e)
      BY <2>1
    <3> HIDE DEF e, b
    <3>3. /\ scan' \subseteq CPUs /\ idle' \in BOOLEAN /\ throttled' \in BOOLEAN
          /\ queued' \in [CPUs -> BOOLEAN]
      BY <3>1, <3>2, VisitedTypes
    <3> QED BY <2>1, <3>2, <3>3 DEF Visited, TypeOK
  <2>2. ASSUME Replenish(i, rt_runtime[i]), UNCHANGED <<rt_runtime, balancing>>
        PROVE  TypeOK'
    <3>1. rt_runtime[i] \in Nat
      BY DEF TypeOK
    <3>2. /\ rt_time' \in [CPUs -> 0 .. MaxTime] /\ rt_throttled' \in [CPUs -> BOOLEAN]
          /\ scan' \subseteq CPUs /\ idle' \in BOOLEAN /\ throttled' \in BOOLEAN
          /\ queued' \in [CPUs -> BOOLEAN]
      BY <2>2, <3>1, ReplenishTypes
    <3>3. UNCHANGED <<rt_b_runtime, rt_nr_running, rt_nr_boosted, timer, domains, changes, leaked,
                    halted>>
      BY <2>2 DEF Replenish, Visited
    <3> QED BY <2>2, <3>2, <3>3 DEF TypeOK
  <2>3. ASSUME balancing' = [balancing EXCEPT ![i] = "timer"],
               UNCHANGED <<share, state, tasks, callback, domains, changes, leaked, halted>>
        PROVE  TypeOK'
    BY <2>3 DEF TypeOK
  <2> QED BY <1>2, <2>1, <2>2, <2>3 DEF Visit
<1>3. ASSUME NEW i \in CPUs, VisitBalanced(i) PROVE TypeOK'
  <2>1. rt_runtime' \in [CPUs -> Nat] /\ Replenish(i, rt_runtime'[i])
    BY <1>3, BorrowShares DEF VisitBalanced, Shares
  <2> DEFINE r == rt_runtime'[i]
  <2>2. r \in Nat /\ Replenish(i, r)
    BY <2>1
  <2>3. /\ rt_time' \in [CPUs -> 0 .. MaxTime] /\ rt_throttled' \in [CPUs -> BOOLEAN]
        /\ scan' \subseteq CPUs /\ idle' \in BOOLEAN /\ throttled' \in BOOLEAN
        /\ queued' \in [CPUs -> BOOLEAN]
    <3> HIDE DEF r
    <3> QED BY <2>2, ReplenishTypes
  <2>4. UNCHANGED <<rt_b_runtime, rt_nr_running, rt_nr_boosted, timer, domains, changes, leaked,
                    halted>>
    BY <2>1 DEF Replenish, Visited
  <2>5. balancing' = [balancing EXCEPT ![i] = "no"]
    BY <1>3 DEF VisitBalanced
  <2> QED BY <2>1, <2>3, <2>4, <2>5 DEF TypeOK
<1> QED BY <1>1, <1>2, <1>3

(* What the plan says of its first step.                                   *)
LEMMA PlanHead ==
  ASSUME TypeOK, PlanInv, halted = "no", plan # <<>>,
         NEW op, NEW c, Head(plan) = <<op, c>>
  PROVE  /\ op \in Ops /\ c \in CPUs /\ Planned(op, c)
         /\ op = "die" => c \notin active /\ c \in up /\ Tail(plan) = <<>>
         /\ op = "active" => c \in up
         /\ op = "attach" => c \in active
         /\ op = "detach" => c \in online
         /\ Distinct(Tail(plan)) /\ Elems(Tail(plan)) = Elems(plan) \ {<<op, c>>}
<1>1. op \in Ops /\ c \in CPUs
  <2>1. <<op, c>> \in Ops \X CPUs
    BY DEF TypeOK
  <2> QED BY <2>1
<1>2. Distinct(plan) /\ PlanOf(c)
  BY <1>1 DEF PlanInv
<1>3. /\ Distinct(Tail(plan)) /\ Head(plan) \in Elems(plan)
      /\ Elems(Tail(plan)) = Elems(plan) \ {Head(plan)}
      /\ plan[Len(plan)] = Head(plan) => Tail(plan) = <<>>
  <2> DEFINE A == Ops \X CPUs
  <2>1. plan \in Seq(A)
    BY DEF TypeOK
  <2> HIDE DEF A
  <2> QED BY <1>2, <2>1, TailOf
<1>4. Planned(op, c)
  BY <1>3 DEF Planned
<1>5. op = "die" => c \notin active /\ c \in up /\ Tail(plan) = <<>>
  <2> SUFFICES ASSUME op = "die" PROVE c \notin active /\ c \in up /\ Tail(plan) = <<>>
    OBVIOUS
  <2>1. /\ plan[Len(plan)] = <<"die", c>> /\ c \in up
        /\ c \notin active \/ Planned("inactive", c)
    BY <1>2, <1>4 DEF PlanOf
  <2>2. Tail(plan) = <<>>
    BY <1>3, <2>1
  <2>3. DOMAIN Tail(plan) = {}
    BY <2>2
  <2>4. Elems(Tail(plan)) = {}
    BY <2>3 DEF Elems
  <2>5. ~Planned("inactive", c)
    <3>1. <<"inactive", c>> # <<op, c>>
      OBVIOUS
    <3> QED BY <1>3, <2>4, <3>1 DEF Planned
  <2> QED BY <2>1, <2>2, <2>5
<1>6. op = "active" => c \in up
  BY <1>2, <1>4 DEF PlanOf
<1>7. op = "attach" => c \in active
  BY <1>2, <1>4 DEF PlanOf
<1>8. op = "detach" => c \in online
  BY <1>2, <1>4 DEF PlanOf
<1> QED BY <1>1, <1>3, <1>4, <1>5, <1>6, <1>7, <1>8

(* ... and by settings and hotplug.                                        *)
LEMMA StartTypes ==
  ASSUME TypeOK, \/ \E r \in Runtimes : tg_set_rt_bandwidth(r)
                 \/ \E c \in CPUs : CpuDownPrepare(c) \/ CpuDownFailed(c) \/ CpuUp(c)
  PROVE  TypeOK'
<1> USE DEF share, state, tasks, callback, domains
<1>0. active \in SUBSET CPUs /\ up \in SUBSET CPUs
  BY DEF TypeOK
<1>1. ASSUME NEW r \in Runtimes, tg_set_rt_bandwidth(r) PROVE TypeOK'
  <2>1. r \in Nat
    BY Consts, BandwidthAssumption
  <2>2. changes' \in 0 .. MaxChanges
    BY <1>1, Consts DEF tg_set_rt_bandwidth, TypeOK
  <2> QED BY <1>1, <2>1, <2>2 DEF tg_set_rt_bandwidth, TypeOK
<1>2. ASSUME NEW c \in CPUs, CpuDownPrepare(c) PROVE TypeOK'
  <2>1. plan' \in Seq(Ops \X CPUs)
    <3> DEFINE T == active \ {c}
    <3>1. T \in SUBSET CPUs
      BY <1>0
    <3>2. plan' = <<<<"disable", c>>, <<"inactive", c>>>> \o Repartition(active, T) \o <<<<"die", c>>>>
      BY <1>2 DEF CpuDownPrepare
    <3> HIDE DEF T
    <3> QED BY <1>0, <3>1, <3>2, DownPlan
  <2>2. changes' \in 0 .. MaxChanges
    BY <1>2, Consts DEF CpuDownPrepare, TypeOK
  <2> QED BY <1>2, <2>1, <2>2 DEF CpuDownPrepare, TypeOK
<1>3. ASSUME NEW c \in CPUs, CpuDownFailed(c) \/ CpuUp(c) PROVE TypeOK'
  <2>1. plan' \in Seq(Ops \X CPUs)
    <3> DEFINE T == active \cup {c}
    <3>1. T \in SUBSET CPUs
      BY <1>0
    <3>2. plan' = <<<<"active", c>>>> \o Repartition(active, T) \o <<<<"enable", c>>>>
      BY <1>3 DEF CpuDownFailed, CpuUp
    <3> HIDE DEF T
    <3> QED BY <1>0, <3>1, <3>2, UpPlan
  <2>2. changes' \in 0 .. MaxChanges
    <3>1. changes' = changes \/ (changes < MaxChanges /\ changes' = changes + 1)
      BY <1>3 DEF CpuDownFailed, CpuUp
    <3>2. changes \in 0 .. MaxChanges
      BY DEF TypeOK
    <3> QED BY <3>1, <3>2, Consts
  <2>3. up' \in SUBSET CPUs /\ up \subseteq up'
    BY <1>0, <1>3 DEF CpuDownFailed, CpuUp
  <2> QED BY <1>3, <2>1, <2>2, <2>3 DEF CpuDownFailed, CpuUp, TypeOK
<1> QED BY <1>1, <1>2, <1>3

(* A step of a hotplug operation.                                          *)
LEMMA AttachTypes ==
  ASSUME TypeOK, NEW c \in CPUs, NEW d \in {"def", "dom"}, rq_attach_root(c, d)
  PROVE  /\ rt_runtime' \in [CPUs -> Nat] /\ rt_time' \in [CPUs -> 0 .. MaxTime]
         /\ rt_throttled' \in [CPUs -> BOOLEAN] /\ rd' \in [CPUs -> {"def", "dom"}]
         /\ online' \subseteq up /\ leaked' \in BOOLEAN /\ halted' \in {"no", "BUG"}
<1> DEFINE leaves == IF c \in online THEN __disable_runtime(c)
                     ELSE [rt |-> rt_runtime, want |-> 0]
           enters == c \in active /\ leaves.want = 0
<1>1. leaves.rt \in Shares /\ leaves.want \in Int
  <2>1. CASE c \in online
    BY <2>1, DisableShares
  <2>2. CASE c \notin online
    BY <2>2 DEF Shares, TypeOK
  <2> QED BY <2>1, <2>2
<1>2. /\ rd' = [rd EXCEPT ![c] = d]
      /\ online' = IF enters THEN online \cup {c} ELSE online \ {c}
      /\ rt_runtime' = IF enters THEN [leaves.rt EXCEPT ![c] = rt_b_runtime]
                       ELSE leaves.rt
      /\ rt_time' = [rt_time EXCEPT ![c] = IF enters THEN 0 ELSE @]
      /\ rt_throttled' = [rt_throttled EXCEPT ![c] = @ /\ ~enters]
      /\ leaked' = (leaked \/ (enters /\ leaves.rt[c] \notin {RUNTIME_INF, rt_b_runtime}))
      /\ halted' = IF leaves.want = 0 THEN "no" ELSE "BUG"
  BY DEF rq_attach_root
<1>3. enters => c \in active
  OBVIOUS
<1> HIDE DEF leaves, enters
<1>4. rt_runtime' \in [CPUs -> Nat]
  BY <1>1, <1>2 DEF Shares, TypeOK
<1>5. rt_time' \in [CPUs -> 0 .. MaxTime]
  <2> DEFINE m == IF enters THEN 0 ELSE rt_time[c]
  <2>1. m \in 0 .. MaxTime /\ rt_time' = [rt_time EXCEPT ![c] = m]
    BY <1>2, Consts DEF TypeOK
  <2> HIDE DEF m
  <2> QED BY <2>1 DEF TypeOK
<1>6. rt_throttled' \in [CPUs -> BOOLEAN]
  <2> DEFINE t == rt_throttled[c] /\ ~enters
  <2>1. t \in BOOLEAN
    BY Zenon
  <2>2. rt_throttled' = [rt_throttled EXCEPT ![c] = t]
    BY <1>2
  <2> HIDE DEF t
  <2> QED BY <2>1, <2>2 DEF TypeOK
<1>7. leaked' \in BOOLEAN
  BY <1>2, Zenon
<1>8. online' \subseteq up
  BY <1>2, <1>3 DEF TypeOK
<1> QED BY <1>2, <1>4, <1>5, <1>6, <1>7, <1>8 DEF TypeOK

(* What the last step of a CPU that goes down does to the tasks: those of  *)
(* J have been joined by some of its own.                                  *)
Moved(c, J) ==
  /\ rt_nr_running' \in [CPUs -> Nat] /\ rt_nr_boosted' \in [CPUs -> Nat]
  /\ queued' \in [CPUs -> BOOLEAN]
  /\ ~queued'[c] /\ rt_nr_boosted'[c] = 0
  /\ \A x \in J :
       /\ rt_nr_boosted'[x] <= rt_nr_running'[x]
       /\ queued'[x] <=> queues(x, rt_nr_running'[x], rt_nr_boosted'[x])
  /\ \A x \in CPUs \ (J \cup {c}) :
       /\ rt_nr_running'[x] = rt_nr_running[x] /\ rt_nr_boosted'[x] = rt_nr_boosted[x]
       /\ queued'[x] = queued[x]

LEMMA DieMoves ==
  ASSUME TypeOK, NEW c \in CPUs, Die(c), c \notin active
  PROVE  \E J \in SUBSET (CPUs \ {c}) : Moved(c, J)
<1> DEFINE rest(left) == rt_nr_running[c] - rt_nr_boosted[c] - left
<1>1. PICK left \in stranded(c) :
        \E boost \in Spread(rt_nr_boosted[c]), plain \in Spread(rest(left)) :
          migrate_tasks(c, left, boost, plain)
  BY DEF Die
<1>2. PICK boost \in Spread(rt_nr_boosted[c]), plain \in Spread(rest(left)) :
        migrate_tasks(c, left, boost, plain)
  BY <1>1
<1>3. left \in Nat
  BY DEF stranded, TypeOK
<1>4. rest(left) \in Int
  BY <1>3 DEF TypeOK
<1> HIDE DEF rest
<1>5. \A i \in active : boost[i] \in Nat /\ plain[i] \in Nat
  <2>1. boost \in [active -> 0 .. rt_nr_boosted[c]] /\ plain \in [active -> 0 .. rest(left)]
    BY DEF Spread
  <2>2. rt_nr_boosted[c] \in Nat
    BY DEF TypeOK
  <2> QED BY <1>4, <2>1, <2>2
<1> DEFINE J == {i \in active \ {c} : plain[i] + boost[i] > 0}
<1>6. J \in SUBSET (CPUs \ {c}) /\ \A i \in J : boost[i] \in Nat /\ plain[i] \in Nat
  BY <1>5 DEF TypeOK
<1> DEFINE n == [i \in CPUs |-> IF i = c THEN left
                               ELSE IF i \in J THEN rt_nr_running[i] + plain[i] + boost[i]
                               ELSE rt_nr_running[i]]
           b == [i \in CPUs |-> IF i = c THEN 0
                               ELSE IF i \in J THEN rt_nr_boosted[i] + boost[i]
                               ELSE rt_nr_boosted[i]]
           q == [i \in CPUs |-> IF i = c THEN FALSE
                               ELSE IF i \in J THEN queues(i, n[i], b[i])
                               ELSE queued[i]]
<1>7. rt_nr_running' = n /\ rt_nr_boosted' = b /\ queued' = q
  BY <1>2 DEF migrate_tasks
<1> HIDE DEF J
<1>8. n \in [CPUs -> Nat] /\ b \in [CPUs -> Nat]
  <2> SUFFICES ASSUME NEW x \in CPUs PROVE n[x] \in Nat /\ b[x] \in Nat
    OBVIOUS
  <2>1. rt_nr_running[x] \in Nat /\ rt_nr_boosted[x] \in Nat
    BY DEF TypeOK
  <2>2. CASE x = c
    <3>1. n[x] = left /\ b[x] = 0
      BY <2>2
    <3> QED BY <1>3, <3>1
  <2>3. CASE x # c /\ x \in J
    <3>1. n[x] = rt_nr_running[x] + plain[x] + boost[x] /\ b[x] = rt_nr_boosted[x] + boost[x]
      BY <2>3
    <3>2. plain[x] \in Nat /\ boost[x] \in Nat
      BY <1>6, <2>3
    <3> QED BY <2>1, <3>1, <3>2
  <2>4. CASE x # c /\ x \notin J
    <3>1. n[x] = rt_nr_running[x] /\ b[x] = rt_nr_boosted[x]
      BY <2>4
    <3> QED BY <2>1, <3>1
  <2> QED BY <2>2, <2>3, <2>4
<1>9. /\ b[c] = 0
      /\ \A x \in J : b[x] <= n[x]
      /\ \A x \in CPUs \ (J \cup {c}) : n[x] = rt_nr_running[x] /\ b[x] = rt_nr_boosted[x]
  <2>1. ASSUME NEW x \in J PROVE b[x] <= n[x]
    <3>1. /\ n[x] = rt_nr_running[x] + plain[x] + boost[x]
          /\ b[x] = rt_nr_boosted[x] + boost[x]
      BY <1>6
    <3>2. /\ rt_nr_running[x] \in Nat /\ rt_nr_boosted[x] \in Nat
          /\ rt_nr_boosted[x] <= rt_nr_running[x] /\ plain[x] \in Nat /\ boost[x] \in Nat
      BY <1>6 DEF TypeOK
    <3> QED BY <3>1, <3>2
  <2>2. b[c] = 0
    OBVIOUS
  <2>3. \A x \in CPUs \ (J \cup {c}) : n[x] = rt_nr_running[x] /\ b[x] = rt_nr_boosted[x]
    OBVIOUS
  <2> QED BY <2>1, <2>2, <2>3
<1> HIDE DEF n, b
<1>10. \A i \in CPUs : queues(i, n[i], b[i]) \in BOOLEAN
  BY Zenon DEF queues
<1>11. q \in [CPUs -> BOOLEAN]
  BY <1>10 DEF TypeOK
<1>12. /\ ~q[c]
       /\ \A x \in J : q[x] <=> queues(x, n[x], b[x])
       /\ \A x \in CPUs \ (J \cup {c}) : q[x] = queued[x]
  BY <1>6
<1> HIDE DEF q
<1>13. Moved(c, J)
  BY <1>7, <1>8, <1>9, <1>11, <1>12 DEF Moved
<1> QED BY <1>6, <1>13

(* ... and so does the last step of a CPU that goes down ...               *)
LEMMA DieTypes ==
  ASSUME TypeOK, NEW c \in CPUs, Die(c), c \notin active
  PROVE  /\ rt_runtime' \in [CPUs -> Nat]
         /\ rt_nr_running' \in [CPUs -> Nat] /\ rt_nr_boosted' \in [CPUs -> Nat]
         /\ \A x \in CPUs : rt_nr_boosted'[x] <= rt_nr_running'[x]
         /\ queued' \in [CPUs -> BOOLEAN] /\ timer' \in {"off", "armed", "callback"}
         /\ online' \subseteq up' /\ active \subseteq up' /\ up' \subseteq CPUs
         /\ halted' \in {"no", "BUG", "loop"}
<1>1. rt_runtime' \in [CPUs -> Nat]
  BY DisableShares DEF Die, Shares, TypeOK
<1>2. PICK J \in SUBSET (CPUs \ {c}) : Moved(c, J)
  BY DieMoves
<1>3. /\ rt_nr_running' \in [CPUs -> Nat] /\ rt_nr_boosted' \in [CPUs -> Nat]
      /\ queued' \in [CPUs -> BOOLEAN]
  BY <1>2 DEF Moved
<1>4. ASSUME NEW x \in CPUs PROVE rt_nr_boosted'[x] <= rt_nr_running'[x]
  <2>1. rt_nr_boosted[x] <= rt_nr_running[x]
    BY DEF TypeOK
  <2>2. CASE x = c
    BY <1>2, <1>3, <2>2 DEF Moved
  <2>3. CASE x # c
    BY <1>2, <2>1, <2>3 DEF Moved
  <2> QED BY <2>2, <2>3
<1>5. timer' \in {"off", "armed", "callback"}
  BY DEF Die, migrate_tasks, TypeOK
<1>6. halted' \in {"no", "BUG", "loop"}
  BY DEF Die
<1>7. online' \subseteq up' /\ active \subseteq up' /\ up' \subseteq CPUs
  BY DEF Die, TypeOK
<1> QED BY <1>1, <1>3, <1>4, <1>5, <1>6, <1>7

(* ... and every other step of a hotplug operation.                        *)
LEMMA HotplugTypes ==
  ASSUME TypeOK, PlanInv, HotplugStep
  PROVE  TypeOK'
<1> USE DEF share, state, tasks, callback, domains
<1> DEFINE op == Head(plan)[1]
           c == Head(plan)[2]
<1>1. /\ op \in Ops /\ c \in CPUs /\ Head(plan) = <<op, c>> /\ Tail(plan) \in Seq(Ops \X CPUs)
      /\ halted = "no" /\ plan # <<>>
  BY HeadOf DEF HotplugStep
<1>2. /\ plan' = Tail(plan)
      /\ UNCHANGED <<rt_b_runtime, balancing, scan, idle, throttled, changes>>
      /\ \/ /\ op = "disable"
            /\ Disable(c)
            /\ UNCHANGED <<tasks, timer, rd, online, active, up>>
         \/ /\ op = "enable"
            /\ __enable_runtime(c)
            /\ UNCHANGED <<tasks, timer, rd, online, active, up>>
         \/ /\ op \in {"detach", "attach"}
            /\ rq_attach_root(c, IF op = "attach" THEN "dom" ELSE "def")
            /\ UNCHANGED <<tasks, timer, active, up>>
         \/ /\ op \in {"active", "inactive"}
            /\ active' = IF op = "active" THEN active \cup {c}
                         ELSE active \ {c}
            /\ UNCHANGED <<rt_runtime, state, tasks, timer, rd, online, up,
                           leaked, halted>>
         \/ /\ op = "die"
            /\ Die(c)
            /\ UNCHANGED <<state, rd, active, leaked>>
  BY DEF HotplugStep
<1>3. (op = "die" => c \notin active) /\ (op = "active" => c \in up)
  BY <1>1, PlanHead
<1> HIDE DEF op, c
<1>4. plan' \in Seq(Ops \X CPUs)
  BY <1>1, <1>2
<1>5. ASSUME Disable(c), UNCHANGED <<tasks, timer, rd, online, active, up>> PROVE TypeOK'
  <2>1. rt_runtime' \in [CPUs -> Nat]
    BY <1>1, <1>5, DisableShares DEF Disable, Shares
  <2>2. halted' \in {"no", "BUG", "loop"}
    BY <1>5 DEF Disable
  <2>3. UNCHANGED <<state, leaked>>
    BY <1>5 DEF Disable
  <2> QED BY <1>2, <1>4, <1>5, <2>1, <2>2, <2>3 DEF TypeOK
<1>6. ASSUME __enable_runtime(c), UNCHANGED <<tasks, timer, rd, online, active, up>> PROVE TypeOK'
  <2>1. leaked' \in BOOLEAN
    BY <1>6, Zenon DEF __enable_runtime
  <2>2. rt_time' \in [CPUs -> 0 .. MaxTime]
    <3>1. rt_time' = [rt_time EXCEPT ![c] = 0] /\ rt_time \in [CPUs -> 0 .. MaxTime]
      BY <1>6 DEF __enable_runtime, TypeOK
    <3>2. 0 \in 0 .. MaxTime
      BY Consts
    <3> QED BY <3>1, <3>2
  <2> QED BY <1>1, <1>2, <1>4, <1>6, <2>1, <2>2 DEF TypeOK, __enable_runtime
<1>7. ASSUME rq_attach_root(c, IF op = "attach" THEN "dom" ELSE "def"),
             UNCHANGED <<tasks, timer, active, up>>
      PROVE  TypeOK'
  <2> DEFINE d == IF op = "attach" THEN "dom" ELSE "def"
  <2>1. d \in {"def", "dom"} /\ rq_attach_root(c, d)
    BY <1>7
  <2> HIDE DEF d
  <2>2. /\ rt_runtime' \in [CPUs -> Nat] /\ rt_time' \in [CPUs -> 0 .. MaxTime]
        /\ rt_throttled' \in [CPUs -> BOOLEAN] /\ rd' \in [CPUs -> {"def", "dom"}]
        /\ online' \subseteq up /\ leaked' \in BOOLEAN /\ halted' \in {"no", "BUG"}
    BY <1>1, <2>1, AttachTypes
  <2> QED BY <1>2, <1>4, <1>7, <2>2 DEF TypeOK
<1>8. ASSUME op \in {"active", "inactive"},
             active' = IF op = "active" THEN active \cup {c} ELSE active \ {c},
             UNCHANGED <<rt_runtime, state, tasks, timer, rd, online, up, leaked, halted>>
      PROVE  TypeOK'
  <2>1. active' \subseteq up
    BY <1>3, <1>8 DEF TypeOK
  <2> QED BY <1>2, <1>4, <1>8, <2>1 DEF TypeOK
<1>9. ASSUME op = "die", Die(c), UNCHANGED <<state, rd, active, leaked>> PROVE TypeOK'
  <2>1. /\ rt_runtime' \in [CPUs -> Nat]
        /\ rt_nr_running' \in [CPUs -> Nat] /\ rt_nr_boosted' \in [CPUs -> Nat]
        /\ \A x \in CPUs : rt_nr_boosted'[x] <= rt_nr_running'[x]
        /\ queued' \in [CPUs -> BOOLEAN] /\ timer' \in {"off", "armed", "callback"}
        /\ online' \subseteq up' /\ active \subseteq up' /\ up' \subseteq CPUs
        /\ halted' \in {"no", "BUG", "loop"}
    BY <1>1, <1>3, <1>9, DieTypes
  <2> QED BY <1>2, <1>4, <1>9, <2>1 DEF TypeOK
<1> QED BY <1>2, <1>5, <1>6, <1>7, <1>8, <1>9

-----------------------------------------------------------------------------
(* The plan stays sound: when nothing of it is touched ...                 *)
LEMMA PlanStays ==
  ASSUME PlanInv, UNCHANGED <<plan, up, active, online, halted>>
  PROVE  PlanInv'
BY DEF PlanInv, PlanOf, Planned, Distinct, Elems

(* ... when an operation starts ...                                        *)
LEMMA PlanStarts ==
  ASSUME TypeOK, PlanInv, NEW c \in CPUs,
         CpuDownPrepare(c) \/ CpuDownFailed(c) \/ CpuUp(c)
  PROVE  PlanInv'
<1>0. active \in SUBSET CPUs /\ active \subseteq up /\ halted = "no" /\ halted' = halted
      /\ active' = active /\ online' = online /\ \A x \in CPUs : PlanOf(x)
  BY DEF TypeOK, PlanInv, CpuDownPrepare, CpuDownFailed, CpuUp
<1>1. CASE CpuDownPrepare(c)
  <2> DEFINE T == active \ {c}
  <2>1. plan = <<>> /\ c \in active /\ up' = up /\ T \in SUBSET CPUs
    BY <1>0, <1>1 DEF CpuDownPrepare
  <2>2. plan' = <<<<"disable", c>>, <<"inactive", c>>>> \o Repartition(active, T) \o <<<<"die", c>>>>
    BY <1>1 DEF CpuDownPrepare
  <2>3. \A x : x \in T <=> x \in active /\ x # c
    OBVIOUS
  <2> HIDE DEF T
  <2>4. /\ Distinct(plan')
        /\ Elems(plan') = {<<"disable", c>>, <<"inactive", c>>, <<"die", c>>}
                            \cup {<<"detach", x>> : x \in active} \cup {<<"attach", x>> : x \in T}
        /\ plan'[Len(plan')] = <<"die", c>>
    <3> DEFINE pl == plan'
    <3>1. /\ active \in SUBSET CPUs /\ T \in SUBSET CPUs /\ c \in CPUs
          /\ pl = <<<<"disable", c>>, <<"inactive", c>>>> \o Repartition(active, T) \o <<<<"die", c>>>>
      BY <1>0, <2>1, <2>2
    <3> HIDE DEF pl
    <3>2. DownSteps(pl, active, T, c)
      BY ONLY <3>1, DownPlan, Zenon
    <3> QED BY <3>2 DEF pl, DownSteps
  <2>5. \A x \in CPUs : /\ Planned("active", x)' = FALSE
                        /\ Planned("inactive", x)' <=> x = c
                        /\ Planned("die", x)' <=> x = c
                        /\ Planned("detach", x)' <=> x \in active
                        /\ Planned("attach", x)' <=> x \in active /\ x # c
    BY <2>3, <2>4 DEF Planned
  <2>6. \A x \in active : x \in online
    <3>1. Elems(plan) = {}
      BY <2>1 DEF Elems
    <3>2. \A x \in CPUs : x \in active => x \in online \/ Planned("attach", x)
      BY <1>0 DEF PlanOf
    <3> QED BY <1>0, <3>1, <3>2 DEF Planned
  <2>7. \A x \in CPUs : PlanOf(x)'
    BY <1>0, <2>1, <2>4, <2>5, <2>6 DEF PlanOf
  <2> QED BY <2>4, <2>7 DEF PlanInv
<1>2. CASE CpuDownFailed(c) \/ CpuUp(c)
  <2> DEFINE T == active \cup {c}
  <2>1. T \in SUBSET CPUs /\ up \subseteq up' /\ c \in up'
    <3>1. CASE CpuDownFailed(c)
      <4>1. plan = <<<<"die", c>>>> /\ up' = up
        BY <3>1 DEF CpuDownFailed
      <4>2. Planned("die", c)
        <5>1. Elems(<<<<"die", c>>>>) = {<<"die", c>>}
          BY OneStep DEF Ops
        <5> QED BY <4>1, <5>1 DEF Planned
      <4> QED BY <1>0, <4>1, <4>2 DEF PlanOf
    <3>2. CASE CpuUp(c)
      BY <1>0, <3>2 DEF CpuUp
    <3> QED BY <1>2, <3>1, <3>2
  <2>2. plan' = <<<<"active", c>>>> \o Repartition(active, T) \o <<<<"enable", c>>>>
    BY <1>2 DEF CpuDownFailed, CpuUp
  <2>3. \A x : x \in T <=> x \in active \/ x = c
    OBVIOUS
  <2> HIDE DEF T
  <2>4. /\ Distinct(plan')
        /\ Elems(plan') = {<<"active", c>>, <<"enable", c>>}
                            \cup {<<"detach", x>> : x \in active} \cup {<<"attach", x>> : x \in T}
        /\ Head(plan') = <<"active", c>>
    <3> DEFINE pl == plan'
    <3>1. /\ active \in SUBSET CPUs /\ T \in SUBSET CPUs /\ c \in CPUs
          /\ pl = <<<<"active", c>>>> \o Repartition(active, T) \o <<<<"enable", c>>>>
      BY <1>0, <2>1, <2>2
    <3> HIDE DEF pl
    <3>2. UpSteps(pl, active, T, c)
      BY ONLY <3>1, UpPlan, Zenon
    <3> QED BY <3>2 DEF pl, UpSteps
  <2>5. \A x \in CPUs : /\ Planned("active", x)' <=> x = c
                        /\ Planned("inactive", x)' = FALSE
                        /\ Planned("die", x)' = FALSE
                        /\ Planned("detach", x)' <=> x \in active
                        /\ Planned("attach", x)' <=> x \in active \/ x = c
    BY <2>3, <2>4 DEF Planned
  <2>6. \A x \in active : x \in online
    <3>1. Elems(plan) \subseteq {<<"die", c>>}
      <4>1. CASE CpuDownFailed(c)
        <5>1. Elems(<<<<"die", c>>>>) = {<<"die", c>>}
          BY OneStep DEF Ops
        <5> QED BY <4>1, <5>1 DEF CpuDownFailed
      <4>2. CASE CpuUp(c)
        <5>1. plan = <<>>
          BY <4>2 DEF CpuUp
        <5> QED BY <5>1 DEF Elems
      <4> QED BY <1>2, <4>1, <4>2
    <3>2. \A x \in CPUs : x \in active => x \in online \/ Planned("attach", x)
      BY <1>0 DEF PlanOf
    <3>3. \A x : <<"attach", x>> # <<"die", c>>
      OBVIOUS
    <3> QED BY <1>0, <3>1, <3>2, <3>3 DEF Planned
  <2>7. \A x \in CPUs : PlanOf(x)'
    BY <1>0, <2>1, <2>4, <2>5, <2>6 DEF PlanOf
  <2> QED BY <2>4, <2>7 DEF PlanInv
<1> QED BY <1>1, <1>2

(* ... and when it goes on.                                                *)
LEMMA PlanGoesOn ==
  ASSUME TypeOK, PlanInv, HotplugStep
  PROVE  PlanInv'
<1> DEFINE op == Head(plan)[1]
           c == Head(plan)[2]
<1>1. /\ op \in Ops /\ c \in CPUs /\ Head(plan) = <<op, c>>
      /\ halted = "no" /\ plan # <<>>
  BY HeadOf DEF HotplugStep
<1>2. /\ plan' = Tail(plan)
      /\ \/ /\ op \in {"disable", "enable"}
            /\ UNCHANGED <<online, active, up>>
         \/ /\ op \in {"detach", "attach"}
            /\ rq_attach_root(c, IF op = "attach" THEN "dom" ELSE "def")
            /\ UNCHANGED <<active, up>>
         \/ /\ op \in {"active", "inactive"}
            /\ active' = IF op = "active" THEN active \cup {c}
                         ELSE active \ {c}
            /\ UNCHANGED <<online, up>>
         \/ /\ op = "die"
            /\ up' = up \ {c} /\ online' = online \ {c} /\ active' = active
  BY DEF HotplugStep, Die
<1> HIDE DEF op, c
<1>3. /\ Planned(op, c)
      /\ op = "die" => c \notin active /\ c \in up /\ Tail(plan) = <<>>
      /\ op = "active" => c \in up
      /\ op = "attach" => c \in active
      /\ op = "detach" => c \in online
      /\ Distinct(Tail(plan)) /\ Elems(Tail(plan)) = Elems(plan) \ {<<op, c>>}
  BY <1>1, PlanHead
<1>4. \A o, x : Planned(o, x)' <=> Planned(o, x) /\ ~(o = op /\ x = c)
  BY <1>2, <1>3 DEF Planned
<1>5. plan' # <<>> => plan'[Len(plan')] = plan[Len(plan)]
  <2> DEFINE A == Ops \X CPUs
  <2>1. plan \in Seq(A) /\ Distinct(plan)
    BY <1>1 DEF TypeOK, PlanInv
  <2> HIDE DEF A
  <2>2. Tail(plan) # <<>> => Tail(plan)[Len(Tail(plan))] = plan[Len(plan)]
    BY <1>1, <2>1, TailOf
  <2> QED BY <1>2, <2>2
<1>6. \A o, x : Planned(o, x)' => plan' # <<>>
  <2>1. plan' = <<>> => Elems(plan') = {}
    BY DEF Elems
  <2> QED BY <2>1 DEF Planned
<1>7. \A x \in CPUs : Planned("active", x)' = FALSE
  <2> SUFFICES ASSUME NEW x \in CPUs, Planned("active", x)' PROVE FALSE
    OBVIOUS
  <2>1. Planned("active", x) /\ ~("active" = op /\ x = c)
    BY <1>4
  <2>2. Head(plan) = <<"active", x>>
    BY <1>1, <2>1 DEF PlanInv, PlanOf
  <2> QED BY <1>1, <2>1, <2>2
<1>8. \A x \in CPUs : PlanOf(x)
  BY <1>1 DEF PlanInv
<1>9. ASSUME halted' = "no", NEW x \in CPUs PROVE PlanOf(x)'
  <2> DEFINE act == Planned("active", x)
             att == Planned("attach", x)
             det == Planned("detach", x)
             ina == Planned("inactive", x)
             die == Planned("die", x)
  <2>1. /\ act => op = "active" /\ x = c /\ x \in up /\ att
        /\ att => (x \in active \/ act) /\ ~ina
        /\ det => x \in online
        /\ die => /\ plan[Len(plan)] = <<"die", x>> /\ x \in up
                  /\ x \notin active \/ ina
                  /\ ~act
        /\ x \in active => x \in online \/ att
    BY <1>1, <1>8 DEF PlanOf
  <2>2. /\ act' = FALSE
        /\ att' <=> att /\ ~(op = "attach" /\ x = c)
        /\ det' <=> det /\ ~(op = "detach" /\ x = c)
        /\ ina' <=> ina /\ ~(op = "inactive" /\ x = c)
        /\ die' <=> die /\ ~(op = "die" /\ x = c)
    BY <1>4, <1>7
  <2>3. die' => plan'[Len(plan')] = <<"die", x>>
    BY <1>5, <1>6, <2>1, <2>2
  <2>4. SUFFICES /\ att' => x \in active' /\ ~ina'
                 /\ det' => x \in online'
                 /\ die' => x \in up' /\ (x \notin active' \/ ina')
                 /\ x \in active' => x \in online' \/ att'
    BY <2>2, <2>3 DEF PlanOf
  <2> HIDE DEF act, att, det, ina, die
  <2>5. CASE op \in {"disable", "enable"} /\ UNCHANGED <<online, active, up>>
    BY <2>1, <2>2, <2>5
  <2>6. CASE /\ op \in {"detach", "attach"}
             /\ rq_attach_root(c, IF op = "attach" THEN "dom" ELSE "def")
             /\ UNCHANGED <<active, up>>
    <3>1. online' = IF c \in active THEN online \cup {c} ELSE online \ {c}
      BY <1>9, <2>6 DEF rq_attach_root
    <3> QED BY <1>3, <2>1, <2>2, <2>6, <3>1
  <2>7. CASE /\ op \in {"active", "inactive"}
             /\ active' = IF op = "active" THEN active \cup {c} ELSE active \ {c}
             /\ UNCHANGED <<online, up>>
    <3>1. op = "active" => Planned("active", c)
      BY <1>3
    <3>2. op = "inactive" => Planned("inactive", c)
      BY <1>3
    <3>3. x = c /\ op = "active" => act
      BY <3>1 DEF act
    <3>4. x = c /\ op = "inactive" => ina
      BY <3>2 DEF ina
    <3> QED BY <1>3, <2>1, <2>2, <2>7, <3>3, <3>4
  <2>8. CASE op = "die" /\ up' = up \ {c} /\ online' = online \ {c} /\ active' = active
    <3>1. ~att' /\ ~det' /\ ~die'
      BY <1>2, <1>3, <1>6, <2>8 DEF att, det, die
    <3>2. ~att
      BY <2>2, <2>8, <3>1
    <3> QED BY <1>3, <2>1, <2>8, <3>1, <3>2
  <2> QED BY <1>2, <2>5, <2>6, <2>7, <2>8
<1> QED BY <1>2, <1>3, <1>9 DEF PlanInv

-----------------------------------------------------------------------------
(* The shares stay sound: when none changes ...                            *)
LEMMA SharesStay ==
  ASSUME ShareInv, halted = "no", halted' \in {"no", "loop"},
         UNCHANGED <<share, rd, leaked>>,
         \A x \in CPUs : balancing'[x] # "no" => balancing[x] # "no" \/ rt_runtime[x] # RUNTIME_INF
  PROVE  ShareInv'
BY DEF ShareInv, TimeInv, BorrowInv, PoolInv, WantingIsLeak, share, AllInf, Pool, Enabled, Balanced

(* ... when a CPU borrows ...                                              *)
LEMMA SharesBorrow ==
  ASSUME TypeOK, ShareInv, halted = "no", NEW c \in CPUs, balancing[c] # "no",
         rt_runtime' = do_balance_runtime(c), balancing' = [balancing EXCEPT ![c] = "no"],
         UNCHANGED <<rt_b_runtime, rd, leaked, halted>>
  PROVE  ShareInv'
<1>1. TimeInv'
  <2>1. rt_b_runtime = RUNTIME_INF => AllInf(do_balance_runtime(c))
    BY BorrowInf DEF ShareInv, TimeInv
  <2> QED BY <2>1 DEF ShareInv, TimeInv, AllInf
<1>2. WantingIsLeak'
  BY DEF WantingIsLeak
<1>3. ASSUME ~leaked PROVE BorrowInv' /\ PoolInv'
  <2> DEFINE new == do_balance_runtime(c)
  <2>1. rt_b_runtime # RUNTIME_INF => rt_runtime[c] # RUNTIME_INF
    BY <1>3 DEF ShareInv, BorrowInv
  <2>2. Pool(rt_runtime, rd, rt_b_runtime) /\ TimeInv
    BY <1>3 DEF ShareInv, PoolInv
  <2>3. /\ Pool(new, rd, rt_b_runtime)
        /\ rt_b_runtime # RUNTIME_INF =>
             \A x \in CPUs : rt_runtime[x] # RUNTIME_INF => new[x] # RUNTIME_INF
    BY <2>1, <2>2, PoolBorrow
  <2>4. \A x \in CPUs : balancing'[x] # "no" => balancing[x] # "no"
    BY DEF TypeOK
  <2> HIDE DEF new
  <2>5. rt_runtime' = new
    BY DEF new
  <2>6. BorrowInv'
    BY <1>3, <2>3, <2>4, <2>5 DEF ShareInv, BorrowInv
  <2>7. PoolInv'
    BY <2>3, <2>5 DEF PoolInv, Pool, Enabled, Balanced
  <2> QED BY <2>6, <2>7
<1>4. CASE leaked
  BY <1>1, <1>2, <1>4 DEF ShareInv, BorrowInv, PoolInv
<1> QED BY <1>1, <1>2, <1>3, <1>4 DEF ShareInv

(* ... when the setting changes ...                                        *)
LEMMA SharesSet ==
  ASSUME TypeOK, ShareInv, NEW r \in Runtimes, tg_set_rt_bandwidth(r)
  PROVE  ShareInv'
<1>1. /\ rt_b_runtime' = r /\ rt_runtime' = [x \in CPUs |-> r]
      /\ r \in (0 .. PERIOD) \cup {RUNTIME_INF} /\ halted' = "no"
  BY BandwidthAssumption DEF tg_set_rt_bandwidth
<1>2. r \in Nat /\ rt_runtime' \in Shares /\ \A x \in CPUs : rt_runtime'[x] = r
  BY <1>1, Consts DEF Shares
<1>3. TimeInv' /\ WantingIsLeak'
  BY <1>1 DEF TimeInv, AllInf, WantingIsLeak
<1>4. BorrowInv'
  BY <1>1 DEF BorrowInv
<1>5. PoolInv'
  <2> DEFINE new == rt_runtime'
             dom == rd'
  <2>1. new \in Shares /\ \A x \in CPUs : new[x] = r
    BY <1>2
  <2> HIDE DEF new, dom
  <2>2. Pool(new, dom, r)
    BY <1>2, <2>1, PoolSet
  <2> QED BY <1>1, <2>2 DEF PoolInv, Pool, Enabled, Balanced, new, dom
<1> QED BY <1>3, <1>4, <1>5 DEF ShareInv

(* ... when a CPU leaves the pool ...                                      *)
LEMMA SharesLeave ==
  ASSUME TypeOK, ShareInv, halted = "no", NEW c \in CPUs, balancing[c] = "no",
         rt_runtime' = __disable_runtime(c).rt,
         IF __disable_runtime(c).want = 0 THEN halted' \in {"no", "loop"} ELSE halted' = "BUG",
         UNCHANGED <<rt_b_runtime, rd, leaked, balancing>>
  PROVE  ShareInv'
<1> DEFINE new == __disable_runtime(c).rt
<1>1. TimeInv'
  <2>1. rt_b_runtime = RUNTIME_INF => AllInf(new)
    BY DisableInf DEF ShareInv, TimeInv
  <2> QED BY <2>1 DEF ShareInv, TimeInv, AllInf
<1>2. ASSUME ~leaked PROVE BorrowInv' /\ PoolInv' /\ WantingIsLeak'
  <2>1. Pool(rt_runtime, rd, rt_b_runtime) /\ TimeInv
    BY <1>2 DEF ShareInv, PoolInv
  <2>2. /\ Pool(new, rd, rt_b_runtime) /\ __disable_runtime(c).want = 0
        /\ rt_b_runtime # RUNTIME_INF =>
             \A x \in CPUs \ {c} : rt_runtime[x] # RUNTIME_INF => new[x] # RUNTIME_INF
    BY <2>1, PoolDisable
  <2>3. WantingIsLeak'
    BY <2>2 DEF WantingIsLeak
  <2> HIDE DEF new
  <2>4. rt_runtime' = new
    BY DEF new
  <2>5. BorrowInv'
    BY <1>2, <2>2, <2>4 DEF ShareInv, BorrowInv
  <2>6. PoolInv'
    BY <2>2, <2>4 DEF PoolInv, Pool, Enabled, Balanced
  <2> QED BY <2>3, <2>5, <2>6
<1>3. CASE leaked
  BY <1>1, <1>3 DEF ShareInv, BorrowInv, PoolInv, WantingIsLeak
<1> QED BY <1>1, <1>2, <1>3 DEF ShareInv

(* ... when one joins, here or in another domain, which counts as a leak   *)
(* if it has another share already ...                                     *)
LEMMA SharesEnter ==
  ASSUME TypeOK, ShareInv, halted = "no", halted' = "no", NEW c \in CPUs, balancing[c] = "no",
         NEW d \in {"def", "dom"}, rd' = [rd EXCEPT ![c] = d],
         NEW rt \in Shares, rt_b_runtime = RUNTIME_INF => AllInf(rt),
         ~leaked => Pool(rt, rd, rt_b_runtime),
         ~leaked /\ rt_b_runtime # RUNTIME_INF =>
           \A x \in CPUs \ {c} : rt_runtime[x] # RUNTIME_INF => rt[x] # RUNTIME_INF,
         rt_runtime' = [rt EXCEPT ![c] = rt_b_runtime],
         leaked' = (leaked \/ rt[c] \notin {RUNTIME_INF, rt_b_runtime}),
         UNCHANGED <<rt_b_runtime, balancing>>
  PROVE  ShareInv'
<1> DEFINE new == [rt EXCEPT ![c] = rt_b_runtime]
           e == [rd EXCEPT ![c] = d]
<1>1. rt_b_runtime \in Nat /\ rd \in [CPUs -> {"def", "dom"}]
  BY DEF TypeOK
<1>2. /\ new \in Shares /\ new[c] = rt_b_runtime /\ e \in [CPUs -> {"def", "dom"}]
      /\ \A x \in CPUs \ {c} : new[x] = rt[x] /\ e[x] = rd[x]
  BY <1>1 DEF Shares
<1>3. rt_runtime' = new /\ rd' = e
  OBVIOUS
<1> HIDE DEF new, e
<1>4. TimeInv'
  BY <1>2, <1>3 DEF ShareInv, TimeInv, AllInf
<1>5. WantingIsLeak'
  BY DEF WantingIsLeak
<1>6. ASSUME ~leaked' PROVE BorrowInv' /\ PoolInv'
  <2>1. ~leaked /\ rt[c] \in {RUNTIME_INF, rt_b_runtime}
    BY <1>6
  <2>2. Pool(new, e, rt_b_runtime)
    BY <1>1, <1>2, <2>1, PoolMove
  <2>3. BorrowInv'
    BY <1>2, <1>3, <2>1 DEF ShareInv, BorrowInv
  <2>4. PoolInv'
    <3>1. Pool(rt_runtime', rd', rt_b_runtime')
      BY <1>3, <2>2
    <3> QED BY ONLY <3>1 DEF PoolInv, Pool, Enabled, Balanced
  <2> QED BY <2>3, <2>4
<1>7. CASE leaked'
  BY <1>4, <1>5, <1>7 DEF ShareInv, BorrowInv, PoolInv
<1> QED BY <1>4, <1>5, <1>6, <1>7 DEF ShareInv

(* ... and when a CPU changes its domain.                                  *)
LEMMA SharesAttach ==
  ASSUME TypeOK, ShareInv, halted = "no", NEW c \in CPUs, balancing[c] = "no",
         NEW d \in {"def", "dom"}, rq_attach_root(c, d), c \in online \/ c \in active,
         UNCHANGED <<rt_b_runtime, balancing>>
  PROVE  ShareInv'
<1> DEFINE leaves == IF c \in online THEN __disable_runtime(c)
                     ELSE [rt |-> rt_runtime, want |-> 0]
           rt == leaves.rt
           enters == c \in active /\ leaves.want = 0
<1>1. /\ rd' = [rd EXCEPT ![c] = d]
      /\ rt_runtime' = IF enters THEN [rt EXCEPT ![c] = rt_b_runtime] ELSE rt
      /\ leaked' = (leaked \/ (enters /\ rt[c] \notin {RUNTIME_INF, rt_b_runtime}))
      /\ halted' = IF leaves.want = 0 THEN "no" ELSE "BUG"
  BY DEF rq_attach_root
<1>2. /\ rt \in Shares /\ (rt_b_runtime = RUNTIME_INF => AllInf(rt))
      /\ c \in online => rt[c] = RUNTIME_INF
      /\ ~leaked => leaves.want = 0 /\ Pool(rt, rd, rt_b_runtime)
      /\ ~leaked /\ rt_b_runtime # RUNTIME_INF =>
           \A x \in CPUs \ {c} : rt_runtime[x] # RUNTIME_INF => rt[x] # RUNTIME_INF
      /\ c \notin online => leaves.want = 0
  <2>0. ~leaked => Pool(rt_runtime, rd, rt_b_runtime)
    BY DEF ShareInv, PoolInv
  <2>1. CASE c \in online
    <3>1. leaves = __disable_runtime(c)
      BY <2>1
    <3>2. TimeInv
      BY DEF ShareInv
    <3> HIDE DEF leaves
    <3> QED BY <2>0, <2>1, <3>1, <3>2, DisableShares, DisableInf, PoolDisable DEF TimeInv
  <2>2. CASE c \notin online
    <3>1. leaves.rt = rt_runtime /\ leaves.want = 0
      BY <2>2
    <3>2. rt_runtime \in Shares /\ (rt_b_runtime = RUNTIME_INF => AllInf(rt_runtime))
      BY DEF Shares, TypeOK, ShareInv, TimeInv
    <3> HIDE DEF leaves
    <3> QED BY <2>0, <2>2, <3>1, <3>2
  <2> QED BY <2>1, <2>2
<1>3. CASE enters
  <2>1. leaves.want = 0
    BY <1>3
  <2> HIDE DEF leaves, rt, enters
  <2>2. /\ rt_runtime' = [rt EXCEPT ![c] = rt_b_runtime] /\ halted' = "no"
        /\ leaked' = (leaked \/ rt[c] \notin {RUNTIME_INF, rt_b_runtime})
    BY <1>1, <1>3, <2>1
  <2> QED BY <1>1, <1>2, <2>2, SharesEnter
<1>4. CASE ~enters
  <2>1. c \in online
    BY <1>2, <1>4
  <2>2. rt_runtime' = rt /\ leaked' = leaked /\ rt[c] = RUNTIME_INF
    <3> HIDE DEF leaves, enters
    <3>1. leaked \in BOOLEAN
      BY DEF TypeOK
    <3> QED BY <1>1, <1>2, <1>4, <2>1, <3>1
  <2> DEFINE e == [rd EXCEPT ![c] = d]
  <2>3. /\ rd' = e /\ e \in [CPUs -> {"def", "dom"}] /\ rd \in [CPUs -> {"def", "dom"}]
        /\ \A x \in CPUs \ {c} : e[x] = rd[x]
    BY <1>1 DEF TypeOK
  <2> HIDE DEF leaves, rt, enters, e
  <2>4. TimeInv'
    BY <1>2, <2>2 DEF ShareInv, TimeInv, AllInf
  <2>5. WantingIsLeak'
    BY <1>1, <1>2, <2>2 DEF WantingIsLeak
  <2>6. BorrowInv'
    BY <1>2, <2>2 DEF ShareInv, BorrowInv
  <2>7. PoolInv'
    <3>1. ~leaked => Pool(rt, e, rt_b_runtime)
      BY <1>2, <2>2, <2>3, PoolAway
    <3>2. ~leaked' => Pool(rt_runtime', rd', rt_b_runtime')
      BY <2>2, <2>3, <3>1
    <3> QED BY ONLY <3>2 DEF PoolInv, Pool, Enabled, Balanced
  <2> QED BY <2>4, <2>5, <2>6, <2>7 DEF ShareInv
<1> QED BY <1>3, <1>4

(* A step of a hotplug operation.                                          *)
LEMMA SharesHotplug ==
  ASSUME TypeOK, PlanInv, ShareInv, HotplugStep
  PROVE  ShareInv'
<1> DEFINE op == Head(plan)[1]
           c == Head(plan)[2]
<1>1. /\ op \in Ops /\ c \in CPUs /\ Head(plan) = <<op, c>>
      /\ halted = "no" /\ plan # <<>>
  BY HeadOf DEF HotplugStep
<1>2. /\ UNCHANGED <<rt_b_runtime, balancing>>
      /\ op # "die" => balancing[c] = "no"
      /\ \/ Disable(c) /\ op = "disable" /\ rd' = rd
         \/ __enable_runtime(c) /\ op = "enable" /\ rd' = rd
         \/ /\ op \in {"detach", "attach"}
            /\ rq_attach_root(c, IF op = "attach" THEN "dom" ELSE "def")
         \/ op \in {"active", "inactive"} /\ UNCHANGED <<rt_runtime, rd, leaked, halted>>
         \/ op = "die" /\ Die(c) /\ UNCHANGED <<rd, leaked>>
  BY DEF HotplugStep
<1>3. op \in {"detach", "attach"} => c \in online \/ c \in active
  BY <1>1, PlanHead
<1> HIDE DEF op, c
<1>4. CASE Disable(c) /\ op = "disable" /\ rd' = rd
  <2>1. /\ rt_runtime' = __disable_runtime(c).rt /\ leaked' = leaked /\ balancing[c] = "no"
        /\ halted' = IF __disable_runtime(c).want = 0 THEN "no" ELSE "BUG"
    BY <1>2, <1>4 DEF Disable
  <2> QED BY <1>1, <1>2, <1>4, <2>1, SharesLeave
<1>5. CASE __enable_runtime(c) /\ op = "enable" /\ rd' = rd
  <2>1. /\ rt_runtime' = [rt_runtime EXCEPT ![c] = rt_b_runtime] /\ halted' = "no"
        /\ leaked' = (leaked \/ rt_runtime[c] \notin {RUNTIME_INF, rt_b_runtime})
        /\ balancing[c] = "no"
    BY <1>1, <1>2, <1>5 DEF __enable_runtime
  <2> DEFINE d == rd[c]
  <2>2. d \in {"def", "dom"} /\ rd' = [rd EXCEPT ![c] = d]
    BY <1>1, <1>5 DEF TypeOK
  <2>3. /\ rt_runtime \in Shares /\ (rt_b_runtime = RUNTIME_INF => AllInf(rt_runtime))
        /\ (~leaked => Pool(rt_runtime, rd, rt_b_runtime))
    BY <1>1 DEF Shares, TypeOK, ShareInv, TimeInv, PoolInv
  <2> HIDE DEF d
  <2> QED BY <1>1, <1>2, <2>1, <2>2, <2>3, SharesEnter
<1>6. CASE /\ op \in {"detach", "attach"}
           /\ rq_attach_root(c, IF op = "attach" THEN "dom" ELSE "def")
  <2> DEFINE d == IF op = "attach" THEN "dom" ELSE "def"
  <2>1. d \in {"def", "dom"} /\ rq_attach_root(c, d) /\ balancing[c] = "no"
    BY <1>2, <1>6
  <2> HIDE DEF d
  <2> QED BY <1>1, <1>2, <1>3, <1>6, <2>1, SharesAttach
<1>7. CASE op \in {"active", "inactive"} /\ UNCHANGED <<rt_runtime, rd, leaked, halted>>
  BY <1>1, <1>2, <1>7, SharesStay DEF share
<1>8. CASE op = "die" /\ Die(c) /\ UNCHANGED <<rd, leaked>>
  <2>1. \A x \in CPUs : balancing[x] = "no"
    BY <1>8 DEF Die
  <2>2. CASE c \in online
    <3>1. /\ rt_runtime' = __disable_runtime(c).rt
          /\ IF __disable_runtime(c).want = 0 THEN halted' \in {"no", "loop"} ELSE halted' = "BUG"
      BY <1>8, <2>2 DEF Die
    <3> QED BY <1>1, <1>2, <1>8, <2>1, <3>1, SharesLeave
  <2>3. CASE c \notin online
    <3>1. rt_runtime' = rt_runtime /\ halted' \in {"no", "loop"}
      BY <1>8, <2>3 DEF Die
    <3> QED BY <1>1, <1>2, <1>8, <2>1, <3>1, SharesStay DEF share
  <2> QED BY <2>2, <2>3
<1> QED BY <1>2, <1>4, <1>5, <1>6, <1>7, <1>8

-----------------------------------------------------------------------------
(* Every step keeps the invariant.                                         *)
LEMMA BandwidthStep ==
  ASSUME BandwidthInv, [Next]_vars
  PROVE  BandwidthInv'
<1> USE DEF share, state, tasks, callback, domains
<1>0. TypeOK /\ PlanInv /\ ShareInv
  BY DEF BandwidthInv
<1> DEFINE Calm == \A x \in CPUs : balancing'[x] # "no" =>
                                     balancing[x] # "no" \/ rt_runtime[x] # RUNTIME_INF
           Settled == UNCHANGED <<plan, up, active, online, halted>>
           Shared == UNCHANGED <<share, rd, leaked>>
<1>1. CASE UNCHANGED vars
  <2>1. TypeOK'
    BY <1>0, <1>1 DEF vars, TypeOK
  <2>2. PlanInv'
    BY <1>0, <1>1, PlanStays DEF vars
  <2>3. ShareInv'
    BY <1>0, <1>1 DEF vars, ShareInv, TimeInv, BorrowInv, PoolInv, WantingIsLeak, AllInf, Pool,
                      Enabled, Balanced
  <2> QED BY <2>1, <2>2, <2>3 DEF BandwidthInv
<1>2. ASSUME NEW c \in CPUs,
             \/ \E b \in {0, 1} : enqueue_task_rt(c, b) \/ dequeue_task_rt(c, b)
             \/ update_curr_rt(c)
             \/ sched_rt_runtime_exceeded(c)
             \/ sched_rt_period_timer(c)
      PROVE  BandwidthInv'
  <2>1. TypeOK'
    BY <1>0, <1>2, LocalTypes
  <2>2. Settled
    BY <1>2 DEF enqueue_task_rt, dequeue_task_rt, update_curr_rt, sched_rt_runtime_exceeded,
                sched_rt_period_timer
  <2>3. PlanInv'
    BY <1>0, <2>2, PlanStays
  <2>4. CASE sched_rt_runtime_exceeded(c)
    <3>1. /\ halted = "no" /\ balancing[c] # "no" /\ rt_runtime' = do_balance_runtime(c)
          /\ balancing' = [balancing EXCEPT ![c] = "no"]
          /\ UNCHANGED <<rt_b_runtime, rd, leaked, halted>>
      BY <2>4 DEF sched_rt_runtime_exceeded
    <3>2. ShareInv'
      BY <1>0, <3>1, SharesBorrow
    <3> QED BY <2>1, <2>3, <3>2 DEF BandwidthInv
  <2>5. CASE ~sched_rt_runtime_exceeded(c)
    <3>1. Shared /\ halted = "no" /\ halted' = "no"
      BY <1>2, <2>5 DEF enqueue_task_rt, dequeue_task_rt, update_curr_rt, sched_rt_period_timer,
                        Unlocked
    <3>2. Calm
      <4>1. CASE update_curr_rt(c)
        BY <1>0, <4>1 DEF update_curr_rt, TypeOK
      <4>2. CASE ~update_curr_rt(c)
        BY <1>2, <2>5, <4>2 DEF enqueue_task_rt, dequeue_task_rt, sched_rt_period_timer
      <4> QED BY <4>1, <4>2
    <3>3. ShareInv'
      BY <1>0, <3>1, <3>2, SharesStay
    <3> QED BY <2>1, <2>3, <3>3 DEF BandwidthInv
  <2> QED BY <2>4, <2>5
<1>3. ASSUME TimerReturns \/ \E i \in CPUs : Visit(i) \/ VisitBalanced(i) PROVE BandwidthInv'
  <2>1. TypeOK'
    BY <1>0, <1>3, TimerTypes
  <2>2. Settled
    BY <1>3 DEF TimerReturns, Visit, VisitBalanced, Replenish, Visited
  <2>3. PlanInv'
    BY <1>0, <2>2, PlanStays
  <2>4. ASSUME NEW i \in CPUs, VisitBalanced(i) PROVE ShareInv'
    <3>1. /\ halted = "no" /\ balancing[i] # "no" /\ rt_runtime' = do_balance_runtime(i)
          /\ balancing' = [balancing EXCEPT ![i] = "no"]
          /\ UNCHANGED <<rt_b_runtime, rd, leaked, halted>>
      BY <2>4 DEF VisitBalanced, Replenish, Visited
    <3> QED BY <1>0, <3>1, SharesBorrow
  <2>5. ASSUME NEW i \in CPUs, Visit(i) PROVE ShareInv'
    <3>1. Shared /\ halted = "no" /\ halted' = "no"
      BY <2>5 DEF Visit, Replenish, Visited
    <3>2. Calm
      <4>1. balancing' = balancing \/ (/\ balancing' = [balancing EXCEPT ![i] = "timer"]
                                       /\ rt_time[i] > rt_runtime[i])
        BY <2>5 DEF Visit
      <4>2. rt_time[i] > rt_runtime[i] => rt_runtime[i] # RUNTIME_INF
        BY <1>0, Consts DEF TypeOK
      <4> QED BY <1>0, <4>1, <4>2 DEF TypeOK
    <3> QED BY <1>0, <3>1, <3>2, SharesStay
  <2>6. ASSUME TimerReturns PROVE ShareInv'
    <3>1. Shared /\ halted = "no" /\ halted' = "no" /\ Calm
      BY <2>6 DEF TimerReturns
    <3> QED BY <1>0, <3>1, SharesStay
  <2> QED BY <1>3, <2>1, <2>3, <2>4, <2>5, <2>6 DEF BandwidthInv
<1>4. ASSUME NEW r \in Runtimes, tg_set_rt_bandwidth(r) PROVE BandwidthInv'
  <2>1. TypeOK'
    BY <1>0, <1>4, StartTypes
  <2>2. PlanInv'
    BY <1>0, <1>4, PlanStays DEF tg_set_rt_bandwidth
  <2>3. ShareInv'
    BY <1>0, <1>4, SharesSet
  <2> QED BY <2>1, <2>2, <2>3 DEF BandwidthInv
<1>5. ASSUME NEW c \in CPUs, CpuDownPrepare(c) \/ CpuDownFailed(c) \/ CpuUp(c) PROVE BandwidthInv'
  <2>1. TypeOK'
    BY <1>0, <1>5, StartTypes
  <2>2. PlanInv'
    BY <1>0, <1>5, PlanStarts
  <2>3. Shared /\ halted = "no" /\ halted' = "no" /\ Calm
    BY <1>5 DEF CpuDownPrepare, CpuDownFailed, CpuUp
  <2>4. ShareInv'
    BY <1>0, <2>3, SharesStay
  <2> QED BY <2>1, <2>2, <2>4 DEF BandwidthInv
<1>6. CASE HotplugStep
  <2>1. TypeOK' /\ PlanInv' /\ ShareInv'
    BY <1>0, <1>6, HotplugTypes, PlanGoesOn, SharesHotplug
  <2> QED BY <2>1 DEF BandwidthInv
<1>7. CASE Next
  BY <1>2, <1>3, <1>4, <1>5, <1>6, <1>7 DEF Next
<1> QED BY <1>1, <1>7

(* Real-time runtime is neither lost nor made: through borrowing, changes  *)
(* of the setting and CPU hotplug, what the CPUs of a root domain have     *)
(* adds up to one share for each that takes part, and BUG_ON(want) in      *)
(* __disable_runtime fires only after __enable_runtime has overwritten a   *)
(* share that was partly lent or borrowed.                                 *)
THEOREM RuntimeHolds == Spec => []RuntimeInv
<1>1. BandwidthInv => RuntimeInv
  BY Conserved DEF BandwidthInv, ShareInv, RuntimeInv
<1>2. Spec => []BandwidthInv
  <2>1. BandwidthInv /\ [Next]_vars => BandwidthInv'
    BY BandwidthStep
  <2> QED BY <2>1, BandwidthStart, PTL DEF Spec
<1> QED BY <1>1, <1>2, PTL

-----------------------------------------------------------------------------
(* A group is on its queue as it should be.                                *)
QueuedAs(q, th, n, b) == (q => n > 0 /\ ~(th /\ b = 0)) /\ (b > 0 => q)

QueuedAsIs(c) == QueuedAs(queued[c], rt_throttled[c], rt_nr_running[c], rt_nr_boosted[c])

LEMMA ThrottledOffIs == ThrottledOff <=> \A c \in CPUs : QueuedAsIs(c)
BY DEF ThrottledOff, QueuedAsIs, QueuedAs, rt_rq_throttled

LEMMA ThrottledOffIsNext == ThrottledOff' <=> \A c \in CPUs : QueuedAsIs(c)'
BY DEF ThrottledOff, QueuedAsIs, QueuedAs, rt_rq_throttled

(* It stays so where nothing happens ...                                   *)
LEMMA QueuedStays ==
  ASSUME NEW x \in CPUs, QueuedAsIs(x), queued'[x] = queued[x],
         rt_nr_running'[x] = rt_nr_running[x], rt_nr_boosted'[x] = rt_nr_boosted[x],
         rt_throttled'[x] => rt_throttled[x]
  PROVE  QueuedAsIs(x)'
BY DEF QueuedAsIs, QueuedAs

(* ... where a task joins or leaves: the group is dequeued and queued      *)
(* again by what is in it then ...                                         *)
LEMMA QueuedAgain ==
  ASSUME NEW x \in CPUs, NEW n \in Nat, NEW b \in 0 .. n, queued'[x] <=> queues(x, n, b),
         rt_nr_running'[x] = n, rt_nr_boosted'[x] = b, rt_throttled'[x] = rt_throttled[x]
  PROVE  QueuedAsIs(x)'
<1>1. b > 0 => n > 0
  OBVIOUS
<1> QED BY <1>1 DEF QueuedAsIs, QueuedAs, queues

LEMMA Requeued ==
  ASSUME TypeOK, ThrottledOff, NEW c \in CPUs, NEW n \in Nat, NEW b \in 0 .. n,
         Requeue(c, n, b), rt_throttled' = rt_throttled
  PROVE  ThrottledOff'
<1> SUFFICES ASSUME NEW x \in CPUs PROVE QueuedAsIs(x)'
  BY ThrottledOffIsNext
<1> DEFINE q == queues(c, n, b)
<1>1. /\ rt_nr_running' = [rt_nr_running EXCEPT ![c] = n]
      /\ rt_nr_boosted' = [rt_nr_boosted EXCEPT ![c] = b]
      /\ queued' = [queued EXCEPT ![c] = q]
  BY DEF Requeue
<1> HIDE DEF q
<1>2. CASE x = c
  <2>1. queued'[c] = q /\ rt_nr_running'[c] = n /\ rt_nr_boosted'[c] = b
    BY <1>1 DEF TypeOK
  <2>2. queued'[c] <=> queues(c, n, b)
    BY <2>1 DEF q
  <2> QED BY <1>2, <2>1, <2>2, QueuedAgain
<1>3. CASE x # c
  <2>1. /\ queued'[x] = queued[x] /\ rt_nr_running'[x] = rt_nr_running[x]
        /\ rt_nr_boosted'[x] = rt_nr_boosted[x]
    BY <1>1, <1>3 DEF TypeOK
  <2> QED BY <2>1, ThrottledOffIs, QueuedStays
<1> QED BY <1>2, <1>3

(* ... and where the timer has queued it, once it runs again or for a      *)
(* boosted task.                                                           *)
LEMMA QueuedByTimer ==
  ASSUME TypeOK, ThrottledOff, NEW c \in CPUs, NEW enqueue, NEW unthrottle,
         queued' = [queued EXCEPT ![c] = @ \/ (enqueue /\ rt_nr_running[c] > 0)],
         rt_throttled' = [rt_throttled EXCEPT ![c] = @ /\ ~unthrottle],
         enqueue => ~rt_throttled[c] \/ rt_nr_boosted[c] > 0 \/ unthrottle,
         rt_nr_running' = rt_nr_running, rt_nr_boosted' = rt_nr_boosted
  PROVE  ThrottledOff'
<1> SUFFICES ASSUME NEW x \in CPUs PROVE QueuedAsIs(x)'
  BY ThrottledOffIsNext
<1>0. QueuedAsIs(x) /\ QueuedAsIs(c)
  BY ThrottledOffIs
<1>1. CASE x = c
  <2> DEFINE q == queued[c] \/ (enqueue /\ rt_nr_running[c] > 0)
             t == rt_throttled[c] /\ ~unthrottle
  <2>1. queued' = [queued EXCEPT ![c] = q] /\ rt_throttled' = [rt_throttled EXCEPT ![c] = t]
    OBVIOUS
  <2> HIDE DEF q, t
  <2>2. queued'[x] = q /\ rt_throttled'[x] = t
    BY <1>1, <2>1 DEF TypeOK
  <2>3. /\ queued'[x] <=> queued[x] \/ (enqueue /\ rt_nr_running[x] > 0)
        /\ rt_throttled'[x] <=> rt_throttled[x] /\ ~unthrottle
    BY <1>1, <2>2 DEF q, t
  <2>4. rt_nr_boosted[x] \in Nat
    BY DEF TypeOK
  <2>5. rt_nr_boosted[x] > 0 => rt_nr_boosted[x] # 0
    BY <2>4
  <2>6. /\ queued[x] => rt_nr_running[x] > 0 /\ ~(rt_throttled[x] /\ rt_nr_boosted[x] = 0)
        /\ rt_nr_boosted[x] > 0 => queued[x]
    BY <1>0 DEF QueuedAsIs, QueuedAs
  <2> QED BY <1>1, <2>3, <2>5, <2>6 DEF QueuedAsIs, QueuedAs
<1>2. CASE x # c
  <2>1. queued'[x] = queued[x] /\ rt_throttled'[x] = rt_throttled[x]
    BY <1>2 DEF TypeOK
  <2> QED BY <1>0, <2>1, QueuedStays
<1> QED BY <1>1, <1>2

(* A throttled group is on its queue exactly as long as it has a boosted   *)
(* task: through the tasks that join and leave it, the tick that           *)
(* throttles it, the timer ...                                             *)
LEMMA ThrottledLocal ==
  ASSUME TypeOK, ThrottledOff, NEW c \in CPUs,
         \/ \E b \in {0, 1} : enqueue_task_rt(c, b) \/ dequeue_task_rt(c, b)
         \/ sched_rt_runtime_exceeded(c)
         \/ Visit(c)
         \/ VisitBalanced(c)
  PROVE  ThrottledOff'
<1> USE DEF state, tasks
<1>1. ASSUME NEW b \in {0, 1}, enqueue_task_rt(c, b) PROVE ThrottledOff'
  <2> DEFINE n == rt_nr_running[c] + 1
             m == rt_nr_boosted[c] + b
  <2>1. n \in Nat /\ m \in 0 .. n /\ Requeue(c, n, m) /\ rt_throttled' = rt_throttled
    BY <1>1 DEF enqueue_task_rt, TypeOK
  <2> HIDE DEF n, m
  <2> QED BY <2>1, Requeued
<1>2. ASSUME NEW b \in {0, 1}, dequeue_task_rt(c, b) PROVE ThrottledOff'
  <2> DEFINE n == rt_nr_running[c] - 1
             m == rt_nr_boosted[c] - b
  <2>1. n \in Nat /\ m \in 0 .. n /\ Requeue(c, n, m) /\ rt_throttled' = rt_throttled
    BY <1>2, Leaves DEF dequeue_task_rt
  <2> HIDE DEF n, m
  <2> QED BY <2>1, Requeued
<1>3. CASE sched_rt_runtime_exceeded(c)
  <2> SUFFICES ASSUME NEW x \in CPUs PROVE QueuedAsIs(x)'
    BY ThrottledOffIsNext
  <2>0. QueuedAsIs(x)
    BY ThrottledOffIs
  <2> DEFINE throttle == /\ rt_runtime'[c] # RUNTIME_INF /\ rt_time[c] > rt_runtime'[c]
                         /\ rt_b_runtime # 0
             q == queued[c] /\ ~(throttle /\ rt_nr_boosted[c] = 0)
             t == rt_throttled[c] \/ throttle
  <2>1. /\ rt_nr_running' = rt_nr_running /\ rt_nr_boosted' = rt_nr_boosted
        /\ queued' = [queued EXCEPT ![c] = q]
        /\ rt_throttled' = [rt_throttled EXCEPT ![c] = t]
    BY <1>3 DEF sched_rt_runtime_exceeded
  <2> HIDE DEF throttle, q, t
  <2>2. CASE x = c
    <3>1. queued'[x] = q /\ rt_throttled'[x] = t
      BY <2>1, <2>2 DEF TypeOK
    <3>2. /\ queued'[x] <=> queued[x] /\ ~(throttle /\ rt_nr_boosted[x] = 0)
          /\ rt_throttled'[x] <=> rt_throttled[x] \/ throttle
      BY <2>2, <3>1 DEF q, t
    <3>3. rt_nr_boosted[x] > 0 => rt_nr_boosted[x] # 0
      BY DEF TypeOK
    <3> QED BY <2>0, <2>1, <3>2, <3>3 DEF QueuedAsIs, QueuedAs
  <2>3. CASE x # c
    <3>1. queued'[x] = queued[x] /\ rt_throttled'[x] = rt_throttled[x]
      BY <2>1, <2>3 DEF TypeOK
    <3> QED BY <2>0, <2>1, <3>1, QueuedStays
  <2> QED BY <2>2, <2>3
<1>4. ASSUME NEW runtime, Replenish(c, runtime) PROVE ThrottledOff'
  <2> DEFINE unthrottle == rt_throttled[c] /\ rt_time'[c] < runtime
  <2>1. /\ queued' = [queued EXCEPT ![c] = @ \/ (unthrottle /\ rt_nr_running[c] > 0)]
        /\ rt_throttled' = [rt_throttled EXCEPT ![c] = @ /\ ~unthrottle]
        /\ rt_nr_running' = rt_nr_running /\ rt_nr_boosted' = rt_nr_boosted
    BY <1>4 DEF Replenish, Visited
  <2> HIDE DEF unthrottle
  <2> QED BY <2>1, QueuedByTimer
<1>5. CASE Visit(c)
  <2>1. ASSUME rt_throttled' = rt_throttled,
               Visited(c, rt_nr_running[c] > 0, rt_nr_running[c] > 0 /\ ~rt_rq_throttled(c))
        PROVE  ThrottledOff'
    <3> DEFINE enqueue == rt_nr_running[c] > 0 /\ ~rt_rq_throttled(c)
    <3>1. /\ queued' = [queued EXCEPT ![c] = @ \/ (enqueue /\ rt_nr_running[c] > 0)]
          /\ rt_nr_running' = rt_nr_running /\ rt_nr_boosted' = rt_nr_boosted
      BY <2>1 DEF Visited
    <3>2. enqueue => ~rt_throttled[c] \/ rt_nr_boosted[c] > 0
      BY DEF rt_rq_throttled, TypeOK
    <3> HIDE DEF enqueue
    <3>3. rt_throttled' = [rt_throttled EXCEPT ![c] = @ /\ ~FALSE]
      BY <2>1 DEF TypeOK
    <3> QED BY <3>1, <3>2, <3>3, QueuedByTimer
  <2>2. ASSUME UNCHANGED <<state, tasks>> PROVE ThrottledOff'
    BY <2>2 DEF ThrottledOff, rt_rq_throttled
  <2> QED BY <1>4, <1>5, <2>1, <2>2 DEF Visit
<1>6. CASE VisitBalanced(c)
  BY <1>4, <1>6 DEF VisitBalanced
<1> QED BY <1>1, <1>2, <1>3, <1>5, <1>6

(* ... and the CPUs that go and come.                                      *)
LEMMA ThrottledHotplug ==
  ASSUME TypeOK, PlanInv, ThrottledOff, HotplugStep
  PROVE  ThrottledOff'
<1> USE DEF state, tasks
<1> SUFFICES ASSUME NEW x \in CPUs PROVE QueuedAsIs(x)'
  BY ThrottledOffIsNext
<1>0. QueuedAsIs(x) /\ rt_throttled \in [CPUs -> BOOLEAN]
  BY ThrottledOffIs DEF TypeOK
<1> DEFINE op == Head(plan)[1]
           c == Head(plan)[2]
<1>1. /\ op \in Ops /\ c \in CPUs /\ Head(plan) = <<op, c>>
      /\ halted = "no" /\ plan # <<>>
  BY HeadOf DEF HotplugStep
<1>2. \/ Disable(c) /\ UNCHANGED tasks
      \/ __enable_runtime(c) /\ UNCHANGED tasks
      \/ rq_attach_root(c, IF op = "attach" THEN "dom" ELSE "def") /\ UNCHANGED tasks
      \/ UNCHANGED <<state, tasks>>
      \/ op = "die" /\ Die(c) /\ UNCHANGED state
  BY DEF HotplugStep
<1>3. op = "die" => c \notin active
  BY <1>1, PlanHead
<1> HIDE DEF op, c
<1>4. ASSUME NEW keep, rt_throttled' = [rt_throttled EXCEPT ![c] = @ /\ keep], UNCHANGED tasks
      PROVE  QueuedAsIs(x)'
  <2> DEFINE t == rt_throttled[c] /\ keep
  <2>1. rt_throttled' = [rt_throttled EXCEPT ![c] = t] /\ (t => rt_throttled[c])
    BY <1>4
  <2> HIDE DEF t
  <2>2. rt_throttled'[x] => rt_throttled[x]
    <3>1. CASE x = c
      BY <1>0, <2>1, <3>1
    <3>2. CASE x # c
      BY <1>0, <2>1, <3>2
    <3> QED BY <3>1, <3>2
  <2> QED BY <1>0, <1>4, <2>2, QueuedStays
<1>5. CASE Disable(c) /\ UNCHANGED tasks
  <2>1. rt_throttled' = rt_throttled
    BY <1>5 DEF Disable
  <2> QED BY <1>0, <1>5, <2>1, QueuedStays
<1>6. CASE __enable_runtime(c) /\ UNCHANGED tasks
  <2>1. rt_throttled' = [rt_throttled EXCEPT ![c] = FALSE]
    BY <1>6 DEF __enable_runtime
  <2>2. rt_throttled'[x] => rt_throttled[x]
    BY <1>0, <1>1, <2>1
  <2> QED BY <1>0, <1>6, <2>2, QueuedStays
<1>7. CASE rq_attach_root(c, IF op = "attach" THEN "dom" ELSE "def") /\ UNCHANGED tasks
  <2> DEFINE leaves == IF c \in online THEN __disable_runtime(c)
                       ELSE [rt |-> rt_runtime, want |-> 0]
             keep == ~(c \in active /\ leaves.want = 0)
  <2>1. rt_throttled' = [rt_throttled EXCEPT ![c] = @ /\ keep]
    BY <1>7 DEF rq_attach_root
  <2> HIDE DEF keep
  <2> QED BY <1>4, <1>7, <2>1
<1>8. CASE UNCHANGED <<state, tasks>>
  BY <1>0, <1>8, QueuedStays
<1>9. CASE op = "die" /\ Die(c) /\ UNCHANGED state
  <2>1. PICK J \in SUBSET (CPUs \ {c}) : Moved(c, J)
    BY <1>1, <1>3, <1>9, DieMoves
  <2>2. rt_throttled'[x] = rt_throttled[x]
    BY <1>9
  <2>3. CASE x \in J
    <3> DEFINE n == rt_nr_running'[x]
               b == rt_nr_boosted'[x]
    <3>1. n \in Nat /\ b \in 0 .. n /\ (queued'[x] <=> queues(x, n, b))
      BY <2>1, <2>3 DEF Moved
    <3>2. rt_nr_running'[x] = n /\ rt_nr_boosted'[x] = b
      OBVIOUS
    <3> HIDE DEF n, b
    <3> QED BY <2>2, <3>1, <3>2, QueuedAgain
  <2>4. CASE x = c
    BY <1>1, <2>1, <2>4 DEF Moved, QueuedAsIs, QueuedAs
  <2>5. CASE x \notin J \cup {c}
    <3>1. /\ rt_nr_running'[x] = rt_nr_running[x] /\ rt_nr_boosted'[x] = rt_nr_boosted[x]
          /\ queued'[x] = queued[x]
      BY <2>1, <2>5 DEF Moved
    <3> QED BY <1>0, <2>2, <3>1, QueuedStays
  <2> QED BY <2>3, <2>4, <2>5
<1> QED BY <1>2, <1>5, <1>6, <1>7, <1>8, <1>9

(* A group that has used up its runtime is on its queue exactly as long as *)
(* one of its tasks is boosted, whatever tasks join and leave it in        *)
(* whatever order, and whatever ticks, the timer and hotplug do to it.     *)
THEOREM ThrottledHolds == Spec => []ThrottledOff
<1>1. Init => ThrottledOff
  BY DEF Init, ThrottledOff
<1>2. ASSUME BandwidthInv, ThrottledOff, [Next]_vars PROVE ThrottledOff'
  <2>0. TypeOK /\ PlanInv
    BY <1>2 DEF BandwidthInv
  <2>1. ASSUME UNCHANGED <<rt_nr_running, rt_nr_boosted, queued, rt_throttled>> PROVE ThrottledOff'
    BY <1>2, <2>1 DEF ThrottledOff, rt_rq_throttled
  <2>2. ASSUME NEW c \in CPUs,
               \/ update_curr_rt(c) \/ sched_rt_period_timer(c) \/ CpuDownPrepare(c)
               \/ CpuDownFailed(c) \/ CpuUp(c)
        PROVE  ThrottledOff'
    BY <2>1, <2>2 DEF update_curr_rt, sched_rt_period_timer, CpuDownPrepare, CpuDownFailed, CpuUp,
                      tasks, state
  <2>3. CASE TimerReturns \/ UNCHANGED vars \/ \E r \in Runtimes : tg_set_rt_bandwidth(r)
    BY <2>1, <2>3 DEF TimerReturns, tg_set_rt_bandwidth, vars, tasks, state
  <2> QED BY <1>2, <2>0, <2>2, <2>3, ThrottledLocal, ThrottledHotplug DEF Next
<1>3. Spec => []BandwidthInv
  <2>1. BandwidthInv /\ [Next]_vars => BandwidthInv'
    BY BandwidthStep
  <2> QED BY <2>1, BandwidthStart, PTL DEF Spec
<1>4. BandwidthInv /\ ThrottledOff /\ [Next]_vars => ThrottledOff'
  BY <1>2
<1> QED BY <1>1, <1>3, <1>4, PTL DEF Spec

=============================================================================
