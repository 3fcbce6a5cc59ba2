---------------------------- MODULE LoadAvgProofs ----------------------------
(***************************************************************************)
(* No delta of the load average is lost or folded twice, a sample counts   *)
(* in one average only, and an average moves towards the load, never past  *)
(* it: for any number of CPUs, any periods, factors and precision.         *)
(***************************************************************************)
EXTENDS LoadAvg, DataProofs

(* Fixed point arithmetic: multiplication is monotone ...                  *)
LEMMA TimesMono ==
  \A x, y, z \in Nat : x <= y => x * z <= y * z
OBVIOUS

(* ... and division rounds down.                                           *)
LEMMA DivBounds ==
  ASSUME NEW y \in Nat, NEW d \in Nat \ {0}
  PROVE  y \div d \in Nat /\ (y \div d) * d <= y /\ y < (y \div d) * d + d
OBVIOUS

(* Bounds of a quotient from bounds of the dividend.                       *)
LEMMA DivBetween ==
  ASSUME NEW y \in Nat, NEW d \in Nat \ {0}, NEW m \in Nat, NEW n \in Nat
  PROVE  /\ m * d <= y => m <= y \div d
         /\ y < n * d + d => y \div d <= n
OBVIOUS

(* An average lies between the old average and the load: calc_load rounds  *)
(* to the nearest, and a weighted mean of whole numbers is rounded to no   *)
(* number past either.                                                     *)
LEMMA Average ==
  ASSUME NEW l \in Nat, NEW a \in Nat, NEW e \in 0 .. FIXED_1
  PROVE  /\ calc_load(l, e, a) \in Nat
         /\ \A m \in Nat : m <= l /\ m <= a => m <= calc_load(l, e, a)
         /\ \A m \in Nat : l <= m /\ a <= m => calc_load(l, e, a) <= m
<1>1. FIXED_1 \in Nat \ {0}
  BY LoadAssumption
<1> DEFINE F == FIXED_1
           g == F - e
           h == F \div 2
           x == l * e + a * g
<1>2. g \in Nat /\ e \in Nat /\ e + g = F /\ F \in Nat \ {0}
  BY <1>1
<1>3. h \in Nat /\ h < F
  BY <1>2
<1>4. calc_load(l, e, a) = (x + h) \div F
  BY DEF calc_load
<1> HIDE DEF F, g, h
<1>5. l * e \in Nat /\ a * g \in Nat
  BY <1>2
<1>6. ASSUME NEW m \in Nat PROVE m * F = m * e + m * g /\ m * e \in Nat /\ m * g \in Nat
  BY <1>2
<1>7. ASSUME NEW m \in Nat, m <= l, m <= a PROVE m <= (x + h) \div F
  <2>1. m * e <= l * e /\ m * g <= a * g
    BY <1>2, <1>7, TimesMono
  <2>2. m * F <= x + h
    BY <1>2, <1>3, <1>5, <1>6, <2>1
  <2> QED BY <1>2, <1>3, <1>5, <2>2, DivBetween
<1>8. ASSUME NEW m \in Nat, l <= m, a <= m PROVE (x + h) \div F <= m
  <2>1. l * e <= m * e /\ a * g <= m * g
    BY <1>2, <1>8, TimesMono
  <2>2. x + h < m * F + F
    BY <1>2, <1>3, <1>5, <1>6, <2>1
  <2> QED BY <1>2, <1>3, <1>5, <2>2, DivBetween
<1>9. (x + h) \div F \in Nat
  BY <1>2, <1>3, <1>5, DivBounds
<1> QED BY <1>4, <1>7, <1>8, <1>9

(* Products of factors are factors.                                        *)
LEMMA MulFactor ==
  ASSUME NEW x \in 0 .. FIXED_1, NEW y \in 0 .. FIXED_1
  PROVE  fixed_mul(x, y) \in 0 .. FIXED_1
<1>1. FIXED_1 \in Nat \ {0}
  BY LoadAssumption
<1> DEFINE F == FIXED_1
           h == F \div 2
<1>2. /\ F \in Nat \ {0} /\ x \in Nat /\ y \in Nat /\ x <= F /\ y <= F
      /\ h \in Nat /\ h < F
  BY <1>1
<1>3. fixed_mul(x, y) = (x * y + h) \div F
  BY DEF fixed_mul
<1> HIDE DEF F, h
<1>4. x * y \in Nat /\ x * y <= F * y /\ y * F <= F * F /\ F * y = y * F
  BY <1>2, TimesMono
<1>5. x * y + h \in Nat /\ x * y + h < F * F + F
  BY <1>2, <1>4
<1>6. (x * y + h) \div F \in Nat /\ (x * y + h) \div F <= F
  BY <1>2, <1>5, DivBetween, DivBounds
<1> QED BY <1>3, <1>6 DEF F

(* The loop of fixed_power_int: the states it goes through, the result so  *)
(* far, the next state, and what it returns, given what g returns there.   *)
Factors == 0 .. FIXED_1

LoopStates(n) == (0 .. n) \X Factors \X Factors

LoopResult(s) == IF s[1] % 2 = 1 THEN fixed_mul(s[3], s[2]) ELSE s[3]

LoopNext(s) == <<s[1] \div 2, fixed_mul(s[2], s[2]), LoopResult(s)>>

LoopStep(g, s) == IF s[1] <= 1 THEN LoopResult(s) ELSE g[LoopNext(s)]

(* The loop terminates, because halving gives a smaller number, and its    *)
(* operands stay factors.                                                  *)
LEMMA LoopBody ==
  ASSUME NEW n \in Nat, NEW s \in LoopStates(n)
  PROVE  /\ LoopResult(s) \in Factors
         /\ s[1] \in Nat
         /\ s[1] > 1 => LoopNext(s) \in LoopStates(n) /\ LoopNext(s)[1] < s[1]
<1>1. s[1] \in 0 .. n /\ s[2] \in Factors /\ s[3] \in Factors
  BY DEF LoopStates
<1>2. fixed_mul(s[3], s[2]) \in Factors /\ fixed_mul(s[2], s[2]) \in Factors
  BY <1>1, MulFactor DEF Factors
<1>3. LoopResult(s) \in Factors
  BY <1>1, <1>2 DEF LoopResult
<1>4. s[1] > 1 => s[1] \div 2 \in 0 .. n /\ s[1] \div 2 < s[1]
  BY <1>1
<1> QED BY <1>1, <1>2, <1>3, <1>4 DEF LoopNext, LoopStates

(* Whatever solves the recursion returns a factor ...                      *)
LEMMA LoopFactor ==
  ASSUME NEW n \in Nat, NEW f, \A s \in LoopStates(n) : f[s] = LoopStep(f, s)
  PROVE  \A s \in LoopStates(n) : f[s] \in Factors
<1> DEFINE T == {k \in Nat : \A s \in LoopStates(n) : s[1] <= k => f[s] \in Factors}
<1>1. 0 \in T
  <2> SUFFICES ASSUME NEW s \in LoopStates(n), s[1] <= 0 PROVE f[s] \in Factors
    OBVIOUS
  <2> QED BY LoopBody DEF LoopStep
<1>2. ASSUME NEW k \in T PROVE k + 1 \in T
  <2> SUFFICES ASSUME NEW s \in LoopStates(n), s[1] <= k + 1 PROVE f[s] \in Factors
    OBVIOUS
  <2>1. CASE s[1] <= 1
    BY <2>1, LoopBody DEF LoopStep
  <2>2. CASE s[1] > 1
    <3> DEFINE t == LoopNext(s)
    <3>1. t \in LoopStates(n) /\ t[1] \in Nat /\ t[1] < s[1] /\ s[1] \in Nat /\ k \in Nat
      BY <2>2, LoopBody
    <3>2. t[1] <= k
      <4> HIDE DEF t
      <4> QED BY <3>1
    <3>3. f[t] \in Factors
      <4> HIDE DEF t
      <4> QED BY <3>1, <3>2
    <3> QED BY <2>2, <3>1, <3>3 DEF LoopStep
  <2> QED BY <2>1, <2>2, LoopBody
<1>3. T = Nat
  <2> HIDE DEF T
  <2>1. T \in SUBSET Nat
    BY DEF T
  <2> QED BY <1>1, <1>2, <2>1, SetInduction
<1>4. n \in T
  BY <1>3
<1> QED BY <1>4 DEF LoopStates

(* ... and the recursion has a solution.                                   *)
LEMMA LoopExists ==
  ASSUME NEW n \in Nat
  PROVE  \E f : f = [s \in LoopStates(n) |-> LoopStep(f, s)]
<1> DEFINE S == LoopStates(n)
           T == {k \in Nat : \E f : \A s \in S : s[1] <= k => f[s] = LoopStep(f, s)}
<1>0. \A s \in S : s[1] \in Nat /\ (s[1] > 1 => LoopNext(s) \in S /\ LoopNext(s)[1] < s[1])
  BY LoopBody
<1>b. \A s \in S : LoopNext(s)[1] = s[1] \div 2
  BY DEF LoopNext
<1>c. \A s \in S : s[1] > 1 => LoopNext(s)[1] \in Nat
  BY <1>0
<1> HIDE DEF S
<1>1. 0 \in T
  <2> DEFINE f == [s \in S |-> LoopResult(s)]
  <2>1. ASSUME NEW s \in S, s[1] <= 0 PROVE f[s] = LoopStep(f, s)
    BY <1>0, <2>1 DEF LoopStep
  <2> HIDE DEF f
  <2> QED BY <2>1
<1>2. ASSUME NEW k \in T PROVE k + 1 \in T
  <2>0. k \in Nat
    OBVIOUS
  <2>1. PICK g : \A s \in S : s[1] <= k => g[s] = LoopStep(g, s)
    OBVIOUS
  <2> DEFINE f == [s \in S |-> LoopStep(g, s)]
  <2>2. \A s \in S : f[s] = LoopStep(g, s)
    OBVIOUS
  <2> HIDE DEF f
  <2>3. ASSUME NEW s \in S, s[1] <= k + 1 PROVE f[s] = LoopStep(f, s)
    <3>1. CASE s[1] <= 1
      BY <2>2, <3>1 DEF LoopStep
    <3>2. CASE s[1] > 1
      <4> DEFINE t == LoopNext(s)
      <4>1. t \in S /\ t[1] < s[1] /\ s[1] \in Nat /\ t[1] \in Nat
        BY <1>0, <1>c, <3>2
      <4>2. t[1] <= k
        <5> HIDE DEF t
        <5> QED BY <2>0, <2>3, <4>1
      <4>3. f[t] = g[t]
        <5> HIDE DEF t
        <5> QED BY <2>1, <2>2, <4>1, <4>2
      <4> QED BY <2>2, <3>2, <4>3 DEF LoopStep
    <3> QED BY <1>0, <3>1, <3>2
  <2>4. k + 1 \in Nat
    BY <2>0
  <2> QED BY <2>3, <2>4
<1>3. T = Nat
  <2> HIDE DEF T
  <2>1. T \in SUBSET Nat
    BY DEF T
  <2> QED BY <1>1, <1>2, <2>1, SetInduction
<1>4. PICK g : \A s \in S : s[1] <= n => g[s] = LoopStep(g, s)
  <2>1. n \in T
    BY <1>3
  <2> QED BY <2>1
<1>5. \A s \in S : s[1] <= n
  BY DEF S, LoopStates
<1> DEFINE f == [s \in S |-> g[s]]
<1>6. \A s \in S : f[s] = g[s]
  OBVIOUS
<1>7. ASSUME NEW s \in S PROVE g[s] = LoopStep(f, s)
  BY <1>0, <1>4, <1>5, <1>6 DEF LoopStep
<1>8. f = [s \in S |-> LoopStep(f, s)]
  <2> HIDE DEF f
  <2>1. [s \in S |-> g[s]] = [s \in S |-> LoopStep(f, s)]
    BY <1>7
  <2> QED BY <2>1 DEF f
<1> QED BY <1>8 DEF S

(* fixed_power_int returns a factor, for any number of windows missed.     *)
LEMMA PowerFactor ==
  ASSUME NEW n \in Nat, NEW x \in Factors
  PROVE  fixed_power_int(x, n) \in Factors
<1> DEFINE loop == CHOOSE f : f = [s \in LoopStates(n) |-> LoopStep(f, s)]
<1>1. loop = [s \in LoopStates(n) |-> LoopStep(loop, s)]
  BY LoopExists
<1>2. fixed_power_int(x, n) = loop[<<n, x, FIXED_1>>]
  BY DEF fixed_power_int, LoopStep, LoopStates, LoopResult, LoopNext, Factors
<1> HIDE DEF loop
<1>3. \A s \in LoopStates(n) : loop[s] = LoopStep(loop, s)
  BY <1>1
<1>4. <<n, x, FIXED_1>> \in LoopStates(n)
  BY LoadAssumption DEF Factors, LoopStates
<1> QED BY <1>2, <1>3, <1>4, LoopFactor

-----------------------------------------------------------------------------
(* Sums over the CPUs: an entry changes, another one too, an entry of 0 is *)
(* of no account.                                                          *)
LEMMA SumType ==
  ASSUME NEW S, IsFiniteSet(S), NEW f \in [S -> Int]
  PROVE  SumOf(f) \in Int
BY SumInt DEF SumOf

(* The sum over all CPUs after one entry changed.                          *)
LEMMA SumPut ==
  ASSUME NEW S, IsFiniteSet(S), NEW f \in [S -> Int], NEW e \in [S -> Int],
         NEW c \in S, \A x \in S \ {c} : e[x] = f[x]
  PROVE  SumOf(e) = SumOf(f) - f[c] + e[c]
<1>1. DOMAIN e = S /\ DOMAIN f = S
  OBVIOUS
<1>2. \A x \in S : f[x] \in Int /\ e[x] \in Int
  OBVIOUS
<1>3. SumFunctionOnSet(e, S) = SumFunctionOnSet(f, S) - f[c] + e[c]
  BY <1>2, SumAt
<1> QED BY <1>1, <1>3 DEF SumOf

(* What the constants are.                                                 *)
LEMMA Consts ==
  /\ IsFiniteSet(CPUs) /\ IsFiniteSet(0 .. 1)
  /\ WINDOW \in Nat /\ WINDOW > 0 /\ LOAD_FREQ \in Nat /\ LOAD_FREQ > WINDOW
  /\ FIXED_1 \in Nat /\ FIXED_1 > 0
  /\ EXP \subseteq Factors
  /\ MaxChanges \in Nat
<1>0. \A a, b \in Int : IsFiniteSet(a .. b)
  BY FS_Interval
<1>1. IsFiniteSet(0 .. 1)
  <2>1. 0 \in Int /\ 1 \in Int
    OBVIOUS
  <2> QED BY ONLY <1>0, <2>1, Zenon
<1> QED BY <1>1, LoadAssumption DEF Factors

(* How many windows were missed.                                           *)
LEMMA Missed ==
  ASSUME jiffies \in Int, jiffies >= WINDOW
  PROVE  missed \in Nat /\ jiffies - (1 + missed) * LOAD_FREQ >= -LOAD_FREQ
<1> DEFINE L == LOAD_FREQ
           d == jiffies - L - WINDOW
           q == d \div L
<1>1. WINDOW \in Nat /\ L \in Nat \ {0} /\ WINDOW > 0
  BY Consts
<1>2. CASE jiffies - L < WINDOW
  BY <1>1, <1>2 DEF missed
<1>3. CASE ~(jiffies - L < WINDOW)
  <2>1. missed = 1 + q
    BY <1>3 DEF missed
  <2>2. d \in Nat
    BY <1>1, <1>3
  <2> HIDE DEF d
  <2>3. q \in Nat /\ q * L <= d
    BY <1>1, <2>2, DivBounds
  <2> HIDE DEF q, L
  <2>4. (1 + (1 + q)) * L = 2 * L + q * L
    BY <1>1, <2>3
  <2>5. jiffies - (2 * L + q * L) >= -L
    BY <1>1, <2>3 DEF d
  <2> QED BY <2>1, <2>3, <2>4, <2>5 DEF L
<1> QED BY <1>2, <1>3

-----------------------------------------------------------------------------
(* The smaller and the larger of two numbers.                              *)
LEMMA MinMax ==
  ASSUME NEW a \in Int, NEW b \in Int
  PROVE  /\ Min({a, b}) \in {a, b} /\ Min({a, b}) <= a /\ Min({a, b}) <= b
         /\ Max({a, b}) \in {a, b} /\ Max({a, b}) >= a /\ Max({a, b}) >= b
<1>1. \E x \in {a, b} : \A y \in {a, b} : x <= y
  <2>1. CASE a <= b
    BY <2>1
  <2>2. CASE ~(a <= b)
    BY <2>2
  <2> QED BY <2>1, <2>2
<1>2. \E x \in {a, b} : \A y \in {a, b} : x >= y
  <2>1. CASE a <= b
    BY <2>1
  <2>2. CASE ~(a <= b)
    BY <2>2
  <2> QED BY <2>1, <2>2
<1> QED BY <1>1, <1>2 DEF Min, Max

(* The average after a window and those missed is a number between the old *)
(* average and the load.                                                   *)
LEMMA NewAverage ==
  ASSUME TypeOK, jiffies >= WINDOW, calc_load_tasks' \in Int, NEW e \in EXP
  PROVE  /\ active_load \in Nat /\ new_avenrun(e) \in Nat
         /\ \A m \in Nat : m <= avenrun[e] /\ m <= active_load => m <= new_avenrun(e)
         /\ \A m \in Nat : avenrun[e] <= m /\ active_load <= m => new_avenrun(e) <= m
<1> DEFINE a == active_load
           l == avenrun[e]
           x == calc_load(l, e, a)
           p == fixed_power_int(e, missed)
           y == calc_load(x, p, a)
<1>1. e \in 0 .. FIXED_1 /\ FIXED_1 \in Nat
  BY Consts DEF Factors
<1>2. a \in Nat
  <2>1. \A x1 \in Int, y1 \in Nat : x1 > 0 => x1 * y1 \in Nat
    OBVIOUS
  <2>2. calc_load_tasks' > 0 => calc_load_tasks' * FIXED_1 \in Nat
    BY <1>1, <2>1
  <2> QED BY <2>2 DEF active_load
<1>3. l \in Nat /\ missed \in Nat
  BY Missed DEF TypeOK
<1>4. p \in 0 .. FIXED_1
  BY <1>1, <1>3, PowerFactor DEF Factors
<1>5. new_avenrun(e) = IF missed = 0 THEN x ELSE y
  BY DEF new_avenrun, calc_load_n
<1> HIDE DEF a, l, p
<1>6. /\ x \in Nat
      /\ \A m \in Nat : m <= l /\ m <= a => m <= x
      /\ \A m \in Nat : l <= m /\ a <= m => x <= m
  BY <1>1, <1>2, <1>3, Average
<1> HIDE DEF x
<1>7. /\ y \in Nat
      /\ \A m \in Nat : m <= x /\ m <= a => m <= y
      /\ \A m \in Nat : x <= m /\ a <= m => y <= m
  BY <1>2, <1>4, <1>6, Average
<1> HIDE DEF y
<1>8. CASE missed = 0
  BY <1>2, <1>5, <1>6, <1>8 DEF a, l
<1>9. CASE missed # 0
  BY <1>2, <1>5, <1>6, <1>7, <1>9 DEF a, l
<1> QED BY <1>8, <1>9

(* The types hold at the start ...                                         *)
LEMMA TypeInit == Init => TypeOK
<1>1. LOAD_FREQ \in Nat /\ MaxChanges \in Nat
  BY Consts
<1> SUFFICES ASSUME Init PROVE TypeOK
  OBVIOUS
<1>2. flip \in BOOLEAN /\ raced \in BOOLEAN
  BY Zenon DEF Init
<1>3. calc_load_idle \in [0 .. 1 -> Int] /\ calc_load_idx \in 0 .. 1
  BY DEF Init
<1>4. jiffies \in Int /\ jiffies >= -LOAD_FREQ /\ changes \in 0 .. MaxChanges
  BY <1>1 DEF Init
<1> QED BY <1>2, <1>3, <1>4 DEF Init, TypeOK

(* ... and tasks that come and go keep them ...                            *)
LEMMA TypeTasks ==
  ASSUME TypeOK, NEW c \in CPUs, Tasks(c)
  PROVE  TypeOK'
<1>1. changes' \in 0 .. MaxChanges
  BY Consts DEF Tasks, Change, TypeOK
<1>2. /\ nr_running' \in [CPUs -> Nat]
      /\ nr_uninterruptible' \in [CPUs -> Int]
      /\ blocked' \in Nat
  <2>1. CASE Activate(c)
    BY <2>1 DEF Activate, TypeOK
  <2>2. CASE Deactivate(c)
    BY <2>2 DEF Deactivate, TypeOK
  <2>3. CASE DeactivateBlocked(c)
    BY <2>3 DEF DeactivateBlocked, TypeOK
  <2>4. CASE ActivateBlocked(c)
    BY <2>4 DEF ActivateBlocked, TypeOK
  <2> QED BY <2>1, <2>2, <2>3, <2>4 DEF Tasks
<1> QED BY <1>1, <1>2 DEF Tasks, TypeOK, global, ghosts

(* ... and so do the sample, the idle loop and its end ...                 *)
LEMMA TypeCpu ==
  ASSUME TypeOK, NEW c \in CPUs,
         \/ calc_load_account_active(c)
         \/ calc_load_enter_idle(c)
         \/ calc_load_exit_idle(c)
  PROVE  TypeOK'
<1>0. LOAD_FREQ \in Nat
  BY Consts
<1>1. nr_active(c) \in Int /\ fold_delta(c) \in Int
  BY DEF TypeOK, nr_active, fold_delta
<1>2. CASE calc_load_account_active(c)
  <2>1. calc_load_active' \in [CPUs -> Int] /\ sample' \in [CPUs -> Int]
    BY <1>1, <1>2 DEF TypeOK, calc_load_account_active, calc_load_fold_active
  <2>2. calc_load_tasks' \in Int /\ rq_update' \in [CPUs -> Int]
    BY <1>0, <1>1, <1>2 DEF TypeOK, calc_load_account_active
  <2> QED BY <1>2, <2>1, <2>2 DEF TypeOK, calc_load_account_active, counts
<1>3. CASE calc_load_enter_idle(c)
  <2>1. calc_load_active' \in [CPUs -> Int] /\ sample' \in [CPUs -> Int]
    BY <1>1, <1>3 DEF TypeOK, calc_load_enter_idle, calc_load_fold_active
  <2>2. calc_load_idle' \in [0 .. 1 -> Int]
    <3> DEFINE w == calc_load_write_idx
    <3>1. w \in 0 .. 1
      BY DEF calc_load_write_idx, TypeOK
    <3>2. calc_load_idle' = [calc_load_idle EXCEPT ![w] = calc_load_idle[w] + fold_delta(c)]
      BY <1>3 DEF calc_load_enter_idle
    <3> HIDE DEF w
    <3> QED BY <1>1, <3>1, <3>2 DEF TypeOK
  <2>3. idle' \subseteq online /\ raced' \in BOOLEAN
    BY <1>3, Zenon DEF TypeOK, calc_load_enter_idle
  <2> QED BY <1>3, <2>1, <2>2, <2>3 DEF TypeOK, calc_load_enter_idle, counts, global
<1>4. CASE calc_load_exit_idle(c)
  <2>1. exit_idle_update(c) \in Int
    BY <1>0 DEF TypeOK, exit_idle_update
  <2>2. rq_update' \in [CPUs -> Int]
    BY <1>4, <2>1 DEF TypeOK, calc_load_exit_idle
  <2>3. idle' \subseteq online /\ raced' \in BOOLEAN
    BY <1>4, Zenon DEF TypeOK, calc_load_exit_idle
  <2> QED BY <1>4, <2>2, <2>3 DEF TypeOK, calc_load_exit_idle, counts, global
<1> QED BY <1>2, <1>3, <1>4

(* ... the passage of time and the two halves of the average ...           *)
LEMMA TypeGlobal ==
  ASSUME TypeOK, (\E n \in Jumps : DoTimer(n)) \/ calc_global_load \/ flip_idx
  PROVE  TypeOK'
<1>0. LOAD_FREQ \in Nat
  BY Consts
<1>1. CASE \E n \in Jumps : DoTimer(n)
  <2>1. PICK n \in Jumps : DoTimer(n)
    BY <1>1
  <2>2. n \in Nat
    BY LoadAssumption
  <2>3. jiffies' \in Int /\ jiffies' >= -LOAD_FREQ
    BY <1>0, <2>1, <2>2 DEF DoTimer, TypeOK
  <2>4. slept' \subseteq CPUs
    BY <2>1 DEF DoTimer, TypeOK
  <2> QED BY <2>1, <2>3, <2>4 DEF TypeOK, DoTimer, counts
<1>2. CASE calc_global_load
  <2> DEFINE shift == (1 + missed) * LOAD_FREQ
  <2>1. missed \in Nat /\ jiffies - shift >= -LOAD_FREQ
    BY <1>2, Missed DEF TypeOK, calc_global_load
  <2>2. shift \in Int
    BY <1>0, <2>1
  <2>3. jiffies' = jiffies - shift /\ rq_update' = [c \in CPUs |-> moved(rq_update[c] - shift, c)]
    BY <1>2 DEF calc_global_load
  <2> HIDE DEF shift
  <2>4. jiffies' \in Int /\ jiffies' >= -LOAD_FREQ
    BY <2>1, <2>2, <2>3 DEF TypeOK
  <2>5. ASSUME NEW t \in Int, NEW c \in CPUs PROVE moved(t, c) \in Int
    <3>1. -LOAD_FREQ \in Int
      BY <1>0
    <3>2. Max({t, -LOAD_FREQ}) \in {t, -LOAD_FREQ}
      BY <3>1, MinMax
    <3> QED BY <3>1, <3>2 DEF moved
  <2>6. rq_update' \in [CPUs -> Int]
    <3>1. ASSUME NEW c \in CPUs PROVE rq_update[c] - shift \in Int
      BY <2>2 DEF TypeOK
    <3> QED BY <2>3, <2>5, <3>1
  <2>7. fold_idle \in 0 .. 1
    BY DEF fold_idle, calc_load_read_idx, TypeOK
  <2>8. calc_load_tasks' \in Int /\ calc_load_idle' \in [0 .. 1 -> Int]
    BY <1>2, <2>7 DEF calc_global_load, TypeOK
  <2>9. avenrun' \in [EXP -> Nat]
    <3>1. jiffies >= WINDOW /\ avenrun' = [e \in EXP |-> new_avenrun(e)]
      BY <1>2 DEF calc_global_load
    <3>2. \A e \in EXP : new_avenrun(e) \in Nat
      BY <2>8, <3>1, NewAverage
    <3> QED BY <3>1, <3>2
  <2>10. slept' \subseteq CPUs /\ sample' \in [CPUs -> Int] /\ flip' \in BOOLEAN /\ raced' \in BOOLEAN
    BY <1>2 DEF calc_global_load, TypeOK
  <2> QED BY <1>2, <2>4, <2>6, <2>8, <2>9, <2>10 DEF TypeOK, calc_global_load, counts
<1>3. CASE flip_idx
  <2>1. calc_load_idx' \in 0 .. 1
    BY <1>3 DEF flip_idx, TypeOK
  <2>2. flip' \in BOOLEAN
    BY <1>3, Zenon DEF flip_idx
  <2> QED BY <1>3, <2>1, <2>2 DEF flip_idx, TypeOK, counts, ghosts
<1> QED BY <1>1, <1>2, <1>3

(* ... and CPUs that go down and come up.                                  *)
LEMMA TypeHotplug ==
  ASSUME TypeOK, NEW c \in CPUs,
         (\E dest \in CPUs : CpuDying(c, dest)) \/ CpuUpPrepare(c)
  PROVE  TypeOK'
<1>1. CASE \E dest \in CPUs : CpuDying(c, dest)
  <2>1. PICK dest \in CPUs : CpuDying(c, dest)
    BY <1>1
  <2>2. changes' \in 0 .. MaxChanges
    BY <2>1, Consts DEF CpuDying, Change, TypeOK
  <2>3. nr_running' \in [CPUs -> Nat]
    <3>1. nr_running' = [nr_running EXCEPT ![dest] = nr_running[dest] + nr_running[c], ![c] = 0]
      BY <2>1 DEF CpuDying
    <3> QED BY <3>1 DEF TypeOK
  <2>4. nr_uninterruptible' \in [CPUs -> Int]
    BY <2>1 DEF CpuDying, migrate_nr_uninterruptible, TypeOK
  <2>5. calc_load_tasks' \in Int /\ calc_load_active' \in [CPUs -> Int] /\ sample' \in [CPUs -> Int]
    BY <2>1 DEF CpuDying, TypeOK
  <2>6. raced' \in BOOLEAN
    BY <2>1, Zenon DEF CpuDying, TypeOK
  <2>7. idle' \subseteq online' /\ online' \subseteq CPUs /\ slept' \subseteq CPUs
    BY <2>1 DEF CpuDying, TypeOK
  <2> QED BY <2>1, <2>2, <2>3, <2>4, <2>5, <2>6, <2>7 DEF TypeOK, CpuDying
<1>2. CASE CpuUpPrepare(c)
  <2>1. changes' \in 0 .. MaxChanges
    BY <1>2, Consts DEF CpuUpPrepare, Change, TypeOK
  <2> QED BY <1>2, <2>1 DEF TypeOK, CpuUpPrepare, counts, global, ghosts
<1> QED BY <1>1, <1>2

(* Every step keeps the types.                                             *)
LEMMA TypeStep == TypeOK /\ [Next]_vars => TypeOK'
<1> SUFFICES ASSUME TypeOK, [Next]_vars PROVE TypeOK'
  OBVIOUS
<1>1. CASE UNCHANGED vars
  BY <1>1 DEF TypeOK, vars, counts, global, ghosts
<1>2. CASE Next
  BY <1>2, TypeTasks, TypeCpu, TypeGlobal, TypeHotplug DEF Next
<1> QED BY <1>1, <1>2

-----------------------------------------------------------------------------
(* The two idle deltas.                                                    *)
LEMMA PairSum ==
  ASSUME NEW f \in [0 .. 1 -> Int]
  PROVE  SumOf(f) = f[0] + f[1]
<1> DEFINE S == 0 .. 1
           T == {1}
<1>1. /\ IsFiniteSet(S) /\ IsFiniteSet(T) /\ S \ {0} = T /\ T \ {1} = {} /\ 0 \in S /\ 1 \in T
      /\ \A x \in S : f[x] \in Int
      /\ \A x \in T : f[x] \in Int
  <2>1. IsFiniteSet(0 .. 1) /\ IsFiniteSet({1})
    BY Consts, FS_Singleton, Zenon
  <2>2. (0 .. 1) \ {0} = {1} /\ {1} \ {1} = {} /\ 0 \in 0 .. 1 /\ 1 \in {1}
    OBVIOUS
  <2>3. \A x \in 0 .. 1 : f[x] \in Int
    OBVIOUS
  <2>4. \A x \in {1} : f[x] \in Int
    OBVIOUS
  <2> QED BY <2>1, <2>2, <2>3, <2>4
<1>2. DOMAIN f = S
  OBVIOUS
<1> HIDE DEF S, T
<1>3. SumFunctionOnSet(f, S) = f[0] + SumFunctionOnSet(f, T)
  BY <1>1, SumTake
<1>4. SumFunctionOnSet(f, T) = f[1] + SumFunctionOnSet(f, {})
  BY <1>1, SumTake
<1>5. SumFunctionOnSet(f, {}) = 0
  BY SumEmpty
<1>6. f[1] \in Int /\ f[0] \in Int
  OBVIOUS
<1> QED BY <1>2, <1>3, <1>4, <1>5, <1>6 DEF SumOf

(* A CPU that folds its count changes the sum of the reported counts by    *)
(* the delta it returns.                                                   *)
LEMMA FoldSum ==
  ASSUME TypeOK, NEW c \in CPUs, calc_load_fold_active(c)
  PROVE  /\ SumOf(calc_load_active) \in Int /\ fold_delta(c) \in Int
         /\ SumOf(calc_load_active)' = SumOf(calc_load_active) + fold_delta(c)
<1>1. /\ nr_active(c) \in Int /\ fold_delta(c) \in Int /\ calc_load_active[c] \in Int
      /\ calc_load_active \in [CPUs -> Int]
      /\ nr_active(c) = calc_load_active[c] + fold_delta(c)
  BY DEF TypeOK, nr_active, fold_delta
<1>2. calc_load_active' = [calc_load_active EXCEPT ![c] = nr_active(c)]
  BY DEF calc_load_fold_active
<1>3. SumOf(calc_load_active) \in Int
  BY <1>1, Consts, SumType
<1>a. /\ calc_load_active' \in [CPUs -> Int] /\ calc_load_active'[c] = nr_active(c)
      /\ \A x \in CPUs \ {c} : calc_load_active'[x] = calc_load_active[x]
  BY <1>1, <1>2
<1>b. c \in CPUs
  OBVIOUS
<1>4. SumOf(calc_load_active') = SumOf(calc_load_active) - calc_load_active[c] + nr_active(c)
  BY ONLY <1>1, <1>a, <1>b, Consts, SumPut
<1>5. SumOf(calc_load_active)' = SumOf(calc_load_active')
  BY DEF SumOf
<1> QED BY <1>1, <1>3, <1>4, <1>5

(* A change of one idle delta.                                             *)
LEMMA IdleSum ==
  ASSUME TypeOK, NEW i \in 0 .. 1, NEW v \in Int,
         calc_load_idle' = [calc_load_idle EXCEPT ![i] = v]
  PROVE  /\ SumOf(calc_load_idle) \in Int /\ calc_load_idle[i] \in Int
         /\ SumOf(calc_load_idle)' = SumOf(calc_load_idle) - calc_load_idle[i] + v
<1>1. calc_load_idle \in [0 .. 1 -> Int] /\ calc_load_idle[i] \in Int
  BY DEF TypeOK
<1>2. SumOf(calc_load_idle) \in Int
  BY <1>1, Consts, SumType
<1>a. /\ calc_load_idle' \in [0 .. 1 -> Int] /\ calc_load_idle'[i] = v
      /\ \A x \in (0 .. 1) \ {i} : calc_load_idle'[x] = calc_load_idle[x]
  BY <1>1
<1>b. i \in 0 .. 1
  OBVIOUS
<1>3. SumOf(calc_load_idle') = SumOf(calc_load_idle) - calc_load_idle[i] + v
  BY ONLY <1>1, <1>a, <1>b, Consts, SumPut
<1>4. SumOf(calc_load_idle)' = SumOf(calc_load_idle')
  BY DEF SumOf
<1> QED BY <1>1, <1>2, <1>3, <1>4

(* The number of the idle delta that a CPU writes.                         *)
LEMMA WriteIdx ==
  ASSUME TypeOK
  PROVE  calc_load_write_idx \in 0 .. 1 /\ fold_idle \in 0 .. 1
BY DEF TypeOK, calc_load_write_idx, fold_idle, calc_load_read_idx

(* No step loses a delta or folds it twice.                                *)
LEMMA ConservedStep ==
  ASSUME TypeOK, LoadConserved, [Next]_vars
  PROVE  LoadConserved'
<1>0. calc_load_tasks \in Int
  BY DEF TypeOK
<1>1. CASE UNCHANGED <<calc_load_tasks, calc_load_idle, calc_load_active>>
  BY <1>1 DEF LoadConserved, SumOf
<1>2. CASE \E c \in CPUs : calc_load_account_active(c)
  <2>1. PICK c \in CPUs : calc_load_account_active(c)
    BY <1>2
  <2>2. /\ calc_load_fold_active(c) /\ calc_load_tasks' = calc_load_tasks + fold_delta(c)
        /\ calc_load_idle' = calc_load_idle
    BY <2>1 DEF calc_load_account_active
  <2>3. SumOf(calc_load_idle)' = SumOf(calc_load_idle) /\ SumOf(calc_load_idle) \in Int
    <3>1. calc_load_idle \in [0 .. 1 -> Int]
      BY DEF TypeOK
    <3> QED BY <2>2, <3>1, Consts, SumType DEF SumOf
  <2> QED BY <1>0, <2>2, <2>3, FoldSum DEF LoadConserved
<1>3. CASE \E c \in CPUs : calc_load_enter_idle(c)
  <2>1. PICK c \in CPUs : calc_load_enter_idle(c)
    BY <1>3
  <2> DEFINE w == calc_load_write_idx
             v == calc_load_idle[w] + fold_delta(c)
  <2>2. /\ calc_load_fold_active(c) /\ calc_load_tasks' = calc_load_tasks
        /\ calc_load_idle' = [calc_load_idle EXCEPT ![w] = v]
    BY <2>1 DEF calc_load_enter_idle, global
  <2>3. w \in 0 .. 1
    BY WriteIdx
  <2>4. SumOf(calc_load_active)' = SumOf(calc_load_active) + fold_delta(c) /\ fold_delta(c) \in Int
    BY <2>2, FoldSum
  <2> HIDE DEF w
  <2>5. calc_load_idle[w] \in Int /\ v \in Int
    BY <2>3, <2>4 DEF TypeOK
  <2>6. v = calc_load_idle[w] + fold_delta(c)
    OBVIOUS
  <2> HIDE DEF v
  <2>7. SumOf(calc_load_idle)' = SumOf(calc_load_idle) - calc_load_idle[w] + v /\ SumOf(calc_load_idle) \in Int
    BY <2>2, <2>3, <2>5, IdleSum
  <2> QED BY <1>0, <2>2, <2>4, <2>5, <2>6, <2>7 DEF LoadConserved
<1>4. CASE calc_global_load
  <2> DEFINE i == fold_idle
             z == 0
  <2>1. /\ i \in 0 .. 1 /\ z \in Int
        /\ calc_load_tasks' = calc_load_tasks + calc_load_idle[i]
        /\ calc_load_idle' = [calc_load_idle EXCEPT ![i] = z]
        /\ calc_load_active' = calc_load_active
    BY <1>4, WriteIdx DEF calc_global_load
  <2> HIDE DEF i, z
  <2>a. /\ SumOf(calc_load_idle)' = SumOf(calc_load_idle) - calc_load_idle[i] + z
        /\ SumOf(calc_load_idle) \in Int /\ calc_load_idle[i] \in Int
    BY <2>1, IdleSum
  <2>2. /\ SumOf(calc_load_idle)' = SumOf(calc_load_idle) - calc_load_idle[i] + 0
        /\ SumOf(calc_load_idle) \in Int /\ calc_load_idle[i] \in Int
    BY <2>a DEF z
  <2>3. SumOf(calc_load_active)' = SumOf(calc_load_active)
    BY <2>1 DEF SumOf
  <2> QED BY <1>0, <2>1, <2>2, <2>3 DEF LoadConserved
<1>5. CASE \E c, dest \in CPUs : CpuDying(c, dest)
  <2>1. PICK c \in CPUs, dest \in CPUs : CpuDying(c, dest)
    BY <1>5
  <2>2. /\ calc_load_tasks' = calc_load_tasks - calc_load_active[c]
        /\ calc_load_active' = [calc_load_active EXCEPT ![c] = 0]
        /\ calc_load_idle' = calc_load_idle
    BY <2>1 DEF CpuDying
  <2>3. calc_load_active \in [CPUs -> Int] /\ calc_load_active[c] \in Int /\ calc_load_idle \in [0 .. 1 -> Int]
    BY DEF TypeOK
  <2>a. /\ calc_load_active' \in [CPUs -> Int] /\ calc_load_active'[c] = 0 /\ c \in CPUs
        /\ \A x \in CPUs \ {c} : calc_load_active'[x] = calc_load_active[x]
    BY <2>2, <2>3
  <2>4. SumOf(calc_load_active') = SumOf(calc_load_active) - calc_load_active[c] + 0
    BY ONLY <2>3, <2>a, Consts, SumPut
  <2>5. SumOf(calc_load_idle) \in Int /\ SumOf(calc_load_active) \in Int
    BY <2>3, Consts, SumType
  <2>6. SumOf(calc_load_active)' = SumOf(calc_load_active') /\ SumOf(calc_load_idle)' = SumOf(calc_load_idle)
    BY <2>2 DEF SumOf
  <2> QED BY <1>0, <2>2, <2>3, <2>4, <2>5, <2>6 DEF LoadConserved
<1>6. ASSUME NEW c \in CPUs, Tasks(c) \/ calc_load_exit_idle(c) \/ CpuUpPrepare(c)
      PROVE  UNCHANGED <<calc_load_tasks, calc_load_idle, calc_load_active>>
  BY <1>6 DEF Tasks, calc_load_exit_idle, CpuUpPrepare, global
<1>7. ASSUME (\E n \in Jumps : DoTimer(n)) \/ flip_idx
      PROVE  UNCHANGED <<calc_load_tasks, calc_load_idle, calc_load_active>>
  BY <1>7 DEF DoTimer, flip_idx
<1>8. CASE UNCHANGED vars
  BY <1>1, <1>8 DEF vars, global
<1> QED BY <1>1, <1>2, <1>3, <1>4, <1>5, <1>6, <1>7, <1>8 DEF Next

(* A CPU that is down counts nothing.                                      *)
LEMMA OfflineStep ==
  ASSUME TypeOK, OfflineCounts, [Next]_vars
  PROVE  OfflineCounts'
<1>1. CASE UNCHANGED <<online, nr_running, nr_uninterruptible, calc_load_active>>
  BY <1>1 DEF OfflineCounts
<1>2. ASSUME NEW c \in CPUs, Tasks(c) PROVE OfflineCounts'
  <2>1. /\ c \in online /\ online' = online /\ calc_load_active' = calc_load_active
        /\ nr_running \in [CPUs -> Nat] /\ nr_uninterruptible \in [CPUs -> Int]
    BY <1>2 DEF Tasks, TypeOK
  <2>2. \A x \in CPUs \ {c} : nr_running'[x] = nr_running[x]
                              /\ nr_uninterruptible'[x] = nr_uninterruptible[x]
    BY <1>2, <2>1 DEF Tasks, Activate, Deactivate, DeactivateBlocked, ActivateBlocked
  <2> QED BY <2>1, <2>2 DEF OfflineCounts
<1>3. ASSUME NEW c \in CPUs, calc_load_account_active(c) \/ calc_load_enter_idle(c)
      PROVE  OfflineCounts'
  <2>1. /\ c \in online /\ online' = online
        /\ nr_running' = nr_running /\ nr_uninterruptible' = nr_uninterruptible
        /\ calc_load_active' = [calc_load_active EXCEPT ![c] = nr_active(c)]
        /\ calc_load_active \in [CPUs -> Int]
    BY <1>3 DEF calc_load_account_active, calc_load_enter_idle, counts, TypeOK, calc_load_fold_active
  <2> QED BY <2>1 DEF OfflineCounts
<1>4. ASSUME NEW c \in CPUs, NEW dest \in CPUs, CpuDying(c, dest)
      PROVE  OfflineCounts'
  <2>1. /\ dest \in online /\ dest # c /\ online' = online \ {c}
        /\ nr_running' = [nr_running EXCEPT ![dest] = nr_running[dest] + nr_running[c], ![c] = 0]
        /\ nr_uninterruptible' = [nr_uninterruptible EXCEPT
             ![dest] = nr_uninterruptible[dest] + nr_uninterruptible[c], ![c] = 0]
        /\ calc_load_active' = [calc_load_active EXCEPT ![c] = 0]
    BY <1>4 DEF CpuDying, migrate_nr_uninterruptible
  <2>2. /\ nr_running \in [CPUs -> Nat] /\ nr_uninterruptible \in [CPUs -> Int]
        /\ calc_load_active \in [CPUs -> Int]
    BY DEF TypeOK
  <2>3. nr_running'[c] = 0 /\ nr_uninterruptible'[c] = 0 /\ calc_load_active'[c] = 0
    BY <2>1, <2>2
  <2>4. \A x \in CPUs \ {c, dest} :
          /\ nr_running'[x] = nr_running[x]
          /\ nr_uninterruptible'[x] = nr_uninterruptible[x]
          /\ calc_load_active'[x] = calc_load_active[x]
    BY <2>1, <2>2
  <2>5. \A x \in CPUs \ online' : x = c \/ (x \in CPUs \ {c, dest} /\ x \in CPUs \ online)
    BY <2>1
  <2> QED BY <2>3, <2>4, <2>5 DEF OfflineCounts
<1>5. ASSUME NEW c \in CPUs, CpuUpPrepare(c) PROVE OfflineCounts'
  BY <1>5 DEF CpuUpPrepare, OfflineCounts, counts
<1>6. ASSUME NEW c \in CPUs, calc_load_exit_idle(c)
      PROVE  UNCHANGED <<online, nr_running, nr_uninterruptible, calc_load_active>>
  BY <1>6 DEF calc_load_exit_idle, counts
<1>7. ASSUME (\E n \in Jumps : DoTimer(n)) \/ flip_idx \/ calc_global_load
      PROVE  UNCHANGED <<online, nr_running, nr_uninterruptible, calc_load_active>>
  BY <1>7 DEF DoTimer, flip_idx, calc_global_load, counts
<1>8. CASE UNCHANGED vars
  BY <1>1, <1>8 DEF vars, counts
<1> QED BY <1>1, <1>2, <1>3, <1>4, <1>5, <1>6, <1>7, <1>8 DEF Next

(* The counts of uninterruptible tasks add up to those asleep, over the    *)
(* CPUs that are up.                                                       *)
LEMMA UninterruptibleStep ==
  ASSUME TypeOK, OfflineCounts, UninterruptibleSum, [Next]_vars
  PROVE  UninterruptibleSum'
<1> DEFINE f == nr_uninterruptible
           T == online
<1>1. CASE UNCHANGED <<online, nr_uninterruptible, blocked>>
  BY <1>1 DEF UninterruptibleSum
<1>2. /\ IsFiniteSet(T) /\ T \subseteq CPUs /\ f \in [CPUs -> Int] /\ blocked \in Nat
      /\ \A x \in T : f[x] \in Int
      /\ SumFunctionOnSet(f, T) = blocked
  <2>1. T \subseteq CPUs /\ f \in [CPUs -> Int] /\ blocked \in Nat
    BY DEF TypeOK
  <2>2. IsFiniteSet(T)
    BY <2>1, Consts, FS_Subset
  <2> QED BY <2>1, <2>2 DEF UninterruptibleSum
<1>3. ASSUME NEW c \in CPUs, Tasks(c) PROVE UninterruptibleSum'
  <2> DEFINE e == f'
  <2>1. c \in T /\ online' = T
    BY <1>3 DEF Tasks
  <2>2. /\ \A x \in T : e[x] \in Int
        /\ \A x \in T \ {c} : e[x] = f[x]
        /\ e[c] - f[c] = blocked' - blocked
        /\ blocked' \in Int
    BY <1>2, <1>3, <2>1 DEF Tasks, Activate, Deactivate, DeactivateBlocked, ActivateBlocked
  <2>3. UninterruptibleSum' = (SumFunctionOnSet(e, T) = blocked')
    BY <2>1 DEF UninterruptibleSum
  <2> HIDE DEF e, f, T
  <2>4. SumFunctionOnSet(e, T) = SumFunctionOnSet(f, T) - f[c] + e[c]
    <3>1. IsFiniteSet(T) /\ c \in T /\ \A x \in T : f[x] \in Int /\ e[x] \in Int
      BY <1>2, <2>1, <2>2
    <3>2. \A x \in T \ {c} : e[x] = f[x]
      BY <2>2
    <3> QED BY ONLY <3>1, <3>2, SumAt
  <2>5. f[c] \in Int /\ e[c] \in Int
    BY <1>2, <2>1, <2>2
  <2>6. SumFunctionOnSet(e, T) = blocked'
    BY ONLY <1>2, <2>2, <2>4, <2>5
  <2> QED BY <2>3, <2>6
<1>4. ASSUME NEW c \in CPUs, NEW dest \in CPUs, CpuDying(c, dest)
      PROVE  UninterruptibleSum'
  <2> DEFINE e == f'
             U == T \ {c}
  <2>1. /\ c \in T /\ dest \in U /\ online' = U /\ blocked' = blocked
        /\ e = [f EXCEPT ![dest] = f[dest] + f[c], ![c] = 0]
    BY <1>4 DEF CpuDying, migrate_nr_uninterruptible
  <2>2. /\ \A x \in U : e[x] \in Int
        /\ \A x \in U \ {dest} : e[x] = f[x]
        /\ e[dest] = f[dest] + f[c]
    BY <1>2, <2>1
  <2>3. UninterruptibleSum' = (SumFunctionOnSet(e, U) = blocked)
    BY <2>1 DEF UninterruptibleSum
  <2>4. IsFiniteSet(U) /\ U = T \ {c} /\ \A x \in U : f[x] \in Int
    BY <1>2, FS_RemoveElement
  <2>5. c \in T /\ dest \in U
    BY <2>1
  <2> HIDE DEF e, f, T, U
  <2>6. SumFunctionOnSet(e, U) = SumFunctionOnSet(f, U) - f[dest] + e[dest]
    BY ONLY <2>2, <2>4, <2>5, SumAt
  <2>7. SumFunctionOnSet(f, T) = f[c] + SumFunctionOnSet(f, U)
    BY <1>2, <2>4, <2>5, SumTake
  <2>8. f[c] \in Int /\ f[dest] \in Int /\ SumFunctionOnSet(f, U) \in Int
    BY <1>2, <2>4, <2>5, SumInt
  <2>9. SumFunctionOnSet(e, U) = blocked
    BY ONLY <1>2, <2>2, <2>6, <2>7, <2>8
  <2> QED BY <2>3, <2>9
<1>5. ASSUME NEW c \in CPUs, CpuUpPrepare(c) PROVE UninterruptibleSum'
  <2> DEFINE U == T \cup {c}
  <2>1. /\ c \notin T /\ online' = U /\ blocked' = blocked /\ nr_uninterruptible' = f
        /\ f[c] = 0 /\ c \in CPUs
    BY <1>5 DEF CpuUpPrepare, counts, OfflineCounts
  <2>2. UninterruptibleSum' = (SumFunctionOnSet(f, U) = blocked)
    BY <2>1 DEF UninterruptibleSum
  <2>3. IsFiniteSet(U) /\ U \ {c} = T /\ c \in U /\ \A x \in U : f[x] \in Int
    BY <1>2, <2>1, FS_AddElement
  <2> HIDE DEF f, T, U
  <2>4. SumFunctionOnSet(f, U) = f[c] + SumFunctionOnSet(f, U \ {c})
    BY <2>3, SumTake
  <2>5. SumFunctionOnSet(f, U \ {c}) = SumFunctionOnSet(f, T)
    BY <2>3, Zenon
  <2>6. SumFunctionOnSet(f, U) = blocked
    BY ONLY <1>2, <2>1, <2>4, <2>5
  <2> QED BY <2>2, <2>6
<1>6. ASSUME NEW c \in CPUs,
             \/ calc_load_exit_idle(c)
             \/ calc_load_enter_idle(c)
             \/ calc_load_account_active(c)
      PROVE  UNCHANGED <<online, nr_uninterruptible, blocked>>
  BY <1>6 DEF calc_load_exit_idle, calc_load_enter_idle, calc_load_account_active, counts
<1>7. ASSUME (\E n \in Jumps : DoTimer(n)) \/ flip_idx \/ calc_global_load
      PROVE  UNCHANGED <<online, nr_uninterruptible, blocked>>
  BY <1>7 DEF DoTimer, flip_idx, calc_global_load, counts
<1>8. CASE UNCHANGED vars
  BY <1>1, <1>8 DEF vars, counts
<1> QED BY <1>1, <1>3, <1>4, <1>5, <1>6, <1>7, <1>8 DEF Next

(* All counts are 0 at the start.                                          *)
LEMMA LoadInit == Init => LoadInv
<1> SUFFICES ASSUME Init PROVE LoadInv
  OBVIOUS
<1>1. TypeOK
  BY TypeInit
<1>2. /\ DOMAIN calc_load_idle = 0 .. 1 /\ DOMAIN calc_load_active = CPUs
      /\ \A x \in 0 .. 1 : calc_load_idle[x] = 0
      /\ \A x \in CPUs : calc_load_active[x] = 0
      /\ \A x \in CPUs : nr_uninterruptible[x] = 0
      /\ online = CPUs /\ blocked = 0 /\ calc_load_tasks = 0
  BY DEF Init
<1>3. SumFunctionOnSet(calc_load_idle, 0 .. 1) = 0
  BY <1>2, Consts, SumZero
<1>4. SumFunctionOnSet(calc_load_active, CPUs) = 0
  BY <1>2, Consts, SumZero
<1>5. SumFunctionOnSet(nr_uninterruptible, CPUs) = 0
  BY <1>2, Consts, SumZero
<1>6. LoadConserved
  BY <1>2, <1>3, <1>4 DEF LoadConserved, SumOf
<1>7. UninterruptibleSum
  BY <1>2, <1>5 DEF UninterruptibleSum
<1>8. OfflineCounts
  BY <1>2 DEF OfflineCounts
<1> QED BY <1>1, <1>6, <1>7, <1>8 DEF LoadInv

(* The invariant is inductive.                                             *)
LEMMA LoadStep == LoadInv /\ [Next]_vars => LoadInv'
BY TypeStep, ConservedStep, OfflineStep, UninterruptibleStep DEF LoadInv

(* No delta is lost or folded twice: calc_load_tasks and the two idle      *)
(* deltas add up to what the CPUs reported, and nr_uninterruptible adds up *)
(* to the tasks asleep, whatever CPUs go idle, go down and come up.        *)
THEOREM LoadHolds == Spec => []LoadInv
<1> QED BY LoadInit, LoadStep, PTL DEF Spec

-----------------------------------------------------------------------------
(* An average moves towards the load and never past it, whatever factor    *)
(* and however many windows are caught up by fixed_power_int.              *)
THEOREM Overshoot == Spec => NoOvershoot
<1> DEFINE P == \A e \in EXP :
       LET load == IF calc_load_tasks' > 0 THEN calc_load_tasks' * FIXED_1 ELSE 0
       IN  avenrun'[e] # avenrun[e] =>
             /\ avenrun'[e] >= Min({avenrun[e], load})
             /\ avenrun'[e] <= Max({avenrun[e], load})
<1>1. ASSUME LoadInv, Next PROVE P
  <2>1. ASSUME calc_global_load, NEW e \in EXP
        PROVE  /\ avenrun'[e] >= Min({avenrun[e], active_load})
               /\ avenrun'[e] <= Max({avenrun[e], active_load})
    <3> DEFINE l == avenrun[e]
               a == active_load
               n == new_avenrun(e)
    <3>1. TypeOK /\ TypeOK' /\ jiffies >= WINDOW /\ avenrun' = [x \in EXP |-> new_avenrun(x)]
      BY <1>1, <2>1, TypeStep DEF LoadInv, calc_global_load
    <3>2. calc_load_tasks' \in Int /\ l \in Nat
      BY <3>1 DEF TypeOK
    <3>3. avenrun'[e] = n
      BY <3>1
    <3>4. /\ a \in Nat /\ n \in Nat
          /\ \A m \in Nat : m <= l /\ m <= a => m <= n
          /\ \A m \in Nat : l <= m /\ a <= m => n <= m
      BY <3>1, <3>2, NewAverage
    <3> HIDE DEF l, a, n
    <3>5. /\ Min({l, a}) \in {l, a} /\ Min({l, a}) <= l /\ Min({l, a}) <= a
          /\ Max({l, a}) \in {l, a} /\ Max({l, a}) >= l /\ Max({l, a}) >= a
      BY <3>2, <3>4, MinMax
    <3>6. n >= Min({l, a}) /\ n <= Max({l, a})
      BY <3>2, <3>4, <3>5
    <3> QED BY <3>3, <3>6 DEF l, a
  <2>2. CASE calc_global_load
    BY <2>1, <2>2 DEF active_load
  <2>3. ASSUME ~calc_global_load PROVE avenrun' = avenrun
    <3>1. ASSUME NEW c \in CPUs,
                 \/ Tasks(c) \/ calc_load_account_active(c) \/ calc_load_enter_idle(c)
                 \/ calc_load_exit_idle(c)
                 \/ \E dest \in CPUs : CpuDying(c, dest)
                 \/ CpuUpPrepare(c)
          PROVE  avenrun' = avenrun
      BY <3>1 DEF Tasks, calc_load_account_active, calc_load_enter_idle,
                  calc_load_exit_idle, CpuDying, CpuUpPrepare, global
    <3>2. ASSUME (\E n \in Jumps : DoTimer(n)) \/ flip_idx PROVE avenrun' = avenrun
      BY <3>2 DEF DoTimer, flip_idx
    <3> QED BY <1>1, <2>3, <3>1, <3>2 DEF Next
  <2> QED BY <2>2, <2>3
<1>2. LoadInv /\ [Next]_vars => [P]_vars
  BY <1>1
<1>3. Spec => []LoadInv
  BY LoadHolds
<1> QED BY <1>2, <1>3, PTL DEF Spec, NoOvershoot

-----------------------------------------------------------------------------
(* What an average is made of.  A CPU's next sample is always due at the   *)
(* opening of a window ...                                                 *)
Due(t) == \E k \in Int : t = k * LOAD_FREQ

Busy == online \ idle

DueInv == \A c \in CPUs : Due(rq_update[c])

(* ... a CPU that is down counts for nothing ...                           *)
OfflineSample == \A c \in CPUs \ online : sample[c] = 0

(* ... before the window opens each CPU counts for what it reported ...    *)
ClosedInv == jiffies < 0 => sample = calc_load_active /\ slept = {}

SleptInv == slept \subseteq online

(* ... the idle delta that the next average leaves alone is what was       *)
(* reported since the window opened ...                                    *)
Kept == IF flip THEN calc_load_idx ELSE 1 - calc_load_idx

KeptInv ==
  ~raced => calc_load_idle[Kept] = SumOf(calc_load_active) - SumOf(sample)

(* ... a CPU whose report is not in the average has reported for it        *)
(* already ...                                                             *)
ReportedInv ==
  ~raced => \A c \in Busy : sample[c] # calc_load_active[c] => jiffies < rq_update[c]

(* ... and one that slept when the window opened has skipped it.           *)
SkippedInv ==
  jiffies < WINDOW => \A c \in Busy \cap slept : rq_update[c] >= LOAD_FREQ

SampleInv ==
  /\ DueInv
  /\ OfflineSample
  /\ ClosedInv
  /\ SleptInv
  /\ KeptInv
  /\ ReportedInv
  /\ SkippedInv

(* Openings of windows, one period apart.                                  *)
LEMMA DueZero == Due(0) /\ Due(LOAD_FREQ) /\ Due(-LOAD_FREQ)
<1>1. LOAD_FREQ \in Int /\ 0 = 0 * LOAD_FREQ /\ LOAD_FREQ = 1 * LOAD_FREQ /\ -LOAD_FREQ = (-1) * LOAD_FREQ
  BY Consts
<1>2. 0 \in Int /\ 1 \in Int /\ -1 \in Int
  OBVIOUS
<1> QED BY <1>1, <1>2 DEF Due

(* A whole number of periods earlier or later is an opening too.           *)
LEMMA DueShift ==
  ASSUME NEW t \in Int, Due(t), NEW n \in Int
  PROVE  Due(t - n * LOAD_FREQ) /\ Due(t + LOAD_FREQ)
<1>1. PICK k \in Int : t = k * LOAD_FREQ
  BY DEF Due
<1>2. LOAD_FREQ \in Int
  BY Consts
<1>3. t - n * LOAD_FREQ = (k - n) * LOAD_FREQ /\ t + LOAD_FREQ = (k + 1) * LOAD_FREQ
  BY <1>1, <1>2
<1>4. k - n \in Int /\ k + 1 \in Int
  OBVIOUS
<1> QED BY <1>3, <1>4 DEF Due

(* The first opening after this one is a period away.                      *)
LEMMA DueAfter ==
  ASSUME NEW t \in Int, Due(t), t > 0
  PROVE  t >= LOAD_FREQ
<1>1. PICK k \in Int : t = k * LOAD_FREQ
  BY DEF Due
<1>2. LOAD_FREQ \in Nat
  BY Consts
<1>3. k >= 1
  <2>1. ASSUME k <= 0 PROVE FALSE
    <3>1. -k \in Nat
      BY <2>1
    <3>2. (-k) * LOAD_FREQ \in Nat
      BY <1>2, <3>1
    <3>3. (-k) * LOAD_FREQ = -(k * LOAD_FREQ)
      BY <1>2
    <3> QED BY <1>1, <3>2, <3>3
  <2> QED BY <2>1
<1>4. 1 * LOAD_FREQ <= k * LOAD_FREQ
  <2>1. k \in Nat /\ 1 \in Nat
    BY <1>3
  <2> QED BY <1>2, <1>3, <2>1, TimesMono
<1> QED BY <1>1, <1>2, <1>4

(* The sum of the samples after one of them changed.                       *)
LEMMA SampleSum ==
  ASSUME TypeOK, NEW c \in CPUs, NEW v \in Int,
         sample' = [sample EXCEPT ![c] = v]
  PROVE  /\ SumOf(sample) \in Int /\ sample[c] \in Int
         /\ SumOf(sample)' = SumOf(sample) - sample[c] + v
<1>1. sample \in [CPUs -> Int] /\ sample[c] \in Int /\ c \in CPUs
  BY DEF TypeOK
<1>2. SumOf(sample) \in Int
  BY <1>1, Consts, SumType
<1>3. /\ sample' \in [CPUs -> Int] /\ sample'[c] = v
      /\ \A x \in CPUs \ {c} : sample'[x] = sample[x]
  BY <1>1
<1>4. SumOf(sample') = SumOf(sample) - sample[c] + v
  BY ONLY <1>1, <1>3, Consts, SumPut
<1>5. SumOf(sample)' = SumOf(sample')
  BY DEF SumOf
<1> QED BY <1>1, <1>2, <1>4, <1>5

(* Nothing that the samples depend on changes.                             *)
LEMMA SampleSame ==
  ASSUME SampleInv,
         UNCHANGED <<calc_load_active, rq_update, idle, online, calc_load_idle,
                     calc_load_idx, flip, jiffies, ghosts>>
  PROVE  SampleInv'
BY DEF SampleInv, DueInv, OfflineSample, ClosedInv, SleptInv, KeptInv, Kept,
       ReportedInv, SkippedInv, Busy, ghosts, SumOf

(* A CPU's own sample.                                                     *)
LEMMA SampleAccount ==
  ASSUME TypeOK, SampleInv, NEW c \in CPUs, calc_load_account_active(c)
  PROVE  SampleInv'
<1> DEFINE v == nr_active(c)
<1>1. /\ c \in Busy /\ jiffies >= rq_update[c]
      /\ calc_load_active' = [calc_load_active EXCEPT ![c] = v]
      /\ calc_load_fold_active(c)
      /\ rq_update' = [rq_update EXCEPT ![c] = rq_update[c] + LOAD_FREQ]
      /\ sample' = [sample EXCEPT ![c] = v]
      /\ UNCHANGED <<idle, online, calc_load_idx, flip, jiffies, calc_load_idle, raced, slept>>
  BY DEF calc_load_account_active, calc_load_fold_active, Busy
<1>2. /\ v \in Int /\ v = calc_load_active[c] + fold_delta(c)
      /\ calc_load_active \in [CPUs -> Int] /\ rq_update \in [CPUs -> Int] /\ sample \in [CPUs -> Int]
      /\ jiffies \in Int /\ LOAD_FREQ \in Nat /\ online \subseteq CPUs
  BY Consts DEF TypeOK, nr_active, fold_delta
<1> HIDE DEF v
<1>3. Busy' = Busy /\ Busy \subseteq CPUs /\ c \in online
  BY <1>1, <1>2 DEF Busy
<1>4. DueInv'
  <2>1. rq_update[c] \in Int /\ Due(rq_update[c])
    BY <1>2 DEF SampleInv, DueInv
  <2>2. Due(rq_update[c] + LOAD_FREQ)
    BY <2>1, DueShift
  <2>3. \A x \in CPUs : rq_update'[x] = IF x = c THEN rq_update[c] + LOAD_FREQ ELSE rq_update[x]
    BY <1>1, <1>2
  <2>4. \A x \in CPUs : Due(rq_update'[x])
    BY <2>2, <2>3 DEF SampleInv, DueInv
  <2> QED BY <2>4 DEF DueInv, Due
<1>5. OfflineSample'
  BY <1>1, <1>2, <1>3 DEF SampleInv, OfflineSample
<1>6. ClosedInv'
  BY <1>1, <1>2 DEF SampleInv, ClosedInv
<1>7. SleptInv'
  BY <1>1 DEF SampleInv, SleptInv
<1>8. KeptInv'
  <2> SUFFICES ASSUME ~raced
               PROVE  calc_load_idle[Kept] = SumOf(calc_load_active)' - SumOf(sample)'
    BY <1>1 DEF KeptInv, Kept
  <2>1. sample[c] = calc_load_active[c]
    BY <1>1, <1>2 DEF SampleInv, ReportedInv
  <2>2. calc_load_idle[Kept] = SumOf(calc_load_active) - SumOf(sample)
    BY DEF SampleInv, KeptInv
  <2>3. /\ SumOf(calc_load_active)' = SumOf(calc_load_active) + fold_delta(c)
        /\ SumOf(calc_load_active) \in Int /\ fold_delta(c) \in Int
    BY <1>1, FoldSum
  <2>4. SumOf(sample)' = SumOf(sample) - sample[c] + v /\ SumOf(sample) \in Int /\ sample[c] \in Int
    BY <1>1, <1>2, SampleSum
  <2> QED BY <1>2, <2>1, <2>2, <2>3, <2>4
<1>9. ReportedInv'
  <2>1. \A x \in Busy \ {c} : /\ sample'[x] = sample[x] /\ calc_load_active'[x] = calc_load_active[x]
                              /\ rq_update'[x] = rq_update[x]
    BY <1>1, <1>2, <1>3
  <2>2. sample'[c] = calc_load_active'[c]
    BY <1>1, <1>2
  <2> QED BY <1>1, <1>3, <2>1, <2>2 DEF SampleInv, ReportedInv
<1>10. SkippedInv'
  <2>1. \A x \in Busy : rq_update'[x] >= rq_update[x] /\ rq_update[x] \in Int /\ rq_update'[x] \in Int
    BY <1>1, <1>2, <1>3
  <2>2. jiffies' = jiffies /\ slept' = slept
    BY <1>1
  <2> QED BY <1>2, <1>3, <2>1, <2>2 DEF SampleInv, SkippedInv
<1> QED BY <1>4, <1>5, <1>6, <1>7, <1>8, <1>9, <1>10 DEF SampleInv

(* A CPU that goes idle: the index it writes to is the one kept exactly    *)
(* when the window is open.                                                *)
LEMMA SampleEnter ==
  ASSUME TypeOK, SampleInv, NEW c \in CPUs, calc_load_enter_idle(c)
  PROVE  SampleInv'
<1> DEFINE v == nr_active(c)
           d == fold_delta(c)
           w == calc_load_write_idx
<1>1. /\ c \in Busy
      /\ calc_load_active' = [calc_load_active EXCEPT ![c] = v]
      /\ calc_load_fold_active(c)
      /\ calc_load_idle' = [calc_load_idle EXCEPT ![w] = calc_load_idle[w] + d]
      /\ idle' = idle \cup {c}
      /\ sample' = IF jiffies >= 0 THEN sample ELSE [sample EXCEPT ![c] = v]
      /\ ~raced' => ~raced /\ (flip => d = 0)
      /\ UNCHANGED <<rq_update, online, calc_load_idx, flip, jiffies, slept>>
  BY DEF calc_load_enter_idle, calc_load_fold_active, Busy, global, window_open
<1>2. /\ v \in Int /\ d \in Int /\ v = calc_load_active[c] + d
      /\ calc_load_active \in [CPUs -> Int] /\ sample \in [CPUs -> Int]
      /\ calc_load_idle \in [0 .. 1 -> Int] /\ calc_load_idx \in 0 .. 1
      /\ jiffies \in Int /\ online \subseteq CPUs
  BY DEF TypeOK, nr_active, fold_delta
<1>3. w = IF jiffies >= 0 THEN 1 - calc_load_idx ELSE calc_load_idx
  BY DEF calc_load_write_idx, window_open
<1>4. SumOf(calc_load_active)' = SumOf(calc_load_active) + d /\ SumOf(calc_load_active) \in Int
  BY <1>1, FoldSum
<1> HIDE DEF v, d, w
<1>5. Busy' = Busy \ {c} /\ c \in online
  BY <1>1 DEF Busy
<1>6. DueInv'
  BY <1>1 DEF SampleInv, DueInv, Due
<1>7. OfflineSample'
  BY <1>1, <1>2, <1>5 DEF SampleInv, OfflineSample
<1>8. ClosedInv'
  BY <1>1, <1>2 DEF SampleInv, ClosedInv
<1>9. SleptInv'
  BY <1>1 DEF SampleInv, SleptInv
<1>10. KeptInv'
  <2> SUFFICES ASSUME ~raced, flip => d = 0
               PROVE  calc_load_idle'[Kept] = SumOf(calc_load_active)' - SumOf(sample)'
    <3>1. Kept' = Kept
      BY <1>1 DEF Kept
    <3> QED BY <1>1, <3>1 DEF KeptInv
  <2>1. calc_load_idle[Kept] = SumOf(calc_load_active) - SumOf(sample)
    BY DEF SampleInv, KeptInv
  <2>2. SumOf(sample) \in Int
    BY <1>2, Consts, SumType
  <2>3. Kept \in 0 .. 1 /\ w \in 0 .. 1 /\ calc_load_idle[Kept] \in Int
    BY <1>2, <1>3 DEF Kept
  <2>4. calc_load_idle'[Kept] = IF w = Kept THEN calc_load_idle[Kept] + d ELSE calc_load_idle[Kept]
    BY <1>1, <1>2, <2>3
  <2>5. CASE jiffies >= 0
    <3>1. SumOf(sample)' = SumOf(sample)
      BY <1>1, <2>5 DEF SumOf
    <3>2. w = Kept \/ d = 0
      BY <1>3, <2>5 DEF Kept
    <3> QED BY <1>2, <1>4, <2>1, <2>2, <2>3, <2>4, <3>1, <3>2
  <2>6. CASE ~(jiffies >= 0)
    <3>1. sample[c] = calc_load_active[c]
      BY <1>2, <2>6 DEF SampleInv, ClosedInv
    <3>2. SumOf(sample)' = SumOf(sample) - sample[c] + v /\ sample[c] \in Int
      BY <1>1, <1>2, <2>6, SampleSum
    <3>3. w # Kept \/ d = 0
      BY <1>2, <1>3, <2>6 DEF Kept
    <3> QED BY <1>2, <1>4, <2>1, <2>2, <2>3, <2>4, <3>1, <3>2, <3>3
  <2> QED BY <2>5, <2>6
<1>11. ReportedInv'
  <2>1. \A x \in Busy' : /\ x \in Busy /\ sample'[x] = sample[x]
                         /\ calc_load_active'[x] = calc_load_active[x]
    BY <1>1, <1>2, <1>5 DEF Busy
  <2> QED BY <1>1, <2>1 DEF SampleInv, ReportedInv
<1>12. SkippedInv'
  BY <1>1, <1>5 DEF SampleInv, SkippedInv
<1> QED BY <1>6, <1>7, <1>8, <1>9, <1>10, <1>11, <1>12 DEF SampleInv

(* A CPU that wakes skips the window in which it is known to be busy.      *)
LEMMA SampleExit ==
  ASSUME TypeOK, SampleInv, NEW c \in CPUs, calc_load_exit_idle(c)
  PROVE  SampleInv'
<1> DEFINE u == exit_idle_update(c)
<1>1. /\ c \in idle /\ idle' = idle \ {c}
      /\ rq_update' = [rq_update EXCEPT ![c] = u]
      /\ ~raced' => ~raced /\ ~(jiffies >= WINDOW)
      /\ UNCHANGED <<calc_load_active, online, calc_load_idx, flip, jiffies,
                     calc_load_idle, sample, slept>>
  BY DEF calc_load_exit_idle, global
<1>2. /\ rq_update \in [CPUs -> Int] /\ jiffies \in Int /\ online \subseteq CPUs
      /\ WINDOW \in Nat /\ LOAD_FREQ \in Nat /\ LOAD_FREQ > WINDOW
      /\ rq_update[c] \in Int
  BY Consts DEF TypeOK
<1>3. u = IF jiffies < rq_update[c] THEN rq_update[c]
          ELSE IF jiffies < WINDOW THEN LOAD_FREQ ELSE 0
  BY DEF exit_idle_update
<1> HIDE DEF u
<1>4. /\ Busy' \subseteq Busy \cup {c}
      /\ rq_update'[c] = u
      /\ \A x \in CPUs \ {c} : rq_update'[x] = rq_update[x]
      /\ Busy' \subseteq CPUs
  BY <1>1, <1>2 DEF Busy
<1>5. DueInv'
  <2>1. Due(u)
    BY <1>3, DueZero DEF SampleInv, DueInv
  <2>2. \A x \in CPUs : Due(rq_update'[x])
    BY <1>4, <2>1 DEF SampleInv, DueInv
  <2> QED BY <2>2 DEF DueInv, Due
<1>6. OfflineSample' /\ ClosedInv' /\ SleptInv'
  BY <1>1 DEF SampleInv, OfflineSample, ClosedInv, SleptInv
<1>7. KeptInv'
  BY <1>1 DEF SampleInv, KeptInv, Kept, SumOf
<1>8. ReportedInv'
  <2>1. jiffies < WINDOW => jiffies < u
    BY <1>2, <1>3
  <2>2. ~raced' => ~raced /\ jiffies < WINDOW
    BY <1>1, <1>2
  <2> QED BY <1>1, <1>4, <2>1, <2>2 DEF SampleInv, ReportedInv
<1>9. SkippedInv'
  <2>1. ASSUME jiffies < WINDOW, c \in slept PROVE u >= LOAD_FREQ
    <3>1. jiffies >= 0
      BY <1>2, <2>1 DEF SampleInv, ClosedInv
    <3>2. jiffies < rq_update[c] => rq_update[c] >= LOAD_FREQ
      BY <1>2, <3>1, DueAfter DEF SampleInv, DueInv
    <3> QED BY <1>2, <1>3, <2>1, <3>2
  <2>2. ASSUME jiffies < WINDOW, NEW x \in (Busy' \cap slept) PROVE rq_update'[x] >= LOAD_FREQ
    <3>1. CASE x = c
      BY <1>4, <2>1, <2>2, <3>1
    <3>2. CASE x # c
      BY <1>4, <2>2, <3>2 DEF SampleInv, SkippedInv
    <3> QED BY <3>1, <3>2
  <2> QED BY <1>1, <2>2 DEF SkippedInv
<1> QED BY <1>5, <1>6, <1>7, <1>8, <1>9 DEF SampleInv

(* Time passes: a window is shorter than a period, so a sample that was    *)
(* taken for it is not due again before its average.                       *)
LEMMA SampleTimer ==
  ASSUME TypeOK, SampleInv, NEW n \in Jumps, DoTimer(n)
  PROVE  SampleInv'
<1>1. /\ jiffies < WINDOW
      /\ n = 1 \/ Busy = {}
      /\ jiffies' = jiffies + n
      /\ slept' = IF jiffies < 0 /\ jiffies' >= 0 THEN idle ELSE slept
      /\ UNCHANGED <<calc_load_active, rq_update, idle, online, calc_load_idx,
                     flip, calc_load_idle, sample, raced>>
  BY DEF DoTimer, Busy
<1>2. /\ rq_update \in [CPUs -> Int] /\ jiffies \in Int /\ n \in Nat /\ n > 0
      /\ WINDOW \in Nat /\ LOAD_FREQ \in Nat /\ LOAD_FREQ > WINDOW
      /\ idle \subseteq online /\ online \subseteq CPUs
  BY Consts, LoadAssumption DEF TypeOK
<1>3. Busy' = Busy /\ Busy \subseteq CPUs
  BY <1>1, <1>2 DEF Busy
<1>4. DueInv' /\ OfflineSample'
  BY <1>1 DEF SampleInv, DueInv, OfflineSample, Due
<1>5. ClosedInv'
  BY <1>1, <1>2 DEF SampleInv, ClosedInv
<1>6. SleptInv'
  BY <1>1, <1>2 DEF SampleInv, SleptInv
<1>7. KeptInv'
  BY <1>1 DEF SampleInv, KeptInv, Kept, SumOf
<1>8. ReportedInv'
  <2> SUFFICES ASSUME ~raced, NEW c \in Busy, sample[c] # calc_load_active[c]
               PROVE  jiffies + n < rq_update[c]
    BY <1>1, <1>3 DEF ReportedInv
  <2>1. jiffies >= 0
    BY <1>2 DEF SampleInv, ClosedInv
  <2>2. jiffies < rq_update[c] /\ rq_update[c] \in Int /\ Due(rq_update[c])
    BY <1>2, <1>3 DEF SampleInv, ReportedInv, DueInv
  <2>3. rq_update[c] >= LOAD_FREQ
    BY <1>2, <2>1, <2>2, DueAfter
  <2> QED BY <1>1, <1>2, <2>2, <2>3
<1>9. SkippedInv'
  <2>1. CASE jiffies < 0 /\ jiffies' >= 0
    <3>1. Busy \cap slept' = {}
      BY <1>1, <2>1 DEF Busy
    <3> QED BY <1>3, <3>1 DEF SkippedInv
  <2>2. CASE ~(jiffies < 0 /\ jiffies' >= 0)
    BY <1>1, <1>3, <2>2 DEF SampleInv, SkippedInv
  <2> QED BY <2>1, <2>2
<1> QED BY <1>4, <1>5, <1>6, <1>7, <1>8, <1>9 DEF SampleInv

(* An average is taken: the next one starts from what the CPUs reported.   *)
LEMMA SampleAverage ==
  ASSUME TypeOK, OfflineCounts, SampleInv, calc_global_load
  PROVE  SampleInv'
<1> DEFINE n == 1 + missed
           i == calc_load_idx
<1>1. /\ jiffies >= WINDOW /\ ~flip /\ flip'
      /\ calc_load_idle' = [calc_load_idle EXCEPT ![i] = 0]
      /\ jiffies' = jiffies - n * LOAD_FREQ
      /\ rq_update' = [c \in CPUs |-> moved(rq_update[c] - n * LOAD_FREQ, c)]
      /\ sample' = calc_load_active
      /\ slept' = IF jiffies' >= 0 THEN idle ELSE {}
      /\ UNCHANGED <<calc_load_active, idle, online, calc_load_idx>>
  BY DEF calc_global_load, fold_idle, calc_load_read_idx
<1>2. /\ rq_update \in [CPUs -> Int] /\ jiffies \in Int /\ LOAD_FREQ \in Nat
      /\ idle \subseteq online /\ online \subseteq CPUs
      /\ calc_load_active \in [CPUs -> Int]
      /\ calc_load_idle \in [0 .. 1 -> Int] /\ i \in 0 .. 1
  BY Consts DEF TypeOK
<1>3. n \in Int
  BY <1>1, <1>2, Missed
<1> HIDE DEF n, i
<1>4. n * LOAD_FREQ \in Int /\ jiffies' \in Int /\ -LOAD_FREQ \in Int
  BY <1>1, <1>2, <1>3
<1>5. DueInv'
  <2>1. ASSUME NEW c \in CPUs PROVE Due(moved(rq_update[c] - n * LOAD_FREQ, c))
    <3> DEFINE t == rq_update[c] - n * LOAD_FREQ
    <3>1. t \in Int /\ Due(t)
      <4>1. rq_update[c] \in Int /\ Due(rq_update[c])
        BY <1>2 DEF SampleInv, DueInv
      <4> QED BY <1>3, <1>4, <4>1, DueShift
    <3> HIDE DEF t
    <3>2. Max({t, -LOAD_FREQ}) \in {t, -LOAD_FREQ}
      BY <1>4, <3>1, MinMax
    <3>3. Due(moved(t, c))
      BY <3>1, <3>2, DueZero DEF moved
    <3> QED BY <3>3 DEF t
  <2>2. \A c \in CPUs : Due(rq_update'[c])
    BY <1>1, <2>1
  <2> QED BY <2>2 DEF DueInv, Due
<1>6. OfflineSample'
  BY <1>1 DEF OfflineSample, OfflineCounts
<1>7. ClosedInv'
  BY <1>1, <1>4 DEF ClosedInv
<1>8. SleptInv'
  BY <1>1, <1>2 DEF SleptInv
<1>9. KeptInv'
  <2>1. Kept' = i /\ calc_load_idle'[i] = 0
    BY <1>1, <1>2 DEF Kept, i
  <2>2. SumOf(calc_load_active)' = SumOf(sample)' /\ SumOf(calc_load_active)' \in Int
    BY <1>1, <1>2, Consts, SumType DEF SumOf
  <2> QED BY <2>1, <2>2 DEF KeptInv
<1>10. ReportedInv'
  BY <1>1 DEF ReportedInv
<1>11. SkippedInv'
  <2>1. (Busy \cap slept)' = {}
    BY <1>1 DEF Busy
  <2> QED BY <2>1 DEF SkippedInv
<1> QED BY <1>5, <1>6, <1>7, <1>8, <1>9, <1>10, <1>11 DEF SampleInv

(* The index is flipped after the window has moved: the same delta is kept.*)
LEMMA SampleFlip ==
  ASSUME TypeOK, SampleInv, flip_idx
  PROVE  SampleInv'
<1>1. /\ flip /\ ~flip' /\ calc_load_idx' = 1 - calc_load_idx
      /\ UNCHANGED <<calc_load_active, rq_update, idle, online, jiffies,
                     calc_load_idle, sample, raced, slept>>
  BY DEF flip_idx, ghosts
<1>2. Kept' = Kept
  BY <1>1 DEF Kept, TypeOK
<1>3. KeptInv'
  BY <1>1, <1>2 DEF SampleInv, KeptInv, SumOf
<1> QED BY <1>1, <1>3 DEF SampleInv, DueInv, OfflineSample, ClosedInv, SleptInv,
                          ReportedInv, SkippedInv, Busy

(* A CPU goes down and takes its sample along.                             *)
LEMMA SampleDying ==
  ASSUME TypeOK, SampleInv, NEW c \in CPUs, NEW dest \in CPUs, CpuDying(c, dest)
  PROVE  SampleInv'
<1>1. /\ c \in online /\ online' = online \ {c}
      /\ calc_load_active' = [calc_load_active EXCEPT ![c] = 0]
      /\ sample' = [sample EXCEPT ![c] = 0]
      /\ ~raced' => ~raced /\ sample[c] = calc_load_active[c]
      /\ slept' = slept \ {c}
      /\ UNCHANGED <<rq_update, idle, calc_load_idx, flip, jiffies, calc_load_idle>>
  BY DEF CpuDying
<1>2. /\ calc_load_active \in [CPUs -> Int] /\ sample \in [CPUs -> Int]
      /\ online \subseteq CPUs /\ c \in CPUs /\ calc_load_active[c] \in Int
  BY DEF TypeOK
<1>3. /\ sample'[c] = 0 /\ calc_load_active'[c] = 0
      /\ \A x \in CPUs \ {c} : sample'[x] = sample[x] /\ calc_load_active'[x] = calc_load_active[x]
      /\ calc_load_active' \in [CPUs -> Int]
  BY <1>1, <1>2
<1>4. Busy' = Busy \ {c} /\ Busy \subseteq CPUs
  BY <1>1, <1>2 DEF Busy
<1>5. DueInv'
  BY <1>1 DEF SampleInv, DueInv, Due
<1>6. OfflineSample'
  BY <1>1, <1>3 DEF SampleInv, OfflineSample
<1>7. ClosedInv'
  BY <1>1, <1>2 DEF SampleInv, ClosedInv
<1>8. SleptInv'
  BY <1>1 DEF SampleInv, SleptInv
<1>9. KeptInv'
  <2> SUFFICES ASSUME ~raced'
               PROVE  calc_load_idle[Kept] = SumOf(calc_load_active)' - SumOf(sample)'
    BY <1>1 DEF KeptInv, Kept
  <2> DEFINE z == 0
  <2>1. z \in Int /\ sample' = [sample EXCEPT ![c] = z]
    BY <1>1
  <2> HIDE DEF z
  <2>2. SumOf(sample)' = SumOf(sample) - sample[c] + z /\ SumOf(sample) \in Int /\ sample[c] \in Int
    BY <2>1, SampleSum
  <2>3. SumOf(calc_load_active') = SumOf(calc_load_active) - calc_load_active[c] + calc_load_active'[c]
    BY ONLY <1>2, <1>3, Consts, SumPut
  <2>4. SumOf(calc_load_active) \in Int
    BY <1>2, Consts, SumType
  <2>5. SumOf(calc_load_active)' = SumOf(calc_load_active')
    BY DEF SumOf
  <2>6. calc_load_idle[Kept] = SumOf(calc_load_active) - SumOf(sample)
    BY <1>1 DEF SampleInv, KeptInv
  <2> QED BY <1>1, <1>2, <1>3, <2>2, <2>3, <2>4, <2>5, <2>6 DEF z
<1>10. ReportedInv'
  BY <1>1, <1>3, <1>4 DEF SampleInv, ReportedInv
<1>11. SkippedInv'
  BY <1>1, <1>4 DEF SampleInv, SkippedInv
<1> QED BY <1>5, <1>6, <1>7, <1>8, <1>9, <1>10, <1>11 DEF SampleInv

(* A CPU that comes up has nothing reported and did not sleep.             *)
LEMMA SampleUp ==
  ASSUME TypeOK, OfflineCounts, SampleInv, NEW c \in CPUs, CpuUpPrepare(c)
  PROVE  SampleInv'
<1>1. /\ c \notin online /\ online' = online \cup {c} /\ c \in CPUs
      /\ rq_update' = [rq_update EXCEPT ![c] = 0]
      /\ UNCHANGED <<calc_load_active, idle, calc_load_idx, flip, jiffies,
                     calc_load_idle, sample, raced, slept>>
  BY DEF CpuUpPrepare, global, ghosts
<1>2. rq_update \in [CPUs -> Int] /\ online \subseteq CPUs
  BY DEF TypeOK
<1>3. /\ rq_update'[c] = 0 /\ \A x \in CPUs \ {c} : rq_update'[x] = rq_update[x]
      /\ Busy' \subseteq Busy \cup {c} /\ Busy \subseteq CPUs /\ c \notin Busy
  BY <1>1, <1>2 DEF Busy
<1>4. sample[c] = calc_load_active[c] /\ c \notin slept
  BY <1>1 DEF SampleInv, OfflineSample, OfflineCounts, SleptInv
<1>5. DueInv'
  <2>1. \A x \in CPUs : Due(rq_update'[x])
    BY <1>3, DueZero DEF SampleInv, DueInv
  <2> QED BY <2>1 DEF DueInv, Due
<1>6. OfflineSample' /\ ClosedInv' /\ SleptInv'
  BY <1>1 DEF SampleInv, OfflineSample, ClosedInv, SleptInv
<1>7. KeptInv'
  BY <1>1 DEF SampleInv, KeptInv, Kept, SumOf
<1>8. ReportedInv'
  BY <1>1, <1>3, <1>4 DEF SampleInv, ReportedInv
<1>9. SkippedInv'
  BY <1>1, <1>3, <1>4 DEF SampleInv, SkippedInv
<1> QED BY <1>5, <1>6, <1>7, <1>8, <1>9 DEF SampleInv

(* At the start nothing is reported.                                       *)
LEMMA SampleInit == Init => SampleInv
<1> SUFFICES ASSUME Init PROVE SampleInv
  OBVIOUS
<1>1. /\ sample = calc_load_active /\ slept = {} /\ online = CPUs /\ ~flip /\ calc_load_idx = 0
      /\ \A c \in CPUs : rq_update[c] = 0
      /\ calc_load_idle[1] = 0
  BY DEF Init
<1>2. KeptInv
  <2>1. Kept = 1
    BY <1>1 DEF Kept
  <2>2. SumOf(calc_load_active) = SumOf(sample) /\ SumOf(sample) \in Int
    <3>1. sample \in [CPUs -> Int]
      BY DEF Init
    <3> QED BY <1>1, <3>1, Consts, SumType
  <2> QED BY <1>1, <2>1, <2>2 DEF KeptInv
<1>3. DueInv
  BY <1>1, DueZero DEF DueInv
<1> QED BY <1>1, <1>2, <1>3 DEF SampleInv, OfflineSample, ClosedInv, SleptInv,
                                ReportedInv, SkippedInv

(* The invariant of the samples is inductive.                              *)
LEMMA SampleStep == LoadInv /\ SampleInv /\ [Next]_vars => SampleInv'
<1> SUFFICES ASSUME LoadInv, SampleInv, [Next]_vars PROVE SampleInv'
  OBVIOUS
<1>0. TypeOK /\ OfflineCounts
  BY DEF LoadInv
<1>1. CASE UNCHANGED vars
  BY <1>1, SampleSame DEF vars, global
<1>2. ASSUME NEW c \in CPUs, Tasks(c) PROVE SampleInv'
  BY <1>2, SampleSame DEF Tasks, global
<1> QED BY <1>0, <1>1, <1>2, SampleAccount, SampleEnter, SampleExit, SampleTimer,
           SampleAverage, SampleFlip, SampleDying, SampleUp DEF Next

(* Both invariants hold always.                                            *)
LEMMA SampleHolds == Spec => [](LoadInv /\ SampleInv)
<1> QED BY LoadInit, LoadStep, SampleInit, SampleStep, PTL DEF Spec

(* An average takes what each CPU reported last before the window opened,  *)
(* or in it by its own tick: the flipped index keeps a CPU that goes idle  *)
(* in the window from negating its sample.                                 *)
THEOREM Exact == Spec => SampleExact
<1> DEFINE P == calc_global_load /\ ~raced => calc_load_tasks' = SumOf(sample)
<1>1. ASSUME LoadInv, SampleInv PROVE P
  <2> SUFFICES ASSUME calc_global_load, ~raced
               PROVE  calc_load_tasks' = SumOf(sample)
    OBVIOUS
  <2>1. ~flip /\ calc_load_tasks' = calc_load_tasks + calc_load_idle[calc_load_idx]
    BY DEF calc_global_load, fold_idle, calc_load_read_idx
  <2>2. calc_load_tasks \in Int /\ calc_load_idx \in 0 .. 1 /\ calc_load_idle \in [0 .. 1 -> Int]
        /\ calc_load_active \in [CPUs -> Int] /\ sample \in [CPUs -> Int]
    BY <1>1 DEF LoadInv, TypeOK
  <2>3. SumOf(calc_load_idle) = calc_load_idle[0] + calc_load_idle[1]
    BY <2>2, PairSum
  <2>4. calc_load_tasks + SumOf(calc_load_idle) = SumOf(calc_load_active)
    BY <1>1 DEF LoadInv, LoadConserved
  <2>5. calc_load_idle[1 - calc_load_idx] = SumOf(calc_load_active) - SumOf(sample)
    BY <1>1, <2>1 DEF SampleInv, KeptInv, Kept
  <2>6. SumOf(calc_load_active) \in Int /\ SumOf(sample) \in Int
    BY <2>2, Consts, SumType
  <2>7. calc_load_idx = 0 \/ calc_load_idx = 1
    BY <2>2
  <2>8. calc_load_idle[0] \in Int /\ calc_load_idle[1] \in Int
    BY <2>2
  <2>9. CASE calc_load_idx = 0
    <3>1. calc_load_idle[1] = SumOf(calc_load_active) - SumOf(sample)
      BY <2>5, <2>9
    <3> QED BY <2>1, <2>2, <2>3, <2>4, <2>6, <2>8, <2>9, <3>1
  <2>10. CASE calc_load_idx = 1
    <3>1. calc_load_idle[0] = SumOf(calc_load_active) - SumOf(sample)
      BY <2>5, <2>10
    <3> QED BY <2>1, <2>2, <2>3, <2>4, <2>6, <2>8, <2>10, <3>1
  <2> QED BY <2>7, <2>9, <2>10
<1>2. LoadInv /\ SampleInv => [P]_vars
  BY <1>1
<1> QED BY <1>2, SampleHolds, PTL DEF SampleExact

(* A CPU that slept when the window opened is not sampled in it by its     *)
(* tick, though calc_load_exit_idle may run at any moment of the window.   *)
THEOREM NotResampled == Spec => NoResample
<1> DEFINE P == \A c \in CPUs :
       calc_load_account_active(c) /\ jiffies \in 0 .. WINDOW - 1 => c \notin slept
<1>1. ASSUME LoadInv, SampleInv PROVE P
  <2> SUFFICES ASSUME NEW c \in CPUs, calc_load_account_active(c),
                      jiffies \in 0 .. WINDOW - 1, c \in slept
               PROVE  FALSE
    OBVIOUS
  <2>1. c \in Busy /\ jiffies >= rq_update[c]
    BY DEF calc_load_account_active, Busy
  <2>2. /\ jiffies \in Int /\ rq_update[c] \in Int /\ WINDOW \in Nat /\ LOAD_FREQ \in Nat
        /\ LOAD_FREQ > WINDOW /\ jiffies < WINDOW
    BY <1>1, Consts DEF LoadInv, TypeOK
  <2>3. rq_update[c] >= LOAD_FREQ
    BY <1>1, <2>1, <2>2 DEF SampleInv, SkippedInv
  <2> QED BY <2>1, <2>2, <2>3
<1>2. LoadInv /\ SampleInv => [P]_vars
  BY <1>1
<1> QED BY <1>2, SampleHolds, PTL DEF NoResample

=============================================================================
