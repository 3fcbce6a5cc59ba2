------------------------ MODULE GroupBandwidthProofs ------------------------
(***************************************************************************)
(* The bandwidth of groups holds for any tree of groups, any number of     *)
(* writers and any settings: the children of a group never have more than  *)
(* the group, no group more than the global limit, and no fair group more  *)
(* than any group above it.                                                *)
(***************************************************************************)
EXTENDS GroupBandwidth, DataProofs

(* The inductive invariant: what the refusals of a new limit leave behind, *)
(* and what the checks of quotas rest on.                                  *)
Below(limit) == \A g \in groups : to_ratio(rt_bandwidth[g]) <= to_ratio(limit)

LimitHolds ==
  /\ old = None /\ ~loose => Below(sysctl)
  /\ old # None /\ ~loose /\ ~accepted => Below(old)

RootUnlimited ==
  /\ cfs_bandwidth[Root].runtime = RUNTIME_INF
  /\ \A w \in Writers :
       request[w] # None /\ request[w].kind = "cfs" => request[w].group # Root

-----------------------------------------------------------------------------
(* No limit is a runtime, and not the smallest.                            *)
LEMMA InfNat == RUNTIME_INF \in Nat \ {0}
BY SMT DEF RUNTIME_INF

(* The ratio of a setting is a number, and that of no runtime is 0.        *)
LEMMA RatioNat ==
  ASSUME NEW s \in Settings
  PROVE  to_ratio(s) \in Nat
<1>1. s.runtime \in Nat /\ s.period \in Nat \ {0} /\ SCALE \in Nat
  BY GroupAssumption DEF Settings
<1>2. s.runtime * SCALE \in Nat
  BY <1>1
<1>3. \A a \in Nat, b \in Nat \ {0} : a \div b \in Nat
  OBVIOUS
<1> QED BY <1>1, <1>2, <1>3 DEF to_ratio

(* A setting without runtime is one, and its ratio is 0: what a new group  *)
(* has.                                                                    *)
LEMMA RatioZero ==
  ASSUME NEW p \in Nat \ {0}
  PROVE  Setting(0, p) \in Settings /\ to_ratio(Setting(0, p)) = 0
<1>1. SCALE \in Nat
  BY GroupAssumption
<1>2. 0 * SCALE = 0 /\ 0 \div p = 0
  BY <1>1
<1> QED BY <1>2, InfNat DEF to_ratio, Setting, Settings

-----------------------------------------------------------------------------
(* Types.                                                                  *)
LEMMA TypeInit == Init => TypeOK
<1>1. /\ PERIOD \in Nat \ {0} /\ RUNTIME \in Nat /\ MaxWrites \in Nat
      /\ Setting(RUNTIME, PERIOD) \in Settings /\ Setting(0, PERIOD) \in Settings
      /\ NewCfs \in Settings /\ Setting(RUNTIME, PERIOD) \in GlobalSettings
  BY GroupAssumption, InfNat DEF NewCfs, Setting, Settings, GlobalSettings
<1> SUFFICES ASSUME Init PROVE TypeOK
  OBVIOUS
<1>2. accepted \in BOOLEAN /\ loose \in BOOLEAN
  BY Zenon DEF Init
<1>3. request \in [Writers -> {None} \cup
         [kind : {"rt", "cfs"}, group : groups, setting : Settings]]
  BY Zenon DEF Init
<1>4. rt_bandwidth \in [AllGroups -> Settings] /\ cfs_bandwidth \in [AllGroups -> Settings]
  BY <1>1 DEF Init
<1> QED BY <1>1, <1>2, <1>3, <1>4 DEF Init, TypeOK, AllGroups

(* Every write keeps the types.                                            *)
LEMMA TypeStep == TypeOK /\ [Next]_vars => TypeOK'
<1> SUFFICES ASSUME TypeOK, [Next]_vars PROVE TypeOK'
  OBVIOUS
<1> USE GroupAssumption, InfNat
<1>0. \A r \in Nat, p \in Nat \ {0} : Setting(r, p) \in Settings
  BY DEF Setting, Settings
<1>1. ASSUME NEW g \in Groups, sched_create_group(g) PROVE TypeOK'
  <2>1. NewRt \in Settings /\ NewCfs \in Settings
    BY <1>0 DEF NewRt, NewCfs, TypeOK
  <2>2. groups' = groups \cup {g} /\ g # Root /\ Parent[g] \in groups
    BY <1>1 DEF sched_create_group
  <2> QED BY <1>1, <2>1, <2>2 DEF sched_create_group, TypeOK, AllGroups, global
<1>2. ASSUME NEW g \in Groups, sched_destroy_group(g) PROVE TypeOK'
  <2>1. \A k \in groups' \ {Root} : Parent[k] \in groups'
    BY <1>2 DEF sched_destroy_group, TypeOK, children
  <2>2. request' \in [Writers -> {None} \cup
                   [kind : {"rt", "cfs"}, group : groups', setting : Settings]]
    BY <1>2 DEF sched_destroy_group, TypeOK
  <2> QED BY <1>2, <2>1, <2>2 DEF sched_destroy_group, TypeOK, AllGroups, global, settings
<1>3. ASSUME NEW w \in Writers, NEW g, NEW s \in Settings, NEW k \in {"rt", "cfs"},
             Request(w, k, g, s)
      PROVE  TypeOK'
  <2>1. [kind |-> k, group |-> g, setting |-> s] \in
          [kind : {"rt", "cfs"}, group : groups, setting : Settings]
    BY <1>3 DEF Request
  <2>2. request' \in [Writers -> {None} \cup
          [kind : {"rt", "cfs"}, group : groups, setting : Settings]]
    BY <1>3, <2>1 DEF Request, TypeOK
  <2> QED BY <1>3, <2>2 DEF Request, TypeOK, global, settings
<1>4. ASSUME NEW w \in Writers, tg_set_rt_bandwidth(w) PROVE TypeOK'
  <2>1. request[w].group \in AllGroups /\ request[w].setting \in Settings
    BY <1>4 DEF tg_set_rt_bandwidth, TypeOK
  <2>2. rt_bandwidth' \in [AllGroups -> Settings]
    BY <1>4, <2>1 DEF tg_set_rt_bandwidth, TypeOK
  <2>3. accepted' \in BOOLEAN
    <3>1. PICK limit \in global_ratios :
            accepted' = (accepted \/ (old # None /\ __rt_schedulable(
              [rt_bandwidth EXCEPT ![request[w].group] = request[w].setting], limit)))
      BY <1>4 DEF tg_set_rt_bandwidth
    <3> QED BY <3>1, Zenon
  <2> QED BY <1>4, <2>2, <2>3 DEF tg_set_rt_bandwidth, TypeOK, global
<1>5. ASSUME NEW w \in Writers, tg_set_cfs_bandwidth(w) PROVE TypeOK'
  <2>1. request[w].group \in AllGroups /\ request[w].setting \in Settings
    BY <1>5 DEF tg_set_cfs_bandwidth, TypeOK
  <2>2. cfs_bandwidth' \in [AllGroups -> Settings]
    BY <1>5, <2>1 DEF tg_set_cfs_bandwidth, TypeOK
  <2> QED BY <1>5, <2>2 DEF tg_set_cfs_bandwidth, TypeOK, global
<1>6. ASSUME NEW s \in GlobalSettings, sched_rt_handler(s) PROVE TypeOK'
  <2>1. accepted' \in BOOLEAN
    BY <1>6, Zenon DEF sched_rt_handler
  <2>2. writes' \in 0 .. MaxWrites
    BY <1>6 DEF sched_rt_handler, TypeOK
  <2>3. old' \in Settings /\ old' # None /\ sysctl' \in GlobalSettings
    BY <1>6 DEF sched_rt_handler, TypeOK
  <2> QED BY <1>6, <2>1, <2>2, <2>3 DEF sched_rt_handler, TypeOK, settings
<1>7. ASSUME sched_rt_handler_ends PROVE TypeOK'
  <2>1. loose' \in BOOLEAN
    BY <1>7, Zenon DEF sched_rt_handler_ends
  <2>2. sysctl' \in Settings /\ sysctl' \in GlobalSettings
    <3>1. CASE sched_rt_global_constraints
      <4>1. sysctl' = sysctl /\ sysctl.period # 0 /\ sysctl \in GlobalSettings
        BY <1>7, <3>1 DEF sched_rt_handler_ends, sched_rt_global_constraints, TypeOK
      <4> QED BY <4>1 DEF Settings, GlobalSettings
    <3>2. CASE ~sched_rt_global_constraints
      <4>1. sysctl' = old /\ old \in Settings
        BY <1>7, <3>2 DEF sched_rt_handler_ends, TypeOK
      <4> QED BY <4>1 DEF Settings, GlobalSettings
    <3> QED BY <3>1, <3>2
  <2>3. def_period' \in Nat \ {0}
    BY <1>7, <2>2 DEF sched_rt_handler_ends, TypeOK, Settings
  <2> QED BY <1>7, <2>1, <2>2, <2>3 DEF sched_rt_handler_ends, TypeOK, settings
<1>8. CASE UNCHANGED vars
  BY <1>8 DEF vars, TypeOK, settings, global
<1>9. /\ \A g \in AllGroups :
           /\ rt_bandwidth[g].runtime \in Nat /\ rt_bandwidth[g].period \in Nat \ {0}
           /\ cfs_bandwidth[g].runtime \in Nat /\ cfs_bandwidth[g].period \in Nat \ {0}
      /\ sysctl.runtime \in Nat /\ sysctl.period \in Nat
      /\ \A r \in Runtimes : r \in Nat
      /\ \A p \in Periods : p \in Nat \ {0}
  BY DEF TypeOK, Settings, GlobalSettings
<1>10. ASSUME NEW w \in Writers, NEW g \in AllGroups, NEW r \in Runtimes,
              sched_group_set_rt_runtime(w, g, r) \/ tg_set_cfs_quota(w, g, r)
       PROVE  TypeOK'
  BY <1>10, <1>0, <1>9, <1>3 DEF sched_group_set_rt_runtime, tg_set_cfs_quota
<1>11. ASSUME NEW w \in Writers, NEW g \in AllGroups, NEW p \in Periods,
              sched_group_set_rt_period(w, g, p) \/ tg_set_cfs_period(w, g, p)
       PROVE  TypeOK'
  BY <1>11, <1>0, <1>9, <1>3 DEF sched_group_set_rt_period, tg_set_cfs_period
<1>12. ASSUME NEW r \in Runtimes, sched_rt_handler(Setting(r, sysctl.period)) PROVE TypeOK'
  <2>1. Setting(r, sysctl.period) \in GlobalSettings
    BY <1>9 DEF Setting, GlobalSettings
  <2> QED BY <1>12, <2>1, <1>6
<1>13. ASSUME NEW p \in Periods \cup {0}, sched_rt_handler(Setting(sysctl.runtime, p)) PROVE TypeOK'
  <2>1. p \in Nat
    <3>1. CASE p \in Periods
      BY <1>9, <3>1
    <3>2. CASE p = 0
      BY <3>2
    <3> QED BY <3>1, <3>2
  <2>2. Setting(sysctl.runtime, p) \in GlobalSettings
    BY <1>9, <2>1 DEF Setting, GlobalSettings
  <2> QED BY <1>13, <2>2, <1>6
<1> QED BY <1>1, <1>2, <1>4, <1>5, <1>7, <1>8, <1>10, <1>11, <1>12, <1>13 DEF Next

-----------------------------------------------------------------------------
(* The sum of what the groups in C have.                                   *)
Ratios(rt, C) == [k \in C |-> to_ratio(rt[k])]

SumOver(rt, C) == SumFunctionOnSet(Ratios(rt, C), C)

(* It is a number ...                                                      *)
LEMMA SumOverInt ==
  ASSUME NEW C \in SUBSET Groups, NEW rt \in [AllGroups -> Settings]
  PROVE  /\ IsFiniteSet(C) /\ SumOver(rt, C) \in Int
         /\ \A k \in C : Ratios(rt, C)[k] = to_ratio(rt[k]) /\ to_ratio(rt[k]) \in Nat
<1>1. IsFiniteSet(C)
  BY GroupAssumption, FS_Subset
<1>2. \A k \in C : Ratios(rt, C)[k] = to_ratio(rt[k]) /\ to_ratio(rt[k]) \in Nat
  BY RatioNat DEF Ratios, AllGroups
<1>3. \A k \in C : Ratios(rt, C)[k] \in Int
  BY <1>2
<1>4. SumOver(rt, C) \in Int
  BY <1>1, <1>3, SumInt DEF SumOver
<1> QED BY <1>1, <1>2, <1>4

(* ... that depends on the settings of the groups in C only ...            *)
LEMMA SumOverSame ==
  ASSUME NEW C, NEW rt, NEW new, \A k \in C : to_ratio(new[k]) = to_ratio(rt[k])
  PROVE  SumOver(new, C) = SumOver(rt, C)
<1>1. Ratios(new, C) = Ratios(rt, C)
  BY DEF Ratios
<1> QED BY <1>1 DEF SumOver

(* ... and falls by what a group has when the group is taken out.          *)
LEMMA SumOverWithout ==
  ASSUME NEW C \in SUBSET Groups, NEW rt \in [AllGroups -> Settings], NEW g \in C
  PROVE  SumOver(rt, C) = to_ratio(rt[g]) + SumOver(rt, C \ {g})
<1> DEFINE f == Ratios(rt, C)
           D == C \ {g}
<1>1. /\ IsFiniteSet(C)
      /\ \A k \in C : f[k] = to_ratio(rt[k]) /\ f[k] \in Int
  BY SumOverInt
<1>2. /\ D \in SUBSET Groups /\ IsFiniteSet(D)
      /\ \A k \in D : f[k] \in Int /\ Ratios(rt, D)[k] = f[k]
  <2>1. D \in SUBSET Groups /\ D \in SUBSET C
    OBVIOUS
  <2>2. IsFiniteSet(D)
    BY <1>1, <2>1, FS_Subset
  <2> QED BY <1>1, <2>1, <2>2 DEF Ratios
<1>3. SumFunctionOnSet(f, C) = f[g] + SumFunctionOnSet(f, D)
  <2> HIDE DEF f
  <2> QED BY <1>1, SumTake
<1>4. SumFunctionOnSet(Ratios(rt, D), D) = SumFunctionOnSet(f, D)
  <2> HIDE DEF f, D
  <2> QED BY <1>2, SumSame
<1> QED BY <1>1, <1>3, <1>4 DEF SumOver

(* A group's children are groups, and there is a sum for each group.       *)
LEMMA Children ==
  ASSUME TypeOK, NEW g \in AllGroups
  PROVE  /\ children(g) \in SUBSET Groups
         /\ children_sum(rt_bandwidth, g) = SumOver(rt_bandwidth, children(g))
<1>1. children(g) \in SUBSET Groups
  BY DEF TypeOK, children, AllGroups
<1> QED BY <1>1 DEF children_sum, SumOver, Ratios

(* At the start the root has no children to add up.                        *)
LEMMA SumInit == Init => RtSumHolds
<1> SUFFICES ASSUME Init PROVE RtSumHolds
  OBVIOUS
<1>1. groups = {Root} /\ children(Root) = {}
  BY DEF Init, children
<1>2. children_sum(rt_bandwidth, Root) = 0
  BY <1>1, SumEmpty DEF children_sum
<1>3. to_ratio(rt_bandwidth[Root]) \in Nat
  BY TypeInit, RatioNat DEF TypeOK, AllGroups
<1> QED BY <1>1, <1>2, <1>3 DEF RtSumHolds

(* A new group has no runtime and no children: no sum grows.               *)
LEMMA SumCreate ==
  ASSUME TypeOK, RtSumHolds, TypeOK', NEW g \in Groups, sched_create_group(g)
  PROVE  RtSumHolds'
<1> SUFFICES ASSUME NEW k \in groups'
             PROVE  children_sum(rt_bandwidth, k)' <= to_ratio(rt_bandwidth'[k])
  BY DEF RtSumHolds
<1> DEFINE C == children(k)
           new == rt_bandwidth'
<1>1. /\ groups' = groups \cup {g} /\ g \notin groups /\ g # Root
      /\ Parent[g] \in groups /\ k \in AllGroups
      /\ \A j \in groups \ {Root} : Parent[j] \in groups
  BY GroupAssumption DEF sched_create_group, TypeOK
<1>2. /\ to_ratio(new[g]) = 0
      /\ \A j \in AllGroups \ {g} : new[j] = rt_bandwidth[j]
  <2>1. def_period \in Nat \ {0}
    BY DEF TypeOK
  <2>2. new[g] = Setting(0, def_period) /\ \A j \in AllGroups \ {g} : new[j] = rt_bandwidth[j]
    BY DEF sched_create_group, NewRt, TypeOK, AllGroups
  <2> QED BY <2>1, <2>2, RatioZero
<1>3. /\ C \in SUBSET Groups /\ g \notin C
      /\ children(k)' \in SUBSET Groups
      /\ children_sum(rt_bandwidth, k)' = SumOver(new, children(k)')
      /\ children_sum(rt_bandwidth, k) = SumOver(rt_bandwidth, C)
      /\ rt_bandwidth \in [AllGroups -> Settings]
      /\ new \in [AllGroups -> Settings]
  <2>1. (TypeOK' => /\ children(k)' \in SUBSET Groups
                    /\ children_sum(rt_bandwidth, k)' = SumOver(new, children(k)'))
    <3>1. children(k)' \in SUBSET Groups
      BY DEF TypeOK, children, AllGroups
    <3> QED BY <3>1 DEF children_sum, SumOver, Ratios
  <2> QED BY <1>1, <2>1, Children DEF children, TypeOK
<1>4. SumOver(new, C) = SumOver(rt_bandwidth, C)
  <2>1. \A j \in C : to_ratio(new[j]) = to_ratio(rt_bandwidth[j])
    BY <1>2, <1>3 DEF AllGroups
  <2> QED BY <2>1, SumOverSame
<1>5. SumOver(new, children(k)') = SumOver(new, C)
  <2>1. CASE Parent[g] # k
    <3>1. children(k)' = C
      BY <1>1, <2>1 DEF children
    <3> QED BY <3>1
  <2>2. CASE Parent[g] = k
    <3>1. children(k)' = C \cup {g} /\ (C \cup {g}) \ {g} = C
      BY <1>1, <1>3, <2>2 DEF children
    <3>2. SumOver(new, C) \in Int
      BY <1>3, SumOverInt
    <3>3. SumOver(new, children(k)') = to_ratio(new[g]) + SumOver(new, children(k)' \ {g})
      BY <1>3, <3>1, SumOverWithout
    <3>4. children(k)' \ {g} = C
      BY <3>1
    <3>5. SumOver(new, children(k)') = to_ratio(new[g]) + SumOver(new, C)
      BY <3>3, <3>4
    <3> QED BY <1>2, <3>2, <3>5
  <2> QED BY <2>1, <2>2
<1>6. CASE k = g
  <2>1. C = {}
    BY <1>1, <1>6 DEF children
  <2>2. SumOver(rt_bandwidth, C) = 0
    BY <2>1, SumEmpty DEF SumOver
  <2>3. children_sum(rt_bandwidth, k)' = 0
    BY <1>3, <1>4, <1>5, <2>2
  <2>4. to_ratio(rt_bandwidth'[k]) = 0
    BY <1>2, <1>6
  <2> QED BY <2>3, <2>4
<1>7. CASE k # g
  <2>1. k \in groups /\ new[k] = rt_bandwidth[k]
    BY <1>1, <1>2, <1>7
  <2> QED BY <2>1, <1>3, <1>4, <1>5 DEF RtSumHolds
<1> QED BY <1>6, <1>7

(* A group that is destroyed takes its share along: no sum grows.          *)
LEMMA SumDestroy ==
  ASSUME TypeOK, RtSumHolds, TypeOK', NEW g \in Groups, sched_destroy_group(g)
  PROVE  RtSumHolds'
<1> SUFFICES ASSUME NEW k \in groups'
             PROVE  children_sum(rt_bandwidth, k)' <= to_ratio(rt_bandwidth'[k])
  BY DEF RtSumHolds
<1> DEFINE C == children(k)
           rt == rt_bandwidth
<1>1. /\ groups' = groups \ {g} /\ rt_bandwidth' = rt
      /\ k \in groups /\ k \in AllGroups
  BY DEF sched_destroy_group, settings, TypeOK
<1>2. children(k)' = C \ {g}
  BY <1>1 DEF children
<1>3. /\ C \in SUBSET Groups
      /\ children_sum(rt, k) = SumOver(rt, C)
      /\ rt \in [AllGroups -> Settings]
  BY <1>1, Children DEF TypeOK
<1>4. children_sum(rt_bandwidth, k)' = SumOver(rt, C \ {g})
  BY <1>1, <1>2 DEF children_sum, SumOver, Ratios
<1>5. SumOver(rt, C) <= to_ratio(rt[k])
  BY <1>1, <1>3 DEF RtSumHolds
<1>6. SumOver(rt, C \ {g}) <= SumOver(rt, C)
  <2>1. CASE g \notin C
    <3>1. C \ {g} = C /\ SumOver(rt, C) \in Int
      BY <2>1, <1>3, SumOverInt
    <3> QED BY <3>1
  <2>2. CASE g \in C
    <3>1. C \ {g} \in SUBSET Groups
      BY <1>3
    <3>2. SumOver(rt, C) = to_ratio(rt[g]) + SumOver(rt, C \ {g})
      BY <2>2, <1>3, SumOverWithout
    <3>3. to_ratio(rt[g]) \in Nat
      BY <2>2, <1>3, SumOverInt
    <3>4. SumOver(rt, C \ {g}) \in Int
      BY <1>3, <3>1, SumOverInt
    <3> QED BY <3>2, <3>3, <3>4
  <2> QED BY <2>1, <2>2
<1>7. /\ SumOver(rt, C) \in Int /\ SumOver(rt, C \ {g}) \in Int
      /\ to_ratio(rt[k]) \in Nat
  <2>1. C \ {g} \in SUBSET Groups
    BY <1>3
  <2> QED BY <1>1, <1>3, <2>1, SumOverInt, RatioNat
<1>8. SumOver(rt, C \ {g}) <= to_ratio(rt[k])
  BY <1>5, <1>6, <1>7
<1> QED BY <1>1, <1>4, <1>8

(* Each write keeps the children below their parent: it is checked over    *)
(* the whole tree before it is stored.                                     *)
LEMMA SumStepHolds == TypeOK /\ RtSumHolds /\ [Next]_vars => RtSumHolds'
<1> SUFFICES ASSUME TypeOK, RtSumHolds, [Next]_vars PROVE RtSumHolds'
  OBVIOUS
<1>0. TypeOK'
  BY TypeStep
<1>1. ASSUME NEW g \in Groups, sched_create_group(g) PROVE RtSumHolds'
  BY <1>0, <1>1, SumCreate
<1>2. ASSUME NEW g \in Groups, sched_destroy_group(g) PROVE RtSumHolds'
  BY <1>0, <1>2, SumDestroy
<1>3. ASSUME UNCHANGED <<groups, rt_bandwidth>> PROVE RtSumHolds'
  BY <1>3 DEF RtSumHolds, children_sum, children
<1>4. ASSUME NEW w \in Writers, tg_set_rt_bandwidth(w) PROVE RtSumHolds'
  <2> DEFINE rt == [rt_bandwidth EXCEPT ![request[w].group] = request[w].setting]
  <2>0. PICK limit \in global_ratios :
          rt_bandwidth' = IF __rt_schedulable(rt, limit) THEN rt ELSE rt_bandwidth
    BY <1>4 DEF tg_set_rt_bandwidth
  <2>1. CASE __rt_schedulable(rt, limit)
    <3>1. groups' = groups /\ rt_bandwidth' = rt
      BY <1>4, <2>0, <2>1 DEF tg_set_rt_bandwidth
    <3>2. \A g \in groups : children_sum(rt, g) <= to_ratio(rt[g])
      <4> HIDE DEF rt
      <4> QED BY <2>1 DEF __rt_schedulable, tg_rt_schedulable
    <3> HIDE DEF rt
    <3> QED BY <3>1, <3>2 DEF RtSumHolds, children_sum, children
  <2>2. CASE ~__rt_schedulable(rt, limit)
    BY <1>3, <1>4, <2>0, <2>2 DEF tg_set_rt_bandwidth
  <2> QED BY <2>1, <2>2
<1> QED BY <1>1, <1>2, <1>3, <1>4
        DEF Next, vars, settings, global, Request, sched_group_set_rt_runtime,
            sched_group_set_rt_period, tg_set_cfs_quota, tg_set_cfs_period,
            tg_set_cfs_bandwidth, sched_rt_handler, sched_rt_handler_ends

(* The children of a group never have more than the group: RtInv, for      *)
(* every tree of groups and all settings.                                  *)
THEOREM RtHolds == Spec => []RtInv
<1>1. Init => RtInv
  BY TypeInit, SumInit DEF RtInv
<1>2. RtInv /\ [Next]_vars => RtInv'
  BY TypeStep, SumStepHolds DEF RtInv
<1> QED BY <1>1, <1>2, PTL DEF Spec

-----------------------------------------------------------------------------
(* What a refused limit leaves behind.                                     *)
LEMMA LimitInit == Init => LimitHolds
<1> SUFFICES ASSUME Init PROVE LimitHolds
  OBVIOUS
<1>1. groups = {Root} /\ rt_bandwidth[Root] = sysctl /\ sysctl \in Settings
  BY TypeInit DEF Init, AllGroups, TypeOK
<1>2. to_ratio(sysctl) \in Nat
  BY <1>1, RatioNat
<1> QED BY <1>1, <1>2 DEF Init, LimitHolds, Below

(* The groups stay below the global limit: a write is checked against it,  *)
(* and a new limit against the groups.                                     *)
LEMMA LimitStep == TypeOK /\ LimitHolds /\ [Next]_vars => LimitHolds'
<1> SUFFICES ASSUME TypeOK, LimitHolds, [Next]_vars PROVE LimitHolds'
  OBVIOUS
<1>0. /\ TypeOK' /\ None \notin Settings
      /\ \A s \in Settings : to_ratio(s) \in Nat
  BY TypeStep, RatioNat, GroupAssumption
<1>1. ASSUME NEW g \in Groups, sched_create_group(g) PROVE LimitHolds'
  <2>1. /\ to_ratio(rt_bandwidth'[g]) = 0
        /\ \A j \in AllGroups \ {g} : rt_bandwidth'[j] = rt_bandwidth[j]
    BY <1>1, RatioZero DEF sched_create_group, NewRt, TypeOK, AllGroups
  <2>2. groups' = groups \cup {g} /\ groups \subseteq AllGroups /\ g \notin groups
    BY <1>1 DEF sched_create_group, TypeOK
  <2>3. ASSUME NEW s \in Settings, Below(s)
        PROVE  \A k \in groups' : to_ratio(rt_bandwidth'[k]) <= to_ratio(s)
    BY <2>1, <2>2, <2>3, <1>0 DEF Below
  <2>4. UNCHANGED <<sysctl, old, accepted, loose>>
    BY <1>1 DEF sched_create_group, global
  <2>5. CASE old = None /\ ~loose
    <3>1. sysctl \in Settings /\ Below(sysctl)
      BY <2>5 DEF LimitHolds, TypeOK
    <3> QED BY <2>3, <2>4, <2>5, <3>1 DEF LimitHolds, Below
  <2>6. CASE old # None /\ ~loose /\ ~accepted
    <3>1. old \in Settings /\ Below(old)
      BY <2>6 DEF LimitHolds, TypeOK
    <3> QED BY <2>3, <2>4, <2>6, <3>1 DEF LimitHolds, Below
  <2> QED BY <2>4, <2>5, <2>6 DEF LimitHolds
<1>2. ASSUME groups' \subseteq groups,
             UNCHANGED <<rt_bandwidth, sysctl, old, accepted, loose>>
      PROVE  LimitHolds'
  BY <1>2 DEF LimitHolds, Below
<1>3. ASSUME NEW w \in Writers, tg_set_rt_bandwidth(w) PROVE LimitHolds'
  <2> DEFINE rt == [rt_bandwidth EXCEPT ![request[w].group] = request[w].setting]
  <2>0. PICK limit \in global_ratios :
          /\ rt_bandwidth' = IF __rt_schedulable(rt, limit) THEN rt ELSE rt_bandwidth
          /\ accepted' = (accepted \/ (old # None /\ __rt_schedulable(rt, limit)))
    BY <1>3 DEF tg_set_rt_bandwidth
  <2>1. CASE __rt_schedulable(rt, limit)
    <3>1. groups' = groups /\ rt_bandwidth' = rt /\ UNCHANGED <<sysctl, old, loose>>
      BY <1>3, <2>0, <2>1 DEF tg_set_rt_bandwidth, global
    <3>2. old # None => accepted'
      BY <2>0, <2>1
    <3>3. ASSUME old = None PROVE \A g \in groups : to_ratio(rt[g]) <= to_ratio(sysctl)
      <4>1. limit = to_ratio(sysctl)
        BY <3>3 DEF global_ratios, TypeOK, Settings
      <4> HIDE DEF rt
      <4> QED BY <2>1, <4>1 DEF __rt_schedulable, tg_rt_schedulable
    <3> HIDE DEF rt
    <3> QED BY <3>1, <3>2, <3>3 DEF LimitHolds, Below
  <2>2. CASE ~__rt_schedulable(rt, limit)
    <3>1. UNCHANGED <<groups, rt_bandwidth, sysctl, old, loose>>
      BY <1>3, <2>0, <2>2 DEF tg_set_rt_bandwidth, global
    <3>2. accepted' = accepted
      BY <2>0, <2>2 DEF TypeOK
    <3> QED BY <3>1, <3>2 DEF LimitHolds, Below
  <2> QED BY <2>1, <2>2
<1>4. ASSUME NEW s, sched_rt_handler(s) PROVE LimitHolds'
  <2>1. /\ old' = sysctl /\ old' # None /\ loose' = loose /\ old = None
        /\ UNCHANGED <<groups, rt_bandwidth>>
    BY <1>0, <1>4 DEF sched_rt_handler, TypeOK, settings
  <2> QED BY <2>1 DEF LimitHolds, Below
<1>5. ASSUME sched_rt_handler_ends PROVE LimitHolds'
  <2>1. /\ old' = None /\ old # None /\ UNCHANGED <<groups, rt_bandwidth>>
    BY <1>5 DEF sched_rt_handler_ends, settings
  <2>2. CASE sched_rt_global_constraints
    <3>1. sysctl' = sysctl
      BY <1>5, <2>2 DEF sched_rt_handler_ends
    <3>2. Below(sysctl)
      BY <2>2 DEF sched_rt_global_constraints, __rt_schedulable, tg_rt_schedulable, Below
    <3> QED BY <2>1, <3>1, <3>2 DEF LimitHolds, Below
  <2>3. CASE ~sched_rt_global_constraints
    <3>1. sysctl' = old
      BY <1>5, <2>3 DEF sched_rt_handler_ends
    <3>2. ~loose' => ~loose /\ ~accepted
      BY <1>5, <2>3 DEF sched_rt_handler_ends
    <3> QED BY <2>1, <3>1, <3>2 DEF LimitHolds, Below
  <2> QED BY <2>2, <2>3
<1>6. ASSUME NEW g \in Groups, sched_destroy_group(g) PROVE LimitHolds'
  BY <1>2, <1>6 DEF sched_destroy_group, settings, global
<1>7. ASSUME UNCHANGED <<groups, rt_bandwidth, sysctl, old, accepted, loose>>
      PROVE  LimitHolds'
  BY <1>2, <1>7
<1> QED BY <1>1, <1>3, <1>4, <1>5, <1>6, <1>7
        DEF Next, vars, settings, global, Request, sched_group_set_rt_runtime,
            sched_group_set_rt_period, tg_set_cfs_quota, tg_set_cfs_period,
            tg_set_cfs_bandwidth

(* No group has more than the global limit allows, unless the handler put  *)
(* an old limit back after a setting was checked with the new one.         *)
THEOREM GlobalLimit == Spec => []GlobalHolds
<1>1. Init => TypeOK /\ LimitHolds
  BY TypeInit, LimitInit
<1>2. TypeOK /\ LimitHolds /\ [Next]_vars => TypeOK' /\ LimitHolds'
  BY TypeStep, LimitStep
<1>3. LimitHolds => GlobalHolds
  BY DEF LimitHolds, GlobalHolds, Below
<1> QED BY <1>1, <1>2, <1>3, PTL DEF Spec

-----------------------------------------------------------------------------
(* The groups are a tree.                                                  *)
LEMMA GroupTree ==
  \E depth, m : IsTree(AllGroups, Root, Parent, depth, m)
<1>1. PICK depth \in [AllGroups -> 0 .. Cardinality(Groups)] :
        \A g \in Groups : depth[Parent[g]] < depth[g]
  BY GroupAssumption
<1>2. Cardinality(Groups) \in Nat
  BY GroupAssumption, FS_CardinalityType
<1>3. AllGroups \ {Root} = Groups /\ Root \in AllGroups
  BY GroupAssumption DEF AllGroups
<1>4. IsTree(AllGroups, Root, Parent, depth, Cardinality(Groups))
  BY <1>1, <1>2, <1>3, GroupAssumption DEF IsTree
<1> QED BY <1>4

(* hierarchal_quota is what its recursive definition says.                 *)
QuotaOf(q, cfs) ==
  q = [g \in AllGroups |-> IF g = Root THEN RUNTIME_INF
                           ELSE normalize_cfs_quota(cfs, q[Parent[g]], g)]

(* The recursion has a solution, since the parent is higher up in the      *)
(* tree.                                                                   *)
LEMMA QuotaIs ==
  ASSUME NEW cfs \in [AllGroups -> Settings]
  PROVE  QuotaOf(hierarchal_quota(cfs), cfs)
<1> DEFINE step == [vg \in Nat \X AllGroups |-> normalize_cfs_quota(cfs, vg[1], vg[2])]
<1>1. step \in [Nat \X AllGroups -> Nat]
  BY RatioNat DEF normalize_cfs_quota
<1>2. RUNTIME_INF \in Nat
  BY InfNat
<1>3. PICK depth, m : IsTree(AllGroups, Root, Parent, depth, m)
  BY GroupTree
<1>4. PICK w \in [AllGroups -> Nat] :
        Descends(w, AllGroups, Root, Parent, RUNTIME_INF, step)
  <2> HIDE DEF step
  <2> QED BY <1>1, <1>2, <1>3, TreeRecursion
<1>5. ASSUME NEW g \in AllGroups, g # Root
      PROVE  step[<<w[Parent[g]], g>>] = normalize_cfs_quota(cfs, w[Parent[g]], g)
  <2>1. w[Parent[g]] \in Nat
    BY <1>5, GroupAssumption DEF AllGroups
  <2> QED BY <2>1
<1>6. QuotaOf(w, cfs)
  <2> HIDE DEF step
  <2> QED BY <1>4, <1>5 DEF Descends, QuotaOf
<1>7. \E q : QuotaOf(q, cfs)
  BY <1>6
<1>8. hierarchal_quota(cfs) = CHOOSE q : QuotaOf(q, cfs)
  BY DEF hierarchal_quota, QuotaOf
<1> QED BY <1>7, <1>8

(* The groups above g: the parent and the ones above it.                   *)
Above(u) == u = [g \in AllGroups |-> IF g = Root THEN {}
                                     ELSE {Parent[g]} \cup u[Parent[g]]]

(* The ancestors of a group follow that recursion.                         *)
LEMMA AncestorsAre ==
  \E u : Above(u) /\ \A g \in AllGroups : ancestors(g) = u[g]
<1> DEFINE V == SUBSET AllGroups
           step == [vg \in V \X AllGroups |->
                      IF vg[2] = Root THEN {} ELSE {Parent[vg[2]]} \cup vg[1]]
<1>1. step \in [V \X AllGroups -> V] /\ {} \in V
  BY GroupAssumption DEF AllGroups
<1>2. PICK depth, m : IsTree(AllGroups, Root, Parent, depth, m)
  BY GroupTree
<1>3. PICK w \in [AllGroups -> V] :
        Descends(w, AllGroups, Root, Parent, {}, step)
  <2> HIDE DEF step, V
  <2> QED BY <1>1, <1>2, TreeRecursion
<1>4. ASSUME NEW g \in AllGroups, g # Root
      PROVE  step[<<w[Parent[g]], g>>] = {Parent[g]} \cup w[Parent[g]]
  <2>1. w[Parent[g]] \in V
    BY <1>4, GroupAssumption DEF AllGroups
  <2> QED BY <1>4, <2>1
<1>5. Above(w)
  <2> HIDE DEF step
  <2> QED BY <1>3, <1>4 DEF Descends, Above
<1> DEFINE u == CHOOSE v : Above(v)
<1>6. Above(u)
  BY <1>5
<1>7. \A g \in AllGroups : ancestors(g) = u[g]
  BY DEF ancestors, Above
<1> QED BY <1>6, <1>7

(* The quotas of a part of the tree depend on the settings there only.     *)
LEMMA QuotaSame ==
  ASSUME NEW cfs \in [AllGroups -> Settings], NEW new \in [AllGroups -> Settings],
         NEW T \in SUBSET AllGroups, \A g \in T \ {Root} : Parent[g] \in T,
         \A g \in T : new[g] = cfs[g]
  PROVE  \A g \in T : hierarchal_quota(new)[g] = hierarchal_quota(cfs)[g]
<1> DEFINE q == hierarchal_quota(cfs)
           r == hierarchal_quota(new)
           P == {g \in AllGroups : g \in T => r[g] = q[g]}
<1>1. QuotaOf(q, cfs) /\ QuotaOf(r, new)
  BY QuotaIs
<1>2. PICK depth, m : IsTree(AllGroups, Root, Parent, depth, m)
  BY GroupTree
<1> HIDE DEF q, r
<1>3. Root \in P
  BY <1>1 DEF QuotaOf, AllGroups
<1>4. ASSUME NEW g \in AllGroups \ {Root}, Parent[g] \in P PROVE g \in P
  BY <1>1, <1>4 DEF QuotaOf, normalize_cfs_quota
<1>5. P = AllGroups
  <2>1. P \in SUBSET AllGroups
    OBVIOUS
  <2> HIDE DEF P
  <2> QED BY <1>2, <1>3, <1>4, <2>1, TreeInduction
<1> QED BY <1>5 DEF q, r

(* Quotas are numbers.                                                     *)
LEMMA QuotaNat ==
  ASSUME NEW cfs \in [AllGroups -> Settings]
  PROVE  \A g \in AllGroups : hierarchal_quota(cfs)[g] \in Nat
<1> DEFINE q == hierarchal_quota(cfs)
           N == {g \in AllGroups : q[g] \in Nat}
<1>1. QuotaOf(q, cfs)
  BY QuotaIs
<1>2. PICK depth, m : IsTree(AllGroups, Root, Parent, depth, m)
  BY GroupTree
<1> HIDE DEF q
<1>3. Root \in N
  BY <1>1, InfNat DEF QuotaOf, AllGroups
<1>4. ASSUME NEW g \in AllGroups \ {Root}, Parent[g] \in N PROVE g \in N
  BY <1>1, <1>4, RatioNat DEF QuotaOf, normalize_cfs_quota
<1>5. N = AllGroups
  <2>1. N \in SUBSET AllGroups
    OBVIOUS
  <2> HIDE DEF N
  <2> QED BY <1>2, <1>3, <1>4, <2>1, TreeInduction
<1> QED BY <1>5 DEF q

(* Quotas that never grow on the way down bound every group by every one   *)
(* above it.                                                               *)
LEMMA QuotaBelow ==
  ASSUME TypeOK, RootUnlimited, __cfs_schedulable(cfs_bandwidth)
  PROVE  CfsQuotaHolds
<1> DEFINE q == hierarchal_quota(cfs_bandwidth)
<1>1. PICK u : Above(u) /\ \A g \in AllGroups : ancestors(g) = u[g]
  BY AncestorsAre
<1> DEFINE P == {g \in AllGroups : g \in groups => \A a \in u[g] : a \in groups /\ q[g] <= q[a]}
<1>2. PICK depth, m : IsTree(AllGroups, Root, Parent, depth, m)
  BY GroupTree
<1>3. QuotaOf(q, cfs_bandwidth)
  BY QuotaIs DEF TypeOK
<1>4. \A g \in groups \ {Root} : q[g] <= q[Parent[g]]
  BY DEF __cfs_schedulable
<1> HIDE DEF q
<1>5. \A g \in AllGroups : q[g] \in Nat
  BY QuotaNat DEF q, TypeOK
<1>6. Root \in P
  BY <1>1 DEF Above, AllGroups
<1>7. ASSUME NEW g \in AllGroups \ {Root}, Parent[g] \in P PROVE g \in P
  <2> SUFFICES ASSUME g \in groups, NEW a \in u[g] PROVE a \in groups /\ q[g] <= q[a]
    OBVIOUS
  <2>1. Parent[g] \in groups /\ u[g] = {Parent[g]} \cup u[Parent[g]] /\ groups \subseteq AllGroups
    BY <1>1 DEF Above, TypeOK
  <2>2. q[g] <= q[Parent[g]]
    BY <1>4
  <2>3. CASE a = Parent[g]
    BY <2>1, <2>2, <2>3
  <2>4. CASE a \in u[Parent[g]]
    <3>1. a \in groups /\ q[Parent[g]] <= q[a]
      BY <1>7, <2>1, <2>4
    <3>2. q[g] \in Nat /\ q[Parent[g]] \in Nat /\ q[a] \in Nat
      BY <1>5, <2>1, <3>1
    <3> QED BY <2>2, <3>1, <3>2
  <2> QED BY <2>1, <2>3, <2>4
<1>8. P = AllGroups
  <2>1. P \in SUBSET AllGroups
    OBVIOUS
  <2> HIDE DEF P
  <2> QED BY <1>2, <1>6, <1>7, <2>1, TreeInduction
<1> SUFFICES ASSUME NEW g \in groups, NEW a \in ancestors(g),
                    cfs_bandwidth[g].runtime # RUNTIME_INF,
                    cfs_bandwidth[a].runtime # RUNTIME_INF
             PROVE  to_ratio(cfs_bandwidth[g]) <= to_ratio(cfs_bandwidth[a])
  BY DEF CfsQuotaHolds
<1>9. g \in AllGroups /\ a \in groups /\ a \in AllGroups /\ q[g] <= q[a]
  BY <1>1, <1>8 DEF TypeOK
<1>10. g # Root /\ a # Root
  BY DEF RootUnlimited
<1>11. q[g] = to_ratio(cfs_bandwidth[g]) /\ q[a] = to_ratio(cfs_bandwidth[a])
  BY <1>3, <1>9, <1>10 DEF QuotaOf, normalize_cfs_quota
<1> QED BY <1>9, <1>11

(* What the check of quotas keeps.                                         *)
CfsInv == RootUnlimited /\ __cfs_schedulable(cfs_bandwidth)

(* At the start there is the root, without a limit.                        *)
LEMMA CfsInit == Init => CfsInv
<1> SUFFICES ASSUME Init PROVE CfsInv
  OBVIOUS
<1>1. RootUnlimited
  BY DEF Init, RootUnlimited, NewCfs, Setting, AllGroups
<1>2. groups \ {Root} = {}
  BY DEF Init
<1> QED BY <1>1, <1>2 DEF CfsInv, __cfs_schedulable

(* Each write keeps the quotas ordered along the tree.                     *)
LEMMA CfsStep == TypeOK /\ CfsInv /\ [Next]_vars => CfsInv'
<1> SUFFICES ASSUME TypeOK, CfsInv, [Next]_vars PROVE CfsInv'
  OBVIOUS
<1>0. /\ TypeOK' /\ Root \notin Groups /\ Root \in AllGroups
      /\ cfs_bandwidth \in [AllGroups -> Settings]
      /\ cfs_bandwidth' \in [AllGroups -> Settings]
      /\ groups \subseteq AllGroups /\ \A g \in groups \ {Root} : Parent[g] \in groups
  BY TypeStep, GroupAssumption DEF TypeOK, AllGroups
<1>1. ASSUME NEW g \in Groups, sched_create_group(g) PROVE CfsInv'
  <2> DEFINE q == hierarchal_quota(cfs_bandwidth)
             r == hierarchal_quota(cfs_bandwidth')
  <2>1. /\ groups' = groups \cup {g} /\ g \notin groups /\ Parent[g] \in groups
        /\ request' = request /\ g # Root /\ g \in AllGroups
        /\ cfs_bandwidth'[g].runtime = RUNTIME_INF
        /\ \A j \in AllGroups \ {g} : cfs_bandwidth'[j] = cfs_bandwidth[j]
    BY <1>0, <1>1 DEF sched_create_group, NewCfs, Setting, AllGroups
  <2>2. RootUnlimited'
    BY <1>0, <2>1 DEF CfsInv, RootUnlimited
  <2>3. \A k \in groups : r[k] = q[k]
    <3>1. \A k \in groups : cfs_bandwidth'[k] = cfs_bandwidth[k]
      BY <1>0, <2>1
    <3> QED BY <1>0, <3>1, QuotaSame
  <2>4. \A k \in groups \ {Root} : q[k] <= q[Parent[k]]
    BY DEF CfsInv, __cfs_schedulable
  <2>5. r[g] = r[Parent[g]]
    <3>1. QuotaOf(r, cfs_bandwidth')
      BY <1>0, QuotaIs
    <3> HIDE DEF r
    <3> QED BY <2>1, <3>1 DEF QuotaOf, normalize_cfs_quota
  <2>6. r[g] \in Nat
    BY <1>0, <2>1, QuotaNat
  <2>7. \A k \in groups' \ {Root} : r[k] <= r[Parent[k]]
    <3> HIDE DEF q, r
    <3> QED BY <1>0, <2>1, <2>3, <2>4, <2>5, <2>6
  <2> QED BY <2>2, <2>7 DEF CfsInv, __cfs_schedulable
<1>2. ASSUME groups' \subseteq groups, UNCHANGED <<cfs_bandwidth, request>>
      PROVE  CfsInv'
  BY <1>2 DEF CfsInv, RootUnlimited, __cfs_schedulable, hierarchal_quota,
              normalize_cfs_quota
<1>3. ASSUME NEW w \in Writers, tg_set_cfs_bandwidth(w) PROVE CfsInv'
  <2> DEFINE new == [cfs_bandwidth EXCEPT ![request[w].group] = request[w].setting]
  <2>1. groups' = groups /\ request[w].group # Root
    BY <1>3 DEF tg_set_cfs_bandwidth, CfsInv, RootUnlimited
  <2>2. cfs_bandwidth' = cfs_bandwidth \/ (cfs_bandwidth' = new /\ __cfs_schedulable(new))
    BY <1>3 DEF tg_set_cfs_bandwidth
  <2>3. RootUnlimited'
    <3>1. cfs_bandwidth'[Root] = cfs_bandwidth[Root]
      BY <1>0, <2>1, <2>2
    <3>2. \A v \in Writers : request'[v] # None => request'[v] = request[v]
      BY <1>3 DEF tg_set_cfs_bandwidth, TypeOK
    <3> QED BY <3>1, <3>2 DEF CfsInv, RootUnlimited
  <2>4. __cfs_schedulable(cfs_bandwidth)'
    <3> HIDE DEF new
    <3> QED BY <2>1, <2>2 DEF CfsInv, __cfs_schedulable, hierarchal_quota,
                              normalize_cfs_quota
  <2> QED BY <2>3, <2>4 DEF CfsInv
<1>4. ASSUME NEW w \in Writers, tg_set_rt_bandwidth(w) PROVE CfsInv'
  <2>1. UNCHANGED <<groups, cfs_bandwidth>>
    BY <1>4 DEF tg_set_rt_bandwidth
  <2>2. \A v \in Writers : request'[v] # None => request'[v] = request[v]
    BY <1>4 DEF tg_set_rt_bandwidth, TypeOK
  <2>3. RootUnlimited'
    BY <2>1, <2>2 DEF CfsInv, RootUnlimited
  <2> QED BY <2>1, <2>3 DEF CfsInv, __cfs_schedulable, hierarchal_quota,
                            normalize_cfs_quota
<1>5. ASSUME NEW w \in Writers, NEW k, NEW g, NEW s, Request(w, k, g, s),
             k = "cfs" => g # Root
      PROVE  CfsInv'
  <2>1. UNCHANGED <<groups, cfs_bandwidth>>
    BY <1>5 DEF Request, settings
  <2>2. /\ request'[w].kind = k /\ request'[w].group = g
        /\ \A v \in Writers \ {w} : request'[v] = request[v]
    BY <1>5 DEF Request, TypeOK
  <2>3. RootUnlimited'
    BY <1>5, <2>1, <2>2 DEF CfsInv, RootUnlimited
  <2> QED BY <2>1, <2>3 DEF CfsInv, __cfs_schedulable, hierarchal_quota,
                            normalize_cfs_quota
<1>6. ASSUME NEW w \in Writers, NEW g \in AllGroups, NEW r \in Runtimes,
             sched_group_set_rt_runtime(w, g, r) \/ tg_set_cfs_quota(w, g, r)
      PROVE  CfsInv'
  BY <1>5, <1>6 DEF sched_group_set_rt_runtime, tg_set_cfs_quota
<1>7. ASSUME NEW w \in Writers, NEW g \in AllGroups, NEW p \in Periods,
             sched_group_set_rt_period(w, g, p) \/ tg_set_cfs_period(w, g, p)
      PROVE  CfsInv'
  BY <1>5, <1>7 DEF sched_group_set_rt_period, tg_set_cfs_period
<1>8. ASSUME NEW g \in Groups, sched_destroy_group(g) PROVE CfsInv'
  BY <1>2, <1>8 DEF sched_destroy_group, settings
<1>9. ASSUME UNCHANGED <<groups, cfs_bandwidth, request>> PROVE CfsInv'
  BY <1>2, <1>9
<1> QED BY <1>1, <1>3, <1>4, <1>6, <1>7, <1>8, <1>9
        DEF Next, vars, settings, sched_rt_handler, sched_rt_handler_ends

(* No fair group has more than any group above it, whatever the groups in  *)
(* between inherit.                                                        *)
THEOREM CfsQuota == Spec => []CfsQuotaHolds
<1>1. Init => TypeOK /\ CfsInv
  BY TypeInit, CfsInit
<1>2. TypeOK /\ CfsInv /\ [Next]_vars => TypeOK' /\ CfsInv'
  BY TypeStep, CfsStep
<1>3. TypeOK /\ CfsInv => CfsQuotaHolds
  BY QuotaBelow DEF CfsInv
<1> QED BY <1>1, <1>2, <1>3, PTL DEF Spec
=============================================================================
