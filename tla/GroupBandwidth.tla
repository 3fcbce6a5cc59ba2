--------------------------- MODULE GroupBandwidth ---------------------------
(***************************************************************************)
(* Bandwidth settings of the cpu cgroup hierarchy (sched/core.c):          *)
(* cpu.rt_runtime_us and cpu.rt_period_us, cpu.cfs_quota_us and            *)
(* cpu.cfs_period_us of every group, and the global limit of the sysctls   *)
(* sched_rt_runtime_us and sched_rt_period_us.  A write of one half of a   *)
(* setting reads the other half before it takes the mutex; the sysctl      *)
(* handler changes the global limit before it checks it.                   *)
(***************************************************************************)
EXTENDS Integers, FiniteSets, Functions

CONSTANTS
  Groups,        \* the groups that may be created
  Parent,        \* where: the root or another group
  Root,
  Writers,       \* processes that write to the files of groups
  None,
  SCALE,         \* 2^20 in the code
  PERIOD,        \* periods and runtimes at the start
  RUNTIME,
  Periods,       \* what is written to the files of groups, which refuse
                 \* a period of 0; the sysctl stores it
  Runtimes,
  MaxWrites      \* bound: writes that are started

RUNTIME_INF == 1000000

Settings == [runtime : Nat, period : Nat \ {0}]

(* What the sysctl files store, before it is checked.                      *)
GlobalSettings == [runtime : Nat, period : Nat]

AllGroups == Groups \cup {Root}

ASSUME GroupAssumption ==
  /\ IsFiniteSet(Groups) /\ Root \notin Groups
  /\ Parent \in [Groups -> AllGroups]
  /\ \E depth \in [AllGroups -> 0 .. Cardinality(Groups)] :
       \A g \in Groups : depth[Parent[g]] < depth[g]
  /\ SCALE \in Nat \ {0}
  /\ PERIOD \in Nat \ {0}
  /\ RUNTIME \in 1 .. PERIOD
  /\ Periods \subseteq Nat \ {0}
  /\ Runtimes \subseteq Nat \cup {RUNTIME_INF}
  /\ MaxWrites \in Nat
  /\ None \notin Settings

VARIABLES
  groups,             \* the groups there are
  rt_bandwidth,       \* rt_runtime and rt_period of each
  cfs_bandwidth,      \* quota and period of each
  sysctl,             \* the global runtime and period
  old,                \* what sched_rt_handler remembers, or None
  def_period,         \* def_rt_bandwidth.rt_period
  request,            \* what each writer is about to set
  writes,             \* counts towards MaxWrites: not in the code
  accepted,           \* a group's setting was accepted while the sysctl
                      \* handler was checking: not in the code
  loose               \* ... and the handler put the old limit back, and has
                      \* accepted none since: not in the code

settings == <<rt_bandwidth, cfs_bandwidth>>
global == <<sysctl, old, def_period>>
vars == <<groups, settings, global, request, writes, accepted, loose>>

Setting(runtime, period) == [runtime |-> runtime, period |-> period]

(* init_rt_bandwidth of a new group: no runtime.  Fair groups start        *)
(* without a limit.                                                        *)
NewRt == Setting(0, def_period)
NewCfs == Setting(RUNTIME_INF, PERIOD)

Init ==
  /\ groups = {Root}
  /\ rt_bandwidth = [g \in AllGroups |->
                       IF g = Root THEN Setting(RUNTIME, PERIOD)
                       ELSE Setting(0, PERIOD)]
  /\ cfs_bandwidth = [g \in AllGroups |-> NewCfs]
  /\ sysctl = Setting(RUNTIME, PERIOD)
  /\ old = None
  /\ def_period = PERIOD
  /\ request = [w \in Writers |-> None]
  /\ writes = 0
  /\ accepted = FALSE
  /\ loose = FALSE

children(g) == {k \in groups \ {Root} : Parent[k] = g}

-----------------------------------------------------------------------------
(* sched_create_group and sched_destroy_group (cpu_cgroup_create and       *)
(* cpu_cgroup_destroy).  A group with children or whose files are being    *)
(* written stays.                                                          *)
sched_create_group(g) ==
  /\ g \in Groups \ groups
  /\ Parent[g] \in groups
  /\ groups' = groups \cup {g}
  /\ rt_bandwidth' = [rt_bandwidth EXCEPT ![g] = NewRt]
  /\ cfs_bandwidth' = [cfs_bandwidth EXCEPT ![g] = NewCfs]
  /\ UNCHANGED <<global, request, writes, accepted, loose>>

sched_destroy_group(g) ==
  /\ g \in groups \ {Root}
  /\ children(g) = {}
  /\ \A w \in Writers : request[w] # None => request[w].group # g
  /\ groups' = groups \ {g}
  /\ UNCHANGED <<settings, global, request, writes, accepted, loose>>

-----------------------------------------------------------------------------
(* to_ratio: fixed point, rounded down.                                    *)
to_ratio(s) ==
  IF s.runtime = RUNTIME_INF THEN SCALE
  ELSE (s.runtime * SCALE) \div s.period

(* tg_has_rt_tasks looks at the root rt_rq of the task's CPU, whose group  *)
(* is the root: where there are always real-time tasks.                    *)
tg_has_rt_tasks(g) == g = Root

(* The global limit as a ratio.  With a period of 0, which the handler has *)
(* stored and is about to refuse, it is a quotient by 0: undefined, and no *)
(* group has more than SCALE.                                              *)
global_ratios ==
  IF sysctl.period = 0 /\ sysctl.runtime # RUNTIME_INF THEN 0 .. SCALE
  ELSE {to_ratio(sysctl)}

rt_bandwidth_enabled == sysctl.runtime # RUNTIME_INF

(* Mutant: the children of the group are not added up.                     *)
tg_rt_schedulable_alone(rt, g, limit) ==
  /\ rt[g].runtime <= rt[g].period \/ rt[g].runtime = RUNTIME_INF
  /\ to_ratio(rt[g]) <= limit

(* What the children of g have together.                                   *)
children_sum(rt, g) ==
  SumFunctionOnSet([k \in children(g) |-> to_ratio(rt[k])], children(g))

(* tg_rt_schedulable: rt is rt_bandwidth with the new setting in place,    *)
(* limit the ratio of the global setting.                                  *)
tg_rt_schedulable(rt, g, limit) ==
  /\ rt[g].runtime <= rt[g].period \/ rt[g].runtime = RUNTIME_INF
  /\ ~(rt_bandwidth_enabled /\ rt[g].runtime = 0 /\ tg_has_rt_tasks(g))
  /\ to_ratio(rt[g]) <= limit
  /\ children_sum(rt, g) <= to_ratio(rt[g])

__rt_schedulable(rt, limit) ==
  \A g \in groups : tg_rt_schedulable(rt, g, limit)

(* The quota that holds for g below a parent whose hierarchal quota is     *)
(* known: inherited if g has no limit.                                     *)
normalize_cfs_quota(cfs, hier, g) ==
  IF cfs[g].runtime = RUNTIME_INF THEN hier ELSE to_ratio(cfs[g])

(* The hierarchal_quota of every group.  Each walk computes it from the    *)
(* root before it reads it, so nothing of an earlier walk matters.         *)
hierarchal_quota(cfs) ==
  LET quota[g \in AllGroups] ==
        IF g = Root THEN RUNTIME_INF
        ELSE normalize_cfs_quota(cfs, quota[Parent[g]], g)
  IN  quota

(* Mutant: a group without a limit hides the ones above it.                *)
cfs_schedulable_hides(cfs) ==
  \A g \in groups \ {Root} :
    \/ cfs[g].runtime = RUNTIME_INF
    \/ cfs[Parent[g]].runtime = RUNTIME_INF
    \/ to_ratio(cfs[g]) <= to_ratio(cfs[Parent[g]])

(* tg_cfs_schedulable_down: no group has more than its parent.             *)
__cfs_schedulable(cfs) ==
  LET quota == hierarchal_quota(cfs)
  IN  \A g \in groups \ {Root} : quota[g] <= quota[Parent[g]]

-----------------------------------------------------------------------------
(* sched_group_set_rt_runtime, sched_group_set_rt_period, tg_set_cfs_quota *)
(* and tg_set_cfs_period, up to the mutex.                                 *)
Request(w, kind, g, s) ==
  /\ request[w] = None
  /\ writes < MaxWrites
  /\ g \in groups
  /\ request' = [request EXCEPT ![w] =
                   [kind |-> kind, group |-> g, setting |-> s]]
  /\ writes' = writes + 1
  /\ UNCHANGED <<groups, settings, global, accepted, loose>>

sched_group_set_rt_runtime(w, g, r) ==
  Request(w, "rt", g, Setting(r, rt_bandwidth[g].period))

sched_group_set_rt_period(w, g, p) ==
  /\ Request(w, "rt", g, Setting(rt_bandwidth[g].runtime, p))

(* The root has no limit, and a quota may not be too small.                *)
tg_set_cfs_quota(w, g, q) ==
  /\ g # Root /\ q # 0
  /\ Request(w, "cfs", g, Setting(q, cfs_bandwidth[g].period))

tg_set_cfs_period(w, g, p) ==
  /\ g # Root
  /\ Request(w, "cfs", g, Setting(cfs_bandwidth[g].runtime, p))

(* tg_set_rt_bandwidth under rt_constraints_mutex: checked with the whole  *)
(* hierarchy, and refused or set.                                          *)
tg_set_rt_bandwidth(w) ==
  LET rt == [rt_bandwidth EXCEPT ![request[w].group] = request[w].setting]
  IN  /\ request[w] # None /\ request[w].kind = "rt"
      /\ request' = [request EXCEPT ![w] = None]
      /\ \E limit \in global_ratios :
           LET ok == __rt_schedulable(rt, limit)
           IN  /\ rt_bandwidth' = IF ok THEN rt ELSE rt_bandwidth
               /\ accepted' = (accepted \/ (old # None /\ ok))
      /\ UNCHANGED <<groups, cfs_bandwidth, global, writes, loose>>

(* tg_set_cfs_bandwidth under cfs_constraints_mutex.                       *)
tg_set_cfs_bandwidth(w) ==
  LET cfs == [cfs_bandwidth EXCEPT ![request[w].group] = request[w].setting]
  IN  /\ request[w] # None /\ request[w].kind = "cfs"
      /\ request' = [request EXCEPT ![w] = None]
      /\ cfs_bandwidth' = IF __cfs_schedulable(cfs) THEN cfs
                          ELSE cfs_bandwidth
      /\ UNCHANGED <<groups, rt_bandwidth, global, writes, accepted, loose>>

-----------------------------------------------------------------------------
(* sched_rt_handler, under its own mutex: the sysctl is written, whatever  *)
(* it is ...                                                               *)
sched_rt_handler(s) ==
  /\ old = None
  /\ writes < MaxWrites
  /\ writes' = writes + 1
  /\ old' = sysctl
  /\ sysctl' = s
  /\ accepted' = FALSE
  /\ UNCHANGED <<groups, settings, def_period, request, loose>>

(* Mutant: the sanity check only, not the groups.                          *)
rt_global_constraints_sane ==
  /\ sysctl.period # 0
  /\ sysctl.runtime <= sysctl.period \/ sysctl.runtime = RUNTIME_INF

(* ... checked with the settings of the groups ...                         *)
sched_rt_global_constraints ==
  /\ sysctl.period # 0
  /\ sysctl.runtime <= sysctl.period \/ sysctl.runtime = RUNTIME_INF
  /\ __rt_schedulable(rt_bandwidth, to_ratio(sysctl))

(* ... and kept or put back.                                               *)
sched_rt_handler_ends ==
  /\ old # None
  /\ old' = None
  /\ sysctl' = IF sched_rt_global_constraints THEN sysctl ELSE old
  /\ def_period' = IF sched_rt_global_constraints THEN sysctl.period
                   ELSE def_period
  /\ loose' = ((loose \/ accepted) /\ ~sched_rt_global_constraints)
  /\ UNCHANGED <<groups, settings, request, writes, accepted>>

Next ==
  \/ \E g \in Groups :
       \/ sched_create_group(g)
       \/ sched_destroy_group(g)
  \/ \E w \in Writers, g \in AllGroups :
       \/ \E r \in Runtimes :
            \/ sched_group_set_rt_runtime(w, g, r)
            \/ tg_set_cfs_quota(w, g, r)
       \/ \E p \in Periods :
            \/ sched_group_set_rt_period(w, g, p)
            \/ tg_set_cfs_period(w, g, p)
  \/ \E w \in Writers :
       \/ tg_set_rt_bandwidth(w)
       \/ tg_set_cfs_bandwidth(w)
  \/ \E r \in Runtimes : sched_rt_handler(Setting(r, sysctl.period))
  \/ \E p \in Periods \cup {0} : sched_rt_handler(Setting(sysctl.runtime, p))
  \/ sched_rt_handler_ends

Spec == Init /\ [][Next]_vars

-----------------------------------------------------------------------------
TypeOK ==
  /\ Root \in groups /\ groups \subseteq AllGroups
  /\ \A g \in groups \ {Root} : Parent[g] \in groups
  /\ rt_bandwidth \in [AllGroups -> Settings]
  /\ cfs_bandwidth \in [AllGroups -> Settings]
  /\ sysctl \in GlobalSettings /\ (old = None => sysctl \in Settings)
  /\ old = None \/ old \in Settings
  /\ def_period \in Nat \ {0}
  /\ request \in [Writers -> {None} \cup
                   [kind : {"rt", "cfs"}, group : groups, setting : Settings]]
  /\ writes \in 0 .. MaxWrites
  /\ accepted \in BOOLEAN /\ loose \in BOOLEAN

(* "The sum of our children's runtime should not exceed our own", however  *)
(* the writes of several processes with stale halves, the creation and the *)
(* removal of groups and changes of the global limit interleave.           *)
RtSumHolds ==
  \A g \in groups :
    children_sum(rt_bandwidth, g) <= to_ratio(rt_bandwidth[g])

(* The types, a tree of groups with an existing parent each among them,    *)
(* and the sums along it.                                                  *)
RtInv == TypeOK /\ RtSumHolds

(* "Nobody can have more than the global setting allows", except after the *)
(* handler refused a new limit with which a group's setting was checked in *)
(* the meantime, until it accepts another.                                 *)
GlobalHolds ==
  old = None /\ ~loose =>
    \A g \in groups : to_ratio(rt_bandwidth[g]) <= to_ratio(sysctl)

(* The same without the exception: what the comment says.  Spec violates   *)
(* it.                                                                     *)
GlobalHoldsAlways ==
  old = None => \A g \in groups : to_ratio(rt_bandwidth[g]) <= to_ratio(sysctl)

ancestors(g) ==
  LET up[k \in AllGroups] ==
        IF k = Root THEN {} ELSE {Parent[k]} \cup up[Parent[k]]
  IN  up[g]

(* "ensure max(child_quota) <= parent_quota, inherit when no limit is      *)
(* set": no group has more than any of the groups above it.                *)
CfsQuotaHolds ==
  \A g \in groups : \A a \in ancestors(g) :
    \/ cfs_bandwidth[g].runtime = RUNTIME_INF
    \/ cfs_bandwidth[a].runtime = RUNTIME_INF
    \/ to_ratio(cfs_bandwidth[g]) <= to_ratio(cfs_bandwidth[a])
=============================================================================
