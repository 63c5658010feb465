--------------------------- MODULE RollingUpdate ---------------------------
(***************************************************************************)
(* The arithmetic of a LeaderWorkerSet rolling update, without state: how  *)
(* the reconciler turns the spec, the leader StatefulSet it read and the   *)
(* state of the groups into the partition and the replica count it applies *)
(* next (rollingUpdateParameters and its helpers in                        *)
(* leaderworkerset_controller.go).                                         *)
(*                                                                         *)
(* A replica state is a record [ready, updated]; `states` is a function    *)
(* from 0 .. n-1, the slice of getReplicaStates.                           *)
(***************************************************************************)
EXTENDS Integers, FiniteSets

Smaller(a, b) == IF a <= b THEN a ELSE b
Larger(a, b)  == IF a >= b THEN a ELSE b

ReplicaStates(n) == [0 .. n-1 -> [ready : BOOLEAN, updated : BOOLEAN]]

\* An intstr.IntOrString: an absolute number or a percentage.
IntOrString == [percent : BOOLEAN, value : Nat]

Number(n)  == [percent |-> FALSE, value |-> n]
Percent(n) == [percent |-> TRUE,  value |-> n]

\* intstr.GetScaledValueFromIntOrPercent.
ScaledValue(v, total, roundUp) ==
  IF ~v.percent THEN v.value
  ELSE IF roundUp THEN (v.value * total + 99) \div 100
  ELSE (v.value * total) \div 100

NonZeroValue(value) == IF value < 0 THEN 0 ELSE value

\* The surge and unavailability budgets for a replica count.  The surge is
\* rounded up and never exceeds the replicas; unavailability is rounded down.
MaxSurgeOf(cfg, lwsReplicas) ==
  Smaller(ScaledValue(cfg.maxSurge, lwsReplicas, TRUE), lwsReplicas)

MaxUnavailableOf(cfg, lwsReplicas) ==
  ScaledValue(cfg.maxUnavailable, lwsReplicas, FALSE)

ReadyAndUpdated(state) == state.ready /\ state.updated

\* The length of the longest run of ready and updated replicas that ends at
\* the last index.
calculateContinuousReadyReplicas(states, n) ==
  Cardinality({i \in 0 .. n-1 : \A j \in i .. n-1 : ReadyAndUpdated(states[j])})

\* How many of the first lwsReplicas are missing, unready or outdated.
calculateLWSUnreadyReplicas(states, n, lwsReplicas) ==
  Cardinality({i \in 0 .. lwsReplicas - 1 : i >= n \/ ~ReadyAndUpdated(states[i])})

calculateReplicasUnbounded(lwsReplicas, maxSurge, maxUnavailable, unreadyReplicas) ==  \* mutant
  lwsReplicas + NonZeroValue(unreadyReplicas - maxUnavailable)

calculateReplicasKeepBurst(lwsReplicas, maxSurge, maxUnavailable, unreadyReplicas) ==  \* mutant
  lwsReplicas + maxSurge

calculateRollingUpdateReplicas(lwsReplicas, maxSurge, maxUnavailable, unreadyReplicas) ==
  IF unreadyReplicas <= maxSurge
  THEN lwsReplicas + NonZeroValue(unreadyReplicas - maxUnavailable)
  ELSE lwsReplicas + maxSurge

\* The lowest partition one step may reach, ignoring what lies below it.
RollingStepPartitionOffByOne(states, n, rollingStep) ==  \* mutant: one group too many
  NonZeroValue(n - calculateContinuousReadyReplicas(states, n) - rollingStep - 1)

RollingStepPartition(states, n, rollingStep) ==
  NonZeroValue(n - calculateContinuousReadyReplicas(states, n) - rollingStep)

\* The loop of lines 1022-1028 lowers the partition from `from` while the
\* replica it reaches is unready or already updated, never below `floor`.
LowerOverUnready(states, n, from, floor) ==
  LET top       == Smaller(from, n - 1)
      reachable == {idx \in floor .. top :
                      \A j \in idx .. top : ~states[j].ready \/ states[j].updated}
  IN  IF reachable = {} THEN from
      ELSE CHOOSE idx \in reachable : \A other \in reachable : idx <= other

rollingUpdatePartitionBothWays(states, n, rollingStep, currentPartition) ==  \* mutant: no min
  LET step == RollingStepPartition(states, n, rollingStep)
  IN  LowerOverUnready(states, n, step + Cardinality({i \in 0 .. step - 1 : ~states[i].ready}), step)

rollingUpdatePartition(states, n, rollingStep, currentPartition) ==
  LET step        == RollingStepPartition(states, n, rollingStep)
      unavailable == Cardinality({i \in 0 .. step - 1 : ~states[i].ready})
      partition   == LowerOverUnready(states, n, step + unavailable, step)
  IN  Smaller(partition, currentPartition)

\* A rollout is over (or none is needed): the partition is 0 and the replica
\* count is the spec's, or differs only by a DisaggregatedSet's scale request.
RollingUpdateCompleted(spec, sts) ==
  /\ sts.partition = 0
  /\ \/ sts.replicas = spec.replicas
     \/ spec.dsOwned /\ sts.specReplicas = sts.replicas

\* How many groups may be down at once: maxUnavailable, and the surge groups
\* that exist.
RollingStepWholeSurge(maxSurge, maxUnavailable, lwsReplicas, stsReplicas) ==  \* mutant
  maxUnavailable + maxSurge

RollingStep(maxSurge, maxUnavailable, lwsReplicas, stsReplicas) ==
  maxUnavailable + maxSurge - (lwsReplicas + maxSurge - stsReplicas)

(***************************************************************************)
(* rollingUpdateParameters for a leader StatefulSet that exists.  `spec`   *)
(* is the LeaderWorkerSet spec (spec.dsOwned: a DisaggregatedSet owns it), *)
(* `sts` the StatefulSet as read, `updated` whether this reconcile created *)
(* a revision, `states` the replica states of its sts.replicas groups.     *)
(***************************************************************************)
NativeParameters(spec, sts, updated, states) ==
  LET maxSurge        == MaxSurgeOf(spec, spec.replicas)
      maxUnavailable  == MaxUnavailableOf(spec, spec.replicas)
      unready         == calculateLWSUnreadyReplicas(states, sts.replicas, spec.replicas)
      wantReplicas(u) == calculateRollingUpdateReplicas(spec.replicas, maxSurge, maxUnavailable, u)
      rollingStep     == RollingStep(maxSurge, maxUnavailable, spec.replicas, sts.replicas)
  IN  IF updated THEN
        [partition |-> Smaller(spec.replicas, sts.replicas),
         replicas  |-> IF sts.replicas < spec.replicas
                       THEN spec.replicas ELSE wantReplicas(spec.replicas)]
      ELSE IF RollingUpdateCompleted(spec, sts) THEN
        [partition |-> 0, replicas |-> spec.replicas]
      ELSE IF sts.replicas < spec.replicas THEN
        [partition |-> sts.partition, replicas |-> spec.replicas]
      ELSE IF sts.specReplicas # spec.replicas THEN
        [partition |-> Smaller(sts.partition, spec.replicas + maxSurge), replicas |-> wantReplicas(unready)]
      ELSE
        [partition |-> rollingUpdatePartition(states, sts.replicas, rollingStep, sts.partition),
         replicas  |-> wantReplicas(unready)]

\* The deferred clamp: groups below the user's partition are never updated.
rollingUpdateParameters(spec, sts, updated, states) ==
  LET native == NativeParameters(spec, sts, updated, states)
  IN  [native EXCEPT !.partition = Larger(@, spec.partition)]

=============================================================================
