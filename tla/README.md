# LeaderWorkerSet in TLA+

TLA+ modules for the controllers of this repository, the TLC instances that
check them, and TLAPS proofs of the properties that matter most.
`PROJECT.json` is the index: which definition models which lines, what every
run checks, which hazards of the code each property is aimed at, what is
proved, and where code and comments disagree.

## The system

A **LeaderWorkerSet** (LWS) is a set of groups; a group is a leader pod and
its workers, created, replaced and failed together. A **DisaggregatedSet**
(DS) owns one LWS per role, slice and revision, and rolls replicas from the
children of one revision to those of the next.

| Part | Source | What it keeps or writes |
|---|---|---|
| LWS reconcile loop | `pkg/controllers/leaderworkerset_controller.go` | ControllerRevisions, the leader StatefulSet (replicas, partition, revision label), services, status, restart-count pruning |
| Revisions | `pkg/utils/revision` | one ControllerRevision per template, found by a label that hashes the content |
| Hash identity | `leaderworkerset_hash.go` | a leader Deployment instead of the StatefulSet |
| Pod controller | `pod_controller.go` | worker StatefulSets, group restart, restart budget and its finalizers, the hash replacement gate |
| Scheduler providers | `pkg/schedulerprovider` | Workloads, PodGroups and scheduling gates |
| DS controller | `disaggregatedset_controller.go`, `scaler_manager.go`, `status.go` | revision hash, role scalers, slices, cleanup, status |
| DS planner, executor | `planner*.go`, `executor.go` | the next step of a rollout, and its writes |
| DS child writes | `lws_manager.go` | conditional writes to children, and the barrier that waits to see them |
| Sub-roles | `subrole_groups.go` | labels on groups, counts and floors in annotations |
| Replica group observer | `pkg/replicagroups` | a snapshot of group readiness |
| Webhooks | `pkg/webhooks` | defaulting and validation, pod identity and environment |

The parts talk only through API objects, and read them through informer
caches: a reconciler decides on what its cache shows, writes several objects
one call at a time, and may fail or stop between any two calls. That is where
the hazards are, and what the modules model.

How the modules fit together: `PodGroups` and `LeaderSet` share the rolling
update of `RollingUpdate`. `DisaggregatedRollout` runs `Planner` and starts
every pass from the children as they are; that this is so, over stale caches
and late requests, is what `ChildWrites` shows, as a refinement of
`AtomicWrites`. `SetController` chooses the revision and the target that a
rollout works towards; `SubRoles` uses the observer of `ReplicaGroups`.

## Modules

**`RollingUpdate`**: the arithmetic of a rolling update as operators, no state
(`rollingUpdateParameters`, `rollingUpdatePartition`,
`calculateRollingUpdateReplicas` and the other helpers). A loop of the code is
the set of indices it can reach; slices are functions from `0 .. n-1`.

**`LeaderSet`** (extends `RollingUpdate`): the reconcile loop for ordinal
groups, with the StatefulSet controller, the kubelet and the user around it.

| Model | Code |
|---|---|
| `Reconcile` | `Reconcile` up to the server-side apply |
| `FinishReconcile`, `StopReconcile` | status, truncation and return; or only part of it |
| `ReconcileApplyFails` | revisions created, apply failed |
| `ReconcileSchedulingError` | `handleWorkloadSchedulingError`: scale down only |
| `getOrCreateRevision`, `LwsUpdated`, `Obsolete` | revision lookup, change detection, `TruncateRevisions` |
| `Sts*`, `GroupReady`, `GroupFail` | external: StatefulSet controller, pod controller, faults |
| `stsView`, `groupsView`, `revisionsView`, `Observe*` | the informer caches; `lagging` picks which ones lag |

A template is the number of its content, and a revision key is that number
unless the code stored a revision under another key. The StatefulSet controller
may take down any outdated group from the partition up, in any order.

**`RestartBudget`**: `reconcilePod` and `handleRestartPolicy` for one ordinal
group. `ctl` is the place of the running pod reconcile between two of its
writes; the controller runs one at a time.

| Model | Code |
|---|---|
| `reconcileLeader`, `handleRestartPolicy`, `Recreate` | the decision of a reconcile, as the next value of `ctl` |
| `ChargeCount`, `DeleteLeader` | `persistGroupRestartCount`, then the foreground delete |
| `PatchPending` | the pending annotation while `restartBackoff` lasts |
| `MarkExhausted`, `HoldWorker`, `HoldDone` | `terminateExhaustedGroup` |
| `ClearCount`, `ReleaseHeldWorker`, `ReleaseLeader`, `ReleaseWorker` | recovery and teardown |
| `CreateWorkerStatefulSet`, `DeleteWorkerSts` | the rest of `reconcilePod`, parallel termination |
| `PruneCounts`, `ApplyReplicas`, `ApplyPartition`, `CleanupCounts` | the LWS reconcile as far as it touches the group |
| `Refused`, `Abort`, `Stop` | the API server refuses a write; a call fails; the process stops |
| the other cluster actions | external: StatefulSet controllers, garbage collector, kubelet |

Patches and deletes go by name, so they meet whatever pod has the name when
they arrive. A merge patch of finalizers replaces the list. A new finalizer on
a pod being deleted is refused. `charges` and `recreations` are history: how
often a group was charged for a restart, and how often one was taken down for
it.

**`HashGroups`**: an LWS with Hash identity, several groups at a time, with
the Deployment and ReplicaSets that make its leaders. A reconcile is the list
of its writes (`reconcilePod`, `reconcileHash`); one that stops has made the
first few (`PodReconcileStops`, `ReconcileStops`).

| Model | Code |
|---|---|
| `SlotFree`, `BlockingGroups`, `reconcilePod` | `reconcileGroupReplacementGate`: slot, teardown, the claim of a predecessor's count, lifting the gate |
| `pruneHashGroupRestartCounts`, `NextCounts` | transfer, pruning and cleanup of restart counts |
| `SSAWithDeployment`, `Reread` | the Deployment the reconcile applies, held back by exhausted groups |
| `NextStatus`, `progressing`, `readyNonDegraded` | `updateStatusHash` and the exclusion of conditions |
| `Cluster`, `Observe`, `Fail`, `Evict`, edits | external: Deployment, ReplicaSets, kubelet, caches, user |

**`PodGroups`** (extends `RollingUpdate`): what the scheduler providers create
before pods may be scheduled. The LWS reconcile (`lwsCtl`) creates the Workload
and the whole-LWS PodGroup, lists unused PodGroups, deletes them one by one and
then applies the StatefulSet; the pod reconcile (`podCtl`) creates the
PodGroups of a gated leader, lifts the gate and creates the workers. `setup.mode`
is the scheduling level of the Kubernetes provider (`lws`, `replica`, `role`) or
the Volcano provider (`volcano`, `legacy`). A new leader has an id of `Ids` that
nothing left of its predecessors has; when there is none it is not created.

**`Planner`**: `ComputeNextStep` and everything it calls, and the executor's
`validateUpdateStep`, as operators on a snapshot of one old revision (the
active one), the other old revisions (parked) and the target. A slice indexed
by role is a function on `Roles`. The names are the code's.

**`DisaggregatedRollout`** (extends `Planner`): one slice of a DS. A pass is one
reconcile of the slice, `pass.todo` the writes it has yet to make, and each
write is an action (`Create`, `Scale`, and those for initial replicas and
deletion); `Cleanup` is `cleanupDrainedLWS`, `StopPass` a failed call or a stop
between any two writes. A child counts its groups as ready, starting, and going
(chosen for deletion and still Ready); its controllers act in their own time
(`NativeScale`, `GroupReady`, `GroupsGone`, `Collected`, `GroupFail`). The user
edits revision, targets and budgets. `pass.promise` and `pass.calm` are history:
what the step may not go below, and whether anything failed since it was planned.

**`AtomicWrites`** is the abstract specification of the barrier in
`lws_manager.go`: a plan is made from the children as they are, each write takes
effect at most once, none after the next plan. **`ChildWrites`** is the code:
`log[k]` are the versions of a child from the cached to the stored one,
`mutate` sends a conditional request that may be refused, applied, or lost with
its outcome unknown (`requests`; `Commit` or `Drop` it later), `checkWrite*`
resolve or retry what is waited for, `prepareSlice` takes over the children of
an earlier process after `Restart`. The plan is the parameter `Plans`, of which
`PlansAssumption` asks only what `createLWS` does: a child is created empty.

**`SetController`**: the outer loop of the DS controller for one role, one
action per write: `resolveRevision` (marker and hash generation), `create`,
`UseScaler`, `DeleteScaler` (the role's scaler), `reconcileSlice`,
`updateStatus`. The DS, its children and its scaler have a cache each. `floor`
is history: what the role ran when it became External.

**`ReplicaGroups`**, **`SubRoles`**: the observer's counts as operators, and the
sub-roles of one child. A pass of `syncSubRoles` is a list of pod patches and a
write of the LWS at its end; `Sync` makes all of them, `SyncInterrupted` the
first few. A patch of a pod the cache shows outdated is a conflict and ends the
pass.

## What is checked

| Run | Result | Shows |
|---|---|---|
| `leaderset_safety` | holds | a rollout stays within maxUnavailable when undisturbed and within its batch always, never moves back, always starts above the old groups, never outgrows its surge; the revision in use exists and is labelled right |
| `leaderset_live` | holds | after the last edit every rollout, rollback or rescale settles and reclaims its surge, also with one cache stale |
| `leaderset_budget` | violated | the last ready group is taken down although maxUnavailable is used up |
| `restart_safety` | holds | every recreation is charged, once per failure (and once per failed call or stop), never past the limit; no worker stays held without its leader |
| `restart_live` | holds | a failed leader is taken down, a recovery releases the group |
| `restart_lag` | holds | with a stale pod cache, deleting the LWS frees every pod |
| `hash_groups` | holds | random group keys do not launder the restart budget; working and dying groups fit in the replicas; Available is the truth; an exhausted group is released only for cause; gate, budget and rollout never wait for each other for ever |
| `pod_groups` | holds | an admitted leader has its PodGroups whatever cleanup does; a gang starts whole while groups of two sizes exist; every group is scheduled in the end |
| `rollout` | holds | no step, cut off anywhere, takes a role below its budget; renamed roles are replaced by whole target groups; the surge is bounded; a rollout is not forgotten while its target is not Ready; it completes |
| `child_writes` | holds | the barrier implements `AtomicWrites`; the rollout budget is not spent twice; the barrier always opens again |
| `set_controller` | holds | one hash generation for life; switching to External takes no replicas; status settles on the truth |
| `subroles` | holds | annotations stay readable; capacity told to a rollout survives; saved floors are kept through retries; no traffic to groups being scaled down; requests settle |

The violated run states what a comment in the code says; `PROJECT.json` quotes
the comment and gives the line the counterexample goes through.

Most modules also define a `TypeOK`. TLC has checked it on these instances; it
is no property of a run, and it is proved of `LeaderSet`, `RestartBudget`,
`SetController` and `ChildWrites`.

**Bounds.** In all runs a bounded action stops when its bound is used up, so
the system may come to rest: deadlock is not checked, the temporal properties
say where it rests.

- `LeaderSet`: 3 replicas (so a middle group exists and a surge of 4 is
  clamped), 2 templates (a change and a rollback to it), 2 edits (a second one
  interrupts the first rollout), 1 fault. Liveness has 2 replicas; where a cache
  lags it has one edit and no fault (`Spent`), because a stale cache multiplies
  the states. `MaxNumber` bounds the revision numbers and is high enough for
  every edit and retry with current StatefulSets; with a stale StatefulSet
  cache every reconcile makes a revision until the cache shows the first
  apply, so no bound is, and `RolloutSettles` leaves that cache out.
- `RestartBudget`: 1 worker (its order against the leader is the question, and
  the model treats workers alike). `restart_safety` has 3 groups in succession,
  limit 1 with a backoff, 2 failures, 1 failed call or stop, 2 edits, 2
  revisions: one restart inside the budget and one past it, on either side of an
  update. `restart_live` has 2 groups, limits 0 and 1, 1 failure, 1 failed call
  or stop, and the variants with RecreateGroupAfterStart and parallel
  termination; `restart_lag` has limit 0, 1 failure and 1 edit, so that a group
  is exhausted at once.
- `HashGroups`: 1 or 2 replicas, 2 templates, 5 keys (enough for two groups,
  their successors and one more), seven setups, each aimed at a pair of features
  that interact: a shared budget, stops, a rollout through a stale Deployment
  cache, LeaderReady, a stale pod cache, exhaustion with scale-down, exhaustion
  with recovery and rollout.
- `PodGroups`: 1 or 2 replicas, sizes 2 and 3, a resize with and without a
  partition, surge, a scale to none and back, an upgrade, faults or a stop, in the five
  modes.
- `DisaggregatedRollout`: 2 roles, 2 revisions (an old one can be returned to,
  so both directions meet), targets 2/1 and 1/2, budgets surge 1 or unavailable
  1, 2 events (an edit and a fault, two edits, or a stop); roles kept, renamed,
  added or removed; one cluster without room to spare.
- `ChildWrites`: 2 children, 1 lost answer, 1 restart, 1 event. Two lost answers
  were also run, without an error, in more time than a run should take.
- `SetController`: 2 templates, sizes 1 and 3 (so that a wrong seed shows), 2
  events; new and legacy sets, the scaler's name free or taken.
- `SubRoles`: 2 sub-roles, 3 slots, both identities; caches that lag with an
  interrupted pass, two requests, or a fault with an interrupted pass.

**Timing assumptions.** `RacingReplacement = FALSE` in `RestartBudget` means that
a leader is not terminated *and* replaced while a reconcile that read it is
still running. The code does not enforce it; see the observations. `PodGroups`
assumes the same of the patch that lifts a gate.

**Fairness.** Nothing is assumed of the user, of faults, or of failing calls
beyond their bound. A reconcile that is due is eventually run (watch events
enqueue it, a failed one is retried with backoff, a pending child write is
requeued every second), a cache eventually catches up, the cluster's own
controllers make progress: weak fairness. Where a module states it in another
form, the reason is the same:

- `RestartBudget`: the pod controller runs one reconcile at a time
  (`SetupWithManager` leaves the default concurrency), so a pod's reconcile is
  disabled whenever another one runs; each kind has strong fairness, because a
  request waits in a FIFO queue while others are served. `StsCreateLeader` has it
  too: by the timing assumption it waits for a running reconcile, and these come
  and go.
- `DisaggregatedRollout`: the controller is not idle for ever. A pass can always
  start, so this is weak fairness of starting one.
- `SubRoles`: passes go on for ever, as the alternation of `passes`.
- `HashGroups`: nothing that waits to be done waits for ever; a step of each kind
  ends its own wait.
- `PodGroups`: weak fairness of the whole system step. It is the weakest of all,
  and enough because every behaviour without further faults comes to rest.

## What is proved

Every theorem holds for every value of the constants that the named assumption
of its module admits: any number of replicas, workers, children, templates and
sizes, any number of edits, faults, failed calls and stops. `SumProofs` and
`RollingUpdateProofs` hold the lemmas the others rest on: finite sums (every
element can be taken out first, a sum of naturals bounds its terms), and what the
operators of the rolling update return for every input.

| Theorem (module) | Property | Holds where |
|---|---|---|
| `TypeCorrect` (`LeaderSetProofs`) | `TypeOK` | always |
| `SurgeStaysBounded` | `SurgeBounded` | always |
| `StsKeepsRevision` | `StsHasRevision` | StatefulSet and revision caches do not lag together |
| `RevisionsNamed` | `KeyNamesContent` | StatefulSet and revision caches current |
| `RolloutNeverMovesBack` | `PartitionMovesDown` | the same |
| `RolloutAlwaysStartsAtTop` | `RolloutStartsAtTop` | the same |
| `RolloutBatchBounded` | `BatchBounded` | all caches current |
| `UndisturbedBudgetRespected` | `HealthyBudgetRespected` | all caches current |
| `TypeCorrect` (`RestartBudgetProofs`) | `TypeOK` | always |
| `WithinBudgetHolds` | `WithinBudget` | always |
| `RecreationsChargedHolds` | `RecreationsCharged` | always |
| `ChargedPerFailureHolds` | `ChargedPerFailure` | pod cache current |
| `NoOrphanFinalizerHolds` | `NoOrphanFinalizer` | pod cache current, no leader replaced under a reconcile |
| `AdmittedLeadersHavePodGroups` (`PodGroupsProofs`) | `PrerequisitesFirst` | always |
| `GangsStartWhole` | `WholeGang` | always |
| `TypeCorrect` (`SetControllerProofs`) | `TypeOK` | always |
| `SameGenerationHolds` | `SameGeneration` | always |
| `FlipNeverTakes` | `FlipHolds` | always |
| `TypeCorrect` (`ChildWritesProofs`) | `TypeOK` | always |
| `OneOutstandingHolds` | `OneOutstanding` | always |
| `AtomicStepsHold` (`AtomicWritesProofs`) | `AtomicSteps` | always |

The caches that may lag are the constants `LagSets` and `LagPods`, and the
hypotheses about them are those under which the runs check the property. None
can be dropped. In `LeaderSet`, on two replicas TLC refutes `KeyNamesContent`,
`PartitionMovesDown` and `RolloutStartsAtTop` with `LagSets = {{"statefulset"}}`
or `{{"revisions"}}`, and `StsHasRevision` when both lag together; on three, with
two edits and a fault, `BatchBounded` and `HealthyBudgetRespected` with
`{{"groups"}}`. In `restart_safety`, TLC refutes `ChargedPerFailure` and
`NoOrphanFinalizer` with `LagPods = TRUE`, and `NoOrphanFinalizer` with
`RacingReplacement = TRUE`.

**`LeaderSet`.** Four inductive invariants.

1. `TypeInv` adds to `TypeOK` that a StatefulSet which exists has a stamp
   (`CurrentSet`), without which a created group would have no type. The surge
   bound follows from it and the bounds of the operators.
2. `RevisionInv` adds `StsHasRevision` and `FinishingKey`: a reconcile that has
   applied but not returned carries the key the StatefulSet has. Truncation
   keeps that key, so it cannot delete the StatefulSet's revision; without
   `FinishingKey` the induction fails at `FinishReconcile`.
3. `LabelInv` adds `KeyNamesContent` and the same of the StatefulSet's own
   stamp. Then "the template changed" and "the label changed" are the same
   fact, which is what the two rollout theorems need: a new template makes
   `LwsUpdated` true, and that case alone sets the partition at the top.
4. `BudgetInv` adds `BurstInv`, that the StatefulSet has at most the replicas
   which the replicas it was applied for and the budget give when no group is
   updated, and `GroupsNamed`, that a group's label names its content. Then a
   reconcile that lowers the partition is `rollingUpdateParameters` on the groups
   as they are. If it reclaims no surge group, the groups in the works are at most
   the rolling step. If it does, some group of the spec is up to date, so (updated
   from the top) every surge group is, and the replicas it keeps cover the unready
   ones.

**`RestartBudget`.** `BudgetInv` relates the place of the running reconcile to
the counts: a charge under way is the count plus one and within a limit, a
deletion for a restart is already paid for. It needs nothing of the pod cache.
`ChargeInv` counts a failure not charged yet (`Unpaid`: a reconcile about to
charge, or `Evidence` on a leader not yet on its way out) against failures and
interrupted reconciles; `UidInv` and `GroupInv` say that pods, StatefulSet and
delete events of one group have one UID, so that the evidence of one group is not
taken for the next one's. `HeldInv` strengthens `NoOrphanFinalizer` by the two
places where it is in danger: a reconcile that holds workers has held the
leader, and one that releases has every held worker still on its list.

**`PodGroups`.** `AdmittedReady` extends `PrerequisitesFirst` to the leader whose
reconcile has ensured its PodGroups and not yet lifted the gate. It is inductive
with `CleanupSound`: what cleanup has listed belongs to no leader that stays,
also not to one created since, because its incarnation is new. `GroupsSound` says
that a PodGroup has the minimum of the size in its name. For `WholeGang`,
`WorkersSound` adds that an ordinal has one worker StatefulSet, of the size of its
leader, and (unless replacements are immediate) no pods of a previous leader once
the gate is lifted. So a PodGroup has at most one leader and size - 1 workers as
members, and reaches its minimum only when all are there and belong to the same
leader.

**`SetController`.** `GenerationInv`: a set of an older controller always has a
child in the cluster and in the cache, a new set's marker is in the cache before
anything is done for it; so the two are never confused. `FlipInv`: every number
on its way to the children of a role that became External (in a cache, in the
running pass, in the scaler) is at least what the role ran.

**`ChildWrites` implements `AtomicWrites`.** `WritesInv` says which requests may
still take effect. Versions only grow (`LogInv`); a request carries a version the
cache has shown (`RequestInv`); one of this process that may still be applied is
waited for (`OwnInv`); one of an earlier process cannot be applied to a child that
was taken over (`TakenOverInv`); so none may be while a plan is carried out
(`PlanInv`). `UnseenInv` says that what the cache has not seen is harmless, waited
for, or the write of an earlier process to a child not taken over yet. Therefore a
plan, made when nothing is waited for and every child was taken over, is made
from the children as they are, and each step is a step of `AtomicWrites` or leaves
its variables alone.

**Only model-checked**, and why:

- all liveness (`RolloutSettles`, `GroupsStart`, `RolloutCompletes` and the
  others): temporal properties under fairness are out of the prover's reach;
- `DisaggregatedRollout` and `BudgetKept` of `child_writes`: they run the
  planner, whose steps are sums, sorts and recursive choices over roles;
- `SubRoles` and `HashGroups`: a pass is a list of writes folded over the groups,
  so each property needs an induction over that list, which the provers cannot
  do;
- what no theorem's hypothesis covers: `restart_lag` with its stale pod cache.

## Observations

Disagreements and limits met while modelling that are not runs of their own.
The first six are counterexamples that TLC gives with the settings named (the
fifth when started in the middle of the rollout).

- **A retried first reconcile makes a second revision.** While the leader
  StatefulSet does not exist, `getOrCreateRevision`
  (`leaderworkerset_controller.go:1084`) creates a ControllerRevision on every
  attempt; one that fails later leaves it behind. The comment at
  `revision_utils.go:136` says that only one revision should match a key.
- **A stale revision cache lets a new template out with no rollout.** With
  `LagSets = {{"revisions"}}`, `RolloutStartsAtTop` fails: the StatefulSet's own
  revision is not found (line 1087), and one is made under the old key from the
  new template. `leaderset_live` shows that the set still settles.
- **A leader replaced during a restart is deleted in place of the failed one.**
  With `RacingReplacement = TRUE` a group is deleted (`pod_controller.go:686`)
  that never failed, on the charge of the one before; the comment at line 540 says the controller does not
  act on a replacement.
- **A stale pod cache and a scale-down leave a worker held.** With
  `LagPods = TRUE`, `NoOrphanFinalizer` fails: the release (line 857) lists pods
  from a cache that lacks a finalizer just added, releases the leader and
  nothing comes back for the worker. Deleting the LWS does free it
  (`restart_lag`).
- **Groups updated out of order can cost more than the budget.** Without the
  last clause of `Undisturbed`, `HealthyBudgetRespected` fails at 5 replicas,
  maxSurge 4 and maxUnavailable 2: a second template edited into a rollout, group
  4 brought up to date before surge groups 5 and 6. One reconcile then lowers the
  partition and reclaims groups 7 and 8, which were up to date, and 2 of the 3
  groups the budget promises are sure to stay. It takes more replicas than
  `leaderset_safety` has, and came up in the proof for any number of them. The StatefulSet controller updates from the top, so the
  clause is what it does when no pod fails.
- **Volcano gangs under Immediate replacement.** Volcano's PodGroup names are the
  same for every leader of an ordinal. If a leader's gate does not wait for the
  previous pods, and the scheduler counts pods that are terminating, a new leader
  is bound on their account, alone: `WholeGang` fails with the modes `volcano` and
  `legacy` when `setup.immediate` is set, and so leaves them out. The
  incarnation in the names of the Kubernetes provider excludes it.
- **`WholeGroupHeld`.** In whole-LWS mode, scaling to none and back while a
  failed leader returns can leave the PodGroup waiting for the pod that refers
  to it and the reconcile waiting for the PodGroup. `GroupsStart` names it as
  its one exception.
- **Rollouts without room.** A rollout that has no room for its surge waits.
  After a fault, a cluster with room for exactly target and surge can stay
  blocked, because the target took the failed group's place; `RolloutCompletes`
  asks for one more. When the cluster is crowded the fallback lowers a floor by
  one, never below one. Each interrupted rollout may have borrowed one slot above
  the ceiling to get started.
- **External scaling.** `FlipHolds` speaks of a role that had no scaler of its
  own when it was switched; an existing scaler's number is used as it is.
- **Sub-roles.** Removing sub-roles while the pod cache lags can leave a label.
  With Hash identity, groups that cannot meet the floors fall back to keeping
  the labels they have.
- **Hash identity.** The gate does not bound the overlap of a Deployment's own
  rollout, so `CapacityBounded` leaves template edits out. An exhausted group of
  the new revision stops the rollout, reported as Degraded.
- **PodGroups.** The minimum of a whole-LWS PodGroup may be too low for a moment
  (as a comment in `kubernetes_provider.go` says), so `WholeGang` is about the
  other modes. PodGroups that Volcano keeps for an LWS are never cleaned up.

## What is not modelled

Not modelled at all: process start-up, certificates, generated clients
(wiring); the LWS and DS webhooks (stateless; what they admit appears as
constants, for example no External role with several slices, no LeaderReady
with a gang over leader and workers); accelerator environment and pod helpers
(text written once). `PROJECT.json` lists every part.

Left out of what is modelled:

- `LeaderSet`: services, events, condition contents, and the StatefulSet
  controller's own revision history. With a raised partition, a group recreated
  at a revision that has been truncated makes the pod controller wait
  (`pod_controller.go:352`); the runs do not reach it.
- `RestartBudget`: one group, a Boolean backoff delay and a current LWS cache: a
  whole recreation within the lag of that cache would go unpaid
  (`pod_controller.go:647`).
- `HashGroups`: worker finalizers, backoff and deletion of the LWS (in
  `RestartBudget`), revision objects (in `LeaderSet`), percent budgets, the
  fallback for a zero budget, deletion cost, reasons for unschedulable pods.
- `PodGroups`: Hash identity, basic policies (no minimum), delegated Workloads,
  errors on immutable drift, owner references, labels, priority, topology and
  claims, lag of the lists that cleanup reads. The condition write and the
  StatefulSet apply are one step.
- `DisaggregatedRollout`: one slice, children that obey (their own rollouts are
  `LeaderSet`'s), no parallel slices.
- `ChildWrites`: the content of a child other than its replicas.
- `SubRoles`: plans of an older controller that have counts only, exhausted
  groups, native rollouts with two ReplicaSets, costs edited by the user.
- `ReplicaGroups`: the observer's index and its notifications.
