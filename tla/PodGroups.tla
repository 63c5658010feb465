------------------------------- MODULE PodGroups -------------------------------
(***************************************************************************)
(* Scheduling prerequisites of ordinal groups: the Workload and PodGroups  *)
(* the scheduler providers create before pods may be scheduled, and their  *)
(* removal, while the leader StatefulSet rolls out, scales and recreates   *)
(* leaders.                                                                *)
(*                                                                         *)
(* The LeaderWorkerSet reconcile (lwsCtl) creates the Workload and the     *)
(* whole-LWS PodGroup, lists the unused PodGroups, deletes them one by one *)
(* and only then applies the StatefulSet.  The pod reconcile (podCtl)      *)
(* creates the PodGroups of a gated leader, lifts its gate and creates its *)
(* workers.  The two run side by side.                                     *)
(*                                                                         *)
(* A template is the size of its groups.  setup.mode is the scheduling     *)
(* level of the Kubernetes provider, with a gang policy ("lws", "replica", *)
(* "role"), or the Volcano provider with LWS-owned PodGroups ("volcano")   *)
(* or, without spec.scheduling, leader-owned ones ("legacy").              *)
(***************************************************************************)
EXTENDS RollingUpdate, FiniteSetsExt, Functions, Sequences

CONSTANTS Setups,      \* what a behaviour may start from
          Indices,     \* the ordinals of leaders, 0 .. some number
          Ids          \* what tells the leaders of an ordinal apart, positive numbers

Modes == {"lws", "replica", "role", "volcano", "legacy"}

\* The webhooks admit no size below 1.
ASSUME SetupsAssumption ==
  /\ Ids \subseteq Nat \ {0} /\ 1 \in Ids
  /\ \A s \in Setups :
       /\ s.mode \in Modes
       /\ {s.immediate, s.leaderReady, s.upgrade, s.fresh} \subseteq BOOLEAN
       /\ s.spec \in [replicas : Nat, size : Nat \ {0}, partition : Nat,
                      maxSurge : IntOrString, maxUnavailable : IntOrString, dsOwned : BOOLEAN]
       /\ 0 .. s.spec.replicas - 1 \subseteq Indices
       /\ s.edits \in Seq([replicas : Nat, size : Nat \ {0}])

VARIABLES setup,       \* the kind of LeaderWorkerSet and the bounds
          spec,        \* its spec: replicas, size, partition and budgets
          sts,         \* the leader StatefulSet
          workload,    \* minimum in the Workload's template, 0: no Workload
          observed,    \* spec the condition WorkloadSchedulingCreated is True for
          podGroups,   \* name |-> [min, deleting, owner]
          leaders,     \* ordinal |-> leader pod
          workers,     \* the worker StatefulSets with their pods
          lwsCtl,      \* the running LeaderWorkerSet reconcile
          podCtl,      \* the running pod reconcile, of a leader that has its PodGroups
          spent        \* edits, faults and stops so far

vars == <<setup, spec, sts, workload, observed, podGroups, leaders, workers, lwsCtl, podCtl, spent>>

NoLeader == [id |-> 0, size |-> 0, gated |-> FALSE, bound |-> FALSE, deleting |-> FALSE]

NoReconcile == [index |-> 0, id |-> 0]

NoSpec == [replicas |-> 0, size |-> 0, partition |-> 0,
           maxSurge |-> Number(0), maxUnavailable |-> Number(0), dsOwned |-> FALSE]

Idle == [active |-> FALSE, spec |-> NoSpec, partition |-> 0, replicas |-> 0, unused |-> {}]

Kubernetes == setup.mode \in {"lws", "replica", "role"}

Alive(i) == leaders[i] # NoLeader /\ ~leaders[i].deleting

WorkersOf(i) == {w \in workers : w.index = i /\ w.id = leaders[i].id}

\* The leader of these workers is there and stays.
Owned(w) == Alive(w.index) /\ leaders[w.index].id = w.id

-----------------------------------------------------------------------------
(* Names.  A name is <<incarnation, ordinal, level or role, revision>>.    *)

LwsGroup == <<0, 0, "lws", 0>>

PlainWorkloadName(l) == 0  \* mutant: every leader of an ordinal shares its PodGroups

\* The incarnation the pod webhook draws for a leader with PodGroups of its own;
\* Volcano's names have none.
GroupWorkloadName(l) == IF setup.mode \in {"replica", "role"} THEN l.id ELSE 0

\* The PodGroups of one replica, for pods with that incarnation.
replicaPodGroups(incarnation, i, size) ==
  {<<incarnation, i, part, size>> :
     part \in CASE setup.mode = "lws"  -> {}
                [] setup.mode = "role" -> {"leader", "worker"}
                [] OTHER               -> {setup.mode}}

\* The PodGroup the webhook makes a pod a member of.
InjectPodGroupMetadata(incarnation, i, role, size) ==
  CASE setup.mode = "lws"  -> LwsGroup
    [] setup.mode = "role" -> <<incarnation, i, role, size>>
    [] OTHER               -> <<incarnation, i, setup.mode, size>>

LeaderGroup(i) ==
  InjectPodGroupMetadata(GroupWorkloadName(leaders[i]), i, "leader", leaders[i].size)

WorkerGroup(w) == InjectPodGroupMetadata(w.incarnation, w.index, "worker", w.size)

\* Some pod, terminating or not, names this PodGroup.
Referenced(name) ==
  \/ \E i \in Indices : leaders[i] # NoLeader /\ LeaderGroup(i) = name
  \/ \E w \in workers : w.created > 0 /\ WorkerGroup(w) = name

-----------------------------------------------------------------------------
(* Gang minimums.                                                          *)

leafMembership(part, size) ==
  CASE part = "leader"  -> 1
    [] part = "worker"  -> size - 1
    [] part = "replica" -> size

\* The minimum of a PodGroup in the Workload's template, for the current size.
TemplateMinCount ==
  CASE setup.mode = "lws"     -> Larger(1, spec.replicas * spec.size)
    [] setup.mode = "replica" -> leafMembership("replica", spec.size)
    [] setup.mode = "role"    -> leafMembership("worker", spec.size)
    [] OTHER                  -> 0

\* The pods of the replicas' groups: sizes[i] is the size of an existing group,
\* the smallest count first, and a missing group counts with the smallest size.
WholeTemplate(replicas, size, sizes) ==  \* mutant: all groups have the current size
  Larger(1, replicas * size)

wholeLWSMembership(replicas, size, sizes) ==
  LET groups  == DOMAIN sizes
      counted == Smaller(replicas, Cardinality(groups))
      pending == Min({size} \cup {sizes[i] : i \in groups})
      members == Min({MapThenSumSet(LAMBDA i : sizes[i], g) : g \in kSubset(counted, groups)})
  IN  Larger(1, Smaller(members + (replicas - counted) * pending, replicas * size))

wholeLWSGangMinCount ==
  wholeLWSMembership(spec.replicas, spec.size,
    [i \in {j \in Indices : leaders[j] # NoLeader} |-> leaders[i].size])

\* The minimum a provider gives the PodGroup `name` of a leader's replica: the
\* group's own size, from the leader's size annotation, not the current one.
CurrentSizeMin(name) ==  \* mutant: the current size's minimum
  IF Kubernetes THEN leafMembership(name[3], spec.size)
  ELSE IF setup.leaderReady THEN 1 ELSE name[4]

GangMinCount(name) ==
  IF Kubernetes THEN leafMembership(name[3], name[4])
  ELSE IF setup.leaderReady THEN 1 ELSE name[4]

-----------------------------------------------------------------------------
(* The pod controller, for one leader.                                     *)

\* The PodGroups of a live leader exist, are not going away and have its size.
PodGroupsReady(i) ==
  \A name \in replicaPodGroups(GroupWorkloadName(leaders[i]), i, leaders[i].size) :
    /\ name \in DOMAIN podGroups /\ ~podGroups[name].deleting
    /\ podGroups[name].min = GangMinCount(name)
    /\ setup.mode = "legacy" => podGroups[name].owner = leaders[i].id

findWorkload == workload # 0

\* CreatePodGroupIfNotExists fails: the Workload is not there yet, or a
\* PodGroup of that name is terminating or belongs to a previous leader.
Blocked(i) ==
  \/ setup.mode \in {"replica", "role"} /\ ~findWorkload
  \/ \E name \in replicaPodGroups(GroupWorkloadName(leaders[i]), i, leaders[i].size) \cap DOMAIN podGroups :
       \/ podGroups[name].deleting
       \/ setup.mode = "legacy" /\ podGroups[name].owner # leaders[i].id

NewPodGroup(name, owner) == [min |-> GangMinCount(name), deleting |-> FALSE, owner |-> owner]

\* The Kubernetes provider corrects the minimum of an existing PodGroup.
updateMutablePodGroupFields(name) == [podGroups[name] EXCEPT !.min = GangMinCount(name)]

\* ensurePodGroups, or Volcano's creation.
Ensured(names, owner) ==
  [name \in names \cup DOMAIN podGroups |->
     IF name \notin DOMAIN podGroups THEN NewPodGroup(name, owner)
     ELSE IF name \in names /\ Kubernetes THEN updateMutablePodGroupFields(name)
     ELSE podGroups[name]]

\* Under PostTermination no pod of a previous leader of the ordinal is left.
\* Nothing else holds an ordinal leader's gate.
GateOpens(i) ==
  setup.immediate \/ \A w \in workers : w.index = i /\ w.id # leaders[i].id => w.created = 0

\* reconcilePod of a leader up to CreatePodGroupIfNotExists.  A call may fail
\* or the process stop between the PodGroups of a replica.
EnsurePodGroups(i) ==
  /\ podCtl = NoReconcile /\ Alive(i) /\ ~Blocked(i)
  /\ (leaders[i].gated /\ GateOpens(i)) \/ ~PodGroupsReady(i)
  /\ LET names == replicaPodGroups(GroupWorkloadName(leaders[i]), i, leaders[i].size)
     IN  \/ /\ podGroups' = Ensured(names, leaders[i].id)
            /\ podCtl' = [index |-> i, id |-> leaders[i].id]
            /\ UNCHANGED spent
         \/ /\ spent.stops < setup.stops
            /\ \E some \in SUBSET names : some # names /\ podGroups' = Ensured(some, leaders[i].id)
            /\ spent' = [spent EXCEPT !.stops = @ + 1]
            /\ UNCHANGED podCtl
  /\ UNCHANGED <<setup, spec, sts, workload, observed, leaders, workers, lwsCtl>>

\* reconcileGroupReplacementGate.  The patch goes to the pod of that name.
ReconcileGate(i) ==
  /\ podCtl = [index |-> i, id |-> leaders[i].id] /\ leaders[i] # NoLeader
  /\ leaders' = [leaders EXCEPT ![i].gated = @ /\ ~GateOpens(i)]
  /\ podCtl' = NoReconcile
  /\ UNCHANGED <<setup, spec, sts, workload, observed, podGroups, workers, lwsCtl, spent>>

\* The leader went away while its reconcile ran: the patch finds no pod.
ReconcileGone ==
  /\ podCtl # NoReconcile /\ leaders[podCtl.index].id # podCtl.id
  /\ podCtl' = NoReconcile
  /\ UNCHANGED <<setup, spec, sts, workload, observed, podGroups, leaders, workers, lwsCtl, spent>>

NewWorkers(i, incarnation) ==
  [id |-> leaders[i].id, incarnation |-> incarnation, index |-> i, size |-> leaders[i].size,
   created |-> 0, bound |-> 0]

\* The reconcile goes on to the worker StatefulSet, which carries the leader's
\* incarnation.  One of that name that is still being deleted has to go first.
WorkersDue(i) ==
  /\ Alive(i) /\ ~leaders[i].gated /\ leaders[i].size > 1
  /\ setup.leaderReady => leaders[i].bound
  /\ \A w \in workers : w.index # i

CreateWorkerStatefulSet(i) ==
  /\ podCtl = NoReconcile /\ PodGroupsReady(i) /\ WorkersDue(i)
  /\ workers' = workers \cup {NewWorkers(i, GroupWorkloadName(leaders[i]))}
  /\ UNCHANGED <<setup, spec, sts, workload, observed, podGroups, leaders, lwsCtl, podCtl, spent>>

\* The controller of the previous version, during an upgrade, knows of no
\* incarnations.
OldVersionCreatesWorkers(i) ==
  /\ podCtl = NoReconcile /\ WorkersDue(i)
  /\ setup.upgrade /\ spent.faults < setup.faults
  /\ spent' = [spent EXCEPT !.faults = @ + 1]
  /\ workers' = workers \cup {NewWorkers(i, 0)}
  /\ UNCHANGED <<setup, spec, sts, workload, observed, podGroups, leaders, lwsCtl, podCtl>>

Deleted(i) == leaders' = [leaders EXCEPT ![i].deleting = TRUE]

\* The workers of a live leader belong to other PodGroups and none is bound.
recreateGroupSplitByUpgrade(i) ==
  /\ podCtl = NoReconcile /\ Alive(i) /\ ~leaders[i].gated /\ PodGroupsReady(i)
  /\ Kubernetes
  /\ \E w \in WorkersOf(i) :
       w.incarnation = 0 /\ GroupWorkloadName(leaders[i]) # 0 /\ w.bound = 0
  /\ Deleted(i)
  /\ UNCHANGED <<setup, spec, sts, workload, observed, podGroups, workers, lwsCtl, podCtl, spent>>

-----------------------------------------------------------------------------
(* The LeaderWorkerSet reconcile.                                          *)

\* getReplicaStates for one ordinal: the leader and the worker StatefulSet of
\* that name.  With the current size 1 no worker StatefulSet is looked for.
replicaStateOf(i) ==
  LET named == {w \in workers : w.index = i}
  IN  IF leaders[i] = NoLeader \/ (spec.size > 1 /\ named = {}) THEN [ready |-> FALSE, updated |-> FALSE]
      ELSE [ready   |-> Alive(i) /\ leaders[i].bound
                        /\ (spec.size > 1 => \A w \in named : w.bound = w.size - 1),
            updated |-> leaders[i].size = spec.size
                        /\ (spec.size > 1 => \A w \in named : w.size = spec.size)]

Parameters ==
  rollingUpdateParameters(spec, sts, spec.size # sts.size,
    [i \in 0 .. sts.replicas - 1 |-> replicaStateOf(i)])

\* ensurePodGroups for the whole-LWS PodGroup.
WholeEnsured(replicas) ==
  IF setup.mode = "lws" /\ replicas > 0
  THEN [name \in {LwsGroup} \cup DOMAIN podGroups |->
          IF name = LwsGroup THEN [min |-> wholeLWSGangMinCount, deleting |-> FALSE, owner |-> 0]
          ELSE podGroups[name]]
  ELSE podGroups

\* The PodGroups cleanupUnusedPodGroups does not keep: neither desired nor of a
\* leader that stays.
UnusedOfAll(groups, replicas) ==  \* mutant: a PodGroup without pods is unused
  IF ~Kubernetes THEN {}
  ELSE DOMAIN groups \ (IF replicas > 0 THEN {LwsGroup} ELSE {})

Unused(groups, replicas) ==
  IF ~Kubernetes THEN {}
  ELSE DOMAIN groups \
    ((IF replicas > 0 THEN {LwsGroup} ELSE {}) \cup
     UNION {replicaPodGroups(GroupWorkloadName(leaders[i]), i, leaders[i].size) :
              i \in {j \in Indices : Alive(j)}})

AppliedSts(read, partition, replicas) ==
  [sts EXCEPT !.replicas = replicas, !.partition = partition,
              !.specReplicas = read.replicas, !.size = read.size]

Removable(groups, replicas) ==
  {name \in Unused(groups, replicas) : ~Referenced(name) /\ ~groups[name].deleting}

\* Something is left to write: watches on the LeaderWorkerSet, its pods and its
\* PodGroups start the reconcile.
LwsDue(p) ==
  \/ workload # TemplateMinCount
  \/ observed # spec
  \/ podGroups # WholeEnsured(p.replicas)
  \/ Removable(podGroups, p.replicas) # {}
  \/ sts # AppliedSts(spec, p.partition, p.replicas)

WholeBlocked(replicas) ==
  /\ setup.mode = "lws" /\ replicas > 0
  /\ LwsGroup \in DOMAIN podGroups /\ podGroups[LwsGroup].deleting

\* The Workload is created, or its minimum follows size and replicas.
reconcileWorkload == workload' = TemplateMinCount

\* ReconcileScheduling up to the list of unused PodGroups.
ReconcileScheduling ==
  /\ ~lwsCtl.active
  /\ LET p == Parameters
     IN  /\ LwsDue(p) /\ ~WholeBlocked(p.replicas)
         /\ reconcileWorkload
         /\ podGroups' = WholeEnsured(p.replicas)
         /\ lwsCtl' = [active |-> TRUE, spec |-> spec, partition |-> p.partition,
                       replicas |-> p.replicas, unused |-> Unused(podGroups', p.replicas)]
  /\ UNCHANGED <<setup, spec, sts, observed, leaders, workers, podCtl, spent>>

\* The whole-LWS PodGroup is still terminating: the reconcile only scales down.
SchedulingBlocked ==
  /\ ~lwsCtl.active
  /\ LET p == Parameters
     IN  /\ WholeBlocked(p.replicas)
         /\ sts' = [sts EXCEPT !.replicas = Smaller(@, p.replicas)]
  /\ reconcileWorkload
  /\ observed' = NoSpec
  /\ UNCHANGED <<setup, spec, podGroups, leaders, workers, lwsCtl, podCtl, spent>>

\* One listed PodGroup: deleted when no pod references it.
DeleteUnused(name) ==
  /\ lwsCtl.active /\ name \in lwsCtl.unused
  /\ lwsCtl' = [lwsCtl EXCEPT !.unused = @ \ {name}]
  /\ podGroups' = [g \in DOMAIN podGroups |->
                     IF g = name /\ ~Referenced(g) THEN [podGroups[g] EXCEPT !.deleting = TRUE]
                     ELSE podGroups[g]]
  /\ UNCHANGED <<setup, spec, sts, workload, observed, leaders, workers, podCtl, spent>>

\* The condition is written and the StatefulSet applied.  When the condition
\* has to change but the LeaderWorkerSet has changed too, the reconcile stops.
ApplyStatefulSet ==
  /\ lwsCtl.active /\ lwsCtl.unused = {}
  /\ lwsCtl' = Idle
  /\ IF lwsCtl.spec # observed /\ lwsCtl.spec # spec
     THEN UNCHANGED <<sts, observed>>
     ELSE /\ sts' = AppliedSts(lwsCtl.spec, lwsCtl.partition, lwsCtl.replicas)
          /\ observed' = lwsCtl.spec
  /\ UNCHANGED <<setup, spec, workload, podGroups, leaders, workers, podCtl, spent>>

\* A call fails or the process stops.
LwsStop ==
  /\ lwsCtl.active /\ spent.stops < setup.stops
  /\ lwsCtl' = Idle
  /\ spent' = [spent EXCEPT !.stops = @ + 1]
  /\ UNCHANGED <<setup, spec, sts, workload, observed, podGroups, leaders, workers, podCtl>>

-----------------------------------------------------------------------------
(* The cluster.                                                            *)

FreshIds(i) ==
  Ids \ ({w.id : w \in {v \in workers : v.index = i}} \cup
         {name[1] : name \in {n \in DOMAIN podGroups \cup lwsCtl.unused : n[2] = i}} \cup
         {podGroups[name].owner : name \in {n \in DOMAIN podGroups : n[2] = i}})

\* A leader is not replaced while a reconcile that read its predecessor runs.
StsCreateLeader(i) ==
  /\ i < sts.replicas /\ leaders[i] = NoLeader /\ FreshIds(i) # {}
  /\ podCtl = NoReconcile \/ podCtl.index # i
  /\ leaders' = [leaders EXCEPT ![i] =
                   [id |-> Min(FreshIds(i)), size |-> IF i < sts.partition THEN sts.current ELSE sts.size,
                    gated |-> TRUE, bound |-> FALSE, deleting |-> FALSE]]
  /\ UNCHANGED <<setup, spec, sts, workload, observed, podGroups, workers, lwsCtl, podCtl, spent>>

\* Scale-down, or the replacement of an outdated leader.
StsDeleteLeader(i) ==
  /\ Alive(i)
  /\ i >= sts.replicas \/ (i >= sts.partition /\ leaders[i].size # sts.size)
  /\ Deleted(i)
  /\ UNCHANGED <<setup, spec, sts, workload, observed, podGroups, workers, lwsCtl, podCtl, spent>>

StsCompleteRollingUpdate ==
  /\ sts.current # sts.size
  /\ \A i \in Indices : IF i < sts.replicas THEN leaders[i].size = sts.size ELSE leaders[i] = NoLeader
  /\ sts' = [sts EXCEPT !.current = sts.size]
  /\ UNCHANGED <<setup, spec, workload, observed, podGroups, leaders, workers, lwsCtl, podCtl, spent>>

LeaderGone(i) ==
  /\ leaders[i].deleting
  /\ leaders' = [leaders EXCEPT ![i] = NoLeader]
  /\ UNCHANGED <<setup, spec, sts, workload, observed, podGroups, workers, lwsCtl, podCtl, spent>>

\* The garbage collector takes the workers before or after their leader.
WorkersGone(w) ==
  /\ ~Owned(w)
  /\ workers' = workers \ {w}
  /\ UNCHANGED <<setup, spec, sts, workload, observed, podGroups, leaders, lwsCtl, podCtl, spent>>

StsCreateWorker(w) ==
  /\ Owned(w) /\ w.created < w.size - 1
  /\ workers' = (workers \ {w}) \cup {[w EXCEPT !.created = @ + 1]}
  /\ UNCHANGED <<setup, spec, sts, workload, observed, podGroups, leaders, lwsCtl, podCtl, spent>>

\* A PodGroup that is deleted stays while pods reference it; one that belonged
\* to a leader is collected with it.
PodGroupGone(name) ==
  /\ \/ podGroups[name].deleting /\ ~Referenced(name)
     \/ setup.mode = "legacy" /\ leaders[name[2]].id # podGroups[name].owner
  /\ podGroups' = [g \in DOMAIN podGroups \ {name} |-> podGroups[g]]
  /\ UNCHANGED <<setup, spec, sts, workload, observed, leaders, workers, lwsCtl, podCtl, spent>>

Members(name) ==
  Cardinality({i \in Indices : leaders[i] # NoLeader /\ ~leaders[i].gated /\ LeaderGroup(i) = name})
  + SumFunctionOnSet([w \in workers |-> w.created], {w \in workers : WorkerGroup(w) = name})

\* The gang scheduler binds the pods that wait once the PodGroup has its minimum.
Schedule(name) ==
  LET waiting == {i \in Indices : Alive(i) /\ ~leaders[i].gated /\ LeaderGroup(i) = name}
      pending == {w \in workers : Owned(w) /\ WorkerGroup(w) = name}
  IN  /\ ~podGroups[name].deleting /\ Members(name) >= podGroups[name].min
      /\ leaders' = [i \in Indices |-> IF i \in waiting THEN [leaders[i] EXCEPT !.bound = TRUE]
                                       ELSE leaders[i]]
      /\ workers' = (workers \ pending) \cup {[w EXCEPT !.bound = w.created] : w \in pending}
      /\ <<leaders', workers'>> # <<leaders, workers>>
      /\ UNCHANGED <<setup, spec, sts, workload, observed, podGroups, lwsCtl, podCtl, spent>>

\* A leader fails or is evicted: it is deleted to recreate its group.
GroupFails(i) ==
  /\ Alive(i) /\ spent.faults < setup.faults
  /\ Deleted(i)
  /\ spent' = [spent EXCEPT !.faults = @ + 1]
  /\ UNCHANGED <<setup, spec, sts, workload, observed, podGroups, workers, lwsCtl, podCtl>>

\* The user changes the size or the replicas, in the order setup gives.
Edit ==
  /\ spent.edits < Len(setup.edits)
  /\ LET edit == setup.edits[spent.edits + 1]
     IN  spec' = [spec EXCEPT !.replicas = edit.replicas, !.size = edit.size]
  /\ spent' = [spent EXCEPT !.edits = @ + 1]
  /\ UNCHANGED <<setup, sts, workload, observed, podGroups, leaders, workers, lwsCtl, podCtl>>

-----------------------------------------------------------------------------
\* All groups run; or (setup.fresh) the first reconcile has created the
\* scheduling prerequisites and then the StatefulSet, and no pod is there yet.
Running == IF setup.fresh THEN {} ELSE 0 .. spec.replicas - 1

Init ==
  /\ setup \in Setups
  /\ spec = setup.spec
  /\ sts = [replicas |-> spec.replicas, partition |-> spec.partition,
            specReplicas |-> spec.replicas, size |-> spec.size, current |-> spec.size]
  /\ workload = TemplateMinCount /\ observed = spec
  /\ leaders = [i \in Indices |-> IF i \notin Running THEN NoLeader
                                  ELSE [id |-> 1, size |-> spec.size, gated |-> FALSE,
                                        bound |-> TRUE, deleting |-> FALSE]]
  /\ workers = {[NewWorkers(i, GroupWorkloadName(leaders[i])) EXCEPT
                   !.created = spec.size - 1, !.bound = spec.size - 1] : i \in Running}
  /\ podGroups =
       [name \in (IF setup.mode = "lws" THEN {LwsGroup} ELSE {}) \cup
                 UNION {replicaPodGroups(GroupWorkloadName(leaders[i]), i, spec.size) : i \in Running} |->
          IF name = LwsGroup THEN [min |-> workload, deleting |-> FALSE, owner |-> 0]
          ELSE [min |-> GangMinCount(name), deleting |-> FALSE, owner |-> 1]]
  /\ lwsCtl = Idle /\ podCtl = NoReconcile
  /\ spent = [edits |-> 0, faults |-> 0, stops |-> 0]

Controllers ==
  \/ \E i \in Indices : \/ EnsurePodGroups(i) \/ ReconcileGate(i) \/ CreateWorkerStatefulSet(i)
                        \/ recreateGroupSplitByUpgrade(i)
  \/ ReconcileGone
  \/ ReconcileScheduling \/ SchedulingBlocked \/ ApplyStatefulSet
  \/ \E name \in lwsCtl.unused : DeleteUnused(name)

Cluster ==
  \/ \E i \in Indices : StsCreateLeader(i) \/ StsDeleteLeader(i) \/ LeaderGone(i)
  \/ StsCompleteRollingUpdate
  \/ \E w \in workers : WorkersGone(w) \/ StsCreateWorker(w)
  \/ \E name \in DOMAIN podGroups : PodGroupGone(name) \/ Schedule(name)

Environment ==
  \/ \E i \in Indices : GroupFails(i) \/ OldVersionCreatesWorkers(i)
  \/ LwsStop \/ Edit

Next == Controllers \/ Cluster \/ Environment

Fairness == WF_vars(Controllers \/ Cluster)

Spec == Init /\ [][Next]_vars /\ Fairness

-----------------------------------------------------------------------------
(* Properties.                                                             *)

\* A leader that has been admitted and stays has its PodGroups, with the
\* minimum of its own group, and nobody is deleting them: whatever cleanup
\* listed before the leader was there (CreatePodGroupIfNotExists and
\* cleanupUnusedPodGroups run side by side).
PrerequisitesFirst ==
  \A i \in Indices : Alive(i) /\ ~leaders[i].gated => PodGroupsReady(i)

BoundWorkers(ws) == SumFunctionOnSet([w \in ws |-> w.bound], ws)

BoundPods(l, ws) == (IF l.bound THEN 1 ELSE 0) + BoundWorkers(ws)

GangOf(i) ==
  LET l  == leaders'[i]
      ws == {w \in workers' : w.index = i /\ w.id = l.id}
  IN  l # NoLeader /\ leaders[i].id = l.id =>
        CASE setup.mode = "role" ->
               BoundWorkers(WorkersOf(i)) = 0 => BoundWorkers(ws) \in {0, l.size - 1}
          [] setup.mode \notin {"lws", "role"} /\ ~setup.leaderReady /\ (Kubernetes \/ ~setup.immediate) ->
               BoundPods(leaders[i], WorkersOf(i)) = 0 => BoundPods(l, ws) \in {0, l.size}
          [] OTHER -> TRUE

\* The pods of a gang whose PodGroup covers one group, or its workers, start
\* together: no step binds the first of them before all are there, even while
\* groups of two sizes exist (the minimum leaderPodGroups gives a PodGroup).
\* Volcano's names are the same for every leader of an ordinal, so there the
\* pods of the previous one must be gone before the gate opens.
WholeGang == [][\A i \in Indices : GangOf(i)]_vars

Started(i) ==
  /\ Alive(i) /\ leaders[i].bound
  /\ leaders[i].size > 1 => \E w \in WorkersOf(i) : w.bound = w.size - 1

\* Every group of the spec runs, outdated ones only below the partition, and
\* the PodGroups are those of the groups.
Settled ==
  /\ \A i \in Indices : IF i < spec.replicas
                         THEN Started(i) /\ (i >= spec.partition => leaders[i].size = spec.size)
                         ELSE leaders[i] = NoLeader
  /\ \A w \in workers : Owned(w)
  /\ setup.mode # "volcano" =>
       DOMAIN podGroups = (IF setup.mode = "lws" /\ spec.replicas > 0 THEN {LwsGroup} ELSE {}) \cup
         UNION {replicaPodGroups(GroupWorkloadName(leaders[i]), i, leaders[i].size) :
                  i \in 0 .. spec.replicas - 1}

\* A leader that failed came back between the deletion of the whole-LWS
\* PodGroup and the scale-down to no replicas, and the user scaled up again
\* before it went: the PodGroup waits for the pod, the reconcile for the
\* PodGroup.
WholeGroupHeld ==
  /\ setup.mode = "lws" /\ LwsGroup \in DOMAIN podGroups
  /\ podGroups[LwsGroup].deleting /\ Referenced(LwsGroup)

\* Once edits and faults stop, every group is admitted and scheduled and every
\* PodGroup without one is gone: no minimum is out of reach, and but for
\* WholeGroupHeld nobody waits for a PodGroup that waits for them
\* (wholeLWSMembership, GroupWorkloadName, recreateGroupSplitByUpgrade).
GroupsStart == <>[](Settled \/ WholeGroupHeld)
=============================================================================
