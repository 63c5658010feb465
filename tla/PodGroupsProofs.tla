---------------------------- MODULE PodGroupsProofs ----------------------------
(***************************************************************************)
(* Proofs about PodGroups: an admitted leader has its PodGroups and nobody *)
(* deletes them, and a gang starts whole, for every size, every number of  *)
(* groups and every scheduling level.                                      *)
(***************************************************************************)
EXTENDS PodGroups, SumProofs

-----------------------------------------------------------------------------
(* The inductive invariant.                                                *)

Sizes == Nat \ {0}

SpecType == [replicas : Nat, size : Sizes, partition : Nat,
             maxSurge : IntOrString, maxUnavailable : IntOrString, dsOwned : BOOLEAN]

LeaderType == [id : Ids, size : Sizes, gated : BOOLEAN, bound : BOOLEAN, deleting : BOOLEAN]

WorkerType ==
  [id : Ids, incarnation : Ids \cup {0}, index : Indices, size : Sizes, created : Nat, bound : Nat]

\* The fields of the StatefulSet and of the reconcile, with the type of the sizes.
Types ==
  /\ setup \in Setups
  /\ leaders \in [Indices -> LeaderType \cup {NoLeader}]
  /\ workers \subseteq WorkerType
  /\ spec \in SpecType
  /\ sts = [replicas |-> sts.replicas, partition |-> sts.partition,
            specReplicas |-> sts.specReplicas, size |-> sts.size, current |-> sts.current]
  /\ sts.size \in Sizes /\ sts.current \in Sizes
  /\ lwsCtl = [active |-> lwsCtl.active, spec |-> lwsCtl.spec, partition |-> lwsCtl.partition,
               replicas |-> lwsCtl.replicas, unused |-> lwsCtl.unused]
  /\ lwsCtl.active => lwsCtl.spec \in SpecType
  /\ spent \in [edits : Nat, faults : Nat, stops : Nat]

NamesOf(i) == replicaPodGroups(GroupWorkloadName(leaders[i]), i, leaders[i].size)

Incarnations == IF setup.mode \in {"replica", "role"} THEN Ids ELSE {0}

\* A PodGroup of a replica is one some leader of the mode may have, and has the
\* minimum of the size in its name.
GroupsSound ==
  \A name \in DOMAIN podGroups : name # LwsGroup =>
    /\ name[1] \in Incarnations /\ name[2] \in Indices /\ name[4] \in Sizes
    /\ name \in replicaPodGroups(name[1], name[2], name[4])
    /\ podGroups[name] \in [min : {GangMinCount(name)}, deleting : BOOLEAN, owner : Ids]

\* What cleanup has listed belongs to no leader that stays, also not to one
\* created since.
CleanupSound ==
  /\ ~Kubernetes => lwsCtl.unused = {}
  /\ \A i \in Indices : Alive(i) => NamesOf(i) \cap lwsCtl.unused = {}

\* The PodGroups are ready from the time the reconcile has ensured them, before
\* the gate is lifted.
AdmittedReady ==
  \A i \in Indices :
    Alive(i) /\ (~leaders[i].gated \/ podCtl = [index |-> i, id |-> leaders[i].id])
      => PodGroupsReady(i)

Prerequisites == Types /\ GroupsSound /\ CleanupSound /\ AdmittedReady

\* A worker StatefulSet has the size of its leader and the incarnation of none
\* other; unless replacements are immediate the pods of a previous one are gone
\* when the gate of a leader is lifted.
Matches(w, l) ==
  /\ w.incarnation \in {0, w.id} /\ w.created <= w.size - 1
  /\ l.id = w.id => l.size = w.size
  /\ l # NoLeader /\ l.id # w.id /\ ~l.gated => setup.immediate \/ w.created = 0

\* An ordinal has one worker StatefulSet.
WorkersSound ==
  /\ \A v, w \in workers : v.index = w.index => v = w
  /\ \A w \in workers : Matches(w, leaders[w.index])

-----------------------------------------------------------------------------
(* Names.                                                                  *)

\* The parts of a replica's PodGroup name.
LEMMA NameParts ==
  ASSUME setup.mode \in Modes, NEW id, NEW i, NEW size, NEW n \in replicaPodGroups(id, i, size)
  PROVE  /\ n[1] = id /\ n[2] = i /\ n[4] = size /\ n # LwsGroup
         /\ n = <<id, i, n[3], size>>
         /\ setup.mode # "lws"
         /\ n[3] \in IF setup.mode = "role" THEN {"leader", "worker"} ELSE {setup.mode}
<1> DEFINE Parts == CASE setup.mode = "lws" -> {}
                      [] setup.mode = "role" -> {"leader", "worker"}
                      [] OTHER -> {setup.mode}
<1>1. PICK part \in Parts : n = <<id, i, part, size>>
  BY DEF replicaPodGroups
<1>2. setup.mode # "lws" /\ part \in IF setup.mode = "role" THEN {"leader", "worker"} ELSE {setup.mode}
  BY <1>1 DEF Modes
<1>3. part # "lws"
  BY <1>2
<1> QED
  BY <1>1, <1>2, <1>3 DEF LwsGroup

\* A leader's names begin with an incarnation its mode has.
LEMMA LeaderNames ==
  ASSUME Types, NEW i \in Indices, leaders[i] # NoLeader
  PROVE  /\ leaders[i] \in LeaderType
         /\ GroupWorkloadName(leaders[i]) \in Incarnations
         /\ setup.mode \in Modes
BY SetupsAssumption DEF Types, LeaderType, GroupWorkloadName, Incarnations

-----------------------------------------------------------------------------
(* What a step changes.                                                    *)

\* A step that leaves leaders, PodGroups and the pod reconcile alone and may end
\* the reconcile of the LeaderWorkerSet.
Aside ==
  /\ UNCHANGED <<leaders, podGroups, podCtl>>
  /\ lwsCtl' = lwsCtl \/ lwsCtl' = Idle

\* The workers are as before, gain a StatefulSet, lose one or one gains a pod.
WorkerStep ==
  \/ UNCHANGED workers
  \/ \E i \in Indices : \E incarnation \in {0, GroupWorkloadName(leaders[i])} :
       WorkersDue(i) /\ workers' = workers \cup {NewWorkers(i, incarnation)}
  \/ \E w \in workers : ~Owned(w) /\ workers' = workers \ {w}
  \/ \E w \in workers : /\ Owned(w) /\ w.created < w.size - 1
                        /\ workers' = (workers \ {w}) \cup {[w EXCEPT !.created = @ + 1]}

\* A leader that stays is deleted and the rest stays.
LeaderDeleted(i) == Alive(i) /\ Deleted(i) /\ UNCHANGED <<podGroups, podCtl, lwsCtl, workers>>

\* The steps, those that differ for neither property taken together.
LEMMA StepCases ==
  ASSUME [Next]_vars
  PROVE  /\ setup' = setup
         /\ \/ Aside /\ WorkerStep
            \/ \E i \in Indices : \/ EnsurePodGroups(i) \/ ReconcileGate(i) \/ LeaderDeleted(i)
                                  \/ StsCreateLeader(i) \/ LeaderGone(i)
            \/ ReconcileGone \/ ReconcileScheduling
            \/ \E name \in lwsCtl.unused : DeleteUnused(name)
            \/ \E name \in DOMAIN podGroups : PodGroupGone(name) \/ Schedule(name)
<1>1. CASE UNCHANGED vars
  BY <1>1 DEF vars, Aside, WorkerStep
<1>2. CASE Controllers
  <2>1. CASE \E i \in Indices : CreateWorkerStatefulSet(i)
    BY <2>1 DEF CreateWorkerStatefulSet, Aside, WorkerStep
  <2>2. CASE \E i \in Indices : recreateGroupSplitByUpgrade(i)
    BY <2>2 DEF recreateGroupSplitByUpgrade, LeaderDeleted
  <2>3. CASE \E i \in Indices : EnsurePodGroups(i) \/ ReconcileGate(i)
    <3>1. setup' = setup
      BY <2>3 DEF EnsurePodGroups, ReconcileGate
    <3> QED BY <2>3, <3>1
  <2>4. CASE SchedulingBlocked \/ ApplyStatefulSet
    BY <2>4 DEF SchedulingBlocked, ApplyStatefulSet, Aside, WorkerStep
  <2>5. CASE ReconcileGone \/ ReconcileScheduling \/ \E name \in lwsCtl.unused : DeleteUnused(name)
    <3>1. setup' = setup
      BY <2>5 DEF ReconcileGone, ReconcileScheduling, DeleteUnused
    <3> QED BY <2>5, <3>1
  <2> QED BY <1>2, <2>1, <2>2, <2>3, <2>4, <2>5 DEF Controllers
<1>3. CASE Cluster
  <2>1. CASE \E i \in Indices : StsDeleteLeader(i)
    BY <2>1 DEF StsDeleteLeader, LeaderDeleted
  <2>2. CASE \E i \in Indices : StsCreateLeader(i) \/ LeaderGone(i)
    <3>1. setup' = setup
      BY <2>2 DEF StsCreateLeader, LeaderGone
    <3> QED BY <2>2, <3>1
  <2>3. CASE StsCompleteRollingUpdate
    BY <2>3 DEF StsCompleteRollingUpdate, Aside, WorkerStep
  <2>4. CASE \E w \in workers : WorkersGone(w)
    BY <2>4 DEF WorkersGone, Aside, WorkerStep
  <2>5. CASE \E w \in workers : StsCreateWorker(w)
    BY <2>5 DEF StsCreateWorker, Aside, WorkerStep
  <2>6. CASE \E name \in DOMAIN podGroups : PodGroupGone(name) \/ Schedule(name)
    <3>1. setup' = setup
      BY <2>6 DEF PodGroupGone, Schedule
    <3> QED BY <2>6, <3>1
  <2> QED BY <1>3, <2>1, <2>2, <2>3, <2>4, <2>5, <2>6 DEF Cluster
<1>4. CASE Environment
  <2>1. CASE \E i \in Indices : GroupFails(i)
    BY <2>1 DEF GroupFails, LeaderDeleted
  <2>2. CASE \E i \in Indices : OldVersionCreatesWorkers(i)
    BY <2>2 DEF OldVersionCreatesWorkers, Aside, WorkerStep
  <2>3. CASE LwsStop \/ Edit
    BY <2>3 DEF LwsStop, Edit, Aside, WorkerStep
  <2> QED BY <1>4, <2>1, <2>2, <2>3 DEF Environment
<1> QED BY <1>1, <1>2, <1>3, <1>4 DEF Next

-----------------------------------------------------------------------------
(* Types.                                                                  *)

LEMMA InitTypes ==
  ASSUME Init
  PROVE  Types
<1>1. setup \in Setups /\ spec \in SpecType /\ Running \subseteq Indices
  BY SetupsAssumption DEF Init, SpecType, Sizes, Running
<1>2. spec.size \in Sizes /\ spec.size - 1 \in Nat /\ 0 \in Nat
  BY <1>1 DEF SpecType, Sizes
<1>3. leaders \in [Indices -> LeaderType \cup {NoLeader}]
  BY <1>1, <1>2, SetupsAssumption DEF Init, LeaderType
<1>4. ASSUME NEW w \in workers
      PROVE  w \in WorkerType
  <2>1. PICK i \in Running : w = [NewWorkers(i, GroupWorkloadName(leaders[i])) EXCEPT
                                    !.created = spec.size - 1, !.bound = spec.size - 1]
    BY <1>4 DEF Init
  <2>2. i \in Indices /\ leaders[i].id = 1 /\ leaders[i].size = spec.size
    BY <1>1 DEF Init
  <2>3. GroupWorkloadName(leaders[i]) \in Ids \cup {0}
    BY <2>2, SetupsAssumption DEF GroupWorkloadName
  <2> QED BY <2>1, <2>2, <2>3, <1>2, SetupsAssumption DEF NewWorkers, WorkerType
<1>5. /\ sts = [replicas |-> sts.replicas, partition |-> sts.partition,
               specReplicas |-> sts.specReplicas, size |-> sts.size, current |-> sts.current]
      /\ sts.size \in Sizes /\ sts.current \in Sizes
  BY <1>2 DEF Init
<1> QED BY <1>1, <1>3, <1>4, <1>5 DEF Init, Types, Idle

\* Sizes come from the spec, by way of the reconcile and the StatefulSet.
LEMMA NextSizes ==
  ASSUME Types, [Next]_vars
  PROVE  /\ spec' \in SpecType
         /\ sts' = [replicas |-> sts'.replicas, partition |-> sts'.partition,
                    specReplicas |-> sts'.specReplicas, size |-> sts'.size, current |-> sts'.current]
         /\ sts'.size \in Sizes /\ sts'.current \in Sizes
         /\ lwsCtl' = [active |-> lwsCtl'.active, spec |-> lwsCtl'.spec,
                       partition |-> lwsCtl'.partition, replicas |-> lwsCtl'.replicas,
                       unused |-> lwsCtl'.unused]
         /\ lwsCtl'.active => lwsCtl'.spec \in SpecType
         /\ spent' \in [edits : Nat, faults : Nat, stops : Nat]
<1> USE DEF Types
<1> DEFINE Kept == /\ UNCHANGED <<spec, sts, lwsCtl>>
                   /\ spent' \in [edits : Nat, faults : Nat, stops : Nat]
<1>0. CASE Kept
  BY <1>0
<1>1. CASE ReconcileScheduling
  BY <1>1 DEF ReconcileScheduling
<1>2. CASE SchedulingBlocked
  BY <1>2 DEF SchedulingBlocked
<1>3. CASE ApplyStatefulSet
  BY <1>3 DEF ApplyStatefulSet, AppliedSts, Idle, SpecType
<1>4. CASE \E name \in lwsCtl.unused : DeleteUnused(name)
  BY <1>4 DEF DeleteUnused
<1>5. CASE StsCompleteRollingUpdate
  BY <1>5 DEF StsCompleteRollingUpdate
<1>6. CASE LwsStop
  BY <1>6 DEF LwsStop, Idle
<1>7. CASE Edit
  <2>1. setup.edits \in Seq([replicas : Nat, size : Sizes])
    BY SetupsAssumption DEF Sizes
  <2>2. setup.edits[spent.edits + 1] \in [replicas : Nat, size : Sizes]
    <3> DEFINE E == [replicas : Nat, size : Sizes]
               n == spent.edits + 1
               edits == setup.edits
    <3>1. spent.edits \in Nat /\ Len(edits) \in Nat /\ spent.edits < Len(edits)
      BY <1>7, <2>1 DEF Edit
    <3>2. n \in 1 .. Len(edits)
      BY <3>1
    <3> HIDE DEF n, E, edits
    <3>3. edits \in Seq(E) => edits[n] \in E
      BY <3>2
    <3> QED BY <2>1, <3>3 DEF n, E, edits
  <2>3. spec' = [spec EXCEPT !.replicas = setup.edits[spent.edits + 1].replicas,
                             !.size = setup.edits[spent.edits + 1].size]
    BY <1>7 DEF Edit
  <2>4. spec' \in SpecType
    BY <2>2, <2>3 DEF SpecType
  <2> QED BY <1>7, <2>4 DEF Edit
<1>8. CASE UNCHANGED vars
  BY <1>8, <1>0 DEF vars
<1>9. ASSUME NEW i \in Indices,
             \/ EnsurePodGroups(i) \/ ReconcileGate(i) \/ CreateWorkerStatefulSet(i)
             \/ recreateGroupSplitByUpgrade(i) \/ StsCreateLeader(i) \/ StsDeleteLeader(i)
             \/ LeaderGone(i) \/ GroupFails(i) \/ OldVersionCreatesWorkers(i)
      PROVE  Kept
  BY <1>9 DEF EnsurePodGroups, ReconcileGate, CreateWorkerStatefulSet, recreateGroupSplitByUpgrade,
              StsCreateLeader, StsDeleteLeader, LeaderGone, GroupFails, OldVersionCreatesWorkers
<1>10. CASE \E w \in workers : WorkersGone(w) \/ StsCreateWorker(w)
  BY <1>10, <1>0 DEF WorkersGone, StsCreateWorker
<1>11. CASE \E name \in DOMAIN podGroups : PodGroupGone(name) \/ Schedule(name)
  BY <1>11, <1>0 DEF PodGroupGone, Schedule
<1>12. CASE ReconcileGone
  BY <1>12, <1>0 DEF ReconcileGone
<1> HIDE DEF Types, Kept
<1> QED
  BY <1>0, <1>1, <1>2, <1>3, <1>4, <1>5, <1>6, <1>7, <1>8, <1>9, <1>10, <1>11, <1>12
     DEF Next, Controllers, Cluster, Environment

\* A new leader is told apart from what is left of its predecessors.
LEMMA FreshId ==
  ASSUME NEW i, FreshIds(i) # {}
  PROVE  /\ Min(FreshIds(i)) \in Ids
         /\ \A w \in workers : w.index = i => w.id # Min(FreshIds(i))
         /\ \A name \in lwsCtl.unused : name[2] = i => name[1] # Min(FreshIds(i))
<1>1. FreshIds(i) \in SUBSET Nat
  BY SetupsAssumption DEF FreshIds
<1>2. PICK x \in FreshIds(i) : \A y \in FreshIds(i) : x <= y
  BY <1>1, LeastNatural
<1>3. Min(FreshIds(i)) \in FreshIds(i)
  BY <1>2 DEF Min
<1> DEFINE m == Min(FreshIds(i))
<1> HIDE DEF m
<1>4. ASSUME m \in FreshIds(i)
      PROVE  /\ m \in Ids
             /\ \A w \in workers : w.index = i => w.id # m
             /\ \A name \in lwsCtl.unused : name[2] = i => name[1] # m
  <2> DEFINE A == {w.id : w \in {v \in workers : v.index = i}}
             B == {podGroups[name].owner : name \in {n \in DOMAIN podGroups : n[2] = i}}
             C == {name[1] : name \in {n \in DOMAIN podGroups \cup lwsCtl.unused : n[2] = i}}
  <2>0. FreshIds(i) = Ids \ (A \cup C \cup B)
    BY Zenon DEF FreshIds
  <2>1. m \in Ids /\ m \notin A /\ m \notin C
    <3> HIDE DEF A, B, C
    <3> QED BY <1>4, <2>0
  <2>2. \A w \in workers : w.index = i => w.id \in A
    OBVIOUS
  <2>3. \A name \in lwsCtl.unused : name[2] = i => name[1] \in C
    OBVIOUS
  <2> HIDE DEF A, B, C
  <2> QED BY <2>1, <2>2, <2>3
<1> QED BY <1>3, <1>4 DEF m

\* The leaders after a step, for the ordinal the step is about.
LEMMA NextLeaders ==
  ASSUME Types, [Next]_vars
  PROVE  leaders' \in [Indices -> LeaderType \cup {NoLeader}]
<1> USE DEF Types
<1>1. CASE Aside
  BY <1>1 DEF Aside
<1>2. ASSUME NEW i \in Indices, EnsurePodGroups(i)
      PROVE  leaders' = leaders
  BY <1>2 DEF EnsurePodGroups
<1>3. ASSUME NEW i \in Indices, ReconcileGate(i)
      PROVE  leaders' \in [Indices -> LeaderType \cup {NoLeader}]
  <2>1. leaders[i] \in LeaderType /\ (leaders[i].gated /\ ~GateOpens(i)) \in BOOLEAN
    BY <1>3 DEF ReconcileGate
  <2>2. [leaders[i] EXCEPT !.gated = leaders[i].gated /\ ~GateOpens(i)] \in LeaderType
    BY <2>1 DEF LeaderType
  <2> QED BY <1>3, <2>2 DEF ReconcileGate
<1>4. ASSUME NEW i \in Indices, LeaderDeleted(i)
      PROVE  leaders' \in [Indices -> LeaderType \cup {NoLeader}]
  <2>1. leaders[i] \in LeaderType
    BY <1>4 DEF LeaderDeleted, Alive
  <2>2. [leaders[i] EXCEPT !.deleting = TRUE] \in LeaderType
    BY <2>1 DEF LeaderType
  <2> QED BY <1>4, <2>2 DEF LeaderDeleted, Deleted
<1>5. ASSUME NEW i \in Indices, StsCreateLeader(i)
      PROVE  leaders' \in [Indices -> LeaderType \cup {NoLeader}]
  <2>1. Min(FreshIds(i)) \in Ids
    BY <1>5, FreshId DEF StsCreateLeader
  <2>2. [id |-> Min(FreshIds(i)), size |-> IF i < sts.partition THEN sts.current ELSE sts.size,
         gated |-> TRUE, bound |-> FALSE, deleting |-> FALSE] \in LeaderType
    BY <2>1 DEF LeaderType
  <2> QED BY <1>5, <2>2 DEF StsCreateLeader
<1>6. ASSUME NEW i \in Indices, LeaderGone(i)
      PROVE  leaders' \in [Indices -> LeaderType \cup {NoLeader}]
  BY <1>6 DEF LeaderGone
<1>7. CASE ReconcileGone \/ ReconcileScheduling
  BY <1>7 DEF ReconcileGone, ReconcileScheduling
<1>8. CASE \E name \in lwsCtl.unused : DeleteUnused(name)
  BY <1>8 DEF DeleteUnused
<1>9. CASE \E name \in DOMAIN podGroups : PodGroupGone(name)
  BY <1>9 DEF PodGroupGone
<1>10. ASSUME NEW name \in DOMAIN podGroups, Schedule(name)
       PROVE  leaders' \in [Indices -> LeaderType \cup {NoLeader}]
  <2> DEFINE waiting == {i \in Indices : Alive(i) /\ ~leaders[i].gated /\ LeaderGroup(i) = name}
  <2>1. leaders' = [i \in Indices |-> IF i \in waiting THEN [leaders[i] EXCEPT !.bound = TRUE]
                                      ELSE leaders[i]]
    BY <1>10 DEF Schedule
  <2>2. \A i \in waiting : i \in Indices /\ leaders[i] \in LeaderType
    BY DEF Alive
  <2> HIDE DEF waiting
  <2>3. \A i \in waiting : [leaders[i] EXCEPT !.bound = TRUE] \in LeaderType
    BY <2>2 DEF LeaderType
  <2> QED BY <2>1, <2>3
<1> HIDE DEF Types
<1> QED
  BY <1>1, <1>2, <1>3, <1>4, <1>5, <1>6, <1>7, <1>8, <1>9, <1>10, StepCases DEF Types

\* Only WorkerStep and the scheduler change workers.
LEMMA WorkersKept ==
  ASSUME [Next]_vars
  PROVE  \/ WorkerStep /\ leaders' = leaders
         \/ workers' = workers
         \/ \E name \in DOMAIN podGroups : Schedule(name)
<1>1. ASSUME NEW i \in Indices,
             \/ EnsurePodGroups(i) \/ ReconcileGate(i) \/ LeaderDeleted(i)
             \/ StsCreateLeader(i) \/ LeaderGone(i)
      PROVE  workers' = workers
  BY <1>1 DEF EnsurePodGroups, ReconcileGate, LeaderDeleted, StsCreateLeader, LeaderGone
<1>2. ReconcileGone \/ ReconcileScheduling => workers' = workers
  BY DEF ReconcileGone, ReconcileScheduling
<1>3. \A name \in lwsCtl.unused : DeleteUnused(name) => workers' = workers
  BY DEF DeleteUnused
<1>4. \A name \in DOMAIN podGroups : PodGroupGone(name) => workers' = workers
  BY DEF PodGroupGone
<1>5. Aside => leaders' = leaders
  BY DEF Aside
<1> QED BY <1>1, <1>2, <1>3, <1>4, <1>5, StepCases

LEMMA NewWorkersType ==
  ASSUME Types, NEW i \in Indices, WorkersDue(i),
         NEW incarnation \in {0, GroupWorkloadName(leaders[i])}
  PROVE  NewWorkers(i, incarnation) \in WorkerType
<1>1. leaders[i] \in LeaderType
  BY DEF Types, WorkersDue, Alive
<1>2. incarnation \in Ids \cup {0}
  BY <1>1 DEF GroupWorkloadName, LeaderType
<1> QED BY <1>1, <1>2 DEF NewWorkers, WorkerType, LeaderType

LEMMA NextWorkers ==
  ASSUME Types, [Next]_vars
  PROVE  workers' \subseteq WorkerType
<1>0. workers \subseteq WorkerType
  BY DEF Types
<1>1. CASE WorkerStep
  <2>1. ASSUME NEW w \in workers, w.created < w.size - 1
        PROVE  [w EXCEPT !.created = @ + 1] \in WorkerType
    BY <1>0, <2>1 DEF WorkerType
  <2> QED BY <1>0, <1>1, <2>1, NewWorkersType DEF WorkerStep
<1>2. ASSUME NEW name \in DOMAIN podGroups, Schedule(name)
      PROVE  workers' \subseteq WorkerType
  <2> DEFINE pending == {w \in workers : Owned(w) /\ WorkerGroup(w) = name}
  <2>1. workers' = (workers \ pending) \cup {[w EXCEPT !.bound = w.created] : w \in pending}
    BY <1>2 DEF Schedule
  <2>2. pending \subseteq workers
    OBVIOUS
  <2> HIDE DEF pending
  <2>3. \A w \in pending : [w EXCEPT !.bound = w.created] \in WorkerType
    BY <1>0, <2>2 DEF WorkerType
  <2> QED BY <1>0, <2>1, <2>3
<1> QED BY <1>0, <1>1, <1>2, WorkersKept

LEMMA NextTypes ==
  ASSUME Types, [Next]_vars
  PROVE  Types'
<1>1. setup' \in Setups
  BY StepCases DEF Types
<1> QED BY <1>1, NextSizes, NextLeaders, NextWorkers DEF Types

-----------------------------------------------------------------------------
(* PodGroups.                                                              *)

\* Names and minimums depend on the mode only, which stays.
LEMMA SameNames ==
  ASSUME setup' = setup
  PROVE  /\ \A n : GangMinCount(n)' = GangMinCount(n)
         /\ \A id, i, size : replicaPodGroups(id, i, size)' = replicaPodGroups(id, i, size)
         /\ \A l : GroupWorkloadName(l)' = GroupWorkloadName(l)
         /\ Incarnations' = Incarnations
         /\ Kubernetes' = Kubernetes
BY DEF GangMinCount, Kubernetes, leafMembership, replicaPodGroups, GroupWorkloadName, Incarnations

\* Ensuring PodGroups adds the missing ones and leaves the others as they are:
\* their minimum is right already.
LEMMA EnsuredAdds ==
  ASSUME GroupsSound, NEW names, NEW owner
  PROVE  /\ DOMAIN Ensured(names, owner) = names \cup DOMAIN podGroups
         /\ \A n \in DOMAIN podGroups : n # LwsGroup => Ensured(names, owner)[n] = podGroups[n]
         /\ \A n \in names \ DOMAIN podGroups : Ensured(names, owner)[n] = NewPodGroup(n, owner)
<1>1. ASSUME NEW n \in DOMAIN podGroups, n # LwsGroup
      PROVE  updateMutablePodGroupFields(n) = podGroups[n]
  <2>1. podGroups[n] \in [min : {GangMinCount(n)}, deleting : BOOLEAN, owner : Ids]
    BY <1>1 DEF GroupsSound
  <2> HIDE DEF GangMinCount
  <2> QED BY <2>1 DEF updateMutablePodGroupFields
<1> QED BY <1>1 DEF Ensured

\* A PodGroup of a replica is kept, marked as deleted, or new and then that of
\* the live leader the reconcile is about.
LEMMA GroupsStep ==
  ASSUME Types, GroupsSound, [Next]_vars,
         NEW n \in DOMAIN podGroups', n # LwsGroup
  PROVE  \/ /\ n \in DOMAIN podGroups
            /\ \/ podGroups'[n] = podGroups[n]
               \/ /\ podGroups'[n] = [podGroups[n] EXCEPT !.deleting = TRUE]
                  /\ n \in lwsCtl.unused
         \/ /\ n \notin DOMAIN podGroups
            /\ \E i \in Indices : /\ Alive(i) /\ n \in NamesOf(i)
                                  /\ podGroups'[n] = NewPodGroup(n, leaders[i].id)
<1>1. ASSUME NEW i \in Indices, EnsurePodGroups(i)
      PROVE  \/ n \in DOMAIN podGroups /\ podGroups'[n] = podGroups[n]
             \/ /\ n \notin DOMAIN podGroups /\ Alive(i) /\ n \in NamesOf(i)
                /\ podGroups'[n] = NewPodGroup(n, leaders[i].id)
  <2>1. PICK some \in SUBSET NamesOf(i) : podGroups' = Ensured(some, leaders[i].id)
    BY <1>1 DEF EnsurePodGroups, NamesOf
  <2> HIDE DEF NamesOf
  <2>2. Alive(i)
    BY <1>1 DEF EnsurePodGroups
  <2>3. /\ DOMAIN podGroups' = some \cup DOMAIN podGroups
        /\ n \in DOMAIN podGroups => podGroups'[n] = podGroups[n]
        /\ n \in some \ DOMAIN podGroups => podGroups'[n] = NewPodGroup(n, leaders[i].id)
    BY <2>1, EnsuredAdds, Zenon
  <2> QED BY <2>1, <2>2, <2>3
<1>2. CASE ReconcileScheduling
  <2>1. podGroups' = WholeEnsured(Parameters.replicas)
    BY <1>2 DEF ReconcileScheduling
  <2> QED BY <2>1 DEF WholeEnsured
<1>3. CASE \E name \in lwsCtl.unused : DeleteUnused(name)
  BY <1>3 DEF DeleteUnused
<1>4. CASE \E name \in DOMAIN podGroups : PodGroupGone(name)
  BY <1>4 DEF PodGroupGone
<1>5. ASSUME NEW i \in Indices,
             ReconcileGate(i) \/ LeaderDeleted(i) \/ StsCreateLeader(i) \/ LeaderGone(i)
      PROVE  podGroups' = podGroups
  BY <1>5 DEF ReconcileGate, LeaderDeleted, StsCreateLeader, LeaderGone
<1>6. ReconcileGone \/ Aside \/ (\E name \in DOMAIN podGroups : Schedule(name)) => podGroups' = podGroups
  BY DEF ReconcileGone, Aside, Schedule
<1> QED BY <1>1, <1>2, <1>3, <1>4, <1>5, <1>6, StepCases

LEMMA NextGroupsSound ==
  ASSUME Types, GroupsSound, [Next]_vars
  PROVE  GroupsSound'
<1>0. setup' = setup
  BY StepCases
<1> SUFFICES ASSUME NEW n \in DOMAIN podGroups', n # LwsGroup
             PROVE  /\ n[1] \in Incarnations /\ n[2] \in Indices /\ n[4] \in Sizes
                    /\ n \in replicaPodGroups(n[1], n[2], n[4])
                    /\ podGroups'[n] \in [min : {GangMinCount(n)}, deleting : BOOLEAN, owner : Ids]
  BY <1>0, SameNames DEF GroupsSound, LwsGroup
<1>1. CASE n \in DOMAIN podGroups
  <2>1. /\ n[1] \in Incarnations /\ n[2] \in Indices /\ n[4] \in Sizes
        /\ n \in replicaPodGroups(n[1], n[2], n[4])
        /\ podGroups[n] \in [min : {GangMinCount(n)}, deleting : BOOLEAN, owner : Ids]
    BY <1>1 DEF GroupsSound
  <2>2. [podGroups[n] EXCEPT !.deleting = TRUE] \in [min : {GangMinCount(n)}, deleting : BOOLEAN, owner : Ids]
    BY <2>1
  <2> QED BY <1>1, <2>1, <2>2, GroupsStep
<1>2. CASE n \notin DOMAIN podGroups
  <2>1. PICK i \in Indices : /\ Alive(i) /\ n \in NamesOf(i)
                             /\ podGroups'[n] = NewPodGroup(n, leaders[i].id)
    BY <1>2, GroupsStep
  <2>2. leaders[i] \in LeaderType /\ GroupWorkloadName(leaders[i]) \in Incarnations /\ setup.mode \in Modes
    BY <2>1, LeaderNames DEF Alive
  <2>3. n[1] = GroupWorkloadName(leaders[i]) /\ n[2] = i /\ n[4] = leaders[i].size
    BY <2>1, <2>2, NameParts DEF NamesOf
  <2>4. n \in replicaPodGroups(n[1], n[2], n[4])
    BY <2>1, <2>3 DEF NamesOf
  <2> QED BY <2>1, <2>2, <2>3, <2>4 DEF LeaderType, NewPodGroup
<1> QED BY <1>1, <1>2

\* A PodGroup goes only when it may.
LEMMA GroupLeaves ==
  ASSUME Types, GroupsSound, [Next]_vars, NEW n \in DOMAIN podGroups, n \notin DOMAIN podGroups'
  PROVE  PodGroupGone(n)
<1>1. ASSUME NEW i \in Indices, EnsurePodGroups(i)
      PROVE  FALSE
  <2>1. PICK some \in SUBSET NamesOf(i) : podGroups' = Ensured(some, leaders[i].id)
    BY <1>1 DEF EnsurePodGroups, NamesOf
  <2>2. DOMAIN podGroups' = some \cup DOMAIN podGroups
    BY <2>1, EnsuredAdds, Zenon
  <2> QED BY <2>2
<1>2. ~ReconcileScheduling
  <2>1. ASSUME ReconcileScheduling
        PROVE  podGroups' = WholeEnsured(Parameters.replicas)
    BY <2>1 DEF ReconcileScheduling
  <2> QED BY <2>1 DEF WholeEnsured
<1>3. ~ \E name \in lwsCtl.unused : DeleteUnused(name)
  BY DEF DeleteUnused
<1>4. ASSUME NEW name \in DOMAIN podGroups, PodGroupGone(name)
      PROVE  name = n
  BY <1>4 DEF PodGroupGone
<1>5. ASSUME NEW i \in Indices,
             ReconcileGate(i) \/ LeaderDeleted(i) \/ StsCreateLeader(i) \/ LeaderGone(i)
      PROVE  FALSE
  BY <1>5 DEF ReconcileGate, LeaderDeleted, StsCreateLeader, LeaderGone
<1>6. ~(ReconcileGone \/ Aside \/ \E name \in DOMAIN podGroups : Schedule(name))
  BY DEF ReconcileGone, Aside, Schedule
<1> QED BY <1>1, <1>2, <1>3, <1>4, <1>5, <1>6, StepCases

-----------------------------------------------------------------------------
(* Leaders and the pod reconcile.                                          *)

\* A live leader was there before, admitted at most by its own reconcile, or is
\* new.
LEMMA LeaderStep ==
  ASSUME Types, [Next]_vars, NEW j \in Indices, Alive(j)'
  PROVE  \/ /\ Alive(j)
            /\ leaders'[j].id = leaders[j].id /\ leaders'[j].size = leaders[j].size
            /\ ~leaders'[j].gated =>
                 ~leaders[j].gated \/ podCtl = [index |-> j, id |-> leaders[j].id]
         \/ StsCreateLeader(j)
<1>0. leaders \in [Indices -> LeaderType \cup {NoLeader}] /\ Alive(j)' = (leaders'[j] # NoLeader /\ ~leaders'[j].deleting)
  BY DEF Types, Alive, NoLeader
<1>1. CASE leaders' = leaders
  BY <1>1, <1>0 DEF Alive
<1>2. ASSUME NEW i \in Indices, ReconcileGate(i)
      PROVE  /\ Alive(j)
             /\ leaders'[j].id = leaders[j].id /\ leaders'[j].size = leaders[j].size
             /\ ~leaders'[j].gated =>
                  ~leaders[j].gated \/ podCtl = [index |-> j, id |-> leaders[j].id]
  <2>1. /\ leaders[i] \in LeaderType
        /\ leaders' = [leaders EXCEPT ![i].gated = @ /\ ~GateOpens(i)]
        /\ podCtl = [index |-> i, id |-> leaders[i].id]
    BY <1>2, <1>0 DEF ReconcileGate
  <2>2. CASE i = j
    <3>1. leaders'[j] = [leaders[j] EXCEPT !.gated = leaders[j].gated /\ ~GateOpens(j)]
      BY <2>1, <2>2, <1>0
    <3>2. /\ leaders'[j].id = leaders[j].id /\ leaders'[j].size = leaders[j].size
          /\ leaders'[j].deleting = leaders[j].deleting
      BY <3>1, <2>1, <2>2 DEF LeaderType
    <3>3. leaders[j] # NoLeader
      BY <1>2, <2>2 DEF ReconcileGate
    <3> QED BY <2>1, <2>2, <3>2, <3>3, <1>0 DEF Alive
  <2>3. CASE i # j
    BY <2>1, <2>3, <1>0 DEF Alive
  <2> QED BY <2>2, <2>3
<1>3. ASSUME NEW i \in Indices, LeaderDeleted(i)
      PROVE  i # j /\ leaders'[j] = leaders[j]
  <2>1. leaders[i] \in LeaderType /\ leaders' = [leaders EXCEPT ![i].deleting = TRUE]
    BY <1>3, <1>0 DEF LeaderDeleted, Deleted, Alive
  <2> QED BY <2>1, <1>0 DEF LeaderType
<1>4. ASSUME NEW i \in Indices, StsCreateLeader(i)
      PROVE  i = j \/ leaders'[j] = leaders[j]
  BY <1>4, <1>0 DEF StsCreateLeader
<1>5. ASSUME NEW i \in Indices, LeaderGone(i)
      PROVE  i # j /\ leaders'[j] = leaders[j]
  BY <1>5, <1>0 DEF LeaderGone
<1>6. ASSUME NEW name \in DOMAIN podGroups, Schedule(name)
      PROVE  \/ leaders'[j] = leaders[j]
             \/ Alive(j) /\ leaders'[j] = [leaders[j] EXCEPT !.bound = TRUE]
  <2> DEFINE waiting == {i \in Indices : Alive(i) /\ ~leaders[i].gated /\ LeaderGroup(i) = name}
  <2>1. leaders' = [i \in Indices |-> IF i \in waiting THEN [leaders[i] EXCEPT !.bound = TRUE]
                                      ELSE leaders[i]]
    BY <1>6 DEF Schedule
  <2>2. j \in waiting => Alive(j)
    OBVIOUS
  <2> HIDE DEF waiting
  <2> QED BY <2>1, <2>2
<1>7. leaders'[j] = [leaders[j] EXCEPT !.bound = TRUE] /\ Alive(j) =>
        /\ leaders'[j].id = leaders[j].id /\ leaders'[j].size = leaders[j].size
        /\ leaders'[j].gated = leaders[j].gated
  BY <1>0 DEF Alive, LeaderType
<1>8. leaders'[j] = leaders[j] => Alive(j)
  BY <1>0 DEF Alive
<1>9. ASSUME \/ Aside \/ ReconcileGone \/ ReconcileScheduling
             \/ \E i \in Indices : EnsurePodGroups(i)
             \/ \E name \in lwsCtl.unused : DeleteUnused(name)
             \/ \E name \in DOMAIN podGroups : PodGroupGone(name)
      PROVE  leaders' = leaders
  BY <1>9 DEF Aside, ReconcileGone, ReconcileScheduling, EnsurePodGroups, DeleteUnused, PodGroupGone
<1> QED BY <1>1, <1>2, <1>3, <1>4, <1>5, <1>6, <1>7, <1>8, <1>9, StepCases

LEMMA SameNamesOf ==
  ASSUME setup' = setup, NEW j, leaders'[j].id = leaders[j].id, leaders'[j].size = leaders[j].size
  PROVE  NamesOf(j)' = NamesOf(j)
BY DEF NamesOf, replicaPodGroups, GroupWorkloadName

\* Cleanup lists nothing of a leader that stays, and the list only shrinks.
LEMMA UnusedStep ==
  ASSUME [Next]_vars, Types
  PROVE  \/ lwsCtl'.unused \subseteq lwsCtl.unused
         \/ /\ leaders' = leaders
            /\ \E replicas : lwsCtl'.unused = Unused(podGroups', replicas)
<1>1. CASE ReconcileScheduling
  BY <1>1 DEF ReconcileScheduling
<1>2. CASE \E name \in lwsCtl.unused : DeleteUnused(name)
  BY <1>2 DEF DeleteUnused, Types
<1>3. CASE Aside
  BY <1>3 DEF Aside, Idle
<1>4. ASSUME NEW i \in Indices,
             \/ EnsurePodGroups(i) \/ ReconcileGate(i) \/ LeaderDeleted(i)
             \/ StsCreateLeader(i) \/ LeaderGone(i)
      PROVE  lwsCtl' = lwsCtl
  BY <1>4 DEF EnsurePodGroups, ReconcileGate, LeaderDeleted, StsCreateLeader, LeaderGone
<1>5. ReconcileGone \/ (\E name \in DOMAIN podGroups : PodGroupGone(name) \/ Schedule(name))
        => lwsCtl' = lwsCtl
  BY DEF ReconcileGone, PodGroupGone, Schedule
<1> QED BY <1>1, <1>2, <1>3, <1>4, <1>5, StepCases

LEMMA NextCleanupSound ==
  ASSUME Types, CleanupSound, [Next]_vars
  PROVE  CleanupSound'
<1>0. setup' = setup /\ Kubernetes' = Kubernetes
  BY StepCases DEF Kubernetes
<1>1. ~Kubernetes => lwsCtl'.unused = {}
  BY UnusedStep DEF CleanupSound, Unused
<1>2. ASSUME NEW j \in Indices, Alive(j)'
      PROVE  NamesOf(j)' \cap lwsCtl'.unused = {}
  <2>1. CASE /\ leaders' = leaders
             /\ \E replicas : lwsCtl'.unused = Unused(podGroups', replicas)
    <3>1. Alive(j) /\ NamesOf(j)' = NamesOf(j)
      BY <1>0, <1>2, <2>1, SameNamesOf DEF Alive
    <3>2. PICK replicas : lwsCtl'.unused = Unused(podGroups', replicas)
      BY <2>1
    <3> DEFINE Live == {k \in Indices : Alive(k)}
               U == UNION {NamesOf(i) : i \in Live}
    <3>3. lwsCtl'.unused \cap U = {}
      BY <3>2 DEF Unused, NamesOf
    <3>4. NamesOf(j) \subseteq U
      <4> HIDE DEF NamesOf
      <4> QED BY <3>1
    <3> HIDE DEF U
    <3> QED BY <3>1, <3>3, <3>4
  <2>2. CASE lwsCtl'.unused \subseteq lwsCtl.unused /\ Alive(j)
             /\ leaders'[j].id = leaders[j].id /\ leaders'[j].size = leaders[j].size
    BY <1>0, <2>2, SameNamesOf DEF CleanupSound
  <2>3. CASE StsCreateLeader(j) /\ lwsCtl'.unused \subseteq lwsCtl.unused
    <3>1. lwsCtl' = lwsCtl /\ FreshIds(j) # {} /\ leaders'[j].id = Min(FreshIds(j))
      BY <2>3 DEF StsCreateLeader, Types
    <3>2. setup.mode \in Modes
      BY SetupsAssumption DEF Types
    <3>3. NamesOf(j)' = replicaPodGroups(GroupWorkloadName(leaders'[j]), j, leaders'[j].size)
      BY <1>0 DEF NamesOf, replicaPodGroups, GroupWorkloadName
    <3>4. SUFFICES ASSUME NEW n \in lwsCtl.unused, n \in NamesOf(j)'
                   PROVE  FALSE
      BY <3>1
    <3>5. n[1] = GroupWorkloadName(leaders'[j]) /\ n[2] = j /\ setup.mode # "lws"
      BY <3>2, <3>3, <3>4, NameParts
    <3>6. n[1] # leaders'[j].id
      BY <3>1, <3>5, FreshId
    <3>7. setup.mode \in {"replica", "role"}
      BY <3>4, <3>5, <3>2 DEF CleanupSound, Kubernetes, Modes
    <3> QED BY <3>5, <3>6, <3>7 DEF GroupWorkloadName
  <2> QED BY <1>2, <2>1, <2>2, <2>3, UnusedStep, LeaderStep
<1> QED BY <1>0, <1>1, <1>2 DEF CleanupSound

\* The reconcile of a leader has ensured its PodGroups, now or before.
LEMMA PodCtlStep ==
  ASSUME [Next]_vars, Types, NEW j \in Indices, leaders'[j] # NoLeader,
         podCtl' = [index |-> j, id |-> leaders'[j].id]
  PROVE  \/ podCtl' = podCtl
         \/ EnsurePodGroups(j) /\ podGroups' = Ensured(NamesOf(j), leaders[j].id) /\ leaders' = leaders
<1>0. podCtl' # NoReconcile
  <2>1. leaders'[j].id \in Ids
    BY NextTypes DEF Types, LeaderType
  <2> QED BY <2>1, SetupsAssumption DEF NoReconcile
<1>1. ASSUME NEW i \in Indices, EnsurePodGroups(i), podCtl' # podCtl
      PROVE  i = j /\ podGroups' = Ensured(NamesOf(j), leaders[j].id) /\ leaders' = leaders
  <2>1. /\ podCtl' = [index |-> i, id |-> leaders[i].id] /\ leaders' = leaders
        /\ podGroups' = Ensured(NamesOf(i), leaders[i].id)
    BY <1>1 DEF EnsurePodGroups, NamesOf
  <2>2. i = j
    BY <2>1
  <2> QED BY <2>1, <2>2
<1>2. ASSUME NEW i \in Indices, LeaderDeleted(i) \/ StsCreateLeader(i) \/ LeaderGone(i)
      PROVE  podCtl' = podCtl
  BY <1>2 DEF LeaderDeleted, StsCreateLeader, LeaderGone
<1>3. \A i \in Indices : ~ReconcileGate(i)
  BY <1>0 DEF ReconcileGate
<1>4. ~ReconcileGone
  BY <1>0 DEF ReconcileGone
<1>5. ReconcileScheduling \/ Aside => podCtl' = podCtl
  BY DEF ReconcileScheduling, Aside
<1>6. \A name \in lwsCtl.unused : DeleteUnused(name) => podCtl' = podCtl
  BY DEF DeleteUnused
<1>7. \A name \in DOMAIN podGroups : PodGroupGone(name) \/ Schedule(name) => podCtl' = podCtl
  BY DEF PodGroupGone, Schedule
<1> QED BY <1>1, <1>2, <1>3, <1>4, <1>5, <1>6, <1>7, StepCases

\* What PodGroupsReady says after a step.
LEMMA ReadyNext ==
  ASSUME setup' = setup, NEW j,
         \A n \in NamesOf(j)' :
           /\ n \in DOMAIN podGroups' /\ ~podGroups'[n].deleting
           /\ podGroups'[n].min = GangMinCount(n)
           /\ setup.mode = "legacy" => podGroups'[n].owner = leaders'[j].id
  PROVE  PodGroupsReady(j)'
BY SameNames DEF PodGroupsReady, NamesOf

LEMMA NextAdmittedReady ==
  ASSUME Prerequisites, [Next]_vars
  PROVE  AdmittedReady'
<1>0. setup' = setup
  BY StepCases
<1>t. Types /\ GroupsSound /\ CleanupSound /\ AdmittedReady /\ Types' /\ GroupsSound'
  BY NextTypes, NextGroupsSound DEF Prerequisites
<1>m. setup.mode \in Modes
  BY <1>t, SetupsAssumption DEF Types
<1> SUFFICES ASSUME NEW j \in Indices, Alive(j)',
                    ~leaders'[j].gated \/ podCtl' = [index |-> j, id |-> leaders'[j].id]
             PROVE  PodGroupsReady(j)'
  BY DEF AdmittedReady
<1>1. CASE /\ Alive(j)
           /\ leaders'[j].id = leaders[j].id /\ leaders'[j].size = leaders[j].size
           /\ ~leaders[j].gated \/ podCtl = [index |-> j, id |-> leaders[j].id]
  <2>1. PodGroupsReady(j) /\ NamesOf(j)' = NamesOf(j) /\ NamesOf(j) \cap lwsCtl.unused = {}
    BY <1>0, <1>1, <1>t, SameNamesOf DEF AdmittedReady, CleanupSound
  <2>2. ASSUME NEW n \in NamesOf(j)
        PROVE  /\ n \in DOMAIN podGroups' /\ ~podGroups'[n].deleting
               /\ podGroups'[n].min = GangMinCount(n)
               /\ setup.mode = "legacy" => podGroups'[n].owner = leaders'[j].id
    <3>1. /\ n \in DOMAIN podGroups /\ ~podGroups[n].deleting
          /\ podGroups[n].min = GangMinCount(n)
          /\ setup.mode = "legacy" => podGroups[n].owner = leaders[j].id
      BY <2>1, <2>2 DEF PodGroupsReady, NamesOf
    <3>2. n[2] = j /\ n # LwsGroup
      BY <2>2, <1>m, NameParts DEF NamesOf
    <3>3. n \in DOMAIN podGroups'
      <4>1. ~PodGroupGone(n)
        BY <3>1, <3>2 DEF PodGroupGone
      <4> QED BY <4>1, <3>1, <1>t, GroupLeaves
    <3>4. podGroups'[n] = podGroups[n]
      BY <2>1, <2>2, <3>1, <3>2, <3>3, <1>t, GroupsStep
    <3> QED BY <1>1, <3>1, <3>3, <3>4
  <2> HIDE DEF NamesOf, GangMinCount
  <2> QED BY <2>1, <2>2, <1>0, ReadyNext
<1>2. CASE EnsurePodGroups(j) /\ podGroups' = Ensured(NamesOf(j), leaders[j].id) /\ leaders' = leaders
  <2>1. NamesOf(j)' = NamesOf(j) /\ ~Blocked(j)
    BY <1>0, <1>2, SameNamesOf DEF EnsurePodGroups
  <2>2. ASSUME NEW n \in NamesOf(j)
        PROVE  /\ n \in DOMAIN podGroups' /\ ~podGroups'[n].deleting
               /\ podGroups'[n].min = GangMinCount(n)
               /\ setup.mode = "legacy" => podGroups'[n].owner = leaders'[j].id
    <3>1. n # LwsGroup
      BY <2>2, <1>m, NameParts DEF NamesOf
    <3>2. /\ n \in DOMAIN podGroups'
          /\ n \in DOMAIN podGroups => podGroups'[n] = podGroups[n]
          /\ n \notin DOMAIN podGroups => podGroups'[n] = NewPodGroup(n, leaders[j].id)
      <4> HIDE DEF NamesOf
      <4> DEFINE G == Ensured(NamesOf(j), leaders[j].id)
      <4>1. /\ DOMAIN G = NamesOf(j) \cup DOMAIN podGroups
            /\ \A m \in DOMAIN podGroups : m # LwsGroup => G[m] = podGroups[m]
            /\ \A m \in NamesOf(j) \ DOMAIN podGroups : G[m] = NewPodGroup(m, leaders[j].id)
        BY <1>t, EnsuredAdds, Zenon
      <4> HIDE DEF G
      <4> QED BY <2>2, <3>1, <1>2, <4>1 DEF G
    <3>3. CASE n \in DOMAIN podGroups
      <4>1. ~podGroups[n].deleting /\ (setup.mode = "legacy" => podGroups[n].owner = leaders[j].id)
        BY <2>1, <2>2, <3>3 DEF Blocked, NamesOf
      <4>2. podGroups[n].min = GangMinCount(n)
        BY <3>1, <3>3, <1>t DEF GroupsSound
      <4> QED BY <1>2, <3>2, <3>3, <4>1, <4>2
    <3>4. CASE n \notin DOMAIN podGroups
      <4> HIDE DEF GangMinCount
      <4> QED BY <1>2, <3>2, <3>4 DEF NewPodGroup
    <3> QED BY <3>3, <3>4
  <2> HIDE DEF NamesOf, GangMinCount
  <2> QED BY <2>1, <2>2, <1>0, ReadyNext
<1>3. CASE StsCreateLeader(j)
  <2>1. leaders'[j].gated /\ leaders'[j].id \in Ids /\ podCtl' = podCtl
    BY <1>3, <1>t, FreshId DEF StsCreateLeader, Types
  <2> QED BY <1>3, <2>1, SetupsAssumption DEF StsCreateLeader, NoReconcile
<1> QED
  <2>1. leaders'[j] # NoLeader
    BY DEF Alive, NoLeader
  <2> QED BY <1>1, <1>2, <1>3, <1>t, <2>1, LeaderStep, PodCtlStep

-----------------------------------------------------------------------------
(* An admitted leader has its PodGroups.                                   *)

LEMMA InitPrerequisites ==
  ASSUME Init
  PROVE  Prerequisites
<1>t. Types /\ setup.mode \in Modes
  BY InitTypes, SetupsAssumption DEF Types
<1> DEFINE All == UNION {replicaPodGroups(GroupWorkloadName(leaders[i]), i, spec.size) : i \in Running}
<1>1. /\ All \subseteq DOMAIN podGroups
      /\ \A n \in DOMAIN podGroups : n # LwsGroup =>
           n \in All /\ podGroups[n] = [min |-> GangMinCount(n), deleting |-> FALSE, owner |-> 1]
  BY Zenon DEF Init
<1>2. \A i \in Indices : IF i \in Running THEN /\ leaders[i] \in LeaderType
                                               /\ leaders[i].size = spec.size /\ leaders[i].id = 1
                         ELSE leaders[i] = NoLeader
  BY <1>t DEF Init, Types, NoLeader
<1>r. Running \subseteq Indices /\ spec.size \in Sizes
  BY <1>t, SetupsAssumption DEF Init, Running, Types, SpecType
<1>3. GroupsSound
  <2> SUFFICES ASSUME NEW n \in DOMAIN podGroups, n # LwsGroup
               PROVE  /\ n[1] \in Incarnations /\ n[2] \in Indices /\ n[4] \in Sizes
                      /\ n \in replicaPodGroups(n[1], n[2], n[4])
                      /\ podGroups[n] \in [min : {GangMinCount(n)}, deleting : BOOLEAN, owner : Ids]
    BY DEF GroupsSound
  <2>1. PICK i \in Running : n \in replicaPodGroups(GroupWorkloadName(leaders[i]), i, spec.size)
    BY <1>1
  <2>2. n[1] = GroupWorkloadName(leaders[i]) /\ n[2] = i /\ n[4] = spec.size
    BY <1>t, <2>1, NameParts
  <2>3. GroupWorkloadName(leaders[i]) \in Incarnations
    BY <1>2, <1>r, SetupsAssumption DEF GroupWorkloadName, Incarnations
  <2>4. [min |-> GangMinCount(n), deleting |-> FALSE, owner |-> 1]
          \in [min : {GangMinCount(n)}, deleting : BOOLEAN, owner : Ids]
    BY SetupsAssumption
  <2> QED BY <1>1, <1>r, <2>1, <2>2, <2>3, <2>4
<1>4. CleanupSound
  BY DEF Init, Idle, CleanupSound
<1>5. AdmittedReady
  <2> SUFFICES ASSUME NEW j \in Indices, Alive(j)
               PROVE  PodGroupsReady(j)
    BY DEF AdmittedReady
  <2>1. j \in Running /\ leaders[j].size = spec.size /\ leaders[j].id = 1
    BY <1>2 DEF Alive
  <2> SUFFICES ASSUME NEW n \in NamesOf(j)
               PROVE  /\ n \in DOMAIN podGroups /\ ~podGroups[n].deleting
                      /\ podGroups[n].min = GangMinCount(n)
                      /\ setup.mode = "legacy" => podGroups[n].owner = leaders[j].id
    BY DEF PodGroupsReady, NamesOf
  <2>2. n \in All
    BY <2>1 DEF NamesOf
  <2>3. n # LwsGroup
    BY <1>t, NameParts DEF NamesOf
  <2> HIDE DEF All, GangMinCount
  <2> QED BY <1>1, <2>1, <2>2, <2>3
<1> QED BY <1>t, <1>3, <1>4, <1>5 DEF Prerequisites

LEMMA NextPrerequisites ==
  ASSUME Prerequisites, [Next]_vars
  PROVE  Prerequisites'
BY NextTypes, NextGroupsSound, NextCleanupSound, NextAdmittedReady DEF Prerequisites

\* An admitted leader that stays has its PodGroups, of its own size, and nobody
\* is deleting them, for every number of groups and every scheduling level:
\* cleanupUnusedPodGroups and CreatePodGroupIfNotExists run side by side.
THEOREM AdmittedLeadersHavePodGroups == Spec => []PrerequisitesFirst
<1>1. Init => Prerequisites
  BY InitPrerequisites
<1>2. Prerequisites /\ [Next]_vars => Prerequisites'
  BY NextPrerequisites
<1>3. Prerequisites => PrerequisitesFirst
  BY DEF Prerequisites, AdmittedReady, PrerequisitesFirst
<1> QED BY <1>1, <1>2, <1>3, PTL DEF Spec

-----------------------------------------------------------------------------
(* Workers.                                                                *)

\* A leader stays what it is but for its gate, goes, or is new; only the
\* scheduler binds it.
LEMMA LeaderChange ==
  ASSUME Types, [Next]_vars, NEW j \in Indices
  PROVE  \/ /\ leaders'[j].id = leaders[j].id /\ leaders'[j].size = leaders[j].size
            /\ leaders'[j].gated \in {leaders[j].gated, leaders[j].gated /\ ~GateOpens(j)}
            /\ leaders'[j] # NoLeader => leaders[j] # NoLeader
            /\ \/ leaders'[j].bound = leaders[j].bound
               \/ \E name \in DOMAIN podGroups : Schedule(name)
         \/ leaders'[j] = NoLeader
         \/ StsCreateLeader(j)
<1>0. leaders \in [Indices -> LeaderType \cup {NoLeader}]
  BY DEF Types
<1>1. CASE leaders'[j] = leaders[j]
  BY <1>1
<1>2. ASSUME NEW i \in Indices, ReconcileGate(i), i = j
      PROVE  /\ leaders'[j].id = leaders[j].id /\ leaders'[j].size = leaders[j].size
             /\ leaders'[j].gated = (leaders[j].gated /\ ~GateOpens(j))
             /\ leaders[j] # NoLeader
             /\ leaders'[j].bound = leaders[j].bound
  <2>1. leaders[j] \in LeaderType /\ leaders[j] # NoLeader
    BY <1>0, <1>2 DEF ReconcileGate
  <2>2. leaders'[j] = [leaders[j] EXCEPT !.gated = leaders[j].gated /\ ~GateOpens(j)]
    BY <1>0, <1>2 DEF ReconcileGate
  <2> QED BY <2>1, <2>2 DEF LeaderType
<1>3. ASSUME NEW i \in Indices, LeaderDeleted(i), i = j
      PROVE  /\ leaders'[j].id = leaders[j].id /\ leaders'[j].size = leaders[j].size
             /\ leaders'[j].gated = leaders[j].gated
             /\ leaders[j] # NoLeader
             /\ leaders'[j].bound = leaders[j].bound
  <2>1. leaders[j] \in LeaderType /\ leaders[j] # NoLeader
    BY <1>0, <1>3 DEF LeaderDeleted, Alive
  <2>2. leaders'[j] = [leaders[j] EXCEPT !.deleting = TRUE]
    BY <1>0, <1>3 DEF LeaderDeleted, Deleted
  <2> QED BY <2>1, <2>2 DEF LeaderType
<1>4. ASSUME NEW i \in Indices, i # j,
             ReconcileGate(i) \/ LeaderDeleted(i) \/ StsCreateLeader(i) \/ LeaderGone(i)
      PROVE  leaders'[j] = leaders[j]
  BY <1>0, <1>4 DEF ReconcileGate, LeaderDeleted, Deleted, StsCreateLeader, LeaderGone
<1>5. LeaderGone(j) => leaders'[j] = NoLeader
  BY <1>0 DEF LeaderGone
<1>6. ASSUME NEW name \in DOMAIN podGroups, Schedule(name)
      PROVE  /\ leaders'[j].id = leaders[j].id /\ leaders'[j].size = leaders[j].size
             /\ leaders'[j].gated = leaders[j].gated
             /\ leaders'[j] # NoLeader => leaders[j] # NoLeader
  <2> DEFINE waiting == {i \in Indices : Alive(i) /\ ~leaders[i].gated /\ LeaderGroup(i) = name}
  <2>1. leaders' = [i \in Indices |-> IF i \in waiting THEN [leaders[i] EXCEPT !.bound = TRUE]
                                      ELSE leaders[i]]
    BY <1>6 DEF Schedule
  <2>2. j \in waiting => leaders[j] \in LeaderType /\ leaders[j] # NoLeader
    BY <1>0 DEF Alive
  <2> HIDE DEF waiting
  <2>3. CASE j \in waiting
    BY <2>1, <2>2, <2>3 DEF LeaderType
  <2>4. CASE j \notin waiting
    BY <2>1, <2>4
  <2> QED BY <2>3, <2>4
<1>7. ASSUME \/ Aside \/ ReconcileGone \/ ReconcileScheduling
             \/ \E i \in Indices : EnsurePodGroups(i)
             \/ \E name \in lwsCtl.unused : DeleteUnused(name)
             \/ \E name \in DOMAIN podGroups : PodGroupGone(name)
      PROVE  leaders' = leaders
  BY <1>7 DEF Aside, ReconcileGone, ReconcileScheduling, EnsurePodGroups, DeleteUnused, PodGroupGone
<1> QED BY <1>1, <1>2, <1>3, <1>4, <1>5, <1>6, <1>7, StepCases

\* No leader step disturbs the workers of its ordinal.
LEMMA MatchesKept ==
  ASSUME Types, WorkersSound, [Next]_vars, NEW w \in workers
  PROVE  Matches(w, leaders'[w.index])
<1>0. w \in WorkerType /\ Matches(w, leaders[w.index])
  BY DEF Types, WorkersSound
<1> DEFINE j == w.index
<1>1. j \in Indices /\ w.id \in Ids /\ w.id # 0
  BY <1>0, SetupsAssumption DEF WorkerType
<1>2. CASE leaders'[j] = NoLeader
  BY <1>0, <1>1, <1>2 DEF Matches, NoLeader
<1>3. CASE StsCreateLeader(j)
  <2>1. leaders'[j].id # w.id /\ leaders'[j].gated
    BY <1>1, <1>3, FreshId DEF StsCreateLeader, Types
  <2> QED BY <1>0, <2>1 DEF Matches
<1>4. CASE /\ leaders'[j].id = leaders[j].id /\ leaders'[j].size = leaders[j].size
           /\ leaders'[j].gated \in {leaders[j].gated, leaders[j].gated /\ ~GateOpens(j)}
           /\ leaders'[j] # NoLeader => leaders[j] # NoLeader
  <2>1. GateOpens(j) /\ w.id # leaders[j].id => setup.immediate \/ w.created = 0
    BY DEF GateOpens
  <2>2. ~leaders'[j].gated => ~leaders[j].gated \/ GateOpens(j)
    BY <1>4
  <2> HIDE DEF j, GateOpens
  <2>3. Matches(w, leaders[j])
    BY <1>0 DEF j
  <2>4. Matches(w, leaders'[j])
    BY <2>3, <1>4, <2>1, <2>2 DEF Matches
  <2> QED BY <2>4 DEF j
<1> QED BY <1>1, <1>2, <1>3, <1>4, LeaderChange

\* What a worker StatefulSet after a step was before it: pods are added while
\* the leader stays, and only the scheduler binds them.
LEMMA WorkerChange ==
  ASSUME Types, WorkersSound, [Next]_vars, NEW w \in workers'
  PROVE  \/ /\ w.created = 0 /\ w.bound = 0 /\ w.index \in Indices
            /\ w.incarnation \in {0, w.id} /\ w.created <= w.size - 1
            /\ w.id = leaders'[w.index].id /\ w.size = leaders'[w.index].size
         \/ \E v \in workers :
              /\ v.index = w.index /\ v.id = w.id /\ v.size = w.size /\ v.incarnation = w.incarnation
              /\ \/ w.created = v.created
                 \/ /\ Owned(v) /\ w.created = v.created + 1 /\ w.created <= w.size - 1
                    /\ leaders' = leaders
              /\ \/ w.bound = v.bound
                 \/ \E name \in DOMAIN podGroups : Schedule(name)
<1>0. workers \subseteq WorkerType
  BY DEF Types
<1>1. CASE w \in workers
  BY <1>1
<1>2. CASE WorkerStep /\ leaders' = leaders /\ w \notin workers
  <2>1. ASSUME NEW i \in Indices, NEW incarnation \in {0, GroupWorkloadName(leaders[i])},
               WorkersDue(i), workers' = workers \cup {NewWorkers(i, incarnation)}
        PROVE  /\ w.created = 0 /\ w.bound = 0 /\ w.index \in Indices
               /\ w.incarnation \in {0, w.id} /\ w.created <= w.size - 1
               /\ w.id = leaders'[w.index].id /\ w.size = leaders'[w.index].size
    <3>1. w = NewWorkers(i, incarnation)
      BY <1>2, <2>1
    <3>2. w.created = 0 /\ w.bound = 0 /\ w.index = i /\ w.incarnation = incarnation
          /\ w.id = leaders[i].id /\ w.size = leaders[i].size
      BY <3>1 DEF NewWorkers
    <3>3. w \in WorkerType
      BY <3>1, <2>1, NewWorkersType
    <3>4. 0 <= w.size - 1
      BY <3>3 DEF WorkerType, Sizes
    <3>5. incarnation \in {0, leaders[i].id}
      BY <2>1 DEF GroupWorkloadName
    <3> QED BY <1>2, <3>2, <3>4, <3>5
  <2>2. ASSUME NEW v \in workers, Owned(v), v.created < v.size - 1,
               workers' = (workers \ {v}) \cup {[v EXCEPT !.created = @ + 1]}
        PROVE  /\ v.index = w.index /\ v.id = w.id /\ v.size = w.size /\ v.incarnation = w.incarnation
               /\ w.created = v.created + 1 /\ w.created <= w.size - 1 /\ w.bound = v.bound
    <3>1. w = [v EXCEPT !.created = v.created + 1]
      BY <1>2, <2>2
    <3>2. v \in WorkerType
      BY <1>0, <2>2
    <3> QED BY <3>1, <3>2, <2>2 DEF WorkerType, Sizes
  <2>3. CASE \E i \in Indices : \E incarnation \in {0, GroupWorkloadName(leaders[i])} :
               WorkersDue(i) /\ workers' = workers \cup {NewWorkers(i, incarnation)}
    BY <2>1, <2>3
  <2>4. CASE \E v \in workers : /\ Owned(v) /\ v.created < v.size - 1
                                /\ workers' = (workers \ {v}) \cup {[v EXCEPT !.created = @ + 1]}
    <3>1. PICK v \in workers : /\ Owned(v) /\ v.created < v.size - 1
                               /\ workers' = (workers \ {v}) \cup {[v EXCEPT !.created = @ + 1]}
      BY <2>4
    <3> HIDE DEF Owned
    <3> QED BY <1>2, <3>1, <2>2
  <2>5. UNCHANGED workers \/ (\E v \in workers : ~Owned(v) /\ workers' = workers \ {v}) => FALSE
    BY <1>2
  <2> QED BY <1>2, <2>3, <2>4, <2>5 DEF WorkerStep
<1>3. ASSUME NEW name \in DOMAIN podGroups, Schedule(name), w \notin workers
      PROVE  \E v \in workers :
              /\ v.index = w.index /\ v.id = w.id /\ v.size = w.size /\ v.incarnation = w.incarnation
              /\ w.created = v.created
  <2> DEFINE pending == {v \in workers : Owned(v) /\ WorkerGroup(v) = name}
  <2>1. workers' = (workers \ pending) \cup {[v EXCEPT !.bound = v.created] : v \in pending}
    BY <1>3 DEF Schedule
  <2>2. pending \subseteq workers
    OBVIOUS
  <2> HIDE DEF pending
  <2>3. PICK v \in pending : w = [v EXCEPT !.bound = v.created]
    BY <1>3, <2>1
  <2>4. v \in WorkerType /\ v \in workers
    BY <1>0, <2>2
  <2> QED BY <2>3, <2>4 DEF WorkerType
<1> QED BY <1>1, <1>2, <1>3, WorkersKept

\* Two worker StatefulSets of an ordinal that come from the same one are the same.
LEMMA NextOneEach ==
  ASSUME Types, WorkersSound, [Next]_vars, NEW v \in workers', NEW w \in workers', v.index = w.index
  PROVE  v = w
<1>0. workers \subseteq WorkerType /\ \A x, y \in workers : x.index = y.index => x = y
  BY DEF Types, WorkersSound
<1>1. CASE workers' \subseteq workers
  BY <1>0, <1>1
<1>2. ASSUME NEW i \in Indices, NEW incarnation, WorkersDue(i),
             workers' = workers \cup {NewWorkers(i, incarnation)}
      PROVE  v = w
  <2>1. NewWorkers(i, incarnation).index = i /\ \A x \in workers : x.index # i
    BY <1>2 DEF NewWorkers, WorkersDue
  <2> QED BY <1>0, <1>2, <2>1
<1>3. ASSUME NEW u \in workers, workers' = (workers \ {u}) \cup {[u EXCEPT !.created = @ + 1]}
      PROVE  v = w
  <2>1. [u EXCEPT !.created = @ + 1].index = u.index
    BY <1>0, <1>3 DEF WorkerType
  <2> QED BY <1>0, <1>3, <2>1
<1>4. ASSUME NEW name \in DOMAIN podGroups, Schedule(name)
      PROVE  v = w
  <2> DEFINE pending == {x \in workers : Owned(x) /\ WorkerGroup(x) = name}
  <2>1. workers' = (workers \ pending) \cup {[x EXCEPT !.bound = x.created] : x \in pending}
    BY <1>4 DEF Schedule
  <2>2. pending \subseteq workers
    OBVIOUS
  <2> HIDE DEF pending
  <2>3. \A x \in pending : [x EXCEPT !.bound = x.created].index = x.index
    BY <1>0, <2>2 DEF WorkerType
  <2>4. \A z \in workers' : \E x \in workers :
          x.index = z.index /\ z = IF x \in pending THEN [x EXCEPT !.bound = x.created] ELSE x
    BY <2>1, <2>2, <2>3
  <2>5. PICK x \in workers :
          x.index = v.index /\ v = IF x \in pending THEN [x EXCEPT !.bound = x.created] ELSE x
    BY <2>4
  <2>6. PICK y \in workers :
          y.index = w.index /\ w = IF y \in pending THEN [y EXCEPT !.bound = y.created] ELSE y
    BY <2>4
  <2>7. x = y
    BY <1>0, <2>5, <2>6
  <2> QED BY <2>5, <2>6, <2>7, Zenon
<1> QED BY <1>1, <1>2, <1>3, <1>4, WorkersKept DEF WorkerStep

LEMMA NextWorkersSound ==
  ASSUME Types, WorkersSound, [Next]_vars
  PROVE  WorkersSound'
<1>0. setup' = setup
  BY StepCases
<1> SUFFICES ASSUME NEW w \in workers'
             PROVE  Matches(w, leaders'[w.index])
  BY <1>0, NextOneEach DEF WorkersSound, Matches
<1>1. CASE /\ w.incarnation \in {0, w.id} /\ w.created <= w.size - 1
           /\ w.id = leaders'[w.index].id /\ w.size = leaders'[w.index].size
  BY <1>1 DEF Matches
<1>2. ASSUME NEW v \in workers, v.index = w.index, v.id = w.id, v.size = w.size,
             v.incarnation = w.incarnation, w.created = v.created
      PROVE  Matches(w, leaders'[w.index])
  <2>1. Matches(v, leaders'[v.index])
    BY MatchesKept
  <2> QED BY <1>2, <2>1 DEF Matches
<1>3. ASSUME NEW v \in workers, v.index = w.index, v.id = w.id, v.size = w.size,
             v.incarnation = w.incarnation, Owned(v), w.created <= w.size - 1, leaders' = leaders
      PROVE  Matches(w, leaders'[w.index])
  <2>1. Matches(v, leaders'[v.index]) /\ leaders'[v.index].id = v.id
    BY <1>3, MatchesKept DEF Owned
  <2> QED BY <1>3, <2>1 DEF Matches
<1> QED
  <2> HIDE DEF Owned
  <2> QED BY <1>1, <1>2, <1>3, WorkerChange

-----------------------------------------------------------------------------
(* Gangs.                                                                  *)

\* The sum over at most one element.
LEMMA SumOfOne ==
  ASSUME NEW S, \A x, y \in S : x = y, NEW f, \A x \in S : f[x] \in Nat
  PROVE  /\ SumFunctionOnSet(f, S) \in Nat
         /\ S = {} => SumFunctionOnSet(f, S) = 0
         /\ \A x \in S : SumFunctionOnSet(f, S) = f[x]
<1>1. IsFiniteSet(S)
  <2>1. CASE S = {}
    BY <2>1, FS_EmptySet
  <2>2. CASE S # {}
    <3>1. PICK x \in S : TRUE
      BY <2>2
    <3>2. S = {x}
      BY <3>1
    <3> QED BY <3>2, FS_Singleton
  <2> QED BY <2>1, <2>2
<1>2. SumFunctionOnSet(f, {}) = 0
  BY <1>1, SumSplit
<1>3. ASSUME NEW x \in S
      PROVE  SumFunctionOnSet(f, S) = f[x]
  <2>1. S \ {x} = {} /\ S \in SUBSET S
    OBVIOUS
  <2>2. SumFunctionOnSet(f, S) = f[x] + SumFunctionOnSet(f, S \ {x})
    BY <1>1, <2>1, SumSplit
  <2> QED BY <1>2, <2>1, <2>2
<1> QED BY <1>2, <1>3

LEMMA BoundOfOne ==
  ASSUME NEW S \in SUBSET WorkerType, \A x, y \in S : x = y
  PROVE  /\ BoundWorkers(S) \in Nat
         /\ S = {} => BoundWorkers(S) = 0
         /\ \A x \in S : BoundWorkers(S) = x.bound
<1> DEFINE f == [x \in S |-> x.bound]
<1>1. \A x \in S : f[x] = x.bound /\ f[x] \in Nat
  BY DEF WorkerType
<1> HIDE DEF f
<1>2. /\ SumFunctionOnSet(f, S) \in Nat
      /\ S = {} => SumFunctionOnSet(f, S) = 0
      /\ \A x \in S : SumFunctionOnSet(f, S) = f[x]
  BY <1>1, SumOfOne
<1>3. BoundWorkers(S) = SumFunctionOnSet(f, S)
  BY DEF BoundWorkers, f
<1> QED BY <1>1, <1>2, <1>3

\* The PodGroup a pod names, where there is one for each replica.
LEMMA GroupParts ==
  ASSUME setup.mode \in Modes, setup.mode # "lws", NEW id, NEW i, NEW role, NEW size
  PROVE  InjectPodGroupMetadata(id, i, role, size)
           = <<id, i, IF setup.mode = "role" THEN role ELSE setup.mode, size>>
BY DEF InjectPodGroupMetadata

\* The members of a replica's PodGroup: its leader once admitted, and the pods of
\* one worker StatefulSet.
LEMMA MembersOf ==
  ASSUME Types, WorkersSound, setup.mode # "lws", NEW name
  PROVE  \E a \in {0, 1}, b \in Nat :
           /\ Members(name) = a + b
           /\ a = 1 => \E i \in Indices : /\ i = name[2] /\ leaders[i] # NoLeader /\ ~leaders[i].gated
                                          /\ LeaderGroup(i) = name
           /\ b > 0 => \E w \in workers : WorkerGroup(w) = name /\ b = w.created
<1>0. setup.mode \in Modes /\ workers \subseteq WorkerType
  BY SetupsAssumption DEF Types
<1> DEFINE L == {i \in Indices : leaders[i] # NoLeader /\ ~leaders[i].gated /\ LeaderGroup(i) = name}
           V == {w \in workers : WorkerGroup(w) = name}
           f == [w \in workers |-> w.created]
<1>1. \A i \in L : i = name[2]
  BY <1>0, GroupParts DEF LeaderGroup
<1>2. Cardinality(L) \in {0, 1} /\ (Cardinality(L) = 1 => \E i \in L : TRUE)
  <2> HIDE DEF L
  <2>1. CASE L = {}
    BY <2>1, FS_EmptySet
  <2>2. CASE L # {}
    <3>1. L = {name[2]}
      BY <1>1, <2>2
    <3>2. Cardinality(L) = 1
      BY <3>1, FS_Singleton
    <3> QED BY <2>2, <3>2
  <2> QED BY <2>1, <2>2
<1>3. \A x, y \in V : x = y
  <2>1. \A x \in V : x.index = name[2]
    BY <1>0, GroupParts DEF WorkerGroup
  <2> QED BY <2>1 DEF WorkersSound
<1>4. \A x \in V : f[x] = x.created /\ f[x] \in Nat
  BY <1>0 DEF WorkerType
<1>5. /\ SumFunctionOnSet(f, V) \in Nat
      /\ V = {} => SumFunctionOnSet(f, V) = 0
      /\ \A x \in V : SumFunctionOnSet(f, V) = f[x]
  <2> HIDE DEF V, f
  <2> QED BY <1>3, <1>4, SumOfOne
<1>6. Members(name) = Cardinality(L) + SumFunctionOnSet(f, V)
  BY DEF Members
<1>7. SumFunctionOnSet(f, V) > 0 =>
        \E w \in workers : WorkerGroup(w) = name /\ SumFunctionOnSet(f, V) = w.created
  <2>1. V # {} => \E w \in V : SumFunctionOnSet(f, V) = w.created
    <3> HIDE DEF V, f
    <3> QED BY <1>4, <1>5
  <2>2. SumFunctionOnSet(f, V) > 0 => V # {}
    <3> HIDE DEF V, f
    <3> QED BY <1>5
  <2> QED BY <2>1, <2>2
<1>8. Cardinality(L) = 1 => \E i \in Indices : /\ i = name[2] /\ leaders[i] # NoLeader
                                               /\ ~leaders[i].gated /\ LeaderGroup(i) = name
  BY <1>1, <1>2
<1> HIDE DEF L, V, f
<1> QED BY <1>2, <1>5, <1>6, <1>7, <1>8

WorkersAfter(i) == {w \in workers' : w.index = i /\ w.id = leaders'[i].id}

\* The workers of a leader are at most one StatefulSet, before and after a step.
LEMMA OneOf ==
  ASSUME Types, WorkersSound, [Next]_vars, NEW i
  PROVE  /\ WorkersOf(i) \in SUBSET WorkerType /\ \A x, y \in WorkersOf(i) : x = y
         /\ WorkersAfter(i) \in SUBSET WorkerType /\ \A x, y \in WorkersAfter(i) : x = y
<1>1. WorkersOf(i) \in SUBSET WorkerType /\ \A x, y \in WorkersOf(i) : x = y
  BY DEF Types, WorkersSound, WorkersOf
<1>2. WorkersAfter(i) \in SUBSET WorkerType /\ \A x, y \in WorkersAfter(i) : x = y
  BY NextWorkers, NextOneEach DEF WorkersAfter
<1> QED BY <1>1, <1>2

\* No step but the scheduler's binds a pod.
LEMMA OthersBindNone ==
  ASSUME Types, WorkersSound, [Next]_vars, NEW i \in Indices,
         \A name \in DOMAIN podGroups : ~Schedule(name),
         leaders'[i] # NoLeader, leaders[i].id = leaders'[i].id
  PROVE  /\ leaders'[i].bound = leaders[i].bound
         /\ BoundWorkers(WorkersOf(i)) = 0 => BoundWorkers(WorkersAfter(i)) = 0
<1>1. leaders'[i].bound = leaders[i].bound
  <2>1. ~StsCreateLeader(i)
    <3>1. leaders'[i].id \in Ids
      BY NextTypes DEF Types, LeaderType
    <3> QED BY <3>1, SetupsAssumption DEF StsCreateLeader, NoLeader
  <2> QED BY <2>1, LeaderChange
<1>2. ASSUME BoundWorkers(WorkersOf(i)) = 0, NEW w \in WorkersAfter(i)
      PROVE  w.bound = 0
  <2>1. w \in workers' /\ w.index = i /\ w.id = leaders[i].id
    BY <1>2 DEF WorkersAfter
  <2>2. CASE w.bound # 0
    <3>1. PICK v \in workers : v.index = i /\ v.id = leaders[i].id /\ w.bound = v.bound
      <4> HIDE DEF Owned, Schedule
      <4> QED BY <2>1, <2>2, WorkerChange
    <3>2. v \in WorkersOf(i)
      BY <3>1 DEF WorkersOf
    <3>3. v.bound = 0
      BY <1>2, <3>2, OneOf, BoundOfOne
    <3> QED BY <3>1, <3>3
  <2> QED BY <2>2
<1>3. ASSUME BoundWorkers(WorkersOf(i)) = 0
      PROVE  BoundWorkers(WorkersAfter(i)) = 0
  <2>1. CASE WorkersAfter(i) = {}
    BY <2>1, OneOf, BoundOfOne
  <2>2. CASE WorkersAfter(i) # {}
    <3>1. PICK w \in WorkersAfter(i) : TRUE
      BY <2>2
    <3>2. BoundWorkers(WorkersAfter(i)) = w.bound
      BY <3>1, OneOf, BoundOfOne
    <3> QED BY <1>2, <1>3, <3>1, <3>2
  <2> QED BY <2>1, <2>2
<1> QED BY <1>1, <1>3

\* What the scheduler makes of the workers of a leader.
LEMMA ScheduledWorkers ==
  ASSUME Types, WorkersSound, [Next]_vars, NEW i \in Indices, NEW name \in DOMAIN podGroups,
         Schedule(name)
  PROVE  /\ leaders'[i].id = leaders[i].id /\ leaders'[i].size = leaders[i].size
         /\ leaders'[i] # NoLeader => leaders[i] # NoLeader
         /\ leaders'[i] = IF Alive(i) /\ ~leaders[i].gated /\ LeaderGroup(i) = name
                          THEN [leaders[i] EXCEPT !.bound = TRUE] ELSE leaders[i]
         /\ WorkersOf(i) = {} => BoundWorkers(WorkersAfter(i)) = 0
         /\ \A v \in WorkersOf(i) :
              BoundWorkers(WorkersAfter(i)) =
                IF Owned(v) /\ WorkerGroup(v) = name THEN v.created ELSE v.bound
<1> DEFINE pending == {w \in workers : Owned(w) /\ WorkerGroup(w) = name}
           waiting == {j \in Indices : Alive(j) /\ ~leaders[j].gated /\ LeaderGroup(j) = name}
<1>1. /\ workers' = (workers \ pending) \cup {[w EXCEPT !.bound = w.created] : w \in pending}
      /\ leaders' = [j \in Indices |-> IF j \in waiting THEN [leaders[j] EXCEPT !.bound = TRUE]
                                       ELSE leaders[j]]
  BY DEF Schedule
<1>2. leaders'[i] = IF i \in waiting THEN [leaders[i] EXCEPT !.bound = TRUE] ELSE leaders[i]
  <2> HIDE DEF waiting
  <2> QED BY <1>1
<1>3. leaders[i] \in LeaderType \cup {NoLeader} /\ (i \in waiting => leaders[i] \in LeaderType /\ leaders[i] # NoLeader)
  BY DEF Types, Alive
<1>4. /\ leaders'[i].id = leaders[i].id /\ leaders'[i].size = leaders[i].size
      /\ leaders'[i] # NoLeader => leaders[i] # NoLeader
  <2> HIDE DEF waiting
  <2>1. CASE i \in waiting
    BY <1>2, <1>3, <2>1 DEF LeaderType
  <2>2. CASE i \notin waiting
    BY <1>2, <2>2
  <2> QED BY <2>1, <2>2
<1>5. pending \subseteq workers /\ \A v \in workers : v \in pending <=> Owned(v) /\ WorkerGroup(v) = name
  OBVIOUS
<1>6. leaders'[i] = IF Alive(i) /\ ~leaders[i].gated /\ LeaderGroup(i) = name
                    THEN [leaders[i] EXCEPT !.bound = TRUE] ELSE leaders[i]
  BY <1>2
<1> HIDE DEF pending, waiting
<1>7. ASSUME NEW v \in workers
      PROVE  LET u == IF v \in pending THEN [v EXCEPT !.bound = v.created] ELSE v
             IN  /\ u \in workers' /\ u.index = v.index /\ u.id = v.id
                 /\ u.bound = IF v \in pending THEN v.created ELSE v.bound
  <2>1. v \in WorkerType
    BY DEF Types
  <2> QED BY <1>1, <2>1 DEF WorkerType
<1>8. ASSUME NEW v \in WorkersOf(i)
      PROVE  BoundWorkers(WorkersAfter(i)) = IF Owned(v) /\ WorkerGroup(v) = name THEN v.created ELSE v.bound
  <2> DEFINE u == IF v \in pending THEN [v EXCEPT !.bound = v.created] ELSE v
  <2>1. v \in workers /\ v.index = i /\ v.id = leaders[i].id
    BY <1>8 DEF WorkersOf
  <2>2. /\ u \in workers' /\ u.index = v.index /\ u.id = v.id
        /\ u.bound = IF v \in pending THEN v.created ELSE v.bound
    BY <1>7, <2>1
  <2> HIDE DEF u
  <2>3. u \in WorkersAfter(i)
    BY <2>1, <2>2, <1>4 DEF WorkersAfter
  <2>4. BoundWorkers(WorkersAfter(i)) = u.bound
    BY <2>3, OneOf, BoundOfOne
  <2> QED BY <2>1, <2>2, <2>4, <1>5
<1>9. ASSUME WorkersOf(i) = {}
      PROVE  BoundWorkers(WorkersAfter(i)) = 0
  <2>1. WorkersAfter(i) = {}
    <3> SUFFICES ASSUME NEW w \in WorkersAfter(i)
                 PROVE  FALSE
      OBVIOUS
    <3>1. w \in workers' /\ w.index = i /\ w.id = leaders[i].id
      BY <1>4 DEF WorkersAfter
    <3>2. PICK v \in workers : w = v \/ w = [v EXCEPT !.bound = v.created]
      BY <3>1, <1>1, <1>5
    <3>3. v \in WorkerType
      BY DEF Types
    <3>4. v.index = i /\ v.id = leaders[i].id
      BY <3>1, <3>2, <3>3 DEF WorkerType
    <3> QED BY <3>4, <1>9 DEF WorkersOf
  <2> QED BY <2>1, OneOf, BoundOfOne
<1> QED BY <1>4, <1>6, <1>8, <1>9

\* A PodGroup of its workers: the scheduler binds all of them.
LEMMA RoleGang ==
  ASSUME Types, GroupsSound, WorkersSound, [Next]_vars, setup.mode = "role",
         NEW name \in DOMAIN podGroups, Schedule(name), NEW i \in Indices,
         NEW v \in WorkersOf(i), Owned(v), WorkerGroup(v) = name
  PROVE  v.created = leaders[i].size - 1
<1>0. setup.mode \in Modes /\ setup.mode # "lws"
  BY SetupsAssumption DEF Types
<1>1. /\ v \in workers /\ v \in WorkerType /\ v.index = i
      /\ v.created \in Nat /\ v.size \in Nat \ {0} /\ v.created <= v.size - 1 /\ leaders[i].size = v.size
  BY DEF WorkersOf, WorkersSound, Matches, Types, WorkerType, Sizes
<1>2. name = <<v.incarnation, i, "worker", v.size>>
  BY <1>0, <1>1, GroupParts DEF WorkerGroup
<1>3. name # LwsGroup /\ name[2] = i /\ name[3] = "worker" /\ name[4] = v.size
  BY <1>2 DEF LwsGroup
<1>4. podGroups[name].min = v.size - 1
  <2>1. podGroups[name].min = GangMinCount(name)
    BY <1>3 DEF GroupsSound
  <2> QED BY <1>3, <2>1 DEF GangMinCount, Kubernetes, leafMembership
<1>5. Members(name) >= v.size - 1
  BY <1>4 DEF Schedule
<1>6. PICK a \in {0, 1}, b \in Nat :
        /\ Members(name) = a + b
        /\ a = 1 => \E j \in Indices : LeaderGroup(j) = name
        /\ b > 0 => \E w \in workers : WorkerGroup(w) = name /\ b = w.created
  BY <1>0, MembersOf
<1>7. a = 0
  <2>1. \A j \in Indices : LeaderGroup(j)[3] = "leader"
    BY <1>0, GroupParts DEF LeaderGroup
  <2> QED BY <1>3, <1>6, <2>1
<1>8. b > 0 => b = v.created
  <2> SUFFICES ASSUME NEW w \in workers, WorkerGroup(w) = name
               PROVE  w = v
    BY <1>6
  <2>1. w.index = i
    BY <1>0, <1>3, GroupParts DEF WorkerGroup
  <2> QED BY <1>1, <2>1 DEF WorkersSound
<1> QED BY <1>1, <1>5, <1>6, <1>7, <1>8

\* A PodGroup of one replica reaches its minimum when the leader is admitted and
\* all workers, of this leader, are there.
LEMMA ReplicaGang ==
  ASSUME Types, GroupsSound, WorkersSound, [Next]_vars,
         setup.mode \notin {"lws", "role"}, ~setup.leaderReady, Kubernetes \/ ~setup.immediate,
         NEW name \in DOMAIN podGroups, name # LwsGroup, Schedule(name),
         NEW i \in Indices, name[2] = i
  PROVE  /\ leaders[i] # NoLeader /\ ~leaders[i].gated /\ LeaderGroup(i) = name
         /\ leaders[i].size = name[4]
         /\ name[4] > 1 => \E w \in WorkersOf(i) : WorkerGroup(w) = name /\ w.created = name[4] - 1
<1>0. setup.mode \in Modes /\ setup.mode # "lws" /\ setup.mode # "role"
  BY SetupsAssumption DEF Types
<1>1. name \in replicaPodGroups(name[1], name[2], name[4]) /\ name[4] \in Nat \ {0}
      /\ podGroups[name].min = GangMinCount(name)
  BY DEF GroupsSound, Sizes
<1>2. name[3] = setup.mode
  BY <1>0, <1>1, NameParts
<1>3. GangMinCount(name) = name[4]
  BY <1>0, <1>2 DEF GangMinCount, Kubernetes, leafMembership, Modes
<1>4. Members(name) >= name[4]
  BY <1>1, <1>3 DEF Schedule
<1>5. PICK a \in {0, 1}, b \in Nat :
        /\ Members(name) = a + b
        /\ a = 1 => \E j \in Indices : /\ j = name[2] /\ leaders[j] # NoLeader /\ ~leaders[j].gated
                                       /\ LeaderGroup(j) = name
        /\ b > 0 => \E w \in workers : WorkerGroup(w) = name /\ b = w.created
  BY <1>0, MembersOf
<1>6. ASSUME NEW w \in workers, WorkerGroup(w) = name
      PROVE  /\ w \in WorkerType /\ w.index = i /\ w.size = name[4] /\ w.incarnation = name[1]
             /\ Matches(w, leaders[i])
  <2>1. WorkerGroup(w) = <<w.incarnation, w.index, setup.mode, w.size>>
    BY <1>0, GroupParts DEF WorkerGroup
  <2> QED BY <1>6, <2>1 DEF Types, WorkersSound
<1>7. b <= name[4] - 1
  <2>1. CASE b > 0
    <3>1. PICK w \in workers : WorkerGroup(w) = name /\ b = w.created
      BY <1>5, <2>1
    <3> QED BY <1>6, <3>1 DEF Matches
  <2> QED BY <1>1, <2>1
<1>8. a = 1 /\ b = name[4] - 1
  BY <1>1, <1>4, <1>5, <1>7
<1>9. leaders[i] # NoLeader /\ ~leaders[i].gated /\ LeaderGroup(i) = name
  BY <1>5, <1>8
<1>10. leaders[i].size = name[4] /\ GroupWorkloadName(leaders[i]) = name[1]
  <2>1. LeaderGroup(i) = <<GroupWorkloadName(leaders[i]), i, setup.mode, leaders[i].size>>
    BY <1>0, GroupParts DEF LeaderGroup
  <2> QED BY <1>9, <2>1
<1>11. ASSUME name[4] > 1
       PROVE  \E w \in WorkersOf(i) : WorkerGroup(w) = name /\ w.created = name[4] - 1
  <2>1. b > 0
    BY <1>1, <1>8, <1>11
  <2>2. PICK w \in workers : WorkerGroup(w) = name /\ b = w.created
    BY <1>5, <2>1
  <2>3. w \in WorkerType /\ w.index = i /\ w.incarnation = name[1] /\ Matches(w, leaders[i])
    BY <1>6, <2>2
  <2>4. leaders[i] \in LeaderType
    BY <1>9 DEF Types
  <2>5. w.id = leaders[i].id
    <3>1. CASE setup.mode = "replica"
      <4>1. name[1] = leaders[i].id /\ name[1] # 0
        BY <1>10, <2>4, <3>1, SetupsAssumption DEF GroupWorkloadName, LeaderType
      <4> QED BY <2>3, <4>1 DEF Matches
    <3>2. CASE setup.mode # "replica"
      <4>1. ~Kubernetes
        BY <1>0, <3>2 DEF Kubernetes
      <4> QED BY <1>9, <2>1, <2>2, <2>3, <4>1 DEF Matches
    <3> QED BY <3>1, <3>2
  <2>6. w \in WorkersOf(i)
    BY <2>2, <2>3, <2>5 DEF WorkersOf
  <2> QED BY <1>8, <2>2, <2>6
<1> QED BY <1>9, <1>10, <1>11

\* The pods of an unbound group that the scheduler binds are all of them.
LEMMA ScheduledReplica ==
  ASSUME Types, GroupsSound, WorkersSound, [Next]_vars,
         setup.mode \notin {"lws", "role"}, ~setup.leaderReady, Kubernetes \/ ~setup.immediate,
         NEW name \in DOMAIN podGroups, Schedule(name), NEW i \in Indices,
         BoundPods(leaders[i], WorkersOf(i)) = 0
  PROVE  BoundPods(leaders'[i], WorkersAfter(i)) \in {0, leaders[i].size}
<1>0. setup.mode \in Modes /\ setup.mode # "lws" /\ setup.mode # "role"
  BY SetupsAssumption DEF Types
<1>1. ~leaders[i].bound /\ BoundWorkers(WorkersOf(i)) = 0
  BY OneOf, BoundOfOne DEF BoundPods
<1>2. \A v \in WorkersOf(i) : /\ v \in WorkerType /\ v \in workers /\ v.bound = 0 /\ v.index = i
                              /\ v.created \in Nat /\ v.size \in Nat
                              /\ v.created <= v.size - 1 /\ v.size = leaders[i].size
  <2>1. \A v \in WorkersOf(i) : v.bound = 0 /\ v \in WorkerType
    BY <1>1, OneOf, BoundOfOne
  <2> QED BY <2>1 DEF WorkersOf, WorkersSound, Matches, WorkerType, Sizes
<1> DEFINE Waits == Alive(i) /\ ~leaders[i].gated /\ LeaderGroup(i) = name
           Pends(v) == Owned(v) /\ WorkerGroup(v) = name
<1>3. /\ leaders'[i] = IF Waits THEN [leaders[i] EXCEPT !.bound = TRUE] ELSE leaders[i]
      /\ WorkersOf(i) = {} => BoundWorkers(WorkersAfter(i)) = 0
      /\ \A v \in WorkersOf(i) :
           BoundWorkers(WorkersAfter(i)) = IF Pends(v) THEN v.created ELSE v.bound
  BY ScheduledWorkers
<1>4. CASE ~Waits /\ \A v \in WorkersOf(i) : ~Pends(v)
  <2> HIDE DEF Waits, Pends
  <2>1. leaders'[i] = leaders[i] /\ BoundWorkers(WorkersAfter(i)) = 0
    BY <1>2, <1>3, <1>4
  <2> QED BY <1>1, <2>1 DEF BoundPods
<1>5. CASE Waits \/ \E v \in WorkersOf(i) : Pends(v)
  <2>1. Alive(i)
    BY <1>2, <1>5 DEF Owned
  <2>2. name[2] = i /\ name # LwsGroup
    <3>1. Waits => name = <<GroupWorkloadName(leaders[i]), i, setup.mode, leaders[i].size>>
      BY <1>0, GroupParts DEF LeaderGroup
    <3>2. \A v \in WorkersOf(i) : Pends(v) => name = <<v.incarnation, i, setup.mode, v.size>>
      BY <1>0, <1>2, GroupParts DEF WorkerGroup
    <3> HIDE DEF Waits, Pends
    <3> QED BY <1>0, <1>5, <3>1, <3>2 DEF LwsGroup
  <2>3. /\ Waits /\ leaders[i].size = name[4]
        /\ name[4] > 1 => \E w \in WorkersOf(i) : WorkerGroup(w) = name /\ w.created = name[4] - 1
    BY <2>1, <2>2, ReplicaGang
  <2>4. leaders[i] \in LeaderType /\ leaders[i].size \in Nat \ {0}
    BY <2>1 DEF Alive, Types, LeaderType, Sizes
  <2>5. leaders'[i].bound = TRUE
    BY <1>3, <2>3, <2>4 DEF LeaderType
  <2>6. BoundWorkers(WorkersAfter(i)) = leaders[i].size - 1
    <3>1. CASE leaders[i].size > 1
      <4>1. PICK w \in WorkersOf(i) : WorkerGroup(w) = name /\ w.created = name[4] - 1
        BY <2>3, <3>1
      <4>2. Pends(w)
        BY <2>1, <4>1 DEF WorkersOf, Owned
      <4> HIDE DEF Waits, Pends
      <4> QED BY <1>3, <2>3, <4>1, <4>2
    <3>2. CASE leaders[i].size = 1
      <4>1. \A v \in WorkersOf(i) : v.created = 0 /\ v.bound = 0
        BY <1>2, <3>2
      <4> HIDE DEF Waits, Pends
      <4>2. BoundWorkers(WorkersAfter(i)) = 0
        BY <1>3, <4>1
      <4> QED BY <3>2, <4>2
    <3> QED BY <2>4, <3>1, <3>2
  <2> QED BY <2>4, <2>5, <2>6 DEF BoundPods
<1> QED BY <1>4, <1>5

LEMMA GangStep ==
  ASSUME Types, GroupsSound, WorkersSound, [Next]_vars, NEW i \in Indices
  PROVE  GangOf(i)
<1> DEFINE Separate == ~setup.leaderReady /\ (Kubernetes \/ ~setup.immediate)
           OfRole == /\ setup.mode = "role" /\ BoundWorkers(WorkersOf(i)) = 0
                     => BoundWorkers(WorkersAfter(i)) \in {0, leaders'[i].size - 1}
           OfReplica == /\ setup.mode \notin {"lws", "role"} /\ Separate
                        /\ BoundPods(leaders[i], WorkersOf(i)) = 0
                        => BoundPods(leaders'[i], WorkersAfter(i)) \in {0, leaders'[i].size}
<1>0. ASSUME leaders'[i] # NoLeader /\ leaders[i].id = leaders'[i].id => OfRole /\ OfReplica
      PROVE  GangOf(i)
  <2> DEFINE l == leaders'[i]
             ws == {w \in workers' : w.index = i /\ w.id = l.id}
             G == CASE setup.mode = "role" ->
                         BoundWorkers(WorkersOf(i)) = 0 => BoundWorkers(ws) \in {0, l.size - 1}
                    [] setup.mode \notin {"lws", "role"} /\ ~setup.leaderReady /\ (Kubernetes \/ ~setup.immediate) ->
                         BoundPods(leaders[i], WorkersOf(i)) = 0 => BoundPods(l, ws) \in {0, l.size}
                    [] OTHER -> TRUE
  <2>1. ws = WorkersAfter(i)
    BY DEF WorkersAfter
  <2> HIDE DEF ws
  <2>2. OfRole /\ OfReplica => G
    <3> HIDE DEF Kubernetes
    <3>1. CASE setup.mode = "role"
      BY <2>1, <3>1
    <3>2. CASE setup.mode \notin {"lws", "role"} /\ Separate
      BY <2>1, <3>2
    <3>3. CASE setup.mode # "role" /\ ~(setup.mode # "lws" /\ Separate)
      BY <3>3
    <3> QED BY <3>1, <3>2, <3>3
  <2>3. GangOf(i) = (l # NoLeader /\ leaders[i].id = l.id => G)
    BY DEF GangOf, ws
  <2> HIDE DEF G, OfRole, OfReplica
  <2> QED BY <1>0, <2>2, <2>3
<1> SUFFICES ASSUME leaders'[i] # NoLeader, leaders[i].id = leaders'[i].id
             PROVE  OfRole /\ OfReplica
  <2> HIDE DEF OfRole, OfReplica
  <2> QED BY <1>0
<1>1. CASE \A name \in DOMAIN podGroups : ~Schedule(name)
  <2>1. /\ leaders'[i].bound = leaders[i].bound
        /\ BoundWorkers(WorkersOf(i)) = 0 => BoundWorkers(WorkersAfter(i)) = 0
    BY <1>1, OthersBindNone
  <2>2. BoundWorkers(WorkersOf(i)) \in Nat
    BY OneOf, BoundOfOne
  <2> QED BY <2>1, <2>2 DEF BoundPods
<1>2. ASSUME NEW name \in DOMAIN podGroups, Schedule(name)
      PROVE  OfRole /\ OfReplica
  <2>1. leaders'[i].size = leaders[i].size
    BY <1>2, ScheduledWorkers
  <2>2. ASSUME setup.mode = "role", BoundWorkers(WorkersOf(i)) = 0
        PROVE  BoundWorkers(WorkersAfter(i)) \in {0, leaders[i].size - 1}
    <3>1. CASE WorkersOf(i) = {}
      BY <1>2, <3>1, ScheduledWorkers
    <3>2. ASSUME NEW v \in WorkersOf(i)
          PROVE  BoundWorkers(WorkersAfter(i)) \in {0, leaders[i].size - 1}
      <4>1. v.bound = 0
        BY <2>2, <3>2, OneOf, BoundOfOne
      <4>2. BoundWorkers(WorkersAfter(i)) =
              IF Owned(v) /\ WorkerGroup(v) = name THEN v.created ELSE v.bound
        BY <1>2, <3>2, ScheduledWorkers
      <4>3. Owned(v) /\ WorkerGroup(v) = name => v.created = leaders[i].size - 1
        BY <1>2, <2>2, <3>2, RoleGang
      <4> HIDE DEF Owned
      <4> QED BY <4>1, <4>2, <4>3
    <3> QED BY <3>1, <3>2
  <2>3. ASSUME setup.mode \notin {"lws", "role"}, ~setup.leaderReady, Kubernetes \/ ~setup.immediate,
               BoundPods(leaders[i], WorkersOf(i)) = 0
        PROVE  BoundPods(leaders'[i], WorkersAfter(i)) \in {0, leaders[i].size}
    BY <1>2, <2>3, ScheduledReplica
  <2> QED BY <2>1, <2>2, <2>3
<1> QED BY <1>1, <1>2

LEMMA InitWorkersSound ==
  ASSUME Init
  PROVE  WorkersSound
<1>0. Types /\ spec.size \in Sizes /\ Running \subseteq Indices
  BY InitTypes, SetupsAssumption DEF Init, Running, Types, SpecType
<1>1. \A i \in Running : leaders[i].size = spec.size /\ leaders[i].id = 1
  BY <1>0 DEF Init
<1>2. ASSUME NEW w \in workers
      PROVE  /\ w.index \in Running /\ w.id = leaders[w.index].id /\ w.size = leaders[w.index].size
             /\ w.incarnation = GroupWorkloadName(leaders[w.index])
             /\ w.created = spec.size - 1 /\ w.bound = spec.size - 1
  <2>1. PICK i \in Running : w = [NewWorkers(i, GroupWorkloadName(leaders[i])) EXCEPT
                                    !.created = spec.size - 1, !.bound = spec.size - 1]
    BY <1>2 DEF Init
  <2> QED BY <2>1 DEF NewWorkers
<1>3. \A w \in workers : Matches(w, leaders[w.index])
  BY <1>0, <1>1, <1>2 DEF Matches, GroupWorkloadName, Sizes
<1>4. ASSUME NEW v \in workers, NEW w \in workers, v.index = w.index
      PROVE  v = w
  <2> DEFINE W(i) == [NewWorkers(i, GroupWorkloadName(leaders[i])) EXCEPT
                        !.created = spec.size - 1, !.bound = spec.size - 1]
  <2>1. \A u \in workers : \E i \in Running : u = W(i)
    BY DEF Init
  <2>2. \A i : W(i).index = i
    BY DEF NewWorkers
  <2> HIDE DEF W
  <2> QED BY <1>4, <2>1, <2>2
<1> QED BY <1>3, <1>4 DEF WorkersSound

\* A gang with a PodGroup of its own starts whole, whatever the sizes, the number
\* of groups and the order of events: no step of the scheduler binds some of its
\* pods only, because the minimum is the size of the group the pods belong to
\* (leaderPodGroups) and no pod of another leader counts (GroupWorkloadName, and
\* for Volcano the gate that waits for the previous pods).
THEOREM GangsStartWhole == Spec => WholeGang
<1> DEFINE I == Prerequisites /\ WorkersSound
<1>1. Init => I
  BY InitPrerequisites, InitWorkersSound
<1>2. I /\ [Next]_vars => I'
  BY NextPrerequisites, NextWorkersSound DEF Prerequisites
<1>3. I /\ [Next]_vars => [\A i \in Indices : GangOf(i)]_vars
  BY GangStep DEF Prerequisites
<1> HIDE DEF I
<1> QED BY <1>1, <1>2, <1>3, PTL DEF Spec, WholeGang

============================================================================
