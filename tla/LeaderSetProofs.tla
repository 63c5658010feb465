-------------------------- MODULE LeaderSetProofs --------------------------
(***************************************************************************)
(* Theorems about LeaderSet, for every number of replicas, templates,      *)
(* edits and failures and every set of budgets.                            *)
(***************************************************************************)
EXTENDS LeaderSet, RollingUpdateProofs

USE DEF Templates, Ordinals

\* The StatefulSet controller has a current revision once the StatefulSet
\* exists, and a reconcile past its apply has left its key on the StatefulSet.
CurrentSet   == sts # NoSts => current \in Stamp
FinishingKey == finishing.active => sts # NoSts /\ sts.stamp.key = finishing.key

TypeInv == TypeOK /\ CurrentSet

-----------------------------------------------------------------------------
(* What the caches and the revision helpers return.                        *)

\* The caches hold what the objects may hold.
LEMMA SeenType ==
  ASSUME TypeOK
  PROVE  StsSeen \in StsType /\ RevisionsSeen \in SUBSET Revision
  BY DEF TypeOK, StsSeen, RevisionsSeen

\* A non-empty set of revision numbers has a greatest element.
LEMMA GreatestNumber ==
  ASSUME NEW N \in Nat, NEW T \in SUBSET (1 .. N), T # {}
  PROVE  \E n \in T : \A k \in T : k <= n
<1> DEFINE D == {d \in Nat : N - d \in T}
<1>1. D \in SUBSET Nat
  OBVIOUS
<1>2. D # {}
  <2>1. PICK t \in T : TRUE
    OBVIOUS
  <2>2. t \in Nat /\ N - t \in Nat /\ N - (N - t) = t
    BY <2>1
  <2>3. N - t \in D
    BY <2>1, <2>2
  <2> QED
    BY <2>3
<1> HIDE DEF D
<1>3. PICK d \in D : \A e \in D : d <= e
  BY <1>1, <1>2, LeastNatural
<1>4. d \in Nat /\ N - d \in T
  BY <1>3 DEF D
<1>5. \A k \in T : k <= N - d
  <2> SUFFICES ASSUME NEW k \in T PROVE k <= N - d
    OBVIOUS
  <2>1. k \in Int /\ N - k \in Nat /\ N - (N - k) = k
    OBVIOUS
  <2>2. N - k \in D
    BY <2>1 DEF D
  <2>3. d <= N - k
    BY <1>3, <2>2
  <2> QED
    BY <1>4, <2>1, <2>3
<1> QED
  BY <1>4, <1>5

\* NewRevision numbers a revision with a positive number.
LEMMA NewRevisionType ==
  ASSUME TypeOK, NEW data, NEW key
  PROVE  /\ NewRevision(data, key).number \in Nat \ {0}
         /\ NewRevision(data, key).key = key
         /\ NewRevision(data, key).data = data
         /\ data \in Templates /\ key \in Templates /\ NewRevision(data, key).number <= MaxNumber
              => NewRevision(data, key) \in Revision
<1> DEFINE numbers == {r.number : r \in RevisionsSeen}
           highest == IF numbers = {} THEN 0
                      ELSE CHOOSE n \in numbers : \A k \in numbers : k <= n
<1>1. MaxNumber \in Nat
  BY ConstantsAssumption
<1>2. numbers \in SUBSET (1 .. MaxNumber)
  BY SeenType DEF Revision
<1>3. NewRevision(data, key) = [key |-> key, data |-> data, number |-> highest + 1]
  BY DEF NewRevision
<1> HIDE DEF numbers
<1>4. highest \in Nat
  <2>1. CASE numbers = {}
    BY <2>1
  <2>2. CASE numbers # {}
    <3>1. \E n \in numbers : \A k \in numbers : k <= n
      BY <1>1, <1>2, <2>2, GreatestNumber
    <3>2. highest \in numbers
      BY <2>2, <3>1
    <3>3. \A n \in numbers : n \in Nat
      BY <1>1, <1>2
    <3> QED
      BY <3>2, <3>3, Zenon
  <2> QED
    BY <2>1, <2>2
<1> HIDE DEF highest
<1> QED
  BY <1>1, <1>3, <1>4 DEF Revision

\* The revision a reconcile starts from.
LEMMA RevisionType ==
  ASSUME TypeOK, NEW rev \in getOrCreateRevision, \A r \in CreatedRevisions(rev) : CanCreate(r)
  PROVE  /\ rev \in Revision
         /\ RevisionKey(rev) \in Templates
         /\ CreatedRevisions(rev) \subseteq Revision
         /\ LwsUpdated(rev) \in BOOLEAN
<1>1. spec.template \in Templates
  BY DEF TypeOK, LwsSpec
<1>2. StsSeen # NoSts => StsSeen.stamp.key \in Templates
  BY SeenType DEF StsType, Stamp
<1>3. RevisionsSeen \subseteq Revision
  BY SeenType
<1>4. \A r \in CreatedRevisions(rev) : r.number <= MaxNumber
  BY DEF CanCreate
<1>5. rev \in RevisionsSeen \/ \E key \in Templates : rev = NewRevision(spec.template, key)
  BY <1>1, <1>2 DEF getOrCreateRevision, GetRevision
<1>6. rev \in Revision
  <2>1. CASE rev \in RevisionsSeen
    BY <1>3, <2>1
  <2>2. CASE rev \notin RevisionsSeen
    <3>1. rev \in CreatedRevisions(rev)
      BY <2>2 DEF CreatedRevisions
    <3> QED
      BY <1>1, <1>4, <1>5, <2>2, <3>1, NewRevisionType
  <2> QED
    BY <2>1, <2>2
<1>7. CreatedRevisions(rev) \subseteq Revision
  <2> SUFFICES ASSUME NEW r \in CreatedRevisions(rev) PROVE r \in Revision
    OBVIOUS
  <2>1. r = rev \/ r = NewRevision(spec.template, spec.template)
    BY DEF CreatedRevisions
  <2>2. r.number <= MaxNumber
    BY <1>4
  <2> QED
    BY <1>1, <1>6, <2>1, <2>2, NewRevisionType
<1>8. RevisionKey(rev) \in Templates
  BY <1>1, <1>6 DEF RevisionKey, Revision
<1> QED
  BY <1>6, <1>7, <1>8 DEF LwsUpdated

\* The fields of the spec, and the surge they allow.
LEMMA SpecFields ==
  ASSUME TypeOK
  PROVE  /\ spec.replicas \in Nat /\ spec.replicas <= MaxReplicas /\ MaxReplicas \in Nat
         /\ spec.partition \in Nat /\ spec.template \in Templates
         /\ spec.maxSurge \in IntOrString /\ spec.maxUnavailable \in IntOrString
         /\ MaxSurgeOf(spec, spec.replicas) \in 0 .. spec.replicas
<1>1. spec \in LwsSpec
  BY DEF TypeOK
<1>2. Partitions \subseteq Nat /\ MaxReplicas \in Nat
  BY ConstantsAssumption
<1>3. /\ spec.replicas \in 0 .. MaxReplicas /\ spec.partition \in Partitions
      /\ spec.template \in Templates
      /\ spec.maxSurge \in IntOrString /\ spec.maxUnavailable \in IntOrString
  BY <1>1, Zenon DEF LwsSpec
<1>4. spec.partition \in Nat
  BY <1>2, <1>3, Zenon
<1>5. spec.replicas \in Nat /\ spec.replicas <= MaxReplicas
  BY <1>2, <1>3
<1>6. MaxSurgeOf(spec, spec.replicas) \in 0 .. spec.replicas
  BY <1>3, <1>5, MaxSurgeBound
<1> QED
  BY <1>2, <1>3, <1>4, <1>5, <1>6, Zenon

\* What a reconcile applies: a StatefulSet with at least the spec's replicas
\* and at most its burst; a partition no lower than the old groups for a new
\* revision, no higher than before otherwise.
LEMMA AppliedStatefulSet ==
  ASSUME TypeOK, NEW rev \in getOrCreateRevision, \A r \in CreatedRevisions(rev) : CanCreate(r)
  PROVE  /\ LeaderStatefulSet(rev) \in StsType
         /\ LeaderStatefulSet(rev) # NoSts
         /\ LeaderStatefulSet(rev).stamp = [key |-> RevisionKey(rev), data |-> spec.template]
         /\ LeaderStatefulSet(rev).stamp \in Stamp
         /\ LeaderStatefulSet(rev).replicas = Parameters(rev).replicas
         /\ Parameters(rev).replicas
              \in spec.replicas .. spec.replicas + MaxSurgeOf(spec, spec.replicas)
         /\ StsSeen # NoSts /\ LwsUpdated(rev)
              => LeaderStatefulSet(rev).partition >= Smaller(spec.replicas, StsSeen.replicas)
         /\ StsSeen # NoSts /\ ~LwsUpdated(rev) /\ spec.partition <= StsSeen.partition
              => LeaderStatefulSet(rev).partition <= StsSeen.partition
<1> DEFINE states == getReplicaStates(StsSeen.replicas, RevisionKey(rev))
           result == Parameters(rev)
<1>1. /\ spec.replicas \in Nat /\ spec.replicas <= MaxReplicas /\ MaxReplicas \in Nat
      /\ spec.partition \in Nat /\ spec.template \in Templates
      /\ spec.maxSurge \in IntOrString /\ spec.maxUnavailable \in IntOrString
  BY SpecFields
<1>2. StsSeen.replicas \in Nat /\ StsSeen.partition \in Nat
  BY SeenType, ConstantsAssumption DEF StsType, NoSts
<1>3. MaxSurgeOf(spec, spec.replicas) \in 0 .. spec.replicas
  BY SpecFields
<1>4. RevisionKey(rev) \in Templates /\ LwsUpdated(rev) \in BOOLEAN
  BY RevisionType
<1>5. /\ result.replicas \in spec.replicas .. spec.replicas + MaxSurgeOf(spec, spec.replicas)
      /\ result.partition \in Nat
      /\ StsSeen # NoSts /\ LwsUpdated(rev)
           => result.partition >= Smaller(spec.replicas, StsSeen.replicas)
      /\ StsSeen # NoSts /\ ~LwsUpdated(rev) /\ spec.partition <= StsSeen.partition
           => result.partition <= StsSeen.partition
  <2>1. CASE StsSeen = NoSts
    <3>1. result = [partition |-> spec.partition, replicas |-> spec.replicas]
      BY <2>1 DEF Parameters
    <3> QED
      BY <1>1, <1>3, <2>1, <3>1
  <2>2. CASE StsSeen # NoSts
    <3>1. result = rollingUpdateParameters(spec, StsSeen, LwsUpdated(rev), states)
      BY <2>2 DEF Parameters
    <3> HIDE DEF states, result
    <3> QED
      BY <1>1, <1>2, <1>4, <3>1, RollingUpdateParametersBound
  <2> QED
    BY <2>1, <2>2
<1> HIDE DEF result
<1>6. LeaderStatefulSet(rev) =
        [replicas |-> result.replicas, partition |-> result.partition,
         specReplicas |-> spec.replicas, stamp |-> [key |-> RevisionKey(rev), data |-> spec.template]]
  BY DEF LeaderStatefulSet, result
<1>7. [key |-> RevisionKey(rev), data |-> spec.template] \in Stamp
  BY <1>1, <1>4 DEF Stamp
<1>8. result.replicas \in 0 .. 2 * MaxReplicas /\ spec.replicas \in 0 .. MaxReplicas
  BY <1>1, <1>3, <1>5
<1>9. LeaderStatefulSet(rev) \in StsType
  BY <1>5, <1>6, <1>7, <1>8 DEF StsType
<1>10. LeaderStatefulSet(rev) # NoSts
  BY <1>4, <1>6 DEF NoSts, NoStamp
<1> QED
  BY <1>5, <1>6, <1>7, <1>9, <1>10 DEF result

\* A reconcile never asks for a negative replica count.
LEMMA ParametersReplicas ==
  ASSUME TypeOK, NEW rev \in getOrCreateRevision, \A r \in CreatedRevisions(rev) : CanCreate(r)
  PROVE  Parameters(rev).replicas \in Nat
<1>1. Parameters(rev).replicas
        \in spec.replicas .. spec.replicas + MaxSurgeOf(spec, spec.replicas)
  BY AppliedStatefulSet, Zenon
<1>2. spec.replicas \in Nat /\ MaxSurgeOf(spec, spec.replicas) \in 0 .. spec.replicas
  BY SpecFields
<1> QED
  BY <1>1, <1>2

-----------------------------------------------------------------------------
(* Types.                                                                  *)

\* A change of one group keeps the groups' type.
LEMMA SetGroupType ==
  ASSUME TypeInv, NEW i \in Ordinals, NEW group \in Group, SetGroup(i, group),
         failures' \in 0 .. MaxFailures
  PROVE  TypeInv'
<1>1. groups' \in [Ordinals -> Group]
  BY DEF SetGroup, TypeInv, TypeOK
<1> QED
  BY <1>1 DEF TypeInv, TypeOK, CurrentSet, SetGroup, views

\* The initial states are well typed: there is no StatefulSet yet.
LEMMA InitTypeInv == Init => TypeInv
<1> SUFFICES ASSUME Init PROVE TypeInv
  OBVIOUS
<1>1. spec \in LwsSpec
  <2>1. PICK budget \in Budgets, n \in 0 .. MaxReplicas, owned \in Owners :
          spec = [replicas |-> n, partition |-> 0, template |-> 1, dsOwned |-> owned,
                  maxSurge |-> budget.maxSurge, maxUnavailable |-> budget.maxUnavailable]
    BY DEF Init
  <2>2. owned \in BOOLEAN
    BY ConstantsAssumption, Zenon
  <2>3. /\ budget.maxSurge \in IntOrString /\ budget.maxUnavailable \in IntOrString
        /\ 0 \in Partitions /\ 1 \in Templates
    BY ConstantsAssumption
  <2> QED
    BY <2>1, <2>2, <2>3, Zenon DEF LwsSpec
<1>2. groups \in [Ordinals -> Group]
  BY DEF Init, Group
<1>3. edits \in 0 .. MaxEdits /\ failures \in 0 .. MaxFailures
  BY ConstantsAssumption DEF Init, Spent, Smaller
<1> QED
  BY <1>1, <1>2, <1>3 DEF Init, TypeInv, TypeOK, CurrentSet, StsType

\* What an edit of the user leaves is a spec.
LEMMA EditType ==
  ASSUME TypeInv, NEW new \in LwsSpec, Edit(new)
  PROVE  TypeInv'
<1>1. edits' \in 0 .. MaxEdits
  BY ConstantsAssumption DEF Edit, TypeInv, TypeOK
<1> QED
  BY <1>1 DEF Edit, TypeInv, TypeOK, CurrentSet, views

\* Every step keeps the types.  CurrentSet is what StsCreatePod needs: a pod
\* below the partition is stamped with the StatefulSet's current revision.
LEMMA NextTypeInv == TypeInv /\ [Next]_vars => TypeInv'
<1> SUFFICES ASSUME TypeInv, [Next]_vars PROVE TypeInv'
  OBVIOUS
<1> USE DEF TypeInv
<1>0. MaxReplicas \in Nat /\ MaxEdits \in Nat /\ MaxFailures \in Nat
  BY ConstantsAssumption
<1>1. CASE Reconcile
  <2>1. PICK rev \in getOrCreateRevision :
          /\ \A r \in CreatedRevisions(rev) : CanCreate(r)
          /\ revisions' = revisions \cup CreatedRevisions(rev)
          /\ sts' = LeaderStatefulSet(rev)
          /\ current' = IF sts = NoSts THEN LeaderStatefulSet(rev).stamp ELSE current
          /\ finishing' = [active |-> TRUE, spec |-> spec, key |-> RevisionKey(rev)]
    BY <1>1 DEF Reconcile
  <2>2. sts' \in StsType /\ LeaderStatefulSet(rev).stamp \in Stamp
    BY <2>1, AppliedStatefulSet
  <2>3. RevisionKey(rev) \in Templates /\ CreatedRevisions(rev) \subseteq Revision
    BY <2>1, RevisionType
  <2>4. current' \in Stamp
    BY <2>1, <2>2 DEF CurrentSet
  <2>5. finishing' \in Reconciling
    BY <2>1, <2>3 DEF Reconciling, TypeOK
  <2> QED
    BY <1>1, <2>1, <2>2, <2>3, <2>4, <2>5 DEF Reconcile, TypeOK, CurrentSet, views
<1>2. CASE ReconcileApplyFails
  <2>1. revisions' \subseteq Revision
    BY <1>2, RevisionType DEF ReconcileApplyFails, TypeOK
  <2>2. failures' \in 0 .. MaxFailures
    BY <1>0, <1>2 DEF ReconcileApplyFails, TypeOK
  <2> QED
    BY <1>2, <2>1, <2>2 DEF ReconcileApplyFails, TypeOK, CurrentSet, views
<1>3. CASE ReconcileSchedulingError
  <2>1. PICK rev \in getOrCreateRevision :
          /\ \A r \in CreatedRevisions(rev) : CanCreate(r)
          /\ revisions' = revisions \cup CreatedRevisions(rev)
          /\ sts' = IF StsSeen = sts /\ Parameters(rev).replicas < sts.replicas
                    THEN [sts EXCEPT !.replicas = Parameters(rev).replicas] ELSE sts
    BY <1>3 DEF ReconcileSchedulingError
  <2>2. CreatedRevisions(rev) \subseteq Revision
    BY <2>1, RevisionType
  <2>4. Parameters(rev).replicas \in Nat
    BY <2>1, ParametersReplicas
  <2>5. sts' \in StsType /\ (sts' # NoSts => sts # NoSts)
    <3>1. CASE StsSeen = sts /\ Parameters(rev).replicas < sts.replicas
      <4>1. sts # NoSts
        BY <2>4, <3>1 DEF NoSts
      <4>2. sts \in [replicas : 0 .. 2 * MaxReplicas, partition : Nat,
                     specReplicas : 0 .. MaxReplicas, stamp : Stamp]
        BY <4>1 DEF TypeOK, StsType
      <4>3. Parameters(rev).replicas \in 0 .. 2 * MaxReplicas
        BY <1>0, <2>4, <3>1, <4>2
      <4> QED
        BY <2>1, <3>1, <4>1, <4>2, <4>3 DEF StsType
    <3>2. CASE ~(StsSeen = sts /\ Parameters(rev).replicas < sts.replicas)
      BY <2>1, <3>2 DEF TypeOK
    <3> QED
      BY <3>1, <3>2
  <2>6. failures' \in 0 .. MaxFailures
    BY <1>0, <1>3 DEF ReconcileSchedulingError, TypeOK
  <2> QED
    BY <1>3, <2>1, <2>2, <2>5, <2>6 DEF ReconcileSchedulingError, TypeOK, CurrentSet, views
<1>4. CASE FinishReconcile \/ StopReconcile
  BY <1>4 DEF FinishReconcile, StopReconcile, TypeOK, CurrentSet, views
<1>5. CASE User
  <2>1. ASSUME NEW n \in 0 .. MaxReplicas, Edit([spec EXCEPT !.replicas = n]) PROVE TypeInv'
    BY <2>1, EditType, Zenon DEF TypeOK, LwsSpec
  <2>2. ASSUME NEW t \in Templates, Edit([spec EXCEPT !.template = t]) PROVE TypeInv'
    BY <2>2, EditType, Zenon DEF TypeOK, LwsSpec
  <2>3. ASSUME NEW p \in Partitions, Edit([spec EXCEPT !.partition = p]) PROVE TypeInv'
    BY <2>3, EditType, Zenon DEF TypeOK, LwsSpec
  <2> QED
    BY <1>5, <2>1, <2>2, <2>3 DEF User, Scale, UpdateTemplate, SetPartition
<1>6. CASE Observe
  <2>1. ASSUME NEW i \in Ordinals, ObserveGroup(i) PROVE TypeInv'
    BY <2>1 DEF ObserveGroup, TypeOK, CurrentSet
  <2>2. CASE ObserveSts \/ ObserveRevisions
    BY <2>2 DEF ObserveSts, ObserveRevisions, TypeOK, CurrentSet
  <2> QED
    BY <1>6, <2>1, <2>2 DEF Observe
<1>7. CASE Cluster
  <2>1. CASE StsCompleteRollingUpdate
    <3>1. current' \in Stamp
      BY <2>1 DEF StsCompleteRollingUpdate, TypeOK, StsType
    <3> QED
      BY <2>1, <3>1 DEF StsCompleteRollingUpdate, TypeOK, CurrentSet, views
  <2>2. ASSUME NEW i \in Ordinals, StsCreatePod(i) PROVE TypeInv'
    <3>1. sts # NoSts
      BY <1>0, <2>2 DEF StsCreatePod, NoSts
    <3>2. current \in Stamp /\ sts.stamp \in Stamp
      BY <3>1 DEF CurrentSet, TypeOK, StsType
    <3>3. [phase |-> "pending", stamp |-> IF i < sts.partition THEN current ELSE sts.stamp] \in Group
      BY <3>2 DEF Group
    <3>4. failures' \in 0 .. MaxFailures
      BY <2>2 DEF StsCreatePod, TypeOK
    <3> QED
      BY <2>2, <3>3, <3>4, SetGroupType DEF StsCreatePod
  <2>3. ASSUME NEW i \in Ordinals, StsUpdatePod(i) \/ StsScaleDown(i) PROVE TypeInv'
    <3>1. Absent \in Group
      BY DEF Group
    <3>2. failures' \in 0 .. MaxFailures /\ SetGroup(i, Absent)
      BY <2>3 DEF StsUpdatePod, StsScaleDown, TypeOK
    <3> QED
      BY <3>1, <3>2, SetGroupType
  <2>4. ASSUME NEW i \in Ordinals, GroupReady(i) PROVE TypeInv'
    <3>1. groups[i] \in [phase : {"pending", "ready"}, stamp : Stamp]
      BY <2>4 DEF GroupReady, TypeOK, Group, Absent
    <3>2. [groups[i] EXCEPT !.phase = "ready"] \in Group
      BY <3>1 DEF Group
    <3>3. failures' \in 0 .. MaxFailures
      BY <2>4 DEF GroupReady, TypeOK
    <3> QED
      BY <2>4, <3>2, <3>3, SetGroupType DEF GroupReady
  <2>5. ASSUME NEW i \in Ordinals, GroupFail(i) PROVE TypeInv'
    <3>1. groups[i] \in [phase : {"pending", "ready"}, stamp : Stamp]
      BY <2>5 DEF GroupFail, TypeOK, Group, Absent
    <3>2. {Absent, [groups[i] EXCEPT !.phase = "pending"]} \subseteq Group
      BY <3>1 DEF Group
    <3>3. failures' \in 0 .. MaxFailures
      BY <1>0, <2>5 DEF GroupFail, TypeOK
    <3> QED
      BY <2>5, <3>2, <3>3, SetGroupType DEF GroupFail
  <2> QED
    BY <1>7, <2>1, <2>2, <2>3, <2>4, <2>5 DEF Cluster
<1>8. CASE UNCHANGED vars
  BY <1>8 DEF vars, TypeOK, CurrentSet
<1> QED
  BY <1>1, <1>2, <1>3, <1>4, <1>5, <1>6, <1>7, <1>8 DEF Next, Controller

\* Every variable keeps its type, whatever the caches hold.  In particular
\* the StatefulSet never exceeds twice the replicas.
THEOREM TypeCorrect == Spec => []TypeOK
<1>1. TypeInv => TypeOK
  BY DEF TypeInv
<1> QED
  BY InitTypeInv, NextTypeInv, <1>1, PTL DEF Spec

-----------------------------------------------------------------------------
(* The applied StatefulSet.                                                *)

\* The steps that write the leader StatefulSet: a reconcile's apply, or the
\* scale-down of handleWorkloadSchedulingError.
LEMMA StsWrites ==
  ASSUME [Next]_vars
  PROVE  \/ UNCHANGED sts
         \/ Reconcile
         \/ ReconcileSchedulingError
<1>1. CASE Controller
  BY <1>1 DEF Controller, ReconcileApplyFails, FinishReconcile, StopReconcile
<1>2. CASE User
  BY <1>2 DEF User, Scale, UpdateTemplate, SetPartition, Edit
<1>3. CASE Observe
  BY <1>3 DEF Observe, ObserveSts, ObserveRevisions, ObserveGroup
<1>4. CASE Cluster
  BY <1>4 DEF Cluster, StsCompleteRollingUpdate, StsCreatePod, StsUpdatePod, StsScaleDown,
              GroupReady, GroupFail, SetGroup
<1>5. CASE UNCHANGED vars
  BY <1>5 DEF vars
<1> QED
  BY <1>1, <1>2, <1>3, <1>4, <1>5 DEF Next

\* The scale-down only lowers the replicas.
LEMMA ScaleDownOnlyLowers ==
  ASSUME TypeInv, ReconcileSchedulingError
  PROVE  /\ sts' = sts \/ sts'.replicas < sts.replicas
         /\ sts'.partition = sts.partition
         /\ sts'.stamp = sts.stamp
         /\ sts'.replicas \in Nat
         /\ sts' # NoSts => sts # NoSts
<1>1. PICK rev \in getOrCreateRevision :
        /\ \A r \in CreatedRevisions(rev) : CanCreate(r)
        /\ sts' = IF StsSeen = sts /\ Parameters(rev).replicas < sts.replicas
                  THEN [sts EXCEPT !.replicas = Parameters(rev).replicas] ELSE sts
  BY DEF ReconcileSchedulingError
<1>2. MaxReplicas \in Nat
  BY ConstantsAssumption
<1>3. Parameters(rev).replicas \in Nat
  BY <1>1, ParametersReplicas DEF TypeInv
<1>4. sts \in StsType
  BY DEF TypeInv, TypeOK
<1>5. CASE StsSeen = sts /\ Parameters(rev).replicas < sts.replicas
  <2>1. sts # NoSts
    BY <1>3, <1>5 DEF NoSts
  <2>2. sts \in [replicas : 0 .. 2 * MaxReplicas, partition : Nat,
                 specReplicas : 0 .. MaxReplicas, stamp : Stamp]
    BY <1>4, <2>1 DEF StsType
  <2> QED
    BY <1>1, <1>3, <1>5, <2>1, <2>2
<1>6. CASE ~(StsSeen = sts /\ Parameters(rev).replicas < sts.replicas)
  BY <1>1, <1>2, <1>4, <1>6 DEF StsType, NoSts
<1> QED
  BY <1>5, <1>6

\* The StatefulSet never grows beyond replicas + maxSurge, even when every
\* cache of the reconciler is stale.
THEOREM SurgeStaysBounded == Spec => SurgeBounded
<1> DEFINE Grows == sts.replicas < sts'.replicas
                      => sts'.replicas <= spec.replicas + MaxSurgeOf(spec, spec.replicas)
<1>1. ASSUME TypeInv, [Next]_vars PROVE [Grows]_vars
  <2>1. CASE UNCHANGED sts
    <3>1. sts.replicas \in Nat
      BY <1>1, ConstantsAssumption DEF TypeInv, TypeOK, StsType, NoSts
    <3> QED
      BY <2>1, <3>1
  <2>2. CASE Reconcile
    <3>1. PICK rev \in getOrCreateRevision :
            /\ \A r \in CreatedRevisions(rev) : CanCreate(r)
            /\ sts' = LeaderStatefulSet(rev)
      BY <2>2 DEF Reconcile
    <3>2. sts'.replicas \in spec.replicas .. spec.replicas + MaxSurgeOf(spec, spec.replicas)
      BY <1>1, <3>1, AppliedStatefulSet DEF TypeInv
    <3> QED
      BY <3>2
  <2>3. CASE ReconcileSchedulingError
    <3>1. sts' = sts \/ sts'.replicas < sts.replicas
      BY <1>1, <2>3, ScaleDownOnlyLowers
    <3>2. sts.replicas \in Nat /\ sts'.replicas \in Nat
      BY <1>1, <2>3, ConstantsAssumption, ScaleDownOnlyLowers DEF TypeInv, TypeOK, StsType, NoSts
    <3> QED
      BY <3>1, <3>2
  <2> QED
    BY <1>1, <2>1, <2>2, <2>3, StsWrites
<1>2. Spec => []TypeInv
  BY InitTypeInv, NextTypeInv, PTL DEF Spec
<1>3. TypeInv /\ [Next]_vars => [Grows]_vars
  BY <1>1
<1> QED
  BY <1>2, <1>3, PTL DEF Spec, SurgeBounded

-----------------------------------------------------------------------------
(* The revision of the StatefulSet.                                        *)

\* NewRevision returns a revision the cache does not hold.
LEMMA NewRevisionIsNew ==
  ASSUME TypeOK, NEW data, NEW key
  PROVE  NewRevision(data, key) \notin RevisionsSeen
<1> DEFINE numbers == {r.number : r \in RevisionsSeen}
           highest == IF numbers = {} THEN 0
                      ELSE CHOOSE n \in numbers : \A k \in numbers : k <= n
<1>1. MaxNumber \in Nat
  BY ConstantsAssumption
<1>2. numbers \in SUBSET (1 .. MaxNumber)
  BY SeenType DEF Revision
<1>3. NewRevision(data, key).number = highest + 1
  BY DEF NewRevision
<1>4. \A r \in RevisionsSeen : r.number \in numbers
  OBVIOUS
<1> HIDE DEF numbers
<1>5. \A n \in numbers : n \in Nat /\ n <= highest /\ highest \in Nat
  <2> SUFFICES ASSUME NEW n \in numbers PROVE n \in Nat /\ n <= highest /\ highest \in Nat
    OBVIOUS
  <2>1. \E h \in numbers : \A k \in numbers : k <= h
    BY <1>1, <1>2, GreatestNumber
  <2>2. highest \in numbers /\ \A k \in numbers : k <= highest
    BY <2>1
  <2>3. n \in 1 .. MaxNumber /\ highest \in 1 .. MaxNumber
    BY <1>2, <2>2
  <2> QED
    BY <1>1, <2>2, <2>3
<1> HIDE DEF highest
<1> QED
  BY <1>3, <1>4, <1>5

\* GetRevision finds a revision whenever the cache holds one with the key.
LEMMA GetRevisionFinds ==
  ASSUME TypeOK, NEW key, NEW s \in RevisionsSeen, s.key = key
  PROVE  GetRevision(key) # {}
<1> DEFINE matching == {r \in RevisionsSeen : r.key = key}
           numbers == {r.number : r \in matching}
<1>1. MaxNumber \in Nat
  BY ConstantsAssumption
<1>2. numbers \in SUBSET (1 .. MaxNumber) /\ numbers # {}
  BY SeenType DEF Revision
<1>3. PICK n \in numbers : \A k \in numbers : k <= n
  <2> HIDE DEF numbers
  <2> QED
    BY <1>1, <1>2, GreatestNumber
<1>4. PICK r \in matching : r.number = n
  BY <1>3
<1> QED
  BY <1>3, <1>4 DEF GetRevision

\* The steps that write the revisions.
LEMMA RevisionWrites ==
  ASSUME [Next]_vars
  PROVE  \/ UNCHANGED <<sts, revisions, finishing>>
         \/ Reconcile \/ ReconcileApplyFails \/ ReconcileSchedulingError
         \/ FinishReconcile \/ StopReconcile
<1>1. CASE Controller
  BY <1>1 DEF Controller
<1>2. CASE User
  BY <1>2 DEF User, Scale, UpdateTemplate, SetPartition, Edit
<1>3. CASE Observe
  BY <1>3 DEF Observe, ObserveSts, ObserveRevisions, ObserveGroup
<1>4. CASE Cluster
  BY <1>4 DEF Cluster, StsCompleteRollingUpdate, StsCreatePod, StsUpdatePod, StsScaleDown,
              GroupReady, GroupFail, SetGroup
<1>5. CASE UNCHANGED vars
  BY <1>5 DEF vars
<1> QED
  BY <1>1, <1>2, <1>3, <1>4, <1>5 DEF Next

\* FinishingKey makes StsHasRevision inductive: the truncation at the end of a
\* reconcile spares the key it remembers, so that has to be the StatefulSet's.
RevisionInv == TypeInv /\ StsHasRevision /\ FinishingKey

\* Every step keeps the StatefulSet's revision.
LEMMA NextRevisionInv ==
  ASSUME \A L \in LagSets : ~({"statefulset", "revisions"} \subseteq L),
         RevisionInv, [Next]_vars
  PROVE  RevisionInv'
<1>1. TypeInv' /\ TypeOK
  BY NextTypeInv DEF RevisionInv, TypeInv
<1>2. CASE UNCHANGED <<sts, revisions, finishing>>
  BY <1>1, <1>2 DEF RevisionInv, StsHasRevision, FinishingKey
<1>3. CASE Reconcile
  <2>1. PICK rev \in getOrCreateRevision :
          /\ \A r \in CreatedRevisions(rev) : CanCreate(r)
          /\ revisions' = revisions \cup CreatedRevisions(rev)
          /\ sts' = LeaderStatefulSet(rev)
          /\ finishing' = [active |-> TRUE, spec |-> spec, key |-> RevisionKey(rev)]
    BY <1>3 DEF Reconcile
  <2>2. sts' # NoSts /\ sts'.stamp.key = RevisionKey(rev)
    <3>1. sts' # NoSts /\ sts'.stamp = [key |-> RevisionKey(rev), data |-> spec.template]
      BY <1>1, <2>1, AppliedStatefulSet, Zenon
    <3> QED
      BY <3>1
  <2>3. \E r \in revisions' : r.key = RevisionKey(rev)
    <3>1. CASE LwsUpdated(rev)
      <4>1. NewRevision(spec.template, spec.template) \in revisions'
        BY <2>1, <3>1 DEF CreatedRevisions
      <4>2. NewRevision(spec.template, spec.template).key = spec.template
        BY <1>1, NewRevisionType
      <4> QED
        BY <3>1, <4>1, <4>2 DEF RevisionKey
    <3>2. CASE ~LwsUpdated(rev) /\ rev \notin RevisionsSeen
      BY <2>1, <3>2 DEF CreatedRevisions, RevisionKey
    <3>3. CASE ~LwsUpdated(rev) /\ rev \in RevisionsSeen
      <4>1. CASE "revisions" \notin lagging
        BY <2>1, <3>3, <4>1 DEF RevisionsSeen, RevisionKey
      <4>2. CASE "revisions" \in lagging
        <5>1. StsSeen = sts
          BY <1>1, <4>2 DEF StsSeen, TypeOK
        <5>2. rev.key = sts.stamp.key /\ sts # NoSts
          BY <1>1, <3>3, <5>1, NewRevisionIsNew DEF getOrCreateRevision, GetRevision
        <5> QED
          BY <2>1, <3>3, <5>2 DEF RevisionInv, StsHasRevision, RevisionKey
      <4> QED
        BY <4>1, <4>2
    <3> QED
      BY <3>1, <3>2, <3>3
  <2> QED
    BY <1>1, <2>1, <2>2, <2>3 DEF RevisionInv, StsHasRevision, FinishingKey
<1>4. CASE ReconcileApplyFails
  BY <1>1, <1>4 DEF ReconcileApplyFails, RevisionInv, StsHasRevision, FinishingKey
<1>5. CASE ReconcileSchedulingError
  <2>1. sts'.stamp = sts.stamp /\ (sts' # NoSts => sts # NoSts)
    BY <1>5, ScaleDownOnlyLowers DEF RevisionInv
  <2>2. revisions \subseteq revisions' /\ finishing' = finishing /\ ~finishing.active
    BY <1>5 DEF ReconcileSchedulingError
  <2> QED
    BY <1>1, <2>1, <2>2 DEF RevisionInv, StsHasRevision, FinishingKey
<1>6. CASE FinishReconcile \/ StopReconcile
  <2>1. sts' = sts /\ finishing' = NoReconcile /\ finishing.active
    BY <1>6 DEF FinishReconcile, StopReconcile
  <2>2. \A r \in revisions : r.key = finishing.key => r \in revisions'
    BY <1>6 DEF FinishReconcile, StopReconcile, Obsolete
  <2> QED
    BY <1>1, <2>1, <2>2 DEF RevisionInv, StsHasRevision, FinishingKey, NoReconcile
<1> QED
  BY <1>2, <1>3, <1>4, <1>5, <1>6, RevisionWrites

\* Unless the StatefulSet and the revision caches lag together, the revision
\* the StatefulSet is labelled with is never truncated, by whichever reconcile
\* and wherever it stops.
THEOREM StsKeepsRevision ==
  ASSUME \A L \in LagSets : ~({"statefulset", "revisions"} \subseteq L)
  PROVE  Spec => []StsHasRevision
<1>1. ASSUME Init PROVE RevisionInv
  <2>1. TypeInv
    BY <1>1, InitTypeInv
  <2>2. sts = NoSts /\ finishing = NoReconcile
    BY <1>1 DEF Init
  <2>3. ~finishing.active
    BY <2>2 DEF NoReconcile
  <2> QED
    BY <2>1, <2>2, <2>3 DEF RevisionInv, StsHasRevision, FinishingKey
<1>2. RevisionInv /\ [Next]_vars => RevisionInv'
  BY NextRevisionInv
<1>3. RevisionInv => StsHasRevision
  BY DEF RevisionInv
<1> QED
  BY <1>1, <1>2, <1>3, PTL DEF Spec

-----------------------------------------------------------------------------
(* Labels and partition, while the StatefulSet and the revision caches are *)
(* current.                                                                *)

\* The label of the StatefulSet names the template it carries.
StsKeyNamesContent == sts # NoSts => sts.stamp.key = sts.stamp.data

LabelInv == RevisionInv /\ KeyNamesContent /\ StsKeyNamesContent

\* With current caches a reconcile starts from the StatefulSet's own revision,
\* or creates the first one; it never creates one under an old label.
LEMMA CurrentRevision ==
  ASSUME \A L \in LagSets : L \subseteq {"groups"},
         LabelInv, NEW rev \in getOrCreateRevision
  PROVE  /\ StsSeen = sts /\ RevisionsSeen = revisions
         /\ rev.key = rev.data
         /\ sts = NoSts => rev.data = spec.template
         /\ sts # NoSts => rev \in revisions /\ rev.key = sts.stamp.key
<1>1. TypeOK
  BY DEF LabelInv, RevisionInv, TypeInv
<1>2. StsSeen = sts /\ RevisionsSeen = revisions
  BY <1>1 DEF StsSeen, RevisionsSeen, TypeOK
<1>3. CASE sts = NoSts
  <2>1. rev = NewRevision(spec.template, spec.template)
    BY <1>2, <1>3 DEF getOrCreateRevision
  <2> QED
    BY <1>1, <1>2, <1>3, <2>1, NewRevisionType
<1>4. CASE sts # NoSts
  <2>1. PICK s \in revisions : s.key = sts.stamp.key
    BY <1>4 DEF LabelInv, RevisionInv, StsHasRevision
  <2>2. GetRevision(sts.stamp.key) # {}
    BY <1>1, <1>2, <2>1, GetRevisionFinds
  <2>3. rev \in GetRevision(sts.stamp.key)
    BY <1>2, <1>4, <2>2 DEF getOrCreateRevision
  <2>4. rev \in revisions /\ rev.key = sts.stamp.key
    BY <1>2, <2>3 DEF GetRevision
  <2> QED
    BY <1>2, <1>4, <2>4 DEF LabelInv, KeyNamesContent
<1> QED
  BY <1>3, <1>4

\* The revisions a reconcile creates are named after their content.
LEMMA CreatedNamed ==
  ASSUME \A L \in LagSets : L \subseteq {"groups"},
         LabelInv, NEW rev \in getOrCreateRevision, NEW r \in CreatedRevisions(rev)
  PROVE  r.key = r.data
<1>1. r = rev \/ r = NewRevision(spec.template, spec.template)
  BY DEF CreatedRevisions
<1>2. TypeOK
  BY DEF LabelInv, RevisionInv, TypeInv
<1> QED
  BY <1>1, <1>2, CurrentRevision, NewRevisionType

\* Every step keeps revisions and StatefulSet labelled by their content.
LEMMA NextLabelInv ==
  ASSUME \A L \in LagSets : L \subseteq {"groups"}, LabelInv, [Next]_vars
  PROVE  LabelInv'
<1>1. RevisionInv'
  BY NextRevisionInv DEF LabelInv
<1>2. TypeOK
  BY DEF LabelInv, RevisionInv, TypeInv
<1>3. CASE UNCHANGED <<sts, revisions, finishing>>
  BY <1>1, <1>3 DEF LabelInv, KeyNamesContent, StsKeyNamesContent
<1>4. CASE Reconcile
  <2>1. PICK rev \in getOrCreateRevision :
          /\ \A r \in CreatedRevisions(rev) : CanCreate(r)
          /\ revisions' = revisions \cup CreatedRevisions(rev)
          /\ sts' = LeaderStatefulSet(rev)
    BY <1>4 DEF Reconcile
  <2>2. sts'.stamp = [key |-> RevisionKey(rev), data |-> spec.template]
    BY <1>2, <2>1, AppliedStatefulSet, Zenon
  <2>3. RevisionKey(rev) = spec.template
    BY <2>1, CurrentRevision DEF RevisionKey, LwsUpdated
  <2>4. KeyNamesContent'
    BY <2>1, CreatedNamed DEF LabelInv, KeyNamesContent
  <2> QED
    BY <1>1, <2>2, <2>3, <2>4 DEF LabelInv, StsKeyNamesContent
<1>5. CASE ReconcileApplyFails
  BY <1>1, <1>5, CreatedNamed
     DEF ReconcileApplyFails, LabelInv, KeyNamesContent, StsKeyNamesContent
<1>6. CASE ReconcileSchedulingError
  <2>1. sts'.stamp = sts.stamp /\ (sts' # NoSts => sts # NoSts)
    BY <1>6, ScaleDownOnlyLowers DEF LabelInv, RevisionInv
  <2>2. KeyNamesContent'
    BY <1>6, CreatedNamed DEF ReconcileSchedulingError, LabelInv, KeyNamesContent
  <2> QED
    BY <1>1, <2>1, <2>2 DEF LabelInv, StsKeyNamesContent
<1>7. CASE FinishReconcile \/ StopReconcile
  BY <1>1, <1>7 DEF FinishReconcile, StopReconcile, LabelInv, KeyNamesContent, StsKeyNamesContent
<1> QED
  BY <1>3, <1>4, <1>5, <1>6, <1>7, RevisionWrites

\* The labels are right in every reachable state.
LEMMA LabelInvariant ==
  ASSUME \A L \in LagSets : L \subseteq {"groups"}
  PROVE  Spec => []LabelInv
<1>1. ASSUME Init PROVE LabelInv
  <2>1. TypeInv
    BY <1>1, InitTypeInv
  <2>2. sts = NoSts /\ revisions = {} /\ finishing = NoReconcile
    BY <1>1 DEF Init
  <2>3. ~finishing.active
    BY <2>2 DEF NoReconcile
  <2>4. StsHasRevision /\ FinishingKey /\ KeyNamesContent /\ StsKeyNamesContent
    BY <2>2, <2>3 DEF StsHasRevision, FinishingKey, KeyNamesContent, StsKeyNamesContent
  <2> QED
    BY <2>1, <2>4 DEF LabelInv, RevisionInv
<1>2. LabelInv /\ [Next]_vars => LabelInv'
  BY NextLabelInv
<1> QED
  BY <1>1, <1>2, PTL DEF Spec

\* With current StatefulSet and revision caches every revision is stored under
\* the key of its own content.
THEOREM RevisionsNamed ==
  ASSUME \A L \in LagSets : L \subseteq {"groups"}
  PROVE  Spec => []KeyNamesContent
<1>1. LabelInv => KeyNamesContent
  BY DEF LabelInv
<1> QED
  BY <1>1, LabelInvariant, PTL

\* Then, however stale the reconciler's view of the groups is, the partition
\* of a rollout only falls, down to the user's partition.
THEOREM RolloutNeverMovesBack ==
  ASSUME \A L \in LagSets : L \subseteq {"groups"}
  PROVE  Spec => PartitionMovesDown
<1> DEFINE MovesDown == sts # NoSts /\ sts'.stamp = sts.stamp /\ spec.partition <= sts.partition
                          => sts'.partition <= sts.partition
<1>1. ASSUME LabelInv, [Next]_vars PROVE [MovesDown]_vars
  <2>1. TypeOK /\ sts.partition \in Nat
    BY <1>1 DEF LabelInv, RevisionInv, TypeInv, TypeOK, StsType, NoSts
  <2>2. CASE UNCHANGED sts
    BY <2>1, <2>2
  <2>3. CASE Reconcile
    <3> SUFFICES ASSUME sts # NoSts, sts'.stamp = sts.stamp, spec.partition <= sts.partition
                 PROVE  sts'.partition <= sts.partition
      OBVIOUS
    <3>1. PICK rev \in getOrCreateRevision :
            /\ \A r \in CreatedRevisions(rev) : CanCreate(r)
            /\ sts' = LeaderStatefulSet(rev)
      BY <2>3 DEF Reconcile
    <3>2. StsSeen = sts /\ rev.key = rev.data /\ rev.key = sts.stamp.key
      BY <1>1, <3>1, CurrentRevision
    <3>3. sts.stamp = [key |-> RevisionKey(rev), data |-> spec.template]
      BY <2>1, <3>1, AppliedStatefulSet, Zenon
    <3>4. ~LwsUpdated(rev)
      BY <3>2, <3>3 DEF LwsUpdated, RevisionKey
    <3> QED
      BY <2>1, <3>1, <3>2, <3>4, AppliedStatefulSet, Zenon
  <2>4. CASE ReconcileSchedulingError
    <3>1. sts'.partition = sts.partition
      BY <1>1, <2>4, ScaleDownOnlyLowers DEF LabelInv, RevisionInv
    <3> QED
      BY <2>1, <3>1
  <2> QED
    BY <1>1, <2>2, <2>3, <2>4, StsWrites
<1>2. LabelInv /\ [Next]_vars => [MovesDown]_vars
  BY <1>1
<1> QED
  BY <1>2, LabelInvariant, PTL DEF Spec, PartitionMovesDown

\* And a new template always starts above every old group, never in the
\* middle of an older rollout.
THEOREM RolloutAlwaysStartsAtTop ==
  ASSUME \A L \in LagSets : L \subseteq {"groups"}
  PROVE  Spec => RolloutStartsAtTop
<1> DEFINE AtTop == sts # NoSts /\ sts'.stamp.data # sts.stamp.data
                      => sts'.partition >= Smaller(spec.replicas, sts.replicas)
<1>1. ASSUME LabelInv, [Next]_vars PROVE [AtTop]_vars
  <2>1. TypeOK
    BY <1>1 DEF LabelInv, RevisionInv, TypeInv
  <2>2. CASE UNCHANGED sts
    BY <2>2
  <2>3. CASE Reconcile
    <3> SUFFICES ASSUME sts # NoSts, sts'.stamp.data # sts.stamp.data
                 PROVE  sts'.partition >= Smaller(spec.replicas, sts.replicas)
      OBVIOUS
    <3>1. PICK rev \in getOrCreateRevision :
            /\ \A r \in CreatedRevisions(rev) : CanCreate(r)
            /\ sts' = LeaderStatefulSet(rev)
      BY <2>3 DEF Reconcile
    <3>2. StsSeen = sts /\ rev.key = rev.data /\ rev.key = sts.stamp.key
      BY <1>1, <3>1, CurrentRevision
    <3>3. sts'.stamp = [key |-> RevisionKey(rev), data |-> spec.template]
      BY <2>1, <3>1, AppliedStatefulSet, Zenon
    <3>4. LwsUpdated(rev)
      BY <1>1, <3>2, <3>3 DEF LwsUpdated, LabelInv, StsKeyNamesContent
    <3> QED
      BY <2>1, <3>1, <3>2, <3>4, AppliedStatefulSet, Zenon
  <2>4. CASE ReconcileSchedulingError
    BY <1>1, <2>4, ScaleDownOnlyLowers DEF LabelInv, RevisionInv
  <2> QED
    BY <1>1, <2>2, <2>3, <2>4, StsWrites
<1>2. LabelInv /\ [Next]_vars => [AtTop]_vars
  BY <1>1
<1> QED
  BY <1>2, LabelInvariant, PTL DEF Spec, RolloutStartsAtTop

-----------------------------------------------------------------------------
(* The budget, while all caches are current.                               *)

\* The most groups the StatefulSet keeps for a replica count: as many as at the
\* start of a rollout, when none is updated.
Burst(n) == calculateRollingUpdateReplicas(n, MaxSurgeOf(spec, n), MaxUnavailableOf(spec, n), n)

BurstInv == sts # NoSts => sts.replicas <= Burst(sts.specReplicas)

\* Groups and the StatefulSet controller's current revision are labelled by
\* their content, so that a group with the label of a rollout has its template.
GroupsNamed ==
  /\ current.key = current.data
  /\ \A i \in Ordinals : groups[i].stamp.key = groups[i].stamp.data

BudgetInv == LabelInv /\ BurstInv /\ GroupsNamed

\* No step changes the rolling update budget in the spec.
LEMMA BudgetFixed ==
  ASSUME TypeOK, [Next]_vars
  PROVE  /\ spec'.maxSurge = spec.maxSurge /\ spec'.maxUnavailable = spec.maxUnavailable
         /\ \A n : Burst(n)' = Burst(n)
<1>1. spec \in LwsSpec
  BY DEF TypeOK
<1>2. spec'.maxSurge = spec.maxSurge /\ spec'.maxUnavailable = spec.maxUnavailable
  <2>1. CASE User
    BY <1>1, <2>1 DEF User, Scale, UpdateTemplate, SetPartition, Edit, LwsSpec
  <2>2. CASE Controller
    BY <2>2 DEF Controller, Reconcile, ReconcileApplyFails, ReconcileSchedulingError,
                FinishReconcile, StopReconcile
  <2>3. CASE Observe
    BY <2>3 DEF Observe, ObserveSts, ObserveRevisions, ObserveGroup
  <2>4. CASE Cluster
    BY <2>4 DEF Cluster, StsCompleteRollingUpdate, StsCreatePod, StsUpdatePod, StsScaleDown,
                GroupReady, GroupFail, SetGroup
  <2>5. CASE UNCHANGED vars
    BY <2>5 DEF vars
  <2> QED
    BY <2>1, <2>2, <2>3, <2>4, <2>5 DEF Next
<1> QED
  BY <1>2 DEF Burst, MaxSurgeOf, MaxUnavailableOf

\* What rollingUpdateParameters is given and returns in a reconcile.
LEMMA ReconcileParameters ==
  ASSUME TypeOK, NEW rev \in getOrCreateRevision, \A r \in CreatedRevisions(rev) : CanCreate(r)
  PROVE  LET states == getReplicaStates(StsSeen.replicas, RevisionKey(rev))
             new    == LeaderStatefulSet(rev)
         IN  /\ new.specReplicas = spec.replicas
             /\ new.replicas <= Burst(spec.replicas)
             /\ (/\ StsSeen # NoSts /\ ~LwsUpdated(rev)
                 /\ new.partition < StsSeen.partition /\ new.partition < new.replicas) =>
                  /\ StsSeen.replicas >= spec.replicas /\ StsSeen.specReplicas = spec.replicas
                  /\ new.replicas = calculateRollingUpdateReplicas(spec.replicas,
                       MaxSurgeOf(spec, spec.replicas), MaxUnavailableOf(spec, spec.replicas),
                       calculateLWSUnreadyReplicas(states, StsSeen.replicas, spec.replicas))
                  /\ new.partition >= StsSeen.replicas
                       - calculateContinuousReadyReplicas(states, StsSeen.replicas)
                       - (MaxUnavailableOf(spec, spec.replicas) + (StsSeen.replicas - spec.replicas))
<1> DEFINE states == getReplicaStates(StsSeen.replicas, RevisionKey(rev))
           result == Parameters(rev)
           new    == LeaderStatefulSet(rev)
<1>1. /\ spec.replicas \in Nat /\ spec.partition \in Nat
      /\ spec.maxSurge \in IntOrString /\ spec.maxUnavailable \in IntOrString
      /\ MaxSurgeOf(spec, spec.replicas) \in 0 .. spec.replicas
  BY SpecFields
<1>2. StsSeen.replicas \in Nat /\ StsSeen.partition \in Nat
  BY SeenType, ConstantsAssumption DEF StsType, NoSts
<1>3. LwsUpdated(rev) \in BOOLEAN
  BY RevisionType
<1>4. /\ new.specReplicas = spec.replicas /\ new.replicas = result.replicas
      /\ new.partition = result.partition
  BY DEF LeaderStatefulSet
<1>5. MaxUnavailableOf(spec, spec.replicas) \in Nat
  BY <1>1, MaxUnavailableType
<1>6. CASE StsSeen = NoSts
  <2>1. result.replicas = spec.replicas
    BY <1>6 DEF Parameters
  <2>2. Burst(spec.replicas) \in spec.replicas .. spec.replicas + MaxSurgeOf(spec, spec.replicas)
    <3>1. MaxSurgeOf(spec, spec.replicas) \in Nat
      BY <1>1
    <3> QED
      BY <1>1, <1>5, <3>1, RollingUpdateReplicasBound DEF Burst
  <2> HIDE DEF result, new
  <2>3. new.replicas <= Burst(spec.replicas)
    BY <1>1, <1>4, <2>1, <2>2
  <2> QED
    BY <1>4, <1>6, <2>3, Zenon DEF new
<1>7. CASE StsSeen # NoSts
  <2>1. result = rollingUpdateParameters(spec, StsSeen, LwsUpdated(rev), states)
    BY <1>7 DEF Parameters
  <2> HIDE DEF states, result, new
  <2> QED
    <3> DEFINE surge   == MaxSurgeOf(spec, spec.replicas)
               unav    == MaxUnavailableOf(spec, spec.replicas)
               want(u) == calculateRollingUpdateReplicas(spec.replicas, surge, unav, u)
               tail    == calculateContinuousReadyReplicas(states, StsSeen.replicas)
               unready == calculateLWSUnreadyReplicas(states, StsSeen.replicas, spec.replicas)
    <3>1. /\ result.replicas <= want(spec.replicas)
          /\ ~LwsUpdated(rev) /\ result.partition < StsSeen.partition /\ result.partition < result.replicas =>
               /\ StsSeen.replicas >= spec.replicas /\ StsSeen.specReplicas = spec.replicas
               /\ result.replicas = want(unready)
               /\ result.partition >= StsSeen.replicas - tail - (unav + (StsSeen.replicas - spec.replicas))
      BY <1>1, <1>2, <1>3, <2>1, RollingUpdateLowers
    <3>2. Burst(spec.replicas) = want(spec.replicas)
      BY DEF Burst
    <3> HIDE DEF want, surge, unav, tail, unready
    <3>3. /\ new.replicas <= Burst(spec.replicas)
          /\ ~LwsUpdated(rev) /\ new.partition < StsSeen.partition /\ new.partition < new.replicas =>
               /\ StsSeen.replicas >= spec.replicas /\ StsSeen.specReplicas = spec.replicas
               /\ new.replicas = want(unready)
               /\ new.partition >= StsSeen.replicas - tail - (unav + (StsSeen.replicas - spec.replicas))
      BY <1>4, <3>1, <3>2, Zenon
    <3> QED
      BY <1>4, <3>3, Zenon DEF states, new, want, surge, unav, tail, unready
<1> QED
  BY <1>6, <1>7

\* Every step keeps the StatefulSet within the burst.
LEMMA NextBurstInv ==
  ASSUME TypeInv, BurstInv, [Next]_vars
  PROVE  BurstInv'
<1>1. TypeOK /\ TypeInv'
  BY NextTypeInv DEF TypeInv
<1>2. \A n : Burst(n)' = Burst(n)
  BY <1>1, BudgetFixed
<1>3. CASE UNCHANGED sts
  BY <1>2, <1>3 DEF BurstInv
<1>4. CASE Reconcile
  <2>1. PICK rev \in getOrCreateRevision :
          /\ \A r \in CreatedRevisions(rev) : CanCreate(r)
          /\ sts' = LeaderStatefulSet(rev)
    BY <1>4 DEF Reconcile
  <2>2. sts'.specReplicas = spec.replicas /\ sts'.replicas <= Burst(spec.replicas)
    BY <1>1, <2>1, ReconcileParameters
  <2> QED
    BY <1>2, <2>2 DEF BurstInv
<1>5. CASE ReconcileSchedulingError
  <2>1. /\ sts' = sts \/ sts'.replicas < sts.replicas
        /\ sts'.replicas \in Nat /\ (sts' # NoSts => sts # NoSts)
    BY <1>5, ScaleDownOnlyLowers
  <2>2. sts'.specReplicas = sts.specReplicas
    BY <1>1, <1>5 DEF ReconcileSchedulingError, TypeOK, StsType, NoSts
  <2>3. sts.replicas \in Nat /\ sts.specReplicas \in Nat
    BY <1>1, ConstantsAssumption DEF TypeOK, StsType, NoSts
  <2>4. Burst(sts.specReplicas) \in Int
    <3>1. spec.maxSurge \in IntOrString /\ spec.maxUnavailable \in IntOrString
      BY <1>1, SpecFields
    <3>2. MaxSurgeOf(spec, sts.specReplicas) \in 0 .. sts.specReplicas
      BY <2>3, <3>1, MaxSurgeBound
    <3>3. MaxUnavailableOf(spec, sts.specReplicas) \in Nat
      BY <2>3, <3>1, MaxUnavailableType
    <3> QED
      BY <2>3, <3>2, <3>3 DEF Burst, calculateRollingUpdateReplicas, NonZeroValue
  <2> QED
    BY <1>2, <2>1, <2>2, <2>3, <2>4 DEF BurstInv
<1> QED
  BY <1>3, <1>4, <1>5, StsWrites

\* Every step keeps the groups labelled by their content: they are created from
\* the StatefulSet's template or from its current revision.
LEMMA NextGroupsNamed ==
  ASSUME LabelInv, LabelInv', GroupsNamed, [Next]_vars
  PROVE  GroupsNamed'
<1>1. TypeOK /\ CurrentSet
  BY DEF LabelInv, RevisionInv, TypeInv
<1>2. groups \in [Ordinals -> Group] /\ MaxReplicas \in Nat
  BY <1>1, ConstantsAssumption DEF TypeOK
<1>3. ASSUME NEW i \in Ordinals, NEW group, SetGroup(i, group), group.stamp.key = group.stamp.data
      PROVE  GroupsNamed'
  <2>1. current' = current /\ groups' = [groups EXCEPT ![i] = group]
    BY <1>3 DEF SetGroup
  <2> QED
    BY <1>2, <1>3, <2>1 DEF GroupsNamed
<1>4. ASSUME UNCHANGED groups, \/ UNCHANGED current
                               \/ current'.key = current'.data
      PROVE  GroupsNamed'
  BY <1>4 DEF GroupsNamed
<1>5. CASE Controller
  <2>1. CASE Reconcile
    <3>1. UNCHANGED groups /\ (current' = sts'.stamp \/ UNCHANGED current)
      BY <2>1 DEF Reconcile
    <3>2. sts' # NoSts => sts'.stamp.key = sts'.stamp.data
      BY DEF LabelInv, StsKeyNamesContent
    <3>3. NoSts.stamp.key = NoSts.stamp.data
      BY DEF NoSts, NoStamp
    <3> QED
      BY <1>4, <3>1, <3>2, <3>3
  <2> QED
    BY <1>4, <1>5, <2>1 DEF Controller, ReconcileApplyFails, ReconcileSchedulingError, FinishReconcile,
                            StopReconcile
<1>6. CASE User
  BY <1>4, <1>6 DEF User, Scale, UpdateTemplate, SetPartition, Edit
<1>7. CASE Observe
  BY <1>4, <1>7 DEF Observe, ObserveSts, ObserveRevisions, ObserveGroup
<1>8. CASE Cluster
  <2>1. CASE StsCompleteRollingUpdate
    <3>1. UNCHANGED groups /\ sts # NoSts /\ current' = sts.stamp
      BY <2>1 DEF StsCompleteRollingUpdate
    <3> QED
      BY <1>4, <3>1 DEF LabelInv, StsKeyNamesContent
  <2>2. ASSUME NEW i \in Ordinals, StsCreatePod(i) PROVE GroupsNamed'
    <3>1. sts # NoSts
      BY <1>2, <2>2 DEF StsCreatePod, NoSts
    <3>2. sts.stamp.key = sts.stamp.data /\ current.key = current.data
      BY <3>1 DEF LabelInv, StsKeyNamesContent, GroupsNamed
    <3> QED
      BY <1>3, <2>2, <3>2 DEF StsCreatePod
  <2>3. Absent.stamp.key = Absent.stamp.data
    BY DEF Absent, NoStamp
  <2>4. ASSUME NEW i \in Ordinals, StsUpdatePod(i) \/ StsScaleDown(i) PROVE GroupsNamed'
    BY <1>3, <2>3, <2>4 DEF StsUpdatePod, StsScaleDown
  <2>5. ASSUME NEW i \in Ordinals, NEW p \in {"pending", "ready"}, SetGroup(i, [groups[i] EXCEPT !.phase = p])
        PROVE  GroupsNamed'
    <3>1. [groups[i] EXCEPT !.phase = p].stamp = groups[i].stamp
      BY <1>2 DEF Group, Absent
    <3> QED
      BY <1>3, <2>5, <3>1 DEF GroupsNamed
  <2>6. ASSUME NEW i \in Ordinals, GroupReady(i) \/ GroupFail(i) PROVE GroupsNamed'
    BY <1>3, <2>3, <2>5, <2>6 DEF GroupReady, GroupFail
  <2> QED
    BY <1>8, <2>1, <2>2, <2>4, <2>6 DEF Cluster
<1>9. CASE UNCHANGED vars
  BY <1>4, <1>9 DEF vars
<1> QED
  BY <1>5, <1>6, <1>7, <1>8, <1>9 DEF Next

\* The burst and the labels are right in every reachable state.
LEMMA BudgetInvariant ==
  ASSUME \A L \in LagSets : L \subseteq {"groups"}
  PROVE  Spec => []BudgetInv
<1>1. ASSUME Init PROVE BurstInv /\ GroupsNamed
  <2>1. sts = NoSts /\ current = NoStamp /\ groups = [i \in Ordinals |-> Absent]
    BY <1>1 DEF Init
  <2> QED
    BY <2>1 DEF BurstInv, GroupsNamed, NoStamp, Absent
<1>2. ASSUME BurstInv, GroupsNamed, LabelInv, LabelInv', [Next]_vars PROVE BurstInv' /\ GroupsNamed'
  <2>1. TypeInv
    BY <1>2 DEF LabelInv, RevisionInv
  <2> QED
    BY <1>2, <2>1, NextBurstInv, NextGroupsNamed
<1>3. BurstInv /\ GroupsNamed /\ LabelInv /\ LabelInv' /\ [Next]_vars => (BurstInv /\ GroupsNamed)'
  BY <1>2
<1>4. Spec => []LabelInv
  BY LabelInvariant
<1>5. Init => BurstInv /\ GroupsNamed
  BY <1>1
<1> QED
  BY <1>3, <1>4, <1>5, PTL DEF Spec, BudgetInv

\* A group at its place in a rollout: ready, with the template being rolled out.
Good(i) == Ready(i) /\ ~Outdated(i)

\* The reconciler's replica states say which groups are good.
LEMMA GoodGroups ==
  ASSUME BudgetInv, sts # NoSts, GroupsSeen = groups, NEW i \in 0 .. sts.replicas - 1
  PROVE  ReadyAndUpdated(getReplicaStates(sts.replicas, sts.stamp.key)[i]) <=> Good(i)
<1>1. /\ MaxReplicas \in Nat /\ i \in Ordinals /\ sts.stamp \in Stamp
      /\ groups[i] \in Group /\ groups[i].stamp.key = groups[i].stamp.data
      /\ sts.stamp.key = sts.stamp.data
  <2>1. TypeOK /\ MaxReplicas \in Nat
    BY ConstantsAssumption DEF BudgetInv, LabelInv, RevisionInv, TypeInv
  <2>2. sts.replicas \in 0 .. 2 * MaxReplicas /\ sts.stamp \in Stamp
    BY <2>1 DEF TypeOK, StsType
  <2>3. i \in Ordinals
    BY <2>1, <2>2
  <2> QED
    BY <2>1, <2>2, <2>3 DEF BudgetInv, LabelInv, StsKeyNamesContent, GroupsNamed, TypeOK
<1>2. /\ getReplicaStates(sts.replicas, sts.stamp.key)[i].ready = Ready(i)
      /\ getReplicaStates(sts.replicas, sts.stamp.key)[i].updated = (groups[i].stamp.key = sts.stamp.key)
  BY DEF getReplicaStates, Ready
<1>3. ASSUME Ready(i)
      PROVE  (groups[i].stamp.key = sts.stamp.key) <=> ~Outdated(i)
  <2>1. groups[i] # Absent /\ groups[i].stamp \in Stamp
    BY <1>1, <1>3 DEF Ready, Absent, Group
  <2>2. (groups[i].stamp.key = sts.stamp.key) <=> (groups[i].stamp = sts.stamp)
    BY <1>1, <2>1 DEF Stamp
  <2> QED
    BY <2>1, <2>2 DEF Outdated
<1> QED
  BY <1>2, <1>3 DEF ReadyAndUpdated, Good

\* A step that lowers the partition over a ready old group is a reconcile in
\* the middle of a rollout: it leaves no more groups in the works than a rolling
\* step, and keeps as many as the groups that are not good call for.
LEMMA LoweringStep ==
  ASSUME \A L \in LagSets : L = {},
         BudgetInv, [Next]_vars, LowersPartition, NewlyExposed # {}
  PROVE  LET surge == MaxSurgeOf(spec, spec.replicas)
             unav  == MaxUnavailableOf(spec, spec.replicas)
         IN  /\ sts.replicas \in Nat /\ sts.partition \in Nat
             /\ spec.replicas <= sts.replicas /\ sts.replicas <= Burst(spec.replicas)
             /\ sts'.partition \in Nat
             /\ sts'.replicas = calculateRollingUpdateReplicas(spec.replicas, surge, unav,
                                  Cardinality({i \in 0 .. spec.replicas - 1 : ~Good(i)}))
             /\ Cardinality({i \in sts'.partition .. sts.replicas - 1 : ~Good(i)})
                  <= unav + (sts.replicas - spec.replicas)
<1> DEFINE unav == MaxUnavailableOf(spec, spec.replicas)
<1>1. TypeOK /\ LabelInv /\ \A L \in LagSets : L \subseteq {"groups"}
  BY DEF BudgetInv, LabelInv, RevisionInv, TypeInv
<1>2. /\ sts # NoSts /\ sts'.stamp = sts.stamp /\ sts'.partition < sts.partition
      /\ sts.replicas \in Nat /\ sts.partition \in Nat
  BY <1>1, ConstantsAssumption DEF LowersPartition, TypeOK, StsType, NoSts
<1>3. spec.replicas \in Nat /\ unav \in Nat
  BY <1>1, SpecFields, MaxUnavailableType
<1>4. Reconcile
  <2>1. CASE UNCHANGED sts
    BY <1>2, <2>1
  <2>2. CASE ReconcileSchedulingError
    <3>1. sts'.partition = sts.partition
      BY <2>2, ScaleDownOnlyLowers DEF BudgetInv, LabelInv, RevisionInv
    <3> QED
      BY <1>2, <3>1
  <2> QED
    BY <2>1, <2>2, StsWrites
<1>5. PICK rev \in getOrCreateRevision :
        /\ \A r \in CreatedRevisions(rev) : CanCreate(r)
        /\ sts' = LeaderStatefulSet(rev)
  BY <1>4 DEF Reconcile
<1>6. StsSeen = sts /\ rev.key = rev.data /\ rev.key = sts.stamp.key
  BY <1>1, <1>2, <1>5, CurrentRevision
<1>7. sts.stamp = [key |-> RevisionKey(rev), data |-> spec.template]
  BY <1>1, <1>2, <1>5, AppliedStatefulSet, Zenon
<1>8. ~LwsUpdated(rev) /\ RevisionKey(rev) = sts.stamp.key
  BY <1>6, <1>7 DEF LwsUpdated, RevisionKey
<1>9. sts' \in StsType /\ sts'.replicas \in Nat /\ sts'.partition \in Nat
  <2>1. sts' \in StsType
    BY <1>1, <1>5, AppliedStatefulSet, Zenon
  <2>2. MaxReplicas \in Nat
    BY ConstantsAssumption
  <2> QED
    BY <2>1, <2>2 DEF StsType, NoSts
<1>10. sts'.partition < sts'.replicas
  <2>1. PICK i \in sts'.partition .. sts.partition - 1 : i < sts'.replicas
    BY DEF NewlyExposed
  <2> QED
    BY <1>2, <1>9, <2>1
<1> DEFINE states == getReplicaStates(sts.replicas, sts.stamp.key)
           tail   == calculateContinuousReadyReplicas(states, sts.replicas)
<1>11. /\ sts.replicas >= spec.replicas /\ sts.specReplicas = spec.replicas
       /\ sts'.replicas = calculateRollingUpdateReplicas(spec.replicas,
            MaxSurgeOf(spec, spec.replicas), unav,
            calculateLWSUnreadyReplicas(states, sts.replicas, spec.replicas))
       /\ sts'.partition >= sts.replicas - tail - (unav + (sts.replicas - spec.replicas))
  BY <1>1, <1>2, <1>5, <1>6, <1>8, <1>10, ReconcileParameters, Zenon
<1>12. \A i \in 0 .. sts.replicas - 1 : ReadyAndUpdated(states[i]) <=> Good(i)
  <2>1. GroupsSeen = groups
    BY <1>1 DEF GroupsSeen, TypeOK
  <2> QED
    BY <1>2, <2>1, GoodGroups
<1> HIDE DEF states
<1>13. calculateLWSUnreadyReplicas(states, sts.replicas, spec.replicas)
         = Cardinality({i \in 0 .. spec.replicas - 1 : ~Good(i)})
  <2>1. {i \in 0 .. spec.replicas - 1 : i >= sts.replicas \/ ~ReadyAndUpdated(states[i])}
          = {i \in 0 .. spec.replicas - 1 : ~Good(i)}
    BY <1>2, <1>3, <1>11, <1>12
  <2> QED
    BY <2>1 DEF calculateLWSUnreadyReplicas
<1>14. Cardinality({i \in sts'.partition .. sts.replicas - 1 : ~Good(i)})
         <= unav + (sts.replicas - spec.replicas)
  <2>1. unav + (sts.replicas - spec.replicas) \in Nat
    BY <1>2, <1>3, <1>11
  <2>2. {i \in sts'.partition .. sts.replicas - 1 : ~Good(i)}
          = {i \in sts'.partition .. sts.replicas - 1 : ~ReadyAndUpdated(states[i])}
    BY <1>2, <1>9, <1>12
  <2> HIDE DEF unav
  <2> QED
    BY <1>2, <1>9, <1>11, <2>1, <2>2, RollingStepBatch
<1>15. sts.replicas <= Burst(spec.replicas)
  BY <1>2, <1>11 DEF BudgetInv, BurstInv
<1> QED
  BY <1>2, <1>3, <1>9, <1>11, <1>13, <1>14, <1>15

\* With current caches one step of a rollout never has more groups in the works
\* than maxUnavailable and the surge groups that exist.
THEOREM RolloutBatchBounded ==
  ASSUME \A L \in LagSets : L = {}
  PROVE  Spec => BatchBounded
<1> DEFINE Bounded == LowersPartition /\ NewlyExposed # {} =>
             Cardinality({i \in sts'.partition .. sts.replicas - 1 : ~(Ready(i) /\ ~Outdated(i))})
               <= MaxUnavailableOf(spec, spec.replicas) + (sts.replicas - spec.replicas)
<1>1. BudgetInv /\ [Next]_vars => [Bounded]_vars
  BY LoweringStep, Zenon DEF Good
<1>2. \A L \in LagSets : L \subseteq {"groups"}
  OBVIOUS
<1>3. Spec => []BudgetInv
  BY <1>2, BudgetInvariant
<1> QED
  BY <1>1, <1>3, PTL DEF Spec, BatchBounded

\* In an undisturbed rollout such a step keeps at least replicas -
\* maxUnavailable groups.  When it keeps all groups that exist, the groups in
\* the works are at most a rolling step.  When it reclaims surge groups, some
\* group of the spec is good already, so every surge group is, and the surge
\* groups left make up for the rest.
LEMMA UndisturbedStep ==
  ASSUME \A L \in LagSets : L = {},
         BudgetInv, [Next]_vars, Undisturbed, LowersPartition, NewlyExposed # {}
  PROVE  Cardinality(Kept) >= spec.replicas - MaxUnavailableOf(spec, spec.replicas)
<1> DEFINE surge   == MaxSurgeOf(spec, spec.replicas)
           unav    == MaxUnavailableOf(spec, spec.replicas)
           R       == spec.replicas
           n       == sts.replicas
           p       == sts'.partition
           r       == sts'.replicas
           U       == {i \in 0 .. R - 1 : ~Good(i)}
           B       == {i \in p .. n - 1 : ~Good(i)}
           want(u) == calculateRollingUpdateReplicas(R, surge, unav, u)
<1>1. /\ n \in Nat /\ sts.partition \in Nat /\ p \in Nat
      /\ R <= n /\ n <= want(R)
      /\ r = want(Cardinality(U))
      /\ Cardinality(B) <= unav + (n - R)
  BY LoweringStep, Zenon DEF Burst
<1>2. R \in Nat /\ surge \in 0 .. R /\ unav \in Nat
  <2>1. TypeOK
    BY DEF BudgetInv, LabelInv, RevisionInv, TypeInv
  <2> QED
    BY <2>1, SpecFields, MaxUnavailableType
<1>3. p < sts.partition
  BY DEF LowersPartition
<1>4. \A i \in 0 .. n - 1 : i < p => Ready(i)
  BY <1>1, <1>3 DEF Undisturbed
<1>5. \A i \in R .. n - 1 : Ready(i)
  BY <1>1, <1>2 DEF Undisturbed
<1>6. \A i, j \in 0 .. n - 1 : j < i /\ Outdated(i) => Outdated(j)
  BY <1>1 DEF Undisturbed
<1>7. Kept = {i \in 0 .. r - 1 : Ready(i) /\ (i < p \/ ~Outdated(i))}
  BY DEF Kept
<1>8. U \in SUBSET (0 .. R - 1) /\ B \in SUBSET (p .. n - 1)
  OBVIOUS
<1>9. Cardinality(U) \in 0 .. R
  <2> HIDE DEF U, R
  <2> QED
    BY <1>2, <1>8, IndexSetCardinality
<1>10. \A i \in 0 .. n - 1 : i \notin B => Ready(i) /\ (i < p \/ ~Outdated(i))
  BY <1>1, <1>4 DEF Good
<1>11. \A i \in 0 .. R - 1 : i \notin U => Ready(i) /\ ~Outdated(i)
  BY DEF Good
<1> HIDE DEF U, B, R, n, p, r, surge, unav
<1>12. r \in R .. R + surge
  <2>1. surge \in Nat /\ Cardinality(U) \in Nat
    BY <1>2, <1>9
  <2> HIDE DEF want
  <2> QED
    BY <1>1, <1>2, <2>1, RollingUpdateReplicasBound DEF want
<1>13. IsFiniteSet(0 .. r - 1) /\ Cardinality(0 .. r - 1) = r
  <2>1. r - 1 \in Int /\ 0 \in Int /\ r \in Nat
    BY <1>2, <1>12
  <2> QED
    BY <2>1, FS_Interval
<1>14. IsFiniteSet(Kept)
  BY <1>7, <1>13, FS_Subset
<1>15. Cardinality(Kept) \in Nat
  BY <1>14, FS_CardinalityType
<1>16. ASSUME n <= r PROVE Cardinality(Kept) >= R - unav
  <2> DEFINE D == (0 .. n - 1) \ B
  <2>1. D \in SUBSET Kept
    BY <1>1, <1>2, <1>7, <1>10, <1>12, <1>16
  <2>2. IsFiniteSet(0 .. n - 1) /\ Cardinality(0 .. n - 1) = n
    <3>1. n - 1 \in Int /\ 0 \in Int
      BY <1>1
    <3>2. /\ IsFiniteSet(0 .. n - 1)
          /\ Cardinality(0 .. n - 1) = IF 0 > n - 1 THEN 0 ELSE n - 1 - 0 + 1
      BY <3>1, FS_Interval
    <3> QED
      BY <1>1, <3>2
  <2>3. IsFiniteSet(D) /\ Cardinality(D) = n - Cardinality((0 .. n - 1) \cap B)
    BY <2>2, FS_Difference
  <2>4. (0 .. n - 1) \cap B = B
    <3>1. p .. n - 1 \subseteq 0 .. n - 1
      BY <1>1
    <3> QED
      BY <1>8, <3>1, Zenon
  <2>5. Cardinality(D) <= Cardinality(Kept)
    BY <1>14, <2>1, FS_Subset
  <2>6. Cardinality(B) \in Nat
    BY <2>2, <2>4, FS_Subset, FS_CardinalityType
  <2>7. Cardinality(D) = n - Cardinality(B)
    BY <2>3, <2>4, Zenon
  <2>8. Cardinality(B) <= unav + (n - R) /\ n \in Nat
    BY <1>1
  <2> HIDE DEF D
  <2> QED
    BY <1>2, <1>15, <2>5, <2>6, <2>7, <2>8
<1>17. ASSUME r < n PROVE Cardinality(Kept) >= R - unav
  <2> DEFINE D == (0 .. r - 1) \ U
  <2>1. Cardinality(U) # R
    BY <1>1, <1>2, <1>12, <1>17
  <2>2. PICK j \in 0 .. R - 1 : Ready(j) /\ ~Outdated(j)
    <3>1. SUFFICES ASSUME U = 0 .. R - 1 PROVE Cardinality(U) = R
      BY <1>8, <1>11, <2>1
    <3>2. R - 1 \in Int /\ 0 \in Int
      BY <1>2
    <3> QED
      BY <1>2, <3>1, <3>2, FS_Interval
  <2>3. \A i \in R .. n - 1 : Ready(i) /\ ~Outdated(i)
    BY <1>1, <1>2, <1>5, <1>6, <2>2
  <2>4. D \in SUBSET Kept
    BY <1>1, <1>2, <1>7, <1>11, <1>12, <1>17, <2>3
  <2>5. IsFiniteSet(D) /\ Cardinality(D) = r - Cardinality((0 .. r - 1) \cap U)
    BY <1>13, FS_Difference
  <2>6. (0 .. r - 1) \cap U = U
    <3>1. 0 .. R - 1 \subseteq 0 .. r - 1
      BY <1>2, <1>12
    <3> QED
      BY <1>8, <3>1, Zenon
  <2>7. Cardinality(D) <= Cardinality(Kept)
    BY <1>14, <2>4, FS_Subset
  <2> HIDE DEF D
  <2>8. r - Cardinality(U) >= R - unav
    BY <1>1, <1>2, <1>9, <1>17 DEF calculateRollingUpdateReplicas, NonZeroValue
  <2>9. Cardinality(D) = r - Cardinality(U)
    BY <2>5, <2>6, Zenon
  <2> QED
    BY <1>2, <1>9, <1>12, <1>15, <2>7, <2>8, <2>9
<1>18. Cardinality(Kept) >= R - unav
  BY <1>1, <1>2, <1>12, <1>16, <1>17
<1> QED
  BY <1>18 DEF R, unav

\* With current caches an undisturbed rollout respects maxUnavailable, for any
\* replicas and budget, although it lowers the partition and reclaims surge
\* groups in the same apply.
THEOREM UndisturbedBudgetRespected ==
  ASSUME \A L \in LagSets : L = {}
  PROVE  Spec => HealthyBudgetRespected
<1>1. BudgetInv /\ [Next]_vars => [Undisturbed => RespectsMaxUnavailable]_vars
  BY UndisturbedStep, Zenon DEF RespectsMaxUnavailable
<1>2. \A L \in LagSets : L \subseteq {"groups"}
  OBVIOUS
<1>3. Spec => []BudgetInv
  BY <1>2, BudgetInvariant
<1> QED
  BY <1>1, <1>3, PTL DEF Spec, HealthyBudgetRespected

=============================================================================
