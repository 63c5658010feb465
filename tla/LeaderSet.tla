----------------------------- MODULE LeaderSet -----------------------------
(***************************************************************************)
(* A LeaderWorkerSet with ordinal group identity: the reconcile loop of    *)
(* leaderworkerset_controller.go, the ControllerRevisions it keeps, the    *)
(* leader StatefulSet it applies and the groups that StatefulSet creates.  *)
(*                                                                         *)
(* Abstractions.  A pod template is the number of its content ("data"); a  *)
(* revision key is the hash of the content, so it is the same number       *)
(* unless a ControllerRevision was created under another key.  A group is  *)
(* its leader pod together with its worker StatefulSet: absent, pending or *)
(* ready.  The StatefulSet controller, the kubelet and the pod controller  *)
(* act on the real objects; the reconciler only sees its informer caches,  *)
(* which lag (Observe* actions) for the kinds in `lagging`.                *)
(*                                                                         *)
(* A reconcile is two steps, because the informers may move between them:  *)
(* everything up to the server-side apply of the leader StatefulSet, then  *)
(* status, revision truncation and return.  The process may stop between   *)
(* the two.                                                                *)
(***************************************************************************)
EXTENDS RollingUpdate

CONSTANTS
  MaxReplicas,   \* bound on spec.replicas
  MaxTemplate,   \* template contents are 1 .. MaxTemplate
  MaxNumber,     \* bound on the revision numbers of ControllerRevisions
  Budgets,       \* the [maxSurge, maxUnavailable] pairs the webhook admits
  Partitions,    \* the values of spec.partition the user sets
  MaxEdits,      \* bound on the user's spec changes
  MaxFailures,   \* bound on failures of groups and of reconciles
  LagSets,       \* the sets of informers that may lag together
  Owners         \* whether a DisaggregatedSet may own the LeaderWorkerSet: subset of BOOLEAN

Informers == {"statefulset", "groups", "revisions"}

ASSUME ConstantsAssumption ==
  /\ MaxReplicas \in Nat \ {0}
  /\ MaxTemplate \in Nat \ {0}
  /\ MaxNumber \in Nat \ {0}
  /\ Budgets \subseteq [maxSurge : IntOrString, maxUnavailable : IntOrString]
  /\ Budgets # {}
  /\ Partitions \subseteq Nat
  /\ 0 \in Partitions
  /\ MaxEdits \in Nat
  /\ MaxFailures \in Nat
  /\ LagSets \subseteq SUBSET Informers
  /\ Owners \subseteq BOOLEAN

Templates == 1 .. MaxTemplate
Ordinals  == 0 .. (2 * MaxReplicas - 1)

\* What a pod template carries: its revision key label and its content.
Stamp  == [key : Templates, data : Templates]
NoStamp == [key |-> 0, data |-> 0]

Absent == [phase |-> "absent", stamp |-> NoStamp]
Group  == {Absent} \cup [phase : {"pending", "ready"}, stamp : Stamp]

LwsSpec   == [replicas : 0 .. MaxReplicas, partition : Partitions, template : Templates,
              maxSurge : IntOrString, maxUnavailable : IntOrString, dsOwned : BOOLEAN]
NoSts   == [replicas |-> 0, partition |-> 0, specReplicas |-> 0, stamp |-> NoStamp]
StsType == {NoSts} \cup [replicas : 0 .. 2 * MaxReplicas, partition : Nat, specReplicas : 0 .. MaxReplicas,
                         stamp : Stamp]

Revision == [key : Templates, data : Templates, number : 1 .. MaxNumber]

VARIABLES
  spec,       \* the LeaderWorkerSet spec
  sts,        \* the leader StatefulSet's spec
  current,    \* the StatefulSet controller's status.currentRevision
  groups,     \* the groups, by ordinal
  revisions,  \* the ControllerRevisions
  stsView, groupsView, revisionsView,  \* the informer caches of the reconciler
  lagging,    \* the informers that lag in this behaviour
  finishing,  \* the reconcile between apply and return, or NoReconcile
  edits, failures  \* how often the user edited, how often a group failed

vars == <<spec, sts, current, groups, revisions, stsView, groupsView, revisionsView,
          lagging, finishing, edits, failures>>
views == <<stsView, groupsView, revisionsView, lagging>>

NoReconcile == [active |-> FALSE]
Reconciling == [active : {TRUE}, spec : LwsSpec, key : Templates]

\* Every variable keeps its type; the StatefulSet has at most twice the
\* replicas the user may ask for, and records only counts the user asked for.
TypeOK ==
  /\ spec \in LwsSpec
  /\ sts \in StsType /\ stsView \in StsType
  /\ current \in Stamp \cup {NoStamp}
  /\ groups \in [Ordinals -> Group] /\ groupsView \in [Ordinals -> Group]
  /\ revisions \subseteq Revision /\ revisionsView \subseteq Revision
  /\ lagging \in LagSets
  /\ finishing \in {NoReconcile} \cup Reconciling
  /\ edits \in 0 .. MaxEdits
  /\ failures \in 0 .. MaxFailures

\* Stale caches multiply the states: they come with one edit and one failure
\* less than the bounds.
Spent(bound) == IF lagging = {} THEN 0 ELSE Smaller(1, bound)

Init ==
  /\ \E budget \in Budgets, n \in 0 .. MaxReplicas, owned \in Owners :
       spec = [replicas |-> n, partition |-> 0, template |-> 1, dsOwned |-> owned,
               maxSurge |-> budget.maxSurge, maxUnavailable |-> budget.maxUnavailable]
  /\ sts = NoSts /\ stsView = NoSts
  /\ current = NoStamp
  /\ groups = [i \in Ordinals |-> Absent] /\ groupsView = groups
  /\ revisions = {} /\ revisionsView = {}
  /\ lagging \in LagSets
  /\ finishing = NoReconcile
  /\ edits = Spent(MaxEdits) /\ failures = Spent(MaxFailures)

-----------------------------------------------------------------------------
(* The user, through the API server.  kubectl scale and an autoscaler      *)
(* write the scale subresource.                                            *)

Edit(newSpec) ==
  /\ edits < MaxEdits
  /\ newSpec # spec
  /\ spec' = newSpec
  /\ edits' = edits + 1
  /\ UNCHANGED <<sts, current, groups, revisions, views, finishing, failures>>

Scale == \E n \in 0 .. MaxReplicas : Edit([spec EXCEPT !.replicas = n])
UpdateTemplate == \E t \in Templates : Edit([spec EXCEPT !.template = t])
SetPartition == \E p \in Partitions : Edit([spec EXCEPT !.partition = p])

-----------------------------------------------------------------------------
(* Informer caches.                                                        *)

StsSeen       == IF "statefulset" \in lagging THEN stsView ELSE sts
GroupsSeen    == IF "groups" \in lagging THEN groupsView ELSE groups
RevisionsSeen == IF "revisions" \in lagging THEN revisionsView ELSE revisions

ObserveSts ==
  /\ "statefulset" \in lagging /\ stsView # sts
  /\ stsView' = sts
  /\ UNCHANGED <<spec, sts, current, groups, revisions, groupsView, revisionsView,
                 lagging, finishing, edits, failures>>

ObserveGroup(i) ==
  /\ "groups" \in lagging /\ groupsView[i] # groups[i]
  /\ groupsView' = [groupsView EXCEPT ![i] = groups[i]]
  /\ UNCHANGED <<spec, sts, current, groups, revisions, stsView, revisionsView,
                 lagging, finishing, edits, failures>>

ObserveRevisions ==
  /\ "revisions" \in lagging /\ revisionsView # revisions
  /\ revisionsView' = revisions
  /\ UNCHANGED <<spec, sts, current, groups, revisions, stsView, groupsView,
                 lagging, finishing, edits, failures>>

-----------------------------------------------------------------------------
(* Revisions.                                                              *)

\* NewRevision numbers a revision one above the highest the cache holds.
NewRevision(data, key) ==
  LET numbers == {r.number : r \in RevisionsSeen}
      highest == IF numbers = {} THEN 0
                 ELSE CHOOSE n \in numbers : \A m \in numbers : m <= n
  IN  [key |-> key, data |-> data, number |-> highest + 1]

\* CreateRevision fails when the name, made of the content's hash and the
\* number, is taken.
CanCreate(rev) ==
  /\ rev.number <= MaxNumber
  /\ \A r \in revisions : ~(r.data = rev.data /\ r.number = rev.number)

\* GetRevision: the revisions with that key and the highest number.
GetRevisionNewest(key) ==  \* mutant: only ever finds the newest revision
  {r \in RevisionsSeen : r.key = key /\ \A q \in RevisionsSeen : q.number <= r.number}

GetRevision(key) ==
  {r \in RevisionsSeen : /\ r.key = key
                         /\ \A q \in RevisionsSeen : q.key = key => q.number <= r.number}

\* getOrCreateRevision.  Without a StatefulSet there is no key to look up and
\* the spec's own revision is created; with one, a revision missing under its
\* label is created there, holding whatever the spec's template is now.
getOrCreateByTemplate ==  \* mutant: looks up the template's hash, not the label
  IF GetRevision(spec.template) # {} THEN GetRevision(spec.template)
  ELSE {NewRevision(spec.template, spec.template)}

getOrCreateRevision ==
  IF StsSeen = NoSts THEN {NewRevision(spec.template, spec.template)}
  ELSE IF GetRevision(StsSeen.stamp.key) # {} THEN GetRevision(StsSeen.stamp.key)
  ELSE {NewRevision(spec.template, StsSeen.stamp.key)}

\* getUpdatedRevision: the spec's template is not the revision's content.
LwsUpdated(rev) == StsSeen # NoSts /\ rev.data # spec.template

\* The key this reconcile rolls out, and the revisions it has to create.
RevisionKey(rev) == IF LwsUpdated(rev) THEN spec.template ELSE rev.key

CreatedRevisions(rev) ==
  ({rev} \ RevisionsSeen) \cup
  (IF LwsUpdated(rev) THEN {NewRevision(spec.template, spec.template)} ELSE {})

-----------------------------------------------------------------------------
(* The reconcile loop.                                                     *)

getReplicaStates(n, key) ==
  [i \in 0 .. n - 1 |-> [ready   |-> GroupsSeen[i].phase = "ready",
                         updated |-> GroupsSeen[i].stamp.key = key]]

\* The partition and replicas of this reconcile.
Parameters(rev) ==
  IF StsSeen = NoSts
  THEN [partition |-> spec.partition, replicas |-> spec.replicas]
  ELSE rollingUpdateParameters(spec, StsSeen, LwsUpdated(rev),
         getReplicaStates(StsSeen.replicas, RevisionKey(rev)))

\* The leader StatefulSet as constructLeaderStatefulSetApplyConfiguration
\* builds it; the apply forces ownership, so it never conflicts.
LeaderStatefulSet(rev) ==
  [replicas     |-> Parameters(rev).replicas,
   partition    |-> Parameters(rev).partition,
   specReplicas |-> spec.replicas,
   stamp        |-> [key |-> RevisionKey(rev), data |-> spec.template]]

\* Reconcile up to and including SSAWithStatefulset.
Reconcile ==
  /\ ~finishing.active
  /\ \E rev \in getOrCreateRevision :
       /\ \A r \in CreatedRevisions(rev) : CanCreate(r)
       /\ revisions' = revisions \cup CreatedRevisions(rev)
       /\ sts' = LeaderStatefulSet(rev)
       /\ current' = IF sts = NoSts THEN LeaderStatefulSet(rev).stamp ELSE current
       /\ finishing' = [active |-> TRUE, spec |-> spec, key |-> RevisionKey(rev)]
  /\ UNCHANGED <<spec, groups, views, edits, failures>>

\* The same reconcile ends after creating its revisions: the apply fails, or
\* the process stops.
ReconcileApplyFails ==
  /\ ~finishing.active /\ failures < MaxFailures
  /\ \E rev \in getOrCreateRevision :
       /\ CreatedRevisions(rev) # {}
       /\ \A r \in CreatedRevisions(rev) : CanCreate(r)
       /\ revisions' = revisions \cup CreatedRevisions(rev)
  /\ failures' = failures + 1
  /\ UNCHANGED <<spec, sts, current, groups, views, finishing, edits>>

\* reconcileWorkloadScheduling fails: handleWorkloadSchedulingError still
\* scales down (an Update, which needs the StatefulSet it read to be current)
\* and returns the error, so nothing is rolled out or truncated.
ReconcileSchedulingError ==
  /\ ~finishing.active /\ failures < MaxFailures
  /\ \E rev \in getOrCreateRevision :
       /\ \A r \in CreatedRevisions(rev) : CanCreate(r)
       /\ revisions' = revisions \cup CreatedRevisions(rev)
       /\ sts' = IF StsSeen = sts /\ Parameters(rev).replicas < sts.replicas
                 THEN [sts EXCEPT !.replicas = Parameters(rev).replicas] ELSE sts
  /\ failures' = failures + 1
  /\ UNCHANGED <<spec, current, groups, views, finishing, edits>>

\* updateConditions: every desired group is updated and ready.
UpdateDone ==
  /\ finishing.spec.partition = 0
  /\ \A i \in 0 .. finishing.spec.replicas - 1 :
       GroupsSeen[i].phase = "ready" /\ GroupsSeen[i].stamp.key = finishing.key

\* The revisions TruncateRevisions deletes: all but the rolled out key's, once
\* the update is done.
ObsoleteForSpec ==  \* mutant: keeps the revision of the spec as it is now
  {r \in RevisionsSeen : UpdateDone /\ r.key # spec.template}

Obsolete == {r \in RevisionsSeen : UpdateDone /\ r.key # finishing.key}

\* The rest of Reconcile.
FinishReconcile ==
  /\ finishing.active
  /\ revisions' = revisions \ Obsolete
  /\ finishing' = NoReconcile
  /\ UNCHANGED <<spec, sts, current, groups, views, edits, failures>>

\* The status update conflicts, a delete fails, or the process stops: some of
\* the deletions, or none, were done.
StopReconcile ==
  /\ finishing.active
  /\ \E deleted \in SUBSET Obsolete : revisions' = revisions \ deleted
  /\ finishing' = NoReconcile
  /\ UNCHANGED <<spec, sts, current, groups, views, edits, failures>>

-----------------------------------------------------------------------------
(* The StatefulSet controller.  It may take down any outdated group from   *)
(* the partition up, in any order and number: the model does not rely on   *)
(* the StatefulSet's own maxUnavailable, which counts leader pods only.    *)

SetGroup(i, group) ==
  /\ groups' = [groups EXCEPT ![i] = group]
  /\ UNCHANGED <<spec, sts, current, revisions, views, finishing, edits>>

StsCreatePod(i) ==
  /\ i < sts.replicas /\ groups[i] = Absent
  /\ SetGroup(i, [phase |-> "pending", stamp |-> IF i < sts.partition THEN current ELSE sts.stamp])
  /\ UNCHANGED failures

StsUpdatePod(i) ==
  /\ i >= sts.partition /\ i < sts.replicas
  /\ groups[i] # Absent /\ groups[i].stamp # sts.stamp
  /\ SetGroup(i, Absent)
  /\ UNCHANGED failures

StsScaleDown(i) ==
  /\ i >= sts.replicas /\ groups[i] # Absent
  /\ SetGroup(i, Absent)
  /\ UNCHANGED failures

StsCompleteRollingUpdate ==
  /\ sts # NoSts /\ current # sts.stamp
  /\ \A i \in Ordinals : IF i < sts.replicas
                         THEN groups[i].stamp = sts.stamp
                         ELSE groups[i] = Absent
  /\ current' = sts.stamp
  /\ UNCHANGED <<spec, sts, groups, revisions, views, finishing, edits, failures>>

(* A group becomes ready once the pod controller, which needs the group's  *)
(* ControllerRevision, has created its worker StatefulSet.                 *)
GroupReady(i) ==
  /\ groups[i].phase = "pending"
  /\ \E r \in revisions : r.key = groups[i].stamp.key
  /\ SetGroup(i, [groups[i] EXCEPT !.phase = "ready"])
  /\ UNCHANGED failures

\* A group loses its readiness, or is recreated.
GroupFail(i) ==
  /\ failures < MaxFailures
  /\ groups[i].phase = "ready"
  /\ \E g \in {Absent, [groups[i] EXCEPT !.phase = "pending"]} : SetGroup(i, g)
  /\ failures' = failures + 1

-----------------------------------------------------------------------------
Controller == Reconcile \/ ReconcileApplyFails \/ ReconcileSchedulingError
              \/ FinishReconcile \/ StopReconcile
User       == Scale \/ UpdateTemplate \/ SetPartition
Observe    == ObserveSts \/ ObserveRevisions \/ \E i \in Ordinals : ObserveGroup(i)
Cluster    == \/ StsCompleteRollingUpdate
              \/ \E i \in Ordinals : StsCreatePod(i) \/ StsUpdatePod(i) \/ StsScaleDown(i)
                                     \/ GroupReady(i) \/ GroupFail(i)

Next == Controller \/ User \/ Observe \/ Cluster

Fairness ==
  /\ WF_vars(Reconcile) /\ WF_vars(FinishReconcile)
  /\ WF_vars(ObserveSts) /\ WF_vars(ObserveRevisions) /\ WF_vars(StsCompleteRollingUpdate)
  /\ \A i \in Ordinals : /\ WF_vars(ObserveGroup(i)) /\ WF_vars(StsCreatePod(i))
                         /\ WF_vars(StsUpdatePod(i)) /\ WF_vars(StsScaleDown(i))
                         /\ WF_vars(GroupReady(i))

Spec     == Init /\ [][Next]_vars
FairSpec == Spec /\ Fairness

-----------------------------------------------------------------------------
(* Properties.                                                             *)

\* This step lowers the partition of the rollout in progress.
LowersPartition == sts # NoSts /\ sts'.stamp = sts.stamp /\ sts'.partition < sts.partition

Outdated(i) == groups[i] # Absent /\ groups[i].stamp # sts.stamp
Ready(i)    == groups[i].phase = "ready"

\* Ready groups that this step newly lets the StatefulSet take down, and the
\* ready groups that stay whatever the StatefulSet does.
NewlyExposed == {i \in sts'.partition .. sts.partition - 1 :
                   i < sts'.replicas /\ Ready(i) /\ Outdated(i)}
Kept         == {i \in 0 .. sts'.replicas - 1 :
                   Ready(i) /\ (i < sts'.partition \/ ~Outdated(i))}

RespectsMaxUnavailable ==
  LowersPartition /\ NewlyExposed # {} =>
    Cardinality(Kept) >= spec.replicas - MaxUnavailableOf(spec, spec.replicas)

\* A reconcile never lowers the partition over a ready group when the groups
\* left may be fewer than replicas - maxUnavailable (rollingUpdatePartition:
\* "To prevent violating the maxUnavailable, we have to account for these
\* replicas and increase the partition if some are not ready").
BudgetRespected == [][RespectsMaxUnavailable]_vars

\* The same in a rollout nothing disturbed: every group below the partition is
\* ready and still old, every surge group is ready, and groups were updated from
\* the top, as the StatefulSet controller does it.  Updating in steps and
\* reclaiming surge groups together stay in the budget.
Undisturbed ==
  \A i \in 0 .. sts.replicas - 1 :
    /\ i < sts.partition => Ready(i) /\ Outdated(i)
    /\ i >= spec.replicas => Ready(i)
    /\ Outdated(i) => \A j \in 0 .. i - 1 : Outdated(j)

HealthyBudgetRespected == [][Undisturbed => RespectsMaxUnavailable]_vars

\* However many groups failed before, one step of a rollout never has more
\* groups in the works from the partition up than maxUnavailable and the
\* surge groups that exist (rollingStep in rollingUpdateParameters).
BatchBounded ==
  [][LowersPartition /\ NewlyExposed # {} =>
      Cardinality({i \in sts'.partition .. sts.replicas - 1 : ~(Ready(i) /\ ~Outdated(i))})
        <= MaxUnavailableOf(spec, spec.replicas) + (sts.replicas - spec.replicas)]_vars

\* While a revision rolls out, the StatefulSet's partition only falls, except
\* to the partition the user sets (rollingUpdatePartition: "Partition moves in
\* one direction").
PartitionMovesDown ==
  [][sts # NoSts /\ sts'.stamp = sts.stamp /\ spec.partition <= sts.partition
       => sts'.partition <= sts.partition]_vars

\* A template reaches an existing StatefulSet only with a partition above all
\* its old groups, so the rollout starts from the last index
\* (rollingUpdateParameters, case 2).
RolloutStartsAtTop ==
  [][sts # NoSts /\ sts'.stamp.data # sts.stamp.data
       => sts'.partition >= Smaller(spec.replicas, sts.replicas)]_vars

\* The StatefulSet never grows beyond replicas + maxSurge, whatever scaling,
\* rollback and failure happened before.
SurgeBounded ==
  [][sts.replicas < sts'.replicas
       => sts'.replicas <= spec.replicas + MaxSurgeOf(spec, spec.replicas)]_vars

\* The revision the StatefulSet is labelled with exists: truncation after an
\* older reconcile, or a stop at any point, never deletes it, so the pod
\* controller can always build the groups it creates.
StsHasRevision == sts # NoSts => \E r \in revisions : r.key = sts.stamp.key

\* A revision's key is the hash of its own content: getOrCreateRevision never
\* stores a new template under the label of an older one.
KeyNamesContent == \A r \in revisions : r.key = r.data

Settled ==
  /\ sts.stamp.data = spec.template
  /\ sts.replicas = spec.replicas
  /\ sts.partition = spec.partition
  /\ \A i \in Ordinals : IF i < spec.replicas THEN Ready(i) /\ (i >= spec.partition => ~Outdated(i))
                         ELSE groups[i] = Absent

\* Once the user stops editing, every group is ready at the current template,
\* the surge groups are reclaimed and the partition is at rest, whatever
\* failed or was rolled back on the way.  (A StatefulSet cache that lags is left
\* out: until it shows the first apply every reconcile creates a revision, and
\* the bound on their numbers stops it.)
RolloutSettles == ("statefulset" \notin lagging) => <>[]Settled

=============================================================================
