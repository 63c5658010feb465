--------------------------- MODULE RestartBudget ---------------------------
(***************************************************************************)
(* The restart of one group of a LeaderWorkerSet with ordinal identity:    *)
(* handleRestartPolicy and the restart budget of pod_controller.go, the    *)
(* counts it keeps on the LeaderWorkerSet, and the pods.                   *)
(*                                                                         *)
(* A failed pod makes the controller charge the group's count and delete   *)
(* the leader, which takes the workers with it; the leader StatefulSet     *)
(* then creates the group again.  At the limit the leader is marked        *)
(* exhausted and every pod is held by a finalizer, so that the terminated  *)
(* group stays until the user asks for recovery or the group is torn down. *)
(*                                                                         *)
(* One worker runs the pod reconciles, one at a time.  `ctl` is the place  *)
(* of the running one between two of its writes to the API server; a call  *)
(* may fail (Abort, the request is retried) or the process stop (Stop) at  *)
(* each of them.  A pod record carries its group's number (`uid`, the      *)
(* leader's UID); patches and deletes go by name, so they meet whichever   *)
(* pod has the name now.  The delay of restartBackoff is a Boolean: the    *)
(* leader is old enough for its count, or not yet.                         *)
(***************************************************************************)
EXTENDS Integers

CONSTANTS
  Workers,      \* the worker indices of a group
  Limits,       \* the values of maxGroupRestarts the user sets, Unlimited when unset
  Backoff,      \* restartBackoff is set
  AfterStart,   \* the policy is RecreateGroupAfterStart
  Parallel,     \* podTerminationPolicy is Parallel
  RacingReplacement,  \* a leader may be replaced while a reconcile of its group runs
  LagPods,      \* the pod cache may lag
  MaxUid,       \* bound on the groups created
  MaxRevision,  \* bound on the revisions rolled out
  MaxFaults,    \* bound on pod failures
  MaxAborts,    \* bound on failed calls and stops
  MaxEdits      \* bound on what the user does

Unlimited == -1

ASSUME ConstantsAssumption ==
  /\ Limits \subseteq Nat \cup {Unlimited} /\ Limits # {}
  /\ Backoff \in BOOLEAN /\ AfterStart \in BOOLEAN /\ LagPods \in BOOLEAN
  /\ Parallel \in BOOLEAN /\ RacingReplacement \in BOOLEAN
  /\ MaxUid \in Nat /\ MaxRevision \in Nat \ {0}
  /\ MaxFaults \in Nat /\ MaxAborts \in Nat /\ MaxEdits \in Nat

Uids      == 1 .. MaxUid
Revisions == 1 .. MaxRevision

VARIABLES
  lws,        \* the LeaderWorkerSet: phase, limit and restart counts by revision
  target,     \* the leader StatefulSet as far as it concerns this group
  leader, workers, wsts,  \* the leader pod, the worker pods, the worker StatefulSet
  podsView,   \* the pod cache
  deletions,  \* delete events of worker pods, each with the pod's last state
  ctl,        \* the running pod reconcile
  uid,        \* groups created so far
  charges, recreations,  \* history: charges made, groups deleted to be recreated
  faults, aborts, edits

vars == <<lws, target, leader, workers, wsts, podsView, deletions, ctl, uid, charges,
          recreations, faults, aborts, edits>>
pods   == <<leader, workers, wsts>>
history == <<charges, recreations>>
bounds == <<faults, aborts, edits>>

NoPod  == [uid |-> 0]
Leader == [uid : Uids, revision : Revisions, started : BOOLEAN, restarted : BOOLEAN,
           deleting : BOOLEAN, foreground : BOOLEAN, finalizer : BOOLEAN,
           exhausted : BOOLEAN, recover : BOOLEAN, pending : BOOLEAN, aged : BOOLEAN]
Worker == [uid : Uids, revision : Revisions, started : BOOLEAN, restarted : BOOLEAN,
           deleting : BOOLEAN, finalizer : BOOLEAN]
NoSts  == [owner |-> 0]

NoDeletion == [worker |-> 0]
Deletion   == [worker : Workers, pod : Worker]
Trigger    == Deletion \cup {NoDeletion}
Idle       == [at |-> "idle"]
Running    == [at : {"clear", "mark", "pend"}, seen : Leader, from : Trigger]
         \cup [at : {"release", "hold"}, seen : Leader, left : SUBSET Workers, from : Trigger]
         \cup [at : {"charge"}, seen : Leader, next : Nat, from : Trigger]
         \cup [at : {"delete"}, seen : Leader, recreate : BOOLEAN, from : Trigger]

\* Every variable keeps its type.
TypeOK ==
  /\ lws \in [phase : {"live", "deleting", "gone"}, limit : Limits, counts : [Revisions -> Nat]]
  /\ target \in [wanted : BOOLEAN, inRange : BOOLEAN, above : BOOLEAN, pruned : BOOLEAN,
                 revision : Revisions, current : Revisions]
  /\ leader \in Leader \cup {NoPod}
  /\ workers \in [Workers -> Worker \cup {NoPod}]
  /\ wsts \in {NoSts} \cup [owner : Uids, revision : Revisions, deleting : BOOLEAN]
  /\ podsView \in [leader : Leader \cup {NoPod}, workers : [Workers -> Worker \cup {NoPod}]]
  /\ deletions \subseteq Deletion
  /\ ctl \in Running \cup {Idle}
  /\ uid \in 0 .. MaxUid
  /\ charges \in Nat /\ recreations \in Nat
  /\ faults \in 0 .. MaxFaults /\ aborts \in 0 .. MaxAborts /\ edits \in 0 .. MaxEdits

Init ==
  /\ \E limit \in Limits :
       lws = [phase |-> "live", limit |-> limit, counts |-> [r \in Revisions |-> 0]]
  /\ target = [wanted |-> TRUE, inRange |-> TRUE, above |-> TRUE, pruned |-> FALSE,
               revision |-> 1, current |-> 1]
  /\ leader = NoPod
  /\ workers = [w \in Workers |-> NoPod]
  /\ wsts = NoSts
  /\ podsView = [leader |-> leader, workers |-> workers]
  /\ deletions = {}
  /\ ctl = Idle
  /\ uid = 0
  /\ charges = 0 /\ recreations = 0
  /\ faults = 0 /\ aborts = 0 /\ edits = 0

-----------------------------------------------------------------------------
(* What a reconcile reads.                                                 *)

LeaderSeen  == IF LagPods THEN podsView.leader ELSE leader
WorkersSeen == IF LagPods THEN podsView.workers ELSE workers

ObservePods ==
  /\ LagPods
  /\ podsView # [leader |-> leader, workers |-> workers]
  /\ podsView' = [leader |-> leader, workers |-> workers]
  /\ UNCHANGED <<lws, target, pods, deletions, ctl, uid, history, bounds>>

workerPodBelongsToAnyLeader(pod, l) == TRUE  \* mutant: owners are not compared

\* The worker's StatefulSet exists and the leader owns it.
workerPodBelongsToLeader(pod, l) == wsts # NoSts /\ pod.uid = wsts.owner /\ wsts.owner = l.uid

\* The pods with the leader's group and revision labels.
groupPods(l) == {w \in Workers : WorkersSeen[w] # NoPod /\ WorkersSeen[w].revision = l.revision}

\* The group is scaled away, or it is the rollout's turn to replace it.
groupLifecycleTeardownRequested(l) ==
  \/ ~target.inRange
  \/ target.revision # l.revision /\ target.above

\* Every member exists and has started; the pod of the request counts even
\* when it is no longer listed.
groupStarted(l, from) ==
  LET member(w) == WorkersSeen[w] # NoPod /\ workerPodBelongsToLeader(WorkersSeen[w], l)
  IN  /\ l.started
      /\ \A w \in Workers : \/ member(w) /\ WorkersSeen[w].started
                            \/ ~member(w) /\ from.worker = w /\ from.pod.started

Enforced == lws.limit # Unlimited \/ Backoff

-----------------------------------------------------------------------------
(* Where a pod reconcile goes: the next value of ctl, Idle when there is   *)
(* nothing to do.                                                          *)

At(place, l, from) == [at |-> place, seen |-> l, from |-> from]

\* removeGroupRestartBudgetFinalizersForGroup lists the group's pods first.
AtRelease(l, from) ==
  [at |-> "release", seen |-> l, from |-> from,
   left |-> {w \in groupPods(l) : WorkersSeen[w].finalizer}]

RecreateUncharged(l, from) ==  \* mutant: no count is persisted
  IF l.exhausted \/ (lws.limit # Unlimited /\ lws.counts[l.revision] >= lws.limit)
  THEN At("mark", l, from)
  ELSE [at |-> "delete", seen |-> l, from |-> from, recreate |-> TRUE]

RecreateOnceMore(l, from) ==  \* mutant: count > limit
  IF l.exhausted \/ (lws.limit # Unlimited /\ lws.counts[l.revision] > lws.limit)
  THEN At("mark", l, from)
  ELSE [at |-> "charge", seen |-> l, from |-> from, next |-> lws.counts[l.revision] + 1]

\* handleRestartPolicy once the pod, its leader and the LeaderWorkerSet are
\* known to call for a restart and the leader is not being deleted.
Recreate(l, from) ==
  LET count == lws.counts[l.revision]
  IN  IF l.exhausted THEN At("mark", l, from)
      ELSE IF AfterStart /\ ~l.pending /\ ~groupStarted(l, from) THEN Idle
      ELSE IF lws.limit # Unlimited /\ count >= lws.limit THEN At("mark", l, from)
      ELSE IF Backoff /\ ~l.aged THEN IF l.pending THEN Idle ELSE At("pend", l, from)
      ELSE IF Enforced THEN [at |-> "charge", seen |-> l, from |-> from, next |-> count + 1]
      ELSE [at |-> "delete", seen |-> l, from |-> from, recreate |-> TRUE]

\* handleRestartPolicy for a worker.  A worker of an earlier group, or of
\* another revision, says nothing about the leader of today.
handleRestartPolicy(pod, from) ==
  IF /\ lws.phase = "live"
     /\ LeaderSeen # NoPod /\ ~LeaderSeen.deleting
     /\ LeaderSeen.pending \/ pod.restarted \/ pod.deleting
     /\ LeaderSeen.revision = pod.revision
     /\ workerPodBelongsToLeader(pod, LeaderSeen)
  THEN Recreate(LeaderSeen, from) ELSE Idle

\* reconcilePod for the leader.
reconcileLeader(l) ==
  IF lws.phase # "live" \/ (l.exhausted /\ groupLifecycleTeardownRequested(l))
  THEN IF l.finalizer \/ AtRelease(l, NoDeletion).left # {} THEN AtRelease(l, NoDeletion) ELSE Idle
  ELSE IF l.deleting
  THEN IF l.exhausted /\ l.recover THEN At("clear", l, NoDeletion) ELSE Idle
  ELSE IF l.exhausted \/ l.pending \/ l.restarted THEN Recreate(l, NoDeletion) ELSE Idle

Start(place) ==
  /\ ctl = Idle /\ place # Idle
  /\ ctl' = place
  /\ UNCHANGED <<lws, target, pods, podsView, deletions, uid, history, bounds>>

\* With parallel termination a leader's deletion takes its workers at once.
TerminateParallel ==
  Parallel /\ LeaderSeen # NoPod /\ LeaderSeen.deleting /\ wsts.owner = LeaderSeen.uid /\ ~wsts.deleting

ReconcileLeader    == LeaderSeen # NoPod /\ ~TerminateParallel /\ Start(reconcileLeader(LeaderSeen))
ReconcileWorker(w) == WorkersSeen[w] # NoPod /\ Start(handleRestartPolicy(WorkersSeen[w], NoDeletion))
ReconcileDeleted(event) == event \in deletions /\ Start(handleRestartPolicy(event.pod, event))

\* A delete event that calls for nothing is forgotten.
DropDeletion(event) ==
  /\ ctl = Idle /\ event \in deletions
  /\ handleRestartPolicy(event.pod, event) = Idle
  /\ deletions' = deletions \ {event}
  /\ UNCHANGED <<lws, target, pods, podsView, ctl, uid, history, bounds>>

ReleaseWorkerWhileDeleting(w) ==  \* mutant: nothing is done once the LeaderWorkerSet is gone
  /\ ctl = Idle /\ lws.phase = "deleting"
  /\ WorkersSeen[w] # NoPod /\ WorkersSeen[w].finalizer /\ workers[w] # NoPod
  /\ workers' = [workers EXCEPT ![w].finalizer = FALSE]
  /\ UNCHANGED <<lws, target, leader, wsts, podsView, deletions, ctl, uid, history, bounds>>

\* Once the LeaderWorkerSet is going, a worker's reconcile releases it alone.
ReleaseWorker(w) ==
  /\ ctl = Idle /\ lws.phase # "live"
  /\ WorkersSeen[w] # NoPod /\ WorkersSeen[w].finalizer /\ workers[w] # NoPod
  /\ workers' = [workers EXCEPT ![w].finalizer = FALSE]
  /\ UNCHANGED <<lws, target, leader, wsts, podsView, deletions, ctl, uid, history, bounds>>

-----------------------------------------------------------------------------
(* The writes of a pod reconcile, one at a time and in order.              *)

\* The API server admits no new finalizer on a pod that is being deleted.
NoNewFinalizer(pod) == pod # NoPod => pod.deleting /\ ~pod.finalizer

Done == ctl' = Idle /\ deletions' = deletions \ {ctl.from}

ClearCountOnly ==  \* mutant: the group is not released
  /\ ctl.at = "clear" /\ lws.phase # "gone"
  /\ lws' = [lws EXCEPT !.counts[ctl.seen.revision] = 0]
  /\ ctl' = Idle
  /\ UNCHANGED <<target, pods, podsView, deletions, uid, history, bounds>>

\* clearGroupRestartCount, then the release of the group.
ClearCount ==
  /\ ctl.at = "clear" /\ lws.phase # "gone"
  /\ lws' = [lws EXCEPT !.counts[ctl.seen.revision] = 0]
  /\ ctl' = AtRelease(ctl.seen, ctl.from)
  /\ UNCHANGED <<target, pods, podsView, deletions, uid, history, bounds>>

\* removeGroupRestartBudgetFinalizersForGroup: the workers first.
ReleaseHeldWorker(w) ==
  /\ ctl.at = "release" /\ w \in ctl.left /\ workers[w] # NoPod
  /\ workers' = [workers EXCEPT ![w].finalizer = FALSE]
  /\ ctl' = [ctl EXCEPT !.left = @ \ {w}]
  /\ UNCHANGED <<lws, target, leader, wsts, podsView, deletions, uid, history, bounds>>

ReleaseLeaderFirst ==  \* mutant: the leader before its workers
  /\ ctl.at = "release" /\ ctl.seen.finalizer /\ leader # NoPod
  /\ leader' = [leader EXCEPT !.finalizer = FALSE, !.exhausted = FALSE, !.recover = FALSE]
  /\ Done
  /\ UNCHANGED <<lws, target, workers, wsts, podsView, uid, history, bounds>>

\* The patch replaces the list of finalizers, foregroundDeletion included.
ReleaseLeader ==
  /\ ctl.at = "release" /\ ctl.left = {}
  /\ IF ~ctl.seen.finalizer THEN UNCHANGED leader
     ELSE /\ leader # NoPod
          /\ leader' = [leader EXCEPT !.finalizer = FALSE,
                                      !.foreground = @ /\ ctl.seen.foreground,
                                      !.exhausted = @ /\ ~ctl.seen.exhausted,
                                      !.recover = @ /\ ~ctl.seen.recover]
  /\ Done
  /\ UNCHANGED <<lws, target, workers, wsts, podsView, uid, history, bounds>>

\* terminateExhaustedGroup: mark and hold the leader, hold the workers, then
\* delete the leader.
MarkExhausted ==
  /\ ctl.at = "mark"
  /\ IF ctl.seen.exhausted /\ ctl.seen.finalizer THEN UNCHANGED leader
     ELSE /\ ~NoNewFinalizer(leader)
          /\ leader' = [leader EXCEPT !.exhausted = TRUE, !.finalizer = TRUE,
                          !.recover = @ /\ (ctl.seen.exhausted \/ ~ctl.seen.recover)]
  /\ ctl' = [at |-> "hold", seen |-> ctl.seen, from |-> ctl.from,
             left |-> {w \in groupPods(ctl.seen) :
                         /\ ~WorkersSeen[w].deleting /\ ~WorkersSeen[w].finalizer
                         /\ workerPodBelongsToLeader(WorkersSeen[w], ctl.seen)}]
  /\ UNCHANGED <<lws, target, workers, wsts, podsView, deletions, uid, history, bounds>>

HoldWorker(w) ==
  /\ ctl.at = "hold" /\ w \in ctl.left
  /\ ~NoNewFinalizer(workers[w])
  /\ workers' = [workers EXCEPT ![w].finalizer = TRUE]
  /\ ctl' = [ctl EXCEPT !.left = @ \ {w}]
  /\ UNCHANGED <<lws, target, leader, wsts, podsView, deletions, uid, history, bounds>>

HoldOnly ==  \* mutant: the exhausted group is not terminated
  /\ ctl.at = "hold" /\ ctl.left = {}
  /\ ctl' = Idle
  /\ UNCHANGED <<lws, target, pods, podsView, deletions, uid, history, bounds>>

HoldDone ==
  /\ ctl.at = "hold" /\ ctl.left = {}
  /\ ctl' = [at |-> "delete", seen |-> ctl.seen, from |-> ctl.from, recreate |-> FALSE]
  /\ UNCHANGED <<lws, target, pods, podsView, deletions, uid, history, bounds>>

\* A restart that has to wait is noted on the leader.
PatchPending ==
  /\ ctl.at = "pend" /\ leader # NoPod
  /\ leader' = [leader EXCEPT !.pending = TRUE]
  /\ ctl' = Idle
  /\ UNCHANGED <<lws, target, workers, wsts, podsView, deletions, uid, history, bounds>>

\* persistGroupRestartCount never lowers a count written meanwhile.
ChargeCount ==
  /\ ctl.at = "charge" /\ lws.phase # "gone"
  /\ LET r == ctl.seen.revision
     IN  IF lws.counts[r] >= ctl.next THEN UNCHANGED <<lws, charges>>
         ELSE /\ lws' = [lws EXCEPT !.counts[r] = ctl.next]
              /\ charges' = charges + 1
  /\ ctl' = [at |-> "delete", seen |-> ctl.seen, from |-> ctl.from, recreate |-> TRUE]
  /\ UNCHANGED <<target, pods, podsView, deletions, uid, recreations, bounds>>

\* The leader is deleted in the foreground; a deletion under way stays as it is.
DeleteLeader ==
  /\ ctl.at = "delete" /\ leader # NoPod
  /\ leader' = IF leader.deleting THEN leader
               ELSE [leader EXCEPT !.deleting = TRUE, !.foreground = TRUE]
  /\ recreations' = IF ctl.recreate /\ ~leader.deleting THEN recreations + 1 ELSE recreations
  /\ Done
  /\ UNCHANGED <<lws, target, workers, wsts, podsView, uid, charges, bounds>>

\* The API server refuses the next write: the object is gone, or a finalizer
\* is new on a pod that is being deleted.  The request is retried.
Refused ==
  /\ \/ ctl.at \in {"clear", "charge"} /\ lws.phase = "gone"
     \/ ctl.at \in {"pend", "delete"} /\ leader = NoPod
     \/ ctl.at = "mark" /\ ~(ctl.seen.exhausted /\ ctl.seen.finalizer) /\ NoNewFinalizer(leader)
     \/ ctl.at = "hold" /\ \E w \in ctl.left : NoNewFinalizer(workers[w])
     \/ ctl.at = "release" /\ \E w \in ctl.left : workers[w] = NoPod
     \/ ctl.at = "release" /\ ctl.left = {} /\ ctl.seen.finalizer /\ leader = NoPod
  /\ ctl' = Idle
  /\ UNCHANGED <<lws, target, pods, podsView, deletions, uid, history, bounds>>

\* A call fails and the request is retried.
Abort ==
  /\ ctl # Idle /\ aborts < MaxAborts
  /\ ctl' = Idle
  /\ aborts' = aborts + 1
  /\ UNCHANGED <<lws, target, pods, podsView, deletions, uid, history, faults, edits>>

\* The process stops: delete events are not delivered again.
Stop ==
  /\ aborts < MaxAborts
  /\ ctl' = Idle /\ deletions' = {}
  /\ aborts' = aborts + 1
  /\ UNCHANGED <<lws, target, pods, podsView, uid, history, faults, edits>>

\* The rest of reconcilePod for a leader that needs no restart now.
CreateWorkerStatefulSet ==
  /\ ctl = Idle /\ lws.phase = "live" /\ wsts = NoSts
  /\ LeaderSeen # NoPod /\ ~LeaderSeen.deleting /\ ~LeaderSeen.exhausted
  /\ reconcileLeader(LeaderSeen) = Idle
  /\ wsts' = [owner |-> LeaderSeen.uid, revision |-> LeaderSeen.revision, deleting |-> FALSE]
  /\ UNCHANGED <<lws, target, leader, workers, podsView, deletions, ctl, uid, history, bounds>>

-----------------------------------------------------------------------------
(* The LeaderWorkerSet reconcile, as far as it touches this group.         *)

\* A scale-down clears the counts (pruneScaledDownGroupRestartCounts), then
\* applies the replicas.
PruneCounts ==
  /\ lws.phase = "live" /\ ~target.wanted /\ ~target.pruned
  /\ target.inRange \/ \E r \in Revisions : lws.counts[r] # 0
  /\ lws' = [lws EXCEPT !.counts = [r \in Revisions |-> 0]]
  /\ target' = [target EXCEPT !.pruned = TRUE]
  /\ UNCHANGED <<pods, podsView, deletions, ctl, uid, history, bounds>>

ApplyReplicas ==
  /\ lws.phase = "live"
  /\ \/ target.pruned /\ target' = [target EXCEPT !.inRange = FALSE, !.pruned = FALSE]
     \/ ~target.pruned /\ target.wanted /\ ~target.inRange
        /\ target' = [target EXCEPT !.inRange = TRUE]
  /\ UNCHANGED <<lws, pods, podsView, deletions, ctl, uid, history, bounds>>

ApplyPartition ==
  /\ lws.phase = "live" /\ ~target.above
  /\ target' = [target EXCEPT !.above = TRUE]
  /\ UNCHANGED <<lws, pods, podsView, deletions, ctl, uid, history, bounds>>

\* The rollout is done: counts of other revisions are dropped
\* (cleanupObsoleteGroupRestartCounts).
CleanupCounts ==
  /\ lws.phase = "live" /\ target.above
  /\ leader # NoPod /\ leader.revision = target.revision /\ ~leader.deleting
  /\ target' = [target EXCEPT !.current = target.revision]
  /\ lws' = [lws EXCEPT !.counts = [r \in Revisions |-> IF r = target.revision THEN @[r] ELSE 0]]
  /\ UNCHANGED <<pods, podsView, deletions, ctl, uid, history, bounds>>

-----------------------------------------------------------------------------
(* The StatefulSet controllers, the garbage collector and the kubelet.     *)

StsCreateLeader ==
  /\ target.inRange /\ leader = NoPod /\ uid < MaxUid
  /\ RacingReplacement \/ ctl = Idle
  /\ uid' = uid + 1
  /\ leader' = [uid |-> uid + 1, started |-> ~AfterStart, restarted |-> FALSE, deleting |-> FALSE,
                revision |-> IF target.above THEN target.revision ELSE target.current,
                foreground |-> FALSE, finalizer |-> FALSE, exhausted |-> FALSE, recover |-> FALSE,
                pending |-> FALSE, aged |-> ~Backoff]
  /\ UNCHANGED <<lws, target, workers, wsts, podsView, deletions, ctl, history, bounds>>

\* The leader StatefulSet goes with the LeaderWorkerSet.
CollectLeaderSts ==
  /\ lws.phase # "live" /\ target.inRange
  /\ target' = [target EXCEPT !.inRange = FALSE]
  /\ UNCHANGED <<lws, pods, podsView, deletions, ctl, uid, history, bounds>>

\* Scale-down, rollout, or the deletion of the LeaderWorkerSet, which may be
\* in the foreground.
ClusterDeleteLeader ==
  /\ leader # NoPod /\ ~leader.deleting /\ groupLifecycleTeardownRequested(leader)
  /\ \E foreground \in {FALSE, lws.phase = "deleting"} :
       leader' = [leader EXCEPT !.deleting = TRUE, !.foreground = foreground]
  /\ UNCHANGED <<lws, target, workers, wsts, podsView, deletions, ctl, uid, history, bounds>>

LwsGone ==
  /\ lws.phase = "deleting" /\ ~target.inRange /\ leader = NoPod
  /\ lws' = [lws EXCEPT !.phase = "gone"]
  /\ UNCHANGED <<target, pods, podsView, deletions, ctl, uid, history, bounds>>

LeaderGone ==
  /\ leader # NoPod /\ leader.deleting /\ ~leader.finalizer
  /\ leader.foreground => wsts.owner # leader.uid
  /\ leader' = NoPod
  /\ UNCHANGED <<lws, target, workers, wsts, podsView, deletions, ctl, uid, history, bounds>>

DeletingWorkers(gone) ==
  [w \in Workers |-> IF w \in gone THEN [workers[w] EXCEPT !.deleting = TRUE] ELSE workers[w]]

\* The leader is deleted in the foreground, or its reconcile deletes the
\* worker StatefulSet (deleteWorkerStatefulSetIfExists): the workers go first.
DeleteWorkerSts ==
  /\ \/ wsts # NoSts /\ ~wsts.deleting /\ leader.uid = wsts.owner /\ leader.foreground
     \/ ctl = Idle /\ TerminateParallel
  /\ wsts' = [wsts EXCEPT !.deleting = TRUE]
  /\ workers' = DeletingWorkers({w \in Workers : workers[w].uid = wsts.owner})
  /\ UNCHANGED <<lws, target, leader, podsView, deletions, ctl, uid, history, bounds>>

\* The leader is gone: the worker StatefulSet goes at once, its pods after it.
CollectWorkerSts ==
  /\ wsts # NoSts /\ ~wsts.deleting /\ leader.uid # wsts.owner
  /\ wsts' = NoSts
  /\ UNCHANGED <<lws, target, leader, workers, podsView, deletions, ctl, uid, history, bounds>>

\* Pods whose StatefulSet is gone.
CollectWorkers ==
  LET orphans == {w \in Workers : workers[w] # NoPod /\ workers[w].uid # wsts.owner}
  IN  /\ \E w \in orphans : ~workers[w].deleting
      /\ workers' = DeletingWorkers(orphans)
      /\ UNCHANGED <<lws, target, leader, wsts, podsView, deletions, ctl, uid, history, bounds>>

WorkerGone(w) ==
  /\ workers[w] # NoPod /\ workers[w].deleting /\ ~workers[w].finalizer
  /\ workers' = [workers EXCEPT ![w] = NoPod]
  /\ deletions' = deletions \cup {[worker |-> w, pod |-> workers[w]]}
  /\ UNCHANGED <<lws, target, leader, wsts, podsView, ctl, uid, history, bounds>>

WorkersGone ==
  /\ wsts # NoSts /\ wsts.deleting /\ \A w \in Workers : workers[w].uid # wsts.owner
  /\ wsts' = NoSts
  /\ UNCHANGED <<lws, target, leader, workers, podsView, deletions, ctl, uid, history, bounds>>

StsCreateWorker(w) ==
  /\ wsts # NoSts /\ ~wsts.deleting /\ workers[w] = NoPod
  /\ workers' = [workers EXCEPT ![w] =
       [uid |-> wsts.owner, revision |-> wsts.revision, started |-> ~AfterStart,
        restarted |-> FALSE, deleting |-> FALSE, finalizer |-> FALSE]]
  /\ UNCHANGED <<lws, target, leader, wsts, podsView, deletions, ctl, uid, history, bounds>>

PodStarts ==
  /\ \/ leader # NoPod /\ ~leader.started /\ ~leader.deleting
        /\ leader' = [leader EXCEPT !.started = TRUE] /\ UNCHANGED workers
     \/ \E w \in Workers : /\ workers[w] # NoPod /\ ~workers[w].started /\ ~workers[w].deleting
                           /\ workers' = [workers EXCEPT ![w].started = TRUE]
                           /\ UNCHANGED leader
  /\ UNCHANGED <<lws, target, wsts, podsView, deletions, ctl, uid, history, bounds>>

LeaderAges ==
  /\ leader # NoPod /\ ~leader.aged
  /\ leader' = [leader EXCEPT !.aged = TRUE]
  /\ UNCHANGED <<lws, target, workers, wsts, podsView, deletions, ctl, uid, history, bounds>>

\* A container restarts, or somebody deletes a worker.
Fault ==
  /\ faults < MaxFaults
  /\ \/ leader # NoPod /\ ~leader.restarted /\ ~leader.deleting
        /\ leader' = [leader EXCEPT !.restarted = TRUE] /\ UNCHANGED workers
     \/ \E w \in Workers :
          /\ workers[w] # NoPod /\ ~workers[w].deleting
          /\ \/ ~workers[w].restarted /\ workers' = [workers EXCEPT ![w].restarted = TRUE]
             \/ workers' = [workers EXCEPT ![w].deleting = TRUE]
          /\ UNCHANGED leader
  /\ faults' = faults + 1
  /\ UNCHANGED <<lws, target, wsts, podsView, deletions, ctl, uid, history, aborts, edits>>

-----------------------------------------------------------------------------
(* The user.                                                               *)

Edit ==
  /\ edits < MaxEdits /\ lws.phase = "live"
  /\ edits' = edits + 1
  /\ UNCHANGED <<workers, wsts, podsView, deletions, ctl, uid, history, faults, aborts>>

AskRecovery ==
  /\ leader # NoPod /\ ~leader.recover
  /\ leader' = [leader EXCEPT !.recover = TRUE]
  /\ Edit /\ UNCHANGED <<lws, target>>

SetLimit ==
  /\ \E limit \in Limits \ {lws.limit} : lws' = [lws EXCEPT !.limit = limit]
  /\ Edit /\ UNCHANGED <<leader, target>>

Scale ==
  /\ target' = [target EXCEPT !.wanted = ~@]
  /\ Edit /\ UNCHANGED <<lws, leader>>

Rollout ==
  /\ target.current = target.revision /\ target.revision < MaxRevision
  /\ target' = [target EXCEPT !.revision = @ + 1, !.above = FALSE]
  /\ Edit /\ UNCHANGED <<lws, leader>>

DeleteLws ==
  /\ \E phase \in {"deleting", "gone"} : lws' = [lws EXCEPT !.phase = phase]
  /\ Edit /\ UNCHANGED <<leader, target>>

-----------------------------------------------------------------------------
Decide ==
  \/ ReconcileLeader \/ CreateWorkerStatefulSet
  \/ \E w \in Workers : ReconcileWorker(w) \/ ReleaseWorker(w)
  \/ \E event \in deletions : ReconcileDeleted(event) \/ DropDeletion(event)

Write ==
  \/ ClearCount \/ ReleaseLeader \/ MarkExhausted \/ HoldDone \/ PatchPending
  \/ ChargeCount \/ DeleteLeader \/ Refused
  \/ \E w \in Workers : ReleaseHeldWorker(w) \/ HoldWorker(w)

LwsReconcile == PruneCounts \/ ApplyReplicas \/ ApplyPartition \/ CleanupCounts

Cluster ==
  \/ StsCreateLeader \/ ClusterDeleteLeader \/ LeaderGone \/ LwsGone
  \/ CollectLeaderSts \/ DeleteWorkerSts \/ CollectWorkerSts \/ CollectWorkers \/ WorkersGone
  \/ PodStarts \/ LeaderAges
  \/ \E w \in Workers : WorkerGone(w) \/ StsCreateWorker(w)

User == AskRecovery \/ SetLimit \/ Scale \/ Rollout \/ DeleteLws

Next == \/ Decide \/ Write \/ LwsReconcile \/ Cluster
        \/ ObservePods \/ Fault \/ Abort \/ Stop \/ User

Spec == Init /\ [][Next]_vars

\* The work queue hands out every request that keeps being due, the cluster's
\* controllers keep running, caches catch up.  Nothing is assumed of the
\* LeaderWorkerSet reconcile that ends a rollout, of faults or of the user.
Fairness ==
  /\ SF_vars(ReconcileLeader) /\ SF_vars(CreateWorkerStatefulSet) /\ WF_vars(Write)
  /\ \A w \in Workers : /\ SF_vars(ReconcileWorker(w)) /\ SF_vars(ReleaseWorker(w))
                        /\ WF_vars(WorkerGone(w)) /\ WF_vars(StsCreateWorker(w))
  /\ WF_vars(ApplyReplicas) /\ SF_vars(DeleteWorkerSts)
  /\ SF_vars(StsCreateLeader) /\ WF_vars(ClusterDeleteLeader) /\ WF_vars(LeaderGone)
  /\ WF_vars(CollectLeaderSts) /\ WF_vars(CollectWorkerSts) /\ WF_vars(CollectWorkers)
  /\ WF_vars(WorkersGone) /\ WF_vars(PodStarts) /\ WF_vars(LeaderAges)
  /\ WF_vars(ObservePods)

FairSpec == Spec /\ Fairness

-----------------------------------------------------------------------------
(* Properties.                                                             *)

\* Every group taken down for a restart was charged first, whatever call
\* failed or wherever the process stopped (handleRestartPolicy persists the
\* count before it deletes the leader), unless the budget can be switched off.
RecreationsCharged ==
  Backoff \/ Unlimited \notin Limits => recreations <= charges

\* A group is never charged past its limit, so it is recreated at most
\* maxGroupRestarts times until its count is cleared.
WithinBudget ==
  Unlimited \notin Limits =>
    \A r \in Revisions : \E limit \in Limits : lws.counts[r] <= limit

\* One failure is charged once, however many pods of the group report it and
\* whatever the pods of earlier groups still report; only a failed call or a
\* stop may cost one more (the leader.DeletionTimestamp, revision and
\* workerPodBelongsToLeader checks of handleRestartPolicy).
ChargedPerFailure == charges <= faults + aborts

\* While the LeaderWorkerSet lives, a worker held by the budget finalizer has a
\* held leader: the reconcile of that leader is the only one that releases the
\* worker (removeGroupRestartBudgetFinalizersForGroup: workers first, then the
\* leader).
NoOrphanFinalizer ==
  lws.phase = "live" =>
    \A w \in Workers : workers[w] # NoPod /\ workers[w].finalizer
                         => leader # NoPod /\ leader.uid = workers[w].uid /\ leader.finalizer

\* A group with a failed leader is taken down or given up.
FailureHandled ==
  \A u \in Uids : (leader.uid = u /\ leader.restarted) ~> (leader.uid # u \/ leader.deleting)

\* Whatever the budget retained, deleting the LeaderWorkerSet frees every pod.
TeardownCompletes ==
  (lws.phase # "live") ~> (leader = NoPod /\ \A w \in Workers : workers[w] = NoPod)

\* A recovery asked for on a retained leader releases its group.
RecoveryCompletes ==
  \A u \in Uids : (leader.uid = u /\ leader.exhausted /\ leader.recover) ~> (leader.uid # u)

=============================================================================
