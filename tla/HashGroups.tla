------------------------------ MODULE HashGroups ------------------------------
(***************************************************************************)
(* A LeaderWorkerSet with groupIdentity Hash: leaders come from a          *)
(* Deployment, start behind a scheduling gate and have a random group key, *)
(* so neither their place nor their restart history follows from a name.   *)
(*                                                                         *)
(* groups is the sequence of groups with a pod left, oldest first; a       *)
(* group's id stands for its key and its leader's name.  counts is the     *)
(* restart-count annotation of the LWS.  A revision is the number of the   *)
(* template it holds (LeaderSet models how revisions are kept).  A         *)
(* reconcile is a list of writes; one that stops has made the first few.   *)
(***************************************************************************)
EXTENDS Integers, FiniteSets, FiniteSetsExt, SequencesExt, TLC

CONSTANTS
    Ids,          \* group keys: at most this many groups and counts at a time
    Templates,    \* 1 .. n, the contents of the leaderWorkerTemplate
    Setups        \* the cases to explore, see TypeOK

VARIABLES
    setup,        \* fixed: policies, budgets, what lags, which edits come, and
                  \* how many faults and interrupted reconciles
    lws,          \* [replicas, template]
    counts,       \* id -> [rev, n]
    status,       \* conditions, and whether they are of the current generation
    deploy,       \* the leader Deployment; acked: its generation is observed
    rs,           \* template -> replicas of its ReplicaSet
    groups,
    groupsView,   \* the pod cache, where setup.lag says it lags
    deployView,   \* the Deployment cache, the same
    edited,       \* the kinds of edits made so far
    faults, stops,
    recreated     \* history: recreations of failed groups of each template

vars == <<setup, lws, counts, status, deploy, rs, groups, groupsView,
          deployView, edited, faults, stops, recreated>>

Unlimited == -1
Values == {"absent", "true", "false"}
Types == {"Available", "Progressing", "UpdateInProgress", "Degraded"}
Edits == {"template", "scale", "recover"}
Lags == {"none", "pods", "deployment"}

NoDeployment == [exists |-> FALSE, replicas |-> 0, template |-> 0, acked |-> FALSE]

NewLeader(id, r) == [id |-> id, rev |-> r, phase |-> "gated", deleted |-> FALSE,
    foreground |-> FALSE, exhausted |-> FALSE, recover |-> FALSE,
    failed |-> FALSE, ready |-> FALSE, workers |-> "none"]

-------------------------------------------------------------------------------
(* Leaders as the code classifies them.                                    *)

HasLeader(g) == g.phase # "gone"
Alive(g) == HasLeader(g) /\ ~g.deleted
Exhausted(g) == HasLeader(g) /\ g.exhausted
Gated(g) == Alive(g) /\ g.phase = "gated"
Admitted(g) == Alive(g) /\ ~g.exhausted /\ g.phase # "gated"
IsPodReady(g) == g.phase = "up" /\ g.ready
TearingDown(g) == ~(Alive(g) /\ ~g.exhausted)

Count(gs, P(_)) == Cardinality({i \in DOMAIN gs : P(gs[i])})
CountOn(gs, r, P(_)) == Cardinality({i \in DOMAIN gs : gs[i].rev = r /\ P(gs[i])})

-------------------------------------------------------------------------------
(* What the Deployment controller does next, and reports.                  *)

Total(r) == MapThenSumSet(LAMBDA t : r[t], Templates)
ReadyOn(gs, ts) == Cardinality({i \in DOMAIN gs :
    gs[i].rev \in ts /\ Alive(gs[i]) /\ IsPodReady(gs[i])})
MinAvailable(d) == Max({0, d.replicas - setup.unavailable})

\* What a rollout may still add, and take from the ReplicaSet of t.
Growth(d, r) == Min({d.replicas - r[d.template],
                     d.replicas + Min({setup.surge, d.replicas}) - Total(r)})
Excess(d, r, gs) == Total(r) - MinAvailable(d) - (r[d.template] - ReadyOn(gs, {d.template}))
Retirable(d, r, gs, t) == Max({Min({r[t] - ReadyOn(gs, {t}), Excess(d, r, gs)}),
                               Min({r[t], ReadyOn(gs, Templates) - MinAvailable(d)})})

\* The sizes of the ReplicaSets may become one of these.
Rescaled(d, r, gs) ==
    ({[r EXCEPT ![d.template] = Min({d.replicas, @ + Max({0, Growth(d, r)})})]}
        \cup {[r EXCEPT ![t] = @ - Max({0, Retirable(d, r, gs, t)})] :
                t \in Templates \ {d.template}}) \ {r}

\* The Deployment with its status.
Report(d, gs) == d @@ [total |-> Count(gs, Alive), ready |-> ReadyOn(gs, Templates),
                       updated |-> CountOn(gs, d.template, Alive)]

\* What the caches show: the present, unless they lag.
Pods == IF setup.lag = "pods" THEN groupsView ELSE groups
Deployment == IF setup.lag = "deployment" THEN deployView ELSE Report(deploy, groups)

\* Either nothing exists yet, or all replicas are ready and the status says so.
Init ==
    /\ setup \in Setups
    /\ lws = [replicas |-> setup.replicas, template |-> 1]
    /\ counts = <<>>
    /\ deploy = IF setup.fresh THEN NoDeployment
                ELSE [exists |-> TRUE, replicas |-> setup.replicas, template |-> 1, acked |-> TRUE]
    /\ groups = IF setup.fresh THEN <<>> ELSE [i \in 1 .. setup.replicas |->
        [NewLeader(i, 1) EXCEPT !.phase = "up", !.ready = TRUE, !.workers = "ready"]]
    /\ rs = [t \in Templates |-> IF t = 1 /\ ~setup.fresh THEN setup.replicas ELSE 0]
    /\ status = ("observed" :> ~setup.fresh) @@ [t \in Types |->
        IF setup.fresh THEN "absent" ELSE IF t = "Available" THEN "true" ELSE "false"]
    /\ groupsView = IF setup.lag = "pods" THEN groups ELSE <<>>
    /\ deployView = IF setup.lag = "deployment" THEN Report(deploy, groups) ELSE NoDeployment
    /\ edited = {} /\ faults = 0 /\ stops = 0
    /\ recreated = [t \in Templates |-> 0]

-------------------------------------------------------------------------------
(* Restart counts.                                                         *)

\* Keys of leaders alive or held as exhausted.
OwnedKeys(gs) == {gs[i].id : i \in {j \in DOMAIN gs : Alive(gs[j]) \/ Exhausted(gs[j])}}

\* Counts of a revision that no leader owns.
Unclaimed(gs, r) == {k \in DOMAIN counts : counts[k].rev = r} \ OwnedKeys(gs)

Highest(ks) == CHOOSE k \in ks : \A j \in ks :
    counts[k].n > counts[j].n \/ (counts[k].n = counts[j].n /\ k <= j)

Drop(f, ks) == [k \in DOMAIN f \ ks |-> f[k]]

\* mutant: a new leader always starts at zero
StartAtZero(gs, g) == counts

\* A leader about to be admitted takes over the highest unclaimed count.
claimGroupRestartCountForHashLeader(gs, g) ==
    IF g.id \in DOMAIN counts \/ Unclaimed(gs, g.rev) = {} THEN counts
    ELSE LET best == Highest(Unclaimed(gs, g.rev))
         IN  (g.id :> counts[best]) @@ Drop(counts, {best})

\* How many unclaimed counts of the revision may be kept.
maxUnclaimed(gs, r) ==
    LET exhausted == CountOn(gs, r, Exhausted)
        occupied == exhausted + CountOn(gs, r, Admitted)
        pending == Max({0, CountOn(gs, r, Gated) - exhausted})
        surge == Min({setup.surge, lws.replicas})
    IN  Max({0, Max({lws.replicas, Min({lws.replicas + surge, occupied + pending})}) - occupied})

\* The n highest of ks.
Top(ks, n) == CHOOSE s \in SUBSET ks :
    /\ Cardinality(s) = Min({n, Cardinality(ks)})
    /\ \A j \in s, k \in ks \ s :
        counts[j].n > counts[k].n \/ (counts[j].n = counts[k].n /\ j < k)

pruneHashGroupRestartCounts(gs, r) ==
    LET left == Unclaimed(gs, r)
    IN  Drop(counts, left \ Top(left, maxUnclaimed(gs, r)))

cleanupObsoleteGroupRestartCounts(cs, r) == Drop(cs, {k \in DOMAIN cs : cs[k].rev # r})

-------------------------------------------------------------------------------
(* The pod controller.                                                     *)

outdatedRevision(g) == Deployment.exists /\ Deployment.template # g.rev

SameGated(gs, i, j) == Gated(gs[j]) /\ (Deployment.exists => gs[j].rev = gs[i].rev)

\* mutant: terminating groups hold nothing back
BlockedByExhausted(gs) == Count(gs, Exhausted)

\* Groups whose leader is terminating or gone while a pod is left; under
\* Immediate only exhausted groups hold a replacement back.
BlockingGroups(gs) ==
    IF setup.immediate THEN Count(gs, Exhausted) ELSE Count(gs, TearingDown)

\* The revision still has a slot for this leader and the older gated ones.
SlotFree(gs, i) ==
    CountOn(gs, gs[i].rev, Admitted) + CountOn(gs, gs[i].rev, Exhausted)
        + Cardinality({j \in 1 .. i - 1 : Gated(gs[j]) /\ gs[j].rev = gs[i].rev})
        < lws.replicas

\* reconcileGroupReplacementGate up to its writes.
MayAdmit(gs, i) ==
    /\ ~outdatedRevision(gs[i])
    /\ SlotFree(gs, i)
    /\ BlockingGroups(gs) > 0 =>
        Cardinality({j \in 1 .. i - 1 : SameGated(gs, i, j)})
            < Count(gs, Gated) - BlockingGroups(gs)

\* mutant: the gated replacement of an exhausted group counts as well
GatedToo(gs, r) == CountOn(gs, r, Admitted) + CountOn(gs, r, Gated)

\* Groups of the revision that are, or are about to be, at work.
ActiveGroups(gs, r) ==
    CountOn(gs, r, Admitted)
        + Max({0, CountOn(gs, r, Gated) - CountOn(gs, r, Exhausted)})

\* More groups are exhausted than the replicas leave room for, oldest kept.
BeyondAllowed(gs, i) ==
    Cardinality({j \in 1 .. i - 1 : gs[j].rev = gs[i].rev /\ Exhausted(gs[j])})
        >= Max({0, lws.replicas - ActiveGroups(gs, gs[i].rev)})

\* mutant: as for ordinal groups, worker creation waits for the pod to be ready
PodStarted(g) == IsPodReady(g)

\* With LeaderReady the workers wait for the leader's containers only.
LeaderStarted(g) == g.phase = "up"

\* The writes of a leader held as exhausted.
exhaustedWrites(gs, i) ==
    CASE outdatedRevision(gs[i]) -> <<"release">>
      [] ~outdatedRevision(gs[i]) /\ BeyondAllowed(gs, i) -> <<"clear", "release">>
      [] ~outdatedRevision(gs[i]) /\ ~BeyondAllowed(gs, i) /\ gs[i].deleted ->
            IF gs[i].recover THEN <<"clear", "release">> ELSE <<>>
      [] OTHER -> <<"delete">>

persistedCount(g) == IF g.id \in DOMAIN counts THEN counts[g.id].n ELSE 0

\* The writes after a failure: count it and recreate, or hold the group.
handleRestartPolicy(g) ==
    CASE setup.max = Unlimited -> <<"recreate">>
      [] setup.max # Unlimited /\ persistedCount(g) >= setup.max -> <<"mark", "delete">>
      [] OTHER -> <<"charge", "recreate">>

\* The writes of an admitted leader: its workers, then the group-ready condition.
groupWrites(g) ==
    CASE setup.leaderReady /\ ~LeaderStarted(g) -> <<>>
      [] ~(setup.leaderReady /\ ~LeaderStarted(g)) /\ g.workers = "none" -> <<"workers">>
      [] OTHER -> IF g.ready # (g.workers = "ready") THEN <<"condition">> ELSE <<>>

\* The writes that admit a gated leader.
admitWrites(g) == IF setup.max = Unlimited THEN <<"lift">> ELSE <<"claim", "lift">>

\* reconcilePod of the leader at i of the pod cache gs.
reconcilePod(gs, i) ==
    CASE ~HasLeader(gs[i]) -> <<>>
      [] Exhausted(gs[i]) -> exhaustedWrites(gs, i)
      [] Alive(gs[i]) /\ ~gs[i].exhausted /\ gs[i].failed -> handleRestartPolicy(gs[i])
      [] Gated(gs[i]) /\ ~gs[i].exhausted /\ ~gs[i].failed ->
            IF MayAdmit(gs, i)
            THEN admitWrites(gs[i]) \o (IF setup.leaderReady THEN <<>> ELSE <<"workers">>)
            ELSE <<>>
      [] Admitted(gs[i]) /\ ~gs[i].failed -> groupWrites(gs[i])
      [] OTHER -> <<>>

syncGroupReadyCondition(g, v) == [g EXCEPT !.ready = (v.workers = "ready")]

Lifted(g) == IF Gated(g) THEN [g EXCEPT !.phase = "starting"] ELSE g

\* What a write does to the leader g the API server has, seen as v by the cache.
Patched(g, v, w) ==
    CASE w = "release" -> [g EXCEPT !.exhausted = FALSE, !.recover = FALSE]
      [] w = "mark" -> [g EXCEPT !.exhausted = TRUE, !.recover = FALSE]
      [] w \in {"delete", "recreate"} ->
            IF g.deleted THEN g ELSE [g EXCEPT !.deleted = TRUE, !.foreground = TRUE]
      [] w = "lift" -> Lifted(g)
      [] w = "workers" -> IF g.workers = "none" THEN [g EXCEPT !.workers = "starting"] ELSE g
      [] w = "condition" -> syncGroupReadyCondition(g, v)
      [] OTHER -> g

Recounted(gs, v, w) ==
    CASE w = "claim" -> claimGroupRestartCountForHashLeader(gs, v)
      [] w = "clear" -> Drop(counts, {v.id})
      [] w = "charge" -> (v.id :> [rev |-> v.rev, n |-> persistedCount(v) + 1]) @@ counts
      [] OTHER -> counts

At(gs, id) == {i \in DOMAIN gs : gs[i].id = id /\ HasLeader(gs[i])}

\* A pod write fails when the pod is gone, or a finalizer comes too late.
Refused(v, w) ==
    /\ w \notin {"claim", "clear", "charge"}
    /\ \A i \in At(groups, v.id) : w = "mark" /\ groups[i].deleted

\* The writes ws of a reconcile that read the leader as v.  Counts come first;
\* a refused pod write ends the reconcile.
Write(v, ws) ==
    LET at == CHOOSE i \in At(groups, v.id) : TRUE
        refused == \E k \in DOMAIN ws : Refused(v, ws[k])
    IN  /\ counts' = Recounted(Pods, v, ws[1])
        /\ groups' = IF refused \/ At(groups, v.id) = {} THEN groups
             ELSE [groups EXCEPT ![at] = FoldLeft(LAMBDA g, w : Patched(g, v, w), @, ws)]
        /\ recreated' = IF ~refused /\ "recreate" \in ToSet(ws) /\ ~groups[at].deleted
             THEN [recreated EXCEPT ![v.rev] = @ + 1] ELSE recreated

PodReconcile(id) ==
    /\ \E i \in At(Pods, id) :
        /\ reconcilePod(Pods, i) # <<>>
        /\ Write(Pods[i], reconcilePod(Pods, i))
    /\ UNCHANGED <<setup, lws, status, deploy, rs, groupsView, deployView,
                   edited, faults, stops>>

\* The call after the first write fails, or the process stops there.
PodReconcileStops(id) ==
    /\ stops < setup.stops /\ stops' = stops + 1
    /\ \E i \in At(Pods, id) :
        /\ Len(reconcilePod(Pods, i)) > 1
        /\ Write(Pods[i], SubSeq(reconcilePod(Pods, i), 1, 1))
    /\ UNCHANGED <<setup, lws, status, deploy, rs, groupsView, deployView, edited, faults>>

-------------------------------------------------------------------------------
(* Status and conditions.                                                  *)

exclusiveConditionTypes(a, b) ==
    {a, b} \in {{"Available", "Progressing"}, {"Available", "UpdateInProgress"}}

setCondition(cs, c) == (c[1] :> c[2]) @@
    [t \in DOMAIN cs |-> IF exclusiveConditionTypes(t, c[1]) /\ c[2] = "true" /\ cs[t] = "true"
                         THEN "false" ELSE cs[t]]

setConditions(cs, list) == FoldLeft(setCondition, cs, list)

\* mutant: the Deployment's own generation is proof enough
AckedIsCurrent(gs, d) == d.acked

deploymentCurrent(gs, d) ==
    /\ d.acked /\ d.template = lws.template
    /\ ~\E i \in DOMAIN gs : Alive(gs[i]) /\ gs[i].rev # d.template
    /\ Count(gs, HasLeader) = 0 \/ CountOn(gs, d.template, HasLeader) >= lws.replicas

updateInProgress(gs, d) == ~deploymentCurrent(gs, d) \/ d.updated < d.total

readyNonDegraded(gs, d) ==
    Max({0, d.ready - Count(gs, LAMBDA g : Exhausted(g) /\ Alive(g) /\ IsPodReady(g))})

available(gs, d) ==
    /\ deploymentCurrent(gs, d) /\ Count(gs, Exhausted) = 0
    /\ d.total = lws.replicas /\ d.updated = lws.replicas
    /\ readyNonDegraded(gs, d) = lws.replicas

progressing(gs, d) ==
    \/ updateInProgress(gs, d) /\ Count(gs, Exhausted) = 0
    \/ readyNonDegraded(gs, d) + Count(gs, Exhausted) < Max({lws.replicas, d.total})

Truth(b) == IF b THEN "true" ELSE "false"

\* The conditions updateStatusHash sets, in its order.
conditions(gs, d, degraded) ==
    (CASE updateInProgress(gs, d) ->
            (IF degraded THEN <<<<"Available", "false">>>> ELSE <<>>)
                \o <<<<"UpdateInProgress", "true">>, <<"Progressing", Truth(progressing(gs, d))>>>>
       [] ~updateInProgress(gs, d) /\ available(gs, d) -> <<<<"Available", "true">>>>
       [] ~updateInProgress(gs, d) /\ ~available(gs, d) /\ degraded ->
            <<<<"Available", "false">>, <<"Progressing", Truth(progressing(gs, d))>>,
              <<"UpdateInProgress", "false">>>>
       [] OTHER -> <<<<"Progressing", "true">>>> \o
            (IF status["UpdateInProgress"] = "true" THEN <<<<"UpdateInProgress", "false">>>> ELSE <<>>))
    \o <<<<"Degraded", Truth(degraded)>>>>

updateStatusHash(gs, d) ==
    ("observed" :> TRUE) @@ setConditions(status, conditions(gs, d, Count(gs, Exhausted) > 0))

-------------------------------------------------------------------------------
(* The LeaderWorkerSet controller.                                         *)

SSAWithDeployment(d) == [d EXCEPT
    !.exists = TRUE, !.replicas = lws.replicas, !.template = lws.template,
    !.acked = @ /\ d.replicas = lws.replicas /\ d.template = lws.template]

scaleDownLeaderDeployment(d) ==
    IF lws.replicas >= d.replicas THEN d
    ELSE [d EXCEPT !.replicas = lws.replicas, !.acked = FALSE]

\* The Deployment the status is computed from, after d was written.
Reread(d) == IF setup.lag = "deployment" THEN deployView ELSE Report(d, groups)

\* Status and counts a full reconcile ends with, with d as the Deployment.
NextStatus(d) == IF d.exists THEN updateStatusHash(Pods, d) ELSE status

\* The obsolete counts go once the update is done.
NextCounts(d, cs) ==
    IF d.exists /\ available(Pods, d) THEN cleanupObsoleteGroupRestartCounts(cs, lws.template) ELSE cs

reconcileHash ==
    /\ deploy' = SSAWithDeployment(deploy)
    /\ status' = NextStatus(Reread(deploy'))
    /\ counts' = NextCounts(Reread(deploy'), pruneHashGroupRestartCounts(Pods, lws.template))
    /\ UNCHANGED <<setup, lws, rs, groups, groupsView, deployView, edited,
                   faults, stops, recreated>>

\* It stops after pruning, or after the apply.
ReconcileStops ==
    /\ stops < setup.stops /\ stops' = stops + 1
    /\ counts' = pruneHashGroupRestartCounts(Pods, lws.template)
    /\ deploy' \in {deploy, SSAWithDeployment(deploy)}
    /\ UNCHANGED <<setup, lws, status, rs, groups, groupsView, deployView,
                   edited, faults, recreated>>

\* The scheduling prerequisites cannot be had: only scale down.
ReconcileSchedulingError ==
    /\ Deployment.exists /\ deploy.exists
    /\ stops < setup.stops /\ stops' = stops + 1
    /\ deploy' = scaleDownLeaderDeployment(deploy)
    /\ counts' = pruneHashGroupRestartCounts(Pods, lws.template)
    /\ status' = updateStatusHash(Pods, Reread(deploy'))
    /\ UNCHANGED <<setup, lws, rs, groups, groupsView, deployView,
                   edited, faults, recreated>>

-------------------------------------------------------------------------------
(* The Deployment and ReplicaSet controllers, as the code relies on them.  *)

\* A sync of the Deployment.
ScaleReplicaSets ==
    /\ deploy.exists
    /\ deploy' = [deploy EXCEPT !.acked = TRUE]
    /\ rs' \in Rescaled(deploy, rs, groups) \cup (IF deploy.acked THEN {} ELSE {rs})
    /\ UNCHANGED <<setup, lws, counts, status, groups, groupsView, deployView,
                   edited, faults, stops, recreated>>

\* A key no pod, cache or count has.
FreshIds == Ids \ (DOMAIN counts \cup {groups[i].id : i \in DOMAIN groups}
                    \cup {groupsView[i].id : i \in DOMAIN groupsView})

\* The webhook gives a new leader a fresh key and the gate.
CreateLeader(t) ==
    /\ CountOn(groups, t, Alive) < rs[t] /\ FreshIds # {}
    /\ groups' = Append(groups, NewLeader(Min(FreshIds), t))
    /\ UNCHANGED <<setup, lws, counts, status, deploy, rs, groupsView, deployView,
                   edited, faults, stops, recreated>>

\* Unscheduled leaders go before leaders that are not ready, ready ones last.
Preference(g) == CASE g.phase = "gated" -> 0 [] g.phase = "starting" -> 1
                   [] OTHER -> IF IsPodReady(g) THEN 3 ELSE 2

DeleteLeader(t) ==
    /\ CountOn(groups, t, Alive) > rs[t]
    /\ \E i \in DOMAIN groups :
        /\ groups[i].rev = t /\ Alive(groups[i])
        /\ \A j \in DOMAIN groups : groups[j].rev = t /\ Alive(groups[j]) =>
              Preference(groups[i]) <= Preference(groups[j])
        /\ groups' = [groups EXCEPT ![i].deleted = TRUE]
    /\ UNCHANGED <<setup, lws, counts, status, deploy, rs, groupsView, deployView,
                   edited, faults, stops, recreated>>

-------------------------------------------------------------------------------
(* Kubelet, garbage collector, faults, the user.                           *)

Becomes(i, g) ==
    /\ groups' = IF g.phase = "gone" /\ g.workers = "none" THEN RemoveAt(groups, i)
                 ELSE [groups EXCEPT ![i] = g]
    /\ UNCHANGED <<setup, lws, counts, status, deploy, rs, groupsView, deployView,
                   edited, stops, recreated>>

\* The pods of an admitted group that exist come up.
GroupUp == \E i \in DOMAIN groups :
    /\ Admitted(groups[i]) /\ ~groups[i].failed
    /\ groups[i].phase = "starting" \/ groups[i].workers = "starting"
    /\ Becomes(i, [groups[i] EXCEPT !.phase = "up",
                     !.workers = IF @ = "starting" THEN "ready" ELSE @])
    /\ UNCHANGED faults

\* A leader deleted in the foreground goes after its workers, another one may
\* leave them behind; a held one stays.
LeaderGone == \E i \in DOMAIN groups :
    /\ HasLeader(groups[i]) /\ groups[i].deleted /\ ~groups[i].exhausted
    /\ Becomes(i, [NewLeader(groups[i].id, groups[i].rev) EXCEPT
                     !.phase = "gone", !.deleted = TRUE,
                     !.workers = IF groups[i].foreground THEN "none" ELSE groups[i].workers])
    /\ UNCHANGED faults

WorkersGone == \E i \in DOMAIN groups :
    /\ ~HasLeader(groups[i])
    /\ Becomes(i, [groups[i] EXCEPT !.workers = "none"]) /\ UNCHANGED faults

\* A container of the group restarts, the leader ready again or not.
Fail == \E i \in DOMAIN groups :
    /\ faults < setup.faults /\ faults' = faults + 1
    /\ Admitted(groups[i]) /\ groups[i].phase = "up" /\ ~groups[i].failed
    /\ \E p \in {"up", "starting"} :
        Becomes(i, [groups[i] EXCEPT !.failed = TRUE, !.phase = p])

Evict == \E i \in DOMAIN groups :
    /\ faults < setup.faults /\ faults' = faults + 1
    /\ Admitted(groups[i]) /\ ~groups[i].failed
    /\ Becomes(i, [groups[i] EXCEPT !.deleted = TRUE])

EditSpec(kind, spec) ==
    /\ kind \in setup.edits \ edited /\ edited' = edited \cup {kind}
    /\ spec # lws /\ lws' = spec
    /\ status' = [status EXCEPT !["observed"] = FALSE]
    /\ UNCHANGED <<setup, counts, deploy, rs, groups, groupsView, deployView,
                   faults, stops, recreated>>

EditTemplate == \E t \in Templates : EditSpec("template", [lws EXCEPT !.template = t])
EditReplicas == EditSpec("scale", [lws EXCEPT !.replicas = setup.scaleTo])

Recover == \E i \in DOMAIN groups :
    /\ "recover" \in setup.edits \ edited /\ edited' = edited \cup {"recover"}
    /\ Exhausted(groups[i]) /\ groups[i].deleted
    /\ groups' = [groups EXCEPT ![i].recover = TRUE]
    /\ UNCHANGED <<setup, lws, counts, status, deploy, rs, groupsView, deployView,
                   faults, stops, recreated>>

\* A cache catches up.  The counts of a Deployment trail its generation.
Observe ==
    /\ \/ /\ setup.lag = "pods" /\ groupsView # groups
          /\ groupsView' = groups /\ UNCHANGED deployView
       \/ /\ setup.lag = "deployment" /\ deployView # Report(deploy, groups)
          /\ deployView' \in {Report(deploy, groups), deploy @@
                [total |-> deployView.total, ready |-> deployView.ready,
                 updated |-> IF deploy.template = deployView.template
                             THEN deployView.updated ELSE 0]}
          /\ UNCHANGED groupsView
    /\ UNCHANGED <<setup, lws, counts, status, deploy, rs, groups, edited,
                   faults, stops, recreated>>

Cluster ==
    \/ ScaleReplicaSets
    \/ \E t \in Templates : CreateLeader(t) \/ DeleteLeader(t)
    \/ GroupUp \/ LeaderGone \/ WorkersGone

Next ==
    \/ \E id \in Ids : PodReconcile(id) \/ PodReconcileStops(id)
    \/ reconcileHash \/ ReconcileStops \/ ReconcileSchedulingError
    \/ Cluster \/ Observe
    \/ Fail \/ Evict \/ EditTemplate \/ EditReplicas \/ Recover

\* What is waiting to be done.  A step of each kind ends its own wait, so to be
\* fair to it is not to leave it waiting forever: watch events enqueue a
\* reconcile, failed ones are retried, the cluster's controllers do their work.
PodWaits(id) == \E i \in At(Pods, id) : reconcilePod(Pods, i) # <<>>
ReconcileWaits ==
    \/ SSAWithDeployment(deploy) # deploy
    \/ NextStatus(Reread(deploy)) # status
    \/ NextCounts(Reread(deploy), pruneHashGroupRestartCounts(Pods, lws.template)) # counts
CacheWaits == \/ setup.lag = "pods" /\ groupsView # groups
              \/ setup.lag = "deployment" /\ deployView # Report(deploy, groups)
SyncWaits == deploy.exists /\ (~deploy.acked \/ Rescaled(deploy, rs, groups) # {})
GroupWaits(g) == Admitted(g) /\ ~g.failed /\ (g.phase = "starting" \/ g.workers = "starting")
GoingAway(g) == ~HasLeader(g) \/ (g.deleted /\ ~g.exhausted)

Spec ==
    /\ Init /\ [][Next]_vars
    /\ \A id \in Ids : []<>~PodWaits(id)
    /\ []<>~ReconcileWaits /\ []<>~CacheWaits /\ []<>~SyncWaits
    /\ \A t \in Templates : []<>(CountOn(groups, t, Alive) = rs[t])
    /\ []<>(Count(groups, GroupWaits) = 0) /\ []<>(Count(groups, GoingAway) = 0)

-------------------------------------------------------------------------------
(* Properties.                                                             *)

\* The state has its shape.
TypeOK ==
    /\ setup \in [replicas : Nat, scaleTo : Nat, surge : Nat, unavailable : Nat,
                  max : Nat \cup {Unlimited}, immediate : BOOLEAN, leaderReady : BOOLEAN,
                  lag : Lags, edits : SUBSET Edits,
                  fresh : BOOLEAN, faults : Nat, stops : Nat]
    /\ lws \in [replicas : {setup.replicas, setup.scaleTo}, template : Templates]
    /\ DOMAIN counts \subseteq Ids
    /\ \A k \in DOMAIN counts : counts[k].rev \in Templates /\ counts[k].n \in 1 .. setup.max
    /\ \A t \in Types : status[t] \in Values
    /\ \A i, j \in DOMAIN groups : i # j => groups[i].id # groups[j].id
    /\ rs \in [Templates -> Nat]
    /\ edited \subseteq setup.edits

MaxReplicas == Max({setup.replicas, setup.scaleTo})

\* Random keys do not launder the restart budget: however counts pass from
\* terminated leaders to their replacements, are pruned or cleaned up, the
\* groups of a revision are recreated at most maxGroupRestarts times for each
\* replica, as long as nobody rescales or recovers a group.
BudgetShared ==
    setup.max # Unlimited /\ edited \subseteq {"template"} =>
        \A t \in Templates : recreated[t] <= setup.max * lws.replicas

\* A group holds capacity from its admission until its last pod is gone.
HoldsCapacity(g) == g.phase # "gated" \/ g.workers # "none"

\* Under PostTermination a replacement only competes for capacity once a
\* previous group is fully removed: groups at work and groups being torn down
\* together never exceed the replicas (reconcileGroupReplacementGate).  In a
\* rollout the Deployment adds leaders before it deletes others, and the gate
\* cannot know; so no template edit.
CapacityBounded ==
    ~setup.immediate /\ edited \subseteq {"scale", "recover"} => Count(groups, HoldsCapacity) <= MaxReplicas

Released == {i \in DOMAIN groups : /\ Exhausted(groups[i])
    /\ \A j \in At(groups', groups[i].id) : ~groups'[j].exhausted}

\* An exhausted group is let go only for a recovery, a rollout past its
\* revision, or a scale-down (hashGroupLifecycleTeardownRequested).
HeldUntilReleased ==
    [][\A i \in Released :
        \/ groups[i].recover
        \/ groups[i].rev # lws.template
        \/ "scale" \in edited]_vars

\* Without faults, Available of the current generation is the truth, whatever
\* the caches show: all replicas of the current template are ready and no
\* leader of another one is left (updateStatusHash).
AvailableHonest ==
    faults = 0 /\ status["observed"] /\ status["Available"] = "true" =>
        /\ ReadyOn(groups, {lws.template}) = lws.replicas
        /\ \A i \in DOMAIN groups : Alive(groups[i]) => groups[i].rev = lws.template

\* All admitted groups are ready and the status is the truth.  With no group
\* held, all replicas are ready on the current template; a held group of the
\* new revision stops the rollout, and every replica is ready or held.
Settled ==
    /\ \A i \in DOMAIN groups : Admitted(groups[i]) => IsPodReady(groups[i]) /\ ~groups[i].failed
    /\ status["observed"]
    /\ status["Degraded"] = Truth(Count(groups, Exhausted) > 0)
    /\ IF Count(groups, Exhausted) > 0
       THEN /\ status["Available"] = "false"
            /\ ReadyOn(groups, Templates) + Count(groups, Exhausted) >= lws.replicas
       ELSE /\ status["Available"] = "true" /\ status["UpdateInProgress"] # "true"
            /\ ReadyOn(groups, {lws.template}) = lws.replicas
            /\ \A i \in DOMAIN groups : groups[i].rev = lws.template

\* Gate, budget and rollout never wait for each other forever: when edits and
\* faults end, the set settles.
Settles == <>[]Settled
===============================================================================
