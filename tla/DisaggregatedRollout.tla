------------------------ MODULE DisaggregatedRollout ------------------------
(***************************************************************************)
(* One slice of a DisaggregatedSet: the controller that moves replicas     *)
(* between the child LeaderWorkerSets of its revisions (executor.go,       *)
(* reconcileSlice and cleanupDrainedLWS in disaggregatedset_controller.go, *)
(* the reads and writes of lws_manager.go), with the user, the children's  *)
(* own controllers and failing groups around it.                           *)
(*                                                                         *)
(* A child counts its groups: `ready`, `starting`, and `going` for groups  *)
(* that are chosen for deletion and still Ready.  `acked` says that its    *)
(* controllers have carried out the last scale.  A pass is one reconcile;  *)
(* `todo` are the writes it has yet to make.  A pass starts from the real  *)
(* children: that is what the barrier of ChildWrites provides.             *)
(***************************************************************************)
EXTENDS Planner, Sequences

LOCAL INSTANCE RollingUpdate

CONSTANTS Revisions,   \* contents of the role templates
          Setups,      \* first: the first revision, layout: the roles of each revision,
                       \* external: the roles with External scaling, scaleDown: scaleDownDuringRollout,
                       \* capacity: how many groups of a role the cluster has room for
          Targets,     \* replica targets the user or a scaler sets
          Policies,    \* rollout budgets the user sets
          MaxEvents    \* edits, faults and stops

VARIABLES setup,       \* fixed
          ds,          \* the DisaggregatedSet: rev, desired, policy
          remembered,  \* the max-unavailable annotation; 0 where a role is absent
          child,       \* [Revisions -> [Roles -> the LeaderWorkerSet]]
          order,       \* revisions by the creation of their newest child
          pass,        \* the running reconcile
          available,   \* the published condition
          spent        \* edits, faults and stops so far, and whether an edit changed a target

vars == <<setup, ds, remembered, child, order, pass, available, spent>>

-----------------------------------------------------------------------------
(* What a pass reads.                                                      *)

NoChild == [exists |-> FALSE, deleting |-> FALSE, acked |-> TRUE, spec |-> 0, initial |-> 0,
            ready |-> 0, starting |-> 0, going |-> 0]

Live(v, r) == child[v][r].exists /\ ~child[v][r].deleting

Active(c) == c.ready + c.starting

SumOver(v(_), S) == MapThenSumSet(v, S)

\* GetRevisionRolesList: a child that is being deleted is neither old nor target.
OldRevisions == {v \in Revisions \ {ds.rev} : \E r \in Roles : Live(v, r)}

TargetRoles == setup.layout[ds.rev]

Desired(r) == IF r \in TargetRoles THEN ds.desired[r] ELSE 0

defaultRollingUpdateConfig == [maxSurge |-> 0, maxUnavailable |-> 1]

\* A removed role keeps the budget it had, and may always release one group.
extractRollingUpdateConfig(budgets) ==
  [r \in Roles |->
    LET surge == ScaledValue(ds.policy[r].maxSurge, ds.desired[r], TRUE)
        unavailable == ScaledValue(ds.policy[r].maxUnavailable, ds.desired[r], FALSE)
    IN IF r \notin TargetRoles
       THEN [defaultRollingUpdateConfig EXCEPT !.maxUnavailable = max(@, budgets[r])]
       ELSE IF surge = 0 /\ unavailable = 0 THEN defaultRollingUpdateConfig
       ELSE [maxSurge |-> surge, maxUnavailable |-> unavailable]]

\* syncMaxUnavailable: budgets of the current roles and of every role with a child.
maxUnavailableAnnotation ==
  [r \in Roles |-> IF r \in TargetRoles \/ \E v \in Revisions : child[v][r].exists
                   THEN extractRollingUpdateConfig(remembered)[r].maxUnavailable ELSE 0]

oldSpecs(r) == SumOver(LAMBDA v : IF Live(v, r) THEN child[v][r].spec ELSE 0, OldRevisions)

\* An External target does not shrink while old capacity of its role overlaps it.
rolloutTargetReplicas ==
  [r \in Roles |-> IF ~setup.scaleDown /\ r \in setup.external \cap TargetRoles /\ oldSpecs(r) > 0
                   THEN max(Desired(r), child[ds.rev][r].spec) ELSE Desired(r)]

\* mutant: groups chosen for deletion still count
observeRevisionRaw(v) ==
  LET seen(r) == IF v \in Revisions /\ Live(v, r) THEN child[v][r] ELSE NoChild
      initial(r) == max(seen(r).spec, seen(r).initial)
  IN [required |-> {r \in Roles : initial(r) > 0},
      initial |-> [r \in Roles |-> initial(r)],
      spec |-> [r \in Roles |-> seen(r).spec],
      raw |-> [r \in Roles |-> seen(r).ready + seen(r).going],
      ready |-> [r \in Roles |-> seen(r).ready + seen(r).going]]

\* observeOldRevision: committed leaves out groups chosen for deletion.
observeRevision(v) ==
  LET seen(r) == IF v \in Revisions /\ Live(v, r) THEN child[v][r] ELSE NoChild
      initial(r) == max(seen(r).spec, seen(r).initial)
  IN [required |-> {r \in Roles : initial(r) > 0},
      initial |-> [r \in Roles |-> initial(r)],
      spec |-> [r \in Roles |-> seen(r).spec],
      raw |-> [r \in Roles |-> seen(r).ready + seen(r).going],
      ready |-> [r \in Roles |-> min(seen(r).ready, seen(r).spec)]]

observeTargetRevision(targets, unscheduled) ==
  LET rev == observeRevision(ds.rev)
  IN [required |-> {r \in Roles : targets[r] > 0}, desired |-> targets,
      spec |-> rev.spec, raw |-> rev.raw, ready |-> rev.ready,
      unschedulable |-> [r \in Roles |-> FALSE],
      allUnscheduled |-> [r \in Roles |-> r \in unscheduled]]

\* The planner's input for one old revision; the others are parked.  A name
\* that is no revision stands for the empty one.
rolloutStateForRevision(v, targets, budgets, unscheduled) ==
  LET include(p, baseline) == includeHistoricalBaseline(baseline, targets,
                                observeRevision(p).initial, observeRevision(p).spec)
  IN [active |-> observeRevision(v),
      parked |-> [p \in OldRevisions \ {v} |-> observeRevision(p)],
      target |-> observeTargetRevision(targets, unscheduled),
      baseline |-> FoldSet(include, Zero, OldRevisions),
      config |-> extractRollingUpdateConfig(budgets),
      scaleDown |-> setup.scaleDown]

\* Old revisions with replicas, those without a Ready group first, newest first.
orderedRevisionCandidates ==
  LET newest == [i \in 1 .. Len(order) |-> order[Len(order) + 1 - i]]
      nonEmpty(v) == v \in OldRevisions /\ \E r \in Roles : Live(v, r) /\ child[v][r].spec > 0
      unready(v) == nonEmpty(v) /\ \A r \in Roles : observeRevision(v).raw[r] = 0
      other(v) == nonEmpty(v) /\ ~unready(v)
  IN SelectSeq(newest, unready) \o SelectSeq(newest, other)

\* Target roles that wait for room in the cluster.
Scheduled(r) == SumOver(LAMBDA v : child[v][r].ready + child[v][r].going, Revisions)

targetUnschedulableRoles ==
  {r \in Roles : /\ Live(ds.rev, r)
                 /\ child[ds.rev][r].spec > child[ds.rev][r].ready
                 /\ child[ds.rev][r].starting > 0
                 /\ Scheduled(r) >= setup.capacity[r]}

\* Roles of which every target group may be found without a node.
MayBeAllUnscheduled ==
  {r \in Roles : LET c == child[ds.rev][r]
                 IN setup.scaleDown /\ Live(ds.rev, r) /\ c.spec > 0 /\ c.starting = c.spec /\ c.going = 0}

-----------------------------------------------------------------------------
(* selectNextRolloutStep.                                                  *)

Selected(v, state, step) == [rev |-> v, state |-> state, step |-> step]

NothingSelected == [step |-> NoStep]

\* The first candidate whose step passes the test.
FirstOf(cands, states, steps, Test(_, _)) ==
  LET passing == {i \in DOMAIN cands : Test(states[i], steps[i])}
      First(i) == Selected(cands[i], states[i], steps[i])
  IN IF passing = {} THEN NothingSelected ELSE First(Min(passing))

OrSelect(selected, next) == IF selected # NothingSelected THEN selected ELSE next

StepsOf(states) == Computed([i \in DOMAIN states |-> ComputeNextStep(states[i])])

Reject(states, unschedulable) ==
  Computed([i \in DOMAIN states |-> [states[i] EXCEPT !.target.unschedulable =
                                       [r \in Roles |-> r \in unschedulable]]])

rescueStep(cands, states) == FirstOf(cands, states, StepsOf(states), LAMBDA state, step : step # NoStep)

\* An ordinary step of any candidate, then a reduction of the target, then a
\* bootstrap, and only then what unschedulable roles allow.
firstStep(cands, states, steps, unschedulable) ==
  LET ordinary(step) == step # NoStep /\ step.kind # Bootstrap
      shrinks(state, step) == targetRevisionScalesDown(state, step)
  IN OrSelect(FirstOf(cands, states, steps,
                      LAMBDA state, step : ordinary(step) /\ ~shrinks(state, step)),
     OrSelect(FirstOf(cands, states, steps,
                      LAMBDA state, step : ordinary(step) /\ shrinks(state, step)),
     OrSelect(FirstOf(cands, states, steps, LAMBDA state, step : step.kind = Bootstrap),
              IF unschedulable = {} THEN NothingSelected
              ELSE rescueStep(cands, Reject(states, unschedulable)))))

stepAmong(cands, states, unschedulable) == firstStep(cands, states, StepsOf(states), unschedulable)

stepOfCandidates(cands, targets, budgets, unscheduled, unschedulable) ==
  stepAmong(cands, Computed([i \in DOMAIN cands |->
                      rolloutStateForRevision(cands[i], targets, budgets, unscheduled)]), unschedulable)

selectNextRolloutStep(targets, budgets, unscheduled, unschedulable) ==
  stepOfCandidates(orderedRevisionCandidates, targets, budgets, unscheduled, unschedulable)

-----------------------------------------------------------------------------
(* What stays Ready whichever groups the issued scale-downs hit.           *)

Kept(v, r) == LET c == child[v][r]
              IN IF Live(v, r) THEN max(0, c.ready - max(0, Active(c) - c.spec)) ELSE 0

\* A revision serves when each of its roles does.
Serves(v) == \A r \in Roles : max(child[v][r].spec, child[v][r].initial) > 0 => Kept(v, r) > 0

KeptReady(r)    == SumOver(LAMBDA v : Kept(v, r), Revisions)
KeptServing(r)  == SumOver(LAMBDA v : IF Serves(v) THEN Kept(v, r) ELSE 0, Revisions)

NothingPromised == [r \in Roles |-> [ready |-> 0, serving |-> 0]]

\* A step may use up the availability budget and never more.  One fallback
\* step may take one group more, and never the last.
Promise(selected) ==
  LET config == selected.state.config
      desired == selected.state.target.desired
      floor(r) == LET f == max(0, desired[r] - config[r].maxUnavailable)
                  IN IF selected.step.kind = Fallback /\ f > 1 THEN f - 1 ELSE f
      outage == \E r \in Roles : desired[r] > 0 /\ config[r].maxUnavailable >= desired[r]
  IN [r \in Roles |-> [ready |-> min(KeptReady(r), floor(r)),
                       serving |-> IF outage THEN 0 ELSE min(KeptServing(r), floor(r))]]

-----------------------------------------------------------------------------
(* A pass: Reconcile and reconcileSlice.  A write of a lower stage goes    *)
(* first; within a stage the order is that of the role names, or of a map. *)

Write(stage, op, v, r, n) == [stage |-> stage, op |-> op, rev |-> v, role |-> r, n |-> n]

Idle == [at |-> "idle", rev |-> "none", edited |-> FALSE, todo |-> {}, transition |-> FALSE,
         complete |-> FALSE, calm |-> TRUE, promise |-> NothingPromised]

Begin(at, todo, transition, complete, promise) ==
  pass' = [at |-> at, rev |-> ds.rev, edited |-> FALSE, todo |-> todo, transition |-> transition,
           complete |-> complete, calm |-> TRUE, promise |-> promise]

\* ensureDesiredRevision, and the first half of reconcileCurrentRevisionRole.
Creates == {Write(1, "create", ds.rev, r, Desired(r)) : r \in {q \in TargetRoles : ~Live(ds.rev, q)}}

\* syncTargetInitialReplicas.
SyncInitial(targets) ==
  {Write(1, "initial", ds.rev, r, targets[r]) :
     r \in {q \in Roles : Live(ds.rev, q) /\ child[ds.rev][q].initial # targets[q]}}

\* scaleRevision.
ScaleDownTo(stage, v, n) ==
  {Write(stage, "scale", v, r, n[r]) : r \in {q \in Roles : Live(v, q) /\ n[q] < child[v][q].spec}}
ScaleUpTo(stage, v, n) ==
  {Write(stage, "scale", v, r, n[r]) : r \in {q \in Roles : Live(v, q) /\ n[q] > child[v][q].spec}}

\* Old replicas go first, then the target's surplus, and last the target grows.
applyRolloutStep(v, step) ==
  IF step.kind = Rebalance THEN ScaleDownTo(2, ds.rev, step.new)
  ELSE (IF v \in Revisions THEN ScaleDownTo(2, v, step.past) ELSE {})
       \cup (IF setup.scaleDown THEN ScaleDownTo(3, ds.rev, step.new) ELSE {})
       \cup ScaleUpTo(4, ds.rev, step.new)

\* rolloutCompletionStatus.
specComplete(targets) ==
  LET spec == observeRevision(ds.rev).spec
  IN \A r \in Roles : oldSpecs(r) = 0 /\ spec[r] >= targets[r] /\ (setup.scaleDown => spec[r] = targets[r])

\* Where the target has surplus groups, their ordinals decide whether the ones
\* that will stay are the Ready ones.
TargetReady(targets) ==
  LET rev == observeRevision(ds.rev)
  IN {answer \in BOOLEAN :
        /\ answer => \A r \in Roles : rev.ready[r] >= targets[r]
        /\ ~answer => \E r \in Roles : targets[r] > 0 /\ rev.ready[r] < rev.spec[r]}

\* Without an old replica the target takes its final size.
ownStep(state) == Selected("none", state, ComputeNextStep(state))

finalStep(targets, unscheduled) ==
  IF ~setup.scaleDown THEN NothingSelected
  ELSE ownStep(rolloutStateForRevision("none", targets, maxUnavailableAnnotation, unscheduled))

AllAcked == \A v \in Revisions, r \in Roles : Live(v, r) => child[v][r].acked

\* The condition updateStatus publishes.
AllRolesReady(d) ==
  \A r \in setup.layout[d.rev] :
    LET total(f(_)) == SumOver(LAMBDA v : f(child[v][r]), Revisions)
    IN /\ total(LAMBDA c : Active(c) + c.going) = d.desired[r]
       /\ total(LAMBDA c : c.ready) = d.desired[r]
       /\ Active(child[d.rev][r]) = d.desired[r]

\* Some native controller has not carried out the last scale: the pass waits.
PassWaits ==
  /\ pass.at = "idle" /\ ~AllAcked
  /\ remembered' = maxUnavailableAnnotation
  /\ available' = AllRolesReady(ds)
  /\ UNCHANGED <<setup, ds, child, order, pass, spent>>

StartPass ==
  /\ pass.at = "idle" /\ AllAcked
  /\ remembered' = maxUnavailableAnnotation
  /\ UNCHANGED <<setup, ds, child, order, available, spent>>

\* The target revision must be whole before anything is planned.
PassCreates ==
  /\ OldRevisions # {} /\ Creates # {}
  /\ Begin("write", Creates, TRUE, FALSE, NothingPromised)
  /\ StartPass

\* One step of a rollout: what the executor selects and finds valid.
TakeStep(selected, targets, last) ==
  IF selected.step = NoStep
  THEN Begin("write", SyncInitial(targets) \cup last, TRUE, FALSE, NothingPromised)
  ELSE IF validateUpdateStep(selected.state, selected.step)
  THEN Begin("write", SyncInitial(targets) \cup applyRolloutStep(selected.rev, selected.step),
             TRUE, FALSE, Promise(selected))
  ELSE Begin("refused", SyncInitial(targets), FALSE, FALSE, NothingPromised)

ReadAndStep(targets) ==
  /\ ~specComplete(targets)
  /\ \E unscheduled \in SUBSET MayBeAllUnscheduled, unschedulable \in {{}, targetUnschedulableRoles} :
       IF orderedRevisionCandidates # <<>>
       THEN TakeStep(selectNextRolloutStep(targets, maxUnavailableAnnotation, unscheduled, unschedulable),
                     targets, {})
       ELSE TakeStep(finalStep(targets, unscheduled), targets,
                     IF setup.scaleDown THEN {} ELSE ScaleUpTo(4, ds.rev, targets))

PassSteps ==
  /\ OldRevisions # {} /\ Creates = {}
  /\ ReadAndStep(rolloutTargetReplicas)
  /\ StartPass

PassCompletes ==
  /\ OldRevisions # {} /\ Creates = {} /\ specComplete(rolloutTargetReplicas)
  /\ \E complete \in TargetReady(rolloutTargetReplicas) :
       Begin("write", SyncInitial(rolloutTargetReplicas), TRUE, complete, NothingPromised)
  /\ StartPass

\* reconcileCurrentRevision: no old revision, the children follow the target.
PassCurrent ==
  LET targets == [r \in Roles |-> Desired(r)]
  IN /\ OldRevisions = {}
     /\ Begin("write", Creates \cup SyncInitial(targets) \cup ScaleDownTo(2, ds.rev, targets)
                       \cup ScaleUpTo(2, ds.rev, targets), FALSE, FALSE, NothingPromised)
     /\ StartPass

-----------------------------------------------------------------------------
(* The writes of a pass.                                                   *)

Due(w) == /\ pass.at # "idle" /\ w \in pass.todo
          /\ \A x \in pass.todo : w.stage <= x.stage

Done(w) == pass' = [pass EXCEPT !.todo = @ \ {w}]

SetChild(w, c) == child' = [child EXCEPT ![w.rev][w.role] = c]

\* A child starts with no replica.  While the old object of that name is being
\* deleted the creation does nothing.
Create(w) ==
  /\ Due(w) /\ w.op = "create" /\ Done(w)
  /\ IF child[w.rev][w.role].exists THEN UNCHANGED <<child, order>>
     ELSE /\ SetChild(w, [NoChild EXCEPT !.exists = TRUE, !.initial = w.n])
          /\ order' = Append(SelectSeq(order, LAMBDA v : v # w.rev), w.rev)
  /\ UNCHANGED <<setup, ds, remembered, available, spent>>

\* The annotation has to be seen before the pass may go on: it ends here (for
\* this role, in the steady state) unless the cache shows it at once.
UpdateInitialReplicas(w) ==
  /\ Due(w) /\ w.op = "initial"
  /\ SetChild(w, [child[w.rev][w.role] EXCEPT !.initial = w.n])
  /\ \/ Done(w)
     \/ /\ pass.transition
        /\ pass' = [pass EXCEPT !.todo = {}, !.complete = FALSE]
     \/ /\ ~pass.transition
        /\ pass' = [pass EXCEPT !.todo = {x \in @ : x.role # w.role}]
  /\ UNCHANGED <<setup, ds, remembered, order, available, spent>>

Scale(w) ==
  /\ Due(w) /\ w.op = "scale" /\ Done(w)
  /\ SetChild(w, [child[w.rev][w.role] EXCEPT !.spec = w.n, !.acked = FALSE])
  /\ UNCHANGED <<setup, ds, remembered, order, available, spent>>

\* Foreground deletion: the object stays until its groups are gone.
deleteInForeground(w) ==
  /\ Due(w) /\ w.op = "delete" /\ Done(w)
  /\ SetChild(w, [child[w.rev][w.role] EXCEPT !.deleting = TRUE])
  /\ UNCHANGED <<setup, ds, remembered, order, available, spent>>

\* mutant: every drained revision goes
cleanupAllDrained ==
  {Write(5, "delete", v, r, 0) : <<v, r>> \in
     {x \in (Revisions \ {pass.rev}) \X Roles : /\ Live(x[1], x[2])
                                                /\ \A q \in Roles : child[x[1]][q].spec = 0}}

\* Drained revisions go, except the newest while nothing else keeps an
\* incomplete rollout on the rollout path.
cleanupDrainedLWS ==
  LET old == {v \in Revisions \ {pass.rev} : \E r \in Roles : Live(v, r)}
      drained == {v \in old : \A r \in Roles : Live(v, r) => child[v][r].spec = 0}
      age(v) == CHOOSE i \in 1 .. Len(order) : order[i] = v
      newest == {v \in drained : \A u \in drained : age(u) <= age(v)}
      retained == IF ~pass.complete /\ drained = old THEN newest ELSE {}
  IN {Write(5, "delete", v, r, 0) : <<v, r>> \in
        {x \in (drained \ retained) \X Roles : Live(x[1], x[2])}}

Cleanup ==
  /\ pass.at = "write" /\ pass.todo = {} /\ pass.transition /\ cleanupDrainedLWS # {}
  /\ pass' = [pass EXCEPT !.at = "cleanup", !.todo = cleanupDrainedLWS]
  /\ UNCHANGED <<setup, ds, remembered, child, order, available, spent>>

\* updateStatus: refused when the DisaggregatedSet was edited meanwhile.
EndPass ==
  /\ pass.at # "idle" /\ pass.todo = {}
  /\ pass.at = "write" /\ pass.transition => cleanupDrainedLWS = {}
  /\ available' = IF pass.edited THEN available ELSE AllRolesReady(ds)
  /\ pass' = Idle
  /\ UNCHANGED <<setup, ds, remembered, child, order, spent>>

Eventful == spent.edits + spent.faults + spent.stops < MaxEvents

\* A conflict, a failed call or the end of the process.
StopPass ==
  /\ pass.at # "idle" /\ Eventful
  /\ pass' = Idle
  /\ spent' = [spent EXCEPT !.stops = @ + 1]
  /\ UNCHANGED <<setup, ds, remembered, child, order, available>>

-----------------------------------------------------------------------------
(* The children's controllers, the cluster and the user.                   *)

Env(v, r, c) ==
  /\ child' = [child EXCEPT ![v][r] = c]
  /\ UNCHANGED <<setup, ds, remembered, order, available>>

\* The child carries out its scale; any of its groups may be the ones to go.
NativeScale(v, r) ==
  LET c == child[v][r]
      surplus == max(0, Active(c) - c.spec)
  IN /\ Live(v, r) /\ ~c.acked
     /\ \E hit \in max(0, surplus - c.starting) .. min(surplus, c.ready) :
          Env(v, r, [c EXCEPT !.acked = TRUE, !.ready = @ - hit, !.going = @ + hit,
                              !.starting = @ + max(0, c.spec - Active(c)) - (surplus - hit)])
     /\ UNCHANGED <<pass, spent>>

GroupReady(v, r) ==
  LET c == child[v][r]
  IN /\ c.starting > 0 /\ ~c.deleting /\ Scheduled(r) < setup.capacity[r]
     /\ Env(v, r, [c EXCEPT !.ready = @ + 1, !.starting = @ - 1])
     /\ UNCHANGED <<pass, spent>>

GroupFail(v, r) ==
  LET c == child[v][r]
  IN /\ c.ready > 0 /\ Eventful
     /\ Env(v, r, [c EXCEPT !.ready = @ - 1, !.starting = @ + 1])
     /\ pass' = [pass EXCEPT !.calm = FALSE]
     /\ spent' = [spent EXCEPT !.faults = @ + 1]

GroupsGone(v, r) ==
  LET c == child[v][r]
  IN /\ c.going > 0
     /\ Env(v, r, [c EXCEPT !.going = 0])
     /\ UNCHANGED <<pass, spent>>

Collected(v, r) ==
  /\ child[v][r].deleting
  /\ Env(v, r, NoChild)
  /\ UNCHANGED <<pass, spent>>

Edit(new, kind) ==
  /\ new # ds /\ Eventful
  /\ ds' = new /\ pass' = [pass EXCEPT !.edited = pass.at # "idle"]
  /\ spent' = [spent EXCEPT !.edits = @ + 1, !.resized = @ \/ kind # "revision"]
  /\ UNCHANGED <<setup, remembered, child, order, available>>

NewRevision == \E v \in Revisions : Edit([ds EXCEPT !.rev = v], "revision")
NewTarget   == \E n \in Targets : Edit([ds EXCEPT !.desired = n], "target")
NewPolicy   == \E p \in Policies : Edit([ds EXCEPT !.policy = p], "policy")

-----------------------------------------------------------------------------

\* The first revision runs at its target.
Init ==
  /\ setup \in Setups
  /\ ds \in [rev : {setup.first}, desired : Targets, policy : Policies]
  /\ order = <<ds.rev>>
  /\ child = [v \in Revisions |-> [r \in Roles |->
       IF v # ds.rev \/ r \notin setup.layout[v] THEN NoChild
       ELSE [NoChild EXCEPT !.exists = TRUE, !.spec = ds.desired[r], !.initial = ds.desired[r],
                            !.ready = ds.desired[r]]]]
  /\ remembered = [r \in Roles |-> IF r \in TargetRoles
                                    THEN extractRollingUpdateConfig(Zero)[r].maxUnavailable ELSE 0]
  /\ pass = Idle
  /\ available = TRUE
  /\ spent = [edits |-> 0, faults |-> 0, stops |-> 0, resized |-> FALSE]

Writes == \E w \in pass.todo : \/ Create(w) \/ UpdateInitialReplicas(w)
                               \/ Scale(w) \/ deleteInForeground(w)

Reconcile == \/ PassWaits \/ PassCreates \/ PassSteps \/ PassCompletes \/ PassCurrent
             \/ Writes \/ Cleanup \/ EndPass

Cluster(v, r) == NativeScale(v, r) \/ GroupReady(v, r) \/ GroupsGone(v, r) \/ Collected(v, r)

Next == \/ Reconcile \/ StopPass
        \/ \E v \in Revisions, r \in Roles : Cluster(v, r) \/ GroupFail(v, r)
        \/ NewRevision \/ NewTarget \/ NewPolicy

Spec == Init /\ [][Next]_vars

\* Watch events and requeues start passes: the controller is not idle for ever
\* (a pass can always start, so this is the weak fairness of the five ways to
\* start one).  A running pass goes on; the children's controllers and the
\* kubelet make progress.
FairSpec ==
  /\ Spec
  /\ []<>~(pass.at = "idle" /\ AllAcked)
  /\ WF_vars(PassWaits) /\ WF_vars(Writes) /\ WF_vars(Cleanup) /\ WF_vars(EndPass)
  /\ \A v \in Revisions, r \in Roles :
       /\ WF_vars(NativeScale(v, r)) /\ WF_vars(GroupReady(v, r))
       /\ WF_vars(GroupsGone(v, r)) /\ WF_vars(Collected(v, r))

-----------------------------------------------------------------------------

TypeOK ==
  /\ ds \in [rev : Revisions, desired : Targets, policy : Policies]
  /\ \A v \in Revisions, r \in Roles :
       LET c == child[v][r]
       IN /\ \A n \in {c.spec, c.initial, c.ready, c.starting, c.going} : n >= 0
          /\ c.acked /\ Live(v, r) => Active(c) = c.spec
          /\ ~c.exists => c = NoChild
  /\ pass.at \in {"idle", "write", "cleanup", "refused"}
  /\ \A w \in pass.todo : w.op \in {"create", "initial", "scale", "delete"}

\* applyRolloutStep: whatever groups the children choose to delete, and
\* between any two of its writes, a step leaves every role the Ready and the
\* serving groups that its maxUnavailable asks for, or what there was before.
NoWorsening ==
  (pass.at # "idle" /\ pass.calm) =>
    \A r \in Roles : /\ KeptReady(r) >= pass.promise[r].ready
                     /\ KeptServing(r) >= pass.promise[r].serving

Surge(r) == extractRollingUpdateConfig(remembered)[r].maxSurge

RoomFor(extra) == \A r \in Roles : setup.capacity[r] >= ds.desired[r] + Surge(r) + extra

\* What a role must keep: one less, but not its last group, where a new group
\* may wait for room, if only for groups that are going, so that the fallback
\* may have been used.
Floor(r) ==
  LET floor == ds.desired[r] - extractRollingUpdateConfig(remembered)[r].maxUnavailable
      crowded == \E q \in Roles : ~RoomFor(2 * ds.desired[q] + 3)
  IN IF crowded /\ floor > 1 THEN floor - 1 ELSE floor

\* From a healthy start a whole chain of rollouts, with stops between any two
\* writes, keeps desired - maxUnavailable groups of every role that all
\* revisions have (snapshotWithUnavailableFallback: the one exception).
AvailabilityKept ==
  (spent.faults = 0 /\ ~spent.resized) =>
    \A r \in Roles : (\A v \in Revisions : r \in setup.layout[v]) => KeptReady(r) >= Floor(r)

\* A revision whose roles are all renamed is replaced by whole target groups:
\* what its role keeps, and the fraction of it that the target makes up for,
\* stay within the budget that the role had (unreplaced, readyCredit).
RenamedServed ==
  (spent.faults = 0 /\ ~spent.resized /\ spent.edits <= 1) =>
    \A r \in Roles \ TargetRoles :
      (\A v \in Revisions : r \in setup.layout[v] => setup.layout[v] \cap TargetRoles = {}) =>
        LET desired == [q \in Roles |-> Desired(q)]
            made == coordinationWindowForProgress(desired, [q \in Roles |-> Kept(ds.rev, q)])
        IN KeptReady(r) + readyCredit(made, ds.desired[r])
             >= ds.desired[r] - extractRollingUpdateConfig(remembered)[r].maxUnavailable

\* Over all revisions a role never asks for more than its target and its
\* surge, but for the one slot that each interrupted rollout may have borrowed
\* to get started (snapshotWithBootstrapSurge).
SurgeBounded ==
  ~spent.resized =>
    \A r \in Roles : SumOver(LAMBDA v : child[v][r].spec, Revisions)
                       <= ds.desired[r] + Surge(r)
                          + Cardinality({v \in OldRevisions : child[v][r].spec > 0})

\* cleanupDrainedLWS: the last old revision, which keeps the set on the rollout
\* path, goes only when every role of the target is Ready.
RolloutNotForgotten ==
  [][OldRevisions # {} /\ OldRevisions' = {} /\ ds' = ds /\ pass.calm /\ ~pass.edited =>
       \A r \in TargetRoles : child[ds.rev][r].ready >= ds.desired[r]]_vars

\* Only the current revision is left, at its target and Ready.
Settled ==
  /\ available /\ OldRevisions = {}
  /\ \A r \in TargetRoles : child[ds.rev][r].spec = ds.desired[r] /\ child[ds.rev][r].ready = ds.desired[r]

\* After the last edit and fault every rollout comes to its end, if the cluster
\* has room for the surge that the policy asks for.  A failed group needs room
\* for a borrowed slot too: the target may have taken its place.
RolloutCompletes == <>[]RoomFor(min(1, spent.faults)) => <>[]Settled
=============================================================================
