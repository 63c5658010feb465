------------------------------ MODULE Planner ------------------------------
(***************************************************************************)
(* The rollout planner of a DisaggregatedSet, without state: from the      *)
(* replica counts of one old revision (the active one), the other old      *)
(* revisions (parked) and the target revision it computes the next counts  *)
(* of the active and the target revision (ComputeNextStep in planner.go,   *)
(* planner_state.go, planner_availability.go), and the executor's own      *)
(* check of that step (validateUpdateStep in executor.go).                 *)
(*                                                                         *)
(* A slice indexed by role is a function on Roles, RequiredRoles a set of  *)
(* roles.  A revision is a record [required, spec, raw, ready]: raw counts *)
(* Ready groups, ready leaves out those already chosen for deletion.  The  *)
(* active one adds `initial`, the target `desired`, `unschedulable` and    *)
(* `allUnscheduled`.                                                       *)
(***************************************************************************)
EXTENDS Integers, FiniteSetsExt

CONSTANT Roles

max(a, b) == IF a >= b THEN a ELSE b
min(a, b) == IF a <= b THEN a ELSE b

CeilDiv(a, b) == (a + b - 1) \div b

Counts == [Roles -> Nat]
Zero   == [r \in Roles |-> 0]

\* A slice is computed once, not at every use of an element.
Computed(slice) == IF slice = slice THEN slice ELSE Zero

hasReduction(current, target) == \E r \in Roles : target[r] < current[r]

-----------------------------------------------------------------------------
(* Fractional coordination: roles advance together.                        *)

NoWindow == [least |-> 0, of |-> 0, denominator |-> 0]

\* The role that advanced least, as the fraction least/of, and the smallest
\* positive total, whose inverse is the width of the window.
coordinationWindowForProgress(totals, progress) ==
  LET counted == {r \in Roles : totals[r] > 0}
      last == CHOOSE r \in counted :
                \A q \in counted : progress[r] * totals[q] <= progress[q] * totals[r]
  IN IF counted = {} THEN NoWindow
     ELSE [least |-> progress[last], of |-> totals[last],
           denominator |-> Min({totals[r] : r \in counted})]

\* The least-ready fraction of the target, in whole replacement replicas.
readyCredit(window, replicas) ==
  IF window.of = 0 THEN 0
  ELSE (replicas * min(window.least, window.of)) \div window.of

\* mutant: strict lockstep, no window
lockstepReplicas(window, total) == IF total <= 0 THEN 0 ELSE min(total, (total * window.least) \div window.of)

maxProgressReplicasWithinWindow(window, total) ==
  LET lower == total * window.least
  IN IF total <= 0 THEN 0
     ELSE min(total, lower \div window.of
                     + ((lower % window.of) * window.denominator + total * window.of)
                       \div (window.of * window.denominator))

boundGrowingRoleTargetsToWindow(current, totals, proposed) ==
  LET Bounded(window) ==
        IF window.of = 0 THEN proposed
        ELSE [r \in Roles |-> max(current[r], min(proposed[r],
                                maxProgressReplicasWithinWindow(window, totals[r])))]
  IN Bounded(coordinationWindowForProgress(totals, proposed))

boundDrainingRoleTargetsToWindow(current, initial, proposed) ==
  LET Bounded(window) ==
        IF window.of = 0 THEN proposed
        ELSE [r \in Roles |-> min(current[r], max(proposed[r],
                max(0, initial[r] - maxProgressReplicasWithinWindow(window, initial[r]))))]
  IN Bounded(coordinationWindowForProgress(initial,
               Computed([r \in Roles |-> max(0, initial[r] - min(proposed[r], initial[r]))])))

projectBudget(total, budget, steps) ==
  IF total <= 0 \/ budget <= 0 \/ steps <= 0 THEN 0 ELSE CeilDiv(total * budget, steps)

-----------------------------------------------------------------------------
(* The snapshot a plan is made from.                                       *)

allRequiredRolesPresent(required, counts) ==
  required # {} /\ \A r \in required : counts[r] # 0

rolesOverlapTarget(required, desired) == \E r \in required : desired[r] > 0

\* Groups of an incomplete revision are Ready but serve nothing.
readiness(rev) ==
  LET serving == allRequiredRolesPresent(rev.required, rev.ready)
      rawServing == allRequiredRolesPresent(rev.required, rev.raw)
  IN [r \in Roles |-> [usable |-> IF serving THEN rev.ready[r] ELSE 0,
                       rawUsable |-> IF rawServing THEN rev.raw[r] ELSE 0,
                       perRole |-> rev.ready[r], rawPerRole |-> rev.raw[r]]]

plus(a, b) == [f \in DOMAIN a |-> a[f] + b[f]]

readyProgress(target, ready) ==
  LET window == coordinationWindowForProgress(target.desired, ready)
  IN IF allRequiredRolesPresent(target.required, ready) THEN window
     ELSE [window EXCEPT !.least = 0]

\* A required role whose budget admits zero Ready groups lets its revision stop serving.
allowsRevisionOutage(sn, required) ==
  \E r \in required : sn.target.desired[r] > 0 /\ sn.config[r].maxUnavailable >= sn.target.desired[r]

\* Only the largest old size counts, and of a removed role only where the
\* whole revision is replaced by other roles.
includeHistoricalBaseline(baseline, desired, initial, spec) ==
  LET overlaps == \E r \in Roles : initial[r] > 0 /\ desired[r] > 0
  IN IF \A r \in Roles : spec[r] = 0 THEN baseline
     ELSE [r \in Roles |-> IF desired[r] > 0 \/ ~overlaps THEN max(baseline[r], initial[r])
                           ELSE baseline[r]]

snapshotForRolloutState(state) ==
  LET desired == state.target.desired
      overlapping == {p \in DOMAIN state.parked :
                        rolesOverlapTarget(state.parked[p].required, desired)}
      activeOverlaps == rolesOverlapTarget(state.active.required, desired)
      ready == [p \in DOMAIN state.parked |-> readiness(state.parked[p])]
      counted(r) == {p \in DOMAIN state.parked : p \notin overlapping \/ desired[r] # 0}
      SumParked(n(_), revs) == MapThenSumSet(n, revs)
  IN [active |-> state.active, target |-> state.target, baseline |-> state.baseline,
      config |-> state.config, scaleDown |-> state.scaleDown,
      activeReady |-> Computed(readiness(state.active)),
      targetReady |-> Computed(readiness(state.target)),
      oldSpec |-> Computed([r \in Roles |-> state.active.spec[r]
                     + SumParked(LAMBDA p : state.parked[p].spec[r], DOMAIN state.parked)]),
      disjointSpec |-> [r \in Roles |-> (IF activeOverlaps THEN 0 ELSE state.active.spec[r])
                     + SumParked(LAMBDA p : state.parked[p].spec[r],
                                 DOMAIN state.parked \ overlapping)],
      parkedReady |-> [r \in Roles |->
                        [f \in {"usable", "rawUsable", "perRole", "rawPerRole"} |->
                           SumParked(LAMBDA p : ready[p][r][f], counted(r))]],
      activeOverlaps |-> activeOverlaps,
      progress |-> readyProgress(state.target, state.target.ready)]

excludesActive(sn, r) == sn.activeOverlaps /\ sn.target.desired[r] = 0

oldReady(sn, r) ==
  IF excludesActive(sn, r) THEN sn.parkedReady[r] ELSE plus(sn.parkedReady[r], sn.activeReady[r])

\* What of a removed role the target has not replaced yet.
unreplaced(sn, r) ==
  IF sn.target.desired[r] # 0 \/ sn.progress.of = 0 THEN 0
  ELSE sn.baseline[r] - readyCredit(sn.progress, sn.baseline[r])

\* mutant: the sizes are added up
surgeCeilingOfBoth(sn, r) == sn.config[r].maxSurge + sn.target.desired[r] + sn.active.initial[r]

surgeCeiling(sn, r) ==
  sn.config[r].maxSurge
  + IF sn.scaleDown THEN sn.target.desired[r]
    ELSE max(sn.target.desired[r], sn.active.initial[r])

\* mutant: the floor is one too low
availabilityFloorOffByOne(sn, r) ==
  max(0, max(sn.target.desired[r], unreplaced(sn, r)) - sn.config[r].maxUnavailable - 1)

\* mutant: renamed roles have no floor
availabilityFloorOfTarget(sn, r) == max(0, sn.target.desired[r] - sn.config[r].maxUnavailable)

availabilityFloor(sn, r) ==
  max(0, max(sn.target.desired[r], unreplaced(sn, r)) - sn.config[r].maxUnavailable)

Disjoint(sn) == \E r \in Roles : unreplaced(sn, r) > 0

demandExceedsOldBaseline(sn) == \E r \in Roles : sn.target.desired[r] > sn.baseline[r]

-----------------------------------------------------------------------------
(* Draining: what of a revision must stay.                                 *)

\* drainBudget(false) is oldDrain, drainBudget(true) is targetDrain.
drainBudget(sn, ofTarget) ==
  LET rev == IF ofTarget THEN sn.target ELSE sn.active
      ready == IF ofTarget THEN sn.targetReady ELSE sn.activeReady
      desired == sn.target.desired
  IN [required |-> rev.required, spec |-> rev.spec, ready |-> rev.ready,
      allowOutage |-> ~ofTarget /\ allowsRevisionOutage(sn, rev.required),
      roles |-> Computed([r \in Roles |->
        LET old == oldReady(sn, r)
            observed == plus(old, sn.targetReady[r])
            others == IF ofTarget THEN old ELSE plus(sn.parkedReady[r], sn.targetReady[r])
        IN [serving |-> ready[r].usable,
            observed |-> [serving |-> observed.rawUsable, individual |-> observed.rawPerRole],
            replacement |-> [serving |-> others.usable, individual |-> others.perRole],
            floor |-> IF ofTarget /\ rev.spec[r] = 0
                      THEN max(0, desired[r] - sn.config[r].maxUnavailable)
                      ELSE availabilityFloor(sn, r),
            excluded |-> ~ofTarget /\ excludesActive(sn, r)]])]

minimumSpecToPreserveReady(spec, ready, required) ==
  IF required = 0 THEN 0 ELSE max(0, spec - max(0, ready - required))

\* Every requested deletion may hit a Ready group; a revision that loses a
\* required role serves nothing.
servingAfter(budget, remaining) ==
  LET Complete(after) == IF /\ allRequiredRolesPresent(budget.required, remaining)
                            /\ \A r \in budget.required : after[r] > 0
                         THEN after ELSE Zero
  IN Complete(Computed([r \in Roles |->
       max(0, budget.roles[r].serving - (budget.spec[r] - remaining[r]))]))

preserves(budget, remaining) ==
  LET removed(r) == budget.spec[r] - remaining[r]
      kept(r) == max(0, budget.ready[r] - removed(r))
      Enough(serving) ==
        \A r \in Roles : LET role == budget.roles[r] IN ~role.excluded =>
          /\ \/ budget.allowOutage
             \/ removed(r) = 0 /\ serving[r] > 0
             \/ role.replacement.serving + serving[r] >= min(role.observed.serving, role.floor)
          /\ \/ removed(r) <= 0
             \/ role.replacement.individual + kept(r) >= min(role.observed.individual, role.floor)
  IN hasReduction(budget.spec, remaining) => Enough(servingAfter(budget, remaining))

\* A reduction that the budget does not admit is not made at all.
OnlyIfPreserved(budget, targets) == IF preserves(budget, targets) THEN targets ELSE budget.spec

minimumTargets(budget) ==
  LET missing(r, kind) == LET role == budget.roles[r]
                          IN max(0, min(role.observed[kind], role.floor) - role.replacement[kind])
      mayStop(r) == budget.roles[r].excluded \/ budget.allowOutage
      serving(r, needed) == IF /\ \E q \in Roles : needed[q] > 0
                               /\ r \in budget.required /\ budget.spec[r] > 0
                            THEN max(1, needed[r]) ELSE needed[r]
      individual(r) == IF budget.roles[r].excluded THEN 0 ELSE missing(r, "individual")
      Minimum(needed) ==
        [r \in Roles |->
          max(minimumSpecToPreserveReady(budget.spec[r], budget.roles[r].serving, serving(r, needed)),
              minimumSpecToPreserveReady(budget.spec[r], budget.ready[r], individual(r)))]
  IN IF preserves(budget, Zero) THEN Zero
     ELSE Minimum(Computed([r \in Roles |-> IF mayStop(r) THEN 0 ELSE missing(r, "serving")]))

\* Surviving required roles of a revision retire together.
boundOldTargetsByRevisionCompleteness(current, proposed, required) ==
  LET surviving == {r \in required : current[r] > 0}
  IN IF \E r \in surviving : proposed[r] > 0
     THEN [r \in Roles |-> IF r \in surviving THEN max(1, proposed[r]) ELSE proposed[r]]
     ELSE proposed

boundDrainingSnapshotTargets(sn, proposed) ==
  LET old == sn.active
      excess(r) == max(0, sn.oldSpec[r] + sn.target.spec[r] - surgeCeiling(sn, r))
      ReleaseExcess(bounded) ==
        [r \in Roles |-> IF (sn.scaleDown \/ demandExceedsOldBaseline(sn)) /\ sn.target.desired[r] > 0
                         THEN min(bounded[r], max(proposed[r], old.spec[r] - excess(r)))
                         ELSE bounded[r]]
  IN ReleaseExcess(Computed(boundDrainingRoleTargetsToWindow(old.spec, old.initial, proposed)))

completeOldTargets(sn, targets) ==
  IF allowsRevisionOutage(sn, sn.active.required) THEN targets
  ELSE boundOldTargetsByRevisionCompleteness(sn.active.spec, targets, sn.active.required)

furthestDrain(sn, budget) ==
  OnlyIfPreserved(budget, Computed(boundDrainingSnapshotTargets(sn, Computed(completeOldTargets(sn,
                    Computed(boundDrainingSnapshotTargets(sn, Computed(minimumTargets(budget)))))))))

furthestOldTargets(sn) == furthestDrain(sn, drainBudget(sn, FALSE))

-----------------------------------------------------------------------------
(* Growing the target revision.                                            *)

targetReplicasForActiveRevision(sn) ==
  [r \in Roles |->
    LET desired == sn.target.desired[r]
        residual == desired - (IF Disjoint(sn) THEN 0 ELSE sn.parkedReady[r].usable)
    IN max(sn.target.spec[r], IF desired > 0 THEN max(1, residual) ELSE residual)]

\* Renamed roles: old roles the target does not have and has not replaced.
ReplacesOldRoles(sn) == \E r \in Roles : unreplaced(sn, r) > 0 /\ sn.disjointSpec[r] > 0

\* How far the replaced roles have really been reduced.
disjointGrowthLimits(sn) ==
  LET removed == {r \in Roles : unreplaced(sn, r) > 0}
      progress == coordinationWindowForProgress(
                    [r \in Roles |-> IF r \in removed THEN sn.baseline[r] ELSE 0],
                    [r \in Roles |-> max(0, sn.baseline[r] - sn.disjointSpec[r])])
      started == \E r \in removed : sn.baseline[r] > sn.disjointSpec[r]
      limit(r) == CeilDiv(sn.target.desired[r] * progress.least, progress.of) + sn.config[r].maxSurge
  IN [r \in Roles |-> IF started /\ sn.target.desired[r] > 0 THEN max(1, limit(r)) ELSE limit(r)]

\* Surge, what may be pending at once, and the replacement of renamed roles.
hardNewReplicaLimits(sn) ==
  LET released == disjointGrowthLimits(sn)
      progress == coordinationWindowForProgress(sn.target.desired, sn.target.ready)
      base(r) == max(sn.active.initial[r], sn.target.desired[r])
      steps == Max({base(r) : r \in Roles})
      credit(r) == IF Disjoint(sn) /\ progress.of > 0 THEN readyCredit(progress, sn.target.desired[r])
                   ELSE sn.target.ready[r]
      surge(r) == surgeCeiling(sn, r) - sn.oldSpec[r]
      pending(r) == IF sn.oldSpec[r] <= 0 /\ ~Disjoint(sn) THEN surge(r)
                    ELSE min(surge(r), credit(r) + projectBudget(base(r),
                           sn.config[r].maxSurge + sn.config[r].maxUnavailable, steps))
      replacement(r) == IF progress.of > 0 /\ progress.least > 0
                        THEN max(released[r], credit(r) + 1) ELSE released[r]
      first(r) == IF progress.of > 0 /\ progress.least = 0 THEN 1 ELSE sn.target.desired[r]
      limit(r) == IF ~ReplacesOldRoles(sn) THEN pending(r)
                  ELSE min(min(pending(r), replacement(r)), first(r))
  IN [r \in Roles |-> max(sn.target.spec[r], min(sn.target.desired[r], limit(r)))]

furthestNewTargets(sn, phase, limits) ==
  boundGrowingRoleTargetsToWindow(sn.target.spec, phase, [r \in Roles |-> min(phase[r], limits[r])])

-----------------------------------------------------------------------------
(* Scaling the target down, and reclaiming its surplus.                    *)

\* The target fraction still needed once pending old deletions are done.
disjointTargetReadyFraction(sn) ==
  LET progress == readyProgress(sn.target, sn.target.raw)
      removed == IF progress.of = 0 THEN {}
                 ELSE {r \in Roles : sn.target.desired[r] = 0 /\ sn.baseline[r] > 0}
      needed(r) == max(0, min(oldReady(sn, r).rawUsable + sn.targetReady[r].rawUsable
                                + readyCredit(progress, sn.baseline[r]),
                              max(0, sn.baseline[r] - sn.config[r].maxUnavailable))
                          - oldReady(sn, r).usable)
      most == CHOOSE r \in removed : \A q \in removed :
                needed(r) * sn.baseline[q] >= needed(q) * sn.baseline[r]
  IN IF removed = {} THEN [numerator |-> 0, denominator |-> 1]
     ELSE [numerator |-> needed(most), denominator |-> sn.baseline[most]]

\* The least the target may be scaled down to.
targetScaleDownBounds(sn) ==
  LET target == sn.target
      minimum == Computed(minimumTargets(drainBudget(sn, TRUE)))
      fraction == disjointTargetReadyFraction(sn)
      required(r) == min(target.raw[r], CeilDiv(target.desired[r] * fraction.numerator,
                                                fraction.denominator))
      byReady(r) == max(minimum[r], minimumSpecToPreserveReady(target.spec[r], target.ready[r],
                                                               required(r)))
      starting(r) == ~target.allUnscheduled[r] \/ target.raw[r] > 0 \/ target.ready[r] > 0
  IN [r \in Roles |-> IF starting(r) THEN max(byReady(r), min(target.spec[r], target.desired[r]))
                      ELSE byReady(r)]

furthestTargetScaleDownTargets(sn) ==
  LET target == sn.target
      ceiling(r) == IF sn.oldSpec[r] > 0
                    THEN min(target.spec[r],
                             max(0, target.desired[r] + sn.config[r].maxSurge - sn.oldSpec[r]))
                    ELSE target.desired[r]
      atLeastOne(r) == IF r \in target.required /\ target.spec[r] > 0 THEN 1 ELSE 0
      Lowered(minimum) == [r \in Roles |->
                            IF target.spec[r] <= target.desired[r] THEN target.spec[r]
                            ELSE max(max(atLeastOne(r), ceiling(r)), minimum[r])]
  IN OnlyIfPreserved(drainBudget(sn, TRUE), Computed(Lowered(Computed(targetScaleDownBounds(sn)))))

targetScaleDownPreservesAvailability(sn, targets) ==
  LET Preserved(drainsOnly, minimum) == /\ \A r \in Roles : drainsOnly[r] >= minimum[r]
                                        /\ preserves(drainBudget(sn, TRUE), drainsOnly)
  IN Preserved(Computed([r \in Roles |-> min(targets[r], sn.target.spec[r])]),
               Computed(targetScaleDownBounds(sn)))

-----------------------------------------------------------------------------
(* One step.                                                               *)

Ordinary  == "OrdinaryStep"
Bootstrap == "BootstrapSurgeStep"
Fallback  == "UnavailableFallbackStep"
Rebalance == "TargetRebalanceStep"

Step(past, new, kind) == [past |-> past, new |-> new, kind |-> kind]
NoStep == Step(Zero, Zero, "none")

\* Old capacity gets the first chance to shrink; target and old never together.
ordinaryStep(sn, phase, limits) ==
  LET Combined(past, grown, shrunk) ==
        Step(past, [r \in Roles |-> IF /\ sn.scaleDown /\ past = sn.active.spec
                                       /\ shrunk[r] < sn.target.spec[r]
                                    THEN shrunk[r] ELSE grown[r]], Ordinary)
  IN Combined(Computed(furthestOldTargets(sn)), Computed(furthestNewTargets(sn, phase, limits)),
              Computed(furthestTargetScaleDownTargets(sn)))

rolloutPlan(sn, phase, limits) ==
  [snapshot |-> sn, phase |-> phase, limits |-> limits, ordinary |-> ordinaryStep(sn, phase, limits)]

planForSnapshot(sn) == rolloutPlan(sn, Computed(targetReplicasForActiveRevision(sn)),
                                   Computed(hardNewReplicaLimits(sn)))

prepareRolloutPlan(state) == planForSnapshot(snapshotForRolloutState(state))

changes(plan, step) ==
  step.past # plan.snapshot.active.spec \/ step.new # plan.snapshot.target.spec

disjointSurplusStep(sn) ==
  LET target == sn.target
      keepReady(r) == minimumSpecToPreserveReady(target.spec[r], target.ready[r],
                                                 min(1, target.ready[r]))
      Reclaimed(limits, minimum) ==
        [r \in Roles |-> min(target.spec[r], Max({limits[r], min(1, target.spec[r]),
                                                  keepReady(r), minimum[r]}))]
      StepTo(next) == IF next # target.spec /\ preserves(drainBudget(sn, TRUE), next)
                      THEN Step(sn.active.spec, next, Rebalance) ELSE NoStep
  IN IF /\ ReplacesOldRoles(sn)
        /\ ~allRequiredRolesPresent(target.required, target.ready)
        /\ \A r \in Roles : target.desired[r] = 0 \/ sn.baseline[r] = 0
     THEN StepTo(Computed(Reclaimed(disjointGrowthLimits(sn), targetScaleDownBounds(sn))))
     ELSE NoStep

\* A first group, or a Ready role stopped by the surge ceiling, may borrow a slot.
bootstrapRoles(plan) ==
  LET sn == plan.snapshot
      budget(r) == sn.config[r].maxSurge + sn.config[r].maxUnavailable
      blocked(r) == /\ sn.scaleDown \/ demandExceedsOldBaseline(sn)
                    /\ sn.oldSpec[r] + sn.target.spec[r] = surgeCeiling(sn, r)
                    /\ sn.target.ready[r] >= sn.target.spec[r]
  IN {r \in Roles : /\ ~(ReplacesOldRoles(sn) /\ sn.oldSpec[r] = 0)
                    /\ budget(r) > 0
                    /\ plan.phase[r] > sn.target.spec[r]
                    /\ plan.limits[r] = sn.target.spec[r]
                    /\ sn.target.spec[r] = 0 \/ blocked(r)}

snapshotWithBootstrapSurge(plan) ==
  LET surge(sn, r) == sn.config[r].maxSurge + max(1, sn.oldSpec[r] - surgeCeiling(sn, r) + 1)
      Borrow(sn, roles) ==
        [sn EXCEPT !.config = [r \in Roles |-> IF r \in roles
                                               THEN [@[r] EXCEPT !.maxSurge = surge(sn, r)] ELSE @[r]]]
  IN Borrow(plan.snapshot, bootstrapRoles(plan))

bootstrapGrowth(sn, phase) == Computed(furthestNewTargets(sn, phase, Computed(hardNewReplicaLimits(sn))))

bootstrapStep(plan) ==
  LET IfChanged(step) == IF changes(plan, step) THEN step ELSE NoStep
  IN IF bootstrapRoles(plan) = {} THEN NoStep
     ELSE IfChanged(Step(plan.ordinary.past,
                         bootstrapGrowth(snapshotWithBootstrapSurge(plan), plan.phase), Bootstrap))

\* One more unavailable replica, never down to a floor of zero.
snapshotWithUnavailableFallback(sn) ==
  [sn EXCEPT !.config = [r \in Roles |-> IF availabilityFloor(sn, r) > 1
                                         THEN [@[r] EXCEPT !.maxUnavailable = @ + 1] ELSE @[r]]]

drainsOverSurgeUnschedulableRole(sn, past) ==
  \E r \in Roles : /\ sn.target.unschedulable[r]
                   /\ sn.oldSpec[r] + sn.target.spec[r] > surgeCeiling(sn, r)
                   /\ past[r] < sn.active.spec[r]

fallbackStep(sn) ==
  LET Drain(past) == IF drainsOverSurgeUnschedulableRole(sn, past)
                     THEN Step(past, sn.target.spec, Fallback) ELSE NoStep
  IN Drain(Computed(furthestOldTargets(snapshotWithUnavailableFallback(sn))))

OrElse(step, next) == IF step # NoStep THEN step ELSE next

nextStep(plan) ==
  IF changes(plan, plan.ordinary) THEN plan.ordinary
  ELSE OrElse(disjointSurplusStep(plan.snapshot),
              OrElse(bootstrapStep(plan), fallbackStep(plan.snapshot)))

ComputeNextStep(state) == nextStep(prepareRolloutPlan(state))

-----------------------------------------------------------------------------
(* The executor checks the planner's step before it applies it.            *)

targetRevisionScalesDown(state, step) == hasReduction(state.target.spec, step.new)

validateStepStructure(state, step) ==
  \/ allowsRevisionOutage(state, state.active.required)
  \/ step.past = boundOldTargetsByRevisionCompleteness(state.active.spec, step.past,
                                                       state.active.required)

\* A recovery step must be applicable and necessary.
fallbackNecessary(plan, step, fallback) ==
  /\ bootstrapStep(plan) = NoStep
  /\ step.past = furthestOldTargets(fallback)
  /\ step.new = plan.snapshot.target.spec
  /\ drainsOverSurgeUnschedulableRole(fallback, step.past)

boundsForStepOK(plan, step) ==
  /\ step.kind # Ordinary => ~changes(plan, plan.ordinary)
  /\ step.kind = Bootstrap => bootstrapRoles(plan) # {}
  /\ step.kind = Fallback => fallbackNecessary(plan, step, snapshotWithUnavailableFallback(plan.snapshot))

\* The snapshot with the budgets that a step of this kind has.
boundsForStep(plan, step) ==
  CASE step.kind = Bootstrap -> snapshotWithBootstrapSurge(plan)
    [] step.kind = Fallback -> snapshotWithUnavailableFallback(plan.snapshot)
    [] OTHER -> plan.snapshot

validateTargets(plan, step, bounds) ==
  LET current == plan.snapshot.target.spec
      PacedGrowth(growth) == boundGrowingRoleTargetsToWindow(current, plan.phase, growth) = growth
      Within(limits) == \A r \in Roles : step.new[r] \in min(current[r], plan.ordinary.new[r])
                                                         .. min(limits[r], plan.phase[r])
  IN /\ boundDrainingSnapshotTargets(plan.snapshot, step.past) = step.past
     /\ PacedGrowth([r \in Roles |-> max(step.new[r], current[r])])
     /\ \A r \in Roles : step.past[r] \in 0 .. plan.snapshot.active.spec[r]
     /\ Within(IF step.kind = Bootstrap THEN Computed(hardNewReplicaLimits(bounds)) ELSE plan.limits)
     /\ (step.kind = Bootstrap)
          <=> \E r \in Roles : step.new[r] > min(plan.limits[r], plan.phase[r])
     /\ changes(plan, step)

validateRebalance(plan, step) ==
  /\ disjointSurplusStep(plan.snapshot) = step
  /\ targetScaleDownPreservesAvailability(plan.snapshot, step.new)

validateBounds(plan, step, bounds) ==
  /\ boundsForStepOK(plan, step)
  /\ validateTargets(plan, step, bounds)
  /\ preserves(drainBudget(bounds, FALSE), step.past)

validateTargetReduction(plan, step) ==
  targetRevisionScalesDown(plan.snapshot, step) =>
    /\ plan.snapshot.scaleDown /\ step.past = plan.snapshot.active.spec
    /\ targetScaleDownPreservesAvailability(plan.snapshot, step.new)

validatePlan(plan, step) ==
  IF step.kind = Rebalance THEN validateRebalance(plan, step)
  ELSE validateBounds(plan, step, boundsForStep(plan, step)) /\ validateTargetReduction(plan, step)

validateUpdateStep(state, step) ==
  validateStepStructure(state, step) /\ validatePlan(prepareRolloutPlan(state), step)
=============================================================================
