------------------------------ MODULE SubRoles ------------------------------
(***************************************************************************)
(* Sub-roles of one child LeaderWorkerSet (subrole_groups.go): its groups  *)
(* carry the label of the sub-role they serve, and the DisaggregatedSet    *)
(* controller moves groups between sub-roles, and scales the               *)
(* LeaderWorkerSet, so that every sub-role gets its count.  What has been  *)
(* issued, what is being changed to and how many Ready groups each         *)
(* sub-role must keep meanwhile are annotations of the LeaderWorkerSet:    *)
(* every pass starts from them and from the observer's snapshot.           *)
(*                                                                         *)
(* Sub-roles are numbered in the order of their names; 0 is no label.  A   *)
(* count map is a function on some of them; <<>> is a nil map.  Each pass  *)
(* (syncSubRoles) is one action that makes any prefix of its pod patches,  *)
(* the rest being lost to a failure or a stop, and its LeaderWorkerSet     *)
(* write after the last one.  The controller knows its own writes to the   *)
(* LeaderWorkerSet (ChildWrites); pods and native workloads are read from  *)
(* caches that lag when `setup` says so.                                   *)
(***************************************************************************)
EXTENDS ReplicaGroups, Sequences, SequencesExt, TLC

CONSTANTS
  NumSubRoles,  \* sub-roles are 1 .. NumSubRoles
  Slots,        \* ordinals, or leader UIDs
  Setups,       \* [hash, lag]: the group identity, whether caches lag;
                \* [edits, faults, stops]: how many of each there may be
  Initials,     \* replicas before sub-roles are introduced
  Requests,     \* [counts, steady]: what the DisaggregatedSet asks for
  Costs         \* deletion costs a new leader may have ("none" or its own)

SubRole == 1 .. NumSubRoles

ASSUME SlotsAssumption == Slots = 0 .. Cardinality(Slots) - 1

VARIABLES
  setup,    \* identity and caches, fixed
  request,  \* what the DisaggregatedSet wants of this LeaderWorkerSet
  lws,      \* its spec, annotations and observed generation
  native,   \* leader StatefulSet, or Deployment and ReplicaSet
  groups,   \* the cluster's groups
  nativeView, groupsView,  \* the informer caches
  passes,   \* passes of the controller, modulo 2, to say that they go on
  edits, faults, stops

vars == <<setup, request, lws, native, groups, nativeView, groupsView, passes, edits, faults, stops>>
bounds == <<edits, faults, stops>>

NoCounts == <<>>
NoPlan   == [counts |-> NoCounts, floor |-> NoCounts]
At(counts, c) == IF c \in DOMAIN counts THEN counts[c] ELSE 0
Total(counts) == MapThenSumSet(LAMBDA c : counts[c], DOMAIN counts)
Before(counts, c) == MapThenSumSet(LAMBDA d : counts[d], {d \in DOMAIN counts : d < c})

TypeOK ==
  LET CountMap == UNION {[D -> 0 .. Cardinality(Slots)] : D \in SUBSET (0 .. NumSubRoles)}
      Native == [replicas : 0 .. Cardinality(Slots), rs : 0 .. Cardinality(Slots),
                 acked : BOOLEAN, rsAcked : BOOLEAN, count : 0 .. Cardinality(Slots)]
      Group == [phase : Phases, leader : 0 .. NumSubRoles, worker : 0 .. NumSubRoles,
                cost : {"none", "own", "lowest"}, saved : {"no", "none", "own"}]
  IN /\ setup \in Setups /\ request \in Requests
     /\ lws \in [replicas : 0 .. Cardinality(Slots), applied : BOOLEAN, issued : CountMap,
                 initial : CountMap, initialReplicas : 0 .. Cardinality(Slots),
                 plan : [counts : CountMap, floor : CountMap]]
     /\ native \in Native /\ nativeView \in Native
     /\ groups \in [Slots -> Group] /\ groupsView \in [Slots -> Group]
     /\ passes \in 0 .. 1 /\ edits \in 0 .. setup.edits /\ faults \in 0 .. setup.faults /\ stops \in 0 .. setup.stops

NewGroup(phase, cost) == [AbsentGroup EXCEPT !.phase = phase, !.cost = cost]

\* An ordinary LeaderWorkerSet at rest, before its groups have sub-roles.
Init ==
  /\ setup \in Setups /\ request \in Requests
  /\ \E n \in Initials :
       /\ lws = [replicas |-> n, applied |-> TRUE, issued |-> NoCounts, initial |-> NoCounts,
                 initialReplicas |-> n, plan |-> NoPlan]
       /\ native = [replicas |-> n, acked |-> TRUE, rs |-> n, rsAcked |-> TRUE, count |-> n]
       /\ groups = [g \in Slots |-> IF g < n THEN NewGroup("ready", "none") ELSE AbsentGroup]
  /\ nativeView = native /\ groupsView = groups
  /\ passes = 0 /\ edits = 0 /\ faults = 0 /\ stops = 0

NativeSeen == IF setup.lag THEN nativeView ELSE native
GroupsSeen == IF setup.lag THEN groupsView ELSE groups

-----------------------------------------------------------------------------
(* Assignments *)

\* As much of each count as fits, in name order; what is left goes to the first.
fitSubRoles(counts, total) ==
  [c \in DOMAIN counts |->
     Smaller(counts[c], Larger(0, total - Before(counts, c)))
       + (IF c = Min(DOMAIN counts) THEN Larger(0, total - Total(counts)) ELSE 0)]

Coherent(group) == group.leader = group.worker

Kept(seen, G, target) ==
  {g \in G : Cardinality({h \in G : h <= g /\ seen[h].leader = seen[g].leader})
               <= At(target, seen[g].leader)}

Minus(counts, assigned) ==
  [c \in DOMAIN counts |-> counts[c] - Cardinality({g \in DOMAIN assigned : assigned[g] = c})]

\* The groups `free`, in order, take the missing places in name order.
Fill(free, missing) ==
  LET place(g) == Cardinality({h \in free : h <= g})
  IN [g \in {f \in free : place(f) <= Total(missing)} |->
        Min({c \in DOMAIN missing : place(g) <= Before(missing, c) + missing[c]})]

KeepAndFill(G, target, kept) == kept @@ Fill(G \ DOMAIN kept, Minus(target, kept))

\* Keep known leader labels up to each target, then fill deficits in name order.
\* The result maps the assigned slots of G to their sub-roles.
stickySubRoleAssignments(seen, G, target) ==
  KeepAndFill(G, target, [g \in Kept(seen, G, target) |-> seen[g].leader])

\* The places left over go to more groups of G.
Extend(seen, G, counts, assigned) ==
  assigned @@ stickySubRoleAssignments(seen, G \ DOMAIN assigned, Minus(counts, assigned))

ReadyIn(seen, G) == {g \in G : Eligible(seen[g])}

\* mutant: known labels are kept whatever the floors are
StickyOnly(seen, G, counts, floor) == stickySubRoleAssignments(seen, G, counts)

\* Reserve every Ready floor, then give Ready groups the other places first.
readySubRoleAssignments(seen, G, counts, floor) ==
  Extend(seen, G, counts,
    Extend(seen, ReadyIn(seen, G), counts,
      stickySubRoleAssignments(seen, ReadyIn(seen, G), floor)))

\* Otherwise readySubRoleAssignments returns nil.
FloorsMet(seen, G, floor) ==
  Cardinality(DOMAIN stickySubRoleAssignments(seen, ReadyIn(seen, G), floor)) = Total(floor)

\* Ready groups of a sub-role: a group whose labels disagree serves none.
ReadyOf(seen, c) == {g \in Slots : Eligible(seen[g]) /\ Coherent(seen[g]) /\ seen[g].leader = c}

\* mutant: the reduction is not taken off the floors
FullFloors(issued, counts, seen) ==
  [c \in {seen[g].leader : g \in UNION {ReadyOf(seen, d) : d \in 0 .. NumSubRoles}} |->
     Cardinality(ReadyOf(seen, c))]

\* A reduction of N may cost a sub-role at most N of the groups Ready now; the
\* floors are saved once, so that a retry does not spend the allowance again.
startSubRolePlan(issued, counts, seen) ==
  [c \in {seen[g].leader : g \in UNION {ReadyOf(seen, d) : d \in 0 .. NumSubRoles}} |->
     Larger(0, Cardinality(ReadyOf(seen, c)) - Larger(0, At(issued, c) - At(counts, c)))]

-----------------------------------------------------------------------------
(* A pass: the patches it makes, in order, the LeaderWorkerSet it then     *)
(* writes, and whether it ends with errReplicaGroupsPending.               *)

Pass(patches, after, pending) == [patches |-> patches, lws |-> after, pending |-> pending]
Wait == Pass(<<>>, lws, TRUE)

\* saveSubRoles: one conditional write of all counts and the matching replicas;
\* a write ends the pass, so that the next one sees it.
Save(patches, after) ==
  LET replicas == IF after.issued = NoCounts THEN after.replicas ELSE Total(after.issued)
      written  == [after EXCEPT !.replicas = replicas,
                                !.applied = @ /\ replicas = lws.replicas,
                                !.initialReplicas = IF after.initial = NoCounts THEN @
                                                    ELSE Total(after.initial)]
  IN Pass(patches, written, patches # <<>> \/ written # lws)

\* Workers first, leader last, skipping pods that have the label.
labelSubRoleGroup(seen, g, name) ==
  SelectSeq(<<[pod |-> "worker", group |-> g, value |-> name],
              [pod |-> "leader", group |-> g, value |-> name]>>,
            LAMBDA p : seen[p.group][p.pod] # name)

\* The patches of several groups, in the snapshot's order.
Label(seen, G, name(_)) ==
  FoldLeft(LAMBDA acc, g : acc \o labelSubRoleGroup(seen, g, name(g)), <<>>,
           SetToSortSeq(G, LAMBDA a, b : a < b))

Target   == IF lws.plan = NoPlan THEN lws.issued ELSE lws.plan.counts
Removing == 0 \in DOMAIN Target
\* Hash: the counts of the plan have not been published as a scale yet.
Preparing == lws.plan # NoPlan /\ lws.issued # lws.plan.counts

\* Survivors of the scale-down are the ordinals below it: a hole never pulls a
\* higher group into the prefix.
subRolePrefix(seen, count) == {g \in Observed(seen) : g < count}

\* The plan is carried out, or sub-roles are removed: the counts it asked for
\* are issued, and with them the replicas.
Finish(patches) ==
  Save(patches, IF Removing THEN [lws EXCEPT !.issued = NoCounts, !.initial = NoCounts, !.plan = NoPlan]
                ELSE [lws EXCEPT !.issued = lws.plan.counts, !.plan = NoPlan])

Misplaced(seen, G, assigned) == {g \in G : seen[g].leader # At(assigned, g)}

Movable(seen, wrong) ==
  {g \in wrong : Eligible(seen[g]) =>
     Cardinality(ReadyOf(seen, seen[g].leader)) > At(lws.plan.floor, seen[g].leader)}

\* mutant: the outgoing groups keep their labels
KeepOutgoing(seen, assigned) == <<>>

Outgoing(seen, assigned) == Label(seen, Observed(seen) \ DOMAIN assigned, LAMBDA g : 0)

\* One survivor moves per pass, never a Ready one its sub-role cannot spare;
\* only then is the routing of the outgoing groups cleared and the scale issued.
MoveOrFinish(seen, prefix, assigned, canAssign) ==
  LET wrong   == Misplaced(seen, prefix, assigned)
      movable == IF canAssign THEN Movable(seen, wrong) ELSE {}
  IN CASE wrong # {} /\ movable = {} -> Wait
       [] movable # {} -> Pass(labelSubRoleGroup(seen, Min(movable), assigned[Min(movable)]), lws, TRUE)
       [] wrong = {} /\ lws.plan # NoPlan -> Finish(Outgoing(seen, assigned))
       [] OTHER -> Pass(Outgoing(seen, assigned), lws,
                        ~(lws.applied /\ NativeSeen.acked /\ NativeSeen.replicas = lws.replicas))

\* mutant: the label of a new group waits for health like any other move
HalfWritten(seen, assigned) == {g \in Observed(seen) : ~Coherent(seen[g])}

\* Labels left half-written, and those of new groups, come before any gate on
\* health: a group may need its label to become Ready.
Unlabelled(seen, assigned) ==
  {g \in Observed(seen) : ~Coherent(seen[g]) \/ (g \in DOMAIN assigned /\ seen[g].leader = 0)}

\* With a plan the saved floors have to be met, without one every survivor has
\* to be Ready before any is moved.
AssignSurvivors(seen, prefix, complete, sticky) ==
  CASE lws.plan = NoPlan ->
         MoveOrFinish(seen, prefix, sticky,
           complete /\ RetainedReady(FALSE, lws, NativeSeen, seen, prefix) = Cardinality(prefix))
    [] lws.plan # NoPlan /\ complete /\ FloorsMet(seen, prefix, lws.plan.floor) ->
         MoveOrFinish(seen, prefix, readySubRoleAssignments(seen, prefix, Target, lws.plan.floor), TRUE)
    [] OTHER -> Wait

LabelThenAssign(seen, prefix, complete, sticky) ==
  IF Unlabelled(seen, sticky) # {}
  THEN Pass(Label(seen, Unlabelled(seen, sticky), LAMBDA g : At(sticky, g)), lws, TRUE)
  ELSE AssignSurvivors(seen, prefix, complete, sticky)

\* syncSubRoleAssignments for Ordinal identity
OrdinalAssignments(seen) ==
  LET survivors == Smaller(lws.replicas, Total(Target))
      prefix    == subRolePrefix(seen, survivors)
  IN CASE ~DeletionsObserved(FALSE, lws, NativeSeen, seen) -> Wait
       [] DeletionsObserved(FALSE, lws, NativeSeen, seen) /\ Removing -> MoveOrFinish(seen, {}, <<>>, TRUE)
       [] OTHER -> LabelThenAssign(seen, prefix, Cardinality(prefix) = survivors,
                                   stickySubRoleAssignments(seen, prefix, Target))

\* hashSubRoleNativeAcknowledged.  allowMissing: acknowledged creation may be
\* short (quota), but no deletion may be under way.
hashAcknowledged(seen, allowMissing) ==
  LET active == Cardinality(Active(seen))
  IN /\ Acknowledged(TRUE, lws, NativeSeen)
     /\ NativeSeen.count = active /\ active <= NativeSeen.rs
     /\ active # lws.replicas => allowMissing /\ Observed(seen) = Active(seen)

\* preferSubRoleDeletion: the lowest cost for groups that are not retained, the
\* cost they had restored to the others.
preferSubRoleDeletion(seen, retained) ==
  FoldLeft(LAMBDA acc, g :
             CASE g \notin retained /\ seen[g].cost # "lowest" ->
                    Append(acc, [pod |-> "cost", group |-> g, value |-> "lowest"])
               [] g \in retained /\ seen[g].saved # "no" ->
                    Append(acc, [pod |-> "cost", group |-> g, value |-> seen[g].saved])
               [] OTHER -> acc,
           <<>>, SetToSortSeq(Active(seen), LAMBDA a, b : a < b))

\* While native controllers are catching up, surplus groups get routing too.
startupAssignments(seen, active) ==
  LET used == {c \in DOMAIN Target : Target[c] > 0}
  IN stickySubRoleAssignments(seen, active,
       fitSubRoles([c \in used |-> Target[c]], Cardinality(active)))

\* Costs, then the scale (issued), then the plan is dropped once the survivors,
\* whoever the ReplicaSet left, are complete.
CostsThenPublish(costs, present, allAssigned, preparing, settled) ==
  CASE costs # <<>> -> Pass(costs, lws, TRUE)
    [] costs = <<>> /\ preparing -> Save(<<>>, [lws EXCEPT !.issued = Target])
    [] costs = <<>> /\ ~preparing /\ allAssigned /\ lws.plan # NoPlan /\ present = Total(Target) /\ settled ->
         Finish(<<>>)
    [] OTHER -> Pass(<<>>, lws, ~allAssigned \/ lws.plan # NoPlan)

RelabelOrPublish(seen, active, assigned, preparing) ==
  LET wrong   == {g \in DOMAIN assigned : ~(Coherent(seen[g]) /\ seen[g].leader = assigned[g])}
      healthy == Cardinality(DOMAIN assigned) = Total(Target) /\ \A g \in DOMAIN assigned : Eligible(seen[g])
  IN CASE wrong # {} /\ lws.plan = NoPlan /\ ~healthy -> Wait
       [] wrong # {} /\ (lws.plan # NoPlan \/ healthy) ->
            Pass(Label(seen, wrong, LAMBDA g : assigned[g]), lws, TRUE)
       [] OTHER -> CostsThenPublish(
                     preferSubRoleDeletion(seen, IF Removing THEN active ELSE DOMAIN assigned),
                     Cardinality(active), active = DOMAIN assigned, preparing, hashAcknowledged(seen, FALSE))

\* Labels of new groups come first; then the native controllers have to have
\* caught up, and the floors have to be in reach before a scale is published.
HashLabelFirst(seen, newborn, startup, assigned, waiting, ready) ==
  CASE newborn # {} -> Pass(Label(seen, newborn, LAMBDA g : startup[g]), lws, TRUE)
    [] newborn = {} /\ (waiting \/ ~ready) -> Wait
    [] OTHER -> RelabelOrPublish(seen, Active(seen), assigned, Preparing)

HashAssign(seen, assigned, waiting, floorMet) ==
  LET startup == IF waiting THEN startupAssignments(seen, Active(seen)) ELSE assigned
  IN HashLabelFirst(seen,
       {g \in DOMAIN startup : ~Removing /\ (~Coherent(seen[g]) \/ seen[g].leader = 0)},
       startup, assigned, waiting,
       Preparing => floorMet /\ Cardinality(DOMAIN assigned) = Smaller(lws.replicas, Total(Target)))

\* syncHashSubRoleAssignments: the floors are restored after native deletions
\* too, whenever the survivors allow it.
HashAssignments(seen) ==
  LET planned  == lws.plan # NoPlan /\ ~Removing
      floorMet == planned => FloorsMet(seen, Active(seen), lws.plan.floor)
  IN HashAssign(seen,
       IF planned /\ floorMet
       THEN readySubRoleAssignments(seen, Active(seen), Target, lws.plan.floor)
       ELSE stickySubRoleAssignments(seen, Active(seen), Target),
       ~hashAcknowledged(seen, lws.plan = NoPlan \/ Preparing), floorMet)

-----------------------------------------------------------------------------
(* syncSubRoles *)

\* Before any assignment the counts are recorded: a first split of the replicas
\* there are, the baseline, and a zero for every new sub-role.
Recorded(membership, initial) ==
  LET issued   == IF lws.issued = NoCounts THEN fitSubRoles(membership, lws.replicas) ELSE lws.issued
      baseline == IF lws.issued = NoCounts THEN membership ELSE lws.issued
  IN [lws EXCEPT
        !.issued  = issued @@ [c \in DOMAIN membership |-> 0],
        !.initial = IF initial # NoCounts THEN initial
                    ELSE IF @ # NoCounts THEN @
                    ELSE fitSubRoles(baseline, Larger(lws.initialReplicas, lws.replicas))]

\* A reduction of any sub-role becomes a plan, growth is issued at once.
AcceptTarget(patches, target, seen) ==
  LET counts == target @@ [c \in DOMAIN lws.issued |-> 0]
  IN IF \E c \in DOMAIN lws.issued : counts[c] < lws.issued[c]
     THEN Save(patches, [lws EXCEPT !.plan = [counts |-> counts,
                                              floor |-> startSubRolePlan(lws.issued, counts, seen)]])
     ELSE Save(patches, [lws EXCEPT !.issued = counts])

syncSubRoleAssignments(seen) ==
  IF setup.hash THEN HashAssignments(seen) ELSE OrdinalAssignments(seen)

\* mutant: capacity is credited while assignments are pending
CreditWhilePending(c, seen) == RetainedReady(setup.hash, lws, NativeSeen, seen, ReadyOf(seen, c))

\* The capacity a rollout may count on: nothing while a plan or an assignment is
\* pending.  Only the groups of the sub-role count as Ready, but all of them are
\* possible victims of a deletion.
observeSubRoleReadiness(c, seen) ==
  IF lws.issued = NoCounts \/ lws.plan # NoPlan \/ syncSubRoleAssignments(seen).pending THEN 0
  ELSE RetainedReady(setup.hash, lws, NativeSeen, seen, ReadyOf(seen, c))

\* A plan in the annotations is finished before anything new is looked at.  An
\* update that names no sub-roles (keep) leaves the recorded ones; an empty
\* membership removes them.
Members(update) ==
  CASE ~update.keep -> update.membership
    [] update.keep /\ lws.issued # NoCounts -> lws.issued
    [] OTHER -> lws.initial

\* With sub-roles recorded and no plan: assignments first, then the new target.
RecordAssignAccept(update, recorded, seen, assignments) ==
  CASE recorded # lws -> Save(<<>>, recorded)
    [] recorded = lws /\ (assignments.pending \/ update.target = NoCounts) -> assignments
    [] OTHER -> AcceptTarget(assignments.patches, update.target, seen)

syncSubRoles(update, seen) ==
  LET nothing == update.membership = NoCounts /\ update.target = NoCounts
                   /\ lws.issued = NoCounts /\ lws.initial = NoCounts
  IN IF lws.plan # NoPlan THEN syncSubRoleAssignments(seen)
     ELSE IF nothing THEN Pass(<<>>, lws, FALSE)
     ELSE IF Members(update) = NoCounts
     THEN Save(<<>>, [lws EXCEPT !.plan = [counts |-> [c \in {0} |-> lws.replicas], floor |-> NoCounts]])
     ELSE RecordAssignAccept(update, Recorded(Members(update), update.initial), seen,
                             syncSubRoleAssignments(seen))

\* Outside a rollout membership, target and baseline follow the desired counts;
\* a rollout step is a target of its own, after sub-roles have been recorded.
Update ==
  [membership |-> request.counts, target |-> request.counts,
   initial |-> IF request.steady THEN request.counts ELSE NoCounts,
   keep |-> ~request.steady /\ lws.issued # NoCounts]

\* A patch carries the resourceVersion of the pod as the cache shows it.
Fresh(patch, seen) ==
  LET was == seen[patch.group]   now == groups[patch.group]
  IN IF patch.pod = "worker"
     THEN was.worker = now.worker /\ now.phase # "absent"
     ELSE [was EXCEPT !.worker = 0] = [now EXCEPT !.worker = 0]

Patched(group, patch) ==
  CASE patch.pod = "leader" -> [group EXCEPT !.leader = patch.value]
    [] patch.pod = "worker" -> [group EXCEPT !.worker = patch.value]
    [] patch.value = "lowest" -> [group EXCEPT !.saved = group.cost, !.cost = "lowest"]
    [] OTHER -> [group EXCEPT !.saved = "no", !.cost = patch.value]

\* The first n patches of a pass arrive; a conflict ends it.
Run(pass, n) ==
  LET arrived == {i \in 1 .. n : \A j \in 1 .. i : Fresh(pass.patches[j], GroupsSeen)}
  IN /\ groups' = FoldLeft(LAMBDA acc, patch : [acc EXCEPT ![patch.group] = Patched(@, patch)],
                           groups, SubSeq(pass.patches, 1, Cardinality(arrived)))
     /\ lws' = IF Cardinality(arrived) = Len(pass.patches) THEN pass.lws ELSE lws

Sync ==
  /\ LET pass == syncSubRoles(Update, GroupsSeen) IN Run(pass, Len(pass.patches))
  /\ passes' = 1 - passes
  /\ UNCHANGED <<setup, request, native, nativeView, groupsView, bounds>>

\* A call fails, or the process stops, before all of a pass has been written.
SyncInterrupted ==
  /\ stops < setup.stops /\ stops' = stops + 1
  /\ LET pass == syncSubRoles(Update, GroupsSeen)
     IN \E n \in 1 .. Len(pass.patches) - 1 : Run(pass, n)
  /\ UNCHANGED <<setup, request, native, nativeView, groupsView, passes, edits, faults>>

-----------------------------------------------------------------------------
(* The LeaderWorkerSet controller, the native controllers and the nodes *)

NativeTarget == IF setup.hash THEN native.rs ELSE native.replicas
Unseen == <<setup, request, nativeView, groupsView, passes, bounds>>

\* The LeaderWorkerSet controller applies the replicas and reports the generation.
ApplyReplicas ==
  /\ ~lws.applied
  /\ lws' = [lws EXCEPT !.applied = TRUE]
  /\ native' = [native EXCEPT !.replicas = lws.replicas, !.acked = @ /\ native.replicas = lws.replicas]
  /\ UNCHANGED <<Unseen, groups>>

\* The StatefulSet controller, or the Deployment controller after it scaled its
\* ReplicaSet, reports the generation; then the ReplicaSet controller.
Acknowledge ==
  /\ \/ /\ ~native.acked /\ ~setup.hash
        /\ native' = [native EXCEPT !.acked = TRUE]
     \/ /\ ~native.acked /\ setup.hash
        /\ native' = [native EXCEPT !.acked = TRUE, !.rs = native.replicas,
                                    !.rsAcked = @ /\ native.rs = native.replicas]
     \/ /\ native.acked /\ ~native.rsAcked
        /\ native' = [native EXCEPT !.rsAcked = TRUE]
  /\ UNCHANGED <<Unseen, lws, groups>>

\* A StatefulSet counts terminating pods in its status, a ReplicaSet does not.
ReportCount ==
  /\ native' = [native EXCEPT !.count =
       Cardinality(IF setup.hash THEN Active(groups) ELSE Observed(groups))]
  /\ native' # native
  /\ UNCHANGED <<Unseen, lws, groups>>

Grow(g) ==
  /\ groups[g].phase = "absent"
  /\ IF setup.hash THEN Cardinality(Active(groups)) < NativeTarget ELSE g < NativeTarget
  /\ \E cost \in Costs : groups' = [groups EXCEPT ![g] = NewGroup("starting", cost)]
  /\ UNCHANGED <<Unseen, lws, native>>

\* A ReplicaSet deletes leaders that are not Ready first.  The deletion costs
\* come after that, and its cache may not show them yet: any tie is possible.
PreferredVictim(g) ==
  groups[g].phase # "starting" => \A h \in Active(groups) : groups[h].phase # "starting"

ScaleDown(g) ==
  /\ g \in Active(groups)
  /\ IF setup.hash THEN Cardinality(Active(groups)) > NativeTarget /\ PreferredVictim(g)
     ELSE g >= NativeTarget
  /\ groups' = [groups EXCEPT ![g].phase = "terminating"]
  /\ UNCHANGED <<Unseen, lws, native>>

Gone(g) ==
  /\ groups[g].phase = "terminating"
  /\ groups' = [groups EXCEPT ![g] = AbsentGroup]
  /\ UNCHANGED <<Unseen, lws, native>>

\* Once sub-roles are in use, a group needs its label to become Ready.
BecomeReady(g) ==
  /\ groups[g].phase \in {"starting", "loading"}
  /\ lws.issued # NoCounts => Coherent(groups[g]) /\ groups[g].leader # 0
  /\ groups' = [groups EXCEPT ![g].phase = "ready"]
  /\ UNCHANGED <<Unseen, lws, native>>

\* A worker fails, or the whole group is recreated.
Fault(g) ==
  /\ faults < setup.faults /\ faults' = faults + 1
  /\ \/ groups[g].phase = "ready" /\ groups' = [groups EXCEPT ![g].phase = "loading"]
     \/ g \in Active(groups) /\ groups' = [groups EXCEPT ![g].phase = "terminating"]
  /\ UNCHANGED <<setup, request, lws, native, nativeView, groupsView, passes, edits, stops>>

ObserveNative ==
  /\ setup.lag /\ nativeView # native /\ nativeView' = native
  /\ UNCHANGED <<setup, request, lws, native, groups, groupsView, passes, bounds>>

ObserveGroups ==
  /\ setup.lag /\ groupsView # groups /\ groupsView' = groups
  /\ UNCHANGED <<setup, request, lws, native, groups, nativeView, passes, bounds>>

Edit ==
  /\ edits < setup.edits /\ edits' = edits + 1
  /\ request' \in Requests \ {request}
  /\ UNCHANGED <<setup, lws, native, groups, nativeView, groupsView, passes, faults, stops>>

Next ==
  \/ Sync \/ SyncInterrupted \/ ApplyReplicas \/ Acknowledge \/ ReportCount
  \/ ObserveNative \/ ObserveGroups \/ Edit
  \/ \E g \in Slots : Grow(g) \/ ScaleDown(g) \/ Gone(g) \/ BecomeReady(g) \/ Fault(g)

Spec == Init /\ [][Next]_vars

Fairness ==
  /\ []<>(passes = 0) /\ []<>(passes = 1)
  /\ WF_vars(ApplyReplicas) /\ WF_vars(Acknowledge) /\ WF_vars(ReportCount)
  /\ WF_vars(ObserveNative) /\ WF_vars(ObserveGroups)
  /\ \A g \in Slots : /\ WF_vars(Grow(g)) /\ WF_vars(ScaleDown(g)) /\ WF_vars(Gone(g))
                      /\ WF_vars(BecomeReady(g))

FairSpec == Spec /\ Fairness

-----------------------------------------------------------------------------
(* Properties *)

\* subRoleCounts and readSubRolePlan refuse annotations whose counts do not sum
\* to the replicas or whose floors exceed the counts, and nothing would ever
\* repair them: the controller never writes such annotations.
AnnotationsReadable ==
  /\ lws.issued # NoCounts => Total(lws.issued) = lws.replicas
  /\ \A c \in DOMAIN lws.plan.floor : lws.plan.floor[c] <= At(lws.plan.counts, c)

\* "A reduction of N may lose at most N currently Ready groups": until a plan is
\* dropped, no step but a failure takes a sub-role below its saved floor, however
\* often the plan is interrupted and retried.  A ReplicaSet chooses its victims
\* itself: for Hash identity the moves of labels are meant, among groups that
\* can meet the floors.
FloorsKept ==
  [][ /\ lws.plan # NoPlan /\ faults' = faults
      /\ setup.hash => Active(groups') = Active(groups) /\ FloorsMet(groups, Active(groups), lws.plan.floor)
      => \A c \in DOMAIN lws.plan.floor :
           Cardinality(ReadyOf(groups', c))
             >= Smaller(Cardinality(ReadyOf(groups, c)), lws.plan.floor[c]) ]_vars

\* Ordinal identity: the scale is published after the labels of the outgoing
\* groups have gone, so traffic is never routed to a group being scaled down.
VictimsUnrouted ==
  [][ \A g \in Slots :
        ~setup.hash /\ ScaleDown(g) => groups[g].leader = 0 /\ groups[g].worker = 0 ]_vars

\* What a rollout is told a sub-role can rely on, from caches that lag, is Ready
\* in the cluster and outlives the deletions asked for so far, unless a group
\* failed in the meantime.
CreditSurvives ==
  faults = 0 => \A c \in SubRole :
    observeSubRoleReadiness(c, GroupsSeen)
      <= Cardinality({g \in ReadyOf(groups, c) : setup.hash \/ g < lws.replicas})

\* subRoleStatus of the current revision: every active group has a coherent
\* label of a wanted sub-role.
Assigned(seen, counts) ==
  \A g \in Active(seen) : /\ Coherent(seen[g])
                          /\ seen[g].leader \in (IF counts = NoCounts THEN {0} ELSE DOMAIN counts)

Settled ==
  /\ lws.plan = NoPlan /\ Assigned(groups, request.counts)
  /\ \A c \in DOMAIN request.counts : Cardinality(ReadyOf(groups, c)) = request.counts[c]
  /\ \A g \in Slots : groups[g].saved = "no" /\ groups[g].cost # "lowest"

\* Once requests, faults and stops end, every sub-role has exactly its groups,
\* all Ready, the plan is gone and borrowed deletion costs are given back.
\* (Removing sub-roles while the pod cache lags is left out: a label written
\* just before is then not seen, and stays.)
RequestSettles == <>[](Settled \/ (setup.lag /\ request.counts = NoCounts))

=============================================================================
