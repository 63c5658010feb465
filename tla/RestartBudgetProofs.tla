------------------------ MODULE RestartBudgetProofs ------------------------
(* The restart budget of a group, for every number of workers, revisions,  *)
(* groups, faults, failed calls and edits.                                 *)
EXTENDS RestartBudget, TLAPS

\* A charge under way will raise the count and stay within a limit, and a
\* leader on its way to be deleted for a restart is already paid for.
BudgetInv ==
  /\ ctl.at = "charge" =>
       /\ lws.counts[ctl.seen.revision] < ctl.next
       /\ Unlimited \notin Limits => \E limit \in Limits : ctl.next <= limit
  /\ WithinBudget
  /\ Backoff \/ Unlimited \notin Limits =>
       recreations + (IF ctl.at = "delete" /\ ctl.recreate THEN 1 ELSE 0) <= charges

\* Groups are numbered in the order of their creation.
UidInv ==
  /\ leader.uid <= uid /\ wsts.owner <= uid
  /\ \A w \in Workers : workers[w].uid <= uid
  /\ \A event \in deletions : event.pod.uid <= uid

\* A running reconcile deals with the leader of today.
SeenInv ==
  ctl # Idle /\ leader # NoPod => leader.uid = ctl.seen.uid /\ leader.revision = ctl.seen.revision

\* The pods of a leader that is not being deleted are those of its StatefulSet.
GroupInv ==
  /\ leader # NoPod /\ leader.foreground => leader.deleting
  /\ leader # NoPod /\ wsts.owner = leader.uid => wsts.revision = leader.revision
  /\ leader # NoPod /\ ~leader.deleting /\ wsts.owner = leader.uid => ~wsts.deleting
  /\ \A w \in Workers : leader # NoPod /\ workers[w].uid = leader.uid =>
       /\ workers[w].revision = leader.revision
       /\ ~leader.deleting => wsts.owner = leader.uid

\* What may still make a reconcile charge the group of the leader.
Evidence ==
  /\ leader # NoPod /\ ~leader.deleting
  /\ \/ leader.restarted \/ leader.pending
     \/ \E w \in Workers : /\ workers[w].uid = leader.uid
                           /\ workers[w].restarted \/ workers[w].deleting
     \/ \E event \in deletions : event.pod.uid = leader.uid

\* A failure that has not been charged yet.
Unpaid == \/ ctl.at \in {"charge", "pend"}
          \/ Evidence /\ ~(ctl.at = "delete" /\ ctl.recreate)

ChargeInv == charges + (IF Unpaid THEN 1 ELSE 0) <= faults + aborts

\* A group is held from its leader on and released from its workers on.
HeldInv ==
  /\ NoOrphanFinalizer
  /\ ctl.at = "mark" /\ ctl.seen.exhausted /\ ctl.seen.finalizer => leader # NoPod /\ leader.finalizer
  /\ ctl.at = "hold" =>
       /\ leader # NoPod /\ leader.finalizer
       /\ \A w \in ctl.left : workers[w] # NoPod => workers[w].uid = leader.uid
       /\ ctl.left # {} => wsts = NoSts \/ wsts.owner = leader.uid
  /\ ctl.at = "release" /\ lws.phase = "live" =>
       \A w \in Workers : workers[w] # NoPod /\ workers[w].finalizer => w \in ctl.left

-----------------------------------------------------------------------------
(* Types.                                                                  *)

\* A reconcile goes to a place of a running one or stays idle.
LEMMA PlaceType ==
  ASSUME TypeOK
  PROVE  /\ \A l \in Leader, from \in Trigger : Recreate(l, from) \in Running \cup {Idle}
         /\ \A l \in Leader, from \in Trigger : AtRelease(l, from) \in Running
         /\ \A l \in Leader : reconcileLeader(l) \in Running \cup {Idle}
         /\ \A pod : \A from \in Trigger : handleRestartPolicy(pod, from) \in Running \cup {Idle}
<1>1. \A place \in {"clear", "mark", "pend"}, l \in Leader, from \in Trigger : At(place, l, from) \in Running
  BY DEF At, Running
<1>2. \A l \in Leader : lws.counts[l.revision] + 1 \in Nat
  BY DEF TypeOK, Leader
<1>3. \A l \in Leader, from \in Trigger : Recreate(l, from) \in Running \cup {Idle}
  BY <1>1, <1>2 DEF Recreate, Running
<1>4. \A l \in Leader, from \in Trigger : AtRelease(l, from) \in Running
  BY DEF AtRelease, groupPods, Running
<1>5. NoDeletion \in Trigger
  BY DEF Trigger
<1>6. LeaderSeen \in Leader \cup {NoPod}
  BY DEF LeaderSeen, TypeOK
<1>7. \A l \in Leader : reconcileLeader(l) \in Running \cup {Idle}
  BY <1>1, <1>3, <1>4, <1>5 DEF reconcileLeader
<1>8. \A pod : \A from \in Trigger : handleRestartPolicy(pod, from) \in Running \cup {Idle}
  BY <1>3, <1>6 DEF handleRestartPolicy
<1> QED
  BY <1>3, <1>4, <1>7, <1>8

\* The fields of a running reconcile, by its place.
LEMMA CtlFields ==
  ASSUME TypeOK
  PROVE  /\ ctl # Idle => ctl.seen \in Leader /\ ctl.from \in Trigger
         /\ ctl.at \in {"idle", "clear", "mark", "pend", "release", "hold", "charge", "delete"}
         /\ ctl = Idle <=> ctl.at = "idle"
         /\ ctl.at \in {"release", "hold"} => /\ ctl.left \subseteq Workers
              /\ \A ws \in SUBSET Workers : [ctl EXCEPT !.left = ws] \in Running
         /\ ctl.at = "charge" => ctl.next \in Nat
         /\ ctl.at = "delete" => ctl.recreate \in BOOLEAN
<1>1. ctl \in Running \cup {Idle}
  BY DEF TypeOK
<1> QED
  BY <1>1 DEF Running, Idle

\* A patched pod is a pod.
LEMMA PodUpdates ==
  /\ \A l \in Leader, b \in BOOLEAN :
       /\ [l EXCEPT !.started = b] \in Leader /\ [l EXCEPT !.restarted = b] \in Leader
       /\ [l EXCEPT !.pending = b] \in Leader /\ [l EXCEPT !.aged = b] \in Leader
       /\ [l EXCEPT !.recover = b] \in Leader
       /\ [l EXCEPT !.deleting = TRUE, !.foreground = b] \in Leader
       /\ [l EXCEPT !.exhausted = TRUE, !.finalizer = TRUE, !.recover = b] \in Leader
  /\ \A l \in Leader, b, c, d \in BOOLEAN :
       [l EXCEPT !.finalizer = FALSE, !.foreground = b, !.exhausted = c, !.recover = d] \in Leader
  /\ \A p \in Worker, b \in BOOLEAN :
       /\ [p EXCEPT !.started = b] \in Worker /\ [p EXCEPT !.restarted = b] \in Worker
       /\ [p EXCEPT !.deleting = b] \in Worker /\ [p EXCEPT !.finalizer = b] \in Worker
<1>1. ASSUME NEW l \in Leader, NEW b \in BOOLEAN
      PROVE  /\ [l EXCEPT !.started = b] \in Leader /\ [l EXCEPT !.restarted = b] \in Leader
             /\ [l EXCEPT !.pending = b] \in Leader /\ [l EXCEPT !.aged = b] \in Leader
             /\ [l EXCEPT !.recover = b] \in Leader
  BY DEF Leader
<1>2. ASSUME NEW l \in Leader, NEW b \in BOOLEAN
      PROVE  [l EXCEPT !.deleting = TRUE, !.foreground = b] \in Leader
  BY DEF Leader
<1>3. ASSUME NEW l \in Leader, NEW b \in BOOLEAN
      PROVE  [l EXCEPT !.exhausted = TRUE, !.finalizer = TRUE, !.recover = b] \in Leader
  BY DEF Leader
<1>4. ASSUME NEW l \in Leader, NEW b \in BOOLEAN, NEW c \in BOOLEAN, NEW d \in BOOLEAN
      PROVE  [l EXCEPT !.finalizer = FALSE, !.foreground = b, !.exhausted = c, !.recover = d] \in Leader
  BY DEF Leader
<1>5. ASSUME NEW p \in Worker, NEW b \in BOOLEAN
      PROVE  /\ [p EXCEPT !.started = b] \in Worker /\ [p EXCEPT !.restarted = b] \in Worker
             /\ [p EXCEPT !.deleting = b] \in Worker /\ [p EXCEPT !.finalizer = b] \in Worker
  BY DEF Worker
<1> QED
  BY <1>1, <1>2, <1>3, <1>4, <1>5

\* Every step keeps the types.
LEMMA TypeStep ==
  ASSUME TypeOK, [Next]_vars
  PROVE  TypeOK'
<1> USE DEF pods, history, bounds
<1>1. CASE ReconcileLeader
  BY <1>1, PlaceType DEF ReconcileLeader, TypeOK, Start, LeaderSeen
<1>2. ASSUME NEW w \in Workers, ReconcileWorker(w) PROVE TypeOK'
  BY <1>2, PlaceType DEF ReconcileWorker, TypeOK, Start, Trigger
<1>3. ASSUME NEW event \in deletions, ReconcileDeleted(event) PROVE TypeOK'
  BY <1>3, PlaceType DEF ReconcileDeleted, TypeOK, Start, Trigger
<1>4. ASSUME NEW event \in deletions, DropDeletion(event) PROVE TypeOK'
  BY <1>4 DEF DropDeletion, TypeOK
<1>5. CASE CreateWorkerStatefulSet
  BY <1>5 DEF CreateWorkerStatefulSet, TypeOK, LeaderSeen, Leader, NoPod
<1>6. ASSUME NEW w \in Workers, ReleaseWorker(w) PROVE TypeOK'
  BY <1>6, PodUpdates DEF ReleaseWorker, TypeOK
<1>7. CASE ClearCount
  BY <1>7, CtlFields, PlaceType DEF ClearCount, TypeOK, Leader, Idle
<1>8. CASE ReleaseLeader
  <2>1. leader' \in Leader \cup {NoPod}
    <3>1. CASE ctl.seen.finalizer
      <4>1. /\ leader \in Leader
            /\ leader' = [leader EXCEPT !.finalizer = FALSE,
                            !.foreground = leader.foreground /\ ctl.seen.foreground,
                            !.exhausted = leader.exhausted /\ ~ctl.seen.exhausted,
                            !.recover = leader.recover /\ ~ctl.seen.recover]
        BY <1>8, <3>1 DEF ReleaseLeader, TypeOK
      <4>2. /\ (leader.foreground /\ ctl.seen.foreground) \in BOOLEAN
            /\ (leader.exhausted /\ ~ctl.seen.exhausted) \in BOOLEAN
            /\ (leader.recover /\ ~ctl.seen.recover) \in BOOLEAN
        OBVIOUS
      <4> QED
        BY <4>1, <4>2, PodUpdates
    <3>2. CASE ~ctl.seen.finalizer
      BY <1>8, <3>2 DEF ReleaseLeader, TypeOK
    <3> QED
      BY <3>1, <3>2
  <2> QED
    BY <1>8, <2>1 DEF ReleaseLeader, TypeOK, Done
<1>9. CASE MarkExhausted
  <2>1. leader' \in Leader \cup {NoPod}
    <3>1. CASE ctl.seen.exhausted /\ ctl.seen.finalizer
      BY <1>9, <3>1 DEF MarkExhausted, TypeOK
    <3>2. CASE ~(ctl.seen.exhausted /\ ctl.seen.finalizer)
      <4>1. /\ leader \in Leader
            /\ leader' = [leader EXCEPT !.exhausted = TRUE, !.finalizer = TRUE,
                            !.recover = leader.recover /\ (ctl.seen.exhausted \/ ~ctl.seen.recover)]
        BY <1>9, <3>2 DEF MarkExhausted, TypeOK, NoNewFinalizer
      <4>2. (leader.recover /\ (ctl.seen.exhausted \/ ~ctl.seen.recover)) \in BOOLEAN
        OBVIOUS
      <4> QED
        BY <4>1, <4>2, PodUpdates
    <3> QED
      BY <3>1, <3>2
  <2>2. ctl' \in Running
    BY <1>9, CtlFields DEF MarkExhausted, Idle, Running, groupPods
  <2> QED
    BY <1>9, <2>1, <2>2 DEF MarkExhausted, TypeOK
<1>10. CASE HoldDone
  BY <1>10, CtlFields DEF HoldDone, TypeOK, Idle, Running
<1>11. CASE PatchPending
  BY <1>11, PodUpdates DEF PatchPending, TypeOK
<1>12. CASE ChargeCount
  BY <1>12, CtlFields DEF ChargeCount, TypeOK, Leader, Idle, Running
<1>13. CASE DeleteLeader
  <2>1. leader \in Leader
    BY <1>13 DEF DeleteLeader, TypeOK
  <2>2. [leader EXCEPT !.deleting = TRUE, !.foreground = TRUE] \in Leader
    BY <2>1, PodUpdates
  <2>3. leader' \in Leader /\ recreations' \in Nat
    BY <1>13, <2>1, <2>2 DEF DeleteLeader, TypeOK
  <2> QED
    BY <1>13, <2>3 DEF DeleteLeader, TypeOK, Done
<1>14. ASSUME NEW w \in Workers, ReleaseHeldWorker(w) PROVE TypeOK'
  BY <1>14, CtlFields, PodUpdates DEF ReleaseHeldWorker, TypeOK
<1>15. ASSUME NEW w \in Workers, HoldWorker(w) PROVE TypeOK'
  BY <1>15, CtlFields, PodUpdates DEF HoldWorker, TypeOK, NoNewFinalizer
<1>16. CASE Refused
  BY <1>16 DEF Refused, TypeOK
<1>17. CASE PruneCounts
  BY <1>17 DEF PruneCounts, TypeOK
<1>18. CASE ApplyReplicas
  BY <1>18 DEF ApplyReplicas, TypeOK
<1>19. CASE ApplyPartition
  BY <1>19 DEF ApplyPartition, TypeOK
<1>20. CASE CleanupCounts
  BY <1>20 DEF CleanupCounts, TypeOK
<1>21. CASE StsCreateLeader
  BY <1>21, ConstantsAssumption DEF StsCreateLeader, TypeOK, Leader, Uids
<1>22. CASE ClusterDeleteLeader
  <2>1. PICK b \in BOOLEAN : leader' = [leader EXCEPT !.deleting = TRUE, !.foreground = b]
    BY <1>22 DEF ClusterDeleteLeader
  <2>2. leader' \in Leader
    BY <1>22, <2>1, PodUpdates DEF ClusterDeleteLeader, TypeOK
  <2> QED
    BY <1>22, <2>2 DEF ClusterDeleteLeader, TypeOK
<1>23. CASE LeaderGone
  BY <1>23 DEF LeaderGone, TypeOK
<1>24. CASE LwsGone
  BY <1>24 DEF LwsGone, TypeOK
<1>25. CASE CollectLeaderSts
  BY <1>25 DEF CollectLeaderSts, TypeOK
<1>26. CASE DeleteWorkerSts
  <2>1. wsts # NoSts
    BY <1>26 DEF DeleteWorkerSts, TypeOK, TerminateParallel, LeaderSeen, Leader, Uids, NoPod, NoSts
  <2>2. wsts' \in [owner : Uids, revision : Revisions, deleting : BOOLEAN]
    BY <1>26, <2>1 DEF DeleteWorkerSts, TypeOK
  <2>3. \A w \in Workers : workers[w].uid = wsts.owner => workers[w] \in Worker
    BY <2>1 DEF TypeOK, NoPod, Uids
  <2>4. workers' \in [Workers -> Worker \cup {NoPod}]
    BY <1>26, <2>3, PodUpdates DEF DeleteWorkerSts, DeletingWorkers, TypeOK
  <2> QED
    BY <1>26, <2>2, <2>4 DEF DeleteWorkerSts, TypeOK
<1>27. CASE CollectWorkerSts
  BY <1>27 DEF CollectWorkerSts, TypeOK
<1>28. CASE CollectWorkers
  BY <1>28, PodUpdates DEF CollectWorkers, TypeOK, DeletingWorkers
<1>29. CASE WorkersGone
  BY <1>29 DEF WorkersGone, TypeOK
<1>30. ASSUME NEW w \in Workers, WorkerGone(w) PROVE TypeOK'
  BY <1>30 DEF WorkerGone, TypeOK, Deletion
<1>31. ASSUME NEW w \in Workers, StsCreateWorker(w) PROVE TypeOK'
  BY <1>31, ConstantsAssumption DEF StsCreateWorker, TypeOK, Worker
<1>32. CASE PodStarts
  <2>1. leader # NoPod => [leader EXCEPT !.started = TRUE] \in Leader
    BY PodUpdates DEF TypeOK
  <2>2. \A w \in Workers : workers[w] # NoPod => [workers[w] EXCEPT !.started = TRUE] \in Worker
    BY PodUpdates DEF TypeOK
  <2>3. leader' \in Leader \cup {NoPod} /\ workers' \in [Workers -> Worker \cup {NoPod}]
    <3>1. CASE UNCHANGED workers
      BY <1>32, <2>1, <3>1 DEF PodStarts, TypeOK
    <3>2. CASE UNCHANGED leader
      <4>1. \/ UNCHANGED workers
            \/ \E w \in Workers, p \in Worker : workers' = [workers EXCEPT ![w] = p]
        BY <1>32, <2>2, <3>2 DEF PodStarts, TypeOK
      <4> QED
        BY <3>2, <4>1 DEF TypeOK
    <3> QED
      BY <1>32, <3>1, <3>2 DEF PodStarts
  <2> QED
    BY <1>32, <2>3 DEF PodStarts, TypeOK
<1>33. CASE LeaderAges
  BY <1>33, PodUpdates DEF LeaderAges, TypeOK
<1>34. CASE ObservePods
  BY <1>34 DEF ObservePods, TypeOK
<1>35. CASE Fault
  <2>1. leader # NoPod => [leader EXCEPT !.restarted = TRUE] \in Leader
    BY PodUpdates DEF TypeOK
  <2>2. \A w \in Workers : workers[w] # NoPod =>
          /\ [workers[w] EXCEPT !.restarted = TRUE] \in Worker
          /\ [workers[w] EXCEPT !.deleting = TRUE] \in Worker
    BY PodUpdates DEF TypeOK
  <2>3. leader' \in Leader \cup {NoPod} /\ workers' \in [Workers -> Worker \cup {NoPod}]
    <3>1. CASE UNCHANGED workers
      BY <1>35, <2>1, <3>1 DEF Fault, TypeOK
    <3>2. CASE UNCHANGED leader
      <4>1. \/ UNCHANGED workers
            \/ \E w \in Workers, p \in Worker : workers' = [workers EXCEPT ![w] = p]
        BY <1>35, <2>2, <3>2 DEF Fault, TypeOK
      <4> QED
        BY <3>2, <4>1 DEF TypeOK
    <3> QED
      BY <1>35, <3>1, <3>2 DEF Fault
  <2> QED
    BY <1>35, <2>3, ConstantsAssumption DEF Fault, TypeOK
<1>36. CASE Abort
  BY <1>36, ConstantsAssumption DEF Abort, TypeOK
<1>37. CASE Stop
  BY <1>37, ConstantsAssumption DEF Stop, TypeOK
<1>38. CASE AskRecovery
  <2>1. leader' \in Leader
    <3>1. leader \in Leader
      BY <1>38 DEF AskRecovery, TypeOK
    <3>2. [leader EXCEPT !.recover = TRUE] \in Leader
      BY <3>1, PodUpdates
    <3> QED
      BY <1>38, <3>2 DEF AskRecovery
  <2> QED
    BY <1>38, <2>1, ConstantsAssumption DEF AskRecovery, TypeOK, Edit
<1>39. CASE SetLimit
  BY <1>39, ConstantsAssumption DEF SetLimit, TypeOK, Edit
<1>40. CASE Scale
  <2>1. \E b \in BOOLEAN : target' = [target EXCEPT !.wanted = b]
    <3>1. target' = [target EXCEPT !.wanted = ~target.wanted]
      BY <1>40 DEF Scale, TypeOK
    <3> QED
      BY <3>1
  <2> QED
    BY <1>40, <2>1, ConstantsAssumption DEF Scale, TypeOK, Edit
<1>41. CASE Rollout
  <2>1. target' \in [wanted : BOOLEAN, inRange : BOOLEAN, above : BOOLEAN, pruned : BOOLEAN,
                     revision : Revisions, current : Revisions]
    <3>1. target.revision + 1 \in Revisions
      BY <1>41, ConstantsAssumption DEF Rollout, TypeOK, Revisions
    <3> QED
      BY <1>41, <3>1 DEF Rollout, TypeOK
  <2> QED
    BY <1>41, <2>1, ConstantsAssumption DEF Rollout, TypeOK, Edit
<1>42. CASE DeleteLws
  BY <1>42, ConstantsAssumption DEF DeleteLws, TypeOK, Edit
<1>43. CASE UNCHANGED vars
  BY <1>43 DEF TypeOK, vars
<1> QED
  BY <1>1, <1>2, <1>3, <1>4, <1>5, <1>6, <1>7, <1>8, <1>9, <1>10, <1>11, <1>12, <1>13, <1>14, <1>15, <1>16, <1>17, <1>18, <1>19, <1>20, <1>21, <1>22, <1>23, <1>24, <1>25, <1>26, <1>27, <1>28, <1>29, <1>30, <1>31, <1>32, <1>33, <1>34, <1>35, <1>36, <1>37, <1>38, <1>39, <1>40, <1>41, <1>42, <1>43
     DEF Next, Decide, Write, LwsReconcile, Cluster, User

\* Every variable keeps its type.
THEOREM TypeCorrect == Spec => []TypeOK
<1>1. Init => TypeOK
  BY ConstantsAssumption DEF Init, TypeOK, Revisions, Uids
<1> QED
  BY <1>1, TypeStep, PTL DEF Spec

-----------------------------------------------------------------------------
(* The budget.  Nothing is assumed of the pod cache or of replaced leaders. *)

\* A reconcile decides for a charge only below the limit, with the next count,
\* and for an unpaid deletion only where nothing is enforced.
Affordable(place) ==
  /\ place.at = "charge" =>
       /\ place.next = lws.counts[place.seen.revision] + 1
       /\ lws.limit # Unlimited => place.next <= lws.limit
  /\ place.at = "delete" => lws.limit = Unlimited /\ ~Backoff

\* The decisions of a reconcile are affordable.
LEMMA DecisionsAffordable ==
  ASSUME TypeOK
  PROVE  /\ LeaderSeen # NoPod => Affordable(reconcileLeader(LeaderSeen))
         /\ \A pod, from : Affordable(handleRestartPolicy(pod, from))
<1>1. LeaderSeen # NoPod => LeaderSeen \in Leader
  BY DEF LeaderSeen, TypeOK
<1>2. \A l \in Leader : lws.counts[l.revision] \in Nat
  BY DEF TypeOK, Leader
<1>3. lws.limit \in Nat \cup {Unlimited}
  BY ConstantsAssumption DEF TypeOK
<1>4. \A l \in Leader : \A from : Affordable(Recreate(l, from))
  BY <1>2, <1>3 DEF Recreate, At, Idle, Affordable, Enforced, Unlimited
<1>5. LeaderSeen # NoPod => Affordable(reconcileLeader(LeaderSeen))
  BY <1>1, <1>4 DEF reconcileLeader, AtRelease, At, Idle, Affordable
<1>6. \A pod, from : Affordable(handleRestartPolicy(pod, from))
  BY <1>1, <1>4 DEF handleRestartPolicy, Idle, Affordable
<1> QED
  BY <1>5, <1>6

\* A reconcile that starts keeps the budget.
LEMMA StartBudget ==
  ASSUME TypeOK, BudgetInv, NEW place, Affordable(place), Start(place), TypeOK'
  PROVE  BudgetInv'
<1>1. /\ ctl' = place /\ UNCHANGED <<lws, charges, recreations>> /\ ctl.at = "idle"
  BY DEF Start, history, Idle
<1>2. lws.limit \in Limits
  BY DEF TypeOK
<1>3. place.at = "charge" => lws.counts[place.seen.revision] \in Nat
  BY <1>1, CtlFields DEF Start, TypeOK, Leader, Running, Idle
<1> QED
  BY <1>1, <1>2, <1>3 DEF BudgetInv, WithinBudget, Affordable

\* Every step keeps the budget.
LEMMA BudgetStep ==
  ASSUME TypeOK, TypeOK', BudgetInv, [Next]_vars
  PROVE  BudgetInv'
<1> USE DEF pods, history, bounds
<1>1. CASE UNCHANGED <<lws, ctl, charges, recreations>>
  BY <1>1 DEF BudgetInv, WithinBudget
<1>2. CASE ReconcileLeader
  BY <1>2, DecisionsAffordable, StartBudget DEF ReconcileLeader
<1>3. ASSUME NEW w \in Workers, ReconcileWorker(w) PROVE BudgetInv'
  BY <1>3, DecisionsAffordable, StartBudget DEF ReconcileWorker
<1>4. ASSUME NEW event \in deletions, ReconcileDeleted(event) PROVE BudgetInv'
  BY <1>4, DecisionsAffordable, StartBudget DEF ReconcileDeleted
\* The reconcile ends, or goes on to a write that is neither a charge nor a
\* deletion for a restart.
<1>5. CASE /\ UNCHANGED <<lws, charges, recreations>>
           /\ ctl'.at \in {"idle", "release", "hold"} \/ (ctl'.at = "delete" /\ ~ctl'.recreate)
  BY <1>5 DEF BudgetInv, WithinBudget, TypeOK
\* Counts fall.
<1>6. CASE /\ UNCHANGED <<ctl, charges, recreations>>
           /\ \A r \in Revisions : lws'.counts[r] = lws.counts[r] \/ lws'.counts[r] = 0
  <2>1. \A r \in Revisions : lws.counts[r] \in Nat /\ lws'.counts[r] \in Nat
    BY DEF TypeOK
  <2>2. ctl.at = "charge" => ctl.seen.revision \in Revisions /\ ctl.next \in Nat
    BY CtlFields DEF Leader, Idle
  <2>3. Unlimited \notin Limits => \A limit \in Limits : 0 <= limit
    BY ConstantsAssumption DEF Unlimited
  <2>4. WithinBudget'
    BY <1>6, <2>3, ConstantsAssumption DEF WithinBudget, BudgetInv
  <2> QED
    BY <1>6, <2>1, <2>2, <2>4 DEF BudgetInv
<1>7. CASE ClearCount
  <2>1. ctl'.at = "release" /\ UNCHANGED <<charges, recreations>>
    BY <1>7 DEF ClearCount, AtRelease
  <2>2. \A r \in Revisions : lws'.counts[r] = lws.counts[r] \/ lws'.counts[r] = 0
    BY <1>7 DEF ClearCount, TypeOK
  <2>3. Unlimited \notin Limits => \A limit \in Limits : 0 <= limit
    BY ConstantsAssumption DEF Unlimited
  <2>4. WithinBudget'
    BY <2>2, <2>3, ConstantsAssumption DEF WithinBudget, BudgetInv
  <2> QED
    BY <2>1, <2>4 DEF BudgetInv, TypeOK
<1>8. CASE ChargeCount
  <2>1. /\ ctl.at = "charge" /\ ctl.seen.revision \in Revisions /\ ctl.next \in Nat
        /\ lws.counts[ctl.seen.revision] < ctl.next
    BY <1>8, CtlFields DEF ChargeCount, Leader, Idle, BudgetInv
  <2>2. ~(lws.counts[ctl.seen.revision] >= ctl.next)
    BY <2>1 DEF TypeOK
  <2>3. /\ lws' = [lws EXCEPT !.counts[ctl.seen.revision] = ctl.next]
        /\ charges' = charges + 1
        /\ ctl'.at = "delete" /\ ctl'.recreate
        /\ UNCHANGED recreations
    BY <1>8, <2>2 DEF ChargeCount
  <2>4. \A r \in Revisions : lws'.counts[r] = IF r = ctl.seen.revision THEN ctl.next ELSE lws.counts[r]
    BY <2>1, <2>3 DEF TypeOK
  <2>5. WithinBudget'
    BY <2>1, <2>4 DEF WithinBudget, BudgetInv
  <2> QED
    BY <2>1, <2>3, <2>5 DEF BudgetInv, TypeOK
<1>9. CASE DeleteLeader
  <2>1. /\ ctl.at = "delete" /\ ctl'.at = "idle" /\ UNCHANGED <<lws, charges>>
        /\ recreations' = recreations \/ (recreations' = recreations + 1 /\ ctl.recreate)
    BY <1>9 DEF DeleteLeader, Done, Idle
  <2>2. recreations \in Nat /\ charges \in Nat
    BY DEF TypeOK
  <2>3. Backoff \/ Unlimited \notin Limits => recreations' <= charges
    BY <2>1, <2>2 DEF BudgetInv
  <2>4. Backoff \/ Unlimited \notin Limits =>
          recreations' + (IF ctl'.at = "delete" /\ ctl'.recreate THEN 1 ELSE 0) <= charges'
    <3>1. ~(ctl'.at = "delete" /\ ctl'.recreate)
      BY <2>1
    <3>2. recreations' \in Nat
      BY DEF TypeOK
    <3> QED
      BY <2>1, <2>3, <3>1, <3>2
  <2>5. WithinBudget'
    BY <2>1 DEF BudgetInv, WithinBudget
  <2> QED
    BY <2>1, <2>4, <2>5 DEF BudgetInv
<1>10. CASE PruneCounts \/ CleanupCounts \/ LwsGone \/ SetLimit \/ DeleteLws
  <2>1. UNCHANGED <<ctl, charges, recreations>>
    BY <1>10 DEF PruneCounts, CleanupCounts, LwsGone, SetLimit, DeleteLws, Edit
  <2>2. \A r \in Revisions : lws'.counts[r] = lws.counts[r] \/ lws'.counts[r] = 0
    BY <1>10 DEF PruneCounts, CleanupCounts, LwsGone, SetLimit, DeleteLws, TypeOK
  <2> QED
    BY <1>6, <2>1, <2>2
<1>11. CASE \/ ReleaseLeader \/ MarkExhausted \/ HoldDone \/ PatchPending \/ Refused \/ Abort \/ Stop
            \/ \E w \in Workers : ReleaseHeldWorker(w) \/ HoldWorker(w)
  <2>1. UNCHANGED <<lws, charges, recreations>>
    BY <1>11 DEF ReleaseLeader, MarkExhausted, HoldDone, PatchPending, Refused, Abort, Stop,
                 ReleaseHeldWorker, HoldWorker
  <2>2. CASE ReleaseLeader \/ MarkExhausted \/ HoldDone \/ PatchPending \/ Refused \/ Abort \/ Stop
    BY <1>5, <2>1, <2>2 DEF ReleaseLeader, MarkExhausted, HoldDone, PatchPending, Refused, Abort, Stop,
                            Done, Idle
  <2>3. ASSUME NEW w \in Workers, ReleaseHeldWorker(w) \/ HoldWorker(w)
        PROVE  ctl'.at \in {"release", "hold"}
    BY <2>3, CtlFields DEF ReleaseHeldWorker, HoldWorker, Running, Idle, TypeOK
  <2> QED
    BY <1>5, <1>11, <2>1, <2>2, <2>3
<1>12. CASE \/ CreateWorkerStatefulSet \/ ApplyReplicas \/ ApplyPartition \/ StsCreateLeader
            \/ ClusterDeleteLeader \/ LeaderGone \/ CollectLeaderSts \/ DeleteWorkerSts
            \/ CollectWorkerSts \/ CollectWorkers \/ WorkersGone \/ PodStarts \/ LeaderAges
            \/ ObservePods \/ Fault \/ AskRecovery \/ Scale \/ Rollout
  BY <1>1, <1>12
     DEF CreateWorkerStatefulSet, ApplyReplicas, ApplyPartition, StsCreateLeader, ClusterDeleteLeader,
         LeaderGone, CollectLeaderSts, DeleteWorkerSts, CollectWorkerSts, CollectWorkers, WorkersGone,
         PodStarts, LeaderAges, ObservePods, Fault, AskRecovery, Scale, Rollout, Edit
<1>13. ASSUME NEW w \in Workers, ReleaseWorker(w) \/ WorkerGone(w) \/ StsCreateWorker(w)
       PROVE  BudgetInv'
  BY <1>1, <1>13 DEF ReleaseWorker, WorkerGone, StsCreateWorker
<1>14. ASSUME NEW event \in deletions, DropDeletion(event) PROVE BudgetInv'
  BY <1>1, <1>14 DEF DropDeletion
<1>15. CASE UNCHANGED vars
  BY <1>1, <1>15 DEF vars
<1> QED
  BY <1>2, <1>3, <1>4, <1>7, <1>8, <1>9, <1>10, <1>11, <1>12, <1>13, <1>14, <1>15
     DEF Next, Decide, Write, LwsReconcile, Cluster, User

\* The budget invariant holds throughout.
LEMMA BudgetInvariant == Spec => []BudgetInv
<1>1. Init => BudgetInv
  <2> SUFFICES ASSUME Init PROVE BudgetInv
    OBVIOUS
  <2>1. Unlimited \notin Limits => \A limit \in Limits : 0 <= limit
    BY ConstantsAssumption DEF Unlimited
  <2>2. WithinBudget
    BY <2>1, ConstantsAssumption DEF Init, WithinBudget
  <2> QED
    BY <2>2 DEF Init, BudgetInv, Idle
<1>2. TypeOK /\ TypeOK' /\ BudgetInv /\ [Next]_vars => BudgetInv'
  BY BudgetStep
<1> QED
  BY <1>1, <1>2, TypeCorrect, PTL DEF Spec

\* No count exceeds the largest limit the user ever set, whatever the pod
\* cache shows and however often leaders are replaced (the comparison and the
\* write of handleRestartPolicy and persistGroupRestartCount are two steps).
THEOREM WithinBudgetHolds == Spec => []WithinBudget
<1>1. BudgetInv => WithinBudget
  BY DEF BudgetInv
<1> QED
  BY <1>1, BudgetInvariant, PTL

\* Where a limit or a delay is always in force, no group is taken down for a
\* restart that was not charged before.
THEOREM RecreationsChargedHolds == Spec => []RecreationsCharged
<1>1. TypeOK /\ BudgetInv => RecreationsCharged
  BY DEF BudgetInv, RecreationsCharged, TypeOK
<1> QED
  BY <1>1, BudgetInvariant, TypeCorrect, PTL

-----------------------------------------------------------------------------
(* The pods of a group, when reconciles read current pods.                 *)

\* What a step may do to the leader: create the next one, remove it, or patch
\* it without giving it another identity.
LeaderStep ==
  \/ UNCHANGED leader
  \/ leader' = NoPod /\ leader # NoPod
  \/ /\ leader = NoPod /\ leader' \in Leader
     /\ leader'.uid = uid + 1 /\ uid' = uid + 1 /\ ~leader'.foreground
     /\ RacingReplacement \/ ctl = Idle
     /\ UNCHANGED <<workers, wsts, deletions, ctl>>
  \/ /\ leader \in Leader /\ leader' \in Leader
     /\ leader'.uid = leader.uid /\ leader'.revision = leader.revision
     /\ leader.deleting => leader'.deleting
     /\ leader'.foreground => leader.foreground \/ leader'.deleting

\* Every step changes the leader in one of these ways.
LEMMA LeaderSteps ==
  ASSUME TypeOK, TypeOK', [Next]_vars
  PROVE  LeaderStep
<1> USE DEF pods, history, bounds
<1>1. leader \in Leader \cup {NoPod} /\ leader' \in Leader \cup {NoPod}
  BY DEF TypeOK
<1>2. CASE UNCHANGED leader
  BY <1>2 DEF LeaderStep
<1>3. CASE StsCreateLeader
  BY <1>1, <1>3 DEF StsCreateLeader, LeaderStep, NoPod, TypeOK
<1>4. CASE LeaderGone
  BY <1>4 DEF LeaderGone, LeaderStep
<1>5. CASE PatchPending \/ LeaderAges \/ AskRecovery
  BY <1>1, <1>5 DEF PatchPending, LeaderAges, AskRecovery, LeaderStep, Leader
<1>6. CASE (ReleaseLeader \/ MarkExhausted) /\ ~UNCHANGED leader
  <2>1. CASE ReleaseLeader
    <3>1. /\ leader \in Leader
          /\ leader' = [leader EXCEPT !.finalizer = FALSE,
                          !.foreground = leader.foreground /\ ctl.seen.foreground,
                          !.exhausted = leader.exhausted /\ ~ctl.seen.exhausted,
                          !.recover = leader.recover /\ ~ctl.seen.recover]
      BY <1>1, <1>6, <2>1 DEF ReleaseLeader
    <3>2. /\ leader'.uid = leader.uid /\ leader'.revision = leader.revision
          /\ leader'.deleting = leader.deleting /\ (leader'.foreground => leader.foreground)
      BY <3>1 DEF Leader
    <3>3. leader' \in Leader
      <4>1. leader'.uid # 0
        BY <3>1, <3>2 DEF Leader, Uids
      <4> QED
        BY <1>1, <4>1 DEF NoPod
    <3> QED
      BY <3>1, <3>2, <3>3 DEF LeaderStep
  <2>2. CASE MarkExhausted
    BY <1>1, <1>6, <2>2 DEF MarkExhausted, NoNewFinalizer, LeaderStep, Leader
  <2> QED
    BY <1>6, <2>1, <2>2
<1>7. CASE DeleteLeader \/ ClusterDeleteLeader
  BY <1>1, <1>7 DEF DeleteLeader, ClusterDeleteLeader, LeaderStep, Leader
<1>8. CASE PodStarts \/ Fault
  BY <1>1, <1>8 DEF PodStarts, Fault, LeaderStep, Leader
<1>9. CASE \/ ReconcileLeader \/ CreateWorkerStatefulSet \/ ClearCount \/ HoldDone \/ ChargeCount
           \/ Refused \/ PruneCounts \/ ApplyReplicas \/ ApplyPartition \/ CleanupCounts \/ LwsGone
           \/ CollectLeaderSts \/ DeleteWorkerSts \/ CollectWorkerSts \/ CollectWorkers \/ WorkersGone
           \/ ObservePods \/ Abort \/ Stop \/ SetLimit \/ Scale \/ Rollout \/ DeleteLws
  BY <1>2, <1>9
     DEF ReconcileLeader, Start, CreateWorkerStatefulSet, ClearCount, HoldDone, ChargeCount, Refused,
         PruneCounts, ApplyReplicas, ApplyPartition, CleanupCounts, LwsGone, CollectLeaderSts,
         DeleteWorkerSts, CollectWorkerSts, CollectWorkers, WorkersGone, ObservePods, Abort, Stop,
         SetLimit, Scale, Rollout, DeleteLws
<1>10. ASSUME NEW w \in Workers,
              \/ ReconcileWorker(w) \/ ReleaseWorker(w) \/ ReleaseHeldWorker(w) \/ HoldWorker(w)
              \/ WorkerGone(w) \/ StsCreateWorker(w)
       PROVE  LeaderStep
  BY <1>2, <1>10 DEF ReconcileWorker, Start, ReleaseWorker, ReleaseHeldWorker, HoldWorker, WorkerGone,
                     StsCreateWorker
<1>11. ASSUME NEW event \in deletions, ReconcileDeleted(event) \/ DropDeletion(event)
       PROVE  LeaderStep
  BY <1>2, <1>11 DEF ReconcileDeleted, Start, DropDeletion
<1>12. CASE UNCHANGED vars
  BY <1>2, <1>12 DEF vars
<1> QED
  BY <1>2, <1>3, <1>4, <1>5, <1>6, <1>7, <1>8, <1>9, <1>10, <1>11, <1>12
     DEF Next, Decide, Write, LwsReconcile, Cluster, User

Patched(p, q) == p \in Worker /\ q \in Worker /\ q.uid = p.uid /\ q.revision = p.revision

\* What a step may do to a worker: create it for the StatefulSet, remove it,
\* or patch it without giving it another identity.
WorkerStep(w) ==
  \/ workers'[w] = workers[w]
  \/ workers'[w] = NoPod /\ workers[w].deleting /\ ~workers[w].finalizer
  \/ /\ workers[w] = NoPod /\ wsts # NoSts /\ ~wsts.deleting
     /\ workers'[w] = [uid |-> wsts.owner, revision |-> wsts.revision, started |-> ~AfterStart,
                       restarted |-> FALSE, deleting |-> FALSE, finalizer |-> FALSE]
     /\ UNCHANGED <<leader, wsts, ctl>>
  \/ Patched(workers[w], workers'[w])

\* Setting a flag patches a worker.
LEMMA FlagsPatch ==
  ASSUME NEW p \in Worker, NEW b \in BOOLEAN
  PROVE  /\ Patched(p, [p EXCEPT !.started = b]) /\ Patched(p, [p EXCEPT !.restarted = b])
         /\ Patched(p, [p EXCEPT !.deleting = b]) /\ Patched(p, [p EXCEPT !.finalizer = b])
  BY DEF Patched, Worker

\* Every step changes the workers in one of these ways.
LEMMA WorkerSteps ==
  ASSUME TypeOK, TypeOK', [Next]_vars, NEW w \in Workers
  PROVE  WorkerStep(w)
<1> USE DEF pods, history, bounds
<1>1. /\ workers \in [Workers -> Worker \cup {NoPod}]
      /\ workers' \in [Workers -> Worker \cup {NoPod}]
  BY DEF TypeOK
<1>2. CASE UNCHANGED workers
  BY <1>2 DEF WorkerStep
<1>3. ASSUME NEW v \in Workers, ReleaseWorker(v) \/ ReleaseHeldWorker(v) \/ HoldWorker(v)
      PROVE  WorkerStep(w)
  <2>1. CASE ReleaseWorker(v) \/ ReleaseHeldWorker(v)
    <3>1. workers[v] \in Worker /\ workers' = [workers EXCEPT ![v] = [workers[v] EXCEPT !.finalizer = FALSE]]
      BY <1>1, <2>1 DEF ReleaseWorker, ReleaseHeldWorker
    <3> QED
      BY <1>1, <3>1, FlagsPatch DEF WorkerStep
  <2>2. CASE HoldWorker(v)
    <3>1. workers[v] \in Worker /\ workers' = [workers EXCEPT ![v] = [workers[v] EXCEPT !.finalizer = TRUE]]
      BY <1>1, <2>2 DEF HoldWorker, NoNewFinalizer
    <3> QED
      BY <1>1, <3>1, FlagsPatch DEF WorkerStep
  <2> QED
    BY <1>3, <2>1, <2>2
<1>4. ASSUME NEW v \in Workers, WorkerGone(v) PROVE WorkerStep(w)
  BY <1>1, <1>4 DEF WorkerGone, WorkerStep
<1>5. ASSUME NEW v \in Workers, StsCreateWorker(v) PROVE WorkerStep(w)
  BY <1>1, <1>5 DEF StsCreateWorker, WorkerStep
<1>6. CASE DeleteWorkerSts
  <2>1. wsts # NoSts
    BY <1>6 DEF DeleteWorkerSts, TypeOK, TerminateParallel, LeaderSeen, Leader, Uids, NoPod, NoSts
  <2>2. workers[w].uid = wsts.owner => workers[w] \in Worker
    BY <1>1, <2>1 DEF TypeOK, NoPod, Uids
  <2> QED
    BY <1>1, <1>6, <2>2, FlagsPatch DEF DeleteWorkerSts, DeletingWorkers, WorkerStep
<1>7. CASE CollectWorkers
  BY <1>1, <1>7, FlagsPatch DEF CollectWorkers, DeletingWorkers, WorkerStep
<1>8. CASE PodStarts \/ Fault
  <2>1. CASE PodStarts
    <3>1. CASE UNCHANGED workers
      BY <1>2, <3>1
    <3>2. ASSUME NEW v \in Workers, workers[v] # NoPod, workers' = [workers EXCEPT ![v].started = TRUE]
          PROVE  WorkerStep(w)
      BY <1>1, <3>2, FlagsPatch DEF WorkerStep
    <3> QED
      BY <2>1, <3>1, <3>2 DEF PodStarts
  <2>2. CASE Fault
    <3>1. CASE UNCHANGED workers
      BY <1>2, <3>1
    <3>2. ASSUME NEW v \in Workers, workers[v] # NoPod,
                 \/ workers' = [workers EXCEPT ![v].restarted = TRUE]
                 \/ workers' = [workers EXCEPT ![v].deleting = TRUE]
          PROVE  WorkerStep(w)
      BY <1>1, <3>2, FlagsPatch DEF WorkerStep
    <3> QED
      BY <2>2, <3>1, <3>2 DEF Fault
  <2> QED
    BY <1>8, <2>1, <2>2
<1>9. CASE \/ ReconcileLeader \/ CreateWorkerStatefulSet \/ ClearCount \/ ReleaseLeader
           \/ MarkExhausted \/ HoldDone \/ PatchPending \/ ChargeCount \/ DeleteLeader \/ Refused
           \/ PruneCounts \/ ApplyReplicas \/ ApplyPartition \/ CleanupCounts
           \/ StsCreateLeader \/ ClusterDeleteLeader \/ LeaderGone \/ LwsGone
           \/ CollectLeaderSts \/ CollectWorkerSts \/ WorkersGone \/ LeaderAges
           \/ ObservePods \/ Abort \/ Stop \/ AskRecovery \/ SetLimit \/ Scale \/ Rollout \/ DeleteLws
  BY <1>2, <1>9
     DEF ReconcileLeader, Start, CreateWorkerStatefulSet, ClearCount, ReleaseLeader, MarkExhausted,
         HoldDone, PatchPending, ChargeCount, DeleteLeader, Refused, PruneCounts, ApplyReplicas,
         ApplyPartition, CleanupCounts, StsCreateLeader, ClusterDeleteLeader, LeaderGone, LwsGone,
         CollectLeaderSts, CollectWorkerSts, WorkersGone, LeaderAges, ObservePods, Abort, Stop,
         AskRecovery, SetLimit, Scale, Rollout, DeleteLws, Edit
<1>10. ASSUME NEW v \in Workers, ReconcileWorker(v) PROVE WorkerStep(w)
  BY <1>2, <1>10 DEF ReconcileWorker, Start
<1>11. ASSUME NEW event \in deletions, ReconcileDeleted(event) \/ DropDeletion(event)
       PROVE  WorkerStep(w)
  BY <1>2, <1>11 DEF ReconcileDeleted, Start, DropDeletion
<1>12. CASE UNCHANGED vars
  BY <1>2, <1>12 DEF vars
<1> QED
  BY <1>3, <1>4, <1>5, <1>6, <1>7, <1>8, <1>9, <1>10, <1>11, <1>12
     DEF Next, Decide, Write, LwsReconcile, Cluster, User

\* What a step may do to the worker StatefulSet: create it for the leader,
\* start its deletion, or remove it.
StsStep ==
  \/ UNCHANGED wsts
  \/ /\ wsts = NoSts /\ leader \in Leader /\ ~leader.deleting /\ ctl = Idle
     /\ wsts' = [owner |-> leader.uid, revision |-> leader.revision, deleting |-> FALSE]
     /\ UNCHANGED <<leader, workers, ctl>>
  \/ /\ wsts # NoSts /\ wsts' = [wsts EXCEPT !.deleting = TRUE]
     /\ leader # NoPod /\ leader.uid = wsts.owner /\ (leader.foreground \/ leader.deleting)
     /\ UNCHANGED <<leader, ctl>>
  \/ /\ wsts # NoSts /\ wsts' = NoSts
     /\ leader.uid # wsts.owner \/ (wsts.deleting /\ \A w \in Workers : workers[w].uid # wsts.owner)
     /\ UNCHANGED <<leader, workers, ctl>>

\* Every step changes the worker StatefulSet in one of these ways.
LEMMA StsSteps ==
  ASSUME ~LagPods, TypeOK, [Next]_vars
  PROVE  StsStep
<1> USE DEF pods, history, bounds
<1>1. LeaderSeen = leader /\ leader \in Leader \cup {NoPod}
  BY DEF LeaderSeen, TypeOK
<1>2. CASE UNCHANGED wsts
  BY <1>2 DEF StsStep
<1>3. CASE CreateWorkerStatefulSet
  BY <1>1, <1>3 DEF CreateWorkerStatefulSet, StsStep
<1>4. CASE DeleteWorkerSts
  <2>1. wsts # NoSts /\ leader # NoPod
    BY <1>4 DEF DeleteWorkerSts, TypeOK, TerminateParallel, LeaderSeen, Leader, Uids, NoPod, NoSts
  <2> QED
    BY <1>1, <1>4, <2>1 DEF DeleteWorkerSts, TerminateParallel, StsStep
<1>5. CASE CollectWorkerSts \/ WorkersGone
  BY <1>5 DEF CollectWorkerSts, WorkersGone, StsStep
<1>6. CASE \/ ReconcileLeader \/ ClearCount \/ ReleaseLeader
           \/ MarkExhausted \/ HoldDone \/ PatchPending \/ ChargeCount \/ DeleteLeader \/ Refused
           \/ PruneCounts \/ ApplyReplicas \/ ApplyPartition \/ CleanupCounts
           \/ StsCreateLeader \/ ClusterDeleteLeader \/ LeaderGone \/ LwsGone
           \/ CollectLeaderSts \/ CollectWorkers \/ PodStarts \/ LeaderAges \/ Fault
           \/ ObservePods \/ Abort \/ Stop \/ AskRecovery \/ SetLimit \/ Scale \/ Rollout \/ DeleteLws
  BY <1>2, <1>6
     DEF ReconcileLeader, Start, ClearCount, ReleaseLeader, MarkExhausted,
         HoldDone, PatchPending, ChargeCount, DeleteLeader, Refused, PruneCounts, ApplyReplicas,
         ApplyPartition, CleanupCounts, StsCreateLeader, ClusterDeleteLeader, LeaderGone, LwsGone,
         CollectLeaderSts, CollectWorkers, PodStarts, LeaderAges, Fault, ObservePods, Abort, Stop,
         AskRecovery, SetLimit, Scale, Rollout, DeleteLws, Edit
<1>7. ASSUME NEW w \in Workers,
             \/ ReconcileWorker(w) \/ ReleaseWorker(w) \/ ReleaseHeldWorker(w) \/ HoldWorker(w)
             \/ WorkerGone(w) \/ StsCreateWorker(w)
      PROVE  StsStep
  BY <1>2, <1>7 DEF ReconcileWorker, Start, ReleaseWorker, ReleaseHeldWorker, HoldWorker, WorkerGone,
                    StsCreateWorker
<1>8. ASSUME NEW event \in deletions, ReconcileDeleted(event) \/ DropDeletion(event)
      PROVE  StsStep
  BY <1>2, <1>8 DEF ReconcileDeleted, Start, DropDeletion
<1>9. CASE UNCHANGED vars
  BY <1>2, <1>9 DEF vars
<1> QED
  BY <1>3, <1>4, <1>5, <1>6, <1>7, <1>8, <1>9 DEF Next, Decide, Write, LwsReconcile, Cluster, User

\* What a step may do to the running reconcile: end it, let it go on with the
\* leader it read, or start one with the leader of today.
CtlStep ==
  \/ ctl' = Idle
  \/ ctl # Idle /\ ctl' # Idle /\ ctl'.seen = ctl.seen
  \/ ctl = Idle /\ leader \in Leader /\ ctl'.seen = leader /\ UNCHANGED pods

\* Every step changes the running reconcile in one of these ways.
LEMMA CtlSteps ==
  ASSUME ~LagPods, TypeOK, TypeOK', [Next]_vars
  PROVE  CtlStep
<1> USE DEF pods, history, bounds
<1>1. LeaderSeen = leader /\ leader \in Leader \cup {NoPod}
  BY DEF LeaderSeen, TypeOK
<1>2. CASE UNCHANGED ctl
  BY <1>2 DEF CtlStep
<1>3. ASSUME NEW l, NEW from, l # NoPod, l = leader PROVE Recreate(l, from) = Idle \/ Recreate(l, from).seen = l
  BY DEF Recreate, At, Idle
<1>4. CASE ReconcileLeader
  <2>1. ctl' = Idle \/ ctl'.seen = leader
    BY <1>1, <1>3, <1>4 DEF ReconcileLeader, Start, reconcileLeader, AtRelease, At
  <2> QED
    BY <1>1, <1>4, <2>1 DEF ReconcileLeader, Start, CtlStep
<1>5. ASSUME NEW pod, NEW from, Start(handleRestartPolicy(pod, from)) PROVE CtlStep
  <2>1. leader # NoPod /\ ctl'.seen = leader
    BY <1>1, <1>3, <1>5 DEF Start, handleRestartPolicy
  <2> QED
    BY <1>1, <1>5, <2>1 DEF Start, CtlStep
<1>6. CASE ClearCount \/ MarkExhausted \/ HoldDone \/ ChargeCount
  BY <1>6 DEF ClearCount, MarkExhausted, HoldDone, ChargeCount, AtRelease, Idle, CtlStep
<1>7. ASSUME NEW w \in Workers, ReleaseHeldWorker(w) \/ HoldWorker(w) PROVE CtlStep
  BY <1>7, CtlFields DEF ReleaseHeldWorker, HoldWorker, Idle, CtlStep, Running, TypeOK
<1>8. CASE ReleaseLeader \/ DeleteLeader \/ PatchPending \/ Refused \/ Abort \/ Stop
  BY <1>8 DEF ReleaseLeader, DeleteLeader, Done, PatchPending, Refused, Abort, Stop, CtlStep
<1>9. CASE \/ CreateWorkerStatefulSet \/ PruneCounts \/ ApplyReplicas \/ ApplyPartition \/ CleanupCounts
           \/ StsCreateLeader \/ ClusterDeleteLeader \/ LeaderGone \/ LwsGone \/ CollectLeaderSts
           \/ DeleteWorkerSts \/ CollectWorkerSts \/ CollectWorkers \/ WorkersGone \/ PodStarts
           \/ LeaderAges \/ Fault \/ ObservePods \/ AskRecovery \/ SetLimit \/ Scale \/ Rollout \/ DeleteLws
  BY <1>2, <1>9
     DEF CreateWorkerStatefulSet, PruneCounts, ApplyReplicas, ApplyPartition, CleanupCounts,
         StsCreateLeader, ClusterDeleteLeader, LeaderGone, LwsGone, CollectLeaderSts, DeleteWorkerSts,
         CollectWorkerSts, CollectWorkers, WorkersGone, PodStarts, LeaderAges, Fault, ObservePods,
         AskRecovery, SetLimit, Scale, Rollout, DeleteLws, Edit
<1>10. ASSUME NEW w \in Workers,
              ReconcileWorker(w) \/ ReleaseWorker(w) \/ WorkerGone(w) \/ StsCreateWorker(w)
       PROVE  CtlStep
  BY <1>2, <1>5, <1>10 DEF ReconcileWorker, ReleaseWorker, WorkerGone, StsCreateWorker
<1>11. ASSUME NEW event \in deletions, ReconcileDeleted(event) \/ DropDeletion(event)
       PROVE  CtlStep
  BY <1>2, <1>5, <1>11 DEF ReconcileDeleted, DropDeletion
<1>12. CASE UNCHANGED vars
  BY <1>2, <1>12 DEF vars
<1> QED
  BY <1>4, <1>6, <1>7, <1>8, <1>9, <1>10, <1>11, <1>12
     DEF Next, Decide, Write, LwsReconcile, Cluster, User

\* What a step may do to the delete events: forget some, or add that of a
\* worker that goes.
DeletionStep ==
  /\ uid' \in {uid, uid + 1}
  /\ \/ deletions' \subseteq deletions
     \/ \E w \in Workers : /\ workers[w] # NoPod /\ workers[w].deleting
                           /\ deletions' = deletions \cup {[worker |-> w, pod |-> workers[w]]}

\* Every step changes the delete events in one of these ways.
LEMMA DeletionSteps ==
  ASSUME [Next]_vars
  PROVE  DeletionStep
<1> USE DEF pods, history, bounds
<1>1. CASE deletions' \subseteq deletions /\ UNCHANGED uid
  BY <1>1 DEF DeletionStep
<1>2. CASE \/ ReconcileLeader \/ CreateWorkerStatefulSet \/ ClearCount \/ ReleaseLeader
           \/ MarkExhausted \/ HoldDone \/ PatchPending \/ ChargeCount \/ DeleteLeader \/ Refused
           \/ PruneCounts \/ ApplyReplicas \/ ApplyPartition \/ CleanupCounts
           \/ ClusterDeleteLeader \/ LeaderGone \/ LwsGone \/ CollectLeaderSts
           \/ DeleteWorkerSts \/ CollectWorkerSts \/ CollectWorkers \/ WorkersGone \/ PodStarts
           \/ LeaderAges \/ Fault \/ ObservePods \/ Abort \/ Stop
           \/ AskRecovery \/ SetLimit \/ Scale \/ Rollout \/ DeleteLws
  BY <1>1, <1>2
     DEF ReconcileLeader, Start, CreateWorkerStatefulSet, ClearCount, ReleaseLeader, Done, MarkExhausted,
         HoldDone, PatchPending, ChargeCount, DeleteLeader, Refused, PruneCounts, ApplyReplicas,
         ApplyPartition, CleanupCounts, ClusterDeleteLeader, LeaderGone, LwsGone, CollectLeaderSts,
         DeleteWorkerSts, CollectWorkerSts, CollectWorkers, WorkersGone, PodStarts, LeaderAges, Fault,
         ObservePods, Abort, Stop, AskRecovery, SetLimit, Scale, Rollout, DeleteLws, Edit
<1>3. CASE StsCreateLeader
  BY <1>3 DEF StsCreateLeader, DeletionStep
<1>4. ASSUME NEW w \in Workers, WorkerGone(w) PROVE DeletionStep
  BY <1>4 DEF WorkerGone, DeletionStep
<1>5. ASSUME NEW w \in Workers,
             \/ ReconcileWorker(w) \/ ReleaseWorker(w) \/ ReleaseHeldWorker(w) \/ HoldWorker(w)
             \/ StsCreateWorker(w)
      PROVE  DeletionStep
  BY <1>1, <1>5 DEF ReconcileWorker, Start, ReleaseWorker, ReleaseHeldWorker, HoldWorker, StsCreateWorker
<1>6. ASSUME NEW event \in deletions, ReconcileDeleted(event) \/ DropDeletion(event)
      PROVE  DeletionStep
  BY <1>1, <1>6 DEF ReconcileDeleted, Start, DropDeletion
<1>7. CASE UNCHANGED vars
  BY <1>1, <1>7 DEF vars
<1> QED
  BY <1>2, <1>3, <1>4, <1>5, <1>6, <1>7 DEF Next, Decide, Write, LwsReconcile, Cluster, User

\* Every step keeps the numbering of the groups.
LEMMA UidStep ==
  ASSUME ~LagPods, TypeOK, TypeOK', UidInv, [Next]_vars
  PROVE  UidInv'
<1>1. /\ uid \in Nat /\ uid' \in Nat /\ uid <= uid'
      /\ \/ deletions' \subseteq deletions
         \/ \E w \in Workers : deletions' = deletions \cup {[worker |-> w, pod |-> workers[w]]}
  BY DeletionSteps, ConstantsAssumption DEF DeletionStep, TypeOK
<1>2. /\ leader.uid \in Nat /\ leader'.uid \in Nat /\ wsts.owner \in Nat
      /\ \A w \in Workers : workers[w].uid \in Nat
      /\ \A event \in deletions : event.pod.uid \in Nat
  BY DEF TypeOK, Leader, Worker, NoPod, NoSts, Uids, Deletion
<1>3. leader'.uid <= uid'
  BY <1>1, <1>2, LeaderSteps DEF LeaderStep, UidInv, NoPod
<1>4. wsts'.owner <= uid'
  <2>1. wsts'.owner \in {wsts.owner, leader.uid, 0}
    BY StsSteps DEF StsStep, NoSts, TypeOK
  <2> QED
    BY <1>1, <1>2, <2>1 DEF UidInv
<1>5. ASSUME NEW w \in Workers PROVE workers'[w].uid <= uid'
  <2>1. workers'[w].uid \in {workers[w].uid, wsts.owner, 0}
    BY WorkerSteps DEF WorkerStep, Patched, NoPod
  <2> QED
    BY <1>1, <1>2, <2>1 DEF UidInv
<1>6. ASSUME NEW event \in deletions' PROVE event.pod.uid <= uid'
  <2>1. event \in deletions \/ \E w \in Workers : event.pod = workers[w]
    BY <1>1
  <2> QED
    BY <1>1, <1>2, <2>1 DEF UidInv
<1> QED
  BY <1>3, <1>4, <1>5, <1>6 DEF UidInv

\* Every step keeps the pods of a group together.
LEMMA GroupStep ==
  ASSUME ~LagPods, TypeOK, TypeOK', UidInv, GroupInv, [Next]_vars
  PROVE  GroupInv'
<1>1. LeaderStep /\ StsStep /\ \A w \in Workers : WorkerStep(w)
  BY LeaderSteps, StsSteps, WorkerSteps
<1>2. /\ uid \in Nat /\ leader.uid \in Nat /\ wsts.owner \in Nat
      /\ \A w \in Workers : workers[w].uid \in Nat
      /\ wsts = NoSts <=> wsts.owner = 0
      /\ leader = NoPod <=> leader.uid = 0
      /\ leader' = NoPod <=> leader'.uid = 0
      /\ leader \in Leader => leader # NoPod
  BY ConstantsAssumption DEF TypeOK, Leader, Worker, NoPod, NoSts, Uids
<1>3. leader' # NoPod /\ leader'.foreground => leader'.deleting
  BY <1>1, <1>2 DEF LeaderStep, GroupInv
<1>4. leader' # NoPod /\ wsts'.owner = leader'.uid => wsts'.revision = leader'.revision
  BY <1>1, <1>2 DEF LeaderStep, StsStep, GroupInv, UidInv, TypeOK, NoSts
<1>5. leader' # NoPod /\ ~leader'.deleting /\ wsts'.owner = leader'.uid => ~wsts'.deleting
  BY <1>1, <1>2 DEF LeaderStep, StsStep, GroupInv, UidInv, TypeOK, NoSts
<1>6. ASSUME NEW w \in Workers, leader' # NoPod, workers'[w].uid = leader'.uid
      PROVE  /\ workers'[w].revision = leader'.revision
             /\ ~leader'.deleting => wsts'.owner = leader'.uid
  <2>1. leader' = leader \/ (leader \in Leader /\ leader'.uid = leader.uid /\ leader'.revision = leader.revision
                              /\ (leader.deleting => leader'.deleting))
    BY <1>1, <1>2, <1>6 DEF LeaderStep, UidInv
  <2>2. workers'[w].revision = leader'.revision
    BY <1>1, <1>2, <1>6, <2>1 DEF WorkerStep, Patched, GroupInv, NoPod
  <2>3. ~leader'.deleting => wsts'.owner = leader'.uid
    BY <1>1, <1>2, <1>6, <2>1 DEF WorkerStep, Patched, StsStep, GroupInv, NoPod, TypeOK
  <2> QED
    BY <2>2, <2>3
<1> QED
  BY <1>3, <1>4, <1>5, <1>6 DEF GroupInv

-----------------------------------------------------------------------------
(* One charge for one failure.                                             *)

\* A reconcile decides for a charge or a delay only on evidence.
LEMMA DecisionsOnEvidence ==
  ASSUME ~LagPods, TypeOK, ctl = Idle
  PROVE  /\ leader # NoPod /\ reconcileLeader(leader).at \in {"charge", "pend"} => Evidence
         /\ \A w \in Workers :
              handleRestartPolicy(workers[w], NoDeletion).at \in {"charge", "pend"} => Evidence
         /\ \A event \in deletions :
              handleRestartPolicy(event.pod, event).at \in {"charge", "pend"} => Evidence
<1>1. LeaderSeen = leader
  BY DEF LeaderSeen
<1>2. \A l, from : Recreate(l, from).at \in {"charge", "pend"} => ~l.exhausted
  BY DEF Recreate, At, Idle
<1>3. leader # NoPod /\ reconcileLeader(leader).at \in {"charge", "pend"} => Evidence
  BY <1>2 DEF reconcileLeader, AtRelease, At, Idle, Evidence
<1>4. ASSUME NEW pod, NEW from, handleRestartPolicy(pod, from).at \in {"charge", "pend"}
      PROVE  /\ leader # NoPod /\ ~leader.deleting /\ pod.uid = leader.uid
             /\ leader.pending \/ pod.restarted \/ pod.deleting
  BY <1>1, <1>4 DEF handleRestartPolicy, workerPodBelongsToLeader, Idle
<1> QED
  BY <1>3, <1>4 DEF Evidence

\* A step that gives a leader that is not being deleted no new evidence.
NoNewEvidence ==
  \/ leader' = NoPod \/ leader'.deleting
  \/ /\ leader # NoPod /\ ~leader.deleting /\ leader'.uid = leader.uid
     /\ leader'.restarted => leader.restarted
     /\ leader'.pending => leader.pending \/ ctl.at = "pend"
     /\ \A w \in Workers : workers'[w].uid = leader.uid /\ (workers'[w].restarted \/ workers'[w].deleting)
          => workers[w].uid = leader.uid /\ (workers[w].restarted \/ workers[w].deleting)
     /\ \A event \in deletions' : event.pod.uid = leader.uid =>
          \/ event \in deletions
          \/ \E w \in Workers : event.pod = workers[w] /\ workers[w].deleting

\* Such a step leaves no failure unpaid that was paid before.
LEMMA NoNewEvidenceUnpaid ==
  ASSUME NoNewEvidence, ctl'.at \in {"charge", "pend"} => ctl.at = ctl'.at,
         ctl.at = "delete" /\ ctl.recreate => UNCHANGED ctl \/ leader' = NoPod \/ leader'.deleting
  PROVE  Unpaid' => Unpaid
<1>1. Evidence' => Evidence \/ ctl.at = "pend"
  BY DEF NoNewEvidence, Evidence
<1>2. leader' = NoPod \/ leader'.deleting => ~Evidence'
  BY DEF Evidence
<1> QED
  BY <1>1, <1>2 DEF Unpaid

\* Every step keeps the account of charges and failures.
LEMMA ChargeStep ==
  ASSUME ~LagPods, TypeOK, TypeOK', UidInv, GroupInv, ChargeInv, [Next]_vars
  PROVE  ChargeInv'
<1> USE DEF pods, history, bounds
<1>0. /\ charges \in Nat /\ faults \in Nat /\ aborts \in Nat
      /\ leader \in Leader \cup {NoPod} /\ workers \in [Workers -> Worker \cup {NoPod}]
      /\ leader # NoPod => leader.uid \in Nat \ {0}
      /\ uid \in Nat
  BY ConstantsAssumption DEF TypeOK, Leader, Uids
<1>1. CASE UNCHANGED <<charges, faults, aborts>> /\ (Unpaid' => Unpaid)
  BY <1>0, <1>1 DEF ChargeInv
<1>2. CASE Fault \/ Abort \/ Stop
  <2>1. charges' = charges /\ faults' + aborts' = faults + aborts + 1
    BY <1>0, <1>2 DEF Fault, Abort, Stop
  <2> QED
    BY <1>0, <2>1 DEF ChargeInv
<1>3. CASE ChargeCount
  <2>1. /\ charges' \in {charges, charges + 1} /\ UNCHANGED <<faults, aborts>>
        /\ ctl.at = "charge" /\ ctl'.at = "delete" /\ ctl'.recreate
    BY <1>3 DEF ChargeCount
  <2>2. Unpaid /\ ~Unpaid'
    BY <2>1 DEF Unpaid
  <2>3. charges + 1 <= faults + aborts
    BY <2>2 DEF ChargeInv
  <2>4. charges' <= faults' + aborts' /\ charges' \in Nat
    BY <1>0, <2>1, <2>3
  <2> QED
    BY <2>2, <2>4 DEF ChargeInv
\* A reconcile starts.
<1>4. ASSUME NEW place, Start(place), place.at \in {"charge", "pend"} => Evidence
      PROVE  ChargeInv'
  <2>1. ctl.at = "idle" /\ ctl' = place /\ UNCHANGED <<leader, workers, deletions, charges, faults, aborts>>
    BY <1>4 DEF Start, Idle
  <2>2. Evidence' => Evidence
    BY <1>4, <2>1 DEF Evidence
  <2>3. Unpaid' => Unpaid
    BY <1>4, <2>1, <2>2 DEF Unpaid
  <2> QED
    BY <1>1, <2>1, <2>3
<1>5. CASE ReconcileLeader
  <2>1. ctl = Idle /\ leader # NoPod /\ Start(reconcileLeader(leader))
    BY <1>5 DEF ReconcileLeader, LeaderSeen, Start
  <2> QED
    BY <1>4, <2>1, DecisionsOnEvidence
<1>6. ASSUME NEW w \in Workers, ReconcileWorker(w) PROVE ChargeInv'
  <2>1. ctl = Idle /\ Start(handleRestartPolicy(workers[w], NoDeletion))
    BY <1>6 DEF ReconcileWorker, WorkersSeen, Start
  <2> QED
    BY <1>4, <2>1, DecisionsOnEvidence
<1>7. ASSUME NEW event \in deletions, ReconcileDeleted(event) PROVE ChargeInv'
  <2>1. ctl = Idle /\ Start(handleRestartPolicy(event.pod, event))
    BY <1>7 DEF ReconcileDeleted, Start
  <2> QED
    BY <1>4, <2>1, DecisionsOnEvidence
\* Neither the pods nor the reconcile change.
<1>8. CASE UNCHANGED <<leader, workers, ctl, charges, faults, aborts>> /\ deletions' \subseteq deletions
  <2>1. Unpaid' => Unpaid
    BY <1>8 DEF Unpaid, Evidence
  <2> QED
    BY <1>1, <1>8, <2>1
<1>9. CASE \/ CreateWorkerStatefulSet \/ PruneCounts \/ ApplyReplicas \/ ApplyPartition \/ CleanupCounts
           \/ LwsGone \/ CollectLeaderSts \/ CollectWorkerSts \/ WorkersGone \/ ObservePods
           \/ SetLimit \/ Scale \/ Rollout \/ DeleteLws
  BY <1>8, <1>9
     DEF CreateWorkerStatefulSet, PruneCounts, ApplyReplicas, ApplyPartition, CleanupCounts, LwsGone,
         CollectLeaderSts, CollectWorkerSts, WorkersGone, ObservePods, SetLimit, Scale, Rollout,
         DeleteLws, Edit
<1>10. ASSUME NEW event \in deletions, DropDeletion(event) PROVE ChargeInv'
  BY <1>8, <1>10 DEF DropDeletion
\* A write of the reconcile that touches no worker.
<1>11. CASE ClearCount \/ MarkExhausted \/ HoldDone \/ Refused \/ ReleaseLeader \/ PatchPending
  <2>1. /\ UNCHANGED <<workers, charges, faults, aborts>> /\ deletions' \subseteq deletions
        /\ ctl'.at \in {"idle", "release", "hold", "delete"}
    BY <1>11 DEF ClearCount, AtRelease, MarkExhausted, HoldDone, Refused, ReleaseLeader, PatchPending,
                 Done, Idle
  <2>2. ctl.at = "delete" => leader' = NoPod
    BY <1>11 DEF ClearCount, MarkExhausted, HoldDone, Refused, ReleaseLeader, PatchPending
  <2>3. \/ leader' = NoPod
        \/ /\ leader # NoPod /\ leader'.uid = leader.uid /\ leader'.deleting = leader.deleting
           /\ leader'.restarted = leader.restarted
           /\ leader'.pending => leader.pending \/ ctl.at = "pend"
    <3>1. CASE UNCHANGED leader
      BY <3>1
    <3>2. CASE ReleaseLeader /\ ~UNCHANGED leader
      <4>1. /\ leader \in Leader /\ leader # NoPod
            /\ leader' = [leader EXCEPT !.finalizer = FALSE,
                            !.foreground = leader.foreground /\ ctl.seen.foreground,
                            !.exhausted = leader.exhausted /\ ~ctl.seen.exhausted,
                            !.recover = leader.recover /\ ~ctl.seen.recover]
        BY <1>0, <3>2 DEF ReleaseLeader
      <4>2. /\ leader'.uid = leader.uid /\ leader'.deleting = leader.deleting
            /\ leader'.restarted = leader.restarted /\ leader'.pending = leader.pending
        BY <4>1 DEF Leader
      <4> QED
        BY <4>1, <4>2
    <3>3. CASE MarkExhausted /\ ~UNCHANGED leader
      <4>1. /\ leader \in Leader /\ leader # NoPod
            /\ leader' = [leader EXCEPT !.exhausted = TRUE, !.finalizer = TRUE,
                            !.recover = leader.recover /\ (ctl.seen.exhausted \/ ~ctl.seen.recover)]
        BY <1>0, <3>3 DEF MarkExhausted, NoNewFinalizer
      <4>2. /\ leader'.uid = leader.uid /\ leader'.deleting = leader.deleting
            /\ leader'.restarted = leader.restarted /\ leader'.pending = leader.pending
        BY <4>1 DEF Leader
      <4> QED
        BY <4>1, <4>2
    <3>4. CASE PatchPending
      BY <1>0, <3>4 DEF PatchPending, Leader
    <3> QED
      BY <1>11, <3>1, <3>2, <3>3, <3>4 DEF ClearCount, HoldDone, Refused
  <2>4. NoNewEvidence
    BY <2>1, <2>3 DEF NoNewEvidence
  <2> QED
    BY <1>1, <2>1, <2>2, <2>4, NoNewEvidenceUnpaid
\* The leader goes.
<1>12. CASE DeleteLeader \/ ClusterDeleteLeader \/ LeaderGone
  <2>1. UNCHANGED <<charges, faults, aborts>> /\ (UNCHANGED ctl \/ ctl'.at = "idle")
    BY <1>12 DEF DeleteLeader, Done, Idle, ClusterDeleteLeader, LeaderGone
  <2>2. leader' = NoPod \/ leader'.deleting
    BY <1>0, <1>12 DEF DeleteLeader, ClusterDeleteLeader, LeaderGone, Leader
  <2> QED
    BY <1>1, <2>1, <2>2, NoNewEvidenceUnpaid DEF NoNewEvidence
\* The pods and events that remain of earlier groups say nothing of a new leader.
<1>13. CASE StsCreateLeader
  <2>1. /\ UNCHANGED <<workers, deletions, ctl, charges, faults, aborts>>
        /\ leader'.uid = uid + 1 /\ ~leader'.restarted /\ ~leader'.pending
    BY <1>13 DEF StsCreateLeader
  <2>2. \A w \in Workers : workers[w].uid # uid + 1
    BY <1>0 DEF UidInv, TypeOK, Worker, NoPod, Uids
  <2>3. \A event \in deletions : event.pod.uid # uid + 1
    BY <1>0 DEF UidInv, TypeOK, Deletion, Worker, Uids
  <2>4. Unpaid' => Unpaid
    BY <2>1, <2>2, <2>3 DEF Unpaid, Evidence
  <2> QED
    BY <1>1, <2>1, <2>4
\* Other flags of the leader change.
<1>14. CASE (LeaderAges \/ AskRecovery \/ PodStarts) /\ UNCHANGED workers
  <2>1. UNCHANGED <<deletions, ctl, charges, faults, aborts>>
    BY <1>14 DEF LeaderAges, AskRecovery, Edit, PodStarts
  <2>2. \/ UNCHANGED leader
        \/ /\ leader # NoPod /\ leader'.uid = leader.uid /\ leader'.deleting = leader.deleting
           /\ leader'.restarted = leader.restarted /\ leader'.pending = leader.pending
    BY <1>0, <1>14 DEF LeaderAges, AskRecovery, PodStarts, Leader
  <2>3. NoNewEvidence
    BY <1>14, <2>1, <2>2 DEF NoNewEvidence
  <2> QED
    BY <1>1, <2>1, <2>3, NoNewEvidenceUnpaid
\* Other flags of a worker change.
<1>15. ASSUME NEW w \in Workers,
              workers[w] # NoPod, UNCHANGED <<leader, deletions, charges, faults, aborts>>, ctl'.at = ctl.at,
              ctl.at = "delete" => UNCHANGED ctl,
              \/ \E b \in BOOLEAN : workers' = [workers EXCEPT ![w].finalizer = b]
              \/ workers' = [workers EXCEPT ![w].started = TRUE]
       PROVE  ChargeInv'
  <2>1. \A v \in Workers : /\ workers'[v].uid = workers[v].uid
                           /\ workers'[v] = workers[v] \/ /\ workers'[v].restarted = workers[v].restarted
                                                          /\ workers'[v].deleting = workers[v].deleting
    BY <1>0, <1>15 DEF Worker
  <2>2. NoNewEvidence
    BY <1>15, <2>1 DEF NoNewEvidence
  <2> QED
    BY <1>1, <1>15, <2>2, NoNewEvidenceUnpaid
<1>16. CASE PodStarts /\ ~UNCHANGED workers
  <2>1. PICK w \in Workers : workers[w] # NoPod /\ workers' = [workers EXCEPT ![w].started = TRUE]
    BY <1>16 DEF PodStarts
  <2>2. UNCHANGED <<leader, deletions, ctl, charges, faults, aborts>>
    BY <1>16 DEF PodStarts
  <2> QED
    BY <1>15, <2>1, <2>2
<1>17. ASSUME NEW w \in Workers, ReleaseWorker(w) \/ ReleaseHeldWorker(w) \/ HoldWorker(w) PROVE ChargeInv'
  <2>1. /\ workers[w] # NoPod /\ UNCHANGED <<leader, deletions, charges, faults, aborts>>
        /\ \E b \in BOOLEAN : workers' = [workers EXCEPT ![w].finalizer = b]
        /\ UNCHANGED ctl \/ (ctl.at \in {"release", "hold"} /\ ctl' = [ctl EXCEPT !.left = ctl.left \ {w}])
    BY <1>17 DEF ReleaseWorker, ReleaseHeldWorker, HoldWorker, NoNewFinalizer
  <2>2. ctl'.at = ctl.at
    BY <2>1 DEF TypeOK, Running, Idle
  <2> QED
    BY <1>15, <2>1, <2>2
<1>18. ASSUME NEW w \in Workers, WorkerGone(w) PROVE ChargeInv'
  <2>1. /\ workers[w].deleting /\ workers' = [workers EXCEPT ![w] = NoPod]
        /\ deletions' = deletions \cup {[worker |-> w, pod |-> workers[w]]}
        /\ UNCHANGED <<leader, ctl, charges, faults, aborts>>
    BY <1>18 DEF WorkerGone
  <2>2. NoNewEvidence
    BY <1>0, <2>1 DEF NoNewEvidence, NoPod
  <2> QED
    BY <1>1, <2>1, <2>2, NoNewEvidenceUnpaid
<1>19. ASSUME NEW w \in Workers, StsCreateWorker(w) PROVE ChargeInv'
  <2>1. /\ UNCHANGED <<leader, ctl, deletions, charges, faults, aborts>>
        /\ \A v \in Workers : \/ workers'[v] = workers[v]
                              \/ ~workers'[v].restarted /\ ~workers'[v].deleting
    BY <1>0, <1>19 DEF StsCreateWorker
  <2>2. NoNewEvidence
    BY <2>1 DEF NoNewEvidence
  <2> QED
    BY <1>1, <2>1, <2>2, NoNewEvidenceUnpaid
\* The workers of a leader that is not being deleted stay.
<1>20. CASE DeleteWorkerSts
  <2>1. UNCHANGED <<leader, ctl, charges, faults, aborts>> /\ leader.deleting
    BY <1>0, <1>20 DEF DeleteWorkerSts, TerminateParallel, LeaderSeen, GroupInv, NoSts, NoPod, TypeOK, Uids
  <2> QED
    BY <1>1, <2>1, NoNewEvidenceUnpaid DEF NoNewEvidence
<1>21. CASE CollectWorkers
  <2>1. /\ UNCHANGED <<leader, ctl, deletions, charges, faults, aborts>>
        /\ \A v \in Workers : workers'[v] = workers[v] \/ (workers[v] # NoPod /\ workers[v].uid # wsts.owner
                                                            /\ workers'[v].uid = workers[v].uid)
    BY <1>0, <1>21 DEF CollectWorkers, DeletingWorkers, Worker
  <2>2. NoNewEvidence
    BY <2>1 DEF NoNewEvidence, GroupInv
  <2> QED
    BY <1>1, <2>1, <2>2, NoNewEvidenceUnpaid
<1>22. CASE UNCHANGED vars
  BY <1>8, <1>22 DEF vars
<1> QED
  BY <1>2, <1>3, <1>5, <1>6, <1>7, <1>9, <1>10, <1>11, <1>12, <1>13, <1>14, <1>16, <1>17, <1>18,
     <1>19, <1>20, <1>21, <1>22
     DEF Next, Decide, Write, LwsReconcile, Cluster, User, LeaderAges, AskRecovery, Edit

\* The invariants about the pods of a group and its charges hold throughout.
LEMMA GroupInvariant ==
  ASSUME ~LagPods
  PROVE  Spec => [](UidInv /\ GroupInv /\ ChargeInv)
<1>1. Init => UidInv /\ GroupInv /\ ChargeInv
  <2> SUFFICES ASSUME Init PROVE UidInv /\ GroupInv /\ ChargeInv
    OBVIOUS
  <2>1. UidInv
    BY DEF Init, UidInv, NoPod, NoSts
  <2>2. GroupInv
    BY DEF Init, GroupInv
  <2>3. ~Unpaid
    BY DEF Init, Unpaid, Evidence, Idle
  <2> QED
    BY <2>1, <2>2, <2>3 DEF Init, ChargeInv
<1>2. TypeOK /\ TypeOK' /\ (UidInv /\ GroupInv /\ ChargeInv) /\ [Next]_vars
        => (UidInv /\ GroupInv /\ ChargeInv)'
  BY UidStep, GroupStep, ChargeStep
<1> QED
  BY <1>1, <1>2, TypeCorrect, PTL DEF Spec

\* When reconciles read current pods, the charges never outnumber the failures
\* and the interrupted reconciles: a failure that several pods report, before
\* and after the group is recreated, is charged once, even if the leader is
\* replaced under the reconcile (the checks of handleRestartPolicy, whatever
\* the number of workers and the restart policy).
THEOREM ChargedPerFailureHolds ==
  ASSUME ~LagPods
  PROVE  Spec => []ChargedPerFailure
<1>1. TypeOK /\ UidInv /\ GroupInv /\ ChargeInv => ChargedPerFailure
  BY DEF ChargeInv, ChargedPerFailure, TypeOK
<1> QED
  BY <1>1, GroupInvariant, TypeCorrect, PTL

-----------------------------------------------------------------------------
(* No worker is held without its leader, when also no leader is replaced   *)
(* while a reconcile of its group runs.                                    *)

\* Every step keeps the running reconcile with the leader of today.
LEMMA SeenStep ==
  ASSUME ~LagPods, ~RacingReplacement, TypeOK, TypeOK', SeenInv, [Next]_vars
  PROVE  SeenInv'
<1>1. LeaderStep /\ CtlStep
  BY LeaderSteps, CtlSteps
<1>2. leader \in Leader => leader # NoPod
  BY DEF Leader, NoPod, Uids
<1> QED
  BY <1>1, <1>2 DEF LeaderStep, CtlStep, SeenInv, pods

\* A step that holds and releases nobody and leaves the reconcile alone, or
\* takes it to a place where nobody is held or released.
HoldsNobody ==
  /\ lws'.phase = "live" => lws.phase = "live"
  /\ \/ UNCHANGED leader
     \/ leader # NoPod /\ leader' # NoPod /\ leader'.uid = leader.uid /\ leader'.finalizer = leader.finalizer
  /\ \A w \in Workers : workers'[w] # NoPod /\ workers'[w].finalizer =>
       workers[w] # NoPod /\ workers[w].finalizer /\ workers'[w].uid = workers[w].uid
  /\ UNCHANGED ctl \/ ctl'.at \in {"idle", "charge", "delete"}

\* Such a step leaves no worker held without its leader.
LEMMA HoldsNobodyHeld ==
  ASSUME ~LagPods, TypeOK, TypeOK', HeldInv, [Next]_vars, HoldsNobody
  PROVE  HeldInv'
<1>1. StsStep /\ \A w \in Workers : WorkerStep(w)
  BY StsSteps, WorkerSteps
<1>2. NoOrphanFinalizer'
  BY DEF HoldsNobody, HeldInv, NoOrphanFinalizer
<1>3. ctl'.at = "mark" /\ ctl'.seen.exhausted /\ ctl'.seen.finalizer => leader' # NoPod /\ leader'.finalizer
  BY DEF HoldsNobody, HeldInv
<1>4. ASSUME ctl'.at = "hold"
      PROVE  /\ leader' # NoPod /\ leader'.finalizer
             /\ \A w \in ctl'.left : workers'[w] # NoPod => workers'[w].uid = leader'.uid
             /\ ctl'.left # {} => wsts' = NoSts \/ wsts'.owner = leader'.uid
  <2>1. /\ UNCHANGED ctl /\ ctl.at = "hold" /\ ctl # Idle /\ ctl.left \subseteq Workers
        /\ leader' # NoPod /\ leader'.finalizer /\ leader'.uid = leader.uid
    BY <1>4, CtlFields DEF HoldsNobody, HeldInv, Idle
  <2>2. ASSUME NEW w \in ctl.left, workers'[w] # NoPod PROVE workers'[w].uid = leader.uid
    <3>1. w \in Workers /\ (wsts = NoSts \/ wsts.owner = leader.uid)
      BY <2>1, <2>2 DEF HeldInv
    <3>2. workers[w] # NoPod => workers[w].uid = leader.uid
      BY <2>1, <2>2 DEF HeldInv
    <3>3. workers[w] \in Worker => workers[w] # NoPod
      BY DEF Worker, NoPod, Uids
    <3> QED
      BY <1>1, <2>2, <3>1, <3>2, <3>3 DEF WorkerStep, Patched
  <2>3. ctl.left # {} => wsts' = NoSts \/ wsts'.owner = leader.uid
    BY <1>1, <2>1 DEF StsStep, HeldInv, TypeOK
  <2> QED
    BY <2>1, <2>2, <2>3
<1>5. ctl'.at = "release" /\ lws'.phase = "live" =>
        \A w \in Workers : workers'[w] # NoPod /\ workers'[w].finalizer => w \in ctl'.left
  BY DEF HoldsNobody, HeldInv
<1> QED
  BY <1>2, <1>3, <1>4, <1>5 DEF HeldInv

\* A release of a group that its leader holds covers every worker that is held.
LEMMA ReleaseCoversHeld ==
  ASSUME ~LagPods, TypeOK, GroupInv, NoOrphanFinalizer, lws.phase = "live",
         NEW l, leader # NoPod => leader.revision = l.revision, NEW from,
         NEW w \in Workers, workers[w] # NoPod, workers[w].finalizer
  PROVE  w \in AtRelease(l, from).left
<1>1. leader # NoPod /\ leader.uid = workers[w].uid
  BY DEF NoOrphanFinalizer
<1>2. workers[w].revision = l.revision
  BY <1>1 DEF GroupInv
<1> QED
  BY <1>2 DEF AtRelease, groupPods, WorkersSeen

\* Where a reconcile may start.
LEMMA DecisionPlaces ==
  ASSUME ~LagPods, TypeOK
  PROVE  /\ leader # NoPod => /\ reconcileLeader(leader).at # "hold"
                              /\ reconcileLeader(leader).at = "release" =>
                                   reconcileLeader(leader) = AtRelease(leader, NoDeletion)
         /\ \A pod, from : handleRestartPolicy(pod, from).at \notin {"hold", "release"}
<1>1. \A l, from : Recreate(l, from).at \notin {"hold", "release"}
  BY DEF Recreate, At, Idle
<1>2. leader # NoPod => /\ reconcileLeader(leader).at # "hold"
                        /\ reconcileLeader(leader).at = "release" =>
                             reconcileLeader(leader) = AtRelease(leader, NoDeletion)
  BY <1>1 DEF reconcileLeader, AtRelease, At, Idle
<1>3. \A pod, from : handleRestartPolicy(pod, from).at \notin {"hold", "release"}
  BY <1>1 DEF handleRestartPolicy, Idle
<1> QED
  BY <1>2, <1>3

\* Every step keeps the held workers with their leader.
LEMMA HeldStep ==
  ASSUME ~LagPods, ~RacingReplacement, TypeOK, TypeOK', GroupInv, SeenInv, HeldInv, [Next]_vars
  PROVE  HeldInv'
<1> USE DEF pods, history, bounds
<1>0. /\ leader \in Leader \cup {NoPod} /\ workers \in [Workers -> Worker \cup {NoPod}]
      /\ leader' \in Leader \cup {NoPod} /\ workers' \in [Workers -> Worker \cup {NoPod}]
      /\ \A l \in Leader : l # NoPod
      /\ \A p \in Worker : p # NoPod
  BY DEF TypeOK, Leader, Worker, Uids, NoPod
<1>1. CASE HoldsNobody
  BY <1>1, HoldsNobodyHeld
\* A reconcile starts.
<1>2. ASSUME NEW place, Start(place), place.at # "hold",
             place.at = "release" => \E from : place = AtRelease(leader, from)
      PROVE  HeldInv'
  <2>1. ctl = Idle /\ ctl' = place /\ UNCHANGED <<lws, leader, workers, wsts>> /\ place # Idle
    BY <1>2 DEF Start
  <2>2. NoOrphanFinalizer'
    BY <2>1 DEF HeldInv, NoOrphanFinalizer
  <2>3. ctl'.at = "mark" /\ ctl'.seen.exhausted /\ ctl'.seen.finalizer => leader' # NoPod /\ leader'.finalizer
    BY <1>0, <2>1, CtlSteps DEF CtlStep
  <2>4. ctl'.at = "release" /\ lws'.phase = "live" =>
          \A w \in Workers : workers'[w] # NoPod /\ workers'[w].finalizer => w \in ctl'.left
    BY <1>2, <2>1, ReleaseCoversHeld DEF HeldInv
  <2> QED
    BY <1>2, <2>1, <2>2, <2>3, <2>4 DEF HeldInv
<1>3. CASE ReconcileLeader
  <2>1. leader # NoPod /\ Start(reconcileLeader(leader))
    BY <1>3 DEF ReconcileLeader, LeaderSeen
  <2> QED
    BY <1>2, <2>1, DecisionPlaces
<1>4. ASSUME NEW w \in Workers, ReconcileWorker(w) PROVE HeldInv'
  BY <1>2, <1>4, DecisionPlaces DEF ReconcileWorker
<1>5. ASSUME NEW event \in deletions, ReconcileDeleted(event) PROVE HeldInv'
  BY <1>2, <1>5, DecisionPlaces DEF ReconcileDeleted
\* The release of a group: every held worker, then the leader.
<1>6. CASE ClearCount
  <2>1. /\ ctl # Idle /\ ctl' = AtRelease(ctl.seen, ctl.from) /\ UNCHANGED <<leader, workers>>
        /\ lws'.phase = lws.phase
    BY <1>6 DEF ClearCount, Idle, TypeOK
  <2>2. NoOrphanFinalizer'
    BY <2>1 DEF HeldInv, NoOrphanFinalizer
  <2>3. leader # NoPod => leader.revision = ctl.seen.revision
    BY <2>1 DEF SeenInv
  <2>4. ASSUME lws.phase = "live", NEW w \in Workers, workers[w] # NoPod, workers[w].finalizer
        PROVE  w \in ctl'.left
    BY <2>1, <2>3, <2>4, ReleaseCoversHeld DEF HeldInv
  <2>5. ctl'.at = "release"
    BY <2>1 DEF AtRelease
  <2> QED
    BY <2>1, <2>2, <2>4, <2>5 DEF HeldInv
<1>7. ASSUME NEW w \in Workers, ReleaseHeldWorker(w) PROVE HeldInv'
  <2>1. /\ ctl.at = "release" /\ ctl'.at = "release" /\ ctl'.left = ctl.left \ {w}
        /\ UNCHANGED <<lws, leader, wsts>>
    BY <1>7 DEF ReleaseHeldWorker, TypeOK, Running, Idle
  <2>2. \A v \in Workers : IF v = w THEN workers'[v] # NoPod => ~workers'[v].finalizer
                                    ELSE workers'[v] = workers[v]
    BY <1>0, <1>7 DEF ReleaseHeldWorker, Worker
  <2>3. NoOrphanFinalizer'
    BY <2>1, <2>2 DEF HeldInv, NoOrphanFinalizer
  <2> QED
    BY <2>1, <2>2, <2>3 DEF HeldInv
<1>8. CASE ReleaseLeader
  <2>1. /\ ctl.at = "release" /\ ctl.left = {} /\ ctl'.at = "idle"
        /\ UNCHANGED <<lws, workers>>
    BY <1>8 DEF ReleaseLeader, Done, Idle
  <2>2. lws.phase = "live" => \A w \in Workers : ~(workers[w] # NoPod /\ workers[w].finalizer)
    BY <2>1 DEF HeldInv
  <2>3. NoOrphanFinalizer'
    BY <2>1, <2>2 DEF NoOrphanFinalizer
  <2> QED
    BY <2>1, <2>3 DEF HeldInv
\* The hold of a group: the leader, then every worker.
<1>9. CASE MarkExhausted
  <2>1. /\ ctl.at = "mark" /\ ctl # Idle /\ ctl'.at = "hold" /\ UNCHANGED <<lws, workers, wsts>>
        /\ \A w \in ctl'.left : workers[w].uid = wsts.owner /\ wsts.owner = ctl.seen.uid
    BY <1>9 DEF MarkExhausted, Idle, groupPods, WorkersSeen, workerPodBelongsToLeader
  <2>2. leader # NoPod /\ leader' # NoPod /\ leader'.finalizer /\ leader'.uid = leader.uid
    <3>1. CASE ctl.seen.exhausted /\ ctl.seen.finalizer
      BY <1>9, <2>1, <3>1 DEF MarkExhausted, HeldInv
    <3>2. CASE ~(ctl.seen.exhausted /\ ctl.seen.finalizer)
      <4>1. leader \in Leader /\ leader'.finalizer /\ leader'.uid = leader.uid
        BY <1>0, <1>9, <3>2 DEF MarkExhausted, NoNewFinalizer, Leader
      <4> QED
        BY <1>0, <4>1 DEF Leader, NoPod, Uids
    <3> QED
      BY <3>1, <3>2
  <2>3. leader.uid = ctl.seen.uid
    BY <2>1, <2>2 DEF SeenInv
  <2>4. NoOrphanFinalizer'
    BY <2>1, <2>2 DEF HeldInv, NoOrphanFinalizer
  <2> QED
    BY <2>1, <2>2, <2>3, <2>4 DEF HeldInv
<1>10. ASSUME NEW w \in Workers, HoldWorker(w) PROVE HeldInv'
  <2>1. /\ ctl.at = "hold" /\ w \in ctl.left /\ workers[w] # NoPod
        /\ ctl'.at = "hold" /\ ctl'.left = ctl.left \ {w}
        /\ UNCHANGED <<lws, leader, wsts>>
    BY <1>10 DEF HoldWorker, NoNewFinalizer, TypeOK, Running, Idle
  <2>2. leader # NoPod /\ leader.finalizer /\ workers[w].uid = leader.uid
    BY <2>1 DEF HeldInv
  <2>3. \A v \in Workers : IF v = w THEN workers'[v].uid = workers[v].uid
                                    ELSE workers'[v] = workers[v]
    BY <1>0, <1>10, <2>1 DEF HoldWorker, Worker
  <2>4. NoOrphanFinalizer'
    BY <2>1, <2>2, <2>3 DEF HeldInv, NoOrphanFinalizer
  <2>5. ctl.left \subseteq Workers
    BY <2>1, CtlFields
  <2> QED
    BY <2>1, <2>2, <2>3, <2>4, <2>5 DEF HeldInv
\* Leaders come and go only while nobody is held.
<1>11. CASE LeaderGone
  <2>1. leader # NoPod /\ ~leader.finalizer /\ UNCHANGED <<lws, workers, ctl>>
    BY <1>11 DEF LeaderGone
  <2>2. NoOrphanFinalizer'
    BY <2>1 DEF HeldInv, NoOrphanFinalizer
  <2> QED
    BY <2>1, <2>2 DEF HeldInv
<1>12. CASE StsCreateLeader
  <2>1. leader = NoPod /\ ctl'.at = "idle" /\ UNCHANGED <<lws, workers>>
    BY <1>12 DEF StsCreateLeader, Idle
  <2>2. NoOrphanFinalizer'
    BY <2>1 DEF HeldInv, NoOrphanFinalizer
  <2> QED
    BY <2>1, <2>2 DEF HeldInv
\* The rest holds and releases nobody.
<1>13. CASE HoldDone \/ ChargeCount \/ Refused \/ Abort \/ Stop
  BY <1>1, <1>13 DEF HoldDone, ChargeCount, Refused, Abort, Stop, Idle, HoldsNobody, TypeOK
<1>14. CASE PatchPending \/ DeleteLeader \/ ClusterDeleteLeader \/ LeaderAges \/ AskRecovery
  <2>1. /\ UNCHANGED <<lws, workers>>
        /\ UNCHANGED ctl \/ ctl'.at = "idle"
    BY <1>14 DEF PatchPending, DeleteLeader, Done, ClusterDeleteLeader, LeaderAges, AskRecovery, Edit, Idle
  <2>2. leader # NoPod /\ leader'.uid = leader.uid /\ leader'.finalizer = leader.finalizer
    BY <1>0, <1>14 DEF PatchPending, DeleteLeader, ClusterDeleteLeader, LeaderAges, AskRecovery, Leader
  <2>3. leader' # NoPod
    BY <1>0, <2>2 DEF Leader, NoPod, Uids
  <2> QED
    BY <1>1, <2>1, <2>2, <2>3 DEF HoldsNobody
<1>15. CASE (PodStarts \/ Fault) /\ UNCHANGED workers
  <2>1. UNCHANGED <<lws, ctl>>
    BY <1>15 DEF PodStarts, Fault
  <2>2. UNCHANGED leader \/ (leader # NoPod /\ leader'.uid = leader.uid /\ leader'.finalizer = leader.finalizer)
    BY <1>0, <1>15 DEF PodStarts, Fault, Leader
  <2>3. UNCHANGED leader \/ leader' # NoPod
    BY <1>0, <2>2 DEF Leader, NoPod, Uids
  <2> QED
    BY <1>1, <1>15, <2>1, <2>2, <2>3 DEF HoldsNobody
\* Other flags of workers change.
<1>16. ASSUME UNCHANGED <<lws, leader, ctl>>,
              \A w \in Workers :
                \/ workers'[w] = workers[w]
                \/ workers'[w] = NoPod
                \/ workers[w] = NoPod /\ ~workers'[w].finalizer
                \/ /\ workers[w] # NoPod
                   /\ \/ workers'[w] = [workers[w] EXCEPT !.deleting = TRUE]
                      \/ workers'[w] = [workers[w] EXCEPT !.restarted = TRUE]
                      \/ workers'[w] = [workers[w] EXCEPT !.started = TRUE]
                      \/ workers'[w] = [workers[w] EXCEPT !.finalizer = FALSE]
       PROVE  HeldInv'
  <2>1. ASSUME NEW w \in Workers, workers'[w] # NoPod, workers'[w].finalizer
        PROVE  workers[w] # NoPod /\ workers[w].finalizer /\ workers'[w].uid = workers[w].uid
    BY <1>0, <1>16, <2>1 DEF Worker
  <2> QED
    BY <1>1, <1>16, <2>1 DEF HoldsNobody
<1>17. CASE (PodStarts \/ Fault) /\ ~UNCHANGED workers
  <2>1. /\ UNCHANGED <<lws, leader, ctl>>
        /\ \E w \in Workers : /\ workers[w] # NoPod
                              /\ \/ workers' = [workers EXCEPT ![w].deleting = TRUE]
                                 \/ workers' = [workers EXCEPT ![w].restarted = TRUE]
                                 \/ workers' = [workers EXCEPT ![w].started = TRUE]
    BY <1>17 DEF PodStarts, Fault
  <2> QED
    BY <1>0, <1>16, <2>1
<1>18. ASSUME NEW w \in Workers, WorkerGone(w) \/ StsCreateWorker(w) \/ ReleaseWorker(w) PROVE HeldInv'
  BY <1>0, <1>16, <1>18 DEF WorkerGone, StsCreateWorker, ReleaseWorker
<1>19. CASE DeleteWorkerSts
  <2>1. wsts # NoSts
    BY <1>19 DEF DeleteWorkerSts, TypeOK, TerminateParallel, LeaderSeen, Leader, Uids, NoPod, NoSts
  <2>2. \A w \in Workers : workers[w].uid = wsts.owner => workers[w] # NoPod
    BY <1>0, <2>1 DEF TypeOK, NoPod, Uids
  <2> QED
    BY <1>0, <1>16, <1>19, <2>2 DEF DeleteWorkerSts, DeletingWorkers
<1>20. CASE CollectWorkers
  BY <1>0, <1>16, <1>20 DEF CollectWorkers, DeletingWorkers
<1>21. CASE \/ CreateWorkerStatefulSet \/ PruneCounts \/ ApplyReplicas \/ ApplyPartition \/ CleanupCounts
            \/ LwsGone \/ CollectLeaderSts \/ CollectWorkerSts \/ WorkersGone \/ ObservePods
            \/ SetLimit \/ Scale \/ Rollout \/ DeleteLws
  <2>1. UNCHANGED <<leader, workers, ctl>>
    BY <1>21
       DEF CreateWorkerStatefulSet, PruneCounts, ApplyReplicas, ApplyPartition, CleanupCounts, LwsGone,
           CollectLeaderSts, CollectWorkerSts, WorkersGone, ObservePods, SetLimit, Scale, Rollout,
           DeleteLws, Edit
  <2>2. lws'.phase = "live" => lws.phase = "live"
    BY <1>21
       DEF CreateWorkerStatefulSet, PruneCounts, ApplyReplicas, ApplyPartition, CleanupCounts, LwsGone,
           CollectLeaderSts, CollectWorkerSts, WorkersGone, ObservePods, SetLimit, Scale, Rollout,
           DeleteLws, Edit, TypeOK
  <2> QED
    BY <1>1, <2>1, <2>2 DEF HoldsNobody
<1>22. ASSUME NEW event \in deletions, DropDeletion(event) PROVE HeldInv'
  BY <1>1, <1>22 DEF DropDeletion, HoldsNobody
<1>23. CASE UNCHANGED vars
  BY <1>1, <1>23 DEF vars, HoldsNobody
<1> QED
  BY <1>3, <1>4, <1>5, <1>6, <1>7, <1>8, <1>9, <1>10, <1>11, <1>12, <1>13, <1>14, <1>15, <1>17,
     <1>18, <1>19, <1>20, <1>21, <1>22, <1>23 DEF Next, Decide, Write, LwsReconcile, Cluster, User

\* When reconciles read current pods and no leader is replaced under them, a
\* held worker of a live LeaderWorkerSet always has its held leader, wherever
\* a release or a hold of the group fails or the process stops.
THEOREM NoOrphanFinalizerHolds ==
  ASSUME ~LagPods, ~RacingReplacement
  PROVE  Spec => []NoOrphanFinalizer
<1>1. Init => SeenInv /\ HeldInv
  <2> SUFFICES ASSUME Init PROVE SeenInv /\ HeldInv
    OBVIOUS
  <2>1. ctl.at = "idle"
    BY DEF Init, Idle
  <2>2. SeenInv
    BY <2>1 DEF Init, SeenInv, Idle
  <2>3. HeldInv
    BY <2>1 DEF Init, HeldInv, NoOrphanFinalizer
  <2> QED
    BY <2>2, <2>3
<1>2. TypeOK /\ TypeOK' /\ (UidInv /\ GroupInv /\ ChargeInv) /\ (SeenInv /\ HeldInv) /\ [Next]_vars
        => (SeenInv /\ HeldInv)'
  BY SeenStep, HeldStep
<1>3. SeenInv /\ HeldInv => NoOrphanFinalizer
  BY DEF HeldInv
<1> QED
  BY <1>1, <1>2, <1>3, GroupInvariant, TypeCorrect, PTL DEF Spec

=============================================================================
