--------------------------- MODULE ReplicaGroups ---------------------------
(***************************************************************************)
(* pkg/replicagroups as operators: what the observer's snapshot of one     *)
(* LeaderWorkerSet says about capacity.  A group is a record               *)
(*   [phase, leader, worker, cost, saved]                                  *)
(* of its phase, the sub-role labels of its leader and its worker (0 is no *)
(* label), the leader's deletion cost and the cost saved when a preference *)
(* replaced it.  A slot is an ordinal for Ordinal identity and stands for  *)
(* a leader UID for Hash identity.  A native workload is a record          *)
(*   [replicas, acked, rs, rsAcked, count]                                 *)
(* of the leader StatefulSet or Deployment (spec.replicas, generation      *)
(* observed), the ReplicaSet (Hash only) and the status.replicas of the    *)
(* controller that owns the leaders.                                       *)
(***************************************************************************)
EXTENDS Integers, FiniteSets, FiniteSetsExt

\* "starting": the leader is not Ready; "loading": the leader is, its worker
\* is not; "ready": the whole group is.
Phases == {"absent", "starting", "loading", "ready", "terminating"}

AbsentGroup == [phase |-> "absent", leader |-> 0, worker |-> 0, cost |-> "none", saved |-> "no"]

\* The snapshot's groups, and those whose leader is not on its way out.
Observed(groups) == {g \in DOMAIN groups : groups[g].phase # "absent"}
Active(groups)   == {g \in Observed(groups) : groups[g].phase # "terminating"}

\* The group is Ready as a whole and not going away (retainedSubRoleEligible).
Eligible(group) == group.phase = "ready"

Larger(a, b)  == IF a > b THEN a ELSE b
Smaller(a, b) == IF a < b THEN a ELSE b

\* The LeaderWorkerSet controller and every native controller below it have
\* acted on the replicas the LeaderWorkerSet asks for.
Acknowledged(hash, lws, native) ==
  /\ lws.applied /\ native.acked /\ native.replicas = lws.replicas
  /\ hash => native.rsAcked /\ native.rs = lws.replicas

\* Availability().RetainedReadyReplicas when only `credited` groups count as
\* Ready: nothing before the acknowledgement; ordinals beyond the replicas do
\* not count; a ReplicaSet may still choose any group for its open deletions.
RetainedReady(hash, lws, native, groups, credited) ==
  LET ready    == {g \in credited : Eligible(groups[g]) /\ (hash \/ g < lws.replicas)}
      reserved == IF hash THEN Larger(0, Cardinality(Active(groups)) - native.rs) ELSE 0
  IN IF ~Acknowledged(hash, lws, native) THEN 0
     ELSE Smaller(lws.replicas, Larger(0, Cardinality(ready) - reserved))

\* scalingObserved(allowMissing = TRUE).  The pods of the snapshot are the
\* cohort asked for; a shortfall counts only when native status agrees with it.
DeletionsObserved(hash, lws, native, groups) ==
  LET active == Active(groups)
      target == IF hash THEN native.rs ELSE lws.replicas
  IN /\ Acknowledged(hash, lws, native)
     /\ hash \/ \A g \in active : g < lws.replicas
     /\ Cardinality(active) <= target
     /\ Cardinality(active) < target =>
          native.count = Cardinality(IF hash THEN active ELSE Observed(groups))

=============================================================================
