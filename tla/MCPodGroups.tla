------------------------------ MODULE MCPodGroups ------------------------------
(* Instances of PodGroups for TLC.                                         *)
EXTENDS PodGroups

SpecOf(replicas, size, partition, surge) ==
  [replicas |-> replicas, size |-> size, partition |-> partition, maxSurge |-> Number(surge),
   maxUnavailable |-> Number(1 - surge), dsOwned |-> FALSE]

To(replicas, size) == [replicas |-> replicas, size |-> size]

Base == [mode |-> "replica", spec |-> SpecOf(2, 2, 0, 0), immediate |-> FALSE, leaderReady |-> FALSE,
         fresh |-> FALSE, upgrade |-> FALSE, edits |-> <<>>, faults |-> 1, stops |-> 0]

MCIndices == 0 .. 2
MCIds == 1 .. 5
One == SpecOf(1, 2, 0, 0)
MCSetups == {
    \* per-role gangs and a size change, with a failure, and with surge and stops
    [Base EXCEPT !.mode = "role", !.spec = One, !.edits = <<To(1, 3)>>],
    [Base EXCEPT !.mode = "role", !.spec = SpecOf(1, 2, 0, 1), !.edits = <<To(1, 3)>>,
                 !.leaderReady = TRUE, !.immediate = TRUE, !.faults = 0, !.stops = 1],
    \* a partition keeps one group at the old size
    [Base EXCEPT !.spec = SpecOf(2, 3, 1, 0), !.edits = <<To(2, 2)>>],
    [Base EXCEPT !.mode = "lws", !.spec = SpecOf(2, 2, 1, 0), !.edits = <<To(2, 3)>>],
    \* an upgrade from a version without incarnations
    [Base EXCEPT !.spec = One, !.upgrade = TRUE, !.fresh = TRUE, !.faults = 2],
    \* scaling to no replicas and back
    [Base EXCEPT !.spec = One, !.edits = <<To(0, 2), To(1, 2)>>, !.immediate = TRUE, !.stops = 1],
    [Base EXCEPT !.mode = "lws", !.spec = One, !.edits = <<To(0, 2), To(1, 2)>>],
    \* a whole-LWS gang and a size change, also with surge or a scale-down
    [Base EXCEPT !.mode = "lws", !.edits = <<To(2, 3)>>],
    [Base EXCEPT !.mode = "lws", !.spec = SpecOf(2, 2, 0, 1), !.edits = <<To(2, 3)>>, !.faults = 0],
    [Base EXCEPT !.mode = "lws", !.edits = <<To(1, 3)>>],
    \* Volcano
    [Base EXCEPT !.mode = "volcano", !.edits = <<To(2, 3), To(2, 2)>>],
    [Base EXCEPT !.mode = "legacy", !.edits = <<To(2, 3)>>, !.leaderReady = TRUE]}
================================================================================
