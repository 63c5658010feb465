----------------------------- MODULE MCHashGroups -----------------------------
(* Instances of HashGroups for TLC.                                        *)
EXTENDS HashGroups

Base == [replicas |-> 1, scaleTo |-> 1, surge |-> 0, unavailable |-> 1, max |-> 1,
    immediate |-> FALSE, leaderReady |-> FALSE, lag |-> "none", edits |-> {},
    fresh |-> FALSE, faults |-> 2, stops |-> 0]

MCIds == 1 .. 5
MCTemplates == 1 .. 2
MCSetups == {
    \* two groups share the budget
    [Base EXCEPT !.replicas = 2, !.scaleTo = 2, !.faults = 3],
    \* so do one group and its replacements when reconciles stop half way
    [Base EXCEPT !.stops = 2],
    \* a rollout seen through a stale Deployment cache
    [Base EXCEPT !.surge = 1, !.unavailable = 0, !.edits = {"template"}, !.lag = "deployment",
                 !.faults = 1],
    \* workers wait for their leader, from the first reconcile on
    [Base EXCEPT !.max = Unlimited, !.immediate = TRUE, !.leaderReady = TRUE, !.fresh = TRUE,
                 !.stops = 1],
    \* a stale pod cache
    [Base EXCEPT !.replicas = 2, !.scaleTo = 2, !.lag = "pods"],
    \* exhausted groups and a scale-down
    [Base EXCEPT !.replicas = 2, !.max = 0, !.edits = {"scale"}, !.faults = 1, !.stops = 1],
    \* exhausted groups, recovery and a rollout
    [Base EXCEPT !.max = 0, !.surge = 1, !.unavailable = 0, !.edits = {"recover", "template"}]}
===============================================================================
