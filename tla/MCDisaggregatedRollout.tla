----------------------- MODULE MCDisaggregatedRollout -----------------------
(* Two roles, prefill and decode, and two revisions of a DisaggregatedSet. *)
EXTENDS DisaggregatedRollout

LOCAL INSTANCE RollingUpdate

MCRoles == {"p", "d"}
MCRevisions == {"A", "B"}

Per(prefill, decode) == [r \in MCRoles |-> IF r = "p" THEN prefill ELSE decode]
Layout(a, b) == [v \in MCRevisions |-> IF v = "A" THEN a ELSE b]
Budget(surge, unavailable) == [maxSurge |-> Number(surge), maxUnavailable |-> Number(unavailable)]

Same    == Layout(MCRoles, MCRoles)
Renamed == Layout({"p"}, {"d"})
Grown   == Layout({"p"}, MCRoles)

Ample == Per(20, 20)

Setup(first, layout, external, scaleDown, capacity) ==
  [first |-> first, layout |-> layout, external |-> external, scaleDown |-> scaleDown,
   capacity |-> capacity]

\* Every setting with a layout that it matters for, a role that is added or
\* removed, and one cluster that has no room to spare.
MCSetups == {Setup("A", Same, {"p"}, FALSE, Ample), Setup("A", Same, {}, TRUE, Ample),
             Setup("A", Same, {}, FALSE, Per(3, 2)), Setup("A", Renamed, {}, FALSE, Ample),
             Setup("A", Grown, {}, TRUE, Ample), Setup("B", Grown, {}, FALSE, Ample)}

MCTargets  == {Per(2, 1), Per(1, 2)}
MCPolicies == {Per(Budget(1, 0), Budget(1, 0)), Per(Budget(0, 1), Budget(0, 1))}
=============================================================================
