---------------------------- MODULE MCLeaderSet ----------------------------
(* Instances of LeaderSet for TLC: budgets the webhook admits.             *)
EXTENDS LeaderSet

Budget(surge, unavailable) == [maxSurge |-> surge, maxUnavailable |-> unavailable]

\* Surge only (more than the replicas), unavailability only, and percentages
\* that give a surge of 2 and 1 unavailable of 3 replicas.
MCBudgets == {Budget(Number(4), Number(0)), Budget(Number(0), Number(1)),
              Budget(Percent(34), Percent(34))}

SmallBudgets == {Budget(Number(1), Number(0)), Budget(Number(0), Number(1))}

TwoUnavailable == {Budget(Number(0), Number(2))}

NoLag  == {{}}
AnyLag == {{}, {"statefulset"}, {"groups"}, {"revisions"}}

=============================================================================
