---------------------------- MODULE MCChildWrites ----------------------------
(* One role of two revisions, rolled between them within a budget.         *)
EXTENDS ChildWrites

a == "a"
b == "b"
MCKeys == {a, b}
N == 2
MCCounts == 0 .. N + 1
MCStart == [k \in MCKeys |-> IF k = a THEN N ELSE None]

Replicas(n) == IF n = None THEN 0 ELSE n

\* At most one group above and one below N, whichever of the writes of a plan
\* take effect.  An emptied child is deleted once the other is complete.
MCPlans(view, target) ==
  LET other == CHOOSE k \in MCKeys : k # target
      new == Replicas(view[target])
      old == Replicas(view[other])
      grow == IF view[target] # None /\ new < N /\ new + old <= N THEN {[key |-> target, to |-> new + 1]} ELSE {}
      shrink == IF old > 0 /\ new + old >= N THEN {[key |-> other, to |-> old - 1]} ELSE {}
      create == IF view[target] = None THEN {[key |-> target, to |-> 0]} ELSE {}
      clean == IF new = N /\ view[other] = 0 THEN {[key |-> other, to |-> None]} ELSE {}
  IN {create \cup grow \cup shrink \cup clean} \ {{}}

Total == Replicas(count(actual(a))) + Replicas(count(actual(b)))

\* The budget of the rollout is not spent twice: the groups of both revisions
\* stay within one of N, although each plan is made from a cache that may lack
\* the effects of the last.  Deletions by others only lower the number.
BudgetKept == /\ Total <= N + 1
              /\ spent.disturbed \/ Total >= N - 1

\* The barrier opens again: after lost answers, conflicts with status updates,
\* deletions and restarts the slice reaches what the user last asked for.
Settles == <>[]IF removed THEN \A k \in MCKeys : count(actual(k)) = None
               ELSE \A k \in MCKeys : count(actual(k)) = IF k = goal THEN N ELSE None
=============================================================================
