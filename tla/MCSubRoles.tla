----------------------------- MODULE MCSubRoles -----------------------------
(* Instances of SubRoles. *)
EXTENDS SubRoles

Counts(a, b) == [c \in 1 .. 2 |-> IF c = 1 THEN a ELSE b]
Steady(counts)  == [counts |-> counts, steady |-> TRUE]
Rollout(counts) == [counts |-> counts, steady |-> FALSE]

MCSlots == 0 .. 2
Bounded(kinds, e, f, s) ==
  {kind @@ [edits |-> e, faults |-> f, stops |-> s] : kind \in kinds}

\* Caches that lag with an interrupted pass; a second request that meets a plan;
\* a fault, with an interrupted pass, under either identity.
MCSetups ==
  UNION {Bounded([hash : BOOLEAN, lag : {TRUE}], 1, 0, 1),
         Bounded([hash : BOOLEAN, lag : {FALSE}], 2, 0, 0),
         Bounded([hash : BOOLEAN, lag : {FALSE}], 1, 1, 1)}
MCInitials == {2}
MCRequests == {Steady(Counts(2, 1)), Steady(Counts(1, 1)), Rollout(Counts(0, 2)), Steady(NoCounts)}

=============================================================================
