---------------------------- MODULE AtomicWrites ----------------------------
(***************************************************************************)
(* What the writes of a DisaggregatedSet controller to the children of one *)
(* slice amount to (the barrier of lws_manager.go): every plan is made     *)
(* from the children as they are, a planned write takes effect at most     *)
(* once, and none takes effect after the next plan.  ChildWrites           *)
(* implements this over stale caches, lost answers and restarts.           *)
(***************************************************************************)
CONSTANTS Keys,         \* the names of the children
          Counts,       \* replica counts
          Goals,        \* what the user asks for
          None,         \* a child that is absent or being deleted
          Plans(_, _)   \* the plans for a goal from a view: sets of writes

VARIABLES spec,         \* [Keys -> replicas or None]
          due,          \* planned writes that may still take effect
          unnoticed,    \* children that another client deleted, unknown to the controller
          removed       \* the slice has been taken out of the DisaggregatedSet

vars == <<spec, due, unnoticed, removed>>

Init == /\ spec \in [Keys -> Counts \cup {None}]
        /\ due = {}
        /\ unnoticed = {}
        /\ removed = FALSE

\* An empty child may have appeared behind the view: it has no replicas.
Current(view) == \A k \in Keys \ unnoticed : view[k] = spec[k] \/ (view[k] = None /\ spec[k] = 0)

\* A write of the plan may turn out to be refused at once.
Plan == \E view \in [Keys -> Counts \cup {None}], goal \in Goals :
           /\ Current(view)
           /\ \E step \in Plans(view, goal) : due' \in SUBSET step
           /\ UNCHANGED <<spec, unnoticed, removed>>

Apply == \E w \in due : /\ spec' = [spec EXCEPT ![w.key] = w.to]
                        /\ due' \in SUBSET (due \ {w})
                        /\ UNCHANGED <<unnoticed, removed>>

\* The children of a slice that was taken out are to go.
Retire == /\ removed
          /\ due' \in SUBSET (due \cup [key : Keys, to : {None}])
          /\ UNCHANGED <<spec, unnoticed, removed>>

CreateEmpty == \E k \in Keys : /\ spec[k] = None
                               /\ spec' = [spec EXCEPT ![k] = 0]
                               /\ due' \in SUBSET due
                               /\ UNCHANGED <<unnoticed, removed>>

Lose == \E k \in Keys : /\ spec' = [spec EXCEPT ![k] = None]
                        /\ due' \in SUBSET due
                        /\ unnoticed' = unnoticed \cup {k}
                        /\ UNCHANGED removed

\* Writes are given up, or deletions become known.
Forget == /\ due' \in SUBSET due
          /\ unnoticed' \in SUBSET unnoticed
          /\ UNCHANGED <<spec, removed>>

Resize == /\ removed' = ~removed
          /\ UNCHANGED <<spec, due, unnoticed>>

Next == Plan \/ Apply \/ Retire \/ CreateEmpty \/ Lose \/ Forget \/ Resize

Spec == Init /\ [][Next]_vars
=============================================================================
