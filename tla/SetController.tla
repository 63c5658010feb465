---------------------------- MODULE SetController ----------------------------
(***************************************************************************)
(* The outer loop of the DisaggregatedSet controller (Reconcile in         *)
(* disaggregatedset_controller.go, scaler_manager.go, status.go) for one   *)
(* role: the choice of the revision hash, the scaler of a role with        *)
(* External scaling, the resolved replica target, and the status.          *)
(*                                                                         *)
(* The DisaggregatedSet, its children and its scalers come from three      *)
(* informers, each with its own lag.  Moving replicas between revisions is *)
(* DisaggregatedRollout's subject and kept to one shape here; the barrier  *)
(* on writes to children is ChildWrites', and here the flag `pending`.     *)
(***************************************************************************)
EXTENDS Naturals, FiniteSets, FiniteSetsExt, Functions

CONSTANTS Contents,    \* contents of the role template
          First,       \* the first of them
          Sizes,       \* replica counts the user and the autoscaler ask for
          None,        \* no replica target
          MaxEvents    \* edits, deletions, writes of the autoscaler, failing calls and restarts

ASSUME SetAssumption == /\ IsFiniteSet(Contents) /\ First \in Contents
                        /\ IsFiniteSet(Sizes) /\ Sizes \in SUBSET Nat /\ Sizes # {}

VARIABLES ds, dsView,          \* the DisaggregatedSet with its status, and its cache
          lws, lwsView,        \* [Revisions -> the child], and its cache
          scaler, scalerView,  \* the object that has the scaler's name, and its cache
          pending,             \* a write to a child has not been observed
          pass,                \* the running reconcile
          floor,               \* history: what the role ran when it became External
          spent

vars == <<ds, dsView, lws, lwsView, scaler, scalerView, pending, pass, floor, spent>>

-----------------------------------------------------------------------------
\* A revision is named by the generation of the hash and what it is taken of.
Revisions == {"v1", "v2"} \X Contents

NoChild  == [exists |-> FALSE, replicas |-> 0, initial |-> 0, unscaled |-> FALSE, reported |-> 0]
NoScaler == [exists |-> FALSE, ours |-> FALSE, deleting |-> FALSE, replicas |-> 0, reported |-> 0]
NoStatus == [available |-> "unset", progressing |-> "unset", generation |-> 0]

NoSet == [marked |-> FALSE, mode |-> "Static", replicas |-> 0, content |-> None, generation |-> 0, status |-> NoStatus]
Idle == [at |-> "idle", ds |-> NoSet, hash |-> "v2", target |-> None]

Children(view) == {v \in Revisions : view[v].exists}
Running(view) == SumFunctionOnSet([v \in Revisions |-> view[v].replicas], Revisions)
Reported(view) == SumFunctionOnSet([v \in Revisions |-> view[v].reported], Revisions)

\* The revision the pass works towards.
Target == <<pass.hash, pass.ds.content>>

EndPass == pass' = Idle

Continue(at) == pass' = [pass EXCEPT !.at = at]

-----------------------------------------------------------------------------
(* Reconcile, one action per write.                                        *)

\* mutant: reconciling goes on although the marker has only just been written.
resolveRevisionAtOnce ==
  /\ pass.at = "idle"
  /\ pass' = [at |-> "scalers", ds |-> dsView, target |-> None,
              hash |-> IF dsView.marked \/ Children(lwsView) = {} THEN "v2" ELSE "v1"]
  /\ ds' = [ds EXCEPT !.marked = @ \/ Children(lwsView) = {}]
  /\ UNCHANGED <<dsView, lws, lwsView, scaler, scalerView, pending, floor, spent>>

\* A set without children is marked and left until the mark is observed; one
\* with children and no mark keeps the hash it was created with.
resolveRevision ==
  /\ pass.at = "idle"
  /\ IF dsView.marked \/ Children(lwsView) # {}
     THEN /\ pass' = [at |-> "scalers", ds |-> dsView, target |-> None,
                      hash |-> IF dsView.marked THEN "v2" ELSE "v1"]
          /\ UNCHANGED ds
     ELSE /\ ds' = [ds EXCEPT !.marked = TRUE]
          /\ UNCHANGED pass
  /\ UNCHANGED <<dsView, lws, lwsView, scaler, scalerView, pending, floor, spent>>

\* mutant: only the current revision counts.
seedForRoleCurrent(view) ==
  IF Children(view) = {} THEN 1
  ELSE IF Running(view) = 0 THEN view[Target].initial
  ELSE view[Target].replicas

\* Running replicas of all revisions; the recorded intent of an unstarted
\* current child when nothing runs; one for a role without children.
seedForRole(view) ==
  LET current == view[Target] IN
  IF Children(view) = {} THEN 1
  ELSE IF current.exists /\ current.unscaled /\ Running(view) = 0 THEN current.initial
  ELSE Running(view)

Owned(s) == s.exists /\ s.ours

\* ScalerManager.Reconcile of a Static role: its scaler is deleted.
DeleteScaler ==
  /\ pass.at = "scalers" /\ pass.ds.mode = "Static"
  /\ scaler' = IF Owned(scalerView) /\ Owned(scaler) THEN NoScaler ELSE scaler
  /\ pass' = [pass EXCEPT !.at = "slice", !.target = pass.ds.replicas]
  /\ UNCHANGED <<ds, dsView, lws, lwsView, scalerView, pending, floor, spent>>

\* resolveDesiredReplicasByRole with the scaler in the cache.
UseScaler ==
  /\ pass.at = "scalers" /\ pass.ds.mode = "External"
  /\ Owned(scalerView) /\ ~scalerView.deleting
  /\ pass' = [pass EXCEPT !.at = "slice", !.target = scalerView.replicas]
  /\ UNCHANGED <<ds, dsView, lws, lwsView, scaler, scalerView, pending, floor, spent>>

\* No scaler in the cache: the seed waits for outstanding writes to children, a
\* name that is taken is adopted if it is ours, and otherwise left unresolved.
create ==
  /\ pass.at = "scalers" /\ pass.ds.mode = "External"
  /\ ~(Owned(scalerView) /\ ~scalerView.deleting)
  /\ \/ /\ pending
        /\ EndPass /\ UNCHANGED scaler
     \/ /\ ~pending /\ ~scaler.exists
        /\ scaler' = [NoScaler EXCEPT !.exists = TRUE, !.ours = TRUE, !.replicas = seedForRole(lwsView)]
        /\ pass' = [pass EXCEPT !.at = "slice", !.target = seedForRole(lwsView)]
     \/ /\ ~pending /\ scaler.exists
        /\ IF scalerView.exists THEN Continue("status") ELSE EndPass
        /\ UNCHANGED scaler
  /\ UNCHANGED <<ds, dsView, lws, lwsView, scalerView, pending, floor, spent>>

\* A conditional write to a child: refused when the cache is behind.
WriteChild(v, c) ==
  IF lwsView[v] = lws[v] THEN lws' = [lws EXCEPT ![v] = c] /\ pending' = TRUE
                         ELSE UNCHANGED <<lws, pending>>

\* A name that is taken by our own child is left alone.
CreateChild(c) ==
  IF lws[Target].exists THEN UNCHANGED <<lws, pending>>
  ELSE lws' = [lws EXCEPT ![Target] = c] /\ UNCHANGED pending

\* reconcileSlice: create the target empty, grow it, drain the old revisions when
\* it is complete, delete them when drained, follow the target otherwise.
reconcileSlice ==
  LET v == Target
      current == lwsView[v]
      old == Children(lwsView) \ {v}
  IN
  /\ pass.at = "slice"
  /\ IF pending THEN UNCHANGED <<lws, pending>>
     ELSE IF ~current.exists
     THEN CreateChild([NoChild EXCEPT !.exists = TRUE, !.initial = pass.target, !.unscaled = TRUE])
     ELSE IF current.initial # pass.target
     THEN WriteChild(v, [current EXCEPT !.initial = pass.target])
     ELSE IF current.replicas < pass.target \/ (old = {} /\ current.replicas # pass.target)
     THEN WriteChild(v, [current EXCEPT !.replicas = pass.target, !.unscaled = @ /\ pass.target = 0])
     ELSE IF current.reported # current.replicas \/ old = {} THEN UNCHANGED <<lws, pending>>
     ELSE \E o \in old : IF lwsView[o].replicas > 0 THEN WriteChild(o, [lwsView[o] EXCEPT !.replicas = 0])
                         ELSE WriteChild(o, NoChild)
  /\ Continue("status")
  /\ UNCHANGED <<ds, dsView, lwsView, scaler, scalerView, floor, spent>>

\* summarizeRoleStatuses: every group counted is wanted, ready and updated.
Available(view) == /\ pass.target # None
                   /\ Reported(view) = pass.target
                   /\ view[Target].reported = pass.target

\* mutant: the other condition of the pair is left as it is.
setConditionAlone(status, available) ==
  IF available THEN [status EXCEPT !.available = "true"] ELSE [status EXCEPT !.progressing = "true"]

\* Available and Progressing exclude each other; one that was never set stays unset.
setDisaggregatedSetCondition(status, available) ==
  LET off(c) == IF c = "true" THEN "false" ELSE c IN
  IF available THEN [status EXCEPT !.available = "true", !.progressing = off(@)]
               ELSE [status EXCEPT !.progressing = "true", !.available = off(@)]

\* updateStatus: the scaler is patched, the status is written unless the
\* DisaggregatedSet has changed since it was read.
updateStatus ==
  LET status == [setDisaggregatedSetCondition(pass.ds.status, Available(lwsView))
                   EXCEPT !.generation = pass.ds.generation]
  IN
  /\ pass.at = "status"
  /\ scaler' = IF pass.ds.mode = "External" /\ pass.target # None /\ scaler.exists
               THEN [scaler EXCEPT !.reported = Reported(lwsView)] ELSE scaler
  /\ ds' = IF pass.ds = ds THEN [ds EXCEPT !.status = status] ELSE ds
  /\ EndPass
  /\ UNCHANGED <<dsView, lws, lwsView, scalerView, pending, floor, spent>>

-----------------------------------------------------------------------------
(* The informers, the children's controller, the autoscaler and the user.  *)

ObserveSet == dsView # ds /\ dsView' = ds
              /\ UNCHANGED <<ds, lws, lwsView, scaler, scalerView, pending, pass, floor, spent>>
ObserveChildren == lwsView # lws /\ lwsView' = lws /\ pending' = FALSE
              /\ UNCHANGED <<ds, dsView, lws, scaler, scalerView, pass, floor, spent>>
ObserveScaler == scalerView # scaler /\ scalerView' = scaler
              /\ UNCHANGED <<ds, dsView, lws, lwsView, scaler, pending, pass, floor, spent>>

ChildReports(v) ==
  /\ lws[v].exists /\ lws[v].reported # lws[v].replicas
  /\ lws' = [lws EXCEPT ![v].reported = lws[v].replicas]
  /\ UNCHANGED <<ds, dsView, lwsView, scaler, scalerView, pending, pass, floor, spent>>

Collected == /\ scaler.deleting
             /\ scaler' = NoScaler
             /\ UNCHANGED <<ds, dsView, lws, lwsView, scalerView, pending, pass, floor, spent>>

Event == /\ spent.events < MaxEvents
         /\ spent' = [spent EXCEPT !.events = @ + 1]

\* A call fails, or the process stops and starts again with current caches.
Stop == /\ pass.at # "idle"
        /\ Event
        /\ EndPass
        /\ \/ UNCHANGED <<dsView, lwsView, scalerView, pending>>
           \/ dsView' = ds /\ lwsView' = lws /\ scalerView' = scaler /\ pending' = FALSE
        /\ UNCHANGED <<ds, lws, scaler, floor>>

\* The autoscaler writes the scaler, or the user deletes it (it is collected at
\* once or later); an object of somebody else goes away.
ScalerChanges ==
  /\ Event
  /\ scaler.exists /\ ~scaler.deleting
  /\ \/ scaler.ours /\ \E n \in Sizes \ {scaler.replicas} : scaler' = [scaler EXCEPT !.replicas = n]
     \/ scaler.ours /\ scaler' = [scaler EXCEPT !.deleting = TRUE]
     \/ ~scaler.ours /\ scaler' = NoScaler
  /\ floor' = IF scaler.ours THEN 0 ELSE floor
  /\ UNCHANGED <<ds, dsView, lws, lwsView, scalerView, pending, pass>>

\* The role ran what was asked for, had no scaler, and the controller was done.
Quiet == /\ ~Owned(scaler) /\ pass.at = "idle" /\ dsView = ds /\ scalerView = scaler /\ lwsView = lws
         /\ ds.mode = "Static" /\ Running(lws) = ds.replicas

Edit ==
  /\ Event
  /\ \/ /\ ds' = [ds EXCEPT !.mode = IF @ = "Static" THEN "External" ELSE "Static", !.generation = @ + 1]
        /\ floor' = IF Quiet THEN Running(lws) ELSE 0
     \/ /\ \E n \in Sizes \ {ds.replicas} : ds' = [ds EXCEPT !.replicas = n, !.generation = @ + 1]
        /\ UNCHANGED floor
     \/ /\ \E v \in Contents \ {ds.content} : ds' = [ds EXCEPT !.content = v, !.generation = @ + 1]
        /\ UNCHANGED floor
  /\ UNCHANGED <<dsView, lws, lwsView, scaler, scalerView, pending, pass>>

-----------------------------------------------------------------------------
Start(legacy, taken, mode, n, v) ==
  /\ ds = [marked |-> FALSE, mode |-> mode, replicas |-> n, content |-> v, generation |-> 1, status |-> NoStatus]
  /\ lws = [w \in Revisions |-> IF legacy /\ w = <<"v1", v>>
                                THEN [NoChild EXCEPT !.exists = TRUE, !.replicas = n, !.initial = n, !.reported = n]
                                ELSE NoChild]
  /\ scaler = [NoScaler EXCEPT !.exists = taken]
  /\ dsView = ds /\ lwsView = lws /\ scalerView = scaler
  /\ pending = FALSE
  /\ pass = Idle
  /\ floor = 0
  /\ spent = [events |-> 0, legacy |-> legacy]

\* A new set, with its scaler's name free or taken, or one of an older controller.
Init == \/ \E taken \in BOOLEAN, mode \in {"Static", "External"} : Start(FALSE, taken, mode, Max(Sizes), First)
        \/ Start(TRUE, FALSE, "Static", Max(Sizes), First)

Reconcile == \/ resolveRevision \/ DeleteScaler \/ UseScaler \/ create \/ reconcileSlice \/ updateStatus

Cluster == \/ ObserveSet \/ ObserveChildren \/ ObserveScaler \/ Collected
           \/ \E v \in Revisions : ChildReports(v)

Next == Reconcile \/ Cluster \/ Stop \/ ScalerChanges \/ Edit

Spec == Init /\ [][Next]_vars

\* Reconciles are run again, caches catch up, children follow their spec.
FairSpec == /\ Spec
            /\ WF_vars(Reconcile)
            /\ WF_vars(ObserveSet) /\ WF_vars(ObserveChildren) /\ WF_vars(ObserveScaler)
            /\ WF_vars(Collected) /\ \A v \in Revisions : WF_vars(ChildReports(v))

-----------------------------------------------------------------------------
Status == [available : {"unset", "true", "false"}, progressing : {"unset", "true", "false"}, generation : Nat]

Set == [marked : BOOLEAN, mode : {"Static", "External"}, replicas : Nat, content : Contents, generation : Nat,
        status : Status]

Child == [exists : BOOLEAN, replicas : Nat, initial : Nat, unscaled : BOOLEAN, reported : Nat]

Scaler == [exists : BOOLEAN, ours : BOOLEAN, deleting : BOOLEAN, replicas : Nat, reported : Nat]

TypeOK ==
  /\ ds \in Set /\ dsView \in Set
  /\ lws \in [Revisions -> Child] /\ lwsView \in [Revisions -> Child]
  /\ scaler \in Scaler /\ scalerView \in Scaler
  /\ pending \in BOOLEAN /\ floor \in Nat
  /\ pass \in [at : {"idle", "scalers", "slice", "status"}, ds : Set \cup {NoSet}, hash : {"v1", "v2"},
               target : Nat \cup {None}]
  /\ pass.at # "idle" => pass.ds \in Set
  /\ pass.at = "slice" => pass.target \in Nat
  /\ spent \in [events : Nat, legacy : BOOLEAN]

Generation == IF spent.legacy THEN "v1" ELSE "v2"

\* A set keeps the hash generation it started with (resolveRevision): a new set
\* is never taken for an old one because the cache of its children is ahead of
\* the cache of its marker, and an old one is never rolled out again.
SameGeneration == \A v \in Children(lws) : v[1] = Generation

\* Switching a role to External never takes replicas from it: not while the
\* scaler is missing, taken by somebody else, newly seeded, or rolled over.
FlipHolds == ds.mode = "External" => Running(lws) >= floor

Unresolved == ds.mode = "External" /\ scaler.exists /\ ~scaler.ours

\* The status comes to tell the truth about the last edit: Available and not
\* Progressing when the role has its replicas, Progressing and not Available
\* when its scaler's name is taken; and the scaler is told the count.
StatusSettles ==
  <>[]IF Unresolved THEN ds.status.progressing = "true" /\ ds.status.available # "true"
      ELSE /\ ds.status.available = "true" /\ ds.status.progressing # "true"
           /\ ds.status.generation = ds.generation
           /\ lws[<<Generation, ds.content>>].replicas = IF ds.mode = "Static" THEN ds.replicas ELSE scaler.replicas
           /\ Running(lws) = lws[<<Generation, ds.content>>].replicas
           /\ ds.mode = "External" => scaler.reported = Running(lws)
=============================================================================
