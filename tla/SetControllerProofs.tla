------------------------ MODULE SetControllerProofs ------------------------
(***************************************************************************)
(* Theorems about SetController, for all contents, sizes and numbers of    *)
(* events.                                                                 *)
(***************************************************************************)
EXTENDS SetController, SumProofs

-----------------------------------------------------------------------------
(* The inductive invariants.                                               *)

\* A cache that shows every write shows what exists and how much of it runs.
ViewInv == ~pending => \A v \in Revisions : lwsView[v].exists =>
                         lws[v].exists /\ lws[v].replicas = lwsView[v].replicas

\* A set of an older controller always has a child, in the cluster and in the
\* cache, and therefore never a marker.
OldInv == spent.legacy => /\ ~ds.marked /\ ~dsView.marked
                          /\ Children(lws) # {} /\ Children(lwsView) # {}

\* The marker of a new set is in the cache before anything is done for the set.
NewInv == ~spent.legacy => /\ dsView.marked => ds.marked
                           /\ Children(lws) # {} \/ Children(lwsView) # {} \/ pass.at # "idle" => dsView.marked

GenerationInv == /\ ViewInv /\ OldInv /\ NewInv
                 /\ pass.at # "idle" => pass.hash = Generation
                 /\ \A v \in Children(lws) \cup Children(lwsView) : v[1] = Generation

\* What a role ran when it became External bounds from below every number that
\* is still on its way to the children: the replicas of the Static role in a
\* cache or a running pass, those of the scaler, and the target of the pass.
FlipInv == /\ ViewInv
           /\ \A v \in Revisions : ~lws[v].exists => lws[v].replicas = 0
           /\ \A v \in Revisions : ~lwsView[v].exists => lwsView[v].replicas = 0
           /\ Running(lws) >= floor /\ Running(lwsView) >= floor
           /\ Owned(scaler) => scaler.replicas >= floor
           /\ Owned(scalerView) => scalerView.replicas >= floor
           /\ ds.mode = "Static" => floor = 0
           /\ dsView.mode = "Static" => dsView.replicas >= floor
           /\ pass.at # "idle" /\ pass.ds.mode = "Static" => pass.ds.replicas >= floor
           /\ pass.at = "slice" => pass.target >= floor

-----------------------------------------------------------------------------
(* Replicas of all revisions.                                              *)

LEMMA RevisionsFinite == IsFiniteSet(Revisions)
<1>1. IsFiniteSet({"v1", "v2"})
  <2>1. IsFiniteSet({"v1"}) /\ {"v1"} \cup {"v2"} = {"v1", "v2"}
    BY FS_Singleton
  <2> QED
    BY <2>1, FS_AddElement
<1> QED
  BY <1>1, SetAssumption, FS_Product DEF Revisions

\* A role runs at least what one revision runs, and nothing without children.
LEMMA RunningBounds ==
  ASSUME NEW view \in [Revisions -> Child]
  PROVE  /\ Running(view) \in Nat
         /\ \A v \in Revisions : view[v].replicas <= Running(view)
         /\ (\A v \in Revisions : view[v].replicas = 0) => Running(view) = 0
<1> DEFINE f == [v \in Revisions |-> view[v].replicas]
<1>1. \A v \in Revisions : f[v] = view[v].replicas /\ f[v] \in Nat
  BY DEF Child
<1>2. Running(view) = SumFunctionOnSet(f, Revisions)
  BY DEF Running
<1> HIDE DEF f
<1> QED
  BY <1>1, <1>2, RevisionsFinite, SumOfNaturals

LEMMA ReportedType ==
  ASSUME NEW view \in [Revisions -> Child]
  PROVE  Reported(view) \in Nat
<1> DEFINE f == [v \in Revisions |-> view[v].reported]
<1>1. \A v \in Revisions : f[v] \in Nat
  BY DEF Child
<1>2. Reported(view) = SumFunctionOnSet(f, Revisions)
  BY DEF Reported
<1> HIDE DEF f
<1> QED
  BY <1>1, <1>2, RevisionsFinite, SumOfNaturals

LEMMA RunningSame ==
  ASSUME NEW view, NEW other, \A v \in Revisions : view[v].replicas = other[v].replicas
  PROVE  Running(view) = Running(other)
<1>1. [v \in Revisions |-> view[v].replicas] = [v \in Revisions |-> other[v].replicas]
  OBVIOUS
<1> QED
  BY <1>1 DEF Running

\* The largest size is one of the sizes.
LEMMA MaxOfSizes == Max(Sizes) \in Sizes
<1> DEFINE HasMax(T) == T # {} => \E x \in T : \A y \in T : x >= y
           Good      == {T \in SUBSET Sizes : HasMax(T)}
<1>1. Good \in SUBSET SUBSET Sizes /\ {} \in Good
  OBVIOUS
<1>2. ASSUME NEW T \in SUBSET Sizes, T # {}, \A x \in T : T \ {x} \in Good
      PROVE  T \in Good
  <2>1. PICK x \in T : TRUE
    BY <1>2
  <2>2. HasMax(T \ {x}) /\ T \in SUBSET Nat
    BY <1>2, SetAssumption
  <2>3. CASE T \ {x} = {}
    BY <2>2, <2>3
  <2>4. CASE T \ {x} # {}
    <3>1. PICK z \in T \ {x} : \A y \in T \ {x} : z >= y
      BY <2>2, <2>4
    <3>2. CASE x >= z
      BY <2>2, <3>1, <3>2
    <3>3. CASE z >= x
      BY <2>2, <3>1, <3>3
    <3> QED
      BY <2>2, <3>2, <3>3
  <2> QED
    BY <2>3, <2>4
<1>3. \A T \in SUBSET Sizes : T \in Good
  <2> HIDE DEF Good
  <2> QED
    BY <1>1, <1>2, SetAssumption, SubsetCases
<1>4. \E x \in Sizes : \A y \in Sizes : x >= y
  BY <1>3, SetAssumption
<1> QED
  BY <1>4 DEF Max

\* The number a new scaler starts with is never below what the cache runs.
LEMMA SeedBound ==
  ASSUME TypeOK, Target \in Revisions
  PROVE  /\ seedForRole(lwsView) \in Nat
         /\ (\A v \in Revisions : ~lwsView[v].exists => lwsView[v].replicas = 0)
              => seedForRole(lwsView) >= Running(lwsView)
<1>1. lwsView \in [Revisions -> Child] /\ Running(lwsView) \in Nat /\ lwsView[Target].initial \in Nat
  BY RunningBounds DEF TypeOK, Child
<1>2. CASE Children(lwsView) = {}
  <2>1. seedForRole(lwsView) = 1
    BY <1>2 DEF seedForRole
  <2>2. \A v \in Revisions : ~lwsView[v].exists
    BY <1>2 DEF Children
  <2>3. (\A v \in Revisions : lwsView[v].replicas = 0) => Running(lwsView) = 0
    BY <1>1, RunningBounds
  <2> QED
    BY <2>1, <2>2, <2>3
<1>3. CASE Children(lwsView) # {}
  BY <1>1, <1>3 DEF seedForRole
<1> QED
  BY <1>2, <1>3

-----------------------------------------------------------------------------
(* The steps.                                                              *)

LEMMA TargetType == TypeOK /\ pass.at # "idle" => Target \in Revisions
BY DEF TypeOK, Target, Revisions, Set

\* Everything a pass may do to the children: nothing, create the target, write
\* the target, or, when the target is there and complete, write another one.
LEMMA SliceCases ==
  ASSUME TypeOK, reconcileSlice
  PROVE  \/ UNCHANGED <<lws, pending>>
         \/ /\ ~pending /\ pending' = pending /\ ~lws[Target].exists
            /\ \E c \in Child : /\ c.exists /\ c.replicas = 0
                                /\ lws' = [lws EXCEPT ![Target] = c]
         \/ /\ ~pending /\ pending' = TRUE /\ lws[Target].exists
            /\ \E c \in Child : /\ c.exists /\ c.replicas \in {lws[Target].replicas, pass.target}
                                /\ lws' = [lws EXCEPT ![Target] = c]
         \/ /\ ~pending /\ pending' = TRUE
            /\ lwsView[Target].exists /\ lwsView[Target].replicas >= pass.target
            /\ \E o \in Children(lwsView) \ {Target}, c \in Child :
                 c.replicas = 0 /\ lws' = [lws EXCEPT ![o] = c]
<1> DEFINE v == Target
           current == lwsView[v]
           old == Children(lwsView) \ {v}
<1>1. v \in Revisions /\ current \in Child /\ lws[v] \in Child /\ pass.target \in Nat /\ pending \in BOOLEAN
  BY TargetType DEF TypeOK, reconcileSlice
<1>2. CASE pending
  BY <1>2 DEF reconcileSlice
<1>3. CASE ~pending /\ ~current.exists
  <2> DEFINE c == [NoChild EXCEPT !.exists = TRUE, !.initial = pass.target, !.unscaled = TRUE]
  <2>1. CreateChild(c)
    BY <1>3 DEF reconcileSlice
  <2>2. c \in Child /\ c.exists /\ c.replicas = 0
    BY <1>1 DEF NoChild, Child
  <2> HIDE DEF c
  <2> QED
    BY <1>1, <1>3, <2>1, <2>2 DEF CreateChild
<1>4. CASE ~pending /\ current.exists /\ current.initial # pass.target
  <2> DEFINE c == [current EXCEPT !.initial = pass.target]
  <2>1. WriteChild(v, c)
    BY <1>4 DEF reconcileSlice
  <2>2. c \in Child /\ c.exists /\ c.replicas = current.replicas
    BY <1>1, <1>4 DEF Child
  <2> HIDE DEF c
  <2> QED
    BY <1>1, <1>4, <2>1, <2>2 DEF WriteChild
<1>5. CASE /\ ~pending /\ current.exists /\ current.initial = pass.target
           /\ current.replicas < pass.target \/ (old = {} /\ current.replicas # pass.target)
  <2> DEFINE c == [current EXCEPT !.replicas = pass.target, !.unscaled = @ /\ pass.target = 0]
  <2>1. WriteChild(v, c)
    BY <1>5 DEF reconcileSlice
  <2>2. c \in Child /\ c.exists /\ c.replicas = pass.target
    BY <1>1, <1>5 DEF Child
  <2> HIDE DEF c
  <2> QED
    BY <1>1, <1>5, <2>1, <2>2 DEF WriteChild
<1>6. CASE /\ ~pending /\ current.exists /\ current.initial = pass.target
           /\ ~(current.replicas < pass.target \/ (old = {} /\ current.replicas # pass.target))
           /\ current.reported # current.replicas \/ old = {}
  BY <1>6 DEF reconcileSlice
<1>7. CASE /\ ~pending /\ current.exists /\ current.initial = pass.target
           /\ ~(current.replicas < pass.target \/ (old = {} /\ current.replicas # pass.target))
           /\ ~(current.reported # current.replicas \/ old = {})
  <2>1. PICK o \in old : IF lwsView[o].replicas > 0 THEN WriteChild(o, [lwsView[o] EXCEPT !.replicas = 0])
                         ELSE WriteChild(o, NoChild)
    BY <1>7 DEF reconcileSlice
  <2>2. o \in Revisions /\ lwsView[o] \in Child
    BY DEF TypeOK, Children
  <2>3. /\ [lwsView[o] EXCEPT !.replicas = 0] \in Child
        /\ [lwsView[o] EXCEPT !.replicas = 0].replicas = 0
        /\ NoChild \in Child /\ NoChild.replicas = 0
    BY <2>2 DEF Child, NoChild
  <2>4. current.replicas >= pass.target
    BY <1>1, <1>7 DEF Child
  <2>5. \E c \in Child : c.replicas = 0 /\ WriteChild(o, c)
    BY <2>1, <2>3
  <2> HIDE DEF old
  <2>6. o \in Children(lwsView) \ {Target}
    BY DEF old
  <2> QED
    BY <1>7, <2>4, <2>5, <2>6 DEF WriteChild
<1> QED
  BY <1>1, <1>2, <1>3, <1>4, <1>5, <1>6, <1>7

LEMMA TypeStart == Init => TypeOK
<1> SUFFICES ASSUME NEW legacy \in BOOLEAN, NEW taken \in BOOLEAN, NEW mode \in {"Static", "External"},
                    Start(legacy, taken, mode, Max(Sizes), First)
             PROVE  TypeOK
  BY DEF Init
<1> DEFINE n == Max(Sizes)
           child == [NoChild EXCEPT !.exists = TRUE, !.replicas = n, !.initial = n, !.reported = n]
<1>1. n \in Nat /\ First \in Contents
  BY MaxOfSizes, SetAssumption
<1> HIDE DEF n
<1>2. NoChild \in Child /\ child \in Child
  BY <1>1 DEF NoChild, Child
<1> HIDE DEF child
<1>3. /\ ds = [marked |-> FALSE, mode |-> mode, replicas |-> n, content |-> First, generation |-> 1,
               status |-> NoStatus]
      /\ lws = [w \in Revisions |-> IF legacy /\ w = <<"v1", First>> THEN child ELSE NoChild]
      /\ scaler = [NoScaler EXCEPT !.exists = taken]
      /\ dsView = ds /\ lwsView = lws /\ scalerView = scaler
      /\ pending = FALSE /\ pass = Idle /\ floor = 0
      /\ spent = [events |-> 0, legacy |-> legacy]
  BY Zenon DEF Start, n, child
<1>4. NoStatus \in Status
  BY DEF NoStatus, Status
<1>5. ds \in Set
  BY <1>1, <1>3, <1>4 DEF Set
<1>6. scaler \in Scaler
  BY <1>3 DEF Scaler, NoScaler
<1>7. lws \in [Revisions -> Child]
  BY <1>2, <1>3
<1>8. pass \in [at : {"idle", "scalers", "slice", "status"}, ds : Set \cup {NoSet}, hash : {"v1", "v2"},
                target : Nat \cup {None}] /\ pass.at = "idle"
  BY <1>3 DEF Idle
<1>9. spent \in [events : Nat, legacy : BOOLEAN] /\ pending \in BOOLEAN /\ floor \in Nat
  BY <1>3
<1> QED
  BY <1>3, <1>5, <1>6, <1>7, <1>8, <1>9, Zenon DEF TypeOK

\* An edit of a set is a set.
LEMMA SetUpdates ==
  ASSUME NEW s \in Set
  PROVE  /\ \A m \in {"Static", "External"} : [s EXCEPT !.mode = m, !.generation = @ + 1] \in Set
         /\ \A n \in Nat : [s EXCEPT !.replicas = n, !.generation = @ + 1] \in Set
         /\ \A v \in Contents : [s EXCEPT !.content = v, !.generation = @ + 1] \in Set
<1>1. s.generation + 1 \in Nat
  BY DEF Set
<1> DEFINE g == s.generation + 1
<1> HIDE DEF g
<1>2. ASSUME NEW m \in {"Static", "External"} PROVE [s EXCEPT !.mode = m, !.generation = g] \in Set
  BY <1>1 DEF Set, g
<1>3. ASSUME NEW n \in Nat PROVE [s EXCEPT !.replicas = n, !.generation = g] \in Set
  BY <1>1 DEF Set, g
<1>4. ASSUME NEW v \in Contents PROVE [s EXCEPT !.content = v, !.generation = g] \in Set
  BY <1>1 DEF Set, g
<1> QED
  BY <1>2, <1>3, <1>4 DEF g

LEMMA TypeStep == TypeOK /\ [Next]_vars => TypeOK'
<1> SUFFICES ASSUME TypeOK, [Next]_vars PROVE TypeOK'
  OBVIOUS
<1> DEFINE Passes == [at : {"idle", "scalers", "slice", "status"}, ds : Set \cup {NoSet}, hash : {"v1", "v2"},
                      target : Nat \cup {None}]
<1>1. Idle \in Passes /\ Idle.at = "idle"
  BY DEF Idle
<1>2. NoChild \in Child /\ NoScaler \in Scaler
  BY DEF NoChild, NoScaler, Child, Scaler
<1>3. CASE resolveRevision
  <2>1. ds' \in Set
    <3>1. ds \in Set /\ [ds EXCEPT !.marked = TRUE] \in Set
      BY DEF TypeOK, Set
    <3> QED
      BY <1>3, <3>1 DEF resolveRevision
  <2>2. pass' \in Passes /\ (pass'.at # "idle" => pass'.ds \in Set) /\ pass'.at # "slice"
    BY <1>3 DEF resolveRevision, TypeOK
  <2> QED
    BY <1>3, <2>1, <2>2 DEF resolveRevision, TypeOK
<1>4. CASE DeleteScaler
  <2>1. pass' \in Passes /\ pass'.ds \in Set /\ pass'.target \in Nat
    BY <1>4 DEF DeleteScaler, TypeOK, Set
  <2> QED
    BY <1>2, <1>4, <2>1 DEF DeleteScaler, TypeOK
<1>5. CASE UseScaler
  <2>1. pass' \in Passes /\ pass'.ds \in Set /\ pass'.target \in Nat
    BY <1>5 DEF UseScaler, TypeOK, Scaler
  <2> QED
    BY <1>5, <2>1 DEF UseScaler, TypeOK
<1>6. CASE create
  <2>1. Target \in Revisions /\ pass.ds \in Set
    BY <1>6, TargetType DEF create, TypeOK
  <2>2. seedForRole(lwsView) \in Nat
    BY <2>1, SeedBound
  <2>3. scaler' \in Scaler
    <3>1. \A n \in Nat : [NoScaler EXCEPT !.exists = TRUE, !.ours = TRUE, !.replicas = n] \in Scaler
      BY DEF Scaler, NoScaler
    <3> QED
      BY <1>6, <2>2, <3>1 DEF create, TypeOK
  <2>4. pass' \in Passes /\ (pass'.at # "idle" => pass'.ds \in Set) /\ (pass'.at = "slice" => pass'.target \in Nat)
    BY <1>1, <1>6, <2>1, <2>2 DEF create, EndPass, Continue, TypeOK
  <2> QED
    BY <1>6, <2>3, <2>4 DEF create, TypeOK
<1>7. CASE reconcileSlice
  <2>1. lws' \in [Revisions -> Child] /\ pending' \in BOOLEAN
    <3>1. Target \in Revisions /\ Children(lwsView) \in SUBSET Revisions
      BY <1>7, TargetType DEF reconcileSlice, Children
    <3> QED
      BY <1>7, <3>1, SliceCases DEF TypeOK
  <2>2. pass' \in Passes /\ pass'.at = "status" /\ pass'.ds \in Set
    BY <1>7 DEF reconcileSlice, Continue, TypeOK
  <2> QED
    BY <1>7, <2>1, <2>2 DEF reconcileSlice, TypeOK
<1>8. CASE updateStatus
  <2>1. scaler' \in Scaler
    <3>1. Reported(lwsView) \in Nat
      BY ReportedType DEF TypeOK
    <3> QED
      BY <1>8, <3>1 DEF updateStatus, TypeOK, Scaler
  <2>2. ds' \in Set
    <3>1. pass.ds \in Set /\ ds \in Set /\ pass.ds.status \in Status /\ pass.ds.generation \in Nat
      BY <1>8 DEF updateStatus, TypeOK, Set
    <3>2. \A b \in BOOLEAN : [setDisaggregatedSetCondition(pass.ds.status, b)
                                EXCEPT !.generation = pass.ds.generation] \in Status
      BY <3>1 DEF Status, setDisaggregatedSetCondition
    <3>4. \A st \in Status : [ds EXCEPT !.status = st] \in Set
      BY <3>1 DEF Set
    <3>3. Available(lwsView) \in BOOLEAN
      BY DEF Available
    <3> QED
      BY <1>8, <3>1, <3>2, <3>3, <3>4 DEF updateStatus
  <2> QED
    BY <1>1, <1>8, <2>1, <2>2 DEF updateStatus, EndPass, TypeOK
<1>9. CASE ObserveSet \/ ObserveChildren \/ ObserveScaler
  BY <1>9 DEF ObserveSet, ObserveChildren, ObserveScaler, TypeOK
<1>10. CASE Collected
  BY <1>2, <1>10 DEF Collected, TypeOK
<1>11. CASE \E v \in Revisions : ChildReports(v)
  <2>1. lws' \in [Revisions -> Child]
    BY <1>11 DEF ChildReports, TypeOK, Child
  <2> QED
    BY <1>11, <2>1 DEF ChildReports, TypeOK
<1>12. CASE Stop
  <2>1. spent' \in [events : Nat, legacy : BOOLEAN]
    BY <1>12 DEF Stop, Event, TypeOK
  <2> QED
    BY <1>1, <1>12, <2>1 DEF Stop, EndPass, TypeOK
<1>13. CASE ScalerChanges
  <2>1. spent' \in [events : Nat, legacy : BOOLEAN]
    BY <1>13 DEF ScalerChanges, Event, TypeOK
  <2>2. scaler' \in Scaler
    BY <1>2, <1>13, SetAssumption DEF ScalerChanges, TypeOK, Scaler
  <2> QED
    BY <1>13, <2>1, <2>2 DEF ScalerChanges, TypeOK
<1>14. CASE Edit
  <2>1. spent' \in [events : Nat, legacy : BOOLEAN]
    <3>1. spent' = [spent EXCEPT !.events = @ + 1]
      BY <1>14, Zenon DEF Edit, Event
    <3> QED
      BY <3>1 DEF TypeOK
  <2>2. /\ \/ ds' = [ds EXCEPT !.mode = IF @ = "Static" THEN "External" ELSE "Static", !.generation = @ + 1]
           \/ \E n \in Sizes : ds' = [ds EXCEPT !.replicas = n, !.generation = @ + 1]
           \/ \E v \in Contents : ds' = [ds EXCEPT !.content = v, !.generation = @ + 1]
        /\ UNCHANGED <<dsView, lws, lwsView, scaler, scalerView, pending, pass>>
    BY <1>14, Zenon DEF Edit
  <2>3. ds \in Set /\ lws \in [Revisions -> Child] /\ floor \in Nat
    BY DEF TypeOK
  <2>4. ds' \in Set
    <3> DEFINE flipped == IF ds.mode = "Static" THEN "External" ELSE "Static"
    <3>1. flipped \in {"Static", "External"} /\ Sizes \in SUBSET Nat
      BY <2>3, SetAssumption
    <3> HIDE DEF flipped
    <3>2. [ds EXCEPT !.mode = flipped, !.generation = @ + 1] \in Set
      BY <2>3, <3>1, SetUpdates
    <3>3. \A n \in Sizes : [ds EXCEPT !.replicas = n, !.generation = @ + 1] \in Set
      BY <2>3, <3>1, SetUpdates
    <3>4. \A v \in Contents : [ds EXCEPT !.content = v, !.generation = @ + 1] \in Set
      BY <2>3, SetUpdates
    <3> QED
      BY <2>2, <3>2, <3>3, <3>4, Zenon DEF flipped
  <2>5. floor' \in Nat
    <3>1. Running(lws) \in Nat
      BY <2>3, RunningBounds
    <3>2. floor' = floor \/ floor' = 0 \/ floor' = Running(lws)
      BY <1>14, Zenon DEF Edit
    <3> QED
      BY <2>3, <3>1, <3>2
  <2> QED
    BY <2>1, <2>2, <2>4, <2>5 DEF TypeOK
<1>15. CASE UNCHANGED vars
  BY <1>15 DEF vars, TypeOK
<1> QED
  BY <1>3, <1>4, <1>5, <1>6, <1>7, <1>8, <1>9, <1>10, <1>11, <1>12, <1>13, <1>14, <1>15
     DEF Next, Reconcile, Cluster

-----------------------------------------------------------------------------
(* The generation of the hash.                                             *)

\* A write leaves the cache behind until it is observed; nothing else changes
\* what the cache shows.
LEMMA ViewStep == TypeOK /\ TypeOK' /\ ViewInv /\ [Next]_vars => ViewInv'
<1> SUFFICES ASSUME TypeOK, TypeOK', ViewInv, [Next]_vars PROVE ViewInv'
  OBVIOUS
<1>1. CASE UNCHANGED <<lws, lwsView, pending>>
  BY <1>1 DEF ViewInv
<1>2. CASE reconcileSlice
  <2>1. Target \in Revisions /\ lws \in [Revisions -> Child] /\ lwsView' = lwsView
    BY <1>2, TargetType DEF reconcileSlice, TypeOK
  <2>2. CASE UNCHANGED <<lws, pending>>
    BY <2>1, <2>2 DEF ViewInv
  <2>3. CASE pending'
    BY <2>3 DEF ViewInv
  <2>4. CASE /\ ~pending /\ ~lws[Target].exists
             /\ \E c \in Child : lws' = [lws EXCEPT ![Target] = c]
    BY <2>1, <2>4 DEF ViewInv
  <2> QED
    BY <1>2, <2>2, <2>3, <2>4, SliceCases
<1>3. CASE ObserveChildren
  BY <1>3 DEF ObserveChildren, ViewInv
<1>4. CASE \E v \in Revisions : ChildReports(v)
  <2>1. PICK v \in Revisions : ChildReports(v)
    BY <1>4
  <2>2. \A w \in Revisions : lws'[w].exists = lws[w].exists /\ lws'[w].replicas = lws[w].replicas
    BY <2>1 DEF ChildReports, TypeOK, Child
  <2> QED
    BY <2>1, <2>2 DEF ChildReports, ViewInv
<1>5. CASE Stop
  BY <1>5 DEF Stop, ViewInv
<1> QED
  BY <1>1, <1>2, <1>3, <1>4, <1>5
     DEF Next, Reconcile, Cluster, resolveRevision, DeleteScaler, UseScaler, create, updateStatus, ObserveSet,
         ObserveScaler, Collected, ScalerChanges, Edit, vars

\* What a step may do to the children: a child that appears is the target of a
\* running pass, and the last one never goes.
LEMMA ChildrenSteps ==
  ASSUME TypeOK, ViewInv, [Next]_vars
  PROVE  /\ Children(lws') \subseteq Children(lws) \cup Children(lwsView) \cup (IF pass.at = "idle" THEN {} ELSE {Target})
         /\ Children(lws) # {} => Children(lws') # {}
         /\ lwsView' = lwsView \/ lwsView' = lws
<1>1. CASE UNCHANGED <<lws, lwsView>>
  BY <1>1
<1>2. CASE reconcileSlice
  <2>1. Target \in Revisions /\ lws \in [Revisions -> Child] /\ lwsView' = lwsView /\ pass.at # "idle"
    BY <1>2, TargetType DEF reconcileSlice, TypeOK
  <2>2. CASE UNCHANGED <<lws, pending>>
    BY <2>1, <2>2
  <2>3. CASE \E c \in Child : c.exists /\ lws' = [lws EXCEPT ![Target] = c]
    BY <2>1, <2>3 DEF Children
  <2>4. CASE /\ ~pending /\ lwsView[Target].exists
             /\ \E o \in Children(lwsView) \ {Target}, c \in Child : lws' = [lws EXCEPT ![o] = c]
    <3>1. lws[Target].exists
      BY <2>1, <2>4 DEF ViewInv
    <3> QED
      BY <2>1, <2>4, <3>1 DEF Children
  <2> QED
    BY <1>2, <2>2, <2>3, <2>4, SliceCases
<1>3. CASE ObserveChildren \/ Stop
  BY <1>3 DEF ObserveChildren, Stop
<1>4. CASE \E v \in Revisions : ChildReports(v)
  <2>1. PICK v \in Revisions : ChildReports(v)
    BY <1>4
  <2>2. \A w \in Revisions : lws'[w].exists = lws[w].exists
    BY <2>1 DEF ChildReports, TypeOK, Child
  <2> QED
    BY <2>1, <2>2 DEF ChildReports, Children
<1> QED
  BY <1>1, <1>2, <1>3, <1>4
     DEF Next, Reconcile, Cluster, resolveRevision, DeleteScaler, UseScaler, create, updateStatus, ObserveSet,
         ObserveScaler, Collected, ScalerChanges, Edit, vars

\* What a step may do to the marker, its cache and the hash of the pass.
LEMMA MarkerSteps ==
  ASSUME TypeOK, [Next]_vars
  PROVE  /\ ds'.marked = ds.marked \/ (ds'.marked /\ ~dsView.marked /\ Children(lwsView) = {})
         /\ dsView' = dsView \/ dsView' = ds
         /\ \/ pass'.at = "idle"
            \/ pass.at # "idle" /\ pass'.hash = pass.hash
            \/ /\ pass.at = "idle"
               /\ dsView.marked \/ Children(lwsView) # {}
               /\ pass'.hash = IF dsView.marked THEN "v2" ELSE "v1"
         /\ spent'.legacy = spent.legacy
<1>1. CASE resolveRevision
  BY <1>1 DEF resolveRevision, TypeOK, Set
<1>2. CASE DeleteScaler \/ UseScaler \/ create \/ reconcileSlice
  <2>1. UNCHANGED <<ds, dsView, spent>> /\ pass.at # "idle"
    BY <1>2 DEF DeleteScaler, UseScaler, create, reconcileSlice
  <2>2. pass'.at = "idle" \/ pass'.hash = pass.hash
    <3>1. /\ \A a, t : [pass EXCEPT !.at = a, !.target = t].hash = pass.hash
          /\ \A a : [pass EXCEPT !.at = a].hash = pass.hash
      BY DEF TypeOK
    <3>2. CASE DeleteScaler
      BY <3>1, <3>2, Zenon DEF DeleteScaler
    <3>3. CASE UseScaler
      BY <3>1, <3>3, Zenon DEF UseScaler
    <3>4. CASE create
      <4>1. \/ pass' = Idle
            \/ pass' = [pass EXCEPT !.at = "slice", !.target = seedForRole(lwsView)]
            \/ pass' = [pass EXCEPT !.at = "status"]
        BY <3>4, Zenon DEF create, EndPass, Continue
      <4>2. pass' = Idle => pass'.at = "idle"
        BY DEF Idle
      <4>3. /\ [pass EXCEPT !.at = "slice", !.target = seedForRole(lwsView)].hash = pass.hash
            /\ [pass EXCEPT !.at = "status"].hash = pass.hash
        BY DEF TypeOK
      <4> QED
        BY <4>1, <4>2, <4>3
    <3>5. CASE reconcileSlice
      BY <3>1, <3>5, Zenon DEF reconcileSlice, Continue
    <3> QED
      BY <1>2, <3>2, <3>3, <3>4, <3>5
  <2> QED
    BY <2>1, <2>2
<1>3. CASE updateStatus
  <2>1. ds'.marked = ds.marked
    BY <1>3 DEF updateStatus, TypeOK, Set
  <2> QED
    BY <1>3, <2>1 DEF updateStatus, EndPass, Idle
<1>4. CASE ObserveSet \/ ObserveChildren \/ ObserveScaler \/ Collected \/ \E v \in Revisions : ChildReports(v)
  BY <1>4 DEF ObserveSet, ObserveChildren, ObserveScaler, Collected, ChildReports
<1>5. CASE Stop
  BY <1>5 DEF Stop, Event, EndPass, Idle, TypeOK
<1>6. CASE ScalerChanges
  BY <1>6 DEF ScalerChanges, Event, TypeOK
<1>7. CASE Edit
  <2>1. ds'.marked = ds.marked
    BY <1>7 DEF Edit, TypeOK, Set
  <2>2. spent'.legacy = spent.legacy
    BY <1>7 DEF Edit, Event, TypeOK
  <2> QED
    BY <1>7, <2>1, <2>2 DEF Edit
<1>8. CASE UNCHANGED vars
  BY <1>8 DEF vars
<1> QED
  BY <1>1, <1>2, <1>3, <1>4, <1>5, <1>6, <1>7, <1>8 DEF Next, Reconcile, Cluster

LEMMA GenerationStart == Init => GenerationInv
<1> SUFFICES ASSUME NEW legacy \in BOOLEAN, NEW taken \in BOOLEAN, NEW mode \in {"Static", "External"},
                    Start(legacy, taken, mode, Max(Sizes), First)
             PROVE  GenerationInv
  BY DEF Init
<1>1. /\ ds.marked = FALSE /\ dsView = ds /\ lwsView = lws /\ pass.at = "idle"
      /\ spent.legacy = legacy
  BY DEF Start, Idle
<1>2. Children(lws) = IF legacy THEN {<<"v1", First>>} ELSE {}
  <2>1. <<"v1", First>> \in Revisions
    BY SetAssumption DEF Revisions
  <2> QED
    BY <2>1 DEF Start, Children, NoChild
<1>3. \A v \in Children(lws) : v[1] = Generation
  BY <1>1, <1>2 DEF Generation
<1>4. ViewInv /\ OldInv /\ NewInv
  BY <1>1, <1>2 DEF ViewInv, OldInv, NewInv
<1> QED
  BY <1>1, <1>3, <1>4 DEF GenerationInv

LEMMA GenerationStep == TypeOK /\ TypeOK' /\ GenerationInv /\ [Next]_vars => GenerationInv'
<1> SUFFICES ASSUME TypeOK, TypeOK', GenerationInv, [Next]_vars PROVE GenerationInv'
  OBVIOUS
<1> DEFINE Appearing == IF pass.at = "idle" THEN {} ELSE {Target}
<1>1. /\ Children(lws') \subseteq Children(lws) \cup Children(lwsView) \cup Appearing
      /\ Children(lws) # {} => Children(lws') # {}
      /\ lwsView' = lwsView \/ lwsView' = lws
  BY ChildrenSteps DEF GenerationInv
<1>2. /\ ds'.marked = ds.marked \/ (ds'.marked /\ ~dsView.marked /\ Children(lwsView) = {})
      /\ dsView' = dsView \/ dsView' = ds
      /\ \/ pass'.at = "idle"
         \/ pass.at # "idle" /\ pass'.hash = pass.hash
         \/ /\ pass.at = "idle"
            /\ dsView.marked \/ Children(lwsView) # {}
            /\ pass'.hash = IF dsView.marked THEN "v2" ELSE "v1"
      /\ spent'.legacy = spent.legacy
  BY MarkerSteps
<1>3. Generation' = Generation
  BY <1>2 DEF Generation
<1>4. ViewInv'
  BY ViewStep DEF GenerationInv
<1>5. OldInv'
  BY <1>1, <1>2 DEF GenerationInv, OldInv
<1>6. Appearing # {} => Target[1] = Generation
  BY DEF GenerationInv, Target
<1>7. NewInv'
  <2> SUFFICES ASSUME ~spent.legacy PROVE NewInv'
    BY <1>2 DEF NewInv
  <2>1. /\ dsView.marked => ds.marked
        /\ Children(lws) # {} \/ Children(lwsView) # {} \/ pass.at # "idle" => dsView.marked
    BY DEF GenerationInv, NewInv
  <2>2. dsView.marked => dsView'.marked
    BY <1>2, <2>1
  <2>3. dsView'.marked => ds'.marked
    BY <1>2, <2>1 DEF TypeOK, Set
  <2>4. Children(lws') # {} \/ Children(lwsView') # {} \/ pass'.at # "idle" => dsView.marked
    BY <1>1, <1>2, <2>1
  <2> QED
    BY <2>2, <2>3, <2>4 DEF NewInv
<1>8. pass'.at # "idle" => pass'.hash = Generation
  BY <1>2 DEF GenerationInv, OldInv, NewInv, Generation
<1>9. \A v \in Children(lws') \cup Children(lwsView') : v[1] = Generation
  BY <1>1, <1>6 DEF GenerationInv
<1> QED
  BY <1>3, <1>4, <1>5, <1>7, <1>8, <1>9 DEF GenerationInv

\* TypeOK is an invariant.
THEOREM TypeCorrect == Spec => []TypeOK
BY TypeStart, TypeStep, PTL DEF Spec

\* A set keeps the hash generation it started with, whichever of the caches of
\* the set, of its children and of its marker runs ahead (resolveRevision).
THEOREM SameGenerationHolds == Spec => []SameGeneration
<1>1. GenerationInv => SameGeneration
  BY DEF GenerationInv, SameGeneration
<1> QED
  BY <1>1, GenerationStart, GenerationStep, TypeCorrect, PTL DEF Spec

-----------------------------------------------------------------------------
(* Switching a role to External.                                           *)

\* A step leaves the role with the replicas it ran, or at least with the target
\* of the pass.
LEMMA ReplicasKept ==
  ASSUME TypeOK, TypeOK', FlipInv, [Next]_vars
  PROVE  /\ Running(lws') >= floor
         /\ \A v \in Revisions : ~lws'[v].exists => lws'[v].replicas = 0
<1>1. /\ lws \in [Revisions -> Child] /\ lws' \in [Revisions -> Child] /\ floor \in Nat
      /\ Running(lws) \in Nat /\ Running(lws') \in Nat /\ Running(lws) >= floor
      /\ \A v \in Revisions : lws'[v].replicas \in Nat /\ lws'[v].replicas <= Running(lws')
      /\ \A v \in Revisions : ~lws[v].exists => lws[v].replicas = 0
  BY RunningBounds DEF TypeOK, Child, FlipInv
<1>2. ASSUME \A v \in Revisions : lws'[v].replicas = lws[v].replicas
      PROVE  Running(lws') >= floor
  BY <1>1, <1>2, RunningSame
<1>3. CASE UNCHANGED lws
  BY <1>1, <1>3
<1>4. CASE reconcileSlice
  <2>1. Target \in Revisions /\ pass.target \in Nat /\ pass.target >= floor
    BY <1>4, TargetType DEF reconcileSlice, TypeOK, FlipInv
  <2>2. CASE UNCHANGED <<lws, pending>>
    BY <1>1, <2>2
  <2>3. CASE \E c \in Child : /\ c.exists /\ c.replicas \in {lws[Target].replicas, pass.target}
                              /\ lws' = [lws EXCEPT ![Target] = c]
    <3>1. PICK c \in Child : /\ c.exists /\ c.replicas \in {lws[Target].replicas, pass.target}
                             /\ lws' = [lws EXCEPT ![Target] = c]
      BY <2>3
    <3>2. lws'[Target] = c /\ \A v \in Revisions \ {Target} : lws'[v] = lws[v]
      BY <1>1, <2>1, <3>1
    <3>3. CASE c.replicas = lws[Target].replicas
      BY <1>1, <1>2, <3>1, <3>2, <3>3
    <3>4. CASE c.replicas = pass.target
      <4>1. floor <= lws'[Target].replicas /\ lws'[Target].replicas <= Running(lws')
        BY <1>1, <2>1, <3>2, <3>4
      <4>2. lws'[Target].replicas \in Nat
        BY <1>1, <2>1
      <4>3. floor <= Running(lws')
        BY <1>1, <4>1, <4>2
      <4> QED
        BY <1>1, <3>1, <3>2, <4>3
    <3> QED
      BY <3>1, <3>3, <3>4
  <2>4. CASE /\ ~lws[Target].exists
             /\ \E c \in Child : c.exists /\ c.replicas = 0 /\ lws' = [lws EXCEPT ![Target] = c]
    <3>1. lws[Target].replicas = 0
      BY <1>1, <2>1, <2>4
    <3> QED
      BY <2>3, <2>4, <3>1
  <2>5. CASE /\ ~pending /\ lwsView[Target].exists /\ lwsView[Target].replicas >= pass.target
             /\ \E o \in Children(lwsView) \ {Target}, c \in Child :
                  c.replicas = 0 /\ lws' = [lws EXCEPT ![o] = c]
    <3>1. PICK o \in Children(lwsView) \ {Target}, c \in Child : c.replicas = 0 /\ lws' = [lws EXCEPT ![o] = c]
      BY <2>5
    <3>2. o \in Revisions
      BY DEF Children
    <3>3. lws'[o] = c /\ \A v \in Revisions \ {o} : lws'[v] = lws[v]
      BY <1>1, <3>1, <3>2
    <3>4. lws[Target].replicas = lwsView[Target].replicas
      BY <2>1, <2>5 DEF FlipInv, ViewInv
    <3>5. lws'[Target].replicas >= pass.target
      BY <2>1, <2>5, <3>3, <3>4
    <3>6. Running(lws') >= floor
      <4>1. lws'[Target].replicas \in Nat /\ lws'[Target].replicas <= Running(lws')
        BY <1>1, <2>1
      <4> QED
        BY <1>1, <2>1, <3>5, <4>1
    <3> QED
      BY <1>1, <3>1, <3>3, <3>6
  <2> QED
    BY <1>4, <2>2, <2>3, <2>4, <2>5, SliceCases
<1>5. CASE \E v \in Revisions : ChildReports(v)
  <2>1. \A w \in Revisions : lws'[w].exists = lws[w].exists /\ lws'[w].replicas = lws[w].replicas
    BY <1>1, <1>5 DEF ChildReports, Child
  <2> QED
    BY <1>1, <1>2, <2>1
<1> QED
  BY <1>3, <1>4, <1>5
     DEF Next, Reconcile, Cluster, resolveRevision, DeleteScaler, UseScaler, create, updateStatus, ObserveSet,
         ObserveChildren, ObserveScaler, Collected, Stop, ScalerChanges, Edit, vars

\* Where the numbers that reach the children come from.
LEMMA NumberSteps ==
  ASSUME TypeOK, TypeOK', FlipInv, [Next]_vars, UNCHANGED floor
  PROVE  /\ Owned(scaler') => scaler'.replicas >= floor
         /\ ds'.mode = "Static" => floor = 0
         /\ pass'.at # "idle" /\ pass'.ds.mode = "Static" => pass'.ds.replicas >= floor
         /\ pass'.at = "slice" => pass'.target >= floor
<1> DEFINE FromScaler == Owned(scaler') => scaler'.replicas >= floor
           FromSet    == ds'.mode = "Static" => floor = 0
           FromPass   == /\ pass'.at # "idle" /\ pass'.ds.mode = "Static" => pass'.ds.replicas >= floor
                         /\ pass'.at = "slice" => pass'.target >= floor
<1>1. UNCHANGED scaler => FromScaler
  BY DEF FlipInv, Owned
<1>2. UNCHANGED ds => FromSet
  BY DEF FlipInv
<1>3. UNCHANGED pass => FromPass
  BY DEF FlipInv
<1>4. pass' = Idle => FromPass
  BY DEF Idle
<1>5. scaler' = NoScaler => FromScaler
  BY DEF NoScaler, Owned
<1>6. floor \in Nat
  BY DEF TypeOK
<1> SUFFICES FromScaler /\ FromSet /\ FromPass
  OBVIOUS
<1>7. CASE resolveRevision
  <2>1. FromSet
    BY <1>7 DEF resolveRevision, TypeOK, Set, FlipInv
  <2>2. FromPass
    BY <1>7 DEF resolveRevision, FlipInv
  <2> QED
    BY <1>1, <1>7, <2>1, <2>2 DEF resolveRevision
<1>8. CASE DeleteScaler
  <2>1. pass'.target = pass.ds.replicas /\ pass'.ds = pass.ds
    BY <1>8 DEF DeleteScaler, TypeOK
  <2>2. FromPass
    BY <1>8, <2>1 DEF DeleteScaler, FlipInv
  <2> QED
    BY <1>1, <1>2, <1>5, <1>8, <2>2 DEF DeleteScaler
<1>9. CASE UseScaler
  <2>1. pass'.target = scalerView.replicas /\ pass'.ds = pass.ds
    BY <1>9 DEF UseScaler, TypeOK
  <2>2. FromPass
    BY <1>9, <2>1 DEF UseScaler, FlipInv
  <2> QED
    BY <1>1, <1>2, <1>9, <2>2 DEF UseScaler
<1>10. CASE create
  <2> DEFINE seed == seedForRole(lwsView)
  <2>1. seed \in Nat /\ seed >= floor
    <3>1. Target \in Revisions
      BY <1>10, TargetType DEF create
    <3>2. Running(lwsView) \in Nat /\ Running(lwsView) >= floor
      BY RunningBounds DEF TypeOK, FlipInv
    <3>3. seed \in Nat /\ seed >= Running(lwsView)
      BY <3>1, SeedBound DEF FlipInv
    <3> HIDE DEF seed
    <3> QED
      BY <1>6, <3>2, <3>3
  <2> HIDE DEF seed
  <2>2. CASE /\ scaler' = [NoScaler EXCEPT !.exists = TRUE, !.ours = TRUE, !.replicas = seed]
             /\ pass' = [pass EXCEPT !.at = "slice", !.target = seed]
    <3>1. scaler'.replicas = seed /\ pass'.target = seed /\ pass'.ds = pass.ds
      BY <2>2 DEF NoScaler, TypeOK
    <3>2. FromPass
      BY <1>10, <2>1, <3>1 DEF create, FlipInv
    <3> QED
      BY <1>2, <1>10, <2>1, <3>1, <3>2 DEF create
  <2>3. CASE UNCHANGED scaler /\ (pass' = Idle \/ pass' = [pass EXCEPT !.at = "status"])
    <3>1. CASE pass' = [pass EXCEPT !.at = "status"]
      <4>1. pass'.at = "status" /\ pass'.ds = pass.ds
        BY <3>1 DEF TypeOK
      <4>2. FromPass
        BY <1>10, <4>1 DEF create, FlipInv
      <4> QED
        BY <1>1, <1>2, <1>10, <2>3, <4>2 DEF create
    <3> QED
      BY <1>1, <1>2, <1>4, <1>10, <2>3, <3>1 DEF create
  <2> QED
    BY <1>10, <2>2, <2>3, Zenon DEF create, EndPass, Continue, seed
<1>11. CASE reconcileSlice
  <2>1. pass'.at = "status" /\ pass'.ds = pass.ds
    BY <1>11 DEF reconcileSlice, Continue, TypeOK
  <2>2. FromPass
    BY <1>11, <2>1 DEF reconcileSlice, FlipInv
  <2> QED
    BY <1>1, <1>2, <1>11, <2>2 DEF reconcileSlice
<1>12. CASE updateStatus
  <2>1. ds'.mode = ds.mode
    BY <1>12 DEF updateStatus, TypeOK, Set
  <2>2. scaler'.replicas = scaler.replicas /\ Owned(scaler') = Owned(scaler)
    BY <1>12 DEF updateStatus, TypeOK, Scaler, Owned
  <2> QED
    BY <1>4, <1>12, <2>1, <2>2 DEF updateStatus, EndPass, FlipInv
<1>13. CASE ObserveSet \/ ObserveChildren \/ ObserveScaler \/ \E v \in Revisions : ChildReports(v)
  BY <1>1, <1>2, <1>3, <1>13 DEF ObserveSet, ObserveChildren, ObserveScaler, ChildReports
<1>14. CASE Collected
  BY <1>2, <1>3, <1>5, <1>14 DEF Collected
<1>15. CASE Stop
  BY <1>1, <1>2, <1>4, <1>15 DEF Stop, EndPass
<1>16. CASE ScalerChanges
  <2>1. CASE scaler.ours
    <3>1. floor = 0
      BY <1>16, <2>1 DEF ScalerChanges
    <3>2. scaler'.replicas \in Nat
      BY DEF TypeOK, Scaler
    <3> QED
      BY <1>2, <1>3, <1>16, <3>1, <3>2 DEF ScalerChanges
  <2> QED
    BY <1>2, <1>3, <1>5, <1>16, <2>1 DEF ScalerChanges
<1>17. CASE Edit
  <2>1. CASE /\ ds' = [ds EXCEPT !.mode = IF @ = "Static" THEN "External" ELSE "Static", !.generation = @ + 1]
             /\ floor' = IF Quiet THEN Running(lws) ELSE 0
    <3>1. ds'.mode = "Static" => ds.mode # "Static"
      BY <2>1 DEF TypeOK, Set
    <3> QED
      BY <1>1, <1>3, <1>17, <2>1, <3>1 DEF Edit, Quiet
  <2>2. CASE \/ \E n \in Sizes \ {ds.replicas} : ds' = [ds EXCEPT !.replicas = n, !.generation = @ + 1]
             \/ \E v \in Contents \ {ds.content} : ds' = [ds EXCEPT !.content = v, !.generation = @ + 1]
    <3>1. ds'.mode = ds.mode
      BY <2>2 DEF TypeOK, Set
    <3> QED
      BY <1>1, <1>3, <1>17, <3>1 DEF Edit, FlipInv
  <2> QED
    BY <1>17, <2>1, <2>2, Zenon DEF Edit
<1>18. CASE UNCHANGED vars
  BY <1>1, <1>2, <1>3, <1>18 DEF vars
<1> HIDE DEF FromScaler, FromSet, FromPass
<1> QED
  BY <1>7, <1>8, <1>9, <1>10, <1>11, <1>12, <1>13, <1>14, <1>15, <1>16, <1>17, <1>18 DEF Next, Reconcile, Cluster

LEMMA FlipStart == Init => FlipInv
<1> SUFFICES ASSUME NEW legacy \in BOOLEAN, NEW taken \in BOOLEAN, NEW mode \in {"Static", "External"},
                    Start(legacy, taken, mode, Max(Sizes), First), TypeOK
             PROVE  FlipInv
  BY TypeStart DEF Init
<1>1. /\ dsView = ds /\ lwsView = lws /\ scalerView = scaler /\ pass.at = "idle" /\ floor = 0
  BY DEF Start, Idle
<1>2. \A v \in Revisions : ~lws[v].exists => lws[v].replicas = 0
  BY DEF Start, NoChild
<1>3. Running(lws) \in Nat /\ scaler.replicas \in Nat /\ ds.replicas \in Nat
  BY RunningBounds DEF TypeOK, Scaler, Set
<1> QED
  BY <1>1, <1>2, <1>3 DEF FlipInv, ViewInv

LEMMA FlipStep == TypeOK /\ TypeOK' /\ FlipInv /\ [Next]_vars => FlipInv'
<1> SUFFICES ASSUME TypeOK, TypeOK', FlipInv, [Next]_vars PROVE FlipInv'
  OBVIOUS
<1>1. ViewInv'
  BY ViewStep DEF FlipInv
<1>2. /\ lwsView' = lwsView \/ lwsView' = lws
      /\ dsView' = dsView \/ dsView' = ds
      /\ scalerView' = scalerView \/ scalerView' = scaler
  <2>1. scalerView' = scalerView \/ scalerView' = scaler
    BY DEF Next, Reconcile, Cluster, resolveRevision, DeleteScaler, UseScaler, create, reconcileSlice, updateStatus,
           ObserveSet, ObserveChildren, ObserveScaler, Collected, ChildReports, Stop, ScalerChanges, Edit, vars
  <2> QED
    BY <2>1, ChildrenSteps, MarkerSteps DEF FlipInv
<1>3. /\ Running(lws') >= floor
      /\ \A v \in Revisions : ~lws'[v].exists => lws'[v].replicas = 0
  BY ReplicasKept
<1>4. \A v \in Revisions : ~lwsView'[v].exists => lwsView'[v].replicas = 0
  BY <1>2 DEF FlipInv
<1>5. /\ floor \in Nat /\ ds.replicas \in Nat /\ Running(lws') \in Nat /\ Running(lwsView') \in Nat
      /\ scaler'.replicas \in Nat /\ scalerView'.replicas \in Nat /\ dsView'.replicas \in Nat
  BY RunningBounds DEF TypeOK, Set, Scaler
<1>6. CASE UNCHANGED floor
  <2>1. Running(lwsView') >= floor
    BY <1>2 DEF FlipInv
  <2>2. Owned(scalerView') => scalerView'.replicas >= floor
    BY <1>2 DEF FlipInv
  <2>3. dsView'.mode = "Static" => dsView'.replicas >= floor
    BY <1>2, <1>5 DEF FlipInv
  <2> QED
    BY <1>1, <1>3, <1>4, <1>6, <2>1, <2>2, <2>3, NumberSteps DEF FlipInv, Owned
<1>7. CASE floor' = 0
  <2>1. pass'.at # "idle" => pass'.ds.replicas \in Nat
    BY DEF TypeOK, Set
  <2>2. pass'.at = "slice" => pass'.target \in Nat
    BY DEF TypeOK
  <2> QED
    BY <1>1, <1>3, <1>4, <1>5, <1>7, <2>1, <2>2 DEF FlipInv
<1>8. CASE /\ Edit /\ Quiet /\ floor' = Running(lws)
           /\ ds' = [ds EXCEPT !.mode = IF @ = "Static" THEN "External" ELSE "Static", !.generation = @ + 1]
  <2>1. /\ ~Owned(scaler) /\ pass.at = "idle" /\ dsView = ds /\ scalerView = scaler /\ lwsView = lws
        /\ ds.mode = "Static" /\ Running(lws) = ds.replicas
    BY <1>8 DEF Quiet
  <2>2. UNCHANGED <<dsView, lws, lwsView, scaler, scalerView, pending, pass>>
    BY <1>8 DEF Edit
  <2>3. ds'.mode = "External"
    BY <1>8, <2>1 DEF TypeOK, Set
  <2>4. Running(lws) \in Nat
    BY <1>5, <2>2
  <2> QED
    BY <1>1, <1>3, <1>4, <1>5, <1>8, <2>1, <2>2, <2>3, <2>4 DEF FlipInv, Owned
<1> QED
  BY <1>6, <1>7, <1>8
     DEF Next, Reconcile, Cluster, resolveRevision, DeleteScaler, UseScaler, create, reconcileSlice, updateStatus,
         ObserveSet, ObserveChildren, ObserveScaler, Collected, ChildReports, Stop, ScalerChanges, Edit, vars

\* A role that ran what was asked for when it became External runs at least as
\* much until its scaler is written or the mode is edited again: while the
\* scaler is missing, taken, being created, seeded from any cache, or rolled over.
THEOREM FlipNeverTakes == Spec => []FlipHolds
<1>1. FlipInv => FlipHolds
  BY DEF FlipInv, FlipHolds
<1> QED
  BY <1>1, FlipStart, FlipStep, TypeCorrect, PTL DEF Spec

=============================================================================
