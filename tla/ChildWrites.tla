----------------------------- MODULE ChildWrites -----------------------------
(***************************************************************************)
(* The writes of the DisaggregatedSet controller to the child              *)
(* LeaderWorkerSets of one slice (lws_manager.go): conditional requests,   *)
(* the receipts by which the informer acknowledges them, the barrier that  *)
(* holds the next plan back, retries of requests whose answer was lost,    *)
(* and the takeover of a slice by a new process.                           *)
(*                                                                         *)
(* `log[k]` are the versions of child k from the one in the informer cache *)
(* (the first) to the one the API server holds (the last).  What a plan    *)
(* wants is a parameter, `Plans`; DisaggregatedRollout models it.          *)
(***************************************************************************)
EXTENDS Naturals, Sequences

CONSTANTS Keys, Counts, Goals, None, Plans(_, _),
          Start,       \* the counts of the children at first
          MaxFaults,   \* answers that are lost
          MaxRestarts, \* restarts of the controller
          MaxEvents    \* edits of the user, metadata and status updates, deletions by others

ASSUME CountsAssumption == /\ Counts \in SUBSET Nat /\ 0 \in Counts /\ None \notin Counts
                           /\ Start \in [Keys -> Counts \cup {None}]

\* Children are created empty.
ASSUME PlansAssumption ==
  \A view \in [Keys -> Counts \cup {None}], g \in Goals : \A step \in Plans(view, g) : \A w \in step :
    w \in [key : Keys, to : Counts \cup {None}] /\ (view[w.key] = None => w.to = 0)

VARIABLES log,         \* [Keys -> versions not yet superseded in the cache]
          requests,    \* requests whose answer was lost, still on their way
          writes,      \* pendingWrites.writes: what the controller waits to observe
          initialized, \* pendingWrites.initialized
          todo,        \* the writes the running reconcile has yet to send
          epoch,       \* the number of the process
          goal,        \* what the user asks for
          removed,     \* the slice has been taken out of the DisaggregatedSet
          spent        \* faults and events so far; disturbed: children went that no plan took

vars == <<log, requests, writes, initialized, todo, epoch, goal, removed, spent>>

-----------------------------------------------------------------------------
(* Children and requests.                                                  *)

cached(k) == Head(log[k])
actual(k) == log[k][Len(log[k])]

\* The receipt of a child is the write that it was last written by.
NoWrite == [key |-> None, op |-> "none", from |-> 0, to |-> 0, uid |-> 0, version |-> 0, epoch |-> 0]

Absent(version) == [uid |-> 0, version |-> version, replicas |-> 0, receipt |-> NoWrite,
                    unscaled |-> FALSE, deleting |-> FALSE, lost |-> FALSE]

exists(c) == c.uid # 0
live(c) == exists(c) /\ ~c.deleting

\* GetRevisionRolesList leaves out children that are being deleted.
count(c) == IF live(c) THEN c.replicas ELSE None

Allowed(w) == IF w.op = "create" THEN ~exists(actual(w.key))
              ELSE actual(w.key).uid = w.uid /\ actual(w.key).version = w.version

\* `unscaled` marks a child that has never had replicas; `lost` the version by
\* which another client deleted it.
Written(w) ==
  LET c == actual(w.key) IN
  CASE w.op = "create" -> [Absent(c.version + 1) EXCEPT !.uid = c.version + 1, !.receipt = w,
                                                        !.unscaled = TRUE]
    [] w.op = "delete" -> [c EXCEPT !.version = @ + 1, !.deleting = TRUE]
    [] OTHER -> [c EXCEPT !.version = @ + 1, !.replicas = w.to, !.receipt = w,
                          !.unscaled = @ /\ w.to = 0]

Appended(k, c) == [log EXCEPT ![k] = Append(@, c)]

\* The preconditions are the version the informer supplied.
Request(k, op, to) == [key |-> k, op |-> op, from |-> cached(k).replicas, to |-> to,
                       uid |-> cached(k).uid, version |-> cached(k).version, epoch |-> epoch]

CreateRequest(k) == [NoWrite EXCEPT !.key = k, !.op = "create", !.epoch = epoch]

Rest(w) == {t \in todo : t.key # w.key}

-----------------------------------------------------------------------------
(* The barrier.                                                            *)

Entry(w, retry) == [write |-> w, retry |-> retry]

receiptObserved(e) == /\ e.write.op # "delete"
                      /\ live(cached(e.write.key))
                      /\ cached(e.write.key).uid = e.write.uid
                      /\ cached(e.write.key).receipt = e.write

seen(e) == \/ cached(e.write.key).uid # e.write.uid
           \/ cached(e.write.key).deleting
           \/ receiptObserved(e)

\* mutant: a request that can no longer succeed is waited for.
obsoleteNever(e) == FALSE

\* The version the request needs is gone: it can no longer succeed.
obsolete(e) == /\ e.retry
               /\ cached(e.write.key).uid = e.write.uid
               /\ cached(e.write.key).version # e.write.version

Child(k, uid) == [key |-> k, uid |-> uid]

\* checkWrite on a write whose outcome is known: by observed before a plan, by
\* mutate before the next write to the same child.
checkWriteResolves(e) ==
  LET child == Child(e.write.key, e.write.uid) IN
  /\ todo = {}
  /\ seen(e) \/ obsolete(e)
  /\ writes' = writes \ {e}
  /\ initialized' = CASE receiptObserved(e) -> initialized \cup {child}
                      [] ~receiptObserved(e) /\ seen(e) -> initialized \ {child}
                      [] OTHER -> initialized
  /\ UNCHANGED <<log, requests, todo, epoch, goal, removed, spent>>

\* checkWrite on any other write: a request without an answer is sent again,
\* and the reconcile ends.  A conflict changes nothing.
checkWriteRetries(e) ==
  /\ todo = {}
  /\ ~seen(e) /\ ~obsolete(e) /\ e.retry
  /\ \/ /\ Allowed(e.write)
        /\ log' = Appended(e.write.key, Written(e.write))
        /\ writes' = (writes \ {e}) \cup {Entry(e.write, FALSE)}
        /\ UNCHANGED <<requests, spent>>
     \/ /\ spent.faults < MaxFaults
        /\ spent' = [spent EXCEPT !.faults = @ + 1]
        /\ requests' = requests \cup {e.write}
        /\ UNCHANGED <<log, writes>>
  /\ UNCHANGED <<initialized, todo, epoch, goal, removed>>

\* mutant: the next plan does not wait for the writes of the last one.
observedNothing == TRUE

observed == writes = {}

-----------------------------------------------------------------------------
(* A reconcile of the slice.                                               *)

\* mutant: children left by the last process are used as they are found.
UntakenNone == {}

Untaken == {k \in Keys : live(cached(k)) /\ Child(k, cached(k).uid) \notin initialized}

\* Metadata-only writes that make requests of the last process fail.
prepareSlice ==
  /\ todo = {} /\ observed /\ ~removed
  /\ Untaken # {}
  /\ todo' = {Request(k, "touch", cached(k).replicas) : k \in Untaken}
  /\ UNCHANGED <<log, requests, writes, initialized, epoch, goal, removed, spent>>

Planned(w) == IF w.to = None THEN Request(w.key, "delete", 0)
              ELSE IF count(cached(w.key)) = None THEN CreateRequest(w.key)
              ELSE Request(w.key, "scale", w.to)

\* reconcileSlice after the barrier: the step is planned from the cache.
Plan ==
  /\ todo = {} /\ observed /\ ~removed
  /\ Untaken = {}
  /\ \E step \in Plans([k \in Keys |-> count(cached(k))], goal) :
        todo' = {Planned(w) : w \in step}
  /\ UNCHANGED <<log, requests, writes, initialized, epoch, goal, removed, spent>>

Eventful == spent.events < MaxEvents
Happens == spent' = [spent EXCEPT !.events = @ + 1]

\* A write that leaves the replicas alone: groupReplacementPolicy, initial replicas.
SyncMetadata(k) ==
  /\ todo = {} /\ observed /\ ~removed
  /\ Untaken = {}
  /\ live(cached(k))
  /\ Eventful /\ Happens
  /\ todo' = {Request(k, "touch", cached(k).replicas)}
  /\ UNCHANGED <<log, requests, writes, initialized, epoch, goal, removed>>

\* No barrier, except that a child has one outstanding write at a time.
cleanupRemovedSlices ==
  LET doomed == {k \in Keys : live(cached(k)) /\ \A e \in writes : e.write.key # k} IN
  /\ todo = {} /\ removed
  /\ doomed # {}
  /\ todo' = {Request(k, "delete", 0) : k \in doomed}
  /\ UNCHANGED <<log, requests, writes, initialized, epoch, goal, removed, spent>>

-----------------------------------------------------------------------------
(* Sending one write.                                                      *)

\* pendingWrites.mutate: recorded before the request, kept unless it was
\* certainly refused.  An error ends the reconcile; deleting what is gone is none.
mutate(w) ==
  \/ /\ Allowed(w)
     /\ log' = Appended(w.key, Written(w))
     /\ writes' = writes \cup {Entry(w, FALSE)}
     /\ todo' = Rest(w)
     /\ UNCHANGED <<requests, spent>>
  \/ /\ ~Allowed(w)
     /\ todo' = IF w.op = "delete" /\ ~exists(actual(w.key)) THEN Rest(w) ELSE {}
     /\ UNCHANGED <<log, requests, writes, spent>>
  \/ /\ spent.faults < MaxFaults
     /\ spent' = [spent EXCEPT !.faults = @ + 1]
     /\ requests' = requests \cup {w}
     /\ writes' = writes \cup {Entry(w, TRUE)}
     /\ todo' = {}
     /\ UNCHANGED log

\* Scale reads the cache again: the child must be the one the plan was made for.
Unchanged(w) == /\ live(cached(w.key))
                /\ cached(w.key).uid = w.uid
                /\ cached(w.key).replicas = w.from

Send(w) ==
  /\ w.op # "create"
  /\ \/ /\ w.op = "scale" /\ Unchanged(w)
        /\ mutate([w EXCEPT !.version = cached(w.key).version])
     \/ /\ w.op = "scale" /\ ~Unchanged(w)
        /\ todo' = {}
        /\ UNCHANGED <<log, requests, writes, spent>>
     \/ /\ w.op # "scale"
        /\ mutate(w)
  /\ UNCHANGED <<initialized, epoch, goal, removed>>

\* A child is created empty and not waited for; the new UID needs no takeover.
Create(w) ==
  /\ w.op = "create"
  /\ \/ /\ Allowed(w)
        /\ log' = Appended(w.key, Written(w))
        /\ initialized' = initialized \cup {Child(w.key, actual(w.key).version + 1)}
        /\ todo' = Rest(w)
        /\ UNCHANGED <<requests, spent>>
     \/ /\ ~Allowed(w)
        /\ todo' = IF exists(cached(w.key)) THEN Rest(w) ELSE {}
        /\ UNCHANGED <<log, requests, initialized, spent>>
     \/ /\ spent.faults < MaxFaults
        /\ spent' = [spent EXCEPT !.faults = @ + 1]
        /\ requests' = requests \cup {w}
        /\ todo' = {}
        /\ UNCHANGED <<log, initialized>>
  /\ UNCHANGED <<writes, epoch, goal, removed>>

-----------------------------------------------------------------------------
(* The API server, the informer, other clients, restarts and the user.     *)

Commit(w) == /\ Allowed(w)
             /\ log' = Appended(w.key, Written(w))
             /\ requests' = requests \ {w}
             /\ UNCHANGED <<writes, initialized, todo, epoch, goal, removed, spent>>

\* A request is lost, or refused with nobody left to hear of it.
Drop(w) == /\ requests' = requests \ {w}
           /\ UNCHANGED <<log, writes, initialized, todo, epoch, goal, removed, spent>>

Observe(k) == /\ Len(log[k]) > 1
              /\ log' = [log EXCEPT ![k] = Tail(@)]
              /\ UNCHANGED <<requests, writes, initialized, todo, epoch, goal, removed, spent>>

\* A new version of a child that is not this controller's doing.
Other(k, c) == /\ log' = Appended(k, c)
               /\ UNCHANGED <<requests, writes, initialized, todo, epoch, goal, removed>>

StatusUpdate(k) == /\ exists(actual(k))
                   /\ Eventful /\ Happens
                   /\ Other(k, [actual(k) EXCEPT !.version = @ + 1, !.lost = FALSE])

OtherDelete(k) == /\ live(actual(k))
                  /\ Eventful
                  /\ spent' = [spent EXCEPT !.events = @ + 1, !.disturbed = TRUE]
                  /\ Other(k, [actual(k) EXCEPT !.version = @ + 1, !.deleting = TRUE, !.lost = TRUE])

Collected(k) == /\ actual(k).deleting
                /\ Other(k, Absent(actual(k).version + 1))
                /\ UNCHANGED spent

\* The cold cache of a new process holds what was committed; what is still on
\* its way may commit later.
Restart == /\ epoch <= MaxRestarts
           /\ epoch' = epoch + 1
           /\ log' = [k \in Keys |-> <<actual(k)>>]
           /\ writes' = {}
           /\ initialized' = {}
           /\ todo' = {}
           /\ UNCHANGED <<requests, goal, removed, spent>>

Edit == /\ Eventful
        /\ \/ goal' \in Goals \ {goal} /\ Happens /\ UNCHANGED removed
           \/ /\ removed' = ~removed
              /\ spent' = [spent EXCEPT !.events = @ + 1, !.disturbed = TRUE]
              /\ UNCHANGED goal
        /\ UNCHANGED <<log, requests, writes, initialized, todo, epoch>>

-----------------------------------------------------------------------------
FirstVersion(n) == IF n = None THEN Absent(0)
                   ELSE [Absent(1) EXCEPT !.uid = 1, !.replicas = n]

Init == /\ log = [k \in Keys |-> <<FirstVersion(Start[k])>>]
        /\ requests = {}
        /\ writes = {}
        /\ initialized = {}
        /\ todo = {}
        /\ epoch = 1
        /\ goal \in Goals
        /\ removed = FALSE
        /\ spent = [faults |-> 0, events |-> 0, disturbed |-> FALSE]

checkWrite == \E e \in writes : checkWriteResolves(e) \/ checkWriteRetries(e)

Reconcile == \/ checkWrite \/ prepareSlice \/ Plan \/ cleanupRemovedSlices
             \/ \E k \in Keys : SyncMetadata(k)
             \/ \E w \in todo : Send(w) \/ Create(w)

Cluster == \/ \E w \in requests : Commit(w) \/ Drop(w)
           \/ \E k \in Keys : Observe(k) \/ StatusUpdate(k) \/ OtherDelete(k) \/ Collected(k)

Next == Reconcile \/ Cluster \/ Restart \/ Edit

Spec == Init /\ [][Next]_vars

\* A reconcile that is due is run (pending ones are requeued every second), the
\* informer catches up, a deleted child is collected.
FairSpec == /\ Spec
            /\ WF_vars(Reconcile)
            /\ \A k \in Keys : WF_vars(Observe(k)) /\ WF_vars(Collected(k))

-----------------------------------------------------------------------------
Receipt == [key : Keys \cup {None}, op : {"none", "create", "scale", "touch"},
            from : Counts, to : Counts, uid : Nat, version : Nat, epoch : Nat]

Version == [uid : Nat, version : Nat, replicas : Counts, receipt : Receipt, unscaled : BOOLEAN,
            deleting : BOOLEAN, lost : BOOLEAN]

Write == [key : Keys, op : {"create", "delete", "scale", "touch"},
          from : Counts, to : Counts, uid : Nat, version : Nat, epoch : Nat]

TypeOK ==
  /\ log \in [Keys -> Seq(Version) \ {<<>>}]
  /\ requests \in SUBSET Write /\ todo \in SUBSET Write
  /\ writes \in SUBSET [write : {w \in Write : w.op # "create"}, retry : BOOLEAN]
  /\ initialized \in SUBSET [key : Keys, uid : Nat]
  /\ epoch \in Nat /\ goal \in Goals /\ removed \in BOOLEAN

-----------------------------------------------------------------------------
(* The writes that may still take effect are those of the running          *)
(* reconcile, and requests without an answer while their version lasts.    *)

Unanswered == requests \cup {e.write : e \in {f \in writes : f.retry}}

DueWrites == {[key |-> w.key, to |-> None] : w \in {v \in Unanswered \cup todo : v.op = "delete" /\ Allowed(v)}}
             \cup {[key |-> w.key, to |-> w.to] : w \in {v \in Unanswered : v.op = "scale" /\ Allowed(v)}}
             \cup {[key |-> w.key, to |-> w.to] : w \in {v \in todo : v.op \in {"create", "scale"}}}

Atomic == INSTANCE AtomicWrites
            WITH spec <- [k \in Keys |-> count(actual(k))],
                 due <- DueWrites,
                 unnoticed <- {k \in Keys : \E i \in 2 .. Len(log[k]) : log[k][i].lost}

\* The barrier of pendingWrites does what its comments promise: whatever the
\* cache has not seen, however late a request arrives and whoever sent it, each
\* plan is made from the children as they are, its writes take effect at most
\* once, and no write of an earlier plan takes effect after it.
AtomicSteps == Atomic!Spec
=============================================================================
