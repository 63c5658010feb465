-------------------------- MODULE AtomicWritesProofs --------------------------
(***************************************************************************)
(* The writes of ChildWrites implement AtomicWrites, for all sets of       *)
(* children and counts, all plans, and any number of lost answers,         *)
(* restarts and events.                                                    *)
(***************************************************************************)
EXTENDS ChildWritesProofs

-----------------------------------------------------------------------------
(* What the cache has not seen.                                            *)

\* What the cache has not seen: a deletion by another client or an empty child,
\* a write that is waited for, or the write of an earlier process to a child
\* that was not taken over.
Harmless(p, c) == count(c) = count(p) \/ c.lost \/ (count(p) = None /\ count(c) = 0)
Awaited(k, p) == \E w \in Entries : w.key = k /\ w.version = p.version
Foreign(k, p) == live(p) /\ Child(k, p.uid) \notin initialized /\ p.receipt.epoch < epoch

UnseenInv == \A k \in Keys : \A i \in 2 .. Len(log[k]) :
  \/ Harmless(log[k][i - 1], log[k][i])
  \/ Awaited(k, log[k][i - 1])
  \/ i = 2 /\ Foreign(k, log[k][1])

\* A write is waited for until the cache shows a newer version.
LEMMA EntriesKept ==
  ASSUME TypeOK, LogInv, RequestInv, [Next]_vars
  PROVE  Restart \/ \A w \in Entries : w \in Entries' \/ w.version < cached(w.key).version
<1>1. ASSUME writes \in SUBSET writes'
      PROVE  \A w \in Entries : w \in Entries'
  BY <1>1 DEF Entries
<1>2. CASE checkWrite
  <2>1. PICK e \in writes : checkWriteResolves(e) \/ checkWriteRetries(e)
    BY <1>2 DEF checkWrite
  <2>2. CASE checkWriteResolves(e)
    <3>1. writes' = writes \ {e} /\ e.write.version < cached(e.write.key).version
      BY <2>2, Resolved DEF checkWriteResolves
    <3> QED
      BY <3>1 DEF Entries
  <2>3. CASE checkWriteRetries(e)
    <3>1. writes' = writes \/ writes' = (writes \ {e}) \cup {Entry(e.write, FALSE)}
      BY <2>3, Zenon DEF checkWriteRetries
    <3>2. Entry(e.write, FALSE).write = e.write
      BY DEF Entry
    <3> QED
      BY <3>1, <3>2, Zenon DEF Entries
  <2> QED
    BY <2>1, <2>2, <2>3
<1>3. CASE \E w \in todo : Send(w)
  <2>1. PICK w \in todo : Send(w)
    BY <1>3
  <2>2. writes \in SUBSET writes'
    BY <2>1, SendCases, Zenon
  <2> QED
    BY <1>1, <2>2
<1>4. CASE \/ prepareSlice \/ Plan \/ cleanupRemovedSlices \/ (\E k \in Keys : SyncMetadata(k)) \/ Edit
           \/ (\E w \in todo : Create(w)) \/ Cluster \/ UNCHANGED vars
  <2>1. writes' = writes
    BY <1>4, Zenon DEF prepareSlice, Plan, cleanupRemovedSlices, SyncMetadata, Edit, Create, Cluster, Commit, Drop,
                Observe, StatusUpdate, OtherDelete, Collected, Other, vars
  <2> QED
    BY <1>1, <2>1
<1> QED
  BY <1>2, <1>3, <1>4 DEF Next, Reconcile

\* What is known of a new version.
LEMMA NewVersions ==
  ASSUME TypeOK, LogInv, RequestInv, OwnInv, TakenOverInv, [Next]_vars
  PROVE  \/ UNCHANGED <<log, epoch>>
         \/ \E k \in Keys, c \in Version :
              /\ Extended(k, c)
              /\ \/ Harmless(actual(k), c)
                 \/ \E w \in Entries' : w.key = k /\ w.version = actual(k).version
                 \/ Len(log[k]) = 1 /\ cached(k) = actual(k) /\ Foreign(k, actual(k))
         \/ \E k \in Keys : Observe(k)
         \/ Restart
<1> DEFINE Known(k, c) == \/ Harmless(actual(k), c)
                          \/ \E w \in Entries' : w.key = k /\ w.version = actual(k).version
                          \/ Len(log[k]) = 1 /\ cached(k) = actual(k) /\ Foreign(k, actual(k))
           Goal == \/ UNCHANGED <<log, epoch>>
                   \/ \E k \in Keys, c \in Version : Extended(k, c) /\ Known(k, c)
                   \/ \E k \in Keys : Observe(k)
                   \/ Restart
<1>0. /\ epoch \in Nat
      /\ \A w \in requests \cup todo \cup Entries : w \in Write /\ Good(w) /\ w.epoch <= epoch
  BY DEF RequestInv, TypeOK, Entries
<1>a. SUFFICES Goal
  OBVIOUS
<1>b. ASSUME NEW w \in Write, Good(w), w.epoch <= epoch, Applied(w), epoch' = epoch, Known(w.key, Written(w))
      PROVE  Goal
  <2>1. w.key \in Keys /\ Written(w) \in Version /\ Extended(w.key, Written(w))
    BY <1>b, AppliedExtends DEF Write, Extended
  <2> HIDE DEF Known
  <2> QED
    BY <1>b, <2>1
<1>c. ASSUME NEW w \in Write, w.op # "create", Applied(w), w \in Entries'
      PROVE  Known(w.key, Written(w))
  BY <1>c DEF Applied, Allowed
<1>d. ASSUME NEW w \in Write, w.op = "create", Good(w), Applied(w), w.epoch <= epoch
      PROVE  Known(w.key, Written(w))
  <2>1. count(actual(w.key)) = None /\ count(Written(w)) = 0
    BY <1>d, WrittenSound DEF Applied
  <2> QED
    BY <2>1 DEF Harmless
<1>1. CASE UNCHANGED vars
  BY <1>1 DEF vars
<1>3. CASE checkWrite
  <2>1. PICK e \in writes : checkWriteResolves(e) \/ checkWriteRetries(e)
    BY <1>3 DEF checkWrite
  <2>2. e.write \in Entries /\ e.write.op # "create"
    BY DEF Entries, TypeOK
  <2>3. CASE checkWriteResolves(e)
    BY <2>3 DEF checkWriteResolves
  <2>4. CASE checkWriteRetries(e)
    <3>1. epoch' = epoch /\ (log' = log \/ (Applied(e.write) /\ Entry(e.write, FALSE) \in writes'))
      BY <2>4, Zenon DEF checkWriteRetries, Applied
    <3>2. Entry(e.write, FALSE) \in writes' => e.write \in Entries'
      BY DEF Entry, Entries
    <3>3. CASE log' = log
      BY <3>1, <3>3, Zenon
    <3>4. CASE Applied(e.write) /\ e.write \in Entries'
      <4>1. Known(e.write.key, Written(e.write))
        BY <1>0, <1>c, <2>2, <3>4
      <4> HIDE DEF Known, Goal
      <4> QED
        BY <1>0, <1>b, <2>2, <3>1, <3>4, <4>1
    <3> QED
      BY <3>1, <3>2, <3>3, <3>4, Zenon
  <2> QED
    BY <2>1, <2>3, <2>4, Zenon
<1>4. CASE prepareSlice \/ Plan \/ cleanupRemovedSlices \/ (\E k \in Keys : SyncMetadata(k)) \/ Edit
  <2>1. UNCHANGED <<log, epoch>>
    BY <1>4 DEF prepareSlice, Plan, cleanupRemovedSlices, SyncMetadata, Edit
  <2> QED
    BY <2>1
<1>5. CASE \E w \in todo : Send(w)
  <2>1. PICK w \in todo : Send(w)
    BY <1>5
  <2>2. epoch' = epoch
    BY <2>1 DEF Send
  <2>3. PICK v \in Write : /\ v.epoch = epoch /\ Good(v) /\ v.op # "create"
                           /\ (Applied(v) /\ writes' = writes \cup {Entry(v, FALSE)}) \/ log' = log
    BY <2>1, SendCases, Zenon
  <2>4. CASE log' = log
    BY <2>2, <2>4
  <2>5. CASE Applied(v) /\ writes' = writes \cup {Entry(v, FALSE)}
    <3>1. v \in Entries'
      <4>1. Entry(v, FALSE) \in writes' /\ Entry(v, FALSE).write = v
        BY <2>5 DEF Entry
      <4> QED
        BY <4>1, Zenon DEF Entries
    <3>2. Known(v.key, Written(v))
      BY <1>c, <2>3, <2>5, <3>1
    <3> HIDE DEF Known, Goal
    <3> QED
      BY <1>0, <1>b, <2>2, <2>3, <2>5, <3>2
  <2> QED
    BY <2>3, <2>4, <2>5, Zenon
<1>6. CASE \E w \in todo : Create(w)
  <2>1. PICK w \in todo : Create(w)
    BY <1>6
  <2>2. epoch' = epoch /\ w.op = "create" /\ (Applied(w) \/ log' = log)
    BY <2>1, Zenon DEF Create, Applied
  <2>3. CASE log' = log
    BY <2>2, <2>3
  <2>4. CASE Applied(w)
    <3>1. Known(w.key, Written(w))
      BY <1>0, <1>d, <2>2, <2>4
    <3> HIDE DEF Known, Goal
    <3> QED
      BY <1>0, <1>b, <2>2, <2>4, <3>1
  <2> QED
    BY <2>2, <2>3, <2>4, Zenon
<1>7. CASE \E w \in requests : Commit(w) \/ Drop(w)
  <2>1. PICK w \in requests : Commit(w) \/ Drop(w)
    BY <1>7
  <2>2. epoch' = epoch /\ writes' = writes /\ (Applied(w) \/ log' = log) /\ w \in Write /\ Good(w) /\ w.epoch <= epoch
    BY <1>0, <2>1 DEF Commit, Drop, Applied
  <2>3. CASE log' = log
    BY <2>2, <2>3
  <2>4. CASE Applied(w)
    <3>1. Known(w.key, Written(w))
      <4>1. CASE w.op = "create"
        BY <1>d, <2>2, <2>4, <4>1, Zenon
      <4>2. CASE w.op # "create"
        <5>1. Allowed(w) /\ ~Spent(w)
          <6>1. Allowed(w) /\ w.version = actual(w.key).version /\ w.version \in Nat
            BY <2>2, <2>4, <4>2 DEF Applied, Allowed, Write
          <6> QED
            BY <6>1 DEF Spent
        <5>2. CASE w.epoch = epoch
          <6>1. Entry(w, TRUE) \in writes
            BY <4>2, <5>1, <5>2, Zenon DEF OwnInv, Conditional
          <6>2. w \in Entries'
            BY <2>2, <6>1 DEF Entries, Entry
          <6> QED
            BY <1>c, <2>2, <2>4, <4>2, <6>2
        <5>3. CASE w.epoch # epoch
          <6> DEFINE k == w.key
          <6>1. w.epoch < epoch /\ k \in Keys
            BY <1>0, <2>2, <5>3 DEF Write
          <6>2. /\ Len(log[k]) = 1 /\ cached(k) = actual(k) /\ live(actual(k))
                /\ actual(k).uid = w.uid /\ actual(k).version = w.version
            BY <2>2, <4>2, <5>1, AllowedNow
          <6>3. Child(k, w.uid) \notin initialized /\ Overtaken(w)
            BY <4>2, <5>1, <6>1 DEF TakenOverInv, Conditional
          <6>4. /\ 1 \in 1 .. Len(log[k]) /\ log[k][1] = actual(k) /\ actual(k) \in Version
            BY <6>1, <6>2, LogType
          <6>5. actual(k).receipt.epoch <= epoch
            BY <6>1, <6>4 DEF LogInv
          <6>6. actual(k).receipt.epoch \in Nat /\ w.version \in Nat
            BY <2>2, <6>4 DEF Version, Receipt, Write
          <6>7. actual(k).receipt.epoch # epoch
            BY <6>2, <6>3, <6>4, <6>6 DEF Overtaken
          <6>8. actual(k).receipt.epoch < epoch
            BY <1>0, <6>5, <6>6, <6>7
          <6> QED
            BY <6>2, <6>3, <6>8 DEF Foreign
        <5> QED
          BY <5>2, <5>3
      <4> QED
        BY <4>1, <4>2
    <3> HIDE DEF Known, Goal
    <3> QED
      BY <1>b, <2>2, <2>4, <3>1
  <2> QED
    BY <2>2, <2>3, <2>4, Zenon
<1>8. CASE \E k \in Keys : StatusUpdate(k) \/ OtherDelete(k) \/ Collected(k)
  <2>1. PICK k \in Keys : StatusUpdate(k) \/ OtherDelete(k) \/ Collected(k)
    BY <1>8
  <2>2. \E c \in Version : Extended(k, c) /\ (c.lost \/ count(c) = count(actual(k)))
    BY <2>1, OthersExtend
  <2> QED
    BY <2>2 DEF Harmless
<1>9. CASE (\E k \in Keys : Observe(k)) \/ Restart
  BY <1>9
<1> QED
  BY <1>1, <1>3, <1>4, <1>5, <1>6, <1>7, <1>8, <1>9, Zenon DEF Next, Reconcile, Cluster

\* A child that was not taken over stays so until the cache shows a newer version.
LEMMA ForeignKept ==
  ASSUME TypeOK, LogInv, RequestInv, [Next]_vars, epoch' = epoch, NEW k \in Keys, Foreign(k, cached(k))
  PROVE  live(cached(k)) /\ Child(k, cached(k).uid) \notin initialized' /\ cached(k).receipt.epoch < epoch'
<1> DEFINE p == cached(k)
<1>1. /\ live(p) /\ Child(k, p.uid) \notin initialized /\ p.receipt.epoch < epoch
      /\ epoch \in Nat
  BY DEF Foreign, TypeOK
<1>2. 1 \in 1 .. Len(log[k]) /\ p = log[k][1] /\ p \in Version
  BY LogType
<1>3. p.uid <= p.version /\ p.version <= actual(k).version /\ p.version \in Nat /\ p.uid \in Nat
      /\ actual(k).version \in Nat /\ p.receipt.epoch \in Nat
  BY <1>2, LogOrder, Zenon DEF LogInv, Sound, Version, Receipt
<1>4. ASSUME NEW e \in writes, receiptObserved(e)
      PROVE  Child(k, p.uid) # Child(e.write.key, e.write.uid)
  <2>1. e.write.epoch = epoch
    BY DEF RequestInv, Entries
  <2>2. e.write.key = k => p.receipt.epoch = epoch
    BY <1>4, <2>1 DEF receiptObserved
  <2>3. e.write.key # k
    BY <1>1, <1>3, <2>2
  <2> QED
    BY <2>3, Zenon DEF Child
<1>5. ASSUME NEW j \in Keys, NEW c \in Version, c.uid = actual(j).version + 1
      PROVE  Child(k, p.uid) # Child(j, c.uid)
  <2>1. j = k => p.uid # c.uid
    BY <1>3, <1>5
  <2> QED
    BY <2>1 DEF Child
<1> QED
  BY <1>1, <1>4, <1>5, InitializedSteps

LEMMA UnseenStart ==
  ASSUME Init
  PROVE  UnseenInv
<1>1. \A k \in Keys : Len(log[k]) = 1
  BY Zenon DEF Init
<1> QED
  BY <1>1 DEF UnseenInv

LEMMA UnseenStep ==
  ASSUME TypeOK, LogInv, RequestInv, OwnInv, TakenOverInv, UnseenInv, [Next]_vars
  PROVE  UnseenInv'
<1> DEFINE Known(k, p, c, first) ==
             \/ Harmless(p, c)
             \/ \E w \in Entries' : w.key = k /\ w.version = p.version
             \/ first /\ live(p) /\ Child(k, p.uid) \notin initialized' /\ p.receipt.epoch < epoch'
<1>0. SUFFICES ASSUME NEW k \in Keys, NEW i \in 2 .. Len(log'[k])
               PROVE  Known(k, log'[k][i - 1], log'[k][i], i = 2)
  <2>1. \A k \in Keys : \A i \in 2 .. Len(log'[k]) : Known(k, log'[k][i - 1], log'[k][i], i = 2)
    BY <1>0
  <2>2. \A k \in Keys : \A i \in 2 .. Len(log'[k]) :
           \/ Harmless(log'[k][i - 1], log'[k][i])
           \/ \E w \in Entries' : w.key = k /\ w.version = log'[k][i - 1].version
           \/ i = 2 /\ Foreign(k, log[k][1])'
    <3> SUFFICES ASSUME NEW k \in Keys, NEW i \in 2 .. Len(log'[k])
                 PROVE  \/ Harmless(log'[k][i - 1], log'[k][i])
                        \/ \E w \in Entries' : w.key = k /\ w.version = log'[k][i - 1].version
                        \/ i = 2 /\ Foreign(k, log[k][1])'
      BY Zenon
    <3>1. Known(k, log'[k][i - 1], log'[k][i], i = 2)
      BY <2>1, Zenon
    <3>2. i = 2 => i - 1 = 1
      OBVIOUS
    <3> QED
      BY <3>1, <3>2 DEF Foreign
  <2> QED
    BY <2>2, Zenon DEF UnseenInv, Awaited, Harmless, count, live, exists
<1>1. Len(log[k]) \in Nat /\ Len(log[k]) >= 1 /\ cached(k) = log[k][1] /\ actual(k) = log[k][Len(log[k])]
  BY LogType DEF actual
\* A pair of versions that the log had before.
<1>2. ASSUME epoch' = epoch, ~Restart, NEW j \in 2 .. Len(log[k])
      PROVE  Known(k, log[k][j - 1], log[k][j], j = 2)
  <2> DEFINE p == log[k][j - 1]
  <2>1. j - 1 \in 1 .. Len(log[k]) /\ (j = 2 => j - 1 = 1)
    BY <1>1, <1>2
  <2>2. p.version \in Nat /\ cached(k).version <= p.version /\ cached(k).version \in Nat
    BY <2>1, LogOrder
  <2>3. Harmless(p, log[k][j]) \/ Awaited(k, p) \/ (j = 2 /\ Foreign(k, log[k][1]))
    BY <1>2 DEF UnseenInv
  <2>4. CASE Awaited(k, p)
    <3>1. PICK w \in Entries : w.key = k /\ w.version = p.version
      BY <2>4 DEF Awaited
    <3>2. w \in Entries'
      BY <1>2, <2>2, <3>1, EntriesKept
    <3> QED
      BY <3>1, <3>2
  <2>5. CASE j = 2 /\ Foreign(k, log[k][1])
    BY <1>1, <1>2, <2>1, <2>5, ForeignKept
  <2> QED
    BY <2>3, <2>4, <2>5
<1>3. CASE Restart
  <2>1. Len(log'[k]) = 1
    BY <1>3, RestartedLog
  <2> QED
    BY <2>1
<1>4. CASE ~Restart /\ UNCHANGED <<log, epoch>>
  BY <1>2, <1>4
<1>5. CASE ~Restart /\ \E j \in Keys : Observe(j)
  <2>1. PICK j \in Keys : Observe(j)
    BY <1>5
  <2>2. epoch' = epoch /\ UNCHANGED <<writes, initialized>>
    BY <2>1 DEF Observe
  <2>3. /\ \A h \in Keys \ {j} : log'[h] = log[h]
        /\ Len(log'[j]) = Len(log[j]) - 1
        /\ \A h \in 1 .. Len(log[j]) - 1 : log'[j][h] = log[j][h + 1]
    BY <2>1, ObservedLog
  <2>4. CASE j # k
    BY <1>2, <1>5, <2>2, <2>3, <2>4, Zenon
  <2>5. CASE j = k
    <3>1. i + 1 \in 2 .. Len(log[k]) /\ i + 1 # 2 /\ (i + 1) - 1 = i /\ (i - 1) + 1 = i
          /\ i - 1 \in 1 .. Len(log[k]) - 1 /\ i \in 1 .. Len(log[k]) - 1
      <4> DEFINE n == Len(log[k])
      <4>1. n \in Nat /\ i \in 2 .. n - 1
        BY <1>1, <2>3, <2>5
      <4> HIDE DEF n
      <4>2. i + 1 \in 2 .. n /\ i + 1 # 2 /\ (i + 1) - 1 = i /\ (i - 1) + 1 = i
            /\ i - 1 \in 1 .. n - 1 /\ i \in 1 .. n - 1
        BY <4>1
      <4> QED
        BY <4>2 DEF n
    <3>2. log'[k][i - 1] = log[k][i] /\ log'[k][i] = log[k][i + 1]
      BY <2>3, <2>5, <3>1, Zenon
    <3>3. Harmless(log[k][i], log[k][i + 1]) \/ Awaited(k, log[k][i])
      BY <3>1 DEF UnseenInv
    <3> QED
      BY <2>2, <3>2, <3>3 DEF Awaited, Entries
  <2> QED
    BY <2>4, <2>5
<1>6. ASSUME ~Restart, NEW j \in Keys, NEW c \in Version, Extended(j, c),
             \/ Harmless(actual(j), c)
             \/ \E w \in Entries' : w.key = j /\ w.version = actual(j).version
             \/ Len(log[j]) = 1 /\ cached(j) = actual(j) /\ Foreign(j, actual(j))
      PROVE  Known(k, log'[k][i - 1], log'[k][i], i = 2)
  <2>1. epoch' = epoch /\ log' = Appended(j, c)
    BY <1>6, Zenon DEF Extended
  <2>2. /\ \A h \in Keys \ {j} : log'[h] = log[h]
        /\ Len(log'[j]) = Len(log[j]) + 1
        /\ \A h \in 1 .. Len(log[j]) : log'[j][h] = log[j][h]
        /\ log'[j][Len(log[j]) + 1] = c
    BY <2>1, AppendedLog
  <2>3. CASE j # k
    BY <1>2, <1>6, <2>1, <2>2, <2>3, Zenon
  <2>4. CASE j = k /\ i \in 2 .. Len(log[k])
    <3>1. i \in 1 .. Len(log[k]) /\ i - 1 \in 1 .. Len(log[k])
      BY <1>1, <2>4
    <3>2. log'[k][i - 1] = log[k][i - 1] /\ log'[k][i] = log[k][i]
      BY <2>2, <2>4, <3>1
    <3> QED
      BY <1>2, <1>6, <2>1, <2>4, <3>2, Zenon
  <2>5. CASE j = k /\ i = Len(log[k]) + 1
    <3>1. i - 1 = Len(log[k]) /\ Len(log[k]) \in 1 .. Len(log[k]) /\ (Len(log[k]) = 1 => i = 2)
      BY <1>1, <2>5
    <3>2. log'[k][i - 1] = actual(k) /\ log'[k][i] = c
      BY <1>1, <2>2, <2>5, <3>1
    <3>3. CASE Harmless(actual(k), c) \/ \E w \in Entries' : w.key = k /\ w.version = actual(k).version
      BY <3>2, <3>3, Zenon
    <3>4. CASE Len(log[k]) = 1 /\ cached(k) = actual(k) /\ Foreign(k, actual(k))
      BY <2>1, <3>1, <3>2, <3>4, ForeignKept
    <3> QED
      BY <1>6, <2>5, <3>3, <3>4, Zenon
  <2>6. j # k \/ i \in 2 .. Len(log[k]) \/ i = Len(log[k]) + 1
    BY <1>1, <2>2
  <2> QED
    BY <2>3, <2>4, <2>5, <2>6, Zenon
<1> HIDE DEF Known
<1> QED
  BY <1>3, <1>4, <1>5, <1>6, NewVersions, Zenon

-----------------------------------------------------------------------------
(* The refinement.                                                         *)

SpecBar == [k \in Keys |-> count(actual(k))]
UnnoticedBar == {k \in Keys : \E i \in 2 .. Len(log[k]) : log[k][i].lost}

\* The steps of AtomicWrites.
LEMMA ForgetStep ==
  ASSUME SpecBar' = SpecBar, DueWrites' \in SUBSET DueWrites, UnnoticedBar' \in SUBSET UnnoticedBar, removed' = removed
  PROVE  Atomic!Next
BY DEF SpecBar, UnnoticedBar, Atomic!Next, Atomic!Forget

LEMMA EmptyStep ==
  ASSUME NEW k \in Keys, SpecBar[k] = None, SpecBar' = [SpecBar EXCEPT ![k] = 0],
         DueWrites' \in SUBSET DueWrites, UnnoticedBar' = UnnoticedBar, removed' = removed
  PROVE  Atomic!Next
BY Zenon DEF SpecBar, UnnoticedBar, Atomic!Next, Atomic!CreateEmpty

LEMMA LoseStep ==
  ASSUME NEW k \in Keys, SpecBar' = [SpecBar EXCEPT ![k] = None],
         DueWrites' \in SUBSET DueWrites, UnnoticedBar' = UnnoticedBar \cup {k}, removed' = removed
  PROVE  Atomic!Next
BY Zenon DEF SpecBar, UnnoticedBar, Atomic!Next, Atomic!Lose

LEMMA ApplyStep ==
  ASSUME NEW d \in DueWrites, SpecBar' = [SpecBar EXCEPT ![d.key] = d.to],
         DueWrites' \in SUBSET (DueWrites \ {d}), UnnoticedBar' = UnnoticedBar, removed' = removed
  PROVE  Atomic!Next
BY Zenon DEF SpecBar, UnnoticedBar, Atomic!Next, Atomic!Apply

LEMMA RetireStep ==
  ASSUME removed, SpecBar' = SpecBar, DueWrites' \in SUBSET (DueWrites \cup [key : Keys, to : {None}]),
         UnnoticedBar' = UnnoticedBar, removed' = removed
  PROVE  Atomic!Next
BY DEF SpecBar, UnnoticedBar, Atomic!Next, Atomic!Retire

LEMMA PlannedStep ==
  ASSUME NEW view \in [Keys -> Counts \cup {None}], goal \in Goals,
         \A k \in Keys \ UnnoticedBar : view[k] = SpecBar[k] \/ (view[k] = None /\ SpecBar[k] = 0),
         NEW step \in Plans(view, goal), DueWrites' \in SUBSET step,
         SpecBar' = SpecBar, UnnoticedBar' = UnnoticedBar, removed' = removed
  PROVE  Atomic!Next
BY DEF SpecBar, UnnoticedBar, Atomic!Next, Atomic!Plan, Atomic!Current

LEMMA ResizeStep ==
  ASSUME removed' = ~removed, SpecBar' = SpecBar, DueWrites' = DueWrites, UnnoticedBar' = UnnoticedBar
  PROVE  Atomic!Next
BY DEF SpecBar, UnnoticedBar, Atomic!Next, Atomic!Resize

\* A new version of one child.
LEMMA ExtendedBar ==
  ASSUME TypeOK, NEW k \in Keys, NEW c \in Version, Extended(k, c)
  PROVE  /\ SpecBar' = [SpecBar EXCEPT ![k] = count(c)]
         /\ count(c) = count(actual(k)) => SpecBar' = SpecBar
         /\ c.lost => UnnoticedBar' = UnnoticedBar \cup {k}
         /\ ~c.lost => UnnoticedBar' = UnnoticedBar
<1>1. log' = Appended(k, c)
  BY DEF Extended
<1>2. /\ \A j \in Keys \ {k} : log'[j] = log[j] /\ actual(j)' = actual(j)
      /\ Len(log'[k]) = Len(log[k]) + 1
      /\ \A i \in 1 .. Len(log[k]) : log'[k][i] = log[k][i]
      /\ log'[k][Len(log[k]) + 1] = c
      /\ actual(k)' = c
  BY <1>1, AppendedLog
<1>3. SpecBar' = [j \in Keys |-> count(actual(j)')]
  BY DEF SpecBar, count, live, exists
<1>4. SpecBar' = [SpecBar EXCEPT ![k] = count(c)]
  BY <1>2, <1>3, Zenon DEF SpecBar
<1>5. count(c) = count(actual(k)) => SpecBar' = SpecBar
  BY <1>2, <1>3 DEF SpecBar
<1>6. Len(log[k]) \in Nat /\ Len(log[k]) >= 1
  BY LogType
<1>7. \A i : i \in 2 .. Len(log'[k]) <=> (i \in 2 .. Len(log[k]) \/ i = Len(log[k]) + 1)
  BY <1>2, <1>6
<1>8. \A i \in 2 .. Len(log[k]) : log'[k][i] = log[k][i]
  BY <1>2, <1>6
<1>9. (\E i \in 2 .. Len(log'[k]) : log'[k][i].lost) <=> (c.lost \/ \E i \in 2 .. Len(log[k]) : log[k][i].lost)
  BY <1>2, <1>7, <1>8
<1>10. UnnoticedBar' = {j \in Keys : \E i \in 2 .. Len(log'[j]) : log'[j][i].lost}
  BY DEF UnnoticedBar
<1>11. \A j \in Keys : j \in UnnoticedBar' <=> (j \in UnnoticedBar \/ (j = k /\ c.lost))
  <2> SUFFICES ASSUME NEW j \in Keys PROVE j \in UnnoticedBar' <=> (j \in UnnoticedBar \/ (j = k /\ c.lost))
    OBVIOUS
  <2>1. CASE j = k
    BY <1>9, <1>10, <2>1 DEF UnnoticedBar
  <2>2. CASE j # k
    BY <1>2, <1>10, <2>2 DEF UnnoticedBar
  <2> QED
    BY <2>1, <2>2
<1>12. UnnoticedBar' \in SUBSET Keys /\ UnnoticedBar \in SUBSET Keys
  BY <1>10 DEF UnnoticedBar
<1> QED
  BY <1>4, <1>5, <1>11, <1>12

\* A step that adds no version.
LEMMA UnextendedBar ==
  ASSUME TypeOK
  PROVE  /\ log' = log => SpecBar' = SpecBar /\ UnnoticedBar' = UnnoticedBar
         /\ Restart => SpecBar' = SpecBar /\ UnnoticedBar' \in SUBSET UnnoticedBar
         /\ \A k \in Keys : Observe(k) => SpecBar' = SpecBar /\ UnnoticedBar' \in SUBSET UnnoticedBar
<1>0. /\ SpecBar' = [j \in Keys |-> count(actual(j)')]
      /\ UnnoticedBar' = {j \in Keys : \E i \in 2 .. Len(log'[j]) : log'[j][i].lost}
  BY DEF SpecBar, UnnoticedBar, count, live, exists
<1>1. ASSUME log' = log
      PROVE  SpecBar' = SpecBar /\ UnnoticedBar' = UnnoticedBar
  <2>1. \A k \in Keys : actual(k)' = actual(k)
    BY <1>1 DEF actual
  <2> QED
    BY <1>0, <1>1, <2>1 DEF SpecBar, UnnoticedBar
<1>2. ASSUME Restart
      PROVE  SpecBar' = SpecBar /\ UnnoticedBar' \in SUBSET UnnoticedBar
  <2>1. \A k \in Keys : Len(log'[k]) = 1 /\ actual(k)' = actual(k)
    BY <1>2, RestartedLog
  <2>2. UnnoticedBar' = {}
    BY <1>0, <2>1
  <2> QED
    BY <1>0, <2>1, <2>2 DEF SpecBar
<1>3. ASSUME NEW k \in Keys, Observe(k)
      PROVE  SpecBar' = SpecBar /\ UnnoticedBar' \in SUBSET UnnoticedBar
  <2>1. /\ \A j \in Keys \ {k} : log'[j] = log[j]
        /\ Len(log'[k]) = Len(log[k]) - 1
        /\ \A i \in 1 .. Len(log[k]) - 1 : log'[k][i] = log[k][i + 1]
        /\ \A j \in Keys : actual(j)' = actual(j)
    BY <1>3, ObservedLog
  <2>2. Len(log[k]) \in Nat
    BY LogType
  <2>3. ASSUME NEW i \in 2 .. Len(log'[k]) PROVE i + 1 \in 2 .. Len(log[k]) /\ log'[k][i] = log[k][i + 1]
    <3>1. i \in 1 .. Len(log[k]) - 1 /\ i + 1 \in 2 .. Len(log[k])
      BY <2>1, <2>2
    <3> QED
      BY <2>1, <3>1
  <2>4. k \in UnnoticedBar' => k \in UnnoticedBar
    BY <1>0, <2>3 DEF UnnoticedBar
  <2>5. \A j \in Keys \ {k} : j \in UnnoticedBar' => j \in UnnoticedBar
    BY <1>0, <2>1 DEF UnnoticedBar
  <2>6. SpecBar' = SpecBar
    BY <1>0, <2>1 DEF SpecBar
  <2> QED
    BY <1>0, <2>4, <2>5, <2>6
<1> QED
  BY <1>1, <1>2, <1>3

\* What may still take effect.
LEMMA DueWrite ==
  /\ \A d : d \in DueWrites <=>
       \/ \E w \in Unanswered \cup todo : w.op = "delete" /\ Allowed(w) /\ d = [key |-> w.key, to |-> None]
       \/ \E w \in Unanswered : w.op = "scale" /\ Allowed(w) /\ d = [key |-> w.key, to |-> w.to]
       \/ \E w \in todo : w.op \in {"create", "scale"} /\ d = [key |-> w.key, to |-> w.to]
  /\ \A d : d \in DueWrites' <=>
       \/ \E w \in Unanswered' \cup todo' : w.op = "delete" /\ Allowed(w)' /\ d = [key |-> w.key, to |-> None]
       \/ \E w \in Unanswered' : w.op = "scale" /\ Allowed(w)' /\ d = [key |-> w.key, to |-> w.to]
       \/ \E w \in todo' : w.op \in {"create", "scale"} /\ d = [key |-> w.key, to |-> w.to]
BY Zenon DEF DueWrites

\* Nothing becomes due: what is newly without an answer was to be sent before.
LEMMA DueShrinks ==
  ASSUME TypeOK, LogInv, RequestInv, LogChange,
         \A t \in todo' : t \in todo \/ t.op = "touch",
         \A w \in Unanswered' : \/ w \in Unanswered
                                \/ w.op \in {"create", "touch"}
                                \/ \E t \in todo : /\ w.key = t.key /\ w.op = t.op /\ w.to = t.to
                                                   /\ w.op = "delete" => w = t
  PROVE  DueWrites' \in SUBSET DueWrites
<1>0. \A w \in Unanswered \cup todo : w \in Write /\ Good(w)
  BY DEF RequestInv, TypeOK, Entries, Unanswered
<1>1. \A w \in Unanswered \cup todo : w.op # "create" /\ Allowed(w)' => Allowed(w)
  BY <1>0, GoodKept
<1> SUFFICES ASSUME NEW d \in DueWrites' PROVE d \in DueWrites
  OBVIOUS
<1>2. ASSUME NEW w \in Unanswered' \cup todo', w.op = "delete", Allowed(w)', d = [key |-> w.key, to |-> None]
      PROVE  d \in DueWrites
  <2>1. w \in Unanswered \cup todo
    BY <1>2
  <2>2. Allowed(w)
    BY <1>1, <1>2, <2>1
  <2> QED
    BY <1>2, <2>1, <2>2, DueWrite
<1>3. ASSUME NEW w \in Unanswered', w.op = "scale", Allowed(w)', d = [key |-> w.key, to |-> w.to]
      PROVE  d \in DueWrites
  <2>1. CASE w \in Unanswered
    <3>1. Allowed(w)
      BY <1>1, <1>3, <2>1
    <3> QED
      BY <1>3, <2>1, <3>1, DueWrite
  <2>2. CASE \E t \in todo : w.key = t.key /\ w.op = t.op /\ w.to = t.to
    <3>1. PICK t \in todo : w.key = t.key /\ w.op = t.op /\ w.to = t.to
      BY <2>2
    <3>2. t.op \in {"create", "scale"} /\ d = [key |-> t.key, to |-> t.to]
      BY <1>3, <3>1
    <3> QED
      BY <3>2, DueWrite
  <2> QED
    BY <1>3, <2>1, <2>2
<1>4. ASSUME NEW w \in todo', w.op \in {"create", "scale"}, d = [key |-> w.key, to |-> w.to]
      PROVE  d \in DueWrites
  <2>1. w \in todo
    BY <1>4
  <2> QED
    BY <1>4, <2>1, DueWrite
<1> QED
  BY <1>2, <1>3, <1>4, DueWrite

\* A write that takes effect was due, and is no more.
LEMMA AppliedStep ==
  ASSUME TypeOK, LogInv, RequestInv, [Next]_vars, epoch' = epoch, removed' = removed,
         NEW w \in Write, w.op # "create", Good(w), w.epoch <= epoch, Applied(w),
         w \in Unanswered \/ (\E t \in todo : /\ w.key = t.key /\ w.op = t.op /\ w.to = t.to
                                              /\ w.op = "delete" => w = t),
         \A t \in todo' : t.op \in {"create", "scale"} => t.key # w.key,
         DueWrites' \in SUBSET DueWrites
  PROVE  Atomic!Next
<1> DEFINE k == w.key
           c == Written(w)
<1>1. k \in Keys /\ c \in Version /\ Extended(k, c) /\ ~c.lost
  BY AppliedExtends, WrittenSound, Zenon DEF Write, Extended, Applied
<1>2. /\ SpecBar' = [SpecBar EXCEPT ![k] = count(c)]
      /\ count(c) = count(actual(k)) => SpecBar' = SpecBar
      /\ UnnoticedBar' = UnnoticedBar
  BY <1>1, ExtendedBar, Zenon
<1>3. \A u \in Unanswered' \cup todo' : u \in Write /\ Good(u)
  BY RequestSteps DEF Unanswered
<1>4. \A u \in Unanswered' \cup todo' : u.op # "create" /\ u.key = k => ~Allowed(u)'
  BY <1>1, <1>3, ExtendedSpends, Zenon
<1>5. w.op \in {"delete", "scale", "touch"} /\ w.to \in Counts /\ None \notin Counts /\ Allowed(w)
  BY CountsAssumption DEF Write, Applied
<1>6. CASE w.op = "touch"
  <2>1. count(c) = count(actual(k))
    BY <1>6, WrittenSound, Zenon DEF Applied
  <2> QED
    BY <1>2, <2>1, ForgetStep
<1>7. CASE w.op = "delete"
  <2> DEFINE d == [key |-> k, to |-> None]
  <2>1. count(c) = None
    BY <1>7, WrittenSound, Zenon DEF Applied
  <2>2. w \in Unanswered \cup todo
    BY <1>7
  <2>3. d \in DueWrites
    BY <1>5, <1>7, <2>2, DueWrite, Zenon
  <2>4. d \notin DueWrites'
    <3>1. ASSUME NEW u \in Unanswered' \cup todo', u.op = "delete", Allowed(u)', d = [key |-> u.key, to |-> None]
          PROVE  FALSE
      <4>1. u.key = k
        BY <3>1, Zenon
      <4> QED
        BY <1>4, <3>1, <4>1
    <3>2. ASSUME NEW u \in Unanswered' \cup todo', d = [key |-> u.key, to |-> u.to]
          PROVE  FALSE
      <4>1. u.to = None
        BY <3>2
      <4>2. u.to \in Counts
        BY <1>3, <3>2 DEF Write
      <4> QED
        BY <1>5, <4>1, <4>2
    <3> QED
      BY <3>1, <3>2, DueWrite, Zenon
  <2>5. d.key = k /\ d.to = None
    OBVIOUS
  <2> HIDE DEF d
  <2> QED
    BY <1>2, <2>1, <2>3, <2>4, <2>5, ApplyStep, Zenon
<1>8. CASE w.op = "scale"
  <2> DEFINE d == [key |-> k, to |-> w.to]
  <2>1. count(c) = w.to
    BY <1>8, WrittenSound, Zenon DEF Applied
  <2>2. d \in DueWrites
    <3>1. CASE w \in Unanswered
      BY <1>5, <1>8, <3>1, DueWrite
    <3>2. CASE \E t \in todo : w.key = t.key /\ w.op = t.op /\ w.to = t.to
      <4>1. PICK t \in todo : w.key = t.key /\ w.op = t.op /\ w.to = t.to
        BY <3>2
      <4>2. t.op \in {"create", "scale"} /\ d = [key |-> t.key, to |-> t.to]
        BY <1>8, <4>1
      <4> QED
        BY <4>2, DueWrite
    <3> QED
      BY <3>1, <3>2
  <2>3. d \notin DueWrites'
    <3>1. ASSUME NEW u \in Unanswered', u.op = "scale", Allowed(u)', d = [key |-> u.key, to |-> u.to]
          PROVE  FALSE
      <4>1. u.key = k
        BY <3>1
      <4> QED
        BY <1>4, <3>1, <4>1
    <3>2. ASSUME NEW u, d = [key |-> u.key, to |-> None]
          PROVE  FALSE
      <4>1. w.to = None
        BY <3>2
      <4> QED
        BY <1>5, <4>1
    <3>3. ASSUME NEW u \in todo', u.op \in {"create", "scale"}, d = [key |-> u.key, to |-> u.to]
          PROVE  FALSE
      <4>1. u.key = k
        BY <3>3
      <4> QED
        BY <3>3, <4>1
    <3> QED
      BY <3>1, <3>2, <3>3, DueWrite, Zenon
  <2>4. d.key = k /\ d.to = w.to
    OBVIOUS
  <2> HIDE DEF d
  <2> QED
    BY <1>2, <2>1, <2>2, <2>3, <2>4, ApplyStep, Zenon
<1> QED
  BY <1>5, <1>6, <1>7, <1>8

\* An empty child that is created.
LEMMA CreatedStep ==
  ASSUME TypeOK, LogInv, removed' = removed, epoch' = epoch,
         NEW w \in Write, w.op = "create", Good(w), w.epoch <= epoch, Applied(w), DueWrites' \in SUBSET DueWrites
  PROVE  Atomic!Next
<1> DEFINE k == w.key
           c == Written(w)
<1>1. k \in Keys /\ c \in Version /\ Extended(k, c) /\ ~c.lost /\ count(actual(k)) = None /\ count(c) = 0
  BY AppliedExtends, WrittenSound, Zenon DEF Write, Extended, Applied
<1>2. SpecBar' = [SpecBar EXCEPT ![k] = 0] /\ UnnoticedBar' = UnnoticedBar
  BY <1>1, ExtendedBar, Zenon
<1>3. SpecBar[k] = None
  BY <1>1 DEF SpecBar
<1> QED
  BY <1>1, <1>2, <1>3, EmptyStep, Zenon

\* A plan is made from the children as they are.
LEMMA PlanCurrent ==
  ASSUME TypeOK, UnseenInv, observed, Untaken = {}, NEW k \in Keys \ UnnoticedBar
  PROVE  count(cached(k)) = count(actual(k)) \/ (count(cached(k)) = None /\ count(actual(k)) = 0)
<1> DEFINE n == Len(log[k])
           s == log[k]
           v == count(cached(k))
           Same(i) == count(s[i]) = v \/ (v = None /\ count(s[i]) = 0)
           G == {m \in Nat : m + 1 <= n => Same(m + 1)}
<1>1. k \in Keys /\ n \in Nat /\ n >= 1 /\ cached(k) = s[1] /\ actual(k) = s[n]
  BY LogType DEF actual
<1>2. \A i \in 2 .. n : ~s[i].lost
  BY DEF UnnoticedBar
<1>3. \A i \in 2 .. n : Harmless(s[i - 1], s[i])
  <2> SUFFICES ASSUME NEW i \in 2 .. n PROVE Harmless(s[i - 1], s[i])
    OBVIOUS
  <2>1. ~Awaited(k, s[i - 1])
    BY DEF Awaited, Entries, observed
  <2>2. ~Foreign(k, s[1])
    BY <1>1 DEF Foreign, Untaken
  <2> QED
    BY <1>1, <2>1, <2>2 DEF UnseenInv
<1>4. 0 # None
  BY CountsAssumption
<1>5. \A i \in 2 .. n : \/ count(s[i]) = count(s[i - 1])
                        \/ count(s[i - 1]) = None /\ count(s[i]) = 0
  BY <1>2, <1>3 DEF Harmless
<1> HIDE DEF s
<1>6. Same(1)
  BY <1>1
<1> HIDE DEF n, v
<1>7. ASSUME NEW i \in 2 .. n, Same(i - 1)
      PROVE  Same(i)
  BY <1>4, <1>5, <1>7
<1> HIDE DEF Same
<1>8. 0 \in G
  BY <1>6
<1>9. ASSUME NEW m \in G PROVE m + 1 \in G
  <2>1. m \in Nat /\ m + 1 \in Nat
    OBVIOUS
  <2>2. ASSUME (m + 1) + 1 <= n PROVE Same((m + 1) + 1)
    <3> DEFINE i == (m + 1) + 1
    <3>1. i \in 2 .. n /\ i - 1 = m + 1 /\ m + 1 <= n
      BY <1>1, <2>1, <2>2
    <3>2. Same(i - 1)
      BY <3>1
    <3> QED
      BY <1>7, <3>1, <3>2
  <2> QED
    BY <2>1, <2>2
<1>10. Nat \subseteq G
  <2> HIDE DEF G
  <2>1. G \in SUBSET Nat
    BY DEF G
  <2> QED
    BY <1>8, <1>9, <2>1, NaturalCases
<1>11. n - 1 \in Nat /\ (n - 1) + 1 = n /\ n <= n
  BY <1>1
<1>12. Same(n)
  BY <1>10, <1>11
<1> QED
  BY <1>1, <1>12 DEF Same, v, n, s

LEMMA PlanImplements ==
  ASSUME TypeOK, WritesInv, UnseenInv, Plan
  PROVE  Atomic!Next
<1> DEFINE view == [k \in Keys |-> count(cached(k))]
<1>0. TypeOK /\ LogInv /\ RequestInv /\ OwnInv /\ TakenOverInv /\ UnseenInv /\ observed /\ Untaken = {}
  BY DEF WritesInv, Plan
<1>1. PICK step \in Plans(view, goal) : todo' = {Planned(w) : w \in step}
  BY DEF Plan
<1>2. UNCHANGED <<log, requests, writes, removed>> /\ goal \in Goals
  BY DEF Plan, TypeOK
<1>3. view \in [Keys -> Counts \cup {None}]
  <2>1. \A k \in Keys : count(cached(k)) \in Counts \cup {None}
    BY LogType, Zenon DEF count, Version
  <2> QED
    BY <2>1
<1>4. SpecBar' = SpecBar /\ UnnoticedBar' = UnnoticedBar /\ Unanswered' = Unanswered
  BY <1>2, UnextendedBar, Zenon DEF Unanswered
<1>5. \A k \in Keys \ UnnoticedBar : view[k] = SpecBar[k] \/ (view[k] = None /\ SpecBar[k] = 0)
  BY <1>0, PlanCurrent, Zenon DEF SpecBar
<1>6. \A w \in Unanswered : w.op # "create" => ~Allowed(w)'
  <2> SUFFICES ASSUME NEW w \in Unanswered, w.op # "create" PROVE ~Allowed(w)'
    OBVIOUS
  <2>1. Spent(w)
    BY <1>0, NothingBehind DEF Conditional
  <2>2. w \in Write
    BY DEF TypeOK, Unanswered
  <2>3. w.version \in Nat /\ actual(w.key).version \in Nat
    BY <2>2, LogType DEF Write, Version
  <2>4. ~Allowed(w)
    BY <2>1, <2>3 DEF Allowed, Spent
  <2> QED
    BY <1>2, <2>4 DEF Allowed, actual, exists
<1>7. DueWrites' \in SUBSET step
  <2> SUFFICES ASSUME NEW d \in DueWrites' PROVE d \in step
    OBVIOUS
  <2>1. ASSUME NEW u \in todo', u.op = "delete", d = [key |-> u.key, to |-> None]
        PROVE  d \in step
    BY <1>0, <1>1, <2>1, PlannedGood, Zenon
  <2>2. ASSUME NEW u \in todo', u.op \in {"create", "scale"}, d = [key |-> u.key, to |-> u.to]
        PROVE  d \in step
    BY <1>0, <1>1, <2>2, PlannedGood, Zenon
  <2> QED
    BY <1>4, <1>6, <2>1, <2>2, DueWrite, Zenon
<1> HIDE DEF view
<1> QED
  BY <1>2, <1>3, <1>4, <1>5, <1>7, PlannedStep

\* Every step of the controller, the API server, the informer, other clients and
\* the user is one of AtomicWrites.
LEMMA StepImplements ==
  ASSUME TypeOK, WritesInv, UnseenInv, [Next]_vars
  PROVE  Atomic!Next
<1>0. /\ TypeOK /\ LogInv /\ RequestInv /\ PlanInv /\ LogChange /\ epoch \in Nat
      /\ \A w \in requests \cup todo \cup Entries : w \in Write /\ Good(w) /\ w.epoch <= epoch
  BY LogSteps DEF WritesInv, RequestInv, TypeOK, Entries
\* Steps that plan nothing and leave no request without an answer.
<1>1. ASSUME \A t \in todo' : t \in todo \/ t.op = "touch", Unanswered' \in SUBSET Unanswered
      PROVE  DueWrites' \in SUBSET DueWrites
  BY <1>0, <1>1, DueShrinks
<1>2. ASSUME log' = log, removed' = removed, DueWrites' \in SUBSET DueWrites
      PROVE  Atomic!Next
  BY <1>2, UnextendedBar, ForgetStep
<1>3. CASE UNCHANGED vars
  <2>1. Unanswered' = Unanswered /\ log' = log /\ removed' = removed /\ todo' = todo
    BY <1>3 DEF vars, Unanswered
  <2> QED
    BY <1>1, <1>2, <2>1
<1>4. CASE checkWrite
  <2>1. PICK e \in writes : checkWriteResolves(e) \/ checkWriteRetries(e)
    BY <1>4 DEF checkWrite
  <2>2. e.write \in Entries /\ e.write \in Write /\ e.write.op # "create"
    BY DEF Entries, TypeOK
  <2>3. CASE checkWriteResolves(e)
    <3>1. /\ log' = log /\ removed' = removed /\ todo' = todo /\ requests' = requests /\ writes' = writes \ {e}
      BY <2>3 DEF checkWriteResolves
    <3>2. Unanswered' \in SUBSET Unanswered
      BY <3>1 DEF Unanswered
    <3> QED
      BY <1>1, <1>2, <3>1, <3>2
  <2>4. CASE checkWriteRetries(e)
    <3>1. e.write \in Unanswered /\ todo' = {} /\ todo = {} /\ removed' = removed /\ epoch' = epoch
      BY <2>4 DEF checkWriteRetries, Unanswered
    <3>2. CASE log' = log /\ requests' = requests \cup {e.write} /\ writes' = writes
      <4>1. Unanswered' \in SUBSET Unanswered
        BY <3>1, <3>2 DEF Unanswered
      <4> QED
        BY <1>1, <1>2, <3>1, <3>2, <4>1
    <3>3. CASE Applied(e.write) /\ requests' = requests /\ writes' = (writes \ {e}) \cup {Entry(e.write, FALSE)}
      <4>1. ~Entry(e.write, FALSE).retry
        BY DEF Entry
      <4>2. Unanswered' \in SUBSET Unanswered
        BY <3>3, <4>1, Zenon DEF Unanswered
      <4>3. DueWrites' \in SUBSET DueWrites
        BY <1>1, <3>1, <4>2
      <4> QED
        BY <1>0, <2>2, <3>1, <3>3, <4>3, AppliedStep
    <3> QED
      BY <2>4, <3>2, <3>3, Zenon DEF checkWriteRetries, Applied
  <2> QED
    BY <2>1, <2>3, <2>4
<1>5. CASE prepareSlice \/ \E k \in Keys : SyncMetadata(k)
  <2>1. log' = log /\ removed' = removed /\ UNCHANGED <<requests, writes>>
    BY <1>5 DEF prepareSlice, SyncMetadata
  <2>2. \A t \in todo' : \E k \in Keys : t = Request(k, "touch", cached(k).replicas)
    BY <1>5 DEF prepareSlice, SyncMetadata, Untaken
  <2>3. \A t \in todo' : t.op = "touch"
    BY <2>2 DEF Request
  <2>4. Unanswered' = Unanswered
    BY <2>1 DEF Unanswered
  <2> QED
    BY <1>1, <1>2, <2>1, <2>3, <2>4
<1>6. CASE Plan
  BY <1>6, PlanImplements
<1>7. CASE cleanupRemovedSlices
  <2>1. /\ log' = log /\ removed' = removed /\ UNCHANGED <<requests, writes>> /\ removed /\ todo = {}
        /\ \A t \in todo' : \E k \in Keys : t = Request(k, "delete", 0)
    BY <1>7 DEF cleanupRemovedSlices
  <2>2. \A t \in todo' : t.op = "delete" /\ t.key \in Keys
    BY <2>1 DEF Request
  <2>3. Unanswered' = Unanswered
    BY <2>1 DEF Unanswered
  <2>4. \A w : Allowed(w)' <=> Allowed(w)
    BY <2>1 DEF Allowed, actual, exists
  <2>5. DueWrites' \in SUBSET (DueWrites \cup [key : Keys, to : {None}])
    <3> SUFFICES ASSUME NEW d \in DueWrites', d \notin [key : Keys, to : {None}] PROVE d \in DueWrites
      OBVIOUS
    <3>1. \A t \in todo' : d # [key |-> t.key, to |-> None]
      BY <2>2
    <3> QED
      BY <2>2, <2>3, <2>4, <3>1, DueWrite
  <2> QED
    BY <2>1, <2>5, UnextendedBar, RetireStep
<1>8. CASE \E w \in todo : Send(w)
  <2>1. PICK w \in todo : Send(w)
    BY <1>8
  <2>2. removed' = removed /\ epoch' = epoch
    BY <2>1 DEF Send
  <2>3. PICK v \in Write :
          /\ v.key = w.key /\ v.op = w.op /\ v.op # "create" /\ v.to = w.to /\ v.epoch = epoch /\ Good(v)
          /\ v.op = "delete" => v = w
          /\ \/ /\ Applied(v) /\ writes' = writes \cup {Entry(v, FALSE)}
                /\ todo' = Rest(w) /\ requests' = requests
             \/ UNCHANGED <<log, requests, writes>> /\ todo' \in SUBSET todo
             \/ /\ requests' = requests \cup {v} /\ writes' = writes \cup {Entry(v, TRUE)}
                /\ todo' = {} /\ log' = log
    BY <1>0, <2>1, SendCases, Zenon
  <2>4. CASE Applied(v) /\ writes' = writes \cup {Entry(v, FALSE)} /\ todo' = Rest(w) /\ requests' = requests
    <3>1. ~Entry(v, FALSE).retry
      BY DEF Entry
    <3>2. Unanswered' \in SUBSET Unanswered
      BY <2>4, <3>1, Zenon DEF Unanswered
    <3>3. \A t \in todo' : t \in todo /\ t.key # v.key
      BY <2>3, <2>4 DEF Rest
    <3>4. DueWrites' \in SUBSET DueWrites
      BY <1>1, <3>2, <3>3
    <3> QED
      BY <1>0, <2>2, <2>3, <2>4, <3>3, <3>4, AppliedStep
  <2>5. CASE UNCHANGED <<log, requests, writes>> /\ todo' \in SUBSET todo
    <3>1. Unanswered' = Unanswered
      BY <2>5 DEF Unanswered
    <3> QED
      BY <1>1, <1>2, <2>2, <2>5, <3>1
  <2>6. CASE requests' = requests \cup {v} /\ writes' = writes \cup {Entry(v, TRUE)} /\ todo' = {} /\ log' = log
    <3>1. \A u \in Unanswered' : u \in Unanswered \/ u = v
      BY <2>6 DEF Unanswered, Entry
    <3>2. DueWrites' \in SUBSET DueWrites
      BY <1>0, <2>3, <2>6, <3>1, DueShrinks
    <3> QED
      BY <1>2, <2>2, <2>6, <3>2
  <2> QED
    BY <2>3, <2>4, <2>5, <2>6, Zenon
<1>9. CASE \E w \in todo : Create(w)
  <2>1. PICK w \in todo : Create(w)
    BY <1>9
  <2>2. /\ w.op = "create" /\ removed' = removed /\ epoch' = epoch /\ writes' = writes /\ todo' \in SUBSET todo
        /\ requests' \in SUBSET (requests \cup {w}) /\ (Applied(w) \/ log' = log)
    BY <2>1, Zenon DEF Create, Rest, Applied
  <2>3. \A u \in Unanswered' : u \in Unanswered \/ u = w
    BY <2>2 DEF Unanswered
  <2>4. DueWrites' \in SUBSET DueWrites
    BY <1>0, <2>2, <2>3, DueShrinks
  <2> QED
    BY <1>0, <1>2, <2>2, <2>4, CreatedStep
<1>10. CASE \E w \in requests : Commit(w) \/ Drop(w)
  <2>1. PICK w \in requests : Commit(w) \/ Drop(w)
    BY <1>10
  <2>2. /\ removed' = removed /\ epoch' = epoch /\ writes' = writes /\ todo' = todo
        /\ requests' \in SUBSET requests /\ (Applied(w) \/ log' = log)
    BY <2>1 DEF Commit, Drop, Applied
  <2>3. Unanswered' \in SUBSET Unanswered /\ w \in Unanswered
    BY <2>2 DEF Unanswered
  <2>4. DueWrites' \in SUBSET DueWrites
    BY <1>1, <2>2, <2>3
  <2>5. CASE log' = log
    BY <1>2, <2>2, <2>4, <2>5
  <2>6. CASE Applied(w) /\ w.op = "create"
    BY <1>0, <2>2, <2>4, <2>6, CreatedStep
  <2>7. CASE Applied(w) /\ w.op # "create"
    <3>1. w.version = actual(w.key).version /\ w.version \in Nat
      BY <1>0, <2>7 DEF Applied, Allowed, Write
    <3>2. ~Spent(w)
      BY <3>1 DEF Spent
    <3>3. \A t \in todo' : t.op \notin {"create", "scale"}
      BY <1>0, <2>2, <2>3, <2>7, <3>2 DEF PlanInv, Conditional
    <3> QED
      BY <1>0, <2>2, <2>3, <2>4, <2>7, <3>3, AppliedStep
  <2> QED
    BY <2>2, <2>5, <2>6, <2>7
<1>11. CASE \E k \in Keys : StatusUpdate(k) \/ OtherDelete(k) \/ Collected(k)
  <2>1. PICK k \in Keys : StatusUpdate(k) \/ OtherDelete(k) \/ Collected(k)
    BY <1>11
  <2>2. removed' = removed /\ todo' = todo /\ UNCHANGED <<requests, writes>>
    BY <2>1, Zenon DEF StatusUpdate, OtherDelete, Collected, Other
  <2>3. DueWrites' \in SUBSET DueWrites
    BY <1>1, <2>2 DEF Unanswered
  <2>4. PICK c \in Version : Extended(k, c) /\ ((~c.lost /\ count(c) = count(actual(k))) \/ (c.lost /\ count(c) = None))
    BY <1>0, <2>1, OthersExtend
  <2>5. CASE ~c.lost /\ count(c) = count(actual(k))
    <3>1. SpecBar' = SpecBar /\ UnnoticedBar' = UnnoticedBar
      BY <1>0, <2>4, <2>5, ExtendedBar
    <3> QED
      BY <2>2, <2>3, <3>1, ForgetStep
  <2>6. CASE c.lost /\ count(c) = None
    <3>1. SpecBar' = [SpecBar EXCEPT ![k] = None] /\ UnnoticedBar' = UnnoticedBar \cup {k}
      BY <1>0, <2>4, <2>6, ExtendedBar
    <3> QED
      BY <2>2, <2>3, <3>1, LoseStep, Zenon
  <2> QED
    BY <2>4, <2>5, <2>6
<1>12. CASE (\E k \in Keys : Observe(k)) \/ Restart
  <2>1. /\ removed' = removed /\ todo' \in SUBSET todo /\ requests' = requests /\ writes' \in SUBSET writes
    BY <1>12 DEF Observe, Restart
  <2>2. Unanswered' \in SUBSET Unanswered
    BY <2>1 DEF Unanswered
  <2>3. DueWrites' \in SUBSET DueWrites
    BY <1>1, <2>1, <2>2
  <2>4. SpecBar' = SpecBar /\ UnnoticedBar' \in SUBSET UnnoticedBar
    BY <1>12, UnextendedBar
  <2> QED
    BY <2>1, <2>3, <2>4, ForgetStep
<1>13. CASE Edit
  <2>1. /\ UNCHANGED <<log, requests, writes, todo>>
        /\ removed' = removed \/ removed' = ~removed
    BY <1>13 DEF Edit
  <2>2. Unanswered' = Unanswered
    BY <2>1 DEF Unanswered
  <2>3. \A w : Allowed(w)' <=> Allowed(w)
    BY <2>1 DEF Allowed, actual, exists
  <2>4. DueWrites' = DueWrites
    BY <2>1, <2>2, <2>3 DEF DueWrites
  <2>5. SpecBar' = SpecBar /\ UnnoticedBar' = UnnoticedBar
    BY <2>1, UnextendedBar
  <2> QED
    BY <2>1, <2>4, <2>5, ForgetStep, ResizeStep
<1> QED
  BY <1>3, <1>4, <1>5, <1>6, <1>7, <1>8, <1>9, <1>10, <1>11, <1>12, <1>13 DEF Next, Reconcile, Cluster

LEMMA StartImplements ==
  ASSUME Init
  PROVE  Atomic!Init
<1>1. TypeOK /\ log = [k \in Keys |-> <<FirstVersion(Start[k])>>]
  BY WritesStart, Zenon DEF Init
<1>2. \A k \in Keys : count(actual(k)) \in Counts \cup {None}
  BY <1>1, LogType, Zenon DEF count, Version
<1>3. SpecBar \in [Keys -> Counts \cup {None}]
  BY <1>2 DEF SpecBar
<1>4. DueWrites = {}
  <2>1. Unanswered = {} /\ todo = {}
    BY DEF Init, Unanswered
  <2> QED
    BY <2>1 DEF DueWrites
<1>5. UnnoticedBar = {}
  <2>1. \A k \in Keys : Len(log[k]) = 1
    BY <1>1, Zenon
  <2> QED
    BY <2>1 DEF UnnoticedBar
<1>6. removed = FALSE
  BY DEF Init
<1> QED
  BY <1>3, <1>4, <1>5, <1>6 DEF Atomic!Init, SpecBar, UnnoticedBar

\* The barrier of pendingWrites, checkWrite and prepareSlice (lws_manager.go):
\* whatever the informer has not seen, however late a request arrives and
\* whichever process sent it, the writes to the children of a slice are those of
\* AtomicWrites.  A plan is made from the children as they are, its writes take
\* effect at most once, and no write of an earlier plan takes effect after it.
THEOREM AtomicStepsHold == Spec => AtomicSteps
<1>1. Init => TypeOK /\ WritesInv /\ UnseenInv
  BY WritesStart, UnseenStart
<1>2. TypeOK /\ WritesInv /\ UnseenInv /\ [Next]_vars => (TypeOK /\ WritesInv /\ UnseenInv)'
  BY WritesStep, UnseenStep DEF WritesInv
<1>3. Init => Atomic!Init
  BY StartImplements
<1>4. TypeOK /\ WritesInv /\ UnseenInv /\ [Next]_vars => [Atomic!Next]_(Atomic!vars)
  BY StepImplements
<1> QED
  BY <1>1, <1>2, <1>3, <1>4, PTL DEF Spec, AtomicSteps, Atomic!Spec
=============================================================================
