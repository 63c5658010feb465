------------------------ MODULE RollingUpdateProofs ------------------------
(* Lemmas about the arithmetic of a rolling update, for all replica counts *)
(* and budgets.                                                            *)
EXTENDS RollingUpdate, SumProofs

\* A set of the first m indices has at most m elements.
LEMMA IndexSetCardinality ==
  ASSUME NEW m \in Nat, NEW S \in SUBSET (0 .. m-1)
  PROVE  Cardinality(S) \in 0 .. m
<1>1. IsFiniteSet(0 .. m-1) /\ Cardinality(0 .. m-1) = m
  <2>1. m - 1 \in Int /\ 0 \in Int
    OBVIOUS
  <2> QED
    BY <2>1, FS_Interval
<1>2. IsFiniteSet(S) /\ Cardinality(S) <= m
  BY <1>1, FS_Subset
<1>3. Cardinality(S) \in Nat
  BY <1>2, FS_CardinalityType
<1> QED
  BY <1>2, <1>3

-----------------------------------------------------------------------------
(* Budgets.                                                                *)

\* A scaled number or percentage of a replica count is a natural number.
LEMMA ScaledValueType ==
  ASSUME NEW v \in IntOrString, NEW n \in Nat, NEW up \in BOOLEAN
  PROVE  ScaledValue(v, n, up) \in Nat
<1>1. v.value \in Nat /\ v.percent \in BOOLEAN
  BY DEF IntOrString
<1>2. v.value * n \in Nat
  BY <1>1
<1>3. \A m \in Nat : m \div 100 \in Nat
  OBVIOUS
<1>4. v.value * n + 99 \in Nat
  BY <1>2
<1> HIDE DEF IntOrString
<1> QED
  BY <1>1, <1>2, <1>3, <1>4 DEF ScaledValue

\* The surge budget is a natural number and never exceeds the replicas.
LEMMA MaxSurgeBound ==
  ASSUME NEW cfg, cfg.maxSurge \in IntOrString, NEW n \in Nat
  PROVE  MaxSurgeOf(cfg, n) \in 0 .. n
<1> DEFINE s == ScaledValue(cfg.maxSurge, n, TRUE)
<1>1. s \in Nat
  BY ScaledValueType
<1>2. MaxSurgeOf(cfg, n) = Smaller(s, n)
  BY DEF MaxSurgeOf
<1> HIDE DEF s
<1> QED
  BY <1>1, <1>2 DEF Smaller

\* The unavailability budget is a natural number.
LEMMA MaxUnavailableType ==
  ASSUME NEW cfg, cfg.maxUnavailable \in IntOrString, NEW n \in Nat
  PROVE  MaxUnavailableOf(cfg, n) \in Nat
  BY ScaledValueType DEF MaxUnavailableOf

-----------------------------------------------------------------------------
(* Replicas and partition.                                                 *)

\* A rolling update keeps between replicas and replicas + maxSurge groups.
LEMMA RollingUpdateReplicasBound ==
  ASSUME NEW lws \in Nat, NEW surge \in Nat, NEW unavailable \in Nat, NEW unready \in Nat
  PROVE  calculateRollingUpdateReplicas(lws, surge, unavailable, unready) \in lws .. lws + surge
  BY DEF calculateRollingUpdateReplicas, NonZeroValue

\* At most all of the replicas asked for are unready.
LEMMA UnreadyBound ==
  ASSUME NEW states, NEW n, NEW lws \in Nat
  PROVE  calculateLWSUnreadyReplicas(states, n, lws) \in 0 .. lws
<1> DEFINE S == {i \in 0 .. lws - 1 : i >= n \/ ~ReadyAndUpdated(states[i])}
<1>1. S \in SUBSET (0 .. lws - 1)
  OBVIOUS
<1> HIDE DEF S
<1>2. Cardinality(S) \in 0 .. lws
  BY <1>1, IndexSetCardinality
<1> QED
  BY <1>2 DEF S, calculateLWSUnreadyReplicas

\* The run of ready and updated groups at the tail is at most all of them.
LEMMA ContinuousReadyType ==
  ASSUME NEW states, NEW n \in Nat
  PROVE  calculateContinuousReadyReplicas(states, n) \in 0 .. n
<1> DEFINE S == {i \in 0 .. n-1 : \A j \in i .. n-1 : ReadyAndUpdated(states[j])}
<1>1. S \in SUBSET (0 .. n-1)
  OBVIOUS
<1> HIDE DEF S
<1>2. Cardinality(S) \in 0 .. n
  BY <1>1, IndexSetCardinality
<1> QED
  BY <1>2 DEF S, calculateContinuousReadyReplicas

\* The loop over unready groups ends between its floor and its start.
LEMMA LowerOverUnreadyBound ==
  ASSUME NEW states, NEW n \in Nat, NEW floor \in Nat, NEW from \in Nat, floor <= from
  PROVE  LowerOverUnready(states, n, from, floor) \in floor .. from
<1> DEFINE top       == Smaller(from, n - 1)
           reachable == {idx \in floor .. top :
                           \A j \in idx .. top : ~states[j].ready \/ states[j].updated}
<1>1. top \in Int /\ top <= from
  BY DEF Smaller
<1> HIDE DEF top
<1>2. reachable \in SUBSET Nat /\ reachable \subseteq floor .. from
  BY <1>1
<1>3. LowerOverUnready(states, n, from, floor) =
        IF reachable = {} THEN from
        ELSE CHOOSE idx \in reachable : \A other \in reachable : idx <= other
  BY DEF LowerOverUnready, top
<1> HIDE DEF reachable
<1>4. CASE reachable = {}
  BY <1>3, <1>4
<1>5. CASE reachable # {}
  <2>1. \E idx \in reachable : \A other \in reachable : idx <= other
    BY <1>2, <1>5, LeastNatural
  <2> QED
    BY <1>2, <1>3, <1>5, <2>1
<1> QED
  BY <1>4, <1>5

\* The partition of the next step is a natural number and never rises.
LEMMA RollingUpdatePartitionBound ==
  ASSUME NEW states, NEW n \in Nat, NEW step \in Int, NEW cur \in Nat
  PROVE  /\ rollingUpdatePartition(states, n, step, cur) \in Nat
         /\ rollingUpdatePartition(states, n, step, cur) <= cur
<1> DEFINE floor == RollingStepPartition(states, n, step)
           down  == {i \in 0 .. floor - 1 : ~states[i].ready}
           part  == LowerOverUnready(states, n, floor + Cardinality(down), floor)
<1>1. floor \in Nat
  BY ContinuousReadyType DEF RollingStepPartition, NonZeroValue
<1>2. rollingUpdatePartition(states, n, step, cur) = Smaller(part, cur)
  BY DEF rollingUpdatePartition
<1>3. down \in SUBSET (0 .. floor - 1)
  OBVIOUS
<1> HIDE DEF floor, down
<1>4. Cardinality(down) \in Nat
  BY <1>1, <1>3, IndexSetCardinality
<1>5. part \in floor .. floor + Cardinality(down)
  BY <1>1, <1>4, LowerOverUnreadyBound
<1>6. part \in Nat
  BY <1>1, <1>4, <1>5
<1> QED
  BY <1>2, <1>6 DEF Smaller

\* What rollingUpdateParameters returns: at least the replicas and at most the
\* burst; a partition not below the user's; a new rollout starts above every
\* old group, a running one never moves back.
LEMMA RollingUpdateParametersBound ==
  ASSUME NEW spec, NEW sts, NEW updated \in BOOLEAN, NEW states,
         spec.replicas \in Nat, spec.partition \in Nat,
         spec.maxSurge \in IntOrString, spec.maxUnavailable \in IntOrString,
         sts.replicas \in Nat, sts.partition \in Nat
  PROVE  LET result == rollingUpdateParameters(spec, sts, updated, states)
         IN  /\ result.replicas \in spec.replicas .. spec.replicas + MaxSurgeOf(spec, spec.replicas)
             /\ result.partition \in Nat
             /\ updated => result.partition >= Smaller(spec.replicas, sts.replicas)
             /\ ~updated /\ spec.partition <= sts.partition => result.partition <= sts.partition
<1> DEFINE native  == NativeParameters(spec, sts, updated, states)
           surge   == MaxSurgeOf(spec, spec.replicas)
           unav    == MaxUnavailableOf(spec, spec.replicas)
           unready == calculateLWSUnreadyReplicas(states, sts.replicas, spec.replicas)
           want(u) == calculateRollingUpdateReplicas(spec.replicas, surge, unav, u)
           step    == RollingStep(surge, unav, spec.replicas, sts.replicas)
           part    == rollingUpdatePartition(states, sts.replicas, step, sts.partition)
<1>1. surge \in Nat /\ surge <= spec.replicas
  BY MaxSurgeBound
<1>2. unav \in Nat
  BY MaxUnavailableType
<1>3. unready \in Nat
  BY UnreadyBound
<1>4. native =
        IF updated THEN
          [partition |-> Smaller(spec.replicas, sts.replicas),
           replicas  |-> IF sts.replicas < spec.replicas THEN spec.replicas ELSE want(spec.replicas)]
        ELSE IF RollingUpdateCompleted(spec, sts) THEN [partition |-> 0, replicas |-> spec.replicas]
        ELSE IF sts.replicas < spec.replicas THEN
          [partition |-> sts.partition, replicas |-> spec.replicas]
        ELSE IF sts.specReplicas # spec.replicas THEN
          [partition |-> Smaller(sts.partition, spec.replicas + surge), replicas |-> want(unready)]
        ELSE [partition |-> part, replicas |-> want(unready)]
  BY Zenon DEF NativeParameters
<1> HIDE DEF native, surge, unav, unready
<1>5. step \in Int
  BY <1>1, <1>2 DEF RollingStep
<1> HIDE DEF step
<1>6. part \in Nat /\ part <= sts.partition
  BY <1>5, RollingUpdatePartitionBound
<1>7. \A u \in Nat : want(u) \in spec.replicas .. spec.replicas + surge
  BY <1>1, <1>2, RollingUpdateReplicasBound
<1> HIDE DEF part, want
<1>8. /\ native.replicas \in spec.replicas .. spec.replicas + surge
      /\ native.partition \in Nat
      /\ updated => native.partition = Smaller(spec.replicas, sts.replicas)
      /\ ~updated => native.partition <= sts.partition
  <2>1. want(unready) \in spec.replicas .. spec.replicas + surge
    BY <1>3, <1>7
  <2>2. want(spec.replicas) \in spec.replicas .. spec.replicas + surge
    BY <1>7
  <2>3. spec.replicas \in spec.replicas .. spec.replicas + surge
    BY <1>1
  <2>4. /\ Smaller(spec.replicas, sts.replicas) \in Nat
        /\ Smaller(sts.partition, spec.replicas + surge) \in Nat
        /\ Smaller(sts.partition, spec.replicas + surge) <= sts.partition
    BY <1>1 DEF Smaller
  <2> QED
    BY <1>4, <1>6, <2>1, <2>2, <2>3, <2>4
<1>9. rollingUpdateParameters(spec, sts, updated, states)
        = [native EXCEPT !.partition = Larger(native.partition, spec.partition)]
  BY DEF rollingUpdateParameters, native
<1>10. native = [partition |-> native.partition, replicas |-> native.replicas]
  BY <1>4
<1>11. /\ rollingUpdateParameters(spec, sts, updated, states).replicas = native.replicas
       /\ rollingUpdateParameters(spec, sts, updated, states).partition
            = Larger(native.partition, spec.partition)
  BY <1>9, <1>10
<1> QED
  BY <1>8, <1>11 DEF Larger, surge

-----------------------------------------------------------------------------
(* The groups a step of a rollout puts at risk.                            *)

\* The groups counted by calculateContinuousReadyReplicas are the last ones.
LEMMA ContinuousTail ==
  ASSUME NEW states, NEW n \in Nat
  PROVE  \A j \in n - calculateContinuousReadyReplicas(states, n) .. n - 1 : ReadyAndUpdated(states[j])
<1> DEFINE S == {i \in 0 .. n-1 : \A j \in i .. n-1 : ReadyAndUpdated(states[j])}
           k == calculateContinuousReadyReplicas(states, n)
           T == n - k .. n - 1
<1>1. k \in 0 .. n /\ k = Cardinality(S)
  BY ContinuousReadyType DEF calculateContinuousReadyReplicas
<1>2. \A i \in S : ReadyAndUpdated(states[i])
  OBVIOUS
<1>3. ASSUME NEW i \in S PROVE i .. n - 1 \in SUBSET S
  OBVIOUS
<1>4. S \in SUBSET (0 .. n - 1)
  OBVIOUS
<1> HIDE DEF S, k
<1>5. IsFiniteSet(T) /\ Cardinality(T) = k
  <2>1. n - k \in Int /\ n - 1 \in Int
    BY <1>1
  <2>2. IsFiniteSet(T) /\ Cardinality(T) = IF n - k > n - 1 THEN 0 ELSE n - 1 - (n - k) + 1
    BY <2>1, FS_Interval
  <2> HIDE DEF T
  <2> QED
    BY <1>1, <2>2
<1>6. IsFiniteSet(S)
  <2>1. n - 1 \in Int /\ 0 \in Int
    OBVIOUS
  <2> QED
    BY <1>4, <2>1, FS_Interval, FS_Subset
<1>7. S \in SUBSET T
  <2> SUFFICES ASSUME NEW i \in S PROVE i \in T
    OBVIOUS
  <2>1. i \in 0 .. n - 1
    BY <1>4
  <2>2. Cardinality(i .. n - 1) = n - i
    <3>1. i \in Int /\ n - 1 \in Int
      BY <2>1
    <3> QED
      BY <2>1, <3>1, FS_Interval
  <2>3. Cardinality(i .. n - 1) <= Cardinality(S)
    BY <1>3, <1>6, FS_Subset
  <2> QED
    BY <1>1, <2>1, <2>2, <2>3
<1>8. S = T
  BY <1>1, <1>5, <1>7, FS_Subset
<1> QED
  BY <1>2, <1>8 DEF k

\* The next partition is the lowest one step may reach, or higher, unless the
\* current one is lower already.
LEMMA RollingUpdatePartitionFloor ==
  ASSUME NEW states, NEW n \in Nat, NEW step \in Int, NEW cur \in Nat,
         rollingUpdatePartition(states, n, step, cur) < cur
  PROVE  rollingUpdatePartition(states, n, step, cur)
           >= n - calculateContinuousReadyReplicas(states, n) - step
<1> DEFINE floor == RollingStepPartition(states, n, step)
           down  == {i \in 0 .. floor - 1 : ~states[i].ready}
           part  == LowerOverUnready(states, n, floor + Cardinality(down), floor)
           tail  == calculateContinuousReadyReplicas(states, n)
<1>1. tail \in 0 .. n
  BY ContinuousReadyType
<1>2. floor = NonZeroValue(n - tail - step)
  BY DEF RollingStepPartition
<1>3. rollingUpdatePartition(states, n, step, cur) = Smaller(part, cur)
  BY DEF rollingUpdatePartition
<1>4. down \in SUBSET (0 .. floor - 1)
  OBVIOUS
<1> HIDE DEF floor, down, tail
<1>5. floor \in Nat /\ floor >= n - tail - step
  BY <1>1, <1>2 DEF NonZeroValue
<1>6. Cardinality(down) \in Nat
  BY <1>4, <1>5, IndexSetCardinality
<1>7. part \in floor .. floor + Cardinality(down)
  BY <1>5, <1>6, LowerOverUnreadyBound
<1> HIDE DEF part
<1>8. part \in Int /\ part >= n - tail - step
  BY <1>1, <1>5, <1>6, <1>7
<1> QED
  BY <1>1, <1>3, <1>8 DEF Smaller, tail

\* From the partition of the next step up, at most rollingStep groups are not
\* ready and updated.
LEMMA RollingStepBatch ==
  ASSUME NEW states, NEW n \in Nat, NEW step \in Nat, NEW part \in Nat,
         part >= n - calculateContinuousReadyReplicas(states, n) - step
  PROVE  Cardinality({i \in part .. n - 1 : ~ReadyAndUpdated(states[i])}) <= step
<1> DEFINE B    == {i \in part .. n - 1 : ~ReadyAndUpdated(states[i])}
           tail == calculateContinuousReadyReplicas(states, n)
           I    == part .. n - tail - 1
<1>1. tail \in 0 .. n
  BY ContinuousReadyType
<1>2. \A j \in n - tail .. n - 1 : ReadyAndUpdated(states[j])
  BY ContinuousTail
<1>3. part >= n - tail - step
  OBVIOUS
<1> HIDE DEF tail
<1>4. B \in SUBSET I
  BY <1>1, <1>2
<1> HIDE DEF B
<1>5. IsFiniteSet(I) /\ Cardinality(I) <= step
  <2>1. n - tail - 1 \in Int /\ part \in Int
    BY <1>1
  <2>2. IsFiniteSet(I) /\ Cardinality(I) = IF part > n - tail - 1 THEN 0 ELSE n - tail - 1 - part + 1
    BY <2>1, FS_Interval
  <2> QED
    BY <1>1, <1>3, <2>2
<1>6. IsFiniteSet(B) /\ Cardinality(B) <= Cardinality(I)
  BY <1>4, <1>5, FS_Subset
<1>7. Cardinality(B) \in Nat /\ Cardinality(I) \in Nat
  BY <1>5, <1>6, FS_CardinalityType
<1> QED
  BY <1>5, <1>6, <1>7 DEF B

\* The most groups a rollout keeps are those it wants while none is updated.
LEMMA MostReplicas ==
  ASSUME NEW lws \in Nat, NEW surge \in 0 .. lws, NEW unavailable \in Nat, NEW unready \in 0 .. lws
  PROVE  calculateRollingUpdateReplicas(lws, surge, unavailable, unready)
           <= calculateRollingUpdateReplicas(lws, surge, unavailable, lws)
  BY DEF calculateRollingUpdateReplicas, NonZeroValue

\* How rollingUpdateParameters may lower the partition of a running rollout:
\* past all the groups it keeps, or by one rolling step.  It never wants more
\* groups than at the start of a rollout.
LEMMA RollingUpdateLowers ==
  ASSUME NEW spec, NEW sts, NEW updated \in BOOLEAN, NEW states,
         spec.replicas \in Nat, spec.partition \in Nat,
         spec.maxSurge \in IntOrString, spec.maxUnavailable \in IntOrString,
         sts.replicas \in Nat, sts.partition \in Nat
  PROVE  LET result  == rollingUpdateParameters(spec, sts, updated, states)
             surge   == MaxSurgeOf(spec, spec.replicas)
             unav    == MaxUnavailableOf(spec, spec.replicas)
             want(u) == calculateRollingUpdateReplicas(spec.replicas, surge, unav, u)
             tail    == calculateContinuousReadyReplicas(states, sts.replicas)
         IN  /\ result.replicas <= want(spec.replicas)
             /\ ~updated /\ result.partition < sts.partition /\ result.partition < result.replicas =>
                  /\ sts.replicas >= spec.replicas /\ sts.specReplicas = spec.replicas
                  /\ result.replicas
                       = want(calculateLWSUnreadyReplicas(states, sts.replicas, spec.replicas))
                  /\ result.partition
                       >= sts.replicas - tail - (unav + (sts.replicas - spec.replicas))
<1> DEFINE result  == rollingUpdateParameters(spec, sts, updated, states)
           native  == NativeParameters(spec, sts, updated, states)
           surge   == MaxSurgeOf(spec, spec.replicas)
           unav    == MaxUnavailableOf(spec, spec.replicas)
           unready == calculateLWSUnreadyReplicas(states, sts.replicas, spec.replicas)
           want(u) == calculateRollingUpdateReplicas(spec.replicas, surge, unav, u)
           tail    == calculateContinuousReadyReplicas(states, sts.replicas)
           step    == RollingStep(surge, unav, spec.replicas, sts.replicas)
           part    == rollingUpdatePartition(states, sts.replicas, step, sts.partition)
           top     == Smaller(sts.partition, spec.replicas + surge)
<1>1. surge \in 0 .. spec.replicas
  BY MaxSurgeBound
<1>2. unav \in Nat
  BY MaxUnavailableType
<1>3. unready \in 0 .. spec.replicas
  BY UnreadyBound
<1>4. native =
        IF updated THEN
          [partition |-> Smaller(spec.replicas, sts.replicas),
           replicas  |-> IF sts.replicas < spec.replicas THEN spec.replicas ELSE want(spec.replicas)]
        ELSE IF RollingUpdateCompleted(spec, sts) THEN [partition |-> 0, replicas |-> spec.replicas]
        ELSE IF sts.replicas < spec.replicas THEN
          [partition |-> sts.partition, replicas |-> spec.replicas]
        ELSE IF sts.specReplicas # spec.replicas THEN
          [partition |-> top, replicas |-> want(unready)]
        ELSE [partition |-> part, replicas |-> want(unready)]
  BY Zenon DEF NativeParameters
<1>5. result = [native EXCEPT !.partition = Larger(native.partition, spec.partition)]
  BY DEF rollingUpdateParameters
<1>6. tail \in 0 .. sts.replicas
  BY ContinuousReadyType
<1> HIDE DEF native, surge, unav, unready, tail, result
<1>7. step \in Int /\ step = unav + (sts.replicas - spec.replicas)
  BY <1>1, <1>2 DEF RollingStep
<1> HIDE DEF step
<1>8. /\ part \in Nat /\ part <= sts.partition
      /\ part < sts.partition => part >= sts.replicas - tail - step
  BY <1>7, RollingUpdatePartitionBound, RollingUpdatePartitionFloor DEF tail
<1>9. /\ want(spec.replicas) \in spec.replicas .. spec.replicas + surge
      /\ want(unready) \in spec.replicas .. spec.replicas + surge
      /\ want(unready) <= want(spec.replicas)
  <2>1. surge \in Nat /\ unready \in Nat
    BY <1>1, <1>3
  <2>2. want(spec.replicas) \in spec.replicas .. spec.replicas + surge
    BY <1>2, <2>1, RollingUpdateReplicasBound
  <2>3. want(unready) \in spec.replicas .. spec.replicas + surge
    BY <1>2, <2>1, RollingUpdateReplicasBound
  <2>4. want(unready) <= want(spec.replicas)
    BY <1>1, <1>2, <1>3, MostReplicas
  <2> HIDE DEF want
  <2> QED
    BY <2>2, <2>3, <2>4
<1> HIDE DEF part, want
<1>10. /\ result.replicas = native.replicas
       /\ result.partition = Larger(native.partition, spec.partition)
  <2>1. native = [partition |-> native.partition, replicas |-> native.replicas]
    BY <1>4
  <2> QED
    BY <1>5, <2>1
<1>11. top \in Nat /\ (top = sts.partition \/ top = spec.replicas + surge)
  BY <1>1 DEF Smaller
<1> HIDE DEF top
<1>12. native.replicas <= want(spec.replicas)
  <2>1. spec.replicas <= want(spec.replicas) /\ want(spec.replicas) <= want(spec.replicas)
    BY <1>1, <1>9
  <2> QED
    BY <1>4, <1>9, <2>1
<1>13. ASSUME ~updated, result.partition < sts.partition, result.partition < result.replicas
       PROVE  /\ sts.replicas >= spec.replicas /\ sts.specReplicas = spec.replicas
              /\ result.replicas = want(unready)
              /\ result.partition >= sts.replicas - tail - step
  <2>1. CASE RollingUpdateCompleted(spec, sts)
    <3>1. native.partition = 0 /\ sts.partition = 0
      BY <1>4, <1>13, <2>1 DEF RollingUpdateCompleted
    <3> QED
      BY <1>10, <1>13, <3>1 DEF Larger
  <2>2. CASE ~RollingUpdateCompleted(spec, sts) /\ sts.replicas < spec.replicas
    <3>1. native.partition = sts.partition
      BY <1>4, <1>13, <2>2
    <3> QED
      BY <1>10, <1>13, <3>1 DEF Larger
  <2>3. CASE /\ ~RollingUpdateCompleted(spec, sts) /\ ~(sts.replicas < spec.replicas)
             /\ sts.specReplicas # spec.replicas
    <3>1. native.partition = top /\ native.replicas = want(unready)
      BY <1>4, <1>13, <2>3
    <3> QED
      BY <1>1, <1>9, <1>10, <1>11, <1>13, <3>1 DEF Larger
  <2>4. CASE /\ ~RollingUpdateCompleted(spec, sts) /\ ~(sts.replicas < spec.replicas)
             /\ sts.specReplicas = spec.replicas
    <3>1. native.partition = part /\ native.replicas = want(unready)
      BY <1>4, <1>13, <2>4
    <3> QED
      BY <1>6, <1>7, <1>8, <1>10, <1>13, <2>4, <3>1 DEF Larger
  <2> QED
    BY <2>1, <2>2, <2>3, <2>4
<1>14. result.replicas <= want(spec.replicas)
  BY <1>10, <1>12
<1> QED
  BY <1>7, <1>13, <1>14, Zenon DEF result, surge, unav, unready, tail, want

=============================================================================
