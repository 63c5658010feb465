-------------------------- MODULE ChildWritesProofs --------------------------
(***************************************************************************)
(* The invariant of ChildWrites, for all sets of children and counts, all  *)
(* plans, and any number of lost answers, restarts and events: which       *)
(* requests may still take effect.                                         *)
(***************************************************************************)
EXTENDS ChildWrites, SumProofs

-----------------------------------------------------------------------------
(* The inductive invariant.                                                *)

\* Requests and expectations that carry a version of an existing child.
Entries == {e.write : e \in writes}
Conditional(S) == {w \in S : w.op # "create"}

\* The API server holds a newer version than the request needs.
Spent(w) == w.version < actual(w.key).version

\* A UID is the version that a child was created by, and a receipt is older than
\* the version that carries it.
Sound(c) == /\ c.uid <= c.version
            /\ c.lost => c.deleting
            /\ live(c) => c.receipt.version < c.version

\* Versions grow.
LogInv == \A k \in Keys :
  /\ \A i, j \in 1 .. Len(log[k]) : i < j => log[k][i].version < log[k][j].version
  /\ \A i \in 1 .. Len(log[k]) : Sound(log[k][i]) /\ log[k][i].receipt.epoch <= epoch

\* A request was made from a version that the cache has shown: while that is
\* still the version in the cache, it is the live child the request is about.
Good(w) ==
  IF w.op = "create" THEN w.to = 0 /\ w.version = 0
  ELSE /\ w.uid <= w.version /\ w.version <= cached(w.key).version
       /\ w.version = cached(w.key).version =>
            /\ cached(w.key).uid = w.uid /\ live(cached(w.key))
            /\ cached(w.key).replicas = w.from /\ cached(w.key).receipt # w
       /\ w.op = "touch" => w.to = w.from

RequestInv == /\ \A w \in requests \cup todo \cup Entries : Good(w)
              /\ \A w \in requests : w.epoch <= epoch
              /\ \A w \in todo \cup Entries : w.epoch = epoch

\* The controller waits for at most one write to a child, and sends no other.
OneOutstanding == /\ \A e, f \in writes : e.write.key = f.write.key => e = f
                  /\ \A e \in writes, w \in todo : e.write.key # w.key

\* A request of this process that may still take effect is waited for.
OwnInv == \A w \in Conditional(requests) : w.epoch = epoch => Entry(w, TRUE) \in writes \/ Spent(w)

\* The versions that this process wrote are newer than the one a request needs.
Overtaken(w) == \A i \in 1 .. Len(log[w.key]) :
  log[w.key][i].receipt.epoch = epoch => w.version < log[w.key][i].version

\* A request of an earlier process cannot take effect on a child that was taken
\* over, nor on a version that this process wrote.
TakenOverInv == \A w \in Conditional(requests) : w.epoch < epoch =>
  /\ Child(w.key, w.uid) \in initialized => Spent(w)
  /\ Overtaken(w)

\* No earlier write may take effect while a plan is carried out.
PlanInv == (\E w \in todo : w.op \in {"create", "scale"}) => \A w \in Conditional(Unanswered) : Spent(w)

WritesInv == LogInv /\ RequestInv /\ OneOutstanding /\ OwnInv /\ TakenOverInv /\ PlanInv

-----------------------------------------------------------------------------
(* Logs.                                                                   *)

LEMMA LogType ==
  ASSUME TypeOK, NEW k \in Keys
  PROVE  /\ log[k] \in Seq(Version) /\ Len(log[k]) \in Nat /\ Len(log[k]) >= 1
         /\ \A i \in 1 .. Len(log[k]) : log[k][i] \in Version
         /\ cached(k) = log[k][1] /\ cached(k) \in Version /\ actual(k) \in Version
BY DEF TypeOK, cached, actual

\* A new version is put at the end.
LEMMA AppendedLog ==
  ASSUME TypeOK, NEW k \in Keys, NEW c \in Version, log' = Appended(k, c)
  PROVE  /\ log' \in [Keys -> Seq(Version) \ {<<>>}]
         /\ \A j \in Keys \ {k} : log'[j] = log[j]
         /\ Len(log'[k]) = Len(log[k]) + 1
         /\ \A i \in 1 .. Len(log[k]) : log'[k][i] = log[k][i]
         /\ log'[k][Len(log[k]) + 1] = c
         /\ \A j \in Keys : cached(j)' = cached(j)
         /\ \A j \in Keys \ {k} : actual(j)' = actual(j)
         /\ actual(k)' = c
<1>1. log \in [Keys -> Seq(Version) \ {<<>>}] /\ log[k] \in Seq(Version) /\ Len(log[k]) \in Nat /\ Len(log[k]) >= 1
  BY LogType DEF TypeOK
<1> DEFINE s == Append(log[k], c)
<1>2. s \in Seq(Version) /\ Len(s) = Len(log[k]) + 1 /\ s # <<>>
      /\ (\A i \in 1 .. Len(log[k]) : s[i] = log[k][i]) /\ s[Len(log[k]) + 1] = c
  BY <1>1
<1>3. log' = [log EXCEPT ![k] = s]
  BY DEF Appended
<1> HIDE DEF s
<1>4. log'[k] = s /\ (\A j \in Keys \ {k} : log'[j] = log[j]) /\ log' \in [Keys -> Seq(Version) \ {<<>>}]
  BY <1>1, <1>2, <1>3
<1>5. \A j \in Keys \ {k} : cached(j)' = cached(j) /\ actual(j)' = actual(j)
  BY <1>4 DEF cached, actual
<1>6. cached(k)' = cached(k)
  <2>1. Head(s) = s[1] /\ Head(log[k]) = log[k][1]
    BY <1>1, <1>2
  <2> QED
    BY <1>1, <1>2, <1>4, <2>1 DEF cached
<1>7. actual(k)' = c
  BY <1>2, <1>4 DEF actual
<1> QED
  BY <1>2, <1>4, <1>5, <1>6, <1>7

\* The informer moves one version on.
LEMMA ObservedLog ==
  ASSUME TypeOK, NEW k \in Keys, Observe(k)
  PROVE  /\ log' \in [Keys -> Seq(Version) \ {<<>>}]
         /\ \A j \in Keys \ {k} : log'[j] = log[j]
         /\ Len(log[k]) > 1 /\ Len(log'[k]) = Len(log[k]) - 1
         /\ \A i \in 1 .. Len(log[k]) - 1 : log'[k][i] = log[k][i + 1]
         /\ \A j \in Keys \ {k} : cached(j)' = cached(j)
         /\ cached(k)' = log[k][2]
         /\ \A j \in Keys : actual(j)' = actual(j)
<1>1. log \in [Keys -> Seq(Version) \ {<<>>}] /\ log[k] \in Seq(Version) /\ Len(log[k]) \in Nat /\ Len(log[k]) > 1
  BY LogType DEF TypeOK, Observe
<1> DEFINE s == Tail(log[k])
<1>2. s \in Seq(Version) /\ Len(s) = Len(log[k]) - 1 /\ s # <<>>
      /\ \A i \in 1 .. Len(log[k]) - 1 : s[i] = log[k][i + 1]
  <2>1. log[k] # <<>>
    BY <1>1
  <2>2. s \in Seq(Version) /\ Len(s) = Len(log[k]) - 1
    BY <1>1, <2>1
  <2>3. \A i \in 1 .. Len(log[k]) - 1 : s[i] = log[k][i + 1]
    BY <1>1, <2>1
  <2>4. s # <<>>
    <3> HIDE DEF s
    <3> DEFINE n == Len(log[k])
    <3>1. n \in Nat /\ n > 1 /\ Len(s) = n - 1
      BY <1>1, <2>2
    <3> HIDE DEF n
    <3>2. Len(s) # 0
      BY <3>1
    <3> QED
      BY <3>2
  <2> QED
    BY <2>2, <2>3, <2>4
<1>3. log' = [log EXCEPT ![k] = s]
  BY DEF Observe
<1> HIDE DEF s
<1>4. log'[k] = s /\ (\A j \in Keys \ {k} : log'[j] = log[j]) /\ log' \in [Keys -> Seq(Version) \ {<<>>}]
  BY <1>1, <1>2, <1>3
<1>5. \A j \in Keys \ {k} : cached(j)' = cached(j) /\ actual(j)' = actual(j)
  BY <1>4 DEF cached, actual
<1>6. cached(k)' = log[k][2]
  <2>1. Head(s) = s[1]
    BY <1>1, <1>2
  <2> QED
    BY <1>1, <1>2, <1>4, <2>1 DEF cached
<1>7. actual(k)' = actual(k)
  BY <1>1, <1>2, <1>4 DEF actual
<1> QED
  BY <1>1, <1>2, <1>4, <1>5, <1>6, <1>7

\* The cache of a new process holds what the API server holds.
LEMMA RestartedLog ==
  ASSUME TypeOK, Restart
  PROVE  /\ log' \in [Keys -> Seq(Version) \ {<<>>}]
         /\ \A k \in Keys : /\ Len(log'[k]) = 1 /\ log'[k][1] = actual(k)
                            /\ cached(k)' = actual(k) /\ actual(k)' = actual(k)
<1>1. \A k \in Keys : actual(k) \in Version /\ log'[k] = <<actual(k)>>
  BY LogType DEF Restart
<1>2. \A k \in Keys : cached(k)' = actual(k) /\ actual(k)' = actual(k)
  BY <1>1 DEF cached, actual
<1>3. log' = [k \in Keys |-> <<actual(k)>>]
  BY DEF Restart
<1> QED
  BY <1>1, <1>2, <1>3

\* The cache shows the oldest version, the API server holds the newest.
LEMMA LogOrder ==
  ASSUME TypeOK, LogInv, NEW k \in Keys
  PROVE  /\ cached(k).version \in Nat /\ actual(k).version \in Nat
         /\ \A i \in 1 .. Len(log[k]) : /\ log[k][i].version \in Nat
                                        /\ cached(k).version <= log[k][i].version
                                        /\ log[k][i].version <= actual(k).version
         /\ cached(k).version = actual(k).version => Len(log[k]) = 1 /\ cached(k) = actual(k)
<1>1. /\ Len(log[k]) \in Nat /\ Len(log[k]) >= 1 /\ cached(k) = log[k][1] /\ actual(k) = log[k][Len(log[k])]
      /\ \A i \in 1 .. Len(log[k]) : log[k][i].version \in Nat
  BY LogType DEF Version, actual
<1>2. \A i, j \in 1 .. Len(log[k]) : i < j => log[k][i].version < log[k][j].version
  BY DEF LogInv
<1>3. ASSUME NEW i \in 1 .. Len(log[k])
      PROVE  cached(k).version <= log[k][i].version /\ log[k][i].version <= actual(k).version
  <2>1. i = 1 \/ 1 < i
    OBVIOUS
  <2>2. i = Len(log[k]) \/ i < Len(log[k])
    BY <1>1
  <2> QED
    BY <1>1, <1>2, <2>1, <2>2
<1>4. cached(k).version = actual(k).version => Len(log[k]) = 1
  <2>1. 1 \in 1 .. Len(log[k]) /\ Len(log[k]) \in 1 .. Len(log[k])
    BY <1>1
  <2>2. 1 < Len(log[k]) => cached(k).version < actual(k).version
    BY <1>1, <1>2, <2>1
  <2>3. cached(k).version \in Nat /\ actual(k).version \in Nat
    BY <1>1, <2>1
  <2> DEFINE n == Len(log[k])
             a == cached(k).version
             b == actual(k).version
  <2>4. n \in Nat /\ n >= 1 /\ a \in Nat /\ b \in Nat /\ (1 < n => a < b)
    BY <1>1, <2>2, <2>3
  <2> HIDE DEF n, a, b
  <2>5. a = b => n = 1
    BY <2>4
  <2> QED
    BY <2>5 DEF n, a, b
<1> QED
  BY <1>1, <1>3, <1>4

-----------------------------------------------------------------------------
(* Writes.                                                                 *)

\* The versions that a write leads to.
LEMMA WrittenType ==
  ASSUME TypeOK, NEW w \in Write
  PROVE  LET c == actual(w.key)
             d == Written(w)
         IN  /\ d \in Version /\ d.version = c.version + 1
             /\ w.op = "create" => /\ d.uid = c.version + 1 /\ d.replicas = 0 /\ d.receipt = w
                                   /\ ~d.deleting /\ ~d.lost
             /\ w.op = "delete" => /\ d.uid = c.uid /\ d.receipt = c.receipt /\ d.deleting /\ d.lost = c.lost
             /\ w.op \in {"scale", "touch"} => /\ d.uid = c.uid /\ d.replicas = w.to /\ d.receipt = w
                                               /\ d.deleting = c.deleting /\ d.lost = c.lost
<1> DEFINE c == actual(w.key)
<1>1. w.key \in Keys /\ w.op \in {"create", "delete", "scale", "touch"} /\ w.to \in Counts
  BY DEF Write
<1>2. c \in Version
  BY <1>1, LogType
<1> HIDE DEF c
<1>3. CASE w.op = "create"
  <2>1. Written(w) = [Absent(c.version + 1) EXCEPT !.uid = c.version + 1, !.receipt = w, !.unscaled = TRUE]
    BY <1>3 DEF Written, c
  <2>2. w \in Receipt /\ c.version + 1 \in Nat /\ 0 \in Counts
    BY <1>2, <1>3, CountsAssumption DEF Write, Receipt, Version
  <2>3. Written(w) = [uid |-> c.version + 1, version |-> c.version + 1, replicas |-> 0, receipt |-> w,
                      unscaled |-> TRUE, deleting |-> FALSE, lost |-> FALSE]
    BY <2>1, Zenon DEF Absent
  <2> QED
    BY <1>3, <2>2, <2>3 DEF Version, c
<1>4. CASE w.op = "delete"
  <2>1. Written(w) = [c EXCEPT !.version = @ + 1, !.deleting = TRUE]
    BY <1>4 DEF Written, c
  <2> DEFINE d == Written(w)
  <2>2. /\ d \in Version /\ d.version = c.version + 1
        /\ d.uid = c.uid /\ d.receipt = c.receipt /\ d.deleting /\ d.lost = c.lost
    <3>1. c.version + 1 \in Nat
      BY <1>2 DEF Version
    <3> QED
      BY <1>2, <2>1, <3>1, Zenon DEF Version
  <2> QED
    BY <1>4, <2>2 DEF c
<1>5. CASE w.op \in {"scale", "touch"}
  <2>1. Written(w) = [c EXCEPT !.version = @ + 1, !.replicas = w.to, !.receipt = w, !.unscaled = @ /\ w.to = 0]
    BY <1>5 DEF Written, c
  <2>2. w \in Receipt
    BY <1>5 DEF Write, Receipt
  <2> DEFINE d == Written(w)
  <2>3. /\ d \in Version /\ d.version = c.version + 1
        /\ d.uid = c.uid /\ d.replicas = w.to /\ d.receipt = w /\ d.deleting = c.deleting /\ d.lost = c.lost
    <3>1. c.version + 1 \in Nat /\ (c.unscaled /\ w.to = 0) \in BOOLEAN
      BY <1>2 DEF Version
    <3> QED
      BY <1>1, <1>2, <2>1, <2>2, <3>1, Zenon DEF Version
  <2> QED
    BY <1>5, <2>3 DEF c
<1> QED
  BY <1>1, <1>3, <1>4, <1>5

\* A write to an existing child is allowed only while the cache shows what the
\* API server holds.
LEMMA AllowedNow ==
  ASSUME TypeOK, LogInv, NEW w \in Write, w.op # "create", Good(w), Allowed(w)
  PROVE  /\ Len(log[w.key]) = 1 /\ cached(w.key) = actual(w.key)
         /\ live(actual(w.key)) /\ ~actual(w.key).lost
         /\ actual(w.key).uid = w.uid /\ actual(w.key).version = w.version
         /\ actual(w.key).replicas = w.from
<1> DEFINE k == w.key
<1>1. k \in Keys
  BY DEF Write
<1>2. /\ cached(k).version \in Nat /\ actual(k).version \in Nat
      /\ cached(k).version <= actual(k).version
      /\ cached(k).version = actual(k).version => Len(log[k]) = 1 /\ cached(k) = actual(k)
  BY <1>1, LogOrder, LogType
<1>3. w.version = actual(k).version /\ w.version <= cached(k).version
  BY DEF Allowed, Good
<1>4. cached(k).version = actual(k).version
  BY <1>2, <1>3
<1>5. Sound(actual(k))
  <2>1. Len(log[k]) \in 1 .. Len(log[k])
    BY <1>1, LogType
  <2> QED
    BY <1>1, <2>1 DEF LogInv, actual
<1> QED
  BY <1>2, <1>3, <1>4, <1>5, Zenon DEF Good, Sound, live

\* What a write that is allowed makes of its child.
LEMMA WrittenSound ==
  ASSUME TypeOK, LogInv, NEW w \in Write, Good(w), Allowed(w), w.epoch <= epoch
  PROVE  /\ Sound(Written(w)) /\ ~Written(w).lost /\ Written(w).receipt.epoch <= epoch
         /\ w.op = "create" => count(actual(w.key)) = None /\ count(Written(w)) = 0
         /\ w.op = "delete" => count(Written(w)) = None
         /\ w.op = "scale" => count(Written(w)) = w.to
         /\ w.op = "touch" => count(Written(w)) = count(actual(w.key))
<1> DEFINE c == actual(w.key)
           d == Written(w)
<1>1. w.key \in Keys /\ w.op \in {"create", "delete", "scale", "touch"} /\ w.version \in Nat
  BY DEF Write
<1>2. c \in Version /\ Sound(c) /\ c.receipt.epoch <= epoch
  <2>1. Len(log[w.key]) \in 1 .. Len(log[w.key])
    BY <1>1, LogType
  <2> QED
    BY <1>1, <2>1, LogType DEF LogInv, actual
<1>3. c.version \in Nat /\ c.uid \in Nat /\ epoch \in Nat
  BY <1>2 DEF Version, TypeOK
<1>4. CASE w.op = "create"
  <2>1. d.version = c.version + 1 /\ d.uid = c.version + 1 /\ d.replicas = 0 /\ d.receipt = w /\ ~d.deleting /\ ~d.lost
    BY <1>4, WrittenType
  <2>2. w.version = 0 /\ ~exists(c)
    BY <1>4, Zenon DEF Good, Allowed
  <2> HIDE DEF c, d
  <2>3. Sound(d)
    BY <1>3, <2>1, <2>2 DEF Sound
  <2>4. count(c) = None /\ count(d) = 0
    BY <1>3, <2>1, <2>2 DEF count, live, exists
  <2> QED
    BY <1>4, <2>1, <2>3, <2>4 DEF c, d
<1>5. CASE w.op # "create"
  <2>1. live(c) /\ ~c.lost /\ c.uid = w.uid /\ c.version = w.version /\ c.replicas = w.from
    BY <1>5, AllowedNow
  <2>2. CASE w.op = "delete"
    <3>1. d.version = c.version + 1 /\ d.uid = c.uid /\ d.receipt = c.receipt /\ d.deleting /\ d.lost = c.lost
      BY <2>2, WrittenType
    <3> HIDE DEF c, d
    <3> QED
      BY <1>2, <1>3, <2>1, <2>2, <3>1 DEF Sound, count, live, exists, d
  <2>3. CASE w.op \in {"scale", "touch"}
    <3>1. /\ d.version = c.version + 1 /\ d.uid = c.uid /\ d.replicas = w.to /\ d.receipt = w
          /\ d.deleting = c.deleting /\ d.lost = c.lost
      BY <2>3, WrittenType
    <3>2. w.op = "touch" => w.to = w.from
      BY <1>5 DEF Good
    <3> HIDE DEF c, d
    <3>3. Sound(d)
      BY <1>1, <1>2, <1>3, <2>1, <3>1 DEF Sound
    <3>4. count(d) = w.to /\ count(c) = w.from
      BY <2>1, <3>1 DEF count, live, exists
    <3> QED
      BY <2>1, <2>3, <3>1, <3>2, <3>3, <3>4 DEF c, d
  <2> QED
    BY <1>1, <1>5, <2>2, <2>3
<1> QED
  BY <1>4, <1>5

-----------------------------------------------------------------------------
(* Requests.                                                               *)

\* A request made from a live child in the cache is good.
LEMMA RequestGood ==
  ASSUME TypeOK, LogInv, NEW k \in Keys, live(cached(k)),
         NEW op \in {"delete", "scale", "touch"}, NEW to \in Counts, op = "touch" => to = cached(k).replicas
  PROVE  /\ Request(k, op, to) \in Write /\ Good(Request(k, op, to))
         /\ Request(k, op, to).key = k /\ Request(k, op, to).op = op /\ Request(k, op, to).to = to
         /\ Request(k, op, to).epoch = epoch
<1> DEFINE c == cached(k)
           w == Request(k, op, to)
<1>1. c \in Version /\ Sound(c)
  <2>1. 1 \in 1 .. Len(log[k])
    BY LogType
  <2> QED
    BY <2>1, LogType DEF LogInv
<1>2. w = [key |-> k, op |-> op, from |-> c.replicas, to |-> to, uid |-> c.uid, version |-> c.version,
           epoch |-> epoch]
  BY DEF Request
<1> HIDE DEF w
<1>3. w \in Write
  BY <1>1, <1>2 DEF Write, Version, TypeOK
<1>4. w.key = k /\ w.op = op /\ w.from = c.replicas /\ w.to = to /\ w.uid = c.uid /\ w.version = c.version
      /\ w.epoch = epoch
  BY <1>2
<1>5. c.receipt # w /\ c.uid <= c.version /\ c.version \in Nat
  BY <1>1, <1>4 DEF Sound, Version
<1> HIDE DEF c
<1>6. Good(w)
  BY <1>4, <1>5 DEF Good, c
<1> QED
  BY <1>3, <1>4, <1>6 DEF w

LEMMA CreateGood ==
  ASSUME TypeOK, NEW k \in Keys
  PROVE  /\ CreateRequest(k) \in Write /\ Good(CreateRequest(k))
         /\ CreateRequest(k).key = k /\ CreateRequest(k).op = "create" /\ CreateRequest(k).to = 0
         /\ CreateRequest(k).epoch = epoch
<1> DEFINE n == [key |-> None, op |-> "none", from |-> 0, to |-> 0, uid |-> 0, version |-> 0, epoch |-> 0]
<1>2. CreateRequest(k) = [n EXCEPT !.key = k, !.op = "create", !.epoch = epoch]
  BY DEF CreateRequest, NoWrite
<1> DEFINE R == [key : Keys \cup {None}, op : {"none", "create"}, from : Counts, to : Counts, uid : Nat,
                 version : Nat, epoch : Nat]
<1>3. n \in R /\ epoch \in Nat
  BY CountsAssumption DEF TypeOK
<1>4. n.from = 0 /\ n.to = 0 /\ n.uid = 0 /\ n.version = 0
  OBVIOUS
<1> HIDE DEF n
<1>1. /\ CreateRequest(k) \in R
      /\ CreateRequest(k).key = k /\ CreateRequest(k).op = "create" /\ CreateRequest(k).epoch = epoch
      /\ CreateRequest(k).from = 0 /\ CreateRequest(k).to = 0 /\ CreateRequest(k).uid = 0
      /\ CreateRequest(k).version = 0
  BY <1>2, <1>3, <1>4, Zenon
<1> QED
  BY <1>1, CountsAssumption DEF Write, Good, TypeOK

\* The view that a plan is made from, and the requests it becomes.
LEMMA PlannedGood ==
  ASSUME TypeOK, LogInv,
         NEW step \in Plans([k \in Keys |-> count(cached(k))], goal), NEW w \in step
  PROVE  /\ [k \in Keys |-> count(cached(k))] \in [Keys -> Counts \cup {None}]
         /\ Planned(w) \in Write /\ Good(Planned(w)) /\ Planned(w).epoch = epoch
         /\ Planned(w).op = "delete" => w = [key |-> Planned(w).key, to |-> None]
         /\ Planned(w).op \in {"create", "scale"} => w = [key |-> Planned(w).key, to |-> Planned(w).to]
         /\ Planned(w).op # "touch"
<1> DEFINE view == [k \in Keys |-> count(cached(k))]
<1>1. \A k \in Keys : count(cached(k)) \in Counts \cup {None}
  BY LogType, Zenon DEF count, Version
<1>2. view \in [Keys -> Counts \cup {None}] /\ goal \in Goals
  BY <1>1 DEF TypeOK
<1>3. w \in [key : Keys, to : Counts \cup {None}] /\ (view[w.key] = None => w.to = 0)
  <2> HIDE DEF view
  <2>1. step \in Plans(view, goal)
    BY DEF view
  <2> QED
    BY <1>2, <2>1, PlansAssumption
<1>4. w.key \in Keys /\ w = [key |-> w.key, to |-> w.to] /\ view[w.key] = count(cached(w.key))
  BY <1>3
<1>5. None # 0 /\ 0 \in Counts /\ None \notin Counts
  BY CountsAssumption
<1> HIDE DEF view
<1>6. CASE w.to = None
  <2>1. live(cached(w.key))
    BY <1>3, <1>4, <1>5, <1>6 DEF count
  <2>2. Planned(w) = Request(w.key, "delete", 0)
    BY <1>6 DEF Planned
  <2> QED
    BY <1>2, <1>4, <1>5, <1>6, <2>1, <2>2, RequestGood DEF view
<1>7. CASE w.to # None /\ count(cached(w.key)) = None
  <2>1. Planned(w) = CreateRequest(w.key) /\ w.to = 0
    BY <1>3, <1>4, <1>7 DEF Planned
  <2> QED
    BY <1>2, <1>4, <2>1, CreateGood DEF view
<1>8. CASE w.to # None /\ count(cached(w.key)) # None
  <2>1. live(cached(w.key)) /\ w.to \in Counts
    BY <1>3, <1>8 DEF count
  <2>2. Planned(w) = Request(w.key, "scale", w.to)
    BY <1>8 DEF Planned
  <2> QED
    BY <1>2, <1>4, <2>1, <2>2, RequestGood DEF view
<1> QED
  BY <1>6, <1>7, <1>8

Applied(w) == Allowed(w) /\ log' = Appended(w.key, Written(w))

\* Sending a write: it is applied, given up, or left without an answer.
LEMMA SendCases ==
  ASSUME TypeOK, LogInv, RequestInv, NEW w \in todo, Send(w)
  PROVE  \E v \in Write :
           /\ v.key = w.key /\ v.op = w.op /\ v.op # "create" /\ v.to = w.to /\ v.epoch = epoch /\ Good(v)
           /\ v.op = "delete" => v = w
           /\ \/ /\ Applied(v) /\ writes' = writes \cup {Entry(v, FALSE)}
                 /\ todo' = Rest(w) /\ requests' = requests
              \/ UNCHANGED <<log, requests, writes>> /\ todo' \in SUBSET todo
              \/ /\ requests' = requests \cup {v} /\ writes' = writes \cup {Entry(v, TRUE)}
                 /\ todo' = {} /\ log' = log
<1>1. w \in Write /\ Good(w) /\ w.epoch = epoch /\ w.op # "create" /\ w.key \in Keys
  BY DEF TypeOK, RequestInv, Send, Write
<1>2. Rest(w) \in SUBSET todo
  BY DEF Rest
<1>3. ASSUME NEW v \in Write, v.key = w.key, mutate(v)
      PROVE  \/ /\ Applied(v) /\ writes' = writes \cup {Entry(v, FALSE)}
                /\ todo' = Rest(w) /\ requests' = requests
             \/ UNCHANGED <<log, requests, writes>> /\ todo' \in SUBSET todo
             \/ /\ requests' = requests \cup {v} /\ writes' = writes \cup {Entry(v, TRUE)}
                /\ todo' = {} /\ log' = log
  <2>1. Rest(v) = Rest(w)
    BY <1>3 DEF Rest
  <2> QED
    BY <1>2, <1>3, <2>1, Zenon DEF mutate, Applied
<1>4. CASE w.op = "scale" /\ Unchanged(w) /\ mutate([w EXCEPT !.version = cached(w.key).version])
  <2> DEFINE c == cached(w.key)
             v == [w EXCEPT !.version = c.version]
  <2>1. c \in Version /\ Sound(c)
    <3>1. 1 \in 1 .. Len(log[w.key])
      BY <1>1, LogType
    <3> QED
      BY <1>1, <3>1, LogType DEF LogInv
  <2>2. c.version \in Nat
    BY <2>1 DEF Version
  <2>3. live(c) /\ c.uid = w.uid /\ c.replicas = w.from
    BY <1>4 DEF Unchanged
  <2>4. mutate(v)
    BY <1>4
  <2> HIDE DEF c
  <2>5. v \in Write
    BY <1>1, <2>2 DEF Write
  <2>6. /\ v.key = w.key /\ v.op = "scale" /\ v.to = w.to /\ v.epoch = epoch
        /\ v.version = c.version /\ v.uid = w.uid /\ v.from = w.from
    BY <1>1, <1>4 DEF Write
  <2> HIDE DEF v
  <2>7. Good(v)
    <3>1. c.receipt # v /\ v.uid <= v.version
      BY <2>1, <2>2, <2>3, <2>6 DEF Sound
    <3> QED
      BY <2>2, <2>3, <2>6, <3>1 DEF Good, c
  <2> QED
    BY <1>3, <1>4, <2>4, <2>5, <2>6, <2>7, Zenon
<1>5. CASE w.op = "scale" /\ todo' = {} /\ UNCHANGED <<log, requests, writes>>
  BY <1>1, <1>5
<1>6. CASE w.op # "scale" /\ mutate(w)
  BY <1>1, <1>3, <1>6, Zenon
<1> QED
  BY <1>4, <1>5, <1>6, Zenon DEF Send

-----------------------------------------------------------------------------
(* What a step does to the logs.                                           *)

Extended(k, c) == /\ c \in Version /\ Sound(c) /\ c.receipt.epoch <= epoch
                  /\ c.version = actual(k).version + 1
                  /\ log' = Appended(k, c)
                  /\ epoch' = epoch

\* Versions by other clients.
LEMMA OthersExtend ==
  ASSUME TypeOK, LogInv, NEW k \in Keys
  PROVE  /\ StatusUpdate(k) => \E c \in Version : Extended(k, c) /\ ~c.lost /\ count(c) = count(actual(k))
         /\ OtherDelete(k) => \E c \in Version : Extended(k, c) /\ c.lost /\ count(c) = None
         /\ Collected(k) => \E c \in Version : Extended(k, c) /\ ~c.lost /\ count(c) = count(actual(k))
<1> DEFINE a == actual(k)
<1>1. a \in Version /\ Sound(a) /\ a.receipt.epoch <= epoch
  <2>1. Len(log[k]) \in 1 .. Len(log[k])
    BY LogType
  <2> QED
    BY <2>1, LogType DEF LogInv, actual
<1>2. a.version \in Nat /\ a.uid \in Nat /\ a.receipt.version \in Nat /\ a.version + 1 \in Nat /\ epoch \in Nat
  <2> HIDE DEF a
  <2>1. a.version \in Nat /\ a.uid \in Nat /\ a.receipt \in Receipt
    BY <1>1 DEF Version
  <2> QED
    BY <2>1 DEF Receipt, TypeOK
<1>3. ASSUME StatusUpdate(k)
      PROVE  \E c \in Version : Extended(k, c) /\ ~c.lost /\ count(c) = count(a)
  <2> DEFINE c == [a EXCEPT !.version = @ + 1, !.lost = FALSE]
  <2>1. log' = Appended(k, c) /\ epoch' = epoch
    BY <1>3 DEF StatusUpdate, Other
  <2> HIDE DEF a
  <2>2. /\ c \in Version /\ c.version = a.version + 1 /\ c.uid = a.uid /\ c.deleting = a.deleting /\ ~c.lost
        /\ c.receipt = a.receipt /\ c.replicas = a.replicas
    BY <1>1, <1>2, Zenon DEF Version
  <2> HIDE DEF c
  <2>3. Sound(c) /\ c.receipt.epoch <= epoch /\ count(c) = count(a)
    BY <1>1, <1>2, <2>2 DEF Sound, count, live, exists
  <2> QED
    BY <2>1, <2>2, <2>3 DEF Extended, a
<1>4. ASSUME OtherDelete(k)
      PROVE  \E c \in Version : Extended(k, c) /\ c.lost /\ count(c) = None
  <2> DEFINE c == [a EXCEPT !.version = @ + 1, !.deleting = TRUE, !.lost = TRUE]
  <2>1. log' = Appended(k, c) /\ epoch' = epoch
    BY <1>4 DEF OtherDelete, Other
  <2> HIDE DEF a
  <2>2. /\ c \in Version /\ c.version = a.version + 1 /\ c.uid = a.uid /\ c.deleting /\ c.lost
        /\ c.receipt = a.receipt
    BY <1>1, <1>2, Zenon DEF Version
  <2> HIDE DEF c
  <2>3. Sound(c) /\ c.receipt.epoch <= epoch /\ count(c) = None
    BY <1>1, <1>2, <2>2 DEF Sound, count, live, exists
  <2> QED
    BY <2>1, <2>2, <2>3 DEF Extended, a
<1>5. ASSUME Collected(k)
      PROVE  \E c \in Version : Extended(k, c) /\ ~c.lost /\ count(c) = count(a)
  <2> DEFINE c == Absent(a.version + 1)
  <2>1. log' = Appended(k, c) /\ epoch' = epoch /\ a.deleting
    BY <1>5 DEF Collected, Other
  <2> HIDE DEF a
  <2>2. NoWrite \in Receipt /\ NoWrite.epoch = 0
    BY CountsAssumption DEF NoWrite, Receipt
  <2>3. /\ c \in Version /\ c.version = a.version + 1 /\ c.uid = 0 /\ ~c.lost /\ ~c.deleting
        /\ c.receipt = NoWrite
    BY <1>2, <2>2, CountsAssumption DEF Version, Absent
  <2> HIDE DEF c
  <2>4. Sound(c) /\ c.receipt.epoch <= epoch /\ count(c) = count(a)
    BY <1>2, <2>1, <2>2, <2>3 DEF Sound, count, live, exists
  <2> QED
    BY <2>1, <2>3, <2>4 DEF Extended, a
<1> QED
  BY <1>3, <1>4, <1>5

\* A write that is applied.
LEMMA AppliedExtends ==
  ASSUME TypeOK, LogInv, NEW w \in Write, Good(w), w.epoch <= epoch, Applied(w), epoch' = epoch
  PROVE  Extended(w.key, Written(w))
BY WrittenType, WrittenSound DEF Extended, Applied

LogChange == \/ UNCHANGED <<log, epoch>>
             \/ \E k \in Keys, c \in Version : Extended(k, c)
             \/ \E k \in Keys : Observe(k)
             \/ Restart

LEMMA LogSteps ==
  ASSUME TypeOK, LogInv, RequestInv, [Next]_vars
  PROVE  LogChange
<1>1. CASE UNCHANGED vars
  BY <1>1 DEF LogChange, vars
<1>2. ASSUME NEW w \in Write, Good(w), w.epoch <= epoch, Applied(w), epoch' = epoch
      PROVE  LogChange
  <2>1. w.key \in Keys /\ Written(w) \in Version /\ Extended(w.key, Written(w))
    BY <1>2, AppliedExtends DEF Write, Extended
  <2> QED
    BY <2>1 DEF LogChange
<1>0. epoch \in Nat /\ \A w \in requests \cup todo \cup Entries : w \in Write /\ Good(w) /\ w.epoch <= epoch
  BY DEF RequestInv, TypeOK, Entries
<1>3. CASE checkWrite
  <2>1. PICK e \in writes : checkWriteResolves(e) \/ checkWriteRetries(e)
    BY <1>3 DEF checkWrite
  <2>2. e.write \in Entries
    BY DEF Entries
  <2>3. CASE checkWriteResolves(e)
    BY <2>3 DEF checkWriteResolves, LogChange
  <2>4. CASE checkWriteRetries(e)
    <3>1. epoch' = epoch /\ (log' = log \/ Applied(e.write))
      BY <2>4, Zenon DEF checkWriteRetries, Applied
    <3> QED
      BY <1>0, <1>2, <2>2, <3>1 DEF LogChange
  <2> QED
    BY <2>1, <2>3, <2>4
<1>4. CASE prepareSlice \/ Plan \/ cleanupRemovedSlices \/ (\E k \in Keys : SyncMetadata(k)) \/ Edit
  BY <1>4 DEF prepareSlice, Plan, cleanupRemovedSlices, SyncMetadata, Edit, LogChange
<1>5. CASE \E w \in todo : Send(w)
  <2>1. PICK w \in todo : Send(w)
    BY <1>5
  <2>2. epoch' = epoch
    BY <2>1 DEF Send
  <2>3. PICK v \in Write : v.epoch = epoch /\ Good(v) /\ (Applied(v) \/ log' = log)
    BY <2>1, SendCases, Zenon
  <2> QED
    BY <1>0, <1>2, <2>2, <2>3 DEF LogChange
<1>6. CASE \E w \in todo : Create(w)
  <2>1. PICK w \in todo : Create(w)
    BY <1>6
  <2>2. epoch' = epoch /\ (Applied(w) \/ log' = log)
    BY <2>1, Zenon DEF Create, Applied
  <2> QED
    BY <1>0, <1>2, <2>2 DEF LogChange
<1>7. CASE \E w \in requests : Commit(w) \/ Drop(w)
  <2>1. PICK w \in requests : Commit(w) \/ Drop(w)
    BY <1>7
  <2>2. epoch' = epoch /\ (Applied(w) \/ log' = log)
    BY <2>1 DEF Commit, Drop, Applied
  <2> QED
    BY <1>0, <1>2, <2>2 DEF LogChange
<1>8. CASE \E k \in Keys : StatusUpdate(k) \/ OtherDelete(k) \/ Collected(k)
  BY <1>8, OthersExtend DEF LogChange
<1>9. CASE (\E k \in Keys : Observe(k)) \/ Restart
  BY <1>9 DEF LogChange
<1> QED
  BY <1>1, <1>3, <1>4, <1>5, <1>6, <1>7, <1>8, <1>9 DEF Next, Reconcile, Cluster

\* Newer versions.
LEMMA LogStep ==
  ASSUME TypeOK, LogInv, LogChange
  PROVE  /\ log' \in [Keys -> Seq(Version) \ {<<>>}] /\ epoch' \in Nat
         /\ \A k \in Keys : /\ Len(log'[k]) \in Nat /\ Len(log'[k]) >= 1
                            /\ cached(k)' = log'[k][1] /\ cached(k)' \in Version /\ actual(k)' \in Version
                            /\ cached(k).version <= cached(k)'.version
                            /\ cached(k)'.version = cached(k).version => cached(k)' = cached(k)
                            /\ actual(k).version <= actual(k)'.version
                            /\ actual(k)'.version = actual(k).version => actual(k)' = actual(k)
         /\ LogInv'
<1> DEFINE P(k) == /\ cached(k).version <= cached(k)'.version
                   /\ cached(k)'.version = cached(k).version => cached(k)' = cached(k)
                   /\ actual(k).version <= actual(k)'.version
                   /\ actual(k)'.version = actual(k).version => actual(k)' = actual(k)
           Q(k) == /\ \A i, j \in 1 .. Len(log'[k]) : i < j => log'[k][i].version < log'[k][j].version
                   /\ \A i \in 1 .. Len(log'[k]) : Sound(log'[k][i]) /\ log'[k][i].receipt.epoch <= epoch'
<1>e. epoch \in Nat /\ \A c \in Version : c.receipt.epoch \in Nat
  BY DEF TypeOK, Version, Receipt
<1>a. \A k \in Keys : /\ cached(k).version \in Nat /\ actual(k).version \in Nat
                      /\ cached(k).version <= actual(k).version
                      /\ Len(log[k]) \in Nat /\ Len(log[k]) >= 1 /\ log[k][1] = cached(k)
                      /\ log[k][Len(log[k])] = actual(k)
                      /\ \A i \in 1 .. Len(log[k]) : /\ log[k][i] \in Version /\ log[k][i].version \in Nat
                                                     /\ cached(k).version <= log[k][i].version
                                                     /\ log[k][i].version <= actual(k).version
  <2> SUFFICES ASSUME NEW k \in Keys
               PROVE  /\ cached(k).version \in Nat /\ actual(k).version \in Nat
                      /\ cached(k).version <= actual(k).version
                      /\ Len(log[k]) \in Nat /\ Len(log[k]) >= 1 /\ log[k][1] = cached(k)
                      /\ log[k][Len(log[k])] = actual(k)
                      /\ \A i \in 1 .. Len(log[k]) : /\ log[k][i] \in Version /\ log[k][i].version \in Nat
                                                     /\ cached(k).version <= log[k][i].version
                                                     /\ log[k][i].version <= actual(k).version
    BY Zenon
  <2>1. Len(log[k]) \in Nat /\ Len(log[k]) >= 1 /\ 1 \in 1 .. Len(log[k])
    BY LogType
  <2>2. log[k][1] = cached(k) /\ log[k][Len(log[k])] = actual(k)
    BY LogType DEF actual
  <2>3. /\ cached(k).version \in Nat /\ actual(k).version \in Nat
        /\ \A i \in 1 .. Len(log[k]) : /\ log[k][i] \in Version /\ log[k][i].version \in Nat
                                       /\ cached(k).version <= log[k][i].version
                                       /\ log[k][i].version <= actual(k).version
    BY LogType, LogOrder
  <2>4. cached(k).version <= actual(k).version
    BY <2>1, <2>2, <2>3
  <2> QED
    BY <2>1, <2>2, <2>3, <2>4
<1>b. ASSUME NEW k \in Keys, log'[k] = log[k], epoch' = epoch
      PROVE  P(k) /\ Q(k)
  <2>1. cached(k)' = cached(k) /\ actual(k)' = actual(k)
    BY <1>b DEF cached, actual
  <2>2. Q(k)
    BY <1>b DEF LogInv
  <2>3. P(k)
    BY <1>a, <2>1
  <2> QED
    BY <2>2, <2>3
<1>c. ASSUME log' \in [Keys -> Seq(Version) \ {<<>>}], NEW k \in Keys
      PROVE  /\ Len(log'[k]) \in Nat /\ Len(log'[k]) >= 1
             /\ cached(k)' = log'[k][1] /\ cached(k)' \in Version /\ actual(k)' \in Version
  <2> DEFINE s == log'[k]
  <2>1. s \in Seq(Version) /\ s # <<>> /\ cached(k)' = Head(s) /\ actual(k)' = s[Len(s)]
    BY <1>c DEF cached, actual
  <2> HIDE DEF s
  <2>2. Len(s) \in Nat /\ Len(s) >= 1 /\ Head(s) = s[1] /\ Head(s) \in Version /\ s[Len(s)] \in Version
    BY <2>1
  <2> QED
    BY <2>1, <2>2 DEF s
<1>d. ASSUME log' \in [Keys -> Seq(Version) \ {<<>>}], epoch' \in Nat, \A k \in Keys : P(k) /\ Q(k)
      PROVE  /\ log' \in [Keys -> Seq(Version) \ {<<>>}] /\ epoch' \in Nat
             /\ \A k \in Keys : /\ Len(log'[k]) \in Nat /\ Len(log'[k]) >= 1
                                /\ cached(k)' = log'[k][1] /\ cached(k)' \in Version /\ actual(k)' \in Version
                                /\ P(k)
             /\ LogInv'
  <2>1. LogInv'
    BY <1>d DEF LogInv
  <2> HIDE DEF P
  <2> QED
    BY <1>c, <1>d, <2>1
<1>1. CASE UNCHANGED <<log, epoch>>
  <2>1. \A k \in Keys : P(k) /\ Q(k)
    BY <1>1, <1>b
  <2> QED
    BY <1>1, <1>d, <2>1 DEF TypeOK
<1>2. CASE \E k \in Keys, c \in Version : Extended(k, c)
  <2>1. PICK k \in Keys, c \in Version : Extended(k, c)
    BY <1>2
  <2>2. /\ Sound(c) /\ c.receipt.epoch <= epoch /\ c.version = actual(k).version + 1 /\ log' = Appended(k, c) /\ epoch' = epoch
    BY <2>1 DEF Extended
  <2>3. /\ log' \in [Keys -> Seq(Version) \ {<<>>}]
        /\ \A j \in Keys \ {k} : log'[j] = log[j]
        /\ Len(log'[k]) = Len(log[k]) + 1
        /\ \A i \in 1 .. Len(log[k]) : log'[k][i] = log[k][i]
        /\ log'[k][Len(log[k]) + 1] = c
        /\ cached(k)' = cached(k) /\ actual(k)' = c
    BY <2>2, AppendedLog
  <2>4. P(k)
    BY <1>a, <2>2, <2>3
  <2>5. Q(k)
    <3> DEFINE n == Len(log[k])
               s == log[k]
               t == log'[k]
    <3>1. /\ n \in Nat /\ Len(t) = n + 1 /\ t[n + 1] = c /\ (\A i \in 1 .. n : t[i] = s[i])
          /\ (\A i \in 1 .. n : s[i].version \in Nat /\ s[i].version <= actual(k).version /\ s[i] \in Version)
          /\ (\A i, j \in 1 .. n : i < j => s[i].version < s[j].version)
          /\ (\A i \in 1 .. n : Sound(s[i]) /\ s[i].receipt.epoch <= epoch)
          /\ actual(k).version \in Nat
      BY <1>a, <2>3 DEF LogInv
    <3> HIDE DEF n, s, t
    <3>2. \A i \in 1 .. n + 1 : i \in 1 .. n \/ i = n + 1
      BY <3>1
    <3>3. \A i, j \in 1 .. n + 1 : i < j => t[i].version < t[j].version
      <4> SUFFICES ASSUME NEW i \in 1 .. n + 1, NEW j \in 1 .. n + 1, i < j
                   PROVE  t[i].version < t[j].version
        OBVIOUS
      <4>1. i \in 1 .. n
        BY <3>1
      <4>2. CASE j = n + 1
        BY <2>2, <3>1, <4>1, <4>2
      <4>3. CASE j \in 1 .. n
        BY <3>1, <4>1, <4>3
      <4> QED
        BY <3>2, <4>2, <4>3
    <3>4. \A i \in 1 .. n + 1 : Sound(t[i]) /\ t[i].receipt.epoch <= epoch'
      BY <2>2, <3>1, <3>2
    <3> QED
      BY <3>1, <3>3, <3>4 DEF t
  <2>6. \A j \in Keys : P(j) /\ Q(j)
    BY <1>b, <2>2, <2>3, <2>4, <2>5
  <2> QED
    BY <1>d, <1>e, <2>2, <2>3, <2>6
<1>3. CASE \E k \in Keys : Observe(k)
  <2>1. PICK k \in Keys : Observe(k)
    BY <1>3
  <2>2. /\ log' \in [Keys -> Seq(Version) \ {<<>>}]
        /\ \A j \in Keys \ {k} : log'[j] = log[j]
        /\ Len(log[k]) > 1 /\ Len(log'[k]) = Len(log[k]) - 1
        /\ \A i \in 1 .. Len(log[k]) - 1 : log'[k][i] = log[k][i + 1]
        /\ cached(k)' = log[k][2] /\ actual(k)' = actual(k)
    BY <2>1, ObservedLog
  <2>3. epoch' = epoch
    BY <2>1 DEF Observe
  <2> DEFINE n == Len(log[k])
             s == log[k]
             t == log'[k]
  <2>4. /\ n \in Nat /\ n > 1 /\ Len(t) = n - 1 /\ (\A i \in 1 .. n - 1 : t[i] = s[i + 1])
        /\ (\A i \in 1 .. n : s[i].version \in Nat)
        /\ (\A i, j \in 1 .. n : i < j => s[i].version < s[j].version)
        /\ (\A i \in 1 .. n : Sound(s[i]) /\ s[i].receipt.epoch <= epoch)
        /\ s[1] = cached(k) /\ s[2] = cached(k)'
    BY <1>a, <2>2, Zenon DEF LogInv
  <2> HIDE DEF n, s, t
  <2>5. /\ \A i, j \in 1 .. n - 1 : i < j => t[i].version < t[j].version
        /\ \A i \in 1 .. n - 1 : Sound(t[i]) /\ t[i].receipt.epoch <= epoch'
    <3>1. \A i \in 1 .. n - 1 : i + 1 \in 1 .. n
      BY <2>4
    <3>2. ASSUME NEW i \in 1 .. n - 1, NEW j \in 1 .. n - 1, i < j
          PROVE  t[i].version < t[j].version
      <4>1. i + 1 \in 1 .. n /\ j + 1 \in 1 .. n /\ i + 1 < j + 1
        BY <3>1, <3>2
      <4>2. s[i + 1].version < s[j + 1].version
        BY <2>4, <4>1
      <4> QED
        BY <2>4, <4>2
    <3> QED
      BY <2>3, <2>4, <3>1, <3>2
  <2>6. cached(k).version < cached(k)'.version /\ cached(k).version \in Nat /\ cached(k)'.version \in Nat
    <3>1. 1 \in 1 .. n /\ 2 \in 1 .. n
      BY <2>4
    <3> QED
      BY <2>4, <3>1
  <2>7. P(k)
    BY <1>a, <2>2, <2>6
  <2>8. Q(k)
    BY <2>4, <2>5 DEF t
  <2>9. \A j \in Keys : P(j) /\ Q(j)
    BY <1>b, <2>2, <2>3, <2>7, <2>8, Zenon
  <2> QED
    BY <1>d, <1>e, <2>2, <2>3, <2>9
<1>4. CASE Restart
  <2>1. /\ log' \in [Keys -> Seq(Version) \ {<<>>}] /\ epoch' = epoch + 1
        /\ \A k \in Keys : /\ Len(log'[k]) = 1 /\ log'[k][1] = actual(k)
                           /\ cached(k)' = actual(k) /\ actual(k)' = actual(k)
    BY <1>4, RestartedLog DEF Restart
  <2>2. ASSUME NEW k \in Keys PROVE P(k) /\ Q(k)
    <3>1. Sound(actual(k)) /\ actual(k).receipt.epoch <= epoch /\ actual(k) \in Version
      <4>1. Len(log[k]) \in 1 .. Len(log[k])
        BY <1>a
      <4> QED
        BY <4>1, LogType DEF LogInv, actual
    <3>2. cached(k).version = actual(k).version => cached(k) = actual(k)
      BY LogOrder
    <3>3. P(k)
      BY <1>a, <2>1, <3>2
    <3>4. actual(k).receipt.epoch <= epoch'
      BY <1>e, <2>1, <3>1
    <3>5. Q(k)
      BY <2>1, <3>1, <3>4
    <3> QED
      BY <3>3, <3>5
  <2> QED
    BY <1>d, <1>e, <2>1, <2>2
<1> QED
  BY <1>1, <1>2, <1>3, <1>4 DEF LogChange

\* A request stays good, and once its version is gone it is gone for good.
LEMMA GoodKept ==
  ASSUME TypeOK, LogInv, LogChange, NEW w \in Write, Good(w)
  PROVE  /\ Good(w)'
         /\ Spent(w) => Spent(w)'
         /\ w.op # "create" => /\ Allowed(w)' => Allowed(w)
                               /\ ~Spent(w) => w.version = actual(w.key).version /\ Allowed(w)
<1> DEFINE k == w.key
<1>1. k \in Keys /\ w.version \in Nat
  BY DEF Write
<1>2. /\ cached(k).version \in Nat /\ actual(k).version \in Nat
      /\ cached(k).version <= actual(k).version
      /\ cached(k).version = actual(k).version => cached(k) = actual(k)
  BY <1>1, LogOrder, LogType
<1>3. /\ cached(k).version <= cached(k)'.version
      /\ cached(k)'.version = cached(k).version => cached(k)' = cached(k)
      /\ actual(k).version <= actual(k)'.version
      /\ actual(k)'.version = actual(k).version => actual(k)' = actual(k)
      /\ cached(k)' \in Version /\ actual(k)' \in Version
  BY <1>1, LogStep
<1>4. cached(k)'.version \in Nat /\ actual(k)'.version \in Nat
  BY <1>3 DEF Version
<1>5. Good(w)'
  <2>1. CASE w.op = "create"
    BY <2>1 DEF Good
  <2>2. CASE w.op # "create"
    <3>1. w.version <= cached(k).version
      BY <2>2 DEF Good
    <3>2. w.version <= cached(k)'.version
      BY <1>1, <1>2, <1>3, <1>4, <3>1
    <3>3. w.version = cached(k)'.version => cached(k)' = cached(k)
      BY <1>1, <1>2, <1>3, <1>4, <3>1
    <3> QED
      BY <2>2, <3>2, <3>3 DEF Good, live, exists
  <2> QED
    BY <2>1, <2>2
<1>6. Spent(w) => Spent(w)'
  BY <1>1, <1>2, <1>3, <1>4 DEF Spent
<1>7. ASSUME w.op # "create"
      PROVE  /\ Allowed(w)' => Allowed(w)
             /\ ~Spent(w) => w.version = actual(k).version /\ Allowed(w)
  <2>1. w.version <= cached(k).version
    BY <1>7 DEF Good
  <2>2. Allowed(w)' => w.version = actual(k)'.version
    BY <1>7 DEF Allowed
  <2>3. Allowed(w)' => actual(k)' = actual(k)
    BY <1>1, <1>2, <1>3, <1>4, <2>1, <2>2
  <2>4. Allowed(w)' => Allowed(w)
    BY <1>7, <2>3 DEF Allowed
  <2>5. ~Spent(w) => w.version = actual(k).version /\ cached(k).version = actual(k).version
    BY <1>1, <1>2, <2>1 DEF Spent
  <2>6. ~Spent(w) => actual(k).uid = w.uid
    BY <1>2, <1>7, <2>5 DEF Good
  <2> QED
    BY <1>7, <2>4, <2>5, <2>6 DEF Allowed
<1> QED
  BY <1>5, <1>6, <1>7

\* Any new version of a child spends the requests to it.
LEMMA ExtendedSpends ==
  ASSUME TypeOK, LogInv, NEW k \in Keys, NEW c \in Version, Extended(k, c),
         NEW w \in Write, w.key = k, w.op # "create", Good(w)
  PROVE  w.version <= actual(k).version /\ w.version < c.version /\ Spent(w)' /\ ~Allowed(w)'
<1>1. w.version <= cached(k).version /\ w.version \in Nat
  BY DEF Good, Write
<1>2. /\ cached(k).version \in Nat /\ actual(k).version \in Nat /\ cached(k).version <= actual(k).version
  BY LogOrder, LogType
<1>3. actual(k)' = c /\ c.version = actual(k).version + 1
  BY AppendedLog DEF Extended
<1>4. w.version < c.version
  BY <1>1, <1>2, <1>3
<1>5. Spent(w)'
  BY <1>3, <1>4 DEF Spent
<1>6. ~Allowed(w)'
  BY <1>1, <1>2, <1>3, <1>4 DEF Allowed
<1> QED
  BY <1>1, <1>2, <1>4, <1>5, <1>6

-----------------------------------------------------------------------------
(* What a step does to the requests.                                       *)

\* A request that is new is good, and of this process.
LEMMA RequestSteps ==
  ASSUME TypeOK, LogInv, RequestInv, [Next]_vars
  PROVE  /\ requests' \in SUBSET Write /\ todo' \in SUBSET Write
         /\ writes' \in SUBSET [write : {w \in Write : w.op # "create"}, retry : BOOLEAN]
         /\ initialized' \in SUBSET [key : Keys, uid : Nat]
         /\ \A w \in requests' \cup todo' \cup {e.write : e \in writes'} : Good(w)
         /\ \A w \in requests' : w.epoch <= epoch
         /\ (epoch' = epoch /\ \A w \in todo' \cup {e.write : e \in writes'} : w.epoch = epoch)
              \/ (epoch' = epoch + 1 /\ todo' = {} /\ writes' = {})
<1> DEFINE W(S) == \A w \in S : w \in Write /\ Good(w) /\ w.epoch = epoch
           R(S) == \A w \in S : w \in Write /\ Good(w) /\ w.epoch <= epoch
           E(S) == \A e \in S : /\ e \in [write : {w \in Write : w.op # "create"}, retry : BOOLEAN]
                                /\ Good(e.write) /\ e.write.epoch = epoch
           I(S) == S \in SUBSET [key : Keys, uid : Nat]
<1>0. epoch \in Nat /\ W(todo) /\ R(requests) /\ E(writes) /\ I(initialized)
  BY DEF RequestInv, TypeOK, Entries
<1>1. SUFFICES /\ R(requests') /\ W(todo') /\ E(writes') /\ I(initialized')
               /\ epoch' = epoch \/ (epoch' = epoch + 1 /\ todo' = {} /\ writes' = {})
  BY Zenon
<1>2. ASSUME NEW w \in Write, w.op # "create", Good(w), w.epoch = epoch, NEW b \in BOOLEAN
      PROVE  E({Entry(w, b)}) /\ R({w})
  BY <1>0, <1>2 DEF Entry
<1>3. CASE UNCHANGED vars
  BY <1>0, <1>3 DEF vars
<1>4. CASE checkWrite
  <2>1. PICK e \in writes : checkWriteResolves(e) \/ checkWriteRetries(e)
    BY <1>4 DEF checkWrite
  <2>2. e.write \in Write /\ e.write.op # "create" /\ Good(e.write) /\ e.write.epoch = epoch
    BY <1>0
  <2>3. CASE checkWriteResolves(e)
    <3>1. /\ requests' = requests /\ todo' = todo /\ epoch' = epoch /\ writes' = writes \ {e}
          /\ initialized' \in SUBSET (initialized \cup {Child(e.write.key, e.write.uid)})
      BY <2>3 DEF checkWriteResolves
    <3>2. Child(e.write.key, e.write.uid) \in [key : Keys, uid : Nat]
      BY <2>2 DEF Child, Write
    <3> QED
      BY <1>0, <3>1, <3>2
  <2>4. CASE checkWriteRetries(e)
    <3>1. /\ requests' \in SUBSET (requests \cup {e.write}) /\ todo' = todo /\ epoch' = epoch
          /\ writes' \in SUBSET (writes \cup {Entry(e.write, FALSE)}) /\ initialized' = initialized
      BY <2>4, Zenon DEF checkWriteRetries
    <3> QED
      BY <1>0, <1>2, <2>2, <3>1, Zenon
  <2> QED
    BY <2>1, <2>3, <2>4
<1>5. CASE prepareSlice
  <2>1. /\ todo' = {Request(k, "touch", cached(k).replicas) : k \in Untaken}
        /\ UNCHANGED <<requests, writes, initialized, epoch>>
    BY <1>5 DEF prepareSlice
  <2>2. \A k \in Keys : cached(k).replicas \in Counts
    BY LogType DEF Version
  <2>3. W(todo')
    BY <2>1, <2>2, RequestGood DEF Untaken
  <2> QED
    BY <1>0, <2>1, <2>3
<1>6. CASE Plan
  <2>1. PICK step \in Plans([k \in Keys |-> count(cached(k))], goal) : todo' = {Planned(w) : w \in step}
    BY <1>6 DEF Plan
  <2>2. UNCHANGED <<requests, writes, initialized, epoch>>
    BY <1>6 DEF Plan
  <2>3. W(todo')
    BY <2>1, PlannedGood
  <2> QED
    BY <1>0, <2>2, <2>3
<1>7. CASE cleanupRemovedSlices
  <2>1. /\ \A w \in todo' : \E k \in Keys : live(cached(k)) /\ w = Request(k, "delete", 0)
        /\ UNCHANGED <<requests, writes, initialized, epoch>>
    BY <1>7 DEF cleanupRemovedSlices
  <2>2. W(todo')
    BY <2>1, RequestGood, CountsAssumption
  <2> QED
    BY <1>0, <2>1, <2>2
<1>8. CASE \E k \in Keys : SyncMetadata(k)
  <2>1. PICK k \in Keys : live(cached(k)) /\ todo' = {Request(k, "touch", cached(k).replicas)}
    BY <1>8 DEF SyncMetadata
  <2>2. UNCHANGED <<requests, writes, initialized, epoch>>
    BY <1>8 DEF SyncMetadata
  <2>3. cached(k).replicas \in Counts
    BY LogType DEF Version
  <2>4. W(todo')
    BY <2>1, <2>3, RequestGood
  <2> QED
    BY <1>0, <2>2, <2>4
<1>9. CASE \E w \in todo : Send(w)
  <2>1. PICK w \in todo : Send(w)
    BY <1>9
  <2>2. UNCHANGED <<initialized, epoch>> /\ Rest(w) \in SUBSET todo
    BY <2>1 DEF Send, Rest
  <2>3. PICK v \in Write : /\ v.op # "create" /\ v.epoch = epoch /\ Good(v)
                           /\ requests' \in SUBSET (requests \cup {v})
                           /\ todo' \in SUBSET todo
                           /\ writes' \in SUBSET (writes \cup {Entry(v, FALSE), Entry(v, TRUE)})
    <3>1. PICK v \in Write :
             /\ v.op # "create" /\ v.epoch = epoch /\ Good(v)
             /\ \/ writes' = writes \cup {Entry(v, FALSE)} /\ todo' = Rest(w) /\ requests' = requests
                \/ UNCHANGED <<requests, writes>> /\ todo' \in SUBSET todo
                \/ requests' = requests \cup {v} /\ writes' = writes \cup {Entry(v, TRUE)} /\ todo' = {}
      BY <2>1, SendCases, Zenon
    <3> QED
      BY <2>2, <3>1, Zenon
  <2>4. R({v}) /\ E({Entry(v, FALSE)}) /\ E({Entry(v, TRUE)})
    BY <1>2, <2>3, Zenon
  <2> QED
    BY <1>0, <2>2, <2>3, <2>4, Zenon
<1>10. CASE \E w \in todo : Create(w)
  <2>1. PICK w \in todo : Create(w)
    BY <1>10
  <2>2. /\ requests' \in SUBSET (requests \cup {w}) /\ todo' \in SUBSET todo /\ UNCHANGED <<writes, epoch>>
        /\ initialized' \in SUBSET (initialized \cup {Child(w.key, actual(w.key).version + 1)})
    BY <2>1, Zenon DEF Create, Rest
  <2>3. w.key \in Keys /\ actual(w.key) \in Version
    BY <1>0, LogType DEF Write
  <2>4. Child(w.key, actual(w.key).version + 1) \in [key : Keys, uid : Nat]
    BY <2>3 DEF Child, Version
  <2>5. R({w})
    BY <1>0
  <2> QED
    BY <1>0, <2>2, <2>4, <2>5
<1>11. CASE \E w \in requests : Commit(w) \/ Drop(w)
  BY <1>0, <1>11 DEF Commit, Drop
<1>12. CASE \E k \in Keys : Observe(k) \/ StatusUpdate(k) \/ OtherDelete(k) \/ Collected(k)
  BY <1>0, <1>12, Zenon DEF Observe, StatusUpdate, OtherDelete, Collected, Other
<1>13. CASE Restart
  BY <1>0, <1>13 DEF Restart
<1>14. CASE Edit
  BY <1>0, <1>14 DEF Edit
<1> QED
  BY <1>3, <1>4, <1>5, <1>6, <1>7, <1>8, <1>9, <1>10, <1>11, <1>12, <1>13, <1>14 DEF Next, Reconcile, Cluster

LEMMA BaseStep ==
  ASSUME TypeOK, LogInv, RequestInv, [Next]_vars
  PROVE  TypeOK' /\ LogInv' /\ RequestInv'
<1>1. LogChange
  BY LogSteps
<1>2. log' \in [Keys -> Seq(Version) \ {<<>>}] /\ epoch' \in Nat /\ LogInv'
  BY <1>1, LogStep
<1>3. goal' \in Goals /\ removed' \in BOOLEAN
  BY Zenon DEF TypeOK, Next, Reconcile, Cluster, vars, checkWrite, checkWriteResolves, checkWriteRetries, prepareSlice, Plan,
         cleanupRemovedSlices, SyncMetadata, Send, Create, Commit, Drop, Observe, StatusUpdate, OtherDelete,
         Collected, Other, Restart, Edit
<1>4. TypeOK'
  BY <1>2, <1>3, RequestSteps DEF TypeOK
<1>5. \A w \in requests' \cup todo' \cup {e.write : e \in writes'} : w \in Write /\ Good(w)
  BY RequestSteps
<1>6. \A w \in requests' \cup todo' \cup {e.write : e \in writes'} : Good(w)'
  BY <1>1, <1>5, GoodKept
<1>7. epoch \in Nat /\ (epoch' = epoch \/ epoch' = epoch + 1) /\ \A w \in requests' : w.epoch <= epoch /\ w.epoch \in Nat
  BY RequestSteps DEF TypeOK, Write
<1>8. \A w \in requests' : w.epoch <= epoch'
  BY <1>7
<1>9. \A w \in todo' \cup {e.write : e \in writes'} : w.epoch = epoch'
  BY RequestSteps
<1> QED
  BY <1>2, <1>4, <1>6, <1>8, <1>9 DEF RequestInv, Entries

LEMMA OutstandingStep ==
  ASSUME TypeOK, LogInv, RequestInv, OneOutstanding, [Next]_vars
  PROVE  OneOutstanding'
<1>1. CASE UNCHANGED <<writes, todo>>
  BY <1>1 DEF OneOutstanding
<1>2. CASE checkWrite
  <2>1. PICK e \in writes : checkWriteResolves(e) \/ checkWriteRetries(e)
    BY <1>2 DEF checkWrite
  <2>2. CASE checkWriteResolves(e)
    BY <2>2 DEF checkWriteResolves, OneOutstanding
  <2>3. CASE checkWriteRetries(e)
    <3>1. todo' = {} /\ (writes' = writes \/ writes' = (writes \ {e}) \cup {Entry(e.write, FALSE)})
      BY <2>3, Zenon DEF checkWriteRetries
    <3>2. Entry(e.write, FALSE).write = e.write
      BY DEF Entry
    <3>3. \A f, g \in writes' : f.write.key = g.write.key => f = g
      BY <3>1, <3>2, Zenon DEF OneOutstanding
    <3> QED
      BY <3>1, <3>3 DEF OneOutstanding
  <2> QED
    BY <2>1, <2>2, <2>3
<1>3. CASE prepareSlice \/ Plan \/ \E k \in Keys : SyncMetadata(k)
  <2>1. writes' = {}
    BY <1>3 DEF prepareSlice, Plan, SyncMetadata, observed
  <2> QED
    BY <2>1 DEF OneOutstanding
<1>4. CASE cleanupRemovedSlices
  <2>1. /\ writes' = writes
        /\ \A w \in todo' : \E k \in Keys : w = Request(k, "delete", 0) /\ \A e \in writes : e.write.key # k
    BY <1>4 DEF cleanupRemovedSlices
  <2>2. \A k \in Keys : Request(k, "delete", 0).key = k
    BY DEF Request
  <2> QED
    BY <2>1, <2>2 DEF OneOutstanding
<1>5. CASE \E w \in todo : Send(w)
  <2>1. PICK w \in todo : Send(w)
    BY <1>5
  <2>2. PICK v \in Write :
           /\ v.key = w.key
           /\ \/ writes' = writes \cup {Entry(v, FALSE)} /\ todo' = Rest(w)
              \/ writes' = writes /\ todo' \in SUBSET todo
              \/ writes' = writes \cup {Entry(v, TRUE)} /\ todo' = {}
    BY <2>1, SendCases, Zenon
  <2>3. \A b \in BOOLEAN : Entry(v, b).write.key = w.key
    BY <2>2 DEF Entry
  <2>4. \A t \in Rest(w) : t \in todo /\ t.key # w.key
    BY DEF Rest
  <2> QED
    BY <2>1, <2>2, <2>3, <2>4, Zenon DEF OneOutstanding
<1>6. CASE \E w \in todo : Create(w)
  BY <1>6, Zenon DEF Create, Rest, OneOutstanding
<1>7. CASE Cluster \/ Edit
  <2>1. UNCHANGED <<writes, todo>>
    BY <1>7, Zenon DEF Cluster, Edit, Commit, Drop, Observe, StatusUpdate, OtherDelete, Collected, Other
  <2> QED
    BY <1>1, <2>1
<1>8. CASE Restart
  BY <1>8 DEF Restart, OneOutstanding
<1> QED
  BY <1>1, <1>2, <1>3, <1>4, <1>5, <1>6, <1>7, <1>8 DEF Next, Reconcile, vars

-----------------------------------------------------------------------------
(* Requests that may still take effect.                                    *)

LEMMA NotSpent ==
  ASSUME TypeOK, LogInv, NEW w \in Write, w.op # "create", Good(w), ~Spent(w)
  PROVE  Allowed(w)
<1> DEFINE k == w.key
<1>1. k \in Keys /\ w.version \in Nat /\ w.version <= cached(k).version
  BY DEF Write, Good
<1>2. /\ cached(k).version \in Nat /\ actual(k).version \in Nat
      /\ cached(k).version <= actual(k).version
      /\ cached(k).version = actual(k).version => cached(k) = actual(k)
  BY <1>1, LogOrder, LogType
<1>3. w.version = actual(k).version /\ cached(k).version = actual(k).version
  BY <1>1, <1>2 DEF Spent
<1> QED
  BY <1>2, <1>3 DEF Good, Allowed

\* A write that checkWrite is done with cannot take effect.
LEMMA Resolved ==
  ASSUME TypeOK, LogInv, RequestInv, NEW e \in writes, seen(e) \/ obsolete(e)
  PROVE  e.write.version < cached(e.write.key).version /\ Spent(e.write)
<1> DEFINE w == e.write
           k == w.key
<1>1. w \in Write /\ w.op # "create" /\ Good(w)
  BY DEF RequestInv, TypeOK, Entries
<1>2. k \in Keys /\ w.version \in Nat
  BY <1>1 DEF Write
<1>3. cached(k).version \in Nat /\ actual(k).version \in Nat /\ cached(k).version <= actual(k).version
  BY <1>2, LogOrder, LogType
<1>4. w.version # cached(k).version
  BY <1>1, Zenon DEF Good, seen, obsolete, receiptObserved, live
<1>5. w.version <= cached(k).version
  BY <1>1 DEF Good
<1> QED
  BY <1>2, <1>3, <1>4, <1>5 DEF Spent

LEMMA OwnStep ==
  ASSUME TypeOK, LogInv, RequestInv, OwnInv, [Next]_vars
  PROVE  OwnInv'
<1>0. /\ epoch \in Nat /\ LogChange
      /\ \A w \in requests \cup todo \cup Entries : w \in Write /\ Good(w) /\ w.epoch <= epoch
  BY LogSteps DEF RequestInv, TypeOK, Entries
<1>1. ASSUME epoch' = epoch, writes \in SUBSET writes', requests' \in SUBSET requests
      PROVE  OwnInv'
  <2> SUFFICES ASSUME NEW w \in requests', w.op # "create", w.epoch = epoch'
               PROVE  Entry(w, TRUE) \in writes' \/ Spent(w)'
    BY Zenon DEF OwnInv, Conditional
  <2>1. Entry(w, TRUE) \in writes \/ Spent(w)
    BY <1>1, Zenon DEF OwnInv, Conditional
  <2> QED
    BY <1>0, <1>1, <2>1, GoodKept, Zenon
<1>2. CASE UNCHANGED vars
  BY <1>1, <1>2 DEF vars
<1>3. CASE checkWrite
  <2>1. PICK e \in writes : checkWriteResolves(e) \/ checkWriteRetries(e)
    BY <1>3 DEF checkWrite
  <2>2. e.write \in Entries /\ e.write \in Write /\ e.write.op # "create"
    BY DEF Entries, TypeOK
  <2>3. \A w : Entry(w, TRUE) = e => w = e.write
    BY DEF Entry
  <2>4. CASE checkWriteResolves(e)
    <3>1. epoch' = epoch /\ requests' = requests /\ writes' = writes \ {e} /\ Spent(e.write)
      BY <2>1, <2>4, Resolved DEF checkWriteResolves
    <3> SUFFICES ASSUME NEW w \in requests', w.op # "create", w.epoch = epoch'
                 PROVE  Entry(w, TRUE) \in writes' \/ Spent(w)'
      BY Zenon DEF OwnInv, Conditional
    <3>2. Entry(w, TRUE) \in writes' \/ Spent(w)
      BY <2>3, <3>1, Zenon DEF OwnInv, Conditional
    <3> QED
      BY <1>0, <3>1, <3>2, GoodKept, Zenon
  <2>5. CASE checkWriteRetries(e)
    <3>1. CASE requests' = requests \cup {e.write} /\ writes' = writes
      <4>1. e = Entry(e.write, TRUE) /\ epoch' = epoch
        BY <2>5 DEF checkWriteRetries, TypeOK, Entry
      <4> SUFFICES ASSUME NEW w \in requests', w.op # "create", w.epoch = epoch'
                   PROVE  Entry(w, TRUE) \in writes' \/ Spent(w)'
        BY Zenon DEF OwnInv, Conditional
      <4>2. Entry(w, TRUE) \in writes \/ (w \in requests /\ Spent(w))
        BY <3>1, <4>1, Zenon DEF OwnInv, Conditional
      <4> QED
        BY <1>0, <3>1, <4>2, GoodKept, Zenon
    <3>2. CASE Applied(e.write) /\ writes' = (writes \ {e}) \cup {Entry(e.write, FALSE)} /\ requests' = requests
      <4>1. epoch' = epoch
        BY <2>5 DEF checkWriteRetries
      <4>2. Spent(e.write)'
        <5>1. Extended(e.write.key, Written(e.write)) /\ Good(e.write)
          BY <1>0, <2>2, <3>2, <4>1, AppliedExtends
        <5>2. e.write.key \in Keys /\ Written(e.write) \in Version
          BY <2>2, <5>1 DEF Write, Extended
        <5> QED
          BY <2>2, <5>1, <5>2, ExtendedSpends
      <4> SUFFICES ASSUME NEW w \in requests', w.op # "create", w.epoch = epoch'
                   PROVE  Entry(w, TRUE) \in writes' \/ Spent(w)'
        BY Zenon DEF OwnInv, Conditional
      <4>3. Entry(w, TRUE) \in writes' \/ w = e.write \/ Spent(w)
        BY <2>3, <3>2, <4>1, Zenon DEF OwnInv, Conditional
      <4> QED
        BY <1>0, <3>2, <4>2, <4>3, GoodKept, Zenon
    <3> QED
      BY <2>5, <3>1, <3>2, Zenon DEF checkWriteRetries, Applied
  <2> QED
    BY <2>1, <2>4, <2>5
<1>4. CASE prepareSlice \/ Plan \/ cleanupRemovedSlices \/ (\E k \in Keys : SyncMetadata(k)) \/ Edit
  <2>1. epoch' = epoch /\ writes' = writes /\ requests' = requests
    BY <1>4 DEF prepareSlice, Plan, cleanupRemovedSlices, SyncMetadata, Edit
  <2> QED
    BY <1>1, <2>1
<1>5. CASE \E w \in todo : Send(w)
  <2>1. PICK w \in todo : Send(w)
    BY <1>5
  <2>2. epoch' = epoch
    BY <2>1 DEF Send
  <2>3. PICK v \in Write :
          \/ writes \in SUBSET writes' /\ requests' = requests
          \/ requests' = requests \cup {v} /\ writes' = writes \cup {Entry(v, TRUE)} /\ todo' = {}
    BY <2>1, SendCases, Zenon
  <2>4. CASE requests' = requests \cup {v} /\ writes' = writes \cup {Entry(v, TRUE)}
    <3> SUFFICES ASSUME NEW u \in requests', u.op # "create", u.epoch = epoch'
                 PROVE  Entry(u, TRUE) \in writes' \/ Spent(u)'
      BY Zenon DEF OwnInv, Conditional
    <3>1. Entry(u, TRUE) \in writes' \/ (u \in requests /\ Spent(u))
      BY <2>2, <2>4, Zenon DEF OwnInv, Conditional
    <3> QED
      BY <1>0, <3>1, GoodKept, Zenon
  <2> QED
    BY <1>1, <2>2, <2>3, <2>4, Zenon
<1>6. CASE \E w \in todo : Create(w)
  <2>1. PICK w \in todo : Create(w)
    BY <1>6
  <2>2. epoch' = epoch /\ writes' = writes /\ w.op = "create" /\ requests' \in SUBSET (requests \cup {w})
    BY <2>1, Zenon DEF Create
  <2> SUFFICES ASSUME NEW u \in requests', u.op # "create", u.epoch = epoch'
               PROVE  Entry(u, TRUE) \in writes' \/ Spent(u)'
    BY Zenon DEF OwnInv, Conditional
  <2>3. u \in requests /\ (Entry(u, TRUE) \in writes \/ Spent(u))
    BY <2>2, Zenon DEF OwnInv, Conditional
  <2> QED
    BY <1>0, <2>2, <2>3, GoodKept, Zenon
<1>7. CASE Cluster
  <2>1. epoch' = epoch /\ writes' = writes /\ requests' \in SUBSET requests
    BY <1>7, Zenon DEF Cluster, Commit, Drop, Observe, StatusUpdate, OtherDelete, Collected, Other
  <2> QED
    BY <1>1, <2>1
<1>8. CASE Restart
  <2>1. epoch' = epoch + 1 /\ requests' = requests
    BY <1>8 DEF Restart
  <2>2. \A w \in requests' : w.epoch \in Nat /\ w.epoch <= epoch
    BY <1>0, <2>1 DEF Write
  <2>3. \A w \in requests' : w.epoch # epoch'
    BY <1>0, <2>1, <2>2
  <2> QED
    BY <2>3 DEF OwnInv, Conditional
<1> QED
  BY <1>2, <1>3, <1>4, <1>5, <1>6, <1>7, <1>8 DEF Next, Reconcile

-----------------------------------------------------------------------------
(* The takeover of a slice.                                                *)

\* Children become initialized when a write to them is observed, or when they
\* are created.
LEMMA InitializedSteps ==
  ASSUME TypeOK, LogInv, RequestInv, [Next]_vars
  PROVE  \/ initialized' \in SUBSET initialized
         \/ \E e \in writes : /\ receiptObserved(e)
                              /\ initialized' = initialized \cup {Child(e.write.key, e.write.uid)}
         \/ \E k \in Keys, c \in Version :
              /\ Extended(k, c) /\ c.uid = actual(k).version + 1 /\ count(actual(k)) = None /\ c.receipt.epoch = epoch
              /\ initialized' = initialized \cup {Child(k, c.uid)}
<1>1. CASE \E w \in todo : Create(w)
  <2>1. PICK w \in todo : Create(w)
    BY <1>1
  <2>2. w \in Write /\ Good(w) /\ w.epoch = epoch /\ w.op = "create" /\ epoch' = epoch /\ epoch \in Nat
    BY <2>1 DEF RequestInv, TypeOK, Create
  <2>3. CASE Applied(w) /\ initialized' = initialized \cup {Child(w.key, actual(w.key).version + 1)}
    <3>1. Extended(w.key, Written(w))
      BY <2>2, <2>3, AppliedExtends
    <3>2. /\ Written(w).uid = actual(w.key).version + 1 /\ Written(w).receipt = w
      BY <2>2, WrittenType
    <3>3. count(actual(w.key)) = None
      BY <2>2, <2>3, WrittenSound DEF Applied
    <3>4. w.key \in Keys /\ Written(w) \in Version
      BY <2>2, <3>1 DEF Write, Extended
    <3> QED
      BY <2>2, <2>3, <3>1, <3>2, <3>3, <3>4
  <2> QED
    BY <2>1, <2>3, Zenon DEF Create, Applied
<1>2. CASE checkWrite
  <2>1. PICK e \in writes : checkWriteResolves(e) \/ checkWriteRetries(e)
    BY <1>2 DEF checkWrite
  <2> QED
    BY <2>1, Zenon DEF checkWriteResolves, checkWriteRetries
<1>3. CASE \E w \in todo : Send(w)
  BY <1>3 DEF Send
<1>4. CASE prepareSlice \/ Plan \/ cleanupRemovedSlices \/ (\E k \in Keys : SyncMetadata(k)) \/ Edit \/ Restart \/ UNCHANGED vars
  BY <1>4 DEF prepareSlice, Plan, cleanupRemovedSlices, SyncMetadata, Edit, Restart, vars
<1>5. CASE Cluster
  BY <1>5, Zenon DEF Cluster, Commit, Drop, Observe, StatusUpdate, OtherDelete, Collected, Other
<1> QED
  BY <1>1, <1>2, <1>3, <1>4, <1>5, Zenon DEF Next, Reconcile

LEMMA OvertakenKept ==
  ASSUME TypeOK, LogInv, LogChange, NEW w \in Write, w.op # "create", Good(w), Overtaken(w) \/ Restart
  PROVE  Overtaken(w)'
<1> DEFINE k == w.key
<1>0. k \in Keys /\ epoch \in Nat
  BY DEF Write, TypeOK
<1> SUFFICES ASSUME NEW i \in 1 .. Len(log'[k]), log'[k][i].receipt.epoch = epoch'
             PROVE  w.version < log'[k][i].version
  BY DEF Overtaken
<1>1. CASE Restart
  <2>1. log'[k][1] = actual(k) /\ i = 1 /\ epoch' = epoch + 1
    BY <1>0, <1>1, RestartedLog DEF Restart
  <2>2. actual(k).receipt.epoch <= epoch /\ actual(k) \in Version
    <3>1. Len(log[k]) \in 1 .. Len(log[k])
      BY <1>0, LogType
    <3> QED
      BY <1>0, <3>1, LogType DEF LogInv, actual
  <2>3. actual(k).receipt.epoch \in Nat
    BY <2>2 DEF Version, Receipt
  <2> QED
    BY <1>0, <2>1, <2>2, <2>3
<1>2. CASE UNCHANGED <<log, epoch>> /\ Overtaken(w)
  BY <1>2, Zenon DEF Overtaken
<1>3. CASE (\E j \in Keys, c \in Version : Extended(j, c)) /\ Overtaken(w)
  <2>1. PICK j \in Keys, c \in Version : Extended(j, c)
    BY <1>3, Zenon
  <2>2. log' = Appended(j, c) /\ epoch' = epoch
    BY <2>1 DEF Extended
  <2>3. /\ \A h \in Keys \ {j} : log'[h] = log[h]
        /\ Len(log'[j]) = Len(log[j]) + 1
        /\ \A h \in 1 .. Len(log[j]) : log'[j][h] = log[j][h]
        /\ log'[j][Len(log[j]) + 1] = c
    BY <2>2, AppendedLog
  <2>4. CASE j # k
    BY <1>0, <1>3, <2>2, <2>3, <2>4 DEF Overtaken
  <2>5. CASE j = k
    <3>1. w.version < c.version
      BY <2>1, <2>5, ExtendedSpends
    <3>2. Len(log[k]) \in Nat
      BY <1>0, LogType
    <3>3. i \in 1 .. Len(log[k]) \/ i = Len(log[k]) + 1
      BY <2>3, <2>5, <3>2
    <3> QED
      BY <1>3, <2>2, <2>3, <2>5, <3>1, <3>3 DEF Overtaken
  <2> QED
    BY <2>4, <2>5
<1>4. CASE (\E j \in Keys : Observe(j)) /\ Overtaken(w)
  <2>1. PICK j \in Keys : Observe(j)
    BY <1>4
  <2>2. /\ \A h \in Keys \ {j} : log'[h] = log[h]
        /\ Len(log'[j]) = Len(log[j]) - 1
        /\ \A h \in 1 .. Len(log[j]) - 1 : log'[j][h] = log[j][h + 1]
    BY <2>1, ObservedLog
  <2>3. epoch' = epoch
    BY <2>1 DEF Observe
  <2>4. CASE j # k
    BY <1>0, <1>4, <2>2, <2>3, <2>4 DEF Overtaken
  <2>5. CASE j = k
    <3>1. Len(log[k]) \in Nat
      BY <1>0, LogType
    <3>2. i \in 1 .. Len(log[k]) - 1 /\ i + 1 \in 1 .. Len(log[k])
      BY <2>2, <2>5, <3>1
    <3> QED
      BY <1>4, <2>2, <2>3, <2>5, <3>2, Zenon DEF Overtaken
  <2> QED
    BY <2>4, <2>5
<1> QED
  BY <1>1, <1>2, <1>3, <1>4 DEF LogChange

LEMMA TakenOverStep ==
  ASSUME TypeOK, LogInv, RequestInv, TakenOverInv, [Next]_vars
  PROVE  TakenOverInv'
<1>0. /\ epoch \in Nat /\ LogChange
      /\ \A w \in requests \cup todo \cup Entries : w \in Write /\ Good(w) /\ w.epoch <= epoch
  BY LogSteps DEF RequestInv, TypeOK, Entries
<1>1. \/ epoch' = epoch /\ \A w \in requests' : w \in requests \/ w.epoch = epoch
      \/ Restart
  <2>1. CASE \E w \in todo : Send(w)
    <3>1. PICK w \in todo : Send(w)
      BY <2>1
    <3>2. \E v \in Write : v.epoch = epoch /\ requests' \in SUBSET (requests \cup {v})
      BY <3>1, SendCases, Zenon
    <3> QED
      BY <3>1, <3>2 DEF Send
  <2>2. CASE \E w \in todo : Create(w)
    <3>1. PICK w \in todo : Create(w)
      BY <2>2
    <3>2. epoch' = epoch /\ w.epoch = epoch /\ requests' \in SUBSET (requests \cup {w})
      BY <3>1, Zenon DEF Create, RequestInv
    <3> QED
      BY <3>2
  <2>3. CASE checkWrite
    <3>1. PICK e \in writes : checkWriteResolves(e) \/ checkWriteRetries(e)
      BY <2>3 DEF checkWrite
    <3>2. e.write.epoch = epoch
      BY DEF RequestInv, Entries
    <3> QED
      BY <3>1, <3>2, Zenon DEF checkWriteResolves, checkWriteRetries
  <2>4. CASE prepareSlice \/ Plan \/ cleanupRemovedSlices \/ (\E k \in Keys : SyncMetadata(k)) \/ Edit \/ UNCHANGED vars
    BY <2>4 DEF prepareSlice, Plan, cleanupRemovedSlices, SyncMetadata, Edit, vars
  <2>5. CASE Cluster
    BY <2>5, Zenon DEF Cluster, Commit, Drop, Observe, StatusUpdate, OtherDelete, Collected, Other
  <2> QED
    BY <2>1, <2>2, <2>3, <2>4, <2>5 DEF Next, Reconcile
<1>2. SUFFICES ASSUME NEW w \in requests', w.op # "create", w.epoch < epoch'
               PROVE  (Child(w.key, w.uid) \in initialized' => Spent(w)') /\ Overtaken(w)'
  BY DEF TakenOverInv, Conditional
<1>3. CASE Restart
  <2>1. initialized' = {} /\ requests' = requests
    BY <1>3 DEF Restart
  <2> QED
    BY <1>0, <1>2, <1>3, <2>1, OvertakenKept
<1>4. CASE epoch' = epoch /\ \A u \in requests' : u \in requests \/ u.epoch = epoch
  <2>1. w \in requests /\ w.epoch < epoch
    BY <1>0, <1>2, <1>4
  <2>2. Overtaken(w) /\ (Child(w.key, w.uid) \in initialized => Spent(w)) /\ w \in Write /\ Good(w)
    BY <1>0, <1>2, <2>1 DEF TakenOverInv, Conditional
  <2>3. Overtaken(w)' /\ (Spent(w) => Spent(w)')
    BY <1>0, <1>2, <2>2, OvertakenKept, GoodKept
  <2>4. ASSUME Child(w.key, w.uid) \in initialized' PROVE Spent(w) \/ Spent(w)'
    <3>1. CASE initialized' \in SUBSET initialized
      BY <2>2, <2>4, <3>1
    <3>2. ASSUME NEW e \in writes, receiptObserved(e), Child(w.key, w.uid) = Child(e.write.key, e.write.uid)
          PROVE  Spent(w)
      <4>1. w.key = e.write.key /\ e.write.epoch = epoch /\ w.key \in Keys /\ w.version \in Nat
        BY <2>2, <3>2 DEF Child, RequestInv, Entries, Write
      <4>2. cached(w.key).receipt.epoch = epoch
        BY <3>2, <4>1 DEF receiptObserved
      <4>3. 1 \in 1 .. Len(log[w.key]) /\ cached(w.key) = log[w.key][1]
        BY <4>1, LogType
      <4>4. w.version < cached(w.key).version
        BY <2>2, <4>2, <4>3 DEF Overtaken
      <4>5. cached(w.key).version <= actual(w.key).version /\ cached(w.key).version \in Nat /\ actual(w.key).version \in Nat
        BY <4>1, <4>3, LogOrder
      <4> QED
        BY <4>1, <4>4, <4>5 DEF Spent
    <3>3. ASSUME NEW k \in Keys, NEW c \in Version, Extended(k, c), Child(w.key, w.uid) = Child(k, c.uid)
          PROVE  Spent(w)'
      BY <1>2, <2>2, <3>3, ExtendedSpends DEF Child
    <3> QED
      BY <2>2, <2>4, <3>1, <3>2, <3>3, InitializedSteps, Zenon
  <2> QED
    BY <2>3, <2>4
<1> QED
  BY <1>1, <1>3, <1>4

-----------------------------------------------------------------------------
(* The barrier.                                                            *)

\* When the next step is planned, no earlier write can take effect.
LEMMA NothingBehind ==
  ASSUME TypeOK, LogInv, RequestInv, OwnInv, TakenOverInv, observed, Untaken = {}
  PROVE  \A w \in Conditional(Unanswered) : Spent(w)
<1>1. SUFFICES ASSUME NEW w \in requests, w.op # "create", ~Spent(w)
               PROVE  FALSE
  BY DEF Unanswered, Conditional, observed
<1>2. w \in Write /\ Good(w) /\ w.epoch <= epoch /\ w.epoch \in Nat /\ epoch \in Nat
  BY DEF RequestInv, TypeOK, Write
<1>3. w.epoch # epoch
  BY <1>1 DEF OwnInv, Conditional, observed
<1>4. Child(w.key, w.uid) \notin initialized
  BY <1>1, <1>2, <1>3 DEF TakenOverInv, Conditional
<1>5. Allowed(w)
  BY <1>1, <1>2, NotSpent
<1>6. live(cached(w.key)) /\ cached(w.key).uid = w.uid /\ w.key \in Keys
  BY <1>1, <1>2, <1>5, AllowedNow DEF Write
<1> QED
  BY <1>4, <1>6 DEF Untaken

LEMMA PlanStep ==
  ASSUME TypeOK, LogInv, RequestInv, OwnInv, TakenOverInv, PlanInv, [Next]_vars
  PROVE  PlanInv'
<1>0. /\ LogChange
      /\ \A w \in requests \cup todo \cup Entries : w \in Write /\ Good(w)
  BY LogSteps DEF RequestInv, TypeOK, Entries
<1>1. ASSUME Unanswered' \in SUBSET Unanswered, \A w \in Conditional(Unanswered) : Spent(w)
      PROVE  PlanInv'
  <2> SUFFICES ASSUME NEW w \in Unanswered', w.op # "create" PROVE Spent(w)'
    BY DEF PlanInv, Conditional
  <2>1. w \in Write /\ Good(w) /\ Spent(w)
    BY <1>0, <1>1 DEF Conditional, Unanswered, Entries
  <2> QED
    BY <1>0, <2>1, GoodKept
<1>2. ASSUME Unanswered' \in SUBSET Unanswered, todo' \in SUBSET todo
      PROVE  PlanInv'
  BY <1>1, <1>2 DEF PlanInv
<1>3. ASSUME \A w \in todo' : w.op \notin {"create", "scale"}
      PROVE  PlanInv'
  BY <1>3 DEF PlanInv
<1>4. CASE Plan
  <2>1. Unanswered' = Unanswered /\ observed /\ Untaken = {}
    BY <1>4 DEF Plan, Unanswered
  <2> QED
    BY <1>1, <2>1, NothingBehind
<1>5. CASE checkWrite
  BY <1>3, <1>5, Zenon DEF checkWrite, checkWriteResolves, checkWriteRetries
<1>6. CASE prepareSlice \/ cleanupRemovedSlices \/ \E k \in Keys : SyncMetadata(k)
  <2>1. \A k \in Keys : \A n : Request(k, "touch", n).op = "touch" /\ Request(k, "delete", n).op = "delete"
    BY DEF Request
  <2>2. \A w \in todo' : \E k \in Keys, n \in {0} \cup {cached(j).replicas : j \in Keys} :
          w = Request(k, "touch", n) \/ w = Request(k, "delete", n)
    BY <1>6 DEF prepareSlice, cleanupRemovedSlices, SyncMetadata, Untaken
  <2> QED
    BY <1>3, <2>1, <2>2
<1>7. CASE \E w \in todo : Send(w)
  <2>1. PICK w \in todo : Send(w)
    BY <1>7
  <2>2. PICK v \in Write :
           \/ writes' = writes \cup {Entry(v, FALSE)} /\ requests' = requests /\ todo' = Rest(w)
           \/ UNCHANGED <<requests, writes>> /\ todo' \in SUBSET todo
           \/ todo' = {}
    BY <2>1, SendCases, Zenon
  <2>3. CASE writes' = writes \cup {Entry(v, FALSE)} /\ requests' = requests /\ todo' = Rest(w)
    <3>1. ~Entry(v, FALSE).retry
      BY DEF Entry
    <3>2. Unanswered' \in SUBSET Unanswered
      BY <2>3, <3>1, Zenon DEF Unanswered
    <3> QED
      BY <1>2, <2>3, <3>2 DEF Rest
  <2>4. CASE UNCHANGED <<requests, writes>> /\ todo' \in SUBSET todo
    BY <1>2, <2>4 DEF Unanswered
  <2> QED
    BY <1>3, <2>2, <2>3, <2>4, Zenon
<1>8. CASE \E w \in todo : Create(w)
  <2>1. todo' = {} \/ (UNCHANGED <<requests, writes>> /\ todo' \in SUBSET todo)
    BY <1>8, Zenon DEF Create, Rest
  <2> QED
    BY <1>2, <1>3, <2>1 DEF Unanswered
<1>9. CASE Cluster \/ Edit \/ UNCHANGED vars
  <2>1. writes' = writes /\ todo' = todo /\ requests' \in SUBSET requests
    BY <1>9, Zenon DEF Cluster, Commit, Drop, Observe, StatusUpdate, OtherDelete, Collected, Other, Edit, vars
  <2>2. Unanswered' \in SUBSET Unanswered
    BY <2>1 DEF Unanswered
  <2> QED
    BY <1>2, <2>1, <2>2
<1>10. CASE Restart
  BY <1>3, <1>10 DEF Restart
<1> QED
  BY <1>4, <1>5, <1>6, <1>7, <1>8, <1>9, <1>10 DEF Next, Reconcile

-----------------------------------------------------------------------------
(* The invariant holds.                                                    *)

LEMMA WritesStart ==
  ASSUME Init
  PROVE  TypeOK /\ WritesInv
<1>1. \A k \in Keys : FirstVersion(Start[k]) \in Version /\ Sound(FirstVersion(Start[k]))
                      /\ FirstVersion(Start[k]).receipt.epoch = 0
  <2> SUFFICES ASSUME NEW k \in Keys
               PROVE  FirstVersion(Start[k]) \in Version /\ Sound(FirstVersion(Start[k]))
                      /\ FirstVersion(Start[k]).receipt.epoch = 0
    BY Zenon
  <2> DEFINE c == FirstVersion(Start[k])
             n == Start[k]
  <2>1. NoWrite \in Receipt /\ NoWrite.epoch = 0 /\ NoWrite.version = 0
    BY CountsAssumption DEF NoWrite, Receipt
  <2>2. n \in Counts \cup {None} /\ 0 \in Counts
    BY CountsAssumption
  <2> HIDE DEF n
  <2>3. CASE n = None
    <3>1. c = [uid |-> 0, version |-> 0, replicas |-> 0, receipt |-> NoWrite,
               unscaled |-> FALSE, deleting |-> FALSE, lost |-> FALSE]
      BY <2>3 DEF FirstVersion, Absent, n
    <3> QED
      BY <2>1, <2>2, <3>1 DEF Version, Sound, live, exists
  <2>4. CASE n # None
    <3>1. c = [uid |-> 1, version |-> 1, replicas |-> n, receipt |-> NoWrite,
               unscaled |-> FALSE, deleting |-> FALSE, lost |-> FALSE]
      BY <2>4, Zenon DEF FirstVersion, Absent, n
    <3> QED
      BY <2>1, <2>2, <2>4, <3>1 DEF Version, Sound, live, exists
  <2> QED
    BY <2>3, <2>4
<1>2. log = [k \in Keys |-> <<FirstVersion(Start[k])>>]
  BY DEF Init
<1>3. \A k \in Keys : log[k] = <<FirstVersion(Start[k])>> /\ Len(log[k]) = 1 /\ log[k][1] = FirstVersion(Start[k])
  BY <1>2, Zenon
<1>4. TypeOK
  <2> DEFINE s(k) == <<FirstVersion(Start[k])>>
  <2>1. \A k \in Keys : s(k) \in Seq(Version) \ {<<>>}
    <3> SUFFICES ASSUME NEW k \in Keys PROVE s(k) \in Seq(Version) \ {<<>>}
      BY Zenon
    <3> DEFINE c == FirstVersion(Start[k])
    <3>1. c \in Version
      BY <1>1
    <3> HIDE DEF c
    <3>2. <<c>> \in Seq(Version) /\ <<c>> # <<>>
      BY <3>1
    <3> QED
      BY <3>2 DEF c
  <2>2. log = [k \in Keys |-> s(k)]
    BY <1>2
  <2> HIDE DEF s
  <2>3. log \in [Keys -> Seq(Version) \ {<<>>}]
    BY <2>1, <2>2
  <2> QED
    BY <2>3, Zenon DEF Init, TypeOK
<1>5. LogInv
  <2>1. epoch = 1
    BY DEF Init
  <2>2. ASSUME NEW k \in Keys
        PROVE  /\ \A i, j \in 1 .. Len(log[k]) : i < j => log[k][i].version < log[k][j].version
               /\ \A i \in 1 .. Len(log[k]) : Sound(log[k][i]) /\ log[k][i].receipt.epoch <= epoch
    <3>1. \A i \in 1 .. Len(log[k]) : i = 1
      <4>1. Len(log[k]) = 1
        BY <1>3
      <4> QED
        BY <4>1
    <3>2. Sound(log[k][1]) /\ log[k][1].receipt.epoch <= epoch
      BY <1>1, <1>3, <2>1
    <3> QED
      BY <3>1, <3>2
  <2> QED
    BY <2>2, Zenon DEF LogInv
<1> QED
  BY <1>4, <1>5 DEF Init, WritesInv, RequestInv, OneOutstanding, OwnInv, TakenOverInv, PlanInv, Entries,
                          Conditional, Unanswered

LEMMA WritesStep ==
  ASSUME TypeOK, WritesInv, [Next]_vars
  PROVE  TypeOK' /\ WritesInv'
BY BaseStep, OutstandingStep, OwnStep, TakenOverStep, PlanStep DEF WritesInv

\* Every variable of ChildWrites keeps its type.
THEOREM TypeCorrect == Spec => []TypeOK
<1>1. Init => TypeOK /\ WritesInv
  BY WritesStart
<1>2. TypeOK /\ WritesInv /\ [Next]_vars => (TypeOK /\ WritesInv)'
  BY WritesStep
<1> QED
  BY <1>1, <1>2, PTL DEF Spec

\* pendingWrites.mutate and cleanupRemovedSlices: the controller never waits for
\* two writes to one child, and never sends one while it waits for another.
THEOREM OneOutstandingHolds == Spec => []OneOutstanding
<1>1. Init => TypeOK /\ WritesInv
  BY WritesStart
<1>2. TypeOK /\ WritesInv /\ [Next]_vars => (TypeOK /\ WritesInv)'
  BY WritesStep
<1>3. WritesInv => OneOutstanding
  BY DEF WritesInv
<1> QED
  BY <1>1, <1>2, <1>3, PTL DEF Spec
=============================================================================
