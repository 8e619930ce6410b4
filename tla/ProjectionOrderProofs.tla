----------------------- MODULE ProjectionOrderProofs -----------------------
(***************************************************************************)
(* The projection keeps the order of the outbox: as long as publications   *)
(* do not overlap and nothing has been dead-lettered, batches are the      *)
(* oldest part of the queue, however many workers crash and stall, so that *)
(* the watermark divides what is in Neo4j from what is not.                *)
(***************************************************************************)
EXTENDS GraphProjectionProofs

-----------------------------------------------------------------------------
(* Ranks.                                                                  *)

\* Rank of an id in a set of ids.
Below(x, S) == {j \in S : j < x}

LEMMA RankOfSubset ==
    ASSUME NEW S \in SUBSET Ids, NEW T \in SUBSET S
    PROVE  /\ Cardinality(S) \in Nat /\ Cardinality(T) \in Nat
           /\ Cardinality(T) <= Cardinality(S)
<1>1. IsFiniteSet(Ids)
  BY FS_Interval, BoundAssumption DEF Ids
<1>2. IsFiniteSet(S) /\ IsFiniteSet(T)
  BY <1>1, FS_Subset
<1> QED BY <1>2, FS_Subset, FS_CardinalityType

\* The lowest n of a set leave no gap below.
LEMMA LowestDownward ==
    ASSUME NEW n \in Nat, NEW S \in SUBSET Ids, NEW x \in Lowest(n, S), NEW y \in S, y < x
    PROVE  y \in Lowest(n, S)
<1>1. x \in S /\ Cardinality(Below(x, S)) < n
  BY DEF Lowest, Below
<1>2. Below(y, S) \subseteq Below(x, S) /\ Below(x, S) \in SUBSET Ids
  <2>1. \A j \in S : j \in Int
    BY DEF Ids
  <2> QED BY <1>1, <2>1 DEF Below
<1>3. Cardinality(Below(y, S)) < n
  BY <1>1, <1>2, RankOfSubset
<1> QED BY <1>3 DEF Lowest, Below

\* A batch is the lowest n of itself.
LEMMA LowestOfLowest ==
    ASSUME NEW n \in Nat, NEW S \in SUBSET Ids
    PROVE  Lowest(n, Lowest(n, S)) = Lowest(n, S)
<1> DEFINE L == Lowest(n, S)
<1>1. L \subseteq S /\ L \in SUBSET Ids
  BY DEF Lowest
<1>2. ASSUME NEW x \in L PROVE x \in Lowest(n, L)
  <2>1. Cardinality(Below(x, S)) < n
    BY <1>2 DEF Lowest, Below
  <2>2. Below(x, L) \subseteq Below(x, S) /\ Below(x, S) \in SUBSET Ids
    BY <1>1 DEF Below
  <2>3. Cardinality(Below(x, L)) < n
    BY <2>1, <2>2, RankOfSubset
  <2> QED BY <2>3 DEF Lowest, Below
<1>3. Lowest(n, L) \subseteq L
  BY DEF Lowest
<1> QED BY <1>2, <1>3

\* Whoever claims the lowest n of a set takes over every batch that was its oldest part.
LEMMA LowestTakesOver ==
    ASSUME NEW n \in Nat, NEW S \in SUBSET Ids, NEW B \in SUBSET S, B = Lowest(n, B),
           \A x \in B, y \in S : y < x => y \in B
    PROVE  B \subseteq Lowest(n, S)
<1> SUFFICES ASSUME NEW x \in B PROVE x \in Lowest(n, S)
  OBVIOUS
<1>1. Cardinality(Below(x, B)) < n
  BY DEF Lowest, Below
<1>2. Below(x, S) = Below(x, B)
  BY DEF Below
<1>3. Cardinality(Below(x, S)) < n
  BY <1>1, <1>2
<1> QED BY <1>3 DEF Lowest, Below

-----------------------------------------------------------------------------
(* What the steps do, field by field.                                      *)

Busy(w) == worker[w].pc # "idle"
OthersGoOn(w) == \A v \in Workers \ {w} : worker'[v] = worker[v]

\* The deployment apart from its lease and who holds it.
ProgressKept ==
    /\ deployment'.state = deployment.state /\ deployment'.desired = deployment.desired
    /\ deployment'.projected = deployment.projected /\ deployment'.requested = deployment.requested

\* Deliveries come into being, PENDING and never attempted.
Enqueues(ids) ==
    \A i \in Ids :
        IF i \in ids /\ delivery[i].status = "NONE"
        THEN /\ delivery'[i].status = "PENDING" /\ delivery'[i].owner = Nobody
             /\ ~delivery'[i].leased /\ delivery'[i].attempt = 0 /\ delivery'[i].wait = {}
        ELSE delivery'[i] = delivery[i]

LEMMA EnqueuedEffect ==
    ASSUME NEW ids, delivery' = Enqueued(ids)
    PROVE  Enqueues(ids)
BY DEF Enqueued, Enqueues, NewDelivery

Claims(w, batch) ==
    /\ ~Busy(w)
    /\ \A i \in Ids :
           IF i \in batch
           THEN /\ delivery'[i].status = "PROCESSING" /\ delivery'[i].owner = w
                /\ delivery'[i].leased
                /\ delivery'[i].attempt = delivery[i].attempt + 1
                /\ delivery'[i].wait = delivery[i].wait
           ELSE delivery'[i] = delivery[i]
    /\ worker'[w].pc = "claimed" /\ worker'[w].batch = batch /\ OthersGoOn(w)
    /\ deployment'.owner = w /\ deployment'.leased /\ ProgressKept

LEMMA ClaimEffect ==
    ASSUME TypeOK, NEW w \in Workers, Claim(w)
    PROVE  Claims(w, Lowest(BatchSize, Claimable))
<1> DEFINE batch == Lowest(BatchSize, Claimable)
<1>1. /\ delivery' = [i \in Ids |-> IF i \in batch
             THEN LeasedTo(w, delivery[i]) ELSE delivery[i]]
      /\ worker' = [worker EXCEPT ![w] = [Idle EXCEPT !.pc = "claimed", !.batch = batch]]
      /\ deployment' = [deployment EXCEPT !.owner = w, !.leased = TRUE]
      /\ worker[w].pc = "idle"
  BY DEF Claim
<1> HIDE DEF batch
<1>2. ASSUME NEW i \in batch, i \in Ids
      PROVE  /\ delivery'[i].status = "PROCESSING" /\ delivery'[i].owner = w
             /\ delivery'[i].leased
             /\ delivery'[i].attempt = delivery[i].attempt + 1
             /\ delivery'[i].wait = delivery[i].wait
  <2>1. delivery'[i] = LeasedTo(w, delivery[i]) /\ delivery[i] \in Delivery
    BY <1>1, <1>2 DEF TypeOK
  <2> QED BY <2>1 DEF LeasedTo, Delivery
<1>3. worker'[w].pc = "claimed" /\ worker'[w].batch = batch /\ OthersGoOn(w)
  BY <1>1 DEF TypeOK, Idle, OthersGoOn
<1>4. deployment'.owner = w /\ deployment'.leased /\ ProgressKept
  BY <1>1 DEF TypeOK, Deployment, ProgressKept
<1>5. Claims(w, batch)
  BY <1>1, <1>2, <1>3, <1>4 DEF Claims, Busy
<1> QED BY <1>5 DEF batch

\* A worker is busy with its batch before and after.
GoesOn(w) ==
    /\ Busy(w) /\ worker'[w].pc # "idle" /\ worker'[w].batch = worker[w].batch
    /\ OthersGoOn(w) /\ UNCHANGED <<delivery, deployment>>

LEMMA WorkEffect ==
    ASSUME TypeOK, NEW w \in Workers, Load(w) \/ Apply(w)
    PROVE  GoesOn(w)
BY DEF TypeOK, Process, Load, Apply, GoesOn, Busy, OthersGoOn, control

Frees(w) == Busy(w) /\ worker'[w] = Idle /\ OthersGoOn(w)

\* The lease on the deployment is given back by its owner only.
LetsGo(w) ==
    IF deployment.owner = w THEN deployment'.owner = Nobody /\ ~deployment'.leased
                            ELSE deployment' = deployment

Completes(w) ==
    /\ \A i \in Ids :
           IF i \in Held(w)
           THEN /\ delivery'[i].status = "PROCESSED" /\ delivery'[i].owner = Nobody
                /\ ~delivery'[i].leased /\ delivery'[i].attempt = delivery[i].attempt
           ELSE delivery'[i] = delivery[i]
    /\ Frees(w) /\ LetsGo(w)
    /\ deployment'.state = deployment.state /\ deployment'.desired = deployment.desired
    /\ deployment.owner = w =>
           /\ deployment'.projected = WatermarkAfter(w)
           /\ deployment'.requested = IF CaughtUp(delivery', WatermarkAfter(w))
                  THEN Greatest(deployment.requested, WatermarkAfter(w)) ELSE deployment.requested

LEMMA MarkProcessedEffect ==
    ASSUME TypeOK, NEW w \in Workers, MarkProcessed(w)
    PROVE  Completes(w)
<1>1. /\ worker[w].pc = "applied"
      /\ delivery' = [i \in Ids |-> IF i \in Held(w)
             THEN Finished(delivery[i]) ELSE delivery[i]]
      /\ worker' = [worker EXCEPT ![w] = Idle]
      /\ deployment.owner # w => deployment' = deployment
      /\ deployment.owner = w =>
            deployment' = [Released(deployment) EXCEPT !.projected = WatermarkAfter(w),
                !.requested = IF CaughtUp(delivery', WatermarkAfter(w))
                              THEN Greatest(@, WatermarkAfter(w)) ELSE @]
  BY DEF MarkProcessed
<1>2. ASSUME NEW i \in Held(w), i \in Ids
      PROVE  /\ delivery'[i].status = "PROCESSED" /\ delivery'[i].owner = Nobody
             /\ ~delivery'[i].leased /\ delivery'[i].attempt = delivery[i].attempt
  <2>1. delivery'[i] = Finished(delivery[i]) /\ delivery[i] \in Delivery
    BY <1>1, <1>2 DEF TypeOK
  <2> QED BY <2>1 DEF Finished, Released, Delivery
<1>3. Frees(w)
  BY <1>1 DEF TypeOK, Frees, Busy, OthersGoOn
<1>4. /\ LetsGo(w)
      /\ deployment'.state = deployment.state /\ deployment'.desired = deployment.desired
      /\ deployment.owner = w =>
           /\ deployment'.projected = WatermarkAfter(w)
           /\ deployment'.requested = IF CaughtUp(delivery', WatermarkAfter(w))
                  THEN Greatest(deployment.requested, WatermarkAfter(w)) ELSE deployment.requested
  BY <1>1 DEF TypeOK, Deployment, Released, LetsGo
<1> QED BY <1>1, <1>2, <1>3, <1>4 DEF Completes

Exhausted(w) == {i \in Held(w) : delivery[i].attempt >= MaxAttempts}

Fails(w) ==
    /\ \A i \in Ids :
           IF i \in Held(w)
           THEN /\ delivery'[i].status = IF i \in Exhausted(w) THEN "DEAD_LETTER" ELSE "PENDING"
                /\ delivery'[i].wait = IF i \in Exhausted(w) THEN delivery[i].wait ELSE Held(w)
                /\ delivery'[i].owner = Nobody
                /\ ~delivery'[i].leased /\ delivery'[i].attempt = delivery[i].attempt
           ELSE delivery'[i] = delivery[i]
    /\ Frees(w) /\ LetsGo(w)
    /\ deployment.owner = w =>
           /\ deployment'.state = IF Exhausted(w) # {} THEN "ERROR" ELSE deployment.state
           /\ deployment'.desired = deployment.desired
           /\ deployment'.projected = deployment.projected
           /\ deployment'.requested = deployment.requested

LEMMA FailEffect ==
    ASSUME TypeOK, NEW w \in Workers, Fail(w)
    PROVE  Fails(w)
<1>1. /\ worker[w].pc # "idle"
      /\ delivery' = [i \in Ids |->
             IF i \in Exhausted(w) THEN DeadLettered(delivery[i])
             ELSE IF i \in Held(w) THEN Postponed(delivery[i], Held(w)) ELSE delivery[i]]
      /\ worker' = [worker EXCEPT ![w] = Idle]
      /\ deployment' = IF deployment.owner # w THEN deployment
             ELSE [Released(deployment) EXCEPT
                      !.state = IF Exhausted(w) # {} THEN "ERROR" ELSE @]
  BY DEF Fail, Exhausted, Stops
<1>0. Exhausted(w) \subseteq Held(w)
  BY DEF Exhausted
<1>2. ASSUME NEW i \in Held(w), i \in Ids
      PROVE  /\ delivery'[i].status = IF i \in Exhausted(w) THEN "DEAD_LETTER" ELSE "PENDING"
             /\ delivery'[i].wait = IF i \in Exhausted(w) THEN delivery[i].wait ELSE Held(w)
             /\ delivery'[i].owner = Nobody
             /\ ~delivery'[i].leased /\ delivery'[i].attempt = delivery[i].attempt
  <2>1. delivery[i] \in Delivery
    BY <1>2 DEF TypeOK
  <2>2. CASE i \in Exhausted(w)
    <3>1. delivery'[i] = DeadLettered(delivery[i])
      BY <1>1, <1>2, <2>2
    <3> QED BY <2>1, <2>2, <3>1 DEF DeadLettered, Released, Delivery
  <2>3. CASE i \notin Exhausted(w)
    <3>1. delivery'[i] = Postponed(delivery[i], Held(w))
      BY <1>1, <1>2, <2>3
    <3> QED BY <2>1, <2>3, <3>1 DEF Postponed, Released, Delivery
  <2> QED BY <2>2, <2>3
<1>3. \A i \in Ids : i \notin Held(w) => delivery'[i] = delivery[i]
  BY <1>0, <1>1
<1>4. Frees(w)
  BY <1>1 DEF TypeOK, Frees, Busy, OthersGoOn
<1>5. /\ LetsGo(w)
      /\ deployment.owner = w =>
           /\ deployment'.state = IF Exhausted(w) # {} THEN "ERROR" ELSE deployment.state
           /\ deployment'.desired = deployment.desired
           /\ deployment'.projected = deployment.projected
           /\ deployment'.requested = deployment.requested
  BY <1>1 DEF TypeOK, Deployment, Released, LetsGo
<1> QED BY <1>2, <1>3, <1>4, <1>5 DEF Fails

LEMMA CrashEffect ==
    ASSUME TypeOK, NEW w \in Workers, Crash(w)
    PROVE  Frees(w) /\ UNCHANGED <<delivery, deployment>>
BY DEF TypeOK, Crash, Frees, Busy, OthersGoOn, control

\* A delivery apart from its lease and its wait.
DeliveriesKept ==
    \A i \in Ids : /\ delivery'[i].status = delivery[i].status
                   /\ delivery'[i].owner = delivery[i].owner
                   /\ delivery'[i].attempt = delivery[i].attempt

LEMMA LeaseExpiresEffect ==
    ASSUME TypeOK, LeaseExpires
    PROVE  /\ DeliveriesKept /\ \A i \in Ids : delivery'[i].wait = delivery[i].wait
           /\ \A i \in Ids : ~delivery'[i].leased
           /\ deployment'.owner = deployment.owner /\ ~deployment'.leased /\ ProgressKept
<1>1. /\ deployment' = [deployment EXCEPT !.leased = FALSE]
      /\ delivery' = [i \in Ids |-> [delivery[i] EXCEPT !.leased = FALSE]]
  BY DEF LeaseExpires
<1>2. deployment'.owner = deployment.owner /\ ~deployment'.leased /\ ProgressKept
  BY <1>1 DEF TypeOK, Deployment, ProgressKept
<1>3. ASSUME NEW i \in Ids
      PROVE  /\ delivery'[i].status = delivery[i].status /\ delivery'[i].owner = delivery[i].owner
             /\ delivery'[i].attempt = delivery[i].attempt
             /\ delivery'[i].wait = delivery[i].wait /\ ~delivery'[i].leased
  <2>1. delivery[i] \in Delivery
    BY DEF TypeOK
  <2> QED BY <1>1, <2>1 DEF Delivery
<1> QED BY <1>2, <1>3 DEF DeliveriesKept

LEMMA BackoffEffect ==
    ASSUME TypeOK, NEW b \in Ids, BackoffElapses(b)
    PROVE  /\ DeliveriesKept /\ UNCHANGED <<deployment, worker>>
           /\ \A i \in Ids : delivery'[i].leased = delivery[i].leased
           /\ \A i \in Ids : delivery'[i].wait =
                  IF delivery[i].wait = delivery[b].wait /\ delivery[i].attempt <= delivery[b].attempt
                  THEN {} ELSE delivery[i].wait
<1>1. delivery' = [j \in Ids |->
           IF delivery[j].wait = delivery[b].wait /\ delivery[j].attempt <= delivery[b].attempt
           THEN [delivery[j] EXCEPT !.wait = {}] ELSE delivery[j]]
  BY DEF BackoffElapses
<1>2. ASSUME NEW i \in Ids
      PROVE  /\ delivery'[i].status = delivery[i].status /\ delivery'[i].owner = delivery[i].owner
             /\ delivery'[i].attempt = delivery[i].attempt
             /\ delivery'[i].leased = delivery[i].leased
             /\ delivery'[i].wait =
                  IF delivery[i].wait = delivery[b].wait /\ delivery[i].attempt <= delivery[b].attempt
                  THEN {} ELSE delivery[i].wait
  <2>1. delivery[i] \in Delivery
    BY DEF TypeOK
  <2> QED BY <1>1, <2>1 DEF Delivery
<1> QED BY <1>2 DEF BackoffElapses, DeliveriesKept

-----------------------------------------------------------------------------
(* Publications follow one another.                                        *)

Allocated == {i \in Ids : outbox[i] # NoRow}

\* The outbox grows by the ids that follow those allocated so far.
Grows(ids) ==
    /\ ids \subseteq Unallocated
    /\ \A i \in ids, j \in Unallocated : j < i => j \in ids
    /\ \A i \in Ids : IF i \in ids THEN outbox'[i] # NoRow ELSE outbox'[i] = outbox[i]

OtherTransactionsGoOn(s) == \A r \in Sources \ {s} : txn'[r] = txn[r]

LEMMA NextIdsFollow ==
    ASSUME NEW things, NEW ids, ids = NextIds(Cardinality(things)), NEW f \in Pairings(ids, things)
    PROVE  /\ ids \subseteq Unallocated
           /\ \A i \in ids, j \in Unallocated : j < i => j \in ids
           /\ things # {} => ids # {}
<1> DEFINE n == Cardinality(things)
<1>1. Unallocated \in SUBSET Ids /\ ids = Lowest(n, Unallocated)
  BY DEF Unallocated, NextIds, Lowest
<1>2. IsFiniteSet(ids)
  <2>1. IsFiniteSet(Ids)
    BY FS_Interval, BoundAssumption DEF Ids
  <2>2. ids \in SUBSET Ids
    BY <1>1 DEF Lowest
  <2> QED BY <2>1, <2>2, FS_Subset
<1>3. n \in Nat
  <2>1. f \in Surjection(ids, things)
    BY DEF Pairings, Surjection
  <2> QED BY <1>2, <2>1, FS_Surjection, FS_CardinalityType
<1> HIDE DEF n
<1>4. \A i \in ids, j \in Unallocated : j < i => j \in ids
  BY <1>1, <1>3, LowestDownward
<1>5. things # {} => ids # {}
  BY DEF Pairings
<1> QED BY <1>1, <1>4, <1>5 DEF Lowest

LEMMA InsertClosesEffect ==
    ASSUME TypeOK, NEW s \in Sources, NEW facts \in SUBSET Ids, facts # {},
           NEW keys \in SUBSET Keys, InsertCloses(s, facts, keys)
    PROVE  \E ids \in SUBSET Ids :
              /\ ids # {} /\ Grows(ids)
              /\ \A i \in ids : /\ outbox'[i].op = "CLOSE"
                                /\ \E f \in facts : outbox'[i].key = outbox[f].key
              /\ \A f \in facts : \E i \in ids : outbox'[i].key = outbox[f].key
              /\ txn'[s].open /\ txn'[s].rows = ids /\ txn'[s].fresh = ids
              /\ txn'[s].seen = {} /\ txn'[s].closes = facts /\ txn'[s].todo = keys
              /\ OtherTransactionsGoOn(s)
<1> DEFINE ids == NextIds(Cardinality(facts))
<1>1. PICK f \in Pairings(ids, facts) :
        outbox' = [i \in Ids |-> IF i \in ids THEN Row("CLOSE", f[i], KeyOf(f[i])) ELSE outbox[i]]
  BY DEF InsertCloses
<1>2. /\ txn'[s].open /\ txn'[s].rows = ids /\ txn'[s].fresh = ids
      /\ txn'[s].seen = {} /\ txn'[s].closes = facts /\ txn'[s].todo = keys
      /\ OtherTransactionsGoOn(s)
  <2>1. txn' = [txn EXCEPT ![s] = [NoTxn EXCEPT !.open = TRUE, !.rows = ids,
                             !.fresh = ids, !.closes = facts, !.todo = keys]]
    BY DEF InsertCloses
  <2> HIDE DEF ids
  <2> QED BY <2>1 DEF TypeOK, NoTxn, OtherTransactionsGoOn
<1>3. /\ ids \subseteq Unallocated
      /\ \A i \in ids, j \in Unallocated : j < i => j \in ids
      /\ ids # {}
  BY NextIdsFollow
<1>4. ids \in SUBSET Ids
  BY <1>3 DEF Unallocated
<1> HIDE DEF ids
<1>5. \A i \in ids : /\ f[i] \in facts /\ outbox'[i].op = "CLOSE"
                     /\ outbox'[i].key = outbox[f[i]].key
  BY <1>1, <1>4 DEF Pairings, Row, KeyOf
<1>6. \A g \in facts : \E i \in ids : f[i] = g
  BY DEF Pairings
<1>7. Grows(ids)
  BY <1>1, <1>3, <1>4, <1>5 DEF Grows, NoRow
<1>8. /\ \A i \in ids : \E g \in facts : outbox'[i].key = outbox[g].key
      /\ \A g \in facts : \E i \in ids : outbox'[i].key = outbox[g].key
  BY <1>5, <1>6
<1> WITNESS ids \in SUBSET Ids
<1> QED BY <1>2, <1>3, <1>5, <1>7, <1>8

LEMMA InsertUpsertsEffect ==
    ASSUME TypeOK, NEW s \in Sources, NEW t \in Transaction, NEW keys \in SUBSET Keys, keys # {},
           InsertUpserts(s, t, keys)
    PROVE  \E ids \in SUBSET Ids :
              /\ ids # {} /\ Grows(ids)
              /\ \A i \in ids : /\ outbox'[i].op = "UPSERT" /\ outbox'[i].fact = i
                                /\ outbox'[i].key \in keys
              /\ txn'[s].open /\ txn'[s].rows = t.rows \cup ids /\ txn'[s].fresh = ids
              /\ txn'[s].seen = t.seen /\ txn'[s].closes = t.closes /\ txn'[s].todo = {}
              /\ OtherTransactionsGoOn(s)
<1> DEFINE ids == NextIds(Cardinality(keys))
<1>1. PICK f \in Pairings(ids, keys) :
        outbox' = [i \in Ids |-> IF i \in ids THEN Row("UPSERT", i, f[i]) ELSE outbox[i]]
  BY DEF InsertUpserts
<1>2. /\ txn'[s].open /\ txn'[s].rows = t.rows \cup ids /\ txn'[s].fresh = ids
      /\ txn'[s].seen = t.seen /\ txn'[s].closes = t.closes /\ txn'[s].todo = {}
      /\ OtherTransactionsGoOn(s)
  <2>1. txn' = [txn EXCEPT ![s] = [t EXCEPT !.open = TRUE, !.rows = @ \cup ids,
                             !.fresh = ids, !.todo = {}]]
    BY DEF InsertUpserts
  <2> HIDE DEF ids
  <2> QED BY <2>1 DEF TypeOK, Transaction, OtherTransactionsGoOn
<1>3. /\ ids \subseteq Unallocated
      /\ \A i \in ids, j \in Unallocated : j < i => j \in ids
      /\ ids # {}
  BY NextIdsFollow
<1>4. ids \in SUBSET Ids
  BY <1>3 DEF Unallocated
<1> HIDE DEF ids
<1>5. \A i \in ids : /\ f[i] \in keys /\ outbox'[i].op = "UPSERT" /\ outbox'[i].fact = i
                     /\ outbox'[i].key = f[i]
  BY <1>1, <1>4 DEF Pairings, Row
<1>6. Grows(ids)
  BY <1>1, <1>3, <1>4, <1>5 DEF Grows, NoRow
<1>7. \A i \in ids : outbox'[i].key \in keys
  BY <1>5
<1> WITNESS ids \in SUBSET Ids
<1> QED BY <1>2, <1>3, <1>5, <1>6, <1>7

\* A publication's first statement closes what its source asserted, or inserts new facts.
Starts(s, ids) ==
    /\ Grows(ids) /\ OtherTransactionsGoOn(s)
    /\ txn'[s].open /\ txn'[s].rows = ids /\ txn'[s].fresh = ids /\ txn'[s].seen = {}
    /\ \A k \in txn'[s].todo : Owner[k] = s
    /\ \/ /\ txn'[s].closes = CurrentOf(s)
          /\ \A i \in ids : /\ outbox'[i].op = "CLOSE"
                            /\ \E f \in CurrentOf(s) : outbox'[i].key = outbox[f].key
          /\ \A f \in CurrentOf(s) : \E i \in ids : outbox'[i].key = outbox[f].key
       \/ /\ txn'[s].closes = {}
          /\ \A i \in ids : /\ outbox'[i].op = "UPSERT" /\ outbox'[i].fact = i
                            /\ outbox'[i].key \in Keys /\ Owner[outbox'[i].key] = s

LEMMA StartsWithCloses ==
    ASSUME TypeOK, NEW s \in Sources, CurrentOf(s) # {},
           NEW keys \in SUBSET Keys, \A k \in keys : Owner[k] = s,
           InsertCloses(s, CurrentOf(s), keys)
    PROVE  \E ids \in SUBSET Ids : ids # {} /\ Starts(s, ids)
<1>1. CurrentOf(s) \in SUBSET Ids
  BY DEF CurrentOf, TypeOK
<1>2. PICK ids \in SUBSET Ids :
              /\ ids # {} /\ Grows(ids)
              /\ \A i \in ids : /\ outbox'[i].op = "CLOSE"
                                /\ \E f \in CurrentOf(s) : outbox'[i].key = outbox[f].key
              /\ \A f \in CurrentOf(s) : \E i \in ids : outbox'[i].key = outbox[f].key
              /\ txn'[s].open /\ txn'[s].rows = ids /\ txn'[s].fresh = ids
              /\ txn'[s].seen = {} /\ txn'[s].closes = CurrentOf(s) /\ txn'[s].todo = keys
              /\ OtherTransactionsGoOn(s)
  BY <1>1, InsertClosesEffect
<1>3. Starts(s, ids)
  BY <1>2 DEF Starts
<1> QED BY <1>2, <1>3

LEMMA StartsWithUpserts ==
    ASSUME TypeOK, NEW s \in Sources,
           NEW keys \in SUBSET Keys, keys # {}, \A k \in keys : Owner[k] = s,
           InsertUpserts(s, NoTxn, keys)
    PROVE  \E ids \in SUBSET Ids : ids # {} /\ Starts(s, ids)
<1>1. NoTxn \in Transaction
  BY DEF NoTxn, Transaction
<1>2. PICK ids \in SUBSET Ids :
              /\ ids # {} /\ Grows(ids)
              /\ \A i \in ids : /\ outbox'[i].op = "UPSERT" /\ outbox'[i].fact = i
                                /\ outbox'[i].key \in keys
              /\ txn'[s].open /\ txn'[s].rows = NoTxn.rows \cup ids /\ txn'[s].fresh = ids
              /\ txn'[s].seen = NoTxn.seen /\ txn'[s].closes = NoTxn.closes
              /\ txn'[s].todo = {} /\ OtherTransactionsGoOn(s)
  BY <1>1, InsertUpsertsEffect
<1>3. NoTxn.rows = {} /\ NoTxn.seen = {} /\ NoTxn.closes = {}
  BY DEF NoTxn
<1>4. Starts(s, ids)
  BY <1>2, <1>3 DEF Starts
<1> QED BY <1>2, <1>4

LEMMA BeginEffect ==
    ASSUME TypeOK, NEW s \in Sources, BeginPublish(s)
    PROVE  \E ids \in SUBSET Ids : ids # {} /\ Starts(s, ids)
<1>1. \E keys \in SUBSET Keys :
        /\ \A k \in keys : Owner[k] = s
        /\ \/ CurrentOf(s) # {} /\ InsertCloses(s, CurrentOf(s), keys)
           \/ keys # {} /\ InsertUpserts(s, NoTxn, keys)
  BY DEF BeginPublish, ClosedBy
<1> QED BY <1>1, StartsWithCloses, StartsWithUpserts

\* The trigger has seen the statement's rows; the statement that inserts the new facts, if
\* one is left, follows.
Continues(s, ids) ==
    /\ Grows(ids) /\ OtherTransactionsGoOn(s)
    /\ txn[s].open => txn'[s].open
    /\ txn'[s].rows = txn[s].rows \cup ids /\ txn'[s].fresh = ids
    /\ txn'[s].seen = txn[s].seen \cup (IF deployment.state = "ACTIVE" THEN txn[s].fresh ELSE {})
    /\ txn'[s].closes = txn[s].closes /\ txn'[s].todo = {}
    /\ \A i \in ids : /\ outbox'[i].op = "UPSERT" /\ outbox'[i].fact = i
                      /\ outbox'[i].key \in txn[s].todo

LEMMA FireEffect ==
    ASSUME TypeOK, NEW s \in Sources, FireTriggers(s)
    PROVE  \E ids \in SUBSET Ids : Continues(s, ids)
<1> DEFINE seen == txn[s].seen \cup (IF deployment.state = "ACTIVE" THEN txn[s].fresh ELSE {})
           t == [txn[s] EXCEPT !.fresh = {}, !.seen = seen]
<1>1. txn[s] \in Transaction /\ seen \in SUBSET Ids
  BY DEF TypeOK, Transaction
<1>2. IF txn[s].todo # {} THEN InsertUpserts(s, t, txn[s].todo)
                          ELSE txn' = [txn EXCEPT ![s] = t] /\ UNCHANGED outbox
  BY DEF FireTriggers
<1> HIDE DEF seen
<1>3. /\ t \in Transaction /\ t.open = txn[s].open /\ t.rows = txn[s].rows /\ t.fresh = {}
      /\ t.seen = seen /\ t.closes = txn[s].closes /\ t.todo = txn[s].todo
  BY <1>1 DEF Transaction
<1> HIDE DEF t
<1>4. CASE txn[s].todo # {}
  <2>1. txn[s].todo \in SUBSET Keys
    BY <1>1 DEF Transaction
  <2>2. PICK ids \in SUBSET Ids :
              /\ ids # {} /\ Grows(ids)
              /\ \A i \in ids : /\ outbox'[i].op = "UPSERT" /\ outbox'[i].fact = i
                                /\ outbox'[i].key \in txn[s].todo
              /\ txn'[s].open /\ txn'[s].rows = t.rows \cup ids /\ txn'[s].fresh = ids
              /\ txn'[s].seen = t.seen /\ txn'[s].closes = t.closes /\ txn'[s].todo = {}
              /\ OtherTransactionsGoOn(s)
    BY <1>2, <1>3, <1>4, <2>1, InsertUpsertsEffect
  <2>3. Continues(s, ids)
    BY <1>3, <2>2 DEF Continues, seen
  <2> QED BY <2>3
<1>5. CASE txn[s].todo = {}
  <2>1. txn'[s] = t /\ OtherTransactionsGoOn(s) /\ outbox' = outbox
    BY <1>2, <1>5 DEF TypeOK, OtherTransactionsGoOn
  <2>2. Grows({})
    BY <2>1 DEF Grows
  <2>3. Continues(s, {})
    BY <1>3, <1>5, <2>1, <2>2 DEF Continues, seen
  <2> QED BY <2>3
<1> QED BY <1>4, <1>5

-----------------------------------------------------------------------------
(* PublishInOrder.                                                         *)

OneTransaction == \A r, s \in Sources : txn[r].open /\ txn[s].open => r = s

\* The rows of a transaction follow every committed one, and the rows to come follow both.
RowsAreNew ==
    /\ committed \subseteq Allocated
    /\ \A s \in Sources :
           /\ txn[s].rows \subseteq Allocated /\ txn[s].fresh \subseteq txn[s].rows
           /\ txn[s].open => txn[s].rows # {}
           /\ \A i \in committed, j \in txn[s].rows : i < j
    /\ \A i \in Allocated : i \in committed \/ \E s \in Sources : i \in txn[s].rows
    /\ \A i \in Allocated, j \in Unallocated : i < j

\* Once the deployment is ACTIVE, the trigger has seen all a transaction wrote, except what
\* its last statement wrote; it keeps the deployment from changing until the commit.
SeenWhileActive ==
    \A s \in Sources :
        /\ txn[s].seen \subseteq txn[s].rows \ txn[s].fresh
        /\ deployment.state = "ACTIVE" => txn[s].seen = txn[s].rows \ txn[s].fresh
        /\ txn[s].seen # {} => deployment.state = "ACTIVE" /\ rowLock = s

ClosedIsEmpty == \A s \in Sources : ~txn[s].open => txn[s] = NoTxn
DeliveredIsCommitted == Delivered(delivery) \subseteq committed

PublishInOrder ==
    OneTransaction /\ ClosedIsEmpty /\ RowsAreNew /\ SeenWhileActive /\ DeliveredIsCommitted

DeliveredKept == \A i \in Ids : delivery'[i].status = "NONE" <=> delivery[i].status = "NONE"

\* What leaves publications and the set of deliveries alone keeps the order, unless it
\* activates the deployment, or stops it behind the back of a transaction.
LEMMA PublicationsUntouched ==
    ASSUME PublishInOrder, UNCHANGED <<outbox, committed, txn, rowLock>>,
           DeliveredKept,
           \/ deployment'.state = deployment.state
           \/ deployment'.state = "ERROR" /\ \A s \in Sources : txn[s].seen = {}
    PROVE  PublishInOrder'
BY DEF PublishInOrder, OneTransaction, ClosedIsEmpty, RowsAreNew, SeenWhileActive,
       DeliveredIsCommitted, Allocated, Unallocated, NoTxn, Delivered, DeliveredKept, NoRow

LEMMA BeginInOrder ==
    ASSUME IInv, PublishInOrder, "overlap" \notin Adversity, NEW s \in Sources, BeginPublish(s)
    PROVE  PublishInOrder'
<1>1. /\ \A r \in Sources : ~txn[r].open
      /\ UNCHANGED <<committed, rowLock, deployment, delivery>>
  BY DEF BeginPublish, control
<1>2. PICK ids \in SUBSET Ids : ids # {} /\ Starts(s, ids)
  BY BeginEffect DEF IInv
<1>3. \A r \in Sources : txn[r] = NoTxn
  BY <1>1 DEF PublishInOrder, ClosedIsEmpty
<1>4. NoTxn.open = FALSE /\ NoTxn.rows = {} /\ NoTxn.fresh = {} /\ NoTxn.seen = {}
  BY DEF NoTxn
<1>5. /\ txn'[s].open /\ txn'[s].rows = ids /\ txn'[s].fresh = ids /\ txn'[s].seen = {}
      /\ \A r \in Sources \ {s} : txn'[r] = NoTxn
  BY <1>2, <1>3 DEF Starts, OtherTransactionsGoOn
<1>6. /\ ids \subseteq Unallocated
      /\ \A i \in ids, j \in Unallocated : j < i => j \in ids
      /\ Allocated' = Allocated \cup ids /\ Unallocated' = Unallocated \ ids
  BY <1>2 DEF Starts, Grows, Allocated, Unallocated
<1>7. OneTransaction' /\ ClosedIsEmpty'
  BY <1>4, <1>5 DEF OneTransaction, ClosedIsEmpty, NoTxn
<1>8. SeenWhileActive' /\ DeliveredIsCommitted'
  BY <1>1, <1>4, <1>5 DEF PublishInOrder, SeenWhileActive, DeliveredIsCommitted, Delivered
<1>9. RowsAreNew'
  <2>1. \A i \in Allocated' : i \in committed' \/ \E r \in Sources : i \in txn'[r].rows
    BY <1>1, <1>3, <1>4, <1>5, <1>6 DEF PublishInOrder, RowsAreNew
  <2>2. \A i \in Allocated', j \in Unallocated' : i < j
    <3>1. \A i \in ids, j \in Unallocated \ ids : i < j
      <4>1. \A i \in ids, j \in Unallocated \ ids : i \in Int /\ j \in Int /\ i # j /\ ~(j < i)
        BY <1>6 DEF Unallocated, Ids
      <4> QED BY <4>1
    <3> QED BY <1>6, <3>1 DEF PublishInOrder, RowsAreNew
  <2>3. \A r \in Sources :
           /\ txn'[r].rows \subseteq Allocated' /\ txn'[r].fresh \subseteq txn'[r].rows
           /\ txn'[r].open => txn'[r].rows # {}
           /\ \A i \in committed', j \in txn'[r].rows : i < j
    BY <1>1, <1>2, <1>4, <1>5, <1>6 DEF PublishInOrder, RowsAreNew
  <2>4. committed' \subseteq Allocated'
    BY <1>1, <1>6 DEF PublishInOrder, RowsAreNew
  <2> QED BY <2>1, <2>2, <2>3, <2>4 DEF RowsAreNew
<1> QED BY <1>7, <1>8, <1>9 DEF PublishInOrder

LEMMA FireInOrder ==
    ASSUME IInv, PublishInOrder, NEW s \in Sources, FireTriggers(s)
    PROVE  PublishInOrder'
<1>1. /\ txn[s].fresh # {}
      /\ IF deployment.state = "ACTIVE" THEN rowLock \in {Nobody, s} /\ rowLock' = s
                                        ELSE rowLock' = rowLock
      /\ UNCHANGED <<committed, deployment, delivery>>
  BY DEF FireTriggers, control
<1>2. PICK ids \in SUBSET Ids : Continues(s, ids)
  BY FireEffect DEF IInv
<1>3. txn[s].open
  BY <1>1 DEF PublishInOrder, ClosedIsEmpty, NoTxn
<1>4. /\ txn'[s].open /\ txn'[s].rows = txn[s].rows \cup ids /\ txn'[s].fresh = ids
      /\ txn'[s].seen = txn[s].seen \cup (IF deployment.state = "ACTIVE" THEN txn[s].fresh ELSE {})
      /\ \A r \in Sources \ {s} : txn'[r] = txn[r] /\ txn[r] = NoTxn
  BY <1>2, <1>3 DEF Continues, OtherTransactionsGoOn, PublishInOrder, ClosedIsEmpty, OneTransaction
<1>5. NoTxn.open = FALSE /\ NoTxn.rows = {} /\ NoTxn.fresh = {} /\ NoTxn.seen = {}
  BY DEF NoTxn
<1>6. /\ ids \subseteq Unallocated
      /\ \A i \in ids, j \in Unallocated : j < i => j \in ids
      /\ Allocated' = Allocated \cup ids /\ Unallocated' = Unallocated \ ids
  BY <1>2 DEF Continues, Grows, Allocated, Unallocated
<1>7. OneTransaction' /\ ClosedIsEmpty'
  BY <1>4, <1>5 DEF OneTransaction, ClosedIsEmpty
<1>8. SeenWhileActive'
  <2>1. txn[s].fresh \subseteq txn[s].rows /\ txn[s].rows \cap ids = {}
    BY <1>6 DEF PublishInOrder, RowsAreNew, Allocated, Unallocated
  <2>2. ASSUME NEW r \in Sources
        PROVE  /\ txn'[r].seen \subseteq txn'[r].rows \ txn'[r].fresh
               /\ deployment'.state = "ACTIVE" => txn'[r].seen = txn'[r].rows \ txn'[r].fresh
               /\ txn'[r].seen # {} => deployment'.state = "ACTIVE" /\ rowLock' = r
    <3>1. CASE r = s
      BY <1>1, <1>4, <2>1, <3>1 DEF PublishInOrder, SeenWhileActive
    <3>2. CASE r # s
      BY <1>4, <1>5, <3>2
    <3> QED BY <3>1, <3>2
  <2> QED BY <2>2 DEF SeenWhileActive
<1>9. DeliveredIsCommitted'
  BY <1>1 DEF PublishInOrder, DeliveredIsCommitted, Delivered
<1>10. RowsAreNew'
  <2>1. \A i \in Allocated' : i \in committed' \/ \E r \in Sources : i \in txn'[r].rows
    BY <1>1, <1>4, <1>6 DEF PublishInOrder, RowsAreNew
  <2>2. \A i \in Allocated', j \in Unallocated' : i < j
    <3>1. \A i \in ids, j \in Unallocated \ ids : i < j
      <4>1. \A i \in ids, j \in Unallocated \ ids : i \in Int /\ j \in Int /\ i # j /\ ~(j < i)
        BY <1>6 DEF Unallocated, Ids
      <4> QED BY <4>1
    <3> QED BY <1>6, <3>1 DEF PublishInOrder, RowsAreNew
  <2>3. \A r \in Sources :
           /\ txn'[r].rows \subseteq Allocated' /\ txn'[r].fresh \subseteq txn'[r].rows
           /\ txn'[r].open => txn'[r].rows # {}
           /\ \A i \in committed', j \in txn'[r].rows : i < j
    BY <1>1, <1>3, <1>4, <1>5, <1>6 DEF PublishInOrder, RowsAreNew
  <2>4. committed' \subseteq Allocated'
    BY <1>1, <1>6 DEF PublishInOrder, RowsAreNew
  <2> QED BY <2>1, <2>2, <2>3, <2>4 DEF RowsAreNew
<1> QED BY <1>7, <1>8, <1>9, <1>10 DEF PublishInOrder

\* Committing a transaction makes what it wrote the newest committed rows.
LEMMA CommitEffect ==
    ASSUME IInv, PublishInOrder, NEW s \in Sources, CommitPublish(s)
    PROVE  /\ txn[s].open /\ txn[s].fresh = {} /\ Enqueues(txn[s].seen)
           /\ committed' = committed \cup txn[s].rows
           /\ txn[s].rows \in SUBSET Ids /\ txn[s].seen \subseteq txn[s].rows
           /\ deployment.state = "ACTIVE" => txn[s].seen = txn[s].rows
           /\ \A i \in committed, j \in txn[s].rows : i < j
           /\ deployment'.desired = Raised(txn[s].seen)
           /\ deployment'.state = deployment.state /\ deployment'.owner = deployment.owner
           /\ deployment'.leased = deployment.leased /\ deployment'.projected = deployment.projected
           /\ deployment'.requested = deployment.requested
           /\ \A r \in Sources : txn'[r] = NoTxn
           /\ UNCHANGED <<outbox, worker, edges>>
<1>1. /\ txn[s].open /\ txn[s].fresh = {} /\ delivery' = Enqueued(txn[s].seen)
      /\ committed' = committed \cup txn[s].rows
      /\ deployment' = [deployment EXCEPT !.desired = Raised(txn[s].seen)]
      /\ txn' = [txn EXCEPT ![s] = NoTxn]
      /\ UNCHANGED <<outbox, worker, edges>>
  BY DEF CommitPublish, graph
<1>2. Enqueues(txn[s].seen)
  BY <1>1, EnqueuedEffect
<1>3. /\ deployment'.desired = Raised(txn[s].seen)
      /\ deployment'.state = deployment.state /\ deployment'.owner = deployment.owner
      /\ deployment'.leased = deployment.leased /\ deployment'.projected = deployment.projected
      /\ deployment'.requested = deployment.requested
  BY <1>1 DEF IInv, TypeOK, Deployment
<1>4. \A r \in Sources : txn'[r] = NoTxn
  BY <1>1 DEF IInv, TypeOK, PublishInOrder, OneTransaction, ClosedIsEmpty
<1>5. /\ txn[s].rows \in SUBSET Ids /\ txn[s].seen \subseteq txn[s].rows
      /\ deployment.state = "ACTIVE" => txn[s].seen = txn[s].rows
  BY <1>1 DEF IInv, TypeOK, Transaction, PublishInOrder, SeenWhileActive
<1>6. \A i \in committed, j \in txn[s].rows : i < j
  BY DEF PublishInOrder, RowsAreNew
<1> QED BY <1>1, <1>2, <1>3, <1>4, <1>5, <1>6

LEMMA CommitInOrder ==
    ASSUME IInv, PublishInOrder, NEW s \in Sources, CommitPublish(s)
    PROVE  PublishInOrder'
<1>1. /\ txn[s].open /\ Enqueues(txn[s].seen) /\ outbox' = outbox
      /\ committed' = committed \cup txn[s].rows
      /\ txn[s].seen \subseteq txn[s].rows
      /\ \A r \in Sources : txn'[r] = NoTxn
  BY CommitEffect
<1>2. NoTxn.open = FALSE /\ NoTxn.rows = {} /\ NoTxn.fresh = {} /\ NoTxn.seen = {}
  BY DEF NoTxn
<1>3. \A r \in Sources \ {s} : txn[r] = NoTxn
  BY <1>1 DEF PublishInOrder, OneTransaction, ClosedIsEmpty
<1>4. OneTransaction' /\ ClosedIsEmpty' /\ SeenWhileActive'
  BY <1>1, <1>2 DEF OneTransaction, ClosedIsEmpty, SeenWhileActive
<1>5. DeliveredIsCommitted'
  BY <1>1 DEF PublishInOrder, DeliveredIsCommitted, Delivered, Enqueues
<1>6. Allocated' = Allocated /\ Unallocated' = Unallocated
  BY <1>1 DEF Allocated, Unallocated
<1>7. RowsAreNew'
  BY <1>1, <1>2, <1>3, <1>6 DEF PublishInOrder, RowsAreNew
<1> QED BY <1>4, <1>5, <1>7 DEF PublishInOrder

LEMMA BackfillIsCommitted ==
    ASSUME TypeOK
    PROVE  Backfill \subseteq committed
<1>1. committed # {} => Max(committed) \in committed
  BY MaxOfIds DEF TypeOK
<1>2. Upserts(committed) \subseteq committed
  BY DEF Upserts
<1> QED BY <1>1, <1>2 DEF Backfill

LEMMA RegisterEffect ==
    ASSUME TypeOK, Register
    PROVE  /\ Enqueues(Backfill) /\ deployment'.state = "ACTIVE"
           /\ deployment'.desired = Greatest(deployment.desired,
                  MaxOr(Delivered(delivery'), deployment.projected))
           /\ deployment'.owner = deployment.owner /\ deployment'.leased = deployment.leased
           /\ deployment'.projected = deployment.projected
           /\ deployment'.requested = deployment.requested
<1>1. /\ deployment' = [deployment EXCEPT !.state = "ACTIVE",
           !.desired = Greatest(@, MaxOr(Delivered(delivery'), deployment.projected))]
      /\ delivery' = Enqueued(Backfill)
  BY DEF Register
<1>2. Enqueues(Backfill)
  BY <1>1, EnqueuedEffect
<1> QED BY <1>1, <1>2 DEF TypeOK, Deployment

LEMMA RegisterInOrder ==
    ASSUME IInv, PublishInOrder, "overlap" \notin Adversity, Register
    PROVE  PublishInOrder'
<1>1. /\ \A s \in Sources : ~txn[s].open
      /\ UNCHANGED <<outbox, committed, txn, rowLock>>
  BY DEF Register, store
<1>2. \A s \in Sources : txn'[s].rows = {} /\ txn'[s].fresh = {} /\ txn'[s].seen = {}
  BY <1>1 DEF PublishInOrder, ClosedIsEmpty, NoTxn
<1>3. SeenWhileActive'
  BY <1>2 DEF SeenWhileActive
<1>4. Enqueues(Backfill) /\ Backfill \subseteq committed
  BY RegisterEffect, BackfillIsCommitted DEF IInv
<1>5. DeliveredIsCommitted'
  BY <1>1, <1>4 DEF PublishInOrder, DeliveredIsCommitted, Delivered, Enqueues
<1>6. OneTransaction' /\ ClosedIsEmpty' /\ RowsAreNew'
  BY <1>1 DEF PublishInOrder, OneTransaction, ClosedIsEmpty, RowsAreNew, Allocated, Unallocated,
              NoTxn, NoRow
<1> QED BY <1>3, <1>5, <1>6 DEF PublishInOrder

\* A worker holds deliveries in progress only.
LEMMA HeldIsProcessing ==
    ASSUME IInv, NEW w \in Workers, NEW i \in Held(w)
    PROVE  i \in Ids /\ i \in worker[w].batch /\ delivery[i].status = "PROCESSING" /\ delivery[i].owner = w
<1>1. i \in Ids /\ i \in worker[w].batch /\ delivery[i].owner = w
  BY DEF Held, IInv, TypeOK, Process
<1> QED BY <1>1, NobodyAssumption DEF IInv, LeasesAreHeld

\* Workers and time neither add nor remove deliveries.
LEMMA DeliveredIsKept ==
    ASSUME IInv,
           \/ \E w \in Workers : Claim(w) \/ Load(w) \/ Apply(w) \/ MarkProcessed(w) \/ Fail(w) \/ Crash(w)
           \/ LeaseExpires \/ \E b \in Ids : BackoffElapses(b)
    PROVE  DeliveredKept
<1>0. TypeOK
  BY DEF IInv
<1>1. ASSUME NEW w \in Workers, Claim(w) PROVE DeliveredKept
  <2>1. Claims(w, Lowest(BatchSize, Claimable)) /\ Lowest(BatchSize, Claimable) \subseteq Undone
    BY <1>0, <1>1, ClaimEffect, BatchType DEF Claim
  <2> QED BY <2>1 DEF Claims, Undone, DeliveredKept
<1>2. ASSUME NEW w \in Workers, Load(w) \/ Apply(w) \/ Crash(w)
      PROVE  DeliveredKept
  BY <1>2 DEF Load, Apply, Crash, control, DeliveredKept
<1>3. ASSUME NEW w \in Workers, MarkProcessed(w) PROVE DeliveredKept
  BY <1>0, <1>3, MarkProcessedEffect, HeldIsProcessing DEF Completes, DeliveredKept
<1>4. ASSUME NEW w \in Workers, Fail(w) PROVE DeliveredKept
  BY <1>0, <1>4, FailEffect, HeldIsProcessing DEF Fails, DeliveredKept
<1>5. CASE LeaseExpires
  BY <1>0, <1>5, LeaseExpiresEffect DEF DeliveriesKept, DeliveredKept
<1>6. CASE \E b \in Ids : BackoffElapses(b)
  BY <1>0, <1>6, BackoffEffect DEF DeliveriesKept, DeliveredKept
<1> QED BY <1>1, <1>2, <1>3, <1>4, <1>5, <1>6

LEMMA PublishInOrderStep ==
    ASSUME IInv, PublishInOrder, "overlap" \notin Adversity, [Next]_vars
    PROVE  PublishInOrder'
<1>0. TypeOK
  BY DEF IInv
<1>1. CASE \E s \in Sources : BeginPublish(s) \/ FireTriggers(s) \/ CommitPublish(s)
  BY <1>1, BeginInOrder, FireInOrder, CommitInOrder
<1>2. CASE Register
  BY <1>2, RegisterInOrder
<1>3. ASSUME NEW w \in Workers, Claim(w) \/ Load(w) \/ Apply(w) \/ MarkProcessed(w) \/ Crash(w)
      PROVE  PublishInOrder'
  <2>1. UNCHANGED <<outbox, committed, txn, rowLock>>
    BY <1>3 DEF Claim, Load, Apply, MarkProcessed, Crash, store
  <2>2. deployment'.state = deployment.state
    <3>1. CASE Claim(w)
      BY <1>0, <3>1, ClaimEffect DEF Claims, ProgressKept
    <3>2. CASE Load(w) \/ Apply(w) \/ Crash(w)
      BY <3>2 DEF Load, Apply, Crash, control
    <3>3. CASE MarkProcessed(w)
      BY <1>0, <3>3, MarkProcessedEffect DEF Completes
    <3> QED BY <1>3, <3>1, <3>2, <3>3
  <2>3. DeliveredKept
    BY <1>3, DeliveredIsKept
  <2> QED BY <2>1, <2>2, <2>3, PublicationsUntouched
<1>4. ASSUME NEW w \in Workers, Fail(w) PROVE PublishInOrder'
  <2>1. UNCHANGED <<outbox, committed, txn, rowLock>> /\ rowLock = Nobody
    BY <1>4 DEF Fail, store
  <2>2. \A s \in Sources : txn[s].seen = {}
    BY <2>1, NobodyAssumption DEF PublishInOrder, SeenWhileActive
  <2>3. deployment'.state \in {deployment.state, "ERROR"}
    BY <1>0, <1>4, FailEffect DEF Fails, LetsGo
  <2>4. DeliveredKept
    BY <1>4, DeliveredIsKept
  <2> QED BY <2>1, <2>2, <2>3, <2>4, PublicationsUntouched
<1>5. CASE LeaseExpires
  <2>1. UNCHANGED <<outbox, committed, txn, rowLock>>
    BY <1>5 DEF LeaseExpires, store
  <2>2. DeliveredKept
    BY <1>5, DeliveredIsKept
  <2>3. deployment'.state = deployment.state
    BY <1>0, <1>5, LeaseExpiresEffect DEF ProgressKept
  <2> QED BY <2>1, <2>2, <2>3, PublicationsUntouched
<1>6. CASE \E b \in Ids : BackoffElapses(b)
  <2>1. UNCHANGED <<outbox, committed, txn, rowLock, deployment>>
    BY <1>6 DEF BackoffElapses, store
  <2>2. DeliveredKept
    BY <1>6, DeliveredIsKept
  <2> QED BY <2>1, <2>2, PublicationsUntouched
<1>7. CASE UNCHANGED vars
  <2>1. UNCHANGED <<outbox, committed, txn, rowLock, deployment, delivery>>
    BY <1>7 DEF vars, store, control
  <2>2. DeliveredKept
    BY <2>1 DEF DeliveredKept
  <2> QED BY <2>1, <2>2, PublicationsUntouched
<1> QED BY <1>1, <1>2, <1>3, <1>4, <1>5, <1>6, <1>7 DEF Next

LEMMA PublishInOrderInit == Init => PublishInOrder
<1> SUFFICES ASSUME Init PROVE PublishInOrder
  OBVIOUS
<1>1. \A i \in Ids : outbox[i] = NoRow /\ delivery[i].status = "NONE"
  BY DEF Init, NoDelivery, NewDelivery
<1>2. Allocated = {} /\ Delivered(delivery) = {}
  BY <1>1 DEF Allocated, Delivered
<1>3. \A s \in Sources : txn[s] = NoTxn /\ txn[s].open = FALSE /\ txn[s].rows = {}
                         /\ txn[s].fresh = {} /\ txn[s].seen = {}
  BY DEF Init, NoTxn
<1> QED BY <1>2, <1>3 DEF Init, PublishInOrder, OneTransaction, ClosedIsEmpty, RowsAreNew,
           SeenWhileActive, DeliveredIsCommitted

\* Without overlap, transactions follow one another and so do their rows; a delivery is one
\* of a committed row, and a transaction the trigger saw holds the deployment's row.
THEOREM PublicationOrder ==
    ASSUME "overlap" \notin Adversity
    PROVE  Spec => []PublishInOrder
<1>1. Init => PublishInOrder
  BY PublishInOrderInit
<1>2. IInv /\ PublishInOrder /\ [Next]_vars => PublishInOrder'
  BY PublishInOrderStep
<1> QED BY <1>1, <1>2, Invariance, PTL DEF Spec

-----------------------------------------------------------------------------
(* QueueInOrder: until the first dead letter, the queue is worked off from *)
(* its old end.                                                            *)

\* Before the deployment is registered there is nothing to deliver.
NothingYet ==
    /\ deployment.state \in {"NONE", "ACTIVE"}
    /\ deployment.state = "NONE" =>
           /\ Delivered(delivery) = {} /\ deployment.owner = Nobody
           /\ deployment.projected = 0 /\ deployment.desired = 0
           /\ \A w \in Workers : ~Busy(w)

\* Older deliveries have been attempted at least as often as younger ones, ...
AttemptsFall == \A i, j \in Undone : i < j => delivery[j].attempt <= delivery[i].attempt

\* ... and whoever waits makes everyone older wait with it, so that backoffs end in order.
WaitsFirst ==
    \A i, j \in Undone : i < j /\ delivery[j].wait # {} => delivery[i].wait = delivery[j].wait

\* The batch of the worker the deployment is leased to, or was leased to last, is the oldest
\* part of the queue and all its own; nobody waits while it is worked on.
BatchIsOldest ==
    \A w \in Workers : Busy(w) /\ deployment.owner = w =>
        /\ \A i \in worker[w].batch : delivery[i].status = "PROCESSING" /\ delivery[i].owner = w
        /\ \A i \in worker[w].batch, j \in Undone : j < i => j \in worker[w].batch
        /\ worker[w].batch = Lowest(BatchSize, worker[w].batch)
        /\ \A i \in Undone : delivery[i].wait = {}

\* A worker that was superseded has nothing left of its batch.
StragglersHoldNothing == \A w \in Workers : Busy(w) /\ deployment.owner # w => Held(w) = {}

\* The watermark stands between what is PROCESSED and what is not.
WatermarkDivides ==
    \A i \in Delivered(delivery) : i <= deployment.projected <=> delivery[i].status = "PROCESSED"

DesiredIsNewest ==
    /\ deployment.desired \in Delivered(delivery) \cup {0}
    /\ deployment.projected \in Delivered(delivery) \cup {0}
    /\ \A i \in Delivered(delivery) : i <= deployment.desired

Requested ==
    AllProcessed(delivery) => \A i \in Delivered(delivery) : i <= deployment.requested

QueueInOrder ==
    /\ NothingYet /\ AttemptsFall /\ WaitsFirst /\ BatchIsOldest /\ StragglersHoldNothing
    /\ WatermarkDivides /\ DesiredIsNewest /\ Requested

\* The numbers are numbers.
LEMMA Numbers ==
    ASSUME TypeOK
    PROVE  /\ \A i \in Ids : i \in Nat /\ i > 0 /\ delivery[i].attempt \in Nat
           /\ deployment.desired \in Nat /\ deployment.projected \in Nat
           /\ deployment.requested \in Nat
           /\ \A w \in Workers : worker[w].batch \in SUBSET Ids
BY BoundAssumption DEF TypeOK, Delivery, Deployment, Process, Ids

\* Deliveries of rows newer than all delivered before join the queue at its young end.
LEMMA YoungerOnesJoin ==
    ASSUME IInv, QueueInOrder, NEW ids \in SUBSET Ids, Enqueues(ids), worker' = worker,
           \A i \in Delivered(delivery), j \in ids : i < j,
           deployment'.state = "NONE" => ids = {} /\ deployment.state = "NONE",
           deployment'.state \in {"NONE", "ACTIVE"},
           deployment'.owner = deployment.owner, deployment'.projected = deployment.projected,
           deployment'.requested = deployment.requested,
           deployment'.desired \in ids \cup {deployment.desired},
           deployment'.desired >= deployment.desired, \A i \in ids : i <= deployment'.desired
    PROVE  QueueInOrder'
<1>0. /\ \A i \in Ids : i \in Nat /\ i > 0 /\ delivery[i].attempt \in Nat
      /\ deployment.desired \in Nat /\ deployment.projected \in Nat /\ deployment.requested \in Nat
      /\ \A w \in Workers : worker[w].batch \in SUBSET Ids
  BY Numbers DEF IInv
<1>1. \A i \in ids : delivery[i].status = "NONE"
  <2>1. \A i \in ids : i \in Ids /\ ~(i < i)
    BY <1>0
  <2> QED BY <2>1 DEF Delivered
<1>2. /\ Delivered(delivery') = Delivered(delivery) \cup ids
      /\ Undone' = Undone \cup ids
  BY <1>1 DEF Enqueues, Delivered, Undone
<1>3. /\ \A i \in ids : /\ delivery'[i].status = "PENDING" /\ delivery'[i].owner = Nobody
                        /\ delivery'[i].attempt = 0 /\ delivery'[i].wait = {}
      /\ \A i \in Ids \ ids : delivery'[i] = delivery[i]
  BY <1>1 DEF Enqueues
<1>4. Undone \subseteq Delivered(delivery) /\ Undone \in SUBSET Ids
  BY DEF Undone, Delivered
<1>5. NothingYet'
  BY <1>2 DEF QueueInOrder, NothingYet, Busy
<1>6. AttemptsFall'
  <2> SUFFICES ASSUME NEW i \in Undone', NEW j \in Undone', i < j
               PROVE  delivery'[j].attempt <= delivery'[i].attempt
    BY DEF AttemptsFall
  <2>1. CASE j \in ids
    BY <1>0, <1>2, <1>3, <1>4, <2>1
  <2>2. CASE j \notin ids
    <3>1. j \in Undone
      BY <1>2, <2>2
    <3>2. i \notin ids
      BY <1>0, <1>4, <3>1
    <3> QED BY <1>2, <1>3, <1>4, <2>2, <3>1, <3>2 DEF QueueInOrder, AttemptsFall
  <2> QED BY <2>1, <2>2
<1>7. WaitsFirst'
  <2> SUFFICES ASSUME NEW i \in Undone', NEW j \in Undone', i < j, delivery'[j].wait # {}
               PROVE  delivery'[i].wait = delivery'[j].wait
    BY DEF WaitsFirst
  <2>1. j \in Undone /\ j \notin ids
    BY <1>2, <1>3
  <2>2. i \notin ids
    BY <1>0, <1>4, <2>1
  <2> QED BY <1>2, <1>3, <1>4, <2>1, <2>2 DEF QueueInOrder, WaitsFirst
<1>8. BatchIsOldest'
  <2> SUFFICES ASSUME NEW w \in Workers, Busy(w), deployment.owner = w
               PROVE  /\ \A i \in worker[w].batch : delivery'[i].status = "PROCESSING"
                                                      /\ delivery'[i].owner = w
                      /\ \A i \in worker[w].batch, j \in Undone' : j < i => j \in worker[w].batch
                      /\ worker[w].batch = Lowest(BatchSize, worker[w].batch)
                      /\ \A i \in Undone' : delivery'[i].wait = {}
    BY DEF BatchIsOldest, Busy
  <2>1. \A i \in worker[w].batch : i \in Delivered(delivery) /\ i \notin ids
    BY <1>0, <1>1 DEF QueueInOrder, BatchIsOldest, Delivered
  <2> QED BY <1>0, <1>2, <1>3, <1>4, <2>1 DEF QueueInOrder, BatchIsOldest
<1>9. StragglersHoldNothing'
  BY <1>0, <1>3, NobodyAssumption DEF QueueInOrder, StragglersHoldNothing, Held, Busy
<1>10. WatermarkDivides' /\ DesiredIsNewest'
  <2>1. \A i \in ids : ~(i <= deployment.projected)
    BY <1>0 DEF QueueInOrder, DesiredIsNewest
  <2>2. Delivered(delivery) \in SUBSET Ids
    BY DEF Delivered
  <2>3. WatermarkDivides'
    BY <1>2, <1>3, <2>1, <2>2, <1>1 DEF QueueInOrder, WatermarkDivides, Delivered
  <2>4. deployment'.desired \in Nat
    BY <1>0
  <2>5. DesiredIsNewest'
    BY <1>0, <1>2, <2>2, <2>4 DEF QueueInOrder, DesiredIsNewest
  <2> QED BY <2>3, <2>5
<1>11. Requested'
  <2>1. ids # {} => ~AllProcessed(delivery')
    BY <1>2, <1>3 DEF AllProcessed
  <2>2. CASE ids = {}
    <3>1. Delivered(delivery') = Delivered(delivery) /\ \A i \in Ids : delivery'[i] = delivery[i]
      BY <1>2, <1>3, <2>2
    <3>2. AllProcessed(delivery') => AllProcessed(delivery)
      BY <3>1 DEF AllProcessed, Delivered
    <3> QED BY <3>1, <3>2 DEF QueueInOrder, Requested
  <2> QED BY <2>1, <2>2 DEF Requested
<1> QED BY <1>5, <1>6, <1>7, <1>8, <1>9, <1>10, <1>11 DEF QueueInOrder

LEMMA CommitQueues ==
    ASSUME IInv, PublishInOrder, QueueInOrder, NEW s \in Sources, CommitPublish(s)
    PROVE  QueueInOrder'
<1>0. /\ \A i \in Ids : i \in Nat /\ i > 0
      /\ deployment.desired \in Nat
  BY Numbers DEF IInv
<1>1. /\ Enqueues(txn[s].seen) /\ txn[s].seen \in SUBSET Ids
      /\ \A i \in committed, j \in txn[s].seen : i < j
      /\ deployment'.desired = Raised(txn[s].seen)
      /\ deployment'.state = deployment.state /\ deployment'.owner = deployment.owner
      /\ deployment'.projected = deployment.projected
      /\ deployment'.requested = deployment.requested /\ worker' = worker
  BY CommitEffect
<1>2. \A i \in Delivered(delivery), j \in txn[s].seen : i < j
  BY <1>1 DEF PublishInOrder, DeliveredIsCommitted
<1>3. deployment'.state = "NONE" => txn[s].seen = {}
  BY <1>1 DEF PublishInOrder, SeenWhileActive
<1>4. /\ deployment'.desired \in txn[s].seen \cup {deployment.desired}
      /\ deployment'.desired >= deployment.desired
      /\ \A i \in txn[s].seen : i <= deployment'.desired
  <2>1. CASE txn[s].seen = {}
    BY <1>0, <1>1, <2>1 DEF Raised, MaxOr, Greatest
  <2>2. CASE txn[s].seen # {}
    <3>1. Max(txn[s].seen) \in txn[s].seen /\ \A i \in txn[s].seen : Max(txn[s].seen) >= i
      BY <1>1, <2>2, MaxOfIds
    <3> QED BY <1>0, <1>1, <2>2, <3>1 DEF Raised, MaxOr, Greatest
  <2> QED BY <2>1, <2>2
<1>5. deployment'.state \in {"NONE", "ACTIVE"}
  BY <1>1 DEF QueueInOrder, NothingYet
<1> QED BY <1>1, <1>2, <1>3, <1>4, <1>5, YoungerOnesJoin

LEMMA RegisterQueues ==
    ASSUME IInv, QueueInOrder, Register
    PROVE  QueueInOrder'
<1>0. \A i \in Ids : i \in Nat /\ i > 0
  BY Numbers DEF IInv
<1>1. /\ deployment.state # "ACTIVE" /\ worker' = worker
      /\ Enqueues(Backfill) /\ Backfill \in SUBSET Ids /\ deployment'.state = "ACTIVE"
      /\ deployment'.desired = Greatest(deployment.desired,
             MaxOr(Delivered(delivery'), deployment.projected))
      /\ deployment'.owner = deployment.owner /\ deployment'.projected = deployment.projected
      /\ deployment'.requested = deployment.requested
  BY RegisterEffect, BackfillIsCommitted DEF IInv, TypeOK, Register
<1>2. /\ Delivered(delivery) = {} /\ deployment.projected = 0 /\ deployment.desired = 0
  BY <1>1 DEF QueueInOrder, NothingYet
<1>3. Delivered(delivery') = Backfill
  BY <1>1, <1>2 DEF Enqueues, Delivered
<1>4. /\ deployment'.desired \in Backfill \cup {deployment.desired}
      /\ deployment'.desired >= deployment.desired
      /\ \A i \in Backfill : i <= deployment'.desired
  <2>1. CASE Backfill = {}
    BY <1>1, <1>2, <1>3, <2>1 DEF MaxOr, Greatest
  <2>2. CASE Backfill # {}
    <3>1. Max(Backfill) \in Backfill /\ \A i \in Backfill : Max(Backfill) >= i
      BY <1>1, <2>2, MaxOfIds
    <3> QED BY <1>0, <1>1, <1>2, <1>3, <2>2, <3>1 DEF MaxOr, Greatest
  <2> QED BY <2>1, <2>2
<1> QED BY <1>1, <1>2, <1>4, YoungerOnesJoin

\* When a claim is possible nothing is leased and nobody waits: the batch is the oldest part
\* of all that is left to do.
LEMMA ClaimsTheOldest ==
    ASSUME IInv, QueueInOrder, DeploymentReady
    PROVE  /\ Claimable = Undone /\ \A i \in Undone : delivery[i].wait = {}
           /\ Undone \in SUBSET Ids
<1>1. Undone \in SUBSET Ids /\ Claimable \subseteq Undone
  BY DEF Undone, Claimable
<1>2. Min(Undone) \in Undone /\ (\A j \in Undone : Min(Undone) <= j) /\ delivery[Min(Undone)].wait = {}
  BY <1>1, MinOfIds DEF DeploymentReady, Claimable
<1>3. \A i \in Undone : delivery[i].wait = {}
  <2> SUFFICES ASSUME NEW i \in Undone, delivery[i].wait # {} PROVE FALSE
    OBVIOUS
  <2>1. Min(Undone) < i
    BY <1>1, <1>2, Numbers DEF IInv
  <2> QED BY <1>2, <2>1 DEF QueueInOrder, WaitsFirst
<1>4. \A i \in Ids : ~delivery[i].leased
  BY DEF IInv, LiveLeasesHaveOneHolder, DeploymentReady
<1> QED BY <1>1, <1>3, <1>4 DEF Claimable

LEMMA ClaimQueues ==
    ASSUME IInv, QueueInOrder, NEW w \in Workers, Claim(w)
    PROVE  QueueInOrder'
<1> DEFINE batch == Lowest(BatchSize, Undone)
<1>0. /\ \A i \in Ids : i \in Nat /\ i > 0 /\ delivery[i].attempt \in Nat
      /\ \A v \in Workers : worker[v].batch \in SUBSET Ids
  BY Numbers DEF IInv
<1>1. /\ Claimable = Undone /\ \A i \in Undone : delivery[i].wait = {}
      /\ Undone \in SUBSET Ids /\ BatchSize \in Nat
  BY ClaimsTheOldest, BatchAssumption DEF Claim
<1>2. Claims(w, batch) /\ batch \subseteq Undone /\ batch # {}
  BY <1>1, ClaimEffect, BatchType DEF IInv, Claim
<1>3. \A x \in batch, y \in Undone : y < x => y \in batch
  BY <1>1, LowestDownward
<1>4. batch = Lowest(BatchSize, batch)
  BY <1>1, LowestOfLowest
<1>5. \A B \in SUBSET Undone : B = Lowest(BatchSize, B) /\ (\A x \in B, y \in Undone : y < x => y \in B)
                                 => B \subseteq batch
  BY <1>1, LowestTakesOver
<1>6. deployment.state = "ACTIVE"
  BY DEF Claim, DeploymentReady
<1> HIDE DEF batch
<1>7. /\ \A i \in batch : /\ delivery'[i].status = "PROCESSING" /\ delivery'[i].owner = w
                          /\ delivery'[i].attempt = delivery[i].attempt + 1
                          /\ delivery'[i].wait = delivery[i].wait
      /\ \A i \in Ids \ batch : delivery'[i] = delivery[i]
      /\ worker'[w].pc = "claimed" /\ worker'[w].batch = batch
      /\ ~Busy(w) /\ \A v \in Workers \ {w} : worker'[v] = worker[v]
      /\ deployment'.owner = w /\ deployment'.state = deployment.state
      /\ deployment'.desired = deployment.desired /\ deployment'.projected = deployment.projected
      /\ deployment'.requested = deployment.requested
  BY <1>1, <1>2 DEF Claims, OthersGoOn, ProgressKept
<1>8. Undone' = Undone /\ Delivered(delivery') = Delivered(delivery)
  BY <1>2, <1>7, <1>1 DEF Undone, Delivered
<1>9. NothingYet'
  BY <1>6, <1>7 DEF NothingYet
<1>10. AttemptsFall'
  <2> SUFFICES ASSUME NEW i \in Undone, NEW j \in Undone, i < j
               PROVE  delivery'[j].attempt <= delivery'[i].attempt
    BY <1>8 DEF AttemptsFall
  <2>1. i \in Ids /\ j \in Ids /\ delivery[j].attempt <= delivery[i].attempt
    BY <1>1 DEF QueueInOrder, AttemptsFall
  <2>2. j \in batch => i \in batch
    BY <1>3
  <2> QED BY <1>0, <1>7, <2>1, <2>2
<1>11. \A i \in Undone : delivery'[i].wait = {}
  BY <1>1, <1>7
<1>12. WaitsFirst'
  BY <1>8, <1>11 DEF WaitsFirst
<1>13. BatchIsOldest'
  <2>1. \A v \in Workers : deployment'.owner = v => v = w
    BY <1>7
  <2> QED BY <1>3, <1>4, <1>7, <1>8, <1>11, <2>1 DEF BatchIsOldest
<1>14. StragglersHoldNothing'
  <2> SUFFICES ASSUME NEW v \in Workers \ {w}, Busy(v), NEW i \in worker[v].batch, i \in Ids,
                      delivery'[i].owner = v
               PROVE  FALSE
    BY <1>0, <1>7 DEF StragglersHoldNothing, Held, Busy
  <2>1. i \notin batch /\ delivery[i].owner = v
    BY <1>7
  <2>2. deployment.owner = v
    BY <2>1 DEF QueueInOrder, StragglersHoldNothing, Held
  <2>3. worker[v].batch \in SUBSET Undone
    BY <1>0, <2>2 DEF QueueInOrder, BatchIsOldest, Undone
  <2>4. worker[v].batch \subseteq batch
    BY <1>5, <2>2, <2>3 DEF QueueInOrder, BatchIsOldest
  <2> QED BY <2>1, <2>4
<1>15. WatermarkDivides' /\ DesiredIsNewest'
  <2>1. \A i \in Ids : delivery'[i].status = "PROCESSED" <=> delivery[i].status = "PROCESSED"
    BY <1>2, <1>7 DEF Undone
  <2>2. Delivered(delivery) \in SUBSET Ids
    BY DEF Delivered
  <2> QED BY <1>7, <1>8, <2>1, <2>2 DEF QueueInOrder, WatermarkDivides, DesiredIsNewest
<1>16. Requested'
  <2>1. ~AllProcessed(delivery')
    BY <1>1, <1>2, <1>7 DEF AllProcessed, Delivered, Undone
  <2> QED BY <2>1 DEF Requested
<1> QED BY <1>9, <1>10, <1>12, <1>13, <1>14, <1>15, <1>16 DEF QueueInOrder

LEMMA WorkQueues ==
    ASSUME QueueInOrder, NEW w \in Workers, GoesOn(w)
    PROVE  QueueInOrder'
<1>1. /\ \A v \in Workers : Busy(v)' = Busy(v) /\ worker'[v].batch = worker[v].batch
      /\ UNCHANGED <<delivery, deployment>>
  BY DEF GoesOn, OthersGoOn, Busy
<1>2. Undone' = Undone /\ \A v \in Workers : Held(v)' = Held(v)
  BY <1>1 DEF Undone, Held
<1>3. NothingYet' /\ AttemptsFall' /\ WaitsFirst'
  BY <1>1, <1>2 DEF QueueInOrder, NothingYet, AttemptsFall, WaitsFirst
<1>4. BatchIsOldest' /\ StragglersHoldNothing'
  BY <1>1, <1>2 DEF QueueInOrder, BatchIsOldest, StragglersHoldNothing
<1>5. WatermarkDivides' /\ DesiredIsNewest' /\ Requested'
  BY <1>1 DEF QueueInOrder, WatermarkDivides, DesiredIsNewest, Requested
<1> QED BY <1>3, <1>4, <1>5 DEF QueueInOrder

\* A worker that leaves without touching the queue changes nothing about it.
LEMMA LeavingQueues ==
    ASSUME QueueInOrder, NEW w \in Workers, Frees(w), UNCHANGED <<delivery, deployment>>
    PROVE  QueueInOrder'
<1>1. /\ ~Busy(w)' /\ \A v \in Workers \ {w} : worker'[v] = worker[v]
      /\ UNCHANGED <<delivery, deployment>>
  BY DEF Frees, OthersGoOn, Busy, Idle
<1>2. Undone' = Undone /\ \A v \in Workers \ {w} : Held(v)' = Held(v)
  BY <1>1 DEF Undone, Held
<1>3. NothingYet' /\ AttemptsFall' /\ WaitsFirst'
  BY <1>1, <1>2 DEF QueueInOrder, NothingYet, AttemptsFall, WaitsFirst, Busy
<1>4. BatchIsOldest' /\ StragglersHoldNothing'
  BY <1>1, <1>2 DEF QueueInOrder, BatchIsOldest, StragglersHoldNothing, Busy
<1>5. WatermarkDivides' /\ DesiredIsNewest' /\ Requested'
  BY <1>1 DEF QueueInOrder, WatermarkDivides, DesiredIsNewest, Requested
<1> QED BY <1>3, <1>4, <1>5 DEF QueueInOrder

\* The worker that has the deployment has its whole batch, and everybody else nothing.
LEMMA OwnerHoldsBatch ==
    ASSUME IInv, QueueInOrder, NEW w \in Workers, Busy(w)
    PROVE  /\ deployment.owner = w => Held(w) = worker[w].batch /\ worker[w].batch # {}
                                        /\ worker[w].batch \in SUBSET Undone
                                        /\ deployment.state = "ACTIVE"
           /\ deployment.owner # w => Held(w) = {}
<1>1. CASE deployment.owner = w
  <2>1. \A i \in worker[w].batch : delivery[i].status = "PROCESSING" /\ delivery[i].owner = w
    BY <1>1 DEF QueueInOrder, BatchIsOldest
  <2>2. worker[w].batch \in SUBSET Ids /\ worker[w].batch # {}
    BY Numbers DEF IInv, LeasesAreHeld, Busy
  <2>3. deployment.state = "ACTIVE"
    BY <1>1, NobodyAssumption DEF QueueInOrder, NothingYet
  <2> QED BY <1>1, <2>1, <2>2, <2>3 DEF Held, Undone
<1>2. CASE deployment.owner # w
  BY <1>2 DEF QueueInOrder, StragglersHoldNothing
<1> QED BY <1>1, <1>2

LEMMA MarkProcessedQueues ==
    ASSUME IInv, QueueInOrder, NoDeadLetters, NEW w \in Workers, MarkProcessed(w)
    PROVE  QueueInOrder'
<1> DEFINE batch == worker[w].batch
           mark == WatermarkAfter(w)
<1>0. /\ \A i \in Ids : i \in Nat /\ i > 0 /\ delivery[i].attempt \in Nat
      /\ deployment.desired \in Nat /\ deployment.projected \in Nat /\ deployment.requested \in Nat
      /\ \A v \in Workers : worker[v].batch \in SUBSET Ids
  BY Numbers DEF IInv
<1>1. Completes(w) /\ Frees(w) /\ Busy(w)
  BY MarkProcessedEffect DEF IInv, Completes, Frees
<1>2. CASE deployment.owner # w
  <2>1. Held(w) = {}
    BY <1>1, <1>2, OwnerHoldsBatch
  <2>2. deployment' = deployment /\ \A i \in Ids : delivery'[i] = delivery[i]
    BY <1>1, <1>2, <2>1 DEF Completes, LetsGo
  <2>3. delivery' = delivery
    <3>1. delivery \in [Ids -> Delivery] /\ delivery' \in [Ids -> Delivery]
      BY MarkProcessedKeeps DEF IInv, TypeOK
    <3> QED BY <2>2, <3>1
  <2> QED BY <1>1, <2>2, <2>3, LeavingQueues
<1>3. CASE deployment.owner = w
  <2>1. Held(w) = batch /\ batch # {} /\ batch \in SUBSET Undone /\ deployment.state = "ACTIVE"
    BY <1>1, <1>3, OwnerHoldsBatch
  <2>2. /\ \A i \in batch, j \in Undone : j < i => j \in batch
        /\ \A i \in Undone : delivery[i].wait = {}
    BY <1>1, <1>3 DEF QueueInOrder, BatchIsOldest
  <2>3. /\ \A i \in batch : delivery'[i].status = "PROCESSED" /\ delivery'[i].owner = Nobody
        /\ \A i \in Ids \ batch : delivery'[i] = delivery[i]
        /\ \A v \in Workers \ {w} : worker'[v] = worker[v]
        /\ ~Busy(w)'
        /\ deployment'.owner = Nobody /\ deployment'.state = "ACTIVE"
        /\ deployment'.desired = deployment.desired /\ deployment'.projected = mark
        /\ deployment'.requested = IF CaughtUp(delivery', mark)
               THEN Greatest(deployment.requested, mark) ELSE deployment.requested
    BY <1>0, <1>1, <1>3, <2>1 DEF Completes, LetsGo, Frees, OthersGoOn, Busy, Idle
  <2>4. /\ mark \in Nat /\ mark \in {deployment.projected} \cup batch
        /\ mark >= deployment.projected /\ \A i \in batch : i <= mark
    <3>1. batch \in SUBSET Ids
      BY <1>0
    <3>2. Max(batch) \in batch /\ \A i \in batch : Max(batch) >= i
      BY <2>1, <3>1, MaxOfIds
    <3>3. Max(batch) \in Nat /\ \A i \in batch : i \in Nat
      BY <1>0, <3>2, <3>1
    <3> QED BY <1>0, <3>2, <3>3 DEF WatermarkAfter, Greatest
  <2> HIDE DEF batch, mark
  <2>5. Undone \in SUBSET Ids /\ Undone \subseteq Delivered(delivery)
    BY DEF Undone, Delivered
  <2>6. Undone' = Undone \ batch /\ Delivered(delivery') = Delivered(delivery)
    BY <2>1, <2>3, <2>5 DEF Undone, Delivered
  <2>7. NothingYet'
    BY <2>3 DEF NothingYet
  <2>8. AttemptsFall' /\ WaitsFirst'
    <3>1. \A i \in Undone' : i \in Undone /\ delivery'[i] = delivery[i]
      BY <2>3, <2>5, <2>6
    <3> QED BY <3>1 DEF QueueInOrder, AttemptsFall, WaitsFirst
  <2>9. BatchIsOldest'
    BY <2>3, NobodyAssumption DEF BatchIsOldest
  <2>10. StragglersHoldNothing'
    <3> SUFFICES ASSUME NEW v \in Workers \ {w}, Busy(v), NEW i \in worker[v].batch, i \in Ids,
                        delivery'[i].owner = v
                 PROVE  FALSE
      BY <1>0, <2>3 DEF StragglersHoldNothing, Held, Busy
    <3>1. delivery[i].owner = v
      BY <2>3, NobodyAssumption
    <3> QED BY <1>3, <3>1 DEF QueueInOrder, StragglersHoldNothing, Held
  <2>11. WatermarkDivides'
    <3> SUFFICES ASSUME NEW i \in Delivered(delivery)
                 PROVE  i <= mark <=> delivery'[i].status = "PROCESSED"
      BY <2>3, <2>6 DEF WatermarkDivides
    <3>1. i \in Ids /\ i \in Nat
      BY <1>0 DEF Delivered
    <3>2. CASE i \in batch
      BY <2>3, <2>4, <3>2
    <3>3. CASE i \in Undone \ batch
      <4>1. ~(i <= deployment.projected)
        BY <2>5, <3>3 DEF QueueInOrder, WatermarkDivides, Undone
      <4>2. \A b \in batch : b \in Nat /\ i # b /\ ~(i < b)
        BY <1>0, <2>1, <2>2, <2>5, <3>3
      <4>3. ~(i <= mark)
        BY <1>0, <2>4, <3>1, <4>1, <4>2
      <4> QED BY <2>3, <3>1, <3>3, <4>3 DEF Undone
    <3>4. CASE i \notin Undone /\ i \notin batch
      <4>1. delivery'[i] = delivery[i]
        BY <2>3, <3>1, <3>4
      <4>2. i <= deployment.projected <=> delivery[i].status = "PROCESSED"
        BY DEF QueueInOrder, WatermarkDivides
      <4>3. delivery[i].status = "PROCESSED"
        <5>1. delivery[i] \in Delivery /\ delivery[i].status # "DEAD_LETTER"
          BY <3>1 DEF IInv, TypeOK, NoDeadLetters
        <5> QED BY <3>1, <3>4, <5>1 DEF Delivered, Undone, Delivery
      <4> QED BY <1>0, <2>4, <3>1, <4>1, <4>2, <4>3
    <3> QED BY <3>2, <3>3, <3>4
  <2>12. DesiredIsNewest'
    <3>1. mark \in Delivered(delivery) \cup {0}
      BY <2>1, <2>4, <2>5 DEF QueueInOrder, DesiredIsNewest
    <3> QED BY <2>3, <2>6, <3>1 DEF QueueInOrder, DesiredIsNewest
  <2>13. Requested'
    <3> SUFFICES ASSUME AllProcessed(delivery'), NEW i \in Delivered(delivery)
                 PROVE  i <= deployment'.requested
      BY <2>6 DEF Requested
    <3>1. \A j \in Delivered(delivery) : j <= mark
      BY <2>3, <2>6, <2>11 DEF AllProcessed, WatermarkDivides
    <3>2. deployment.desired <= mark
      BY <2>4, <3>1 DEF QueueInOrder, DesiredIsNewest
    <3>3. CaughtUp(delivery', mark)
      BY <1>0, <2>1, <2>4, <3>2 DEF CaughtUp
    <3> QED BY <1>0, <2>3, <2>4, <3>1, <3>3 DEF Greatest, Delivered
  <2> QED BY <2>7, <2>8, <2>9, <2>10, <2>11, <2>12, <2>13 DEF QueueInOrder
<1> QED BY <1>2, <1>3

\* A failure that kills no delivery sends the batch back to where it was.
LEMMA FailQueues ==
    ASSUME IInv, QueueInOrder, NoDeadLetters', NEW w \in Workers, Fail(w)
    PROVE  QueueInOrder'
<1> DEFINE batch == worker[w].batch
<1>0. /\ \A i \in Ids : i \in Nat /\ i > 0
      /\ \A v \in Workers : worker[v].batch \in SUBSET Ids
  BY Numbers DEF IInv
<1>1. Fails(w) /\ Frees(w) /\ Busy(w)
  BY FailEffect DEF IInv, Fails, Frees
<1>2. CASE deployment.owner # w
  <2>1. Held(w) = {}
    BY <1>1, <1>2, OwnerHoldsBatch
  <2>2. deployment' = deployment /\ \A i \in Ids : delivery'[i] = delivery[i]
    BY <1>1, <1>2, <2>1 DEF Fails, LetsGo
  <2>3. delivery' = delivery
    <3>1. delivery \in [Ids -> Delivery] /\ delivery' \in [Ids -> Delivery]
      BY FailKeeps DEF IInv, TypeOK
    <3> QED BY <2>2, <3>1
  <2> QED BY <1>1, <2>2, <2>3, LeavingQueues
<1>3. CASE deployment.owner = w
  <2>1. Held(w) = batch /\ batch # {} /\ batch \in SUBSET Undone /\ deployment.state = "ACTIVE"
    BY <1>1, <1>3, OwnerHoldsBatch
  <2>2. /\ \A i \in batch, j \in Undone : j < i => j \in batch
        /\ \A i \in Undone : delivery[i].wait = {}
    BY <1>1, <1>3 DEF QueueInOrder, BatchIsOldest
  <2>3. Exhausted(w) = {}
    BY <1>0, <1>1, <2>1 DEF Fails, Exhausted, NoDeadLetters
  <2>4. /\ \A i \in batch : /\ delivery'[i].status = "PENDING" /\ delivery'[i].owner = Nobody
                            /\ delivery'[i].wait = batch
                            /\ delivery'[i].attempt = delivery[i].attempt
        /\ \A i \in Ids \ batch : delivery'[i] = delivery[i]
        /\ \A v \in Workers \ {w} : worker'[v] = worker[v]
        /\ ~Busy(w)'
        /\ deployment'.owner = Nobody /\ deployment'.state = "ACTIVE"
        /\ deployment'.desired = deployment.desired /\ deployment'.projected = deployment.projected
        /\ deployment'.requested = deployment.requested
    BY <1>0, <1>1, <1>3, <2>1, <2>3 DEF Fails, LetsGo, Frees, OthersGoOn, Busy, Idle
  <2> HIDE DEF batch
  <2>5. Undone \in SUBSET Ids /\ Undone \subseteq Delivered(delivery)
    BY DEF Undone, Delivered
  <2>6. Undone' = Undone /\ Delivered(delivery') = Delivered(delivery)
    BY <2>1, <2>4, <2>5 DEF Undone, Delivered
  <2>7. NothingYet'
    BY <2>4 DEF NothingYet
  <2>8. AttemptsFall'
    <3>1. \A i \in Undone : delivery'[i].attempt = delivery[i].attempt
      BY <2>4, <2>5
    <3> QED BY <2>6, <3>1 DEF QueueInOrder, AttemptsFall
  <2>9. WaitsFirst'
    <3>1. \A i \in Undone : delivery'[i].wait = IF i \in batch THEN batch ELSE {}
      BY <2>2, <2>4, <2>5
    <3> QED BY <2>2, <2>6, <3>1 DEF WaitsFirst
  <2>10. BatchIsOldest'
    BY <2>4, NobodyAssumption DEF BatchIsOldest
  <2>11. StragglersHoldNothing'
    <3> SUFFICES ASSUME NEW v \in Workers \ {w}, Busy(v), NEW i \in worker[v].batch, i \in Ids,
                        delivery'[i].owner = v
                 PROVE  FALSE
      BY <1>0, <2>4 DEF StragglersHoldNothing, Held, Busy
    <3>1. delivery[i].owner = v
      BY <2>4, NobodyAssumption
    <3> QED BY <1>3, <3>1 DEF QueueInOrder, StragglersHoldNothing, Held
  <2>12. \A i \in Ids : delivery'[i].status = "PROCESSED" <=> delivery[i].status = "PROCESSED"
    BY <2>1, <2>4 DEF Undone
  <2>13. WatermarkDivides' /\ DesiredIsNewest'
    <3>1. Delivered(delivery) \in SUBSET Ids
      BY DEF Delivered
    <3> QED BY <2>4, <2>6, <2>12, <3>1 DEF QueueInOrder, WatermarkDivides, DesiredIsNewest
  <2>14. Requested'
    <3>1. ~AllProcessed(delivery')
      BY <2>1, <2>4, <2>5, <2>6 DEF AllProcessed
    <3> QED BY <3>1 DEF Requested
  <2> QED BY <2>7, <2>8, <2>9, <2>10, <2>11, <2>13, <2>14 DEF QueueInOrder
<1> QED BY <1>2, <1>3

\* Time changes leases, which the order does not depend on, and ends backoffs from the old
\* end: whoever still waits was attempted more often than the one whose backoff ended.
LEMMA TimeQueues ==
    ASSUME IInv, QueueInOrder, DeliveriesKept, worker' = worker, ProgressKept,
           deployment'.owner = deployment.owner,
           \A i \in Ids : delivery'[i].wait \in {delivery[i].wait, {}},
           \A i, j \in Ids :
               /\ delivery[i].wait = delivery[j].wait /\ delivery[j].attempt <= delivery[i].attempt
               /\ delivery'[j].wait # {}
               => delivery'[i].wait = delivery[i].wait
    PROVE  QueueInOrder'
<1>1. /\ Undone' = Undone /\ Delivered(delivery') = Delivered(delivery)
      /\ AllProcessed(delivery') = AllProcessed(delivery)
      /\ \A w \in Workers : Held(w)' = Held(w) /\ Busy(w)' = Busy(w)
      /\ \A i \in Ids : /\ delivery'[i].status = delivery[i].status
                        /\ delivery'[i].owner = delivery[i].owner
                        /\ delivery'[i].attempt = delivery[i].attempt
  <2>1. \A w \in Workers : worker[w].batch \in SUBSET Ids
    BY Numbers DEF IInv
  <2> QED BY <2>1 DEF DeliveriesKept, Undone, Delivered, AllProcessed, Held, Busy
<1>2. Undone \in SUBSET Ids /\ Delivered(delivery) \in SUBSET Ids
  BY DEF Undone, Delivered
<1>3. NothingYet' /\ Requested' /\ DesiredIsNewest' /\ StragglersHoldNothing'
  BY <1>1 DEF QueueInOrder, NothingYet, Requested, DesiredIsNewest, StragglersHoldNothing, ProgressKept
<1>4. AttemptsFall' /\ WatermarkDivides'
  BY <1>1, <1>2 DEF QueueInOrder, AttemptsFall, WatermarkDivides, ProgressKept
<1>5. WaitsFirst'
  <2> SUFFICES ASSUME NEW i \in Undone, NEW j \in Undone, i < j, delivery'[j].wait # {}
               PROVE  delivery'[i].wait = delivery'[j].wait
    BY <1>1 DEF WaitsFirst
  <2>1. i \in Ids /\ j \in Ids /\ delivery'[j].wait = delivery[j].wait
    BY <1>2
  <2>2. delivery[i].wait = delivery[j].wait /\ delivery[j].attempt <= delivery[i].attempt
    BY <2>1 DEF QueueInOrder, WaitsFirst, AttemptsFall
  <2> QED BY <2>1, <2>2
<1>6. BatchIsOldest'
  <2>1. \A w \in Workers : worker[w].batch \in SUBSET Ids
    BY Numbers DEF IInv
  <2>2. \A i \in Undone : delivery[i].wait = {} => delivery'[i].wait = {}
    BY <1>2
  <2> QED BY <1>1, <2>1, <2>2 DEF QueueInOrder, BatchIsOldest
<1> QED BY <1>3, <1>4, <1>5, <1>6 DEF QueueInOrder

LEMMA LeaseExpiresQueues ==
    ASSUME IInv, QueueInOrder, LeaseExpires
    PROVE  QueueInOrder'
<1>1. /\ DeliveriesKept /\ \A i \in Ids : delivery'[i].wait = delivery[i].wait
      /\ deployment'.owner = deployment.owner /\ ProgressKept /\ worker' = worker
  BY LeaseExpiresEffect DEF IInv, LeaseExpires
<1> QED BY <1>1, TimeQueues

LEMMA BackoffQueues ==
    ASSUME IInv, QueueInOrder, NEW b \in Ids, BackoffElapses(b)
    PROVE  QueueInOrder'
<1>1. /\ DeliveriesKept /\ UNCHANGED <<deployment, worker>>
      /\ \A i \in Ids : delivery'[i].wait =
             IF delivery[i].wait = delivery[b].wait /\ delivery[i].attempt <= delivery[b].attempt
             THEN {} ELSE delivery[i].wait
  BY BackoffEffect DEF IInv
<1>2. \A i \in Ids : delivery[i].attempt \in Nat
  BY Numbers DEF IInv
<1>3. \A i, j \in Ids :
               /\ delivery[i].wait = delivery[j].wait /\ delivery[j].attempt <= delivery[i].attempt
               /\ delivery'[j].wait # {}
               => delivery'[i].wait = delivery[i].wait
  BY <1>1, <1>2
<1>4. \A i \in Ids : delivery'[i].wait \in {delivery[i].wait, {}}
  BY <1>1
<1>5. ProgressKept /\ deployment'.owner = deployment.owner /\ worker' = worker
  BY <1>1 DEF ProgressKept
<1> QED BY <1>1, <1>3, <1>4, <1>5, TimeQueues

LEMMA NothingQueues ==
    ASSUME QueueInOrder, UNCHANGED <<delivery, deployment, worker>>
    PROVE  QueueInOrder'
<1>1. Undone' = Undone /\ \A w \in Workers : Held(w)' = Held(w)
  BY DEF Undone, Held
<1>2. NothingYet' /\ AttemptsFall' /\ WaitsFirst'
  BY <1>1 DEF QueueInOrder, NothingYet, AttemptsFall, WaitsFirst, Busy
<1>3. BatchIsOldest' /\ StragglersHoldNothing'
  BY <1>1 DEF QueueInOrder, BatchIsOldest, StragglersHoldNothing, Busy
<1>4. WatermarkDivides' /\ DesiredIsNewest' /\ Requested'
  BY DEF QueueInOrder, WatermarkDivides, DesiredIsNewest, Requested
<1> QED BY <1>2, <1>3, <1>4 DEF QueueInOrder

\* A dead letter stays one.
LEMMA DeadLettersStay ==
    ASSUME IInv, [Next]_vars, NoDeadLetters'
    PROVE  NoDeadLetters
BY TerminalStep DEF TerminalKept, Terminal, NoDeadLetters

OrderInv == PublishInOrder /\ (NoDeadLetters => QueueInOrder)

LEMMA QueueInOrderStep ==
    ASSUME IInv, OrderInv, "overlap" \notin Adversity, [Next]_vars, NoDeadLetters'
    PROVE  QueueInOrder'
<1>0. TypeOK /\ PublishInOrder /\ QueueInOrder /\ NoDeadLetters
  BY DeadLettersStay DEF IInv, OrderInv
<1>1. ASSUME NEW s \in Sources, BeginPublish(s) \/ FireTriggers(s) PROVE QueueInOrder'
  <2>1. UNCHANGED <<delivery, deployment, worker>>
    BY <1>1 DEF BeginPublish, FireTriggers, control
  <2> QED BY <1>0, <2>1, NothingQueues
<1>2. ASSUME NEW s \in Sources, CommitPublish(s) PROVE QueueInOrder'
  BY <1>0, <1>2, CommitQueues
<1>3. CASE Register
  BY <1>0, <1>3, RegisterQueues
<1>4. ASSUME NEW w \in Workers, Claim(w) PROVE QueueInOrder'
  BY <1>0, <1>4, ClaimQueues
<1>5. ASSUME NEW w \in Workers, Load(w) \/ Apply(w) PROVE QueueInOrder'
  BY <1>0, <1>5, WorkEffect, WorkQueues
<1>6. ASSUME NEW w \in Workers, MarkProcessed(w) PROVE QueueInOrder'
  BY <1>0, <1>6, MarkProcessedQueues
<1>7. ASSUME NEW w \in Workers, Fail(w) PROVE QueueInOrder'
  BY <1>0, <1>7, FailQueues
<1>8. ASSUME NEW w \in Workers, Crash(w) PROVE QueueInOrder'
  <2>1. Frees(w) /\ UNCHANGED <<delivery, deployment>>
    BY <1>0, <1>8, CrashEffect
  <2> QED BY <1>0, <2>1, LeavingQueues
<1>9. CASE LeaseExpires
  BY <1>0, <1>9, LeaseExpiresQueues
<1>10. CASE \E b \in Ids : BackoffElapses(b)
  BY <1>0, <1>10, BackoffQueues
<1>11. CASE UNCHANGED vars
  <2>1. UNCHANGED <<delivery, deployment, worker>>
    BY <1>11 DEF vars, control
  <2> QED BY <1>0, <2>1, NothingQueues
<1> QED BY <1>1, <1>2, <1>3, <1>4, <1>5, <1>6, <1>7, <1>8, <1>9, <1>10, <1>11 DEF Next

LEMMA QueueInOrderInit == Init => QueueInOrder
<1> SUFFICES ASSUME Init PROVE QueueInOrder
  OBVIOUS
<1>1. \A i \in Ids : delivery[i].status = "NONE"
  BY DEF Init, NoDelivery, NewDelivery
<1>2. Undone = {} /\ Delivered(delivery) = {}
  BY <1>1 DEF Undone, Delivered
<1>3. /\ \A w \in Workers : ~Busy(w)
      /\ deployment.state = "NONE" /\ deployment.owner = Nobody
      /\ deployment.projected = 0 /\ deployment.desired = 0
  BY DEF Init, Idle, Busy
<1> QED BY <1>2, <1>3 DEF QueueInOrder, NothingYet, AttemptsFall, WaitsFirst, BatchIsOldest,
           StragglersHoldNothing, WatermarkDivides, DesiredIsNewest, Requested

\* The order of the outbox is the order of the work, until the first dead letter.
THEOREM OrderInvariance ==
    ASSUME "overlap" \notin Adversity
    PROVE  Spec => []OrderInv
<1>1. Init => OrderInv
  BY PublishInOrderInit, QueueInOrderInit DEF OrderInv
<1>2. IInv /\ OrderInv /\ [Next]_vars => OrderInv'
  BY PublishInOrderStep, QueueInOrderStep DEF OrderInv
<1> QED BY <1>1, <1>2, Invariance, PTL DEF Spec

-----------------------------------------------------------------------------
(* What follows from the order.                                            *)

\* The worker with the live lease works on the queue's oldest part, whatever failed, crashed
\* or stalled before.
THEOREM OldestFirst ==
    ASSUME "overlap" \notin Adversity
    PROVE  Spec => []ClaimsInOrder
<1>1. OrderInv => ClaimsInOrder
  BY DEF OrderInv, QueueInOrder, BatchIsOldest, ClaimsInOrder, Live, Busy
<1> QED BY <1>1, OrderInvariance, PTL

\* projected_outbox_id never passes a delivery that is not in Neo4j.
THEOREM WatermarkIsSafe ==
    ASSUME "overlap" \notin Adversity
    PROVE  Spec => [](NoDeadLetters => WatermarkFollowsCommit)
<1>1. IInv /\ OrderInv => (NoDeadLetters => WatermarkFollowsCommit)
  BY DEF IInv, ProcessedWasApplied, OrderInv, QueueInOrder, WatermarkDivides,
         WatermarkFollowsCommit, Delivered
<1> QED BY <1>1, Invariance, OrderInvariance, PTL

\* Whoever delivers the last of the queue requests the analysis of all of it.
THEOREM CatchUpIsNoticed ==
    ASSUME "overlap" \notin Adversity
    PROVE  Spec => []CatchUpRequestsAnalysis
<1>1. ASSUME IInv, OrderInv, AllProcessed(delivery)
      PROVE  deployment.requested >= MaxOr(Delivered(delivery), 0)
  <2>1. NoDeadLetters
    BY <1>1 DEF AllProcessed, NoDeadLetters, Delivered
  <2>2. \A i \in Delivered(delivery) : i <= deployment.requested
    BY <1>1, <2>1 DEF OrderInv, QueueInOrder, Requested
  <2>3. deployment.requested \in Nat /\ \A i \in Ids : i \in Nat
    BY <1>1, Numbers DEF IInv
  <2>4. CASE Delivered(delivery) = {}
    BY <2>3, <2>4 DEF MaxOr
  <2>5. CASE Delivered(delivery) # {}
    <3>1. Delivered(delivery) \in SUBSET Ids
      BY DEF Delivered
    <3>2. Max(Delivered(delivery)) \in Delivered(delivery)
      BY <2>5, <3>1, MaxOfIds
    <3> QED BY <2>2, <2>3, <2>5, <3>1, <3>2 DEF MaxOr
  <2> QED BY <2>4, <2>5
<1>2. IInv /\ OrderInv => CatchUpRequestsAnalysis
  BY <1>1 DEF CatchUpRequestsAnalysis
<1> QED BY <1>2, Invariance, OrderInvariance, PTL

\* Only a failure dead-letters, and it needs an exhausted delivery in its hands.
LEMMA DeadLettering ==
    ASSUME IInv, [Next]_vars, NoDeadLetters, NEW i \in Ids, delivery'[i].status = "DEAD_LETTER"
    PROVE  \E w \in Workers : Fail(w) /\ i \in Exhausted(w)
<1>0. TypeOK /\ delivery[i].status # "DEAD_LETTER"
  BY DEF IInv, NoDeadLetters
<1>1. ASSUME NEW s \in Sources, BeginPublish(s) \/ FireTriggers(s) PROVE FALSE
  BY <1>0, <1>1 DEF BeginPublish, FireTriggers, control
<1>2. ASSUME NEW ids, delivery' = Enqueued(ids) PROVE FALSE
  BY <1>0, <1>2, EnqueuedEffect DEF Enqueues
<1>3. ASSUME NEW s \in Sources, CommitPublish(s) PROVE FALSE
  BY <1>2, <1>3 DEF CommitPublish
<1>4. CASE Register
  BY <1>2, <1>4 DEF Register
<1>5. ASSUME NEW w \in Workers, Claim(w) PROVE FALSE
  BY <1>0, <1>5, ClaimEffect DEF Claims
<1>6. ASSUME NEW w \in Workers, Load(w) \/ Apply(w) \/ Crash(w) PROVE FALSE
  BY <1>0, <1>6 DEF Load, Apply, Crash, control
<1>7. ASSUME NEW w \in Workers, MarkProcessed(w) PROVE FALSE
  BY <1>0, <1>7, MarkProcessedEffect DEF Completes
<1>8. ASSUME NEW w \in Workers, Fail(w) PROVE i \in Exhausted(w)
  BY <1>0, <1>8, FailEffect DEF Fails
<1>9. CASE LeaseExpires
  BY <1>0, <1>9, LeaseExpiresEffect DEF DeliveriesKept
<1>10. CASE \E b \in Ids : BackoffElapses(b)
  BY <1>0, <1>10, BackoffEffect DEF DeliveriesKept
<1>11. CASE UNCHANGED vars
  BY <1>0, <1>11 DEF vars, control
<1> QED BY <1>1, <1>3, <1>4, <1>5, <1>6, <1>7, <1>8, <1>9, <1>10, <1>11 DEF Next

\* The first batch to dead-letter is that of the deployment's owner, and so stops it.
THEOREM FirstDeadLetterStops ==
    ASSUME "overlap" \notin Adversity
    PROVE  Spec => DeadLetterStops
<1>1. ASSUME IInv, OrderInv, [Next]_vars, NoDeadLetters,
             NEW i \in Ids, delivery'[i].status = "DEAD_LETTER"
      PROVE  deployment'.state = "ERROR"
  <2>1. PICK w \in Workers : Fail(w) /\ i \in Exhausted(w)
    BY <1>1, DeadLettering
  <2>2. Fails(w) /\ Busy(w) /\ i \in Held(w)
    BY <1>1, <2>1, FailEffect DEF IInv, Fails, Frees, Exhausted
  <2>3. deployment.owner = w
    BY <1>1, <2>2, OwnerHoldsBatch DEF OrderInv
  <2> QED BY <2>1, <2>2, <2>3 DEF Fails
<1>2. IInv /\ OrderInv /\ [Next]_vars =>
        [NoDeadLetters /\ (\E i \in Ids : delivery'[i].status = "DEAD_LETTER")
           => deployment'.state = "ERROR"]_vars
  BY <1>1
<1> QED BY <1>2, Invariance, OrderInvariance, PTL DEF Spec, DeadLetterStops

-----------------------------------------------------------------------------
(* Attempts.                                                               *)

\* Every attempt but the one in hand has cost a failure, a crash or an outlived lease; a
\* dead letter has had MaxAttempts.
AttemptsAreLosses ==
    \A i \in Ids :
        /\ delivery[i].attempt <= failures + mishaps + 1
        /\ i \in Undone /\ ~ (\E w \in Workers : /\ delivery[i].leased /\ delivery[i].owner = w
                                                  /\ Busy(w))
             => delivery[i].attempt <= failures + mishaps
        /\ delivery[i].status = "DEAD_LETTER" =>
             MaxAttempts <= delivery[i].attempt /\ delivery[i].attempt <= failures + mishaps

LEMMA OneMore == \A n, g, h \in Nat : n <= g + h => n <= g + h + 1
OBVIOUS

\* The deliveries a worker may not touch, and a failure or a mishap that is one more loss.
LEMMA LossCounts ==
    ASSUME IInv, AttemptsAreLosses,
           failures' \in Nat, mishaps' \in Nat, failures' + mishaps' >= failures + mishaps + 1,
           \A i \in Ids : /\ delivery'[i].attempt = delivery[i].attempt
                          /\ delivery'[i].status = "DEAD_LETTER" =>
                                 MaxAttempts <= delivery[i].attempt
    PROVE  AttemptsAreLosses'
<1>1. \A i \in Ids : delivery[i].attempt \in Nat
  BY Numbers DEF IInv
<1>2. failures \in Nat /\ mishaps \in Nat
  BY BoundAssumption DEF IInv, TypeOK
<1>3. ASSUME NEW i \in Ids
      PROVE  /\ delivery'[i].attempt \in Nat
             /\ delivery'[i].attempt <= failures' + mishaps'
             /\ delivery'[i].status = "DEAD_LETTER" => MaxAttempts <= delivery'[i].attempt
  <2>1. delivery'[i].attempt = delivery[i].attempt /\ delivery[i].attempt \in Nat
    BY <1>1
  <2>2. delivery[i].attempt <= failures + mishaps + 1
    BY DEF AttemptsAreLosses
  <2>3. delivery[i].attempt <= failures' + mishaps'
    <3>1. \A a, f, m, g, n \in Nat : a <= f + m + 1 /\ g + n >= f + m + 1 => a <= g + n
      OBVIOUS
    <3> QED BY <1>2, <2>1, <2>2, <3>1
  <2>4. delivery'[i].status = "DEAD_LETTER" => MaxAttempts <= delivery[i].attempt
    OBVIOUS
  <2> QED BY <2>1, <2>3, <2>4
<1>4. \A n \in Nat : n <= failures' + mishaps' => n <= failures' + mishaps' + 1
  BY <1>2, OneMore
<1> QED BY <1>3, <1>4 DEF AttemptsAreLosses

\* Nothing is lost, and what is still to do was in nobody's hands before if it is not now.
LEMMA NothingIsLostToCount ==
    ASSUME IInv, AttemptsAreLosses, UNCHANGED <<failures, mishaps>>,
           \A i \in Ids :
              /\ delivery'[i].attempt \in {delivery[i].attempt, 0}
              /\ delivery'[i].status = "DEAD_LETTER" => delivery'[i] = delivery[i]
              /\ i \in Undone' =>
                    \/ delivery'[i].attempt = 0
                    \/ /\ i \in Undone
                       /\ \A w \in Workers :
                            delivery[i].leased /\ delivery[i].owner = w /\ Busy(w)
                              => delivery'[i].leased /\ delivery'[i].owner = w /\ Busy(w)'
    PROVE  AttemptsAreLosses'
<1>1. \A i \in Ids : delivery[i].attempt \in Nat
  BY Numbers DEF IInv
<1>2. failures \in Nat /\ mishaps \in Nat
  BY BoundAssumption DEF IInv, TypeOK
<1> QED BY <1>1, <1>2 DEF AttemptsAreLosses

LEMMA ClaimCounts ==
    ASSUME IInv, AttemptsAreLosses, NEW w \in Workers, Claim(w)
    PROVE  AttemptsAreLosses'
<1> DEFINE batch == Lowest(BatchSize, Claimable)
<1>1. Claims(w, batch) /\ batch \subseteq Undone /\ UNCHANGED <<failures, mishaps>>
  BY ClaimEffect, BatchType DEF IInv, Claim
<1>2. \A i \in Ids : ~delivery[i].leased
  BY DEF IInv, LiveLeasesHaveOneHolder, Claim, DeploymentReady
<1>3. failures \in Nat /\ mishaps \in Nat /\ \A i \in Ids : delivery[i].attempt \in Nat
  BY BoundAssumption, Numbers DEF IInv, TypeOK
<1> HIDE DEF batch
<1>4. Busy(w)'
  BY <1>1 DEF Claims, Busy
<1>5. ASSUME NEW i \in Ids
      PROVE  /\ delivery'[i].attempt <= failures + mishaps + 1
             /\ i \in Undone' /\ ~ (\E v \in Workers : /\ delivery'[i].leased /\ delivery'[i].owner = v
                                                        /\ Busy(v)')
                  => delivery'[i].attempt <= failures + mishaps
             /\ delivery'[i].status = "DEAD_LETTER" =>
                  MaxAttempts <= delivery'[i].attempt /\ delivery'[i].attempt <= failures + mishaps
  <2>1. CASE i \in batch
    <3>1. delivery[i].attempt <= failures + mishaps
      BY <1>1, <1>2, <2>1 DEF AttemptsAreLosses
    <3> QED BY <1>1, <1>3, <1>4, <2>1, <3>1 DEF Claims
  <2>2. CASE i \notin batch
    BY <1>1, <1>2, <2>2 DEF Claims, AttemptsAreLosses, Undone
  <2> QED BY <2>1, <2>2
<1> QED BY <1>1, <1>5 DEF AttemptsAreLosses

\* What adds deliveries, or leaves them and the workers' batches alone.
LEMMA EnqueueingCounts ==
    ASSUME IInv, AttemptsAreLosses, NEW ids, Enqueues(ids), UNCHANGED <<worker, failures, mishaps>>
    PROVE  AttemptsAreLosses'
BY NothingIsLostToCount DEF Enqueues, Undone, Busy

LEMMA GoingOnCounts ==
    ASSUME IInv, AttemptsAreLosses, UNCHANGED <<failures, mishaps>>,
           \A w \in Workers : Busy(w)' = Busy(w),
           \A i \in Ids : /\ delivery'[i].status = delivery[i].status
                          /\ delivery'[i].status = "DEAD_LETTER" => delivery'[i] = delivery[i]
                          /\ delivery'[i].owner = delivery[i].owner
                          /\ delivery'[i].leased = delivery[i].leased
                          /\ delivery'[i].attempt = delivery[i].attempt
    PROVE  AttemptsAreLosses'
BY NothingIsLostToCount DEF Undone

LEMMA MarkProcessedCounts ==
    ASSUME IInv, AttemptsAreLosses, NEW w \in Workers, MarkProcessed(w)
    PROVE  AttemptsAreLosses'
<1>1. Completes(w) /\ UNCHANGED <<failures, mishaps>>
  BY MarkProcessedEffect DEF IInv, MarkProcessed
<1>2. Busy(w) /\ OthersGoOn(w)
  BY <1>1 DEF Completes, Frees
<1>3. \A i \in Ids : delivery[i].leased /\ delivery[i].owner = w => i \in Held(w)
  BY <1>2 DEF IInv, LeasesAreHeld, Held, Busy
<1>4. ASSUME NEW i \in Ids
      PROVE  /\ delivery'[i].attempt \in {delivery[i].attempt, 0}
             /\ delivery'[i].status = "DEAD_LETTER" => delivery'[i] = delivery[i]
             /\ i \in Undone' => i \notin Held(w) /\ delivery'[i] = delivery[i]
  BY <1>1 DEF Completes, Undone
<1>5. \A i \in Ids : i \in Undone' => i \in Undone
  BY <1>4 DEF Undone
<1>6. \A v \in Workers \ {w} : Busy(v)' = Busy(v)
  BY <1>2 DEF OthersGoOn, Busy
<1> QED BY <1>1, <1>3, <1>4, <1>5, <1>6, NothingIsLostToCount

LEMMA FailCounts ==
    ASSUME IInv, AttemptsAreLosses, NEW w \in Workers, Fail(w)
    PROVE  AttemptsAreLosses'
<1>1. Fails(w) /\ failures' = failures + 1 /\ mishaps' = mishaps
  BY FailEffect DEF IInv, Fail
<1>2. failures \in Nat /\ mishaps \in Nat
  BY BoundAssumption DEF IInv, TypeOK
<1>3. ASSUME NEW i \in Ids
      PROVE  /\ delivery'[i].attempt = delivery[i].attempt
             /\ delivery'[i].status = "DEAD_LETTER" => MaxAttempts <= delivery[i].attempt
  <2>1. CASE i \in Held(w)
    <3>1. delivery'[i].attempt = delivery[i].attempt
      BY <1>1, <2>1 DEF Fails
    <3>2. delivery'[i].status = "DEAD_LETTER" => delivery[i].attempt >= MaxAttempts
      BY <1>1, <2>1 DEF Fails, Exhausted
    <3>3. delivery[i].attempt \in Nat
      BY Numbers DEF IInv
    <3> QED BY <3>1, <3>2, <3>3, BatchAssumption
  <2>2. CASE i \notin Held(w)
    BY <1>1, <2>2 DEF Fails, AttemptsAreLosses
  <2> QED BY <2>1, <2>2
<1>4. failures' \in Nat /\ mishaps' \in Nat /\ failures' + mishaps' >= failures + mishaps + 1
  BY <1>1, <1>2
<1> QED BY <1>3, <1>4, LossCounts

\* A crash, or a lease outlived by its holder.
LEMMA MishapCounts ==
    ASSUME IInv, AttemptsAreLosses, failures' = failures, mishaps' = mishaps + 1,
           DeliveriesKept
    PROVE  AttemptsAreLosses'
<1>1. failures \in Nat /\ mishaps \in Nat
  BY BoundAssumption DEF IInv, TypeOK
<1>2. failures' \in Nat /\ mishaps' \in Nat /\ failures' + mishaps' >= failures + mishaps + 1
  BY <1>1
<1>3. \A i \in Ids : /\ delivery'[i].attempt = delivery[i].attempt
                     /\ delivery'[i].status = "DEAD_LETTER" => MaxAttempts <= delivery[i].attempt
  BY DEF DeliveriesKept, AttemptsAreLosses
<1> QED BY <1>2, <1>3, LossCounts

LEMMA LeaseExpiresCounts ==
    ASSUME IInv, AttemptsAreLosses, LeaseExpires
    PROVE  AttemptsAreLosses'
<1>1. DeliveriesKept /\ failures' = failures /\ worker' = worker
  BY LeaseExpiresEffect DEF IInv, LeaseExpires
<1>2. CASE \E w \in Workers : deployment.owner = w /\ Busy(w)
  BY <1>1, <1>2, MishapCounts DEF LeaseExpires, Busy
<1>3. CASE ~ \E w \in Workers : deployment.owner = w /\ Busy(w)
  <2>1. mishaps' = mishaps
    BY <1>3 DEF LeaseExpires, Busy
  <2>2. \A i \in Ids, w \in Workers : ~(delivery[i].leased /\ delivery[i].owner = w /\ Busy(w))
    BY <1>3 DEF IInv, LiveLeasesHaveOneHolder
  <2>3. Undone' = Undone
    BY <1>1 DEF DeliveriesKept, Undone
  <2>4. ASSUME NEW i \in Ids
        PROVE  /\ delivery'[i].attempt <= failures' + mishaps' + 1
               /\ i \in Undone' => delivery'[i].attempt <= failures' + mishaps'
               /\ delivery'[i].status = "DEAD_LETTER" =>
                    MaxAttempts <= delivery'[i].attempt /\ delivery'[i].attempt <= failures' + mishaps'
    <3>1. /\ delivery'[i].attempt = delivery[i].attempt /\ delivery'[i].status = delivery[i].status
          /\ failures' = failures /\ mishaps' = mishaps
      BY <1>1, <2>1 DEF DeliveriesKept
    <3> QED BY <2>2, <2>3, <3>1 DEF AttemptsAreLosses
  <2> QED BY <2>4 DEF AttemptsAreLosses
<1> QED BY <1>2, <1>3

LEMMA AttemptsStep ==
    ASSUME IInv, AttemptsAreLosses, [Next]_vars
    PROVE  AttemptsAreLosses'
<1>0. TypeOK
  BY DEF IInv
<1>1. ASSUME NEW s \in Sources, BeginPublish(s) \/ FireTriggers(s) PROVE AttemptsAreLosses'
  <2>1. UNCHANGED <<delivery, worker, failures, mishaps>>
    BY <1>1 DEF BeginPublish, FireTriggers, control
  <2> QED BY <2>1, GoingOnCounts DEF Busy
<1>2. ASSUME NEW s \in Sources, CommitPublish(s) PROVE AttemptsAreLosses'
  BY <1>2, EnqueuedEffect, EnqueueingCounts DEF CommitPublish
<1>3. CASE Register
  BY <1>3, EnqueuedEffect, EnqueueingCounts DEF Register
<1>4. ASSUME NEW w \in Workers, Claim(w) PROVE AttemptsAreLosses'
  BY <1>4, ClaimCounts
<1>5. ASSUME NEW w \in Workers, Load(w) \/ Apply(w) PROVE AttemptsAreLosses'
  <2>1. GoesOn(w) /\ UNCHANGED <<failures, mishaps>>
    BY <1>0, <1>5, WorkEffect DEF Load, Apply
  <2>2. \A v \in Workers : Busy(v)' = Busy(v)
    BY <2>1 DEF GoesOn, OthersGoOn, Busy
  <2> QED BY <2>1, <2>2, GoingOnCounts DEF GoesOn
<1>6. ASSUME NEW w \in Workers, MarkProcessed(w) PROVE AttemptsAreLosses'
  BY <1>6, MarkProcessedCounts
<1>7. ASSUME NEW w \in Workers, Fail(w) PROVE AttemptsAreLosses'
  BY <1>7, FailCounts
<1>8. ASSUME NEW w \in Workers, Crash(w) PROVE AttemptsAreLosses'
  <2>1. delivery' = delivery /\ failures' = failures /\ mishaps' = mishaps + 1
    BY <1>8 DEF Crash, control
  <2> QED BY <2>1, MishapCounts DEF DeliveriesKept
<1>9. CASE LeaseExpires
  BY <1>9, LeaseExpiresCounts
<1>10. ASSUME NEW b \in Ids, BackoffElapses(b) PROVE AttemptsAreLosses'
  <2>1. /\ DeliveriesKept /\ UNCHANGED worker
        /\ \A i \in Ids : delivery'[i].leased = delivery[i].leased
        /\ UNCHANGED <<failures, mishaps>>
    BY <1>0, <1>10, BackoffEffect DEF BackoffElapses
  <2> QED BY <2>1, NothingIsLostToCount DEF DeliveriesKept, Busy, Undone, AttemptsAreLosses
<1>11. CASE UNCHANGED vars
  BY <1>11, GoingOnCounts DEF vars, control, Busy
<1> QED BY <1>1, <1>2, <1>3, <1>4, <1>5, <1>6, <1>7, <1>8, <1>9, <1>10, <1>11 DEF Next

\* A delivery is given up only after MaxAttempts failed batches, crashes and outlived leases:
\* claiming, as such, never uses attempts up.
THEOREM DeadLettersAreEarned == Spec => []AttemptsAreLosses
<1>1. Init => AttemptsAreLosses
  BY DEF Init, NoDelivery, NewDelivery, AttemptsAreLosses
<1>2. IInv /\ AttemptsAreLosses /\ [Next]_vars => AttemptsAreLosses'
  BY AttemptsStep
<1> QED BY <1>1, <1>2, Invariance, PTL DEF Spec

\* Fewer losses than MaxAttempts dead-letter nothing.
THEOREM FewLossesAreSurvived ==
    ASSUME MaxFailures + MaxMishaps < MaxAttempts
    PROVE  Spec => []NoDeadLetters
<1>1. ASSUME IInv, AttemptsAreLosses PROVE NoDeadLetters
  <2> SUFFICES ASSUME NEW i \in Ids, delivery[i].status = "DEAD_LETTER" PROVE FALSE
    BY DEF NoDeadLetters
  <2>1. delivery[i].attempt \in Nat /\ failures \in 0 .. MaxFailures /\ mishaps \in 0 .. MaxMishaps
    BY <1>1, Numbers DEF IInv, TypeOK
  <2>2. MaxAttempts <= delivery[i].attempt /\ delivery[i].attempt <= failures + mishaps
    BY <1>1 DEF AttemptsAreLosses
  <2> QED BY <2>1, <2>2, BatchAssumption, BoundAssumption
<1>2. IInv /\ AttemptsAreLosses => NoDeadLetters
  BY <1>1
<1> QED BY <1>2, Invariance, DeadLettersAreEarned, PTL

\* Then the watermark is safe without further condition.
THEOREM WatermarkIsSafeWhileLossesAreFew ==
    ASSUME "overlap" \notin Adversity, MaxFailures + MaxMishaps < MaxAttempts
    PROVE  Spec => []WatermarkFollowsCommit
BY WatermarkIsSafe, FewLossesAreSurvived, PTL
=============================================================================
