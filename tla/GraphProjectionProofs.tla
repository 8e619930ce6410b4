----------------------- MODULE GraphProjectionProofs -----------------------
(***************************************************************************)
(* Proofs about GraphProjection, for every number of keys, sources,        *)
(* workers and outbox rows, every batch size and attempt limit, and with   *)
(* everything Adversity allows.                                            *)
(***************************************************************************)
EXTENDS GraphProjection, Extrema

-----------------------------------------------------------------------------
(* Extrema and ranks of sets of outbox ids.                                *)

\* Min and Max pick the extrema that exist.
LEMMA MinOfIds ==
    ASSUME NEW S \in SUBSET Ids, S # {}
    PROVE  Min(S) \in S /\ \A y \in S : Min(S) <= y
BY MinOfRows, BoundAssumption DEF Ids

LEMMA MaxOfIds ==
    ASSUME NEW S \in SUBSET Ids, S # {}
    PROVE  Max(S) \in S /\ \A y \in S : Max(S) >= y
BY MaxOfRows, BoundAssumption DEF Ids

\* The watermarks computed from sets of ids are naturals.
LEMMA MaxOrType ==
    ASSUME NEW S \in SUBSET Ids, NEW d \in Nat
    PROVE  MaxOr(S, d) \in Nat
<1>1. CASE S = {}
  BY <1>1 DEF MaxOr
<1>2. CASE S # {}
  <2>1. Max(S) \in Ids
    BY <1>2, MaxOfIds
  <2>2. Max(S) \in Nat
    BY <2>1, BoundAssumption DEF Ids
  <2> QED BY <1>2, <2>2 DEF MaxOr
<1> QED BY <1>1, <1>2

LEMMA GreatestType ==
    ASSUME NEW a \in Nat, NEW b \in Nat
    PROVE  Greatest(a, b) \in Nat /\ Greatest(a, b) \in {a, b}
BY DEF Greatest

\* A batch taken from a set whose least element is available is not empty.
LEMMA LowestNonempty ==
    ASSUME NEW n \in Nat \ {0}, NEW S \in SUBSET Ids, NEW m \in S, \A j \in S : m <= j
    PROVE  m \in Lowest(n, S)
<1>1. \A j \in S : j \in Int /\ m \in Int /\ ~ (j < m)
  BY BoundAssumption DEF Ids
<1>2. {j \in S : j < m} = {}
  BY <1>1
<1>3. Cardinality({j \in S : j < m}) = 0
  BY <1>2, FS_EmptySet
<1> QED BY <1>3 DEF Lowest

-----------------------------------------------------------------------------
(* Publication.                                                            *)

\* The rows an INSERT may produce are outbox rows, and its transaction stays well typed.
LEMMA InsertClosesType ==
    ASSUME TypeOK, NEW s \in Sources, NEW facts \in SUBSET Ids, NEW keys \in SUBSET Keys,
           InsertCloses(s, facts, keys)
    PROVE  outbox' \in [Ids -> OutboxRow] /\ txn' \in [Sources -> Transaction]
<1> DEFINE ids == NextIds(Cardinality(facts))
<1>1. ids \subseteq Ids
  BY DEF NextIds, Unallocated
<1>2. PICK f \in Pairings(ids, facts) :
        outbox' = [i \in Ids |-> IF i \in ids THEN Row("CLOSE", f[i], KeyOf(f[i])) ELSE outbox[i]]
  BY DEF InsertCloses
<1>3. \A i \in ids : f[i] \in Ids
  BY DEF Pairings
<1>4. \A i \in ids : Row("CLOSE", f[i], KeyOf(f[i])) \in OutboxRow
  BY <1>3 DEF Row, KeyOf, OutboxRow, TypeOK
<1>5. outbox' \in [Ids -> OutboxRow]
  BY <1>2, <1>4 DEF TypeOK
<1>6. [NoTxn EXCEPT !.open = TRUE, !.rows = ids, !.fresh = ids,
                    !.closes = facts, !.todo = keys] \in Transaction
  BY <1>1 DEF NoTxn, Transaction
<1>7. txn' \in [Sources -> Transaction]
  BY <1>6 DEF InsertCloses, TypeOK
<1> QED BY <1>5, <1>7

LEMMA InsertUpsertsType ==
    ASSUME TypeOK, NEW s \in Sources, NEW t \in Transaction, NEW keys \in SUBSET Keys,
           InsertUpserts(s, t, keys)
    PROVE  outbox' \in [Ids -> OutboxRow] /\ txn' \in [Sources -> Transaction]
<1> DEFINE ids == NextIds(Cardinality(keys))
<1>1. ids \subseteq Ids
  BY DEF NextIds, Unallocated
<1>2. PICK f \in Pairings(ids, keys) :
        outbox' = [i \in Ids |-> IF i \in ids THEN Row("UPSERT", i, f[i]) ELSE outbox[i]]
  BY DEF InsertUpserts
<1>3. \A i \in ids : Row("UPSERT", i, f[i]) \in OutboxRow
  BY <1>1 DEF Pairings, Row, OutboxRow
<1>4. outbox' \in [Ids -> OutboxRow]
  BY <1>2, <1>3 DEF TypeOK
<1>5. [t EXCEPT !.open = TRUE, !.rows = @ \cup ids, !.fresh = ids, !.todo = {}] \in Transaction
  BY <1>1 DEF Transaction
<1>6. txn' \in [Sources -> Transaction]
  BY <1>5 DEF InsertUpserts, TypeOK
<1> QED BY <1>4, <1>6

\* Whatever leaves the queue, the workers and the history of Neo4j alone keeps IInv if it
\* keeps the types.
LEMMA QueueUntouched ==
    ASSUME IInv, TypeOK', UNCHANGED <<control, worker, applied>>
    PROVE  IInv'
BY DEF IInv, ProcessedWasApplied, LiveLeasesHaveOneHolder, LeasesAreHeld, control

LEMMA BeginPublishKeeps ==
    ASSUME IInv, NEW s \in Sources, BeginPublish(s)
    PROVE  IInv'
<1>0. TypeOK
  BY DEF IInv
<1>1. PICK keys \in SUBSET {k \in Keys : Owner[k] = s}, completeness \in {"COMPLETE", "PARTIAL"} :
        LET closes == ClosedBy(s, completeness)
        IN  IF closes # {} THEN InsertCloses(s, closes, keys) ELSE InsertUpserts(s, NoTxn, keys)
  BY DEF BeginPublish
<1>2. ClosedBy(s, completeness) \in SUBSET Ids
  BY <1>0 DEF ClosedBy, CurrentOf, TypeOK
<1>3. NoTxn \in Transaction /\ keys \in SUBSET Keys
  BY DEF NoTxn, Transaction
<1>4. outbox' \in [Ids -> OutboxRow] /\ txn' \in [Sources -> Transaction]
  BY <1>0, <1>1, <1>2, <1>3, InsertClosesType, InsertUpsertsType
<1>5. TypeOK'
  BY <1>0, <1>4 DEF BeginPublish, TypeOK, control, graph
<1> QED BY <1>5, QueueUntouched DEF BeginPublish, control, graph

LEMMA FireTriggersKeeps ==
    ASSUME IInv, NEW s \in Sources, FireTriggers(s)
    PROVE  IInv'
<1> DEFINE t == [txn[s] EXCEPT !.fresh = {},
                   !.seen = @ \cup (IF deployment.state = "ACTIVE" THEN txn[s].fresh ELSE {})]
<1>0. TypeOK
  BY DEF IInv
<1>1. t \in Transaction /\ txn[s].todo \in SUBSET Keys
  BY <1>0 DEF TypeOK, Transaction
<1>2. IF txn[s].todo # {} THEN InsertUpserts(s, t, txn[s].todo)
                          ELSE txn' = [txn EXCEPT ![s] = t] /\ UNCHANGED outbox
  BY DEF FireTriggers
<1>3. outbox' \in [Ids -> OutboxRow] /\ txn' \in [Sources -> Transaction]
  <2>1. CASE txn[s].todo # {}
    BY <1>0, <1>1, <1>2, <2>1, InsertUpsertsType
  <2>2. CASE txn[s].todo = {}
    BY <1>0, <1>1, <1>2, <2>2 DEF TypeOK
  <2> QED BY <2>1, <2>2
<1>4. rowLock' \in Sources \cup {Nobody}
  BY <1>0 DEF FireTriggers, TypeOK
<1>5. TypeOK'
  BY <1>0, <1>3, <1>4 DEF FireTriggers, TypeOK, control, graph
<1> QED BY <1>5, QueueUntouched DEF FireTriggers, control, graph

\* Enqueueing adds PENDING deliveries and changes no other.
LEMMA EnqueuedKeeps ==
    ASSUME TypeOK, NEW ids \in SUBSET Ids
    PROVE  /\ Enqueued(ids) \in [Ids -> Delivery]
           /\ \A i \in Ids : \/ Enqueued(ids)[i] = delivery[i]
                             \/ Enqueued(ids)[i] = NewDelivery
BY DEF Enqueued, NewDelivery, Delivery, TypeOK

\* A step that only enqueues, and only raises desired or changes the state, keeps IInv.
LEMMA EnqueueingKeeps ==
    ASSUME IInv, TypeOK', NEW ids \in SUBSET Ids, delivery' = Enqueued(ids),
           deployment'.projected = deployment.projected,
           deployment'.owner = deployment.owner, deployment'.leased = deployment.leased,
           UNCHANGED <<worker, applied>>
    PROVE  IInv'
<1>1. \A i \in Ids : delivery'[i] = delivery[i] \/ delivery'[i] = NewDelivery
  BY EnqueuedKeeps DEF IInv
<1>2. NewDelivery.status = "PENDING" /\ NewDelivery.owner = Nobody /\ NewDelivery.leased = FALSE
  BY DEF NewDelivery
<1>3. ProcessedWasApplied'
  BY <1>1, <1>2 DEF IInv, ProcessedWasApplied
<1>4. LiveLeasesHaveOneHolder'
  BY <1>1, <1>2 DEF IInv, LiveLeasesHaveOneHolder
<1>5. LeasesAreHeld'
  BY <1>1, <1>2 DEF IInv, LeasesAreHeld
<1> QED BY <1>3, <1>4, <1>5 DEF IInv

LEMMA CommitPublishKeeps ==
    ASSUME IInv, NEW s \in Sources, CommitPublish(s)
    PROVE  IInv'
<1>0. TypeOK
  BY DEF IInv
<1>1. /\ txn[s].rows \in SUBSET Ids /\ txn[s].seen \in SUBSET Ids
  BY <1>0 DEF TypeOK, Transaction
<1>2. Raised(txn[s].seen) \in Nat
  <2>1. deployment.desired \in Nat /\ MaxOr(txn[s].seen, 0) \in Nat
    BY <1>0, <1>1, MaxOrType DEF TypeOK, Deployment
  <2> QED BY <2>1, GreatestType DEF Raised
<1>3. delivery' \in [Ids -> Delivery]
  BY <1>0, <1>1, EnqueuedKeeps DEF CommitPublish
<1>4. deployment' \in Deployment
  BY <1>0, <1>2 DEF CommitPublish, TypeOK, Deployment
<1>5. NoTxn \in Transaction
  BY DEF NoTxn, Transaction
<1>6. TypeOK'
  BY <1>0, <1>1, <1>3, <1>4, <1>5 DEF CommitPublish, TypeOK, graph
<1>7. /\ deployment'.projected = deployment.projected
      /\ deployment'.owner = deployment.owner /\ deployment'.leased = deployment.leased
  BY <1>0 DEF CommitPublish, TypeOK, Deployment
<1> QED BY <1>1, <1>6, <1>7, EnqueueingKeeps DEF CommitPublish, graph

LEMMA RegisterKeeps ==
    ASSUME IInv, Register
    PROVE  IInv'
<1>0. TypeOK
  BY DEF IInv
<1>1. Backfill \in SUBSET Ids
  <2>1. committed # {} => Max(committed) \in Ids
    BY <1>0, MaxOfIds DEF TypeOK
  <2>2. Upserts(committed) \subseteq Ids
    BY <1>0 DEF Upserts, TypeOK
  <2> QED BY <1>0, <2>1, <2>2 DEF Backfill, TypeOK
<1>2. delivery' \in [Ids -> Delivery]
  BY <1>0, <1>1, EnqueuedKeeps DEF Register
<1>3. deployment' \in Deployment
  <2>1. deployment.desired \in Nat /\ deployment.projected \in Nat
    BY <1>0 DEF TypeOK, Deployment
  <2>2. Delivered(delivery') \in SUBSET Ids
    BY DEF Delivered
  <2>3. Greatest(deployment.desired, MaxOr(Delivered(delivery'), deployment.projected)) \in Nat
    BY <2>1, <2>2, MaxOrType, GreatestType
  <2> QED BY <1>0, <2>3 DEF Register, TypeOK, Deployment
<1>4. TypeOK'
  BY <1>0, <1>2, <1>3 DEF Register, TypeOK, store, graph
<1>5. /\ deployment'.projected = deployment.projected
      /\ deployment'.owner = deployment.owner /\ deployment'.leased = deployment.leased
  BY <1>0 DEF Register, TypeOK, Deployment
<1> QED BY <1>1, <1>4, <1>5, EnqueueingKeeps DEF Register, graph

-----------------------------------------------------------------------------
(* The worker.                                                             *)

\* The batch _claim_batch takes is a nonempty set of deliveries still to do.
LEMMA BatchType ==
    ASSUME DeploymentReady
    PROVE  /\ Lowest(BatchSize, Claimable) \in SUBSET Undone
           /\ Lowest(BatchSize, Claimable) # {}
<1>1. Claimable \subseteq Undone /\ Undone \in SUBSET Ids
  BY DEF Claimable, Undone
<1>2. Lowest(BatchSize, Claimable) \subseteq Claimable
  BY DEF Lowest
<1>3. Min(Undone) \in Claimable /\ \A j \in Claimable : Min(Undone) <= j
  BY <1>1, MinOfIds DEF DeploymentReady
<1>4. Min(Undone) \in Lowest(BatchSize, Claimable)
  BY <1>1, <1>3, LowestNonempty, BatchAssumption
<1> QED BY <1>1, <1>2, <1>4

\* A delivery stays one when it is leased, finished, dead-lettered or postponed.
LEMMA LeasedToType ==
    ASSUME NEW d \in Delivery, NEW w \in Workers
    PROVE  /\ LeasedTo(w, d) \in Delivery
           /\ LeasedTo(w, d).status = "PROCESSING"
           /\ LeasedTo(w, d).owner = w /\ LeasedTo(w, d).leased
<1>1. d.attempt + 1 \in Nat
  BY DEF Delivery
<1> QED BY <1>1 DEF LeasedTo, Delivery

LEMMA ReleasedType ==
    ASSUME NEW d \in Delivery, NEW batch \in SUBSET Ids
    PROVE  \A r \in {Finished(d), DeadLettered(d), Postponed(d, batch)} :
              r \in Delivery /\ r.owner = Nobody /\ ~r.leased
<1>1. Released(d) \in Delivery /\ Released(d).owner = Nobody /\ ~Released(d).leased
  BY DEF Released, Delivery
<1>2. \A e \in Delivery : /\ [e EXCEPT !.status = "PROCESSED"] \in Delivery
                         /\ [e EXCEPT !.status = "DEAD_LETTER"] \in Delivery
                         /\ [e EXCEPT !.status = "PENDING", !.wait = batch] \in Delivery
  BY DEF Delivery
<1>3. /\ Finished(d).owner = Nobody /\ ~Finished(d).leased
      /\ DeadLettered(d).owner = Nobody /\ ~DeadLettered(d).leased
      /\ Postponed(d, batch).owner = Nobody /\ ~Postponed(d, batch).leased
  BY DEF Finished, DeadLettered, Postponed, Released, Delivery
<1>4. Finished(d) \in Delivery /\ DeadLettered(d) \in Delivery /\ Postponed(d, batch) \in Delivery
  BY <1>1, <1>2 DEF Finished, DeadLettered, Postponed
<1> QED BY <1>3, <1>4

LEMMA ClaimKeeps ==
    ASSUME IInv, NEW w \in Workers, Claim(w)
    PROVE  IInv'
<1> DEFINE batch == Lowest(BatchSize, Claimable)
<1>0. TypeOK
  BY DEF IInv
<1>1. batch \in SUBSET Ids /\ batch # {} /\ \A i \in batch : delivery[i].status # "PROCESSED"
  BY BatchType DEF Claim, Undone
<1> HIDE DEF batch
<1>2. /\ delivery' = [i \in Ids |-> IF i \in batch
             THEN LeasedTo(w, delivery[i]) ELSE delivery[i]]
      /\ worker' = [worker EXCEPT ![w] = [Idle EXCEPT !.pc = "claimed", !.batch = batch]]
      /\ deployment' = [deployment EXCEPT !.owner = w, !.leased = TRUE]
      /\ UNCHANGED <<outbox, committed, current, txn, rowLock, edges, applied, failures, mishaps>>
  BY DEF Claim, batch, store, graph
<1>3. TypeOK'
  <2>1. ASSUME NEW i \in Ids PROVE delivery'[i] \in Delivery
    <3>1. delivery[i] \in Delivery
      BY <1>0 DEF TypeOK
    <3>2. LeasedTo(w, delivery[i]) \in Delivery
      BY <3>1, LeasedToType
    <3>3. CASE i \in batch
      BY <1>2, <3>2, <3>3
    <3>4. CASE i \notin batch
      BY <1>2, <3>1, <3>4
    <3> QED BY <3>3, <3>4
  <2>2. delivery' \in [Ids -> Delivery]
    BY <1>2, <2>1
  <2>3. [Idle EXCEPT !.pc = "claimed", !.batch = batch] \in Process
    BY <1>1 DEF Idle, Process
  <2>4. worker' \in [Workers -> Process]
    BY <1>0, <1>2, <2>3 DEF TypeOK
  <2>5. deployment' \in Deployment
    BY <1>0, <1>2 DEF TypeOK, Deployment
  <2> QED BY <1>0, <1>2, <2>2, <2>4, <2>5 DEF TypeOK
\* Nothing was leased, so what is leased now is exactly the batch.
<1>4. \A i \in Ids : ~delivery[i].leased
  BY DEF IInv, LiveLeasesHaveOneHolder, Claim, DeploymentReady
<1>5. ASSUME NEW i \in Ids
      PROVE IF i \in batch
            THEN delivery'[i].status = "PROCESSING" /\ delivery'[i].owner = w /\ delivery'[i].leased
            ELSE delivery'[i] = delivery[i]
  <2>1. delivery[i] \in Delivery
    BY <1>0 DEF TypeOK
  <2>2. delivery'[i] = IF i \in batch THEN LeasedTo(w, delivery[i]) ELSE delivery[i]
    BY <1>2
  <2> QED BY <2>1, <2>2, LeasedToType
<1>6. /\ deployment'.projected = deployment.projected
      /\ deployment'.owner = w /\ deployment'.leased
  BY <1>0, <1>2 DEF TypeOK, Deployment
<1>7. ProcessedWasApplied'
  <2>1. \A i \in Ids : delivery'[i].status = "PROCESSED" => delivery[i].status = "PROCESSED"
    BY <1>5
  <2> QED BY <1>2, <1>6, <2>1 DEF IInv, ProcessedWasApplied
<1>8. LiveLeasesHaveOneHolder'
  BY <1>4, <1>5, <1>6 DEF LiveLeasesHaveOneHolder
<1>9. LeasesAreHeld'
  <2>1. worker'[w].pc = "claimed" /\ worker'[w].batch = batch
    BY <1>0, <1>2 DEF TypeOK, Idle
  <2>2. \A v \in Workers \ {w} : worker'[v] = worker[v]
    BY <1>0, <1>2 DEF TypeOK
  <2>3. \A i \in Ids : delivery'[i].status # "PROCESSING"
                         => delivery'[i].owner = Nobody /\ ~delivery'[i].leased
    BY <1>5 DEF IInv, LeasesAreHeld
  <2>4. \A v \in Workers, i \in Ids : delivery'[i].leased /\ delivery'[i].owner = v => v = w
    BY <1>4, <1>5
  <2>5. applied' = applied
    BY DEF Claim, graph
  <2>6. ASSUME NEW v \in Workers
        PROVE  /\ worker'[v].pc # "idle" => worker'[v].batch # {}
               /\ worker'[v].pc = "applied" => worker'[v].batch \subseteq applied'
               /\ \A i \in Ids : worker'[v].pc # "idle" /\ delivery'[i].leased
                                   /\ delivery'[i].owner = v => i \in worker'[v].batch
    <3>1. CASE v = w
      BY <1>1, <1>4, <1>5, <2>1, <3>1
    <3>2. CASE v # w
      BY <2>2, <2>4, <2>5, <3>2 DEF IInv, LeasesAreHeld
    <3> QED BY <3>1, <3>2
  <2> QED BY <2>3, <2>6 DEF LeasesAreHeld
<1> QED BY <1>3, <1>7, <1>8, <1>9 DEF IInv

LEMMA LoadKeeps ==
    ASSUME IInv, NEW w \in Workers, Load(w)
    PROVE  IInv'
<1>0. TypeOK
  BY DEF IInv
<1>1. TypeOK'
  <2>1. current \cap {outbox[i].fact : i \in worker[w].batch} \in SUBSET Ids
    BY <1>0 DEF TypeOK
  <2>2. worker' \in [Workers -> Process]
    BY <1>0, <2>1 DEF Load, TypeOK, Process
  <2> QED BY <1>0, <2>2 DEF Load, TypeOK, store, control, graph
<1>2. /\ worker'[w].pc = "loaded" /\ worker'[w].batch = worker[w].batch
      /\ \A v \in Workers \ {w} : worker'[v] = worker[v]
  BY <1>0 DEF Load, TypeOK, Process
<1>3. UNCHANGED <<delivery, deployment, applied>>
  BY DEF Load, control, graph
<1>4. ProcessedWasApplied' /\ LiveLeasesHaveOneHolder'
  BY <1>3 DEF IInv, ProcessedWasApplied, LiveLeasesHaveOneHolder
<1>5. LeasesAreHeld'
  BY <1>2, <1>3 DEF IInv, LeasesAreHeld, Load
<1> QED BY <1>1, <1>4, <1>5 DEF IInv

LEMMA ApplyKeeps ==
    ASSUME IInv, NEW w \in Workers, Apply(w)
    PROVE  IInv'
<1>0. TypeOK
  BY DEF IInv
<1>1. /\ worker'[w].pc = "applied" /\ worker'[w].batch = worker[w].batch
      /\ \A v \in Workers \ {w} : worker'[v] = worker[v]
      /\ worker' \in [Workers -> Process]
  BY <1>0 DEF Apply, TypeOK, Process
<1>2. applied' = applied \cup worker[w].batch /\ worker[w].batch \subseteq Ids
  BY <1>0 DEF Apply, TypeOK, Process
<1>3. edges' \in [Keys -> Ids \cup {NoFact}]
  BY DEF Apply
<1>4. TypeOK'
  BY <1>0, <1>1, <1>2, <1>3 DEF Apply, TypeOK, store, control
<1>5. UNCHANGED <<delivery, deployment>>
  BY DEF Apply, control
<1>6. ProcessedWasApplied' /\ LiveLeasesHaveOneHolder'
  BY <1>2, <1>5 DEF IInv, ProcessedWasApplied, LiveLeasesHaveOneHolder
<1>7. LeasesAreHeld'
  BY <1>1, <1>2, <1>5 DEF IInv, LeasesAreHeld, Apply
<1> QED BY <1>4, <1>6, <1>7 DEF IInv

\* The new watermark is the old one or the newest delivery of the batch.
LEMMA WatermarkAfterValue ==
    ASSUME IInv, NEW w \in Workers, worker[w].pc = "applied"
    PROVE  /\ WatermarkAfter(w) \in Nat
           /\ WatermarkAfter(w) \in applied \cup {0}
<1>1. /\ worker[w].batch \in SUBSET Ids /\ deployment.projected \in Nat
  BY DEF IInv, TypeOK, Process, Deployment
<1>2. worker[w].batch # {} /\ worker[w].batch \subseteq applied
  BY DEF IInv, LeasesAreHeld
<1>3. Max(worker[w].batch) \in worker[w].batch
  BY <1>1, <1>2, MaxOfIds
<1>4. Max(worker[w].batch) \in Nat
  BY <1>1, <1>3, BoundAssumption DEF Ids
<1>5. WatermarkAfter(w) \in {deployment.projected, Max(worker[w].batch)}
  BY <1>1, <1>4, GreatestType DEF WatermarkAfter
<1> QED BY <1>1, <1>2, <1>3, <1>4, <1>5 DEF IInv, ProcessedWasApplied

\* What a worker does to the deliveries and the deployment when it finishes: it releases
\* those it still holds, and the deployment if it still holds that.
Finishes(w) ==
    /\ \A i \in Ids : IF i \in Held(w)
          THEN /\ delivery'[i].owner = Nobody /\ ~delivery'[i].leased
               /\ delivery'[i].status = "PROCESSED" => i \in applied
          ELSE delivery'[i] = delivery[i]
    /\ IF deployment.owner = w
       THEN deployment'.owner = Nobody /\ ~deployment'.leased
       ELSE deployment'.owner = deployment.owner /\ deployment'.leased = deployment.leased
    /\ deployment'.projected \in applied \cup {0}
    /\ worker' = [worker EXCEPT ![w] = Idle]
    /\ applied' = applied

LEMMA FinishingKeeps ==
    ASSUME IInv, TypeOK', NEW w \in Workers, worker[w].pc # "idle", Finishes(w)
    PROVE  IInv'
<1>1. ProcessedWasApplied'
  BY DEF IInv, ProcessedWasApplied, Finishes
\* What stays leased after w is done belongs to another holder of the deployment.
<1>2. ASSUME NEW i \in Ids, delivery'[i].leased
      PROVE  i \notin Held(w) /\ delivery'[i] = delivery[i] /\ delivery[i].owner # w
  <2>1. i \notin Held(w) /\ delivery'[i] = delivery[i]
    BY <1>2 DEF Finishes
  <2>2. delivery[i].leased
    BY <1>2, <2>1
  <2>3. delivery[i].owner = w => i \in worker[w].batch
    BY <2>2 DEF IInv, LeasesAreHeld
  <2> QED BY <2>1, <2>3 DEF Held
<1>3. LiveLeasesHaveOneHolder'
  BY <1>2 DEF IInv, LiveLeasesHaveOneHolder, Finishes
<1>4. LeasesAreHeld'
  <2>1. worker'[w].pc = "idle" /\ \A v \in Workers \ {w} : worker'[v] = worker[v]
    BY DEF Finishes, IInv, TypeOK, Idle
  <2>2. \A i \in Ids : delivery'[i].status # "PROCESSING"
                         => delivery'[i].owner = Nobody /\ ~delivery'[i].leased
    BY DEF Finishes, IInv, LeasesAreHeld
  <2>3. applied' = applied
    BY DEF Finishes
  <2>4. ASSUME NEW v \in Workers
        PROVE  /\ worker'[v].pc # "idle" => worker'[v].batch # {}
               /\ worker'[v].pc = "applied" => worker'[v].batch \subseteq applied'
               /\ \A i \in Ids : worker'[v].pc # "idle" /\ delivery'[i].leased
                                   /\ delivery'[i].owner = v => i \in worker'[v].batch
    <3>1. CASE v = w
      BY <2>1, <3>1
    <3>2. CASE v # w
      BY <1>2, <2>1, <2>3, <3>2 DEF IInv, LeasesAreHeld
    <3> QED BY <3>1, <3>2
  <2> QED BY <2>2, <2>4 DEF LeasesAreHeld
<1> QED BY <1>1, <1>3, <1>4 DEF IInv

LEMMA MarkProcessedKeeps ==
    ASSUME IInv, NEW w \in Workers, MarkProcessed(w)
    PROVE  IInv'
<1>0. TypeOK
  BY DEF IInv
<1>1. /\ worker[w].pc = "applied"
      /\ delivery' = [i \in Ids |-> IF i \in Held(w)
             THEN Finished(delivery[i]) ELSE delivery[i]]
      /\ worker' = [worker EXCEPT ![w] = Idle]
      /\ UNCHANGED <<outbox, committed, current, txn, rowLock, edges, applied, failures, mishaps>>
  BY DEF MarkProcessed, store, graph
<1>2. WatermarkAfter(w) \in Nat /\ WatermarkAfter(w) \in applied \cup {0}
  BY <1>1, WatermarkAfterValue
<1>3. deployment.requested \in Nat /\ Greatest(deployment.requested, WatermarkAfter(w)) \in Nat
  BY <1>0, <1>2, GreatestType DEF TypeOK, Deployment
<1>4. \/ deployment.owner # w /\ deployment' = deployment
      \/ /\ deployment.owner = w
         /\ \E r \in Nat : deployment' = [Released(deployment) EXCEPT
                              !.projected = WatermarkAfter(w), !.requested = r]
  <2>1. CASE deployment.owner # w
    BY <2>1 DEF MarkProcessed
  <2>2. CASE deployment.owner = w
    <3>1. Released(deployment).requested = deployment.requested
      BY <1>0 DEF Released, TypeOK, Deployment
    <3> QED BY <1>3, <2>2, <3>1 DEF MarkProcessed
  <2> QED BY <2>1, <2>2
<1>5. deployment' \in Deployment
  <2>1. Released(deployment) \in Deployment
    BY <1>0 DEF Released, TypeOK, Deployment
  <2>2. \A p, r \in Nat :
           [Released(deployment) EXCEPT !.projected = p, !.requested = r] \in Deployment
    BY <1>0, <2>1 DEF Released, TypeOK, Deployment
  <2>3. CASE deployment.owner # w
    BY <1>0, <1>4, <2>3 DEF TypeOK
  <2>4. CASE deployment.owner = w
    BY <1>2, <1>4, <2>2, <2>4 DEF Released
  <2> QED BY <2>3, <2>4
<1>6. ASSUME NEW i \in Ids
      PROVE  delivery'[i] \in Delivery
  <2>1. delivery[i] \in Delivery
    BY <1>0 DEF TypeOK
  <2>2. Finished(delivery[i]) \in Delivery
    BY <2>1, ReleasedType
  <2>3. CASE i \in Held(w)
    BY <1>1, <2>2, <2>3
  <2>4. CASE i \notin Held(w)
    BY <1>1, <2>1, <2>4
  <2> QED BY <2>3, <2>4
<1>7. TypeOK'
  <2>1. delivery' \in [Ids -> Delivery]
    BY <1>1, <1>6
  <2>2. worker' \in [Workers -> Process]
    BY <1>0, <1>1 DEF TypeOK, Idle, Process
  <2> QED BY <1>0, <1>1, <1>5, <2>1, <2>2 DEF TypeOK
<1>8. Finishes(w)
  <2>1. Held(w) \subseteq applied
    BY <1>1 DEF Held, IInv, LeasesAreHeld
  <2>2. ASSUME NEW i \in Ids
        PROVE  IF i \in Held(w)
               THEN /\ delivery'[i].owner = Nobody /\ ~delivery'[i].leased
                    /\ delivery'[i].status = "PROCESSED" => i \in applied
               ELSE delivery'[i] = delivery[i]
    <3>1. delivery[i] \in Delivery
      BY <1>0 DEF TypeOK
    <3>2. CASE i \in Held(w)
      <4>1. delivery'[i] = Finished(delivery[i])
        BY <1>1, <3>2
      <4> QED BY <2>1, <3>1, <3>2, <4>1, ReleasedType
    <3>3. CASE i \notin Held(w)
      BY <1>1, <3>3
    <3> QED BY <3>2, <3>3
  <2>3. /\ IF deployment.owner = w
           THEN deployment'.owner = Nobody /\ ~deployment'.leased
           ELSE deployment'.owner = deployment.owner /\ deployment'.leased = deployment.leased
        /\ deployment'.projected \in applied \cup {0}
    <3>1. deployment \in Deployment /\ deployment.projected \in applied \cup {0}
      BY <1>0 DEF TypeOK, IInv, ProcessedWasApplied
    <3> QED BY <1>2, <1>4, <3>1 DEF Released, Deployment
  <2> QED BY <1>1, <2>2, <2>3 DEF Finishes
<1> QED BY <1>1, <1>7, <1>8, FinishingKeeps

LEMMA FailKeeps ==
    ASSUME IInv, NEW w \in Workers, Fail(w)
    PROVE  IInv'
<1> DEFINE terminal == {i \in Held(w) : delivery[i].attempt >= MaxAttempts}
<1>0. TypeOK
  BY DEF IInv
<1>1. /\ worker[w].pc # "idle"
      /\ delivery' = [i \in Ids |->
             IF i \in terminal THEN DeadLettered(delivery[i])
             ELSE IF i \in Held(w) THEN Postponed(delivery[i], Held(w)) ELSE delivery[i]]
      /\ worker' = [worker EXCEPT ![w] = Idle]
      /\ failures < MaxFailures /\ failures' = failures + 1
      /\ UNCHANGED <<outbox, committed, current, txn, rowLock, edges, applied, mishaps>>
  BY DEF Fail, store, graph
<1>2. Held(w) \in SUBSET Ids /\ terminal \subseteq Held(w)
  BY <1>0 DEF Held, TypeOK, Process
<1>3. \/ deployment.owner # w /\ deployment' = deployment
      \/ /\ deployment.owner = w
         /\ \E st \in {"ERROR", Released(deployment).state} :
               deployment' = [Released(deployment) EXCEPT !.state = st]
  BY DEF Fail
<1> HIDE DEF terminal
<1>4. /\ deployment' \in Deployment /\ deployment'.projected = deployment.projected
      /\ IF deployment.owner = w
         THEN deployment'.owner = Nobody /\ ~deployment'.leased
         ELSE deployment'.owner = deployment.owner /\ deployment'.leased = deployment.leased
  <2>1. deployment \in Deployment
    BY <1>0 DEF TypeOK
  <2>2. Released(deployment) \in Deployment
    BY <2>1 DEF Released, Deployment
  <2>3. CASE deployment.owner # w
    BY <1>3, <2>1, <2>3
  <2>4. CASE deployment.owner = w
    <3>1. PICK st \in {"ERROR", Released(deployment).state} :
             deployment' = [Released(deployment) EXCEPT !.state = st]
      BY <1>3, <2>4
    <3>2. st \in {"NONE", "ACTIVE", "ERROR"}
      BY <2>2 DEF Deployment
    <3> QED BY <2>1, <2>4, <3>1, <3>2 DEF Released, Deployment
  <2> QED BY <2>3, <2>4
<1>5. ASSUME NEW i \in Ids
      PROVE  /\ delivery'[i] \in Delivery
             /\ IF i \in Held(w)
                THEN /\ delivery'[i].owner = Nobody /\ ~delivery'[i].leased
                     /\ delivery'[i].status # "PROCESSED"
                ELSE delivery'[i] = delivery[i]
  <2>1. delivery[i] \in Delivery
    BY <1>0 DEF TypeOK
  <2>2. /\ DeadLettered(delivery[i]).status # "PROCESSED"
        /\ Postponed(delivery[i], Held(w)).status # "PROCESSED"
    BY <2>1 DEF DeadLettered, Postponed, Released, Delivery
  <2>3. CASE i \in terminal
    <3>1. delivery'[i] = DeadLettered(delivery[i])
      BY <1>1, <2>3
    <3> QED BY <1>2, <2>1, <2>2, <2>3, <3>1, ReleasedType
  <2>4. CASE i \in Held(w) \ terminal
    <3>1. delivery'[i] = Postponed(delivery[i], Held(w))
      BY <1>1, <2>4
    <3> QED BY <1>2, <2>1, <2>2, <2>4, <3>1, ReleasedType
  <2>5. CASE i \notin Held(w)
    BY <1>1, <1>2, <2>1, <2>5
  <2> QED BY <2>3, <2>4, <2>5
<1>6. TypeOK'
  <2>1. delivery' \in [Ids -> Delivery]
    BY <1>1, <1>5
  <2>2. worker' \in [Workers -> Process]
    BY <1>0, <1>1 DEF TypeOK, Idle, Process
  <2>3. failures' \in 0 .. MaxFailures
    BY <1>0, <1>1, BoundAssumption DEF TypeOK
  <2> QED BY <1>0, <1>1, <1>4, <2>1, <2>2, <2>3 DEF TypeOK
<1>7. Finishes(w)
  BY <1>1, <1>4, <1>5 DEF Finishes, IInv, ProcessedWasApplied
<1> QED BY <1>1, <1>6, <1>7, FinishingKeeps

LEMMA CrashKeeps ==
    ASSUME IInv, NEW w \in Workers, Crash(w)
    PROVE  IInv'
<1>0. TypeOK
  BY DEF IInv
<1>1. TypeOK'
  <2>1. worker' \in [Workers -> Process]
    BY <1>0 DEF Crash, TypeOK, Idle, Process
  <2>2. mishaps' \in 0 .. MaxMishaps
    BY <1>0, BoundAssumption DEF Crash, TypeOK
  <2> QED BY <1>0, <2>1, <2>2 DEF Crash, TypeOK, store, control, graph
<1>2. worker'[w].pc = "idle" /\ \A v \in Workers \ {w} : worker'[v] = worker[v]
  BY <1>0 DEF Crash, TypeOK, Idle
<1>3. UNCHANGED <<delivery, deployment, applied>>
  BY DEF Crash, control, graph
<1>4. ProcessedWasApplied' /\ LiveLeasesHaveOneHolder'
  BY <1>3 DEF IInv, ProcessedWasApplied, LiveLeasesHaveOneHolder
<1>5. LeasesAreHeld'
  BY <1>2, <1>3 DEF IInv, LeasesAreHeld
<1> QED BY <1>1, <1>4, <1>5 DEF IInv

-----------------------------------------------------------------------------
(* Time.                                                                   *)

LEMMA LeaseExpiresKeeps ==
    ASSUME IInv, LeaseExpires
    PROVE  IInv'
<1>0. TypeOK
  BY DEF IInv
<1>1. /\ deployment' = [deployment EXCEPT !.leased = FALSE]
      /\ delivery' = [i \in Ids |-> [delivery[i] EXCEPT !.leased = FALSE]]
      /\ UNCHANGED <<outbox, committed, current, txn, rowLock, worker, edges, applied, failures>>
  BY DEF LeaseExpires, store, graph
<1>2. ASSUME NEW i \in Ids
      PROVE  /\ delivery'[i] \in Delivery /\ ~delivery'[i].leased
             /\ delivery'[i].status = delivery[i].status /\ delivery'[i].owner = delivery[i].owner
  <2>1. delivery[i] \in Delivery
    BY <1>0 DEF TypeOK
  <2> QED BY <1>1, <2>1 DEF Delivery
<1>3. deployment' \in Deployment /\ deployment'.projected = deployment.projected
  BY <1>0, <1>1 DEF TypeOK, Deployment
<1>4. mishaps' \in 0 .. MaxMishaps
  BY <1>0, BoundAssumption DEF LeaseExpires, TypeOK
<1>5. delivery' \in [Ids -> Delivery]
  BY <1>1, <1>2
<1>6. TypeOK'
  BY <1>0, <1>1, <1>3, <1>4, <1>5 DEF TypeOK
<1>7. ProcessedWasApplied'
  BY <1>1, <1>2, <1>3 DEF IInv, ProcessedWasApplied
<1>8. LiveLeasesHaveOneHolder' /\ LeasesAreHeld'
  BY <1>1, <1>2 DEF IInv, LiveLeasesHaveOneHolder, LeasesAreHeld
<1> QED BY <1>6, <1>7, <1>8 DEF IInv

LEMMA BackoffElapsesKeeps ==
    ASSUME IInv, NEW b \in Ids, BackoffElapses(b)
    PROVE  IInv'
<1>0. TypeOK
  BY DEF IInv
<1>1. UNCHANGED <<outbox, committed, current, txn, rowLock, deployment, worker, edges,
                  applied, failures, mishaps>>
  BY DEF BackoffElapses, store, graph
<1>2. ASSUME NEW i \in Ids
      PROVE  /\ delivery'[i] \in Delivery /\ delivery'[i].leased = delivery[i].leased
             /\ delivery'[i].status = delivery[i].status /\ delivery'[i].owner = delivery[i].owner
  <2>1. delivery[i] \in Delivery
    BY <1>0 DEF TypeOK
  <2>2. delivery'[i] \in {delivery[i], [delivery[i] EXCEPT !.wait = {}]}
    BY DEF BackoffElapses
  <2>3. [delivery[i] EXCEPT !.wait = {}] \in Delivery
    BY <2>1 DEF Delivery
  <2> QED BY <2>1, <2>2, <2>3 DEF Delivery
<1>3. delivery' \in [Ids -> Delivery]
  BY <1>2 DEF BackoffElapses
<1>4. TypeOK'
  BY <1>0, <1>1, <1>3 DEF TypeOK
<1>5. ProcessedWasApplied' /\ LiveLeasesHaveOneHolder' /\ LeasesAreHeld'
  BY <1>1, <1>2 DEF IInv, ProcessedWasApplied, LiveLeasesHaveOneHolder, LeasesAreHeld
<1> QED BY <1>4, <1>5 DEF IInv

-----------------------------------------------------------------------------
(* The invariant and what follows from it.                                 *)

LEMMA InitHolds == Init => IInv
<1> SUFFICES ASSUME Init PROVE IInv
  OBVIOUS
<1>1. NoRow \in OutboxRow /\ NoTxn \in Transaction /\ NoDelivery \in Delivery /\ Idle \in Process
  BY DEF NoRow, OutboxRow, NoTxn, Transaction, NoDelivery, NewDelivery, Delivery, Idle, Process
<1>2. deployment \in Deployment
  BY DEF Init, Deployment
<1>3. TypeOK
  BY <1>1, <1>2, BoundAssumption DEF Init, TypeOK
<1>4. \A i \in Ids : /\ delivery[i].status = "NONE" /\ delivery[i].owner = Nobody
                     /\ ~delivery[i].leased
  BY DEF Init, NoDelivery, NewDelivery
<1>5. ProcessedWasApplied /\ LiveLeasesHaveOneHolder
  BY <1>4 DEF Init, ProcessedWasApplied, LiveLeasesHaveOneHolder
<1>6. LeasesAreHeld
  BY <1>4 DEF Init, LeasesAreHeld, Idle
<1> QED BY <1>3, <1>5, <1>6 DEF IInv

LEMMA NextKeeps == IInv /\ [Next]_vars => IInv'
<1> SUFFICES ASSUME IInv, [Next]_vars PROVE IInv'
  OBVIOUS
<1>1. CASE \E s \in Sources : BeginPublish(s) \/ FireTriggers(s) \/ CommitPublish(s)
  BY <1>1, BeginPublishKeeps, FireTriggersKeeps, CommitPublishKeeps
<1>2. CASE Register
  BY <1>2, RegisterKeeps
<1>3. CASE \E w \in Workers : Claim(w) \/ Load(w) \/ Apply(w)
  BY <1>3, ClaimKeeps, LoadKeeps, ApplyKeeps
<1>4. CASE \E w \in Workers : MarkProcessed(w) \/ Fail(w) \/ Crash(w)
  BY <1>4, MarkProcessedKeeps, FailKeeps, CrashKeeps
<1>5. CASE LeaseExpires
  BY <1>5, LeaseExpiresKeeps
<1>6. CASE \E i \in Ids : BackoffElapses(i)
  BY <1>6, BackoffElapsesKeeps
<1>7. CASE UNCHANGED vars
  BY <1>7 DEF vars, store, control, graph, IInv, TypeOK, ProcessedWasApplied,
              LiveLeasesHaveOneHolder, LeasesAreHeld
<1> QED BY <1>1, <1>2, <1>3, <1>4, <1>5, <1>6, <1>7 DEF Next

\* IInv is an invariant of the projection.
THEOREM Invariance == Spec => []IInv
<1>1. Init => IInv
  BY InitHolds
<1>2. IInv /\ [Next]_vars => IInv'
  BY NextKeeps
<1> QED BY <1>1, <1>2, PTL DEF Spec

\* Every column keeps its type and CHECK constraints, under every interleaving.
THEOREM Typing == Spec => []TypeOK
<1>1. IInv => TypeOK
  BY DEF IInv
<1> QED BY <1>1, Invariance, PTL

\* A delivery is PROCESSED, and the watermark stands at an id, only after a Neo4j
\* transaction with that row committed, whatever crashes, stalls and overlaps.
THEOREM NothingIsLost == Spec => []ProcessedWasApplied
<1>1. IInv => ProcessedWasApplied
  BY DEF IInv
<1> QED BY <1>1, Invariance, PTL

\* What a worker has in hand is its own: its batch is not empty, its live delivery leases
\* are in the batch, and once it has applied the batch, all of it is in Neo4j.
THEOREM WorkersHoldTheirBatch == Spec => []LeasesAreHeld
<1>1. IInv => LeasesAreHeld
  BY DEF IInv
<1> QED BY <1>1, Invariance, PTL

\* However leases run out, all live delivery leases belong to the deployment's holder.
THEOREM OneHolder == Spec => []LiveLeasesHaveOneHolder
<1>1. IInv => LiveLeasesHaveOneHolder
  BY DEF IInv
<1> QED BY <1>1, Invariance, PTL

-----------------------------------------------------------------------------
(* PROCESSED and DEAD_LETTER are final.                                    *)

Terminal(d) == d.status \in {"PROCESSED", "DEAD_LETTER"}
TerminalKept == \A i \in Ids : Terminal(delivery[i]) => delivery'[i].status = delivery[i].status

\* Enqueueing only fills in deliveries that do not exist yet.
LEMMA EnqueueingIsFinal ==
    ASSUME NEW ids, delivery' = Enqueued(ids)
    PROVE  TerminalKept
<1> SUFFICES ASSUME NEW i \in Ids, Terminal(delivery[i])
             PROVE  delivery'[i] = delivery[i]
  BY DEF TerminalKept
<1> QED BY DEF Enqueued, Terminal

\* A finished delivery has no owner, so it is in no worker's reach.
LEMMA TerminalIsNotHeld ==
    ASSUME IInv, NEW w \in Workers, NEW i \in Ids, Terminal(delivery[i])
    PROVE  i \notin Held(w) /\ i \notin Undone
BY NobodyAssumption DEF IInv, LeasesAreHeld, Held, Undone, Terminal

LEMMA TerminalStep == IInv /\ [Next]_vars => TerminalKept
<1> SUFFICES ASSUME IInv, [Next]_vars PROVE TerminalKept
  OBVIOUS
<1>1. ASSUME NEW s \in Sources, BeginPublish(s) \/ FireTriggers(s) PROVE TerminalKept
  BY <1>1 DEF BeginPublish, FireTriggers, control, TerminalKept
<1>2. ASSUME NEW s \in Sources, CommitPublish(s) PROVE TerminalKept
  BY <1>2, EnqueueingIsFinal DEF CommitPublish
<1>3. CASE Register
  BY <1>3, EnqueueingIsFinal DEF Register
<1>4. ASSUME NEW w \in Workers, Claim(w) PROVE TerminalKept
  <2> SUFFICES ASSUME NEW i \in Ids, Terminal(delivery[i])
               PROVE  delivery'[i] = delivery[i]
    BY DEF TerminalKept
  <2>1. i \notin Lowest(BatchSize, Claimable)
    BY TerminalIsNotHeld DEF Lowest, Claimable
  <2> QED BY <1>4, <2>1 DEF Claim
<1>5. ASSUME NEW w \in Workers, Load(w) \/ Apply(w) \/ Crash(w) PROVE TerminalKept
  BY <1>5 DEF Load, Apply, Crash, control, TerminalKept
<1>6. ASSUME NEW w \in Workers, MarkProcessed(w) \/ Fail(w) PROVE TerminalKept
  <2> SUFFICES ASSUME NEW i \in Ids, Terminal(delivery[i])
               PROVE  delivery'[i] = delivery[i]
    BY DEF TerminalKept
  <2>1. i \notin Held(w)
    BY TerminalIsNotHeld
  <2>2. CASE MarkProcessed(w)
    BY <2>1, <2>2 DEF MarkProcessed
  <2>3. CASE Fail(w)
    BY <2>1, <2>3 DEF Fail
  <2> QED BY <1>6, <2>2, <2>3
<1>7. ASSUME LeaseExpires \/ \E b \in Ids : BackoffElapses(b) PROVE TerminalKept
  <2> SUFFICES ASSUME NEW i \in Ids
               PROVE  delivery'[i].status = delivery[i].status
    BY DEF TerminalKept
  <2>1. delivery[i] \in Delivery
    BY DEF IInv, TypeOK
  <2>2. /\ [delivery[i] EXCEPT !.leased = FALSE].status = delivery[i].status
        /\ [delivery[i] EXCEPT !.wait = {}].status = delivery[i].status
    BY <2>1 DEF Delivery
  <2>3. delivery'[i] \in {delivery[i], [delivery[i] EXCEPT !.leased = FALSE],
                          [delivery[i] EXCEPT !.wait = {}]}
    BY <1>7 DEF LeaseExpires, BackoffElapses
  <2> QED BY <2>2, <2>3
<1>8. CASE UNCHANGED vars
  BY <1>8 DEF vars, control, TerminalKept
<1> QED BY <1>1, <1>2, <1>3, <1>4, <1>5, <1>6, <1>7, <1>8 DEF Next

\* No straggler pulls back a delivery that was processed or dead-lettered.
THEOREM FinalStatus == Spec => TerminalIsFinal
<1>1. IInv /\ [Next]_vars =>
        [\A i \in Ids : delivery[i].status \in {"PROCESSED", "DEAD_LETTER"}
                          => delivery'[i].status = delivery[i].status]_vars
  BY TerminalStep DEF TerminalKept, Terminal
<1> QED BY <1>1, Invariance, PTL DEF Spec, TerminalIsFinal
=============================================================================
