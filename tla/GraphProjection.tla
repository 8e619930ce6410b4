-------------------------- MODULE GraphProjection --------------------------
(***************************************************************************)
(* The Neo4j projection of one tenant: snapshot publication appends facts  *)
(* to PostgreSQL's projection_outbox, a trigger fans each row out to the   *)
(* tenant's graph deployment as a delivery, and leased workers             *)
(* (neo4j_project.py) claim deliveries in batches, load the facts, write   *)
(* one Neo4j transaction and then advance the deployment's watermark.      *)
(*                                                                         *)
(* A fact is named by the id of the outbox row that upserts it (each fact  *)
(* has exactly one), a governed logical_key by a member of Keys.  Nodes    *)
(* are left out: the projector only ever merges them.                      *)
(***************************************************************************)
EXTENDS Integers, FiniteSets, FiniteSetsExt

CONSTANTS
    Keys,         \* logical keys of relationship facts
    Sources,      \* ingest targets, each publishing its own snapshots
    Owner,        \* the source that asserts each key
    Workers,      \* projection worker processes
    BatchSize,    \* --batch-size
    MaxAttempts,  \* deliveries dead-letter at this attempt
    Adversity,    \* what the environment may do: "stall", "overlap"
    MaxOutbox,    \* bound: outbox rows ever written
    MaxFailures,  \* bound: failed batches
    MaxMishaps    \* bound: worker crashes and leases outlived by their holder

ASSUME KeysAssumption == Owner \in [Keys -> Sources]
ASSUME BatchAssumption == BatchSize \in Nat \ {0} /\ MaxAttempts \in Nat \ {0}
ASSUME BoundAssumption == MaxOutbox \in Nat /\ MaxFailures \in Nat /\ MaxMishaps \in Nat
ASSUME AdversityAssumption == Adversity \subseteq {"stall", "overlap"}

Ids == 1 .. MaxOutbox
NoFact == 0
Nobody == "nobody"
ASSUME NobodyAssumption == Nobody \notin Workers \cup Sources

VARIABLES
    outbox,     \* projection_outbox: [Ids -> row or NoRow], rows of open transactions too
    committed,  \* ids of rows whose transaction has committed
    current,    \* facts with system_to IS NULL
    txn,        \* the publication transaction each source has open
    rowLock,    \* the transaction holding the deployment's row lock
    deployment, \* the tenant_graph_deployment row
    delivery,   \* graph_projection_delivery, by outbox id
    worker,     \* each worker process: where it is, its batch, the facts it loaded
    edges,      \* Neo4j: the fact behind each relationship, NoFact if there is none
    applied,    \* history: ids whose mutation some Neo4j transaction committed
    failures, mishaps  \* counters for the bounds

store == <<outbox, committed, current, txn, rowLock>>
control == <<deployment, delivery>>
graph == <<edges, applied>>
vars == <<store, control, worker, graph, failures, mishaps>>

NoRow == [op |-> "NONE", fact |-> NoFact, key |-> Nobody]
Row(op, fact, key) == [op |-> op, fact |-> fact, key |-> key]
KeyOf(i) == outbox[i].key
Greatest(a, b) == IF a < b THEN b ELSE a
MaxOr(S, default) == IF S = {} THEN default ELSE Max(S)

-----------------------------------------------------------------------------
(* Publication: publish_source_snapshot and the outbox trigger.            *)

NoTxn == [open |-> FALSE, rows |-> {}, fresh |-> {}, seen |-> {}, closes |-> {}, todo |-> {}]

Unallocated == {i \in Ids : outbox[i] = NoRow}

\* The next n identity values: they follow every id allocated so far.
NextIds(n) == {i \in Unallocated : Cardinality({j \in Unallocated : j < i}) < n}

CurrentOf(s) == {f \in current : Owner[KeyOf(f)] = s}

\* The ways INSERT ... SELECT may pair n new ids with the n things it selects.
Pairings(ids, things) == {f \in [ids -> things] : \A t \in things : \E i \in ids : f[i] = t}

InsertCloses(s, facts, keys) ==
    LET ids == NextIds(Cardinality(facts))
    IN  /\ \E f \in Pairings(ids, facts) : outbox' =
               [i \in Ids |-> IF i \in ids THEN Row("CLOSE", f[i], KeyOf(f[i])) ELSE outbox[i]]
        /\ txn' = [txn EXCEPT ![s] = [NoTxn EXCEPT !.open = TRUE, !.rows = ids,
                       !.fresh = ids, !.closes = facts, !.todo = keys]]

InsertUpserts(s, t, keys) ==
    LET ids == NextIds(Cardinality(keys))
    IN  /\ \E f \in Pairings(ids, keys) : outbox' =
               [i \in Ids |-> IF i \in ids THEN Row("UPSERT", i, f[i]) ELSE outbox[i]]
        /\ txn' = [txn EXCEPT ![s] = [t EXCEPT !.open = TRUE, !.rows = @ \cup ids,
                       !.fresh = ids, !.todo = {}]]

\* A complete snapshot closes every current fact of its target; a partial one none.
ClosedBy(s, completeness) == IF completeness = "COMPLETE" THEN CurrentOf(s) ELSE {}

\* publish_source_snapshot up to the first INSERT: the target's row lock admits one
\* publication per source, and ids are allocated before any trigger runs.
BeginPublish(s) ==
    /\ ~txn[s].open
    /\ "overlap" \in Adversity \/ \A r \in Sources : ~txn[r].open
    /\ \E keys \in SUBSET {k \in Keys : Owner[k] = s}, completeness \in {"COMPLETE", "PARTIAL"} :
          LET closes == ClosedBy(s, completeness)
          IN  /\ keys \cup closes # {}
              /\ Cardinality(keys) + Cardinality(closes) <= Cardinality(Unallocated)
              /\ IF closes # {} THEN InsertCloses(s, closes, keys)
                                ELSE InsertUpserts(s, NoTxn, keys)
    /\ UNCHANGED <<committed, current, rowLock, control, worker, graph, failures, mishaps>>

\* stackgraph_enqueue_graph_projection_deliveries for the statement's rows: an ACTIVE
\* deployment is updated, so its row stays locked until this transaction commits.
\* The statement that upserts the new facts follows the one that closed the old.
FireTriggers(s) ==
    /\ txn[s].fresh # {}
    /\ IF deployment.state = "ACTIVE"
       THEN /\ rowLock \in {Nobody, s}
            /\ rowLock' = s
       ELSE UNCHANGED rowLock
    /\ LET t == [txn[s] EXCEPT !.fresh = {},
                    !.seen = @ \cup (IF deployment.state = "ACTIVE" THEN txn[s].fresh ELSE {})]
       IN  IF txn[s].todo # {}
           THEN InsertUpserts(s, t, txn[s].todo)
           ELSE /\ txn' = [txn EXCEPT ![s] = t]
                /\ UNCHANGED outbox
    /\ UNCHANGED <<committed, current, control, worker, graph, failures, mishaps>>

\* Fault: the attempt counter starts one below its column's minimum.
FaultyNewDelivery ==
    [status |-> "PENDING", owner |-> Nobody, leased |-> FALSE, attempt |-> -1, wait |-> {}]

NewDelivery == [status |-> "PENDING", owner |-> Nobody, leased |-> FALSE, attempt |-> 0, wait |-> {}]
NoDelivery == [NewDelivery EXCEPT !.status = "NONE"]

Enqueued(ids) == [i \in Ids |-> IF i \in ids /\ delivery[i].status = "NONE"
                                THEN NewDelivery ELSE delivery[i]]

\* Fault: the trigger inserts the deliveries and leaves desired_outbox_id alone.
NeverRaised(ids) == deployment.desired

\* desired_outbox_id once deliveries for these ids are committed.
Raised(ids) == Greatest(deployment.desired, MaxOr(ids, 0))

CommitPublish(s) ==
    /\ txn[s].open /\ txn[s].fresh = {} /\ txn[s].todo = {}
    /\ committed' = committed \cup txn[s].rows
    /\ current' = (current \ txn[s].closes) \cup {i \in txn[s].rows : outbox[i].op = "UPSERT"}
    /\ delivery' = Enqueued(txn[s].seen)
    /\ deployment' = [deployment EXCEPT !.desired = Raised(txn[s].seen)]
    /\ rowLock' = IF rowLock = s THEN Nobody ELSE rowLock
    /\ txn' = [txn EXCEPT ![s] = NoTxn]
    /\ UNCHANGED <<outbox, worker, graph, failures, mishaps>>

-----------------------------------------------------------------------------
(* Registration: register_deployment and the backfill trigger.             *)

Upserts(ids) == {i \in ids : outbox[i].op = "UPSERT"}

\* stackgraph_backfill_graph_projection_deployment: an empty graph needs the rows of the
\* current facts and the newest row; a resumed one every row past its watermark.
Backfill ==
    IF deployment.projected = 0
    THEN (Upserts(committed) \cap current)
         \cup (IF committed = {} THEN {} ELSE {Max(committed)})
    ELSE {i \in committed : i > deployment.projected}

Delivered(d) == {i \in Ids : d[i].status # "NONE"}

\* Registering an active deployment again changes nothing here: the trigger returns early.
\* That it may name another endpoint or database is left out.
Register ==
    /\ deployment.state # "ACTIVE"
    /\ rowLock = Nobody
    /\ "overlap" \in Adversity \/ \A s \in Sources : ~txn[s].open
    /\ delivery' = Enqueued(Backfill)
    /\ deployment' = [deployment EXCEPT !.state = "ACTIVE",
           !.desired = Greatest(@, MaxOr(Delivered(delivery'), deployment.projected))]
    /\ UNCHANGED <<store, worker, graph, failures, mishaps>>

-----------------------------------------------------------------------------
(* The worker: Neo4jProjectionWorker.run_until_empty.                      *)

Idle == [pc |-> "idle", batch |-> {}, view |-> {}]

\* Fault: a batch in progress is never taken over.
OnlyPending == {i \in Ids : delivery[i].status = "PENDING"}

Undone == {i \in Ids : delivery[i].status \in {"PENDING", "PROCESSING"}}
Claimable == {i \in Undone : delivery[i].wait = {} /\ ~delivery[i].leased}

\* Fault: the newest deliveries first.
Highest(n, S) == {i \in S : Cardinality({j \in S : j > i}) < n}

Lowest(n, S) == {i \in S : Cardinality({j \in S : j < i}) < n}

\* Fault: any available delivery makes the deployment claimable, not just the oldest.
ReadyOutOfOrder == deployment.state = "ACTIVE" /\ ~deployment.leased /\ Claimable # {}

\* The deployment may be claimed: the delivery at the head of its queue is available.
DeploymentReady ==
    /\ deployment.state = "ACTIVE"
    /\ ~deployment.leased
    /\ Undone # {} /\ Min(Undone) \in Claimable

\* Fault: a delivery that is taken over keeps the name of its first holder.
LeasedToFirst(w, d) ==
    [d EXCEPT !.status = "PROCESSING", !.owner = IF @ = Nobody THEN w ELSE @, !.leased = TRUE,
              !.attempt = @ + 1]
LeasedTo(w, d) == [d EXCEPT !.status = "PROCESSING", !.owner = w, !.leased = TRUE, !.attempt = @ + 1]

\* _claim_batch: both leases are taken in one transaction and run out together.
Claim(w) ==
    /\ worker[w].pc = "idle"
    /\ rowLock = Nobody
    /\ DeploymentReady
    /\ LET batch == Lowest(BatchSize, Claimable)
       IN  /\ delivery' = [i \in Ids |-> IF i \in batch THEN LeasedTo(w, delivery[i])
                                                        ELSE delivery[i]]
           /\ worker' = [worker EXCEPT ![w] = [Idle EXCEPT !.pc = "claimed", !.batch = batch]]
    /\ deployment' = [deployment EXCEPT !.owner = w, !.leased = TRUE]
    /\ UNCHANGED <<store, graph, failures, mishaps>>

\* _load_fact for each delivery: which of the batch's facts are still current.
Load(w) ==
    /\ worker[w].pc = "claimed"
    /\ worker' = [worker EXCEPT ![w].pc = "loaded",
                      ![w].view = current \cap {outbox[i].fact : i \in worker[w].batch}]
    /\ UNCHANGED <<store, control, graph, failures, mishaps>>

\* Fault: an upsert recreates its relationship whether or not the fact is still current.
CreatedBlindly(w, k) == {outbox[i].fact : i \in {j \in Upserts(worker[w].batch) : KeyOf(j) = k}}

\* build_mutation_batch: every key of the batch loses its relationship, then the upserts
\* of facts that were current when loaded create theirs.
Created(w, k) == {outbox[i].fact : i \in {j \in Upserts(worker[w].batch) :
                                              KeyOf(j) = k /\ outbox[j].fact \in worker[w].view}}
Outcomes(w, k) ==
    IF Created(w, k) # {} THEN Created(w, k)
    ELSE IF \E i \in worker[w].batch : KeyOf(i) = k THEN {NoFact}
    ELSE {edges[k]}

\* Neo4jGraphWriter.apply: one Neo4j transaction.
Apply(w) ==
    /\ worker[w].pc = "loaded"
    /\ edges' \in {e \in [Keys -> Ids \cup {NoFact}] : \A k \in Keys : e[k] \in Outcomes(w, k)}
    /\ applied' = applied \cup worker[w].batch
    /\ worker' = [worker EXCEPT ![w].pc = "applied"]
    /\ UNCHANGED <<store, control, failures, mishaps>>

\* Fault: a worker updates its batch without checking that it still has the lease.
HeldForever(w) == worker[w].batch

\* The deliveries of w's batch that no other worker has leased since.
Held(w) == {i \in worker[w].batch : delivery[i].owner = w}

\* Fault: the owner is cleared and the lease's expiry is not.
OwnerCleared(d) == [d EXCEPT !.owner = Nobody]

Released(d) == [d EXCEPT !.owner = Nobody, !.leased = FALSE]
Finished(d) == [Released(d) EXCEPT !.status = "PROCESSED"]
DeadLettered(d) == [Released(d) EXCEPT !.status = "DEAD_LETTER"]
Postponed(d, batch) == [Released(d) EXCEPT !.status = "PENDING", !.wait = batch]

AllProcessed(d) == \A i \in Delivered(d) : d[i].status = "PROCESSED"

\* Fault: the watermark jumps to everything enqueued so far.
WatermarkOfQueue(w) == Greatest(deployment.projected, deployment.desired)

\* projected_outbox_id = greatest(projected_outbox_id, max(outbox_ids))
WatermarkAfter(w) == Greatest(deployment.projected, Max(worker[w].batch))

\* Fault: off by one, the watermark must be past the newest delivery.
PastTheQueue(d, projected) ==
    deployment.state = "ACTIVE" /\ AllProcessed(d) /\ projected > deployment.desired

\* Nothing is left to deliver, so an analysis is due.
CaughtUp(d, projected) ==
    deployment.state = "ACTIVE" /\ AllProcessed(d) /\ projected >= deployment.desired

\* _mark_processed; the watermark moves only while w still leases the deployment, and
\* the last delivery of an ACTIVE deployment requests a graph analysis.
MarkProcessed(w) ==
    /\ worker[w].pc = "applied"
    /\ rowLock = Nobody
    /\ delivery' = [i \in Ids |-> IF i \in Held(w) THEN Finished(delivery[i])
                                                   ELSE delivery[i]]
    /\ IF deployment.owner # w THEN UNCHANGED deployment
       ELSE deployment' = [Released(deployment) EXCEPT !.projected = WatermarkAfter(w),
                !.requested = IF CaughtUp(delivery', WatermarkAfter(w))
                              THEN Greatest(@, WatermarkAfter(w)) ELSE @]
    /\ worker' = [worker EXCEPT ![w] = Idle]
    /\ UNCHANGED <<store, graph, failures, mishaps>>

\* Fault: the deployment stops only if the whole batch is exhausted.
StopsIfAllDie(w, terminal) == terminal = Held(w)

Stops(w, terminal) == terminal # {}

\* _record_failure: the batch is retried after a backoff, or dead-letters at MaxAttempts
\* and stops the deployment.  The exception ends the process, which is started again.
Fail(w) ==
    /\ worker[w].pc # "idle"
    /\ rowLock = Nobody
    /\ failures < MaxFailures
    /\ LET terminal == {i \in Held(w) : delivery[i].attempt >= MaxAttempts}
       IN  /\ delivery' = [i \in Ids |->
                  IF i \in terminal THEN DeadLettered(delivery[i])
                  ELSE IF i \in Held(w) THEN Postponed(delivery[i], Held(w))
                  ELSE delivery[i]]
           /\ deployment' = IF deployment.owner # w THEN deployment
                            ELSE [Released(deployment) EXCEPT
                                     !.state = IF Stops(w, terminal) THEN "ERROR" ELSE @]
    /\ worker' = [worker EXCEPT ![w] = Idle]
    /\ failures' = failures + 1
    /\ UNCHANGED <<store, graph, mishaps>>

\* The process dies, between any two of its steps; its leases stay behind.
Crash(w) ==
    /\ worker[w].pc # "idle"
    /\ mishaps < MaxMishaps
    /\ worker' = [worker EXCEPT ![w] = Idle]
    /\ mishaps' = mishaps + 1
    /\ UNCHANGED <<store, control, graph, failures>>

-----------------------------------------------------------------------------
(* Time.                                                                   *)

\* Five minutes pass since the claim.  A holder that is still at it by then has stalled.
LeaseExpires ==
    /\ deployment.leased
    /\ IF \E w \in Workers : deployment.owner = w /\ worker[w].pc # "idle"
       THEN "stall" \in Adversity /\ mishaps < MaxMishaps /\ mishaps' = mishaps + 1
       ELSE UNCHANGED mishaps
    /\ deployment' = [deployment EXCEPT !.leased = FALSE]
    /\ delivery' = [i \in Ids |-> [delivery[i] EXCEPT !.leased = FALSE]]
    /\ UNCHANGED <<store, worker, graph, failures>>

\* available_at = failure time + 2^attempt seconds: of the deliveries that failed
\* together, those with fewer attempts come back no later.
BackoffElapses(i) ==
    /\ delivery[i].wait # {}
    /\ delivery' = [j \in Ids |->
           IF delivery[j].wait = delivery[i].wait /\ delivery[j].attempt <= delivery[i].attempt
           THEN [delivery[j] EXCEPT !.wait = {}] ELSE delivery[j]]
    /\ UNCHANGED <<store, deployment, worker, graph, failures, mishaps>>

-----------------------------------------------------------------------------
Init ==
    /\ outbox = [i \in Ids |-> NoRow]
    /\ committed = {} /\ current = {}
    /\ txn = [s \in Sources |-> NoTxn]
    /\ rowLock = Nobody
    /\ deployment = [state |-> "NONE", desired |-> 0, projected |-> 0,
                     owner |-> Nobody, leased |-> FALSE, requested |-> 0]
    /\ delivery = [i \in Ids |-> NoDelivery]
    /\ worker = [w \in Workers |-> Idle]
    /\ edges = [k \in Keys |-> NoFact]
    /\ applied = {}
    /\ failures = 0 /\ mishaps = 0

Next ==
    \/ \E s \in Sources : BeginPublish(s) \/ FireTriggers(s) \/ CommitPublish(s)
    \/ Register
    \/ \E w \in Workers : \/ Claim(w) \/ Load(w) \/ Apply(w) \/ MarkProcessed(w)
                          \/ Fail(w) \/ Crash(w)
    \/ LeaseExpires
    \/ \E i \in Ids : BackoffElapses(i)

Spec == Init /\ [][Next]_vars

\* Transactions end, the clock runs and the worker service keeps polling; nothing obliges
\* a source to publish or an operator to register the deployment again.
Work(w) == Load(w) \/ Apply(w) \/ MarkProcessed(w)
FairSpec ==
    /\ Spec
    /\ \A s \in Sources : WF_vars(FireTriggers(s) \/ CommitPublish(s))
    /\ WF_vars(\E w \in Workers : Claim(w))
    /\ \A w \in Workers : WF_vars(Work(w))
    /\ WF_vars(LeaseExpires)
    /\ \A i \in Ids : WF_vars(BackoffElapses(i))
-----------------------------------------------------------------------------
(* Properties.                                                             *)

OutboxRow == [op : {"NONE", "UPSERT", "CLOSE"}, fact : Ids \cup {NoFact},
              key : Keys \cup {Nobody}]
Transaction == [open : BOOLEAN, rows : SUBSET Ids, fresh : SUBSET Ids, seen : SUBSET Ids,
                closes : SUBSET Ids, todo : SUBSET Keys]
Deployment == [state : {"NONE", "ACTIVE", "ERROR"}, desired : Nat, projected : Nat,
               owner : Workers \cup {Nobody}, leased : BOOLEAN, requested : Nat]
Delivery == [status : {"NONE", "PENDING", "PROCESSING", "PROCESSED", "DEAD_LETTER"},
             owner : Workers \cup {Nobody}, leased : BOOLEAN, attempt : Nat, wait : SUBSET Ids]
Process == [pc : {"idle", "claimed", "loaded", "applied"}, batch : SUBSET Ids, view : SUBSET Ids]

\* The columns stay within their types and CHECK constraints.
TypeOK ==
    /\ outbox \in [Ids -> OutboxRow]
    /\ committed \subseteq Ids /\ current \subseteq Ids
    /\ txn \in [Sources -> Transaction]
    /\ rowLock \in Sources \cup {Nobody}
    /\ deployment \in Deployment
    /\ delivery \in [Ids -> Delivery]
    /\ worker \in [Workers -> Process]
    /\ edges \in [Keys -> Ids \cup {NoFact}]
    /\ applied \subseteq Ids
    /\ failures \in 0 .. MaxFailures /\ mishaps \in 0 .. MaxMishaps

\* Nothing is lost between the two databases: a delivery is PROCESSED, and the watermark
\* stands at an id, only after a Neo4j transaction with that row has committed, whichever
\* workers crashed, outlived their lease or were superseded between the Neo4j commit and
\* _mark_processed.
ProcessedWasApplied ==
    /\ \A i \in Ids : delivery[i].status = "PROCESSED" => i \in applied
    /\ deployment.projected \in applied \cup {0}

\* The delivery leases and the deployment's lease are two columns in two tables, released
\* by different statements: however leases run out and are taken over, every live delivery
\* lease belongs to the worker whose deployment lease is live.
LiveLeasesHaveOneHolder ==
    \A i \in Ids : delivery[i].leased => deployment.leased /\ delivery[i].owner = deployment.owner

\* A worker with a batch still to finish has in it every delivery it leases, all of the
\* batch is in Neo4j when the worker gets to _mark_processed, and only deliveries in
\* progress are leased: crashed, restarted and superseded workers leave no other leases.
LeasesAreHeld ==
    /\ \A w \in Workers :
          /\ worker[w].pc # "idle" => worker[w].batch # {}
          /\ worker[w].pc = "applied" => worker[w].batch \subseteq applied
          /\ \A i \in Ids : worker[w].pc # "idle" /\ delivery[i].leased /\ delivery[i].owner = w
                              => i \in worker[w].batch
    /\ \A i \in Ids : delivery[i].status # "PROCESSING"
                        => delivery[i].owner = Nobody /\ ~delivery[i].leased

\* The inductive invariant behind the three safety properties above.
IInv == TypeOK /\ ProcessedWasApplied /\ LiveLeasesHaveOneHolder /\ LeasesAreHeld

\* No straggler can pull a delivery back: _mark_processed and _record_failure of a worker
\* whose batch was taken over leave what the new holder finished alone.
TerminalIsFinal ==
    [][\A i \in Ids : delivery[i].status \in {"PROCESSED", "DEAD_LETTER"}
                        => delivery'[i].status = delivery[i].status]_vars

Live(w) == deployment.leased /\ deployment.owner = w /\ worker[w].pc # "idle"

NoDeadLetters == \A i \in Ids : delivery[i].status # "DEAD_LETTER"

\* Backoff never reorders the queue: while publications do not overlap and nothing has been
\* dead-lettered, the worker with the live lease works on the queue's oldest part, and
\* nothing older than a claimed delivery is still to do outside the batch.  (A deployment
\* registered again after a dead letter may be backfilled with rows older than one that
\* still waits; then a younger delivery overtakes that one.)
ClaimsInOrder ==
    NoDeadLetters =>
        \A w \in Workers : Live(w) =>
            \A i \in worker[w].batch, j \in Undone : j < i => j \in worker[w].batch

\* The dead-letter statement and the one that stops the deployment have different guards
\* (the delivery's lease, the deployment's lease); while publications do not overlap, the
\* batch that dead-letters first stops the deployment in the same step even so.
DeadLetterStops ==
    [][NoDeadLetters /\ (\E i \in Ids : delivery'[i].status = "DEAD_LETTER")
         => deployment'.state = "ERROR"]_vars

\* Whenever an ACTIVE deployment has nothing left to deliver, the analysis of everything
\* it delivered has been requested, whoever finished the last batch and in which order.
CatchUpRequestsAnalysis ==
    deployment.state = "ACTIVE" /\ AllProcessed(delivery)
        => deployment.requested >= MaxOr(Delivered(delivery), 0)

\* Every delivery ends, however many workers crash, stall or fail on the way: it is
\* processed, or dead-letters, or the deployment stops for the operator.
EveryDeliveryEnds ==
    \A i \in Ids :
        delivery[i].status \in {"PENDING", "PROCESSING"}
          ~> \/ delivery[i].status \in {"PROCESSED", "DEAD_LETTER"}
             \/ deployment.state = "ERROR"

CurrentFacts(k) == {f \in current : KeyOf(f) = k}
InSync(k) == \/ edges[k] \in CurrentFacts(k)
             \/ CurrentFacts(k) = {} /\ edges[k] = NoFact

\* Neo4jProjectionState.current: the API answers from Neo4j.
Serving == deployment.state = "ACTIVE" /\ deployment.projected >= deployment.desired

\* While the API answers from Neo4j, every relationship there is that of a current fact
\* and every key with a current fact has its relationship: the watermark comparison in
\* Neo4jProjectionState.current is enough to tell a caught-up graph.
ServedGraphIsCurrent == Serving => \A k \in Keys : InSync(k)

\* The watermark covers every delivery up to it: projected_outbox_id never passes a
\* delivery whose mutation no Neo4j transaction has committed.
WatermarkFollowsCommit ==
    \A i \in Delivered(delivery) : i <= deployment.projected => i \in applied

\* Once nothing is in flight and nothing is left to do, the graph is the authoritative
\* one: replaying a batch after its lease ran out does no harm.
DrainedGraphIsCurrent ==
    /\ deployment.state = "ACTIVE" /\ AllProcessed(delivery)
    /\ \A w \in Workers : worker[w].pc = "idle"
    => \A k \in Keys : InSync(k)

\* The keys Neo4j still owes a write: all of them until the deployment is ACTIVE, then
\* those with a delivery that is not PROCESSED.
Dirty == IF deployment.state # "ACTIVE" THEN Keys
         ELSE {KeyOf(i) : i \in {j \in Delivered(delivery) : delivery[j].status # "PROCESSED"}}

Replica == INSTANCE ReplicatedGraph WITH
    Facts <- Ids, source <- [k \in Keys |-> CurrentFacts(k)], replica <- edges, dirty <- Dirty

\* The projection implements a replica that lags only on keys it knows to be dirty: no
\* commit, backfill, partial batch, crash or retry ever cleans a key Neo4j shows wrongly.
Refines == Replica!Spec
=============================================================================
