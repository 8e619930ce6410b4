---------------------------- MODULE GraphRebuild ----------------------------
(***************************************************************************)
(* The blue/green rebuild of one tenant's graph (neo4j_rebuild.py) beside  *)
(* the projection workers (neo4j_project.py): both take the deployment's   *)
(* one lease, the rebuild writes a candidate database from a snapshot of   *)
(* PostgreSQL, catches up through the outbox, compares and switches the    *)
(* deployment to it.                                                       *)
(*                                                                         *)
(* A change stands for the outbox rows one publication writes for one key  *)
(* (its CLOSE row and its UPSERT row) and is named by their last id.  The  *)
(* delivery leases are left out: GraphProjection shows that a live one     *)
(* belongs to the holder of the deployment's lease.  So are the failures   *)
(* of workers, dead letters and registration, which are there in full.     *)
(***************************************************************************)
EXTENDS Integers, FiniteSets, FiniteSetsExt

CONSTANTS
    Keys,         \* logical keys of relationship facts
    Databases,    \* Neo4j databases of the deployment's server
    Workers,      \* projection worker processes
    Rebuilders,   \* rebuild processes
    BatchSize,    \* --batch-size of both
    Adversity,    \* what the environment may do: "straggle", "overlap"
    MaxOutbox,    \* bound: changes published
    MaxRebuilds,  \* bound: rebuilds begun
    MaxMishaps    \* bound: crashes, exceptions and leases outlived by their holder

ASSUME BatchAssumption == BatchSize \in Nat \ {0}
ASSUME BoundAssumption == MaxOutbox \in Nat /\ MaxRebuilds \in Nat /\ MaxMishaps \in Nat
ASSUME AdversityAssumption == Adversity \subseteq {"straggle", "overlap"}

Ids == 1 .. MaxOutbox
NoFact == 0
Nobody == "nobody"
NoDatabase == "no database"
NoKey == "no key"
ASSUME NamesAssumption ==
    /\ Workers \cap Rebuilders = {} /\ Nobody \notin Workers \cup Rebuilders
    /\ NoDatabase \notin Databases /\ NoKey \notin Keys /\ Databases # {}

VARIABLES
    change,      \* the rows of each id: its key, the fact it asserts or NoFact
    committed,   \* ids whose transaction has committed
    current,     \* the fact of each key with system_to IS NULL
    deployment,  \* the tenant_graph_deployment row
    delivery,    \* graph_projection_delivery: status and owner, by id
    graph,       \* each Neo4j database: the fact behind each relationship
    worker,      \* each worker process
    rebuild,     \* each rebuild process
    rebuilds, mishaps  \* counters for the bounds

store == <<change, committed, current>>
control == <<deployment, delivery>>
bounds == <<rebuilds, mishaps>>
vars == <<store, control, graph, worker, rebuild, bounds>>

Greatest(a, b) == IF a < b THEN b ELSE a
MaxOr(S, default) == IF S = {} THEN default ELSE Max(S)
Lowest(n, S) == {i \in S : Cardinality({j \in S : j < i}) < n}

-----------------------------------------------------------------------------
(* Publication.                                                            *)

NoChange == [key |-> NoKey, fact |-> NoFact]
Allocated == {i \in Ids : change[i] # NoChange}
Open == Allocated \ committed

\* publish_source_snapshot allocates ids; the target's row lock admits one publication of
\* a key at a time.
BeginPublish(k, asserts) ==
    /\ \A i \in Open : change[i].key # k
    /\ "overlap" \in Adversity \/ Open = {}
    /\ asserts \/ current[k] # NoFact
    /\ Ids # Allocated
    /\ LET i == Min(Ids \ Allocated)
       IN  change' = [change EXCEPT ![i] = [key |-> k, fact |-> IF asserts THEN i ELSE NoFact]]
    /\ UNCHANGED <<committed, current, control, graph, worker, rebuild, bounds>>

\* The delivery trigger of an ACTIVE deployment and the commit: between the two the
\* transaction holds the deployment's row lock.
CommitPublish(i) ==
    /\ i \in Open
    /\ committed' = committed \cup {i}
    /\ current' = [current EXCEPT ![change[i].key] = change[i].fact]
    /\ delivery' = [delivery EXCEPT ![i].status = "PENDING"]
    /\ deployment' = [deployment EXCEPT !.desired = Greatest(@, i)]
    /\ UNCHANGED <<change, graph, worker, rebuild, bounds>>

-----------------------------------------------------------------------------
(* Both writers.                                                           *)

\* build_mutation_batch and apply: every key of the batch loses its relationship, then
\* the facts that were current when loaded get theirs.
Projected(db, batch, view) ==
    [k \in Keys |->
        LET facts == {change[i].fact : i \in {j \in batch : change[j].key = k}}
        IN  IF facts = {} THEN graph[db][k]
            ELSE IF view[k] \in facts THEN view[k] ELSE NoFact]

Released(d) == [d EXCEPT !.owner = Nobody, !.leased = FALSE]

-----------------------------------------------------------------------------
(* The projection worker: run_until_empty keeps the writer it opened for   *)
(* the deployment until the run ends.                                      *)

Out == [pc |-> "out", batch |-> {}, view |-> [k \in Keys |-> NoFact], writer |-> NoDatabase]

Undone == {i \in Ids : delivery[i].status \in {"PENDING", "PROCESSING"}}

\* Fault: workers keep off a deployment that is being rebuilt.
ReadyUnlessRebuilt == deployment.rebuild # "RUNNING" /\ ~deployment.leased /\ Undone # {}

DeploymentReady == ~deployment.leased /\ Undone # {}

\* _claim_batch, then _writer_for: nothing asks for rebuild_state.
Claim(w) ==
    /\ worker[w].pc \in {"out", "between"}
    /\ DeploymentReady
    /\ LET batch == Lowest(BatchSize, Undone)
       IN  /\ delivery' = [i \in Ids |-> IF i \in batch
                              THEN [status |-> "PROCESSING", owner |-> w] ELSE delivery[i]]
           /\ worker' = [worker EXCEPT ![w].pc = "claimed", ![w].batch = batch,
                  ![w].writer = IF @ = NoDatabase THEN deployment.database ELSE @]
    /\ deployment' = [deployment EXCEPT !.owner = w, !.leased = TRUE]
    /\ UNCHANGED <<store, graph, rebuild, bounds>>

\* Nothing can be claimed: the run ends and its writers are closed.
EndRun(w) ==
    /\ worker[w].pc = "between"
    /\ ~DeploymentReady
    /\ worker' = [worker EXCEPT ![w] = Out]
    /\ UNCHANGED <<store, control, graph, rebuild, bounds>>

Load(w) ==
    /\ worker[w].pc = "claimed"
    /\ worker' = [worker EXCEPT ![w].pc = "loaded", ![w].view = current]
    /\ UNCHANGED <<store, control, graph, rebuild, bounds>>

Apply(w) ==
    /\ worker[w].pc = "loaded"
    /\ graph' = [graph EXCEPT ![worker[w].writer] =
                     Projected(worker[w].writer, worker[w].batch, worker[w].view)]
    /\ worker' = [worker EXCEPT ![w].pc = "applied"]
    /\ UNCHANGED <<store, control, rebuild, bounds>>

Processed == [status |-> "PROCESSED", owner |-> Nobody]
AllProcessed(d) == \A i \in committed : d[i].status = "PROCESSED"

\* _mark_processed: deliveries somebody else has taken are left alone, the watermark moves
\* under the lease, and the last delivery requests an analysis.
MarkProcessed(w) ==
    /\ worker[w].pc = "applied"
    /\ delivery' = [i \in Ids |-> IF i \in worker[w].batch /\ delivery[i].owner = w
                                  THEN Processed ELSE delivery[i]]
    /\ LET mark == Greatest(deployment.projected, Max(worker[w].batch))
           caughtUp == AllProcessed(delivery') /\ mark >= deployment.desired
       IN  IF deployment.owner # w THEN UNCHANGED deployment
           ELSE deployment' = [Released(deployment) EXCEPT !.projected = mark,
                    !.requested = IF caughtUp THEN Greatest(@, mark) ELSE @]
    /\ worker' = [worker EXCEPT ![w].pc = "between", ![w].batch = {}, ![w].view = Out.view]
    /\ UNCHANGED <<store, graph, rebuild, bounds>>

WorkerCrash(w) ==
    /\ worker[w].pc # "out"
    /\ mishaps < MaxMishaps
    /\ worker' = [worker EXCEPT ![w] = Out]
    /\ mishaps' = mishaps + 1
    /\ UNCHANGED <<store, control, graph, rebuild, rebuilds>>

-----------------------------------------------------------------------------
(* The rebuild: Neo4jBlueGreenRebuilder.rebuild.                           *)

Ended == [pc |-> "out", candidate |-> NoDatabase, mark |-> 0, target |-> 0, cursor |-> 0,
          batch |-> {}, view |-> [k \in Keys |-> NoFact]]
At(r, pc) == rebuild[r].pc = pc
Goes(r, pc) == rebuild' = [rebuild EXCEPT ![r].pc = pc]

\* Fault: a rebuild left RUNNING does not stop the next one.
MayBeginBeside == ~deployment.leased
MayBegin == deployment.rebuild # "RUNNING" /\ ~deployment.leased

Begin(r, candidate) ==
    /\ At(r, "out") /\ rebuilds < MaxRebuilds
    /\ MayBegin
    /\ candidate # deployment.database
    /\ deployment' = [deployment EXCEPT !.rebuild = "RUNNING", !.owner = r, !.leased = TRUE]
    /\ rebuild' = [rebuild EXCEPT ![r].pc = "begun", ![r].candidate = candidate]
    /\ rebuilds' = rebuilds + 1
    /\ UNCHANGED <<store, delivery, graph, worker, mishaps>>

\* writer.reset()
Reset(r) ==
    /\ At(r, "begun")
    /\ graph' = [graph EXCEPT ![rebuild[r].candidate] = [k \in Keys |-> NoFact]]
    /\ Goes(r, "snapshot")
    /\ UNCHANGED <<store, control, worker, bounds>>

MaximumOutbox == MaxOr(committed, 0)

\* Fault: an exclusive bound.
LastButOne == MaximumOutbox - 1
\* Fault: off by one, the next id to come counts as covered.
NextMark == MaximumOutbox + 1
SnapshotMark == MaximumOutbox

\* BEGIN ISOLATION LEVEL REPEATABLE READ: the watermark and the facts are of one moment.
Snapshot(r) ==
    /\ At(r, "snapshot")
    /\ rebuild' = [rebuild EXCEPT ![r].pc = "copy", ![r].view = current, ![r].mark = SnapshotMark]
    /\ UNCHANGED <<store, control, graph, worker, bounds>>

\* The snapshot's facts are written; each batch is followed by a heartbeat.
Copy(r) ==
    /\ At(r, "copy")
    /\ graph' = [graph EXCEPT ![rebuild[r].candidate] =
                     [k \in Keys |-> IF rebuild[r].view[k] = NoFact THEN @[k] ELSE rebuild[r].view[k]]]
    /\ rebuild' = [rebuild EXCEPT ![r].view = Ended.view,
                       ![r].pc = IF rebuild[r].view = Ended.view THEN "target" ELSE "copied"]
    /\ UNCHANGED <<store, control, worker, bounds>>

\* Fault: the lease is not looked at.
HoldsState(r) == deployment.rebuild = "RUNNING"
Holds(r) == deployment.rebuild = "RUNNING" /\ deployment.owner = r

\* _heartbeat renews a lease that has run out as long as nobody has taken it.
Heartbeat(r) ==
    /\ rebuild[r].pc \in {"copied", "written"}
    /\ Holds(r)
    /\ deployment' = [deployment EXCEPT !.leased = TRUE]
    /\ Goes(r, IF At(r, "copied") THEN "target" ELSE "read")
    /\ UNCHANGED <<store, delivery, graph, worker, bounds>>

\* The catch-up loop: its target is the newest committed id.
Target(r) ==
    /\ At(r, "target")
    /\ rebuild' = [rebuild EXCEPT ![r].pc = "read", ![r].target = MaximumOutbox,
                       ![r].cursor = rebuild[r].mark]
    /\ UNCHANGED <<store, control, graph, worker, bounds>>

\* _outbox_batches: committed rows up to the target, with the facts as they are now.
Pending(r) == {i \in committed : rebuild[r].cursor < i /\ i <= rebuild[r].target}

Read(r) ==
    /\ At(r, "read")
    /\ IF Pending(r) = {}
       THEN rebuild' = [rebuild EXCEPT ![r].pc = "validate",
                            ![r].mark = Greatest(@, rebuild[r].target),
                            ![r].target = 0, ![r].cursor = 0]
       ELSE rebuild' = [rebuild EXCEPT ![r].pc = "write", ![r].view = current,
                            ![r].batch = Lowest(BatchSize, Pending(r))]
    /\ UNCHANGED <<store, control, graph, worker, bounds>>

Write(r) ==
    /\ At(r, "write")
    /\ graph' = [graph EXCEPT ![rebuild[r].candidate] =
                     Projected(rebuild[r].candidate, rebuild[r].batch, rebuild[r].view)]
    /\ rebuild' = [rebuild EXCEPT ![r].pc = "written", ![r].cursor = Max(rebuild[r].batch),
                       ![r].batch = {}, ![r].view = Ended.view]
    /\ UNCHANGED <<store, control, worker, bounds>>

\* The inventories hold logical keys, not the facts behind them.
Shown(facts) == {k \in Keys : facts[k] # NoFact}
Parity(r) == Shown(current) = Shown(graph[rebuild[r].candidate])

\* Something was committed since the catch-up.
Late(r) == MaximumOutbox > rebuild[r].mark

Validate(r) ==
    /\ At(r, "validate")
    /\ Late(r) \/ Parity(r)
    /\ Goes(r, IF Late(r) THEN "target" ELSE "activate")
    /\ UNCHANGED <<store, control, graph, worker, bounds>>

\* Fault: everything enqueued is declared delivered to the new database.
AllCovered(r) == {i \in Ids : delivery[i].status # "NONE"}
\* The deliveries the switch declares PROCESSED.
Covered(r) == {i \in Ids : delivery[i].status # "NONE" /\ i <= rebuild[r].mark}

\* Fault: the analysis waits for the projection.
NotRequested(r) == deployment.requested
Requested(r) == Greatest(deployment.requested, rebuild[r].mark)

\* A worker that is between two batches polls while a rebuild runs, and ends its run.
Lingering(w, db) == worker[w].pc # "out" /\ worker[w].writer # db

\* _activate: the switch, the deliveries and the analysis in one transaction.
Activate(r) ==
    /\ At(r, "activate")
    /\ Holds(r)
    /\ "straggle" \in Adversity \/ \A w \in Workers : ~Lingering(w, rebuild[r].candidate)
    /\ deployment' = [Released(deployment) EXCEPT !.database = rebuild[r].candidate,
           !.projected = rebuild[r].mark, !.rebuild = "IDLE", !.requested = Requested(r)]
    /\ delivery' = [i \in Ids |-> IF i \in Covered(r) THEN Processed ELSE delivery[i]]
    /\ rebuild' = [rebuild EXCEPT ![r] = Ended]
    /\ UNCHANGED <<store, graph, worker, bounds>>

\* _fail gives the lease back if it is still the rebuild's, and nothing otherwise.
Fails(r) ==
    /\ deployment' = IF deployment.owner # r THEN deployment
                     ELSE [Released(deployment) EXCEPT !.rebuild = "FAILED"]
    /\ rebuild' = [rebuild EXCEPT ![r] = Ended]
    /\ UNCHANGED <<store, delivery, graph, worker, rebuilds>>

\* The lease was lost before a heartbeat or the activation, or the inventories differ.
Refused(r) == \/ rebuild[r].pc \in {"copied", "written", "activate"} /\ ~Holds(r)
              \/ At(r, "validate") /\ ~Late(r) /\ ~Parity(r)

Raise(r) == Refused(r) /\ Fails(r) /\ UNCHANGED mishaps

\* Either database may raise an exception anywhere.
RebuildBreaks(r) ==
    /\ ~At(r, "out")
    /\ mishaps < MaxMishaps /\ mishaps' = mishaps + 1
    /\ Fails(r)

RebuildCrash(r) ==
    /\ ~At(r, "out")
    /\ mishaps < MaxMishaps /\ mishaps' = mishaps + 1
    /\ rebuild' = [rebuild EXCEPT ![r] = Ended]
    /\ UNCHANGED <<store, control, graph, worker, rebuilds>>

-----------------------------------------------------------------------------
\* Five minutes pass without a heartbeat.  A rebuild may outlive its lease; a worker
\* with a batch only if it straggles.
LeaseExpires ==
    /\ deployment.leased
    /\ IF \E w \in Workers : deployment.owner = w /\ worker[w].batch # {}
       THEN "straggle" \in Adversity /\ mishaps < MaxMishaps /\ mishaps' = mishaps + 1
       ELSE IF \E r \in Rebuilders : deployment.owner = r /\ ~At(r, "out")
       THEN mishaps < MaxMishaps /\ mishaps' = mishaps + 1
       ELSE UNCHANGED mishaps
    /\ deployment' = [deployment EXCEPT !.leased = FALSE]
    /\ UNCHANGED <<store, delivery, graph, worker, rebuild, rebuilds>>

\* The tenant's deployment is registered and has nothing to show yet.
Init ==
    /\ change = [i \in Ids |-> NoChange]
    /\ committed = {}
    /\ current = [k \in Keys |-> NoFact]
    /\ deployment =
           [database |-> CHOOSE db \in Databases : TRUE, rebuild |-> "IDLE", owner |-> Nobody, leased |-> FALSE,
            desired |-> 0, projected |-> 0, requested |-> 0]
    /\ delivery = [i \in Ids |-> [status |-> "NONE", owner |-> Nobody]]
    /\ graph = [db \in Databases |-> [k \in Keys |-> NoFact]]
    /\ worker = [w \in Workers |-> Out]
    /\ rebuild = [r \in Rebuilders |-> Ended]
    /\ rebuilds = 0 /\ mishaps = 0

Work(w) == EndRun(w) \/ Load(w) \/ Apply(w) \/ MarkProcessed(w)
Step(r) == \/ Reset(r) \/ Snapshot(r) \/ Copy(r) \/ Heartbeat(r) \/ Target(r) \/ Read(r)
           \/ Write(r) \/ Validate(r) \/ Activate(r) \/ Raise(r)

Next ==
    \/ \E k \in Keys, asserts \in BOOLEAN : BeginPublish(k, asserts)
    \/ \E i \in Ids : CommitPublish(i)
    \/ \E w \in Workers : Claim(w) \/ Work(w) \/ WorkerCrash(w)
    \/ \E r \in Rebuilders : \/ \E db \in Databases : Begin(r, db)
                             \/ Step(r) \/ RebuildBreaks(r) \/ RebuildCrash(r)
    \/ LeaseExpires

Spec == Init /\ [][Next]_vars

\* The worker service keeps polling, started work goes on and the clock runs; nobody is
\* obliged to publish or to rebuild.
FairSpec ==
    /\ Spec
    /\ WF_vars(\E w \in Workers : Claim(w))
    /\ \A w \in Workers : WF_vars(Work(w))
    /\ \A r \in Rebuilders : WF_vars(Step(r))
    /\ WF_vars(LeaseExpires)
-----------------------------------------------------------------------------
(* Properties.                                                             *)

Facts == [Keys -> Ids \cup {NoFact}]
Holder == Workers \cup Rebuilders \cup {Nobody}
Deployment == [database : Databases, rebuild : {"IDLE", "RUNNING", "FAILED"}, owner : Holder,
               leased : BOOLEAN, desired : Nat, projected : Nat, requested : Nat]
Delivery == [status : {"NONE", "PENDING", "PROCESSING", "PROCESSED"}, owner : Workers \cup {Nobody}]
Worker == [pc : {"out", "between", "claimed", "loaded", "applied"}, batch : SUBSET Ids,
           view : Facts, writer : Databases \cup {NoDatabase}]
Rebuild == [pc : {"out", "begun", "snapshot", "copy", "copied", "target", "read", "write",
                  "written", "validate", "activate"},
            candidate : Databases \cup {NoDatabase}, mark : Nat, target : Nat, cursor : Nat,
            batch : SUBSET Ids, view : Facts]

\* The columns stay within their types and CHECK constraints.
TypeOK ==
    /\ change \in [Ids -> [key : Keys \cup {NoKey}, fact : Ids \cup {NoFact}]]
    /\ committed \subseteq Allocated /\ current \in Facts
    /\ deployment \in Deployment
    /\ delivery \in [Ids -> Delivery]
    /\ graph \in [Databases -> Facts]
    /\ worker \in [Workers -> Worker]
    /\ rebuild \in [Rebuilders -> Rebuild]
    /\ rebuilds \in 0 .. MaxRebuilds /\ mishaps \in 0 .. MaxMishaps

\* A rebuild goes on writing after it has lost its lease, until its next heartbeat: even
\* so no two rebuilds are ever at work, and none writes the database that serves reads.
CandidateIsPrivate ==
    \A r \in Rebuilders : ~At(r, "out") =>
        /\ rebuild[r].candidate # deployment.database
        /\ \A q \in Rebuilders \ {r} : At(q, "out")

\* Neo4jProjectionState.current: the API answers from Neo4j.
Serving == deployment.projected >= deployment.desired

\* The switch keeps the promise the API relies on: while the watermark says that the graph
\* is caught up, the database that serves shows exactly the current facts, although the
\* parity check compares no facts and changes commit between it and the switch.  (While
\* publications do not overlap and no worker outlives its lease or a whole rebuild.)
ServedGraphIsCurrent == Serving => graph[deployment.database] = current

\* The watermark is set to the rebuild's own at the switch, not to the greater of the two:
\* a switch after a worker has gone on projecting would move it back.
WatermarkNeverFallsBack == [][deployment'.projected >= deployment.projected]_vars

\* Whoever finishes the last delivery, a worker or the switch, and whichever deliveries the
\* switch takes over: once nothing is left to deliver, the analysis of everything is requested.
CatchUpRequestsAnalysis ==
    AllProcessed(delivery) => deployment.requested >= MaxOr(committed, 0)

\* A rebuild that dies, or loses its lease, leaves rebuild_state RUNNING for good; the
\* projection goes on in spite of it, and delivers every change.
DeliveriesEnd ==
    \A i \in Ids : delivery[i].status \in {"PENDING", "PROCESSING"}
                     ~> delivery[i].status = "PROCESSED"

Replica == INSTANCE ReplicatedGraph WITH
    Facts <- Ids,
    source <- [k \in Keys |-> {current[k]} \ {NoFact}],
    replica <- graph[deployment.database],
    dirty <- {change[i].key : i \in Undone}

\* Readers of the deployment's database see one replica through every switch: it lags only
\* on keys with a delivery to come, and the switch cleans no key it shows wrongly.
Refines == Replica!Spec
=============================================================================
